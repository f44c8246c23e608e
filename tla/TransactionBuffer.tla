------------------------- MODULE TransactionBuffer -------------------------
(***************************************************************************)
(* The patch a SqliteTransactionImpl buffers in memory between             *)
(* createTransaction() and commit().  A quad is known by its key (the four *)
(* termKeys of its positions): the code's `inserted` is a Map and          *)
(* `deleted` a Set over those keys, here two sets of keys.                 *)
(***************************************************************************)

CONSTANT Key  \* the quad keys in play

Buffer == [ins : SUBSET Key, del : SUBSET Key]

EmptyBuffer == [ins |-> {}, del |-> {}]

\* A mutant: the buffered delete of the quad stays.
BufferAddKeepsDelete(b, k) == [b EXCEPT !.ins = @ \cup {k}]

\* add(quad): an insert cancels a buffered delete of the same key.
BufferAdd(b, k) == [ins |-> b.ins \cup {k}, del |-> b.del \ {k}]

\* A mutant: no early return.
BufferDeleteAlways(b, k) == [ins |-> b.ins \ {k}, del |-> b.del \cup {k}]

\* delete(quad): if an insert of the key was buffered it is dropped and the
\* call returns early, leaving no delete behind.
BufferDelete(b, k) ==
    IF k \in b.ins THEN [b EXCEPT !.ins = @ \ {k}]
                   ELSE [b EXCEPT !.del = @ \cup {k}]

\* What a commit makes of a table: every delete, then every insert.
Apply(b, table) == (table \ b.del) \cup b.ins
=============================================================================

--------------------------- MODULE MCSqliteStore ---------------------------
\* Instances of SqliteStore for TLC.
EXTENDS SqliteStore

CONSTANTS p1, p2, t1, t2

\* Two processes with one transaction each.
EachOwnsOne == [t \in Tx |-> IF t = t1 THEN p1 ELSE p2]

\* The transactions belong to the second process.
OtherOwnsAll == [t \in Tx |-> p2]

\* Every payload gives its own quad back.
Faithful == [k \in Key |-> k]

\* Key 2 is a literal with a base direction, key 1 the same literal without:
\* the payload drops the direction.
DropsDirection == [k \in Key |-> IF k = 2 THEN 1 ELSE k]

NoReads == [p \in Proc |-> {}]

\* p1's clients match everything.
ReaderOfAll == [p \in Proc |-> IF p = p1 THEN {Key} ELSE {}]
=============================================================================

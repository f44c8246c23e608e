---------------------------- MODULE MemoryStream ----------------------------
(***************************************************************************)
(* memory-stream.ts: the stream match() and removeMatches() return.  Its   *)
(* client attaches listeners and reads at any time, also from inside a     *)
(* data listener; the stream works in the microtasks it has queued, which  *)
(* run in order and to their end.                                          *)
(*                                                                         *)
(* The quads are told apart only by their place, so the array is its       *)
(* length.  The listeners of one kind behave as one: "data", "once" and     *)
(* "prepended" are data listeners attached with on, once, prependListener. *)
(***************************************************************************)
EXTENDS Naturals, Sequences

CONSTANTS
    Quads,  \* how many quads the stream was made with
    Ops,    \* what this client does
    MaxOps  \* bounds how many calls the client makes

ASSUME BoundsAssumption == Quads \in Nat /\ MaxOps \in Nat
ASSUME OpsAssumption ==
    Ops \subseteq {"data", "once", "prepended", "readable", "end", "remove",
                   "read", "destroy"}

VARIABLES
    left,     \* the length of quads
    on,       \* the kinds of listeners attached
    end,      \* _ended: "no", or set with the event "end", or by destroy
    flowing,  \* _flowing
    started,  \* _readStarted
    micro,    \* the microtasks queued
    drain,    \* the loop of _drain: "no", "starts", or "emits" to a listener
    given,    \* how many quads went to data listeners
    told,     \* an end listener was called
    stopped,  \* history: a drain ran out of listeners before the last quad
    ops       \* how many calls the client has made

vars == <<left, on, end, flowing, started, micro, drain, given, told, stopped, ops>>

DataListeners == {"data", "once", "prepended"}
Consumers == DataListeners \cup {"readable"}

Init ==
    /\ left = Quads
    /\ on = {}
    /\ end = "no"
    /\ flowing = FALSE /\ started = FALSE
    /\ micro = <<>>
    /\ drain = "no"
    /\ given = 0
    /\ told = FALSE /\ stopped = FALSE
    /\ ops = 0

Queue(task) == micro' = Append(micro, task)

\* _end
EndNow ==
    IF end # "no" THEN UNCHANGED <<end, told>>
    ELSE end' = "ended" /\ told' = ("end" \in on)

-----------------------------------------------------------------------------
\* The client's calls: between microtasks, or inside a listener.

Ask(op) == op \in Ops /\ drain # "starts" /\ ops < MaxOps /\ ops' = ops + 1

\* A mutant: the first data listener starts nothing.
OnDataLate(kind) ==
    /\ Ask(kind) /\ kind \in {"data", "once"}
    /\ on' = on \cup {kind}
    /\ UNCHANGED <<left, end, flowing, started, micro, drain, given, told, stopped>>

\* on("data"), once("data"): the first of them starts the flow.
OnData(kind) ==
    /\ Ask(kind) /\ kind \in {"data", "once"}
    /\ on' = on \cup {kind}
    /\ IF end = "no" /\ ~flowing THEN flowing' = TRUE /\ Queue("drain")
                                 ELSE UNCHANGED <<flowing, micro>>
    /\ UNCHANGED <<left, end, started, drain, given, told, stopped>>

\* on("readable"), on("end"): a microtask looks again at what is attached.
OnOther(kind) ==
    /\ Ask(kind) /\ kind \in {"readable", "end"}
    /\ on' = on \cup {kind}
    /\ IF end = "no" /\ (kind = "readable" => left > 0) THEN Queue(kind)
                                                        ELSE UNCHANGED micro
    /\ UNCHANGED <<left, end, flowing, started, drain, given, told, stopped>>

\* prependListener("data") attaches and does no more.
PrependData ==
    /\ Ask("prepended")
    /\ on' = on \cup {"prepended"}
    /\ UNCHANGED <<left, end, flowing, started, micro, drain, given, told, stopped>>

\* Listeners of any kinds are removed.
Remove ==
    /\ Ask("remove")
    /\ \E gone \in SUBSET on : gone # {} /\ on' = on \ gone
    /\ UNCHANGED <<left, end, flowing, started, micro, drain, given, told, stopped>>

\* Mutants: the empty array is not noticed; the last quad is.
ReadPastEnd ==
    /\ Ask("read")
    /\ started' = TRUE /\ left' = left - 1
    /\ UNCHANGED <<on, end, told, flowing, micro, drain, given, stopped>>
ReadEndsEarly ==
    /\ Ask("read")
    /\ started' = TRUE
    /\ IF left > 1 THEN left' = left - 1 /\ UNCHANGED <<end, told>>
                   ELSE EndNow /\ UNCHANGED left
    /\ UNCHANGED <<on, flowing, micro, drain, given, stopped>>

Read ==
    /\ Ask("read")
    /\ started' = TRUE
    /\ IF left > 0 THEN left' = left - 1 /\ UNCHANGED <<end, told>>
                   ELSE EndNow /\ UNCHANGED left
    /\ UNCHANGED <<on, flowing, micro, drain, given, stopped>>

Destroy ==
    /\ Ask("destroy")
    /\ end' = IF end = "no" THEN "destroyed" ELSE end
    /\ on' = {}
    /\ UNCHANGED <<left, flowing, started, micro, drain, given, told, stopped>>

-----------------------------------------------------------------------------
\* The microtasks.

Next1(task) == drain = "no" /\ micro # <<>> /\ Head(micro) = task /\ micro' = Tail(micro)

DrainStarts ==
    /\ Next1("drain")
    /\ drain' = IF end = "no" /\ flowing THEN "starts" ELSE "no"
    /\ UNCHANGED <<left, on, end, flowing, started, given, told, stopped, ops>>

\* One turn of _drain's loop: a wrapper made by once takes itself off first,
\* and a listener may do anything before the next turn.
EmitData ==
    /\ drain # "no" /\ on \cap DataListeners # {} /\ left > 0
    /\ drain' = "emits"
    /\ left' = left - 1
    /\ given' = given + 1
    /\ on' = on \ {"once"}
    /\ UNCHANGED <<end, flowing, started, micro, told, stopped, ops>>

\* A mutant: the drained stream does not end.
DrainEndsSilently ==
    /\ drain # "no" /\ (on \cap DataListeners = {} \/ left = 0)
    /\ drain' = "no"
    /\ stopped' = (stopped \/ left > 0)
    /\ UNCHANGED <<left, on, end, told, flowing, started, micro, given, ops>>

DrainEnds ==
    /\ drain # "no" /\ (on \cap DataListeners = {} \/ left = 0)
    /\ drain' = "no"
    /\ stopped' = (stopped \/ left > 0)
    /\ IF left = 0 THEN EndNow ELSE UNCHANGED <<end, told>>
    /\ UNCHANGED <<left, on, flowing, started, micro, given, ops>>

\* "readable" is emitted, if at all; what its listener does is the client's.
ReadableTask ==
    /\ Next1("readable")
    /\ UNCHANGED <<left, on, end, flowing, started, drain, given, told, stopped, ops>>

\* A mutant: a reader that was there is not remembered.
EndTaskForgetsReader ==
    /\ Next1("end")
    /\ IF end = "no" /\ ~flowing /\ on \cap Consumers = {}
       THEN EndNow ELSE UNCHANGED <<end, told>>
    /\ UNCHANGED <<left, on, flowing, started, drain, given, stopped, ops>>

\* Nobody but end listeners has come: a bare completion signal.
EndTask ==
    /\ Next1("end")
    /\ IF end = "no" /\ ~flowing /\ ~started /\ on \cap Consumers = {}
       THEN EndNow ELSE UNCHANGED <<end, told>>
    /\ UNCHANGED <<left, on, flowing, started, drain, given, stopped, ops>>

Client ==
    \/ \E kind \in {"data", "once"} : OnData(kind)
    \/ \E kind \in {"readable", "end"} : OnOther(kind)
    \/ PrependData \/ Remove \/ Read \/ Destroy

Microtask == DrainStarts \/ EmitData \/ DrainEnds \/ ReadableTask \/ EndTask

Next == Client \/ Microtask

Spec == Init /\ [][Next]_vars

\* The runtime runs what is queued.
FairSpec == Spec /\ WF_vars(Microtask)

-----------------------------------------------------------------------------
TypeOK ==
    /\ left \in 0..Quads /\ given \in 0..Quads
    /\ on \subseteq Consumers \cup {"end"}
    /\ end \in {"no", "ended", "destroyed"}
    /\ {flowing, started, told, stopped} \subseteq BOOLEAN
    /\ drain \in {"no", "starts", "emits"}
    /\ micro \in Seq({"drain", "readable", "end"})
    /\ ops \in 0..MaxOps

\* "end" comes with quads unread only as a bare completion signal, when none
\* was consumed and nobody who could consume is attached: not before a flow
\* that is still queued, and not between a removal and a new listener.
EndLosesNothing ==
    [][end = "no" /\ end' = "ended" =>
          left = 0 \/ (left = Quads /\ on \cap Consumers = {} /\ ~flowing)]_vars

\* After its end event a stream gives no quad to a data listener, whatever is
\* attached, queued or removed then.
NoDataAfterEnd == [][told => given' = given]_vars

\* A data listener that stays attached sees the stream to its end, through any
\* reads, removals and additions of others, unless it came after a drain that
\* had run out of listeners.
DataDrains ==
    "data" \in on /\ ~stopped ~> end # "no" \/ stopped \/ "data" \notin on

\* An end listener hears the end of the stream a data listener beside it
\* consumes, once and for all, unless the flow had stopped.
EndIsTold ==
    {"data", "end"} \subseteq on /\ end = "no" /\ ~stopped ~>
        told \/ stopped \/ ~({"data", "end"} \subseteq on)
=============================================================================

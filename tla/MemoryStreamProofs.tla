------------------------- MODULE MemoryStreamProofs -------------------------
(***************************************************************************)
(* Proofs about MemoryStream, for streams of any length and any client.    *)
(***************************************************************************)
EXTENDS MemoryStream, TLAPS

\* Every quad is left, or was given to a data listener, or was read.
Shared == left + given <= Quads

\* A quad is missing only if a flow was started or somebody read.
TakenByConsumer == left < Quads => flowing \/ started

\* The drain loop runs only in a flow.
DrainsInFlow == drain # "no" => flowing

\* An end event was the end, and none of the quads it left will be drained.
EndIsOver == told => end = "ended" /\ (left = 0 \/ drain = "no")

StreamInv == TypeOK /\ Shared /\ TakenByConsumer /\ DrainsInFlow /\ EndIsOver

LEMMA StreamStarts == Init => StreamInv
  <1>1. <<>> \in Seq({"drain", "readable", "end"})
    OBVIOUS
  <1> SUFFICES ASSUME Init PROVE StreamInv
    OBVIOUS
  <1>2. flowing = FALSE /\ started = FALSE /\ told = FALSE /\ stopped = FALSE
    BY DEF Init
  <1>3. TypeOK
    <2>1. {flowing, started, told, stopped} \subseteq BOOLEAN
      BY <1>2
    <2>2. left \in 0..Quads /\ given \in 0..Quads /\ ops \in 0..MaxOps
      BY BoundsAssumption DEF Init
    <2> QED
      BY <1>1, <2>1, <2>2 DEF Init, TypeOK
  <1> QED
    BY <1>2, <1>3, BoundsAssumption
       DEF Init, StreamInv, Shared, TakenByConsumer, DrainsInFlow, EndIsOver

\* Ending tells the listeners only if nothing is left to be drained.
LEMMA EndNowEnds ==
    ASSUME StreamInv, EndNow, UNCHANGED <<left, on, flowing, given>>,
           left = 0 \/ drain' = "no", started \in BOOLEAN, started => started',
           DrainsInFlow'
    PROVE  /\ end' \in {"no", "ended", "destroyed"} /\ told' \in BOOLEAN
           /\ Shared' /\ TakenByConsumer' /\ EndIsOver'
  <1>1. /\ end \in {"no", "ended", "destroyed"} /\ told \in BOOLEAN
        /\ Shared /\ TakenByConsumer /\ EndIsOver
    BY DEF StreamInv, TypeOK
  <1>2. CASE end # "no"
    <2>1. end' = end /\ told' = told
      BY <1>2 DEF EndNow
    <2> QED
      BY <1>1, <2>1 DEF Shared, TakenByConsumer, EndIsOver
  <1>3. CASE end = "no"
    <2>1. end' = "ended" /\ told' \in BOOLEAN
      BY <1>3 DEF EndNow
    <2> QED
      BY <1>1, <2>1 DEF Shared, TakenByConsumer, EndIsOver
  <1> QED
    BY <1>2, <1>3

-----------------------------------------------------------------------------
\* The client's calls.

LEMMA AskCounts ==
    ASSUME NEW op, Ask(op), ops \in 0..MaxOps
    PROVE  ops' \in 0..MaxOps
  BY BoundsAssumption DEF Ask

LEMMA ClientKeeps ==
    ASSUME StreamInv, Client
    PROVE  StreamInv'
  <1> USE DEF StreamInv, TypeOK, Shared, TakenByConsumer, DrainsInFlow, EndIsOver
  <1>0. /\ left \in Nat /\ given \in Nat /\ Quads \in Nat
        /\ ops \in 0..MaxOps
    BY BoundsAssumption
  <1>1. ASSUME NEW kind \in {"data", "once"}, OnData(kind) PROVE StreamInv'
    <2>1. ops' \in 0..MaxOps
      BY <1>1, AskCounts DEF OnData
    <2>2. micro' \in Seq({"drain", "readable", "end"})
      BY <1>1 DEF OnData, Queue
    <2> QED
      BY <1>0, <1>1, <2>1, <2>2 DEF OnData, Consumers, DataListeners
  <1>2. ASSUME NEW kind \in {"readable", "end"}, OnOther(kind) PROVE StreamInv'
    <2>1. ops' \in 0..MaxOps
      BY <1>2, AskCounts DEF OnOther
    <2>2. micro' \in Seq({"drain", "readable", "end"})
      BY <1>2 DEF OnOther, Queue
    <2> QED
      BY <1>0, <1>2, <2>1, <2>2 DEF OnOther, Consumers, DataListeners
  <1>3. CASE PrependData
    BY <1>0, <1>3, AskCounts DEF PrependData, Consumers, DataListeners
  <1>4. CASE Remove
    BY <1>0, <1>4, AskCounts DEF Remove
  <1>5. CASE Read
    <2>1. ops' \in 0..MaxOps
      BY <1>5, AskCounts DEF Read
    <2>2. CASE left > 0
      BY <1>0, <1>5, <2>1, <2>2 DEF Read
    <2>3. CASE left = 0
      <3>1. EndNow
        BY <1>5, <2>3 DEF Read
      <3> QED
        BY <1>5, <2>1, <2>3, <3>1, EndNowEnds DEF Read
    <2> QED
      BY <1>0, <2>2, <2>3
  <1>6. CASE Destroy
    BY <1>0, <1>6, AskCounts DEF Destroy
  <1> QED
    BY <1>1, <1>2, <1>3, <1>4, <1>5, <1>6 DEF Client

-----------------------------------------------------------------------------
\* The microtasks.

LEMMA QueueShrinks ==
    ASSUME NEW task, Next1(task), micro \in Seq({"drain", "readable", "end"})
    PROVE  micro' \in Seq({"drain", "readable", "end"})
  BY DEF Next1

LEMMA MicrotaskKeeps ==
    ASSUME StreamInv, Microtask
    PROVE  StreamInv'
  <1> USE DEF StreamInv, TypeOK, Shared, TakenByConsumer, DrainsInFlow, EndIsOver
  <1>0. left \in Nat /\ given \in Nat /\ Quads \in Nat
    BY BoundsAssumption
  <1>1. CASE DrainStarts
    BY <1>0, <1>1, QueueShrinks DEF DrainStarts
  <1>2. CASE EmitData
    BY <1>0, <1>2 DEF EmitData
  <1>3. CASE DrainEnds
    <2>1. CASE left = 0
      BY <1>3, <2>1, EndNowEnds DEF DrainEnds
    <2>2. CASE left # 0
      BY <1>0, <1>3, <2>2 DEF DrainEnds
    <2> QED
      BY <2>1, <2>2
  <1>4. CASE ReadableTask
    BY <1>0, <1>4, QueueShrinks DEF ReadableTask
  <1>5. CASE EndTask
    <2>1. micro' \in Seq({"drain", "readable", "end"}) /\ drain' = "no"
      BY <1>5, QueueShrinks DEF EndTask, Next1
    <2>2. CASE EndNow
      BY <1>5, <2>1, <2>2, EndNowEnds DEF EndTask
    <2>3. CASE UNCHANGED <<end, told>>
      BY <1>0, <1>5, <2>1, <2>3 DEF EndTask
    <2> QED
      BY <1>5, <2>2, <2>3 DEF EndTask
  <1> QED
    BY <1>1, <1>2, <1>3, <1>4, <1>5 DEF Microtask

LEMMA AlwaysStreams == Spec => []StreamInv
  <1>1. StreamInv /\ [Next]_vars => StreamInv'
    <2> SUFFICES ASSUME StreamInv, [Next]_vars PROVE StreamInv'
      OBVIOUS
    <2>1. CASE UNCHANGED vars
      BY <2>1 DEF vars, StreamInv, TypeOK, Shared, TakenByConsumer, DrainsInFlow, EndIsOver
    <2> QED
      BY <2>1, ClientKeeps, MicrotaskKeeps DEF Next
  <1> QED
    BY StreamStarts, <1>1, PTL DEF Spec

-----------------------------------------------------------------------------
\* The theorems.

\* The types of a stream, for any number of quads and calls: in particular no
\* more quads leave it than it was made with.
THEOREM StreamTypeCorrect == Spec => []TypeOK
  BY AlwaysStreams, PTL DEF StreamInv

\* The stream ends with quads unread only as a bare completion signal, when none
\* was consumed and nobody who could consume is attached.
THEOREM EndNeverLoses == Spec => EndLosesNothing
  <1>1. StreamInv /\ [Next]_vars =>
           [end = "no" /\ end' = "ended" =>
              left = 0 \/ (left = Quads /\ on \cap Consumers = {} /\ ~flowing)]_vars
    <2> SUFFICES ASSUME StreamInv, Next, end = "no", end' = "ended"
                 PROVE  left = 0 \/ (left = Quads /\ on \cap Consumers = {} /\ ~flowing)
      OBVIOUS
    <2>1. left \in 0..Quads
      BY DEF StreamInv, TypeOK
    <2>2. CASE Client
      BY <2>1, <2>2 DEF Client, OnData, OnOther, PrependData, Remove, Read, Destroy
    <2>3. CASE Microtask
      <3>1. CASE EndTask
        <4>1. ~flowing /\ ~started /\ on \cap Consumers = {}
          BY <3>1 DEF EndTask
        <4> QED
          BY <2>1, <4>1, BoundsAssumption DEF StreamInv, TakenByConsumer
      <3> QED
        BY <2>3, <3>1 DEF Microtask, DrainStarts, EmitData, DrainEnds, ReadableTask
    <2> QED
      BY <2>2, <2>3 DEF Next
  <1> QED
    BY <1>1, AlwaysStreams, PTL DEF Spec, EndLosesNothing

\* After its end event a stream gives no quad to a data listener, whatever is
\* attached, queued, removed or read then.
THEOREM NothingAfterEnd == Spec => NoDataAfterEnd
  <1>1. StreamInv /\ [Next]_vars => [told => given' = given]_vars
    <2> SUFFICES ASSUME StreamInv, Next, told PROVE given' = given
      OBVIOUS
    <2>1. CASE Client
      BY <2>1 DEF Client, OnData, OnOther, PrependData, Remove, Read, Destroy
    <2>2. CASE Microtask
      <3>1. left = 0 \/ drain = "no"
        BY Zenon DEF StreamInv, EndIsOver
      <3>2. ~EmitData
        <4>1. left \in Nat
          BY BoundsAssumption DEF StreamInv, TypeOK
        <4>2. ASSUME EmitData PROVE left > 0 /\ drain # "no"
          BY <4>2, Zenon DEF EmitData
        <4> QED
          BY <3>1, <4>1, <4>2
      <3> QED
        BY <2>2, <3>2 DEF Microtask, DrainStarts, DrainEnds, ReadableTask, EndTask
    <2> QED
      BY <2>1, <2>2 DEF Next
  <1> QED
    BY <1>1, AlwaysStreams, PTL DEF Spec, NoDataAfterEnd
=============================================================================

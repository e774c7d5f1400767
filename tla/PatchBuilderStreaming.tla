------------------------- MODULE PatchBuilderStreaming -------------------------
(***************************************************************************)
(* The streaming patch builder (controller/patch_builder_streaming.cc):    *)
(* the caller's thread pushes triples and closes the stream, the builder's *)
(* own thread takes them, in Controller::append or, for the first version, *)
(* in create_snapshot.  The two share a buffer that no lock protects; the  *)
(* mutex is only ever taken by the builder's thread, so it appears here    *)
(* as the atomicity of wait: to block is to be registered for a notify.    *)
(*                                                                         *)
(* Both buffers hand elements over in order, so the numbers of pushed and  *)
(* taken elements stand for them: the queue holds the difference, the      *)
(* vector of the first version holds all and a position.  The unlocked     *)
(* accesses are a data race; as long as a stream stays within the queue's  *)
(* first block a racing size() sees the buffer before or after the push,   *)
(* and the reference to the front survives its pop.  MaxElements keeps to  *)
(* that case.  Outside of it, and for a vector that grows, the race has    *)
(* outcomes that are not modelled.                                         *)
(***************************************************************************)
EXTENDS Naturals

CONSTANT MaxElements    \* bound: triples per stream

ASSUME MaxElementsAssumption == MaxElements \in Nat

VARIABLES
  pushed,     \* elements handed to triple()
  taken,      \* elements next() has returned
  shutdown,   \* shutdown_thread
  producer,   \* the caller: streaming, notifying and joining in close(), closed
  consumer    \* the builder's thread, in next() or hasNext()

vars == <<pushed, taken, shutdown, producer, consumer>>

Nonempty == taken < pushed

Init ==
  /\ pushed = 0 /\ taken = 0
  /\ shutdown = FALSE
  /\ producer = "streaming"
  /\ consumer = "looking"

-----------------------------------------------------------------------------
(* The caller *)

\* triple(): push only; nobody is notified.
Push ==
  /\ producer = "streaming"
  /\ pushed < MaxElements
  /\ pushed' = pushed + 1
  /\ UNCHANGED <<taken, shutdown, producer, consumer>>

\* close() is three steps of the caller.
Shutdown ==
  /\ producer = "streaming"
  /\ shutdown' = TRUE
  /\ producer' = "notifying"
  /\ UNCHANGED <<pushed, taken, consumer>>

NotifyNobody == UNCHANGED consumer                               \* mutant
NotifyAll == consumer' = IF consumer = "waiting" THEN "woken" ELSE consumer

Notify ==
  /\ producer = "notifying"
  /\ NotifyAll
  /\ producer' = "joining"
  /\ UNCHANGED <<pushed, taken, shutdown>>

Join ==
  /\ producer = "joining"
  /\ consumer = "ended"
  /\ producer' = "closed"
  /\ UNCHANGED <<pushed, taken, shutdown, consumer>>

-----------------------------------------------------------------------------
(* The builder's thread: next, for deltas, and hasNext with next, for the first version *)

\* The loop condition.
LookedUnlessShutdown ==                                          \* mutant
  IF Nonempty /\ ~shutdown THEN "taking" ELSE "locked"
LookedUnguarded == "taking"                                      \* mutant
Looked == IF Nonempty THEN "taking" ELSE "locked"

Look ==
  /\ consumer = "looking"
  /\ consumer' = Looked
  /\ UNCHANGED <<pushed, taken, shutdown, producer>>

\* front() and pop(), or buffer_triplestring_pos++
Take ==
  /\ consumer = "taking"
  /\ taken' = taken + 1
  /\ consumer' = "looking"
  /\ UNCHANGED <<pushed, shutdown, producer>>

\* The check before and the check behind the wait; the lock is held from the first on.
CheckBeforeWait ==
  /\ consumer = "locked"
  /\ consumer' = IF shutdown THEN "ended" ELSE "blocking"
  /\ UNCHANGED <<pushed, taken, shutdown, producer>>

Wait ==
  /\ consumer = "blocking"
  /\ consumer' = "waiting"
  /\ UNCHANGED <<pushed, taken, shutdown, producer>>

SpuriousWakeup ==
  /\ consumer = "waiting"
  /\ consumer' = "woken"
  /\ UNCHANGED <<pushed, taken, shutdown, producer>>

CheckAfterWait ==
  /\ consumer = "woken"
  /\ consumer' = IF shutdown THEN "ended" ELSE "looking"
  /\ UNCHANGED <<pushed, taken, shutdown, producer>>

-----------------------------------------------------------------------------

CloseSteps    == Notify \/ Join
ConsumerSteps == Look \/ Take \/ CheckBeforeWait \/ Wait \/ CheckAfterWait

Next == Push \/ Shutdown \/ CloseSteps \/ ConsumerSteps \/ SpuriousWakeup

Spec == Init /\ [][Next]_vars

\* Both threads are scheduled; whether the caller closes the stream is up to it.
FairSpec == Spec /\ WF_vars(CloseSteps) /\ WF_vars(ConsumerSteps)

-----------------------------------------------------------------------------

TypeOK ==
  /\ pushed \in 0 .. MaxElements /\ taken \in 0 .. pushed
  /\ shutdown = (producer # "streaming")
  /\ producer \in {"streaming", "notifying", "joining", "closed"}
  /\ consumer \in {"looking", "taking", "locked", "blocking", "waiting", "woken", "ended"}

(***************************************************************************)
(* close() returns unless shutdown_thread is set exactly between the       *)
(* check of it and the wait: in every other place next() notices the end   *)
(* of the stream, also when it blocks after that and without spurious      *)
(* wake-ups.                                                               *)
(***************************************************************************)
CloseReturnsUnlessBlocking ==
  (producer = "notifying" /\ consumer # "blocking") ~> producer = "closed"

(***************************************************************************)
(* An element that is there when next() looks for one is inserted, also    *)
(* when the stream is closed in the meantime: the end only cuts off what   *)
(* came after a look at an empty buffer.                                   *)
(***************************************************************************)
FoundElementsTaken ==
  \A n \in 1 .. MaxElements : (consumer = "looking" /\ pushed >= n) ~> taken >= n

(***************************************************************************)
(* patch_builder_streaming.h: a builder "allows the insertion of a patch   *)
(* element stream to a Controller", close() is to "Finish the stream": a   *)
(* closed stream was inserted as a whole.                                  *)
(***************************************************************************)
ClosedStreamInserted == producer = "closed" => taken = pushed

(***************************************************************************)
(* close() is to "Finish the stream" (patch_builder_streaming.h): it       *)
(* returns, with the thread joined.                                        *)
(***************************************************************************)
CloseReturns == producer = "notifying" ~> producer = "closed"
===============================================================================

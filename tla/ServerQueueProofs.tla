-------------------------- MODULE ServerQueueProofs --------------------------
(* What is proved about ServerQueue for every number of readers, tasks and *)
(* slots: the control functions a router waits for and the parked model,   *)
(* then what becomes of a posted task, what a request leaves behind, and   *)
(* that the queue implements RequestLife.                                  *)
EXTENDS ServerQueue, SequenceLemmas

-----------------------------------------------------------------------------
(* The control functions.                                                  *)

(* The function the router waits for, if any, is the only one there is: it *)
(* is in the queue or it is what the loop runs.  A loop that is past its   *)
(* start stops only after terminate(), and has ended only then.            *)
ControlState ==
    /\ swapper \in {"idle", "park", "unpark"}
    /\ \/ swapper = "idle" /\ control = <<>> /\ loop \notin {"park", "unpark"}
       \/ swapper # "idle" /\ control = <<swapper>> /\ loop \notin {"park", "unpark", "ended"}
       \/ swapper # "idle" /\ control = <<>> /\ loop = swapper
    /\ loop # "start" /\ ~running => ended
    /\ loop = "ended" => ended

(* A parked model's loop stays in the part of start_loop that runs control *)
(* functions only.                                                         *)
ParkedLoop == paused => loop \in {"start", "control", "park", "unpark", "paused", "ended"}

(* No request is under way while a swap is asked for, or once the model is *)
(* parked: requests hold leases.                                           *)
LeasesBack == swapper # "idle" \/ paused => Drained

ControlInv == ControlState /\ ParkedLoop /\ LeasesBack

LEMMA ControlInit == Init => ControlInv
BY DEF Init, Drained, ControlInv, ControlState, ParkedLoop, LeasesBack

LEMMA ControlNext == ControlInv /\ [Next]_vars => ControlInv'
<1> SUFFICES ASSUME ControlInv, [Next]_vars PROVE ControlInv'
  OBVIOUS
<1> USE DEF ControlInv, ControlState, ParkedLoop, LeasesBack
<1>1. CASE StartLoop
  BY <1>1 DEF Drained, readerVars, StartLoop
<1>2. CASE TakeControl
  <2>1. control = <<swapper>> /\ swapper \in {"park", "unpark"} /\ loop = "control"
    BY <1>2 DEF Drained, readerVars, TakeControl
  <2>2. Head(control) = swapper /\ Tail(control) = <<>>
    BY <2>1
  <2>. QED
    BY <1>2, <2>1, <2>2 DEF TakeControl, Drained, readerVars
<1>3. CASE RunControl
  BY <1>3 DEF Drained, readerVars, RunControl
<1>4. CASE LeaveControl
  BY <1>4 DEF Drained, readerVars, LeaveControl
<1>5. CASE PausedWait
  BY <1>5 DEF Drained, readerVars, PausedWait, EndLoop
<1>6. CASE WaitOrEnd
  BY <1>6 DEF Drained, readerVars, WaitOrEnd, EndLoop
<1>7. CASE PopTask \/ Defer \/ ProcessCancel \/ ProcessNext
  BY <1>7 DEF Drained, readerVars, PopTask, Defer, ProcessCancel, ProcessNext
<1>8. CASE \E s \in Slots : Launch(s) \/ GoOn(s) \/ Finish(s) \/ FailSlot(s)
  BY <1>8 DEF Drained, readerVars, Launch, GoOn, Finish, FailSlot
<1>9. CASE ReleaseSlots \/ StartUpdate \/ Decode \/ EndUpdate
  BY <1>9 DEF Drained, readerVars, ReleaseSlots, StartUpdate, Decode, EndUpdate
<1>10. CASE Wake \/ Heartbeat
  BY <1>10 DEF Drained, readerVars, Wake, Heartbeat
<1>11. CASE \E r \in Readers : Register(r) \/ ReaderStep(r) \/ GiveUp(r)
  <2>1. PICK r \in Readers : Register(r) \/ ReaderStep(r) \/ GiveUp(r)
    BY <1>11
  <2>2. UNCHANGED <<control, paused, running, ended, loop, swapper>>
    <3>1. CASE Recv(r)
      BY <3>1 DEF Recv, loopVars
    <3>2. CASE Register(r) \/ Post(r) \/ GiveUp(r) \/ AbortDecode(r)
      BY <3>2 DEF Register, Post, GiveUp, AbortDecode, loopVars
    <3>3. CASE StopWaiting(r) \/ StopCancel(r)
      BY <3>3 DEF StopWaiting, StopCancel, loopVars
    <3>. QED
      BY <2>1, <3>1, <3>2, <3>3 DEF ReaderStep
  <2>3. swapper = "idle" /\ ~paused
    <3>1. CASE Register(r)
      BY <3>1 DEF Register
    <3>2. CASE ReaderStep(r) \/ GiveUp(r)
      <4>1. reader[r] \notin {"new", "done"}
        BY <3>2 DEF ReaderStep, Post, Recv, AbortDecode, StopWaiting, StopCancel, GiveUp
      <4>. QED
        BY <4>1 DEF Drained
    <3>. QED
      BY <2>1, <3>1, <3>2
  <2>. QED
    BY <2>2, <2>3
<1>12. CASE \E f \in {"park", "unpark"} : PostControl(f)
  <2>1. PICK f \in {"park", "unpark"} : PostControl(f)
    BY <1>12
  <2>2. control = <<>> /\ loop \notin {"park", "unpark", "ended"}
    BY <2>1 DEF PostControl
  <2>3. control' = <<f>>
    BY <2>1, <2>2 DEF PostControl
  <2>. QED
    BY <2>1, <2>2, <2>3 DEF PostControl, loopVars, readerVars, Drained
<1>13. CASE Terminate
  BY <1>13 DEF Terminate, loopVars, readerVars, Drained
<1>14. CASE UNCHANGED vars
  BY <1>14 DEF vars, Drained
<1> QED
  BY <1>1, <1>2, <1>3, <1>4, <1>5, <1>6, <1>7, <1>8, <1>9, <1>10, <1>11, <1>12, <1>13, <1>14
     DEF Next, LoopStep

THEOREM ControlInvariance == Spec => []ControlInv
BY ControlInit, ControlNext, PTL DEF Spec

(* post_control, run_control and both exits of start_loop: whoever waits   *)
(* for a control function waits for one that will still run.               *)
THEOREM NoWaiterIsForgotten == Spec => []ControlNotForgotten
<1>1. ControlInv => ControlNotForgotten
  BY DEF ControlInv, ControlState, ControlNotForgotten
<1> QED
  BY <1>1, ControlInvariance, PTL

(* run_control first, then nothing else while paused: no step of the loop  *)
(* or of a reader touches the slots or the results of a parked model.      *)
THEOREM ParkedModelStandsStill == Spec => ParkedIsLeftAlone
<1>1. ASSUME ControlInv, [Next]_vars, paused, paused'
      PROVE  UNCHANGED <<slots, todo, hand, results>>
  <2>1. loop \in {"start", "control", "park", "unpark", "paused", "ended"}
    BY <1>1 DEF ControlInv, ParkedLoop
  <2>2. Drained
    BY <1>1 DEF ControlInv, LeasesBack
  <2>3. CASE LoopStep
    <3>1. CASE StartLoop \/ TakeControl \/ RunControl \/ PausedWait \/ LeaveControl
      BY <3>1 DEF StartLoop, TakeControl, RunControl, PausedWait, LeaveControl
    <3>2. ~(PopTask \/ Defer \/ ProcessCancel \/ ProcessNext \/ ReleaseSlots
            \/ StartUpdate \/ Decode \/ EndUpdate \/ WaitOrEnd \/ Wake \/ Heartbeat)
      BY <2>1 DEF PopTask, Defer, ProcessCancel, ProcessNext, ReleaseSlots, StartUpdate,
                  Decode, EndUpdate, WaitOrEnd, Wake, Heartbeat
    <3>3. ~\E s \in Slots : Launch(s) \/ GoOn(s) \/ Finish(s) \/ FailSlot(s)
      BY <2>1 DEF Launch, GoOn, Finish, FailSlot
    <3>. QED
      BY <2>3, <3>1, <3>2, <3>3 DEF LoopStep
  <2>4. CASE \E r \in Readers : Register(r) \/ ReaderStep(r) \/ GiveUp(r)
    <3>1. PICK r \in Readers : Register(r) \/ ReaderStep(r) \/ GiveUp(r)
      BY <2>4
    <3>2. CASE Register(r)
      BY <3>2 DEF Register, loopVars
    <3>3. ~(ReaderStep(r) \/ GiveUp(r))
      BY <2>2 DEF Drained, ReaderStep, Post, Recv, AbortDecode, StopWaiting, StopCancel, GiveUp
    <3>. QED
      BY <3>1, <3>2, <3>3
  <2>5. CASE \E f \in {"park", "unpark"} : PostControl(f)
    BY <2>5 DEF PostControl, loopVars
  <2>6. CASE Terminate \/ UNCHANGED vars
    BY <2>6 DEF Terminate, loopVars, vars
  <2>. QED
    BY <1>1, <2>3, <2>4, <2>5, <2>6 DEF Next
<1>2. ControlInv /\ [Next]_vars => [paused /\ paused' => UNCHANGED <<slots, todo, hand, results>>]_vars
  BY <1>1
<1>. QED
  BY <1>2, ControlInvariance, PTL DEF Spec, ParkedIsLeftAlone

-----------------------------------------------------------------------------
(* What becomes of a posted task.                                          *)
(*                                                                         *)
(* None of SleepsOnlyWhenIdle, NothingLost, OneFinal and EndsDrained is    *)
(* inductive by itself.  What is kept by every step is the conjunction of  *)
(*                                                                         *)
(*    TypeInv      the types, that the loop holds a message exactly while  *)
(*                 it processes one, and that it samples only slots at     *)
(*                 work;                                                   *)
(*    TurnInv      a slot at work has a NEXT_RESPONSE in the queue or the  *)
(*                 loop on its way to post one, and a deferred task has a  *)
(*                 reason that is still there;                             *)
(*    DeliveryInv  for each task, in how many places it is, what of its    *)
(*                 answers is in the result queue and where its reader is. *)
(*                                                                         *)
(* Each action has a lemma with its effect on the fields, and each         *)
(* invariant a lemma for the actions that touch it.                        *)

-----------------------------------------------------------------------------
(* The messages and the slots.                                             *)

Asked == {Ask(t) : t \in Tasks}
Answers == {Result(k, t) : k \in {"partial", "final", "error"}, t \in Tasks}
SlotStates == [state : {"free", "busy", "released"}, id : Tasks \union {NoTask},
               steps : 0..MaxSteps]
LoopAt == {"start", "control", "park", "unpark", "paused", "drain", "process", "release",
           "update", "decode", "sample", "fail", "wait", "asleep", "heartbeat", "ended"}
ReaderAt == {"new", "registered", "waiting", "aborting", "stopping", "cancelling", "done"}

LEMMA MessageFacts ==
    /\ NextResponse \in Messages /\ NoMessage \notin Messages
    /\ \A t \in Tasks : Ask(t) \in Messages /\ Cancel(t) \in Messages /\ Ask(t) \in Asked
    /\ \A m \in Messages : m.kind = "ask" => m.task \in Tasks /\ m = Ask(m.task)
    /\ \A m \in Messages : m.kind = "cancel" => m.task \in Tasks /\ m = Cancel(m.task)
    /\ \A m \in Messages : m.kind \in {"ask", "cancel"} \/ m = NextResponse
    /\ \A m \in Asked : m.kind = "ask" /\ m.task \in Tasks /\ m = Ask(m.task) /\ m \in Messages
<1>1. \A t : Ask(t).kind = "ask" /\ Ask(t).task = t
  BY DEF Ask
<1>2. \A t : Cancel(t).kind = "cancel" /\ Cancel(t).task = t
  BY DEF Cancel
<1>3. NextResponse.kind = "next" /\ NoMessage.kind = "none"
  BY DEF NextResponse, NoMessage
<1>4. \A t \in Tasks : Ask(t) \in Messages /\ Cancel(t) \in Messages /\ Ask(t) \in Asked
  BY DEF Messages, Asked
<1>5. ASSUME NEW m \in Messages
      PROVE  \/ \E t \in Tasks : m = Ask(t)
             \/ \E t \in Tasks : m = Cancel(t)
             \/ m = NextResponse
  BY DEF Messages
<1>6. NextResponse \in Messages
  BY DEF Messages
<1>7. \A m \in Asked : \E t \in Tasks : m = Ask(t)
  BY DEF Asked
<1>8. \A m \in Messages : m.kind = "ask" => m.task \in Tasks /\ m = Ask(m.task)
  BY <1>1, <1>2, <1>3, <1>5
<1>9. \A m \in Messages : m.kind = "cancel" => m.task \in Tasks /\ m = Cancel(m.task)
  BY <1>1, <1>2, <1>3, <1>5
<1>10. \A m \in Messages : m.kind \in {"ask", "cancel"} \/ m = NextResponse
  BY <1>1, <1>2, <1>3, <1>5
<1>11. NoMessage \notin Messages
  BY <1>1, <1>2, <1>3, <1>5
<1>12. \A m \in Asked : m.kind = "ask" /\ m.task \in Tasks /\ m = Ask(m.task) /\ m \in Messages
  BY <1>1, <1>4, <1>7
<1> QED
  BY <1>4, <1>6, <1>8, <1>9, <1>10, <1>11, <1>12

LEMMA MessagesDiffer ==
    /\ \A t, u : Ask(t) = Ask(u) <=> t = u
    /\ \A t, u : Cancel(t) = Cancel(u) <=> t = u
    /\ \A t, u : Ask(t) # Cancel(u)
    /\ \A t : /\ Ask(t) # NextResponse /\ Cancel(t) # NextResponse
              /\ Ask(t) # NoMessage /\ Cancel(t) # NoMessage
              /\ Ask(t).kind = "ask" /\ Ask(t).task = t
              /\ Cancel(t).kind = "cancel" /\ Cancel(t).task = t
    /\ NextResponse # NoMessage /\ NextResponse.kind = "next" /\ NoMessage.kind = "none"
<1>1. \A t : Ask(t).kind = "ask" /\ Ask(t).task = t
  BY DEF Ask
<1>2. \A t : Cancel(t).kind = "cancel" /\ Cancel(t).task = t
  BY DEF Cancel
<1>3. NextResponse.kind = "next" /\ NoMessage.kind = "none"
  BY DEF NextResponse, NoMessage
<1>4. "ask" # "cancel" /\ "ask" # "next" /\ "ask" # "none" /\ "cancel" # "next"
      /\ "cancel" # "none" /\ "next" # "none"
  OBVIOUS
<1> QED
  BY <1>1, <1>2, <1>3

LEMMA ResultFacts ==
    /\ \A x \in Answers : /\ x.kind \in {"partial", "final", "error"} /\ x.task \in Tasks
                          /\ x = Result(x.kind, x.task)
    /\ \A k, t : Result(k, t).kind = k /\ Result(k, t).task = t
    /\ \A k \in {"partial", "final", "error"} : \A t \in Tasks : Result(k, t) \in Answers
<1>1. \A k, t : Result(k, t).kind = k /\ Result(k, t).task = t
  BY DEF Result
<1>2. \A x \in Answers : \E k \in {"partial", "final", "error"}, t \in Tasks : x = Result(k, t)
  BY DEF Answers
<1>3. \A k \in {"partial", "final", "error"} : \A t \in Tasks : Result(k, t) \in Answers
  BY DEF Answers
<1> QED
  BY <1>1, <1>2, <1>3

(* The tasks of a request: a finite set, each at one place of Asks.        *)
LEMMA AsksFacts ==
    ASSUME NEW r \in Readers
    PROVE  /\ Asks[r] \in Seq(Ids(r)) /\ Ids(r) \subseteq Tasks /\ IsFiniteSet(Ids(r))
           /\ Len(Asks[r]) \in Nat /\ Len(Asks[r]) > 0
           /\ Len(Asks[r]) = Cardinality(Ids(r))
           /\ \A t \in Ids(r) : \E i \in 1..Len(Asks[r]) : Asks[r][i] = t
           /\ \A i, j \in 1..Len(Asks[r]) : Asks[r][i] = Asks[r][j] => i = j
<1>1. Asks[r] \in Seq(Ids(r)) /\ Asks[r] # <<>> /\ Len(Asks[r]) = Cardinality(Ids(r))
  BY QueueConstants
<1>2. DOMAIN Asks[r] = 1..Len(Asks[r]) /\ Len(Asks[r]) \in Nat /\ Len(Asks[r]) > 0
      /\ Asks[r] \in [1..Len(Asks[r]) -> Ids(r)]
  BY <1>1
<1>3. \A t \in Ids(r) : \E i \in 1..Len(Asks[r]) : Asks[r][i] = t
  BY <1>2 DEF Ids, ToSet
<1>4. Asks[r] \in Surjection(1..Len(Asks[r]), Ids(r))
  BY <1>2, <1>3, Fun_IsSurj
<1>5. IsFiniteSet(1..Len(Asks[r])) /\ Cardinality(1..Len(Asks[r])) = Len(Asks[r])
  BY <1>2, FS_Interval
<1>6. IsFiniteSet(Ids(r)) /\ Asks[r] \in Injection(1..Len(Asks[r]), Ids(r))
  BY <1>1, <1>4, <1>5, FS_Surjection
<1>7. \A i, j \in 1..Len(Asks[r]) : Asks[r][i] = Asks[r][j] => i = j
  BY <1>6, Fun_InjectionProperties
<1>8. Ids(r) \subseteq Tasks
  BY DEF Tasks
<1> QED
  BY <1>1, <1>2, <1>3, <1>6, <1>7, <1>8

LEMMA OwnersDiffer ==
    ASSUME NEW r \in Readers, NEW q \in Readers, NEW t \in Ids(r), t \in Ids(q)
    PROVE  r = q
BY QueueConstants

(* Where the loop's own variables may be, and what a reader has counted.   *)
WorkShape ==
    /\ loop = "process" <=> hand # NoMessage
    /\ loop = "sample" => todo \subseteq BusySlots
    /\ received \in [Readers -> Nat]
    /\ \A r \in Readers : /\ reader[r] \in {"new", "registered"} => received[r] = 0
                          /\ reader[r] = "waiting" => received[r] < Len(Asks[r])


TypeInv == TypeOK /\ WorkShape

-----------------------------------------------------------------------------
(* What the operations the actions are made of do to the variables.        *)

(* TypeOK in the names above.                                              *)
Typed ==
    /\ queue \in Seq(Messages) /\ deferred \in Seq(Asked)
    /\ control \in Seq({"park", "unpark"})
    /\ paused \in BOOLEAN /\ running \in BOOLEAN /\ ended \in BOOLEAN /\ abort \in BOOLEAN
    /\ loop \in LoopAt /\ hand \in Messages \union {NoMessage}
    /\ slots \in [Slots -> SlotStates] /\ todo \subseteq Slots
    /\ waiting \subseteq Tasks /\ filled \subseteq Tasks
    /\ results \in Seq(Answers) /\ reader \in [Readers -> ReaderAt]
    /\ \A r \in Readers : received[r] \in 0..Len(Asks[r])
    /\ swapper \in {"idle", "park", "unpark"}

LEMMA TypedIsTypeOK == TypeOK <=> Typed
BY DEF TypeOK, Typed, Asked, Answers, SlotStates, LoopAt, ReaderAt

LEMMA TypeFacts ==
    ASSUME TypeOK
    PROVE  Typed /\ deferred \in Seq(Messages)
<1>1. Asked \subseteq Messages
  BY MessageFacts
<1>2. deferred \in Seq(Asked)
  BY TypedIsTypeOK DEF Typed
<1>3. deferred \in Seq(Messages)
  BY <1>1, <1>2, SeqMonotonic
<1> QED
  BY <1>3, TypedIsTypeOK

LEMMA ReleasedFacts ==
    ASSUME slots \in [Slots -> SlotStates], NEW s \in Slots
    PROVE  /\ Released(s) \in [Slots -> SlotStates]
           /\ \A q \in Slots : /\ Released(s)[q].id = slots[q].id
                               /\ Released(s)[q].state = IF q = s THEN "released" ELSE slots[q].state
<1>1. MaxSteps \in Nat
  BY QueueConstants
<1>2. 0 \in 0..MaxSteps
  BY <1>1
<1>3. slots[s] \in SlotStates
  OBVIOUS
<1> DEFINE one == [[slots[s] EXCEPT !.state = "released"] EXCEPT !.steps = 0]
<1>4. one \in SlotStates /\ one.id = slots[s].id /\ one.state = "released"
  BY <1>2, <1>3, Zenon DEF SlotStates
<1>5. Released(s) = [slots EXCEPT ![s] = one]
  BY DEF Released
<1> HIDE DEF one
<1> QED
  BY <1>4, <1>5

LEMMA SendFacts ==
    ASSUME results \in Seq(Answers), waiting \subseteq Tasks,
           NEW k \in {"partial", "final", "error"}, NEW t, Send(k, t)
    PROVE  /\ results' \in Seq(Answers)
           /\ t \notin waiting => results' = results
           /\ t \in waiting => results' = Append(results, Result(k, t)) /\ Result(k, t) \in Answers
<1>1. CASE t \in waiting
  <2>1. Result(k, t) \in Answers
    BY <1>1, ResultFacts
  <2>2. results' = Append(results, Result(k, t))
    BY <1>1 DEF Send
  <2>3. results' \in Seq(Answers)
    BY <2>1, <2>2
  <2> QED
    BY <1>1, <2>1, <2>2, <2>3
<1>2. CASE t \notin waiting
  BY <1>2 DEF Send
<1> QED
  BY <1>1, <1>2

(* The cancels of a request: its tasks leave both queues, all else stays.  *)
LEMMA PostCancelsFacts ==
    ASSUME TypeOK, NEW r \in Readers, PostCancels(Ids(r))
    PROVE  /\ queue' \in Seq(Messages) /\ deferred' \in Seq(Asked)
           /\ \A t \in Ids(r) : /\ Count(queue', Ask(t)) = 0 /\ Count(deferred', Ask(t)) = 0
                                /\ Count(queue', Cancel(t)) > 0
           /\ \A t \in Tasks \ Ids(r) : /\ Count(queue', Ask(t)) = Count(queue, Ask(t))
                                        /\ Count(deferred', Ask(t)) = Count(deferred, Ask(t))
                                        /\ Count(queue', Cancel(t)) = Count(queue, Cancel(t))
           /\ Count(queue', NextResponse) = Count(queue, NextResponse)
           /\ \A i \in DOMAIN deferred' : \E j \in DOMAIN deferred : deferred'[i] = deferred[j]
<1> DEFINE S == Ids(r)
           C == {Cancel(t) : t \in S}
           Kept(q) == {i \in DOMAIN q : ~(q[i].kind = "ask" /\ q[i].task \in S)}
           KQ == Kept(queue)
           KD == Kept(deferred)
           head == SetToSeq(C)
           rest == SubSequence(queue, KQ)
<1>1. /\ queue \in Seq(Messages) /\ deferred \in Seq(Asked) /\ deferred \in Seq(Messages)
      /\ S \subseteq Tasks /\ IsFiniteSet(S)
  BY TypeFacts, AsksFacts DEF Typed
<1>2. queue' = head \o rest /\ deferred' = SubSequence(deferred, KD)
  BY DEF PostCancels
<1>3. IsFiniteSet(C)
  <2> DEFINE f == [t \in S |-> Cancel(t)]
  <2>1. f \in Surjection(S, C)
    BY Fun_IsSurj
  <2> HIDE DEF f, C, S
  <2> QED
    BY <2>1, <1>1, FS_Surjection
<1>4. C \subseteq Messages
  BY <1>1, MessageFacts
<1>5. head \in Seq(C) /\ \A x \in C : \E i \in DOMAIN head : head[i] = x
  <2> HIDE DEF C
  <2> QED
    BY <1>3, SetToSeqType
<1>6. head \in Seq(Messages)
  <2> HIDE DEF C, head
  <2> QED
    BY <1>4, <1>5, SeqMonotonic
<1>7. KQ \in SUBSET DOMAIN queue /\ KD \in SUBSET DOMAIN deferred
  OBVIOUS
<1>8. rest \in Seq(Messages)
  <2> HIDE DEF KQ
  <2> QED
    BY <1>1, <1>7, SubSequenceType
<1>9. /\ SubSequence(deferred, KD) \in Seq(Asked)
      /\ \A i \in DOMAIN SubSequence(deferred, KD) : \E j \in KD : SubSequence(deferred, KD)[i] = deferred[j]
  <2> HIDE DEF KD
  <2> QED
    BY <1>1, <1>7, SubSequenceType
<1>10. /\ \A t \in S : At(queue, Ask(t)) \cap KQ = {} /\ At(deferred, Ask(t)) \cap KD = {}
       /\ \A t \in Tasks \ S : At(queue, Ask(t)) \subseteq KQ /\ At(deferred, Ask(t)) \subseteq KD
       /\ \A t \in Tasks : At(queue, Cancel(t)) \subseteq KQ
       /\ At(queue, NextResponse) \subseteq KQ
  BY MessagesDiffer DEF At
<1>11. /\ \A t \in S : /\ Count(rest, Ask(t)) = 0
                       /\ Count(SubSequence(deferred, KD), Ask(t)) = 0
       /\ \A t \in Tasks \ S : /\ Count(rest, Ask(t)) = Count(queue, Ask(t))
                               /\ Count(SubSequence(deferred, KD), Ask(t)) = Count(deferred, Ask(t))
       /\ \A t \in Tasks : Count(rest, Cancel(t)) = Count(queue, Cancel(t))
       /\ Count(rest, NextResponse) = Count(queue, NextResponse)
  <2> HIDE DEF KD, KQ, S
  <2> QED
    BY <1>1, <1>7, <1>10, CountSubSequence
<1> HIDE DEF KD, KQ, rest, head, S
<1>12. /\ \A t \in Tasks : Count(head, Ask(t)) = 0
       /\ Count(head, NextResponse) = 0
       /\ \A t \in Tasks \ S : Count(head, Cancel(t)) = 0
       /\ \A t \in S : Count(head, Cancel(t)) \in Nat \ {0}
  <2>1. \A i \in 1..Len(head) : head[i] \in C
    BY <1>5
  <2>2. \A i \in 1..Len(head) : \E u \in S : head[i] = Cancel(u)
    BY <2>1
  <2>3. /\ \A t \in Tasks : \A i \in 1..Len(head) : head[i] # Ask(t)
        /\ \A i \in 1..Len(head) : head[i] # NextResponse
        /\ \A t \in Tasks \ S : \A i \in 1..Len(head) : head[i] # Cancel(t)
    BY <2>2, MessagesDiffer
  <2>4. \A t \in S : Cancel(t) \in C
    OBVIOUS
  <2>5. \A t \in S : \E i \in 1..Len(head) : head[i] = Cancel(t)
    <3> HIDE DEF C
    <3>1. DOMAIN head = 1..Len(head)
      BY <1>5
    <3> QED
      BY <2>4, <1>5, <3>1
  <2> HIDE DEF C
  <2> QED
    BY <2>3, <2>5, <1>6, CountType
<1>13. \A m : Count(queue', m) = Count(head, m) + Count(rest, m)
  BY <1>2, <1>6, <1>8, CountConcat
<1>14. \A m : Count(rest, m) \in Nat /\ Count(head, m) \in Nat
  BY <1>6, <1>8, CountType
<1>15. queue' \in Seq(Messages)
  BY <1>2, <1>6, <1>8
<1>16. \A t \in S : /\ Count(queue', Ask(t)) = 0 /\ Count(deferred', Ask(t)) = 0
                    /\ Count(queue', Cancel(t)) > 0
  <2> TAKE t \in S
  <2>1. Count(deferred', Ask(t)) = 0
    BY <1>2, <1>11
  <2>2. /\ Count(queue', Ask(t)) = Count(head, Ask(t)) + Count(rest, Ask(t))
        /\ Count(queue', Cancel(t)) = Count(head, Cancel(t)) + Count(rest, Cancel(t))
    BY <1>13
  <2>3. Count(head, Ask(t)) = 0 /\ Count(rest, Ask(t)) = 0
    BY <1>1, <1>11, <1>12
  <2>4. Count(head, Cancel(t)) > 0
    BY <1>12
  <2> QED
    BY <1>14, <2>1, <2>2, <2>3, <2>4
<1>17. \A t \in Tasks \ S : /\ Count(queue', Ask(t)) = Count(queue, Ask(t))
                            /\ Count(deferred', Ask(t)) = Count(deferred, Ask(t))
                            /\ Count(queue', Cancel(t)) = Count(queue, Cancel(t))
  <2>1. ASSUME NEW m, Count(head, m) = 0 PROVE Count(queue', m) = Count(rest, m)
    BY <2>1, <1>13, <1>14
  <2> QED
    BY <1>2, <1>11, <1>12, <2>1
<1>18. Count(queue', NextResponse) = Count(queue, NextResponse)
  BY <1>11, <1>12, <1>13, <1>14
<1>19. \A i \in DOMAIN deferred' : \E j \in DOMAIN deferred : deferred'[i] = deferred[j]
  BY <1>2, <1>7, <1>9
<1> QED
  BY <1>2, <1>9, <1>15, <1>16, <1>17, <1>18, <1>19 DEF S


(* recv_with_timeout: the result it takes is one of this reader's.         *)
Taken(r, i) ==
    /\ reader[r] = "waiting" /\ i \in 1..Len(results) /\ Mine(r, results[i])
    /\ results' = RemoveAt(results, i)
    /\ \/ /\ results[i].kind = "final" /\ filled' = filled \union {results[i].task}
          /\ received' = [received EXCEPT ![r] = @ + 1]
       \/ results[i].kind # "final" /\ UNCHANGED <<received, filled>>
    /\ \/ results[i].kind # "error" /\ received'[r] < Len(Asks[r]) /\ UNCHANGED reader
       \/ received'[r] = Len(Asks[r]) /\ Goto(r, "stopping")
       \/ results[i].kind = "error" /\ Goto(r, "stopping")
       \/ results[i].kind # "error" /\ Goto(r, "stopping")
    /\ UNCHANGED <<queue, deferred, control, paused, running, ended, loopVars, abort,
                   waiting, swapper>>

LEMMA RecvTakes ==
    ASSUME TypeOK, NEW r \in Readers, Recv(r)
    PROVE  \E i \in 1..Len(results) : Taken(r, i)
<1> DEFINE I == {i \in 1..Len(results) : Mine(r, results[i])}
           i == IF I # {} THEN Min(I) ELSE 0
<1>1. results \in Seq(Answers)
  BY TypeFacts DEF Typed
<1>2. SelectInSeq(results, LAMBDA x : Mine(r, x)) = i
  BY DEF SelectInSeq
<1>3. i # 0
  BY <1>2 DEF Recv
<1>4. i \in I
  <2>1. I \in SUBSET Nat
    BY <1>1
  <2> HIDE DEF I
  <2> QED
    BY <1>3, <2>1, MinIsIn
<1>5. i \in 1..Len(results) /\ Mine(r, results[i])
  BY <1>4
<1> HIDE DEF i, I
<1>6. Taken(r, i)
  BY <1>2, <1>5 DEF Recv, Taken
<1> QED
  BY <1>5, <1>6


-----------------------------------------------------------------------------
(* TypeOK.                                                                 *)

LEMMA TypeInit == Init => TypeInv
<1> SUFFICES ASSUME Init PROVE TypeInv
  OBVIOUS
<1>1. MaxSteps \in Nat /\ HotSwap \in BOOLEAN
  BY QueueConstants
<1>2. slots \in [Slots -> SlotStates]
  <2>1. 0 \in 0..MaxSteps
    BY <1>1
  <2>2. [state |-> "free", id |-> NoTask, steps |-> 0] \in SlotStates
    BY <2>1 DEF SlotStates
  <2> QED
    BY <2>2 DEF Init
<1>3. \A r \in Readers : 0 \in 0..Len(Asks[r])
  BY AsksFacts
<1>4. Typed
  <2>1. /\ queue \in Seq(Messages) /\ deferred \in Seq(Asked) /\ results \in Seq(Answers)
        /\ control \in Seq({"park", "unpark"})
    BY DEF Init
  <2>2. /\ paused \in BOOLEAN /\ running \in BOOLEAN /\ ended \in BOOLEAN /\ abort \in BOOLEAN
        /\ loop \in LoopAt /\ reader \in [Readers -> ReaderAt]
    BY <1>1 DEF Init, LoopAt, ReaderAt
  <2>3. \A r \in Readers : received[r] \in 0..Len(Asks[r])
    BY <1>3 DEF Init
  <2> QED
    BY <1>2, <2>1, <2>2, <2>3 DEF Init, Typed
<1>5. WorkShape
  BY DEF Init, WorkShape
<1> QED
  BY <1>4, <1>5, TypedIsTypeOK DEF TypeInv

LEMMA TypeReader ==
    ASSUME TypeInv, NEW r \in Readers, Register(r) \/ ReaderStep(r) \/ GiveUp(r)
    PROVE  TypeInv'
<1>1. Typed /\ deferred \in Seq(Messages) /\ WorkShape
  BY TypeFacts DEF TypeInv
<1> SUFFICES Typed' /\ WorkShape'
  BY DEF TypeInv, TypeOK, Typed, Asked, Answers, SlotStates, LoopAt, ReaderAt
<1>2. /\ Ids(r) \subseteq Tasks /\ Len(Asks[r]) \in Nat /\ Len(Asks[r]) > 0
      /\ Asks[r] \in Seq(Ids(r))
  BY AsksFacts
<1>3. CASE Register(r)
  BY <1>1, <1>2, <1>3 DEF Register, Goto, loopVars, Typed, WorkShape, ReaderAt, BusySlots
<1>4. CASE Post(r)
  <2> DEFINE new == [i \in DOMAIN Asks[r] |-> Ask(Asks[r][i])]
  <2>1. new \in Seq(Messages)
    <3>1. DOMAIN Asks[r] = 1..Len(Asks[r]) /\ \A i \in 1..Len(Asks[r]) : Asks[r][i] \in Tasks
      BY <1>2
    <3>2. \A i \in 1..Len(Asks[r]) : Ask(Asks[r][i]) \in Messages
      BY <3>1, MessageFacts
    <3> QED
      BY <1>2, <3>1, <3>2
  <2>2. queue' = queue \o new
    BY <1>4 DEF Post
  <2> HIDE DEF new
  <2>3. queue' \in Seq(Messages)
    BY <1>1, <2>1, <2>2 DEF Typed
  <2> QED
    BY <1>1, <1>2, <1>4, <2>3 DEF Post, Goto, loopVars, Typed, WorkShape, ReaderAt, BusySlots
<1>5. CASE Recv(r)
  <2>1. PICK i \in 1..Len(results) : Taken(r, i)
    BY <1>5, RecvTakes DEF TypeInv
  <2>2. results' \in Seq(Answers)
    BY <1>1, <2>1, RemoveAtType DEF Taken, Typed
  <2>3. results[i].task \in Tasks
    BY <1>1, <2>1, ResultFacts DEF Typed
  <2>4. filled' \subseteq Tasks
    BY <1>1, <2>1, <2>3 DEF Taken, Typed
  <2>5. /\ received' \in [Readers -> Nat] /\ \A q \in Readers \ {r} : received'[q] = received[q]
        /\ received'[r] \in {received[r], received[r] + 1}
        /\ received[r] < Len(Asks[r])
    BY <1>1, <2>1 DEF Taken, Typed, WorkShape
  <2>6. \A q \in Readers : received'[q] \in 0..Len(Asks[q])
    <3> TAKE q \in Readers
    <3>1. received[q] \in 0..Len(Asks[q]) /\ received[q] \in Nat /\ Len(Asks[q]) \in Nat
      BY <1>1, AsksFacts DEF Typed
    <3>2. CASE q # r
      BY <2>5, <3>1, <3>2
    <3>3. CASE q = r
      BY <2>5, <3>1, <3>3
    <3> QED
      BY <3>2, <3>3
  <2>7. (reader' = reader /\ received'[r] < Len(Asks[r])) \/ Goto(r, "stopping")
    BY <2>1 DEF Taken
  <2>8. reader' \in [Readers -> ReaderAt]
    BY <1>1, <2>7 DEF Typed, Goto, ReaderAt
  <2>9. UNCHANGED <<queue, deferred, control, paused, running, ended, loop, hand, slots, todo,
                    abort, waiting, swapper>>
    BY <2>1 DEF Taken, loopVars
  <2>10. Typed'
    BY <1>1, <2>2, <2>4, <2>6, <2>8, <2>9 DEF Typed
  <2>11. \A q \in Readers : /\ reader'[q] \in {"new", "registered"} => received'[q] = 0
                            /\ reader'[q] = "waiting" => received'[q] < Len(Asks[q])
    <3>1. reader[r] = "waiting"
      BY <2>1 DEF Taken
    <3> QED
      BY <1>1, <2>5, <2>7, <3>1 DEF Typed, WorkShape, Goto
  <2> QED
    BY <1>1, <2>5, <2>9, <2>10, <2>11 DEF WorkShape, BusySlots
<1>6. CASE GiveUp(r)
  BY <1>1, <1>2, <1>6 DEF GiveUp, Goto, loopVars, Typed, WorkShape, ReaderAt, BusySlots
<1>7. CASE AbortDecode(r)
  BY <1>1, <1>2, <1>7 DEF AbortDecode, Goto, loopVars, Typed, WorkShape, ReaderAt, BusySlots
<1>8. CASE StopWaiting(r)
  BY <1>1, <1>2, <1>8 DEF StopWaiting, Goto, loopVars, Typed, WorkShape, ReaderAt, BusySlots
<1>9. CASE StopCancel(r)
  <2>1. queue' \in Seq(Messages) /\ deferred' \in Seq(Asked)
    BY <1>9, PostCancelsFacts DEF StopCancel, TypeInv
  <2> QED
    BY <1>1, <1>2, <1>9, <2>1 DEF StopCancel, Goto, loopVars, Typed, WorkShape, ReaderAt, BusySlots
<1> QED
  BY <1>3, <1>4, <1>5, <1>6, <1>7, <1>8, <1>9 DEF ReaderStep

(* The loop outside a task: no slot changes.                               *)
LEMMA TypeLoop ==
    ASSUME TypeInv,
           \/ StartLoop \/ TakeControl \/ RunControl \/ LeaveControl \/ PausedWait
           \/ PopTask \/ Defer \/ ProcessNext \/ StartUpdate \/ Decode \/ EndUpdate
           \/ WaitOrEnd \/ Wake \/ Heartbeat
    PROVE  TypeInv'
<1>1. Typed /\ deferred \in Seq(Messages) /\ WorkShape
  BY TypeFacts DEF TypeInv
<1> SUFFICES Typed' /\ WorkShape'
  BY DEF TypeInv, TypeOK, Typed, Asked, Answers, SlotStates, LoopAt, ReaderAt
<1>2. CASE StartLoop
  BY <1>1, <1>2 DEF StartLoop, readerVars, Typed, WorkShape, LoopAt, BusySlots
<1>3. CASE TakeControl
  <2>1. Head(control) \in {"park", "unpark"} /\ Tail(control) \in Seq({"park", "unpark"})
    BY <1>1, <1>3 DEF Typed, TakeControl
  <2> QED
    BY <1>1, <1>3, <2>1 DEF TakeControl, readerVars, Typed, WorkShape, LoopAt, BusySlots
<1>4. CASE RunControl
  <2>1. paused' \in BOOLEAN
    BY <1>1, <1>4 DEF Typed, RunControl
  <2> QED
    BY <1>1, <1>4, <2>1 DEF RunControl, readerVars, Typed, WorkShape, LoopAt, BusySlots
<1>5. CASE LeaveControl
  BY <1>1, <1>5 DEF LeaveControl, readerVars, Typed, WorkShape, LoopAt, BusySlots
<1>6. CASE PausedWait
  <2>1. control' \in Seq({"park", "unpark"}) /\ swapper' \in {"idle", "park", "unpark"}
    <3>1. control' \in {control, <<>>} /\ swapper' \in {swapper, "idle"}
      BY <1>6 DEF PausedWait, EndLoop
    <3>2. <<>> \in Seq({"park", "unpark"})
      OBVIOUS
    <3> QED
      BY <1>1, <3>1, <3>2 DEF Typed
  <2> QED
    BY <1>1, <1>6, <2>1 DEF PausedWait, EndLoop, readerVars, Typed, WorkShape, LoopAt, BusySlots
<1>7. CASE PopTask
  <2>1. /\ loop = "drain" /\ hand = NoMessage
        /\ UNCHANGED <<deferred, control, paused, running, ended, slots, todo, abort,
                       waiting, results, reader, received, filled, swapper>>
    BY <1>1, <1>7 DEF PopTask, readerVars, WorkShape
  <2>2. CASE queue = <<>>
    <3>1. loop' = "release" /\ UNCHANGED <<queue, hand>>
      BY <1>7, <2>2 DEF PopTask
    <3> QED
      BY <1>1, <2>1, <3>1 DEF Typed, WorkShape, LoopAt, BusySlots
  <2>3. CASE queue # <<>>
    <3>1. loop' = "process" /\ hand' = Head(queue) /\ queue' = Tail(queue)
      BY <1>7, <2>3 DEF PopTask
    <3>2. hand' \in Messages /\ queue' \in Seq(Messages)
      BY <1>1, <2>3, <3>1 DEF Typed
    <3>3. hand' # NoMessage
      BY <3>2, MessageFacts
    <3> QED
      BY <1>1, <2>1, <3>1, <3>2, <3>3 DEF Typed, WorkShape, LoopAt, BusySlots
  <2> QED
    BY <2>2, <2>3
<1>8. CASE Defer
  <2>1. hand \in Asked
    <3>1. hand \in Messages /\ hand.kind = "ask"
      BY <1>1, <1>8 DEF Typed, WorkShape, Defer
    <3> QED
      BY <3>1, MessageFacts
  <2>2. deferred' \in Seq(Asked)
    BY <1>1, <1>8, <2>1 DEF Typed, Defer
  <2> QED
    BY <1>1, <1>8, <2>2 DEF Defer, readerVars, Typed, WorkShape, LoopAt, BusySlots
<1>9. CASE ProcessNext
  BY <1>1, <1>9 DEF ProcessNext, readerVars, Typed, WorkShape, LoopAt, BusySlots
<1>10. CASE StartUpdate
  <2>1. queue' \in Seq(Messages)
    <3>1. queue \in Seq(Messages) /\ NextResponse \in Messages
      BY <1>1, MessageFacts DEF Typed
    <3>2. queue' = queue \/ queue' = Append(queue, NextResponse)
      BY <1>10 DEF StartUpdate
    <3> QED
      BY <3>1, <3>2
  <2> QED
    BY <1>1, <1>10, <2>1 DEF StartUpdate, readerVars, Typed, WorkShape, LoopAt, BusySlots
<1>11. CASE Decode
  <2>1. BusySlots \subseteq Slots
    BY DEF BusySlots
  <2>2. todo' \subseteq Slots /\ (loop' = "sample" => todo' = BusySlots)
    BY <1>11, <2>1 DEF Decode
  <2> QED
    BY <1>1, <1>11, <2>2 DEF Decode, readerVars, Typed, WorkShape, LoopAt, BusySlots
<1>12. CASE EndUpdate
  BY <1>1, <1>12 DEF EndUpdate, readerVars, Typed, WorkShape, LoopAt, BusySlots
<1>13. CASE WaitOrEnd
  <2>1. control' \in Seq({"park", "unpark"}) /\ swapper' \in {"idle", "park", "unpark"}
    <3>1. control' \in {control, <<>>} /\ swapper' \in {swapper, "idle"}
      BY <1>13 DEF WaitOrEnd, EndLoop
    <3>2. <<>> \in Seq({"park", "unpark"})
      OBVIOUS
    <3> QED
      BY <1>1, <3>1, <3>2 DEF Typed
  <2> QED
    BY <1>1, <1>13, <2>1 DEF WaitOrEnd, EndLoop, readerVars, Typed, WorkShape, LoopAt, BusySlots
<1>14. CASE Wake
  BY <1>1, <1>14 DEF Wake, readerVars, Typed, WorkShape, LoopAt, BusySlots
<1>15. CASE Heartbeat
  <2>1. queue' \in Seq(Messages) /\ deferred' \in Seq(Asked)
    <3>1. CASE NotifySlotChanged
      BY <1>1, <3>1 DEF Typed, NotifySlotChanged
    <3>2. CASE UNCHANGED <<queue, deferred>>
      BY <1>1, <3>2 DEF Typed
    <3> QED
      BY <1>15, <3>1, <3>2 DEF Heartbeat
  <2> QED
    BY <1>1, <1>15, <2>1 DEF Heartbeat, readerVars, Typed, WorkShape, LoopAt, BusySlots
<1> QED
  BY <1>2, <1>3, <1>4, <1>5, <1>6, <1>7, <1>8, <1>9, <1>10, <1>11, <1>12, <1>13, <1>14, <1>15


-----------------------------------------------------------------------------
(* What the loop does to the slots.                                        *)

LEMMA LaunchFacts ==
    ASSUME TypeInv, NEW s \in Slots, Launch(s)
    PROVE  /\ hand \in Messages /\ hand.task \in Tasks /\ hand = Ask(hand.task)
           /\ slots[s].state = "free"
           /\ slots' \in [Slots -> SlotStates]
           /\ \A q \in Slots \ {s} : slots'[q] = slots[q]
           /\ slots'[s].id = hand.task
           /\ \/ slots'[s].state = "busy" /\ UNCHANGED results
              \/ slots'[s].state = "free" /\ Send("error", hand.task)
<1>1. Typed /\ WorkShape
  BY TypeFacts DEF TypeInv
<1>2. hand \in Messages /\ hand.task \in Tasks /\ hand = Ask(hand.task)
  BY <1>1, MessageFacts DEF Typed, WorkShape, Launch
<1>3. slots[s].state = "free"
  BY DEF Launch, Admitted, FreeSlots
<1>4. 0 \in 0..MaxSteps
  BY QueueConstants
<1> DEFINE new(st) == [state |-> st, id |-> hand.task, steps |-> 0]
<1>5. \A st \in {"busy", "free"} : new(st) \in SlotStates
  BY <1>2, <1>4 DEF SlotStates
<1>6. \/ slots' = [slots EXCEPT ![s] = new("busy")] /\ UNCHANGED results
      \/ slots' = [slots EXCEPT ![s] = new("free")] /\ Send("error", hand.task)
  BY DEF Launch
<1>7. \A st : new(st).id = hand.task /\ new(st).state = st
  OBVIOUS
<1> HIDE DEF new
<1> QED
  BY <1>1, <1>2, <1>3, <1>5, <1>6, <1>7 DEF Typed

LEMMA GoOnFacts ==
    ASSUME TypeInv, NEW s \in Slots, GoOn(s)
    PROVE  /\ slots' \in [Slots -> SlotStates]
           /\ \A q \in Slots : slots'[q].id = slots[q].id /\ slots'[q].state = slots[q].state
           /\ slots[s].state = "busy" /\ slots[s].id \in Tasks \union {NoTask}
           /\ Send("partial", slots[s].id) \/ UNCHANGED results
<1>1. Typed /\ WorkShape
  BY TypeFacts DEF TypeInv
<1>2. slots[s] \in SlotStates /\ slots[s].steps < MaxSteps /\ MaxSteps \in Nat
  BY <1>1, QueueConstants DEF Typed, GoOn
<1>3. slots[s].steps \in 0..MaxSteps /\ slots[s].id \in Tasks \union {NoTask}
  BY <1>2 DEF SlotStates
<1> DEFINE n == slots[s].steps + 1
           new == [slots[s] EXCEPT !.steps = n]
<1>4. n \in 0..MaxSteps
  BY <1>2, <1>3
<1>5. slots' = [slots EXCEPT ![s] = new]
  BY DEF GoOn
<1> HIDE DEF n
<1>6. new \in SlotStates /\ new.id = slots[s].id /\ new.state = slots[s].state
  BY <1>2, <1>4, Zenon DEF SlotStates
<1> HIDE DEF new
<1>7. slots[s].state = "busy"
  BY <1>1 DEF WorkShape, GoOn, BusySlots
<1> QED
  BY <1>1, <1>3, <1>5, <1>6, <1>7 DEF Typed, GoOn

LEMMA ReleaseSlotsFacts ==
    ASSUME TypeInv, ReleaseSlots
    PROVE  /\ slots' \in [Slots -> SlotStates]
           /\ \A q \in Slots : /\ slots'[q].id = slots[q].id
                               /\ slots'[q].state = IF slots[q].state = "released" THEN "free"
                                                    ELSE slots[q].state
           /\ \/ /\ queue' = queue \o deferred /\ deferred' = <<>>
              \/ /\ \A q \in Slots : slots[q].state # "released"
                 /\ UNCHANGED <<queue, deferred>>
           /\ queue' \in Seq(Messages) /\ deferred' \in Seq(Asked)
<1>1. Typed /\ deferred \in Seq(Messages)
  BY TypeFacts DEF TypeInv
<1> DEFINE new(q) == IF slots[q].state = "released" THEN [slots[q] EXCEPT !.state = "free"]
                     ELSE slots[q]
<1>2. slots' = [q \in Slots |-> new(q)]
  BY DEF ReleaseSlots
<1>3. ASSUME NEW q \in Slots
      PROVE  /\ new(q) \in SlotStates /\ new(q).id = slots[q].id
             /\ new(q).state = IF slots[q].state = "released" THEN "free" ELSE slots[q].state
  <2>1. slots[q] \in SlotStates
    BY <1>1 DEF Typed
  <2> QED
    BY <2>1, Zenon DEF SlotStates
<1> HIDE DEF new
<1>4. /\ slots' \in [Slots -> SlotStates]
      /\ \A q \in Slots : /\ slots'[q].id = slots[q].id
                          /\ slots'[q].state = IF slots[q].state = "released" THEN "free"
                                               ELSE slots[q].state
  BY <1>2, <1>3
<1>5. CASE slots' # slots
  <2>1. queue' = queue \o deferred /\ deferred' = <<>>
    BY <1>5 DEF ReleaseSlots, NotifySlotChanged
  <2> QED
    BY <1>1, <1>4, <2>1 DEF Typed
<1>6. CASE slots' = slots
  <2>1. UNCHANGED <<queue, deferred>>
    BY <1>6 DEF ReleaseSlots
  <2>2. \A q \in Slots : slots[q].state # "released"
    BY <1>4, <1>6
  <2> QED
    BY <1>1, <1>4, <2>1, <2>2 DEF Typed
<1> QED
  BY <1>5, <1>6

(* A slot is released, by its last token, by a failed decode or by a       *)
(* cancel, and its task is answered or not.                                *)
LEMMA EndSlotFacts ==
    ASSUME TypeInv, NEW s \in Slots, Finish(s) \/ FailSlot(s)
    PROVE  /\ slots' \in [Slots -> SlotStates]
           /\ \A q \in Slots : /\ slots'[q].id = slots[q].id
                               /\ slots'[q].state = IF q = s THEN "released" ELSE slots[q].state
           /\ slots[s].id \in Tasks \union {NoTask}
           /\ \/ Send("final", slots[s].id) /\ slots[s].state = "busy"
              \/ Send("error", slots[s].id)
<1>1. Typed /\ WorkShape
  BY TypeFacts DEF TypeInv
<1>2. slots[s] \in SlotStates
  BY <1>1 DEF Typed
<1>3. slots[s].id \in Tasks \union {NoTask}
  BY <1>2 DEF SlotStates
<1>4. slots' = Released(s)
  BY DEF Finish, FailSlot
<1>5. \/ Send("final", slots[s].id) /\ slots[s].state = "busy"
      \/ Send("error", slots[s].id)
  BY <1>1 DEF Finish, FailSlot, WorkShape, BusySlots
<1> QED
  BY <1>1, <1>3, <1>4, <1>5, ReleasedFacts DEF Typed

LEMMA CancelFacts ==
    ASSUME TypeInv, ProcessCancel
    PROVE  /\ hand \in Messages /\ hand.task \in Tasks /\ hand = Cancel(hand.task)
           /\ slots' \in [Slots -> SlotStates]
           /\ \/ /\ \A q \in Slots : ~(slots[q].state = "busy" /\ slots[q].id = hand.task)
                 /\ UNCHANGED slots
              \/ \E s \in Slots :
                    /\ slots[s].state = "busy" /\ slots[s].id = hand.task
                    /\ \A q \in Slots : /\ slots'[q].id = slots[q].id
                                        /\ slots'[q].state = IF q = s THEN "released"
                                                             ELSE slots[q].state
<1>1. Typed /\ WorkShape
  BY TypeFacts DEF TypeInv
<1>2. hand \in Messages /\ hand.task \in Tasks /\ hand = Cancel(hand.task)
  BY <1>1, MessageFacts DEF Typed, WorkShape, ProcessCancel
<1> DEFINE S == {s \in BusySlots : slots[s].id = hand.task}
<1>3. (\E s \in S : slots' = Released(s)) \/ (S = {} /\ UNCHANGED slots)
  BY DEF ProcessCancel
<1>4. CASE \E s \in S : slots' = Released(s)
  <2>1. PICK s \in S : slots' = Released(s)
    BY <1>4
  <2>2. s \in Slots /\ slots[s].state = "busy" /\ slots[s].id = hand.task
    BY DEF BusySlots
  <2> HIDE DEF S
  <2> QED
    BY <1>1, <1>2, <2>1, <2>2, ReleasedFacts DEF Typed
<1>5. CASE S = {} /\ UNCHANGED slots
  <2>1. \A q \in Slots : ~(slots[q].state = "busy" /\ slots[q].id = hand.task)
    BY <1>5 DEF BusySlots
  <2> HIDE DEF S
  <2> QED
    BY <1>1, <1>2, <1>5, <2>1 DEF Typed
<1> HIDE DEF S
<1> QED
  BY <1>3, <1>4, <1>5

LEMMA SendTyped ==
    ASSUME TypeInv, NEW k \in {"partial", "final", "error"}, NEW t, Send(k, t) \/ UNCHANGED results
    PROVE  results' \in Seq(Answers)
BY TypeFacts, SendFacts DEF TypeInv, Typed

LEMMA TypeSlots ==
    ASSUME TypeInv,
           \/ ProcessCancel \/ ReleaseSlots
           \/ \E s \in Slots : Launch(s) \/ GoOn(s) \/ Finish(s) \/ FailSlot(s)
    PROVE  TypeInv'
<1>1. Typed /\ deferred \in Seq(Messages) /\ WorkShape
  BY TypeFacts DEF TypeInv
<1> SUFFICES Typed' /\ WorkShape'
  BY DEF TypeInv, TypeOK, Typed, Asked, Answers, SlotStates, LoopAt, ReaderAt
<1>2. CASE ProcessCancel
  BY <1>1, <1>2, CancelFacts DEF ProcessCancel, readerVars, Typed, WorkShape, LoopAt
<1>3. CASE ReleaseSlots
  BY <1>1, <1>3, ReleaseSlotsFacts DEF ReleaseSlots, readerVars, Typed, WorkShape, LoopAt
<1>4. ASSUME NEW s \in Slots, Launch(s) PROVE Typed' /\ WorkShape'
  <2>1. results' \in Seq(Answers) /\ slots' \in [Slots -> SlotStates]
    BY <1>4, LaunchFacts, SendTyped
  <2> QED
    BY <1>1, <1>4, <2>1 DEF Launch, readerVars, Typed, WorkShape, LoopAt
<1>5. ASSUME NEW s \in Slots, GoOn(s) PROVE Typed' /\ WorkShape'
  <2>1. results' \in Seq(Answers) /\ slots' \in [Slots -> SlotStates]
    BY <1>5, GoOnFacts, SendTyped
  <2>2. BusySlots' = BusySlots
    BY <1>5, GoOnFacts DEF BusySlots
  <2>3. todo' = todo \ {s}
    BY <1>5 DEF GoOn
  <2> QED
    BY <1>1, <1>5, <2>1, <2>2, <2>3 DEF GoOn, readerVars, Typed, WorkShape, LoopAt
<1>6. ASSUME NEW s \in Slots, Finish(s) \/ FailSlot(s) PROVE Typed' /\ WorkShape'
  <2>1. results' \in Seq(Answers) /\ slots' \in [Slots -> SlotStates]
    BY <1>6, EndSlotFacts, SendTyped
  <2>2. BusySlots \ {s} \subseteq BusySlots'
    BY <1>6, EndSlotFacts DEF BusySlots
  <2>3. todo' = todo \ {s} /\ abort' = FALSE
        /\ UNCHANGED <<queue, deferred, control, paused, running, ended, loop, hand,
                       waiting, readerVars, swapper>>
    BY <1>6 DEF Finish, FailSlot
  <2> QED
    BY <1>1, <2>1, <2>2, <2>3 DEF readerVars, Typed, WorkShape
<1> QED
  BY <1>2, <1>3, <1>4, <1>5, <1>6

LEMMA TypeNext == TypeInv /\ [Next]_vars => TypeInv'
<1> SUFFICES ASSUME TypeInv, [Next]_vars PROVE TypeInv'
  OBVIOUS
<1>1. Typed /\ WorkShape
  BY TypeFacts DEF TypeInv
<1>2. CASE LoopStep
  BY <1>2, TypeLoop, TypeSlots DEF LoopStep
<1>3. CASE \E r \in Readers : Register(r) \/ ReaderStep(r) \/ GiveUp(r)
  BY <1>3, TypeReader
<1>4. CASE \E f \in {"park", "unpark"} : PostControl(f)
  <2>1. PICK f \in {"park", "unpark"} : PostControl(f)
    BY <1>4
  <2>2. control' \in Seq({"park", "unpark"})
    BY <1>1, <2>1 DEF PostControl, Typed
  <2>3. Typed' /\ WorkShape'
    BY <1>1, <2>1, <2>2 DEF PostControl, loopVars, readerVars, Typed, WorkShape, BusySlots
  <2> QED
    BY <2>3 DEF TypeInv, TypeOK, Typed, Asked, Answers, SlotStates, LoopAt, ReaderAt
<1>5. CASE Terminate \/ UNCHANGED vars
  <2>1. Typed' /\ WorkShape'
    BY <1>1, <1>5 DEF Terminate, vars, loopVars, readerVars, Typed, WorkShape, BusySlots
  <2> QED
    BY <2>1 DEF TypeInv, TypeOK, Typed, Asked, Answers, SlotStates, LoopAt, ReaderAt
<1> QED
  BY <1>2, <1>3, <1>4, <1>5 DEF Next

LEMMA TypeInvariance == Spec => []TypeInv
BY TypeInit, TypeNext, PTL DEF Spec

(* Every variable of the queue stays in its type: no reader counts more    *)
(* last results than it has tasks, no slot works past its steps.           *)
THEOREM TypeCorrect == Spec => []TypeOK
<1>1. TypeInv => TypeOK
  BY DEF TypeInv
<1> QED
  BY <1>1, TypeInvariance, PTL


-----------------------------------------------------------------------------
(* SleepsOnlyWhenIdle.                                                     *)

AllFree == \A s \in Slots : slots[s].state = "free"

(* From the update on, NEXT_RESPONSE is in the queue unless every slot is  *)
(* free; a slot that is not free is what a deferred task waits for, if it  *)
(* waits for a slot; and the loop has no deferred task while it sleeps.    *)
TurnInv ==
    /\ loop \in {"decode", "sample", "fail"} => Count(queue, NextResponse) > 0
    /\ loop \in {"wait", "asleep", "heartbeat"} => AllFree \/ Count(queue, NextResponse) > 0
    /\ AllFree => \A i \in DOMAIN deferred : MayStayDeferred(deferred[i].task)
    /\ loop = "asleep" => DOMAIN deferred = {}

LEMMA AllFreeSlots == AllFree <=> FreeSlots = Slots
BY DEF AllFree, FreeSlots

LEMMA QueueGrows ==
    ASSUME NEW q \in Seq(Messages), NEW p \in Seq(Messages), NEW m, Count(q, m) > 0
    PROVE  Count(q \o p, m) > 0
BY CountConcat, CountType

LEMMA TurnInit == Init => TurnInv
BY DEF Init, TurnInv

LEMMA TurnReader ==
    ASSUME TypeInv, TurnInv, NEW r \in Readers, Register(r) \/ ReaderStep(r) \/ GiveUp(r)
    PROVE  TurnInv'
<1>1. Typed /\ deferred \in Seq(Messages)
  BY TypeFacts DEF TypeInv
<1>2. UNCHANGED <<loop, slots>>
  <2>1. CASE Recv(r)
    BY <2>1, RecvTakes DEF TypeInv, Taken, loopVars
  <2>2. CASE ~Recv(r)
    BY <2>2 DEF ReaderStep, Register, GiveUp, Post, AbortDecode, StopWaiting, StopCancel, loopVars
  <2> QED
    BY <2>1, <2>2
<1>3. CASE Post(r)
  <2> DEFINE new == [i \in DOMAIN Asks[r] |-> Ask(Asks[r][i])]
  <2>1. new \in Seq(Messages)
    <3>1. /\ DOMAIN Asks[r] = 1..Len(Asks[r]) /\ Len(Asks[r]) \in Nat
          /\ \A i \in 1..Len(Asks[r]) : Asks[r][i] \in Tasks
      BY AsksFacts
    <3>2. \A i \in 1..Len(Asks[r]) : Ask(Asks[r][i]) \in Messages
      BY <3>1, MessageFacts
    <3> QED
      BY <3>1, <3>2
  <2>2. queue' = queue \o new /\ UNCHANGED deferred
    BY <1>3 DEF Post
  <2> HIDE DEF new
  <2>3. Count(queue, NextResponse) > 0 => Count(queue', NextResponse) > 0
    BY <1>1, <2>1, <2>2, QueueGrows DEF Typed
  <2> QED
    BY <1>2, <2>2, <2>3 DEF TurnInv, AllFree
<1>4. CASE StopCancel(r)
  <2>1. /\ Count(queue', NextResponse) = Count(queue, NextResponse)
        /\ \A i \in DOMAIN deferred' : \E j \in DOMAIN deferred : deferred'[i] = deferred[j]
    BY <1>4, PostCancelsFacts DEF StopCancel, TypeInv
  <2> QED
    BY <1>2, <2>1 DEF TurnInv, AllFree
<1>5. CASE Register(r) \/ Recv(r) \/ AbortDecode(r) \/ StopWaiting(r) \/ GiveUp(r)
  <2>1. UNCHANGED <<queue, deferred>>
    <3>1. CASE Recv(r)
      BY <3>1, RecvTakes DEF TypeInv, Taken, loopVars
    <3> QED
      BY <3>1, <1>5 DEF Register, GiveUp, AbortDecode, StopWaiting
  <2> QED
    BY <1>2, <2>1 DEF TurnInv, AllFree
<1> QED
  BY <1>3, <1>4, <1>5 DEF ReaderStep

LEMMA TurnLoop ==
    ASSUME TypeInv, TurnInv,
           \/ StartLoop \/ TakeControl \/ RunControl \/ LeaveControl \/ PausedWait
           \/ PopTask \/ Defer \/ ProcessNext \/ StartUpdate \/ Decode \/ EndUpdate
           \/ WaitOrEnd \/ Wake \/ Heartbeat
    PROVE  TurnInv'
<1>1. Typed /\ deferred \in Seq(Messages)
  BY TypeFacts DEF TypeInv
<1>2. AllFree' = AllFree
  BY DEF StartLoop, TakeControl, RunControl, LeaveControl, PausedWait, PopTask, Defer, ProcessNext,
         StartUpdate, Decode, EndUpdate, WaitOrEnd, Wake, Heartbeat, AllFree
<1>3. CASE StartLoop \/ LeaveControl \/ ProcessNext \/ PopTask \/ RunControl \/ PausedWait \/ Wake
  <2>1. /\ UNCHANGED deferred
        /\ loop' \in {"control", "paused", "drain", "release", "process", "ended"}
    BY <1>3 DEF StartLoop, LeaveControl, ProcessNext, PopTask, RunControl, PausedWait, Wake, EndLoop
  <2> QED
    BY <1>2, <2>1 DEF TurnInv
<1>4. CASE TakeControl
  <2>1. loop' \in {"park", "unpark"} /\ UNCHANGED deferred
    BY <1>1, <1>4 DEF TakeControl, Typed
  <2> QED
    BY <1>2, <2>1 DEF TurnInv
<1>5. CASE Defer
  <2>1. hand.kind = "ask" /\ Refused(hand.task) /\ deferred' = Append(deferred, hand) /\ loop' = "drain"
    BY <1>5 DEF Defer
  <2>2. hand \in Messages
    BY <1>1, <1>5 DEF Defer, TypeInv, WorkShape, Typed
  <2>3. AllFree => MayStayDeferred(hand.task)
    BY <2>1, AllFreeSlots, QueueConstants DEF Refused, Admitted, MayStayDeferred
  <2>4. \A i \in DOMAIN deferred' : deferred'[i] = hand \/ (i \in DOMAIN deferred /\ deferred'[i] = deferred[i])
    BY <1>1, <2>1, <2>2
  <2>5. AllFree' => \A i \in DOMAIN deferred' : MayStayDeferred(deferred'[i].task)
    BY <1>2, <2>3, <2>4 DEF TurnInv
  <2> QED
    BY <2>1, <2>5 DEF TurnInv
<1>6. CASE StartUpdate
  <2>1. CASE AllFree
    <3>1. loop' = "wait" /\ UNCHANGED <<queue, deferred>>
      BY <1>6, <2>1, AllFreeSlots DEF StartUpdate
    <3> QED
      BY <1>2, <2>1, <3>1 DEF TurnInv
  <2>2. CASE ~AllFree
    <3>1. loop' = "decode" /\ queue' = Append(queue, NextResponse) /\ UNCHANGED deferred
      BY <1>6, <2>2, AllFreeSlots DEF StartUpdate
    <3>2. queue \in Seq(Messages) /\ NextResponse \in Messages
      BY <1>1, MessageFacts DEF Typed
    <3>3. Count(queue', NextResponse) = Count(queue, NextResponse) + 1
      BY <3>1, <3>2, CountAppend
    <3>4. Count(queue, NextResponse) \in Nat
      BY <3>2, CountType
    <3> QED
      BY <1>2, <2>2, <3>1, <3>3, <3>4 DEF TurnInv
  <2> QED
    BY <2>1, <2>2
<1>7. CASE Decode \/ EndUpdate \/ WaitOrEnd
  <2>1. UNCHANGED <<queue, deferred>>
    BY <1>7 DEF Decode, EndUpdate, WaitOrEnd
  <2>2. \/ loop \in {"decode", "sample", "fail"} /\ loop' \in {"decode", "sample", "fail", "wait"}
        \/ loop = "wait" /\ loop' \in {"control", "ended", "heartbeat"}
        \/ loop = "wait" /\ loop' = "asleep" /\ deferred = <<>>
    BY <1>7 DEF Decode, EndUpdate, WaitOrEnd, EndLoop
  <2> QED
    BY <1>2, <2>1, <2>2 DEF TurnInv
<1>8. CASE Heartbeat
  <2>1. loop' = "control" /\ (deferred' = <<>> \/ UNCHANGED deferred)
    BY <1>8 DEF Heartbeat, NotifySlotChanged
  <2> QED
    BY <1>2, <2>1 DEF TurnInv
<1> QED
  BY <1>3, <1>4, <1>5, <1>6, <1>7, <1>8

LEMMA TurnSlots ==
    ASSUME TypeInv, TurnInv,
           \/ ProcessCancel \/ ReleaseSlots
           \/ \E s \in Slots : Launch(s) \/ GoOn(s) \/ Finish(s) \/ FailSlot(s)
    PROVE  TurnInv'
<1>1. Typed /\ deferred \in Seq(Messages)
  BY TypeFacts DEF TypeInv
<1>2. CASE ProcessCancel
  <2>1. loop' = "drain" /\ UNCHANGED deferred
    BY <1>2 DEF ProcessCancel
  <2>2. AllFree' => AllFree
    BY <1>2, CancelFacts DEF AllFree
  <2> QED
    BY <2>1, <2>2 DEF TurnInv
<1>3. CASE ReleaseSlots
  <2>1. loop' = "update"
    BY <1>3 DEF ReleaseSlots
  <2>2. deferred' = <<>> \/ (UNCHANGED deferred /\ (AllFree' => AllFree))
    BY <1>3, ReleaseSlotsFacts DEF AllFree
  <2> QED
    BY <2>1, <2>2 DEF TurnInv
<1>4. ASSUME NEW s \in Slots, Launch(s) PROVE TurnInv'
  <2>1. loop' = "drain" /\ UNCHANGED deferred
    BY <1>4 DEF Launch
  <2>2. AllFree' => AllFree
    BY <1>4, LaunchFacts DEF AllFree
  <2> QED
    BY <2>1, <2>2 DEF TurnInv
<1>5. ASSUME NEW s \in Slots, GoOn(s) PROVE TurnInv'
  <2>1. UNCHANGED <<loop, queue, deferred>>
    BY <1>5 DEF GoOn
  <2>2. AllFree' <=> AllFree
    BY <1>5, GoOnFacts DEF AllFree
  <2> QED
    BY <2>1, <2>2 DEF TurnInv
<1>6. ASSUME NEW s \in Slots, Finish(s) \/ FailSlot(s) PROVE TurnInv'
  <2>1. UNCHANGED <<loop, queue, deferred>> /\ loop \in {"sample", "fail"}
    BY <1>6 DEF Finish, FailSlot
  <2>2. ~AllFree'
    <3>1. slots'[s].state = "released"
      BY <1>6, EndSlotFacts
    <3> QED
      BY <3>1 DEF AllFree
  <2> QED
    BY <2>1, <2>2 DEF TurnInv
<1> QED
  BY <1>2, <1>3, <1>4, <1>5, <1>6

LEMMA TurnNext == TypeInv /\ TurnInv /\ [Next]_vars => TurnInv'
<1> SUFFICES ASSUME TypeInv, TurnInv, [Next]_vars PROVE TurnInv'
  OBVIOUS
<1>1. CASE LoopStep
  BY <1>1, TurnLoop, TurnSlots DEF LoopStep
<1>2. CASE \E r \in Readers : Register(r) \/ ReaderStep(r) \/ GiveUp(r)
  BY <1>2, TurnReader
<1>3. CASE (\E f \in {"park", "unpark"} : PostControl(f)) \/ Terminate \/ UNCHANGED vars
  <2>1. UNCHANGED <<loop, queue, deferred, slots>>
    BY <1>3 DEF PostControl, Terminate, vars, loopVars
  <2> QED
    BY <2>1 DEF TurnInv, AllFree
<1> QED
  BY <1>1, <1>2, <1>3 DEF Next

LEMMA TurnInvariance == Spec => [](TypeInv /\ TurnInv)
BY TypeInit, TypeNext, TurnInit, TurnNext, PTL DEF Spec

LEMMA EmptyQueueIsIdle ==
    ASSUME TurnInv, queue = <<>>, loop \in {"wait", "asleep", "heartbeat"}
    PROVE  AllFree /\ \A i \in DOMAIN deferred : MayStayDeferred(deferred[i].task)
<1>1. Count(queue, NextResponse) = 0
  BY CountEmpty
<1> QED
  BY <1>1 DEF TurnInv

(* start_loop never waits while a slot is at work, or a deferred task waits*)
(* only for a slot: update_slots posts NEXT_RESPONSE before it decodes, and*)
(* release_slots pumps the deferred queue whenever it frees a slot.  While *)
(* a task waits for the ring, or for a slot there is none of, the wait is  *)
(* the timed one.                                                          *)
THEOREM LoopSleepsIdle == Spec => []SleepsOnlyWhenIdle
<1>1. TypeInv /\ TurnInv => SleepsOnlyWhenIdle
  <2> SUFFICES ASSUME TypeInv, TurnInv PROVE SleepsOnlyWhenIdle
    OBVIOUS
  <2>1. ASSUME loop \in {"asleep", "heartbeat"}, queue = <<>>
        PROVE  /\ FreeSlots = Slots
               /\ \A i \in DOMAIN deferred : MayStayDeferred(deferred[i].task)
    BY <2>1, EmptyQueueIsIdle, AllFreeSlots
  <2>2. ASSUME loop = "asleep" PROVE deferred = <<>>
    <3>1. deferred \in Seq(Messages)
      BY TypeFacts DEF TypeInv
    <3> QED
      BY <2>2, <3>1 DEF TurnInv
  <2> QED
    BY <2>1, <2>2 DEF SleepsOnlyWhenIdle
<1> QED
  BY <1>1, TurnInvariance, PTL


-----------------------------------------------------------------------------
(* NothingLost and OneFinal.                                               *)

OnSlots(t) == {s \in BusySlots : slots[s].id = t}
InHand(t) == IF hand = Ask(t) THEN 1 ELSE 0

(* A slot that is no longer at work still has this id_task.                *)
Idle(t) == \E s \in Slots : slots[s].id = t /\ slots[s].state # "busy"

Cancelled(t) == hand = Cancel(t) \/ Count(queue, Cancel(t)) > 0

Finals(t) == Count(results, Result("final", t))
Errors(t) == Count(results, Result("error", t))

(* A task and its reader: where the task is, who waits for it, and which   *)
(* answers of it there are.                                                *)
Delivery(r, t) ==
    /\ Places(t) <= 1
    /\ reader[r] \in {"new", "registered"} =>
          Places(t) = 0 /\ ~Idle(t) /\ ~Answered(t) /\ t \notin filled
    /\ Idle(t) => Places(t) = 0
    /\ Cancelled(t) => reader[r] = "done"
    /\ reader[r] \in {"registered", "waiting", "aborting", "stopping"} => t \in waiting
    /\ reader[r] = "waiting" /\ t \notin filled => (Places(t) = 0 <=> Answered(t))
    /\ Finals(t) > 0 => Places(t) = 0 /\ t \notin filled /\ Finals(t) = 1
    /\ t \in filled => Places(t) = 0

DeliveryInv == \A r \in Readers : \A t \in Ids(r) : Delivery(r, t)

LEMMA PlacesSum ==
    ASSUME NEW t
    PROVE  Places(t) = Count(queue, Ask(t)) + Count(deferred, Ask(t)) + InHand(t)
                       + Cardinality(OnSlots(t))
BY DEF Places, Count, At, InHand, OnSlots

LEMMA OnSlotsFinite ==
    ASSUME NEW t
    PROVE  IsFiniteSet(OnSlots(t)) /\ Cardinality(OnSlots(t)) \in Nat
           /\ (Cardinality(OnSlots(t)) = 0 <=> OnSlots(t) = {})
<1>1. OnSlots(t) \in SUBSET Slots
  BY DEF OnSlots, BusySlots
<1> QED
  BY <1>1, QueueConstants, FS_Subset, FS_CardinalityType, FS_EmptySet

LEMMA PlacesType ==
    ASSUME TypeInv, NEW t
    PROVE  /\ Places(t) \in Nat /\ InHand(t) \in Nat /\ Cardinality(OnSlots(t)) \in Nat
           /\ Count(queue, Ask(t)) \in Nat /\ Count(deferred, Ask(t)) \in Nat
<1>1. queue \in Seq(Messages) /\ deferred \in Seq(Messages)
  BY TypeFacts DEF TypeInv, Typed
<1> QED
  BY <1>1, CountType, OnSlotsFinite, PlacesSum DEF InHand

(* An answer is in the queue when a last result or an error is.            *)
LEMMA CountAnswers ==
    ASSUME NEW q \in Seq(Answers), NEW t
    PROVE  /\ Count(q, Result("final", t)) \in Nat /\ Count(q, Result("error", t)) \in Nat
           /\ (\E i \in DOMAIN q : q[i].task = t /\ q[i].kind # "partial") <=>
                 Count(q, Result("final", t)) > 0 \/ Count(q, Result("error", t)) > 0
<1> DEFINE f == Count(q, Result("final", t))
           e == Count(q, Result("error", t))
<1>1. f \in Nat /\ e \in Nat
  BY CountType
<1>2. f = 0 <=> \A i \in 1..Len(q) : q[i] # Result("final", t)
  BY CountType
<1>3. e = 0 <=> \A i \in 1..Len(q) : q[i] # Result("error", t)
  BY CountType
<1>4. \A i \in 1..Len(q) :
         /\ q[i].kind \in {"partial", "final", "error"}
         /\ q[i] = Result(q[i].kind, q[i].task)
  BY ResultFacts
<1>5. \A k : Result(k, t).kind = k /\ Result(k, t).task = t
  BY ResultFacts
<1>6. (\E i \in DOMAIN q : q[i].task = t /\ q[i].kind # "partial") <=>
         \E i \in 1..Len(q) : q[i] \in {Result("final", t), Result("error", t)}
  <2>1. DOMAIN q = 1..Len(q)
    OBVIOUS
  <2> QED
    BY <2>1, <1>4, <1>5
<1> HIDE DEF f, e
<1>7. (\E i \in DOMAIN q : q[i].task = t /\ q[i].kind # "partial") <=> f > 0 \/ e > 0
  BY <1>1, <1>2, <1>3, <1>6
<1> QED
  BY <1>1, <1>7 DEF f, e

LEMMA AnsweredCounts ==
    ASSUME TypeInv, NEW t
    PROVE  /\ Finals(t) \in Nat /\ Errors(t) \in Nat
           /\ Answered(t) <=> Finals(t) > 0 \/ Errors(t) > 0
<1>1. results \in Seq(Answers)
  BY TypeFacts DEF TypeInv, Typed
<1> QED
  BY <1>1, CountAnswers DEF Answered, Finals, Errors

LEMMA AnsweredNext ==
    ASSUME results' \in Seq(Answers), NEW t
    PROVE  /\ Finals(t)' \in Nat /\ Errors(t)' \in Nat
           /\ Answered(t)' <=> Finals(t)' > 0 \/ Errors(t)' > 0
BY CountAnswers DEF Answered, Finals, Errors

LEMMA PlacesNext ==
    ASSUME NEW t
    PROVE  Places(t)' = Count(queue', Ask(t)) + Count(deferred', Ask(t)) + InHand(t)'
                        + Cardinality(OnSlots(t)')
BY DEF Places, Count, At, InHand, OnSlots

LEMMA PlacesTypeNext ==
    ASSUME TypeInv', NEW t
    PROVE  Places(t)' \in Nat
<1>1. Typed'
  <2>1. TypeOK' <=> Typed'
    BY TypedIsTypeOK, PTL
  <2> QED
    BY <2>1 DEF TypeInv
<1>2. OnSlots(t)' \in SUBSET Slots
  BY DEF OnSlots, BusySlots
<1>3. Cardinality(OnSlots(t)') \in Nat
  BY <1>2, QueueConstants, FS_Subset, FS_CardinalityType
<1>4. Count(queue', Ask(t)) \in Nat /\ Count(deferred', Ask(t)) \in Nat
  BY <1>1, CountType DEF Typed
<1>5. InHand(t)' \in Nat
  BY DEF InHand
<1> QED
  BY <1>3, <1>4, <1>5, PlacesNext

(* Nothing of task t and its reader changes but what the frame allows.     *)
LEMMA DeliveryFrame ==
    ASSUME NEW r, NEW t, Delivery(r, t), reader'[r] = reader[r],
           t \in waiting' <=> t \in waiting, t \in filled' <=> t \in filled,
           Places(t)' = Places(t), Idle(t)' => Idle(t), Cancelled(t)' => Cancelled(t),
           Answered(t)' <=> Answered(t), Finals(t)' = Finals(t)
    PROVE  Delivery(r, t)'
BY DEF Delivery

(* send() appends the result of a task that is waited for.                 *)
LEMMA SendCounts ==
    ASSUME TypeInv, NEW k \in {"partial", "final", "error"}, NEW u, Send(k, u), NEW t
    PROVE  /\ t # u \/ k = "partial" \/ u \notin waiting =>
                 (Answered(t)' <=> Answered(t)) /\ Finals(t)' = Finals(t)
           /\ t = u /\ u \in waiting /\ k # "partial" => Answered(t)'
           /\ t = u /\ u \in waiting /\ k = "final" => Finals(t)' = Finals(t) + 1
           /\ k = "error" => Finals(t)' = Finals(t)
<1>1. results \in Seq(Answers) /\ waiting \subseteq Tasks
  BY TypeFacts DEF TypeInv, Typed
<1>2. /\ u \notin waiting => results' = results
      /\ u \in waiting => results' = Append(results, Result(k, u)) /\ Result(k, u) \in Answers
  BY <1>1, SendFacts
<1>3. /\ Answered(t) <=> Finals(t) > 0 \/ Errors(t) > 0
      /\ Finals(t) \in Nat /\ Errors(t) \in Nat
  BY AnsweredCounts
<1>4. Answered(t)' <=> Finals(t)' > 0 \/ Errors(t)' > 0
  <2>1. results' \in Seq(Answers)
    BY <1>1, SendFacts
  <2> QED
    BY <2>1, AnsweredNext
<1>5. CASE u \notin waiting
  BY <1>2, <1>5 DEF Answered, Finals
<1>6. CASE u \in waiting
  <2>0. \A m : Count(results', m) = Count(results, m) + (IF Result(k, u) = m THEN 1 ELSE 0)
    <3>1. results' = Append(results, Result(k, u)) /\ Result(k, u) \in Answers
      BY <1>2, <1>6
    <3>2. \A m : Count(Append(results, Result(k, u)), m)
                    = Count(results, m) + (IF Result(k, u) = m THEN 1 ELSE 0)
      BY <1>1, <3>1, CountAppend
    <3> QED
      BY <3>1, <3>2
  <2>1. Finals(t)' = Finals(t) + (IF Result(k, u) = Result("final", t) THEN 1 ELSE 0)
    BY <2>0 DEF Finals
  <2>2. Errors(t)' = Errors(t) + (IF Result(k, u) = Result("error", t) THEN 1 ELSE 0)
    BY <2>0 DEF Errors
  <2>3. \A j \in {"final", "error"} : Result(k, u) = Result(j, t) <=> k = j /\ u = t
    BY ResultFacts
  <2>4. Finals(t)' = Finals(t) + (IF k = "final" /\ u = t THEN 1 ELSE 0)
    BY <2>1, <2>3
  <2>5. Errors(t)' = Errors(t) + (IF k = "error" /\ u = t THEN 1 ELSE 0)
    BY <2>2, <2>3
  <2> QED
    BY <1>3, <1>4, <1>6, <2>4, <2>5
<1> QED
  BY <1>5, <1>6

(* recv takes one result out of the queue.                                 *)
LEMMA TakeCounts ==
    ASSUME TypeInv, NEW i \in 1..Len(results), results' = RemoveAt(results, i), NEW t
    PROVE  /\ results[i].task # t \/ results[i].kind = "partial" =>
                 (Answered(t)' <=> Answered(t)) /\ Finals(t)' = Finals(t)
           /\ results[i] = Result("final", t) => Finals(t) > 0 /\ Finals(t)' = Finals(t) - 1
           /\ results[i].kind = "error" => Finals(t)' = Finals(t)
<1>1. results \in Seq(Answers)
  BY TypeFacts DEF TypeInv, Typed
<1>2. /\ Answered(t) <=> Finals(t) > 0 \/ Errors(t) > 0
      /\ Finals(t) \in Nat /\ Errors(t) \in Nat
  BY AnsweredCounts
<1>3. /\ Answered(t)' <=> Finals(t)' > 0 \/ Errors(t)' > 0
      /\ Finals(t)' \in Nat /\ Errors(t)' \in Nat
  <2>1. results' \in Seq(Answers)
    BY <1>1, RemoveAtType
  <2> QED
    BY <2>1, AnsweredNext
<1>4. Finals(t) = Finals(t)' + (IF results[i] = Result("final", t) THEN 1 ELSE 0)
  BY <1>1, CountRemoveAt DEF Finals
<1>5. Errors(t) = Errors(t)' + (IF results[i] = Result("error", t) THEN 1 ELSE 0)
  BY <1>1, CountRemoveAt DEF Errors
<1>6. \A k : Result(k, t).kind = k /\ Result(k, t).task = t
  BY ResultFacts
<1>7. results[i].task # t \/ results[i].kind = "partial" =>
         results[i] # Result("final", t) /\ results[i] # Result("error", t)
  BY <1>6
<1>8. results[i].kind = "error" => results[i] # Result("final", t)
  BY <1>6
<1> QED
  BY <1>2, <1>3, <1>4, <1>5, <1>7, <1>8

LEMMA OnSlotsSame ==
    ASSUME NEW t,
           \A q \in Slots : (slots'[q].state = "busy" /\ slots'[q].id = t)
                            <=> (slots[q].state = "busy" /\ slots[q].id = t)
    PROVE  OnSlots(t)' = OnSlots(t)
BY DEF OnSlots, BusySlots

(* A step that only moves messages: what leaves one place arrives at       *)
(* another, no slot begins or ends a task.                                 *)
Moved(t) ==
    /\ \A q \in Slots : /\ slots'[q].id = slots[q].id
                        /\ slots'[q].state = "busy" <=> slots[q].state = "busy"
    /\ Count(queue', Ask(t)) + Count(deferred', Ask(t)) + InHand(t)'
          = Count(queue, Ask(t)) + Count(deferred, Ask(t)) + InHand(t)
    /\ Cancelled(t)' => Cancelled(t)

LEMMA MovedPlaces ==
    ASSUME NEW t, Moved(t)
    PROVE  /\ Places(t)' = Places(t) /\ OnSlots(t)' = OnSlots(t)
           /\ (Idle(t)' => Idle(t)) /\ (Cancelled(t)' => Cancelled(t))
<1>1. OnSlots(t)' = OnSlots(t)
  BY OnSlotsSame DEF Moved
<1>2. Places(t)' = Places(t)
  BY <1>1, PlacesSum, PlacesNext DEF Moved
<1> QED
  BY <1>1, <1>2 DEF Moved, Idle

LEMMA QuietMoves ==
    ASSUME NEW t, UNCHANGED <<queue, deferred, hand, slots>>
    PROVE  Moved(t)
BY DEF Moved, InHand, Cancelled

(* Nothing is sent or received either.                                     *)
LEMMA DeliveryMoved ==
    ASSUME TypeInv, NEW r, NEW t, Delivery(r, t), Moved(t),
           UNCHANGED <<results, waiting, filled, reader>>
    PROVE  Delivery(r, t)'
<1>1. /\ Places(t)' = Places(t)
      /\ (Idle(t)' => Idle(t)) /\ (Cancelled(t)' => Cancelled(t))
  BY MovedPlaces
<1>2. (Answered(t)' <=> Answered(t)) /\ Finals(t)' = Finals(t)
  BY DEF Answered, Finals
<1> QED
  BY <1>1, <1>2, DeliveryFrame

LEMMA DeliveryQuiet ==
    ASSUME TypeInv, NEW r, NEW t, Delivery(r, t),
           UNCHANGED <<queue, deferred, hand, slots, results, waiting, filled, reader>>
    PROVE  Delivery(r, t)'
BY QuietMoves, DeliveryMoved

(* The loop outside launch, cancel and decode: messages are moved about.   *)
LEMMA LoopMoves ==
    ASSUME TypeInv, NEW t \in Tasks,
           \/ StartLoop \/ TakeControl \/ RunControl \/ LeaveControl \/ PausedWait
           \/ PopTask \/ Defer \/ ProcessNext \/ StartUpdate \/ Decode \/ EndUpdate
           \/ WaitOrEnd \/ Wake \/ Heartbeat \/ ReleaseSlots
    PROVE  Moved(t) /\ UNCHANGED <<results, waiting, filled, reader>>
<1>1. Typed /\ WorkShape /\ queue \in Seq(Messages) /\ deferred \in Seq(Messages)
      /\ deferred \in Seq(Asked)
  BY TypeFacts DEF TypeInv, Typed
<1>2. UNCHANGED <<results, waiting, filled, reader>>
  BY DEF StartLoop, TakeControl, RunControl, LeaveControl, PausedWait, PopTask, Defer, ProcessNext,
         StartUpdate, Decode, EndUpdate, WaitOrEnd, Wake, Heartbeat, ReleaseSlots, readerVars
<1> SUFFICES Moved(t)
  BY <1>2
<1>3. /\ Count(queue, Ask(t)) \in Nat /\ Count(deferred, Ask(t)) \in Nat
      /\ Count(queue, Cancel(t)) \in Nat /\ InHand(t) \in Nat
  BY <1>1, CountType DEF InHand
<1>4. /\ Ask(t) # NoMessage /\ Cancel(t) # NoMessage /\ Ask(t) # NextResponse
      /\ Cancel(t) # NextResponse /\ \A u : Ask(u) # Cancel(t)
  BY MessagesDiffer
<1>5. /\ \A u : Ask(u) = Ask(t) <=> u = t
  BY MessagesDiffer
<1>6. CASE StartLoop \/ TakeControl \/ RunControl \/ LeaveControl \/ PausedWait \/ Decode
           \/ EndUpdate \/ WaitOrEnd \/ Wake
  <2>1. UNCHANGED <<queue, deferred, hand, slots>>
    BY <1>6 DEF StartLoop, TakeControl, RunControl, LeaveControl, PausedWait, Decode, EndUpdate,
                WaitOrEnd, Wake
  <2> QED
    BY <2>1, QuietMoves
<1>7. CASE PopTask
  <2>1. hand = NoMessage /\ UNCHANGED <<deferred, slots>>
    BY <1>1, <1>7 DEF PopTask, WorkShape
  <2>2. CASE queue = <<>>
    <3>1. UNCHANGED <<queue, hand>>
      BY <1>7, <2>2 DEF PopTask
    <3> QED
      BY <2>1, <3>1, QuietMoves
  <2>3. CASE queue # <<>>
    <3>1. hand' = Head(queue) /\ queue' = Tail(queue)
      BY <1>7, <2>3 DEF PopTask
    <3>2. \A m : Count(queue, m) = (IF Head(queue) = m THEN 1 ELSE 0) + Count(Tail(queue), m)
      BY <1>1, <2>3, CountTail
    <3>3. Tail(queue) \in Seq(Messages)
      BY <1>1, <2>3
    <3>4. \A m : Count(queue', m) \in Nat
      BY <3>1, <3>3, CountType
    <3>5. InHand(t) = 0 /\ InHand(t)' = IF Head(queue) = Ask(t) THEN 1 ELSE 0
      BY <1>4, <2>1, <3>1 DEF InHand
    <3>6. Count(queue, Ask(t)) = InHand(t)' + Count(queue', Ask(t))
      BY <3>1, <3>2, <3>5
    <3>7. Cancelled(t)' => Cancelled(t)
      <4>1. Count(queue, Cancel(t)) = (IF hand' = Cancel(t) THEN 1 ELSE 0) + Count(queue', Cancel(t))
        BY <3>1, <3>2
      <4>2. Count(queue', Cancel(t)) \in Nat
        BY <3>4
      <4> QED
        BY <4>1, <4>2 DEF Cancelled
    <3>8. InHand(t)' \in Nat
      BY <3>5
    <3>9. Count(queue', Ask(t)) + Count(deferred', Ask(t)) + InHand(t)'
              = Count(queue, Ask(t)) + Count(deferred, Ask(t)) + InHand(t)
      BY <1>3, <2>1, <3>4, <3>5, <3>6, <3>8
    <3> QED
      BY <2>1, <3>7, <3>9 DEF Moved
  <2> QED
    BY <2>2, <2>3
<1>8. CASE Defer
  <2>1. hand \in Messages /\ hand' = NoMessage /\ deferred' = Append(deferred, hand)
        /\ UNCHANGED <<queue, slots>>
    BY <1>1, <1>8 DEF Defer, WorkShape, Typed
  <2>2. Count(Append(deferred, hand), Ask(t))
           = Count(deferred, Ask(t)) + (IF hand = Ask(t) THEN 1 ELSE 0)
    BY <1>1, <2>1, CountAppend
  <2>3. InHand(t)' = 0
    BY <1>4, <2>1 DEF InHand
  <2>4. Count(deferred', Ask(t)) = Count(deferred, Ask(t)) + InHand(t)
    BY <2>1, <2>2 DEF InHand
  <2>5. Cancelled(t)' => Cancelled(t)
    BY <1>4, <2>1 DEF Cancelled
  <2>6. Count(queue', Ask(t)) + Count(deferred', Ask(t)) + InHand(t)'
              = Count(queue, Ask(t)) + Count(deferred, Ask(t)) + InHand(t)
    BY <1>3, <2>1, <2>3, <2>4
  <2> QED
    BY <2>1, <2>5, <2>6 DEF Moved
<1>9. CASE ProcessNext
  <2>1. hand = NextResponse /\ hand' = NoMessage /\ UNCHANGED <<queue, deferred, slots>>
    BY <1>9 DEF ProcessNext
  <2>2. InHand(t)' = InHand(t) /\ (Cancelled(t)' => Cancelled(t))
    BY <1>4, <2>1 DEF InHand, Cancelled
  <2> QED
    BY <2>1, <2>2 DEF Moved
<1>10. CASE StartUpdate
  <2>1. UNCHANGED <<deferred, hand, slots>>
        /\ (UNCHANGED queue \/ queue' = Append(queue, NextResponse))
    BY <1>10 DEF StartUpdate
  <2>2. \A m : m # NextResponse => Count(Append(queue, NextResponse), m) = Count(queue, m)
    <3>1. NextResponse \in Messages
      BY MessageFacts
    <3>2. \A m : Count(Append(queue, NextResponse), m)
                    = Count(queue, m) + (IF NextResponse = m THEN 1 ELSE 0)
      BY <1>1, <3>1, CountAppend
    <3>3. \A m : Count(queue, m) \in Nat
      BY <1>1, CountType
    <3> QED
      BY <3>2, <3>3
  <2>3. Count(queue', Ask(t)) = Count(queue, Ask(t)) /\ Count(queue', Cancel(t)) = Count(queue, Cancel(t))
    BY <1>4, <2>1, <2>2
  <2>4. InHand(t)' = InHand(t) /\ (Cancelled(t)' => Cancelled(t))
    BY <2>1, <2>3 DEF InHand, Cancelled
  <2> QED
    BY <2>1, <2>3, <2>4 DEF Moved
<1>11. CASE Heartbeat \/ ReleaseSlots
  <2>1. /\ UNCHANGED hand
        /\ \A q \in Slots : /\ slots'[q].id = slots[q].id
                            /\ slots'[q].state = "busy" <=> slots[q].state = "busy"
    <3>1. CASE Heartbeat
      BY <3>1 DEF Heartbeat
    <3>2. CASE ReleaseSlots
      BY <3>2, ReleaseSlotsFacts DEF ReleaseSlots
    <3> QED
      BY <1>11, <3>1, <3>2
  <2>2. UNCHANGED <<queue, deferred>> \/ (queue' = queue \o deferred /\ deferred' = <<>>)
    <3>1. CASE Heartbeat
      BY <3>1 DEF Heartbeat, NotifySlotChanged
    <3>2. CASE ReleaseSlots
      BY <3>2, ReleaseSlotsFacts
    <3> QED
      BY <1>11, <3>1, <3>2
  <2>3. InHand(t)' = InHand(t)
    BY <2>1 DEF InHand
  <2>4. CASE UNCHANGED <<queue, deferred>>
    <3>1. Cancelled(t)' => Cancelled(t)
      BY <2>1, <2>4 DEF Cancelled
    <3> QED
      BY <2>1, <2>3, <2>4, <3>1 DEF Moved
  <2>5. CASE queue' = queue \o deferred /\ deferred' = <<>>
    <3>1. \A m : Count(queue', m) = Count(queue, m) + Count(deferred, m)
      BY <1>1, <2>5, CountConcat
    <3>2. Count(deferred', Ask(t)) = 0
      BY <2>5, CountEmpty
    <3>3. Count(deferred, Cancel(t)) = 0
      <4>1. \A i \in 1..Len(deferred) : deferred[i] \in Asked
        BY <1>1
      <4>2. \A i \in 1..Len(deferred) : deferred[i] # Cancel(t)
        BY <4>1, <1>4, MessageFacts
      <4> QED
        BY <1>1, <4>2, CountType
    <3>4. Count(queue', Cancel(t)) = Count(queue, Cancel(t))
      BY <1>3, <3>1, <3>3
    <3>5. Cancelled(t)' => Cancelled(t)
      BY <2>1, <3>4 DEF Cancelled
    <3>6. Count(queue', Ask(t)) + Count(deferred', Ask(t)) + InHand(t)'
              = Count(queue, Ask(t)) + Count(deferred, Ask(t)) + InHand(t)
      BY <1>3, <2>3, <3>1, <3>2
    <3> QED
      BY <2>1, <3>5, <3>6 DEF Moved
  <2> QED
    BY <2>2, <2>4, <2>5
<1> QED
  BY <1>6, <1>7, <1>8, <1>9, <1>10, <1>11

LEMMA DeliveryLoop ==
    ASSUME TypeInv, NEW r \in Readers, NEW t \in Ids(r), Delivery(r, t),
           \/ StartLoop \/ TakeControl \/ RunControl \/ LeaveControl \/ PausedWait
           \/ PopTask \/ Defer \/ ProcessNext \/ StartUpdate \/ Decode \/ EndUpdate
           \/ WaitOrEnd \/ Wake \/ Heartbeat \/ ReleaseSlots
    PROVE  Delivery(r, t)'
<1>1. t \in Tasks
  BY AsksFacts
<1>2. Moved(t) /\ UNCHANGED <<results, waiting, filled, reader>>
  BY <1>1, LoopMoves
<1> QED
  BY <1>2, DeliveryMoved

(* launch_slot_with_task: from the hand to a slot, or straight to an error.*)
LEMMA DeliveryLaunch ==
    ASSUME TypeInv, NEW r \in Readers, NEW t \in Ids(r), Delivery(r, t),
           NEW s \in Slots, Launch(s)
    PROVE  Delivery(r, t)'
<1> DEFINE u == hand.task
<1>1. Typed /\ WorkShape
  BY TypeFacts DEF TypeInv
<1>2. /\ u \in Tasks /\ hand = Ask(u) /\ slots[s].state = "free"
      /\ \A q \in Slots \ {s} : slots'[q] = slots[q]
      /\ slots'[s].id = u
      /\ \/ slots'[s].state = "busy" /\ UNCHANGED results
         \/ slots'[s].state = "free" /\ Send("error", u)
  BY LaunchFacts
<1>3. hand' = NoMessage /\ UNCHANGED <<queue, deferred, waiting, filled, reader>>
  BY DEF Launch, readerVars
<1> HIDE DEF u
<1>4. /\ Ask(t) # NoMessage /\ Cancel(t) # NoMessage /\ Ask(u) # Cancel(t)
      /\ Ask(u) = Ask(t) <=> u = t
  BY MessagesDiffer
<1>5. InHand(t)' = 0 /\ InHand(t) = (IF u = t THEN 1 ELSE 0) /\ (Cancelled(t)' => Cancelled(t))
  BY <1>2, <1>3, <1>4 DEF InHand, Cancelled
<1>6. /\ Places(t) = Count(queue, Ask(t)) + Count(deferred, Ask(t)) + InHand(t)
                       + Cardinality(OnSlots(t))
      /\ Places(t)' = Count(queue, Ask(t)) + Count(deferred, Ask(t)) + 0 + Cardinality(OnSlots(t)')
  BY <1>3, <1>5, PlacesSum, PlacesNext
<1>7. /\ Count(queue, Ask(t)) \in Nat /\ Count(deferred, Ask(t)) \in Nat
      /\ Cardinality(OnSlots(t)) \in Nat /\ IsFiniteSet(OnSlots(t))
  BY PlacesType, OnSlotsFinite
<1>8. CASE u # t
  <2>1. OnSlots(t)' = OnSlots(t)
    BY <1>2, <1>8, OnSlotsSame
  <2>2. Places(t)' = Places(t)
    BY <1>5, <1>6, <1>8, <2>1
  <2>3. Idle(t)' => Idle(t)
    BY <1>2, <1>8 DEF Idle
  <2>4. (Answered(t)' <=> Answered(t)) /\ Finals(t)' = Finals(t)
    <3>1. CASE UNCHANGED results
      BY <3>1 DEF Answered, Finals
    <3>2. CASE Send("error", u)
      BY <3>2, <1>8, SendCounts
    <3> QED
      BY <1>2, <3>1, <3>2
  <2> QED
    BY <1>3, <1>5, <2>2, <2>3, <2>4, DeliveryFrame
<1>9. CASE u = t
  <2>1. /\ Places(t) = 1 /\ Count(queue, Ask(t)) = 0 /\ Count(deferred, Ask(t)) = 0
        /\ Cardinality(OnSlots(t)) = 0
    BY <1>5, <1>6, <1>7, <1>9 DEF Delivery
  <2>2. OnSlots(t) = {}
    BY <2>1, OnSlotsFinite
  <2>3. CASE slots'[s].state = "busy" /\ UNCHANGED results
    <3>1. OnSlots(t)' = {s}
      BY <1>2, <1>9, <2>2, <2>3 DEF OnSlots, BusySlots
    <3>2. Cardinality(OnSlots(t)') = 1
      BY <3>1, FS_Singleton
    <3>3. Places(t)' = Places(t)
      BY <1>6, <2>1, <3>2
    <3>4. Idle(t)' => Idle(t)
      BY <1>2, <2>3 DEF Idle
    <3>5. (Answered(t)' <=> Answered(t)) /\ Finals(t)' = Finals(t)
      BY <2>3 DEF Answered, Finals
    <3> QED
      BY <1>3, <1>5, <3>3, <3>4, <3>5, DeliveryFrame
  <2>4. CASE slots'[s].state = "free" /\ Send("error", u)
    <3>1. OnSlots(t)' = {}
      BY <1>2, <2>2, <2>4 DEF OnSlots, BusySlots
    <3>2. Cardinality(OnSlots(t)') = 0
      BY <3>1, FS_EmptySet
    <3>3. Places(t)' = 0
      BY <1>6, <2>1, <3>2
    <3>4. Finals(t)' = Finals(t) /\ (t \in waiting => Answered(t)')
      BY <1>9, <2>4, SendCounts
    <3> QED
      BY <1>3, <1>5, <2>1, <3>3, <3>4 DEF Delivery
  <2> QED
    BY <1>2, <2>3, <2>4
<1> QED
  BY <1>8, <1>9

(* A busy slot of a task stops: it was the only place of the task.         *)
LEMMA PlaceGone ==
    ASSUME TypeInv, NEW t, NEW s \in Slots, Places(t) <= 1,
           slots[s].state = "busy", slots[s].id = t,
           \A q \in Slots : /\ slots'[q].id = slots[q].id
                            /\ slots'[q].state = IF q = s THEN "released" ELSE slots[q].state,
           UNCHANGED <<queue, deferred>>, InHand(t)' <= InHand(t), InHand(t)' \in Nat
    PROVE  Places(t) = 1 /\ Places(t)' = 0
<1>1. /\ Places(t) = Count(queue, Ask(t)) + Count(deferred, Ask(t)) + InHand(t)
                       + Cardinality(OnSlots(t))
      /\ Places(t)' = Count(queue, Ask(t)) + Count(deferred, Ask(t)) + InHand(t)'
                       + Cardinality(OnSlots(t)')
  BY PlacesSum, PlacesNext
<1>2. /\ Count(queue, Ask(t)) \in Nat /\ Count(deferred, Ask(t)) \in Nat /\ InHand(t) \in Nat
      /\ Cardinality(OnSlots(t)) \in Nat /\ IsFiniteSet(OnSlots(t))
  BY PlacesType, OnSlotsFinite
<1>3. s \in OnSlots(t)
  BY DEF OnSlots, BusySlots
<1>4. OnSlots(t)' = OnSlots(t) \ {s}
  BY DEF OnSlots, BusySlots
<1>5. Cardinality(OnSlots(t)') = Cardinality(OnSlots(t)) - 1
  BY <1>2, <1>3, <1>4, FS_RemoveElement
<1>6. Cardinality(OnSlots(t)) # 0
  BY <1>3, OnSlotsFinite
<1>7. Count(queue', Ask(t)) = Count(queue, Ask(t)) /\ Count(deferred', Ask(t)) = Count(deferred, Ask(t))
  OBVIOUS
<1> DEFINE a == Count(queue, Ask(t))
           b == Count(deferred, Ask(t))
           c == InHand(t)
           d == Cardinality(OnSlots(t))
           e == InHand(t)'
<1>8. /\ a \in Nat /\ b \in Nat /\ c \in Nat /\ d \in Nat /\ e \in Nat /\ d # 0 /\ e <= c
      /\ Places(t) = a + b + c + d /\ Places(t) <= 1
      /\ Places(t)' = a + b + e + (d - 1)
  BY <1>1, <1>2, <1>5, <1>6, <1>7
<1> HIDE DEF a, b, c, d, e
<1>9. a + b + c + d <= 1
  BY <1>8
<1>10. a = 0 /\ b = 0 /\ c = 0 /\ d = 1
  BY <1>8, <1>9
<1>11. e = 0
  BY <1>8, <1>10
<1> QED
  BY <1>8, <1>10, <1>11

LEMMA DeliveryCancel ==
    ASSUME TypeInv, NEW r \in Readers, NEW t \in Ids(r), Delivery(r, t), ProcessCancel
    PROVE  Delivery(r, t)'
<1> DEFINE u == hand.task
<1>1. hand = Cancel(u)
  BY CancelFacts
<1>2. \/ UNCHANGED slots
      \/ \E s \in Slots :
            /\ slots[s].state = "busy" /\ slots[s].id = u
            /\ \A q \in Slots : /\ slots'[q].id = slots[q].id
                                /\ slots'[q].state = IF q = s THEN "released" ELSE slots[q].state
  BY CancelFacts
<1>3. hand' = NoMessage /\ UNCHANGED <<queue, deferred, waiting, results, filled, reader>>
  BY DEF ProcessCancel, readerVars
<1> HIDE DEF u
<1>4. /\ Ask(t) # NoMessage /\ Cancel(t) # NoMessage /\ Ask(t) # Cancel(u)
  BY MessagesDiffer
<1>5. InHand(t)' = 0 /\ InHand(t) = 0 /\ (Cancelled(t)' => Cancelled(t))
  BY <1>1, <1>3, <1>4 DEF InHand, Cancelled
<1>6. CASE UNCHANGED slots
  <2>1. Moved(t)
    BY <1>3, <1>5, <1>6 DEF Moved
  <2> QED
    BY <1>3, <2>1, DeliveryMoved
<1>7. ASSUME NEW s \in Slots, slots[s].state = "busy", slots[s].id = u,
             \A q \in Slots : /\ slots'[q].id = slots[q].id
                              /\ slots'[q].state = IF q = s THEN "released" ELSE slots[q].state
      PROVE  Delivery(r, t)'
  <2>1. CASE u # t
    <3>1. OnSlots(t)' = OnSlots(t)
      BY <1>7, <2>1, OnSlotsSame
    <3>2. Places(t)' = Places(t)
      BY <1>3, <1>5, <3>1, PlacesSum, PlacesNext
    <3>3. Idle(t)' => Idle(t)
      BY <1>7, <2>1 DEF Idle
    <3>4. (Answered(t)' <=> Answered(t)) /\ Finals(t)' = Finals(t)
      BY <1>3 DEF Answered, Finals
    <3> QED
      BY <1>3, <1>5, <3>2, <3>3, <3>4, DeliveryFrame
  <2>2. CASE u = t
    <3>1. Places(t) <= 1 /\ InHand(t)' <= InHand(t) /\ InHand(t)' \in Nat
      BY <1>5 DEF Delivery
    <3>2. Places(t) = 1 /\ Places(t)' = 0
      BY <1>3, <1>7, <2>2, <3>1, PlaceGone
    <3>3. reader[r] = "done"
      BY <1>1, <2>2 DEF Delivery, Cancelled
    <3>4. Finals(t)' = Finals(t)
      BY <1>3 DEF Finals
    <3> QED
      BY <1>3, <3>2, <3>3, <3>4 DEF Delivery
  <2> QED
    BY <2>1, <2>2
<1> QED
  BY <1>2, <1>6, <1>7

LEMMA DeliveryGoOn ==
    ASSUME TypeInv, NEW r \in Readers, NEW t \in Ids(r), Delivery(r, t),
           NEW s \in Slots, GoOn(s)
    PROVE  Delivery(r, t)'
<1>1. /\ \A q \in Slots : slots'[q].id = slots[q].id /\ slots'[q].state = slots[q].state
      /\ Send("partial", slots[s].id) \/ UNCHANGED results
  BY GoOnFacts
<1>2. UNCHANGED <<queue, deferred, hand, waiting, filled, reader>>
  BY DEF GoOn, readerVars
<1>3. (Answered(t)' <=> Answered(t)) /\ Finals(t)' = Finals(t)
  <2>1. CASE UNCHANGED results
    BY <2>1 DEF Answered, Finals
  <2>2. CASE Send("partial", slots[s].id)
    BY <2>2, SendCounts
  <2> QED
    BY <1>1, <2>1, <2>2
<1>4. OnSlots(t)' = OnSlots(t)
  BY <1>1, OnSlotsSame
<1>5. Places(t)' = Places(t)
  BY <1>2, <1>4, PlacesSum, PlacesNext DEF InHand
<1>6. (Idle(t)' => Idle(t)) /\ (Cancelled(t)' => Cancelled(t))
  BY <1>1, <1>2 DEF Idle, Cancelled
<1> QED
  BY <1>2, <1>3, <1>5, <1>6, DeliveryFrame

(* The last token, or an error: the slot's task leaves its place and its   *)
(* answer is in the results, if it is waited for.                          *)
LEMMA DeliveryEndSlot ==
    ASSUME TypeInv, NEW r \in Readers, NEW t \in Ids(r), Delivery(r, t),
           NEW s \in Slots, Finish(s) \/ FailSlot(s)
    PROVE  Delivery(r, t)'
<1> DEFINE u == slots[s].id
<1>1. /\ \A q \in Slots : /\ slots'[q].id = slots[q].id
                          /\ slots'[q].state = IF q = s THEN "released" ELSE slots[q].state
      /\ \/ Send("final", u) /\ slots[s].state = "busy"
         \/ Send("error", u)
  BY EndSlotFacts
<1>2. UNCHANGED <<queue, deferred, hand, waiting, filled, reader>>
  BY DEF Finish, FailSlot, readerVars
<1>3. InHand(t)' = InHand(t) /\ (Cancelled(t)' => Cancelled(t))
  BY <1>2 DEF InHand, Cancelled
<1>4. InHand(t) \in Nat /\ Finals(t) \in Nat
  BY PlacesType, AnsweredCounts
<1>5. CASE u # t
  <2>1. OnSlots(t)' = OnSlots(t)
    BY <1>1, <1>5, OnSlotsSame
  <2>2. Places(t)' = Places(t)
    BY <1>2, <1>3, <2>1, PlacesSum, PlacesNext
  <2>3. Idle(t)' => Idle(t)
    BY <1>1, <1>5 DEF Idle
  <2>4. (Answered(t)' <=> Answered(t)) /\ Finals(t)' = Finals(t)
    BY <1>1, <1>5, SendCounts
  <2> QED
    BY <1>2, <1>3, <2>2, <2>3, <2>4, DeliveryFrame
<1>6. CASE u = t /\ slots[s].state = "busy"
  <2>1. InHand(t)' <= InHand(t) /\ InHand(t)' \in Nat /\ Places(t) <= 1
    BY <1>3, <1>4 DEF Delivery
  <2>2. Places(t) = 1 /\ Places(t)' = 0
    BY <1>1, <1>2, <1>6, <2>1, PlaceGone
  <2>3. Finals(t) = 0 /\ t \notin filled /\ reader[r] \notin {"new", "registered"}
    BY <1>4, <2>2 DEF Delivery
  <2>4. (t \in waiting => Answered(t)') /\ Finals(t)' \in {0, 1}
    <3>1. CASE t \notin waiting
      BY <1>1, <1>6, <2>3, <3>1, SendCounts
    <3>2. CASE t \in waiting
      BY <1>1, <1>6, <2>3, <3>2, SendCounts
    <3> QED
      BY <3>1, <3>2
  <2> QED
    BY <1>2, <1>3, <2>2, <2>3, <2>4 DEF Delivery
<1>7. CASE u = t /\ slots[s].state # "busy"
  <2>1. Idle(t) /\ Places(t) = 0
    BY <1>7 DEF Idle, Delivery
  <2>2. OnSlots(t)' = OnSlots(t)
    BY <1>1, <1>7, OnSlotsSame
  <2>3. Places(t)' = 0
    BY <1>2, <1>3, <2>1, <2>2, PlacesSum, PlacesNext
  <2>4. Finals(t)' = Finals(t) /\ (t \in waiting => Answered(t)')
        /\ (t \notin waiting => (Answered(t)' <=> Answered(t)))
    BY <1>1, <1>7, SendCounts
  <2>5. reader[r] \notin {"new", "registered"}
    BY <2>1 DEF Delivery
  <2> QED
    BY <1>2, <1>3, <2>1, <2>3, <2>4, <2>5 DEF Delivery
<1> QED
  BY <1>5, <1>6, <1>7

(* A step of a reader's thread: what it takes from the results, registers, *)
(* posts and cancels is its own.                                           *)
LEMMA DeliveryReader ==
    ASSUME TypeInv, NEW r \in Readers, NEW t \in Ids(r), Delivery(r, t),
           NEW p \in Readers, Register(p) \/ ReaderStep(p) \/ GiveUp(p)
    PROVE  Delivery(r, t)'
<1>1. Typed /\ WorkShape /\ deferred \in Seq(Messages)
  BY TypeFacts DEF TypeInv
<1>2. t \in Tasks /\ (p # r => t \notin Ids(p))
  BY AsksFacts, OwnersDiffer
<1>3. ASSUME UNCHANGED <<queue, deferred, hand, slots>>
      PROVE  /\ Places(t)' = Places(t) /\ Idle(t)' = Idle(t) /\ Cancelled(t)' = Cancelled(t)
  BY <1>3 DEF Places, BusySlots, Idle, Cancelled
<1>4. ASSUME UNCHANGED results
      PROVE  Answered(t)' = Answered(t) /\ Finals(t)' = Finals(t)
  BY <1>4 DEF Answered, Finals
<1>5. \A to : Goto(p, to) => /\ p # r => reader'[r] = reader[r]
                             /\ p = r => reader'[r] = to
  BY <1>1 DEF Goto, Typed
<1>6. CASE Register(p)
  <2>1. /\ UNCHANGED <<queue, deferred, hand, slots, results, filled>>
        /\ waiting' = waiting \union Ids(p) /\ Goto(p, "registered") /\ reader[p] = "new"
    BY <1>6 DEF Register, loopVars
  <2>2. CASE p # r
    BY <1>2, <1>3, <1>4, <1>5, <2>1, <2>2, DeliveryFrame
  <2>3. CASE p = r
    BY <1>2, <1>3, <1>4, <1>5, <2>1, <2>3 DEF Delivery
  <2> QED
    BY <2>2, <2>3
<1>7. CASE Post(p)
  <2> DEFINE new == [i \in DOMAIN Asks[p] |-> Ask(Asks[p][i])]
  <2>1. /\ UNCHANGED <<deferred, hand, slots, results, filled, waiting>>
        /\ queue' = queue \o new /\ Goto(p, "waiting") /\ reader[p] = "registered"
    BY <1>7 DEF Post, loopVars
  <2>2. /\ DOMAIN Asks[p] = 1..Len(Asks[p]) /\ Len(Asks[p]) \in Nat
        /\ \A i \in 1..Len(Asks[p]) : Asks[p][i] \in Ids(p) /\ Asks[p][i] \in Tasks
    BY AsksFacts
  <2>3. new \in Seq(Messages) /\ DOMAIN new = 1..Len(Asks[p]) /\ Len(new) = Len(Asks[p])
    <3>1. \A i \in 1..Len(Asks[p]) : Ask(Asks[p][i]) \in Messages
      BY <2>2, MessageFacts
    <3> QED
      BY <2>2, <3>1
  <2>4. \A i \in 1..Len(Asks[p]) : new[i] = Ask(Asks[p][i])
    BY <2>2
  <2> HIDE DEF new
  <2>5. \A m : Count(queue', m) = Count(queue, m) + Count(new, m)
    BY <1>1, <2>1, <2>3, CountConcat DEF Typed
  <2>6. Count(new, Cancel(t)) = 0
    <3>1. \A i \in 1..Len(new) : new[i] # Cancel(t)
      BY <2>3, <2>4, MessagesDiffer
    <3> QED
      BY <2>3, <3>1, CountType
  <2>7. Count(queue, Cancel(t)) \in Nat /\ Count(queue, Ask(t)) \in Nat
    BY <1>1, CountType DEF Typed
  <2>8. Cancelled(t)' => Cancelled(t)
    BY <2>1, <2>5, <2>6, <2>7 DEF Cancelled
  <2>9. OnSlots(t)' = OnSlots(t) /\ InHand(t)' = InHand(t) /\ Idle(t)' = Idle(t)
    BY <2>1 DEF OnSlots, BusySlots, InHand, Idle
  <2>10. CASE p # r
    <3>1. Count(new, Ask(t)) = 0
      <4>1. \A i \in 1..Len(new) : new[i] # Ask(t)
        BY <1>2, <2>2, <2>3, <2>4, <2>10, MessagesDiffer
      <4> QED
        BY <2>3, <4>1, CountType
    <3>2. Count(queue', Ask(t)) = Count(queue, Ask(t))
      BY <2>5, <2>7, <3>1
    <3>3. Places(t)' = Places(t)
      BY <2>1, <2>9, <3>2, PlacesSum, PlacesNext
    <3> QED
      BY <1>4, <1>5, <2>1, <2>8, <2>9, <2>10, <3>3, DeliveryFrame
  <2>11. CASE p = r
    <3>1. Count(new, Ask(t)) = 1
      <4>1. PICK i \in 1..Len(Asks[p]) : Asks[p][i] = t
        BY <2>11, AsksFacts
      <4>2. \A j \in 1..Len(Asks[p]) : Asks[p][j] = t => j = i
        BY <4>1, AsksFacts
      <4>3. i \in DOMAIN new /\ new[i] = Ask(t) /\ \A j \in DOMAIN new : new[j] = Ask(t) => j = i
        BY <2>3, <2>4, <4>1, <4>2, MessagesDiffer
      <4> QED
        BY <4>3, CountUnique
    <3>2. Count(queue', Ask(t)) = Count(queue, Ask(t)) + 1
      BY <2>5, <3>1
    <3>3. Places(t) = 0
      BY <2>1, <2>11 DEF Delivery
    <3>4. /\ Count(queue, Ask(t)) = 0 /\ Count(deferred, Ask(t)) = 0 /\ InHand(t) = 0
          /\ Cardinality(OnSlots(t)) = 0
      BY <3>3, PlacesType, PlacesSum
    <3>5. Places(t)' = 1
      BY <2>1, <2>9, <3>2, <3>4, PlacesNext
    <3>6. reader[r] = "registered" /\ reader'[r] = "waiting"
      BY <1>5, <2>1, <2>11
    <3>7. ~(Finals(t) > 0)
      BY <3>6, AnsweredCounts DEF Delivery
    <3> QED
      BY <1>4, <2>1, <2>8, <2>9, <3>5, <3>6, <3>7 DEF Delivery
  <2> QED
    BY <2>10, <2>11
<1>8. CASE Recv(p)
  <2>1. PICK i \in 1..Len(results) : Taken(p, i)
    BY <1>8, RecvTakes DEF TypeInv
  <2>2. /\ UNCHANGED <<queue, deferred, hand, slots, waiting>>
        /\ results' = RemoveAt(results, i)
        /\ reader[p] = "waiting" /\ results[i].task \in Ids(p)
        /\ \/ results[i].kind = "final" /\ filled' = filled \union {results[i].task}
           \/ results[i].kind # "final" /\ UNCHANGED filled
        /\ \/ results[i].kind # "error" /\ UNCHANGED reader
           \/ Goto(p, "stopping")
    BY <2>1 DEF Taken, loopVars, Mine
  <2>3. /\ results[i] \in Answers /\ results[i].kind \in {"partial", "final", "error"}
        /\ results[i] = Result(results[i].kind, results[i].task)
    BY <1>1, ResultFacts DEF Typed
  <2>4. /\ results[i].task # t \/ results[i].kind = "partial" =>
                 (Answered(t)' <=> Answered(t)) /\ Finals(t)' = Finals(t)
        /\ results[i] = Result("final", t) => Finals(t) > 0 /\ Finals(t)' = Finals(t) - 1
        /\ results[i].kind = "error" => Finals(t)' = Finals(t)
    BY <2>2, TakeCounts
  <2>5. Places(t)' = Places(t) /\ Idle(t)' = Idle(t) /\ Cancelled(t)' = Cancelled(t)
    BY <1>3, <2>2
  <2>6. CASE p # r
    <3>1. results[i].task # t /\ reader'[r] = reader[r] /\ (t \in filled' <=> t \in filled)
      BY <1>2, <1>5, <2>2, <2>6
    <3> QED
      BY <2>2, <2>4, <2>5, <3>1, DeliveryFrame
  <2>7. CASE p = r
    <3>1. reader[r] = "waiting" /\ t \in waiting /\ ~Cancelled(t)
      BY <2>2, <2>7 DEF Delivery
    <3>2. reader'[r] = "waiting" \/ reader'[r] = "stopping"
      BY <1>5, <2>2, <2>7, <3>1
    <3>3. CASE results[i].task # t \/ results[i].kind = "partial"
      <4>1. t \in filled' <=> t \in filled
        BY <2>2, <3>3
      <4> QED
        BY <2>2, <2>4, <2>5, <3>1, <3>2, <3>3, <4>1 DEF Delivery
    <3>4. CASE results[i].task = t /\ results[i].kind = "final"
      <4>1. Finals(t) > 0 /\ Finals(t)' = Finals(t) - 1 /\ t \in filled'
        BY <2>2, <2>3, <2>4, <3>4
      <4>2. Places(t) = 0 /\ Finals(t) = 1
        BY <4>1 DEF Delivery
      <4> QED
        BY <2>2, <2>5, <3>1, <3>2, <4>1, <4>2 DEF Delivery
    <3>5. CASE results[i].kind = "error"
      <4>1. reader'[r] = "stopping" /\ UNCHANGED filled /\ Finals(t)' = Finals(t)
        BY <1>5, <2>2, <2>4, <2>7, <3>5
      <4> QED
        BY <2>2, <2>5, <3>1, <4>1 DEF Delivery
    <3> QED
      BY <2>3, <3>3, <3>4, <3>5
  <2> QED
    BY <2>6, <2>7
<1>9. CASE GiveUp(p) \/ AbortDecode(p)
  <2>1. /\ UNCHANGED <<queue, deferred, hand, slots, results, filled, waiting>>
        /\ reader[p] \in {"waiting", "aborting"}
        /\ Goto(p, "stopping") \/ Goto(p, "aborting")
    BY <1>9 DEF GiveUp, AbortDecode, loopVars
  <2>2. CASE p # r
    BY <1>3, <1>4, <1>5, <2>1, <2>2, DeliveryFrame
  <2>3. CASE p = r
    BY <1>3, <1>4, <1>5, <2>1, <2>3 DEF Delivery
  <2> QED
    BY <2>2, <2>3
<1>10. CASE StopWaiting(p)
  <2>1. /\ UNCHANGED <<queue, deferred, hand, slots, results, filled>>
        /\ waiting' = waiting \ Ids(p) /\ reader[p] = "stopping"
        /\ Goto(p, "cancelling") \/ Goto(p, "done")
    BY <1>10 DEF StopWaiting, loopVars
  <2>2. CASE p # r
    BY <1>2, <1>3, <1>4, <1>5, <2>1, <2>2, DeliveryFrame
  <2>3. CASE p = r
    BY <1>3, <1>4, <1>5, <2>1, <2>3 DEF Delivery
  <2> QED
    BY <2>2, <2>3
<1>11. CASE StopCancel(p)
  <2>1. /\ UNCHANGED <<hand, slots, results, filled, waiting>> /\ PostCancels(Ids(p))
        /\ reader[p] = "cancelling" /\ Goto(p, "done")
    BY <1>11 DEF StopCancel, loopVars
  <2>2. OnSlots(t)' = OnSlots(t) /\ InHand(t)' = InHand(t) /\ Idle(t)' = Idle(t)
    BY <2>1 DEF OnSlots, BusySlots, InHand, Idle
  <2>3. CASE p # r
    <3>1. /\ Count(queue', Ask(t)) = Count(queue, Ask(t))
          /\ Count(deferred', Ask(t)) = Count(deferred, Ask(t))
          /\ Count(queue', Cancel(t)) = Count(queue, Cancel(t))
      BY <1>2, <2>1, <2>3, PostCancelsFacts DEF TypeInv
    <3>2. Places(t)' = Places(t) /\ (Cancelled(t)' => Cancelled(t))
      BY <2>1, <2>2, <3>1, PlacesSum, PlacesNext DEF Cancelled
    <3> QED
      BY <1>4, <1>5, <2>1, <2>2, <2>3, <3>2, DeliveryFrame
  <2>4. CASE p = r
    <3>1. Count(queue', Ask(t)) = 0 /\ Count(deferred', Ask(t)) = 0
      BY <2>1, <2>4, PostCancelsFacts DEF TypeInv
    <3>2. Places(t)' <= Places(t) /\ Places(t)' \in Nat /\ Places(t) \in Nat
      BY <2>2, <3>1, PlacesType, PlacesSum, PlacesNext
    <3>3. reader'[r] = "done" /\ reader[r] = "cancelling"
      BY <1>5, <2>1, <2>4
    <3>4. Places(t) = 0 => Places(t)' = 0
      BY <3>2
    <3>5. Places(t)' <= 1
      BY <3>2 DEF Delivery
    <3> QED
      BY <1>4, <2>1, <2>2, <3>3, <3>4, <3>5 DEF Delivery
  <2> QED
    BY <2>3, <2>4
<1> QED
  BY <1>6, <1>7, <1>8, <1>9, <1>10, <1>11 DEF ReaderStep

LEMMA DeliveryInit == Init => DeliveryInv
<1> SUFFICES ASSUME Init, NEW r \in Readers, NEW t \in Ids(r) PROVE Delivery(r, t)
  BY DEF DeliveryInv
<1>1. t \in Tasks /\ t # NoTask
  BY AsksFacts, QueueConstants
<1>2. ~Idle(t) /\ OnSlots(t) = {}
  BY <1>1 DEF Init, Idle, OnSlots, BusySlots
<1>3. Count(queue, Ask(t)) = 0 /\ Count(deferred, Ask(t)) = 0 /\ Count(queue, Cancel(t)) = 0
      /\ Finals(t) = 0
  BY CountEmpty DEF Init, Finals
<1>4. hand # Ask(t) /\ hand # Cancel(t)
  BY MessagesDiffer DEF Init
<1>5. Cardinality(OnSlots(t)) = 0
  BY <1>2, FS_EmptySet
<1>6. Places(t) = 0
  BY <1>3, <1>4, <1>5, PlacesSum DEF InHand
<1>7. ~Answered(t) /\ t \notin filled /\ reader[r] = "new"
  BY DEF Init, Answered
<1> QED
  BY <1>2, <1>3, <1>4, <1>6, <1>7 DEF Delivery, Cancelled

LEMMA DeliveryNext == TypeInv /\ DeliveryInv /\ [Next]_vars => DeliveryInv'
<1> SUFFICES ASSUME TypeInv, DeliveryInv, [Next]_vars, NEW r \in Readers, NEW t \in Ids(r)
             PROVE  Delivery(r, t)'
  BY DEF DeliveryInv
<1>1. Delivery(r, t)
  BY DEF DeliveryInv
<1>2. CASE LoopStep
  BY <1>1, <1>2, DeliveryLoop, DeliveryLaunch, DeliveryCancel, DeliveryGoOn, DeliveryEndSlot
     DEF LoopStep
<1>3. CASE \E p \in Readers : Register(p) \/ ReaderStep(p) \/ GiveUp(p)
  BY <1>1, <1>3, DeliveryReader
<1>4. CASE (\E f \in {"park", "unpark"} : PostControl(f)) \/ Terminate \/ UNCHANGED vars
  <2>1. UNCHANGED <<queue, deferred, hand, slots, results, waiting, filled, reader>>
    BY <1>4 DEF PostControl, Terminate, vars, loopVars, readerVars
  <2> QED
    BY <1>1, <2>1, DeliveryQuiet
<1> QED
  BY <1>2, <1>3, <1>4 DEF Next

LEMMA DeliveryInvariance == Spec => [](TypeInv /\ TurnInv /\ DeliveryInv)
BY TypeInit, TypeNext, TurnInit, TurnNext, DeliveryInit, DeliveryNext, PTL DEF Spec

(* The two queues, the loop's hand, the slots and the result queue: while  *)
(* its reader waits, a task is in exactly one place or has its answer.     *)
THEOREM NoTaskIsLost == Spec => []NothingLost
<1>1. TypeInv /\ DeliveryInv => NothingLost
  <2> SUFFICES ASSUME TypeInv, DeliveryInv, NEW r \in Readers, reader[r] = "waiting",
                      NEW t \in Ids(r) \ filled
               PROVE  \/ Places(t) = 1 /\ ~Answered(t)
                      \/ Places(t) = 0 /\ Answered(t)
    BY DEF NothingLost
  <2>1. Places(t) <= 1 /\ (Places(t) = 0 <=> Answered(t))
    BY DEF DeliveryInv, Delivery
  <2>2. Places(t) \in Nat
    BY PlacesType
  <2> QED
    BY <2>1, <2>2
<1> QED
  BY <1>1, DeliveryInvariance, PTL

(* update_slots sends a last result only for a slot at work, and such a    *)
(* task has had none: wait_for_all never receives a duplicate.             *)
THEOREM OneLastResult == Spec => []OneFinal
<1>1. TypeInv /\ DeliveryInv => OneFinal
  <2> SUFFICES ASSUME TypeInv, DeliveryInv, NEW i \in DOMAIN results, results[i].kind = "final"
               PROVE  /\ results[i].task \notin filled
                      /\ \A j \in DOMAIN results : results[j] = results[i] => j = i
    BY DEF OneFinal
  <2> DEFINE t == results[i].task
  <2>1. results \in Seq(Answers) /\ DOMAIN results = 1..Len(results)
    BY TypeFacts DEF TypeInv, Typed
  <2>2. t \in Tasks /\ results[i] = Result("final", t)
    BY <2>1, ResultFacts
  <2>3. PICK r \in Readers : t \in Ids(r)
    BY <2>2 DEF Tasks
  <2>4. i \in At(results, Result("final", t))
    BY <2>2 DEF At
  <2>5. IsFiniteSet(At(results, Result("final", t))) /\ Finals(t) \in Nat
    BY <2>1, CountType DEF Finals
  <2>6. Finals(t) # 0
    BY <2>4, <2>5, FS_EmptySet DEF Finals, Count
  <2>7. t \notin filled /\ Finals(t) = 1
    BY <2>3, <2>5, <2>6 DEF DeliveryInv, Delivery
  <2>8. PICK x : At(results, Result("final", t)) = {x}
    BY <2>5, <2>7, FS_Singleton DEF Finals, Count
  <2>9. ASSUME NEW j \in DOMAIN results, results[j] = results[i] PROVE j = i
    <3>1. j \in At(results, Result("final", t))
      BY <2>2, <2>9 DEF At
    <3> QED
      BY <2>4, <2>8, <3>1
  <2> QED
    BY <2>7, <2>9
<1> QED
  BY <1>1, DeliveryInvariance, PTL

(* terminate() lets start_loop empty its queue first: a loop that ends by  *)
(* itself has answered every task but those the deferred queue still holds *)
(* for the ring, or for a slot there is none of.                           *)
THEOREM EndLeavesNothing == Spec => EndsDrained
<1>1. ASSUME TypeInv, TurnInv, DeliveryInv, [Next]_vars, loop' = "ended", loop = "wait"
      PROVE  /\ FreeSlots = Slots
             /\ \A r \in Readers : reader[r] = "waiting" =>
                   \A t \in Ids(r) \ filled :
                      Answered(t) \/ (MayStayDeferred(t) /\ Ask(t) \in ToSet(deferred))
  <2>1. queue = <<>>
    <3>1. ~(UNCHANGED loop)
      BY <1>1
    <3>2. CASE LoopStep
      <4>1. WaitOrEnd
        BY <1>1, <3>2 DEF LoopStep, StartLoop, TakeControl, RunControl, LeaveControl, PausedWait,
              PopTask, Defer, ProcessCancel, ProcessNext, Launch, GoOn, Finish, FailSlot,
              ReleaseSlots, StartUpdate, Decode, EndUpdate, Wake, Heartbeat
      <4> QED
        BY <1>1, <4>1 DEF WaitOrEnd
    <3>3. CASE \E r \in Readers : Register(r) \/ ReaderStep(r) \/ GiveUp(r)
      <4>1. UNCHANGED loop
        BY <3>3 DEF ReaderStep, Register, GiveUp, Post, Recv, AbortDecode, StopWaiting, StopCancel,
              loopVars
      <4> QED
        BY <3>1, <4>1
    <3>4. CASE (\E f \in {"park", "unpark"} : PostControl(f)) \/ Terminate \/ UNCHANGED vars
      BY <3>1, <3>4 DEF PostControl, Terminate, vars, loopVars
    <3> QED
      BY <1>1, <3>2, <3>3, <3>4 DEF Next
  <2>2. AllFree /\ \A i \in DOMAIN deferred : MayStayDeferred(deferred[i].task)
    BY <1>1, <2>1, EmptyQueueIsIdle
  <2>3. ASSUME NEW r \in Readers, reader[r] = "waiting", NEW t \in Ids(r) \ filled,
               ~Answered(t)
        PROVE  MayStayDeferred(t) /\ Ask(t) \in ToSet(deferred)
    <3>1. Places(t) # 0
      BY <1>1, <2>3 DEF DeliveryInv, Delivery
    <3>2. Count(queue, Ask(t)) = 0
      BY <2>1, CountEmpty
    <3>3. InHand(t) = 0
      <4>1. hand = NoMessage
        BY <1>1 DEF TypeInv, WorkShape
      <4> QED
        BY <4>1, MessagesDiffer DEF InHand
    <3>4. OnSlots(t) = {}
      BY <2>2 DEF OnSlots, BusySlots, AllFree
    <3>5. Cardinality(OnSlots(t)) = 0
      BY <3>4, FS_EmptySet
    <3>6. deferred \in Seq(Messages)
      BY <1>1, TypeFacts DEF TypeInv
    <3>7. Count(deferred, Ask(t)) # 0
      BY <3>1, <3>2, <3>3, <3>5, PlacesSum
    <3>8. \E i \in 1..Len(deferred) : deferred[i] = Ask(t)
      BY <3>6, <3>7, CountType
    <3> QED
      BY <2>2, <3>6, <3>8, MessagesDiffer DEF ToSet
  <2> QED
    BY <2>2, <2>3, AllFreeSlots
<1>2. TypeInv /\ TurnInv /\ DeliveryInv /\ [Next]_vars =>
         [ loop' = "ended" /\ loop = "wait" =>
             /\ FreeSlots = Slots
             /\ \A r \in Readers : reader[r] = "waiting" =>
                   \A t \in Ids(r) \ filled :
                      Answered(t) \/ (MayStayDeferred(t) /\ Ask(t) \in ToSet(deferred)) ]_vars
  BY <1>1
<1> QED
  BY <1>2, DeliveryInvariance, PTL DEF Spec, EndsDrained

-----------------------------------------------------------------------------
(* What a request leaves behind.                                           *)
(*                                                                         *)
(* A reader leaves by one of two ways.  It has counted as many last        *)
(* results as it has tasks: CountInv says that it then holds the last      *)
(* result of each, and such a task is nowhere.  Or it cancels: post()      *)
(* takes its tasks out of both queues, and the one that may be in the      *)
(* loop's hand or on a slot has its CANCEL in the queue.  GoneInv says     *)
(* that this is still so later, as long as no task of a reader that is     *)
(* gone is put into the deferred queue, where a CANCEL in the queue does   *)
(* not look for it.                                                        *)

(* received_count of each reader is the number of its tasks whose last     *)
(* result it has.                                                          *)
CountInv == \A r \in Readers : received[r] = Cardinality(filled \cap Ids(r))

Gone(r, t) ==
    reader[r] = "done" =>
        /\ Count(queue, Ask(t)) = 0 /\ Count(deferred, Ask(t)) = 0
        /\ Places(t) > 0 => Cancelled(t)

GoneInv == \A r \in Readers : \A t \in Ids(r) : Gone(r, t)

(* The loop defers only tasks whose reader is still there.                 *)
DefersTheLiving == [][Defer => reader[OwnerOf(hand.task)] # "done"]_vars

LEMMA OwnerFacts ==
    ASSUME NEW r \in Readers, NEW t \in Ids(r)
    PROVE  OwnerOf(t) = r
<1>1. \E q \in Readers : t \in Ids(q)
  OBVIOUS
<1>2. OwnerOf(t) \in Readers /\ t \in Ids(OwnerOf(t))
  BY <1>1 DEF OwnerOf
<1> QED
  BY <1>2, OwnersDiffer

LEMMA CountInit == Init => CountInv
<1> SUFFICES ASSUME Init, NEW r \in Readers PROVE received[r] = Cardinality(filled \cap Ids(r))
  BY DEF CountInv
<1>1. filled \cap Ids(r) = {} /\ received[r] = 0
  BY DEF Init
<1> QED
  BY <1>1, FS_EmptySet

(* No step but the reader's own recv counts, and a last result it takes is *)
(* the first of its task.                                                  *)
LEMMA CountNext == TypeInv /\ DeliveryInv /\ CountInv /\ [Next]_vars => CountInv'
<1> SUFFICES ASSUME TypeInv, DeliveryInv, CountInv, [Next]_vars PROVE CountInv'
  OBVIOUS
<1>1. Typed /\ WorkShape
  BY TypeFacts DEF TypeInv
<1>2. CASE UNCHANGED <<received, filled>>
  BY <1>2 DEF CountInv
<1>3. CASE \E p \in Readers : Recv(p)
  <2> SUFFICES ASSUME NEW p \in Readers, Recv(p), NEW r \in Readers
               PROVE  received'[r] = Cardinality(filled' \cap Ids(r))
    BY <1>3 DEF CountInv
  <2>1. PICK i \in 1..Len(results) : Taken(p, i)
    BY RecvTakes DEF TypeInv
  <2> DEFINE t == results[i].task
  <2>2. received[r] = Cardinality(filled \cap Ids(r)) /\ IsFiniteSet(filled \cap Ids(r))
    <3>1. IsFiniteSet(Ids(r)) /\ filled \cap Ids(r) \in SUBSET Ids(r)
      BY AsksFacts
    <3> QED
      BY <3>1, FS_Subset DEF CountInv
  <2>3. CASE results[i].kind # "final"
    BY <2>1, <2>2, <2>3 DEF Taken
  <2>4. CASE results[i].kind = "final"
    <3>1. /\ t \in Ids(p) /\ filled' = filled \union {t}
          /\ received' = [received EXCEPT ![p] = @ + 1]
      BY <2>1, <2>4 DEF Taken, Mine
    <3>2. results[i] = Result("final", t)
      BY <1>1, <2>4, ResultFacts DEF Typed
    <3>3. Finals(t) > 0
      BY <2>1, <3>2, TakeCounts DEF Taken
    <3>4. t \notin filled
      BY <3>1, <3>3 DEF DeliveryInv, Delivery
    <3>5. CASE r = p
      <4>1. filled' \cap Ids(r) = (filled \cap Ids(r)) \union {t} /\ t \notin filled \cap Ids(r)
        BY <3>1, <3>4, <3>5
      <4>2. Cardinality(filled' \cap Ids(r)) = Cardinality(filled \cap Ids(r)) + 1
        BY <2>2, <4>1, FS_AddElement
      <4>3. received'[r] = received[r] + 1
        BY <1>1, <3>1, <3>5 DEF WorkShape
      <4> QED
        BY <2>2, <4>2, <4>3
    <3>6. CASE r # p
      <4>1. t \notin Ids(r)
        BY <3>1, <3>6, OwnersDiffer
      <4>2. filled' \cap Ids(r) = filled \cap Ids(r) /\ received'[r] = received[r]
        BY <3>1, <3>6, <4>1
      <4> QED
        BY <2>2, <4>2
    <3> QED
      BY <3>5, <3>6
  <2> QED
    BY <2>3, <2>4
<1>4. CASE LoopStep
  <2>1. UNCHANGED <<received, filled>>
    BY <1>4 DEF LoopStep, StartLoop, TakeControl, RunControl, LeaveControl, PausedWait, PopTask,
       Defer, ProcessCancel, ProcessNext, Launch, GoOn, Finish, FailSlot, ReleaseSlots,
       StartUpdate, Decode, EndUpdate, WaitOrEnd, Wake, Heartbeat, readerVars
  <2> QED
    BY <1>2, <2>1
<1>5. CASE \E p \in Readers : \/ Register(p) \/ Post(p) \/ AbortDecode(p) \/ StopWaiting(p)
                              \/ StopCancel(p) \/ GiveUp(p)
  <2>1. UNCHANGED <<received, filled>>
    BY <1>5 DEF Register, Post, AbortDecode, StopWaiting, StopCancel, GiveUp
  <2> QED
    BY <1>2, <2>1
<1>6. CASE (\E f \in {"park", "unpark"} : PostControl(f)) \/ Terminate \/ UNCHANGED vars
  <2>1. UNCHANGED <<received, filled>>
    BY <1>6 DEF PostControl, Terminate, vars, readerVars
  <2> QED
    BY <1>2, <2>1
<1> QED
  BY <1>3, <1>4, <1>5, <1>6 DEF Next, ReaderStep

LEMMA CountInvariance == Spec => [](TypeInv /\ DeliveryInv /\ CountInv)
BY DeliveryInvariance, CountInit, CountNext, PTL DEF Spec

(* A reader that has counted its tasks has the last result of each.        *)
LEMMA AllCounted ==
    ASSUME CountInv, NEW r \in Readers, received[r] = Len(Asks[r])
    PROVE  Ids(r) \subseteq filled
<1>1. IsFiniteSet(Ids(r)) /\ filled \cap Ids(r) \in SUBSET Ids(r)
  BY AsksFacts
<1>2. Cardinality(filled \cap Ids(r)) = Cardinality(Ids(r))
  BY AsksFacts DEF CountInv
<1>3. filled \cap Ids(r) = Ids(r)
  BY <1>1, <1>2, FS_Subset
<1> QED
  BY <1>3

(* received_count and stop(): a request all of whose last results were     *)
(* read leaves nothing behind, in no queue, hand or slot.                  *)
THEOREM ServedLeavesNothing ==
    Spec => [](\A r \in Readers : received[r] = Len(Asks[r]) =>
                  \A t \in Ids(r) : t \in filled /\ Places(t) = 0)
<1>1. TypeInv /\ DeliveryInv /\ CountInv =>
         \A r \in Readers : received[r] = Len(Asks[r]) =>
            \A t \in Ids(r) : t \in filled /\ Places(t) = 0
  BY AllCounted DEF DeliveryInv, Delivery
<1> QED
  BY <1>1, CountInvariance, PTL

(* Nothing of task t changes but what the frame allows.                    *)
LEMMA GoneFrame ==
    ASSUME NEW r, NEW t, Gone(r, t), reader'[r] = reader[r],
           Count(queue', Ask(t)) = Count(queue, Ask(t)),
           Count(deferred', Ask(t)) = Count(deferred, Ask(t)),
           Places(t)' = Places(t), Cancelled(t) => Cancelled(t)'
    PROVE  Gone(r, t)'
BY DEF Gone

LEMMA GoneInit == Init => GoneInv
BY DEF Init, GoneInv, Gone

(* The loop outside process_single_task: messages move, a CANCEL stays     *)
(* where it is or comes into the hand.                                     *)
LEMMA GoneLoop ==
    ASSUME TypeInv, NEW r \in Readers, NEW t \in Ids(r), Gone(r, t),
           \/ StartLoop \/ TakeControl \/ RunControl \/ LeaveControl \/ PausedWait
           \/ PopTask \/ ProcessNext \/ StartUpdate \/ Decode \/ EndUpdate
           \/ WaitOrEnd \/ Wake \/ Heartbeat \/ ReleaseSlots
    PROVE  Gone(r, t)'
<1>1. Typed /\ WorkShape /\ deferred \in Seq(Messages) /\ t \in Tasks /\ UNCHANGED reader
  <2>1. UNCHANGED reader
    BY DEF StartLoop, TakeControl, RunControl, LeaveControl, PausedWait, PopTask, ProcessNext,
       StartUpdate, Decode, EndUpdate, WaitOrEnd, Wake, Heartbeat, ReleaseSlots, readerVars
  <2> QED
    BY <2>1, TypeFacts, AsksFacts DEF TypeInv
<1>2. CASE reader[r] # "done"
  BY <1>1, <1>2 DEF Gone
<1>3. CASE reader[r] = "done"
  <2>1. /\ Count(queue, Ask(t)) = 0 /\ Count(deferred, Ask(t)) = 0
        /\ Places(t) > 0 => Cancelled(t)
        /\ Count(queue, Cancel(t)) \in Nat
    BY <1>1, <1>3, CountType DEF Gone, Typed
  <2>2. ASSUME UNCHANGED <<queue, deferred, hand>>,
               \A q \in Slots : /\ slots'[q].id = slots[q].id
                                /\ slots'[q].state = "busy" <=> slots[q].state = "busy"
        PROVE  Gone(r, t)'
    <3>1. OnSlots(t)' = OnSlots(t)
      BY <2>2, OnSlotsSame
    <3>2. Places(t)' = Places(t) /\ (Cancelled(t) => Cancelled(t)')
      BY <2>2, <3>1, PlacesSum, PlacesNext DEF InHand, Cancelled
    <3> QED
      BY <1>1, <2>2, <3>2, GoneFrame
  <2>3. CASE \/ StartLoop \/ TakeControl \/ RunControl \/ LeaveControl \/ PausedWait
             \/ Decode \/ EndUpdate \/ WaitOrEnd \/ Wake
    <3>1. UNCHANGED <<queue, deferred, hand, slots>>
      BY <2>3 DEF StartLoop, TakeControl, RunControl, LeaveControl, PausedWait,
         Decode, EndUpdate, WaitOrEnd, Wake
    <3> QED
      BY <2>2, <3>1
  <2>4. ASSUME queue' = queue \o deferred, deferred' = <<>>, UNCHANGED hand,
               \A q \in Slots : /\ slots'[q].id = slots[q].id
                                /\ slots'[q].state = "busy" <=> slots[q].state = "busy"
        PROVE  Gone(r, t)'
    <3>1. OnSlots(t)' = OnSlots(t)
      BY <2>4, OnSlotsSame
    <3>2. \A m : /\ Count(queue', m) = Count(queue, m) + Count(deferred, m)
                 /\ Count(deferred, m) \in Nat
      BY <1>1, <2>4, CountConcat, CountType DEF Typed
    <3>3. Count(queue', Ask(t)) = 0 /\ Count(deferred', Ask(t)) = 0
      BY <2>1, <2>4, <3>2, CountEmpty
    <3>4. Cancelled(t) => Cancelled(t)'
      BY <2>1, <2>4, <3>2 DEF Cancelled
    <3>5. Places(t)' = Places(t)
      BY <2>1, <2>4, <3>1, <3>3, PlacesSum, PlacesNext DEF InHand
    <3> QED
      BY <1>1, <2>1, <3>3, <3>4, <3>5 DEF Gone
  <2>5. CASE ReleaseSlots
    <3>1. /\ \A q \in Slots : /\ slots'[q].id = slots[q].id
                              /\ slots'[q].state = "busy" <=> slots[q].state = "busy"
          /\ \/ queue' = queue \o deferred /\ deferred' = <<>>
             \/ UNCHANGED <<queue, deferred>>
      BY <2>5, ReleaseSlotsFacts
    <3>2. UNCHANGED hand
      BY <2>5 DEF ReleaseSlots
    <3> QED
      BY <2>2, <2>4, <3>1, <3>2
  <2>6. CASE Heartbeat
    <3>1. UNCHANGED <<hand, slots>>
      BY <2>6 DEF Heartbeat
    <3>2. \/ queue' = queue \o deferred /\ deferred' = <<>>
          \/ UNCHANGED <<queue, deferred>>
      BY <2>6 DEF Heartbeat, NotifySlotChanged
    <3> QED
      BY <2>2, <2>4, <3>1, <3>2
  <2>7. CASE StartUpdate
    <3>1. /\ UNCHANGED <<deferred, hand, slots>>
          /\ queue' = queue \/ queue' = Append(queue, NextResponse)
      BY <2>7 DEF StartUpdate
    <3>2. NextResponse # Ask(t) /\ NextResponse # Cancel(t) /\ NextResponse \in Messages
      BY MessagesDiffer, MessageFacts
    <3>3. /\ Count(queue', Ask(t)) = Count(queue, Ask(t))
          /\ Count(queue', Cancel(t)) = Count(queue, Cancel(t))
      <4>1. CASE queue' = queue
        BY <4>1
      <4>2. CASE queue' = Append(queue, NextResponse)
        BY <1>1, <2>1, <3>2, <4>2, CountAppend DEF Typed
      <4> QED
        BY <3>1, <4>1, <4>2
    <3>4. OnSlots(t)' = OnSlots(t)
      BY <3>1, OnSlotsSame
    <3>5. Places(t)' = Places(t) /\ (Cancelled(t) => Cancelled(t)')
      BY <3>1, <3>3, <3>4, PlacesSum, PlacesNext DEF InHand, Cancelled
    <3> QED
      BY <1>1, <3>1, <3>3, <3>5, GoneFrame
  <2>8. CASE PopTask
    <3>1. CASE queue = <<>>
      <4>1. UNCHANGED <<queue, deferred, hand, slots>>
        BY <2>8, <3>1 DEF PopTask
      <4> QED
        BY <2>2, <4>1
    <3>2. CASE queue # <<>>
      <4>1. /\ hand' = Head(queue) /\ queue' = Tail(queue) /\ UNCHANGED <<deferred, slots>>
            /\ hand = NoMessage
        BY <1>1, <2>8, <3>2 DEF PopTask, WorkShape
      <4>2. \A m : /\ Count(queue, m) = (IF hand' = m THEN 1 ELSE 0) + Count(queue', m)
                   /\ Count(queue', m) \in Nat
        <5>1. queue' \in Seq(Messages)
          BY <1>1, <3>2, <4>1, HeadTailProperties DEF Typed
        <5> QED
          BY <1>1, <3>2, <4>1, <5>1, CountTail, CountType DEF Typed
      <4>3. hand' # Ask(t) /\ Count(queue', Ask(t)) = 0
        BY <2>1, <4>2
      <4>4. hand # Ask(t) /\ hand # Cancel(t)
        BY <4>1, MessagesDiffer
      <4>5. Cancelled(t) => Cancelled(t)'
        BY <4>2, <4>4 DEF Cancelled
      <4>6. OnSlots(t)' = OnSlots(t) /\ InHand(t)' = InHand(t)
        BY <4>1, <4>3, <4>4, OnSlotsSame DEF InHand
      <4>7. Places(t)' = Places(t)
        BY <2>1, <4>1, <4>3, <4>6, PlacesSum, PlacesNext
      <4> QED
        BY <1>1, <2>1, <4>1, <4>3, <4>5, <4>7 DEF Gone
    <3> QED
      BY <3>1, <3>2
  <2>9. CASE ProcessNext
    <3>1. /\ UNCHANGED <<queue, deferred, slots>> /\ hand = NextResponse /\ hand' = NoMessage
      BY <2>9 DEF ProcessNext
    <3>2. hand # Ask(t) /\ hand # Cancel(t) /\ hand' # Ask(t)
      BY <3>1, MessagesDiffer
    <3>3. OnSlots(t)' = OnSlots(t) /\ InHand(t)' = InHand(t) /\ (Cancelled(t) => Cancelled(t)')
      BY <3>1, <3>2, OnSlotsSame DEF InHand, Cancelled
    <3>4. Places(t)' = Places(t)
      BY <3>1, <3>3, PlacesSum, PlacesNext
    <3> QED
      BY <1>1, <3>1, <3>3, <3>4, GoneFrame
  <2> QED
    BY <2>3, <2>5, <2>6, <2>7, <2>8, <2>9
<1> QED
  BY <1>2, <1>3

(* A task put into the deferred queue has a reader that is still there.    *)
LEMMA GoneDefer ==
    ASSUME TypeInv, NEW r \in Readers, NEW t \in Ids(r), Gone(r, t), Defer,
           reader[OwnerOf(hand.task)] # "done"
    PROVE  Gone(r, t)'
<1>1. Typed /\ t \in Tasks
  BY TypeFacts, AsksFacts DEF TypeInv
<1>2. /\ UNCHANGED <<queue, slots, reader>> /\ hand' = NoMessage
      /\ deferred' = Append(deferred, hand) /\ hand.kind = "ask"
  BY DEF Defer, readerVars
<1>3. hand \in Messages /\ hand = Ask(hand.task) /\ hand \in Asked
  BY <1>1, <1>2, MessageFacts DEF Typed, NoMessage, Asked
<1>4. CASE hand.task = t
  BY <1>2, <1>4, OwnerFacts DEF Gone
<1>5. CASE hand.task # t
  <2>1. hand # Ask(t) /\ hand # Cancel(t) /\ hand' # Ask(t)
    BY <1>2, <1>3, <1>5, MessagesDiffer
  <2>2. Count(deferred', Ask(t)) = Count(deferred, Ask(t))
    <3>1. Count(deferred, Ask(t)) \in Nat
      BY <1>1, CountType DEF Typed
    <3> QED
      BY <1>1, <1>2, <1>3, <2>1, <3>1, CountAppend DEF Typed
  <2>3. OnSlots(t)' = OnSlots(t)
    BY <1>2, OnSlotsSame
  <2>4. Places(t)' = Places(t) /\ (Cancelled(t) => Cancelled(t)')
    BY <1>2, <2>1, <2>2, <2>3, PlacesSum, PlacesNext DEF InHand, Cancelled
  <2> QED
    BY <1>2, <2>2, <2>4, GoneFrame
<1> QED
  BY <1>4, <1>5

(* A task launched for a reader that is gone has its CANCEL in the queue.  *)
LEMMA GoneLaunch ==
    ASSUME TypeInv, NEW r \in Readers, NEW t \in Ids(r), Gone(r, t), NEW s \in Slots, Launch(s)
    PROVE  Gone(r, t)'
<1>1. /\ hand = Ask(hand.task) /\ slots[s].state = "free"
      /\ \A q \in Slots \ {s} : slots'[q] = slots[q]
      /\ slots'[s].id = hand.task
  BY LaunchFacts
<1>2. UNCHANGED <<queue, deferred, reader>> /\ hand' = NoMessage
  BY DEF Launch, readerVars
<1>3. hand # Cancel(t) /\ hand' # Ask(t)
  BY <1>1, <1>2, MessagesDiffer
<1>4. Cancelled(t) => Cancelled(t)'
  BY <1>2, <1>3 DEF Cancelled
<1>5. CASE hand.task = t
  <2>1. InHand(t) = 1
    BY <1>1, <1>5 DEF InHand
  <2>2. Places(t) > 0
    BY <2>1, PlacesType, PlacesSum
  <2> QED
    BY <1>2, <1>4, <2>2 DEF Gone
<1>6. CASE hand.task # t
  <2>1. OnSlots(t)' = OnSlots(t)
    BY <1>1, <1>6, OnSlotsSame
  <2>2. InHand(t)' = InHand(t)
    BY <1>1, <1>3, <1>6, MessagesDiffer DEF InHand
  <2>3. Places(t)' = Places(t)
    BY <1>2, <2>1, <2>2, PlacesSum, PlacesNext
  <2> QED
    BY <1>2, <1>4, <2>3, GoneFrame
<1> QED
  BY <1>5, <1>6

(* The CANCEL of a task takes it off its slot; it was nowhere else.        *)
LEMMA GoneCancel ==
    ASSUME TypeInv, NEW r \in Readers, NEW t \in Ids(r), Delivery(r, t), Gone(r, t),
           ProcessCancel
    PROVE  Gone(r, t)'
<1>1. /\ hand = Cancel(hand.task)
      /\ \/ /\ \A q \in Slots : ~(slots[q].state = "busy" /\ slots[q].id = hand.task)
            /\ UNCHANGED slots
         \/ \E s \in Slots :
               /\ slots[s].state = "busy" /\ slots[s].id = hand.task
               /\ \A q \in Slots : /\ slots'[q].id = slots[q].id
                                   /\ slots'[q].state = IF q = s THEN "released"
                                                        ELSE slots[q].state
  BY CancelFacts
<1>2. UNCHANGED <<queue, deferred, reader>> /\ hand' = NoMessage
  BY DEF ProcessCancel, readerVars
<1>3. hand # Ask(t) /\ hand' # Ask(t) /\ InHand(t) = 0 /\ InHand(t)' = 0
  BY <1>1, <1>2, MessagesDiffer DEF InHand
<1>4. CASE hand.task # t
  <2>1. OnSlots(t)' = OnSlots(t)
    BY <1>1, <1>4, OnSlotsSame
  <2>2. Places(t)' = Places(t)
    BY <1>2, <1>3, <2>1, PlacesSum, PlacesNext
  <2>3. Cancelled(t) => Cancelled(t)'
    BY <1>1, <1>2, <1>4, MessagesDiffer DEF Cancelled
  <2> QED
    BY <1>2, <2>2, <2>3, GoneFrame
<1>5. CASE hand.task = t
  <2>1. CASE OnSlots(t) = {}
    <3>1. UNCHANGED slots
      BY <1>1, <1>5, <2>1 DEF OnSlots, BusySlots
    <3>2. OnSlots(t)' = {}
      BY <2>1, <3>1 DEF OnSlots, BusySlots
    <3>3. Cardinality(OnSlots(t)') = 0
      BY <3>2, FS_EmptySet
    <3>4. reader[r] = "done" => Places(t)' = 0
      BY <1>2, <1>3, <3>3, PlacesNext DEF Gone
    <3> QED
      BY <1>2, <3>4 DEF Gone
  <2>2. CASE OnSlots(t) # {}
    <3>1. PICK s \in Slots :
             /\ slots[s].state = "busy" /\ slots[s].id = t
             /\ \A q \in Slots : /\ slots'[q].id = slots[q].id
                                 /\ slots'[q].state = IF q = s THEN "released" ELSE slots[q].state
      BY <1>1, <1>5, <2>2 DEF OnSlots, BusySlots
    <3>2. InHand(t)' <= InHand(t) /\ InHand(t)' \in Nat /\ Places(t) <= 1
      BY <1>3 DEF Delivery
    <3>3. Places(t)' = 0
      BY <1>2, <3>1, <3>2, PlaceGone
    <3> QED
      BY <1>2, <3>3 DEF Gone
  <2> QED
    BY <2>1, <2>2
<1> QED
  BY <1>4, <1>5

(* A token for a slot, or its last: no slot takes up a task.               *)
LEMMA GoneSlot ==
    ASSUME TypeInv, NEW r \in Readers, NEW t \in Ids(r), Gone(r, t),
           NEW s \in Slots, GoOn(s) \/ Finish(s) \/ FailSlot(s)
    PROVE  Gone(r, t)'
<1>1. UNCHANGED <<queue, deferred, hand, reader>>
  BY DEF GoOn, Finish, FailSlot, readerVars
<1>2. \A q \in Slots : slots'[q].id = slots[q].id
                       /\ (slots'[q].state = "busy" => slots[q].state = "busy")
  <2>1. CASE GoOn(s)
    BY <2>1, GoOnFacts
  <2>2. CASE Finish(s) \/ FailSlot(s)
    BY <2>2, EndSlotFacts
  <2> QED
    BY <2>1, <2>2
<1>3. OnSlots(t)' \in SUBSET OnSlots(t)
  BY <1>2 DEF OnSlots, BusySlots
<1>4. /\ Cardinality(OnSlots(t)') <= Cardinality(OnSlots(t))
      /\ Cardinality(OnSlots(t)') \in Nat /\ Cardinality(OnSlots(t)) \in Nat
  BY <1>3, OnSlotsFinite, FS_Subset, FS_CardinalityType
<1>5. InHand(t)' = InHand(t) /\ (Cancelled(t) => Cancelled(t)')
  BY <1>1 DEF InHand, Cancelled
<1>6. Places(t)' > 0 => Places(t) > 0
  BY <1>1, <1>4, <1>5, PlacesSum, PlacesNext, PlacesType
<1> QED
  BY <1>1, <1>5, <1>6 DEF Gone

(* Another reader's tasks go to the end of the queue.                      *)
LEMMA PostElsewhere ==
    ASSUME TypeInv, NEW r \in Readers, NEW t \in Ids(r), NEW p \in Readers, p # r, Post(p)
    PROVE  /\ Count(queue', Ask(t)) = Count(queue, Ask(t))
           /\ Count(queue', Cancel(t)) = Count(queue, Cancel(t))
<1> DEFINE new == [i \in DOMAIN Asks[p] |-> Ask(Asks[p][i])]
<1>1. queue \in Seq(Messages) /\ queue' = queue \o new /\ t \notin Ids(p)
  BY TypeFacts, OwnersDiffer DEF TypeInv, Typed, Post
<1>2. /\ DOMAIN Asks[p] = 1..Len(Asks[p]) /\ Len(Asks[p]) \in Nat
      /\ \A i \in 1..Len(Asks[p]) : Asks[p][i] \in Ids(p) /\ Asks[p][i] \in Tasks
  BY AsksFacts
<1>3. \A i \in 1..Len(Asks[p]) : Ask(Asks[p][i]) \in Messages
  BY <1>2, MessageFacts
<1>4. /\ new \in Seq(Messages) /\ DOMAIN new = 1..Len(Asks[p]) /\ Len(new) = Len(Asks[p])
      /\ \A i \in 1..Len(Asks[p]) : new[i] = Ask(Asks[p][i])
  BY <1>2, <1>3
<1> HIDE DEF new
<1>5. ASSUME NEW i \in 1..Len(new) PROVE new[i] # Ask(t) /\ new[i] # Cancel(t)
  <2>1. new[i] = Ask(Asks[p][i]) /\ Asks[p][i] # t
    BY <1>1, <1>2, <1>4
  <2> QED
    BY <2>1, MessagesDiffer
<1>6. Count(new, Ask(t)) = 0 /\ Count(new, Cancel(t)) = 0
  BY <1>4, <1>5, CountType
<1>7. Count(queue, Ask(t)) \in Nat /\ Count(queue, Cancel(t)) \in Nat
  BY <1>1, CountType
<1>8. \A m : Count(queue', m) = Count(queue, m) + Count(new, m)
  BY <1>1, <1>4, CountConcat
<1> QED
  BY <1>6, <1>7, <1>8

(* stop(): by the first way out nothing is left, by the second post() has  *)
(* emptied the queues of the request and queued its cancels.               *)
LEMMA GoneReader ==
    ASSUME TypeInv, NEW r \in Readers, NEW t \in Ids(r), Delivery(r, t), CountInv, Gone(r, t),
           NEW p \in Readers, Register(p) \/ ReaderStep(p) \/ GiveUp(p)
    PROVE  Gone(r, t)'
<1>1. Typed /\ WorkShape /\ t \in Tasks /\ (p # r => t \notin Ids(p))
  BY TypeFacts, AsksFacts, OwnersDiffer DEF TypeInv
<1>2. UNCHANGED <<hand, slots>>
  BY DEF Register, ReaderStep, GiveUp, Post, Recv, AbortDecode, StopWaiting, StopCancel, loopVars
<1>3. OnSlots(t)' = OnSlots(t) /\ InHand(t)' = InHand(t)
  BY <1>2, OnSlotsSame DEF InHand
<1>4. ASSUME UNCHANGED <<queue, deferred>>
      PROVE  Places(t)' = Places(t) /\ (Cancelled(t) => Cancelled(t)')
  BY <1>2, <1>3, <1>4, PlacesSum, PlacesNext DEF Cancelled
<1>5. \A to : Goto(p, to) => /\ p # r => reader'[r] = reader[r]
                             /\ p = r => reader'[r] = to
  BY <1>1 DEF Goto, Typed
<1>6. CASE Register(p) \/ GiveUp(p) \/ AbortDecode(p)
  <2>1. /\ UNCHANGED <<queue, deferred>>
        /\ Goto(p, "registered") \/ Goto(p, "stopping") \/ Goto(p, "aborting")
    BY <1>6 DEF Register, GiveUp, AbortDecode
  <2>2. CASE p = r
    BY <1>5, <2>1, <2>2 DEF Gone
  <2>3. CASE p # r
    BY <1>4, <1>5, <2>1, <2>3, GoneFrame
  <2> QED
    BY <2>2, <2>3
<1>7. CASE Recv(p)
  <2>1. PICK i \in 1..Len(results) : Taken(p, i)
    BY <1>7, RecvTakes DEF TypeInv
  <2>2. /\ UNCHANGED <<queue, deferred>> /\ reader[p] = "waiting"
        /\ UNCHANGED reader \/ Goto(p, "stopping")
    BY <2>1 DEF Taken
  <2>3. CASE p = r
    BY <1>5, <2>2, <2>3 DEF Gone
  <2>4. CASE p # r
    BY <1>4, <1>5, <2>2, <2>4, GoneFrame
  <2> QED
    BY <2>3, <2>4
<1>8. CASE Post(p)
  <2>1. UNCHANGED deferred /\ Goto(p, "waiting")
    BY <1>8 DEF Post
  <2>2. CASE p = r
    BY <1>5, <2>1, <2>2 DEF Gone
  <2>3. CASE p # r
    <3>1. /\ Count(queue', Ask(t)) = Count(queue, Ask(t))
          /\ Count(queue', Cancel(t)) = Count(queue, Cancel(t))
      BY <1>8, <2>3, PostElsewhere
    <3>2. Places(t)' = Places(t) /\ (Cancelled(t) => Cancelled(t)')
      BY <1>2, <1>3, <2>1, <3>1, PlacesSum, PlacesNext DEF Cancelled
    <3> QED
      BY <1>5, <2>1, <2>3, <3>1, <3>2, GoneFrame
  <2> QED
    BY <2>2, <2>3
<1>9. CASE StopWaiting(p)
  <2>1. /\ UNCHANGED <<queue, deferred>> /\ reader[p] = "stopping"
        /\ \/ Goto(p, "cancelling")
           \/ ~HasNext(p) /\ Goto(p, "done")
    BY <1>9 DEF StopWaiting
  <2>2. CASE p # r
    BY <1>4, <1>5, <2>1, <2>2, GoneFrame
  <2>3. CASE p = r
    <3>1. CASE HasNext(r)
      BY <1>5, <2>1, <2>3, <3>1 DEF Gone
    <3>2. CASE ~HasNext(r)
      <4>1. received[r] \in 0..Len(Asks[r]) /\ Len(Asks[r]) \in Nat
        BY <1>1, AsksFacts DEF Typed
      <4>2. received[r] = Len(Asks[r])
        BY <3>2, <4>1 DEF HasNext
      <4>3. t \in filled
        BY <4>2, AllCounted
      <4>4. Places(t) = 0
        BY <4>3 DEF Delivery
      <4>5. Count(queue, Ask(t)) = 0 /\ Count(deferred, Ask(t)) = 0
        BY <4>4, PlacesType, PlacesSum
      <4>6. Places(t)' = 0
        BY <1>4, <2>1, <4>4
      <4> QED
        BY <2>1, <4>5, <4>6 DEF Gone
    <3> QED
      BY <3>1, <3>2
  <2> QED
    BY <2>2, <2>3
<1>10. CASE StopCancel(p)
  <2>1. PostCancels(Ids(p)) /\ Goto(p, "done") /\ TypeOK
    BY <1>10 DEF StopCancel, TypeInv
  <2>2. CASE p # r
    <3>1. /\ Count(queue', Ask(t)) = Count(queue, Ask(t))
          /\ Count(deferred', Ask(t)) = Count(deferred, Ask(t))
          /\ Count(queue', Cancel(t)) = Count(queue, Cancel(t))
      BY <1>1, <2>1, <2>2, PostCancelsFacts
    <3>2. Places(t)' = Places(t) /\ (Cancelled(t) => Cancelled(t)')
      BY <1>2, <1>3, <3>1, PlacesSum, PlacesNext DEF Cancelled
    <3> QED
      BY <1>5, <2>1, <2>2, <3>1, <3>2, GoneFrame
  <2>3. CASE p = r
    <3>1. /\ Count(queue', Ask(t)) = 0 /\ Count(deferred', Ask(t)) = 0
          /\ Count(queue', Cancel(t)) > 0
      BY <2>1, <2>3, PostCancelsFacts
    <3> QED
      BY <3>1 DEF Gone, Cancelled
  <2> QED
    BY <2>2, <2>3
<1> QED
  BY <1>6, <1>7, <1>8, <1>9, <1>10 DEF ReaderStep

LEMMA GoneNext ==
    TypeInv /\ DeliveryInv /\ CountInv /\ GoneInv
    /\ [Next]_vars /\ [Defer => reader[OwnerOf(hand.task)] # "done"]_vars => GoneInv'
<1> SUFFICES ASSUME TypeInv, DeliveryInv, CountInv, GoneInv, [Next]_vars,
                    [Defer => reader[OwnerOf(hand.task)] # "done"]_vars,
                    NEW r \in Readers, NEW t \in Ids(r)
             PROVE  Gone(r, t)'
  BY DEF GoneInv
<1>1. Delivery(r, t) /\ Gone(r, t)
  BY DEF DeliveryInv, GoneInv
<1>2. CASE UNCHANGED <<queue, deferred, hand, slots, reader>>
  <2>1. Places(t)' = Places(t) /\ Cancelled(t)' = Cancelled(t)
    BY <1>2 DEF Places, BusySlots, Cancelled
  <2> QED
    BY <1>1, <1>2, <2>1, GoneFrame
<1>3. CASE LoopStep
  <2>1. CASE Defer
    <3>1. vars' # vars => reader[OwnerOf(hand.task)] # "done"
      BY <2>1
    <3>2. CASE vars' # vars
      BY <1>1, <2>1, <3>1, <3>2, GoneDefer
    <3>3. CASE vars' = vars
      BY <1>2, <3>3 DEF vars, loopVars, readerVars
    <3> QED
      BY <3>2, <3>3
  <2> QED
    BY <1>1, <1>3, <2>1, GoneLoop, GoneLaunch, GoneCancel, GoneSlot DEF LoopStep
<1>4. CASE \E p \in Readers : Register(p) \/ ReaderStep(p) \/ GiveUp(p)
  BY <1>1, <1>4, GoneReader
<1>5. CASE (\E f \in {"park", "unpark"} : PostControl(f)) \/ Terminate \/ UNCHANGED vars
  <2>1. UNCHANGED <<queue, deferred, hand, slots, reader>>
    BY <1>5 DEF PostControl, Terminate, vars, loopVars, readerVars
  <2> QED
    BY <1>2, <2>1
<1> QED
  BY <1>3, <1>4, <1>5 DEF Next

LEMMA GoneIsDead == TypeInv /\ GoneInv => DeadTaskLeaves
<1> SUFFICES ASSUME TypeInv, GoneInv, NEW r \in Readers, reader[r] = "done", NEW t \in Ids(r),
                    Places(t) > 0
             PROVE  \/ hand \in {Ask(t), Cancel(t)}
                    \/ \E i \in DOMAIN queue : queue[i] = Cancel(t)
  BY DEF DeadTaskLeaves
<1>1. Cancelled(t)
  BY DEF GoneInv, Gone
<1>2. queue \in Seq(Messages)
  BY TypeFacts DEF TypeInv, Typed
<1>3. Count(queue, Cancel(t)) > 0 => \E i \in DOMAIN queue : queue[i] = Cancel(t)
  BY <1>2, CountType
<1> QED
  BY <1>1, <1>3 DEF Cancelled

(* A slot at work bears a task: launch_slot_with_task gave it.             *)
BusyBearsTask == \A s \in Slots : slots[s].state = "busy" => slots[s].id \in Tasks

LEMMA BusyBearsInit == Init => BusyBearsTask
BY DEF Init, BusyBearsTask

LEMMA BusyBearsNext == TypeInv /\ BusyBearsTask /\ [Next]_vars => BusyBearsTask'
<1> SUFFICES ASSUME TypeInv, BusyBearsTask, [Next]_vars PROVE BusyBearsTask'
  OBVIOUS
<1>1. ASSUME \A q \in Slots : /\ slots'[q].id = slots[q].id
                              /\ slots'[q].state = "busy" => slots[q].state = "busy"
      PROVE  BusyBearsTask'
  BY <1>1 DEF BusyBearsTask
<1>2. CASE ReleaseSlots \/ ProcessCancel
  BY <1>1, <1>2, ReleaseSlotsFacts, CancelFacts
<1>3. ASSUME NEW s \in Slots, GoOn(s) \/ Finish(s) \/ FailSlot(s) PROVE BusyBearsTask'
  BY <1>1, <1>3, GoOnFacts, EndSlotFacts
<1>4. ASSUME NEW s \in Slots, Launch(s) PROVE BusyBearsTask'
  BY <1>4, LaunchFacts DEF BusyBearsTask
<1>5. CASE UNCHANGED slots
  BY <1>1, <1>5
<1>6. CASE \/ StartLoop \/ TakeControl \/ RunControl \/ LeaveControl \/ PausedWait
           \/ PopTask \/ Defer \/ ProcessNext \/ StartUpdate \/ Decode \/ EndUpdate
           \/ WaitOrEnd \/ Wake \/ Heartbeat
  BY <1>5, <1>6 DEF StartLoop, TakeControl, RunControl, LeaveControl, PausedWait, PopTask, Defer,
     ProcessNext, StartUpdate, Decode, EndUpdate, WaitOrEnd, Wake, Heartbeat
<1>7. CASE \E p \in Readers : Register(p) \/ ReaderStep(p) \/ GiveUp(p)
  BY <1>5, <1>7 DEF Register, ReaderStep, GiveUp, Post, Recv, AbortDecode, StopWaiting, StopCancel,
     loopVars
<1>8. CASE (\E f \in {"park", "unpark"} : PostControl(f)) \/ Terminate \/ UNCHANGED vars
  BY <1>5, <1>8 DEF PostControl, Terminate, vars, loopVars
<1> QED
  BY <1>2, <1>3, <1>4, <1>6, <1>7, <1>8 DEF Next, LoopStep

LEMMA GoneLeavesNoGhost == TypeInv /\ BusyBearsTask /\ GoneInv => NoGhostOnSlot
<1> SUFFICES ASSUME TypeInv, BusyBearsTask, GoneInv, NEW s \in BusySlots,
                    reader[OwnerOf(slots[s].id)] = "done"
             PROVE  \/ hand = Cancel(slots[s].id)
                    \/ \E i \in DOMAIN queue : queue[i] = Cancel(slots[s].id)
  BY DEF NoGhostOnSlot
<1> DEFINE t == slots[s].id
<1>1. t \in Tasks
  BY DEF BusyBearsTask, BusySlots
<1>2. PICK r \in Readers : t \in Ids(r)
  BY <1>1 DEF Tasks
<1>3. reader[r] = "done"
  BY <1>2, OwnerFacts
<1>4. s \in OnSlots(t)
  BY DEF OnSlots
<1>5. Cardinality(OnSlots(t)) > 0
  BY <1>4, OnSlotsFinite
<1>6. Places(t) > 0
  BY <1>5, PlacesType, PlacesSum
<1>7. Cancelled(t)
  BY <1>2, <1>3, <1>6 DEF GoneInv, Gone
<1>8. queue \in Seq(Messages)
  BY TypeFacts DEF TypeInv, Typed
<1>9. Count(queue, Cancel(t)) > 0 => \E i \in DOMAIN queue : queue[i] = Cancel(t)
  BY <1>8, CountType
<1> QED
  BY <1>7, <1>9 DEF Cancelled

(* The CANCEL of stop() and the cleanup in post(): whatever is left of a   *)
(* request when its reader has gone has its CANCEL on the way, unless the  *)
(* loop puts a task of that request into the deferred queue: that step,    *)
(* which queue_ghost exhibits, is the only one that makes a ghost.         *)
THEOREM OnlyDeferralMakesGhosts ==
    Spec /\ DefersTheLiving => [](DeadTaskLeaves /\ NoGhostOnSlot)
<1>1. Spec /\ DefersTheLiving => []GoneInv
  BY CountInvariance, GoneInit, GoneNext, PTL DEF Spec, DefersTheLiving
<1>2. Spec => []BusyBearsTask
  BY TypeInvariance, BusyBearsInit, BusyBearsNext, PTL DEF Spec
<1> QED
  BY <1>1, <1>2, CountInvariance, GoneIsDead, GoneLeavesNoGhost, PTL

(* Nothing is deferred, and so no ghost can appear, in a server with a     *)
(* slot for each task, where no task asks for a slot by number or waits for*)
(* the ring, and a failed decode does not take idle slots with it          *)
(* (FailSlot).                                                             *)
EnoughSlots ==
    /\ IsFiniteSet(Tasks) /\ Cardinality(Tasks) <= Cardinality(Slots)
    /\ \A t \in Tasks : Pin[t] = AnySlot /\ ~RingWaits(t)
    /\ "decode" \notin MayFail

(* Two slots never bear the same task, and one that is not free bears one. *)
OwnSlots ==
    /\ \A s, q \in Slots : slots[s].id = slots[q].id /\ s # q => slots[s].id = NoTask
    /\ \A s \in Slots : slots[s].state # "free" => slots[s].id # NoTask
    /\ loop = "fail" => todo \subseteq BusySlots

LEMMA OwnSlotsInit == Init => OwnSlots
BY DEF Init, OwnSlots

LEMMA OwnSlotsSame ==
    ASSUME TypeInv, OwnSlots, loop' # "fail" \/ UNCHANGED <<loop, todo>>,
           \A q \in Slots : /\ slots'[q].id = slots[q].id
                            /\ slots'[q].state # "free" => slots[q].state # "free"
                            /\ slots[q].state = "busy" => slots'[q].state = "busy"
    PROVE  OwnSlots'
<1>1. loop' = "fail" => todo' \subseteq BusySlots'
  BY DEF OwnSlots, BusySlots
<1> QED
  BY <1>1 DEF OwnSlots

(* A task to launch is on no slot yet.                                     *)
LEMMA HandIsOnNoSlot ==
    ASSUME TypeInv, DeliveryInv, hand.kind = "ask", hand \in Messages
    PROVE  hand.task \in Tasks /\ \A s \in Slots : slots[s].id # hand.task
<1>1. hand.task \in Tasks /\ hand = Ask(hand.task)
  BY MessageFacts
<1>2. PICK r \in Readers : hand.task \in Ids(r)
  BY <1>1 DEF Tasks
<1> DEFINE t == hand.task
<1>3. Delivery(r, t)
  BY <1>2 DEF DeliveryInv
<1>4. InHand(t) = 1
  BY <1>1 DEF InHand
<1>5. Places(t) > 0 /\ Cardinality(OnSlots(t)) = 0
  BY <1>3, <1>4, PlacesType, PlacesSum DEF Delivery
<1>6. OnSlots(t) = {} /\ ~Idle(t)
  BY <1>3, <1>5, OnSlotsFinite DEF Delivery
<1> QED
  BY <1>1, <1>6 DEF OnSlots, BusySlots, Idle

LEMMA OwnSlotsNext ==
    EnoughSlots /\ TypeInv /\ DeliveryInv /\ OwnSlots /\ [Next]_vars => OwnSlots'
<1> SUFFICES ASSUME EnoughSlots, TypeInv, DeliveryInv, OwnSlots, [Next]_vars PROVE OwnSlots'
  OBVIOUS
<1>1. Typed /\ WorkShape
  BY TypeFacts DEF TypeInv
<1>2. CASE UNCHANGED slots /\ (loop' # "fail" \/ UNCHANGED <<loop, todo>>)
  BY <1>2, OwnSlotsSame
<1>3. CASE \/ StartLoop \/ TakeControl \/ RunControl \/ LeaveControl \/ PausedWait
           \/ PopTask \/ Defer \/ ProcessNext \/ StartUpdate \/ EndUpdate
           \/ WaitOrEnd \/ Wake \/ Heartbeat
  <2>1. UNCHANGED slots /\ loop' # "fail"
    <3>1. CASE TakeControl
      <4>1. Head(control) \in {"park", "unpark"}
        BY <1>1, <3>1 DEF TakeControl, Typed
      <4> QED
        BY <3>1, <4>1 DEF TakeControl
    <3>2. CASE ~TakeControl
      BY <1>3, <3>2 DEF StartLoop, RunControl, LeaveControl, PausedWait, EndLoop, PopTask, Defer,
         ProcessNext, StartUpdate, EndUpdate, WaitOrEnd, Wake, Heartbeat
    <3> QED
      BY <3>1, <3>2
  <2> QED
    BY <1>2, <2>1
<1>4. CASE Decode
  <2>1. UNCHANGED slots /\ (loop' # "fail" \/ todo' = BusySlots)
    BY <1>4 DEF Decode, EnoughSlots
  <2>2. BusySlots' = BusySlots
    BY <2>1 DEF BusySlots
  <2> QED
    BY <2>1, <2>2 DEF OwnSlots
<1>5. CASE ReleaseSlots
  <2>1. loop' # "fail"
    BY <1>5 DEF ReleaseSlots
  <2>2. \A q \in Slots : /\ slots'[q].id = slots[q].id
                         /\ slots'[q].state # "free" => slots[q].state # "free"
    BY <1>5, ReleaseSlotsFacts
  <2> QED
    BY <2>1, <2>2 DEF OwnSlots
<1>6. CASE ProcessCancel
  <2>1. loop' # "fail"
    BY <1>6 DEF ProcessCancel
  <2>2. \A q \in Slots : /\ slots'[q].id = slots[q].id
                         /\ slots'[q].state # "free" => slots[q].state # "free"
    BY <1>6, CancelFacts
  <2> QED
    BY <2>1, <2>2 DEF OwnSlots
<1>7. ASSUME NEW s \in Slots, GoOn(s) PROVE OwnSlots'
  <2>1. loop' # "fail"
    BY <1>7 DEF GoOn
  <2>2. \A q \in Slots : slots'[q].id = slots[q].id /\ slots'[q].state = slots[q].state
    BY <1>7, GoOnFacts
  <2> QED
    BY <2>1, <2>2 DEF OwnSlots
<1>8. ASSUME NEW s \in Slots, Finish(s) \/ FailSlot(s) PROVE OwnSlots'
  <2>1. s \in BusySlots
    BY <1>1, <1>8 DEF Finish, FailSlot, WorkShape, OwnSlots
  <2>2. \A q \in Slots : /\ slots'[q].id = slots[q].id
                         /\ slots'[q].state = IF q = s THEN "released" ELSE slots[q].state
    BY <1>8, EndSlotFacts
  <2>3. slots[s].state # "free"
    BY <2>1 DEF BusySlots
  <2>4. loop' = "fail" => todo' \subseteq BusySlots'
    <3>1. UNCHANGED loop /\ todo' = todo \ {s}
      BY <1>8 DEF Finish, FailSlot
    <3> QED
      BY <2>2, <3>1 DEF OwnSlots, BusySlots
  <2> QED
    BY <2>2, <2>3, <2>4 DEF OwnSlots
<1>9. ASSUME NEW s \in Slots, Launch(s) PROVE OwnSlots'
  <2>1. /\ hand \in Messages /\ \A q \in Slots \ {s} : slots'[q] = slots[q]
        /\ slots'[s].id = hand.task
    BY <1>9, LaunchFacts
  <2>2. loop' # "fail" /\ hand.kind = "ask"
    BY <1>9 DEF Launch
  <2>3. hand.task # NoTask /\ \A q \in Slots : slots[q].id # hand.task
    BY <2>1, <2>2, HandIsOnNoSlot, QueueConstants
  <2> QED
    BY <2>1, <2>2, <2>3 DEF OwnSlots
<1>10. CASE \E p \in Readers : Register(p) \/ ReaderStep(p) \/ GiveUp(p)
  <2>1. UNCHANGED <<slots, loop, todo>>
    BY <1>10 DEF Register, ReaderStep, GiveUp, Post, Recv, AbortDecode, StopWaiting, StopCancel,
       loopVars
  <2> QED
    BY <1>2, <2>1
<1>11. CASE (\E f \in {"park", "unpark"} : PostControl(f)) \/ Terminate \/ UNCHANGED vars
  <2>1. UNCHANGED <<slots, loop, todo>>
    BY <1>11 DEF PostControl, Terminate, vars, loopVars
  <2> QED
    BY <1>2, <2>1
<1> QED
  BY <1>3, <1>4, <1>5, <1>6, <1>7, <1>8, <1>9, <1>10, <1>11 DEF Next, LoopStep

(* With all slots taken, each by a task of its own, and one more task in   *)
(* the hand, there would be more tasks than slots.                         *)
LEMMA NothingToDefer ==
    ASSUME EnoughSlots, TypeInv, DeliveryInv, OwnSlots
    PROVE  ~Defer
<1> SUFFICES ASSUME Defer PROVE FALSE
  OBVIOUS
<1>1. Typed /\ hand.kind = "ask" /\ Refused(hand.task)
  BY TypeFacts DEF TypeInv, Defer
<1> DEFINE t == hand.task
           T == Tasks \ {t}
           f == [s \in Slots |-> slots[s].id]
<1>2. hand \in Messages
  BY <1>1 DEF Typed, NoMessage
<1>3. t \in Tasks /\ \A s \in Slots : slots[s].id # t
  BY <1>1, <1>2, HandIsOnNoSlot
<1>4. FreeSlots = {}
  BY <1>1, <1>3, QueueConstants DEF Refused, Admitted, EnoughSlots
<1>5. \A s \in Slots : slots[s].id # NoTask /\ slots[s].id \in Tasks \union {NoTask}
  BY <1>1, <1>4 DEF OwnSlots, FreeSlots, Typed, SlotStates
<1>6. f \in [Slots -> T]
  BY <1>3, <1>5
<1>7. /\ IsFiniteSet(T) /\ Cardinality(T) = Cardinality(Tasks) - 1
      /\ IsFiniteSet(Slots) /\ Cardinality(Tasks) \in Nat /\ Cardinality(Slots) \in Nat
  BY <1>3, FS_RemoveElement, FS_CardinalityType, QueueConstants DEF EnoughSlots
<1>8. Cardinality(T) < Cardinality(Slots)
  BY <1>7 DEF EnoughSlots
<1>9. \E s, q \in Slots : s # q /\ f[s] = f[q]
  <2> HIDE DEF T, f
  <2> QED
    BY <1>6, <1>7, <1>8, FS_PigeonHole
<1> QED
  BY <1>5, <1>9 DEF OwnSlots

(* The loop of such a server never defers, and a request leaves nothing    *)
(* that its CANCEL will not reach.  The instance of queue_swap is one.     *)
THEOREM EnoughSlotsNoGhosts ==
    ASSUME EnoughSlots
    PROVE  Spec => [](DeadTaskLeaves /\ NoGhostOnSlot)
<1>1. Spec => [](TypeInv /\ DeliveryInv /\ OwnSlots)
  BY EnoughSlots, DeliveryInvariance, OwnSlotsInit, OwnSlotsNext, PTL DEF Spec
<1>2. TypeInv /\ DeliveryInv /\ OwnSlots => (Defer => reader[OwnerOf(hand.task)] # "done")
  BY EnoughSlots, NothingToDefer
<1>3. Spec => DefersTheLiving
  BY <1>1, <1>2, PTL DEF DefersTheLiving
<1> QED
  BY <1>3, OnlyDeferralMakesGhosts, PTL

-----------------------------------------------------------------------------
(* The queue implements RequestLife.                                       *)
(*                                                                         *)
(* The stage of a task is where it is: moving it from a queue to the       *)
(* other, into the hand and back changes no stage; launch begins it,       *)
(* the last result, a failure or a CANCEL ends it, and since a task that   *)
(* is nowhere stays nowhere (DeliveryInv), it is never queued again.       *)

LEMMA StageIs ==
    ASSUME NEW r \in Readers, NEW t \in Ids(r)
    PROVE  /\ Stage(t) = IF Places(t) > 0
                         THEN IF OnSlots(t) # {} THEN "working" ELSE "queued"
                         ELSE IF reader[r] \in {"new", "registered"} THEN "unposted" ELSE "over"
           /\ Stage(t)' = IF Places(t)' > 0
                          THEN IF OnSlots(t)' # {} THEN "working" ELSE "queued"
                          ELSE IF reader'[r] \in {"new", "registered"} THEN "unposted" ELSE "over"
<1>1. OwnerOf(t) = r
  BY OwnerFacts
<1>2. (\E s \in BusySlots : slots[s].id = t) <=> OnSlots(t) # {}
  BY DEF OnSlots
<1>3. (\E s \in BusySlots : slots[s].id = t)' <=> OnSlots(t)' # {}
  BY DEF OnSlots
<1> QED
  BY <1>1, <1>2, <1>3 DEF Stage

LEMMA StageKept ==
    ASSUME NEW r \in Readers, NEW t \in Ids(r),
           Places(t)' = Places(t), OnSlots(t)' = OnSlots(t),
           reader'[r] \in {"new", "registered"} <=> reader[r] \in {"new", "registered"}
    PROVE  Stage(t)' = Stage(t)
BY StageIs

(* The mapped state, and how a step changes it.                            *)
LifeStage == [t \in Tasks |-> Stage(t)]
Left == {r \in Readers : reader[r] = "done"}
StageMoves(S, s) == \A t \in Tasks : Stage(t)' = IF t \in S THEN s ELSE Stage(t)

LEMMA LifeTasks == Life!Tasks = Tasks
BY DEF Life!Tasks, Tasks

LEMMA LifeStageIs ==
    ASSUME NEW t \in Tasks
    PROVE  [u \in Tasks |-> Stage(u)][t] = Stage(t)
OBVIOUS

LEMMA LifeMoves ==
    ASSUME NEW S, NEW s, StageMoves(S, s)
    PROVE  Life!Move(S, s)
<1>1. [t \in Tasks |-> Stage(t)'] = [t \in Tasks |-> IF t \in S THEN s ELSE Stage(t)]
  BY DEF StageMoves
<1>2. [t \in Tasks |-> Stage(t)'] = [t \in Life!Tasks |-> IF t \in S THEN s ELSE LifeStage[t]]
  BY <1>1, LifeTasks DEF LifeStage
<1> QED
  BY <1>2 DEF Life!Move, LifeStage

LEMMA LifeStays ==
    ASSUME \A t \in Tasks : Stage(t)' = Stage(t)
    PROVE  [t \in Tasks |-> Stage(t)]' = [t \in Tasks |-> Stage(t)]
OBVIOUS

LEMMA LifeStutters ==
    ASSUME \A t \in Tasks : Stage(t)' = Stage(t), UNCHANGED filled, Left' = Left
    PROVE  UNCHANGED Life!lifeVars
BY LifeStays DEF Life!lifeVars, Left

(* A step of the loop that begins or ends no task.                         *)
LEMMA LifeLoop ==
    ASSUME \A t \in Tasks : Places(t)' = Places(t) /\ OnSlots(t)' = OnSlots(t),
           UNCHANGED <<filled, reader>>
    PROVE  UNCHANGED Life!lifeVars
<1>1. ASSUME NEW t \in Tasks PROVE Stage(t)' = Stage(t)
  <2>1. PICK r \in Readers : t \in Ids(r)
    BY DEF Tasks
  <2> QED
    BY <2>1, StageKept
<1> QED
  BY <1>1, LifeStutters DEF Left

LEMMA LifeBegins ==
    ASSUME NEW u \in Tasks, Stage(u) = "queued", StageMoves({u}, "working"),
           UNCHANGED <<filled, reader>>
    PROVE  Life!Next
<1>1. [t \in Tasks |-> Stage(t)][u] = "queued" /\ u \in Life!Tasks
  BY LifeStageIs, LifeTasks
<1>2. Life!Move({u}, "working")
  BY LifeMoves
<1>3. Life!Begin(u)
  BY <1>1, <1>2 DEF Life!Begin
<1> QED
  BY <1>1, <1>3 DEF Life!Next

LEMMA LifeEnds ==
    ASSUME NEW u \in Tasks, Stage(u) \in {"queued", "working"}, StageMoves({u}, "over"),
           UNCHANGED <<filled, reader>>
    PROVE  Life!Next
<1>1. [t \in Tasks |-> Stage(t)][u] \in {"queued", "working"} /\ u \in Life!Tasks
  BY LifeStageIs, LifeTasks
<1>2. Life!Move({u}, "over")
  BY LifeMoves
<1>3. Life!End(u)
  BY <1>1, <1>2 DEF Life!End
<1> QED
  BY <1>1, <1>3 DEF Life!Next

(* A slot stops being busy with task u, which then is nowhere.             *)
LEMMA LifeSlotStops ==
    ASSUME TypeInv, DeliveryInv, NEW s \in Slots, slots[s].state = "busy",
           \A q \in Slots : /\ slots'[q].id = slots[q].id
                            /\ slots'[q].state = IF q = s THEN "released" ELSE slots[q].state,
           UNCHANGED <<queue, deferred, filled, reader>>,
           \A t \in Tasks : InHand(t)' = InHand(t)
    PROVE  Life!Next \/ UNCHANGED Life!lifeVars
<1> DEFINE u == slots[s].id
<1>1. ASSUME NEW t \in Tasks, t # u
      PROVE  Places(t)' = Places(t) /\ OnSlots(t)' = OnSlots(t)
  <2>1. OnSlots(t)' = OnSlots(t)
    BY <1>1, OnSlotsSame
  <2> QED
    BY <2>1, PlacesSum, PlacesNext
<1>2. CASE u \notin Tasks
  BY <1>1, <1>2, LifeLoop
<1>3. CASE u \in Tasks
  <2>1. PICK r \in Readers : u \in Ids(r)
    BY <1>3 DEF Tasks
  <2>2. Delivery(r, u) /\ InHand(u)' = InHand(u) /\ InHand(u) \in Nat
    BY <1>3, <2>1, PlacesType DEF DeliveryInv
  <2>3. Places(u) <= 1
    BY <2>2 DEF Delivery
  <2>4. InHand(u)' <= InHand(u) /\ InHand(u)' \in Nat
    BY <2>2
  <2>5. Places(u) = 1 /\ Places(u)' = 0
    BY <2>3, <2>4, PlaceGone
  <2>6. s \in OnSlots(u)
    BY DEF OnSlots, BusySlots
  <2>7. reader[r] \notin {"new", "registered"}
    BY <2>2, <2>5 DEF Delivery
  <2>8. Stage(u) = "working" /\ Stage(u)' = "over"
    BY <2>1, <2>5, <2>6, <2>7, StageIs
  <2>9. ASSUME NEW t \in Tasks, t # u PROVE Stage(t)' = Stage(t)
    <3>1. PICK p \in Readers : t \in Ids(p)
      BY DEF Tasks
    <3> QED
      BY <1>1, <2>9, <3>1, StageKept
  <2>10. StageMoves({u}, "over")
    BY <2>8, <2>9 DEF StageMoves
  <2> QED
    BY <1>3, <2>8, <2>10, LifeEnds
<1> QED
  BY <1>2, <1>3

LEMMA LifeLaunch ==
    ASSUME TypeInv, DeliveryInv, NEW s \in Slots, Launch(s)
    PROVE  Life!Next
<1>1. PICK u \in Tasks :
      /\ hand = Ask(u) /\ slots[s].state = "free"
      /\ \A q \in Slots \ {s} : slots'[q] = slots[q]
      /\ slots'[s].id = u /\ slots'[s].state \in {"busy", "free"}
  BY LaunchFacts
<1>2. UNCHANGED <<queue, deferred, filled, reader>> /\ hand' = NoMessage
  BY DEF Launch, readerVars
<1>3. PICK r \in Readers : u \in Ids(r)
  BY <1>1 DEF Tasks
<1>4. ASSUME NEW t \in Tasks, t # u PROVE Stage(t)' = Stage(t)
  <2>1. OnSlots(t)' = OnSlots(t)
    BY <1>1, <1>4, OnSlotsSame
  <2>2. InHand(t)' = InHand(t)
    BY <1>1, <1>2, <1>4, MessagesDiffer DEF InHand
  <2>3. Places(t)' = Places(t)
    BY <1>2, <2>1, <2>2, PlacesSum, PlacesNext
  <2>4. PICK p \in Readers : t \in Ids(p)
    BY DEF Tasks
  <2> QED
    BY <1>2, <2>1, <2>3, <2>4, StageKept
<1>5. InHand(u) = 1 /\ InHand(u)' = 0
  BY <1>1, <1>2, MessagesDiffer DEF InHand
<1>6. Delivery(r, u)
  BY <1>3 DEF DeliveryInv
<1>7. /\ Places(u) = 1 /\ Cardinality(OnSlots(u)) = 0
      /\ Count(queue, Ask(u)) = 0 /\ Count(deferred, Ask(u)) = 0
  BY <1>5, <1>6, PlacesType, PlacesSum DEF Delivery
<1>8. OnSlots(u) = {} /\ reader[r] \notin {"new", "registered"}
  BY <1>6, <1>7, OnSlotsFinite DEF Delivery
<1>9. Stage(u) = "queued"
  BY <1>3, <1>7, <1>8, StageIs
<1>10. Places(u)' = Cardinality(OnSlots(u)')
  <2>1. Cardinality(OnSlots(u)') \in Nat
    <3>1. OnSlots(u)' \in SUBSET Slots
      BY DEF OnSlots, BusySlots
    <3> QED
      BY <3>1, QueueConstants, FS_Subset, FS_CardinalityType
  <2> QED
    BY <1>2, <1>5, <1>7, <2>1, PlacesNext
<1>11. CASE slots'[s].state = "busy"
  <2>1. s \in OnSlots(u)' /\ OnSlots(u)' \in SUBSET Slots
    BY <1>1, <1>11 DEF OnSlots, BusySlots
  <2>2. Cardinality(OnSlots(u)') > 0
    <3>1. IsFiniteSet(OnSlots(u)')
      BY <2>1, QueueConstants, FS_Subset
    <3> QED
      BY <2>1, <3>1, FS_EmptySet, FS_CardinalityType
  <2>3. Stage(u)' = "working"
    BY <1>3, <1>10, <2>1, <2>2, StageIs
  <2>4. StageMoves({u}, "working")
    BY <1>4, <2>3 DEF StageMoves
  <2> QED
    BY <1>1, <1>2, <1>9, <2>4, LifeBegins
<1>12. CASE slots'[s].state = "free"
  <2>1. OnSlots(u)' = {}
    BY <1>1, <1>8, <1>12 DEF OnSlots, BusySlots
  <2>2. Places(u)' = 0
    BY <1>10, <2>1, FS_EmptySet
  <2>3. Stage(u)' = "over"
    BY <1>2, <1>3, <1>8, <2>2, StageIs
  <2>4. StageMoves({u}, "over")
    BY <1>4, <2>3 DEF StageMoves
  <2> QED
    BY <1>1, <1>2, <1>9, <2>4, LifeEnds
<1> QED
  BY <1>1, <1>11, <1>12

(* A step of a reader that leaves the queues alone.                        *)
LEMMA LifeReaderStays ==
    ASSUME TypeInv, NEW p \in Readers, NEW to, Goto(p, to),
           UNCHANGED <<queue, deferred, hand, slots>>,
           to \in {"new", "registered"} <=> reader[p] \in {"new", "registered"}
    PROVE  \A t \in Tasks : Stage(t)' = Stage(t)
<1> SUFFICES ASSUME NEW t \in Tasks PROVE Stage(t)' = Stage(t)
  OBVIOUS
<1>1. PICK r \in Readers : t \in Ids(r)
  BY DEF Tasks
<1>2. Typed
  BY TypeFacts DEF TypeInv
<1>3. Places(t)' = Places(t) /\ OnSlots(t)' = OnSlots(t)
  BY QuietMoves, MovedPlaces
<1>4. reader'[r] = IF r = p THEN to ELSE reader[r]
  BY <1>2 DEF Goto, Typed
<1> QED
  BY <1>1, <1>3, <1>4, StageKept

LEMMA LeftStays ==
    ASSUME TypeInv, NEW p \in Readers, NEW to, Goto(p, to), to # "done", reader[p] # "done"
    PROVE  Left' = Left
<1>1. \A r \in Readers : reader'[r] = IF r = p THEN to ELSE reader[r]
  BY TypeFacts DEF TypeInv, Typed, Goto
<1> QED
  BY <1>1 DEF Left

LEMMA LeftGrows ==
    ASSUME TypeInv, NEW p \in Readers, Goto(p, "done")
    PROVE  Left' = Left \union {p}
<1>1. \A r \in Readers : reader'[r] = IF r = p THEN "done" ELSE reader[r]
  BY TypeFacts DEF TypeInv, Typed, Goto
<1> QED
  BY <1>1 DEF Left

(* post_tasks: the tasks of the request, nowhere until now, are queued.    *)
LEMMA LifePost ==
    ASSUME TypeInv, DeliveryInv, NEW p \in Readers, Post(p)
    PROVE  Life!Next
<1>1. /\ UNCHANGED <<deferred, hand, slots, filled>> /\ Goto(p, "waiting")
      /\ reader[p] = "registered"
  BY DEF Post, loopVars
<1>2. Typed
  BY TypeFacts DEF TypeInv
<1>3. \A r \in Readers : reader'[r] = IF r = p THEN "waiting" ELSE reader[r]
  BY <1>1, <1>2 DEF Goto, Typed
<1>4. ASSUME NEW t \in Ids(p) PROVE Stage(t) = "unposted" /\ Stage(t)' = "queued"
  <2>1. Delivery(p, t) /\ t \in Tasks
    BY AsksFacts DEF DeliveryInv
  <2>2. Places(t) = 0
    BY <1>1, <2>1 DEF Delivery
  <2>3. Delivery(p, t)'
    BY <1>4, <2>1, DeliveryReader DEF ReaderStep
  <2>4. Cardinality(OnSlots(t)) = 0
    BY <2>2, PlacesType, PlacesSum
  <2>5. OnSlots(t) = {} /\ OnSlots(t)' = OnSlots(t)
    BY <1>1, <2>4, OnSlotsFinite, OnSlotsSame
  <2>6. Places(t)' > 0
    <3>1. t \notin filled /\ ~Answered(t)
      BY <1>1, <2>1 DEF Delivery
    <3>2. Answered(t)' <=> Answered(t)
      BY DEF Post, Answered
    <3>3. Places(t)' # 0
      BY <1>1, <1>3, <2>3, <3>1, <3>2 DEF Delivery
    <3>4. TypeInv'
      BY TypeReader DEF ReaderStep
    <3>5. Places(t)' \in Nat
      BY <3>4, PlacesTypeNext
    <3> QED
      BY <3>3, <3>5
  <2> QED
    BY <1>1, <2>2, <2>5, <2>6, StageIs
<1>5. ASSUME NEW t \in Tasks \ Ids(p) PROVE Stage(t)' = Stage(t)
  <2>1. PICK r \in Readers : t \in Ids(r)
    BY DEF Tasks
  <2>2. Count(queue', Ask(t)) = Count(queue, Ask(t))
    BY <1>5, <2>1, PostElsewhere
  <2>3. OnSlots(t)' = OnSlots(t) /\ InHand(t)' = InHand(t)
    BY <1>1, OnSlotsSame DEF InHand
  <2>4. Places(t)' = Places(t)
    BY <1>1, <2>2, <2>3, PlacesSum, PlacesNext
  <2> QED
    BY <1>3, <1>5, <2>1, <2>3, <2>4, StageKept
<1>6. StageMoves(Ids(p), "queued")
  BY <1>4, <1>5 DEF StageMoves
<1>7. Life!Move(Ids(p), "queued")
  BY <1>6, LifeMoves
<1>8. \A u \in Ids(p) : [t \in Tasks |-> Stage(t)][u] = "unposted"
  BY <1>4, AsksFacts, LifeStageIs
<1>9. Left' = Left /\ p \notin Left
  BY <1>1, LeftStays DEF Left
<1>10. Life!Post(p)
  BY <1>1, <1>7, <1>8, <1>9 DEF Life!Post, Left
<1> QED
  BY <1>10 DEF Life!Next

(* recv: a last result is that of a task that is over, and is the first.   *)
LEMMA LifeRecv ==
    ASSUME TypeInv, DeliveryInv, NEW p \in Readers, Recv(p)
    PROVE  Life!Next \/ UNCHANGED Life!lifeVars
<1>1. PICK i \in 1..Len(results) : Taken(p, i)
  BY RecvTakes DEF TypeInv
<1>2. Typed
  BY TypeFacts DEF TypeInv
<1>3. /\ UNCHANGED <<queue, deferred, hand, slots>> /\ reader[p] = "waiting"
      /\ UNCHANGED reader \/ Goto(p, "stopping")
  BY <1>1 DEF Taken, loopVars
<1>4. (\A t \in Tasks : Stage(t)' = Stage(t)) /\ Left' = Left /\ p \notin Left
  <2>1. p \notin Left
    BY <1>3 DEF Left
  <2>2. CASE UNCHANGED reader
    <3>1. \A t \in Tasks : Stage(t)' = Stage(t)
      <4>1. Goto(p, "waiting")
        BY <1>2, <1>3, <2>2 DEF Goto, Typed
      <4> QED
        BY <1>3, <4>1, LifeReaderStays
    <3> QED
      BY <2>1, <2>2, <3>1 DEF Left
  <2>3. CASE Goto(p, "stopping")
    BY <1>3, <2>1, <2>3, LifeReaderStays, LeftStays
  <2> QED
    BY <1>3, <2>2, <2>3
<1>5. CASE UNCHANGED filled
  BY <1>4, <1>5, LifeStutters
<1>6. CASE ~UNCHANGED filled
  <2>1. PICK t \in Ids(p) : t = results[i].task
    BY <1>1 DEF Taken, Mine
  <2>2. filled' = filled \union {t} /\ results[i].kind = "final"
    BY <1>1, <1>6, <2>1 DEF Taken
  <2>3. results[i] = Result("final", t) /\ t \in Tasks
    BY <1>2, <2>1, <2>2, ResultFacts, AsksFacts DEF Typed
  <2>4. Finals(t) > 0
    BY <1>1, <2>3, TakeCounts DEF Taken
  <2>5. Places(t) = 0 /\ t \notin filled
    BY <2>4 DEF DeliveryInv, Delivery
  <2>6. Stage(t) = "over"
    BY <1>3, <2>5, StageIs
  <2>7. LifeStage[t] = "over"
    BY <2>3, <2>6 DEF LifeStage
  <2>8. UNCHANGED LifeStage
    BY <1>4, LifeStays DEF LifeStage
  <2>9. Life!Get(p, t)
    BY <1>4, <2>1, <2>2, <2>5, <2>7, <2>8 DEF Life!Get, Left, LifeStage
  <2> QED
    BY <2>1, <2>9 DEF Life!Next
<1> QED
  BY <1>5, <1>6

(* stop() of a reader that has everything.                                 *)
LEMMA LifeServe ==
    ASSUME TypeInv, CountInv, NEW p \in Readers, StopWaiting(p)
    PROVE  Life!Next \/ UNCHANGED Life!lifeVars
<1>1. /\ UNCHANGED <<queue, deferred, hand, slots, filled>> /\ reader[p] = "stopping"
      /\ Goto(p, "cancelling") \/ (~HasNext(p) /\ Goto(p, "done"))
  BY DEF StopWaiting, loopVars
<1>2. \A t \in Tasks : Stage(t)' = Stage(t)
  BY <1>1, LifeReaderStays
<1>3. CASE Goto(p, "cancelling")
  BY <1>1, <1>2, <1>3, LeftStays, LifeStutters
<1>4. CASE ~HasNext(p) /\ Goto(p, "done")
  <2>1. received[p] = Len(Asks[p])
    <3>1. received[p] \in 0..Len(Asks[p]) /\ Len(Asks[p]) \in Nat
      BY TypeFacts, AsksFacts DEF TypeInv, Typed
    <3> QED
      BY <1>4, <3>1 DEF HasNext
  <2>2. Ids(p) \subseteq filled
    BY <2>1, AllCounted
  <2>3. Left' = Left \union {p} /\ p \notin Left
    BY <1>1, <1>4, LeftGrows DEF Left
  <2>4. UNCHANGED LifeStage
    BY <1>2, LifeStays DEF LifeStage
  <2>5. Life!Serve(p)
    BY <1>1, <2>2, <2>3, <2>4 DEF Life!Serve, Left, LifeStage
  <2> QED
    BY <2>5 DEF Life!Next
<1> QED
  BY <1>1, <1>3, <1>4

(* stop() of a reader that has not: what is in the queues is dropped.      *)
LEMMA LifeAbandon ==
    ASSUME TypeInv, DeliveryInv, NEW p \in Readers, StopCancel(p)
    PROVE  Life!Next
<1> DEFINE S == {t \in Ids(p) : Stage(t) = "queued" /\ Places(t)' = 0}
<1>1. /\ UNCHANGED <<hand, slots, filled>> /\ reader[p] = "cancelling"
      /\ PostCancels(Ids(p)) /\ Goto(p, "done") /\ TypeOK
  BY DEF StopCancel, loopVars, TypeInv
<1>2. \A r \in Readers : reader'[r] = IF r = p THEN "done" ELSE reader[r]
  BY <1>1, TypeFacts DEF Goto, Typed
<1>3. ASSUME NEW t \in Tasks
      PROVE  OnSlots(t)' = OnSlots(t) /\ InHand(t)' = InHand(t)
  BY <1>1, OnSlotsSame DEF InHand
<1>4. ASSUME NEW t \in Ids(p)
      PROVE  Stage(t)' = IF t \in S THEN "over" ELSE Stage(t)
  <2>1. t \in Tasks
    BY AsksFacts
  <2>2. Count(queue', Ask(t)) = 0 /\ Count(deferred', Ask(t)) = 0
    BY <1>1, PostCancelsFacts
  <2>3. /\ Count(queue, Ask(t)) \in Nat /\ Count(deferred, Ask(t)) \in Nat
        /\ InHand(t) \in Nat /\ Cardinality(OnSlots(t)) \in Nat
    BY PlacesType
  <2>4. Places(t)' = InHand(t) + Cardinality(OnSlots(t))
    BY <1>3, <2>1, <2>2, <2>3, PlacesNext
  <2>5. Places(t)' > 0 => Places(t) > 0
    BY <2>3, <2>4, PlacesSum
  <2>6. OnSlots(t) # {} => Places(t)' > 0
    BY <2>3, <2>4, OnSlotsFinite
  <2>7. Places(t)' > 0 \/ Places(t)' = 0
    BY <2>3, <2>4
  <2>8. CASE Places(t)' > 0
    BY <1>3, <2>1, <2>5, <2>8, StageIs
  <2>9. CASE Places(t)' = 0
    BY <1>1, <1>2, <2>6, <2>9, StageIs
  <2> QED
    BY <2>7, <2>8, <2>9
<1>5. ASSUME NEW t \in Tasks \ Ids(p) PROVE Stage(t)' = Stage(t)
  <2>1. PICK r \in Readers : t \in Ids(r)
    BY DEF Tasks
  <2>2. /\ Count(queue', Ask(t)) = Count(queue, Ask(t))
        /\ Count(deferred', Ask(t)) = Count(deferred, Ask(t))
    BY <1>1, PostCancelsFacts
  <2>3. Places(t)' = Places(t)
    BY <1>3, <2>2, PlacesSum, PlacesNext
  <2> QED
    BY <1>2, <1>3, <1>5, <2>1, <2>3, StageKept
<1>6. \E U \in SUBSET Ids(p) : /\ \A t \in U : Stage(t) = "queued"
                               /\ StageMoves(U, "over")
  BY <1>4, <1>5 DEF StageMoves
<1>7. PICK U \in SUBSET Ids(p) : /\ \A t \in U : Stage(t) = "queued"
                                 /\ StageMoves(U, "over")
  BY <1>6
<1>8. Life!Move(U, "over")
  BY <1>7, LifeMoves
<1>9. \A u \in U : [t \in Tasks |-> Stage(t)][u] = "queued"
  BY <1>7, AsksFacts, LifeStageIs
<1>10. Left' = Left \union {p} /\ p \notin Left
  BY <1>1, LeftGrows DEF Left
<1>11. Life!Abandon(p, U)
  BY <1>1, <1>7, <1>8, <1>9, <1>10 DEF Life!Abandon, Left
<1> QED
  BY <1>7, <1>11 DEF Life!Next

LEMMA LifeNext ==
    TypeInv /\ DeliveryInv /\ CountInv /\ [Next]_vars => [Life!Next]_(Life!lifeVars)
<1> SUFFICES ASSUME TypeInv, DeliveryInv, CountInv, [Next]_vars
             PROVE  Life!Next \/ UNCHANGED Life!lifeVars
  OBVIOUS
<1>1. CASE \/ StartLoop \/ TakeControl \/ RunControl \/ LeaveControl \/ PausedWait
           \/ PopTask \/ Defer \/ ProcessNext \/ StartUpdate \/ Decode \/ EndUpdate
           \/ WaitOrEnd \/ Wake \/ Heartbeat \/ ReleaseSlots
  <2>1. ASSUME NEW t \in Tasks PROVE Moved(t) /\ UNCHANGED <<filled, reader>>
    BY <1>1, LoopMoves
  <2>2. UNCHANGED <<filled, reader>>
    BY <1>1 DEF StartLoop, TakeControl, RunControl, LeaveControl, PausedWait, PopTask, Defer,
       ProcessNext, StartUpdate, Decode, EndUpdate, WaitOrEnd, Wake, Heartbeat, ReleaseSlots,
       readerVars
  <2> QED
    BY <2>1, <2>2, MovedPlaces, LifeLoop
<1>2. CASE ProcessCancel
  <2>1. /\ hand = Cancel(hand.task)
        /\ \/ UNCHANGED slots
           \/ \E s \in Slots :
                 /\ slots[s].state = "busy"
                 /\ \A q \in Slots : /\ slots'[q].id = slots[q].id
                                     /\ slots'[q].state = IF q = s THEN "released"
                                                          ELSE slots[q].state
    BY <1>2, CancelFacts
  <2>2. UNCHANGED <<queue, deferred, filled, reader>> /\ hand' = NoMessage
    BY <1>2 DEF ProcessCancel, readerVars
  <2>3. \A t \in Tasks : InHand(t)' = InHand(t)
    BY <2>1, <2>2, MessagesDiffer DEF InHand
  <2>4. CASE UNCHANGED slots
    <3>1. ASSUME NEW t \in Tasks PROVE Places(t)' = Places(t) /\ OnSlots(t)' = OnSlots(t)
      BY <2>2, <2>3, <2>4, OnSlotsSame, PlacesSum, PlacesNext
    <3> QED
      BY <2>2, <3>1, LifeLoop
  <2> QED
    BY <2>1, <2>2, <2>3, <2>4, LifeSlotStops
<1>3. ASSUME NEW s \in Slots, GoOn(s)
      PROVE  Life!Next \/ UNCHANGED Life!lifeVars
  <2>1. \A q \in Slots : slots'[q].id = slots[q].id /\ slots'[q].state = slots[q].state
    BY <1>3, GoOnFacts
  <2>2. UNCHANGED <<queue, deferred, hand, filled, reader>>
    BY <1>3 DEF GoOn, readerVars
  <2>3. ASSUME NEW t \in Tasks PROVE Places(t)' = Places(t) /\ OnSlots(t)' = OnSlots(t)
    <3>1. OnSlots(t)' = OnSlots(t)
      BY <2>1, OnSlotsSame
    <3> QED
      BY <2>2, <3>1, PlacesSum, PlacesNext DEF InHand
  <2> QED
    BY <2>2, <2>3, LifeLoop
<1>4. ASSUME NEW s \in Slots, Finish(s) \/ FailSlot(s)
      PROVE  Life!Next \/ UNCHANGED Life!lifeVars
  <2>1. \A q \in Slots : /\ slots'[q].id = slots[q].id
                         /\ slots'[q].state = IF q = s THEN "released" ELSE slots[q].state
    BY <1>4, EndSlotFacts
  <2>2. UNCHANGED <<queue, deferred, hand, filled, reader>>
    BY <1>4 DEF Finish, FailSlot, readerVars
  <2>3. CASE slots[s].state = "busy"
    BY <2>1, <2>2, <2>3, LifeSlotStops DEF InHand
  <2>4. CASE slots[s].state # "busy"
    <3>1. ASSUME NEW t \in Tasks PROVE Places(t)' = Places(t) /\ OnSlots(t)' = OnSlots(t)
      <4>1. OnSlots(t)' = OnSlots(t)
        BY <2>1, <2>4, OnSlotsSame
      <4> QED
        BY <2>2, <4>1, PlacesSum, PlacesNext DEF InHand
    <3> QED
      BY <2>2, <3>1, LifeLoop
  <2> QED
    BY <2>3, <2>4
<1>5. ASSUME NEW p \in Readers, Register(p) \/ GiveUp(p) \/ AbortDecode(p)
      PROVE  UNCHANGED Life!lifeVars
  <2>1. /\ UNCHANGED <<queue, deferred, hand, slots, filled>>
        /\ \/ reader[p] = "new" /\ Goto(p, "registered")
           \/ reader[p] \in {"waiting", "aborting"} /\ Goto(p, "stopping")
           \/ reader[p] \in {"waiting", "aborting"} /\ Goto(p, "aborting")
    BY <1>5 DEF Register, GiveUp, AbortDecode, loopVars
  <2> QED
    BY <2>1, LifeReaderStays, LeftStays, LifeStutters
<1>6. CASE (\E f \in {"park", "unpark"} : PostControl(f)) \/ Terminate \/ UNCHANGED vars
  <2>1. UNCHANGED <<queue, deferred, hand, slots, filled, reader>>
    BY <1>6 DEF PostControl, Terminate, vars, loopVars, readerVars
  <2>2. ASSUME NEW t \in Tasks PROVE Places(t)' = Places(t) /\ OnSlots(t)' = OnSlots(t)
    BY <2>1, QuietMoves, MovedPlaces
  <2> QED
    BY <2>1, <2>2, LifeLoop
<1> QED
  BY <1>1, <1>2, <1>3, <1>4, <1>5, <1>6, LifeLaunch, LifePost, LifeRecv, LifeServe, LifeAbandon
     DEF Next, LoopStep, ReaderStep

LEMMA LifeInit == Init => Life!Init
<1> SUFFICES ASSUME Init PROVE Life!Init
  OBVIOUS
<1>1. ASSUME NEW t \in Tasks PROVE Stage(t) = "unposted"
  <2>1. PICK r \in Readers : t \in Ids(r)
    BY DEF Tasks
  <2>2. reader[r] = "new"
    BY DEF Init
  <2>3. Places(t) = 0
    BY <2>1, <2>2, DeliveryInit DEF DeliveryInv, Delivery
  <2> QED
    BY <2>1, <2>2, <2>3, StageIs
<1>2. [t \in Tasks |-> Stage(t)] = [t \in Life!Tasks |-> "unposted"]
  BY <1>1, LifeTasks
<1>3. filled = {} /\ {r \in Readers : reader[r] = "done"} = {}
  BY DEF Init
<1> QED
  BY <1>2, <1>3 DEF Life!Init

(* The two queues, the hand, the slots and the result queue implement what *)
(* a request is promised: each task is run at most once and is not revived *)
(* when it is over, its last result is read once and only after that, and  *)
(* what a request that leaves early can take with it is what no slot has   *)
(* begun.                                                                  *)
THEOREM QueueKeepsRequestLife == Spec => ImplementsRequestLife
BY CountInvariance, LifeInit, LifeNext, PTL DEF Spec, ImplementsRequestLife, Life!Spec
=============================================================================

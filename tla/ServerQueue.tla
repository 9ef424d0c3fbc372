----------------------------- MODULE ServerQueue -----------------------------
(***************************************************************************)
(* One model's task loop: server_queue and server_response                 *)
(* (examples/server/server-queue.cpp), the slots the loop drives           *)
(* (server-context.cpp) and the HTTP threads that post tasks and read      *)
(* results (server_response_reader, server.cpp).                           *)
(*                                                                         *)
(* An action is one critical section of mutex_tasks or mutex_results, or   *)
(* the loop thread's work between two of them.  The loop owns the slots.   *)
(***************************************************************************)
EXTENDS Naturals, Sequences, SequencesExt, FiniteSets, SubSequence

CONSTANTS Readers,      \* HTTP threads, one request each
          Asks,         \* the tasks of each reader's request, in order
          Slots,
          Pin,          \* the id_slot each task asks for
          AnySlot,      \* id_slot -1
          NoTask,       \* id_task -1
          Leavers,      \* readers whose client may go away
          MaxSteps,     \* decode steps of a task before it must finish
          KvUnified,    \* slots share one KV ring, which may be full
          Embeds,       \* the embedding tasks, which the ring does not gate
          MayFail,      \* what may fail: a "request", a "decode", a "park"
          HotSwap,      \* a router parks and unparks this model
          MayStop       \* the process may be told to terminate

Ids(r) == ToSet(Asks[r])
Tasks == UNION {Ids(r) : r \in Readers}

ASSUME QueueConstants ==
    /\ IsFiniteSet(Slots) /\ Slots # {} /\ AnySlot \notin Slots
    /\ \A r \in Readers : Asks[r] \in Seq(Ids(r)) /\ Asks[r] # <<>>
                         /\ Len(Asks[r]) = Cardinality(Ids(r))
    /\ \A r, q \in Readers : r # q => Ids(r) \cap Ids(q) = {}
    /\ NoTask \notin Tasks /\ Tasks \subseteq DOMAIN Pin
    /\ \A r \in Readers : \A t, u \in Ids(r) : Pin[t] = Pin[u] /\ (t \in Embeds <=> u \in Embeds)
    /\ Leavers \subseteq Readers /\ MaxSteps \in Nat /\ Embeds \subseteq Tasks
    /\ {KvUnified, HotSwap, MayStop} \subseteq BOOLEAN
    /\ MayFail \subseteq {"request", "decode", "park"}

VARIABLES queue,     \* queue_tasks
          deferred,  \* queue_tasks_deferred
          control,   \* queue_control, of "park" and "unpark"
          paused, running, ended,
          loop,      \* where the loop thread is
          hand,      \* the task callback_new_task was called with
          slots,     \* state and id_task of each slot, and its steps so far
          todo,      \* the slots the pass over a decoded batch has still to visit
          abort,     \* stop_internal_decode
          waiting,   \* waiting_task_ids
          results,   \* queue_results
          reader,    \* where each HTTP thread is
          received,  \* received_count of each reader
          filled,    \* tasks whose last result their reader holds
          swapper    \* what the router waits for in fut.get(), or "idle"

loopVars   == <<loop, hand, slots, todo>>
readerVars == <<reader, received, filled>>
vars == <<queue, deferred, control, paused, running, ended, loop, hand, slots, todo,
          abort, waiting, results, reader, received, filled, swapper>>

(* server_task and server_task_result.  An error result ends its request,  *)
(* a last one its task.                                                    *)
Ask(t)    == [kind |-> "ask", task |-> t]
Cancel(t) == [kind |-> "cancel", task |-> t]
NextResponse == [kind |-> "next", task |-> NoTask]
Result(k, t) == [kind |-> k, task |-> t]
Messages == {Ask(t) : t \in Tasks} \union {Cancel(t) : t \in Tasks} \union {NextResponse}
NoMessage == [kind |-> "none", task |-> NoTask]

(* A slot is "busy" from the launch of its task to release() (is_processing*)
(* and slot.task set), "released" until release_slots, then "free"         *)
(* (available).  Its id_task outlives the task.                            *)
FreeSlots == {s \in Slots : slots[s].state = "free"}
BusySlots == {s \in Slots : slots[s].state = "busy"}
OwnerOf(t) == CHOOSE r \in Readers : t \in Ids(r)

(* A --hot-model is parked before its loop starts, the -m model is not.   *)
Init ==
    /\ queue = <<>> /\ deferred = <<>> /\ control = <<>>
    /\ paused \in {FALSE, HotSwap} /\ running = FALSE /\ ended = FALSE
    /\ loop = "start" /\ hand = NoMessage
    /\ slots = [s \in Slots |-> [state |-> "free", id |-> NoTask, steps |-> 0]]
    /\ todo = {} /\ abort = FALSE
    /\ waiting = {} /\ results = <<>>
    /\ reader = [r \in Readers |-> "new"]
    /\ received = [r \in Readers |-> 0]
    /\ filled = {}
    /\ swapper = "idle"

-----------------------------------------------------------------------------
(* A definition named X_Slip... is X with a plausible coding slip; nothing *)
(* uses it but the mutation checks.                                        *)

(* server_response::send: a result nobody waits for is dropped.            *)
Send(k, t) == results' = IF t \in waiting THEN Append(results, Result(k, t)) ELSE results

(* server_queue::notify_slot_changed, and the pump: all deferred tasks go  *)
(* back to the end of the queue.                                           *)
NotifySlotChanged_SlipFirstOnly ==
    /\ queue' = IF deferred = <<>> THEN queue ELSE Append(queue, Head(deferred))
    /\ deferred' = <<>>

NotifySlotChanged_SlipKept ==
    /\ queue' = queue \o deferred
    /\ UNCHANGED deferred

NotifySlotChanged ==
    /\ queue' = queue \o deferred
    /\ deferred' = <<>>

(* server_queue::post of the cancels of stop(): each one first drops its   *)
(* target from both queues, then goes to the front.                        *)
PostCancels_SlipNoCleanup(S) ==
    /\ queue' = SetToSeq({Cancel(t) : t \in S}) \o queue
    /\ UNCHANGED deferred

PostCancels(S) ==
    LET Kept(q) == {i \in DOMAIN q : ~(q[i].kind = "ask" /\ q[i].task \in S)}
    IN /\ queue' = SetToSeq({Cancel(t) : t \in S}) \o SubSequence(queue, Kept(queue))
       /\ deferred' = SubSequence(deferred, Kept(deferred))

(* The loop ends: control functions not run yet break their promises.      *)
EndLoop ==
    /\ loop' = "ended"
    /\ control' = <<>>
    /\ swapper' = IF control = <<>> THEN swapper ELSE "idle"

-----------------------------------------------------------------------------
(* The HTTP threads: post_tasks (two locks), next, stop (two locks).       *)

HasNext(r) == received[r] < Len(Asks[r])

Goto(r, p) == reader' = [reader EXCEPT ![r] = p]

(* A request of a hot-swapped model holds a lease: it starts only while    *)
(* the model is on the cards (LeaseOnCards of HotSwapRouter).              *)
Register(r) ==
    /\ reader[r] = "new" /\ ~paused /\ swapper = "idle"
    /\ waiting' = waiting \union Ids(r)
    /\ Goto(r, "registered")
    /\ UNCHANGED <<queue, deferred, control, paused, running, ended, loopVars, abort,
                   results, received, filled, swapper>>

Post(r) ==
    /\ reader[r] = "registered"
    /\ queue' = queue \o [i \in DOMAIN Asks[r] |-> Ask(Asks[r][i])]
    /\ Goto(r, "waiting")
    /\ UNCHANGED <<deferred, control, paused, running, ended, loopVars, abort,
                   waiting, results, received, filled, swapper>>

(* recv_with_timeout takes the first result of this reader's tasks; an     *)
(* error and the last of all results lead to stop().                       *)
Mine(r, x) == x.task \in Ids(r)

Recv(r) ==
    LET i == SelectInSeq(results, LAMBDA x : Mine(r, x))
        last == results[i].kind = "final"
    IN /\ reader[r] = "waiting" /\ i # 0
       /\ results' = RemoveAt(results, i)
       /\ received' = IF last THEN [received EXCEPT ![r] = @ + 1] ELSE received
       /\ filled' = IF last THEN filled \union {results[i].task} ELSE filled
       /\ \/ /\ results[i].kind # "error" /\ received'[r] < Len(Asks[r])
             /\ UNCHANGED reader
          \/ /\ results[i].kind = "error" \/ received'[r] = Len(Asks[r])
             /\ Goto(r, "stopping")
          \/ \* the result cannot be written to the client
             /\ r \in Leavers /\ results[i].kind # "error"
             /\ Goto(r, "stopping")
       /\ UNCHANGED <<queue, deferred, control, paused, running, ended, loopVars, abort,
                      waiting, swapper>>

(* A second passes without a result and the client is gone.  The handler   *)
(* looks at the slots (cancel_active_decode) before it stops, a stream     *)
(* that has begun stops at once.                                           *)
GiveUp(r) ==
    /\ reader[r] = "waiting" /\ r \in Leavers
    /\ ~\E i \in DOMAIN results : Mine(r, results[i])
    /\ \/ Goto(r, "stopping")
       \/ /\ BusySlots # {} /\ \A s \in BusySlots : slots[s].id \in Ids(r)
          /\ Goto(r, "aborting")
    /\ UNCHANGED <<queue, deferred, control, paused, running, ended, loopVars, abort,
                   waiting, results, received, filled, swapper>>

(* llama_decode_stop(), after the look: the slots may have changed hands.  *)
AbortDecode(r) ==
    /\ reader[r] = "aborting"
    /\ abort' = TRUE
    /\ Goto(r, "stopping")
    /\ UNCHANGED <<queue, deferred, control, paused, running, ended, loopVars,
                   waiting, results, received, filled, swapper>>

StopWaiting(r) ==
    /\ reader[r] = "stopping"
    /\ waiting' = waiting \ Ids(r)
    /\ Goto(r, IF HasNext(r) THEN "cancelling" ELSE "done")
    /\ UNCHANGED <<queue, deferred, control, paused, running, ended, loopVars, abort,
                   results, received, filled, swapper>>

StopCancel(r) ==
    /\ reader[r] = "cancelling"
    /\ PostCancels(Ids(r))
    /\ Goto(r, "done")
    /\ UNCHANGED <<control, paused, running, ended, loopVars, abort,
                   waiting, results, received, filled, swapper>>

-----------------------------------------------------------------------------
(* The loop thread: start_loop.                                            *)

StartLoop ==
    /\ loop = "start"
    /\ running' = TRUE
    /\ loop' = "control"
    /\ UNCHANGED <<queue, deferred, control, paused, ended, hand, slots, todo, abort,
                   waiting, results, readerVars, swapper>>

(* run_control takes a function; pxa_hs_park and pxa_hs_unpark run it.     *)
TakeControl ==
    /\ loop = "control" /\ control # <<>>
    /\ loop' = Head(control)
    /\ control' = Tail(control)
    /\ UNCHANGED <<queue, deferred, paused, running, ended, hand, slots, todo, abort,
                   waiting, results, readerVars, swapper>>

RunControl ==
    /\ loop \in {"park", "unpark"}
    /\ paused' \in {loop = "park"} \union (IF "park" \in MayFail THEN {paused} ELSE {})
    /\ swapper' = "idle"
    /\ loop' = "control"
    /\ UNCHANGED <<queue, deferred, control, running, ended, hand, slots, todo, abort,
                   waiting, results, readerVars>>

LeaveControl_SlipNotPaused ==
    /\ loop = "control" /\ control = <<>>
    /\ loop' = IF paused /\ queue = <<>> THEN "paused" ELSE "drain"
    /\ UNCHANGED <<queue, deferred, control, paused, running, ended, hand, slots, todo,
                   abort, waiting, results, readerVars, swapper>>

LeaveControl ==
    /\ loop = "control" /\ control = <<>>
    /\ loop' = IF paused THEN "paused" ELSE "drain"
    /\ UNCHANGED <<queue, deferred, control, paused, running, ended, hand, slots, todo,
                   abort, waiting, results, readerVars, swapper>>

PausedWait ==
    /\ loop = "paused"
    /\ \/ /\ ~running
          /\ EndLoop
       \/ /\ running /\ control # <<>>
          /\ loop' = "control"
          /\ UNCHANGED <<control, swapper>>
    /\ UNCHANGED <<queue, deferred, paused, running, ended, hand, slots, todo, abort,
                   waiting, results, readerVars>>

PopTask ==
    /\ loop = "drain"
    /\ IF queue = <<>> THEN loop' = "release" /\ UNCHANGED <<queue, hand>>
       ELSE loop' = "process" /\ hand' = Head(queue) /\ queue' = Tail(queue)
    /\ UNCHANGED <<deferred, control, paused, running, ended, slots, todo, abort,
                   waiting, results, readerVars, swapper>>

-----------------------------------------------------------------------------
(* process_single_task of the task in hand.                                *)

Admitted(t) == IF Pin[t] = AnySlot THEN FreeSlots ELSE FreeSlots \cap {Pin[t]}

(* kv_unified_admit gates every task but an embedding.  What the ring holds*)
(* is not modelled: it may have no room for t even when every slot is idle,*)
(* for cells shared with a fork, and the system prompt's, outlive the slots*)
(* that are reclaimed.                                                     *)
RingWaits(t) == KvUnified /\ t \notin Embeds

(* The slot is not there or not available, or the ring has no room.        *)
Refused(t) == Admitted(t) = {} \/ RingWaits(t)

Defer ==
    /\ loop = "process" /\ hand.kind = "ask" /\ Refused(hand.task)
    /\ deferred' = Append(deferred, hand)
    /\ hand' = NoMessage /\ loop' = "drain"
    /\ UNCHANGED <<queue, control, paused, running, ended, slots, todo, abort,
                   waiting, results, readerVars, swapper>>

(* launch_slot_with_task; if it fails the slot keeps the id and stays free.*)
Launch(s) ==
    /\ loop = "process" /\ hand.kind = "ask" /\ s \in Admitted(hand.task)
    /\ \/ /\ slots' = [slots EXCEPT ![s] = [state |-> "busy", id |-> hand.task, steps |-> 0]]
          /\ UNCHANGED results
       \/ /\ "request" \in MayFail
          /\ slots' = [slots EXCEPT ![s] = [state |-> "free", id |-> hand.task, steps |-> 0]]
          /\ Send("error", hand.task)
    /\ hand' = NoMessage /\ loop' = "drain"
    /\ UNCHANGED <<queue, deferred, control, paused, running, ended, todo, abort,
                   waiting, readerVars, swapper>>

(* slot.release(): also clears the stop flag.                              *)
Released(s) == [slots EXCEPT ![s].state = "released", ![s].steps = 0]

ProcessCancel ==
    LET S == {s \in BusySlots : slots[s].id = hand.task}
    IN /\ loop = "process" /\ hand.kind = "cancel"
       /\ \/ \E s \in S : slots' = Released(s) /\ abort' = FALSE
          \/ S = {} /\ UNCHANGED <<slots, abort>>
       /\ hand' = NoMessage /\ loop' = "drain"
       /\ UNCHANGED <<queue, deferred, control, paused, running, ended, todo,
                      waiting, results, readerVars, swapper>>

ProcessNext ==
    /\ loop = "process" /\ hand = NextResponse
    /\ hand' = NoMessage /\ loop' = "drain"
    /\ UNCHANGED <<queue, deferred, control, paused, running, ended, slots, todo, abort,
                   waiting, results, readerVars, swapper>>

-----------------------------------------------------------------------------
(* update_slots.                                                           *)

(* The stop flag is cleared; release_slots frees and notifies.             *)
ReleaseSlots_SlipNoNotify ==
    /\ loop = "release"
    /\ abort' = FALSE
    /\ slots' = [s \in Slots |-> IF slots[s].state = "released"
                                 THEN [slots[s] EXCEPT !.state = "free"] ELSE slots[s]]
    /\ loop' = "update"
    /\ UNCHANGED <<queue, deferred, control, paused, running, ended, hand, todo,
                   waiting, results, readerVars, swapper>>

ReleaseSlots ==
    /\ loop = "release"
    /\ abort' = FALSE
    /\ slots' = [s \in Slots |-> IF slots[s].state = "released"
                                 THEN [slots[s] EXCEPT !.state = "free"] ELSE slots[s]]
    /\ IF slots' # slots THEN NotifySlotChanged ELSE UNCHANGED <<queue, deferred>>
    /\ loop' = "update"
    /\ UNCHANGED <<control, paused, running, ended, hand, todo,
                   waiting, results, readerVars, swapper>>

(* Nothing to do when every slot is idle; otherwise NEXT_RESPONSE keeps    *)
(* the loop turning.                                                       *)
StartUpdate ==
    /\ loop = "update"
    /\ IF FreeSlots = Slots THEN loop' = "wait" /\ UNCHANGED queue
       ELSE loop' = "decode" /\ queue' = Append(queue, NextResponse)
    /\ UNCHANGED <<deferred, control, paused, running, ended, hand, slots, todo, abort,
                   waiting, results, readerVars, swapper>>

(* llama_decode of a chunk of the batch: done, aborted by the stop flag, or failed.   *)
(* A failure is charged to every slot, the idle ones included, unless the  *)
(* ring is shared.                                                         *)
Decode ==
    /\ loop = "decode"
    /\ \/ loop' = "sample" /\ todo' = BusySlots
       \/ loop' = "fail" /\ todo' = BusySlots /\ abort
       \/ loop' = "fail" /\ todo' = (IF KvUnified THEN BusySlots ELSE Slots)
          /\ "decode" \in MayFail
    /\ UNCHANGED <<queue, deferred, control, paused, running, ended, hand, slots, abort,
                   waiting, results, readerVars, swapper>>

(* A slot of the decoded batch goes on, with or without a partial result,  *)
(* or ends its task with the last result or an error.                      *)
GoOn_SlipNoLimit(s) ==
    /\ loop = "sample" /\ s \in todo
    /\ slots' = [slots EXCEPT ![s].steps = @ + 1]
    /\ todo' = todo \ {s}
    /\ Send("partial", slots[s].id) \/ UNCHANGED results
    /\ UNCHANGED <<queue, deferred, control, paused, running, ended, loop, hand, abort,
                   waiting, readerVars, swapper>>

GoOn(s) ==
    /\ loop = "sample" /\ s \in todo /\ slots[s].steps < MaxSteps
    /\ slots' = [slots EXCEPT ![s].steps = @ + 1]
    /\ todo' = todo \ {s}
    /\ Send("partial", slots[s].id) \/ UNCHANGED results
    /\ UNCHANGED <<queue, deferred, control, paused, running, ended, loop, hand, abort,
                   waiting, readerVars, swapper>>

Finish_SlipNotReleased(s) ==
    /\ loop = "sample" /\ s \in todo
    /\ Send("final", slots[s].id)
    /\ todo' = todo \ {s} /\ abort' = FALSE
    /\ UNCHANGED <<queue, deferred, control, paused, running, ended, loop, hand, slots,
                   waiting, readerVars, swapper>>

Finish(s) ==
    /\ loop = "sample" /\ s \in todo
    /\ \/ Send("final", slots[s].id)
       \/ Send("error", slots[s].id) /\ "request" \in MayFail
    /\ slots' = Released(s) /\ todo' = todo \ {s} /\ abort' = FALSE
    /\ UNCHANGED <<queue, deferred, control, paused, running, ended, loop, hand,
                   waiting, readerVars, swapper>>

(* The task that had this slot last gets an error, if it is waited for.    *)
FailSlot(s) ==
    /\ loop = "fail" /\ s \in todo
    /\ Send("error", slots[s].id)
    /\ slots' = Released(s) /\ todo' = todo \ {s} /\ abort' = FALSE
    /\ UNCHANGED <<queue, deferred, control, paused, running, ended, loop, hand,
                   waiting, readerVars, swapper>>

(* The batch has another chunk for the slots still at work, or is over; a  *)
(* failed chunk is the last.                                               *)
EndUpdate ==
    /\ loop \in {"sample", "fail"} /\ todo = {}
    /\ \/ loop' = "wait"
       \/ loop = "sample" /\ BusySlots # {} /\ loop' = "decode"
    /\ UNCHANGED <<queue, deferred, control, paused, running, ended, hand, slots, todo, abort,
                   waiting, results, readerVars, swapper>>

-----------------------------------------------------------------------------
(* The wait at the end of a turn, under mutex_tasks.                       *)

WaitOrEnd_SlipEndsAtOnce ==
    /\ loop = "wait"
    /\ \/ ~running /\ EndLoop
       \/ /\ running
          /\ loop' = IF queue # <<>> THEN "control"
                     ELSE IF deferred # <<>> THEN "heartbeat" ELSE "asleep"
          /\ UNCHANGED <<control, swapper>>
    /\ UNCHANGED <<queue, deferred, paused, running, ended, hand, slots, todo, abort,
                   waiting, results, readerVars>>

WaitOrEnd_SlipNoHeartbeat ==
    /\ loop = "wait"
    /\ \/ /\ queue # <<>>
          /\ loop' = "control" /\ UNCHANGED <<control, swapper>>
       \/ /\ queue = <<>> /\ ~running
          /\ EndLoop
       \/ /\ queue = <<>> /\ running
          /\ loop' = "asleep"
          /\ UNCHANGED <<control, swapper>>
    /\ UNCHANGED <<queue, deferred, paused, running, ended, hand, slots, todo, abort,
                   waiting, results, readerVars>>

WaitOrEnd ==
    /\ loop = "wait"
    /\ \/ /\ queue # <<>>
          /\ loop' = "control" /\ UNCHANGED <<control, swapper>>
       \/ /\ queue = <<>> /\ ~running
          /\ EndLoop
       \/ /\ queue = <<>> /\ running
          /\ loop' = IF deferred # <<>> THEN "heartbeat" ELSE "asleep"
          /\ UNCHANGED <<control, swapper>>
    /\ UNCHANGED <<queue, deferred, paused, running, ended, hand, slots, todo, abort,
                   waiting, results, readerVars>>

Woken_SlipTasksOnly == queue # <<>> \/ control # <<>>

Woken == queue # <<>> \/ control # <<>> \/ ~running

Wake ==
    /\ loop = "asleep" /\ Woken
    /\ loop' = "control"
    /\ UNCHANGED <<queue, deferred, control, paused, running, ended, hand, slots, todo, abort,
                   waiting, results, readerVars, swapper>>

(* Woken or 500 ms later, deferred tasks are pumped back if the queue is   *)
(* empty and a slot is available; a shared ring must have headroom too.    *)
Heartbeat ==
    LET pumps == queue = <<>> /\ deferred # <<>> /\ FreeSlots # {}
    IN /\ loop = "heartbeat"
       /\ \/ pumps /\ NotifySlotChanged
          \/ (~pumps \/ KvUnified) /\ UNCHANGED <<queue, deferred>>
       /\ loop' = "control"
       /\ UNCHANGED <<control, paused, running, ended, hand, slots, todo, abort,
                      waiting, results, readerVars, swapper>>

-----------------------------------------------------------------------------
(* post_control by the router (pxa_hs_swap_ops::run), which swaps a model  *)
(* only when its leases are back: after terminate() the function is        *)
(* dropped and its promise broken.                                         *)
Drained == \A r \in Readers : reader[r] \in {"new", "done"}

PostControl_SlipAfterEnd(f) ==
    /\ HotSwap /\ swapper = "idle" /\ Drained
    /\ f = IF paused THEN "unpark" ELSE "park"
    /\ control' = Append(control, f) /\ swapper' = f
    /\ UNCHANGED <<queue, deferred, paused, running, ended, loopVars, abort,
                   waiting, results, readerVars>>

PostControl(f) ==
    /\ HotSwap /\ swapper = "idle" /\ Drained
    /\ f = IF paused THEN "unpark" ELSE "park"
    /\ ~ended
    /\ control' = Append(control, f) /\ swapper' = f
    /\ UNCHANGED <<queue, deferred, paused, running, ended, loopVars, abort,
                   waiting, results, readerVars>>

(* terminate(), from the signal handler.                                   *)
Terminate ==
    /\ MayStop /\ ~ended
    /\ running' = FALSE /\ ended' = TRUE
    /\ UNCHANGED <<queue, deferred, control, paused, loopVars, abort,
                   waiting, results, readerVars, swapper>>

-----------------------------------------------------------------------------
LoopStep ==
    \/ StartLoop \/ TakeControl \/ RunControl \/ LeaveControl \/ PausedWait
    \/ PopTask \/ Defer \/ ProcessCancel \/ ProcessNext
    \/ \E s \in Slots : Launch(s) \/ GoOn(s) \/ Finish(s) \/ FailSlot(s)
    \/ ReleaseSlots \/ StartUpdate \/ Decode \/ EndUpdate
    \/ WaitOrEnd \/ Wake \/ Heartbeat

ReaderStep(r) ==
    \/ Post(r) \/ Recv(r) \/ AbortDecode(r) \/ StopWaiting(r) \/ StopCancel(r)

Next ==
    \/ LoopStep
    \/ \E r \in Readers : Register(r) \/ ReaderStep(r) \/ GiveUp(r)
    \/ \E f \in {"park", "unpark"} : PostControl(f)
    \/ Terminate

Spec == Init /\ [][Next]_vars

(* Threads run; a decode returns; the timed waits time out.  No client has *)
(* to arrive or to leave, and no swap or signal has to come.               *)
Fairness == WF_vars(LoopStep) /\ \A r \in Readers : WF_vars(ReaderStep(r))

FairSpec == Spec /\ Fairness

-----------------------------------------------------------------------------
(* Properties.                                                             *)

(* Every variable stays in its type: no reader counts more last results    *)
(* than it has tasks, no slot works past its steps.                        *)
TypeOK ==
    /\ queue \in Seq(Messages) /\ deferred \in Seq({Ask(t) : t \in Tasks})
    /\ control \in Seq({"park", "unpark"})
    /\ {paused, running, ended, abort} \subseteq BOOLEAN
    /\ loop \in {"start", "control", "park", "unpark", "paused", "drain", "process", "release",
                 "update", "decode", "sample", "fail", "wait", "asleep", "heartbeat", "ended"}
    /\ hand \in Messages \union {NoMessage}
    /\ slots \in [Slots -> [state : {"free", "busy", "released"}, id : Tasks \union {NoTask},
                            steps : 0..MaxSteps]]
    /\ todo \subseteq Slots
    /\ waiting \subseteq Tasks /\ filled \subseteq Tasks
    /\ results \in Seq({Result(k, t) : k \in {"partial", "final", "error"}, t \in Tasks})
    /\ reader \in [Readers -> {"new", "registered", "waiting", "aborting", "stopping",
                               "cancelling", "done"}]
    /\ \A r \in Readers : received[r] \in 0..Len(Asks[r])
    /\ swapper \in {"idle", "park", "unpark"}

(* How many places hold task t: the two queues, the loop's hand, a slot.   *)
Places(t) ==
    LET In(q) == Cardinality({i \in DOMAIN q : q[i] = Ask(t)})
    IN In(queue) + In(deferred) + (IF hand = Ask(t) THEN 1 ELSE 0)
       + Cardinality({s \in BusySlots : slots[s].id = t})

Answered(t) == \E i \in DOMAIN results : results[i].task = t /\ results[i].kind # "partial"

(* No task is lost or doubled on its way through the queue, the deferred   *)
(* queue, the loop and the slots: while its reader waits for it, it is in  *)
(* exactly one of them, or out of all of them with its answer in the       *)
(* result queue.                                                           *)
NothingLost ==
    \A r \in Readers : reader[r] = "waiting" =>
        \A t \in Ids(r) \ filled :
            \/ Places(t) = 1 /\ ~Answered(t)
            \/ Places(t) = 0 /\ Answered(t)

(* GGML_ASSERT "duplicate result received" of wait_for_all: a task has one *)
(* last result, and none comes after a reader has stored it.               *)
OneFinal ==
    \A i \in DOMAIN results : results[i].kind = "final" =>
        /\ results[i].task \notin filled
        /\ \A j \in DOMAIN results : results[j] = results[i] => j = i

(* What may keep task t waiting although every slot is idle: an id_slot no *)
(* slot has, or a ring without room for it.                                *)
MayStayDeferred(t) == Pin[t] \notin Slots \union {AnySlot} \/ RingWaits(t)

(* The loop never goes to sleep on work: with an empty queue every slot is *)
(* idle, and a deferred task is one no release would help; and where such a*)
(* task waits the sleep is the timed one of the pump, for no notify of     *)
(* release_slots is to come.                                               *)
SleepsOnlyWhenIdle ==
    /\ loop \in {"asleep", "heartbeat"} /\ queue = <<>> =>
          /\ FreeSlots = Slots
          /\ \A i \in DOMAIN deferred : MayStayDeferred(deferred[i].task)
    /\ loop = "asleep" => deferred = <<>>

(* terminate() is graceful: when a loop ends with its model on the cards   *)
(* every slot is idle and every task a reader waits for is answered,       *)
(* whatever was running or queued, except those still in the deferred queue*)
(* because no slot or no room in the ring could be had for them.           *)
EndsDrained ==
    [][ loop' = "ended" /\ loop = "wait" =>
          /\ FreeSlots = Slots
          /\ \A r \in Readers : reader[r] = "waiting" =>
                \A t \in Ids(r) \ filled :
                    Answered(t) \/ (MayStayDeferred(t) /\ Ask(t) \in ToSet(deferred)) ]_vars

(* "nothing may touch its contexts": while the model is parked its slots   *)
(* stand still, in whatever state the swap found them.                     *)
ParkedIsLeftAlone == [][paused /\ paused' => UNCHANGED <<slots, todo, hand, results>>]_vars

(* Nobody waits for a control function that will not run: the function the *)
(* router waits for is queued or running, the loop has not ended.          *)
ControlNotForgotten ==
    swapper # "idle" => /\ loop = swapper \/ control = <<swapper>>
                        /\ loop # "ended"

(* The other side of stop(): once a reader is done, what is left of its    *)
(* request is on a slot the loop is about to release, its CANCEL on the    *)
(* way; none of its tasks can be launched, or decoded again after the      *)
(* queue has been drained.                                                 *)
DeadTaskLeaves ==
    \A r \in Readers : reader[r] = "done" => \A t \in Ids(r) : Places(t) > 0 =>
        \/ hand \in {Ask(t), Cancel(t)}
        \/ \E i \in DOMAIN queue : queue[i] = Cancel(t)

(* What became of task t, for a reader that sees no queue and no slot.     *)
Stage(t) ==
    IF Places(t) > 0 THEN IF \E s \in BusySlots : slots[s].id = t THEN "working" ELSE "queued"
    ELSE IF reader[OwnerOf(t)] \in {"new", "registered"} THEN "unposted" ELSE "over"

Life == INSTANCE RequestLife WITH
            Requests <- Readers, TasksOf <- [r \in Readers |-> Ids(r)],
            stage <- [t \in Tasks |-> Stage(t)], got <- filled,
            left <- {r \in Readers : reader[r] = "done"}

(* The queue, the deferred queue, the slots and the result queue together  *)
(* keep what RequestLife promises: no task is run twice or revived, each   *)
(* last result is read once, after its task, and before its reader leaves. *)
ImplementsRequestLife == Life!Spec

(* server-queue.cpp:26-31: a cancelled task does not become a ghost "that  *)
(* later occupied a slot generating for a dead client": the CANCEL of a    *)
(* slot's task is on its way when the reader is done with it.              *)
NoGhostOnSlot ==
    \A s \in BusySlots : reader[OwnerOf(slots[s].id)] = "done" =>
        \/ hand = Cancel(slots[s].id)
        \/ \E i \in DOMAIN queue : queue[i] = Cancel(slots[s].id)

(* The ring alone holds a task back: kv_unified_admit defers one a slot is *)
(* free for, or the pump finds a slot free but no headroom.                *)
RingStalls ==
    \/ Defer /\ Admitted(hand.task) # {}
    \/ Heartbeat /\ FreeSlots # {} /\ queue = <<>> /\ deferred # <<>> /\ queue' = <<>>

(* A reader that waits is answered, or its client leaves, or the process   *)
(* ends: a failed launch, a failed or aborted decode and a refusal         *)
(* included.  Requests the ring gates have this promise only if it does not*)
(* stall for ever; the others do not suffer when it does.                  *)
ReaderAnswered ==
    \A r \in Readers :
        /\ Pin[Asks[r][1]] \in Slots \union {AnySlot}
        /\ RingWaits(Asks[r][1]) => <>[][~RingStalls]_vars
        => (reader[r] = "waiting" ~> reader[r] = "done" \/ loop = "ended")

(* terminate() on a loop that runs ends it, asleep, parked or at work.     *)
RunningLoopEnds == (ended /\ ~running) ~> (loop = "ended" \/ running)

=============================================================================

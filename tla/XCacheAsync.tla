----------------------------- MODULE XCacheAsync -----------------------------
(***************************************************************************)
(* The rendezvous of the expert cache: the card runs a layer's hot experts *)
(* itself and leaves the cold ones to a worker thread of the host, without *)
(* a round trip through the driver.  Each layer owns a slot of mapped host *)
(* memory: the submit kernel fills the inputs and raises the request flag, *)
(* the worker, scanning the layers in turn, computes the rows and raises   *)
(* the done flag the wait kernel spins on.  Requests are numbered by a     *)
(* counter in device memory; a request without a cold expert is answered   *)
(* by the card itself.                                                     *)
(*                                                                         *)
(* Inputs and rows are represented by the number of the request they       *)
(* belong to.  The 32-bit counter is bounded, not wrapped.  The fences and *)
(* release stores of the code are what makes its steps, one write each,    *)
(* take effect in the order they have here.  The timing of waits, the trap *)
(* of a card whose wait lasts ten minutes and the choice between the lean  *)
(* pool and the graph (the same rows) are left out.  (The thread starts    *)
(* with the first layer; here it is there from the start, with no layer.)  *)
(***************************************************************************)
EXTENDS Integers, Sequences, FiniteSets

CONSTANTS
    Layers, Devices,
    DeviceOf,       \* layer -> the device that holds it
    Widths,         \* tokens of a graph
    MaxReq          \* bound: requests of one layer

ASSUME XCacheAssumption ==
    /\ DeviceOf \in [Layers -> Devices] /\ MaxReq \in Nat
    /\ IsFiniteSet(Layers) /\ Widths \subseteq Nat \ {0}

VARIABLES
    table,      \* layers_: the layers in the order they were added
    shown,      \* n_layers_: how many of them the worker may read
    subs,       \* the <<layer, width>> sub-graphs that are registered
    seq,        \* layer -> d_seq, the number of its last request
    input,      \* layer -> whose ids and activation are in the slot
    req,        \* layer -> h_req, number and width of the last cold request
    done,       \* layer -> h_done
    rows,       \* layer -> whose result h_out holds
    card,       \* device -> the cold layer its stream is in
    worker,     \* the worker thread
    seen,       \* layer -> number of the last request it served
    stop, dead  \* stop_; the process was stopped

slotVars == <<seq, input, req, done, rows>>
vars == <<table, shown, subs, slotVars, card, worker, seen, stop, dead>>

Idle == [at |-> "idle"]
Numbers == 0..MaxReq
Table == {t \in UNION {[1..n -> Layers] : n \in 0..Cardinality(Layers)} :
              \A i, j \in DOMAIN t : t[i] = t[j] => i = j}

Init ==
    /\ table = <<>> /\ shown = 0 /\ subs = {}
    /\ seq = [l \in Layers |-> 0] /\ input = [l \in Layers |-> 0]
    /\ req = [l \in Layers |-> [q |-> 0, w |-> 0]]
    /\ done = [l \in Layers |-> 0] /\ rows = [l \in Layers |-> 0]
    /\ card = [d \in Devices |-> Idle]
    /\ worker = [at |-> "top"]
    /\ seen = [l \in Layers |-> 0]
    /\ stop = FALSE /\ dead = FALSE

Alive == ~dead /\ ~stop

-----------------------------------------------------------------------------
(* The thread that builds graphs.  (X_Slip... is X with a plausible coding *)
(* slip, used by the mutation checks only.)                                *)

\* slot(): the layer is written to the table, then the count is raised.
PutLayer(l) ==
    /\ Alive /\ shown = Len(table)
    /\ \A i \in DOMAIN table : table[i] # l
    /\ table' = Append(table, l)
    /\ UNCHANGED <<shown, subs, slotVars, card, worker, seen, stop, dead>>
ShowLayer_SlipFirst ==
    /\ Alive /\ shown <= Len(table) /\ shown < Cardinality(Layers)
    /\ shown' = shown + 1
    /\ UNCHANGED <<table, subs, slotVars, card, worker, seen, stop, dead>>
ShowLayer ==
    /\ Alive /\ shown < Len(table)
    /\ shown' = shown + 1
    /\ UNCHANGED <<table, subs, slotVars, card, worker, seen, stop, dead>>

\* add_width(): the sub-graph is complete before its pointer is stored.
AddWidth(l, w) ==
    /\ Alive /\ \E i \in 1..shown : table[i] = l
    /\ <<l, w>> \notin subs
    /\ subs' = subs \cup {<<l, w>>}
    /\ UNCHANGED <<table, shown, slotVars, card, worker, seen, stop, dead>>

-----------------------------------------------------------------------------
(* The stream of a device                                                  *)

\* k_pxa_cold_submit in a graph built with this layer and width: the ids and
\* the activation go to the slot ...
CopyIn(l, w, cold) ==
    LET d == DeviceOf[l]
    IN  /\ Alive /\ card[d] = Idle /\ <<l, w>> \in subs
        /\ seq[l] < MaxReq                                          \* bound
        /\ input' = [input EXCEPT ![l] = seq[l] + 1]
        /\ card' = [card EXCEPT ![d] = [at |-> "raise", l |-> l, w |-> w, cold |-> cold]]
        /\ UNCHANGED <<table, shown, subs, seq, req, done, rows, worker, seen, stop, dead>>

\* ... then the number is drawn and the flag raised: the request flag, or the
\* done flag when no id is cold.
Raise(d) ==
    /\ ~dead /\ card[d].at = "raise"
    /\ LET l == card[d].l
           q == seq[l] + 1
       IN  /\ seq' = [seq EXCEPT ![l] = q]
           /\ IF card[d].cold
              THEN req' = [req EXCEPT ![l] = [q |-> q, w |-> card[d].w]] /\ done' = done
              ELSE done' = [done EXCEPT ![l] = q] /\ req' = req
    /\ card' = [card EXCEPT ![d].at = "wait"]
    /\ UNCHANGED <<table, shown, subs, input, rows, worker, seen, stop, dead>>

Wait_SlipAnyAnswer(d) ==
    /\ ~dead /\ card[d].at = "wait"
    /\ done[card[d].l] # 0
    /\ card' = [card EXCEPT ![d].at = "merge"]
    /\ UNCHANGED <<table, shown, subs, slotVars, worker, seen, stop, dead>>

\* k_pxa_cold_wait: spins until the done flag shows the request's number.
Wait(d) ==
    /\ ~dead /\ card[d].at = "wait"
    /\ done[card[d].l] = seq[card[d].l]
    /\ card' = [card EXCEPT ![d].at = "merge"]
    /\ UNCHANGED <<table, shown, subs, slotVars, worker, seen, stop, dead>>

\* The rows go to the merge; the stream moves on.
Merge(d) ==
    /\ ~dead /\ card[d].at = "merge"
    /\ card' = [card EXCEPT ![d] = Idle]
    /\ UNCHANGED <<table, shown, subs, slotVars, worker, seen, stop, dead>>

-----------------------------------------------------------------------------
(* The worker                                                              *)

At(where) == ~dead /\ worker.at = where
WorkerOnly == UNCHANGED <<table, shown, subs, slotVars, card, stop, dead>>

\* The layer the scan is at.
Here == table[worker.i]

\* One pass looks at the layers that were there when it began.
Top ==
    /\ At("top")
    /\ worker' = IF stop THEN [at |-> "gone"] ELSE [at |-> "scan", i |-> 1, n |-> shown]
    /\ WorkerOnly /\ UNCHANGED seen
Look ==
    /\ At("scan") /\ worker.i <= worker.n
    /\ worker' = IF req[Here].q # seen[Here]
                 THEN [at |-> "run", i |-> worker.i, n |-> worker.n, r |-> req[Here]]
                 ELSE [worker EXCEPT !.i = @ + 1]
    /\ WorkerOnly /\ UNCHANGED seen
PassEnds ==
    /\ At("scan") /\ worker.i > worker.n
    /\ worker' = [at |-> "top"]
    /\ WorkerOnly /\ UNCHANGED seen

\* serve(): the sub-graph of the width runs over the slot's buffers.
Run ==
    /\ At("run") /\ <<Here, worker.r.w>> \in subs
    /\ rows' = [rows EXCEPT ![Here] = input[Here]]
    /\ worker' = [worker EXCEPT !.at = "publish"]
    /\ UNCHANGED <<table, shown, subs, seq, input, req, done, card, seen, stop, dead>>
\* A width nobody registered, or a graph that fails, stops the process before
\* "done" is written: the card is never given rows nobody computed.
Abort ==
    /\ At("run")
    /\ dead' = TRUE
    /\ UNCHANGED <<table, shown, subs, slotVars, card, worker, seen, stop>>
Publish ==
    /\ At("publish")
    /\ done' = [done EXCEPT ![Here] = worker.r.q]
    /\ worker' = [worker EXCEPT !.at = "note"]
    /\ UNCHANGED <<table, shown, subs, seq, input, req, rows, card, seen, stop, dead>>

Note_SlipReadAgain ==
    /\ At("note")
    /\ seen' = [seen EXCEPT ![Here] = req[Here].q]
    /\ worker' = [at |-> "scan", i |-> worker.i + 1, n |-> worker.n]
    /\ WorkerOnly
Note ==
    /\ At("note")
    /\ seen' = [seen EXCEPT ![Here] = worker.r.q]
    /\ worker' = [at |-> "scan", i |-> worker.i + 1, n |-> worker.n]
    /\ WorkerOnly

-----------------------------------------------------------------------------

\* The model is freed: its contexts are gone, so no stream is in a layer.
Stop ==
    /\ Alive /\ \A d \in Devices : card[d] = Idle
    /\ shown = Len(table)
    /\ stop' = TRUE
    /\ UNCHANGED <<table, shown, subs, slotVars, card, worker, seen, dead>>

Host == \/ \E l \in Layers : PutLayer(l)
        \/ ShowLayer
        \/ \E l \in Layers, w \in Widths : AddWidth(l, w)
Launch == \E l \in Layers, w \in Widths, cold \in BOOLEAN : CopyIn(l, w, cold)
Card(d) == Raise(d) \/ Wait(d) \/ Merge(d)
Worker == Top \/ Look \/ PassEnds \/ Run \/ Publish \/ Note

Next == Host \/ Launch \/ (\E d \in Devices : Card(d)) \/ Worker \/ Abort \/ Stop

\* A kernel on a stream and a running thread go on; whether graphs are built
\* and launched, and whether the model is ever freed, is up to the callers.
Spec == Init /\ [][Next]_vars
FairSpec == Spec /\ WF_vars(Worker) /\ \A d \in Devices : WF_vars(Card(d))

-----------------------------------------------------------------------------
(* What the rendezvous promises                                            *)

CardAt == {Idle} \cup [at : {"raise", "wait", "merge"}, l : Layers, w : Widths, cold : BOOLEAN]
Request == [q : Numbers, w : Widths \cup {0}]
WorkerAt ==
    {[at |-> "top"], [at |-> "gone"]} \cup
    [at : {"scan"}, i : Nat \ {0}, n : 0..Len(table)] \cup
    [at : {"run", "publish", "note"}, i : 1..Len(table), n : 1..Len(table), r : Request]

TypeOK ==
    /\ table \in Table /\ shown \in 0..Len(table) /\ subs \subseteq Layers \X Widths
    /\ seq \in [Layers -> Numbers] /\ input \in [Layers -> Numbers]
    /\ req \in [Layers -> Request] /\ done \in [Layers -> Numbers]
    /\ rows \in [Layers -> Numbers] /\ seen \in [Layers -> Numbers]
    /\ card \in [Devices -> CardAt] /\ worker \in WorkerAt
    /\ stop \in BOOLEAN /\ dead \in BOOLEAN

\* The wait never hands on rows nobody computed (pxa-xcache.cuh:236): what a
\* card merges is the worker's answer to this very request, also when the
\* requests between were its own to answer; and the worker is never asked for
\* a width it has no sub-graph of.
RowsAreOwn ==
    /\ \A d \in Devices : card[d].at = "merge" /\ card[d].cold =>
          rows[card[d].l] = seq[card[d].l]
    /\ worker.at = "run" => <<Here, worker.r.w>> \in subs

\* The card waits for every cold layer however long the worker takes: while
\* the process lives, every wait ends.
CardAnswered ==
    \A d \in Devices : card[d].at = "wait" ~> card[d].at # "wait" \/ dead
=============================================================================

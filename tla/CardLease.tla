------------------------------ MODULE CardLease ------------------------------
(***************************************************************************)
(* What hot swap promises to a request, with nothing said about how        *)
(* (pxa-hotswap.h, header comment): the cards hold at most one model; a    *)
(* request runs only on the model it asked for, or on whatever is there if *)
(* it named none; the cards change hands only while nobody is using them.  *)
(* HotSwapRouter is shown to implement this module.                        *)
(***************************************************************************)
EXTENDS FiniteSets

CONSTANTS Models,    \* the registered models
          Users,     \* everything that can hold a lease
          NoModel,   \* "none"
          AnyModel,  \* a user that names no model
          First      \* the model that is on the cards at the start

VARIABLES loaded,    \* the models whose memory is on the cards
          asked,     \* what each user wants: a model, AnyModel, or NoModel
          using      \* the model each user runs on, or NoModel

cardVars == <<loaded, asked, using>>

Init ==
    /\ loaded = {First}
    /\ asked = [u \in Users |-> NoModel]
    /\ using = [u \in Users |-> NoModel]

(* A user states what it wants, or withdraws before it was admitted. *)
Ask(u, w) ==
    /\ using[u] = NoModel /\ asked[u] = NoModel
    /\ asked' = [asked EXCEPT ![u] = w]
    /\ UNCHANGED <<loaded, using>>

Withdraw(S) ==
    /\ \A u \in S : using[u] = NoModel
    /\ asked' = [u \in Users |-> IF u \in S THEN NoModel ELSE asked[u]]
    /\ UNCHANGED <<loaded, using>>

(* A batch of users starts on model m, each of them having asked for it;   *)
(* a user may ask and be admitted in one step.                             *)
Admit(S, m) ==
    /\ m \in loaded
    /\ asked' \in [Users -> Models \union {AnyModel, NoModel}]
    /\ \A u \in Users : asked'[u] = asked[u] \/ (u \in S /\ asked[u] = NoModel)
    /\ \A u \in S : using[u] = NoModel /\ asked'[u] \in {m, AnyModel}
    /\ using' = [u \in Users |-> IF u \in S THEN m ELSE using[u]]
    /\ UNCHANGED loaded

Leave(u) ==
    /\ using' = [using EXCEPT ![u] = NoModel]
    /\ asked' = [asked EXCEPT ![u] = NoModel]
    /\ UNCHANGED loaded

Unload(m) ==
    /\ \A u \in Users : using[u] # m
    /\ loaded' = loaded \ {m}
    /\ UNCHANGED <<asked, using>>

Load(m) ==
    /\ loaded = {}
    /\ loaded' = {m}
    /\ UNCHANGED <<asked, using>>

Next ==
    \/ \E u \in Users, w \in Models \union {AnyModel} : Ask(u, w)
    \/ \E S \in SUBSET Users : Withdraw(S)
    \/ \E S \in SUBSET Users, m \in Models : Admit(S, m)
    \/ \E u \in Users : Leave(u)
    \/ \E m \in Models : Unload(m) \/ Load(m)

Spec == Init /\ [][Next]_cardVars

=============================================================================

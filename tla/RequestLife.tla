----------------------------- MODULE RequestLife -----------------------------
(***************************************************************************)
(* What the task queue promises to a request, with nothing said about how  *)
(* (server-queue.h, and server_response_reader in server.cpp): each of its *)
(* tasks is posted once, is run by one slot and not more than once, and    *)
(* never comes back when it is over; its last result is handed out only    *)
(* after that, once, and to a request that is still there; the request     *)
(* leaves with all its last results, or it is abandoned, and then takes    *)
(* tasks that no slot has begun with it.                                   *)
(* ServerQueue is shown to implement this module.                          *)
(***************************************************************************)
CONSTANTS Requests,
          TasksOf    \* the set of tasks of each request

Tasks == UNION {TasksOf[r] : r \in Requests}

VARIABLES stage,     \* of each task: "unposted", "queued", "working" or "over"
          got,       \* the tasks whose last result their request has
          left       \* the requests that are gone

lifeVars == <<stage, got, left>>

(* The tasks of S go to stage s. *)
Move(S, s) == stage' = [t \in Tasks |-> IF t \in S THEN s ELSE stage[t]]

Init ==
    /\ stage = [t \in Tasks |-> "unposted"]
    /\ got = {} /\ left = {}

Post(r) ==
    /\ r \notin left /\ \A t \in TasksOf[r] : stage[t] = "unposted"
    /\ Move(TasksOf[r], "queued")
    /\ UNCHANGED <<got, left>>

Begin(t) ==
    /\ stage[t] = "queued"
    /\ Move({t}, "working")
    /\ UNCHANGED <<got, left>>

(* A slot is done with its task, or a task is refused before it runs. *)
End(t) ==
    /\ stage[t] \in {"queued", "working"}
    /\ Move({t}, "over")
    /\ UNCHANGED <<got, left>>

Get(r, t) ==
    /\ r \notin left /\ t \in TasksOf[r] \ got /\ stage[t] = "over"
    /\ got' = got \union {t}
    /\ UNCHANGED <<stage, left>>

Serve(r) ==
    /\ r \notin left /\ TasksOf[r] \subseteq got
    /\ left' = left \union {r}
    /\ UNCHANGED <<stage, got>>

Abandon(r, S) ==
    /\ r \notin left /\ \A t \in S : stage[t] = "queued"
    /\ left' = left \union {r}
    /\ Move(S, "over")
    /\ UNCHANGED got

Next ==
    \/ \E r \in Requests : Post(r) \/ Serve(r)
    \/ \E t \in Tasks : Begin(t) \/ End(t)
    \/ \E r \in Requests : \E t \in TasksOf[r] : Get(r, t)
    \/ \E r \in Requests : \E S \in SUBSET TasksOf[r] : Abandon(r, S)

Spec == Init /\ [][Next]_lifeVars

=============================================================================

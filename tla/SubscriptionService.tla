------------------------ MODULE SubscriptionService ------------------------
(***************************************************************************)
(* What the WebSocket broker promises, without its maps, locks and ids:    *)
(* at most one upstream subscription per query, opened before the first    *)
(* client joins it, and closed only while no client is on it.              *)
(***************************************************************************)
CONSTANTS Clients, Params

VARIABLES
    open,     \* queries with an upstream subscription
    holders   \* the clients that notifications about a query go to

Init ==
    /\ open = {}
    /\ holders = [p \in Params |-> {}]

Open(p) ==
    /\ p \notin open
    /\ open' = open \cup {p}
    /\ UNCHANGED holders

Join(c, p) ==
    /\ p \in open
    /\ holders' = [holders EXCEPT ![p] = @ \cup {c}]
    /\ UNCHANGED open

Leave(c, p) ==
    /\ holders' = [holders EXCEPT ![p] = @ \ {c}]
    /\ UNCHANGED open

ShutDown(p) ==
    /\ holders[p] = {}
    /\ open' = open \ {p}
    /\ UNCHANGED holders

Next ==
    \E p \in Params :
        \/ Open(p) \/ ShutDown(p)
        \/ \E c \in Clients : Join(c, p) \/ Leave(c, p)

Spec == Init /\ [][Next]_<<open, holders>>
=============================================================================

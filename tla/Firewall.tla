------------------------------ MODULE Firewall ------------------------------
(***************************************************************************)
(* What a proxy promises about its rules, without lists, locks and caches: *)
(* a request is let through if the rules in force when it is decided allow *)
(* it, and refused if they do not.  Where Held, the rules that decided a   *)
(* request stay in force until it has been served.                         *)
(***************************************************************************)
CONSTANTS Requests, Keys, None, Held

VARIABLES
    allowed,   \* what the rules in force allow
    asked,     \* request -> its key
    outcome    \* request -> none, asked, passed, refused

Init ==
    /\ allowed \in SUBSET Keys
    /\ asked = [r \in Requests |-> None]
    /\ outcome = [r \in Requests |-> "none"]

Ask(r, k) ==
    /\ outcome[r] = "none"
    /\ asked' = [asked EXCEPT ![r] = k]
    /\ outcome' = [outcome EXCEPT ![r] = "asked"]
    /\ UNCHANGED allowed

Decide(r) ==
    /\ outcome[r] = "asked"
    /\ outcome' = [outcome EXCEPT ![r] = IF asked[r] \in allowed THEN "passed" ELSE "refused"]
    /\ UNCHANGED <<allowed, asked>>

End(r) ==
    /\ outcome[r] \in {"passed", "refused"}
    /\ outcome' = [outcome EXCEPT ![r] = "none"]
    /\ asked' = [asked EXCEPT ![r] = None]
    /\ UNCHANGED allowed

Change(a) ==
    /\ Held => \A r \in Requests : outcome[r] \in {"none", "asked"}
    /\ allowed' = a
    /\ UNCHANGED <<asked, outcome>>

Next ==
    \/ \E r \in Requests : Decide(r) \/ End(r) \/ \E k \in Keys : Ask(r, k)
    \/ \E a \in SUBSET Keys : Change(a)

Spec == Init /\ [][Next]_<<allowed, asked, outcome>>
=============================================================================

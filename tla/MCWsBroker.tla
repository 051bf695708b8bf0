---------------------------- MODULE MCWsBroker ----------------------------
(* Instances of WsBroker for TLC. *)
EXTENDS WsBroker, TLC

Interchangeable ==
    Permutations(Clients) \cup Permutations(Params) \cup Permutations(IDs) \cup Permutations(Conns)
=============================================================================

-------------------------- MODULE MCUpstreamConn --------------------------
(* Instances of UpstreamConn for TLC. *)
EXTENDS UpstreamConn, TLC

Interchangeable == Permutations(Callers) \cup Permutations(IDs) \cup Permutations(SubIDs)
=============================================================================

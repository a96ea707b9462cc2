----------------------------- MODULE MCSessions -----------------------------
(* Instances of Sessions for TLC.                                            *)
EXTENDS Sessions, TLC

Interchangeable == Permutations(SessionIds) \cup Permutations(Requests) \cup Permutations(Stampers)
=============================================================================

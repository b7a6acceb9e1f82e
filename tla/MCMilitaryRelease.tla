--------------------------- MODULE MCMilitaryRelease ---------------------------
(* Instances of MilitaryRelease for TLC. *)
EXTENDS MilitaryRelease, TLC

Interchangeable == Permutations(Request) \cup Permutations(Execution) \cup Permutations(Subject)

================================================================================

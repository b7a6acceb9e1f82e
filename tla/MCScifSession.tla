----------------------------- MODULE MCScifSession -----------------------------
(* Instances of ScifSession for TLC. *)
EXTENDS ScifSession, TLC

Interchangeable == Permutations(Session) \cup Permutations(Subject)

PlainOnly == {"scif"}
BothModes == {"scif", "scif_two_person"}
Nobody == {}

================================================================================

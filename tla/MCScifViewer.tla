------------------------------ MODULE MCScifViewer -----------------------------
(* Instance of ScifViewer for TLC. *)
EXTENDS ScifViewer

BothModes == {"scif", "scif_two_person"}

================================================================================

---------------------------- MODULE MCRedaction -----------------------------
(* A page of three cells by three, two pixels high each. *)
EXTENDS Redaction

Percentages == {-1, 0, 3, 70, 96}
=============================================================================

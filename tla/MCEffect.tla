------------------------------ MODULE MCEffect ------------------------------
(* Two servers that run the same unit, of each kind, at the same time.      *)
EXTENDS Effect, TLC

AllKinds == {"video", "article", "discussion", "enrollment"}
=============================================================================

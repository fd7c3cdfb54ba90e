----------------------------- MODULE MCInputGate -----------------------------
(* Values of the constants of InputGate for TLC. *)
EXTENDS InputGate

\* Two waits of one kind, then one of another; a wait for raw input.
MCKinds == [w \in Waits |-> IF w = 3 THEN "raw" ELSE "message"]
MCRaw == [w \in Waits |-> "raw"]
=============================================================================

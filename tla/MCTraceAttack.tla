-------------------------- MODULE MCTraceAttack --------------------------
(* Model-checking instance of TraceAttack. *)
EXTENDS TraceAttack

(* Two adjacent data pages: loads may switch page or cross between them. *)
MCDataPages == {150, 151}

(* Larger than any block count the bounds allow. *)
MCUsizeMax == 100
=============================================================================

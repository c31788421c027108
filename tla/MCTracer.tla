------------------------------ MODULE MCTracer ------------------------------
(***************************************************************************)
(* A four-page enclave traced into an RSet: page 0 holds code, 1 and 2    *)
(* data, 3 the stack.  The dumper has one wire more than the page table,  *)
(* standing for the margin of 100 wires create_dumper adds.                *)
(***************************************************************************)
EXTENDS Tracer

MCEnclPages == 0 .. 3

MCChannels == <<"r">>

R(p) == Access(p, TRUE, FALSE, FALSE)
RW(p) == Access(p, TRUE, TRUE, FALSE)

(* An instruction fetches code from page 0 and touches at most one data   *)
(* or stack page.                                                          *)
MCInstructions == {{R(0)}, {R(0), R(1)}, {R(0), RW(2)}, {R(0), RW(3)}}

(* Initialisation may leave nothing, or a written data page and the stack. *)
MCSetupStates == {{}, {RW(2), RW(3)}}

(* Without initialisation accesses. *)
MCNoSetup == {{}}
=============================================================================

------------------------------ MODULE MCTLBlur ------------------------------
(***************************************************************************)
(* An eight-page enclave: page 0 holds runtime code that is not           *)
(* instrumented, 1 tlblur_pam_update, 2 __tlblur_counter, 3 __tlblur_pam, *)
(* 4 the stack, 5 the victim's code and 6, 7 its data.  Pages 5 to 7 are  *)
(* tracked and the mirror has two entries, so a third page evicts one.    *)
(***************************************************************************)
EXTENDS TLBlur

R(p) == Access(p, TRUE, FALSE, FALSE)
RW(p) == Access(p, TRUE, TRUE, FALSE)

MCTrackedPages == 5 .. 7

(* A code fetch alone, with a data write, with a data read, with a push, *)
(* and a fetch from the runtime's code.                                    *)
MCVictimInstructions == {{R(5)}, {R(5), RW(6)}, {R(5), R(7)}, {R(5), RW(4)}, {R(0)}}
=============================================================================

---------------------------- MODULE MCProfiler ----------------------------
(***************************************************************************)
(* A seven-page enclave: page 0 holds the victim's code, 1 the code of     *)
(* tlblur_pam_update, 2 __tlblur_counter, 3 __tlblur_pam, 4 the stack,     *)
(* 5 a data page in the PAM mirror and 6 a data page that is not.  The     *)
(* mirror has two entries, one of them still the default entry.            *)
(***************************************************************************)
EXTENDS Profiler

MCEnclPages == 0 .. 6

R(p) == Access(p, TRUE, FALSE, FALSE)
RW(p) == Access(p, TRUE, TRUE, FALSE)

(* Page-table samples of one instruction: the code fetch (read) and at     *)
(* most one data or stack access.  The victim's code is on page 0; the     *)
(* instrumentation (tlblur_pam_update, page 1) pushes onto the stack and   *)
(* writes the PAM and the counter.                                         *)
MCInstructions ==
    {{R(0)}, {R(0), R(4)}, {R(0), RW(4)}, {R(0), RW(5)}, {R(0), R(6)},
     {R(1), RW(4)}, {R(1), RW(3)}, {R(1), RW(2)}}

MCPamActive == <<Access(5, TRUE, TRUE, TRUE), DefaultAccess>>
=============================================================================

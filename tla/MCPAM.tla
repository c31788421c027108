------------------------------- MODULE MCPAM -------------------------------
(* Model-checking instance of PAM: a small enclave and mirror. *)
EXTENDS PAM

(* Pages 1..3 tracked, mirror of two entries: the default profile. *)
MCTrackedPages == 1 .. 3

(* The counter goes far enough for every page to be evicted and refilled. *)
MCMaxCounter == 6

(* Every page tracked, page 0 (the enclave's base page) included. *)
MCAllPages == 0 .. 3
=============================================================================

--------------------------- MODULE MCTLBCompare ---------------------------
(* Model-checking instance of TLBCompare. *)
EXTENDS TLBCompare

(* Three pages, two of which share set 0 when there are two sets. *)
MCPages == 0 .. 2

(* A read and a write: the write access covers the read, not conversely. *)
MCPerms == {[read |-> TRUE, write |-> FALSE, execute |-> FALSE],
            [read |-> TRUE, write |-> TRUE,  execute |-> FALSE]}
=============================================================================

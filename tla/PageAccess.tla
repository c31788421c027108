----------------------------- MODULE PageAccess -----------------------------
(***************************************************************************)
(* The PageAccess value of the profiler library (lib.rs): an access to one *)
(* enclave page with read/write/execute permission bits.  Every other      *)
(* module compares and merges accesses through Covers and Union.           *)
(***************************************************************************)
EXTENDS Naturals

(* All accesses to the pages of the set P. *)
PageAccesses(P) ==
    [page : P, read : BOOLEAN, write : BOOLEAN, execute : BOOLEAN]

Access(p, r, w, x) == [page |-> p, read |-> r, write |-> w, execute |-> x]

(* PageAccess::default(): page 0, no permission. *)
DefaultAccess == Access(0, FALSE, FALSE, FALSE)

(* a.covers(b): same page and every permission of b is held by a. *)
Covers(a, b) ==
    /\ a.page = b.page
    /\ b.read => a.read
    /\ b.write => a.write
    /\ b.execute => a.execute

(* a.union(b): the permissions of both, on the page of a. *)
Union(a, b) ==
    Access(a.page, a.read \/ b.read, a.write \/ b.write, a.execute \/ b.execute)

=============================================================================

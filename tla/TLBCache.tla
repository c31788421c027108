----------------------------- MODULE TLBCache -----------------------------
(***************************************************************************)
(* What a simulated TLB promises the profiler, whatever its organisation:  *)
(* it holds a set of accesses;                                             *)
(*  - a flush empties it;                                                  *)
(*  - inserting an access never invents another one, never drops anything *)
(*    when the access already hit, drops at most one entry when it missed, *)
(*    and leaves the access itself a hit.                                  *)
(* The profiler's reasoning about what an attacker sees rests on exactly   *)
(* these promises: a page is hidden only while a covering entry is held.   *)
(***************************************************************************)
EXTENDS Naturals, FiniteSets, PageAccess

CONSTANT Accesses   \* the accesses the TLB is fed

VARIABLE cached

Hit(c, a) == \E e \in c : Covers(e, a)

Init == cached = {}

Flush == cached' = {}

Insert(a) ==
    /\ cached' \subseteq cached \cup {a}
    /\ Hit(cached', a)
    /\ Hit(cached, a) => cached \subseteq cached'
    /\ Cardinality(cached \ cached') <= 1

Next ==
    \/ Flush
    \/ \E a \in Accesses : Insert(a)

Spec == Init /\ [][Next]_cached

=============================================================================

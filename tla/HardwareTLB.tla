---------------------------- MODULE HardwareTLB ----------------------------
(***************************************************************************)
(* The simulated hardware TLB of the TLBlur profiler (tlblur.rs,          *)
(* HardwareTLB, Set, TLBEntry).  A TLB value is either                    *)
(*   [kind |-> "Perfect", pages |-> a set of PageAccess]                   *)
(* an unbounded fully associative TLB (a HashSet in the code), or          *)
(*   [kind |-> "SetAssociative", sets |-> set index -> sequence of entries]*)
(* where each set is ordered least recently used first, as the VecDeque of *)
(* Set::ways is.  The operators are the TLB's methods applied to a value;  *)
(* VARIABLE hw_tlb and the actions at the end make a component of it.      *)
(***************************************************************************)
EXTENDS Naturals, SequencesExt, PageAccess

CONSTANTS
    Kind,        \* --hw-tlb: "Perfect" or "SetAssociative"
    NumSets,     \* --sets
    WaysPerSet   \* --ways

(* get_set_index divides by NumSets: --sets 0 panics at the first update  *)
(* and is left out.  --ways 0 is accepted: Set::insert then pops an empty  *)
(* set, which does nothing, and the set grows past its capacity.          *)
ASSUME Kind \in {"Perfect", "SetAssociative"}
ASSUME NumSets \in Nat \ {0} /\ WaysPerSet \in Nat

SetIndices == 0 .. NumSets - 1

(* HardwareTLB::get_set_index *)
SetIndex(a) == a.page % NumSets

(* HardwareTLB::from(config): an empty TLB of the configured kind. *)
EmptyTLB ==
    IF Kind = "Perfect"
    THEN [kind |-> "Perfect", pages |-> {}]
    ELSE [kind |-> "SetAssociative", sets |-> [s \in SetIndices |-> <<>>]]

-----------------------------------------------------------------------------
(* Set: one set of the set-associative TLB. *)

(* Positions of the valid entries that cover the access. *)
Hits(ways, a) == {i \in DOMAIN ways : Covers(ways[i].page, a) /\ ways[i].valid}

(* VecDeque::pop_front: the oldest entry goes; an empty set stays empty.   *)
PopFront(ways) == IF ways = <<>> THEN ways ELSE Tail(ways)

(* Set::lookup *)
SetLookup(ways, a) == Hits(ways, a) # {}

(* Mutant of SetInsert: a set is popped only once it is over-full. *)
SetInsertOffByOne(ways, a) ==
    IF Hits(ways, a) # {}
    THEN LET pos == Min(Hits(ways, a)) IN Append(RemoveAt(ways, pos), ways[pos])
    ELSE Append(IF Len(ways) > WaysPerSet THEN PopFront(ways) ELSE ways,
                [page |-> a, valid |-> TRUE])

(* Mutant of SetInsert: no hit check, every access pushes a new entry.  *)
SetInsertNoHitCheck(ways, a) ==
    Append(IF Len(ways) = WaysPerSet THEN PopFront(ways) ELSE ways,
           [page |-> a, valid |-> TRUE])

(* Set::insert: a hit moves the first covering entry to the back (MRU);   *)
(* a miss pops the front (LRU) of a full set and pushes a new entry.       *)
SetInsert(ways, a) ==
    IF Hits(ways, a) # {}
    THEN LET pos == Min(Hits(ways, a)) IN Append(RemoveAt(ways, pos), ways[pos])
    ELSE Append(IF Len(ways) = WaysPerSet THEN PopFront(ways) ELSE ways,
                [page |-> a, valid |-> TRUE])

-----------------------------------------------------------------------------
(* HardwareTLB *)

(* HardwareTLB::flush *)
Flush(t) ==
    IF t.kind = "Perfect" THEN [t EXCEPT !.pages = {}]
    ELSE [t EXCEPT !.sets = [s \in SetIndices |-> <<>>]]

(* One access of HardwareTLB::update. *)
Insert(t, a) ==
    IF t.kind = "Perfect" THEN [t EXCEPT !.pages = @ \cup {a}]
    ELSE [t EXCEPT !.sets[SetIndex(a)] = SetInsert(@, a)]

(* HardwareTLB::update: the accesses are inserted in iteration order. *)
Update(t, accesses) == FoldLeft(Insert, t, accesses)

(* Mutant of Test: the perfect TLB looks the access up by equality. *)
TestExactMatch(t, a) ==
    IF t.kind = "Perfect" THEN a \in t.pages
    ELSE SetLookup(t.sets[SetIndex(a)], a)

(* HardwareTLB::test *)
Test(t, a) ==
    IF t.kind = "Perfect" THEN \E e \in t.pages : Covers(e, a)
    ELSE SetLookup(t.sets[SetIndex(a)], a)

(* The accesses the TLB holds: the valid entries. *)
Contents(t) ==
    IF t.kind = "Perfect" THEN t.pages
    ELSE UNION {{t.sets[s][i].page : i \in {j \in DOMAIN t.sets[s] : t.sets[s][j].valid}}
                : s \in SetIndices}

-----------------------------------------------------------------------------
(* The TLB as a component on its own: the profiler flushes it and updates *)
(* it with accesses.  (Set::invalidate is never called.)                   *)

VARIABLE hw_tlb

TLBTypeOK(P) ==
    IF Kind = "Perfect"
    THEN hw_tlb \in [kind : {"Perfect"}, pages : SUBSET PageAccesses(P)]
    ELSE /\ hw_tlb.kind = "SetAssociative"
         /\ hw_tlb.sets \in [SetIndices ->
                BoundedSeq([page : PageAccesses(P), valid : BOOLEAN], WaysPerSet)]

TLBInit == hw_tlb = EmptyTLB

DoFlush == hw_tlb' = Flush(hw_tlb)

DoUpdate(a) == hw_tlb' = Update(hw_tlb, <<a>>)

=============================================================================

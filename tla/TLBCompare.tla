---------------------------- MODULE TLBCompare ----------------------------
(***************************************************************************)
(* The two TLB organisations of the profiler (--hw-tlb perfect and         *)
(* --hw-tlb set-associative) fed the same stream of flushes and updates,   *)
(* as the trap handler would feed whichever one is configured.  The       *)
(* set-associative TLB is shown to implement TLBCache (the perfect one is  *)
(* a HashSet that only grows until a flush), and the perfect TLB is an     *)
(* upper bound of the set-associative one, which is why the profiler uses  *)
(* it as the most favourable case for the defence.                         *)
(***************************************************************************)
EXTENDS Naturals, PageAccess

CONSTANTS
    Pages,        \* enclave pages the stream touches
    Perms,        \* permission combinations the stream uses
    NumSets,
    WaysPerSet

VARIABLES perfect_tlb, sa_tlb

vars == <<perfect_tlb, sa_tlb>>

(* The accesses the profiler feeds a TLB: page-table samples {r} / {r,w},  *)
(* prefetched code and stack {r,x}, counter and PAM pages {r,w}, mirrored  *)
(* PAM entries {r,w,x}.                                                    *)
Accesses == {Access(p, q.read, q.write, q.execute) : p \in Pages, q \in Perms}

PT == INSTANCE HardwareTLB WITH Kind <- "Perfect", hw_tlb <- perfect_tlb
SA == INSTANCE HardwareTLB WITH Kind <- "SetAssociative", hw_tlb <- sa_tlb

TypeOK == PT!TLBTypeOK(Pages) /\ SA!TLBTypeOK(Pages)

Init == PT!TLBInit /\ SA!TLBInit

(* An interrupt flushes the TLB. *)
FlushBoth == PT!DoFlush /\ SA!DoFlush

(* hw_tlb.update(std::iter::once(&a)) *)
UpdateBoth(a) == PT!DoUpdate(a) /\ SA!DoUpdate(a)

Next ==
    \/ FlushBoth
    \/ \E a \in Accesses : UpdateBoth(a)

Spec == Init /\ [][Next]_vars

-----------------------------------------------------------------------------
(* Properties *)

AbsSetAssociative == INSTANCE TLBCache WITH cached <- SA!Contents(sa_tlb)

(* The set-associative TLB keeps the promises of TLBCache: update never   *)
(* evicts on a hit and at most one entry on a miss (Set::insert's LRU      *)
(* promotion and eviction), the inserted access is a hit afterwards, and   *)
(* flush empties the TLB.                                                  *)
SetAssociativeRefinesTLBCache == AbsSetAssociative!Spec

(* The perfect TLB hides every access the set-associative one hides:       *)
(* a set-associative hit is a perfect hit after any history of updates    *)
(* and flushes.                                                            *)
PerfectIsUpperBound ==
    \A a \in Accesses : SA!Test(sa_tlb, a) => PT!Test(perfect_tlb, a)

(* Spec, data model: "in each set, at most one valid entry per distinct    *)
(* page".                                                                  *)
OneValidEntryPerPage ==
    \A s \in SA!SetIndices :
        LET ways == sa_tlb.sets[s] IN
        \A i, j \in DOMAIN ways :
            (i # j /\ ways[i].valid /\ ways[j].valid) => ways[i].page.page # ways[j].page.page

=============================================================================

------------------------------ MODULE TLBlur ------------------------------
(***************************************************************************)
(* The TLBlur profiler with its live PAM mirror: module Profiler (the     *)
(* trap handler and the single-stepped enclave) composed with module PAM  *)
(* (the enclave's instrumentation and PAM::update_pam).                    *)
(*                                                                         *)
(* The closure given to create_trap_handler calls pam.update_pam() first  *)
(* and prefetches pam.get_pam() at the end, so the mirror the prefetch    *)
(* uses is the one update_pam leaves in the same trap: Profiler reads     *)
(* pam_active', and here PAM's Trap sets it.  Every enclave               *)
(* instruction is a step of both components: an instrumentation step      *)
(* (write a page's PAM slot, bump the global counter) samples the pages   *)
(* of tlblur_pam_update and of the PAM or the counter; any other          *)
(* instruction is the victim's and leaves the map alone.  Both traps run  *)
(* update_pam, the priming one included.                                   *)
(***************************************************************************)
EXTENDS Naturals, FiniteSets, PageAccess

CONSTANTS
    Attacker, ObservePtes, NoPrefetch, TLBKind, NumSets, WaysPerSet,
    NumPages,            \* pages of the enclave, 0 .. NumPages-1
    TrackedPages,        \* pages the instrumentation records
    PwsSize,             \* --pws-size
    MaxCounter,          \* bound on __tlblur_counter
    VictimInstructions,  \* page-table samples of the victim's instructions
    StackPage, UpdateCodePage, CounterPage, PamPage,
    MaxSteps

VARIABLES
    phase, first_run, pte, hw_tlb, observations, live_pages, frame, dumped,
    irq, steps, window,
    encl_pam, encl_counter, slot_written, pam_buffer, pam_active, pam_counter,
    hot   \* history: the published working set at the last interrupt

Q == INSTANCE PAM

(* tlblur_pam_update runs from its code page and writes the PAM slot ... *)
RecordSample == {Access(UpdateCodePage, TRUE, FALSE, FALSE), Access(PamPage, TRUE, TRUE, FALSE)}

(* ... then writes __tlblur_counter. *)
PublishSample == {Access(UpdateCodePage, TRUE, FALSE, FALSE), Access(CounterPage, TRUE, TRUE, FALSE)}

P == INSTANCE Profiler WITH
        EnclPages <- Q!Pages,
        Instructions <- VictimInstructions \cup {RecordSample, PublishSample},
        PamActive <- [i \in 1 .. PwsSize |-> DefaultAccess]

vars == <<P!vars, encl_pam, encl_counter, slot_written, pam_buffer, pam_counter, hot>>

(* The PwsSize pages with the highest counters the enclave has published  *)
(* (a slot written and not yet published is left out).                    *)
PublishedWorkingSet ==
    LET published(p) == 0 < encl_pam[p] /\ encl_pam[p] <= encl_counter IN
    {p \in Q!Pages :
        /\ published(p)
        /\ Cardinality({q \in Q!Pages : published(q) /\ encl_pam[q] > encl_pam[p]}) < PwsSize}

TypeOK == P!TypeOK /\ Q!TypeOK /\ hot \subseteq Q!Pages

Init == P!Init /\ Q!Init /\ hot = {}

-----------------------------------------------------------------------------
(* The enclave *)

(* The instrumentation records an access to page p in its PAM slot. *)
RecordAccess(p) == P!Execute(RecordSample) /\ Q!InstrWriteSlot(p) /\ UNCHANGED hot

(* It publishes the record by bumping the global counter. *)
PublishAccess == P!Execute(PublishSample) /\ Q!InstrBumpCounter /\ UNCHANGED hot

(* An instruction of the victim. *)
VictimInstruction(A) == P!Execute(A) /\ Q!OtherInstruction /\ UNCHANGED hot

-----------------------------------------------------------------------------
(* The trap handler: update_pam, then the priming return or the rest. *)

PrimeTrap == Q!Trap /\ P!PrimeTrap /\ UNCHANGED hot

HandleTrap ==
    /\ Q!Trap
    /\ P!HandleTrap
    /\ hot' = IF P!CanTriggerInterrupt THEN PublishedWorkingSet ELSE hot

Next ==
    \/ \E p \in TrackedPages : RecordAccess(p)
    \/ PublishAccess
    \/ \E A \in VictimInstructions : VictimInstruction(A)
    \/ PrimeTrap
    \/ HandleTrap

Spec == Init /\ [][Next]_vars

-----------------------------------------------------------------------------
(* Properties *)

(* Profiler's frame laws, with the mirror now moving under the trace: a   *)
(* frame shows only accesses made since the last interrupt or prefetched  *)
(* at it, and every access the TLB did not hide.                          *)
FrameSound == P!FrameSound

FrameComplete == P!FrameComplete

(* PAM's convergence law, with the instrumentation's accesses now in the *)
(* page table: after every trap the mirror holds the PwsSize pages with  *)
(* the highest counters of the map update_pam copied.                     *)
MirrorHoldsMostRecent == Q!MirrorHoldsMostRecent

(* TLBlur's promise: right after a simulated interrupt, an instruction    *)
(* that touches only pages of the working set the enclave had published   *)
(* by then, and TLBlur's own update code, counter and PAM pages, hits the *)
(* prefetched TLB and gives a single-stepping attacker nothing to         *)
(* interrupt on.  It needs update_pam to have followed every published    *)
(* record before that interrupt (the recency test, the eviction choice,   *)
(* the scan order), and the prefetch to install the mirror the same trap  *)
(* computed.                                                               *)
WorkingSetHidden ==
    [][(phase = "trap" /\ ~first_run /\ irq
          /\ P!PagesOf(pte) \subseteq hot \cup {UpdateCodePage, CounterPage, PamPage})
          => ~irq']_vars

=============================================================================

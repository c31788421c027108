----------------------------- MODULE Profiler -----------------------------
(***************************************************************************)
(* The TLBlur profiler's trap handler (tlblur.rs, main: the closure given *)
(* to create_trap_handler) together with the single-stepped enclave.      *)
(*                                                                         *)
(* The enclave executes one instruction, whose page accesses set the A/D   *)
(* bits of the page table (A: read, D: write); then the trap handler runs *)
(* under the global mutex, as one step: it samples the page table, feeds  *)
(* the misses of the simulated hardware TLB to the observation map, asks  *)
(* the attacker whether it could interrupt here, writes a trace frame if  *)
(* the attacker can observe, and then either simulates the interrupt      *)
(* (flush the TLB, prefetch the PAM mirror, stack, update code, counter   *)
(* and PAM pages) or lets the TLB cache the instruction's accesses.  It   *)
(* ends by clearing every A/D bit.  The first trap only primes the page   *)
(* table.                                                                  *)
(*                                                                         *)
(* The PAM mirror pam_active is read by the prefetch after update_pam has *)
(* run at the top of the same trap, so the handler reads pam_active'.     *)
(* Here nothing changes it: it stays the constant PamActive.  Module      *)
(* TLBlur composes this module with PAM, whose update_pam moves it.  The  *)
(* enclave layout (stack, update code, counter, PAM pages) is constant.   *)
(***************************************************************************)
EXTENDS Naturals, SequencesExt, PageAccess

CONSTANTS
    Attacker,        \* --irq-pat
    ObservePtes,     \* --observe-ptes (PageFault only)
    NoPrefetch,      \* --no-prefetch
    TLBKind, NumSets, WaysPerSet,  \* --hw-tlb, --sets, --ways
    EnclPages,       \* pages of the enclave's page-table map
    Instructions,    \* the page-table samples one instruction may leave
    PamActive,       \* the mirror pam_active starts with (and keeps, alone)
    StackPage,       \* page of the enclave's rsp at the interrupt
    UpdateCodePage,  \* page of tlblur_pam_update
    CounterPage,     \* page of __tlblur_counter
    PamPage,         \* first page of __tlblur_pam
    MaxSteps         \* instructions the enclave executes

Attackers == {"DebugSingleStep", "SingleStep", "PageFault", "Stealthy"}

ASSUME Attacker \in Attackers /\ ObservePtes \in BOOLEAN /\ NoPrefetch \in BOOLEAN

VARIABLES
    phase,         \* "run": the enclave executes; "trap": the handler runs
    first_run,     \* main: first_run
    pte,           \* A/D bits of the page table, as the accesses they record
    hw_tlb,        \* main: hw_tlb
    observations,  \* main: pte_observations, one union access per page
    live_pages,    \* Attacker::PageFault { live_pages }
    frame,         \* pages whose wire the last trace frame set (RSet)
    dumped,        \* whether the last trap wrote a frame
    irq,           \* whether the last trap simulated an interrupt
    steps,         \* instructions executed
    window,        \* history: accesses the attacker may have seen since its last clear
    pam_active     \* PAM.pam_active: the mirrored entries, in order

vars == <<phase, first_run, pte, hw_tlb, observations, live_pages, frame, dumped,
          irq, steps, window, pam_active>>

TLB == INSTANCE HardwareTLB WITH Kind <- TLBKind

PagesOf(A) == {a.page : a \in A}

-----------------------------------------------------------------------------
(* PageTableObservations *)

(* The entry kept for page q: the union of every access to q in A. *)
Merged(A, q) ==
    Access(q, \E a \in A : a.page = q /\ a.read, \E a \in A : a.page = q /\ a.write,
              \E a \in A : a.page = q /\ a.execute)

(* Mutant of ObsUpdate: an entry already present is not widened. *)
ObsUpdateNoUnion(obs, A) ==
    obs \cup {Merged(A, q) : q \in PagesOf(A) \ PagesOf(obs)}

(* Mutant of ObsUpdate: the accesses are added as they come, a second    *)
(* entry for a page beside the first.                                      *)
ObsUpdateAppend(obs, A) == obs \cup A

(* PageTableObservations::update: per page, union the new permissions in. *)
ObsUpdate(obs, A) == {Merged(obs \cup A, q) : q \in PagesOf(obs \cup A)}

-----------------------------------------------------------------------------
(* Attacker *)

(* The page-table samples the TLB would not have hidden. *)
Misses == {a \in pte : ~TLB!Test(hw_tlb, a)}

(* Attacker::can_trigger_interrupt *)
CanTriggerInterrupt ==
    CASE Attacker = "DebugSingleStep" -> TRUE
      [] Attacker = "SingleStep"      -> Misses # {}
      [] Attacker = "PageFault"       -> \E a \in Misses : a.page \notin live_pages
      [] Attacker = "Stealthy"        -> FALSE

(* Attacker::observe: the accesses it writes, given the updated map; the  *)
(* RSet trace sets the wire of each page written with the read bit.        *)
Observe(obs) ==
    LET shown == IF Attacker = "PageFault" /\ ~ObservePtes
                 THEN {a \in Misses : a.page \notin live_pages}
                 ELSE obs
    IN {a.page : a \in {b \in shown : b.read}}

(* handle_interrupt of PageFault: live_pages := every accessed page. *)
InterruptLivePages == PagesOf(pte)

-----------------------------------------------------------------------------
(* The prefetch after a simulated interrupt, in the order of the code. *)

(* rsp page and its neighbours; stack_page - 1 wraps at page 0 (release    *)
(* build) and the range is empty.                                          *)
StackPrefetch ==
    IF StackPage = 0 THEN <<>>
    ELSE [i \in 1 .. 3 |-> Access(StackPage + i - 2, TRUE, FALSE, TRUE)]

(* pam_page ..= pam_page + pam_buffer.len() * 8 / 4096, where the buffer   *)
(* has num_pages * 8 entries.                                              *)
PamPrefetch ==
    LET last == PamPage + (Cardinality(EnclPages) * 8 * 8) \div 4096 IN
    [i \in 1 .. (last - PamPage + 1) |-> Access(PamPage + i - 1, TRUE, TRUE, FALSE)]

Prefetch(active) ==
    active \o StackPrefetch
              \o <<Access(UpdateCodePage, TRUE, FALSE, TRUE)>>
              \o <<Access(CounterPage, TRUE, TRUE, FALSE)>>
              \o PamPrefetch

(* Mutant of AfterInterrupt: handle_interrupt keeps the observations. *)
AfterInterruptNoClear(obs, active) ==
    IF NoPrefetch THEN obs ELSE ObsUpdate(obs, ToSet(Prefetch(active)))

(* The observations after an interrupt: handle_interrupt clears them, then *)
(* the prefetch updates them with every prefetched access.                 *)
AfterInterrupt(obs, active) ==
    IF NoPrefetch THEN {} ELSE ObsUpdate({}, ToSet(Prefetch(active)))

(* HardwareTLB::update iterates the samples in page order. *)
InPageOrder(A) == SetToSortSeq(A, LAMBDA a, b : a.page < b.page)

-----------------------------------------------------------------------------

TypeOK ==
    /\ phase \in {"run", "trap"}
    /\ first_run \in BOOLEAN
    /\ pte \subseteq PageAccesses(EnclPages)
    /\ observations \subseteq PageAccesses(Nat)
    /\ \A a, b \in observations : a.page = b.page => a = b
    /\ frame \subseteq Nat
    /\ live_pages \subseteq EnclPages
    /\ dumped \in BOOLEAN /\ irq \in BOOLEAN
    /\ steps \in 0 .. MaxSteps

(* The enclave has been created: the page table holds whatever enclave     *)
(* initialisation left in it; nothing is cached or observed yet.           *)
Init ==
    /\ phase = "run"
    /\ first_run = TRUE
    /\ pte \in Instructions
    /\ hw_tlb = TLB!EmptyTLB
    /\ observations = {}
    /\ live_pages = {}
    /\ frame = {} /\ dumped = FALSE /\ irq = FALSE
    /\ steps = 0
    /\ window = {}
    /\ pam_active = PamActive

-----------------------------------------------------------------------------
(* The enclave *)

(* One single-stepped instruction: the hardware sets the A/D bits of the   *)
(* pages it touches (the real TLB was flushed by the trap).                *)
Execute(A) ==
    /\ phase = "run"
    /\ steps < MaxSteps
    /\ pte' = {Merged(pte \cup A, q) : q \in PagesOf(pte \cup A)}
    /\ steps' = steps + 1
    /\ phase' = "trap"
    /\ UNCHANGED <<first_run, hw_tlb, observations, live_pages, frame, dumped, irq,
                   window>>

-----------------------------------------------------------------------------
(* The trap handler *)

(* The first trap primes the page table: it clears the A/D bits left by   *)
(* enclave initialisation and returns.                                     *)
PrimeTrap ==
    /\ phase = "trap"
    /\ first_run
    /\ first_run' = FALSE
    /\ pte' = {}
    /\ phase' = "run"
    /\ UNCHANGED <<hw_tlb, observations, live_pages, frame, dumped, irq, steps,
                   window>>

(* Every later trap: sample, observe, decide, then interrupt or cache.     *)
(* Attacker::can_observe: Stealthy observes at every step, the others only *)
(* when they interrupt.                                                    *)
CanObserveAlways == Attacker = "Stealthy"

(* Attacker::handle_step: Stealthy clears its observations after every step. *)
HandleStep(obs) == IF Attacker = "Stealthy" THEN {} ELSE obs

HandleTrap ==
    LET prefetch == Prefetch(pam_active')
        obs1 == ObsUpdate(observations, Misses)
        trig == CanTriggerInterrupt
        show == CanObserveAlways \/ trig
        obs2 == HandleStep(obs1)
        flushed == TLB!Flush(hw_tlb)
    IN
    /\ phase = "trap"
    /\ ~first_run
    /\ frame' = IF show THEN Observe(obs1) ELSE frame
    /\ dumped' = show
    /\ irq' = trig
    /\ IF trig
       THEN /\ live_pages' = IF Attacker = "PageFault" THEN InterruptLivePages ELSE live_pages
            /\ hw_tlb' = IF NoPrefetch THEN flushed ELSE TLB!Update(flushed, prefetch)
            /\ observations' = AfterInterrupt(obs2, pam_active')
       ELSE /\ hw_tlb' = TLB!Update(hw_tlb, InPageOrder(pte))
            /\ observations' = obs2
            /\ UNCHANGED live_pages
    /\ pte' = {}
    /\ phase' = "run"
    /\ window' = IF trig THEN (IF NoPrefetch THEN {} ELSE ToSet(prefetch))
                 ELSE IF Attacker = "Stealthy" THEN {}
                 ELSE window \cup pte
    /\ UNCHANGED <<first_run, steps>>

(* Alone, the profiler never updates its mirror. *)
Next ==
    /\ UNCHANGED pam_active
    /\ \/ \E A \in Instructions : Execute(A)
       \/ PrimeTrap
       \/ HandleTrap

Spec == Init /\ [][Next]_vars

-----------------------------------------------------------------------------
(* Properties *)


(* Attacker::observe / PageTableObservations: every access a trace frame   *)
(* shows was made by the enclave since the attacker's observations were    *)
(* last cleared (at its last interrupt, or at every step for Stealthy), or *)
(* was prefetched at that interrupt: a frame never reports a stale access. *)
FrameSound ==
    [][(phase = "trap" /\ dumped') => frame' \subseteq PagesOf({a \in window \cup pte : a.read})]_vars

(* Every page the instruction touched and the TLB did not hide is in the   *)
(* frame written for it, whatever entry the observation map already held   *)
(* for the page (a prefetched PAM default entry has no read bit; update    *)
(* must union the read in); PageFault without --observe-ptes shows only    *)
(* non-live pages.                                                         *)
FrameComplete ==
    [][(phase = "trap" /\ ~first_run /\ dumped' /\ ~(Attacker = "PageFault" /\ ~ObservePtes))
          => PagesOf(Misses) \subseteq frame']_vars

(* TLBlur's prefetch is capability-preserving: right after an interrupt,   *)
(* an instruction that touches only pages the handler prefetched (the      *)
(* placeholder entries of the mirror, which carry no right, aside) hits    *)
(* the TLB and gives the attacker nothing to interrupt on.                 *)
PrefetchHidesPrefetchedPages ==
    [][(phase = "trap" /\ irq /\ ~NoPrefetch /\ Attacker = "SingleStep"
          /\ PagesOf(pte) \subseteq PagesOf({a \in ToSet(Prefetch(pam_active)) : a.read}))
          => ~irq']_vars

=============================================================================

-------------------------------- MODULE PAM --------------------------------
(***************************************************************************)
(* The profiler's mirror of the enclave's page-access map (tlblur.rs, PAM *)
(* and PAM::update_pam), together with the enclave instrumentation that   *)
(* maintains the authoritative map.                                        *)
(*                                                                         *)
(* The instrumented enclave keeps one 64-bit counter per page              *)
(* (__tlblur_pam) and a global counter (__tlblur_counter).  On a tracked   *)
(* access it first writes the page's slot with the next counter value and *)
(* then bumps the global counter; that code is not part of the repository *)
(* and is modelled from the spec.  The profiler is single-stepping the    *)
(* enclave: after every enclave instruction the trap handler runs and the *)
(* first thing it does is update_pam.  The mirror keeps PwsSize entries,  *)
(* the pages the profiler will prefetch on an interrupt.                  *)
(***************************************************************************)
EXTENDS Naturals, SequencesExt, PageAccess

CONSTANTS
    NumPages,      \* pages of the enclave, numbered 0 .. NumPages-1
    TrackedPages,  \* pages whose accesses the instrumentation records
    PwsSize,       \* --pws-size: entries of the profiler's mirror
    MaxCounter     \* bound on the enclave's global counter

Pages == 0 .. NumPages - 1

ASSUME TrackedPages \subseteq Pages /\ PwsSize \in Nat /\ MaxCounter \in Nat

VARIABLES
    encl_pam,       \* enclave memory: __tlblur_pam, one counter per page
    encl_counter,   \* enclave memory: __tlblur_counter
    slot_written,   \* instrumentation wrote a slot and has not bumped yet
    pam_buffer,     \* PAM.pam_buffer: the profiler's last copy of encl_pam
    pam_active,     \* PAM.pam_active: the PwsSize mirrored entries
    pam_counter,    \* PAM.pam_counter: the counter last acted upon
    phase           \* "run": the enclave executes one instruction; "trap"

encl_vars == <<encl_pam, encl_counter, slot_written>>
mirror_vars == <<pam_buffer, pam_active, pam_counter>>
vars == <<encl_vars, mirror_vars, phase>>

TypeOK ==
    /\ encl_pam \in [Pages -> 0 .. MaxCounter]
    /\ encl_counter \in 0 .. MaxCounter
    /\ slot_written \in BOOLEAN
    /\ pam_buffer \in [Pages -> 0 .. MaxCounter]
    /\ pam_active \in [1 .. PwsSize -> PageAccesses(Pages)]
    /\ pam_counter \in 0 .. MaxCounter
    /\ phase \in {"run", "trap"}

(* PAM::new: a zeroed buffer and PwsSize default (page 0, no permission)   *)
(* entries.  The enclave starts with a zeroed map and counter.             *)
Init ==
    /\ encl_pam = [p \in Pages |-> 0]
    /\ encl_counter = 0
    /\ slot_written = FALSE
    /\ pam_buffer = [p \in Pages |-> 0]
    /\ pam_active = [i \in 1 .. PwsSize |-> DefaultAccess]
    /\ pam_counter = 0
    /\ phase = "run"

-----------------------------------------------------------------------------
(* The mirror update, PAM::update_pam, as operators on its inputs.         *)

(* The page's counter is recent enough to enter the mirror. *)
Recent(buf, new, p) == buf[p] >= new - 1 /\ buf[p] > 0

(* The min_by_key key of an entry: an entry on page 0 counts as empty.     *)
EvictionKey(buf, e) == IF e.page = 0 THEN 0 ELSE buf[e.page]

(* Mutant of Victim: the entry of greatest key is evicted (max_by_key). *)
VictimMostRecent(buf, active) ==
    CHOOSE i \in DOMAIN active :
        \A j \in DOMAIN active : EvictionKey(buf, active[i]) >= EvictionKey(buf, active[j])

(* min_by_key returns the first entry of least key. *)
Victim(buf, active) ==
    CHOOSE i \in DOMAIN active :
        \A j \in DOMAIN active :
            \/ EvictionKey(buf, active[i]) < EvictionKey(buf, active[j])
            \/ EvictionKey(buf, active[i]) = EvictionKey(buf, active[j]) /\ i <= j

InMirror(active, p) == \E i \in DOMAIN active : active[i].page = p

(* Mutant of ScanPage: a recent page is pushed onto the mirror instead of *)
(* replacing the victim.                                                   *)
ScanPagePushing(buf, new, active, p) ==
    IF Recent(buf, new, p) /\ ~InMirror(active, p) /\ DOMAIN active # {}
    THEN Append(active, Access(p, TRUE, TRUE, TRUE))
    ELSE active

(* Mutant of ScanPage: the "already in PAM" check is dropped. *)
ScanPageNoMembershipCheck(buf, new, active, p) ==
    IF Recent(buf, new, p) /\ DOMAIN active # {}
    THEN [active EXCEPT ![Victim(buf, active)] = Access(p, TRUE, TRUE, TRUE)]
    ELSE active

(* One iteration of the loop over the buffer: a recent page not yet in the *)
(* mirror replaces the victim, with every permission set.                  *)
ScanPage(buf, new, active, p) ==
    IF Recent(buf, new, p) /\ ~InMirror(active, p) /\ DOMAIN active # {}
    THEN [active EXCEPT ![Victim(buf, active)] = Access(p, TRUE, TRUE, TRUE)]
    ELSE active

(* The loop visits the pages in index order. *)
ScanMirror(buf, new, active) ==
    FoldLeft(LAMBDA acc, p : ScanPage(buf, new, acc, p), active,
             [i \in 1 .. NumPages |-> i - 1])

(* update_pam: read the counter; if it moved, copy the whole map and scan  *)
(* it.  pam_counter only follows the enclave when some page was recent.    *)
UpdatePam ==
    LET new == encl_counter IN
    IF new = pam_counter
    THEN UNCHANGED mirror_vars
    ELSE /\ pam_buffer' = encl_pam
         /\ pam_active' = ScanMirror(encl_pam, new, pam_active)
         /\ pam_counter' = IF \E p \in Pages : Recent(encl_pam, new, p)
                           THEN new ELSE pam_counter

-----------------------------------------------------------------------------
(* Enclave instructions: one per single step. *)

(* The instrumentation records an access: slot := counter + 1. *)
InstrWriteSlot(p) ==
    /\ phase = "run"
    /\ ~slot_written
    /\ encl_counter < MaxCounter
    /\ encl_pam' = [encl_pam EXCEPT ![p] = encl_counter + 1]
    /\ slot_written' = TRUE
    /\ phase' = "trap"
    /\ UNCHANGED <<encl_counter, mirror_vars>>

(* ... and then publishes it by bumping the global counter. *)
InstrBumpCounter ==
    /\ phase = "run"
    /\ slot_written
    /\ encl_counter' = encl_counter + 1
    /\ slot_written' = FALSE
    /\ phase' = "trap"
    /\ UNCHANGED <<encl_pam, mirror_vars>>

(* Any other instruction leaves the map alone. *)
OtherInstruction ==
    /\ phase = "run"
    /\ ~slot_written
    /\ phase' = "trap"
    /\ UNCHANGED <<encl_vars, mirror_vars>>

(* The single-step trap: update_pam, first step of the trap handler. *)
Trap ==
    /\ phase = "trap"
    /\ UpdatePam
    /\ phase' = "run"
    /\ UNCHANGED encl_vars

Next ==
    \/ \E p \in TrackedPages : InstrWriteSlot(p)
    \/ InstrBumpCounter
    \/ OtherInstruction
    \/ Trap

Spec == Init /\ [][Next]_vars

-----------------------------------------------------------------------------
(* Properties *)

(* Pages the mirror holds: entries written by update_pam carry permissions;*)
(* the default entries do not.                                             *)
MirroredPages == {pam_active[i].page : i \in {j \in DOMAIN pam_active : pam_active[j].read}}

(* Pages of the last copy ranked among the PwsSize most recently used. *)
MostRecent(buf) ==
    {p \in Pages : buf[p] > 0 /\
        Cardinality({q \in Pages : buf[q] > buf[p]}) < PwsSize}

(* Spec law "PAM convergence": after the trap handler has run update_pam,  *)
(* the mirror holds the PwsSize pages with the highest counters of the map *)
(* it copied, so the prefetch on the next interrupt covers the enclave's   *)
(* working set.  It is about the eviction choice and the recency test of  *)
(* update_pam, applied page by page in index order over several traps.    *)
MirrorHoldsMostRecent ==
    phase = "run" => MostRecent(pam_buffer) \subseteq MirroredPages

=============================================================================

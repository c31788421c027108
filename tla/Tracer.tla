------------------------------ MODULE Tracer ------------------------------
(***************************************************************************)
(* The page-access tracer (profiler/src/tracer.rs) with the page table of  *)
(* lib.rs and the VCD writer of dump.rs.  The enclave is single-stepped;   *)
(* after each instruction the SIGTRAP handler (one atomic step: it holds  *)
(* the mutex of trap_handler_wrapper and the enclave waits) samples the   *)
(* A/D bits, writes them as one step of an RSet trace and clears them.    *)
(* Unlike the tlblur handler, it has no priming first trap.               *)
(***************************************************************************)
EXTENDS Naturals, SequencesExt, PageAccess

CONSTANTS
    EnclPages,     \* pages of the enclave that have a PTE
    Instructions,  \* the sets of accesses one instruction may make
    SetupStates,   \* A/D states enclave initialisation may leave
    Wires, Channels, WriteErip, EripWidth, Rips, MaxSteps

VARIABLES
    phase,    \* "run": the enclave executes; "trap": the handler is due
    pte,      \* A/D bits of the page table, as the accesses they record
    stepped,  \* history: the accesses of the last single-stepped instruction
    wire, log, ts, last

dump_vars == <<wire, log, ts, last>>
vars == <<phase, pte, stepped, dump_vars>>

VCD == INSTANCE VCDDump WITH Frames <- {}

PagesOf(A) == {a.page : a \in A}

(* The accesses of A merged with those of B, one per page. *)
Merge(A, B) ==
    {Access(q, \E a \in A \cup B : a.page = q /\ a.read,
               \E a \in A \cup B : a.page = q /\ a.write,
               \E a \in A \cup B : a.page = q /\ a.execute) : q \in PagesOf(A \cup B)}

(* PageTable::update_page_accesses: every accessed page in page order,    *)
(* read, written if dirty, never executed.                                 *)
UpdatePageAccesses ==
    LET ps == VCD!InOrder(PagesOf(pte)) IN
    [i \in DOMAIN ps |-> Access(ps[i], TRUE, \E a \in pte : a.page = ps[i] /\ a.write, FALSE)]

TypeOK ==
    /\ phase \in {"run", "trap"}
    /\ pte \subseteq PageAccesses(EnclPages)
    /\ VCD!TypeOK

(* PageTable::new cleared the A/D bits and create_dumper wrote the header *)
(* and the initial values; enclave initialisation has run since.          *)
Init ==
    /\ phase = "run"
    /\ pte \in SetupStates
    /\ stepped = {}
    /\ VCD!DumpInit

(* One single-stepped instruction: the hardware sets the A/D bits of the  *)
(* pages it touches.                                                       *)
Execute(A) ==
    /\ phase = "run"
    /\ ts < MaxSteps
    /\ pte' = Merge(pte, A)
    /\ stepped' = A
    /\ phase' = "trap"
    /\ UNCHANGED dump_vars

(* Mutant of Trap: the A/D bits are not cleared after the step. *)
TrapNoClear ==
    /\ phase = "trap"
    /\ \E rip \in Rips : VCD!NextStep(UpdatePageAccesses, rip)
    /\ phase' = "run"
    /\ UNCHANGED <<pte, stepped>>

(* The handler closure of tracer.rs: next_step writes the erip (--erip)  *)
(* and the sampled pages, then clear_all_ad_bits.                          *)
Trap ==
    /\ phase = "trap"
    /\ \E rip \in Rips : VCD!NextStep(UpdatePageAccesses, rip)
    /\ pte' = {}
    /\ phase' = "run"
    /\ UNCHANGED stepped

Next == (\E A \in Instructions : Execute(A)) \/ Trap

Spec == Init /\ [][Next]_vars

-----------------------------------------------------------------------------
(* Properties *)

(* The pages a reader of the trace sees set after the last step. *)
Shown == {p \in Wires : VCD!ValueAt(Len(log), "r", p)}

(* From the second step on, the trace shows after each step exactly the   *)
(* pages the single-stepped instruction touched: the A/D bits cleared at  *)
(* the end of each trap leave nothing of earlier instructions behind.     *)
StepShowsInstruction ==
    (phase = "run" /\ ts > 1) => Shown = PagesOf(stepped)

(* Spec 4.1-4.2: A/D bits are sampled and cleared each step, and the     *)
(* first trap is a priming step, so that stale accessed state of enclave *)
(* initialisation is never reported: every step of the trace, the first  *)
(* included, shows exactly the pages of the instruction.                 *)
EveryStepShowsInstruction ==
    (phase = "run" /\ ts > 0) => Shown = PagesOf(stepped)

=============================================================================

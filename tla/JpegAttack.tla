---------------------------- MODULE JpegAttack ----------------------------
(***************************************************************************)
(* The page-fault attack on the libjpeg enclave (libjpeg/attack/src/      *)
(* main.rs, mod sgx: GlobalState, protect_next_pages, fault_handler,       *)
(* attack_enclave).  The attacker revokes access to the pages whose access *)
(* would move the JpegState machine on; each fault advances the machine,   *)
(* feeds the reconstruction, revokes the pages of the new successors and   *)
(* restores the faulting page (with --aexnotify: the last two faulting     *)
(* pages).  The handler holds the global mutex while the enclave thread    *)
(* waits on the fault, so a fault is handled in one step.                  *)
(*                                                                         *)
(* The victim enclave is not part of the repository.  Its IDCT loop is     *)
(* modelled from the spec's page table and scenario S1: a start page, then *)
(* rows, each a row-start page followed by blocks; a block runs the IDCT   *)
(* code page and loads from data pages, and is followed by the next       *)
(* block's pre-IDCT page or the next row's page.  A load may cross from   *)
(* one data page into the next, and between two loads the IDCT code may  *)
(* run an instruction that touches no data page (arithmetic on registers). *)
(* An instruction retires once none of its  *)
(* pages is revoked; until then it faults on one of its revoked pages.     *)
(***************************************************************************)
EXTENDS Naturals, SequencesExt, JpegState

CONSTANTS
    HasAexNotify,      \* --aexnotify
    DataPages,         \* data pages the victim loads from
    CrossPageLoads,    \* whether a load may touch two data pages
    RegisterOnly,      \* whether the IDCT code runs register-only instructions
    MaxRows,           \* bound on rows the victim decodes
    MaxBlocks,         \* bound on blocks per row
    MaxLoads,          \* bound on IDCT instructions per block
    MaxFaultsPerInstr  \* bound on faults one instruction may take

(* Pages of the victim's code the model names: Start, StartRow,            *)
(* PreIdctSlow, NextRow and IdctSlow ranges.                               *)
CodePages == {54, 58, 59, 44, 63}
ModelPages == CodePages \cup DataPages

VARIABLES
    state,         \* GlobalState.state
    reconstruct,   \* GlobalState.reconstruct
    working_set,   \* GlobalState.working_set
    prev_page,     \* GlobalState.prev_page
    revoked,       \* model pages to which access is revoked
    instr,         \* pages of the victim's current instruction, {} if none
    instr_faults,  \* faults taken by the current instruction
    vpc,           \* where the victim is in its loop
    rows, blocks, loads  \* the victim's loop counters

attack_vars == <<state, reconstruct, working_set, prev_page, revoked>>
victim_vars == <<instr, instr_faults, vpc, rows, blocks, loads>>
vars == <<attack_vars, victim_vars>>

Tags == {"PreStart", "Start", "NextRow", "StartRow", "PreIdctSlow",
         "StartIdctSlow", "IdctSlow", "DataCount"}

TypeOK ==
    /\ state \in [tag : Tags, n : Nat]
    /\ reconstruct.current_color \in 0 .. NumColors - 1
    /\ working_set \in BoundedSeq(ModelPages, 2)
    /\ prev_page \in ModelPages \cup {0}
    /\ revoked \subseteq ModelPages
    /\ instr \subseteq ModelPages
    /\ instr_faults \in 0 .. MaxFaultsPerInstr
    /\ vpc \in {"start", "row", "idct", "load", "done"}

-----------------------------------------------------------------------------
(* The attacker *)

(* revoke_pages over the ranges: the model pages they contain. *)
RangePages(ranges) == {p \in ModelPages : \E r \in ranges : r[1] <= p /\ p < r[2]}

(* GlobalState::protect_next_pages for the state s. *)
ProtectNextPages(s) == revoked \cup RangePages(NextPageRanges(s, HasAexNotify))

(* Mutant of PushWorkingSet: the oldest page is never dropped. *)
PushWorkingSetUnbounded(ws, p) == Append(ws, p)

(* Mutant of PushWorkingSet: a working set of one page. *)
PushWorkingSetOfOne(ws, p) == <<p>>

(* The faulting page joins the working set; beyond two pages the oldest   *)
(* leaves it.                                                              *)
PushWorkingSet(ws, p) ==
    IF Len(Append(ws, p)) > 2 THEN Tail(Append(ws, p)) ELSE Append(ws, p)

(* Mutant of FaultHandler: the successors of the old state are protected. *)
FaultHandlerProtectingOld(p) ==
    LET new == NextState(state, p, HasAexNotify)
        ws  == PushWorkingSet(working_set, p)
    IN /\ state' = new
       /\ reconstruct' = Reconstruct(reconstruct, state, new)
       /\ IF HasAexNotify
          THEN /\ working_set' = ws
               /\ revoked' = ProtectNextPages(state) \ ToSet(ws)
          ELSE /\ revoked' = ProtectNextPages(state) \ {p}
               /\ UNCHANGED working_set
       /\ prev_page' = p

(* Mutant of FaultHandler: without --aexnotify the page of the previous  *)
(* fault is restored instead of the faulting one.                          *)
FaultHandlerRestoringPrev(p) ==
    LET new == NextState(state, p, HasAexNotify)
        ws  == PushWorkingSet(working_set, p)
    IN /\ state' = new
       /\ reconstruct' = Reconstruct(reconstruct, state, new)
       /\ IF HasAexNotify
          THEN /\ working_set' = ws
               /\ revoked' = ProtectNextPages(new) \ ToSet(ws)
          ELSE /\ revoked' = ProtectNextPages(new) \ {prev_page}
               /\ UNCHANGED working_set
       /\ prev_page' = p

(* fault_handler: transition, reconstruct, protect the successors' pages,  *)
(* then restore the faulting page or the working set.                     *)
FaultHandler(p) ==
    LET new == NextState(state, p, HasAexNotify)
        ws  == PushWorkingSet(working_set, p)
    IN /\ state' = new
       /\ reconstruct' = Reconstruct(reconstruct, state, new)
       /\ IF HasAexNotify
          THEN /\ working_set' = ws
               /\ revoked' = ProtectNextPages(new) \ ToSet(ws)
          ELSE /\ revoked' = ProtectNextPages(new) \ {p}
               /\ UNCHANGED working_set
       /\ prev_page' = p

(* attack_enclave: the state is initialised and PreStart's successors are  *)
(* protected before decompress_image runs the victim.                      *)
Init ==
    /\ state = St("PreStart")
    /\ reconstruct = NewReconstruct
    /\ working_set = <<>>
    /\ prev_page = 0
    /\ revoked = RangePages(NextPageRanges(St("PreStart"), FALSE))
    /\ instr = {}
    /\ instr_faults = 0
    /\ vpc = "start"
    /\ rows = 0 /\ blocks = 0 /\ loads = 0

-----------------------------------------------------------------------------
(* The victim *)

(* The victim starts its next instruction. *)
Issue(pages, pc, r, b, l) ==
    /\ instr = {}
    /\ instr' = pages /\ instr_faults' = 0
    /\ vpc' = pc /\ rows' = r /\ blocks' = b /\ loads' = l
    /\ UNCHANGED attack_vars

IssueStart == vpc = "start" /\ Issue({54}, "row", 0, 0, 0)

IssueStartRow == vpc = "row" /\ Issue({58}, "idct", rows, 0, 0)

IssueIdct == vpc = "idct" /\ Issue({63}, "load", rows, blocks, 0)

(* A load by the IDCT code from one data page, or across two. *)
IssueLoad(d) ==
    /\ vpc = "load" /\ loads < MaxLoads
    /\ Issue({63} \cup d, "load", rows, blocks, loads + 1)

(* An IDCT instruction between loads that touches only the code page. *)
IssueCompute ==
    /\ RegisterOnly /\ vpc = "load" /\ 0 < loads /\ loads < MaxLoads
    /\ Issue({63}, "load", rows, blocks, loads + 1)

IssueNextBlock ==
    /\ vpc = "load" /\ loads > 0 /\ blocks + 1 < MaxBlocks
    /\ Issue({59}, "idct", rows, blocks + 1, 0)

IssueNextRow ==
    /\ vpc = "load" /\ loads > 0 /\ rows + 1 < MaxRows
    /\ Issue({44}, "row", rows + 1, 0, 0)

(* decompress_image returns after the last block. *)
VictimReturns ==
    /\ vpc = "load" /\ loads > 0 /\ instr = {}
    /\ vpc' = "done"
    /\ UNCHANGED <<attack_vars, instr, instr_faults, rows, blocks, loads>>

(* The instruction touches a revoked page: the fault handler runs. *)
Fault(p) ==
    /\ p \in instr \cap revoked
    /\ instr_faults < MaxFaultsPerInstr
    /\ FaultHandler(p)
    /\ instr_faults' = instr_faults + 1
    /\ UNCHANGED <<instr, vpc, rows, blocks, loads>>

(* All of its pages are accessible: the instruction retires. *)
Retire ==
    /\ instr # {} /\ instr \cap revoked = {}
    /\ instr' = {}
    /\ UNCHANGED <<attack_vars, instr_faults, vpc, rows, blocks, loads>>

Loads ==
    {{d} : d \in DataPages} \cup
    IF CrossPageLoads THEN {{d, d + 1} : d \in {x \in DataPages : x + 1 \in DataPages}}
                      ELSE {}

Next ==
    \/ IssueStart \/ IssueStartRow \/ IssueIdct
    \/ \E d \in Loads : IssueLoad(d)
    \/ IssueCompute
    \/ IssueNextBlock \/ IssueNextRow \/ VictimReturns
    \/ \E p \in ModelPages : Fault(p)
    \/ Retire

Spec == Init /\ [][Next]_vars

-----------------------------------------------------------------------------
(* Properties *)

(* Pages the last fault left accessible. *)
Restored == IF HasAexNotify THEN ToSet(working_set) ELSE {prev_page}

(* After every fault, each page that would move the machine on is revoked  *)
(* unless the handler has just restored it: protect_next_pages must run on *)
(* the new state and before the restore, or a transition of the victim     *)
(* goes unseen and the count of the block is wrong.                        *)
NextPagesRevoked ==
    RangePages(NextPageRanges(state, HasAexNotify)) \subseteq revoked \cup Restored

(* No instruction of the victim faults more often than it has pages: the   *)
(* restore after a fault is never undone by the revocation of the next     *)
(* fault before the instruction retires, so the enclave cannot livelock.   *)
InstructionFaultsBounded == instr # {} => instr_faults <= Cardinality(instr)

(* Spec 4.7, rendering: once decompress_image has returned, the attack    *)
(* renders the reconstruction as a bitmap of width max row length and     *)
(* height current_row; reconstructed_bitmap must not panic.                *)
ImageRenders == vpc = "done" => ~BitmapPanics(reconstruct)

=============================================================================

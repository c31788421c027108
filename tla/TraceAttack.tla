---------------------------- MODULE TraceAttack ----------------------------
(***************************************************************************)
(* The two ways the libjpeg attack sees one run of the victim.  Online     *)
(* (JpegAttack): fault_handler advances the machine on each page fault.    *)
(* Offline: the run is recorded by the tracer, one RSet step per retired  *)
(* instruction with the pages it touched (in page order, as                *)
(* update_page_accesses samples them), and trace::attack_vcd replays the  *)
(* recording once the victim has finished: every change of a page wire to *)
(* 1 is an access.  Faults do not change the victim's path, so both see   *)
(* the same instructions.  attack_vcd runs offline, after the recording   *)
(* is complete and alone, so its loop over the file is one step.          *)
(***************************************************************************)
EXTENDS JpegAttack

CONSTANTS MaxTraceSteps   \* bound on recorded steps, above what the victim retires

VARIABLES
    wire, log, ts, last,   \* the recording (VCDDump)
    tstate,                \* attack_vcd's state
    trec,                  \* attack_vcd's reconstruct
    cursor                 \* commands of the recording attack_vcd has read (0 or all)

dump_vars == <<wire, log, ts, last>>
replay_vars == <<tstate, trec, cursor>>
all_vars == <<vars, dump_vars, replay_vars>>

VCD == INSTANCE VCDDump WITH
    Wires <- ModelPages, Channels <- <<"r">>, WriteErip <- FALSE,
    EripWidth <- 1, Rips <- {0}, Frames <- {}, MaxSteps <- MaxTraceSteps

(* The accesses the tracer samples for an instruction, in page order. *)
Sampled(pages) ==
    LET ps == VCD!InOrder(pages) IN
    [i \in DOMAIN ps |-> [page |-> ps[i], read |-> TRUE, write |-> FALSE, execute |-> FALSE]]

TraceInit ==
    /\ Init
    /\ VCD!DumpInit
    /\ tstate = St("PreStart")
    /\ trec = NewReconstruct
    /\ cursor = 0

(* A retired instruction is one step of the recording. *)
RetireRecorded ==
    /\ Retire
    /\ VCD!NextStep(Sampled(instr), 0)
    /\ UNCHANGED replay_vars

(* Mutant of Rises: the value of the change is not checked. *)
RisesAnyChange == SelectSeq(log, LAMBDA c : c.kind = "scalar")

(* The commands attack_vcd's loop acts on: changes of a page wire to 1. *)
(* The loop skips every other command.                                    *)
Rises == SelectSeq(log, LAMBDA c : c.kind = "scalar" /\ c.v)

(* The body of attack_vcd's loop on a change to 1: it moves the machine  *)
(* on and feeds the reconstruction.                                        *)
ReadCommand(acc, c) ==
    LET new == NextState(acc.state, c.page, HasAexNotify)
    IN [state |-> new, rec |-> Reconstruct(acc.rec, acc.state, new)]

(* The loop over the commands lo .. hi of cmds, read as two halves: the  *)
(* first half's result is evaluated before the second half starts from it *)
(* (TLC passes arguments unevaluated; without it the nesting is as deep  *)
(* as the recording is long).                                             *)
RECURSIVE ReadRange(_, _, _, _)
ReadRange(acc, cmds, lo, hi) ==
    IF lo > hi THEN acc
    ELSE IF lo = hi THEN ReadCommand(acc, cmds[lo])
    ELSE LET mid   == (lo + hi) \div 2
             first == ReadRange(acc, cmds, lo, mid)
         IN IF first = first THEN ReadRange(first, cmds, mid + 1, hi) ELSE first

(* attack_vcd: the loop over every command of the finished recording. *)
Replay ==
    LET r == ReadRange([state |-> tstate, rec |-> trec], Rises, 1, Len(Rises)) IN
    /\ vpc = "done" /\ cursor = 0
    /\ tstate' = r.state
    /\ trec' = r.rec
    /\ cursor' = Len(log)
    /\ UNCHANGED <<vars, dump_vars>>

TraceNext ==
    \/ (Next /\ ~Retire /\ UNCHANGED <<dump_vars, replay_vars>>)
    \/ RetireRecorded
    \/ Replay

TraceSpec == TraceInit /\ [][TraceNext]_all_vars

-----------------------------------------------------------------------------

(* Once the victim has finished and attack_vcd has read the whole          *)
(* recording, the offline attack has reached the state and reconstruction  *)
(* of the online one: the page faults fault_handler takes are the wire    *)
(* changes to 1 the tracer records.                                        *)
SameReconstruction ==
    (vpc = "done" /\ cursor = Len(log)) =>
        /\ tstate = state
        /\ trec = reconstruct

(* The recording loses no change: reading the whole file gives every page *)
(* wire the value the last recorded step left it, as the diff encoding of  *)
(* VCDStatefulSet::update_state must.  (Replay leaves the recording       *)
(* unchanged, so it is checked until attack_vcd reads it.)                 *)
RecordingShowsLastStep == cursor = 0 => VCD!WaveformShowsLastFrame

(* A jagged buffer of block counts has the shape of another and counts    *)
(* at least as much in every block.                                        *)
CountsAtLeast(big, small) ==
    /\ DOMAIN big = DOMAIN small
    /\ \A c \in DOMAIN big :
         /\ Len(big[c]) = Len(small[c])
         /\ \A r \in DOMAIN big[c] :
              /\ Len(big[c][r]) = Len(small[c][r])
              /\ \A i \in DOMAIN big[c][r] : big[c][r][i] >= small[c][r][i]

(* Every access fault_handler counts, the recording shows: a data page is  *)
(* revoked again only by a fault on another page, so between two faults on *)
(* a page the victim ran an instruction without it and its wire fell.  At  *)
(* the end attack_vcd is in the same state as fault_handler, with the same *)
(* rows and blocks, and counts at least as many accesses in every block    *)
(* (more where a register-only instruction separates two loads of a page   *)
(* that the handler left restored).                                        *)
RecordingShowsEveryFault ==
    (vpc = "done" /\ cursor = Len(log)) =>
        /\ tstate.tag = state.tag /\ tstate.n >= state.n
        /\ trec.current_row = reconstruct.current_row
        /\ trec.current_color = reconstruct.current_color
        /\ CountsAtLeast(trec.buffer, reconstruct.buffer)

=============================================================================

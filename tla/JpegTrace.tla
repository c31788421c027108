----------------------------- MODULE JpegTrace -----------------------------
(***************************************************************************)
(* The trace simulator of the libjpeg attack (main.rs, trace::attack_vcd): *)
(* every rising edge (value 1) of a page's wire in a recorded waveform is  *)
(* an access to that page; it moves the JpegState machine on and feeds the *)
(* reconstruction with the transition.  Changes to 0 and wires that are    *)
(* not pages change nothing and are left out.                              *)
(*                                                                         *)
(* The waveform is either the fixed sequence Script or, when Script is     *)
(* empty, any sequence of MaxSteps accesses to the pages of Pages.         *)
(***************************************************************************)
EXTENDS Naturals, SequencesExt, JpegState

CONSTANTS
    Aex,        \* --aexnotify
    Pages,      \* pages a waveform may access
    MaxSteps,   \* length of the waveform
    Script      \* a fixed waveform, or <<>>

ASSUME Script # <<>> => MaxSteps = Len(Script)

VARIABLES
    state,        \* attack_vcd's state
    reconstruct,  \* attack_vcd's reconstruct
    steps,        \* accesses replayed so far
    run           \* history: data-page accesses since the machine entered DataCount

vars == <<state, reconstruct, steps, run>>

Colors == 0 .. NumColors - 1

(* The accesses the waveform may have at position i. *)
Input(i) == IF Script = <<>> THEN Pages ELSE {Script[i]}

TypeOK ==
    /\ state \in [tag : {"PreStart", "Start", "NextRow", "StartRow", "PreIdctSlow",
                         "StartIdctSlow", "IdctSlow", "DataCount"}, n : Nat]
    /\ reconstruct.current_color \in Colors
    /\ reconstruct.buffer \in [Colors -> Seq(Seq(Nat))]
    /\ steps \in 0 .. MaxSteps
    /\ run \in Nat

Init ==
    /\ state = St("PreStart")
    /\ reconstruct = NewReconstruct
    /\ steps = 0
    /\ run = 0

(* One Command::ChangeScalar(i, V1) for the wire of page p. *)
Access(p) ==
    LET new == NextState(state, p, Aex) IN
    /\ steps < MaxSteps
    /\ p \in Input(steps + 1)
    /\ state' = new
    /\ reconstruct' = Reconstruct(reconstruct, state, new)
    /\ steps' = steps + 1
    /\ run' = IF ~IsDataCount(new) THEN 0
              ELSE IF InRange(DataCount(0), Aex, p) THEN run + 1 ELSE run

(* The waveform is exhausted: attack_vcd writes its outputs and returns. *)
Done == steps = MaxSteps /\ UNCHANGED vars

Next == (\E p \in Pages \cup ToSet(Script) : Access(p)) \/ Done

Spec == Init /\ [][Next]_vars

-----------------------------------------------------------------------------
(* Properties *)

(* All counts committed to colour c, in order. *)
Committed(c) == FlattenSeq(reconstruct.buffer[c])

(* Spec, block commit law: leaving DataCount commits, to the current row   *)
(* of the current colour, the number of data-page accesses that moved the  *)
(* machine on since it entered DataCount (JpegState::next and              *)
(* JpegReconstruct::reconstruct together).                                 *)
BlockCommitLaw ==
    [][IsDataCount(state) /\ ~IsDataCount(state') =>
         LET c == reconstruct.current_color
             row == reconstruct'.buffer[c][reconstruct.current_row + 1]
         IN Len(row) > 0 /\ Last(row) = run]_vars

(* Spec, row law: every colour has current_row + 1 rows, so the rows the   *)
(* bitmap renders line up across colours.                                  *)
RowLaw == \A c \in Colors : Len(reconstruct.buffer[c]) = reconstruct.current_row + 1

(* Blocks are dealt to the colours in turn across rows (current_color is  *)
(* not reset by next_row): the colours before current_color have one      *)
(* block more than the others.                                             *)
ColorsInTurn ==
    LET k == reconstruct.current_color IN
    \A c \in Colors :
        Len(Committed(c)) + (IF 0 < k /\ k <= c THEN 1 ELSE 0) = Len(Committed(0))

(* Spec, scenario S1: once the waveform is replayed the buffer is          *)
(* [[[2, 1], [1]]] with min_data 1 and max_data 2.                         *)
S1Reconstruction ==
    steps = MaxSteps =>
        /\ reconstruct.buffer[0] = <<<<2, 1>>, <<1>>>>
        /\ reconstruct.min_data = 1
        /\ reconstruct.max_data = 2

=============================================================================

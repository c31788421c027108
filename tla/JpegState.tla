----------------------------- MODULE JpegState -----------------------------
(***************************************************************************)
(* The libjpeg page-fault attack's state machine and image reconstruction *)
(* (libjpeg/attack/src/main.rs: JpegState, JpegReconstruct), as operators  *)
(* on values.  JpegAttack (faults of a real enclave) and JpegTrace (replay *)
(* of a recorded trace) drive them.                                        *)
(*                                                                         *)
(* A JpegState is a record [tag, n]; n is the count of DataCount(n) and 0 *)
(* for the other variants.                                                 *)
(***************************************************************************)
EXTENDS Naturals, SequencesExt

CONSTANTS
    NumColors,   \* 1, or 3 with --color
    UsizeMax     \* stands for usize::MAX, above every count the model reaches

ASSUME NumColors \in {1, 3} /\ UsizeMax \in Nat

St(tag) == [tag |-> tag, n |-> 0]
DataCount(k) == [tag |-> "DataCount", n |-> k]
IsDataCount(s) == s.tag = "DataCount"

(* JpegState::pages: the half-open range [lo, hi) of pages whose access    *)
(* can move the machine into the state; PreStart and StartIdctSlow have    *)
(* none.  The DataCount range is shorter with --aexnotify.                 *)
PageRange(s, aex) ==
    CASE s.tag = "Start"       -> <<54, 55>>
      [] s.tag = "NextRow"     -> <<44, 46>>
      [] s.tag = "StartRow"    -> <<58, 59>>
      [] s.tag = "PreIdctSlow" -> <<59, 60>>
      [] s.tag = "IdctSlow"    -> <<63, 65>>
      [] s.tag = "DataCount"   -> IF aex THEN <<150, 4335>> ELSE <<150, 4340>>
      [] OTHER                 -> <<0, 0>>

InRange(s, aex, p) == PageRange(s, aex)[1] <= p /\ p < PageRange(s, aex)[2]

(* Mutant of NextStates: a data access does not increase the count. *)
NextStatesNoIncrement(s) ==
    CASE s.tag = "PreStart"    -> <<St("Start")>>
      [] s.tag = "Start"       -> <<St("StartRow")>>
      [] s.tag = "NextRow"     -> <<St("StartRow")>>
      [] s.tag = "StartRow"    -> <<St("IdctSlow")>>
      [] s.tag = "PreIdctSlow" -> <<St("IdctSlow"), St("NextRow")>>
      [] s.tag = "IdctSlow"    -> <<DataCount(1)>>
      [] s.tag = "DataCount"   -> <<DataCount(s.n), St("PreIdctSlow"), St("NextRow")>>
      [] OTHER                 -> <<>>

(* JpegState::next_states, in the order next() tries them. *)
NextStates(s) ==
    CASE s.tag = "PreStart"    -> <<St("Start")>>
      [] s.tag = "Start"       -> <<St("StartRow")>>
      [] s.tag = "NextRow"     -> <<St("StartRow")>>
      [] s.tag = "StartRow"    -> <<St("IdctSlow")>>
      [] s.tag = "PreIdctSlow" -> <<St("IdctSlow"), St("NextRow")>>
      [] s.tag = "IdctSlow"    -> <<DataCount(1)>>
      [] s.tag = "DataCount"   -> <<DataCount(s.n + 1), St("PreIdctSlow"), St("NextRow")>>
      [] OTHER                 -> <<>>

(* JpegState::next: the first successor whose range holds the page, or     *)
(* the state itself.                                                       *)
NextState(s, p, aex) ==
    LET i == SelectInSeq(NextStates(s), LAMBDA t : InRange(t, aex, p)) IN
    IF i = 0 THEN s ELSE NextStates(s)[i]

(* JpegState::next_pages: the ranges of all successors, as [lo, hi) pairs. *)
NextPageRanges(s, aex) ==
    {PageRange(NextStates(s)[i], aex) : i \in DOMAIN NextStates(s)}

-----------------------------------------------------------------------------
(* JpegReconstruct *)

(* JpegReconstruct::new: one empty row per colour. *)
NewReconstruct ==
    [current_color |-> 0,
     buffer        |-> [c \in 0 .. NumColors - 1 |-> <<<<>>>>],
     max_data      |-> 1,
     min_data      |-> UsizeMax,
     current_row   |-> 0]

(* Mutant of NextRow: only the current colour gets a new row. *)
NextRowCurrentColorOnly(r) ==
    [r EXCEPT !.buffer[r.current_color] = Append(@, <<>>),
              !.current_row = @ + 1]

(* Mutant of NextRow: each row starts again with the first colour. *)
NextRowResettingColor(r) ==
    [r EXCEPT !.buffer = [c \in DOMAIN @ |-> Append(@[c], <<>>)],
              !.current_row = @ + 1,
              !.current_color = 0]

(* JpegReconstruct::next_row: a new row in every colour. *)
NextRow(r) ==
    [r EXCEPT !.buffer = [c \in DOMAIN @ |-> Append(@[c], <<>>)],
              !.current_row = @ + 1]

(* Mutant of ReconstructBlock: the colour is not wrapped around. *)
ReconstructBlockNoWrap(r, k) ==
    [r EXCEPT !.max_data = IF k > @ THEN k ELSE @,
              !.min_data = IF k < @ THEN k ELSE @,
              !.buffer[r.current_color][r.current_row + 1] = Append(@, k),
              !.current_color = @ + 1]

(* JpegReconstruct::reconstruct_block: record the extremes, append the     *)
(* count to the current row of the current colour, move to the next one.  *)
ReconstructBlock(r, k) ==
    [r EXCEPT !.max_data = IF k > @ THEN k ELSE @,
              !.min_data = IF k < @ THEN k ELSE @,
              !.buffer[r.current_color][r.current_row + 1] = Append(@, k),
              !.current_color = (@ + 1) % NumColors]

(* JpegReconstruct::reconstruct: leaving DataCount commits its count; the  *)
(* NextRow -> StartRow transition starts a new row, after the commit.      *)
Reconstruct(r, prev, new) ==
    LET r1 == IF IsDataCount(prev) /\ ~IsDataCount(new)
              THEN ReconstructBlock(r, prev.n) ELSE r
    IN IF prev.tag = "NextRow" /\ new.tag = "StartRow" THEN NextRow(r1) ELSE r1

(* JpegReconstruct::reconstructed_bitmap: the median of the grey blocks,  *)
(* buffer[buffer.len() / 2] of the sorted committed counts, is out of     *)
(* bounds (a panic) when no block was committed.                           *)
BitmapPanics(r) == FlattenSeq(r.buffer[0]) = <<>>

=============================================================================

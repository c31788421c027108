----------------------------- MODULE JpegOcall -----------------------------
(***************************************************************************)
(* The ocall mode of the libjpeg attack (libjpeg/attack/src/main.rs, mod   *)
(* sgx: ocall_next_row, ocall_idct_islow, ocall_all_zero and the          *)
(* use_ocalls flag of attack_enclave).  The instrumented enclave reports   *)
(* each row, each all-zero coefficient row and each IDCT block; the        *)
(* reconstruction takes the number of all-zero reports since the last      *)
(* block as the block's value.  The enclave runs on one thread and an      *)
(* ocall runs to completion on it, so each ocall is one step.  The order   *)
(* in which the enclave (not part of the repository) makes them is left   *)
(* free.                                                                   *)
(***************************************************************************)
EXTENDS Naturals, SequencesExt, JpegState

CONSTANTS
    UseOcalls,   \* TRUE in the Ocalls mode, FALSE in the Enclave mode
    MaxCalls     \* bound on the ocalls the enclave makes

VARIABLES
    reconstruct,  \* GlobalState.reconstruct
    zero_count,   \* ZERO_COUNT
    skip_first,   \* SKIP_FIRST
    calls         \* history: the ocalls made so far

vars == <<reconstruct, zero_count, skip_first, calls>>

(* attack_enclave: a new GlobalState; use_ocalls is set unless the fault  *)
(* handler is registered.                                                  *)
Init ==
    /\ reconstruct = NewReconstruct
    /\ zero_count = 0
    /\ skip_first = FALSE
    /\ calls = <<>>

Call(name) == Len(calls) < MaxCalls /\ calls' = Append(calls, name)

(* ocall_next_row: the first call only sets SKIP_FIRST (the first row      *)
(* exists already); later ones start a new row.                            *)
OcallNextRow ==
    /\ Call("next_row")
    /\ IF ~skip_first
       THEN skip_first' = TRUE /\ UNCHANGED reconstruct
       ELSE /\ reconstruct' = IF UseOcalls THEN NextRow(reconstruct) ELSE reconstruct
            /\ UNCHANGED skip_first
    /\ UNCHANGED zero_count

(* Mutant of OcallIdctIslow: ZERO_COUNT is reset before it is read. *)
OcallIdctIslowResetFirst ==
    /\ Call("idct_islow")
    /\ IF UseOcalls
       THEN reconstruct' = ReconstructBlock(reconstruct, 0) /\ zero_count' = 0
       ELSE UNCHANGED <<reconstruct, zero_count>>
    /\ UNCHANGED skip_first

(* ocall_idct_islow: the block's value is ZERO_COUNT, which starts again. *)
OcallIdctIslow ==
    /\ Call("idct_islow")
    /\ IF UseOcalls
       THEN reconstruct' = ReconstructBlock(reconstruct, zero_count) /\ zero_count' = 0
       ELSE UNCHANGED <<reconstruct, zero_count>>
    /\ UNCHANGED skip_first

(* ocall_all_zero: one more all-zero report. *)
OcallAllZero ==
    /\ Call("all_zero")
    /\ zero_count' = zero_count + 1
    /\ UNCHANGED <<reconstruct, skip_first>>

Next == OcallNextRow \/ OcallIdctIslow \/ OcallAllZero

Spec == Init /\ [][Next]_vars

-----------------------------------------------------------------------------
(* Properties *)

(* The ocalls among the first i of name n. *)
CountBefore(n, i) == Cardinality({j \in 1 .. i : calls[j] = n})

(* Positions of the IDCT reports, in order. *)
Blocks == SelectSeq([j \in DOMAIN calls |-> j], LAMBDA j : calls[j] = "idct_islow")

(* What the enclave reported for its k-th block: the all-zero reports     *)
(* since the block before, the row (the row reports before it, the first  *)
(* not counted) and the colour (blocks are dealt in turn).                 *)
Value(k) == CountBefore("all_zero", Blocks[k])
            - (IF k = 1 THEN 0 ELSE CountBefore("all_zero", Blocks[k - 1]))
RowOf(k) == IF CountBefore("next_row", Blocks[k]) = 0 THEN 0
            ELSE CountBefore("next_row", Blocks[k]) - 1
ColorOf(k) == (k - 1) % NumColors
Slot(k) == Cardinality({j \in 1 .. k : RowOf(j) = RowOf(k) /\ ColorOf(j) = ColorOf(k)})

(* In the Ocalls mode, every block the enclave reports is in the buffer   *)
(* at its row and colour, in order, with the number of all-zero reports    *)
(* made since the block before, and nothing else is: SKIP_FIRST, the      *)
(* colour rotation across rows and the reset of ZERO_COUNT together put   *)
(* the enclave's ground truth where the bitmap expects it.                 *)
OcallLayout ==
    /\ \A k \in DOMAIN Blocks :
           reconstruct.buffer[ColorOf(k)][RowOf(k) + 1][Slot(k)] = Value(k)
    /\ \A c \in 0 .. NumColors - 1 :
           Len(FlattenSeq(reconstruct.buffer[c])) = Cardinality({k \in DOMAIN Blocks : ColorOf(k) = c})

=============================================================================

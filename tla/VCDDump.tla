------------------------------ MODULE VCDDump ------------------------------
(***************************************************************************)
(* The VCD trace writer (profiler/src/dump.rs).  A VCDDumper holds a       *)
(* TracePageSet: one VCDStatefulSet per channel (RSet: one channel of read *)
(* wires; RWXSet: read, write and execute wires), each a Vec<bool> with    *)
(* one wire per page.  next_step lets the closure write the erip and the   *)
(* step's page accesses, and the drop of the VCDEntry writes the next     *)
(* timestamp.                                                               *)
(*                                                                         *)
(* The file is the sequence log of the commands written after the header: *)
(* scalar changes of a page wire, the erip vector and timestamps.  The    *)
(* header (add_module, add_wire, upscope, enddefinitions) fixes the wires *)
(* and is not part of the state; a wire is identified by <<channel, page>>*)
(* instead of its generated IdCode and name.                               *)
(***************************************************************************)
EXTENDS Naturals, SequencesExt, PageAccess

CONSTANTS
    Wires,       \* pages with a wire: 0 .. num_pages - 1 of VCDDumper::new,
                 \* less pages no frame can hold (their wires stay reset)
    Channels,    \* <<"r">> for RSet, <<"r", "w", "x">> for RWXSet
    WriteErip,   \* --erip
    EripWidth,   \* width of the erip wire (64)
    Rips,        \* values edbgrd_erip may return
    Frames,      \* the page accesses a step may write, as sequences
    MaxSteps     \* bound on next_step calls

ASSUME Channels \in {<<"r">>, <<"r", "w", "x">>}

VARIABLES
    wire,   \* wire[ch] is VCDStatefulSet.state of channel ch
    log,    \* the commands written so far
    ts,     \* VCDDumper.ts
    last    \* history: the accesses written by the last step

dump_vars == <<wire, log, ts, last>>

Scalar(ch, p, v) == [kind |-> "scalar", ch |-> ch, page |-> p, v |-> v]
Vector(bits)     == [kind |-> "vector", ch |-> "erip", page |-> 0, v |-> bits]
Stamp(t)         == [kind |-> "ts", ch |-> "", page |-> t, v |-> FALSE]

(* The permission bit a channel's wires show. *)
Bit(ch, a) == CASE ch = "r" -> a.read [] ch = "w" -> a.write [] ch = "x" -> a.execute

(* RWXSet/RSet::update_state: the pages of the accesses with the channel's *)
(* bit, in the order of the iterator.                                      *)
Pushed(ch, items) ==
    LET sel == SelectSeq(items, LAMBDA a : Bit(ch, a)) IN
    [i \in DOMAIN sel |-> sel[i].page]

(* The integers of S in ascending order. *)
InOrder(S) == [i \in 1 .. Cardinality(S) |-> CHOOSE x \in S : Cardinality({y \in S : y < x}) = i - 1]

(* Setting the wire of an item: a change is written only if it was reset. *)
Raise(acc, p) ==
    IF acc.st[p] THEN acc
    ELSE [st |-> [acc.st EXCEPT ![p] = TRUE], out |-> Append(acc.out, <<p, TRUE>>)]

(* The first loop of update_state, from item i on. *)
RECURSIVE RaiseFrom(_, _, _)
RaiseFrom(acc, items, i) ==
    IF i > Len(items) THEN acc ELSE RaiseFrom(Raise(acc, items[i]), items, i + 1)

(* Mutant of SetUpdate: wires that are no longer accessed are not reset.  *)
SetUpdateNoClear(st, items) == RaiseFrom([st |-> st, out |-> <<>>], items, 1)

(* VCDStatefulSet::update_state: set the wire of every item that is not   *)
(* set, in item order; then reset, in page order, every set wire whose    *)
(* page is not an item.  Returns the new state and the changes written.   *)
SetUpdate(st, items) ==
    LET rise == RaiseFrom([st |-> st, out |-> <<>>], items, 1)
        fall == InOrder({p \in DOMAIN st : rise.st[p] /\ p \notin ToSet(items)})
    IN [st  |-> [p \in DOMAIN st |-> rise.st[p] /\ p \notin ToSet(fall)],
        out |-> rise.out \o [i \in DOMAIN fall |-> <<fall[i], FALSE>>]]

(* TracePageSet::update_state: each channel in turn (r, then w, then x).  *)
(* Returns the new wires and the commands written.                        *)
PagesUpdate(items) ==
    LET upd == [ch \in ToSet(Channels) |-> SetUpdate(wire[ch], Pushed(ch, items))]
        cmds(ch) == [i \in DOMAIN upd[ch].out |->
                        Scalar(ch, upd[ch].out[i][1], upd[ch].out[i][2])]
    IN [wire |-> [ch \in ToSet(Channels) |-> upd[ch].st],
        out  |-> FoldLeft(LAMBDA acc, ch : acc \o cmds(ch), <<>>, Channels)]

(* VCDDumper::write_erip: the bits of rip, most significant first. *)
EripBits(rip) == [i \in 1 .. EripWidth |-> (rip \div 2^(EripWidth - i)) % 2 = 1]

(* VCDDumper::new: every wire starts reset and init_wires writes it so,   *)
(* channel by channel, in page order; no timestamp is written yet.        *)
InitWires ==
    LET ps == InOrder(Wires) IN
    FoldLeft(LAMBDA acc, ch : acc \o [i \in DOMAIN ps |-> Scalar(ch, ps[i], FALSE)],
             <<>>, Channels)

DumpInit ==
    /\ wire = [ch \in ToSet(Channels) |-> [p \in Wires |-> FALSE]]
    /\ log = InitWires
    /\ ts = 0
    /\ last = <<>>

(* next_step with the closure of the tracers: the erip when --erip is set, *)
(* then the page accesses; the drop of the entry writes timestamp ts + 1. *)
NextStep(items, rip) ==
    LET upd == PagesUpdate(items)
        erip == IF WriteErip THEN <<Vector(EripBits(rip))>> ELSE <<>>
    IN /\ ts < MaxSteps
       /\ wire' = upd.wire
       /\ log' = log \o erip \o upd.out \o <<Stamp(ts + 1)>>
       /\ ts' = ts + 1
       /\ last' = items

DumpNext == \E items \in Frames, rip \in Rips : NextStep(items, rip)

DumpSpec == DumpInit /\ [][DumpNext]_dump_vars

-----------------------------------------------------------------------------
(* Properties *)

(* The value a reader of the first n commands holds for a wire: that of  *)
(* the last scalar change of the wire among them.                          *)
ValueAt(n, ch, p) ==
    LET idx == {i \in 1 .. n : log[i].kind = "scalar" /\ log[i].ch = ch /\ log[i].page = p}
    IN IF idx = {} THEN FALSE ELSE log[Max(idx)].v

TypeOK ==
    /\ wire \in [ToSet(Channels) -> [Wires -> BOOLEAN]]
    /\ ts \in 0 .. MaxSteps
    /\ \A i \in DOMAIN log : log[i].kind \in {"scalar", "vector", "ts"}

(* Whoever reads the whole file sees, on every wire, whether the last     *)
(* step's accesses held the page with the wire's permission: the diff     *)
(* encoding of VCDStatefulSet::update_state loses no change.              *)
WaveformShowsLastFrame ==
    \A ch \in ToSet(Channels), p \in Wires :
        ValueAt(Len(log), ch, p) = (p \in ToSet(Pushed(ch, last)))

=============================================================================

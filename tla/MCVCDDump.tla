------------------------------ MODULE MCVCDDump ------------------------------
(* Model-checking instance of VCDDump: an RWXSet over three pages. *)
EXTENDS VCDDump

(* The three channels of an RWXSet. *)
MCChannels == <<"r", "w", "x">>

(* Reads on pages 0..2, with or without write; page 0 is also executed.  *)
MCAccesses == {Access(p, TRUE, w, p = 0) : p \in 0 .. 2, w \in BOOLEAN}

(* A step writes at most two accesses, to distinct pages, in any order.   *)
MCFrames ==
    {f \in BoundedSeq(MCAccesses, 2) :
        \A i, j \in DOMAIN f : i # j => f[i].page # f[j].page}
=============================================================================

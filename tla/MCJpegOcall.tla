--------------------------- MODULE MCJpegOcall ---------------------------
(* Model-checking instance of JpegOcall. *)
EXTENDS JpegOcall

(* Larger than any zero count the bounds allow. *)
MCUsizeMax == 100
=============================================================================

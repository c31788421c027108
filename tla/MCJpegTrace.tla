---------------------------- MODULE MCJpegTrace ----------------------------
EXTENDS JpegTrace

(* One page of each range of the victim's code, and two data pages. *)
MCPages == {54, 58, 59, 44, 63, 150, 151}

(* Stands for usize::MAX: above every count a waveform of MaxSteps reaches. *)
MCUsizeMax == 100

(* Spec, scenario S1. *)
(* Any waveform over MCPages. *)
NoScript == <<>>

S1Script == <<54, 58, 63, 150, 151, 150, 59, 63, 150, 44, 58, 63, 150>>
=============================================================================

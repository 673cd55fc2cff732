------------------------------ MODULE MCCapture ------------------------------
(* Capture with three buffers, and sizes a factor of two apart: a frame of size 5 *)
(* is less than six tenths of one of size 10.                                *)
EXTENDS Capture

MCSizes == {5, 10}
=============================================================================

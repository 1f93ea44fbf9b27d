------------------------------ MODULE MCStream ------------------------------
(* Frames with and without data; all cuts of all of them.                  *)
EXTENDS Stream

MCSize == SubSeq(<<2, 0, 1>>, 1, MaxFrame)
=============================================================================

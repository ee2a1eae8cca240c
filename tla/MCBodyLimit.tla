---------------------------- MODULE MCBodyLimit ----------------------------
(* Content-Length values around a limit of three bytes, and below zero:    *)
(* int() accepts a sign.                                                   *)
EXTENDS BodyLimit

MCLengths == {-1, 0, 3, 4}
=============================================================================

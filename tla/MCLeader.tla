------------------------------- MODULE MCLeader -------------------------------
(* A pipeline of two commands, which write a byte each, and a job of one,  *)
(* which writes more than a pipe holds.                                    *)
EXTENDS Leader, TLC

MCSize == <<2, 1>>
MCBytes == <<1, 3>>
=============================================================================

---------------------------- MODULE MCTU ----------------------------
(* Module TU for TLC: the service threads are the TUs themselves. *)
EXTENDS TU

CONSTANTS t1, t2

MCTwo == {t1, t2}
MCExt == 1 .. 2

=============================================================================

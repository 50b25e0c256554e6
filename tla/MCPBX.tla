---------------------------- MODULE MCPBX ----------------------------
(* Module PBX for TLC. *)
EXTENDS PBX, TLC

CONSTANTS t1, t2, t3, main

MCTwo == {t1, t2}
MCTwoThreads == MCTwo \cup {main}
MCThree == {t1, t2, t3}
MCThreeThreads == MCThree \cup {main}
MCExt == 1 .. 2
NoHangup == {"pickup", "dial", "chat"}
NoChat == {"pickup", "dial", "hangup"}

(* TUs are interchangeable; they get their descriptors when they connect. *)
Symmetry3 == Permutations(MCThree)

=============================================================================

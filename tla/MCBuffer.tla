------------------------------ MODULE MCBuffer ------------------------------
(* Module Buffer for TLC: a first block of one item, so that seven items    *)
(* take three blocks, and two different items.                              *)
EXTENDS Buffer
=============================================================================

---------------------------- MODULE MCSfmm ----------------------------
(* Module Sfmm for TLC.  Three pages of 12 words have room for 30 words of *)
(* blocks.  A block of 5 fills its 6 words to the last and goes to the     *)
(* second quick list, 11 goes to the free lists; blocks of the smallest    *)
(* size, for the first quick list, are what sf_realloc to 0 leaves.  29    *)
(* takes all pages, 31 more than there are, and 1023 is the largest number *)
(* of words that sf_size_t holds.                                          *)
EXTENDS Sfmm

MCRequest == {5, 11, 29, 31, 1023}

=============================================================================

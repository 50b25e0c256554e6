----------------------------- MODULE ProgramStore -----------------------------
(***************************************************************************)
(* What the comments of hw4/src/program.c promise of the program store: a  *)
(* set of numbered statements, at most one for a line, and a counter that  *)
(* is before one of them or after them all.  Module Program implements it. *)
(***************************************************************************)
EXTENDS Naturals

CONSTANTS Line, Stmt, End

VARIABLES
    program,  \* the pairs <<line number, statement>>
    counter,  \* the line that the counter is before, or End
    doomed    \* the lines that a delete has still to remove

vars == <<program, counter, doomed>>

Lines == {entry[1] : entry \in program}

(* c is the first line after l, if there is one. *)
Following(l, c) ==
    \/ c \in Lines /\ c > l /\ \A k \in Lines : k > l => c <= k
    \/ c = End /\ \A k \in Lines : k <= l

Init == program = {} /\ counter = End /\ doomed = {}

(* Insertion replaces the statement of the same line, if any, and leaves   *)
(* the counter before the statement it was before.                         *)
Insert(l, s) ==
    /\ doomed = {}
    /\ program' = {entry \in program : entry[1] # l} \cup {<<l, s>>}
    /\ UNCHANGED <<counter, doomed>>

(* A delete is decided for exactly the lines of a range, *)
Delete(from, to) ==
    /\ doomed = {}
    /\ doomed' = {l \in Lines : from <= l /\ l <= to}
    /\ UNCHANGED <<program, counter>>

(* and takes them out one by one; the counter moves on from a line that    *)
(* goes.                                                                   *)
Remove(l) ==
    /\ l \in doomed
    /\ program' = {entry \in program : entry[1] # l}
    /\ doomed' = doomed \ {l}
    /\ IF counter = l THEN Following(l, counter') ELSE UNCHANGED counter

Reset ==
    /\ doomed = {}
    /\ Following(0, counter')
    /\ UNCHANGED <<program, doomed>>

Advance ==
    /\ doomed = {}
    /\ counter # End
    /\ Following(counter, counter')
    /\ UNCHANGED <<program, doomed>>

Goto(l) ==
    /\ doomed = {}
    /\ l \in Lines
    /\ counter' = l
    /\ UNCHANGED <<program, doomed>>

Next ==
    \/ \E l \in Line : Remove(l) \/ Goto(l) \/ \E s \in Stmt : Insert(l, s)
    \/ \E from, to \in Line : Delete(from, to)
    \/ Reset \/ Advance

Spec == Init /\ [][Next]_vars

=============================================================================

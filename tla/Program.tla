-------------------------------- MODULE Program --------------------------------
(***************************************************************************)
(* The program of the shell of hw4: its statements in a circular, doubly   *)
(* linked list with a counter that points into it (program.c), and the     *)
(* statements and the run loop of execution.c that edit and follow it.     *)
(*                                                                         *)
(* A step is one turn of a loop of program.c, or what comes between two    *)
(* loops, because SIGQUIT may arrive in between while a program runs.      *)
(*                                                                         *)
(* The statements of a program that neither stop nor jump are "plain":     *)
(* they may fail, and that ends the run.  prog_list changes nothing;       *)
(* prog_fini, at the end of the shell, is left out.                        *)
(***************************************************************************)
EXTENDS Naturals

CONSTANTS Node,      \* the addresses of prog_data
          ProgHead,  \* prog_head
          Line,      \* the line numbers (a bound for TLC)
          Stmt       \* the statements of a program (a bound for TLC)

ASSUME HeadAssumption == ProgHead \notin Node \cup Line
ASSUME LineAssumption == Line \subseteq Nat \ {0}
ASSUME StmtAssumption == \A s \in Stmt : s[1] \in {"goto", "if"} => s[2] \in Line

VARIABLES
    (* the list; line is 0 before malloc and after free *)
    next, prev, line, stmt,
    counter,      \* prog_counter
    (* the shell *)
    pc,           \* where it is, at the "prompt" between statements
    op,           \* the function of program.c it is in
    arg, last,    \* its arguments: a line number, the end of a range,
    new,          \* a statement
    ptr,          \* its position in the list
    running,      \* exec_cont has installed the handler of SIGQUIT
    gotQuit       \* got_quit

list == <<next, prev, line, stmt>>
shell == <<pc, op, arg, last, new, ptr>>
vars == <<list, counter, shell, running, gotQuit>>

NoStmt == <<"none">>

Live == {n \in Node : line[n] # 0}
All == Live \cup {ProgHead}

Unmoved == UNCHANGED <<op, arg, last, new, ptr>>

-----------------------------------------------------------------------------
(* A function of program.c is called; all three begin with prog_get_data.  *)
Call(o, l, m, s) ==
    /\ pc' = "find" /\ op' = o /\ arg' = l /\ last' = m /\ new' = s
    /\ ptr' = next[ProgHead]

Forget == op' = "none" /\ arg' = 0 /\ last' = 0 /\ new' = NoStmt /\ ptr' = ProgHead

(* The function returns: to exec_interactive or to the loop of exec_cont.  *)
Return == pc' = (IF running THEN "loop" ELSE "prompt") /\ Forget

(* It fails, or the statement does, and a run is over.                     *)
Fail == pc' = (IF running THEN "leave" ELSE "prompt") /\ Forget

(* The statements that the user may give at the prompt. *)
Command ==
    /\ pc = "prompt"
    /\ \/ \E l \in Line, s \in Stmt : Call("insert", l, l, s)
       \/ \E l, m \in Line : Call("delete", l, m, NoStmt)
       \/ \E l \in Line : Call("goto", l, l, NoStmt)
    /\ UNCHANGED <<list, counter, running, gotQuit>>

-----------------------------------------------------------------------------
(* program.c *)

(* prog_get_data looks for the first line that is not below arg. *)
Found == ptr = ProgHead \/ line[ptr] >= arg

Find ==
    /\ pc = "find"
    /\ IF Found THEN pc' = "found" /\ UNCHANGED ptr
                ELSE ptr' = next[ptr] /\ UNCHANGED pc
    /\ UNCHANGED <<list, counter, op, arg, last, new, running, gotQuit>>

AtLine == ptr # ProgHead /\ line[ptr] = arg

(* prog_insert *)
Replace ==
    /\ pc = "found" /\ op = "insert"
    /\ AtLine
    /\ stmt' = [stmt EXCEPT ![ptr] = new]
    /\ Return
    /\ UNCHANGED <<next, prev, line, counter, running, gotQuit>>

Insert ==
    /\ pc = "found" /\ op = "insert"
    /\ ~AtLine
    /\ \E n \in Node \ Live :
         /\ next' = [next EXCEPT ![n] = ptr, ![prev[ptr]] = n]
         /\ prev' = [prev EXCEPT ![n] = prev[ptr], ![ptr] = n]
         /\ line' = [line EXCEPT ![n] = arg]
         /\ stmt' = [stmt EXCEPT ![n] = new]
    /\ Return
    /\ UNCHANGED <<counter, running, gotQuit>>

(* prog_remove_data *)
RemoveData(n) ==
    /\ next' = [next EXCEPT ![prev[n]] = next[n]]
    /\ prev' = [prev EXCEPT ![next[n]] = prev[n]]
    /\ line' = [line EXCEPT ![n] = 0]
    /\ stmt' = [stmt EXCEPT ![n] = NoStmt]

(* prog_delete: one turn of its loop, *)
InRange_Below == ptr # ProgHead /\ line[ptr] < last

InRange == ptr # ProgHead /\ line[ptr] <= last

Delete_KeepCounter ==
    /\ pc = "found" /\ op = "delete"
    /\ InRange
    /\ ptr' = next[ptr]
    /\ RemoveData(ptr)
    /\ UNCHANGED <<counter, pc, op, arg, last, new, running, gotQuit>>

Delete ==
    /\ pc = "found" /\ op = "delete"
    /\ InRange
    /\ counter' = IF ptr = counter THEN next[ptr] ELSE counter
    /\ ptr' = next[ptr]
    /\ RemoveData(ptr)
    /\ UNCHANGED <<pc, op, arg, last, new, running, gotQuit>>

(* and its end. *)
Deleted ==
    /\ pc = "found" /\ op = "delete"
    /\ ~InRange
    /\ Return
    /\ UNCHANGED <<list, counter, running, gotQuit>>

(* prog_goto *)
Goto ==
    /\ pc = "found" /\ op = "goto"
    /\ IF AtLine THEN counter' = ptr /\ Return
                 ELSE UNCHANGED counter /\ Fail
    /\ UNCHANGED <<list, running, gotQuit>>

-----------------------------------------------------------------------------
(* exec_run, exec_cont *)

(* Nothing is executed if the counter is at the end. *)
Run ==
    /\ pc = "prompt"
    /\ counter' = next[ProgHead]
    /\ pc' = "cont"
    /\ UNCHANGED <<list, running, gotQuit>> /\ Unmoved

Cont ==
    /\ pc = "prompt" \/ pc = "cont"
    /\ IF counter = ProgHead THEN pc' = "prompt" /\ UNCHANGED running
                         ELSE pc' = "loop" /\ running' = TRUE
    /\ UNCHANGED <<list, counter, gotQuit>> /\ Unmoved

(* The head of the loop: prog_fetch and prog_next. *)
Fetch_IgnoreQuit ==
    /\ pc = "loop"
    /\ counter # ProgHead
    /\ new' = stmt[counter]
    /\ counter' = next[counter]
    /\ pc' = "exec"
    /\ UNCHANGED <<list, op, arg, last, ptr, running, gotQuit>>

Fetch ==
    /\ pc = "loop"
    /\ ~gotQuit /\ counter # ProgHead
    /\ new' = stmt[counter]
    /\ counter' = next[counter]
    /\ pc' = "exec"
    /\ UNCHANGED <<list, op, arg, last, ptr, running, gotQuit>>

EndOfRun ==
    /\ pc = "loop"
    /\ gotQuit \/ counter = ProgHead
    /\ pc' = "leave"
    /\ UNCHANGED <<list, counter, running, gotQuit>> /\ Unmoved

(* exec_stmt: a jump is taken, *)
Jump ==
    /\ pc = "exec"
    /\ new[1] \in {"goto", "if"}
    /\ Call("goto", new[2], new[2], NoStmt)
    /\ UNCHANGED <<list, counter, running, gotQuit>>

(* or another statement is executed, or the condition is false, *)
Execute ==
    /\ pc = "exec"
    /\ new[1] \in {"plain", "if"}
    /\ Return
    /\ UNCHANGED <<list, counter, running, gotQuit>>

(* or the program stops, or a statement fails. *)
Stop ==
    /\ pc = "exec"
    /\ new[1] \in {"stop", "plain", "if"}
    /\ Fail
    /\ UNCHANGED <<list, counter, running, gotQuit>>

(* SIGQUIT is ignored again, and got_quit reset. *)
Leave ==
    /\ pc = "leave"
    /\ pc' = "prompt" /\ running' = FALSE /\ gotQuit' = FALSE
    /\ UNCHANGED <<list, counter>> /\ Unmoved

(* The user types the quit character. *)
Quit ==
    /\ running /\ ~gotQuit
    /\ gotQuit' = TRUE
    /\ UNCHANGED <<list, counter, shell, running>>

-----------------------------------------------------------------------------
Init ==
    /\ next = [n \in Node \cup {ProgHead} |-> ProgHead]
    /\ prev = [n \in Node \cup {ProgHead} |-> ProgHead]
    /\ line = [n \in Node |-> 0]
    /\ stmt = [n \in Node |-> NoStmt]
    /\ counter = ProgHead
    /\ pc = "prompt" /\ op = "none" /\ arg = 0 /\ last = 0
    /\ new = NoStmt /\ ptr = ProgHead
    /\ running = FALSE /\ gotQuit = FALSE

(* What the shell does without waiting for the user. *)
Step ==
    \/ Find \/ Replace \/ Insert \/ Delete \/ Deleted \/ Goto
    \/ pc = "cont" /\ Cont
    \/ Fetch \/ EndOfRun \/ Jump \/ Execute \/ Stop \/ Leave

Next == Step \/ Command \/ Run \/ Cont \/ Quit

Spec == Init /\ [][Next]_vars

FairSpec == Spec /\ WF_vars(Step)

-----------------------------------------------------------------------------
TypeOK ==
    /\ next \in [Node \cup {ProgHead} -> Node \cup {ProgHead}]
    /\ prev \in [Node \cup {ProgHead} -> Node \cup {ProgHead}]
    /\ line \in [Node -> Line \cup {0}]
    /\ stmt \in [Node -> Stmt \cup {NoStmt}]
    /\ counter \in Node \cup {ProgHead}
    /\ pc \in {"prompt", "find", "found", "cont", "loop", "exec", "leave"}
    /\ op \in {"none", "insert", "delete", "goto"}
    /\ arg \in Line \cup {0} /\ last \in Line \cup {0}
    /\ new \in Stmt \cup {NoStmt}
    /\ ptr \in Node \cup {ProgHead}
    /\ running \in BOOLEAN /\ gotQuit \in BOOLEAN

(* Both directions of the list agree, it stays among what is allocated,    *)
(* and so does the counter.                                                *)
Linked ==
    /\ \A n \in All : /\ next[n] \in All /\ prev[next[n]] = n
                      /\ prev[n] \in All /\ next[prev[n]] = n
    /\ counter \in All

(* The next node of the list has the next line, and no two have the same.  *)
Sorted ==
    /\ \A n \in Live : next[n] \in Live => line[n] < line[next[n]]
    /\ \A m \in Live : next[ProgHead] \in Live /\ line[next[ProgHead]] <= line[m]
    /\ \A m, n \in Live : line[n] < line[m] => next[n] \in Live /\ line[next[n]] <= line[m]
    /\ \A m, n \in Live : line[n] = line[m] => n = m

(* A loop is where it should be: no line at or after arg that it has to    *)
(* deal with is behind it.                                                 *)
Position ==
    pc \in {"find", "found"} =>
        /\ ptr \in All
        /\ \A m \in Live : line[m] >= arg => ptr \in Live /\ line[ptr] <= line[m]
        /\ pc = "found" => Found
        /\ op # "none" /\ arg \in Line /\ last \in Line
        /\ op = "insert" => new \in Stmt

(* SIGQUIT is handled while a program runs, and only then. *)
Handled ==
    /\ pc \in {"prompt", "cont"} => ~running
    /\ gotQuit => running

(* What the functions of program.c rely on, and keep: a list in order, a   *)
(* counter into it, and a search that has not gone past its line.          *)
IInv == TypeOK /\ Linked /\ Sorted /\ Position /\ Handled

(* A quit is for the run it interrupts: none is remembered at the prompt,  *)
(* where it would end the next run before its first statement.             *)
NoStaleQuit == gotQuit => running /\ pc # "prompt"

(* A program that does not end can be ended. *)
QuitEndsRun == gotQuit ~> pc = "prompt"

(* The list implements the program store: a delete removes the lines of    *)
(* its range and no other, an insertion replaces at most its own line, and *)
(* the counter stays before the statement it was before, or moves on to    *)
(* the first that is left.                                                 *)
Store == INSTANCE ProgramStore WITH
    End <- ProgHead,
    program <- {<<line[n], stmt[n]>> : n \in Live},
    counter <- IF counter \in Live THEN line[counter] ELSE ProgHead,
    doomed <- IF pc = "found" /\ op = "delete"
              THEN {line[n] : n \in {n \in Live : arg <= line[n] /\ line[n] <= last}}
              ELSE {}

ImplementsStore == Store!Spec

=============================================================================

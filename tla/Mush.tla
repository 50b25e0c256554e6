-------------------------------- MODULE Mush --------------------------------
(***************************************************************************)
(* The interpreter of hw4 (execution.c): the statements that Program calls *)
(* plain, with the variables of store.c and the expressions they are set   *)
(* to, and the jobs they start, wait for, poll and cancel.                 *)
(*                                                                         *)
(* A job is what exec_stmt sees of it: Jobs has the details.  It ends when *)
(* it wants to, or never, with an exit status and, if it was captured, an  *)
(* output.  The statements that are given at the prompt are those of       *)
(* Immediate; a statement of a program is <<"plain", s>> for such an s, or *)
(* a jump, or "stop".  An expression is a literal, a variable, or an       *)
(* operator and its arguments, with the type the parser gave it.           *)
(***************************************************************************)
EXTENDS Program, Variables, FiniteSetsExt

CONSTANTS
  Var,          \* the names of variables; JOB, STATUS and OUTPUT are three of them
  Expr,         \* expressions, closed under arguments
  Immediate,    \* statements given at the prompt
  Job,          \* the numbers of jobs
  ExitStatus,   \* the statuses jobs end with, and what jobs_wait may return instead
  Output,       \* the texts they write
  Garbage,      \* what an uninitialized long may hold
  IntBits,      \* the width of an int: 32 in the code
  Crash         \* the shell dies of a division by zero, or aborts

Operator == {"&&", "||", "+", "-", "*", "/", "%", "<", ">", "<=", ">=", "=="}

ASSUME NumbersAssumption == Job \subseteq Nat /\ ExitStatus \subseteq Int /\ Garbage \subseteq Int
ASSUME IntBitsAssumption == IntBits \in Nat \ {0} /\ 2^IntBits > 0
ASSUME TextAssumption == Output \subseteq Seq(Nat) /\ NoValue \notin Seq(Nat)
ASSUME VarAssumption == {"JOB", "STATUS", "OUTPUT"} \subseteq Var

\* Expressions are finite trees: of any set of them, one has none of the others
\* for an argument.
ASSUME ExprAssumption ==
  /\ \A e \in Expr : \/ e[1] = "lit" /\ e[3] \in Seq(Nat)
                     \/ e[1] = "var"
                     \/ e[1] = "not" /\ e[3] \in Expr
                     \/ e[1] = "binary" /\ e[3] \in Operator /\ e[4] \in Expr /\ e[5] \in Expr
  /\ \A T \in SUBSET Expr : T # {} => \E e \in T : /\ e[1] = "not" => e[3] \notin T
                                                   /\ e[1] = "binary" => {e[4], e[5]} \cap T = {}

VARIABLES
  store,        \* the variables
  jobs,         \* the jobs, in the table
  blocked,      \* what a statement waits for
  assigned      \* what each variable was last given: the history of the calls

mush == <<store, jobs, blocked, assigned>>

NoJob == [state |-> "free", status |-> 0, output |-> NoValue]

Awake == [what |-> "no", job |-> -1, early |-> FALSE]

\* What the shell waits for; `early' if the job had ended before.
Waits(what, id) == [what |-> what, job |-> id, early |-> id \in Job /\ jobs[id].state = "ended"]

-----------------------------------------------------------------------------
(* Expressions: <<"lit", type, text>>, <<"var", type, name>>,               *)
(* <<"not", type, e>> and <<"binary", type, operator, e1, e2>>.             *)

ToInt(n) == ((n + 2^(IntBits - 1)) % 2^IntBits) - 2^(IntBits - 1)

\* strtol, which wants a digit after a sign and takes a number that starts with
\* a zero for octal.
Strtol(text) ==
  LET digits == Unsigned(text)
      octal  == Len(digits) > 1 /\ Head(digits) = 0
  IN IF text = <<Dash>> THEN Error ELSE IntegerOf(IF octal THEN 8 ELSE 10, text)

\* What eval_to_string returns: no operator has a text, but the arguments of one
\* come first.
StringOf[e \in Expr] ==
  CASE e[1] = "lit" -> e[3]
    [] e[1] = "var" -> LET s == GetString(store, e[3]) IN IF s = NoValue THEN Error ELSE s
    [] e[1] = "not" -> IF StringOf[e[3]] = Error THEN Error ELSE Crash
    [] OTHER        -> IF StringOf[e[4]] = Error THEN Error
                       ELSE IF StringOf[e[4]] # Crash /\ StringOf[e[5]] = Error THEN Error ELSE Crash

Truth(b) == IF b THEN 1 ELSE 0

\* C's division rounds towards zero.
Quotient(a, b) ==
  LET abs(n) == IF n < 0 THEN -n ELSE n
      q      == abs(a) \div abs(b)
  IN IF (a < 0) = (b < 0) THEN q ELSE -q

Apply(oprtr, a, b) ==
  IF a \in {Error, Crash} THEN a ELSE IF b \in {Error, Crash} THEN b
  ELSE CASE oprtr = "&&" -> Truth(a # 0 /\ b # 0)
         [] oprtr = "||" -> Truth(a # 0 \/ b # 0)
         [] oprtr = "+"  -> a + b
         [] oprtr = "-"  -> a - b
         [] oprtr = "*"  -> a * b
         [] oprtr = "/"  -> IF b = 0 THEN Crash ELSE Quotient(a, b)
         [] oprtr = "%"  -> IF b = 0 THEN Crash ELSE a - b * Quotient(a, b)
         [] oprtr = "<"  -> Truth(a < b)
         [] oprtr = ">"  -> Truth(a > b)
         [] oprtr = "<=" -> Truth(a <= b)
         [] oprtr = ">=" -> Truth(a >= b)
         [] oprtr = "==" -> Truth(a = b)

Same(s, t) == IF s \in {Error, Crash} THEN s ELSE IF t \in {Error, Crash} THEN t ELSE Truth(s = t)

\* What eval_to_numeric may return.
NumericOf[e \in Expr] ==
  CASE e[1] = "lit" -> {Strtol(e[3])}
    [] e[1] = "var" -> GetInt(store, e[3], Garbage)
    [] e[1] = "not" -> {IF a \in {Error, Crash} THEN a ELSE Truth(a = 0) : a \in NumericOf[e[3]]}
    [] OTHER ->
         IF e[3] = "==" /\ ~(e[4][2] = "num" /\ e[5][2] = "num")
         THEN {Same(StringOf[e[4]], StringOf[e[5]])}
         ELSE {Apply(e[3], a, b) : a \in NumericOf[e[4]], b \in NumericOf[e[5]]}

-----------------------------------------------------------------------------
(* Statements. *)

Ready == blocked = Awake

Doing(s) == \/ pc = "exec" /\ new = <<"plain", s>>
            \/ pc = "prompt" /\ s \in Immediate

\* exec_stmt returns 0, or -1.
Succeed == IF pc = "prompt" THEN UNCHANGED shell ELSE Return

\* A variant the checks refute: the error goes to the setjmp of exec_cont, which
\* returns without leaving the run.
GiveUpAtCont == IF pc = "prompt" THEN UNCHANGED shell ELSE pc' = "prompt" /\ Forget

GiveUp == IF pc = "prompt" THEN UNCHANGED shell ELSE Fail

Rest == UNCHANGED <<list, counter, running, gotQuit>>

Dies == blocked' = Waits("crash", -1) /\ UNCHANGED <<shell, store, jobs, assigned>>

\* store_set_int and store_set_string; NoValue unsets.
Assign(var, n) == /\ store' = SetInt(store, var, n)
                  /\ assigned' = [assigned EXCEPT ![var] = {n}]

AssignText(var, text) == /\ store' = SetString(store, var, text)
                         /\ assigned' = [assigned EXCEPT ![var] = {}]

Fails == GiveUp /\ UNCHANGED mush

SetNumber(var, n) ==
  IF n = Error THEN Fails
  ELSE IF n = Crash THEN Dies
  ELSE Assign(var, ToInt(n)) /\ Succeed /\ UNCHANGED <<jobs, blocked>>

SetText(var, s) ==
  IF s = Error THEN Fails
  ELSE IF s = Crash THEN Dies
  ELSE AssignText(var, s) /\ Succeed /\ UNCHANGED <<jobs, blocked>>

Set ==
  \E var \in Var, e \in Expr :
    /\ Ready /\ Doing(<<"set", var, e>>)
    /\ IF e[2] = "num" THEN \E n \in NumericOf[e] : SetNumber(var, n) ELSE SetText(var, StringOf[e])
    /\ Rest

Unset ==
  \E var \in Var :
    /\ Ready /\ Doing(<<"unset", var>>)
    /\ AssignText(var, NoValue)
    /\ Succeed /\ Rest /\ UNCHANGED <<jobs, blocked>>

\* jobs_run fails when the table is full, or fork does (Jobs has what it leaves then).
Started(capture, id) ==
  \/ /\ id \in Job /\ jobs[id] = NoJob /\ \A k \in Job : jobs[k] = NoJob => id <= k
     /\ jobs' = [jobs EXCEPT ![id] = [state |-> "running", status |-> 0,
                                      output |-> IF capture THEN <<>> ELSE NoValue]]
  \/ id = -1 /\ UNCHANGED jobs

Background ==
  \E capture \in BOOLEAN, id \in Job \cup {-1} :
    /\ Ready /\ Doing(<<"bg", capture>>)
    /\ Started(capture, id)
    /\ Assign("JOB", id)
    /\ Succeed /\ Rest /\ UNCHANGED blocked

\* The job runs and exec_stmt waits for it.
Foreground ==
  \E capture \in BOOLEAN, id \in Job \cup {-1} :
    /\ Ready /\ Doing(<<"fg", capture>>)
    /\ Started(capture, id)
    /\ Assign("JOB", id)
    /\ blocked' = Waits("fg", id)
    /\ UNCHANGED shell /\ Rest

WaitStatement ==
  \E e \in Expr :
    /\ Ready /\ Doing(<<"wait", e>>)
    /\ \E n \in NumericOf[e] :
       IF n = Error THEN Fails
       ELSE IF n = Crash THEN Dies
       ELSE blocked' = Waits("wait", ToInt(n)) /\ UNCHANGED <<shell, store, jobs, assigned>>
    /\ Rest

Ended(id) == id \in Job /\ jobs[id].state = "ended"

OutputOf(id) == IF Ended(id) THEN jobs[id].output ELSE NoValue

\* What is done with a job after jobs_wait or jobs_poll has given a status:
\* STATUS is set; OUTPUT is set if there is one (or unset, by `fg'); and the
\* job is expunged if it has ended.
Collect(id, status, force) ==
  /\ LET s == SetInt(store, "STATUS", status)
     IN IF OutputOf(id) # NoValue \/ force
        THEN /\ store' = SetString(s, "OUTPUT", OutputOf(id))
             /\ assigned' = [assigned EXCEPT !["STATUS"] = {status}, !["OUTPUT"] = {}]
        ELSE store' = s /\ assigned' = [assigned EXCEPT !["STATUS"] = {status}]
  /\ jobs' = IF Ended(id) THEN [jobs EXCEPT ![id] = NoJob] ELSE jobs

\* jobs_wait returns: -1 at once for a job that does not exist, -1 too if the
\* handler of SIGCHLD took the leader while it waited, or wait did in a `pause',
\* and otherwise the status of the job.
WaitReturns ==
  \E capture \in BOOLEAN, status \in ExitStatus \cup {-1} :
    /\ blocked.what \in {"fg", "wait"}
    /\ LET id == blocked.job
       IN /\ id \in Job => jobs[id].state # "running"
          /\ \/ status = -1 /\ ~blocked.early
             \/ Ended(id) /\ status = jobs[id].status
          /\ blocked.what = "fg" => Doing(<<"fg", capture>>)
          /\ Collect(id, status, blocked.what = "fg" /\ capture)
    /\ blocked' = Awake
    /\ Succeed /\ Rest

Poll ==
  \E e \in Expr :
    /\ Ready /\ Doing(<<"poll", e>>)
    /\ \E n \in NumericOf[e] :
       IF n = Error THEN Fails
       ELSE IF n = Crash THEN Dies
       ELSE /\ IF Ended(ToInt(n)) /\ jobs[ToInt(n)].status >= 0
               THEN Collect(ToInt(n), jobs[ToInt(n)].status, FALSE)
               ELSE Assign("STATUS", -1) /\ UNCHANGED jobs
            /\ Succeed /\ UNCHANGED blocked
    /\ Rest

\* A leader is killed, or exits: its job has a status and what it wrote.
End(id, statuses) ==
  \E status \in statuses, text \in Output :
    jobs' = [jobs EXCEPT ![id] = [state |-> "ended", status |-> status,
                                  output |-> IF @.output = NoValue THEN NoValue ELSE text]]

Cancel ==
  \E e \in Expr :
    /\ Ready /\ Doing(<<"cancel", e>>)
    /\ \E n \in NumericOf[e] :
       IF n = Error THEN Fails
       ELSE IF n = Crash THEN Dies
       ELSE /\ IF ToInt(n) \in Job /\ jobs[ToInt(n)].state = "running"
               THEN End(ToInt(n), ExitStatus \cup {9}) ELSE UNCHANGED jobs
            /\ Succeed /\ UNCHANGED <<store, blocked, assigned>>
    /\ Rest

\* jobs_pause: wait(NULL) returns when it has taken a leader, or none is left.
Pause ==
  /\ Ready /\ Doing(<<"pause">>)
  /\ blocked' = Waits("pause", -1)
  /\ UNCHANGED <<shell, store, jobs, assigned>> /\ Rest

PauseReturns ==
  /\ \/ blocked.what = "pause" /\ \A id \in Job : jobs[id].state # "running"
     \/ blocked.what = "woken"
  /\ blocked' = Awake
  /\ Succeed /\ Rest /\ UNCHANGED <<store, jobs, assigned>>

\* A leader exits: the handler of SIGCHLD takes it, or the waitpid that waits
\* for it; or wait does, in a `pause', and its job seems to run for ever.
JobEnds ==
  \E id \in Job :
    /\ jobs[id].state = "running" /\ blocked.what # "crash"
    /\ \/ End(id, ExitStatus) /\ UNCHANGED blocked
       \/ /\ blocked.what = "pause"
          /\ jobs' = [jobs EXCEPT ![id] = [NoJob EXCEPT !.state = "lost"]]
          /\ blocked' = Waits("woken", -1)
    /\ UNCHANGED <<list, counter, shell, running, gotQuit, store, assigned>>

-----------------------------------------------------------------------------
(* Jumps: the condition of `if' is kept in an int. *)

Goes(n) == n \notin {Error, Crash} /\ ToInt(n) # 0

IfStatement ==
  /\ Ready /\ pc = "exec" /\ new[1] = "if"
  /\ \E n \in NumericOf[new[3]] :
       IF n = Crash THEN Dies /\ Rest
       ELSE /\ \/ Goes(n) /\ Jump
               \/ n = Error /\ Stop
               \/ ~Goes(n) /\ n # Error /\ Execute
            /\ UNCHANGED mush

\* The rest of Program, while no statement waits.  A program stops at "stop".
ProgramStep ==
  /\ Ready /\ UNCHANGED mush
  /\ \/ Find \/ Replace \/ Insert \/ Delete \/ Deleted \/ Goto
     \/ Fetch \/ EndOfRun \/ Leave
     \/ new[1] = "goto" /\ Jump
     \/ new[1] = "stop" /\ Stop

Prompt == Ready /\ UNCHANGED mush /\ (Command \/ Run)

Continue == Ready /\ UNCHANGED mush /\ Cont

QuitKey == UNCHANGED mush /\ Quit

-----------------------------------------------------------------------------
MushInit ==
  /\ Init
  /\ store = <<>>
  /\ jobs = [id \in Job |-> NoJob]
  /\ blocked = Awake
  /\ assigned = [var \in Var |-> {}]

MushNext ==
  \/ Set \/ Unset \/ Background \/ Foreground \/ WaitStatement \/ WaitReturns \/ Poll \/ Cancel
  \/ Pause \/ PauseReturns \/ JobEnds \/ IfStatement \/ ProgramStep \/ Prompt \/ Continue \/ QuitKey

mushVars == <<vars, mush>>

MushSpec == MushInit /\ [][MushNext]_mushVars

-----------------------------------------------------------------------------
\* The interpreter is a program of the shell with something to do in it: no
\* statement, however it ends, does more to the list, to its counter and to the
\* run than Program says, so what holds of Program holds here (execution.c 107-264).
ImplementsProgram == Spec

\* A variable that the shell or a `set' has given an integer reads as that
\* integer, whatever has happened to the others since, and the statements of
\* one name never find another's value (store.c 54-192, 225-254).
VariablesHold ==
  /\ \A var \in Var : \A n \in assigned[var] : GetInt(store, var, Garbage) = {n}
  /\ \A i, j \in DOMAIN store : store[i][1] = store[j][1] => i = j
=============================================================================

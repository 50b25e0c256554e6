--------------------------------- MODULE Jobs ---------------------------------
(***************************************************************************)
(* The job table of the shell of hw4 (jobs.c), with the statements of      *)
(* execution.c that use it, the processes it creates, and SIGCHLD.         *)
(*                                                                         *)
(* A job is run by a leader process, the shell's child, which creates the  *)
(* commands of the pipeline, waits for all of them and exits.  The shell   *)
(* executes one statement after another.  chld_handler interrupts it       *)
(* between any two steps here; a step ends where the handler could make a  *)
(* difference: after fork, after the pid is stored, before each wait.      *)
(*                                                                         *)
(* Four functions wait for children, and each of them takes the status of  *)
(* a process away from the others: chld_handler, jobs_wait, jobs_cancel    *)
(* and jobs_pause.                                                         *)
(*                                                                         *)
(* Left out: captured output, the shell variables that the statements set, *)
(* statements that have no effect here (POLL of a job that has not         *)
(* terminated).  A process identifier is used only once.                   *)
(***************************************************************************)
EXTENDS Integers

CONSTANTS MaxJobs,    \* MAX_JOBS, the length of job_data_array
          Pid,        \* the identifiers of leader processes (a bound for TLC)
          NoPid,      \* what job_data.pid holds before it is assigned
          AnyPid,     \* -1, what it holds when fork has failed
          Statements  \* the statements that the user enters (a bound for TLC)

ASSUME MaxJobsAssumption == MaxJobs \in Nat \ {0}
ASSUME PidAssumption == NoPid \notin Pid /\ AnyPid \notin Pid /\ NoPid # AnyPid
ASSUME StatementsAssumption ==
    Statements \subseteq {"FG", "BG", "WAIT", "POLL", "CANCEL", "PAUSE"}

VARIABLES
    (* job_data_array *)
    status,    \* "none" where the pointer is NULL
    pid,       \* the leader
    exit,      \* exit_status
    (* the processes *)
    proc,      \* "unborn", "running", or how the leader has ended
    commands,  \* the leaders that have a command running
    reaped,    \* the ended leaders whose status the shell has fetched
    sigchld,   \* SIGCHLD is pending
    (* the shell *)
    pc,        \* where the shell is, at the "prompt" between statements
    stmt,      \* the statement it executes
    job,       \* the job the statement is about
    forked     \* what fork has returned

table == <<status, pid, exit>>
processes == <<proc, commands, reaped, sigchld>>
shell == <<pc, stmt, job, forked>>
vars == <<table, processes, shell>>

Slot == 0 .. MaxJobs - 1
Final == {"COMPLETED", "ABORTED", "CANCELED"}
JobStatus == {"NEW", "RUNNING"} \cup Final

(* An exit_status: the exit code of a leader, which is named like the      *)
(* leader; the 6 and the 9 recorded for a signal; or an unset variable.    *)
ExitStatus == Pid \cup {"6", "9", "unset"}

Label == {"prompt", "store_pid", "set_running", "wait", "waitpid", "expunge",
          "cancel", "cancel_wait", "pause", "fini", "exited", "out of bounds"}

-----------------------------------------------------------------------------
(* The processes. *)

(* The children of the shell that kill or waitpid means by an identifier.  *)
Children(id) == {p \in (IF id = AnyPid THEN Pid ELSE Pid \cap {id}) :
                    proc[p] # "unborn" /\ p \notin reaped}

Zombies(id) == {p \in Children(id) : proc[p] # "running"}

(* A wait for the children that id means ends when one of them has ended,  *)
(* or at once if there are none.                                           *)
Reap(p) == reaped' = reaped \cup {p}
NoChild(id) == Children(id) = {} /\ UNCHANGED reaped

(* The commands of a pipeline end; *)
CommandsEnd(p) ==
    /\ p \in commands
    /\ commands' = commands \ {p}
    /\ UNCHANGED <<table, proc, reaped, sigchld, shell>>

(* the leader has waited for them, and exits; *)
LeaderExits(p) ==
    /\ proc[p] = "running" /\ p \notin commands
    /\ proc' = [proc EXCEPT ![p] = "exited"]
    /\ sigchld' = TRUE
    /\ UNCHANGED <<table, commands, reaped, shell>>

(* or somebody kills the leader alone.                                     *)
LeaderKilled(p) ==
    /\ proc[p] = "running"
    /\ proc' = [proc EXCEPT ![p] = "killed"]
    /\ sigchld' = TRUE
    /\ UNCHANGED <<table, commands, reaped, shell>>

-----------------------------------------------------------------------------
(* chld_handler *)

Recorded(p) == IF proc[p] = "exited" THEN "COMPLETED" ELSE "ABORTED"
RecordedExit(p) == IF proc[p] = "exited" THEN p ELSE "6"

Handler ==
    LET ended(i) == status[i] # "none" /\ pid[i] \in Zombies(AnyPid)
    IN /\ sigchld
       /\ pc \notin {"exited", "out of bounds"}
       /\ sigchld' = FALSE
       /\ reaped' = reaped \cup Zombies(AnyPid)
       /\ status' = [i \in Slot |-> IF ended(i) THEN Recorded(pid[i]) ELSE status[i]]
       /\ exit' = [i \in Slot |-> IF ended(i) THEN RecordedExit(pid[i]) ELSE exit[i]]
       /\ UNCHANGED <<pid, proc, commands, shell>>

-----------------------------------------------------------------------------
(* jobs_run, called by the statements FG and BG.                           *)

FirstFree(i) ==
    /\ status[i] = "none"
    /\ \A j \in Slot : j < i => status[j] # "none"

Full == \A i \in Slot : status[i] # "none"

SetJob(i, s, id, e) ==
    /\ status' = [status EXCEPT ![i] = s]
    /\ pid' = [pid EXCEPT ![i] = id]
    /\ exit' = [exit EXCEPT ![i] = e]

(* A slot is taken and the leader forked. *)
Run(s) ==
    /\ pc = "prompt" /\ s \in Statements \cap {"FG", "BG"}
    /\ \E i \in Slot :
         /\ FirstFree(i)
         /\ SetJob(i, "NEW", NoPid, "unset")
         /\ job' = i
    /\ \E p \in Pid :
         /\ proc[p] = "unborn"
         /\ proc' = [proc EXCEPT ![p] = "running"]
         /\ commands' = commands \cup {p}
         /\ forked' = p
    /\ pc' = "store_pid" /\ stmt' = s
    /\ UNCHANGED <<reaped, sigchld>>

(* fork fails: the slot stays NEW, with -1 for a leader; in the statement  *)
(* FG, jobs_wait(-1) and jobs_expunge(-1) have no effect.                  *)
RunFails(s) ==
    /\ pc = "prompt" /\ s \in Statements \cap {"FG", "BG"}
    /\ \E i \in Slot : FirstFree(i) /\ SetJob(i, "NEW", AnyPid, "unset")
    /\ UNCHANGED <<processes, shell>>

(* job_current_size is never increased, so a full table goes unnoticed and *)
(* the search for an empty slot runs past its end.                         *)
RunOverflows(s) ==
    /\ pc = "prompt" /\ s \in Statements \cap {"FG", "BG"}
    /\ Full
    /\ pc' = "out of bounds"
    /\ UNCHANGED <<table, processes, stmt, job, forked>>

StorePid ==
    /\ pc = "store_pid"
    /\ pid' = [pid EXCEPT ![job] = forked]
    /\ pc' = "set_running"
    /\ UNCHANGED <<status, exit, processes, stmt, job, forked>>

(* new->status = RUNNING, whatever chld_handler has recorded by now.       *)
SetRunning ==
    /\ pc = "set_running"
    /\ status' = [status EXCEPT ![job] = "RUNNING"]
    /\ pc' = IF stmt = "FG" THEN "wait" ELSE "prompt"
    /\ forked' = NoPid
    /\ UNCHANGED <<pid, exit, processes, stmt, job>>

-----------------------------------------------------------------------------
(* jobs_wait, jobs_poll, jobs_expunge *)

(* The statements WAIT and CANCEL, with the job that the user names.       *)
JobControl(s, i) ==
    /\ pc = "prompt" /\ s \in Statements \cap {"WAIT", "CANCEL"}
    /\ pc' = IF s = "WAIT" THEN "wait" ELSE "cancel"
    /\ stmt' = s /\ job' = i
    /\ UNCHANGED <<table, processes, forked>>

Wait ==
    /\ pc = "wait"
    /\ pc' = IF status[job] \in Final THEN "expunge"
             ELSE IF status[job] = "none" THEN "prompt" ELSE "waitpid"
    /\ UNCHANGED <<table, processes, stmt, job, forked>>

(* Mutant: jobs_wait waits for whichever child ends first. *)
WaitPid_Any ==
    /\ pc = "waitpid"
    /\ \/ \E p \in Zombies(AnyPid) :
            Reap(p) /\ SetJob(job, Recorded(p), pid[job], RecordedExit(p))
       \/ NoChild(AnyPid) /\ UNCHANGED table
    /\ pc' = "expunge"
    /\ UNCHANGED <<proc, commands, sigchld, stmt, job, forked>>

(* Mutant: jobs_wait repeats a waitpid that fails. *)
WaitPid_Retry ==
    /\ pc = "waitpid"
    /\ \E p \in Zombies(pid[job]) :
          Reap(p) /\ SetJob(job, Recorded(p), pid[job], RecordedExit(p))
    /\ pc' = "expunge"
    /\ UNCHANGED <<proc, commands, sigchld, stmt, job, forked>>

(* waitpid fails when the handler has been there first, and the job keeps  *)
(* the status it has.                                                      *)
WaitPid ==
    /\ pc = "waitpid"
    /\ \/ \E p \in Zombies(pid[job]) :
            Reap(p) /\ SetJob(job, Recorded(p), pid[job], RecordedExit(p))
       \/ NoChild(pid[job]) /\ UNCHANGED table
    /\ pc' = "expunge"
    /\ UNCHANGED <<proc, commands, sigchld, stmt, job, forked>>

(* The statement POLL, when the job has terminated.                        *)
Poll(i) ==
    /\ pc = "prompt" /\ "POLL" \in Statements
    /\ status[i] \in Final
    /\ pc' = "expunge" /\ stmt' = "POLL" /\ job' = i
    /\ UNCHANGED <<table, processes, forked>>

(* The end of a statement, or of one round of jobs_fini. *)
Done == pc' = IF stmt = "FINI" THEN "fini" ELSE "prompt"

Expunge ==
    /\ pc = "expunge"
    /\ IF status[job] \in Final THEN SetJob(job, "none", NoPid, "unset")
                                ELSE UNCHANGED table
    /\ Done
    /\ UNCHANGED <<processes, stmt, job, forked>>

-----------------------------------------------------------------------------
(* jobs_cancel *)

(* kill succeeds on a leader that has ended but was not waited for; given  *)
(* -1, it kills every process of the user.                                 *)
Killable(id) == id = AnyPid \/ Children(id) # {}

(* Mutant: the status is set before the leader has ended. *)
Cancel_Early ==
    /\ pc = "cancel"
    /\ status[job] \in {"NEW", "RUNNING"}
    /\ Killable(pid[job])
    /\ LET killed == Children(pid[job]) \ Zombies(pid[job])
       IN /\ proc' = [p \in Pid |-> IF p \in killed THEN "killed" ELSE proc[p]]
          /\ commands' = IF pid[job] = AnyPid THEN {} ELSE commands
          /\ sigchld' = (sigchld \/ killed # {})
    /\ pc' = "cancel_wait"
    /\ status' = [status EXCEPT ![job] = "CANCELED"]
    /\ UNCHANGED <<pid, exit, reaped, stmt, job, forked>>

Cancel ==
    /\ pc = "cancel"
    /\ status[job] \in {"NEW", "RUNNING"}
    /\ Killable(pid[job])
    /\ LET killed == Children(pid[job]) \ Zombies(pid[job])
       IN /\ proc' = [p \in Pid |-> IF p \in killed THEN "killed" ELSE proc[p]]
          /\ commands' = IF pid[job] = AnyPid THEN {} ELSE commands
          /\ sigchld' = (sigchld \/ killed # {})
    /\ pc' = "cancel_wait"
    /\ UNCHANGED <<table, reaped, stmt, job, forked>>

(* jobs_cancel returns -1; jobs_fini then gives up.                        *)
CancelFails ==
    /\ pc = "cancel"
    /\ status[job] \in {"NEW", "RUNNING"} => ~Killable(pid[job])
    /\ pc' = IF stmt = "FINI" THEN "exited" ELSE "prompt"
    /\ UNCHANGED <<table, processes, stmt, job, forked>>

(* Mutant: the leader is not waited for. *)
CancelWait_Skipped ==
    /\ pc = "cancel_wait"
    /\ SetJob(job, "CANCELED", pid[job], "9")
    /\ pc' = IF stmt = "FINI" THEN "expunge" ELSE "prompt"
    /\ UNCHANGED <<processes, stmt, job, forked>>

(* When the handler has been there first, the status that is looked at was *)
(* never written.                                                          *)
CancelWait ==
    /\ pc = "cancel_wait"
    /\ \/ \E p \in Zombies(pid[job]) :
            /\ Reap(p)
            /\ SetJob(job, "CANCELED", pid[job], IF proc[p] = "exited" THEN p ELSE "9")
       \/ /\ NoChild(pid[job])
          /\ \E e \in {"9", "unset"} : SetJob(job, "CANCELED", pid[job], e)
    /\ pc' = IF stmt = "FINI" THEN "expunge" ELSE "prompt"
    /\ UNCHANGED <<proc, commands, sigchld, stmt, job, forked>>

-----------------------------------------------------------------------------
(* jobs_pause and jobs_fini *)

PauseStatement ==
    /\ pc = "prompt" /\ "PAUSE" \in Statements
    /\ pc' = "pause"
    /\ UNCHANGED <<table, processes, stmt, job, forked>>

(* wait(NULL): the status of the process that has ended is thrown away.    *)
Pause ==
    /\ pc = "pause"
    /\ NoChild(AnyPid) \/ \E p \in Zombies(AnyPid) : Reap(p)
    /\ pc' = "prompt"
    /\ UNCHANGED <<table, proc, commands, sigchld, stmt, job, forked>>

EndOfInput ==
    /\ pc = "prompt"
    /\ pc' = "fini" /\ stmt' = "FINI" /\ job' = 0
    /\ UNCHANGED <<table, processes, forked>>

(* The loop of jobs_fini. *)
FiniNext ==
    /\ pc = "fini"
    /\ IF job = MaxJobs THEN pc' = "exited" /\ UNCHANGED job
       ELSE IF status[job] = "none" THEN job' = job + 1 /\ UNCHANGED pc
       ELSE /\ pc' = IF status[job] \in Final THEN "expunge" ELSE "cancel"
            /\ UNCHANGED job
    /\ UNCHANGED <<table, processes, stmt, forked>>

-----------------------------------------------------------------------------
Init ==
    /\ status = [i \in Slot |-> "none"]
    /\ pid = [i \in Slot |-> NoPid]
    /\ exit = [i \in Slot |-> "unset"]
    /\ proc = [p \in Pid |-> "unborn"]
    /\ commands = {}
    /\ reaped = {}
    /\ sigchld = FALSE
    /\ pc = "prompt" /\ stmt = "none" /\ job = 0 /\ forked = NoPid

(* The shell goes on with the statement it executes. *)
ShellStep ==
    \/ StorePid \/ SetRunning
    \/ Wait \/ WaitPid \/ Expunge
    \/ Cancel \/ CancelFails \/ CancelWait
    \/ Pause \/ FiniNext

(* The user enters a statement, or ends the input. *)
Statement ==
    \/ \E s \in {"FG", "BG"} : Run(s) \/ RunFails(s) \/ RunOverflows(s)
    \/ \E s \in {"WAIT", "CANCEL"}, i \in Slot : JobControl(s, i)
    \/ \E i \in Slot : Poll(i)
    \/ PauseStatement \/ EndOfInput

ProcessStep(p) == CommandsEnd(p) \/ LeaderExits(p)

Ended == pc \in {"exited", "out of bounds"}

Next ==
    \/ Statement \/ ShellStep \/ Handler
    \/ \E p \in Pid : ProcessStep(p) \/ LeaderKilled(p)
    \/ Ended /\ UNCHANGED vars

Spec == Init /\ [][Next]_vars

(* The shell keeps running, a signal is delivered, and the commands that   *)
(* the user runs come to an end.                                           *)
FairSpec ==
    /\ Spec
    /\ WF_vars(ShellStep) /\ WF_vars(Handler)
    /\ \A p \in Pid : WF_vars(ProcessStep(p))

-----------------------------------------------------------------------------
TypeOK ==
    /\ status \in [Slot -> JobStatus \cup {"none"}]
    /\ pid \in [Slot -> Pid \cup {NoPid, AnyPid}]
    /\ exit \in [Slot -> ExitStatus]
    /\ proc \in [Pid -> {"unborn", "running", "exited", "killed"}]
    /\ commands \subseteq Pid
    /\ reaped \subseteq Pid
    /\ sigchld \in BOOLEAN
    /\ pc \in Label
    /\ stmt \in {"none", "FG", "BG", "WAIT", "POLL", "CANCEL", "FINI"}
    /\ job \in 0 .. MaxJobs
    /\ forked \in Pid \cup {NoPid}

(* Whichever of the four functions has fetched it, the status in the table *)
(* is that of the job's own leader: a job is COMPLETED with the exit code  *)
(* of its leader, which has exited after all its commands, and ABORTED     *)
(* only if its leader was killed.                                          *)
StatusIsOwn ==
    \A i \in Slot : pid[i] \in Pid =>
        /\ status[i] = "COMPLETED" =>
             proc[pid[i]] = "exited" /\ exit[i] = pid[i] /\ pid[i] \notin commands
        /\ status[i] = "ABORTED" => proc[pid[i]] = "killed" /\ exit[i] = "6"

(* No leader is lost: as long as its status has not been fetched, exactly  *)
(* one job of the table has this leader, and it is not in a final state,   *)
(* so that jobs_expunge cannot remove it; but for the moment between the   *)
(* fork and the assignment of its result.                                  *)
LeadersInTable ==
    \A p \in Children(AnyPid) :
        \/ pc = "store_pid" /\ forked = p
        \/ \E i \in Slot : /\ pid[i] = p /\ status[i] \in {"NEW", "RUNNING"}
                           /\ \A j \in Slot : pid[j] = p => j = i

(* A process whose status was fetched has ended; a leader outlives its     *)
(* commands unless it is killed.                                           *)
ProcessesOK ==
    \A p \in Pid : /\ p \in reaped => proc[p] \in {"exited", "killed"}
                   /\ proc[p] = "exited" => p \notin commands

(* The pids in the table are those of distinct processes. *)
PidsOK ==
    \A i \in Slot :
        /\ status[i] = "none" => pid[i] = NoPid
        /\ pid[i] \in Pid => /\ proc[pid[i]] # "unborn"
                             /\ \A j \in Slot : pid[j] = pid[i] => j = i

(* Whoever makes a job final has fetched the status of its leader. *)
FinalReaped ==
    \A i \in Slot : status[i] \in Final /\ pid[i] \in Pid => pid[i] \in reaped

(* What the shell may rely on where it is, the handler notwithstanding. *)
ShellOK ==
    /\ pc \in {"store_pid", "set_running", "wait", "waitpid", "expunge",
              "cancel", "cancel_wait"} => job \in Slot
    /\ pc = "store_pid" => /\ forked \in Pid /\ proc[forked] # "unborn"
                           /\ status[job] = "NEW" /\ pid[job] = NoPid
                           /\ \A i \in Slot : pid[i] # forked
    /\ pc = "set_running" => /\ pid[job] \in Pid
                             /\ status[job] \in {"NEW", "COMPLETED", "ABORTED"}
    /\ pc = "waitpid" => status[job] \notin {"none", "CANCELED"}
    /\ pc = "cancel_wait" => status[job] # "none"

(* The inductive invariant. *)
IInv ==
    /\ TypeOK /\ ProcessesOK /\ PidsOK /\ FinalReaped /\ ShellOK
    /\ StatusIsOwn /\ LeadersInTable

(* The handler does not take a cancellation back. *)
CanceledStays ==
    [][\A i \in Slot : status[i] = "CANCELED" => status'[i] \in {"CANCELED", "none"}]_vars

(* If the commands come to an end, so does every statement: nothing waits  *)
(* for a child whose status somebody else has fetched.                     *)
StatementsEnd == []<>(pc = "prompt" \/ Ended)

=============================================================================

------------------------------ MODULE JobsProofs ------------------------------
(***************************************************************************)
(* Proofs about the job table of hw4 (module Jobs), for any number of      *)
(* slots, any processes and any statements: the invariant IInv, preserved  *)
(* by every action of the shell, of the handler and of the processes.      *)
(***************************************************************************)
EXTENDS Jobs, TLAPS

USE PidAssumption

LEMMA MaxJobsLemma == MaxJobs \in Nat /\ 0 \in 0 .. MaxJobs
BY MaxJobsAssumption

-----------------------------------------------------------------------------
(* The variables keep their types. *)
LEMMA TypeInit == Init => TypeOK
<1> SUFFICES ASSUME Init
             PROVE  TypeOK
  OBVIOUS
<1>1. status \in [Slot -> JobStatus \cup {"none"}] /\ exit \in [Slot -> ExitStatus]
  BY DEF Init, ExitStatus
<1>2. pid \in [Slot -> Pid \cup {NoPid, AnyPid}]
  BY DEF Init
<1>3. proc \in [Pid -> {"unborn", "running", "exited", "killed"}]
  BY DEF Init
<1>4. pc \in Label /\ job \in 0 .. MaxJobs /\ sigchld \in BOOLEAN
  BY MaxJobsLemma DEF Init, Label
<1>5. stmt \in {"none", "FG", "BG", "WAIT", "POLL", "CANCEL", "FINI"}
  BY DEF Init
<1> QED
  BY <1>1, <1>2, <1>3, <1>4, <1>5 DEF Init, TypeOK

LEMMA TypeStep == TypeOK /\ [Next]_vars => TypeOK'
<1> SUFFICES ASSUME TypeOK, [Next]_vars
             PROVE  TypeOK'
  OBVIOUS
<1> USE DEF TypeOK, table, processes, shell, JobStatus, Final, Label, ExitStatus
<1>1. ASSUME NEW s \in {"FG", "BG"}, Run(s)
      PROVE  TypeOK'
  BY <1>1, MaxJobsLemma DEF Run, SetJob, Slot
<1>2. ASSUME NEW s \in {"FG", "BG"}, RunFails(s) \/ RunOverflows(s)
      PROVE  TypeOK'
  BY <1>2 DEF RunFails, RunOverflows, SetJob
<1>3. ASSUME NEW s \in {"WAIT", "CANCEL"}, NEW i \in Slot, JobControl(s, i)
      PROVE  TypeOK'
  BY <1>3, MaxJobsLemma DEF JobControl, Slot
<1>4. ASSUME NEW i \in Slot, Poll(i)
      PROVE  TypeOK'
  BY <1>4, MaxJobsLemma DEF Poll, Slot
<1>5. CASE PauseStatement \/ EndOfInput
  BY <1>5, MaxJobsLemma DEF PauseStatement, EndOfInput
<1>6. CASE StorePid \/ SetRunning
  BY ZenonT(60), <1>6 DEF StorePid, SetRunning
<1>7. CASE Wait \/ Expunge
  BY <1>7 DEF Wait, Expunge, SetJob, Done
<1>8. CASE WaitPid
  BY <1>8 DEF WaitPid, Reap, NoChild, SetJob, Recorded, RecordedExit, Zombies, Children
<1>9. CASE Cancel
  BY <1>9 DEF Cancel
<1>10. CASE CancelFails
  BY <1>10 DEF CancelFails
<1>11. CASE CancelWait
  BY <1>11 DEF CancelWait, Reap, NoChild, SetJob, Zombies, Children
<1>12. CASE Pause
  BY <1>12 DEF Pause, Reap, NoChild, Zombies, Children
<1>13. CASE FiniNext
  <2>1. job' \in 0 .. MaxJobs
    BY <1>13, MaxJobsLemma DEF FiniNext
  <2> QED
    BY <1>13, <2>1 DEF FiniNext
<1>14. CASE Handler
  BY <1>14 DEF Handler, Recorded, RecordedExit, Zombies, Children
<1>15. ASSUME NEW p \in Pid, ProcessStep(p) \/ LeaderKilled(p)
       PROVE  TypeOK'
  BY <1>15 DEF ProcessStep, CommandsEnd, LeaderExits, LeaderKilled
<1>16. CASE UNCHANGED vars
  BY <1>16 DEF vars
<1> QED
  BY <1>1, <1>2, <1>3, <1>4, <1>5, <1>6, <1>7, <1>8, <1>9, <1>10, <1>11,
     <1>12, <1>13, <1>14, <1>15, <1>16 DEF Next, Statement, ShellStep

-----------------------------------------------------------------------------
(* What the steps have in common. *)

Core == ProcessesOK /\ PidsOK /\ FinalReaped /\ StatusIsOwn /\ LeadersInTable

(* A step between two looks at the table. *)
LEMMA CoreSame ==
    ASSUME IInv, UNCHANGED <<table, proc, commands, reaped>>, pc # "store_pid"
    PROVE  Core'
<1>1. ProcessesOK' /\ PidsOK' /\ FinalReaped' /\ StatusIsOwn'
  BY DEF IInv, table, ProcessesOK, PidsOK, FinalReaped, StatusIsOwn
<1>2. Children(AnyPid)' = Children(AnyPid)
  BY DEF Children
<1>3. LeadersInTable'
  BY <1>2 DEF IInv, table, LeadersInTable
<1> QED
  BY <1>1, <1>3 DEF Core

(* A status is fetched for the job of the statement, or there is none to   *)
(* fetch.                                                                  *)
LEMMA CoreFetch ==
    ASSUME IInv, job \in Slot, pc # "store_pid",
           NEW s \in Final, NEW e \in ExitStatus, SetJob(job, s, pid[job], e),
           UNCHANGED <<proc, commands>>,
           NEW R \in SUBSET Zombies(pid[job]), reaped' = reaped \cup R,
           pid[job] \in Pid => pid[job] \in reaped',
           pid[job] \in Pid /\ s = "COMPLETED" => proc[pid[job]] = "exited" /\ e = pid[job],
           pid[job] \in Pid /\ s = "ABORTED" => proc[pid[job]] = "killed" /\ e = "6"
    PROVE  Core'
<1> USE DEF IInv
<1>1. pid' = pid /\ status' = [status EXCEPT ![job] = s] /\ exit' = [exit EXCEPT ![job] = e]
  BY DEF SetJob, TypeOK
<1>2. \A p \in R : p \in Pid /\ proc[p] \in {"exited", "killed"}
  BY DEF Zombies, Children, TypeOK
<1>3. ProcessesOK'
  BY <1>2 DEF ProcessesOK
<1>4. PidsOK'
  BY <1>1 DEF PidsOK, TypeOK, Final
<1>5. FinalReaped'
  BY <1>1 DEF FinalReaped, TypeOK
<1>6. StatusIsOwn'
  BY <1>1 DEF StatusIsOwn, ProcessesOK, TypeOK
<1>7. LeadersInTable'
  <2> SUFFICES ASSUME NEW p \in Children(AnyPid)'
               PROVE  \E i \in Slot : /\ pid'[i] = p /\ status'[i] \in {"NEW", "RUNNING"}
                                      /\ \A j \in Slot : pid'[j] = p => j = i
    BY DEF LeadersInTable
  <2>1. p \in Children(AnyPid) /\ p \in Pid /\ p \notin reaped'
    BY DEF Children
  <2>2. PICK i \in Slot : /\ pid[i] = p /\ status[i] \in {"NEW", "RUNNING"}
                         /\ \A j \in Slot : pid[j] = p => j = i
    BY <2>1 DEF LeadersInTable
  <2>3. i # job
    BY <2>1, <2>2
  <2> QED
    BY <1>1, <2>2, <2>3 DEF TypeOK
<1> QED
  BY <1>3, <1>4, <1>5, <1>6, <1>7 DEF Core

(* A leader ends, or its commands do. *)
LEMMA CoreProcess ==
    ASSUME IInv, UNCHANGED <<table, reaped>>, commands' \subseteq commands,
           pc # "store_pid" \/ UNCHANGED <<pc, forked>>,
           NEW K \in SUBSET Pid, \A p \in K : proc[p] = "running",
           \/ proc' = [p \in Pid |-> IF p \in K THEN "killed" ELSE proc[p]]
           \/ \E p \in K : p \notin commands /\ proc' = [proc EXCEPT ![p] = "exited"]
    PROVE  Core'
<1> USE DEF IInv
<1>1. \A p \in Pid :
        \/ proc'[p] = proc[p]
        \/ proc[p] = "running" /\ proc'[p] = "killed"
        \/ proc[p] = "running" /\ proc'[p] = "exited" /\ p \notin commands
  BY DEF TypeOK
<1>2. ProcessesOK'
  BY <1>1 DEF ProcessesOK
<1>3. PidsOK' /\ FinalReaped'
  BY <1>1 DEF PidsOK, FinalReaped, table
<1>4. StatusIsOwn'
  BY <1>1 DEF StatusIsOwn, table
<1>5. Children(AnyPid)' = Children(AnyPid)
  BY <1>1 DEF Children
<1>6. LeadersInTable'
  BY <1>5 DEF LeadersInTable, table
<1> QED
  BY <1>2, <1>3, <1>4, <1>6 DEF Core

-----------------------------------------------------------------------------
(* The actions that look at the table, or leave it alone. *)

LEMMA LookStep ==
    ASSUME IInv,
           \/ \E s \in {"FG", "BG"} : RunOverflows(s)
           \/ \E s \in {"WAIT", "CANCEL"}, i \in Slot : JobControl(s, i)
           \/ \E i \in Slot : Poll(i)
           \/ PauseStatement \/ EndOfInput \/ Wait \/ CancelFails \/ FiniNext
    PROVE  Core' /\ ShellOK'
<1>1. UNCHANGED <<table, proc, commands, reaped>> /\ pc # "store_pid"
  BY DEF RunOverflows, JobControl, Poll, PauseStatement, EndOfInput, Wait,
         CancelFails, FiniNext, processes
<1>2. Core'
  BY <1>1, CoreSame
<1>3. job' \in Slot \/ pc' \notin {"store_pid", "set_running", "wait", "waitpid",
                                 "expunge", "cancel", "cancel_wait"}
  <2>1. CASE FiniNext
    <3>1. job # MaxJobs => job \in Slot
      BY MaxJobsLemma DEF IInv, TypeOK, Slot
    <3> QED
      BY <2>1, <3>1 DEF FiniNext
  <2>2. CASE \E i \in Slot : Poll(i)
    BY <2>2 DEF Poll
  <2>3. CASE \E s \in {"WAIT", "CANCEL"}, i \in Slot : JobControl(s, i)
    BY <2>3 DEF JobControl
  <2>4. CASE PauseStatement \/ EndOfInput \/ \E s \in {"FG", "BG"} : RunOverflows(s)
    BY <2>4 DEF PauseStatement, EndOfInput, RunOverflows
  <2>5. CASE Wait \/ CancelFails
    BY <2>5 DEF Wait, CancelFails, IInv, ShellOK
  <2> QED
    BY <2>1, <2>2, <2>3, <2>4, <2>5
<1>4. pc' \notin {"store_pid", "set_running", "cancel_wait"}
  BY DEF RunOverflows, JobControl, Poll, PauseStatement, EndOfInput, Wait,
         CancelFails, FiniNext
<1>5. pc' = "waitpid" => status'[job'] \notin {"none", "CANCELED"}
  BY DEF RunOverflows, JobControl, Poll, PauseStatement, EndOfInput, Wait,
         CancelFails, FiniNext, table, Final, IInv, TypeOK
<1> QED
  BY <1>2, <1>3, <1>4, <1>5 DEF ShellOK

-----------------------------------------------------------------------------
(* jobs_run *)

LEMMA RunStep ==
    ASSUME IInv, NEW s \in {"FG", "BG"}, Run(s)
    PROVE  Core' /\ ShellOK'
<1> USE DEF IInv
<1>1. PICK i \in Slot : status[i] = "none" /\ SetJob(i, "NEW", NoPid, "unset") /\ job' = i
  BY DEF Run, FirstFree
<1>2. PICK p \in Pid : /\ proc[p] = "unborn" /\ proc' = [proc EXCEPT ![p] = "running"]
                      /\ commands' = commands \cup {p} /\ forked' = p
  BY DEF Run
<1>3. pid' = pid /\ pid[i] = NoPid
  BY <1>1 DEF SetJob, PidsOK, TypeOK
<1>4. /\ status' = [status EXCEPT ![i] = "NEW"] /\ exit' = [exit EXCEPT ![i] = "unset"]
      /\ reaped' = reaped /\ pc' = "store_pid" /\ pc # "store_pid"
  BY <1>1 DEF SetJob, Run
<1>5. \A j \in Slot : pid[j] # p
  BY <1>2 DEF PidsOK
<1>6. ProcessesOK'
  BY <1>2, <1>4 DEF ProcessesOK, TypeOK
<1>7. PidsOK'
  BY <1>2, <1>3, <1>4, <1>5 DEF PidsOK, TypeOK
<1>8. FinalReaped'
  BY <1>3, <1>4 DEF FinalReaped, TypeOK
<1>9. StatusIsOwn'
  BY <1>2, <1>3, <1>4, <1>5 DEF StatusIsOwn, TypeOK
<1>10. LeadersInTable'
  <2> SUFFICES ASSUME NEW q \in Children(AnyPid)', q # p
               PROVE  \E j \in Slot : /\ pid'[j] = q /\ status'[j] \in {"NEW", "RUNNING"}
                                      /\ \A k \in Slot : pid'[k] = q => k = j
    BY <1>2, <1>4 DEF LeadersInTable
  <2>1. q \in Children(AnyPid)
    BY <1>2, <1>4 DEF Children, TypeOK
  <2>2. PICK j \in Slot : /\ pid[j] = q /\ status[j] \in {"NEW", "RUNNING"}
                         /\ \A k \in Slot : pid[k] = q => k = j
    BY <1>4, <2>1 DEF LeadersInTable
  <2> QED
    BY <1>1, <1>3, <1>4, <2>2 DEF TypeOK
<1>11. ShellOK'
  BY <1>1, <1>2, <1>3, <1>4, <1>5 DEF ShellOK, TypeOK
<1> QED
  BY <1>6, <1>7, <1>8, <1>9, <1>10, <1>11 DEF Core

LEMMA RunFailsStep ==
    ASSUME IInv, NEW s \in {"FG", "BG"}, RunFails(s)
    PROVE  Core' /\ ShellOK'
<1> USE DEF IInv, processes, shell
<1>1. PICK i \in Slot : status[i] = "none" /\ SetJob(i, "NEW", AnyPid, "unset")
  BY DEF RunFails, FirstFree
<1>2. /\ pid' = [pid EXCEPT ![i] = AnyPid] /\ status' = [status EXCEPT ![i] = "NEW"]
      /\ exit' = [exit EXCEPT ![i] = "unset"]
      /\ UNCHANGED <<proc, commands, reaped, pc, forked, job>> /\ pc = "prompt"
  BY <1>1 DEF SetJob, RunFails
<1>3. pid[i] = NoPid
  BY <1>1 DEF PidsOK
<1>4. ProcessesOK' /\ PidsOK' /\ FinalReaped' /\ StatusIsOwn'
  BY <1>1, <1>2 DEF ProcessesOK, PidsOK, FinalReaped, StatusIsOwn, TypeOK, Final
<1>5. Children(AnyPid)' = Children(AnyPid) /\ Children(AnyPid) \subseteq Pid
  BY <1>2 DEF Children
<1>6. LeadersInTable'
  BY <1>1, <1>2, <1>3, <1>5 DEF LeadersInTable, TypeOK
<1>7. ShellOK'
  BY <1>2 DEF ShellOK
<1> QED
  BY <1>4, <1>6, <1>7 DEF Core

LEMMA StorePidStep ==
    ASSUME IInv, StorePid
    PROVE  Core' /\ ShellOK'
<1> USE DEF IInv, processes
<1>1. /\ pid' = [pid EXCEPT ![job] = forked] /\ job \in Slot /\ forked \in Pid
      /\ UNCHANGED <<status, exit, proc, commands, reaped, job, forked>>
      /\ pc = "store_pid" /\ pc' = "set_running"
  BY DEF StorePid, ShellOK
<1>2. /\ proc[forked] # "unborn" /\ status[job] = "NEW" /\ pid[job] = NoPid
      /\ \A i \in Slot : pid[i] # forked
  BY <1>1 DEF ShellOK
<1>3. ProcessesOK' /\ PidsOK' /\ FinalReaped' /\ StatusIsOwn'
  BY <1>1, <1>2 DEF ProcessesOK, PidsOK, FinalReaped, StatusIsOwn, TypeOK, Final
<1>4. Children(AnyPid)' = Children(AnyPid) /\ Children(AnyPid) \subseteq Pid
  BY <1>1 DEF Children
<1>5. LeadersInTable'
  BY <1>1, <1>2, <1>4 DEF LeadersInTable, TypeOK
<1>6. ShellOK'
  BY <1>1, <1>2 DEF ShellOK, TypeOK
<1> QED
  BY <1>3, <1>5, <1>6 DEF Core

LEMMA SetRunningStep ==
    ASSUME IInv, SetRunning
    PROVE  Core' /\ ShellOK'
<1> USE DEF IInv, processes
<1>1. /\ status' = [status EXCEPT ![job] = "RUNNING"] /\ job \in Slot
      /\ UNCHANGED <<pid, exit, proc, commands, reaped, job>>
      /\ pc = "set_running" /\ pc' \in {"wait", "prompt"} /\ pid[job] \in Pid
  BY DEF SetRunning, ShellOK
<1>2. ProcessesOK' /\ PidsOK' /\ FinalReaped' /\ StatusIsOwn'
  BY <1>1 DEF ProcessesOK, PidsOK, FinalReaped, StatusIsOwn, TypeOK, Final
<1>3. Children(AnyPid)' = Children(AnyPid)
  BY <1>1 DEF Children
<1>4. LeadersInTable'
  BY <1>1, <1>3 DEF LeadersInTable, TypeOK
<1>5. ShellOK'
  BY <1>1 DEF ShellOK
<1> QED
  BY <1>2, <1>4, <1>5 DEF Core

-----------------------------------------------------------------------------
(* chld_handler *)

LEMMA HandlerStep ==
    ASSUME IInv, Handler
    PROVE  Core' /\ ShellOK'
<1> USE DEF IInv, shell
<1> DEFINE Z == Zombies(AnyPid)
<1> DEFINE ended(i) == status[i] # "none" /\ pid[i] \in Z
<1>1. /\ reaped' = reaped \cup Z
      /\ status' = [i \in Slot |-> IF ended(i) THEN Recorded(pid[i]) ELSE status[i]]
      /\ exit' = [i \in Slot |-> IF ended(i) THEN RecordedExit(pid[i]) ELSE exit[i]]
      /\ UNCHANGED <<pid, proc, commands, pc, stmt, job, forked>>
  BY DEF Handler
<1>2. \A p \in Z : p \in Pid /\ proc[p] \in {"exited", "killed"} /\ p \notin reaped
  BY DEF Zombies, Children, TypeOK
<1>3. \A i \in Slot : ended(i) =>
        status[i] \notin Final /\ status'[i] \in {"COMPLETED", "ABORTED"}
  BY <1>1, <1>2 DEF Recorded, FinalReaped
<1>4. \A i \in Slot : ~ended(i) => status'[i] = status[i] /\ exit'[i] = exit[i]
  BY <1>1
<1>5. ProcessesOK'
  BY <1>1, <1>2 DEF ProcessesOK
<1>6. PidsOK'
  BY <1>1, <1>3, <1>4 DEF PidsOK
<1>7. FinalReaped'
  BY <1>1, <1>3, <1>4 DEF FinalReaped
<1>8. StatusIsOwn'
  <2> SUFFICES ASSUME NEW i \in Slot, pid[i] \in Pid
               PROVE  /\ status'[i] = "COMPLETED" => /\ proc[pid[i]] = "exited"
                                                     /\ exit'[i] = pid[i]
                                                     /\ pid[i] \notin commands
                      /\ status'[i] = "ABORTED" => proc[pid[i]] = "killed" /\ exit'[i] = "6"
    BY <1>1 DEF StatusIsOwn
  <2>1. CASE ended(i)
    BY <1>1, <1>2, <2>1 DEF Recorded, RecordedExit, ProcessesOK
  <2>2. CASE ~ended(i)
    BY <1>4, <2>2 DEF StatusIsOwn
  <2> QED
    BY <2>1, <2>2
<1>9. LeadersInTable'
  <2> SUFFICES ASSUME NEW p \in Children(AnyPid)', ~(pc = "store_pid" /\ forked = p)
               PROVE  \E i \in Slot : /\ pid[i] = p /\ status'[i] \in {"NEW", "RUNNING"}
                                      /\ \A j \in Slot : pid[j] = p => j = i
    BY <1>1 DEF LeadersInTable
  <2>1. p \in Children(AnyPid) /\ p \notin Z
    BY <1>1 DEF Children
  <2>2. PICK i \in Slot : /\ pid[i] = p /\ status[i] \in {"NEW", "RUNNING"}
                         /\ \A j \in Slot : pid[j] = p => j = i
    BY <2>1 DEF LeadersInTable
  <2> QED
    BY <1>4, <2>1, <2>2
<1>10. ShellOK'
  <2>1. pc = "store_pid" => ~ended(job)
    BY <1>2 DEF ShellOK
  <2>2. \A i \in Slot : \/ status'[i] = status[i]
                        \/ status[i] # "none" /\ status'[i] \in {"COMPLETED", "ABORTED"}
    <3> SUFFICES ASSUME NEW i \in Slot
                 PROVE  \/ status'[i] = status[i]
                        \/ status[i] # "none" /\ status'[i] \in {"COMPLETED", "ABORTED"}
      OBVIOUS
    <3>1. CASE ended(i)
      BY <1>3, <3>1
    <3>2. CASE ~ended(i)
      BY <1>4, <3>2
    <3> QED
      BY <3>1, <3>2
  <2> QED
    BY <1>1, <1>4, <2>1, <2>2 DEF ShellOK
<1> QED
  BY <1>5, <1>6, <1>7, <1>8, <1>9, <1>10 DEF Core

-----------------------------------------------------------------------------
(* jobs_wait, jobs_cancel, jobs_pause, jobs_expunge *)

LEMMA WaitPidStep ==
    ASSUME IInv, WaitPid
    PROVE  Core' /\ ShellOK'
<1> USE DEF IInv
<1>1. /\ job \in Slot /\ pc = "waitpid" /\ pc' = "expunge" /\ job' = job
      /\ UNCHANGED <<proc, commands>>
  BY DEF WaitPid, ShellOK
<1>2. Core'
  <2>1. CASE NoChild(pid[job]) /\ UNCHANGED table
    BY <1>1, <2>1, CoreSame DEF NoChild
  <2>2. ASSUME NEW p \in Zombies(pid[job]), Reap(p),
               SetJob(job, Recorded(p), pid[job], RecordedExit(p))
        PROVE  Core'
    <3>1. /\ p \in Pid /\ proc[p] \in {"exited", "killed"}
          /\ pid[job] \in Pid => pid[job] = p
      BY PidAssumption DEF Zombies, Children, TypeOK
    <3>2. Recorded(p) \in Final /\ RecordedExit(p) \in ExitStatus
      BY <3>1 DEF Recorded, RecordedExit, Final, ExitStatus
    <3>3. /\ {p} \in SUBSET Zombies(pid[job]) /\ reaped' = reaped \cup {p}
          /\ pid[job] \in Pid => pid[job] \in reaped'
      BY <2>2, <3>1 DEF Reap
    <3>4. /\ Recorded(p) = "COMPLETED" => proc[p] = "exited" /\ RecordedExit(p) = p
          /\ Recorded(p) = "ABORTED" => proc[p] = "killed" /\ RecordedExit(p) = "6"
      BY <3>1 DEF Recorded, RecordedExit
    <3> QED
      BY <1>1, <2>2, <3>1, <3>2, <3>3, <3>4, CoreFetch
  <2> QED
    BY <2>1, <2>2 DEF WaitPid
<1> QED
  BY <1>1, <1>2 DEF ShellOK

LEMMA CancelWaitStep ==
    ASSUME IInv, CancelWait
    PROVE  Core' /\ ShellOK'
<1> USE DEF IInv
<1>1. /\ job \in Slot /\ pc = "cancel_wait" /\ pc' \in {"expunge", "prompt"}
      /\ job' = job /\ UNCHANGED <<proc, commands>>
  BY DEF CancelWait, ShellOK
<1>2. Core'
  <2>1. ASSUME NoChild(pid[job]), NEW e \in {"9", "unset"},
               SetJob(job, "CANCELED", pid[job], e)
        PROVE  Core'
    <3>1. {} \in SUBSET Zombies(pid[job]) /\ reaped' = reaped \cup {}
      BY <2>1 DEF NoChild
    <3>2. pid[job] \in Pid => pid[job] \in reaped'
      BY <1>1, <2>1 DEF NoChild, Children, PidsOK
    <3>3. "CANCELED" \in Final /\ e \in ExitStatus
      BY DEF Final, ExitStatus
    <3> QED
      BY <1>1, <2>1, <3>1, <3>2, <3>3, CoreFetch
  <2>2. ASSUME NEW p \in Zombies(pid[job]), Reap(p),
               SetJob(job, "CANCELED", pid[job], IF proc[p] = "exited" THEN p ELSE "9")
        PROVE  Core'
    <3>1. p \in Pid /\ (pid[job] \in Pid => pid[job] = p)
      BY PidAssumption DEF Zombies, Children
    <3>2. /\ {p} \in SUBSET Zombies(pid[job]) /\ reaped' = reaped \cup {p}
          /\ pid[job] \in Pid => pid[job] \in reaped'
      BY <2>2, <3>1 DEF Reap
    <3>3. "CANCELED" \in Final /\ (IF proc[p] = "exited" THEN p ELSE "9") \in ExitStatus
      BY <3>1 DEF Final, ExitStatus
    <3> QED
      BY <1>1, <2>2, <3>2, <3>3, CoreFetch
  <2> QED
    BY <2>1, <2>2 DEF CancelWait
<1> QED
  BY <1>1, <1>2 DEF ShellOK

LEMMA PauseStep ==
    ASSUME IInv, Pause
    PROVE  Core' /\ ShellOK'
<1> USE DEF IInv, table
<1>1. UNCHANGED <<table, proc, commands>> /\ pc = "pause" /\ pc' = "prompt"
  BY DEF Pause
<1>2. CASE NoChild(AnyPid)
  BY <1>1, <1>2, CoreSame DEF NoChild, ShellOK
<1>3. ASSUME NEW p \in Zombies(AnyPid), Reap(p)
      PROVE  Core' /\ ShellOK'
  <2>1. p \in Pid /\ proc[p] \in {"exited", "killed"} /\ reaped' = reaped \cup {p}
    BY <1>3 DEF Zombies, Children, Reap, TypeOK
  <2>2. ProcessesOK' /\ PidsOK' /\ FinalReaped' /\ StatusIsOwn'
    BY <1>1, <2>1 DEF ProcessesOK, PidsOK, FinalReaped, StatusIsOwn
  <2>3. Children(AnyPid)' \subseteq Children(AnyPid)
    BY <1>1, <2>1 DEF Children
  <2>4. LeadersInTable'
    BY <1>1, <2>3 DEF LeadersInTable
  <2> QED
    BY <1>1, <2>2, <2>4 DEF Core, ShellOK
<1> QED
  BY <1>2, <1>3 DEF Pause

LEMMA ExpungeStep ==
    ASSUME IInv, Expunge
    PROVE  Core' /\ ShellOK'
<1> USE DEF IInv, processes
<1>1. /\ UNCHANGED <<proc, commands, reaped>> /\ pc = "expunge"
      /\ pc' \in {"fini", "prompt"} /\ job \in Slot
  BY DEF Expunge, Done, ShellOK
<1>2. CASE status[job] \notin Final
  BY <1>1, <1>2, CoreSame DEF Expunge, ShellOK
<1>3. CASE status[job] \in Final
  <2>1. /\ status' = [status EXCEPT ![job] = "none"]
        /\ pid' = [pid EXCEPT ![job] = NoPid] /\ exit' = [exit EXCEPT ![job] = "unset"]
    BY <1>3 DEF Expunge, SetJob
  <2>2. ProcessesOK' /\ PidsOK' /\ FinalReaped' /\ StatusIsOwn'
    BY <1>1, <2>1, PidAssumption
    DEF ProcessesOK, PidsOK, FinalReaped, StatusIsOwn, TypeOK, Final
  <2>3. Children(AnyPid)' = Children(AnyPid) /\ Children(AnyPid) \subseteq Pid
    BY <1>1 DEF Children
  <2>4. LeadersInTable'
    BY <1>1, <1>3, <2>1, <2>3, PidAssumption DEF LeadersInTable, TypeOK, Final
  <2> QED
    BY <1>1, <2>2, <2>4 DEF Core, ShellOK
<1> QED
  BY <1>2, <1>3

LEMMA CancelStep ==
    ASSUME IInv, Cancel
    PROVE  Core' /\ ShellOK'
<1> USE DEF IInv
<1> DEFINE K == Children(pid[job]) \ Zombies(pid[job])
<1>1. /\ UNCHANGED <<table, reaped, forked, job>> /\ commands' \subseteq commands
      /\ pc = "cancel" /\ pc' = "cancel_wait"
      /\ proc' = [p \in Pid |-> IF p \in K THEN "killed" ELSE proc[p]]
  BY DEF Cancel
<1>2. K \in SUBSET Pid /\ \A p \in K : proc[p] = "running"
  BY DEF Zombies, Children, TypeOK
<1>3. status[job] # "none" /\ job \in Slot
  BY DEF Cancel, ShellOK
<1>4. ShellOK'
  BY <1>1, <1>3 DEF ShellOK, table
<1>5. Core'
  <2> HIDE DEF K
  <2> QED
    BY <1>1, <1>2, CoreProcess
<1> QED
  BY <1>4, <1>5

LEMMA ProcessesStep ==
    ASSUME IInv, NEW p \in Pid, ProcessStep(p) \/ LeaderKilled(p)
    PROVE  Core' /\ ShellOK'
<1> USE DEF IInv, table, shell
<1>1. UNCHANGED <<status, pid, pc, job, forked, reaped, exit>>
  BY DEF ProcessStep, CommandsEnd, LeaderExits, LeaderKilled
<1>2. CASE CommandsEnd(p)
  <2>1. /\ {} \in SUBSET Pid /\ commands' \subseteq commands
        /\ proc' = [q \in Pid |-> IF q \in {} THEN "killed" ELSE proc[q]]
    BY <1>2 DEF CommandsEnd, TypeOK
  <2>2. Core'
    BY <1>1, <2>1, CoreProcess
  <2>3. proc' = proc
    BY <1>2 DEF CommandsEnd
  <2> QED
    BY <1>1, <2>2, <2>3 DEF ShellOK
<1>3. CASE LeaderExits(p) \/ LeaderKilled(p)
  <2>1. \/ proc' = [q \in Pid |-> IF q \in {p} THEN "killed" ELSE proc[q]]
        \/ \E q \in {p} : q \notin commands /\ proc' = [proc EXCEPT ![q] = "exited"]
    BY <1>3 DEF LeaderExits, LeaderKilled, TypeOK
  <2>2. {p} \in SUBSET Pid /\ (\A q \in {p} : proc[q] = "running") /\ commands' \subseteq commands
    BY <1>3 DEF LeaderExits, LeaderKilled
  <2>3. Core'
    <3> HIDE DEF IInv
    <3> QED
      BY <1>1, <2>1, <2>2, CoreProcess
  <2>4. proc' = [proc EXCEPT ![p] = "exited"] \/ proc' = [proc EXCEPT ![p] = "killed"]
    BY <1>3 DEF LeaderExits, LeaderKilled
  <2>5. ASSUME NEW q \in Pid, proc[q] # "unborn"
        PROVE  proc'[q] # "unborn"
    BY <2>4, <2>5 DEF TypeOK
  <2> QED
    BY <1>1, <2>3, <2>5 DEF ShellOK
<1> QED
  BY <1>2, <1>3 DEF ProcessStep

LEMMA StutterStep ==
    ASSUME IInv, UNCHANGED vars
    PROVE  Core' /\ ShellOK'
BY DEF IInv, vars, table, processes, shell, Core, ProcessesOK, PidsOK, FinalReaped,
       StatusIsOwn, LeadersInTable, Children, ShellOK

-----------------------------------------------------------------------------
LEMMA Initially == Init => IInv
<1> SUFFICES ASSUME Init
             PROVE  IInv
  OBVIOUS
<1>1. Children(AnyPid) = {}
  BY DEF Init, Children
<1>2. \A i \in Slot : pid[i] \notin Pid /\ pid[i] = NoPid
  BY PidAssumption DEF Init
<1>3. ProcessesOK /\ PidsOK /\ FinalReaped /\ StatusIsOwn
  BY <1>2 DEF Init, ProcessesOK, PidsOK, FinalReaped, StatusIsOwn
<1>4. LeadersInTable /\ ShellOK
  BY <1>1 DEF Init, LeadersInTable, ShellOK
<1> QED
  BY <1>3, <1>4, TypeInit DEF IInv

LEMMA Preserved == IInv /\ [Next]_vars => IInv'
<1> SUFFICES ASSUME IInv, [Next]_vars
             PROVE  IInv'
  OBVIOUS
<1>1. TypeOK'
  BY TypeStep DEF IInv
<1>2. Core' /\ ShellOK'
  <2>1. CASE \E s \in {"FG", "BG"} : Run(s)
    BY <2>1, RunStep
  <2>2. CASE \E s \in {"FG", "BG"} : RunFails(s)
    BY <2>2, RunFailsStep
  <2>3. CASE StorePid
    BY <2>3, StorePidStep
  <2>4. CASE SetRunning
    BY <2>4, SetRunningStep
  <2>5. CASE \/ \E s \in {"FG", "BG"} : RunOverflows(s)
             \/ \E s \in {"WAIT", "CANCEL"}, i \in Slot : JobControl(s, i)
             \/ \E i \in Slot : Poll(i)
             \/ PauseStatement \/ EndOfInput \/ Wait \/ CancelFails \/ FiniNext
    BY <2>5, LookStep
  <2>6. CASE WaitPid
    BY <2>6, WaitPidStep
  <2>7. CASE Expunge
    BY <2>7, ExpungeStep
  <2>8. CASE Cancel
    BY <2>8, CancelStep
  <2>9. CASE CancelWait
    BY <2>9, CancelWaitStep
  <2>10. CASE Pause
    BY <2>10, PauseStep
  <2>11. CASE Handler
    BY <2>11, HandlerStep
  <2>12. CASE \E p \in Pid : ProcessStep(p) \/ LeaderKilled(p)
    BY <2>12, ProcessesStep
  <2>13. CASE UNCHANGED vars
    BY <2>13, StutterStep
  <2> QED
    BY <2>1, <2>2, <2>3, <2>4, <2>5, <2>6, <2>7, <2>8, <2>9, <2>10, <2>11, <2>12, <2>13
    DEF Next, Statement, ShellStep
<1> QED
  BY <1>1, <1>2 DEF IInv, Core

(* The inductive invariant holds whatever the slots, processes, statements *)
(* and moments of interruption.                                            *)
THEOREM Invariance == Spec => []IInv
<1>1. Init => IInv
  BY Initially
<1>2. IInv /\ [Next]_vars => IInv'
  BY Preserved
<1> QED
  BY <1>1, <1>2, PTL DEF Spec

(* Every variable of the shell and its processes keeps its type. *)
THEOREM TypeCorrect == Spec => []TypeOK
<1>1. IInv => TypeOK
  BY DEF IInv
<1> QED
  BY <1>1, Invariance, PTL

(* A job is recorded as completed or aborted only with the fate of its own *)
(* leader, whichever of the waits has fetched it.                          *)
THEOREM OwnStatus == Spec => []StatusIsOwn
<1>1. IInv => StatusIsOwn
  BY DEF IInv
<1> QED
  BY <1>1, Invariance, PTL

(* A leader that has not been waited for is never dropped from the table.  *)
THEOREM NoLeaderLost == Spec => []LeadersInTable
<1>1. IInv => LeadersInTable
  BY DEF IInv
<1> QED
  BY <1>1, Invariance, PTL

(* No step, of the handler least of all, takes a cancellation back. *)
THEOREM CancellationLasts == Spec => CanceledStays
<1> DEFINE Stays == \A i \in Slot : status[i] = "CANCELED" => status'[i] \in {"CANCELED", "none"}
<1>1. ASSUME IInv, [Next]_vars
      PROVE  [Stays]_vars
  <2> SUFFICES ASSUME NEW i \in Slot, status[i] = "CANCELED", Next, status'[i] # status[i]
               PROVE  status'[i] \in {"CANCELED", "none"}
    BY <1>1 DEF vars, table
  <2> USE <1>1 DEF IInv, table
  <2>1. CASE Handler
    <3>1. pid[i] \notin Zombies(AnyPid)
      BY DEF FinalReaped, Zombies, Children, Final
    <3> QED
      BY <2>1, <3>1 DEF Handler
  <2>2. CASE SetRunning
    BY <2>2 DEF SetRunning, ShellOK, TypeOK
  <2>3. CASE WaitPid
    BY <2>3 DEF WaitPid, SetJob, ShellOK, TypeOK
  <2>4. CASE CancelWait
    BY <2>4 DEF CancelWait, SetJob, ShellOK, TypeOK
  <2>5. CASE Expunge
    BY <2>5 DEF Expunge, SetJob, ShellOK, TypeOK
  <2>6. CASE \E s \in {"FG", "BG"} : Run(s) \/ RunFails(s)
    BY <2>6 DEF Run, RunFails, FirstFree, SetJob, TypeOK
  <2>7. CASE \/ \E s \in {"FG", "BG"} : RunOverflows(s)
             \/ \E s \in {"WAIT", "CANCEL"}, j \in Slot : JobControl(s, j)
             \/ \E j \in Slot : Poll(j)
             \/ PauseStatement \/ EndOfInput \/ Wait \/ CancelFails \/ FiniNext
             \/ StorePid \/ Cancel \/ Pause \/ UNCHANGED vars
    BY <2>7 DEF RunOverflows, JobControl, Poll, PauseStatement, EndOfInput, Wait,
                CancelFails, FiniNext, StorePid, Cancel, Pause, vars
  <2>8. CASE \E p \in Pid : ProcessStep(p) \/ LeaderKilled(p)
    BY <2>8 DEF ProcessStep, CommandsEnd, LeaderExits, LeaderKilled
  <2> QED
    BY <2>1, <2>2, <2>3, <2>4, <2>5, <2>6, <2>7, <2>8 DEF Next, Statement, ShellStep
<1> QED
  BY <1>1, Invariance, PTL DEF Spec, CanceledStays

=============================================================================

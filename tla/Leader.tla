-------------------------------- MODULE Leader --------------------------------
(***************************************************************************)
(* The processes of the pipelines of hw4 (jobs_run, jobs.c), which Jobs    *)
(* sees from outside: the shell opens a pipe for the captured output of a  *)
(* job and forks its leader; the leader opens the pipes between its        *)
(* commands, forks them, closes the pipes and waits for them; and the      *)
(* shell reads what the last one writes when SIGIO tells it to.            *)
(*                                                                         *)
(* Every job is captured, and is started once.  The programs the commands  *)
(* run are ours to assume: each writes a few bytes, and ends when it has   *)
(* written them and its input is at its end, or before.  A process that    *)
(* fails between fork and exec returns from jobs_run and goes on as a      *)
(* second shell, a "copy", which writes nothing to the pipes and ends      *)
(* whenever it likes.                                                      *)
(***************************************************************************)
EXTENDS Integers, FiniteSets

CONSTANTS
  Job,         \* the slots of the table that are used
  Size,        \* the number of commands of each job
  Bytes,       \* how many bytes each command of a job writes
  Room,        \* how many a pipe holds
  ExitStatus   \* the statuses commands exit with

\* io_handler starts with slot 1 here; a pipeline has a command.
ASSUME JobAssumption == 1 \in Job /\ Job \subseteq Nat \ {0} /\ \A j \in Job : 1..j \subseteq Job
ASSUME SizeAssumption == Size \in [Job -> Nat \ {0}] /\ Bytes \in [Job -> Nat]

VARIABLES
  shell,       \* where the shell is, and with which job
  table,       \* the status of each job
  holds,       \* the jobs whose captured output the shell has open for writing
  leader,      \* the leader of each job, the command it has come to, its exit_code
  cmd,         \* the commands of each job
  pipe,        \* the bytes in the pipe after each command
  output,      \* the bytes the shell has read
  sent,        \* the bytes the last command has written
  taken,       \* the length of the text OUTPUT was set to, or -1
  stray,       \* the jobs for which bytes were read before they had a pipe
  lost,        \* how many bytes of each job were read as such
  sigio,       \* SIGIO is pending
  reading      \* the job whose pipe io_handler reads, or 0

vars == <<shell, table, holds, leader, cmd, pipe, output, sent, taken, stray, lost, sigio, reading>>

Cmd(j) == 1..Size[j]

Unread == UNCHANGED <<output, taken, stray, lost, reading>>

-----------------------------------------------------------------------------
(* Descriptors. *)

\* The leader has the pipes between the commands open until it waits, and the
\* commands until they exec.
HasAll(j) == {c \in Cmd(j) : cmd[j][c].at \in {"forked", "copy"}}

\* A variant the checks refute: the leader waits with the pipes open.
OpenedToWait(j) == leader[j].at \in {"forking", "waiting", "copy"} \/ HasAll(j) # {}

Opened(j) == leader[j].at \in {"forking", "copy"} \/ HasAll(j) # {}

Writers(j, i) == Opened(j) \/ cmd[j][i].at = "run"
Readers(j, i) == Opened(j) \/ cmd[j][i + 1].at = "run"

\* The leader never closes the pipe to the shell; nor does a command that is not the last.
Capturing(j) ==
  \/ j \in holds
  \/ leader[j].at \in {"forking", "waiting", "copy"}
  \/ \E c \in Cmd(j) : cmd[j][c].at \in {"forked", "run", "copy"}

\* The shell is told of bytes, and of the end of them.
Hangup(j) == sigio' = (sigio \/ (Capturing(j) /\ ~Capturing(j)'))

-----------------------------------------------------------------------------
(* The shell.  It does nothing while a signal is pending or handled. *)

Mainline(at, j) == shell = [at |-> at, job |-> j] /\ ~sigio /\ reading = 0

Go(at, j) == shell' = [at |-> at, job |-> j]

\* jobs_run: the job is in the table,
Enter(j) ==
  /\ Mainline("idle", 0) /\ table[j] = "free"
  /\ table' = [table EXCEPT ![j] = "new"]
  /\ Go("entered", j)
  /\ UNCHANGED <<holds, leader, cmd, pipe, sent, sigio>> /\ Unread

\* has a pipe, or stays without one,
OpenPipe(j) ==
  /\ Mainline("entered", j)
  /\ \/ holds' = holds \cup {j} /\ Go("piped", j)
     \/ UNCHANGED holds /\ Go("idle", 0)
  /\ UNCHANGED <<table, leader, cmd, pipe, sent, sigio>> /\ Unread

\* and a leader, or not, and then the pipe stays open;
Fork(j) ==
  /\ Mainline("piped", j)
  /\ \/ leader' = [leader EXCEPT ![j].at = "forking"] /\ Go("forked", j)
     \/ UNCHANGED leader /\ Go("idle", 0)
  /\ UNCHANGED <<table, holds, cmd, pipe, sent, sigio>> /\ Unread

\* the shell closes its end, and says that the job runs.
CloseEnd(j) ==
  /\ Mainline("forked", j)
  /\ holds' = holds \ {j}
  /\ table' = [table EXCEPT ![j] = "running"]
  /\ Go("idle", 0)
  /\ UNCHANGED <<leader, cmd, pipe, sent>> /\ Unread
  /\ Hangup(j)

\* chld_handler, even within io_handler.
Reap(j) ==
  /\ shell.at # "dead"
  /\ leader[j].at \in {"exited", "gone"}
  /\ leader' = [leader EXCEPT ![j].at = "reaped"]
  /\ table' = [table EXCEPT ![j] = "done"]
  /\ UNCHANGED <<shell, holds, cmd, pipe, sent, sigio>> /\ Unread

\* jobs_wait, for a job that has a leader; the text of jobs_get_output is
\* copied, and jobs_expunge frees the job.  jobs_run has put an end of text at the
\* start of the output, which is where bytes go only if there were none before.
Take(j) == taken' = [taken EXCEPT ![j] = IF j \in stray THEN 0 ELSE output[j]] /\ Go("freeing", j)

Wait(j) ==
  /\ Mainline("idle", 0) /\ table[j] \in {"running", "done"}
  /\ Go("waiting", j)
  /\ UNCHANGED <<table, holds, leader, cmd, pipe, sent, sigio>> /\ Unread

WaitReturns(j) ==
  /\ Mainline("waiting", j)
  /\ \/ table[j] = "done" /\ Take(j) /\ UNCHANGED <<table, leader>>
     \/ /\ leader[j].at \in {"exited", "gone"}
        /\ leader' = [leader EXCEPT ![j].at = "reaped"]
        /\ table' = [table EXCEPT ![j] = "done"]
        /\ Take(j)
     \/ /\ leader[j].at = "reaped" /\ table[j] # "done"
        /\ Go("idle", 0) /\ UNCHANGED <<table, leader, taken>>
  /\ UNCHANGED <<holds, cmd, pipe, output, sent, stray, lost, sigio, reading>>

\* The free is over when the slot is NULL.
Expunge(j) ==
  /\ Mainline("freeing", j)
  /\ table' = [table EXCEPT ![j] = "gone"]
  /\ Go("idle", 0)
  /\ UNCHANGED <<holds, leader, cmd, pipe, sent, sigio>> /\ Unread

-----------------------------------------------------------------------------
(* io_handler, which goes through the table and reads every captured pipe   *)
(* to its end.  Its reads block: F_SETFL has replaced O_NONBLOCK.           *)

IoBegin ==
  /\ sigio /\ reading = 0 /\ shell.at # "dead"
  /\ sigio' = FALSE
  /\ reading' = 1
  /\ UNCHANGED <<shell, table, holds, leader, cmd, pipe, output, sent, taken, stray, lost>>

Freeing(j) == shell = [at |-> "freeing", job |-> j]
NoPipe(j) == table[j] = "new" /\ j \notin holds

NextRead == reading' = (IF reading + 1 \in Job THEN reading + 1 ELSE 0)

\* A byte is read.  A variant the checks refute: one for each SIGIO.
IoByteOnce ==
  /\ reading # 0 /\ table[reading] \in {"new", "running", "done"}
  /\ ~Freeing(reading) /\ ~NoPipe(reading)
  /\ pipe[reading][Size[reading]] > 0
  /\ pipe' = [pipe EXCEPT ![reading][Size[reading]] = @ - 1]
  /\ output' = [output EXCEPT ![reading] = @ + 1]
  /\ NextRead
  /\ UNCHANGED <<shell, table, holds, leader, cmd, sent, taken, stray, lost, sigio>>

IoByte ==
  /\ reading # 0 /\ table[reading] \in {"new", "running", "done"}
  /\ ~Freeing(reading) /\ ~NoPipe(reading)
  /\ pipe[reading][Size[reading]] > 0
  /\ pipe' = [pipe EXCEPT ![reading][Size[reading]] = @ - 1]
  /\ output' = [output EXCEPT ![reading] = @ + 1]
  /\ UNCHANGED <<shell, table, holds, leader, cmd, sent, taken, stray, lost, sigio, reading>>

\* The pipe is at its end, there is no job, or its descriptor, which is not yet
\* set, is closed or at its end.
IoNext ==
  /\ reading # 0 /\ shell.at \notin {"dead", "blocked"}
  /\ \/ table[reading] \in {"free", "gone"}
     \/ NoPipe(reading)
     \/ ~Freeing(reading) /\ pipe[reading][Size[reading]] = 0 /\ ~Capturing(reading)
  /\ NextRead
  /\ UNCHANGED <<shell, table, holds, leader, cmd, pipe, output, sent, taken, stray, lost, sigio>>

\* The descriptor is what the memory held: that of the terminal, a file or, left
\* by a job whose memory it was, another job's pipe.  A byte is read from there,
IoStray ==
  /\ reading # 0 /\ NoPipe(reading) /\ shell.at \notin {"dead", "blocked"}
  /\ stray' = stray \cup {reading}
  /\ \/ UNCHANGED <<pipe, lost>>
     \/ \E k \in Job : /\ pipe[k][Size[k]] > 0
                       /\ pipe' = [pipe EXCEPT ![k][Size[k]] = @ - 1]
                       /\ lost' = [lost EXCEPT ![k] = @ + 1]
  /\ UNCHANGED <<shell, table, holds, leader, cmd, output, sent, taken, sigio, reading>>

\* or there is no byte, and never will be, or no end of them.
IoBlocks ==
  /\ reading # 0 /\ NoPipe(reading) /\ shell.at # "dead"
  /\ Go("blocked", 0)
  /\ UNCHANGED <<table, holds, leader, cmd, pipe, sent, sigio>> /\ Unread

\* A job that is being freed has no pipeline to look at.
IoCrash ==
  /\ reading # 0 /\ Freeing(reading)
  /\ Go("dead", 0)
  /\ UNCHANGED <<table, holds, leader, cmd, pipe, sent, sigio>> /\ Unread

-----------------------------------------------------------------------------
(* The leader. *)

LeaderUnread == UNCHANGED <<shell, table, holds, pipe, sent>> /\ Unread

\* A command is forked; or pipe or fork fails.
ForkCommand(j) ==
  /\ leader[j].at = "forking" /\ leader[j].i \in Cmd(j)
  /\ cmd' = [cmd EXCEPT ![j][leader[j].i].at = "forked"]
  /\ leader' = [leader EXCEPT ![j].i = @ + 1]
  /\ UNCHANGED sigio /\ LeaderUnread

LeaderFails(j) ==
  /\ leader[j].at = "forking" /\ leader[j].i \in Cmd(j)
  /\ leader' = [leader EXCEPT ![j].at = "copy"]
  /\ UNCHANGED <<cmd, sigio>> /\ LeaderUnread

\* The pipes are closed.
ClosePipes(j) ==
  /\ leader[j].at = "forking" /\ leader[j].i \notin Cmd(j)
  /\ leader' = [leader EXCEPT ![j].at = "waiting", ![j].i = 1]
  /\ UNCHANGED <<cmd, sigio>> /\ LeaderUnread

\* The leader has the shell's handler of SIGCHLD, which may be first.  The status
\* of a command that is reaped is gone.
LeaderReaps(j) ==
  /\ leader[j].at \in {"forking", "waiting", "copy"}
  /\ \E c \in Cmd(j) :
       /\ cmd[j][c].at = "ended" /\ ~cmd[j][c].reaped
       /\ cmd' = [cmd EXCEPT ![j][c].reaped = TRUE, ![j][c].status = 0]
  /\ UNCHANGED <<leader, sigio>> /\ LeaderUnread

\* waitpid gives the command's status, or fails, and status may hold anything.
\* A command that was killed leaves exit_code alone.
LeaderWaits(j) ==
  /\ leader[j].at = "waiting" /\ leader[j].i \in Cmd(j)
  /\ LET c == leader[j].i
     IN /\ cmd[j][c].at = "ended"
        /\ cmd' = [cmd EXCEPT ![j][c].reaped = TRUE, ![j][c].status = 0]
        /\ \E code \in IF cmd[j][c].reaped THEN ExitStatus \cup {leader[j].code}
                       ELSE IF cmd[j][c].status \in ExitStatus THEN {cmd[j][c].status} ELSE {leader[j].code} :
             leader' = [leader EXCEPT ![j].i = c + 1, ![j].code = code]
  /\ UNCHANGED sigio /\ LeaderUnread

LeaderExits(j) ==
  /\ leader[j].at = "waiting" /\ leader[j].i \notin Cmd(j)
  /\ leader' = [leader EXCEPT ![j].at = "exited"]
  /\ UNCHANGED cmd /\ LeaderUnread
  /\ Hangup(j)

\* A copy of the shell waits for nobody.
LeaderGone(j) ==
  /\ leader[j].at = "copy"
  /\ leader' = [leader EXCEPT ![j].at = "gone"]
  /\ UNCHANGED cmd /\ LeaderUnread
  /\ Hangup(j)

-----------------------------------------------------------------------------
(* The commands. *)

CommandOnly == UNCHANGED <<shell, table, holds, leader>> /\ Unread

\* A command has closed what it does not need and runs its program; or it fails.
Exec(j, c) ==
  /\ cmd[j][c].at = "forked"
  /\ \E at \in {"run", "copy"} : cmd' = [cmd EXCEPT ![j][c].at = at]
  /\ UNCHANGED <<pipe, sent, sigio>> /\ CommandOnly

Ends(j, c, status) ==
  /\ cmd' = [cmd EXCEPT ![j][c] = [at |-> "ended", left |-> 0, status |-> status, reaped |-> FALSE]]
  /\ UNCHANGED <<pipe, sent>> /\ CommandOnly
  /\ Hangup(j)

\* execvp fails; a copy is killed, or comes to an end; a program is killed, or
\* ends before its input.
EndsEarly(j, c) ==
  /\ cmd[j][c].at \in {"forked", "run", "copy"}
  /\ \E status \in ExitStatus \cup {-1} : Ends(j, c, status)

AtEnd(j, c) == c > 1 => pipe[j][c - 1] = 0 /\ ~Writers(j, c - 1)

Finishes(j, c) ==
  /\ cmd[j][c].at = "run" /\ cmd[j][c].left = 0 /\ AtEnd(j, c)
  /\ \E status \in ExitStatus : Ends(j, c, status)

Read(j, c) ==
  /\ cmd[j][c].at = "run" /\ c > 1 /\ pipe[j][c - 1] > 0
  /\ pipe' = [pipe EXCEPT ![j][c - 1] = @ - 1]
  /\ UNCHANGED <<cmd, sent, sigio>> /\ CommandOnly

\* A write to a full pipe waits; one that nobody reads ends in SIGPIPE.
Write(j, c) ==
  /\ cmd[j][c].at = "run" /\ cmd[j][c].left > 0
  /\ IF c < Size[j] /\ ~Readers(j, c) THEN Ends(j, c, -1)
     ELSE /\ pipe[j][c] < Room
          /\ pipe' = [pipe EXCEPT ![j][c] = @ + 1]
          /\ cmd' = [cmd EXCEPT ![j][c].left = @ - 1]
          /\ IF c = Size[j] THEN sent' = [sent EXCEPT ![j] = @ + 1] /\ sigio' = TRUE
                            ELSE UNCHANGED <<sent, sigio>>
          /\ CommandOnly

-----------------------------------------------------------------------------
Init ==
  /\ shell = [at |-> "idle", job |-> 0]
  /\ table = [j \in Job |-> "free"]
  /\ holds = {}
  /\ leader = [j \in Job |-> [at |-> "none", i |-> 1, code |-> 0]]
  /\ cmd = [j \in Job |-> [c \in Cmd(j) |-> [at |-> "none", left |-> Bytes[j], status |-> 0, reaped |-> FALSE]]]
  /\ pipe = [j \in Job |-> [c \in Cmd(j) |-> 0]]
  /\ output = [j \in Job |-> 0] /\ sent = [j \in Job |-> 0] /\ taken = [j \in Job |-> -1]
  /\ stray = {} /\ lost = [j \in Job |-> 0]
  /\ sigio = FALSE /\ reading = 0

ShellStep == \E j \in Job : OpenPipe(j) \/ Fork(j) \/ CloseEnd(j) \/ WaitReturns(j) \/ Expunge(j)

Handler == IoBegin \/ IoByte \/ IoNext \/ IoStray \/ IoBlocks \/ IoCrash

LeaderStep(j) == ForkCommand(j) \/ ClosePipes(j) \/ LeaderWaits(j) \/ LeaderExits(j)

CommandStep(j, c) == Exec(j, c) \/ Finishes(j, c) \/ Read(j, c) \/ Write(j, c)

Next ==
  \/ ShellStep \/ Handler
  \/ \E j \in Job : \/ Enter(j) \/ Wait(j) \/ Reap(j)
                    \/ LeaderStep(j) \/ LeaderFails(j) \/ LeaderReaps(j) \/ LeaderGone(j)
                    \/ \E c \in Cmd(j) : CommandStep(j, c) \/ EndsEarly(j, c)

Spec == Init /\ [][Next]_vars

\* Every process runs; the user need not start a job, nor a copy end.
FairSpec ==
  /\ Spec /\ WF_vars(ShellStep) /\ WF_vars(Handler)
  /\ \A j \in Job : /\ WF_vars(LeaderStep(j)) /\ WF_vars(Reap(j))
                    /\ \A c \in Cmd(j) : WF_vars(CommandStep(j, c))

-----------------------------------------------------------------------------
\* The shell is told of all that was written before it is told of the end: what
\* OUTPUT is set to is everything the last command wrote, though one SIGIO may
\* stand for many writes and the leader may end at once (io_handler, jobs.c
\* 91-113, with jobs_wait and jobs_get_output).  It is not if io_handler ran
\* between jobs.c 249 and 254, where a job is in the table and has no pipe: the
\* text of that job is then empty (259-260) if any byte was read for it, and
\* bytes of others may be lost, although jobs.c 209-213 promises without exception
\* that captured output is read and saved.  And nothing more will be written: a leader that
\* exits has no command left, whoever has reaped them (jobs.c 204-206, 382-390).
OutputComplete ==
  \A j \in Job : /\ taken[j] # -1 => j \in stray \/ taken[j] + lost[j] = sent[j]
                 /\ leader[j].at = "exited" => \A c \in Cmd(j) : cmd[j][c].at = "ended"

\* io_handler waits for an end that only the shell could bring, or for what a
\* descriptor that is not set will never give, or met a job that was being freed.
Stuck ==
  \/ shell.at \in {"dead", "blocked"}
  \/ reading \in holds

Copies == \E j \in Job : leader[j].at \in {"copy", "gone"} \/ \E c \in Cmd(j) : cmd[j][c].at = "copy"

\* Every end of every pipe is closed by all who have it but do not use it, so
\* a pipeline whose programs end when their input does comes to its end, and
\* its leader with it, whatever the order in which they run (jobs.c 331-393).
JobsEnd ==
  \A j \in Job : leader[j].at = "forking" ~> leader[j].at \in {"exited", "reaped"} \/ Stuck \/ Copies
=============================================================================

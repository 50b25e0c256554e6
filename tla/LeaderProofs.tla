----------------------------- MODULE LeaderProofs -----------------------------
(***************************************************************************)
(* A proof about the processes of the pipelines of hw4 (module Leader),    *)
(* for any number of jobs, of any number of commands, which write any      *)
(* number of bytes to pipes of any size: the text that OUTPUT is set to is *)
(* all that the last command writes, and a leader exits last.              *)
(***************************************************************************)
EXTENDS Leader, TLAPS

USE JobAssumption, SizeAssumption

\* The last command, which has the pipe to the shell.
Last(j) == Size[j]

ShellAt == {"idle", "entered", "piped", "forked", "waiting", "freeing", "dead", "blocked"}
LeaderAt == {"none", "forking", "waiting", "copy", "exited", "gone", "reaped"}
CommandAt == {"none", "forked", "run", "copy", "ended"}

Commands == [at : CommandAt, left : Nat, status : ExitStatus \cup {-1, 0}, reaped : BOOLEAN]

Codes == ExitStatus \cup {-1, 0}

Leaders == [at : LeaderAt, i : Nat \ {0}, code : Codes]

CommandsOK == cmd = [j \in Job |-> cmd[j]] /\ \A j \in Job : cmd[j] \in [Cmd(j) -> Commands]

PipesOK == pipe = [j \in Job |-> pipe[j]] /\ \A j \in Job : pipe[j] \in [Cmd(j) -> Nat]

CountsOK ==
  /\ output \in [Job -> Nat] /\ sent \in [Job -> Nat] /\ taken \in [Job -> Nat \cup {-1}]
  /\ stray \in SUBSET Job /\ lost \in [Job -> Nat]
  /\ sigio \in BOOLEAN /\ reading \in Job \cup {0}

ControlOK ==
  /\ shell \in [at : ShellAt, job : Job \cup {0}]
  /\ table \in [Job -> {"free", "new", "running", "done", "gone"}]
  /\ leader \in [Job -> Leaders]

TypeOK == CommandsOK /\ PipesOK /\ CountsOK /\ ControlOK

\* What the last command has written is read, for its job or for another, or is
\* in the pipe.
Flow == \A j \in Job : sent[j] = output[j] + lost[j] + pipe[j][Last(j)]

\* A pipe that is not empty will be read: SIGIO is pending, or io_handler has not
\* come past it.
Told == \A j \in Job : pipe[j][Last(j)] > 0 => sigio \/ reading \in 1..j

\* How far the leader and its commands have come.
LeaderPlace(j) ==
  /\ leader[j].at = "none" => leader[j].i = 1 /\ \A c \in Cmd(j) : cmd[j][c].at = "none"
  /\ leader[j].at = "forking" => \A c \in Cmd(j) : c >= leader[j].i => cmd[j][c].at = "none"
  /\ leader[j].at = "forking" => \A c \in Cmd(j) : c < leader[j].i => cmd[j][c].at # "none"
  /\ leader[j].at = "waiting" => \A c \in Cmd(j) : /\ cmd[j][c].at # "none"
                                                   /\ c < leader[j].i => cmd[j][c].at = "ended"
  /\ leader[j].at = "exited" => \A c \in Cmd(j) : cmd[j][c].at = "ended"
  /\ leader[j].at \in {"copy", "gone"} => cmd[j][Last(j)].at = "none"
  /\ leader[j].at = "reaped" => cmd[j][Last(j)].at \in {"none", "ended"}

LeaderPlaces == \A j \in Job : LeaderPlace(j)

Unwritten == \A j \in Job : cmd[j][Last(j)].at = "none" => pipe[j][Last(j)] = 0

\* How far the shell has come with a job.
ShellPlaces ==
  /\ shell.at \notin {"idle", "dead", "blocked"} => shell.job \in Job
  /\ shell.at \in {"entered", "piped"} => leader[shell.job].at = "none" /\ table[shell.job] = "new"
  /\ shell.at = "piped" => shell.job \in holds
  /\ shell.at = "freeing" => taken[shell.job] # -1
  /\ \A j \in Job : /\ table[j] = "free" => leader[j].at = "none"
                    /\ table[j] = "done" => leader[j].at = "reaped"
                    /\ table[j] = "gone" => taken[j] # -1
                    /\ NoPipe(j) => leader[j].at = "none"

Taken ==
  \A j \in Job : taken[j] # -1 => /\ leader[j].at = "reaped" /\ pipe[j][Last(j)] = 0
                                  /\ taken[j] = IF j \in stray THEN 0 ELSE output[j]

IInv == TypeOK /\ Flow /\ Told /\ LeaderPlaces /\ Unwritten /\ ShellPlaces /\ Taken

-----------------------------------------------------------------------------
(* What the parts of a step do. *)

LEMMA LastIsCommand == \A j \in Job : Last(j) \in Cmd(j) /\ Cmd(j) \subseteq Nat \ {0}
BY DEF Last, Cmd

\* The record of a command is replaced.
CommandMoves(j, c, to) ==
  /\ cmd' = [k \in Job |-> cmd'[k]] /\ \A k \in Job : cmd'[k] \in [Cmd(k) -> Commands]
  /\ cmd'[j][c].at = to
  /\ \A k \in Job : \A d \in Cmd(k) : k # j \/ d # c => cmd'[k][d] = cmd[k][d]

LEMMA CommandChanges ==
    ASSUME TypeOK, NEW j \in Job, NEW c \in Cmd(j), NEW r \in Commands,
           cmd' = [k \in Job |-> IF k = j THEN [cmd[j] EXCEPT ![c] = r] ELSE cmd[k]]
    PROVE  CommandMoves(j, c, r.at)
<1>2. cmd' = [k \in Job |-> cmd'[k]]
  OBVIOUS
<1>3. cmd'[j] = [cmd[j] EXCEPT ![c] = r] /\ \A k \in Job : k # j => cmd'[k] = cmd[k]
  OBVIOUS
<1>4. cmd[j] \in [Cmd(j) -> Commands]
  BY DEF TypeOK, CommandsOK, PipesOK
<1>5. cmd'[j] \in [Cmd(j) -> Commands] /\ cmd'[j][c] = r
      /\ \A d \in Cmd(j) : d # c => cmd'[j][d] = cmd[j][d]
  BY <1>3, <1>4
<1>6. \A k \in Job : cmd'[k] \in [Cmd(k) -> Commands]
  BY <1>3, <1>5 DEF TypeOK, CommandsOK, PipesOK
<1> QED
  BY <1>2, <1>3, <1>5, <1>6 DEF CommandMoves

\* A pipe has a byte more, or less.
PipeMoves(j, c, n) ==
  /\ pipe' = [k \in Job |-> pipe'[k]] /\ \A k \in Job : pipe'[k] \in [Cmd(k) -> Nat]
  /\ pipe'[j][c] = n
  /\ \A k \in Job : \A d \in Cmd(k) : k # j \/ d # c => pipe'[k][d] = pipe[k][d]

LEMMA PipeChanges ==
    ASSUME TypeOK, NEW j \in Job, NEW c \in Cmd(j), NEW n \in Nat,
           pipe' = [k \in Job |-> IF k = j THEN [pipe[j] EXCEPT ![c] = n] ELSE pipe[k]]
    PROVE  PipeMoves(j, c, n)
<1>2. pipe' = [k \in Job |-> pipe'[k]]
  OBVIOUS
<1>3. pipe'[j] = [pipe[j] EXCEPT ![c] = n] /\ \A k \in Job : k # j => pipe'[k] = pipe[k]
  OBVIOUS
<1>4. pipe[j] \in [Cmd(j) -> Nat]
  BY DEF TypeOK, CommandsOK, PipesOK
<1>5. pipe'[j] \in [Cmd(j) -> Nat] /\ pipe'[j][c] = n
      /\ \A d \in Cmd(j) : d # c => pipe'[j][d] = pipe[j][d]
  BY <1>3, <1>4
<1>6. \A k \in Job : pipe'[k] \in [Cmd(k) -> Nat]
  BY <1>3, <1>5 DEF TypeOK, CommandsOK, PipesOK
<1> QED
  BY <1>2, <1>3, <1>5, <1>6 DEF PipeMoves

LEMMA PipeGains ==
    ASSUME TypeOK, NEW j \in Job, NEW c \in Cmd(j), pipe' = [pipe EXCEPT ![j][c] = @ + 1]
    PROVE  PipeMoves(j, c, pipe[j][c] + 1)
<1>1. pipe[j][c] \in Nat
  BY DEF TypeOK, CommandsOK, PipesOK
<1>2. PICK n \in Nat : n = pipe[j][c] + 1
  BY <1>1
<1>3. pipe' = [k \in Job |-> IF k = j THEN [pipe[j] EXCEPT ![c] = n] ELSE pipe[k]]
  BY <1>2 DEF TypeOK, CommandsOK, PipesOK
<1> QED
  BY <1>2, <1>3, PipeChanges

LEMMA PipeLoses ==
    ASSUME TypeOK, NEW j \in Job, NEW c \in Cmd(j), pipe[j][c] > 0,
           pipe' = [pipe EXCEPT ![j][c] = @ - 1]
    PROVE  PipeMoves(j, c, pipe[j][c] - 1)
<1>1. pipe[j][c] \in Nat
  BY DEF TypeOK, CommandsOK, PipesOK
<1>2. PICK n \in Nat : n = pipe[j][c] - 1
  BY <1>1
<1>3. pipe' = [k \in Job |-> IF k = j THEN [pipe[j] EXCEPT ![c] = n] ELSE pipe[k]]
  BY <1>2 DEF TypeOK, CommandsOK, PipesOK
<1> QED
  BY <1>2, <1>3, PipeChanges

LEMMA CommandAtChanges ==
    ASSUME TypeOK, NEW j \in Job, NEW c \in Cmd(j), NEW to \in CommandAt,
           cmd' = [cmd EXCEPT ![j][c].at = to]
    PROVE  CommandMoves(j, c, to)
<1> DEFINE r == [cmd[j][c] EXCEPT !.at = to]
<1>1. cmd[j][c] \in Commands
  BY DEF TypeOK, CommandsOK, PipesOK
<1>2. r \in Commands /\ r.at = to
  BY <1>1 DEF Commands
<1>3. cmd' = [k \in Job |-> IF k = j THEN [cmd[j] EXCEPT ![c] = r] ELSE cmd[k]]
  BY DEF TypeOK, CommandsOK, PipesOK
<1>4. PICK q \in Commands : q = r
  BY <1>2
<1>5. CommandMoves(j, c, q.at)
  BY <1>3, <1>4, CommandChanges
<1> QED
  BY <1>2, <1>4, <1>5

LEMMA CommandReaped ==
    ASSUME TypeOK, NEW j \in Job, NEW c \in Cmd(j),
           cmd' = [cmd EXCEPT ![j][c].reaped = TRUE, ![j][c].status = 0]
    PROVE  CommandMoves(j, c, cmd[j][c].at)
<1> DEFINE r == [cmd[j][c] EXCEPT !.reaped = TRUE, !.status = 0]
<1>1. cmd[j][c] \in Commands
  BY DEF TypeOK, CommandsOK, PipesOK
<1>2. r \in Commands /\ r.at = cmd[j][c].at
  BY <1>1 DEF Commands
<1>3. cmd' = [k \in Job |-> IF k = j THEN [cmd[j] EXCEPT ![c] = r] ELSE cmd[k]]
  BY DEF TypeOK, CommandsOK, PipesOK
<1>4. PICK q \in Commands : q = r
  BY <1>2
<1> QED
  BY <1>2, <1>3, <1>4, CommandChanges

LEMMA CommandWrites ==
    ASSUME TypeOK, NEW j \in Job, NEW c \in Cmd(j), cmd[j][c].left > 0,
           cmd' = [cmd EXCEPT ![j][c].left = @ - 1]
    PROVE  CommandMoves(j, c, cmd[j][c].at)
<1> DEFINE r == [cmd[j][c] EXCEPT !.left = @ - 1]
<1>1. cmd[j][c] \in Commands
  BY DEF TypeOK, CommandsOK, PipesOK
<1>2. r \in Commands /\ r.at = cmd[j][c].at
  BY <1>1 DEF Commands
<1>3. cmd' = [k \in Job |-> IF k = j THEN [cmd[j] EXCEPT ![c] = r] ELSE cmd[k]]
  BY DEF TypeOK, CommandsOK, PipesOK
<1>4. PICK q \in Commands : q = r
  BY <1>2
<1> QED
  BY <1>2, <1>3, <1>4, CommandChanges

LEMMA CommandEnds ==
    ASSUME TypeOK, NEW j \in Job, NEW c \in Cmd(j), NEW status \in ExitStatus \cup {-1},
           Ends(j, c, status)
    PROVE  CommandMoves(j, c, "ended")
<1> DEFINE r == [at |-> "ended", left |-> 0, status |-> status, reaped |-> FALSE]
<1>1. r \in Commands /\ r.at = "ended"
  BY DEF Commands, CommandAt
<1>2. cmd' = [k \in Job |-> IF k = j THEN [cmd[j] EXCEPT ![c] = r] ELSE cmd[k]]
  BY DEF Ends, TypeOK, CommandsOK, PipesOK
<1>3. PICK q \in Commands : q = r
  BY <1>1
<1> QED
  BY <1>1, <1>2, <1>3, CommandChanges

-----------------------------------------------------------------------------
(* The initial states. *)

LEMMA InitOK == Init => IInv
<1> SUFFICES ASSUME Init
             PROVE  IInv
  OBVIOUS
<1>1. \A j \in Job : \A c \in Cmd(j) : cmd[j][c].at = "none" /\ cmd[j][c] \in Commands
  BY DEF Init, Commands, CommandAt
<1>2. \A j \in Job : pipe[j][Last(j)] = 0
  BY LastIsCommand DEF Init
<1>3. TypeOK
  <2>1. \A j \in Job : cmd[j] \in [Cmd(j) -> Commands] /\ pipe[j] \in [Cmd(j) -> Nat]
    BY <1>1 DEF Init
  <2> QED
    BY <2>1 DEF Init, TypeOK, CommandsOK, PipesOK, CountsOK, ControlOK, ShellAt, Leaders, LeaderAt, Codes
<1>4. Flow /\ Told /\ Unwritten
  BY <1>2 DEF Init, Flow, Told, Unwritten
<1>5. LeaderPlaces
  BY <1>1 DEF Init, LeaderPlaces, LeaderPlace
<1>6. ShellPlaces /\ Taken
  BY DEF Init, ShellPlaces, NoPipe, Taken
<1> QED
  BY <1>3, <1>4, <1>5, <1>6 DEF IInv

-----------------------------------------------------------------------------
(* Steps of the shell. *)

\* What a step that only the shell's place shows in leaves alone.
Rest == Flow /\ Told /\ LeaderPlaces /\ Unwritten /\ Taken

LEMMA RestSame ==
    ASSUME IInv, UNCHANGED <<leader, cmd, pipe, output, sent, taken, stray, lost, reading>>, sigio => sigio'
    PROVE  Rest'
BY DEF IInv, Rest, Flow, Told, LeaderPlaces, LeaderPlace, Unwritten, Taken

LEMMA TableStep ==
    ASSUME IInv, NEW j \in Job, Enter(j) \/ OpenPipe(j) \/ Wait(j) \/ Expunge(j)
    PROVE  IInv'
<1> USE DEF IInv
<1>1. UNCHANGED <<leader, cmd, pipe, output, sent, taken, stray, lost, sigio, reading>>
  BY DEF Enter, OpenPipe, Wait, Expunge, Unread
<1>2. TypeOK'
  <2>1. CommandsOK' /\ PipesOK' /\ CountsOK'
    BY <1>1 DEF TypeOK, CommandsOK, PipesOK, CountsOK
  <2>2. ControlOK'
    BY <1>1 DEF TypeOK, ControlOK, Enter, OpenPipe, Wait, Expunge, Go, ShellAt
  <2> QED
    BY <2>1, <2>2 DEF TypeOK
<1>3. Rest'
  BY <1>1, RestSame
<1>4. ShellPlaces'
  BY <1>1 DEF ShellPlaces, NoPipe, TypeOK, ControlOK, Enter, OpenPipe, Wait, Expunge, Go, Mainline
<1> QED
  BY <1>2, <1>3, <1>4 DEF Rest

LEMMA ForkStep ==
    ASSUME IInv, NEW j \in Job, Fork(j)
    PROVE  IInv'
<1> USE DEF IInv
<1>1. /\ UNCHANGED <<table, holds, cmd, pipe, output, sent, taken, stray, lost, sigio, reading>>
      /\ leader[j].at = "none" /\ leader[j].i = 1 /\ \A c \in Cmd(j) : cmd[j][c].at = "none"
  BY DEF Fork, Unread, Mainline, ShellPlaces, NoPipe, LeaderPlaces, LeaderPlace
<1>2. \/ UNCHANGED leader /\ shell' = [at |-> "idle", job |-> 0]
      \/ leader' = [leader EXCEPT ![j].at = "forking"] /\ shell' = [at |-> "forked", job |-> j]
  BY DEF Fork, Go
<1>0. CommandsOK' /\ PipesOK' /\ CountsOK'
  BY <1>1 DEF TypeOK, CommandsOK, PipesOK, CountsOK
<1>3. CASE UNCHANGED leader /\ shell' = [at |-> "idle", job |-> 0]
  <2>1. TypeOK'
    BY <1>0, <1>1, <1>3 DEF TypeOK, ControlOK, ShellAt
  <2>2. Rest'
    BY <1>1, <1>3, RestSame
  <2>3. ShellPlaces'
    BY <1>1, <1>3 DEF ShellPlaces, NoPipe
  <2> QED
    BY <2>1, <2>2, <2>3 DEF Rest
<1>4. CASE leader' = [leader EXCEPT ![j].at = "forking"] /\ shell' = [at |-> "forked", job |-> j]
  <2>1. /\ leader'[j].at = "forking" /\ leader'[j].i = leader[j].i
        /\ \A k \in Job : k # j => leader'[k] = leader[k]
    BY <1>4 DEF TypeOK, ControlOK
  <2>2. TypeOK'
    BY <1>0, <1>1, <1>4 DEF TypeOK, ControlOK, ShellAt, Leaders, LeaderAt
  <2>3. Flow' /\ Told' /\ Unwritten'
    BY <1>1 DEF Flow, Told, Unwritten
  <2>4. LeaderPlaces'
    <3>1. LeaderPlace(j)'
      <4>1. \A c \in Cmd(j) : cmd'[j][c].at = "none" /\ ~(c < 1)
        BY <1>1 DEF Cmd
      <4> QED
        BY <1>1, <2>1, <4>1 DEF LeaderPlace
    <3>2. ASSUME NEW k \in Job, k # j
          PROVE  LeaderPlace(k)'
      <4>1. LeaderPlace(k) /\ leader'[k] = leader[k] /\ cmd'[k] = cmd[k]
        BY <1>1, <2>1, <3>2 DEF LeaderPlaces
      <4> QED
        BY <4>1 DEF LeaderPlace
    <3> QED
      BY <2>1, <3>1, <3>2 DEF LeaderPlaces
  <2>5. ShellPlaces' /\ Taken'
    <3>1. table[j] # "free" /\ table[j] # "done" /\ taken[j] = -1 /\ j \in holds
      BY <1>1 DEF ShellPlaces, NoPipe, Taken, Fork, Mainline
    <3> QED
      BY <1>1, <1>4, <2>1, <3>1 DEF ShellPlaces, NoPipe, Taken
  <2> QED
    BY <2>2, <2>3, <2>4, <2>5
<1> QED
  BY <1>2, <1>3, <1>4
LEMMA CloseEndStep ==
    ASSUME IInv, NEW j \in Job, CloseEnd(j)
    PROVE  IInv'
<1> USE DEF IInv
<1>1. UNCHANGED <<leader, cmd, pipe, output, sent, taken, stray, lost, reading>> /\ sigio' \in BOOLEAN /\ ~sigio
  BY DEF CloseEnd, Unread, Hangup, Mainline
<1>2. TypeOK'
  <2>1. CommandsOK' /\ PipesOK' /\ CountsOK'
    BY <1>1 DEF TypeOK, CommandsOK, PipesOK, CountsOK
  <2>2. ControlOK'
    BY <1>1 DEF TypeOK, ControlOK, CloseEnd, Go, ShellAt
  <2> QED
    BY <2>1, <2>2 DEF TypeOK
<1>3. Rest'
  BY <1>1, RestSame
<1>4. ShellPlaces'
  BY <1>1 DEF ShellPlaces, NoPipe, TypeOK, ControlOK, CloseEnd, Go, Mainline
<1> QED
  BY <1>2, <1>3, <1>4 DEF Rest

\* A leader that has ended is reaped.
LEMMA ReapedPlace ==
    ASSUME IInv, NEW j \in Job, leader[j].at \in {"exited", "gone"},
           leader' = [leader EXCEPT ![j].at = "reaped"], UNCHANGED <<cmd, pipe, output, sent, lost>>
    PROVE  /\ LeaderPlaces' /\ Unwritten' /\ Flow' /\ leader'[j].at = "reaped"
           /\ leader' \in [Job -> Leaders]
           /\ \A k \in Job : k # j => leader'[k] = leader[k]
<1> USE DEF IInv
<1>1. /\ leader' \in [Job -> Leaders]
      /\ leader'[j].at = "reaped" /\ \A k \in Job : k # j => leader'[k] = leader[k]
  BY DEF TypeOK, ControlOK, Leaders, LeaderAt
<1>2. cmd[j][Last(j)].at \in {"none", "ended"}
  BY LastIsCommand DEF LeaderPlaces, LeaderPlace
<1>3. LeaderPlaces'
  <2>1. LeaderPlace(j)'
    BY <1>1, <1>2 DEF LeaderPlace
  <2>2. \A k \in Job : k # j => LeaderPlace(k)'
    BY <1>1 DEF LeaderPlaces, LeaderPlace
  <2> QED
    BY <2>1, <2>2 DEF LeaderPlaces
<1>4. Unwritten' /\ Flow'
  BY DEF Unwritten, Flow
<1> QED
  BY <1>1, <1>3, <1>4

LEMMA ReapStep ==
    ASSUME IInv, NEW j \in Job, Reap(j)
    PROVE  IInv'
<1> USE DEF IInv
<1>1. /\ UNCHANGED <<shell, holds, cmd, pipe, output, sent, taken, stray, lost, sigio, reading>>
      /\ leader[j].at \in {"exited", "gone"} /\ leader' = [leader EXCEPT ![j].at = "reaped"]
      /\ table' = [table EXCEPT ![j] = "done"]
  BY DEF Reap, Unread
<1>2. TypeOK'
  <2>1. CommandsOK' /\ PipesOK' /\ CountsOK'
    BY <1>1 DEF TypeOK, CommandsOK, PipesOK, CountsOK
  <2>2. ControlOK'
    BY <1>1, ReapedPlace DEF TypeOK, ControlOK
  <2> QED
    BY <2>1, <2>2 DEF TypeOK
<1>3. Told'
  BY <1>1 DEF Told
<1>4. Taken'
  BY <1>1, ReapedPlace DEF Taken
<1>5. ShellPlaces'
  <2>1. shell.at \in {"entered", "piped"} => shell.job # j
    BY <1>1 DEF ShellPlaces, NoPipe
  <2>2. /\ leader'[j].at = "reaped" /\ \A k \in Job : k # j => leader'[k] = leader[k]
        /\ table'[j] = "done" /\ \A k \in Job : k # j => table'[k] = table[k]
    BY <1>1, ReapedPlace DEF TypeOK, ControlOK
  <2> QED
    BY <1>1, <2>1, <2>2 DEF ShellPlaces, NoPipe
<1> QED
  BY <1>1, <1>2, <1>3, <1>4, <1>5, ReapedPlace

LEMMA TakeStep ==
    ASSUME IInv, NEW j \in Job, Mainline("waiting", j), Take(j), leader'[j].at = "reaped",
           table'[j] = "done", ControlOK', LeaderPlaces', Unwritten', Flow',
           \A k \in Job : k # j => leader'[k] = leader[k] /\ table'[k] = table[k],
           UNCHANGED <<holds, cmd, pipe, output, sent, stray, lost, sigio, reading>>
    PROVE  IInv'
<1> USE DEF IInv
<1> DEFINE n == IF j \in stray THEN 0 ELSE output[j]
<1>1. taken' = [taken EXCEPT ![j] = n] /\ shell' = [at |-> "freeing", job |-> j]
  BY DEF Take, Go
<1>2. n \in Nat /\ pipe[j][Last(j)] \in Nat /\ n # -1
  BY LastIsCommand DEF TypeOK, CountsOK, PipesOK
<1>3. pipe[j][Last(j)] = 0
  <2>1. ~sigio /\ reading = 0 /\ 0 \notin 1..j
    BY DEF Mainline
  <2>2. ~(pipe[j][Last(j)] > 0)
    BY <2>1 DEF Told
  <2> QED
    BY <1>2, <2>2
<1>4. taken'[j] = n /\ \A k \in Job : k # j => taken'[k] = taken[k]
  BY <1>1 DEF TypeOK, CountsOK
<1>5. TypeOK'
  <2>1. CommandsOK' /\ PipesOK' /\ CountsOK'
    BY <1>1, <1>2 DEF TypeOK, CommandsOK, PipesOK, CountsOK
  <2> QED
    BY <2>1 DEF TypeOK
<1>6. Told'
  BY DEF Told
<1>7. Taken'
  BY <1>3, <1>4 DEF Taken
<1>8. ShellPlaces'
  BY <1>1, <1>2, <1>4 DEF ShellPlaces, NoPipe
<1> QED
  BY <1>5, <1>6, <1>7, <1>8

LEMMA WaitReturnsStep ==
    ASSUME IInv, NEW j \in Job, WaitReturns(j)
    PROVE  IInv'
<1> USE DEF IInv
<1>1. UNCHANGED <<holds, cmd, pipe, output, sent, stray, lost, sigio, reading>> /\ Mainline("waiting", j)
  BY DEF WaitReturns
<1>2. CASE table[j] = "done" /\ Take(j) /\ UNCHANGED <<table, leader>>
  <2>1. leader[j].at = "reaped"
    BY <1>2 DEF ShellPlaces, NoPipe
  <2>2. ControlOK'
    BY <1>2 DEF TypeOK, ControlOK, Take, Go, ShellAt
  <2>3. LeaderPlaces' /\ Unwritten' /\ Flow'
    BY <1>1, <1>2 DEF LeaderPlaces, LeaderPlace, Unwritten, Flow
  <2> QED
    BY <1>1, <1>2, <2>1, <2>2, <2>3, TakeStep
<1>3. CASE /\ leader[j].at \in {"exited", "gone"}
           /\ leader' = [leader EXCEPT ![j].at = "reaped"]
           /\ table' = [table EXCEPT ![j] = "done"]
           /\ Take(j)
  <2>1. /\ table'[j] = "done" /\ \A k \in Job : k # j => table'[k] = table[k]
        /\ LeaderPlaces' /\ Unwritten' /\ Flow' /\ leader'[j].at = "reaped"
        /\ \A k \in Job : k # j => leader'[k] = leader[k]
    BY ZenonT(60), <1>1, <1>3, ReapedPlace DEF TypeOK, ControlOK
  <2>2. ControlOK'
    BY <1>1, <1>3, ReapedPlace DEF TypeOK, ControlOK, Take, Go, ShellAt
  <2> QED
    BY <1>1, <1>3, <2>1, <2>2, TakeStep
<1>4. CASE Go("idle", 0) /\ UNCHANGED <<table, leader, taken>>
  <2>1. CommandsOK' /\ PipesOK' /\ CountsOK'
    BY <1>1, <1>4 DEF TypeOK, CommandsOK, PipesOK, CountsOK
  <2>2. ControlOK'
    BY <1>4 DEF TypeOK, ControlOK, Go, ShellAt
  <2>3. Rest'
    BY <1>1, <1>4, RestSame
  <2>4. ShellPlaces'
    BY <1>1, <1>4 DEF ShellPlaces, NoPipe, Go
  <2> QED
    BY <2>1, <2>2, <2>3, <2>4 DEF TypeOK, Rest
<1> QED
  BY <1>2, <1>3, <1>4 DEF WaitReturns

-----------------------------------------------------------------------------
(* io_handler *)

LEMMA IoStopsStep ==
    ASSUME IInv, IoCrash \/ IoBlocks
    PROVE  IInv'
<1> USE DEF IInv
<1>1. /\ UNCHANGED <<table, holds, leader, cmd, pipe, output, sent, taken, stray, lost, sigio, reading>>
      /\ shell' \in {[at |-> "dead", job |-> 0], [at |-> "blocked", job |-> 0]}
  BY DEF IoCrash, IoBlocks, Unread, Go
<1>2. CommandsOK' /\ PipesOK' /\ CountsOK'
  BY <1>1 DEF TypeOK, CommandsOK, PipesOK, CountsOK
<1>3. ControlOK'
  BY <1>1 DEF TypeOK, ControlOK, ShellAt
<1>4. Rest'
  BY <1>1, RestSame
<1>5. ShellPlaces'
  BY <1>1 DEF ShellPlaces, NoPipe
<1> QED
  BY <1>2, <1>3, <1>4, <1>5 DEF TypeOK, Rest

LEMMA IoMoves ==
    ASSUME IInv, IoBegin \/ IoNext
    PROVE  IInv'
<1> USE DEF IInv
<1>1. UNCHANGED <<shell, table, holds, leader, cmd, pipe, output, sent, taken, stray, lost>>
  BY DEF IoBegin, IoNext
<1>2. sigio' \in BOOLEAN /\ reading' \in Job \cup {0} /\ reading \in Job \cup {0}
  BY DEF TypeOK, CountsOK, IoBegin, IoNext, NextRead
<1>3. TypeOK'
  <2>1. CommandsOK' /\ PipesOK' /\ CountsOK'
    BY <1>1, <1>2 DEF TypeOK, CommandsOK, PipesOK, CountsOK
  <2>2. ControlOK'
    BY <1>1 DEF TypeOK, ControlOK
  <2> QED
    BY <2>1, <2>2 DEF TypeOK
<1>4. Told'
  <2> SUFFICES ASSUME NEW k \in Job, pipe[k][Last(k)] > 0
               PROVE  sigio' \/ reading' \in 1..k
    BY <1>1 DEF Told
  <2>1. sigio \/ reading \in 1..k
    BY DEF Told
  <2>2. k \in Nat \ {0} /\ 1..k \subseteq Job
    OBVIOUS
  <2>3. CASE IoBegin
    BY <2>2, <2>3 DEF IoBegin
  <2>4. CASE IoNext
    <3>1. reading # k
      <4>1. table[k] # "gone"
        BY DEF ShellPlaces, NoPipe, Taken
      <4>2. cmd[k][Last(k)].at # "none"
        BY DEF Unwritten
      <4>3. leader[k].at # "none"
        BY <4>2, LastIsCommand DEF LeaderPlaces, LeaderPlace
      <4>4. table[k] # "free" /\ ~NoPipe(k)
        BY <4>3 DEF ShellPlaces, NoPipe
      <4> QED
        BY <2>4, <4>1, <4>4 DEF IoNext, Last
    <3>2. CASE sigio
      BY <2>4, <3>2 DEF IoNext
    <3>3. CASE ~sigio
      <4>1. reading \in 1..k /\ reading + 1 \in 1..k
        BY <2>1, <2>2, <3>1, <3>3
      <4> QED
        BY <2>2, <2>4, <4>1 DEF IoNext, NextRead
    <3> QED
      BY <3>2, <3>3
  <2> QED
    BY <2>3, <2>4
<1>5. Flow' /\ LeaderPlaces' /\ Unwritten' /\ Taken'
  BY <1>1 DEF Flow, LeaderPlaces, LeaderPlace, Unwritten, Taken
<1>6. ShellPlaces'
  BY <1>1 DEF ShellPlaces, NoPipe
<1> QED
  BY <1>3, <1>4, <1>5, <1>6

LEMMA IoByteStep ==
    ASSUME IInv, IoByte
    PROVE  IInv'
<1> USE DEF IInv
<1> DEFINE j == reading
           n == pipe[j][Last(j)]
<1>1. /\ UNCHANGED <<shell, table, holds, leader, cmd, sent, taken, stray, lost, sigio, reading>>
      /\ pipe[j][Last(j)] > 0 /\ pipe' = [pipe EXCEPT ![j][Last(j)] = @ - 1]
      /\ output' = [output EXCEPT ![j] = @ + 1] /\ j \in Job /\ Last(j) \in Cmd(j)
  BY LastIsCommand DEF IoByte, Last, TypeOK, CountsOK
<1>2. PipeMoves(j, Last(j), pipe[j][Last(j)] - 1)
  BY <1>1, PipeLoses
<1>3. /\ pipe'[j][Last(j)] = pipe[j][Last(j)] - 1 /\ pipe[j][Last(j)] \in Nat
      /\ \A k \in Job : k # j => pipe'[k][Last(k)] = pipe[k][Last(k)]
  BY <1>1, <1>2, LastIsCommand DEF PipeMoves, TypeOK, PipesOK
<1>4. /\ output' \in [Job -> Nat] /\ output'[j] = output[j] + 1 /\ output[j] \in Nat
      /\ \A k \in Job : k # j => output'[k] = output[k]
  BY <1>1 DEF TypeOK, CountsOK
<1>5. TypeOK'
  <2>1. CommandsOK' /\ ControlOK'
    BY <1>1 DEF TypeOK, CommandsOK, ControlOK
  <2>2. PipesOK'
    BY <1>2 DEF PipeMoves, PipesOK
  <2>3. CountsOK'
    BY <1>1, <1>4 DEF TypeOK, CountsOK
  <2> QED
    BY <2>1, <2>2, <2>3 DEF TypeOK
<1>6. Flow'
  <2>0. lost[j] \in Nat /\ lost' = lost
    BY <1>1 DEF TypeOK, CountsOK
  <2>1. sent'[j] = output'[j] + lost'[j] + pipe'[j][Last(j)]
    BY SMTT(60), <1>1, <1>3, <1>4, <2>0 DEF Flow
  <2>2. \A k \in Job : k # j => sent'[k] = output'[k] + lost'[k] + pipe'[k][Last(k)]
    BY <1>1, <1>3, <1>4 DEF Flow
  <2> QED
    BY <2>1, <2>2 DEF Flow
<1>7. Told' /\ Unwritten'
  BY <1>1, <1>3 DEF Told, Unwritten
<1>8. LeaderPlaces' /\ ShellPlaces'
  BY <1>1 DEF LeaderPlaces, LeaderPlace, ShellPlaces, NoPipe
<1>9. Taken'
  BY <1>1, <1>3, <1>4 DEF Taken
<1> QED
  BY <1>5, <1>6, <1>7, <1>8, <1>9

\* A byte of a captured pipe is taken for another job, or of something else.  The
\* job that it is taken for has no leader, so its output is not taken yet.
LEMMA IoStrayStep ==
    ASSUME IInv, IoStray
    PROVE  IInv'
<1> USE DEF IInv
<1>1. /\ UNCHANGED <<shell, table, holds, leader, cmd, output, sent, taken, sigio, reading>>
      /\ stray' = stray \cup {reading} /\ NoPipe(reading) /\ reading \in Job
  BY DEF IoStray, TypeOK, CountsOK
<1>2. taken[reading] = -1
  BY <1>1 DEF ShellPlaces, Taken
<1>3. CommandsOK' /\ ControlOK'
  BY <1>1 DEF TypeOK, CommandsOK, ControlOK
<1>4. LeaderPlaces' /\ ShellPlaces'
  BY <1>1 DEF LeaderPlaces, LeaderPlace, ShellPlaces, NoPipe
<1>5. CASE UNCHANGED <<pipe, lost>>
  <2>1. TypeOK'
    BY <1>1, <1>3, <1>5 DEF TypeOK, PipesOK, CountsOK
  <2>2. Flow' /\ Told' /\ Unwritten' /\ Taken'
    BY <1>1, <1>2, <1>5 DEF Flow, Told, Unwritten, Taken
  <2> QED
    BY <1>4, <2>1, <2>2
<1>6. ASSUME NEW k \in Job, pipe[k][Last(k)] > 0,
             pipe' = [pipe EXCEPT ![k][Last(k)] = @ - 1], lost' = [lost EXCEPT ![k] = @ + 1]
      PROVE  IInv'
  <2>1. PipeMoves(k, Last(k), pipe[k][Last(k)] - 1)
    BY <1>6, LastIsCommand, PipeLoses
  <2>2. /\ pipe'[k][Last(k)] = pipe[k][Last(k)] - 1 /\ pipe[k][Last(k)] \in Nat
        /\ \A i \in Job : i # k => pipe'[i][Last(i)] = pipe[i][Last(i)]
    BY <2>1, LastIsCommand DEF PipeMoves, TypeOK, PipesOK
  <2>3. /\ lost' \in [Job -> Nat] /\ lost'[k] = lost[k] + 1 /\ lost[k] \in Nat
        /\ \A i \in Job : i # k => lost'[i] = lost[i]
    BY <1>6 DEF TypeOK, CountsOK
  <2>4. PipesOK' /\ CountsOK'
    BY <1>1, <2>1, <2>3 DEF PipeMoves, TypeOK, PipesOK, CountsOK
  <2>5. Flow'
    <3>1. sent[k] = output[k] + lost[k] + pipe[k][Last(k)] /\ output[k] \in Nat
      BY DEF Flow, TypeOK, CountsOK
    <3>2. sent'[k] = output'[k] + lost'[k] + pipe'[k][Last(k)]
      BY <1>1, <2>2, <2>3, <3>1
    <3> QED
      BY <1>1, <2>2, <2>3, <3>2 DEF Flow
  <2>6. Told' /\ Unwritten'
    BY <1>1, <1>6, <2>2 DEF Told, Unwritten
  <2>7. Taken'
    BY <1>1, <1>2, <1>6, <2>2 DEF Taken
  <2> QED
    BY <1>3, <1>4, <2>4, <2>5, <2>6, <2>7 DEF TypeOK
<1> QED
  BY <1>5, <1>6 DEF IoStray, Last

-----------------------------------------------------------------------------
(* The leader. *)

\* The leader does not touch what the shell and its handler read.
LEMMA LeaderFrame ==
    ASSUME IInv, NEW j \in Job, UNCHANGED <<shell, table, holds, pipe, sent, output, taken, stray, lost, reading>>,
           sigio' \in BOOLEAN, sigio => sigio',
           leader[j].at \notin {"none", "reaped"}, leader'[j].at # "none",
           \A k \in Job : k # j => leader'[k] = leader[k],
           \A c \in Cmd(j) : cmd'[j][c].at = "none" => cmd[j][c].at = "none",
           \A k \in Job : k # j => \A c \in Cmd(k) : cmd'[k][c].at = cmd[k][c].at,
           leader' \in [Job -> Leaders],
           CommandsOK', LeaderPlace(j)'
    PROVE  IInv'
<1> USE DEF IInv
<1>1. TypeOK'
  <2>1. PipesOK' /\ CountsOK'
    BY DEF TypeOK, PipesOK, CountsOK
  <2>2. ControlOK'
    BY DEF TypeOK, ControlOK
  <2> QED
    BY <2>1, <2>2 DEF TypeOK
<1>2. Flow' /\ Told'
  BY DEF Flow, Told
<1>3. LeaderPlaces'
  <2>1. ASSUME NEW k \in Job, k # j
        PROVE  LeaderPlace(k)'
    BY <2>1, LastIsCommand DEF LeaderPlaces, LeaderPlace
  <2> QED
    BY <2>1 DEF LeaderPlaces
<1>4. Unwritten'
  BY LastIsCommand DEF Unwritten
<1>5. ShellPlaces'
  <2>1. table[j] # "free" /\ table[j] # "done"
    BY DEF ShellPlaces, NoPipe
  <2>2. shell.at \in {"entered", "piped"} => shell.job \in Job /\ shell.job # j
    BY DEF ShellPlaces, NoPipe
  <2> QED
    <3>1. /\ shell'.at \notin {"idle", "dead", "blocked"} => shell'.job \in Job
          /\ shell'.at = "piped" => shell'.job \in holds'
          /\ shell'.at = "freeing" => taken'[shell'.job] # -1
      BY DEF ShellPlaces, NoPipe
    <3>2. shell'.at \in {"entered", "piped"} =>
            leader'[shell'.job].at = "none" /\ table'[shell'.job] = "new"
      BY <2>2 DEF ShellPlaces, NoPipe
    <3>3. ASSUME NEW k \in Job
          PROVE  /\ table'[k] = "free" => leader'[k].at = "none"
                 /\ table'[k] = "done" => leader'[k].at = "reaped"
                 /\ table'[k] = "gone" => taken'[k] # -1
                 /\ NoPipe(k)' => leader'[k].at = "none"
      <4>0. /\ table[k] = "free" => leader[k].at = "none"
            /\ table[k] = "done" => leader[k].at = "reaped"
            /\ table[k] = "gone" => taken[k] # -1
            /\ NoPipe(k) => leader[k].at = "none"
        BY DEF ShellPlaces, NoPipe
      <4>1. CASE k = j
        BY <2>1, <4>0, <4>1 DEF NoPipe
      <4>2. CASE k # j
        BY <4>0, <4>2 DEF NoPipe
      <4> QED
        BY <4>1, <4>2
    <3> QED
      BY <3>1, <3>2, <3>3 DEF ShellPlaces, NoPipe
<1>6. Taken'
  BY DEF Taken
<1> QED
  BY <1>1, <1>2, <1>3, <1>4, <1>5, <1>6

LEMMA LeaderType ==
    ASSUME TypeOK, NEW j \in Job
    PROVE  /\ leader[j] \in Leaders
           /\ \A c \in Cmd(j) : cmd[j][c] \in Commands
BY DEF TypeOK, ControlOK, CommandsOK

\* The leader's record is replaced.
LEMMA LeaderMovesTo ==
    ASSUME TypeOK, NEW j \in Job, NEW to \in LeaderAt, leader' = [leader EXCEPT ![j].at = to]
    PROVE  /\ leader' \in [Job -> Leaders] /\ leader'[j].at = to /\ leader'[j].i = leader[j].i
           /\ \A k \in Job : k # j => leader'[k] = leader[k]
BY DEF TypeOK, ControlOK, Leaders

LEMMA LeaderBegins ==
    ASSUME TypeOK, NEW j \in Job, NEW to \in LeaderAt, NEW n \in Nat \ {0},
           leader' = [leader EXCEPT ![j].at = to, ![j].i = n]
    PROVE  /\ leader' \in [Job -> Leaders] /\ leader'[j].at = to /\ leader'[j].i = n
           /\ \A k \in Job : k # j => leader'[k] = leader[k]
<1> DEFINE m == [leader EXCEPT ![j].at = to]
<1>1. leader \in [Job -> Leaders]
  BY DEF TypeOK, ControlOK
<1>2. /\ m \in [Job -> Leaders] /\ m[j].at = to
      /\ \A k \in Job : k # j => m[k] = leader[k]
  BY <1>1 DEF Leaders
<1>3. leader' = [m EXCEPT ![j].i = n]
  OBVIOUS
<1> HIDE DEF m
<1>4. PICK f \in [Job -> Leaders] : f = m /\ f[j].at = to
                              /\ \A k \in Job : k # j => f[k] = leader[k]
  BY <1>2
<1>5. leader' = [f EXCEPT ![j].i = n]
  BY <1>3, <1>4
<1>6. leader' \in [Job -> Leaders] /\ \A k \in Job : k # j => leader'[k] = f[k]
  <2>1. f[j] \in Leaders
    OBVIOUS
  <2>2. [f[j] EXCEPT !.i = n] \in Leaders
    BY <2>1 DEF Leaders
  <2>3. leader' = [k \in Job |-> IF k = j THEN [f[j] EXCEPT !.i = n] ELSE f[k]]
    BY <1>5
  <2> HIDE <1>5
  <2> QED
    BY ZenonT(60), <2>2, <2>3
<1>7. leader'[j].i = n /\ leader'[j].at = f[j].at 
  BY <1>5 DEF Leaders
<1> QED
  BY <1>4, <1>6, <1>7

LEMMA LeaderAdvances ==
    ASSUME TypeOK, NEW j \in Job, NEW n \in Nat \ {0}, NEW code \in Codes,
           leader' = [leader EXCEPT ![j].i = n, ![j].code = code]
    PROVE  /\ leader' \in [Job -> Leaders] /\ leader'[j].i = n /\ leader'[j].at = leader[j].at
           /\ \A k \in Job : k # j => leader'[k] = leader[k]
<1> DEFINE m == [leader EXCEPT ![j].i = n]
<1>1. leader \in [Job -> Leaders]
  BY DEF TypeOK, ControlOK
<1>2. /\ m \in [Job -> Leaders] /\ m[j].i = n /\ m[j].at = leader[j].at
      /\ \A k \in Job : k # j => m[k] = leader[k]
  BY <1>1 DEF Leaders
<1>3. leader' = [m EXCEPT ![j].code = code]
  OBVIOUS
<1> HIDE DEF m
<1>4. PICK f \in [Job -> Leaders] : f = m /\ f[j].i = n /\ f[j].at = leader[j].at
                              /\ \A k \in Job : k # j => f[k] = leader[k]
  BY <1>2
<1>5. leader' = [f EXCEPT ![j].code = code]
  BY <1>3, <1>4
<1>6. leader' \in [Job -> Leaders] /\ \A k \in Job : k # j => leader'[k] = f[k]
  <2>1. f[j] \in Leaders
    OBVIOUS
  <2>2. [f[j] EXCEPT !.code = code] \in Leaders
    BY <2>1 DEF Leaders
  <2>3. leader' = [k \in Job |-> IF k = j THEN [f[j] EXCEPT !.code = code] ELSE f[k]]
    BY <1>5
  <2> HIDE <1>5
  <2> QED
    BY ZenonT(60), <2>2, <2>3
<1>7. leader'[j].code = code /\ leader'[j].at = f[j].at /\ leader'[j].i = f[j].i
  BY <1>5 DEF Leaders
<1> QED
  BY <1>4, <1>6, <1>7

LEMMA ForkCommandStep ==
    ASSUME IInv, NEW j \in Job, ForkCommand(j)
    PROVE  IInv'
<1> USE DEF IInv
<1> DEFINE i == leader[j].i
<1>1. /\ UNCHANGED <<shell, table, holds, pipe, sent, output, taken, stray, lost, sigio, reading>>
      /\ leader[j].at = "forking" /\ leader[j].i \in Cmd(j)
      /\ cmd' = [cmd EXCEPT ![j][leader[j].i].at = "forked"]
      /\ leader' = [leader EXCEPT ![j].i = @ + 1]
  BY DEF ForkCommand, LeaderUnread, Unread
<1>2. CommandMoves(j, i, "forked")
  BY <1>1, CommandAtChanges DEF CommandAt
<1>3. /\ leader' \in [Job -> Leaders]
      /\ leader'[j].at = "forking" /\ leader'[j].i = i + 1 /\ i \in Nat
      /\ \A k \in Job : k # j => leader'[k] = leader[k]
  BY <1>1 DEF TypeOK, ControlOK, Leaders
<1>4. CommandsOK' /\ \A k \in Job : \A d \in Cmd(k) : k # j \/ d # i => cmd'[k][d] = cmd[k][d]
  BY <1>2 DEF CommandMoves, CommandsOK
<1>5. cmd'[j][i].at = "forked"
  BY <1>2 DEF CommandMoves
<1>6. LeaderPlace(j)'
  <2>1. ASSUME NEW c \in Cmd(j), c >= i + 1
        PROVE  cmd'[j][c].at = "none"
    <3>1. c >= i /\ c # i
      BY <1>3, <2>1 DEF Cmd
    <3> QED
      BY <1>1, <1>4, <3>1 DEF LeaderPlaces, LeaderPlace
  <2>2. ASSUME NEW c \in Cmd(j), c < i + 1
        PROVE  cmd'[j][c].at # "none"
    <3>1. c < i \/ c = i
      BY <1>3, <2>2 DEF Cmd
    <3> QED
      BY <1>1, <1>4, <1>5, <3>1 DEF LeaderPlaces, LeaderPlace
  <2> QED
    BY <1>3, <2>1, <2>2 DEF LeaderPlace
<1>7. /\ sigio' \in BOOLEAN
      /\ \A d \in Cmd(j) : cmd'[j][d].at = "none" => cmd[j][d].at = "none"
      /\ \A k \in Job : k # j => \A d \in Cmd(k) : cmd'[k][d].at = cmd[k][d].at
  BY <1>1, <1>4, <1>5 DEF TypeOK, CountsOK
<1> QED
  BY <1>1, <1>3, <1>4, <1>6, <1>7, LeaderFrame

LEMMA LeaderFailsStep ==
    ASSUME IInv, NEW j \in Job, LeaderFails(j)
    PROVE  IInv'
<1> USE DEF IInv
<1>1. /\ UNCHANGED <<shell, table, holds, cmd, pipe, sent, output, taken, stray, lost, sigio, reading>>
      /\ leader[j].at = "forking" /\ leader[j].i \in Cmd(j)
      /\ leader' = [leader EXCEPT ![j].at = "copy"]
  BY DEF LeaderFails, LeaderUnread, Unread
<1>2. /\ leader' \in [Job -> Leaders]
      /\ leader'[j].at = "copy" /\ \A k \in Job : k # j => leader'[k] = leader[k]
  BY <1>1, LeaderMovesTo DEF LeaderAt
<1>3. Last(j) >= leader[j].i
  BY <1>1 DEF Cmd, Last
<1>4. LeaderPlace(j)'
  BY <1>1, <1>2, <1>3, LastIsCommand DEF LeaderPlaces, LeaderPlace
<1>5. CommandsOK'
  BY <1>1 DEF TypeOK, CommandsOK
<1> QED
  BY <1>1, <1>2, <1>4, <1>5, LeaderFrame DEF TypeOK, CountsOK

LEMMA ClosePipesStep ==
    ASSUME IInv, NEW j \in Job, ClosePipes(j)
    PROVE  IInv'
<1> USE DEF IInv
<1>1. /\ UNCHANGED <<shell, table, holds, cmd, pipe, sent, output, taken, stray, lost, sigio, reading>>
      /\ leader[j].at = "forking" /\ leader[j].i \notin Cmd(j)
      /\ leader' = [leader EXCEPT ![j].at = "waiting", ![j].i = 1]
  BY DEF ClosePipes, LeaderUnread, Unread
<1>2. /\ leader' \in [Job -> Leaders]
      /\ leader'[j].at = "waiting" /\ leader'[j].i = 1
      /\ \A k \in Job : k # j => leader'[k] = leader[k]
  <2>1. "waiting" \in LeaderAt /\ 1 \in Nat \ {0}
    BY DEF LeaderAt
  <2> QED
    BY <1>1, <2>1, LeaderBegins
<1>3. \A c \in Cmd(j) : c < leader[j].i /\ ~(c < 1)
  BY <1>1, LeaderType DEF Cmd, Leaders
<1>4. LeaderPlace(j)'
  BY <1>1, <1>2, <1>3 DEF LeaderPlaces, LeaderPlace
<1>5. CommandsOK'
  BY <1>1 DEF TypeOK, CommandsOK
<1> QED
  BY <1>1, <1>2, <1>4, <1>5, LeaderFrame DEF TypeOK, CountsOK

LEMMA LeaderReapsStep ==
    ASSUME IInv, NEW j \in Job, LeaderReaps(j)
    PROVE  IInv'
<1> USE DEF IInv
<1>1. /\ UNCHANGED <<shell, table, holds, leader, pipe, sent, output, taken, stray, lost, sigio, reading>>
      /\ leader[j].at \in {"forking", "waiting", "copy"}
  BY DEF LeaderReaps, LeaderUnread, Unread
<1>2. PICK c \in Cmd(j) : cmd' = [cmd EXCEPT ![j][c].reaped = TRUE, ![j][c].status = 0]
  BY DEF LeaderReaps
<1>3. CommandMoves(j, c, cmd[j][c].at)
  BY <1>2, CommandReaped
<1>4. CommandsOK' /\ \A k \in Job : \A d \in Cmd(k) : cmd'[k][d].at = cmd[k][d].at
  BY <1>3 DEF CommandMoves, CommandsOK
<1>5. LeaderPlace(j)'
  <2>1. LeaderPlace(j) /\ leader'[j] = leader[j]
    BY <1>1 DEF LeaderPlaces
  <2>2. Last(j) \in Cmd(j) /\ \A d \in Cmd(j) : cmd'[j][d].at = cmd[j][d].at
    BY <1>4, LastIsCommand
  <2> QED
    BY <2>1, <2>2 DEF LeaderPlace
<1>6. leader' \in [Job -> Leaders]
  BY <1>1 DEF TypeOK, ControlOK
<1> QED
  BY <1>1, <1>4, <1>5, <1>6, LeaderFrame DEF TypeOK, CountsOK

LEMMA LeaderWaitsStep ==
    ASSUME IInv, NEW j \in Job, LeaderWaits(j)
    PROVE  IInv'
<1> USE DEF IInv
<1> DEFINE c == leader[j].i
<1>1. /\ UNCHANGED <<shell, table, holds, pipe, sent, output, taken, stray, lost, sigio, reading>>
      /\ leader[j].at = "waiting" /\ c \in Cmd(j) /\ cmd[j][c].at = "ended"
      /\ cmd' = [cmd EXCEPT ![j][c].reaped = TRUE, ![j][c].status = 0]
  BY DEF LeaderWaits, LeaderUnread, Unread
<1>2. PICK code \in Codes :
        leader' = [leader EXCEPT ![j].i = c + 1, ![j].code = code]
  <2>1. leader[j].code \in Codes
    BY LeaderType DEF Leaders
  <2> QED
    BY <2>1 DEF LeaderWaits, Codes
<1>3. CommandMoves(j, c, cmd[j][c].at)
  BY <1>1, CommandReaped
<1>4. CommandsOK' /\ \A k \in Job : \A d \in Cmd(k) : cmd'[k][d].at = cmd[k][d].at
  BY <1>3 DEF CommandMoves, CommandsOK
<1>5. /\ leader' \in [Job -> Leaders] /\ c \in Nat
      /\ leader'[j].at = "waiting" /\ leader'[j].i = c + 1
      /\ \A k \in Job : k # j => leader'[k] = leader[k]
  <2>1. c \in Nat /\ c + 1 \in Nat \ {0}
    BY LeaderType DEF Leaders
  <2>2. PICK n \in Nat \ {0} : n = c + 1
    BY <2>1
  <2>3. leader' = [leader EXCEPT ![j].i = n, ![j].code = code]
    BY <1>2, <2>2
  <2> QED
    BY ZenonT(60), <1>1, <2>1, <2>2, <2>3, LeaderAdvances
<1>6. LeaderPlace(j)'
  <2>1. ASSUME NEW d \in Cmd(j), d < c + 1
        PROVE  cmd[j][d].at = "ended"
    <3>1. d < c \/ d = c
      BY <1>5, <2>1 DEF Cmd
    <3> QED
      BY <1>1, <3>1 DEF LeaderPlaces, LeaderPlace
  <2>2. \A d \in Cmd(j) : cmd'[j][d].at = cmd[j][d].at /\ cmd[j][d].at # "none"
    <3>1. LeaderPlace(j) /\ leader[j].at = "waiting"
      BY <1>1 DEF LeaderPlaces
    <3>2. \A d \in Cmd(j) : cmd[j][d].at # "none"
      BY <3>1 DEF LeaderPlace
    <3> QED
      BY <1>4, <3>2
  <2> QED
    BY <1>5, <2>1, <2>2 DEF LeaderPlace
<1> QED
  BY <1>1, <1>4, <1>5, <1>6, LeaderFrame DEF TypeOK, CountsOK

LEMMA LeaderEndsStep ==
    ASSUME IInv, NEW j \in Job, LeaderExits(j) \/ LeaderGone(j)
    PROVE  IInv'
<1> USE DEF IInv
<1>1. UNCHANGED <<shell, table, holds, cmd, pipe, sent, output, taken, stray, lost, reading>>
  BY DEF LeaderExits, LeaderGone, LeaderUnread, Unread
<1>2. sigio' \in BOOLEAN /\ (sigio => sigio')
  BY DEF LeaderExits, LeaderGone, Hangup, TypeOK, CountsOK
<1>3. CASE LeaderExits(j)
  <2>1. /\ leader[j].at = "waiting" /\ leader[j].i \notin Cmd(j)
        /\ leader' = [leader EXCEPT ![j].at = "exited"]
    BY <1>3 DEF LeaderExits
  <2>2. /\ leader' \in [Job -> Leaders]
        /\ leader'[j].at = "exited" /\ \A k \in Job : k # j => leader'[k] = leader[k]
    <3>1. leader' = [leader EXCEPT ![j].at = "exited"]
      BY <2>1
    <3> QED
      BY <3>1 DEF TypeOK, ControlOK, Leaders, LeaderAt
  <2>3. \A c \in Cmd(j) : c < leader[j].i
    BY <2>1, LeaderType DEF Cmd, Leaders
  <2>4. LeaderPlace(j)'
    BY <1>1, <2>1, <2>2, <2>3 DEF LeaderPlaces, LeaderPlace
  <2>5. CommandsOK'
    BY <1>1 DEF TypeOK, CommandsOK
  <2> QED
    BY <1>1, <1>2, <2>1, <2>2, <2>4, <2>5, LeaderFrame
<1>4. CASE LeaderGone(j)
  <2>1. leader[j].at = "copy" /\ leader' = [leader EXCEPT ![j].at = "gone"]
    BY <1>4 DEF LeaderGone
  <2>2. /\ leader' \in [Job -> Leaders]
        /\ leader'[j].at = "gone" /\ \A k \in Job : k # j => leader'[k] = leader[k]
    BY <2>1 DEF TypeOK, ControlOK, Leaders, LeaderAt
  <2>3. LeaderPlace(j)'
    BY <1>1, <2>1, <2>2 DEF LeaderPlaces, LeaderPlace
  <2>4. CommandsOK'
    BY <1>1 DEF TypeOK, CommandsOK
  <2> QED
    BY <1>1, <1>2, <2>1, <2>2, <2>3, <2>4, LeaderFrame
<1> QED
  BY <1>3, <1>4

-----------------------------------------------------------------------------
(* The commands. *)

\* A command that is forked goes on; one that has ended has ended.
LEMMA CommandPlace ==
    ASSUME IInv, NEW j \in Job, NEW c \in Cmd(j), NEW to \in CommandAt, CommandMoves(j, c, to),
           UNCHANGED leader, cmd[j][c].at \in {"forked", "run", "copy"}, to # "none"
    PROVE  CommandsOK' /\ LeaderPlaces' /\ \A k \in Job : cmd'[k][Last(k)].at = "none" =>
                                                          cmd[k][Last(k)].at = "none"
<1> USE DEF IInv
<1>1. /\ cmd'[j][c].at = to
      /\ \A k \in Job : \A d \in Cmd(k) : k # j \/ d # c => cmd'[k][d] = cmd[k][d]
  BY DEF CommandMoves
<1>2. \A k \in Job : \A d \in Cmd(k) :
        /\ cmd[k][d].at = "none" <=> cmd'[k][d].at = "none"
        /\ cmd[k][d].at = "ended" => cmd'[k][d].at = "ended"
  BY <1>1
<1>3. LeaderPlaces'
  <2> SUFFICES ASSUME NEW k \in Job
               PROVE  LeaderPlace(k)'
    BY DEF LeaderPlaces
  <2> QED
    BY <1>2, LastIsCommand DEF LeaderPlaces, LeaderPlace
<1>4. CommandsOK'
  BY DEF CommandMoves, CommandsOK
<1> QED
  BY <1>2, <1>3, <1>4, LastIsCommand

\* It runs, ends, or reads from the pipe before it.
LEMMA CommandFrame ==
    ASSUME IInv, CommandOnly, UNCHANGED sent, sigio' \in BOOLEAN, sigio => sigio',
           CommandsOK', PipesOK', LeaderPlaces',
           \A k \in Job : cmd'[k][Last(k)].at = "none" => cmd[k][Last(k)].at = "none",
           \A k \in Job : pipe'[k][Last(k)] = pipe[k][Last(k)]
    PROVE  IInv'
<1> USE DEF IInv
<1>1. UNCHANGED <<shell, table, holds, leader, sent, output, taken, stray, lost, reading>>
  BY DEF CommandOnly, Unread
<1>2. TypeOK'
  BY <1>1 DEF TypeOK, ControlOK, CountsOK
<1>3. Flow' /\ Told' /\ Unwritten' /\ Taken'
  BY <1>1 DEF Flow, Told, Unwritten, Taken
<1>4. ShellPlaces'
  BY <1>1 DEF ShellPlaces, NoPipe
<1> QED
  BY <1>2, <1>3, <1>4

LEMMA ExecStep ==
    ASSUME IInv, NEW j \in Job, NEW c \in Cmd(j), Exec(j, c)
    PROVE  IInv'
<1>1. UNCHANGED <<pipe, sent, sigio, leader>> /\ cmd[j][c].at = "forked" /\ CommandOnly
  BY DEF Exec, CommandOnly
<1>2. PICK to \in {"run", "copy"} : cmd' = [cmd EXCEPT ![j][c].at = to]
  BY DEF Exec
<1>3. to \in CommandAt /\ CommandMoves(j, c, to)
  BY <1>2, CommandAtChanges DEF CommandAt, IInv
<1>4. PipesOK' /\ sigio' \in BOOLEAN
  BY <1>1 DEF IInv, TypeOK, PipesOK, CountsOK
<1> QED
  BY <1>1, <1>2, <1>3, <1>4, CommandPlace, CommandFrame

LEMMA EndsStep ==
    ASSUME IInv, NEW j \in Job, NEW c \in Cmd(j), NEW status \in ExitStatus \cup {-1},
           Ends(j, c, status), cmd[j][c].at \in {"forked", "run", "copy"}
    PROVE  IInv'
<1>1. UNCHANGED <<pipe, sent, leader>> /\ CommandOnly
  BY DEF Ends, CommandOnly
<1>2. "ended" \in CommandAt /\ CommandMoves(j, c, "ended")
  BY CommandEnds DEF CommandAt, IInv
<1>3. PipesOK' /\ sigio' \in BOOLEAN /\ (sigio => sigio')
  BY <1>1 DEF Ends, Hangup, IInv, TypeOK, PipesOK, CountsOK
<1>4. CommandsOK' /\ LeaderPlaces' /\ \A k \in Job : cmd'[k][Last(k)].at = "none" =>
                                                     cmd[k][Last(k)].at = "none"
  BY <1>1, <1>2, CommandPlace
<1> QED
  BY <1>1, <1>3, <1>4, CommandFrame

LEMMA ReadStep ==
    ASSUME IInv, NEW j \in Job, NEW c \in Cmd(j), Read(j, c)
    PROVE  IInv'
<1>1. /\ UNCHANGED <<cmd, sent, sigio, leader>> /\ CommandOnly /\ c > 1
      /\ pipe[j][c - 1] > 0 /\ pipe' = [pipe EXCEPT ![j][c - 1] = @ - 1]
  BY DEF Read, CommandOnly
<1>2. c - 1 \in Cmd(j) /\ c - 1 # Last(j)
  BY <1>1 DEF Cmd, Last
<1>3. PipeMoves(j, c - 1, pipe[j][c - 1] - 1)
  BY <1>1, <1>2, PipeLoses DEF IInv
<1>4. PipesOK' /\ \A k \in Job : pipe'[k][Last(k)] = pipe[k][Last(k)]
  BY <1>2, <1>3, LastIsCommand DEF PipeMoves, PipesOK
<1>5. CommandsOK' /\ LeaderPlaces' /\ sigio' \in BOOLEAN
  BY <1>1 DEF IInv, TypeOK, CommandsOK, CountsOK, LeaderPlaces, LeaderPlace
<1> QED
  BY <1>1, <1>4, <1>5, CommandFrame
LEMMA WriteStep ==
    ASSUME IInv, NEW j \in Job, NEW c \in Cmd(j), Write(j, c)
    PROVE  IInv'
<1> USE DEF IInv
<1>1. cmd[j][c].at = "run" /\ cmd[j][c].left > 0
  BY DEF Write
<1>2. CASE c < Size[j] /\ ~Readers(j, c)
  BY <1>1, <1>2, EndsStep DEF Write
<1>3. CASE ~(c < Size[j] /\ ~Readers(j, c))
  <2>1. /\ pipe' = [pipe EXCEPT ![j][c] = @ + 1] /\ cmd' = [cmd EXCEPT ![j][c].left = @ - 1]
        /\ CommandOnly /\ UNCHANGED leader
        /\ IF c = Size[j] THEN sent' = [sent EXCEPT ![j] = @ + 1] /\ sigio' = TRUE
                          ELSE UNCHANGED <<sent, sigio>>
    BY <1>3 DEF Write, CommandOnly
  <2>2. CommandMoves(j, c, cmd[j][c].at) /\ cmd[j][c].at \in CommandAt
    BY <1>1, <2>1, CommandWrites DEF CommandAt
  <2>3. CommandsOK' /\ LeaderPlaces' /\ \A k \in Job : cmd'[k][Last(k)].at = "none" =>
                                                       cmd[k][Last(k)].at = "none"
    BY <1>1, <2>1, <2>2, CommandPlace
  <2>4. PipeMoves(j, c, pipe[j][c] + 1) /\ pipe[j][c] \in Nat
    BY <2>1, PipeGains DEF TypeOK, PipesOK
  <2>5. PipesOK'
    BY <2>4 DEF PipeMoves, PipesOK
  <2>6. CASE c # Last(j)
    <3>1. \A k \in Job : pipe'[k][Last(k)] = pipe[k][Last(k)]
      BY <2>4, <2>6, LastIsCommand DEF PipeMoves
    <3>2. UNCHANGED <<sent, sigio>> /\ sigio' \in BOOLEAN
      BY <2>1, <2>6 DEF Last, TypeOK, CountsOK
    <3> QED
      BY <2>1, <2>3, <2>5, <3>1, <3>2, CommandFrame
  <2>7. CASE c = Last(j)
    <3>1. /\ UNCHANGED <<shell, table, holds, leader, output, taken, stray, lost, reading>>
          /\ sigio' = TRUE /\ sent' = [sent EXCEPT ![j] = @ + 1]
      BY <2>1, <2>7 DEF CommandOnly, Unread, Last
    <3>2. /\ pipe'[j][Last(j)] = pipe[j][Last(j)] + 1 /\ pipe[j][Last(j)] \in Nat
          /\ \A k \in Job : k # j => pipe'[k][Last(k)] = pipe[k][Last(k)]
      BY <2>4, <2>7, LastIsCommand DEF PipeMoves
    <3>3. /\ sent' \in [Job -> Nat] /\ sent'[j] = sent[j] + 1 /\ sent[j] \in Nat /\ output[j] \in Nat
          /\ lost[j] \in Nat
          /\ \A k \in Job : k # j => sent'[k] = sent[k]
      BY <3>1 DEF TypeOK, CountsOK
    <3>4. TypeOK'
      <4>1. ControlOK'
        BY <3>1 DEF TypeOK, ControlOK
      <4>2. CountsOK'
        BY <3>1, <3>3 DEF TypeOK, CountsOK
      <4> QED
        BY <2>3, <2>5, <4>1, <4>2 DEF TypeOK
    <3>5. Flow'
      <4>1. sent'[j] = output'[j] + lost'[j] + pipe'[j][Last(j)]
        <5>1. sent[j] = output[j] + lost[j] + pipe[j][Last(j)]
          BY DEF Flow
        <5> QED
          BY <3>1, <3>2, <3>3, <5>1
      <4>2. \A k \in Job : k # j => sent'[k] = output'[k] + lost'[k] + pipe'[k][Last(k)]
        BY <3>1, <3>2, <3>3 DEF Flow
      <4> QED
        BY <4>1, <4>2 DEF Flow
    <3>6. Told'
      BY <3>1 DEF Told
    <3>7. Unwritten'
      <4>1. cmd'[j][Last(j)].at # "none"
        BY <1>1, <2>3, <2>7
      <4> QED
        BY <2>3, <3>2, <4>1 DEF Unwritten
    <3>8. Taken'
      <4>1. taken[j] = -1
        <5>1. leader[j].at = "reaped" => cmd[j][Last(j)].at \in {"none", "ended"}
          BY DEF LeaderPlaces, LeaderPlace
        <5> QED
          BY <1>1, <2>7, <5>1 DEF Taken
      <4> QED
        BY <3>1, <3>2, <4>1 DEF Taken
    <3>9. ShellPlaces'
      BY <3>1 DEF ShellPlaces, NoPipe
    <3> QED
      BY <2>3, <3>4, <3>5, <3>6, <3>7, <3>8, <3>9
  <2> QED
    BY <2>6, <2>7
<1> QED
  BY <1>2, <1>3

LEMMA CommandStepOK ==
    ASSUME IInv, NEW j \in Job, NEW c \in Cmd(j), CommandStep(j, c) \/ EndsEarly(j, c)
    PROVE  IInv'
<1>1. CASE Exec(j, c)
  BY <1>1, ExecStep
<1>2. CASE Finishes(j, c)
  BY <1>2, EndsStep DEF Finishes
<1>3. CASE Read(j, c)
  BY <1>3, ReadStep
<1>4. CASE Write(j, c)
  BY <1>4, WriteStep
<1>5. CASE EndsEarly(j, c)
  BY <1>5, EndsStep DEF EndsEarly
<1> QED
  BY <1>1, <1>2, <1>3, <1>4, <1>5 DEF CommandStep

-----------------------------------------------------------------------------
(* Every step. *)

LEMMA NextOK == IInv /\ [Next]_vars => IInv'
<1> SUFFICES ASSUME IInv, [Next]_vars
             PROVE  IInv'
  OBVIOUS
<1>1. CASE ShellStep
  BY <1>1, TableStep, ForkStep, CloseEndStep, WaitReturnsStep DEF ShellStep
<1>2. CASE Handler
  BY <1>2, IoMoves, IoByteStep, IoStrayStep, IoStopsStep DEF Handler
<1>3. ASSUME NEW j \in Job, Enter(j) \/ Wait(j) \/ Reap(j)
      PROVE  IInv'
  BY <1>3, TableStep, ReapStep
<1>4. ASSUME NEW j \in Job, LeaderStep(j) \/ LeaderFails(j) \/ LeaderReaps(j) \/ LeaderGone(j)
      PROVE  IInv'
  BY <1>4, ForkCommandStep, ClosePipesStep, LeaderWaitsStep, LeaderEndsStep,
     LeaderFailsStep, LeaderReapsStep DEF LeaderStep
<1>5. ASSUME NEW j \in Job, NEW c \in Cmd(j), CommandStep(j, c) \/ EndsEarly(j, c)
      PROVE  IInv'
  BY <1>5, CommandStepOK
<1>6. CASE UNCHANGED vars
  <2>1. UNCHANGED <<shell, table, holds, leader, cmd, pipe, output, sent, taken, stray, lost, sigio, reading>>
    BY <1>6 DEF vars
  <2>2. TypeOK'
    BY <2>1 DEF IInv, TypeOK, CommandsOK, PipesOK, CountsOK, ControlOK
  <2>3. Rest' /\ ShellPlaces'
    BY <2>1, RestSame DEF IInv, ShellPlaces, NoPipe
  <2> QED
    BY <2>2, <2>3 DEF IInv, Rest
<1> QED
  BY <1>1, <1>2, <1>3, <1>4, <1>5, <1>6 DEF Next

LEMMA IInvComplete == IInv => OutputComplete
<1> SUFFICES ASSUME IInv, NEW j \in Job
             PROVE  /\ taken[j] # -1 => j \in stray \/ taken[j] + lost[j] = sent[j]
                    /\ leader[j].at = "exited" => \A c \in Cmd(j) : cmd[j][c].at = "ended"
  BY DEF OutputComplete
<1>1. output[j] \in Nat /\ lost[j] \in Nat
  BY DEF IInv, TypeOK, CountsOK
<1>2. taken[j] # -1 => j \in stray \/ taken[j] + lost[j] = sent[j]
  BY <1>1 DEF IInv, Taken, Flow
<1>3. leader[j].at = "exited" => \A c \in Cmd(j) : cmd[j][c].at = "ended"
  BY DEF IInv, LeaderPlaces, LeaderPlace
<1> QED
  BY <1>2, <1>3

(* The text that OUTPUT is set to is everything that the last command of   *)
(* the job has written or ever will, whatever the order of writes, SIGIO,  *)
(* SIGCHLD and the waits of the shell; and no command of a job outlives a  *)
(* leader that exits (jobs.c, io_handler, jobs_wait, jobs_get_output).     *)
THEOREM OutputIsComplete == Spec => []OutputComplete
BY InitOK, NextOK, IInvComplete, PTL DEF Spec
===============================================================================

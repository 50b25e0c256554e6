# Verification of StarkOverflow

The repository holds the solutions of one author to the programming homeworks of
a systems course: six independent C programs. This directory models them in
TLA+, checks the models with TLC and proves properties of them with TLAPS.
Everything is translated from the code; the handouts (`hw*-doc/README.md`) and
the comments are used only as statements to check the code against.

## 1. Inventory

| Program | Source | State | Operations | What makes it hard |
|---|---|---|---|---|
| hw5: telephone exchange server | `tu.c` | per TU: state, peer, reference count, extension, descriptor, a mutex and the flag `chat_locked` | `tu_pickup`, `tu_hangup`, `tu_dial`, `tu_chat`, `tu_ref`, `tu_unref` | one thread per client, each changing its own TU and its peer's; two mutexes taken in the order of extensions, after dropping the first |
| | `pbx.c` | table of registered TUs, a mutex | register, unregister, dial, shutdown | the table's mutex is held over whole TU operations; TUs are freed by whoever gives up the last reference |
| | `server.c`, `main.c` | a service thread per connection; SIGHUP handler | service loop, accept loop, termination | descriptors are reused as soon as they are closed; shutdown races the service threads |
| hw4: command shell `mush` | `jobs.c` | table of jobs, child processes, captured output | run, wait, poll, cancel, pause, expunge; SIGCHLD and SIGIO handlers | handlers run between any two instructions of the shell and change the same table; several functions reap children |
| | `program.c`, `store.c`, `execution.c` | numbered statements with a program counter; variables; the interpreter | insert, delete, goto, next, fetch; get, set; one statement at a time | edits of a stopped program; errors in expressions that jump out of half a statement; a quit that may come at any time |
| | `syntax.c`, `mush.lex.c`, `mush.tab.c` | parse trees; the stack of input files; the stack of the parser | scan, shift, reduce, recover from an error; print a tree | files pushed while others are read; precedence that only tables know; what is printed is read again |
| hw3: storage allocator | `sfmm.c` | a heap of blocks with boundary tags, free lists, quick lists, statistics | `sf_malloc`, `sf_free`, `sf_realloc` | long sequences of calls; splitting, coalescing, lists that must agree with the tags |
| hw2: paragraph formatter `par` | `par.c`, `reformat.c`, `buffer.c`, `errmsg.c` | options, a growing buffer, line breaks | option parsing, `reformat` (dynamic programming) | optimal line breaking; error paths |
| hw1: JSON tool `argo` | `argo.c`, `validargs.c` | an array of value nodes | parse, print, validate arguments | a recursive-descent parser over a fixed pool |
| hw0: hello | `hi.c` | none | none | nothing |
| `course_tools`, `hw*-doc` | scripts, handouts | | | not programs of the repository's own |

What makes each component correct:

- **tu.c**: a call always has two ends which agree; mutual exclusion, no deadlock;
  exact reference counts, so no use after free; each client is told the present
  state of its TU; a chat reaches the peer and nobody else.
- **pbx.c, server.c, main.c**: registered TUs exist; a served client can be dialled;
  closed connections leave nothing behind; the shutdown ends.
- **jobs.c**: a terminated child is recorded once, with its own status; every job
  reaches a final state; a job's slot and its process never get confused.
- **program.c**: statements sorted by line, the counter always at a statement of the
  program or at its end, no statement used after it is freed.
- **sfmm.c**: blocks tile the heap, tags agree, a free block is on exactly one list,
  no byte belongs to two allocated blocks, statistics exact.
- **leaders (jobs.c)**: pipelines come to their end, whoever closes which pipe when; a
  leader outlives its commands; captured output is complete.
- **store.c, execution.c**: a variable reads as what it was given; a statement, however it
  fails, does nothing to the program but end the run.
- **syntax.c, scanner, parser**: trees follow the levels of the operators; a statement is
  executed before a token of the next line is read; a listing reads back as the program.
- **par**: line breaks are the best of all; words and paragraphs are neither lost, split
  nor joined; the buffer is a sequence.
- **argo**: what is read is written, in order, with the same values; what is written can
  be read; error messages name the right place.

The programs share nothing: no module of one instantiates a module of another.

## 2. Modules

| Module | What it is |
|---|---|
| `Calls` | abstract: the telephone exchange as its users see it, each operation one step |
| `TU` | `tu.c` at the grain of its mutexes; implements `Calls` |
| `PBX` | the whole server, composed of `TU` with `pbx.c`, `server.c` and `main.c` |
| `Jobs` | `jobs.c` with the statements of `execution.c` that use it, the processes and SIGCHLD |
| `ProgramStore` | abstract: the program store as the comments of `program.c` describe it |
| `Program` | the linked list of `program.c` and the run loop of `execution.c`; implements `ProgramStore` |
| `Sfmm` | the storage allocator of hw3, word by word |
| `Variables` | `store.c`: the list of names and values, as operators |
| `Mush` | `execution.c` over `Variables` and `Program`: every statement, expressions, jobs as `exec_stmt` sees them; implements `Program` |
| `Leader` | the processes and pipes of a job: leader, commands, SIGIO, captured output |
| `Syntax` | lexemes, tokens and trees: what the scanner makes of a text, what `syntax.c` and `prog_list` print |
| `Reader` | the stack of input files, the parser step by step, `exec_interactive`; over `ProgramStore` and `Syntax` |
| `Reformat` | `reformat.c` and the defaults of `par.c`, as operators and recursive functions |
| `Par` | the program `par` over `Reformat`: options, reader, main loop |
| `Items` | abstract: a buffer as a sequence with a cursor |
| `Buffer` | `buffer.c` block by block; implements `Items` |
| `ArgoText` | characters, numbers and strings of `argo.c`, as operators |
| `Argo` | the program `argo` over `ArgoText`: arguments, parser, pool, writer |
| `MC...` | small instances for TLC, one for each module that is checked |
| `SfmmInvariant` | what is true of the heap between two calls, and what the parts of a call make of it: the vocabulary of its proofs |
| `PBXProofs` (with `TU` and `Calls`), `JobsProofs`, `LeaderProofs`, `MushProofs`, `SfmmProofs`, `BufferProofs`, `ParProofs`, `ArgoProofs` | theorems and their proofs |

`PBX` extends `TU`: its threads run the actions of `TU` whenever they are inside
`tu.c`. `TU` and `PBX` instantiate `Calls`, `Program` instantiates `ProgramStore`,
`Buffer` instantiates `Items`, each with a refinement mapping stated at the end of the
detailed module. `Mush` extends `Program` and replaces its "plain" statements by the
statements of the shell; that it implements `Program` is one of its properties, and the
composition is what carries the theorems about `Program` over to it. `Reader` extends
`ProgramStore`, which `Program` implements: where a line goes is its matter, how the list
is changed is not. `Jobs` has the job
table in detail, `Leader` the processes of a job, and `Mush` only what a statement sees
of them.

An operator named like a definition with a suffix (`Recheck_Skipped`,
`IntTextUnsigned`), placed before it, is that definition with a plausible
mistake. None is used by the specification: each says which mistake a property
would notice, and `PROJECT.json` pairs them.

### hw5: `TU` and `PBX`

State: one function over TUs for each field of `struct tu`; the owner of each mutex;
whether the memory of a TU is allocated; for each thread where it is and its local
variables; for each client its last notification and the chat it has received. `PBX`
adds the table, its mutex, and a second program counter for the functions outside
`tu.c`.

A step runs from one mutex acquisition to the next. Between two acquisitions a
thread touches only what its mutexes protect, so that nobody can tell the order
of its assignments; where it does let go of something in the middle
(`tu_hangup` unlocks the peer before it unlinks its own TU), the step is cut there.
`tu_lock` has four steps: `LockPeek` (lock own, look, unlock), `LockFirst`,
`LockSecond`, `Recheck` (keep, retry, or return with the own mutex only).
Unlocking `NULL`, locking or changing a freed TU, and an index out of bounds end
the process: the variable `outcome` says why, and nothing follows.

Abstractions: the text of commands and messages; socket set-up and options; a
failing `malloc`; `SIGPIPE`. A client reads what it is sent at once. A freed
address is not allocated again, so that a use after free is always visible.
SIGHUP is delivered to the main thread, the only one that runs the accept loop.

### hw4: `Jobs`

State: the table (status, pid, exit status per slot), the leaders (running, exited,
killed; which have commands running; whose status has been fetched), whether SIGCHLD
is pending, and where the shell is in which statement. `chld_handler` is one action
that is enabled between any two steps of the shell while the signal is pending. Steps
end after `fork`, after the assignment of the pid, and before each wait, the points
where the handler changes what follows. Reaping is one operator, used by the
handler, `jobs_wait`, `jobs_cancel` and `jobs_pause`, which compete for the statuses.
`waitpid` with nothing to wait for leaves `status` uninitialised in `jobs_cancel`:
the exit status recorded is then any of its possible values.

### hw4: `Program`

State: the nodes with their links and statements, `prog_counter`, the local variables
of the function that is running, and the handler of SIGQUIT with `got_quit`. A step is
one turn of a loop of `program.c` or the code between two loops. A node is allocated
if its line is not 0. Statements are "plain", "stop", "goto", "if"; the value of a
condition is any, and so is the success of a plain statement. Only the prompt
inserts and deletes, because the grammar gives `delete` no line number.

### hw3: `Sfmm`

State: `heap`, a record of the memory as a function of words, the free and quick lists,
the epilogue, the end of the heap and a fault; the blocks the user holds; two of the
statistics. `sf_malloc`, `sf_free` and `sf_realloc` are single actions (the program is
sequential), built from operators that take a heap and return one, each named for
its function. A word is a tag, a link, data of the user or blank: enough to tell what
`set_header` overwrites and what `release_block` reads when it takes the last word of
the block before for a footer. Sizes are counted in words, and wrap at `Width` where
the code computes with `sf_size_t`.

The code has ten steps that leave the heap ill-formed. The model takes each of them,
names it in `heap.fault`, and stops there (`Faulted`), because what follows is no
allocator any more and depends on words that nobody wrote for the purpose:

| Fault | `sfmm.c` | What happens |
|---|---|---|
| left on its list | 92-98 | an exact fit is handed out and stays on its free list |
| size wraps | 80 | a block too small for the request is "split" |
| wrong list emptied | 158 | the flush of quick list i > 0 leaves it linking released blocks |
| split over old contents | 423 | the new header is computed from whatever the word held |
| data read as a footer | 444, 103 | the last word of an allocated block gives the address of "the block before" |
| epilogue left behind | 108-112 | pages were added, memory ran out, `epi` stays in the middle |
| epilogue miscounts | 127-129 | the prv bit of the new epilogue is taken from the footer of the last block, which is stale when that block is allocated whole |
| payload forgotten | 177-180 | `sf_realloc` fails after it has subtracted the old payload |
| request wraps | 263-268 | a size near 2^32 is rounded up to less than a minimal block |
| footer over data | 424 | `sf_realloc` to a smaller size writes a footer into the last word kept |

So the properties say what holds of every heap before its first fault: between two
faults there is still a great deal of splitting, joining, growing and moving, which
they are about. An eleventh fault, "abort" of a pointer the user does hold, is in
the model and never reached (`OldFootersTrue`). The memory's new pages are zero
(`sf_mem_grow`, a library); `max_payload`, `total_pages`, `sf_errno` and the
obfuscation of headers are left out, and so are calls with invalid pointers.

### hw4: `Variables` and `Mush`

A value is a text of digits, a dash and one letter that stands for any character that is in
no number. The conversions are those of the code: an empty text is 0, a dash alone is
an error for `strtol` and 0 for `store_get_int`, digits after a zero are octal for `strtol` and
decimal for `store_get_int`, the text of a negative number is built from the
remainders of its absolute value. (Texts that only `strtol` takes for numbers, with blanks or a
plus before them or in hexadecimal, are not in the model.) `GetInt` gives a set of values, because for a variable
that does not exist the function succeeds and the caller goes on with what its own
variable held. Expressions are trees with the types the parser gave them; `Apply` has C's
division, and "Crash" for a division by zero. `exec_stmt` is one action per statement,
two where it waits (`WaitStatement` and `WaitReturns`); an error takes the `longjmp`
whatever the depth of the expression, and an operator that has no text aborts the shell, after
its arguments (`StringOf`). `assigned` records what a variable was last given:
it is history, read by the property only. Left out: overflow of a `long`; `source` and
`list`, and an `if` at the prompt, whose `goto` moves the counter without a run, which are
in `Reader`; a fork that fails leaves a job that only `Jobs` follows.

### hw4: `Syntax` and `Reader`

A text is a sequence of lexemes (names, numbers, other words, keywords, operators, what is
quoted, blanks, ends of lines), because that is what the rules of the scanner tell apart;
which token a lexeme becomes depends on what comes after it (`Scanned`: the trailing
contexts of `mush.lex.c`; a number at the end of a file is a word). The grammar is the one
the tables of `mush.tab.c` hold: `Expected` gives the tokens that a state of the parser
shifts, `Reduced` what its default reduction leaves, with the trees of the semantic
actions; a state whose `yypact` is the default reads no token, the others read one first.
An error empties the stack, because only the first state can take the error token, and
then discards tokens to the end of the line; at the end of a pushed file the scanner pops
it and returns an end of line. A line number below 1 is an error only where the rule for
an optional line number is reduced: a `stop` has a line number of its own right
(`mush.tab.c:1622`), which is not checked and may be negative when `atoi` wraps. `Enter` to
`Other` are the alternatives of `exec_interactive`, `RunStatement` is a turn of the run
loop; statements that do not touch the program or the input succeed or fail at will.
`Again` gives the last listing to a second shell. Left out: characters; the limit of the
parser's stack (`YYMAXDEPTH`); a quit (`Program`); copying and freeing of trees.

### hw4: `Leader`

State: where the shell is in `jobs_run` and `jobs_wait`, which pipe ends it holds, the
leaders and their commands with what they have still to write, the number of bytes in each
pipe, what the shell has read, and SIGIO. A step is one system call, or the code from one
to the next. Who has a pipe open follows from where the processes are (`Opened`,
`Capturing`): the leader has everything between its first `pipe` and its `close`s, a child
between `fork` and `exec`. `io_handler` goes through the table and reads to the end of
file, blocking, because the second `F_SETFL` has taken `O_NONBLOCK` away. Every job is
captured and started once. Assumed of the programs: they read their input to the end and
then exit, or exit or are killed earlier. A child that fails before `exec` returns from
`jobs_run` as a second shell, a "copy": it is assumed to write nothing and to end when it
likes, or never. Two windows are kept in the model. A job that is freed while `io_handler` is
about to read it ends the shell (`IoCrash`). A job that is in the table and has no pipe yet
(`jobs.c:249-254`, or for good if `pipe` fails) has whatever descriptor its memory held:
`io_handler` finds it closed or at its end and goes on (`IoNext`), reads bytes from it, which
may be those of another job's pipe (`IoStray`: `stray`, `lost`), or blocks there for ever
(`IoBlocks`). If bytes were read, the text that lines 259-260 then put in place of theirs is
empty whatever comes later, because its end comes first (`Take`).

### hw2: `Reformat`, `Par`, `Buffer`

The three passes of `choosebreaks` are recursive functions from the last word to the
first, with the code's comparisons and with scores that wrap beyond `MaxInt`; a layout is
what the `nextline` fields say when they are done. `Par` reads standard input line by line
where the code reads characters: the one character it pushes back is always a newline, and
the white characters before it are lost, which is what `EndParagraph` does. The endless
loop of a width without room for a word is a state of its own. `Buffer` has the blocks of
`buffer.c` with their three counters and its cursors, and a `malloc` that may fail in any
call. Left out: `parseopt`, which nothing calls; `freebuffer`; failures of `malloc`
outside `Buffer`; the text of messages.

### hw1: `ArgoText`, `Argo`

The recursion of the parser is a stack of frames, so that each character read or pushed
back is a step and the pool and the position can be looked at between any two. The text
of a number is carried through the two integer reversals and the three representations of
`ARGO_NUMBER`; a double is exact, and has six decimals where it is printed with `%f`. A
character is a signed byte: 255 is -1 and ends the input. `Again` lets a second process
read what the first has printed. Left out: failures of `malloc`; the text of the usage and
error messages (their position is in the model).

## 3. Runs

Every run is expected to pass. Deadlock is checked where a system may not stop (with an
explicit stuttering step for a process that has exited); `par`, `argo`, the scenario of
`Leader`, the shell of `Reader` and a crashed `mush` do end, and their configurations say so.

| Run | Instance | Shows |
|---|---|---|
| `TU_two` | 2 TUs, both orders of extensions, fair | `IInv` (the invariant of the proofs), notifications, chats, the refinement of `Calls`, no operation hangs |
| `PBX_two` | 2 clients that hang up by disconnecting, 2 descriptors, SIGHUP, fair | both kinds of mutex are where the program counters say; the inductive invariant of the server until SIGHUP; the server settles |
| `PBX_three` | 3 clients, 2 descriptors, symmetric | third parties, and descriptors and extensions that are reused: lock order, counts, no dangling pointer, no leak, served clients can be dialled |
| `Jobs_two` | 2 slots, 3 leaders, every statement, fair | `IInv`; own statuses, lasting cancellations, statements end |
| `Program_three` | 3 lines, 3 nodes, fair | `IInv`; a quit ends its run, the refinement of `ProgramStore` |
| `Mush_vars` | 1 line, 1 job, 18 expressions, ints of 5 bits | the refinement of `Program`; variables hold what they were given |
| `Leader_pipes` | a pipeline of 2 and a job of 1 that write 1 and 3 bytes, pipes of 2, fair | output is complete, but for what was read before a job had its pipe, and nobody outlives the leader; pipelines end |
| `Reader_texts` | expressions of 4 operands, with parentheses and negations; lines of 3 tokens out of 14; programs of 2 lines out of some 2400; 3 lines out of 13 that edit, run and source 2 files; fair | trees by the levels of operators, no token read ahead, what a listing reads back as, the end of the input |
| `Sfmm_heap` | 3 pages of 12 words, 2 quick lists of 1, 3 free lists, 5 sizes | the heap is tiled, tags agree, each block is in one place, payloads survive, statistics are exact |
| `Par_texts` | 5 words at 3 widths in 4 modes; 3 lines out of 8 under 5 settings; 2 options out of 15 | best breaks, words and paragraphs kept, when "impossible" is said, progress |
| `Buffer_ops` | blocks of 1, 2 and 4 items, 2 items | the blocks lie end to end; the refinement of `Items` |
| `Argo_texts` | all texts of up to 7 characters over 5 alphabets, with prefixes; 11 argument vectors; pool of 12 | text, lists, positions and values are kept; output can be read again, with the exceptions of section 4 |

Why the bounds are enough. Every hazard of `tu.c` needs at most one operation by a third
party between two steps of a thread and its peer, hence three clients in `PBX_three`; a
fourth repeats the role of the third. `TU_two` has two, so that it can check
liveness; the theorems about its invariants hold for any number. Two descriptors for three
clients are the smallest number at which a descriptor is reused while a call exists. In
`Jobs` two slots and three leaders let a slot be reused, a job be in front of another in
`jobs_fini`, and the table overflow. Three lines give a first, a middle and a last line,
and a range with one line outside it. The extensions, clients and lines are bounded, the
number of commands is not: every run visits all reachable states without any limit on the
length of a behaviour. `Commands` and `Sighups` split the commands over the runs of `PBX`
to keep each small: `PBX_two` omits the explicit hangup command because closing the
connection runs the same `tu_hangup`; `PBX_three` omits chats, which change no state of
the exchange and are in `TU_two`.

In `Sfmm`, three pages of 12 words leave 30 words for blocks: up to seven blocks, which is
enough for a free block between two used ones, for joins on both sides and for a growth by
one page and by two; the lists are scaled down (ten quick lists of five would never fill).
The five requests fall into the second quick list, the free lists, a growth to the last
word, a growth that fails, and the wrapping of sizes; blocks for the first quick list come
from `sf_realloc` to 0. All faults of the table above are reached in it. `Mush_vars` has an expression of
each class, a difference that leaves the range of an int, a quotient by a variable that may
be 0, and a comparison of strings, with one job, because what several jobs do to each other
is in `Jobs`. In `Leader` one pipe between commands, one captured pipe that can fill, and
one more job for `io_handler` to come across suffice; a longer pipeline repeats the middle.
`Par_texts` sets `MaxInt` to 180, so that sums of squares overflow in some of its inputs;
five words have sixteen layouts, and the property compares the result with all of them.
`MaxHere = 1` makes the fourth and the eighth item begin a block, and a cleared buffer
reuse two. In `Reader_texts` one operator of each level and four operands give every order of
levels; three tokens reach every state of the parser in which an error can be met; ints have
6 bits, so that 40 is a negative line number and 64 is none. No file sources itself and no
jump of the scripts goes back, so that the shell must end: a program that loops does not.
Argo's alphabets split the characters that a state of the parser can tell apart;
nine characters, the length at which a number is cut, are reached by prefixes.

Symmetry is used only in `PBX_three`, which has no liveness property, over TUs that the
initial states do not tell apart.

### Fairness

- `TU`, `PBX`: weak fairness of every thread inside the server. A thread that can
  run does run, and pthread mutexes are released by threads that keep running. Weak
  fairness is enough and no fair mutex is assumed: the liveness properties
  (`OperationsEnd`, `ServerSettles`) excuse behaviours in which the clients send
  commands for ever, in which one thread may find a mutex taken each time. Clients
  are under no fairness.
- `Jobs`: weak fairness of the shell, of the delivery of a pending signal, and of
  every process. The last is an assumption about the user's commands: a command
  that never ends keeps `wait` waiting, as it should.
- `Program`: weak fairness of the shell. The user's quit is under none. A statement
  ends: a quit does not interrupt a `wait` (`signal` restarts the system call).
- `Leader`: weak fairness of the shell, the handler, every leader and every command. The
  user need not start a job, a command need not fail or end early, and a copy need not end.
  `JobsEnd` excuses a handler that blocks at a descriptor that is not set, because nobody
  need ever write there; one that always has another byte is taken to block, too.
- `Reader`: weak fairness of the first shell. It reads from files, so nothing keeps it
  waiting; a second shell need not be started.
- `Par` has no fairness: `ParProgress` is an action property, a number that every step
  makes smaller, which says that par ends as long as it takes steps.

## 4. Findings

The models contain these steps, found while they were written. Properties are stated so
that they hold around them, and each says how (an `outcome`, a `fault`, an exception in
the property).

In these places a property that passes has an exception where the documentation has none:

| Code | Documentation | What happens, and where the exception is |
|---|---|---|
| `jobs.c:249-260` | `jobs.c:209-213`: captured output "should be read and saved" | a job is in the table before it has a pipe; `io_handler` may read a byte of another job's pipe for it, so that the text of the other lacks it and its own is empty; or it blocks. `OutputComplete` (`stray`, `lost`), `JobsEnd` (`Stuck`) |
| `sfmm.c:187-208` | `sfmm.h:249-250`: `sf_realloc` with a size of 0 frees the block and returns NULL | the block is given a payload of 0 and returned. `ListsExact` counts it as the caller's |
| `sfmm.c:92-98` | `hw3-doc/README.md:892`: blocks in a main free list are not marked as allocated | a block that fits exactly is handed out and stays in its list. All properties of `Sfmm` end at this fault |
| `argo.c:226-227` | `argo.c:42-45`, 215-217: a premature end of the input is an error | a string that the input cuts off is accepted, and printed with a quote. `TextKept` (`QuoteCutOff`) |
| `argo.c:414`, 894-901 | `hw1-doc/README.md:963-966`: canonicalization is idempotent | 5e-1 is printed as 0.5, and that as 0.500000. `RoundTrip` (`twoforms`) |

Some of the others are outside what any property says, and `PROJECT.json` has them among the
hazards without one: the value of a variable that does not exist, the pid -1 of a failed fork.
And `StatementsEnd` does not mind a job that is RUNNING for ever.

| Code | What happens |
|---|---|
| `tu.c:586-605` | `tu_lock` returns without a peer but with `chat_locked` still set from an earlier round; `tu_unlock` then unlocks the mutex of a NULL peer and the server dies |
| `tu.c:591` | a thread locks the peer it remembers, which may have been freed meanwhile |
| `tu.c:524`, `server.c:61` | a chat goes to a descriptor that was closed and belongs to another client; `ChatReachesOnlyThePeer` is therefore about TUs whose descriptors are not reused (`TU`) |
| `pbx.c:47-48`, 59-70 | the PBX is freed while threads still use it, although the comment says that it waits |
| `pbx.c:96, 137, 177` | range checks off by one and two |
| `jobs.c:397`, 119-121 | a job that ends before its status is set to RUNNING stays so; `jobs_fini` (136) stops at the first job it cannot cancel and leaves the rest |
| `jobs.c:528-530`, 559 | a leader that exited of itself is recorded as canceled |
| `jobs.c:240` | the search for a free slot runs past the table, because the count is only ever decremented |
| `jobs.c:386`, 204-206 | a leader should exit with the status of its last command; it has inherited `chld_handler` (line 60), and if that reaps the command first, `waitpid` fails and the leader exits with 0 or with whatever `status` held (`LeaderWaits`) |
| `jobs.c:206-207` | a leader whose last command was killed should end by SIGABRT and exits instead |
| `jobs.c:256-257` | the second `F_SETFL` replaces `O_NONBLOCK`, so the SIGIO handler blocks until the end of file |
| `jobs.c:282-345` | a process that fails before `exec` returns from `jobs_run` and goes on as a second shell |
| `store.c:50-52`, 58 | success for a variable that does not exist, with the result unset |
| `execution.c:33-38` | the comment promises escape from waits; the handler only sets a flag that is looked at between statements |
| `execution.c:333-336`, 148 | division by zero ends the shell; a `long` is cut to an `int` for `JOB`, `STATUS` and `set` |
| `mush.tab.c:2132`, 1622 | "Line number must be positive" is not asked of a `stop`: `2147483648 stop` is stored at line -2147483648 |
| `mush.tab.c:2270-2284` | a last line without an end is discarded, and then the end of the file for ever: the shell does not end |
| `syntax.c:111-146`, 97 | a listing loses quotes and the parentheses around an argument, so that it may not read back |
| `mush.lex.c:590-592`, `execution.c:195-203` | files that a run sources are read after the run, the last first |
| `sfmm.c` | the ten faults of the table in section 2 |
| `jobs.c:265-266`, 548 | a fork that fails leaves a job with pid -1, and canceling it sends the signal to every process |
| `jobs.c:598` | `jobs_pause` throws the status of a leader away, whose job is RUNNING for ever |
| `reformat.c:233`, `par.doc:195` | a width without room for a word is an error by the document and an endless loop in the code |
| `reformat.c:256` | the first word takes the spaces before it after words were cut to fit, and may become "impossible"; `BestBreaks` excepts it |
| `argo.c:562-582` | an exponent that ends in 0 loses the 0 |
| `argo.c:338-353` | the characters of a number after the ninth become a value of their own |
| `argo.c:755` | commas may be missing or trailing |
| `argo.c:1009-1062` | the byte 255 is written as it is, and ends the input when it is read |

## 5. Proofs

All theorems are about the specifications that TLC checks, with the constants
arbitrary under the assumptions declared in the modules; TLC evaluates these
assumptions in the passing runs.

- **`PBXProofs!CallsCorrect`**: in the abstract exchange a peer's peer is oneself and
  the two ends agree on the stage of their call. The invariant is inductive as it is.
- **`PBXProofs`**, first `tu.c`: `IInv` is inductive (`Invariance`), for any set of TUs and threads.
  None of the properties is inductive alone: that a count is exact needs mutual
  exclusion, which needs to know which mutexes a thread holds at each program
  counter (`LocksHeld`, `FramesOK`), which needs that `chatLocked` is set exactly by a
  holder of the peer's mutex, which needs that peers are mutual (`C!CallsOK`). From
  it follow `MutualExclusion`, `OrderedLocking`, `ExactReferences`, `UpToDate`,
  `ChatIsPrivate`, `TypeCorrect`, and `Refinement`: every step is a step of `Calls`
  or a stutter.
  Each action has a lemma that asks only for `Core` (types, mutexes, frames, calls) and, for
  the counts, `Counted` (whoever has a peer has a reference), so that they serve the server too.
  Then the server, for any number of clients and descriptors.
  `RegistryMutex` needs no assumption: the registry's mutex is where the places in `pbx.c`
  say, through the shutdown. `ServerInvariance`: `ServerInv` holds until SIGHUP. That a count
  is exact while threads come and go needs to know who still has the TU: the registry, from
  registration to the entry's clearing (`RegistryOK`, with the descriptor that numbers it), a
  peer only until the helper has hung up, and a caller in `tu_dial` only while the
  registry is locked, so never beside the helper (`ServiceOK`); then the count is a
  function of the place (`ReferencesOK`). `ServedAreDialable` follows. The other theorems are
  stated for `~Sighups`, as the run `PBX_three` is: `ServerLocks`,
  `ServerLockOrder`, `ServerPointersLive`, `ServerNoLeak`, and `ServerImplementsCalls`, that
  the server as a whole implements `Calls`. After SIGHUP the invariant is lost:
  `pbx_unregister` may clear the entry of another TU, or use the registry after it was freed.
- **`JobsProofs`**: `IInv` is inductive (`Invariance`), for any number of slots and
  processes. A status can be wrong only if a pid is in two slots, or a final job's
  leader has not been reaped and will be again: hence `PidsOK` and `FinalReaped`;
  `ShellOK` says what a statement may still rely on after the handler has run. From it:
  `TypeCorrect`, `OwnStatus`, `NoLeaderLost`, and the action property
  `CancellationLasts`.
- **`LeaderProofs`**: `OutputIsComplete`, for any number of jobs, of commands in each, of
  bytes they write, and any size of the pipes (`SizeAssumption`; `JobAssumption`: the jobs are
  the numbers from 1). It says that nothing is missing from the text that OUTPUT is set to but
  the bytes that went to a job without a pipe (`lost`), and is about jobs for which none were read so
  themselves (`stray`). That takes
  an account of every byte: what the last command has written is read, lost or in its pipe (`Flow`),
  and a byte in the pipe is announced by a SIGIO that is pending or by an `io_handler` that
  has not come past this job (`Told`). A text is taken only from a job whose leader has been
  reaped, and that leader, unless it failed, waited for its commands in order
  (`LeaderPlaces`), so the last of them writes no more; if it never ran, its pipe is empty
  (`Unwritten`). `ShellPlaces` and `Taken` say what the shell may rely on meanwhile.
- **`MushProofs`**, first the list of `program.c`: `IInv` is inductive (`Invariance`), for any
  number of lines and nodes. The order of the list is stated locally: a node's successor has
  the least greater line. With that no induction along the list is needed, and inserting or
  unlinking a node disturbs it at one place. From it: `QuitIsNotKept`, and
  `Refinement`: the list implements `ProgramStore`.
  Then the interpreter, for any variables, expressions, jobs and width of ints:
  `MushImplementsProgram`. Each statement maps to a step of `Program` or to a stutter; what
  it needs is that a statement that waits was given at the prompt or is the one the run is
  executing (`Waiting`). With the theorems on the list it gives
  `MushKeepsProgram`: the list, the counter and quits are sound under the whole interpreter.
  Last the variables: `VariablesKept`. `VariablesHold` says what reading a variable gives; the
  invariant `VariablesInv` says what the list has (`KeptIn`: one entry of a name, with the text
  of the integer it was given) and that jobs have statuses and texts (`JobsType`). The lemmas
  under it are what `store_set_string` does to the list in each of its cases (`SetStringOK`), that
  reading the digits of an integer gives the integer, for every integer (`IntTextRead`), and
  that an expression has an integer for a value, or fails (`NumericType`). It assumes that
  expressions are finite trees of the forms the parser builds (`ExprAssumption`), and that ints
  have some width (`IntBitsAssumption`; that the power is positive is all the prover is told).
- **`SfmmProofs`**: the allocator, for any size of page, number of pages, lists, requests and
  width of sizes under `SizesAssumption` (pages and widths are even, a page holds at least ten
  words, sizes count further than the heap goes), and any sequence of calls and writes up to the first
  fault. The properties find the blocks by following sizes from the prologue on, which no step
  of a call preserves: in between two headers are out of step, a free block is on no list, or two free
  blocks are neighbours. The invariant `IInv` has a set C of blocks instead (`Good`): they are a chain
  from the prologue to the epilogue (`Chain`), every block agrees with the next (`Joint`), the free
  lists hold the free blocks (`Listed`), the quick lists those that are marked (`Quick`), the user
  all others with the payloads they were given (`Holds`), and memory past the heap is blank
  (`Ended`). `Sound` has two parameters for what is not so inside a call: where two free blocks may be
  neighbours, and which free blocks are on no list.
  The argument goes up through `sfmm.c`. Each setter is given by the words that it writes
  and the frame that it leaves (`SetHeaderFacts`, `SplitFacts`). A piece of the chain may be written anew if its
  ends fit (`Rebuild`); from it follow a block that gets another tag, is cut (`CutSound`) or is
  joined with its neighbours (`ReleaseSound`), where the old footer before a block is followed
  only to the block that is there. Growth is a recursion over pages (`GrewFacts`). Each
  way in which `sf_malloc` finds a block gives one that the user did not hold, leaves the contents of all others, or is a fault
  (`Finds`, proved in `FreeListFinds` and its like for the quick lists and growth). Sums over what the user holds change by one summand.
  Then there is one lemma for each call, from which `Invariant` and `UserData`; and following the sizes
  finds exactly C, which gives `HeapWellFormed` and `ListsAreExact`. After a fault the
  theorems say what the properties do: that memory still holds whole words (`HeapTypes`), and that the fault
  is never "abort". TLC checks the properties and not `IInv`, which asks for the set C.
- **`BufferProofs`**: `BufferInv` is inductive, for any items, any size of the first block and
  any number of blocks. That a reused block's old `numprevious` is right again needs the
  blocks to lie end to end whatever they hold (`Contiguous`) and to be full exactly before
  the current one (`Filled`). Then every position up to the count is in one block up to the
  current one (`CopiedFacts`), so `additem` appends to the array that `copyitems` would fill
  (`Appended`), and `BufferImplementsItems`: the blocks and the cursor implement `Items`.
- **`ParProofs`**: the main loop of `par`, for any runs (`InputsAssumption`: a run is a sequence of
  options and a sequence of lines that is not empty, as the text after the last newline counts). `ParInv` says
  which line the reader is at (`Between`, `Within`, `After`): between paragraphs the white characters
  of the next line may be gone, but then that line was blank; within one nothing is. What a paragraph
  looks like, and whether laying it out fails, plays no part: `ReformatPar` and
  `Setdefaults` are not expanded. `ParagraphsAreKept` follows, and `ParMakesProgress`: `readlines`
  is never called at an empty line, which is why pushing back its newline does not make par run in a circle.
  The recursions of `Upto` and `Size` are over a number of lines, so that
  functions satisfying them exist by plain induction (`UptoSteps`, `SizeSteps`).
- **`ArgoProofs`**: the parser, for any pool, any input of any length and any depth of nesting.
  The invariant `Parsing` types the stack of frames (`IsFrame`) and says which function may
  have called which (`Fits`), where the counters are for the character each frame looks at
  (`Position`), and that the end of the input stays the end. `PositionsAreExact` follows: a push-back
  restores line and column, because only a character just read is ever pushed back. It is
  about the first process, whose input is the run's (`RunsAssumption`: a sequence of
  integers); that what the writer prints is such a sequence is a recursion over the lists and
  stays with TLC.
  `ListsAreSound` needs to know which values of the pool each pending call holds (`LinkIn`: the
  value it reads is no head, its next element is in no ring yet and after the last one), that a
  list inside a list has later values than the element it is for (`Apart`), and that the
  rest of the pool is unused (`Spare`). Then a list is begun as a ring of its own (`NewHead`),
  an element is linked before its head (`NewElement`), and whatever else the parser writes is
  no link (`Alike`). `Rings` states the rings by their links alone; that the elements of a
  head, a recursive function, are those of its ring (`RingsSound`) is proved from
  `RecursiveFunctionExists` and from the last value of the ring backwards, as links lead to
  later values until they come back to a head.

The library states induction and recursion with operators for parameters, which the provers
cannot instantiate. `MushProofs`, `SfmmProofs`, `ParProofs` and `ArgoProofs` therefore begin with the lemmas of that kind
that they need, in which sets and functions stand for the operators. From the
well-foundedness of the natural numbers follow a least element, induction and strong induction;
and `RecursiveFunctionExists`: if every value of a definition depends only on the values at
elements below, and every set has an element with none of its own below, then
a function satisfies the definition. With it a recursive function of a model may be unfolded.

Only model-checked: every liveness property (`OperationsEnd`, `ServerSettles`,
`StatementsEnd`, `QuitEndsRun`, `JobsEnd`, `ReaderEnds`), because liveness under fairness is out of the
prover's reach; what the server does after SIGHUP, except the registry's mutex; how `par` lays out a paragraph (`BestBreaks`, `WordsKept`); what `argo` writes (`TextKept`, `NumberKept`, `RoundTrip`), which is the
result of recursions over trees and digits; and `Syntax` and `Reader`, whose recursive operators the prover
does not take.

## 6. Not modelled

- hw5: option parsing, sockets, the growth of the command buffer; SIGPIPE; the SIGHUP
  handler in a thread other than main; `csapp.c` (third party), `globals.c` (names).
- hw4: copies of trees, characters of the scanner and the limits of its buffers and of the
  parser's stack; redirections to and from files; the memory that `jobs_fini`, `store_fini` and `prog_fini` free.
- hw3: see the end of its part in section 2; `sfutil` (a library); the tests.
- hw2: `parseopt` (never called), `freebuffer`, failures of `malloc` outside `Buffer`.
- hw1: failures of `malloc`. hw0 has nothing to model.

## 7. What could follow

The order of work was `Calls`, `TU`, `PBX`, `Jobs`, `Program`, `Sfmm`, then `Buffer`,
`Reformat` and `Par`, `Argo`, `Variables` and `Mush`, `Leader`, `Syntax` and `Reader`. What would add most next:

1. an abstract promise of `Sfmm` (disjoint payloads with their sizes), and `Sfmm` shown to
   implement it up to a fault;
2. `Leader` composed with `Jobs`, with jobs that are not captured and slots that are reused.

The runs together take some minutes on two cores; a run of a new module should replace one
that shows less.

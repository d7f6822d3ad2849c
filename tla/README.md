# Verification of the CS3013 operating systems projects

The repository holds four course projects. Each is a small program, or a pair of
them, and they are independent of each other except for the mailbox code that
three programs share. This directory holds TLA+ models of the parts in which
threads and processes interact, TLC configurations that check them, and TLAPS
proofs.

## The system

| Part | Source | State | Operations | Interaction |
|---|---|---|---|---|
| mailboxes | `sendMsg`, `recvMsg` in `project3/addem.cpp`, `project3/life.cpp`, `project4/proj4.cpp` (the same code three times) | per mailbox a `msg` struct and the semaphores `sem_s`, `sem_r` | send, receive | shared memory between main and the worker threads |
| addem | `project3/addem.cpp` | main's total; each worker's loop variable and partial sum | hand out ranges, add, reply, collect, join | mailboxes; mailbox 0 belongs to main |
| game of life | `project3/life.cpp` | arguments and file, the matrices `before` and `after`, generation counters, the barrier (`barrierCount`, `gendone_sem`, `alldone_sem`) | check the arguments, read the file, RANGE, GO, STOP, compute a line, GENDONE, ALLDONE, copy the matrix | mailboxes order all accesses to the matrices; the barrier keeps ALLDONE behind GENDONE |
| doit | `project1/doit_processes.cpp`, `doit.cpp` | the vector `processes`; the kernel's children | read a line, cd, jobs, exit, run in foreground or background, check finished jobs | `fork`, `wait(0)`, `waitpid(WNOHANG)` against children that finish at any moment |
| proj4 | `project4/proj4.cpp` | counters per part of the file | three ways to count strings in a file | mailboxes; workers answer in their own mailbox |
| interceptors | `project2/openclose.c`, `module.c`, `intercept.c` | the system call table, saved pointers | load, unload, intercepted calls | run concurrently with every process's system calls |
| process information | `new_sys_cs3013_syscall2` in `project2/intercept.c`; `test.c` and `testnull.c` call it | a `processinfo` record; the kernel's lists of tasks | walk over children and siblings, copy the record | reads, without a lock, lists that change when other tasks fork, exit and wait |

`project2/hello.c`, `project2/proj2test.c` and `project3/mailbox.h` have no behaviour
worth a model. `preproj2/sys.c` and `unistd_32.h` are files of the Linux kernel to
which three system calls were added; only these appear, as functions the
interceptors replace.

What is hard in this code, and what makes each part correct:

* **mailboxes**: two threads copying into or out of the same struct; a message
  lost, duplicated or overwritten; sender and receiver waiting for each other.
  The code is right if each call behaves as one indivisible step.
* **addem**: the split of the numbers for any maximum and any number of threads;
  `int` overflow; destroying semaphores that are in use. Right if the printed
  total is the sum.
* **life**: the matrices are read and written without any lock, so only the
  order of the messages keeps main and the workers apart; the home-made barrier
  reads its counter outside of the mutex and posts too often; main may stop at
  any generation. Right if the printed matrix is the game's, whatever the
  interleaving, and the program ends.
* **doit**: children finish between any two steps; `wait(0)` takes any of them;
  entries of the vector go stale; a pid can be used again. Right if no job is
  lost, foreground commands are waited for, and `exit` ends with no child left.
* **proj4**: strings that cross the boundary of a buffer or of two parts. Right if
  the three ways find the same strings.
* **interceptors**: calls dispatched between two assignments of a load or unload,
  modules loaded and unloaded in any order. Right if a call reaches the kernel's
  function and the table is as before in the end.
* **process information**: the lists change under the walk, their order is not
  the order of age, and the list head lies in the ring of the siblings. Right if
  an undisturbed walk names the right tasks, and a disturbed one stays in the
  lists of its caller and ends.

## Modules

| Module | Models | Notes |
|---|---|---|
| `Slots` | `sendMsg`/`recvMsg` as indivisible operations on one-message slots | the operators the programs are specified with |
| `Channel` | what a caller of the mailbox functions may rely on: call, take effect, return | abstract specification, built from `Slots` |
| `Mailbox` | the semaphore code, one action per `sem_wait`, `memcpy`, `sem_post` | shown to implement `Channel` |
| `MailboxProofs` | proofs about `Mailbox` | |
| `Addem`, `MCAddem` | `main` and `sumthread` of addem.cpp | `int` goes up to `INT_MAX` and wraps around |
| `AddemProofs` | proofs about `Addem` | |
| `Game` | the game of life without threads: one step per generation, the end at rest or at the limit | abstract specification |
| `Life`, `MCLife` | life.cpp: arguments, file, `main`, `linesthread`, the functions on the matrices | shown to implement `Game` |
| `LifeProofs` | proofs about `Life` | |
| `Proj4`, `MCProj4` | `main`, `regular_read`, `mmap_regular_read`, `mmap_read` and `sumthread` of proj4.cpp | a file is a function to BOOLEAN |
| `Proj4Proofs` | proofs about `Proj4` | |
| `Interceptor` | the loading and unloading code that openclose.c, module.c and intercept.c share, the new `open` and `close` | see below |
| `InterceptorProofs` | proofs about `Interceptor` | |
| `TaskLists` | what `intercept.c` uses of the kernel: the lists of children, changed by fork, the stages of exit, and wait | external |
| `ProcessInfo`, `MCProcessInfo` | `new_sys_cs3013_syscall2`, the programs `test.c` and `testnull.c`, any other tasks | composes with `TaskLists` |
| `ProcessInfoProofs` | proofs about `TaskLists` and `ProcessInfo` | |
| `Shell` | `shellMode`, `checkFinishedProcesses`, `commandExecution` | |
| `ShellProofs` | proofs about `Shell` | |
| `WellOrder` | least numbers, the size of sets: lemmas that the proof modules share | |

**How the programs use the mailboxes.** `Addem`, `Life` and `Proj4` take a `sendMsg` or
`recvMsg` as a single step (`SendMsg`, `RecvMsg` of `Slots`). That is justified by
the refinement `Mailbox => Channel`: a send takes effect at its `sem_post(sem_r)`
and a receive at its `sem_wait(sem_r)`.

**Addem.** `mpc` is main's place, `i` its loop index, `wpc[t]` the place of worker
`t` in `sumthread`. One iteration of a loop is one action. `RangeOf(t)` is the
message for worker `t`; the division rounds towards zero as in C. An addition in
`int` is `Wrap`. A worker's reply is there as soon as `sem_post` has counted it, but
the worker is then still inside of `sem_post` (`leaving`); it ends in a step of its
own (`EndThread`), and only that lets main's `pthread_join` return. `CleanEnd`, that no
worker is left when main destroys the semaphores, therefore depends on the join.

**Life.** The same conventions. `line[t]` is the inner loop index of a worker (the
line it computes, and later the index of the posting loop of the barrier). One
line of the matrix is one action; the cells of a line are not interleaved. The
matrices are `MAXGRID x MAXGRID` and `after` lies directly behind `before` in
memory (`nm` of the built program), which `beforeAt` uses for the reads one past
the end.

The input is the arguments and the file. A file is the sequence of lines that
`getline` returns, each the sequence of its numbers; after a last newline there is
an empty line, which the code relies on when it takes one off the count. A file
without a newline at its end loses its last line. `Readable` is the test of the
reading loop; it lets one line more through than `before` has, and `ReadFile`
stores that line where it lands in memory, in the first line of `after`.
`SetThreads` has the outcomes that the code has: too many threads, `crash`, or the
game. `crash` is a division by zero or, below zero threads, an array of negative size:
what main does after that is undefined (it may be ended, wait for ever, or skip its
loops and return), and the model stops there. Whether the key asked
for between generations is ever pressed is up to the user: `cin.get` is taken to
return. Printing is left out.

`TheGame` maps this to `Game`: the grid is the visible part of `before` while main
goes on and of `after` once it has stopped, the generation is `cGen`. Before the
file is read the grid is what the file describes, so that reading it is a
stuttering step: if lines are read wrongly the refinement fails. It is stated for
regular files: complete, and with fewer lines and columns than the matrices.

**Proj4.** Only whether a character is printable (or white space) matters, so a
file is a function from offsets to BOOLEAN. `Scan` is the loop over characters
that occurs three times in the code, with the counts it starts from; `ScanOn`
continues main's counts (one call per `read`, or one over the whole map), and
`Summary` is a worker's answer about its part. `MergePart` is the body of main's
merge loop. The reference, `Strings`, does not mention any loop: the maximal runs
of printable characters. Different from the other programs, a worker answers
into its own mailbox, and main joins all workers before it reads an answer. A `read`
returns any number of characters up to the size of the buffer, or fails
(`read_fails`, which ends the loop as the end of the file does). `cutShort` is a history
variable: a read returned less than it could have. A comment on `regular_read` says
"for some bizare reason, this function doesn't work, same syntax in the main works"
(`proj4.cpp:338-339`). `SequentialRight` says in which sense it works: as it stands in
the repository it finds every string, for every size of the buffer, as long as no
read is cut short, and the reads of a regular file are not. With short reads
(a pipe, a terminal) it is wrong, for the rest of the buffer is scanned too; but then
`fstat` gives no size either. What the comment speaks of may be an earlier state: the
buffer cleared after each read ("need to do this so that the ending does not have
trash") is the part without which it fails, as the mutant `regular_read_dirty` shows. Sizes
that do not fit in an `int` and files that change while mapped are left out. `way`,
`numberOfThreads` and `BUFSIZE` are what the second argument selects; `ArgsOK`
collects the tests of `main`.

**Interceptor.** `mpc[m]` is where kernel module `m` is in `interceptor_start` or
`interceptor_end`; each assignment to a pointer or a table entry is an action, and
processes dispatch calls in between. `mem` has two places: the table, and
`elsewhere`, the memory that `find_sys_call_table` takes for the table when the
entry of `close` is replaced (the saved pointer of openclose holds the address it
looks for). The two do not overlap, and the table comes first in memory. `NULL` stands
for a search that finds nothing: with 32 bits the test `offset < ULLONG_MAX`
(`openclose.c:29`) is always true, so that the search does not return `NULL` but goes on
until it reads memory that is not there; the module is not loaded in either case. The
kernel's part is external: `Insert` zeroes the variables of a module, `Remove`
frees its memory, and a process inside at that moment is `lost`. The kernel does
not preempt a module between switching the protection off and on (its
configuration is voluntary preemption), so `wp[m]` is the bit of the processor
that runs `m`.

**ProcessInfo.** A node of the kernel's circular lists is a number: `t` for the
`sibling` field of task `t`, `-t` for the head of the list of its children.
The kernel changes the lists under a lock, but the walk takes none, and sees them
between the changes. So `TaskLists` has a step for each operation on a list: a
fork appends (`list_add_tail`); an exit takes the lock (`BeginExit`), moves its children
to the end of init's list one at a time (`AdoptFirst`, `list_move_tail`) and gives the
lock back (`EndAdoption`); then the task becomes a zombie, or dead if its parent
ignores the signal (`NotifyParent`); a wait takes a zombie out, and a dead task takes
itself out, which links the node to itself (`ReleaseTask`, `list_del_init`). Only one
task holds the lock (`Unlocked`), and the walk may take any number of steps between
two of these. What is still one step is a single operation: the pointers that
`list_move_tail` writes, together with the parent of the child. The memory
of a task that was taken out is taken to stay readable while the walk stands on
it. Tasks are numbered in the order of their start, which is also their pid; the
start time is `2 * t`, so that other times fit in between.

`pc` is the loop the call is in and `head` the node it has reached; one iteration
is one step (`VisitChild`, `VisitSibling`), and other tasks take steps in between.
The loops over the siblings begin at the caller's own node, so the list head in
the parent is visited as if it were a task (`VisitHead`): what is read there as
start time and pid (`HeadTimes`, `HeadPids`) are other fields of the parent. The time is
signed where it is compared with the caller's and unsigned where it is compared with
the best so far (`Compare`, `Unsigned`), so a negative one counts as an older task that
is newer than all others.
`counted[t]` stands for the times of `t` that were added up. One call is in
progress at a time, for calls only read. `quiet` and `strays` are history
variables: no list has changed since the call began; the times read from heads.
The processes of `test.c` and `testnull.c` are `parent`, `child` and `grandchild`;
all others fork, wait, exit and make the call as they like.

**Shell.** `child[p]` is the kernel's view of process `p`: no child, running, or a
zombie that was not waited for. `Fork(p)` takes any pid that is free, so pids are
used again. The loop of `checkFinishedProcesses` is one action per entry, and
children may finish between the iterations. `background` is a history variable:
the children started in the background and not waited for. A line is one of the
kinds the code tells apart.

## Runs

| Run | Shows |
|---|---|
| `mailbox` | three threads on one mailbox, two messages: copies never overlap, the code implements `Channel`, a sender and a receiver that meet are not both stuck |
| `addem` | up to 3 workers, 8 maximum values, an `int` of 5 bits (`INT_MAX` is 15): ranges partition the numbers, no partial sum is lost at any moment, the total is right modulo 2^5, every thread has ended and nothing is left in a mailbox when the semaphores are destroyed, the program ends unless the maximum is `INT_MAX` |
| `life` | all 64 grids of 3 x 2 cells with two workers (and one grid with a cell of value 2), four grids with three workers, ten files of odd shapes, arguments out of range; two generations: `life` implements `Game`, main reads complete generations, prints the right result, never counts an ALLDONE too early, and ends except in one situation |
| `life_hang` (violation) | the game comes to rest in the last generation asked for: the program never ends |
| `life_full_lines` (violation) | a file with `MAXGRID` lines: the result is not the game's |
| `shell` | up to three children, both modes |
| `shell_exit` (violation) | `exit` never ends because of a stale entry |
| `proj4` | all files of up to 7 characters in every way with buffers of one to four characters and up to three workers, arguments out of range, all files of 10 characters with two: the buffer and the map find the strings of the file unless a read is cut short; the merge counts and measures strings over the boundaries rightly when no part is mistaken for a piece of a longer string; main merges answers only; the program ends |
| `interceptor` | three modules loaded and unloaded in any order, one process that calls: intercepted calls reach the kernel's functions, unloading reverts the table, a loaded module intercepts all its calls, openclose always finds the table |
| `processinfo` | a call while up to four tasks fork, exit, are adopted one by one and waited for: only children of the caller are reported or added up; without a change of the lists a child, the neighbours in age and the times of all children are reported; with changes the walk leaves the caller's list only where a node is linked to itself or an adoption is in progress, and returns unless its node was unlinked; the processes of `test.c` print each other |
| `processinfo_youngest` (violation) | with two children the one that started first is reported as the youngest, and the times of each are added twice |
| `proj4_merge` (violation) | a string made of two short whole parts is not counted |

One invariant of each passing run is the inductive invariant of the proofs (`Inv`, or
`FullInv` where it also speaks about the data); the type invariant `TypeOK` is its
first conjunct.

Every property of a passing run has a mutant: a plausible slip in the code,
defined next to the definition it would replace, that makes TLC report the
property violated.

**Bounds.** Mailboxes are independent of each other, so one is enough for the
interleavings; three threads give two senders and a receiver, or two receivers
and a sender. Five bits are enough for sums that fit (15) and two that do not
(21 and 28). Two workers on three lines have unequal shares; three workers are the
least for which the barrier can open with one worker still to check it and one
already waiting. Two generations are the least with a generation that is neither
the first nor followed by the barrier. In `Proj4` a buffer of at most three characters puts a boundary
inside of every string that counts, one of four at its end; seven characters are enough for three parts
of which the middle one is whole and lies between two strings, and ten the least
for two parts that are not whole and both count a piece of the same string.
Four tasks in `ProcessInfo` are init and
the three of `test.c`, or three siblings, the least with an older and a younger
one, also in the order that adoption gives. A list head reads as a time between those
of two tasks, or as a negative one; a time of 0 never wins a comparison.
`counted` stops at three (`Many`), one more than the loops add. One process is
enough in `Interceptor`, for processes only read what the modules write. Three pids allow a foreground child, a
finished job and a stale entry at the same time. No counter needs a cap: the
number of jobs is bounded by the number of pids, as `JobsCountChildren` shows.

**Fairness.** `WF` on each thread: the scheduler of the kernel runs every runnable
thread. `sem_wait` is not assumed to serve its callers in order, so `Channel`
promises progress per mailbox only. In `Shell`, the shell keeps executing the
line it has read and every command finishes (`WF` on `ChildExits`); the user need
not type anything. That commands finish is an assumption on the environment,
without which `wait(0)` has nothing to return. In `ProcessInfo` the call that has
begun keeps running, and so does an adoption, for the kernel holds the lock with
interrupts off meanwhile; nothing else is assumed of other tasks.

`CHECK_DEADLOCK FALSE` is set for every program because the programs end. That they end
in the right place is what the liveness properties say.

## What is proved

For every value of the constants that satisfies the assumptions stated in the
modules. Each component has one inductive invariant, which its run checks on the
small instance; the properties are proved from it.

* **Mailbox.** `Inv` is inductive: types, `OneToken`, `Contents`. Mutual exclusion
  alone is not inductive; what carries it is that the two counters and the owner
  of a mailbox share a single token (`sem_s[i] = 1`, or `sem_r[i] = 1`, or exactly
  one thread between its `sem_wait` and its `sem_post`). From it follow
  `MutualExclusionHolds` and, step by step, `MailboxImplementsChannel` (the safety
  part of the refinement). Assumption: `NoMsg` is not a message.
* **Shell.** `Inv` is inductive: types, `Control` (which command leads where),
  `JobsCountChildren`, `JobsKept`. The count is the interesting part: each fork
  adds a child, each check drops an entry together with a child, each `wait(0)`
  takes exactly one child, whichever. So the vector has the right length even
  when its entries are the wrong ones, `wait(0)` never fails for lack of
  children, and an empty vector means that no child is left (`ExitCloses`).
  `NoJobLost` and `ForegroundAloneHolds` follow. Assumption: finitely many pids.
* **Interceptor.** `Inv` relates the saved pointers, the entries of the table and
  the places of modules and processes: while an entry holds a module's function,
  or a process is in it, the module's saved pointer is the kernel's function. From
  it follow `ProcessesCallOn` (`CallsOn`), `TableReverted`, `LoadedIntercepts` and
  `FindsTheTable`, for any set of processes.
* **Addem.** `Inv` has the types (with every bound and sum inside of `int`), the place
  of main's loops, which worker is where (`Started`), what it was sent
  (`RangesKept`) and a count: the workers that have finished are the replies
  received plus the one that waits (`RepliesCounted`). `EndsClean` follows.
  `SumIsConserved` shows that the ranges make up `1 .. maxValue` for every maximum
  and number of threads: the sum up to the end of the k-th range is given by the
  formula for the sum of consecutive numbers; a step moves an amount from one of
  the three places to another, and wrapping around an intermediate sum does not
  change the total modulo the number of ints (`WrapAdd`). With `EndsClean`'s
  argument `TotalRight` follows: what is printed is the sum up to overflow. The only
  value left out of `SumConserved` is `INT_MAX`, where the loop never ends: the
  invariant has the last worker in its loop then, and `LargestNeverPrinted` concludes
  that main never gets past the collection of the replies. `Joined` in the invariant
  carries `EndsClean`: each `pthread_join` waits for the end of a thread.
* **Proj4.** `Inv` is about the exchange: which range or answer is in which mailbox.
  `MainMergesReplies` follows. `CountInv` is about the data: what main has counted
  is what a single loop over the characters read so far would count. The three
  facts behind it are that the loop counts a string at its fourth character, so
  that it can be cut at any buffer boundary; that a worker's answer describes its
  part (`PartOK`: first and last pieces, the strings in between); and that two
  neighbouring descriptions merge to the description of both parts. From it follow
  `SequentialCountsRight` (for reads that are not cut short), and `ThreadsCountRight` and `ThreadsLengthRight` under
  the conditions that the code needs and the run states too (`NoneTaken`,
  `TakenAreWhole`: a part taken for a piece of a longer string is one).
* **Life.** `Inv` has the rounds of main and the workers, and counts the messages: the
  GENDONE and ALLDONE messages sent are those collected plus those in the mailbox,
  and the barrier's counter is the number of workers that have passed it. From it
  follow `BarrierHolds` and `FindsExpectedMessages`. `FullInv` adds the data: the
  shares of the workers cover every line once, a line that is computed is that of
  the next generation (the neighbours that the code counts are mapped one to one to
  those of `Game`, with the border always dead), and `before` is not written while
  a worker reads it. From it follow `GenerationComplete`, `PrintsTheGame` and
  `Refinement`: main's decision to go on or to stop is a step of `Game`, all
  other steps are stutters. As in the run, files are regular.
* **ProcessInfo.** `Inv` has the kernel's lists (`Lists`: every task that has started
  and is not gone is in the list of its parent once, and nowhere else; a task past its
  adoption has no children; one task at a time holds the lock), the places where
  a walk can be (`AtChildren`, `AtSiblings`), the processes of `test.c`
  (`ForksOnce`) and what they print. Where a walk can be is the heart of it: at the
  head or at an entry of the caller's list, at an entry that was released, at the
  head of a parent that has lost its children, or in the other one of two lists that
  are being joined: while a parent hands over its children one by one, the walk and
  the caller can be on different sides (`NearSibling`, `SameList`). `StaysInOwnList` says
  that there is no other case: a walk in a ring without its end (`Stranded`) is at a
  node that is linked to itself, or its ring and the caller's are those of the task that
  exits and of init. In the second case the ring can be long; the walk goes round it
  until the adoption is over, which it is after finitely many steps of a task that holds
  the lock (`ReturnsUnlessLost`, model-checked). From it
  follow `StaysInOwnList` and `TestOutputRight`. It is also why only tasks that are or were the caller's
  children are ever added up or reported. `FullInv` adds `Walk`: as long as no
  list changes, the node reached after m steps is the m-th node of the ring from
  the loop's end, and what was found is right for the nodes passed so far. A walk
  comes to every node of a ring once before it is back (`Round`), in both
  directions; so at the end the nodes passed are all children, or all siblings and
  the list head. From it follow `ChildrenRight` and `SiblingsRight`. Assumptions: init
  does not ignore the end of its children, and what a list head reads as are signed
  numbers of the width of the times.
* **WellOrder.** A non-empty set of naturals has a least element, and what is built
  on it. The proofs about loops and sums over data use it in place of induction:
  there is no least place at which the statement fails.

Only model-checked: all liveness properties (the prover handles
neither fairness nor `ENABLED`): the ends of the programs, the progress of a
mailbox and of a walk, and the liveness part of the two refinements.

## Findings

* `life` hangs when the game comes to rest exactly in the last generation and
  there is more than one worker (`life.cpp:236-256`).
* The neighbour tests of `life` are off by one (`life.cpp:376-392`); at the size
  limit the program reads the other matrix or the next line.
* `doit` waits for any child where it means the foreground child; afterwards an
  entry is stale and `exit` never ends (`doit_processes.cpp:138`, `:101`).
* The record of `intercept.c` does not hold what its comments say: "process ID of youngest
  child" (`:13`) gets the child that started first (`:59`), and "user time of children"
  and "system time of children" (`:21-22`) are added up in both loops (`:56`, `:68`), so
  twice.
* The merge of `proj4` misses a string whose pieces are whole parts shorter than
  four characters (`proj4.cpp:231-246`); it also takes a part for whole when it
  only begins and ends with equally many printable characters.

Met while modelling, with no run of their own: `addem` never ends for `INT_MAX`, because
`value <= message.value2` is then always true for the last worker (`addem.cpp:50`; the
exception `Endless` of `Termination`, and the theorem `LargestNeverPrinted`); `doit` aborts on an empty line
(`doit_processes.cpp:86`); its `jobs` lists processes that have finished
(`:196`); `addem` prints a sum that does not fit in `int` modulo 2^32
(`addem.cpp:51`; what `TotalModuloInt` states is what does hold); a module loaded
after openclose patches memory that is not the table (`openclose.c:32`); a process
inside of openclose when it is removed goes on in freed memory (`openclose.c:22`).
With a finished background job, `wait(0)` returns while the foreground command is
still running (`doit_processes.cpp:138`); the stale entry of `shell_exit` is the
consequence. `life` loses the last line of a file without a newline at its end,
and crashes without threads or lines (`life.cpp:112`, `:174`). In `intercept.c`, a walk
whose node is taken out of the list never ends (`:54`, `:81`, the exception in
`ReturnsUnlessLost`); the list head can be reported as a sibling (`:82`, the
exception in `SiblingsReported`); and `EFAULT` is returned with a positive sign
(`:119`).

## Not modelled

The statistics of `doit` and the effect of `cd` (no property depends on them), the
parsing of a line into words (lines are of the kinds the code tells apart),
wording and printing everywhere, sizes over 2 GB in `proj4`, the
state, user and times in the record of `intercept.c`, two calls at the same time,
what happens in a process inside of a removed module, and the programs named
above without state.

## Plan

Done: 1. mailboxes and the refinement; 2. addem and life on top of them, life with
its input and the refinement of `Game`; 3. the shell; 4. proj4 with its arguments;
5. interceptor; 6. the process information call; 7. the safety properties of all
components are proved.

What is left needs more of the model: two calls of the process information system call
at the same time, and the single pointers written by an operation on a list.

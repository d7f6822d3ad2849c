-------------------------------- MODULE Life --------------------------------
(***************************************************************************)
(* project3/life.cpp: the game of life computed by worker threads that     *)
(* talk to the main thread through the mailboxes (module Slots).           *)
(*                                                                         *)
(* main hands every worker a range of lines, then for each generation      *)
(* sends GO to all workers, collects one message from each, and either     *)
(* stops them (nothing left to compute) or copies the matrix `after' to    *)
(* `before' and goes on.  A worker that has done all generations passes a  *)
(* barrier made of two semaphores and sends ALLDONE.                       *)
(*                                                                         *)
(* The inputs are the arguments and the file, as the lines that getline    *)
(* returns: a file that ends with a newline gives an empty last line.      *)
(***************************************************************************)
EXTENDS Integers, FiniteSetsExt, Sequences, Slots

CONSTANTS MAXGRID,    \* lines and columns of the two matrices
          MAXTHREAD,  \* most threads accepted
          NoFile,     \* the file cannot be opened
          Inputs      \* records: argc, threads, generations, rows

Cells == 0 .. MAXGRID - 1

\* Messages; fields the receiver never reads are left out.
RangeMsg(from, to) == [type |-> "RANGE", value1 |-> from, value2 |-> to]
GO      == [type |-> "GO"]
STOP    == [type |-> "STOP"]
GENDONE == [type |-> "GENDONE"]
ALLDONE == [type |-> "ALLDONE"]
Messages == {GO, STOP, GENDONE, ALLDONE}
            \cup [type : {"RANGE"}, value1 : Cells, value2 : Cells]

ASSUME LifeAssumption ==
    /\ NoMsg \notin Messages
    /\ MAXGRID \in Nat \ {0} /\ MAXTHREAD \in Nat \ {0}
    /\ \A in \in Inputs :
         /\ in.argc \in Nat /\ in.threads \in Int /\ in.generations \in Int
         /\ in.rows = NoFile \/ (in.rows \in Seq(Seq(Nat)) /\ in.rows # << >>)

Workers == 1 .. MAXTHREAD
parent_threadID == 0

VARIABLES mpc,             \* where main is
          i,               \* main's loop index over the workers
          cGen,            \* generations completed
          allDoneCounter,  \* ALLDONE messages received
          before, after,   \* the two matrices
          wpc,             \* where each worker is in linesthread
          lineFrom, lineTo,\* the worker's range
          gen,             \* the worker's generation
          line,            \* its inner loop index
          barrierCount,    \* workers that reached the barrier
          alldone_sem,     \* the semaphore the barrier waits on
          args,            \* the arguments and the file; never change
          lineSize, columnSize, \* lines and columns of the grid
          numberOfThreads  \* the number of workers

mainVars == <<mpc, i, cGen, allDoneCounter>>
inputVars == <<args, lineSize, columnSize, numberOfThreads>>
workVars == <<wpc, lineFrom, lineTo, gen, line>>
barrierVars == <<barrierCount, alldone_sem>>
numberOfGenerations == args.generations
vars == <<mainVars, before, after, workVars, barrierVars, box, inputVars>>

-----------------------------------------------------------------------------
(* The matrices.  Both are MAXGRID x MAXGRID globals, zero at first; the   *)
(* linker places `after' directly behind `before'.                         *)
Zeroes == [l \in Cells |-> [c \in Cells |-> 0]]

Lines == 0 .. lineSize - 1
Columns == 0 .. columnSize - 1

\* The part of a matrix that the program prints and compares.
Visible(m) == [l \in Lines |-> [c \in Columns |-> m[l][c]]]

\* The C expression before[l][c]: one step past a full line is the start of
\* the next line, and past the last line the first line of `after'.
beforeAt(l, c) ==
    LET a == l * MAXGRID + c
        b == a - MAXGRID * MAXGRID
    IN  IF b < 0 THEN before[a \div MAXGRID][a % MAXGRID]
                 ELSE after[b \div MAXGRID][b % MAXGRID]

\* The upper bounds of the code are inclusive: line+1 <= lineSize and
\* column+1 <= columnSize.
getNumberOfNeighbors(l, c) ==
    Cardinality({d \in (-1 .. 1) \X (-1 .. 1) :
        /\ d # <<0, 0>>
        /\ l + d[1] \in 0 .. lineSize
        /\ c + d[2] \in 0 .. columnSize
        /\ beforeAt(l + d[1], c + d[2]) # 0})

NewCell(l, c) ==
    LET numNeighbors == getNumberOfNeighbors(l, c)
    IN  IF numNeighbors <= 1 \/ numNeighbors >= 4 THEN 0
        ELSE IF numNeighbors = 3 \/ before[l][c] # 0 THEN 1
        ELSE before[l][c]

isAllZero == \A l \in Lines, c \in Columns : after[l][c] = 0
hasNotChanged == \A l \in Lines, c \in Columns : before[l][c] = after[l][c]

updateMatrix ==
    before' = [l \in Cells |-> [c \in Cells |->
        IF l \in Lines /\ c \in Columns THEN after[l][c] ELSE before[l][c]]]
-----------------------------------------------------------------------------
Init ==
    /\ args \in Inputs
    /\ lineSize = 0 /\ columnSize = 0 /\ numberOfThreads = 0
    /\ before = Zeroes /\ after = Zeroes
    /\ box = [b \in 0 .. MAXTHREAD |-> NoMsg]
    /\ mpc = "args" /\ i = 1 /\ cGen = 0 /\ allDoneCounter = 0
    /\ wpc = [t \in Workers |-> "none"]
    /\ lineFrom = [t \in Workers |-> 0] /\ lineTo = [t \in Workers |-> 0]
    /\ gen = [t \in Workers |-> 0] /\ line = [t \in Workers |-> 0]
    /\ barrierCount = 0 /\ alldone_sem = 0

\* The process has not been ended by exit(1) or by main's return.
Running == mpc \notin {"exit", "crash", "done"}

\* One iteration of a loop of main over the workers 1 .. numberOfThreads.
Loop(at, next) ==
    /\ mpc = at
    /\ IF i < numberOfThreads
          THEN i' = i + 1 /\ UNCHANGED mpc
          ELSE i' = 1 /\ mpc' = next
-----------------------------------------------------------------------------
(* main: the arguments and the file *)

\* main goes on at `to', or returns, or is ended, without having started a thread.
Continue(from, to) ==
    /\ mpc = from /\ mpc' = to
    /\ UNCHANGED <<i, cGen, allDoneCounter, workVars, barrierVars, box, args>>

CheckArgs ==
    /\ Continue("args", IF args.argc \in 4 .. 6 /\ args.generations > 0 THEN "file" ELSE "exit")
    /\ UNCHANGED <<before, after, lineSize, columnSize, numberOfThreads>>

\* Mutant of Readable: the lines are counted from one.
ReadableOneMore(rows) ==
    /\ rows # NoFile
    /\ Len(rows) - 2 <= MAXGRID
    /\ \A l \in DOMAIN rows : Len(rows[l]) <= MAXGRID

\* Line number MAXGRID, one too many, is still let through.  A file that cannot
\* be opened never reaches its end.
Readable(rows) ==
    /\ rows # NoFile
    /\ Len(rows) - 1 <= MAXGRID
    /\ \A l \in DOMAIN rows : Len(rows[l]) <= MAXGRID

RejectFile ==
    /\ ~Readable(args.rows)
    /\ Continue("file", "exit")
    /\ UNCHANGED <<before, after, lineSize, columnSize, numberOfThreads>>

\* A line of a matrix after the numbers of row were stored in it.
Stored(row, old) == [c \in Cells |-> IF c < Len(row) THEN row[c + 1] ELSE old[c]]

\* Mutant of ReadFile: the widths of the lines are not kept.
ReadFileLastWidth ==
    LET rows == args.rows
    IN  /\ Readable(rows)
        /\ Continue("file", "threads")
        /\ before' = [l \in Cells |-> IF l < Len(rows) THEN Stored(rows[l + 1], before[l])
                                      ELSE before[l]]
        /\ after' = [after EXCEPT ![0] = IF Len(rows) > MAXGRID
                                            THEN Stored(rows[MAXGRID + 1], @) ELSE @]
        /\ lineSize' = Len(rows) - 1
        /\ columnSize' = Len(rows[1])
        /\ UNCHANGED numberOfThreads

\* The last line is not counted.  One line more than `before' has is stored in
\* the first line of `after'.
ReadFile ==
    LET rows == args.rows
    IN  /\ Readable(rows)
        /\ Continue("file", "threads")
        /\ before' = [l \in Cells |-> IF l < Len(rows) THEN Stored(rows[l + 1], before[l])
                                      ELSE before[l]]
        /\ after' = [after EXCEPT ![0] = IF Len(rows) > MAXGRID
                                            THEN Stored(rows[MAXGRID + 1], @) ELSE @]
        /\ lineSize' = Len(rows) - 1
        /\ columnSize' = Max({Len(rows[l]) : l \in DOMAIN rows})
        /\ UNCHANGED numberOfThreads

\* More workers than lines are never used.  Without any, the division for the
\* ranges ends the process.  Below zero the size of an array is negative and what main
\* does is undefined: it may be ended, wait for ever, or skip its loops and return.
\* The model does not follow it into any of these; crash stands for all.
SetThreads ==
    LET n == IF args.threads > lineSize THEN lineSize ELSE args.threads
    IN  /\ Continue("threads", IF args.threads > MAXTHREAD THEN "exit"
                               ELSE IF n <= 0 THEN "crash" ELSE "create")
        /\ numberOfThreads' = n
        /\ UNCHANGED <<before, after, lineSize, columnSize>>
-----------------------------------------------------------------------------
(* main: the game *)
CreateThread ==
    /\ Loop("create", "range")
    /\ wpc' = [wpc EXCEPT ![i] = "range"]
    /\ UNCHANGED <<cGen, allDoneCounter, before, after, lineFrom, lineTo, gen,
                   line, barrierVars, box, inputVars>>

CreateThreadFails ==
    /\ mpc = "create" /\ mpc' = "exit"
    /\ UNCHANGED <<i, cGen, allDoneCounter, before, after, workVars, barrierVars,
                   box, inputVars>>

\* The lines of worker t: an equal share each, the rest to the last worker.
RangeOf(t) ==
    LET range == lineSize \div numberOfThreads
    IN  IF t < numberOfThreads THEN RangeMsg((t - 1) * range, t * range - 1)
                               ELSE RangeMsg((t - 1) * range, lineSize - 1)

\* Mutant of SendRange: the last worker, served after the loop, is forgotten.
SendRangeNotLast ==
    /\ mpc = "range"
    /\ IF i < numberOfThreads - 1
          THEN i' = i + 1 /\ UNCHANGED mpc
          ELSE i' = 1 /\ mpc' = "go"
    /\ SendMsg(i, RangeOf(i))
    /\ UNCHANGED <<cGen, allDoneCounter, before, after, workVars, barrierVars, inputVars>>

SendRange ==
    /\ Loop("range", "go")
    /\ SendMsg(i, RangeOf(i))
    /\ UNCHANGED <<cGen, allDoneCounter, before, after, workVars, barrierVars, inputVars>>

SendGo ==
    /\ Loop("go", "recv")
    /\ SendMsg(i, GO)
    /\ UNCHANGED <<cGen, allDoneCounter, before, after, workVars, barrierVars, inputVars>>

\* Mutant of RecvDone: main does not wait for the last worker.
RecvDoneOneShort ==
    /\ mpc = "recv"
    /\ IF i < numberOfThreads - 1
          THEN i' = i + 1 /\ UNCHANGED mpc
          ELSE i' = 1 /\ mpc' = "decide"
    /\ RecvMsg(parent_threadID)
    /\ allDoneCounter' = IF Received(parent_threadID).type = "ALLDONE"
                            THEN allDoneCounter + 1 ELSE allDoneCounter
    /\ UNCHANGED <<cGen, before, after, workVars, barrierVars, inputVars>>

\* GENDONE is only counted in a variable nobody reads; any other type than
\* GENDONE and ALLDONE is reported on the screen and ignored.
RecvDone ==
    /\ Loop("recv", "decide")
    /\ RecvMsg(parent_threadID)
    /\ allDoneCounter' = IF Received(parent_threadID).type = "ALLDONE"
                            THEN allDoneCounter + 1 ELSE allDoneCounter
    /\ UNCHANGED <<cGen, before, after, workVars, barrierVars, inputVars>>

AllFinished ==
    /\ mpc = "decide" /\ allDoneCounter = numberOfThreads
    /\ mpc' = "join"
    /\ UNCHANGED <<i, cGen, allDoneCounter, before, after, workVars, barrierVars,
                   box, inputVars>>

\* Mutant of StopGame: the generation is counted only when the game goes on.
StopGameUncounted ==
    /\ mpc = "decide" /\ allDoneCounter # numberOfThreads
    /\ isAllZero \/ hasNotChanged
    /\ mpc' = "stop"
    /\ UNCHANGED <<i, cGen, allDoneCounter, before, after, workVars, barrierVars, box, inputVars>>

StopGame ==
    /\ mpc = "decide" /\ allDoneCounter # numberOfThreads
    /\ isAllZero \/ hasNotChanged
    /\ cGen' = cGen + 1
    /\ mpc' = "stop"
    /\ UNCHANGED <<i, allDoneCounter, before, after, workVars, barrierVars, box, inputVars>>

NextGeneration ==
    /\ mpc = "decide" /\ allDoneCounter # numberOfThreads
    /\ ~(isAllZero \/ hasNotChanged)
    /\ cGen' = cGen + 1
    /\ updateMatrix
    /\ mpc' = "go"
    /\ UNCHANGED <<i, allDoneCounter, after, workVars, barrierVars, box, inputVars>>

SendStop ==
    /\ Loop("stop", "join")
    /\ SendMsg(i, STOP)
    /\ UNCHANGED <<cGen, allDoneCounter, before, after, workVars, barrierVars, inputVars>>

\* main has printed the number of generations and `after', and waits for the
\* workers to finish.
JoinThread ==
    /\ Loop("join", "done")
    /\ wpc[i] = "finished"
    /\ UNCHANGED <<cGen, allDoneCounter, before, after, workVars, barrierVars, box, inputVars>>

Main ==
    \/ CheckArgs \/ RejectFile \/ ReadFile \/ SetThreads
    \/ CreateThread \/ CreateThreadFails \/ SendRange \/ SendGo \/ RecvDone
    \/ AllFinished \/ StopGame \/ NextGeneration \/ SendStop \/ JoinThread
-----------------------------------------------------------------------------
(* linesthread *)
Goto(t, from, to) ==
    /\ Running
    /\ wpc[t] = from
    /\ wpc' = [wpc EXCEPT ![t] = to]

\* Both receiving steps end the whole process on a message of the wrong type.
ExpectOrExit(t, types) ==
    mpc' = IF Received(t).type \in types THEN mpc ELSE "exit"

RecvRange(t) ==
    /\ Goto(t, "range", "go")
    /\ RecvMsg(t)
    /\ ExpectOrExit(t, {"RANGE"})
    /\ lineFrom' = [lineFrom EXCEPT ![t] = Received(t).value1]
    /\ lineTo' = [lineTo EXCEPT ![t] = Received(t).value2]
    /\ gen' = [gen EXCEPT ![t] = 1]
    /\ UNCHANGED <<i, cGen, allDoneCounter, before, after, line, barrierVars, inputVars>>

RecvGo(t) ==
    /\ RecvMsg(t)
    /\ Goto(t, "go", IF Received(t).type = "STOP" THEN "finished" ELSE "compute")
    /\ ExpectOrExit(t, {"GO", "STOP"})
    /\ line' = [line EXCEPT ![t] = lineFrom[t]]
    /\ UNCHANGED <<i, cGen, allDoneCounter, before, after, lineFrom, lineTo, gen,
                   barrierVars, inputVars>>

ComputeLine(t) ==
    /\ Goto(t, "compute", IF line[t] < lineTo[t] THEN "compute" ELSE "gendone")
    /\ after' = [after EXCEPT ![line[t]] =
                   [c \in Cells |-> IF c \in Columns THEN NewCell(line[t], c) ELSE @[c]]]
    /\ line' = [line EXCEPT ![t] = @ + 1]
    /\ UNCHANGED <<mainVars, before, lineFrom, lineTo, gen, barrierVars, box, inputVars>>

SendGenDone(t) ==
    /\ Goto(t, "gendone", IF gen[t] < numberOfGenerations THEN "go" ELSE "barrier")
    /\ SendMsg(parent_threadID, GENDONE)
    /\ gen' = [gen EXCEPT ![t] = @ + 1]
    /\ UNCHANGED <<mainVars, before, after, lineFrom, lineTo, line, barrierVars, inputVars>>

\* gendone_sem is a mutex around this single increment.
EnterBarrier(t) ==
    /\ Goto(t, "barrier", "check")
    /\ barrierCount' = barrierCount + 1
    /\ UNCHANGED <<mainVars, before, after, lineFrom, lineTo, gen, line, alldone_sem,
                   box, inputVars>>

\* Mutant of CheckBarrier: the first worker to arrive opens the barrier.
CheckBarrierFirst(t) ==
    /\ Goto(t, "check", IF barrierCount >= 1 THEN "post" ELSE "wait")
    /\ line' = [line EXCEPT ![t] = 0]
    /\ UNCHANGED <<mainVars, before, after, lineFrom, lineTo, gen, barrierVars, box, inputVars>>

\* barrierCount is read after the mutex was released: it may have moved on, and
\* several workers may see the final value.
CheckBarrier(t) ==
    /\ Goto(t, "check", IF barrierCount = numberOfThreads THEN "post" ELSE "wait")
    /\ line' = [line EXCEPT ![t] = 0]
    /\ UNCHANGED <<mainVars, before, after, lineFrom, lineTo, gen, barrierVars, box, inputVars>>

\* Mutant of PostBarrier: the loop is missing.
PostBarrierOnce(t) ==
    /\ Goto(t, "post", "wait")
    /\ alldone_sem' = alldone_sem + 1
    /\ line' = [line EXCEPT ![t] = @ + 1]
    /\ UNCHANGED <<mainVars, before, after, lineFrom, lineTo, gen, barrierCount, box, inputVars>>

\* for(i = 0; i <= numberOfThreadsGlobal; ++i) sem_post(&alldone_sem)
PostBarrier(t) ==
    /\ Goto(t, "post", IF line[t] < numberOfThreads THEN "post" ELSE "wait")
    /\ alldone_sem' = alldone_sem + 1
    /\ line' = [line EXCEPT ![t] = @ + 1]
    /\ UNCHANGED <<mainVars, before, after, lineFrom, lineTo, gen, barrierCount, box, inputVars>>

LeaveBarrier(t) ==
    /\ Goto(t, "wait", "alldone")
    /\ alldone_sem > 0
    /\ alldone_sem' = alldone_sem - 1
    /\ UNCHANGED <<mainVars, before, after, lineFrom, lineTo, gen, line, barrierCount,
                   box, inputVars>>

SendAllDone(t) ==
    /\ Goto(t, "alldone", "finished")
    /\ SendMsg(parent_threadID, ALLDONE)
    /\ UNCHANGED <<mainVars, before, after, lineFrom, lineTo, gen, line, barrierVars, inputVars>>

Worker(t) ==
    \/ RecvRange(t) \/ RecvGo(t) \/ ComputeLine(t) \/ SendGenDone(t)
    \/ EnterBarrier(t) \/ CheckBarrier(t) \/ PostBarrier(t) \/ LeaveBarrier(t)
    \/ SendAllDone(t)

Next == Main \/ \E t \in Workers : Worker(t)

Spec == Init /\ [][Next]_vars

\* Every thread keeps running; a thread waiting in sem_wait is served once the
\* semaphore stays positive.
FairSpec == Spec /\ WF_vars(Main) /\ \A t \in Workers : WF_vars(Worker(t))
-----------------------------------------------------------------------------
MainPCs == {"args", "file", "threads", "create", "range", "go", "recv", "decide", "stop",
            "join", "done", "exit", "crash"}
WorkerPCs == {"none", "range", "go", "compute", "gendone", "barrier", "check", "post",
              "wait", "alldone", "finished"}
Matrices == [Cells -> [Cells -> Nat]]

TypeOK ==
    /\ args \in Inputs /\ numberOfThreads \in Int
    /\ lineSize \in 0 .. MAXGRID /\ columnSize \in 0 .. MAXGRID
    /\ before \in Matrices /\ after \in Matrices
    /\ box \in [0 .. MAXTHREAD -> Messages \cup {NoMsg}]
    /\ mpc \in MainPCs /\ i \in Workers
    /\ cGen \in Nat /\ allDoneCounter \in Nat
    /\ wpc \in [Workers -> WorkerPCs]
    /\ lineFrom \in [Workers -> Cells] /\ lineTo \in [Workers -> Cells]
    /\ gen \in [Workers -> Nat] /\ line \in [Workers -> Nat]
    /\ barrierCount \in Nat /\ alldone_sem \in Nat
-----------------------------------------------------------------------------
(* Reference: the game (module Game) on the lines of the file.             *)

\* The file ends with a newline, as the README asks for.
Complete == args.rows # NoFile /\ args.rows[Len(args.rows)] = << >>

\* The grid that the lines of a complete file describe.
Width == Max({Len(args.rows[l]) : l \in DOMAIN args.rows})
input ==
    [l \in 0 .. Len(args.rows) - 2 |-> [c \in 0 .. Width - 1 |->
        IF c < Len(args.rows[l + 1]) THEN args.rows[l + 1][c + 1] ELSE 0]]

\* Complete, and smaller than the matrices.
Regular == Complete /\ Len(args.rows) - 1 < MAXGRID /\ Width < MAXGRID

\* The game Life plays: until main has decided to stop, its grid is in `before'.
\* Nothing is promised for a file that is not regular.
Playing == mpc \notin {"args", "file", "exit", "crash"}
Stopped == mpc \in {"stop", "join", "done"}
TheGame ==
    INSTANCE Game WITH
        grid <- IF ~Regular THEN << >> ELSE IF ~Playing THEN input
                ELSE IF Stopped THEN Visible(after) ELSE Visible(before),
        generation <- IF Regular THEN cGen ELSE 0,
        ended <- Regular /\ Stopped,
        limit <- numberOfGenerations

\* life plays the game: each generation of main is one step of it, complete and
\* computed from the one before, and main stops where the game ends, however
\* the threads interleave.
ImplementsGame == TheGame!Spec

\* Generation k of the game that starts with g.
Generation(g, k) ==
    LET G[n \in 0 .. k] == IF n = 0 THEN g ELSE TheGame!Evolve(G[n - 1]) IN G[k]

\* When main looks at the matrices (isAllZero, hasNotChanged, updateMatrix) no
\* worker is still computing, and `after' is all of the generation that follows
\* `before'.
CompleteGeneration ==
    mpc = "decide" /\ allDoneCounter # numberOfThreads =>
        /\ \A t \in Workers : wpc[t] \notin {"compute", "gendone"}
        /\ Regular => Visible(after) = TheGame!Evolve(Visible(before))

\* The printed matrix is what playing all generations that were asked for gives,
\* also when main stops early.
ResultRight ==
    mpc \in {"join", "done"} => Visible(after) = Generation(input, numberOfGenerations)
FinalResult == Regular => ResultRight

\* The same for every file that the README describes and the program accepts:
\* as many lines and columns as the matrices have.
FinalResultAtLimit == Complete => ResultRight

\* The barrier of linesthread: "no ALLDONEs before GENDONEs".  No ALLDONE is
\* sent while a worker has a GENDONE to send, and main counts none before it
\* has collected every GENDONE of the last generation.
AllDoneAfterGenDone ==
    /\ box[parent_threadID] = ALLDONE =>
          \A t \in 1 .. numberOfThreads : gen[t] = numberOfGenerations + 1
    /\ allDoneCounter > 0 => cGen = numberOfGenerations

\* Every thread finds the type of message it waits for: the branches that print
\* an error or call exit(1) are never taken.
ExpectedMessages ==
    /\ box[parent_threadID] \in {GENDONE, ALLDONE, NoMsg}
    /\ \A t \in Workers : box[t] # NoMsg =>
          /\ wpc[t] \in {"none", "range"} => box[t].type = "RANGE"
          /\ wpc[t] = "go" => box[t] \in {GO, STOP}

\* The program ends: main joins every worker and returns, or exit(1) is called.
Termination == <>(mpc \in {"done", "exit", "crash"})

\* The one situation in which it does not: two or more workers, and main found
\* nothing left to compute just after the last generation.  The workers no
\* longer read the STOP they are sent, and all but one of them wait for ever to
\* hand their ALLDONE to a main that has stopped receiving.
StoppedTooLate ==
    /\ mpc = "join" /\ numberOfThreads > 1
    /\ cGen = numberOfGenerations /\ allDoneCounter = 0
TerminationUnlessStoppedTooLate == <>(mpc \in {"done", "exit", "crash"} \/ StoppedTooLate)
-----------------------------------------------------------------------------
(* The inductive invariant: how far main and the workers are, what is in    *)
(* the mailboxes, and which lines of `after' are computed.                  *)
Control ==
    /\ mpc \notin {"args", "exit"} => numberOfGenerations > 0
    /\ mpc \in {"args", "file", "threads", "decide"} => i = 1
    /\ mpc \notin {"args", "file", "exit"} => Readable(args.rows)
    /\ mpc \notin {"args", "file", "threads", "exit", "crash"} =>
          numberOfThreads \in Workers /\ numberOfThreads <= lineSize /\ i <= numberOfThreads
    /\ mpc \in {"args", "file", "threads", "create", "exit", "crash"} =>
          box = [b \in 0 .. MAXTHREAD |-> NoMsg]

\* Messages main has collected in this round.
Collected == IF mpc = "recv" THEN i - 1 ELSE IF mpc = "decide" THEN numberOfThreads ELSE 0

\* The rounds: one for each generation, and one for the ALLDONEs.
Rounds ==
    IF mpc \in {"go", "recv", "decide"}
       THEN /\ cGen \in 0 .. numberOfGenerations
            /\ allDoneCounter = IF cGen < numberOfGenerations THEN 0 ELSE Collected
    ELSE IF Stopped
       THEN /\ cGen \in 1 .. numberOfGenerations
            /\ \/ allDoneCounter = 0
               \/ /\ allDoneCounter = numberOfThreads /\ cGen = numberOfGenerations
                  /\ mpc # "stop"
    ELSE cGen = 0 /\ allDoneCounter = 0

\* main has created worker t, sent it its range, and this round's GO or STOP.
Past(t, at, later) == \/ mpc = at /\ t < i
                      \/ mpc \in later /\ t <= numberOfThreads
Created(t) == Past(t, "create", {"range", "go", "recv", "decide", "stop", "join", "done"})
RangeSent(t) == Past(t, "range", {"go", "recv", "decide", "stop", "join", "done"})
GoSent(t) == Past(t, "go", {"recv", "decide"} \cup
                           IF allDoneCounter > 0 THEN {"join", "done"} ELSE {})
StopSent(t) == Past(t, "stop", IF allDoneCounter > 0 THEN {} ELSE {"join", "done"})

\* Worker t has not yet read, and may never read, what main sent in this round.
Unread(t) == /\ gen[t] = cGen + 1 /\ wpc[t] \notin {"compute", "gendone"}
             /\ wpc[t] = "finished" => gen[t] = numberOfGenerations + 1

\* A worker that has its range has computed as many generations as main has
\* collected, or one more.
PlayerState(t) ==
    /\ RangeSent(t)
    /\ lineFrom[t] = RangeOf(t).value1 /\ lineTo[t] = RangeOf(t).value2
    /\ gen[t] \in 1 .. numberOfGenerations + 1
    /\ gen[t] = cGen + 1 \/ (gen[t] = cGen + 2 /\ GoSent(t))
    /\ wpc[t] \in {"go", "compute", "gendone"} => gen[t] <= numberOfGenerations
    /\ wpc[t] \in {"compute", "gendone"} => gen[t] = cGen + 1 /\ GoSent(t)
    /\ wpc[t] = "compute" => line[t] \in lineFrom[t] .. lineTo[t]
    /\ wpc[t] \in {"barrier", "check", "post", "wait", "alldone"} =>
          gen[t] = numberOfGenerations + 1
    /\ wpc[t] = "finished" => gen[t] = numberOfGenerations + 1 \/ StopSent(t)
    /\ box[t] = IF Unread(t) /\ GoSent(t) THEN GO
                ELSE IF Unread(t) /\ StopSent(t) THEN STOP ELSE NoMsg

WorkerState(t) ==
    /\ wpc[t] = "none" <=> ~Created(t)
    /\ wpc[t] = "none" => box[t] = NoMsg
    /\ wpc[t] \in {"none", "range"} => gen[t] = 0
    /\ wpc[t] = "range" =>
          /\ mpc \in {"create", "range", "go"} /\ cGen = 0 /\ ~GoSent(t)
          /\ box[t] = IF RangeSent(t) THEN RangeOf(t) ELSE NoMsg
    /\ wpc[t] \notin {"none", "range"} => PlayerState(t)

\* Workers that have sent this round's GENDONE, that have arrived at the barrier, and
\* that have sent ALLDONE.
Answered == {t \in Workers : gen[t] = cGen + 2}
AllDoneSent == {t \in Workers : wpc[t] = "finished" /\ gen[t] = numberOfGenerations + 1}
Arrived == AllDoneSent \cup {t \in Workers : wpc[t] \in {"check", "post", "wait", "alldone"}}

\* Every message sent to main was collected or is in its mailbox.
AnswersCounted ==
    /\ box[parent_threadID] \in {GENDONE, ALLDONE, NoMsg}
    /\ box[parent_threadID] = GENDONE =>
          mpc \in {"go", "recv", "decide"} /\ cGen < numberOfGenerations
    /\ mpc \in {"go", "recv", "decide"} /\ cGen < numberOfGenerations =>
          Cardinality(Answered) =
              Collected + IF box[parent_threadID] = GENDONE THEN 1 ELSE 0
    /\ Cardinality(AllDoneSent) =
          allDoneCounter + IF box[parent_threadID] = ALLDONE THEN 1 ELSE 0

\* Nobody passes the barrier before everybody has arrived.
Barrier ==
    /\ barrierCount = Cardinality(Arrived)
    /\ \/ alldone_sem > 0 \/ AllDoneSent # {}
       \/ \E t \in Workers : wpc[t] \in {"post", "alldone"}
       => barrierCount = numberOfThreads /\ barrierCount > 0

Protocol ==
    mpc \notin {"exit", "crash"} =>
        (\A t \in Workers : WorkerState(t)) /\ AnswersCounted /\ Barrier

\* Lines of its part that worker t has computed in this round.
Computed(t) == IF gen[t] = cGen + 2 \/ wpc[t] = "gendone" THEN lineFrom[t] .. lineTo[t]
               ELSE IF wpc[t] = "compute" THEN lineFrom[t] .. line[t] - 1
               ELSE {}

\* The matrices hold the generation main has reached, and parts of the next one.
GamePlayed ==
    Regular /\ Playing =>
        /\ \A l, c \in Cells : l \notin Lines \/ c \notin Columns => before[l][c] = 0
        /\ ~Stopped => Visible(before) = Generation(input, cGen)
        /\ mpc \in {"go", "recv", "decide"} /\ cGen < numberOfGenerations =>
              \A t \in Workers : \A l \in Computed(t) : \A c \in Columns :
                  after[l][c] = TheGame!Evolve(Visible(before))[l][c]
        /\ ~Stopped /\ cGen = numberOfGenerations => Visible(after) = Visible(before)
        /\ Stopped => Visible(after) = Generation(input, numberOfGenerations)

\* Sizes of the grid, as soon as the file is read.
Sizes ==
    /\ mpc \in {"args", "file"} => before = Zeroes
    /\ mpc \notin {"args", "file", "exit"} => lineSize = Len(args.rows) - 1 /\ columnSize = Width

Inv == TypeOK /\ Control /\ Rounds /\ Protocol
GridInv == Sizes /\ GamePlayed

\* main and the workers follow the protocol of rounds, and the matrices hold the game.
FullInv == Inv /\ GridInv
=============================================================================

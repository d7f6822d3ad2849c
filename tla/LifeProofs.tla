----------------------------- MODULE LifeProofs -----------------------------
(***************************************************************************)
(* Proofs about the game of life, for any size of the matrices, number of  *)
(* threads and file.  First the protocol of main and the workers, then     *)
(* what they compute.                                                      *)
(***************************************************************************)
EXTENDS Life, FiniteSetTheorems, WellOrder

\* The arguments and the file are one of the inputs.
LEMMA ArgsFacts ==
  ASSUME TypeOK
  PROVE  /\ MAXGRID \in Nat \ {0} /\ MAXTHREAD \in Nat \ {0}
         /\ args.threads \in Int /\ numberOfGenerations \in Int
         /\ args.rows = NoFile \/ (args.rows \in Seq(Seq(Nat)) /\ args.rows # << >>)
         /\ lineSize \in Nat /\ lineSize <= MAXGRID /\ numberOfThreads \in Int
         /\ i \in Int /\ 1 <= i /\ i <= MAXTHREAD
         /\ \A t \in Workers : t \in Int /\ 1 <= t /\ t <= MAXTHREAD /\ t \in 0 .. MAXTHREAD
         /\ 0 \in 0 .. MAXTHREAD /\ 0 \notin Workers
  BY LifeAssumption DEF TypeOK, Workers, numberOfGenerations

\* The widest line of a file that fits.
LEMMA WidthType ==
  ASSUME NEW rows \in Seq(Seq(Nat)), rows # << >>, MAXGRID \in Nat,
         \A l \in DOMAIN rows : Len(rows[l]) <= MAXGRID
  PROVE  /\ Max({Len(rows[l]) : l \in DOMAIN rows}) \in 0 .. MAXGRID
         /\ \A l \in DOMAIN rows : Len(rows[l]) <= Max({Len(rows[l2]) : l2 \in DOMAIN rows})
  <1> DEFINE T == {Len(rows[l]) : l \in DOMAIN rows}
  <1>1. \A l \in DOMAIN rows : rows[l] \in Seq(Nat) /\ Len(rows[l]) \in Nat
    OBVIOUS
  <1>2. 1 \in DOMAIN rows
    OBVIOUS
  <1>3. T \in SUBSET Int /\ T # {} /\ \A x \in T : x \in Nat /\ x <= MAXGRID
    <2>1. ASSUME NEW x \in T PROVE x \in Nat /\ x <= MAXGRID
      <3>1. PICK l \in DOMAIN rows : x = Len(rows[l])
        OBVIOUS
      <3> QED
        BY <1>1, <3>1
    <2>2. Len(rows[1]) \in T
      BY <1>2
    <2> HIDE DEF T
    <2>3. T \in SUBSET Int
      BY <2>1
    <2> QED
      BY <2>1, <2>2, <2>3
  <1>4. \A l \in DOMAIN rows : Len(rows[l]) \in T
    OBVIOUS
  <1>5. MAXGRID \in Int
    OBVIOUS
  <1> HIDE DEF T
  <1>6. Max(T) \in T /\ \A y \in T : Max(T) >= y
    BY <1>3, <1>5, MaxInt
  <1>7. Max(T) \in 0 .. MAXGRID
    <2>1. Max(T) \in Nat /\ Max(T) <= MAXGRID
      BY <1>3, <1>6
    <2> QED
      BY <2>1
  <1>8. \A l \in DOMAIN rows : Len(rows[l]) <= Max(T)
    BY <1>1, <1>3, <1>4, <1>6
  <1> QED
    BY <1>7, <1>8 DEF T

\* The share of each worker is a nonempty part of the grid.
LEMMA RangeType ==
  ASSUME MAXGRID \in Nat, lineSize \in Nat, lineSize <= MAXGRID,
         numberOfThreads \in Nat \ {0}, numberOfThreads <= lineSize,
         NEW t \in 1 .. numberOfThreads
  PROVE  /\ RangeOf(t) \in Messages /\ RangeOf(t).type = "RANGE"
         /\ RangeOf(t).value1 \in Cells /\ RangeOf(t).value2 \in Cells
         /\ RangeOf(t).value1 <= RangeOf(t).value2 /\ RangeOf(t).value2 <= lineSize - 1
  <1> DEFINE n == numberOfThreads
             r == lineSize \div n
             last == IF t < n THEN t * r - 1 ELSE lineSize - 1
  <1>1. r \in Nat /\ n * r <= lineSize /\ 1 <= r
    OBVIOUS
  <1>2. RangeOf(t) = [type |-> "RANGE", value1 |-> (t - 1) * r, value2 |-> last]
    BY DEF RangeOf, RangeMsg
  <1> HIDE DEF r
  <1>3. t \in Nat \ {0} /\ t <= n /\ t * r \in Nat /\ (t - 1) * r \in Nat
    BY <1>1
  <1>4. t * r <= n * r /\ (t - 1) * r = t * r - r /\ n * r \in Nat
    BY <1>1, <1>3
  <1>5. last \in Int /\ (t - 1) * r <= last /\ last <= lineSize - 1
    <2>1. CASE t < n
      BY <1>1, <1>3, <1>4, <2>1
    <2>2. CASE t = n
      BY <1>1, <1>3, <1>4, <2>2
    <2> QED
      BY <1>3, <2>1, <2>2
  <1> HIDE DEF last
  <1>6. (t - 1) * r \in Cells /\ last \in Cells
    BY <1>3, <1>5 DEF Cells
  <1>7. RangeOf(t) \in [type : {"RANGE"}, value1 : Cells, value2 : Cells]
    BY <1>2, <1>6
  <1> QED
    BY <1>2, <1>5, <1>6, <1>7 DEF Messages

\* A cell that is computed is a number.
LEMMA NewCellType ==
  ASSUME before \in Matrices, NEW l \in Cells, NEW c \in Cells
  PROVE  NewCell(l, c) \in Nat
  BY DEF NewCell, Matrices

\* The messages are different from each other and from the empty slot.
LEMMA MessageFacts ==
  /\ GO \in Messages /\ STOP \in Messages /\ GENDONE \in Messages /\ ALLDONE \in Messages
  /\ NoMsg \notin Messages /\ GENDONE # ALLDONE /\ GO # STOP
  /\ GO.type = "GO" /\ STOP.type = "STOP" /\ GENDONE.type = "GENDONE"
  /\ ALLDONE.type = "ALLDONE"
  /\ \A m \in Messages : m.type = "RANGE" => m.value1 \in Cells /\ m.value2 \in Cells
  <1>1. GENDONE # ALLDONE /\ GO # STOP /\ GO.type = "GO" /\ STOP.type = "STOP"
        /\ GENDONE.type = "GENDONE" /\ ALLDONE.type = "ALLDONE"
    BY DEF GO, STOP, GENDONE, ALLDONE
  <1>2. GO \in Messages /\ STOP \in Messages /\ GENDONE \in Messages /\ ALLDONE \in Messages
    BY DEF Messages
  <1>3. ASSUME NEW m \in Messages, m.type = "RANGE" PROVE m.value1 \in Cells /\ m.value2 \in Cells
    <2>1. m \notin {GO, STOP, GENDONE, ALLDONE}
      BY <1>1, <1>3
    <2>2. m \in [type : {"RANGE"}, value1 : Cells, value2 : Cells]
      BY <2>1 DEF Messages
    <2> QED
      BY <2>2
  <1> QED
    BY <1>1, <1>2, <1>3, LifeAssumption

\* No thread runs and no message is sent at first.
LEMMA InitInv == Init => Inv
  <1> SUFFICES ASSUME Init PROVE Inv
    OBVIOUS
  <1>1. TypeOK
    BY LifeAssumption DEF Init, TypeOK, Matrices, Zeroes, Cells, MainPCs, WorkerPCs, Workers
  <1>2. Control /\ Rounds
    BY DEF Init, Control, Rounds, Stopped
  <1>3. 0 \in 0 .. MAXTHREAD /\ \A t \in Workers : t \in 0 .. MAXTHREAD
    BY <1>1, ArgsFacts
  <1>4. \A t \in Workers : WorkerState(t)
    BY <1>3 DEF Init, WorkerState, Created, Past
  <1>5. box[0] = NoMsg
    BY <1>3 DEF Init
  <1>6. GENDONE # NoMsg /\ ALLDONE # NoMsg
    BY MessageFacts
  <1>7. AllDoneSent = {} /\ Arrived = {}
    BY DEF Init, AllDoneSent, Arrived
  <1>8. AnswersCounted /\ Barrier
    BY <1>5, <1>6, <1>7, FS_EmptySet DEF Init, AnswersCounted, Barrier, parent_threadID
  <1> QED
    BY <1>1, <1>2, <1>4, <1>8 DEF Inv, Protocol

\* A loop of main goes over the workers 1 .. numberOfThreads, and no further.
LEMMA LoopFacts ==
  ASSUME TypeOK, Control, NEW next, Loop(mpc, next),
         mpc \in {"create", "range", "go", "recv", "stop", "join"}
  PROVE  /\ numberOfThreads \in Workers /\ numberOfThreads \in Int
         /\ i \in Workers /\ i \in Int /\ 1 <= i /\ i <= numberOfThreads /\ i' \in Workers
         /\ \/ mpc' = mpc /\ i' = i + 1 /\ i < numberOfThreads
            \/ mpc' = next /\ i' = 1 /\ i = numberOfThreads
  <1>1. /\ numberOfThreads \in Workers /\ i <= numberOfThreads /\ i \in Workers
        /\ numberOfThreads \in Int /\ i \in Int /\ 1 <= i
        /\ MAXTHREAD \in Nat \ {0}
    BY ArgsFacts DEF Control, TypeOK
  <1>2. \/ mpc' = mpc /\ i' = i + 1 /\ i < numberOfThreads
        \/ mpc' = next /\ i' = 1 /\ i = numberOfThreads
    BY <1>1 DEF Loop
  <1>3. i' \in Workers
    BY <1>1, <1>2 DEF Workers
  <1> QED
    BY <1>1, <1>2, <1>3

\* A thread that was created has an index that main uses, and a share of the grid.
LEMMA ThreadFacts ==
  ASSUME Inv, mpc \notin {"exit", "crash"}, NEW t \in Workers, wpc[t] # "none"
  PROVE  /\ WorkerState(t) /\ t \in 1 .. numberOfThreads
         /\ numberOfThreads \in Nat \ {0} /\ numberOfThreads \in Workers
         /\ RangeOf(t) \in Messages /\ RangeOf(t).type = "RANGE"
         /\ RangeOf(t).value1 \in Cells /\ RangeOf(t).value2 \in Cells
         /\ RangeOf(t).value1 <= RangeOf(t).value2 /\ RangeOf(t).value2 <= lineSize - 1
  <1>1. TypeOK /\ Control /\ WorkerState(t)
    BY DEF Inv, Protocol
  <1>2. /\ MAXGRID \in Nat /\ lineSize \in Nat /\ lineSize <= MAXGRID
        /\ t \in Int /\ 1 <= t /\ i \in Int /\ \A u \in Workers : u \in Int /\ 1 <= u
    BY <1>1, ArgsFacts
  <1>3. Created(t)
    BY <1>1 DEF WorkerState
  <1>4. /\ numberOfThreads \in Workers /\ numberOfThreads <= lineSize /\ i <= numberOfThreads
        /\ numberOfThreads \in Nat \ {0}
    <2>1. mpc \notin {"args", "file", "threads"}
      BY <1>3 DEF Created, Past
    <2>2. numberOfThreads \in Workers /\ numberOfThreads <= lineSize /\ i <= numberOfThreads
      BY <1>1, <2>1 DEF Control
    <2> QED
      BY <1>2, <2>2
  <1>5. t \in 1 .. numberOfThreads
    BY <1>2, <1>3, <1>4 DEF Created, Past
  <1> QED
    BY <1>1, <1>2, <1>4, <1>5, RangeType

\* A worker finds the message it expects.
LEMMA Receives ==
  ASSUME Inv, NEW t \in Workers
  PROVE  /\ RecvRange(t) => box[t] = RangeOf(t) /\ RangeSent(t) /\ mpc' = mpc
         /\ RecvGo(t) => /\ PlayerState(t) /\ Unread(t) /\ mpc' = mpc
                         /\ \/ box[t] = GO /\ GoSent(t)
                            \/ box[t] = STOP /\ StopSent(t) /\ ~GoSent(t)
  <1>1. ASSUME RecvRange(t) PROVE box[t] = RangeOf(t) /\ RangeSent(t) /\ mpc' = mpc
    <2>1. wpc[t] = "range" /\ Running /\ box[t] # NoMsg
      BY <1>1 DEF RecvRange, Goto, RecvMsg
    <2>2. WorkerState(t) /\ RangeOf(t).type = "RANGE"
      BY <2>1, ThreadFacts DEF Running
    <2>3. box[t] = RangeOf(t) /\ RangeSent(t)
      BY <2>1, <2>2 DEF WorkerState
    <2> QED
      BY <1>1, <2>2, <2>3 DEF RecvRange, ExpectOrExit, Received
  <1>2. ASSUME RecvGo(t)
        PROVE  /\ PlayerState(t) /\ Unread(t) /\ mpc' = mpc
               /\ \/ box[t] = GO /\ GoSent(t)
                  \/ box[t] = STOP /\ StopSent(t) /\ ~GoSent(t)
    <2>1. wpc[t] = "go" /\ Running /\ box[t] # NoMsg
      BY <1>2 DEF RecvGo, Goto, RecvMsg
    <2>2. PlayerState(t)
      BY <2>1, ThreadFacts DEF Running, WorkerState
    <2>3. /\ Unread(t)
          /\ \/ box[t] = GO /\ GoSent(t)
             \/ box[t] = STOP /\ StopSent(t) /\ ~GoSent(t)
      BY <2>1, <2>2 DEF PlayerState
    <2>4. GO.type = "GO" /\ STOP.type = "STOP"
      BY MessageFacts
    <2> QED
      BY <1>2, <2>2, <2>3, <2>4 DEF RecvGo, ExpectOrExit, Received
  <1> QED
    BY <1>1, <1>2

\* Every step keeps the types of the variables.
LEMMA TypePreserved == Inv /\ [Next]_vars => TypeOK'
  <1> SUFFICES ASSUME Inv, [Next]_vars PROVE TypeOK'
    OBVIOUS
  <1>t. TypeOK /\ Control /\ Rounds /\ Protocol
    BY DEF Inv
  <1>a. /\ MAXGRID \in Nat \ {0} /\ MAXTHREAD \in Nat \ {0}
        /\ 0 \in 0 .. MAXTHREAD /\ \A t \in Workers : t \in 0 .. MAXTHREAD
    BY <1>t, ArgsFacts
  <1>m. /\ GO \in Messages /\ STOP \in Messages /\ GENDONE \in Messages
        /\ ALLDONE \in Messages
    BY MessageFacts
  <1>1. CASE CheckArgs \/ RejectFile
    <2>1. mpc' \in MainPCs
      BY <1>1 DEF CheckArgs, RejectFile, Continue, MainPCs
    <2> QED
      BY <1>1, <2>1, <1>t DEF CheckArgs, RejectFile, Continue, TypeOK, workVars, barrierVars
  <1>2. CASE ReadFile
    <2> DEFINE rows == args.rows
    <2>1. rows \in Seq(Seq(Nat)) /\ rows # << >> /\ Len(rows) - 1 <= MAXGRID
          /\ \A l \in DOMAIN rows : Len(rows[l]) <= MAXGRID
      BY <1>2, <1>t, ArgsFacts DEF ReadFile, Readable
    <2>2. columnSize' \in 0 .. MAXGRID
      BY <1>2, <1>a, <2>1, WidthType DEF ReadFile
    <2>3. lineSize' \in 0 .. MAXGRID
      BY <1>2, <1>a, <2>1 DEF ReadFile
    <2>4. ASSUME NEW row \in Seq(Nat), NEW old \in [Cells -> Nat]
          PROVE  Stored(row, old) \in [Cells -> Nat]
      <3>1. ASSUME NEW c \in Cells, c < Len(row) PROVE row[c + 1] \in Nat
        <4>1. c + 1 \in 1 .. Len(row)
          BY <1>a, <3>1 DEF Cells
        <4> QED
          BY <2>4, <4>1
      <3>2. ASSUME NEW c \in Cells
            PROVE  (IF c < Len(row) THEN row[c + 1] ELSE old[c]) \in Nat
        BY <2>4, <3>1
      <3> QED
        BY <3>2 DEF Stored
    <2>5. before \in [Cells -> [Cells -> Nat]] /\ after \in [Cells -> [Cells -> Nat]]
      BY <1>t DEF TypeOK, Matrices
    <2>6. \A k \in 1 .. Len(rows) : rows[k] \in Seq(Nat)
      BY <2>1
    <2>7. before' \in Matrices
      <3>1. ASSUME NEW l \in Cells
            PROVE  (IF l < Len(rows) THEN Stored(rows[l + 1], before[l]) ELSE before[l])
                   \in [Cells -> Nat]
        <4>1. before[l] \in [Cells -> Nat]
          BY <2>5
        <4>2. CASE l < Len(rows)
          <5>1. l + 1 \in 1 .. Len(rows)
            BY <1>a, <2>1, <4>2 DEF Cells
          <5>2. rows[l + 1] \in Seq(Nat)
            BY <2>6, <5>1
          <5>3. Stored(rows[l + 1], before[l]) \in [Cells -> Nat]
            BY <2>4, <4>1, <5>2
          <5> QED
            BY <4>2, <5>3
        <4> QED
          BY <4>1, <4>2
      <3>2. before' = [l \in Cells |-> IF l < Len(rows) THEN Stored(rows[l + 1], before[l])
                                       ELSE before[l]]
        BY <1>2 DEF ReadFile
      <3> HIDE DEF rows
      <3> QED
        BY <3>1, <3>2 DEF Matrices
    <2>8. after' \in Matrices
      <3>1. 0 \in Cells
        BY <1>a DEF Cells
      <3>2. after' = [after EXCEPT ![0] = IF Len(rows) > MAXGRID
                                             THEN Stored(rows[MAXGRID + 1], after[0])
                                             ELSE after[0]]
        BY <1>2, <2>5, <3>1 DEF ReadFile
      <3>3. CASE Len(rows) > MAXGRID
        <4>1. MAXGRID + 1 \in 1 .. Len(rows)
          BY <1>a, <2>1, <3>3
        <4>2. Stored(rows[MAXGRID + 1], after[0]) \in [Cells -> Nat]
          BY <2>4, <2>5, <2>6, <3>1, <4>1
        <4> HIDE DEF rows
        <4> QED
          BY <2>5, <3>1, <3>2, <3>3, <4>2 DEF Matrices
      <3>4. CASE ~(Len(rows) > MAXGRID)
        BY <2>5, <3>1, <3>2, <3>4 DEF Matrices
      <3> QED
        BY <3>3, <3>4
    <2>9. mpc' \in MainPCs
      BY <1>2 DEF ReadFile, Continue, MainPCs
    <2> QED
      BY <1>2, <2>2, <2>3, <2>7, <2>8, <2>9, <1>t
      DEF ReadFile, Continue, TypeOK, workVars, barrierVars
  <1>3. CASE SetThreads
    <2>1. mpc' \in MainPCs
      BY <1>3 DEF SetThreads, Continue, MainPCs
    <2>2. numberOfThreads' \in Int
      BY <1>3, <1>t, ArgsFacts DEF SetThreads
    <2> QED
      BY <1>3, <2>1, <2>2, <1>t DEF SetThreads, Continue, TypeOK, workVars, barrierVars
  <1>l. ASSUME NEW at \in {"create", "range", "go", "recv", "stop", "join"},
               NEW next \in MainPCs, Loop(at, next)
        PROVE  i \in Workers /\ i' \in Workers /\ mpc' \in MainPCs
    <2>1. mpc = at
      BY <1>l DEF Loop
    <2>2. /\ i \in Workers /\ i' \in Workers
          /\ mpc' = mpc \/ mpc' = next
      BY <1>l, <1>t, <2>1, LoopFacts
    <2> QED
      BY <1>t, <2>2 DEF TypeOK
  <1>p. {"range", "go", "recv", "decide", "join", "done", "stop", "exit"} \subseteq MainPCs
    BY DEF MainPCs
  <1>4. CASE CreateThread
    <2>1. wpc' \in [Workers -> WorkerPCs]
      BY <1>4, <1>t DEF CreateThread, TypeOK, WorkerPCs
    <2>2. i \in Workers /\ i' \in Workers /\ mpc' \in MainPCs
      BY <1>4, <1>l, <1>p DEF CreateThread
    <2> QED
      BY <1>4, <2>1, <2>2, <1>t DEF CreateThread, TypeOK, barrierVars, inputVars
  <1>5. CASE CreateThreadFails \/ AllFinished
    <2>1. mpc' \in MainPCs
      BY <1>5, <1>p DEF CreateThreadFails, AllFinished
    <2> QED
      BY <1>5, <2>1, <1>t
      DEF CreateThreadFails, AllFinished, TypeOK, workVars, barrierVars, inputVars
  <1>6. CASE SendRange
    <2>1. i \in Workers /\ i' \in Workers /\ mpc' \in MainPCs
      BY <1>6, <1>l, <1>p DEF SendRange
    <2>2. mpc = "range"
      BY <1>6 DEF SendRange, Loop
    <2>3. /\ numberOfThreads \in Nat \ {0} /\ numberOfThreads <= lineSize
          /\ i \in 1 .. numberOfThreads
          /\ lineSize \in Nat /\ lineSize <= MAXGRID
      <3>1. numberOfThreads \in Workers /\ i <= numberOfThreads /\ numberOfThreads <= lineSize
        BY <2>2, <1>t DEF Control
      <3>2. numberOfThreads \in Int /\ 1 <= numberOfThreads /\ i \in Int /\ 1 <= i
        BY <3>1, <1>t, ArgsFacts
      <3> QED
        BY <3>1, <3>2, <1>t, ArgsFacts
    <2>4. RangeOf(i) \in Messages
      BY <2>3, <1>a, RangeType
    <2> QED
      BY <1>6, <2>1, <2>4, <1>a, <1>t
      DEF SendRange, SendMsg, TypeOK, workVars, barrierVars, inputVars
  <1>7. CASE SendGo \/ SendStop
    <2>1. i \in Workers /\ i' \in Workers /\ mpc' \in MainPCs
      BY <1>7, <1>l, <1>p DEF SendGo, SendStop
    <2> QED
      BY <1>7, <2>1, <1>m, <1>a, <1>t
      DEF SendGo, SendStop, SendMsg, TypeOK, workVars, barrierVars, inputVars
  <1>8. CASE RecvDone
    <2>1. i \in Workers /\ i' \in Workers /\ mpc' \in MainPCs
      BY <1>8, <1>l, <1>p DEF RecvDone
    <2>2. allDoneCounter' \in Nat
      BY <1>8, <1>t DEF RecvDone, TypeOK
    <2>3. box' \in [0 .. MAXTHREAD -> Messages \cup {NoMsg}]
      BY <1>8, <1>t DEF RecvDone, RecvMsg, TypeOK
    <2> QED
      BY <1>8, <2>1, <2>2, <2>3, <1>t DEF RecvDone, TypeOK, workVars, barrierVars, inputVars
  <1>9. CASE StopGame
    <2>1. mpc' \in MainPCs /\ cGen' \in Nat
      BY <1>9, <1>p, <1>t DEF StopGame, TypeOK
    <2> QED
      BY <1>9, <2>1, <1>t DEF StopGame, TypeOK, workVars, barrierVars, inputVars
  <1>10. CASE NextGeneration
    <2>1. mpc' \in MainPCs /\ cGen' \in Nat
      BY <1>10, <1>p, <1>t DEF NextGeneration, TypeOK
    <2>2. before' \in Matrices
      BY <1>10, <1>t DEF NextGeneration, updateMatrix, TypeOK, Matrices
    <2> QED
      BY <1>10, <2>1, <2>2, <1>t DEF NextGeneration, TypeOK, workVars, barrierVars, inputVars
  <1>11. CASE JoinThread
    <2>1. i \in Workers /\ i' \in Workers /\ mpc' \in MainPCs
      BY <1>11, <1>l, <1>p DEF JoinThread
    <2> QED
      BY <1>11, <2>1, <1>t DEF JoinThread, TypeOK, workVars, barrierVars, inputVars
  <1>12. ASSUME NEW t \in Workers, RecvRange(t) PROVE TypeOK'
    <2>1. wpc[t] # "none" /\ mpc \notin {"exit", "crash"}
      BY <1>12 DEF RecvRange, Goto, Running
    <2>2. Received(t).value1 \in Cells /\ Received(t).value2 \in Cells
      BY <1>12, <2>1, Receives, ThreadFacts DEF Received
    <2>3. box' \in [0 .. MAXTHREAD -> Messages \cup {NoMsg}]
      BY <1>12, <1>t DEF RecvRange, RecvMsg, TypeOK
    <2>4. wpc' \in [Workers -> WorkerPCs]
      BY <1>12, <1>t DEF RecvRange, Goto, TypeOK, WorkerPCs
    <2>5. mpc' = mpc
      BY <1>12, Receives
    <2>6. gen' \in [Workers -> Nat] /\ lineFrom' \in [Workers -> Cells]
          /\ lineTo' \in [Workers -> Cells]
      BY <1>12, <2>2, <1>t DEF RecvRange, TypeOK
    <2> QED
      BY <1>12, <2>3, <2>4, <2>5, <2>6, <1>t DEF RecvRange, TypeOK, barrierVars, inputVars
  <1>13. ASSUME NEW t \in Workers, RecvGo(t) PROVE TypeOK'
    <2>1. box' \in [0 .. MAXTHREAD -> Messages \cup {NoMsg}]
      BY <1>13, <1>t DEF RecvGo, RecvMsg, TypeOK
    <2>2. wpc' \in [Workers -> WorkerPCs]
      BY <1>13, <1>t DEF RecvGo, Goto, TypeOK, WorkerPCs
    <2>3. mpc' = mpc
      BY <1>13, Receives
    <2>4. lineFrom[t] \in Nat
      BY <1>t, <1>a DEF TypeOK, Cells
    <2>5. line' \in [Workers -> Nat]
      BY <1>13, <2>4, <1>t DEF RecvGo, TypeOK
    <2> QED
      BY <1>13, <2>1, <2>2, <2>3, <2>5, <1>t DEF RecvGo, TypeOK, barrierVars, inputVars
  <1>14. ASSUME NEW t \in Workers, ComputeLine(t) PROVE TypeOK'
    <2>1. wpc[t] = "compute" /\ mpc \notin {"exit", "crash"}
      BY <1>14 DEF ComputeLine, Goto, Running
    <2>2. PlayerState(t) /\ RangeOf(t).value1 \in Cells /\ RangeOf(t).value2 \in Cells
      BY <2>1, ThreadFacts DEF WorkerState
    <2>3. line[t] \in RangeOf(t).value1 .. RangeOf(t).value2
      BY <2>1, <2>2 DEF PlayerState
    <2>4. line[t] \in Cells
      BY <2>2, <2>3, <1>a DEF Cells
    <2>5. before \in Matrices /\ after \in [Cells -> [Cells -> Nat]]
      BY <1>t DEF TypeOK, Matrices
    <2> DEFINE new == [c \in Cells |-> IF c \in Columns THEN NewCell(line[t], c)
                                       ELSE after[line[t]][c]]
    <2>6. new \in [Cells -> Nat]
      BY <2>4, <2>5, NewCellType
    <2>7. after' = [after EXCEPT ![line[t]] = new]
      BY <1>14, <2>4, <2>5 DEF ComputeLine
    <2> HIDE DEF new
    <2>8. after' \in Matrices
      BY <2>4, <2>5, <2>6, <2>7 DEF Matrices
    <2>9. line' \in [Workers -> Nat]
      BY <1>14, <1>t DEF ComputeLine, TypeOK
    <2>10. wpc' \in [Workers -> WorkerPCs]
      BY <1>14, <1>t DEF ComputeLine, Goto, TypeOK, WorkerPCs
    <2> QED
      BY <1>14, <2>8, <2>9, <2>10, <1>t
      DEF ComputeLine, TypeOK, mainVars, barrierVars, inputVars
  <1>15. ASSUME NEW t \in Workers, SendGenDone(t) \/ SendAllDone(t) PROVE TypeOK'
    <2>1. wpc' \in [Workers -> WorkerPCs]
      BY <1>15, <1>t DEF SendGenDone, SendAllDone, Goto, TypeOK, WorkerPCs
    <2>2. gen' \in [Workers -> Nat]
      <3>1. gen[t] + 1 \in Nat /\ gen \in [Workers -> Nat]
        BY <1>t DEF TypeOK
      <3>2. gen' = gen \/ gen' = [gen EXCEPT ![t] = gen[t] + 1]
        BY <1>15 DEF SendGenDone, SendAllDone
      <3> QED
        BY <3>1, <3>2
    <2>3. box' \in [0 .. MAXTHREAD -> Messages \cup {NoMsg}]
      BY <1>15, <1>m, <1>t DEF SendGenDone, SendAllDone, SendMsg, TypeOK
    <2> QED
      BY <1>15, <2>1, <2>2, <2>3, <1>t
      DEF SendGenDone, SendAllDone, TypeOK, mainVars, barrierVars, inputVars
  <1>16. ASSUME NEW t \in Workers,
                EnterBarrier(t) \/ CheckBarrier(t) \/ PostBarrier(t) \/ LeaveBarrier(t)
         PROVE  TypeOK'
    <2>1. wpc' \in [Workers -> WorkerPCs]
      BY <1>16, <1>t DEF EnterBarrier, CheckBarrier, PostBarrier, LeaveBarrier, Goto, TypeOK,
         WorkerPCs
    <2>2. line' \in [Workers -> Nat]
      BY <1>16, <1>t DEF EnterBarrier, CheckBarrier, PostBarrier, LeaveBarrier, TypeOK
    <2>3. barrierCount' \in Nat /\ alldone_sem' \in Nat
      BY <1>16, <1>t DEF EnterBarrier, CheckBarrier, PostBarrier, LeaveBarrier, TypeOK,
         barrierVars
    <2> QED
      BY <1>16, <2>1, <2>2, <2>3, <1>t DEF EnterBarrier, CheckBarrier, PostBarrier,
         LeaveBarrier, TypeOK, mainVars, inputVars
  <1>17. CASE UNCHANGED vars
    BY <1>17, <1>t DEF vars, mainVars, workVars, barrierVars, inputVars, TypeOK
  <1> QED
    BY <1>1, <1>2, <1>3, <1>4, <1>5, <1>6, <1>7, <1>8, <1>9, <1>10, <1>11, <1>12, <1>13,
       <1>14, <1>15, <1>16, <1>17 DEF Next, Main, Worker

\* The sets that are counted are finite and hold only workers that main uses.
LEMMA CountedFacts ==
  ASSUME Inv, mpc \notin {"exit", "crash"}
  PROVE  /\ IsFiniteSet(Workers)
         /\ IsFiniteSet(Answered) /\ IsFiniteSet(AllDoneSent) /\ IsFiniteSet(Arrived)
         /\ Answered \subseteq 1 .. numberOfThreads
         /\ Arrived \subseteq 1 .. numberOfThreads
         /\ AllDoneSent \subseteq Arrived
         /\ Cardinality(Answered) \in Nat /\ Cardinality(Arrived) \in Nat
         /\ Cardinality(AllDoneSent) \in Nat
         /\ numberOfThreads \in Nat =>
               /\ Cardinality(Answered) <= numberOfThreads
               /\ Cardinality(Arrived) <= numberOfThreads
               /\ Cardinality(Answered) = numberOfThreads => Answered = 1 .. numberOfThreads
               /\ Cardinality(Arrived) = numberOfThreads => Arrived = 1 .. numberOfThreads
               /\ Cardinality(AllDoneSent) = numberOfThreads =>
                     AllDoneSent = 1 .. numberOfThreads
  <1>1. TypeOK /\ Rounds /\ \A t \in Workers : WorkerState(t)
    BY DEF Inv, Protocol
  <1>2. IsFiniteSet(Workers)
    BY LifeAssumption, FS_Interval DEF Workers
  <1>3. Answered \subseteq Workers /\ AllDoneSent \subseteq Workers /\ Arrived \subseteq Workers
    BY DEF Answered, AllDoneSent, Arrived
  <1>4. /\ IsFiniteSet(Answered) /\ IsFiniteSet(AllDoneSent) /\ IsFiniteSet(Arrived)
        /\ Cardinality(Answered) \in Nat /\ Cardinality(Arrived) \in Nat
        /\ Cardinality(AllDoneSent) \in Nat
    BY <1>2, <1>3, FS_Subset, FS_CardinalityType
  <1>5. Arrived \subseteq 1 .. numberOfThreads
    <2> SUFFICES ASSUME NEW t \in Arrived PROVE t \in 1 .. numberOfThreads
      OBVIOUS
    <2>1. t \in Workers /\ wpc[t] # "none"
      BY DEF Arrived, AllDoneSent
    <2> QED
      BY <2>1, ThreadFacts
  <1>6. Answered \subseteq 1 .. numberOfThreads
    <2> SUFFICES ASSUME NEW t \in Answered PROVE t \in 1 .. numberOfThreads
      OBVIOUS
    <2>1. t \in Workers /\ gen[t] = cGen + 2 /\ cGen \in Nat
      BY <1>1 DEF Answered, TypeOK
    <2>2. wpc[t] # "none"
      BY <1>1, <2>1 DEF WorkerState
    <2> QED
      BY <2>1, <2>2, ThreadFacts
  <1>7. AllDoneSent \subseteq Arrived
    BY DEF Arrived
  <1>8. ASSUME numberOfThreads \in Nat, NEW S \in SUBSET (1 .. numberOfThreads)
        PROVE  /\ Cardinality(S) <= numberOfThreads
               /\ Cardinality(S) = numberOfThreads => S = 1 .. numberOfThreads
    <2>1. /\ IsFiniteSet(1 .. numberOfThreads)
          /\ Cardinality(1 .. numberOfThreads) = numberOfThreads
      BY <1>8, FS_Interval
    <2> QED
      BY <2>1, FS_Subset
  <1> QED
    BY <1>2, <1>4, <1>5, <1>6, <1>7, <1>8

\* Once somebody has passed the barrier, every worker has sent its last GENDONE.
LEMMA BarrierFacts ==
  ASSUME Inv, mpc \notin {"exit", "crash"}, numberOfThreads \in Nat,
         barrierCount = numberOfThreads, NEW t \in 1 .. numberOfThreads
  PROVE  t \in Workers /\ gen[t] = numberOfGenerations + 1
  <1>1. Barrier /\ \A u \in Workers : WorkerState(u)
    BY DEF Inv, Protocol
  <1>2. Arrived = 1 .. numberOfThreads
    BY <1>1, CountedFacts DEF Barrier
  <1>3. /\ t \in Workers
        /\ wpc[t] \in {"check", "post", "wait", "alldone"}
           \/ gen[t] = numberOfGenerations + 1
    BY <1>2 DEF Arrived, AllDoneSent
  <1> QED
    BY <1>1, <1>3 DEF WorkerState, PlayerState

\* What main finds in its mailbox: a GENDONE in the rounds of the generations, an
\* ALLDONE in the last round.
LEMMA RecvFacts ==
  ASSUME Inv, mpc = "recv", box[0] # NoMsg
  PROVE  /\ cGen < numberOfGenerations => box[0] = GENDONE
         /\ cGen >= numberOfGenerations => box[0] = ALLDONE
  <1>1. TypeOK /\ Control /\ Rounds /\ AnswersCounted /\ Barrier /\ \A u \in Workers : WorkerState(u)
    BY DEF Inv, Protocol
  <1>2. numberOfGenerations \in Int /\ cGen \in Nat /\ i \in Int /\ 1 <= i
        /\ numberOfThreads \in Workers /\ i <= numberOfThreads
        /\ numberOfThreads \in Nat \ {0}
    BY <1>1, ArgsFacts DEF TypeOK, Control
  <1>3. box[0] \in {GENDONE, ALLDONE} /\ GENDONE # ALLDONE
    BY <1>1, MessageFacts DEF AnswersCounted, parent_threadID
  <1>4. ASSUME cGen < numberOfGenerations, box[0] = ALLDONE PROVE FALSE
    <2>1. Cardinality(AllDoneSent) = allDoneCounter + 1 /\ allDoneCounter \in Nat
      BY <1>1, <1>4 DEF AnswersCounted, parent_threadID, TypeOK
    <2>2. AllDoneSent # {}
      BY <2>1, FS_EmptySet
    <2>3. barrierCount = numberOfThreads
      BY <1>1, <2>2 DEF Barrier
    <2>4. \A t \in 1 .. numberOfThreads : t \in Workers /\ gen[t] = numberOfGenerations + 1
      BY <1>2, <2>3, BarrierFacts
    <2>5. ASSUME NEW t \in 1 .. numberOfThreads PROVE t \in Answered
      <3>1. t \in Workers /\ gen[t] = numberOfGenerations + 1
        BY <2>4
      <3>2. PlayerState(t)
        BY <1>1, <1>2, <1>4, <3>1 DEF WorkerState
      <3>3. gen[t] = cGen + 2
        BY <1>2, <1>4, <3>1, <3>2 DEF PlayerState
      <3> QED
        BY <3>1, <3>3 DEF Answered
    <2>6. Answered = 1 .. numberOfThreads
      BY <2>5, CountedFacts
    <2>7. Cardinality(Answered) = i - 1
      <3>1. Cardinality(Answered) = Collected + 0
        BY <1>1, <1>3, <1>4 DEF AnswersCounted, parent_threadID
      <3> QED
        BY <1>2, <3>1 DEF Collected
    <2>8. Cardinality(1 .. numberOfThreads) = numberOfThreads
      BY <1>2, FS_Interval
    <2> QED
      BY <1>2, <2>6, <2>7, <2>8
  <1>5. ASSUME cGen >= numberOfGenerations PROVE box[0] # GENDONE
    BY <1>1, <1>2, <1>5 DEF AnswersCounted, parent_threadID
  <1> QED
    BY <1>3, <1>4, <1>5

\* When main decides that the game goes on or stops, every worker has answered: it
\* has computed one generation more than main has counted, and does not compute.
LEMMA DecideFacts ==
  ASSUME Inv, mpc = "decide", allDoneCounter # numberOfThreads
  PROVE  /\ cGen < numberOfGenerations /\ box[0] # GENDONE /\ allDoneCounter = 0
         /\ \A t \in Workers : t <= numberOfThreads =>
               gen[t] = cGen + 2 /\ wpc[t] \notin {"none", "range", "compute", "gendone"}
         /\ \A t \in Workers : ~(t <= numberOfThreads) => wpc[t] = "none"
  <1>1. TypeOK /\ Control /\ Rounds /\ AnswersCounted /\ \A u \in Workers : WorkerState(u)
    BY DEF Inv, Protocol
  <1>2. numberOfGenerations \in Int /\ cGen \in Nat /\ numberOfThreads \in Nat
    BY <1>1, ArgsFacts DEF TypeOK, Control
  <1>3. cGen < numberOfGenerations /\ allDoneCounter = 0
    BY <1>1, <1>2 DEF Rounds, Collected
  <1>4. Cardinality(Answered) = numberOfThreads + IF box[0] = GENDONE THEN 1 ELSE 0
    BY <1>1, <1>3 DEF AnswersCounted, parent_threadID, Collected
  <1>5. box[0] # GENDONE /\ Cardinality(Answered) = numberOfThreads
    BY <1>2, <1>4, CountedFacts
  <1>6. Answered = 1 .. numberOfThreads
    BY <1>2, <1>5, CountedFacts
  <1>7. ASSUME NEW t \in Workers, t <= numberOfThreads
        PROVE  gen[t] = cGen + 2 /\ wpc[t] \notin {"none", "range", "compute", "gendone"}
    <2>1. t \in 1 .. numberOfThreads
      BY <1>1, <1>2, <1>7, ArgsFacts
    <2>2. gen[t] = cGen + 2
      BY <1>6, <2>1 DEF Answered
    <2> QED
      BY <1>1, <1>2, <2>2 DEF WorkerState, PlayerState
  <1>8. ASSUME NEW t \in Workers, ~(t <= numberOfThreads) PROVE wpc[t] = "none"
    BY <1>1, <1>8 DEF WorkerState, Created, Past
  <1> QED
    BY <1>3, <1>5, <1>7, <1>8

\* No step changes the shares of the workers once they are created.
LEMMA SharesUnchanged ==
  ASSUME lineSize' = lineSize, numberOfThreads' = numberOfThreads
  PROVE  \A t : RangeOf(t)' = RangeOf(t)
  BY DEF RangeOf

\* Every step keeps main where its arguments send it.
LEMMA ControlPreserved == Inv /\ [Next]_vars => Control'
  <1> SUFFICES ASSUME Inv, [Next]_vars PROVE Control'
    OBVIOUS
  <1>t. TypeOK /\ Control
    BY DEF Inv
  <1>1. CASE CheckArgs \/ RejectFile
    <2>1. args' = args /\ i' = i /\ box' = box
      BY <1>1 DEF CheckArgs, RejectFile, Continue
    <2>2. numberOfGenerations \in Int
      BY <1>t, ArgsFacts
    <2> QED
      BY <1>1, <1>t, <2>1, <2>2 DEF CheckArgs, RejectFile, Continue, Control, numberOfGenerations
  <1>2. CASE ReadFile
    BY <1>2, <1>t DEF ReadFile, Continue, Control, numberOfGenerations
  <1>3. CASE SetThreads
    <2> DEFINE n == IF args.threads > lineSize THEN lineSize ELSE args.threads
    <2>1. /\ mpc = "threads" /\ args' = args /\ i' = i /\ box' = box /\ lineSize' = lineSize
          /\ numberOfThreads' = n
          /\ mpc' = IF args.threads > MAXTHREAD THEN "exit" ELSE IF n <= 0 THEN "crash"
                    ELSE "create"
      BY <1>3 DEF SetThreads, Continue
    <2>2. args.threads \in Int /\ lineSize \in Nat /\ MAXTHREAD \in Nat
      BY <1>t, ArgsFacts
    <2>3. mpc' = "create" => n \in Workers /\ n <= lineSize /\ 1 <= n
      BY <2>1, <2>2 DEF Workers
    <2> HIDE DEF n
    <2> QED
      BY <1>t, <2>1, <2>3 DEF Control, numberOfGenerations
  <1>4. ASSUME NEW at \in {"create", "range", "go", "recv", "stop", "join"},
               NEW next \in {"range", "go", "recv", "decide", "join", "done"},
               Loop(at, next), UNCHANGED inputVars, at = "create" => box' = box
        PROVE  Control'
    <2>1. mpc = at
      BY <1>4 DEF Loop
    <2>2. /\ numberOfThreads \in Workers /\ numberOfThreads \in Int
          /\ i \in Workers /\ i \in Int /\ 1 <= i /\ i <= numberOfThreads /\ i' \in Workers
          /\ \/ mpc' = mpc /\ i' = i + 1 /\ i < numberOfThreads
             \/ mpc' = next /\ i' = 1 /\ i = numberOfThreads
      BY <1>4, <1>t, <2>1, LoopFacts
    <2>3. i' <= numberOfThreads /\ (mpc' # mpc => i' = 1)
      BY <2>2
    <2> QED
      BY <1>4, <1>t, <2>1, <2>2, <2>3 DEF Control, numberOfGenerations, inputVars
  <1>5. CASE CreateThread \/ SendRange \/ SendGo \/ RecvDone \/ SendStop \/ JoinThread
    BY <1>5, <1>4 DEF CreateThread, SendRange, SendGo, RecvDone, SendStop, JoinThread
  <1>6. CASE CreateThreadFails \/ AllFinished \/ StopGame \/ NextGeneration
    BY <1>6, <1>t DEF CreateThreadFails, AllFinished, StopGame, NextGeneration, Control,
       numberOfGenerations, inputVars
  <1>7. ASSUME NEW t \in Workers, Worker(t) PROVE Control'
    <2>1. mpc' = mpc
      BY <1>7, Receives DEF Worker, ComputeLine, SendGenDone, EnterBarrier, CheckBarrier,
         PostBarrier, LeaveBarrier, SendAllDone, mainVars
    <2>2. UNCHANGED <<i, inputVars>>
      BY <1>7 DEF Worker, RecvRange, RecvGo, ComputeLine, SendGenDone, EnterBarrier,
         CheckBarrier, PostBarrier, LeaveBarrier, SendAllDone, mainVars
    <2>3. mpc \notin {"exit", "crash"} /\ wpc[t] \notin {"none"}
      BY <1>7 DEF Worker, RecvRange, RecvGo, ComputeLine, SendGenDone, EnterBarrier,
         CheckBarrier, PostBarrier, LeaveBarrier, SendAllDone, Goto, Running
    <2>4. mpc \notin {"args", "file", "threads"}
      BY <2>3, ThreadFacts DEF WorkerState, Created, Past
    <2>5. mpc = "create" => box' = box
      <3> SUFFICES ASSUME mpc = "create" PROVE box' = box
        OBVIOUS
      <3>1. ~RangeSent(t)
        BY DEF RangeSent, Past
      <3>2. wpc[t] = "range"
        BY <2>3, <3>1, ThreadFacts DEF WorkerState, PlayerState
      <3>3. ~RecvRange(t)
        BY <3>1, Receives
      <3> QED
        BY <1>7, <3>2, <3>3 DEF Worker, RecvGo, ComputeLine, SendGenDone, EnterBarrier,
           CheckBarrier, PostBarrier, LeaveBarrier, SendAllDone, Goto
    <2> QED
      BY <1>t, <2>1, <2>2, <2>3, <2>4, <2>5 DEF Control, numberOfGenerations, inputVars
  <1>8. CASE UNCHANGED vars
    BY <1>8, <1>t DEF vars, mainVars, inputVars, Control, numberOfGenerations
  <1> QED
    BY <1>1, <1>2, <1>3, <1>5, <1>6, <1>7, <1>8 DEF Next, Main

\* Every step keeps the count of generations and of ALLDONEs.
LEMMA RoundsPreserved == Inv /\ [Next]_vars => Rounds'
  <1> SUFFICES ASSUME Inv, [Next]_vars PROVE Rounds'
    OBVIOUS
  <1>t. TypeOK /\ Control /\ Rounds
    BY DEF Inv
  <1>a. cGen \in Nat /\ numberOfGenerations \in Int /\ allDoneCounter \in Nat /\ i \in Int
    BY <1>t, ArgsFacts DEF TypeOK
  <1>1. CASE CheckArgs \/ RejectFile \/ ReadFile \/ SetThreads
    BY <1>1, <1>t
    DEF CheckArgs, RejectFile, ReadFile, SetThreads, Continue, Rounds, Stopped
  <1>2. CASE CreateThread \/ CreateThreadFails
    BY <1>2, <1>t DEF CreateThread, CreateThreadFails, Loop, Rounds, Stopped
  <1>3. CASE SendRange
    <2>1. /\ mpc = "range" /\ mpc' \in {"range", "go"} /\ cGen' = cGen
          /\ allDoneCounter' = allDoneCounter /\ numberOfGenerations' = numberOfGenerations
      BY <1>3 DEF SendRange, Loop, inputVars, numberOfGenerations
    <2>2. cGen = 0 /\ allDoneCounter = 0 /\ numberOfGenerations > 0
      BY <2>1, <1>t DEF Rounds, Stopped, Control
    <2> QED
      BY <2>1, <2>2, <1>a DEF Rounds, Stopped
  <1>4. CASE SendGo
    <2>1. mpc = "go" /\ Loop(mpc, "recv")
      BY <1>4 DEF SendGo, Loop
    <2>2. /\ i \in Int
          /\ \/ mpc' = "go" /\ i' = i + 1
             \/ mpc' = "recv" /\ i' = 1
      BY <2>1, <1>t, LoopFacts
    <2>3. cGen' = cGen /\ allDoneCounter' = allDoneCounter
          /\ numberOfGenerations' = numberOfGenerations
      BY <1>4 DEF SendGo, inputVars, numberOfGenerations
    <2>4. Collected = 0 /\ Collected' = 0
      BY <2>1, <2>2 DEF Collected
    <2> QED
      BY <2>1, <2>2, <2>3, <2>4, <1>t DEF Rounds
  <1>5. CASE RecvDone
    <2>1. mpc = "recv" /\ Loop(mpc, "decide") /\ box[0] # NoMsg
      BY <1>5 DEF RecvDone, Loop, RecvMsg, parent_threadID
    <2>2. /\ i \in Int /\ numberOfThreads \in Int
          /\ \/ mpc' = "recv" /\ i' = i + 1
             \/ mpc' = "decide" /\ i' = 1 /\ i = numberOfThreads
      BY <2>1, <1>t, LoopFacts
    <2>3. /\ cGen' = cGen /\ numberOfGenerations' = numberOfGenerations
          /\ numberOfThreads' = numberOfThreads
          /\ allDoneCounter' = IF box[0].type = "ALLDONE" THEN allDoneCounter + 1
                               ELSE allDoneCounter
      BY <1>5 DEF RecvDone, inputVars, numberOfGenerations, Received, parent_threadID
    <2>4. Collected = i - 1 /\ Collected' = i
      BY <2>1, <2>2, <2>3 DEF Collected
    <2>5. GENDONE.type = "GENDONE" /\ ALLDONE.type = "ALLDONE"
      BY MessageFacts
    <2>6. CASE cGen < numberOfGenerations
      <3>1. box[0] = GENDONE
        BY <2>1, <2>6, RecvFacts
      <3> QED
        BY <2>1, <2>2, <2>3, <2>5, <2>6, <3>1, <1>t DEF Rounds
    <2>7. CASE ~(cGen < numberOfGenerations)
      <3>1. box[0] = ALLDONE
        BY <2>1, <2>7, <1>a, RecvFacts
      <3>2. allDoneCounter' = allDoneCounter + 1
        BY <2>3, <2>5, <3>1
      <3>3. allDoneCounter = i - 1
        BY <2>1, <2>4, <2>7, <1>t DEF Rounds
      <3>4. allDoneCounter' = Collected'
        BY <2>2, <2>4, <3>2, <3>3
      <3> QED
        BY <2>1, <2>2, <2>3, <2>7, <3>4, <1>t DEF Rounds
    <2> QED
      BY <2>6, <2>7
  <1>6. CASE AllFinished
    <2>1. /\ mpc = "decide" /\ allDoneCounter = numberOfThreads /\ mpc' = "join"
          /\ cGen' = cGen /\ allDoneCounter' = allDoneCounter
          /\ numberOfThreads' = numberOfThreads /\ numberOfGenerations' = numberOfGenerations
      BY <1>6 DEF AllFinished, inputVars, numberOfGenerations
    <2>2. numberOfThreads \in Workers /\ numberOfGenerations > 0
      BY <2>1, <1>t DEF Control
    <2>3. numberOfThreads # 0
      BY <2>2, <1>t, ArgsFacts
    <2>4. cGen = numberOfGenerations
      BY <2>1, <2>3, <1>t, <1>a DEF Rounds
    <2> QED
      BY <2>1, <2>2, <2>4, <1>a DEF Rounds, Stopped
  <1>7. CASE StopGame
    <2>1. cGen < numberOfGenerations /\ allDoneCounter = 0
      BY <1>7, DecideFacts DEF StopGame
    <2> QED
      BY <1>7, <2>1, <1>a DEF StopGame, Rounds, Stopped, inputVars, numberOfGenerations
  <1>8. CASE NextGeneration
    <2>1. cGen < numberOfGenerations /\ allDoneCounter = 0
      BY <1>8, DecideFacts DEF NextGeneration
    <2>2. Collected' = 0
      BY <1>8 DEF NextGeneration, Collected
    <2> QED
      BY <1>8, <2>1, <2>2, <1>a DEF NextGeneration, Rounds, inputVars, numberOfGenerations
  <1>9. CASE SendStop \/ JoinThread
    <2>1. /\ mpc \in {"stop", "join"} /\ mpc' \in {"stop", "join", "done"}
          /\ mpc = "join" => mpc' # "stop"
      BY <1>9 DEF SendStop, JoinThread, Loop
    <2>2. /\ cGen' = cGen /\ allDoneCounter' = allDoneCounter
          /\ numberOfThreads' = numberOfThreads /\ numberOfGenerations' = numberOfGenerations
      BY <1>9 DEF SendStop, JoinThread, inputVars, numberOfGenerations
    <2> QED
      BY <2>1, <2>2, <1>t DEF Rounds, Stopped
  <1>10. ASSUME NEW t \in Workers, Worker(t) PROVE Rounds'
    <2>1. mpc' = mpc
      BY <1>10, Receives DEF Worker, ComputeLine, SendGenDone, EnterBarrier, CheckBarrier,
         PostBarrier, LeaveBarrier, SendAllDone, mainVars
    <2>2. UNCHANGED <<i, cGen, allDoneCounter, inputVars>>
      BY <1>10 DEF Worker, RecvRange, RecvGo, ComputeLine, SendGenDone, EnterBarrier,
         CheckBarrier, PostBarrier, LeaveBarrier, SendAllDone, mainVars
    <2> QED
      BY <1>t, <2>1, <2>2 DEF Rounds, Collected, Stopped, numberOfGenerations, inputVars
  <1>11. CASE UNCHANGED vars
    BY <1>11, <1>t DEF vars, mainVars, inputVars, Rounds, Collected, Stopped,
       numberOfGenerations
  <1> QED
    BY <1>1, <1>2, <1>3, <1>4, <1>5, <1>6, <1>7, <1>8, <1>9, <1>10, <1>11 DEF Next, Main

\* The state of a worker depends on the messages it was sent and on its own
\* variables, only.
LEMMA SameWorkerState ==
  ASSUME NEW w \in Workers, WorkerState(w),
         lineSize' = lineSize, numberOfThreads' = numberOfThreads, args' = args,
         cGen' = cGen, wpc'[w] = wpc[w], gen'[w] = gen[w], line'[w] = line[w],
         lineFrom'[w] = lineFrom[w], lineTo'[w] = lineTo[w], box'[w] = box[w],
         Created(w)' <=> Created(w), RangeSent(w)' <=> RangeSent(w),
         GoSent(w)' <=> GoSent(w), StopSent(w)' <=> StopSent(w),
         wpc[w] = "range" => mpc' \in {"create", "range", "go"}
  PROVE  WorkerState(w)'
  <1>1. RangeOf(w)' = RangeOf(w)
    BY SharesUnchanged
  <1>2. numberOfGenerations' = numberOfGenerations
    BY DEF numberOfGenerations
  <1>3. Unread(w)' <=> Unread(w)
    BY <1>2 DEF Unread
  <1>4. PlayerState(w) => PlayerState(w)'
    BY <1>1, <1>2, <1>3 DEF PlayerState
  <1> QED
    BY <1>1, <1>4 DEF WorkerState

\* Every step of main keeps the state of each worker.
LEMMA MainKeepsWorkers ==
  ASSUME Inv, Main, mpc' \notin {"exit", "crash"}, NEW w \in Workers
  PROVE  WorkerState(w)'
  <1>t. TypeOK /\ Control /\ Rounds /\ (mpc \notin {"exit", "crash"} => WorkerState(w))
    BY DEF Inv, Protocol
  <1>a. /\ w \in Int /\ 1 <= w /\ i \in Int /\ w \in 0 .. MAXTHREAD
        /\ numberOfThreads \in Int /\ numberOfGenerations \in Int /\ cGen \in Nat
        /\ allDoneCounter \in Nat
    BY <1>t, ArgsFacts DEF TypeOK
  <1>d. DOMAIN wpc = Workers /\ DOMAIN box = 0 .. MAXTHREAD /\ gen[w] \in Nat
    BY <1>t DEF TypeOK
  <1>1. CASE CheckArgs \/ RejectFile \/ ReadFile \/ SetThreads
    <2>1. /\ mpc \in {"args", "file", "threads"} /\ mpc' \in {"file", "threads", "create"}
          /\ i' = i /\ wpc' = wpc /\ gen' = gen /\ box' = box
      BY <1>1 DEF CheckArgs, RejectFile, ReadFile, SetThreads, Continue, workVars
    <2>2. i = 1 /\ WorkerState(w)
      BY <1>t, <2>1 DEF Control
    <2>3. ~Created(w) /\ ~Created(w)'
      BY <2>1, <2>2, <1>a DEF Created, Past
    <2> QED
      BY <2>1, <2>2, <2>3 DEF WorkerState
  <1>2. CASE CreateThread
    <2>1. mpc = "create" /\ Loop(mpc, "range")
      BY <1>2 DEF CreateThread, Loop
    <2>2. /\ \/ mpc' = "create" /\ i' = i + 1 /\ i < numberOfThreads
             \/ mpc' = "range" /\ i' = 1 /\ i = numberOfThreads
          /\ i \in Workers
      BY <2>1, <1>t, LoopFacts
    <2>3. /\ UNCHANGED <<cGen, allDoneCounter, lineFrom, lineTo, gen, line, box, args, lineSize,
                         numberOfThreads>>
          /\ wpc' = [wpc EXCEPT ![i] = "range"]
      BY <1>2 DEF CreateThread, inputVars
    <2>4. /\ (Created(w)' <=> Created(w) \/ w = i)
          /\ ~RangeSent(w) /\ ~RangeSent(w)' /\ ~GoSent(w) /\ ~GoSent(w)'
          /\ ~StopSent(w) /\ ~StopSent(w)'
      BY <2>1, <2>2, <2>3, <1>a DEF Created, RangeSent, GoSent, StopSent, Past
    <2>5. WorkerState(w)
      BY <2>1, <1>t
    <2>6. CASE w = i
      <3>1. ~Created(w)
        BY <2>1, <2>6, <1>a DEF Created, Past
      <3>2. wpc[w] = "none" /\ box[w] = NoMsg /\ gen[w] = 0
        BY <2>5, <3>1 DEF WorkerState
      <3>3. cGen = 0
        BY <2>1, <1>t DEF Rounds, Stopped
      <3>4. wpc'[w] = "range"
        BY <2>3, <2>6, <1>d
      <3> QED
        BY <2>2, <2>3, <2>4, <2>6, <3>2, <3>3, <3>4 DEF WorkerState
    <2>7. CASE w # i
      <3>1. wpc'[w] = wpc[w]
        BY <2>3, <2>7, <1>d
      <3> QED
        BY <2>2, <2>3, <2>4, <2>5, <2>7, <3>1, SameWorkerState
    <2> QED
      BY <2>6, <2>7
  <1>3. CASE SendRange
    <2>1. mpc = "range" /\ Loop(mpc, "go")
      BY <1>3 DEF SendRange, Loop
    <2>2. /\ \/ mpc' = "range" /\ i' = i + 1 /\ i < numberOfThreads
             \/ mpc' = "go" /\ i' = 1 /\ i = numberOfThreads
          /\ i \in Workers
      BY <2>1, <1>t, LoopFacts
    <2>3. /\ UNCHANGED <<cGen, allDoneCounter, wpc, lineFrom, lineTo, gen, line, args, lineSize,
                         numberOfThreads>>
          /\ box' = [box EXCEPT ![i] = RangeOf(i)]
      BY <1>3 DEF SendRange, SendMsg, inputVars, workVars
    <2>4. /\ (Created(w)' <=> Created(w)) /\ (RangeSent(w)' <=> RangeSent(w) \/ w = i)
          /\ ~GoSent(w) /\ ~GoSent(w)' /\ ~StopSent(w) /\ ~StopSent(w)'
      BY <2>1, <2>2, <2>3, <1>a DEF Created, RangeSent, GoSent, StopSent, Past
    <2>5. WorkerState(w)
      BY <2>1, <1>t
    <2>6. CASE w = i
      <3>1. ~RangeSent(w) /\ Created(w)
        BY <2>1, <2>2, <2>6, <1>a DEF Created, RangeSent, Past
      <3>2. wpc[w] = "range"
        BY <2>5, <3>1 DEF WorkerState, PlayerState
      <3>3. gen[w] = 0 /\ cGen = 0
        BY <2>5, <3>2 DEF WorkerState
      <3>4. box'[w] = RangeOf(w) /\ RangeOf(w)' = RangeOf(w)
        BY <2>3, <2>6, <1>d, <1>a, SharesUnchanged
      <3> QED
        BY <2>2, <2>3, <2>4, <2>6, <3>1, <3>2, <3>3, <3>4 DEF WorkerState
    <2>7. CASE w # i
      <3>1. box'[w] = box[w]
        BY <2>3, <2>7, <1>d, <1>a
      <3> QED
        BY <2>2, <2>3, <2>4, <2>5, <2>7, <3>1, SameWorkerState
    <2> QED
      BY <2>6, <2>7
  <1>4. CASE SendGo
    <2>1. mpc = "go" /\ Loop(mpc, "recv") /\ box[i] = NoMsg
      BY <1>4 DEF SendGo, Loop, SendMsg
    <2>2. /\ \/ mpc' = "go" /\ i' = i + 1 /\ i < numberOfThreads
             \/ mpc' = "recv" /\ i' = 1 /\ i = numberOfThreads
          /\ i \in Workers
      BY <2>1, <1>t, LoopFacts
    <2>3. /\ UNCHANGED <<cGen, allDoneCounter, wpc, lineFrom, lineTo, gen, line, args, lineSize,
                         numberOfThreads>>
          /\ box' = [box EXCEPT ![i] = GO]
      BY <1>4 DEF SendGo, SendMsg, inputVars, workVars
    <2>4. /\ (Created(w)' <=> Created(w)) /\ (RangeSent(w)' <=> RangeSent(w))
          /\ (GoSent(w)' <=> GoSent(w) \/ w = i) /\ ~StopSent(w) /\ ~StopSent(w)'
      BY <2>1, <2>2, <2>3, <1>a DEF Created, RangeSent, GoSent, StopSent, Past
    <2>5. WorkerState(w)
      BY <2>1, <1>t
    <2>6. CASE w = i
      <3>1. ~GoSent(w) /\ RangeSent(w) /\ Created(w)
        BY <2>1, <2>2, <2>6, <1>a DEF Created, RangeSent, GoSent, Past
      <3>2. wpc[w] \notin {"none", "range"}
        <4>1. wpc[w] # "none" /\ box[w] = NoMsg
          BY <2>1, <2>5, <2>6, <3>1 DEF WorkerState
        <4>2. RangeOf(w) # NoMsg
          BY <2>1, <4>1, ThreadFacts, MessageFacts
        <4> QED
          BY <2>5, <3>1, <4>1, <4>2 DEF WorkerState
      <3>3. PlayerState(w)
        BY <2>5, <3>2 DEF WorkerState
      <3>4. gen[w] = cGen + 1 /\ Unread(w)
        BY <2>4, <3>1, <3>3 DEF PlayerState, Unread
      <3>5. numberOfGenerations' = numberOfGenerations
        BY <2>3 DEF numberOfGenerations
      <3>6. Unread(w)'
        BY <2>3, <3>4, <3>5 DEF Unread
      <3>7. box'[w] = GO /\ RangeOf(w)' = RangeOf(w)
        BY <2>3, <2>6, <1>d, <1>a, SharesUnchanged
      <3>8. PlayerState(w)'
        BY <2>3, <2>4, <2>6, <3>1, <3>3, <3>4, <3>5, <3>6, <3>7 DEF PlayerState
      <3> QED
        BY <2>3, <2>4, <2>5, <3>1, <3>2, <3>8 DEF WorkerState
    <2>7. CASE w # i
      <3>1. box'[w] = box[w]
        BY <2>3, <2>7, <1>d, <1>a
      <3>2. wpc[w] = "range" => mpc' \in {"create", "range", "go"}
        <4> SUFFICES ASSUME wpc[w] = "range", mpc' = "recv" PROVE FALSE
          BY <2>2
        <4>1. ~GoSent(w) /\ Created(w)
          BY <2>5 DEF WorkerState
        <4> QED
          BY <2>1, <2>2, <2>7, <4>1, <1>a DEF GoSent, Created, Past
      <3> QED
        BY <2>2, <2>3, <2>4, <2>5, <2>7, <3>1, <3>2, SameWorkerState
    <2> QED
      BY <2>6, <2>7
  <1>5. CASE RecvDone
    <2>1. mpc = "recv" /\ mpc' \in {"recv", "decide"}
      BY <1>5 DEF RecvDone, Loop
    <2>2. /\ UNCHANGED <<cGen, wpc, lineFrom, lineTo, gen, line, args, lineSize,
                         numberOfThreads>>
          /\ box' = [box EXCEPT ![0] = NoMsg]
      BY <1>5 DEF RecvDone, RecvMsg, inputVars, workVars, parent_threadID
    <2>3. /\ (Created(w)' <=> Created(w)) /\ (RangeSent(w)' <=> RangeSent(w))
          /\ (GoSent(w)' <=> GoSent(w)) /\ (StopSent(w)' <=> StopSent(w))
      BY <2>1, <2>2 DEF Created, RangeSent, GoSent, StopSent, Past
    <2>4. WorkerState(w) /\ wpc[w] # "range"
      BY <2>1, <1>t DEF WorkerState
    <2>5. box'[w] = box[w]
      BY <2>2, <1>d, <1>a
    <2> QED
      BY <2>2, <2>3, <2>4, <2>5, SameWorkerState
  <1>6. CASE AllFinished
    <2>1. /\ mpc = "decide" /\ mpc' = "join" /\ allDoneCounter = numberOfThreads
          /\ UNCHANGED <<cGen, allDoneCounter, wpc, lineFrom, lineTo, gen, line, args, lineSize,
                         numberOfThreads, box>>
      BY <1>6 DEF AllFinished, inputVars, workVars
    <2>2. numberOfThreads > 0
      BY <2>1, <1>t, ArgsFacts DEF Control
    <2>3. /\ (Created(w)' <=> Created(w)) /\ (RangeSent(w)' <=> RangeSent(w))
          /\ (GoSent(w)' <=> GoSent(w)) /\ (StopSent(w)' <=> StopSent(w))
      BY <2>1, <2>2 DEF Created, RangeSent, GoSent, StopSent, Past
    <2>4. WorkerState(w) /\ wpc[w] # "range"
      BY <2>1, <1>t DEF WorkerState
    <2> QED
      BY <2>1, <2>3, <2>4, SameWorkerState
  <1>7. CASE StopGame \/ NextGeneration
    <2>1. /\ mpc = "decide" /\ mpc' \in {"stop", "go"} /\ allDoneCounter # numberOfThreads
          /\ UNCHANGED <<i, allDoneCounter, wpc, lineFrom, lineTo, gen, line, args, lineSize,
                         numberOfThreads, box>>
          /\ cGen' = cGen + 1
      BY <1>7 DEF StopGame, NextGeneration, inputVars, workVars
    <2>2. i = 1 /\ WorkerState(w)
      BY <2>1, <1>t DEF Control
    <2>3. /\ (Created(w)' <=> Created(w)) /\ (RangeSent(w)' <=> RangeSent(w))
          /\ ~GoSent(w)' /\ ~StopSent(w)'
      BY <2>1, <2>2, <1>a DEF Created, RangeSent, GoSent, StopSent, Past
    <2>4. CASE w <= numberOfThreads
      <3>1. gen[w] = cGen + 2 /\ wpc[w] \notin {"none", "range", "compute", "gendone"}
        BY <2>1, <2>4, DecideFacts
      <3>2. PlayerState(w)
        BY <2>2, <3>1 DEF WorkerState
      <3>3. gen[w] = cGen' + 1 /\ numberOfGenerations' = numberOfGenerations
        BY <2>1, <3>1, <1>a DEF numberOfGenerations
      <3>4. box[w] = NoMsg
        BY <3>1, <3>2, <1>a DEF PlayerState, Unread
      <3>5. RangeOf(w)' = RangeOf(w)
        BY <2>1, SharesUnchanged
      <3>6. ~StopSent(w)
        BY <2>1 DEF StopSent, Past
      <3>7. PlayerState(w)'
        BY <2>1, <2>3, <3>1, <3>2, <3>3, <3>4, <3>5, <3>6 DEF PlayerState
      <3> QED
        BY <2>1, <2>2, <2>3, <3>1, <3>7 DEF WorkerState
    <2>5. CASE ~(w <= numberOfThreads)
      <3>1. wpc[w] = "none"
        BY <2>1, <2>5, DecideFacts
      <3> QED
        BY <2>1, <2>2, <2>3, <3>1 DEF WorkerState
    <2> QED
      BY <2>4, <2>5
  <1>8. CASE SendStop
    <2>1. mpc = "stop" /\ Loop(mpc, "join") /\ box[i] = NoMsg
      BY <1>8 DEF SendStop, Loop, SendMsg
    <2>2. /\ \/ mpc' = "stop" /\ i' = i + 1 /\ i < numberOfThreads
             \/ mpc' = "join" /\ i' = 1 /\ i = numberOfThreads
          /\ i \in Workers
      BY <2>1, <1>t, LoopFacts
    <2>3. /\ UNCHANGED <<cGen, allDoneCounter, wpc, lineFrom, lineTo, gen, line, args, lineSize,
                         numberOfThreads>>
          /\ box' = [box EXCEPT ![i] = STOP] /\ allDoneCounter = 0
      BY <1>8, <2>1, <1>t DEF SendStop, SendMsg, inputVars, workVars, Rounds, Stopped
    <2>4. /\ (Created(w)' <=> Created(w)) /\ (RangeSent(w)' <=> RangeSent(w))
          /\ (StopSent(w)' <=> StopSent(w) \/ w = i) /\ ~GoSent(w) /\ ~GoSent(w)'
      BY <2>1, <2>2, <2>3, <1>a DEF Created, RangeSent, GoSent, StopSent, Past
    <2>5. WorkerState(w) /\ wpc[w] # "range"
      BY <2>1, <1>t DEF WorkerState
    <2>6. CASE w = i
      <3>1. ~StopSent(w) /\ RangeSent(w) /\ Created(w)
        BY <2>1, <2>2, <2>6, <1>a DEF Created, RangeSent, StopSent, Past
      <3>2. PlayerState(w)
        BY <2>5, <3>1 DEF WorkerState
      <3>3. gen[w] = cGen + 1 /\ Unread(w)
        BY <2>4, <3>1, <3>2 DEF PlayerState, Unread
      <3>4. numberOfGenerations' = numberOfGenerations
        BY <2>3 DEF numberOfGenerations
      <3>5. Unread(w)'
        BY <2>3, <3>3, <3>4 DEF Unread
      <3>6. box'[w] = STOP /\ RangeOf(w)' = RangeOf(w)
        BY <2>3, <2>6, <1>d, <1>a, SharesUnchanged
      <3>7. PlayerState(w)'
        BY <2>3, <2>4, <2>6, <3>1, <3>2, <3>3, <3>4, <3>5, <3>6 DEF PlayerState
      <3> QED
        BY <2>3, <2>4, <2>5, <3>1, <3>7 DEF WorkerState
    <2>7. CASE w # i
      <3>1. box'[w] = box[w]
        BY <2>3, <2>7, <1>d, <1>a
      <3> QED
        BY <2>2, <2>3, <2>4, <2>5, <2>7, <3>1, SameWorkerState
    <2> QED
      BY <2>6, <2>7
  <1>9. CASE JoinThread
    <2>1. /\ mpc = "join" /\ mpc' \in {"join", "done"}
          /\ UNCHANGED <<cGen, allDoneCounter, wpc, lineFrom, lineTo, gen, line, args, lineSize,
                         numberOfThreads, box>>
      BY <1>9 DEF JoinThread, Loop, inputVars, workVars
    <2>2. /\ (Created(w)' <=> Created(w)) /\ (RangeSent(w)' <=> RangeSent(w))
          /\ (GoSent(w)' <=> GoSent(w)) /\ (StopSent(w)' <=> StopSent(w))
      BY <2>1 DEF Created, RangeSent, GoSent, StopSent, Past
    <2>3. WorkerState(w) /\ wpc[w] # "range"
      BY <2>1, <1>t DEF WorkerState
    <2> QED
      BY <2>1, <2>2, <2>3, SameWorkerState
  <1>10. CASE CreateThreadFails
    BY <1>10 DEF CreateThreadFails
  <1> QED
    BY <1>1, <1>2, <1>3, <1>4, <1>5, <1>6, <1>7, <1>8, <1>9, <1>10 DEF Main

\* A step of a worker leaves main and the input alone; the worker was created.
LEMMA WorkerFrame ==
  ASSUME Inv, NEW t \in Workers, Worker(t)
  PROVE  /\ UNCHANGED <<mpc, i, cGen, allDoneCounter, before, args, lineSize, columnSize,
                        numberOfThreads, numberOfGenerations>>
         /\ mpc \notin {"exit", "crash", "done"} /\ wpc[t] # "none"
         /\ \A u : /\ (Created(u)' <=> Created(u)) /\ (RangeSent(u)' <=> RangeSent(u))
                  /\ (GoSent(u)' <=> GoSent(u)) /\ (StopSent(u)' <=> StopSent(u))
                  /\ RangeOf(u)' = RangeOf(u)
  <1>1. UNCHANGED mpc
    BY Receives DEF Worker, ComputeLine, SendGenDone, EnterBarrier, CheckBarrier,
       PostBarrier, LeaveBarrier, SendAllDone, mainVars
  <1>2. UNCHANGED <<i, cGen, allDoneCounter, before, inputVars>>
    BY DEF Worker, RecvRange, RecvGo, ComputeLine, SendGenDone, EnterBarrier, CheckBarrier,
       PostBarrier, LeaveBarrier, SendAllDone, mainVars
  <1>3. mpc \notin {"exit", "crash", "done"} /\ wpc[t] # "none"
    BY DEF Worker, RecvRange, RecvGo, ComputeLine, SendGenDone, EnterBarrier, CheckBarrier,
       PostBarrier, LeaveBarrier, SendAllDone, Goto, Running
  <1>4. UNCHANGED <<args, lineSize, columnSize, numberOfThreads, numberOfGenerations>>
    BY <1>2 DEF inputVars, numberOfGenerations
  <1>5. \A u : /\ (Created(u)' <=> Created(u)) /\ (RangeSent(u)' <=> RangeSent(u))
              /\ (GoSent(u)' <=> GoSent(u)) /\ (StopSent(u)' <=> StopSent(u))
    BY <1>1, <1>2, <1>4 DEF Created, RangeSent, GoSent, StopSent, Past
  <1> QED
    BY <1>1, <1>2, <1>3, <1>4, <1>5, SharesUnchanged

\* Every step of a worker keeps the state of each worker.
LEMMA WorkersKeepWorkers ==
  ASSUME Inv, NEW t \in Workers, Worker(t), NEW w \in Workers
  PROVE  WorkerState(w)'
  <1>t. TypeOK /\ WorkerState(w)
    BY WorkerFrame DEF Inv, Protocol
  <1>u. UNCHANGED <<mpc, i, cGen, allDoneCounter, args, lineSize, numberOfThreads,
                    numberOfGenerations>>
    BY WorkerFrame
  <1>e. /\ (Created(w)' <=> Created(w)) /\ (RangeSent(w)' <=> RangeSent(w))
        /\ (GoSent(w)' <=> GoSent(w)) /\ (StopSent(w)' <=> StopSent(w))
        /\ RangeOf(w)' = RangeOf(w)
    BY WorkerFrame
  <1>a. /\ w \in 0 .. MAXTHREAD /\ t \in 0 .. MAXTHREAD /\ t # 0 /\ w # 0
        /\ numberOfGenerations \in Int /\ cGen \in Nat
    BY <1>t, ArgsFacts DEF TypeOK
  <1>d. /\ DOMAIN wpc = Workers /\ DOMAIN box = 0 .. MAXTHREAD /\ DOMAIN gen = Workers
        /\ DOMAIN line = Workers /\ DOMAIN lineFrom = Workers /\ DOMAIN lineTo = Workers
        /\ gen[w] \in Nat /\ line[w] \in Nat
    BY <1>t DEF TypeOK
  <1>r. wpc[w] = "range" => mpc \in {"create", "range", "go"}
    BY <1>t DEF WorkerState
  <1>1. CASE w # t
    <2>1. /\ wpc'[w] = wpc[w] /\ gen'[w] = gen[w] /\ line'[w] = line[w]
          /\ lineFrom'[w] = lineFrom[w] /\ lineTo'[w] = lineTo[w]
      BY <1>1, <1>d DEF Worker, RecvRange, RecvGo, ComputeLine, SendGenDone, EnterBarrier,
         CheckBarrier, PostBarrier, LeaveBarrier, SendAllDone, Goto
    <2>2. box'[w] = box[w]
      BY <1>1, <1>d, <1>a DEF Worker, RecvRange, RecvGo, ComputeLine, SendGenDone,
         EnterBarrier, CheckBarrier, PostBarrier, LeaveBarrier, SendAllDone, SendMsg, RecvMsg,
         parent_threadID
    <2> QED
      BY <2>1, <2>2, <1>t, <1>u, <1>e, <1>r, SameWorkerState
  <1>2. CASE w = t /\ RecvRange(w)
    <2>1. /\ wpc[w] = "range" /\ wpc'[w] = "go" /\ box'[w] = NoMsg
          /\ lineFrom'[w] = box[w].value1 /\ lineTo'[w] = box[w].value2
          /\ gen'[w] = 1
      BY <1>2, <1>d, <1>a DEF RecvRange, Goto, RecvMsg, Received
    <2>2. box[w] = RangeOf(w) /\ RangeSent(w)
      BY <1>2, Receives
    <2>3. ~GoSent(w) /\ cGen = 0 /\ Created(w) /\ mpc \in {"create", "range", "go"}
      BY <1>t, <2>1 DEF WorkerState
    <2>4. ~StopSent(w)
      BY <2>3 DEF StopSent, Past
    <2>5. numberOfGenerations > 0
      BY <2>3 DEF Inv, Control
    <2>6. PlayerState(w)'
      BY <2>1, <2>2, <2>3, <2>4, <2>5, <1>u, <1>e, <1>a DEF PlayerState
    <2> QED
      BY <2>1, <2>3, <2>6, <1>e DEF WorkerState
  <1>3. CASE w = t /\ RecvGo(w)
    <2>1. /\ PlayerState(w) /\ Unread(w)
          /\ \/ box[w] = GO /\ GoSent(w)
             \/ box[w] = STOP /\ StopSent(w) /\ ~GoSent(w)
      BY <1>3, Receives
    <2>2. /\ wpc[w] = "go" /\ box'[w] = NoMsg /\ line'[w] = lineFrom[w]
          /\ UNCHANGED <<gen, lineFrom, lineTo>>
          /\ wpc'[w] = IF box[w].type = "STOP" THEN "finished" ELSE "compute"
      BY <1>3, <1>d, <1>a DEF RecvGo, Goto, RecvMsg, Received
    <2>3. GO.type = "GO" /\ STOP.type = "STOP"
      BY MessageFacts
    <2>4. /\ RangeOf(w).value1 \in Cells /\ RangeOf(w).value2 \in Cells
          /\ RangeOf(w).value1 <= RangeOf(w).value2
      BY <2>2, WorkerFrame, ThreadFacts
    <2>5. lineFrom[w] \in lineFrom[w] .. lineTo[w]
      BY <2>1, <2>4, LifeAssumption DEF PlayerState, Cells
    <2>6. gen[w] = cGen + 1 /\ gen[w] <= numberOfGenerations
      BY <2>1, <2>2 DEF PlayerState, Unread
    <2>7. CASE box[w] = GO /\ GoSent(w)
      <3>1. wpc'[w] = "compute"
        BY <2>2, <2>3, <2>7
      <3>2. PlayerState(w)'
        BY <2>1, <2>2, <2>5, <2>6, <2>7, <3>1, <1>u, <1>e DEF PlayerState, Unread
      <3> QED
        BY <2>1, <2>2, <3>1, <3>2, <1>e, <1>t DEF WorkerState
    <2>8. CASE box[w] = STOP /\ StopSent(w) /\ ~GoSent(w)
      <3>1. wpc'[w] = "finished"
        BY <2>2, <2>3, <2>8
      <3>2. ~Unread(w)'
        BY <2>2, <2>6, <3>1, <1>u, <1>a, <1>d DEF Unread
      <3>3. PlayerState(w)'
        BY <2>1, <2>2, <2>6, <2>8, <3>1, <3>2, <1>u, <1>e DEF PlayerState
      <3> QED
        BY <2>1, <2>2, <3>1, <3>3, <1>e, <1>t DEF WorkerState
    <2> QED
      BY <2>1, <2>7, <2>8
  <1>4. CASE w = t /\ ComputeLine(w)
    <2>1. /\ wpc[w] = "compute" /\ line'[w] = line[w] + 1
          /\ UNCHANGED <<gen, lineFrom, lineTo, box>>
          /\ wpc'[w] = IF line[w] < lineTo[w] THEN "compute" ELSE "gendone"
      BY <1>4, <1>d, <1>a DEF ComputeLine, Goto
    <2>2. PlayerState(w)
      BY <2>1, <1>t DEF WorkerState
    <2>3. lineFrom[w] \in Int /\ lineTo[w] \in Int /\ line[w] \in lineFrom[w] .. lineTo[w]
      <3>1. lineFrom[w] \in Cells /\ lineTo[w] \in Cells
        BY <1>t DEF TypeOK
      <3>2. Cells \subseteq Int
        BY LifeAssumption DEF Cells
      <3>3. line[w] \in lineFrom[w] .. lineTo[w]
        BY <2>1, <2>2, Zenon DEF PlayerState
      <3> QED
        BY <3>1, <3>2, <3>3
    <2>4. wpc'[w] = "compute" => line'[w] \in lineFrom[w] .. lineTo[w]
      BY <2>1, <2>3, <1>d
    <2>5. wpc'[w] \in {"compute", "gendone"}
      BY <2>1
    <2>6. PlayerState(w)'
      BY <2>1, <2>2, <2>4, <2>5, <1>u, <1>e DEF PlayerState, Unread
    <2> QED
      BY <2>1, <2>5, <2>6, <1>e, <1>t DEF WorkerState
  <1>5. CASE w = t /\ SendGenDone(w)
    <2>1. /\ wpc[w] = "gendone" /\ gen'[w] = gen[w] + 1 /\ box'[w] = box[w]
          /\ UNCHANGED <<lineFrom, lineTo, line>>
          /\ wpc'[w] = IF gen[w] < numberOfGenerations THEN "go" ELSE "barrier"
      BY <1>5, <1>d, <1>a DEF SendGenDone, Goto, SendMsg, parent_threadID
    <2>2. PlayerState(w)
      BY <2>1, <1>t DEF WorkerState
    <2>3. gen[w] = cGen + 1 /\ GoSent(w) /\ gen[w] <= numberOfGenerations /\ box[w] = NoMsg
      BY <2>1, <2>2 DEF PlayerState, Unread
    <2>4. gen'[w] = cGen + 2 /\ gen'[w] \in 1 .. numberOfGenerations + 1
      BY <2>1, <2>3, <1>a
    <2>5. \/ wpc'[w] = "go" /\ gen'[w] <= numberOfGenerations
          \/ wpc'[w] = "barrier" /\ gen'[w] = numberOfGenerations + 1
      BY <2>1, <2>3, <1>a
    <2>6. ~Unread(w)'
      BY <2>4, <1>u, <1>a DEF Unread
    <2>7. PlayerState(w)'
      BY <2>1, <2>2, <2>3, <2>4, <2>5, <2>6, <1>u, <1>e DEF PlayerState
    <2> QED
      BY <2>1, <2>5, <2>7, <1>e, <1>t DEF WorkerState
  <1>6. CASE w = t /\ (EnterBarrier(w) \/ CheckBarrier(w) \/ PostBarrier(w)
                       \/ LeaveBarrier(w) \/ SendAllDone(w))
    <2>1. /\ wpc[w] \in {"barrier", "check", "post", "wait", "alldone"}
          /\ wpc'[w] \in {"check", "post", "wait", "alldone", "finished"}
          /\ UNCHANGED <<lineFrom, lineTo, gen>>
      BY <1>6, <1>d
      DEF EnterBarrier, CheckBarrier, PostBarrier, LeaveBarrier, SendAllDone, Goto
    <2>2. box'[w] = box[w]
      BY <1>6, <1>d, <1>a DEF EnterBarrier, CheckBarrier, PostBarrier, LeaveBarrier,
         SendAllDone, SendMsg, parent_threadID
    <2>3. PlayerState(w)
      BY <2>1, <1>t DEF WorkerState
    <2>4. gen[w] = numberOfGenerations + 1
      BY <2>1, <2>3 DEF PlayerState
    <2>5. Unread(w)' <=> Unread(w)
      BY <2>1, <2>4, <1>u DEF Unread
    <2>6. PlayerState(w)'
      BY <2>1, <2>2, <2>3, <2>4, <2>5, <1>u, <1>e DEF PlayerState
    <2> QED
      BY <2>1, <2>6, <1>e, <1>t DEF WorkerState
  <1> QED
    BY <1>1, <1>2, <1>3, <1>4, <1>5, <1>6 DEF Worker

\* Every step keeps the count of the messages to main.
LEMMA AnswersPreserved ==
  ASSUME Inv, [Next]_vars, mpc' \notin {"exit", "crash"}
  PROVE  AnswersCounted'
  <1>t. /\ TypeOK /\ Control /\ Rounds
        /\ mpc \notin {"exit", "crash"} =>
              AnswersCounted /\ \A u \in Workers : WorkerState(u)
    BY DEF Inv, Protocol
  <1>a. /\ 0 \in 0 .. MAXTHREAD /\ i \in Int /\ numberOfThreads \in Int
        /\ numberOfGenerations \in Int /\ cGen \in Nat /\ allDoneCounter \in Nat
        /\ i \in Workers /\ i # 0 /\ 0 \notin Workers
    BY <1>t, ArgsFacts DEF TypeOK
  <1>d. /\ DOMAIN box = 0 .. MAXTHREAD /\ DOMAIN wpc = Workers /\ DOMAIN gen = Workers
        /\ gen \in [Workers -> Nat]
    BY <1>t DEF TypeOK
  <1>m. GENDONE # ALLDONE /\ GENDONE # NoMsg /\ ALLDONE # NoMsg
    BY MessageFacts
  <1>1. CASE CheckArgs \/ RejectFile \/ ReadFile \/ SetThreads
    <2>1. /\ mpc \in {"args", "file", "threads"} /\ mpc' \in {"file", "threads", "create"}
          /\ UNCHANGED <<wpc, gen, box, args, allDoneCounter>>
      BY <1>1 DEF CheckArgs, RejectFile, ReadFile, SetThreads, Continue, workVars
    <2>2. AllDoneSent' = AllDoneSent
      BY <2>1 DEF AllDoneSent, numberOfGenerations
    <2>3. box[0] = NoMsg
      BY <2>1, <1>t, <1>a DEF Control
    <2> QED
      BY <2>1, <2>2, <2>3, <1>t, <1>m DEF AnswersCounted, parent_threadID
  <1>2. CASE CreateThread
    <2>1. /\ mpc = "create" /\ mpc' \in {"create", "range"}
          /\ UNCHANGED <<gen, box, args, allDoneCounter, cGen>>
          /\ wpc' = [wpc EXCEPT ![i] = "range"]
      BY <1>2 DEF CreateThread, Loop, inputVars
    <2>2. ~Created(i)
      BY <2>1, <1>a DEF Created, Past
    <2>3. wpc[i] = "none"
      BY <2>1, <2>2, <1>t, <1>a DEF WorkerState
    <2>4. AllDoneSent' = AllDoneSent
      BY <2>1, <2>3, <1>d DEF AllDoneSent, numberOfGenerations
    <2>5. box[0] = NoMsg
      BY <2>1, <1>t, <1>a DEF Control
    <2> QED
      BY <2>1, <2>4, <2>5, <1>t, <1>m DEF AnswersCounted, parent_threadID
  <1>3. CASE SendRange \/ SendGo \/ SendStop \/ JoinThread
    <2>1. /\ UNCHANGED <<wpc, gen, args, allDoneCounter, cGen, numberOfThreads>>
          /\ mpc \notin {"exit", "crash"}
      BY <1>3 DEF SendRange, SendGo, SendStop, JoinThread, Loop, inputVars, workVars
    <2>2. box'[0] = box[0]
      BY <1>3, <1>a, <1>d DEF SendRange, SendGo, SendStop, JoinThread, SendMsg
    <2>3. AllDoneSent' = AllDoneSent /\ Answered' = Answered
          /\ numberOfGenerations' = numberOfGenerations
      BY <2>1 DEF AllDoneSent, Answered, numberOfGenerations
    <2>4. CASE SendRange
      <3>1. mpc = "range" /\ mpc' \in {"range", "go"}
        BY <2>4 DEF SendRange, Loop
      <3>2. \A u \in Workers : ~GoSent(u)
        BY <3>1 DEF GoSent, Past
      <3>3. ASSUME NEW u \in Workers PROVE gen[u] # cGen + 2
        BY <3>1, <3>2, <1>t, <1>a DEF WorkerState, PlayerState
      <3>4. Answered = {}
        BY <3>3 DEF Answered
      <3>5. Collected' = 0 /\ Cardinality(Answered) = 0
        BY <3>1, <3>4, FS_EmptySet DEF Collected
      <3>6. box[0] # GENDONE
        BY <3>1, <1>t DEF AnswersCounted, parent_threadID
      <3> QED
        BY <2>1, <2>2, <2>3, <3>1, <3>5, <3>6, <1>t DEF AnswersCounted, parent_threadID
    <2>5. CASE SendGo
      <3>1. mpc = "go" /\ Loop(mpc, "recv")
        BY <2>5 DEF SendGo, Loop
      <3>2. mpc' = "go" \/ (mpc' = "recv" /\ i' = 1)
        BY <3>1, <1>t, LoopFacts
      <3>3. Collected = 0 /\ Collected' = 0
        BY <3>1, <3>2 DEF Collected
      <3> QED
        BY <2>1, <2>2, <2>3, <3>1, <3>2, <3>3, <1>t DEF AnswersCounted, parent_threadID
    <2>6. CASE SendStop \/ JoinThread
      <3>1. mpc \in {"stop", "join"} /\ mpc' \in {"stop", "join", "done"}
        BY <2>6 DEF SendStop, JoinThread, Loop
      <3> QED
        BY <2>1, <2>2, <2>3, <3>1, <1>t DEF AnswersCounted, parent_threadID
    <2> QED
      BY <1>3, <2>4, <2>5, <2>6
  <1>4. CASE RecvDone
    <2>1. mpc = "recv" /\ Loop(mpc, "decide") /\ box[0] # NoMsg
      BY <1>4 DEF RecvDone, Loop, RecvMsg, parent_threadID
    <2>2. \/ mpc' = "recv" /\ i' = i + 1
          \/ mpc' = "decide" /\ i' = 1 /\ i = numberOfThreads
      BY <2>1, <1>t, LoopFacts
    <2>3. /\ UNCHANGED <<wpc, gen, args, cGen, numberOfThreads>>
          /\ box' = [box EXCEPT ![0] = NoMsg]
          /\ allDoneCounter' = IF box[0].type = "ALLDONE" THEN allDoneCounter + 1
                               ELSE allDoneCounter
      BY <1>4 DEF RecvDone, inputVars, workVars, RecvMsg, Received, parent_threadID
    <2>4. AllDoneSent' = AllDoneSent /\ Answered' = Answered
          /\ numberOfGenerations' = numberOfGenerations
      BY <2>3 DEF AllDoneSent, Answered, numberOfGenerations
    <2>5. Collected = i - 1 /\ Collected' = i
      BY <2>1, <2>2, <2>3, <1>a DEF Collected
    <2>6. box'[0] = NoMsg
      BY <2>3, <1>d, <1>a
    <2>7. GENDONE.type = "GENDONE" /\ ALLDONE.type = "ALLDONE"
      BY MessageFacts
    <2>8. CASE cGen < numberOfGenerations
      <3>1. box[0] = GENDONE
        BY <2>1, <2>8, RecvFacts
      <3>2. allDoneCounter' = allDoneCounter
        BY <2>3, <2>7, <3>1
      <3>3. Cardinality(Answered) = (i - 1) + 1
        BY <2>1, <2>5, <2>8, <3>1, <1>t DEF AnswersCounted, parent_threadID
      <3>4. Cardinality(Answered) = i + 0
        BY <3>3, <1>a
      <3>5. Cardinality(AllDoneSent) = allDoneCounter + 0
        BY <2>1, <3>1, <1>t, <1>m DEF AnswersCounted, parent_threadID
      <3> QED
        BY <2>2, <2>3, <2>4, <2>5, <2>6, <3>2, <3>4, <3>5, <1>m
        DEF AnswersCounted, parent_threadID
    <2>9. CASE ~(cGen < numberOfGenerations)
      <3>1. box[0] = ALLDONE
        BY <2>1, <2>9, <1>a, RecvFacts
      <3>2. allDoneCounter' = allDoneCounter + 1
        BY <2>3, <2>7, <3>1
      <3>3. Cardinality(AllDoneSent) = allDoneCounter + 1
        BY <2>1, <3>1, <1>t DEF AnswersCounted, parent_threadID
      <3>4. Cardinality(AllDoneSent) = allDoneCounter' + 0
        BY <3>2, <3>3, <1>a
      <3> QED
        BY <2>2, <2>3, <2>4, <2>6, <2>9, <3>4, <1>m DEF AnswersCounted, parent_threadID
    <2> QED
      BY <2>8, <2>9
  <1>5. CASE AllFinished
    <2>1. /\ mpc = "decide" /\ mpc' = "join" /\ allDoneCounter = numberOfThreads
          /\ UNCHANGED <<wpc, gen, args, cGen, allDoneCounter, box>>
      BY <1>5 DEF AllFinished, inputVars, workVars
    <2>2. AllDoneSent' = AllDoneSent
      BY <2>1 DEF AllDoneSent, numberOfGenerations
    <2>3. numberOfThreads # 0
      BY <2>1, <1>t, <1>a DEF Control
    <2>4. box[0] # GENDONE
      BY <2>1, <2>3, <1>t, <1>a DEF AnswersCounted, parent_threadID, Rounds
    <2> QED
      BY <2>1, <2>2, <2>4, <1>t DEF AnswersCounted, parent_threadID
  <1>6. CASE StopGame \/ NextGeneration
    <2>1. /\ mpc = "decide" /\ mpc' \in {"stop", "go"} /\ allDoneCounter # numberOfThreads
          /\ UNCHANGED <<wpc, gen, args, allDoneCounter, box>> /\ cGen' = cGen + 1
      BY <1>6 DEF StopGame, NextGeneration, inputVars, workVars
    <2>2. AllDoneSent' = AllDoneSent
      BY <2>1 DEF AllDoneSent, numberOfGenerations
    <2>3. /\ box[0] # GENDONE
          /\ \A t \in Workers : t <= numberOfThreads => gen[t] = cGen + 2
          /\ \A t \in Workers : ~(t <= numberOfThreads) => wpc[t] = "none"
      BY <2>1, DecideFacts
    <2>4. ASSUME NEW t \in Workers PROVE gen'[t] # cGen' + 2
      <3>1. CASE t <= numberOfThreads
        BY <2>1, <2>3, <3>1, <1>a
      <3>2. CASE ~(t <= numberOfThreads)
        <4>1. gen[t] = 0
          BY <2>1, <2>3, <3>2, <1>t DEF WorkerState
        <4> QED
          BY <2>1, <4>1, <1>a
      <3> QED
        BY <3>1, <3>2
    <2>5. Answered' = {}
      BY <2>4 DEF Answered
    <2>6. Cardinality(Answered)' = 0 /\ Collected' = 0
      BY <2>1, <2>5, FS_EmptySet DEF Collected
    <2> QED
      BY <2>1, <2>2, <2>3, <2>6, <1>t DEF AnswersCounted, parent_threadID
  <1>7. CASE CreateThreadFails
    BY <1>7 DEF CreateThreadFails
  <1>8. ASSUME NEW t \in Workers, Worker(t) PROVE AnswersCounted'
    <2>u. /\ UNCHANGED <<mpc, i, cGen, allDoneCounter, numberOfThreads, numberOfGenerations>>
          /\ mpc \notin {"exit", "crash"} /\ wpc[t] # "none"
      BY <1>8, WorkerFrame
    <2>w. WorkerState(t) /\ t \in 0 .. MAXTHREAD /\ t # 0
      BY <2>u, <1>t, <1>a, ArgsFacts
    <2>c. Collected' = Collected
      BY <2>u DEF Collected
    <2>1. CASE RecvRange(t) \/ RecvGo(t) \/ ComputeLine(t) \/ EnterBarrier(t)
               \/ CheckBarrier(t) \/ PostBarrier(t) \/ LeaveBarrier(t)
      <3>1. box'[0] = box[0]
        BY <2>1, <2>w, <1>a, <1>d DEF RecvRange, RecvGo, ComputeLine, EnterBarrier,
           CheckBarrier, PostBarrier, LeaveBarrier, RecvMsg
      <3>2. gen' = gen \/ (RecvRange(t) /\ gen' = [gen EXCEPT ![t] = 1])
        BY <2>1 DEF RecvRange, RecvGo, ComputeLine, EnterBarrier, CheckBarrier, PostBarrier,
           LeaveBarrier
      <3>3. RecvRange(t) => gen[t] = 0 /\ cGen = 0
        BY <2>w DEF RecvRange, Goto, WorkerState
      <3>4. Answered' = Answered
        <4>1. ASSUME NEW u \in Workers PROVE gen'[u] = cGen' + 2 <=> gen[u] = cGen + 2
          BY <2>u, <3>2, <3>3, <1>d
        <4> QED
          BY <4>1 DEF Answered
      <3>5. ASSUME NEW u \in Workers
            PROVE  /\ wpc'[u] = "finished" /\ gen'[u] = numberOfGenerations + 1
                   <=> wpc[u] = "finished" /\ gen[u] = numberOfGenerations + 1
        <4>1. CASE u # t
          BY <2>1, <3>2, <4>1, <1>d DEF RecvRange, RecvGo, ComputeLine, EnterBarrier,
             CheckBarrier, PostBarrier, LeaveBarrier, Goto
        <4>2. CASE u = t /\ ~RecvGo(t)
          BY <2>1, <4>2, <1>d DEF RecvRange, ComputeLine, EnterBarrier, CheckBarrier,
             PostBarrier, LeaveBarrier, Goto
        <4>3. CASE u = t /\ RecvGo(t)
          <5>1. wpc[t] = "go" /\ gen' = gen
            BY <4>3 DEF RecvGo, Goto
          <5>2. gen[t] <= numberOfGenerations
            BY <2>w, <5>1 DEF WorkerState, PlayerState
          <5>3. gen[t] # numberOfGenerations + 1
            BY <5>2, <1>d, <1>a
          <5> QED
            BY <4>3, <5>1, <5>3
        <4> QED
          BY <4>1, <4>2, <4>3
      <3>6. AllDoneSent' = AllDoneSent
        BY <2>u, <3>5 DEF AllDoneSent
      <3> QED
        BY <2>u, <2>c, <3>1, <3>4, <3>6, <1>t DEF AnswersCounted, parent_threadID
    <2>2. CASE SendGenDone(t)
      <3>1. /\ wpc[t] = "gendone" /\ gen' = [gen EXCEPT ![t] = gen[t] + 1]
            /\ box[0] = NoMsg /\ box'[0] = GENDONE
            /\ wpc' = [wpc EXCEPT ![t] = IF gen[t] < numberOfGenerations THEN "go" ELSE "barrier"]
        BY <2>2, <1>d, <1>a DEF SendGenDone, Goto, SendMsg, parent_threadID
      <3>2. gen[t] = cGen + 1 /\ gen[t] <= numberOfGenerations /\ GoSent(t)
        BY <2>w, <3>1 DEF WorkerState, PlayerState
      <3>3. cGen < numberOfGenerations
        BY <3>2, <1>a
      <3>4. mpc \in {"go", "recv", "decide"}
        BY <3>2, <3>3, <1>t, <1>a DEF GoSent, Past, Rounds, Stopped
      <3>5. Answered' = Answered \cup {t} /\ t \notin Answered
        <4>1. gen'[t] = cGen + 2 /\ gen[t] # cGen + 2
          BY <3>1, <3>2, <1>d, <1>a
        <4>2. ASSUME NEW u \in Workers, u # t PROVE gen'[u] = gen[u]
          BY <3>1, <4>2, <1>d
        <4> QED
          BY <2>u, <4>1, <4>2 DEF Answered
      <3>6. IsFiniteSet(Answered)
        BY <2>u, CountedFacts
      <3>7. Cardinality(Answered') = Cardinality(Answered) + 1
        BY <3>5, <3>6, FS_AddElement
      <3>8. Cardinality(Answered) = Collected + 0 /\ Cardinality(AllDoneSent) = allDoneCounter + 0
        BY <2>u, <3>1, <3>3, <3>4, <1>t, <1>m DEF AnswersCounted, parent_threadID
      <3>9. AllDoneSent' = AllDoneSent
        <4>1. wpc'[t] # "finished"
          BY <3>1, <1>d
        <4>2. ASSUME NEW u \in Workers, u # t PROVE gen'[u] = gen[u] /\ wpc'[u] = wpc[u]
          BY <3>1, <4>2, <1>d
        <4> QED
          BY <2>u, <3>1, <4>1, <4>2 DEF AllDoneSent
      <3>10. Collected \in Int
        BY <1>a DEF Collected
      <3>11. Cardinality(Answered') = Collected' + 1
        BY <2>c, <3>7, <3>8, <3>10
      <3> QED
        BY <2>u, <3>1, <3>3, <3>4, <3>8, <3>9, <3>11, <1>m DEF AnswersCounted, parent_threadID
    <2>3. CASE SendAllDone(t)
      <3>1. /\ wpc[t] = "alldone" /\ gen' = gen /\ box[0] = NoMsg /\ box'[0] = ALLDONE
            /\ wpc' = [wpc EXCEPT ![t] = "finished"]
        BY <2>3, <1>d, <1>a DEF SendAllDone, Goto, SendMsg, parent_threadID
      <3>2. gen[t] = numberOfGenerations + 1
        BY <2>w, <3>1 DEF WorkerState, PlayerState
      <3>3. AllDoneSent' = AllDoneSent \cup {t} /\ t \notin AllDoneSent
        <4>1. wpc'[t] = "finished" /\ wpc[t] # "finished"
          BY <3>1, <1>d
        <4>2. ASSUME NEW u \in Workers, u # t PROVE wpc'[u] = wpc[u]
          BY <3>1, <4>2, <1>d
        <4> QED
          BY <2>u, <3>1, <3>2, <4>1, <4>2 DEF AllDoneSent
      <3>4. IsFiniteSet(AllDoneSent)
        BY <2>u, CountedFacts
      <3>5. Cardinality(AllDoneSent') = Cardinality(AllDoneSent) + 1
        BY <3>3, <3>4, FS_AddElement
      <3>6. Cardinality(AllDoneSent) = allDoneCounter + 0
        BY <2>u, <3>1, <1>t, <1>m DEF AnswersCounted, parent_threadID
      <3>7. Cardinality(AllDoneSent') = allDoneCounter' + 1
        BY <2>u, <3>5, <3>6, <1>a
      <3>8. Answered' = Answered
        BY <2>u, <3>1 DEF Answered
      <3> QED
        BY <2>u, <2>c, <3>1, <3>7, <3>8, <1>t, <1>m DEF AnswersCounted, parent_threadID
    <2> QED
      BY <1>8, <2>1, <2>2, <2>3 DEF Worker
  <1>9. CASE UNCHANGED vars
    <2>1. UNCHANGED <<mpc, i, cGen, allDoneCounter, wpc, gen, box, args, numberOfThreads>>
      BY <1>9 DEF vars, mainVars, workVars, inputVars
    <2>2. /\ AllDoneSent' = AllDoneSent /\ Answered' = Answered /\ Collected' = Collected
          /\ numberOfGenerations' = numberOfGenerations
      BY <2>1 DEF AllDoneSent, Answered, Collected, numberOfGenerations
    <2> QED
      BY <2>1, <2>2, <1>t DEF AnswersCounted
  <1> QED
    BY <1>1, <1>2, <1>3, <1>4, <1>5, <1>6, <1>7, <1>8, <1>9 DEF Next, Main

\* Every step keeps the count of the workers at the barrier, and nobody passes it
\* too early.
LEMMA BarrierPreserved ==
  ASSUME Inv, [Next]_vars, mpc' \notin {"exit", "crash"}
  PROVE  Barrier'
  <1>t. /\ TypeOK /\ Control /\ Rounds
        /\ mpc \notin {"exit", "crash"} => Barrier /\ \A u \in Workers : WorkerState(u)
    BY DEF Inv, Protocol
  <1>a. /\ i \in Int /\ numberOfThreads \in Int /\ i \in Workers
        /\ numberOfGenerations \in Int /\ barrierCount \in Nat /\ alldone_sem \in Nat
    BY <1>t, ArgsFacts DEF TypeOK
  <1>d. DOMAIN wpc = Workers /\ DOMAIN gen = Workers /\ gen \in [Workers -> Nat]
    BY <1>t DEF TypeOK
  <1>1. CASE CheckArgs \/ RejectFile \/ ReadFile \/ SetThreads
    <2>1. /\ mpc \in {"args", "file", "threads"} /\ i = 1
          /\ UNCHANGED <<wpc, gen, args, barrierCount, alldone_sem>>
      BY <1>1, <1>t DEF CheckArgs, RejectFile, ReadFile, SetThreads, Continue, workVars,
         barrierVars, Control
    <2>2. ASSUME NEW u \in Workers PROVE wpc[u] = "none"
      BY <2>1, <1>t DEF WorkerState, Created, Past
    <2>3. AllDoneSent = {} /\ Arrived = {} /\ AllDoneSent' = {} /\ Arrived' = {}
      BY <2>1, <2>2 DEF AllDoneSent, Arrived
    <2>4. barrierCount = 0
      BY <2>1, <2>3, <1>t, FS_EmptySet DEF Barrier
    <2>5. ~(alldone_sem > 0)
      BY <2>1, <2>4, <1>t DEF Barrier
    <2> QED
      BY <2>1, <2>2, <2>3, <2>4, <2>5, FS_EmptySet DEF Barrier
  <1>s. ASSUME mpc \notin {"exit", "crash"}, AllDoneSent' = AllDoneSent, Arrived' = Arrived,
               UNCHANGED <<barrierCount, alldone_sem, numberOfThreads>>,
               \A u \in Workers : wpc'[u] \in {"post", "alldone"} =>
                  wpc[u] \in {"post", "alldone"}
        PROVE  Barrier'
    BY <1>s, <1>t DEF Barrier
  <1>2. CASE CreateThread
    <2>1. /\ mpc = "create" /\ wpc' = [wpc EXCEPT ![i] = "range"]
          /\ UNCHANGED <<gen, args, barrierCount, alldone_sem, numberOfThreads>>
      BY <1>2 DEF CreateThread, Loop, inputVars, barrierVars
    <2>2. ~Created(i)
      BY <2>1, <1>a DEF Created, Past
    <2>3. wpc[i] = "none"
      BY <2>1, <2>2, <1>t, <1>a DEF WorkerState
    <2>4. AllDoneSent' = AllDoneSent
      BY <2>1, <2>3, <1>d DEF AllDoneSent, numberOfGenerations
    <2>5. Arrived' = Arrived
      BY <2>1, <2>3, <2>4, <1>d DEF Arrived
    <2> QED
      BY <2>1, <2>4, <2>5, <1>d, <1>s
  <1>3. CASE SendRange \/ SendGo \/ RecvDone \/ AllFinished \/ StopGame \/ NextGeneration
             \/ SendStop \/ JoinThread \/ CreateThreadFails
    <2>1. /\ mpc \notin {"exit", "crash"}
          /\ UNCHANGED <<wpc, gen, args, barrierCount, alldone_sem, numberOfThreads>>
      BY <1>3 DEF SendRange, SendGo, RecvDone, AllFinished, StopGame, NextGeneration, SendStop,
         JoinThread, CreateThreadFails, Loop, inputVars, barrierVars, workVars
    <2>2. AllDoneSent' = AllDoneSent /\ Arrived' = Arrived
      BY <2>1 DEF AllDoneSent, Arrived, numberOfGenerations
    <2> QED
      BY <2>1, <2>2, <1>s
  <1>4. ASSUME NEW t \in Workers, Worker(t) PROVE Barrier'
    <2>u. /\ UNCHANGED <<mpc, numberOfThreads, numberOfGenerations>>
          /\ mpc \notin {"exit", "crash"} /\ wpc[t] # "none"
      BY <1>4, WorkerFrame
    <2>w. WorkerState(t) /\ Barrier
      BY <2>u, <1>t
    <2>n. t \in 1 .. numberOfThreads /\ numberOfThreads \in Nat \ {0}
      BY <2>u, ThreadFacts
    <2>o. ASSUME NEW u \in Workers, u # t PROVE wpc'[u] = wpc[u] /\ gen'[u] = gen[u]
      BY <1>4, <2>o, <1>d DEF Worker, RecvRange, RecvGo, ComputeLine, SendGenDone,
         EnterBarrier, CheckBarrier, PostBarrier, LeaveBarrier, SendAllDone, Goto
    <2>1. CASE RecvRange(t) \/ RecvGo(t) \/ ComputeLine(t) \/ SendGenDone(t)
      <3>1. UNCHANGED <<barrierCount, alldone_sem>>
        BY <2>1 DEF RecvRange, RecvGo, ComputeLine, SendGenDone, barrierVars
      <3>2. /\ wpc[t] \in {"range", "go", "compute", "gendone"}
            /\ wpc'[t] \in {"go", "compute", "gendone", "barrier", "finished"}
            /\ wpc'[t] = "finished" => wpc[t] = "go" /\ gen' = gen
        BY <2>1, <1>d DEF RecvRange, RecvGo, ComputeLine, SendGenDone, Goto
      <3>3. wpc'[t] = "finished" => gen'[t] # numberOfGenerations + 1
        BY <2>w, <3>2, <1>a, <1>d DEF WorkerState, PlayerState
      <3>4. AllDoneSent' = AllDoneSent
        BY <2>u, <2>o, <3>2, <3>3 DEF AllDoneSent
      <3>5. Arrived' = Arrived
        BY <2>o, <3>2, <3>4 DEF Arrived
      <3>6. \A u \in Workers : wpc'[u] \in {"post", "alldone"} => wpc[u] \in {"post", "alldone"}
        BY <2>o, <3>2
      <3> QED
        BY <2>u, <3>1, <3>4, <3>5, <3>6, <1>s
    <2>2. CASE EnterBarrier(t)
      <3>1. /\ wpc[t] = "barrier" /\ wpc'[t] = "check" /\ gen' = gen
            /\ barrierCount' = barrierCount + 1 /\ alldone_sem' = alldone_sem
        BY <2>2, <1>d DEF EnterBarrier, Goto
      <3>2. AllDoneSent' = AllDoneSent
        BY <2>u, <2>o, <3>1 DEF AllDoneSent
      <3>3. Arrived' = Arrived \cup {t} /\ t \notin Arrived
        BY <2>o, <3>1, <3>2 DEF Arrived, AllDoneSent
      <3>4. Cardinality(Arrived') = barrierCount'
        <4>1. IsFiniteSet(Arrived) /\ barrierCount = Cardinality(Arrived)
          BY <2>u, <2>w, CountedFacts DEF Barrier
        <4> QED
          BY <3>1, <3>3, <4>1, FS_AddElement
      <3>5. ASSUME alldone_sem > 0 \/ AllDoneSent # {}
                   \/ \E u \in Workers : wpc[u] \in {"post", "alldone"}
            PROVE  FALSE
        <4>1. barrierCount = numberOfThreads /\ barrierCount = Cardinality(Arrived)
          BY <2>w, <3>5 DEF Barrier
        <4>2. Arrived = 1 .. numberOfThreads
          BY <2>u, <2>n, <4>1, CountedFacts
        <4> QED
          BY <2>n, <3>3, <4>2
      <3>6. ~\E u \in Workers : wpc'[u] \in {"post", "alldone"}
        BY <2>o, <3>1, <3>5
      <3> QED
        BY <3>1, <3>2, <3>4, <3>5, <3>6 DEF Barrier
    <2>3. CASE CheckBarrier(t) \/ PostBarrier(t) \/ LeaveBarrier(t) \/ SendAllDone(t)
      <3>1. /\ wpc[t] \in {"check", "post", "wait", "alldone"}
            /\ wpc'[t] \in {"post", "wait", "alldone", "finished"}
            /\ wpc'[t] = "finished" => wpc[t] = "alldone"
            /\ gen' = gen /\ barrierCount' = barrierCount
        BY <2>3, <1>d DEF CheckBarrier, PostBarrier, LeaveBarrier, SendAllDone, Goto, barrierVars
      <3>2. gen[t] = numberOfGenerations + 1
        BY <2>w, <3>1 DEF WorkerState, PlayerState
      <3>3. Arrived' = Arrived
        BY <2>u, <2>o, <3>1, <3>2 DEF Arrived, AllDoneSent
      <3>4. AllDoneSent' \subseteq AllDoneSent \cup {t}
        BY <2>u, <2>o, <3>1 DEF AllDoneSent
      <3>5. CASE CheckBarrier(t) /\ barrierCount # numberOfThreads
        <4>1. wpc[t] = "check" /\ wpc'[t] = "wait" /\ alldone_sem' = alldone_sem
          BY <3>5, <1>d DEF CheckBarrier, Goto, barrierVars
        <4>2. AllDoneSent' = AllDoneSent
          BY <2>u, <2>o, <3>1, <4>1 DEF AllDoneSent
        <4>3. \A u \in Workers : wpc'[u] \in {"post", "alldone"} => wpc[u] \in {"post", "alldone"}
          BY <2>o, <4>1
        <4> QED
          BY <2>u, <3>1, <3>3, <4>1, <4>2, <4>3, <1>s
      <3>6. CASE ~(CheckBarrier(t) /\ barrierCount # numberOfThreads)
        <4>1. \/ barrierCount = numberOfThreads
              \/ wpc[t] \in {"post", "alldone"} \/ alldone_sem > 0
          BY <2>3, <3>6 DEF CheckBarrier, PostBarrier, LeaveBarrier, SendAllDone, Goto
        <4>2. barrierCount = numberOfThreads
          BY <2>w, <4>1 DEF Barrier
        <4>3. barrierCount > 0 /\ barrierCount = Cardinality(Arrived)
          BY <2>n, <2>w, <4>2 DEF Barrier
        <4> QED
          BY <2>u, <3>1, <3>3, <4>2, <4>3 DEF Barrier
      <3> QED
        BY <3>5, <3>6
    <2> QED
      BY <1>4, <2>1, <2>2, <2>3 DEF Worker
  <1>5. CASE UNCHANGED vars
    <2>1. UNCHANGED <<mpc, wpc, gen, args, barrierCount, alldone_sem, numberOfThreads>>
      BY <1>5 DEF vars, mainVars, workVars, inputVars, barrierVars
    <2>2. AllDoneSent' = AllDoneSent /\ Arrived' = Arrived
      BY <2>1 DEF AllDoneSent, Arrived, numberOfGenerations
    <2> QED
      BY <2>1, <2>2, <1>s
  <1> QED
    BY <1>1, <1>2, <1>3, <1>4, <1>5 DEF Next, Main

\* Every step keeps the state of each worker.
LEMMA WorkersPreserved ==
  ASSUME Inv, [Next]_vars, mpc' \notin {"exit", "crash"}, NEW w \in Workers
  PROVE  WorkerState(w)'
  <1>1. CASE UNCHANGED vars
    <2>1. UNCHANGED <<mpc, i, cGen, allDoneCounter, wpc, gen, line, lineFrom, lineTo, box, args,
                      lineSize, numberOfThreads>>
      BY <1>1 DEF vars, mainVars, workVars, inputVars
    <2>2. /\ (Created(w)' <=> Created(w)) /\ (RangeSent(w)' <=> RangeSent(w))
          /\ (GoSent(w)' <=> GoSent(w)) /\ (StopSent(w)' <=> StopSent(w))
      BY <2>1 DEF Created, RangeSent, GoSent, StopSent, Past
    <2>3. WorkerState(w)
      BY <2>1 DEF Inv, Protocol
    <2>4. wpc[w] = "range" => mpc' \in {"create", "range", "go"}
      BY <2>1, <2>3 DEF WorkerState
    <2> QED
      BY <2>1, <2>2, <2>3, <2>4, SameWorkerState
  <1> QED
    BY <1>1, MainKeepsWorkers, WorkersKeepWorkers DEF Next

\* The inductive invariant holds in every reachable state: main and the workers
\* are in step, every message is where the protocol says, and the barrier holds.
THEOREM Invariance == Spec => []Inv
  <1>1. Inv /\ [Next]_vars => Inv'
    <2> SUFFICES ASSUME Inv, [Next]_vars PROVE Inv'
      OBVIOUS
    <2>1. Protocol'
      BY WorkersPreserved, AnswersPreserved, BarrierPreserved DEF Protocol, Workers
    <2> QED
      BY <2>1, TypePreserved, ControlPreserved, RoundsPreserved DEF Inv
  <1> QED
    BY InitInv, <1>1, PTL DEF Spec

\* The variables keep their types: no index of main or of a worker leaves its array
\* or matrix, whatever the file, and no message is out of range.
THEOREM TypeCorrect == Spec => []TypeOK
  <1>1. Inv => TypeOK
    BY DEF Inv
  <1> QED
    BY Invariance, <1>1, PTL

\* The barrier of linesthread holds back every ALLDONE until all workers have sent
\* their last GENDONE and main has collected them.
THEOREM BarrierHolds == Spec => []AllDoneAfterGenDone
  <1>1. Inv => AllDoneAfterGenDone
    <2> SUFFICES ASSUME Inv PROVE AllDoneAfterGenDone
      OBVIOUS
    <2>t. TypeOK /\ Control /\ Rounds
      BY DEF Inv
    <2>a. /\ 0 \in 0 .. MAXTHREAD /\ cGen \in Nat /\ allDoneCounter \in Nat
          /\ numberOfGenerations \in Int
      BY <2>t, ArgsFacts DEF TypeOK
    <2>1. ASSUME box[0] = ALLDONE, NEW t \in 1 .. numberOfThreads
          PROVE  gen[t] = numberOfGenerations + 1
      <3>1. ALLDONE # NoMsg
        BY MessageFacts
      <3>2. mpc \notin {"exit", "crash"}
        BY <2>1, <2>t, <2>a, <3>1 DEF Control
      <3>3. AnswersCounted /\ Barrier
        BY <3>2 DEF Inv, Protocol
      <3>4. Cardinality(AllDoneSent) = allDoneCounter + 1
        BY <2>1, <3>3 DEF AnswersCounted, parent_threadID
      <3>5. AllDoneSent # {}
        BY <2>a, <3>4, FS_EmptySet
      <3>6. barrierCount = numberOfThreads /\ barrierCount \in Nat
        BY <3>3, <3>5, <2>t DEF Barrier, TypeOK
      <3> QED
        BY <2>1, <3>2, <3>6, BarrierFacts
    <2>2. allDoneCounter > 0 => cGen = numberOfGenerations
      BY <2>t, <2>a DEF Rounds
    <2> QED
      BY <2>1, <2>2 DEF AllDoneAfterGenDone, parent_threadID
  <1> QED
    BY Invariance, <1>1, PTL

\* Every thread finds the type of message it waits for: the error branches of main
\* and linesthread are dead code, for every file and number of threads.
THEOREM FindsExpectedMessages == Spec => []ExpectedMessages
  <1>1. Inv => ExpectedMessages
    <2> SUFFICES ASSUME Inv PROVE ExpectedMessages
      OBVIOUS
    <2>t. TypeOK /\ Control /\ 0 \in 0 .. MAXTHREAD /\ \A t \in Workers : t \in 0 .. MAXTHREAD
      BY ArgsFacts DEF Inv
    <2>1. CASE mpc \in {"exit", "crash"}
      BY <2>1, <2>t DEF Control, ExpectedMessages, parent_threadID
    <2>2. CASE mpc \notin {"exit", "crash"}
      <3>1. AnswersCounted /\ \A t \in Workers : WorkerState(t)
        BY <2>2 DEF Inv, Protocol
      <3>2. ASSUME NEW t \in Workers, box[t] # NoMsg, wpc[t] \in {"none", "range"}
            PROVE  box[t].type = "RANGE"
        <4>1. wpc[t] = "range" /\ box[t] = RangeOf(t)
          BY <3>1, <3>2 DEF WorkerState
        <4> QED
          BY <2>2, <4>1, ThreadFacts
      <3>3. ASSUME NEW t \in Workers, box[t] # NoMsg, wpc[t] = "go"
            PROVE  box[t] \in {GO, STOP}
        BY <3>1, <3>3 DEF WorkerState, PlayerState
      <3> QED
        BY <3>1, <3>2, <3>3 DEF AnswersCounted, ExpectedMessages
    <2> QED
      BY <2>1, <2>2
  <1> QED
    BY Invariance, <1>1, PTL
-----------------------------------------------------------------------------
(* What the workers compute.  The file is smaller than the matrices, so     *)
(* that there is a dead border behind its last line and column.             *)

\* Where a cell of the flat memory is.
LEMMA DivMod ==
  ASSUME NEW N \in Nat \ {0}, NEW l \in Nat, NEW c \in 0 .. N - 1
  PROVE  (l * N + c) \div N = l /\ (l * N + c) % N = c
  <1>1. l * N \in Nat
    OBVIOUS
  <1> QED
    BY <1>1

\* Inside of the matrix, the C expression before[l][c] is that cell.
LEMMA BeforeAtInside ==
  ASSUME MAXGRID \in Nat \ {0}, NEW l \in Cells, NEW c \in Cells
  PROVE  beforeAt(l, c) = before[l][c]
  <1>1. l \in Nat /\ l < MAXGRID /\ c \in 0 .. MAXGRID - 1
    BY DEF Cells
  <1> DEFINE a == l * MAXGRID + c
             b == a - MAXGRID * MAXGRID
  <1>2. l * MAXGRID <= (MAXGRID - 1) * MAXGRID
    BY <1>1
  <1>3. b < 0
    BY <1>1, <1>2
  <1>4. a \div MAXGRID = l /\ a % MAXGRID = c
    BY <1>1, DivMod
  <1>5. beforeAt(l, c) = IF b < 0 THEN before[a \div MAXGRID][a % MAXGRID]
                         ELSE after[b \div MAXGRID][b % MAXGRID]
    BY DEF beforeAt
  <1> HIDE DEF a, b
  <1> QED
    BY <1>3, <1>4, <1>5

\* A cell has finitely many neighbors.
LEMMA OffsetsFinite == IsFiniteSet((-1 .. 1) \X (-1 .. 1))
  <1> DEFINE D == -1 .. 1
  <1>1. -1 \in Int /\ 1 \in Int
    OBVIOUS
  <1>2. IsFiniteSet(D)
    BY <1>1, FS_Interval
  <1> HIDE DEF D
  <1>3. IsFiniteSet(D \X D)
    BY <1>2, FS_Product
  <1> QED
    BY <1>3 DEF D

\* Game counts with the same Cardinality.
LEMMA GameCardinality == \A S : TheGame!Cardinality(S) = Cardinality(S)
  BY DEF TheGame!Cardinality, Cardinality

\* The inclusive upper bounds of getNumberOfNeighbors reach into the dead border
\* only: the program counts the neighbors of the game.
LEMMA NeighborsRight ==
  ASSUME MAXGRID \in Nat \ {0}, lineSize \in Nat, columnSize \in Nat,
         lineSize < MAXGRID, columnSize < MAXGRID,
         \A l, c \in Cells : l \notin Lines \/ c \notin Columns => before[l][c] = 0,
         NEW l \in Lines, NEW c \in Columns
  PROVE  getNumberOfNeighbors(l, c) = TheGame!LiveNeighbors(Visible(before), l, c)
  <1> DEFINE g == Visible(before)
             A == {d \in (-1 .. 1) \X (-1 .. 1) :
                     /\ d # <<0, 0>>
                     /\ l + d[1] \in 0 .. lineSize
                     /\ c + d[2] \in 0 .. columnSize
                     /\ beforeAt(l + d[1], c + d[2]) # 0}
             B == {p \in (DOMAIN g) \X (DOMAIN g[l]) :
                     /\ p # <<l, c>>
                     /\ p[1] - l \in -1 .. 1 /\ p[2] - c \in -1 .. 1
                     /\ g[p[1]][p[2]] # 0}
             f == [d \in A |-> <<l + d[1], c + d[2]>>]
  <1>1. l \in Int /\ c \in Int
    BY DEF Lines, Columns
  <1>2. DOMAIN g = Lines /\ DOMAIN g[l] = Columns
    BY DEF Visible
  <1>3. \A x \in Lines, y \in Columns : g[x][y] = before[x][y]
    BY DEF Visible
  <1>4. IsFiniteSet(A)
    <2>1. IsFiniteSet((-1 .. 1) \X (-1 .. 1))
      BY OffsetsFinite
    <2>2. A \in SUBSET ((-1 .. 1) \X (-1 .. 1))
      OBVIOUS
    <2> QED
      BY <2>1, <2>2, FS_Subset
  <1>5. ASSUME NEW x \in 0 .. lineSize, NEW y \in 0 .. columnSize
        PROVE  /\ beforeAt(x, y) # 0 => x \in Lines /\ y \in Columns /\ g[x][y] # 0
               /\ x \in Lines /\ y \in Columns /\ g[x][y] # 0 => beforeAt(x, y) # 0
    <2>1. x \in Cells /\ y \in Cells
      BY DEF Cells
    <2>2. beforeAt(x, y) = before[x][y]
      BY <2>1, BeforeAtInside
    <2> QED
      BY <2>1, <2>2, <1>3
  <1> HIDE DEF g
  <1>6. ASSUME NEW d \in A
        PROVE  /\ d = <<d[1], d[2]>> /\ d[1] \in -1 .. 1 /\ d[2] \in -1 .. 1
               /\ <<l + d[1], c + d[2]>> \in B
    <2>1. d = <<d[1], d[2]>> /\ d[1] \in -1 .. 1 /\ d[2] \in -1 .. 1
      OBVIOUS
    <2>2. /\ d # <<0, 0>> /\ l + d[1] \in 0 .. lineSize /\ c + d[2] \in 0 .. columnSize
          /\ beforeAt(l + d[1], c + d[2]) # 0
      OBVIOUS
    <2>3. /\ l + d[1] \in Lines /\ c + d[2] \in Columns /\ g[l + d[1]][c + d[2]] # 0
      BY <2>2, <1>5
    <2>4. ~(d[1] = 0 /\ d[2] = 0)
      BY <2>1, <2>2
    <2> DEFINE x == l + d[1]
               y == c + d[2]
    <2>5. x - l \in -1 .. 1 /\ y - c \in -1 .. 1 /\ ~(x = l /\ y = c)
      BY <2>1, <2>4, <1>1
    <2>6. x \in Lines /\ y \in Columns /\ g[x][y] # 0
      BY <2>3
    <2> HIDE DEF x, y
    <2>7. <<x, y>> \in B
      BY <2>5, <2>6, <1>2
    <2> QED
      BY <2>1, <2>7 DEF x, y
  <1>7. ASSUME NEW p \in B PROVE \E d \in A : <<l + d[1], c + d[2]>> = p
    <2> DEFINE x == p[1] - l
               y == p[2] - c
    <2>1. /\ p = <<p[1], p[2]>> /\ p[1] \in Lines /\ p[2] \in Columns /\ p # <<l, c>>
          /\ x \in -1 .. 1 /\ y \in -1 .. 1 /\ g[p[1]][p[2]] # 0
      BY <1>2
    <2>2. p[1] \in 0 .. lineSize /\ p[2] \in 0 .. columnSize
      BY <2>1 DEF Lines, Columns
    <2>3. l + x = p[1] /\ c + y = p[2] /\ ~(x = 0 /\ y = 0)
      BY <2>1, <2>2, <1>1
    <2>4. beforeAt(p[1], p[2]) # 0
      BY <2>1, <2>2, <1>5
    <2>5. <<x, y>> \in A
      <3>1. <<x, y>> \in (-1 .. 1) \X (-1 .. 1) /\ <<x, y>> # <<0, 0>>
        BY <2>1, <2>3
      <3> HIDE DEF x, y
      <3> QED
        BY <2>2, <2>3, <2>4, <3>1
    <2>6. <<l + x, c + y>> = p
      BY <2>1, <2>3
    <2> HIDE DEF x, y, A
    <2> QED
      BY <2>5, <2>6
  <1>8. \A a, b \in A : f[a] = f[b] => a = b
    <2> SUFFICES ASSUME NEW a \in A, NEW b \in A, f[a] = f[b] PROVE a = b
      OBVIOUS
    <2>1. /\ a = <<a[1], a[2]>> /\ a[1] \in -1 .. 1 /\ a[2] \in -1 .. 1
          /\ b = <<b[1], b[2]>> /\ b[1] \in -1 .. 1 /\ b[2] \in -1 .. 1
      BY <1>6
    <2>2. <<l + a[1], c + a[2]>> = <<l + b[1], c + b[2]>>
      OBVIOUS
    <2>3. l + a[1] = l + b[1] /\ c + a[2] = c + b[2]
      BY <2>2
    <2>4. a[1] = b[1] /\ a[2] = b[2]
      BY <2>1, <2>3, <1>1
    <2> QED
      BY <2>1, <2>4
  <1>9. f \in [A -> B] /\ \A p \in B : \E d \in A : f[d] = p
    BY <1>6, <1>7
  <1>10. Cardinality(B) = Cardinality(A)
    <2> HIDE DEF A, B, f
    <2> QED
      BY <1>4, <1>8, <1>9, SameSize
  <1>11. getNumberOfNeighbors(l, c) = Cardinality(A)
    BY DEF getNumberOfNeighbors
  <1>12. TheGame!LiveNeighbors(g, l, c) = Cardinality(B)
    BY GameCardinality DEF TheGame!LiveNeighbors
  <1> HIDE DEF A, B
  <1>13. getNumberOfNeighbors(l, c) = TheGame!LiveNeighbors(g, l, c)
    BY <1>10, <1>11, <1>12
  <1> QED
    BY <1>13 DEF g

\* Counts of neighbors are numbers.
LEMMA NeighborsType ==
  ASSUME NEW l, NEW c
  PROVE  getNumberOfNeighbors(l, c) \in Nat
  <1> DEFINE A == {d \in (-1 .. 1) \X (-1 .. 1) :
                     /\ d # <<0, 0>>
                     /\ l + d[1] \in 0 .. lineSize
                     /\ c + d[2] \in 0 .. columnSize
                     /\ beforeAt(l + d[1], c + d[2]) # 0}
  <1>1. IsFiniteSet((-1 .. 1) \X (-1 .. 1))
    BY OffsetsFinite
  <1>2. A \in SUBSET ((-1 .. 1) \X (-1 .. 1))
    OBVIOUS
  <1>3. Cardinality(A) \in Nat
    BY <1>1, <1>2, FS_Subset, FS_CardinalityType
  <1> QED
    BY <1>3 DEF getNumberOfNeighbors

\* A worker computes a cell as the game does.
LEMMA NewCellRight ==
  ASSUME MAXGRID \in Nat \ {0}, lineSize \in Nat, columnSize \in Nat,
         lineSize < MAXGRID, columnSize < MAXGRID,
         \A l, c \in Cells : l \notin Lines \/ c \notin Columns => before[l][c] = 0,
         NEW l \in Lines, NEW c \in Columns
  PROVE  NewCell(l, c) = TheGame!Evolve(Visible(before))[l][c]
  <1> DEFINE g == Visible(before)
             n == getNumberOfNeighbors(l, c)
  <1>1. n = TheGame!LiveNeighbors(g, l, c) /\ n \in Nat
    BY NeighborsRight, NeighborsType
  <1>2. DOMAIN g = Lines /\ DOMAIN g[l] = Columns /\ g[l][c] = before[l][c]
    BY DEF Visible
  <1>3. TheGame!Evolve(g)[l][c] = IF n = 3 \/ (n = 2 /\ g[l][c] # 0) THEN 1 ELSE 0
    <2> HIDE DEF g, n
    <2> QED
      BY <1>1, <1>2 DEF TheGame!Evolve
  <1>4. NewCell(l, c) = IF n <= 1 \/ n >= 4 THEN 0
                        ELSE IF n = 3 \/ before[l][c] # 0 THEN 1 ELSE before[l][c]
    BY DEF NewCell
  <1> HIDE DEF g, n
  <1>5. NewCell(l, c) = TheGame!Evolve(g)[l][c]
    BY <1>1, <1>2, <1>3, <1>4
  <1> QED
    BY <1>5 DEF g

\* The reference: generation 0 is the start, each further one evolves from the one
\* before.
LEMMA GenerationDef ==
  ASSUME NEW g
  PROVE  /\ Generation(g, 0) = g
         /\ \A k \in Nat : Generation(g, k + 1) = TheGame!Evolve(Generation(g, k))
  <1> DEFINE Next1(H, n) == IF n = 0 THEN g ELSE TheGame!Evolve(H[n - 1])
             Is(H, k) == H = [n \in 0 .. k |-> Next1(H, n)]
             G(k) == CHOOSE H : Is(H, k)
             Bad == {k \in Nat : ~\E H : Is(H, k)}
  <1>1. ASSUME Bad # {} PROVE FALSE
    <2>1. Bad \in SUBSET Nat
      OBVIOUS
    <2>2. PICK k \in Bad : \A m \in Bad : k <= m
      <3> HIDE DEF Bad
      <3> QED
        BY <1>1, <2>1, LeastNat
    <2>3. k \in Nat /\ ~\E H : Is(H, k)
      BY <2>2
    <2>4. CASE k = 0
      <3> DEFINE H == [n \in 0 .. 0 |-> g]
      <3>1. Is(H, 0)
        OBVIOUS
      <3> HIDE DEF H, Is
      <3> QED
        BY <2>3, <2>4, <3>1
    <2>5. CASE k > 0
      <3>1. k - 1 \in Nat /\ ~(k <= k - 1)
        BY <2>3, <2>5
      <3>2. \E H : Is(H, k - 1)
        BY <2>2, <3>1
      <3>3. PICK H : Is(H, k - 1)
        BY <3>2
      <3> DEFINE J == [n \in 0 .. k |-> Next1(H, n)]
      <3>4. ASSUME NEW n \in 0 .. k - 1 PROVE J[n] = H[n]
        BY <2>3, <3>1, <3>3
      <3>5. ASSUME NEW n \in 0 .. k PROVE J[n] = Next1(J, n)
        <4>1. J[n] = Next1(H, n)
          OBVIOUS
        <4>2. n # 0 => n - 1 \in 0 .. k - 1
          BY <2>3
        <4>3. n # 0 => J[n - 1] = H[n - 1]
          BY <3>4, <4>2
        <4> HIDE DEF J
        <4> QED
          BY <4>1, <4>3
      <3>6. J = [n \in 0 .. k |-> J[n]]
        OBVIOUS
      <3>7. J = [n \in 0 .. k |-> Next1(J, n)]
        <4> HIDE DEF J
        <4> QED
          BY <3>5, <3>6
      <3>8. Is(J, k)
        BY <3>7
      <3> HIDE DEF J, Is
      <3> QED
        BY <2>3, <3>8
    <2> QED
      BY <2>3, <2>4, <2>5
  <1>2. \A k \in Nat : Is(G(k), k)
    <2> SUFFICES ASSUME NEW k \in Nat PROVE Is(G(k), k)
      OBVIOUS
    <2>1. \E H : Is(H, k)
      BY <1>1
    <2> HIDE DEF Is
    <2> QED
      BY <2>1
  <1>3. \A k \in Nat : Generation(g, k) = G(k)[k]
    BY DEF Generation
  <1> HIDE DEF G
  <1>4. \A k \in Nat : \A n \in 0 .. k : G(k)[n] = Next1(G(k), n)
    <2> SUFFICES ASSUME NEW k \in Nat, NEW n \in 0 .. k PROVE G(k)[n] = Next1(G(k), n)
      OBVIOUS
    <2>1. G(k) = [m \in 0 .. k |-> Next1(G(k), m)]
      BY <1>2
    <2> QED
      BY <2>1
  <1>5. ASSUME NEW k \in Nat, NEW n \in 0 .. k PROVE G(k + 1)[n] = G(k)[n]
    <2> DEFINE Differ == {m \in 0 .. k : G(k + 1)[m] # G(k)[m]}
    <2>1. Differ \in SUBSET Nat
      OBVIOUS
    <2>2. ASSUME Differ # {} PROVE FALSE
      <3>1. PICK m \in Differ : \A j \in Differ : m <= j
        <4> HIDE DEF Differ
        <4> QED
          BY <2>1, <2>2, LeastNat
      <3>2. m \in 0 .. k /\ G(k + 1)[m] # G(k)[m] /\ m \in Nat
        BY <3>1
      <3>3. k + 1 \in Nat /\ m \in 0 .. k + 1
        BY <3>2
      <3>4. G(k + 1)[m] = Next1(G(k + 1), m) /\ G(k)[m] = Next1(G(k), m)
        BY <3>2, <3>3, <1>4
      <3>5. m # 0 => m - 1 \in 0 .. k /\ ~(m <= m - 1)
        BY <3>2
      <3>6. m # 0 => G(k + 1)[m - 1] = G(k)[m - 1]
        BY <3>1, <3>5
      <3> QED
        BY <3>2, <3>4, <3>6
    <2> QED
      BY <2>2
  <1>6. Generation(g, 0) = g
    <2>1. 0 \in Nat /\ 0 \in 0 .. 0
      OBVIOUS
    <2>2. G(0)[0] = Next1(G(0), 0)
      BY <2>1, <1>4
    <2>3. Generation(g, 0) = G(0)[0]
      BY <1>3
    <2> QED
      BY <2>2, <2>3
  <1>7. ASSUME NEW k \in Nat PROVE Generation(g, k + 1) = TheGame!Evolve(Generation(g, k))
    <2>1. k + 1 \in Nat /\ k + 1 \in 0 .. k + 1 /\ k + 1 # 0 /\ (k + 1) - 1 = k /\ k \in 0 .. k
      OBVIOUS
    <2>2. G(k + 1)[k + 1] = Next1(G(k + 1), k + 1)
      BY <2>1, <1>4
    <2>3. G(k + 1)[k + 1] = TheGame!Evolve(G(k + 1)[k])
      BY <2>1, <2>2
    <2>4. G(k + 1)[k] = G(k)[k]
      BY <2>1, <1>5
    <2>5. Generation(g, k + 1) = G(k + 1)[k + 1] /\ Generation(g, k) = G(k)[k]
      BY <2>1, <1>3
    <2> QED
      BY <2>3, <2>4, <2>5
  <1> QED
    BY <1>6, <1>7

\* A generation that does not change is the last one.
LEMMA RestForever ==
  ASSUME NEW g, NEW k \in Nat,
         TheGame!Evolve(Generation(g, k)) = Generation(g, k), NEW n \in Nat, n >= k
  PROVE  Generation(g, n) = Generation(g, k)
  <1> DEFINE Bad == {m \in Nat : m >= k /\ Generation(g, m) # Generation(g, k)}
  <1>1. ASSUME Bad # {} PROVE FALSE
    <2>1. Bad \in SUBSET Nat
      OBVIOUS
    <2>2. PICK m \in Bad : \A j \in Bad : m <= j
      <3> HIDE DEF Bad
      <3> QED
        BY <1>1, <2>1, LeastNat
    <2>3. m \in Nat /\ m >= k /\ Generation(g, m) # Generation(g, k)
      BY <2>2
    <2>4. m # k
      BY <2>3
    <2>5. m - 1 \in Nat /\ m - 1 >= k /\ ~(m <= m - 1) /\ (m - 1) + 1 = m
      BY <2>3, <2>4
    <2>6. Generation(g, m - 1) = Generation(g, k)
      BY <2>2, <2>5
    <2>7. Generation(g, (m - 1) + 1) = TheGame!Evolve(Generation(g, m - 1))
      BY <2>5, GenerationDef
    <2> QED
      BY <2>3, <2>5, <2>6, <2>7
  <1> QED
    BY <1>1

\* A matrix seen by the program is a grid; if it is dead it stays dead.
LEMMA DeadRests ==
  ASSUME NEW m, TheGame!Dead(Visible(m))
  PROVE  TheGame!Evolve(Visible(m)) = Visible(m)
  <1> DEFINE g == Visible(m)
  <1>1. g = [l \in Lines |-> [c \in Columns |-> g[l][c]]]
    BY DEF Visible
  <1>2. DOMAIN g = Lines /\ \A l \in Lines : DOMAIN g[l] = Columns
    BY DEF Visible
  <1> HIDE DEF g
  <1>3. \A l \in Lines : \A c \in Columns : g[l][c] = 0
    BY <1>2 DEF TheGame!Dead, g
  <1>4. ASSUME NEW l \in Lines, NEW c \in Columns PROVE TheGame!LiveNeighbors(g, l, c) = 0
    <2> DEFINE B == {p \in (DOMAIN g) \X (DOMAIN g[l]) :
                       /\ p # <<l, c>>
                       /\ p[1] - l \in -1 .. 1 /\ p[2] - c \in -1 .. 1
                       /\ g[p[1]][p[2]] # 0}
    <2>1. B = {}
      BY <1>2, <1>3
    <2>2. TheGame!LiveNeighbors(g, l, c) = Cardinality(B)
      BY GameCardinality DEF TheGame!LiveNeighbors
    <2> QED
      BY <2>1, <2>2, FS_EmptySet
  <1>5. TheGame!Evolve(g) = [l \in Lines |-> [c \in Columns |->
            IF TheGame!LiveNeighbors(g, l, c) = 3
               \/ (TheGame!LiveNeighbors(g, l, c) = 2 /\ g[l][c] # 0) THEN 1 ELSE 0]]
    BY <1>2 DEF TheGame!Evolve
  <1>6. TheGame!Evolve(g) = [l \in Lines |-> [c \in Columns |-> g[l][c]]]
    BY <1>3, <1>4, <1>5
  <1>7. TheGame!Evolve(g) = g
    BY <1>1, <1>6
  <1> QED
    BY <1>7 DEF g

\* Every line of the grid is in the share of a worker.
LEMMA SharesCover ==
  ASSUME lineSize \in Nat, numberOfThreads \in Nat \ {0}, numberOfThreads <= lineSize,
         NEW l \in Lines
  PROVE  \E t \in 1 .. numberOfThreads : l \in RangeOf(t).value1 .. RangeOf(t).value2
  <1> DEFINE n == numberOfThreads
             r == lineSize \div n
             q == l \div r
             t == IF q + 1 < n THEN q + 1 ELSE n
  <1>1. r \in Nat \ {0} /\ n * r <= lineSize /\ l \in Nat /\ l <= lineSize - 1
    BY DEF Lines
  <1>2. \A u : /\ RangeOf(u).value1 = (u - 1) * r
              /\ RangeOf(u).value2 = IF u < n THEN u * r - 1 ELSE lineSize - 1
    BY DEF RangeOf, RangeMsg
  <1> HIDE DEF r
  <1>3. q \in Nat /\ q * r <= l /\ l < (q + 1) * r
    BY <1>1
  <1> HIDE DEF q
  <1>4. t \in 1 .. n
    BY <1>3
  <1>5. CASE q + 1 < n
    <2>1. t = q + 1 /\ (q + 1) - 1 = q
      BY <1>3, <1>5
    <2>2. RangeOf(t).value1 = q * r /\ RangeOf(t).value2 = (q + 1) * r - 1
      BY <1>2, <1>5, <2>1
    <2>3. q * r \in Nat /\ (q + 1) * r \in Nat
      BY <1>1, <1>3
    <2>4. l \in q * r .. (q + 1) * r - 1
      BY <1>1, <1>3, <2>3
    <2> QED
      BY <1>4, <2>2, <2>4
  <1>6. CASE ~(q + 1 < n)
    <2>1. t = n /\ n - 1 <= q /\ n - 1 \in Nat
      BY <1>3, <1>6
    <2>2. RangeOf(t).value1 = (n - 1) * r /\ RangeOf(t).value2 = lineSize - 1
      BY <1>2, <2>1
    <2>3. (n - 1) * r <= q * r /\ (n - 1) * r \in Nat /\ q * r \in Nat
      BY <1>1, <1>3, <2>1
    <2>4. l \in (n - 1) * r .. lineSize - 1
      BY <1>1, <1>3, <2>3
    <2> QED
      BY <1>4, <2>2, <2>4
  <1> QED
    BY <1>5, <1>6
-----------------------------------------------------------------------------
(* The matrices hold the game.                                              *)

\* A step that leaves the matrices and the count of generations alone, and the
\* lines that each worker has computed.
Quiet ==
    /\ UNCHANGED <<before, after, args, lineSize, columnSize, cGen>>
    /\ Playing /\ Playing' /\ (Stopped' <=> Stopped)
    /\ mpc' \in {"go", "recv", "decide"} => \A t \in Workers :
          Computed(t)' = {} \/ (mpc \in {"go", "recv", "decide"} /\ Computed(t)' = Computed(t))

\* Before main sends the first GO, nothing is computed.
LEMMA NothingComputed ==
  ASSUME Inv, mpc = "range", NEW t \in Workers
  PROVE  Computed(t) = {}
  <1>1. WorkerState(t) /\ cGen \in Nat /\ gen[t] \in Nat
    BY DEF Inv, Protocol, TypeOK
  <1>2. ~GoSent(t)
    BY DEF GoSent, Past
  <1>3. gen[t] # cGen + 2 /\ wpc[t] \notin {"gendone", "compute"}
    BY <1>1, <1>2 DEF WorkerState, PlayerState
  <1> QED
    BY <1>3 DEF Computed

\* The steps of main between its decisions.
LEMMA MainQuiet ==
  ASSUME Inv,
         CreateThread \/ SendRange \/ SendGo \/ RecvDone \/ SendStop \/ JoinThread
  PROVE  Quiet
  <1>1. UNCHANGED <<before, after, args, lineSize, columnSize, cGen, gen, line, lineFrom, lineTo>>
    BY DEF CreateThread, SendRange, SendGo, RecvDone, SendStop, JoinThread, workVars, inputVars
  <1>2. /\ Playing /\ Playing' /\ (Stopped' <=> Stopped)
        /\ mpc' \in {"go", "recv", "decide"} => mpc \in {"range", "go", "recv"} /\ wpc' = wpc
    BY DEF CreateThread, SendRange, SendGo, RecvDone, SendStop, JoinThread, Loop, Playing, Stopped,
           workVars
  <1>3. ASSUME mpc' \in {"go", "recv", "decide"}, NEW t \in Workers
        PROVE  Computed(t)' = {} \/ (mpc \in {"go", "recv", "decide"} /\ Computed(t)' = Computed(t))
    <2>1. Computed(t)' = Computed(t)
      BY <1>1, <1>2, <1>3 DEF Computed
    <2> QED
      BY <1>2, <1>3, <2>1, NothingComputed
  <1> QED
    BY <1>1, <1>2, <1>3 DEF Quiet

\* A worker that runs was created while the game is played.
LEMMA WorkerPlaying ==
  ASSUME Inv, NEW t \in Workers, Running, wpc[t] # "none"
  PROVE  Playing
  <1>1. WorkerState(t)
    BY DEF Inv, Protocol, Running
  <1> QED
    BY <1>1 DEF WorkerState, Created, Past, Playing, Running

\* The steps of a worker that do not compute.
LEMMA WorkerQuiet ==
  ASSUME Inv, NEW t \in Workers, Worker(t), ~ComputeLine(t)
  PROVE  Quiet
  <1>t. cGen \in Nat /\ gen \in [Workers -> Nat] /\ line \in [Workers -> Nat]
        /\ wpc \in [Workers -> WorkerPCs] /\ lineFrom \in [Workers -> Cells]
        /\ lineTo \in [Workers -> Cells]
    BY DEF Inv, TypeOK
  <1>1. /\ UNCHANGED <<before, after, args, lineSize, columnSize, cGen>>
        /\ Running /\ wpc[t] # "none"
    BY DEF Worker, RecvRange, RecvGo, SendGenDone, EnterBarrier, CheckBarrier, PostBarrier,
           LeaveBarrier, SendAllDone, mainVars, inputVars, Goto
  <1>2. mpc' = mpc
    BY Receives DEF Worker, SendGenDone, EnterBarrier, CheckBarrier, PostBarrier, LeaveBarrier,
           SendAllDone, mainVars
  <1>3. Playing /\ Playing' /\ (Stopped' <=> Stopped)
    BY <1>1, <1>2, WorkerPlaying DEF Playing, Stopped
  <1>4. ASSUME NEW u \in Workers PROVE Computed(u)' = {} \/ Computed(u)' = Computed(u)
    <2>1. CASE u # t
      <3>1. wpc'[u] = wpc[u] /\ gen'[u] = gen[u] /\ line'[u] = line[u]
            /\ lineFrom'[u] = lineFrom[u] /\ lineTo'[u] = lineTo[u]
        BY <2>1, <1>t DEF Worker, RecvRange, RecvGo, SendGenDone, EnterBarrier, CheckBarrier,
           PostBarrier, LeaveBarrier, SendAllDone, Goto
      <3> QED
        BY <1>1, <3>1 DEF Computed
    <2>2. CASE u = t /\ RecvRange(t)
      <3>1. gen'[t] = 1 /\ wpc'[t] = "go"
        BY <2>2, <1>t DEF RecvRange, Goto
      <3>2. gen'[t] # cGen + 2
        BY <1>t, <3>1
      <3> QED
        BY <1>1, <2>2, <3>1, <3>2 DEF Computed
    <2>3. CASE u = t /\ RecvGo(t)
      <3>1. gen'[t] = gen[t] /\ lineFrom'[t] = lineFrom[t] /\ line'[t] = lineFrom[t]
            /\ wpc'[t] \in {"finished", "compute"} /\ lineFrom[t] \in Cells
        BY <2>3, <1>t DEF RecvGo, Goto
      <3>2. gen[t] # cGen + 2
        BY <2>3, <1>t, Receives DEF Unread
      <3>3. Computed(t)' = IF wpc'[t] = "compute" THEN lineFrom[t] .. lineFrom[t] - 1 ELSE {}
        BY <1>1, <3>1, <3>2 DEF Computed
      <3> QED
        BY <2>3, <3>1, <3>3 DEF Cells
    <2>4. CASE u = t /\ SendGenDone(t)
      <3>1. /\ gen'[t] = gen[t] + 1 /\ lineFrom'[t] = lineFrom[t] /\ lineTo'[t] = lineTo[t]
            /\ wpc[t] = "gendone"
        BY <2>4, <1>t DEF SendGenDone, Goto
      <3>2. WorkerState(t)
        BY <1>1 DEF Inv, Protocol, Running
      <3>3. gen'[t] = cGen + 2
        BY <1>t, <3>1, <3>2 DEF WorkerState, PlayerState
      <3> QED
        BY <1>1, <2>4, <3>1, <3>3 DEF Computed
    <2>5. CASE u = t /\ (EnterBarrier(t) \/ CheckBarrier(t) \/ PostBarrier(t) \/ LeaveBarrier(t)
                         \/ SendAllDone(t))
      <3>1. /\ gen' = gen /\ lineFrom' = lineFrom /\ lineTo' = lineTo
            /\ wpc[t] \notin {"gendone", "compute"} /\ wpc'[t] \notin {"gendone", "compute"}
        BY <2>5, <1>t DEF EnterBarrier, CheckBarrier, PostBarrier, LeaveBarrier, SendAllDone, Goto
      <3> QED
        BY <1>1, <2>5, <3>1 DEF Computed
    <2> QED
      BY <2>1, <2>2, <2>3, <2>4, <2>5 DEF Worker
  <1> QED
    BY <1>1, <1>2, <1>3, <1>4 DEF Quiet

\* A worker computes a line of its share of a generation that main still counts.
LEMMA ComputeFacts ==
  ASSUME Inv, NEW t \in Workers, ComputeLine(t)
  PROVE  /\ mpc' = mpc /\ mpc \in {"go", "recv", "decide"} /\ cGen < numberOfGenerations
         /\ UNCHANGED <<before, args, lineSize, columnSize, cGen>>
         /\ line[t] \in Lines /\ line[t] \in Cells
         /\ \A u \in Workers : \A l \in Computed(u)' : l = line[t] \/ l \in Computed(u)
         /\ \A u \in Workers : Computed(u)' \subseteq Lines
  <1>t. TypeOK /\ Rounds
    BY DEF Inv
  <1>a. /\ cGen \in Nat /\ gen \in [Workers -> Nat] /\ line \in [Workers -> Nat]
        /\ wpc \in [Workers -> WorkerPCs] /\ lineFrom \in [Workers -> Cells]
        /\ lineTo \in [Workers -> Cells] /\ numberOfGenerations \in Int
        /\ lineSize \in Nat /\ lineSize <= MAXGRID /\ MAXGRID \in Nat
    BY <1>t, ArgsFacts DEF TypeOK
  <1>1. /\ UNCHANGED <<mpc, i, cGen, allDoneCounter, before, args, lineSize, columnSize, gen,
                       lineFrom, lineTo>>
        /\ Running /\ wpc[t] = "compute"
        /\ wpc' = [wpc EXCEPT ![t] = IF line[t] < lineTo[t] THEN "compute" ELSE "gendone"]
    BY DEF ComputeLine, Goto, mainVars, inputVars
  <1>2. /\ line' = [line EXCEPT ![t] = line[t] + 1]
    BY <1>a DEF ComputeLine
  <1>3. \A u \in Workers : WorkerState(u)
    BY <1>1 DEF Inv, Protocol, Running
  <1>4. PlayerState(t)
    BY <1>1, <1>3 DEF WorkerState
  <1>5. /\ cGen < numberOfGenerations /\ GoSent(t) /\ line[t] \in lineFrom[t] .. lineTo[t]
        /\ gen[t] = cGen + 1
    BY <1>1, <1>4, <1>a DEF PlayerState
  <1>6. mpc \in {"go", "recv", "decide"}
    BY <1>5, <1>t, <1>a DEF GoSent, Past, Rounds, Stopped
  <1>7. ASSUME NEW u \in Workers, wpc[u] \notin {"none", "range"}
        PROVE  lineFrom[u] \in Nat /\ lineTo[u] \in Nat /\ lineTo[u] <= lineSize - 1
    BY <1>1, <1>3, <1>7, <1>a, ThreadFacts DEF WorkerState, PlayerState, Cells, Running
  <1>8. line[t] \in Lines /\ line[t] \in Cells
    BY <1>1, <1>5, <1>7, <1>a DEF Lines, Cells
  <1>9. ASSUME NEW u \in Workers, NEW l \in Computed(u)'
        PROVE  (l = line[t] \/ l \in Computed(u)) /\ l \in Lines
    <2>1. CASE u # t
      <3>1. Computed(u)' = Computed(u)
        BY <1>1, <1>2, <1>a, <2>1 DEF Computed
      <3>l. l \in Computed(u)
        BY <3>1
      <3>g. gen[u] = cGen + 2 \/ wpc[u] \in {"gendone", "compute"}
        BY <3>l DEF Computed
      <3>2. wpc[u] \notin {"none", "range"}
        BY <1>3, <1>a, <3>g DEF WorkerState
      <3>3. wpc[u] = "compute" => line[u] \in lineFrom[u] .. lineTo[u]
        BY <1>3, <3>2 DEF WorkerState, PlayerState
      <3>4. l \in lineFrom[u] .. lineTo[u]
        BY <1>7, <3>l, <3>2, <3>3 DEF Computed
      <3> QED
        BY <1>7, <1>a, <3>l, <3>2, <3>4 DEF Lines
    <2>2. CASE u = t
      <3>1. Computed(t) = lineFrom[t] .. line[t] - 1
        BY <1>1, <1>5, <1>a DEF Computed
      <3>2. gen'[t] # cGen' + 2 /\ line'[t] = line[t] + 1
        BY <1>1, <1>2, <1>5, <1>a
      <3>3. CASE line[t] < lineTo[t]
        <4>1. Computed(t)' = lineFrom[t] .. (line[t] + 1) - 1
          BY <1>1, <3>2, <3>3, <1>a DEF Computed
        <4>2. line[t] \in Nat /\ l \in lineFrom[t] .. line[t]
          BY <1>9, <2>2, <4>1, <1>a
        <4>3. l = line[t] \/ l \in lineFrom[t] .. line[t] - 1
          BY <4>2
        <4>4. l \in Lines
          BY <1>1, <1>7, <3>3, <4>2, <1>a DEF Lines
        <4> QED
          BY <2>2, <3>1, <4>3, <4>4
      <3>4. CASE ~(line[t] < lineTo[t])
        <4>1. Computed(t)' = lineFrom[t] .. lineTo[t]
          BY <1>1, <3>2, <3>4, <1>a DEF Computed
        <4>2. line[t] = lineTo[t]
          BY <1>1, <1>5, <1>7, <3>4
        <4>3. l \in lineFrom[t] .. line[t]
          BY <1>9, <2>2, <4>1, <4>2
        <4>4. l = line[t] \/ l \in lineFrom[t] .. line[t] - 1
          BY <4>3, <1>a
        <4>5. l \in Lines
          BY <1>1, <1>7, <4>2, <4>3, <1>a DEF Lines
        <4> QED
          BY <2>2, <3>1, <4>4, <4>5
      <3> QED
        BY <3>3, <3>4
    <2> QED
      BY <2>1, <2>2
  <1> QED
    BY <1>1, <1>5, <1>6, <1>8, <1>9

\* What the grid invariant says does not depend on the step, but on the arguments.
LEMMA ArgsFrame ==
  ASSUME args' = args
  PROVE  /\ (Regular' <=> Regular) /\ (input' = input) /\ (Width' = Width)
         /\ (numberOfGenerations' = numberOfGenerations)
  <1>1. Width' = Width
    BY DEF Width
  <1>2. Regular' <=> Regular
    BY <1>1 DEF Regular, Complete
  <1>3. input' = input
    BY <1>1 DEF input
  <1> QED
    BY <1>1, <1>2, <1>3 DEF numberOfGenerations

\* A step that keeps the matrices keeps what they show.
LEMMA VisibleFrame ==
  ASSUME UNCHANGED <<lineSize, columnSize>>
  PROVE  /\ Lines' = Lines /\ Columns' = Columns
         /\ before' = before => Visible(before)' = Visible(before)
         /\ after' = after => Visible(after)' = Visible(after)
  BY DEF Visible, Lines, Columns

\* At first the matrices are zero and nothing is played.
LEMMA GridInit == Init => GridInv
  BY DEF Init, GridInv, Sizes, GamePlayed, Playing

\* A quiet step keeps the game.
LEMMA QuietKeepsGrid ==
  ASSUME Inv, GridInv, Quiet
  PROVE  GridInv'
  <1>1. /\ UNCHANGED <<before, after, args, lineSize, columnSize, cGen>>
        /\ Playing /\ Playing' /\ (Stopped' <=> Stopped)
    BY DEF Quiet
  <1>2. (Regular' <=> Regular) /\ input' = input /\ Width' = Width
        /\ numberOfGenerations' = numberOfGenerations
    BY <1>1, ArgsFrame
  <1>3. /\ Lines' = Lines /\ Columns' = Columns
        /\ Visible(before)' = Visible(before) /\ Visible(after)' = Visible(after)
    BY <1>1, VisibleFrame
  <1>4. Sizes'
    BY <1>1, <1>2 DEF GridInv, Sizes, Playing
  <1>5. ASSUME Regular'
        PROVE  GamePlayed'
    <2>1. /\ \A l, c \in Cells : l \notin Lines \/ c \notin Columns => before[l][c] = 0
          /\ ~Stopped => Visible(before) = Generation(input, cGen)
          /\ ~Stopped /\ cGen = numberOfGenerations => Visible(after) = Visible(before)
          /\ Stopped => Visible(after) = Generation(input, numberOfGenerations)
      BY <1>1, <1>2, <1>5 DEF GridInv, GamePlayed
    <2>2. /\ \A l, c \in Cells : l \notin Lines' \/ c \notin Columns' => before'[l][c] = 0
          /\ ~Stopped' => Visible(before)' = Generation(input, cGen)'
          /\ ~Stopped' /\ cGen' = numberOfGenerations' => Visible(after)' = Visible(before)'
          /\ Stopped' => Visible(after)' = Generation(input, numberOfGenerations)'
      BY <1>1, <1>2, <1>3, <2>1
    <2>3. ASSUME mpc' \in {"go", "recv", "decide"}, cGen' < numberOfGenerations',
                 NEW t \in Workers, NEW l \in Computed(t)', NEW c \in Columns'
          PROVE  after'[l][c] = TheGame!Evolve(Visible(before))'[l][c]
      <3>1. mpc \in {"go", "recv", "decide"} /\ Computed(t)' = Computed(t)
        BY <2>3 DEF Quiet
      <3>2. l \in Computed(t) /\ c \in Columns /\ cGen < numberOfGenerations
        BY <1>1, <1>2, <1>3, <2>3, <3>1
      <3>3. after[l][c] = TheGame!Evolve(Visible(before))[l][c]
        BY <1>1, <1>2, <1>5, <3>1, <3>2 DEF GridInv, GamePlayed
      <3> QED
        BY <1>1, <1>3, <3>3
    <2> QED
      BY <2>2, <2>3 DEF GamePlayed
  <1> QED
    BY <1>4, <1>5 DEF GridInv, GamePlayed

\* Reading a file of the right form leaves its grid in `before', with a dead border.
LEMMA ReadFileGrid ==
  ASSUME Inv, GridInv, ReadFile
  PROVE  GridInv' /\ (Regular => Visible(before)' = input)
  <1> DEFINE rows == args.rows
  <1>1. /\ Readable(rows) /\ mpc = "file" /\ mpc' = "threads" /\ args' = args /\ cGen' = cGen
        /\ before' = [l \in Cells |-> IF l < Len(rows) THEN Stored(rows[l + 1], before[l])
                                      ELSE before[l]]
        /\ lineSize' = Len(rows) - 1 /\ columnSize' = Width
    BY DEF ReadFile, Continue, Width
  <1>2. /\ rows \in Seq(Seq(Nat)) /\ rows # << >> /\ MAXGRID \in Nat \ {0}
        /\ \A l \in DOMAIN rows : Len(rows[l]) <= MAXGRID
    BY <1>1, ArgsFacts DEF Inv, Readable
  <1>3. Width \in Nat /\ \A l \in DOMAIN rows : Len(rows[l]) <= Width
    <2>1. rows \in Seq(Seq(Nat)) /\ rows # << >> /\ MAXGRID \in Nat
      BY <1>2
    <2>2. Width = Max({Len(rows[l]) : l \in DOMAIN rows})
      BY DEF Width
    <2> HIDE DEF rows
    <2>3. /\ Max({Len(rows[l]) : l \in DOMAIN rows}) \in 0 .. MAXGRID
          /\ \A l \in DOMAIN rows : Len(rows[l]) <= Max({Len(rows[l2]) : l2 \in DOMAIN rows})
      BY <1>2, <2>1, WidthType
    <2>4. Width \in 0 .. MAXGRID /\ \A l \in DOMAIN rows : Len(rows[l]) <= Width
      BY ONLY <2>2, <2>3
    <2>5. Width \in Nat
      BY ONLY <2>1, <2>4
    <2> QED
      BY <2>4, <2>5
  <1>4. (Regular' <=> Regular) /\ input' = input /\ Width' = Width
        /\ numberOfGenerations' = numberOfGenerations
    BY <1>1, ArgsFrame
  <1>5. Sizes'
    BY <1>1, <1>4 DEF Sizes
  <1>6. before = Zeroes /\ cGen = 0 /\ numberOfGenerations > 0 /\ numberOfGenerations \in Int
    BY <1>1, ArgsFacts DEF GridInv, Sizes, Inv, Rounds, Control, Stopped
  <1>7. Len(rows) \in Nat /\ Len(rows) >= 1
        /\ \A l \in 1 .. Len(rows) : l \in DOMAIN rows /\ rows[l] \in Seq(Nat) /\ Len(rows[l]) \in Nat
    BY <1>2
  <1> DEFINE Cell(l, c) == IF c < Len(rows[l + 1]) THEN rows[l + 1][c + 1] ELSE 0
  <1>8. \A l, c \in Cells : before'[l][c] = IF l < Len(rows) THEN Cell(l, c) ELSE 0
    <2> SUFFICES ASSUME NEW l \in Cells, NEW c \in Cells
                 PROVE  before'[l][c] = IF l < Len(rows) THEN Cell(l, c) ELSE 0
      OBVIOUS
    <2>1. before[l][c] = 0
      BY <1>6 DEF Zeroes
    <2> QED
      BY <1>1, <2>1 DEF Stored
  <1>9. ASSUME Regular
        PROVE  /\ \A l, c \in Cells : l \notin Lines' \/ c \notin Columns' => before'[l][c] = 0
               /\ Visible(before)' = input
    <2>1. /\ rows[Len(rows)] = << >> /\ Len(rows) - 1 < MAXGRID /\ Width < MAXGRID
      BY <1>9 DEF Regular, Complete
    <2>2. Lines' = 0 .. Len(rows) - 2 /\ Columns' = 0 .. Width - 1
      <3>1. Lines' = 0 .. lineSize' - 1 /\ Columns' = 0 .. columnSize' - 1
        BY DEF Lines, Columns
      <3>2. lineSize' - 1 = Len(rows) - 2
        BY <1>1, <1>7
      <3> QED
        BY <1>1, <3>1, <3>2
    <2>3. ASSUME NEW l \in Cells, NEW c \in Cells, l \notin Lines' \/ c \notin Columns'
          PROVE  before'[l][c] = 0
      <3>1. l \in Nat /\ c \in Nat
        BY <1>2 DEF Cells
      <3>2. CASE ~(l < Len(rows))
        BY <1>8, <3>2
      <3>3. CASE l = Len(rows) - 1
        <4>1. l + 1 = Len(rows) /\ l < Len(rows)
          BY <1>7, <3>3
        <4>2. Len(rows[l + 1]) = 0
          BY <2>1, <4>1
        <4>3. Cell(l, c) = 0
          BY <3>1, <4>2
        <4> QED
          BY <1>8, <4>1, <4>3
      <3>4. CASE l < Len(rows) - 1
        <4>1. l \in Lines'
          BY <1>7, <2>2, <3>1, <3>4
        <4>2. c >= Width
          BY <1>3, <2>2, <2>3, <3>1, <4>1
        <4>3. l + 1 \in 1 .. Len(rows) /\ l < Len(rows)
          BY <1>7, <3>1, <3>4
        <4>4. Len(rows[l + 1]) <= Width /\ Len(rows[l + 1]) \in Nat
          BY <1>3, <1>7, <4>3
        <4>5. ~(c < Len(rows[l + 1]))
          BY <1>3, <3>1, <4>2, <4>4
        <4>6. Cell(l, c) = 0
          BY <4>5
        <4> QED
          BY <1>8, <4>3, <4>6
      <3> QED
        BY <1>7, <3>1, <3>2, <3>3, <3>4
    <2>4. Visible(before)' = [l \in Lines' |-> [c \in Columns' |-> before'[l][c]]]
      BY DEF Visible
    <2>5. input = [l \in 0 .. Len(rows) - 2 |-> [c \in 0 .. Width - 1 |-> Cell(l, c)]]
      BY DEF input
    <2>6. ASSUME NEW l \in 0 .. Len(rows) - 2, NEW c \in 0 .. Width - 1
          PROVE  before'[l][c] = Cell(l, c)
      <3>1. l \in Nat /\ c \in Nat /\ l < Len(rows) /\ l < MAXGRID /\ c < MAXGRID
        <4> DEFINE n == Len(rows)
        <4>1. /\ n \in Nat /\ n - 1 < MAXGRID /\ Width \in Nat /\ Width < MAXGRID
              /\ l \in 0 .. n - 2 /\ c \in 0 .. Width - 1 /\ MAXGRID \in Nat
          BY <1>2, <1>3, <1>7, <2>1
        <4> HIDE DEF n
        <4>2. l \in Nat /\ c \in Nat /\ l < n /\ l < MAXGRID /\ c < MAXGRID
          BY ONLY <4>1
        <4> QED
          BY <4>2 DEF n
      <3>2. l \in Cells /\ c \in Cells
        BY <1>2, <3>1 DEF Cells
      <3> QED
        BY <1>8, <3>1, <3>2
    <2>7. Visible(before)' = [l \in 0 .. Len(rows) - 2 |-> [c \in 0 .. Width - 1 |-> before'[l][c]]]
      BY <2>2, <2>4
    <2> HIDE DEF Cell
    <2> QED
      BY <2>3, <2>5, <2>6, <2>7
  <1>10. ASSUME Regular' PROVE GamePlayed'
    <2>1. Generation(input, cGen)' = input
      <3>1. Generation(input', 0) = input'
        BY GenerationDef
      <3>2. Generation(input, cGen)' = Generation(input', cGen')
        OBVIOUS
      <3> QED
        BY <1>1, <1>4, <1>6, <3>1, <3>2
    <2>2. ~Stopped' /\ mpc' \notin {"go", "recv", "decide"} /\ cGen' # numberOfGenerations'
      BY <1>1, <1>4, <1>6 DEF Stopped
    <2> QED
      BY <1>4, <1>9, <1>10, <2>1, <2>2 DEF GamePlayed
  <1> QED
    BY <1>5, <1>9, <1>10 DEF GridInv, GamePlayed

\* While a regular file is played, the grid is smaller than the matrices.
LEMMA RegularFacts ==
  ASSUME Inv, GridInv, Regular, Playing
  PROVE  /\ MAXGRID \in Nat \ {0} /\ lineSize \in Nat /\ columnSize \in Nat
         /\ lineSize < MAXGRID /\ columnSize < MAXGRID
         /\ \A l, c \in Cells : l \notin Lines \/ c \notin Columns => before[l][c] = 0
         /\ \A l \in Lines : l \in Cells
         /\ \A c \in Columns : c \in Cells
  <1>1. MAXGRID \in Nat \ {0} /\ lineSize \in 0 .. MAXGRID /\ columnSize \in 0 .. MAXGRID
    BY ArgsFacts DEF Inv, TypeOK
  <1>2. lineSize \in Nat /\ columnSize \in Nat
    BY <1>1
  <1>3. lineSize = Len(args.rows) - 1 /\ columnSize = Width
    BY DEF GridInv, Sizes, Playing
  <1>4. lineSize < MAXGRID /\ columnSize < MAXGRID
    BY <1>3 DEF Regular
  <1>5. \A l, c \in Cells : l \notin Lines \/ c \notin Columns => before[l][c] = 0
    BY DEF GridInv, GamePlayed
  <1>6. (\A l \in Lines : l \in Cells) /\ (\A c \in Columns : c \in Cells)
    BY <1>1, <1>2, <1>4 DEF Lines, Columns, Cells
  <1> QED
    BY <1>1, <1>2, <1>4, <1>5, <1>6

\* A worker adds a right line to `after', and spoils none.
LEMMA ComputeKeepsGrid ==
  ASSUME Inv, GridInv, NEW t \in Workers, ComputeLine(t)
  PROVE  GridInv'
  <1>1. /\ mpc' = mpc /\ mpc \in {"go", "recv", "decide"} /\ cGen < numberOfGenerations
        /\ UNCHANGED <<before, args, lineSize, columnSize, cGen>>
        /\ line[t] \in Lines /\ line[t] \in Cells
        /\ \A u \in Workers : \A l \in Computed(u)' : l = line[t] \/ l \in Computed(u)
        /\ \A u \in Workers : Computed(u)' \subseteq Lines
    BY ComputeFacts
  <1>2. (Regular' <=> Regular) /\ input' = input /\ Width' = Width
        /\ numberOfGenerations' = numberOfGenerations
    BY <1>1, ArgsFrame
  <1>3. /\ Lines' = Lines /\ Columns' = Columns /\ Visible(before)' = Visible(before)
    BY <1>1, VisibleFrame
  <1>4. Playing /\ ~Stopped /\ ~Stopped'
    BY <1>1 DEF Playing, Stopped
  <1>5. Sizes'
    BY <1>1, <1>2 DEF GridInv, Sizes
  <1>6. /\ after \in Matrices
        /\ after' = [after EXCEPT ![line[t]] =
                       [c \in Cells |-> IF c \in Columns THEN NewCell(line[t], c) ELSE @[c]]]
    BY DEF ComputeLine, Inv, TypeOK
  <1>7. ASSUME Regular' PROVE GamePlayed'
    <2>1. /\ MAXGRID \in Nat \ {0} /\ lineSize \in Nat /\ columnSize \in Nat
          /\ lineSize < MAXGRID /\ columnSize < MAXGRID
          /\ \A l, c \in Cells : l \notin Lines \/ c \notin Columns => before[l][c] = 0
          /\ \A l \in Lines : l \in Cells
          /\ \A c \in Columns : c \in Cells
      BY <1>2, <1>4, <1>7, RegularFacts
    <2>2. /\ Visible(before) = Generation(input, cGen)
          /\ \A u \in Workers : \A l \in Computed(u) : \A c \in Columns :
                after[l][c] = TheGame!Evolve(Visible(before))[l][c]
      BY <1>1, <1>2, <1>4, <1>7 DEF GridInv, GamePlayed
    <2>3. ASSUME NEW u \in Workers, NEW l \in Computed(u)', NEW c \in Columns'
          PROVE  after'[l][c] = TheGame!Evolve(Visible(before))'[l][c]
      <3>1. l \in Lines /\ l \in Cells /\ c \in Columns /\ c \in Cells
            /\ (l = line[t] \/ l \in Computed(u))
        BY <1>1, <1>3, <2>1
      <3>2. after'[l][c] = TheGame!Evolve(Visible(before))[l][c]
        <4>1. CASE l = line[t]
          <5>1. after'[l][c] = NewCell(l, c)
            BY <1>6, <3>1, <4>1 DEF Matrices
          <5> QED
            BY <2>1, <3>1, <5>1, NewCellRight
        <4>2. CASE l # line[t]
          <5>1. after'[l] = after[l]
            BY <1>1, <1>6, <3>1, <4>2 DEF Matrices
          <5> QED
            BY <2>2, <3>1, <4>2, <5>1
        <4> QED
          BY <4>1, <4>2
      <3> QED
        BY <1>3, <3>2
    <2>4. Visible(before)' = Generation(input, cGen)'
      BY <1>1, <1>2, <1>3, <2>2
    <2>5. \A l, c \in Cells : l \notin Lines' \/ c \notin Columns' => before'[l][c] = 0
      BY <1>1, <1>3, <2>1
    <2>6. cGen' # numberOfGenerations'
      <3>1. cGen \in Int
        BY DEF Inv, TypeOK
      <3> QED
        BY <1>1, <1>2, <3>1
    <2> QED
      BY <1>4, <2>3, <2>4, <2>5, <2>6 DEF GamePlayed
  <1> QED
    BY <1>5, <1>7 DEF GridInv, GamePlayed

\* When main looks at the matrices, `after' is all of the generation after `before'.
LEMMA AfterComplete ==
  ASSUME Inv, GridInv, Regular, mpc = "decide", allDoneCounter # numberOfThreads
  PROVE  Visible(after) = TheGame!Evolve(Visible(before))
  <1>1. /\ TypeOK /\ Control /\ Playing /\ ~Stopped
    BY DEF Inv, Playing, Stopped
  <1>2. /\ numberOfThreads \in Nat \ {0} /\ numberOfThreads <= lineSize /\ lineSize \in Nat
        /\ \A t \in 1 .. numberOfThreads : t \in Workers
    <2>1. numberOfThreads \in Workers /\ numberOfThreads <= lineSize
      BY <1>1 DEF Control
    <2>2. lineSize \in Nat /\ MAXTHREAD \in Nat
      BY <1>1, ArgsFacts
    <2> QED
      BY <2>1, <2>2 DEF Workers
  <1>3. cGen < numberOfGenerations
    BY DecideFacts
  <1>4. ASSUME NEW l \in Lines, NEW c \in Columns
        PROVE  after[l][c] = TheGame!Evolve(Visible(before))[l][c]
    <2>1. PICK t \in 1 .. numberOfThreads : l \in RangeOf(t).value1 .. RangeOf(t).value2
      BY <1>2, SharesCover
    <2>2. t \in Workers /\ t <= numberOfThreads
      BY <1>2, <2>1
    <2>3. gen[t] = cGen + 2 /\ wpc[t] \notin {"none", "range"}
      BY <2>2, DecideFacts
    <2>4. lineFrom[t] = RangeOf(t).value1 /\ lineTo[t] = RangeOf(t).value2
      BY <2>2, <2>3 DEF Inv, Protocol, WorkerState, PlayerState
    <2>5. l \in Computed(t)
      BY <2>1, <2>3, <2>4 DEF Computed
    <2> QED
      BY <1>1, <1>3, <2>2, <2>5 DEF GridInv, GamePlayed
  <1>5. TheGame!Evolve(Visible(before)) =
            [l \in Lines |-> [c \in Columns |-> TheGame!Evolve(Visible(before))[l][c]]]
    <2> DEFINE g == Visible(before)
    <2>1. DOMAIN g = Lines /\ \A l \in Lines : DOMAIN g[l] = Columns
      BY DEF Visible
    <2> HIDE DEF g
    <2>2. TheGame!Evolve(g) = [l \in Lines |-> [c \in Columns |-> TheGame!Evolve(g)[l][c]]]
      BY <2>1 DEF TheGame!Evolve
    <2> QED
      BY <2>2 DEF g
  <1>6. Visible(after) = [l \in Lines |-> [c \in Columns |-> after[l][c]]]
    BY DEF Visible
  <1> QED
    BY <1>4, <1>5, <1>6

\* isAllZero and hasNotChanged tell whether the game is at rest.
LEMMA RestTests ==
  /\ isAllZero <=> TheGame!Dead(Visible(after))
  /\ hasNotChanged <=> Visible(after) = Visible(before)
  <1>1. isAllZero <=> TheGame!Dead(Visible(after))
    BY DEF isAllZero, TheGame!Dead, Visible
  <1>2. hasNotChanged <=> Visible(after) = Visible(before)
    <2>1. ASSUME Visible(after) = Visible(before), NEW l \in Lines, NEW c \in Columns
          PROVE  before[l][c] = after[l][c]
      <3>1. Visible(after)[l][c] = after[l][c] /\ Visible(before)[l][c] = before[l][c]
        BY DEF Visible
      <3> QED
        BY <2>1, <3>1
    <2>2. ASSUME hasNotChanged PROVE Visible(after) = Visible(before)
      BY <2>2 DEF hasNotChanged, Visible
    <2> QED
      BY <2>1, <2>2 DEF hasNotChanged
  <1> QED
    BY <1>1, <1>2

\* What main's decisions leave alone.
LEMMA DecisionFrame ==
  ASSUME Inv, AllFinished \/ StopGame \/ NextGeneration
  PROVE  /\ mpc = "decide" /\ Playing /\ ~Stopped /\ mpc' \in {"join", "stop", "go"}
         /\ UNCHANGED <<after, args, lineSize, columnSize>>
         /\ (Regular' <=> Regular) /\ input' = input /\ Width' = Width
         /\ numberOfGenerations' = numberOfGenerations
         /\ Lines' = Lines /\ Columns' = Columns /\ Visible(after)' = Visible(after)
         /\ cGen \in Nat /\ numberOfGenerations \in Nat
         /\ GridInv => Sizes'
  <1>1. /\ mpc = "decide" /\ mpc' \in {"join", "stop", "go"}
        /\ UNCHANGED <<after, args, lineSize, columnSize>>
    BY DEF AllFinished, StopGame, NextGeneration, inputVars
  <1>2. Playing /\ ~Stopped
    BY <1>1 DEF Playing, Stopped
  <1>3. (Regular' <=> Regular) /\ input' = input /\ Width' = Width
        /\ numberOfGenerations' = numberOfGenerations
    BY <1>1, ArgsFrame
  <1>4. Lines' = Lines /\ Columns' = Columns /\ Visible(after)' = Visible(after)
    BY <1>1, VisibleFrame
  <1>5. cGen \in Nat /\ numberOfGenerations \in Nat
    <2>1. cGen \in Nat /\ numberOfGenerations \in Int /\ numberOfGenerations > 0
      BY <1>1, ArgsFacts DEF Inv, TypeOK, Control
    <2> QED
      BY <2>1
  <1>6. GridInv => Sizes'
    BY <1>1, <1>3 DEF GridInv, Sizes
  <1> QED
    BY <1>1, <1>2, <1>3, <1>4, <1>5, <1>6

\* updateMatrix makes `before' show what `after' shows, and keeps its border.
LEMMA UpdateFacts ==
  ASSUME updateMatrix, UNCHANGED <<lineSize, columnSize>>,
         \A l \in Lines : l \in Cells, \A c \in Columns : c \in Cells
  PROVE  /\ Visible(before)' = Visible(after)
         /\ \A l, c \in Cells : l \notin Lines \/ c \notin Columns => before'[l][c] = before[l][c]
  <1>1. Lines' = Lines /\ Columns' = Columns
    BY VisibleFrame
  <1>2. before' = [l \in Cells |-> [c \in Cells |->
                    IF l \in Lines /\ c \in Columns THEN after[l][c] ELSE before[l][c]]]
    BY DEF updateMatrix
  <1>3. Visible(before)' = [l \in Lines |-> [c \in Columns |-> before'[l][c]]]
    BY <1>1 DEF Visible
  <1>4. \A l \in Lines : \A c \in Columns : before'[l][c] = after[l][c]
    BY <1>2
  <1>5. Visible(after) = [l \in Lines |-> [c \in Columns |-> after[l][c]]]
    BY DEF Visible
  <1>6. Visible(before)' = Visible(after)
    BY <1>3, <1>4, <1>5
  <1> QED
    BY <1>2, <1>6

\* main's decisions keep the game: the last grid it prints is the one that playing
\* on would give.
LEMMA DecisionKeepsGrid ==
  ASSUME Inv, GridInv, AllFinished \/ StopGame \/ NextGeneration
  PROVE  GridInv'
  <1>1. /\ mpc = "decide" /\ Playing /\ ~Stopped /\ mpc' \in {"join", "stop", "go"}
        /\ UNCHANGED <<after, args, lineSize, columnSize>>
        /\ (Regular' <=> Regular) /\ input' = input
        /\ numberOfGenerations' = numberOfGenerations
        /\ Lines' = Lines /\ Columns' = Columns /\ Visible(after)' = Visible(after)
        /\ cGen \in Nat /\ numberOfGenerations \in Nat /\ Sizes'
    BY DecisionFrame
  <1> DEFINE g == input
             k == cGen
             n == numberOfGenerations
  <1>2. ASSUME Regular PROVE GamePlayed'
    <2>1. /\ \A l, c \in Cells : l \notin Lines \/ c \notin Columns => before[l][c] = 0
          /\ Visible(before) = Generation(g, k)
          /\ k = n => Visible(after) = Visible(before)
      BY <1>1, <1>2 DEF GridInv, GamePlayed
    <2>g. ASSUME allDoneCounter # numberOfThreads
          PROVE  /\ k < n /\ Visible(after) = TheGame!Evolve(Visible(before))
                 /\ Visible(after) = Generation(g, k + 1)
      <3>1. k < n /\ Visible(after) = TheGame!Evolve(Visible(before))
        BY <1>1, <1>2, <2>g, DecideFacts, AfterComplete
      <3>2. Generation(g, k + 1) = TheGame!Evolve(Generation(g, k))
        BY <1>1, GenerationDef
      <3> QED
        BY <2>1, <3>1, <3>2
    <2>s. ASSUME before' = before, mpc' \in {"join", "stop"}, Visible(after) = Generation(g, n)
          PROVE  GamePlayed'
      <3>1. Stopped' /\ mpc' \notin {"go", "recv", "decide"}
        BY <2>s DEF Stopped
      <3>2. Visible(after)' = Generation(input, numberOfGenerations)'
        BY <1>1, <2>s
      <3>3. \A l, c \in Cells : l \notin Lines' \/ c \notin Columns' => before'[l][c] = 0
        BY <1>1, <2>1, <2>s
      <3> QED
        BY <3>1, <3>2, <3>3 DEF GamePlayed
    <2>2. CASE AllFinished
      <3>1. before' = before /\ mpc' = "join" /\ allDoneCounter = numberOfThreads
        BY <2>2 DEF AllFinished
      <3>2. numberOfThreads # 0 /\ cGen \in 0 .. numberOfGenerations
        BY <1>1 DEF Inv, Control, Workers, Rounds
      <3>3. k = n
        BY <1>1, <3>1, <3>2 DEF Inv, Rounds
      <3> QED
        BY <2>1, <2>s, <3>1, <3>3
    <2>3. CASE StopGame
      <3>1. /\ before' = before /\ mpc' = "stop" /\ allDoneCounter # numberOfThreads
            /\ isAllZero \/ hasNotChanged
        BY <2>3 DEF StopGame
      <3>2. /\ k < n /\ Visible(after) = TheGame!Evolve(Visible(before))
            /\ Visible(after) = Generation(g, k + 1)
        BY <2>g, <3>1
      <3>3. CASE isAllZero
        <4>1. TheGame!Evolve(Visible(after)) = Visible(after)
          BY <3>3, RestTests, DeadRests
        <4>2. /\ TheGame!Evolve(Generation(g, k + 1)) = Generation(g, k + 1)
              /\ k + 1 \in Nat /\ n >= k + 1
          BY <1>1, <3>2, <4>1
        <4> HIDE DEF g, k, n
        <4>3. Generation(g, n) = Generation(g, k + 1)
          BY <4>2, <1>1, RestForever DEF n
        <4> QED
          BY <2>s, <3>1, <3>2, <4>3
      <3>4. CASE hasNotChanged
        <4>1. Visible(after) = Visible(before)
          BY <3>4, RestTests
        <4>2. /\ TheGame!Evolve(Generation(g, k)) = Generation(g, k) /\ n >= k
          BY <1>1, <2>1, <3>2, <4>1
        <4> HIDE DEF g, k, n
        <4>3. Generation(g, n) = Generation(g, k)
          BY <4>2, <1>1, RestForever DEF n, k
        <4> QED
          BY <2>s, <2>1, <3>1, <4>1, <4>3
      <3> QED
        BY <3>1, <3>3, <3>4
    <2>4. CASE NextGeneration
      <3>1. /\ updateMatrix /\ cGen' = k + 1 /\ mpc' = "go" /\ allDoneCounter # numberOfThreads
            /\ UNCHANGED <<gen, wpc, line, lineFrom, lineTo>>
        BY <2>4 DEF NextGeneration, workVars
      <3>2. k < n /\ Visible(after) = Generation(g, k + 1)
        BY <2>g, <3>1
      <3>3. (\A l \in Lines : l \in Cells) /\ (\A c \in Columns : c \in Cells)
        BY <1>1, <1>2, RegularFacts
      <3>4. /\ Visible(before)' = Visible(after)
            /\ \A l, c \in Cells : l \notin Lines \/ c \notin Columns => before'[l][c] = before[l][c]
        BY <1>1, <3>1, <3>3, UpdateFacts
      <3>5. Visible(before)' = Generation(input, cGen)'
        BY <1>1, <3>1, <3>2, <3>4
      <3>6. ~Stopped'
        BY <3>1 DEF Stopped
      <3>7. ASSUME NEW t \in Workers PROVE Computed(t)' = {}
        <4>1. gen[t] \in Nat
          BY DEF Inv, TypeOK
        <4>2. (gen[t] = k + 2 \/ wpc[t] = "none") /\ wpc[t] \notin {"compute", "gendone"}
          BY <1>1, <3>1, DecideFacts
        <4>3. wpc[t] = "none" => gen[t] = 0
          BY <1>1 DEF Inv, Protocol, WorkerState
        <4>4. gen'[t] # cGen' + 2 /\ wpc'[t] \notin {"compute", "gendone"}
          BY <1>1, <3>1, <4>1, <4>2, <4>3
        <4> QED
          BY <4>4 DEF Computed
      <3>8. \A l, c \in Cells : l \notin Lines' \/ c \notin Columns' => before'[l][c] = 0
        BY <1>1, <2>1, <3>4
      <3> QED
        BY <1>1, <3>4, <3>5, <3>6, <3>7, <3>8 DEF GamePlayed
    <2> QED
      BY <2>2, <2>3, <2>4
  <1> QED
    BY <1>1, <1>2 DEF GridInv, GamePlayed

\* Steps that leave the game because of its arguments, or because no thread could be
\* created.
LEMMA LeaveFacts ==
  ASSUME Inv, CheckArgs \/ RejectFile \/ SetThreads \/ CreateThreadFails
  PROVE  /\ UNCHANGED <<before, after, args, lineSize, columnSize, cGen>>
         /\ ~Stopped /\ ~Stopped' /\ cGen = 0
         /\ mpc' \in {"file", "exit", "crash", "create"}
         /\ mpc \notin {"args", "file"} => Playing /\ mpc' # "file"
         /\ mpc \in {"args", "file"} => mpc' \in {"file", "exit"}
  <1>1. /\ UNCHANGED <<before, after, args, lineSize, columnSize, cGen>>
        /\ mpc \in {"args", "file", "threads", "create"}
        /\ mpc' \in {"file", "exit", "crash", "create"}
        /\ mpc \notin {"args", "file"} => mpc' # "file"
        /\ mpc \in {"args", "file"} => mpc' \in {"file", "exit"}
    BY DEF CheckArgs, RejectFile, SetThreads, CreateThreadFails, Continue, inputVars
  <1> QED
    BY <1>1 DEF Inv, Rounds, Stopped, Playing

\* Every step keeps the game in the matrices.
LEMMA GridPreserved == Inv /\ GridInv /\ [Next]_vars => GridInv'
  <1> SUFFICES ASSUME Inv, GridInv, [Next]_vars PROVE GridInv'
    OBVIOUS
  <1>1. CASE CheckArgs \/ RejectFile \/ SetThreads \/ CreateThreadFails
    <2>1. /\ UNCHANGED <<before, after, args, lineSize, columnSize, cGen>>
          /\ ~Stopped /\ ~Stopped' /\ cGen = 0
          /\ mpc' \in {"file", "exit", "crash", "create"}
          /\ mpc \notin {"args", "file"} => Playing /\ mpc' # "file"
          /\ mpc \in {"args", "file"} => mpc' \in {"file", "exit"}
      BY <1>1, LeaveFacts
    <2>2. (Regular' <=> Regular) /\ input' = input /\ Width' = Width
          /\ numberOfGenerations' = numberOfGenerations
      BY <2>1, ArgsFrame
    <2>3. Lines' = Lines /\ Columns' = Columns /\ Visible(before)' = Visible(before)
          /\ Visible(after)' = Visible(after)
      BY <2>1, VisibleFrame
    <2>4. Sizes'
      BY <2>1, <2>2 DEF GridInv, Sizes, Playing
    <2>5. ASSUME Regular', Playing' PROVE GamePlayed'
      <3>1. mpc' = "create" /\ Playing
        BY <2>1, <2>5 DEF Playing
      <3>2. /\ \A l, c \in Cells : l \notin Lines \/ c \notin Columns => before[l][c] = 0
            /\ Visible(before) = Generation(input, cGen)
            /\ cGen = numberOfGenerations => Visible(after) = Visible(before)
        BY <2>1, <2>2, <2>5, <3>1 DEF GridInv, GamePlayed
      <3>3. \A l, c \in Cells : l \notin Lines' \/ c \notin Columns' => before'[l][c] = 0
        BY <2>1, <2>3, <3>2
      <3>4. /\ Visible(before)' = Generation(input, cGen)'
            /\ cGen' = numberOfGenerations' => Visible(after)' = Visible(before)'
        BY <2>1, <2>2, <2>3, <3>2
      <3> QED
        BY <2>1, <3>1, <3>3, <3>4 DEF GamePlayed
    <2> QED
      BY <2>4, <2>5 DEF GridInv, GamePlayed
  <1>2. CASE ReadFile
    BY <1>2, ReadFileGrid
  <1>3. CASE AllFinished \/ StopGame \/ NextGeneration
    BY <1>3, DecisionKeepsGrid
  <1>4. CASE CreateThread \/ SendRange \/ SendGo \/ RecvDone \/ SendStop \/ JoinThread
    BY <1>4, MainQuiet, QuietKeepsGrid
  <1>5. CASE \E t \in Workers : Worker(t)
    BY <1>5, WorkerQuiet, QuietKeepsGrid, ComputeKeepsGrid
  <1>6. CASE UNCHANGED vars
    <2>1. UNCHANGED <<before, after, args, lineSize, columnSize, cGen, mpc, gen, wpc, line,
                      lineFrom, lineTo>>
      BY <1>6 DEF vars, mainVars, workVars, inputVars
    <2>2. CASE Playing
      <3>1. (Playing' <=> Playing) /\ (Stopped' <=> Stopped)
        BY <2>1 DEF Playing, Stopped
      <3>2. \A t \in Workers : Computed(t)' = Computed(t)
        BY <2>1 DEF Computed
      <3>3. Quiet
        BY <2>1, <2>2, <3>1, <3>2 DEF Quiet
      <3> QED
        BY <3>3, QuietKeepsGrid
    <2>3. CASE ~Playing
      <3>1. Width' = Width /\ ~Playing'
        BY <2>1, <2>3, ArgsFrame DEF Playing
      <3>2. Sizes'
        BY <2>1, <3>1 DEF GridInv, Sizes
      <3> QED
        BY <3>1, <3>2 DEF GridInv, GamePlayed
    <2> QED
      BY <2>2, <2>3
  <1> QED
    BY <1>1, <1>2, <1>3, <1>4, <1>5, <1>6 DEF Next, Main

\* In every reachable state the matrices hold the generation of the game that main
\* has counted, and the lines of the next one that the workers have computed.
THEOREM GridInvariance == Spec => []GridInv
  <1>1. Inv /\ GridInv /\ [Next]_vars => GridInv'
    BY GridPreserved
  <1> QED
    BY Invariance, GridInit, <1>1, PTL DEF Spec

\* Both together: the protocol is kept and the matrices hold the game, in every
\* reachable state.
THEOREM FullInvariance == Spec => []FullInv
  BY Invariance, GridInvariance, PTL DEF FullInv

\* When main looks at the matrices to decide, all workers have finished the generation
\* and `after' is exactly the successor of `before', for every way in which the lines
\* are shared and the threads interleave.
THEOREM GenerationComplete == Spec => []CompleteGeneration
  <1>1. Inv /\ GridInv => CompleteGeneration
    <2> SUFFICES ASSUME Inv, GridInv, mpc = "decide", allDoneCounter # numberOfThreads
                 PROVE  /\ \A t \in Workers : wpc[t] \notin {"compute", "gendone"}
                        /\ Regular => Visible(after) = TheGame!Evolve(Visible(before))
      BY DEF CompleteGeneration
    <2>1. \A t \in Workers : wpc[t] \notin {"compute", "gendone"}
      BY DecideFacts
    <2> QED
      BY <2>1, AfterComplete
  <1> QED
    BY Invariance, GridInvariance, <1>1, PTL

\* The matrix that is printed is the generation that was asked for, also when main
\* stops early because nothing changes any more.
THEOREM PrintsTheGame == Spec => []FinalResult
  <1>1. Inv /\ GridInv => FinalResult
    BY DEF GridInv, GamePlayed, FinalResult, ResultRight, Playing, Stopped
  <1> QED
    BY Invariance, GridInvariance, <1>1, PTL
-----------------------------------------------------------------------------
(* life implements the game.                                                *)

\* The grid and the end of the game that life plays.
gridSeen == IF ~Regular THEN << >> ELSE IF ~Playing THEN input
            ELSE IF Stopped THEN Visible(after) ELSE Visible(before)
genSeen == IF Regular THEN cGen ELSE 0
endSeen == Regular /\ Stopped

\* A step of life that shows nothing new of the game.
LEMMA Unseen ==
  ASSUME gridSeen' = gridSeen, genSeen' = genSeen, endSeen' = endSeen, args' = args
  PROVE  UNCHANGED TheGame!gameVars
  BY ArgsFrame DEF TheGame!gameVars, gridSeen, genSeen, endSeen

\* A file that is not of the right form is nothing to play with.
LEMMA IrregularStutters ==
  ASSUME ~Regular, args' = args
  PROVE  UNCHANGED TheGame!gameVars
  <1>1. ~Regular'
    BY ArgsFrame
  <1>2. gridSeen' = gridSeen /\ genSeen' = genSeen /\ endSeen' = endSeen
    BY <1>1 DEF gridSeen, genSeen, endSeen
  <1> QED
    BY <1>2, Unseen

\* Quiet steps, steps of a worker and the steps before the game starts are stutters.
LEMMA GameStutters ==
  ASSUME Inv, GridInv, GridInv', Regular, [Next]_vars,
         ~(AllFinished \/ StopGame \/ NextGeneration)
  PROVE  UNCHANGED TheGame!gameVars
  <1>s. ASSUME UNCHANGED <<before, args, lineSize, columnSize, cGen>>,
               Playing' <=> Playing, Stopped' <=> Stopped, Stopped => after' = after
        PROVE  UNCHANGED TheGame!gameVars
    <2>1. (Regular' <=> Regular) /\ input' = input
      BY <1>s, ArgsFrame
    <2>2. Visible(before)' = Visible(before) /\ (Stopped => Visible(after)' = Visible(after))
      BY <1>s, VisibleFrame
    <2>3. gridSeen' = gridSeen
      BY <1>s, <2>1, <2>2 DEF gridSeen
    <2>4. genSeen' = genSeen /\ endSeen' = endSeen
      BY <1>s, <2>1 DEF genSeen, endSeen
    <2> QED
      BY <1>s, <2>3, <2>4, Unseen
  <1>1. CASE CheckArgs \/ RejectFile \/ SetThreads \/ CreateThreadFails
    <2>1. /\ UNCHANGED <<before, after, args, lineSize, columnSize, cGen>>
          /\ ~Stopped /\ ~Stopped' /\ cGen = 0
          /\ mpc' \in {"file", "exit", "crash", "create"}
          /\ mpc \notin {"args", "file"} => Playing /\ mpc' # "file"
          /\ mpc \in {"args", "file"} => mpc' \in {"file", "exit"}
      BY <1>1, LeaveFacts
    <2>2. CASE Playing' <=> Playing
      BY <1>s, <2>1, <2>2
    <2>3. CASE ~(Playing' <=> Playing)
      <3>1. Playing /\ ~Playing'
        BY <2>1, <2>3 DEF Playing
      <3>2. Visible(before) = Generation(input, cGen)
        BY <2>1, <3>1 DEF GridInv, GamePlayed
      <3>3. Visible(before) = input
        BY <2>1, <3>2, GenerationDef
      <3>4. (Regular' <=> Regular) /\ input' = input
        BY <2>1, ArgsFrame
      <3>5. gridSeen = input /\ gridSeen' = input
        BY <2>1, <3>1, <3>3, <3>4 DEF gridSeen
      <3>6. genSeen' = genSeen /\ endSeen' = endSeen
        BY <2>1, <3>4 DEF genSeen, endSeen
      <3> QED
        BY <2>1, <3>5, <3>6, Unseen
    <2> QED
      BY <2>2, <2>3
  <1>2. CASE ReadFile
    <2>1. mpc = "file" /\ mpc' = "threads" /\ cGen' = cGen /\ args' = args
      BY <1>2 DEF ReadFile, Continue
    <2>2. (Regular' <=> Regular) /\ input' = input
      BY <2>1, ArgsFrame
    <2>3. Visible(before)' = input
      BY <1>2, ReadFileGrid
    <2>4. gridSeen = input /\ gridSeen' = input
      BY <2>1, <2>2, <2>3 DEF gridSeen, Playing, Stopped
    <2>5. genSeen' = genSeen /\ endSeen' = endSeen
      BY <2>1, <2>2 DEF genSeen, endSeen, Stopped
    <2> QED
      BY <2>1, <2>4, <2>5, Unseen
  <1>3. CASE CreateThread \/ SendRange \/ SendGo \/ RecvDone \/ SendStop \/ JoinThread
    BY <1>3, <1>s, MainQuiet DEF Quiet
  <1>4. CASE \E t \in Workers : Worker(t)
    <2>1. PICK t \in Workers : Worker(t)
      BY <1>4
    <2>2. CASE ComputeLine(t)
      <3>1. /\ mpc' = mpc /\ mpc \in {"go", "recv", "decide"}
            /\ UNCHANGED <<before, args, lineSize, columnSize, cGen>>
        BY <2>2, ComputeFacts
      <3> QED
        BY <3>1, <1>s DEF Playing, Stopped
    <2>3. CASE ~ComputeLine(t)
      BY <2>1, <2>3, <1>s, WorkerQuiet DEF Quiet
    <2> QED
      BY <2>2, <2>3
  <1>5. CASE UNCHANGED vars
    <2>1. UNCHANGED <<before, after, args, lineSize, columnSize, cGen, mpc>>
      BY <1>5 DEF vars, mainVars, inputVars
    <2> QED
      BY <2>1, <1>s DEF Playing, Stopped
  <1> QED
    BY <1>1, <1>2, <1>3, <1>4, <1>5 DEF Next, Main

\* main's decisions are the steps of the game.
LEMMA GameSteps ==
  ASSUME Inv, GridInv, Regular, AllFinished \/ StopGame \/ NextGeneration
  PROVE  TheGame!Next
  <1>1. /\ mpc = "decide" /\ Playing /\ ~Stopped /\ mpc' \in {"join", "stop", "go"}
        /\ UNCHANGED <<after, args, lineSize, columnSize>>
        /\ Regular' /\ numberOfGenerations' = numberOfGenerations
        /\ Visible(after)' = Visible(after)
        /\ cGen \in Nat /\ numberOfGenerations \in Nat
    BY DecisionFrame
  <1>2. gridSeen = Visible(before) /\ genSeen = cGen /\ endSeen = FALSE /\ genSeen' = cGen'
    BY <1>1 DEF gridSeen, genSeen, endSeen
  <1>3. CASE AllFinished
    <2>1. before' = before /\ mpc' = "join" /\ allDoneCounter = numberOfThreads /\ cGen' = cGen
      BY <1>3 DEF AllFinished
    <2>2. numberOfThreads # 0 /\ cGen \in 0 .. numberOfGenerations
      BY <1>1 DEF Inv, Control, Workers, Rounds
    <2>3. cGen = numberOfGenerations
      BY <1>1, <2>1, <2>2 DEF Inv, Rounds
    <2>4. Visible(after) = Visible(before)
      BY <1>1, <2>3 DEF GridInv, GamePlayed
    <2>5. gridSeen' = gridSeen /\ endSeen'
      BY <1>1, <1>2, <2>1, <2>4 DEF gridSeen, endSeen, Stopped, Playing
    <2>6. TheGame!LimitReached
      BY <1>1, <1>2, <2>1, <2>3, <2>5 DEF TheGame!LimitReached, gridSeen, genSeen, endSeen
    <2> QED
      BY <2>6 DEF TheGame!Next
  <1>4. CASE StopGame \/ NextGeneration
    <2>1. cGen' = cGen + 1 /\ allDoneCounter # numberOfThreads
      BY <1>4 DEF StopGame, NextGeneration
    <2>2. cGen < numberOfGenerations /\ Visible(after) = TheGame!Evolve(Visible(before))
      BY <1>1, <2>1, DecideFacts, AfterComplete
    <2>3. gridSeen' = Visible(after)
      <3>1. CASE StopGame
        BY <1>1, <3>1 DEF StopGame, gridSeen, Stopped, Playing
      <3>2. CASE NextGeneration
        <4>1. updateMatrix /\ mpc' = "go"
          BY <3>2 DEF NextGeneration
        <4>2. (\A l \in Lines : l \in Cells) /\ (\A c \in Columns : c \in Cells)
          BY <1>1, RegularFacts
        <4>3. Visible(before)' = Visible(after)
          BY <1>1, <4>1, <4>2, UpdateFacts
        <4> QED
          BY <1>1, <4>1, <4>3 DEF gridSeen, Stopped, Playing
      <3> QED
        BY <1>4, <3>1, <3>2
    <2>4. endSeen' <=> TheGame!Dead(Visible(after)) \/ Visible(after) = Visible(before)
      BY <1>1, <1>4, RestTests DEF StopGame, NextGeneration, endSeen, Stopped
    <2>5. endSeen' = TheGame!AtRest(gridSeen, gridSeen')
      BY <1>2, <2>3, <2>4 DEF TheGame!AtRest, endSeen
    <2>6. gridSeen' = TheGame!Evolve(gridSeen)
      BY <1>2, <2>2, <2>3
    <2>7. TheGame!Step
      BY <1>1, <1>2, <2>1, <2>2, <2>5, <2>6 DEF TheGame!Step, gridSeen, genSeen, endSeen
    <2> QED
      BY <2>7 DEF TheGame!Next
  <1> QED
    BY <1>3, <1>4

\* life plays the game: every step of main and of the workers is a step of Game or
\* leaves it as it is, for every file, size of the matrices and number of threads.
THEOREM Refinement == Spec => ImplementsGame
  <1>1. Init => TheGame!Init
    BY DEF Init, TheGame!Init, Stopped
  <1>2. Inv /\ GridInv /\ GridInv' /\ [Next]_vars => [TheGame!Next]_TheGame!gameVars
    <2> SUFFICES ASSUME Inv, GridInv, GridInv', [Next]_vars
                 PROVE  TheGame!Next \/ UNCHANGED TheGame!gameVars
      OBVIOUS
    <2>1. args' = args
      BY DEF Next, Main, CheckArgs, RejectFile, ReadFile, SetThreads, Continue, CreateThread,
             CreateThreadFails, SendRange, SendGo, RecvDone, AllFinished, StopGame,
             NextGeneration, SendStop, JoinThread, Worker, RecvRange, RecvGo, ComputeLine,
             SendGenDone, EnterBarrier, CheckBarrier, PostBarrier, LeaveBarrier, SendAllDone,
             inputVars, vars
    <2> QED
      BY <2>1, IrregularStutters, GameStutters, GameSteps
  <1> QED
    BY Invariance, GridInvariance, <1>1, <1>2, PTL DEF Spec, TheGame!Spec, ImplementsGame
=============================================================================

---------------------------- MODULE AddemProofs ----------------------------
(***************************************************************************)
(* Proofs about addem, for any number of threads, any width of int and any *)
(* arguments.                                                              *)
(***************************************************************************)
EXTENDS Addem, WellOrder

\* Whatever is added, the result is an int.
LEMMA WrapType == \A n \in Int : Wrap(n) \in Ints
  <1> SUFFICES ASSUME NEW n \in Int PROVE Wrap(n) \in Ints
    OBVIOUS
  <1> DEFINE w == INT_MAX - INT_MIN + 1
             r == (n - INT_MIN) % w
  <1>1. INT_MAX \in Nat /\ INT_MIN \in Int /\ w \in Nat \ {0} /\ w = 2 * INT_MAX + 2
    BY AddemAssumption DEF INT_MIN
  <1>2. r \in 0 .. w - 1
    <2> HIDE DEF w
    <2>1. n - INT_MIN \in Int
      BY <1>1
    <2> QED
      BY <1>1, <2>1
  <1>3. Wrap(n) = r + INT_MIN
    BY DEF Wrap
  <1> HIDE DEF r
  <1> QED
    BY <1>1, <1>2, <1>3 DEF Ints, INT_MIN

\* The share of each thread, times the number of the shares before the end, is
\* not larger than the whole: the bounds of the ranges are ints.
LEMMA ShareBounded ==
  ASSUME NEW a \in Nat, NEW n \in Nat \ {0}, NEW t \in 0 .. n
  PROVE  a \div n \in Nat /\ t * (a \div n) \in 0 .. a
  <1> DEFINE q == a \div n
  <1>1. q \in Nat /\ n * q <= a
    OBVIOUS
  <1> HIDE DEF q
  <1>2. t * q <= n * q
    BY <1>1
  <1>3. t * q \in Nat /\ n * q \in Nat
    BY <1>1
  <1> QED
    BY <1>1, <1>2, <1>3 DEF q

\* The message with a worker's range has ints in it, also for a negative maximum.
LEMMA RangeType ==
  ASSUME maxValue \in Ints, numberOfThreads \in Ints, ArgsOK, NEW t \in 1 .. numberOfThreads
  PROVE  RangeOf(t) \in Msgs
  <1> DEFINE n == numberOfThreads
             range == Quotient(maxValue, n)
             last == IF t < n THEN t * range ELSE maxValue
  <1>1. /\ n \in Nat \ {0} /\ maxValue \in Int /\ INT_MIN <= maxValue /\ maxValue <= INT_MAX
        /\ t \in Nat /\ t \in 0 .. n /\ INT_MIN \in Int /\ INT_MAX \in Nat /\ INT_MIN < 0
    BY AddemAssumption DEF ArgsOK, Ints, INT_MIN
  <1> HIDE DEF n
  <1>2. range \in Int /\ t * range \in Int /\ INT_MIN <= t * range /\ t * range <= INT_MAX
    <2>1. CASE maxValue >= 0
      <3>1. maxValue \in Nat /\ range = maxValue \div n
        BY <1>1, <2>1 DEF Quotient
      <3>2. range \in Nat /\ t * range \in 0 .. maxValue
        BY <1>1, <3>1, ShareBounded
      <3> HIDE DEF range
      <3> QED
        BY <1>1, <3>2
    <2>2. CASE ~(maxValue >= 0)
      <3> DEFINE q == (-maxValue) \div n
      <3>1. -maxValue \in Nat /\ range = -q
        BY <1>1, <2>2 DEF Quotient
      <3>2. q \in Nat /\ t * q \in 0 .. -maxValue
        BY <1>1, <3>1, ShareBounded
      <3> HIDE DEF q, range
      <3>3. t * range = -(t * q)
        BY <1>1, <3>1, <3>2
      <3> QED
        BY <1>1, <3>1, <3>2, <3>3
    <2> QED
      BY <2>1, <2>2
  <1>3. last \in Ints
    BY <1>1, <1>2 DEF Ints
  <1>4. Wrap((t - 1) * range + 1) \in Ints
    <2> HIDE DEF range
    <2>1. (t - 1) * range + 1 \in Int
      BY <1>1, <1>2
    <2> QED
      BY <2>1, WrapType
  <1>5. RangeOf(t) = [iFrom |-> 0, type |-> "RANGE",
                      value1 |-> Wrap((t - 1) * range + 1), value2 |-> last]
    BY DEF RangeOf, Msg, parent_threadID, n
  <1> HIDE DEF range, last
  <1> QED
    BY <1>3, <1>4, <1>5 DEF Msgs

\* Nothing has been started at first.
LEMMA InitInv == Init => Inv
  <1> SUFFICES ASSUME Init PROVE Inv
    OBVIOUS
  <1>1. TypeOK
    BY AddemAssumption DEF Init, TypeOK, Workers, Ints, INT_MIN
  <1>2. Control /\ Started
    BY AddemAssumption DEF Init, Control, Started, Created, RangeSent, Workers
  <1>r. RangesKept
    <2>1. ArgsOK => numberOfThreads \in Workers
      BY <1>1, AddemAssumption DEF ArgsOK, Workers, TypeOK, Ints, INT_MIN
    <2> QED
      BY <2>1, AddemAssumption DEF Init, RangesKept, Workers
  <1>3. RepliesCounted
    <2>1. {t \in Workers : Replied(t)} = {}
      BY DEF Init, Replied
    <2>2. Collected = 0 /\ box[parent_threadID] = NoMsg
      BY AddemAssumption DEF Init, Collected, parent_threadID
    <2> QED
      BY <2>1, <2>2, FS_EmptySet DEF RepliesCounted
  <1>j. Joined
    BY DEF Init, Joined
  <1> QED
    BY <1>1, <1>2, <1>3, <1>r, <1>j DEF Inv

\* The mailboxes and the messages of the workers keep their types: every value
\* that is added, sent or received is an int.
LEMMA TypePreserved == Inv /\ [Next]_vars => TypeOK'
  <1> SUFFICES ASSUME TypeOK, Control, Started, [Next]_vars PROVE TypeOK'
    BY DEF Inv
  <1>a. /\ parent_threadID \in 0 .. MAXTHREAD /\ Workers \subseteq 0 .. MAXTHREAD
        /\ MAXTHREAD \in Nat \ {0} /\ 0 \in Ints
    BY AddemAssumption DEF parent_threadID, Workers, Ints, INT_MIN
  <1>n. ArgsOK => numberOfThreads \in Workers
    BY AddemAssumption DEF ArgsOK, Workers, TypeOK, Ints, INT_MIN
  <1>l. ASSUME NEW at \in {"create", "send", "recv", "join"},
               NEW next \in {"send", "recv", "join", "done"}, Loop(at, next)
        PROVE  /\ i' \in Workers
               /\ mpc' \in {"args", "create", "send", "recv", "join", "done", "exit"}
               /\ i \in 1 .. numberOfThreads /\ ArgsOK
    BY <1>l, <1>n, <1>a DEF Loop, TypeOK, Control, Workers
  <1>1. CASE RejectArgs \/ AcceptArgs \/ CreateThreadFails
    BY <1>1 DEF RejectArgs, AcceptArgs, CreateThreadFails, argVars, workVars, TypeOK
  <1>2. CASE CreateThread
    BY <1>2, <1>l DEF CreateThread, argVars, TypeOK
  <1>3. CASE SendRange
    <2>1. maxValue \in Ints /\ numberOfThreads \in Ints
      BY AddemAssumption DEF TypeOK
    <2>2. RangeOf(i) \in Msgs
      BY <1>3, <1>l, <2>1, RangeType DEF SendRange
    <2> QED
      BY <1>3, <1>l, <2>2 DEF SendRange, SendMsg, argVars, workVars, TypeOK
  <1>4. CASE RecvSum
    <2>1. Received(parent_threadID) \in Msgs
      BY <1>4, <1>a DEF RecvSum, RecvMsg, Received, TypeOK
    <2>2. fullSum + Received(parent_threadID).value1 \in Int
      BY <2>1, AddemAssumption DEF TypeOK, Msgs, Ints, INT_MIN
    <2>3. fullSum' \in Ints
      BY <1>4, <2>2, WrapType DEF RecvSum
    <2> QED
      BY <1>4, <1>l, <2>3 DEF RecvSum, RecvMsg, argVars, workVars, TypeOK
  <1>5. CASE JoinThread
    BY <1>5, <1>l DEF JoinThread, argVars, workVars, TypeOK
  <1>6. ASSUME NEW t \in Workers, RecvRange(t) PROVE TypeOK'
    <2>1. Received(t) \in Msgs /\ Received(t).value1 \in Ints
      BY <1>6, <1>a DEF RecvRange, RecvMsg, Received, TypeOK, Msgs
    <2> QED
      BY <1>6, <1>a, <2>1 DEF RecvRange, RecvMsg, Goto, argVars, TypeOK
  <1>7. ASSUME NEW t \in Workers, AddValue(t) PROVE TypeOK'
    <2>1. sum[t] + value[t] \in Int /\ value[t] + 1 \in Int
      BY AddemAssumption DEF TypeOK, Ints, INT_MIN
    <2>2. Wrap(sum[t] + value[t]) \in Ints /\ Wrap(value[t] + 1) \in Ints
      BY <2>1, WrapType
    <2> QED
      BY <1>7, <2>2 DEF AddValue, Goto, argVars, TypeOK
  <1>8. ASSUME NEW t \in Workers, EndLoop(t) PROVE TypeOK'
    <2>1. message[t] \in Msgs
      BY <1>8 DEF EndLoop, Goto, Started, TypeOK
    <2>2. message'[t] \in Msgs /\ message' \in [Workers -> Msgs \cup {NoMsg}]
      BY <1>8, <2>1 DEF EndLoop, Msgs, TypeOK
    <2> QED
      BY <1>8, <2>2 DEF EndLoop, Goto, argVars, TypeOK
  <1>9. ASSUME NEW t \in Workers, Reply(t) PROVE TypeOK'
    BY <1>9, <1>a DEF Reply, SendMsg, Goto, argVars, TypeOK
  <1>11. ASSUME NEW t \in Workers, EndThread(t) PROVE TypeOK'
    BY <1>11 DEF EndThread, Goto, argVars, TypeOK
  <1>10. CASE UNCHANGED vars
    BY <1>10 DEF vars, argVars, workVars, TypeOK
  <1> QED
    BY <1>1, <1>2, <1>3, <1>4, <1>5, <1>6, <1>7, <1>8, <1>9, <1>10, <1>11 DEF Next, Main, Worker

\* A loop of main goes over the workers 1 .. numberOfThreads, and no further.
LEMMA LoopFacts ==
  ASSUME TypeOK, Control, NEW at \in {"create", "send", "recv", "join"}, NEW next, Loop(at, next)
  PROVE  /\ mpc = at /\ ArgsOK /\ numberOfThreads \in Int
         /\ i \in Workers /\ i \in Int /\ 1 <= i /\ i <= numberOfThreads
         /\ numberOfThreads <= MAXTHREAD
         /\ \/ mpc' = at /\ i' = i + 1 /\ i < numberOfThreads
            \/ mpc' = next /\ i' = 1 /\ i = numberOfThreads
  BY AddemAssumption DEF Loop, Control, TypeOK, Workers, ArgsOK, Ints, INT_MIN

\* What main has checked and where its loops are.
LEMMA ControlPreserved == Inv /\ [Next]_vars => Control'
  <1> SUFFICES ASSUME TypeOK, Control, [Next]_vars PROVE Control'
    BY DEF Inv
  <1>a. MAXTHREAD \in Nat /\ numberOfThreads \in Int
    BY AddemAssumption DEF TypeOK, Ints, INT_MIN
  <1>1. CASE RejectArgs \/ AcceptArgs \/ CreateThreadFails
    BY <1>1, <1>a DEF RejectArgs, AcceptArgs, CreateThreadFails, argVars, Control, ArgsOK
  <1>2. CASE CreateThread \/ SendRange \/ RecvSum \/ JoinThread
    BY <1>2, LoopFacts
    DEF CreateThread, SendRange, RecvSum, JoinThread, argVars, Control, ArgsOK
  <1>3. ASSUME NEW t \in Workers, Worker(t) PROVE Control'
    BY <1>3 DEF Worker, RecvRange, AddValue, EndLoop, Reply, EndThread, argVars, Control, ArgsOK
  <1>4. CASE UNCHANGED vars
    BY <1>4 DEF vars, argVars, Control, ArgsOK
  <1> QED
    BY <1>1, <1>2, <1>3, <1>4 DEF Next, Main

\* A range is in the mailbox of a worker exactly from SendRange to RecvRange.
LEMMA StartedPreserved == Inv /\ [Next]_vars => Started'
  <1> SUFFICES ASSUME TypeOK, Control, Started, [Next]_vars, mpc' # "exit" PROVE Started'
    BY DEF Inv, Started
  <1>a. /\ parent_threadID \in 0 .. MAXTHREAD /\ Workers \subseteq 0 .. MAXTHREAD
        /\ \A t \in Workers : t \in Int /\ 1 <= t /\ t <= MAXTHREAD /\ t # parent_threadID
        /\ MAXTHREAD \in Nat /\ numberOfThreads \in Int
    BY AddemAssumption DEF parent_threadID, Workers, TypeOK, Ints, INT_MIN
  <1>e. mpc # "exit"
    BY DEF Next, Main, RejectArgs, AcceptArgs, CreateThreadFails, CreateThread, SendRange, RecvSum,
           JoinThread, Loop, Worker, RecvRange, AddValue, EndLoop, Reply, EndThread, vars
  <1>1. CASE RejectArgs \/ AcceptArgs \/ CreateThreadFails
    BY <1>1, <1>a DEF RejectArgs, AcceptArgs, CreateThreadFails, workVars, argVars, Started,
       Created, RangeSent, Control
  <1>2. CASE CreateThread
    <2>1. /\ mpc = "create" /\ i \in Workers /\ i \in Int /\ 1 <= i /\ i <= numberOfThreads
          /\ \/ mpc' = "create" /\ i' = i + 1 /\ i < numberOfThreads
             \/ mpc' = "send" /\ i' = 1 /\ i = numberOfThreads
      BY <1>2, LoopFacts DEF CreateThread
    <2>2. /\ wpc' = [wpc EXCEPT ![i] = "recv"] /\ message' = message /\ box' = box
          /\ numberOfThreads' = numberOfThreads
      BY <1>2 DEF CreateThread, argVars
    <2>3. \A t \in Workers : Created(t)' <=> Created(t) \/ t = i
      BY <2>1, <2>2, <1>a DEF Created
    <2>4. \A t \in Workers : ~RangeSent(t) /\ ~RangeSent(t)'
      BY <2>1, <1>a DEF RangeSent
    <2> QED
      BY <2>1, <2>2, <2>3, <2>4, <1>e DEF Started, TypeOK
  <1>3. CASE SendRange
    <2>1. /\ mpc = "send" /\ i \in Workers /\ i \in 1 .. numberOfThreads /\ ArgsOK
          /\ \/ mpc' = "send" /\ i' = i + 1 /\ i < numberOfThreads
             \/ mpc' = "recv" /\ i' = 1 /\ i = numberOfThreads
      BY <1>3, LoopFacts DEF SendRange
    <2>2. /\ box' = [box EXCEPT ![i] = RangeOf(i)] /\ wpc' = wpc /\ message' = message
          /\ numberOfThreads' = numberOfThreads
      BY <1>3 DEF SendRange, SendMsg, argVars, workVars
    <2>3. RangeOf(i) # NoMsg
      <3>1. maxValue \in Ints /\ numberOfThreads \in Ints
        BY AddemAssumption DEF TypeOK
      <3> QED
        BY <2>1, <3>1, RangeType, AddemAssumption
    <2>4. \A t \in Workers : /\ Created(t)' <=> Created(t)
                             /\ RangeSent(t)' <=> RangeSent(t) \/ t = i
      BY <2>1, <2>2, <1>a DEF Created, RangeSent
    <2>5. Created(i) /\ ~RangeSent(i)
      BY <2>1, <1>a DEF Created, RangeSent
    <2>6. wpc[i] = "recv"
      BY <2>1, <2>5, <1>e DEF Started
    <2> QED
      BY <2>1, <2>2, <2>3, <2>4, <2>6, <1>e, <1>a DEF Started, TypeOK
  <1>4. CASE RecvSum
    <2>1. /\ mpc = "recv" /\ mpc' \in {"recv", "join"}
      BY <1>4, LoopFacts DEF RecvSum
    <2>2. /\ \A t \in Workers : box'[t] = box[t]
          /\ wpc' = wpc /\ message' = message /\ numberOfThreads' = numberOfThreads
      BY <1>4, <1>a DEF RecvSum, RecvMsg, argVars, workVars, TypeOK
    <2> QED
      BY <2>1, <2>2, <1>e DEF Started, Created, RangeSent
  <1>5. CASE JoinThread
    <2>1. /\ mpc = "join" /\ mpc' \in {"join", "done"}
      BY <1>5, LoopFacts DEF JoinThread
    <2> QED
      BY <1>5, <2>1, <1>e DEF JoinThread, Started, Created, RangeSent, argVars, workVars
  <1>s. ASSUME UNCHANGED <<argVars, mpc, i>>
        PROVE  \A t : (Created(t)' <=> Created(t)) /\ (RangeSent(t)' <=> RangeSent(t))
    BY <1>s DEF Created, RangeSent, argVars
  <1>6. ASSUME NEW t \in Workers, RecvRange(t) PROVE Started'
    BY <1>6, <1>a, <1>e, <1>s DEF RecvRange, RecvMsg, Received, Goto, Started, TypeOK
  <1>7. ASSUME NEW t \in Workers, AddValue(t) PROVE Started'
    BY <1>7, <1>a, <1>e, <1>s DEF AddValue, Goto, Started, TypeOK
  <1>8. ASSUME NEW t \in Workers, EndLoop(t) PROVE Started'
    <2>1. message[t] \in Msgs
      BY <1>8, <1>e DEF EndLoop, Goto, Started, TypeOK
    <2>2. message'[t] \in Msgs /\ \A u \in Workers \ {t} : message'[u] = message[u]
      BY <1>8, <2>1 DEF EndLoop, Msgs, TypeOK
    <2> QED
      BY <1>8, <2>2, <1>e, <1>s, AddemAssumption DEF EndLoop, Goto, Started, TypeOK
  <1>9. ASSUME NEW t \in Workers, Reply(t) PROVE Started'
    <2>1. \A u \in Workers : box'[u] = box[u]
      BY <1>9, <1>a DEF Reply, SendMsg, TypeOK
    <2> QED
      BY <1>9, <2>1, <1>e, <1>s DEF Reply, Goto, Started, TypeOK
  <1>11. ASSUME NEW t \in Workers, EndThread(t) PROVE Started'
    BY <1>11, <1>a, <1>e, <1>s DEF EndThread, Goto, Started, TypeOK
  <1>10. CASE UNCHANGED vars
    BY <1>10, <1>e, <1>s DEF vars, workVars, Started
  <1> QED
    BY <1>1, <1>2, <1>3, <1>4, <1>5, <1>6, <1>7, <1>8, <1>9, <1>10, <1>11 DEF Next, Main, Worker

\* Each reply is counted once: when the worker leaves it in main's mailbox, and
\* from then on as received.
LEMMA CountPreserved == Inv /\ [Next]_vars => RepliesCounted'
  <1> SUFFICES ASSUME Inv, [Next]_vars, mpc' # "exit" PROVE RepliesCounted'
    BY DEF RepliesCounted
  <1> DEFINE Answered == {t \in Workers : Replied(t)}
             Waiting == IF box[parent_threadID] = NoMsg THEN 0 ELSE 1
  <1>t. TypeOK /\ Control /\ Started /\ RepliesCounted
    BY DEF Inv
  <1>a. /\ parent_threadID \in 0 .. MAXTHREAD /\ Workers \subseteq 0 .. MAXTHREAD
        /\ parent_threadID \notin Workers /\ numberOfThreads \in Int
    BY <1>t, AddemAssumption DEF parent_threadID, Workers, TypeOK, Ints, INT_MIN
  <1>f. IsFiniteSet(Answered) /\ Cardinality(Answered) \in Nat
    <2>1. IsFiniteSet(Workers)
      BY FS_Interval, AddemAssumption DEF Workers
    <2>2. IsFiniteSet(Answered)
      BY <2>1, FS_Subset
    <2> QED
      BY <2>2, FS_CardinalityType
  <1>e. mpc # "exit"
    BY DEF Next, Main, RejectArgs, AcceptArgs, CreateThreadFails, CreateThread, SendRange, RecvSum,
           JoinThread, Loop, Worker, RecvRange, AddValue, EndLoop, Reply, EndThread, vars, Goto
  <1>c. Cardinality(Answered) = Collected + Waiting
    BY <1>t, <1>e DEF RepliesCounted
  <1> SUFFICES Cardinality(Answered') = Collected' + Waiting'
    BY DEF RepliesCounted
  <1> HIDE DEF Answered
  <1>u. ASSUME Answered' = Answered, box'[parent_threadID] = box[parent_threadID],
               Collected' = Collected
        PROVE  Cardinality(Answered') = Collected' + Waiting'
    BY <1>c, <1>u DEF parent_threadID
  <1>1. CASE RejectArgs \/ AcceptArgs \/ CreateThreadFails
    BY <1>1, <1>u DEF RejectArgs, AcceptArgs, CreateThreadFails, workVars, argVars, Answered,
       Replied, Collected
  <1>2. CASE CreateThread
    <2>1. /\ mpc = "create" /\ mpc' \in {"create", "send"} /\ i \in Workers /\ ~Created(i)
      BY <1>2, <1>t, LoopFacts DEF CreateThread, Created
    <2>2. Answered' = Answered
      BY <1>2, <2>1, <1>t, <1>e DEF CreateThread, Answered, Replied, Started, TypeOK
    <2> QED
      BY <1>2, <1>u, <2>1, <2>2 DEF CreateThread, Collected
  <1>3. CASE SendRange
    <2>1. /\ mpc = "send" /\ i \in Workers
          /\ \/ mpc' = "send"
             \/ mpc' = "recv" /\ i' = 1
      BY <1>3, <1>t, LoopFacts DEF SendRange
    <2>2. Answered' = Answered /\ box'[parent_threadID] = box[parent_threadID]
      BY <1>3, <2>1, <1>a, <1>t DEF SendRange, SendMsg, workVars, Answered, Replied, TypeOK
    <2>3. Collected = 0 /\ Collected' = 0
      BY <2>1 DEF Collected
    <2> QED
      BY <1>u, <2>2, <2>3
  <1>4. CASE RecvSum
    <2>1. /\ mpc = "recv" /\ i \in Int
          /\ \/ mpc' = "recv" /\ i' = i + 1
             \/ mpc' = "join" /\ i = numberOfThreads
      BY <1>4, <1>t, LoopFacts DEF RecvSum
    <2>2. Answered' = Answered /\ numberOfThreads' = numberOfThreads
      BY <1>4 DEF RecvSum, workVars, argVars, Answered, Replied
    <2>3. Waiting = 1 /\ Waiting' = 0
      BY <1>4, <1>a, <1>t DEF RecvSum, RecvMsg, TypeOK, parent_threadID
    <2>4. Collected' = Collected + 1 /\ Collected \in Int
      BY <2>1, <2>2, <1>a DEF Collected
    <2> QED
      BY <1>c, <2>2, <2>3, <2>4
  <1>5. CASE JoinThread
    <2>1. /\ mpc = "join" /\ mpc' \in {"join", "done"}
      BY <1>5, <1>t, LoopFacts DEF JoinThread
    <2> QED
      BY <1>5, <1>u, <2>1 DEF JoinThread, Collected, argVars, workVars, Answered, Replied
  <1>6. ASSUME NEW t \in Workers, RecvRange(t) \/ AddValue(t) \/ EndLoop(t)
        PROVE  Cardinality(Answered') = Collected' + Waiting'
    <2>1. Answered' = Answered
      BY <1>6, <1>t DEF RecvRange, AddValue, EndLoop, Goto, Answered, Replied, TypeOK
    <2>2. box'[parent_threadID] = box[parent_threadID]
      BY <1>6, <1>a, <1>t DEF RecvRange, AddValue, EndLoop, RecvMsg, TypeOK
    <2> QED
      BY <1>6, <1>u, <2>1, <2>2 DEF RecvRange, AddValue, EndLoop, argVars, Collected
  <1>7. ASSUME NEW t \in Workers, Reply(t)
        PROVE  Cardinality(Answered') = Collected' + Waiting'
    <2>1. t \notin Answered /\ Answered' = Answered \cup {t}
      BY <1>7, <1>t DEF Reply, Goto, Answered, Replied, TypeOK
    <2>2. Cardinality(Answered') = Cardinality(Answered) + 1
      BY <2>1, <1>f, FS_AddElement
    <2>3. message[t] # NoMsg
      BY <1>7, <1>t, <1>e DEF Reply, Goto, Started
    <2>4. Waiting = 0 /\ Waiting' = 1
      BY <1>7, <1>a, <1>t, <2>3 DEF Reply, SendMsg, TypeOK, parent_threadID
    <2>5. Collected' = Collected /\ Collected \in Int
      BY <1>7, <1>t, <1>a DEF Reply, argVars, Collected, TypeOK, Workers
    <2> QED
      BY <1>c, <1>f, <2>2, <2>4, <2>5
  <1>9. ASSUME NEW t \in Workers, EndThread(t)
        PROVE  Cardinality(Answered') = Collected' + Waiting'
    <2>1. Answered' = Answered
      BY <1>9, <1>t DEF EndThread, Goto, Answered, Replied, TypeOK
    <2> QED
      BY <1>9, <1>u, <2>1 DEF EndThread, argVars, Collected
  <1>8. CASE UNCHANGED vars
    BY <1>8, <1>u DEF vars, argVars, workVars, Answered, Replied, Collected
  <1> QED
    BY <1>1, <1>2, <1>3, <1>4, <1>5, <1>6, <1>7, <1>8, <1>9 DEF Next, Main, Worker

\* A range travels unchanged from main to its worker, and the loop up to INT_MAX does
\* not end: its variable is an int too.
LEMMA RangesPreserved == Inv /\ [Next]_vars => RangesKept'
  <1> SUFFICES ASSUME Inv, [Next]_vars PROVE RangesKept'
    OBVIOUS
  <1>t. TypeOK /\ Control /\ RangesKept
    BY DEF Inv
  <1>a. /\ Workers \subseteq 0 .. MAXTHREAD /\ parent_threadID \notin Workers
        /\ (ArgsOK => numberOfThreads \in Workers) /\ INT_MAX \in Int
    BY <1>t, AddemAssumption DEF parent_threadID, Workers, TypeOK, Ints, INT_MIN, ArgsOK
  <1>i. numberOfThreads' = numberOfThreads /\ maxValue' = maxValue
    BY DEF Next, Main, RejectArgs, AcceptArgs, CreateThreadFails, CreateThread, SendRange, RecvSum,
           JoinThread, Worker, RecvRange, AddValue, EndLoop, Reply, EndThread, vars, argVars
  <1>u. (\A t : RangeOf(t)' = RangeOf(t)) /\ (ArgsOK' <=> ArgsOK)
    BY <1>i DEF RangeOf, ArgsOK
  <1>k. ASSUME box' = box \/ \A t \in Workers : box'[t] = box[t], wpc' = wpc, message' = message
        PROVE  RangesKept'
    BY <1>k, <1>t, <1>i, <1>u DEF RangesKept
  <1>1. CASE RejectArgs \/ AcceptArgs \/ CreateThreadFails \/ JoinThread
    BY <1>1, <1>k DEF RejectArgs, AcceptArgs, CreateThreadFails, JoinThread, workVars
  <1>2. CASE CreateThread
    BY <1>2, <1>t, <1>i, <1>u, <1>a DEF CreateThread, RangesKept, TypeOK
  <1>3. CASE SendRange
    <2>1. \A t \in Workers : box'[t] = box[t] \/ box'[t] = RangeOf(t)
      BY <1>3, <1>a, <1>t DEF SendRange, SendMsg, TypeOK
    <2>2. wpc' = wpc /\ message' = message
      BY <1>3 DEF SendRange, workVars
    <2> QED
      BY <2>1, <2>2, <1>t, <1>i, <1>u DEF RangesKept
  <1>4. CASE RecvSum
    <2>1. \A t \in Workers : box'[t] = box[t]
      BY <1>4, <1>a, <1>t DEF RecvSum, RecvMsg, TypeOK
    <2> QED
      BY <1>4, <1>k, <2>1 DEF RecvSum, workVars
  <1>5. ASSUME NEW t \in Workers, RecvRange(t) PROVE RangesKept'
    <2>1. box[t] = RangeOf(t)
      BY <1>5, <1>t DEF RecvRange, RecvMsg, RangesKept
    <2>2. /\ \A w \in Workers : box'[w] # NoMsg => box'[w] = box[w]
          /\ message'[t] = box[t] /\ wpc'[t] = "loop"
          /\ \A w \in Workers \ {t} : message'[w] = message[w] /\ wpc'[w] = wpc[w]
      BY <1>5, <1>a, <1>t DEF RecvRange, RecvMsg, Received, Goto, TypeOK
    <2> QED
      BY <2>1, <2>2, <1>t, <1>i, <1>u, <1>a DEF RangesKept
  <1>6. ASSUME NEW t \in Workers, AddValue(t) PROVE RangesKept'
    BY <1>6, <1>k, <1>t DEF AddValue, Goto, TypeOK
  <1>7. ASSUME NEW t \in Workers, EndLoop(t) PROVE RangesKept'
    <2>1. /\ box' = box /\ wpc[t] = "loop" /\ wpc'[t] = "reply"
          /\ \A w \in Workers \ {t} : message'[w] = message[w] /\ wpc'[w] = wpc[w]
      BY <1>7, <1>t DEF EndLoop, Goto, TypeOK
    <2>2. ASSUME ArgsOK, maxValue = INT_MAX, t = numberOfThreads PROVE FALSE
      <3>1. RangeOf(t).value2 = maxValue
        BY <2>2, <1>t, AddemAssumption DEF RangeOf, Msg, TypeOK, Ints, INT_MIN
      <3>2. value[t] > INT_MAX
        BY <1>7, <1>t, <2>1, <2>2, <3>1 DEF EndLoop, RangesKept
      <3> QED
        BY <3>2, <1>t, AddemAssumption DEF TypeOK, Ints, INT_MIN
    <2> QED
      BY <2>1, <2>2, <1>t, <1>i, <1>u, <1>a DEF RangesKept
  <1>8. ASSUME NEW t \in Workers, Reply(t) PROVE RangesKept'
    <2>1. /\ \A w \in Workers : box'[w] = box[w]
          /\ wpc[t] = "reply" /\ wpc'[t] = "leaving" /\ message' = message
          /\ \A w \in Workers \ {t} : wpc'[w] = wpc[w]
      BY <1>8, <1>a, <1>t DEF Reply, SendMsg, Goto, TypeOK
    <2> QED
      BY <2>1, <1>t, <1>i, <1>u, <1>a DEF RangesKept
  <1>10. ASSUME NEW t \in Workers, EndThread(t) PROVE RangesKept'
    <2>1. /\ box' = box /\ message' = message
          /\ wpc[t] = "leaving" /\ wpc'[t] = "finished"
          /\ \A w \in Workers \ {t} : wpc'[w] = wpc[w]
      BY <1>10, <1>t DEF EndThread, Goto, TypeOK
    <2> QED
      BY <2>1, <1>t, <1>i, <1>u, <1>a DEF RangesKept
  <1>9. CASE UNCHANGED vars
    BY <1>9, <1>k DEF vars, workVars
  <1> QED
    BY <1>1, <1>2, <1>3, <1>4, <1>5, <1>6, <1>7, <1>8, <1>9, <1>10 DEF Next, Main, Worker

\* main passes the join of a thread only when it has ended, and no thread comes back.
LEMMA JoinedPreserved == Inv /\ [Next]_vars => Joined'
  <1> SUFFICES ASSUME TypeOK, Control, Joined, [Next]_vars PROVE Joined'
    BY DEF Inv
  <1>a. numberOfThreads \in Int /\ i \in Int
    BY AddemAssumption DEF TypeOK, Workers, Ints, INT_MIN
  <1>1. CASE RejectArgs \/ AcceptArgs \/ CreateThreadFails
    BY <1>1 DEF RejectArgs, AcceptArgs, CreateThreadFails, Joined
  <1>2. CASE CreateThread \/ SendRange
    BY <1>2 DEF CreateThread, SendRange, Loop, Joined
  <1>3. CASE RecvSum
    <2>1. mpc' = "recv" \/ (mpc' = "join" /\ i' = 1)
      BY <1>3, LoopFacts DEF RecvSum
    <2> QED
      BY <2>1 DEF Joined
  <1>4. CASE JoinThread
    <2>1. /\ mpc = "join" /\ wpc[i] = "finished" /\ wpc' = wpc
          /\ numberOfThreads' = numberOfThreads
          /\ \/ mpc' = "join" /\ i' = i + 1
             \/ mpc' = "done" /\ i = numberOfThreads
      BY <1>4, LoopFacts DEF JoinThread, argVars, workVars
    <2>2. \A t \in 1 .. i : wpc[t] = "finished"
      BY <2>1, <1>a DEF Joined
    <2> QED
      BY <2>1, <2>2, <1>a DEF Joined
  <1>5. ASSUME NEW t \in Workers, Worker(t) PROVE Joined'
    <2>1. /\ mpc' = mpc /\ i' = i /\ numberOfThreads' = numberOfThreads
          /\ wpc[t] # "finished" /\ \A u \in Workers \ {t} : wpc'[u] = wpc[u]
      BY <1>5 DEF Worker, RecvRange, AddValue, EndLoop, Reply, EndThread, Goto, argVars, TypeOK
    <2> QED
      BY <2>1, <1>a, AddemAssumption DEF Joined, Control, ArgsOK, Workers
  <1>6. CASE UNCHANGED vars
    BY <1>6 DEF vars, argVars, workVars, Joined
  <1> QED
    BY <1>1, <1>2, <1>3, <1>4, <1>5, <1>6 DEF Next, Main

\* The inductive invariant holds in every reachable state of addem.
THEOREM Invariance == Spec => []Inv
  <1>1. Inv /\ [Next]_vars => Inv'
    BY TypePreserved, ControlPreserved, StartedPreserved, RangesPreserved,
       CountPreserved, JoinedPreserved DEF Inv
  <1> QED
    BY InitInv, <1>1, PTL DEF Spec

\* The variables keep their types: no sum, loop variable or message value leaves
\* the range of int, and no loop of main leaves the arrays of the workers.
THEOREM TypeCorrect == Spec => []TypeOK
  <1>1. Inv => TypeOK
    BY DEF Inv
  <1> QED
    BY Invariance, <1>1, PTL

\* Once main has left the loop that receives, it has as many replies as there are
\* workers: all of them have been sent, and no reply waits.
LEMMA AllReplied ==
  ASSUME Inv, mpc \in {"join", "done"}
  PROVE  /\ numberOfThreads \in Nat /\ 1 .. numberOfThreads \subseteq Workers
         /\ {t \in Workers : Replied(t)} = 1 .. numberOfThreads
         /\ box[parent_threadID] = NoMsg
  <1> DEFINE Answered == {t \in Workers : Replied(t)}
             n == numberOfThreads
  <1>1. n \in Nat /\ 1 .. n \subseteq Workers
    BY AddemAssumption DEF Inv, Control, ArgsOK, TypeOK, Workers, Ints, INT_MIN
  <1>2. IsFiniteSet(1 .. n) /\ Cardinality(1 .. n) = n
    BY <1>1, FS_Interval
  <1>3. Answered \subseteq 1 .. n
    BY <1>1 DEF Inv, Started, Created, Workers, Replied
  <1>4. /\ IsFiniteSet(Answered) /\ Cardinality(Answered) <= n
        /\ Cardinality(Answered) = n => Answered = 1 .. n
    BY <1>2, <1>3, FS_Subset
  <1>5. Cardinality(Answered) = n + IF box[parent_threadID] = NoMsg THEN 0 ELSE 1
    BY DEF Inv, RepliesCounted, Collected
  <1> HIDE DEF Answered
  <1>6. Answered = 1 .. n /\ box[parent_threadID] = NoMsg
    BY <1>1, <1>4, <1>5
  <1> QED
    BY <1>1, <1>6 DEF Answered

\* main destroys the semaphores when no worker uses them any more, not even in the
\* sem_post of its reply, and all mailboxes are empty: every thread was joined, as many
\* replies as workers were received, and a reply is the last thing a worker sends.
THEOREM EndsClean == Spec => []CleanEnd
  <1>1. Inv => CleanEnd
    <2> SUFFICES ASSUME Inv, mpc = "done"
                 PROVE  /\ \A t \in 1 .. numberOfThreads : wpc[t] = "finished"
                        /\ \A b \in 0 .. MAXTHREAD : box[b] = NoMsg
      BY DEF CleanEnd
    <2>1. /\ \A t \in Workers : t \in 1 .. numberOfThreads <=> Replied(t)
          /\ numberOfThreads \in Nat /\ 1 .. numberOfThreads \subseteq Workers
          /\ box[parent_threadID] = NoMsg
      BY AllReplied
    <2>3. \A t \in 1 .. numberOfThreads : wpc[t] = "finished"
      BY DEF Inv, Joined
    <2>2. \A t \in Workers : box[t] = NoMsg
      <3>1. \A t \in Workers : wpc[t] # "recv"
        BY <2>1 DEF Inv, Started, Created, Workers, Replied
      <3> QED
        BY <3>1 DEF Inv, Started
    <2> QED
      BY <2>1, <2>2, <2>3, AddemAssumption DEF parent_threadID, Workers
  <1> QED
    BY Invariance, <1>1, PTL
-----------------------------------------------------------------------------
(* The sum.  Totals are taken step by step; a statement about all of them   *)
(* holds if there is no least number of terms for which it fails.           *)

\* There is a function that adds up f step by step.
LEMMA SumsExist ==
  ASSUME NEW n \in Nat, NEW f
  PROVE  \E g : g = [k \in 0 .. n |-> IF k = 0 THEN 0 ELSE g[k - 1] + f[k]]
  <1> DEFINE P(m) == \E g : g = [k \in 0 .. m |-> IF k = 0 THEN 0 ELSE g[k - 1] + f[k]]
             Bad == {m \in Nat : ~P(m)}
  <1>1. SUFFICES ASSUME Bad # {} PROVE FALSE
    OBVIOUS
  <1>2. PICK m \in Bad : \A x \in Bad : m <= x
    <2>1. Bad \in SUBSET Nat
      OBVIOUS
    <2> HIDE DEF Bad
    <2> QED
      BY <1>1, <2>1, LeastNat
  <1>3. CASE m = 0
    <2> DEFINE g == [k \in 0 .. 0 |-> 0]
    <2>1. g = [k \in 0 .. 0 |-> IF k = 0 THEN 0 ELSE g[k - 1] + f[k]]
      OBVIOUS
    <2> HIDE DEF g
    <2> QED
      BY <1>3, <2>1
  <1>4. CASE m # 0
    <2>1. m - 1 \in Nat /\ ~(m <= m - 1) /\ m \in Nat
      BY <1>4
    <2>2. P(m - 1)
      BY <1>2, <2>1
    <2>3. PICK g : g = [k \in 0 .. m - 1 |-> IF k = 0 THEN 0 ELSE g[k - 1] + f[k]]
      BY <2>2
    <2> DEFINE h == [k \in 0 .. m |-> IF k = m THEN g[m - 1] + f[m] ELSE g[k]]
    <2>4. ASSUME NEW k \in 0 .. m PROVE h[k] = IF k = 0 THEN 0 ELSE h[k - 1] + f[k]
      <3>1. CASE k = m
        <4>1. m - 1 \in 0 .. m /\ m - 1 # m
          BY <2>1
        <4> QED
          BY <1>4, <3>1, <4>1
      <3>2. CASE k # m /\ k # 0
        <4>1. k \in 0 .. m - 1 /\ k - 1 \in 0 .. m /\ k - 1 # m
          BY <2>1, <3>2
        <4>2. g[k] = g[k - 1] + f[k]
          BY <2>3, <3>2, <4>1
        <4> QED
          BY <3>2, <4>1, <4>2
      <3>3. CASE k # m /\ k = 0
        <4>1. k \in 0 .. m - 1
          BY <2>1, <3>3
        <4> QED
          BY <2>3, <3>3, <4>1
      <3> QED
        BY <3>1, <3>2, <3>3
    <2>5. h = [k \in 0 .. m |-> IF k = 0 THEN 0 ELSE h[k - 1] + f[k]]
      BY <2>4
    <2> HIDE DEF h
    <2>6. P(m)
      BY <2>5
    <2> QED
      BY <2>6
  <1> QED
    BY <1>3, <1>4

\* UpTo is that function.
LEMMA UpToDef ==
  ASSUME NEW n \in Nat, NEW f, NEW k \in 0 .. n
  PROVE  UpTo(f, n)[k] = IF k = 0 THEN 0 ELSE UpTo(f, n)[k - 1] + f[k]
  <1>1. \E g : g = [j \in 0 .. n |-> IF j = 0 THEN 0 ELSE g[j - 1] + f[j]]
    BY SumsExist
  <1>2. UpTo(f, n) = [j \in 0 .. n |-> IF j = 0 THEN 0 ELSE UpTo(f, n)[j - 1] + f[j]]
    BY <1>1 DEF UpTo
  <1> QED
    BY <1>2

\* One term more or less: if two functions differ at t only, so do their totals.
LEMMA TotalChange ==
  ASSUME NEW n \in Nat, NEW t \in 1 .. n, NEW f, NEW g,
         \A k \in 1 .. n : f[k] \in Int /\ g[k] \in Int,
         \A k \in 1 .. n : k # t => g[k] = f[k]
  PROVE  /\ Total(f, n) \in Int /\ Total(g, n) \in Int
         /\ Total(g, n) = Total(f, n) + (g[t] - f[t])
  <1> DEFINE F == UpTo(f, n)
             G == UpTo(g, n)
             d == g[t] - f[t]
             Right(k) == F[k] \in Int /\ G[k] \in Int
                         /\ G[k] = F[k] + (IF k < t THEN 0 ELSE d)
             Bad == {k \in 0 .. n : ~Right(k)}
  <1>d. d \in Int /\ t \in Int
    OBVIOUS
  <1>1. ASSUME Bad # {} PROVE FALSE
    <2>1. Bad \in SUBSET Nat
      OBVIOUS
    <2>2. PICK k \in Bad : \A x \in Bad : k <= x
      <3> HIDE DEF Bad
      <3> QED
        BY <1>1, <2>1, LeastNat
    <2>3. F[k] = (IF k = 0 THEN 0 ELSE F[k - 1] + f[k]) /\ G[k] = IF k = 0 THEN 0 ELSE G[k - 1] + g[k]
      BY UpToDef
    <2>4. k \in 0 .. n /\ k \in Int /\ ~Right(k)
      OBVIOUS
    <2> HIDE DEF F, G, d
    <2>5. CASE k = 0
      BY <1>d, <2>3, <2>4, <2>5
    <2>6. CASE k # 0
      <3>1. k - 1 \in 0 .. n /\ k \in 1 .. n /\ ~(k <= k - 1)
        BY <2>4, <2>6
      <3>2. Right(k - 1)
        <4>1. k - 1 \notin Bad
          BY <2>2, <3>1
        <4> QED
          BY <3>1, <4>1
      <3>3. f[k] \in Int /\ g[k] \in Int /\ (k # t => g[k] = f[k])
        BY <3>1
      <3>4. k = t => g[k] - f[k] = d
        BY DEF d
      <3>5. F[k] = F[k - 1] + f[k] /\ G[k] = G[k - 1] + g[k]
        BY <2>3, <2>6
      <3>6. Right(k)
        BY ONLY <1>d, <2>4, <3>2, <3>3, <3>4, <3>5
      <3> QED
        BY <2>4, <3>6
    <2> QED
      BY <2>5, <2>6
  <1>2. Right(n)
    <2>1. n \in 0 .. n
      OBVIOUS
    <2> QED
      BY <1>1, <2>1
  <1>3. ~(n < t)
    OBVIOUS
  <1> HIDE DEF F, G, d
  <1>4. F[n] \in Int /\ G[n] \in Int /\ G[n] = F[n] + d
    BY ONLY <1>2, <1>3
  <1> QED
    BY <1>4 DEF F, G, d, Total

\* The total of nothing but zeroes.
LEMMA TotalZero ==
  ASSUME NEW n \in Nat, NEW f, \A k \in 1 .. n : f[k] = 0
  PROVE  Total(f, n) = 0
  <1> DEFINE F == UpTo(f, n)
             Bad == {k \in 0 .. n : F[k] # 0}
  <1>1. ASSUME Bad # {} PROVE FALSE
    <2>1. Bad \in SUBSET Nat
      OBVIOUS
    <2>2. PICK k \in Bad : \A x \in Bad : k <= x
      <3> HIDE DEF Bad
      <3> QED
        BY <1>1, <2>1, LeastNat
    <2>3. F[k] = IF k = 0 THEN 0 ELSE F[k - 1] + f[k]
      BY UpToDef
    <2>4. k # 0
      BY <2>3
    <2>5. k - 1 \in 0 .. n /\ k \in 1 .. n /\ ~(k <= k - 1)
      BY <2>4
    <2>6. F[k - 1] = 0 /\ f[k] = 0
      BY <2>2, <2>5
    <2> QED
      BY <2>3, <2>4, <2>6
  <1>2. n \in 0 .. n
    OBVIOUS
  <1> QED
    BY <1>1, <1>2 DEF Total

\* The sum of consecutive numbers, twice.
LEMMA SumFormula ==
  ASSUME NEW a \in Int, NEW b \in Int, a <= b + 1
  PROVE  SumOf(a, b) \in Int /\ 2 * SumOf(a, b) = b * (b + 1) - (a - 1) * a
  <1>1. CASE a = b + 1
    <2>1. SumOf(a, b) = 0
      BY <1>1 DEF SumOf
    <2>2. b * (b + 1) = (a - 1) * a /\ b * (b + 1) \in Int
      BY <1>1
    <2> QED
      BY <2>1, <2>2
  <1>2. CASE a <= b
    <2> DEFINE n == b - a + 1
               f == [k \in 1 .. n |-> a + k - 1]
               F == UpTo(f, n)
               Right(k) == F[k] \in Int /\ 2 * F[k] = (a + k - 1) * (a + k) - (a - 1) * a
               Bad == {k \in 0 .. n : ~Right(k)}
    <2>1. n \in Nat /\ SumOf(a, b) = F[n]
      BY <1>2 DEF SumOf, Total
    <2>2. \A k \in 1 .. n : f[k] = a + k - 1
      OBVIOUS
    <2>3. ASSUME Bad # {} PROVE FALSE
      <3>1. Bad \in SUBSET Nat
        OBVIOUS
      <3>2. PICK k \in Bad : \A x \in Bad : k <= x
        <4> HIDE DEF Bad
        <4> QED
          BY <2>3, <3>1, LeastNat
      <3>3. k \in 0 .. n /\ k \in Int /\ ~Right(k)
        OBVIOUS
      <3>4. F[k] = IF k = 0 THEN 0 ELSE F[k - 1] + f[k]
        <4> HIDE DEF f, n
        <4> QED
          BY <2>1, <3>3, UpToDef
      <3> HIDE DEF F, f
      <3>5. CASE k = 0
        <4>1. (a + k - 1) * (a + k) = (a - 1) * a /\ (a - 1) * a \in Int
          BY <3>5
        <4>2. F[k] = 0
          BY <3>4, <3>5
        <4>3. Right(k)
          BY ONLY <4>1, <4>2
        <4> QED
          BY <3>3, <4>3
      <3>6. CASE k # 0
        <4>1. k - 1 \in 0 .. n /\ k \in 1 .. n /\ ~(k <= k - 1)
          BY <2>1, <3>3, <3>6
        <4>2. Right(k - 1)
          <5>1. k - 1 \notin Bad
            BY <3>2, <4>1
          <5> QED
            BY <4>1, <5>1
        <4>3. F[k] = F[k - 1] + (a + k - 1)
          BY <2>2, <3>4, <3>6, <4>1
        <4> DEFINE x == a + k - 1
        <4>4. x \in Int /\ a + (k - 1) - 1 = x - 1 /\ a + (k - 1) = x /\ a + k = x + 1
          BY <3>3
        <4>5. 2 * F[k - 1] = (x - 1) * x - (a - 1) * a /\ F[k - 1] \in Int
          BY <4>2, <4>4
        <4> HIDE DEF x
        <4>6. x * (x + 1) = (x - 1) * x + 2 * x /\ x * (x + 1) \in Int /\ (x - 1) * x \in Int
              /\ (a - 1) * a \in Int
          BY <4>4
        <4>7. F[k] = F[k - 1] + x
          BY <4>3 DEF x
        <4>8. F[k] \in Int /\ 2 * F[k] = x * (x + 1) - (a - 1) * a
          <5> DEFINE p == x * (x + 1)
                     q == (x - 1) * x
                     r == (a - 1) * a
                     u == F[k - 1]
                     v == F[k]
          <5>1. p = q + 2 * x /\ p \in Int /\ q \in Int /\ r \in Int
            BY <4>6
          <5>2. 2 * u = q - r
            BY <4>5
          <5>3. x \in Int /\ v = u + x
            BY <4>4, <4>7
          <5>4. u \in Int
            BY <4>5
          <5> HIDE DEF p, q, r, u, v, Bad
          <5>5. v \in Int /\ 2 * v = p - r
            BY ONLY <5>1, <5>2, <5>3, <5>4
          <5> QED
            BY ONLY <5>5, Zenon DEF p, r, v
        <4>9. Right(k)
          BY <4>4, <4>8 DEF x
        <4> QED
          BY <3>3, <4>9
      <3> QED
        BY <3>5, <3>6
    <2>4. Right(n)
      <3>1. n \in 0 .. n
        BY <2>1
      <3> QED
        BY <2>3, <3>1
    <2>5. a + n - 1 = b /\ a + n = b + 1
      OBVIOUS
    <2> HIDE DEF F
    <2>6. F[n] \in Int /\ 2 * F[n] = b * (b + 1) - (a - 1) * a
      BY <2>4, <2>5
    <2> QED
      BY <2>1, <2>6
  <1> QED
    BY <1>1, <1>2

\* The sum of consecutive numbers, split after a number.
LEMMA SumSplit ==
  ASSUME NEW a \in Int, NEW b \in Int, NEW c \in Int, a <= c + 1, c <= b
  PROVE  /\ SumOf(a, b) = SumOf(a, c) + SumOf(c + 1, b)
         /\ SumOf(a, b) \in Int /\ SumOf(a, c) \in Int /\ SumOf(c + 1, b) \in Int
  <1> DEFINE x == b * (b + 1)
             y == c * (c + 1)
             z == (a - 1) * a
  <1>1. SumOf(a, b) \in Int /\ 2 * SumOf(a, b) = x - z
    <2>1. a <= b + 1
      OBVIOUS
    <2> QED
      BY <2>1, SumFormula
  <1>2. SumOf(a, c) \in Int /\ 2 * SumOf(a, c) = y - z
    BY SumFormula
  <1>3. SumOf(c + 1, b) \in Int /\ 2 * SumOf(c + 1, b) = x - y
    <2>1. c + 1 \in Int /\ c + 1 <= b + 1
      OBVIOUS
    <2>2. SumOf(c + 1, b) \in Int /\ 2 * SumOf(c + 1, b) = b * (b + 1) - (c + 1 - 1) * (c + 1)
      BY <2>1, SumFormula
    <2>3. c + 1 - 1 = c
      OBVIOUS
    <2> QED
      BY <2>2, <2>3
  <1>4. x \in Int /\ y \in Int /\ z \in Int
    OBVIOUS
  <1> HIDE DEF x, y, z
  <1> QED
    BY ONLY <1>1, <1>2, <1>3, <1>4

\* The first number of a sum, and the sum of none.
LEMMA SumFirst ==
  ASSUME NEW a \in Int, NEW b \in Int
  PROVE  /\ SumOf(a, b) \in Int
         /\ a <= b => SumOf(a, b) = a + SumOf(a + 1, b)
         /\ a > b => SumOf(a, b) = 0
  <1>1. CASE a > b
    BY <1>1 DEF SumOf
  <1>2. CASE a <= b
    <2>1. /\ SumOf(a, b) = SumOf(a, a) + SumOf(a + 1, b)
          /\ SumOf(a, b) \in Int /\ SumOf(a, a) \in Int /\ SumOf(a + 1, b) \in Int
      BY <1>2, SumSplit
    <2>2. 2 * SumOf(a, a) = a * (a + 1) - (a - 1) * a
      BY SumFormula
    <2>3. a * (a + 1) - (a - 1) * a = 2 * a
      OBVIOUS
    <2>4. SumOf(a, a) = a
      BY ONLY <2>1, <2>2, <2>3, a \in Int
    <2> QED
      BY <1>2, <2>1, <2>4
  <1> QED
    BY <1>1, <1>2

\* The number of ints.
Width == INT_MAX - INT_MIN + 1

\* Numbers that differ by a multiple of the number of ints wrap to the same int.
LEMMA WrapSame ==
  ASSUME NEW x \in Int, NEW y \in Int, NEW k \in Int, x = y + k * Width
  PROVE  Wrap(x) = Wrap(y)
  <1> DEFINE X == x - INT_MIN
             Y == y - INT_MIN
             w == Width
  <1>1. w \in Nat \ {0} /\ INT_MIN \in Int
    BY AddemAssumption DEF Width, INT_MIN
  <1>2. Wrap(x) = (X % w) + INT_MIN /\ Wrap(y) = (Y % w) + INT_MIN
    BY DEF Wrap, Width
  <1> HIDE DEF w
  <1>3. X \in Int /\ Y \in Int /\ k * w \in Int
    BY <1>1
  <1>4. X = Y + k * w
    <2>1. x = y + k * w
      BY DEF w
    <2> DEFINE z == k * w
    <2>2. x = y + z /\ z \in Int
      BY <1>3, <2>1
    <2> HIDE DEF z
    <2>3. X = Y + z
      BY <1>1, <2>2
    <2> QED
      BY <2>3 DEF z
  <1> HIDE DEF X, Y
  <1> DEFINE q == X \div w
             r == X % w
             p == Y \div w
             s == Y % w
  <1>5. /\ q \in Int /\ r \in 0 .. w - 1 /\ X = w * q + r
        /\ p \in Int /\ s \in 0 .. w - 1 /\ Y = w * p + s
    BY <1>1, <1>3
  <1> HIDE DEF q, r, p, s
  <1> DEFINE d == k + p - q
  <1>6. d \in Int /\ w * d = w * k + w * p - w * q
    BY <1>1, <1>5
  <1>7. r = s + w * d
    <2>1. w * k = k * w /\ w * k \in Int /\ w * p \in Int /\ w * q \in Int
      BY <1>1, <1>5
    <2> HIDE DEF d
    <2> DEFINE A == w * k
               B == w * p
               C == w * q
               D == w * d
    <2>2. D = A + B - C /\ A \in Int /\ B \in Int /\ C \in Int /\ X = C + r /\ Y = B + s
          /\ X = Y + A
      BY <1>4, <1>5, <1>6, <2>1
    <2>3. r \in Int /\ s \in Int
      BY <1>1, <1>5
    <2> HIDE DEF A, B, C, D
    <2>4. r = s + D
      BY ONLY <2>2, <2>3
    <2> QED
      BY <2>4 DEF D
  <1> HIDE DEF d
  <1>8. d = 0
    <2>1. CASE d >= 1
      <3>1. w * d >= w /\ w * d \in Int
        BY <1>1, <1>6, <2>1
      <3> QED
        BY <1>1, <1>5, <1>7, <3>1
    <2>2. CASE d <= -1
      <3>1. w * d <= -w /\ w * d \in Int
        BY <1>1, <1>6, <2>2
      <3> QED
        BY <1>1, <1>5, <1>7, <3>1
    <2> QED
      BY <1>6, <2>1, <2>2
  <1>9. r = s
    BY <1>1, <1>5, <1>7, <1>8
  <1> QED
    BY <1>2, <1>9 DEF r, s

\* What wrapping adds is a multiple of the number of ints, and nothing to an int.
LEMMA WrapIs ==
  ASSUME NEW x \in Int
  PROVE  /\ Wrap(x) \in Int /\ \E k \in Int : x = Wrap(x) + k * Width
         /\ x \in Ints => Wrap(x) = x
  <1> DEFINE X == x - INT_MIN
             w == Width
             q == X \div w
             r == X % w
  <1>1. w \in Nat \ {0} /\ INT_MIN \in Int
    BY AddemAssumption DEF Width, INT_MIN
  <1>2. Wrap(x) = r + INT_MIN
    BY DEF Wrap, Width
  <1>3. x \in Ints => X \in 0 .. w - 1
    BY AddemAssumption DEF Ints, INT_MIN, Width
  <1> HIDE DEF w
  <1>4. X \in Int /\ x = X + INT_MIN
    BY <1>1
  <1> HIDE DEF X
  <1>5. q \in Int /\ r \in 0 .. w - 1 /\ X = w * q + r
    BY <1>1, <1>4
  <1>6. X \in 0 .. w - 1 => r = X
    BY <1>1, <1>4
  <1> HIDE DEF q, r
  <1>7. w * q = q * w /\ q * w \in Int
    BY <1>1, <1>5
  <1>8. x = Wrap(x) + q * w /\ Wrap(x) \in Int
    <2> DEFINE z == q * w
    <2>1. X = z + r /\ z \in Int /\ r \in Int
      BY <1>1, <1>5, <1>7
    <2> HIDE DEF z
    <2>2. x = Wrap(x) + z /\ Wrap(x) \in Int
      BY <1>1, <1>2, <1>4, <2>1
    <2> QED
      BY <2>2 DEF z
  <1>9. x \in Ints => Wrap(x) = x
    BY <1>2, <1>3, <1>4, <1>6
  <1> QED
    BY <1>5, <1>8, <1>9 DEF w

\* It makes no difference whether a summand is wrapped first.
LEMMA WrapAdd ==
  ASSUME NEW x \in Int, NEW y \in Int
  PROVE  Wrap(Wrap(x) + y) = Wrap(x + y)
  <1>1. Wrap(x) \in Int
    BY WrapIs
  <1>2. PICK k \in Int : x = Wrap(x) + k * Width
    BY WrapIs
  <1>3. Width \in Int
    BY AddemAssumption DEF Width, INT_MIN
  <1> DEFINE z == k * Width
             u == Wrap(x)
  <1>4. z \in Int /\ x = u + z /\ u \in Int
    BY <1>1, <1>2, <1>3
  <1> HIDE DEF z, u
  <1>5. x + y = (u + y) + z /\ u + y \in Int /\ x + y \in Int
    BY ONLY <1>4, x \in Int, y \in Int
  <1>6. x + y = (u + y) + k * Width
    BY <1>5 DEF z
  <1>7. Wrap(x + y) = Wrap(u + y)
    BY <1>5, <1>6, WrapSame
  <1> QED
    BY <1>7 DEF u

\* The numbers of each share, and the last number of worker t.
Share == Quotient(maxValue, numberOfThreads)
EndOf(t) == IF t < numberOfThreads THEN t * Share ELSE maxValue

\* The arguments for which the loops end and main starts the workers.
Finite == /\ maxValue \in Ints /\ maxValue < INT_MAX
          /\ numberOfThreads \in Ints /\ ArgsOK

\* What a range is when no bound of it wraps around: the range of worker t follows
\* the one of worker t - 1, and with a negative maximum all of them are empty.
LEMMA RangeIs ==
  ASSUME Finite, NEW t \in 1 .. numberOfThreads
  PROVE  /\ RangeOf(t).value1 = (t - 1) * Share + 1 /\ RangeOf(t).value2 = EndOf(t)
         /\ (t - 1) * Share \in Int /\ EndOf(t) \in Int /\ EndOf(t) < INT_MAX
         /\ maxValue >= 0 => (t - 1) * Share <= EndOf(t)
         /\ maxValue < 0 => (t - 1) * Share + 1 > EndOf(t)
  <1> DEFINE n == numberOfThreads
             a == (t - 1) * Share
             b == t * Share
  <1>1. /\ n \in Nat \ {0} /\ maxValue \in Int /\ INT_MIN <= maxValue /\ maxValue < INT_MAX
        /\ t \in Nat /\ t \in 0 .. n /\ t - 1 \in 0 .. n /\ t \in Int /\ t <= n
        /\ INT_MIN \in Int /\ INT_MAX \in Nat \ {0} /\ INT_MIN < 0
    BY AddemAssumption DEF ArgsOK, Ints, INT_MIN, Finite
  <1> HIDE DEF n
  <1>2. /\ a \in Int /\ b \in Int /\ INT_MIN <= a /\ a < INT_MAX /\ b < INT_MAX
        /\ (maxValue >= 0 => a <= b /\ a <= maxValue)
        /\ (maxValue < 0 => a >= b /\ a >= maxValue)
    <2>1. CASE maxValue >= 0
      <3>1. maxValue \in Nat /\ Share = maxValue \div n
        BY <1>1, <2>1 DEF Quotient, Share, n
      <3>2. Share \in Nat /\ b \in 0 .. maxValue /\ a \in 0 .. maxValue
        BY <1>1, <3>1, ShareBounded
      <3>3. a <= b
        <4>1. b = a + Share
          BY <1>1, <3>2
        <4> HIDE DEF a, b
        <4> QED
          BY <3>2, <4>1
      <3> HIDE DEF a, b
      <3> QED
        BY <1>1, <2>1, <3>2, <3>3
    <2>2. CASE ~(maxValue >= 0)
      <3> DEFINE q == (-maxValue) \div n
                 c == (t - 1) * q
                 d == t * q
      <3>1. -maxValue \in Nat /\ Share = -q
        BY <1>1, <2>2 DEF Quotient, Share, n
      <3>2. q \in Nat /\ d \in 0 .. -maxValue /\ c \in 0 .. -maxValue
        BY <1>1, <3>1, ShareBounded
      <3> HIDE DEF q
      <3>3. a = -c /\ b = -d /\ d = c + q
        BY <1>1, <3>1, <3>2
      <3> HIDE DEF a, b, c, d
      <3> QED
        BY <1>1, <2>2, <3>2, <3>3
    <2> QED
      BY <2>1, <2>2
  <1>3. RangeOf(t).value1 = Wrap(a + 1) /\ RangeOf(t).value2 = EndOf(t)
    BY DEF RangeOf, Msg, Share, EndOf
  <1>4. EndOf(t) = IF t < n THEN b ELSE maxValue
    BY DEF EndOf, n
  <1> HIDE DEF a, b
  <1>5. Wrap(a + 1) = a + 1
    <2>1. a + 1 \in Ints /\ a + 1 \in Int
      BY <1>1, <1>2 DEF Ints
    <2> QED
      BY <2>1, WrapIs
  <1>6. /\ RangeOf(t).value1 = a + 1 /\ RangeOf(t).value2 = EndOf(t)
        /\ a \in Int /\ EndOf(t) \in Int /\ EndOf(t) < INT_MAX
        /\ (maxValue >= 0 => a <= EndOf(t))
        /\ (maxValue < 0 => a + 1 > EndOf(t))
    <2>1. CASE t < n
      BY <1>1, <1>2, <1>3, <1>4, <1>5, <2>1
    <2>2. CASE ~(t < n)
      BY <1>1, <1>2, <1>3, <1>4, <1>5, <2>2
    <2> QED
      BY <2>1, <2>2
  <1> QED
    BY <1>6 DEF a

\* What worker t has to add.
ShareSum == [t \in 1 .. numberOfThreads |-> SumOf(RangeOf(t).value1, RangeOf(t).value2)]

\* The ranges make up 1 .. maxValue: after k workers the sum is the one up to the
\* end of the k-th range.
LEMMA RangesSum ==
  ASSUME Finite
  PROVE  Total(ShareSum, numberOfThreads) = SumOf(1, maxValue)
  <1> DEFINE n == numberOfThreads
             F == UpTo(ShareSum, n)
  <1>1. n \in Nat \ {0} /\ maxValue \in Int /\ 0 \in 0 .. n /\ n \in 0 .. n
    BY AddemAssumption DEF ArgsOK, Ints, INT_MIN, Finite
  <1>2. CASE maxValue < 0
    <2>1. \A t \in 1 .. n : ShareSum[t] = 0
      <3> SUFFICES ASSUME NEW t \in 1 .. n PROVE ShareSum[t] = 0
        OBVIOUS
      <3> DEFINE a == (t - 1) * Share + 1
                 b == EndOf(t)
      <3>1. ShareSum[t] = SumOf(a, b) /\ a \in Int /\ b \in Int /\ a > b
        BY <1>2, RangeIs DEF ShareSum
      <3> HIDE DEF a, b
      <3> QED
        BY <3>1, SumFirst
    <2>2. Total(ShareSum, n) = 0
      <3> HIDE DEF n
      <3> QED
        BY <1>1, <2>1, TotalZero
    <2>3. SumOf(1, maxValue) = 0
      BY <1>1, <1>2, SumFirst
    <2> QED
      BY <2>2, <2>3
  <1>3. CASE maxValue >= 0
    <2> DEFINE Right(k) == F[k] \in Int /\ 2 * F[k] = EndOf(k) * (EndOf(k) + 1)
               Bad == {k \in 0 .. n : ~Right(k)}
    <2>s. Share \in Int
      <3>1. maxValue \in Nat /\ Share = maxValue \div n
        BY <1>1, <1>3 DEF Quotient, Share
      <3> QED
        BY <1>1, <3>1
    <2>3. ASSUME Bad # {} PROVE FALSE
      <3>1. Bad \in SUBSET Nat
        OBVIOUS
      <3>2. PICK k \in Bad : \A x \in Bad : k <= x
        <4> HIDE DEF Bad
        <4> QED
          BY <2>3, <3>1, LeastNat
      <3>3. k \in 0 .. n /\ k \in Int /\ ~Right(k)
        OBVIOUS
      <3>4. F[k] = IF k = 0 THEN 0 ELSE F[k - 1] + ShareSum[k]
        BY <1>1, <3>3, UpToDef
      <3> HIDE DEF F
      <3>5. CASE k = 0
        <4>1. EndOf(k) = 0
          BY <1>1, <2>s, <3>5 DEF EndOf
        <4>2. F[k] = 0
          BY <3>4, <3>5
        <4>3. Right(k)
          BY ONLY <4>1, <4>2
        <4> QED
          BY <3>3, <4>3
      <3>6. CASE k # 0
        <4>1. k - 1 \in 0 .. n /\ k \in 1 .. n /\ ~(k <= k - 1) /\ k - 1 < n
          BY <1>1, <3>3, <3>6
        <4>2. Right(k - 1)
          <5>1. k - 1 \notin Bad
            BY <3>2, <4>1
          <5> QED
            BY <4>1, <5>1
        <4> DEFINE c == (k - 1) * Share
                   b == EndOf(k)
                   s == ShareSum[k]
        <4>3. s = SumOf(c + 1, b) /\ c \in Int /\ b \in Int /\ c <= b
          BY <1>3, <4>1, RangeIs DEF ShareSum
        <4>4. EndOf(k - 1) = c
          BY <4>1 DEF EndOf
        <4>5. F[k] = F[k - 1] + s
          BY <3>4, <3>6
        <4>6. F[k - 1] \in Int /\ 2 * F[k - 1] = c * (c + 1)
          BY <4>2, <4>4
        <4> HIDE DEF c, b, s
        <4>7. s \in Int /\ 2 * s = b * (b + 1) - c * (c + 1)
          <5>1. c + 1 \in Int /\ c + 1 <= b + 1 /\ c + 1 - 1 = c
            BY <4>3
          <5>2. SumOf(c + 1, b) \in Int /\ 2 * SumOf(c + 1, b) = b * (b + 1) - (c + 1 - 1) * (c + 1)
            BY <4>3, <5>1, SumFormula
          <5> QED
            BY <4>3, <5>1, <5>2
        <4>8. F[k] \in Int /\ 2 * F[k] = b * (b + 1)
          <5> DEFINE x == b * (b + 1)
                     y == c * (c + 1)
                     u == F[k - 1]
                     v == F[k]
          <5>1. x \in Int /\ y \in Int /\ v = u + s /\ u \in Int /\ 2 * u = y
                /\ s \in Int /\ 2 * s = x - y
            BY <4>3, <4>5, <4>6, <4>7
          <5> HIDE DEF x, y, u, v
          <5>2. v \in Int /\ 2 * v = x
            BY ONLY <5>1
          <5> QED
            BY ONLY <5>2, Zenon DEF x, v
        <4>9. Right(k)
          BY <4>8 DEF b
        <4> QED
          BY <3>3, <4>9
      <3> QED
        BY <3>5, <3>6
    <2>4. Right(n)
      BY <1>1, <2>3
    <2>5. EndOf(n) = maxValue
      BY <1>1 DEF EndOf
    <2>6. SumOf(1, maxValue) \in Int
          /\ 2 * SumOf(1, maxValue) = maxValue * (maxValue + 1) - (1 - 1) * 1
      BY <1>1, <1>3, SumFormula
    <2> DEFINE x == maxValue * (maxValue + 1)
               u == F[n]
               v == SumOf(1, maxValue)
    <2>7. x \in Int /\ u \in Int /\ 2 * u = x /\ v \in Int /\ 2 * v = x - (1 - 1) * 1
      BY <1>1, <2>4, <2>5, <2>6
    <2> HIDE DEF x, u, v
    <2>8. u = v
      BY ONLY <2>7
    <2> QED
      BY <2>8 DEF u, v, Total
  <1> QED
    BY <1>1, <1>2, <1>3

\* A worker never owes more than a number.
LEMMA PendingType ==
  ASSUME Inv, Finite, mpc # "exit", NEW t \in 1 .. numberOfThreads
  PROVE  Pending(t) \in Int
  <1>1. t \in Workers /\ TypeOK /\ Started
    BY AddemAssumption DEF Inv, Finite, ArgsOK, Workers, Ints, INT_MIN
  <1>2. \A x \in Ints : x \in Int
    BY AddemAssumption DEF Ints, INT_MIN
  <1>3. wpc[t] \in {"loop", "reply"} => message[t] \in Msgs
    BY <1>1 DEF TypeOK, Started
  <1>4. wpc[t] \in {"loop", "reply"} => message[t].value1 \in Int /\ message[t].value2 \in Int
    BY <1>2, <1>3 DEF Msgs
  <1>5. value[t] \in Int /\ sum[t] \in Int
    BY <1>1, <1>2 DEF TypeOK
  <1>6. wpc[t] = "loop" => SumOf(value[t], message[t].value2) \in Int
    BY <1>4, <1>5, SumFirst
  <1>7. SumOf(RangeOf(t).value1, RangeOf(t).value2) \in Int
    <2>1. RangeOf(t).value1 \in Int /\ RangeOf(t).value2 \in Int
      <3>1. RangeOf(t) \in Msgs
        BY RangeType DEF Finite
      <3> QED
        BY <1>2, <3>1 DEF Msgs
    <2> QED
      BY <2>1, SumFirst
  <1> QED
    BY <1>4, <1>5, <1>6, <1>7 DEF Pending, Replied

\* Numbers in another order.
LEMMA Regroup ==
  ASSUME NEW a \in Int, NEW b \in Int, NEW c \in Int, NEW d \in Int
  PROVE  Wrap(a + (b + (Wrap(c) + d))) = Wrap(a + (b + (c + d)))
  <1>1. Wrap(c) \in Int
    BY WrapIs
  <1> DEFINE w == Wrap(c)
             y == a + (b + d)
  <1>2. Wrap(w + y) = Wrap(c + y)
    BY WrapAdd
  <1>3. w \in Int
    BY <1>1
  <1> HIDE DEF w
  <1>4. a + (b + (w + d)) = w + y /\ a + (b + (c + d)) = c + y
    BY <1>3
  <1> QED
    BY <1>2, <1>4 DEF w

\* No step changes what main has, what waits for it and what is owed, taken together.
LEMMA SumPreserved == Inv /\ SumConserved /\ [Next]_vars => SumConserved'
  <1> SUFFICES ASSUME Inv, SumConserved, [Next]_vars, ArgsOK', maxValue' < INT_MAX'
               PROVE  Wrap(fullSum' + InMailbox' + Owed') = Wrap(SumOf(1, maxValue'))
    BY DEF SumConserved
  <1> DEFINE n == numberOfThreads
  <1>t. TypeOK /\ Control /\ Started /\ RangesKept
    BY DEF Inv
  <1>i. numberOfThreads' = numberOfThreads /\ maxValue' = maxValue
    BY DEF Next, Main, RejectArgs, AcceptArgs, CreateThreadFails, CreateThread, SendRange, RecvSum,
           JoinThread, Worker, RecvRange, AddValue, EndLoop, Reply, EndThread, vars, argVars
  <1>u. (\A t : RangeOf(t)' = RangeOf(t)) /\ ArgsOK
    BY <1>i DEF RangeOf, ArgsOK
  <1>n. Finite
    BY <1>t, <1>i, <1>u, AddemAssumption DEF Finite, TypeOK
  <1>a. /\ n \in Nat \ {0} /\ 1 .. n \subseteq Workers /\ 1 \in 1 .. n
        /\ Workers \subseteq 0 .. MAXTHREAD /\ parent_threadID \in 0 .. MAXTHREAD
        /\ parent_threadID \notin Workers
        /\ \A x \in Ints : x \in Int
    BY <1>t, <1>u, AddemAssumption
    DEF TypeOK, ArgsOK, Workers, Ints, INT_MIN, parent_threadID
  <1>h. Wrap(fullSum + InMailbox + Owed) = Wrap(SumOf(1, maxValue))
    BY <1>n, <1>u DEF SumConserved, Finite
  <1>s. ASSUME Wrap(fullSum' + InMailbox' + Owed') = Wrap(fullSum + InMailbox + Owed)
        PROVE  Wrap(fullSum' + InMailbox' + Owed') = Wrap(SumOf(1, maxValue'))
    BY <1>h, <1>i, <1>s
  <1>o. ASSUME \A t \in 1 .. n : Pending(t)' = Pending(t)
        PROVE  Owed' = Owed
    BY <1>o, <1>i DEF Owed
  <1>k. ASSUME wpc' = wpc, value' = value, sum' = sum, message' = message
        PROVE  Owed' = Owed
    <2>1. \A t : Pending(t)' = Pending(t)
      BY <1>k, <1>u DEF Pending, Replied
    <2> QED
      BY <1>o, <2>1
  <1>b. box'[parent_threadID] = box[parent_threadID] => InMailbox' = InMailbox
    BY DEF InMailbox, parent_threadID
  <1>c. ASSUME mpc # "exit", NEW t \in 1 .. n, Pending(t)' \in Int,
               \A k \in 1 .. n : k # t => Pending(k)' = Pending(k)
        PROVE  Owed \in Int /\ Owed' \in Int /\ Owed' = Owed + (Pending(t)' - Pending(t))
    <2> DEFINE f == [k \in 1 .. n |-> Pending(k)]
               g == [k \in 1 .. n |-> Pending(k)']
    <2>1. Owed = Total(f, n) /\ Owed' = Total(g, n)
      BY <1>i DEF Owed
    <2>2. \A k \in 1 .. n : f[k] \in Int /\ g[k] \in Int
      BY <1>c, <1>n, PendingType
    <2>3. \A k \in 1 .. n : k # t => g[k] = f[k]
      BY <1>c
    <2>4. f[t] = Pending(t) /\ g[t] = Pending(t)'
      BY <1>c
    <2> HIDE DEF f, g, n
    <2> QED
      BY <1>a, <1>c, <2>1, <2>2, <2>3, <2>4, TotalChange
  <1>f. fullSum \in Int /\ (mpc # "exit" => InMailbox \in Int /\ Owed \in Int)
    <2>1. InMailbox \in Int
      <3>1. box[parent_threadID] # NoMsg => box[parent_threadID] \in Msgs
        BY <1>a, <1>t DEF TypeOK
      <3> QED
        BY <3>1, <1>a DEF InMailbox, Msgs
    <2>2. mpc # "exit" => Owed \in Int
      <3> SUFFICES ASSUME mpc # "exit" PROVE Owed \in Int
        OBVIOUS
      <3> DEFINE f == [k \in 1 .. n |-> Pending(k)]
      <3>1. Owed = Total(f, n)
        BY DEF Owed
      <3>2. \A k \in 1 .. n : f[k] \in Int
        BY <1>n, PendingType
      <3> HIDE DEF f, n
      <3> QED
        BY <1>a, <3>1, <3>2, TotalChange
    <2> QED
      BY <2>1, <2>2, <1>a, <1>t DEF TypeOK
  <1>w. ASSUME NEW t \in Workers, Worker(t)
        PROVE  mpc # "exit" /\ t \in 1 .. n
    <2>1. mpc # "exit" /\ wpc[t] # "none"
      BY <1>w DEF Worker, RecvRange, AddValue, EndLoop, Reply, EndThread, Goto
    <2>2. Created(t)
      BY <1>t, <1>w, <2>1 DEF Started
    <2> QED
      BY <1>t, <1>w, <1>a, <2>1, <2>2 DEF Created, Control, Workers, TypeOK
  <1>1. CASE RejectArgs \/ AcceptArgs \/ CreateThreadFails \/ JoinThread
    BY <1>1, <1>s, <1>k, <1>b
    DEF RejectArgs, AcceptArgs, CreateThreadFails, JoinThread, workVars
  <1>2. CASE CreateThread
    <2>1. mpc = "create" /\ i \in Workers /\ ~Created(i)
      BY <1>2, <1>t, LoopFacts DEF CreateThread, Created
    <2>2. wpc[i] = "none" /\ wpc' = [wpc EXCEPT ![i] = "recv"]
          /\ value' = value /\ sum' = sum /\ message' = message
          /\ fullSum' = fullSum /\ box' = box
      BY <1>2, <1>t, <2>1 DEF CreateThread, Started
    <2>3. \A t \in 1 .. n : Pending(t)' = Pending(t)
      BY <2>2, <1>u, <1>a, <1>t DEF Pending, Replied, TypeOK
    <2> QED
      BY <2>2, <2>3, <1>o, <1>b, <1>s
  <1>3. CASE SendRange
    <2>1. i \in Workers
      BY <1>3, <1>t, LoopFacts DEF SendRange
    <2>2. box'[parent_threadID] = box[parent_threadID]
      BY <1>3, <1>a, <1>t, <2>1 DEF SendRange, SendMsg, TypeOK
    <2> QED
      BY <1>3, <2>2, <1>s, <1>k, <1>b DEF SendRange, workVars
  <1>4. CASE RecvSum
    <2>1. mpc # "exit"
      BY <1>4, <1>t, LoopFacts DEF RecvSum
    <2>2. Owed' = Owed
      BY <1>4, <1>k DEF RecvSum, workVars
    <2>3. /\ fullSum' = Wrap(fullSum + InMailbox) /\ InMailbox' = 0
      BY <1>4, <1>a, <1>t DEF RecvSum, RecvMsg, Received, InMailbox, TypeOK, parent_threadID
    <2> DEFINE x == fullSum + InMailbox
    <2>4. x \in Int /\ Owed \in Int
      BY <1>f, <2>1
    <2>5. Wrap(x) \in Int /\ Wrap(Wrap(x) + Owed) = Wrap(x + Owed)
      <3> HIDE DEF x
      <3> QED
        BY <2>4, WrapIs, WrapAdd
    <2>6. Wrap(x) + 0 = Wrap(x)
      <3> HIDE DEF x
      <3> QED
        BY <2>5
    <2>7. Wrap(fullSum' + InMailbox' + Owed') = Wrap(fullSum + InMailbox + Owed)
      BY <2>2, <2>3, <2>5, <2>6
    <2> QED
      BY <1>s, <2>7
  <1>5. ASSUME NEW t \in Workers, RecvRange(t)
        PROVE  Wrap(fullSum' + InMailbox' + Owed') = Wrap(SumOf(1, maxValue'))
    <2>1. mpc # "exit" /\ t \in 1 .. n
      BY <1>5, <1>w DEF Worker
    <2>2. box[t] = RangeOf(t)
      BY <1>5, <1>t DEF RecvRange, RecvMsg, RangesKept
    <2>3. /\ wpc[t] = "recv" /\ wpc'[t] = "loop" /\ message'[t] = box[t]
          /\ value'[t] = box[t].value1 /\ sum'[t] = 0
          /\ \A k \in Workers \ {t} : /\ wpc'[k] = wpc[k] /\ message'[k] = message[k]
                                      /\ value'[k] = value[k] /\ sum'[k] = sum[k]
          /\ fullSum' = fullSum /\ box'[parent_threadID] = box[parent_threadID]
      BY <1>5, <1>a, <1>t DEF RecvRange, RecvMsg, Received, Goto, TypeOK
    <2>4. Pending(t) = SumOf(RangeOf(t).value1, RangeOf(t).value2)
      BY <2>3 DEF Pending, Replied
    <2>5. Pending(t)' = 0 + SumOf(RangeOf(t).value1, RangeOf(t).value2)
      BY <2>2, <2>3 DEF Pending, Replied
    <2>6. Pending(t) \in Int
      BY <1>n, <2>1, PendingType
    <2>7. Pending(t)' = Pending(t)
      BY <2>4, <2>5, <2>6
    <2>8. \A k \in 1 .. n : Pending(k)' = Pending(k)
      BY <2>3, <2>7, <1>u, <1>a DEF Pending, Replied
    <2> QED
      BY <2>3, <2>8, <1>o, <1>b, <1>s
  <1>6. ASSUME NEW t \in Workers, AddValue(t)
        PROVE  Wrap(fullSum' + InMailbox' + Owed') = Wrap(SumOf(1, maxValue'))
    <2> DEFINE v == value[t]
               e == message[t].value2
               c == sum[t] + v
               S == SumOf(v + 1, e)
    <2>1. mpc # "exit" /\ t \in 1 .. n
      BY <1>6, <1>w DEF Worker
    <2>2. /\ wpc[t] = "loop" /\ wpc'[t] = "loop" /\ v <= e /\ message' = message
          /\ value'[t] = Wrap(v + 1) /\ sum'[t] = Wrap(c)
          /\ \A k \in Workers \ {t} : /\ wpc'[k] = wpc[k]
                                      /\ value'[k] = value[k] /\ sum'[k] = sum[k]
          /\ fullSum' = fullSum /\ box' = box
      BY <1>6, <1>t DEF AddValue, Goto, TypeOK
    <2>3. e \in Int /\ e < INT_MAX
      <3>1. e = EndOf(t)
        BY <1>t, <1>n, <2>1, <2>2, RangeIs DEF RangesKept
      <3> HIDE DEF e
      <3> QED
        BY <1>n, <2>1, <3>1, RangeIs
    <2>4. v \in Int /\ INT_MIN <= v /\ sum[t] \in Int /\ INT_MIN \in Int /\ INT_MAX \in Int
      BY <1>t, AddemAssumption DEF TypeOK, Ints, INT_MIN
    <2>v. v <= e
      BY <2>2
    <2> HIDE DEF v, e
    <2>5. Wrap(v + 1) = v + 1
      <3>1. v + 1 \in Ints /\ v + 1 \in Int
        BY <2>v, <2>3, <2>4 DEF Ints
      <3> QED
        BY <3>1, WrapIs
    <2>6. SumOf(v, e) = v + S /\ S \in Int
      <3>1. v + 1 \in Int
        BY <2>4
      <3> QED
        BY <2>v, <2>3, <2>4, <3>1, SumFirst
    <2>7. Pending(t) = sum[t] + SumOf(v, e)
      BY <2>2 DEF Pending, Replied, v, e
    <2>8. Pending(t)' = Wrap(c) + S
      BY <2>2, <2>5 DEF Pending, Replied, v, e
    <2>9. c \in Int /\ Wrap(c) \in Int
      <3>1. c \in Int
        BY <2>4
      <3> QED
        BY <3>1, WrapIs
    <2>10. Pending(t) = c + S
      BY <2>4, <2>6, <2>7
    <2> HIDE DEF S, c
    <2>11. \A k \in 1 .. n : k # t => Pending(k)' = Pending(k)
      BY <2>2, <1>u, <1>a DEF Pending, Replied
    <2>12. Pending(t)' \in Int
      BY <2>6, <2>8, <2>9
    <2>13. Owed \in Int /\ Owed' \in Int /\ Owed' = Owed + (Pending(t)' - Pending(t))
      BY <1>c, <2>1, <2>11, <2>12
    <2> DEFINE b == fullSum + InMailbox
               A == Owed - (c + S)
    <2>14. b \in Int /\ A \in Int
      BY <1>f, <2>1, <2>6, <2>9, <2>13
    <2>15. fullSum' + InMailbox' = b
      BY <2>2, <1>b
    <2>16. Owed' = A + (Wrap(c) + S) /\ Owed = A + (c + S)
      BY <2>6, <2>8, <2>9, <2>10, <2>13
    <2> HIDE DEF b, A
    <2>17. Wrap(b + (A + (Wrap(c) + S))) = Wrap(b + (A + (c + S)))
      BY <2>6, <2>9, <2>14, Regroup
    <2>18. Wrap(fullSum' + InMailbox' + Owed') = Wrap(fullSum + InMailbox + Owed)
      BY <2>15, <2>16, <2>17 DEF b
    <2> QED
      BY <1>s, <2>18
  <1>7. ASSUME NEW t \in Workers, EndLoop(t)
        PROVE  Wrap(fullSum' + InMailbox' + Owed') = Wrap(SumOf(1, maxValue'))
    <2>1. mpc # "exit" /\ t \in 1 .. n
      BY <1>7, <1>w DEF Worker
    <2>2. /\ wpc[t] = "loop" /\ wpc'[t] = "reply" /\ value[t] > message[t].value2
          /\ \A k \in Workers \ {t} : wpc'[k] = wpc[k] /\ message'[k] = message[k]
          /\ value' = value /\ sum' = sum /\ fullSum' = fullSum /\ box' = box
      BY <1>7, <1>t DEF EndLoop, Goto, TypeOK
    <2>3. message[t] \in Msgs
      BY <2>1, <2>2, <1>t DEF Started, TypeOK
    <2>4. message'[t].value1 = sum[t]
      BY <1>7, <1>t, <2>3 DEF EndLoop, TypeOK, Msgs
    <2>5. sum[t] \in Int /\ value[t] \in Int /\ message[t].value2 \in Int
      BY <1>t, <1>a, <2>3 DEF TypeOK, Msgs
    <2>6. SumOf(value[t], message[t].value2) = 0
      BY <2>2, <2>5, SumFirst
    <2>7. Pending(t) = sum[t] + 0 /\ Pending(t)' = sum[t]
      BY <2>2, <2>4, <2>6 DEF Pending, Replied
    <2>8. \A k \in 1 .. n : Pending(k)' = Pending(k)
      BY <2>2, <2>5, <2>7, <1>u, <1>a DEF Pending, Replied
    <2> QED
      BY <2>2, <2>8, <1>o, <1>b, <1>s
  <1>8. ASSUME NEW t \in Workers, Reply(t)
        PROVE  Wrap(fullSum' + InMailbox' + Owed') = Wrap(SumOf(1, maxValue'))
    <2>1. mpc # "exit" /\ t \in 1 .. n
      BY <1>8, <1>w DEF Worker
    <2>2. /\ wpc[t] = "reply" /\ wpc'[t] = "leaving" /\ message' = message
          /\ \A k \in Workers \ {t} : wpc'[k] = wpc[k]
          /\ value' = value /\ sum' = sum /\ fullSum' = fullSum
          /\ box[parent_threadID] = NoMsg /\ box'[parent_threadID] = message[t]
      BY <1>8, <1>a, <1>t DEF Reply, SendMsg, Goto, TypeOK
    <2>3. message[t] # NoMsg
      BY <2>1, <2>2, <1>t DEF Started
    <2>4. InMailbox = 0 /\ InMailbox' = message[t].value1
      BY <2>2, <2>3 DEF InMailbox, parent_threadID
    <2>5. Pending(t) = message[t].value1 /\ Pending(t)' = 0
      BY <2>2 DEF Pending, Replied
    <2>6. \A k \in 1 .. n : k # t => Pending(k)' = Pending(k)
      BY <2>2, <1>u, <1>a DEF Pending, Replied
    <2>7. Owed \in Int /\ Owed' \in Int /\ Owed' = Owed + (Pending(t)' - Pending(t))
      BY <1>c, <2>1, <2>5, <2>6
    <2>8. Pending(t) \in Int
      BY <1>n, <2>1, PendingType
    <2> DEFINE p == Pending(t)
    <2>9. fullSum' = fullSum /\ InMailbox' = p /\ InMailbox = 0 /\ Owed' = Owed + (0 - p)
          /\ p \in Int
      BY <2>2, <2>4, <2>5, <2>7, <2>8
    <2> HIDE DEF p
    <2>10. fullSum' + InMailbox' + Owed' = fullSum + InMailbox + Owed
      BY <1>f, <2>1, <2>7, <2>9
    <2> QED
      BY <1>s, <2>10
  <1>10. ASSUME NEW t \in Workers, EndThread(t)
         PROVE  Wrap(fullSum' + InMailbox' + Owed') = Wrap(SumOf(1, maxValue'))
    <2>1. /\ Replied(t) /\ Replied(t)' /\ message' = message
          /\ \A k \in Workers \ {t} : wpc'[k] = wpc[k]
          /\ value' = value /\ sum' = sum /\ fullSum' = fullSum /\ box' = box
      BY <1>10, <1>t DEF EndThread, Goto, Replied, TypeOK
    <2>2. \A k \in 1 .. n : Pending(k)' = Pending(k)
      BY <2>1, <1>u, <1>a DEF Pending, Replied
    <2> QED
      BY <2>1, <2>2, <1>o, <1>b, <1>s
  <1>9. CASE UNCHANGED vars
    BY <1>9, <1>s, <1>k, <1>b DEF vars, workVars
  <1> QED
    BY <1>1, <1>2, <1>3, <1>4, <1>5, <1>6, <1>7, <1>8, <1>9, <1>10 DEF Next, Main, Worker

\* At every moment of addem the parts of the sum make up the sum of 1 .. maxValue.
THEOREM SumIsConserved == Spec => []SumConserved
  <1>1. Init => SumConserved
    <2> SUFFICES ASSUME Init, ArgsOK, maxValue < INT_MAX
                 PROVE  Wrap(fullSum + InMailbox + Owed) = Wrap(SumOf(1, maxValue))
      BY DEF SumConserved
    <2>1. Finite
      BY AddemAssumption DEF Init, Finite
    <2>2. fullSum = 0 /\ InMailbox = 0
      BY AddemAssumption DEF Init, InMailbox, parent_threadID
    <2>3. \A t \in 1 .. numberOfThreads :
             Pending(t) = SumOf(RangeOf(t).value1, RangeOf(t).value2)
      <3>1. 1 .. numberOfThreads \subseteq Workers
        BY <2>1, AddemAssumption DEF Finite, ArgsOK, Workers, Ints, INT_MIN
      <3> QED
        BY <3>1 DEF Init, Pending, Replied
    <2>4. Owed = Total(ShareSum, numberOfThreads)
      <3>1. [t \in 1 .. numberOfThreads |-> Pending(t)] = ShareSum
        BY <2>3 DEF ShareSum
      <3> QED
        BY <3>1 DEF Owed
    <2>5. Owed = SumOf(1, maxValue)
      BY <2>1, <2>4, RangesSum
    <2>6. SumOf(1, maxValue) \in Int
      <3>1. maxValue \in Int
        BY <2>1, AddemAssumption DEF Finite, Ints, INT_MIN
      <3> QED
        BY <3>1, SumFirst
    <2>7. fullSum + InMailbox + Owed = SumOf(1, maxValue)
      BY <2>2, <2>5, <2>6
    <2> QED
      BY <2>7
  <1> QED
    BY <1>1, SumPreserved, Invariance, PTL DEF Spec

\* main prints the sum of 1 .. maxValue, up to the overflow of int: when it has all
\* replies nothing is owed or waiting any more.
THEOREM TotalRight == Spec => []TotalModuloInt
  <1>1. Inv /\ SumConserved => TotalModuloInt
    <2> SUFFICES ASSUME Inv, SumConserved, mpc \in {"join", "done"}
                 PROVE  fullSum = Wrap(SumOf(1, maxValue))
      BY DEF TotalModuloInt
    <2> DEFINE n == numberOfThreads
    <2>1. /\ n \in Nat /\ box[parent_threadID] = NoMsg
          /\ \A t \in 1 .. n : Replied(t)
      BY AllReplied
    <2>2. ArgsOK /\ n \in 1 .. n /\ INT_MAX \in Int /\ fullSum \in Ints /\ fullSum \in Int
          /\ maxValue \in Int /\ maxValue <= INT_MAX
      BY <2>1, AddemAssumption DEF Inv, Control, TypeOK, ArgsOK, Ints, INT_MIN
    <2>3. maxValue < INT_MAX
      BY <2>1, <2>2 DEF Inv, RangesKept, Replied
    <2>4. Owed = 0
      <3> DEFINE f == [t \in 1 .. n |-> Pending(t)]
      <3>1. \A t \in 1 .. n : f[t] = 0
        BY <2>1 DEF Pending, Replied
      <3>2. Owed = Total(f, n)
        BY DEF Owed
      <3> HIDE DEF f, n
      <3> QED
        BY <2>1, <3>1, <3>2, TotalZero
    <2>5. InMailbox = 0
      BY <2>1 DEF InMailbox
    <2>6. fullSum + InMailbox + Owed = fullSum
      BY <2>2, <2>4, <2>5
    <2>7. Wrap(fullSum) = fullSum
      BY <2>2, WrapIs
    <2> QED
      BY <2>2, <2>3, <2>6, <2>7 DEF SumConserved
  <1> QED
    BY <1>1, SumIsConserved, Invariance, PTL

\* With the maximum INT_MAX, whatever the number of threads, main never gets past the
\* loop that collects the replies: the total is not printed.
THEOREM LargestNeverPrinted == Spec => [](Endless => mpc \notin {"join", "done"})
  <1>1. Inv => (Endless => mpc \notin {"join", "done"})
    <2> SUFFICES ASSUME Inv, Endless, mpc \in {"join", "done"} PROVE FALSE
      OBVIOUS
    <2>1. Replied(numberOfThreads)
      BY AllReplied DEF Endless, ArgsOK
    <2> QED
      BY <2>1 DEF Inv, RangesKept, Endless, Replied
  <1> QED
    BY Invariance, <1>1, PTL
=============================================================================

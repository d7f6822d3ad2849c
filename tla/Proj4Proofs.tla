---------------------------- MODULE Proj4Proofs ----------------------------
(***************************************************************************)
(* Proofs about proj4, for any file, buffer size and number of threads.    *)
(***************************************************************************)
EXTENDS Proj4, FiniteSetTheorems, WellOrder

\* The loop over the characters is well defined: str_length after a character is
\* one more than before it, or zero.
LEMMA StrLengthDef ==
  ASSUME NEW len \in Nat, NEW from \in Int, NEW to \in Int, NEW chars
  PROVE  StrLength(len, from, to, chars) = [k \in from - 1 .. to |->
            IF k < from THEN len
            ELSE IF chars[k] THEN StrLength(len, from, to, chars)[k - 1] + 1 ELSE 0]
  <1> DEFINE Breaks(k) == {j \in from .. k : ~chars[j]}
             w == [k \in from - 1 .. to |->
                     IF Breaks(k) = {} THEN len + (k - from + 1) ELSE k - Max(Breaks(k))]
  <1>1. ASSUME NEW k \in from - 1 .. to
        PROVE  w[k] = IF k < from THEN len ELSE IF chars[k] THEN w[k - 1] + 1 ELSE 0
    <2>1. k \in Int /\ w[k] = IF Breaks(k) = {} THEN len + (k - from + 1) ELSE k - Max(Breaks(k))
      OBVIOUS
    <2>2. CASE k < from
      <3>1. Breaks(k) = {} /\ k = from - 1
        BY <2>2
      <3> QED
        BY <2>1, <2>2, <3>1
    <2>3. CASE k >= from /\ chars[k]
      <3>1. k - 1 \in from - 1 .. to
        BY <2>3
      <3>2. Breaks(k - 1) = Breaks(k)
        BY <2>3
      <3>3. CASE Breaks(k) = {}
        BY <2>1, <2>3, <3>1, <3>2, <3>3
      <3>4. CASE Breaks(k) # {}
        <4>0. Breaks(k) \in SUBSET Int /\ \A j \in Breaks(k) : j <= k
          BY <2>1
        <4> HIDE DEF Breaks
        <4>1. Max(Breaks(k)) \in Breaks(k)
          BY <2>1, <3>4, <4>0, MaxInt
        <4>2. Max(Breaks(k)) \in Int
          BY <4>0, <4>1
        <4>3. w[k] = k - Max(Breaks(k)) /\ w[k - 1] = (k - 1) - Max(Breaks(k))
          BY <2>1, <3>1, <3>2, <3>4
        <4> QED
          BY <2>1, <2>3, <4>2, <4>3
      <3> QED
        BY <3>3, <3>4
    <2>4. CASE k >= from /\ ~chars[k]
      <3>1. k \in Breaks(k) /\ \A j \in Breaks(k) : j <= k
        BY <2>4
      <3>2. Max(Breaks(k)) \in Breaks(k) /\ Max(Breaks(k)) >= k
        BY <3>1, MaxInt
      <3>3. Max(Breaks(k)) = k
        BY <3>1, <3>2
      <3> QED
        BY <2>1, <2>4, <3>1, <3>3
    <2> QED
      BY <2>1, <2>2, <2>3, <2>4
  <1>2. w = [k \in from - 1 .. to |->
               IF k < from THEN len ELSE IF chars[k] THEN w[k - 1] + 1 ELSE 0]
    BY <1>1
  <1> HIDE DEF w
  <1>3. \E s : s = [k \in from - 1 .. to |->
                     IF k < from THEN len ELSE IF chars[k] THEN s[k - 1] + 1 ELSE 0]
    BY <1>2
  <1> QED
    BY <1>3 DEF StrLength

\* It never exceeds the number of characters seen.
LEMMA StrLengthType ==
  ASSUME NEW len \in Nat, NEW from \in Int, NEW to \in Int, NEW chars,
         NEW k \in from - 1 .. to
  PROVE  /\ StrLength(len, from, to, chars)[k] \in Nat
         /\ StrLength(len, from, to, chars)[k] <= len + (k - from + 1)
  <1> DEFINE s == StrLength(len, from, to, chars)
             Good(j) == s[j] \in Nat /\ s[j] <= len + (j - from + 1)
             Bad == {j \in from - 1 .. to : ~Good(j)}
  <1>1. \A j \in from - 1 .. to :
           s[j] = IF j < from THEN len ELSE IF chars[j] THEN s[j - 1] + 1 ELSE 0
    BY StrLengthDef
  <1> HIDE DEF s
  <1>2. ASSUME Bad # {} PROVE FALSE
    <2>1. Bad \in SUBSET Int /\ \A j \in Bad : from - 1 <= j
      OBVIOUS
    <2>2. PICK j \in Bad : \A l \in Bad : j <= l
      <3>1. from - 1 \in Int
        OBVIOUS
      <3> HIDE DEF Bad
      <3> QED
        BY <1>2, <2>1, <3>1, LeastInt
    <2>3. j \in from - 1 .. to /\ ~Good(j)
      BY <2>2
    <2>4. CASE j < from
      BY <1>1, <2>3, <2>4
    <2>5. CASE j >= from
      <3>1. j - 1 \in from - 1 .. to /\ ~(j <= j - 1)
        BY <2>3, <2>5
      <3>2. Good(j - 1)
        BY <2>2, <3>1
      <3> QED
        BY <1>1, <2>3, <2>5, <3>2
    <2> QED
      BY <2>3, <2>4, <2>5
  <1>3. Good(k)
    BY <1>2
  <1> QED
    BY <1>3 DEF s

\* What a loop over characters computes are natural numbers, and max_length does
\* not shrink.
LEMMA ScanType ==
  ASSUME NEW len \in Nat, NEW num \in Int, NEW max \in Nat \cup {-1},
         NEW from \in Int, NEW to \in Int, from - 1 <= to, NEW chars,
         NEW s, s = Scan(len, num, max, from, to, chars)
  PROVE  /\ s.len \in Nat /\ s.num \in Int /\ s.num >= num
         /\ s.max \in Nat \cup {-1} /\ s.max >= max /\ s.charsAtBegin \in Nat
  <1> DEFINE str == StrLength(len, from, to, chars)
             lengths == {str[k] : k \in {j \in from .. to : chars[j]}}
             b == len + max + (to - from + 1) + 1
  <1>1. \A k \in from - 1 .. to : str[k] \in Nat /\ str[k] <= len + (k - from + 1)
    BY StrLengthType
  <1> HIDE DEF str
  <1>2. s.len = str[to] /\ s.num = num + Cardinality({k \in from .. to : str[k] = 4})
        /\ s.max = Max({max} \cup lengths)
        /\ s.charsAtBegin = Cardinality({k \in from .. to : \A j \in from .. k : chars[j]})
    BY DEF Scan, str
  <1>3. s.len \in Nat
    BY <1>1, <1>2
  <1>4. ASSUME NEW S \in SUBSET (from .. to) PROVE Cardinality(S) \in Nat
    BY FS_Interval, FS_Subset, FS_CardinalityType
  <1>5. s.num \in Int /\ s.num >= num /\ s.charsAtBegin \in Nat
    <2>1. Cardinality({k \in from .. to : str[k] = 4}) \in Nat
      BY <1>4
    <2>2. Cardinality({k \in from .. to : \A j \in from .. k : chars[j]}) \in Nat
      BY <1>4
    <2> QED
      BY <1>2, <2>1, <2>2
  <1>6. s.max \in Nat \cup {-1} /\ s.max >= max
    <2>1. \A l \in lengths : l \in Nat /\ l <= b
      BY <1>1
    <2>2. max <= b /\ b \in Int
      OBVIOUS
    <2> DEFINE T == {max} \cup lengths
    <2>3. T \in SUBSET (Nat \cup {-1}) /\ T \in SUBSET Int /\ max \in T /\ \A l \in T : l <= b
      BY <2>1, <2>2
    <2>4. s.max = Max(T)
      BY <1>2
    <2> HIDE DEF T, b
    <2>5. Max(T) \in T /\ \A y \in T : Max(T) >= y
      BY <2>2, <2>3, MaxInt
    <2> QED
      BY <2>3, <2>4, <2>5
  <1> QED
    BY <1>3, <1>5, <1>6

\* The arguments that main accepts, the file, and what it allocates for them.
LEMMA ArgsFacts ==
  ASSUME TypeOK
  PROVE  /\ MAXTHREAD \in Nat \ {0} /\ MAXBUF \in Nat \ {0}
         /\ numberOfThreads \in Int /\ BUFSIZE \in Int
         /\ \A t \in Workers : t \in Int /\ 1 <= t /\ t <= MAXTHREAD
         /\ Workers \subseteq 0 .. MAXTHREAD
         /\ ArgsOK => numberOfThreads \in Workers /\ BUFSIZE \in 1 .. MAXBUF
         /\ file_size \in Nat /\ file \in [0 .. file_size - 1 -> BOOLEAN]
  <1>1. PICK in \in Inputs : file = in.file
    BY DEF TypeOK, Files
  <1>2. file_size \in Nat /\ file \in [0 .. file_size - 1 -> BOOLEAN]
    BY <1>1, Proj4Assumption, FS_CardinalityType DEF file_size
  <1> QED
    BY <1>2, Proj4Assumption DEF TypeOK, numberOfThreads, BUFSIZE, Workers, ArgsOK

\* The share of each worker is inside of the file.
LEMMA RangeType ==
  ASSUME file_size \in Nat, numberOfThreads \in Nat \ {0}, NEW t \in 1 .. numberOfThreads
  PROVE  /\ RangeOf(t) \in Ranges
         /\ RangeOf(t).value1 - 1 <= RangeOf(t).value2
         /\ RangeOf(t).value2 <= file_size - 1
  <1> DEFINE n == numberOfThreads
             r == file_size \div n
             last == IF t < n THEN t * r - 1 ELSE file_size - 1
  <1>1. r \in Nat /\ n * r <= file_size
    OBVIOUS
  <1>2. RangeOf(t) = [type |-> "RANGE", value1 |-> (t - 1) * r, value2 |-> last]
    BY DEF RangeOf
  <1> HIDE DEF r
  <1>3. t \in Nat \ {0} /\ t <= n /\ t * r \in Nat /\ (t - 1) * r \in Nat
    BY <1>1
  <1>4. t * r <= n * r /\ (t - 1) * r = t * r - r /\ n * r \in Nat
    BY <1>1, <1>3
  <1>5. last \in Nat \cup {-1} /\ (t - 1) * r - 1 <= last /\ last <= file_size - 1
    <2>1. CASE t < n
      BY <1>1, <1>3, <1>4, <2>1
    <2>2. CASE t = n
      BY <1>1, <1>3, <1>4, <2>2
    <2> QED
      BY <1>3, <2>1, <2>2
  <1> HIDE DEF last
  <1> QED
    BY <1>2, <1>3, <1>5 DEF Ranges

\* The reply of a worker has natural numbers in it.
LEMMA SummaryType ==
  ASSUME NEW m \in Ranges, m.value1 - 1 <= m.value2
  PROVE  Summary(m) \in Replies
  <1> DEFINE s == Scan(0, 0, 0, m.value1, m.value2, file)
  <1>1. m.value1 \in Int /\ m.value2 \in Int
    BY DEF Ranges
  <1>2. s = Scan(0, 0, 0, m.value1, m.value2, file) /\ 0 \in Nat /\ 0 \in Int
    OBVIOUS
  <1> HIDE DEF s
  <1>3. /\ s.len \in Nat /\ s.num \in Int /\ s.num >= 0
        /\ s.max \in Nat \cup {-1} /\ s.max >= 0 /\ s.charsAtBegin \in Nat
    BY <1>1, <1>2, ScanType
  <1>4. s.num \in Nat /\ s.max \in Nat
    BY <1>3
  <1> QED
    BY <1>3, <1>4 DEF Summary, Replies, s

\* What is exchanged with worker t: messages, never the empty slot.
LEMMA ExchangeType ==
  ASSUME TypeOK, ArgsOK, NEW t \in 1 .. numberOfThreads
  PROVE  /\ RangeOf(t) \in Ranges /\ RangeOf(t) \in Messages /\ RangeOf(t) # NoMsg
         /\ RangeOf(t).type = "RANGE"
         /\ Summary(RangeOf(t)) \in Replies /\ Summary(RangeOf(t)) \in Messages
         /\ Summary(RangeOf(t)) # NoMsg /\ Summary(RangeOf(t)).type = "ALLDONE"
  <1>1. file_size \in Nat /\ numberOfThreads \in Nat \ {0}
    BY ArgsFacts
  <1>2. RangeOf(t) \in Ranges /\ RangeOf(t).value1 - 1 <= RangeOf(t).value2
    BY <1>1, RangeType
  <1>3. Summary(RangeOf(t)) \in Replies
    BY <1>2, SummaryType
  <1>4. RangeOf(t).type = "RANGE" /\ Summary(RangeOf(t)).type = "ALLDONE"
    BY <1>2, <1>3 DEF Ranges, Replies
  <1> QED
    BY <1>2, <1>3, <1>4, Proj4Assumption DEF Messages

\* main has not started anything at first.
LEMMA InitInv == Init => Inv
  <1> SUFFICES ASSUME Init PROVE Inv
    OBVIOUS
  <1>1. PICK in \in Inputs : /\ argc = in.argc /\ option = in.option
                             /\ number = in.number /\ file = in.file
    BY DEF Init
  <1>2. IsFiniteSet(DOMAIN file) /\ file_size \in Nat
    BY <1>1, Proj4Assumption, FS_CardinalityType DEF file_size
  <1>b. cutShort \in BOOLEAN
    BY Zenon DEF Init
  <1>3. TypeOK
    BY <1>1, <1>2, <1>b, Proj4Assumption DEF Init, TypeOK, Workers, Files
  <1>4. Control
    BY DEF Init, Control
  <1>5. Exchange
    BY DEF Init, Exchange, WorkerState, Created, RangeSent, Joined, Merged, Past, Workers
  <1> QED
    BY <1>3, <1>4, <1>5 DEF Inv

\* A loop of main goes over the workers 1 .. numberOfThreads, and no further.
LEMMA LoopFacts ==
  ASSUME TypeOK, Control, NEW at \in {"create", "send", "join", "merge"}, NEW next, Loop(at, next)
  PROVE  /\ mpc = at /\ ArgsOK /\ way = "threads" /\ file_size > 0
         /\ i \in Workers /\ i \in Int /\ 1 <= i /\ i <= numberOfThreads
         /\ \/ mpc' = at /\ i' = i + 1 /\ i < numberOfThreads
            \/ mpc' = next /\ i' = 1 /\ i = numberOfThreads
  BY ArgsFacts DEF Loop, Control, TypeOK

\* Nothing but the loops of main moves the index, and no step changes the input.
LEMMA InputUnchanged ==
  ASSUME UNCHANGED inputVars
  PROVE  /\ file_size' = file_size /\ way' = way /\ numberOfThreads' = numberOfThreads
         /\ BUFSIZE' = BUFSIZE /\ (ArgsOK' <=> ArgsOK)
         /\ \A t : RangeOf(t)' = RangeOf(t) /\ Summary(RangeOf(t))' = Summary(RangeOf(t))
  BY DEF inputVars, file_size, way, numberOfThreads, BUFSIZE, ArgsOK, RangeOf, Summary

\* Every step keeps the types of the variables.
LEMMA TypePreserved == Inv /\ [Next]_vars => TypeOK'
  <1> SUFFICES ASSUME Inv, [Next]_vars PROVE TypeOK'
    OBVIOUS
  <1>t. TypeOK /\ Control /\ Exchange
    BY DEF Inv
  <1>a. /\ numberOfThreads \in Int /\ Workers \subseteq 0 .. MAXTHREAD
        /\ file_size \in Nat /\ BUFSIZE \in Int
        /\ ArgsOK => numberOfThreads \in Workers /\ BUFSIZE \in 1 .. MAXBUF
        /\ \A t \in Workers : t \in Int /\ 1 <= t /\ t <= MAXTHREAD
    BY <1>t, ArgsFacts
  <1>l. ASSUME NEW at \in {"create", "send", "join", "merge"},
               NEW next \in {"send", "join", "merge", "done"}, Loop(at, next)
        PROVE  /\ i' \in Workers /\ i \in Workers /\ i \in 1 .. numberOfThreads /\ ArgsOK
               /\ mpc' \in {"args", "read", "scan", "create", "send", "join", "merge", "done",
                            "exit"}
    <2>1. /\ ArgsOK /\ i \in Workers /\ i \in Int /\ 1 <= i /\ i <= numberOfThreads
          /\ \/ mpc' = at /\ i' = i + 1 /\ i < numberOfThreads
             \/ mpc' = next /\ i' = 1 /\ i = numberOfThreads
      BY <1>l, <1>t, LoopFacts
    <2>2. i' \in Workers
      BY <2>1, <1>a, Proj4Assumption DEF Workers
    <2>3. mpc' \in {"args", "read", "scan", "create", "send", "join", "merge", "done", "exit"}
      BY <2>1
    <2> QED
      BY <2>1, <2>2, <2>3, <1>a
  <1>p. ASSUME UNCHANGED inputVars, pos' = pos PROVE pos' \in 0 .. file_size'
    BY <1>p, <1>t, InputUnchanged DEF TypeOK
  <1>q. ASSUME UNCHANGED readVars PROVE pos' = pos /\ cutShort' = cutShort
    BY <1>q DEF readVars
  <1>s. ASSUME NEW from \in Int, NEW to \in Int, from - 1 <= to, NEW chars,
               ScanOn(from, to, chars)
        PROVE  str_length' \in Nat /\ num_strings' \in Int /\ max_length' \in Nat \cup {-1}
    <2> DEFINE s == Scan(str_length, num_strings, max_length, from, to, chars)
    <2>1. str_length' = s.len /\ num_strings' = s.num /\ max_length' = s.max
      BY <1>s DEF ScanOn
    <2>2. str_length \in Nat /\ num_strings \in Int /\ max_length \in Nat \cup {-1}
      BY <1>t DEF TypeOK
    <2>3. s = Scan(str_length, num_strings, max_length, from, to, chars)
      OBVIOUS
    <2> HIDE DEF s
    <2> QED
      BY <1>s, <2>1, <2>2, <2>3, ScanType
  <1>1. CASE RejectArgs \/ Open \/ OpenFails \/ CreateThreadFails
    <2>1. mpc' \in {"args", "read", "scan", "create", "send", "join", "merge", "done", "exit"}
      BY <1>1 DEF RejectArgs, Open, OpenFails, CreateThreadFails
    <2> QED
      BY <1>1, <1>t, <1>p, <1>q, <2>1 DEF RejectArgs, Open, OpenFails, CreateThreadFails, inputVars,
         countVars, mergeVars, workVars, TypeOK
  <1>2. CASE regular_read
    <2>1. /\ mpc = "read" /\ cutShort' \in BOOLEAN
          /\ UNCHANGED <<inputVars, i, mergeVars, workVars, box>>
      BY <1>2, <1>t DEF regular_read, TypeOK
    <2>2. PICK cnt \in 0 .. BUFSIZE :
            LET buf == [k \in 0 .. BUFSIZE - 1 |-> k < cnt /\ file[pos + k]]
            IN  /\ pos + cnt <= file_size
                /\ IF cnt > 0 THEN ScanOn(0, BUFSIZE - 1, buf) /\ mpc' = mpc
                              ELSE mpc' = "done" /\ UNCHANGED countVars
                /\ pos' = pos + cnt
      BY <1>2 DEF regular_read
    <2>3. BUFSIZE \in 1 .. MAXBUF /\ pos \in 0 .. file_size
      BY <2>1, <1>t, <1>a DEF Control, TypeOK
    <2>4. pos' \in 0 .. file_size'
      BY <2>1, <2>2, <2>3, <1>a, InputUnchanged
    <2>5. str_length' \in Nat /\ num_strings' \in Int /\ max_length' \in Nat \cup {-1}
      <3>1. CASE cnt > 0
        <4>1. 0 \in Int /\ BUFSIZE - 1 \in Int /\ 0 - 1 <= BUFSIZE - 1
          BY <2>3
        <4> QED
          BY <2>2, <3>1, <4>1, <1>s
      <3>2. CASE ~(cnt > 0)
        BY <2>2, <3>2, <1>t DEF countVars, TypeOK
      <3> QED
        BY <3>1, <3>2
    <2>6. mpc' \in {"read", "done"}
      BY <2>1, <2>2
    <2> QED
      BY <2>1, <2>4, <2>5, <2>6, <1>t DEF inputVars, mergeVars, workVars, TypeOK
  <1>r. CASE read_fails
    BY <1>r, <1>p, <1>t DEF read_fails, inputVars, countVars, mergeVars, workVars, TypeOK
  <1>3. CASE mmap_regular_read
    <2>1. 0 \in Int /\ file_size - 1 \in Int /\ 0 - 1 <= file_size - 1
      BY <1>a
    <2>2. str_length' \in Nat /\ num_strings' \in Int /\ max_length' \in Nat \cup {-1}
      BY <1>3, <2>1, <1>s DEF mmap_regular_read
    <2> QED
      BY <1>3, <2>2, <1>p, <1>q, <1>t DEF mmap_regular_read, inputVars, mergeVars, workVars, TypeOK
  <1>4. CASE CreateThread
    BY <1>4, <1>l, <1>p, <1>q, <1>t DEF CreateThread, inputVars, countVars, mergeVars, TypeOK
  <1>5. CASE SendRange
    <2>1. RangeOf(i) \in Messages
      BY <1>5, <1>l, <1>t, ExchangeType DEF SendRange
    <2> QED
      BY <1>5, <2>1, <1>l, <1>p, <1>q, <1>t
      DEF SendRange, SendMsg, inputVars, countVars, mergeVars, workVars, TypeOK
  <1>6. CASE JoinThread
    BY <1>6, <1>l, <1>p, <1>q, <1>t DEF JoinThread, inputVars, countVars, mergeVars, workVars, TypeOK
  <1>7. CASE Merge
    <2>1. i \in 0 .. MAXTHREAD /\ i \in Workers /\ ArgsOK
      BY <1>7, <1>l, <1>a DEF Merge
    <2>2. box' \in [0 .. MAXTHREAD -> Messages \cup {NoMsg}]
      BY <1>7, <2>1, <1>t DEF Merge, RecvMsg, TypeOK
    <2>3. Received(i) \in Messages
      BY <1>7, <2>1, <1>t DEF Merge, RecvMsg, Received, TypeOK
    <2> DEFINE m == Received(i)
    <2>4. /\ previous_end' \in Nat /\ maxLengthEnd' \in Nat
          /\ num_strings' \in Int /\ max_length' \in Nat \cup {-1}
      <3>0. /\ previous_end \in Nat /\ maxLengthEnd \in Nat
            /\ num_strings \in Int /\ max_length \in Nat \cup {-1}
        BY <1>t DEF TypeOK
      <3>1. CASE m.type = "ALLDONE"
        <4>1. m \in Replies
          BY <2>3, <3>1 DEF Messages, Ranges
        <4>2. /\ m.value1 \in Nat /\ m.value2 \in Nat /\ m.value3 \in Nat
              /\ m.value4 \in Nat
          BY <4>1 DEF Replies
        <4>3. MergePart(m)
          BY <1>7, <3>1 DEF Merge
        <4> HIDE DEF m
        <4>4. CountJoined(m.value2) \in Int
          BY DEF CountJoined
        <4>5. num_strings' \in Int
          BY <3>0, <4>2, <4>3, <4>4 DEF MergePart
        <4>6. max_length' \in Nat \cup {-1}
          BY <3>0, <4>2, <4>3 DEF MergePart, Longest
        <4>7. previous_end' \in Nat /\ maxLengthEnd' \in Nat
          BY <3>0, <4>2, <4>3 DEF MergePart
        <4> QED
          BY <4>5, <4>6, <4>7
      <3>2. CASE m.type # "ALLDONE"
        BY <1>7, <3>0, <3>2 DEF Merge
      <3> QED
        BY <3>1, <3>2
    <2> QED
      BY <1>7, <1>l, <2>2, <2>4, <1>p, <1>q, <1>t DEF Merge, inputVars, workVars, TypeOK
  <1>8. ASSUME NEW t \in Workers, RecvRange(t) PROVE TypeOK'
    <2>1. Received(t) \in Messages /\ t \in 0 .. MAXTHREAD
      BY <1>8, <1>a, <1>t DEF RecvRange, RecvMsg, Received, TypeOK
    <2>2. mpc' \in {"args", "read", "scan", "create", "send", "join", "merge", "done", "exit"}
      BY <1>8, <1>t DEF RecvRange, TypeOK
    <2> QED
      BY <1>8, <2>1, <2>2, <1>p, <1>q, <1>t
      DEF RecvRange, RecvMsg, Goto, inputVars, countVars, mergeVars, TypeOK
  <1>9. ASSUME NEW t \in Workers, ScanPart(t) PROVE TypeOK'
    <2>1. mpc # "exit" /\ wpc[t] = "scan"
      BY <1>9 DEF ScanPart, Goto
    <2>2. message[t] = RangeOf(t) /\ RangeSent(t)
      BY <2>1, <1>t DEF Exchange, WorkerState
    <2>3. ArgsOK /\ t \in 1 .. numberOfThreads
      BY <2>2, <1>t, <1>a DEF RangeSent, Past, Control, TypeOK
    <2>4. Summary(message[t]) \in Messages
      BY <2>2, <2>3, <1>t, ExchangeType
    <2> QED
      BY <1>9, <2>4, <1>p, <1>q, <1>t DEF ScanPart, Goto, inputVars, countVars, mergeVars, TypeOK
  <1>10. ASSUME NEW t \in Workers, Reply(t) PROVE TypeOK'
    BY <1>10, <1>p, <1>q, <1>t, <1>a
    DEF Reply, SendMsg, Goto, inputVars, countVars, mergeVars, TypeOK
  <1>11. CASE UNCHANGED vars
    BY <1>11, <1>p, <1>q, <1>t DEF vars, inputVars, countVars, mergeVars, workVars, TypeOK
  <1> QED
    BY <1>1, <1>2, <1>r, <1>3, <1>4, <1>5, <1>6, <1>7, <1>8, <1>9, <1>10, <1>11 DEF Next, Main, Worker

\* Every step keeps main where its arguments send it.
LEMMA ControlPreserved == Inv /\ [Next]_vars => Control'
  <1> SUFFICES ASSUME Inv, [Next]_vars PROVE Control'
    OBVIOUS
  <1>t. TypeOK /\ Control
    BY DEF Inv
  <1>a. ArgsOK => numberOfThreads \in Int /\ 1 <= numberOfThreads
    BY <1>t, ArgsFacts
  <1>u. UNCHANGED inputVars
    BY DEF Next, Main, Worker, RejectArgs, Open, OpenFails, CreateThreadFails, regular_read,
       read_fails, mmap_regular_read, CreateThread, SendRange, JoinThread, Merge, RecvRange, ScanPart,
       Reply, vars
  <1>i. /\ file_size' = file_size /\ way' = way /\ numberOfThreads' = numberOfThreads
        /\ (ArgsOK' <=> ArgsOK)
    BY <1>u, InputUnchanged
  <1>1. CASE RejectArgs \/ Open \/ OpenFails \/ CreateThreadFails
    <2>1. CASE Open
      <3>1. file_size \in Nat /\ ArgsOK /\ i' = i /\ i = 1
        BY <2>1, <1>t, ArgsFacts DEF Open, Control
      <3>2. way \in {"buffer", "mmap", "threads"}
        BY DEF way
      <3> QED
        BY <2>1, <1>i, <1>a, <3>1, <3>2 DEF Open, Control
    <2> QED
      BY <1>1, <2>1, <1>i DEF RejectArgs, OpenFails, CreateThreadFails, Control
  <1>2. CASE regular_read \/ read_fails \/ mmap_regular_read
    BY <1>2, <1>i, <1>t DEF regular_read, read_fails, mmap_regular_read, Control
  <1>3. ASSUME NEW at \in {"create", "send", "join", "merge"},
               NEW next \in {"send", "join", "merge", "done"}, Loop(at, next)
        PROVE  Control'
    <2>1. /\ mpc = at /\ ArgsOK /\ way = "threads" /\ file_size > 0
          /\ i \in Int /\ 1 <= i /\ i <= numberOfThreads
          /\ \/ mpc' = at /\ i' = i + 1 /\ i < numberOfThreads
             \/ mpc' = next /\ i' = 1 /\ i = numberOfThreads
      BY <1>3, <1>t, LoopFacts
    <2> QED
      BY <2>1, <1>i, <1>a, <1>t DEF Control
  <1>4. CASE CreateThread \/ SendRange \/ JoinThread \/ Merge
    BY <1>4, <1>3 DEF CreateThread, SendRange, JoinThread, Merge
  <1>5. ASSUME NEW t \in Workers, Worker(t) PROVE Control'
    BY <1>5, <1>i, <1>t DEF Worker, RecvRange, ScanPart, Reply, Control
  <1>6. CASE UNCHANGED vars
    BY <1>6, <1>i, <1>t DEF vars, Control
  <1> QED
    BY <1>1, <1>2, <1>4, <1>5, <1>6 DEF Next, Main

\* A worker that was sent a range has an index that main uses.
LEMMA SentFacts ==
  ASSUME TypeOK, Control, NEW t \in Workers, RangeSent(t)
  PROVE  ArgsOK /\ t \in 1 .. numberOfThreads
  <1>1. /\ numberOfThreads \in Int /\ t \in Int /\ 1 <= t /\ i \in Int
        /\ ArgsOK => numberOfThreads \in Workers
    BY ArgsFacts DEF TypeOK
  <1> QED
    BY <1>1 DEF RangeSent, Past, Control

\* The state of a worker depends on where main and that worker are, and on what the
\* two exchange, only.
LEMMA SameWorkerState ==
  ASSUME NEW t \in Workers, WorkerState(t), UNCHANGED inputVars,
         wpc'[t] = wpc[t], message'[t] = message[t], box'[t] = box[t],
         Created(t)' <=> Created(t), RangeSent(t)' <=> RangeSent(t),
         Joined(t)' <=> Joined(t), Merged(t)' <=> Merged(t)
  PROVE  WorkerState(t)'
  <1>1. RangeOf(t)' = RangeOf(t) /\ Summary(RangeOf(t))' = Summary(RangeOf(t))
    BY InputUnchanged
  <1> QED
    BY <1>1 DEF WorkerState

\* Every step keeps the one message of each worker where it should be.
LEMMA ExchangePreserved == Inv /\ [Next]_vars => Exchange'
  <1> SUFFICES ASSUME Inv, [Next]_vars, mpc' # "exit", NEW w \in Workers
               PROVE  WorkerState(w)'
    BY DEF Exchange, Workers
  <1>t. TypeOK /\ Control /\ (mpc # "exit" => WorkerState(w))
    BY DEF Inv, Exchange
  <1>a. /\ numberOfThreads \in Int /\ Workers \subseteq 0 .. MAXTHREAD
        /\ w \in Int /\ 1 <= w /\ i \in Int /\ i \in Workers
    BY <1>t, ArgsFacts DEF TypeOK
  <1>d. /\ DOMAIN wpc = Workers /\ DOMAIN message = Workers /\ DOMAIN box = 0 .. MAXTHREAD
        /\ w \in DOMAIN box
    BY <1>t, <1>a DEF TypeOK
  <1>u. UNCHANGED inputVars
    BY DEF Next, Main, Worker, RejectArgs, Open, OpenFails, CreateThreadFails, regular_read,
       read_fails, mmap_regular_read, CreateThread, SendRange, JoinThread, Merge, RecvRange, ScanPart,
       Reply, vars
  <1>i. /\ way' = way /\ numberOfThreads' = numberOfThreads
        /\ RangeOf(w)' = RangeOf(w) /\ Summary(RangeOf(w))' = Summary(RangeOf(w))
    BY <1>u, InputUnchanged
  <1>1. CASE RejectArgs \/ Open \/ OpenFails \/ CreateThreadFails
    <2>1. Open /\ mpc = "args" /\ i = 1 /\ i' = 1
      BY <1>1, <1>t DEF RejectArgs, Open, OpenFails, CreateThreadFails, Control
    <2>2. mpc' \in {"read", "scan", "create"}
      BY <2>1 DEF Open
    <2>3. /\ (Created(w)' <=> Created(w)) /\ (RangeSent(w)' <=> RangeSent(w))
          /\ (Joined(w)' <=> Joined(w)) /\ (Merged(w)' <=> Merged(w))
      BY <2>1, <2>2, <1>a DEF Created, RangeSent, Joined, Merged, Past
    <2> QED
      BY <2>1, <2>3, <1>t, <1>u, SameWorkerState DEF Open, workVars
  <1>2. CASE regular_read \/ read_fails \/ mmap_regular_read
    <2>1. mpc \in {"read", "scan"} /\ mpc' \in {"read", "scan", "done"} /\ way # "threads"
      BY <1>2, <1>t DEF regular_read, read_fails, mmap_regular_read, Control
    <2>2. /\ (Created(w)' <=> Created(w)) /\ (RangeSent(w)' <=> RangeSent(w))
          /\ (Joined(w)' <=> Joined(w)) /\ (Merged(w)' <=> Merged(w))
      BY <2>1, <1>i DEF Created, RangeSent, Joined, Merged, Past
    <2> QED
      BY <1>2, <2>1, <2>2, <1>t, <1>u, SameWorkerState
      DEF regular_read, read_fails, mmap_regular_read, workVars
  <1>3. CASE CreateThread
    <2>1. /\ mpc = "create" /\ way = "threads" /\ i <= numberOfThreads
          /\ \/ mpc' = "create" /\ i' = i + 1 /\ i < numberOfThreads
             \/ mpc' = "send" /\ i' = 1 /\ i = numberOfThreads
      BY <1>3, <1>t, LoopFacts DEF CreateThread
    <2>2. /\ (Created(w)' <=> Created(w) \/ w = i)
          /\ ~RangeSent(w)' /\ ~Joined(w)' /\ ~Merged(w)'
          /\ ~RangeSent(w) /\ ~Joined(w) /\ ~Merged(w)
      BY <2>1, <1>a, <1>i DEF Created, RangeSent, Joined, Merged, Past
    <2>3. CASE w = i
      <3>1. ~Created(w)
        BY <2>1, <2>3, <1>a DEF Created, Past
      <3>2. wpc[w] = "none" /\ box[w] = NoMsg
        BY <2>1, <2>2, <3>1, <1>t DEF WorkerState
      <3> QED
        BY <1>3, <2>2, <2>3, <3>2, <1>d DEF CreateThread, WorkerState
    <2>4. CASE w # i
      BY <1>3, <2>1, <2>2, <2>4, <1>t, <1>u, <1>d, SameWorkerState DEF CreateThread
    <2> QED
      BY <2>3, <2>4
  <1>4. CASE SendRange
    <2>1. /\ mpc = "send" /\ way = "threads" /\ i <= numberOfThreads
          /\ \/ mpc' = "send" /\ i' = i + 1 /\ i < numberOfThreads
             \/ mpc' = "join" /\ i' = 1 /\ i = numberOfThreads
      BY <1>4, <1>t, LoopFacts DEF SendRange
    <2>2. /\ (Created(w)' <=> Created(w))
          /\ (RangeSent(w)' <=> RangeSent(w) \/ w = i)
          /\ ~Joined(w)' /\ ~Merged(w)' /\ ~Joined(w) /\ ~Merged(w)
      BY <2>1, <1>a, <1>i DEF Created, RangeSent, Joined, Merged, Past
    <2>3. CASE w = i
      <3>1. ~RangeSent(w) /\ Created(w)
        BY <2>1, <2>3, <1>a DEF Created, RangeSent, Past
      <3>2. wpc[w] = "recv" /\ wpc' = wpc
        BY <1>4, <2>1, <3>1, <1>t DEF WorkerState, TypeOK, SendRange, workVars
      <3>3. box'[w] = RangeOf(w)
        BY <1>4, <2>3, <1>d DEF SendRange, SendMsg
      <3> QED
        BY <2>2, <2>3, <3>1, <3>2, <3>3, <1>i DEF WorkerState
    <2>4. CASE w # i
      <3>1. box'[w] = box[w]
        BY <1>4, <2>4, <1>d, <1>a DEF SendRange, SendMsg
      <3> QED
        BY <1>4, <2>1, <2>2, <2>4, <3>1, <1>t, <1>u, SameWorkerState DEF SendRange, workVars
    <2> QED
      BY <2>3, <2>4
  <1>5. CASE JoinThread
    <2>1. /\ mpc = "join" /\ way = "threads" /\ i <= numberOfThreads
          /\ \/ mpc' = "join" /\ i' = i + 1 /\ i < numberOfThreads
             \/ mpc' = "merge" /\ i' = 1 /\ i = numberOfThreads
      BY <1>5, <1>t, LoopFacts DEF JoinThread
    <2>2. /\ (Created(w)' <=> Created(w)) /\ (RangeSent(w)' <=> RangeSent(w))
          /\ (Joined(w)' <=> Joined(w) \/ w = i)
          /\ ~Merged(w)' /\ ~Merged(w)
      BY <2>1, <1>a, <1>i DEF Created, RangeSent, Joined, Merged, Past
    <2>3. wpc[i] = "finished" /\ wpc' = wpc /\ message' = message /\ box' = box
      BY <1>5 DEF JoinThread, workVars
    <2> QED
      BY <2>1, <2>2, <2>3, <1>t, <1>i DEF WorkerState
  <1>6. CASE Merge
    <2>1. /\ mpc = "merge" /\ way = "threads" /\ i <= numberOfThreads
          /\ \/ mpc' = "merge" /\ i' = i + 1 /\ i < numberOfThreads
             \/ mpc' = "done" /\ i' = 1 /\ i = numberOfThreads
      BY <1>6, <1>t, LoopFacts DEF Merge
    <2>2. /\ (Created(w)' <=> Created(w)) /\ (RangeSent(w)' <=> RangeSent(w))
          /\ (Joined(w)' <=> Joined(w)) /\ (Merged(w)' <=> Merged(w) \/ w = i)
      BY <2>1, <1>a, <1>i DEF Created, RangeSent, Joined, Merged, Past
    <2>3. CASE w = i
      <3>1. Joined(w)
        BY <2>1, <2>3 DEF Joined, Past
      <3>2. wpc[w] = "finished" /\ wpc' = wpc
        BY <1>6, <2>1, <3>1, <1>t DEF WorkerState, Merge, workVars
      <3>3. box'[w] = NoMsg
        BY <1>6, <2>3, <1>d DEF Merge, RecvMsg
      <3> QED
        BY <2>1, <2>2, <2>3, <3>2, <3>3, <1>t DEF WorkerState
    <2>4. CASE w # i
      <3>1. box'[w] = box[w]
        BY <1>6, <2>4, <1>d, <1>a DEF Merge, RecvMsg
      <3> QED
        BY <1>6, <2>1, <2>2, <2>4, <3>1, <1>t, <1>u, SameWorkerState DEF Merge, workVars
    <2> QED
      BY <2>3, <2>4
  <1>7. ASSUME NEW t \in Workers, Worker(t) PROVE WorkerState(w)'
    <2>1. mpc' = mpc /\ i' = i /\ mpc \notin {"exit", "done"}
      BY <1>7 DEF Worker, RecvRange, ScanPart, Reply, Goto
    <2>2. /\ (Created(w)' <=> Created(w)) /\ (RangeSent(w)' <=> RangeSent(w))
          /\ (Joined(w)' <=> Joined(w)) /\ (Merged(w)' <=> Merged(w))
      BY <2>1, <1>i DEF Created, RangeSent, Joined, Merged, Past
    <2>3. WorkerState(w)
      BY <2>1, <1>t
    <2>4. CASE w # t
      <3>1. wpc'[w] = wpc[w] /\ message'[w] = message[w]
        BY <1>7, <2>4, <1>d DEF Worker, RecvRange, ScanPart, Reply, Goto
      <3>2. box'[w] = box[w]
        BY <1>7, <2>4, <1>d, <1>a
        DEF Worker, RecvRange, ScanPart, Reply, SendMsg, RecvMsg
      <3> QED
        BY <2>2, <2>3, <3>1, <3>2, <1>u, SameWorkerState
    <2>5. CASE w = t /\ RecvRange(w)
      <3>1. wpc[w] = "recv" /\ wpc'[w] = "scan" /\ box[w] # NoMsg
        BY <2>5, <1>d DEF RecvRange, Goto, RecvMsg
      <3>2. box'[w] = NoMsg /\ message'[w] = box[w]
        BY <2>5, <1>d DEF RecvRange, RecvMsg, Received
      <3>3. RangeSent(w) /\ box[w] = RangeOf(w) /\ Created(w) /\ ~Joined(w)
        BY <2>3, <3>1 DEF WorkerState
      <3> QED
        BY <2>2, <3>1, <3>2, <3>3, <1>i DEF WorkerState
    <2>6. CASE w = t /\ ScanPart(w)
      <3>1. /\ wpc[w] = "scan" /\ wpc'[w] = "reply" /\ box' = box
            /\ message'[w] = Summary(message[w])
        BY <2>6, <1>d DEF ScanPart, Goto
      <3> QED
        BY <2>2, <2>3, <3>1, <1>i DEF WorkerState
    <2>7. CASE w = t /\ Reply(w)
      <3>1. /\ wpc[w] = "reply" /\ wpc'[w] = "finished" /\ message' = message
            /\ box'[w] = message[w]
        BY <2>7, <1>d DEF Reply, Goto, SendMsg
      <3>2. ~Joined(w) /\ RangeSent(w) /\ Created(w)
        BY <2>3, <3>1 DEF WorkerState
      <3>3. ~Merged(w)
        BY <2>1, <3>2, <1>a, <1>t DEF Joined, Merged, Past, Control
      <3> QED
        BY <2>2, <2>3, <3>1, <3>2, <3>3, <1>i DEF WorkerState
    <2> QED
      BY <1>7, <2>4, <2>5, <2>6, <2>7 DEF Worker
  <1>8. CASE UNCHANGED vars
    <2>1. mpc' = mpc /\ i' = i /\ wpc' = wpc /\ message' = message /\ box' = box
      BY <1>8 DEF vars, workVars
    <2>2. /\ (Created(w)' <=> Created(w)) /\ (RangeSent(w)' <=> RangeSent(w))
          /\ (Joined(w)' <=> Joined(w)) /\ (Merged(w)' <=> Merged(w))
      BY <2>1, <1>i DEF Created, RangeSent, Joined, Merged, Past
    <2> QED
      BY <2>1, <2>2, <1>t, <1>u, SameWorkerState
  <1> QED
    BY <1>1, <1>2, <1>3, <1>4, <1>5, <1>6, <1>7, <1>8 DEF Next, Main

\* The inductive invariant holds in every reachable state: main and the workers
\* are in step, and the mailboxes hold what the protocol says.
THEOREM Invariance == Spec => []Inv
  <1>1. Inv /\ [Next]_vars => Inv'
    BY TypePreserved, ControlPreserved, ExchangePreserved DEF Inv
  <1> QED
    BY InitInv, <1>1, PTL DEF Spec

\* The variables keep their types: the index of main stays inside of the arrays, the
\* read position inside of the file, and the counts are numbers.
THEOREM TypeCorrect == Spec => []TypeOK
  <1>1. Inv => TypeOK
    BY DEF Inv
  <1> QED
    BY Invariance, <1>1, PTL

\* main finds the summary of the part it merges in the worker's mailbox.
LEMMA FindsReply ==
  ASSUME Inv, mpc = "merge"
  PROVE  /\ i \in 1 .. numberOfThreads /\ numberOfThreads \in Nat \ {0} /\ file_size \in Nat
         /\ Received(i) = Summary(RangeOf(i)) /\ Received(i).type = "ALLDONE"
  <1>1. TypeOK /\ Control /\ i \in Workers /\ i <= numberOfThreads /\ way = "threads"
    BY DEF Inv, Control, TypeOK
  <1>2. WorkerState(i) /\ i \in Int /\ 1 <= i /\ numberOfThreads \in Int /\ file_size \in Nat
    BY <1>1, ArgsFacts DEF Inv, Exchange
  <1>3. Joined(i) /\ ~Merged(i) /\ RangeSent(i)
    BY <1>1, <1>2 DEF Joined, Merged, RangeSent, Past
  <1>4. Received(i) = Summary(RangeOf(i))
    BY <1>2, <1>3 DEF WorkerState, Received
  <1>5. i \in 1 .. numberOfThreads /\ numberOfThreads \in Nat \ {0}
    BY ONLY <1>1, <1>2
  <1>6. Summary(RangeOf(i)).type = "ALLDONE"
    BY <1>1, <1>3, SentFacts, ExchangeType
  <1> QED
    BY <1>2, <1>4, <1>5, <1>6

\* main, which shares each worker's mailbox with the worker, never takes its own
\* RANGE message back: it finds the reply there, with no wait, for every number of
\* threads.
THEOREM MainMergesReplies == Spec => []MergesReplies
  <1>1. Inv => MergesReplies
    <2> SUFFICES ASSUME Inv, mpc = "merge" PROVE box[i] # NoMsg /\ box[i].type = "ALLDONE"
      BY DEF MergesReplies
    <2>1. /\ i \in 1 .. numberOfThreads /\ TypeOK /\ ArgsOK
          /\ box[i] = Summary(RangeOf(i)) /\ box[i].type = "ALLDONE"
      BY FindsReply DEF Received, Inv, Control
    <2> QED
      BY <2>1, ExchangeType
  <1> QED
    BY Invariance, <1>1, PTL
-----------------------------------------------------------------------------
(* What is counted.  Runs is str_length after each character, as one loop   *)
(* over the whole file computes it.                                         *)
LEMMA RunsDef ==
  ASSUME file_size \in Nat
  PROVE  \A k \in -1 .. file_size - 1 :
            /\ Runs[k] \in Nat /\ Runs[k] <= k + 1
            /\ Runs[k] = IF k < 0 THEN 0 ELSE IF file[k] THEN Runs[k - 1] + 1 ELSE 0
  <1> DEFINE to == file_size - 1
  <1>1. to \in Int /\ 0 \in Int /\ 0 \in Nat /\ 0 - 1 = -1
    OBVIOUS
  <1>2. Runs = StrLength(0, 0, to, file)
    BY DEF Runs
  <1> HIDE DEF to
  <1>3. Runs = [k \in 0 - 1 .. to |->
                  IF k < 0 THEN 0 ELSE IF file[k] THEN Runs[k - 1] + 1 ELSE 0]
    BY <1>1, <1>2, StrLengthDef
  <1>4. \A k \in 0 - 1 .. to : Runs[k] \in Nat /\ Runs[k] <= 0 + (k - 0 + 1)
    BY <1>1, <1>2, StrLengthType
  <1>5. ASSUME NEW k \in -1 .. to
        PROVE  /\ Runs[k] \in Nat /\ Runs[k] <= k + 1
               /\ Runs[k] = IF k < 0 THEN 0 ELSE IF file[k] THEN Runs[k - 1] + 1 ELSE 0
    <2>1. k \in 0 - 1 .. to /\ k \in Int /\ 0 + (k - 0 + 1) = k + 1
      BY <1>1
    <2>2. Runs[k] \in Nat /\ Runs[k] <= k + 1
      BY <1>4, <2>1
    <2>3. Runs[k] = IF k < 0 THEN 0 ELSE IF file[k] THEN Runs[k - 1] + 1 ELSE 0
      BY <1>3, <2>1
    <2> QED
      BY <2>2, <2>3
  <1> QED
    BY <1>5 DEF to

\* The last Runs[k] characters up to k are printable, and the one before them is not.
LEMMA RunsBack ==
  ASSUME file_size \in Nat, NEW k \in 0 .. file_size - 1
  PROVE  /\ \A j \in k - Runs[k] + 1 .. k : file[j]
         /\ k - Runs[k] >= 0 => ~file[k - Runs[k]]
         /\ file[k] <=> Runs[k] >= 1
  <1> DEFINE Good(m) == /\ \A j \in m - Runs[m] + 1 .. m : file[j]
                        /\ m - Runs[m] >= 0 => ~file[m - Runs[m]]
             Bad == {m \in 0 .. file_size - 1 : ~Good(m)}
  <1>1. \A m \in -1 .. file_size - 1 :
            /\ Runs[m] \in Nat /\ Runs[m] <= m + 1
            /\ Runs[m] = IF m < 0 THEN 0 ELSE IF file[m] THEN Runs[m - 1] + 1 ELSE 0
    BY RunsDef
  <1>2. ASSUME Bad # {} PROVE FALSE
    <2>1. Bad \in SUBSET Nat
      OBVIOUS
    <2>2. PICK m \in Bad : \A j \in Bad : m <= j
      <3> HIDE DEF Bad
      <3> QED
        BY <1>2, <2>1, LeastNat
    <2>3. m \in 0 .. file_size - 1 /\ ~Good(m) /\ m \in -1 .. file_size - 1
      BY <2>2
    <2>4. CASE ~file[m]
      <3>1. Runs[m] = 0
        BY <1>1, <2>3, <2>4
      <3> QED
        BY <2>3, <2>4, <3>1
    <2>5. CASE file[m] /\ m = 0
      <3>1. Runs[0] = 1
        BY <1>1, <2>3, <2>5
      <3> QED
        BY <2>3, <2>5, <3>1
    <2>6. CASE file[m] /\ m > 0
      <3>1. m - 1 \in 0 .. file_size - 1 /\ m - 1 \in -1 .. file_size - 1 /\ ~(m <= m - 1)
        BY <2>3, <2>6
      <3>2. Good(m - 1)
        BY <2>2, <3>1
      <3>3. Runs[m] = Runs[m - 1] + 1 /\ Runs[m - 1] \in Nat
        BY <1>1, <2>3, <2>6, <3>1
      <3>4. m - Runs[m] = (m - 1) - Runs[m - 1]
        BY <2>3, <3>3
      <3>5. \A j \in m - Runs[m] + 1 .. m : j = m \/ j \in (m - 1) - Runs[m - 1] + 1 .. m - 1
        BY <2>3, <3>3
      <3> QED
        BY <2>3, <2>6, <3>2, <3>4, <3>5
    <2> QED
      BY <2>3, <2>4, <2>5, <2>6
  <1>3. Good(k)
    BY <1>2
  <1>4. file[k] <=> Runs[k] >= 1
    <2>1. k \in -1 .. file_size - 1 /\ k >= 0 /\ k - 1 \in -1 .. file_size - 1
      OBVIOUS
    <2>2. Runs[k] = IF file[k] THEN Runs[k - 1] + 1 ELSE 0
      BY <1>1, <2>1
    <2>3. Runs[k - 1] \in Nat
      BY <1>1, <2>1
    <2> QED
      BY <2>2, <2>3
  <1> QED
    BY <1>3, <1>4

\* Inside of a string, str_length is the distance from its start.
LEMMA InsideString ==
  ASSUME file_size \in Nat, DOMAIN file = 0 .. file_size - 1,
         NEW r \in Strings, NEW k \in r[1] .. r[2]
  PROVE  /\ r[1] \in 0 .. file_size - 1 /\ r[2] \in 0 .. file_size - 1 /\ k \in 0 .. file_size - 1
         /\ file[k] /\ Runs[k] = k - r[1] + 1
  <1> DEFINE a == r[1]
             b == r[2]
             s == Runs[k]
  <1>1. /\ a \in 0 .. file_size - 1 /\ b \in 0 .. file_size - 1
        /\ a - 1 \in 0 .. file_size - 1 => ~file[a - 1]
    BY DEF Strings
  <1>2. \A j \in a .. b : file[j]
    BY DEF Strings
  <1>3. k \in a .. b
    OBVIOUS
  <1> HIDE DEF a, b
  <1>4. k \in 0 .. file_size - 1 /\ k \in -1 .. file_size - 1
    BY <1>1, <1>3
  <1>5. s \in Nat /\ s <= k + 1
    BY <1>4, RunsDef
  <1>6. (\A j \in k - s + 1 .. k : file[j]) /\ (k - s >= 0 => ~file[k - s])
    BY <1>4, RunsBack
  <1> HIDE DEF s
  <1>7. ASSUME s < k - a + 1 PROVE FALSE
    <2>1. k - s \in a .. b /\ k - s >= 0
      BY ONLY <1>1, <1>3, <1>5, <1>7, file_size \in Nat
    <2> QED
      BY <1>2, <1>6, <2>1
  <1>8. ASSUME s > k - a + 1 PROVE FALSE
    <2>1. a - 1 \in k - s + 1 .. k /\ a - 1 \in 0 .. file_size - 1
      BY ONLY <1>1, <1>3, <1>5, <1>8, file_size \in Nat
    <2> QED
      BY <1>1, <1>6, <2>1
  <1>9. s = k - a + 1
    BY ONLY <1>1, <1>3, <1>5, <1>7, <1>8, file_size \in Nat
  <1> QED
    BY <1>1, <1>2, <1>3, <1>4, <1>9 DEF s, a, b

\* Every printable character is in a string, which starts where str_length says.
LEMMA StringOf ==
  ASSUME file_size \in Nat, DOMAIN file = 0 .. file_size - 1,
         NEW k \in 0 .. file_size - 1, file[k]
  PROVE  \E r \in Strings : r[1] = k - Runs[k] + 1 /\ k \in r[1] .. r[2]
  <1> DEFINE E == {e \in k .. file_size - 1 : \A j \in k .. e : file[j]}
             e == Max(E)
             a == k - Runs[k] + 1
  <1>1. k \in E
    BY SMT
  <1>2. E \in SUBSET Int /\ E # {} /\ file_size - 1 \in Int /\ \A x \in E : x <= file_size - 1
    <2>1. E \in SUBSET Int /\ file_size - 1 \in Int /\ \A x \in E : x <= file_size - 1
      OBVIOUS
    <2> HIDE DEF E
    <2> QED
      BY <1>1, <2>1
  <1>3. Max(E) \in E /\ \A x \in E : Max(E) >= x
    <2> HIDE DEF E
    <2> QED
      BY <1>2, MaxInt
  <1>4. e \in k .. file_size - 1 /\ (\A j \in k .. e : file[j]) /\ \A x \in E : e >= x
    BY <1>3
  <1> HIDE DEF e
  <1>5. e + 1 \in DOMAIN file => ~file[e + 1]
    <2> SUFFICES ASSUME e + 1 \in 0 .. file_size - 1, file[e + 1] PROVE FALSE
      OBVIOUS
    <2>1. e \in Int /\ e + 1 \in k .. file_size - 1 /\ ~(e >= e + 1)
      BY <1>4
    <2>2. \A j \in k .. e + 1 : j = e + 1 \/ j \in k .. e
      BY <1>4, <2>1
    <2>3. \A j \in k .. e + 1 : file[j]
      BY <1>4, <2>2
    <2>4. e + 1 \in E
      BY <2>1, <2>3
    <2> QED
      BY <1>4, <2>1, <2>4
  <1>6. k \in -1 .. file_size - 1
    OBVIOUS
  <1>7. Runs[k] \in Nat /\ Runs[k] <= k + 1
    BY <1>6, RunsDef
  <1>8. (\A j \in a .. k : file[j]) /\ (k - Runs[k] >= 0 => ~file[k - Runs[k]]) /\ Runs[k] >= 1
    BY RunsBack
  <1>9. a \in 0 .. file_size - 1 /\ a <= k /\ a - 1 = k - Runs[k]
    BY <1>7, <1>8
  <1> HIDE DEF a, E
  <1>10. \A j \in a .. e : j \in a .. k \/ j \in k .. e
    BY <1>4, <1>9
  <1>11. \A j \in a .. e : file[j]
    BY <1>4, <1>8, <1>10
  <1>12. a - 1 \in DOMAIN file => ~file[a - 1]
    BY <1>8, <1>9
  <1>13. e \in 0 .. file_size - 1 /\ a <= e /\ k \in a .. e
    BY <1>4, <1>9
  <1>14. <<a, e>> \in Strings
    BY <1>5, <1>9, <1>11, <1>12, <1>13 DEF Strings
  <1> QED
    BY <1>13, <1>14 DEF a

\* A string is determined by where it starts.
LEMMA SameStart ==
  ASSUME file_size \in Nat, DOMAIN file = 0 .. file_size - 1,
         NEW r \in Strings, NEW q \in Strings, r[1] = q[1]
  PROVE  r = q
  <1> DEFINE a == r[1]
             b == r[2]
             c == q[2]
  <1>1. /\ r = <<a, b>> /\ q = <<a, c>>
        /\ a \in 0 .. file_size - 1 /\ b \in 0 .. file_size - 1 /\ c \in 0 .. file_size - 1
        /\ a <= b /\ a <= c
    BY DEF Strings
  <1>2. (\A k \in a .. b : file[k]) /\ (\A k \in a .. c : file[k])
    BY DEF Strings
  <1>3. /\ b + 1 \in 0 .. file_size - 1 => ~file[b + 1]
        /\ c + 1 \in 0 .. file_size - 1 => ~file[c + 1]
    BY DEF Strings
  <1> HIDE DEF a, b, c
  <1>4. b < c => b + 1 \in a .. c /\ b + 1 \in 0 .. file_size - 1
    BY ONLY <1>1, file_size \in Nat
  <1>5. c < b => c + 1 \in a .. b /\ c + 1 \in 0 .. file_size - 1
    BY ONLY <1>1, file_size \in Nat
  <1>6. ~(b < c) /\ ~(c < b)
    BY <1>2, <1>3, <1>4, <1>5
  <1>7. b = c
    BY ONLY <1>1, <1>6, file_size \in Nat
  <1> QED
    BY <1>1, <1>7

\* The fourth characters of strings are as many as there are strings that count.
LEMMA CountStrings ==
  ASSUME file_size \in Nat, DOMAIN file = 0 .. file_size - 1
  PROVE  NumberOfStrings = CountTo(file_size)
  <1> DEFINE D == 0 .. file_size - 1
             A == {k \in 0 .. file_size - 1 : Runs[k] = 4}
             B == {r \in Strings : r[2] - r[1] + 1 >= 4}
             f == [r \in B |-> r[1] + 3]
  <1>1. IsFiniteSet(B)
    <2>1. 0 \in Int /\ file_size - 1 \in Int
      OBVIOUS
    <2>2. IsFiniteSet(D)
      BY <2>1, FS_Interval
    <2> HIDE DEF D
    <2>3. IsFiniteSet(D \X D)
      BY <2>2, FS_Product
    <2>4. B \in SUBSET (D \X D)
      BY DEF Strings, D
    <2> QED
      BY <2>3, <2>4, FS_Subset
  <1>2. ASSUME NEW r \in B PROVE r[1] + 3 \in A /\ r[1] \in Int
    <2>1. r \in Strings /\ r[1] \in Int /\ r[2] \in Int /\ r[2] - r[1] + 1 >= 4
      BY DEF Strings
    <2>2. r[1] + 3 \in r[1] .. r[2]
      BY ONLY <2>1
    <2>3. r[1] + 3 \in 0 .. file_size - 1 /\ Runs[r[1] + 3] = (r[1] + 3) - r[1] + 1
      BY <2>1, <2>2, InsideString
    <2>4. Runs[r[1] + 3] = 4
      <3>1. (r[1] + 3) - r[1] + 1 = 4
        BY ONLY <2>1
      <3> QED
        BY <2>3, <3>1
    <2> QED
      BY <2>1, <2>3, <2>4
  <1>3. ASSUME NEW k \in A PROVE \E r \in B : r[1] + 3 = k
    <2>1. k \in 0 .. file_size - 1 /\ Runs[k] = 4
      OBVIOUS
    <2>2. file[k]
      BY <2>1, RunsBack
    <2>3. PICK r \in Strings : r[1] = k - Runs[k] + 1 /\ k \in r[1] .. r[2]
      BY <2>1, <2>2, StringOf
    <2>4. r[1] \in Int /\ r[2] \in Int
      BY DEF Strings
    <2>5. r[1] + 3 = k /\ r[2] - r[1] + 1 >= 4
      <3>1. k \in Int
        BY <2>1
      <3> QED
        BY ONLY <2>1, <2>3, <2>4, <3>1
    <2> QED
      BY <2>3, <2>5
  <1>4. f \in [B -> A]
    BY <1>2
  <1>5. \A r, q \in B : f[r] = f[q] => r = q
    <2> SUFFICES ASSUME NEW r \in B, NEW q \in B, f[r] = f[q] PROVE r = q
      OBVIOUS
    <2>1. r[1] + 3 = q[1] + 3 /\ r[1] \in Int /\ q[1] \in Int
      BY <1>2
    <2>2. r[1] = q[1]
      BY ONLY <2>1
    <2>3. r \in Strings /\ q \in Strings
      OBVIOUS
    <2> QED
      BY <2>2, <2>3, SameStart
  <1>6. \A k \in A : \E r \in B : f[r] = k
    BY <1>3
  <1>7. Cardinality(A) = Cardinality(B)
    <2> HIDE DEF A, B, f
    <2> QED
      BY <1>1, <1>4, <1>5, <1>6, SameSize
  <1>8. NumberOfStrings = Cardinality(B) /\ CountTo(file_size) = Cardinality(A)
    BY DEF NumberOfStrings, CountTo
  <1> HIDE DEF A, B
  <1> QED
    BY <1>7, <1>8

\* The greatest value of str_length is the length of the longest string.
LEMMA LongestString ==
  ASSUME file_size \in Nat, DOMAIN file = 0 .. file_size - 1,
         NEW z \in {-1, 0}, NEW m, Greatest(m, {z} \cup LengthsTo(file_size))
  PROVE  IF Strings = {} THEN m = z ELSE IsMaximum(m)
  <1>1. (m = z \/ m \in LengthsTo(file_size)) /\ \A x \in LengthsTo(file_size) : x <= m
    BY DEF Greatest
  <1>2. \A x \in LengthsTo(file_size) : \E k \in 0 .. file_size - 1 : file[k] /\ x = Runs[k]
    BY DEF LengthsTo
  <1>3. \A k \in 0 .. file_size - 1 : file[k] => Runs[k] \in LengthsTo(file_size)
    BY DEF LengthsTo
  <1>4. CASE Strings = {}
    BY <1>1, <1>2, <1>4, StringOf
  <1>5. CASE Strings # {}
    <2>1. ASSUME NEW r \in Strings
          PROVE  /\ r[2] - r[1] + 1 \in LengthsTo(file_size) /\ r[2] - r[1] + 1 >= 1
                 /\ r[1] \in Int /\ r[2] \in Int
      <3>1. r[1] \in 0 .. file_size - 1 /\ r[2] \in 0 .. file_size - 1 /\ r[1] <= r[2]
        BY DEF Strings
      <3>2. r[2] \in r[1] .. r[2]
        BY <3>1
      <3>3. file[r[2]] /\ Runs[r[2]] = r[2] - r[1] + 1
        BY <3>2, InsideString
      <3>4. r[2] - r[1] + 1 >= 1 /\ r[1] \in Int /\ r[2] \in Int
        BY <3>1
      <3> QED
        BY <1>3, <3>1, <3>3, <3>4
    <2>2. \A l \in Lengths : l <= m
      BY <1>1, <2>1 DEF Lengths
    <2>3. m # z
      <3>1. PICK r \in Strings : TRUE
        BY <1>5
      <3>2. r[2] - r[1] + 1 <= m /\ r[2] - r[1] + 1 >= 1 /\ r[1] \in Int /\ r[2] \in Int
        BY <1>1, <2>1
      <3> QED
        BY <3>2
    <2>4. PICK k \in 0 .. file_size - 1 : file[k] /\ m = Runs[k]
      BY <1>1, <1>2, <2>3
    <2>5. PICK r \in Strings : r[1] = k - Runs[k] + 1 /\ k \in r[1] .. r[2]
      BY <2>4, StringOf
    <2>6. k \in -1 .. file_size - 1
      OBVIOUS
    <2>7. m \in Nat
      BY <2>4, <2>6, RunsDef
    <2>8. r[2] - r[1] + 1 <= m /\ r[1] \in Int /\ r[2] \in Int
      BY <1>1, <2>1
    <2>9. m = r[2] - r[1] + 1
      <3>1. k \in Int
        OBVIOUS
      <3> QED
        BY ONLY <2>4, <2>5, <2>7, <2>8, <3>1
    <2>10. m \in Lengths
      BY <2>9 DEF Lengths
    <2> QED
      BY <1>5, <2>2, <2>10 DEF IsMaximum
  <1> QED
    BY <1>4, <1>5

\* Subsets of an interval are finite.
LEMMA PartFinite ==
  ASSUME NEW a \in Int, NEW b \in Int, NEW S \in SUBSET (a .. b)
  PROVE  IsFiniteSet(S) /\ Cardinality(S) \in Nat
  BY FS_Interval, FS_Subset, FS_CardinalityType

\* Strings are counted part by part.
LEMMA CountSplit ==
  ASSUME file_size \in Nat, NEW a \in 0 .. file_size, NEW b \in a .. file_size
  PROVE  /\ CountTo(b) = CountTo(a) + Cardinality({k \in a .. b - 1 : Runs[k] = 4})
         /\ LengthsTo(b) = LengthsTo(a) \cup {Runs[k] : k \in {j \in a .. b - 1 : file[j]}}
         /\ CountTo(a) \in Nat
  <1> DEFINE S == {k \in 0 .. a - 1 : Runs[k] = 4}
             T == {k \in a .. b - 1 : Runs[k] = 4}
             U == {k \in 0 .. b - 1 : Runs[k] = 4}
  <1>1. \A k : k \in 0 .. b - 1 <=> (k \in 0 .. a - 1 \/ k \in a .. b - 1)
    OBVIOUS
  <1>2. U = S \cup T /\ S \cap T = {}
    <2>1. U = S \cup T
      BY <1>1
    <2>2. S \cap T = {}
      OBVIOUS
    <2> QED
      BY <2>1, <2>2
  <1>3. 0 \in Int /\ a - 1 \in Int /\ a \in Int /\ b - 1 \in Int
    OBVIOUS
  <1>4. IsFiniteSet(S) /\ Cardinality(S) \in Nat
    BY <1>3, PartFinite
  <1>5. IsFiniteSet(T) /\ Cardinality(T) \in Nat
    BY <1>3, PartFinite
  <1>6. CountTo(b) = Cardinality(U) /\ CountTo(a) = Cardinality(S)
    BY DEF CountTo
  <1>7. LengthsTo(b) = LengthsTo(a) \cup {Runs[k] : k \in {j \in a .. b - 1 : file[j]}}
    BY <1>1 DEF LengthsTo
  <1>8. T = {k \in a .. b - 1 : Runs[k] = 4}
    OBVIOUS
  <1> HIDE DEF S, T, U
  <1>9. Cardinality(U) = Cardinality(S) + Cardinality(T) - Cardinality(S \cap T)
    BY <1>2, <1>4, <1>5, FS_Union
  <1>10. Cardinality(S \cap T) = 0
    BY <1>2, FS_EmptySet
  <1>11. Cardinality(U) = Cardinality(S) + Cardinality(T)
    BY <1>4, <1>5, <1>9, <1>10
  <1> QED
    BY <1>4, <1>6, <1>7, <1>8, <1>11

\* A loop that continues where the characters before it end computes the same as
\* one loop over the whole file, wherever the buffer lies.
LEMMA SameRuns ==
  ASSUME file_size \in Nat, NEW d \in 0 .. file_size, NEW last \in Int, NEW to \in Int,
         last <= to, d + last <= file_size - 1, NEW chars,
         \A k \in 0 .. last : chars[k] <=> file[d + k],
         NEW len \in Nat, len = Runs[d - 1], NEW n \in 0 .. last
  PROVE  StrLength(len, 0, to, chars)[n] = Runs[d + n]
  <1> DEFINE str == StrLength(len, 0, to, chars)
             Bad == {k \in 0 .. last : str[k] # Runs[d + k]}
  <1>1. \A k \in -1 .. to :
           str[k] = IF k < 0 THEN len ELSE IF chars[k] THEN str[k - 1] + 1 ELSE 0
    <2>1. 0 - 1 = -1 /\ 0 \in Int
      OBVIOUS
    <2>2. str = [k \in 0 - 1 .. to |->
            IF k < 0 THEN len ELSE IF chars[k] THEN str[k - 1] + 1 ELSE 0]
      BY <2>1, StrLengthDef
    <2> HIDE DEF str
    <2> QED
      BY <2>1, <2>2
  <1> HIDE DEF str
  <1>2. \A k \in -1 .. file_size - 1 :
            /\ Runs[k] \in Nat
            /\ Runs[k] = IF k < 0 THEN 0 ELSE IF file[k] THEN Runs[k - 1] + 1 ELSE 0
    BY RunsDef
  <1>3. ASSUME Bad # {} PROVE FALSE
    <2>1. Bad \in SUBSET Nat
      OBVIOUS
    <2>2. PICK k \in Bad : \A j \in Bad : k <= j
      <3> HIDE DEF Bad
      <3> QED
        BY <1>3, <2>1, LeastNat
    <2>3. k \in 0 .. last /\ str[k] # Runs[d + k] /\ k \in Nat
      BY <2>2
    <2>4. str[k - 1] = Runs[d + k - 1]
      <3>1. CASE k = 0
        <4>1. -1 \in -1 .. to /\ k - 1 = -1 /\ d + k - 1 = d - 1
          BY <2>3, <3>1
        <4> QED
          BY <1>1, <4>1
      <3>2. CASE k > 0
        <4>1. k - 1 \in 0 .. last /\ ~(k <= k - 1) /\ d + (k - 1) = d + k - 1
          BY <2>3, <3>2
        <4> QED
          BY <2>2, <4>1
      <3> QED
        BY <2>3, <3>1, <3>2
    <2>5. k \in -1 .. to /\ ~(k < 0) /\ d + k \in -1 .. file_size - 1 /\ ~(d + k < 0)
      BY <2>3
    <2>6. str[k] = IF chars[k] THEN str[k - 1] + 1 ELSE 0
      BY <1>1, <2>5
    <2>7. Runs[d + k] = IF file[d + k] THEN Runs[d + k - 1] + 1 ELSE 0
      BY <1>2, <2>5
    <2>8. chars[k] <=> file[d + k]
      BY <2>3
    <2> QED
      BY <2>3, <2>4, <2>6, <2>7, <2>8
  <1>4. str[n] = Runs[d + n]
    BY <1>3
  <1> QED
    BY <1>4 DEF str

\* Within a part, str_length of a worker is that of the whole file as soon as a
\* character was not printable; before, it lacks what the part before ends with.
LEMMA PartRuns ==
  ASSUME file_size \in Nat, NEW from \in 0 .. file_size, NEW to \in Int, to <= file_size - 1,
         NEW k \in from .. to
  PROVE  /\ (\A j \in from .. k : file[j]) =>
               /\ StrLength(0, from, to, file)[k] = k - from + 1
               /\ Runs[k] = Runs[from - 1] + (k - from + 1)
         /\ ~(\A j \in from .. k : file[j]) => StrLength(0, from, to, file)[k] = Runs[k]
  <1> DEFINE str == StrLength(0, from, to, file)
             All(n) == \A j \in from .. n : file[j]
             Good(n) == /\ All(n) => str[n] = n - from + 1 /\ Runs[n] = Runs[from - 1] + (n - from + 1)
                        /\ ~All(n) => str[n] = Runs[n]
             Bad == {n \in from .. to : ~Good(n)}
  <1>1. \A n \in from - 1 .. to :
           str[n] = IF n < from THEN 0 ELSE IF file[n] THEN str[n - 1] + 1 ELSE 0
    <2>1. 0 \in Nat /\ from \in Int
      OBVIOUS
    <2>2. str = [n \in from - 1 .. to |->
            IF n < from THEN 0 ELSE IF file[n] THEN str[n - 1] + 1 ELSE 0]
      BY <2>1, StrLengthDef
    <2> HIDE DEF str
    <2> QED
      BY <2>2
  <1> HIDE DEF str
  <1>2. \A n \in -1 .. file_size - 1 :
            /\ Runs[n] \in Nat
            /\ Runs[n] = IF n < 0 THEN 0 ELSE IF file[n] THEN Runs[n - 1] + 1 ELSE 0
    BY RunsDef
  <1>3. ASSUME Bad # {} PROVE FALSE
    <2>1. Bad \in SUBSET Nat
      OBVIOUS
    <2>2. PICK n \in Bad : \A j \in Bad : n <= j
      <3> HIDE DEF Bad
      <3> QED
        BY <1>3, <2>1, LeastNat
    <2>3. n \in from .. to /\ ~Good(n) /\ n \in Nat
      BY <2>2
    <2>4. /\ n \in from - 1 .. to /\ ~(n < from) /\ n \in -1 .. file_size - 1 /\ ~(n < 0)
          /\ from - 1 \in -1 .. file_size - 1 /\ from - 1 \in from - 1 .. to /\ from - 1 < from
          /\ n - 1 \in -1 .. file_size - 1
      BY <2>3
    <2>5. str[n] = IF file[n] THEN str[n - 1] + 1 ELSE 0
      BY <1>1, <2>4
    <2>6. Runs[n] = IF file[n] THEN Runs[n - 1] + 1 ELSE 0
      BY <1>2, <2>4
    <2>7. str[from - 1] = 0 /\ Runs[from - 1] \in Nat /\ Runs[n - 1] \in Nat
      BY <1>1, <1>2, <2>4
    <2>8. CASE ~file[n]
      <3>1. ~All(n)
        BY <2>3, <2>8
      <3>2. str[n] = Runs[n]
        BY <2>5, <2>6, <2>8
      <3> QED
        BY <2>3, <3>1, <3>2
    <2>9. CASE file[n] /\ n = from
      <3>1. All(n)
        BY <2>3, <2>9
      <3>2. str[n] = 1 /\ Runs[n] = Runs[from - 1] + 1
        BY <2>5, <2>6, <2>7, <2>9
      <3>3. n - from + 1 = 1
        BY <2>3, <2>9
      <3> QED
        BY <2>3, <3>1, <3>2, <3>3
    <2>10. CASE file[n] /\ n # from
      <3>1. n - 1 \in from .. to /\ ~(n <= n - 1)
        BY <2>3, <2>10
      <3>2. Good(n - 1)
        BY <2>2, <3>1
      <3>3. \A j : j \in from .. n <=> j = n \/ j \in from .. n - 1
        BY <2>3
      <3>4. All(n) <=> All(n - 1)
        BY <2>10, <3>3
      <3>5. str[n] = str[n - 1] + 1 /\ Runs[n] = Runs[n - 1] + 1
        BY <2>5, <2>6, <2>10
      <3>6. CASE All(n - 1)
        <4>1. str[n - 1] = (n - 1) - from + 1 /\ Runs[n - 1] = Runs[from - 1] + ((n - 1) - from + 1)
          BY <3>2, <3>6
        <4> HIDE DEF All
        <4>2. str[n] = n - from + 1 /\ Runs[n] = Runs[from - 1] + (n - from + 1)
          BY <2>3, <2>7, <3>5, <4>1
        <4> QED
          BY <2>3, <3>4, <3>6, <4>2
      <3>7. CASE ~All(n - 1)
        <4>1. str[n] = Runs[n]
          BY <3>2, <3>5, <3>7
        <4> HIDE DEF All
        <4> QED
          BY <2>3, <3>4, <3>7, <4>1
      <3> QED
        BY <3>6, <3>7
    <2> QED
      BY <2>8, <2>9, <2>10
  <1>4. Good(k)
    BY <1>3
  <1> QED
    BY <1>4 DEF str

\* The lengths that occur are positive and at most the size of the file.
LEMMA LengthsType ==
  ASSUME file_size \in Nat, NEW n \in 0 .. file_size
  PROVE  \A x \in LengthsTo(n) : x \in Nat /\ x <= file_size
  <1> SUFFICES ASSUME NEW x \in LengthsTo(n) PROVE x \in Nat /\ x <= file_size
    OBVIOUS
  <1>1. PICK k \in 0 .. n - 1 : x = Runs[k]
    BY DEF LengthsTo
  <1>2. k \in -1 .. file_size - 1 /\ k \in Int
    OBVIOUS
  <1>3. Runs[k] \in Nat /\ Runs[k] <= k + 1
    BY <1>2, RunsDef
  <1> QED
    BY <1>1, <1>2, <1>3

\* chars has cnt characters of the file, from d on, and then none that is printable.
Shows(chars, d, cnt, to) ==
    /\ \A k \in 0 .. cnt - 1 : chars[k] <=> file[d + k]
    /\ \A k \in cnt .. to : ~chars[k]

\* num strings and the longest length max are those of the first n characters.
CountIs(num, max, n) == num = CountTo(n) /\ Greatest(max, {-1} \cup LengthsTo(n))
ScanRight(s, d, cnt, to) ==
    /\ CountIs(s.num, s.max, d + cnt)
    /\ cnt > 0 /\ cnt - 1 = to => s.len = Runs[d + cnt - 1]

\* A loop over the next cnt characters of the file counts on, also if there are
\* characters that are not printable behind them.
LEMMA ScanCounts ==
  ASSUME file_size \in Nat, NEW d \in 0 .. file_size, NEW cnt \in Nat, d + cnt <= file_size,
         NEW to \in Int, cnt - 1 <= to, NEW chars,
         Shows(chars, d, cnt, to),
         NEW len \in Nat, len = Runs[d - 1], NEW num, NEW max, CountIs(num, max, d),
         NEW s, s = Scan(len, num, max, 0, to, chars)
  PROVE  ScanRight(s, d, cnt, to)
  <1> USE DEF Shows, CountIs, ScanRight
  <1> DEFINE str == StrLength(len, 0, to, chars)
             e == d + cnt
             L == {k \in 0 .. to : str[k] = 4}
             G == {k \in d .. e - 1 : Runs[k] = 4}
             lengths == {str[k] : k \in {j \in 0 .. to : chars[j]}}
             M == {Runs[k] : k \in {j \in d .. e - 1 : file[j]}}
             f == [k \in L |-> d + k]
  <1>1. ASSUME NEW k \in 0 .. cnt - 1 PROVE str[k] = Runs[d + k]
    <2> DEFINE last == cnt - 1
    <2>1. last \in Int /\ last <= to /\ d + last <= file_size - 1
      OBVIOUS
    <2>2. k \in 0 .. last /\ \A j \in 0 .. last : chars[j] <=> file[d + j]
      OBVIOUS
    <2> HIDE DEF last
    <2> QED
      BY <2>1, <2>2, SameRuns
  <1>2. ASSUME NEW k \in cnt .. to PROVE str[k] = 0
    <2>1. 0 \in Int /\ k \in 0 - 1 .. to /\ ~(k < 0)
      OBVIOUS
    <2>2. str[k] = IF k < 0 THEN len ELSE IF chars[k] THEN str[k - 1] + 1 ELSE 0
      BY <2>1, StrLengthDef
    <2> HIDE DEF str
    <2> QED
      BY <2>1, <2>2
  <1>3. /\ s.num = num + Cardinality(L) /\ s.max = Max({max} \cup lengths) /\ s.len = str[to]
    BY DEF Scan
  <1> HIDE DEF str
  <1>4. \A k \in 0 .. to : k \in 0 .. cnt - 1 \/ k \in cnt .. to
    OBVIOUS
  <1>5. \A k \in 0 .. cnt - 1 : k \in 0 .. to /\ d + k \in d .. e - 1
    OBVIOUS
  <1>6. \A k \in d .. e - 1 : k - d \in 0 .. cnt - 1 /\ d + (k - d) = k
    OBVIOUS
  <1>7. Cardinality(G) = Cardinality(L)
    <2>1. IsFiniteSet(L)
      <3>1. 0 \in Int
        OBVIOUS
      <3> QED
        BY <3>1, PartFinite
    <2>2. ASSUME NEW k \in L PROVE k \in 0 .. cnt - 1 /\ d + k \in G
      <3>1. k \in 0 .. cnt - 1
        BY <1>2, <1>4
      <3> QED
        BY <1>1, <1>5, <3>1
    <2>3. ASSUME NEW k \in G PROVE \E j \in L : d + j = k
      <3>1. k - d \in 0 .. cnt - 1 /\ d + (k - d) = k /\ Runs[k] = 4
        BY <1>6
      <3>2. k - d \in L
        BY <1>1, <1>5, <3>1
      <3> QED
        BY <3>1, <3>2
    <2>4. f \in [L -> G]
      BY <2>2
    <2>5. \A a, b \in L : f[a] = f[b] => a = b
      <3>1. \A a \in L : a \in Int /\ f[a] = d + a
        OBVIOUS
      <3> HIDE DEF L, f
      <3> QED
        BY <3>1
    <2>6. \A k \in G : \E j \in L : f[j] = k
      BY <2>3
    <2> HIDE DEF L, G, f
    <2> QED
      BY <2>1, <2>4, <2>5, <2>6, SameSize
  <1>8. e \in d .. file_size /\ e \in 0 .. file_size
    OBVIOUS
  <1>9. CountTo(e) = CountTo(d) + Cardinality(G) /\ LengthsTo(e) = LengthsTo(d) \cup M
    BY <1>8, CountSplit
  <1>10. lengths = M
    <2>1. ASSUME NEW x \in lengths PROVE x \in M
      <3>1. PICK k \in 0 .. to : chars[k] /\ x = str[k]
        OBVIOUS
      <3>2. k \in 0 .. cnt - 1
        BY <1>4, <3>1
      <3>3. d + k \in d .. e - 1 /\ file[d + k] /\ x = Runs[d + k]
        BY <1>1, <1>5, <3>1, <3>2
      <3> QED
        BY <3>3
    <2>2. ASSUME NEW x \in M PROVE x \in lengths
      <3>1. PICK k \in d .. e - 1 : file[k] /\ x = Runs[k]
        OBVIOUS
      <3>2. k - d \in 0 .. cnt - 1 /\ d + (k - d) = k /\ k - d \in 0 .. to
        BY <1>5, <1>6
      <3>3. chars[k - d] /\ str[k - d] = x
        BY <1>1, <3>1, <3>2
      <3> QED
        BY <3>2, <3>3
    <2> HIDE DEF lengths, M
    <2> QED
      BY <2>1, <2>2
  <1> HIDE DEF e, L, G, lengths, M, f
  <1>11. s.num = CountTo(e)
    BY <1>3, <1>7, <1>9
  <1>12. Greatest(s.max, {-1} \cup LengthsTo(e))
    <2> DEFINE T == {max} \cup M
    <2>1. (\A x \in LengthsTo(d) : x \in Nat /\ x <= file_size)
          /\ (\A x \in LengthsTo(e) : x \in Nat /\ x <= file_size)
      BY <1>8, LengthsType
    <2>2. max \in {-1} \cup LengthsTo(d) /\ \A x \in {-1} \cup LengthsTo(d) : x <= max
      BY DEF Greatest
    <2>3. T \in SUBSET Int /\ T # {} /\ file_size \in Int /\ \A x \in T : x <= file_size
      BY <1>9, <2>1, <2>2
    <2>4. s.max = Max(T)
      BY <1>3, <1>10
    <2>5. max \in T /\ M \subseteq T /\ T \subseteq {-1} \cup LengthsTo(e)
      BY <1>9, <2>2
    <2> HIDE DEF T
    <2>6. Max(T) \in T /\ \A y \in T : Max(T) >= y
      BY <2>3, MaxInt
    <2>7. Max(T) \in Int /\ max \in Int /\ max <= Max(T)
      BY <2>3, <2>5, <2>6
    <2>8. ASSUME NEW x \in {-1} \cup LengthsTo(e) PROVE x <= Max(T)
      <3>1. x \in Int
        BY <2>1
      <3>2. CASE x \in {-1} \cup LengthsTo(d)
        <4>1. x <= max
          BY <2>2, <3>2
        <4> QED
          BY ONLY <2>7, <3>1, <4>1
      <3>3. CASE x \in M
        BY <2>3, <2>5, <2>6, <3>3
      <3> QED
        BY <1>9, <3>2, <3>3
    <2> QED
      BY <2>4, <2>5, <2>6, <2>8 DEF Greatest
  <1>13. ASSUME cnt > 0, cnt - 1 = to PROVE s.len = Runs[e - 1]
    <2>1. to \in 0 .. cnt - 1 /\ d + to = e - 1
      BY <1>13 DEF e
    <2> QED
      BY <1>1, <1>3, <2>1
  <1> QED
    BY <1>11, <1>12, <1>13 DEF e

\* How many numbers of an interval have a given value: one or none.
LEMMA OneOrNone ==
  ASSUME NEW a \in Int, NEW b \in Int, NEW v \in Int
  PROVE  Cardinality({k \in a .. b : k = v}) = IF v \in a .. b THEN 1 ELSE 0
  <1> DEFINE S == {k \in a .. b : k = v}
  <1>1. CASE v \in a .. b
    <2>1. S = {v}
      BY <1>1
    <2> QED
      BY <1>1, <2>1, FS_Singleton
  <1>2. CASE v \notin a .. b
    <2>1. S = {}
      BY <1>2
    <2> QED
      BY <1>2, <2>1, FS_EmptySet
  <1> QED
    BY <1>1, <1>2

\* A part begins with printable characters up to f, and charsAtBegin counts them.
LEMMA FirstBreak ==
  ASSUME NEW from \in Int, NEW to \in Int, from - 1 <= to, NEW chars
  PROVE  \E f \in from .. to + 1 :
            /\ Cardinality({k \in from .. to : \A j \in from .. k : chars[j]}) = f - from
            /\ \A k \in from .. to : (\A j \in from .. k : chars[j]) <=> k < f
  <1> DEFINE B == {k \in from .. to : ~chars[k]} \cup {to + 1}
  <1>1. B \in SUBSET Int /\ B # {} /\ \A x \in B : from <= x
    OBVIOUS
  <1>2. PICK f \in B : \A x \in B : f <= x
    <2> HIDE DEF B
    <2> QED
      BY <1>1, LeastInt
  <1>3. f \in from .. to + 1 /\ f \in Int
    BY <1>1
  <1>4. f <= to => ~chars[f]
    OBVIOUS
  <1>5. \A k \in from .. to : k < f => chars[k]
    <2> SUFFICES ASSUME NEW k \in from .. to, k < f, ~chars[k] PROVE FALSE
      OBVIOUS
    <2>1. k \in B
      OBVIOUS
    <2>2. f <= k
      BY <1>2, <2>1
    <2> QED
      BY ONLY <1>3, <2>2, k < f, k \in from .. to, from \in Int, to \in Int
  <1> HIDE DEF B
  <1>6. ASSUME NEW k \in from .. to PROVE (\A j \in from .. k : chars[j]) <=> k < f
    <2>1. ASSUME k < f, NEW j \in from .. k PROVE chars[j]
      <3>1. j \in from .. to /\ j < f
        BY <1>3, <2>1
      <3> QED
        BY <1>5, <3>1
    <2>2. ASSUME ~(k < f), \A j \in from .. k : chars[j] PROVE FALSE
      <3>1. f \in from .. k /\ f <= to
        BY <1>3, <2>2
      <3> QED
        BY <1>4, <2>2, <3>1
    <2> QED
      BY <2>1, <2>2
  <1> DEFINE S == {k \in from .. to : \A j \in from .. k : chars[j]}
  <1>7. S = from .. f - 1
    <2>1. \A k : k \in from .. f - 1 <=> (k \in from .. to /\ k < f)
      BY <1>3
    <2> QED
      BY <1>6, <2>1
  <1>8. Cardinality(S) = f - from
    <2>1. f - 1 \in Int
      BY <1>3
    <2>2. Cardinality(from .. f - 1) = IF from > f - 1 THEN 0 ELSE (f - 1) - from + 1
      BY <2>1, FS_Interval
    <2>3. Cardinality(from .. f - 1) = f - from
      BY <1>3, <2>2
    <2> HIDE DEF S
    <2> QED
      BY <1>7, <2>3
  <1> QED
    BY <1>3, <1>6, <1>8

\* The strings counted among the characters from .. to, and the lengths that occur there.
CountIn(from, to) == Cardinality({k \in from .. to : Runs[k] = 4})
LengthsIn(from, to) == {Runs[k] : k \in {j \in from .. to : file[j]}}

\* What the four numbers of a worker say about its part of the file.
LEMMA PartFacts ==
  ASSUME file_size \in Nat, NEW from \in 0 .. file_size, NEW to \in Int,
         from - 1 <= to, to <= file_size - 1,
         NEW r, r.value1 = from, r.value2 = to,
         NEW p, p = Runs[from - 1], NEW M, M = LengthsIn(from, to),
         NEW m, m = Summary(r)
  PROVE  /\ p \in Nat /\ m.value1 \in Nat /\ m.value2 \in Nat /\ m.value3 \in Nat /\ m.value4 \in Nat
         /\ CountIn(from, to) =
               m.value1 + (IF p < 4 /\ p + m.value2 >= 4 THEN 1 ELSE 0)
                        - (IF m.value2 >= 4 THEN 1 ELSE 0)
         /\ (\A k \in from .. to : file[k]) =>
               /\ m.value2 = to - from + 1 /\ m.value3 = to - from + 1 /\ m.value1 <= 1
               /\ Runs[to] = p + m.value2 /\ \A x \in M : x <= p + m.value2
         /\ ~(\A k \in from .. to : file[k]) => m.value3 = Runs[to]
         /\ m.value2 > 0 => p + m.value2 \in M
         /\ \A x \in M : x <= p + m.value2 \/ x <= m.value4
         /\ m.value4 <= m.value2 \/ m.value4 \in M
  <1> USE DEF CountIn, LengthsIn
  <1> DEFINE str == StrLength(0, from, to, file)
             s == Scan(0, 0, 0, from, to, file)
             L == {k \in from .. to : str[k] = 4}
             G == {k \in from .. to : Runs[k] = 4}
             lengths == {str[k] : k \in {j \in from .. to : file[j]}}
             c == m.value2
  <1>a. from \in Int /\ from - 1 \in -1 .. file_size - 1 /\ 0 \in Nat /\ 0 \in Int
    OBVIOUS
  <1>p. p \in Nat
    BY <1>a, RunsDef
  <1>m. /\ m.value1 = 0 + Cardinality(L) /\ m.value3 = str[to] /\ m.value4 = Max({0} \cup lengths)
        /\ m.value2 = Cardinality({k \in from .. to : \A j \in from .. k : file[j]})
    BY DEF Summary, Scan
  <1>s. \A k \in from - 1 .. to : str[k] \in Nat /\ str[k] <= 0 + (k - from + 1)
    BY <1>a, StrLengthType
  <1>0. ASSUME NEW k \in from .. to
        PROVE  /\ (\A j \in from .. k : file[j]) =>
                      str[k] = k - from + 1 /\ Runs[k] = Runs[from - 1] + (k - from + 1)
               /\ ~(\A j \in from .. k : file[j]) => str[k] = Runs[k]
    BY PartRuns
  <1> HIDE DEF str, s
  <1>1. PICK f \in from .. to + 1 :
            /\ Cardinality({k \in from .. to : \A j \in from .. k : file[j]}) = f - from
            /\ \A k \in from .. to : (\A j \in from .. k : file[j]) <=> k < f
    <2>1. from \in Int /\ to \in Int /\ from - 1 <= to
      BY <1>a
    <2> QED
      BY ONLY <2>1, FirstBreak
  <1>2. c = f - from /\ c \in Nat /\ f \in Int
    <2>1. c = f - from
      BY <1>1, <1>m
    <2>2. f \in Int /\ from <= f
      OBVIOUS
    <2> HIDE DEF c
    <2> QED
      BY ONLY <1>a, <2>1, <2>2
  <1>3. ASSUME NEW k \in from .. to
        PROVE  /\ k < f => str[k] = k - from + 1 /\ Runs[k] = p + (k - from + 1)
               /\ ~(k < f) => str[k] = Runs[k]
    BY <1>0, <1>1
  <1>4. /\ Cardinality(G) = m.value1 + (IF p < 4 /\ p + c >= 4 THEN 1 ELSE 0)
                                  - (IF c >= 4 THEN 1 ELSE 0)
        /\ m.value1 \in Nat
        /\ (f = to + 1 => m.value1 <= 1)
    <2> DEFINE C == {k \in f .. to : Runs[k] = 4}
               L0 == {k \in from .. f - 1 : k = from + 3}
               G0 == {k \in from .. f - 1 : k = from + 3 - p}
    <2>0. f - 1 \in Int /\ from + 3 \in Int /\ from + 3 - p \in Int
      BY <1>a, <1>p, <1>2
    <2>1. \A k : k \in from .. to <=> (k \in from .. f - 1 \/ k \in f .. to)
      BY <1>1, <1>2
    <2>2. \A k \in from .. f - 1 : k < f /\ k \in from .. to
      BY <1>1, <1>2
    <2>3. \A k \in f .. to : ~(k < f) /\ k \in from .. to
      BY <1>1, <1>2
    <2>4. \A k \in from .. f - 1 : str[k] = 4 <=> k = from + 3
      <3> SUFFICES ASSUME NEW k \in from .. f - 1 PROVE str[k] = 4 <=> k = from + 3
        OBVIOUS
      <3>1. str[k] = k - from + 1 /\ k \in Int
        BY <1>3, <2>2, <1>2
      <3> QED
        BY ONLY <3>1, <1>a
    <2>5. \A k \in from .. f - 1 : Runs[k] = 4 <=> k = from + 3 - p
      <3> SUFFICES ASSUME NEW k \in from .. f - 1 PROVE Runs[k] = 4 <=> k = from + 3 - p
        OBVIOUS
      <3>1. Runs[k] = p + (k - from + 1) /\ k \in Int
        BY <1>3, <2>2, <1>2
      <3> QED
        BY ONLY <3>1, <1>a, <1>p
    <2>6. \A k \in f .. to : str[k] = Runs[k]
      BY <1>3, <2>3
    <2>7. L = C \cup L0
      BY <2>1, <2>4, <2>6
    <2>8. G = C \cup G0
      BY <2>1, <2>5
    <2>9. C \cap L0 = {} /\ C \cap G0 = {}
      BY <2>2, <2>3
    <2>10. IsFiniteSet(C) /\ Cardinality(C) \in Nat
      BY <1>2, PartFinite
    <2>11. IsFiniteSet(L0) /\ Cardinality(L0) \in Nat
      BY <2>0, <1>a, PartFinite
    <2>12. IsFiniteSet(G0) /\ Cardinality(G0) \in Nat
      BY <2>0, <1>a, PartFinite
    <2>13. Cardinality(L0) = IF c >= 4 THEN 1 ELSE 0
      <3>1. Cardinality(L0) = IF from + 3 \in from .. f - 1 THEN 1 ELSE 0
        BY <2>0, <1>a, OneOrNone
      <3>2. from + 3 \in from .. f - 1 <=> c >= 4
        BY <1>2, <1>a
      <3> QED
        BY <3>1, <3>2
    <2>14. Cardinality(G0) = IF p < 4 /\ p + c >= 4 THEN 1 ELSE 0
      <3>1. Cardinality(G0) = IF from + 3 - p \in from .. f - 1 THEN 1 ELSE 0
        BY <2>0, <1>a, OneOrNone
      <3>2. from + 3 - p \in from .. f - 1 <=> p < 4 /\ p + c >= 4
        BY <1>2, <1>a, <1>p
      <3> QED
        BY <3>1, <3>2
    <2>15. f = to + 1 => C = {}
      BY <1>2
    <2> HIDE DEF C, L0, G0, L, G
    <2>16. /\ Cardinality(L) = Cardinality(C) + Cardinality(L0) - Cardinality(C \cap L0)
           /\ Cardinality(G) = Cardinality(C) + Cardinality(G0) - Cardinality(C \cap G0)
      BY <2>7, <2>8, <2>10, <2>11, <2>12, FS_Union
    <2>17. Cardinality(C \cap L0) = 0 /\ Cardinality(C \cap G0) = 0
      BY <2>9, FS_EmptySet
    <2>18. Cardinality(L) = Cardinality(C) + Cardinality(L0)
           /\ Cardinality(G) = Cardinality(C) + Cardinality(G0)
      BY <2>10, <2>11, <2>12, <2>16, <2>17
    <2>19. m.value1 = Cardinality(L) /\ m.value1 \in Nat
      BY <1>m, <2>10, <2>11, <2>18
    <2>20. Cardinality(G) = m.value1 + Cardinality(G0) - Cardinality(L0)
      BY ONLY <2>10, <2>11, <2>12, <2>18, <2>19
    <2>21. f = to + 1 => m.value1 <= 1
      <3>1. ASSUME f = to + 1 PROVE m.value1 <= 1
        <4>1. Cardinality(C) = 0
          BY <3>1, <2>15, FS_EmptySet
        <4> QED
          BY <2>13, <2>18, <2>19, <4>1
      <3> QED
        BY <3>1
    <2> QED
      BY <2>13, <2>14, <2>19, <2>20, <2>21
  <1>5. m.value3 \in Nat
    <2>1. to \in from - 1 .. to
      OBVIOUS
    <2> QED
      BY <1>m, <1>s, <2>1
  <1>6. m.value4 \in Nat /\ (m.value4 = 0 \/ m.value4 \in lengths) /\ \A x \in lengths : x <= m.value4
    <2> DEFINE T == {0} \cup lengths
               b == to - from + 1
    <2>1. \A x \in lengths : x \in Nat /\ x <= b
      <3> SUFFICES ASSUME NEW k \in from .. to PROVE str[k] \in Nat /\ str[k] <= b
        OBVIOUS
      <3>1. k \in from - 1 .. to /\ 0 + (k - from + 1) <= b
        OBVIOUS
      <3>2. str[k] \in Nat /\ str[k] <= 0 + (k - from + 1)
        BY <1>s, <3>1
      <3> QED
        BY <3>1, <3>2
    <2>2. b \in Int /\ 0 <= b
      OBVIOUS
    <2>3. m.value4 = Max(T)
      BY <1>m
    <2> HIDE DEF lengths, b
    <2>4. T \in SUBSET Int /\ T # {} /\ (\A x \in T : x <= b) /\ \A x \in T : x \in Nat
      BY <2>1, <2>2
    <2>5. lengths \subseteq T /\ \A x \in T : x = 0 \/ x \in lengths
      OBVIOUS
    <2> HIDE DEF T
    <2>6. Max(T) \in T /\ \A y \in T : Max(T) >= y
      BY <2>2, <2>4, MaxInt
    <2>7. \A y \in lengths : y <= Max(T)
      BY <2>1, <2>4, <2>5, <2>6
    <2> QED
      BY <2>3, <2>4, <2>5, <2>6, <2>7
  <1>7. ASSUME NEW x \in M PROVE x <= p + c \/ x <= m.value4
    <2>1. PICK k \in from .. to : file[k] /\ x = Runs[k]
      OBVIOUS
    <2>2. CASE k < f
      <3>1. x = p + (k - from + 1) /\ k \in Int
        BY <1>3, <2>1, <2>2
      <3> QED
        BY ONLY <1>a, <1>p, <1>2, <2>2, <3>1
    <2>3. CASE ~(k < f)
      <3>1. str[k] = x /\ str[k] \in lengths
        BY <1>3, <2>1, <2>3
      <3> QED
        BY <1>6, <3>1
    <2> QED
      BY <2>2, <2>3
  <1>8. m.value4 <= c \/ m.value4 \in M
    <2>1. CASE m.value4 = 0
      BY <1>2, <2>1
    <2>2. CASE m.value4 \in lengths
      <3>1. PICK k \in from .. to : file[k] /\ m.value4 = str[k]
        BY <2>2
      <3>2. CASE k < f
        <4>1. m.value4 = k - from + 1 /\ k \in Int
          BY <1>3, <3>1, <3>2
        <4>2. m.value4 <= c
          BY ONLY <1>a, <1>2, <3>2, <4>1
        <4> QED
          BY <4>2
      <3>3. CASE ~(k < f)
        BY <1>3, <3>1, <3>3
      <3> QED
        BY <3>2, <3>3
    <2> QED
      BY <1>6, <2>1, <2>2
  <1>9. ASSUME c > 0 PROVE p + c \in M
    <2>1. f - 1 \in from .. to /\ f - 1 < f /\ f - 1 - from + 1 = c
      BY <1>1, <1>2, <1>9
    <2>2. Runs[f - 1] = p + c
      BY <1>3, <2>1
    <2>3. file[f - 1]
      <3>1. f - 1 \in from .. f - 1
        BY <1>2, <2>1
      <3> QED
        BY <1>1, <2>1, <3>1
    <2> QED
      BY <2>1, <2>2, <2>3
  <1>10. ASSUME \A k \in from .. to : file[k]
         PROVE  /\ f = to + 1 /\ c = to - from + 1 /\ m.value3 = to - from + 1
                /\ Runs[to] = p + c /\ \A x \in M : x <= p + c
    <2>1. f = to + 1
      <3>1. ASSUME f <= to PROVE FALSE
        <4>1. f \in from .. to /\ ~(f < f) /\ \A j \in from .. f : j \in from .. to
          BY <1>1, <1>2, <3>1
        <4> QED
          BY <1>1, <1>10, <4>1
      <3> QED
        BY <1>1, <1>2, <3>1
    <2>2. c = to - from + 1
      BY <1>2, <2>1
    <2>3. CASE from <= to
      <3>1. to \in from .. to /\ to < f
        BY <2>1, <2>3
      <3>2. str[to] = to - from + 1 /\ Runs[to] = p + (to - from + 1)
        BY <1>3, <3>1
      <3>3. \A x \in M : x <= p + c
        <4> SUFFICES ASSUME NEW k \in from .. to PROVE Runs[k] <= p + c
          OBVIOUS
        <4>1. k < f /\ k \in Int
          BY <2>1
        <4>2. Runs[k] = p + (k - from + 1)
          BY <1>3, <4>1
        <4> QED
          BY ONLY <1>a, <1>p, <1>2, <4>1, <4>2
      <3> QED
        BY <1>m, <2>1, <2>2, <3>2, <3>3
    <2>4. CASE ~(from <= to)
      <3>1. to = from - 1 /\ c = 0 /\ to - from + 1 = 0
        BY <2>2, <2>4
      <3>2. str[to] = 0
        <4>1. to \in from - 1 .. to /\ 0 + (to - from + 1) = 0
          BY <3>1
        <4>2. str[to] \in Nat /\ str[to] <= 0
          BY <1>s, <4>1
        <4> QED
          BY <4>2
      <3>3. M = {}
        BY <2>4
      <3>4. Runs[to] = p + c
        BY <1>p, <3>1
      <3> QED
        BY <1>m, <2>1, <2>2, <3>1, <3>2, <3>3, <3>4
    <2> QED
      BY <2>3, <2>4
  <1>11. ASSUME ~(\A k \in from .. to : file[k]) PROVE m.value3 = Runs[to]
    <2>1. from <= to /\ to \in from .. to
      BY <1>11
    <2> QED
      BY <1>m, <1>0, <1>11, <2>1
  <1> HIDE DEF c, L, G, lengths
  <1>12. /\ p \in Nat /\ m.value1 \in Nat /\ m.value2 \in Nat /\ m.value3 \in Nat
         /\ m.value4 \in Nat /\ c = m.value2 /\ G = {k \in from .. to : Runs[k] = 4}
    <2>1. c = m.value2
      BY DEF c
    <2>2. G = {k \in from .. to : Runs[k] = 4}
      BY DEF G
    <2>3. m.value2 \in Nat
      BY ONLY <1>2, <2>1
    <2>4. m.value1 \in Nat
      BY ONLY <1>4
    <2>5. m.value3 \in Nat /\ m.value4 \in Nat
      BY ONLY <1>5, <1>6
    <2> QED
      BY ONLY <1>p, <2>1, <2>2, <2>3, <2>4, <2>5
  <1>13. /\ Cardinality({k \in from .. to : Runs[k] = 4}) =
               m.value1 + (IF p < 4 /\ p + m.value2 >= 4 THEN 1 ELSE 0)
                        - (IF m.value2 >= 4 THEN 1 ELSE 0)
         /\ f = to + 1 => m.value1 <= 1
    <2>1. Cardinality(G) = m.value1 + (IF p < 4 /\ p + m.value2 >= 4 THEN 1 ELSE 0)
                                    - (IF m.value2 >= 4 THEN 1 ELSE 0)
      BY <1>4 DEF c
    <2>2. f = to + 1 => m.value1 <= 1
      BY ONLY <1>4
    <2> QED
      BY <2>1, <2>2 DEF G
  <1>14. (\A k \in from .. to : file[k]) =>
               /\ m.value2 = to - from + 1 /\ m.value3 = to - from + 1 /\ m.value1 <= 1
               /\ Runs[to] = p + m.value2 /\ \A x \in M : x <= p + m.value2
    BY ONLY <1>10, <1>12, <1>13
  <1>15. ~(\A k \in from .. to : file[k]) => m.value3 = Runs[to]
    BY ONLY <1>11
  <1>16. /\ m.value2 > 0 => p + m.value2 \in M
         /\ \A x \in M : x <= p + m.value2 \/ x <= m.value4
         /\ m.value4 <= m.value2 \/ m.value4 \in M
    BY ONLY <1>7, <1>8, <1>9, <1>12
  <1> QED
    BY ONLY <1>12, <1>13, <1>14, <1>15, <1>16

\* The parts of the file follow each other, and only a part at the beginning is empty.
LEMMA PartsJoin ==
  ASSUME file_size \in Nat, numberOfThreads \in Nat \ {0}, NEW t \in 1 .. numberOfThreads,
         NEW from, from = RangeOf(t).value1, NEW next, next = RangeOf(t).value2 + 1
  PROVE  /\ from \in 0 .. file_size /\ next \in from .. file_size
         /\ t = 1 => from = 0
         /\ t < numberOfThreads => RangeOf(t + 1).value1 = next
         /\ t = numberOfThreads => next = file_size
         /\ next = from => from = 0
  <1> DEFINE range == file_size \div numberOfThreads
             n == numberOfThreads
  <1>1. range \in Nat /\ n * range <= file_size /\ n \in Nat /\ 1 <= n /\ t \in Nat /\ 1 <= t
        /\ (t < n => t + 1 <= n)
    OBVIOUS
  <1>2. from = (t - 1) * range /\ next = IF t < n THEN t * range ELSE file_size
    <2>1. t * range - 1 + 1 = t * range /\ file_size - 1 + 1 = file_size
      BY <1>1
    <2> QED
      BY <2>1 DEF RangeOf
  <1>3. t < n => RangeOf(t + 1).value1 = t * range
    <2>1. t + 1 - 1 = t
      BY <1>1
    <2> QED
      BY <2>1 DEF RangeOf
  <1> HIDE DEF range, n
  <1>4. t * range = (t - 1) * range + range /\ (t - 1) * range \in Nat /\ t * range \in Nat
    BY ONLY <1>1
  <1>5. t \in 1 .. n /\ file_size \in Nat
    BY DEF n
  <1>6. t * range <= n * range
    BY ONLY <1>1, <1>5
  <1>7. from \in 0 .. file_size /\ next \in from .. file_size
    BY ONLY <1>1, <1>2, <1>4, <1>5, <1>6
  <1>8. t = 1 => from = 0
    BY ONLY <1>1, <1>2
  <1>9. next = from => from = 0
    <2>1. ASSUME next = from PROVE range = 0
      BY ONLY <1>1, <1>2, <1>4, <1>5, <1>6, <2>1
    <2>2. range = 0 => (t - 1) * range = 0
      BY ONLY <1>1
    <2> QED
      BY ONLY <1>2, <2>1, <2>2
  <1>10. /\ t < n => RangeOf(t + 1).value1 = next
         /\ t = n => next = file_size
    BY ONLY <1>1, <1>2, <1>3
  <1> QED
    BY <1>7, <1>8, <1>9, <1>10 DEF n

\* What merging the reply m of part t, the characters from .. next - 1, may rely on; the
\* string before the part is p characters long.
PartOK(t, from, next, p, m) ==
    /\ p \in Nat /\ m.value1 \in Nat /\ m.value2 \in Nat /\ m.value3 \in Nat /\ m.value4 \in Nat
    /\ CountTo(from) \in Nat
    /\ CountTo(next) = CountTo(from) + (m.value1 + (IF p < 4 /\ p + m.value2 >= 4 THEN 1 ELSE 0)
                                                 - (IF m.value2 >= 4 THEN 1 ELSE 0))
    /\ LengthsTo(next) = LengthsTo(from) \cup LengthsIn(from, next - 1)
    /\ IsWhole(t) => Runs[next - 1] = p + m.value2 /\ \A x \in LengthsIn(from, next - 1) : x <= p + m.value2
    /\ ~TakenAsWhole(m) => m.value3 = Runs[next - 1]
    /\ m.value2 > 0 => p + m.value2 \in LengthsIn(from, next - 1)
    /\ \A x \in LengthsIn(from, next - 1) : x <= p + m.value2 \/ x <= m.value4
    /\ m.value4 <= m.value2 \/ m.value4 \in LengthsIn(from, next - 1)
    /\ p = 0 \/ p \in LengthsTo(from)

\* Every part of the file, with the reply of its worker, is as PartOK says.
LEMMA PartMerged ==
  ASSUME file_size \in Nat, numberOfThreads \in Nat \ {0}, NEW t \in 1 .. numberOfThreads,
         NEW from, from = RangeOf(t).value1, NEW next, next = RangeOf(t).value2 + 1,
         NEW p, p = Runs[from - 1], NEW m, m = Summary(RangeOf(t))
  PROVE  PartOK(t, from, next, p, m)
  <1> DEFINE r == RangeOf(t)
             to == next - 1
             M == LengthsIn(from, to)
  <1>1. from \in 0 .. file_size /\ next \in from .. file_size /\ (next = from => from = 0)
    BY PartsJoin
  <1>2. r.value1 = from /\ r.value2 = to /\ m = Summary(r)
    <2>1. r.value2 \in Nat \cup {-1}
      BY RangeType DEF Ranges
    <2> QED
      BY <2>1
  <1>3. to \in Int /\ from - 1 <= to /\ to <= file_size - 1 /\ to + 1 = next
    BY <1>1
  <1>4. IsWhole(t) <=> \A k \in from .. to : file[k]
    BY <1>2 DEF IsWhole
  <1>5. M = LengthsIn(from, to)
    OBVIOUS
  <1>6. /\ CountTo(next) = CountTo(from) + CountIn(from, to)
        /\ LengthsTo(next) = LengthsTo(from) \cup M
        /\ CountTo(from) \in Nat
    BY <1>1, <1>5, CountSplit DEF CountIn, LengthsIn
  <1> HIDE DEF to, r, M
  <1>7. /\ p \in Nat /\ m.value1 \in Nat /\ m.value2 \in Nat /\ m.value3 \in Nat /\ m.value4 \in Nat
        /\ CountIn(from, to) =
              m.value1 + (IF p < 4 /\ p + m.value2 >= 4 THEN 1 ELSE 0)
                       - (IF m.value2 >= 4 THEN 1 ELSE 0)
        /\ (\A k \in from .. to : file[k]) =>
              /\ m.value2 = to - from + 1 /\ m.value3 = to - from + 1 /\ m.value1 <= 1
              /\ Runs[to] = p + m.value2 /\ \A x \in M : x <= p + m.value2
        /\ ~(\A k \in from .. to : file[k]) => m.value3 = Runs[to]
        /\ m.value2 > 0 => p + m.value2 \in M
        /\ \A x \in M : x <= p + m.value2 \/ x <= m.value4
        /\ m.value4 <= m.value2 \/ m.value4 \in M
    <2>1. file_size \in Nat /\ p = Runs[from - 1] /\ from \in 0 .. file_size
      BY <1>1
    <2> QED
      BY ONLY <2>1, <1>2, <1>3, <1>5, PartFacts
  <1>8. CountTo(next) = CountTo(from) + (m.value1 + (IF p < 4 /\ p + m.value2 >= 4 THEN 1 ELSE 0)
                                                  - (IF m.value2 >= 4 THEN 1 ELSE 0))
    BY ONLY <1>6, <1>7
  <1>9. ASSUME ~TakenAsWhole(m) PROVE m.value3 = Runs[to]
    <2>1. CASE ~(\A k \in from .. to : file[k])
      BY ONLY <1>7, <2>1
    <2>2. CASE \A k \in from .. to : file[k]
      <3>1. /\ m.value2 = to - from + 1 /\ m.value3 = to - from + 1 /\ m.value1 <= 1
            /\ Runs[to] = p + m.value2
        BY ONLY <1>7, <2>2
      <3>2. m.value2 = 0
        BY <1>9, <3>1 DEF TakenAsWhole
      <3>3. next = from /\ m.value3 = 0
        BY ONLY <1>1, <1>3, <3>1, <3>2
      <3>4. p = 0
        <4>1. from - 1 = -1 /\ -1 \in -1 .. file_size - 1 /\ -1 < 0
          BY <1>1, <3>3
        <4>2. Runs[-1] = 0
          BY <4>1, RunsDef
        <4> QED
          BY <4>1, <4>2
      <3> QED
        BY ONLY <3>1, <3>2, <3>3, <3>4
    <2> QED
      BY <2>1, <2>2
  <1>10. p = 0 \/ p \in LengthsTo(from)
    <2>1. CASE from = 0
      <3>1. from - 1 = -1 /\ -1 \in -1 .. file_size - 1 /\ -1 < 0
        BY <1>1, <2>1
      <3> QED
        BY <3>1, RunsDef
    <2>2. CASE from # 0
      <3>1. from - 1 \in 0 .. from - 1 /\ from - 1 \in -1 .. file_size - 1 /\ ~(from - 1 < 0)
        BY <1>1, <2>2
      <3>2. Runs[from - 1] = IF file[from - 1] THEN Runs[from - 1 - 1] + 1 ELSE 0
        BY <3>1, RunsDef
      <3>3. CASE ~file[from - 1]
        BY <3>2, <3>3
      <3>4. CASE file[from - 1]
        BY <3>1, <3>4 DEF LengthsTo
      <3> QED
        BY <3>3, <3>4
    <2> QED
      BY <2>1, <2>2
  <1>11. /\ IsWhole(t) => Runs[to] = p + m.value2 /\ \A x \in M : x <= p + m.value2
    BY ONLY <1>4, <1>7
  <1>12. to = next - 1
    BY DEF to
  <1>13. IsWhole(t) => Runs[next - 1] = p + m.value2 /\ \A x \in M : x <= p + m.value2
    BY ONLY <1>11, <1>12
  <1>14. ~TakenAsWhole(m) => m.value3 = Runs[next - 1]
    BY <1>9, <1>12
  <1> QED
    BY ONLY <1>6, <1>7, <1>8, <1>10, <1>13, <1>14 DEF M, to, PartOK

\* The longest string after merging part t is the longest one up to its end.
LEMMA LengthMerged ==
  ASSUME file_size \in Nat, numberOfThreads \in Nat \ {0}, NEW t \in 1 .. numberOfThreads,
         NEW from, from = RangeOf(t).value1, NEW next, next = RangeOf(t).value2 + 1,
         NEW p, p = Runs[from - 1], NEW m, m = Summary(RangeOf(t)),
         TakenAsWhole(m) => IsWhole(t),
         NEW old \in {-1, 0} \cup LengthsTo(from), \A x \in LengthsTo(from) : x <= old,
         NEW new, new = IF TakenAsWhole(m) THEN Longest(p + m.value2, old)
                        ELSE Longest(Longest(p + m.value2, m.value4), old)
  PROVE  Greatest(new, {0} \cup LengthsTo(next))
  <1> DEFINE M == LengthsIn(from, next - 1)
             F == LengthsTo(from)
             N == LengthsTo(next)
             c == m.value2
             v == m.value4
             j == p + c
  <1>1. /\ p \in Nat /\ m.value2 \in Nat /\ m.value4 \in Nat
        /\ LengthsTo(next) = LengthsTo(from) \cup M
        /\ IsWhole(t) => \A x \in M : x <= p + m.value2
        /\ m.value2 > 0 => p + m.value2 \in M
        /\ \A x \in M : x <= p + m.value2 \/ x <= m.value4
        /\ m.value4 <= m.value2 \/ m.value4 \in M
        /\ p = 0 \/ p \in LengthsTo(from)
    <2>1. PartOK(t, from, next, p, m)
      BY PartMerged
    <2> QED
      BY ONLY <2>1 DEF PartOK, M
  <1>2. from \in 0 .. file_size /\ next \in 0 .. file_size
    BY PartsJoin
  <1>3. (\A x \in F : x \in Nat) /\ (\A x \in N : x \in Nat)
    BY <1>2, LengthsType
  <1>4. /\ p \in Nat /\ c \in Nat /\ v \in Nat /\ N = F \cup M
        /\ (IsWhole(t) => \A x \in M : x <= j)
        /\ (c > 0 => j \in M) /\ (\A x \in M : x <= j \/ x <= v)
        /\ (v <= c \/ v \in M) /\ (p = 0 \/ p \in F)
        /\ new = IF TakenAsWhole(m) THEN Longest(j, old) ELSE Longest(Longest(j, v), old)
        /\ old \in {-1, 0} \cup F /\ (\A x \in F : x <= old)
    BY <1>1
  <1>5. j \in Nat /\ c <= j /\ (c = 0 => j = p)
    BY ONLY <1>4
  <1> HIDE DEF M, F, N, c, v, j
  <1>6. old \in Nat \cup {-1} /\ (old \in N \/ old \in {-1, 0})
    BY ONLY <1>3, <1>4
  <1>7. j \in {0} \cup N
    BY ONLY <1>4, <1>5
  <1>8. v <= j \/ v \in N
    BY ONLY <1>4, <1>5
  <1>9. CASE TakenAsWhole(m)
    <2>1. new = Longest(j, old) /\ \A x \in M : x <= j
      BY <1>4, <1>9
    <2>2. new \in Nat /\ j <= new /\ old <= new /\ (new = j \/ new = old)
      BY ONLY <1>5, <1>6, <2>1 DEF Longest
    <2>3. \A x \in N : x <= new
      <3> SUFFICES ASSUME NEW x \in N PROVE x <= new
        OBVIOUS
      <3>1. x \in Nat /\ (x <= old \/ x <= j)
        BY <1>3, <1>4, <2>1
      <3> QED
        BY ONLY <1>5, <1>6, <2>2, <3>1
    <2>4. new \in {0} \cup N
      BY ONLY <1>6, <1>7, <2>2
    <2>5. \A x \in {0} \cup N : x <= new
      BY ONLY <2>2, <2>3
    <2> QED
      BY <2>4, <2>5 DEF Greatest, N
  <1>10. CASE ~TakenAsWhole(m)
    <2>1. new = Longest(Longest(j, v), old)
      BY <1>4, <1>10
    <2>2. new \in Nat /\ j <= new /\ v <= new /\ old <= new
          /\ (new = j \/ new = old \/ (new = v /\ ~(v <= j)))
      BY ONLY <1>4, <1>5, <1>6, <2>1 DEF Longest
    <2>3. \A x \in N : x <= new
      <3> SUFFICES ASSUME NEW x \in N PROVE x <= new
        OBVIOUS
      <3>1. x \in Nat /\ (x <= old \/ x <= j \/ x <= v)
        BY <1>3, <1>4
      <3>2. j \in Nat /\ v \in Nat
        BY <1>4, <1>5
      <3> QED
        BY ONLY <3>2, <1>6, <2>2, <3>1
    <2>4. new \in {0} \cup N
      BY ONLY <1>6, <1>7, <1>8, <2>2
    <2>5. \A x \in {0} \cup N : x <= new
      BY ONLY <2>2, <2>3
    <2> QED
      BY <2>4, <2>5 DEF Greatest, N
  <1> QED
    BY <1>9, <1>10

\* Merging a part that is not taken for a piece of a string adds its strings, each once.
LEMMA CountMerged ==
  ASSUME NEW t, NEW from, NEW next, NEW m, PartOK(t, from, next, previous_end, m),
         num_strings = CountTo(from)
  PROVE  num_strings + m.value1 + CountJoined(m.value2) = CountTo(next)
  <1> DEFINE c == m.value2
             n == m.value1
             p == previous_end
             a == IF p < 4 /\ p + c >= 4 THEN 1 ELSE 0
             b == IF c >= 4 THEN 1 ELSE 0
             d == CountJoined(m.value2)
  <1>1. p \in Nat /\ n \in Nat /\ c \in Nat /\ num_strings \in Nat
        /\ CountTo(next) = num_strings + (n + a - b)
    BY DEF PartOK
  <1>2. a \in Int /\ b \in Int /\ d \in Int /\ d = a - b
    BY <1>1 DEF CountJoined
  <1> HIDE DEF a, b, c, d, n, p
  <1>3. num_strings + n + d = CountTo(next)
    BY ONLY <1>1, <1>2
  <1> QED
    BY <1>3 DEF d, n

\* The strings of the file and its parts are those of the input.
LEMMA CountUnchanged ==
  ASSUME UNCHANGED inputVars
  PROVE  /\ Runs' = Runs /\ \A n : CountTo(n)' = CountTo(n) /\ LengthsTo(n)' = LengthsTo(n)
         /\ NoneTaken' = NoneTaken /\ TakenAreWhole' = TakenAreWhole
         /\ file_size' = file_size /\ way' = way /\ numberOfThreads' = numberOfThreads
         /\ \A t : RangeOf(t)' = RangeOf(t)
  BY DEF inputVars, Runs, CountTo, LengthsTo, NoneTaken, TakenAreWhole, Parts, IsWhole, RangeOf,
         file_size, way, numberOfThreads, Summary, TakenAsWhole

\* Nothing is counted before main scans, reads or merges.
LEMMA CountInit == Init => CountInv
  BY DEF Init, CountInv, Counted, Fresh, MergedCount, MergedLength, Merging

\* A step that counts nothing keeps what has been counted.
LEMMA CountKept ==
  ASSUME CountInv, UNCHANGED <<inputVars, i, readVars, countVars, mergeVars>>,
         mpc' = mpc \/ mpc' = "exit"
  PROVE  CountInv'
  <1>1. CASE mpc' = "exit"
    BY <1>1 DEF CountInv, Counted, MergedCount, MergedLength, Merging
  <1>2. CASE mpc' = mpc
    <2>1. /\ Runs' = Runs /\ \A n : CountTo(n)' = CountTo(n) /\ LengthsTo(n)' = LengthsTo(n)
          /\ NoneTaken' = NoneTaken /\ TakenAreWhole' = TakenAreWhole
          /\ file_size' = file_size /\ way' = way /\ numberOfThreads' = numberOfThreads
          /\ \A t : RangeOf(t)' = RangeOf(t)
      BY CountUnchanged
    <2>2. /\ i' = i /\ pos' = pos /\ str_length' = str_length /\ num_strings' = num_strings
          /\ max_length' = max_length /\ previous_end' = previous_end
          /\ maxLengthEnd' = maxLengthEnd /\ cutShort' = cutShort
      BY DEF readVars, countVars, mergeVars
    <2>3. mergedTo' = mergedTo /\ Merging' = Merging
      BY <1>2, <2>1, <2>2 DEF mergedTo, Merging
    <2>4. Counted'
      BY <1>2, <2>1, <2>2 DEF CountInv, Counted, Fresh, CountedTo, Greatest
    <2>5. MergedCount'
      BY <1>2, <2>1, <2>2, <2>3 DEF CountInv, MergedCount
    <2>6. MergedLength'
      BY <1>2, <2>1, <2>2, <2>3 DEF CountInv, MergedLength, Greatest
    <2> QED
      BY <2>4, <2>5, <2>6 DEF CountInv
  <1> QED
    BY <1>1, <1>2

\* Before the first character there is no string, and nothing is counted.
LEMMA CountNone ==
  ASSUME file_size \in Nat
  PROVE  Runs[-1] = 0 /\ CountTo(0) = 0 /\ LengthsTo(0) = {}
  <1>1. -1 \in -1 .. file_size - 1 /\ -1 < 0 /\ 0 .. 0 - 1 = {}
    OBVIOUS
  <1>2. Runs[-1] = 0
    BY <1>1, RunsDef
  <1>3. LengthsTo(0) = {}
    BY <1>1 DEF LengthsTo
  <1>4. {k \in 0 .. 0 - 1 : Runs[k] = 4} = {}
    BY <1>1
  <1>5. CountTo(0) = 0
    BY <1>4, FS_EmptySet DEF CountTo
  <1> QED
    BY <1>2, <1>3, <1>5

\* A read, or the scan of the map, goes on with the count where it stood.
LEMMA ScanOnCounts ==
  ASSUME file_size \in Nat, NEW d \in 0 .. file_size, NEW cnt \in Nat, d + cnt <= file_size,
         NEW to \in Int, cnt - 1 <= to, NEW chars,
         Shows(chars, d, cnt, to),
         str_length \in Nat, str_length = Runs[d - 1], CountedTo(d),
         ScanOn(0, to, chars)
  PROVE  /\ CountIs(num_strings', max_length', d + cnt)
         /\ cnt > 0 /\ cnt - 1 = to => str_length' = Runs[d + cnt - 1]
  <1> DEFINE s == Scan(str_length, num_strings, max_length, 0, to, chars)
  <1>1. str_length' = s.len /\ num_strings' = s.num /\ max_length' = s.max
    BY DEF ScanOn
  <1>2. CountIs(num_strings, max_length, d)
    BY DEF CountedTo, CountIs
  <1>3. s = Scan(str_length, num_strings, max_length, 0, to, chars)
    OBVIOUS
  <1> HIDE DEF s
  <1>4. ScanRight(s, d, cnt, to)
    BY <1>2, <1>3, ScanCounts
  <1> QED
    BY ONLY <1>1, <1>4 DEF ScanRight

\* Every step keeps the count: it is that of the characters scanned, read or merged.
LEMMA CountPreserved == Inv /\ Inv' /\ CountInv /\ [Next]_vars => CountInv'
  <1> SUFFICES ASSUME Inv, Inv', CountInv, [Next]_vars PROVE CountInv'
    OBVIOUS
  <1>t. TypeOK /\ Control /\ file_size \in Nat /\ str_length \in Nat /\ pos \in 0 .. file_size
        /\ (ArgsOK => BUFSIZE \in 1 .. MAXBUF) /\ BUFSIZE \in Int
        /\ file \in [0 .. file_size - 1 -> BOOLEAN]
    BY ArgsFacts DEF Inv, TypeOK
  <1>i. UNCHANGED inputVars
    BY DEF Next, Main, RejectArgs, Open, OpenFails, regular_read, read_fails, mmap_regular_read, CreateThread,
           CreateThreadFails, SendRange, JoinThread, Merge, Worker, RecvRange, ScanPart, Reply, vars
  <1>u. /\ Runs' = Runs /\ \A n : CountTo(n)' = CountTo(n) /\ LengthsTo(n)' = LengthsTo(n)
        /\ NoneTaken' = NoneTaken /\ TakenAreWhole' = TakenAreWhole
        /\ file_size' = file_size /\ way' = way /\ numberOfThreads' = numberOfThreads
        /\ \A t : RangeOf(t)' = RangeOf(t)
    BY <1>i, CountUnchanged
  <1>z. Runs[-1] = 0 /\ CountTo(0) = 0 /\ LengthsTo(0) = {}
    BY <1>t, CountNone
  <1>f. ASSUME Fresh PROVE CountedTo(0) /\ str_length = Runs[0 - 1]
    <2>1. 0 - 1 = -1 /\ {-1} \cup LengthsTo(0) = {-1}
      BY <1>z
    <2>2. Greatest(-1, {-1})
      BY DEF Greatest
    <2> QED
      BY <1>f, <1>z, <2>1, <2>2 DEF Fresh, CountedTo
  <1>k. ASSUME UNCHANGED <<inputVars, i, readVars, countVars, mergeVars>>, mpc' = mpc \/ mpc' = "exit"
        PROVE  CountInv'
    BY <1>k, CountKept
  <1>1. CASE RejectArgs
    BY <1>1, <1>k DEF RejectArgs
  <1>2. CASE OpenFails
    BY <1>2, <1>k DEF OpenFails
  <1>3. CASE CreateThreadFails
    BY <1>3, <1>k DEF CreateThreadFails
  <1>4. CASE Open
    <2>1. Fresh /\ Fresh'
      BY <1>4 DEF Open, CountInv, Counted, Fresh, readVars, countVars, mergeVars
    <2>2. mpc' \in {"read", "scan", "create", "exit"}
      BY <1>4 DEF Open
    <2>3. CountedTo(0)' /\ str_length' = Runs'[0 - 1]
      <3>1. /\ num_strings' = num_strings /\ max_length' = max_length
            /\ str_length' = str_length
        BY <1>4 DEF Open, countVars
      <3> QED
        BY <1>f, <1>u, <2>1, <3>1 DEF CountedTo, Greatest
    <2>4. pos' = 0
      BY <2>1 DEF Fresh
    <2> QED
      BY <2>1, <2>2, <2>3, <2>4
         DEF CountInv, Counted, MergedCount, MergedLength, Merging, CountedTo, Greatest
  <1>5. CASE mmap_regular_read
    <2>1. mpc = "scan" /\ mpc' = "done" /\ Fresh /\ way = "mmap" /\ ScanOn(0, file_size - 1, file)
      BY <1>5, <1>t DEF mmap_regular_read, CountInv, Counted, Control
    <2>2. /\ 0 \in 0 .. file_size /\ 0 + file_size <= file_size /\ file_size - 1 \in Int
          /\ file_size - 1 <= file_size - 1 /\ Shows(file, 0, file_size, file_size - 1)
          /\ 0 + file_size = file_size
      BY <1>t DEF Shows
    <2>3. CountedTo(0) /\ str_length = Runs[0 - 1]
      BY <1>f, <2>1
    <2>4. CountIs(num_strings', max_length', 0 + file_size)
      BY <1>t, <2>1, <2>2, <2>3, ScanOnCounts
    <2>5. CountedTo(file_size)'
      BY <1>u, <2>2, <2>4 DEF CountedTo, CountIs, Greatest
    <2> QED
      BY <1>u, <2>1, <2>5
         DEF CountInv, Counted, MergedCount, MergedLength, Merging, CountedTo, Greatest
  <1>6. CASE regular_read /\ ~cutShort'
    <2>0. /\ mpc = "read" /\ way = "buffer" /\ BUFSIZE \in 1 .. MAXBUF /\ MAXBUF \in Nat
          /\ cutShort' \in BOOLEAN /\ cutShort \in BOOLEAN
      BY <1>6, <1>t, Proj4Assumption DEF regular_read, Control, TypeOK, Inv
    <2>c. PICK cnt \in 0 .. BUFSIZE :
            LET buf == [k \in 0 .. BUFSIZE - 1 |-> k < cnt /\ file[pos + k]]
            IN  /\ pos + cnt <= file_size /\ (cnt = 0 => pos = file_size)
                /\ IF cnt > 0 THEN ScanOn(0, BUFSIZE - 1, buf) /\ mpc' = mpc
                              ELSE mpc' = "done" /\ UNCHANGED countVars
                /\ pos' = pos + cnt
                /\ cutShort' = (cutShort \/ (cnt < BUFSIZE /\ pos + cnt < file_size))
      BY <1>6 DEF regular_read
    <2> DEFINE buf == [k \in 0 .. BUFSIZE - 1 |-> k < cnt /\ file[pos + k]]
               e == pos + cnt
    <2>s. ~cutShort /\ (e < file_size => cnt = BUFSIZE)
      <3>1. cutShort' = (cutShort \/ (cnt < BUFSIZE /\ pos + cnt < file_size))
        BY <2>c
      <3>2. ~cutShort /\ ~(cnt < BUFSIZE /\ pos + cnt < file_size)
        BY <1>6, <3>1, Zenon
      <3>3. pos + cnt < file_size => cnt = BUFSIZE
        BY <1>t, <2>0, <2>c, <3>2
      <3> QED
        BY <3>2, <3>3
    <2>1. mpc = "read" /\ way = "buffer" /\ BUFSIZE \in 1 .. MAXBUF /\ MAXBUF \in Nat
          /\ CountedTo(pos) /\ (pos < file_size => str_length = Runs[pos - 1])
      BY <2>0, <2>s DEF CountInv, Counted
    <2>2. /\ pos' = e
          /\ \/ cnt > 0 /\ ScanOn(0, BUFSIZE - 1, buf) /\ mpc' = mpc
             \/ ~(cnt > 0) /\ mpc' = "done" /\ UNCHANGED countVars
      BY <2>c
    <2>3. /\ cnt \in Nat /\ e <= file_size /\ cnt - 1 <= BUFSIZE - 1 /\ BUFSIZE - 1 \in Int
          /\ (cnt = 0 => e = file_size /\ pos = file_size)
          /\ (cnt > 0 => pos < file_size) /\ (e < file_size => cnt - 1 = BUFSIZE - 1)
      BY <1>t, <2>c, <2>0, <2>s
    <2>4. Shows(buf, pos, cnt, BUFSIZE - 1)
      <3>1. \A k \in 0 .. cnt - 1 : k \in 0 .. BUFSIZE - 1 /\ k < cnt
        BY <2>1, <2>3
      <3>2. \A k \in cnt .. BUFSIZE - 1 : k \in 0 .. BUFSIZE - 1 /\ ~(k < cnt)
        BY <2>1, <2>3
      <3> QED
        BY <3>1, <3>2 DEF Shows
    <2> HIDE DEF buf
    <2>5. CASE cnt > 0
      <3>1. /\ CountIs(num_strings', max_length', pos + cnt)
            /\ cnt > 0 /\ cnt - 1 = BUFSIZE - 1 => str_length' = Runs[pos + cnt - 1]
        <4>1. ScanOn(0, BUFSIZE - 1, buf) /\ pos + cnt <= file_size /\ str_length = Runs[pos - 1]
          BY <2>1, <2>2, <2>3, <2>5
        <4>2. file_size \in Nat /\ pos \in 0 .. file_size /\ str_length \in Nat
          BY <1>t
        <4>3. CountedTo(pos)
          BY <2>1
        <4>4. CountIs(num_strings', max_length', pos + cnt)
          BY ONLY <2>3, <2>4, <4>1, <4>2, <4>3, ScanOnCounts
        <4>5. cnt > 0 /\ cnt - 1 = BUFSIZE - 1 => str_length' = Runs[pos + cnt - 1]
          BY ONLY <2>3, <2>4, <4>1, <4>2, <4>3, ScanOnCounts
        <4> QED
          BY <4>4, <4>5
      <3>2. CountedTo(pos)' /\ (pos' < file_size' => str_length' = Runs'[pos' - 1])
        <4>1. CountTo(pos)' = CountTo(e) /\ LengthsTo(pos)' = LengthsTo(e)
          BY <1>i, <2>2 DEF CountTo, LengthsTo, inputVars, Runs, file_size
        <4>2. e < file_size => str_length' = Runs[e - 1]
          <5>1. e < file_size => cnt - 1 = BUFSIZE - 1
            BY ONLY <2>3
          <5>2. cnt > 0 /\ cnt - 1 = BUFSIZE - 1 => str_length' = Runs[pos + cnt - 1]
            BY ONLY <3>1
          <5>3. pos + cnt - 1 = e - 1
            BY <1>t, <2>3
          <5> QED
            BY ONLY <2>5, <5>1, <5>2, <5>3
        <4>3. CountedTo(pos)'
          BY <3>1, <4>1 DEF CountedTo, CountIs, Greatest
        <4> QED
          BY <1>u, <2>2, <4>2, <4>3
      <3>3. mpc' = "read"
        BY <2>1, <2>2, <2>5
      <3> QED
        BY <1>u, <3>2, <3>3 DEF CountInv, Counted, MergedCount, MergedLength, Merging
    <2>6. CASE ~(cnt > 0)
      <3>1. pos = file_size /\ mpc' = "done" /\ UNCHANGED countVars
        BY <2>2, <2>3, <2>6
      <3>2. CountedTo(file_size)'
        <4>1. num_strings = CountTo(file_size) /\ Greatest(max_length, {-1} \cup LengthsTo(file_size))
          BY <2>1, <3>1 DEF CountedTo
        <4> QED
          BY <1>u, <3>1, <4>1 DEF CountedTo, countVars, Greatest
      <3> QED
        BY <1>u, <2>1, <3>1, <3>2 DEF CountInv, Counted, MergedCount, MergedLength, Merging
    <2> QED
      BY <2>5, <2>6
  <1>r. CASE read_fails /\ ~cutShort'
    <2>1. /\ mpc = "read" /\ mpc' = "done" /\ way = "buffer" /\ UNCHANGED countVars
          /\ ~cutShort /\ pos = file_size
      <3>1. cutShort' = (cutShort \/ pos < file_size)
        BY <1>r DEF read_fails
      <3>2. ~cutShort /\ ~(pos < file_size)
        BY <1>r, <3>1, Zenon
      <3> QED
        BY <1>r, <1>t, <3>2 DEF read_fails, Control
    <2>2. CountedTo(file_size)
      BY <2>1 DEF CountInv, Counted
    <2>3. CountedTo(file_size)'
      BY <1>u, <2>1, <2>2 DEF CountedTo, countVars, Greatest
    <2> QED
      BY <1>u, <2>1, <2>3 DEF CountInv, Counted, MergedCount, MergedLength, Merging
  <1>c. CASE (regular_read \/ read_fails) /\ cutShort'
    <2>1. mpc = "read" /\ mpc' \in {"read", "done"} /\ way = "buffer"
      BY <1>c, <1>t DEF regular_read, read_fails, Control
    <2> QED
      BY <1>c, <1>u, <2>1 DEF CountInv, Counted, MergedCount, MergedLength, Merging
  <1>7. ASSUME NEW at \in {"create", "send", "join"}, NEW next, Loop(at, next),
               UNCHANGED <<readVars, countVars, mergeVars>>,
               next = "send" \/ next = "join" \/ (at = "join" /\ next = "merge")
        PROVE  CountInv'
    <2>1. mpc = at /\ Fresh
      BY <1>7 DEF CountInv, Counted, Loop
    <2>2. Fresh'
      BY <1>7, <2>1 DEF Fresh, readVars, countVars, mergeVars
    <2>3. /\ i \in Int /\ 1 <= i /\ way = "threads"
          /\ \/ mpc' = at /\ i' = i + 1 /\ i < numberOfThreads
             \/ mpc' = next /\ i' = 1 /\ i = numberOfThreads
      BY <1>7, <1>t, LoopFacts
    <2>4. CASE mpc' \in {"create", "send", "join"}
      BY <2>2, <2>4 DEF CountInv, Counted, MergedCount, MergedLength, Merging
    <2>5. CASE mpc' = "merge"
      <3>1. i' = 1 /\ i = numberOfThreads
        BY <1>7, <2>3, <2>5
      <3>2. mergedTo' = 0
        <4>1. numberOfThreads \in Nat \ {0} /\ 1 \in 1 .. numberOfThreads
          BY <2>3, <3>1
        <4>2. RangeOf(1).value1 = 0
          BY <1>t, <4>1, PartsJoin
        <4>3. RangeOf(1)' = RangeOf(1)
          BY <1>u
        <4> QED
          BY <2>5, <3>1, <4>2, <4>3 DEF mergedTo
      <3>3. num_strings' = 0 /\ previous_end' = 0 /\ maxLengthEnd' = 0 /\ max_length' = -1
        BY <2>2 DEF Fresh
      <3>4. CountTo(mergedTo)' = 0 /\ Runs'[mergedTo' - 1] = 0
        <4>1. CountTo(mergedTo)' = CountTo(0)
          BY <1>i, <3>2 DEF CountTo, Runs, file_size, inputVars
        <4>2. 0 - 1 = -1
          OBVIOUS
        <4> QED
          BY <1>u, <1>z, <3>2, <4>1, <4>2
      <3> QED
        BY <2>5, <3>1, <3>3, <3>4 DEF CountInv, Counted, MergedCount, MergedLength, Merging
    <2> QED
      BY <1>7, <2>3, <2>4, <2>5
  <1>8. CASE CreateThread \/ SendRange \/ JoinThread
    <2>1. CASE CreateThread
      BY <2>1, <1>7 DEF CreateThread
    <2>2. CASE SendRange
      BY <2>2, <1>7 DEF SendRange
    <2>3. CASE JoinThread
      BY <2>3, <1>7 DEF JoinThread
    <2> QED
      BY <1>8, <2>1, <2>2, <2>3
  <1>9. CASE Merge
    <2> DEFINE m == Received(i)
               from == RangeOf(i).value1
               next == RangeOf(i).value2 + 1
    <2>1. /\ mpc = "merge" /\ way = "threads" /\ i \in Int /\ 1 <= i
          /\ \/ mpc' = "merge" /\ i' = i + 1 /\ i < numberOfThreads
             \/ mpc' = "done" /\ i' = 1 /\ i = numberOfThreads
      BY <1>9, <1>t, LoopFacts DEF Merge
    <2>2. /\ i \in 1 .. numberOfThreads /\ numberOfThreads \in Nat \ {0}
          /\ m = Summary(RangeOf(i)) /\ m.type = "ALLDONE"
      BY <2>1, FindsReply
    <2>3. MergePart(m)
      BY <1>9, <2>2 DEF Merge
    <2>4. /\ from \in 0 .. file_size /\ next \in from .. file_size
          /\ (i = 1 => from = 0)
          /\ (i < numberOfThreads => RangeOf(i + 1).value1 = next)
          /\ (i = numberOfThreads => next = file_size)
      BY <1>t, <2>2, PartsJoin
    <2>5. mergedTo = from /\ Merging
      BY <2>1 DEF mergedTo, Merging
    <2>6. mergedTo' = next
      <3>1. CASE mpc' = "merge" /\ i' = i + 1 /\ i < numberOfThreads
        <4>1. mergedTo' = RangeOf(i)'.value1
          BY <3>1 DEF mergedTo
        <4>2. RangeOf(i)' = RangeOf(i + 1)
          BY <1>i, <3>1 DEF RangeOf, file_size, numberOfThreads, inputVars
        <4> QED
          BY <2>4, <3>1, <4>1, <4>2
      <3>2. CASE mpc' = "done" /\ i' = 1 /\ i = numberOfThreads
        BY <1>u, <2>4, <3>2 DEF mergedTo
      <3> QED
        BY <2>1, <3>1, <3>2
    <2>7. CountTo(mergedTo)' = CountTo(next) /\ LengthsTo(mergedTo)' = LengthsTo(next)
          /\ Runs'[mergedTo' - 1] = Runs[next - 1]
      BY <1>i, <1>u, <2>6 DEF CountTo, LengthsTo, Runs, file_size, inputVars
    <2>8. PartOK(i, from, next, Runs[from - 1], m)
      BY <1>t, <2>2, PartMerged
    <2>9. Counted'
      BY <1>u, <2>1 DEF Counted
    <2> HIDE DEF m, from, next
    <2>10. ASSUME NoneTaken
           PROVE  num_strings' = CountTo(next) /\ previous_end' = Runs[next - 1]
      <3>1. ~TakenAsWhole(m)
        BY <2>2, <2>10 DEF NoneTaken, Parts
      <3>2. num_strings = CountTo(from) /\ previous_end = Runs[from - 1]
        BY <2>5, <2>10 DEF CountInv, MergedCount
      <3>3. num_strings + m.value1 + CountJoined(m.value2) = CountTo(next)
        BY <2>8, <3>2, CountMerged
      <3>4. m.value3 = Runs[next - 1]
        BY ONLY <2>8, <3>1 DEF PartOK
      <3> QED
        BY ONLY <2>3, <3>1, <3>3, <3>4 DEF MergePart
    <2>11. MergedCount'
      BY <1>u, <2>7, <2>10 DEF MergedCount
    <2>12. ASSUME TakenAreWhole
           PROVE  /\ maxLengthEnd' = Runs[next - 1]
                  /\ Greatest(max_length', {0} \cup LengthsTo(next))
      <3>1. TakenAsWhole(m) => IsWhole(i)
        BY <2>2, <2>12 DEF TakenAreWhole
      <3>2. /\ maxLengthEnd = Runs[from - 1]
            /\ IF i = 1 THEN max_length = -1
               ELSE Greatest(max_length, {0} \cup LengthsTo(from))
        BY <2>1, <2>5, <2>12 DEF CountInv, MergedLength
      <3>3. max_length \in {-1, 0} \cup LengthsTo(from) /\ \A x \in LengthsTo(from) : x <= max_length
        <4>1. CASE i = 1
          BY <1>z, <2>4, <3>2, <4>1
        <4>2. CASE i # 1
          BY <3>2, <4>2 DEF Greatest
        <4> QED
          BY <4>1, <4>2
      <3>4. max_length' = IF TakenAsWhole(m) THEN Longest(maxLengthEnd + m.value2, max_length)
                          ELSE Longest(Longest(maxLengthEnd + m.value2, m.value4), max_length)
        BY ONLY <2>3 DEF MergePart
      <3>5. Greatest(max_length', {0} \cup LengthsTo(next))
        <4>1. file_size \in Nat /\ from = RangeOf(i).value1 /\ next = RangeOf(i).value2 + 1
          BY <1>t DEF from, next
        <4> QED
          BY ONLY <2>2, <3>1, <3>2, <3>3, <3>4, <4>1, LengthMerged
      <3>6. maxLengthEnd' = Runs[next - 1]
        <4>1. CASE TakenAsWhole(m)
          <5>1. Runs[next - 1] = Runs[from - 1] + m.value2
            BY ONLY <2>8, <3>1, <4>1 DEF PartOK
          <5> QED
            BY ONLY <2>3, <3>2, <4>1, <5>1 DEF MergePart
        <4>2. CASE ~TakenAsWhole(m)
          <5>1. m.value3 = Runs[next - 1]
            BY ONLY <2>8, <4>2 DEF PartOK
          <5> QED
            BY ONLY <2>3, <4>2, <5>1 DEF MergePart
        <4> QED
          BY <4>1, <4>2
      <3> QED
        BY <3>5, <3>6
    <2>13. ~(mpc' = "merge" /\ i' = 1)
      BY <2>1
    <2>14. MergedLength'
      BY <1>u, <2>7, <2>12, <2>13 DEF MergedLength, Greatest
    <2> QED
      BY <2>9, <2>11, <2>14 DEF CountInv
  <1>10. CASE \E t \in Workers : Worker(t)
    BY <1>10, <1>k DEF Worker, RecvRange, ScanPart, Reply
  <1>11. CASE UNCHANGED vars
    BY <1>11, <1>k DEF vars
  <1> QED
    BY <1>1, <1>2, <1>3, <1>4, <1>5, <1>6, <1>r, <1>c, <1>8, <1>9, <1>10, <1>11 DEF Next, Main

\* The second inductive invariant holds in every reachable state: the counts are those
\* of the characters read, scanned or merged so far.
THEOREM CountInvariance == Spec => []FullInv
  <1>1. Inv /\ CountInv /\ [Next]_vars => Inv' /\ CountInv'
    BY TypePreserved, ControlPreserved, ExchangePreserved, CountPreserved DEF Inv
  <1> QED
    BY InitInv, CountInit, <1>1, PTL DEF Spec, FullInv

\* regular_read and mmap_regular_read print the number of strings of four characters or
\* more and the length of the longest one, for every file and every size of the
\* buffer, as long as no read returns less than it could: a string that lies over the
\* boundary of a buffer is counted once.
THEOREM SequentialCountsRight == Spec => []SequentialRight
  <1>1. FullInv => SequentialRight
    <2> SUFFICES ASSUME Inv, CountInv, mpc = "done", way \in {"buffer", "mmap"}, ~cutShort
                 PROVE  NumberRight /\ LengthRight
      BY DEF SequentialRight, FullInv
    <2>1. file_size \in Nat /\ DOMAIN file = 0 .. file_size - 1
      BY ArgsFacts DEF Inv
    <2>2. num_strings = CountTo(file_size) /\ Greatest(max_length, {-1} \cup LengthsTo(file_size))
      BY DEF CountInv, Counted, CountedTo
    <2>3. NumberRight
      BY <2>1, <2>2, CountStrings DEF NumberRight
    <2>4. IF Strings = {} THEN max_length = -1 ELSE IsMaximum(max_length)
      BY <2>1, <2>2, LongestString
    <2> QED
      BY <2>3, <2>4 DEF LengthRight
  <1> QED
    BY CountInvariance, <1>1, PTL

\* mmap_read counts a string once that lies over the boundary of two parts, for every
\* file and number of threads, as long as it takes no part for a piece of a longer string.
THEOREM ThreadsCountRight == Spec => []MergedCountRight
  <1>1. FullInv => MergedCountRight
    <2> SUFFICES ASSUME Inv, CountInv, mpc = "done", way = "threads", NoneTaken
                 PROVE  NumberRight
      BY DEF MergedCountRight, FullInv
    <2>1. file_size \in Nat /\ DOMAIN file = 0 .. file_size - 1
      BY ArgsFacts DEF Inv
    <2>2. num_strings = CountTo(file_size)
      BY DEF CountInv, MergedCount, Merging, mergedTo
    <2> QED
      BY <2>1, <2>2, CountStrings DEF NumberRight
  <1> QED
    BY CountInvariance, <1>1, PTL

\* mmap_read finds the length of the longest string, over as many parts as it extends,
\* as long as the parts it takes for a piece of a longer string are one.
THEOREM ThreadsLengthRight == Spec => []MergedLengthRight
  <1>1. FullInv => MergedLengthRight
    <2> SUFFICES ASSUME Inv, CountInv, mpc = "done", way = "threads", TakenAreWhole
                 PROVE  LengthRight
      BY DEF MergedLengthRight, FullInv
    <2>1. file_size \in Nat /\ DOMAIN file = 0 .. file_size - 1
      BY ArgsFacts DEF Inv
    <2>2. Greatest(max_length, {0} \cup LengthsTo(file_size))
      BY DEF CountInv, MergedLength, Merging, mergedTo
    <2>3. IF Strings = {} THEN max_length = 0 ELSE IsMaximum(max_length)
      BY <2>1, <2>2, LongestString
    <2> QED
      BY <2>3 DEF LengthRight
  <1> QED
    BY CountInvariance, <1>1, PTL
=============================================================================

------------------------------- MODULE Proj4 -------------------------------
(***************************************************************************)
(* project4/proj4.cpp: count the strings (runs of printable characters) of *)
(* length 4 or more in a file and find the longest one, in one of three    *)
(* ways: reading through a buffer (regular_read), through a memory map     *)
(* (mmap_regular_read), or with worker threads that each scan a part of    *)
(* the memory map and return four numbers, which main merges (mmap_read).  *)
(*                                                                         *)
(* A file is a function from 0 .. size - 1 to BOOLEAN: whether the         *)
(* character is printable or white space.  Its size fits in an int.        *)
(***************************************************************************)
EXTENDS Integers, FiniteSetsExt, Slots

CONSTANTS MAXTHREAD,   \* most threads accepted
          MAXBUF,      \* largest buffer accepted (8192)
          DEFAULTBUF,  \* size of the buffer if none is given (1024)
          Inputs       \* records: argc, option, number, file

\* What argv[2] is: not there, "mmap", p followed by a number, a number, or
\* anything else.
Options == {"none", "mmap", "p", "digits", "other"}

\* What main sends to a worker, and what the worker returns.
Replies == [type : {"ALLDONE"}, value1 : Nat, value2 : Nat, value3 : Nat, value4 : Nat]
Ranges == [type : {"RANGE"}, value1 : Nat, value2 : Nat \cup {-1}]
Messages == Replies \cup Ranges

ASSUME Proj4Assumption ==
    /\ NoMsg \notin Messages
    /\ MAXTHREAD \in Nat \ {0} /\ MAXBUF \in Nat \ {0} /\ DEFAULTBUF \in 1 .. MAXBUF
    /\ \A in \in Inputs :
         /\ in.argc \in Nat /\ in.option \in Options /\ in.number \in Int
         /\ IsFiniteSet(DOMAIN in.file)
         /\ in.file \in [0 .. Cardinality(DOMAIN in.file) - 1 -> BOOLEAN]

Workers == 1 .. MAXTHREAD
Files == {in.file : in \in Inputs}

VARIABLES argc, option, number, file,  \* the input; never changes
          mpc, i,                      \* where main is; its loop index
          pos,                         \* the offset read has reached
          cutShort,                    \* history: a read returned less than it could
          str_length, num_strings, max_length,
          previous_end, maxLengthEnd,  \* of the part merged last
          wpc, message                 \* each worker: where it is, its msg

inputVars == <<argc, option, number, file>>
readVars == <<pos, cutShort>>
countVars == <<str_length, num_strings, max_length>>
mergeVars == <<previous_end, maxLengthEnd>>
workVars == <<wpc, message>>
vars == <<inputVars, mpc, i, readVars, countVars, mergeVars, workVars, box>>

file_size == Cardinality(DOMAIN file)

\* What the arguments select.
way == IF option = "p" THEN "threads" ELSE IF option = "mmap" THEN "mmap" ELSE "buffer"
numberOfThreads == IF option = "p" THEN number ELSE 1
BUFSIZE == IF option = "digits" THEN number ELSE DEFAULTBUF
-----------------------------------------------------------------------------
(* The loop over characters, the same in all three ways, starting with the  *)
(* counts len, num and max.                                                 *)

\* str_length after each of the characters chars[from] .. chars[to].
StrLength(len, from, to, chars) ==
    LET str[k \in from - 1 .. to] ==
            IF k < from THEN len ELSE IF chars[k] THEN str[k - 1] + 1 ELSE 0
    IN  str

\* The characters chars[from] .. chars[to]: length of the string they end with,
\* strings counted (at their 4th character), the longest one, and the length of
\* the string they begin with.
Scan(len, num, max, from, to, chars) ==
    LET str == StrLength(len, from, to, chars)
    IN  [len |-> str[to],
         num |-> num + Cardinality({k \in from .. to : str[k] = 4}),
         max |-> Max({max} \cup {str[k] : k \in {j \in from .. to : chars[j]}}),
         charsAtBegin |-> Cardinality({k \in from .. to : \A j \in from .. k : chars[j]})]

\* Mutant of Loop: one iteration too many.
LoopOneMore(at, next) ==
    /\ mpc = at
    /\ IF i <= numberOfThreads
          THEN i' = i + 1 /\ UNCHANGED mpc
          ELSE i' = 1 /\ mpc' = next

\* One iteration of a loop of main over the workers 1 .. numberOfThreads.
Loop(at, next) ==
    /\ mpc = at
    /\ IF i < numberOfThreads
          THEN i' = i + 1 /\ UNCHANGED mpc
          ELSE i' = 1 /\ mpc' = next

Init ==
    /\ \E in \in Inputs : /\ argc = in.argc /\ option = in.option
                         /\ number = in.number /\ file = in.file
    /\ mpc = "args" /\ i = 1 /\ pos = 0 /\ cutShort = FALSE
    /\ str_length = 0 /\ num_strings = 0 /\ max_length = -1
    /\ previous_end = 0 /\ maxLengthEnd = 0
    /\ wpc = [t \in Workers |-> "none"] /\ message = [t \in Workers |-> NoMsg]
    /\ box = [b \in 0 .. MAXTHREAD |-> NoMsg]
-----------------------------------------------------------------------------
(* main: arguments and files.  Opening, stat and mmap end the process when  *)
(* they fail; an empty file cannot be mapped.                               *)
ArgsOK ==
    /\ argc \in {2, 3}
    /\ numberOfThreads \in Workers
    /\ BUFSIZE \in 1 .. MAXBUF

RejectArgs ==
    /\ mpc = "args" /\ ~ArgsOK /\ mpc' = "exit"
    /\ UNCHANGED <<inputVars, i, readVars, countVars, mergeVars, workVars, box>>

Open ==
    /\ mpc = "args" /\ ArgsOK
    /\ mpc' = IF way = "buffer" THEN "read"
              ELSE IF file_size = 0 THEN "exit"
              ELSE IF way = "mmap" THEN "scan" ELSE "create"
    /\ UNCHANGED <<inputVars, i, readVars, countVars, mergeVars, workVars, box>>

OpenFails ==
    /\ mpc = "args" /\ ArgsOK /\ mpc' = "exit"
    /\ UNCHANGED <<inputVars, i, readVars, countVars, mergeVars, workVars, box>>

\* Goes on counting with the characters from .. to.
ScanOn(from, to, chars) ==
    LET s == Scan(str_length, num_strings, max_length, from, to, chars)
    IN  str_length' = s.len /\ num_strings' = s.num /\ max_length' = s.max

\* Mutant of regular_read: the buffer is not cleared, and the last read leaves
\* characters of the read before behind its own.
regular_read_dirty ==
    LET cnt == IF file_size - pos < BUFSIZE THEN file_size - pos ELSE BUFSIZE
        buf == [k \in 0 .. BUFSIZE - 1 |->
                  IF k < cnt THEN file[pos + k]
                  ELSE pos >= BUFSIZE /\ file[pos + k - BUFSIZE]]
    IN  /\ mpc = "read"
        /\ IF cnt > 0 THEN ScanOn(0, BUFSIZE - 1, buf) /\ UNCHANGED mpc
                      ELSE mpc' = "done" /\ UNCHANGED countVars
        /\ pos' = pos + cnt
        /\ UNCHANGED <<inputVars, cutShort, i, mergeVars, workVars, box>>

\* One read.  It may return less than the buffer holds, also before the end of the
\* file (a pipe or a terminal).  The loop goes over the whole buffer, which was
\* cleared before: behind the characters read it finds zeroes.
regular_read ==
    /\ mpc = "read"
    /\ \E cnt \in 0 .. BUFSIZE :
          /\ pos + cnt <= file_size /\ (cnt = 0 => pos = file_size)
          /\ LET buf == [k \in 0 .. BUFSIZE - 1 |-> k < cnt /\ file[pos + k]]
             IN  IF cnt > 0 THEN ScanOn(0, BUFSIZE - 1, buf) /\ UNCHANGED mpc
                            ELSE mpc' = "done" /\ UNCHANGED countVars
          /\ pos' = pos + cnt
          /\ cutShort' = (cutShort \/ (cnt < BUFSIZE /\ pos + cnt < file_size))
    /\ UNCHANGED <<inputVars, i, mergeVars, workVars, box>>

\* A read that fails ends the loop as the end of the file does.
read_fails ==
    /\ mpc = "read" /\ mpc' = "done"
    /\ cutShort' = (cutShort \/ pos < file_size)
    /\ UNCHANGED <<inputVars, i, pos, countVars, mergeVars, workVars, box>>

mmap_regular_read ==
    /\ mpc = "scan"
    /\ ScanOn(0, file_size - 1, file)
    /\ mpc' = "done"
    /\ UNCHANGED <<inputVars, i, readVars, mergeVars, workVars, box>>
-----------------------------------------------------------------------------
(* main: mmap_read *)
CreateThread ==
    /\ Loop("create", "send")
    /\ wpc' = [wpc EXCEPT ![i] = "recv"]
    /\ UNCHANGED <<inputVars, readVars, countVars, mergeVars, message, box>>

CreateThreadFails ==
    /\ mpc = "create" /\ mpc' = "exit"
    /\ UNCHANGED <<inputVars, i, readVars, countVars, mergeVars, workVars, box>>

\* The part of worker t: an equal share each, the rest to the last one.
RangeOf(t) ==
    LET range == file_size \div numberOfThreads
        last == IF t < numberOfThreads THEN t * range - 1 ELSE file_size - 1
    IN  [type |-> "RANGE", value1 |-> (t - 1) * range, value2 |-> last]

SendRange ==
    /\ Loop("send", "join")
    /\ SendMsg(i, RangeOf(i))
    /\ UNCHANGED <<inputVars, readVars, countVars, mergeVars, workVars>>

\* Mutant of JoinThread: main does not wait for the worker.
JoinThreadNot ==
    /\ Loop("join", "merge")
    /\ UNCHANGED <<inputVars, readVars, countVars, mergeVars, workVars, box>>

JoinThread ==
    /\ Loop("join", "merge")
    /\ wpc[i] = "finished"
    /\ UNCHANGED <<inputVars, readVars, countVars, mergeVars, workVars, box>>

Longest(a, b) == IF a > b THEN a ELSE b

\* The whole part is taken for a piece of one string.
TakenAsWhole(m) == m.value1 <= 1 /\ m.value2 = m.value3 /\ m.value2 # 0

\* Mutant of CountJoined: a string counted on both sides is counted twice.
CountJoinedDouble(charsAtBegin) ==
    IF previous_end + charsAtBegin >= 4 /\ charsAtBegin < 4 /\ previous_end < 4 THEN 1
    ELSE 0

\* What the string over the boundary adds to the count of the two parts.
CountJoined(charsAtBegin) ==
    IF previous_end + charsAtBegin >= 4 /\ charsAtBegin < 4 /\ previous_end < 4 THEN 1
    ELSE IF previous_end >= 4 /\ charsAtBegin >= 4 THEN -1 ELSE 0

\* Mutant of MergePart: the string over the boundary is not measured.
MergePartNoJoin(m) ==
    IF TakenAsWhole(m)
       THEN /\ maxLengthEnd' = maxLengthEnd + m.value2
            /\ max_length' = Longest(maxLengthEnd + m.value2, max_length)
            /\ num_strings' = num_strings + m.value1 - (IF previous_end >= 4 THEN 1 ELSE 0)
            /\ previous_end' = m.value3
       ELSE /\ maxLengthEnd' = m.value3
            /\ max_length' = Longest(m.value4, max_length)
            /\ num_strings' = num_strings + m.value1 + CountJoined(m.value2)
            /\ previous_end' = m.value3

\* The loop body for the reply m: num_strings, charsAtBegin, charsAtEnd and
\* max_length of the part are its values 1 to 4.
MergePart(m) ==
    IF TakenAsWhole(m)
       THEN /\ maxLengthEnd' = maxLengthEnd + m.value2
            /\ max_length' = Longest(maxLengthEnd + m.value2, max_length)
            /\ num_strings' = num_strings + m.value1 - (IF previous_end >= 4 THEN 1 ELSE 0)
            /\ previous_end' = m.value3
       ELSE /\ maxLengthEnd' = m.value3
            /\ max_length' = Longest(Longest(maxLengthEnd + m.value2, m.value4), max_length)
            /\ num_strings' = num_strings + m.value1 + CountJoined(m.value2)
            /\ previous_end' = m.value3

\* A message of another type is reported and ignored.
Merge ==
    /\ Loop("merge", "done")
    /\ RecvMsg(i)
    /\ IF Received(i).type = "ALLDONE" THEN MergePart(Received(i))
       ELSE maxLengthEnd' = 0 /\ UNCHANGED <<num_strings, max_length, previous_end>>
    /\ UNCHANGED <<inputVars, readVars, str_length, workVars>>

Main ==
    \/ RejectArgs \/ Open \/ OpenFails \/ regular_read \/ read_fails \/ mmap_regular_read
    \/ CreateThread \/ CreateThreadFails \/ SendRange \/ JoinThread \/ Merge
-----------------------------------------------------------------------------
(* sumthread; exit(1) and main's return end the workers too. *)
Goto(t, from, to) ==
    /\ mpc \notin {"exit", "done"}
    /\ wpc[t] = from
    /\ wpc' = [wpc EXCEPT ![t] = to]

RecvRange(t) ==
    /\ Goto(t, "recv", "scan")
    /\ RecvMsg(t)
    /\ message' = [message EXCEPT ![t] = Received(t)]
    /\ mpc' = IF Received(t).type = "RANGE" THEN mpc ELSE "exit"
    /\ UNCHANGED <<inputVars, i, readVars, countVars, mergeVars>>

\* The four numbers of a part.
Summary(m) ==
    LET s == Scan(0, 0, 0, m.value1, m.value2, file)
    IN  [type |-> "ALLDONE", value1 |-> s.num, value2 |-> s.charsAtBegin,
         value3 |-> s.len, value4 |-> s.max]

ScanPart(t) ==
    /\ Goto(t, "scan", "reply")
    /\ message' = [message EXCEPT ![t] = Summary(message[t])]
    /\ UNCHANGED <<inputVars, mpc, i, readVars, countVars, mergeVars, box>>

\* Mutant of Reply: the worker answers into main's mailbox.
ReplyToParent(t) ==
    /\ Goto(t, "reply", "finished")
    /\ SendMsg(0, message[t])
    /\ UNCHANGED <<inputVars, mpc, i, readVars, countVars, mergeVars, message>>

\* The answer goes into the worker's own mailbox.
Reply(t) ==
    /\ Goto(t, "reply", "finished")
    /\ SendMsg(t, message[t])
    /\ UNCHANGED <<inputVars, mpc, i, readVars, countVars, mergeVars, message>>

Worker(t) == RecvRange(t) \/ ScanPart(t) \/ Reply(t)

Next == Main \/ \E t \in Workers : Worker(t)

Spec == Init /\ [][Next]_vars

\* Every thread keeps running.
FairSpec == Spec /\ WF_vars(Main) /\ \A t \in Workers : WF_vars(Worker(t))
-----------------------------------------------------------------------------
TypeOK ==
    /\ option \in Options /\ argc \in Nat /\ number \in Int /\ file \in Files
    /\ mpc \in {"args", "read", "scan", "create", "send", "join", "merge", "done", "exit"}
    /\ i \in Workers /\ pos \in 0 .. file_size /\ cutShort \in BOOLEAN
    /\ str_length \in Nat /\ num_strings \in Int /\ max_length \in Nat \cup {-1}
    /\ previous_end \in Nat /\ maxLengthEnd \in Nat
    /\ wpc \in [Workers -> {"none", "recv", "scan", "reply", "finished"}]
    /\ message \in [Workers -> Messages \cup {NoMsg}]
    /\ box \in [0 .. MAXTHREAD -> Messages \cup {NoMsg}]
-----------------------------------------------------------------------------
(* Reference: the strings of the file are its maximal runs of printable     *)
(* characters.                                                              *)
Strings ==
    {r \in (DOMAIN file) \X (DOMAIN file) :
        /\ r[1] <= r[2]
        /\ \A k \in r[1] .. r[2] : file[k]
        /\ r[1] - 1 \in DOMAIN file => ~file[r[1] - 1]
        /\ r[2] + 1 \in DOMAIN file => ~file[r[2] + 1]}

Lengths == {r[2] - r[1] + 1 : r \in Strings}
NumberOfStrings == Cardinality({r \in Strings : r[2] - r[1] + 1 >= 4})
IsMaximum(n) == n \in Lengths /\ \A l \in Lengths : l <= n

\* max_length when there is no string: main's initial -1, or 0 with threads.
NumberRight == num_strings = NumberOfStrings
LengthRight ==
    IF Strings = {} THEN max_length = IF way = "threads" THEN 0 ELSE -1
                    ELSE IsMaximum(max_length)

\* Reading through a buffer or through the map finds the strings of the file,
\* wherever the boundaries of the buffer fall.  The comment on regular_read says that
\* the function "doesn't work" (proj4.cpp:338): it does as long as every read fills
\* the buffer or reaches the end of the file, as the reads of a regular file do.  A
\* read that returns less, or fails, cuts a string in two, or the file short.
SequentialRight ==
    mpc = "done" /\ way \in {"buffer", "mmap"} /\ ~cutShort => NumberRight /\ LengthRight

Parts == {Summary(RangeOf(t)) : t \in 1 .. numberOfThreads}
IsWhole(t) == \A k \in RangeOf(t).value1 .. RangeOf(t).value2 : file[k]
NoneTaken == \A m \in Parts : ~TakenAsWhole(m)
TakenAreWhole ==
    \A t \in 1 .. numberOfThreads : TakenAsWhole(Summary(RangeOf(t))) => IsWhole(t)

\* With threads the count is right when no part is taken for a piece of a
\* longer string: strings over the boundaries are counted once.
MergedCountRight == mpc = "done" /\ way = "threads" /\ NoneTaken => NumberRight

\* With threads the length is right also over several boundaries, when the parts
\* taken for a piece of a longer string really are one.
MergedLengthRight == mpc = "done" /\ way = "threads" /\ TakenAreWhole => LengthRight

\* main merges replies only, never a range of its own that it took back from
\* a worker's mailbox.
MergesReplies == mpc = "merge" => box[i] # NoMsg /\ box[i].type = "ALLDONE"

\* The program ends: main joins the workers before it reads their answers, so
\* no worker may need main to read one before it can finish.
Termination == <>(mpc \in {"done", "exit"})

\* "number of readable longer than 4 strings": the threads find the strings
\* of the file.
ThreadsRight == mpc = "done" /\ way = "threads" => NumberRight
-----------------------------------------------------------------------------
(* The inductive invariant: how far main and the workers are, and what is in *)
(* the mailboxes.                                                            *)
Control ==
    /\ mpc \notin {"args", "exit"} => ArgsOK
    /\ IF mpc \in {"create", "send", "join", "merge"}
          THEN i <= numberOfThreads /\ way = "threads" /\ file_size > 0
          ELSE mpc # "exit" => i = 1
    /\ mpc = "read" => way = "buffer"
    /\ mpc = "scan" => way = "mmap"

\* main has created worker t, sent it its range, joined it, merged its reply.
\* (Without threads numberOfThreads is 1, but none is created.)
Past(t, at, later) == \/ mpc = at /\ t < i
                      \/ mpc \in later /\ way = "threads" /\ t <= numberOfThreads
Created(t) == Past(t, "create", {"send", "join", "merge", "done"})
RangeSent(t) == Past(t, "send", {"join", "merge", "done"})
Joined(t) == Past(t, "join", {"merge", "done"})
Merged(t) == Past(t, "merge", {"done"})

\* The one message of worker t is where it should be: the range in its mailbox, then
\* in its hands, the summary of the range in its hands, then in its mailbox.
WorkerState(t) ==
    /\ wpc[t] = "none" <=> ~Created(t)
    /\ wpc[t] \in {"scan", "reply", "finished"} => RangeSent(t)
    /\ Joined(t) => wpc[t] = "finished"
    /\ wpc[t] = "scan" => message[t] = RangeOf(t)
    /\ wpc[t] = "reply" => message[t] = Summary(RangeOf(t))
    /\ box[t] = IF wpc[t] = "recv" /\ RangeSent(t) THEN RangeOf(t)
                ELSE IF wpc[t] = "finished" /\ ~Merged(t) THEN Summary(RangeOf(t))
                ELSE NoMsg

Exchange == mpc # "exit" => \A t \in Workers : WorkerState(t)

Inv == TypeOK /\ Control /\ Exchange
-----------------------------------------------------------------------------
(* What has been counted, as an inductive invariant.                        *)

\* str_length after each character of the file; the strings counted among the
\* first n characters, and the lengths that occur there.
Runs == StrLength(0, 0, file_size - 1, file)
CountTo(n) == Cardinality({k \in 0 .. n - 1 : Runs[k] = 4})
LengthsTo(n) == {Runs[k] : k \in {j \in 0 .. n - 1 : file[j]}}
Greatest(m, T) == m \in T /\ \A x \in T : x <= m

\* Before anything is scanned, and while one thread scans.
Fresh == str_length = 0 /\ num_strings = 0 /\ max_length = -1
         /\ previous_end = 0 /\ maxLengthEnd = 0 /\ pos = 0
CountedTo(n) == num_strings = CountTo(n) /\ Greatest(max_length, {-1} \cup LengthsTo(n))
Counted ==
    /\ mpc \in {"args", "scan", "create", "send", "join"} => Fresh
    /\ mpc = "read" /\ ~cutShort => CountedTo(pos) /\ (pos < file_size => str_length = Runs[pos - 1])
    /\ mpc = "done" /\ way \in {"buffer", "mmap"} /\ ~cutShort => CountedTo(file_size)

\* Where the parts end that main has merged, and what it has counted in them.
mergedTo == IF mpc = "done" THEN file_size ELSE RangeOf(i).value1
Merging == mpc = "merge" \/ (mpc = "done" /\ way = "threads")
MergedCount ==
    Merging /\ NoneTaken => num_strings = CountTo(mergedTo) /\ previous_end = Runs[mergedTo - 1]
MergedLength ==
    Merging /\ TakenAreWhole =>
        /\ maxLengthEnd = Runs[mergedTo - 1]
        /\ IF mpc = "merge" /\ i = 1 THEN max_length = -1
           ELSE Greatest(max_length, {0} \cup LengthsTo(mergedTo))

CountInv == Counted /\ MergedCount /\ MergedLength

\* main and the workers exchange the messages of the protocol, and the counts are those
\* of the characters read, scanned or merged so far.
FullInv == Inv /\ CountInv
=============================================================================

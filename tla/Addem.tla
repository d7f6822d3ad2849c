------------------------------- MODULE Addem -------------------------------
(***************************************************************************)
(* project3/addem.cpp: the sum of 1 .. maxValue computed by worker threads *)
(* that get their range and return their partial sum through the mailboxes *)
(* (module Slots).                                                         *)
(*                                                                         *)
(* int is a two's complement number between -INT_MAX - 1 and INT_MAX.      *)
(* Signed overflow is undefined in C++; the Makefile builds without        *)
(* optimisation, where the addition wraps around.                          *)
(***************************************************************************)
EXTENDS Integers, FiniteSets, Slots

CONSTANTS MAXTHREAD,     \* most threads accepted
          INT_MAX,       \* the largest int
          ThreadArgs,    \* values of atoi(argv[1]) considered
          ValueArgs      \* values of atoi(argv[2]) considered

INT_MIN == -INT_MAX - 1
Ints == INT_MIN .. INT_MAX
Wrap(n) == ((n - INT_MIN) % (INT_MAX - INT_MIN + 1)) + INT_MIN

\* The messages; iFrom is always main's, the workers send theirs back.
Msgs == [iFrom : {0}, type : {"RANGE", "ALLDONE"}, value1 : Ints, value2 : Ints]

ASSUME AddemAssumption ==
    /\ MAXTHREAD \in Nat \ {0} /\ INT_MAX \in Nat \ {0}
    /\ ThreadArgs \subseteq Ints /\ ValueArgs \subseteq Ints
    /\ NoMsg \notin Msgs

Workers == 1 .. MAXTHREAD
parent_threadID == 0

VARIABLES numberOfThreads, maxValue,  \* the arguments; never change
          mpc, i,                     \* where main is; its loop index
          fullSum,                    \* main's running total
          wpc,                        \* where each worker is in sumthread
          value, sum,                 \* its loop variable and partial sum
          message                     \* its msg: received, then sent back

argVars == <<numberOfThreads, maxValue>>
workVars == <<wpc, value, sum, message>>
vars == <<argVars, mpc, i, fullSum, workVars, box>>

Msg(from, type, v1, v2) == [iFrom |-> from, type |-> type, value1 |-> v1, value2 |-> v2]

\* Integer division of C: rounds towards zero.
Quotient(a, b) == IF a >= 0 THEN a \div b ELSE -((-a) \div b)

\* Mutant of RangeOf: the ranges overlap in one number.
RangeOfOverlapping(t) ==
    LET range == Quotient(maxValue, numberOfThreads)
        last == IF t < numberOfThreads THEN t * range ELSE maxValue
    IN  Msg(parent_threadID, "RANGE", Wrap((t - 1) * range), last)

\* The message for worker t: an equal share each, the rest to the last one.
RangeOf(t) ==
    LET range == Quotient(maxValue, numberOfThreads)
        last == IF t < numberOfThreads THEN t * range ELSE maxValue
    IN  Msg(parent_threadID, "RANGE", Wrap((t - 1) * range + 1), last)

Init ==
    /\ numberOfThreads \in ThreadArgs /\ maxValue \in ValueArgs
    /\ mpc = "args" /\ i = 1 /\ fullSum = 0
    /\ box = [b \in 0 .. MAXTHREAD |-> NoMsg]
    /\ wpc = [t \in Workers |-> "none"]
    /\ value = [t \in Workers |-> 0] /\ sum = [t \in Workers |-> 0]
    /\ message = [t \in Workers |-> NoMsg]
-----------------------------------------------------------------------------
(* main *)
ArgsOK == 0 < numberOfThreads /\ numberOfThreads <= MAXTHREAD

RejectArgs ==
    /\ mpc = "args" /\ ~ArgsOK /\ mpc' = "exit"
    /\ UNCHANGED <<argVars, i, fullSum, workVars, box>>

AcceptArgs ==
    /\ mpc = "args" /\ ArgsOK /\ mpc' = "create"
    /\ UNCHANGED <<argVars, i, fullSum, workVars, box>>

\* Mutant of Loop: one iteration too many.
LoopOneMore(at, next) ==
    /\ mpc = at
    /\ IF i <= numberOfThreads
          THEN i' = i + 1 /\ UNCHANGED mpc
          ELSE i' = 1 /\ mpc' = next

\* One iteration of a loop of main over the workers 1 .. numberOfThreads.
Loop(at, next) ==
    /\ mpc = at
    /\ IF i < numberOfThreads
          THEN i' = i + 1 /\ UNCHANGED mpc
          ELSE i' = 1 /\ mpc' = next

CreateThread ==
    /\ Loop("create", "send")
    /\ wpc' = [wpc EXCEPT ![i] = "recv"]
    /\ UNCHANGED <<argVars, fullSum, value, sum, message, box>>

CreateThreadFails ==
    /\ mpc = "create" /\ mpc' = "exit"
    /\ UNCHANGED <<argVars, i, fullSum, workVars, box>>

SendRange ==
    /\ Loop("send", "recv")
    /\ SendMsg(i, RangeOf(i))
    /\ UNCHANGED <<argVars, fullSum, workVars>>

\* Mutant of RecvSum: the sums replace each other.
RecvSumReplacing ==
    /\ Loop("recv", "join")
    /\ RecvMsg(parent_threadID)
    /\ fullSum' = Received(parent_threadID).value1
    /\ UNCHANGED <<argVars, workVars>>

\* A message of another type than ALLDONE is reported and its value added too.
RecvSum ==
    /\ Loop("recv", "join")
    /\ RecvMsg(parent_threadID)
    /\ fullSum' = Wrap(fullSum + Received(parent_threadID).value1)
    /\ UNCHANGED <<argVars, workVars>>

\* Mutant of JoinThread: the thread is not waited for.
JoinThreadNot ==
    /\ Loop("join", "done")
    /\ UNCHANGED <<argVars, fullSum, workVars, box>>

\* fullSum has been printed; the semaphores are destroyed after the last join.
JoinThread ==
    /\ Loop("join", "done")
    /\ wpc[i] = "finished"
    /\ UNCHANGED <<argVars, fullSum, workVars, box>>

Main == \/ RejectArgs \/ AcceptArgs \/ CreateThread \/ CreateThreadFails
        \/ SendRange \/ RecvSum \/ JoinThread
-----------------------------------------------------------------------------
(* sumthread; exit(1) and main's return end the workers too. *)
Goto(t, from, to) ==
    /\ mpc \notin {"exit", "done"}
    /\ wpc[t] = from
    /\ wpc' = [wpc EXCEPT ![t] = to]

RecvRange(t) ==
    /\ Goto(t, "recv", "loop")
    /\ RecvMsg(t)
    /\ message' = [message EXCEPT ![t] = Received(t)]
    /\ value' = [value EXCEPT ![t] = Received(t).value1]
    /\ sum' = [sum EXCEPT ![t] = 0]
    /\ UNCHANGED <<argVars, mpc, i, fullSum>>

AddValue(t) ==
    /\ Goto(t, "loop", "loop")
    /\ value[t] <= message[t].value2
    /\ sum' = [sum EXCEPT ![t] = Wrap(@ + value[t])]
    /\ value' = [value EXCEPT ![t] = Wrap(@ + 1)]
    /\ UNCHANGED <<argVars, mpc, i, fullSum, message, box>>

EndLoop(t) ==
    /\ Goto(t, "loop", "reply")
    /\ value[t] > message[t].value2
    /\ message' = [message EXCEPT ![t].type = "ALLDONE", ![t].value1 = sum[t]]
    /\ UNCHANGED <<argVars, mpc, i, fullSum, value, sum, box>>

\* Mutant of Reply: the worker answers into its own mailbox.
ReplyToSelf(t) ==
    /\ Goto(t, "reply", "leaving")
    /\ SendMsg(t, message[t])
    /\ UNCHANGED <<argVars, mpc, i, fullSum, value, sum, message>>

\* The message is there as soon as sem_post has counted it; the worker is still inside
\* of sem_post, and its thread has not ended.
Reply(t) ==
    /\ Goto(t, "reply", "leaving")
    /\ SendMsg(parent_threadID, message[t])
    /\ UNCHANGED <<argVars, mpc, i, fullSum, value, sum, message>>

\* It returns from sem_post, and pthread_exit ends the thread.
EndThread(t) ==
    /\ Goto(t, "leaving", "finished")
    /\ UNCHANGED <<argVars, mpc, i, fullSum, value, sum, message, box>>

Worker(t) == RecvRange(t) \/ AddValue(t) \/ EndLoop(t) \/ Reply(t) \/ EndThread(t)

Next == Main \/ \E t \in Workers : Worker(t)

Spec == Init /\ [][Next]_vars

\* Every thread keeps running.
FairSpec == Spec /\ WF_vars(Main) /\ \A t \in Workers : WF_vars(Worker(t))
-----------------------------------------------------------------------------
TypeOK ==
    /\ numberOfThreads \in ThreadArgs /\ maxValue \in ValueArgs
    /\ mpc \in {"args", "create", "send", "recv", "join", "done", "exit"}
    /\ i \in Workers
    /\ fullSum \in Ints
    /\ box \in [0 .. MAXTHREAD -> Msgs \cup {NoMsg}]
    /\ wpc \in [Workers -> {"none", "recv", "loop", "reply", "leaving", "finished"}]
    /\ value \in [Workers -> Ints] /\ sum \in [Workers -> Ints]
    /\ message \in [Workers -> Msgs \cup {NoMsg}]

\* f[1] + ... + f[k], for each k up to n.
UpTo(f, n) ==
    LET upTo[k \in 0 .. n] == IF k = 0 THEN 0 ELSE upTo[k - 1] + f[k]
    IN  upTo

Total(f, n) == UpTo(f, n)[n]

\* Reference: a + (a + 1) + ... + b.
SumOf(a, b) == IF a > b THEN 0 ELSE Total([k \in 1 .. b - a + 1 |-> a + k - 1], b - a + 1)

\* Worker t has sent its reply.
Replied(t) == wpc[t] \in {"leaving", "finished"}

\* What worker t has still to contribute to the total.
Pending(t) ==
    IF Replied(t) THEN 0
    ELSE IF wpc[t] = "reply" THEN message[t].value1
    ELSE IF wpc[t] = "loop" THEN sum[t] + SumOf(value[t], message[t].value2)
    ELSE SumOf(RangeOf(t).value1, RangeOf(t).value2)

Owed == Total([t \in 1 .. numberOfThreads |-> Pending(t)], numberOfThreads)
InMailbox == IF box[parent_threadID] = NoMsg THEN 0 ELSE box[parent_threadID].value1

\* The ranges split 1 .. maxValue without gap or overlap, and no partial sum is
\* lost or added twice: at every moment what main has added, what waits in its
\* mailbox and what the workers still owe make up the sum (as far as int can
\* represent it).  The loop up to INT_MAX never ends, and adds for ever.
SumConserved ==
    ArgsOK /\ maxValue < INT_MAX =>
        Wrap(fullSum + InMailbox + Owed) = Wrap(SumOf(1, maxValue))

\* The total that main prints is the sum of the numbers from 1 to maxValue, up
\* to the overflow of int.
TotalModuloInt ==
    mpc \in {"join", "done"} => fullSum = Wrap(SumOf(1, maxValue))

\* When main destroys the semaphores no worker can still be using one, also none whose
\* reply main has long received but which is still inside of sem_post; and no message
\* is left behind in a mailbox.
CleanEnd ==
    mpc = "done" => /\ \A t \in 1 .. numberOfThreads : wpc[t] = "finished"
                    /\ \A b \in 0 .. MAXTHREAD : box[b] = NoMsg

\* The part of it that is about control, as an inductive invariant.

\* Arguments are checked before anything else; the loop index starts at 1 and stays
\* inside of the loop.
Control ==
    /\ mpc \notin {"args", "exit"} => ArgsOK
    /\ mpc \in {"args", "done"} => i = 1
    /\ mpc \in {"create", "send", "recv", "join"} => i <= numberOfThreads

\* Main has created worker t, has sent it its range.
Created(t) == \/ mpc = "create" /\ t < i
              \/ mpc \in {"send", "recv", "join", "done"} /\ t <= numberOfThreads
RangeSent(t) == \/ mpc = "send" /\ t < i
                \/ mpc \in {"recv", "join", "done"} /\ t <= numberOfThreads

\* A range waits in the mailbox of a worker from the moment main sends it until the
\* worker takes it, and a worker past that has the message.
Started ==
    mpc # "exit" => \A t \in Workers :
        /\ wpc[t] = "none" <=> ~Created(t)
        /\ box[t] # NoMsg <=> RangeSent(t) /\ wpc[t] = "recv"
        /\ wpc[t] \notin {"none", "recv"} => RangeSent(t)
        /\ wpc[t] \notin {"none", "recv"} => message[t] # NoMsg

\* The message in a worker's mailbox is its range, whose end the worker keeps; with the
\* largest maximum the last worker does not end its loop.
RangesKept ==
    /\ \A t \in Workers : box[t] # NoMsg => box[t] = RangeOf(t)
    /\ \A t \in Workers : wpc[t] = "loop" => message[t].value2 = RangeOf(t).value2
    /\ ArgsOK /\ maxValue = INT_MAX => wpc[numberOfThreads] \notin {"reply", "leaving", "finished"}

\* The number of replies that main has received.
Collected == IF mpc = "recv" THEN i - 1
             ELSE IF mpc \in {"join", "done"} THEN numberOfThreads ELSE 0

\* A reply that was sent has been received, or waits in main's mailbox.
RepliesCounted ==
    mpc # "exit" => Cardinality({t \in Workers : Replied(t)})
                    = Collected + IF box[parent_threadID] = NoMsg THEN 0 ELSE 1

\* Having received every reply main still waits for the end of each thread.
Joined ==
    /\ mpc = "join" => \A t \in 1 .. i - 1 : wpc[t] = "finished"
    /\ mpc = "done" => \A t \in 1 .. numberOfThreads : wpc[t] = "finished"

\* No sum, loop variable or index of addem leaves its range, and every worker is where
\* main's loops have brought it: its range waits until it takes it, its reply until
\* main does.
Inv == TypeOK /\ Control /\ Started /\ RangesKept /\ RepliesCounted /\ Joined

\* With the largest maximum the test value <= message.value2 is true of every int.
Endless == ArgsOK /\ maxValue = INT_MAX

\* The program ends, with the total printed or with an error, unless the last worker
\* adds for ever: then its reply never comes (RangesKept) and main waits for it.
Termination == ~Endless => <>(mpc \in {"done", "exit"})
=============================================================================

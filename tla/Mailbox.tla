------------------------------ MODULE Mailbox ------------------------------
(***************************************************************************)
(* The mailbox code shared by addem.cpp, life.cpp and proj4.cpp: one msg   *)
(* struct per mailbox guarded by two POSIX semaphores, sem_s (1 when the   *)
(* struct may be overwritten) and sem_r (1 when it holds a message).       *)
(*                                                                         *)
(* sendMsg and recvMsg are split at every point where another thread can   *)
(* run: the sem_wait, the memcpy and the sem_post are one action each, and *)
(* any number of threads may be inside either function on any mailbox.     *)
(***************************************************************************)
EXTENDS Naturals

CONSTANTS Threads,   \* threads calling sendMsg / recvMsg (0 is the parent)
          Boxes,     \* mailbox numbers
          Messages,  \* values of type msg that are sent
          NoMsg      \* the zero-initialised msg of a global or an unset local

ASSUME MailboxAssumption == NoMsg \notin Messages

VARIABLES sem_s, sem_r,   \* the semaphores' counters
          mailboxes,      \* the shared msg structs
          pc,             \* each thread's place in its call
          at,             \* iTo of sendMsg / iFrom of recvMsg
          message         \* the msg argument: sent from, or received into

vars == <<sem_s, sem_r, mailboxes, pc, at, message>>

\* Values of pc: outside the two functions; before the sem_wait, the memcpy and
\* the sem_post of sendMsg and of recvMsg; about to return from either.
PCs == {"idle", "s_wait", "s_copy", "s_post",
                "r_wait", "r_copy", "r_post", "ret"}

Init ==
    /\ sem_s = [i \in Boxes |-> 1]
    /\ sem_r = [i \in Boxes |-> 0]
    /\ mailboxes = [i \in Boxes |-> NoMsg]
    /\ pc = [t \in Threads |-> "idle"]
    /\ at \in [Threads -> Boxes]
    /\ message = [t \in Threads |-> NoMsg]

Goto(t, from, to) ==
    /\ pc[t] = from
    /\ pc' = [pc EXCEPT ![t] = to]

sem_wait(sem, i) == sem[i] > 0
Dec(sem, i) == [sem EXCEPT ![i] = @ - 1]
Inc(sem, i) == [sem EXCEPT ![i] = @ + 1]
-----------------------------------------------------------------------------
sendMsg(t, i, m) ==
    /\ Goto(t, "idle", "s_wait")
    /\ at' = [at EXCEPT ![t] = i]
    /\ message' = [message EXCEPT ![t] = m]
    /\ UNCHANGED <<sem_s, sem_r, mailboxes>>

SendWait(t) ==
    /\ Goto(t, "s_wait", "s_copy")
    /\ sem_wait(sem_s, at[t])
    /\ sem_s' = Dec(sem_s, at[t])
    /\ UNCHANGED <<sem_r, mailboxes, at, message>>

\* Mutant: the memcpy is forgotten.
SendCopyNothing(t) ==
    /\ Goto(t, "s_copy", "s_post")
    /\ UNCHANGED <<sem_s, sem_r, mailboxes, at, message>>

SendCopy(t) ==
    /\ Goto(t, "s_copy", "s_post")
    /\ mailboxes' = [mailboxes EXCEPT ![at[t]] = message[t]]
    /\ UNCHANGED <<sem_s, sem_r, at, message>>

SendPost(t) ==
    /\ Goto(t, "s_post", "ret")
    /\ sem_r' = Inc(sem_r, at[t])
    /\ UNCHANGED <<sem_s, mailboxes, at, message>>
-----------------------------------------------------------------------------
recvMsg(t, i) ==
    /\ Goto(t, "idle", "r_wait")
    /\ at' = [at EXCEPT ![t] = i]
    /\ UNCHANGED <<sem_s, sem_r, mailboxes, message>>

RecvWait(t) ==
    /\ Goto(t, "r_wait", "r_copy")
    /\ sem_wait(sem_r, at[t])
    /\ sem_r' = Dec(sem_r, at[t])
    /\ UNCHANGED <<sem_s, mailboxes, at, message>>

\* Mutant: the slot is released before the message is copied out of it.
RecvCopyReleasesFirst(t) ==
    /\ Goto(t, "r_copy", "r_post")
    /\ sem_s' = Inc(sem_s, at[t])
    /\ message' = [message EXCEPT ![t] = mailboxes[at[t]]]
    /\ UNCHANGED <<sem_r, mailboxes, at>>

RecvCopy(t) ==
    /\ Goto(t, "r_copy", "r_post")
    /\ message' = [message EXCEPT ![t] = mailboxes[at[t]]]
    /\ UNCHANGED <<sem_s, sem_r, mailboxes, at>>

\* Mutant: recvMsg posts the receive semaphore again instead of the send one.
RecvPostWrongSemaphore(t) ==
    /\ Goto(t, "r_post", "ret")
    /\ sem_r' = Inc(sem_r, at[t])
    /\ UNCHANGED <<sem_s, mailboxes, at, message>>

\* Mutant: recvMsg returns without releasing the slot.
RecvPostNothing(t) ==
    /\ Goto(t, "r_post", "ret")
    /\ UNCHANGED <<sem_s, sem_r, mailboxes, at, message>>

RecvPost(t) ==
    /\ Goto(t, "r_post", "ret")
    /\ sem_s' = Inc(sem_s, at[t])
    /\ UNCHANGED <<sem_r, mailboxes, at, message>>

Return(t) ==
    /\ Goto(t, "ret", "idle")
    /\ UNCHANGED <<sem_s, sem_r, mailboxes, at, message>>
-----------------------------------------------------------------------------
\* The steps of a thread inside a call.
Step(t) ==
    \/ SendWait(t) \/ SendCopy(t) \/ SendPost(t)
    \/ RecvWait(t) \/ RecvCopy(t) \/ RecvPost(t)
    \/ Return(t)

Next ==
    \E t \in Threads :
        \/ \E i \in Boxes, m \in Messages : sendMsg(t, i, m)
        \/ \E i \in Boxes : recvMsg(t, i)
        \/ Step(t)

Spec == Init /\ [][Next]_vars

\* A thread that can take a step inside a call eventually does; nothing makes
\* a thread start a call, and sem_wait serves waiting threads in any order.
FairSpec == Spec /\ \A t \in Threads : WF_vars(Step(t))
-----------------------------------------------------------------------------
TypeOK ==
    /\ sem_s \in [Boxes -> Nat]
    /\ sem_r \in [Boxes -> Nat]
    /\ mailboxes \in [Boxes -> Messages \cup {NoMsg}]
    /\ pc \in [Threads -> PCs]
    /\ at \in [Threads -> Boxes]
    /\ message \in [Threads -> Messages \cup {NoMsg}]

\* The thread owns the struct of mailbox i: it is past the sem_wait of its call
\* and has not yet done the sem_post.
Owns(t, i) == at[t] = i /\ pc[t] \in {"s_copy", "s_post", "r_copy", "r_post"}

\* Two threads are never between sem_wait and sem_post on the same mailbox, so
\* no memcpy of sendMsg or recvMsg overlaps another one on the same struct.
MutualExclusion ==
    \A i \in Boxes : \A t, u \in Threads : Owns(t, i) /\ Owns(u, i) => t = u

\* The two counters and the owner of mailbox i share one token: the struct is
\* free, or full, or owned by exactly one thread.
Token(i) ==
    \/ sem_s[i] = 1 /\ sem_r[i] = 0 /\ \A t \in Threads : ~Owns(t, i)
    \/ sem_s[i] = 0 /\ sem_r[i] = 1 /\ \A t \in Threads : ~Owns(t, i)
    \/ /\ sem_s[i] = 0 /\ sem_r[i] = 0
       /\ \E t \in Threads : Owns(t, i) /\ \A u \in Threads : Owns(u, i) => u = t

OneToken == \A i \in Boxes : Token(i)

\* A struct announced as full, or being read, holds a message that was sent,
\* never the initial zeroes; a sender about to post has its message in the slot.
Contents ==
    /\ \A i \in Boxes : sem_r[i] > 0 => mailboxes[i] \in Messages
    /\ \A t \in Threads :
         /\ pc[t] = "r_copy" => mailboxes[at[t]] \in Messages
         /\ pc[t] = "s_post" => mailboxes[at[t]] = message[t]
         /\ pc[t] \in {"s_wait", "s_copy", "s_post", "r_post"} => message[t] \in Messages

Inv == TypeOK /\ OneToken /\ Contents
-----------------------------------------------------------------------------
\* Refinement mapping: a send takes effect at its sem_post(sem_r) and a receive
\* at its sem_wait(sem_r); a receiver that has not copied yet already counts as
\* having the message it will copy.
boxBar == [i \in Boxes |-> IF sem_r[i] > 0 THEN mailboxes[i] ELSE NoMsg]
stageBar ==
    [t \in Threads |->
        IF pc[t] = "idle" THEN "idle"
        ELSE IF pc[t] \in {"s_wait", "s_copy", "s_post"} THEN "sending"
        ELSE IF pc[t] = "r_wait" THEN "receiving" ELSE "returning"]
messageBar ==
    [t \in Threads |-> IF pc[t] = "r_copy" THEN mailboxes[at[t]] ELSE message[t]]

C == INSTANCE Channel WITH box <- boxBar, stage <- stageBar, message <- messageBar

\* sendMsg and recvMsg behave as indivisible operations on one-message slots:
\* no message is lost, duplicated, overwritten or torn, and (with the fairness
\* of the threads) a mailbox somebody waits for keeps making progress.
ImplementsChannel == C!ChannelSpec
ImplementsChannelSafely == C!ChannelSafe

\* A sender and a receiver waiting for the same mailbox cannot both be stuck:
\* some call on that mailbox completes.
WaitersProgress ==
    \A i \in Boxes :
        (/\ \E t \in Threads : at[t] = i /\ pc[t] = "s_wait"
         /\ \E t \in Threads : at[t] = i /\ pc[t] = "r_wait")
        ~> (\E t \in Threads : at[t] = i /\ pc[t] = "ret")
=============================================================================

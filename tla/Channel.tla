------------------------------ MODULE Channel ------------------------------
(***************************************************************************)
(* The abstract specification of the mailboxes: threads call sendMsg or    *)
(* recvMsg on a slot, each call takes effect in one indivisible step       *)
(* somewhere between its call and its return, and only then returns.       *)
(***************************************************************************)
EXTENDS Slots

CONSTANTS Threads,   \* the threads that may call sendMsg and recvMsg
          Boxes,     \* the mailboxes, 0 .. number of threads in the code
          Messages   \* the messages that may be sent; NoMsg is not one of them

VARIABLES stage,     \* where each thread is in its current call
          at,        \* the mailbox its call is about
          message    \* the message it sends, or the last one it received

cvars == <<box, stage, at, message>>

Stages == {"idle", "sending", "receiving", "returning"}

ChannelInit ==
    /\ box = [i \in Boxes |-> NoMsg]
    /\ stage = [t \in Threads |-> "idle"]
    /\ at \in [Threads -> Boxes]
    /\ message = [t \in Threads |-> NoMsg]

CallSend(t, i, m) ==
    /\ stage[t] = "idle"
    /\ stage' = [stage EXCEPT ![t] = "sending"]
    /\ at' = [at EXCEPT ![t] = i]
    /\ message' = [message EXCEPT ![t] = m]
    /\ UNCHANGED box

CallRecv(t, i) ==
    /\ stage[t] = "idle"
    /\ stage' = [stage EXCEPT ![t] = "receiving"]
    /\ at' = [at EXCEPT ![t] = i]
    /\ UNCHANGED <<box, message>>

Put(t) ==
    /\ stage[t] = "sending"
    /\ SendMsg(at[t], message[t])
    /\ stage' = [stage EXCEPT ![t] = "returning"]
    /\ UNCHANGED <<at, message>>

Take(t) ==
    /\ stage[t] = "receiving"
    /\ RecvMsg(at[t])
    /\ message' = [message EXCEPT ![t] = Received(at[t])]
    /\ stage' = [stage EXCEPT ![t] = "returning"]
    /\ UNCHANGED at

Return(t) ==
    /\ stage[t] = "returning"
    /\ stage' = [stage EXCEPT ![t] = "idle"]
    /\ UNCHANGED <<box, at, message>>

ChannelNext ==
    \E t \in Threads :
        \/ \E i \in Boxes, m \in Messages : CallSend(t, i, m)
        \/ \E i \in Boxes : CallRecv(t, i)
        \/ Put(t)
        \/ Take(t)
        \/ Return(t)

ChannelSafe == ChannelInit /\ [][ChannelNext]_cvars

\* Every mailbox makes progress: if a sender keeps finding it empty some send
\* to it takes effect, and if a receiver keeps finding it full some receive
\* does.  Which of several waiting threads is served is left open, as sem_wait
\* does not queue its callers.
ChannelFair ==
    /\ \A i \in Boxes : WF_cvars(\E t \in Threads : at[t] = i /\ Put(t))
    /\ \A i \in Boxes : WF_cvars(\E t \in Threads : at[t] = i /\ Take(t))
    /\ \A t \in Threads : WF_cvars(Return(t))

ChannelSpec == ChannelSafe /\ ChannelFair
=============================================================================

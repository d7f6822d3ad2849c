--------------------------- MODULE MailboxProofs ---------------------------
(***************************************************************************)
(* Proofs about the semaphore mailboxes, for any set of threads, mailboxes *)
(* and messages.                                                           *)
(***************************************************************************)
EXTENDS Mailbox, TLAPS

\* The initial state (globals zeroed, sem_init of the two semaphore arrays)
\* satisfies the inductive invariant.
LEMMA InitInv == Init => Inv
  <1> SUFFICES ASSUME Init PROVE Inv
    OBVIOUS
  <1>1. TypeOK
    BY DEF Init, TypeOK, PCs
  <1>2. OneToken
    BY DEF Init, OneToken, Token, Owns
  <1>3. Contents
    BY DEF Init, Contents
  <1> QED
    BY <1>1, <1>2, <1>3 DEF Inv

\* Every step of sendMsg and recvMsg keeps the types of the variables.
LEMMA TypePreserved == Inv /\ [Next]_vars => TypeOK'
  <1> SUFFICES ASSUME Inv, [Next]_vars
               PROVE  TypeOK'
    OBVIOUS
  <1> USE DEF Inv, TypeOK, PCs, Goto
  <1>1. ASSUME NEW t \in Threads, NEW i \in Boxes, NEW m \in Messages, sendMsg(t, i, m)
        PROVE  TypeOK'
    BY <1>1 DEF sendMsg
  <1>2. ASSUME NEW t \in Threads, NEW i \in Boxes, recvMsg(t, i)
        PROVE  TypeOK'
    BY <1>2 DEF recvMsg
  <1>3. ASSUME NEW t \in Threads, SendWait(t)
        PROVE  TypeOK'
    BY <1>3 DEF SendWait, sem_wait, Dec
  <1>4. ASSUME NEW t \in Threads, SendCopy(t)
        PROVE  TypeOK'
    BY <1>4 DEF SendCopy
  <1>5. ASSUME NEW t \in Threads, SendPost(t)
        PROVE  TypeOK'
    BY <1>5 DEF SendPost, Inc
  <1>6. ASSUME NEW t \in Threads, RecvWait(t)
        PROVE  TypeOK'
    BY <1>6 DEF RecvWait, sem_wait, Dec
  <1>7. ASSUME NEW t \in Threads, RecvCopy(t)
        PROVE  TypeOK'
    BY <1>7 DEF RecvCopy
  <1>8. ASSUME NEW t \in Threads, RecvPost(t)
        PROVE  TypeOK'
    BY <1>8 DEF RecvPost, Inc
  <1>9. ASSUME NEW t \in Threads, Return(t)
        PROVE  TypeOK'
    BY <1>9 DEF Return
  <1>10. CASE UNCHANGED vars
    BY <1>10 DEF vars
  <1> QED
    BY <1>1, <1>2, <1>3, <1>4, <1>5, <1>6, <1>7, <1>8, <1>9, <1>10 DEF Next, Step

\* The token of each mailbox (free, full, or with one owner) is conserved by
\* every step: sem_wait takes it, sem_post passes it on.
LEMMA TokenPreserved == Inv /\ [Next]_vars => OneToken'
  <1> SUFFICES ASSUME Inv, [Next]_vars, NEW i \in Boxes
               PROVE  Token(i)'
    BY DEF OneToken
  <1>t. TypeOK /\ Token(i)
    BY DEF Inv, OneToken
  <1> USE DEF TypeOK, PCs, Goto, Token, Owns
  <1>1. ASSUME NEW t \in Threads, NEW j \in Boxes, NEW m \in Messages, sendMsg(t, j, m)
        PROVE  Token(i)'
    BY <1>t, <1>1 DEF sendMsg
  <1>2. ASSUME NEW t \in Threads, NEW j \in Boxes, recvMsg(t, j)
        PROVE  Token(i)'
    BY <1>t, <1>2 DEF recvMsg
  <1>3. ASSUME NEW t \in Threads, SendWait(t)
        PROVE  Token(i)'
    BY <1>t, <1>3 DEF SendWait, sem_wait, Dec
  <1>4. ASSUME NEW t \in Threads, SendCopy(t)
        PROVE  Token(i)'
    BY <1>t, <1>4 DEF SendCopy
  <1>5. ASSUME NEW t \in Threads, SendPost(t)
        PROVE  Token(i)'
    BY <1>t, <1>5 DEF SendPost, Inc
  <1>6. ASSUME NEW t \in Threads, RecvWait(t)
        PROVE  Token(i)'
    BY <1>t, <1>6 DEF RecvWait, sem_wait, Dec
  <1>7. ASSUME NEW t \in Threads, RecvCopy(t)
        PROVE  Token(i)'
    BY <1>t, <1>7 DEF RecvCopy
  <1>8. ASSUME NEW t \in Threads, RecvPost(t)
        PROVE  Token(i)'
    BY <1>t, <1>8 DEF RecvPost, Inc
  <1>9. ASSUME NEW t \in Threads, Return(t)
        PROVE  Token(i)'
    BY <1>t, <1>9 DEF Return
  <1>10. CASE UNCHANGED vars
    BY <1>t, <1>10 DEF vars
  <1> QED
    BY <1>1, <1>2, <1>3, <1>4, <1>5, <1>6, <1>7, <1>8, <1>9, <1>10 DEF Next, Step

\* Two threads that own the same mailbox are the same thread, and an owned
\* mailbox is neither free nor full: what the token says, in usable form.
LEMMA OwnerUnique ==
  ASSUME Inv, NEW i \in Boxes, NEW t \in Threads, Owns(t, i)
  PROVE  /\ sem_s[i] = 0 /\ sem_r[i] = 0
         /\ \A u \in Threads : Owns(u, i) => u = t
  BY DEF Inv, OneToken, Token

\* What the structs hold is preserved: only the owner of a mailbox writes it.
LEMMA ContentsPreserved == Inv /\ [Next]_vars => Contents'
  <1> SUFFICES ASSUME Inv, [Next]_vars
               PROVE  Contents'
    OBVIOUS
  <1>t. TypeOK /\ Contents
    BY DEF Inv
  <1> USE DEF TypeOK, PCs, Goto, Contents
  <1>1. ASSUME NEW t \in Threads, NEW i \in Boxes, NEW m \in Messages, sendMsg(t, i, m)
        PROVE  Contents'
    BY <1>t, <1>1 DEF sendMsg
  <1>2. ASSUME NEW t \in Threads, NEW i \in Boxes, recvMsg(t, i)
        PROVE  Contents'
    BY <1>t, <1>2 DEF recvMsg
  <1>3. ASSUME NEW t \in Threads, SendWait(t)
        PROVE  Contents'
    BY <1>t, <1>3 DEF SendWait
  <1>4. ASSUME NEW t \in Threads, SendCopy(t)
        PROVE  Contents'
    <2>1. Owns(t, at[t]) /\ at[t] \in Boxes
      BY <1>t, <1>4 DEF SendCopy, Owns
    <2>2. sem_r[at[t]] = 0 /\ \A u \in Threads : Owns(u, at[t]) => u = t
      BY <2>1, OwnerUnique
    <2> QED
      BY <1>t, <1>4, <2>1, <2>2 DEF SendCopy, Owns
  <1>5. ASSUME NEW t \in Threads, SendPost(t)
        PROVE  Contents'
    BY <1>t, <1>5 DEF SendPost, Inc
  <1>6. ASSUME NEW t \in Threads, RecvWait(t)
        PROVE  Contents'
    BY <1>t, <1>6 DEF RecvWait, sem_wait, Dec
  <1>7. ASSUME NEW t \in Threads, RecvCopy(t)
        PROVE  Contents'
    BY <1>t, <1>7 DEF RecvCopy
  <1>8. ASSUME NEW t \in Threads, RecvPost(t)
        PROVE  Contents'
    BY <1>t, <1>8 DEF RecvPost
  <1>9. ASSUME NEW t \in Threads, Return(t)
        PROVE  Contents'
    BY <1>t, <1>9 DEF Return
  <1>10. CASE UNCHANGED vars
    BY <1>t, <1>10 DEF vars
  <1> QED
    BY <1>1, <1>2, <1>3, <1>4, <1>5, <1>6, <1>7, <1>8, <1>9, <1>10 DEF Next, Step

\* The inductive invariant of the mailbox code: the types, the conserved token
\* of every mailbox, and what the structs hold.
THEOREM Invariance == Spec => []Inv
  <1>1. Inv /\ [Next]_vars => Inv'
    BY TypePreserved, TokenPreserved, ContentsPreserved DEF Inv
  <1> QED
    BY InitInv, <1>1, PTL DEF Spec

\* The type invariant of the mailbox code.
THEOREM TypeCorrect == Spec => []TypeOK
  <1>1. Inv => TypeOK
    BY DEF Inv
  <1> QED
    BY Invariance, <1>1, PTL

\* At most one thread is between the sem_wait and the sem_post of sendMsg or
\* recvMsg on a mailbox, so the memcpys on one struct never overlap.
THEOREM MutualExclusionHolds == Spec => []MutualExclusion
  <1>1. Inv => MutualExclusion
    BY OwnerUnique DEF MutualExclusion
  <1> QED
    BY Invariance, <1>1, PTL
-----------------------------------------------------------------------------
\* The initial state maps to an initial state of the abstract mailboxes.
LEMMA RefinementInit == Init => C!ChannelInit
  BY DEF Init, C!ChannelInit, boxBar, stageBar, messageBar

\* Every step maps to a step of the abstract mailboxes or to a stutter: the
\* sem_post of sendMsg is the send, the sem_wait of recvMsg is the receive.
LEMMA RefinementStep == Inv /\ [Next]_vars => [C!ChannelNext]_(C!cvars)
  <1> SUFFICES ASSUME Inv, [Next]_vars
               PROVE  C!ChannelNext \/ UNCHANGED C!cvars
    OBVIOUS
  <1>t. TypeOK /\ Contents
    BY DEF Inv
  <1> USE DEF TypeOK, PCs, Goto, boxBar, stageBar, messageBar
  <1>1. ASSUME NEW t \in Threads, NEW i \in Boxes, NEW m \in Messages, sendMsg(t, i, m)
        PROVE  C!CallSend(t, i, m)
    BY <1>t, <1>1 DEF sendMsg, C!CallSend
  <1>2. ASSUME NEW t \in Threads, NEW i \in Boxes, recvMsg(t, i)
        PROVE  C!CallRecv(t, i)
    BY <1>t, <1>2 DEF recvMsg, C!CallRecv
  <1>3. ASSUME NEW t \in Threads, SendWait(t)
        PROVE  UNCHANGED C!cvars
    BY <1>t, <1>3 DEF SendWait, C!cvars
  <1>4. ASSUME NEW t \in Threads, SendCopy(t)
        PROVE  UNCHANGED C!cvars
    <2>1. Owns(t, at[t]) /\ at[t] \in Boxes
      BY <1>t, <1>4 DEF SendCopy, Owns
    <2>2. sem_r[at[t]] = 0 /\ \A u \in Threads : Owns(u, at[t]) => u = t
      BY <2>1, OwnerUnique
    <2> QED
      BY <1>t, <1>4, <2>1, <2>2 DEF SendCopy, Owns, C!cvars
  <1>5. ASSUME NEW t \in Threads, SendPost(t)
        PROVE  C!Put(t)
    <2>1. Owns(t, at[t]) /\ at[t] \in Boxes
      BY <1>t, <1>5 DEF SendPost, Owns
    <2>2. sem_r[at[t]] = 0
      BY <2>1, OwnerUnique
    <2>3. mailboxes[at[t]] = message[t]
      BY <1>t, <1>5 DEF SendPost, Contents
    <2>4. stageBar[t] = "sending" /\ stageBar' = [stageBar EXCEPT ![t] = "returning"]
      BY <1>t, <1>5 DEF SendPost
    <2>5. messageBar' = messageBar /\ at' = at /\ messageBar[t] = message[t]
      BY <1>t, <1>5 DEF SendPost
    <2>6. boxBar[at[t]] = NoMsg
      BY <2>1, <2>2
    <2>7. boxBar' = [boxBar EXCEPT ![at[t]] = message[t]]
      <3>1. mailboxes' = mailboxes /\ sem_r' = [sem_r EXCEPT ![at[t]] = 1]
        BY <1>t, <1>5, <2>1, <2>2 DEF SendPost, Inc
      <3>2. ASSUME NEW j \in Boxes
            PROVE  boxBar'[j] = IF j = at[t] THEN message[t] ELSE boxBar[j]
        BY <1>t, <2>1, <2>3, <3>1
      <3> QED
        BY <3>2
    <2> HIDE DEF boxBar, stageBar, messageBar
    <2> QED
      BY <2>4, <2>5, <2>6, <2>7 DEF C!Put, C!SendMsg
  <1>6. ASSUME NEW t \in Threads, RecvWait(t)
        PROVE  C!Take(t)
    <2>1. at[t] \in Boxes /\ sem_r[at[t]] > 0 /\ mailboxes[at[t]] \in Messages
      BY <1>t, <1>6 DEF RecvWait, sem_wait, Contents
    <2>2. sem_r[at[t]] = 1
      BY <2>1 DEF Inv, OneToken, Token
    <2>3. stageBar[t] = "receiving" /\ stageBar' = [stageBar EXCEPT ![t] = "returning"]
      BY <1>t, <1>6 DEF RecvWait
    <2>4. boxBar[at[t]] = mailboxes[at[t]] /\ boxBar[at[t]] # NoMsg
      BY <2>1, MailboxAssumption
    <2>5. boxBar' = [boxBar EXCEPT ![at[t]] = NoMsg]
      <3>1. mailboxes' = mailboxes /\ sem_r' = [sem_r EXCEPT ![at[t]] = 0]
        BY <1>t, <1>6, <2>1, <2>2 DEF RecvWait, Dec
      <3>2. ASSUME NEW j \in Boxes
            PROVE  boxBar'[j] = IF j = at[t] THEN NoMsg ELSE boxBar[j]
        BY <1>t, <2>1, <3>1
      <3> QED
        BY <3>2
    <2>6. messageBar' = [messageBar EXCEPT ![t] = mailboxes[at[t]]] /\ at' = at
      BY <1>t, <1>6 DEF RecvWait
    <2> HIDE DEF boxBar, stageBar, messageBar
    <2> QED
      BY <2>3, <2>4, <2>5, <2>6 DEF C!Take, C!RecvMsg, C!Received
  <1>7. ASSUME NEW t \in Threads, RecvCopy(t)
        PROVE  UNCHANGED C!cvars
    BY <1>t, <1>7 DEF RecvCopy, C!cvars
  <1>8. ASSUME NEW t \in Threads, RecvPost(t)
        PROVE  UNCHANGED C!cvars
    BY <1>t, <1>8 DEF RecvPost, C!cvars
  <1>9. ASSUME NEW t \in Threads, Return(t)
        PROVE  C!Return(t)
    BY <1>t, <1>9 DEF Return, C!Return
  <1>10. CASE UNCHANGED vars
    BY <1>10 DEF vars, C!cvars
  <1> QED
    BY <1>1, <1>2, <1>3, <1>4, <1>5, <1>6, <1>7, <1>8, <1>9, <1>10
    DEF Next, Step, C!ChannelNext

\* sendMsg and recvMsg, as coded with two semaphores and a memcpy, implement
\* indivisible operations on slots that hold at most one message.
THEOREM MailboxImplementsChannel == Spec => ImplementsChannelSafely
  <1> QED
    BY RefinementInit, RefinementStep, Invariance, PTL
    DEF Spec, ImplementsChannelSafely, C!ChannelSafe
=============================================================================

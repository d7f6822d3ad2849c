------------------------------- MODULE Slots -------------------------------
(***************************************************************************)
(* What sendMsg and recvMsg of project3/addem.cpp, project3/life.cpp and   *)
(* project4/proj4.cpp promise to their callers: mailbox i is a slot that   *)
(* holds at most one message, sendMsg waits for the slot to be empty and   *)
(* recvMsg waits for it to be full.                                        *)
(*                                                                         *)
(* The programs are specified on top of these two operators.  The          *)
(* semaphore code that implements them is the module Mailbox, which is     *)
(* shown to implement the module Channel, built from the same operators.   *)
(***************************************************************************)

CONSTANT NoMsg      \* the empty slot (the all-zero struct of a fresh mailbox)

VARIABLE box        \* box[i] is the message in mailbox i, or NoMsg

\* sendMsg(i, m): enabled when the slot is empty, leaves m in it.
SendMsg(i, m) ==
    /\ box[i] = NoMsg
    /\ box' = [box EXCEPT ![i] = m]

\* recvMsg(i, m): enabled when the slot holds a message; the caller reads
\* Received(i) in the same step, and the slot becomes empty.
RecvMsg(i) ==
    /\ box[i] # NoMsg
    /\ box' = [box EXCEPT ![i] = NoMsg]

Received(i) == box[i]
=============================================================================

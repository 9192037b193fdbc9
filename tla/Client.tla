------------------------------- MODULE Client -------------------------------
(***************************************************************************)
(* src/Server/Client.cpp: the object behind one connection.  It keeps a    *)
(* single OVERLAPPED and a single receive buffer for all of its pending    *)
(* operations, and one mState that is meant to say which operation the     *)
(* next completion is about.  Every method runs on whatever thread calls   *)
(* it, without a lock, so BeginRead and BeginSend are two steps each: the  *)
(* store to mState and the Winsock call.                                   *)
(***************************************************************************)
EXTENDS CompletionPort

CONSTANT None  \* no object, no thread

VARIABLES
  addr,      \* addr[s]: the address of the Client made for s, None before
  mState,    \* the state machine of the Client
  mBuffer,   \* the message the receive buffer holds
  handlerSet \* SetReceivedHandler has been called

clientVars == <<addr, mState, mBuffer, handlerSet>>

ClientState == {"unset", "READ", "SEND"}

ClientInit ==
  /\ addr = [s \in Conns |-> None]
  /\ mState = [s \in Conns |-> "unset"]
  /\ mBuffer = [s \in Conns |-> <<>>]
  /\ handlerSet = [s \in Conns |-> FALSE]

\* Client::Client at address a: a zeroed buffer, handlers that do nothing.
Construct(s, a) ==
  /\ addr' = [addr EXCEPT ![s] = a]
  /\ UNCHANGED <<mState, mBuffer, handlerSet>>

SetReceivedHandler(s) ==
  /\ handlerSet' = [handlerSet EXCEPT ![s] = TRUE]
  /\ UNCHANGED <<addr, mState, mBuffer>>

\* Faulty variant: BeginRead leaves mState alone; no specification uses it.
MarkReadForgets(s) == UNCHANGED clientVars

\* mState = CLIENT_STATE::READ, first line of BeginRead
MarkRead(s) ==
  /\ mState' = [mState EXCEPT ![s] = "READ"]
  /\ UNCHANGED <<addr, mBuffer, handlerSet>>

\* mState = CLIENT_STATE::SEND, in BeginSend
MarkSend(s) ==
  /\ mState' = [mState EXCEPT ![s] = "SEND"]
  /\ UNCHANGED <<addr, mBuffer, handlerSet>>

\* The kernel fills the receive buffer the pending operations share.
FillBuffer(s, m) ==
  /\ mBuffer' = [mBuffer EXCEPT ![s] = m]
  /\ UNCHANGED <<addr, mState, handlerSet>>

(***************************************************************************)
(* BeginIOEvent: which branch the switch takes, and what CompleteRead's    *)
(* handler answers.  Packet::Deserialize yields a request only from a      *)
(* transfer of exactly sizeof(Packet) bytes.                               *)
(***************************************************************************)
TakenForRead(s) == mState[s] = "READ"

Answer(s, bytes) ==
  IF TakenForRead(s) /\ bytes = "whole" /\ handlerSet[s]
    THEN mBuffer[s]
    ELSE <<>>

=============================================================================

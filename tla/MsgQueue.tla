------------------------------ MODULE MsgQueue ------------------------------
(***************************************************************************)
(* The process-wide message queue of a collection server                   *)
(* (DataCollectionServer, com.pony.queue.MsgQueue): an unbounded           *)
(* LinkedBlockingQueue and an advisory flag isLock.                        *)
(*                                                                         *)
(* The flag is not a mutex.  putMsg and takeMsg look at it ONCE, before    *)
(* they touch the queue, and hold nothing between the look and the touch;  *)
(* lock() sets it without waiting for anyone; clear() and the iterator     *)
(* ignore it.  Every operation below is one of the atomic steps of the     *)
(* Java methods, so that a thread that calls putMsg does                   *)
(* LockIsFree, then - in a later step - Put.                               *)
(***************************************************************************)
EXTENDS Naturals, Sequences, FiniteSets

CONSTANT Msg        \* the data messages, one value for each distinct payload

VARIABLES
  msgQue,           \* the queue, head first
  isLock            \* the advisory flag

queueVars == <<msgQue, isLock>>

QueueTypeOK ==
  /\ msgQue \in Seq(Msg)
  /\ isLock \in BOOLEAN

QueueInit ==
  /\ msgQue = <<>>
  /\ isLock = FALSE

\* The definitions named M_... are mutants: what a definition would be with a bug.
\* Nothing uses them here; with one in the place of the definition that follows it,
\* a property of some run must fail.

\* The wait at the top of putMsg and takeMsg is over.
LockIsFree == ~isLock

\* putMsg once past the wait: LinkedBlockingQueue.put never blocks (no capacity).
Put(m) == msgQue' = Append(msgQue, m)

\* takeMsg once past the wait: LinkedBlockingQueue.take blocks while it is empty.
CanTake == msgQue # <<>>
Take == msgQue' = Tail(msgQue)

\* lock() and unLock(): plain writes of the flag, whoever wrote it before.
M_LockForgotten   == UNCHANGED isLock
Lock   == isLock' = TRUE
M_UnLockForgotten == UNCHANGED isLock
UnLock == isLock' = FALSE

\* clear(): drops everything, whatever the flag says.
Clear == msgQue' = <<>>

=============================================================================

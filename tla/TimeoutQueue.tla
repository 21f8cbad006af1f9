---------------------------- MODULE TimeoutQueue ----------------------------
(***************************************************************************)
(* What a worker expects of its timeout tree: the sessions in use, those   *)
(* due first in front.  The two operations are those of                    *)
(* HttpSessionTimeoutTree.c; UpdateHttpSessionTimeoutTreeNode is a removal *)
(* followed by an insertion.  TimeoutTree is the red-black tree that       *)
(* implements this queue.                                                  *)
(***************************************************************************)
EXTENDS Integers, Sequences

CONSTANTS
  Session,   \* the sessions of the pool
  Stamp      \* values of timeout_timestamp

VARIABLES
  queue,     \* the sessions in use, in the order rb_first and rb_next meet them
  due        \* timeout_timestamp of every session

queueVars == <<queue, due>>

Queued == {queue[i] : i \in DOMAIN queue}

InsertAt(k, s) ==
  [i \in 1..(Len(queue) + 1) |->
     CASE i < k -> queue[i] [] i = k -> s [] i > k -> queue[i - 1]]

DeleteAt(k) ==
  [i \in 1..(Len(queue) - 1) |-> IF i < k THEN queue[i] ELSE queue[i + 1]]

(* Behind every session due earlier, in front of those due at the same     *)
(* second: the descent of lines 18-30 goes left on equality.               *)
Add(s, d) ==
  /\ s \notin Queued
  /\ \E k \in 1..(Len(queue) + 1) :
       /\ \A i \in 1..(k - 1) : due[queue[i]] < d
       /\ \A i \in k..Len(queue) : d <= due[queue[i]]
       /\ queue' = InsertAt(k, s)
  /\ due' = [due EXCEPT ![s] = d]

Remove(s) ==
  /\ \E k \in DOMAIN queue : queue[k] = s /\ queue' = DeleteAt(k)
  /\ UNCHANGED due

QueueInit ==
  /\ queue = <<>>
  /\ due \in [Session -> Stamp]

QueueNext ==
  \E s \in Session : Remove(s) \/ \E d \in Stamp : Add(s, d)

QueueSpec == QueueInit /\ [][QueueNext]_queueVars
----------------------------------------------------------------------------
QueueTypeOK ==
  /\ queue \in Seq(Session)
  /\ due \in [Session -> Stamp]

(* No session is queued twice: a session released once is gone.            *)
NoDuplicates ==
  \A i, j \in DOMAIN queue : queue[i] = queue[j] => i = j

(* A session in front is due no later than one behind it, so the front     *)
(* alone tells GetExpireHttpSessionTimeoutTreeNode whether any is overdue. *)
Sorted ==
  \A i, j \in DOMAIN queue : i < j => due[queue[i]] <= due[queue[j]]
=============================================================================

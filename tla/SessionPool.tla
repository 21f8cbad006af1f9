---------------------------- MODULE SessionPool ----------------------------
(***************************************************************************)
(* The pool of HTTP sessions of one worker process: HttpSession.c and the  *)
(* tree of sessions in use, ordered by deadline, HttpSessionTimeoutTree.c. *)
(*                                                                         *)
(* A session is numbered in the order malloc() delivers it, so the array   *)
(* of n sessions that IncreaseHttpSessions adds to a pool of `total'       *)
(* sessions is total+1 .. total+n.  Deadlines are relative: used[s] is     *)
(* timeout_timestamp - GETSECONDSTAMP, cut off at 0, which is all that     *)
(* GetExpireHttpSessionTimeoutTreeNode looks at.                           *)
(*                                                                         *)
(* On its own this module is the contract of the pool: its caller releases *)
(* and refreshes only sessions in use.  WorkerLoop is that caller.         *)
(***************************************************************************)
EXTENDS Integers, Sequences, FiniteSets, Functions

CONSTANTS
  MaxSessions,    \* limits.max_http_session_count
  InitSessions,   \* INIT_HTTP_SESSION_COUNT
  IncreSessions,  \* INCRE_HTTP_SESSION_COUNT
  Timeout         \* http_options.timeout, in seconds

ASSUME PoolAssumption ==
  /\ MaxSessions \in Nat \ {0}
  /\ InitSessions \in Nat \ {0}
  /\ IncreSessions \in Nat \ {0}
  /\ Timeout \in Nat

VARIABLES
  unused_list,    \* http_session_unused_list, head first
  used,           \* http_session_rbtree_used: session -> seconds left
  used_count,     \* http_session_used_count
  unused_count,   \* http_session_unused_count
  total           \* sessions allocated so far (none is ever freed)

poolVars == <<unused_list, used, used_count, unused_count, total>>

InUse == DOMAIN used
----------------------------------------------------------------------------
(* Mutant: the clamp of lines 25-26 is missing.                            *)
UnclampedBatch(inuse, n) == n

(* IncreaseHttpSessions clamps its batch so that the sessions in use and   *)
(* the batch together do not exceed the limit.                             *)
BatchSize(inuse, n) ==
  IF inuse + n > MaxSessions THEN MaxSessions - inuse ELSE n

FreshBatch(n) == [i \in 1..n |-> total + i]

(* InitServerEnvirment fills the empty pool once, before any fork.         *)
PoolInit ==
  /\ total = BatchSize(0, InitSessions)
  /\ unused_list = [i \in 1..total |-> i]
  /\ unused_count = total
  /\ used = [s \in {} |-> 0]
  /\ used_count = 0

(* The session FetchHttpSessionUnused hands out when it does not fail.     *)
NextSession == IF unused_count > 0 THEN Head(unused_list) ELSE total + 1

(* Unlink the head of the list and put it into the tree of sessions in use *)
TakeFrom(list, count) ==
  /\ unused_list' = Tail(list)
  /\ unused_count' = count - 1
  /\ used' = [s \in InUse \cup {Head(list)} |->
                IF s = Head(list) THEN Timeout ELSE used[s]]
  /\ used_count' = used_count + 1

FetchFree ==
  /\ unused_count > 0
  /\ TakeFrom(unused_list, unused_count)
  /\ UNCHANGED total

(* With no free session the pool grows first; the counter of free sessions *)
(* is the one that decides, not the list.                                  *)
FetchGrown ==
  /\ unused_count = 0
  /\ used_count < MaxSessions
  /\ LET n == BatchSize(used_count, IncreSessions)
     IN  /\ TakeFrom(unused_list \o FreshBatch(n), n)
         /\ total' = total + n

FetchHttpSessionUnused == FetchFree \/ FetchGrown

(* NULL: at the limit, or malloc() of the new batch failed.                *)
FetchNull == unused_count = 0 /\ UNCHANGED poolVars

(* Mutant: the session stays in the tree of sessions in use.               *)
ReleaseKeepsTree(s) ==
  /\ UNCHANGED <<used, total>>
  /\ unused_list' = Append(unused_list, s)
  /\ used_count' = used_count - 1
  /\ unused_count' = unused_count + 1

(* Mutant: the session is linked into the list, the counter stays.         *)
ReleaseUncounted(s) ==
  /\ used' = Restrict(used, InUse \ {s})
  /\ unused_list' = Append(unused_list, s)
  /\ used_count' = used_count - 1
  /\ UNCHANGED <<unused_count, total>>

(* The pool's share of SetHttpSessionUnused: out of the tree, to the tail  *)
(* of the list.                                                            *)
ReleaseSession(s) ==
  /\ used' = Restrict(used, InUse \ {s})
  /\ unused_list' = Append(unused_list, s)
  /\ used_count' = used_count - 1
  /\ unused_count' = unused_count + 1
  /\ UNCHANGED total

(* UpdateHttpSessionTimeoutTreeNode(now + timeout).                        *)
RefreshSession(s) ==
  /\ used' = [used EXCEPT ![s] = Timeout]
  /\ UNCHANGED <<unused_list, used_count, unused_count, total>>

(* The cached second moves on by one under every session in use.           *)
SecondPasses ==
  /\ used' = [s \in InUse |-> IF used[s] > 0 THEN used[s] - 1 ELSE 0]
  /\ UNCHANGED <<unused_list, used_count, unused_count, total>>

(* Mutant: a session expires one tick after its deadline.                  *)
ExpiredLate == {s \in InUse : used[s] < 0 /\ \A t \in InUse : used[s] <= used[t]}

(* What GetExpireHttpSessionTimeoutTreeNode can return: the earliest       *)
(* deadline of the tree, when it has passed.                               *)
Expired == {s \in InUse : used[s] <= 0 /\ \A t \in InUse : used[s] <= used[t]}
----------------------------------------------------------------------------
PoolNext ==
  \/ FetchHttpSessionUnused
  \/ FetchNull
  \/ SecondPasses
  \/ \E s \in InUse : ReleaseSession(s) \/ RefreshSession(s)

PoolSpec == PoolInit /\ [][PoolNext]_poolVars
----------------------------------------------------------------------------
(* Type invariant of the pool.                                             *)
PoolTypeOK ==
  /\ total \in 0..MaxSessions
  /\ unused_list \in Seq(1..total)
  /\ InUse \subseteq 1..total
  /\ used \in [InUse -> 0..Timeout]
  /\ used_count \in Nat
  /\ unused_count \in Nat

(* Every session ever allocated is in exactly one place, once: the list of *)
(* free sessions or the tree of sessions in use.  A session that is in     *)
(* both would be handed to two connections; one that is in neither is lost *)
(* for good (HttpSession.c moves sessions, it never frees one).            *)
EachSessionInOnePlace ==
  /\ \A i, j \in DOMAIN unused_list :
        unused_list[i] = unused_list[j] => i = j
  /\ \A i \in DOMAIN unused_list : unused_list[i] \notin InUse
  /\ \A s \in 1..total :
        s \in InUse \/ \E i \in DOMAIN unused_list : unused_list[i] = s

(* The two counters, which decide when to grow, when to refuse and when a  *)
(* worker told to finish may exit, agree with the list and the tree, and   *)
(* the pool never allocates past limits.max_http_session_count.            *)
CountersAgree ==
  /\ unused_count = Len(unused_list)
  /\ used_count = Cardinality(InUse)
  /\ used_count + unused_count = total
  /\ total <= MaxSessions
=============================================================================

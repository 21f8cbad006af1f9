-------------------------- MODULE WorkerLoopProofs --------------------------
(***************************************************************************)
(* First the session pool on its own, then the event loop that drives it.  *)
(*                                                                         *)
(* The pool never loses, duplicates or over-allocates a session, for every *)
(* limit, batch size and timeout.  Its three invariants are inductive only *)
(* together: that the list is nonempty when FetchFree takes its head is    *)
(* CountersAgree, that a fetched session was not in use is                 *)
(* EachSessionInOnePlace, and that a fresh session is new is PoolTypeOK.   *)
(*                                                                         *)
(* Then the event loop, for every number of sessions, every input and      *)
(* every interleaving.  The contract of the pool is that only sessions in  *)
(* use are released or refreshed.  The code asks nothing before it does    *)
(* either, and the model stops where the contract would be broken: so      *)
(* every step of the model is one of the pool, whose invariants hold of    *)
(* the worker, and what is proved of the code is where the contract can be *)
(* broken at all: for an event that was fetched before the sweep released  *)
(* its session, and for no other.  Keep-Alive refreshes without a guard in *)
(* the model too: only a session in use has a response to send.            *)
(***************************************************************************)
EXTENDS WorkerLoop, FiniteSetTheorems, TLAPS

USE DEF batchVars

PoolInv == PoolTypeOK /\ EachSessionInOnePlace /\ CountersAgree

(* What taking the head of the list does to it: the rest is a sequence of  *)
(* the same sessions, one shorter, shifted by one.                         *)
LEMMA TailFacts ==
  ASSUME NEW S, NEW q \in Seq(S), Len(q) > 0
  PROVE  /\ Head(q) = q[1]
         /\ Head(q) \in S
         /\ Tail(q) \in Seq(S)
         /\ Len(Tail(q)) = Len(q) - 1
         /\ \A m \in 1..Len(q)-1 : Tail(q)[m] = q[m+1]
  OBVIOUS

(* The sessions in use are finitely many.                                  *)
LEMMA InUseFinite == PoolTypeOK => IsFiniteSet(InUse)
<1>1. SUFFICES ASSUME PoolTypeOK PROVE IsFiniteSet(InUse)
  OBVIOUS
<1>2. IsFiniteSet(1..total)
  BY <1>1, FS_Interval DEF PoolTypeOK
<1> QED
  BY <1>1, <1>2, FS_Subset DEF PoolTypeOK

(* Counting: a session enters or leaves the tree one at a time.            *)
LEMMA CountAdd ==
  ASSUME PoolTypeOK, CountersAgree, NEW s, s \notin InUse
  PROVE  Cardinality(InUse \cup {s}) = used_count + 1
  BY InUseFinite, FS_AddElement DEF CountersAgree

LEMMA CountRemove ==
  ASSUME PoolTypeOK, CountersAgree, NEW s \in InUse
  PROVE  /\ Cardinality(InUse \ {s}) = used_count - 1
         /\ used_count > 0
<1>1. IsFiniteSet(InUse)
  BY InUseFinite
<1>2. Cardinality(InUse \ {s}) = Cardinality(InUse) - 1
  BY <1>1, FS_RemoveElement
<1>3. Cardinality(InUse) # 0
  BY <1>1, FS_EmptySet
<1> QED
  BY <1>2, <1>3 DEF CountersAgree, PoolTypeOK

(* The head of the list becomes a session in use; the list holds every     *)
(* session that is not in use, those of a batch just allocated included.   *)
LEMMA TakePreserves ==
  ASSUME PoolAssumption, PoolTypeOK, CountersAgree,
         NEW STATE list, NEW STATE n, n \in Nat,
         n = Len(list), n > 0,
         total' = used_count + n, total' \in 0..MaxSessions,
         total <= total',
         list \in Seq(1..total'),
         \A m, j \in 1..n : list[m] = list[j] => m = j,
         \A m \in 1..n : list[m] \notin InUse,
         \A s \in 1..total' : s \in InUse \/ \E m \in 1..n : list[m] = s,
         TakeFrom(list, n)
  PROVE  PoolInv'
<1> DEFINE h == Head(list)
<1>1. /\ h = list[1]
      /\ h \in 1..total'
      /\ Tail(list) \in Seq(1..total')
      /\ Len(Tail(list)) = n - 1
      /\ \A m \in 1..n-1 : Tail(list)[m] = list[m+1]
  BY TailFacts
<1>2. h \notin InUse
  BY <1>1
<1>3. InUse' = InUse \cup {h}
  BY DEF TakeFrom, InUse
<1>4. DOMAIN unused_list' = 1..n-1
  BY <1>1 DEF TakeFrom
<1>5. PoolTypeOK'
  <2>1. InUse' \subseteq 1..total'
    <3>1. /\ total \in Nat /\ total' \in Nat /\ total <= total'
          /\ InUse \subseteq 1..total
      BY DEF PoolTypeOK, PoolAssumption
    <3>2. 1..total \subseteq 1..total'
      BY <3>1
    <3> HIDE DEF h
    <3> QED
      BY <1>1, <1>3, <3>1, <3>2
  <2>2. used' \in [InUse' -> 0..Timeout]
    <3>1. used' = [s \in InUse \cup {h} |-> IF s = h THEN Timeout ELSE used[s]]
      BY DEF TakeFrom
    <3>2. /\ \A s \in InUse : used[s] \in 0..Timeout
          /\ Timeout \in 0..Timeout
      BY DEF PoolTypeOK, PoolAssumption
    <3> HIDE DEF h
    <3> QED
      BY <3>1, <3>2, <1>3
  <2>3. unused_list' \in Seq(1..total') /\ used_count' \in Nat /\ unused_count' \in Nat
    BY <1>1 DEF TakeFrom, PoolTypeOK
  <2> QED
    BY <2>1, <2>2, <2>3 DEF PoolTypeOK
<1>6. EachSessionInOnePlace'
  <2>1. \A m \in 1..n-1 : unused_list'[m] = list[m+1]
    BY <1>1 DEF TakeFrom
  <2>2. \A m, j \in 1..n-1 : unused_list'[m] = unused_list'[j] => m = j
    BY <2>1
  <2>3. \A m \in 1..n-1 : unused_list'[m] \notin InUse'
    BY <1>1, <1>3, <2>1
  <2>4. ASSUME NEW s \in 1..total'
        PROVE  s \in InUse' \/ \E m \in 1..n-1 : unused_list'[m] = s
    <3>1. CASE s \in InUse
      BY <3>1, <1>3
    <3>2. CASE s \notin InUse
      <4>1. PICK m \in 1..n : list[m] = s
        BY <3>2
      <4>2. CASE m = 1
        BY <4>1, <4>2, <1>1, <1>3
      <4>3. CASE m # 1
        <5>1. m-1 \in 1..n-1 /\ unused_list'[m-1] = list[(m-1)+1] /\ (m-1)+1 = m
          BY <4>3, <2>1
        <5> QED
          BY <5>1, <4>1
      <4> QED
        BY <4>2, <4>3
    <3> QED
      BY <3>1, <3>2
  <2> QED
    BY <1>4, <2>2, <2>3, <2>4 DEF EachSessionInOnePlace
<1>7. CountersAgree'
  <2>1. Cardinality(InUse') = used_count + 1
    BY <1>2, <1>3, CountAdd
  <2>2. total' <= MaxSessions
    BY PoolAssumption DEF PoolAssumption
  <2> QED
    BY <1>1, <2>1, <2>2 DEF CountersAgree, TakeFrom, PoolTypeOK
<1> QED
  BY <1>5, <1>6, <1>7 DEF PoolInv

(* Each operation of the pool preserves the invariant.                     *)
LEMMA FetchPreserves ==
  ASSUME PoolAssumption, PoolInv, FetchHttpSessionUnused
  PROVE  PoolInv'
<1> USE DEF PoolInv
<1>1. CASE FetchFree
  <2>1. TakeFrom(unused_list, unused_count) /\ total' = total /\ unused_count > 0
    BY <1>1 DEF FetchFree
  <2>2. /\ unused_count \in Nat
        /\ unused_count = Len(unused_list)
        /\ total = used_count + unused_count
        /\ total \in 0..MaxSessions
        /\ unused_list \in Seq(1..total)
        /\ DOMAIN unused_list = 1..unused_count
    BY DEF PoolTypeOK, CountersAgree
  <2>3. /\ \A m, j \in 1..unused_count : unused_list[m] = unused_list[j] => m = j
        /\ \A m \in 1..unused_count : unused_list[m] \notin InUse
        /\ \A s \in 1..total : s \in InUse \/ \E m \in 1..unused_count : unused_list[m] = s
    BY <2>2 DEF EachSessionInOnePlace
  <2> QED
    BY <2>1, <2>2, <2>3, TakePreserves
<1>2. CASE FetchGrown
  <2> DEFINE n == BatchSize(used_count, IncreSessions)
             list == unused_list \o FreshBatch(n)
  <2>1. /\ unused_count = 0
        /\ used_count < MaxSessions
        /\ TakeFrom(list, n)
        /\ total' = total + n
    BY <1>2 DEF FetchGrown
  <2>2. /\ unused_list = <<>>
        /\ total = used_count
        /\ total \in Nat
        /\ used_count \in Nat
        /\ InUse \subseteq 1..total
    <3>1. /\ unused_list \in Seq(1..total)
          /\ Len(unused_list) = 0
          /\ used_count + 0 = total
          /\ used_count \in Nat
          /\ InUse \subseteq 1..total
      BY <2>1 DEF PoolTypeOK, CountersAgree
    <3> QED
      BY <3>1
  <2>3. n \in Nat /\ n > 0 /\ used_count + n <= MaxSessions
    BY <2>1, <2>2 DEF BatchSize, PoolAssumption
  <2>4. /\ list = FreshBatch(n)
        /\ Len(list) = n
        /\ \A m \in 1..n : list[m] = total + m
        /\ list \in Seq(1..total+n)
    BY <2>2, <2>3 DEF FreshBatch
  <2>5. /\ total' = used_count + n
        /\ total' \in 0..MaxSessions
        /\ total <= total'
        /\ list \in Seq(1..total')
    BY <2>1, <2>2, <2>3, <2>4 DEF PoolAssumption
  <2>6. /\ \A m, j \in 1..n : list[m] = list[j] => m = j
        /\ \A m \in 1..n : list[m] \notin InUse
    BY <2>2, <2>3, <2>4
  <2>7. ASSUME NEW s \in 1..total'
        PROVE  s \in InUse \/ \E m \in 1..n : list[m] = s
    <3>1. CASE s \in 1..total
      BY <3>1, <2>2 DEF EachSessionInOnePlace
    <3>2. CASE s \notin 1..total
      <4>1. s - total \in 1..n /\ total + (s - total) = s
        BY <3>2, <2>1, <2>2, <2>3
      <4> QED
        BY <4>1, <2>4
    <3> QED
      BY <3>1, <3>2
  <2> HIDE DEF n, list
  <2> QED
    BY <2>1, <2>3, <2>4, <2>5, <2>6, <2>7, TakePreserves
<1> QED
  BY <1>1, <1>2 DEF FetchHttpSessionUnused

LEMMA ReleasePreserves ==
  ASSUME PoolAssumption, PoolInv, NEW s \in InUse, ReleaseSession(s)
  PROVE  PoolInv'
<1> USE DEF PoolInv
<1> DEFINE k == Len(unused_list)
<1>1. /\ InUse' = InUse \ {s}
      /\ used' = [t \in InUse \ {s} |-> used[t]]
      /\ total' = total
      /\ unused_list' = Append(unused_list, s)
  BY DEF ReleaseSession, InUse, Restrict
<1>2. /\ unused_list \in Seq(1..total)
      /\ s \in 1..total
      /\ k \in Nat
  BY DEF PoolTypeOK
<1>3. /\ Len(unused_list') = k + 1
      /\ DOMAIN unused_list' = 1..k+1
      /\ DOMAIN unused_list = 1..k
      /\ \A m \in 1..k : unused_list'[m] = unused_list[m]
      /\ unused_list'[k+1] = s
      /\ unused_list' \in Seq(1..total)
  BY <1>1, <1>2
<1>4. PoolTypeOK'
  <2>1. used_count' \in Nat /\ unused_count' \in Nat
    <3>1. used_count > 0
      BY CountRemove
    <3>2. used_count \in Nat /\ unused_count \in Nat
      BY DEF PoolTypeOK
    <3> QED
      BY <3>1, <3>2 DEF ReleaseSession
  <2>2. used' \in [InUse' -> 0..Timeout]
    BY <1>1 DEF PoolTypeOK
  <2> QED
    BY <1>1, <1>3, <2>1, <2>2 DEF PoolTypeOK
<1>5. EachSessionInOnePlace'
  <2>1. \A m \in 1..k : unused_list[m] \notin InUse /\ unused_list[m] # s
    BY <1>3 DEF EachSessionInOnePlace
  <2>2. \A m, j \in 1..k+1 : unused_list'[m] = unused_list'[j] => m = j
    BY <1>2, <1>3, <2>1 DEF EachSessionInOnePlace
  <2>3. \A m \in 1..k+1 : unused_list'[m] \notin InUse'
    BY <1>1, <1>2, <1>3, <2>1
  <2>4. ASSUME NEW t \in 1..total
        PROVE  t \in InUse' \/ \E m \in 1..k+1 : unused_list'[m] = t
    <3>1. CASE t = s
      BY <3>1, <1>2, <1>3
    <3>2. CASE t # s
      BY <3>2, <1>1, <1>2, <1>3 DEF EachSessionInOnePlace
    <3> QED
      BY <3>1, <3>2
  <2> QED
    BY <1>1, <1>3, <2>2, <2>3, <2>4 DEF EachSessionInOnePlace
<1>6. CountersAgree'
  <2>1. Cardinality(InUse') = used_count - 1
    BY <1>1, CountRemove
  <2> QED
    BY <1>1, <1>3, <2>1 DEF CountersAgree, ReleaseSession, PoolTypeOK
<1> QED
  BY <1>4, <1>5, <1>6

(* Refreshing a deadline and the passing of a second leave the places of   *)
(* the sessions alone.                                                     *)
LEMMA TimeoutPreserves ==
  ASSUME PoolAssumption, PoolInv,
         InUse' = InUse, used' \in [InUse -> 0..Timeout],
         UNCHANGED <<unused_list, used_count, unused_count, total>>
  PROVE  PoolInv'
BY DEF PoolInv, PoolTypeOK, EachSessionInOnePlace, CountersAgree

LEMMA PoolInitInv == ASSUME PoolAssumption, PoolInit PROVE PoolInv
<1>1. /\ total \in 1..MaxSessions
      /\ unused_list \in Seq(1..total)
      /\ Len(unused_list) = total
      /\ \A m \in 1..total : unused_list[m] = m
      /\ DOMAIN unused_list = 1..total
  BY DEF PoolInit, PoolAssumption, BatchSize
<1>2. InUse = {} /\ Cardinality(InUse) = 0
  BY FS_EmptySet DEF PoolInit, InUse
<1>3. PoolTypeOK
  BY <1>1, <1>2 DEF PoolTypeOK, PoolInit
<1>4. EachSessionInOnePlace
  BY <1>1, <1>2 DEF EachSessionInOnePlace
<1>5. CountersAgree
  BY <1>1, <1>2 DEF CountersAgree, PoolInit
<1> QED
  BY <1>3, <1>4, <1>5 DEF PoolInv

LEMMA PoolStepInv ==
  ASSUME PoolAssumption, PoolInv, [PoolNext]_poolVars
  PROVE  PoolInv'
<1>1. CASE FetchHttpSessionUnused
  BY <1>1, FetchPreserves
<1>2. CASE SecondPasses
  <2>1. InUse' = InUse /\ used' \in [InUse -> 0..Timeout]
    BY <1>2 DEF SecondPasses, InUse, PoolInv, PoolTypeOK, PoolAssumption
  <2> QED
    BY <2>1, <1>2, TimeoutPreserves DEF SecondPasses
<1>3. ASSUME NEW s \in InUse, ReleaseSession(s) PROVE PoolInv'
  BY <1>3, ReleasePreserves
<1>4. ASSUME NEW s \in InUse, RefreshSession(s) PROVE PoolInv'
  <2>1. InUse' = InUse /\ used' \in [InUse -> 0..Timeout]
    BY <1>4 DEF RefreshSession, InUse, PoolInv, PoolTypeOK, PoolAssumption
  <2> QED
    BY <2>1, <1>4, TimeoutPreserves DEF RefreshSession
<1>5. CASE UNCHANGED poolVars
  BY <1>5 DEF poolVars, PoolInv, PoolTypeOK, EachSessionInOnePlace, CountersAgree, InUse
<1> QED
  BY <1>1, <1>2, <1>3, <1>4, <1>5 DEF PoolNext, FetchNull

(* Every reachable state of the pool satisfies its invariants.             *)
THEOREM PoolCorrect == PoolSpec => []PoolInv
<1>1. PoolInit => PoolInv
  BY PoolAssumption, PoolInitInv
<1>2. PoolInv /\ [PoolNext]_poolVars => PoolInv'
  BY PoolAssumption, PoolStepInv
<1> QED
  BY <1>1, <1>2, PTL DEF PoolSpec

(* The sessions of HttpSession.c are neither lost nor handed out twice.    *)
THEOREM PoolPlaces == PoolSpec => []EachSessionInOnePlace
<1>1. PoolInv => EachSessionInOnePlace
  BY DEF PoolInv
<1> QED
  BY <1>1, PoolCorrect, PTL

(* The counters of HttpSession.c agree with its list and tree, and no more *)
(* sessions are allocated than limits.max_http_session_count.              *)
THEOREM PoolCounters == PoolSpec => []CountersAgree
<1>1. PoolInv => CountersAgree
  BY DEF PoolInv
<1> QED
  BY <1>1, PoolCorrect, PTL

-----------------------------------------------------------------------------

Replying == {"reply", "reply+"}

RepliesInUse == \A s \in Sessions : env[s] \in Replying => s \in InUse

(* A session in use is registered with epoll, for one direction.           *)
WatchedInUse == \A s \in InUse : mode[s] # "off"

ConnInv ==
  /\ env \in [Sessions -> Env]
  /\ mode \in [Sessions -> {"in", "out", "off"}]
  /\ RepliesInUse
  /\ WatchedInUse

LoopInv == PoolInv /\ ConnInv /\ batch \in Seq(Events)

(* What a worker told to finish has left behind.                           *)
ListenersGone ==
  g_exit_flag =>
    /\ ~listening /\ pc # "accept"
    /\ \A k \in 1..Len(batch) : batch[k].type # "listen"

LEMMA EventsFinite == IsFiniteSet(Events)
<1> DEFINE K == {"in", "out", "err"}
           http == {Event("http", s, k) : s \in Sessions, k \in K}
           f == [x \in Sessions \X K |-> Event("http", x[1], x[2])]
<1>1. IsFiniteSet(Sessions)
  BY PoolAssumption, FS_Interval DEF Sessions
<1>2. IsFiniteSet(K)
  <2>1. \A x : IsFiniteSet({x})
    BY FS_Singleton
  <2>2. IsFiniteSet({"in"} \cup {"out"})
    BY <2>1, FS_Union
  <2>3. IsFiniteSet(({"in"} \cup {"out"}) \cup {"err"})
    BY <2>1, <2>2, FS_Union
  <2>4. K = ({"in"} \cup {"out"}) \cup {"err"}
    OBVIOUS
  <2> QED
    BY <2>3, <2>4
<1>3. IsFiniteSet(Sessions \X K)
  BY <1>1, <1>2, FS_Product
<1>4. f \in Surjection(Sessions \X K, http)
  <2>1. f \in [Sessions \X K -> http]
    OBVIOUS
  <2>2. ASSUME NEW e \in http PROVE \E x \in Sessions \X K : f[x] = e
    <3>1. PICK s \in Sessions, k \in K : e = Event("http", s, k)
      OBVIOUS
    <3>2. <<s, k>> \in Sessions \X K /\ f[<<s, k>>] = e
      BY <3>1
    <3> QED
      BY <3>2
  <2> HIDE DEF f, http
  <2> QED
    BY <2>1, <2>2 DEF Surjection
<1>5. IsFiniteSet(http)
  BY <1>3, <1>4, FS_Surjection
<1> DEFINE other == {Event("listen", 0, "in")} \cup {Event("masked", 0, "in")}
                      \cup {Event("pipe", 0, "in")}
<1>6. IsFiniteSet(other)
  <2>1. \A x : IsFiniteSet({x})
    BY FS_Singleton
  <2>2. IsFiniteSet({Event("listen", 0, "in")} \cup {Event("masked", 0, "in")})
    BY <2>1, FS_Union
  <2> QED
    BY <2>1, <2>2, FS_Union
<1>7. Events = other \cup http
  BY DEF Events
<1> HIDE DEF other, http
<1> QED
  BY <1>5, <1>6, <1>7, FS_Union

(* An order of a finite set of events is a sequence of them.               *)
LEMMA OrderFacts ==
  ASSUME NEW R \in SUBSET Events, NEW q \in SetToSeqs(R)
  PROVE  q \in Seq(Events) /\ \A k \in 1..Len(q) : q[k] \in R
<1>1. IsFiniteSet(R) /\ Cardinality(R) \in Nat
  BY EventsFinite, FS_Subset, FS_CardinalityType
<1>2. q \in [1..Cardinality(R) -> R]
  BY DEF SetToSeqs
<1> QED
  BY <1>1, <1>2

LEMMA ReadyFacts ==
  ASSUME NEW w \in SUBSET InUse, NEW b \in SUBSET InUse, InUse \subseteq Sessions,
         mode \in [Sessions -> {"in", "out", "off"}],
         \A s \in InUse : mode[s] # "off"
  PROVE  Ready(w, b) \subseteq Events
  BY DEF Ready, Events

LEMMA PoolInSessions == ASSUME PoolInv PROVE InUse \subseteq Sessions
BY PoolAssumption DEF PoolInv, PoolTypeOK, Sessions, PoolAssumption

(* Going on in the batch keeps it a sequence of events, each of them one   *)
(* that was in it before.                                                  *)
LEMMA BatchFacts ==
  ASSUME batch \in Seq(Events), batch # <<>>, NEW n, ContinueAt(Tail(batch), n)
  PROVE  /\ batch' \in Seq(Events)
         /\ \A k \in 1..Len(batch') : \E j \in 1..Len(batch) : batch'[k] = batch[j]
<1>1. Len(batch) > 0
  OBVIOUS
<1>2. /\ Tail(batch) \in Seq(Events)
      /\ Len(Tail(batch)) = Len(batch) - 1
      /\ \A k \in 1..Len(batch)-1 : Tail(batch)[k] = batch[k+1]
  BY <1>1, TailFacts
<1>3. CASE batch' = <<>>
  BY <1>3
<1>4. CASE batch' = Tail(batch)
  <2>1. ASSUME NEW k \in 1..Len(batch') PROVE \E j \in 1..Len(batch) : batch'[k] = batch[j]
    <3>1. k + 1 \in 1..Len(batch) /\ batch'[k] = batch[k+1]
      BY <1>2, <1>4
    <3> QED
      BY <3>1
  <2> QED
    BY <1>2, <1>4, <2>1
<1> QED
  BY <1>3, <1>4 DEF ContinueAt

(* What the release of a session in use does.                              *)
LEMMA ReleaseFacts ==
  ASSUME PoolInv, ConnInv, NEW s \in InUse, SetHttpSessionUnused(s)
  PROVE  PoolNext /\ ConnInv'
<1>1. ReleaseSession(s) /\ s \in Sessions
  BY PoolInSessions DEF SetHttpSessionUnused
<1>2. InUse' = InUse \ {s}
  BY <1>1 DEF ReleaseSession, InUse, Restrict
<1>3. /\ env' = [env EXCEPT ![s] = AfterReset(@)]
      /\ mode' = [mode EXCEPT ![s] = "off"]
  BY DEF SetHttpSessionUnused
<1>4. AfterReset(env[s]) \in Env \ Replying
  BY DEF AfterReset, Env, Replying
<1>5. ConnInv'
  BY <1>1, <1>2, <1>3, <1>4, PoolInSessions DEF ConnInv, RepliesInUse, WatchedInUse
<1> QED
  BY <1>1, <1>5 DEF PoolNext

(* A step that leaves the pool and the connections alone.                  *)
LEMMA ConnStutter ==
  ASSUME ConnInv, UNCHANGED <<poolVars, mode, env>>
  PROVE  [PoolNext]_poolVars /\ ConnInv'
BY DEF poolVars, ConnInv, RepliesInUse, WatchedInUse, InUse

(* A step that moves deadlines only, and may re-arm one session in use.    *)
LEMMA RefreshFacts ==
  ASSUME PoolInv, ConnInv, NEW s \in InUse, RefreshSession(s),
         NEW e \in Env, env' = [env EXCEPT ![s] = e],
         NEW m \in {"in", "out"}, mode' = [mode EXCEPT ![s] = m]
  PROVE  PoolNext /\ ConnInv'
<1>1. InUse' = InUse /\ s \in Sessions
  BY PoolInSessions DEF RefreshSession, InUse, PoolInv, PoolTypeOK
<1>2. ConnInv'
  BY <1>1, PoolInSessions DEF ConnInv, RepliesInUse, WatchedInUse
<1> QED
  BY <1>2 DEF PoolNext

LEMMA EventPtr == \A e \in Events : e.type = "http" => e.ptr \in Sessions
BY DEF Events, Event

(* Handling the event at the head of the batch for its session.            *)
LEMMA HttpKeeps ==
  ASSUME LoopInv, HandleHttp
  PROVE  [PoolNext]_poolVars /\ ConnInv' /\ batch' \in Seq(Events)
<1> DEFINE s == Head(batch).ptr
<1>1. /\ batch # <<>> /\ batch \in Seq(Events) /\ PoolInv /\ ConnInv
      /\ s \in Sessions
  <2>1. batch # <<>> /\ batch \in Seq(Events) /\ PoolInv /\ ConnInv
    BY DEF LoopInv, HandleHttp, Dispatch
  <2>2. Head(batch) \in Events /\ Head(batch).type = "http"
    BY <2>1, TailFacts DEF HandleHttp, Dispatch
  <2> QED
    BY <2>1, <2>2, EventPtr
<1>2. ASSUME NextEvent PROVE batch' \in Seq(Events)
  BY <1>1, <1>2, BatchFacts DEF NextEvent
<1>3. ASSUME Undefined
      PROVE  [PoolNext]_poolVars /\ ConnInv' /\ batch' \in Seq(Events)
  BY <1>1, <1>3, ConnStutter DEF Undefined, connVars
<1>4. ASSUME Finish(s)
      PROVE  [PoolNext]_poolVars /\ ConnInv' /\ batch' \in Seq(Events)
  BY <1>1, <1>2, <1>3, <1>4, ReleaseFacts DEF Finish
<1>5. ASSUME NextEvent, UNCHANGED <<poolVars, connVars>>
      PROVE  [PoolNext]_poolVars /\ ConnInv' /\ batch' \in Seq(Events)
  BY <1>1, <1>2, <1>5, ConnStutter DEF connVars
<1>6. ASSUME NEW b, Parsed(s, b)
      PROVE  [PoolNext]_poolVars /\ ConnInv' /\ batch' \in Seq(Events)
  <2>1. CASE /\ env' = [env EXCEPT ![s] = IF b = "part" THEN "partial" ELSE "rejected"]
             /\ UNCHANGED <<poolVars, sock, mode>>
             /\ NextEvent
    <3>1. [PoolNext]_poolVars /\ InUse' = InUse
      BY <2>1 DEF poolVars, InUse
    <3>2. ConnInv'
      BY <1>1, <2>1, <3>1 DEF ConnInv, RepliesInUse, WatchedInUse, Env, Replying
    <3> QED
      BY <3>1, <3>2, <1>2, <2>1
  <2>2. CASE /\ s \in InUse
             /\ RefreshSession(s)
             /\ env' = [env EXCEPT ![s] = IF b = "full" THEN "reply" ELSE "reply+"]
             /\ mode' = [mode EXCEPT ![s] = "out"]
             /\ NextEvent
    <3>1. (IF b = "full" THEN "reply" ELSE "reply+") \in Env
      BY DEF Env
    <3> QED
      BY <1>1, <1>2, <2>2, <3>1, RefreshFacts
  <2> QED
    BY <1>6, <2>1, <2>2 DEF Parsed
<1>7. ASSUME OnReceivingSocket(s)
      PROVE  [PoolNext]_poolVars /\ ConnInv' /\ batch' \in Seq(Events)
  BY <1>3, <1>4, <1>5, <1>6, <1>7 DEF OnReceivingSocket
<1>8. ASSUME KeepAlive(s)
      PROVE  [PoolNext]_poolVars /\ ConnInv' /\ batch' \in Seq(Events)
  <2>1. s \in InUse
    BY <1>1, <1>8 DEF KeepAlive, ConnInv, RepliesInUse, Replying
  <2>2. AfterReset(env[s]) \in Env /\ env' = [env EXCEPT ![s] = AfterReset(env[s])]
    BY <1>8 DEF AfterReset, Env, KeepAlive
  <2> QED
    BY <1>1, <1>2, <1>8, <2>1, <2>2, RefreshFacts DEF KeepAlive
<1>9. ASSUME OnSendingSocket(s)
      PROVE  [PoolNext]_poolVars /\ ConnInv' /\ batch' \in Seq(Events)
  BY <1>4, <1>5, <1>8, <1>9 DEF OnSendingSocket
<1> QED
  BY <1>4, <1>7, <1>9 DEF HandleHttp

(* A session handed out is a new one in use.                               *)
LEMMA FetchFacts ==
  ASSUME PoolInv, FetchHttpSessionUnused
  PROVE  /\ InUse' = InUse \cup {NextSession} /\ NextSession \notin InUse
         /\ PoolInv' /\ InUse' \subseteq Sessions
<1>1. InUse' = InUse \cup {NextSession} /\ NextSession \notin InUse
  <2>1. CASE FetchFree
    <3>1. /\ unused_list \in Seq(1..total) /\ Len(unused_list) > 0
          /\ NextSession = Head(unused_list)
      BY <2>1 DEF FetchFree, NextSession, PoolInv, PoolTypeOK, CountersAgree
    <3>2. Head(unused_list) = unused_list[1] /\ 1 \in DOMAIN unused_list
      BY <3>1, TailFacts
    <3> QED
      BY <2>1, <3>1, <3>2 DEF FetchFree, TakeFrom, InUse, PoolInv, EachSessionInOnePlace
  <2>2. CASE FetchGrown
    <3> DEFINE n == BatchSize(used_count, IncreSessions)
               list == unused_list \o FreshBatch(n)
    <3>1. /\ unused_count = 0 /\ Len(unused_list) = 0 /\ unused_list \in Seq(1..total)
          /\ total \in Nat /\ used_count \in Nat /\ used_count < MaxSessions
          /\ InUse \subseteq 1..total
      BY <2>2 DEF FetchGrown, PoolInv, CountersAgree, PoolTypeOK
    <3>2. n \in Nat /\ n > 0
      BY <3>1, PoolAssumption DEF BatchSize
    <3>3. list = FreshBatch(n) /\ Head(list) = total + 1
      BY <3>1, <3>2 DEF FreshBatch
    <3>4. InUse' = InUse \cup {Head(list)}
      BY <2>2 DEF FetchGrown, TakeFrom, InUse
    <3>5. NextSession = total + 1 /\ total + 1 \notin InUse
      BY <3>1 DEF NextSession
    <3> QED
      BY <3>3, <3>4, <3>5
  <2> QED
    BY <2>1, <2>2 DEF FetchHttpSessionUnused
<1>2. PoolInv'
  BY PoolAssumption, PoolStepInv DEF PoolNext
<1>3. InUse' \subseteq 1..MaxSessions
  BY <1>2, PoolAssumption DEF PoolInv, PoolTypeOK, PoolAssumption
<1> QED
  BY <1>1, <1>2, <1>3 DEF Sessions

LEMMA AcceptKeeps ==
  ASSUME LoopInv, AcceptOne
  PROVE  [PoolNext]_poolVars /\ ConnInv' /\ batch' \in Seq(Events)
<1>1. /\ PoolInv /\ ConnInv /\ FetchHttpSessionUnused
      /\ UNCHANGED <<env, loopVars>> /\ mode' = [mode EXCEPT ![NextSession] = "in"]
  BY DEF LoopInv, AcceptOne
<1>2. ConnInv'
  BY <1>1, FetchFacts DEF ConnInv, RepliesInUse, WatchedInUse
<1> QED
  BY <1>1, <1>2 DEF LoopInv, PoolNext, loopVars

LEMMA LoopInit == Init => LoopInv
<1>1. SUFFICES ASSUME Init PROVE LoopInv
  OBVIOUS
<1>2. PoolInv
  BY <1>1, PoolAssumption, PoolInitInv DEF Init
<1>3. InUse = {}
  BY <1>1 DEF Init, PoolInit, InUse
<1>4. ConnInv
  BY <1>1, <1>3 DEF Init, ConnInv, RepliesInUse, WatchedInUse, Env, Replying
<1> QED
  BY <1>1, <1>2, <1>4 DEF Init, LoopInv

LEMMA NoEvents == <<>> \in Seq(Events)
OBVIOUS

LEMMA FunctionIsSequence ==
  ASSUME NEW S, NEW m \in Nat, NEW f \in [1..m -> S] PROVE f \in Seq(S)
OBVIOUS

(* Every step of the worker is a step of the pool or leaves it alone.      *)
LEMMA LoopStep ==
  ASSUME LoopInv, [Next]_vars
  PROVE  [PoolNext]_poolVars /\ LoopInv'
<1> DEFINE Kept == [PoolNext]_poolVars /\ ConnInv' /\ batch' \in Seq(Events)
<1>1. PoolInv /\ ConnInv /\ batch \in Seq(Events)
  BY DEF LoopInv
<1> SUFFICES Kept
  BY <1>1, PoolAssumption, PoolStepInv DEF LoopInv
<1>2. ASSUME UNCHANGED <<poolVars, connVars>>, batch' \in Seq(Events) PROVE Kept
  BY <1>1, <1>2, ConnStutter DEF connVars
<1>3. ASSUME UNCHANGED <<poolVars, mode, env, loopVars>> PROVE Kept
  BY <1>1, <1>3, ConnStutter DEF loopVars
<1>4. ASSUME Dispatch("listen") \/ Dispatch("pipe") \/ Dispatch("masked"),
             NEW n, ContinueAt(Tail(batch), n)
      PROVE  batch' \in Seq(Events)
  BY <1>1, <1>4, BatchFacts DEF Dispatch
<1>5. CASE EpollWait
  <2>1. PICK w \in SUBSET {s \in InUse : mode[s] = "out"},
             b \in SUBSET {s \in InUse : ErrorAlone /\ link[sock[s]] = "fin"} :
               batch' \in SetToSeqs(Ready(w, b))
    BY <1>5 DEF EpollWait
  <2>2. Ready(w, b) \subseteq Events
    BY <1>1, PoolInSessions, ReadyFacts DEF ConnInv, WatchedInUse
  <2>3. batch' \in Seq(Events)
    BY <2>1, <2>2, OrderFacts
  <2>4. UNCHANGED <<poolVars, mode, env>>
    BY <1>5 DEF EpollWait
  <2> QED
    BY <1>1, <2>3, <2>4, ConnStutter
<1>6. CASE WorkerExits \/ WorkerFails \/ SweepDone \/ HandleListen \/ ReadPastBatch
  <2>1. UNCHANGED <<poolVars, connVars>> /\ (batch' = batch \/ batch' = <<>>)
    BY <1>6 DEF WorkerExits, WorkerFails, SweepDone, HandleListen, ReadPastBatch
  <2>2. batch' \in Seq(Events)
    BY <1>1, <2>1, NoEvents
  <2> QED
    BY <1>2, <2>1, <2>2
<1>7. CASE SweepOne
  <2>1. PICK s \in InUse : SetHttpSessionUnused(s)
    BY <1>7 DEF SweepOne, Expired
  <2> QED
    BY <1>1, <1>7, <2>1, ReleaseFacts DEF SweepOne
<1>8. CASE AcceptOne
  BY <1>8, AcceptKeeps
<1>9. ASSUME AcceptRefused \/ AcceptDrained PROVE Kept
  <2>1. UNCHANGED <<poolVars, connVars>> /\ NextEvent
    BY <1>9 DEF AcceptRefused, AcceptDrained, FetchNull
  <2>2. CASE batch = <<>>
    BY <1>1, <1>2, <2>1, <2>2 DEF NextEvent, ContinueAt
  <2>3. CASE batch # <<>>
    BY <1>1, <1>2, <2>1, <2>3, BatchFacts DEF NextEvent
  <2> QED
    BY <2>2, <2>3
<1>10. CASE HandleHttp
  BY <1>10, HttpKeeps
<1>11. CASE HandleRelog \/ HandleMasked
  BY <1>2, <1>4, <1>11 DEF HandleRelog, HandleMasked, NextEvent
<1>12. CASE HandleEof
  <2> DEFINE q == [k \in 1..Len(batch)-1 |-> Masked(batch[k+1])]
  <2>1. q \in Seq(Events)
    <3>1. Len(batch) \in Nat /\ Len(batch) > 0
      BY <1>1, <1>12 DEF HandleEof, Dispatch
    <3>2. \A e \in Events : Masked(e) \in Events
      BY DEF Masked, Events
    <3>3. \A k \in 1..Len(batch)-1 : batch[k+1] \in Events
      BY <1>1, <3>1
    <3>4. q \in [1..Len(batch)-1 -> Events]
      BY <3>2, <3>3
    <3>5. Len(batch)-1 \in Nat
      BY <3>1
    <3> HIDE DEF q
    <3> QED
      BY <3>4, <3>5, FunctionIsSequence
  <2>2. (batch' = q \/ batch' = <<>>) /\ UNCHANGED <<poolVars, connVars>>
    BY <1>12 DEF HandleEof, ContinueAt
  <2> HIDE DEF q
  <2>3. batch' \in Seq(Events)
    BY <2>1, <2>2, NoEvents
  <2> QED
    BY <1>2, <2>2, <2>3
<1>13. CASE TimerUpdatesClock
  <2>1. SecondPasses /\ UNCHANGED <<mode, env, batch>>
    BY <1>13 DEF TimerUpdatesClock, connVars, loopVars
  <2>2. InUse' = InUse
    BY <2>1 DEF SecondPasses, InUse
  <2> QED
    BY <1>1, <2>1, <2>2 DEF PoolNext, ConnInv, RepliesInUse, WatchedInUse
<1>14. CASE TimerElapses \/ Environment
  BY <1>3, <1>14 DEF TimerElapses, Environment, ClientConnects, TakenByOtherWorker,
     ClientSends, ClientCloses, MasterWritesRelog, MasterClosesPipe, connVars
<1>15. CASE UNCHANGED vars
  BY <1>3, <1>15 DEF vars, connVars
<1> QED
  BY <1>5, <1>6, <1>7, <1>8, <1>9, <1>10, <1>11, <1>12, <1>13, <1>14, <1>15
     DEF Next, WorkerStep, TimerStep

(* Every step of the model is one of the pool.                             *)
LEMMA LoopIsPool == Spec => PoolSpec
<1>1. Init => PoolInit
  BY DEF Init
<1>2. LoopInv /\ [Next]_vars => [PoolNext]_poolVars /\ LoopInv'
  BY LoopStep
<1> QED
  BY <1>1, <1>2, LoopInit, PTL DEF Spec, PoolSpec

(* So no session of the worker is lost or serves two connections, and its  *)
(* counters are right: with them, when it refuses and when it may exit.    *)
THEOREM WorkerPool == Spec => [](EachSessionInOnePlace /\ CountersAgree)
BY LoopIsPool, PoolPlaces, PoolCounters, PTL

----------------------------------------------------------------------------
(* The accept loop ends with the listeners.                                *)

LEMMA GoneInit == Init => ListenersGone
BY DEF Init, ListenersGone

LEMMA GoneStep ==
  ASSUME LoopInv, ListenersGone, [Next]_vars
  PROVE  ListenersGone' /\ (g_exit_flag => g_exit_flag')
<1> DEFINE Calm == \A k \in 1..Len(batch) : batch[k].type # "listen"
           Gone == ListenersGone' /\ (g_exit_flag => g_exit_flag')
<1> SUFFICES Gone
  OBVIOUS
<1>1. batch \in Seq(Events)
  BY DEF LoopInv
<1>2. ASSUME g_exit_flag' = g_exit_flag, listening' = listening,
             pc' = pc \/ pc' # "accept", batch' = batch \/ batch' = <<>>
      PROVE  Gone
  BY <1>2 DEF ListenersGone
<1>3. ASSUME NEW n, batch # <<>>, ContinueAt(Tail(batch), n),
             g_exit_flag' = g_exit_flag, listening' = listening
      PROVE  Gone
  <2>1. pc' # "accept"
    BY <1>3 DEF ContinueAt
  <2>2. Calm => Calm'
    BY <1>1, <1>3, BatchFacts
  <2> QED
    BY <1>3, <2>1, <2>2 DEF ListenersGone
<1>4. CASE EpollWait
  <2>1. PICK w \in SUBSET {s \in InUse : mode[s] = "out"},
             b \in SUBSET {s \in InUse : ErrorAlone /\ link[sock[s]] = "fin"} :
               batch' \in SetToSeqs(Ready(w, b))
    BY <1>4 DEF EpollWait
  <2>2. Ready(w, b) \subseteq Events
    BY PoolInSessions, ReadyFacts DEF LoopInv, ConnInv, WatchedInUse
  <2>3. \A k \in 1..Len(batch') : batch'[k] \in Ready(w, b)
    BY <2>1, <2>2, OrderFacts
  <2>4. ~listening => \A e \in Ready(w, b) : e.type # "listen"
    BY DEF Ready, Event
  <2>5. pc' # "accept" /\ g_exit_flag' = g_exit_flag /\ listening' = listening
    BY <1>4 DEF EpollWait, flagVars, kernelVars
  <2> QED
    BY <2>3, <2>4, <2>5 DEF ListenersGone
<1>5. CASE HandleListen
  <2>1. batch # <<>> /\ Head(batch).type = "listen"
    BY <1>5 DEF HandleListen, Dispatch
  <2>2. 1 \in 1..Len(batch) /\ batch[1].type = "listen"
    BY <1>1, <2>1, TailFacts
  <2>3. ~g_exit_flag /\ g_exit_flag' = g_exit_flag
    BY <1>5, <2>2 DEF ListenersGone, HandleListen, flagVars
  <2> QED
    BY <2>3 DEF ListenersGone
<1>6. CASE AcceptOne \/ AcceptRefused \/ AcceptDrained
  <2>1. ~g_exit_flag /\ g_exit_flag' = g_exit_flag
    BY <1>6 DEF ListenersGone, AcceptOne, AcceptRefused, AcceptDrained, flagVars, kernelVars
  <2> QED
    BY <2>1 DEF ListenersGone
<1>7. CASE HandleHttp
  <2>1. /\ batch # <<>>
        /\ g_exit_flag' = g_exit_flag /\ listening' = listening
    BY <1>7 DEF HandleHttp, Dispatch, kernelVars, flagVars
  <2>2. NextEvent \/ Undefined
    BY <1>7 DEF HandleHttp, OnReceivingSocket, OnSendingSocket, KeepAlive, Parsed, Finish
  <2> QED
    BY <1>2, <1>3, <2>1, <2>2 DEF NextEvent, Undefined
<1>8. CASE HandleRelog \/ HandleMasked
  BY <1>3, <1>8 DEF HandleRelog, HandleMasked, Dispatch, NextEvent, kernelVars, flagVars
<1>9. CASE HandleEof
  <2> DEFINE q == [k \in 1..Len(batch)-1 |-> Masked(batch[k+1])]
  <2>1. Len(q) = Len(batch) - 1 /\ \A k \in 1..Len(q) : q[k] = Masked(batch[k+1])
    BY <1>1, <1>9 DEF HandleEof, Dispatch
  <2>2. \A e : Masked(e).type # "listen"
    BY DEF Masked, Event
  <2>3. /\ batch' = q \/ batch' = <<>>
        /\ pc' # "accept" /\ ~listening' /\ g_exit_flag'
    BY <1>9 DEF HandleEof, ContinueAt
  <2> HIDE DEF q
  <2> QED
    BY <2>1, <2>2, <2>3 DEF ListenersGone
<1>10. CASE \/ WorkerExits \/ WorkerFails \/ SweepOne \/ SweepDone \/ ReadPastBatch
            \/ TimerStep \/ Environment \/ UNCHANGED vars
  BY <1>2, <1>10 DEF WorkerExits, WorkerFails, SweepOne, SweepDone, ReadPastBatch,
     TimerStep, TimerUpdatesClock, TimerElapses, Environment, ClientConnects,
     TakenByOtherWorker, ClientSends, ClientCloses, MasterWritesRelog,
     MasterClosesPipe, vars, loopVars, kernelVars, flagVars
<1> QED
  BY <1>4, <1>5, <1>6, <1>7, <1>8, <1>9, <1>10 DEF Next, WorkerStep

(* A worker told to finish has closed its listeners, has no event of one   *)
(* left to handle, and so never goes to accept() again (WorkerProcess.c,   *)
(* end of file on the command pipe).                                       *)
THEOREM WorkerStopsAccepting == Spec => NoAcceptAfterExit
<1>1. LoopInv /\ ListenersGone /\ [Next]_vars => LoopInv' /\ ListenersGone'
  BY LoopStep, GoneStep
<1>2. LoopInv /\ ListenersGone /\ [Next]_vars => [g_exit_flag => pc' # "accept"]_vars
  BY GoneStep DEF ListenersGone
<1> QED
  BY <1>1, <1>2, LoopInit, GoneInit, PTL DEF Spec, NoAcceptAfterExit
----------------------------------------------------------------------------
(* Descriptors.  One socket more than sessions is enough because sockets   *)
(* and sessions in use match, which is the invariant to be kept.           *)

DescriptorInv ==
  /\ sock \in [Sessions -> Sockets] /\ link \in [Sockets -> Link]
  /\ SocketsMatchSessions

(* A set of numbers that is not empty has a least one.                     *)
LEMMA LeastExists ==
  ASSUME NEW T \in SUBSET Nat, T # {}
  PROVE  \E x \in T : \A y \in 1..x-1 : y \notin T
<1> DEFINE R == OpToRel(<, Nat)
<1>1. PICK x \in T : \A y \in T : ~ (<<y, x>> \in R)
  <2> HIDE DEF R
  <2>1. IsWellFoundedOn(R, Nat)
    BY NatLessThanWellFounded DEF R
  <2> QED
    BY <2>1, WFMin
<1>2. ASSUME NEW y \in 1..x-1, y \in T PROVE FALSE
  <2>1. x \in Nat /\ y \in Nat /\ y < x
    BY <1>2
  <2>2. <<y, x>> \in R
    BY <2>1 DEF OpToRel
  <2> QED
    BY <1>1, <1>2, <2>2
<1> QED
  BY <1>2

(* While a session is free, so is a socket.                                *)
LEMMA SocketLeft ==
  ASSUME PoolInv, DescriptorInv, NEW s \in Sessions, s \notin InUse
  PROVE  FreeSocket \in Sockets /\ link[FreeSocket] = "closed"
<1> DEFINE T == {f \in Sockets : link[f] = "closed"}
<1>1. IsFiniteSet(InUse) /\ Cardinality(InUse) <= MaxSessions
  <2>1. IsFiniteSet(Sessions) /\ Cardinality(Sessions) = MaxSessions
    BY PoolAssumption, FS_Interval DEF Sessions, PoolAssumption
  <2> QED
    BY <2>1, PoolInSessions, FS_Subset
<1>2. Cardinality(Sockets) = MaxSessions + 1
  BY PoolAssumption, FS_Interval DEF Sockets, PoolAssumption
<1>3. T # {}
  <2>1. SUFFICES ASSUME T = {} PROVE FALSE
    OBVIOUS
  <2> DEFINE g == [t \in InUse |-> sock[t]]
  <2>2. Sockets = {sock[t] : t \in InUse}
    BY <2>1 DEF DescriptorInv, SocketsMatchSessions
  <2>3. g \in Surjection(InUse, Sockets)
    BY <2>2 DEF Surjection
  <2>4. Cardinality(Sockets) <= Cardinality(InUse)
    BY <1>1, <2>3, FS_Surjection
  <2>5. Cardinality(InUse) \in Nat
    BY <1>1, FS_CardinalityType
  <2> QED
    BY <1>1, <1>2, <2>4, <2>5, PoolAssumption DEF PoolAssumption
<1>4. MaxSessions + 1 \in Nat /\ T \subseteq Nat /\ T \subseteq 1..MaxSessions+1
  BY PoolAssumption DEF Sockets, PoolAssumption
<1>5. PICK f \in T : \A y \in 1..f-1 : y \notin T
  BY <1>3, <1>4, LeastExists
<1>6. \A g \in 1..f-1 : g \in Sockets
  BY <1>4, <1>5 DEF Sockets
<1>7. f \in Sockets /\ link[f] = "closed" /\ \A g \in 1..f-1 : link[g] # "closed"
  BY <1>5, <1>6
<1> QED
  BY <1>7 DEF FreeSocket

(* What is written on an open connection, or read from it, keeps it open.  *)
LEMMA DescriptorKept ==
  ASSUME DescriptorInv, InUse' = InUse, sock' = sock, link' \in [Sockets -> Link],
         \A f \in Sockets : link'[f] = "closed" <=> link[f] = "closed"
  PROVE  DescriptorInv'
BY DEF DescriptorInv, SocketsMatchSessions

(* A release closes the one socket that was the session's.                 *)
LEMMA DescriptorReleased ==
  ASSUME PoolInv, DescriptorInv, NEW s \in InUse, SetHttpSessionUnused(s)
  PROVE  DescriptorInv'
<1>1. /\ InUse' = InUse \ {s} /\ sock' = sock
      /\ link' = [link EXCEPT ![sock[s]] = "closed"]
  BY DEF SetHttpSessionUnused, ReleaseSession, InUse, Restrict
<1>2. s \in Sessions /\ sock[s] \in Sockets /\ InUse \subseteq Sessions
  BY PoolInSessions DEF DescriptorInv
<1>3. link' \in [Sockets -> Link]
  BY <1>1, <1>2 DEF DescriptorInv, Link
<1>4. \A t \in InUse : sock[t] = sock[s] => t = s
  BY DEF DescriptorInv, SocketsMatchSessions
<1>5. {f \in Sockets : link'[f] # "closed"} = {f \in Sockets : link[f] # "closed"} \ {sock[s]}
  BY <1>1, <1>2 DEF DescriptorInv
<1>6. {sock'[t] : t \in InUse'} = {sock[t] : t \in InUse} \ {sock[s]}
  BY <1>1, <1>4
<1> QED
  BY <1>1, <1>3, <1>5, <1>6 DEF DescriptorInv, SocketsMatchSessions

(* A connection accepted is on a socket that no session had.               *)
LEMMA DescriptorAccepted ==
  ASSUME PoolInv, DescriptorInv, AcceptOne
  PROVE  DescriptorInv'
<1> DEFINE s == NextSession
           f == FreeSocket
<1>1. /\ InUse' = InUse \cup {s} /\ s \notin InUse /\ s \in Sessions
      /\ InUse \subseteq Sessions
  BY FetchFacts DEF AcceptOne
<1>2. f \in Sockets /\ link[f] = "closed"
  BY <1>1, SocketLeft
<1>3. /\ sock' = [sock EXCEPT ![s] = f]
      /\ link' = [link EXCEPT ![f] = "none"]
  BY DEF AcceptOne
<1> HIDE DEF s, f
<1>4. sock' \in [Sessions -> Sockets] /\ link' \in [Sockets -> Link]
  BY <1>1, <1>2, <1>3 DEF DescriptorInv, Link
<1>5. sock'[s] = f /\ \A t \in InUse : sock'[t] = sock[t]
  BY <1>1, <1>3 DEF DescriptorInv
<1>6. {g \in Sockets : link'[g] # "closed"} = {g \in Sockets : link[g] # "closed"} \cup {f}
  BY <1>2, <1>3 DEF DescriptorInv
<1>7. {sock'[t] : t \in InUse'} = {sock[t] : t \in InUse} \cup {f}
  BY <1>1, <1>5
<1>8. \A t \in InUse : sock[t] # f
  BY <1>2 DEF DescriptorInv, SocketsMatchSessions
<1>9. \A t, u \in InUse' : sock'[t] = sock'[u] => t = u
  BY <1>1, <1>5, <1>8 DEF DescriptorInv, SocketsMatchSessions
<1> QED
  BY <1>4, <1>6, <1>7, <1>9 DEF DescriptorInv, SocketsMatchSessions

LEMMA DescriptorHttp ==
  ASSUME LoopInv, DescriptorInv, HandleHttp
  PROVE  DescriptorInv'
<1> DEFINE s == Head(batch).ptr
           f == sock[s]
<1>1. PoolInv /\ s \in Sessions /\ f \in Sockets /\ link \in [Sockets -> Link]
  <2>1. batch # <<>> /\ batch \in Seq(Events) /\ PoolInv
    BY DEF LoopInv, HandleHttp, Dispatch
  <2>2. Head(batch) \in Events /\ Head(batch).type = "http"
    BY <2>1, TailFacts DEF HandleHttp, Dispatch
  <2> QED
    BY <2>1, <2>2, EventPtr DEF DescriptorInv
<1> HIDE DEF s
<1>2. ASSUME UNCHANGED <<used, sock, link>> PROVE DescriptorInv'
  BY <1>2 DEF DescriptorInv, SocketsMatchSessions, InUse
<1>3. ASSUME Finish(s) PROVE DescriptorInv'
  BY <1>1, <1>2, <1>3, DescriptorReleased DEF Finish, Undefined, poolVars, connVars
<1>4. ASSUME NEW b, Parsed(s, b) PROVE InUse' = InUse /\ sock' = sock
  BY <1>4 DEF Parsed, RefreshSession, poolVars, InUse
<1>5. ASSUME NEW b \in Input, Parsed(s, b), link[f] = b, link' = [link EXCEPT ![f] = "none"]
      PROVE  DescriptorInv'
  <2>1. link[f] # "closed"
    BY <1>5, WorkerAssumption DEF WorkerAssumption, Bytes
  <2>2. /\ link' \in [Sockets -> Link]
        /\ \A g \in Sockets : link'[g] = "closed" <=> link[g] = "closed"
    BY <1>1, <1>5, <2>1 DEF Link
  <2> QED
    BY <1>4, <1>5, <2>2, DescriptorKept
<1>6. ASSUME NEW b \in Input, Parsed(s, b), UNCHANGED link PROVE DescriptorInv'
  BY <1>1, <1>4, <1>6, DescriptorKept
<1>7. ASSUME Undefined \/ UNCHANGED <<poolVars, connVars>> PROVE DescriptorInv'
  BY <1>2, <1>7 DEF Undefined, poolVars, connVars
<1>8. ASSUME OnReceivingSocket(s) PROVE DescriptorInv'
  BY <1>3, <1>5, <1>6, <1>7, <1>8 DEF OnReceivingSocket
<1>9. ASSUME KeepAlive(s) PROVE DescriptorInv'
  BY <1>1, <1>9, DescriptorKept DEF KeepAlive, RefreshSession, InUse
<1>10. ASSUME OnSendingSocket(s) PROVE DescriptorInv'
  BY <1>3, <1>7, <1>9, <1>10 DEF OnSendingSocket
<1> QED
  BY <1>3, <1>8, <1>10 DEF HandleHttp, s

LEMMA DescriptorInit == Init => DescriptorInv
<1>1. SUFFICES ASSUME Init PROVE DescriptorInv
  OBVIOUS
<1>2. InUse = {}
  BY <1>1 DEF Init, PoolInit, InUse
<1>3. 1 \in Sockets
  BY PoolAssumption DEF Sockets, PoolAssumption
<1> QED
  BY <1>1, <1>2, <1>3 DEF Init, DescriptorInv, SocketsMatchSessions, Link

LEMMA DescriptorStep ==
  ASSUME LoopInv, DescriptorInv, [Next]_vars
  PROVE  DescriptorInv'
<1>1. PoolInv
  BY DEF LoopInv
<1>2. ASSUME InUse' = InUse, UNCHANGED <<sock, link>> PROVE DescriptorInv'
  BY <1>2 DEF DescriptorInv, SocketsMatchSessions
<1>3. CASE EpollWait
  <2>1. /\ InUse' = InUse /\ link' = link
        /\ sock' = [s \in Sessions |-> IF s \in InUse THEN sock[s] ELSE 1]
    BY <1>3 DEF EpollWait, poolVars, InUse
  <2>2. 1 \in Sockets /\ InUse \subseteq Sessions
    BY <1>1, PoolInSessions, PoolAssumption DEF Sockets, PoolAssumption
  <2>3. sock' \in [Sessions -> Sockets] /\ \A s \in InUse : sock'[s] = sock[s]
    BY <2>1, <2>2 DEF DescriptorInv
  <2>4. {sock'[s] : s \in InUse'} = {sock[s] : s \in InUse}
    BY <2>1, <2>3
  <2>5. \A s, t \in InUse' : sock'[s] = sock'[t] => s = t
    BY <2>1, <2>3 DEF DescriptorInv, SocketsMatchSessions
  <2>6. {f \in Sockets : link'[f] # "closed"} = {sock[s] : s \in InUse}
    BY <2>1 DEF DescriptorInv, SocketsMatchSessions
  <2>7. link' \in [Sockets -> Link]
    BY <2>1 DEF DescriptorInv
  <2> QED
    BY <2>3, <2>4, <2>5, <2>6, <2>7 DEF DescriptorInv, SocketsMatchSessions
<1>4. CASE SweepOne
  <2>1. PICK s \in InUse : SetHttpSessionUnused(s)
    BY <1>4 DEF SweepOne, Expired
  <2> QED
    BY <1>1, <2>1, DescriptorReleased
<1>5. CASE AcceptOne
  BY <1>1, <1>5, DescriptorAccepted
<1>6. CASE HandleHttp
  BY <1>6, DescriptorHttp
<1>7. CASE TimerUpdatesClock
  BY <1>2, <1>7 DEF TimerUpdatesClock, SecondPasses, InUse, connVars
<1>8. CASE \E f \in Sockets : ClientSends(f) \/ ClientCloses(f)
  <2>1. PICK f \in Sockets : ClientSends(f) \/ ClientCloses(f)
    BY <1>8
  <2>2. PICK b \in Input \cup {"fin"} : link' = [link EXCEPT ![f] = b] /\ link[f] # "closed"
    BY <2>1 DEF ClientSends, ClientCloses
  <2>3. b \in Link \ {"closed"}
    BY <2>2, WorkerAssumption DEF WorkerAssumption, Link, Bytes
  <2>4. /\ link' \in [Sockets -> Link]
        /\ \A g \in Sockets : link'[g] = "closed" <=> link[g] = "closed"
    BY <2>2, <2>3 DEF DescriptorInv
  <2>5. InUse' = InUse /\ sock' = sock
    BY <2>1 DEF ClientSends, ClientCloses, poolVars, InUse
  <2> QED
    BY <2>4, <2>5, DescriptorKept
<1>9. CASE \/ WorkerExits \/ WorkerFails \/ SweepDone \/ HandleListen \/ ReadPastBatch
           \/ AcceptRefused \/ AcceptDrained \/ HandleRelog \/ HandleMasked \/ HandleEof
           \/ TimerElapses \/ ClientConnects \/ TakenByOtherWorker
           \/ MasterWritesRelog \/ MasterClosesPipe \/ UNCHANGED vars
  <2>1. UNCHANGED <<poolVars, connVars>>
    BY <1>9 DEF WorkerExits, WorkerFails, SweepDone, HandleListen, ReadPastBatch,
       AcceptRefused, FetchNull, AcceptDrained, HandleRelog, HandleMasked, HandleEof,
       TimerElapses, ClientConnects, TakenByOtherWorker, MasterWritesRelog,
       MasterClosesPipe, vars
  <2> QED
    BY <1>2, <2>1 DEF poolVars, connVars, InUse
<1> QED
  BY <1>3, <1>4, <1>5, <1>6, <1>7, <1>8, <1>9 DEF Next, WorkerStep, TimerStep, Environment

(* The open connections are the sockets of the sessions in use, one each:  *)
(* none leaks and none is shared, whatever is accepted, refused at the     *)
(* limit, timed out, failed or finished (HttpSession.c, On*Socket.c).      *)
THEOREM WorkerSockets == Spec => []SocketsMatchSessions
<1>1. LoopInv /\ DescriptorInv /\ [Next]_vars => LoopInv' /\ DescriptorInv'
  BY LoopStep, DescriptorStep
<1>2. DescriptorInv => SocketsMatchSessions
  BY DEF DescriptorInv
<1> QED
  BY <1>1, <1>2, LoopInit, DescriptorInit, PTL DEF Spec

----------------------------------------------------------------------------
(* The rest of the types, and the end of the worker.                       *)

LoopTypes ==
  /\ backlog \in 0..MaxBacklog /\ relog \in 0..MaxRelog
  /\ {listening, eof, g_exit_flag, g_second_elapse} \subseteq BOOLEAN
  /\ timer \in {"update", "sleep"}
  /\ pc \in {"events", "sweep", "accept", "exited", "failed", "crashed", "undefined"}
  /\ i \in Nat /\ nfds \in Nat /\ swept \subseteq Sessions

LEMMA LoopTypesInit == Init => LoopTypes
<1>1. SUFFICES ASSUME Init PROVE LoopTypes
  OBVIOUS
<1>2. backlog \in 0..MaxBacklog /\ relog \in 0..MaxRelog
  BY <1>1, WorkerAssumption DEF Init, WorkerAssumption
<1>3. /\ listening = TRUE /\ eof = FALSE /\ g_exit_flag = FALSE /\ g_second_elapse = FALSE
      /\ timer = "update" /\ pc = "events" /\ i = 0 /\ nfds = 0 /\ swept = {}
  BY <1>1 DEF Init
<1> QED
  BY <1>2, <1>3 DEF LoopTypes

LEMMA ContinueTypes ==
  ASSUME LoopTypes, NEW q, NEW n \in Nat, ContinueAt(q, n)
  PROVE  pc' = "events" /\ i' \in Nat /\ nfds' \in Nat /\ swept' \subseteq Sessions
BY DEF LoopTypes, ContinueAt

LEMMA LoopTypesStep ==
  ASSUME LoopInv, LoopTypes, [Next]_vars
  PROVE  LoopTypes'
<1> DEFINE World == /\ backlog' \in 0..MaxBacklog /\ relog' \in 0..MaxRelog
                    /\ {listening', eof'} \subseteq BOOLEAN
           Flags == /\ {g_exit_flag', g_second_elapse'} \subseteq BOOLEAN
                    /\ timer' \in {"update", "sleep"}
           Loop  == /\ pc' \in {"events", "sweep", "accept", "exited", "failed",
                                "crashed", "undefined"}
                    /\ i' \in Nat /\ nfds' \in Nat /\ swept' \subseteq Sessions
<1>1. UNCHANGED kernelVars => World
  BY DEF kernelVars, LoopTypes
<1>2. UNCHANGED flagVars => Flags
  BY DEF flagVars, LoopTypes
<1>3. UNCHANGED loopVars => Loop
  BY DEF loopVars, LoopTypes
<1>4. UNCHANGED <<i, nfds>> /\ swept' \subseteq Sessions
        /\ pc' \in {"events", "sweep", "accept", "exited", "crashed", "undefined"} => Loop
  BY DEF LoopTypes
<1>5. i + 1 \in Nat /\ HashSize + 1 \in Nat
  BY WorkerAssumption DEF LoopTypes, WorkerAssumption
<1>6. ASSUME NEW q, ContinueAt(q, i + 1) \/ ContinueAt(q, HashSize + 1) PROVE Loop
  BY <1>5, <1>6, ContinueTypes
<1>7. NextEvent => Loop
  BY <1>6 DEF NextEvent
<1>8. MaxBacklog \in Nat /\ MaxRelog \in Nat
  BY WorkerAssumption DEF WorkerAssumption
<1>9. World /\ Flags /\ Loop => LoopTypes'
  BY DEF LoopTypes
<1>10. CASE EpollWait
  <2>1. PICK R : batch' \in SetToSeqs(R) /\ R \subseteq Events
    <3>1. PICK w \in SUBSET {s \in InUse : mode[s] = "out"},
               b \in SUBSET {s \in InUse : ErrorAlone /\ link[sock[s]] = "fin"} :
                 batch' \in SetToSeqs(Ready(w, b))
      BY <1>10 DEF EpollWait
    <3> QED
      BY <3>1, PoolInSessions, ReadyFacts DEF LoopInv, ConnInv, WatchedInUse
  <2>2. Len(batch') \in Nat
    BY <2>1, OrderFacts
  <2>3. Loop /\ UNCHANGED <<kernelVars, flagVars>>
    BY <1>10, <2>2 DEF EpollWait
  <2> QED
    BY <1>1, <1>2, <1>9, <2>3
<1>11. CASE WorkerExits \/ HandleListen \/ ReadPastBatch \/ SweepOne
  <2>1. UNCHANGED <<kernelVars, flagVars, i, nfds>> /\ swept' \subseteq Sessions
    <3>1. CASE SweepOne
      <4>1. PICK s \in Expired : swept' = swept \cup {batch[k].ptr : k \in
                                     {j \in DOMAIN batch : batch[j].ptr = s}}
        BY <3>1 DEF SweepOne
      <4>2. s \in Sessions
        BY PoolInSessions DEF Expired, LoopInv
      <4> QED
        BY <3>1, <4>1, <4>2 DEF SweepOne, LoopTypes
    <3> QED
      BY <1>11, <3>1 DEF WorkerExits, HandleListen, ReadPastBatch, LoopTypes
  <2>2. Loop /\ UNCHANGED <<kernelVars, flagVars>>
    BY <1>4, <1>11, <2>1 DEF WorkerExits, HandleListen, ReadPastBatch, SweepOne, LoopTypes
  <2> QED
    BY <1>1, <1>2, <1>9, <2>2
<1>12. CASE WorkerFails
  BY <1>1, <1>2, <1>9, <1>12 DEF WorkerFails
<1>13. CASE SweepDone
  <2>1. UNCHANGED kernelVars /\ Loop /\ Flags
    BY <1>4, <1>13 DEF SweepDone, LoopTypes
  <2> QED
    BY <1>1, <1>9, <2>1
<1>14. CASE AcceptOne
  <2>1. World /\ UNCHANGED <<loopVars, flagVars>>
    BY <1>8, <1>14 DEF AcceptOne, LoopTypes
  <2> QED
    BY <1>2, <1>3, <1>9, <2>1
<1>15. CASE AcceptRefused
  <2>1. World /\ NextEvent /\ UNCHANGED flagVars
    BY <1>8, <1>15 DEF AcceptRefused, LoopTypes
  <2> QED
    BY <1>2, <1>7, <1>9, <2>1
<1>16. CASE AcceptDrained \/ HandleMasked
  <2>1. NextEvent /\ UNCHANGED <<kernelVars, flagVars>>
    BY <1>16 DEF AcceptDrained, HandleMasked
  <2> QED
    BY <1>1, <1>2, <1>7, <1>9, <2>1
<1>17. CASE HandleHttp
  <2>1. UNCHANGED <<kernelVars, flagVars>> /\ (NextEvent \/ Undefined)
    BY <1>17 DEF HandleHttp, OnReceivingSocket, OnSendingSocket, KeepAlive, Parsed, Finish
  <2>2. Undefined => Loop
    BY <1>4 DEF Undefined, LoopTypes
  <2> QED
    BY <1>1, <1>2, <1>7, <1>9, <2>1, <2>2
<1>18. CASE HandleRelog
  <2>1. World /\ UNCHANGED flagVars /\ ContinueAt(Tail(batch), HashSize + 1)
    BY <1>8, <1>18 DEF HandleRelog, LoopTypes
  <2> QED
    BY <1>2, <1>6, <1>9, <2>1
<1>19. CASE HandleEof
  <2>1. backlog' \in 0..MaxBacklog /\ relog' \in 0..MaxRelog
    BY <1>8, <1>19 DEF HandleEof, LoopTypes
  <2>2. listening' = FALSE /\ eof' = eof /\ g_exit_flag' = TRUE
        /\ g_second_elapse' = g_second_elapse /\ timer' = timer
    BY <1>19 DEF HandleEof
  <2>3. World /\ Flags
    BY <2>1, <2>2 DEF LoopTypes
  <2>4. Loop
    BY <1>6, <1>19 DEF HandleEof
  <2> QED
    BY <1>9, <2>3, <2>4
<1>20. CASE TimerStep
  <2>1. UNCHANGED <<kernelVars, loopVars>> /\ Flags
    BY <1>20 DEF TimerStep, TimerUpdatesClock, TimerElapses, LoopTypes
  <2> QED
    BY <1>1, <1>3, <1>9, <2>1
<1>21. CASE Environment
  <2>1. /\ UNCHANGED <<loopVars, flagVars>>
        /\ listening' = listening /\ (eof' = eof \/ eof' = TRUE)
    BY <1>21 DEF Environment, ClientConnects, TakenByOtherWorker, ClientSends,
       ClientCloses, MasterWritesRelog, MasterClosesPipe, kernelVars
  <2>2. backlog' \in 0..MaxBacklog /\ relog' \in 0..MaxRelog
    BY <1>8, <1>21 DEF Environment, ClientConnects, TakenByOtherWorker, ClientSends,
       ClientCloses, MasterWritesRelog, MasterClosesPipe, kernelVars, LoopTypes
  <2>3. World
    BY <2>1, <2>2 DEF LoopTypes
  <2> QED
    BY <1>2, <1>3, <1>9, <2>1, <2>3
<1>22. CASE UNCHANGED vars
  BY <1>1, <1>2, <1>3, <1>9, <1>22 DEF vars
<1> QED
  BY <1>10, <1>11, <1>12, <1>13, <1>14, <1>15, <1>16, <1>17, <1>18, <1>19, <1>20,
     <1>21, <1>22 DEF Next, WorkerStep

(* Every variable of the worker keeps its type.                            *)
THEOREM WorkerTypes == Spec => []TypeOK
<1>1. LoopInv /\ DescriptorInv /\ LoopTypes /\ [Next]_vars
        => LoopInv' /\ DescriptorInv' /\ LoopTypes'
  BY LoopStep, DescriptorStep, LoopTypesStep
<1>2. LoopInv /\ DescriptorInv /\ LoopTypes => TypeOK
  BY DEF LoopInv, PoolInv, ConnInv, DescriptorInv, LoopTypes, TypeOK
<1> QED
  BY <1>1, <1>2, LoopInit, DescriptorInit, LoopTypesInit, PTL DEF Spec

LEMMA DrainedStep ==
  ASSUME LoopInv, DescriptorInv, ListenersGone, ExitIsDrained, [Next]_vars
  PROVE  ExitIsDrained'
<1>1. SUFFICES ASSUME pc' = "exited"
               PROVE  InUse' = {} /\ ~listening' /\ \A f \in Sockets : link'[f] = "closed"
  BY DEF ExitIsDrained
<1>2. CASE WorkerExits
  <2>1. used_count = 0 /\ g_exit_flag /\ UNCHANGED <<poolVars, connVars, kernelVars>>
    BY <1>2 DEF WorkerExits
  <2>2. InUse = {}
    BY <2>1, InUseFinite, FS_EmptySet DEF LoopInv, PoolInv, CountersAgree
  <2>3. ~listening
    BY <2>1 DEF ListenersGone
  <2>4. \A f \in Sockets : link[f] = "closed"
    BY <2>2 DEF DescriptorInv, SocketsMatchSessions
  <2> QED
    BY <2>1, <2>2, <2>3, <2>4 DEF poolVars, connVars, kernelVars, InUse
<1>3. CASE UNCHANGED vars
  BY <1>1, <1>3 DEF vars, poolVars, connVars, kernelVars, loopVars, InUse, ExitIsDrained
<1>4. CASE TimerStep \/ Environment \/ SweepOne \/ AcceptOne
  <2>1. Running /\ pc' = pc
    BY <1>4 DEF TimerStep, TimerUpdatesClock, TimerElapses, Environment, ClientConnects,
       TakenByOtherWorker, ClientSends, ClientCloses, MasterWritesRelog, MasterClosesPipe,
       SweepOne, AcceptOne, loopVars, Running
  <2> QED
    BY <1>1, <2>1 DEF Running
<1>5. CASE \/ EpollWait \/ WorkerFails \/ SweepDone \/ HandleListen \/ ReadPastBatch
           \/ AcceptRefused \/ AcceptDrained \/ HandleHttp \/ HandleRelog
           \/ HandleMasked \/ HandleEof
  <2>1. pc' # "exited"
    BY <1>5 DEF EpollWait, WorkerFails, SweepDone, HandleListen, ReadPastBatch,
       AcceptRefused, AcceptDrained, HandleHttp, OnReceivingSocket, OnSendingSocket,
       KeepAlive, Parsed, Finish, Undefined, HandleRelog, HandleMasked, HandleEof,
       NextEvent, ContinueAt
  <2> QED
    BY <1>1, <2>1
<1> QED
  BY <1>2, <1>3, <1>4, <1>5 DEF Next, WorkerStep

(* A worker that ran to its end has served every connection it accepted    *)
(* until that one was closed, and holds no listener (WorkerProcess.c: the  *)
(* loop ends with g_exit_flag and http_session_used_count = 0).            *)
THEOREM WorkerDrains == Spec => []ExitIsDrained
<1>1. Init => ExitIsDrained
  BY DEF Init, ExitIsDrained
<1>2. LoopInv /\ DescriptorInv /\ ListenersGone /\ ExitIsDrained /\ [Next]_vars
        => LoopInv' /\ DescriptorInv' /\ ListenersGone' /\ ExitIsDrained'
  BY LoopStep, DescriptorStep, GoneStep, DrainedStep
<1> QED
  BY <1>1, <1>2, LoopInit, DescriptorInit, GoneInit, PTL DEF Spec
----------------------------------------------------------------------------
(* Who waits for output.  An event to read was fetched while its session   *)
(* had no response, and it has none when the event is handled: no session  *)
(* has two events in a batch.                                              *)

InNotReplying ==
  \A k \in 1..Len(batch) :
    batch[k].type = "http" /\ batch[k].kind = "in" => env[batch[k].ptr] \notin Replying

OneEach ==
  \A j, k \in 1..Len(batch) :
    j # k /\ batch[j].type = "http" /\ batch[k].type = "http" => batch[j].ptr # batch[k].ptr

ArmedInv == ReplyArmed /\ InNotReplying /\ OneEach

(* A batch is an order of its events: none is in it twice.                 *)
LEMMA OrderIsOnce ==
  ASSUME NEW R \in SUBSET Events, NEW q \in SetToSeqs(R)
  PROVE  \A j, k \in 1..Len(q) : j # k => q[j] # q[k]
<1>1. IsFiniteSet(R) /\ Cardinality(R) \in Nat
  BY EventsFinite, FS_Subset, FS_CardinalityType
<1>2. /\ q \in [1..Cardinality(R) -> R]
      /\ \A j, k \in 1..Cardinality(R) : j # k => q[j] # q[k]
  BY DEF SetToSeqs
<1> QED
  BY <1>1, <1>2

(* Going on in the batch.                                                  *)
LEMMA GoOnFacts ==
  ASSUME batch \in Seq(Events), batch # <<>>, NEW n, ContinueAt(Tail(batch), n)
  PROVE  \A k \in 1..Len(batch') :
           k # 0 /\ k+1 \in 1..Len(batch) /\ k+1 # 1 /\ batch'[k] = batch[k+1]
<1>1. Len(batch) > 0
  OBVIOUS
<1>2. /\ Len(Tail(batch)) = Len(batch) - 1
      /\ \A k \in 1..Len(batch)-1 : Tail(batch)[k] = batch[k+1]
  BY <1>1, TailFacts
<1>3. batch' = <<>> \/ batch' = Tail(batch)
  BY DEF ContinueAt
<1> QED
  BY <1>2, <1>3

LEMMA BatchArmed ==
  ASSUME batch \in Seq(Events), InNotReplying, OneEach, batch # <<>>,
         NEW n, ContinueAt(Tail(batch), n),
         \A t \in Sessions : t # Head(batch).ptr \/ Head(batch).type # "http" =>
           (env'[t] \in Replying => env[t] \in Replying)
  PROVE  InNotReplying' /\ OneEach'
<1>1. 1 \in 1..Len(batch) /\ Head(batch) = batch[1]
  OBVIOUS
<1>2. OneEach'
  <2> SUFFICES ASSUME NEW j \in 1..Len(batch'), NEW k \in 1..Len(batch'), j # k,
                      batch'[j].type = "http", batch'[k].type = "http"
               PROVE  batch'[j].ptr # batch'[k].ptr
    BY DEF OneEach
  <2>1. /\ j+1 \in 1..Len(batch) /\ k+1 \in 1..Len(batch) /\ j+1 # k+1
        /\ batch'[j] = batch[j+1] /\ batch'[k] = batch[k+1]
    BY GoOnFacts
  <2> QED
    BY <2>1 DEF OneEach
<1>3. InNotReplying'
  <2> SUFFICES ASSUME NEW k \in 1..Len(batch'), batch'[k].type = "http", batch'[k].kind = "in"
               PROVE  env'[batch'[k].ptr] \notin Replying
    BY DEF InNotReplying, Replying
  <2>1. k+1 \in 1..Len(batch) /\ k+1 # 1 /\ batch'[k] = batch[k+1]
    BY GoOnFacts
  <2>2. batch[k+1].ptr \in Sessions /\ env[batch[k+1].ptr] \notin Replying
    BY <2>1, EventPtr DEF InNotReplying
  <2>3. Head(batch).type = "http" => batch[k+1].ptr # Head(batch).ptr
    BY <1>1, <2>1 DEF OneEach
  <2> QED
    BY <2>1, <2>2, <2>3
<1> QED
  BY <1>2, <1>3

LEMMA BatchKept ==
  ASSUME batch \in Seq(Events), InNotReplying, OneEach, batch' = batch \/ batch' = <<>>,
         \A t \in Sessions : env'[t] \in Replying => env[t] \in Replying
  PROVE  InNotReplying' /\ OneEach'
<1>1. CASE batch' = <<>>
  BY <1>1 DEF InNotReplying, OneEach
<1>2. CASE batch' = batch
  <2>1. \A k \in 1..Len(batch) : batch[k].type = "http" => batch[k].ptr \in Sessions
    BY EventPtr
  <2> QED
    BY <1>2, <2>1 DEF InNotReplying, OneEach, Replying
<1> QED
  BY <1>1, <1>2

LEMMA ArmedReleased ==
  ASSUME PoolInv, ConnInv, ReplyArmed, NEW s \in InUse, SetHttpSessionUnused(s)
  PROVE  /\ ReplyArmed'
         /\ \A t \in Sessions : env'[t] \in Replying => env[t] \in Replying
<1>1. /\ InUse' = InUse \ {s} /\ s \in Sessions /\ InUse \subseteq Sessions
      /\ env' = [env EXCEPT ![s] = AfterReset(@)] /\ mode' = [mode EXCEPT ![s] = "off"]
  BY PoolInSessions DEF SetHttpSessionUnused, ReleaseSession, InUse, Restrict
<1>2. \A t \in Sessions : t # s => env'[t] = env[t] /\ mode'[t] = mode[t]
  BY <1>1 DEF ConnInv
<1>3. env'[s] \notin Replying
  BY <1>1 DEF ConnInv, AfterReset, Replying
<1>4. ReplyArmed'
  BY <1>1, <1>2 DEF ReplyArmed
<1> QED
  BY <1>2, <1>3, <1>4

(* One session gets a response and waits for output, or loses it and does  *)
(* not.                                                                    *)
LEMMA ArmedSet ==
  ASSUME ConnInv, ReplyArmed, InUse \subseteq Sessions, InUse' = InUse, NEW s \in Sessions,
         NEW e, env' = [env EXCEPT ![s] = e], NEW m, mode' = [mode EXCEPT ![s] = m],
         m = "out" <=> e \in Replying
  PROVE  /\ ReplyArmed'
         /\ \A t \in Sessions : t # s => (env'[t] \in Replying => env[t] \in Replying)
<1>1. \A t \in Sessions : t # s => env'[t] = env[t] /\ mode'[t] = mode[t]
  BY DEF ConnInv
<1>2. env'[s] = e /\ mode'[s] = m
  BY DEF ConnInv
<1>3. ReplyArmed'
  BY <1>1, <1>2 DEF ReplyArmed, Replying
<1> QED
  BY <1>1, <1>3

LEMMA ArmedInit == Init => ArmedInv
<1>1. SUFFICES ASSUME Init PROVE ArmedInv
  OBVIOUS
<1>2. InUse = {} /\ batch = <<>>
  BY <1>1 DEF Init, PoolInit, InUse
<1> QED
  BY <1>2 DEF ArmedInv, ReplyArmed, InNotReplying, OneEach

(* epoll_wait reports a session once, and for input only while it waits    *)
(* for input.                                                              *)
LEMMA ArmedWait ==
  ASSUME LoopInv, ArmedInv, EpollWait
  PROVE  ArmedInv'
<1>1. PICK w \in SUBSET {s \in InUse : mode[s] = "out"},
           b \in SUBSET {s \in InUse : ErrorAlone /\ link[sock[s]] = "fin"} :
             batch' \in SetToSeqs(Ready(w, b))
  BY DEF EpollWait
<1>2. /\ PoolInv /\ ConnInv /\ InUse \subseteq Sessions
      /\ InUse' = InUse /\ env' = env /\ mode' = mode
  BY PoolInSessions DEF LoopInv, EpollWait, poolVars, InUse
<1>3. Ready(w, b) \subseteq Events
  BY <1>2, ReadyFacts DEF ConnInv, WatchedInUse
<1>4. /\ \A k \in 1..Len(batch') : batch'[k] \in Ready(w, b)
      /\ \A j, k \in 1..Len(batch') : j # k => batch'[j] # batch'[k]
  BY <1>1, <1>3, OrderFacts, OrderIsOnce
<1>5. \A e \in Ready(w, b) : e.type = "http" =>
        /\ e.ptr \in InUse
        /\ e = Event("http", e.ptr, IF e.ptr \in b THEN "err" ELSE mode[e.ptr])
  BY DEF Ready, Event
<1>6. OneEach'
  BY <1>4, <1>5 DEF OneEach
<1>7. ASSUME NEW k \in 1..Len(batch'), batch'[k].type = "http", batch'[k].kind = "in"
      PROVE  env'[batch'[k].ptr] \notin Replying
  <2> DEFINE s == batch'[k].ptr
  <2>1. s \in InUse /\ batch'[k] = Event("http", s, IF s \in b THEN "err" ELSE mode[s])
    BY <1>4, <1>5, <1>7
  <2> HIDE DEF s
  <2>2. mode[s] = "in"
    BY <1>7, <2>1 DEF Event
  <2>3. env[s] \notin Replying
    BY <2>1, <2>2 DEF ArmedInv, ReplyArmed, Replying
  <2> QED
    BY <1>2, <2>3 DEF s
<1>8. InNotReplying'
  BY <1>7 DEF InNotReplying, Replying
<1>9. ReplyArmed'
  BY <1>2 DEF ArmedInv, ReplyArmed
<1> QED
  BY <1>6, <1>8, <1>9 DEF ArmedInv

(* A step that leaves the session of every connection alone.               *)
LEMMA ArmedSame ==
  ASSUME LoopInv, ArmedInv, InUse' = InUse, UNCHANGED <<mode, env>>
  PROVE  ReplyArmed' /\ \A t \in Sessions : env'[t] \in Replying => env[t] \in Replying
BY DEF ArmedInv, ReplyArmed

LEMMA ArmedHttp ==
  ASSUME LoopInv, ArmedInv, HandleHttp
  PROVE  ArmedInv'
<1> DEFINE s == Head(batch).ptr
           Others == \A t \in Sessions : t # s => (env'[t] \in Replying => env[t] \in Replying)
           All == \A t \in Sessions : env'[t] \in Replying => env[t] \in Replying
<1>1. /\ batch # <<>> /\ batch \in Seq(Events) /\ PoolInv /\ ConnInv
      /\ Head(batch) = batch[1] /\ 1 \in 1..Len(batch)
      /\ Head(batch).type = "http" /\ s \in Sessions /\ InUse \subseteq Sessions
  <2>1. /\ batch # <<>> /\ batch \in Seq(Events) /\ PoolInv /\ ConnInv
        /\ Head(batch).type = "http"
    BY DEF LoopInv, HandleHttp, Dispatch
  <2>2. Head(batch) = batch[1] /\ 1 \in 1..Len(batch) /\ Head(batch) \in Events
    BY <2>1
  <2> QED
    BY <2>1, <2>2, EventPtr, PoolInSessions
<1>2. ReplyArmed /\ InNotReplying /\ OneEach
  BY DEF ArmedInv
<1>3. Head(batch).kind = "in" => env[s] \notin Replying
  BY <1>1, <1>2 DEF InNotReplying
<1>4. ASSUME ReplyArmed', Others, NextEvent PROVE ArmedInv'
  <2>1. \A t \in Sessions : t # Head(batch).ptr \/ Head(batch).type # "http" =>
          (env'[t] \in Replying => env[t] \in Replying)
    BY <1>1, <1>4
  <2>2. InNotReplying' /\ OneEach'
    BY <1>1, <1>2, <1>4, <2>1, BatchArmed DEF NextEvent
  <2> QED
    BY <1>4, <2>2 DEF ArmedInv
<1>5. ASSUME UNCHANGED <<poolVars, connVars>> PROVE ReplyArmed' /\ All
  BY <1>5, ArmedSame DEF poolVars, connVars, InUse
<1>6. ASSUME Undefined PROVE ArmedInv'
  <2>1. ReplyArmed' /\ All /\ batch' = batch
    BY <1>5, <1>6 DEF Undefined
  <2> QED
    BY <1>1, <1>2, <2>1, BatchKept DEF ArmedInv
<1>7. ASSUME NextEvent, UNCHANGED <<poolVars, connVars>> PROVE ArmedInv'
  BY <1>4, <1>5, <1>7
<1>8. ASSUME Finish(s) PROVE ArmedInv'
  <2>1. CASE s \in InUse /\ SetHttpSessionUnused(s) /\ NextEvent
    <3>1. ReplyArmed' /\ All
      BY <1>1, <1>2, <2>1, ArmedReleased
    <3> QED
      BY <1>4, <2>1, <3>1
  <2> QED
    BY <1>6, <1>8, <2>1 DEF Finish
<1>9. ASSUME Head(batch).kind = "in", NEW b, Parsed(s, b) PROVE ArmedInv'
  <2>1. CASE /\ env' = [env EXCEPT ![s] = IF b = "part" THEN "partial" ELSE "rejected"]
             /\ UNCHANGED <<poolVars, sock, mode>>
             /\ NextEvent
    <3>1. InUse' = InUse /\ mode' = mode
      BY <2>1 DEF poolVars, InUse
    <3>2. env'[s] \notin Replying /\ \A t \in Sessions : t # s => env'[t] = env[t]
      BY <1>1, <2>1 DEF ConnInv, Replying
    <3>3. ReplyArmed'
      <4> SUFFICES ASSUME NEW t \in InUse PROVE mode[t] = "out" <=> env'[t] \in Replying
        BY <3>1 DEF ReplyArmed, Replying
      <4>1. mode[t] = "out" <=> env[t] \in Replying
        BY <1>2 DEF ReplyArmed, Replying
      <4> QED
        BY <1>1, <1>3, <1>9, <3>2, <4>1
    <3> QED
      BY <1>4, <2>1, <3>2, <3>3
  <2>2. CASE /\ s \in InUse
             /\ RefreshSession(s)
             /\ env' = [env EXCEPT ![s] = IF b = "full" THEN "reply" ELSE "reply+"]
             /\ mode' = [mode EXCEPT ![s] = "out"]
             /\ NextEvent
    <3> DEFINE e == IF b = "full" THEN "reply" ELSE "reply+"
    <3>1. e \in Replying
      BY DEF Replying
    <3>2. InUse' = InUse
      BY <1>1, <2>2 DEF RefreshSession, InUse, PoolInv, PoolTypeOK
    <3>3. env' = [env EXCEPT ![s] = e]
      BY <2>2
    <3> HIDE DEF e
    <3>4. ReplyArmed' /\ Others
      BY <1>1, <1>2, <2>2, <3>1, <3>2, <3>3, ArmedSet
    <3> QED
      BY <1>4, <2>2, <3>4
  <2> QED
    BY <1>9, <2>1, <2>2 DEF Parsed
<1>10. ASSUME Head(batch).kind = "in", OnReceivingSocket(s) PROVE ArmedInv'
  BY <1>6, <1>7, <1>8, <1>9, <1>10 DEF OnReceivingSocket
<1>11. ASSUME KeepAlive(s) PROVE ArmedInv'
  <2>1. AfterReset(env[s]) \notin Replying /\ env' = [env EXCEPT ![s] = AfterReset(env[s])]
    BY <1>11 DEF AfterReset, Replying, KeepAlive
  <2>2. InUse' = InUse
    BY <1>1, <1>11 DEF KeepAlive, RefreshSession, InUse, PoolInv, PoolTypeOK
  <2>3. mode' = [mode EXCEPT ![s] = "in"] /\ NextEvent
    BY <1>11 DEF KeepAlive
  <2>4. "in" = "out" <=> AfterReset(env[s]) \in Replying
    BY <2>1
  <2>5. ReplyArmed' /\ Others
    BY <1>1, <1>2, <2>1, <2>2, <2>3, <2>4, ArmedSet
  <2> QED
    BY <1>4, <2>3, <2>5
<1>12. ASSUME OnSendingSocket(s) PROVE ArmedInv'
  BY <1>7, <1>8, <1>11, <1>12 DEF OnSendingSocket
<1> QED
  BY <1>8, <1>10, <1>12 DEF HandleHttp

(* The session handed out has no response left from its last connection.   *)
LEMMA ArmedAccept ==
  ASSUME LoopInv, ArmedInv, AcceptOne
  PROVE  ArmedInv'
<1> DEFINE s == NextSession
<1>1. /\ PoolInv /\ ConnInv /\ batch \in Seq(Events) /\ batch' = batch /\ env' = env
      /\ mode' = [mode EXCEPT ![s] = "in"]
      /\ InUse' = InUse \cup {s} /\ s \notin InUse /\ InUse' \subseteq Sessions
  BY FetchFacts DEF LoopInv, AcceptOne, loopVars
<1> HIDE DEF s
<1>2. env[s] \notin Replying
  BY <1>1 DEF ConnInv, RepliesInUse
<1>3. ReplyArmed'
  <2> SUFFICES ASSUME NEW t \in InUse' PROVE mode'[t] = "out" <=> env[t] \in Replying
    BY <1>1 DEF ReplyArmed, Replying
  <2>1. CASE t = s
    BY <1>1, <1>2, <2>1 DEF ConnInv
  <2>2. CASE t # s
    BY <1>1, <2>2 DEF ConnInv, ArmedInv, ReplyArmed, Replying
  <2> QED
    BY <2>1, <2>2
<1> QED
  BY <1>1, <1>3, BatchKept DEF ArmedInv

LEMMA ArmedStep ==
  ASSUME LoopInv, ArmedInv, [Next]_vars
  PROVE  ArmedInv'
<1> DEFINE All == \A t \in Sessions : env'[t] \in Replying => env[t] \in Replying
<1>1. /\ PoolInv /\ ConnInv /\ batch \in Seq(Events)
      /\ ReplyArmed /\ InNotReplying /\ OneEach
  BY DEF LoopInv, ArmedInv
<1>2. ASSUME InUse' = InUse, UNCHANGED <<mode, env>>, batch' = batch \/ batch' = <<>>
      PROVE  ArmedInv'
  <2>1. ReplyArmed' /\ All
    BY <1>2, ArmedSame
  <2> QED
    BY <1>1, <1>2, <2>1, BatchKept DEF ArmedInv
<1>3. ASSUME UNCHANGED <<poolVars, connVars>>, NEW n, ContinueAt(Tail(batch), n)
      PROVE  ArmedInv'
  <2>1. InUse' = InUse /\ UNCHANGED <<mode, env>>
    BY <1>3 DEF poolVars, connVars, InUse
  <2>2. ReplyArmed' /\ All
    BY <2>1, ArmedSame
  <2>3. CASE batch # <<>>
    BY <1>1, <1>3, <2>2, <2>3, BatchArmed DEF ArmedInv
  <2>4. CASE batch = <<>>
    <3>1. batch' = <<>>
      BY <1>3, <2>4 DEF ContinueAt
    <3> QED
      BY <1>2, <2>1, <3>1
  <2> QED
    BY <2>3, <2>4
<1>4. CASE EpollWait
  BY <1>4, ArmedWait
<1>5. CASE SweepOne
  <2>1. PICK s \in InUse : SetHttpSessionUnused(s)
    BY <1>5 DEF SweepOne, Expired
  <2>2. ReplyArmed' /\ All
    BY <1>1, <2>1, ArmedReleased
  <2>3. batch' = batch
    BY <1>5 DEF SweepOne
  <2> QED
    BY <1>1, <2>2, <2>3, BatchKept DEF ArmedInv
<1>6. CASE HandleHttp
  BY <1>6, ArmedHttp
<1>7. CASE AcceptOne
  BY <1>7, ArmedAccept
<1>8. CASE AcceptRefused \/ AcceptDrained \/ HandleRelog \/ HandleMasked
  BY <1>3, <1>8 DEF AcceptRefused, AcceptDrained, FetchNull, HandleRelog, HandleMasked,
     NextEvent
<1>9. CASE HandleEof
  <2> DEFINE q == [k \in 1..Len(batch)-1 |-> Masked(batch[k+1])]
  <2>1. /\ Len(q) = Len(batch) - 1
        /\ \A k \in 1..Len(q) : k+1 \in 1..Len(batch) /\ q[k] = Masked(batch[k+1])
    BY <1>1, <1>9 DEF HandleEof, Dispatch
  <2>2. \A e : Masked(e).type = "http" => Masked(e) = e
    BY DEF Masked, Event
  <2>3. (batch' = q \/ batch' = <<>>) /\ UNCHANGED <<poolVars, connVars>>
    BY <1>9 DEF HandleEof, ContinueAt
  <2> HIDE DEF q
  <2>4. InUse' = InUse /\ UNCHANGED <<mode, env>>
    BY <2>3 DEF poolVars, connVars, InUse
  <2>5. CASE batch' = q
    <3>1. \A k \in 1..Len(q) : q[k].type = "http" => k+1 \in 1..Len(batch) /\ q[k] = batch[k+1]
      BY <2>1, <2>2
    <3>2. InNotReplying'
      BY <1>1, <2>4, <2>5, <3>1 DEF InNotReplying, Replying
    <3>3. OneEach'
      <4> SUFFICES ASSUME NEW j \in 1..Len(q), NEW k \in 1..Len(q), j # k,
                          q[j].type = "http", q[k].type = "http"
                   PROVE  q[j].ptr # q[k].ptr
        BY <2>5 DEF OneEach
      <4>1. /\ j+1 \in 1..Len(batch) /\ q[j] = batch[j+1]
            /\ k+1 \in 1..Len(batch) /\ q[k] = batch[k+1]
        BY <3>1
      <4>2. j+1 # k+1
        OBVIOUS
      <4> QED
        BY <1>1, <4>1, <4>2 DEF OneEach
    <3> QED
      BY <2>4, <3>2, <3>3, ArmedSame DEF ArmedInv
  <2> QED
    BY <1>2, <2>3, <2>4, <2>5
<1>10. CASE TimerUpdatesClock
  BY <1>2, <1>10 DEF TimerUpdatesClock, SecondPasses, InUse, connVars, loopVars
<1>11. CASE \/ WorkerExits \/ WorkerFails \/ SweepDone \/ HandleListen \/ ReadPastBatch
            \/ TimerElapses \/ Environment \/ UNCHANGED vars
  <2>1. UNCHANGED <<poolVars, mode, env>> /\ (batch' = batch \/ batch' = <<>>)
    BY <1>11 DEF WorkerExits, WorkerFails, SweepDone, HandleListen, ReadPastBatch,
       TimerElapses, Environment, ClientConnects, TakenByOtherWorker, ClientSends,
       ClientCloses, MasterWritesRelog, MasterClosesPipe, vars, connVars, loopVars
  <2> QED
    BY <1>2, <2>1 DEF poolVars, InUse
<1> QED
  BY <1>4, <1>5, <1>6, <1>7, <1>8, <1>9, <1>10, <1>11 DEF Next, WorkerStep, TimerStep

(* A session waits for output exactly as long as it has a response to send *)
(* (the epoll_ctl calls of OnReceivingSocket.c and OnSendingSocket.c).     *)
THEOREM WorkerArmed == Spec => []ReplyArmed
<1>1. LoopInv /\ ArmedInv /\ [Next]_vars => LoopInv' /\ ArmedInv'
  BY LoopStep, ArmedStep
<1>2. ArmedInv => ReplyArmed
  BY DEF ArmedInv
<1> QED
  BY <1>1, <1>2, LoopInit, ArmedInit, PTL DEF Spec
----------------------------------------------------------------------------
(* Who is released.  When an event is fetched its session is in use; it    *)
(* leaves by the sweep, or by its own event, and no session has two.       *)

HeldOrSwept ==
  \A k \in 1..Len(batch) : batch[k].type = "http" => batch[k].ptr \in InUse \cup swept

(* The events left in the batch are of sessions still held or swept, if    *)
(* nothing but the session of the event just handled was released.         *)
LEMMA HeldGoOn ==
  ASSUME batch \in Seq(Events), batch # <<>>, HeldOrSwept, OneEach,
         NEW n, ContinueAt(Tail(batch), n),
         \A t \in InUse : t \in InUse' \/ (Head(batch).type = "http" /\ t = Head(batch).ptr)
  PROVE  HeldOrSwept'
<1>1. CASE batch' = <<>>
  BY <1>1 DEF HeldOrSwept
<1>2. CASE batch' # <<>>
  <2>1. swept' = swept
    BY <1>2 DEF ContinueAt
  <2>2. ASSUME NEW k \in 1..Len(batch'), batch'[k].type = "http"
        PROVE  batch'[k].ptr \in InUse' \cup swept'
    <3>1. k+1 \in 1..Len(batch) /\ k+1 # 1 /\ batch'[k] = batch[k+1]
      BY GoOnFacts
    <3>2. 1 \in 1..Len(batch) /\ Head(batch) = batch[1]
      OBVIOUS
    <3>3. batch[k+1].ptr \in InUse \cup swept
      BY <2>2, <3>1 DEF HeldOrSwept
    <3>4. Head(batch).type = "http" => batch[k+1].ptr # Head(batch).ptr
      BY <2>2, <3>1, <3>2 DEF OneEach
    <3> QED
      BY <2>1, <3>1, <3>3, <3>4
  <2> QED
    BY <2>2 DEF HeldOrSwept
<1> QED
  BY <1>1, <1>2

LEMMA HeldKept ==
  ASSUME HeldOrSwept, batch' = <<>> \/ (batch' = batch /\ swept' = swept),
         InUse \subseteq InUse'
  PROVE  HeldOrSwept'
BY DEF HeldOrSwept

(* A handler stops only at a session that is not in use; otherwise it goes *)
(* on in the batch and has released no other session than its own.         *)
LEMMA HttpOutcomes ==
  ASSUME LoopInv, HandleHttp
  PROVE  \/ Undefined /\ Head(batch).ptr \notin InUse
         \/ /\ NextEvent /\ pc' = "events"
            /\ \A t \in InUse : t \in InUse' \/ t = Head(batch).ptr
<1> DEFINE s == Head(batch).ptr
           Goes == /\ NextEvent
                   /\ \A t \in InUse : t \in InUse' \/ t = s
           Stops == Undefined /\ s \notin InUse
<1>1. ASSUME Finish(s) PROVE Goes \/ Stops
  <2>1. CASE s \in InUse /\ SetHttpSessionUnused(s) /\ NextEvent
    <3>1. InUse' = InUse \ {s}
      BY <2>1 DEF SetHttpSessionUnused, ReleaseSession, InUse, Restrict
    <3> QED
      BY <2>1, <3>1
  <2> QED
    BY <1>1, <2>1 DEF Finish
<1>2. ASSUME UNCHANGED poolVars PROVE InUse' = InUse
  BY <1>2 DEF poolVars, InUse
<1>3. ASSUME RefreshSession(s) PROVE InUse' = InUse
  BY <1>3 DEF RefreshSession, InUse, LoopInv, PoolInv, PoolTypeOK
<1>4. ASSUME NEW b, Parsed(s, b) PROVE Goes
  BY <1>2, <1>3, <1>4 DEF Parsed
<1>5. ASSUME OnReceivingSocket(s) PROVE Goes \/ Stops
  BY <1>1, <1>2, <1>4, <1>5 DEF OnReceivingSocket
<1>6. ASSUME OnSendingSocket(s) PROVE Goes \/ Stops
  BY <1>1, <1>2, <1>3, <1>6 DEF OnSendingSocket, KeepAlive
<1>7. Goes \/ Stops
  BY <1>1, <1>5, <1>6 DEF HandleHttp
<1>8. NextEvent => pc' = "events"
  BY DEF NextEvent, ContinueAt
<1> QED
  BY <1>7, <1>8

LEMMA HeldStep ==
  ASSUME LoopInv, OneEach, HeldOrSwept, [Next]_vars
  PROVE  HeldOrSwept'
<1>1. batch \in Seq(Events) /\ PoolInv
  BY DEF LoopInv
<1>2. CASE EpollWait
  <2>1. PICK w \in SUBSET {s \in InUse : mode[s] = "out"},
             b \in SUBSET {s \in InUse : ErrorAlone /\ link[sock[s]] = "fin"} :
               batch' \in SetToSeqs(Ready(w, b))
    BY <1>2 DEF EpollWait
  <2>2. Ready(w, b) \subseteq Events
    BY PoolInSessions, ReadyFacts DEF LoopInv, ConnInv, WatchedInUse
  <2>3. \A k \in 1..Len(batch') : batch'[k] \in Ready(w, b)
    BY <2>1, <2>2, OrderFacts
  <2>4. \A e \in Ready(w, b) : e.type = "http" => e.ptr \in InUse
    BY DEF Ready, Event
  <2>5. InUse' = InUse
    BY <1>2 DEF EpollWait, poolVars, InUse
  <2> QED
    BY <2>3, <2>4, <2>5 DEF HeldOrSwept
<1>3. CASE SweepOne
  <2>1. PICK s \in InUse :
           /\ SetHttpSessionUnused(s)
           /\ swept' = swept \cup {batch[k].ptr : k \in {j \in DOMAIN batch : batch[j].ptr = s}}
    BY <1>3 DEF SweepOne, Expired
  <2>2. InUse' = InUse \ {s} /\ batch' = batch
    BY <1>3, <2>1 DEF SweepOne, SetHttpSessionUnused, ReleaseSession, InUse, Restrict
  <2>3. ASSUME NEW k \in 1..Len(batch), batch[k].type = "http"
        PROVE  batch[k].ptr \in InUse' \cup swept'
    <3>1. k \in DOMAIN batch
      BY <1>1
    <3>2. batch[k].ptr = s => batch[k].ptr \in swept'
      BY <2>1, <3>1
    <3>3. batch[k].ptr \in InUse \cup swept
      BY <2>3 DEF HeldOrSwept
    <3> QED
      BY <2>1, <2>2, <3>2, <3>3
  <2> QED
    BY <2>2, <2>3 DEF HeldOrSwept
<1>4. CASE HandleHttp
  <2>1. batch # <<>> /\ Head(batch).type = "http"
    BY <1>4 DEF HandleHttp, Dispatch
  <2>2. CASE Undefined
    BY <2>2, HeldKept DEF Undefined, poolVars, InUse
  <2>3. CASE NextEvent /\ \A t \in InUse : t \in InUse' \/ t = Head(batch).ptr
    BY <1>1, <2>1, <2>3, HeldGoOn DEF NextEvent
  <2> QED
    BY <1>4, <2>2, <2>3, HttpOutcomes
<1>5. CASE AcceptOne
  BY <1>1, <1>5, FetchFacts, HeldKept DEF AcceptOne, loopVars
<1>6. CASE AcceptRefused \/ AcceptDrained \/ HandleRelog \/ HandleMasked
  <2>1. PICK n : ContinueAt(Tail(batch), n)
    BY <1>6 DEF AcceptRefused, AcceptDrained, HandleRelog, HandleMasked, NextEvent
  <2>2. InUse' = InUse
    BY <1>6 DEF AcceptRefused, FetchNull, AcceptDrained, HandleRelog, HandleMasked,
       poolVars, InUse
  <2>3. CASE batch # <<>>
    BY <1>1, <2>1, <2>2, <2>3, HeldGoOn
  <2>4. CASE batch = <<>>
    <3>1. batch' = <<>>
      BY <2>1, <2>4 DEF ContinueAt
    <3> QED
      BY <2>2, <3>1, HeldKept
  <2> QED
    BY <2>3, <2>4
<1>7. CASE HandleEof
  <2> DEFINE q == [k \in 1..Len(batch)-1 |-> Masked(batch[k+1])]
  <2>1. /\ Len(q) = Len(batch) - 1
        /\ \A k \in 1..Len(q) : k+1 \in 1..Len(batch) /\ q[k] = Masked(batch[k+1])
    BY <1>1, <1>7 DEF HandleEof, Dispatch
  <2>2. \A e : Masked(e).type = "http" => Masked(e) = e
    BY DEF Masked, Event
  <2>3. batch' = <<>> \/ (batch' = q /\ swept' = swept)
    BY <1>7 DEF HandleEof, ContinueAt
  <2> HIDE DEF q
  <2>4. InUse' = InUse
    BY <1>7 DEF HandleEof, poolVars, InUse
  <2>5. CASE batch' = q /\ swept' = swept
    <3>1. \A k \in 1..Len(q) : q[k].type = "http" => k+1 \in 1..Len(batch) /\ q[k] = batch[k+1]
      BY <2>1, <2>2
    <3> QED
      BY <2>4, <2>5, <3>1 DEF HeldOrSwept
  <2>6. CASE batch' = <<>>
    BY <2>6 DEF HeldOrSwept
  <2> QED
    BY <2>3, <2>5, <2>6
<1>8. CASE TimerUpdatesClock
  BY <1>8, HeldKept DEF TimerUpdatesClock, SecondPasses, InUse, loopVars
<1>9. CASE \/ WorkerExits \/ WorkerFails \/ SweepDone \/ HandleListen \/ ReadPastBatch
           \/ TimerElapses \/ Environment \/ UNCHANGED vars
  <2>1. UNCHANGED poolVars /\ (batch' = <<>> \/ (batch' = batch /\ swept' = swept))
    BY <1>9 DEF WorkerExits, WorkerFails, SweepDone, HandleListen, ReadPastBatch,
       TimerElapses, Environment, ClientConnects, TakenByOtherWorker, ClientSends,
       ClientCloses, MasterWritesRelog, MasterClosesPipe, vars, loopVars
  <2> QED
    BY <2>1, HeldKept DEF poolVars, InUse
<1> QED
  BY <1>2, <1>3, <1>4, <1>5, <1>6, <1>7, <1>8, <1>9 DEF Next, WorkerStep, TimerStep

(* The model stops only at an event whose session was swept.               *)
LEMMA StopsAtSwept ==
  ASSUME LoopInv, HeldOrSwept, [Next]_vars, pc' = "undefined"
  PROVE  pc = "undefined" \/ Head(batch).ptr \in swept
<1>1. CASE HandleHttp
  <2>1. Undefined /\ Head(batch).ptr \notin InUse
    BY <1>1, HttpOutcomes
  <2>2. batch # <<>> /\ Head(batch).type = "http" /\ batch \in Seq(Events)
    BY <1>1 DEF HandleHttp, Dispatch, LoopInv
  <2>3. 1 \in 1..Len(batch) /\ Head(batch) = batch[1]
    BY <2>2
  <2> QED
    BY <2>1, <2>2, <2>3 DEF HeldOrSwept
<1>2. CASE \/ EpollWait \/ WorkerExits \/ WorkerFails \/ SweepDone \/ HandleListen
           \/ AcceptRefused \/ AcceptDrained \/ HandleRelog \/ HandleEof
           \/ HandleMasked \/ ReadPastBatch
  <2>1. pc' # "undefined"
    BY <1>2 DEF EpollWait, WorkerExits, WorkerFails, SweepDone, HandleListen,
       AcceptRefused, AcceptDrained, HandleRelog, HandleEof, HandleMasked,
       ReadPastBatch, NextEvent, ContinueAt
  <2> QED
    BY <2>1
<1>3. CASE SweepOne \/ AcceptOne \/ TimerStep \/ Environment \/ UNCHANGED vars
  <2>1. pc' = pc
    BY <1>3 DEF SweepOne, AcceptOne, TimerStep, TimerUpdatesClock, TimerElapses,
       Environment, ClientConnects, TakenByOtherWorker, ClientSends, ClientCloses,
       MasterWritesRelog, MasterClosesPipe, vars, loopVars
  <2> QED
    BY <2>1
<1> QED
  BY <1>1, <1>2, <1>3 DEF Next, WorkerStep

(* The contract of HttpSession.c (what is released or refreshed is in use) *)
(* is broken for no other reason than an event fetched before the sweep    *)
(* released its session (WorkerProcess.c:144): not by a handler, not by a  *)
(* second event of the session, not by a connection accepted in between.   *)
THEOREM WorkerContract == Spec => ContractBrokenBySweepOnly
<1>1. Init => HeldOrSwept
  BY DEF Init, HeldOrSwept
<1>2. LoopInv /\ ArmedInv /\ HeldOrSwept /\ [Next]_vars
        => LoopInv' /\ ArmedInv' /\ HeldOrSwept'
  BY LoopStep, ArmedStep, HeldStep DEF ArmedInv
<1>3. LoopInv /\ HeldOrSwept /\ [Next]_vars
        => [/\ [PoolNext]_poolVars
            /\ pc' = "undefined" => pc = "undefined" \/ Head(batch).ptr \in swept]_vars
  BY LoopStep, StopsAtSwept
<1> QED
  BY <1>1, <1>2, <1>3, LoopInit, ArmedInit, PTL DEF Spec, ContractBrokenBySweepOnly
=============================================================================

-------------------------- MODULE HtmlCacheProofs --------------------------
(***************************************************************************)
(* The two trees of the file cache index the same entries, one per path,   *)
(* for any paths, files, index and number of changes.                      *)
(*                                                                         *)
(* Registering a path relies on the lookup made for it some steps before,  *)
(* so the invariant says what is known in between: the path being served   *)
(* is not cached, and neither is the directory it is served for, whose own *)
(* entry is added last.                                                    *)
(***************************************************************************)
EXTENDS HtmlCache, FiniteSetTheorems, TLAPS

NotCached(p) == \A e \in by_path : e.path # p

(* What is known of a request in progress.                                 *)
HeldIsNew == pc = "watch" => NotCached(held.path)
DirIsNew  == tries # <<>> /\ ~dirhit => NotCached(Dir)
(* Within a directory the page being served is not the directory.          *)
HeldInDir == tries # <<>> /\ pc \in {"open", "watch"} => held.path # Dir
TriesOpen == pc \in {"idle", "events"} => tries = <<>>

(* Only index paths are tried, and the directory ends them.                *)
TriesKnown ==
  /\ tries \in Seq(Names)
  /\ \A k \in 1..Len(tries) : tries[k] = Dir <=> k = Len(tries)

CacheInv ==
  /\ TreesAgree /\ HeldIsNew /\ DirIsNew /\ HeldInDir /\ TriesOpen /\ TriesKnown

LEMMA CacheInitInv == Init => CacheInv
  BY DEF Init, CacheInv, TreesAgree, HeldIsNew, DirIsNew, HeldInDir, TriesOpen, TriesKnown

(* The ways a request goes on.                                             *)
LEMMA OkFacts ==
  Ok => /\ tries' = <<>>
        /\ \/ pc' = "idle"
           \/ pc' = "watch" /\ held'.path = Dir /\ tries # <<>> /\ ~dirhit
  BY DEF Ok, NotHeld

LEMMA TailTries ==
  ASSUME NEW q \in Seq(Names), q # <<>>, Head(q) # Dir,
         \A k \in 1..Len(q) : q[k] = Dir <=> k = Len(q)
  PROVE  /\ Tail(q) \in Seq(Names)
         /\ \A k \in 1..Len(Tail(q)) : Tail(q)[k] = Dir <=> k = Len(Tail(q))
<1> DEFINE r == Tail(q)
           n == Len(q)
<1>1. n \in Nat /\ n >= 1 /\ r \in Seq(Names)
  OBVIOUS
<1>2. Len(r) = n - 1 /\ \A k \in 1..n-1 : r[k] = q[k+1]
  OBVIOUS
<1>3. \A k \in 1..n : q[k] = Dir <=> k = n
  OBVIOUS
<1> HIDE DEF r, n
<1>4. ASSUME NEW k \in 1..n-1 PROVE r[k] = Dir <=> k = n - 1
  <2>1. k + 1 \in 1..n /\ r[k] = q[k+1]
    BY <1>1, <1>2
  <2>2. q[k+1] = Dir <=> k + 1 = n
    BY <1>3, <2>1
  <2> QED
    BY <1>1, <2>1, <2>2
<1>5. \A k \in 1..Len(r) : r[k] = Dir <=> k = Len(r)
  BY <1>2, <1>4
<1> QED
  BY <1>1, <1>5 DEF r

LEMMA NotOkStep ==
  CacheInv /\ pc \in {"open", "watch"} /\ NotOk /\ UNCHANGED treeVars => CacheInv'
<1> SUFFICES ASSUME CacheInv, NotOk, UNCHANGED treeVars PROVE CacheInv'
  OBVIOUS
<1>1. TreesAgree'
  BY DEF CacheInv, TreesAgree, treeVars
<1>2. CASE tries # <<>> /\ Head(tries) # Dir
  <2>1. /\ pc' = "open" /\ tries' = Tail(tries) /\ held'.path = Head(tries)
        /\ UNCHANGED dirhit
    BY <1>2 DEF NotOk
  <2>2. TriesKnown'
    BY <1>2, <2>1, TailTries DEF CacheInv, TriesKnown
  <2>3. DirIsNew'
    BY <1>2, <2>1 DEF CacheInv, DirIsNew, NotCached, treeVars
  <2> QED
    BY <1>1, <1>2, <2>1, <2>2, <2>3 DEF CacheInv, HeldIsNew, HeldInDir, TriesOpen
<1>3. CASE ~(tries # <<>> /\ Head(tries) # Dir)
  <2>1. pc' = "idle" /\ tries' = <<>>
    BY <1>3 DEF NotOk
  <2> QED
    BY <1>1, <2>1 DEF CacheInv, HeldIsNew, DirIsNew, HeldInDir, TriesOpen, TriesKnown
<1> QED
  BY <1>2, <1>3

(* A request is finished or goes on to the directory, with the trees as    *)
(* they are; the last conjunct is what Register adds to them.              *)
LEMMA OkStep ==
  ASSUME CacheInv, Ok, TreesAgree', NotCached(Dir) /\ tries # <<>> => NotCached(Dir)'
  PROVE  CacheInv'
<1>1. TriesKnown' /\ DirIsNew' /\ HeldInDir' /\ TriesOpen'
  BY OkFacts DEF TriesKnown, DirIsNew, HeldInDir, TriesOpen
<1>2. HeldIsNew'
  BY OkFacts DEF CacheInv, DirIsNew, HeldIsNew, NotCached
<1> QED
  BY <1>1, <1>2 DEF CacheInv

LEMMA RegisterStep == CacheInv /\ Register => CacheInv'
<1> SUFFICES ASSUME CacheInv, Register PROVE CacheInv'
  OBVIOUS
<1>1. PICK e : /\ e.path = held.path
               /\ by_wd' = by_wd \cup {e} /\ by_path' = by_path \cup {e}
  <2> DEFINE now == Current(held.path)
             e == [path |-> held.path, wd |-> WdFor(held.path), ver |-> held.ver, at |-> now.ver]
  <2>1. ~ \E d \in by_path : d.path = held.path
    BY DEF CacheInv, HeldIsNew, Register, NotCached
  <2>2. by_wd' = by_wd \cup {e} /\ by_path' = by_path \cup {e} /\ e.path = held.path
    BY <2>1 DEF Register
  <2> QED
    BY <2>2
<1>2. NotCached(held.path)
  BY DEF CacheInv, HeldIsNew, Register
<1>3. TreesAgree'
  BY <1>1, <1>2 DEF CacheInv, TreesAgree, NotCached
<1>4. tries # <<>> => held.path # Dir
  BY DEF CacheInv, HeldInDir, Register
<1>5. NotCached(Dir) /\ tries # <<>> => NotCached(Dir)'
  BY <1>1, <1>4 DEF NotCached
<1>6. Ok
  BY <1>2 DEF Register, NotCached
<1> QED
  BY <1>3, <1>5, <1>6, OkStep

LEMMA RequestDirStep == CacheInv /\ RequestDir => CacheInv'
<1> SUFFICES ASSUME CacheInv, RequestDir PROVE CacheInv'
  OBVIOUS
<1>1. /\ Index \in Seq(Paths) /\ Index # <<>> /\ Dir \notin Paths
      /\ tries' = Tail(Index) \o <<Dir>>
      /\ held'.path = Head(Index) /\ pc' = "open"
      /\ dirhit' = (\E e \in by_path : e.path = Dir)
      /\ by_path' = by_path /\ by_wd' = by_wd
  BY CacheAssumption DEF RequestDir, treeVars
<1>2. /\ Tail(Index) \in Seq(Paths) /\ Head(Index) \in Paths
      /\ Tail(Index) \in Seq(Names) /\ <<Dir>> \in Seq(Names)
  BY <1>1 DEF Names
<1>3. TriesKnown'
  <2> DEFINE t == Tail(Index)
             q == t \o <<Dir>>
  <2>1. q \in Seq(Names)
    BY <1>2
  <2>2. /\ Len(t) \in Nat /\ Len(q) = Len(t) + 1 /\ q[Len(t) + 1] = Dir
        /\ \A k \in 1..Len(t) : q[k] = t[k] /\ t[k] \in Paths
    BY <1>2
  <2> HIDE DEF t, q
  <2>3. \A k \in 1..Len(q) : q[k] = Dir <=> k = Len(q)
    BY <2>2, <1>1
  <2> QED
    BY <1>1, <2>1, <2>3 DEF TriesKnown, t, q
<1>4. TreesAgree' /\ DirIsNew'
  BY <1>1 DEF CacheInv, TreesAgree, DirIsNew, NotCached
<1>5. HeldIsNew' /\ HeldInDir' /\ TriesOpen'
  BY <1>1, <1>2 DEF HeldIsNew, HeldInDir, TriesOpen
<1> QED
  BY <1>3, <1>4, <1>5 DEF CacheInv

LEMMA RequestStep == ASSUME NEW p \in Paths PROVE CacheInv /\ Request(p) => CacheInv'
<1> SUFFICES ASSUME CacheInv, Request(p) PROVE CacheInv'
  OBVIOUS
<1>1. tries = <<>> /\ tries' = <<>> /\ pc' = "open" /\ by_path' = by_path /\ by_wd' = by_wd
  BY DEF CacheInv, TriesOpen, Request, treeVars
<1> QED
  BY <1>1 DEF CacheInv, TreesAgree, HeldIsNew, DirIsNew, HeldInDir, TriesOpen, TriesKnown

LEMMA ReadFileStep == CacheInv /\ ReadFile => CacheInv'
<1> SUFFICES ASSUME CacheInv, ReadFile PROVE CacheInv'
  OBVIOUS
<1>1. /\ pc = "open" /\ pc' = "watch" /\ NotCached(held.path)
      /\ UNCHANGED <<by_path, by_wd, tries, dirhit>>
  BY DEF ReadFile, NotCached, treeVars
<1>2. held'.path = held.path
  BY DEF ReadFile
<1> QED
  BY <1>1, <1>2 DEF CacheInv, TreesAgree, HeldIsNew, DirIsNew, HeldInDir, TriesOpen, TriesKnown, NotCached

(* The handler of inotify events runs between requests, and drops an entry *)
(* from both trees.                                                        *)
LEMMA EventStep == CacheInv /\ (ReadEvents \/ HandleEvent) => CacheInv'
<1> SUFFICES ASSUME CacheInv, ReadEvents \/ HandleEvent PROVE CacheInv'
  OBVIOUS
<1>1. /\ pc' \in {"idle", "events"} /\ pc \in {"idle", "events"}
      /\ UNCHANGED <<tries, dirhit>>
  BY DEF ReadEvents, HandleEvent, DropEntry, IgnoreEvent, EventDone
<1>2. \/ UNCHANGED <<by_path, by_wd>>
      \/ \E e : by_path' = by_path \ {e} /\ by_wd' = by_wd \ {e}
  BY DEF ReadEvents, HandleEvent, DropEntry, IgnoreEvent, treeVars
<1>3. TreesAgree'
  BY <1>2 DEF CacheInv, TreesAgree
<1> QED
  BY <1>1, <1>3 DEF CacheInv, HeldIsNew, DirIsNew, HeldInDir, TriesOpen, TriesKnown

(* The files change without touching the worker.                           *)
LEMMA FileSystemStep == CacheInv /\ FileSystem => CacheInv'
<1> SUFFICES ASSUME CacheInv, FileSystem PROVE CacheInv'
  OBVIOUS
<1>1. UNCHANGED <<treeVars, workVars>>
  BY DEF FileSystem, Modify, CloseWrite, Create, Replace, MoveAway, WrittenElsewhere,
         FreedElsewhere, Change
<1> QED
  BY <1>1 DEF treeVars, workVars, CacheInv, TreesAgree, HeldIsNew, DirIsNew, HeldInDir,
       TriesOpen, TriesKnown, NotCached

LEMMA CacheStepInv == CacheInv /\ [Next]_vars => CacheInv'
<1> SUFFICES ASSUME CacheInv, [Next]_vars PROVE CacheInv'
  OBVIOUS
<1>1. CASE FileSystem
  BY <1>1, FileSystemStep
<1>2. CASE \E p \in Paths : Request(p)
  BY <1>2, RequestStep
<1>3. CASE RequestDir
  BY <1>3, RequestDirStep
<1>4. CASE ServeCached
  BY <1>4, OkStep DEF ServeCached, treeVars, CacheInv, TreesAgree, NotCached
<1>5. CASE OpenFails \/ OpenLeaks \/ RegisterFails
  BY <1>5, NotOkStep DEF OpenFails, OpenLeaks, RegisterFails
<1>6. CASE ReadFile
  BY <1>6, ReadFileStep
<1>7. CASE Register
  BY <1>7, RegisterStep
<1>8. CASE ReadEvents \/ HandleEvent
  BY <1>8, EventStep
<1>9. CASE UNCHANGED vars
  BY <1>9 DEF vars, treeVars, workVars, CacheInv, TreesAgree, HeldIsNew, DirIsNew, HeldInDir,
       TriesOpen, TriesKnown, NotCached
<1> QED
  BY <1>1, <1>2, <1>3, <1>4, <1>5, <1>6, <1>7, <1>8, <1>9 DEF Next, Serve

(* Both trees index the same entries, one per path.                        *)
THEOREM CacheTrees == Spec => []TreesAgree
<1>1. CacheInv => TreesAgree
  BY DEF CacheInv
<1> QED
  BY <1>1, CacheInitInv, CacheStepInv, PTL DEF Spec
----------------------------------------------------------------------------
(* Sequences of descriptors: which occur in them once, or twice.           *)

Once(q, h)  == \E k \in 1..Len(q) : q[k] = h
Twice(q, h) == \E j, k \in 1..Len(q) : j # k /\ q[j] = h /\ q[k] = h

LEMMA Extended ==
  ASSUME NEW q \in Seq(Nat), NEW s \in Seq(Nat), NEW h
  PROVE  /\ q \o s \in Seq(Nat)
         /\ Once(q \o s, h) <=> Once(q, h) \/ Once(s, h)
         /\ Twice(q, h) \/ Twice(s, h) => Twice(q \o s, h)
<1> DEFINE r == q \o s
           n == Len(q)
           m == Len(s)
<1>1. /\ r \in Seq(Nat) /\ n \in Nat /\ m \in Nat /\ Len(r) = n + m
      /\ \A k \in 1..n : r[k] = q[k]
      /\ \A k \in 1..m : r[n+k] = s[k]
  OBVIOUS
<1> HIDE DEF r
<1>2. \A k \in 1..n : k \in 1..Len(r)
  BY <1>1
<1>3. \A k \in 1..m : n+k \in 1..Len(r)
  BY <1>1
<1>4. \A k \in 1..Len(r) : k \in 1..n \/ (k-n \in 1..m /\ k = n + (k-n))
  BY <1>1
<1>5. Once(q, h) \/ Once(s, h) => Once(r, h)
  BY <1>1, <1>2, <1>3 DEF Once
<1>6. Once(r, h) => Once(q, h) \/ Once(s, h)
  BY <1>1, <1>4 DEF Once
<1>7. Twice(q, h) => Twice(r, h)
  BY <1>1, <1>2 DEF Twice
<1>8. ASSUME Twice(s, h) PROVE Twice(r, h)
  <2>1. PICK j \in 1..m, k \in 1..m : j # k /\ s[j] = h /\ s[k] = h
    BY <1>8 DEF Twice
  <2>2. n+j \in 1..Len(r) /\ n+k \in 1..Len(r) /\ r[n+j] = h /\ r[n+k] = h
    BY <1>1, <1>3, <2>1
  <2>3. n+j # n+k
    BY <1>1, <2>1
  <2> QED
    BY <2>2, <2>3 DEF Twice
<1> QED
  BY <1>1, <1>5, <1>6, <1>7, <1>8 DEF r

(* Taking the head away takes one occurrence of it, and none of others.    *)
LEMMA Shortened ==
  ASSUME NEW q \in Seq(Nat), q # <<>>, NEW h
  PROVE  /\ Tail(q) \in Seq(Nat) /\ Head(q) \in Nat
         /\ Once(q, h) /\ h # Head(q) => Once(Tail(q), h)
         /\ Twice(q, h) /\ h # Head(q) => Twice(Tail(q), h)
         /\ Twice(q, h) => Once(Tail(q), h)
<1> DEFINE r == Tail(q)
           n == Len(q)
<1>1. /\ r \in Seq(Nat) /\ n \in Nat /\ n > 0 /\ Len(r) = n - 1
      /\ Head(q) = q[1] /\ Head(q) \in Nat
      /\ \A k \in 1..n-1 : r[k] = q[k+1]
  OBVIOUS
<1> HIDE DEF r
<1>2. \A k \in 1..n : k # 1 => k-1 \in 1..Len(r) /\ r[k-1] = q[k]
  <2> TAKE k \in 1..n
  <2> HAVE k # 1
  <2>1. k-1 \in 1..n-1 /\ (k-1)+1 = k
    BY <1>1
  <2> QED
    BY <1>1, <2>1
<1>3. Once(q, h) /\ h # Head(q) => Once(r, h)
  BY <1>1, <1>2 DEF Once
<1>4. ASSUME Twice(q, h) PROVE (h # Head(q) => Twice(r, h)) /\ Once(r, h)
  <2>1. PICK j \in 1..n, k \in 1..n : j # k /\ q[j] = h /\ q[k] = h
    BY <1>4 DEF Twice
  <2>2. Once(r, h)
    BY <1>2, <2>1 DEF Once
  <2>3. ASSUME h # Head(q) PROVE Twice(r, h)
    <3>1. j # 1 /\ k # 1 /\ j-1 # k-1
      BY <1>1, <2>1, <2>3
    <3>2. j-1 \in 1..Len(r) /\ k-1 \in 1..Len(r) /\ r[j-1] = h /\ r[k-1] = h
      BY <1>2, <2>1, <3>1
    <3> QED
      BY <3>1, <3>2 DEF Twice
  <2> QED
    BY <2>2, <2>3
<1> QED
  BY <1>1, <1>3, <1>4 DEF r

LEMMA Concatenated ==
  ASSUME NEW q \in Seq(Nat), NEW r \in Seq(Nat), NEW s \in Seq(Nat)
  PROVE  q \o (r \o s) = (q \o r) \o s
BY SMTT(30)

(* The events not handled yet, in their order.                             *)
Backlog == events \o queue

LEMMA Joined ==
  ASSUME NEW q \in Seq(Nat), NEW s \in Seq(Nat)
  PROVE  /\ q \o s \in Seq(Nat) /\ Len(q \o s) = Len(q) + Len(s)
         /\ Len(q) \in Nat /\ Len(s) \in Nat
         /\ \A k \in 1..Len(q) : (q \o s)[k] = q[k]
         /\ \A k \in 1..Len(s) : (q \o s)[Len(q)+k] = s[k]
OBVIOUS

LEMMA SameSequence ==
  ASSUME NEW q \in Seq(Nat), NEW s \in Seq(Nat), Len(q) = Len(s),
         \A k \in 1..Len(q) : q[k] = s[k]
  PROVE  q = s
OBVIOUS

LEMMA ShortSequences ==
  ASSUME NEW h \in Nat
  PROVE  /\ <<>> \in Seq(Nat) /\ <<h>> \in Seq(Nat) /\ <<h, h>> \in Seq(Nat)
         /\ <<h>> \o <<h>> = <<h, h>>
<1>1. <<>> \in Seq(Nat) /\ <<h>> \in Seq(Nat) /\ <<h, h>> \in Seq(Nat)
  OBVIOUS
<1>2. /\ <<h>> \o <<h>> \in Seq(Nat) /\ Len(<<h>> \o <<h>>) = 2
      /\ (<<h>> \o <<h>>)[1] = h /\ (<<h>> \o <<h>>)[2] = h
  OBVIOUS
<1>3. Len(<<h, h>>) = 2 /\ <<h, h>>[1] = h /\ <<h, h>>[2] = h /\ 1..2 = {1, 2}
  OBVIOUS
<1> DEFINE r == <<h>> \o <<h>>
           t == <<h, h>>
<1> HIDE DEF r, t
<1>4. r = t
  <2>1. r \in Seq(Nat) /\ t \in Seq(Nat) /\ Len(r) = 2 /\ Len(t) = 2
    BY <1>1, <1>2, <1>3 DEF r, t
  <2>2. \A k \in 1..2 : r[k] = t[k]
    BY <1>2, <1>3 DEF r, t
  <2> QED
    BY <2>1, <2>2, SameSequence
<1> QED
  BY <1>1, <1>4 DEF r, t

(* A read of the first n events leaves the backlog as it is.               *)
LEMMA Divided ==
  ASSUME NEW q \in Seq(Nat), NEW n \in 1..Len(q)
  PROVE  /\ SubSeq(q, 1, n) \in Seq(Nat) /\ SubSeq(q, n + 1, Len(q)) \in Seq(Nat)
         /\ SubSeq(q, 1, n) # <<>>
         /\ SubSeq(q, 1, n) \o SubSeq(q, n + 1, Len(q)) = q
<1> DEFINE a == SubSeq(q, 1, n)
           b == SubSeq(q, n + 1, Len(q))
<1>1. a \in Seq(Nat) /\ Len(a) = n /\ \A k \in 1..n : a[k] = q[k]
  OBVIOUS
<1>2. b \in Seq(Nat) /\ Len(b) = Len(q) - n /\ \A k \in 1..Len(q)-n : b[k] = q[n+k]
  OBVIOUS
<1> HIDE DEF a, b
<1>3. /\ a \o b \in Seq(Nat) /\ Len(a \o b) = Len(q)
      /\ \A k \in 1..n : (a \o b)[k] = a[k]
      /\ \A k \in 1..Len(q)-n : (a \o b)[n+k] = b[k]
  <2> DEFINE r == a \o b
  <2>1. /\ r \in Seq(Nat) /\ Len(r) = Len(a) + Len(b)
        /\ \A k \in 1..Len(a) : r[k] = a[k]
        /\ \A k \in 1..Len(b) : r[Len(a)+k] = b[k]
    BY <1>1, <1>2, Joined
  <2> HIDE DEF r
  <2>2. Len(q) \in Nat /\ n \in Nat /\ Len(a) = n /\ Len(b) = Len(q) - n
    BY <1>1, <1>2
  <2>3. /\ r \in Seq(Nat) /\ Len(r) = Len(q)
        /\ \A k \in 1..n : r[k] = a[k]
        /\ \A k \in 1..Len(q)-n : r[n+k] = b[k]
    BY <2>1, <2>2
  <2> QED
    BY <2>3 DEF r
<1>4. ASSUME NEW k \in 1..Len(q) PROVE (a \o b)[k] = q[k]
  <2>1. CASE k \in 1..n
    BY <1>1, <1>3, <2>1
  <2>2. CASE k \notin 1..n
    <3>1. k - n \in 1..Len(q)-n /\ n + (k - n) = k
      BY <2>2
    <3> QED
      BY <1>2, <1>3, <3>1
  <2> QED
    BY <2>1, <2>2
<1>5. a \o b = q
  BY <1>3, <1>4, SameSequence
<1>6. a # <<>>
  BY <1>1
<1> QED
  BY <1>1, <1>2, <1>5, <1>6 DEF a, b

LEMMA InSet ==
  ASSUME NEW q \in Seq(Nat), NEW h PROVE h \in ToSet(q) <=> Once(q, h)
<1>1. DOMAIN q = 1..Len(q)
  OBVIOUS
<1> QED
  BY <1>1 DEF ToSet, Once

LEMMA PendingOnce ==
  ASSUME NEW q \in Seq(Nat), NEW r \in Seq(Nat), NEW h
  PROVE  h \in ToSet(r) \cup ToSet(q) <=> Once(q \o r, h)
<1>1. (h \in ToSet(q) <=> Once(q, h)) /\ (h \in ToSet(r) <=> Once(r, h))
  BY InSet
<1>2. Once(q \o r, h) <=> Once(q, h) \/ Once(r, h)
  BY Extended
<1> QED
  BY <1>1, <1>2

----------------------------------------------------------------------------
(* Watches and descriptors.                                                *)

(* A watch is told by its inode as by its descriptor, and is on a file     *)
(* that exists or existed.                                                 *)
KernelInv ==
  /\ IsFiniteSet(watch) /\ IsFiniteSet(by_wd)
  /\ \A v, w \in watch : v.of = w.of /\ v.ino = w.ino => v = w
  /\ \A v, w \in watch : v.wd = w.wd => v = w
  /\ \A w \in watch : w.ino # 0
  /\ \A f \in Files : file[f].ino = 0 => file[f] = NoFile

(* A descriptor is of one file, for the kernel and for the entries.        *)
EntryInv ==
  /\ \A e \in by_wd, w \in watch : e.wd = w.wd => w.of = Of(e.path)
  /\ \A d, e \in by_wd : d.wd = e.wd => Of(d.path) = Of(e.path)

(* What is remembered is of descriptors that entries have and watches do   *)
(* not, and is not cached any more.                                        *)
DroppedInv ==
  /\ \A d \in dropped : \E e \in by_wd : e.wd = d.wd
  /\ \A d \in dropped, w \in watch : d.wd # w.wd
  /\ \A d \in dropped, e \in by_wd : ~(d.path = e.path /\ d.wd = e.wd)

(* When a watch goes, two entries with its descriptor are seen to: by      *)
(* events that are left, or by having been dropped.                        *)
Covered ==
  \A e \in by_wd :
    (\A w \in watch : w.wd # e.wd) =>
      \/ Twice(Backlog, e.wd)
      \/ Once(Backlog, e.wd) /\ \E d \in dropped : d.wd = e.wd
      \/ LeftOver(e)

MissInv ==
  KernelInv /\ EntryInv /\ NoIdleWatch /\ DroppedInv /\ NoMissedChange /\ Covered

LEMMA OfFacts == \A p \in Names : Of(p) \in Files \cup {Dir} /\ (Of(p) = Dir <=> p = Dir)
BY CacheAssumption DEF Of, Names, CacheAssumption

(* A set of numbers that is not empty has a least one.                     *)
LEMMA LeastExists ==
  ASSUME NEW T \in SUBSET Nat, T # {}
  PROVE  \E x \in T : \A y \in 1..x-1 : y \notin T
<1> DEFINE R == OpToRel(<, Nat)
<1>1. PICK x \in T : \A y \in T : ~ (<<y, x>> \in R)
  <2> HIDE DEF R
  <2>1. IsWellFoundedOn(R, Nat)
    BY NatLessThanWellFounded DEF R
  <2> QED
    BY <2>1, WFMin
<1>2. ASSUME NEW y \in 1..x-1, y \in T PROVE FALSE
  <2>1. x \in Nat /\ y \in Nat /\ y < x
    BY <1>2
  <2>2. <<y, x>> \in R
    BY <2>1 DEF OpToRel
  <2> QED
    BY <1>1, <1>2, <2>2
<1> QED
  BY <1>2

(* Of a finite set of numbers one is left between 1 and its size plus one, *)
(* and so there is a least one left, as there is for a watch descriptor.   *)
LEMMA NumberLeft ==
  ASSUME NEW S, IsFiniteSet(S)
  PROVE  \E x \in 1..Cardinality(S)+1 : x \notin S /\ \A y \in 1..x-1 : y \in S
<1> DEFINE n == Cardinality(S)
           T == (1..n+1) \ S
<1>1. n \in Nat
  BY FS_CardinalityType
<1>2. T # {}
  <2>1. SUFFICES ASSUME T = {} PROVE FALSE
    OBVIOUS
  <2>2. (1..n+1) \in SUBSET S
    BY <2>1
  <2>3. Cardinality(1..n+1) <= n
    BY <2>2, FS_Subset
  <2>4. Cardinality(1..n+1) = n + 1
    BY <1>1, FS_Interval
  <2> QED
    BY <1>1, <2>3, <2>4
<1> HIDE DEF n
<1>3. n + 1 \in Nat /\ T \subseteq Nat
  BY <1>1
<1>4. PICK x \in T : \A y \in 1..x-1 : y \notin T
  BY <1>2, <1>3, LeastExists
<1>5. \A y \in 1..x-1 : y \in 1..n+1
  BY <1>1, <1>4
<1> QED
  BY <1>4, <1>5 DEF n

(* What a finite set is mapped onto is finite.                             *)
LEMMA ImageFinite ==
  ASSUME NEW S, IsFiniteSet(S), NEW T, NEW f \in [S -> T],
         \A y \in T : \E s \in S : f[s] = y
  PROVE  IsFiniteSet(T)
<1>1. f \in Surjection(S, T)
  BY DEF Surjection
<1> QED
  BY <1>1, FS_Surjection

(* inotify_add_watch: the descriptor of the inode's watch, or one that     *)
(* nobody remembers.                                                       *)
LEMMA WdFacts ==
  ASSUME TypeOK, KernelInv, NEW p \in Names
  PROVE  /\ WdFor(p) \in Nat
         /\ \/ \E w \in watch : w.of = Of(p) /\ w.ino = Current(p).ino /\ w.wd = WdFor(p)
            \/ /\ \A w \in watch : ~(w.of = Of(p) /\ w.ino = Current(p).ino)
               /\ \A w \in watch : w.wd # WdFor(p)
               /\ \A e \in by_wd : e.wd # WdFor(p)
<1>1. CASE WatchesOf(p) # {}
  <2>1. WdFor(p) = (CHOOSE w \in WatchesOf(p) : TRUE).wd
    BY <1>1 DEF WdFor
  <2>2. (CHOOSE w \in WatchesOf(p) : TRUE) \in WatchesOf(p)
    BY <1>1
  <2>3. \A w \in WatchesOf(p) : w \in watch /\ w.of = Of(p) /\ w.ino = Current(p).ino /\ w.wd \in Nat
    BY DEF WatchesOf, TypeOK
  <2> QED
    BY <2>1, <2>2, <2>3
<1>2. CASE WatchesOf(p) = {}
  <2> DEFINE wWds == {w.wd : w \in watch}
             eWds == {e.wd : e \in by_wd}
             taken == wWds \cup eWds \cup Pending
  <2>1. IsFiniteSet(wWds)
    <3> DEFINE g == [w \in watch |-> w.wd]
    <3>1. g \in [watch -> wWds] /\ \A y \in wWds : \E w \in watch : g[w] = y
      OBVIOUS
    <3>2. IsFiniteSet(watch)
      BY DEF KernelInv
    <3> HIDE DEF g, wWds
    <3> QED
      BY <3>1, <3>2, ImageFinite
  <2>2. IsFiniteSet(eWds)
    <3> DEFINE g == [e \in by_wd |-> e.wd]
    <3>1. g \in [by_wd -> eWds] /\ \A y \in eWds : \E e \in by_wd : g[e] = y
      OBVIOUS
    <3>2. IsFiniteSet(by_wd)
      BY DEF KernelInv
    <3> HIDE DEF g, eWds
    <3> QED
      BY <3>1, <3>2, ImageFinite
  <2>3. ASSUME NEW q \in Seq(Nat) PROVE IsFiniteSet(ToSet(q))
    <3> DEFINE D == 1..Len(q)
               T == ToSet(q)
    <3>1. q \in [D -> T] /\ \A y \in T : \E k \in D : q[k] = y
      BY DEF ToSet
    <3>2. IsFiniteSet(D)
      BY FS_Interval
    <3> HIDE DEF D, T
    <3>3. IsFiniteSet(T)
      BY <3>1, <3>2, ImageFinite
    <3> QED
      BY <3>3 DEF T
  <2>4. IsFiniteSet(Pending)
    BY <2>3, FS_Union DEF Pending, TypeOK
  <2>5. IsFiniteSet(taken)
    <3>1. IsFiniteSet(wWds \cup eWds)
      BY <2>1, <2>2, FS_Union
    <3> QED
      BY <3>1, <2>4, FS_Union
  <2>6. WdFor(p) = CHOOSE w \in 1..Cardinality(taken)+1 : w \notin taken /\ \A v \in 1..w-1 : v \in taken
    BY <1>2 DEF WdFor, FreshWd
  <2> HIDE DEF taken
  <2>7. WdFor(p) \in 1..Cardinality(taken)+1 /\ WdFor(p) \notin taken
    BY <2>5, <2>6, NumberLeft
  <2>8. WdFor(p) \in Nat
    BY <2>5, <2>7, FS_CardinalityType
  <2>9. (\A w \in watch : w.wd # WdFor(p)) /\ (\A e \in by_wd : e.wd # WdFor(p))
    BY <2>7 DEF taken
  <2> QED
    BY <1>2, <2>8, <2>9 DEF WatchesOf
<1> QED
  BY <1>1, <1>2

(* The events of a change are the file's watch's, if it has one.           *)
LEMMA EventsFacts ==
  ASSUME TypeOK, KernelInv, NEW f \in Files
  PROVE  /\ Events(f) \in Seq(Nat) /\ DirEvents(f) \in Seq(Nat)
         /\ \A w \in watch : OnInode(w, f) =>
              Once(Events(f), w.wd) /\ Twice(Events(f) \o Events(f), w.wd)
<1>1. DirEvents(f) \in Seq(Nat)
  <2>1. ASSUME NEW u \in watch, u.of = Dir
        PROVE  (CHOOSE w \in watch : w.of = Dir).wd \in Nat
    <3>1. (CHOOSE w \in watch : w.of = Dir) \in watch
      BY <2>1
    <3> QED
      BY <3>1 DEF TypeOK
  <2> DEFINE h == (CHOOSE w \in watch : w.of = Dir).wd
  <2>2. (\E w \in watch : w.of = Dir) => h \in Nat
    BY <2>1
  <2>3. DirEvents(f) = <<>> \/ (DirEvents(f) = <<h>> /\ \E w \in watch : w.of = Dir)
    BY DEF DirEvents
  <2> HIDE DEF h
  <2>4. <<>> \in Seq(Nat)
    OBVIOUS
  <2> QED
    BY <2>2, <2>3, <2>4, ShortSequences
<1>2. CASE WdsOf(f) = {}
  <2>1. Events(f) = <<>> /\ <<>> \in Seq(Nat)
    BY <1>2 DEF Events
  <2>2. \A w \in watch : ~OnInode(w, f)
    BY <1>2 DEF WdsOf, OnInode
  <2> QED
    BY <1>1, <2>1, <2>2
<1>3. CASE WdsOf(f) # {}
  <2> DEFINE h == CHOOSE x \in WdsOf(f) : TRUE
  <2>1. h \in WdsOf(f) /\ Events(f) = <<h>>
    BY <1>3 DEF Events
  <2>2. PICK v \in watch : v.of = f /\ v.ino = file[f].ino /\ h = v.wd
    BY <2>1 DEF WdsOf
  <2> HIDE DEF h
  <2>3. h \in Nat
    BY <2>2 DEF TypeOK
  <2>4. Once(<<h>>, h)
    BY DEF Once
  <2>5. Twice(<<h>> \o <<h>>, h)
    <3>1. <<h>> \o <<h>> = <<h, h>>
      BY <2>3, ShortSequences
    <3>2. Twice(<<h, h>>, h)
      BY <2>3 DEF Twice
    <3> QED
      BY <3>1, <3>2
  <2>6. \A w \in watch : OnInode(w, f) => w.wd = h
    BY <2>2 DEF KernelInv, OnInode
  <2>7. Events(f) \in Seq(Nat)
    BY <2>1, <2>3, ShortSequences
  <2> QED
    BY <1>1, <2>1, <2>4, <2>5, <2>6, <2>7
<1> QED
  BY <1>2, <1>3

(* An event that is left out is in the queue already.                      *)
LEMMA QueuedFacts ==
  ASSUME TypeOK, NEW s \in Seq(Nat), queue' \in Queued(s)
  PROVE  \E t \in Seq(Nat) : /\ queue' = queue \o t
                             /\ \A h : Once(s, h) => Once(queue', h)
<1>1. queue \in Seq(Nat)
  BY DEF TypeOK
<1>2. CASE queue' = queue \o s
  BY <1>1, <1>2, Extended
<1>3. CASE queue' # queue \o s
  <2>1. queue' = queue /\ queue # <<>> /\ s = <<queue[Len(queue)]>>
    BY <1>3 DEF Queued
  <2>2. queue' = queue \o <<>> /\ <<>> \in Seq(Nat)
    BY <1>1, <2>1
  <2>3. Len(queue) \in 1..Len(queue)
    BY <1>1, <2>1
  <2>4. \A h : Once(s, h) => Once(queue', h)
    BY <2>1, <2>3 DEF Once
  <2> QED
    BY <2>2, <2>4
<1> QED
  BY <1>2, <1>3

(* A change of one file leaves the files of other paths alone.             *)
LEMMA OthersKeep ==
  ASSUME TypeOK, NEW f \in Files, NEW new, file' = [file EXCEPT ![f] = new],
         NEW e \in by_path, NEW w \in watch, w.of = Of(e.path), w.ino = Current(e.path).ino,
         ~OnInode(w, f) \/ new = file[f]
  PROVE  Current(e.path)' = Current(e.path)
<1>1. e.path \in Names
  BY DEF TypeOK, Entries
<1>2. CASE e.path = Dir
  BY <1>2 DEF Current
<1>3. CASE e.path # Dir
  <2>1. /\ FileOf[e.path] \in Files /\ Current(e.path) = file[FileOf[e.path]]
        /\ Of(e.path) = FileOf[e.path] /\ Current(e.path)' = file'[FileOf[e.path]]
    BY <1>1, <1>3, CacheAssumption DEF Of, Names, Current, CacheAssumption
  <2>2. CASE FileOf[e.path] = f
    <3>1. new = file[f]
      BY <2>1, <2>2 DEF OnInode
    <3> QED
      BY <2>1, <3>1 DEF TypeOK
  <2>3. CASE FileOf[e.path] # f
    BY <2>1, <2>3 DEF TypeOK
  <2> QED
    BY <2>2, <2>3
<1> QED
  BY <1>2, <1>3

(* Events that are added at the end of the queue.                          *)
LEMMA BacklogGrows ==
  ASSUME TypeOK, events' = events, NEW s \in Seq(Nat), queue' = queue \o s, NEW h
  PROVE  /\ h \in Pending <=> Once(Backlog, h)
         /\ h \in Pending' <=> Once(Backlog', h)
         /\ Once(Backlog, h) \/ Once(s, h) \/ Once(queue', h) => Once(Backlog', h)
         /\ Twice(Backlog, h) \/ Twice(s, h) => Twice(Backlog', h)
         /\ Twice(s, h) => Once(s, h)
<1>1. /\ events \in Seq(Nat) /\ queue \in Seq(Nat) /\ Backlog \in Seq(Nat)
      /\ Backlog' = Backlog \o s /\ Backlog' = events \o queue' /\ queue' \in Seq(Nat)
      /\ events' = events
  <2>1. events \in Seq(Nat) /\ queue \in Seq(Nat)
    BY DEF TypeOK
  <2>2. events \o (queue \o s) = (events \o queue) \o s
    BY <2>1, Concatenated
  <2> QED
    BY <2>1, <2>2, Extended DEF Backlog
<1>2. /\ (Once(Backlog, h) \/ Once(s, h)) => Once(Backlog', h)
      /\ (Twice(Backlog, h) \/ Twice(s, h)) => Twice(Backlog', h)
  BY <1>1, Extended
<1>3. Once(queue', h) => Once(Backlog', h)
  <2> DEFINE r == queue'
  <2>1. r \in Seq(Nat) /\ Backlog' = events \o r
    BY <1>1
  <2> HIDE DEF r
  <2>2. Once(r, h) => Once(events \o r, h)
    BY <1>1, <2>1, Extended
  <2> QED
    BY <2>1, <2>2 DEF r
<1>4. (h \in Pending <=> Once(Backlog, h)) /\ (h \in Pending' <=> Once(Backlog', h))
  BY <1>1, PendingOnce DEF Pending, Backlog
<1>5. Twice(s, h) => Once(s, h)
  BY DEF Once, Twice
<1> QED
  BY <1>2, <1>3, <1>4, <1>5

(* What the invariant says of a change: the entries it makes stale get an  *)
(* event, and two of them when their watch goes with the file.             *)
LEMMA ChangeKeeps ==
  ASSUME TypeOK, MissInv, CacheInv, NEW f \in Files, NEW s \in Seq(Nat), NEW new,
         file' = [file EXCEPT ![f] = new], new.ino = 0 => new = NoFile,
         UNCHANGED <<treeVars, events>>, queue' = queue \o s,
         NEW gone \in SUBSET watch, watch' = watch \ gone,
         \A w \in gone : Twice(s, w.wd),
         \A w \in watch \ gone : OnInode(w, f) /\ new # file[f] => Once(queue', w.wd)
  PROVE  MissInv'
<1>1. /\ KernelInv /\ EntryInv /\ NoIdleWatch /\ DroppedInv /\ NoMissedChange /\ Covered
      /\ by_path = by_wd
  BY DEF MissInv, CacheInv, TreesAgree
<1>2. \A h : /\ (h \in Pending <=> Once(Backlog, h)) /\ (h \in Pending' <=> Once(Backlog', h))
             /\ (Once(Backlog, h) \/ Once(s, h) \/ Once(queue', h)) => Once(Backlog', h)
             /\ (Twice(Backlog, h) \/ Twice(s, h)) => Twice(Backlog', h)
             /\ Twice(s, h) => Once(s, h)
  BY BacklogGrows DEF treeVars
<1>3. watch' \subseteq watch /\ by_wd' = by_wd /\ by_path' = by_path /\ dropped' = dropped
  BY DEF treeVars
<1>4. KernelInv'
  <2>1. IsFiniteSet(watch') /\ IsFiniteSet(by_wd')
    BY <1>1, <1>3, FS_Subset DEF KernelInv
  <2>2. \A g \in Files : file'[g].ino = 0 => file'[g] = NoFile
    BY <1>1 DEF KernelInv, TypeOK
  <2>3. NoFile' = NoFile
    BY DEF NoFile
  <2> QED
    BY <1>1, <1>3, <2>1, <2>2, <2>3 DEF KernelInv
<1>5. EntryInv'
  BY <1>1, <1>3 DEF EntryInv, Of
<1>6. NoIdleWatch' /\ DroppedInv'
  BY <1>1, <1>3 DEF NoIdleWatch, DroppedInv
<1>7. \A e : LeftOver(e)' <=> LeftOver(e)
  BY <1>3 DEF LeftOver
<1>8. NoMissedChange'
  <2> SUFFICES ASSUME NEW e \in by_path, e.wd \notin Pending', ~LostName(e)', ~LeftOver(e)'
               PROVE  (Watched(e) /\ Current(e.path).ver = e.at)'
    BY <1>3 DEF NoMissedChange
  <2>1. e.wd \notin Pending /\ ~Once(s, e.wd) /\ ~Twice(s, e.wd) /\ ~Once(queue', e.wd)
    BY <1>2
  <2>2. \A w \in watch : w.wd = e.wd => w \notin gone /\ w \in watch'
    BY <2>1
  <2>3. ~LostName(e)
    BY <2>2 DEF LostName
  <2>4. Watched(e) /\ Current(e.path).ver = e.at
    BY <1>1, <1>7, <2>1, <2>3 DEF NoMissedChange
  <2>5. PICK w \in watch : w.of = Of(e.path) /\ w.ino = Current(e.path).ino /\ w.wd = e.wd
    BY <2>4 DEF Watched, WatchesOf
  <2>6. w \in watch' /\ (~OnInode(w, f) \/ new = file[f])
    BY <2>1, <2>2, <2>5
  <2>7. Current(e.path)' = Current(e.path)
    BY <2>5, <2>6, OthersKeep
  <2> QED
    BY <2>4, <2>5, <2>6, <2>7 DEF Watched, WatchesOf, Of
<1>9. Covered'
  <2> SUFFICES ASSUME NEW e \in by_wd, \A w \in watch' : w.wd # e.wd
               PROVE  \/ Twice(Backlog', e.wd)
                      \/ Once(Backlog', e.wd) /\ \E d \in dropped : d.wd = e.wd
                      \/ LeftOver(e)
    BY <1>3, <1>7 DEF Covered
  <2>1. CASE \A w \in watch : w.wd # e.wd
    BY <1>1, <1>2, <2>1 DEF Covered
  <2>2. ASSUME NEW w \in watch, w.wd = e.wd PROVE Twice(Backlog', e.wd)
    <3>1. w \in gone
      BY <2>2
    <3> QED
      BY <1>2, <2>2, <3>1
  <2> QED
    BY <2>1, <2>2
<1> QED
  BY <1>4, <1>5, <1>6, <1>8, <1>9 DEF MissInv

(* An inode that loses its name while it is open: its watch stays, and the *)
(* entries with it have lost their name.                                   *)
LEMMA KeptKeeps ==
  ASSUME TypeOK, MissInv, CacheInv, NEW f \in Files, NEW new,
         file' = [file EXCEPT ![f] = new], new.ino = 0 => new = NoFile,
         UNCHANGED <<treeVars, events>>, Kept(f)
  PROVE  MissInv'
<1>1. /\ KernelInv /\ EntryInv /\ NoIdleWatch /\ DroppedInv /\ NoMissedChange /\ Covered
      /\ by_path = by_wd
  BY DEF MissInv, CacheInv, TreesAgree
<1>2. queue' = queue /\ by_wd' = by_wd /\ by_path' = by_path /\ dropped' = dropped
      /\ events' = events
  BY DEF Kept, treeVars
<1>3. Pending' = Pending /\ Backlog' = Backlog
  BY <1>2 DEF Pending, Backlog
<1> DEFINE Now(w) == IF OnInode(w, f) THEN [w EXCEPT !.named = FALSE] ELSE w
<1>4. watch' = {Now(w) : w \in watch}
  BY DEF Kept
<1>5. \A w \in watch : /\ Now(w).of = w.of /\ Now(w).ino = w.ino /\ Now(w).wd = w.wd
                       /\ (~w.named => ~Now(w).named)
                       /\ (OnInode(w, f) => ~Now(w).named)
                       /\ (~OnInode(w, f) => Now(w) = w)
  BY DEF TypeOK
<1>6. IsFiniteSet(watch')
  <2> DEFINE g == [w \in watch |-> Now(w)]
             T == watch'
  <2>1. g \in [watch -> T] /\ \A y \in T : \E w \in watch : g[w] = y
    BY <1>4
  <2>2. IsFiniteSet(watch)
    BY <1>1 DEF KernelInv
  <2> HIDE DEF g, T
  <2>3. IsFiniteSet(T)
    BY <2>1, <2>2, ImageFinite
  <2> QED
    BY <2>3 DEF T
<1> HIDE DEF Now
<1>7. \A v \in watch' : \E w \in watch : v = Now(w) /\ v.of = w.of /\ v.ino = w.ino /\ v.wd = w.wd
  BY <1>4, <1>5
<1>8. \A w \in watch : Now(w) \in watch' /\ Now(w).wd = w.wd
  BY <1>4, <1>5
<1>9. KernelInv'
  <2>1. \A u, v \in watch' : u.of = v.of /\ u.ino = v.ino => u = v
    BY <1>1, <1>7 DEF KernelInv
  <2>2. \A u, v \in watch' : u.wd = v.wd => u = v
    BY <1>1, <1>7 DEF KernelInv
  <2>3. \A v \in watch' : v.ino # 0
    BY <1>1, <1>7 DEF KernelInv
  <2>4. \A g \in Files : file'[g].ino = 0 => file'[g] = NoFile
    BY <1>1 DEF KernelInv, TypeOK
  <2>5. NoFile' = NoFile /\ IsFiniteSet(by_wd')
    BY <1>1, <1>2 DEF NoFile, KernelInv
  <2> QED
    BY <1>6, <2>1, <2>2, <2>3, <2>4, <2>5 DEF KernelInv
<1>10. EntryInv'
  <2>1. \A e \in by_wd, v \in watch' : e.wd = v.wd => v.of = Of(e.path)
    BY <1>1, <1>7 DEF EntryInv
  <2> QED
    BY <1>1, <1>2, <2>1 DEF EntryInv, Of
<1>11. NoIdleWatch' /\ DroppedInv'
  BY <1>1, <1>2, <1>7 DEF NoIdleWatch, DroppedInv
<1>12. NoMissedChange'
  <2> SUFFICES ASSUME NEW e \in by_path, e.wd \notin Pending, ~LostName(e)', ~LeftOver(e)
               PROVE  (Watched(e) /\ Current(e.path).ver = e.at)'
    BY <1>2, <1>3 DEF NoMissedChange, LeftOver
  <2>1. \A w \in watch : w.wd = e.wd => w.named /\ ~OnInode(w, f) /\ w \in watch'
    BY <1>5, <1>8 DEF LostName
  <2>2. Watched(e) /\ Current(e.path).ver = e.at
    BY <1>1, <2>1 DEF NoMissedChange, LostName
  <2>3. PICK w \in watch : w.of = Of(e.path) /\ w.ino = Current(e.path).ino /\ w.wd = e.wd
    BY <2>2 DEF Watched, WatchesOf
  <2>4. w \in watch' /\ ~OnInode(w, f)
    BY <2>1, <2>3
  <2>5. Current(e.path)' = Current(e.path)
    BY <2>3, <2>4, OthersKeep
  <2> QED
    BY <2>2, <2>3, <2>4, <2>5 DEF Watched, WatchesOf, Of
<1>13. Covered'
  <2>1. \A e : (\A v \in watch' : v.wd # e.wd) => \A w \in watch : w.wd # e.wd
    BY <1>8
  <2> QED
    BY <1>1, <1>2, <1>3, <2>1 DEF Covered, LeftOver
<1> QED
  BY <1>9, <1>10, <1>11, <1>12, <1>13 DEF MissInv

LEMMA FileMiss ==
  ASSUME TypeOK, MissInv, CacheInv, FileSystem
  PROVE  MissInv'
<1>1. KernelInv /\ queue \in Seq(Nat) /\ changes \in Nat /\ file \in [Files -> [ino : Stamps, ver : Stamps]]
  BY CacheAssumption DEF MissInv, TypeOK, CacheAssumption
<1>2. ASSUME NEW f, NEW new, Change(f, new)
      PROVE  /\ file' = [file EXCEPT ![f] = new]
             /\ UNCHANGED <<treeVars, events>>
  BY <1>2 DEF Change, workVars, treeVars
<1>3. changes + 2 # 0 /\ NoFile.ino = 0
  BY <1>1 DEF NoFile
<1>4. ASSUME NEW f \in Files PROVE file[f].ino = 0 => file[f] = NoFile
  BY <1>1, <1>4 DEF KernelInv
<1> DEFINE none == {}
<1>5. none \in SUBSET watch /\ watch = watch \ none /\ \A w : w \notin none
  OBVIOUS
<1> HIDE DEF none
<1>6. ASSUME NEW f \in Files, Modify(f) \/ CloseWrite(f) PROVE MissInv'
  <2>1. PICK new : /\ Change(f, new) /\ (new.ino = 0 => new = NoFile)
                   /\ watch' = watch /\ queue' \in Queued(DirEvents(f) \o Events(f))
    <3>1. CASE Modify(f)
      <4> DEFINE new == [file[f] EXCEPT !.ver = changes + 2]
      <4>1. new.ino = file[f].ino /\ file[f] # NoFile
        BY <1>1, <3>1 DEF Modify
      <4> QED
        BY <1>4, <3>1, <4>1 DEF Modify
    <3>2. CASE CloseWrite(f)
      BY <1>4, <3>2 DEF CloseWrite
    <3> QED
      BY <1>6, <3>1, <3>2
  <2>2. /\ Events(f) \in Seq(Nat) /\ DirEvents(f) \in Seq(Nat)
        /\ \A w \in watch : OnInode(w, f) => Once(Events(f), w.wd)
    BY <1>1, EventsFacts
  <2>3. /\ DirEvents(f) \o Events(f) \in Seq(Nat)
        /\ \A h : Once(Events(f), h) => Once(DirEvents(f) \o Events(f), h)
    BY <2>2, Extended
  <2>4. PICK t \in Seq(Nat) : /\ queue' = queue \o t
                             /\ \A h : Once(DirEvents(f) \o Events(f), h) => Once(queue', h)
    BY <2>1, <2>3, QueuedFacts
  <2>5. watch' = watch \ none /\ \A w \in watch \ none : OnInode(w, f) => Once(queue', w.wd)
    BY <1>5, <2>1, <2>2, <2>3, <2>4
  <2>6. file' = [file EXCEPT ![f] = new] /\ UNCHANGED <<treeVars, events>>
    BY <1>2, <2>1
  <2> QED
    BY <1>5, <2>1, <2>4, <2>5, <2>6, ChangeKeeps
<1>7. ASSUME NEW f \in Files, Create(f) PROVE MissInv'
  <2> DEFINE new == [ino |-> changes + 2, ver |-> changes + 2]
             s == <<>>
  <2>1. file[f] = NoFile /\ Change(f, new) /\ watch' = watch /\ queue' = queue
    BY <1>7 DEF Create
  <2>2. new.ino # 0
    BY <1>3
  <2>3. s \in Seq(Nat) /\ queue' = queue \o s
    BY <1>1, <2>1
  <2>4. \A w \in watch : ~OnInode(w, f)
    BY <1>1, <1>3, <2>1 DEF KernelInv, OnInode
  <2> HIDE DEF new, s
  <2>5. file' = [file EXCEPT ![f] = new] /\ UNCHANGED <<treeVars, events>>
    BY <1>2, <2>1
  <2>6. watch' = watch \ none
    BY <1>5, <2>1
  <2> QED
    BY <1>5, <2>2, <2>3, <2>4, <2>5, <2>6, ChangeKeeps
<1>8. ASSUME NEW f \in Files, Replace(f) PROVE MissInv'
  <2>1. PICK new : Change(f, new) /\ (new = NoFile \/ new.ino = changes + 2)
    <3>1. [ino |-> changes + 2, ver |-> changes + 2].ino = changes + 2
      OBVIOUS
    <3> QED
      BY <1>8, <3>1 DEF Replace
  <2>2. new.ino = 0 => new = NoFile
    BY <1>3, <2>1
  <2>3. file' = [file EXCEPT ![f] = new] /\ UNCHANGED <<treeVars, events>>
    BY <1>2, <2>1
  <2>4. CASE Freed(f)
    <3> DEFINE gone == {w \in watch : OnInode(w, f)}
               s == Events(f) \o Events(f)
    <3>1. Events(f) \in Seq(Nat) /\ \A w \in watch : OnInode(w, f) => Twice(s, w.wd)
      BY <1>1, EventsFacts
    <3>2. s \in Seq(Nat)
      BY <3>1, Extended
    <3>3. queue' = queue \o s
      <4>1. queue' = (queue \o Events(f)) \o Events(f)
        BY <2>4 DEF Freed
      <4> QED
        BY <1>1, <3>1, <4>1, Concatenated
    <3>4. gone \in SUBSET watch /\ watch' = watch \ gone
      BY <2>4 DEF Freed
    <3>5. /\ \A w \in gone : Twice(s, w.wd)
          /\ \A w \in watch \ gone : ~OnInode(w, f)
      BY <3>1
    <3> HIDE DEF gone, s
    <3> QED
      BY <2>2, <2>3, <3>2, <3>3, <3>4, <3>5, ChangeKeeps
  <2>5. CASE Kept(f)
    BY <2>2, <2>3, <2>5, KeptKeeps
  <2> QED
    BY <1>8, <2>4, <2>5 DEF Replace
<1>9. ASSUME NEW f \in Files, MoveAway(f) PROVE MissInv'
  <2>1. PICK new : new = NoFile /\ Change(f, new) /\ watch' = watch
    BY <1>9 DEF MoveAway
  <2>2. /\ Events(f) \in Seq(Nat) /\ queue' = queue \o Events(f)
        /\ \A w \in watch : OnInode(w, f) => Once(Events(f), w.wd)
    BY <1>1, <1>9, EventsFacts DEF MoveAway
  <2>3. watch' = watch \ none /\ \A w \in watch \ none : OnInode(w, f) => Once(queue', w.wd)
    BY <1>1, <1>5, <2>1, <2>2, Extended
  <2>4. file' = [file EXCEPT ![f] = new] /\ UNCHANGED <<treeVars, events>>
    BY <1>2, <2>1
  <2> QED
    BY <1>5, <2>1, <2>2, <2>3, <2>4, ChangeKeeps
<1>10. ASSUME NEW w \in Elsewhere PROVE w \in watch /\ w.of \in Files /\ w.wd \in Nat
  BY <1>10 DEF Elsewhere, TypeOK
<1>11. ASSUME NEW w \in Elsewhere, WrittenElsewhere(w) PROVE MissInv'
  <2> DEFINE f == w.of
             new == file[f]
  <2>1. f \in Files /\ w.wd \in Nat /\ (new.ino = 0 => new = NoFile)
    BY <1>4, <1>10, <1>11
  <2>2. Change(f, new) /\ watch' = watch /\ queue' \in Queued(<<w.wd>>) /\ <<w.wd>> \in Seq(Nat)
    BY <1>11, <2>1 DEF WrittenElsewhere
  <2>3. PICK t \in Seq(Nat) : queue' = queue \o t
    BY <2>2, QueuedFacts
  <2>4. file' = [file EXCEPT ![f] = new] /\ UNCHANGED <<treeVars, events>>
    BY <1>2, <2>2
  <2>5. watch' = watch \ none /\ new = file[f]
    BY <1>5, <2>2
  <2> HIDE DEF f, new
  <2> QED
    BY <1>5, <2>1, <2>3, <2>4, <2>5, ChangeKeeps
<1>12. ASSUME NEW w \in Elsewhere, FreedElsewhere(w) PROVE MissInv'
  <2> DEFINE f == w.of
             new == file[f]
             s == <<w.wd, w.wd>>
             gone == {w}
  <2>1. /\ f \in Files /\ w.wd \in Nat /\ (new.ino = 0 => new = NoFile)
        /\ gone \in SUBSET watch /\ s \in Seq(Nat)
    BY <1>4, <1>10, <1>12
  <2>2. /\ queue' = queue \o s /\ watch' = watch \ gone
        /\ file' = [file EXCEPT ![f] = new] /\ UNCHANGED <<treeVars, events>>
    BY <1>1, <1>12 DEF FreedElsewhere, fsVars, workVars
  <2>3. Twice(s, w.wd)
    BY <2>1 DEF Twice
  <2>4. (\A v \in gone : Twice(s, v.wd)) /\ new = file[f]
    BY <2>3
  <2> HIDE DEF f, new, s, gone
  <2> QED
    BY <2>1, <2>2, <2>4, ChangeKeeps
<1> QED
  BY <1>6, <1>7, <1>8, <1>9, <1>11, <1>12 DEF FileSystem

(* A page is registered with the watch of its inode, old or new.           *)
LEMMA RegisterMiss ==
  ASSUME TypeOK, MissInv, CacheInv, Register
  PROVE  MissInv'
<1> DEFINE p == held.path
           now == Current(p)
           wd == WdFor(p)
           vNew == [of |-> Of(p), ino |-> now.ino, wd |-> wd, named |-> TRUE]
           eNew == [path |-> p, wd |-> wd, ver |-> held.ver, at |-> now.ver]
           all == IF WatchesOf(p) = {} THEN watch \cup {vNew} ELSE watch
<1>1. /\ p \in Names /\ now # NoFile
      /\ watch' = all /\ by_wd' = by_wd \cup {eNew}
      /\ by_path' = by_path \cup {eNew}
      /\ UNCHANGED <<file, queue, events, dropped>>
  <2>1. ~ \E d \in by_path : d.path = held.path
    BY DEF CacheInv, HeldIsNew, NotCached, Register
  <2>2. p \in Names
    BY DEF TypeOK
  <2> QED
    BY <2>1, <2>2 DEF Register, Ok, fsVars
<1>2. /\ KernelInv /\ EntryInv /\ NoIdleWatch /\ DroppedInv /\ NoMissedChange /\ Covered
      /\ by_path = by_wd
  BY DEF MissInv, CacheInv, TreesAgree
<1>3. now.ino # 0
  <2>1. CASE p = Dir
    BY <2>1 DEF Current
  <2>2. CASE p # Dir
    <3>1. FileOf[p] \in Files /\ now = file[FileOf[p]]
      BY <1>1, <2>2, CacheAssumption DEF Current, Names, CacheAssumption
    <3> QED
      BY <1>1, <1>2, <3>1 DEF KernelInv
  <2> QED
    BY <2>1, <2>2
<1>4. PICK u : /\ watch' = watch \cup {u} /\ u.of = Of(p) /\ u.ino = now.ino /\ u.wd = wd
              /\ \/ u \in watch
                 \/ /\ \A w \in watch : ~(w.of = u.of /\ w.ino = u.ino)
                    /\ \A w \in watch : w.wd # u.wd
                    /\ \A d \in by_wd : d.wd # u.wd
  <2>1. \/ \E w \in watch : w.of = Of(p) /\ w.ino = now.ino /\ w.wd = wd
        \/ /\ \A w \in watch : ~(w.of = Of(p) /\ w.ino = now.ino)
           /\ \A w \in watch : w.wd # wd
           /\ \A d \in by_wd : d.wd # wd
    BY <1>1, <1>2, WdFacts
  <2>2. ASSUME NEW w \in watch, w.of = Of(p), w.ino = now.ino, w.wd = wd
        PROVE  watch' = watch \cup {w}
    <3>1. w \in WatchesOf(p)
      BY <2>2 DEF WatchesOf
    <3> QED
      BY <1>1, <3>1
  <2>3. ASSUME \A w \in watch : ~(w.of = Of(p) /\ w.ino = now.ino)
        PROVE  watch' = watch \cup {vNew}
    <3>1. WatchesOf(p) = {}
      BY <2>3 DEF WatchesOf
    <3> QED
      BY <1>1, <3>1
  <2>4. vNew.of = Of(p) /\ vNew.ino = now.ino /\ vNew.wd = wd
    OBVIOUS
  <2> HIDE DEF vNew
  <2> QED
    BY <2>1, <2>2, <2>3, <2>4
<1>5. PICK v, e :
        /\ watch' = watch \cup {v} /\ by_wd' = by_wd \cup {e} /\ by_path' = by_path \cup {e}
        /\ \/ v \in watch
           \/ /\ \A w \in watch : ~(w.of = v.of /\ w.ino = v.ino)
              /\ \A w \in watch : w.wd # v.wd
              /\ \A d \in by_wd : d.wd # v.wd
        /\ v.of = Of(e.path) /\ v.ino = Current(e.path).ino /\ v.ino # 0
        /\ v.wd = e.wd /\ e.at = Current(e.path).ver
  <2>1. /\ u.of = Of(eNew.path) /\ u.ino = Current(eNew.path).ino /\ u.ino # 0
        /\ u.wd = eNew.wd /\ eNew.at = Current(eNew.path).ver
    BY <1>3, <1>4
  <2> HIDE DEF vNew, eNew, all
  <2> QED
    BY <1>1, <1>4, <2>1
<1> HIDE DEF vNew, eNew, all, wd, now, p
<1>6. KernelInv'
  <2>1. IsFiniteSet(watch') /\ IsFiniteSet(by_wd')
    BY <1>2, <1>5, FS_AddElement DEF KernelInv
  <2>2. \A w, x \in watch' : w.of = x.of /\ w.ino = x.ino => w = x
    BY <1>2, <1>5 DEF KernelInv
  <2>3. \A w, x \in watch' : w.wd = x.wd => w = x
    BY <1>2, <1>5 DEF KernelInv
  <2>4. \A w \in watch' : w.ino # 0
    BY <1>2, <1>5 DEF KernelInv
  <2>5. (\A f \in Files : file[f].ino = 0 => file[f] = NoFile)'
    BY <1>1, <1>2 DEF KernelInv, NoFile
  <2> QED
    BY <2>1, <2>2, <2>3, <2>4, <2>5 DEF KernelInv
<1>7. EntryInv'
  <2>1. \A d \in by_wd, w \in watch' : d.wd = w.wd => w.of = Of(d.path)
    BY <1>2, <1>5 DEF EntryInv
  <2>2. \A w \in watch' : e.wd = w.wd => w.of = Of(e.path)
    BY <1>2, <1>5 DEF KernelInv
  <2>3. \A d \in by_wd : d.wd = e.wd => Of(d.path) = Of(e.path)
    BY <1>2, <1>5 DEF EntryInv
  <2>4. \A d, c \in by_wd' : d.wd = c.wd => Of(d.path) = Of(c.path)
    BY <1>2, <1>5, <2>3 DEF EntryInv
  <2>5. \A d \in by_wd', w \in watch' : d.wd = w.wd => w.of = Of(d.path)
    BY <1>5, <2>1, <2>2
  <2> QED
    BY <2>4, <2>5 DEF EntryInv, Of
<1>8. NoIdleWatch'
  BY <1>2, <1>5 DEF NoIdleWatch
<1>9. Pending' = Pending /\ Backlog' = Backlog
  BY <1>1 DEF Pending, Backlog
<1>10. \A q : Current(q)' = Current(q)
  BY <1>1 DEF Current
<1>11. NoMissedChange'
  <2>1. ASSUME NEW d \in by_path, d.wd \notin Pending, ~LostName(d)', ~LeftOver(d)'
        PROVE  (Watched(d) /\ Current(d.path).ver = d.at)'
    <3>1. ~LostName(d) /\ ~LeftOver(d)
      BY <1>1, <1>5, <2>1 DEF LostName, LeftOver
    <3>2. Watched(d) /\ Current(d.path).ver = d.at
      BY <1>2, <2>1, <3>1 DEF NoMissedChange
    <3> QED
      BY <1>5, <1>10, <3>2 DEF Watched, WatchesOf, Of
  <2>2. (Watched(e) /\ Current(e.path).ver = e.at)'
    BY <1>5, <1>10 DEF Watched, WatchesOf, Of
  <2> QED
    BY <1>5, <1>9, <2>1, <2>2 DEF NoMissedChange
<1>12. Covered'
  <2> SUFFICES ASSUME NEW d \in by_wd', \A w \in watch' : w.wd # d.wd
               PROVE  \/ Twice(Backlog, d.wd)
                      \/ Once(Backlog, d.wd) /\ \E c \in dropped : c.wd = d.wd
                      \/ LeftOver(d)
    BY <1>1, <1>9 DEF Covered, LeftOver
  <2>1. d.wd # v.wd /\ d \in by_wd
    BY <1>5
  <2> QED
    BY <1>2, <1>5, <2>1 DEF Covered
<1>13. DroppedInv'
  <2>1. \A d \in dropped : d.wd # v.wd
    BY <1>2, <1>5 DEF DroppedInv
  <2> QED
    BY <1>1, <1>2, <1>5, <2>1 DEF DroppedInv
<1> QED
  BY <1>6, <1>7, <1>8, <1>11, <1>12, <1>13 DEF MissInv

LEMMA HeadOfBoth ==
  ASSUME NEW q \in Seq(Nat), NEW r \in Seq(Nat), q # <<>>
  PROVE  /\ q \o r \in Seq(Nat) /\ q \o r # <<>>
         /\ Head(q \o r) = Head(q) /\ Tail(q \o r) = Tail(q) \o r
OBVIOUS

(* What is left of the events when the first is done and s is queued.      *)
LEMMA BacklogFacts ==
  ASSUME TypeOK, pc = "events", EventDone, NEW s \in Seq(Nat), queue' = queue \o s, NEW h
  PROVE  /\ h \in Pending <=> Once(Backlog, h)
         /\ h \in Pending' <=> Once(Backlog', h)
         /\ Once(Backlog, h) /\ h # Head(events) => Once(Backlog', h)
         /\ Twice(Backlog, h) => Once(Backlog', h)
         /\ Twice(Backlog, h) /\ h # Head(events) => Twice(Backlog', h)
         /\ Once(s, h) => Once(Backlog', h)
<1>1. /\ events \in Seq(Nat) /\ queue \in Seq(Nat) /\ events # <<>> /\ events' = Tail(events)
  BY DEF TypeOK, EventDone
<1>2. /\ Backlog \in Seq(Nat) /\ Backlog # <<>> /\ Head(Backlog) = Head(events)
      /\ Tail(Backlog) = Tail(events) \o queue
  BY <1>1, HeadOfBoth DEF Backlog
<1>3. Tail(events) \in Seq(Nat) /\ queue' \in Seq(Nat) /\ Tail(Backlog) \in Seq(Nat)
  BY <1>1, <1>2, Extended, Shortened
<1>4. Backlog' = Tail(Backlog) \o s
  <2> DEFINE rest == Tail(events)
  <2>1. rest \in Seq(Nat) /\ Tail(Backlog) = rest \o queue /\ Backlog' = rest \o (queue \o s)
    BY <1>1, <1>2, <1>3 DEF Backlog
  <2> HIDE DEF rest
  <2>2. rest \o (queue \o s) = (rest \o queue) \o s
    BY <1>1, <2>1, Concatenated
  <2> QED
    BY <2>1, <2>2
<1>5. (h \in Pending <=> Once(Backlog, h)) /\ (h \in Pending' <=> Once(Backlog', h))
  BY <1>1, <1>3, PendingOnce DEF Pending, Backlog
<1>6. /\ Once(Backlog, h) /\ h # Head(events) => Once(Tail(Backlog), h)
      /\ Twice(Backlog, h) => Once(Tail(Backlog), h)
      /\ Twice(Backlog, h) /\ h # Head(events) => Twice(Tail(Backlog), h)
  BY <1>2, Shortened
<1>7. /\ Once(Backlog', h) <=> Once(Tail(Backlog), h) \/ Once(s, h)
      /\ Twice(Tail(Backlog), h) => Twice(Backlog', h)
  BY <1>3, <1>4, Extended
<1> QED
  BY <1>5, <1>6, <1>7

(* An event drops one entry with its descriptor, and the watch with it.    *)
LEMMA DropMiss ==
  ASSUME TypeOK, MissInv, CacheInv, DropEntry
  PROVE  MissInv'
<1>1. /\ KernelInv /\ EntryInv /\ NoIdleWatch /\ DroppedInv /\ NoMissedChange /\ Covered
      /\ by_path = by_wd /\ \A c, d \in by_wd : c.path = d.path => c = d
  BY DEF MissInv, CacheInv, TreesAgree
<1>2. PICK e \in by_wd :
        /\ e.wd = Head(events) /\ by_path' = by_path \ {e} /\ by_wd' = by_wd \ {e}
        /\ Remember(e) /\ RemoveWatch(e.wd)
  BY DEF DropEntry
<1>3. pc = "events" /\ EventDone /\ file' = file
  BY DEF DropEntry, EventDone, fsVars
<1>4. watch' = {w \in watch : w.wd # e.wd}
  BY <1>2 DEF RemoveWatch
<1>5. e.wd \in Nat /\ queue \in Seq(Nat)
  BY DEF TypeOK, Entries
<1>6. PICK s \in Seq(Nat) :
        /\ queue' = queue \o s
        /\ (\E w \in watch : w.wd = e.wd) => Once(s, e.wd)
  <2>1. CASE {w \in watch : w.wd = e.wd} = {}
    <3>1. queue' = queue \o <<>> /\ <<>> \in Seq(Nat)
      BY <1>2, <1>5, <2>1 DEF RemoveWatch
    <3> QED
      BY <2>1, <3>1
  <2>2. CASE {w \in watch : w.wd = e.wd} # {}
    <3>1. queue' = queue \o <<e.wd>> /\ <<e.wd>> \in Seq(Nat)
      BY <1>2, <1>5, <2>2 DEF RemoveWatch
    <3>2. Once(<<e.wd>>, e.wd)
      BY DEF Once
    <3> QED
      BY <3>1, <3>2
  <2> QED
    BY <2>1, <2>2
<1>7. KernelInv'
  <2>1. IsFiniteSet(watch') /\ IsFiniteSet(by_wd')
    BY <1>1, <1>2, <1>4, FS_Subset DEF KernelInv
  <2> QED
    BY <1>1, <1>3, <1>4, <2>1 DEF KernelInv, NoFile
<1>8. EntryInv'
  BY <1>1, <1>2, <1>4 DEF EntryInv, Of
<1>9. NoIdleWatch'
  BY <1>1, <1>2, <1>4 DEF NoIdleWatch
<1> DEFINE x == [path |-> e.path, wd |-> e.wd]
<1>10. /\ dropped' = {d \in dropped \cup {x} : \E c \in by_wd : c # e /\ c.wd = d.wd}
       /\ x.path = e.path /\ x.wd = e.wd
  BY <1>2 DEF Remember
<1> HIDE DEF x
<1>11. x \notin dropped
  BY <1>1, <1>10 DEF DroppedInv
<1>12. \A d \in by_wd : d # e =>
         /\ \A c \in dropped : c.wd = d.wd => c \in dropped'
         /\ d.wd = e.wd => x \in dropped'
  BY <1>10
<1>13. DroppedInv'
  <2>1. \A d \in dropped' : \E c \in by_wd' : c.wd = d.wd
    BY <1>2, <1>10
  <2>2. \A d \in dropped', w \in watch' : d.wd # w.wd
    BY <1>1, <1>4, <1>10 DEF DroppedInv
  <2>3. ASSUME NEW d \in dropped', NEW c \in by_wd', d.path = c.path, d.wd = c.wd PROVE FALSE
    <3>1. d = x
      BY <1>1, <1>2, <1>10, <2>3 DEF DroppedInv
    <3> QED
      BY <1>1, <1>2, <1>10, <2>3, <3>1
  <2> QED
    BY <2>1, <2>2, <2>3 DEF DroppedInv
(* What is left of the events and of what was dropped for the descriptor   *)
(* of an entry whose watch is gone.                                        *)
<1>14. ASSUME NEW d \in by_wd, d # e, \A w \in watch' : w.wd # d.wd
       PROVE  \/ Twice(Backlog', d.wd)
              \/ Once(Backlog', d.wd) /\ \E c \in dropped' : c.wd = d.wd
              \/ LeftOver(d)'
  <2>1. LeftOver(d) => LeftOver(d)'
    BY <1>12, <1>14 DEF LeftOver
  <2>2. /\ Once(Backlog, d.wd) /\ d.wd # Head(events) => Once(Backlog', d.wd)
        /\ Twice(Backlog, d.wd) => Once(Backlog', d.wd)
        /\ Twice(Backlog, d.wd) /\ d.wd # Head(events) => Twice(Backlog', d.wd)
        /\ Once(s, d.wd) => Once(Backlog', d.wd)
    BY <1>3, <1>6, BacklogFacts
  <2>3. CASE d.wd # e.wd
    <3>1. \A w \in watch : w.wd # d.wd
      BY <1>4, <1>14, <2>3
    <3>2. \/ Twice(Backlog, d.wd)
          \/ Once(Backlog, d.wd) /\ \E c \in dropped : c.wd = d.wd
          \/ LeftOver(d)
      BY <1>1, <3>1 DEF Covered
    <3> QED
      BY <1>2, <1>12, <1>14, <2>1, <2>2, <2>3, <3>2
  <2>4. CASE d.wd = e.wd
    <3>1. x \in dropped' /\ x.wd = d.wd
      BY <1>10, <1>12, <1>14, <2>4
    <3>2. CASE \E w \in watch : w.wd = e.wd
      BY <1>6, <2>2, <2>4, <3>1, <3>2
    <3>3. CASE \A w \in watch : w.wd # e.wd
      <4>1. CASE Twice(Backlog, d.wd)
        BY <2>2, <3>1, <4>1
      <4>2. ASSUME NEW c \in dropped, c.wd = d.wd PROVE LeftOver(d)'
        <5>1. c \in dropped' /\ c # x
          BY <1>11, <1>12, <1>14, <4>2
        <5> QED
          BY <3>1, <4>2, <5>1 DEF LeftOver
      <4> QED
        BY <1>1, <2>1, <2>4, <3>3, <4>1, <4>2 DEF Covered
    <3> QED
      BY <3>2, <3>3
  <2> QED
    BY <2>3, <2>4
<1>15. NoMissedChange'
  <2> SUFFICES ASSUME NEW d \in by_path', d.wd \notin Pending', ~LostName(d)', ~LeftOver(d)'
               PROVE  (Watched(d) /\ Current(d.path).ver = d.at)'
    BY DEF NoMissedChange
  <2>1. d \in by_wd /\ d # e
    BY <1>1, <1>2
  <2>2. ~Once(Backlog', d.wd) /\ ~Once(s, d.wd) /\ ~Twice(Backlog', d.wd)
    <3>1. ~Once(Backlog', d.wd) /\ ~Once(s, d.wd)
      BY <1>3, <1>6, BacklogFacts
    <3> QED
      BY <3>1 DEF Once, Twice
  <2>3. PICK v \in watch' : v.wd = d.wd
    BY <1>14, <2>1, <2>2
  <2>4. d.wd # e.wd
    BY <1>4, <2>3
  <2>5. d.wd \notin Pending
    BY <1>2, <1>3, <1>6, <2>2, <2>4, BacklogFacts
  <2>6. ~LostName(d) /\ ~LeftOver(d)
    BY <1>4, <1>12, <2>1, <2>4 DEF LostName, LeftOver
  <2>7. Watched(d) /\ Current(d.path).ver = d.at
    BY <1>1, <2>1, <2>5, <2>6 DEF NoMissedChange
  <2>8. Current(d.path)' = Current(d.path)
    BY <1>3 DEF Current
  <2> QED
    BY <1>4, <2>4, <2>7, <2>8 DEF Watched, WatchesOf, Of
<1>16. Covered'
  BY <1>2, <1>14 DEF Covered
<1> QED
  BY <1>7, <1>8, <1>9, <1>13, <1>15, <1>16 DEF MissInv

(* A step that leaves files, watches and entries alone, and of the events  *)
(* handles at most one that is no entry's.                                 *)
LEMMA QuietMiss ==
  ASSUME MissInv, UNCHANGED <<file, watch, treeVars>>,
         \A e \in by_wd : /\ e.wd \in Pending => e.wd \in Pending'
                          /\ Once(Backlog, e.wd) => Once(Backlog', e.wd)
                          /\ Twice(Backlog, e.wd) => Twice(Backlog', e.wd),
         by_path = by_wd
  PROVE  MissInv'
<1>1. UNCHANGED <<file, watch, by_path, by_wd, dropped>>
  BY DEF treeVars
<1>2. KernelInv' /\ EntryInv' /\ NoIdleWatch' /\ DroppedInv'
  BY <1>1 DEF MissInv, KernelInv, EntryInv, NoIdleWatch, DroppedInv, Of, NoFile
<1>3. \A e : (LostName(e)' <=> LostName(e)) /\ (LeftOver(e)' <=> LeftOver(e))
  BY <1>1 DEF LostName, LeftOver
<1>4. Covered'
  BY <1>1, <1>3 DEF MissInv, Covered
<1>5. \A q : Current(q)' = Current(q)
  BY <1>1 DEF Current
<1>6. NoMissedChange'
  BY <1>1, <1>3, <1>5 DEF MissInv, NoMissedChange, Watched, WatchesOf, Of
<1> QED
  BY <1>2, <1>4, <1>6 DEF MissInv

LEMMA MissInit == Init => MissInv
<1>1. SUFFICES ASSUME Init PROVE MissInv
  OBVIOUS
<1>2. IsFiniteSet({})
  BY FS_EmptySet
<1>3. \A f \in Files : file[f].ino # 0
  BY <1>1 DEF Init
<1> QED
  BY <1>1, <1>2, <1>3 DEF Init, MissInv, KernelInv, EntryInv, NoIdleWatch, DroppedInv,
       NoMissedChange, Covered

LEMMA MissStep ==
  ASSUME TypeOK, MissInv, CacheInv, [Next]_vars
  PROVE  MissInv'
<1>1. by_path = by_wd /\ events \in Seq(Nat) /\ queue \in Seq(Nat)
  BY DEF CacheInv, TreesAgree, TypeOK
<1>2. CASE FileSystem
  BY <1>2, FileMiss
<1>3. CASE Register
  BY <1>3, RegisterMiss
<1>4. CASE DropEntry
  BY <1>4, DropMiss
<1>5. CASE IgnoreEvent
  <2> DEFINE s == <<>>
  <2>1. /\ pc = "events" /\ EventDone /\ UNCHANGED <<file, watch, queue, treeVars>>
        /\ \A e \in by_wd : e.wd # Head(events)
    BY <1>5 DEF IgnoreEvent, EventDone, fsVars, kernelVars
  <2>2. s \in Seq(Nat) /\ queue' = queue \o s
    BY <1>1, <2>1
  <2> HIDE DEF s
  <2>3. \A e \in by_wd : /\ e.wd \in Pending => e.wd \in Pending'
                         /\ Once(Backlog, e.wd) => Once(Backlog', e.wd)
                         /\ Twice(Backlog, e.wd) => Twice(Backlog', e.wd)
    BY <2>1, <2>2, BacklogFacts
  <2> QED
    BY <1>1, <2>1, <2>3, QuietMiss
<1>6. CASE ReadEvents
  <2>1. events = <<>> /\ UNCHANGED <<file, watch, treeVars>>
    BY <1>6 DEF ReadEvents, TypeOK, fsVars
  <2>2. PICK n \in 1..Len(queue) : /\ events' = SubSeq(queue, 1, n)
                                  /\ queue' = SubSeq(queue, n + 1, Len(queue))
    BY <1>6 DEF ReadEvents
  <2>3. events' \o queue' = queue /\ events' \in Seq(Nat) /\ queue' \in Seq(Nat)
    BY <1>1, <2>2, Divided
  <2>4. Backlog' = Backlog
    BY <1>1, <2>1, <2>3 DEF Backlog
  <2>5. \A h : (h \in Pending <=> Once(Backlog, h)) /\ (h \in Pending' <=> Once(Backlog', h))
    BY <1>1, <2>3, PendingOnce DEF Pending, Backlog
  <2> QED
    BY <1>1, <2>1, <2>4, <2>5, QuietMiss
<1>7. CASE \/ \E p \in Paths : Request(p)
           \/ RequestDir \/ ServeCached \/ OpenFails \/ OpenLeaks \/ ReadFile \/ RegisterFails
           \/ UNCHANGED vars
  <2>1. UNCHANGED <<file, watch, queue, events, treeVars>>
    BY <1>7 DEF Request, RequestDir, ServeCached, OpenFails, OpenLeaks, ReadFile, RegisterFails,
       Ok, NotOk, vars, fsVars, kernelVars, treeVars, workVars
  <2>2. Pending' = Pending /\ Backlog' = Backlog
    BY <2>1 DEF Pending, Backlog
  <2> QED
    BY <1>1, <2>1, <2>2, QuietMiss
<1> QED
  BY <1>2, <1>3, <1>4, <1>5, <1>6, <1>7 DEF Next, Serve, HandleEvent

----------------------------------------------------------------------------
(* Types.                                                                  *)

FsTypes == file \in [Files -> [ino : Stamps, ver : Stamps]] /\ changes \in 0..MaxChanges
KernelTypes ==
  /\ watch \subseteq [of : Files \cup {Dir}, ino : Stamps, wd : Nat, named : BOOLEAN]
  /\ queue \in Seq(Nat)
  /\ leaked \subseteq [of : Files \cup {Dir}, ino : Stamps]
TreeTypes ==
  /\ by_path \subseteq Entries /\ by_wd \subseteq Entries
  /\ dropped \subseteq [path : Names, wd : Nat]
WorkTypes ==
  /\ events \in Seq(Nat) /\ pc \in {"idle", "open", "watch", "events"}
  /\ (pc = "events" <=> events # <<>>)
  /\ held \in [path : Names, ver : Stamps] /\ dirhit \in BOOLEAN

LEMMA TypesAre ==
  TypeOK <=> FsTypes /\ KernelTypes /\ TreeTypes /\ WorkTypes /\ tries \in Seq(Names)
BY DEF TypeOK, FsTypes, KernelTypes, TreeTypes, WorkTypes

LEMMA StampFacts == 0 \in Stamps /\ 1 \in Stamps /\ MaxChanges \in Nat
BY CacheAssumption DEF Stamps, CacheAssumption

LEMMA EmptySequence ==
  /\ \A S : <<>> \in Seq(S)
  /\ \A q \in Seq(Nat) : q = <<>> <=> Len(q) = 0
OBVIOUS

LEMMA TypeInit == Init => TypeOK
<1>1. SUFFICES ASSUME Init PROVE TypeOK
  OBVIOUS
<1>2. FsTypes /\ KernelTypes /\ TreeTypes
  BY <1>1, StampFacts DEF Init, FsTypes, KernelTypes, TreeTypes
<1>3. /\ events = <<>> /\ tries = <<>> /\ pc = "idle" /\ dirhit = FALSE
      /\ held = [path |-> Dir, ver |-> 0]
  BY <1>1 DEF Init, NotHeld
<1>4. held \in [path : Names, ver : Stamps]
  BY <1>3, StampFacts DEF Names
<1>5. WorkTypes /\ tries \in Seq(Names)
  BY <1>3, <1>4, EmptySequence DEF WorkTypes
<1> QED
  BY <1>2, <1>5, TypesAre

LEMMA CurrentTypes ==
  ASSUME FsTypes, NEW p \in Names PROVE Current(p) \in [ino : Stamps, ver : Stamps]
BY StampFacts, CacheAssumption DEF Current, FsTypes, Names, CacheAssumption

(* How a request goes on.                                                  *)
LEMMA GoesOn ==
  ASSUME TypeOK, pc \in {"open", "watch"}, Ok \/ NotOk
  PROVE  WorkTypes'
<1>1. /\ WorkTypes /\ events = <<>> /\ events' = events
      /\ pc' \in {"idle", "open", "watch"} /\ dirhit' \in BOOLEAN
  BY TypesAre DEF WorkTypes, Ok, NotOk
<1>2. NotHeld \in [path : Names, ver : Stamps]
  BY StampFacts DEF NotHeld, Names
<1>3. tries # <<>> => Head(tries) \in Names
  BY DEF TypeOK
<1>4. held' \in [path : Names, ver : Stamps]
  BY <1>2, <1>3, StampFacts DEF Ok, NotOk
<1> QED
  BY <1>1, <1>4 DEF WorkTypes

LEMMA FileTypes ==
  ASSUME TypeOK, KernelInv, FileSystem
  PROVE  FsTypes' /\ KernelTypes' /\ UNCHANGED <<treeVars, workVars>>
<1>1. FsTypes /\ KernelTypes /\ queue \in Seq(Nat) /\ changes \in Nat
  BY TypesAre, CacheAssumption DEF KernelTypes, FsTypes, CacheAssumption
<1>2. ASSUME NEW f \in Files, NEW new \in [ino : Stamps, ver : Stamps], Change(f, new)
      PROVE  FsTypes' /\ UNCHANGED <<leaked, treeVars, workVars>>
  <2>1. changes' \in 0..MaxChanges /\ file' \in [Files -> [ino : Stamps, ver : Stamps]]
    BY <1>1, <1>2, StampFacts DEF Change, FsTypes
  <2> QED
    BY <1>2, <2>1 DEF Change, FsTypes
<1>3. NoFile \in [ino : Stamps, ver : Stamps]
  BY StampFacts DEF NoFile
<1>4. ASSUME changes < MaxChanges PROVE changes + 2 \in Stamps
  BY <1>1, <1>4, StampFacts DEF Stamps
<1>5. ASSUME NEW f, NEW new, Change(f, new) PROVE changes + 2 \in Stamps
  BY <1>4, <1>5 DEF Change
<1>6. ASSUME NEW s \in Seq(Nat), queue' \in Queued(s) PROVE queue' \in Seq(Nat)
  <2>1. PICK t \in Seq(Nat) : queue' = queue \o t
    BY <1>6, QueuedFacts
  <2> QED
    BY <1>1, <2>1, Extended
<1>7. ASSUME NEW f \in Files
      PROVE  /\ file[f] \in [ino : Stamps, ver : Stamps]
             /\ Events(f) \in Seq(Nat) /\ DirEvents(f) \in Seq(Nat)
             /\ DirEvents(f) \o Events(f) \in Seq(Nat)
             /\ queue \o Events(f) \in Seq(Nat) /\ (queue \o Events(f)) \o Events(f) \in Seq(Nat)
  <2>1. Events(f) \in Seq(Nat) /\ DirEvents(f) \in Seq(Nat)
    BY <1>7, EventsFacts
  <2>2. queue \o Events(f) \in Seq(Nat) /\ DirEvents(f) \o Events(f) \in Seq(Nat)
    BY <1>1, <2>1, Extended
  <2>3. (queue \o Events(f)) \o Events(f) \in Seq(Nat)
    BY <2>1, <2>2, Extended
  <2> QED
    BY <1>1, <1>7, <2>1, <2>2, <2>3 DEF FsTypes
<1>8. ASSUME NEW f \in Files, Modify(f) \/ CloseWrite(f)
      PROVE  FsTypes' /\ KernelTypes' /\ UNCHANGED <<treeVars, workVars>>
  <2>1. PICK new : Change(f, new) /\ (new = file[f] \/ new = [file[f] EXCEPT !.ver = changes + 2])
    BY <1>8 DEF Modify, CloseWrite
  <2>2. new \in [ino : Stamps, ver : Stamps]
    BY <1>5, <1>7, <2>1
  <2>3. queue' \in Seq(Nat) /\ watch' = watch
    BY <1>6, <1>7, <1>8 DEF Modify, CloseWrite
  <2>4. FsTypes' /\ UNCHANGED <<leaked, treeVars, workVars>>
    BY <1>2, <2>1, <2>2
  <2> QED
    BY <1>1, <2>3, <2>4 DEF KernelTypes
<1>9. ASSUME NEW f \in Files, Create(f) \/ MoveAway(f)
      PROVE  FsTypes' /\ KernelTypes' /\ UNCHANGED <<treeVars, workVars>>
  <2>1. PICK new : Change(f, new) /\ (new = NoFile \/ new = [ino |-> changes + 2, ver |-> changes + 2])
    BY <1>9 DEF Create, MoveAway
  <2>2. new \in [ino : Stamps, ver : Stamps]
    BY <1>3, <1>5, <2>1
  <2>3. queue' \in Seq(Nat) /\ watch' = watch
    BY <1>1, <1>7, <1>9 DEF Create, MoveAway
  <2>4. FsTypes' /\ UNCHANGED <<leaked, treeVars, workVars>>
    BY <1>2, <2>1, <2>2
  <2> QED
    BY <1>1, <2>3, <2>4 DEF KernelTypes
<1>10. ASSUME NEW f \in Files, Replace(f)
       PROVE  FsTypes' /\ KernelTypes' /\ UNCHANGED <<treeVars, workVars>>
  <2>1. PICK new : Change(f, new) /\ (new = NoFile \/ new = [ino |-> changes + 2, ver |-> changes + 2])
    BY <1>10 DEF Replace
  <2>2. new \in [ino : Stamps, ver : Stamps]
    BY <1>3, <1>5, <2>1
  <2>3. FsTypes' /\ UNCHANGED <<leaked, treeVars, workVars>>
    BY <1>2, <2>1, <2>2
  <2>4. queue' \in Seq(Nat)
    BY <1>1, <1>7, <1>10 DEF Replace, Freed, Kept
  <2>5. watch' \subseteq [of : Files \cup {Dir}, ino : Stamps, wd : Nat, named : BOOLEAN]
    <3>1. CASE Freed(f)
      BY <1>1, <3>1 DEF Freed, KernelTypes
    <3>2. CASE Kept(f)
      <4> DEFINE W == [of : Files \cup {Dir}, ino : Stamps, wd : Nat, named : BOOLEAN]
                 Now(w) == IF OnInode(w, f) THEN [w EXCEPT !.named = FALSE] ELSE w
      <4>1. \A w \in W : Now(w) \in W
        OBVIOUS
      <4>2. watch \subseteq W /\ watch' = {Now(w) : w \in watch}
        BY <1>1, <3>2 DEF Kept, KernelTypes
      <4> HIDE DEF W, Now
      <4>3. watch' \subseteq W
        BY <4>1, <4>2
      <4> QED
        BY <4>3 DEF W
    <3> QED
      BY <1>10, <3>1, <3>2 DEF Replace
  <2> QED
    BY <1>1, <2>3, <2>4, <2>5 DEF KernelTypes
<1>11. ASSUME NEW w \in Elsewhere
       PROVE  w.of \in Files /\ <<w.wd>> \in Seq(Nat) /\ <<w.wd, w.wd>> \in Seq(Nat)
  <2>1. w.of \in Files /\ w.wd \in Nat
    BY <1>1, <1>11 DEF Elsewhere, KernelTypes
  <2> QED
    BY <2>1
<1>12. ASSUME NEW w \in Elsewhere, WrittenElsewhere(w)
       PROVE  FsTypes' /\ KernelTypes' /\ UNCHANGED <<treeVars, workVars>>
  <2>1. queue' \in Seq(Nat) /\ watch' = watch
    BY <1>6, <1>11, <1>12 DEF WrittenElsewhere
  <2>2. FsTypes' /\ UNCHANGED <<leaked, treeVars, workVars>>
    BY <1>2, <1>7, <1>11, <1>12 DEF WrittenElsewhere
  <2> QED
    BY <1>1, <2>1, <2>2 DEF KernelTypes
<1>13. ASSUME NEW w \in Elsewhere, FreedElsewhere(w)
       PROVE  FsTypes' /\ KernelTypes' /\ UNCHANGED <<treeVars, workVars>>
  <2>1. queue' \in Seq(Nat)
    BY <1>1, <1>11, <1>13, Extended DEF FreedElsewhere
  <2>2. watch' \subseteq watch /\ UNCHANGED <<fsVars, leaked, treeVars, workVars>>
    BY <1>13 DEF FreedElsewhere
  <2> QED
    BY <1>1, <2>1, <2>2 DEF FsTypes, KernelTypes, fsVars
<1> QED
  BY <1>8, <1>9, <1>10, <1>12, <1>13 DEF FileSystem

LEMMA RegisterTypes ==
  ASSUME TypeOK, KernelInv, HeldIsNew, Register
  PROVE  FsTypes' /\ KernelTypes' /\ TreeTypes' /\ Ok
<1> DEFINE p == held.path
           now == Current(p)
           wd == WdFor(p)
           v == [of |-> Of(p), ino |-> now.ino, wd |-> wd, named |-> TRUE]
           e == [path |-> p, wd |-> wd, ver |-> held.ver, at |-> now.ver]
<1>1. FsTypes /\ KernelTypes /\ TreeTypes /\ p \in Names /\ held.ver \in Stamps
  BY TypesAre DEF WorkTypes
<1>2. now \in [ino : Stamps, ver : Stamps] /\ wd \in Nat /\ Of(p) \in Files \cup {Dir}
  BY <1>1, CurrentTypes, WdFacts, OfFacts
<1>3. ~ \E d \in by_path : d.path = held.path
  BY DEF HeldIsNew, NotCached, Register
<1>4. /\ watch' \subseteq watch \cup {v} /\ by_wd' = by_wd \cup {e} /\ by_path' = by_path \cup {e}
      /\ UNCHANGED <<fsVars, queue, leaked, dropped>> /\ Ok
  BY <1>3 DEF Register
<1>5. /\ v \in [of : Files \cup {Dir}, ino : Stamps, wd : Nat, named : BOOLEAN]
      /\ e \in Entries
  BY <1>1, <1>2 DEF Entries
<1> HIDE DEF p, now, wd, v, e
<1> QED
  BY <1>1, <1>4, <1>5 DEF FsTypes, KernelTypes, TreeTypes, fsVars

LEMMA DropTypes ==
  ASSUME TypeOK, DropEntry
  PROVE  FsTypes' /\ KernelTypes' /\ TreeTypes'
<1>1. FsTypes /\ KernelTypes /\ TreeTypes
  BY TypesAre
<1>2. PICK e \in by_wd :
        by_path' = by_path \ {e} /\ by_wd' = by_wd \ {e} /\ Remember(e) /\ RemoveWatch(e.wd)
  BY DEF DropEntry
<1>3. e.wd \in Nat /\ [path |-> e.path, wd |-> e.wd] \in [path : Names, wd : Nat]
  BY <1>1, <1>2 DEF TreeTypes, Entries
<1>4. queue' \in Seq(Nat) /\ watch' \subseteq watch
  BY <1>1, <1>2, <1>3 DEF RemoveWatch, KernelTypes
<1>5. UNCHANGED <<fsVars, leaked>>
  BY DEF DropEntry, EventDone
<1>6. dropped' \subseteq [path : Names, wd : Nat]
  BY <1>1, <1>2, <1>3 DEF Remember, TreeTypes
<1> QED
  BY <1>1, <1>2, <1>4, <1>5, <1>6 DEF FsTypes, KernelTypes, TreeTypes, fsVars

(* The handler is done when the buffer is.                                 *)
LEMMA EventTypes ==
  ASSUME TypeOK, pc = "events", EventDone
  PROVE  WorkTypes'
<1>1. /\ WorkTypes /\ events \in Seq(Nat) /\ events # <<>> /\ events' = Tail(events)
      /\ pc' = IF Len(events) = 1 THEN "idle" ELSE "events"
      /\ held' = held /\ dirhit' = dirhit
  BY TypesAre DEF WorkTypes, EventDone
<1>2. Tail(events) \in Seq(Nat) /\ (Tail(events) = <<>> <=> Len(events) = 1)
  <2>1. Tail(events) \in Seq(Nat) /\ Len(Tail(events)) = Len(events) - 1 /\ Len(events) \in Nat
    BY <1>1
  <2>2. Tail(events) = <<>> <=> Len(Tail(events)) = 0
    BY <2>1, EmptySequence
  <2> QED
    BY <2>1, <2>2
<1>3. pc' \in {"idle", "events"} /\ (pc' = "events" <=> events' # <<>>)
  BY <1>1, <1>2
<1> QED
  BY <1>1, <1>2, <1>3 DEF WorkTypes

LEMMA TypeStep ==
  ASSUME TypeOK, KernelInv, HeldIsNew, TriesKnown', [Next]_vars
  PROVE  TypeOK'
<1>1. FsTypes /\ KernelTypes /\ TreeTypes /\ WorkTypes
  BY TypesAre
<1>2. tries' \in Seq(Names)
  BY DEF TriesKnown, Names
<1>3. FsTypes' /\ KernelTypes' /\ TreeTypes' /\ WorkTypes' => TypeOK'
  BY <1>2 DEF TypeOK, FsTypes, KernelTypes, TreeTypes, WorkTypes
<1>4. /\ UNCHANGED fsVars => FsTypes'
      /\ UNCHANGED kernelVars => KernelTypes'
      /\ UNCHANGED treeVars => TreeTypes'
      /\ UNCHANGED workVars => WorkTypes'
  BY <1>1 DEF FsTypes, KernelTypes, TreeTypes, WorkTypes, fsVars, kernelVars, treeVars, workVars
<1>5. CASE FileSystem
  BY <1>3, <1>4, <1>5, FileTypes
<1>6. CASE Register
  <2>1. Ok /\ FsTypes' /\ KernelTypes' /\ TreeTypes'
    BY <1>6, RegisterTypes
  <2>2. WorkTypes'
    BY <1>6, <2>1, GoesOn DEF Register
  <2> QED
    BY <1>3, <2>1, <2>2
<1>7. CASE DropEntry
  <2>1. WorkTypes'
    BY <1>7, EventTypes DEF DropEntry
  <2> QED
    BY <1>3, <1>7, <2>1, DropTypes
<1>8. CASE IgnoreEvent
  <2>1. WorkTypes' /\ UNCHANGED <<fsVars, kernelVars, treeVars>>
    BY <1>8, EventTypes DEF IgnoreEvent, EventDone
  <2> QED
    BY <1>3, <1>4, <2>1
<1>9. CASE ServeCached \/ OpenFails \/ RegisterFails
  <2>1. WorkTypes'
    BY <1>9, GoesOn DEF ServeCached, OpenFails, RegisterFails
  <2>2. UNCHANGED <<fsVars, kernelVars, treeVars>>
    BY <1>9 DEF ServeCached, OpenFails, RegisterFails
  <2> QED
    BY <1>3, <1>4, <2>1, <2>2
<1>15. CASE OpenLeaks
  <2>1. WorkTypes'
    BY <1>15, GoesOn DEF OpenLeaks
  <2>2. held.path \in Names
    BY <1>1 DEF WorkTypes
  <2>3. [of |-> Of(held.path), ino |-> Current(held.path).ino] \in [of : Files \cup {Dir}, ino : Stamps]
    BY <1>1, <2>2, CurrentTypes, OfFacts
  <2>4. /\ leaked' = leaked \cup {[of |-> Of(held.path), ino |-> Current(held.path).ino]}
        /\ UNCHANGED <<fsVars, watch, queue, treeVars>>
    BY <1>15 DEF OpenLeaks
  <2>5. KernelTypes'
    BY <1>1, <2>3, <2>4 DEF KernelTypes
  <2> QED
    BY <1>3, <1>4, <2>1, <2>4, <2>5
<1>10. CASE ReadFile
  <2>1. held.path \in Names /\ held \in [path : Names, ver : Stamps]
    BY <1>1 DEF WorkTypes
  <2>2. Current(held.path).ver \in Stamps
    BY <1>1, <2>1, CurrentTypes
  <2>3. /\ held' = [held EXCEPT !.ver = Current(held.path).ver]
        /\ pc = "open" /\ pc' = "watch"
        /\ UNCHANGED <<fsVars, kernelVars, treeVars, dirhit, events>>
    BY <1>10 DEF ReadFile
  <2>4. held' \in [path : Names, ver : Stamps]
    BY <2>1, <2>2, <2>3
  <2>5. WorkTypes'
    BY <1>1, <2>3, <2>4 DEF WorkTypes
  <2> QED
    BY <1>3, <1>4, <2>3, <2>5
<1>11. CASE \E p \in Paths : Request(p)
  <2>1. PICK p \in Paths : Request(p)
    BY <1>11
  <2>2. p \in Names /\ [path |-> p, ver |-> 0] \in [path : Names, ver : Stamps]
    BY StampFacts DEF Names
  <2>3. /\ pc = "idle" /\ held' = [path |-> p, ver |-> 0] /\ pc' = "open"
        /\ UNCHANGED <<fsVars, kernelVars, treeVars, dirhit, events>>
    BY <2>1 DEF Request
  <2>4. WorkTypes'
    BY <1>1, <2>2, <2>3 DEF WorkTypes
  <2> QED
    BY <1>3, <1>4, <2>3, <2>4
<1>12. CASE RequestDir
  <2>1. Head(Index) \in Names
    BY <1>12, CacheAssumption DEF RequestDir, CacheAssumption, Names
  <2>2. /\ pc = "idle" /\ held' = [path |-> Head(Index), ver |-> 0] /\ pc' = "open"
        /\ dirhit' = (\E e \in by_path : e.path = Dir)
        /\ UNCHANGED <<fsVars, kernelVars, treeVars, events>>
    BY <1>12 DEF RequestDir
  <2>3. dirhit' \in BOOLEAN /\ held' \in [path : Names, ver : Stamps]
    BY <2>1, <2>2, StampFacts
  <2>4. WorkTypes'
    BY <1>1, <2>2, <2>3 DEF WorkTypes
  <2> QED
    BY <1>3, <1>4, <2>2, <2>4
<1>13. CASE ReadEvents
  <2>1. PICK n \in 1..Len(queue) : /\ events' = SubSeq(queue, 1, n)
                                  /\ queue' = SubSeq(queue, n + 1, Len(queue))
    BY <1>13 DEF ReadEvents
  <2>2. queue \in Seq(Nat) /\ pc' = "events"
        /\ UNCHANGED <<fsVars, watch, leaked, treeVars, held, dirhit>>
    BY <1>1, <1>13 DEF ReadEvents, KernelTypes
  <2>3. events' \in Seq(Nat) /\ events' # <<>> /\ queue' \in Seq(Nat)
    BY <2>1, <2>2, Divided
  <2>4. WorkTypes' /\ KernelTypes'
    BY <1>1, <2>2, <2>3 DEF WorkTypes, KernelTypes
  <2> QED
    BY <1>3, <1>4, <2>2, <2>4
<1>14. CASE UNCHANGED vars
  BY <1>3, <1>4, <1>14 DEF vars
<1> QED
  BY <1>5, <1>6, <1>7, <1>8, <1>9, <1>10, <1>11, <1>12, <1>13, <1>14,
     <1>15 DEF Next, Serve, HandleEvent

LEMMA AllInit == Init => TypeOK /\ CacheInv /\ MissInv
BY TypeInit, CacheInitInv, MissInit

LEMMA AllStep ==
  TypeOK /\ CacheInv /\ MissInv /\ [Next]_vars => TypeOK' /\ CacheInv' /\ MissInv'
<1> SUFFICES ASSUME TypeOK, CacheInv, MissInv, [Next]_vars
             PROVE  TypeOK' /\ CacheInv' /\ MissInv'
  OBVIOUS
<1>1. CacheInv'
  BY CacheStepInv
<1>2. TypeOK'
  BY <1>1, TypeStep DEF CacheInv, MissInv
<1> QED
  BY <1>1, <1>2, MissStep

(* Every variable of the cache keeps its type; that a request and the      *)
(* handler never share the worker is part of it.                           *)
THEOREM CacheTypes == Spec => []TypeOK
BY AllInit, AllStep, PTL DEF Spec

(* A watch lives as long as an entry has its descriptor                    *)
(* (HtmlCacheEventHander.c removes it with the first entry it drops).      *)
THEOREM CacheWatches == Spec => []NoIdleWatch
<1>1. MissInv => NoIdleWatch
  BY DEF MissInv
<1> QED
  BY <1>1, AllInit, AllStep, PTL DEF Spec

(* No entry of the cache loses its notification, whatever is changed,      *)
(* closed, deleted, replaced or moved, whenever and in whatever portions   *)
(* the events are read and however many paths lead to a file, but in two   *)
(* ways: its file lost its name while it was open, or two entries with its *)
(* watch descriptor were dropped before it.                                *)
THEOREM CacheMissesNothing == Spec => []NoMissedChange
<1>1. MissInv => NoMissedChange
  BY DEF MissInv
<1> QED
  BY <1>1, AllInit, AllStep, PTL DEF Spec
=============================================================================

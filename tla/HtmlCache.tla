----------------------------- MODULE HtmlCache -----------------------------
(***************************************************************************)
(* The file cache of one worker: the cache part of ProcessHttpRequest.c,   *)
(* HtmlCacheEventHander.c and the two trees that index the cached files,   *)
(* by path and by inotify watch descriptor, together with the file system  *)
(* and inotify as the worker uses them.                                    *)
(*                                                                         *)
(* The worker is one thread, other processes change the files at any time. *)
(* A file's content is stamped with the number of the change that wrote    *)
(* it, its inode with the number of the change that created it.  One file  *)
(* may be reached by several paths (/a, //a): inotify has one watch, hence *)
(* one descriptor, per inode.  Of an inotify event the handler looks at    *)
(* nothing but the descriptor, so an event is that number.                 *)
(*                                                                         *)
(* A watch lives as long as its inode, and an inode that lost its name     *)
(* lives as long as somebody has it open or linked under another name.     *)
(* The kernel's limit on queued events is not modelled: past it, events    *)
(* are lost, and the handler does not look for IN_Q_OVERFLOW.              *)
(***************************************************************************)
EXTENDS Integers, Sequences, FiniteSets

CONSTANTS
  Paths,       \* the paths that are requested and name a file
  Files,       \* the files behind them
  FileOf,      \* path -> file
  Dir,         \* a directory that is requested
  Index,       \* the paths tried for it, server.index in its order
  OthersHold,  \* other processes may have a file open or linked elsewhere
  MaxChanges   \* bound: what other processes do to the files

ASSUME CacheAssumption ==
  /\ FileOf \in [Paths -> Files]
  /\ Dir \notin Paths \cup Files
  /\ Index \in Seq(Paths)
  /\ OthersHold \in BOOLEAN
  /\ MaxChanges \in Nat

VARIABLES
  file,      \* file -> [ino, ver]; ino = 0: it does not exist
  changes,   \* changes made so far
  watch,     \* the kernel's watches: a set of [of, ino, wd, named]
  queue,     \* events to be read from htmlcache_inotify_fd
  leaked,    \* the inodes this worker opened and never closes
  by_path,   \* htmlcache_pathfilename_rbtree: a set of cached files
  by_wd,     \* htmlcache_wd_rbtree
  dropped,   \* history: what was dropped of the descriptors entries still have
  pc,        \* where the worker is
  held,      \* the htmlcache_session on the stack: path and content read
  tries,     \* the index paths still to be tried; <<>> outside a directory
  dirhit,    \* the directory's own entry was found in the cache
  events     \* the events in inotify_buffer not looked at yet

fsVars     == <<file, changes>>
kernelVars == <<watch, queue, leaked>>
treeVars   == <<by_path, by_wd, dropped>>
workVars   == <<pc, held, tries, dirhit, events>>
vars == <<fsVars, kernelVars, treeVars, workVars>>

NoFile  == [ino |-> 0, ver |-> 0]
NotHeld == [path |-> Dir, ver |-> 0]
Stamps  == 0..MaxChanges+1
Names   == Paths \cup {Dir}

Of(p) == IF p = Dir THEN Dir ELSE FileOf[p]

(* The directory is never changed itself.                                  *)
Current(p) == IF p = Dir THEN [ino |-> 1, ver |-> 0] ELSE file[FileOf[p]]

WatchesOf(p) == {w \in watch : w.of = Of(p) /\ w.ino = Current(p).ino}
Watched(e) == \E w \in WatchesOf(e.path) : w.wd = e.wd

ToSet(q) == {q[k] : k \in DOMAIN q}
Pending == ToSet(queue) \cup ToSet(events)

Init ==
  /\ file = [f \in Files |-> [ino |-> 1, ver |-> 1]]
  /\ changes = 0
  /\ watch = {} /\ queue = <<>> /\ leaked = {}
  /\ by_path = {} /\ by_wd = {} /\ dropped = {}
  /\ pc = "idle" /\ held = NotHeld /\ tries = <<>> /\ dirhit = FALSE /\ events = <<>>
----------------------------------------------------------------------------
(* The files, changed by other processes, and inotify, which watches for   *)
(* IN_MODIFY, IN_CLOSE_WRITE, IN_DELETE_SELF and IN_MOVE_SELF.             *)

WdsOf(f) == {w.wd : w \in {x \in watch : x.of = f /\ x.ino = file[f].ino}}
OnInode(w, f) == w.of = f /\ w.ino = file[f].ino
InodeOf(f) == [of |-> f, ino |-> file[f].ino]

(* At most one watch is on an inode.  What is done to a file's content is  *)
(* told to the watch of its directory first.                               *)
Events(f) == IF WdsOf(f) = {} THEN <<>> ELSE <<CHOOSE h \in WdsOf(f) : TRUE>>
DirEvents(f) ==
  IF f \in {FileOf[p] : p \in ToSet(Index)} /\ \E w \in watch : w.of = Dir
  THEN <<(CHOOSE w \in watch : w.of = Dir).wd>>
  ELSE <<>>

(* An event equal to the last one queued is left out.                      *)
Queued(s) == {queue \o s} \cup {q \in {queue} : q # <<>> /\ s = <<q[Len(q)]>>}

Change(f, new) ==
  /\ changes < MaxChanges
  /\ changes' = changes + 1
  /\ file' = [file EXCEPT ![f] = new]
  /\ UNCHANGED <<leaked, treeVars, workVars>>

(* Written in place.                                                       *)
Modify(f) ==
  /\ file[f] # NoFile
  /\ Change(f, [file[f] EXCEPT !.ver = changes + 2])
  /\ queue' \in Queued(DirEvents(f) \o Events(f))
  /\ UNCHANGED watch

(* Closed by one who had it open for writing: the file is as it was.       *)
CloseWrite(f) ==
  /\ file[f] # NoFile
  /\ Change(f, file[f])
  /\ queue' \in Queued(DirEvents(f) \o Events(f))
  /\ UNCHANGED watch

Create(f) ==
  /\ file[f] = NoFile
  /\ Change(f, [ino |-> changes + 2, ver |-> changes + 2])
  /\ UNCHANGED <<watch, queue>>

(* The inode is freed, and its watch with it: IN_DELETE_SELF, IN_IGNORED.  *)
Freed(f) ==
  /\ InodeOf(f) \notin leaked
  /\ queue' = queue \o Events(f) \o Events(f)
  /\ watch' = {w \in watch : ~OnInode(w, f)}

(* The inode stays for those who have it open: IN_ATTRIB, which nobody     *)
(* asked for.                                                              *)
Kept(f) ==
  /\ InodeOf(f) \in leaked \/ OthersHold
  /\ watch' = {IF OnInode(w, f) THEN [w EXCEPT !.named = FALSE] ELSE w : w \in watch}
  /\ UNCHANGED queue

(* Deleted, or replaced by renaming another file over it.                  *)
Replace(f) ==
  /\ file[f] # NoFile
  /\ \/ Change(f, NoFile)
     \/ Change(f, [ino |-> changes + 2, ver |-> changes + 2])
  /\ Freed(f) \/ Kept(f)

(* Renamed to a name nobody asks for: IN_MOVE_SELF, and the watch stays.   *)
MoveAway(f) ==
  /\ file[f] # NoFile
  /\ Change(f, NoFile)
  /\ queue' = queue \o Events(f)
  /\ UNCHANGED watch

(* A watched inode that no requested path names: deleted but open, or      *)
(* renamed.                                                                *)
Elsewhere == {w \in watch : w.of # Dir /\ w.ino # file[w.of].ino}

WrittenElsewhere(w) ==
  /\ Change(w.of, file[w.of])
  /\ queue' \in Queued(<<w.wd>>)
  /\ UNCHANGED watch

FreedElsewhere(w) ==
  /\ [of |-> w.of, ino |-> w.ino] \notin leaked
  /\ queue' = queue \o <<w.wd, w.wd>>
  /\ watch' = watch \ {w}
  /\ UNCHANGED <<fsVars, leaked, treeVars, workVars>>

FileSystem ==
  \/ \E f \in Files : Modify(f) \/ CloseWrite(f) \/ Create(f) \/ Replace(f) \/ MoveAway(f)
  \/ \E w \in Elsewhere : WrittenElsewhere(w) \/ FreedElsewhere(w)
----------------------------------------------------------------------------
(* A request: the path is looked up in the cache, read when it is not      *)
(* there, and registered once the response is complete.  A directory is    *)
(* served as the first index path that can be served.                      *)

Request(p) ==
  /\ pc = "idle"
  /\ held' = [path |-> p, ver |-> 0]
  /\ pc' = "open"
  /\ UNCHANGED <<fsVars, kernelVars, treeVars, tries, dirhit, events>>

RequestDir ==
  /\ pc = "idle" /\ Index # <<>>
  /\ dirhit' = (\E e \in by_path : e.path = Dir)
  /\ held' = [path |-> Head(Index), ver |-> 0]
  /\ tries' = Tail(Index) \o <<Dir>>
  /\ pc' = "open"
  /\ UNCHANGED <<fsVars, kernelVars, treeVars, events>>

(* HTTP_OK.  Within a directory, its own entry is registered next unless   *)
(* it was found in the cache.                                              *)
Ok ==
  IF tries # <<>> /\ ~dirhit
  THEN pc' = "watch" /\ held' = NotHeld /\ tries' = <<>> /\ UNCHANGED <<dirhit, events>>
  ELSE pc' = "idle" /\ held' = NotHeld /\ tries' = <<>> /\ dirhit' = FALSE /\ UNCHANGED events

(* Any other status.  `tries' ends with the directory itself, for which    *)
(* there is nothing left to be tried.                                      *)
NotOk ==
  IF tries # <<>> /\ Head(tries) # Dir
  THEN /\ pc' = "open" /\ held' = [path |-> Head(tries), ver |-> 0] /\ tries' = Tail(tries)
       /\ UNCHANGED <<dirhit, events>>
  ELSE pc' = "idle" /\ held' = NotHeld /\ tries' = <<>> /\ dirhit' = FALSE /\ UNCHANGED events

ServeCached ==
  /\ pc = "open" /\ \E e \in by_path : e.path = held.path
  /\ Ok
  /\ UNCHANGED <<fsVars, kernelVars, treeVars>>

(* fopen() fails.                                                          *)
OpenFails ==
  /\ pc = "open" /\ \A e \in by_path : e.path # held.path
  /\ NotOk
  /\ UNCHANGED <<fsVars, kernelVars, treeVars>>

(* No memory once the file is open, or fread() fails, as it does for an    *)
(* empty file: the FILE is left open.                                      *)
OpenLeaks ==
  /\ pc = "open" /\ \A e \in by_path : e.path # held.path
  /\ Current(held.path) # NoFile
  /\ leaked' = leaked \cup {[of |-> Of(held.path), ino |-> Current(held.path).ino]}
  /\ NotOk
  /\ UNCHANGED <<fsVars, watch, queue, treeVars>>

ReadFile ==
  /\ pc = "open" /\ \A e \in by_path : e.path # held.path
  /\ Current(held.path) # NoFile
  /\ held' = [held EXCEPT !.ver = Current(held.path).ver]
  /\ pc' = "watch"
  /\ UNCHANGED <<fsVars, kernelVars, treeVars, tries, dirhit, events>>

(* inotify_add_watch() returns the descriptor of the inode's watch, or a   *)
(* new one: the kernel counts up, so none that is still remembered.        *)
FreshWd ==
  LET taken == {w.wd : w \in watch} \cup {e.wd : e \in by_wd} \cup Pending
  IN  CHOOSE w \in 1..Cardinality(taken)+1 : w \notin taken /\ \A v \in 1..w-1 : v \in taken

WdFor(p) == IF WatchesOf(p) = {} THEN FreshWd ELSE (CHOOSE w \in WatchesOf(p) : TRUE).wd

(* A path that is cached already is refused by the tree of paths: the      *)
(* entry is taken out of the other tree and the watch is removed.          *)
Register ==
  /\ pc = "watch" /\ Current(held.path) # NoFile
  /\ LET now == Current(held.path)
         wd  == WdFor(held.path)
         e   == [path |-> held.path, wd |-> wd, ver |-> held.ver, at |-> now.ver]
         new == [of |-> Of(held.path), ino |-> now.ino, wd |-> wd, named |-> TRUE]
         all == IF WatchesOf(held.path) = {} THEN watch \cup {new} ELSE watch
     IN  IF \E d \in by_path : d.path = held.path
         THEN /\ watch' = {w \in all : w.wd # wd}
              /\ queue' = Append(queue, wd)
              /\ UNCHANGED treeVars
              /\ NotOk
         ELSE /\ watch' = all
              /\ by_wd' = by_wd \cup {e}
              /\ by_path' = by_path \cup {e}
              /\ UNCHANGED <<queue, dropped>>
              /\ Ok
  /\ UNCHANGED <<fsVars, leaked>>

(* No memory, or inotify_add_watch() fails: the file is gone meanwhile, or *)
(* the user has too many watches.  Nothing is registered.                  *)
RegisterFails ==
  /\ pc = "watch"
  /\ NotOk
  /\ UNCHANGED <<fsVars, kernelVars, treeVars>>
----------------------------------------------------------------------------
(* HtmlCacheEventHander.                                                   *)

(* As many events as go into the buffer.                                   *)
ReadEvents ==
  /\ pc = "idle"
  /\ \E n \in 1..Len(queue) :
       /\ events' = SubSeq(queue, 1, n)
       /\ queue' = SubSeq(queue, n + 1, Len(queue))
  /\ pc' = "events"
  /\ UNCHANGED <<fsVars, watch, leaked, treeVars, held, tries, dirhit>>

(* Mutant: the handler is done after one event.                            *)
EventDoneForAll ==
  /\ events' = <<>> /\ pc' = "idle"
  /\ UNCHANGED <<fsVars, leaked, held, tries, dirhit>>

(* Mutant: one more event is taken out of the buffer than was read.        *)
EventDoneLate ==
  /\ events' = Tail(events)
  /\ pc' = IF events = <<>> THEN "idle" ELSE "events"
  /\ UNCHANGED <<fsVars, leaked, held, tries, dirhit>>

EventDone ==
  /\ events' = Tail(events)
  /\ pc' = IF Len(events) = 1 THEN "idle" ELSE "events"
  /\ UNCHANGED <<fsVars, leaked, held, tries, dirhit>>

(* Mutant: the watch is left to the kernel.                                *)
RemoveWatchNever(wd) == UNCHANGED <<watch, queue>>

(* inotify_rm_watch() queues IN_IGNORED; it fails on a watch that is gone. *)
RemoveWatch(wd) ==
  LET gone == {w \in watch : w.wd = wd}
  IN  /\ watch' = watch \ gone
      /\ queue' = IF gone = {} THEN queue ELSE Append(queue, wd)

(* Only the descriptors that entries still have are remembered.            *)
Remember(e) ==
  dropped' = {d \in dropped \cup {[path |-> e.path, wd |-> e.wd]} :
                \E c \in by_wd : c # e /\ c.wd = d.wd}

(* Mutant: the entry is taken out of the tree of paths only.               *)
DropEntryHalf ==
  /\ pc = "events"
  /\ \E e \in by_wd :
       /\ e.wd = Head(events)
       /\ by_path' = by_path \ {e}
       /\ Remember(e)
       /\ RemoveWatch(e.wd)
  /\ UNCHANGED by_wd
  /\ EventDone

(* Of several entries with the descriptor the tree yields some one.        *)
DropEntry ==
  /\ pc = "events"
  /\ \E e \in by_wd :
       /\ e.wd = Head(events)
       /\ by_path' = by_path \ {e}
       /\ by_wd' = by_wd \ {e}
       /\ Remember(e)
       /\ RemoveWatch(e.wd)
  /\ EventDone

IgnoreEvent ==
  /\ pc = "events" /\ \A e \in by_wd : e.wd # Head(events)
  /\ UNCHANGED <<kernelVars, treeVars>>
  /\ EventDone
----------------------------------------------------------------------------
Serve == ServeCached \/ OpenFails \/ OpenLeaks \/ ReadFile \/ Register \/ RegisterFails
HandleEvent == DropEntry \/ IgnoreEvent

Next ==
  \/ FileSystem
  \/ (\E p \in Paths : Request(p)) \/ RequestDir
  \/ Serve \/ ReadEvents \/ HandleEvent

Spec == Init /\ [][Next]_vars

(* A request in progress and the events read are worked off without a      *)
(* pause.  The event loop handles every descriptor that is ready once per  *)
(* epoll_wait, so requests cannot keep it from reading inotify for ever:   *)
(* strong fairness, since between two requests reading is enabled.         *)
FairSpec ==
  Spec /\ WF_vars(Serve) /\ WF_vars(HandleEvent) /\ SF_vars(ReadEvents)
----------------------------------------------------------------------------
Entries == [path : Names, wd : Nat, ver : Stamps, at : Stamps]

TypeOK ==
  /\ file \in [Files -> [ino : Stamps, ver : Stamps]]
  /\ changes \in 0..MaxChanges
  /\ watch \subseteq [of : Files \cup {Dir}, ino : Stamps, wd : Nat, named : BOOLEAN]
  /\ leaked \subseteq [of : Files \cup {Dir}, ino : Stamps]
  /\ queue \in Seq(Nat) /\ events \in Seq(Nat)
  /\ by_path \subseteq Entries /\ by_wd \subseteq Entries
  /\ dropped \subseteq [path : Names, wd : Nat]
  /\ pc \in {"idle", "open", "watch", "events"} /\ (pc = "events" <=> events # <<>>)
  /\ held \in [path : Names, ver : Stamps] /\ tries \in Seq(Names)
  /\ dirhit \in BOOLEAN

(* Both trees index the same entries (an entry left in one of them would   *)
(* be used after FreeHtmlCacheSession), and a path is cached once: nothing *)
(* that happens between looking a path up and registering it, the files of *)
(* a directory included, makes AddHtmlCachePathfilenameTreeNode refuse it. *)
TreesAgree ==
  /\ by_path = by_wd
  /\ \A d, e \in by_path : d.path = e.path => d = e

(* The two ways in which an entry is left behind for good.  Its file lost  *)
(* its name while somebody had it open, so that nothing was told to the    *)
(* watch.  Or two entries with its descriptor are gone before it: the      *)
(* first one took the watch with it, and the event that told of the change *)
(* and IN_IGNORED are used up.                                             *)
LostName(e) == \E w \in watch : w.wd = e.wd /\ ~w.named
LeftOver(e) == \E c, d \in dropped : c # d /\ c.wd = e.wd /\ d.wd = e.wd

(* No entry loses its notification in another way: its file is as it was   *)
(* when registered and still watched, or an event that will drop the entry *)
(* is under way (HtmlCacheEventHander.c:37-44).                            *)
NoMissedChange ==
  \A e \in by_path :
     \/ e.wd \in Pending
     \/ Watched(e) /\ Current(e.path).ver = e.at
     \/ LostName(e) \/ LeftOver(e)

(* The kernel watches for somebody: a watch lives as long as an entry has  *)
(* its descriptor, so the watches of one user (there is a limit on them)   *)
(* are never more than the pages cached.                                   *)
NoIdleWatch ==
  \A w \in watch : \E e \in by_wd : e.wd = w.wd

(* Changes reach the cache: once the files stay as they are, the entries   *)
(* are in the end those of the files registered in their present state,    *)
(* but for the ones left behind.                                           *)
ChangesReachCache ==
  <>[](\A e \in by_path :
         \/ Current(e.path) # NoFile /\ Current(e.path).ver = e.at
         \/ LostName(e) \/ LeftOver(e))
=============================================================================

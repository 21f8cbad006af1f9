# Verification of htmlserver

TLA+ models of htmlserver, a C web server: a master process that keeps a set of
worker processes alive, workers that serve HTTP on an epoll event loop with a
pool of sessions and a file cache kept fresh by inotify, and a graceful restart
that hands the listening sockets to a new generation.  The models are checked
with TLC on small instances; the theorems are proved with TLAPS for every value
of the constants.

Paths are relative to the repository; `X.c` without a directory is `src/X.c`
in it, `src/src/X.c` in PROJECT.json.  The C files are in GBK; comments quoted here are translated.

## 1. Inventory

### Processes and how they interact

    hs.do --signals--> master --pipe: 'L' or end of file--> worker 1..n
                         |  ^--------- SIGCHLD/waitpid ---------'  |
                         |                                         |-- timer thread (clock, g_second_elapse)
                         '--fork+exec, environment--> next         |-- peers, over TCP
                              generation (listeners)               '-- file system, over inotify

| component | source | state | operations | what is hard about it |
|---|---|---|---|---|
| master | MonitorProcess.c | the slot array (pid, pipe), the counter of living workers, three signal flags, g_exit_flag | start workers; wait; restart; relog, next generation, end | signals between any two steps; several deaths at once; duplicates of pipe ends; failing fork() and pipe() |
| worker event loop | WorkerProcess.c, TimerThread.c | the batch of events with its index, g_exit_flag, g_second_elapse | epoll_wait, timeout sweep, dispatch, pipe commands, drain | a batch goes stale while it is handled; flag shared with the timer thread |
| connection handlers | OnAcceptingSocket.c, OnReceivingSocket.c, OnSendingSocket.c | per session: socket, direction epoll watches, HttpEnv | accept until dry; receive and answer; send and keep or close | state across many requests; error paths that leave early |
| session pool | HttpSession.c, HttpSessionTimeoutTree.c | list of free sessions, tree of used ones by deadline, two counters | grow, fetch, release, refresh, find expired | limit, batches, double release |
| timeout tree | rbtree.c, HttpSessionTimeoutTree.c | links, parents and colours of the nodes; deadlines | link, unlink, rebalance, walk | case analysis over several levels; equal deadlines |
| request processing | ProcessHttpRequest.c | the request's own, strtok()'s static position | look up, read, compress, compose, register | recursion for directories; partial failures |
| file cache | HtmlCacheEventHander.c, HtmlCachePathfilenameTree.c, HtmlCacheWdTree.c, HtmlCacheSession.c | two trees and a list over the same entries; the kernel's watches and event queue | look up, register, handle events | files change between any two system calls; events arrive late; several paths to an inode |
| HTTP engine | fasterhttp.c | HttpEnv: two growing buffers with base, process and fill pointers, parser state, header table | receive, parse, format, send, reset | requests cut anywhere by recv(); pointers into a buffer that moves |
| listener set-up and handover | Envirment.c, Util.c, hs.do | listeners; environment variable HTMLSERVER_LISTEN_SOCKFDS; what the script waits for | create, save, load, reuse, close the rest; start, USR2, TERM | two generations alive at once; failures on the way; a script that decides by what ps shows |
| listener balancing | WorkerProcess.c 178-225 | every worker's epoll set and epoll_nfds in shared memory | pass the listeners to the least busy worker | unlocked shared memory, one process changing another's epoll set |
| virtual host and mime type tables | VirtualHostHash.c, MimeTypeHash.c | chained hash tables, filled once | push, query | - |
| configuration | Config.c, main.c, IDL_htmlserver_conf.*, fasterjson.c | read once | environment expansion, JSON | sequential |
| utilities, logs, lists | Util.c, LOGC.c, list.c | - | - | libraries |

### What makes each component correct

* session pool: every session is in exactly one place; counters agree with the
  structures; the limit is kept.
* event loop: only events of sessions in use are handled; the loop stays in its
  batch; a worker told to finish accepts nothing more, serves what it has and exits.
* handlers: open descriptors are exactly those of used sessions; a session waits
  for output exactly when it has a response; a session nobody uses comes back.
* master: the counter is the number of children; a crash is repaired; an order to
  end ends everything, with no worker left over; each worker reads its end of file.
* file cache: the two trees agree; an entry has a watch or an event under
  way, and changed files leave the cache, but for two cases that are named.
* timeout tree: the sessions in use in the order of their deadlines, whatever rotations happen.
* request processing and reply: one whole reply per request, with the content of the file the request names on the
  host it names, as long as announced; half-made replies leave nothing behind; one line in a log.
* HTTP engine: the result of parsing does not depend on how the bytes arrive; the
  pointers survive a move of the buffer; a reset leaves what belongs to the next request.
* handover: an address every configuration names is never without a listener, and a connection that waits there is
  served; a generation holds no listener its configuration does not name.

The list of hazards, at the lines where they bite and with the properties that
cover them, is in PROJECT.json.

## 2. Modules

| module | what it models |
|---|---|
| SessionPool | the pool of one worker; on its own, the contract its users must keep |
| WorkerLoop | one worker: event loop, handlers, timer thread, peers and command pipe; extends SessionPool |
| WorkerLoopProofs | the pool's inductive invariant; only the sweep can make the worker break the pool's contract; no accept after the end; sockets, replies, types and drain |
| Monitor | the master, its workers as processes, signals, pipe ends |
| MonitorProofs | its inductive invariant |
| HtmlCache, HtmlCacheMC | the file cache of one worker with the file system and inotify; the instance checked |
| HtmlCacheProofs | the two trees agree; no change is missed and no watch is idle |
| HttpParser, HttpParserMC | the request parser of one connection with its buffer; the conversations checked |
| HttpMessage | what a request is, without any scanning: the grammar the parser is held against |
| HttpReading | where the parser stands in the request it reads: its inductive invariant |
| HttpParserProofs | the parser stays within the bytes received; it returns what was sent, for every conversation of the grammar |
| TimeoutQueue | abstract: the sessions in use as a queue by deadline |
| TimeoutTree, TimeoutTreeMC | the red-black tree that implements the queue; the instance checked |
| TimeoutTreeOrder | the tree as a list: what rotating, linking, taking out, walks and descents do to the order of its nodes |
| TimeoutTreeProofs | the invariants of the tree and of its rebalancing loops; it implements the queue |
| HttpBuffer | the growing buffers of the HTTP engine, as operators |
| HttpUri | SplitHttpUri, as operators |
| RequestResponse, RequestResponseMC | from a whole request to its reply and log line, for the connections of a worker; the site and requests checked |
| RequestResponseProofs | every reply is logged once; the conditions under which no write leaves a response buffer, the cache keeps its types and each peer reads the reply it deserves |
| ListenService | abstract: what peers see of the listening addresses |
| Handover, HandoverMC | listeners from generation to generation, the masters and the script; the configurations checked |
| HandoverProofs | its inductive invariant; a generation holds its own; the safety half of the refinement |

How they fit together: WorkerLoop extends SessionPool; it keeps its contract but for what the sweep does to a batch already fetched.  The function `used` of
SessionPool stands for the tree; TimeoutTree is proved to implement the queue TimeoutQueue, of which that function
is a view.  RequestResponse extends HttpBuffer and HttpUri and takes up where HttpParser ends: with a request that is whole.
Handover is shown to implement ListenService; a generation there is a master of Monitor with workers of WorkerLoop,
reduced to what they hold and whether they accept.

### SessionPool

`unused_list` is http_session_unused_list, `used` the red-black tree as a function
from sessions to the seconds they have left, `used_count`, `unused_count` the counters
of struct HtmlServer, `total` the sessions allocated so far.  Deadlines are relative
to the clock and stop at 0: GetExpireHttpSessionTimeoutTreeNode compares with zero
and no more.  FetchFree and FetchGrown are the two ways through
FetchHttpSessionUnused, ReleaseSession and RefreshSession the tree and list work of
SetHttpSessionUnused and UpdateHttpSessionTimeoutTreeNode.  PoolNext lets the caller
release and refresh sessions in use only: this is the contract, which the code does not check and
the worker does not always keep (next section).  The pool has no run of its own: its invariants
are checked in the worker's run and proved for every size.

### WorkerLoop

One step is one iteration of a loop or one event handled, whole: SetHttpSessionUnused
closes the socket, takes it out of epoll, resets the HttpEnv and moves the session.
`pc` says whether the worker handles events, sweeps, or is in the accept loop;
`batch`, `i` and `nfds` are the events from p_event on, the loop index and epoll_nfds.
They are separate as they are in the code, since one handler changes i alone.  A
session's HttpEnv is abstracted to what the handlers can tell apart (`Env`): clear,
part of a request, a response to send (with a `+` when more bytes stand behind the
request), bytes left over, an error response that is not being sent.  What a peer
sends is one of part, full, more, bad; what recv() would find on a descriptor is `link`.
Environment steps (peers, other workers on the shared listener, the master's pipe)
and timer steps interleave with every step of the worker.

Level-triggered readiness is Ready(writable, broken): sessions waiting for input are
ready when something arrived, those waiting for output when their buffer has room or
the peer is gone, any order.  With ErrorAlone epoll may report an error bit without
EPOLLIN or EPOLLOUT, which the third branch of the dispatch handles.

Releasing or refreshing a session that is not in use is rb_erase() on a node outside
the tree: not defined by C, and no handler asks.  The model stops there with pc = "undefined", so that the
other properties speak of all behaviour up to that point; that the point is
reachable is the run worker_stale.  How it is reached is ContractBrokenBySweepOnly: the event being handled is
of a session that the sweep released after the batch was fetched.  The history variable `swept` remembers those.

The model is for accept_mutex = 0 or one worker; the listeners then stay with the worker.
When epoll_wait starts, the socket numbers of free sessions are set back to 1, and at the
end of a batch i and nfds: nothing reads them any more.  The connections left in the
queue when the listeners close belong to the other workers, the counter goes to 0.

### Monitor

`pc` is the master's place in MonitorProcess, `flag` the set of signal flags, `worker`
the state of the child in each slot, `wr[p]` the slots whose pipe write end process p holds.
fork() copies the master's wr, close() and the end of a process shrink it; a worker
reads end of file when no process holds its end.  A signal may come between any two
steps, and only one that finds the master blocked in waitpid() or in the second fork()
interrupts it.  sig_proc serves one flag per call (the else-if chain); the writes
and the clearing of the flag for USR1 are two steps.  The starter is the child that
execs the next generation.  WorkerFinishes stands for a worker's drain: it is justified by DrainsUnlessBusy.

### HtmlCache

`file` gives each file an inode and a version, `watch`, `queue` and `leaked` are the kernel's
side of inotify and of open files, `by_path` and `by_wd` the trees, `held` the entry on the stack of
ProcessHttpRequest.  A request is three steps (look up; open and read; register) and files
change between any two.  An entry remembers the version read (`ver`) and the version
at registration (`at`).  The index files of a directory are tried as the loop over
strtok() does, each a request of its own.  Events carry the watch descriptor only,
the one field the handler looks at.

The kernel's part follows inotify(7).  A watch lives as long as its inode.  A file deleted or replaced gives IN_DELETE_SELF and
IN_IGNORED only when its inode is freed; while somebody has it open or linked under another name (OthersHold; `leaked`, the inodes
of the FILEs that lines 121-150 of ProcessHttpRequest.c leave open) it gives IN_ATTRIB, which the mask of line 364 does not name, and the watch stays
on an inode without that name.  Such an inode can still be written and freed (WrittenElsewhere, FreedElsewhere).  The watch on a directory reports
what is done to the content of the files in it.  An event equal to the last one queued may be merged with it.  inotify_rm_watch() queues IN_IGNORED.
Register contains the rollback of lines 385-392, which takes the entry out of the first tree and removes the watch when the second tree refuses it.
`dropped` is history: the entries dropped from descriptors that other entries still have.  Not modelled: an overflow of the kernel's queue (IN_Q_OVERFLOW, which the handler does not
look at), and a directory that is itself renamed or removed.

### HttpParser

One action is one case of the switch in ParseHttpBuffer, from its first line to where it falls
through, jumps or returns.  `mem`, `process_ptr` and `fill_ptr` are the request buffer, as offsets from
its base; `p` is the local variable of that name; `e` holds the fields of struct HttpEnv that the parser reads or
writes, tokens as pointer and length.  The buffer holds symbols: what the parser
compares as one word ("GET", "Content-Length", "chunked") or tests as one character (blank, CR, NL, colon, a digit) is one symbol,
names it does not know are several and may be cut.  This leaves out cuts within a known word: none of the loops looks at
single letters, and words are compared only when their end has been found.  A version is a text: a word of eight letters that differs from "HTTP/1."
before its last letter passes the test of lines 1127-1140, and the request goes on with version 0 (`OtherVersions`).  Loops that skip
or search are one step (`Stops`), the size of a chunk is read a symbol at a time.

The peer sends the requests of a conversation, the next one when the last is answered, or at once where
the conversation says so; Receive takes any number of the symbols under way.  The response itself is not in the
model: `pc = "done"` is where it is sent, KeepAlive and Close what OnSendingSocket does then.  A header array grown beyond HeaderArrayMax
is given back by the reset and then cleared at the size it had before (fasterhttp.c:670-680), beyond its end: the model stops there with pc = "undefined".
ResetHttpEnv keeps or forgets what stands behind the request; nothing is erased, and memory never written may hold
a line end, since the search for the colon looks one byte too far (fasterhttp.c:1378).

What is expected of a request is not computed by scanning.  HttpMessage is a grammar by places: a request comes with a layout, the offsets of
its words, lines, chunks and trailer, and `Written` says that its bytes stand where the layout says and that its outcome is what stands there, or the error for what
is missing.  In HttpParserMC a request is given by its parts, from which bytes, layout and outcome are written out; TLC evaluates MCServable,
that every conversation checked is one of the grammar.

`Servable` is what a conversation must be for the code to serve it, and the hypothesis of the theorems: its requests are Written; fewer headers than the table holds
(fasterhttp.c:1474 loses the header that fills it); headers that do not contradict each other and chunks of less than 16 bytes; a request is pipelined
only behind one with a counted body; a chunked one asks for the connection to be closed.  All but the agreement of the headers exclude what the code gets wrong, and section 3 says how to see it.

HttpReading gives each parser step its part of the layout: AtMethod0 ... AtData say where the cursor may be and which fields of HttpEnv hold what was read.

The parser is the detailed side of WorkerLoop's `env`: "partial" for any step but BEGIN and DONE, "reply" for DONE,
"leftover" for BEGIN with process_ptr < fill_ptr.  The two are not composed: the worker needs no more than that.

### TimeoutQueue and TimeoutTree

`tree` has the root and, for each node, its two children, its parent and its colour; rb_parent_color is these last two.
The left and right variants in rbtree.c are mirror images line by line, so each operator has the side as a parameter.
A turn of the loop in rb_insert_color or __rb_erase_color is one action; `pc`, `node` and `parent` are where the loop is.
The descent and the walks (rb_first, rb_next, ...) are functions of the tree.  rb_erase leaves the links of the
node it takes out as they were; the model clears them, since rb_link_node writes all of them before they are read again.
UpdateHttpSessionTimeoutTreeNode is a removal and, once that has rebalanced, an insertion.

`Queue` maps the tree to its in-order sequence: Add and Remove of the queue happen where the node is linked and
unlinked, every turn of a rebalancing loop is a stutter.

### HttpBuffer and HttpUri

A buffer is its size, how much of it has been processed, and its contents as pieces of one unit of length each.
The operations return the buffer they leave; a write outside of it and a loop that does not end are results of their own.
A URI is a sequence of the separators "/", "." and "?" and of names.  HttpUri has the two outer cases of SplitHttpUri (with and without
a slash) with what is the same in their branches said once.  The file system is the constant Site.

### RequestResponse

`conn` has for each connection its phase, its response buffer and, as history, the requests asked, the pieces sent and the
hosts logged.  `p_virtualhost`, `cached` (with `zipped`, the compressed forms kept) belong to the worker and are shared by its connections.
OnReceivingSocket is one step from the look-up of the host to the reply in the buffer: the worker does nothing else meanwhile, and
that files may change under it is HtmlCache's subject.  ProcessHttpRequest is a composition of operators on a record with
the status and the state changed so far, in the order of the code, with each early return; the recursion for
index files is a fold over them (an index name that is itself a directory counts as missing).  Sending takes any part of what is left.

A fault, one per request, strikes every call of its kind made for that request (compression, registering a watch); one that changes nothing is none.
The names of what a reply consists of are pieces: start line, headers with encoding, length and Connection, units of content.

What a peer reads is `Replies`: it takes start line, headers and as many units as announced, then the next.  `Starts` says
where it reads on after each reply, as a function of the number of replies, so that the proof can speak of the k-th.
RepliesMatch compares that with what the request deserves, computed from the configuration and the site alone.

### Handover and ListenService

`gens` has the generations: phase of the master, what is left of listen.port to set up, the inherited
listeners (`env`, `old` with the mark GetListener sets), descriptors and listen_session_list.  `config` is the file, `script` what hs.do
waits for, `conn` the peers.  One port of listen.port is one step, so a peer, an edit of the file, a failure may come between any two.
fork() of the next generation copies the descriptors; execvp() keeps them under their numbers, which is what HTMLSERVER_LISTEN_SOCKFDS
relies on.  BindDaemonServer is two steps, since ps shows the process in between with parent 1, before MonitorProcess
has installed its handlers.  A connection waits at a socket as long as some process holds that socket.

ListenService knows connections and ports only.  `Kept` are the ports every configuration names.

## 3. Runs

| run | module, cfg | bounds | expect |
|---|---|---|---|
| worker | WorkerLoop | 2 sessions (1 + 1), backlog 1, one 'L', timeout 1, whole requests | pass |
| worker_live | WorkerLoopLive | 1 session, all four kinds of bytes | pass |
| worker_stale | WorkerLoopStale | as worker, all kinds | violation |
| master | Monitor | 2 workers, 2 crashes, 3 signals, failing calls | pass |
| master_term | MonitorTerm | 2 workers, 1 signal, nothing fails | violation |
| cache | HtmlCacheMC | 3 paths to 1 file, 1 directory with 2 of them as index, 2 changes | pass |
| parser | HttpParserMC | 19 conversations of 1 to 3 requests, all cuts but one | pass |
| tree | TimeoutTreeMC | 6 sessions, symmetric, 4 deadlines | pass |
| response | RequestResponseMC | 2 connections, 2 requests each, 2 hosts, 11 kinds of request, 2 kinds of fault | pass |
| response_frame | RequestResponseFrame | the same, peers that ask on after an error | violation |
| handover | HandoverMC | 3 generations, 3 configurations of 3 ports, 2 peers, 2 forks that fail | pass |
| handover_restart | HandoverBound | 3 generations, one configuration with an address, nothing fails | violation |

Why the bounds suffice.  *worker*: one session at start and a batch of two that the limit cuts down to one.  With two sessions
there is a third connection to refuse, two events of different sessions in a batch beside the
pipe's and the listener's, and a sweep that takes one or both; further sessions would only repeat
the same pairs.  Timeout 1 gives a deadline that has passed and one that has not.  Two hash
slots are the fewest a server has (twice the number of virtual hosts).  *worker_live* has one session so that all inputs and fairness fit; the session
properties are about one session at a time, and interleavings with another are in *worker*.
*master*: two workers are needed for one to hold the other's pipe; three signals let each kind come once or one thrice,
two crashes let a worker die while another is being restarted.  *cache*: three paths to a file (`/a`, `//a`, `///a`: a client may
add slashes) are one entry more than a deleted file gives events; the directory brings a second descriptor, a second reason for events, and an index file tried after another;
two changes allow a file to be replaced and written again, and tell the entry left behind from one that is dropped late.  A second file would share nothing with the first but the queue,
and events there are told apart by descriptors; for any number the theorems speak.
*parser*: the state between two calls is the step, the tokens so far and the pointers, so that every cut of every kind of line
is met with requests of two headers; the conversations have each method class (with and without body), each error, both
line ends, chunks with and without a trailer, each way to keep or close the connection, and bodies that
look like the end of the header.  Longer conversations, more headers and chunks are what the theorems are for.  The buffer of 64 holds the longest.  Excluded from *parser* because the code fails there, and
listed below: a cut behind the CR of the blank line (BlankLineCut), a
header table that must grow (and hence the reset that gives a large one back), a request after a chunked one, pipelining behind a request without body, chunks of 16 bytes and more,
a blank between a header's name and its colon, and an empty value before a CR, whose length becomes
-1 or less (fasterhttp.c:1421-1426).

*tree*: with six nodes every case of both loops is reached, with its mirror image, recolouring that climbs a level, and a
successor that is and is not the child of the node taken out; four deadlines for six nodes leave equal ones in every tree.  *response*: buffers of 6 that grow to
12 and 24 and are given back above 8 let contents fit exactly, grow once and grow twice; the hash makes a collision in each table; the
second request of a connection meets what the first left in the buffer, the cache and p_virtualhost.  Doubling ends at 16 (GrowthLimit), and as many
turns of the growing loops are looked at (MaxGrowths), more than it takes to get there.  The second connection asks less: it is there
to move the shared state.  *handover*: three generations are the fewest in which a listener is created, dropped and
created again; port 80 is in every configuration, 81 and 82 in one each, the third configuration has an address and cannot follow
another one; three descriptors are as many as one process ever holds.

What the passing runs show:

* EachSessionInOnePlace, CountersAgree: sessions are neither lost,
  shared nor miscounted by any handler, and never more than max_http_session_count are allocated.
* ContractBrokenBySweepOnly: every step is one of the pool's contract, and where a handler is about to release a session not in use,
  its event is of a session swept since.  No other order of handlers, events and accepts breaks the contract; the sweep does (1 below).
* SocketsMatchSessions: no descriptor leaks, not even for refused connections.
* ReplyArmed: a response is always armed for sending, and nothing else is; the response to a rejected request, formatted and never
  armed (OnReceivingSocket.c:50), is not one (`env` "rejected").
* ExitIsDrained, NoAcceptAfterExit, DrainsUnlessBusy: the graceful end.  A worker finishes
  unless a peer keeps sending whole requests on an old connection: the server has no limit on these.
* TimeoutReclaims: nobody holds a session without new requests.
* CountsWorkers, NoOrphans, CrashedIsReplaced, ExitEnds, FailureEndsWorkers: the master's book-keeping.
  A consequence of CountsWorkers: waitpid() never fails for lack of children.
* RunningHoldsNothing, ExitClosesPipes: end of file reaches every worker.
* TreesAgree, NoMissedChange, NoIdleWatch, ChangesReachCache: the file cache.  NoMissedChange and ChangesReachCache
  name the two ways in which an entry is left behind for good.  LostName: its file was deleted or replaced while its inode was open or linked elsewhere, so that no event came.
  LeftOver: two entries with its descriptor are gone before it; the first took the watch with it, and the event and IN_IGNORED are used up.  There is no
  third way, whatever else is interleaved.  NoIdleWatch: a watch lives only as long as an entry has its descriptor, so entries dropped leave nothing behind in the kernel.
* OutcomesMatch: however a request is cut (with the exception named above), it gets the answer it would get whole, in its parts or its error.
  NextRequestIntact: what is unread between two requests is the next requests, exactly.
  WaitsForMissing: a request being read is not waited for when it is there in full.  It does not speak of a pipelined request wholly in the buffer that has
  not been begun: after a reply the server waits for EPOLLIN, and parses it when something more arrives.
* TreeTypeOK, RedBlack, WalksAgree: rbtree.c.  Of the walks the server itself calls rb_first only; rb_next, rb_prev and rb_last are checked as
  the library they are.  ExpiryExact: the sweep finds who is overdue, and only
  them.  IsTimeoutQueue: refinement of TimeoutQueue.
* BuffersSound, RepliesMatch, RepliesLogged, ResponseTypeOK: one whole and right reply per request, with the buffer intact and no
  compressed content without its cache entry; the peers of this run ask nothing more after an error (see 2 below).
* HandoverTypeOK, HoldsItsOwn: no listener is lost or leaks from generation to generation, and each is bound to the configured address, except that a
  configuration for any address takes an inherited socket of its port as it is (Envirment.c:489).
* IsListenService: refinement of ListenService, with its fairness: who waits on a kept port is accepted and answered.
* BodyWithin: body and chunks are found where the parser says, and chunks are only moved towards the base.

### Disagreements between the code and what it says of itself

1. *worker_stale* (NeverReleasedTwice).  epoll_wait; the sweep; then the batch.  A session whose
   deadline has passed while its socket became writable is released by the sweep, and its
   event releases it again: HttpSession.c:94 says what is moved is a working session.
2. *response_frame* (RepliesMatch).  The reply to a failed request announces the length of its status text and then sends
   the text, a blank and a string no argument was passed for (fasterhttp.c:2209-2215).  On a Keep-Alive connection (README:10)
   the surplus is the beginning of the next reply.
3. *handover_restart* (SameConfigStarts).  GetListener compares with the literal "ip" (Envirment.c:489): a server bound to an
   address cannot be restarted gracefully, against README:14; the new process fails in bind().
4. *master_term* (TermEnds).  A TERM that does not interrupt waitpid() stays a flag (MonitorProcess.c:206), against MonitorProcess.c:126.

The models have the following, too.  Each can be seen by the change named; no run is kept for it.  The changes to
HttpParserMC leave conversations that are not Servable, so MCServable has to be dropped with them.

* The loop over the virtual hosts when logs are reopened (WorkerProcess.c:371) uses the index of the event loop: the rest of the
  batch is skipped, or the loop reads beyond the events fetched.  WorkerLoop reaches `pc = "crashed"` (an invariant `pc # "crashed"` added to WorkerLoop shows it).
* A change between reading a file (ProcessHttpRequest.c:143) and watching it (line 364) is missed, and the old content served until it changes
  again (the property `<>[](\A e \in by_path : Current(e.path).ver = e.ver)` in HtmlCacheMC.cfg).
* fasterhttp.c:1304 returns without saving where it stands; after a cut behind the CR of the blank line the
  next call starts over in the wrong step (BlankLineCut = TRUE in HttpParserMC.cfg).
* fasterhttp.c:1474 clears the header just stored, the 16th (HeaderArraySize = 2).
* fasterhttp.c:1536 ends a chunked request before its last CRLF, which then begins the next one (Conversations <- ChunkedThenGet).
* A header array grown beyond its limit is given back and then cleared at its old size (fasterhttp.c:670-680; both constants at 1).
* Three paths to one file share its watch descriptor.  When the file is deleted, IN_DELETE_SELF and IN_IGNORED drop two entries (HtmlCacheEventHander.c:37-44); the third
  stays in the cache for good (without LeftOver, NoMissedChange and ChangesReachCache fail).
* An empty file is answered with 500 and its FILE left open (ProcessHttpRequest.c:143).  If the file is then filled, cached and replaced, no event comes and the
  old content is served as long as the worker lives (without LostName, NoMissedChange and ChangesReachCache fail, with OthersHold = FALSE too).  The same
  goes for a file that another process has open or linked when it is replaced.
* Without a known mime type a null pointer is dereferenced where headers are appended (ProcessHttpRequest.c:332; an extension of the site left out of
  MCMimeTypes crashes the worker).
* A method other than GET and HEAD gets the length of a content and no content (ProcessHttpRequest.c:259, 309 and 341), so its peer waits for
  the next reply as a body; HEAD of a dynamic page gets the page (line 200; either method in MCAsks breaks RepliesMatch).
* With compress_on off a request with Accept-Encoding gets a start line and nothing else (ProcessHttpRequest.c:216; CompressOn = FALSE).
* With Patient = FALSE a USR2 sent to a master before it has installed its handlers ends it, and the service with it; with
  "detached" in ForkFails the second fork() of BindDaemonServer fails after hs.do has taken the first child for the
  new master and told the old one to end.
* The access log is chosen by the host of the request received last, of any connection (OnSendingSocket.c:46-72).

And these were met while reading, outside what the models tell apart: a released session keeps the bytes that stood behind a request with a
body (HttpSession.c:92 calls the reset of Keep-Alive), and the next connection parses them as its own (WorkerLoop has it, `env` "leftover"); the response to a
request the parser rejects is formatted and never sent (OnReceivingSocket.c:50 returns before lines 121-125; `env` "rejected");
a query string is part of the file name that is opened (ProcessHttpRequest.c:88); server.index is used for every host (line 177), whose names must begin with a slash unless the URI ends in one;
an index file whose registration fails leaves its pieces in front of the next one's; filename_len is one too long for a name with an extension and no query (fasterhttp.c:2789);
epoll_ctl's result is compared with 1 (OnSendingSocket.c:87); the test of access_log of the default host is of an array's address and always true (Envirment.c:66);
a listen.ip emptied between two generations takes over the socket of the old address (Envirment.c:489); a configuration given by a relative path is
not found again after chdir("/tmp") in BindDaemonServer; with accept_mutex the listeners are added to an epoll set by a number that is another process's (WorkerProcess.c:213).

### Fairness

WorkerLoop: weak fairness of the worker's and of the timer's steps: both threads
run and none of their steps waits, epoll_wait for a second at most.  Peers, the master and the
kernel's refusals (WorkerFails) owe nothing.  Monitor: weak fairness of the master, of the starter and of each
worker's own steps; a finishing worker ends, as DrainsUnlessBusy shows for peers that do not keep it busy.
Signals and crashes are not fair.  HtmlCache: weak fairness of the
steps of a request and of the event handler, strong fairness of reading events: the event loop
visits every ready descriptor once per epoll_wait, so requests cannot overtake inotify for ever,
but reading is disabled while a request is in progress.

Handover: weak fairness of each master's steps, of accepting and of answering:
processes run, epoll is level-triggered, and a connection accepted ends at its deadline at the latest (TimeoutReclaims).
The script, its operator and the peers owe nothing; a fork() or bind() that may fail never has to.

HttpParser, TimeoutTree and RequestResponse have no liveness property.  WaitsForMissing says what the parser must not wait for; a
loop of the tree that turns for ever would be a cycle of states between two operations, and of a reply that is not sent on the deadline takes care.

Deadlock is checked for *cache* and *tree*.  Worker, master and generations really end, and so do a
conversation and a connection: their cfgs switch it off.

## 4. Proofs

Most theorems rest on the constants' assumptions only (PoolAssumption, WorkerAssumption, MonitorAssumption,
CacheAssumption, ParserAssumption, TreeAssumption, BufferAssumption, UriAssumption, ResponseAssumption, TableAssumption: positive sizes, finite
sets where counted, a directory that is no file, deadlines and hash values that are integers, a null pointer that is no session or host).  The others state what more they assume:
ParserReads, ParserAnswersRight, ParserKeepsNext and ParserWaitsForMissing AllServable and ~BlankLineCut,
those of HandoverProofs Overlap and Careful, those of RequestResponseProofs Harmless, for ResponseReplies Tellable as well, or a default host, all below.

* **WorkerLoopProofs**.  First the pool.  PoolInv = PoolTypeOK /\ EachSessionInOnePlace /\ CountersAgree is inductive; none of the
  three is so alone (CountersAgree includes the limit): that the list is not empty when its head is taken is CountersAgree, that a
  fetched session was not in use is EachSessionInOnePlace, that a fresh one is new is PoolTypeOK.
  PoolCorrect, PoolPlaces and PoolCounters follow.

  Then the worker.  LoopIsPool says that every step of Spec is one of the pool's or leaves the pool alone.  The model stops where a handler would release
  a session not in use, so this alone would say little of releases; WorkerContract (ContractBrokenBySweepOnly) adds when that may happen.  Its invariant HeldOrSwept is that
  the session of every event left in the batch is in use or was swept since, and rests on ArmedInv below: no session has two events in a batch, so that no handler
  takes from another event its session.  KeepAlive refreshes without asking; there the contract
  rests on the invariant RepliesInUse (only a session in use has a response).  LoopInv joins these with PoolInv and "a session in use is
  registered with epoll", needed since Ready makes an event of its direction.  WorkerPool carries the pool's
  theorems over to the worker.  WorkerStopsAccepting proves NoAcceptAfterExit with the invariant ListenersGone:
  after the end of file no listener is open and no listen event is left in the batch.
  WorkerSockets proves SocketsMatchSessions, inductive with the types of `sock` and `link` (DescriptorInv).  Its step for accept() is a
  count: while a session is free, fewer sockets are open than there are, so the lowest free one exists and no session has it.
  WorkerDrains (ExitIsDrained) combines it with ListenersGone and the pool's counters: used_count = 0 means that no session, hence no descriptor, is left.
  WorkerArmed proves ReplyArmed although events may be stale.  ArmedInv says why they do no harm: no session has two events in a batch, and the session
  of an event to read has no response, neither when the event was fetched nor, through sweep and re-use of the session, when it is handled.
  WorkerTypes joins the invariants to TypeOK.
* **MonitorProofs**.  MonitorInv strengthens the three safety properties of the master with what each place of the code
  knows of the slot being served, of the slots not started yet and of who may hold which write end.  MonitorTypes, MonitorCounts,
  MonitorLeavesNone, MonitorPipes and MonitorClosesPipes follow.
* **HtmlCacheProofs**.  CacheTrees proves TreesAgree for any paths and files: the entry held is not in the cache between look-up and
  registration, because this worker alone changes the cache and does one request at a time.  CacheWatches proves NoIdleWatch.
  CacheMissesNothing proves NoMissedChange, for any number of paths to a file and whoever has it open: MissInv says that an entry
  whose file changed while watched has an event queued or a watch without a name, and (Covered) that of an entry whose watch is gone two events are left, or one event and
  one entry dropped before it, or that two entries were dropped before it (LeftOver).
* **HttpParserProofs**.  ParserInv = ParserTypeOK /\ BodyWithin is inductive, and ParserInBuffer says so of Spec: for every buffer size and
  every conversation the pointers stay within what was received.  BodyWithin is what carries the chunks: the
  place the next data goes to is not behind the place it is read from, so moving it stays inside the buffer.
  ParserTypes follows.  One lemma for each way a case of the switch ends (more bytes, rejected, complete, on to the next case), then one for each action.

  The rest of the module proves what the parser returns: for conversations of the grammar (AllServable: any number of requests, headers and chunks, words of any
  length) that are never cut within the blank line (~BlankLineCut), ParserAnswersRight, ParserKeepsNext and ParserWaitsForMissing are OutcomesMatch, NextRequestIntact and
  WaitsForMissing.  None is inductive.  ParserReads is their invariant ReadInv (which can be added to HttpParserMC.cfg: TLC finds no error in its 76562 states).  Its parts need each other.
  *Flow* and *Intact*: buffer and socket hold, in order, what was sent and not answered, except where chunks were moved together; hence what the parser sees at an
  offset is what the layout says.  *Standing*: the step and the tokens taken over are those of the layout at the cursor; hence each search
  (`Stops`) ends where the word of the layout does, or at the end of what was received, where it can go on later.  *Told*: content_length, chunked, TRAILER and keepalive are
  what the headers read so far say; hence the parser leaves the blank line into the right kind of body.  *Gathered*: the chunks moved are the first bytes of the content, and where
  they are moved to is before where the next one is read (BodyWithin), so nothing still to be read is overwritten.  *Uncut*: what is received never ends within
  the blank line unread, the one place where the code does not note where it stands.  *Answered* and *Ahead*: what stands behind a request
  is marked as kept exactly if something does, and the peer is at most one request ahead, so that the reset forgets nothing.
  There is a lemma for each action, for each place it may stop and for each outcome; the induction over the bytes is the one of the specification's steps, so that no recursion is needed.

* **TimeoutTreeOrder** and **TimeoutTreeProofs**, for any set of sessions, finite or not.  The tree is described by the list q of its nodes from left to right, by the
  position of each node in q, and by the interval of positions below it (Shape): a node splits its interval between its two children.
  RotateShape, LinkBelow and LinkFirst, SpliceShape and SubstShape say what a rotation, linking a node, taking out one with a child missing, and the exchange of one with
  its successor do to q, which is nothing, insert, delete, and replace.  A way down has ever smaller intervals and a way up ever larger ones, so the functions by which the model descends and
  walks are well founded, and EndOfIs, StepIs and InOrderIs say that rb_first, rb_next and the reading from left to right return what q says.
  Colours are described by a number of black nodes below every node (Balanced).

  TreeInv joins Updating (what is out of the tree between the two halves of an update), Colours and, for some q, Ordered(q): Shape, and
  sorted by deadline.  Colours is where the loops differ from rest.  In rb_insert_color only `node` may be red below a red parent (InsertColours); in
  __rb_erase_color the paths through `node` are one black short (EraseColours).  Hence its sibling is there and the loop never follows a null pointer (SiblingFacts).
  TreeInvariant has a lemma for each case of the two loops.  TreeCorrect, TreeExpiry, TreeWalks and TreeRedBlack follow.
  TreeIsQueue proves all of the refinement IsTimeoutQueue: neither specification has fairness.
  TreeStaysSorted says of the queue it implements that it is sorted and free of duplicates; TreeExpiry is why GetExpireHttpSessionTimeoutTreeNode need look at rb_first only.
* **RequestResponseProofs**, for any number of connections, any site, configuration and requests.  ResponseLogged proves RepliesLogged if there is a
  default host (DefaultHost # None): LoggedInv adds that p_virtualhost names a host while any reply is going out.  That the look-up returns a configured
  host or the default one is an invariant of the fold that fills the table (HostTableIs), and so is that every configured domain is found in it (TableKnows).

  ResponseBuffers and ResponseTypes prove BuffersSound and ResponseTypeOK under Harmless, which names all that can break them.
  *ContentsFit*: a content of more than 100 MB, for which the growing loops need not end (the model must also look at enough turns of them).
  *TypesKnown*: a file without a mime type, behind which stands the null pointer of ProcessHttpRequest.c:332.
  *OneIndexFile*: an index file tried after another one was appended and could not be watched; headers go in front of what stands in the buffer, and there need not be
  room for a second set.
  TLC evaluates Harmless for the run's instance (MCHarmless).
  ResponseInv says that a connection being read has an unsent buffer starting at its base, so that a reply is composed from there (Filling); a lemma for each write to the buffer
  says that it leaves it in order (GrownIs: below the limit each turn doubles, so a size that fits comes before any that is too small), one for each stage of ProcessHttpRequest what it
  leaves in buffer and cache (Composed, Registered, Tried), and one for the fold over the index files (Trying): so far the reply is there, is still its start line, or a file
  was appended that could not be watched.

  ResponseReplies proves RepliesMatch under Harmless and Tellable, which names what keeps a peer from telling its replies apart.  *GivesUp*: it asks on after an
  error (finding 2 of section 3).  *GetOrHead*, *PagesWhole* and *Negotiates*: a method without a content, HEAD of a page, Accept-Encoding with compress_on off (section 3, too).
  *NamesPlain*: a file whose path SplitHttpUri or the search for ".." refuses, and an extension that makes a page of what is none.
  *IndexDecides*: calls fail, and a directory has two index files to choose from, so that which one is served depends on the failure.
  TLC evaluates Tellable for the run's instance (MCTellable).

  The argument has two halves.  The first is about one request: the same lemmas that keep the buffer in order also say what is in it.  Tells: the reply to a file is
  its start line, its headers and the content they announce, in a form the peer accepts.  Tried and Chosen: a file is served if it can be read and no call fails, and of the
  index files the first that can be read.  QueryVirtualHostIs: the host is the one named, whatever the chains of the table.  ServedFit joins these, and
  ReplyIsRight says that what is put into the buffer is one right reply (RightReply), an error included.
  The second is about the stream.  TellingInv says that what went out and what is left in the buffer, one after the other, is laid out as right replies to the requests
  asked (Layout): places at[0], at[1], ..., each reply beginning where the one before it ends, and only the last may be an error with its surplus (EndsAt).  Sending moves
  pieces from one to the other and leaves the join alone (SentMoves); a new request is asked only behind a reply that is whole and 200 (MayAsk), so appending a
  right reply extends the layout (LayoutGrows).  What the peer reads is then what is laid out (RepliesAre): Starts is the only function
  with that layout (StartsAre, an induction on the number of replies by Climb), and a reply that lies in what went out is read the same with or without the rest.
* **HandoverProofs**.  Under Overlap (any two configured addresses overlap, so that two sockets never share a port) and Careful (hs.do is run on masters
  that handle signals, and the second fork() of BindDaemonServer works).  Both are needed: without the second the service does break, see section 3.
  IInv joins types (TypeInv), what each process holds in each phase of its life (HoldInv), that there is one socket
  for a port (OneSocket), that while peers are about some serving generation, or the one it started, holds every kept port (StandInv), and
  what the script may conclude when it waits (WaitInv).  HandoverTypes follows.  TakesOver (HoldsItsOwn) adds AddressInv: each socket a master
  made has the address of its configuration; ServesWithoutBreak shows that every step is a step of ListenService or a stutter.

Model-checked only: all liveness properties and the fairness half of IsListenService, which are beyond the prover.
Every invariant and every other action property of the passing runs is a theorem.

## 5. Plan

In this order; all but the last are done.

1. SessionPool and its proofs.
2. WorkerLoop: composes the pool with loop, handlers, timer, pipe; how far it keeps the pool's contract proved.
3. Monitor and its proofs.
4. HtmlCache and the proof that the trees agree.
5. HttpParser and the proof that it stays within its buffer.
6. TimeoutTree with TimeoutQueue: the refinement, the red-black invariants and the queue's order proved.
7. HttpBuffer, HttpUri and RequestResponse: buffers, types and logs proved.
8. Handover with ListenService: refinement checked, its safety half and the invariants proved.
9. Proofs of every invariant of WorkerLoop and HtmlCache.
10. HttpMessage and HttpReading: the parser returns what was sent, proved for every conversation of the grammar.
11. RepliesMatch, with the replies of a connection described by places as HttpMessage describes requests: proved.
12. StringExpandEnvval of Config.c against a reference definition.

## 6. Not modelled, and why

* accept_mutex with several workers (WorkerProcess.c 178-225): the descriptor number of another process's epoll set is used in this one, so
  what happens depends on what that number means here and not on any order of steps; the models are for accept_mutex off or one worker.
* The client's half of fasterhttp.c (parsing of responses, lines 1149-1282; requests and their connections): the server never calls it.
* The growth of the request buffer: HttpParser has a buffer that holds the longest conversation.  The response buffer grows.
* Configuration, its generated code and the JSON parser: read once by one process before anything runs; a configuration is a constant, or a value of
  `config` in Handover.
* The log library, processor affinity, the callback of dynamic pages (foreign code, with a stand-in in RequestResponse).
* rb_replace_node, rb_augment_*: nobody calls them.
* Memory exhaustion beyond the branches of IncreaseHttpSessions, and the content of the logs.

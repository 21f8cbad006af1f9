----------------------------- MODULE WorkerLoop -----------------------------
(***************************************************************************)
(* One worker process: the event loop of WorkerProcess.c with its handlers *)
(* OnAcceptingSocket.c, OnReceivingSocket.c and OnSendingSocket.c, the     *)
(* timer thread (TimerThread.c) that runs beside it, the connections, and  *)
(* the command pipe from the master.  The pool of sessions is SessionPool. *)
(*                                                                         *)
(* epoll_wait returns a batch of events; the sweep for timed-out sessions  *)
(* runs before the batch is handled, so an event may be handled for a      *)
(* session that the sweep has released meanwhile.  When a handler is about *)
(* to release or refresh a session that is not in use, rb_erase() is       *)
(* called on a node outside the tree and list_add_tail() on one inside the *)
(* list: the effect is not defined by C, and the model stops there with    *)
(* pc = "undefined".                                                       *)
(*                                                                         *)
(* The configuration modelled is accept_mutex = 0 or a single worker: the  *)
(* listeners stay with this worker (lines 179-225 are not entered).  The   *)
(* HTML cache's inotify events touch none of the state below.              *)
(***************************************************************************)
EXTENDS SessionPool, SequencesExt

CONSTANTS
  Input,        \* what peers send, a subset of Bytes
  HashSize,     \* virtualhost_hashsize, twice the number of virtual hosts
  MaxBacklog,   \* bound: connections waiting in the listen queue
  MaxRelog,     \* bound: unread 'L' bytes in the command pipe
  ErrorAlone    \* epoll may report EPOLLERR without EPOLLIN or EPOLLOUT

(* What peers may have sent: part of a request; a whole one; a whole one *)
(* with a body and the beginning of the next behind it; a malformed one.   *)
Bytes == {"part", "full", "more", "bad"}

ASSUME WorkerAssumption ==
  /\ Input \subseteq Bytes
  /\ HashSize \in Nat \ {0}
  /\ MaxBacklog \in Nat
  /\ MaxRelog \in Nat
  /\ ErrorAlone \in BOOLEAN

VARIABLES
  sock,            \* netaddr.sock of every session; kept after close()
  mode,            \* what epoll watches the session for: "in", "out", "off"
  env,             \* its HttpEnv
  link,            \* descriptor -> "closed" or what recv() finds on it
  backlog,         \* connections waiting to be accepted
  listening,       \* the listeners are open and registered
  relog, eof,      \* the command pipe: unread 'L' bytes, write end closed
  g_exit_flag, g_second_elapse,
  timer,           \* where the timer thread is in its loop
  pc,              \* where the worker is
  batch, i, nfds,  \* events from p_event on, loop index, epoll_nfds
  swept            \* history: who of the batch the sweep has released

connVars   == <<sock, mode, env, link>>
kernelVars == <<backlog, listening, relog, eof>>
batchVars  == <<batch, i, nfds, swept>>
loopVars   == <<pc, batchVars>>
flagVars   == <<g_exit_flag, g_second_elapse, timer>>
vars == <<poolVars, connVars, kernelVars, loopVars, flagVars>>

Sessions == 1..MaxSessions
Sockets  == 1..MaxSessions+1   \* one more: accepted before it is refused

Link  == {"closed", "none", "fin"} \cup Bytes

(* "leftover": ResetHttpEnv kept the bytes behind the last request.        *)
(* "rejected": the parser failed and an error response is formatted.       *)
Env   == {"clear", "partial", "leftover", "reply", "reply+", "rejected"}

Running == pc \in {"events", "sweep", "accept"}

Event(t, s, k) == [type |-> t, ptr |-> s, kind |-> k]
Events == {Event("listen", 0, "in"), Event("masked", 0, "in"), Event("pipe", 0, "in")}
          \cup {Event("http", s, k) : s \in Sessions, k \in {"in", "out", "err"}}

Init ==
  /\ PoolInit
  /\ sock = [s \in Sessions |-> 1]
  /\ mode = [s \in Sessions |-> "off"]
  /\ env  = [s \in Sessions |-> "clear"]
  /\ link = [f \in Sockets |-> "closed"]
  /\ backlog = 0 /\ listening = TRUE
  /\ relog = 0 /\ eof = FALSE
  /\ g_exit_flag = FALSE /\ g_second_elapse = FALSE /\ timer = "update"
  /\ pc = "events" /\ batch = <<>> /\ i = 0 /\ nfds = 0 /\ swept = {}
----------------------------------------------------------------------------
(* The world outside the worker's thread.                                  *)

ClientConnects ==
  /\ Running /\ listening /\ backlog < MaxBacklog
  /\ backlog' = backlog + 1
  /\ UNCHANGED <<poolVars, connVars, listening, relog, eof, loopVars, flagVars>>

(* The listeners are shared: another worker may take the connection first. *)
TakenByOtherWorker ==
  /\ Running /\ backlog > 0
  /\ backlog' = backlog - 1
  /\ UNCHANGED <<poolVars, connVars, listening, relog, eof, loopVars, flagVars>>

ClientSends(f) ==
  /\ Running /\ link[f] = "none"
  /\ \E b \in Input : link' = [link EXCEPT ![f] = b]
  /\ UNCHANGED <<poolVars, sock, mode, env, kernelVars, loopVars, flagVars>>

(* The peer closes or resets; a reset discards what was not read.          *)
ClientCloses(f) ==
  /\ Running /\ link[f] \notin {"closed", "fin"}
  /\ link' = [link EXCEPT ![f] = "fin"]
  /\ UNCHANGED <<poolVars, sock, mode, env, kernelVars, loopVars, flagVars>>

MasterWritesRelog ==
  /\ Running /\ ~eof /\ relog < MaxRelog
  /\ relog' = relog + 1
  /\ UNCHANGED <<poolVars, connVars, backlog, listening, eof, loopVars, flagVars>>

(* sig_proc on TERM, or the master's own end.                              *)
MasterClosesPipe ==
  /\ Running /\ ~eof
  /\ eof' = TRUE
  /\ UNCHANGED <<poolVars, connVars, backlog, listening, relog, loopVars, flagVars>>

(* TimerThread: refresh the cached clock; sleep; raise the flag.           *)
TimerUpdatesClock ==
  /\ Running /\ timer = "update"
  /\ SecondPasses
  /\ timer' = "sleep"
  /\ UNCHANGED <<connVars, kernelVars, loopVars, g_exit_flag, g_second_elapse>>

TimerElapses ==
  /\ Running /\ timer = "sleep"
  /\ g_second_elapse' = TRUE
  /\ timer' = "update"
  /\ UNCHANGED <<poolVars, connVars, kernelVars, loopVars, g_exit_flag>>

Environment ==
  \/ ClientConnects \/ TakenByOtherWorker
  \/ \E f \in Sockets : ClientSends(f) \/ ClientCloses(f)
  \/ MasterWritesRelog \/ MasterClosesPipe
----------------------------------------------------------------------------
(* The main loop.                                                          *)

BatchOver == pc = "events" /\ i >= nfds

(* Level-triggered readiness.  `writable' are sessions whose send buffer   *)
(* has room, `broken' those whose socket reports an error bit only.        *)
Ready(writable, broken) ==
     {Event("listen", 0, "in") : x \in {y \in {1} : listening /\ backlog > 0}}
  \cup {Event("pipe", 0, "in") : x \in {y \in {1} : ~g_exit_flag /\ (relog > 0 \/ eof)}}
  \cup {Event("http", s, "err") : s \in broken}
  \cup {Event("http", s, mode[s]) : s \in
          {t \in InUse \ broken :
             IF mode[t] = "in" THEN link[sock[t]] # "none"
                               ELSE t \in writable \/ link[sock[t]] = "fin"}}

(* The socket number of a free session is dead once no batch holds its     *)
(* events any more, and reset here to save states.                         *)
EpollWait ==
  /\ BatchOver
  /\ ~(g_exit_flag /\ used_count = 0)
  /\ \E writable \in SUBSET {s \in InUse : mode[s] = "out"},
        broken \in SUBSET {s \in InUse : ErrorAlone /\ link[sock[s]] = "fin"} :
       batch' \in SetToSeqs(Ready(writable, broken))
  /\ i' = 0 /\ nfds' = Len(batch') /\ swept' = {}
  /\ pc' = IF g_second_elapse THEN "sweep" ELSE "events"
  /\ sock' = [s \in Sessions |-> IF s \in InUse THEN sock[s] ELSE 1]
  /\ UNCHANGED <<poolVars, mode, env, link, kernelVars, flagVars>>

(* Mutant: the loop ends with the flag, whatever is still being served.    *)
ExitAtOnce ==
  /\ BatchOver /\ g_exit_flag
  /\ pc' = "exited"
  /\ UNCHANGED <<poolVars, connVars, kernelVars, batchVars, flagVars>>

(* Mutant: the loop waits for the wrong counter to reach zero.             *)
ExitOnWrongCounter ==
  /\ BatchOver /\ g_exit_flag /\ unused_count = 0
  /\ pc' = "exited"
  /\ UNCHANGED <<poolVars, connVars, kernelVars, batchVars, flagVars>>

WorkerExits ==
  /\ BatchOver /\ g_exit_flag /\ used_count = 0
  /\ pc' = "exited"
  /\ UNCHANGED <<poolVars, connVars, kernelVars, batchVars, flagVars>>

(* A system call the worker cannot do without fails (epoll_wait, accept    *)
(* out of descriptors, epoll_ctl, reopening a log): it returns -1.         *)
WorkerFails ==
  /\ Running
  /\ pc' = "failed" /\ batch' = <<>> /\ i' = 0 /\ nfds' = 0 /\ swept' = {}
  /\ UNCHANGED <<poolVars, connVars, kernelVars, flagVars>>

(* ResetHttpEnv keeps the bytes behind a request that had a body.          *)
AfterReset(e) == IF e = "reply+" THEN "leftover" ELSE "clear"

(* Mutant: the session is never linked into the list of free sessions.     *)
ReleaseLosesSession(s) ==
  /\ used' = Restrict(used, InUse \ {s})
  /\ used_count' = used_count - 1
  /\ unused_count' = unused_count + 1
  /\ link' = [link EXCEPT ![sock[s]] = "closed"]
  /\ mode' = [mode EXCEPT ![s] = "off"]
  /\ env' = [env EXCEPT ![s] = AfterReset(@)]
  /\ UNCHANGED <<unused_list, total, sock>>

(* Take the socket out of epoll, close it, clean the session, pool it.     *)
SetHttpSessionUnused(s) ==
  /\ ReleaseSession(s)
  /\ link' = [link EXCEPT ![sock[s]] = "closed"]
  /\ mode' = [mode EXCEPT ![s] = "off"]
  /\ env' = [env EXCEPT ![s] = AfterReset(@)]
  /\ UNCHANGED sock

(* GetExpireHttpSessionTimeoutTreeNode reads the clock anew for every      *)
(* session, so the timer thread may step in between.                       *)
SweepOne ==
  /\ pc = "sweep"
  /\ \E s \in Expired :
       /\ SetHttpSessionUnused(s)
       /\ swept' = swept \cup {batch[k].ptr : k \in {j \in DOMAIN batch : batch[j].ptr = s}}
  /\ UNCHANGED <<kernelVars, pc, batch, i, nfds, flagVars>>

SweepDone ==
  /\ pc = "sweep" /\ Expired = {}
  /\ g_second_elapse' = FALSE
  /\ pc' = "events"
  /\ UNCHANGED <<poolVars, connVars, kernelVars, batchVars, g_exit_flag, timer>>
----------------------------------------------------------------------------
(* Handling one event of the batch.                                        *)

Dispatch(type) ==
  pc = "events" /\ i < nfds /\ batch # <<>> /\ Head(batch).type = type

(* Go on at event q of the batch with loop index n.  Once the batch is     *)
(* over, q, i, nfds and swept are dead values, cleared to save states.     *)
ContinueAt(q, n) ==
  /\ pc' = "events"
  /\ batch' = IF n < nfds THEN q ELSE <<>>
  /\ i' = IF n < nfds THEN n ELSE 0
  /\ nfds' = IF n < nfds THEN nfds ELSE 0
  /\ swept' = IF n < nfds THEN swept ELSE {}

NextEvent == ContinueAt(Tail(batch), i + 1)

(* The next statement works on a session outside the tree.                 *)
Undefined ==
  /\ pc' = "undefined"
  /\ UNCHANGED <<poolVars, connVars, batchVars>>

(* Mutant: the handler has released the session, the loop does so again.   *)
FinishTwice(s) ==
  \/ s \in InUse /\ SetHttpSessionUnused(s) /\ pc' = "undefined" /\ UNCHANGED batchVars
  \/ s \notin InUse /\ Undefined

(* The handler returned 1: the event loop releases the session.            *)
Finish(s) ==
  \/ s \in InUse /\ SetHttpSessionUnused(s) /\ NextEvent
  \/ s \notin InUse /\ Undefined

(* LISTEN: OnAcceptingSocket accepts until there is nothing left.          *)
HandleListen ==
  /\ Dispatch("listen")
  /\ pc' = "accept"
  /\ UNCHANGED <<poolVars, connVars, kernelVars, batchVars, flagVars>>

(* The kernel hands out the lowest free descriptor.                        *)
FreeSocket == CHOOSE f \in Sockets : link[f] = "closed" /\ \A g \in 1..f-1 : link[g] # "closed"

AcceptOne ==
  /\ pc = "accept" /\ backlog > 0
  /\ FetchHttpSessionUnused
  /\ sock' = [sock EXCEPT ![NextSession] = FreeSocket]
  /\ mode' = [mode EXCEPT ![NextSession] = "in"]
  /\ link' = [link EXCEPT ![FreeSocket] = "none"]
  /\ backlog' = backlog - 1
  /\ UNCHANGED <<env, listening, relog, eof, loopVars, flagVars>>

(* Mutant: the connection that gets no session is not closed.              *)
RefusedStaysOpen ==
  /\ pc = "accept" /\ backlog > 0
  /\ FetchNull
  /\ link' = [link EXCEPT ![FreeSocket] = "none"]
  /\ backlog' = backlog - 1
  /\ NextEvent
  /\ UNCHANGED <<sock, mode, env, listening, relog, eof, flagVars>>

(* No session: close the connection again and leave the accept loop.       *)
AcceptRefused ==
  /\ pc = "accept" /\ backlog > 0
  /\ FetchNull
  /\ backlog' = backlog - 1
  /\ NextEvent
  /\ UNCHANGED <<connVars, listening, relog, eof, flagVars>>

AcceptDrained ==
  /\ pc = "accept" /\ backlog = 0
  /\ NextEvent
  /\ UNCHANGED <<poolVars, connVars, kernelVars, flagVars>>

(* What ParseHttpBuffer makes of the bytes, and what OnReceivingSocket does *)
(* then: a whole request refreshes the deadline and is answered, with       *)
(* whatever status; a malformed one gets an error response formatted, but   *)
(* the socket stays registered for input (line 50).                         *)
Parsed(s, b) ==
  \/ /\ b \in {"part", "bad"}
     /\ env' = [env EXCEPT ![s] = IF b = "part" THEN "partial" ELSE "rejected"]
     /\ UNCHANGED <<poolVars, sock, mode>>
     /\ NextEvent
  \/ /\ b \in {"full", "more"} /\ s \in InUse
     /\ RefreshSession(s)
     /\ env' = [env EXCEPT ![s] = IF b = "full" THEN "reply" ELSE "reply+"]
     /\ mode' = [mode EXCEPT ![s] = "out"]
     /\ UNCHANGED <<sock>>
     /\ NextEvent

(* ReceiveHttpBuffer calls recv() unless unparsed bytes start at the base   *)
(* of the buffer: always so behind a leftover, possibly so after an error,  *)
(* when the parser may see old bytes in a new state and decide anew.        *)
(* Its outcomes: EAGAIN, or EBADF for a socket closed meanwhile (the error  *)
(* response formatted then is overwritten by the next response); the peer   *)
(* is gone, or there is no memory for the response; something was parsed.   *)
MustNotRecv(s) == env[s] = "leftover"
MayNotRecv(s)  == env[s] \in {"leftover", "rejected"}

OnReceivingSocket(s) ==
  LET f == sock[s] IN
  \/ /\ ~MustNotRecv(s) /\ link[f] \in {"closed", "none"}
     /\ NextEvent
     /\ UNCHANGED <<poolVars, connVars>>
  \/ /\ ~MustNotRecv(s) /\ link[f] \in {"fin", "full", "more", "bad"}
     /\ Finish(s)
  \/ \E b \in Input :
       /\ ~MustNotRecv(s) /\ link[f] = b
       /\ \/ Parsed(s, b) /\ link' = [link EXCEPT ![f] = "none"]
          \/ b \in {"full", "more"} /\ s \notin InUse /\ Undefined
  \/ \E b \in Input :
       /\ MayNotRecv(s)
       /\ \/ Parsed(s, b) /\ UNCHANGED link
          \/ b \in {"full", "more"} /\ s \notin InUse /\ Undefined

(* Mutant: on Keep-Alive the socket stays registered for output.           *)
KeepAliveUnarmed(s) ==
  /\ env[s] \in {"reply", "reply+"}
  /\ RefreshSession(s)
  /\ env' = [env EXCEPT ![s] = AfterReset(@)]
  /\ NextEvent
  /\ UNCHANGED <<mode, sock, link>>

(* Keep-Alive: clean the session, new deadline, wait for the next request. *)
KeepAlive(s) ==
  /\ env[s] \in {"reply", "reply+"}
  /\ RefreshSession(s)
  /\ env' = [env EXCEPT ![s] = AfterReset(@)]
  /\ mode' = [mode EXCEPT ![s] = "in"]
  /\ NextEvent
  /\ UNCHANGED <<sock, link>>

(* SendHttpResponseNonblock would block; or the response is out and the     *)
(* connection is kept; or it failed, is not kept, or there was nothing to   *)
(* send: an empty buffer counts as sent and a cleared HttpEnv as not kept.  *)
OnSendingSocket(s) ==
  \/ /\ env[s] \in {"reply", "reply+"} /\ link[sock[s]] # "fin"
     /\ NextEvent
     /\ UNCHANGED <<poolVars, connVars>>
  \/ KeepAlive(s)
  \/ Finish(s)

HandleHttp ==
  /\ Dispatch("http")
  /\ LET s == Head(batch).ptr IN
       \/ Head(batch).kind = "in"  /\ OnReceivingSocket(s)
       \/ Head(batch).kind = "out" /\ OnSendingSocket(s)
       \/ Head(batch).kind = "err" /\ Finish(s)
  /\ UNCHANGED <<kernelVars, flagVars>>

(* PIPE, one byte: reopen the logs.  The loop over the virtual hosts runs   *)
(* on i, the index of the event loop, and leaves it at HashSize.            *)
HandleRelog ==
  /\ Dispatch("pipe") /\ relog > 0
  /\ relog' = relog - 1
  /\ ContinueAt(Tail(batch), HashSize + 1)
  /\ UNCHANGED <<poolVars, connVars, backlog, listening, eof, flagVars>>

Masked(e) == IF e.type = "listen" THEN Event("masked", 0, "in") ELSE e

(* Mutant: the LISTEN events later in the batch are not masked.            *)
HandleEofUnmasked ==
  /\ Dispatch("pipe") /\ relog = 0
  /\ listening' = FALSE
  /\ g_exit_flag' = TRUE
  /\ NextEvent
  /\ backlog' = 0
  /\ UNCHANGED <<poolVars, connVars, relog, eof, g_second_elapse, timer>>

(* PIPE, end of file: close the listeners, mask their events later in this *)
(* batch, close the pipe, and finish once no session is in use.  What is   *)
(* in the listen queue from now on is for the other workers.               *)
HandleEof ==
  /\ Dispatch("pipe") /\ relog = 0
  /\ listening' = FALSE
  /\ g_exit_flag' = TRUE
  /\ ContinueAt([k \in 1..Len(batch)-1 |-> Masked(batch[k+1])], i + 1)
  /\ backlog' = 0
  /\ UNCHANGED <<poolVars, connVars, relog, eof, g_second_elapse, timer>>

HandleMasked ==
  /\ Dispatch("masked")
  /\ NextEvent
  /\ UNCHANGED <<poolVars, connVars, kernelVars, flagVars>>

(* p_event has run past the events fetched: data.ptr is NULL there.        *)
ReadPastBatch ==
  /\ pc = "events" /\ i < nfds /\ batch = <<>>
  /\ pc' = "crashed"
  /\ UNCHANGED <<poolVars, connVars, kernelVars, batchVars, flagVars>>

WorkerStep ==
  \/ EpollWait \/ WorkerExits \/ SweepOne \/ SweepDone
  \/ HandleListen \/ AcceptOne \/ AcceptRefused \/ AcceptDrained
  \/ HandleHttp \/ HandleRelog \/ HandleEof \/ HandleMasked \/ ReadPastBatch

TimerStep == TimerUpdatesClock \/ TimerElapses

Next == WorkerStep \/ WorkerFails \/ TimerStep \/ Environment

Spec == Init /\ [][Next]_vars

(* The worker and the timer thread are always runnable and each of their   *)
(* steps is a bounded piece of code; peers and the master owe nothing.     *)
FairSpec == Spec /\ WF_vars(WorkerStep) /\ WF_vars(TimerStep)
----------------------------------------------------------------------------
TypeOK ==
  /\ PoolTypeOK
  /\ sock \in [Sessions -> Sockets] /\ mode \in [Sessions -> {"in", "out", "off"}]
  /\ env \in [Sessions -> Env] /\ link \in [Sockets -> Link]
  /\ backlog \in 0..MaxBacklog /\ relog \in 0..MaxRelog
  /\ {listening, eof, g_exit_flag, g_second_elapse} \subseteq BOOLEAN
  /\ timer \in {"update", "sleep"}
  /\ pc \in {"events", "sweep", "accept", "exited", "failed", "crashed", "undefined"}
  /\ batch \in Seq(Events) /\ i \in Nat /\ nfds \in Nat /\ swept \subseteq Sessions

(* No descriptor leaks and none is shared: the open connections are        *)
(* exactly the sockets of the sessions in use, one each.  Accepting,       *)
(* refusing at the limit, timing out, failing and finishing all keep it.   *)
SocketsMatchSessions ==
  /\ {f \in Sockets : link[f] # "closed"} = {sock[s] : s \in InUse}
  /\ \A s, t \in InUse : sock[s] = sock[t] => s = t

(* A session waits for output exactly as long as it has the response to a  *)
(* whole request to send; otherwise the response is never sent or the next *)
(* request never read.  The error response to a malformed request is not   *)
(* one: OnReceivingSocket.c:50 formats it and leaves the socket registered *)
(* for input (env "rejected").                                             *)
ReplyArmed ==
  \A s \in InUse : mode[s] = "out" <=> env[s] \in {"reply", "reply+"}

(* Graceful end: a worker that ran to its end served every connection it   *)
(* had accepted until that one was closed, and holds no listener.          *)
ExitIsDrained ==
  pc = "exited" => InUse = {} /\ ~listening /\ \A f \in Sockets : link[f] = "closed"

(* Once told to finish, the worker never calls accept() on a listener it   *)
(* has closed, not even for an event it had already fetched.               *)
NoAcceptAfterExit == [][g_exit_flag => pc' # "accept"]_vars

(* A session in use is released or gets a new deadline, again and again: a *)
(* silent, stuck or rejected peer cannot hold a session forever.           *)
TimeoutReclaims ==
  \A s \in Sessions :
    []<>(~Running \/ s \notin InUse \/ used[s] = Timeout)

(* A worker told to finish does finish, unless its peers keep a session    *)
(* busy: nothing but fresh requests on old connections can delay it.       *)
DrainsUnlessBusy ==
  []<>(~Running \/ ~g_exit_flag \/ \E s \in InUse : used[s] = Timeout)

(* The sweep is the only way to break the contract of the pool.  Every     *)
(* step of the worker is one of the pool, whose caller releases and        *)
(* refreshes sessions in use only; and when a handler is about to release  *)
(* or refresh one that is not (SetHttpSessionUnused asks nothing), it is   *)
(* for an event whose session the sweep released after the event was       *)
(* fetched.  No handler, no second event of a session and no connection    *)
(* accepted in between does so.                                            *)
ContractBrokenBySweepOnly ==
  [][/\ [PoolNext]_poolVars
     /\ pc' = "undefined" => pc = "undefined" \/ Head(batch).ptr \in swept]_vars

(* HttpSession.c:94 moves "the current session in use" to the list of free *)
(* sessions: what is released or refreshed is in use.                      *)
NeverReleasedTwice == pc # "undefined"
=============================================================================

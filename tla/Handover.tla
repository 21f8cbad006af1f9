------------------------------ MODULE Handover ------------------------------
(***************************************************************************)
(* The listening sockets of htmlserver from generation to generation:      *)
(* InitServerEnvirment with SaveListenSockets, LoadOldListenSockets,       *)
(* GetListener and CloseUnusedOldListeners (Envirment.c), the USR2 and     *)
(* TERM branches of sig_proc (MonitorProcess.c), BindDaemonServer (Util.c) *)
(* and the start and restart_graceful commands of shbin/hs.do.             *)
(*                                                                         *)
(* A generation is a master with its workers, which hold the same sockets. *)
(* Monitor says how a master keeps its workers, WorkerLoop how they serve. *)
(* A socket is known by who made it and where it listens; the descriptors  *)
(* of a process are a function from numbers to sockets, and survive fork() *)
(* and execvp() under the same numbers.  The order of listen_session_list  *)
(* and of the configured ports, which differ, makes no difference.         *)
(***************************************************************************)
EXTENDS Integers, FiniteSets

CONSTANTS
  Conns,            \* peers
  Ports,            \* what listen.port may name
  Configs,          \* configurations: [ip, ports]; ip "" is any address
  MaxGenerations,   \* bound on the restarts
  Fds,              \* descriptor numbers of the listening sockets
  ForkFails,        \* the fork() calls that may fail
  Patient           \* hs.do is run on masters that handle signals

ASSUME HandoverAssumption ==
  /\ MaxGenerations \in Nat \ {0}
  /\ Fds \subseteq Nat
  /\ \A k \in Configs : k.ip \in STRING /\ k.ports \subseteq Ports
  /\ ForkFails \subseteq {"sig_proc", "daemon", "detached"}
  /\ Patient \in BOOLEAN

VARIABLES
  config,   \* the configuration file
  gens,     \* the generations
  script,   \* what hs.do waits for, and the PID it was started on
  conn      \* the connections

vars == <<config, gens, script, conn>>

Gens == 1..MaxGenerations

Empty == [f \in {} |-> f]

Unborn ==
  [phase |-> "none", config |-> [ip |-> "", ports |-> {}], todo |-> {},
   env |-> {}, old |-> {}, fds |-> Empty, list |-> {}, usr2 |-> FALSE,
   term |-> FALSE]

SocketsOf(gen) == {gen.fds[n] : n \in DOMAIN gen.fds}

Open(gs) == UNION {SocketsOf(gs[g]) : g \in Gens}

(* A process that ends closes its descriptors.                             *)
Ended(gen, phase) == [gen EXCEPT !.phase = phase, !.fds = Empty, !.list = {}]

(* The connections that waited at a socket nobody holds any more.          *)
AfterClosing(gs) ==
  [c \in Conns |->
     IF conn[c].state = "queued" /\ conn[c].at \notin Open(gs)
       THEN [conn[c] EXCEPT !.state = "reset"] ELSE conn[c]]

(* Processes ps shows with parent 1: the master, and before it the child   *)
(* of the first fork() of BindDaemonServer.                                *)
Masters == {g \in Gens : gens[g].phase \in {"detached", "serving", "draining"}}
----------------------------------------------------------------------------
(* InitServerEnvirment of a new process.                                   *)
LoadOldListenSockets(gen) ==
  {[sock |-> n, port |-> gen.fds[n].port, used |-> FALSE] : n \in gen.env}

Begun(gen, k) ==
  [gen EXCEPT !.phase = "init", !.config = k, !.todo = k.ports,
              !.old = LoadOldListenSockets(gen)]

Begins(g) ==
  /\ gens[g].phase = "exec"
  /\ gens' = [gens EXCEPT ![g] = Begun(@, config)]
  /\ UNCHANGED <<config, script, conn>>

(* A configured address is compared with the text "ip", which no old       *)
(* listener has: only a listener for any address is found.                 *)
GetListener(gen, port) ==
  {o \in gen.old : gen.config.ip = "" /\ o.port = port}

Reused(gen, o, port) ==
  [gen EXCEPT !.todo = @ \ {port},
              !.old = (@ \ {o}) \cup {[o EXCEPT !.used = TRUE]},
              !.list = @ \cup {[sock |-> o.sock, port |-> port]}]

ReuseListener(g, port) ==
  /\ gens[g].phase = "init" /\ port \in gens[g].todo
  /\ \E o \in GetListener(gens[g], port) :
       gens' = [gens EXCEPT ![g] = Reused(@, o, port)]
  /\ UNCHANGED <<config, script, conn>>

(* bind() to an address somebody listens on, SO_REUSEADDR or not.          *)
InUse(ip, port) ==
  \E s \in Open(gens) : s.port = port /\ (s.ip = "" \/ ip = "" \/ s.ip = ip)

Created(gen, g, port, fd) ==
  [gen EXCEPT !.todo = @ \ {port},
              !.fds = [n \in DOMAIN @ \cup {fd} |->
                 IF n = fd THEN [by |-> g, ip |-> gen.config.ip, port |-> port] ELSE @[n]],
              !.list = @ \cup {[sock |-> fd, port |-> port]}]

CreateListener(g, port, fd) ==
  /\ gens[g].phase = "init" /\ port \in gens[g].todo
  /\ GetListener(gens[g], port) = {}
  /\ ~InUse(gens[g].config.ip, port)
  /\ fd \notin DOMAIN gens[g].fds
  /\ \A n \in Fds \ DOMAIN gens[g].fds : fd <= n
  /\ gens' = [gens EXCEPT ![g] = Created(@, g, port, fd)]
  /\ UNCHANGED <<config, script, conn>>

BindFails(g, port) ==
  /\ gens[g].phase = "init" /\ port \in gens[g].todo
  /\ GetListener(gens[g], port) = {}
  /\ InUse(gens[g].config.ip, port)
  /\ gens' = [gens EXCEPT ![g] = Ended(@, "failed")]
  /\ conn' = AfterClosing(gens')
  /\ UNCHANGED <<config, script>>

UnusedOld(gen) == {o.sock : o \in {p \in gen.old : ~p.used}}

(* Mutant: what the new configuration does not name stays open.            *)
CloseNone(gen) == gen.fds

(* Mutant: all that was inherited is closed.                               *)
CloseAllOld(gen) ==
  [n \in DOMAIN gen.fds \ {o.sock : o \in gen.old} |-> gen.fds[n]]

CloseUnusedOldListeners(gen) ==
  [n \in DOMAIN gen.fds \ UnusedOld(gen) |-> gen.fds[n]]

Ready(gen) ==
  [gen EXCEPT !.phase = "ready", !.fds = CloseUnusedOldListeners(gen)]

InitDone(g) ==
  /\ gens[g].phase = "init" /\ gens[g].todo = {}
  /\ gens' = [gens EXCEPT ![g] = Ready(@)]
  /\ conn' = AfterClosing(gens')
  /\ UNCHANGED <<config, script>>
----------------------------------------------------------------------------
(* BindDaemonServer and the beginning of MonitorProcess.                   *)
Detaches(g) ==
  /\ gens[g].phase = "ready"
  /\ gens' = [gens EXCEPT ![g].phase = "detached"]
  /\ UNCHANGED <<config, script, conn>>

DaemonForkFails(g) ==
  /\ \/ gens[g].phase = "ready" /\ "daemon" \in ForkFails
     \/ gens[g].phase = "detached" /\ "detached" \in ForkFails
  /\ gens' = [gens EXCEPT ![g] = Ended(@, "failed")]
  /\ conn' = AfterClosing(gens')
  /\ UNCHANGED <<config, script>>

(* The signal handlers are installed, the workers started.                 *)
MasterBegins(g) ==
  /\ gens[g].phase = "detached"
  /\ gens' = [gens EXCEPT ![g].phase = "serving"]
  /\ UNCHANGED <<config, script, conn>>

SaveListenSockets(gen) == {l.sock : l \in gen.list}

Heir(gen) ==
  [Unborn EXCEPT !.phase = "exec", !.fds = gen.fds, !.env = SaveListenSockets(gen)]

(* sig_proc on USR2.  A fork() that fails is passed over.                  *)
SpawnsNext(g, n) ==
  /\ gens[g].phase = "serving" /\ gens[g].usr2
  /\ gens[n].phase = "none" /\ \A m \in 1..(n - 1) : gens[m].phase # "none"
  /\ gens' = [gens EXCEPT ![g].usr2 = FALSE, ![n] = Heir(gens[g])]
  /\ UNCHANGED <<config, script, conn>>

SpawnFails(g) ==
  /\ gens[g].phase = "serving" /\ gens[g].usr2 /\ "sig_proc" \in ForkFails
  /\ gens' = [gens EXCEPT ![g].usr2 = FALSE]
  /\ UNCHANGED <<config, script, conn>>

(* sig_proc on TERM: the workers take no more connections.                 *)
Drains(g) ==
  /\ gens[g].phase = "serving" /\ ~gens[g].usr2 /\ gens[g].term
  /\ gens' = [gens EXCEPT ![g] = [@ EXCEPT !.phase = "draining", !.term = FALSE]]
  /\ UNCHANGED <<config, script, conn>>

(* The last worker has served what it took, the master ends.               *)
Exits(g) ==
  /\ gens[g].phase = "draining"
  /\ \A c \in Conns : ~(conn[c].state = "accepted" /\ conn[c].gen = g)
  /\ gens' = [gens EXCEPT ![g] = Ended(@, "exited")]
  /\ conn' = AfterClosing(gens')
  /\ UNCHANGED <<config, script>>

MasterStep(g) ==
  \/ Begins(g)
  \/ \E port \in Ports :
       \/ ReuseListener(g, port)
       \/ \E fd \in Fds : CreateListener(g, port, fd)
       \/ BindFails(g, port)
  \/ InitDone(g)
  \/ Detaches(g)
  \/ DaemonForkFails(g)
  \/ MasterBegins(g)
  \/ \E n \in Gens : SpawnsNext(g, n)
  \/ SpawnFails(g)
  \/ Drains(g)
  \/ Exits(g)
----------------------------------------------------------------------------
(* hs.do.  start has run the first process; it waits for a master.         *)
HsSeesFirst ==
  /\ script.pc = "start" /\ Masters # {}
  /\ script' = [script EXCEPT !.pc = "idle"]
  /\ UNCHANGED <<config, gens, conn>>

(* Without handlers a signal ends the process it is sent to.               *)
HsSendsUsr2(g) ==
  /\ script.pc = "idle" /\ Masters = {g}
  /\ \E n \in Gens : gens[n].phase = "none"
  /\ Patient => gens[g].phase = "serving"
  /\ gens' = [gens EXCEPT
       ![g] = IF @.phase = "detached" THEN Ended(@, "failed")
              ELSE [@ EXCEPT !.usr2 = TRUE]]
  /\ script' = [pc |-> "usr2", pid |-> g]
  /\ conn' = AfterClosing(gens')
  /\ UNCHANGED config

TermTo(g) == [gens EXCEPT ![g].term = gens[g].phase = "serving"]

(* Mutant: TERM follows USR2 without waiting for another master.           *)
HsDoesNotWait ==
  /\ script.pc = "usr2"
  /\ gens' = TermTo(script.pid)
  /\ script' = [script EXCEPT !.pc = "term"]
  /\ UNCHANGED <<config, conn>>

HsSeesNew ==
  /\ script.pc = "usr2" /\ Masters \ {script.pid} # {}
  /\ gens' = TermTo(script.pid)
  /\ script' = [script EXCEPT !.pc = "term"]
  /\ UNCHANGED <<config, conn>>

HsSeesOldGone ==
  /\ script.pc = "term" /\ script.pid \notin Masters
  /\ script' = [script EXCEPT !.pc = "idle"]
  /\ UNCHANGED <<config, gens, conn>>

(* The operator interrupts a script for which there is nothing to wait.    *)
HsInterrupted ==
  /\ script.pc = "usr2" /\ ~gens[script.pid].usr2
  /\ \A g \in Gens \ {script.pid} : gens[g].phase \in {"none", "failed", "exited"}
  /\ script' = [script EXCEPT !.pc = "idle"]
  /\ UNCHANGED <<config, gens, conn>>

(* The file is read by Begins alone: edits at other times are no different. *)
OperatorEdits(k) ==
  /\ script.pc = "idle"
  /\ config' = k
  /\ UNCHANGED <<gens, script, conn>>
----------------------------------------------------------------------------
(* Peers, from the first start on.                                         *)
Connects(c, port) ==
  /\ conn[c].state = "none" /\ script.pc # "start"
  /\ \/ \E s \in Open(gens) :
          /\ s.port = port
          /\ conn' = [conn EXCEPT ![c].state = "queued", ![c].port = port, ![c].at = s]
     \/ /\ \A s \in Open(gens) : s.port # port
        /\ conn' = [conn EXCEPT ![c].state = "refused", ![c].port = port]
  /\ UNCHANGED <<config, gens, script>>

Listens(g, s) ==
  \E l \in gens[g].list : l.sock \in DOMAIN gens[g].fds /\ gens[g].fds[l.sock] = s

Accepts(g, c) ==
  /\ gens[g].phase = "serving"
  /\ conn[c].state = "queued" /\ Listens(g, conn[c].at)
  /\ conn' = [conn EXCEPT ![c].state = "accepted", ![c].gen = g]
  /\ UNCHANGED <<config, gens, script>>

Answers(c) ==
  /\ conn[c].state = "accepted"
  /\ conn' = [conn EXCEPT ![c].state = "answered"]
  /\ UNCHANGED <<config, gens, script>>

NoSocket == [by |-> 0, ip |-> "", port |-> 0]

Init ==
  /\ config \in Configs
  /\ gens = [g \in Gens |-> IF g = 1 THEN [Unborn EXCEPT !.phase = "exec"] ELSE Unborn]
  /\ script = [pc |-> "start", pid |-> 1]
  /\ conn = [c \in Conns |->
               [state |-> "none", port |-> 0, at |-> NoSocket, gen |-> 0]]

HsStep ==
  \/ HsSeesFirst
  \/ \E g \in Gens : HsSendsUsr2(g)
  \/ HsSeesNew
  \/ HsSeesOldGone
  \/ HsInterrupted

PeerStep ==
  \E c \in Conns :
    \/ \E port \in Ports : Connects(c, port)
    \/ \E g \in Gens : Accepts(g, c)
    \/ Answers(c)

Next ==
  \/ \E g \in Gens : MasterStep(g)
  \/ HsStep
  \/ PeerStep
  \/ \E k \in Configs : OperatorEdits(k)

(* Processes run; a worker that listens accepts, level-triggered, and a    *)
(* connection it took is over when its deadline is.                         *)
Spec ==
  /\ Init /\ [][Next]_vars
  /\ \A g \in Gens : WF_vars(MasterStep(g))
  /\ \A c \in Conns : WF_vars(\E g \in Gens : Accepts(g, c))
  /\ \A c \in Conns : WF_vars(Answers(c))
----------------------------------------------------------------------------
Phases == {"none", "exec", "init", "ready", "detached", "serving", "draining",
           "exited", "failed"}

HandoverTypeOK ==
  /\ config \in Configs
  /\ \A g \in Gens :
       /\ gens[g].phase \in Phases
       /\ gens[g].config \in Configs \cup {Unborn.config}
       /\ DOMAIN gens[g].fds \subseteq Fds
       /\ \A l \in gens[g].list :
            l.sock \in DOMAIN gens[g].fds /\ gens[g].fds[l.sock].port = l.port
  /\ script.pc \in {"start", "idle", "usr2", "term"} /\ script.pid \in Gens
  /\ \A c \in Conns :
       conn[c].state \in {"none", "queued", "refused", "reset", "accepted", "answered"}

(* A generation that has taken over listens on the ports of its            *)
(* configuration and holds no other socket of those before it, through any *)
(* number of changed configurations (CloseUnusedOldListeners).  A socket   *)
(* has the address of the configuration, with one exception: where any     *)
(* address is configured, a socket inherited for that port is taken as it  *)
(* is (Envirment.c:489), and may be bound to a single address still.       *)
HoldsItsOwn ==
  \A g \in Masters :
    /\ {l.port : l \in gens[g].list} = gens[g].config.ports
    /\ {l.sock : l \in gens[g].list} = DOMAIN gens[g].fds
    /\ \A s \in SocketsOf(gens[g]) :
         s.ip = gens[g].config.ip \/ (gens[g].config.ip = "" /\ s.by # g)

(* Peers are served without a break (src/README:14).                       *)
Kept == {port \in Ports : \A k \in Configs : port \in k.ports}

Outside == INSTANCE ListenService WITH
  conn <- [c \in Conns |-> [state |-> conn[c].state, port |-> conn[c].port]]

IsListenService == Outside!Service

(* A generation started with the configuration of the one before it, while *)
(* no fork() fails, does start.                                            *)
SameConfigStarts ==
  \A g \in Gens :
    gens[g].phase = "failed" /\ g > 1 => gens[g].config # gens[g - 1].config
=============================================================================

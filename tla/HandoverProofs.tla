--------------------------- MODULE HandoverProofs ---------------------------
(***************************************************************************)
(* Handover for every set of peers, ports and configurations and any       *)
(* number of generations: a generation that has taken over holds exactly   *)
(* the sockets of its configuration's ports, on the configured address or  *)
(* inherited where any address will do, and what the peers see is the      *)
(* abstract ListenService.                                                 *)
(***************************************************************************)
EXTENDS Handover, TLAPS

(* Any two configured addresses overlap: one of them is any address, or    *)
(* they are the same.                                                      *)
Overlap ==
  \A k1, k2 \in Configs : k1.ip = "" \/ k2.ip = "" \/ k1.ip = k2.ip

(* hs.do is used on masters that handle signals, and the second fork() of  *)
(* BindDaemonServer works.                                                 *)
Careful == Patient /\ "detached" \notin ForkFails

Sockets == [by : Gens, ip : {k.ip : k \in Configs}, port : Ports]

Tables == UNION {[D -> Sockets] : D \in SUBSET Fds}

ConfigsSeen == Configs \cup {Unborn.config}

GenRec ==
  [phase : Phases, config : ConfigsSeen, todo : SUBSET Ports, env : SUBSET Fds,
   old : SUBSET [sock : Fds, port : Ports, used : BOOLEAN],
   fds : Tables, list : SUBSET [sock : Fds, port : Ports],
   usr2 : BOOLEAN, term : BOOLEAN]

States == {"none", "queued", "refused", "reset", "accepted", "answered"}

ConnRec ==
  [state : States, port : Ports \cup {0}, at : Sockets \cup {NoSocket},
   gen : Gens \cup {0}]

TypeInv ==
  /\ config \in Configs
  /\ gens \in [Gens -> GenRec]
  /\ script \in [pc : {"start", "idle", "usr2", "term"}, pid : Gens]
  /\ conn \in [Conns -> ConnRec]

(* What a process has in its hands in each phase of its life.              *)
ListInOrder(gen) ==
  \A l \in gen.list : l.sock \in DOMAIN gen.fds /\ gen.fds[l.sock].port = l.port

OldInOrder(gen) ==
  /\ \A o \in gen.old : o.sock \in DOMAIN gen.fds /\ gen.fds[o.sock].port = o.port
  /\ \A o1, o2 \in gen.old : o1.sock = o2.sock => o1 = o2

Halfway(gen) ==
  /\ gen.config \in Configs
  /\ gen.todo \subseteq gen.config.ports
  /\ \A p \in Ports :
       p \in gen.config.ports \ gen.todo <=> \E l \in gen.list : l.port = p
  /\ \A n \in DOMAIN gen.fds :
       (\E o \in gen.old : o.sock = n) \/ (\E l \in gen.list : l.sock = n)
  /\ \A o \in gen.old : o.used <=> \E l \in gen.list : l.sock = o.sock

Complete(gen) ==
  /\ gen.config \in Configs
  /\ \A p \in Ports : p \in gen.config.ports <=> \E l \in gen.list : l.port = p
  /\ \A n \in DOMAIN gen.fds : \E l \in gen.list : l.sock = n

GenInv(gen) ==
  /\ ListInOrder(gen)
  /\ gen.phase \in {"none", "exited", "failed"} => DOMAIN gen.fds = {}
  /\ gen.phase = "exec" => gen.env = DOMAIN gen.fds /\ gen.list = {}
  /\ gen.phase = "init" => OldInOrder(gen) /\ Halfway(gen)
  /\ gen.phase \in {"ready", "detached", "serving", "draining"} => Complete(gen)

HoldInv == \A g \in Gens : GenInv(gens[g])
----------------------------------------------------------------------------
(* Facts about descriptor tables.                                          *)
LEMMA TableIs ==
  \A f : f \in Tables <=>
    /\ DOMAIN f \subseteq Fds
    /\ f = [n \in DOMAIN f |-> f[n]]
    /\ \A n \in DOMAIN f : f[n] \in Sockets
  BY DEF Tables

LEMMA EmptyTable == Empty \in Tables /\ DOMAIN Empty = {}
<1>1. DOMAIN Empty = {} /\ Empty = [n \in DOMAIN Empty |-> Empty[n]]
  BY DEF Empty
<1> QED BY <1>1, TableIs

LEMMA OpenIs ==
  ASSUME NEW gs, NEW s
  PROVE  s \in Open(gs) <=>
           \E g \in Gens : \E n \in DOMAIN gs[g].fds : gs[g].fds[n] = s
  BY DEF Open, SocketsOf

LEMMA RestrictTable ==
  ASSUME NEW f \in Tables, NEW S
  PROVE  [n \in DOMAIN f \ S |-> f[n]] \in Tables
<1> DEFINE h == [n \in DOMAIN f \ S |-> f[n]]
<1>1. DOMAIN h \subseteq Fds /\ h = [n \in DOMAIN h |-> h[n]]
  BY TableIs
<1>2. \A n \in DOMAIN h : h[n] \in Sockets
  BY TableIs
<1> QED BY <1>1, <1>2, TableIs

LEMMA ExtendTable ==
  ASSUME NEW f \in Tables, NEW fd \in Fds, NEW s \in Sockets
  PROVE  [n \in DOMAIN f \cup {fd} |-> IF n = fd THEN s ELSE f[n]] \in Tables
<1> DEFINE h == [n \in DOMAIN f \cup {fd} |-> IF n = fd THEN s ELSE f[n]]
<1>1. DOMAIN h \subseteq Fds /\ h = [n \in DOMAIN h |-> h[n]]
  BY TableIs
<1>2. \A n \in DOMAIN h : h[n] \in Sockets
  BY TableIs
<1> QED BY <1>1, <1>2, TableIs

LEMMA UnbornIs == Unborn \in GenRec
  BY EmptyTable DEF Unborn, GenRec, Phases, ConfigsSeen

LEMMA EndedIs ==
  ASSUME NEW gen \in GenRec, NEW phase \in Phases
  PROVE  /\ Ended(gen, phase) \in GenRec
         /\ Ended(gen, phase).phase = phase
         /\ DOMAIN Ended(gen, phase).fds = {}
         /\ Ended(gen, phase).list = {}
         /\ Ended(gen, phase).term = gen.term
  BY EmptyTable DEF Ended, GenRec

LEMMA AfterClosingIs ==
  ASSUME conn \in [Conns -> ConnRec], NEW gs
  PROVE  AfterClosing(gs) \in [Conns -> ConnRec]
  BY DEF AfterClosing, ConnRec, States
----------------------------------------------------------------------------
(* What each operation makes of the generation it is about.                *)
LEMMA BegunInOrder ==
  ASSUME NEW gen, NEW r, NEW k \in Configs,
         gen.env = DOMAIN gen.fds, r.phase = "init", r.config = k,
         r.todo = k.ports, r.fds = gen.fds, r.list = {},
         \A o \in r.old : /\ o.sock \in gen.env /\ ~o.used
                           /\ o = [sock |-> o.sock, port |-> gen.fds[o.sock].port,
                                   used |-> FALSE],
         \A n \in gen.env : \E o \in r.old : o.sock = n
  PROVE  GenInv(r)
<1>1. OldInOrder(r)
  <2>1. \A o \in r.old : o.port = gen.fds[o.sock].port
    OBVIOUS
  <2>2. ASSUME NEW o1 \in r.old, NEW o2 \in r.old, o1.sock = o2.sock
        PROVE  o1 = o2
    <3>1. o1 = [sock |-> o1.sock, port |-> gen.fds[o1.sock].port, used |-> FALSE]
      OBVIOUS
    <3>2. o2 = [sock |-> o2.sock, port |-> gen.fds[o2.sock].port, used |-> FALSE]
      OBVIOUS
    <3> QED BY ONLY <3>1, <3>2, <2>2
  <2> QED BY <2>1, <2>2 DEF OldInOrder
<1>2. Halfway(r)
  BY DEF Halfway
<1> QED BY <1>1, <1>2 DEF GenInv, ListInOrder

LEMMA BeginsKeeps ==
  ASSUME NEW gen \in GenRec, GenInv(gen), gen.phase = "exec", NEW k \in Configs,
         NEW r, r = Begun(gen, k)
  PROVE  r \in GenRec /\ r.phase = "init" /\ GenInv(r) /\ r.fds = gen.fds /\ r.term = gen.term
<1> DEFINE old == LoadOldListenSockets(gen)
<1>1. gen.env = DOMAIN gen.fds /\ gen.list = {} /\ gen.fds \in Tables
  BY DEF GenInv, GenRec
<1>2. k.ports \in SUBSET Ports
  BY HandoverAssumption
<1>3. \A n \in gen.env : n \in Fds /\ gen.fds[n].port \in Ports
  BY <1>1, TableIs DEF Sockets
<1>4. old \in SUBSET [sock : Fds, port : Ports, used : BOOLEAN]
  <2>1. \A n \in gen.env : [sock |-> n, port |-> gen.fds[n].port, used |-> FALSE]
                             \in [sock : Fds, port : Ports, used : BOOLEAN]
    BY ONLY <1>3
  <2> QED BY <2>1 DEF LoadOldListenSockets
<1>5. /\ r \in GenRec
      /\ r.phase = "init" /\ r.config = k /\ r.todo = k.ports
      /\ r.old = old /\ r.fds = gen.fds /\ r.list = gen.list /\ r.term = gen.term
  <2> HIDE DEF old
  <2>1. r = [gen EXCEPT !.phase = "init", !.config = k, !.todo = k.ports,
                        !.old = old]
    BY DEF old, Begun
  <2> QED BY ONLY <1>2, <1>4, <2>1, gen \in GenRec, k \in Configs
          DEF GenRec, Phases, ConfigsSeen
<1>6. \A o \in r.old : /\ o.sock \in gen.env /\ ~o.used
                        /\ o = [sock |-> o.sock, port |-> gen.fds[o.sock].port,
                                used |-> FALSE]
  BY <1>5 DEF LoadOldListenSockets
<1>7. \A n \in gen.env : \E o \in r.old : o.sock = n
  <2> TAKE n \in gen.env
  <2>1. [sock |-> n, port |-> gen.fds[n].port, used |-> FALSE] \in r.old
    BY <1>5 DEF LoadOldListenSockets
  <2> QED BY ONLY <2>1
<1>8. GenInv(r)
  BY ONLY <1>1, <1>5, <1>6, <1>7, k \in Configs, BegunInOrder
<1> QED BY <1>5, <1>8

LEMMA ReusedInOrder ==
  ASSUME NEW gen, GenInv(gen), gen.phase = "init",
         NEW port \in gen.todo \cap Ports,
         NEW o \in gen.old, o.port = port,
         NEW u, u.sock = o.sock, u.port = o.port, u.used = TRUE,
         NEW l, l.sock = o.sock, l.port = port,
         NEW r, r.phase = "init", r.config = gen.config,
         r.todo = gen.todo \ {port}, r.old = (gen.old \ {o}) \cup {u},
         r.fds = gen.fds, r.list = gen.list \cup {l}
  PROVE  GenInv(r)
<1>1. OldInOrder(gen) /\ Halfway(gen) /\ ListInOrder(gen)
  BY DEF GenInv
<1>2. OldInOrder(r)
  BY <1>1 DEF OldInOrder
<1>3. ListInOrder(r)
  BY <1>1 DEF OldInOrder, ListInOrder
<1>4. Halfway(r)
  <2>1. r.config \in Configs /\ r.todo \subseteq r.config.ports
    BY <1>1 DEF Halfway
  <2>2. \A p \in Ports :
          p \in r.config.ports \ r.todo <=> \E k \in r.list : k.port = p
    <3>1. \A p \in Ports : (\E k \in r.list : k.port = p)
                           <=> p = port \/ (\E k \in gen.list : k.port = p)
      OBVIOUS
    <3>2. port \in gen.config.ports
      BY <1>1 DEF Halfway
    <3> QED BY <1>1, <3>1, <3>2 DEF Halfway
  <2>3. \A n \in DOMAIN r.fds :
          (\E k \in r.old : k.sock = n) \/ (\E k \in r.list : k.sock = n)
    <3>1. \A k \in gen.old : \E m \in r.old : m.sock = k.sock
      OBVIOUS
    <3> QED BY <1>1, <3>1 DEF Halfway
  <2>4. \A k \in r.old : k.used <=> \E m \in r.list : m.sock = k.sock
    <3>1. ASSUME NEW k \in gen.old \ {o}
          PROVE  k.used <=> \E m \in r.list : m.sock = k.sock
      <4>1. k.sock # l.sock
        BY <1>1 DEF OldInOrder
      <4> QED BY <1>1, <4>1 DEF Halfway
    <3>2. \E m \in r.list : m.sock = u.sock
      OBVIOUS
    <3> QED BY <3>1, <3>2
  <2> QED BY <2>1, <2>2, <2>3, <2>4 DEF Halfway
<1> QED BY <1>2, <1>3, <1>4 DEF GenInv

LEMMA ReuseKeeps ==
  ASSUME NEW gen \in GenRec, GenInv(gen), gen.phase = "init",
         NEW port \in gen.todo, NEW o \in GetListener(gen, port),
         NEW r, r = Reused(gen, o, port)
  PROVE  r \in GenRec /\ r.phase = "init" /\ GenInv(r) /\ r.fds = gen.fds /\ r.term = gen.term
<1> DEFINE u == [o EXCEPT !.used = TRUE]
           l == [sock |-> o.sock, port |-> port]
           todo == gen.todo \ {port}
           old == (gen.old \ {o}) \cup {u}
           list == gen.list \cup {l}
<1>1. o \in gen.old /\ o.port = port
  BY DEF GetListener
<1>2. /\ o \in [sock : Fds, port : Ports, used : BOOLEAN]
      /\ u \in [sock : Fds, port : Ports, used : BOOLEAN]
      /\ u.sock = o.sock /\ u.port = o.port /\ u.used = TRUE
      /\ port \in Ports /\ l \in [sock : Fds, port : Ports]
  BY <1>1 DEF GenRec
<1>3. /\ todo \in SUBSET Ports
      /\ old \in SUBSET [sock : Fds, port : Ports, used : BOOLEAN]
      /\ list \in SUBSET [sock : Fds, port : Ports]
  BY <1>2 DEF GenRec
<1>4. l.sock = o.sock /\ l.port = port
  OBVIOUS
<1>5. r = [gen EXCEPT !.todo = todo, !.old = old, !.list = list]
  BY DEF Reused
<1>6. r.old = (gen.old \ {o}) \cup {u} /\ r.list = gen.list \cup {l}
      /\ r.todo = gen.todo \ {port} /\ r \in GenRec /\ r.phase = "init"
      /\ r.config = gen.config /\ r.fds = gen.fds /\ r.term = gen.term
  <2> HIDE DEF u, l
  <2>1. todo = gen.todo \ {port} /\ old = (gen.old \ {o}) \cup {u}
        /\ list = gen.list \cup {l}
    OBVIOUS
  <2> HIDE DEF todo, old, list
  <2>2. /\ r \in GenRec /\ r.phase = gen.phase /\ r.config = gen.config
        /\ r.todo = todo /\ r.old = old /\ r.fds = gen.fds /\ r.list = list
        /\ r.term = gen.term
    BY ONLY <1>3, <1>5, gen \in GenRec DEF GenRec
  <2> QED BY ONLY <2>1, <2>2, gen.phase = "init"
<1>7. GenInv(r)
  <2> HIDE DEF u, l
  <2> QED BY ONLY <1>1, <1>2, <1>4, <1>6, GenInv(gen), gen.phase = "init",
                  port \in gen.todo, ReusedInOrder
<1> QED BY <1>6, <1>7

LEMMA CreatedInOrder ==
  ASSUME NEW gen, GenInv(gen), gen.phase = "init",
         NEW port \in gen.todo \cap Ports, NEW fd, fd \notin DOMAIN gen.fds,
         NEW l, l.sock = fd, l.port = port,
         NEW r, r.phase = "init", r.config = gen.config,
         r.todo = gen.todo \ {port}, r.old = gen.old, r.list = gen.list \cup {l},
         DOMAIN r.fds = DOMAIN gen.fds \cup {fd},
         \A n \in DOMAIN gen.fds : r.fds[n] = gen.fds[n],
         r.fds[fd].port = port
  PROVE  GenInv(r)
<1>1. OldInOrder(gen) /\ Halfway(gen) /\ ListInOrder(gen)
  BY DEF GenInv
<1>2. OldInOrder(r)
  BY <1>1 DEF OldInOrder
<1>3. ListInOrder(r)
  BY <1>1 DEF ListInOrder
<1>4. Halfway(r)
  <2>1. r.config \in Configs /\ r.todo \subseteq r.config.ports
    BY <1>1 DEF Halfway
  <2>2. \A p \in Ports :
          p \in r.config.ports \ r.todo <=> \E k \in r.list : k.port = p
    <3>1. \A p \in Ports : (\E k \in r.list : k.port = p)
                           <=> p = port \/ (\E k \in gen.list : k.port = p)
      OBVIOUS
    <3>2. port \in gen.config.ports
      BY <1>1 DEF Halfway
    <3> QED BY <1>1, <3>1, <3>2 DEF Halfway
  <2>3. \A n \in DOMAIN r.fds :
          (\E k \in r.old : k.sock = n) \/ (\E k \in r.list : k.sock = n)
    BY <1>1 DEF Halfway
  <2>4. \A k \in r.old : k.used <=> \E m \in r.list : m.sock = k.sock
    <3>1. \A k \in r.old : k.sock # l.sock
      BY <1>1 DEF OldInOrder
    <3> QED BY <1>1, <3>1 DEF Halfway
  <2> QED BY <2>1, <2>2, <2>3, <2>4 DEF Halfway
<1> QED BY <1>2, <1>3, <1>4 DEF GenInv

LEMMA CreateKeeps ==
  ASSUME NEW gen \in GenRec, GenInv(gen), gen.phase = "init",
         NEW port \in gen.todo, NEW fd \in Fds \ DOMAIN gen.fds, NEW g \in Gens,
         NEW r, r = Created(gen, g, port, fd)
  PROVE  /\ r \in GenRec /\ r.phase = "init" /\ GenInv(r) /\ r.term = gen.term
         /\ DOMAIN r.fds = DOMAIN gen.fds \cup {fd}
         /\ \A n \in DOMAIN gen.fds : r.fds[n] = gen.fds[n]
         /\ r.fds[fd] = [by |-> g, ip |-> gen.config.ip, port |-> port]
<1> DEFINE s == [by |-> g, ip |-> gen.config.ip, port |-> port]
           f == [n \in DOMAIN gen.fds \cup {fd} |-> IF n = fd THEN s ELSE gen.fds[n]]
           l == [sock |-> fd, port |-> port]
           todo == gen.todo \ {port}
           list == gen.list \cup {l}
<1>1. gen.config \in Configs
  BY DEF GenInv, Halfway
<1>2. port \in Ports /\ gen.fds \in Tables /\ s \in Sockets
  BY <1>1 DEF GenRec, Sockets
<1>3. f \in Tables
  BY <1>2, ExtendTable
<1>4. todo \in SUBSET Ports /\ list \in SUBSET [sock : Fds, port : Ports]
  BY <1>2 DEF GenRec
<1>5. r = [gen EXCEPT !.todo = todo, !.fds = f, !.list = list]
  BY DEF Created
<1>6. /\ r \in GenRec /\ r.phase = gen.phase /\ r.config = gen.config
      /\ r.todo = todo /\ r.old = gen.old /\ r.fds = f /\ r.list = list
      /\ r.term = gen.term
  <2> HIDE DEF todo, f, list
  <2> HIDE DEF s, l
  <2> QED BY ONLY <1>3, <1>4, <1>5, gen \in GenRec DEF GenRec
<1>7. /\ DOMAIN f = DOMAIN gen.fds \cup {fd}
      /\ \A n \in DOMAIN gen.fds : f[n] = gen.fds[n]
      /\ f[fd] = s /\ s.port = port
  OBVIOUS
<1>8. l.sock = fd /\ l.port = port /\ fd \notin DOMAIN gen.fds
  OBVIOUS
<1>9. GenInv(r)
  <2> HIDE DEF s, f, l
  <2> QED BY ONLY <1>2, <1>6, <1>7, <1>8, GenInv(gen), gen.phase = "init",
                  port \in gen.todo, CreatedInOrder
<1> QED BY <1>6, <1>7, <1>9

LEMMA CloseKeeps ==
  ASSUME NEW gen \in GenRec, GenInv(gen), gen.phase = "init", gen.todo = {},
         NEW r, r = Ready(gen)
  PROVE  /\ r \in GenRec /\ r.phase = "ready" /\ GenInv(r) /\ r.term = gen.term
         /\ DOMAIN r.fds \subseteq DOMAIN gen.fds
         /\ \A n \in DOMAIN r.fds : r.fds[n] = gen.fds[n]
<1> DEFINE f == [n \in DOMAIN gen.fds \ UnusedOld(gen) |-> gen.fds[n]]
<1>1. OldInOrder(gen) /\ Halfway(gen) /\ ListInOrder(gen)
  BY DEF GenInv
<1>2. f \in Tables
  BY RestrictTable DEF GenRec
<1>3. /\ r.phase = "ready" /\ r.config = gen.config /\ r.fds = f
      /\ r.list = gen.list /\ r.term = gen.term
  BY DEF GenRec, Ready, CloseUnusedOldListeners
<1>4. r \in GenRec
  BY <1>2 DEF GenRec, Phases, Ready, CloseUnusedOldListeners
<1>5. \A l \in gen.list : l.sock \notin UnusedOld(gen)
  BY <1>1 DEF UnusedOld, Halfway
<1>6. ListInOrder(r)
  BY <1>1, <1>3, <1>5 DEF ListInOrder
<1>7. \A n \in DOMAIN gen.fds \ UnusedOld(gen) : \E l \in gen.list : l.sock = n
  BY <1>1 DEF UnusedOld, Halfway
<1>8. Complete(r)
  BY <1>1, <1>3, <1>7 DEF Complete, Halfway
<1> QED BY <1>3, <1>4, <1>6, <1>8 DEF GenInv

LEMMA SpawnKeeps ==
  ASSUME NEW gen \in GenRec, GenInv(gen), gen.phase = "serving",
         NEW r, r = Heir(gen)
  PROVE  r \in GenRec /\ r.phase = "exec" /\ GenInv(r) /\ r.fds = gen.fds /\ ~r.term
<1>1. SaveListenSockets(gen) \in SUBSET Fds
  BY DEF SaveListenSockets, GenRec
<1>2. SaveListenSockets(gen) = DOMAIN gen.fds
  BY DEF SaveListenSockets, GenInv, Complete, ListInOrder
<1>3. /\ r.phase = "exec" /\ r.env = SaveListenSockets(gen) /\ r.fds = gen.fds
      /\ r.list = {} /\ r.term = FALSE
  BY DEF Unborn, Heir
<1>4. r \in GenRec
  BY <1>1, UnbornIs DEF GenRec, Phases, Heir
<1> QED BY <1>2, <1>3, <1>4 DEF GenInv, ListInOrder

LEMMA EndedKeeps ==
  ASSUME NEW gen \in GenRec, NEW phase \in {"exited", "failed"}
  PROVE  Ended(gen, phase) \in GenRec /\ GenInv(Ended(gen, phase))
  BY EndedIs DEF GenInv, ListInOrder, Phases

(* The life after InitServerEnvirment: only phase and signals change.      *)
LEMMA PhaseKeeps ==
  ASSUME NEW gen, GenInv(gen),
         gen.phase \in {"ready", "detached", "serving", "draining"},
         NEW r, r.phase \in {"ready", "detached", "serving", "draining"},
         r.config = gen.config, r.fds = gen.fds, r.list = gen.list
  PROVE  GenInv(r)
  BY DEF GenInv, ListInOrder, Complete
----------------------------------------------------------------------------
(* Sockets that are open after a generation has changed.                   *)
LEMMA SameOpen ==
  ASSUME NEW gs, NEW hs, \A h \in Gens : hs[h].fds = gs[h].fds
  PROVE  Open(hs) = Open(gs)
<1>1. \A h \in Gens : hs[h].fds = gs[h].fds
  OBVIOUS
<1>2. ASSUME NEW s
      PROVE  s \in Open(hs) <=> s \in Open(gs)
  <2>1. s \in Open(hs) <=> \E h \in Gens : \E n \in DOMAIN hs[h].fds : hs[h].fds[n] = s
    BY ONLY OpenIs
  <2>2. s \in Open(gs) <=> \E h \in Gens : \E n \in DOMAIN gs[h].fds : gs[h].fds[n] = s
    BY ONLY OpenIs
  <2> QED BY ONLY <1>1, <2>1, <2>2
<1> QED BY <1>2

LEMMA LessOpen ==
  ASSUME NEW gs, DOMAIN gs = Gens, NEW g \in Gens, NEW r,
         DOMAIN r.fds \subseteq DOMAIN gs[g].fds,
         \A n \in DOMAIN r.fds : r.fds[n] = gs[g].fds[n],
         NEW hs, hs = [gs EXCEPT ![g] = r]
  PROVE  Open(hs) \subseteq Open(gs)
<1>1. \A h \in Gens : /\ DOMAIN hs[h].fds \subseteq DOMAIN gs[h].fds
                      /\ \A n \in DOMAIN hs[h].fds : hs[h].fds[n] = gs[h].fds[n]
  OBVIOUS
<1>2. ASSUME NEW s \in Open(hs)
      PROVE  s \in Open(gs)
  <2>1. PICK h \in Gens : \E n \in DOMAIN hs[h].fds : hs[h].fds[n] = s
    BY ONLY <1>2, OpenIs
  <2>2. \E n \in DOMAIN gs[h].fds : gs[h].fds[n] = s
    BY <1>1, <2>1
  <2> QED BY ONLY <2>2, OpenIs
<1> QED BY <1>2

LEMMA MoreOpen ==
  ASSUME DOMAIN gens = Gens, NEW g \in Gens, NEW r, NEW fd,
         DOMAIN r.fds = DOMAIN gens[g].fds \cup {fd}, fd \notin DOMAIN gens[g].fds,
         \A n \in DOMAIN gens[g].fds : r.fds[n] = gens[g].fds[n],
         gens' = [gens EXCEPT ![g] = r]
  PROVE  Open(gens') = Open(gens) \cup {r.fds[fd]}
<1>1. gens'[g] = r /\ \A h \in Gens \ {g} : gens'[h] = gens[h]
  OBVIOUS
<1>2. ASSUME NEW s \in Open(gens')
      PROVE  s \in Open(gens) \cup {r.fds[fd]}
  <2>1. PICK h \in Gens : \E n \in DOMAIN gens'[h].fds : gens'[h].fds[n] = s
    BY ONLY <1>2, OpenIs
  <2>2. CASE h = g
    <3>1. s = r.fds[fd] \/ \E n \in DOMAIN gens[g].fds : gens[g].fds[n] = s
      BY <1>1, <2>1, <2>2
    <3>2. s = r.fds[fd] \/ s \in Open(gens)
      BY ONLY <3>1, g \in Gens, OpenIs
    <3> QED BY <3>2
  <2>3. CASE h # g
    <3>1. \E n \in DOMAIN gens[h].fds : gens[h].fds[n] = s
      BY <1>1, <2>1, <2>3
    <3>2. s \in Open(gens)
      BY ONLY <3>1, OpenIs
    <3> QED BY <3>2
  <2> QED BY <2>2, <2>3
<1>3. ASSUME NEW s \in Open(gens)
      PROVE  s \in Open(gens')
  <2>1. PICK h \in Gens : \E n \in DOMAIN gens[h].fds : gens[h].fds[n] = s
    BY ONLY <1>3, OpenIs
  <2>2. \E n \in DOMAIN gens'[h].fds : gens'[h].fds[n] = s
    BY <1>1, <2>1
  <2> QED BY ONLY <2>2, OpenIs
<1>4. r.fds[fd] \in Open(gens')
  <2>1. \E n \in DOMAIN gens'[g].fds : gens'[g].fds[n] = r.fds[fd]
    BY <1>1
  <2> QED BY ONLY <2>1, g \in Gens, OpenIs
<1> QED BY <1>2, <1>3, <1>4

LEMMA OpenAreSockets ==
  ASSUME TypeInv
  PROVE  Open(gens) \subseteq Sockets
  BY OpenIs, TableIs DEF TypeInv, GenRec
----------------------------------------------------------------------------
(* The strengthening.  One socket to a port is open at a time.  TERM goes  *)
(* only to the generation the script was started on, and only when another *)
(* one stands that no script is after.                                     *)
OneSocket == \A s1, s2 \in Open(gens) : s1.port = s2.port => s1 = s2

Standing(g) ==
  /\ gens[g].phase \in {"detached", "serving"}
  /\ ~(script.pc = "term" /\ script.pid = g)

StandInv ==
  /\ \A g \in Gens :
       /\ gens[g].term => gens[g].phase = "serving"
       /\ gens[g].term \/ gens[g].phase = "draining" =>
            script.pc = "term" /\ script.pid = g
  /\ script.pc # "start" => \E g \in Gens : Standing(g)

WaitInv ==
  \A c \in Conns :
    /\ conn[c].state = "queued" =>
         conn[c].at \in Open(gens) /\ conn[c].at.port = conn[c].port
    /\ conn[c].state # "none" => script.pc # "start"

IInv == TypeInv /\ HoldInv /\ OneSocket /\ StandInv /\ WaitInv

LEMMA InitIInv == Init => IInv
<1> SUFFICES ASSUME Init PROVE IInv
  OBVIOUS
<1> USE HandoverAssumption
<1> DEFINE first == [Unborn EXCEPT !.phase = "exec"]
<1>1. /\ Unborn.phase = "none" /\ DOMAIN Unborn.fds = {} /\ Unborn.list = {}
      /\ Unborn.env = {} /\ ~Unborn.term
      /\ first \in GenRec /\ first.phase = "exec" /\ DOMAIN first.fds = {}
      /\ first.list = {} /\ first.env = {} /\ ~first.term
  BY EmptyTable, UnbornIs DEF Unborn, GenRec, Phases
<1>2. \A g \in Gens : gens[g] = IF g = 1 THEN first ELSE Unborn
  BY DEF Init
<1>3. 1 \in Gens
  BY DEF Gens
<1>4. TypeInv
  <2>1. gens \in [Gens -> GenRec]
    BY <1>1, UnbornIs DEF Init
  <2>2. conn \in [Conns -> ConnRec]
    BY DEF Init, ConnRec, States
  <2> QED BY <1>3, <2>1, <2>2 DEF TypeInv, Init
<1>5. HoldInv
  BY <1>1, <1>2 DEF HoldInv, GenInv, ListInOrder
<1>6. OneSocket
  <2>1. \A g \in Gens : DOMAIN gens[g].fds = {}
    BY <1>1, <1>2
  <2>2. ASSUME NEW s \in Open(gens)
        PROVE  FALSE
    <3>1. \E g \in Gens : \E n \in DOMAIN gens[g].fds : gens[g].fds[n] = s
      BY ONLY <2>2, OpenIs
    <3> QED BY <2>1, <3>1
  <2> QED BY <2>2 DEF OneSocket
<1>7. StandInv
  BY <1>1, <1>2 DEF StandInv, Init
<1>8. WaitInv
  BY DEF WaitInv, Init
<1> QED BY <1>4, <1>5, <1>6, <1>7, <1>8 DEF IInv
----------------------------------------------------------------------------
(* Parts of a step that many actions share.                                *)
LEMMA SocketLess ==
  ASSUME OneSocket, Open(gens') \subseteq Open(gens)
  PROVE  OneSocket'
  BY DEF OneSocket

LEMMA WaitClosing ==
  ASSUME TypeInv, WaitInv, conn' = AfterClosing(gens'), script' = script
  PROVE  WaitInv' /\ conn' \in [Conns -> ConnRec]
<1>1. conn' \in [Conns -> ConnRec]
  BY AfterClosingIs DEF TypeInv
<1>2. ASSUME NEW c \in Conns
      PROVE  /\ conn'[c].state = "queued" => conn'[c] = conn[c] /\ conn[c].at \in Open(gens')
             /\ conn'[c].state # "none" => conn[c].state # "none"
  BY DEF AfterClosing, TypeInv, ConnRec
<1> QED BY <1>1, <1>2 DEF WaitInv

LEMMA WaitOpen ==
  ASSUME WaitInv, conn' = conn, script' = script, Open(gens) \subseteq Open(gens')
  PROVE  WaitInv'
  BY DEF WaitInv

LEMMA QuietStep ==
  ASSUME TypeInv, HoldInv, StandInv, config' = config, script' = script,
         NEW g \in Gens, NEW r \in GenRec, GenInv(r), gens' = [gens EXCEPT ![g] = r],
         r.term = gens[g].term,
         gens[g].phase = "serving" => r.phase = "serving",
         r.phase = "draining" => gens[g].phase = "draining",
         gens[g].phase = "detached" => r.phase \in {"detached", "serving"}
  PROVE  /\ gens' \in [Gens -> GenRec] /\ DOMAIN gens = Gens
         /\ HoldInv' /\ StandInv'
<1>1. gens' \in [Gens -> GenRec] /\ DOMAIN gens = Gens
  BY DEF TypeInv
<1>2. gens'[g] = r /\ \A h \in Gens \ {g} : gens'[h] = gens[h]
  BY <1>1
<1>3. HoldInv'
  BY <1>2 DEF HoldInv, GenInv, ListInOrder, OldInOrder, Halfway, Complete
<1>4. \A h \in Gens : Standing(h) => Standing(h)'
  BY <1>2 DEF Standing
<1>5. StandInv'
  BY <1>2, <1>4 DEF StandInv
<1> QED BY <1>1, <1>3, <1>5

LEMMA QuietSameOpen ==
  ASSUME IInv, config' = config, script' = script, conn' = conn,
         NEW g \in Gens, NEW r \in GenRec, GenInv(r), gens' = [gens EXCEPT ![g] = r],
         r.term = gens[g].term, r.fds = gens[g].fds,
         gens[g].phase = "serving" => r.phase = "serving",
         r.phase = "draining" => gens[g].phase = "draining",
         gens[g].phase = "detached" => r.phase \in {"detached", "serving"}
  PROVE  IInv' /\ Open(gens') = Open(gens)
<1>1. gens' \in [Gens -> GenRec] /\ DOMAIN gens = Gens /\ HoldInv' /\ StandInv'
  BY QuietStep DEF IInv
<1>2. Open(gens') = Open(gens)
  <2>1. \A h \in Gens : gens'[h].fds = gens[h].fds
    BY <1>1
  <2> QED BY ONLY <2>1, SameOpen
<1>3. OneSocket' /\ WaitInv'
  BY <1>2, SocketLess, WaitOpen DEF IInv
<1>4. TypeInv'
  BY <1>1 DEF IInv, TypeInv
<1> QED BY <1>1, <1>2, <1>3, <1>4 DEF IInv

LEMMA QuietClosing ==
  ASSUME IInv, config' = config, script' = script, conn' = AfterClosing(gens'),
         NEW g \in Gens, NEW r \in GenRec, GenInv(r), gens' = [gens EXCEPT ![g] = r],
         r.term = gens[g].term,
         DOMAIN r.fds \subseteq DOMAIN gens[g].fds,
         \A n \in DOMAIN r.fds : r.fds[n] = gens[g].fds[n],
         gens[g].phase \notin {"detached", "serving"}, r.phase # "draining"
  PROVE  IInv' /\ Open(gens') \subseteq Open(gens)
<1>1. gens' \in [Gens -> GenRec] /\ DOMAIN gens = Gens /\ HoldInv' /\ StandInv'
  BY QuietStep DEF IInv
<1>2. Open(gens') \subseteq Open(gens)
  BY ONLY <1>1, g \in Gens, DOMAIN r.fds \subseteq DOMAIN gens[g].fds,
          \A n \in DOMAIN r.fds : r.fds[n] = gens[g].fds[n],
          gens' = [gens EXCEPT ![g] = r], LessOpen
<1>3. OneSocket' /\ WaitInv' /\ conn' \in [Conns -> ConnRec]
  BY <1>2, SocketLess, WaitClosing DEF IInv
<1>4. TypeInv'
  BY <1>1, <1>3 DEF IInv, TypeInv
<1> QED BY <1>1, <1>2, <1>3, <1>4 DEF IInv

LEMMA EndedQuiet ==
  ASSUME IInv, config' = config, script' = script, conn' = AfterClosing(gens'),
         NEW g \in Gens, NEW phase \in {"exited", "failed"},
         gens[g].phase \notin {"detached", "serving"},
         gens' = [gens EXCEPT ![g] = Ended(gens[g], phase)]
  PROVE  IInv' /\ Open(gens') \subseteq Open(gens)
<1> DEFINE r == Ended(gens[g], phase)
<1>1. gens[g] \in GenRec /\ phase \in Phases
  BY DEF IInv, TypeInv, Phases
<1>2. /\ r \in GenRec /\ r.phase = phase /\ DOMAIN r.fds = {}
      /\ r.term = gens[g].term /\ GenInv(r)
  BY <1>1, EndedIs, EndedKeeps
<1> HIDE DEF r
<1> QED BY <1>2, QuietClosing DEF r
----------------------------------------------------------------------------
(* The steps of a master one by one.                                       *)
LEMMA GenFacts ==
  ASSUME IInv, NEW g \in Gens
  PROVE  gens[g] \in GenRec /\ GenInv(gens[g]) /\ DOMAIN gens = Gens
  BY DEF IInv, TypeInv, HoldInv

LEMMA BeginsStep ==
  ASSUME IInv, NEW g \in Gens, Begins(g)
  PROVE  IInv' /\ Open(gens') = Open(gens)
<1>1. PICK r : r = Begun(gens[g], config)
  OBVIOUS
<1>2. /\ gens' = [gens EXCEPT ![g] = r] /\ gens[g].phase = "exec"
      /\ config' = config /\ script' = script /\ conn' = conn
  BY <1>1 DEF Begins
<1>3. config \in Configs
  BY DEF IInv, TypeInv
<1>4. gens[g] \in GenRec /\ GenInv(gens[g])
  BY GenFacts
<1>5. /\ r \in GenRec /\ r.phase = "init" /\ GenInv(r)
      /\ r.fds = gens[g].fds /\ r.term = gens[g].term
  BY ONLY <1>1, <1>2, <1>3, <1>4, BeginsKeeps
<1> QED BY ONLY <1>2, <1>5, IInv, g \in Gens, QuietSameOpen

LEMMA ReuseStep ==
  ASSUME IInv, NEW g \in Gens, NEW port, ReuseListener(g, port)
  PROVE  IInv' /\ Open(gens') = Open(gens)
<1>1. PICK o \in GetListener(gens[g], port) :
        gens' = [gens EXCEPT ![g] = Reused(gens[g], o, port)]
  BY DEF ReuseListener
<1>2. PICK r : r = Reused(gens[g], o, port)
  OBVIOUS
<1>3. /\ gens[g].phase = "init" /\ port \in gens[g].todo
      /\ gens' = [gens EXCEPT ![g] = r]
      /\ config' = config /\ script' = script /\ conn' = conn
  BY <1>1, <1>2 DEF ReuseListener
<1>4. gens[g] \in GenRec /\ GenInv(gens[g])
  BY GenFacts
<1>5. /\ r \in GenRec /\ r.phase = "init" /\ GenInv(r)
      /\ r.fds = gens[g].fds /\ r.term = gens[g].term
  BY ONLY <1>2, <1>3, <1>4, o \in GetListener(gens[g], port), ReuseKeeps
<1> QED BY ONLY <1>3, <1>5, IInv, g \in Gens, QuietSameOpen

LEMMA CreateStep ==
  ASSUME IInv, Overlap, NEW g \in Gens, NEW port, NEW fd \in Fds,
         CreateListener(g, port, fd)
  PROVE  IInv' /\ Open(gens) \subseteq Open(gens')
<1>1. PICK r, s : /\ r = Created(gens[g], g, port, fd)
                  /\ s = [by |-> g, ip |-> gens[g].config.ip, port |-> port]
  OBVIOUS
<1>2. /\ gens[g].phase = "init" /\ port \in gens[g].todo
      /\ fd \in Fds \ DOMAIN gens[g].fds /\ ~InUse(gens[g].config.ip, port)
      /\ gens' = [gens EXCEPT ![g] = r]
      /\ config' = config /\ script' = script /\ conn' = conn
  BY <1>1 DEF CreateListener
<1>3. gens[g] \in GenRec /\ GenInv(gens[g])
  BY GenFacts
<1>4. /\ r \in GenRec /\ r.phase = "init" /\ GenInv(r) /\ r.term = gens[g].term
      /\ DOMAIN r.fds = DOMAIN gens[g].fds \cup {fd}
      /\ \A n \in DOMAIN gens[g].fds : r.fds[n] = gens[g].fds[n]
      /\ r.fds[fd] = s
  BY ONLY <1>1, <1>2, <1>3, g \in Gens, CreateKeeps
<1>6. gens' \in [Gens -> GenRec] /\ DOMAIN gens = Gens /\ HoldInv' /\ StandInv'
  <2>1. TypeInv /\ HoldInv /\ StandInv
    BY DEF IInv
  <2> QED BY ONLY <1>2, <1>4, <2>1, g \in Gens, QuietStep
<1>7. Open(gens') = Open(gens) \cup {s}
  BY ONLY <1>2, <1>4, <1>6, g \in Gens, MoreOpen
<1>8. OneSocket'
  <2>1. gens[g].config \in Configs
    BY <1>2, <1>3 DEF GenInv, Halfway
  <2>2. \A t \in Open(gens) : t.port # port
    <3> TAKE t \in Open(gens)
    <3>1. t.ip \in {k.ip : k \in Configs}
      BY OpenAreSockets DEF Sockets, IInv
    <3>2. PICK k \in Configs : t.ip = k.ip
      BY <3>1
    <3>3. t.ip = "" \/ gens[g].config.ip = "" \/ t.ip = gens[g].config.ip
      BY <2>1, <3>2 DEF Overlap
    <3> QED BY <1>2, <3>3 DEF InUse
  <2>3. s.port = port
    BY <1>1
  <2> QED BY <1>7, <2>2, <2>3 DEF OneSocket, IInv
<1>9. WaitInv'
  BY <1>2, <1>7, WaitOpen DEF IInv
<1>10. TypeInv'
  BY <1>2, <1>6 DEF IInv, TypeInv
<1> QED BY <1>6, <1>7, <1>8, <1>9, <1>10 DEF IInv

LEMMA InitDoneStep ==
  ASSUME IInv, NEW g \in Gens, InitDone(g)
  PROVE  IInv' /\ Open(gens') \subseteq Open(gens)
<1>1. PICK r : r = Ready(gens[g])
  OBVIOUS
<1>2. /\ gens[g].phase = "init" /\ gens[g].todo = {}
      /\ gens' = [gens EXCEPT ![g] = r]
      /\ config' = config /\ script' = script /\ conn' = AfterClosing(gens')
  BY <1>1 DEF InitDone
<1>3. gens[g] \in GenRec /\ GenInv(gens[g])
  BY GenFacts
<1>4. /\ r \in GenRec /\ r.phase = "ready" /\ GenInv(r) /\ r.term = gens[g].term
      /\ DOMAIN r.fds \subseteq DOMAIN gens[g].fds
      /\ \A n \in DOMAIN r.fds : r.fds[n] = gens[g].fds[n]
  BY ONLY <1>1, <1>2, <1>3, CloseKeeps
<1> QED BY ONLY <1>2, <1>4, IInv, g \in Gens, QuietClosing

LEMMA PhaseStep ==
  ASSUME IInv, NEW g \in Gens,
         Detaches(g) \/ MasterBegins(g) \/ SpawnFails(g)
  PROVE  IInv' /\ Open(gens') = Open(gens)
<1>1. /\ gens[g] \in GenRec /\ GenInv(gens[g]) /\ DOMAIN gens = Gens
      /\ gens[g].usr2 \in BOOLEAN /\ gens[g].term \in BOOLEAN
  BY GenFacts DEF GenRec
<1>2. PICK phase \in {"ready", "detached", "serving"}, usr2 \in BOOLEAN :
        /\ gens' = [gens EXCEPT ![g].phase = phase, ![g].usr2 = usr2]
        /\ gens[g].phase \in {"ready", "detached", "serving"}
        /\ gens[g].phase = "serving" => phase = "serving"
        /\ gens[g].phase = "detached" => phase \in {"detached", "serving"}
        /\ config' = config /\ script' = script /\ conn' = conn
  <2>1. CASE Detaches(g)
    <3>1. gens' = [gens EXCEPT ![g].phase = "detached", ![g].usr2 = gens[g].usr2]
      BY <1>1, <2>1 DEF Detaches, GenRec
    <3> QED BY <1>1, <2>1, <3>1 DEF Detaches
  <2>2. CASE MasterBegins(g)
    <3>1. gens' = [gens EXCEPT ![g].phase = "serving", ![g].usr2 = gens[g].usr2]
      BY <1>1, <2>2 DEF MasterBegins, GenRec
    <3> QED BY <1>1, <2>2, <3>1 DEF MasterBegins
  <2>3. CASE SpawnFails(g)
    <3>1. gens' = [gens EXCEPT ![g].phase = "serving", ![g].usr2 = FALSE]
      BY <1>1, <2>3 DEF SpawnFails, GenRec
    <3> QED BY <1>1, <2>3, <3>1 DEF SpawnFails
  <2> QED BY <2>1, <2>2, <2>3
<1>3. PICK r : r = [gens[g] EXCEPT !.phase = phase, !.usr2 = usr2,
                                   !.term = gens[g].term]
  OBVIOUS
<1>4. gens' = [gens EXCEPT ![g] = r]
  BY ONLY <1>1, <1>2, <1>3, g \in Gens DEF GenRec
<1>5. /\ r.phase = phase /\ r.term = gens[g].term /\ r.config = gens[g].config
      /\ r.fds = gens[g].fds /\ r.list = gens[g].list
  BY ONLY <1>1, <1>3 DEF GenRec
<1>6. r \in GenRec
  BY ONLY <1>1, <1>3, usr2 \in BOOLEAN, phase \in {"ready", "detached", "serving"}
     DEF GenRec, Phases
<1>7. GenInv(r)
  BY ONLY <1>1, <1>2, <1>5, phase \in {"ready", "detached", "serving"}, PhaseKeeps
<1> QED BY ONLY <1>2, <1>4, <1>5, <1>6, <1>7, IInv, g \in Gens, QuietSameOpen

LEMMA EndStep ==
  ASSUME IInv, Careful, NEW g \in Gens, NEW port,
         BindFails(g, port) \/ DaemonForkFails(g) \/ Exits(g)
  PROVE  IInv' /\ Open(gens') \subseteq Open(gens)
<1>1. PICK phase \in {"exited", "failed"} :
        gens' = [gens EXCEPT ![g] = Ended(gens[g], phase)]
  BY DEF BindFails, DaemonForkFails, Exits
<1>2. /\ gens[g].phase \notin {"detached", "serving"}
      /\ config' = config /\ script' = script /\ conn' = AfterClosing(gens')
  BY DEF BindFails, DaemonForkFails, Exits, Careful
<1> QED BY <1>1, <1>2, EndedQuiet

LEMMA SpawnStep ==
  ASSUME IInv, NEW g \in Gens, NEW n \in Gens, SpawnsNext(g, n)
  PROVE  IInv' /\ Open(gens') = Open(gens)
<1>1. PICK r, q : r = Heir(gens[g]) /\ q = [gens[g] EXCEPT !.usr2 = FALSE]
  OBVIOUS
<1>2. /\ gens[g].phase = "serving" /\ gens[n].phase = "none"
      /\ gens' = [gens EXCEPT ![g].usr2 = FALSE, ![n] = r]
      /\ config' = config /\ script' = script /\ conn' = conn
  BY <1>1 DEF SpawnsNext
<1>3. gens[g] \in GenRec /\ GenInv(gens[g]) /\ DOMAIN gens = Gens
  BY GenFacts
<1>4. r \in GenRec /\ r.phase = "exec" /\ GenInv(r) /\ r.fds = gens[g].fds /\ ~r.term
  BY ONLY <1>1, <1>2, <1>3, SpawnKeeps
<1>5. /\ q \in GenRec /\ q.phase = "serving" /\ q.term = gens[g].term
      /\ q.config = gens[g].config /\ q.fds = gens[g].fds /\ q.list = gens[g].list
  BY ONLY <1>1, <1>2, <1>3 DEF GenRec
<1>6. GenInv(q)
  BY ONLY <1>2, <1>3, <1>5, PhaseKeeps
<1>7. /\ gens'[g] = q /\ gens'[n] = r /\ \A h \in Gens \ {g, n} : gens'[h] = gens[h]
      /\ gens' \in [Gens -> GenRec]
  <2>1. g # n
    BY <1>2
  <2>2. gens' = [gens EXCEPT ![g] = q, ![n] = r]
    BY ONLY <1>1, <1>2, <1>3, <2>1, g \in Gens, n \in Gens
  <2>3. gens \in [Gens -> GenRec]
    BY DEF IInv, TypeInv
  <2> QED BY ONLY <1>4, <1>5, <2>1, <2>2, <2>3, g \in Gens, n \in Gens
<1>8. HoldInv'
  BY <1>4, <1>6, <1>7 DEF IInv, HoldInv, GenInv, ListInOrder, OldInOrder, Halfway, Complete
<1>9. StandInv'
  <2>1. \A h \in Gens : Standing(h) => Standing(h)'
    BY <1>2, <1>5, <1>7 DEF Standing
  <2> QED BY <1>2, <1>4, <1>5, <1>7, <2>1 DEF StandInv, IInv
<1>10. Open(gens') = Open(gens)
  <2>1. DOMAIN gens[n].fds = {}
    BY <1>2 DEF IInv, HoldInv, GenInv
  <2>2. ASSUME NEW t
        PROVE  (\E h \in Gens : \E m \in DOMAIN gens'[h].fds : gens'[h].fds[m] = t)
               <=> \E h \in Gens : \E m \in DOMAIN gens[h].fds : gens[h].fds[m] = t
    BY ONLY <1>4, <1>5, <1>7, <2>1, g \in Gens, n \in Gens
  <2>3. ASSUME NEW t
        PROVE  t \in Open(gens') <=> t \in Open(gens)
    <3>1. t \in Open(gens') <=> \E h \in Gens : \E m \in DOMAIN gens'[h].fds : gens'[h].fds[m] = t
      BY ONLY OpenIs
    <3>2. t \in Open(gens) <=> \E h \in Gens : \E m \in DOMAIN gens[h].fds : gens[h].fds[m] = t
      BY ONLY OpenIs
    <3> QED BY ONLY <2>2, <3>1, <3>2
  <2> QED BY <2>3
<1>11. OneSocket' /\ WaitInv'
  BY <1>2, <1>10, SocketLess, WaitOpen DEF IInv
<1>12. TypeInv'
  BY <1>2, <1>7 DEF IInv, TypeInv
<1> QED BY <1>8, <1>9, <1>10, <1>11, <1>12 DEF IInv

(* A step that changes no more of a generation than its phase and the      *)
(* signals sent to it.                                                     *)
LEMMA SignalsKeep ==
  ASSUME IInv, NEW g \in Gens,
         gens[g].phase \in {"ready", "detached", "serving", "draining"},
         NEW r \in GenRec, r.phase \in {"ready", "detached", "serving", "draining"},
         r.config = gens[g].config, r.fds = gens[g].fds, r.list = gens[g].list,
         gens' = [gens EXCEPT ![g] = r]
  PROVE  /\ HoldInv' /\ OneSocket' /\ Open(gens') = Open(gens)
         /\ gens' \in [Gens -> GenRec] /\ gens'[g] = r
         /\ \A h \in Gens \ {g} : gens'[h] = gens[h]
<1>1. gens[g] \in GenRec /\ GenInv(gens[g]) /\ gens \in [Gens -> GenRec]
  BY DEF IInv, TypeInv, HoldInv
<1>2. GenInv(r)
  BY <1>1, PhaseKeeps
<1>3. /\ gens' \in [Gens -> GenRec] /\ gens'[g] = r
      /\ \A h \in Gens \ {g} : gens'[h] = gens[h]
  BY ONLY <1>1, r \in GenRec, g \in Gens, gens' = [gens EXCEPT ![g] = r]
<1>4. HoldInv'
  BY <1>2, <1>3 DEF IInv, HoldInv, GenInv, ListInOrder, OldInOrder, Halfway, Complete
<1>5. Open(gens') = Open(gens)
  <2>1. \A h \in Gens : gens'[h].fds = gens[h].fds
    BY <1>3
  <2> QED BY ONLY <2>1, SameOpen
<1> QED BY <1>3, <1>4, <1>5, SocketLess DEF IInv

LEMMA DrainsStep ==
  ASSUME IInv, NEW g \in Gens, Drains(g)
  PROVE  IInv' /\ Open(gens') = Open(gens)
<1>1. PICK r : r = [gens[g] EXCEPT !.phase = "draining", !.term = FALSE]
  OBVIOUS
<1>2. /\ gens[g].phase = "serving" /\ gens[g].term /\ gens' = [gens EXCEPT ![g] = r]
      /\ config' = config /\ script' = script /\ conn' = conn
  BY <1>1 DEF Drains
<1>3. gens[g] \in GenRec
  BY GenFacts
<1>4. /\ r \in GenRec /\ r.phase = "draining" /\ ~r.term
      /\ r.config = gens[g].config /\ r.fds = gens[g].fds /\ r.list = gens[g].list
  BY ONLY <1>1, <1>3 DEF GenRec, Phases
<1>5. /\ HoldInv' /\ OneSocket' /\ Open(gens') = Open(gens)
      /\ gens' \in [Gens -> GenRec] /\ gens'[g] = r
      /\ \A h \in Gens \ {g} : gens'[h] = gens[h]
  BY <1>2, <1>4, SignalsKeep
<1>6. StandInv'
  BY <1>2, <1>4, <1>5 DEF IInv, StandInv, Standing
<1>7. WaitInv' /\ TypeInv'
  BY <1>2, <1>5, WaitOpen DEF IInv, TypeInv
<1> QED BY <1>5, <1>6, <1>7 DEF IInv
----------------------------------------------------------------------------
(* The steps of hs.do.                                                     *)
LEMMA Usr2Step ==
  ASSUME IInv, Careful, NEW g \in Gens, HsSendsUsr2(g)
  PROVE  IInv' /\ Open(gens') = Open(gens) /\ conn' = conn
<1>1. PICK r : r = [gens[g] EXCEPT !.usr2 = TRUE]
  OBVIOUS
<1>2. /\ gens[g].phase = "serving" /\ gens' = [gens EXCEPT ![g] = r]
      /\ script.pc = "idle" /\ script' = [pc |-> "usr2", pid |-> g]
      /\ config' = config /\ conn' = AfterClosing(gens')
  BY <1>1 DEF HsSendsUsr2, Careful
<1>3. gens[g] \in GenRec
  BY GenFacts
<1>4. /\ r \in GenRec /\ r.phase = "serving" /\ r.term = gens[g].term
      /\ r.config = gens[g].config /\ r.fds = gens[g].fds /\ r.list = gens[g].list
  BY ONLY <1>1, <1>2, <1>3 DEF GenRec
<1>5. /\ HoldInv' /\ OneSocket' /\ Open(gens') = Open(gens)
      /\ gens' \in [Gens -> GenRec] /\ gens'[g] = r
      /\ \A h \in Gens \ {g} : gens'[h] = gens[h]
  BY <1>2, <1>4, SignalsKeep
<1>6. StandInv'
  BY <1>2, <1>4, <1>5 DEF IInv, StandInv, Standing
<1>7. conn' = conn
  <2>1. conn \in [Conns -> ConnRec]
        /\ \A c \in Conns : conn[c].state = "queued" => conn[c].at \in Open(gens)
    BY DEF IInv, TypeInv, WaitInv
  <2>2. \A c \in Conns : conn'[c] = conn[c]
    BY <1>2, <1>5, <2>1 DEF AfterClosing
  <2>3. conn' \in [Conns -> ConnRec]
    BY <1>2, <2>1, AfterClosingIs
  <2> QED BY ONLY <2>1, <2>2, <2>3
<1>8. WaitInv' /\ TypeInv'
  BY <1>2, <1>5, <1>7 DEF IInv, TypeInv, WaitInv
<1> QED BY <1>5, <1>6, <1>7, <1>8 DEF IInv

LEMMA TermStep ==
  ASSUME IInv, HsSeesNew
  PROVE  IInv' /\ Open(gens') = Open(gens)
<1>1. PICK g \in Gens : g = script.pid
  BY DEF IInv, TypeInv
<1>2. PICK r : r = [gens[g] EXCEPT !.term = gens[g].phase = "serving"]
  OBVIOUS
<1>3. /\ script.pc = "usr2" /\ script' = [script EXCEPT !.pc = "term"]
      /\ gens' = [gens EXCEPT ![g] = r] /\ config' = config /\ conn' = conn
  BY <1>1, <1>2 DEF HsSeesNew, TermTo
<1>4. gens[g] \in GenRec /\ GenInv(gens[g]) /\ gens \in [Gens -> GenRec]
  BY DEF IInv, TypeInv, HoldInv
<1>5. /\ r \in GenRec /\ r.phase = gens[g].phase
      /\ r.term = (gens[g].phase = "serving")
      /\ r.env = gens[g].env /\ r.old = gens[g].old /\ r.todo = gens[g].todo
      /\ r.config = gens[g].config /\ r.fds = gens[g].fds /\ r.list = gens[g].list
  BY ONLY <1>2, <1>4 DEF GenRec
<1>6. /\ gens' \in [Gens -> GenRec] /\ gens'[g] = r
      /\ \A h \in Gens \ {g} : gens'[h] = gens[h]
  BY ONLY <1>3, <1>4, <1>5, g \in Gens
<1>7. HoldInv'
  BY <1>5, <1>6 DEF IInv, HoldInv, GenInv, ListInOrder, OldInOrder, Halfway, Complete
<1>8. Open(gens') = Open(gens)
  <2>1. \A h \in Gens : gens'[h].fds = gens[h].fds
    BY <1>5, <1>6
  <2> QED BY ONLY <2>1, SameOpen
<1>9. script' \in [pc : {"start", "idle", "usr2", "term"}, pid : Gens]
      /\ script'.pc = "term" /\ script'.pid = g
  BY <1>1, <1>3 DEF IInv, TypeInv
<1>10. StandInv'
  <2>1. PICK h \in Masters \ {g} : TRUE
    BY <1>1 DEF HsSeesNew
  <2>2. gens[h].phase \in {"detached", "serving"} /\ h \in Gens
    BY <1>3, <2>1 DEF Masters, IInv, StandInv
  <2>3. Standing(h)'
    BY <1>6, <1>9, <2>1, <2>2 DEF Standing
  <2>4. \A m \in Gens : ~gens[m].term /\ gens[m].phase # "draining"
    BY <1>3 DEF IInv, StandInv
  <2>5. \A m \in Gens \ {g} : ~gens'[m].term /\ gens'[m].phase # "draining"
    BY ONLY <1>6, <2>4
  <2>6. gens'[g].term => gens'[g].phase = "serving"
    BY ONLY <1>5, <1>6
  <2> QED BY ONLY <1>9, <2>2, <2>3, <2>5, <2>6 DEF StandInv
<1>11. OneSocket' /\ TypeInv'
  BY <1>3, <1>6, <1>8, <1>9, SocketLess DEF IInv, TypeInv
<1>12. WaitInv'
  BY <1>3, <1>8, <1>9 DEF IInv, WaitInv
<1> QED BY <1>7, <1>8, <1>10, <1>11, <1>12 DEF IInv

LEMMA WatchStep ==
  ASSUME IInv, HsSeesFirst \/ HsSeesOldGone \/ HsInterrupted
  PROVE  IInv' /\ gens' = gens /\ conn' = conn
<1>1. /\ script.pc # "idle" /\ script' = [script EXCEPT !.pc = "idle"]
      /\ config' = config /\ gens' = gens /\ conn' = conn
  BY DEF HsSeesFirst, HsSeesOldGone, HsInterrupted
<1>2. script' \in [pc : {"start", "idle", "usr2", "term"}, pid : Gens]
      /\ script'.pc = "idle" /\ script'.pid = script.pid
  BY <1>1 DEF IInv, TypeInv
<1>3. \A h \in Gens : ~gens[h].term /\ gens[h].phase # "draining"
  <2>1. CASE script.pc = "term"
    <3>1. script.pid \notin Masters
      BY <2>1 DEF HsSeesFirst, HsSeesOldGone, HsInterrupted
    <3> QED BY <3>1 DEF Masters, IInv, StandInv
  <2>2. CASE script.pc # "term"
    BY <2>2 DEF IInv, StandInv
  <2> QED BY <2>1, <2>2
<1>4. \E h \in Gens : gens[h].phase \in {"detached", "serving"}
  <2>1. CASE script.pc = "start"
    <3>1. Masters # {}
      BY <2>1 DEF HsSeesFirst, HsSeesOldGone, HsInterrupted
    <3> QED BY <1>3, <3>1 DEF Masters
  <2>2. CASE script.pc # "start"
    BY <2>2 DEF IInv, StandInv, Standing
  <2> QED BY <2>1, <2>2
<1>5. StandInv'
  BY <1>1, <1>2, <1>3, <1>4 DEF StandInv, Standing
<1>6. HoldInv' /\ OneSocket'
  BY <1>1 DEF IInv, HoldInv, GenInv, ListInOrder, OldInOrder, Halfway, Complete, OneSocket
<1>7. TypeInv' /\ WaitInv'
  BY <1>1, <1>2 DEF IInv, TypeInv, WaitInv
<1> QED BY <1>1, <1>5, <1>6, <1>7 DEF IInv
----------------------------------------------------------------------------
(* The steps of the peers and of the operator leave the generations alone. *)
LEMMA RestKeeps ==
  ASSUME IInv, gens' = gens, script' = script
  PROVE  HoldInv' /\ OneSocket' /\ StandInv'
<1>1. HoldInv' /\ OneSocket'
  BY DEF IInv, HoldInv, GenInv, ListInOrder, OldInOrder, Halfway, Complete, OneSocket
<1>2. StandInv'
  BY DEF IInv, StandInv, Standing
<1> QED BY <1>1, <1>2

LEMMA ConnectStep ==
  ASSUME IInv, NEW c \in Conns, NEW port \in Ports, Connects(c, port)
  PROVE  IInv'
<1>1. /\ config' = config /\ gens' = gens /\ script' = script
      /\ conn[c].state = "none" /\ script.pc # "start"
  BY DEF Connects
<1>2. HoldInv' /\ OneSocket' /\ StandInv'
  BY <1>1, RestKeeps
<1>3. conn \in [Conns -> ConnRec]
  BY DEF IInv, TypeInv
<1>4. PICK k : /\ k \in ConnRec /\ conn' = [conn EXCEPT ![c] = k]
               /\ k.state = "queued" => k.at \in Open(gens) /\ k.at.port = k.port
  <2>1. ASSUME NEW s \in Open(gens), s.port = port,
               conn' = [conn EXCEPT ![c].state = "queued", ![c].port = port, ![c].at = s]
        PROVE  \E k : /\ k \in ConnRec /\ conn' = [conn EXCEPT ![c] = k]
                      /\ k.state = "queued" => k.at \in Open(gens) /\ k.at.port = k.port
    <3>1. PICK k : k = [conn[c] EXCEPT !.state = "queued", !.port = port, !.at = s]
      OBVIOUS
    <3>2. s \in Sockets
      BY OpenAreSockets DEF IInv
    <3>3. k \in ConnRec /\ k.at = s /\ k.port = port
      BY ONLY <1>3, <3>1, <3>2, c \in Conns, port \in Ports DEF ConnRec, States
    <3>4. conn' = [conn EXCEPT ![c] = k]
      BY ONLY <1>3, <2>1, <3>1, c \in Conns DEF ConnRec
    <3> QED BY <2>1, <3>3, <3>4
  <2>2. ASSUME conn' = [conn EXCEPT ![c].state = "refused", ![c].port = port]
        PROVE  \E k : /\ k \in ConnRec /\ conn' = [conn EXCEPT ![c] = k]
                      /\ k.state = "queued" => k.at \in Open(gens) /\ k.at.port = k.port
    <3>1. PICK k : k = [conn[c] EXCEPT !.state = "refused", !.port = port]
      OBVIOUS
    <3>2. k \in ConnRec /\ k.state = "refused"
      BY ONLY <1>3, <3>1, c \in Conns, port \in Ports DEF ConnRec, States
    <3>3. conn' = [conn EXCEPT ![c] = k]
      BY ONLY <1>3, <2>2, <3>1, c \in Conns DEF ConnRec
    <3> QED BY <3>2, <3>3
  <2> QED BY <2>1, <2>2 DEF Connects
<1>5. /\ conn' \in [Conns -> ConnRec] /\ conn'[c] = k
      /\ \A d \in Conns \ {c} : conn'[d] = conn[d]
  BY <1>3, <1>4
<1>6. WaitInv'
  BY <1>1, <1>4, <1>5 DEF IInv, WaitInv
<1>7. TypeInv'
  BY <1>1, <1>5 DEF IInv, TypeInv
<1> QED BY <1>2, <1>6, <1>7 DEF IInv

LEMMA ServeStep ==
  ASSUME IInv, NEW c \in Conns, Answers(c) \/ \E g \in Gens : Accepts(g, c)
  PROVE  IInv'
<1>1. /\ config' = config /\ gens' = gens /\ script' = script
      /\ conn[c].state \in {"queued", "accepted"}
  BY DEF Answers, Accepts
<1>2. HoldInv' /\ OneSocket' /\ StandInv'
  BY <1>1, RestKeeps
<1>3. conn \in [Conns -> ConnRec]
  BY DEF IInv, TypeInv
<1>4. /\ conn' \in [Conns -> ConnRec] /\ conn'[c].state \in {"accepted", "answered"}
      /\ \A d \in Conns \ {c} : conn'[d] = conn[d]
  <2>1. CASE Answers(c)
    BY ONLY <1>3, <2>1, c \in Conns DEF Answers, ConnRec, States
  <2>2. ASSUME NEW g \in Gens, Accepts(g, c)
        PROVE  /\ conn' \in [Conns -> ConnRec]
               /\ conn'[c].state \in {"accepted", "answered"}
               /\ \A d \in Conns \ {c} : conn'[d] = conn[d]
    BY ONLY <1>3, <2>2, c \in Conns, g \in Gens DEF Accepts, ConnRec, States
  <2> QED BY <2>1, <2>2
<1>5. WaitInv'
  BY <1>1, <1>4 DEF IInv, WaitInv
<1>6. TypeInv'
  BY <1>1, <1>4 DEF IInv, TypeInv
<1> QED BY <1>2, <1>5, <1>6 DEF IInv

LEMMA EditStep ==
  ASSUME IInv, NEW k \in Configs, OperatorEdits(k)
  PROVE  IInv'
<1>1. config' = k /\ gens' = gens /\ script' = script /\ conn' = conn
  BY DEF OperatorEdits
<1>2. HoldInv' /\ OneSocket' /\ StandInv'
  BY <1>1, RestKeeps
<1>3. TypeInv' /\ WaitInv'
  BY <1>1 DEF IInv, TypeInv, WaitInv
<1> QED BY <1>2, <1>3 DEF IInv
----------------------------------------------------------------------------
LEMMA MasterKeeps ==
  ASSUME IInv, Overlap, Careful, NEW g \in Gens, MasterStep(g)
  PROVE  /\ IInv'
         /\ script' = script
         /\ conn' = conn \/ (conn' = AfterClosing(gens') /\ Open(gens') \subseteq Open(gens))
<1>1. CASE Begins(g)
  BY <1>1, BeginsStep DEF Begins
<1>2. ASSUME NEW port \in Ports, ReuseListener(g, port)
      PROVE  IInv' /\ conn' = conn /\ script' = script
  BY <1>2, ReuseStep DEF ReuseListener
<1>3. ASSUME NEW port \in Ports, NEW fd \in Fds, CreateListener(g, port, fd)
      PROVE  IInv' /\ conn' = conn /\ script' = script
  BY <1>3, CreateStep DEF CreateListener
<1>4. ASSUME NEW port, BindFails(g, port) \/ DaemonForkFails(g) \/ Exits(g)
      PROVE  /\ IInv' /\ script' = script
             /\ conn' = AfterClosing(gens') /\ Open(gens') \subseteq Open(gens)
  BY <1>4, EndStep DEF BindFails, DaemonForkFails, Exits
<1>5. CASE InitDone(g)
  BY <1>5, InitDoneStep DEF InitDone
<1>6. CASE Detaches(g) \/ MasterBegins(g) \/ SpawnFails(g)
  BY <1>6, PhaseStep DEF Detaches, MasterBegins, SpawnFails
<1>7. ASSUME NEW n \in Gens, SpawnsNext(g, n)
      PROVE  IInv' /\ conn' = conn /\ script' = script
  BY <1>7, SpawnStep DEF SpawnsNext
<1>8. CASE Drains(g)
  BY <1>8, DrainsStep DEF Drains
<1>9. CASE DaemonForkFails(g) \/ Exits(g)
  <2>1. BindFails(g, 0) \/ DaemonForkFails(g) \/ Exits(g)
    BY <1>9
  <2> QED BY <1>4, <2>1
<1> DEFINE Goal ==
      /\ IInv' /\ script' = script
      /\ conn' = conn \/ (conn' = AfterClosing(gens') /\ Open(gens') \subseteq Open(gens))
<1>10. ASSUME NEW port \in Ports,
              \/ ReuseListener(g, port)
              \/ \E fd \in Fds : CreateListener(g, port, fd)
              \/ BindFails(g, port)
       PROVE  Goal
  BY <1>2, <1>3, <1>4, <1>10
<1>11. ASSUME Begins(g) \/ InitDone(g) \/ Detaches(g) \/ MasterBegins(g)
                \/ SpawnFails(g) \/ Drains(g) \/ DaemonForkFails(g) \/ Exits(g)
       PROVE  Goal
  BY <1>1, <1>5, <1>6, <1>8, <1>9, <1>11
<1>12. ASSUME NEW n \in Gens, SpawnsNext(g, n)
       PROVE  Goal
  BY <1>7, <1>12
<1> HIDE DEF Goal
<1>13. Goal
  BY ONLY <1>10, <1>11, <1>12, MasterStep(g) DEF MasterStep
<1> QED BY <1>13 DEF Goal

LEMMA NextKeeps ==
  ASSUME IInv, Overlap, Careful, [Next]_vars
  PROVE  IInv'
<1>1. ASSUME NEW g \in Gens, MasterStep(g)
      PROVE  IInv'
  BY <1>1, MasterKeeps
<1>2. CASE HsStep
  <2>1. ASSUME NEW g \in Gens, HsSendsUsr2(g)
        PROVE  IInv'
    BY <2>1, Usr2Step
  <2>2. CASE HsSeesNew
    BY <2>2, TermStep
  <2>3. CASE HsSeesFirst \/ HsSeesOldGone \/ HsInterrupted
    BY <2>3, WatchStep
  <2> QED BY <1>2, <2>1, <2>2, <2>3 DEF HsStep
<1>3. CASE PeerStep
  BY <1>3, ConnectStep, ServeStep DEF PeerStep
<1>4. ASSUME NEW k \in Configs, OperatorEdits(k)
      PROVE  IInv'
  BY <1>4, EditStep
<1>5. CASE UNCHANGED vars
  <2>1. config' = config /\ gens' = gens /\ script' = script /\ conn' = conn
    BY <1>5 DEF vars
  <2>2. HoldInv' /\ OneSocket' /\ StandInv'
    BY <2>1, RestKeeps
  <2>3. TypeInv' /\ WaitInv'
    BY <2>1 DEF IInv, TypeInv, WaitInv
  <2> QED BY <2>2, <2>3 DEF IInv
<1> QED BY <1>1, <1>2, <1>3, <1>4, <1>5 DEF Next

(* The inductive invariant, however the masters, hs.do, the peers and the  *)
(* operator interleave (sig_proc, InitServerEnvirment, hs.do).             *)
THEOREM HandoverInvariant ==
  ASSUME Overlap, Careful
  PROVE  Spec => []IInv
<1>1. Init => IInv
  BY InitIInv
<1>2. IInv /\ [Next]_vars => IInv'
  BY NextKeeps
<1> QED BY <1>1, <1>2, PTL DEF Spec

(* Every listener a generation keeps in its list is an open socket on the  *)
(* port the list says (LoadOldListenSockets, GetListener).                 *)
THEOREM HandoverTypes ==
  ASSUME Overlap, Careful
  PROVE  Spec => []HandoverTypeOK
<1>1. IInv => HandoverTypeOK
  <2> SUFFICES ASSUME IInv PROVE HandoverTypeOK
    OBVIOUS
  <2>1. ASSUME NEW g \in Gens
        PROVE  /\ gens[g].phase \in Phases
               /\ gens[g].config \in Configs \cup {Unborn.config}
               /\ DOMAIN gens[g].fds \subseteq Fds
               /\ \A l \in gens[g].list :
                    l.sock \in DOMAIN gens[g].fds /\ gens[g].fds[l.sock].port = l.port
    <3>1. gens[g] \in GenRec /\ GenInv(gens[g])
      BY GenFacts
    <3>2. gens[g].fds \in Tables /\ gens[g].phase \in Phases
          /\ gens[g].config \in Configs \cup {Unborn.config}
      BY <3>1 DEF GenRec, ConfigsSeen
    <3> QED BY <3>1, <3>2, TableIs DEF GenInv, ListInOrder
  <2>2. /\ config \in Configs
        /\ script.pc \in {"start", "idle", "usr2", "term"} /\ script.pid \in Gens
    BY DEF IInv, TypeInv
  <2>3. \A c \in Conns :
          conn[c].state \in {"none", "queued", "refused", "reset", "accepted", "answered"}
    BY DEF IInv, TypeInv, ConnRec, States
  <2> QED BY <2>1, <2>2, <2>3 DEF HandoverTypeOK
<1> QED BY <1>1, HandoverInvariant, PTL

----------------------------------------------------------------------------
(* Addresses.  A socket is known to be inherited because its maker was     *)
(* there before the generation that holds it.                              *)
OwnAddress(g, gen, sock) ==
  sock.ip = gen.config.ip \/ (gen.config.ip = "" /\ sock.by # g)

GenAddress(g, gen) ==
  /\ gen.phase = "exec" => \A n \in DOMAIN gen.fds : gen.fds[n].by # g
  /\ gen.phase = "init" => \A o \in gen.old : gen.fds[o.sock].by # g
  /\ gen.phase \in {"init", "ready", "detached", "serving", "draining"} =>
       \A l \in gen.list : OwnAddress(g, gen, gen.fds[l.sock])

BornInv == \A s \in Open(gens) : gens[s.by].phase # "none"

AddressInv == BornInv /\ \A g \in Gens : GenAddress(g, gens[g])

LEMMA AddressInit == Init => AddressInv
<1> SUFFICES ASSUME Init PROVE AddressInv
  OBVIOUS
<1>1. \A g \in Gens : /\ DOMAIN gens[g].fds = {}
                       /\ gens[g].phase \in {"exec", "none"}
  <2>1. \A g \in Gens : gens[g] = IF g = 1 THEN [Unborn EXCEPT !.phase = "exec"] ELSE Unborn
    BY DEF Init
  <2>2. Unborn.phase = "none" /\ DOMAIN Unborn.fds = {}
        /\ [Unborn EXCEPT !.phase = "exec"].phase = "exec"
        /\ DOMAIN [Unborn EXCEPT !.phase = "exec"].fds = {}
    BY EmptyTable DEF Unborn
  <2> HIDE DEF Unborn
  <2> QED BY <2>1, <2>2
<1>2. BornInv
  BY <1>1, OpenIs DEF BornInv
<1> QED BY <1>1, <1>2 DEF AddressInv, GenAddress

(* One generation changes; what it opens it has made itself.               *)
LEMMA AddressChange ==
  ASSUME IInv, AddressInv, NEW g \in Gens, NEW r, gens' = [gens EXCEPT ![g] = r],
         r.phase # "none", GenAddress(g, r),
         \A s \in Open(gens') : s \in Open(gens) \/ s.by = g
  PROVE  AddressInv'
<1>1. gens'[g] = r /\ \A h \in Gens \ {g} : gens'[h] = gens[h]
  BY DEF IInv, TypeInv
<1>2. \A s \in Open(gens) : s.by \in Gens /\ gens[s.by].phase # "none"
  BY OpenAreSockets DEF AddressInv, BornInv, IInv, Sockets
<1>3. BornInv'
  BY <1>1, <1>2 DEF BornInv
<1>4. \A h \in Gens : GenAddress(h, gens'[h])
  BY <1>1 DEF AddressInv
<1> QED BY <1>3, <1>4 DEF AddressInv, GenAddress, OwnAddress

(* A generation past its start keeps its list and loses other sockets only.*)
LEMMA AddressKept ==
  ASSUME NEW g \in Gens, NEW gen, GenInv(gen), GenAddress(g, gen),
         gen.phase \in {"init", "ready", "detached", "serving", "draining"},
         NEW r, r.phase \in {"ready", "detached", "serving", "draining"},
         r.config = gen.config, r.list = gen.list, GenInv(r),
         \A n \in DOMAIN r.fds : r.fds[n] = gen.fds[n]
  PROVE  GenAddress(g, r)
BY DEF GenAddress, GenInv, ListInOrder, OwnAddress

(* Only phase and signals of a generation change.                          *)
SameHolding(gen, r) ==
  /\ gen.phase \in {"ready", "detached", "serving", "draining"}
  /\ r.phase \in {"ready", "detached", "serving", "draining"}
  /\ r.config = gen.config /\ r.list = gen.list /\ r.fds = gen.fds

LEMMA AddressSignals ==
  ASSUME IInv, AddressInv, NEW g \in Gens, NEW r, SameHolding(gens[g], r),
         gens' = [gens EXCEPT ![g] = r]
  PROVE  AddressInv'
<1> USE DEF SameHolding
<1>1. GenInv(gens[g]) /\ GenAddress(g, gens[g])
  BY GenFacts DEF AddressInv
<1>2. GenInv(r)
  BY <1>1, PhaseKeeps
<1>3. GenAddress(g, r)
  BY ONLY <1>1, <1>2, AddressKept, g \in Gens,
     gens[g].phase \in {"ready", "detached", "serving", "draining"},
     r.phase \in {"ready", "detached", "serving", "draining"},
     r.config = gens[g].config, r.list = gens[g].list, r.fds = gens[g].fds
<1>4. Open(gens') = Open(gens)
  <2>1. \A h \in Gens : gens'[h].fds = gens[h].fds
    BY DEF IInv, TypeInv
  <2> QED BY ONLY <2>1, SameOpen
<1> QED BY <1>3, <1>4, AddressChange

(* A new process takes what it is told of: none of it is its own.          *)
LEMMA AddressBegins ==
  ASSUME IInv, AddressInv, NEW g \in Gens, Begins(g)
  PROVE  AddressInv'
<1>1. PICK r : r = Begun(gens[g], config)
  OBVIOUS
<1>2. gens[g].phase = "exec" /\ gens' = [gens EXCEPT ![g] = r]
  BY <1>1 DEF Begins
<1>3. gens[g] \in GenRec /\ GenInv(gens[g]) /\ GenAddress(g, gens[g])
  BY GenFacts DEF AddressInv
<1>4. /\ r.phase = "init" /\ r.list = {} /\ r.fds = gens[g].fds
      /\ r.old = LoadOldListenSockets(gens[g])
  BY <1>1, <1>2, <1>3 DEF Begun, GenRec, GenInv
<1>5. \A o \in r.old : o.sock \in DOMAIN gens[g].fds
  BY <1>2, <1>3, <1>4 DEF LoadOldListenSockets, GenInv
<1>6. GenAddress(g, r)
  BY <1>2, <1>3, <1>4, <1>5 DEF GenAddress
<1> QED BY <1>2, <1>4, <1>6, BeginsStep, AddressChange

LEMMA AddressReuse ==
  ASSUME IInv, AddressInv, NEW g \in Gens, NEW port, ReuseListener(g, port)
  PROVE  AddressInv'
<1>1. PICK o \in GetListener(gens[g], port) :
        gens' = [gens EXCEPT ![g] = Reused(gens[g], o, port)]
  BY DEF ReuseListener
<1>2. PICK r : r = Reused(gens[g], o, port)
  OBVIOUS
<1>3. /\ gens[g].phase = "init" /\ gens' = [gens EXCEPT ![g] = r]
      /\ o \in gens[g].old /\ gens[g].config.ip = ""
  BY <1>1, <1>2 DEF ReuseListener, GetListener
<1>4. gens[g] \in GenRec /\ GenInv(gens[g]) /\ GenAddress(g, gens[g])
  BY GenFacts DEF AddressInv
<1> DEFINE u == [o EXCEPT !.used = TRUE]
<1>5. /\ r.phase = "init" /\ r.config = gens[g].config /\ r.fds = gens[g].fds
      /\ r.old = (gens[g].old \ {o}) \cup {u}
      /\ r.list = gens[g].list \cup {[sock |-> o.sock, port |-> port]}
  BY <1>2, <1>3, <1>4 DEF Reused, GenRec
<1>6. u.sock = o.sock
  BY <1>3, <1>4 DEF GenRec
<1> HIDE DEF u
<1>7. gens[g].fds[o.sock].by # g
  BY <1>3, <1>4 DEF GenAddress
<1>8. \A k \in r.old : gens[g].fds[k.sock].by # g
  BY <1>3, <1>4, <1>5, <1>6, <1>7 DEF GenAddress
<1>9. \A l \in r.list : OwnAddress(g, r, r.fds[l.sock])
  <2>1. \A l \in gens[g].list : OwnAddress(g, gens[g], gens[g].fds[l.sock])
    BY <1>3, <1>4 DEF GenAddress
  <2>2. OwnAddress(g, gens[g], gens[g].fds[o.sock])
    BY <1>3, <1>7 DEF OwnAddress
  <2>3. \A l \in r.list : OwnAddress(g, gens[g], gens[g].fds[l.sock])
    BY <1>5, <2>1, <2>2
  <2> QED BY <1>5, <2>3 DEF OwnAddress
<1>10. GenAddress(g, r)
  BY <1>5, <1>8, <1>9 DEF GenAddress
<1> QED BY <1>3, <1>5, <1>10, ReuseStep, AddressChange

LEMMA AddressCreate ==
  ASSUME IInv, AddressInv, NEW g \in Gens, NEW port, NEW fd \in Fds,
         CreateListener(g, port, fd)
  PROVE  AddressInv'
<1>1. PICK r, s : /\ r = Created(gens[g], g, port, fd)
                  /\ s = [by |-> g, ip |-> gens[g].config.ip, port |-> port]
  OBVIOUS
<1>2. /\ gens[g].phase = "init" /\ port \in gens[g].todo
      /\ fd \in Fds \ DOMAIN gens[g].fds
      /\ gens' = [gens EXCEPT ![g] = r]
  BY <1>1 DEF CreateListener
<1>3. gens[g] \in GenRec /\ GenInv(gens[g]) /\ GenAddress(g, gens[g]) /\ DOMAIN gens = Gens
  BY GenFacts DEF AddressInv
<1>4. /\ r.phase = "init"
      /\ DOMAIN r.fds = DOMAIN gens[g].fds \cup {fd}
      /\ \A n \in DOMAIN gens[g].fds : r.fds[n] = gens[g].fds[n]
      /\ r.fds[fd] = s
  BY ONLY <1>1, <1>2, <1>3, g \in Gens, CreateKeeps
<1>5. /\ r.config = gens[g].config /\ r.old = gens[g].old
      /\ r.list = gens[g].list \cup {[sock |-> fd, port |-> port]}
  BY <1>1, <1>3 DEF Created, GenRec
<1>6. s.by = g /\ s.ip = gens[g].config.ip
  BY <1>1
<1>7. /\ \A o \in gens[g].old : o.sock \in DOMAIN gens[g].fds
      /\ \A l \in gens[g].list : l.sock \in DOMAIN gens[g].fds
  BY <1>2, <1>3 DEF GenInv, ListInOrder, OldInOrder
<1>8. \A o \in r.old : r.fds[o.sock].by # g
  BY <1>2, <1>3, <1>4, <1>5, <1>7 DEF GenAddress
<1>9. \A l \in r.list : OwnAddress(g, r, r.fds[l.sock])
  <2>1. \A l \in gens[g].list : OwnAddress(g, gens[g], gens[g].fds[l.sock])
    BY <1>2, <1>3 DEF GenAddress
  <2>2. \A l \in gens[g].list : OwnAddress(g, gens[g], r.fds[l.sock])
    BY <1>4, <1>7, <2>1
  <2>3. OwnAddress(g, gens[g], r.fds[fd])
    BY <1>4, <1>6 DEF OwnAddress
  <2>4. \A l \in r.list : OwnAddress(g, gens[g], r.fds[l.sock])
    BY <1>5, <2>2, <2>3
  <2> QED BY <1>5, <2>4 DEF OwnAddress
<1>10. GenAddress(g, r)
  BY <1>4, <1>8, <1>9 DEF GenAddress
<1>11. Open(gens') = Open(gens) \cup {s}
  BY ONLY <1>2, <1>3, <1>4, g \in Gens, MoreOpen
<1> QED BY <1>2, <1>4, <1>6, <1>10, <1>11, AddressChange

LEMMA AddressDone ==
  ASSUME IInv, AddressInv, NEW g \in Gens, InitDone(g)
  PROVE  AddressInv'
<1>1. PICK r : r = Ready(gens[g])
  OBVIOUS
<1>2. gens[g].phase = "init" /\ gens[g].todo = {} /\ gens' = [gens EXCEPT ![g] = r]
  BY <1>1 DEF InitDone
<1>3. gens[g] \in GenRec /\ GenInv(gens[g]) /\ GenAddress(g, gens[g])
  BY GenFacts DEF AddressInv
<1>4. /\ r.phase = "ready" /\ GenInv(r)
      /\ \A n \in DOMAIN r.fds : r.fds[n] = gens[g].fds[n]
  BY ONLY <1>1, <1>2, <1>3, CloseKeeps
<1>5. r.config = gens[g].config /\ r.list = gens[g].list
  BY <1>1, <1>3 DEF Ready, GenRec
<1>6. GenAddress(g, r)
  BY ONLY <1>2, <1>3, <1>4, <1>5, g \in Gens, AddressKept
<1> QED BY <1>2, <1>4, <1>6, InitDoneStep, AddressChange

(* A generation is new when it inherits: it made none of the sockets.      *)
LEMMA AddressSpawn ==
  ASSUME IInv, AddressInv, NEW g \in Gens, NEW n \in Gens, SpawnsNext(g, n)
  PROVE  AddressInv'
<1>1. PICK r, q : r = Heir(gens[g]) /\ q = [gens[g] EXCEPT !.usr2 = FALSE]
  OBVIOUS
<1>2. /\ gens[g].phase = "serving" /\ gens[n].phase = "none"
      /\ gens' = [gens EXCEPT ![g].usr2 = FALSE, ![n] = r]
  BY <1>1 DEF SpawnsNext
<1>3. gens[g] \in GenRec /\ GenInv(gens[g]) /\ GenAddress(g, gens[g]) /\ DOMAIN gens = Gens
  BY GenFacts DEF AddressInv
<1>4. r.phase = "exec" /\ r.fds = gens[g].fds
  BY ONLY <1>1, <1>2, <1>3, SpawnKeeps
<1>5. /\ q.phase = "serving"
      /\ q.config = gens[g].config /\ q.fds = gens[g].fds /\ q.list = gens[g].list
  BY ONLY <1>1, <1>2, <1>3 DEF GenRec
<1>6. gens'[g] = q /\ gens'[n] = r /\ \A h \in Gens \ {g, n} : gens'[h] = gens[h]
  <2>1. g # n
    BY <1>2
  <2>2. gens' = [gens EXCEPT ![g] = q, ![n] = r]
    BY ONLY <1>1, <1>2, <1>3, <2>1, g \in Gens, n \in Gens
  <2> QED BY ONLY <1>3, <2>1, <2>2, g \in Gens, n \in Gens
<1>7. GenAddress(g, q)
  BY <1>2, <1>3, <1>5 DEF GenAddress, OwnAddress
<1>8. \A s \in Open(gens) : s.by \in Gens /\ gens[s.by].phase # "none"
  BY OpenAreSockets DEF AddressInv, BornInv, IInv, Sockets
<1>9. \A m \in DOMAIN r.fds : r.fds[m] \in Open(gens)
  BY <1>4, OpenIs
<1>10. GenAddress(n, r)
  BY <1>2, <1>4, <1>8, <1>9 DEF GenAddress
<1>11. BornInv'
  BY <1>2, <1>4, <1>5, <1>6, <1>8, SpawnStep DEF BornInv
<1>12. \A h \in Gens : GenAddress(h, gens'[h])
  BY <1>6, <1>7, <1>10 DEF AddressInv
<1> QED BY <1>11, <1>12 DEF AddressInv, GenAddress, OwnAddress

LEMMA AddressEnd ==
  ASSUME IInv, AddressInv, Careful, NEW g \in Gens, NEW port,
         BindFails(g, port) \/ DaemonForkFails(g) \/ Exits(g)
  PROVE  AddressInv'
<1>1. PICK phase \in {"exited", "failed"} : gens' = [gens EXCEPT ![g] = Ended(gens[g], phase)]
  BY DEF BindFails, DaemonForkFails, Exits
<1> DEFINE r == Ended(gens[g], phase)
<1>2. r.phase = phase
  BY <1>1, GenFacts, EndedIs DEF Phases
<1>3. GenAddress(g, r)
  BY <1>2 DEF GenAddress
<1> QED BY <1>1, <1>2, <1>3, EndStep, AddressChange

LEMMA AddressStep ==
  ASSUME IInv, AddressInv, Overlap, Careful, [Next]_vars
  PROVE  AddressInv'
<1>1. ASSUME gens' = gens PROVE AddressInv'
  BY <1>1 DEF AddressInv, BornInv, GenAddress, OwnAddress
<1>2. ASSUME NEW g \in Gens, Detaches(g) \/ MasterBegins(g) \/ SpawnFails(g) \/ Drains(g)
      PROVE  AddressInv'
  <2>1. gens[g] \in GenRec /\ DOMAIN gens = Gens
    BY GenFacts
  <2>2. PICK r : r = gens'[g]
    OBVIOUS
  <2>3. SameHolding(gens[g], r) /\ gens' = [gens EXCEPT ![g] = r]
    BY <1>2, <2>1, <2>2
       DEF Detaches, MasterBegins, SpawnFails, Drains, GenRec, SameHolding
  <2> QED BY ONLY <2>3, AddressSignals, IInv, AddressInv, g \in Gens
<1>3. ASSUME NEW g \in Gens, MasterStep(g) PROVE AddressInv'
  <2>1. ASSUME NEW port \in Ports,
               \/ ReuseListener(g, port)
               \/ \E fd \in Fds : CreateListener(g, port, fd)
               \/ BindFails(g, port)
        PROVE  AddressInv'
    BY <2>1, AddressReuse, AddressCreate, AddressEnd
  <2>2. CASE DaemonForkFails(g) \/ Exits(g)
    <3>1. BindFails(g, 0) \/ DaemonForkFails(g) \/ Exits(g)
      BY <2>2
    <3> QED BY <3>1, AddressEnd
  <2> QED BY <1>2, <1>3, <2>1, <2>2, AddressBegins, AddressDone, AddressSpawn DEF MasterStep
<1>4. ASSUME NEW g \in Gens, HsSendsUsr2(g) PROVE AddressInv'
  <2>1. gens[g] \in GenRec /\ DOMAIN gens = Gens
    BY GenFacts
  <2>2. PICK r : r = [gens[g] EXCEPT !.usr2 = TRUE]
    OBVIOUS
  <2>3. gens[g].phase = "serving" /\ gens' = [gens EXCEPT ![g] = r]
    BY <1>4, <2>2 DEF HsSendsUsr2, Careful
  <2>4. SameHolding(gens[g], r)
    BY <2>1, <2>2, <2>3 DEF GenRec, SameHolding
  <2> QED BY <2>3, <2>4, AddressSignals
<1>5. CASE HsSeesNew
  <2>1. PICK g \in Gens : g = script.pid
    BY DEF IInv, TypeInv
  <2>2. gens[g] \in GenRec /\ DOMAIN gens = Gens /\ GenAddress(g, gens[g])
    BY GenFacts DEF AddressInv
  <2>3. PICK r : r = [gens[g] EXCEPT !.term = gens[g].phase = "serving"]
    OBVIOUS
  <2>4. gens' = [gens EXCEPT ![g] = r]
    BY <1>5, <2>1, <2>3 DEF HsSeesNew, TermTo
  <2>5. /\ r.phase = gens[g].phase /\ r.config = gens[g].config /\ r.old = gens[g].old
        /\ r.list = gens[g].list /\ r.fds = gens[g].fds
    BY ONLY <2>2, <2>3 DEF GenRec
  <2>6. gens'[g] = r /\ \A h \in Gens \ {g} : gens'[h] = gens[h]
    BY <2>2, <2>4
  <2>7. \A h \in Gens : gens'[h].phase = gens[h].phase
    BY <2>5, <2>6
  <2>8. \A s \in Open(gens) : s.by \in Gens /\ gens[s.by].phase # "none"
    BY OpenAreSockets DEF AddressInv, BornInv, IInv, Sockets
  <2>9. BornInv'
    BY <1>5, <2>7, <2>8, TermStep DEF BornInv
  <2>10. GenAddress(g, r)
    BY <2>2, <2>5 DEF GenAddress, OwnAddress
  <2>11. \A h \in Gens : GenAddress(h, gens'[h])
    BY <2>6, <2>10 DEF AddressInv
  <2> QED BY <2>9, <2>11 DEF AddressInv, GenAddress, OwnAddress
<1>6. CASE HsSeesFirst \/ HsSeesOldGone \/ HsInterrupted
  BY <1>1, <1>6, WatchStep
<1>7. CASE PeerStep \/ (\E k \in Configs : OperatorEdits(k)) \/ UNCHANGED vars
  BY <1>1, <1>7 DEF PeerStep, Connects, Accepts, Answers, OperatorEdits, vars
<1> QED BY <1>3, <1>4, <1>5, <1>6, <1>7 DEF Next, HsStep

(* A generation that has taken over listens on exactly the ports of its    *)
(* configuration and holds no other listening socket, through any number   *)
(* of restarts (CloseUnusedOldListeners); and each of its sockets has the  *)
(* configured address, or any address is configured and it is inherited    *)
(* (GetListener).                                                          *)
THEOREM TakesOver ==
  ASSUME Overlap, Careful
  PROVE  Spec => []HoldsItsOwn
<1>1. IInv /\ AddressInv => HoldsItsOwn
  <2> SUFFICES ASSUME IInv, AddressInv, NEW g \in Masters
               PROVE  /\ {l.port : l \in gens[g].list} = gens[g].config.ports
                      /\ {l.sock : l \in gens[g].list} = DOMAIN gens[g].fds
                      /\ \A s \in SocketsOf(gens[g]) : OwnAddress(g, gens[g], s)
    BY DEF HoldsItsOwn, OwnAddress
  <2>1. g \in Gens /\ gens[g] \in GenRec /\ GenInv(gens[g])
    BY GenFacts DEF Masters
  <2>2. Complete(gens[g]) /\ ListInOrder(gens[g])
    BY <2>1 DEF GenInv, Masters
  <2>3. gens[g].list \subseteq [sock : Fds, port : Ports]
    BY <2>1 DEF GenRec
  <2>4. gens[g].config.ports \subseteq Ports
    BY <2>2, HandoverAssumption DEF Complete
  <2>5. {l.port : l \in gens[g].list} = gens[g].config.ports
    BY <2>2, <2>3, <2>4 DEF Complete
  <2>6. {l.sock : l \in gens[g].list} = DOMAIN gens[g].fds
    BY <2>2 DEF Complete, ListInOrder
  <2>7. \A l \in gens[g].list : OwnAddress(g, gens[g], gens[g].fds[l.sock])
    BY <2>1 DEF AddressInv, GenAddress, Masters
  <2>8. \A s \in SocketsOf(gens[g]) : OwnAddress(g, gens[g], s)
    BY <2>2, <2>7 DEF SocketsOf, Complete
  <2> QED BY <2>5, <2>6, <2>8
<1>2. IInv /\ AddressInv /\ [Next]_vars => IInv' /\ AddressInv'
  BY NextKeeps, AddressStep
<1> QED BY <1>1, <1>2, InitIInv, AddressInit, PTL DEF Spec
----------------------------------------------------------------------------
(* What the peers see.                                                     *)
KeptOpen ==
  script.pc # "start" => \A port \in Kept : \E s \in Open(gens) : s.port = port

LEMMA KeptIsOpen == IInv => KeptOpen
<1> SUFFICES ASSUME IInv, script.pc # "start", NEW port \in Kept
             PROVE  \E s \in Open(gens) : s.port = port
  BY DEF KeptOpen
<1>1. PICK g \in Gens : gens[g].phase \in {"detached", "serving"}
  BY DEF IInv, StandInv, Standing
<1>2. Complete(gens[g]) /\ ListInOrder(gens[g])
  BY <1>1, GenFacts DEF GenInv
<1>3. port \in gens[g].config.ports /\ port \in Ports
  BY <1>2 DEF Kept, Complete
<1>4. PICK l \in gens[g].list : l.port = port
  BY <1>2, <1>3 DEF Complete
<1>5. l.sock \in DOMAIN gens[g].fds /\ gens[g].fds[l.sock].port = port
  BY <1>2, <1>4 DEF ListInOrder
<1>6. gens[g].fds[l.sock] \in Open(gens)
  BY <1>5, OpenIs
<1> QED BY <1>5, <1>6

LEMMA KeptIsOpenNext == IInv' => KeptOpen'
  BY KeptIsOpen, PTL

View == [c \in Conns |-> [state |-> conn[c].state, port |-> conn[c].port]]

(* Sockets that close take connections with them only where the address is *)
(* not kept: to a kept one there is an open socket, and there was only one.*)
LEMMA ClosingDrops ==
  ASSUME IInv, IInv', script' = script, conn' = AfterClosing(gens'),
         Open(gens') \subseteq Open(gens)
  PROVE  \E S \in SUBSET Conns :
           /\ \A c \in S : conn[c].state = "queued" /\ conn[c].port \notin Kept
           /\ \A c \in Conns :
                /\ conn'[c].port = conn[c].port
                /\ conn'[c].state = IF c \in S THEN "reset" ELSE conn[c].state
<1> DEFINE S == {c \in Conns : conn[c].state = "queued" /\ conn[c].at \notin Open(gens')}
<1>1. ASSUME NEW c \in S
      PROVE  conn[c].state = "queued" /\ conn[c].port \notin Kept
  <2>1. /\ conn[c].state = "queued" /\ conn[c].at \notin Open(gens')
        /\ conn[c].at \in Open(gens) /\ conn[c].at.port = conn[c].port
        /\ script.pc # "start"
    BY DEF IInv, WaitInv
  <2>2. ASSUME conn[c].port \in Kept
        PROVE  FALSE
    <3>1. \E s \in Open(gens') : s.port = conn[c].port
      BY <2>1, <2>2, KeptIsOpenNext DEF KeptOpen
    <3> QED BY <2>1, <3>1 DEF IInv, OneSocket
  <2> QED BY <2>1, <2>2
<1>2. ASSUME NEW c \in Conns
      PROVE  /\ conn'[c].port = conn[c].port
             /\ conn'[c].state = IF c \in S THEN "reset" ELSE conn[c].state
  <2>1. conn[c] \in ConnRec
    BY DEF IInv, TypeInv
  <2> QED BY <2>1 DEF AfterClosing, ConnRec
<1> QED BY <1>1, <1>2

LEMMA ViewKeeps ==
  ASSUME IInv, Overlap, Careful, [Next]_vars
  PROVE  [Outside!ServiceNext]_View
<1>1. conn \in [Conns -> ConnRec]
  BY DEF IInv, TypeInv
<1>2. /\ \A c \in Conns : View[c].state = conn[c].state /\ View[c].port = conn[c].port
      /\ \A c \in Conns : View'[c] = [state |-> conn'[c].state, port |-> conn'[c].port]
  BY DEF View
<1>3. ASSUME NEW g \in Gens, MasterStep(g)
      PROVE  [Outside!ServiceNext]_View
  <2>1. CASE conn' = conn
    BY <2>1 DEF View
  <2>2. CASE conn' = AfterClosing(gens') /\ Open(gens') \subseteq Open(gens)
    <3>1. PICK S \in SUBSET Conns :
            /\ \A c \in S : conn[c].state = "queued" /\ conn[c].port \notin Kept
            /\ \A c \in Conns :
                 /\ conn'[c].port = conn[c].port
                 /\ conn'[c].state = IF c \in S THEN "reset" ELSE conn[c].state
      BY <1>3, <2>2, MasterKeeps, ClosingDrops
    <3>2. Outside!Drop(S)
      BY <3>1 DEF Outside!Drop, Outside!Waiting, View
    <3> QED BY <3>2 DEF Outside!ServiceNext
  <2> QED BY <1>3, <2>1, <2>2, MasterKeeps
<1>4. CASE HsStep
  BY <1>4, Usr2Step, TermStep, WatchStep DEF HsStep, View, HsSeesNew
<1>5. ASSUME NEW c \in Conns, NEW port \in Ports, Connects(c, port)
      PROVE  [Outside!ServiceNext]_View
  <2>1. PICK state \in {"queued", "refused"} :
          /\ conn'[c].state = state /\ conn'[c].port = port
          /\ \A d \in Conns \ {c} : conn'[d] = conn[d]
          /\ port \in Kept => state = "queued"
    BY <1>1, <1>5, KeptIsOpen DEF Connects, KeptOpen, ConnRec
  <2>2. Outside!Connect(c, port, state)
    BY <1>5, <2>1 DEF Outside!Connect, View, Connects
  <2> QED BY <2>2 DEF Outside!ServiceNext
<1>6. ASSUME NEW c \in Conns, NEW g \in Gens, Accepts(g, c)
      PROVE  [Outside!ServiceNext]_View
  <2>1. /\ conn[c].state = "queued" /\ conn'[c].state = "accepted"
        /\ conn'[c].port = conn[c].port
        /\ \A d \in Conns \ {c} : conn'[d] = conn[d]
    BY <1>1, <1>6 DEF Accepts, ConnRec
  <2>2. Outside!Accept(c)
    BY <2>1 DEF Outside!Accept, Outside!Waiting, View
  <2> QED BY <2>2 DEF Outside!ServiceNext
<1>7. ASSUME NEW c \in Conns, Answers(c)
      PROVE  [Outside!ServiceNext]_View
  <2>1. /\ conn[c].state = "accepted" /\ conn'[c].state = "answered"
        /\ conn'[c].port = conn[c].port
        /\ \A d \in Conns \ {c} : conn'[d] = conn[d]
    BY <1>1, <1>7 DEF Answers, ConnRec
  <2>2. Outside!Answer(c)
    BY <2>1 DEF Outside!Answer, View
  <2> QED BY <2>2 DEF Outside!ServiceNext
<1>8. CASE (\E k \in Configs : OperatorEdits(k)) \/ UNCHANGED vars
  BY <1>8 DEF OperatorEdits, vars, View
<1> QED BY <1>3, <1>4, <1>5, <1>6, <1>7, <1>8 DEF Next, PeerStep

(* Seen from outside, a graceful restart is no break: on an address that   *)
(* every configuration names no connection is refused and none that waits  *)
(* is dropped, whatever the generations do (src/README:14).                *)
THEOREM ServesWithoutBreak ==
  ASSUME Overlap, Careful
  PROVE  Spec => Outside!Safety
<1>1. Init => Outside!ServiceInit
  BY DEF Init, Outside!ServiceInit, Outside!NoPort
<1>2. IInv /\ [Next]_vars => [Outside!ServiceNext]_View
  BY ViewKeeps
<1> QED BY <1>1, <1>2, HandoverInvariant, PTL DEF Spec, Outside!Safety, View
=============================================================================

-------------------------- MODULE RequestResponse --------------------------
(***************************************************************************)
(* From a parsed request to the bytes of its answer and the line in the    *)
(* access log: OnReceivingSocket.c, ProcessHttpRequest.c, OnSendingSocket.c*)
(* with the tables of virtual hosts and mime types and the formatting half *)
(* of fasterhttp.c, for the connections of one worker.                     *)
(*                                                                         *)
(* HttpParser says how a request comes to be whole, WorkerLoop what epoll  *)
(* and the deadlines do to a session, HtmlCache how a changed file leaves  *)
(* the cache; here files do not change and an entry may leave at any time. *)
(* Whether a host's error log and the worker's are written is left out.    *)
(***************************************************************************)
EXTENDS HttpBuffer, HttpUri, SequencesExt

CONSTANTS
  Conn,          \* connections, each with its HttpEnv
  Asks,          \* what each peer may ask: [method, host, uri, accept, keepalive]
  Servers,       \* configured hosts in order: [domain, wwwroot]
  MimeTypes,     \* configured extensions, in order
  Index,         \* server.index, cut at the commas
  HsType,        \* hscallback_type
  Hash,          \* CalcHash of the keys of the two tables
  CompressOn,    \* http_options.compress_on
  DefaultSize,   \* FASTERHTTP_RESPONSE_BUFSIZE_DEFAULT
  MaxSize,       \* FASTERHTTP_RESPONSE_BUFSIZE_MAX
  Faults,        \* system calls that may fail while a request is served
  GivesUp,       \* a peer asks nothing more after a reply that is not 200
  MaxRequests,   \* requests of one connection
  None           \* no host, no header, no connection

(* A second host of one domain, or an extension given twice, is refused at *)
(* the start.                                                              *)
ASSUME ResponseAssumption ==
  /\ \A i, j \in DOMAIN Servers : Servers[i].domain = Servers[j].domain => i = j
  /\ MimeTypes # <<>>
  /\ \A i, j \in DOMAIN MimeTypes : MimeTypes[i] = MimeTypes[j] => i = j
  /\ DefaultSize \in Nat /\ DefaultSize >= 6
  /\ MaxSize \in Nat /\ MaxSize >= DefaultSize
  /\ Faults \subseteq {"none", "compress", "watch"}
  /\ MaxRequests \in Nat

VARIABLES
  conn,            \* the state of each connection
  p_virtualhost,   \* of the request received last, of any connection
  cached,          \* paths of the file cache
  zipped,          \* <<path, algorithm>> of the contents kept compressed
  worker           \* "up", "crashed" or "hung"

vars == <<conn, p_virtualhost, cached, zipped, worker>>
----------------------------------------------------------------------------
(* The hash tables: an array of chains.  Push keeps a key only once and    *)
(* puts it in front of its chain.                                          *)
Bucket(table, key) == Hash[key] % Len(table)

PushHashNode(table, key) ==
  LET b == Bucket(table, key) + 1
  IN  IF key \in Range(table[b]) THEN table
      ELSE [table EXCEPT ![b] = <<key>> \o @]

QueryHashNode(table, key) == key \in Range(table[Bucket(table, key) + 1])

EmptyTable(n) == [i \in 1..n |-> <<>>]

VirtualHostTable ==
  FoldLeft(PushHashNode, EmptyTable((Len(Servers) + 1) * 2),
           [i \in DOMAIN Servers |-> Servers[i].domain])

MimeTypeTable == FoldLeft(PushHashNode, EmptyTable(Len(MimeTypes) * 2), MimeTypes)

HostOf(domain) == CHOOSE h \in Range(Servers) : h.domain = domain

(* The host with an empty domain is the default one.                       *)
DefaultDomain == ""

DefaultHost ==
  IF \E h \in Range(Servers) : h.domain = DefaultDomain THEN HostOf(DefaultDomain) ELSE None

Asked(host) == IF host = None THEN DefaultDomain ELSE host

QueryVirtualHost(req) ==
  IF QueryHashNode(VirtualHostTable, Asked(req.host)) THEN HostOf(Asked(req.host))
  ELSE DefaultHost

AllAsks == UNION {Asks[c] : c \in Conn}

(* CalcHash takes any key and returns an unsigned long.                    *)
ASSUME TableAssumption ==
  /\ Servers \in Seq(Range(Servers)) /\ None \notin Range(Servers)
  /\ Index \in Seq(Range(Index))
  /\ \A key \in DOMAIN Hash : Hash[key] \in Nat
  /\ \A h \in Range(Servers) : h.domain \in DOMAIN Hash /\ h.domain # None
  /\ \A req \in AllAsks :
       /\ Asked(req.host) \in DOMAIN Hash
       /\ req.accept = None \/ req.accept \in Seq(Range(req.accept))

(* The extension, a slice of the URI, as a key of the table.               *)
QueryMimeType(ext) == Len(ext) = 1 /\ QueryHashNode(MimeTypeTable, ext[1])
----------------------------------------------------------------------------
(* The pieces of a reply.  The encoding "plain" stands for the missing     *)
(* Content-Encoding header of a content that goes out as it is.            *)
StartLine(status) == [is |-> "start", status |-> status]
Headers(enc, len, keep) ==
  [is |-> "headers", encoding |-> enc, length |-> len, keep |-> keep]
Content(path, enc, i) ==
  [is |-> "content", path |-> path, encoding |-> enc, nth |-> i]
StatusText(status) == [is |-> "text", status |-> status]
Stray == [is |-> "stray"]

(* The length a compressed content has, against n plain.                   *)
Zipped(n) == IF n > 1 THEN n - 1 ELSE n

ContentOf(path, enc) ==
  LET n == Site[OnDisk(path)].size
  IN  [i \in 1..(IF enc = "plain" THEN n ELSE Zipped(n)) |->
         Content(OnDisk(path), enc, i)]

(* Mutant: the start line is put behind what the buffer holds.             *)
StartLineAppended(b, status) == MemcatHttpBuffer(b, <<StartLine(status)>>)

(* FormatHttpResponseStartLine up to its start line.                       *)
FormatStartLine(b, status) == StrcpyHttpBuffer(b, <<StartLine(status)>>)

(* The same with fill_body_with_status_flag: the length announced is that  *)
(* of the status text, written are the text, a blank and whatever the      *)
(* missing argument of the last "%s" points to.                            *)
FormatErrorReply(b, status) ==
  StrcatfHttpBuffer(FormatStartLine(b, status),
                    <<Headers("plain", 1, FALSE), StatusText(status), Stray>>)
----------------------------------------------------------------------------
(* How far a request has got: the status it returns and the state it has   *)
(* changed.  Status 0: go on.                                              *)
Progress(status, st) == [st EXCEPT !.status = status]

GoesOn(st) == st.status = 0 /\ st.worker = "up"

Filled(st, b) ==
  [st EXCEPT !.buf = b, !.worker = IF b.is = "endless" THEN "hung" ELSE @]

(* Headers and, for GET, the content.                                      *)
AppendReply(st, req, enc, body) ==
  Filled(st, MemcatHttpBuffer(
    StrcatfHttpBuffer(st.buf, <<Headers(enc, Len(body), req.keepalive)>>),
    IF req.method = "GET" THEN body ELSE <<>>))

(* CompressData, unless the content is kept in this form already.          *)
AppendZipped(st, req, fault, path, enc) ==
  IF <<path, enc>> \notin st.zip /\ fault = "compress" THEN Progress(500, st)
  ELSE AppendReply([st EXCEPT !.zip = @ \cup {<<path, enc>>}], req, enc,
                   ContentOf(path, enc))

(* The places of the tokens of Accept-Encoding that the server knows; the  *)
(* first one decides.                                                      *)
Known(accept) ==
  IF accept = None THEN {}
  ELSE {i \in DOMAIN accept : accept[i] \in {"gzip", "deflate"}}

(* With no such token, or without the header, the content goes out as it   *)
(* is.  With compress_on off and the header there, nothing is appended at  *)
(* all: the loop that would bring token_base to NULL is not entered.       *)
AppendNegotiated(st, req, fault, path) ==
  IF req.accept # None /\ ~CompressOn THEN st
  ELSE IF Known(req.accept) = {}
    THEN AppendReply(st, req, "plain", ContentOf(path, "plain"))
  ELSE AppendZipped(st, req, fault, path, req.accept[Min(Known(req.accept))])

(* The page generator outside the server: it appends a reply of its own.   *)
Callback(st, path) ==
  Progress(200, [st EXCEPT
    !.buf = StrcatfHttpBuffer(@, <<Headers("plain", 1, FALSE), Content(path, "plain", 1)>>)])

(* Lines 196-350.  Without a known mime type p_mimetype is a null pointer, *)
(* which is dereferenced only once headers are appended: not when the      *)
(* compression fails and not when nothing is appended at all.              *)
AppendFile(st, req, fault, path, ext) ==
  LET done == AppendNegotiated(st, req, fault, path)
  IN  IF QueryMimeType(ext) /\ ext = <<HsType>> THEN Callback(st, path)
      ELSE IF ~QueryMimeType(ext) /\ done.buf # st.buf
        THEN [st EXCEPT !.worker = "crashed"]
      ELSE done

(* Mutant: what an uncached content was compressed to is not freed.        *)
RegisterLeaks(st, fault, path) ==
  IF ~GoesOn(st) THEN st
  ELSE IF path \in st.cached THEN Progress(200, st)
  ELSE IF fault = "watch" THEN Progress(500, st)
  ELSE Progress(200, [st EXCEPT !.cached = @ \cup {path}])

(* Lines 353-401: into the cache, which takes a watch.  A content that was *)
(* not cached is freed with what it was compressed to when that fails.     *)
RegisterInCache(st, fault, path) ==
  IF ~GoesOn(st) THEN st
  ELSE IF path \in st.cached THEN Progress(200, st)
  ELSE IF fault = "watch"
    THEN Progress(500, [st EXCEPT !.zip = {z \in @ : z[1] # path}])
  ELSE Progress(200, [st EXCEPT !.cached = @ \cup {path}])

(* Lines 78-165: the URI is split, the path looked up in the cache or      *)
(* opened and read.  fread() of an empty file does not return 1.           *)
Refused(path, ret) ==
  ret # 0 \/ \E i \in 2..Len(path) : path[i] = "." /\ path[i - 1] = "."

OpenStatus(st, path, ret) ==
  IF Refused(path, ret) THEN 400
  ELSE IF path \in st.cached THEN 0
  ELSE IF Kind(path) = "none" THEN 404
  ELSE IF Kind(path) = "file" /\ Site[OnDisk(path)].size = 0 THEN 500
  ELSE 0

(* ProcessHttpRequest for anything but a directory.  An index name is the  *)
(* name of a file: a directory of that name counts as missing here.        *)
ProcessFile(st, req, fault, path, parts) ==
  IF OpenStatus(st, path, parts.ret) # 0
    THEN Progress(OpenStatus(st, path, parts.ret), st)
  ELSE IF Kind(path) = "dir" THEN Progress(404, st)
  ELSE RegisterInCache(AppendFile(st, req, fault, path, parts.ext), fault, path)

(* The index files of a directory in their order, until one is served.     *)
(* What one that failed has appended stays in the buffer.                  *)
TryIndex(st, req, fault, path, name) ==
  IF st.status = 200 \/ st.worker # "up" THEN st
  ELSE ProcessFile(Progress(0, st), req, fault, path \o name,
                   SplitHttpUri(path, name))

ServedIndex(st) == Progress(IF st.status = 200 THEN 0 ELSE 404, st)

(* The directory itself is cached, too.                                    *)
ProcessDirectory(st, req, fault, path) ==
  RegisterInCache(
    ServedIndex(FoldLeft(LAMBDA before, name : TryIndex(before, req, fault, path, name),
                         Progress(404, st), Index)),
    fault, path)

ProcessHttpRequest(st, req, fault, path, parts) ==
  IF OpenStatus(st, path, parts.ret) = 0 /\ Kind(path) = "dir"
    THEN ProcessDirectory(st, req, fault, path)
    ELSE ProcessFile(st, req, fault, path, parts)
----------------------------------------------------------------------------
(* What a peer reads: a start line, headers and, unless it asked HEAD, as  *)
(* many pieces as the headers announce; then the next reply.  A reply that *)
(* is not whole yet is not counted, and what comes behind the reply to the *)
(* last request is not read before the next is asked.                      *)
Garbage == [status |-> 0, headers |-> Headers("plain", 0, FALSE), body |-> <<>>]

Framed(out, i) == i < Len(out) /\ out[i].is = "start" /\ out[i + 1].is = "headers"

Announced(out, i, req) == IF req.method = "HEAD" THEN 0 ELSE out[i + 1].length

Whole(out, i, req) ==
  i < Len(out) /\ (Framed(out, i) => i + 1 + Announced(out, i, req) <= Len(out))

Reply(out, i, req) ==
  IF ~Framed(out, i) THEN Garbage
  ELSE [status |-> out[i].status, headers |-> out[i + 1],
        body |-> SubSeq(out, i + 2, i + 1 + Announced(out, i, req))]

(* Where the peer reads on after k replies; behind garbage, nowhere.       *)
Starts(out, asked) ==
  LET At[k \in 0..Len(asked)] ==
        IF k = 0 THEN 1
        ELSE LET i == At[k - 1]
             IN  IF Framed(out, i) THEN i + 2 + Announced(out, i, asked[k].req)
                 ELSE Len(out) + 1
  IN  At

Replies(out, asked) ==
  LET at == Starts(out, asked)
  IN  [k \in {n \in DOMAIN asked : Whole(out, at[n - 1], asked[n].req)} |->
         Reply(out, at[k - 1], asked[k].req)]

RepliesTo(c) == Replies(conn[c].out, conn[c].asked)

AsksOn(c) ==
  /\ Len(conn[c].asked) < MaxRequests
  /\ GivesUp =>
       LET replies == RepliesTo(c)
       IN  \A k \in DOMAIN replies : replies[k].status = 200
----------------------------------------------------------------------------
(* OnReceivingSocket once ReceiveHttpRequestNonblock has a whole request.  *)
(* A fault in a call that is not made is no fault.                         *)
Served(b, req, fault, host) ==
  LET st == [status |-> 0, buf |-> b, cached |-> cached, zip |-> zipped,
             worker |-> "up"]
  IN  IF host = None THEN Progress(403, st)
      ELSE ProcessHttpRequest([st EXCEPT !.buf = FormatStartLine(b, 200)], req,
                              fault, host.wwwroot \o req.uri,
                              SplitHttpUri(host.wwwroot, req.uri))

Replied(done) ==
  IF done.status = 200 THEN done.buf ELSE FormatErrorReply(done.buf, done.status)

OnReceivingSocket(c, req, fault) ==
  /\ worker = "up" /\ conn[c].phase = "reading" /\ AsksOn(c)
  /\ p_virtualhost' = QueryVirtualHost(req)
  /\ \E done \in {Served(conn[c].buf, req, fault, p_virtualhost')} :
       /\ fault # "none" => done # Served(conn[c].buf, req, "none", p_virtualhost')
       /\ conn' = [conn EXCEPT
            ![c].phase = "writing",
            ![c].asked = Append(@, [req |-> req, fault |-> fault]),
            ![c].buf = Replied(done)]
       /\ cached' = done.cached
       /\ zipped' = done.zip
       /\ worker' = done.worker

Unsent(c) == Len(conn[c].buf.data) - conn[c].buf.process

Sent(c, n) == SubSeq(conn[c].buf.data, conn[c].buf.process + 1,
                     conn[c].buf.process + n)

(* send() takes a part: FASTERHTTP_INFO_TCP_SEND_WOULDBLOCK.               *)
SendsPart(c, n) ==
  /\ worker = "up" /\ conn[c].phase = "writing" /\ n < Unsent(c)
  /\ conn' = [conn EXCEPT ![c].buf.process = @ + n, ![c].out = @ \o Sent(c, n)]
  /\ UNCHANGED <<p_virtualhost, cached, zipped, worker>>

(* ResetHttpEnv's share of the response buffer: it is cleaned, and a large *)
(* one is given back.  Line 629 would keep an unsent rest, but the flag it *)
(* asks for is set only with bytes left in the request buffer, and line    *)
(* 619 has cleared it by then.                                             *)
ResetResponseBuffer(b) ==
  IF b.size > MaxSize THEN ReallocHttpBuffer(CleanHttpBuffer(b), DefaultSize)
  ELSE CleanHttpBuffer(b)

AllSent(b) == [b EXCEPT !.process = Len(b.data)]

LastAsked(c) == conn[c].asked[Len(conn[c].asked)].req

(* Mutant: a line for every part that was sent.                            *)
LogEveryPart(c) ==
  IF p_virtualhost = None THEN conn[c].logged
  ELSE [i \in 1..Len(conn[c].out) |-> p_virtualhost.wwwroot]

(* The line goes to the log of the host of the request received last.      *)
AccessLog(c) ==
  IF p_virtualhost = None THEN conn[c].logged
  ELSE Append(conn[c].logged, p_virtualhost.wwwroot)

(* The rest goes out: a line for the access log, then the next request of  *)
(* a Keep-Alive connection, or the end of it.                              *)
SendsRest(c) ==
  /\ worker = "up" /\ conn[c].phase = "writing"
  /\ conn' = [conn EXCEPT
       ![c].out = @ \o Sent(c, Unsent(c)),
       ![c].logged = AccessLog(c),
       ![c].phase = IF LastAsked(c).keepalive THEN "reading" ELSE "closed",
       ![c].buf = ResetResponseBuffer(AllSent(@))]
  /\ UNCHANGED <<p_virtualhost, cached, zipped, worker>>

(* send() fails, the peer resets, or the session runs into its deadline.   *)
ConnectionFails(c) ==
  /\ worker = "up" /\ conn[c].phase \in {"reading", "writing"}
  /\ conn' = [conn EXCEPT
       ![c] = [phase |-> "failed", buf |-> ResetResponseBuffer(@.buf),
               asked |-> <<>>, out |-> <<>>, logged |-> <<>>]]
  /\ UNCHANGED <<p_virtualhost, cached, zipped, worker>>

(* HtmlCacheEventHander drops the entry of a path.                         *)
CacheEvicts(path) ==
  /\ worker = "up" /\ path \in cached
  /\ cached' = cached \ {path}
  /\ zipped' = {z \in zipped : z[1] # path}
  /\ UNCHANGED <<conn, p_virtualhost, worker>>

Init ==
  /\ conn = [c \in Conn |->
       [phase |-> "reading", buf |-> NewBuffer(DefaultSize), asked |-> <<>>,
        out |-> <<>>, logged |-> <<>>]]
  /\ p_virtualhost = None
  /\ cached = {} /\ zipped = {}
  /\ worker = "up"

Next ==
  \/ \E c \in Conn :
       \/ \E req \in Asks[c], fault \in Faults : OnReceivingSocket(c, req, fault)
       \/ \E n \in 1..(Unsent(c) - 1) : SendsPart(c, n)
       \/ SendsRest(c)
       \/ ConnectionFails(c)
  \/ \E path \in cached : CacheEvicts(path)

Spec == Init /\ [][Next]_vars
----------------------------------------------------------------------------
ResponseTypeOK ==
  /\ \A c \in Conn :
       /\ conn[c].phase \in {"reading", "writing", "closed", "failed"}
       /\ conn[c].buf.size \in Nat /\ conn[c].buf.process \in Nat
       /\ Len(conn[c].asked) <= MaxRequests
       /\ \A k \in DOMAIN conn[c].asked : conn[c].asked[k].req \in Asks[c]
  /\ p_virtualhost \in Range(Servers) \cup {None}
  /\ \A path \in cached : Kind(path) # "none"
  /\ \A z \in zipped : z[1] \in cached /\ z[2] \in {"gzip", "deflate"}
  /\ worker \in {"up", "crashed", "hung"}

(* No write leaves a response buffer, over any number of replies and       *)
(* growths (StrcpyHttpBuffer, StrcatfHttpBuffer, MemcatHttpBuffer,         *)
(* ReallocHttpBuffer), and the worker goes on serving.                     *)
BuffersSound ==
  worker = "up" /\ \A c \in Conn : Sound(conn[c].buf)

(* What a request deserves, from the configuration and the file system     *)
(* alone: the file it names, the first index file of the directory, or     *)
(* nothing.                                                                *)
Readable(path) ==
  OnDisk(path) \in DOMAIN Site /\ Site[OnDisk(path)].kind = "file"
  /\ Site[OnDisk(path)].size > 0

WantedAt(path) ==
  LET found == {i \in DOMAIN Index : Readable(path \o Index[i])}
  IN  IF Readable(path) THEN {path}
      ELSE IF Kind(path) = "dir" /\ found # {} THEN {path \o Index[Min(found)]}
      ELSE {}

HostFor(req) ==
  LET fits == {h \in Range(Servers) : h.domain = req.host}
  IN  IF fits # {} THEN CHOOSE h \in fits : TRUE ELSE DefaultHost

Wanted(req) ==
  LET host == HostFor(req)
  IN  IF host = None THEN {} ELSE WantedAt(host.wwwroot \o req.uri)

IsPage(path) == OnDisk(path)[Len(OnDisk(path))] = HsType

Compresses(req) == req.accept # None /\ Range(req.accept) \cap {"gzip", "deflate"} # {}

AnswersWith(content, reply, req) ==
  /\ (reply.headers.encoding # "plain") <=> Compresses(req)
  /\ Compresses(req) => reply.headers.encoding \in Range(req.accept)
  /\ reply.headers.length = Len(content)
  /\ reply.headers.keep = req.keepalive
  /\ reply.body = IF req.method = "HEAD" THEN <<>> ELSE content

Answers(reply, req, fault, wanted) ==
  /\ reply.status = 200 =>
       \E path \in wanted : ~IsPage(path) =>
         AnswersWith(ContentOf(path, reply.headers.encoding), reply, req)
  /\ wanted # {} /\ fault = "none" => reply.status = 200
  /\ reply.status \in {200, 400, 403, 404, 500}
  /\ reply.status # 200 /\ req.method = "GET" =>
       reply.body = <<StatusText(reply.status)>>

(* A peer reads, in the order it asked, one whole reply per request: the   *)
(* content of the file it named on the host it named, in a form it         *)
(* accepts and as long as announced, or an error of which nothing of a     *)
(* half-made reply is left.  src/README:10 promises Keep-Alive, which      *)
(* lives on replies being told apart.                                      *)
RepliesMatch ==
  \A c \in Conn :
    LET replies == RepliesTo(c)
    IN  /\ \A k \in DOMAIN replies :
             LET a == conn[c].asked[k]
             IN  Answers(replies[k], a.req, a.fault, Wanted(a.req))
        /\ conn[c].phase \in {"reading", "closed"} =>
             DOMAIN replies = DOMAIN conn[c].asked

(* Where a reply may leave its buffer after all, or end the worker.  The   *)
(* proofs of BuffersSound and ResponseTypeOK suppose none of it:           *)
(* a content that does not fit the largest buffer that is doubled, with    *)
(* enough turns of the growing loop looked at;                             *)
ContentsFit ==
  /\ \A path \in DOMAIN Site : Site[path].size + 3 <= GrowthLimit
  /\ DefaultSize <= GrowthLimit /\ GrowthLimit <= MaxGrowths

(* a file whose extension has no mime type;                                *)
Requested ==
  UNION {{h.wwwroot \o req.uri : req \in AllAsks} : h \in Range(Servers)}

TypesKnown ==
  /\ \A h \in Range(Servers), req \in AllAsks :
       Kind(h.wwwroot \o req.uri) = "file"
         => QueryMimeType(SplitHttpUri(h.wwwroot, req.uri).ext)
  /\ \A path \in Requested, i \in DOMAIN Index :
       Kind(path \o Index[i]) = "file"
         => QueryMimeType(SplitHttpUri(path, Index[i]).ext)

(* a second index file tried after the first was appended but not watched; *)
OneIndexFile ==
  "watch" \in Faults =>
    \A path \in Requested : \A i, j \in DOMAIN Index :
      Readable(path \o Index[i]) /\ Readable(path \o Index[j]) => i = j

Harmless == ContentsFit /\ TypesKnown /\ OneIndexFile

(* What more a peer needs to tell its replies apart, as the proof of       *)
(* RepliesMatch supposes (GivesUp is one part): it asks GET or HEAD, since *)
(* any other method gets the length of a content that does not follow;     *)
GetOrHead == \A req \in AllAsks : req.method \in {"GET", "HEAD"}

(* it gets more than a start line when it names encodings;                 *)
Negotiates == CompressOn \/ \A req \in AllAsks : req.accept = None

(* no page is asked for with HEAD, which its generator does not look at;   *)
PagesWhole ==
  \A req \in AllAsks, h \in Range(Servers) : req.method = "HEAD" =>
    /\ ~IsPage(h.wwwroot \o req.uri)
    /\ \A i \in DOMAIN Index : ~IsPage(h.wwwroot \o req.uri \o Index[i])

(* what exists can be named, and a page by its extension only;             *)
Nameable(wwwroot, uri) ==
  LET path  == wwwroot \o uri
      parts == SplitHttpUri(wwwroot, uri)
  IN  Kind(path) # "none" =>
        ~Refused(path, parts.ret) /\ (parts.ext = <<HsType>> => IsPage(path))

NamesPlain ==
  /\ \A h \in Range(Servers), req \in AllAsks : Nameable(h.wwwroot, req.uri)
  /\ \A path \in Requested, i \in DOMAIN Index : Nameable(path, Index[i])

(* where calls fail, a directory has no second index file to go on to.     *)
IndexDecides ==
  Faults \subseteq {"none"} \/
    \A path \in Requested : \A i, j \in DOMAIN Index :
      Readable(path \o Index[i]) /\ Readable(path \o Index[j]) => i = j

Tellable ==
  GivesUp /\ GetOrHead /\ Negotiates /\ PagesWhole /\ NamesPlain /\ IndexDecides

(* With a default host every reply that went out whole left one line in an *)
(* access log, however connections interleave (OnSendingSocket 46-72).     *)
RepliesLogged ==
  \A c \in Conn :
    Len(conn[c].logged) =
      Len(conn[c].asked) - (IF conn[c].phase = "writing" THEN 1 ELSE 0)
=============================================================================

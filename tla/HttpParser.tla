------------------------------ MODULE HttpParser ------------------------------
(***************************************************************************)
(* The request parser of one connection (fasterhttp.c): what recv() brings *)
(* is appended to the request buffer, and ParseHttpBuffer goes on from     *)
(* where the last call stopped.  One action is one case of its switch.     *)
(*                                                                         *)
(* The buffer holds symbols: a blank, CR, NL, a colon, a digit, or a word  *)
(* that the parser compares as a whole ("GET", "Content-Length").  Words   *)
(* it does not know may be cut anywhere.  A pointer is an offset from      *)
(* b->base; requests fit the buffer, so that the base does not move.       *)
(***************************************************************************)
EXTENDS Integers, Sequences

CONSTANTS
  Symbols,          \* what a buffer may hold
  Number,           \* the symbols with a numeric value, as a function to it
  BufSize,          \* FASTERHTTP_REQUEST_BUFSIZE_DEFAULT
  HeaderArraySize,  \* FASTERHTTP_HEADER_ARRAYSIZE_DEFAULT
  HeaderArrayMax,   \* FASTERHTTP_HEADER_ARRAYSIZE_MAX
  OtherVersions,    \* the texts with as many letters as HTTP/1.1 that differ
                    \* from it before the last letter
  Conversations,    \* what a peer may send: sequences of requests, each with
                    \* its bytes, the outcome it should have, and whether the
                    \* peer may send the next one before it is answered
  BlankLineCut      \* may recv() end between CR and NL of the blank line, when
                    \* it brings more than the CR?

SP == "sp"
CR == "cr"
NL == "nl"
Colon == ":"
NUL == "nul"

Methods == {"GET", "PUT", "POST", "HEAD", "TRACE", "DELETE", "OPTIONS"}

(* The texts that pass for a version, and the value they get: one that     *)
(* differs from HTTP/1.1 before the last letter leaves it at 0.            *)
Versions == {<<"HTTP/1.0">>, <<"HTTP/1.1">>} \cup OtherVersions

VersionOf(text) ==
  IF text = <<"HTTP/1.0">> THEN 10 ELSE IF text = <<"HTTP/1.1">> THEN 11 ELSE 0

ASSUME ParserAssumption ==
  /\ {SP, CR, NL, Colon, NUL} \subseteq Symbols
  /\ Number \in [DOMAIN Number -> Nat]
  /\ DOMAIN Number \subseteq Symbols \ {SP, CR, NL, Colon, NUL}
  /\ BufSize \in Nat \ {0} /\ HeaderArraySize \in Nat \ {0}
  /\ HeaderArrayMax \in Nat /\ HeaderArraySize <= HeaderArrayMax
  /\ BlankLineCut \in BOOLEAN
  /\ \A c \in Conversations :
       /\ Len(c) \in Nat /\ DOMAIN c = 1 .. Len(c)
       /\ \A k \in DOMAIN c : c[k].bytes \in Seq(Symbols)

VARIABLES
  conversation, sent, wire,    \* the peer: its plan, requests sent, bytes under way
  mem, process_ptr, fill_ptr,  \* struct HttpBuffer
  e,                           \* struct HttpEnv, the parser's part
  p,                           \* the register of ParseHttpBuffer
  pc,                          \* "recv", "parse", "done", "rejected", "closed"
                               \* or "undefined"
  outcomes                     \* what ParseHttpBuffer has returned for each request

peerVars == <<conversation, sent, wire>>
bufVars == <<mem, process_ptr, fill_ptr>>
vars == <<peerVars, bufVars, e, p, pc, outcomes>>

Offsets == 0 .. BufSize - 1
NoToken == [ptr |-> -1, len |-> 0]
Text(t) == [i \in 1 .. t.len |-> mem[t.ptr + i - 1]]

Token == [ptr : Int, len : Int]
Env ==
  [parse_step : {"BEGIN", "METHOD0", "METHOD", "URI0", "URI", "VERSION0", "VERSION",
                 "HEADER_NAME0", "HEADER_NAME", "HEADER_VALUE0", "HEADER_VALUE",
                 "BODY", "CHUNKED_SIZE", "CHUNKED_DATA", "DONE"},
   reforming_flag : BOOLEAN,
   METHOD : Token, URI : Token, VERSION : Token, TRAILER : Token, name : Token, value : Token,
   method : Methods \cup {""}, version : {0, 10, 11}, content_length : Nat,
   chunked : BOOLEAN, keepalive : {-1, 0, 1},
   header_array : Seq([name : Token, value : Token]), header_array_size : Nat,
   body : Int, chunked_body : Int, chunked_body_end : Int, chunked_length : Nat]

FreshEnv ==
  [parse_step |-> "BEGIN", reforming_flag |-> FALSE,
   METHOD |-> NoToken, URI |-> NoToken, VERSION |-> NoToken, TRAILER |-> NoToken,
   name |-> NoToken, value |-> NoToken,
   method |-> "", version |-> 0, content_length |-> 0, chunked |-> FALSE, keepalive |-> 0,
   header_array |-> <<>>, header_array_size |-> HeaderArraySize,
   body |-> -1, chunked_body |-> -1, chunked_body_end |-> -1, chunked_length |-> 0]

(* malloc() leaves in the buffer what it finds; of a symbol not received   *)
(* the parser tells apart whether it is NL (see HeaderNameEnds).           *)
Init ==
  /\ conversation \in Conversations /\ sent = 0 /\ wire = <<>>
  /\ \E found \in {NUL, NL} : mem = [q \in Offsets |-> found]
  /\ process_ptr = 0 /\ fill_ptr = 0
  /\ e = FreshEnv /\ p = 0 /\ pc = "recv" /\ outcomes = <<>>
----------------------------------------------------------------------------
(* The peer and the socket.                                                *)

(* The peer sends its next request when the last one has been answered, or *)
(* earlier where it pipelines.                                             *)
PeerSends ==
  /\ sent < Len(conversation) /\ pc \notin {"closed", "rejected"}
  /\ sent > 0 => \/ pc = "recv" /\ Len(outcomes) = sent
                 \/ conversation[sent].pipelines /\ Len(outcomes) + 1 >= sent
  /\ sent' = sent + 1
  /\ wire' = wire \o conversation[sent + 1].bytes
  /\ UNCHANGED <<conversation, bufVars, e, p, pc, outcomes>>

BeginParsing(at) ==
  /\ p' = at /\ pc' = "parse"
  /\ e' = IF e.parse_step = "BEGIN" THEN [e EXCEPT !.parse_step = "METHOD0"] ELSE e
  /\ UNCHANGED <<conversation, sent, outcomes>>

(* Bytes that wait at the base of the buffer are parsed before any more    *)
(* are received; the socket only has to be readable.                       *)
ParseWaiting ==
  /\ pc = "recv" /\ wire # <<>>
  /\ process_ptr = 0 /\ process_ptr < fill_ptr
  /\ BeginParsing(process_ptr)
  /\ UNCHANGED <<wire, bufVars>>

(* The buffer then ends with the CR of the blank line.  If the parser has   *)
(* stood before this CR already, it will stand there again.                *)
CutsBlankLine ==
  /\ fill_ptr' >= 2 /\ mem'[fill_ptr' - 2] = NL /\ mem'[fill_ptr' - 1] = CR
  /\ process_ptr # fill_ptr' - 1

Receive ==
  /\ pc = "recv" /\ ~(process_ptr = 0 /\ process_ptr < fill_ptr)
  /\ \E n \in 1 .. Len(wire) :
       /\ fill_ptr + n <= BufSize - 1
       /\ mem' = [q \in Offsets |->
            IF q \in fill_ptr .. fill_ptr + n - 1 THEN wire[q - fill_ptr + 1] ELSE mem[q]]
       /\ fill_ptr' = fill_ptr + n
       /\ wire' = SubSeq(wire, n + 1, Len(wire))
       /\ BlankLineCut \/ ~CutsBlankLine
  /\ UNCHANGED process_ptr
  /\ BeginParsing(process_ptr)
----------------------------------------------------------------------------
(* ParseHttpBuffer.                                                        *)

Parsing(step) == pc = "parse" /\ e.parse_step = step

(* q is the first place from `from` on that holds one of S, or the end.    *)
Stops(q, from, S) ==
  /\ q < fill_ptr => mem[q] \in S
  /\ \A r \in from .. q - 1 : mem[r] \notin S

parseUnchanged == UNCHANGED <<peerVars, mem, fill_ptr>>

(* Mutant: the next call starts over from where this one did.              *)
NeedMoreStartsOver(at) ==
  /\ pc' = "recv"
  /\ UNCHANGED <<process_ptr, p, outcomes>> /\ parseUnchanged

NeedMore(at) ==
  /\ process_ptr' = at /\ pc' = "recv"
  /\ UNCHANGED <<p, outcomes>> /\ parseUnchanged

Rejection(error) ==
  [ret |-> error, method |-> "", uri |-> <<>>, version |-> 0, headers |-> <<>>, body |-> <<>>]

Reject(error) ==
  /\ pc' = "rejected" /\ outcomes' = Append(outcomes, Rejection(error))
  /\ UNCHANGED <<process_ptr, e, p>> /\ parseUnchanged

(* What the handlers read of a request that is complete.                   *)
Request(env, m) ==
  LET Word(t) == [i \in 1 .. t.len |-> m[t.ptr + i - 1]]
  IN  [ret |-> "ok", method |-> env.method, uri |-> Word(env.URI), version |-> env.version,
       headers |-> [i \in DOMAIN env.header_array |->
          <<Word(env.header_array[i].name), Word(env.header_array[i].value)>>],
       body |-> IF env.body = -1 THEN <<>>
                ELSE Word([ptr |-> env.body, len |-> env.content_length])]

Complete(env, at, keep_rest) ==
  /\ process_ptr' = at /\ pc' = "done"
  /\ e' = [env EXCEPT !.parse_step = "DONE",
                      !.reforming_flag = @ \/ (keep_rest /\ fill_ptr > at)]
  /\ outcomes' = Append(outcomes, Request(env, mem))
  /\ UNCHANGED p /\ parseUnchanged

GoOn(env, at) ==
  /\ e' = env /\ p' = at
  /\ UNCHANGED <<process_ptr, pc, outcomes>> /\ parseUnchanged

(* METHOD0, URI0, VERSION0 and HEADER_VALUE0: blanks, then a token begins. *)
TokenBegins(step, t, next, error) ==
  /\ Parsing(step)
  /\ \E q \in p .. fill_ptr :
       /\ Stops(q, p, Symbols \ {SP})
       /\ \/ q = fill_ptr /\ NeedMore(q) /\ UNCHANGED e
          \/ q < fill_ptr /\ mem[q] = NL /\ Reject(error)
          \/ /\ q < fill_ptr /\ mem[q] # NL
             /\ GoOn([e EXCEPT ![t] = [ptr |-> q, len |-> 0], !.parse_step = next], q + 1)

MethodBegins == TokenBegins("METHOD0", "METHOD", "METHOD", "START_LINE_INVALID")
UriBegins == TokenBegins("URI0", "URI", "URI", "START_LINE_INVALID")
VersionBegins == TokenBegins("VERSION0", "VERSION", "VERSION", "START_LINE_INVALID")
ValueBegins == TokenBegins("HEADER_VALUE0", "value", "HEADER_VALUE", "HEADER_INVALID")

To(t, q) == [ptr |-> t.ptr, len |-> q - t.ptr]

MethodEnds ==
  /\ Parsing("METHOD")
  /\ \E q \in p .. fill_ptr :
       /\ Stops(q, p, {SP, NL})
       /\ \/ q = fill_ptr /\ NeedMore(q) /\ UNCHANGED e
          \/ q < fill_ptr /\ mem[q] = NL /\ Reject("START_LINE_INVALID")
          \/ /\ q < fill_ptr /\ mem[q] # NL
             /\ \E m \in Methods :
                  /\ Text(To(e.METHOD, q)) = <<m>>
                  /\ GoOn([e EXCEPT !.METHOD = To(@, q), !.method = m,
                                    !.parse_step = "URI0"], q + 1)
          \/ /\ q < fill_ptr /\ mem[q] # NL
             /\ \A m \in Methods : Text(To(e.METHOD, q)) # <<m>>
             /\ Reject("METHOD_INVALID")

UriEnds ==
  /\ Parsing("URI")
  /\ \E q \in p .. fill_ptr :
       /\ Stops(q, p, {SP, NL})
       /\ \/ q = fill_ptr /\ NeedMore(q) /\ UNCHANGED e
          \/ q < fill_ptr /\ mem[q] = NL /\ Reject("START_LINE_INVALID")
          \/ /\ q < fill_ptr /\ mem[q] # NL
             /\ GoOn([e EXCEPT !.URI = To(@, q), !.parse_step = "VERSION0"], q + 1)

VersionEnds ==
  /\ Parsing("VERSION")
  /\ \E q \in p .. fill_ptr :
       /\ Stops(q, p, {NL})
       /\ LET end == IF mem[q - 1] = CR THEN q - 1 ELSE q
              text == Text(To(e.VERSION, end))
          IN  \/ q = fill_ptr /\ NeedMore(q) /\ UNCHANGED e
              \/ /\ q < fill_ptr /\ text \in Versions
                 /\ GoOn([e EXCEPT !.VERSION = To(@, end), !.version = VersionOf(text),
                                   !.parse_step = "HEADER_NAME0"], q + 1)
              \/ /\ q < fill_ptr /\ text \notin Versions
                 /\ Reject("VERSION_NOT_SUPPORTED")

(* The blank line: a request without a body is complete, and what stands   *)
(* behind it is not marked as kept.                                        *)
GoParsingBody(at) ==
  \/ /\ e.method = "HEAD" \/ (e.content_length <= 0 /\ ~e.chunked)
     /\ Complete(e, at, FALSE)
  \/ /\ e.method # "HEAD" /\ e.content_length > 0
     /\ GoOn([e EXCEPT !.body = at, !.parse_step = "BODY"], at)
  \/ /\ e.method # "HEAD" /\ e.content_length <= 0 /\ e.chunked
     /\ GoOn([e EXCEPT !.body = at, !.chunked_body_end = at,
                       !.parse_step = "CHUNKED_SIZE"], at)

(* A CR at the very end returns without setting process_ptr.               *)
HeaderNameBegins ==
  /\ Parsing("HEADER_NAME0")
  /\ \/ p = fill_ptr /\ NeedMore(p) /\ UNCHANGED e
     \/ /\ p < fill_ptr /\ mem[p] = CR
        /\ \/ p + 1 = fill_ptr /\ NeedMore(process_ptr) /\ UNCHANGED e
           \/ p + 1 < fill_ptr /\ GoParsingBody(IF mem[p + 1] = NL THEN p + 2 ELSE p + 1)
     \/ p < fill_ptr /\ mem[p] = NL /\ GoParsingBody(p + 1)
     \/ /\ p < fill_ptr /\ mem[p] \notin {CR, NL}
        /\ GoOn([e EXCEPT !.name.ptr = p, !.parse_step = "HEADER_NAME"], p + 1)

(* The search for the colon tests for NL before it tests for the end: it   *)
(* reads the symbol behind the last one received.                          *)
HeaderNameEnds ==
  /\ Parsing("HEADER_NAME")
  /\ \E q \in p .. fill_ptr : \E c \in q .. fill_ptr :
       /\ Stops(q, p, {SP, Colon, NL}) /\ Stops(c, q, {Colon, NL})
       /\ LET named == [e EXCEPT !.name = To(@, q)]
          IN  \/ q = fill_ptr /\ NeedMore(q) /\ UNCHANGED e
              \/ q < fill_ptr /\ mem[c] = NL /\ Reject("HEADER_INVALID")
              \/ q < fill_ptr /\ c = fill_ptr /\ mem[c] # NL /\ NeedMore(c) /\ e' = named
              \/ /\ q < fill_ptr /\ c < fill_ptr /\ mem[c] # NL
                 /\ GoOn([named EXCEPT !.parse_step = "HEADER_VALUE0"], c + 1)

(* Blanks and CR before q do not belong to the value: it ends at r.        *)
EndsAt(r, q) ==
  /\ r > 0 => mem[r - 1] \notin {SP, CR}
  /\ \A s \in r .. q - 1 : mem[s] \in {SP, CR}

(* What the headers that concern the parser do to it.  strtol() reads 0    *)
(* where no number stands.                                                 *)
Interpreted(env, name, value) ==
  [env EXCEPT
     !.content_length = IF name # <<"Content-Length">> THEN @
                        ELSE IF Len(value) > 0 /\ value[1] \in DOMAIN Number
                        THEN Number[value[1]] ELSE 0,
     !.chunked = @ \/ (name = <<"Transfer-Encoding">> /\ value = <<"chunked">>),
     !.TRAILER = IF name = <<"Trailer">> THEN env.value ELSE @,
     !.keepalive = IF name # <<"Connection">> THEN @
                   ELSE CASE value = <<"Keep-Alive">> -> 1
                          [] value = <<"Close">> -> -1
                          [] OTHER -> 0]

(* The header is stored; a full array is doubled, and the new part is      *)
(* cleared from one entry too early: the header just stored is lost.       *)
Stored(env) ==
  LET slot == [name |-> env.name, value |-> env.value]
      full == Len(env.header_array) + 2 > env.header_array_size
  IN  [env EXCEPT
         !.header_array = Append(@, IF full THEN [name |-> NoToken, value |-> NoToken] ELSE slot),
         !.header_array_size = IF full THEN 2 * @ ELSE @,
         !.name = NoToken, !.value = NoToken]

IsTrailer(env, name) ==
  /\ env.chunked /\ env.content_length > 0
  /\ env.TRAILER.len > 0 /\ name = Text(env.TRAILER)

HeaderValueEnds ==
  /\ Parsing("HEADER_VALUE")
  /\ \E q \in p .. fill_ptr : \E r \in 0 .. q :
       /\ Stops(q, p, {NL}) /\ EndsAt(r, q)
       /\ LET name == Text(e.name)
              value == To(e.value, r)
              now == Interpreted([e EXCEPT !.value = value], name, Text(value))
          IN  \/ q = fill_ptr /\ NeedMore(q) /\ UNCHANGED e
              \/ /\ q < fill_ptr /\ IsTrailer(now, name)
                 /\ Complete([now EXCEPT !.header_array =
                                Append(@, [name |-> now.name, value |-> now.value])],
                             q + 1, TRUE)
              \/ /\ q < fill_ptr /\ ~IsTrailer(now, name)
                 /\ GoOn([Stored(now) EXCEPT !.parse_step = "HEADER_NAME0"], q + 1)

(* Mutants: the comparison is off by one, either way.                      *)
BodyOneShort ==
  /\ Parsing("BODY")
  /\ \/ /\ fill_ptr - e.body >= e.content_length - 1
        /\ Complete(e, e.body + e.content_length, TRUE)
     \/ fill_ptr - e.body < e.content_length - 1 /\ NeedMore(fill_ptr) /\ UNCHANGED e

BodyOneMore ==
  /\ Parsing("BODY")
  /\ \/ /\ fill_ptr - e.body > e.content_length
        /\ Complete(e, e.body + e.content_length, TRUE)
     \/ fill_ptr - e.body <= e.content_length /\ NeedMore(fill_ptr) /\ UNCHANGED e

Body ==
  /\ Parsing("BODY")
  /\ \/ /\ fill_ptr - e.body >= e.content_length
        /\ Complete(e, e.body + e.content_length, TRUE)
     \/ fill_ptr - e.body < e.content_length /\ NeedMore(fill_ptr) /\ UNCHANGED e

(* One symbol of the size, in the code's base.                             *)
ChunkedSize ==
  /\ Parsing("CHUNKED_SIZE")
  /\ \/ p = fill_ptr /\ NeedMore(p) /\ UNCHANGED e
     \/ /\ p < fill_ptr /\ mem[p] # NL
        /\ GoOn(IF mem[p] \in DOMAIN Number
                THEN [e EXCEPT !.chunked_length = @ * 10 + Number[mem[p]]] ELSE e, p + 1)

(* Mutant: where the data begins is not noted.                             *)
ChunkedSizeEndsUnset ==
  /\ Parsing("CHUNKED_SIZE") /\ p < fill_ptr /\ mem[p] = NL
  /\ \/ e.chunked_length = 0 /\ Complete(e, p + 1, TRUE)
     \/ e.chunked_length # 0 /\ GoOn([e EXCEPT !.parse_step = "CHUNKED_DATA"], p + 1)

ChunkedSizeEnds ==
  /\ Parsing("CHUNKED_SIZE") /\ p < fill_ptr /\ mem[p] = NL
  /\ \/ /\ e.chunked_length = 0 /\ e.TRAILER.ptr # -1
        /\ GoOn([e EXCEPT !.parse_step = "HEADER_NAME0"], p + 1)
     \/ e.chunked_length = 0 /\ e.TRAILER.ptr = -1 /\ Complete(e, p + 1, TRUE)
     \/ /\ e.chunked_length # 0
        /\ GoOn([e EXCEPT !.chunked_body = p + 1, !.parse_step = "CHUNKED_DATA"], p + 1)

(* The data is moved up behind the chunks before it: the body ends up in   *)
(* one piece.                                                              *)
ChunkedData ==
  /\ Parsing("CHUNKED_DATA")
  /\ LET from == e.chunked_body
         n == e.chunked_length
         next == from + n
     IN  \/ fill_ptr - from < n + 2 /\ NeedMore(fill_ptr) /\ UNCHANGED e
         \/ /\ fill_ptr - from >= n + 2
            /\ mem' = [q \in Offsets |->
                 IF q \in e.chunked_body_end .. e.chunked_body_end + n - 1
                 THEN mem[from + q - e.chunked_body_end] ELSE mem[q]]
            /\ p' = CASE mem'[next] = CR /\ mem'[next + 1] = NL -> next + 2
                      [] mem'[next] = NL -> next + 1
                      [] OTHER -> next
            /\ e' = [e EXCEPT !.chunked_body_end = @ + n, !.content_length = @ + n,
                              !.chunked_length = 0, !.parse_step = "CHUNKED_SIZE"]
            /\ UNCHANGED <<peerVars, process_ptr, fill_ptr, pc, outcomes>>

ParseHttpBuffer ==
  \/ MethodBegins \/ MethodEnds \/ UriBegins \/ UriEnds \/ VersionBegins \/ VersionEnds
  \/ HeaderNameBegins \/ HeaderNameEnds \/ ValueBegins \/ HeaderValueEnds
  \/ Body \/ ChunkedSize \/ ChunkedSizeEnds \/ ChunkedData
----------------------------------------------------------------------------
(* After the response.                                                     *)

CheckHttpKeepAlive ==
  \/ e.version = 10 /\ e.keepalive = 1
  \/ e.version = 11 /\ e.keepalive # -1

(* A large array of headers is given back.                                 *)
ArrayShrinks == e.header_array_size > HeaderArrayMax

(* Mutant: the buffer is emptied whatever stands behind the request.       *)
ResetHttpEnvCleans ==
  /\ process_ptr' = 0 /\ fill_ptr' = 0 /\ UNCHANGED mem
  /\ e' = [FreshEnv EXCEPT !.header_array_size = IF ArrayShrinks THEN @ ELSE e.header_array_size]

(* ResetHttpEnv: the bytes marked as kept move to the base, others are     *)
(* forgotten.  Nothing is erased.                                          *)
ResetHttpEnv ==
  LET len == fill_ptr - process_ptr
      keep == process_ptr < fill_ptr /\ e.reforming_flag
  IN  /\ mem' = IF keep THEN [q \in Offsets |-> IF q < len THEN mem[process_ptr + q] ELSE mem[q]]
                ELSE mem
      /\ process_ptr' = 0
      /\ fill_ptr' = IF keep THEN len ELSE 0
      /\ e' = [FreshEnv EXCEPT !.reforming_flag = e.reforming_flag /\ ~keep,
                               !.header_array_size =
                                  IF ArrayShrinks THEN @ ELSE e.header_array_size]

(* The array given back is cleared at the size it had before (line 676),   *)
(* beyond its end: what the server does from there on is undefined.        *)
KeepAlive ==
  /\ pc = "done" /\ CheckHttpKeepAlive
  /\ ResetHttpEnv
  /\ pc' = IF ArrayShrinks THEN "undefined" ELSE "recv"
  /\ UNCHANGED <<peerVars, p, outcomes>>

Close ==
  /\ pc = "done" /\ ~CheckHttpKeepAlive
  /\ pc' = "closed"
  /\ UNCHANGED <<peerVars, bufVars, e, p, outcomes>>

Next == PeerSends \/ ParseWaiting \/ Receive \/ ParseHttpBuffer \/ KeepAlive \/ Close

Spec == Init /\ [][Next]_vars
----------------------------------------------------------------------------
(* Properties.                                                             *)

(* Types, and that the parser stays within what has been received.         *)
ParserTypeOK ==
  /\ conversation \in Conversations /\ sent \in 0 .. Len(conversation)
  /\ wire \in Seq(Symbols)
  /\ mem \in [Offsets -> Symbols] /\ fill_ptr \in Offsets
  /\ process_ptr \in 0 .. fill_ptr
  /\ p \in Offsets /\ (pc = "parse" => p <= fill_ptr)
  /\ pc \in {"recv", "parse", "done", "rejected", "closed", "undefined"}
  /\ e \in Env
  /\ e.body <= fill_ptr /\ e.chunked_body <= fill_ptr /\ e.chunked_body_end <= fill_ptr

(* What keeps the parser within the buffer: where the next chunk's data     *)
(* goes is never behind where it is read.                                  *)
BodyWithin ==
  /\ e.parse_step = "BODY" => e.body >= 0
  /\ e.parse_step = "CHUNKED_SIZE" =>
       e.chunked_body_end <= (IF pc = "recv" THEN process_ptr ELSE p)
  /\ e.parse_step = "CHUNKED_DATA" =>
       0 <= e.chunked_body /\ e.chunked_body_end <= e.chunked_body

(* However recv() cuts what the peer sends, ParseHttpBuffer returns for    *)
(* each request what the whole request deserves: its parts, or its error.  *)
OutcomesMatch ==
  \A k \in DOMAIN outcomes : k <= sent /\ outcomes[k] = conversation[k].outcome

(* Between two requests, what is unread is exactly the requests sent and   *)
(* not parsed, never more than two: a request neither takes a byte of the  *)
(* next one nor leaves one behind, and the reset forgets none.  (Said of a *)
(* request that is followed by another.)                                   *)
Outstanding(k) == IF k <= sent THEN conversation[k].bytes ELSE <<>>

NextRequestIntact ==
  LET unread == [q \in 1 .. fill_ptr - process_ptr |-> mem[process_ptr + q - 1]] \o wire
      done == Len(outcomes)
  IN  (pc = "done" \/ (pc = "recv" /\ e.parse_step = "BEGIN")) /\ done < Len(conversation)
        => /\ sent <= done + 2
           /\ unread = Outstanding(done + 1) \o Outstanding(done + 2)

(* The parser waits for bytes only while some are missing: a request that  *)
(* has come in full is parsed, not waited for.  (Bytes kept from before    *)
(* are looked at with the next ones.)                                      *)
WaitsForMissing ==
  pc = "recv" /\ wire = <<>> /\ ~(process_ptr = 0 /\ process_ptr < fill_ptr)
    => Len(outcomes) = sent
=============================================================================

------------------------------ MODULE HttpMessage ------------------------------
(***************************************************************************)
(* How a request is written, in the symbols of HttpParser and for any      *)
(* length: not by a scan but by the places of its parts.  A request r of a *)
(* conversation has a layout l; Written(r, l) says that its bytes stand    *)
(* where l says, and that its outcome is what stands there.  A place is an *)
(* offset from the first byte; a span goes from its first place to the     *)
(* place behind its last one.                                              *)
(***************************************************************************)
EXTENDS HttpParser

Span == [from : Nat, to : Nat]
Header == [name : Span, value : Span, next : Nat]
Layout ==
  [method : Span, uri : Span, version : Span,   \* the words of the start line
   line : Nat,                                  \* the first line behind it
   header : Seq(Header), broken : Header,       \* the headers; one that is wrong
   body : Nat,                                  \* what stands behind the blank line
   length : Nat, chunked : BOOLEAN,             \* what the headers say of it
   chunk : Seq([at : Nat, data : Nat, len : Nat, off : Nat]),
   trailer : Seq(Header), content : Seq(Symbols)]

Byte(r, q) == r.bytes[q + 1]
Size(r) == Len(r.bytes)
Slice(r, s) == [k \in 1 .. s.to - s.from |-> r.bytes[s.from + k]]

Only(r, from, to, S) == \A q \in from .. to - 1 : Byte(r, q) \in S
Free(r, from, to, S) == \A q \in from .. to - 1 : Byte(r, q) \notin S

(* Blanks up to the place where something else stands; a word that a blank *)
(* or the end of the line ends; a line that ends at q, the next at `next`. *)
Gap(r, from, to) ==
  /\ from <= to /\ to < Size(r)
  /\ Only(r, from, to, {SP}) /\ Byte(r, to) # SP

Word(r, s) ==
  /\ s.from < s.to /\ s.to < Size(r)
  /\ Free(r, s.from, s.to, {SP, NL}) /\ Byte(r, s.to) \in {SP, NL}

EndOfLine(r, q, next) ==
  /\ next <= Size(r)
  /\ \/ Byte(r, q) = NL /\ next = q + 1
     \/ Byte(r, q) = CR /\ Byte(r, q + 1) = NL /\ next = q + 2
----------------------------------------------------------------------------
(* The start line, as far as it goes: each step is what the one before     *)
(* leads to when the line is not at its end too early.                     *)
MethodGap(r, l) == Gap(r, 0, l.method.from)
MethodWord(r, l) ==
  MethodGap(r, l) /\ Byte(r, l.method.from) # NL /\ Word(r, l.method)

IsMethod(r, l) == \E m \in Methods : Slice(r, l.method) = <<m>>

UriGap(r, l) ==
  /\ MethodWord(r, l) /\ Byte(r, l.method.to) = SP /\ IsMethod(r, l)
  /\ Gap(r, l.method.to, l.uri.from)
UriWord(r, l) == UriGap(r, l) /\ Byte(r, l.uri.from) # NL /\ Word(r, l.uri)

VersionGap(r, l) ==
  UriWord(r, l) /\ Byte(r, l.uri.to) = SP /\ Gap(r, l.uri.to, l.version.from)

(* The version is all that is left of the line, less one CR.               *)
VersionWord(r, l) ==
  /\ VersionGap(r, l) /\ Byte(r, l.version.from) # NL
  /\ l.version.from < l.line - 1 /\ l.line <= Size(r)
  /\ Free(r, l.version.from, l.line - 1, {NL}) /\ Byte(r, l.line - 1) = NL
  /\ l.version.to = IF Byte(r, l.line - 2) = CR THEN l.line - 2 ELSE l.line - 1

IsVersion(r, l) == Slice(r, l.version) \in Versions

StartLine(r, l) == VersionWord(r, l) /\ IsVersion(r, l)
----------------------------------------------------------------------------
(* A header from its line's start to the next line: a name with no blank   *)
(* before its colon, and a value that is not empty.                        *)
NameAt(r, h, at) ==
  /\ h.name.from = at /\ at < h.name.to /\ Byte(r, at) # CR
  /\ Free(r, at, h.name.to, {SP, Colon, NL}) /\ Byte(r, h.name.to) = Colon
  /\ Gap(r, h.name.to + 1, h.value.from)

HeaderAt(r, h, at) ==
  /\ NameAt(r, h, at)
  /\ h.value.from < h.value.to /\ h.value.to < h.next /\ h.next <= Size(r)
  /\ Free(r, h.value.from, h.next - 1, {NL}) /\ Byte(r, h.next - 1) = NL
  /\ Byte(r, h.value.to - 1) \notin {SP, CR}
  /\ Only(r, h.value.to, h.next - 1, {SP, CR})

LineAt(l, i) == IF i = 1 THEN l.line ELSE l.header[i - 1].next

Named(r, h, name) == Slice(r, h.name) = <<name>>
Says(r, h, name, value) == Named(r, h, name) /\ Slice(r, h.value) = <<value>>

(* The headers that say how long the body is and what becomes of the       *)
(* connection do not contradict each other.                                *)
Agrees(r, l) ==
  /\ \A i \in DOMAIN l.header : Named(r, l.header[i], "Content-Length") =>
       /\ ~l.chunked
       /\ \E s \in DOMAIN Number :
            Slice(r, l.header[i].value) = <<s>> /\ Number[s] = l.length
  /\ l.length > 0 =>
       \E i \in DOMAIN l.header : Named(r, l.header[i], "Content-Length")
  /\ l.chunked <=>
       \E i \in DOMAIN l.header : Says(r, l.header[i], "Transfer-Encoding", "chunked")

Headers(r, l) ==
  /\ Len(l.header) < HeaderArraySize
  /\ \A i \in DOMAIN l.header : HeaderAt(r, l.header[i], LineAt(l, i))
  /\ Agrees(r, l)

LastLine(l) == LineAt(l, Len(l.header) + 1)

(* A line that ends before a colon has come, or before a value has.        *)
ColonMissing(r, l) ==
  LET name == l.broken.name
  IN  /\ name.from = LastLine(l) /\ name.from < name.to /\ name.to < Size(r)
      /\ Byte(r, name.from) # CR
      /\ Free(r, name.from, name.to, {Colon, NL}) /\ Byte(r, name.to) = NL

ValueMissing(r, l) ==
  NameAt(r, l.broken, LastLine(l)) /\ Byte(r, l.broken.value.from) = NL
----------------------------------------------------------------------------
(* The three kinds of body.                                                *)
MethodOf(r, l) == Byte(r, l.method.from)

Bodiless(r, l) ==
  /\ MethodOf(r, l) = "HEAD" \/ (l.length = 0 /\ ~l.chunked)
  /\ Size(r) = l.body /\ l.content = <<>>

Counted(r, l) ==
  /\ MethodOf(r, l) # "HEAD" /\ l.length > 0
  /\ Size(r) = l.body + l.length
  /\ l.content = Slice(r, [from |-> l.body, to |-> Size(r)])

(* A chunk has its size in one digit at `at`, its data at `data`, and `off`*)
(* bytes of content in the chunks before it; the last one has no data.     *)
IsChunk(r, c) ==
  /\ Byte(r, c.at) \in DOMAIN Number /\ Number[Byte(r, c.at)] = c.len
  /\ c.len < 16
  /\ EndOfLine(r, c.at + 1, c.data)

ChunkData(r, l, i) ==
  LET c == l.chunk[i]
  IN  /\ c.len > 0
      /\ EndOfLine(r, c.data + c.len, l.chunk[i + 1].at)
      /\ l.chunk[i + 1].off = c.off + c.len
      /\ \A k \in 1 .. c.len : l.content[c.off + k] = Byte(r, c.data + k - 1)

LastChunk(l) == l.chunk[Len(l.chunk)]

(* Names that mean something to the parser.                                *)
Concerns == {<<"Content-Length">>, <<"Transfer-Encoding">>, <<"Trailer">>, <<"Connection">>}

Trailers(r, l) ==
  IF l.trailer = <<>>
  THEN \A i \in DOMAIN l.header : ~Named(r, l.header[i], "Trailer")
  ELSE LET t == l.trailer[1]
       IN  /\ Len(l.trailer) = 1 /\ Len(l.chunk) > 1
           /\ HeaderAt(r, t, LastChunk(l).data)
           /\ Slice(r, t.name) \notin Concerns
           /\ \E i \in DOMAIN l.header : Named(r, l.header[i], "Trailer")
           /\ \A i \in DOMAIN l.header :
                Named(r, l.header[i], "Trailer") => Slice(r, l.header[i].value) = Slice(r, t.name)

BodyEnd(l) == IF l.trailer = <<>> THEN LastChunk(l).data ELSE l.trailer[1].next

Chunks(r, l) ==
  /\ MethodOf(r, l) # "HEAD" /\ l.chunked
  /\ Len(l.chunk) > 0 /\ l.chunk[1].at = l.body /\ l.chunk[1].off = 0
  /\ \A i \in DOMAIN l.chunk : IsChunk(r, l.chunk[i])
  /\ \A i \in 1 .. Len(l.chunk) - 1 : ChunkData(r, l, i)
  /\ LastChunk(l).len = 0 /\ Len(l.content) = LastChunk(l).off
  /\ Trailers(r, l)
  /\ EndOfLine(r, BodyEnd(l), Size(r))

AllHeaders(l) == l.header \o l.trailer

Outcome(r, l) ==
  [ret |-> "ok", method |-> MethodOf(r, l), uri |-> Slice(r, l.uri),
   version |-> VersionOf(Slice(r, l.version)),
   headers |-> [i \in DOMAIN AllHeaders(l) |->
      <<Slice(r, AllHeaders(l)[i].name), Slice(r, AllHeaders(l)[i].value)>>],
   body |-> l.content]

WholeRequest(r, l) ==
  /\ StartLine(r, l) /\ Headers(r, l) /\ EndOfLine(r, LastLine(l), l.body)
  /\ Bodiless(r, l) \/ Counted(r, l) \/ Chunks(r, l)
  /\ ~Chunks(r, l) => l.trailer = <<>>
  /\ r.outcome = Outcome(r, l)
----------------------------------------------------------------------------
(* What is to be rejected, and why.                                        *)
StartLineInvalid(r, l) ==
  \/ MethodGap(r, l) /\ Byte(r, l.method.from) = NL
  \/ MethodWord(r, l) /\ Byte(r, l.method.to) = NL
  \/ UriGap(r, l) /\ Byte(r, l.uri.from) = NL
  \/ UriWord(r, l) /\ Byte(r, l.uri.to) = NL
  \/ VersionGap(r, l) /\ Byte(r, l.version.from) = NL

MethodInvalid(r, l) ==
  MethodWord(r, l) /\ Byte(r, l.method.to) = SP /\ ~IsMethod(r, l)

VersionNotSupported(r, l) == VersionWord(r, l) /\ ~IsVersion(r, l)

HeaderInvalid(r, l) ==
  StartLine(r, l) /\ Headers(r, l) /\ (ColonMissing(r, l) \/ ValueMissing(r, l))

Written(r, l) ==
  /\ l \in Layout
  /\ \/ WholeRequest(r, l)
     \/ StartLineInvalid(r, l) /\ r.outcome = Rejection("START_LINE_INVALID")
     \/ MethodInvalid(r, l) /\ r.outcome = Rejection("METHOD_INVALID")
     \/ VersionNotSupported(r, l) /\ r.outcome = Rejection("VERSION_NOT_SUPPORTED")
     \/ HeaderInvalid(r, l) /\ r.outcome = Rejection("HEADER_INVALID")
----------------------------------------------------------------------------
(* What a conversation must not do for the parser to serve it: a request   *)
(* is pipelined only behind one with a counted body, and a chunked one     *)
(* ends the connection, since of both others the code forgets or keeps the *)
(* bytes behind them wrongly.                                              *)
Closes(r, l) ==
  /\ \E i \in DOMAIN l.header : Named(r, l.header[i], "Connection")
  /\ \A i \in DOMAIN l.header :
       Named(r, l.header[i], "Connection") => Slice(r, l.header[i].value) = <<"Close">>

Servable(c) ==
  \A k \in DOMAIN c :
    LET r == c[k]
        l == c[k].layout
    IN  /\ Written(r, l)
        /\ r.pipelines => WholeRequest(r, l) /\ Counted(r, l)
        /\ WholeRequest(r, l) /\ Chunks(r, l) => k = Len(c) /\ Closes(r, l)

(* Nothing but such conversations.                                         *)
AllServable == \A c \in Conversations : Servable(c)
=============================================================================

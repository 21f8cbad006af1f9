------------------------------ MODULE HttpReading ------------------------------
(***************************************************************************)
(* Where HttpParser stands in what it reads: for every step of the parser  *)
(* (parse_step of fasterhttp.c) the part of the layout of the request that *)
(* its cursor is in and what it has taken over of the parts before; and    *)
(* that the buffer and the socket together hold the bytes that were sent.  *)
(* ReadInv is the invariant that HttpParserProofs finds inductive.         *)
(***************************************************************************)
EXTENDS HttpMessage

(* The bytes sent of the request being read and of the one behind it: how  *)
(* many, and which stands at offset q.                                     *)
Total(k) == Len(Outstanding(k)) + Len(Outstanding(k + 1))
Due(k, q) ==
  IF q < Len(Outstanding(k)) THEN Outstanding(k)[q + 1]
  ELSE Outstanding(k + 1)[q - Len(Outstanding(k)) + 1]

(* The request being read, and the token of a span of it: the request      *)
(* stands at the start of the buffer.                                      *)
Index == Len(outcomes) + 1
This == conversation[Index]
Tok(s) == [ptr |-> s.from, len |-> s.to - s.from]

(* What the first i headers have told the parser. *)
Told(env, r, l, i) ==
  /\ Len(env.header_array) = i /\ i <= Len(l.header)
  /\ env.header_array_size = HeaderArraySize
  /\ l.line <= LineAt(l, i + 1)
  /\ \A j \in 1 .. i : l.header[j].next <= LineAt(l, i + 1)
  /\ \A j \in 1 .. i :
       env.header_array[j] = [name |-> Tok(l.header[j].name), value |-> Tok(l.header[j].value)]
  /\ env.chunked <=> \E j \in 1 .. i : Says(r, l.header[j], "Transfer-Encoding", "chunked")
  /\ \/ env.TRAILER = NoToken /\ \A j \in 1 .. i : ~Named(r, l.header[j], "Trailer")
     \/ \E j \in 1 .. i : Named(r, l.header[j], "Trailer") /\ env.TRAILER = Tok(l.header[j].value)
  /\ Closes(r, l) /\ (\E j \in 1 .. i : Named(r, l.header[j], "Connection")) => env.keepalive = -1

(* content_length after the first i headers.                               *)
LengthTold(r, l, i) ==
  IF \E j \in 1 .. i : Named(r, l.header[j], "Content-Length") THEN l.length ELSE 0

NoBody(env) == env.body = -1 /\ env.chunked_body_end = -1 /\ env.chunked_length = 0

(* Among the headers with those stored that stand first; before the first. *)
InHeaders(env, r, l) ==
  /\ NoBody(env)
  /\ Told(env, r, l, Len(env.header_array))
  /\ env.content_length = LengthTold(r, l, Len(env.header_array))

Empty(env, r, l) == InHeaders(env, r, l) /\ env.header_array = <<>>

(* The start line has been taken over.                                     *)
LineRead(env, r, l) ==
  /\ StartLine(r, l)
  /\ env.method = MethodOf(r, l) /\ env.URI = Tok(l.uri)
  /\ env.version = VersionOf(Slice(r, l.version))

(* Behind the blank line; at or in the i-th chunk, with the contents of    *)
(* those before gathered behind each other; in the line of the trailer.    *)
AllTold(env, r, l) ==
  LineRead(env, r, l) /\ WholeRequest(r, l) /\ Told(env, r, l, Len(l.header)) /\ env.body = l.body

InChunk(env, r, l, i) ==
  /\ AllTold(env, r, l) /\ Chunks(r, l)
  /\ env.chunked_body_end = l.body + l.chunk[i].off /\ env.content_length = l.chunk[i].off

InTrailer(env, r, l) ==
  /\ InChunk(env, r, l, Len(l.chunk)) /\ l.trailer # <<>>
  /\ env.chunked_body_end <= LastChunk(l).data

(* In the lines of headers or of the trailer: where the line being read    *)
(* starts, and the header it holds.                                        *)
InLines(env, r, l) ==
  LineRead(env, r, l) /\ (InHeaders(env, r, l) \/ InTrailer(env, r, l))

LineStart(env, l) ==
  IF env.body = -1 THEN LineAt(l, Len(env.header_array) + 1) ELSE LastChunk(l).data
Current(env, l) ==
  IF env.body # -1 THEN l.trailer[1]
  ELSE IF Len(env.header_array) < Len(l.header) THEN l.header[Len(env.header_array) + 1] ELSE l.broken

(* The cursor stands at `at` in the part of the layout the step reads; a   *)
(* token that has been begun starts where the part does.                   *)
AtMethod0(env, at, r, l) == Empty(env, r, l) /\ MethodGap(r, l) /\ at <= l.method.from
AtMethod(env, at, r, l) ==
  /\ Empty(env, r, l) /\ MethodWord(r, l)
  /\ env.METHOD.ptr = l.method.from /\ l.method.from < at /\ at <= l.method.to
AtUri0(env, at, r, l) ==
  /\ Empty(env, r, l) /\ UriGap(r, l) /\ env.method = MethodOf(r, l)
  /\ l.method.to < at /\ at <= l.uri.from
AtUri(env, at, r, l) ==
  /\ Empty(env, r, l) /\ UriWord(r, l) /\ env.method = MethodOf(r, l)
  /\ env.URI.ptr = l.uri.from /\ l.uri.from < at /\ at <= l.uri.to
AtVersion0(env, at, r, l) ==
  /\ Empty(env, r, l) /\ VersionGap(r, l) /\ env.method = MethodOf(r, l) /\ env.URI = Tok(l.uri)
  /\ l.uri.to < at /\ at <= l.version.from
AtVersion(env, at, r, l) ==
  /\ Empty(env, r, l) /\ VersionWord(r, l) /\ env.method = MethodOf(r, l) /\ env.URI = Tok(l.uri)
  /\ env.VERSION.ptr = l.version.from /\ l.version.from < at /\ at <= l.line - 1
AtName0(env, at, r, l) == InLines(env, r, l) /\ at = LineStart(env, l)
AtName(env, at, r, l) ==
  /\ InLines(env, r, l) /\ Byte(r, LineStart(env, l)) \notin {CR, NL}
  /\ env.name.ptr = LineStart(env, l)
  /\ LineStart(env, l) < at /\ at <= Current(env, l).name.to
AtValue0(env, at, r, l) ==
  /\ InLines(env, r, l) /\ NameAt(r, Current(env, l), LineStart(env, l))
  /\ env.name = Tok(Current(env, l).name)
  /\ Current(env, l).name.to < at /\ at <= Current(env, l).value.from
AtValue(env, at, r, l) ==
  /\ InLines(env, r, l) /\ HeaderAt(r, Current(env, l), LineStart(env, l))
  /\ env.name = Tok(Current(env, l).name) /\ env.value.ptr = Current(env, l).value.from
  /\ Current(env, l).value.from < at /\ at < Current(env, l).next
AtBody(env, at, r, l) ==
  /\ AllTold(env, r, l) /\ Counted(r, l) /\ env.chunked_body_end = -1
  /\ env.content_length = l.length
AtSize(env, at, r, l) ==
  \E i \in DOMAIN l.chunk :
    /\ InChunk(env, r, l, i) /\ l.chunk[i].at <= at /\ at < l.chunk[i].data
    /\ env.chunked_length = IF at = l.chunk[i].at THEN 0 ELSE l.chunk[i].len
AtData(env, at, r, l) ==
  \E i \in 1 .. Len(l.chunk) - 1 :
    /\ InChunk(env, r, l, i)
    /\ env.chunked_body = l.chunk[i].data /\ env.chunked_length = l.chunk[i].len

Standing(env, at, r, l) ==
  \/ env.parse_step = "METHOD0" /\ AtMethod0(env, at, r, l)
  \/ env.parse_step = "METHOD" /\ AtMethod(env, at, r, l)
  \/ env.parse_step = "URI0" /\ AtUri0(env, at, r, l)
  \/ env.parse_step = "URI" /\ AtUri(env, at, r, l)
  \/ env.parse_step = "VERSION0" /\ AtVersion0(env, at, r, l)
  \/ env.parse_step = "VERSION" /\ AtVersion(env, at, r, l)
  \/ env.parse_step = "HEADER_NAME0" /\ AtName0(env, at, r, l)
  \/ env.parse_step = "HEADER_NAME" /\ AtName(env, at, r, l)
  \/ env.parse_step = "HEADER_VALUE0" /\ AtValue0(env, at, r, l)
  \/ env.parse_step = "HEADER_VALUE" /\ AtValue(env, at, r, l)
  \/ env.parse_step = "BODY" /\ AtBody(env, at, r, l)
  \/ env.parse_step = "CHUNKED_SIZE" /\ AtSize(env, at, r, l)
  \/ env.parse_step = "CHUNKED_DATA" /\ AtData(env, at, r, l)

(* The peer is never more than a request ahead, and two only where the one *)
(* being read may be followed without waiting for its answer.              *)
Ahead ==
  /\ outcomes \in Seq({conversation[k].outcome : k \in DOMAIN conversation})
  /\ Len(outcomes) <= sent /\ sent <= Len(outcomes) + 2
  /\ sent = Len(outcomes) + 2 => This.pipelines

(* From `base` on, the buffer and then the socket hold what was sent and   *)
(* has not been answered, in order and nothing else.                       *)
Flow(base) ==
  /\ Len(wire) + fill_ptr - base = Total(Index)
  /\ \A j \in 1 .. Len(wire) : wire[j] = Due(Index, fill_ptr - base + j - 1)

(* What recv() delivered does not end between the two bytes of CR NL right *)
(* behind a line that has not been read (BlankLineCut is FALSE).           *)
Uncut ==
  fill_ptr >= 2 /\ mem[fill_ptr - 2] = NL /\ mem[fill_ptr - 1] = CR /\ e.chunked_body_end = -1
    => process_ptr >= fill_ptr - 1

(* Chunks are moved together within the body; all else in the buffer is as *)
(* it came.                                                                *)
Intact ==
  \A q \in 0 .. fill_ptr - 1 :
    q < e.body \/ e.chunked_body_end <= q => mem[q] = Due(Index, q)

(* The chunks moved together are the first part of the content.            *)
Gathered ==
  e.chunked_body_end # -1 =>
    \A j \in 1 .. e.chunked_body_end - e.body : mem[e.body + j - 1] = This.layout.content[j]

Buffered == Flow(0) /\ Uncut /\ Intact /\ Gathered /\ ~e.reforming_flag

(* recv() is called at the start of a request, or where the request being  *)
(* read is not all there; the parser goes on where it stopped.             *)
Waits ==
  IF e.parse_step = "BEGIN" THEN process_ptr = 0 /\ e = FreshEnv
  ELSE /\ Len(outcomes) < sent /\ fill_ptr < Size(This)
       /\ Standing(e, process_ptr, This, This.layout)

(* A call of ParseHttpRequest is under way.                                *)
Parses ==
  /\ Len(outcomes) < sent /\ process_ptr < Size(This)
  /\ e.chunked_body_end = -1 => process_ptr <= p
  /\ Standing(e, p, This, This.layout)

(* A request was answered: it was the last, or the bytes behind it, and    *)
(* only they, are what the next one starts with.                           *)
Answered ==
  \/ Len(outcomes) = Len(conversation) /\ e.keepalive = -1
  \/ /\ Flow(process_ptr) /\ Uncut /\ e.chunked_body_end = -1
     /\ \A q \in process_ptr .. fill_ptr - 1 : mem[q] = Due(Index, q - process_ptr)
     /\ e.reforming_flag <=> process_ptr < fill_ptr
     /\ e.header_array_size = HeaderArraySize

(* In whatever pieces the bytes of a request arrive, ParseHttpBuffer stands *)
(* in the part of the request its step is for, has taken over what stands  *)
(* before it, and has before it the bytes that were sent, in order.        *)
ReadInv ==
  /\ OutcomesMatch /\ Ahead
  /\ pc \in {"recv", "parse"} => Buffered
  /\ pc = "recv" => Waits
  /\ pc = "parse" => Parses
  /\ pc = "done" => Answered
=============================================================================

---------------------------- MODULE HttpParserMC ----------------------------
(* The conversations for HttpParser.  A request is given by its parts; its  *)
(* bytes are these written out, its outcome is read off the parts, without *)
(* any scanning.                                                           *)
EXTENDS HttpReading, SequencesExt, TLC

CRLF == <<CR, NL>>
MCNumber == ("0" :> 0) @@ ("1" :> 1) @@ ("2" :> 2)

(* line: the words of the start line; headers: pairs of words, or one word *)
(* where the rest is missing; content: the body, in chunks or whole.       *)
Plain(line, headers, eol) ==
  [line |-> line, headers |-> headers, eol |-> eol, content |-> <<>>, chunks |-> <<>>,
   trailers |-> <<>>, pipelines |-> FALSE]
WithBody(r, content) == [r EXCEPT !.content = content, !.pipelines = TRUE]
Chunked(r, chunks, trailers) ==
  [r EXCEPT !.content = FlattenSeq(chunks), !.chunks = chunks, !.trailers = trailers]

Spaced(words) == FlattenSeq([i \in DOMAIN words |-> IF i = 1 THEN words[i] ELSE <<SP>> \o words[i]])
Field(h) == IF Len(h) = 1 THEN h[1] ELSE h[1] \o <<Colon, SP>> \o h[2]
Lines(fields, eol) == FlattenSeq([i \in DOMAIN fields |-> Field(fields[i]) \o eol])
Digit(n) == CHOOSE s \in DOMAIN MCNumber : MCNumber[s] = n
ChunkBytes(chunks, eol) ==
  FlattenSeq([i \in DOMAIN chunks |-> <<Digit(Len(chunks[i]))>> \o eol \o chunks[i] \o eol])

UpToBody(r) == Spaced(r.line) \o r.eol \o Lines(r.headers, r.eol) \o r.eol
Bytes(r) ==
  UpToBody(r) \o (IF r.chunks = <<>> THEN r.content
              ELSE ChunkBytes(r.chunks, r.eol) \o <<Digit(0)>> \o r.eol
                     \o Lines(r.trailers, r.eol) \o r.eol)

Expected(r) ==
  IF Len(r.line) < 2 THEN Rejection("START_LINE_INVALID")
  ELSE IF r.line[1] \notin {<<m>> : m \in Methods} THEN Rejection("METHOD_INVALID")
  ELSE IF Len(r.line) = 2 \/ r.line[3] = <<>> THEN Rejection("START_LINE_INVALID")
  ELSE IF r.line[3] \notin Versions THEN Rejection("VERSION_NOT_SUPPORTED")
  ELSE IF \E i \in DOMAIN r.headers : Len(r.headers[i]) = 1 THEN Rejection("HEADER_INVALID")
  ELSE [ret |-> "ok", method |-> r.line[1][1], uri |-> r.line[2],
        version |-> VersionOf(r.line[3]), headers |-> r.headers \o r.trailers,
        body |-> r.content]

(* Where the parts stand.                                                  *)
SpanAt(at, word) == [from |-> at, to |-> at + Len(word)]
HeaderPlaces(h, at, eol) ==
  LET name == SpanAt(at, h[1])
  IN  [name |-> name,
       value |-> IF Len(h) = 1 THEN SpanAt(name.to, <<>>) ELSE SpanAt(name.to + 2, h[2]),
       next |-> at + Len(Field(h) \o eol)]

Before(s, i) == SubSeq(s, 1, i - 1)

Places(r) ==
  LET place(i) ==  \* the CR behind a line that is too short belongs to its last word
        IF i > Len(r.line) + 1 THEN SpanAt(0, <<>>)
        ELSE SpanAt(Len(Spaced(Before(r.line, i) \o << <<>> >>)),
                    IF i > Len(r.line) THEN <<>>
                    ELSE IF i = 3 \/ i < Len(r.line) THEN r.line[i] ELSE r.line[i] \o Front(r.eol))
      line == Len(Spaced(r.line) \o r.eol)
      wrong == {i \in DOMAIN r.headers : Len(r.headers[i]) = 1}
      good == IF wrong = {} THEN r.headers ELSE Before(r.headers, Min(wrong))
      places(hs, at) ==
        [i \in DOMAIN hs |-> HeaderPlaces(hs[i], at + Len(Lines(Before(hs, i), r.eol)), r.eol)]
      last == line + Len(Lines(good, r.eol))
      pieces == Append(r.chunks, <<>>)
      at(i) == Len(UpToBody(r)) + Len(ChunkBytes(Before(pieces, i), r.eol))
      value(name) == {h[2][1] : h \in {g \in ToSet(good) : g[1] = <<name>>}}
      broken ==  \* the colon of a name with nothing behind it is the last symbol of the name
        LET h == r.headers[Min(wrong)]
        IN  IF Last(h[1]) = Colon
            THEN [name |-> SpanAt(last, Front(h[1])), value |-> SpanAt(last + Len(h[1]), <<>>),
                  next |-> last + Len(h[1] \o r.eol)]
            ELSE HeaderPlaces(h, last, r.eol)
  IN  [method |-> place(1), uri |-> place(2), version |-> place(3), line |-> line,
       header |-> places(good, line),
       broken |-> IF wrong = {} THEN HeaderPlaces(<< <<>> >>, last, r.eol) ELSE broken,
       body |-> Len(UpToBody(r)),
       length |-> IF value("Content-Length") = {} THEN 0
                  ELSE MCNumber[CHOOSE s \in value("Content-Length") : TRUE],
       chunked |-> "chunked" \in value("Transfer-Encoding"),
       chunk |-> [i \in DOMAIN pieces |->
          [at |-> at(i), data |-> at(i) + 1 + Len(r.eol), len |-> Len(pieces[i]),
           off |-> Len(FlattenSeq(Before(pieces, i)))]],
       trailer |-> places(r.trailers, at(Len(pieces)) + 1 + Len(r.eol)),
       content |-> IF r.line # <<>> /\ r.line[1] = <<"HEAD">> THEN <<>> ELSE r.content]

Sent(requests) ==
  [i \in DOMAIN requests |->
     [bytes |-> Bytes(requests[i]), outcome |-> Expected(requests[i]),
      layout |-> Places(requests[i]), pipelines |-> requests[i].pipelines]]

Get == <<<<"GET">>, <<"/", "a">>, <<"HTTP/1.1">>>>
Post == <<<<"POST">>, <<"/">>, <<"HTTP/1.1">>>>
Host == <<<<"Ho", "st">>, <<"a", SP, "b">>>>
Length(n) == <<<<"Content-Length">>, <<n>>>>
TransferEncoding == <<<<"Transfer-Encoding">>, <<"chunked">>>>
Trailer == <<<<"Trailer">>, <<"Sum">>>>
Connection(v) == <<<<"Connection">>, <<v>>>>
Blanked == <<"Ho", "st", SP, "Ho", "x">>
MCOtherVersions == {<<"HTTP/2.0">>, Blanked}

MCConversations == {Sent(c) : c \in {
  \* Keep-Alive, both ends of line, a header or none
  <<Plain(Get, <<Host>>, CRLF), Plain(Get, <<>>, <<NL>>)>>,
  \* bodies, pipelined; a blank line within a body
  <<WithBody(Plain(Post, <<Length("2")>>, CRLF), CRLF), Plain(Get, <<Host>>, CRLF)>>,
  <<WithBody(Plain(Post, <<Length("1")>>, <<NL>>), <<"x">>),
    WithBody(Plain(Post, <<Length("1")>>, <<NL>>), <<NL>>), Plain(Get, <<>>, <<NL>>)>>,
  \* HEAD has no body whatever its length says
  <<Plain(<<<<"HEAD">>, <<"/">>, <<"HTTP/1.1">>>>, <<Length("1")>>, CRLF), Plain(Get, <<>>, CRLF)>>,
  \* HTTP/1.0 with and without Keep-Alive, HTTP/1.1 with Close
  <<Plain(<<<<"GET">>, <<"/">>, <<"HTTP/1.0">>>>, <<Connection("Keep-Alive")>>, CRLF),
    Plain(<<<<"GET">>, <<"/">>, <<"HTTP/1.0">>>>, <<Host>>, CRLF)>>,
  <<Plain(Get, <<Connection("Close")>>, CRLF)>>,
  \* other versions of eight letters
  <<Plain(<<<<"GET">>, <<"/">>, <<"HTTP/2.0">>>>, <<>>, CRLF)>>,
  <<Plain(<<<<"GET">>, <<"/">>, Blanked>>, <<>>, <<NL>>)>>,
  \* chunks, with and without a trailer, on a connection that closes
  <<Chunked(Plain(Post, <<TransferEncoding, Connection("Close")>>, CRLF),
      << <<"x">>, <<"y", "z">> >>, <<>>)>>,
  <<Chunked(Plain(Post, <<TransferEncoding, Trailer, Connection("Close")>>, <<NL>>),
      << <<"x", "y">> >>, << << <<"Sum">>, <<"z">> >> >>)>>,
  \* what must be rejected, once at the start and once after another request
  <<Plain(<<>>, <<>>, <<NL>>)>>,
  <<Plain(<<<<"GET">>>>, <<>>, CRLF)>>,
  <<Plain(<<<<"GET">>, <<>>>>, <<>>, <<NL>>)>>,
  <<Plain(<<<<"GET">>, <<"/">>>>, <<>>, CRLF)>>,
  <<Plain(<<<<"GET">>, <<"/">>, <<>>>>, <<>>, <<NL>>)>>,
  <<Plain(<<<<"BREW">>, <<"/">>, <<"HTTP/1.1">>>>, <<>>, CRLF)>>,
  <<Plain(<<<<"GET">>, <<"/">>, <<"HTTP/1.2">>>>, <<>>, CRLF)>>,
  <<Plain(Get, <<<<<<"Ho", "st", Colon>>>>>>, <<NL>>)>>,
  <<Plain(Get, <<>>, <<NL>>), Plain(Get, <<Host, <<<<"Ho", "st", SP, "b">>>>>>, <<NL>>)>> }}

\* a chunked request, and another one on the same connection
ChunkedThenGet == {Sent(
  <<Chunked(Plain(Post, <<TransferEncoding>>, CRLF),
      << <<"x">> >>, <<>>),
    Plain(Get, <<>>, CRLF)>>)}

MCSymbols ==
  {SP, CR, NL, Colon, NUL} \cup DOMAIN MCNumber \cup Methods
    \cup {"BREW", "HTTP/1.0", "HTTP/1.1", "HTTP/1.2", "HTTP/2.0", "/", "a", "b", "x", "y", "z",
          "Ho", "st", "Content-Length", "Transfer-Encoding", "chunked", "Trailer", "Sum",
          "Connection", "Keep-Alive", "Close"}

\* Every conversation is one the theorems speak of.
ASSUME MCServable == AllServable
=============================================================================

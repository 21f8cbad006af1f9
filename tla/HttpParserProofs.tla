--------------------------- MODULE HttpParserProofs ---------------------------
(***************************************************************************)
(* Theorems about HttpParser.  First, that the parser stays within the bytes *)
(* received, for every buffer size and every conversation; then, with the   *)
(* invariant of HttpReading, that it answers every request of a conversation *)
(* it is made for as the whole request deserves.                            *)
(***************************************************************************)
EXTENDS HttpReading, SequenceTheorems, TLAPS

(* The invariant of the pointers. *)
ParserInv == ParserTypeOK /\ BodyWithin

(* A token to q, for an integer q. *)
LEMMA ToToken == ASSUME NEW t \in Token, NEW q \in Int PROVE To(t, q) \in Token
  BY DEF To, Token

(* What a header does to the environment keeps its type.                     *)
LEMMA InterpretedEnv ==
  ASSUME NEW env \in Env, NEW name, NEW value
  PROVE  /\ Interpreted(env, name, value) \in Env
         /\ \A f \in {"parse_step", "body", "chunked_body", "chunked_body_end", "header_array",
                      "header_array_size", "name", "value"} :
              Interpreted(env, name, value)[f] = env[f]
  <1> DEFINE length == IF name # <<"Content-Length">> THEN env.content_length
                       ELSE IF Len(value) > 0 /\ value[1] \in DOMAIN Number
                       THEN Number[value[1]] ELSE 0
             chunked == env.chunked \/ (name = <<"Transfer-Encoding">> /\ value = <<"chunked">>)
             trailer == IF name = <<"Trailer">> THEN env.value ELSE env.TRAILER
             keepalive == IF name # <<"Connection">> THEN env.keepalive
                          ELSE CASE value = <<"Keep-Alive">> -> 1
                                 [] value = <<"Close">> -> -1
                                 [] OTHER -> 0
  <1>1. length \in Nat
    BY ParserAssumption DEF Env
  <1>2. chunked \in BOOLEAN
    BY DEF Env
  <1>3. trailer \in Token
    BY DEF Env
  <1>4. keepalive \in {-1, 0, 1}
    BY DEF Env
  <1>5. Interpreted(env, name, value) =
          [env EXCEPT !.content_length = length, !.chunked = chunked,
                      !.TRAILER = trailer, !.keepalive = keepalive]
    BY DEF Interpreted
  <1> HIDE DEF length, chunked, trailer, keepalive
  <1> DEFINE new == [env EXCEPT !.content_length = length, !.chunked = chunked,
                                !.TRAILER = trailer, !.keepalive = keepalive]
  <1>6. new \in Env
    BY <1>1, <1>2, <1>3, <1>4 DEF Env
  <1>7. new.parse_step = env.parse_step /\ new.body = env.body
    BY DEF Env
  <1>8. new.chunked_body = env.chunked_body /\ new.chunked_body_end = env.chunked_body_end
    BY DEF Env
  <1>9. new.header_array = env.header_array /\ new.header_array_size = env.header_array_size
    BY DEF Env
  <1>10. new.name = env.name /\ new.value = env.value
    BY DEF Env
  <1> QED
    <2>1. Interpreted(env, name, value) = new
      BY <1>5
    <2> HIDE DEF new
    <2> QED
      BY <2>1, <1>6, <1>7, <1>8, <1>9, <1>10

(* Storing a header keeps the type, and nothing else of the parser's state.  *)
LEMMA StoredEnv ==
  ASSUME NEW env \in Env
  PROVE  /\ Stored(env) \in Env
         /\ \A f \in {"parse_step", "body", "chunked_body", "chunked_body_end"} :
              Stored(env)[f] = env[f]
  <1> DEFINE slot == [name |-> env.name, value |-> env.value]
             none == [name |-> NoToken, value |-> NoToken]
             full == Len(env.header_array) + 2 > env.header_array_size
             array == Append(env.header_array, IF full THEN none ELSE slot)
             size == IF full THEN 2 * env.header_array_size ELSE env.header_array_size
  <1>0. /\ env.name \in Token /\ env.value \in Token
        /\ env.header_array \in Seq([name : Token, value : Token])
        /\ env.header_array_size \in Nat
    BY DEF Env
  <1>1. NoToken \in Token
    BY DEF Token, NoToken
  <1>2. array \in Seq([name : Token, value : Token])
    BY <1>0, <1>1
  <1>3. size \in Nat
    <2>1. full \in BOOLEAN
      OBVIOUS
    <2> HIDE DEF full
    <2> QED
      BY <1>0, <2>1
  <1>4. Stored(env) = [env EXCEPT !.header_array = array, !.header_array_size = size,
                                  !.name = NoToken, !.value = NoToken]
    BY DEF Stored
  <1> HIDE DEF slot, none, full, array, size
  <1> DEFINE new == [env EXCEPT !.header_array = array, !.header_array_size = size,
                                !.name = NoToken, !.value = NoToken]
  <1>5. new \in Env
    BY <1>1, <1>2, <1>3 DEF Env
  <1>6. new.parse_step = env.parse_step /\ new.body = env.body
    BY DEF Env
  <1>7. new.chunked_body = env.chunked_body /\ new.chunked_body_end = env.chunked_body_end
    BY DEF Env
  <1> QED
    <2>1. Stored(env) = new
      BY <1>4
    <2> HIDE DEF new
    <2> QED
      BY <2>1, <1>5, <1>6, <1>7

(* The four ways in which a case of the switch ends.                         *)

(* The three ways in which a case ends keep it. *)
LEMMA NeedMoreKeeps ==
  ASSUME ParserInv, pc = "parse", NEW STATE at, at \in 0 .. fill_ptr, NeedMore(at), UNCHANGED e,
         e.parse_step = "CHUNKED_SIZE" => e.chunked_body_end <= at
  PROVE  ParserInv'
  BY DEF ParserInv, ParserTypeOK, BodyWithin, NeedMore, parseUnchanged, peerVars, Offsets

LEMMA RejectKeeps ==
  ASSUME ParserInv, pc = "parse", NEW error, Reject(error)
  PROVE  ParserInv'
  BY DEF ParserInv, ParserTypeOK, BodyWithin, Reject, parseUnchanged, peerVars, Offsets

(* The pointers of an environment stay within what has come. *)
Within(env) ==
  /\ env \in Env
  /\ env.body <= fill_ptr /\ env.chunked_body <= fill_ptr /\ env.chunked_body_end <= fill_ptr

LEMMA CompleteKeeps ==
  ASSUME ParserInv, pc = "parse", NEW STATE env, Within(env),
         NEW STATE at, at \in 0 .. fill_ptr, NEW keep_rest \in BOOLEAN,
         Complete(env, at, keep_rest)
  PROVE  ParserInv'
  <1>1. /\ e' \in Env /\ e'.parse_step = "DONE" /\ e'.body = env.body
        /\ e'.chunked_body = env.chunked_body /\ e'.chunked_body_end = env.chunked_body_end
    BY ZenonT(60) DEF Complete, Within, Env
  <1> QED
    BY <1>1 DEF ParserInv, ParserTypeOK, BodyWithin, Complete, Within, parseUnchanged, peerVars,
                Offsets

LEMMA GoOnKeeps ==
  ASSUME ParserInv, pc = "parse", NEW STATE env, Within(env),
         NEW STATE at, at \in 0 .. fill_ptr, GoOn(env, at),
         env.parse_step = "BODY" => env.body >= 0,
         env.parse_step = "CHUNKED_SIZE" => env.chunked_body_end <= at,
         env.parse_step = "CHUNKED_DATA" =>
           0 <= env.chunked_body /\ env.chunked_body_end <= env.chunked_body
  PROVE  ParserInv'
  <1>1. e' = env /\ p' = at /\ pc' = "parse" /\ UNCHANGED <<process_ptr, mem, fill_ptr, peerVars>>
    BY DEF GoOn, parseUnchanged
  <1>2. p' \in Offsets /\ p' <= fill_ptr'
    BY <1>1, ParserAssumption DEF ParserInv, ParserTypeOK, Offsets
  <1>3. ParserTypeOK'
    BY <1>1, <1>2 DEF ParserInv, ParserTypeOK, Within, peerVars, Offsets
  <1>4. BodyWithin'
    BY <1>1 DEF BodyWithin
  <1> QED
    BY <1>3, <1>4 DEF ParserInv

(* What it says of the pointers. *)
LEMMA Bounds ==
  ASSUME ParserInv
  PROVE  /\ fill_ptr \in Nat /\ fill_ptr < BufSize
         /\ process_ptr \in 0 .. fill_ptr
         /\ pc = "parse" => p \in 0 .. fill_ptr
         /\ e \in Env /\ Within(e)
  BY ParserAssumption DEF ParserInv, ParserTypeOK, Offsets, Within

(* A token begins: the environment gets a token and the next step, and the   *)
(* parser goes one symbol on.                                                *)
LEMMA TokenBeginsKeeps ==
  ASSUME ParserInv,
         NEW step \in {"METHOD0", "URI0", "VERSION0", "HEADER_VALUE0"},
         NEW t \in {"METHOD", "URI", "VERSION", "value"},
         NEW next \in {"METHOD", "URI", "VERSION", "HEADER_VALUE"},
         NEW error, TokenBegins(step, t, next, error)
  PROVE  ParserInv'
  <1>1. pc = "parse" /\ e.parse_step = step
    BY DEF TokenBegins, Parsing
  <1>2. PICK q \in p .. fill_ptr :
          \/ q = fill_ptr /\ NeedMore(q) /\ UNCHANGED e
          \/ Reject(error)
          \/ /\ q < fill_ptr
             /\ GoOn([e EXCEPT ![t] = [ptr |-> q, len |-> 0], !.parse_step = next], q + 1)
    BY DEF TokenBegins
  <1>3. /\ q \in 0 .. fill_ptr /\ q \in Int
        /\ q < fill_ptr => q + 1 \in 0 .. fill_ptr
    BY <1>1, Bounds
  <1>4. CASE q = fill_ptr /\ NeedMore(q) /\ UNCHANGED e
    BY <1>1, <1>3, <1>4, NeedMoreKeeps
  <1>5. CASE Reject(error)
    BY <1>1, <1>5, RejectKeeps
  <1>6. CASE /\ q < fill_ptr
             /\ GoOn([e EXCEPT ![t] = [ptr |-> q, len |-> 0], !.parse_step = next], q + 1)
    <2> DEFINE env == [e EXCEPT ![t] = [ptr |-> q, len |-> 0], !.parse_step = next]
    <2>1. [ptr |-> q, len |-> 0] \in Token
      BY <1>3 DEF Token
    <2>2. /\ env \in Env /\ env.parse_step = next /\ env.body = e.body
          /\ env.chunked_body = e.chunked_body /\ env.chunked_body_end = e.chunked_body_end
      <3>1. e \in Env
        BY Bounds
      <3> DEFINE begun == [e EXCEPT ![t] = [ptr |-> q, len |-> 0]]
      <3>2. begun \in Env /\ begun.body = e.body
        BY <2>1, <3>1, ZenonT(60) DEF Env
      <3>3. begun.chunked_body = e.chunked_body /\ begun.chunked_body_end = e.chunked_body_end
        BY <3>1, ZenonT(60) DEF Env
      <3> HIDE DEF begun
      <3>4. env = [begun EXCEPT !.parse_step = next]
        BY DEF begun
      <3> HIDE DEF env
      <3>5. env \in Env /\ env.parse_step = next /\ env.body = begun.body
        BY <3>2, <3>4, ZenonT(60) DEF Env
      <3>6. env.chunked_body = begun.chunked_body /\ env.chunked_body_end = begun.chunked_body_end
        BY <3>2, <3>4, ZenonT(60) DEF Env
      <3> QED
        BY <3>2, <3>3, <3>5, <3>6
    <2>3. Within(env)
      BY <2>2, Bounds DEF Within
    <2>4. q + 1 \in 0 .. fill_ptr
      BY <1>3, <1>6
    <2>5. GoOn(env, q + 1)
      BY <1>6
    <2> HIDE DEF env
    <2> QED
      BY <1>1, <2>2, <2>3, <2>4, <2>5, GoOnKeeps
  <1> QED
    BY <1>2, <1>4, <1>5, <1>6

(* An environment that differs from e in what the bounds do not speak of.    *)
Same(env) ==
  /\ env \in Env /\ env.body = e.body
  /\ env.chunked_body = e.chunked_body /\ env.chunked_body_end = e.chunked_body_end

(* An environment that keeps its pointers and takes a step that needs none. *)
LEMMA SameKeeps ==
  ASSUME ParserInv, pc = "parse", NEW STATE env, Same(env),
         env.parse_step \notin {"BODY", "CHUNKED_SIZE", "CHUNKED_DATA"},
         NEW STATE at, at \in 0 .. fill_ptr, GoOn(env, at)
  PROVE  ParserInv'
  <1>1. Within(env)
    BY Bounds DEF Within, Same
  <1> QED
    BY <1>1, GoOnKeeps

(* METHOD. *)
LEMMA MethodEndsKeeps ==
  ASSUME ParserInv, MethodEnds PROVE ParserInv'
  <1>1. pc = "parse" /\ e.parse_step = "METHOD"
    BY DEF MethodEnds, Parsing
  <1>2. PICK q \in p .. fill_ptr :
          \/ q = fill_ptr /\ NeedMore(q) /\ UNCHANGED e
          \/ Reject("START_LINE_INVALID")
          \/ /\ q < fill_ptr
             /\ \E m \in Methods :
                  GoOn([e EXCEPT !.METHOD = To(@, q), !.method = m, !.parse_step = "URI0"], q + 1)
          \/ Reject("METHOD_INVALID")
    BY DEF MethodEnds
  <1>3. /\ q \in 0 .. fill_ptr /\ q \in Int
        /\ q < fill_ptr => q + 1 \in 0 .. fill_ptr
    BY <1>1, Bounds
  <1>4. CASE q = fill_ptr /\ NeedMore(q) /\ UNCHANGED e
    BY <1>1, <1>3, <1>4, NeedMoreKeeps
  <1>5. CASE Reject("START_LINE_INVALID") \/ Reject("METHOD_INVALID")
    BY <1>1, <1>5, RejectKeeps
  <1>6. ASSUME q < fill_ptr, NEW m \in Methods,
               GoOn([e EXCEPT !.METHOD = To(@, q), !.method = m, !.parse_step = "URI0"], q + 1)
        PROVE  ParserInv'
    <2> DEFINE env == [e EXCEPT !.METHOD = To(@, q), !.method = m, !.parse_step = "URI0"]
    <2>1. To(e.METHOD, q) \in Token
      BY <1>3, Bounds, ToToken DEF Env
    <2>2. Same(env) /\ env.parse_step = "URI0"
      BY <2>1, Bounds DEF Same, Env
    <2>3. GoOn(env, q + 1)
      BY <1>6
    <2> HIDE DEF env
    <2> QED
      BY <1>1, <1>3, <1>6, <2>2, <2>3, SameKeeps
  <1> QED
    BY <1>2, <1>4, <1>5, <1>6

(* URI. *)
LEMMA UriEndsKeeps ==
  ASSUME ParserInv, UriEnds PROVE ParserInv'
  <1>1. pc = "parse" /\ e.parse_step = "URI"
    BY DEF UriEnds, Parsing
  <1>2. PICK q \in p .. fill_ptr :
          \/ q = fill_ptr /\ NeedMore(q) /\ UNCHANGED e
          \/ Reject("START_LINE_INVALID")
          \/ /\ q < fill_ptr
             /\ GoOn([e EXCEPT !.URI = To(@, q), !.parse_step = "VERSION0"], q + 1)
    BY DEF UriEnds
  <1>3. /\ q \in 0 .. fill_ptr /\ q \in Int
        /\ q < fill_ptr => q + 1 \in 0 .. fill_ptr
    BY <1>1, Bounds
  <1>4. CASE q = fill_ptr /\ NeedMore(q) /\ UNCHANGED e
    BY <1>1, <1>3, <1>4, NeedMoreKeeps
  <1>5. CASE Reject("START_LINE_INVALID")
    BY <1>1, <1>5, RejectKeeps
  <1>6. ASSUME q < fill_ptr, GoOn([e EXCEPT !.URI = To(@, q), !.parse_step = "VERSION0"], q + 1)
        PROVE  ParserInv'
    <2> DEFINE env == [e EXCEPT !.URI = To(@, q), !.parse_step = "VERSION0"]
    <2>1. To(e.URI, q) \in Token
      BY <1>3, Bounds, ToToken DEF Env
    <2>2. Same(env) /\ env.parse_step = "VERSION0"
      BY <2>1, Bounds, ZenonT(60) DEF Same, Env
    <2>3. GoOn(env, q + 1)
      BY <1>6
    <2> HIDE DEF env
    <2> QED
      BY <1>1, <1>3, <1>6, <2>2, <2>3, SameKeeps
  <1> QED
    BY <1>2, <1>4, <1>5, <1>6

(* VERSION. *)
LEMMA VersionEndsKeeps ==
  ASSUME ParserInv, VersionEnds PROVE ParserInv'
  <1>1. pc = "parse" /\ e.parse_step = "VERSION"
    BY DEF VersionEnds, Parsing
  <1>2. PICK q \in p .. fill_ptr :
          \/ q = fill_ptr /\ NeedMore(q) /\ UNCHANGED e
          \/ /\ q < fill_ptr
             /\ \E end \in {q - 1, q} : \E n \in {0, 10, 11} :
                  GoOn([e EXCEPT !.VERSION = To(@, end), !.version = n,
                                 !.parse_step = "HEADER_NAME0"], q + 1)
          \/ Reject("VERSION_NOT_SUPPORTED")
    BY DEF VersionEnds, VersionOf
  <1>3. /\ q \in 0 .. fill_ptr /\ q \in Int
        /\ q < fill_ptr => q + 1 \in 0 .. fill_ptr
    BY <1>1, Bounds
  <1>4. CASE q = fill_ptr /\ NeedMore(q) /\ UNCHANGED e
    BY <1>1, <1>3, <1>4, NeedMoreKeeps
  <1>5. CASE Reject("VERSION_NOT_SUPPORTED")
    BY <1>1, <1>5, RejectKeeps
  <1>6. ASSUME q < fill_ptr, NEW end \in {q - 1, q}, NEW n \in {0, 10, 11},
               GoOn([e EXCEPT !.VERSION = To(@, end), !.version = n,
                              !.parse_step = "HEADER_NAME0"], q + 1)
        PROVE  ParserInv'
    <2> DEFINE env == [e EXCEPT !.VERSION = To(@, end), !.version = n,
                                !.parse_step = "HEADER_NAME0"]
    <2>1. To(e.VERSION, end) \in Token
      <3>1. end \in Int
        BY <1>3
      <3>2. e.VERSION \in Token
        BY Bounds DEF Env
      <3> QED
        BY <3>1, <3>2, ToToken
    <2>3. Same(env) /\ env.parse_step = "HEADER_NAME0"
      BY <2>1, Bounds DEF Same, Env
    <2>4. GoOn(env, q + 1)
      BY <1>6
    <2> HIDE DEF env
    <2> QED
      BY <1>1, <1>3, <1>6, <2>3, <2>4, SameKeeps
  <1> QED
    BY <1>2, <1>4, <1>5, <1>6

(* The blank line. *)
LEMMA GoParsingBodyKeeps ==
  ASSUME ParserInv, pc = "parse", NEW STATE at, at \in 0 .. fill_ptr, GoParsingBody(at)
  PROVE  ParserInv'
  <1>0. at \in Int /\ e \in Env
    BY Bounds
  <1>1. CASE Complete(e, at, FALSE)
    BY <1>1, Bounds, CompleteKeeps
  <1>2. CASE GoOn([e EXCEPT !.body = at, !.parse_step = "BODY"], at)
    <2> DEFINE env == [e EXCEPT !.body = at, !.parse_step = "BODY"]
    <2>1. /\ env \in Env /\ env.body = at /\ env.parse_step = "BODY"
          /\ env.chunked_body = e.chunked_body /\ env.chunked_body_end = e.chunked_body_end
      BY <1>0 DEF Env
    <2>2. Within(env) /\ env.body >= 0
      BY <2>1, Bounds DEF Within
    <2>3. GoOn(env, at)
      BY <1>2
    <2> HIDE DEF env
    <2> QED
      BY <2>1, <2>2, <2>3, GoOnKeeps
  <1>3. CASE GoOn([e EXCEPT !.body = at, !.chunked_body_end = at,
                            !.parse_step = "CHUNKED_SIZE"], at)
    <2> DEFINE env == [e EXCEPT !.body = at, !.chunked_body_end = at,
                                !.parse_step = "CHUNKED_SIZE"]
    <2>1. /\ env \in Env /\ env.body = at /\ env.parse_step = "CHUNKED_SIZE"
          /\ env.chunked_body = e.chunked_body /\ env.chunked_body_end = at
      BY <1>0 DEF Env
    <2>2. Within(env) /\ env.chunked_body_end <= at
      BY <2>1, Bounds DEF Within
    <2>3. GoOn(env, at)
      BY <1>3
    <2> HIDE DEF env
    <2> QED
      BY <2>1, <2>2, <2>3, GoOnKeeps
  <1> QED
    BY <1>1, <1>2, <1>3 DEF GoParsingBody

(* HEADER_NAME0. *)
LEMMA HeaderNameBeginsKeeps ==
  ASSUME ParserInv, HeaderNameBegins PROVE ParserInv'
  <1>1. /\ pc = "parse" /\ e.parse_step = "HEADER_NAME0"
        /\ p \in 0 .. fill_ptr /\ process_ptr \in 0 .. fill_ptr
        /\ p < fill_ptr => p + 1 \in 0 .. fill_ptr
        /\ p + 1 < fill_ptr => p + 2 \in 0 .. fill_ptr
    BY Bounds DEF HeaderNameBegins, Parsing
  <1>2. CASE p = fill_ptr /\ NeedMore(p) /\ UNCHANGED e
    BY <1>1, <1>2, NeedMoreKeeps
  <1>3. CASE NeedMore(process_ptr) /\ UNCHANGED e
    BY <1>1, <1>3, NeedMoreKeeps
  <1>4. CASE /\ p + 1 < fill_ptr
             /\ GoParsingBody(IF mem[p + 1] = NL THEN p + 2 ELSE p + 1)
    <2>1. CASE mem[p + 1] = NL
      BY <1>1, <1>4, <2>1, GoParsingBodyKeeps
    <2>2. CASE mem[p + 1] # NL
      <3>1. p + 1 \in 0 .. fill_ptr
        BY <1>1, <1>4, Bounds
      <3> QED
        BY <1>1, <1>4, <2>2, <3>1, GoParsingBodyKeeps
    <2> QED
      BY <2>1, <2>2
  <1>5. CASE p < fill_ptr /\ GoParsingBody(p + 1)
    BY <1>1, <1>5, GoParsingBodyKeeps
  <1>6. CASE /\ p < fill_ptr
             /\ GoOn([e EXCEPT !.name.ptr = p, !.parse_step = "HEADER_NAME"], p + 1)
    <2> DEFINE env == [e EXCEPT !.name.ptr = p, !.parse_step = "HEADER_NAME"]
    <2>1. [e.name EXCEPT !.ptr = p] \in Token
      <3>1. p \in Int
        BY <1>1, Bounds
      <3>2. e.name \in Token
        BY Bounds DEF Env
      <3> QED
        BY <3>1, <3>2 DEF Token
    <2>2. Same(env) /\ env.parse_step = "HEADER_NAME"
      BY <2>1, Bounds DEF Same, Env
    <2>3. GoOn(env, p + 1)
      BY <1>6
    <2> HIDE DEF env
    <2> QED
      BY <1>1, <1>6, <2>2, <2>3, SameKeeps
  <1> QED
    BY <1>1, <1>2, <1>3, <1>4, <1>5, <1>6 DEF HeaderNameBegins

(* HEADER_NAME. *)
LEMMA HeaderNameEndsKeeps ==
  ASSUME ParserInv, HeaderNameEnds PROVE ParserInv'
  <1>1. pc = "parse" /\ e.parse_step = "HEADER_NAME"
    BY DEF HeaderNameEnds, Parsing
  <1>2. PICK q \in p .. fill_ptr : \E c \in q .. fill_ptr :
          \/ q = fill_ptr /\ NeedMore(q) /\ UNCHANGED e
          \/ Reject("HEADER_INVALID")
          \/ c = fill_ptr /\ NeedMore(c) /\ e' = [e EXCEPT !.name = To(@, q)]
          \/ /\ c < fill_ptr
             /\ GoOn([[e EXCEPT !.name = To(@, q)] EXCEPT !.parse_step = "HEADER_VALUE0"], c + 1)
    BY DEF HeaderNameEnds
  <1>2a. PICK c \in q .. fill_ptr :
          \/ q = fill_ptr /\ NeedMore(q) /\ UNCHANGED e
          \/ Reject("HEADER_INVALID")
          \/ c = fill_ptr /\ NeedMore(c) /\ e' = [e EXCEPT !.name = To(@, q)]
          \/ /\ c < fill_ptr
             /\ GoOn([[e EXCEPT !.name = To(@, q)] EXCEPT !.parse_step = "HEADER_VALUE0"], c + 1)
    BY <1>2
  <1>3. /\ q \in 0 .. fill_ptr /\ q \in Int /\ c \in 0 .. fill_ptr
        /\ c < fill_ptr => c + 1 \in 0 .. fill_ptr
    BY <1>1, Bounds
  <1>4. To(e.name, q) \in Token
    BY <1>3, Bounds, ToToken DEF Env
  <1> DEFINE named == [e EXCEPT !.name = To(@, q)]
  <1>5. Same(named) /\ named.parse_step = "HEADER_NAME"
    BY <1>1, <1>4, Bounds DEF Same, Env
  <1>6. CASE q = fill_ptr /\ NeedMore(q) /\ UNCHANGED e
    BY <1>1, <1>3, <1>6, NeedMoreKeeps
  <1>7. CASE Reject("HEADER_INVALID")
    BY <1>1, <1>7, RejectKeeps
  <1>8. CASE NeedMore(c) /\ e' = named
    <2> HIDE DEF named
    <2> QED
      BY <1>1, <1>3, <1>5, <1>8
      DEF ParserInv, ParserTypeOK, BodyWithin, NeedMore, Same, parseUnchanged, peerVars, Offsets
  <1>9. CASE c < fill_ptr /\ GoOn([named EXCEPT !.parse_step = "HEADER_VALUE0"], c + 1)
    <2> DEFINE env == [named EXCEPT !.parse_step = "HEADER_VALUE0"]
    <2> HIDE DEF named
    <2>1. Same(env) /\ env.parse_step = "HEADER_VALUE0"
      BY <1>5 DEF Same, Env
    <2>2. GoOn(env, c + 1)
      BY <1>9
    <2> HIDE DEF env
    <2> QED
      BY <1>1, <1>3, <1>9, <2>1, <2>2, SameKeeps
  <1> QED
    BY <1>2a, <1>6, <1>7, <1>8, <1>9

(* HEADER_VALUE. *)
LEMMA HeaderValueEndsKeeps ==
  ASSUME ParserInv, HeaderValueEnds PROVE ParserInv'
  <1>1. pc = "parse" /\ e.parse_step = "HEADER_VALUE"
    BY DEF HeaderValueEnds, Parsing
  <1> DEFINE name == Text(e.name)
             Now(r) == Interpreted([e EXCEPT !.value = To(e.value, r)], name,
                                   Text(To(e.value, r)))
             Last(now) == [now EXCEPT !.header_array =
                             Append(@, [name |-> now.name, value |-> now.value])]
             Go(now) == [Stored(now) EXCEPT !.parse_step = "HEADER_NAME0"]
  <1>2. PICK q \in p .. fill_ptr : \E r \in 0 .. q :
          \/ q = fill_ptr /\ NeedMore(q) /\ UNCHANGED e
          \/ q < fill_ptr /\ Complete(Last(Now(r)), q + 1, TRUE)
          \/ q < fill_ptr /\ GoOn(Go(Now(r)), q + 1)
    BY DEF HeaderValueEnds
  <1>3. PICK r \in 0 .. q :
          \/ q = fill_ptr /\ NeedMore(q) /\ UNCHANGED e
          \/ q < fill_ptr /\ Complete(Last(Now(r)), q + 1, TRUE)
          \/ q < fill_ptr /\ GoOn(Go(Now(r)), q + 1)
    BY <1>2
  <1>4. /\ q \in 0 .. fill_ptr /\ r \in Int
        /\ q < fill_ptr => q + 1 \in 0 .. fill_ptr
    BY <1>1, Bounds
  <1>5. Same(Now(r))
    <2> DEFINE valued == [e EXCEPT !.value = To(e.value, r)]
    <2>1. e.value \in Token
      BY Bounds DEF Env
    <2>2. To(e.value, r) \in Token
      BY <1>4, <2>1, ToToken
    <2>3. Same(valued)
      BY <2>2, Bounds DEF Same, Env
    <2>4. Now(r) = Interpreted(valued, name, Text(To(e.value, r)))
      OBVIOUS
    <2> HIDE DEF valued, name, Now
    <2> QED
      BY <2>3, <2>4, InterpretedEnv DEF Same
  <1>6. CASE q = fill_ptr /\ NeedMore(q) /\ UNCHANGED e
    BY <1>1, <1>4, <1>6, NeedMoreKeeps
  <1> HIDE DEF name, Now
  <1>7. CASE q < fill_ptr /\ Complete(Last(Now(r)), q + 1, TRUE)
    <2>1. Now(r).name \in Token /\ Now(r).value \in Token
          /\ Now(r).header_array \in Seq([name : Token, value : Token])
      BY <1>5 DEF Same, Env
    <2>2. Append(Now(r).header_array, [name |-> Now(r).name, value |-> Now(r).value])
            \in Seq([name : Token, value : Token])
      BY <2>1
    <2>3. Same(Last(Now(r)))
      BY <1>5, <2>2 DEF Same, Env
    <2>4. Within(Last(Now(r)))
      <3> HIDE DEF Last
      <3> QED
        BY <2>3, Bounds DEF Same, Within
    <2> HIDE DEF Last
    <2> QED
      BY <1>1, <1>4, <1>7, <2>4, CompleteKeeps
  <1>8. CASE q < fill_ptr /\ GoOn(Go(Now(r)), q + 1)
    <2>1. Same(Stored(Now(r)))
      BY <1>5, StoredEnv DEF Same
    <2>2. Same(Go(Now(r))) /\ Go(Now(r)).parse_step = "HEADER_NAME0"
      BY <2>1 DEF Same, Env
    <2> HIDE DEF Go
    <2> QED
      BY <1>1, <1>4, <1>8, <2>2, SameKeeps
  <1> QED
    BY <1>3, <1>6, <1>7, <1>8

(* BODY. *)
LEMMA BodyKeeps ==
  ASSUME ParserInv, Body PROVE ParserInv'
  <1>1. /\ pc = "parse" /\ e.parse_step = "BODY"
        /\ e.body \in Int /\ e.body >= 0 /\ e.content_length \in Nat
    BY Bounds DEF Body, Parsing, ParserInv, BodyWithin, Env
  <1>2. CASE /\ fill_ptr - e.body >= e.content_length
             /\ Complete(e, e.body + e.content_length, TRUE)
    <2>1. e.body + e.content_length \in 0 .. fill_ptr
      BY <1>1, <1>2, Bounds
    <2> QED
      BY <1>1, <1>2, <2>1, Bounds, CompleteKeeps
  <1>3. CASE NeedMore(fill_ptr) /\ UNCHANGED e
    BY <1>1, <1>3, Bounds, NeedMoreKeeps
  <1> QED
    BY <1>2, <1>3 DEF Body

(* CHUNKED_SIZE. *)
LEMMA ChunkedSizeKeeps ==
  ASSUME ParserInv, ChunkedSize PROVE ParserInv'
  <1>1. /\ pc = "parse" /\ e.parse_step = "CHUNKED_SIZE"
        /\ e.chunked_body_end \in Int /\ e.chunked_body_end <= p
    BY Bounds DEF ChunkedSize, Parsing, ParserInv, BodyWithin, Env
  <1>1a. p \in 0 .. fill_ptr /\ (p < fill_ptr => p + 1 \in 0 .. fill_ptr)
    BY <1>1, Bounds
  <1>2. CASE p = fill_ptr /\ NeedMore(p) /\ UNCHANGED e
    BY <1>1, <1>1a, <1>2, NeedMoreKeeps
  <1>3. ASSUME p < fill_ptr, NEW STATE env, GoOn(env, p + 1), Same(env),
               env.parse_step = "CHUNKED_SIZE"
        PROVE  ParserInv'
    <2>1. Within(env)
      BY <1>3, Bounds DEF Same, Within
    <2>2. env.chunked_body_end <= p + 1
      BY <1>1, <1>1a, <1>3, Bounds DEF Same
    <2> QED
      BY <1>1, <1>1a, <1>3, <2>1, <2>2, GoOnKeeps
  <1>4. CASE p < fill_ptr /\ GoOn(e, p + 1)
    <2>1. Same(e)
      BY Bounds DEF Same
    <2> QED
      BY <1>1, <1>3, <1>4, <2>1
  <1>5. CASE /\ p < fill_ptr /\ mem[p] \in DOMAIN Number
             /\ GoOn([e EXCEPT !.chunked_length = @ * 10 + Number[mem[p]]], p + 1)
    <2> DEFINE env == [e EXCEPT !.chunked_length = @ * 10 + Number[mem[p]]]
    <2>1. e.chunked_length * 10 + Number[mem[p]] \in Nat
      <3>1. Number[mem[p]] \in Nat
        BY <1>5, ParserAssumption
      <3>2. e.chunked_length \in Nat
        BY Bounds DEF Env
      <3> QED
        BY <3>1, <3>2
    <2>2. Same(env) /\ env.parse_step = "CHUNKED_SIZE"
      BY <1>1, <2>1, Bounds DEF Same, Env
    <2>3. GoOn(env, p + 1)
      BY <1>5
    <2> HIDE DEF env
    <2> QED
      BY <1>3, <1>5, <2>2, <2>3
  <1> QED
    BY <1>2, <1>4, <1>5 DEF ChunkedSize

(* CHUNKED_SIZE, at the end of the line. *)
LEMMA ChunkedSizeEndsKeeps ==
  ASSUME ParserInv, ChunkedSizeEnds PROVE ParserInv'
  <1>1. /\ pc = "parse" /\ e.parse_step = "CHUNKED_SIZE"
        /\ p < fill_ptr /\ e.chunked_body_end \in Int /\ e.chunked_body_end <= p
    BY Bounds DEF ChunkedSizeEnds, Parsing, ParserInv, BodyWithin, Env
  <1>1a. p \in Nat /\ p + 1 \in 0 .. fill_ptr
    BY <1>1, Bounds
  <1>2. CASE GoOn([e EXCEPT !.parse_step = "HEADER_NAME0"], p + 1)
    <2> DEFINE env == [e EXCEPT !.parse_step = "HEADER_NAME0"]
    <2>1. Same(env) /\ env.parse_step = "HEADER_NAME0"
      BY Bounds DEF Same, Env
    <2>2. GoOn(env, p + 1)
      BY <1>2
    <2> HIDE DEF env
    <2> QED
      BY <1>1, <1>1a, <2>1, <2>2, SameKeeps
  <1>3. CASE Complete(e, p + 1, TRUE)
    BY <1>1, <1>1a, <1>3, Bounds, CompleteKeeps
  <1>4. CASE GoOn([e EXCEPT !.chunked_body = p + 1, !.parse_step = "CHUNKED_DATA"], p + 1)
    <2> DEFINE env == [e EXCEPT !.chunked_body = p + 1, !.parse_step = "CHUNKED_DATA"]
    <2>1. /\ env \in Env /\ env.parse_step = "CHUNKED_DATA" /\ env.body = e.body
          /\ env.chunked_body = p + 1 /\ env.chunked_body_end = e.chunked_body_end
      <3>1. p + 1 \in Int
        BY <1>1a
      <3> QED
        BY <3>1, Bounds DEF Env
    <2>2. Within(env)
      BY <1>1, <1>1a, <2>1, Bounds DEF Within
    <2>3. 0 <= env.chunked_body /\ env.chunked_body_end <= env.chunked_body
      BY <1>1, <1>1a, <2>1
    <2>4. GoOn(env, p + 1)
      BY <1>4
    <2> HIDE DEF env
    <2> QED
      BY <1>1, <1>1a, <2>1, <2>2, <2>3, <2>4, GoOnKeeps
  <1> QED
    BY <1>2, <1>3, <1>4 DEF ChunkedSizeEnds

(* The chunk is moved up: what is read and what is written lies within the   *)
(* bytes received, because the destination is never behind the source.       *)
LEMMA ChunkedDataKeeps ==
  ASSUME ParserInv, ChunkedData PROVE ParserInv'
  <1> DEFINE from == e.chunked_body
             to == e.chunked_body_end
             n == e.chunked_length
  <1>1. /\ pc = "parse" /\ e.parse_step = "CHUNKED_DATA"
        /\ from \in Int /\ to \in Int /\ n \in Nat /\ 0 <= from /\ to <= from
        /\ e.content_length \in Nat
    BY Bounds DEF ChunkedData, Parsing, ParserInv, BodyWithin, Env
  <1>2. CASE NeedMore(fill_ptr) /\ UNCHANGED e
    BY <1>1, <1>2, Bounds, NeedMoreKeeps
  <1>3. ASSUME fill_ptr - from >= n + 2,
               mem' = [q \in Offsets |-> IF q \in to .. to + n - 1
                                         THEN mem[from + q - to] ELSE mem[q]],
               p' \in {from + n, from + n + 1, from + n + 2},
               e' = [e EXCEPT !.chunked_body_end = @ + n, !.content_length = @ + n,
                              !.chunked_length = 0, !.parse_step = "CHUNKED_SIZE"],
               UNCHANGED <<peerVars, process_ptr, fill_ptr, pc, outcomes>>
        PROVE  ParserInv'
    <2>1. p' \in 0 .. fill_ptr /\ to + n \in Int /\ to + n <= p' /\ to + n <= fill_ptr
      BY <1>1, <1>3, Bounds
    <2>2. /\ e' \in Env /\ e'.parse_step = "CHUNKED_SIZE" /\ e'.body = e.body
          /\ e'.chunked_body = e.chunked_body /\ e'.chunked_body_end = to + n
      <3>1. e.content_length + n \in Nat
        BY <1>1
      <3> QED
        BY <1>3, <2>1, <3>1, Bounds DEF Env
    <2>3. mem' \in [Offsets -> Symbols]
      <3>1. mem \in [Offsets -> Symbols]
        BY DEF ParserInv, ParserTypeOK
      <3>2. ASSUME NEW q \in Offsets, q \in to .. to + n - 1
            PROVE  from + q - to \in Offsets
        <4>1. from + n <= BufSize - 1 /\ BufSize \in Nat
          BY <1>1, <1>3, Bounds, ParserAssumption
        <4>2. q \in Int /\ to <= q /\ q <= to + n - 1
          BY <1>1, <3>2
        <4> HIDE DEF from, to, n
        <4> QED
          BY <1>1, <4>1, <4>2 DEF Offsets
      <3>3. mem' = [q \in Offsets |-> IF q \in to .. to + n - 1
                                      THEN mem[from + q - to] ELSE mem[q]]
        BY <1>3
      <3> HIDE DEF from, to, n
      <3> QED
        BY <3>1, <3>2, <3>3
    <2>4. p' \in Offsets
      BY <2>1, Bounds, ParserAssumption DEF Offsets
    <2>5. ParserTypeOK'
      BY <1>1, <1>3, <2>1, <2>2, <2>3, <2>4, Bounds
      DEF ParserInv, ParserTypeOK, Within, peerVars, Offsets
    <2>6. BodyWithin'
      BY <1>1, <1>3, <2>1, <2>2 DEF BodyWithin
    <2> QED
      BY <2>5, <2>6 DEF ParserInv
  <1>4. \/ NeedMore(fill_ptr) /\ UNCHANGED e
        \/ /\ fill_ptr - from >= n + 2
           /\ mem' = [q \in Offsets |-> IF q \in to .. to + n - 1
                                         THEN mem[from + q - to] ELSE mem[q]]
           /\ p' \in {from + n, from + n + 1, from + n + 2}
           /\ e' = [e EXCEPT !.chunked_body_end = @ + n, !.content_length = @ + n,
                             !.chunked_length = 0, !.parse_step = "CHUNKED_SIZE"]
           /\ UNCHANGED <<peerVars, process_ptr, fill_ptr, pc, outcomes>>
    BY <1>1 DEF ChunkedData
  <1> QED
    BY <1>2, <1>3, <1>4

(* Every case of ParseHttpBuffer. *)
LEMMA ParseHttpBufferKeeps ==
  ASSUME ParserInv, ParseHttpBuffer PROVE ParserInv'
  <1>1. CASE MethodBegins
    BY <1>1, TokenBeginsKeeps DEF MethodBegins
  <1>2. CASE UriBegins
    BY <1>2, TokenBeginsKeeps DEF UriBegins
  <1>3. CASE VersionBegins
    BY <1>3, TokenBeginsKeeps DEF VersionBegins
  <1>4. CASE ValueBegins
    BY <1>4, TokenBeginsKeeps DEF ValueBegins
  <1> QED
    BY <1>1, <1>2, <1>3, <1>4, MethodEndsKeeps, UriEndsKeeps, VersionEndsKeeps,
       HeaderNameBeginsKeeps, HeaderNameEndsKeeps, HeaderValueEndsKeeps, BodyKeeps,
       ChunkedSizeKeeps, ChunkedSizeEndsKeeps, ChunkedDataKeeps
    DEF ParseHttpBuffer
----------------------------------------------------------------------------
(* The steps between two parses.                                             *)

(* The peer sends. *)
LEMMA PeerSendsKeeps ==
  ASSUME ParserInv, PeerSends PROVE ParserInv'
  <1>1. /\ sent \in 0 .. Len(conversation) /\ sent < Len(conversation)
        /\ conversation \in Conversations /\ Len(conversation) \in Nat
    BY ParserAssumption DEF ParserInv, ParserTypeOK, PeerSends
  <1>2. sent + 1 \in 1 .. Len(conversation)
    BY <1>1
  <1>3. conversation[sent + 1].bytes \in Seq(Symbols)
    BY <1>1, <1>2, ParserAssumption
  <1>4. wire' \in Seq(Symbols) /\ sent' \in 0 .. Len(conversation)
    BY <1>1, <1>2, <1>3 DEF ParserInv, ParserTypeOK, PeerSends
  <1> QED
    BY <1>4 DEF ParserInv, ParserTypeOK, BodyWithin, PeerSends, bufVars

(* The environment at the start of a parse. *)
LEMMA BeginParsingKeeps ==
  ASSUME ParserInv, pc = "recv", BeginParsing(process_ptr), UNCHANGED process_ptr,
         wire' \in Seq(Symbols), mem' \in [Offsets -> Symbols],
         fill_ptr' \in Offsets, fill_ptr <= fill_ptr'
  PROVE  ParserInv'
  <1>1. /\ e' \in Env /\ e'.body = e.body /\ e'.chunked_body = e.chunked_body
        /\ e'.chunked_body_end = e.chunked_body_end
        /\ e'.parse_step = e.parse_step \/ e'.parse_step = "METHOD0"
    BY Bounds, ZenonT(60) DEF BeginParsing, Env
  <1>2. fill_ptr' \in Nat /\ process_ptr \in Offsets /\ process_ptr \in 0 .. fill_ptr'
    BY Bounds, ParserAssumption DEF Offsets
  <1>3. e'.body <= fill_ptr' /\ e'.chunked_body <= fill_ptr' /\ e'.chunked_body_end <= fill_ptr'
    <2>1. e.body \in Int /\ e.chunked_body \in Int /\ e.chunked_body_end \in Int
      BY Bounds DEF Env
    <2> QED
      BY <1>1, <1>2, <2>1, Bounds DEF Within
  <1>4. ParserTypeOK'
    BY <1>1, <1>2, <1>3 DEF ParserInv, ParserTypeOK, BeginParsing
  <1>5. BodyWithin'
    BY <1>1 DEF ParserInv, BodyWithin, BeginParsing
  <1> QED
    BY <1>4, <1>5 DEF ParserInv

(* recv(). *)
LEMMA ReceiveKeeps ==
  ASSUME ParserInv, Receive PROVE ParserInv'
  <1>1. PICK n \in 1 .. Len(wire) :
          /\ fill_ptr + n <= BufSize - 1
          /\ mem' = [q \in Offsets |->
               IF q \in fill_ptr .. fill_ptr + n - 1 THEN wire[q - fill_ptr + 1] ELSE mem[q]]
          /\ fill_ptr' = fill_ptr + n
          /\ wire' = SubSeq(wire, n + 1, Len(wire))
    BY DEF Receive
  <1>2. wire \in Seq(Symbols) /\ mem \in [Offsets -> Symbols] /\ Len(wire) \in Nat
    BY DEF ParserInv, ParserTypeOK
  <1>3. wire' \in Seq(Symbols)
    BY <1>1, <1>2
  <1>4. mem' \in [Offsets -> Symbols]
    <2>1. ASSUME NEW q \in Offsets, q \in fill_ptr .. fill_ptr + n - 1
          PROVE  wire[q - fill_ptr + 1] \in Symbols
      <3>1. q - fill_ptr + 1 \in 1 .. Len(wire)
        BY <1>2, <2>1, Bounds
      <3> QED
        BY <1>2, <3>1
    <2> QED
      BY <1>1, <1>2, <2>1
  <1>5. fill_ptr' \in Offsets /\ fill_ptr <= fill_ptr'
    BY <1>1, <1>2, Bounds, ParserAssumption DEF Offsets
  <1> QED
    BY <1>3, <1>4, <1>5, BeginParsingKeeps DEF Receive

(* Bytes that waited are parsed. *)
LEMMA ParseWaitingKeeps ==
  ASSUME ParserInv, ParseWaiting PROVE ParserInv'
  <1>1. /\ wire' \in Seq(Symbols) /\ mem' \in [Offsets -> Symbols]
        /\ fill_ptr' \in Offsets /\ fill_ptr <= fill_ptr'
    BY Bounds DEF ParserInv, ParserTypeOK, ParseWaiting, bufVars
  <1> QED
    BY <1>1, BeginParsingKeeps DEF ParseWaiting, bufVars

(* The reset. *)
LEMMA KeepAliveKeeps ==
  ASSUME ParserInv, KeepAlive PROVE ParserInv'
  <1> DEFINE len == fill_ptr - process_ptr
  <1>1. e' \in Env /\ e'.parse_step = "BEGIN"
        /\ e'.body = -1 /\ e'.chunked_body = -1 /\ e'.chunked_body_end = -1
    <2>1. FreshEnv \in Env /\ FreshEnv.parse_step = "BEGIN" /\ FreshEnv.body = -1
          /\ FreshEnv.chunked_body = -1 /\ FreshEnv.chunked_body_end = -1
      BY ParserAssumption DEF FreshEnv, Env, NoToken, Token
    <2>2. e.reforming_flag \in BOOLEAN /\ e.header_array_size \in Nat
      BY Bounds DEF Env
    <2>3. PICK flag \in BOOLEAN :
            \E size \in {FreshEnv.header_array_size, e.header_array_size} :
              e' = [FreshEnv EXCEPT !.reforming_flag = flag, !.header_array_size = size]
      BY <2>2 DEF KeepAlive, ResetHttpEnv
    <2>4. FreshEnv.header_array_size \in Nat
      BY <2>1 DEF Env
    <2> QED
      BY <2>1, <2>2, <2>3, <2>4 DEF Env
  <1>2. mem' \in [Offsets -> Symbols]
    <2>1. mem \in [Offsets -> Symbols]
      BY DEF ParserInv, ParserTypeOK
    <2>2. ASSUME NEW q \in Offsets, q < len PROVE process_ptr + q \in Offsets
      BY <2>2, Bounds, ParserAssumption DEF Offsets
    <2>3. mem' = mem \/ mem' = [q \in Offsets |-> IF q < len THEN mem[process_ptr + q] ELSE mem[q]]
      BY DEF KeepAlive, ResetHttpEnv
    <2> HIDE DEF len
    <2> QED
      BY <2>1, <2>2, <2>3
  <1>3. process_ptr' = 0 /\ fill_ptr' \in {0, len} /\ fill_ptr' \in Offsets /\ fill_ptr' \in Nat
    BY Bounds, ParserAssumption DEF KeepAlive, ResetHttpEnv, Offsets
  <1>4. ParserTypeOK'
    BY <1>1, <1>2, <1>3 DEF KeepAlive, ParserInv, ParserTypeOK, peerVars
  <1>5. BodyWithin'
    BY <1>1 DEF BodyWithin
  <1> QED
    BY <1>4, <1>5 DEF ParserInv

(* ParseHttpBuffer, ReceiveHttpBuffer and ResetHttpEnv keep every pointer    *)
(* within the bytes received, and every access to the request buffer within  *)
(* it, whatever the peers send and however it is cut.                        *)
THEOREM ParserInBuffer == Spec => [](ParserTypeOK /\ BodyWithin)
  <1>1. Init => ParserInv
    <2> SUFFICES ASSUME Init PROVE ParserInv
      OBVIOUS
    <2>1. FreshEnv \in Env
      BY ParserAssumption DEF FreshEnv, Env, NoToken, Token
    <2>2. /\ e.parse_step = "BEGIN" /\ e.body = -1 /\ e.chunked_body = -1
          /\ e.chunked_body_end = -1
      BY DEF Init, FreshEnv
    <2>3. 0 \in Offsets /\ mem \in [Offsets -> Symbols] /\ Len(conversation) \in Nat
      BY ParserAssumption DEF Init, Offsets
    <2>4. ParserTypeOK
      BY <2>1, <2>2, <2>3 DEF Init, ParserTypeOK
    <2>5. BodyWithin
      BY <2>2 DEF BodyWithin
    <2> QED
      BY <2>4, <2>5 DEF ParserInv
  <1>2. ParserInv /\ [Next]_vars => ParserInv'
    <2> SUFFICES ASSUME ParserInv, [Next]_vars PROVE ParserInv'
      OBVIOUS
    <2>1. CASE Close
      BY <2>1 DEF Close, ParserInv, ParserTypeOK, BodyWithin, peerVars, bufVars
    <2>2. CASE UNCHANGED vars
      BY <2>2 DEF vars, ParserInv, ParserTypeOK, BodyWithin, peerVars, bufVars
    <2> QED
      BY <2>1, <2>2, PeerSendsKeeps, ParseWaitingKeeps, ReceiveKeeps, ParseHttpBufferKeeps,
         KeepAliveKeeps
      DEF Next
  <1> QED
    BY <1>1, <1>2, PTL DEF Spec, ParserInv

(* The parser's step, tokens and pointers keep to their types: no length   *)
(* or offset leaves the buffer.                                            *)
THEOREM ParserTypes == Spec => []ParserTypeOK
  BY ParserInBuffer, PTL

----------------------------------------------------------------------------
(* What a layout gives. *)

Expects(r, l) ==
  /\ Written(r, l) /\ Size(r) \in Nat
  /\ r.pipelines => WholeRequest(r, l) /\ Counted(r, l)
  /\ WholeRequest(r, l) /\ Chunks(r, l) => Closes(r, l)

(* The parts of a layout have their types. *)
LEMMA LayoutTypes ==
  ASSUME NEW l \in Layout
  PROVE  /\ l.method.from \in Nat /\ l.method.to \in Nat
         /\ l.uri.from \in Nat /\ l.uri.to \in Nat
         /\ l.version.from \in Nat /\ l.version.to \in Nat
         /\ l.line \in Nat /\ l.body \in Nat /\ l.length \in Nat /\ l.chunked \in BOOLEAN
         /\ l.broken \in Header /\ l.header \in Seq(Header) /\ l.trailer \in Seq(Header)
         /\ l.chunk \in Seq([at : Nat, data : Nat, len : Nat, off : Nat])
         /\ l.content \in Seq(Symbols)
  BY DEF Layout, Span

(* The places of a header are offsets. *)
LEMMA HeaderTypes ==
  ASSUME NEW h \in Header
  PROVE  /\ h.name.from \in Nat /\ h.name.to \in Nat
         /\ h.value.from \in Nat /\ h.value.to \in Nat /\ h.next \in Nat
  BY DEF Header, Span

(* The places of a header come one behind the other. *)
LEMMA HeaderOrder ==
  ASSUME NEW r, NEW h \in Header, NEW at \in Nat, HeaderAt(r, h, at)
  PROVE  /\ h.name.from = at /\ at < h.name.to /\ h.name.to < h.value.from
         /\ h.value.from < h.value.to /\ h.value.to < h.next /\ h.next <= Size(r)
         /\ Tok(h.name) \in Token /\ Tok(h.value) \in Token
  <1>1. /\ h.name.from \in Nat /\ h.name.to \in Nat /\ h.value.from \in Nat
        /\ h.value.to \in Nat /\ h.next \in Nat
    BY HeaderTypes
  <1>2. /\ h.name.from = at /\ at < h.name.to /\ h.name.to + 1 <= h.value.from
        /\ h.value.from < h.value.to /\ h.value.to < h.next /\ h.next <= Size(r)
    BY DEF HeaderAt, NameAt, Gap
  <1>3. Tok(h.name) \in Token /\ Tok(h.value) \in Token
    BY <1>1 DEF Tok, Token
  <1> QED
    BY <1>1, <1>2, <1>3

(* The places of a chunk are offsets. *)
LEMMA ChunkTypes ==
  ASSUME NEW l \in Layout, NEW i \in DOMAIN l.chunk
  PROVE  /\ i \in Nat /\ l.chunk[i].at \in Nat /\ l.chunk[i].data \in Nat
         /\ l.chunk[i].len \in Nat /\ l.chunk[i].off \in Nat /\ Len(l.chunk) \in Nat
  <1> DEFINE C == [at : Nat, data : Nat, len : Nat, off : Nat]
  <1>1. l.chunk \in Seq(C)
    BY LayoutTypes
  <1>2. i \in Nat /\ l.chunk[i] \in C /\ Len(l.chunk) \in Nat
    <2> HIDE DEF C
    <2> QED
      BY <1>1
  <1> QED
    BY <1>2

----------------------------------------------------------------------------
(* One and the same place ends a scan. *)

LEMMA StopsAt ==
  ASSUME ParserInv, NEW from \in Nat, NEW q \in from .. fill_ptr, NEW S, Stops(q, from, S),
         NEW x \in Nat, from <= x,
         \A s \in from .. x - 1 : s < fill_ptr => mem[s] \notin S,
         x < fill_ptr => mem[x] \in S
  PROVE  q = IF x < fill_ptr THEN x ELSE fill_ptr
  <1>1. fill_ptr \in Nat
    BY Bounds
  <1> QED
    BY <1>1 DEF Stops

----------------------------------------------------------------------------
(* What the buffer holds while a request is read. *)

Reads ==
  /\ ParserInv /\ ReadInv /\ pc = "parse"
  /\ Expects(This, This.layout)
  /\ WholeRequest(This, This.layout) /\ Chunks(This, This.layout) => Index = Len(conversation)

(* What the pointers and the environment are while a request is read. *)
LEMMA ReadsBounds ==
  ASSUME Reads
  PROVE  /\ fill_ptr \in Nat /\ fill_ptr < BufSize /\ process_ptr \in 0 .. fill_ptr
         /\ p \in 0 .. fill_ptr /\ p \in Nat /\ e \in Env
         /\ process_ptr < Size(This) /\ Size(This) \in Nat
         /\ Len(outcomes) < sent /\ Standing(e, p, This, This.layout)
         /\ This.layout \in Layout /\ Written(This, This.layout)
         /\ ~e.reforming_flag
         /\ e.body \in Int /\ e.chunked_body_end \in Int
  <1>1. e.body \in Int /\ e.chunked_body_end \in Int
    BY Bounds DEF Reads, Env
  <1> QED
    BY <1>1, Bounds DEF Reads, ReadInv, Parses, Buffered, Expects, Written

(* What has come of the request stands in the buffer as it was sent, but
   for the body that has been moved. *)
LEMMA Sees ==
  ASSUME Reads, NEW q \in Nat, q < fill_ptr, q < Size(This), q < e.body \/ e.chunked_body_end <= q
  PROVE  mem[q] = Byte(This, q)
  <1>1. mem[q] = Due(Index, q)
    BY ReadsBounds DEF Reads, ReadInv, Buffered, Intact
  <1>2. Index <= sent
    <2>1. sent \in Nat /\ Len(outcomes) \in Nat
      BY DEF Reads, ParserInv, ParserTypeOK, ReadInv, Ahead
    <2> QED
      BY <2>1, ReadsBounds DEF Index
  <1>3. Outstanding(Index) = This.bytes
    BY <1>2 DEF Outstanding, This
  <1> QED
    BY <1>1, <1>3 DEF Due, Byte, Size

(* Before a body of chunks begins, that is all of it. *)
LEMMA SeesAll ==
  ASSUME Reads, e.chunked_body_end = -1
  PROVE  \A q \in Nat : q < fill_ptr /\ q < Size(This) => mem[q] = Byte(This, q)
  <1> SUFFICES ASSUME NEW q \in Nat, q < fill_ptr, q < Size(This) PROVE mem[q] = Byte(This, q)
    OBVIOUS
  <1> QED
    BY Sees

----------------------------------------------------------------------------
(* The ways in which a case of the switch ends. *)

peerAndBuffer == <<conversation, sent, wire, mem, fill_ptr, outcomes>>

(* A step that leaves the peer, the buffer and the outcomes alone leaves
   what is due. *)
LEMMA Steady ==
  ASSUME Reads, UNCHANGED peerAndBuffer
  PROVE  /\ OutcomesMatch' /\ Ahead' /\ Flow(0)' /\ This' = This /\ Index' = Index
         /\ \A q \in 0 .. fill_ptr - 1 : Due(Index, q)' = Due(Index, q)
  <1>1. /\ conversation' = conversation /\ sent' = sent /\ wire' = wire /\ mem' = mem
        /\ fill_ptr' = fill_ptr /\ outcomes' = outcomes
    BY DEF peerAndBuffer
  <1>2. Index' = Index /\ This' = This
    BY <1>1 DEF Index, This
  <1>3. \A k : Outstanding(k)' = Outstanding(k)
    BY <1>1 DEF Outstanding
  <1>4. \A q : Due(Index, q)' = Due(Index, q)
    BY <1>2, <1>3 DEF Due
  <1>5. OutcomesMatch' /\ Ahead'
    BY <1>1, <1>2 DEF Reads, ReadInv, OutcomesMatch, Ahead
  <1>6. Flow(0)'
    BY <1>1, <1>2, <1>3 DEF Reads, ReadInv, Buffered, Flow, Total, Due
  <1> QED
    BY <1>2, <1>4, <1>5, <1>6

(* If it keeps the places of the body too, or sets them for the first time,
   the buffer stays as it is to be. *)
LEMMA SteadyBuffer ==
  ASSUME Reads, UNCHANGED peerAndBuffer, e'.reforming_flag = e.reforming_flag,
         \/ e'.body = e.body /\ e'.chunked_body_end = e.chunked_body_end
         \/ /\ e.chunked_body_end = -1
            /\ e'.chunked_body_end = -1 \/ e'.chunked_body_end = e'.body,
         e'.body \in Int,
         \/ process_ptr' >= fill_ptr - 1
         \/ process_ptr' = process_ptr
  PROVE  Buffered'
  <1>1. /\ mem' = mem /\ fill_ptr' = fill_ptr
        /\ Flow(0)' /\ This' = This /\ Index' = Index
        /\ \A q \in 0 .. fill_ptr - 1 : Due(Index, q)' = Due(Index, q)
    BY Steady DEF peerAndBuffer
  <1>2. /\ fill_ptr \in Nat /\ e.body \in Int /\ e.chunked_body_end \in Int
        /\ process_ptr \in Int /\ Buffered
    BY ReadsBounds DEF Reads, ReadInv
  <1>3. ~e.reforming_flag' /\ ~e'.reforming_flag
    BY <1>2 DEF Buffered
  <1>4. Uncut'
    BY <1>1, <1>2 DEF Uncut, Buffered
  <1>5. Intact'
    <2> SUFFICES ASSUME NEW q \in 0 .. fill_ptr - 1, q < e'.body \/ e'.chunked_body_end <= q
                 PROVE  mem[q] = Due(Index, q)
      BY <1>1 DEF Intact
    <2>1. q < e.body \/ e.chunked_body_end <= q
      BY <1>2
    <2> QED
      BY <1>2, <2>1 DEF Buffered, Intact
  <1>6. Gathered'
    BY <1>1, <1>2 DEF Gathered, Buffered
  <1> QED
    BY <1>1, <1>3, <1>4, <1>5, <1>6 DEF Buffered

(* The parser stands somewhere only after it has begun. *)
LEMMA StandingStep ==
  ASSUME NEW env, NEW at, NEW r, NEW l, Standing(env, at, r, l)
  PROVE  env.parse_step # "BEGIN"
  BY DEF Standing

(* A case that asks for more bytes keeps the invariant when it stands where
   it can go on. *)
LEMMA NeedMoreReads ==
  ASSUME Reads, NEW STATE at, at \in 0 .. fill_ptr, NeedMore(at),
         at = fill_ptr \/ at = process_ptr, fill_ptr < Size(This),
         e'.body = e.body, e'.chunked_body_end = e.chunked_body_end,
         e'.reforming_flag = e.reforming_flag,
         Standing(e', at, This, This.layout)
  PROVE  ReadInv'
  <1>1. UNCHANGED peerAndBuffer /\ pc' = "recv" /\ process_ptr' = at
    BY DEF NeedMore, parseUnchanged, peerAndBuffer, peerVars
  <1>2. OutcomesMatch' /\ Ahead' /\ This' = This
    BY <1>1, Steady
  <1>3. Buffered'
    BY <1>1, ReadsBounds, SteadyBuffer
  <1>4. Waits'
    <2>1. e'.parse_step # "BEGIN"
      BY StandingStep
    <2>2. Len(outcomes') < sent' /\ fill_ptr' < Size(This)'
      BY <1>1, <1>2, ReadsBounds DEF peerAndBuffer, Size
    <2> QED
      BY <1>1, <1>2, <2>1, <2>2 DEF Waits
  <1> QED
    BY <1>1, <1>2, <1>3, <1>4 DEF ReadInv

(* A case that goes on keeps it when the parser then stands where the
   layout says. *)
LEMMA GoOnReads ==
  ASSUME Reads, NEW STATE env, NEW STATE at, at \in Nat, GoOn(env, at), p <= at,
         \/ env.body = e.body /\ env.chunked_body_end = e.chunked_body_end
         \/ /\ e.chunked_body_end = -1 /\ env.body \in Int
            /\ env.chunked_body_end = -1 \/ env.chunked_body_end = env.body,
         env.reforming_flag = e.reforming_flag,
         Standing(env, at, This, This.layout)
  PROVE  ReadInv'
  <1>1. /\ UNCHANGED peerAndBuffer /\ pc' = pc /\ process_ptr' = process_ptr
        /\ p' = at /\ e' = env
    BY DEF GoOn, parseUnchanged, peerAndBuffer, peerVars
  <1>2. OutcomesMatch' /\ Ahead' /\ This' = This
    BY <1>1, Steady
  <1>3. Buffered'
    BY <1>1, ReadsBounds, SteadyBuffer
  <1>4. Parses'
    <2>1. Len(outcomes') < sent' /\ process_ptr' < Size(This)'
      BY <1>1, <1>2, ReadsBounds DEF peerAndBuffer, Size
    <2>2. e'.chunked_body_end = -1 => process_ptr' <= p'
      <3>1. e'.chunked_body_end = -1 => e.chunked_body_end = -1
        BY <1>1
      <3> QED
        BY <1>1, <3>1, ReadsBounds DEF Reads, ReadInv, Parses
    <2> QED
      BY <1>1, <1>2, <2>1, <2>2 DEF Parses
  <1> QED
    BY <1>1, <1>2, <1>3, <1>4 DEF ReadInv, Reads

(* One more outcome, the one that was to come. *)
LEMMA Answers ==
  ASSUME Reads, NEW answer, outcomes' = Append(outcomes, answer), answer = This.outcome,
         UNCHANGED peerVars
  PROVE  /\ OutcomesMatch' /\ Ahead' /\ Len(outcomes') = Index /\ Index' = Index + 1
         /\ Index \in DOMAIN conversation /\ Index \in Nat \ {0}
  <1> DEFINE O == {conversation[k].outcome : k \in DOMAIN conversation}
  <1>1. /\ conversation' = conversation /\ sent' = sent
        /\ Len(conversation) \in Nat /\ DOMAIN conversation = 1 .. Len(conversation)
        /\ sent \in 0 .. Len(conversation) /\ sent <= Len(outcomes) + 2
        /\ outcomes \in Seq(O) /\ Len(outcomes) < sent
    BY ParserAssumption, ReadsBounds DEF Reads, ParserInv, ParserTypeOK, ReadInv, Ahead, peerVars
  <1>2. Len(outcomes) \in Nat /\ Index \in DOMAIN conversation /\ Index <= sent
    <2>1. Len(outcomes) \in Nat
      <3> HIDE DEF O
      <3> QED
        BY <1>1
    <2> QED
      BY <1>1, <2>1 DEF Index
  <1>3. answer \in O /\ answer = conversation[Index].outcome
    BY <1>2 DEF This
  <1>4. outcomes' \in Seq(O) /\ Len(outcomes') = Index
    <2> HIDE DEF O
    <2> QED
      BY <1>1, <1>2, <1>3 DEF Index
  <1>5. \A k \in DOMAIN outcomes' : k <= sent /\ outcomes'[k] = conversation[k].outcome
    <2>1. \A k \in DOMAIN outcomes : k <= sent /\ outcomes[k] = conversation[k].outcome
      BY DEF Reads, ReadInv, OutcomesMatch
    <2>2. \A k \in DOMAIN outcomes' :
            \/ k \in DOMAIN outcomes /\ outcomes'[k] = outcomes[k]
            \/ k = Index /\ outcomes'[k] = answer
      <3> HIDE DEF O
      <3> QED
        BY <1>1, <1>2, <1>3 DEF Index
    <2> QED
      BY <1>2, <1>3, <2>1, <2>2
  <1>6. OutcomesMatch'
    BY <1>1, <1>5 DEF OutcomesMatch
  <1>7. Ahead'
    <2>1. O' = O
      BY <1>1
    <2> HIDE DEF O
    <2>2. sent' < Len(outcomes') + 2 /\ Len(outcomes') <= sent'
      BY <1>1, <1>2, <1>4 DEF Index
    <2> USE DEF O
    <2> QED
      BY <1>1, <1>4, <2>1, <2>2 DEF Ahead
  <1> QED
    BY <1>2, <1>4, <1>6, <1>7 DEF Index

(* A case that rejects keeps it when the request was to be rejected so. *)
LEMMA RejectReads ==
  ASSUME Reads, NEW error, Reject(error), This.outcome = Rejection(error)
  PROVE  ReadInv'
  BY Answers DEF Reject, parseUnchanged, ReadInv

(* Outstanding requests are sequences of symbols. *)
LEMMA OutstandingTypes ==
  ASSUME ParserInv, NEW k \in Nat \ {0}
  PROVE  Outstanding(k) \in Seq(Symbols) /\ Len(Outstanding(k)) \in Nat
  <1>1. Outstanding(k) \in Seq(Symbols)
    <2>1. CASE k <= sent
      <3>1. k \in DOMAIN conversation
        BY <2>1, ParserAssumption DEF ParserInv, ParserTypeOK
      <3> QED
        BY <2>1, <3>1, ParserAssumption DEF ParserInv, ParserTypeOK, Outstanding
    <2>2. CASE ~(k <= sent)
      BY <2>2 DEF Outstanding
    <2> QED
      BY <2>1, <2>2
  <1> QED
    BY <1>1

(* What follows a request that is complete is the next one.                *)
LEMMA BehindIt ==
  ASSUME Reads
  PROVE  /\ Outstanding(Index) = This.bytes /\ Outstanding(Index + 2) = <<>>
         /\ Index \in Nat \ {0} /\ sent \in Nat
         /\ Total(Index) = Size(This) + Total(Index + 1)
         /\ \A q \in Nat : Size(This) <= q /\ q < Total(Index) =>
              Due(Index + 1, q - Size(This)) = Due(Index, q)
         /\ ~This.pipelines => Total(Index) = Size(This)
         /\ Total(Index) \in Nat /\ Total(Index + 1) \in Nat
  <1>1. Len(outcomes) \in Nat /\ Len(outcomes) < sent /\ sent <= Len(outcomes) + 2 /\ sent \in Nat
    <2>1. Len(outcomes) \in Nat
      BY DEF Reads, ReadInv, Ahead
    <2>2. Len(conversation) \in Nat /\ sent \in 0 .. Len(conversation)
      BY ParserAssumption DEF Reads, ParserInv, ParserTypeOK
    <2> QED
      BY <2>1, <2>2, ReadsBounds DEF Reads, ReadInv, Ahead
  <1>2. Index \in Nat \ {0} /\ Index <= sent /\ ~(Index + 2 <= sent)
    BY <1>1 DEF Index
  <1>3. Outstanding(Index) = This.bytes /\ Outstanding(Index + 2) = <<>>
    BY <1>2 DEF Outstanding, This
  <1>4. Len(Outstanding(Index + 1)) \in Nat /\ Size(This) \in Nat
    BY <1>2, OutstandingTypes, ReadsBounds DEF Reads
  <1>5. Total(Index) = Size(This) + Len(Outstanding(Index + 1))
    BY <1>3 DEF Total, Size
  <1>6. Total(Index + 1) = Len(Outstanding(Index + 1))
    BY <1>2, <1>3, <1>4 DEF Total
  <1>7. ASSUME NEW q \in Nat, Size(This) <= q, q < Total(Index)
        PROVE  Due(Index + 1, q - Size(This)) = Due(Index, q)
    <2>1. Due(Index, q) = Outstanding(Index + 1)[q - Size(This) + 1]
      <3>1. Len(Outstanding(Index)) = Size(This)
        BY <1>3 DEF Size
      <3>2. ~(q < Size(This))
        BY <1>4, <1>7
      <3> QED
        BY <3>1, <3>2 DEF Due
    <2>2. q - Size(This) < Len(Outstanding(Index + 1))
      BY <1>4, <1>5, <1>7
    <2>3. Due(Index + 1, q - Size(This)) = Outstanding(Index + 1)[(q - Size(This)) + 1]
      BY <2>2 DEF Due
    <2> QED
      BY <2>1, <2>3
  <1>8. ~This.pipelines => Total(Index) = Size(This)
    <2>1. ASSUME ~This.pipelines PROVE ~(Index + 1 <= sent)
      BY <1>1, <2>1 DEF Reads, ReadInv, Ahead, Index
    <2>2. ~This.pipelines => Outstanding(Index + 1) = <<>>
      BY <2>1 DEF Outstanding
    <2> QED
      BY <1>4, <1>5, <2>2
  <1> QED
    BY <1>1, <1>2, <1>3, <1>4, <1>5, <1>6, <1>7, <1>8

(* A case that completes the request keeps it when all its bytes, and no
   others, are read. *)
LEMMA CompletesWhole ==
  ASSUME Reads, NEW STATE env, env \in Env, NEW keep_rest \in BOOLEAN,
         Complete(env, Size(This), keep_rest),
         Size(This) <= fill_ptr, keep_rest \/ ~This.pipelines,
         e.chunked_body_end = -1, env.chunked_body_end = -1,
         env.header_array_size = HeaderArraySize, env.reforming_flag = e.reforming_flag,
         Request(env, mem) = This.outcome
  PROVE  ReadInv'
  <1>1. /\ process_ptr' = Size(This) /\ pc' = "done" /\ UNCHANGED <<peerVars, mem, fill_ptr>>
        /\ wire' = wire /\ sent' = sent /\ conversation' = conversation
        /\ mem' = mem /\ fill_ptr' = fill_ptr
        /\ outcomes' = Append(outcomes, Request(env, mem))
    BY DEF Complete, parseUnchanged, peerVars
  <1>2. OutcomesMatch' /\ Ahead' /\ Index' = Index + 1 /\ Index \in Nat \ {0}
    BY <1>1, Answers
  <1>3. /\ e'.chunked_body_end = -1 /\ e'.header_array_size = HeaderArraySize
        /\ e'.reforming_flag = (keep_rest /\ fill_ptr > Size(This))
    <2>1. e' = [env EXCEPT !.parse_step = "DONE",
                           !.reforming_flag = @ \/ (keep_rest /\ fill_ptr > Size(This))]
      BY DEF Complete
    <2>2. ~env.reforming_flag
      BY ReadsBounds
    <2> QED
      BY <2>1, <2>2 DEF Env
  <1>4. Len(wire) \in Nat /\ Size(This) \in Nat /\ fill_ptr \in Nat /\ Flow(0) /\ Uncut
    BY ReadsBounds DEF Reads, ParserInv, ParserTypeOK, ReadInv, Buffered
  <1>5. \A k, q : Due(k, q)' = Due(k, q) /\ Total(k)' = Total(k)
    BY <1>1 DEF Due, Total, Outstanding
  <1>6. Flow(process_ptr)'
    <2>1. Len(wire) + fill_ptr - Size(This) = Total(Index + 1)
      <3>1. Len(wire) + fill_ptr - 0 = Total(Index)
        BY <1>4 DEF Flow
      <3>2. /\ Total(Index) = Size(This) + Total(Index + 1)
            /\ Total(Index) \in Nat /\ Total(Index + 1) \in Nat
        BY BehindIt
      <3> QED
        BY <1>4, <3>1, <3>2
    <2>2. ASSUME NEW j \in 1 .. Len(wire)
          PROVE  wire[j] = Due(Index + 1, fill_ptr - Size(This) + j - 1)
      <3>1. wire[j] = Due(Index, fill_ptr + j - 1)
        BY <1>4 DEF Flow
      <3>2. fill_ptr + j - 1 \in Nat /\ Size(This) <= fill_ptr + j - 1
            /\ fill_ptr + j - 1 < Total(Index)
        BY <1>4 DEF Flow
      <3>3. Due(Index + 1, (fill_ptr + j - 1) - Size(This)) = Due(Index, fill_ptr + j - 1)
        BY <3>2, BehindIt
      <3>4. (fill_ptr + j - 1) - Size(This) = fill_ptr - Size(This) + j - 1
        BY <1>4
      <3> QED
        BY <3>1, <3>3, <3>4
    <2> QED
      BY <1>1, <1>2, <1>5, <2>1, <2>2 DEF Flow
  <1>7. Uncut'
    <2>1. process_ptr \in Nat /\ process_ptr < Size(This)
      BY ReadsBounds
    <2> QED
      BY <1>1, <1>4, <2>1 DEF Uncut
  <1>8. \A q \in process_ptr' .. fill_ptr' - 1 : mem'[q] = Due(Index, q - process_ptr)'
    <2> SUFFICES ASSUME NEW q \in Size(This) .. fill_ptr - 1
                 PROVE  mem[q] = Due(Index + 1, q - Size(This))
      BY <1>1, <1>2, <1>5
    <2>1. q \in Nat /\ q < fill_ptr /\ Size(This) <= q /\ q \in 0 .. fill_ptr - 1
      BY <1>4
    <2>2. mem[q] = Due(Index, q)
      BY <2>1 DEF Reads, ReadInv, Buffered, Intact
    <2>3. q < Total(Index)
      BY <1>4, <2>1 DEF Flow
    <2> QED
      BY <2>1, <2>2, <2>3, BehindIt
  <1>9. e'.reforming_flag <=> process_ptr' < fill_ptr'
    <2>1. ~keep_rest => fill_ptr <= Size(This)
      BY <1>4, BehindIt DEF Flow
    <2> QED
      <3>1. CASE keep_rest
        BY <1>1, <1>3, <1>4, <3>1
      <3>2. CASE ~keep_rest
        <4>1. ~(Size(This) < fill_ptr) /\ ~e'.reforming_flag
          BY <1>3, <1>4, <2>1, <3>2
        <4> QED
          BY <1>1, <4>1
      <3> QED
        BY <3>1, <3>2
  <1>10. Answered'
    BY <1>3, <1>6, <1>7, <1>8, <1>9 DEF Answered
  <1> QED
    BY <1>1, <1>2, <1>10 DEF ReadInv

(* So does one that completes the last request of a connection that closes. *)
LEMMA CompletesLast ==
  ASSUME Reads, NEW STATE env, env \in Env, NEW STATE at, NEW keep_rest, Complete(env, at, keep_rest),
         Index = Len(conversation), env.keepalive = -1, Request(env, mem) = This.outcome
  PROVE  ReadInv'
  <1>1. /\ pc' = "done" /\ conversation' = conversation /\ UNCHANGED peerVars
        /\ outcomes' = Append(outcomes, Request(env, mem))
    BY DEF Complete, parseUnchanged, peerVars
  <1>2. OutcomesMatch' /\ Ahead' /\ Len(outcomes') = Len(conversation')
    BY <1>1, Answers
  <1>3. e'.keepalive = -1
    BY DEF Complete, Env
  <1> QED
    BY <1>1, <1>2, <1>3 DEF ReadInv, Answered

----------------------------------------------------------------------------
(* How far a start line goes. *)

(* Each stage of the start line contains the one before it. *)
LEMMA StartLineGoes ==
  ASSUME NEW r, NEW l
  PROVE  /\ MethodWord(r, l) => MethodGap(r, l) /\ Byte(r, l.method.from) # NL
         /\ UriGap(r, l) => MethodWord(r, l) /\ Byte(r, l.method.to) = SP /\ IsMethod(r, l)
         /\ UriWord(r, l) => UriGap(r, l) /\ Byte(r, l.uri.from) # NL
         /\ VersionGap(r, l) => UriWord(r, l) /\ Byte(r, l.uri.to) = SP
         /\ VersionWord(r, l) => VersionGap(r, l) /\ Byte(r, l.version.from) # NL
         /\ StartLine(r, l) => VersionWord(r, l) /\ IsVersion(r, l)
  <1>1. MethodWord(r, l) => MethodGap(r, l) /\ Byte(r, l.method.from) # NL
    BY DEF MethodWord
  <1>2. UriGap(r, l) => MethodWord(r, l) /\ Byte(r, l.method.to) = SP /\ IsMethod(r, l)
    BY DEF UriGap
  <1>3. UriWord(r, l) => UriGap(r, l) /\ Byte(r, l.uri.from) # NL
    BY DEF UriWord
  <1>4. VersionGap(r, l) => UriWord(r, l) /\ Byte(r, l.uri.to) = SP
    BY DEF VersionGap
  <1>5. VersionWord(r, l) => VersionGap(r, l) /\ Byte(r, l.version.from) # NL
    BY DEF VersionWord
  <1>6. StartLine(r, l) => VersionWord(r, l) /\ IsVersion(r, l)
    BY DEF StartLine
  <1> QED
    BY <1>1, <1>2, <1>3, <1>4, <1>5, <1>6

(* One of two things stands at each place the parser decides at.           *)
LEMMA StartLineEnds ==
  ASSUME NEW r, NEW l, Written(r, l)
  PROVE  /\ MethodGap(r, l)
         /\ Byte(r, l.method.from) = NL => r.outcome = Rejection("START_LINE_INVALID")
         /\ Byte(r, l.method.from) # NL => MethodWord(r, l)
         /\ MethodWord(r, l) =>
              /\ Byte(r, l.method.to) = NL => r.outcome = Rejection("START_LINE_INVALID")
              /\ Byte(r, l.method.to) = SP /\ ~IsMethod(r, l) => r.outcome = Rejection("METHOD_INVALID")
              /\ Byte(r, l.method.to) = SP /\ IsMethod(r, l) => UriGap(r, l)
         /\ UriGap(r, l) =>
              /\ Byte(r, l.uri.from) = NL => r.outcome = Rejection("START_LINE_INVALID")
              /\ Byte(r, l.uri.from) # NL => UriWord(r, l)
         /\ UriWord(r, l) =>
              /\ Byte(r, l.uri.to) = NL => r.outcome = Rejection("START_LINE_INVALID")
              /\ Byte(r, l.uri.to) # NL => VersionGap(r, l)
         /\ VersionGap(r, l) =>
              /\ Byte(r, l.version.from) = NL => r.outcome = Rejection("START_LINE_INVALID")
              /\ Byte(r, l.version.from) # NL => VersionWord(r, l)
         /\ VersionWord(r, l) =>
              /\ ~IsVersion(r, l) => r.outcome = Rejection("VERSION_NOT_SUPPORTED")
              /\ IsVersion(r, l) => StartLine(r, l)
         /\ StartLine(r, l) =>
              \/ WholeRequest(r, l)
              \/ HeaderInvalid(r, l) /\ r.outcome = Rejection("HEADER_INVALID")
  <1>1. SP # NL
    BY DEF SP, NL
  <1>2. WholeRequest(r, l) => StartLine(r, l)
    BY DEF WholeRequest
  <1>3. HeaderInvalid(r, l) => StartLine(r, l)
    BY DEF HeaderInvalid
  <1>4. MethodInvalid(r, l) =>
          MethodWord(r, l) /\ Byte(r, l.method.to) = SP /\ ~IsMethod(r, l)
    BY DEF MethodInvalid
  <1>5. VersionNotSupported(r, l) => VersionWord(r, l) /\ ~IsVersion(r, l)
    BY DEF VersionNotSupported
  <1> QED
    BY <1>1, <1>2, <1>3, <1>4, <1>5, StartLineGoes DEF Written, StartLineInvalid

(* The text of a token is the slice of its span, once it has come.         *)
LEMMA Spelt ==
  ASSUME Reads, NEW s, s.from \in Nat, s.to \in Nat, s.from <= s.to,
         s.to <= fill_ptr, s.to <= Size(This),
         s.to <= e.body \/ e.chunked_body_end <= s.from,
         NEW t, t.ptr = s.from, t.len = s.to - s.from
  PROVE  Text(t) = Slice(This, s)
  <1>1. ASSUME NEW k \in 1 .. s.to - s.from
        PROVE  mem[s.from + k - 1] = This.bytes[s.from + k]
    <2>1. /\ s.from + k - 1 \in Nat /\ s.from + k - 1 < s.to
          /\ s.from + k - 1 < fill_ptr /\ s.from + k - 1 < Size(This)
      BY ReadsBounds
    <2>2. s.from + k - 1 < e.body \/ e.chunked_body_end <= s.from + k - 1
      BY <2>1, ReadsBounds
    <2>3. mem[s.from + k - 1] = Byte(This, s.from + k - 1)
      BY <2>1, <2>2, Sees
    <2> QED
      BY <2>3 DEF Byte
  <1> QED
    BY <1>1 DEF Text, Slice

----------------------------------------------------------------------------
(* What of the environment the lines do not touch. *)

(* The fields that the headers, and the start line before them, are kept
   in. *)
HeaderFields ==
  {"header_array", "header_array_size", "chunked", "TRAILER", "keepalive", "content_length",
   "body", "chunked_body_end", "chunked_length", "reforming_flag"}
LineFields == HeaderFields \cup {"method", "URI", "version"}
(* Two environments with the same values in some fields. *)
Alike(a, b, F) == \A f \in F : a[f] = b[f]

(* Those fields by name. *)
LEMMA AlikeHeaders ==
  ASSUME NEW a, NEW b, Alike(a, b, HeaderFields)
  PROVE  /\ a.header_array = b.header_array /\ a.header_array_size = b.header_array_size
         /\ a.chunked = b.chunked /\ a.TRAILER = b.TRAILER /\ a.keepalive = b.keepalive
         /\ a.content_length = b.content_length /\ a.body = b.body
         /\ a.chunked_body_end = b.chunked_body_end /\ a.reforming_flag = b.reforming_flag
         /\ a.chunked_length = b.chunked_length
  BY DEF Alike, HeaderFields

LEMMA AlikeLines ==
  ASSUME NEW a, NEW b, Alike(a, b, LineFields)
  PROVE  Alike(a, b, HeaderFields) /\ a.method = b.method /\ a.URI = b.URI /\ a.version = b.version
  BY DEF Alike, LineFields

(* What the parser knows before any header depends on these fields alone. *)
LEMMA EmptyFrame ==
  ASSUME NEW a, NEW b, NEW r, NEW l, Alike(a, b, HeaderFields), Empty(b, r, l)
  PROVE  Empty(a, r, l) /\ a.body = b.body /\ a.chunked_body_end = b.chunked_body_end
         /\ a.reforming_flag = b.reforming_flag
  <1>1. /\ a.header_array = b.header_array /\ a.header_array_size = b.header_array_size
        /\ a.chunked = b.chunked /\ a.TRAILER = b.TRAILER /\ a.keepalive = b.keepalive
        /\ a.content_length = b.content_length /\ a.body = b.body
        /\ a.chunked_body_end = b.chunked_body_end /\ a.reforming_flag = b.reforming_flag
         /\ a.chunked_length = b.chunked_length
    BY AlikeHeaders
  <1> QED
    BY <1>1 DEF Empty, InHeaders, NoBody, Told

(* What it knows between two headers does too. *)
LEMMA LinesFrame ==
  ASSUME NEW a, NEW b, NEW r, NEW l, Alike(a, b, LineFields), InLines(b, r, l)
  PROVE  /\ InLines(a, r, l) /\ LineStart(a, l) = LineStart(b, l) /\ Current(a, l) = Current(b, l)
         /\ a.body = b.body /\ a.chunked_body_end = b.chunked_body_end
         /\ a.reforming_flag = b.reforming_flag
  <1>1. /\ a.header_array = b.header_array /\ a.header_array_size = b.header_array_size
        /\ a.chunked = b.chunked /\ a.TRAILER = b.TRAILER /\ a.keepalive = b.keepalive
        /\ a.content_length = b.content_length /\ a.body = b.body
        /\ a.chunked_body_end = b.chunked_body_end /\ a.reforming_flag = b.reforming_flag
         /\ a.chunked_length = b.chunked_length
    BY AlikeHeaders, AlikeLines
  <1>2. a.method = b.method /\ a.URI = b.URI /\ a.version = b.version
    BY AlikeLines
  <1>3. LineRead(a, r, l) /\ (LineRead(b, r, l) => LineRead(a, r, l))
    BY <1>2 DEF InLines, LineRead
  <1>4. InHeaders(b, r, l) => InHeaders(a, r, l)
    BY <1>1 DEF InHeaders, NoBody, Told
  <1>5. InTrailer(b, r, l) => InTrailer(a, r, l)
    BY <1>1, <1>3 DEF InTrailer, InChunk, AllTold, Told
  <1>6. LineStart(a, l) = LineStart(b, l) /\ Current(a, l) = Current(b, l)
    BY <1>1 DEF LineStart, Current
  <1> QED
    BY <1>1, <1>3, <1>4, <1>5, <1>6 DEF InLines

(* Changing other fields of an environment leaves the rest as it was.      *)
LEMMA TwoFields ==
  ASSUME NEW env, NEW t \in DOMAIN env, "parse_step" \in DOMAIN env, t # "parse_step",
         NEW x, NEW next, NEW new, new = [env EXCEPT ![t] = x, !.parse_step = next]
  PROVE  /\ new[t] = x /\ new.parse_step = next
         /\ \A f \in DOMAIN env : f \notin {t, "parse_step"} => new[f] = env[f]
  OBVIOUS

(* Every environment has these fields. *)
LEMMA EnvHasFields ==
  ASSUME NEW env \in Env
  PROVE  /\ LineFields \subseteq DOMAIN env /\ "parse_step" \in DOMAIN env
         /\ \A t \in {"METHOD", "URI", "VERSION", "name", "value"} : t \in DOMAIN env
  BY DEF Env, LineFields, HeaderFields

(* The symbols from the pointer on, as far as they have come.              *)
LEMMA SeesFrom ==
  ASSUME Reads, e.chunked_body_end <= p
  PROVE  \A q \in Nat : p <= q /\ q < fill_ptr /\ q < Size(This) =>
           mem[q] = Byte(This, q) /\ mem[q] \in Symbols
  <1> SUFFICES ASSUME NEW q \in Nat, p <= q, q < fill_ptr, q < Size(This)
               PROVE  mem[q] = Byte(This, q) /\ mem[q] \in Symbols
    OBVIOUS
  <1>1. e.chunked_body_end <= q
    BY ReadsBounds
  <1>2. q \in Offsets /\ mem \in [Offsets -> Symbols]
    BY ReadsBounds, ParserAssumption DEF Reads, ParserInv, ParserTypeOK, Offsets
  <1> QED
    BY <1>1, <1>2, Sees

(* A scan from the pointer on stops at the place where the layout says.    *)
LEMMA ScanStops ==
  ASSUME Reads, e.chunked_body_end <= p,
         NEW S \in SUBSET Symbols, NEW q \in p .. fill_ptr, Stops(q, p, S),
         NEW x \in Nat, p <= x, x < Size(This),
         \A s \in p .. x - 1 : Byte(This, s) \notin S,
         Byte(This, x) \in S \/ (x < fill_ptr => mem[x] \in S)
  PROVE  /\ q = IF x < fill_ptr THEN x ELSE fill_ptr
         /\ q = fill_ptr => fill_ptr <= x /\ fill_ptr < Size(This)
         /\ q < fill_ptr => q = x /\ mem[q] = Byte(This, x)
  <1>1. p \in Nat /\ fill_ptr \in Nat /\ Size(This) \in Nat
    BY ReadsBounds
  <1>2. \A s \in p .. x - 1 : s < fill_ptr => mem[s] \notin S
    BY <1>1, SeesFrom
  <1>3. x < fill_ptr => mem[x] = Byte(This, x)
    BY <1>1, SeesFrom
  <1>4. q = IF x < fill_ptr THEN x ELSE fill_ptr
    BY <1>1, <1>2, <1>3, StopsAt DEF Reads
  <1> QED
    BY <1>1, <1>3, <1>4

(* An environment that differs from the present one in a field and the step
   alone. *)
Otherwise(env, t) == \A f \in DOMAIN e : f \notin {t, "parse_step"} => env[f] = e[f]

(* A case that skips blanks keeps the invariant when the layout has a gap
   there. *)
LEMMA TokenBeginsReads ==
  ASSUME Reads, e.chunked_body_end <= p,
         NEW step, NEW t \in {"METHOD", "URI", "VERSION", "value"}, NEW next, NEW error,
         TokenBegins(step, t, next, error),
         NEW STATE x, x \in Nat, p <= x, x < Size(This),
         Only(This, p, x, {SP}), Byte(This, x) # SP,
         \A at \in p .. x : Standing(e, at, This, This.layout),
         Byte(This, x) = NL => This.outcome = Rejection(error),
         \A env : /\ Byte(This, x) # NL /\ env.parse_step = next
                  /\ env[t] = [ptr |-> x, len |-> 0] /\ Otherwise(env, t)
                  => Standing(env, x + 1, This, This.layout)
  PROVE  ReadInv'
  <1>0. p \in Nat /\ fill_ptr \in Nat /\ Size(This) \in Nat /\ p <= fill_ptr
    BY ReadsBounds
  <1>1. PICK q \in p .. fill_ptr :
          /\ Stops(q, p, Symbols \ {SP})
          /\ \/ q = fill_ptr /\ NeedMore(q) /\ UNCHANGED e
             \/ q < fill_ptr /\ mem[q] = NL /\ Reject(error)
             \/ /\ q < fill_ptr /\ mem[q] # NL
                /\ GoOn([e EXCEPT ![t] = [ptr |-> q, len |-> 0], !.parse_step = next], q + 1)
    BY DEF TokenBegins
  <1>2. /\ q = fill_ptr => fill_ptr <= x /\ fill_ptr < Size(This)
        /\ q < fill_ptr => q = x /\ mem[q] = Byte(This, x)
    <2>1. \A s \in p .. x - 1 : Byte(This, s) \notin Symbols \ {SP}
      BY DEF Only
    <2>2. x < fill_ptr => mem[x] \in Symbols \ {SP}
      BY <1>0, SeesFrom
    <2> QED
      BY <1>1, <2>1, <2>2, ScanStops
  <1>3. CASE q = fill_ptr /\ NeedMore(q) /\ UNCHANGED e
    <2>1. q \in p .. x /\ q \in 0 .. fill_ptr
      BY <1>0, <1>2, <1>3
    <2> QED
      BY <1>2, <1>3, <2>1, NeedMoreReads
  <1>4. CASE q < fill_ptr /\ mem[q] = NL /\ Reject(error)
    BY <1>2, <1>4, RejectReads
  <1>5. CASE /\ q < fill_ptr /\ mem[q] # NL
             /\ GoOn([e EXCEPT ![t] = [ptr |-> q, len |-> 0], !.parse_step = next], q + 1)
    <2> DEFINE env == [e EXCEPT ![t] = [ptr |-> q, len |-> 0], !.parse_step = next]
    <2>1. q = x /\ Byte(This, x) # NL
      BY <1>2, <1>5
    <2>2. env.parse_step = next /\ env[t] = [ptr |-> x, len |-> 0] /\ Otherwise(env, t)
      <3>1. e \in Env
        BY ReadsBounds
      <3>2. /\ env.parse_step = next /\ env[t] = [ptr |-> q, len |-> 0]
            /\ \A f \in DOMAIN e : f \notin {t, "parse_step"} => env[f] = e[f]
        <4>1. env = [e EXCEPT ![t] = [ptr |-> q, len |-> 0], !.parse_step = next]
          OBVIOUS
        <4>2. t \in DOMAIN e /\ t # "parse_step" /\ "parse_step" \in DOMAIN e
          BY <3>1, EnvHasFields
        <4> HIDE DEF env
        <4> QED
          BY <4>1, <4>2, TwoFields
      <3> HIDE DEF env
      <3> QED
        BY <2>1, <3>2 DEF Otherwise
    <2>3. Standing(env, x + 1, This, This.layout)
      <3> HIDE DEF env
      <3> QED
        BY <2>1, <2>2
    <2>4. /\ env.body = e.body /\ env.chunked_body_end = e.chunked_body_end
          /\ env.reforming_flag = e.reforming_flag
      <3> HIDE DEF env
      <3> QED
        BY <2>2, ReadsBounds, EnvHasFields DEF Otherwise, LineFields, HeaderFields
    <2>5. GoOn(env, x + 1) /\ x + 1 \in Nat /\ p <= x + 1
      <3>1. GoOn(env, q + 1)
        BY <1>5
      <3> HIDE DEF env
      <3> QED
        BY <1>0, <2>1, <3>1
    <2> HIDE DEF env
    <2> QED
      BY <2>3, <2>4, <2>5, GoOnReads
  <1> QED
    BY <1>1, <1>3, <1>4, <1>5

(* Where the parser stands, by its step. *)
LEMMA StandingAt ==
  ASSUME NEW env, NEW at, NEW r, NEW l, Standing(env, at, r, l)
  PROVE  /\ env.parse_step = "METHOD0" => AtMethod0(env, at, r, l)
         /\ env.parse_step = "METHOD" => AtMethod(env, at, r, l)
         /\ env.parse_step = "URI0" => AtUri0(env, at, r, l)
         /\ env.parse_step = "URI" => AtUri(env, at, r, l)
         /\ env.parse_step = "VERSION0" => AtVersion0(env, at, r, l)
         /\ env.parse_step = "VERSION" => AtVersion(env, at, r, l)
         /\ env.parse_step = "HEADER_NAME0" => AtName0(env, at, r, l)
         /\ env.parse_step = "HEADER_NAME" => AtName(env, at, r, l)
         /\ env.parse_step = "HEADER_VALUE0" => AtValue0(env, at, r, l)
         /\ env.parse_step = "HEADER_VALUE" => AtValue(env, at, r, l)
         /\ env.parse_step = "BODY" => AtBody(env, at, r, l)
         /\ env.parse_step = "CHUNKED_SIZE" => AtSize(env, at, r, l)
         /\ env.parse_step = "CHUNKED_DATA" => AtData(env, at, r, l)
  BY DEF Standing

----------------------------------------------------------------------------
(* The start line. *)

(* Before any header there is no body. *)
LEMMA EmptyBody ==
  ASSUME NEW env, NEW r, NEW l, Empty(env, r, l)
  PROVE  env.body = -1 /\ env.chunked_body_end = -1
  BY DEF Empty, InHeaders, NoBody

(* A token noted leaves what the parser knows before any header. *)
LEMMA EmptyOtherwise ==
  ASSUME Reads, NEW env, NEW t \in {"METHOD", "URI", "VERSION", "name", "value"}, Otherwise(env, t),
         Empty(e, This, This.layout)
  PROVE  /\ Empty(env, This, This.layout)
         /\ t # "URI" => env.URI = e.URI
         /\ env.method = e.method
  <1>1. \A f \in LineFields : f # t => env[f] = e[f]
    <2>1. LineFields \subseteq DOMAIN e
      BY ReadsBounds, EnvHasFields
    <2>2. "parse_step" \notin LineFields
      BY DEF LineFields, HeaderFields
    <2> QED
      BY <2>1, <2>2 DEF Otherwise
  <1>2. Alike(env, e, HeaderFields)
    BY <1>1 DEF Alike, LineFields, HeaderFields
  <1>3. t # "URI" => env.URI = e.URI
    BY <1>1 DEF LineFields
  <1>4. env.method = e.method
    BY <1>1 DEF LineFields
  <1> QED
    BY <1>2, <1>3, <1>4, EmptyFrame

(* METHOD0. *)
LEMMA MethodBeginsReads ==
  ASSUME Reads, MethodBegins PROVE ReadInv'
  <1> DEFINE x == This.layout.method.from
  <1>1. e.parse_step = "METHOD0" /\ AtMethod0(e, p, This, This.layout)
    BY ReadsBounds, StandingAt DEF MethodBegins, TokenBegins, Parsing
  <1>2. Empty(e, This, This.layout) /\ MethodGap(This, This.layout) /\ p <= x
    BY <1>1 DEF AtMethod0
  <1>3. x \in Nat /\ p \in Nat
    BY ReadsBounds, LayoutTypes
  <1>4. x < Size(This) /\ Only(This, 0, x, {SP}) /\ Byte(This, x) # SP
    BY <1>2 DEF MethodGap, Gap
  <1>5. Only(This, p, x, {SP})
    BY <1>3, <1>4 DEF Only
  <1>6. e.chunked_body_end <= p
    BY <1>2, <1>3, EmptyBody
  <1>7. \A at \in p .. x : Standing(e, at, This, This.layout)
    BY <1>1, <1>2, <1>3 DEF Standing, AtMethod0
  <1>8. Byte(This, x) = NL => This.outcome = Rejection("START_LINE_INVALID")
    BY ReadsBounds, StartLineEnds
  <1>9. ASSUME NEW env, Byte(This, x) # NL, env.parse_step = "METHOD",
               env["METHOD"] = [ptr |-> x, len |-> 0], Otherwise(env, "METHOD")
        PROVE  Standing(env, x + 1, This, This.layout)
    <2>1. MethodWord(This, This.layout)
      BY <1>9, ReadsBounds, StartLineEnds
    <2>2. x < This.layout.method.to
      BY <2>1 DEF MethodWord, Word
    <2>3. Empty(env, This, This.layout)
      BY <1>2, <1>9, EmptyOtherwise
    <2>4. env.METHOD.ptr = x
      BY <1>9
    <2>5. AtMethod(env, x + 1, This, This.layout)
      BY <1>3, <2>1, <2>2, <2>3, <2>4, ReadsBounds, LayoutTypes DEF AtMethod
    <2> QED
      BY <1>9, <2>5 DEF Standing
  <1> HIDE DEF x
  <1> QED
    BY <1>3, <1>2, <1>4, <1>5, <1>6, <1>7, <1>8, <1>9, TokenBeginsReads DEF MethodBegins

(* URI0. *)
LEMMA UriBeginsReads ==
  ASSUME Reads, UriBegins PROVE ReadInv'
  <1> DEFINE x == This.layout.uri.from
  <1>1. e.parse_step = "URI0" /\ AtUri0(e, p, This, This.layout)
    BY ReadsBounds, StandingAt DEF UriBegins, TokenBegins, Parsing
  <1>2. /\ Empty(e, This, This.layout) /\ UriGap(This, This.layout) /\ p <= x
        /\ This.layout.method.to < p /\ e.method = MethodOf(This, This.layout)
    BY <1>1 DEF AtUri0
  <1>3. x \in Nat /\ p \in Nat /\ This.layout.method.to \in Nat
    BY ReadsBounds, LayoutTypes
  <1>4. x < Size(This) /\ Only(This, This.layout.method.to, x, {SP}) /\ Byte(This, x) # SP
    BY <1>2 DEF UriGap, Gap
  <1>5. Only(This, p, x, {SP})
    BY <1>2, <1>3, <1>4 DEF Only
  <1>6. e.chunked_body_end <= p
    BY <1>2, <1>3, EmptyBody
  <1>7. \A at \in p .. x : Standing(e, at, This, This.layout)
    BY <1>1, <1>2, <1>3 DEF Standing, AtUri0
  <1>8. Byte(This, x) = NL => This.outcome = Rejection("START_LINE_INVALID")
    BY <1>2, ReadsBounds, StartLineEnds
  <1>9. ASSUME NEW env, Byte(This, x) # NL, env.parse_step = "URI",
               env["URI"] = [ptr |-> x, len |-> 0], Otherwise(env, "URI")
        PROVE  Standing(env, x + 1, This, This.layout)
    <2>1. UriWord(This, This.layout)
      BY <1>2, <1>9, ReadsBounds, StartLineEnds
    <2>2. x < This.layout.uri.to
      BY <2>1 DEF UriWord, Word
    <2>3. Empty(env, This, This.layout) /\ env.method = MethodOf(This, This.layout)
      BY <1>2, <1>9, EmptyOtherwise
    <2>4. env.URI.ptr = x
      BY <1>9
    <2>5. AtUri(env, x + 1, This, This.layout)
      BY <1>3, <2>1, <2>2, <2>3, <2>4, ReadsBounds, LayoutTypes DEF AtUri
    <2> QED
      BY <1>9, <2>5 DEF Standing
  <1> HIDE DEF x
  <1> QED
    BY <1>3, <1>2, <1>4, <1>5, <1>6, <1>7, <1>8, <1>9, TokenBeginsReads DEF UriBegins

(* VERSION0. *)
LEMMA VersionBeginsReads ==
  ASSUME Reads, VersionBegins PROVE ReadInv'
  <1> DEFINE x == This.layout.version.from
  <1>1. e.parse_step = "VERSION0" /\ AtVersion0(e, p, This, This.layout)
    BY ReadsBounds, StandingAt DEF VersionBegins, TokenBegins, Parsing
  <1>2. /\ Empty(e, This, This.layout) /\ VersionGap(This, This.layout) /\ p <= x
        /\ This.layout.uri.to < p /\ e.method = MethodOf(This, This.layout)
        /\ e.URI = Tok(This.layout.uri)
    BY <1>1 DEF AtVersion0
  <1>3. x \in Nat /\ p \in Nat /\ This.layout.uri.to \in Nat
    BY ReadsBounds, LayoutTypes
  <1>4. x < Size(This) /\ Only(This, This.layout.uri.to, x, {SP}) /\ Byte(This, x) # SP
    BY <1>2 DEF VersionGap, Gap
  <1>5. Only(This, p, x, {SP})
    BY <1>2, <1>3, <1>4 DEF Only
  <1>6. e.chunked_body_end <= p
    BY <1>2, <1>3, EmptyBody
  <1>7. \A at \in p .. x : Standing(e, at, This, This.layout)
    BY <1>1, <1>2, <1>3 DEF Standing, AtVersion0
  <1>8. Byte(This, x) = NL => This.outcome = Rejection("START_LINE_INVALID")
    BY <1>2, ReadsBounds, StartLineEnds
  <1>9. ASSUME NEW env, Byte(This, x) # NL, env.parse_step = "VERSION",
               env["VERSION"] = [ptr |-> x, len |-> 0], Otherwise(env, "VERSION")
        PROVE  Standing(env, x + 1, This, This.layout)
    <2>1. VersionWord(This, This.layout)
      BY <1>2, <1>9, ReadsBounds, StartLineEnds
    <2>2. x < This.layout.line - 1
      BY <2>1 DEF VersionWord
    <2>3. /\ Empty(env, This, This.layout) /\ env.method = MethodOf(This, This.layout)
          /\ env.URI = Tok(This.layout.uri)
      BY <1>2, <1>9, EmptyOtherwise
    <2>4. env.VERSION.ptr = x
      BY <1>9
    <2>5. AtVersion(env, x + 1, This, This.layout)
      BY <1>3, <2>1, <2>2, <2>3, <2>4, ReadsBounds, LayoutTypes, SMTT(30) DEF AtVersion
    <2> QED
      BY <1>9, <2>5 DEF Standing
  <1> HIDE DEF x
  <1> QED
    BY <1>3, <1>2, <1>4, <1>5, <1>6, <1>7, <1>8, <1>9, TokenBeginsReads DEF VersionBegins

(* Three fields changed, the others as they were. *)
LEMMA ThreeFields ==
  ASSUME NEW env, NEW t \in DOMAIN env, NEW u \in DOMAIN env, "parse_step" \in DOMAIN env,
         t # "parse_step", u # "parse_step", t # u,
         NEW x, NEW y, NEW next, NEW new,
         new = [env EXCEPT ![t] = x, ![u] = y, !.parse_step = next]
  PROVE  /\ new[t] = x /\ new[u] = y /\ new.parse_step = next
         /\ \A f \in DOMAIN env : f \notin {t, u, "parse_step"} => new[f] = env[f]
  OBVIOUS

(* A slice of one word holds it at its first place. *)
LEMMA FirstOfSlice ==
  ASSUME NEW r, NEW s, NEW w, s.from \in Nat, s.to \in Nat, s.from < s.to, Slice(r, s) = <<w>>
  PROVE  Byte(r, s.from) = w
  <1>1. Slice(r, s)[1] = r.bytes[s.from + 1]
    BY DEF Slice
  <1> QED
    BY <1>1 DEF Byte

(* The header part of an environment that differs from the present one.    *)
LEMMA EmptyUnlike ==
  ASSUME Reads, NEW env, NEW F, F \cap HeaderFields = {},
         \A f \in DOMAIN e : f \notin F => env[f] = e[f],
         Empty(e, This, This.layout)
  PROVE  /\ Empty(env, This, This.layout)
         /\ env.body = e.body /\ env.chunked_body_end = e.chunked_body_end
         /\ env.reforming_flag = e.reforming_flag
         /\ env.body = -1 /\ env.chunked_body_end = -1
         /\ "URI" \notin F => env.URI = e.URI
         /\ "method" \notin F => env.method = e.method
  <1>1. \A f \in LineFields : f \notin F => env[f] = e[f]
    BY ReadsBounds, EnvHasFields
  <1>2. Alike(env, e, HeaderFields)
    BY <1>1 DEF Alike, LineFields
  <1>3. "URI" \in LineFields /\ "method" \in LineFields
    BY DEF LineFields
  <1> QED
    BY <1>1, <1>2, <1>3, EmptyFrame, EmptyBody

(* METHOD: a known method, an unknown one, or no method at all. *)
LEMMA MethodEndsReads ==
  ASSUME Reads, MethodEnds PROVE ReadInv'
  <1> DEFINE l == This.layout
             x == l.method.to
  <1>1. e.parse_step = "METHOD" /\ AtMethod(e, p, This, l)
    BY ReadsBounds, StandingAt DEF MethodEnds, Parsing
  <1>2. /\ Empty(e, This, l) /\ MethodWord(This, l)
        /\ e.METHOD.ptr = l.method.from /\ l.method.from < p /\ p <= x
    BY <1>1 DEF AtMethod
  <1>3. /\ x \in Nat /\ p \in Nat /\ l.method.from \in Nat /\ fill_ptr \in Nat /\ p <= fill_ptr
        /\ Size(This) \in Nat
    BY ReadsBounds, LayoutTypes
  <1>4. /\ x < Size(This) /\ Free(This, l.method.from, x, {SP, NL}) /\ Byte(This, x) \in {SP, NL}
        /\ l.method.from < x
    BY <1>2 DEF MethodWord, Word
  <1>5. e.chunked_body_end <= p /\ e.body = -1 /\ e.chunked_body_end = -1
    BY <1>2, <1>3, EmptyBody
  <1>6. PICK q \in p .. fill_ptr :
          /\ Stops(q, p, {SP, NL})
          /\ \/ q = fill_ptr /\ NeedMore(q) /\ UNCHANGED e
             \/ q < fill_ptr /\ mem[q] = NL /\ Reject("START_LINE_INVALID")
             \/ /\ q < fill_ptr /\ mem[q] # NL
                /\ \E m \in Methods :
                     /\ Text(To(e.METHOD, q)) = <<m>>
                     /\ GoOn([e EXCEPT !.METHOD = To(@, q), !.method = m,
                                       !.parse_step = "URI0"], q + 1)
             \/ /\ q < fill_ptr /\ mem[q] # NL
                /\ \A m \in Methods : Text(To(e.METHOD, q)) # <<m>>
                /\ Reject("METHOD_INVALID")
    BY DEF MethodEnds
  <1>7. /\ q = fill_ptr => fill_ptr <= x /\ fill_ptr < Size(This)
        /\ q < fill_ptr => q = x /\ mem[q] = Byte(This, x)
    <2>1. \A s \in p .. x - 1 : Byte(This, s) \notin {SP, NL}
      BY <1>2, <1>3, <1>4 DEF Free
    <2>2. {SP, NL} \in SUBSET Symbols
      BY ParserAssumption
    <2> HIDE DEF x
    <2> QED
      BY <1>2, <1>3, <1>4, <1>5, <1>6, <2>1, <2>2, ScanStops
  <1>8. q < fill_ptr => Text(To(e.METHOD, q)) = Slice(This, l.method)
    <2> SUFFICES ASSUME q < fill_ptr PROVE Text(To(e.METHOD, q)) = Slice(This, l.method)
      OBVIOUS
    <2>1. To(e.METHOD, q).ptr = l.method.from /\ To(e.METHOD, q).len = x - l.method.from
      BY <1>2, <1>7 DEF To
    <2> QED
      BY <1>3, <1>4, <1>5, <1>7, <2>1, Spelt
  <1>9. CASE q = fill_ptr /\ NeedMore(q) /\ UNCHANGED e
    <2>1. fill_ptr \in p .. x
      BY <1>3, <1>7, <1>9
    <2>2. Standing(e, fill_ptr, This, l)
      BY <1>1, <1>2, <1>3, <2>1 DEF Standing, AtMethod
    <2> QED
      BY <1>3, <1>7, <1>9, <2>2, NeedMoreReads
  <1>10. CASE q < fill_ptr /\ mem[q] = NL /\ Reject("START_LINE_INVALID")
    <2>1. This.outcome = Rejection("START_LINE_INVALID")
      BY <1>2, <1>7, <1>10, ReadsBounds, StartLineEnds
    <2> QED
      BY <1>10, <2>1, RejectReads
  <1>11. ASSUME q < fill_ptr, mem[q] # NL, NEW m \in Methods, Text(To(e.METHOD, q)) = <<m>>,
                GoOn([e EXCEPT !.METHOD = To(@, q), !.method = m, !.parse_step = "URI0"], q + 1)
         PROVE  ReadInv'
    <2> DEFINE env == [e EXCEPT !.METHOD = To(@, q), !.method = m, !.parse_step = "URI0"]
    <2>1. /\ env.method = m /\ env.parse_step = "URI0"
          /\ \A f \in DOMAIN e : f \notin {"METHOD", "method", "parse_step"} => env[f] = e[f]
      <3>1. env = [e EXCEPT !["METHOD"] = To(e.METHOD, q), !["method"] = m, !.parse_step = "URI0"]
        OBVIOUS
      <3>2. "METHOD" \in DOMAIN e /\ "method" \in DOMAIN e /\ "parse_step" \in DOMAIN e
        BY ReadsBounds, EnvHasFields DEF LineFields
      <3> HIDE DEF env
      <3> QED
        BY <3>1, <3>2, ThreeFields
    <2>2. GoOn(env, q + 1)
      BY <1>11
    <2> HIDE DEF env
    <2>3. {"METHOD", "method", "parse_step"} \cap HeaderFields = {}
      BY DEF HeaderFields
    <2>4. /\ Empty(env, This, l) /\ env.body = e.body
          /\ env.chunked_body_end = e.chunked_body_end /\ env.reforming_flag = e.reforming_flag
      BY <1>2, <2>1, <2>3, EmptyUnlike
    <2>5. Slice(This, l.method) = <<m>> /\ Byte(This, x) = SP /\ IsMethod(This, l)
      BY <1>4, <1>7, <1>8, <1>11 DEF IsMethod
    <2>6. UriGap(This, l)
      BY <1>2, <2>5, ReadsBounds, StartLineEnds
    <2>7. env.method = MethodOf(This, l)
      BY <1>3, <1>4, <2>1, <2>5, FirstOfSlice DEF MethodOf
    <2>8. x + 1 <= l.uri.from
      <3>1. x <= l.uri.from /\ Byte(This, l.uri.from) # SP /\ l.uri.from \in Nat
        BY <2>6, ReadsBounds, LayoutTypes DEF UriGap, Gap
      <3> QED
        BY <1>3, <2>5, <3>1
    <2>9. Standing(env, x + 1, This, l)
      BY <1>3, <2>1, <2>4, <2>6, <2>7, <2>8 DEF Standing, AtUri0
    <2> QED
      BY <1>3, <1>7, <1>11, <2>2, <2>4, <2>9, <1>2, GoOnReads
  <1>12. CASE /\ q < fill_ptr /\ mem[q] # NL
              /\ \A m \in Methods : Text(To(e.METHOD, q)) # <<m>>
              /\ Reject("METHOD_INVALID")
    <2>1. Byte(This, x) = SP /\ ~IsMethod(This, l)
      BY <1>4, <1>7, <1>8, <1>12 DEF IsMethod
    <2>2. This.outcome = Rejection("METHOD_INVALID")
      BY <1>2, <2>1, ReadsBounds, StartLineEnds
    <2> QED
      BY <1>12, <2>2, RejectReads
  <1> QED
    BY <1>6, <1>9, <1>10, <1>11, <1>12

(* URI. *)
LEMMA UriEndsReads ==
  ASSUME Reads, UriEnds PROVE ReadInv'
  <1> DEFINE l == This.layout
             x == l.uri.to
  <1>1. e.parse_step = "URI" /\ AtUri(e, p, This, l)
    BY ReadsBounds, StandingAt DEF UriEnds, Parsing
  <1>2. /\ Empty(e, This, l) /\ UriWord(This, l) /\ e.method = MethodOf(This, l)
        /\ e.URI.ptr = l.uri.from /\ l.uri.from < p /\ p <= x
    BY <1>1 DEF AtUri
  <1>3. /\ x \in Nat /\ p \in Nat /\ l.uri.from \in Nat /\ fill_ptr \in Nat /\ p <= fill_ptr
        /\ Size(This) \in Nat
    BY ReadsBounds, LayoutTypes
  <1>4. /\ x < Size(This) /\ Free(This, l.uri.from, x, {SP, NL}) /\ Byte(This, x) \in {SP, NL}
        /\ l.uri.from < x
    BY <1>2 DEF UriWord, Word
  <1>5. e.chunked_body_end <= p /\ e.body = -1 /\ e.chunked_body_end = -1
    BY <1>2, <1>3, EmptyBody
  <1>6. PICK q \in p .. fill_ptr :
          /\ Stops(q, p, {SP, NL})
          /\ \/ q = fill_ptr /\ NeedMore(q) /\ UNCHANGED e
             \/ q < fill_ptr /\ mem[q] = NL /\ Reject("START_LINE_INVALID")
             \/ /\ q < fill_ptr /\ mem[q] # NL
                /\ GoOn([e EXCEPT !.URI = To(@, q), !.parse_step = "VERSION0"], q + 1)
    BY DEF UriEnds
  <1>7. /\ q = fill_ptr => fill_ptr <= x /\ fill_ptr < Size(This)
        /\ q < fill_ptr => q = x /\ mem[q] = Byte(This, x)
    <2>1. \A s \in p .. x - 1 : Byte(This, s) \notin {SP, NL}
      BY <1>2, <1>3, <1>4 DEF Free
    <2>2. {SP, NL} \in SUBSET Symbols
      BY ParserAssumption
    <2> HIDE DEF x
    <2> QED
      BY <1>2, <1>3, <1>4, <1>5, <1>6, <2>1, <2>2, ScanStops
  <1>8. CASE q = fill_ptr /\ NeedMore(q) /\ UNCHANGED e
    <2>1. fill_ptr \in p .. x
      BY <1>3, <1>7, <1>8
    <2>2. Standing(e, fill_ptr, This, l)
      BY <1>1, <1>2, <1>3, <2>1 DEF Standing, AtUri
    <2> QED
      BY <1>3, <1>7, <1>8, <2>2, NeedMoreReads
  <1>9. CASE q < fill_ptr /\ mem[q] = NL /\ Reject("START_LINE_INVALID")
    <2>1. This.outcome = Rejection("START_LINE_INVALID")
      BY <1>2, <1>7, <1>9, ReadsBounds, StartLineEnds
    <2> QED
      BY <1>9, <2>1, RejectReads
  <1>10. CASE /\ q < fill_ptr /\ mem[q] # NL
              /\ GoOn([e EXCEPT !.URI = To(@, q), !.parse_step = "VERSION0"], q + 1)
    <2> DEFINE env == [e EXCEPT !.URI = To(@, q), !.parse_step = "VERSION0"]
    <2>1. /\ env.URI = To(e.URI, q) /\ env.parse_step = "VERSION0"
          /\ \A f \in DOMAIN e : f \notin {"URI", "parse_step"} => env[f] = e[f]
      <3>1. env = [e EXCEPT !["URI"] = To(e.URI, q), !.parse_step = "VERSION0"]
        OBVIOUS
      <3>2. "URI" \in DOMAIN e /\ "parse_step" \in DOMAIN e
        BY ReadsBounds, EnvHasFields
      <3> HIDE DEF env
      <3> QED
        BY <3>1, <3>2, TwoFields
    <2>2. GoOn(env, q + 1)
      BY <1>10
    <2> HIDE DEF env
    <2>3. {"URI", "parse_step"} \cap HeaderFields = {} /\ "method" \notin {"URI", "parse_step"}
      BY DEF HeaderFields
    <2>4. /\ Empty(env, This, l) /\ env.body = e.body
          /\ env.chunked_body_end = e.chunked_body_end /\ env.reforming_flag = e.reforming_flag
          /\ env.method = e.method
      BY <1>2, <2>1, <2>3, EmptyUnlike
    <2>5. VersionGap(This, l) /\ Byte(This, x) = SP
      BY <1>2, <1>4, <1>7, <1>10, ReadsBounds, StartLineEnds
    <2>6. env.URI = Tok(l.uri)
      BY <1>2, <1>7, <1>10, <2>1 DEF To, Tok
    <2>7. x + 1 <= l.version.from
      <3>1. x <= l.version.from /\ Byte(This, l.version.from) # SP /\ l.version.from \in Nat
        BY <2>5, ReadsBounds, LayoutTypes DEF VersionGap, Gap
      <3> QED
        BY <1>3, <2>5, <3>1
    <2>8. Standing(env, x + 1, This, l)
      BY <1>2, <1>3, <2>1, <2>4, <2>5, <2>6, <2>7 DEF Standing, AtVersion0
    <2> QED
      BY <1>3, <1>7, <1>10, <2>2, <2>4, <2>8, <1>2, GoOnReads
  <1> QED
    BY <1>6, <1>8, <1>9, <1>10

(* VERSION: the word is all that is left of the line but one CR. *)
LEMMA VersionEndsReads ==
  ASSUME Reads, VersionEnds PROVE ReadInv'
  <1> DEFINE l == This.layout
             x == l.line - 1
             end(q) == IF mem[q - 1] = CR THEN q - 1 ELSE q
             text(q) == Text(To(e.VERSION, end(q)))
  <1>1. e.parse_step = "VERSION" /\ AtVersion(e, p, This, l)
    BY ReadsBounds, StandingAt DEF VersionEnds, Parsing
  <1>2. /\ Empty(e, This, l) /\ VersionWord(This, l) /\ e.method = MethodOf(This, l)
        /\ e.URI = Tok(l.uri)
        /\ e.VERSION.ptr = l.version.from /\ l.version.from < p /\ p <= x
    BY <1>1 DEF AtVersion
  <1>3. /\ l.line \in Nat /\ p \in Nat /\ l.version.from \in Nat /\ l.version.to \in Nat
        /\ fill_ptr \in Nat /\ p <= fill_ptr /\ Size(This) \in Nat /\ e.VERSION.ptr \in Nat
    BY <1>2, ReadsBounds, LayoutTypes
  <1>4. /\ l.line <= Size(This) /\ Free(This, l.version.from, x, {NL}) /\ Byte(This, x) = NL
        /\ l.version.from < x
        /\ l.version.to = IF Byte(This, l.line - 2) = CR THEN l.line - 2 ELSE l.line - 1
    BY <1>2 DEF VersionWord
  <1>5. e.chunked_body_end <= p /\ e.body = -1 /\ e.chunked_body_end = -1
    BY <1>2, <1>3, EmptyBody
  <1>6. PICK q \in p .. fill_ptr :
          /\ Stops(q, p, {NL})
          /\ \/ q = fill_ptr /\ NeedMore(q) /\ UNCHANGED e
             \/ /\ q < fill_ptr
                /\ text(q) \in Versions
                /\ GoOn([e EXCEPT !.VERSION = To(@, end(q)), !.version = VersionOf(text(q)),
                                  !.parse_step = "HEADER_NAME0"], q + 1)
             \/ /\ q < fill_ptr /\ text(q) \notin Versions
                /\ Reject("VERSION_NOT_SUPPORTED")
    BY DEF VersionEnds
  <1>7. /\ q = fill_ptr => fill_ptr <= x /\ fill_ptr < Size(This)
        /\ q < fill_ptr => q = x /\ mem[q] = Byte(This, x)
    <2>1. \A s \in p .. x - 1 : Byte(This, s) \notin {NL}
      BY <1>2, <1>3, <1>4 DEF Free
    <2>2. {NL} \in SUBSET Symbols
      BY ParserAssumption
    <2>3. x \in Nat /\ x < Size(This)
      BY <1>3, <1>4
    <2> HIDE DEF x
    <2> QED
      BY <1>2, <1>3, <1>4, <1>5, <1>6, <2>1, <2>2, <2>3, ScanStops
  <1>8. q < fill_ptr => end(q) = l.version.to
    <2> SUFFICES ASSUME q < fill_ptr PROVE end(q) = l.version.to
      OBVIOUS
    <2>1. q - 1 \in Nat /\ q - 1 < fill_ptr /\ q - 1 < Size(This) /\ q - 1 = l.line - 2
      BY <1>3, <1>4, <1>7
    <2>2. mem[q - 1] = Byte(This, l.line - 2)
      BY <1>5, <2>1, SeesAll
    <2> QED
      BY <1>3, <1>4, <1>7, <2>1, <2>2
  <1>9. l.version.from <= l.version.to /\ l.version.to <= x
    BY <1>3, <1>4
  <1>10. q < fill_ptr => text(q) = Slice(This, l.version)
    <2> SUFFICES ASSUME q < fill_ptr PROVE Text(To(e.VERSION, end(q))) = Slice(This, l.version)
      OBVIOUS
    <2>1. /\ To(e.VERSION, end(q)).ptr = l.version.from
          /\ To(e.VERSION, end(q)).len = l.version.to - l.version.from
      BY <1>2, <1>8 DEF To
    <2>2. l.version.to <= fill_ptr /\ l.version.to <= Size(This)
      BY <1>3, <1>4, <1>7, <1>9
    <2>3. e.chunked_body_end <= l.version.from
      BY <1>3, <1>5
    <2> HIDE DEF end
    <2> QED
      BY <1>3, <1>9, <2>1, <2>2, <2>3, Spelt
  <1> HIDE DEF end, text
  <1>11. CASE q = fill_ptr /\ NeedMore(q) /\ UNCHANGED e
    <2>1. fill_ptr \in p .. x
      BY <1>3, <1>7, <1>11
    <2>2. Standing(e, fill_ptr, This, l)
      BY <1>1, <1>2, <1>3, <2>1 DEF Standing, AtVersion
    <2> QED
      BY <1>3, <1>7, <1>11, <2>2, NeedMoreReads
  <1>12. ASSUME q < fill_ptr, text(q) \in Versions,
                GoOn([e EXCEPT !.VERSION = To(@, end(q)), !.version = VersionOf(text(q)),
                               !.parse_step = "HEADER_NAME0"], q + 1)
         PROVE  ReadInv'
    <2> DEFINE env == [e EXCEPT !.VERSION = To(@, end(q)), !.version = VersionOf(text(q)),
                                !.parse_step = "HEADER_NAME0"]
    <2>1. /\ env.version = VersionOf(text(q)) /\ env.parse_step = "HEADER_NAME0"
          /\ \A f \in DOMAIN e : f \notin {"VERSION", "version", "parse_step"} => env[f] = e[f]
      <3>1. env = [e EXCEPT !["VERSION"] = To(e.VERSION, end(q)),
                            !["version"] = VersionOf(text(q)),
                            !.parse_step = "HEADER_NAME0"]
        OBVIOUS
      <3>2. "VERSION" \in DOMAIN e /\ "version" \in DOMAIN e /\ "parse_step" \in DOMAIN e
        BY ReadsBounds, EnvHasFields DEF LineFields
      <3> HIDE DEF env
      <3> QED
        BY <3>1, <3>2, ThreeFields
    <2>2. GoOn(env, q + 1)
      BY <1>12
    <2> HIDE DEF env
    <2>3. /\ {"VERSION", "version", "parse_step"} \cap HeaderFields = {}
          /\ "method" \notin {"VERSION", "version", "parse_step"}
          /\ "URI" \notin {"VERSION", "version", "parse_step"}
      BY DEF HeaderFields
    <2>4. /\ Empty(env, This, l) /\ env.body = e.body /\ env.body = -1
          /\ env.chunked_body_end = e.chunked_body_end /\ env.reforming_flag = e.reforming_flag
          /\ env.method = e.method /\ env.URI = e.URI
      BY <1>2, <2>1, <2>3, EmptyUnlike
    <2>5. StartLine(This, l)
      BY <1>2, <1>10, <1>12, ReadsBounds, StartLineEnds DEF IsVersion
    <2>6. env.version = VersionOf(Slice(This, l.version))
      BY <1>10, <1>12, <2>1
    <2>7. InLines(env, This, l)
      BY <1>2, <2>4, <2>5, <2>6 DEF InLines, LineRead, Empty
    <2>8. LineStart(env, l) = l.line
      BY <2>4 DEF LineStart, LineAt, Empty
    <2>9. Standing(env, l.line, This, l)
      BY <2>1, <2>7, <2>8 DEF Standing, AtName0
    <2>10. q + 1 = l.line
      BY <1>3, <1>7, <1>12
    <2> QED
      BY <1>2, <1>3, <2>2, <2>4, <2>9, <2>10, GoOnReads
  <1>13. CASE /\ q < fill_ptr
              /\ text(q) \notin Versions
              /\ Reject("VERSION_NOT_SUPPORTED")
    <2>1. ~IsVersion(This, l)
      BY <1>10, <1>13 DEF IsVersion
    <2>2. This.outcome = Rejection("VERSION_NOT_SUPPORTED")
      BY <1>2, <2>1, ReadsBounds, StartLineEnds
    <2> QED
      BY <1>13, <2>2, RejectReads
  <1> QED
    BY <1>6, <1>11, <1>12, <1>13

----------------------------------------------------------------------------
(* The lines of headers. *)

(* The headers of a layout, and the places where their lines begin. *)
LEMMA HeaderOfLayout ==
  ASSUME NEW l \in Layout
  PROVE  /\ Len(l.header) \in Nat /\ DOMAIN l.header = 1 .. Len(l.header)
         /\ \A i \in DOMAIN l.header : l.header[i] \in Header
         /\ \A i \in DOMAIN l.trailer : l.trailer[i] \in Header
         /\ \A i \in 1 .. Len(l.header) + 1 : LineAt(l, i) \in Nat
  <1>1. l.header \in Seq(Header) /\ l.trailer \in Seq(Header) /\ l.line \in Nat
    BY LayoutTypes
  <1>2. Len(l.header) \in Nat /\ DOMAIN l.header = 1 .. Len(l.header)
    BY <1>1
  <1>3. \A i \in DOMAIN l.header : l.header[i] \in Header
    BY <1>1
  <1>4. \A i \in DOMAIN l.trailer : l.trailer[i] \in Header
    BY <1>1
  <1>5. ASSUME NEW i \in 1 .. Len(l.header) + 1 PROVE LineAt(l, i) \in Nat
    <2>1. CASE i = 1
      BY <1>1, <2>1 DEF LineAt
    <2>2. CASE i # 1
      <3>1. i - 1 \in DOMAIN l.header
        BY <1>2, <2>2
      <3>2. l.header[i - 1].next \in Nat
        BY <1>3, <3>1, HeaderTypes
      <3> QED
        BY <2>2, <3>2 DEF LineAt
    <2> QED
      BY <2>1, <2>2
  <1> QED
    BY <1>2, <1>3, <1>4, <1>5

(* What stands in a line: a header, the blank line, or what is rejected.   *)
AHeader(env, r, l) ==
  /\ HeaderAt(r, Current(env, l), LineStart(env, l))
  /\ env.body = -1 => Len(env.header_array) < Len(l.header)
(* The line that is empty. *)
BlankLine(env, r, l) ==
  /\ InHeaders(env, r, l) /\ Len(env.header_array) = Len(l.header)
  /\ WholeRequest(r, l) /\ EndOfLine(r, LineStart(env, l), l.body)
(* A line that is to be rejected. *)
Broken(env, r, l) ==
  /\ InHeaders(env, r, l) /\ Current(env, l) = l.broken /\ LineStart(env, l) = LastLine(l)
  /\ r.outcome = Rejection("HEADER_INVALID")

(* At the start of a line stands one of the four. *)
LEMMA LineCases ==
  ASSUME NEW env, NEW r, NEW l, Written(r, l), InLines(env, r, l)
  PROVE  /\ LineStart(env, l) \in Nat
         /\ env.chunked_body_end <= LineStart(env, l)
         /\ \/ AHeader(env, r, l) /\ Current(env, l) \in Header
            \/ BlankLine(env, r, l)
            \/ Broken(env, r, l) /\ ColonMissing(r, l) /\ Current(env, l) \in Header
            \/ Broken(env, r, l) /\ ValueMissing(r, l) /\ Current(env, l) \in Header
  <1>0. l \in Layout
    BY DEF Written
  <1>1. CASE InTrailer(env, r, l)
    <2>1. /\ env.body = l.body /\ Chunks(r, l) /\ l.trailer # <<>>
          /\ env.chunked_body_end <= LastChunk(l).data
      BY <1>1 DEF InTrailer, InChunk, AllTold
    <2>2. env.body # -1
      BY <1>0, <2>1, LayoutTypes
    <2>3. /\ Len(l.trailer) = 1 /\ HeaderAt(r, l.trailer[1], LastChunk(l).data)
          /\ Len(l.chunk) > 1
      BY <2>1 DEF Chunks, Trailers
    <2>4. l.trailer[1] \in Header
      <3>1. l.trailer \in Seq(Header)
        BY <1>0, LayoutTypes
      <3> QED
        BY <2>3, <3>1
    <2>5. LastChunk(l).data \in Nat
      <3>1. Len(l.chunk) \in DOMAIN l.chunk
        <4>1. l.chunk \in Seq([at : Nat, data : Nat, len : Nat, off : Nat])
          BY <1>0, LayoutTypes
        <4> QED
          BY <2>3, <4>1
      <3> QED
        BY <1>0, <3>1, ChunkTypes DEF LastChunk
    <2> QED
      BY <2>1, <2>2, <2>3, <2>4, <2>5 DEF LineStart, Current, AHeader
  <1>2. CASE InHeaders(env, r, l)
    <2> DEFINE i == Len(env.header_array)
    <2>1. env.body = -1 /\ env.chunked_body_end = -1 /\ i <= Len(l.header) /\ StartLine(r, l)
      BY <1>2 DEF InHeaders, NoBody, Told, InLines, LineRead
    <2>2. \/ WholeRequest(r, l)
          \/ HeaderInvalid(r, l) /\ r.outcome = Rejection("HEADER_INVALID")
      BY <2>1, StartLineEnds
    <2>3. /\ \A j \in DOMAIN l.header : HeaderAt(r, l.header[j], LineAt(l, j))
          /\ WholeRequest(r, l) => EndOfLine(r, LastLine(l), l.body)
          /\ ~WholeRequest(r, l) => ColonMissing(r, l) \/ ValueMissing(r, l)
      BY <2>2 DEF WholeRequest, HeaderInvalid, Headers
    <2>4. LineStart(env, l) = LineAt(l, i + 1) /\ i \in Nat
      <3>1. i \in Nat
        BY <1>2 DEF InHeaders, Told
      <3> QED
        BY <2>1, <3>1 DEF LineStart
    <2>5. LineStart(env, l) \in Nat
      BY <1>0, <2>1, <2>4, HeaderOfLayout
    <2>6. CASE i < Len(l.header)
      <3>1. i + 1 \in DOMAIN l.header /\ Current(env, l) = l.header[i + 1]
        BY <1>0, <2>1, <2>4, <2>6, HeaderOfLayout DEF Current
      <3> QED
        BY <1>0, <2>1, <2>3, <2>4, <2>5, <2>6, <3>1, HeaderOfLayout DEF AHeader
    <2>7. CASE i = Len(l.header)
      <3>1. Current(env, l) = l.broken /\ LineStart(env, l) = LastLine(l) /\ l.broken \in Header
        BY <1>0, <2>1, <2>4, <2>7, LayoutTypes DEF Current, LastLine
      <3> QED
        BY <1>2, <2>1, <2>2, <2>3, <2>5, <2>7, <3>1 DEF BlankLine, Broken
    <2> QED
      BY <1>0, <2>1, <2>4, <2>6, <2>7, HeaderOfLayout
  <1> QED
    BY <1>1, <1>2 DEF InLines

(* What the handlers read of a complete request, from the texts of its
   parts. *)
LEMMA RequestIs ==
  ASSUME NEW r, NEW l, NEW STATE env, env.method = MethodOf(r, l), Text(env.URI) = Slice(r, l.uri),
         env.version = VersionOf(Slice(r, l.version)),
         DOMAIN env.header_array = DOMAIN AllHeaders(l),
         \A i \in DOMAIN AllHeaders(l) :
           /\ Text(env.header_array[i].name) = Slice(r, AllHeaders(l)[i].name)
           /\ Text(env.header_array[i].value) = Slice(r, AllHeaders(l)[i].value),
         \/ env.body = -1 /\ l.content = <<>>
         \/ env.body # -1 /\ Text([ptr |-> env.body, len |-> env.content_length]) = l.content
  PROVE  Request(env, mem) = Outcome(r, l)
  <1> DEFINE Word1(t) == [i \in 1 .. t.len |-> mem[t.ptr + i - 1]]
  <1>1. \A t : Word1(t) = Text(t)
    BY DEF Text
  <1>2. Request(env, mem) =
          [ret |-> "ok", method |-> env.method, uri |-> Word1(env.URI), version |-> env.version,
           headers |-> [i \in DOMAIN env.header_array |->
              <<Word1(env.header_array[i].name), Word1(env.header_array[i].value)>>],
           body |-> IF env.body = -1 THEN <<>>
                    ELSE Word1([ptr |-> env.body, len |-> env.content_length])]
    BY DEF Request
  <1> HIDE DEF Word1
  <1>3. [i \in DOMAIN env.header_array |->
              <<Word1(env.header_array[i].name), Word1(env.header_array[i].value)>>]
        = [i \in DOMAIN AllHeaders(l) |->
              <<Slice(r, AllHeaders(l)[i].name), Slice(r, AllHeaders(l)[i].value)>>]
    BY <1>1
  <1>4. (IF env.body = -1 THEN <<>>
         ELSE Word1([ptr |-> env.body, len |-> env.content_length])) = l.content
    BY <1>1
  <1> QED
    BY <1>1, <1>2, <1>3, <1>4 DEF Outcome

(* What has been stored of the start line and the headers is spelt as it   *)
(* was sent, up to the line the parser has come to.                        *)
LEMMA HeadersSpelt ==
  ASSUME Reads, NEW STATE env, LineRead(env, This, This.layout),
         Told(env, This, This.layout, Len(env.header_array)), Headers(This, This.layout),
         LineAt(This.layout, Len(env.header_array) + 1) <= fill_ptr,
         LineAt(This.layout, Len(env.header_array) + 1) <= Size(This),
         e.chunked_body_end = -1 \/ LineAt(This.layout, Len(env.header_array) + 1) <= e.body
  PROVE  /\ Text(env.URI) = Slice(This, This.layout.uri)
         /\ \A j \in 1 .. Len(env.header_array) :
              /\ j \in DOMAIN This.layout.header
              /\ Text(env.header_array[j].name) = Slice(This, This.layout.header[j].name)
              /\ Text(env.header_array[j].value) = Slice(This, This.layout.header[j].value)
  <1> DEFINE r == This
             l == This.layout
             i == Len(env.header_array)
             line == LineAt(l, i + 1)
  <1>1. /\ l \in Layout /\ Written(r, l) /\ fill_ptr \in Nat /\ Size(r) \in Nat
        /\ i \in Nat /\ i <= Len(l.header) /\ Len(l.header) \in Nat
        /\ line \in Nat /\ l.line <= line /\ l.line \in Nat
        /\ e.body \in Int /\ e.chunked_body_end \in Int
    <2>1. l \in Layout /\ Written(r, l) /\ fill_ptr \in Nat /\ Size(r) \in Nat
          /\ e.body \in Int /\ e.chunked_body_end \in Int
      BY ReadsBounds
    <2>2. i \in Nat /\ i <= Len(l.header) /\ l.line <= line
      BY DEF Told
    <2> QED
      BY <2>1, <2>2, HeaderOfLayout, LayoutTypes
  <1>2. ASSUME NEW s, s.from \in Nat, s.to \in Nat, s.from <= s.to, s.to <= line
        PROVE  Text(Tok(s)) = Slice(r, s)
    <2>1. s.to <= fill_ptr /\ s.to <= Size(r) /\ (s.to <= e.body \/ e.chunked_body_end <= s.from)
      BY <1>1, <1>2
    <2>2. Tok(s).ptr = s.from /\ Tok(s).len = s.to - s.from
      BY DEF Tok
    <2> HIDE DEF r
    <2> USE DEF r
    <2> QED
      BY <1>2, <2>1, <2>2, Spelt
  <1>3. Text(env.URI) = Slice(r, l.uri)
    <2>1. env.URI = Tok(l.uri) /\ StartLine(r, l)
      BY DEF LineRead
    <2>2. /\ l.uri.from \in Nat /\ l.uri.to \in Nat /\ l.version.from \in Nat
          /\ l.uri.from < l.uri.to /\ l.uri.to <= l.version.from /\ l.version.from < l.line - 1
      BY <1>1, <2>1, LayoutTypes, StartLineGoes DEF VersionWord, VersionGap, UriWord, Word, Gap
    <2>3. l.uri.from <= l.uri.to /\ l.uri.to <= line
      BY <1>1, <2>2, SMTT(30)
    <2> HIDE DEF r, l, line
    <2> QED
      BY <1>2, <2>1, <2>2, <2>3
  <1>4. ASSUME NEW j \in 1 .. i
        PROVE  /\ j \in DOMAIN l.header
               /\ Text(env.header_array[j].name) = Slice(r, l.header[j].name)
               /\ Text(env.header_array[j].value) = Slice(r, l.header[j].value)
    <2> DEFINE h == l.header[j]
    <2>1. /\ j \in DOMAIN l.header /\ h \in Header /\ h.next <= line
          /\ env.header_array[j] = [name |-> Tok(h.name), value |-> Tok(h.value)]
      BY <1>1, HeaderOfLayout DEF Told
    <2>2. /\ h.name.from \in Nat /\ h.name.to \in Nat
          /\ h.value.from \in Nat /\ h.value.to \in Nat /\ h.next \in Nat
      BY <2>1, HeaderTypes
    <2>3. HeaderAt(r, h, LineAt(l, j)) /\ LineAt(l, j) \in Nat
      <3>1. HeaderAt(r, h, LineAt(l, j))
        BY <2>1 DEF Headers
      <3>2. /\ l \in Layout /\ i \in Nat /\ i <= Len(l.header)
            /\ Len(l.header) \in Nat
        BY <1>1
      <3> HIDE DEF r, l, line, h, i
      <3>3. j \in 1 .. Len(l.header) + 1
        BY <3>2
      <3>4. LineAt(l, j) \in Nat
        BY <3>2, <3>3, HeaderOfLayout
      <3> QED
        BY <3>1, <3>4
    <2>4. h.name.from <= h.name.to /\ h.name.to <= h.value.from /\ h.value.from <= h.value.to
          /\ h.value.to <= h.next
      <3>1. /\ h.name.from = LineAt(l, j) /\ LineAt(l, j) < h.name.to
            /\ h.name.to < h.value.from /\ h.value.from < h.value.to /\ h.value.to < h.next
        <4> HIDE DEF r, l, h
        <4> QED
          BY <2>1, <2>3, HeaderOrder
      <3> HIDE DEF r, l, line, h
      <3> QED
        BY <2>2, <2>3, <3>1
    <2> HIDE DEF r, l, line, h
    <2>5. h.name.to <= line /\ h.value.to <= line
      BY <1>1, <2>1, <2>2, <2>4, SMTT(30)
    <2>6. Text(Tok(h.name)) = Slice(r, h.name) /\ Text(Tok(h.value)) = Slice(r, h.value)
      BY <1>2, <2>2, <2>4, <2>5
    <2> QED
      BY <2>1, <2>6 DEF h
  <1> QED
    BY <1>3, <1>4

(* At the blank line every header has been told. *)
LEMMA HeadersDone ==
  ASSUME NEW env \in Env, NEW r, NEW l, l \in Layout, BlankLine(env, r, l)
  PROVE  /\ env.content_length = l.length /\ env.chunked = l.chunked
         /\ env.body = -1 /\ env.chunked_body_end = -1 /\ env.chunked_length = 0
         /\ Told(env, r, l, Len(l.header)) /\ Len(env.header_array) = Len(l.header)
         /\ Headers(r, l) /\ LineStart(env, l) = LastLine(l)
  <1>1. /\ Told(env, r, l, Len(l.header)) /\ Len(env.header_array) = Len(l.header)
        /\ env.body = -1 /\ env.chunked_body_end = -1 /\ env.chunked_length = 0 /\ Headers(r, l)
        /\ env.content_length = LengthTold(r, l, Len(l.header))
    BY DEF BlankLine, InHeaders, NoBody, WholeRequest
  <1>2. DOMAIN l.header = 1 .. Len(l.header) /\ l.length \in Nat /\ l.chunked \in BOOLEAN
    BY HeaderOfLayout, LayoutTypes
  <1>3. env.content_length = l.length
    <2>1. l.length > 0 =>
            \E j \in 1 .. Len(l.header) : Named(r, l.header[j], "Content-Length")
      BY <1>1, <1>2 DEF Headers, Agrees
    <2> QED
      BY <1>1, <1>2, <2>1 DEF LengthTold
  <1>4. env.chunked = l.chunked
    <2>1. env.chunked <=> \E j \in 1 .. Len(l.header) : Says(r, l.header[j], "Transfer-Encoding", "chunked")
      BY <1>1 DEF Told
    <2>2. l.chunked <=> \E j \in 1 .. Len(l.header) : Says(r, l.header[j], "Transfer-Encoding", "chunked")
      BY <1>1, <1>2 DEF Headers, Agrees
    <2>3. env.chunked \in BOOLEAN
      BY DEF Env
    <2> QED
      BY <1>2, <2>1, <2>2, <2>3
  <1>5. LineStart(env, l) = LastLine(l)
    BY <1>1 DEF LineStart, LastLine
  <1> QED
    BY <1>1, <1>3, <1>4, <1>5

(* Which of the three kinds a body is follows from what the headers say. *)
LEMMA BodyKinds ==
  ASSUME NEW r, NEW l, l \in Layout, WholeRequest(r, l)
  PROVE  /\ MethodOf(r, l) = "HEAD" \/ (l.length <= 0 /\ ~l.chunked) =>
              Bodiless(r, l) /\ ~Counted(r, l) /\ ~Chunks(r, l)
         /\ MethodOf(r, l) # "HEAD" /\ l.length > 0 => Counted(r, l) /\ ~Chunks(r, l)
         /\ MethodOf(r, l) # "HEAD" /\ l.length <= 0 /\ l.chunked => Chunks(r, l)
  <1>1. l.length \in Nat
    BY LayoutTypes
  <1>2. l.length > 0 => ~l.chunked
    BY <1>1 DEF WholeRequest, Headers, Agrees
  <1> QED
    BY <1>1, <1>2 DEF WholeRequest, Bodiless, Counted, Chunks

(* The line that is empty, and what it leads to.                           *)
LEMMA BlankLineRead ==
  ASSUME Reads, InLines(e, This, This.layout), BlankLine(e, This, This.layout),
         p = LineStart(e, This.layout), p <= This.layout.body, This.layout.body <= fill_ptr,
         GoParsingBody(This.layout.body)
  PROVE  ReadInv'
  <1> DEFINE r == This
             l == This.layout
             at == l.body
  <1>1. /\ l \in Layout /\ Written(r, l) /\ fill_ptr \in Nat /\ Size(r) \in Nat /\ at \in Nat
        /\ e \in Env /\ l.length \in Nat /\ p \in Nat /\ l.chunked \in BOOLEAN
    BY ReadsBounds, LayoutTypes
  <1>2. /\ e.content_length = l.length /\ e.chunked = l.chunked
        /\ e.body = -1 /\ e.chunked_body_end = -1 /\ e.chunked_length = 0
        /\ Told(e, r, l, Len(l.header)) /\ Len(e.header_array) = Len(l.header)
        /\ Headers(r, l) /\ LineStart(e, l) = LastLine(l)
    BY <1>1, HeadersDone
  <1>3. WholeRequest(r, l) /\ LineRead(e, r, l) /\ e.method = MethodOf(r, l)
    BY DEF BlankLine, InLines, LineRead
  <1>4. CASE /\ e.method = "HEAD" \/ (e.content_length <= 0 /\ ~e.chunked)
             /\ Complete(e, at, FALSE)
    <2>1. Bodiless(r, l) /\ ~Counted(r, l) /\ ~Chunks(r, l)
      BY <1>1, <1>2, <1>3, <1>4, BodyKinds
    <2>2. Size(r) = at /\ l.content = <<>> /\ l.trailer = <<>> /\ r.outcome = Outcome(r, l)
      BY <1>3, <2>1 DEF Bodiless, WholeRequest
    <2>3. ~r.pipelines
      BY <2>1 DEF Reads, Expects
    <2>4. /\ Text(e.URI) = Slice(r, l.uri)
          /\ \A j \in 1 .. Len(e.header_array) :
              /\ j \in DOMAIN l.header
              /\ Text(e.header_array[j].name) = Slice(r, l.header[j].name)
              /\ Text(e.header_array[j].value) = Slice(r, l.header[j].value)
      <3>1. LineAt(l, Len(e.header_array) + 1) <= fill_ptr
            /\ LineAt(l, Len(e.header_array) + 1) <= Size(r)
        BY <1>1, <1>2, <2>2 DEF LastLine
      <3> QED
        BY <1>2, <1>3, <3>1, HeadersSpelt
    <2>5. AllHeaders(l) = l.header /\ DOMAIN l.header = 1 .. Len(l.header)
          /\ DOMAIN e.header_array = 1 .. Len(e.header_array)
      <3>1. l.header \in Seq(Header)
        BY <1>1, LayoutTypes
      <3>2. e.header_array \in Seq([name : Token, value : Token])
        BY <1>1 DEF Env
      <3>3. l.header \o <<>> = l.header
        BY <3>1
      <3> QED
        BY <2>2, <3>1, <3>2, <3>3 DEF AllHeaders
    <2>6. Request(e, mem) = Outcome(r, l)
      <3>1. e.version = VersionOf(Slice(r, l.version))
        BY <1>3 DEF LineRead
      <3> HIDE DEF r, l
      <3> QED
        BY <1>2, <1>3, <2>2, <2>4, <2>5, <3>1, RequestIs
    <2>7. e.header_array_size = HeaderArraySize
      BY <1>2 DEF Told
    <2> QED
      BY <1>1, <1>2, <1>4, <2>2, <2>3, <2>6, <2>7, CompletesWhole
  <1>5. CASE /\ e.method # "HEAD" /\ e.content_length > 0
             /\ GoOn([e EXCEPT !.body = at, !.parse_step = "BODY"], at)
    <2> DEFINE env == [e EXCEPT !.body = at, !.parse_step = "BODY"]
    <2>1. Counted(r, l)
      BY <1>1, <1>2, <1>3, <1>5, BodyKinds
    <2>2. /\ env.body = at /\ env.parse_step = "BODY"
          /\ \A f \in DOMAIN e : f \notin {"body", "parse_step"} => env[f] = e[f]
      <3>1. env = [e EXCEPT !["body"] = at, !.parse_step = "BODY"]
        OBVIOUS
      <3>2. "body" \in DOMAIN e /\ "parse_step" \in DOMAIN e
        BY <1>1, EnvHasFields DEF LineFields, HeaderFields
      <3> HIDE DEF env, at
      <3> QED
        BY <3>1, <3>2, TwoFields
    <2>3. GoOn(env, at)
      BY <1>5
    <2> HIDE DEF env
    <2>4. \A f \in LineFields \ {"body"} : env[f] = e[f]
      BY <1>1, <2>2, EnvHasFields DEF LineFields, HeaderFields
    <2>5. /\ env.chunked_body_end = -1 /\ env.reforming_flag = e.reforming_flag
          /\ env.content_length = l.length
          /\ LineRead(env, r, l) /\ Told(env, r, l, Len(l.header))
      <3>1. /\ env.header_array = e.header_array /\ env.header_array_size = e.header_array_size
            /\ env.chunked = e.chunked /\ env.TRAILER = e.TRAILER /\ env.keepalive = e.keepalive
            /\ env.content_length = e.content_length
            /\ env.chunked_body_end = e.chunked_body_end /\ env.reforming_flag = e.reforming_flag
            /\ env.method = e.method /\ env.URI = e.URI /\ env.version = e.version
        BY <2>4 DEF LineFields, HeaderFields
      <3> HIDE DEF r, l
      <3> QED
        BY <1>2, <1>3, <3>1 DEF LineRead, Told
    <2>6. Standing(env, at, r, l)
      BY <1>3, <2>1, <2>2, <2>5 DEF Standing, AtBody, AllTold
    <2> QED
      BY <1>1, <1>2, <2>2, <2>3, <2>5, <2>6, GoOnReads
  <1>6. CASE /\ e.method # "HEAD" /\ e.content_length <= 0 /\ e.chunked
             /\ GoOn([e EXCEPT !.body = at, !.chunked_body_end = at,
                       !.parse_step = "CHUNKED_SIZE"], at)
    <2> DEFINE env == [e EXCEPT !.body = at, !.chunked_body_end = at,
                                !.parse_step = "CHUNKED_SIZE"]
    <2>1. Chunks(r, l)
      BY <1>1, <1>2, <1>3, <1>6, BodyKinds
    <2>2. /\ env.body = at /\ env.chunked_body_end = at /\ env.parse_step = "CHUNKED_SIZE"
          /\ \A f \in DOMAIN e :
               f \notin {"body", "chunked_body_end", "parse_step"} => env[f] = e[f]
      <3>1. env = [e EXCEPT !["body"] = at, !["chunked_body_end"] = at,
                            !.parse_step = "CHUNKED_SIZE"]
        OBVIOUS
      <3>2. "body" \in DOMAIN e /\ "chunked_body_end" \in DOMAIN e /\ "parse_step" \in DOMAIN e
        BY <1>1, EnvHasFields DEF LineFields, HeaderFields
      <3> HIDE DEF env, at
      <3> QED
        BY <3>1, <3>2, ThreeFields
    <2>3. GoOn(env, at)
      BY <1>6
    <2> HIDE DEF env
    <2>4. \A f \in LineFields \ {"body", "chunked_body_end"} : env[f] = e[f]
      BY <1>1, <2>2, EnvHasFields DEF LineFields, HeaderFields
    <2>5. /\ env.reforming_flag = e.reforming_flag
          /\ env.content_length = l.length /\ env.chunked_length = e.chunked_length
          /\ LineRead(env, r, l) /\ Told(env, r, l, Len(l.header))
      <3>1. /\ env.header_array = e.header_array /\ env.header_array_size = e.header_array_size
            /\ env.chunked = e.chunked /\ env.TRAILER = e.TRAILER /\ env.keepalive = e.keepalive
            /\ env.content_length = e.content_length /\ env.reforming_flag = e.reforming_flag
            /\ env.method = e.method /\ env.URI = e.URI /\ env.version = e.version
        BY <2>4 DEF LineFields, HeaderFields
      <3>2. env.chunked_length = e.chunked_length
        BY <1>1, <2>2 DEF Env
      <3> HIDE DEF r, l
      <3> QED
        BY <1>2, <1>3, <3>1, <3>2 DEF LineRead, Told
    <2>6. Standing(env, at, r, l)
      <3>1. /\ Len(l.chunk) > 0 /\ l.chunk[1].at = at /\ l.chunk[1].off = 0
            /\ \A i \in DOMAIN l.chunk : IsChunk(r, l.chunk[i])
        BY <2>1 DEF Chunks
      <3>2. 1 \in DOMAIN l.chunk
        <4>1. l.chunk \in Seq([at : Nat, data : Nat, len : Nat, off : Nat])
          BY <1>1, LayoutTypes
        <4> QED
          BY <3>1, <4>1
      <3>3. at < l.chunk[1].data
        <4>1. l.chunk[1].at \in Nat /\ l.chunk[1].data \in Nat
          BY <1>1, <3>2, ChunkTypes
        <4>2. l.chunk[1].data >= l.chunk[1].at + 1
          BY <3>1, <3>2, <4>1 DEF IsChunk, EndOfLine
        <4> QED
          BY <3>1, <4>1, <4>2
      <3>4. l.length = 0
        BY <1>1, <1>2, <1>6
      <3>5. l.body + 0 = l.body
        BY <1>1
      <3>6. InChunk(env, r, l, 1)
        BY <1>3, <2>1, <2>2, <2>5, <3>1, <3>4, <3>5 DEF InChunk, AllTold
      <3>7. AtSize(env, at, r, l)
        BY <1>1, <1>2, <2>5, <3>1, <3>2, <3>3, <3>6 DEF AtSize
      <3> QED
        BY <2>2, <3>7 DEF Standing
    <2> QED
      BY <1>1, <1>2, <2>2, <2>3, <2>5, <2>6, GoOnReads
  <1> QED
    BY <1>4, <1>5, <1>6 DEF GoParsingBody

(* A header's line begins behind an end of line.                           *)
LEMMA BehindLineEnd ==
  ASSUME NEW env, NEW r, NEW l, l \in Layout, LineRead(env, r, l), InHeaders(env, r, l), Headers(r, l)
  PROVE  LineStart(env, l) \in Nat \ {0} /\ Byte(r, LineStart(env, l) - 1) = NL
  <1> DEFINE i == Len(env.header_array)
  <1>1. env.body = -1 /\ i \in Nat /\ i <= Len(l.header)
    BY DEF InHeaders, NoBody, Told
  <1>2. LineStart(env, l) = LineAt(l, i + 1)
    BY <1>1 DEF LineStart
  <1>3. CASE i = 0
    <2>1. LineStart(env, l) = l.line
      BY <1>2, <1>3 DEF LineAt
    <2>2. l.version.from < l.line - 1 /\ Byte(r, l.line - 1) = NL
      BY StartLineGoes DEF LineRead, VersionWord
    <2>3. l.line \in Nat /\ l.version.from \in Nat
      BY LayoutTypes
    <2> QED
      BY <2>1, <2>2, <2>3
  <1>4. CASE i # 0
    <2>1. i \in DOMAIN l.header /\ LineStart(env, l) = l.header[i].next
      BY <1>1, <1>2, <1>4, HeaderOfLayout DEF LineAt
    <2>2. HeaderAt(r, l.header[i], LineAt(l, i)) /\ l.header[i] \in Header
      BY <2>1, HeaderOfLayout DEF Headers
    <2>3. /\ l.header[i].next \in Nat /\ l.header[i].value.to \in Nat
          /\ l.header[i].value.to < l.header[i].next /\ Byte(r, l.header[i].next - 1) = NL
      BY <2>2, HeaderTypes DEF HeaderAt
    <2> QED
      BY <2>1, <2>3
  <1> QED
    BY <1>3, <1>4

(* Between two lines the headers of the request are known to be written. *)
LEMMA HeadersOf ==
  ASSUME NEW env, NEW r, NEW l, Written(r, l), InLines(env, r, l)
  PROVE  Headers(r, l)
  <1>1. StartLine(r, l)
    BY DEF InLines, LineRead
  <1> QED
    BY <1>1, StartLineEnds DEF WholeRequest, HeaderInvalid

(* HEADER_NAME0: a name begins, or the headers end. *)
LEMMA HeaderNameBeginsReads ==
  ASSUME Reads, HeaderNameBegins PROVE ReadInv'
  <1> DEFINE r == This
             l == This.layout
             at == LineStart(e, l)
             h == Current(e, l)
  <1>1. e.parse_step = "HEADER_NAME0" /\ InLines(e, r, l) /\ p = at
    BY ReadsBounds, StandingAt DEF HeaderNameBegins, Parsing, AtName0
  <1>2. /\ l \in Layout /\ Written(r, l) /\ fill_ptr \in Nat /\ Size(r) \in Nat /\ e \in Env
        /\ p \in Nat /\ p <= fill_ptr /\ process_ptr \in 0 .. fill_ptr
    BY ReadsBounds
  <1>3. at \in Nat /\ e.chunked_body_end <= at
    BY <1>1, <1>2, LineCases
  <1>4. \/ AHeader(e, r, l) /\ h \in Header
        \/ BlankLine(e, r, l)
        \/ Broken(e, r, l) /\ ColonMissing(r, l) /\ h \in Header
        \/ Broken(e, r, l) /\ ValueMissing(r, l) /\ h \in Header
    BY <1>1, <1>2, LineCases
  <1>5. \/ BlankLine(e, r, l)
        \/ /\ h \in Header /\ Byte(r, at) \notin {CR, NL}
           /\ at < h.name.to /\ h.name.to < Size(r) /\ h.name.from = at
    <2>1. ASSUME AHeader(e, r, l), h \in Header
          PROVE  /\ Byte(r, at) \notin {CR, NL} /\ at < h.name.to /\ h.name.to < Size(r)
                 /\ h.name.from = at
      BY <1>2, <1>3, <2>1, HeaderTypes DEF AHeader, HeaderAt, NameAt, Free, Gap
    <2>2. ASSUME Broken(e, r, l), ColonMissing(r, l), h \in Header
          PROVE  /\ Byte(r, at) \notin {CR, NL} /\ at < h.name.to /\ h.name.to < Size(r)
                 /\ h.name.from = at
      BY <1>2, <1>3, <2>2, HeaderTypes DEF Broken, ColonMissing, Free
    <2>3. ASSUME Broken(e, r, l), ValueMissing(r, l), h \in Header
          PROVE  /\ Byte(r, at) \notin {CR, NL} /\ at < h.name.to /\ h.name.to < Size(r)
                 /\ h.name.from = at
      BY <1>2, <1>3, <2>3, HeaderTypes DEF Broken, ValueMissing, NameAt, Free, Gap
    <2> QED
      BY <1>4, <2>1, <2>2, <2>3
  <1>6. at < Size(r)
    <2>1. CASE BlankLine(e, r, l)
      <3>1. EndOfLine(r, at, l.body) /\ l.body \in Nat
        BY <1>2, <2>1, LayoutTypes DEF BlankLine
      <3> QED
        BY <1>2, <1>3, <3>1 DEF EndOfLine
    <2>2. CASE h \in Header /\ at < h.name.to /\ h.name.to < Size(r)
      BY <1>2, <1>3, <2>2, HeaderTypes
    <2> QED
      BY <1>5, <2>1, <2>2
  <1>7. p < fill_ptr => mem[p] = Byte(r, at)
    BY <1>1, <1>2, <1>3, <1>6, Sees
  <1>8. CASE p = fill_ptr /\ NeedMore(p) /\ UNCHANGED e
    BY <1>1, <1>2, <1>6, <1>8, ReadsBounds, NeedMoreReads
  <1>9. ASSUME p < fill_ptr, mem[p] = CR
        PROVE  /\ BlankLine(e, r, l) /\ Byte(r, p + 1) = NL /\ l.body = p + 2 /\ l.body <= Size(r)
    <2>1. BlankLine(e, r, l)
      BY <1>5, <1>7, <1>9
    <2>2. EndOfLine(r, at, l.body) /\ CR # NL
      BY <2>1 DEF BlankLine, CR, NL
    <2> QED
      BY <1>1, <1>7, <1>9, <2>1, <2>2 DEF EndOfLine
  <1>10. CASE p < fill_ptr /\ mem[p] = CR /\ p + 1 = fill_ptr /\ NeedMore(process_ptr) /\ UNCHANGED e
    <2>1. BlankLine(e, r, l) /\ Byte(r, p + 1) = NL /\ l.body = p + 2 /\ l.body <= Size(r)
      BY <1>9, <1>10
    <2>2. at \in Nat \ {0} /\ Byte(r, at - 1) = NL /\ e.chunked_body_end = -1
      BY <1>1, <1>2, <2>1, HeadersOf, BehindLineEnd DEF BlankLine, InHeaders, NoBody, InLines
    <2>3. mem[fill_ptr - 2] = NL /\ mem[fill_ptr - 1] = CR /\ fill_ptr >= 2
      <3>1. mem[at - 1] = Byte(r, at - 1)
        <4>1. at - 1 \in Nat /\ at - 1 < fill_ptr /\ at - 1 < Size(r)
          BY <1>1, <1>2, <1>6, <1>10, <2>2
        <4> QED
          BY <2>2, <4>1, SeesAll
      <3> QED
        BY <1>1, <1>2, <1>10, <2>2, <3>1
    <2>4. process_ptr = p
      <3>1. process_ptr >= fill_ptr - 1 /\ process_ptr <= p
        BY <1>10, <2>2, <2>3 DEF Reads, ReadInv, Buffered, Uncut, Parses
      <3> QED
        BY <1>2, <1>10, <3>1
    <2>5. fill_ptr < Size(r)
      BY <1>2, <1>10, <2>1
    <2> QED
      BY <1>2, <1>10, <2>4, <2>5, ReadsBounds, NeedMoreReads
  <1>11. CASE /\ p < fill_ptr /\ mem[p] = CR /\ p + 1 < fill_ptr
              /\ GoParsingBody(IF mem[p + 1] = NL THEN p + 2 ELSE p + 1)
    <2>1. BlankLine(e, r, l) /\ Byte(r, p + 1) = NL /\ l.body = p + 2 /\ l.body <= Size(r)
      BY <1>9, <1>11
    <2>2. mem[p + 1] = NL
      <3>1. p + 1 \in Nat /\ p + 1 < Size(r) /\ e.chunked_body_end = -1
        BY <1>2, <2>1 DEF BlankLine, InHeaders, NoBody
      <3> QED
        BY <1>11, <2>1, <3>1, SeesAll
    <2>3. GoParsingBody(l.body)
      BY <1>11, <2>1, <2>2
    <2>4. p <= l.body /\ l.body <= fill_ptr
      BY <1>2, <1>11, <2>1
    <2> QED
      BY <1>1, <2>1, <2>3, <2>4, BlankLineRead
  <1>12. CASE p < fill_ptr /\ mem[p] = NL /\ GoParsingBody(p + 1)
    <2>1. BlankLine(e, r, l)
      BY <1>5, <1>7, <1>12
    <2>2. l.body = p + 1
      <3>1. EndOfLine(r, at, l.body) /\ CR # NL
        BY <2>1 DEF BlankLine, CR, NL
      <3> QED
        BY <1>1, <1>7, <1>12, <3>1 DEF EndOfLine
    <2>3. p <= l.body /\ l.body <= fill_ptr
      BY <1>2, <1>12, <2>2
    <2> QED
      BY <1>1, <1>12, <2>1, <2>2, <2>3, BlankLineRead
  <1>13. CASE /\ p < fill_ptr /\ mem[p] \notin {CR, NL}
              /\ GoOn([e EXCEPT !.name.ptr = p, !.parse_step = "HEADER_NAME"], p + 1)
    <2> DEFINE env == [e EXCEPT !.name.ptr = p, !.parse_step = "HEADER_NAME"]
    <2>1. h \in Header /\ Byte(r, at) \notin {CR, NL} /\ at < h.name.to
      <3>1. ~BlankLine(e, r, l)
        <4>1. BlankLine(e, r, l) => Byte(r, at) \in {CR, NL}
          BY DEF BlankLine, EndOfLine
        <4> QED
          BY <1>7, <1>13, <4>1
      <3> QED
        BY <1>5, <3>1
    <2>2. /\ env.name.ptr = p /\ env.parse_step = "HEADER_NAME"
          /\ \A f \in DOMAIN e : f \notin {"name", "parse_step"} => env[f] = e[f]
      <3>1. env = [e EXCEPT !["name"] = [e.name EXCEPT !.ptr = p], !.parse_step = "HEADER_NAME"]
        OBVIOUS
      <3>2. "name" \in DOMAIN e /\ "parse_step" \in DOMAIN e
        BY <1>2, EnvHasFields
      <3>3. [e.name EXCEPT !.ptr = p].ptr = p
        BY <1>2 DEF Env, Token
      <3> HIDE DEF env
      <3> QED
        BY <3>1, <3>2, <3>3, TwoFields
    <2>3. GoOn(env, p + 1)
      BY <1>13
    <2> HIDE DEF env
    <2>4. Alike(env, e, LineFields)
      <3>1. LineFields \subseteq DOMAIN e /\ "name" \notin LineFields /\ "parse_step" \notin LineFields
        BY <1>2, EnvHasFields DEF LineFields, HeaderFields
      <3> QED
        BY <2>2, <3>1 DEF Alike
    <2>5. /\ InLines(env, r, l) /\ LineStart(env, l) = at /\ Current(env, l) = h
          /\ env.body = e.body /\ env.chunked_body_end = e.chunked_body_end
          /\ env.reforming_flag = e.reforming_flag
      BY <1>1, <2>4, LinesFrame
    <2>6. h.name.to \in Nat
      BY <2>1, HeaderTypes
    <2>7. Standing(env, p + 1, r, l)
      <3> HIDE DEF r, l, at, h
      <3>1. AtName(env, p + 1, r, l)
        BY <1>1, <1>2, <1>3, <2>1, <2>2, <2>5, <2>6 DEF AtName
      <3> QED
        BY <2>2, <3>1 DEF Standing
    <2> QED
      BY <1>2, <2>3, <2>5, <2>7, GoOnReads
  <1> QED
    BY <1>8, <1>10, <1>11, <1>12, <1>13 DEF HeaderNameBegins

(* An environment whose name, value or step alone is another.              *)
LEMMA LinesUnlike ==
  ASSUME Reads, NEW env, NEW F, F \cap LineFields = {},
         \A f \in DOMAIN e : f \notin F => env[f] = e[f],
         InLines(e, This, This.layout)
  PROVE  /\ InLines(env, This, This.layout)
         /\ LineStart(env, This.layout) = LineStart(e, This.layout)
         /\ Current(env, This.layout) = Current(e, This.layout)
         /\ env.body = e.body /\ env.chunked_body_end = e.chunked_body_end
         /\ env.reforming_flag = e.reforming_flag
  <1>1. LineFields \subseteq DOMAIN e
    BY ReadsBounds, EnvHasFields
  <1>2. Alike(env, e, LineFields)
    BY <1>1 DEF Alike
  <1> QED
    BY <1>2, LinesFrame

(* HEADER_NAME: up to the colon, which may have come or not. *)
LEMMA HeaderNameEndsReads ==
  ASSUME Reads, HeaderNameEnds PROVE ReadInv'
  <1> DEFINE r == This
             l == This.layout
             at == LineStart(e, l)
             h == Current(e, l)
             x == h.name.to
  <1>1. /\ e.parse_step = "HEADER_NAME" /\ InLines(e, r, l) /\ Byte(r, at) \notin {CR, NL}
        /\ e.name.ptr = at /\ at < p /\ p <= x
    BY ReadsBounds, StandingAt DEF HeaderNameEnds, Parsing, AtName
  <1>2. /\ l \in Layout /\ Written(r, l) /\ fill_ptr \in Nat /\ Size(r) \in Nat /\ e \in Env
        /\ p \in Nat /\ p <= fill_ptr
    BY ReadsBounds
  <1>3. at \in Nat /\ e.chunked_body_end <= at /\ e.chunked_body_end <= p
    <2>1. at \in Nat /\ e.chunked_body_end <= at /\ e.chunked_body_end \in Int
      BY <1>1, <1>2, LineCases, ReadsBounds
    <2> QED
      BY <1>1, <1>2, <2>1
  <1>4. /\ h \in Header
        /\ \/ NameAt(r, h, at)
           \/ ColonMissing(r, l) /\ Broken(e, r, l)
    <2>1. ~BlankLine(e, r, l)
      BY <1>1 DEF BlankLine, EndOfLine
    <2> QED
      BY <1>1, <1>2, <2>1, LineCases DEF AHeader, HeaderAt, Broken, ValueMissing
  <1>5. h.name.from \in Nat /\ x \in Nat /\ h.value.from \in Nat
    BY <1>4, HeaderTypes
  <1>6. PICK q \in p .. fill_ptr : \E c \in q .. fill_ptr :
          /\ Stops(q, p, {SP, Colon, NL}) /\ Stops(c, q, {Colon, NL})
          /\ LET named == [e EXCEPT !.name = To(@, q)]
             IN  \/ q = fill_ptr /\ NeedMore(q) /\ UNCHANGED e
                 \/ q < fill_ptr /\ mem[c] = NL /\ Reject("HEADER_INVALID")
                 \/ q < fill_ptr /\ c = fill_ptr /\ mem[c] # NL /\ NeedMore(c) /\ e' = named
                 \/ /\ q < fill_ptr /\ c < fill_ptr /\ mem[c] # NL
                    /\ GoOn([named EXCEPT !.parse_step = "HEADER_VALUE0"], c + 1)
    BY DEF HeaderNameEnds
  <1>7. PICK c \in q .. fill_ptr :
          /\ Stops(q, p, {SP, Colon, NL}) /\ Stops(c, q, {Colon, NL})
          /\ \/ q = fill_ptr /\ NeedMore(q) /\ UNCHANGED e
             \/ q < fill_ptr /\ mem[c] = NL /\ Reject("HEADER_INVALID")
             \/ /\ q < fill_ptr /\ c = fill_ptr /\ mem[c] # NL /\ NeedMore(c)
                /\ e' = [e EXCEPT !.name = To(@, q)]
             \/ /\ q < fill_ptr /\ c < fill_ptr /\ mem[c] # NL
                /\ GoOn([[e EXCEPT !.name = To(@, q)] EXCEPT !.parse_step = "HEADER_VALUE0"], c + 1)
    BY <1>6
  <1>8. Colon # NL /\ Colon # SP /\ SP # NL
    BY DEF Colon, NL, SP
  <1>9. x < Size(r)
    <2>1. NameAt(r, h, at) => x < Size(r)
      BY <1>2, <1>5 DEF NameAt, Gap
    <2>2. ColonMissing(r, l) /\ Broken(e, r, l) => x < Size(r)
      BY DEF ColonMissing, Broken
    <2> QED
      BY <1>4, <2>1, <2>2
  <1>10. ASSUME q = fill_ptr, NeedMore(q), UNCHANGED e, fill_ptr <= x
         PROVE  ReadInv'
    <2>1. Standing(e, fill_ptr, r, l)
      <3> HIDE DEF r, l, at, h
      <3>1. AtName(e, fill_ptr, r, l)
        BY <1>1, <1>2, <1>3, <1>10, <1>5 DEF AtName, at, h
      <3> QED
        BY <1>1, <3>1 DEF Standing
    <2>2. fill_ptr < Size(r)
      BY <1>2, <1>5, <1>9, <1>10
    <2> QED
      BY <1>2, <1>10, <2>1, <2>2, NeedMoreReads
  <1>11. CASE NameAt(r, h, at)
    <2>1. /\ Free(r, at, x, {SP, Colon, NL}) /\ Byte(r, x) = Colon
          /\ Gap(r, x + 1, h.value.from) /\ h.name.from = at
      BY <1>11 DEF NameAt
    <2>2. /\ q = fill_ptr => fill_ptr <= x /\ fill_ptr < Size(r)
          /\ q < fill_ptr => q = x /\ mem[q] = Byte(r, x)
      <3>1. \A s \in p .. x - 1 : Byte(r, s) \notin {SP, Colon, NL}
        BY <1>1, <1>2, <1>3, <1>5, <2>1 DEF Free
      <3>2. {SP, Colon, NL} \in SUBSET Symbols
        BY ParserAssumption
      <3> HIDE DEF x
      <3> QED
        BY <1>1, <1>2, <1>3, <1>5, <1>7, <1>9, <2>1, <3>1, <3>2, ScanStops
    <2>3. q < fill_ptr => c = q /\ mem[c] = Colon
      <3>1. q < fill_ptr => mem[q] = Colon
        BY <2>1, <2>2
      <3> QED
        BY <1>2, <1>7, <3>1 DEF Stops
    <2>4. CASE q = fill_ptr /\ NeedMore(q) /\ UNCHANGED e
      BY <1>10, <2>2, <2>4
    <2>5. CASE /\ q < fill_ptr /\ c < fill_ptr /\ mem[c] # NL
               /\ GoOn([[e EXCEPT !.name = To(@, q)] EXCEPT !.parse_step = "HEADER_VALUE0"], c + 1)
      <3> DEFINE env == [[e EXCEPT !.name = To(@, q)] EXCEPT !.parse_step = "HEADER_VALUE0"]
      <3>1. /\ env.name = To(e.name, q) /\ env.parse_step = "HEADER_VALUE0"
            /\ \A f \in DOMAIN e : f \notin {"name", "parse_step"} => env[f] = e[f]
        <4>1. env = [e EXCEPT !["name"] = To(e.name, q), !.parse_step = "HEADER_VALUE0"]
          OBVIOUS
        <4>2. "name" \in DOMAIN e /\ "parse_step" \in DOMAIN e
          BY <1>2, EnvHasFields
        <4> HIDE DEF env
        <4> QED
          BY <4>1, <4>2, TwoFields
      <3>2. GoOn(env, x + 1)
        <4>1. GoOn(env, c + 1)
          BY <2>5
        <4> HIDE DEF env
        <4> QED
          BY <2>2, <2>3, <2>5, <4>1
      <3> HIDE DEF env
      <3>3. {"name", "parse_step"} \cap LineFields = {}
        BY DEF LineFields, HeaderFields
      <3>4. /\ InLines(env, r, l) /\ LineStart(env, l) = at /\ Current(env, l) = h
            /\ env.body = e.body /\ env.chunked_body_end = e.chunked_body_end
            /\ env.reforming_flag = e.reforming_flag
        BY <1>1, <3>1, <3>3, LinesUnlike
      <3>5. env.name = Tok(h.name)
        BY <1>1, <2>1, <2>2, <2>5, <3>1 DEF To, Tok
      <3>6. x < x + 1 /\ x + 1 <= h.value.from
        BY <1>5, <2>1 DEF Gap
      <3>7. Standing(env, x + 1, r, l)
        <4> HIDE DEF r, l, at, h
        <4>1. AtValue0(env, x + 1, r, l)
          BY <1>11, <3>4, <3>5, <3>6 DEF AtValue0
        <4> QED
          BY <3>1, <4>1 DEF Standing
      <3>8. x + 1 \in Nat /\ p <= x + 1
        BY <1>1, <1>2, <1>5
      <3> QED
        BY <3>2, <3>4, <3>7, <3>8, GoOnReads
    <2> QED
      BY <1>2, <1>7, <1>8, <2>3, <2>4, <2>5
  <1>12. CASE ColonMissing(r, l) /\ Broken(e, r, l)
    <2>1. /\ h = l.broken /\ h.name.from = at /\ Free(r, at, x, {Colon, NL}) /\ Byte(r, x) = NL
          /\ e.chunked_body_end = -1 /\ r.outcome = Rejection("HEADER_INVALID")
      BY <1>12 DEF ColonMissing, Broken, InHeaders, NoBody
    <2>2. \A s \in Nat : s < fill_ptr /\ s <= x => mem[s] = Byte(r, s)
      BY <1>2, <1>5, <1>9, <2>1, SeesAll
    <2>3. q <= x
      <3>1. CASE fill_ptr <= x
        BY <1>2, <1>5, <3>1
      <3>2. CASE x < fill_ptr
        <4>1. mem[x] = NL
          BY <1>5, <2>1, <2>2, <3>2
        <4> QED
          BY <1>1, <1>2, <1>5, <1>7, <3>2, <4>1 DEF Stops
      <3> QED
        BY <1>2, <1>5, <3>1, <3>2
    <2>4. c = IF x < fill_ptr THEN x ELSE fill_ptr
      <3>1. \A s \in q .. x - 1 : s < fill_ptr => mem[s] \notin {Colon, NL}
        <4> SUFFICES ASSUME NEW s \in q .. x - 1, s < fill_ptr PROVE mem[s] \notin {Colon, NL}
          OBVIOUS
        <4>1. s \in Nat /\ s <= x /\ s \in at .. x - 1
          BY <1>1, <1>2, <1>3, <1>5
        <4> QED
          BY <2>1, <2>2, <4>1 DEF Free
      <3>2. x < fill_ptr => mem[x] \in {Colon, NL}
        BY <1>5, <2>1, <2>2
      <3>3. q \in Nat
        BY <1>2
      <3> HIDE DEF x
      <3> QED
        BY <1>5, <1>7, <2>3, <3>1, <3>2, <3>3, StopsAt DEF Reads
    <2>5. CASE q = fill_ptr /\ NeedMore(q) /\ UNCHANGED e
      BY <1>10, <2>3, <2>5
    <2>6. CASE Reject("HEADER_INVALID")
      BY <2>1, <2>6, RejectReads
    <2>7. CASE q < fill_ptr /\ c = fill_ptr /\ NeedMore(c) /\ e' = [e EXCEPT !.name = To(@, q)]
      <3>1. fill_ptr <= x
        BY <1>2, <1>5, <2>4, <2>7
      <3>2. /\ e'.name.ptr = at /\ e'.parse_step = "HEADER_NAME"
            /\ \A f \in DOMAIN e : f \notin {"name"} => e'[f] = e[f]
        <4>1. e'.name = To(e.name, q)
          BY <1>2, <2>7 DEF Env
        <4>2. \A f \in DOMAIN e : f \notin {"name"} => e'[f] = e[f]
          BY <2>7
        <4> QED
          BY <1>1, <1>2, <4>1, <4>2, EnvHasFields DEF To
      <3>3. {"name"} \cap LineFields = {}
        BY DEF LineFields, HeaderFields
      <3>4. /\ InLines(e', r, l) /\ LineStart(e', l) = at /\ Current(e', l) = h
            /\ e'.body = e.body /\ e'.chunked_body_end = e.chunked_body_end
            /\ e'.reforming_flag = e.reforming_flag
        BY <1>1, <3>2, <3>3, LinesUnlike
      <3>5. Standing(e', fill_ptr, r, l)
        <4> HIDE DEF r, l, at, h
        <4>1. AtName(e', fill_ptr, r, l)
          BY <1>1, <1>2, <1>3, <1>5, <3>1, <3>2, <3>4 DEF AtName
        <4> QED
          BY <3>2, <4>1 DEF Standing
      <3>6. fill_ptr < Size(r)
        BY <1>2, <1>5, <1>9, <3>1
      <3> QED
        BY <1>2, <2>7, <3>4, <3>5, <3>6, NeedMoreReads
    <2>8. ~(q < fill_ptr /\ c < fill_ptr /\ mem[c] # NL)
      BY <1>2, <1>5, <2>1, <2>2, <2>4
    <2> QED
      BY <1>7, <2>5, <2>6, <2>7, <2>8
  <1> QED
    BY <1>4, <1>11, <1>12

(* HEADER_VALUE0. *)
LEMMA ValueBeginsReads ==
  ASSUME Reads, ValueBegins PROVE ReadInv'
  <1> DEFINE r == This
             l == This.layout
             at == LineStart(e, l)
             h == Current(e, l)
             x == h.value.from
  <1>1. /\ e.parse_step = "HEADER_VALUE0" /\ InLines(e, r, l) /\ NameAt(r, h, at)
        /\ e.name = Tok(h.name) /\ h.name.to < p /\ p <= x
    BY ReadsBounds, StandingAt DEF ValueBegins, TokenBegins, Parsing, AtValue0
  <1>2. /\ l \in Layout /\ Written(r, l) /\ Size(r) \in Nat /\ e \in Env /\ p \in Nat
        /\ e.chunked_body_end \in Int
    BY ReadsBounds
  <1>3. at \in Nat /\ e.chunked_body_end <= at
    BY <1>1, <1>2, LineCases
  <1>4. ~BlankLine(e, r, l) /\ h \in Header
    <2>1. ASSUME h \in Header PROVE Byte(r, at) \notin {CR, NL}
      BY <1>1, <1>3, <2>1, HeaderTypes DEF NameAt, Free
    <2>2. BlankLine(e, r, l) => Byte(r, at) \in {CR, NL}
      BY DEF BlankLine, EndOfLine
    <2>3. BlankLine(e, r, l) => FALSE
      <3> SUFFICES ASSUME BlankLine(e, r, l) PROVE FALSE
        OBVIOUS
      <3>1. h = l.broken /\ l.broken \in Header
        BY <1>2, HeadersDone, LayoutTypes DEF Current, BlankLine
      <3> QED
        BY <2>1, <2>2, <3>1
    <2> QED
      BY <1>1, <1>2, <2>3, LineCases
  <1>5. h.name.from \in Nat /\ h.name.to \in Nat /\ x \in Nat /\ h.value.to \in Nat /\ h.next \in Nat
    BY <1>4, HeaderTypes
  <1>6. /\ x < Size(r) /\ Only(r, h.name.to + 1, x, {SP}) /\ Byte(r, x) # SP
        /\ at < h.name.to /\ Byte(r, h.name.to) = Colon
    BY <1>1 DEF NameAt, Gap
  <1>7. Only(r, p, x, {SP}) /\ e.chunked_body_end <= p
    BY <1>1, <1>2, <1>3, <1>5, <1>6 DEF Only
  <1>8. \A y \in p .. x : Standing(e, y, r, l)
    <2> SUFFICES ASSUME NEW y \in p .. x PROVE Standing(e, y, r, l)
      OBVIOUS
    <2>1. h.name.to < y /\ y <= x
      BY <1>1, <1>2, <1>5
    <2> HIDE DEF r, l, at, h
    <2>2. AtValue0(e, y, r, l)
      BY <1>1, <2>1 DEF AtValue0, at, h
    <2> QED
      BY <1>1, <2>2 DEF Standing
  <1>9. Colon # NL
    BY DEF Colon, NL
  <1>10. \/ AHeader(e, r, l) /\ Byte(r, x) # NL
         \/ r.outcome = Rejection("HEADER_INVALID") /\ Byte(r, x) = NL
    <2>1. CASE AHeader(e, r, l)
      BY <1>5, <2>1 DEF AHeader, HeaderAt, Free
    <2>2. CASE Broken(e, r, l) /\ ColonMissing(r, l)
      BY <1>6, <1>9, <2>2 DEF Broken, ColonMissing
    <2>3. CASE Broken(e, r, l) /\ ValueMissing(r, l)
      BY <2>3 DEF Broken, ValueMissing
    <2> QED
      BY <1>1, <1>2, <1>4, <2>1, <2>2, <2>3, LineCases
  <1>11. ASSUME NEW env, Byte(r, x) # NL, env.parse_step = "HEADER_VALUE",
                env["value"] = [ptr |-> x, len |-> 0], Otherwise(env, "value")
         PROVE  Standing(env, x + 1, r, l)
    <2>1. {"value", "parse_step"} \cap LineFields = {}
      BY DEF LineFields, HeaderFields
    <2>2. /\ InLines(env, r, l) /\ LineStart(env, l) = at /\ Current(env, l) = h
      BY <1>1, <1>11, <2>1, LinesUnlike DEF Otherwise
    <2>3. env.name = e.name /\ env.value.ptr = x
      BY <1>2, <1>11, EnvHasFields DEF Otherwise
    <2>4. HeaderAt(r, h, at) /\ x < x + 1 /\ x + 1 < h.next
      BY <1>5, <1>10, <1>11 DEF AHeader, HeaderAt
    <2> HIDE DEF r, l, at, h
    <2>5. AtValue(env, x + 1, r, l)
      BY <1>1, <2>2, <2>3, <2>4 DEF AtValue
    <2> QED
      BY <1>11, <2>5 DEF Standing
  <1> HIDE DEF x
  <1> QED
    BY <1>1, <1>5, <1>6, <1>7, <1>8, <1>10, <1>11, TokenBeginsReads DEF ValueBegins

(* Four fields changed, the others as they were. *)
LEMMA FourFields ==
  ASSUME NEW env, NEW a \in DOMAIN env, NEW b \in DOMAIN env, NEW c \in DOMAIN env,
         NEW d \in DOMAIN env, a # b, a # c, a # d, b # c, b # d, c # d,
         NEW u, NEW v, NEW w, NEW x,
         NEW new, new = [env EXCEPT ![a] = u, ![b] = v, ![c] = w, ![d] = x]
  PROVE  /\ new[a] = u /\ new[b] = v /\ new[c] = w /\ new[d] = x /\ DOMAIN new = DOMAIN env
         /\ \A f \in DOMAIN env : f \notin {a, b, c, d} => new[f] = env[f]
  OBVIOUS

(* The fields that a header sets, and those it leaves.                     *)
HeaderSets(now, env, name, value, v) ==
  /\ now.content_length =
        IF name # <<"Content-Length">> THEN env.content_length
        ELSE IF Len(value) > 0 /\ value[1] \in DOMAIN Number THEN Number[value[1]] ELSE 0
  /\ now.chunked = (env.chunked \/ (name = <<"Transfer-Encoding">> /\ value = <<"chunked">>))
  /\ now.TRAILER = IF name = <<"Trailer">> THEN v ELSE env.TRAILER
  /\ name # <<"Connection">> => now.keepalive = env.keepalive
  /\ name = <<"Connection">> /\ value = <<"Close">> => now.keepalive = -1

(* Interpreted does that. *)
LEMMA InterpretedFields ==
  ASSUME NEW env \in Env, NEW name, NEW value
  PROVE  /\ HeaderSets(Interpreted(env, name, value), env, name, value, env.value)
         /\ DOMAIN Interpreted(env, name, value) = DOMAIN env
         /\ \A f \in DOMAIN env :
              f \notin {"content_length", "chunked", "TRAILER", "keepalive"} =>
                Interpreted(env, name, value)[f] = env[f]
  <1> DEFINE length == IF name # <<"Content-Length">> THEN env.content_length
                       ELSE IF Len(value) > 0 /\ value[1] \in DOMAIN Number
                       THEN Number[value[1]] ELSE 0
             chunked == env.chunked \/ (name = <<"Transfer-Encoding">> /\ value = <<"chunked">>)
             trailer == IF name = <<"Trailer">> THEN env.value ELSE env.TRAILER
             keepalive == IF name # <<"Connection">> THEN env.keepalive
                          ELSE CASE value = <<"Keep-Alive">> -> 1
                                 [] value = <<"Close">> -> -1
                                 [] OTHER -> 0
             now == Interpreted(env, name, value)
  <1>1. now = [env EXCEPT !["content_length"] = length, !["chunked"] = chunked,
                          !["TRAILER"] = trailer, !["keepalive"] = keepalive]
    BY DEF Interpreted
  <1>2. /\ "content_length" \in DOMAIN env /\ "chunked" \in DOMAIN env
        /\ "TRAILER" \in DOMAIN env /\ "keepalive" \in DOMAIN env
    BY EnvHasFields DEF LineFields, HeaderFields
  <1>3. /\ name # <<"Connection">> => keepalive = env.keepalive
        /\ name = <<"Connection">> /\ value = <<"Close">> => keepalive = -1
    <2>1. <<"Close">> # <<"Keep-Alive">>
      OBVIOUS
    <2> QED
      BY <2>1
  <1> HIDE DEF length, chunked, trailer, keepalive, now
  <1>4. /\ now.content_length = length /\ now.chunked = chunked /\ now.TRAILER = trailer
        /\ now.keepalive = keepalive /\ DOMAIN now = DOMAIN env
        /\ \A f \in DOMAIN env :
             f \notin {"content_length", "chunked", "TRAILER", "keepalive"} => now[f] = env[f]
    BY <1>1, <1>2, FourFields
  <1>5. HeaderSets(now, env, name, value, env.value)
    BY <1>3, <1>4 DEF HeaderSets, length, chunked, trailer
  <1> QED
    BY <1>4, <1>5 DEF now

(* A header is stored behind the others when the array has room for two. *)
LEMMA StoredFields ==
  ASSUME NEW env \in Env, NEW new, new = Stored(env),
         Len(env.header_array) + 2 <= env.header_array_size
  PROVE  /\ new.header_array = Append(env.header_array, [name |-> env.name, value |-> env.value])
         /\ new.header_array_size = env.header_array_size
         /\ DOMAIN new = DOMAIN env
         /\ \A f \in DOMAIN env :
              f \notin {"header_array", "header_array_size", "name", "value"} => new[f] = env[f]
  <1> DEFINE array == Append(env.header_array, [name |-> env.name, value |-> env.value])
  <1>0. env.header_array_size \in Nat /\ Len(env.header_array) \in Nat
    <2>1. env.header_array \in Seq([name : Token, value : Token]) /\ env.header_array_size \in Nat
      BY DEF Env
    <2> QED
      BY <2>1
  <1>1. new = [env EXCEPT !["header_array"] = array,
                          !["header_array_size"] = env.header_array_size,
                          !["name"] = NoToken, !["value"] = NoToken]
    <2>1. ~(Len(env.header_array) + 2 > env.header_array_size)
      BY <1>0
    <2> QED
      BY <2>1 DEF Stored
  <1>2. /\ "header_array" \in DOMAIN env /\ "header_array_size" \in DOMAIN env
        /\ "name" \in DOMAIN env /\ "value" \in DOMAIN env
    BY EnvHasFields DEF LineFields, HeaderFields
  <1> HIDE DEF array
  <1>3. /\ new.header_array = array /\ new.header_array_size = env.header_array_size
        /\ DOMAIN new = DOMAIN env
        /\ \A f \in DOMAIN env :
             f \notin {"header_array", "header_array_size", "name", "value"} => new[f] = env[f]
    BY <1>1, <1>2, FourFields
  <1> QED
    BY <1>3 DEF array

(* A header that has come in full, as the parser takes it: its value set,  *)
(* then interpreted.                                                       *)
Taken(env, name, value, v) == Interpreted([env EXCEPT !.value = v], name, value)

(* Its fields. *)
LEMMA TakenFields ==
  ASSUME NEW env \in Env, NEW name, NEW value, NEW v \in Token,
         NEW now, now = Taken(env, name, value, v)
  PROVE  /\ HeaderSets(now, env, name, value, v)
         /\ now.value = v /\ now \in Env /\ DOMAIN now = DOMAIN env
         /\ \A f \in DOMAIN env :
              f \notin {"content_length", "chunked", "TRAILER", "keepalive", "value"} =>
                now[f] = env[f]
  <1> DEFINE valued == [env EXCEPT !.value = v]
  <1>1. now = Interpreted(valued, name, value)
    BY DEF Taken
  <1>2. valued \in Env /\ valued.value = v
    BY DEF Env
  <1>3. "value" \in DOMAIN env
    BY EnvHasFields
  <1>4. DOMAIN valued = DOMAIN env /\ \A f \in DOMAIN env : f # "value" => valued[f] = env[f]
    OBVIOUS
  <1> HIDE DEF valued
  <1>5. now \in Env
    BY <1>1, <1>2, InterpretedEnv
  <1>6. {"content_length", "chunked", "TRAILER", "keepalive"} \subseteq DOMAIN env
    BY EnvHasFields DEF LineFields, HeaderFields
  <1>7. /\ HeaderSets(now, valued, name, value, v)
        /\ DOMAIN now = DOMAIN valued
        /\ \A f \in DOMAIN valued :
             f \notin {"content_length", "chunked", "TRAILER", "keepalive"} => now[f] = valued[f]
    <2> DEFINE new == Interpreted(valued, name, value)
    <2>1. /\ HeaderSets(new, valued, name, value, valued.value)
          /\ DOMAIN new = DOMAIN valued
          /\ \A f \in DOMAIN valued :
               f \notin {"content_length", "chunked", "TRAILER", "keepalive"} => new[f] = valued[f]
      BY <1>2, InterpretedFields
    <2>2. now = new
      BY <1>1
    <2> HIDE DEF new
    <2> QED
      BY <1>2, <2>1, <2>2
  <1>8. /\ valued.content_length = env.content_length /\ valued.chunked = env.chunked
        /\ valued.TRAILER = env.TRAILER /\ valued.keepalive = env.keepalive
    BY <1>4, <1>6
  <1>9. now.value = v
    BY <1>2, <1>3, <1>4, <1>7
  <1>10. \A f \in DOMAIN env :
           f \notin {"content_length", "chunked", "TRAILER", "keepalive", "value"} => now[f] = env[f]
    BY <1>4, <1>7
  <1>11. HeaderSets(now, env, name, value, v)
    BY <1>7, <1>8 DEF HeaderSets
  <1> QED
    BY <1>2, <1>4, <1>5, <1>7, <1>9, <1>10, <1>11

(* One field changed, the others as they were. *)
LEMMA OneField ==
  ASSUME NEW env, NEW a \in DOMAIN env, NEW u, NEW new, new = [env EXCEPT ![a] = u]
  PROVE  new[a] = u /\ DOMAIN new = DOMAIN env /\ \A f \in DOMAIN env : f # a => new[f] = env[f]
  OBVIOUS

(* A header stored, and the parser at the next line.                       *)
NextLine(now) == [Stored(now) EXCEPT !.parse_step = "HEADER_NAME0"]
(* What the environment is then, from what it was. *)
NextLineHas(new, now, env, v) ==
  /\ new.content_length = now.content_length /\ new.chunked = now.chunked
  /\ new.TRAILER = now.TRAILER /\ new.keepalive = now.keepalive
  /\ new.header_array = Append(env.header_array, [name |-> env.name, value |-> v])
  /\ new.parse_step = "HEADER_NAME0"
  /\ \A f \in {"method", "URI", "version", "body", "chunked_body_end", "chunked_length",
               "reforming_flag", "header_array_size"} : new[f] = env[f]

LEMMA NextLineFields ==
  ASSUME NEW env \in Env, NEW name, NEW value, NEW v \in Token,
         NEW now, now = Taken(env, name, value, v),
         NEW new, new = NextLine(now),
         Len(env.header_array) + 2 <= env.header_array_size
  PROVE  NextLineHas(new, now, env, v)
  <1> DEFINE F == {"method", "URI", "version", "body", "chunked_body_end", "chunked_length",
                   "reforming_flag", "header_array_size"}
             G == {"content_length", "chunked", "TRAILER", "keepalive"}
             stored == Stored(now)
  <1>1. /\ now.value = v /\ now \in Env /\ DOMAIN now = DOMAIN env
        /\ \A f \in DOMAIN env : f \notin G \cup {"value"} => now[f] = env[f]
    <2>1. /\ now.value = v /\ now \in Env /\ DOMAIN now = DOMAIN env
          /\ \A f \in DOMAIN env :
               f \notin {"content_length", "chunked", "TRAILER", "keepalive", "value"} =>
                 now[f] = env[f]
      BY TakenFields
    <2> QED
      BY <2>1
  <1>2. F \cup G \subseteq DOMAIN env /\ {"name", "header_array", "parse_step"} \subseteq DOMAIN env
    BY EnvHasFields DEF LineFields, HeaderFields
  <1>3. /\ now.name = env.name /\ now.header_array = env.header_array
        /\ \A f \in F : now[f] = env[f]
    BY <1>1, <1>2
  <1>4. /\ stored.header_array = Append(now.header_array, [name |-> now.name, value |-> now.value])
        /\ stored.header_array_size = now.header_array_size /\ DOMAIN stored = DOMAIN now
        /\ \A f \in DOMAIN now :
              f \notin {"header_array", "header_array_size", "name", "value"} => stored[f] = now[f]
    <2>1. Len(now.header_array) + 2 <= now.header_array_size
      <3>1. now.header_array_size = env.header_array_size
        BY <1>3
      <3> QED
        BY <1>3, <3>1
    <2> HIDE DEF stored
    <2>2. stored = Stored(now)
      BY DEF stored
    <2> QED
      BY <1>1, <2>1, <2>2, StoredFields
  <1>5. new = [stored EXCEPT !["parse_step"] = "HEADER_NAME0"]
    BY DEF NextLine
  <1> HIDE DEF stored
  <1>6. new.parse_step = "HEADER_NAME0" /\ \A f \in DOMAIN env : f # "parse_step" => new[f] = stored[f]
    BY <1>1, <1>2, <1>4, <1>5, OneField
  <1>7. new.header_array = Append(env.header_array, [name |-> env.name, value |-> v])
    BY <1>1, <1>2, <1>3, <1>4, <1>6
  <1>8. \A f \in G : new[f] = now[f]
    BY <1>1, <1>2, <1>4, <1>6
  <1>9. \A f \in F : new[f] = env[f]
    <2> SUFFICES ASSUME NEW f \in F PROVE new[f] = env[f]
      OBVIOUS
    <2>1. f \in DOMAIN env /\ f # "parse_step" /\ f \notin {"header_array", "name", "value"}
      BY <1>2
    <2>2. new[f] = stored[f] /\ now[f] = env[f]
      BY <1>3, <1>6, <2>1
    <2>3. stored[f] = now[f]
      <3>1. CASE f = "header_array_size"
        BY <1>4, <3>1
      <3>2. CASE f # "header_array_size"
        BY <1>1, <1>4, <2>1, <3>2
      <3> QED
        BY <3>1, <3>2
    <2> QED
      BY <2>2, <2>3
  <1> QED
    BY <1>6, <1>7, <1>8, <1>9 DEF NextLineHas

(* What Append makes of a sequence. *)
LEMMA AppendIs ==
  ASSUME NEW S, NEW s \in Seq(S), NEW x \in S, NEW i, i = Len(s)
  PROVE  /\ Len(Append(s, x)) = i + 1 /\ Append(s, x)[i + 1] = x
         /\ \A j \in 1 .. i : Append(s, x)[j] = s[j]
  OBVIOUS

(* One more header: what the parser has been told grows by it.             *)
LEMMA HeaderTold ==
  ASSUME NEW env \in Env, NEW r, NEW l, l \in Layout, LineRead(env, r, l), InHeaders(env, r, l),
         Headers(r, l), NEW i, i = Len(env.header_array), i < Len(l.header),
         NEW h, h = l.header[i + 1], env.name = Tok(h.name),
         NEW name, name = Slice(r, h.name), NEW value, value = Slice(r, h.value),
         NEW v, v = Tok(h.value),
         NEW now, now = Taken(env, name, value, v), NEW new, new = NextLine(now)
  PROVE  /\ ~(now.chunked /\ now.content_length > 0)
         /\ new.parse_step = "HEADER_NAME0" /\ InLines(new, r, l)
         /\ LineStart(new, l) = h.next
         /\ new.body = env.body /\ new.chunked_body_end = env.chunked_body_end
         /\ new.reforming_flag = env.reforming_flag
  <1>1. /\ i \in Nat /\ i + 1 \in DOMAIN l.header /\ h \in Header
        /\ Len(l.header) \in Nat /\ Len(l.header) < HeaderArraySize
        /\ \A j \in 1 .. i + 1 : j \in DOMAIN l.header /\ l.header[j] \in Header
        /\ 1 .. i + 1 = (1 .. i) \cup {i + 1}
    <2>1. i \in Nat
      <3>1. env.header_array \in Seq([name : Token, value : Token])
        BY DEF Env
      <3> QED
        BY <3>1
    <2>2. Len(l.header) \in Nat /\ DOMAIN l.header = 1 .. Len(l.header)
          /\ \A j \in DOMAIN l.header : l.header[j] \in Header
      BY HeaderOfLayout
    <2> QED
      BY <2>1, <2>2 DEF Headers
  <1>2. Told(env, r, l, i) /\ NoBody(env) /\ env.content_length = LengthTold(r, l, i)
    BY DEF InHeaders
  <1>3. /\ v \in Token /\ h.next \in Nat /\ LineAt(l, i + 1) \in Nat /\ LineAt(l, i + 1) < h.next
    <2>1. HeaderAt(r, h, LineAt(l, i + 1)) /\ LineAt(l, i + 1) \in Nat
      BY <1>1, HeaderOfLayout DEF Headers
    <2>2. /\ h.name.from \in Nat /\ h.name.to \in Nat /\ h.value.from \in Nat
          /\ h.value.to \in Nat /\ h.next \in Nat
      BY <1>1, HeaderTypes
    <2>3. /\ LineAt(l, i + 1) < h.name.to /\ h.name.to < h.value.from
          /\ h.value.from < h.value.to /\ h.value.to < h.next /\ Tok(h.value) \in Token
      BY <1>1, <2>1, HeaderOrder
    <2> QED
      BY <2>1, <2>2, <2>3, SMTT(30)
  <1>4. HeaderSets(now, env, name, value, v)
    BY <1>3, TakenFields
  <1>5. /\ new.content_length = now.content_length /\ new.chunked = now.chunked
        /\ new.TRAILER = now.TRAILER /\ new.keepalive = now.keepalive
        /\ new.header_array = Append(env.header_array, [name |-> env.name, value |-> v])
        /\ new.parse_step = "HEADER_NAME0"
        /\ \A f \in {"method", "URI", "version", "body", "chunked_body_end", "chunked_length",
                     "reforming_flag", "header_array_size"} : new[f] = env[f]
    <2>1. Len(env.header_array) + 2 <= env.header_array_size
      <3>1. env.header_array_size = HeaderArraySize /\ HeaderArraySize \in Nat
        BY <1>2, ParserAssumption DEF Told
      <3> QED
        BY <1>1, <3>1
    <2>2. NextLineHas(new, now, env, v)
      BY <1>3, <2>1, NextLineFields
    <2> QED
      BY <2>2 DEF NextLineHas
  <1>6. /\ Len(new.header_array) = i + 1
        /\ \A j \in 1 .. i : new.header_array[j] = env.header_array[j]
        /\ new.header_array[i + 1] = [name |-> Tok(h.name), value |-> Tok(h.value)]
    <2> DEFINE S == [name : Token, value : Token]
               slot == [name |-> env.name, value |-> v]
    <2>1. env.header_array \in Seq(S) /\ slot \in S
      BY <1>3 DEF Env
    <2>2. slot = [name |-> Tok(h.name), value |-> Tok(h.value)]
      OBVIOUS
    <2>3. new.header_array = Append(env.header_array, slot)
      BY <1>5
    <2> HIDE DEF S, slot
    <2>4. /\ Len(Append(env.header_array, slot)) = i + 1
          /\ Append(env.header_array, slot)[i + 1] = slot
          /\ \A j \in 1 .. i : Append(env.header_array, slot)[j] = env.header_array[j]
      BY <2>1, AppendIs
    <2> QED
      BY <2>2, <2>3, <2>4
  <1>7. \A j \in 1 .. i + 1 :
          new.header_array[j] = [name |-> Tok(l.header[j].name), value |-> Tok(l.header[j].value)]
    BY <1>1, <1>2, <1>6 DEF Told
  <1>8. LineAt(l, (i + 1) + 1) = h.next
    BY <1>1 DEF LineAt
  <1>9. l.line <= h.next /\ \A j \in 1 .. i + 1 : l.header[j].next <= h.next
    <2>1. l.line \in Nat /\ l.line <= LineAt(l, i + 1)
      BY <1>2, LayoutTypes DEF Told
    <2>2. \A j \in 1 .. i : l.header[j].next \in Nat /\ l.header[j].next <= LineAt(l, i + 1)
      BY <1>1, <1>2, HeaderTypes DEF Told
    <2> QED
      BY <1>1, <1>3, <2>1, <2>2, SMTT(30)
  <1>10. new.chunked <=> \E j \in 1 .. i + 1 : Says(r, l.header[j], "Transfer-Encoding", "chunked")
    <2>1. now.chunked = (env.chunked \/ Says(r, h, "Transfer-Encoding", "chunked"))
      BY <1>4 DEF HeaderSets, Says, Named
    <2>2. env.chunked <=> \E j \in 1 .. i : Says(r, l.header[j], "Transfer-Encoding", "chunked")
      BY <1>2 DEF Told
    <2> QED
      BY <1>1, <1>5, <2>1, <2>2
  <1>11. \/ new.TRAILER = NoToken /\ \A j \in 1 .. i + 1 : ~Named(r, l.header[j], "Trailer")
         \/ \E j \in 1 .. i + 1 : Named(r, l.header[j], "Trailer")
                                  /\ new.TRAILER = Tok(l.header[j].value)
    <2>1. new.TRAILER = IF Named(r, h, "Trailer") THEN Tok(h.value) ELSE env.TRAILER
      BY <1>4, <1>5 DEF HeaderSets, Named
    <2>2. \/ env.TRAILER = NoToken /\ \A j \in 1 .. i : ~Named(r, l.header[j], "Trailer")
          \/ \E j \in 1 .. i : Named(r, l.header[j], "Trailer") /\ env.TRAILER = Tok(l.header[j].value)
      BY <1>2 DEF Told
    <2> QED
      BY <1>1, <2>1, <2>2
  <1>12. Closes(r, l) /\ (\E j \in 1 .. i + 1 : Named(r, l.header[j], "Connection"))
           => new.keepalive = -1
    <2> SUFFICES ASSUME Closes(r, l), NEW j \in 1 .. i + 1, Named(r, l.header[j], "Connection")
                 PROVE  new.keepalive = -1
      OBVIOUS
    <2>1. CASE Named(r, h, "Connection")
      <3>1. value = <<"Close">> /\ name = <<"Connection">>
        BY <1>1, <2>1 DEF Closes, Named
      <3> QED
        BY <1>4, <1>5, <3>1 DEF HeaderSets
    <2>2. CASE ~Named(r, h, "Connection")
      <3>1. name # <<"Connection">> /\ j \in 1 .. i
        BY <1>1, <2>2 DEF Named
      <3> QED
        BY <1>2, <1>4, <1>5, <3>1 DEF HeaderSets, Told
    <2> QED
      BY <2>1, <2>2
  <1>13. new.content_length = LengthTold(r, l, i + 1)
    <2>1. CASE Named(r, h, "Content-Length")
      <3>1. PICK s \in DOMAIN Number : value = <<s>> /\ Number[s] = l.length
        BY <1>1, <2>1 DEF Headers, Agrees
      <3>2. Len(value) > 0 /\ value[1] = s
        BY <3>1
      <3>3. now.content_length = l.length
        BY <1>4, <2>1, <3>1, <3>2 DEF HeaderSets, Named
      <3> QED
        BY <1>1, <1>5, <2>1, <3>3 DEF LengthTold
    <2>2. CASE ~Named(r, h, "Content-Length")
      <3>1. now.content_length = env.content_length
        BY <1>4, <2>2 DEF HeaderSets, Named
      <3> QED
        BY <1>1, <1>2, <1>5, <2>2, <3>1 DEF LengthTold
    <2> QED
      BY <2>1, <2>2
  <1>14. Told(new, r, l, i + 1)
    <2>1. new.header_array_size = HeaderArraySize
      BY <1>2, <1>5 DEF Told
    <2>2. i + 1 <= Len(l.header)
      BY <1>1
    <2>3. /\ l.line <= LineAt(l, (i + 1) + 1)
          /\ \A j \in 1 .. i + 1 : l.header[j].next <= LineAt(l, (i + 1) + 1)
      BY <1>8, <1>9
    <2> QED
      BY <1>6, <1>7, <1>10, <1>11, <1>12, <2>1, <2>2, <2>3 DEF Told
  <1>15. NoBody(new) /\ LineRead(new, r, l) /\ new.body = -1
    <2>1. /\ new.method = env.method /\ new.URI = env.URI /\ new.version = env.version
          /\ new.body = env.body /\ new.chunked_body_end = env.chunked_body_end
          /\ new.chunked_length = env.chunked_length
      BY <1>5
    <2> QED
      BY <1>2, <2>1 DEF NoBody, LineRead
  <1>16. InLines(new, r, l)
    BY <1>6, <1>13, <1>14, <1>15 DEF InLines, InHeaders
  <1>17. ~(now.chunked /\ now.content_length > 0)
    <2>1. ASSUME now.content_length > 0 PROVE ~now.chunked
      <3>1. \E j \in 1 .. i + 1 : Named(r, l.header[j], "Content-Length")
        <4>1. LengthTold(r, l, i + 1) > 0
          BY <1>5, <1>13, <2>1
        <4> QED
          BY <4>1 DEF LengthTold
      <3>2. ~l.chunked
        BY <1>1, <3>1 DEF Headers, Agrees
      <3> QED
        BY <1>1, <1>5, <1>10, <3>2 DEF Headers, Agrees
    <2> QED
      BY <2>1
  <1>18. LineStart(new, l) = h.next
    BY <1>6, <1>8, <1>15 DEF LineStart
  <1> QED
    BY <1>5, <1>16, <1>17, <1>18

----------------------------------------------------------------------------
(* A request whose headers have all come. *)

(* When all headers have come, they are spelt as they were sent. *)
LEMMA AllToldSpelt ==
  ASSUME Reads, AllTold(e, This, This.layout)
  PROVE  /\ Text(e.URI) = Slice(This, This.layout.uri)
         /\ Len(e.header_array) = Len(This.layout.header)
         /\ \A j \in 1 .. Len(This.layout.header) :
              /\ j \in DOMAIN This.layout.header
              /\ Text(e.header_array[j].name) = Slice(This, This.layout.header[j].name)
              /\ Text(e.header_array[j].value) = Slice(This, This.layout.header[j].value)
  <1> DEFINE r == This
             l == This.layout
  <1>1. /\ l \in Layout /\ Size(r) \in Nat /\ fill_ptr \in Nat /\ e.body <= fill_ptr
        /\ l.body \in Nat
    BY ReadsBounds, LayoutTypes, Bounds DEF Reads, Within
  <1>2. /\ LineRead(e, r, l) /\ Told(e, r, l, Len(l.header)) /\ e.body = l.body
        /\ WholeRequest(r, l) /\ Len(e.header_array) = Len(l.header)
    BY DEF AllTold, Told
  <1>3. Headers(r, l) /\ EndOfLine(r, LastLine(l), l.body)
    BY <1>2 DEF WholeRequest
  <1>4. LastLine(l) = LineAt(l, Len(e.header_array) + 1) /\ LastLine(l) \in Nat
    <2>1. Len(l.header) \in Nat /\ \A i \in 1 .. Len(l.header) + 1 : LineAt(l, i) \in Nat
      BY <1>1, HeaderOfLayout
    <2>2. LineAt(l, Len(l.header) + 1) \in Nat
      BY <2>1
    <2> QED
      BY <1>2, <2>2 DEF LastLine
  <1>5. LastLine(l) <= l.body /\ l.body <= Size(r)
    BY <1>1, <1>3, <1>4 DEF EndOfLine
  <1>6. LastLine(l) <= fill_ptr /\ LastLine(l) <= Size(r) /\ LastLine(l) <= e.body
    BY <1>1, <1>2, <1>4, <1>5
  <1> HIDE DEF r, l
  <1>7. Told(e, r, l, Len(e.header_array))
    BY <1>2
  <1>8. /\ LineAt(l, Len(e.header_array) + 1) <= fill_ptr
        /\ LineAt(l, Len(e.header_array) + 1) <= Size(r)
        /\ LineAt(l, Len(e.header_array) + 1) <= e.body
    BY <1>4, <1>6
  <1> USE DEF r, l
  <1> QED
    BY <1>2, <1>3, <1>7, <1>8, HeadersSpelt

(* The places of the chunks, and how much content they leave.              *)
LEMMA ChunksOrder ==
  ASSUME NEW r, NEW l, l \in Layout, Chunks(r, l)
  PROVE  /\ Len(l.chunk) \in Nat /\ Len(l.chunk) > 0 /\ DOMAIN l.chunk = 1 .. Len(l.chunk)
         /\ \A i \in 1 .. Len(l.chunk) :
              /\ l.chunk[i].at \in Nat /\ l.chunk[i].data \in Nat
              /\ l.chunk[i].len \in Nat /\ l.chunk[i].off \in Nat
              /\ l.chunk[i].at < l.chunk[i].data /\ l.chunk[i].data <= Size(r)
              /\ l.chunk[i].len = 0 <=> i = Len(l.chunk)
              /\ i < Len(l.chunk) =>
                   /\ l.chunk[i].data + l.chunk[i].len < l.chunk[i + 1].at
                   /\ l.chunk[i + 1].off = l.chunk[i].off + l.chunk[i].len
         /\ Len(l.chunk) > 1 => LastChunk(l).off > 0
         /\ Len(l.content) = LastChunk(l).off
  <1> DEFINE n == Len(l.chunk)
             C == [at : Nat, data : Nat, len : Nat, off : Nat]
  <1>1. n \in Nat /\ n > 0 /\ DOMAIN l.chunk = 1 .. n
    <2>1. l.chunk \in Seq(C) /\ Len(l.chunk) > 0
      BY LayoutTypes DEF Chunks
    <2> QED
      BY <2>1
  <1>2. ASSUME NEW i \in 1 .. n
        PROVE  /\ l.chunk[i].at \in Nat /\ l.chunk[i].data \in Nat
               /\ l.chunk[i].len \in Nat /\ l.chunk[i].off \in Nat
               /\ l.chunk[i].at < l.chunk[i].data /\ l.chunk[i].data <= Size(r)
    <2>1. /\ l.chunk[i].at \in Nat /\ l.chunk[i].data \in Nat
          /\ l.chunk[i].len \in Nat /\ l.chunk[i].off \in Nat
      BY <1>1, ChunkTypes
    <2>2. EndOfLine(r, l.chunk[i].at + 1, l.chunk[i].data)
      BY <1>1 DEF Chunks, IsChunk
    <2> QED
      BY <2>1, <2>2 DEF EndOfLine
  <1>3. ASSUME NEW i \in 1 .. n, i < n
        PROVE  /\ l.chunk[i].data + l.chunk[i].len < l.chunk[i + 1].at /\ l.chunk[i].len > 0
               /\ l.chunk[i + 1].off = l.chunk[i].off + l.chunk[i].len
    <2>1. i \in 1 .. n - 1 /\ i + 1 \in 1 .. n
      BY <1>1, <1>3
    <2>2. /\ l.chunk[i].len > 0
          /\ EndOfLine(r, l.chunk[i].data + l.chunk[i].len, l.chunk[i + 1].at)
          /\ l.chunk[i + 1].off = l.chunk[i].off + l.chunk[i].len
      BY <2>1 DEF Chunks, ChunkData
    <2>3. l.chunk[i].data \in Nat /\ l.chunk[i].len \in Nat /\ l.chunk[i + 1].at \in Nat
      BY <1>2, <2>1
    <2> QED
      BY <2>2, <2>3 DEF EndOfLine
  <1>4. l.chunk[n].len = 0 /\ Len(l.content) = LastChunk(l).off
    BY DEF Chunks, LastChunk
  <1>5. n > 1 => LastChunk(l).off > 0
    <2> SUFFICES ASSUME n > 1 PROVE LastChunk(l).off > 0
      OBVIOUS
    <2>1. n - 1 \in 1 .. n /\ n - 1 < n /\ (n - 1) + 1 = n
      BY <1>1
    <2>2. /\ l.chunk[n - 1].len > 0 /\ l.chunk[n].off = l.chunk[n - 1].off + l.chunk[n - 1].len
          /\ l.chunk[n - 1].len \in Nat /\ l.chunk[n - 1].off \in Nat
      BY <1>2, <1>3, <2>1
    <2> QED
      BY <2>2 DEF LastChunk
  <1>6. ASSUME NEW i \in 1 .. n
        PROVE  /\ l.chunk[i].len = 0 <=> i = n
               /\ i < n => /\ l.chunk[i].data + l.chunk[i].len < l.chunk[i + 1].at
                           /\ l.chunk[i + 1].off = l.chunk[i].off + l.chunk[i].len
    <2>1. i = n \/ i < n
      BY <1>1
    <2>2. CASE i = n
      BY <1>1, <1>4, <2>2
    <2>3. CASE i < n
      BY <1>1, <1>3, <2>3
    <2> QED
      BY <2>1, <2>2, <2>3
  <1> QED
    BY <1>1, <1>2, <1>4, <1>5, <1>6

(* At the last chunk the content has been gathered, and the connection is
   about to close. *)
LEMMA BodySpelt ==
  ASSUME Reads, InChunk(e, This, This.layout, Len(This.layout.chunk))
  PROVE  /\ Text([ptr |-> e.body, len |-> e.content_length]) = This.layout.content
         /\ e.body = This.layout.body /\ e.body # -1
         /\ e.keepalive = -1 /\ Index = Len(conversation)
         /\ This.outcome = Outcome(This, This.layout)
  <1> DEFINE r == This
             l == This.layout
             n == LastChunk(l).off
  <1>1. /\ l \in Layout /\ AllTold(e, r, l) /\ Chunks(r, l) /\ WholeRequest(r, l)
        /\ e.chunked_body_end = l.body + n /\ e.content_length = n /\ e.body = l.body
        /\ l.body \in Nat /\ l.content \in Seq(Symbols)
    BY ReadsBounds, LayoutTypes DEF InChunk, AllTold, LastChunk
  <1>2. n \in Nat /\ Len(l.content) = n
    <2>1. /\ Len(l.chunk) \in Nat /\ Len(l.chunk) > 0 /\ Len(l.content) = n
          /\ \A i \in 1 .. Len(l.chunk) : l.chunk[i].off \in Nat
      BY <1>1, ChunksOrder
    <2> QED
      BY <2>1 DEF LastChunk
  <1>3. \A j \in 1 .. n : mem[e.body + j - 1] = l.content[j]
    <2>1. e.chunked_body_end # -1 /\ e.chunked_body_end - e.body = n
      BY <1>1, <1>2
    <2> QED
      BY <2>1 DEF Reads, ReadInv, Buffered, Gathered
  <1>4. Text([ptr |-> e.body, len |-> e.content_length]) = l.content
    <2>1. Text([ptr |-> e.body, len |-> e.content_length]) = [j \in 1 .. n |-> mem[e.body + j - 1]]
      BY <1>1 DEF Text
    <2>2. l.content = [j \in 1 .. n |-> l.content[j]]
      BY <1>1, <1>2
    <2> HIDE DEF n
    <2> QED
      BY <1>3, <2>1, <2>2
  <1>5. e.keepalive = -1 /\ Index = Len(conversation)
    <2>1. Closes(r, l) /\ Index = Len(conversation)
      BY <1>1 DEF Reads, Expects
    <2>2. Told(e, r, l, Len(l.header)) /\ DOMAIN l.header = 1 .. Len(l.header)
      BY <1>1, HeaderOfLayout DEF AllTold
    <2> QED
      BY <2>1, <2>2 DEF Told, Closes
  <1> QED
    BY <1>1, <1>4, <1>5 DEF WholeRequest

(* The trailer: it is recognised, and the request is complete with it.     *)
LastStored(now) ==
  [now EXCEPT !.header_array = Append(@, [name |-> now.name, value |-> now.value])]

(* The header behind the chunks is recognised as the trailer. *)
LEMMA TrailerKnown ==
  ASSUME Reads, InTrailer(e, This, This.layout), NEW h, h = This.layout.trailer[1],
         NEW name, name = Slice(This, h.name), NEW value, NEW v \in Token,
         NEW now, now = Taken(e, name, value, v)
  PROVE  /\ IsTrailer(now, name)
         /\ now.keepalive = -1 /\ now.content_length = e.content_length
  <1> DEFINE r == This
             l == This.layout
  <1>1. /\ l \in Layout /\ e \in Env /\ AllTold(e, r, l) /\ Chunks(r, l)
        /\ InChunk(e, r, l, Len(l.chunk)) /\ l.trailer # <<>>
        /\ e.content_length = LastChunk(l).off
    BY ReadsBounds DEF InTrailer, InChunk, LastChunk
  <1>2. /\ Len(l.chunk) > 1 /\ name \notin Concerns
        /\ \E i \in DOMAIN l.header : Named(r, l.header[i], "Trailer")
        /\ \A i \in DOMAIN l.header :
             Named(r, l.header[i], "Trailer") => Slice(r, l.header[i].value) = name
    BY <1>1 DEF Chunks, Trailers
  <1>3. LastChunk(l).off > 0
    BY <1>1, <1>2, ChunksOrder
  <1>4. /\ name # <<"Content-Length">> /\ name # <<"Transfer-Encoding">> /\ name # <<"Trailer">>
        /\ name # <<"Connection">>
    BY <1>2 DEF Concerns
  <1>5. /\ now.content_length = e.content_length /\ now.chunked = e.chunked
        /\ now.TRAILER = e.TRAILER /\ now.keepalive = e.keepalive
    <2>1. HeaderSets(now, e, name, value, v)
      BY <1>1, TakenFields
    <2>2. e.chunked \in BOOLEAN
      BY <1>1 DEF Env
    <2> QED
      BY <1>4, <2>1, <2>2 DEF HeaderSets
  <1>6. /\ Told(e, r, l, Len(l.header)) /\ Headers(r, l)
        /\ DOMAIN l.header = 1 .. Len(l.header) /\ \A i \in DOMAIN l.header : l.header[i] \in Header
    BY <1>1, HeaderOfLayout DEF AllTold, WholeRequest
  <1>7. now.chunked
    <2>1. l.chunked /\ Agrees(r, l)
      BY <1>1, <1>6 DEF Chunks, Headers
    <2> QED
      BY <1>5, <1>6, <2>1 DEF Told, Agrees
  <1>8. PICK j \in DOMAIN l.header :
          Named(r, l.header[j], "Trailer") /\ e.TRAILER = Tok(l.header[j].value)
    BY <1>2, <1>6 DEF Told
  <1>9. Text(now.TRAILER) = name
    <2>1. Text(e.header_array[j].value) = Slice(r, l.header[j].value)
      BY <1>1, <1>6, AllToldSpelt
    <2>2. e.header_array[j].value = Tok(l.header[j].value)
      <3>1. e.header_array[j] = [name |-> Tok(l.header[j].name), value |-> Tok(l.header[j].value)]
        BY <1>6, <1>8 DEF Told
      <3> QED
        BY <3>1
    <2> QED
      BY <1>2, <1>5, <1>8, <2>1, <2>2
  <1>10. now.TRAILER.len > 0
    <2>1. HeaderAt(r, l.header[j], LineAt(l, j))
      BY <1>6, <1>8 DEF Headers
    <2>2. /\ l.header[j].value.from \in Nat /\ l.header[j].value.to \in Nat
          /\ l.header[j].value.from < l.header[j].value.to
      BY <1>6, <2>1, HeaderTypes DEF HeaderAt
    <2> QED
      BY <1>5, <1>8, <2>2 DEF Tok
  <1> QED
    BY <1>1, <1>3, <1>5, <1>7, <1>9, <1>10, BodySpelt DEF IsTrailer

(* The environment with the trailer stored. *)
LastStoredHas(env, now, slot) ==
  /\ env.header_array = Append(now.header_array, slot)
  /\ env.keepalive = now.keepalive /\ env.content_length = now.content_length
  /\ env.method = now.method /\ env.URI = now.URI /\ env.version = now.version
  /\ env.body = now.body

LEMMA LastStoredFields ==
  ASSUME NEW now \in Env, NEW slot, slot = [name |-> now.name, value |-> now.value]
  PROVE  LastStored(now) \in Env /\ LastStoredHas(LastStored(now), now, slot)
  <1> DEFINE S == [name : Token, value : Token]
             array == Append(now.header_array, slot)
             env == LastStored(now)
  <1>1. env = [now EXCEPT !["header_array"] = array]
    BY DEF LastStored
  <1>2. {"header_array", "keepalive", "content_length", "method", "URI", "version", "body"}
          \subseteq DOMAIN now
    BY EnvHasFields DEF LineFields, HeaderFields
  <1>3. array \in Seq(S)
    <2>1. now.header_array \in Seq(S) /\ slot \in S
      BY DEF Env
    <2> HIDE DEF S
    <2> QED
      BY <2>1
  <1>4. env \in Env
    <2>1. env = [now EXCEPT !.header_array = array]
      BY <1>1
    <2> HIDE DEF array, env
    <2> QED
      BY <1>3, <2>1 DEF Env
  <1> HIDE DEF array, env
  <1>5. env.header_array = array /\ \A f \in DOMAIN now : f # "header_array" => env[f] = now[f]
    BY <1>1, <1>2, OneField
  <1> QED
    BY <1>2, <1>4, <1>5 DEF array, env, LastStoredHas

(* What a sequence of one element adds to another. *)
LEMMA ConcatOne ==
  ASSUME NEW S, NEW a \in Seq(S), NEW b \in Seq(S), Len(b) = 1
  PROVE  /\ Len(a) \in Nat /\ a \o b \in Seq(S) /\ Len(a \o b) = Len(a) + 1
         /\ \A j \in 1 .. Len(a) : (a \o b)[j] = a[j]
         /\ (a \o b)[Len(a) + 1] = b[1]
  <1>1. Len(a) \in Nat
    OBVIOUS
  <1>2. /\ a \o b \in Seq(S) /\ Len(a \o b) = Len(a) + Len(b)
        /\ \A j \in 1 .. Len(a) + Len(b) :
             (a \o b)[j] = IF j <= Len(a) THEN a[j] ELSE b[j - Len(a)]
    BY ConcatProperties
  <1>3. \A j \in 1 .. Len(a) : (a \o b)[j] = a[j]
    BY <1>1, <1>2
  <1>4. (a \o b)[Len(a) + 1] = b[1]
    <2>1. (a \o b)[Len(a) + 1] = b[(Len(a) + 1) - Len(a)]
      BY <1>1, <1>2
    <2>2. (Len(a) + 1) - Len(a) = 1
      BY <1>1
    <2> QED
      BY <2>1, <2>2
  <1> QED
    BY <1>1, <1>2, <1>3, <1>4

(* The headers of a request with a trailer. *)
LEMMA WithTrailer ==
  ASSUME NEW l \in Layout, Len(l.trailer) = 1, NEW n, n = Len(l.header)
  PROVE  /\ n \in Nat /\ DOMAIN AllHeaders(l) = 1 .. n + 1
         /\ \A j \in 1 .. n : AllHeaders(l)[j] = l.header[j]
         /\ AllHeaders(l)[n + 1] = l.trailer[1]
  <1> DEFINE a == l.header
             b == l.trailer
  <1>1. a \in Seq(Header) /\ b \in Seq(Header) /\ Len(b) = 1 /\ n = Len(a)
    BY LayoutTypes
  <1>2. AllHeaders(l) = a \o b
    BY DEF AllHeaders
  <1> HIDE DEF a, b
  <1>3. /\ n \in Nat /\ a \o b \in Seq(Header) /\ Len(a \o b) = n + 1
        /\ \A j \in 1 .. n : (a \o b)[j] = a[j]
        /\ (a \o b)[n + 1] = b[1]
    BY <1>1, ConcatOne
  <1>4. DOMAIN (a \o b) = 1 .. n + 1
    BY <1>3
  <1> QED
    BY <1>2, <1>3, <1>4 DEF a, b

(* A request is complete with its trailer. *)
LEMMA TrailerRead ==
  ASSUME Reads, InTrailer(e, This, This.layout), NEW STATE h, h = This.layout.trailer[1],
         h \in Header, HeaderAt(This, h, LastChunk(This.layout).data),
         e.name = Tok(h.name), h.next <= fill_ptr,
         NEW STATE now, now = Taken(e, Slice(This, h.name), Slice(This, h.value), Tok(h.value)),
         NEW STATE at, Complete(LastStored(now), at, TRUE)
  PROVE  ReadInv'
  <1> DEFINE r == This
             l == This.layout
             env == LastStored(now)
             slot == [name |-> Tok(h.name), value |-> Tok(h.value)]
             n == Len(l.header)
             S == [name : Token, value : Token]
  <1> HIDE DEF env, slot, S
  <1>1. /\ l \in Layout /\ e \in Env /\ AllTold(e, r, l) /\ InChunk(e, r, l, Len(l.chunk))
        /\ Chunks(r, l) /\ l.trailer # <<>> /\ e.chunked_body_end <= LastChunk(l).data
        /\ LastChunk(l).data \in Nat
    <2>1. /\ l \in Layout /\ e \in Env /\ AllTold(e, r, l) /\ InChunk(e, r, l, Len(l.chunk))
          /\ Chunks(r, l) /\ l.trailer # <<>> /\ e.chunked_body_end <= LastChunk(l).data
      BY ReadsBounds DEF InTrailer, InChunk
    <2>2. LastChunk(l).data \in Nat
      <3>1. /\ Len(l.chunk) \in Nat /\ Len(l.chunk) > 0
            /\ \A i \in 1 .. Len(l.chunk) : l.chunk[i].data \in Nat
        BY <2>1, ChunksOrder
      <3> QED
        BY <3>1 DEF LastChunk
    <2> QED
      BY <2>1, <2>2
  <1>2. /\ Tok(h.name) \in Token /\ Tok(h.value) \in Token
        /\ h.name.from \in Nat /\ h.name.to \in Nat /\ h.value.from \in Nat /\ h.value.to \in Nat
        /\ h.name.from <= h.name.to /\ h.value.from <= h.value.to
        /\ h.name.to <= fill_ptr /\ h.value.to <= fill_ptr
        /\ h.name.to <= Size(r) /\ h.value.to <= Size(r)
        /\ e.chunked_body_end <= h.name.from /\ e.chunked_body_end <= h.value.from
    <2>1. /\ h.name.from \in Nat /\ h.name.to \in Nat /\ h.value.from \in Nat
          /\ h.value.to \in Nat /\ h.next \in Nat
      BY HeaderTypes
    <2>2. /\ h.name.from = LastChunk(l).data /\ LastChunk(l).data < h.name.to
          /\ h.name.to < h.value.from /\ h.value.from < h.value.to /\ h.value.to < h.next
          /\ h.next <= Size(r) /\ Tok(h.name) \in Token /\ Tok(h.value) \in Token
      <3>1. LastChunk(l).data \in Nat /\ HeaderAt(r, h, LastChunk(l).data)
        BY <1>1
      <3> HIDE DEF r, l
      <3> QED
        BY <3>1, HeaderOrder
    <2>3. Size(r) \in Nat /\ fill_ptr \in Nat /\ e.chunked_body_end \in Int
      BY ReadsBounds
    <2>4. e.chunked_body_end <= LastChunk(l).data /\ LastChunk(l).data \in Nat
      BY <1>1
    <2> HIDE DEF r, l
    <2> QED
      BY <2>1, <2>2, <2>3, <2>4
  <1>3. now.keepalive = -1 /\ now.content_length = e.content_length
    BY <1>2, TrailerKnown
  <1>4. /\ now.value = Tok(h.value) /\ now \in Env /\ DOMAIN now = DOMAIN e
        /\ \A f \in DOMAIN e :
             f \notin {"content_length", "chunked", "TRAILER", "keepalive", "value"} => now[f] = e[f]
    <2>1. e \in Env /\ Tok(h.value) \in Token
      BY <1>1, <1>2
    <2> HIDE DEF r, l
    <2> QED
      BY <2>1, TakenFields
  <1>5. /\ now.name = Tok(h.name) /\ now.header_array = e.header_array
        /\ now.method = e.method /\ now.URI = e.URI /\ now.version = e.version /\ now.body = e.body
    <2>1. {"name", "header_array", "method", "URI", "version", "body"} \subseteq DOMAIN e
      BY <1>1, EnvHasFields DEF LineFields, HeaderFields
    <2> QED
      BY <1>4, <2>1
  <1>6. /\ env.header_array = Append(e.header_array, slot) /\ env \in Env
        /\ env.keepalive = -1 /\ env.content_length = e.content_length
        /\ env.method = e.method /\ env.URI = e.URI /\ env.version = e.version /\ env.body = e.body
    <2>1. env = LastStored(now) /\ slot = [name |-> now.name, value |-> now.value]
      BY <1>4, <1>5 DEF env, slot
    <2>2. /\ env.header_array = Append(now.header_array, slot) /\ env \in Env
          /\ env.keepalive = now.keepalive /\ env.content_length = now.content_length
          /\ env.method = now.method /\ env.URI = now.URI /\ env.version = now.version
          /\ env.body = now.body
      <3>1. now \in Env
        BY <1>4
      <3>2. env \in Env /\ LastStoredHas(env, now, slot)
        BY <2>1, <3>1, LastStoredFields
      <3> QED
        BY <3>2 DEF LastStoredHas
    <2> QED
      BY <1>3, <1>5, <2>2
  <1>7. /\ Text(e.URI) = Slice(r, l.uri) /\ Len(e.header_array) = n
        /\ \A j \in 1 .. n :
             /\ j \in DOMAIN l.header
             /\ Text(e.header_array[j].name) = Slice(r, l.header[j].name)
             /\ Text(e.header_array[j].value) = Slice(r, l.header[j].value)
    BY <1>1, AllToldSpelt
  <1>8. Text(slot.name) = Slice(r, h.name) /\ Text(slot.value) = Slice(r, h.value)
    <2>1. Text(Tok(h.name)) = Slice(r, h.name)
      <3>1. Tok(h.name).ptr = h.name.from /\ Tok(h.name).len = h.name.to - h.name.from
        BY DEF Tok
      <3> QED
        BY <1>2, <3>1, Spelt
    <2>2. Text(Tok(h.value)) = Slice(r, h.value)
      <3>1. Tok(h.value).ptr = h.value.from /\ Tok(h.value).len = h.value.to - h.value.from
        BY DEF Tok
      <3> QED
        BY <1>2, <3>1, Spelt
    <2> QED
      BY <2>1, <2>2 DEF slot
  <1>9. /\ n \in Nat /\ DOMAIN AllHeaders(l) = 1 .. n + 1
        /\ \A j \in 1 .. n : AllHeaders(l)[j] = l.header[j]
        /\ AllHeaders(l)[n + 1] = h
    <2>1. Len(l.trailer) = 1
      BY <1>1 DEF Chunks, Trailers
    <2> QED
      BY <1>1, <2>1, WithTrailer
  <1>10. /\ DOMAIN env.header_array = 1 .. n + 1 /\ env.header_array[n + 1] = slot
         /\ \A j \in 1 .. n : env.header_array[j] = e.header_array[j]
    <2>1. e.header_array \in Seq(S) /\ slot \in S
      BY <1>1, <1>2 DEF Env, S, slot
    <2>2. env.header_array \in Seq(S) /\ Len(env.header_array) = n + 1
      BY <1>6, <1>7, <1>9, <2>1
    <2>3. DOMAIN env.header_array = 1 .. n + 1
      BY <2>2
    <2>4. /\ Append(e.header_array, slot)[n + 1] = slot
          /\ \A j \in 1 .. n : Append(e.header_array, slot)[j] = e.header_array[j]
      BY <1>7, <2>1, AppendIs
    <2> QED
      BY <1>6, <2>3, <2>4
  <1>11. \A i \in DOMAIN AllHeaders(l) :
           /\ Text(env.header_array[i].name) = Slice(r, AllHeaders(l)[i].name)
           /\ Text(env.header_array[i].value) = Slice(r, AllHeaders(l)[i].value)
    <2> SUFFICES ASSUME NEW i \in DOMAIN AllHeaders(l)
                 PROVE  /\ Text(env.header_array[i].name) = Slice(r, AllHeaders(l)[i].name)
                        /\ Text(env.header_array[i].value) = Slice(r, AllHeaders(l)[i].value)
      OBVIOUS
    <2>1. i \in 1 .. n \/ i = n + 1
      BY <1>9
    <2>2. CASE i \in 1 .. n
      BY <1>7, <1>9, <1>10, <2>2
    <2>3. CASE i = n + 1
      BY <1>8, <1>9, <1>10, <2>3
    <2> QED
      BY <2>1, <2>2, <2>3
  <1>12. /\ Text([ptr |-> e.body, len |-> e.content_length]) = l.content /\ e.body # -1
         /\ Index = Len(conversation) /\ r.outcome = Outcome(r, l)
    BY <1>1, BodySpelt
  <1>13. Request(env, mem) = Outcome(r, l)
    <2> HIDE DEF r, l
    <2>1. env.method = MethodOf(r, l) /\ env.version = VersionOf(Slice(r, l.version))
      BY <1>1, <1>6 DEF AllTold, LineRead
    <2>2. /\ Text(env.URI) = Slice(r, l.uri) /\ DOMAIN env.header_array = DOMAIN AllHeaders(l)
          /\ env.body # -1 /\ Text([ptr |-> env.body, len |-> env.content_length]) = l.content
      BY <1>6, <1>7, <1>9, <1>10, <1>12
    <2> HIDE <1>1, <1>2, <1>3, <1>4, <1>5, <1>6, <1>7, <1>8, <1>9, <1>10, <1>12
    <2> QED
      BY <1>11, <2>1, <2>2, RequestIs
  <1>14. Complete(env, at, TRUE)
    BY DEF env
  <1> QED
    BY <1>6, <1>12, <1>13, <1>14, CompletesLast

(* HEADER_VALUE: one more header, or the trailer. *)
LEMMA HeaderValueEndsReads ==
  ASSUME Reads, HeaderValueEnds PROVE ReadInv'
  <1> DEFINE r == This
             l == This.layout
             at == LineStart(e, l)
             h == Current(e, l)
             x == h.next - 1
             Now(end) == Taken(e, Text(e.name), Text(To(e.value, end)), To(e.value, end))
  <1>1. /\ e.parse_step = "HEADER_VALUE" /\ InLines(e, r, l) /\ HeaderAt(r, h, at)
        /\ e.name = Tok(h.name) /\ e.value.ptr = h.value.from
        /\ h.value.from < p /\ p < h.next
    BY ReadsBounds, StandingAt DEF HeaderValueEnds, Parsing, AtValue
  <1>2. /\ l \in Layout /\ Written(r, l) /\ fill_ptr \in Nat /\ Size(r) \in Nat /\ e \in Env
        /\ p \in Nat /\ p <= fill_ptr /\ e.chunked_body_end \in Int
    BY ReadsBounds
  <1>3. at \in Nat /\ e.chunked_body_end <= at
    BY <1>1, <1>2, LineCases
  <1>4. h \in Header
    <2>1. BlankLine(e, r, l) => h \in Header
      <3> SUFFICES ASSUME BlankLine(e, r, l) PROVE h \in Header
        OBVIOUS
      <3>1. h = l.broken /\ l.broken \in Header
        BY <1>2, HeadersDone, LayoutTypes DEF Current, BlankLine
      <3> QED
        BY <3>1
    <2> QED
      BY <1>1, <1>2, <2>1, LineCases
  <1>5. /\ h.name.from \in Nat /\ h.name.to \in Nat /\ h.value.from \in Nat
        /\ h.value.to \in Nat /\ h.next \in Nat
    BY <1>4, HeaderTypes
  <1>6. /\ h.name.from = at /\ at < h.name.to /\ h.name.to < h.value.from
        /\ h.value.from < h.value.to /\ h.value.to < h.next /\ h.next <= Size(r)
        /\ Tok(h.name) \in Token /\ Tok(h.value) \in Token
    <2> HIDE DEF r, l, at, h
    <2> QED
      BY <1>1, <1>3, <1>4, HeaderOrder
  <1>7. /\ Free(r, h.value.from, x, {NL}) /\ Byte(r, x) = NL
        /\ Byte(r, h.value.to - 1) \notin {SP, CR} /\ Only(r, h.value.to, x, {SP, CR})
    BY <1>1 DEF HeaderAt
  <1>8. AHeader(e, r, l)
    <2>1. ~BlankLine(e, r, l)
      <3>1. Byte(r, at) \notin {CR, NL}
        BY <1>1, <1>3, <1>5, <1>6 DEF HeaderAt, NameAt, Free
      <3> QED
        BY <3>1 DEF BlankLine, EndOfLine
    <2>2. ~(Broken(e, r, l) /\ ColonMissing(r, l))
      <3>1. Byte(r, h.name.to) = Colon /\ Colon # NL
        BY <1>1 DEF HeaderAt, NameAt, Colon, NL
      <3> QED
        BY <3>1 DEF Broken, ColonMissing
    <2>3. ~(Broken(e, r, l) /\ ValueMissing(r, l))
      <3>1. Byte(r, h.value.from) # NL
        BY <1>5, <1>6, <1>7 DEF Free
      <3> QED
        BY <3>1 DEF Broken, ValueMissing
    <2> QED
      BY <1>1, <1>2, <2>1, <2>2, <2>3, LineCases
  <1>9. PICK q \in p .. fill_ptr : \E end \in 0 .. q :
          /\ Stops(q, p, {NL}) /\ EndsAt(end, q)
          /\ \/ q = fill_ptr /\ NeedMore(q) /\ UNCHANGED e
             \/ /\ q < fill_ptr /\ IsTrailer(Now(end), Text(e.name))
                /\ Complete(LastStored(Now(end)), q + 1, TRUE)
             \/ /\ q < fill_ptr /\ ~IsTrailer(Now(end), Text(e.name))
                /\ GoOn(NextLine(Now(end)), q + 1)
    BY DEF HeaderValueEnds, Taken, LastStored, NextLine
  <1>10. PICK end \in 0 .. q :
          /\ Stops(q, p, {NL}) /\ EndsAt(end, q)
          /\ \/ q = fill_ptr /\ NeedMore(q) /\ UNCHANGED e
             \/ /\ q < fill_ptr /\ IsTrailer(Now(end), Text(e.name))
                /\ Complete(LastStored(Now(end)), q + 1, TRUE)
             \/ /\ q < fill_ptr /\ ~IsTrailer(Now(end), Text(e.name))
                /\ GoOn(NextLine(Now(end)), q + 1)
    BY <1>9
  <1>11. /\ q = fill_ptr => fill_ptr <= x /\ fill_ptr < Size(r)
         /\ q < fill_ptr => q = x
    <2>1. \A s \in p .. x - 1 : Byte(r, s) \notin {NL}
      BY <1>1, <1>2, <1>5, <1>7 DEF Free
    <2>2. e.chunked_body_end <= p /\ x \in Nat /\ p <= x /\ x < Size(r)
      <3> HIDE DEF Now, r, l, at, h
      <3> QED
        BY <1>1, <1>2, <1>3, <1>5, <1>6
    <2>3. {NL} \in SUBSET Symbols
      BY ParserAssumption
    <2> HIDE DEF x, Now
    <2> QED
      BY <1>7, <1>10, <2>1, <2>2, <2>3, ScanStops
  <1>12. CASE q = fill_ptr /\ NeedMore(q) /\ UNCHANGED e
    <2>1. Standing(e, fill_ptr, r, l)
      <3>1. h.value.from < fill_ptr /\ fill_ptr < h.next
        BY <1>1, <1>2, <1>5, <1>11, <1>12
      <3> HIDE DEF r, l, at, h, x, Now
      <3>2. AtValue(e, fill_ptr, r, l)
        BY <1>1, <3>1 DEF AtValue, at, h
      <3> QED
        BY <1>1, <3>2 DEF Standing
    <2> QED
      BY <1>2, <1>11, <1>12, <2>1, NeedMoreReads
  <1>13. ASSUME q < fill_ptr
         PROVE  q + 1 = h.next /\ Now(end) =
                  Taken(e, Slice(r, h.name), Slice(r, h.value), Tok(h.value))
    <2>1. q = x /\ q + 1 = h.next /\ h.next <= fill_ptr
      BY <1>2, <1>5, <1>11, <1>13
    <2>2. \A s \in Nat : at <= s /\ s <= x => mem[s] = Byte(r, s)
      <3> SUFFICES ASSUME NEW s \in Nat, at <= s, s <= x PROVE mem[s] = Byte(r, s)
        OBVIOUS
      <3>1. s < fill_ptr /\ s < Size(r) /\ e.chunked_body_end <= s
        BY <1>2, <1>3, <1>5, <1>6, <2>1
      <3> QED
        BY <3>1, Sees
    <2>3. end = h.value.to
      <3>1. ASSUME end < h.value.to PROVE FALSE
        <4>1. h.value.to - 1 \in end .. q - 1 /\ h.value.to - 1 \in Nat
              /\ at <= h.value.to - 1 /\ h.value.to - 1 <= x
          BY <1>2, <1>3, <1>5, <1>6, <2>1, <3>1
        <4>2. mem[h.value.to - 1] \in {SP, CR}
          BY <1>10, <4>1 DEF EndsAt
        <4> QED
          BY <1>7, <2>2, <4>1, <4>2
      <3>2. ASSUME end > h.value.to PROVE FALSE
        <4>1. end > 0 /\ end - 1 \in h.value.to .. x - 1 /\ end - 1 \in Nat
              /\ at <= end - 1 /\ end - 1 <= x
          BY <1>2, <1>3, <1>5, <1>6, <2>1, <3>2
        <4>2. mem[end - 1] \notin {SP, CR}
          BY <1>10, <4>1 DEF EndsAt
        <4>3. Byte(r, end - 1) \in {SP, CR}
          BY <1>7, <4>1 DEF Only
        <4> QED
          BY <2>2, <4>1, <4>2, <4>3
      <3>3. end \in Nat
        BY <1>2
      <3> QED
        BY <1>5, <3>1, <3>2, <3>3
    <2>4. To(e.value, end) = Tok(h.value)
      BY <1>1, <2>3 DEF To, Tok
    <2>5. Text(e.name) = Slice(r, h.name)
      <3>1. /\ Tok(h.name).ptr = h.name.from /\ Tok(h.name).len = h.name.to - h.name.from
            /\ h.name.from <= h.name.to /\ h.name.to <= fill_ptr /\ h.name.to <= Size(r)
            /\ e.chunked_body_end <= h.name.from
        BY <1>2, <1>3, <1>5, <1>6, <2>1 DEF Tok
      <3> HIDE DEF h
      <3> QED
        BY <1>1, <1>5, <3>1, Spelt
    <2>6. Text(Tok(h.value)) = Slice(r, h.value)
      <3>1. /\ Tok(h.value).ptr = h.value.from /\ Tok(h.value).len = h.value.to - h.value.from
            /\ h.value.from <= h.value.to /\ h.value.to <= fill_ptr /\ h.value.to <= Size(r)
            /\ e.chunked_body_end <= h.value.from
        BY <1>2, <1>3, <1>5, <1>6, <2>1 DEF Tok
      <3> HIDE DEF h
      <3> QED
        BY <1>5, <3>1, Spelt
    <2> QED
      BY <2>1, <2>4, <2>5, <2>6
  <1> DEFINE now == Taken(e, Slice(r, h.name), Slice(r, h.value), Tok(h.value))
  <1>14. CASE InHeaders(e, r, l) /\ q < fill_ptr
    <2> DEFINE i == Len(e.header_array)
               new == NextLine(now)
    <2>1. e.body = -1 /\ i < Len(l.header) /\ h = l.header[i + 1] /\ Headers(r, l)
          /\ LineRead(e, r, l)
      <3>1. e.body = -1 /\ Headers(r, l) /\ LineRead(e, r, l)
        BY <1>1, <1>2, <1>14, HeadersOf DEF InHeaders, NoBody, InLines
      <3> QED
        BY <1>8, <3>1 DEF AHeader, Current
    <2>2. /\ ~(now.chunked /\ now.content_length > 0)
          /\ new.parse_step = "HEADER_NAME0" /\ InLines(new, r, l)
          /\ LineStart(new, l) = h.next
          /\ new.body = e.body /\ new.chunked_body_end = e.chunked_body_end
          /\ new.reforming_flag = e.reforming_flag
      <3> HIDE DEF now, new, r, l, h, i, at, x, Now
      <3>1. i = Len(e.header_array) /\ new = NextLine(now)
            /\ now = Taken(e, Slice(r, h.name), Slice(r, h.value), Tok(h.value))
        BY DEF i, new, now
      <3> QED
        BY <1>1, <1>2, <1>14, <2>1, <3>1, HeaderTold, SMTT(30)
    <2>3. GoOn(new, h.next)
      <3>1. Now(end) = now /\ q + 1 = h.next
        BY <1>13, <1>14
      <3>2. ~IsTrailer(now, Text(e.name))
        BY <2>2 DEF IsTrailer
      <3>3. q # fill_ptr
        BY <1>2, <1>14
      <3> HIDE DEF Now, now
      <3>4. GoOn(NextLine(Now(end)), q + 1)
        BY <1>10, <3>1, <3>2, <3>3
      <3> QED
        BY <3>1, <3>4
    <2> HIDE DEF new, now, Now
    <2>4. Standing(new, h.next, r, l)
      <3> HIDE DEF r, l, h
      <3>1. AtName0(new, h.next, r, l)
        BY <2>2 DEF AtName0
      <3> QED
        BY <2>2, <3>1 DEF Standing
    <2> QED
      BY <1>1, <1>2, <1>5, <2>2, <2>3, <2>4, GoOnReads
  <1>15. CASE InTrailer(e, r, l) /\ q < fill_ptr
    <2>1. /\ h = l.trailer[1] /\ at = LastChunk(l).data
      <3>1. e.body = l.body /\ l.body \in Nat
        BY <1>2, <1>15, LayoutTypes DEF InTrailer, InChunk, AllTold
      <3>2. e.body # -1
        BY <3>1
      <3> QED
        BY <3>2 DEF Current, LineStart
    <2>2. Now(end) = now /\ q + 1 = h.next /\ h.next <= fill_ptr /\ Text(e.name) = Slice(r, h.name)
      <3>1. q + 1 = h.next /\ Now(end) = now
        BY <1>13, <1>15
      <3>2. h.next <= fill_ptr
        BY <1>2, <1>15, <3>1
      <3>3. Text(e.name) = Slice(r, h.name)
        <4>1. /\ Tok(h.name).ptr = h.name.from /\ Tok(h.name).len = h.name.to - h.name.from
              /\ h.name.from <= h.name.to /\ h.name.to <= fill_ptr /\ h.name.to <= Size(r)
              /\ e.chunked_body_end <= h.name.from
          BY <1>2, <1>3, <1>5, <1>6, <3>2 DEF Tok
        <4> HIDE DEF h, now, Now
        <4> QED
          BY <1>1, <1>5, <4>1, Spelt
      <3> QED
        BY <3>1, <3>2, <3>3
    <2>3. IsTrailer(now, Slice(r, h.name))
      <3> HIDE DEF h, at, Now, x
      <3> DEFINE name == Slice(r, h.name)
                 value == Slice(r, h.value)
                 v == Tok(h.value)
      <3>1. now = Taken(e, name, value, v) /\ v \in Token
        BY <1>6
      <3> HIDE DEF now, value, v
      <3> QED
        BY <1>15, <2>1, <3>1, TrailerKnown
    <2> HIDE DEF Now
    <2>4. Complete(LastStored(now), q + 1, TRUE)
      <3> HIDE DEF now
      <3>1. q # fill_ptr
        BY <1>2, <1>15
      <3>2. IsTrailer(Now(end), Text(e.name))
        BY <2>2, <2>3
      <3>3. Complete(LastStored(Now(end)), q + 1, TRUE)
        BY <1>10, <3>1, <3>2
      <3> QED
        BY <2>2, <3>3
    <2>5. now = Taken(e, Slice(r, h.name), Slice(r, h.value), Tok(h.value))
      OBVIOUS
    <2> HIDE DEF now, h, at, x
    <2> QED
      BY <1>1, <1>4, <1>15, <2>1, <2>2, <2>4, <2>5, TrailerRead
  <1> QED
    BY <1>1, <1>2, <1>10, <1>12, <1>14, <1>15 DEF InLines

----------------------------------------------------------------------------
(* The body. *)

(* The fields that hold what the start line and the headers said. *)
ToldFields ==
  {"method", "URI", "version", "header_array", "header_array_size", "chunked", "TRAILER",
   "keepalive", "body"}

(* What they said depends on these fields alone. *)
LEMMA AllToldFrame ==
  ASSUME NEW a, NEW b, NEW r, NEW l, \A f \in ToldFields : a[f] = b[f], AllTold(b, r, l)
  PROVE  AllTold(a, r, l)
  <1>1. /\ a.method = b.method /\ a.URI = b.URI /\ a.version = b.version
        /\ a.header_array = b.header_array /\ a.header_array_size = b.header_array_size
        /\ a.chunked = b.chunked /\ a.TRAILER = b.TRAILER /\ a.keepalive = b.keepalive
        /\ a.body = b.body
    BY DEF ToldFields
  <1>2. LineRead(a, r, l) /\ WholeRequest(r, l) /\ a.body = l.body
    BY <1>1 DEF AllTold, LineRead
  <1>3. Told(a, r, l, Len(l.header))
    <2>1. Told(b, r, l, Len(l.header))
      BY DEF AllTold
    <2> QED
      BY <1>1, <2>1 DEF Told
  <1> QED
    BY <1>2, <1>3 DEF AllTold

(* A request with a body and no trailer, as the handlers read it. *)
LEMMA PlainRequestIs ==
  ASSUME Reads, AllTold(e, This, This.layout), This.layout.trailer = <<>>, e.body # -1,
         Text([ptr |-> e.body, len |-> e.content_length]) = This.layout.content
  PROVE  Request(e, mem) = This.outcome
  <1> DEFINE r == This
             l == This.layout
  <1>1. l \in Layout /\ e \in Env /\ LineRead(e, r, l) /\ r.outcome = Outcome(r, l)
    BY ReadsBounds DEF AllTold, WholeRequest
  <1>2. AllHeaders(l) = l.header /\ DOMAIN l.header = 1 .. Len(l.header)
        /\ DOMAIN e.header_array = 1 .. Len(e.header_array)
    <2>1. l.header \in Seq(Header)
      BY <1>1, LayoutTypes
    <2>2. e.header_array \in Seq([name : Token, value : Token])
      BY <1>1 DEF Env
    <2>3. l.header \o <<>> = l.header
      BY <2>1
    <2> QED
      BY <2>1, <2>2, <2>3 DEF AllHeaders
  <1>3. /\ Text(e.URI) = Slice(r, l.uri) /\ Len(e.header_array) = Len(l.header)
        /\ \A j \in 1 .. Len(l.header) :
             /\ Text(e.header_array[j].name) = Slice(r, l.header[j].name)
             /\ Text(e.header_array[j].value) = Slice(r, l.header[j].value)
    BY AllToldSpelt
  <1>4. e.method = MethodOf(r, l) /\ e.version = VersionOf(Slice(r, l.version))
    BY <1>1 DEF LineRead
  <1> HIDE DEF r, l
  <1>5. Request(e, mem) = Outcome(r, l)
    BY <1>2, <1>3, <1>4, RequestIs DEF r, l
  <1> QED
    BY <1>1, <1>5 DEF r

(* BODY: complete once as many bytes have come as the header said. *)
LEMMA BodyReads ==
  ASSUME Reads, Body PROVE ReadInv'
  <1> DEFINE r == This
             l == This.layout
  <1>1. /\ e.parse_step = "BODY" /\ AllTold(e, r, l) /\ Counted(r, l)
        /\ e.chunked_body_end = -1 /\ e.content_length = l.length
    BY ReadsBounds, StandingAt DEF Body, Parsing, AtBody
  <1>2. /\ l \in Layout /\ fill_ptr \in Nat /\ Size(r) \in Nat /\ e \in Env
        /\ l.body \in Nat /\ l.length \in Nat
    BY ReadsBounds, LayoutTypes
  <1>3. /\ e.body = l.body /\ WholeRequest(r, l) /\ e.header_array_size = HeaderArraySize
        /\ Size(r) = l.body + l.length /\ MethodOf(r, l) # "HEAD" /\ l.length > 0
        /\ l.content = Slice(r, [from |-> l.body, to |-> Size(r)])
    BY <1>1 DEF AllTold, Told, Counted
  <1>4. l.trailer = <<>>
    <2>1. ~Chunks(r, l)
      BY <1>2, <1>3, BodyKinds
    <2> QED
      BY <1>3, <2>1 DEF WholeRequest
  <1>5. CASE fill_ptr - e.body >= e.content_length /\ Complete(e, e.body + e.content_length, TRUE)
    <2>1. Size(r) <= fill_ptr /\ e.body + e.content_length = Size(r)
      BY <1>1, <1>2, <1>3, <1>5
    <2>2. Text([ptr |-> e.body, len |-> e.content_length]) = l.content
      <3> DEFINE s == [from |-> l.body, to |-> Size(r)]
                 t == [ptr |-> e.body, len |-> e.content_length]
      <3>1. s.from = l.body /\ s.to = Size(r) /\ t.ptr = s.from /\ t.len = s.to - s.from
        BY <1>1, <1>2, <1>3
      <3> HIDE DEF s, t, l
      <3>2. s.from \in Nat /\ s.to \in Nat /\ s.from <= s.to
        BY <1>2, <1>3, <3>1
      <3>3. s.to <= fill_ptr /\ s.to <= Size(This) /\ e.chunked_body_end <= s.from
        BY <1>1, <1>2, <2>1, <3>1
      <3>4. Text(t) = Slice(This, s)
        BY <3>1, <3>2, <3>3, Spelt
      <3> QED
        BY <1>3, <3>4 DEF s, t
    <2>3. Request(e, mem) = This.outcome
      BY <1>1, <1>2, <1>3, <1>4, <2>2, PlainRequestIs
    <2>4. Complete(e, Size(This), TRUE)
      BY <1>5, <2>1
    <2> QED
      BY <1>1, <1>2, <1>3, <2>1, <2>3, <2>4, CompletesWhole
  <1>6. CASE fill_ptr - e.body < e.content_length /\ NeedMore(fill_ptr) /\ UNCHANGED e
    <2>1. fill_ptr < Size(r)
      BY <1>1, <1>2, <1>3, <1>6
    <2>2. Standing(e, fill_ptr, r, l)
      <3>1. AtBody(e, fill_ptr, r, l)
        BY <1>1 DEF AtBody
      <3> QED
        BY <1>1, <3>1 DEF Standing
    <2> QED
      BY <1>2, <1>6, <2>1, <2>2, NeedMoreReads
  <1> QED
    BY <1>5, <1>6 DEF Body

(* Where the line with a chunk's size stands, and what the parser makes of *)
(* it.                                                                     *)
LEMMA SizeLine ==
  ASSUME Reads, Parsing("CHUNKED_SIZE")
  PROVE  \E i \in 1 .. Len(This.layout.chunk) :
           /\ InChunk(e, This, This.layout, i)
           /\ This.layout.chunk[i].at <= p /\ p < This.layout.chunk[i].data
           /\ e.chunked_length =
                IF p = This.layout.chunk[i].at THEN 0 ELSE This.layout.chunk[i].len
           /\ IsChunk(This, This.layout.chunk[i]) /\ p < Size(This)
           /\ p < fill_ptr => mem[p] = Byte(This, p)
           /\ e.chunked_body_end <= p
  <1> DEFINE r == This
             l == This.layout
  <1>1. PICK i \in DOMAIN l.chunk :
          /\ InChunk(e, r, l, i) /\ l.chunk[i].at <= p /\ p < l.chunk[i].data
          /\ e.chunked_length = IF p = l.chunk[i].at THEN 0 ELSE l.chunk[i].len
    BY ReadsBounds, StandingAt DEF Parsing, AtSize
  <1>2. /\ l \in Layout /\ fill_ptr \in Nat /\ Size(r) \in Nat /\ p \in Nat /\ Chunks(r, l)
    BY <1>1, ReadsBounds DEF InChunk
  <1>3. e.chunked_body_end <= p
    BY DEF Reads, ParserInv, BodyWithin, Parsing
  <1>4. /\ DOMAIN l.chunk = 1 .. Len(l.chunk) /\ l.chunk[i].data <= Size(r)
        /\ l.chunk[i].data \in Nat
    <2>1. /\ DOMAIN l.chunk = 1 .. Len(l.chunk)
          /\ \A j \in 1 .. Len(l.chunk) : l.chunk[j].data <= Size(r) /\ l.chunk[j].data \in Nat
      BY <1>2, ChunksOrder
    <2> QED
      BY <1>1, <2>1
  <1>5. p < Size(r)
    BY <1>1, <1>2, <1>4
  <1>6. p < fill_ptr => mem[p] = Byte(r, p)
    BY <1>2, <1>3, <1>5, Sees
  <1>7. IsChunk(r, l.chunk[i])
    BY <1>1, <1>2 DEF Chunks
  <1> QED
    BY <1>1, <1>3, <1>4, <1>5, <1>6, <1>7

(* CHUNKED_SIZE: a digit, or the CR behind it. *)
LEMMA ChunkedSizeReads ==
  ASSUME Reads, ChunkedSize PROVE ReadInv'
  <1> DEFINE r == This
             l == This.layout
  <1>1. Parsing("CHUNKED_SIZE") /\ e.parse_step = "CHUNKED_SIZE"
    BY DEF ChunkedSize, Parsing
  <1>2. PICK i \in 1 .. Len(l.chunk) :
          /\ InChunk(e, r, l, i)
          /\ l.chunk[i].at <= p /\ p < l.chunk[i].data
          /\ e.chunked_length = IF p = l.chunk[i].at THEN 0 ELSE l.chunk[i].len
          /\ IsChunk(r, l.chunk[i]) /\ p < Size(r)
          /\ p < fill_ptr => mem[p] = Byte(r, p)
          /\ e.chunked_body_end <= p
    BY <1>1, SizeLine
  <1>3. /\ l \in Layout /\ fill_ptr \in Nat /\ Size(r) \in Nat /\ p \in Nat /\ e \in Env
        /\ Chunks(r, l)
    BY <1>2, ReadsBounds DEF InChunk
  <1> DEFINE c == l.chunk[i]
  <1>4. /\ i \in DOMAIN l.chunk /\ c.at \in Nat /\ c.data \in Nat /\ c.len \in Nat
        /\ c.at < c.data
    <2>1. /\ DOMAIN l.chunk = 1 .. Len(l.chunk)
          /\ \A j \in 1 .. Len(l.chunk) : /\ l.chunk[j].at \in Nat /\ l.chunk[j].data \in Nat
                                          /\ l.chunk[j].len \in Nat /\ l.chunk[j].at < l.chunk[j].data
      BY <1>3, ChunksOrder
    <2> QED
      BY <2>1
  <1>5. CASE p = fill_ptr /\ NeedMore(p) /\ UNCHANGED e
    <2>1. Standing(e, p, r, l)
      BY ReadsBounds
    <2> QED
      BY <1>2, <1>3, <1>5, <2>1, NeedMoreReads
  <1>6. CASE /\ p < fill_ptr /\ mem[p] # NL
             /\ GoOn(IF mem[p] \in DOMAIN Number
                     THEN [e EXCEPT !.chunked_length = @ * 10 + Number[mem[p]]] ELSE e, p + 1)
    <2> DEFINE env == IF mem[p] \in DOMAIN Number
                      THEN [e EXCEPT !.chunked_length = @ * 10 + Number[mem[p]]] ELSE e
    <2>1. /\ Byte(r, c.at) \in DOMAIN Number /\ Number[Byte(r, c.at)] = c.len
          /\ \/ Byte(r, c.at + 1) = NL /\ c.data = c.at + 2
             \/ Byte(r, c.at + 1) = CR /\ Byte(r, c.at + 2) = NL /\ c.data = c.at + 3
      <3>1. /\ Byte(r, c.at) \in DOMAIN Number /\ Number[Byte(r, c.at)] = c.len
            /\ EndOfLine(r, c.at + 1, c.data)
        BY <1>2 DEF IsChunk
      <3>2. /\ (c.at + 1) + 1 = c.at + 2 /\ (c.at + 1) + 2 = c.at + 3
        BY <1>4
      <3> HIDE DEF c
      <3> QED
        BY <3>1, <3>2 DEF EndOfLine
    <2>2. mem[p] = Byte(r, p) /\ Byte(r, p) # NL
      BY <1>2, <1>6
    <2>3. CR \notin DOMAIN Number
      BY ParserAssumption
    <2>4. /\ env.chunked_length = c.len /\ p + 1 < c.data
          /\ \A f \in DOMAIN e : f # "chunked_length" => env[f] = e[f]
      <3>1. CASE p = c.at
        <4>1. mem[p] \in DOMAIN Number /\ Number[mem[p]] = c.len /\ e.chunked_length = 0
          BY <1>2, <2>1, <2>2, <3>1
        <4>2. e.chunked_length * 10 + Number[mem[p]] = c.len
          BY <1>4, <4>1
        <4>3. env = [e EXCEPT !["chunked_length"] = c.len]
          <5>1. env = [e EXCEPT !["chunked_length"] = e.chunked_length * 10 + Number[mem[p]]]
            BY <4>1
          <5> HIDE DEF env, c
          <5> QED
            BY <4>2, <5>1
        <4>4. "chunked_length" \in DOMAIN e
          BY <1>3, EnvHasFields DEF LineFields, HeaderFields
        <4>5. p + 1 < c.data
          BY <1>4, <2>1, <3>1
        <4> HIDE DEF env, c
        <4> QED
          BY <4>3, <4>4, <4>5, OneField
      <3>2. CASE p # c.at
        <4>1. p = c.at + 1 /\ Byte(r, p) = CR /\ c.data = c.at + 3
          <5> HIDE DEF c, r
          <5>1. p = c.at + 1 \/ p = c.at + 2
            BY <1>2, <1>3, <1>4, <2>1, <3>2, SMTT(30) DEF c, r
          <5> QED
            BY <1>2, <1>4, <2>1, <2>2, <5>1 DEF c
        <4>2. env = e /\ e.chunked_length = c.len
          BY <1>2, <2>2, <2>3, <3>2, <4>1
        <4>3. p + 1 < c.data
          BY <1>4, <4>1
        <4> HIDE DEF env
        <4> QED
          BY <4>2, <4>3
      <3> QED
        BY <3>1, <3>2
    <2>5. GoOn(env, p + 1)
      BY <1>6
    <2> HIDE DEF env
    <2>6. /\ env.parse_step = "CHUNKED_SIZE" /\ env.chunked_body_end = e.chunked_body_end
          /\ env.content_length = e.content_length /\ env.body = e.body
          /\ env.reforming_flag = e.reforming_flag
          /\ \A f \in ToldFields : env[f] = e[f]
      <3>1. /\ LineFields \subseteq DOMAIN e /\ "parse_step" \in DOMAIN e
        BY <1>3, EnvHasFields
      <3>2. /\ \A f \in ToldFields : f \in DOMAIN e /\ f # "chunked_length"
            /\ "chunked_body_end" \in DOMAIN e /\ "content_length" \in DOMAIN e
            /\ "body" \in DOMAIN e /\ "reforming_flag" \in DOMAIN e
        BY <3>1 DEF ToldFields, LineFields, HeaderFields
      <3> QED
        BY <1>1, <2>4, <3>1, <3>2
    <2>7. InChunk(env, r, l, i)
      <3>1. AllTold(env, r, l)
        <4>1. AllTold(e, r, l)
          BY <1>2 DEF InChunk
        <4> HIDE DEF r, l
        <4> QED
          BY <2>6, <4>1, AllToldFrame
      <3> QED
        BY <1>2, <2>6, <3>1 DEF InChunk
    <2>8. Standing(env, p + 1, r, l)
      <3>1. c.at <= p + 1 /\ p + 1 < c.data /\ p + 1 # c.at
        BY <1>2, <1>3, <1>4, <2>4
      <3>2. AtSize(env, p + 1, r, l)
        BY <1>4, <2>4, <2>7, <3>1 DEF AtSize
      <3> HIDE DEF r, l
      <3> QED
        BY <2>6, <3>2 DEF Standing
    <2> QED
      BY <1>3, <2>5, <2>6, <2>8, GoOnReads
  <1> QED
    BY <1>5, <1>6 DEF ChunkedSize

(* CHUNKED_SIZE: the end of the line, of the last chunk or of another. *)
LEMMA ChunkedSizeEndsReads ==
  ASSUME Reads, ChunkedSizeEnds PROVE ReadInv'
  <1> DEFINE r == This
             l == This.layout
             n == Len(l.chunk)
  <1>1. /\ Parsing("CHUNKED_SIZE") /\ e.parse_step = "CHUNKED_SIZE"
        /\ p < fill_ptr /\ mem[p] = NL
    BY DEF ChunkedSizeEnds, Parsing
  <1>2. PICK i \in 1 .. Len(l.chunk) :
          /\ InChunk(e, r, l, i)
          /\ l.chunk[i].at <= p /\ p < l.chunk[i].data
          /\ e.chunked_length = IF p = l.chunk[i].at THEN 0 ELSE l.chunk[i].len
          /\ IsChunk(r, l.chunk[i]) /\ p < Size(r)
          /\ p < fill_ptr => mem[p] = Byte(r, p)
          /\ e.chunked_body_end <= p
    BY <1>1, SizeLine
  <1>3. /\ l \in Layout /\ fill_ptr \in Nat /\ Size(r) \in Nat /\ p \in Nat /\ e \in Env
        /\ Chunks(r, l) /\ AllTold(e, r, l) /\ e.chunked_body_end \in Int
    BY <1>2, ReadsBounds DEF InChunk
  <1> DEFINE c == l.chunk[i]
  <1>4. /\ i \in DOMAIN l.chunk /\ c.at \in Nat /\ c.data \in Nat /\ c.len \in Nat
        /\ c.at < c.data /\ (c.len = 0 <=> i = n) /\ n \in Nat
    <2>1. /\ DOMAIN l.chunk = 1 .. Len(l.chunk) /\ n \in Nat
          /\ \A j \in 1 .. Len(l.chunk) :
               /\ l.chunk[j].at \in Nat /\ l.chunk[j].data \in Nat
               /\ l.chunk[j].len \in Nat /\ l.chunk[j].at < l.chunk[j].data
               /\ l.chunk[j].len = 0 <=> j = n
      BY <1>3, ChunksOrder
    <2> QED
      BY <2>1
  <1>5. p + 1 = c.data /\ e.chunked_length = c.len
    <2>1. /\ Byte(r, c.at) \in DOMAIN Number
          /\ \/ Byte(r, c.at + 1) = NL /\ c.data = c.at + 2
             \/ Byte(r, c.at + 1) = CR /\ Byte(r, c.at + 2) = NL /\ c.data = c.at + 3
      <3>1. Byte(r, c.at) \in DOMAIN Number /\ EndOfLine(r, c.at + 1, c.data)
        BY <1>2 DEF IsChunk
      <3>2. /\ (c.at + 1) + 1 = c.at + 2 /\ (c.at + 1) + 2 = c.at + 3
        BY <1>4
      <3> HIDE DEF c
      <3> QED
        BY <3>1, <3>2 DEF EndOfLine
    <2>2. Byte(r, p) = NL /\ NL \notin DOMAIN Number /\ CR # NL
      BY <1>1, <1>2, ParserAssumption DEF CR, NL
    <2>3. p # c.at
      BY <2>1, <2>2
    <2>a. /\ c.at <= p /\ p < c.data /\ p \in Nat /\ c.at \in Nat /\ c.data \in Nat
          /\ c.data = c.at + 2 \/ c.data = c.at + 3
      BY <1>2, <1>3, <1>4, <2>1
    <2> HIDE DEF c, r
    <2>4. p = c.at + 1 \/ p = c.at + 2
      BY <2>a, <2>3
    <2>5. p + 1 = c.data
      <3>1. CASE p = c.at + 1
        <4>1. Byte(r, c.at + 1) = NL
          BY <2>2, <3>1
        <4> QED
          BY <1>4, <2>1, <2>2, <3>1, <4>1
      <3>2. CASE p = c.at + 2
        BY <1>2, <1>3, <1>4, <2>1, <3>2 DEF c
      <3> QED
        BY <2>4, <3>1, <3>2
    <2> QED
      BY <1>2, <2>3, <2>5 DEF c
  <1>6. /\ Trailers(r, l) /\ Told(e, r, l, Len(l.header)) /\ DOMAIN l.header = 1 .. Len(l.header)
        /\ \A j \in DOMAIN l.header : l.header[j] \in Header
    BY <1>3, HeaderOfLayout DEF Chunks, AllTold
  <1>7. e.TRAILER.ptr # -1 <=> l.trailer # <<>>
    <2>1. CASE l.trailer = <<>>
      <3>1. e.TRAILER = NoToken
        BY <1>6, <2>1 DEF Trailers, Told
      <3> QED
        BY <2>1, <3>1 DEF NoToken
    <2>2. CASE l.trailer # <<>>
      <3>1. \E j \in 1 .. Len(l.header) : Named(r, l.header[j], "Trailer")
        BY <1>6, <2>2 DEF Trailers
      <3>2. PICK j \in DOMAIN l.header : e.TRAILER = Tok(l.header[j].value)
        BY <1>6, <3>1 DEF Told
      <3>3. l.header[j].value.from \in Nat
        BY <1>6, HeaderTypes
      <3> QED
        BY <2>2, <3>2, <3>3 DEF Tok
    <2> QED
      BY <2>1, <2>2
  <1>8. CASE /\ e.chunked_length = 0 /\ e.TRAILER.ptr # -1
             /\ GoOn([e EXCEPT !.parse_step = "HEADER_NAME0"], p + 1)
    <2> DEFINE env == [e EXCEPT !["parse_step"] = "HEADER_NAME0"]
    <2>1. i = n /\ l.trailer # <<>> /\ LastChunk(l) = c
      BY <1>4, <1>5, <1>7, <1>8 DEF LastChunk
    <2>2. GoOn(env, p + 1)
      BY <1>8
    <2>3. "parse_step" \in DOMAIN e /\ LineFields \subseteq DOMAIN e
      BY <1>3, EnvHasFields
    <2>4. /\ env.parse_step = "HEADER_NAME0" /\ \A f \in DOMAIN e : f # "parse_step" => env[f] = e[f]
      BY <2>3, OneField
    <2> HIDE DEF env
    <2>5. /\ env.chunked_body_end = e.chunked_body_end
          /\ env.content_length = e.content_length /\ env.body = e.body
          /\ env.reforming_flag = e.reforming_flag
          /\ \A f \in ToldFields : env[f] = e[f]
      <3>1. /\ \A f \in ToldFields : f \in DOMAIN e /\ f # "parse_step"
            /\ "chunked_body_end" \in DOMAIN e /\ "content_length" \in DOMAIN e
            /\ "body" \in DOMAIN e /\ "reforming_flag" \in DOMAIN e
        BY <2>3 DEF ToldFields, LineFields, HeaderFields
      <3> QED
        BY <2>4, <3>1
    <2>6. AllTold(env, r, l)
      <3> HIDE DEF r, l
      <3> QED
        BY <1>3, <2>5, AllToldFrame
    <2>7. env.chunked_body_end <= LastChunk(l).data
      BY <1>2, <1>3, <1>4, <1>5, <2>1, <2>5
    <2>8. InLines(env, r, l)
      <3>1. InTrailer(env, r, l)
        BY <1>2, <2>1, <2>5, <2>6, <2>7 DEF InTrailer, InChunk
      <3> QED
        BY <2>6, <3>1 DEF InLines, AllTold
    <2>9. LineStart(env, l) = p + 1
      <3>1. env.body = l.body /\ l.body \in Nat
        BY <1>3, <2>6, LayoutTypes DEF AllTold
      <3>2. env.body # -1
        BY <3>1
      <3> QED
        BY <1>5, <2>1, <3>2 DEF LineStart
    <2>10. Standing(env, p + 1, r, l)
      <3> HIDE DEF r, l
      <3>1. AtName0(env, p + 1, r, l)
        BY <2>8, <2>9 DEF AtName0
      <3> QED
        BY <2>4, <3>1 DEF Standing
    <2> QED
      BY <1>3, <2>2, <2>5, <2>10, GoOnReads
  <1>9. CASE e.chunked_length = 0 /\ e.TRAILER.ptr = -1 /\ Complete(e, p + 1, TRUE)
    <2>1. i = n /\ l.trailer = <<>>
      BY <1>4, <1>5, <1>7, <1>9
    <2>2. InChunk(e, r, l, Len(l.chunk))
      BY <1>2, <2>1
    <2>3. /\ Text([ptr |-> e.body, len |-> e.content_length]) = l.content
          /\ e.body # -1 /\ e.keepalive = -1 /\ Index = Len(conversation)
      BY <2>2, BodySpelt
    <2>4. Request(e, mem) = This.outcome
      BY <1>3, <2>1, <2>3, PlainRequestIs
    <2> QED
      BY <1>3, <1>9, <2>3, <2>4, CompletesLast
  <1>10. CASE /\ e.chunked_length # 0
              /\ GoOn([e EXCEPT !.chunked_body = p + 1, !.parse_step = "CHUNKED_DATA"], p + 1)
    <2> DEFINE env == [e EXCEPT !["chunked_body"] = p + 1, !.parse_step = "CHUNKED_DATA"]
    <2>1. i \in 1 .. n - 1
      BY <1>4, <1>5, <1>10
    <2>2. GoOn(env, p + 1)
      BY <1>10
    <2>3. /\ "parse_step" \in DOMAIN e /\ LineFields \subseteq DOMAIN e /\ "chunked_body" \in DOMAIN e
      BY <1>3, EnvHasFields DEF Env
    <2>4. /\ env.parse_step = "CHUNKED_DATA" /\ env.chunked_body = p + 1
          /\ \A f \in DOMAIN e : f \notin {"chunked_body", "parse_step"} => env[f] = e[f]
      BY <2>3, TwoFields
    <2> HIDE DEF env
    <2>5. /\ env.chunked_body_end = e.chunked_body_end
          /\ env.content_length = e.content_length /\ env.body = e.body
          /\ env.reforming_flag = e.reforming_flag /\ env.chunked_length = e.chunked_length
          /\ \A f \in ToldFields : env[f] = e[f]
      <3>1. /\ \A f \in ToldFields : f \in DOMAIN e /\ f \notin {"chunked_body", "parse_step"}
            /\ "chunked_body_end" \in DOMAIN e /\ "content_length" \in DOMAIN e
            /\ "body" \in DOMAIN e /\ "reforming_flag" \in DOMAIN e
            /\ "chunked_length" \in DOMAIN e
        BY <2>3 DEF ToldFields, LineFields, HeaderFields
      <3> QED
        BY <2>4, <3>1
    <2>6. AllTold(env, r, l)
      <3> HIDE DEF r, l
      <3> QED
        BY <1>3, <2>5, AllToldFrame
    <2>7. Standing(env, p + 1, r, l)
      <3>1. InChunk(env, r, l, i)
        BY <1>2, <2>5, <2>6 DEF InChunk
      <3>2. AtData(env, p + 1, r, l)
        BY <1>5, <2>1, <2>4, <2>5, <3>1 DEF AtData
      <3> HIDE DEF r, l
      <3> QED
        BY <2>4, <3>2 DEF Standing
    <2> QED
      BY <1>3, <2>2, <2>5, <2>7, GoOnReads
  <1> QED
    BY <1>8, <1>9, <1>10 DEF ChunkedSizeEnds

(* Where the data of a chunk stands, and what stands behind it. *)
LEMMA DataLine ==
  ASSUME Reads, Parsing("CHUNKED_DATA")
  PROVE  \E i \in 1 .. Len(This.layout.chunk) - 1 :
           /\ InChunk(e, This, This.layout, i) /\ i + 1 \in DOMAIN This.layout.chunk
           /\ e.chunked_body = This.layout.chunk[i].data
           /\ e.chunked_length = This.layout.chunk[i].len
           /\ ChunkData(This, This.layout, i)
           /\ EndOfLine(This, e.chunked_body + e.chunked_length, This.layout.chunk[i + 1].at)
           /\ This.layout.chunk[i + 1].at \in Nat /\ This.layout.chunk[i + 1].data \in Nat
           /\ This.layout.chunk[i + 1].at < This.layout.chunk[i + 1].data
           /\ e.chunked_body + e.chunked_length < This.layout.chunk[i + 1].at
           /\ This.layout.chunk[i + 1].data <= Size(This)
           /\ e.chunked_length \in Nat /\ e.chunked_body \in Nat
           /\ e.body \in Nat /\ e.chunked_body_end = e.body + This.layout.chunk[i].off
           /\ This.layout.chunk[i].off \in Nat
           /\ This.layout.chunk[i + 1].off = This.layout.chunk[i].off + e.chunked_length
           /\ e.chunked_body_end <= e.chunked_body
           /\ e.content_length = This.layout.chunk[i].off
  <1> DEFINE r == This
             l == This.layout
  <1>1. PICK i \in 1 .. Len(l.chunk) - 1 :
          /\ InChunk(e, r, l, i)
          /\ e.chunked_body = l.chunk[i].data /\ e.chunked_length = l.chunk[i].len
    BY ReadsBounds, StandingAt, SMTT(30) DEF Parsing, AtData
  <1>2. /\ l \in Layout /\ Chunks(r, l) /\ e.chunked_body_end = l.body + l.chunk[i].off
        /\ e.body = l.body /\ e.content_length = l.chunk[i].off
    BY <1>1, ReadsBounds DEF InChunk, AllTold
  <1>3. l.body \in Nat
    BY <1>2, LayoutTypes
  <1>4. e.chunked_body_end <= e.chunked_body
    BY DEF Reads, ParserInv, BodyWithin, Parsing
  <1>5. /\ Len(l.chunk) \in Nat /\ DOMAIN l.chunk = 1 .. Len(l.chunk)
        /\ \A j \in 1 .. Len(l.chunk) :
             /\ l.chunk[j].at \in Nat /\ l.chunk[j].data \in Nat
             /\ l.chunk[j].len \in Nat /\ l.chunk[j].off \in Nat
             /\ l.chunk[j].at < l.chunk[j].data /\ l.chunk[j].data <= Size(r)
             /\ j < Len(l.chunk) =>
                  /\ l.chunk[j].data + l.chunk[j].len < l.chunk[j + 1].at
                  /\ l.chunk[j + 1].off = l.chunk[j].off + l.chunk[j].len
    <2> HIDE DEF r, l
    <2> QED
      BY <1>2, ChunksOrder
  <1>6. ChunkData(r, l, i)
    BY <1>1, <1>2 DEF Chunks
  <1>7. EndOfLine(r, e.chunked_body + e.chunked_length, l.chunk[i + 1].at)
    BY <1>1, <1>6 DEF ChunkData
  <1>8. i \in 1 .. Len(l.chunk) /\ i + 1 \in 1 .. Len(l.chunk) /\ i < Len(l.chunk)
    BY <1>5
  <1> HIDE DEF r, l
  <1>9. /\ l.chunk[i].data \in Nat /\ l.chunk[i].len \in Nat /\ l.chunk[i].off \in Nat
        /\ l.chunk[i].data + l.chunk[i].len < l.chunk[i + 1].at
        /\ l.chunk[i + 1].off = l.chunk[i].off + l.chunk[i].len
        /\ l.chunk[i + 1].at \in Nat /\ l.chunk[i + 1].data \in Nat
        /\ l.chunk[i + 1].at < l.chunk[i + 1].data /\ l.chunk[i + 1].data <= Size(r)
    BY <1>5, <1>8
  <1> QED
    BY <1>1, <1>2, <1>3, <1>4, <1>5, <1>6, <1>7, <1>8, <1>9 DEF r, l

(* What moving n bytes from `from` down to `to` makes of the buffer.         *)
Moved(from, to, n) ==
  [q \in Offsets |-> IF q \in to .. to + n - 1 THEN mem[from + q - to] ELSE mem[q]]

(* CHUNKED_DATA in these terms. *)
LEMMA ChunkedDataDoes ==
  ASSUME ChunkedData, NEW from, from = e.chunked_body, NEW n, n = e.chunked_length,
         NEW to, to = e.chunked_body_end
  PROVE  /\ Parsing("CHUNKED_DATA")
         /\ \/ fill_ptr - from < n + 2 /\ NeedMore(fill_ptr) /\ UNCHANGED e
            \/ /\ fill_ptr - from >= n + 2 /\ mem' = Moved(from, to, n)
               /\ p' = CASE mem'[from + n] = CR /\ mem'[from + n + 1] = NL -> from + n + 2
                         [] mem'[from + n] = NL -> from + n + 1
                         [] OTHER -> from + n
               /\ e' = [e EXCEPT !["chunked_body_end"] = to + n,
                                 !["content_length"] = e.content_length + n,
                                 !["chunked_length"] = 0, !["parse_step"] = "CHUNKED_SIZE"]
               /\ UNCHANGED <<peerVars, process_ptr, fill_ptr, pc, outcomes>>
  BY DEF ChunkedData, Moved

(* CHUNKED_DATA: the data is moved to the content before it, and what is
   read later stays. *)
LEMMA ChunkedDataReads ==
  ASSUME Reads, ChunkedData PROVE ReadInv'
  <1> DEFINE r == This
             l == This.layout
             from == e.chunked_body
             n == e.chunked_length
             to == e.chunked_body_end
  <1>1. /\ Parsing("CHUNKED_DATA") /\ pc = "parse" /\ e.parse_step = "CHUNKED_DATA"
        /\ \/ fill_ptr - from < n + 2 /\ NeedMore(fill_ptr) /\ UNCHANGED e
           \/ /\ fill_ptr - from >= n + 2 /\ mem' = Moved(from, to, n)
              /\ p' = CASE mem'[from + n] = CR /\ mem'[from + n + 1] = NL -> from + n + 2
                        [] mem'[from + n] = NL -> from + n + 1
                        [] OTHER -> from + n
              /\ e' = [e EXCEPT !["chunked_body_end"] = to + n,
                                !["content_length"] = e.content_length + n,
                                !["chunked_length"] = 0, !["parse_step"] = "CHUNKED_SIZE"]
              /\ UNCHANGED <<peerVars, process_ptr, fill_ptr, pc, outcomes>>
    BY ChunkedDataDoes DEF Parsing
  <1>2. PICK i \in 1 .. Len(l.chunk) - 1 :
           /\ InChunk(e, r, l, i) /\ i + 1 \in DOMAIN l.chunk
           /\ e.chunked_body = l.chunk[i].data
           /\ e.chunked_length = l.chunk[i].len
           /\ ChunkData(r, l, i)
           /\ EndOfLine(r, e.chunked_body + e.chunked_length, l.chunk[i + 1].at)
           /\ l.chunk[i + 1].at \in Nat /\ l.chunk[i + 1].data \in Nat
           /\ l.chunk[i + 1].at < l.chunk[i + 1].data
           /\ e.chunked_body + e.chunked_length < l.chunk[i + 1].at
           /\ l.chunk[i + 1].data <= Size(r)
           /\ e.chunked_length \in Nat /\ e.chunked_body \in Nat
           /\ e.body \in Nat /\ e.chunked_body_end = e.body + l.chunk[i].off
           /\ l.chunk[i].off \in Nat
           /\ l.chunk[i + 1].off = l.chunk[i].off + e.chunked_length
           /\ e.chunked_body_end <= e.chunked_body
           /\ e.content_length = l.chunk[i].off
    BY <1>1, DataLine
  <1> DEFINE next == l.chunk[i + 1].at
             off == l.chunk[i].off
  <1>a. /\ l \in Layout /\ e \in Env /\ ~e.reforming_flag
    BY ReadsBounds
  <1>b. /\ fill_ptr \in Nat /\ Size(r) \in Nat /\ fill_ptr < BufSize
        /\ process_ptr \in Nat /\ process_ptr < Size(r) /\ Len(outcomes) < sent
    BY ReadsBounds
  <1>c. /\ from \in Nat /\ n \in Nat /\ off \in Nat /\ e.body \in Nat /\ next \in Nat
        /\ to = e.body + off /\ to <= from /\ from + n < next /\ next < l.chunk[i + 1].data
        /\ l.chunk[i + 1].data \in Nat /\ l.chunk[i + 1].data <= Size(r)
    BY <1>2
  <1>3. /\ from \in Nat /\ n \in Nat /\ to \in Nat /\ off \in Nat /\ e.body \in Nat /\ next \in Nat
        /\ to = e.body + off /\ to <= from /\ from + n < next /\ next < Size(r)
        /\ fill_ptr \in Nat /\ Size(r) \in Nat
    <2> DEFINE d == l.chunk[i + 1].data
               size == Size(r)
    <2>1. next \in Nat /\ d \in Nat /\ size \in Nat /\ next < d /\ d <= size
      BY <1>b, <1>c
    <2> HIDE DEF from, n, to, off, next, r, d, size
    <2>2. next < size
      BY <2>1
    <2>3. to \in Nat
      <3>1. to = e.body + off /\ e.body \in Nat /\ off \in Nat
        BY <1>c
      <3> QED
        BY <3>1
    <2> QED
      BY <1>b, <1>c, <2>2, <2>3 DEF size
  <1> HIDE DEF from, n, to, off, next, r, l
  <1>4. CASE fill_ptr - from < n + 2 /\ NeedMore(fill_ptr) /\ UNCHANGED e
    <2>1. fill_ptr < Size(r)
      BY <1>3, <1>4
    <2>2. AtData(e, fill_ptr, r, l)
      BY <1>2 DEF AtData
    <2>3. Standing(e, fill_ptr, r, l)
      <3> QED
        BY <1>1, <2>2 DEF Standing
    <2> QED
      BY <1>b, <1>4, <2>1, <2>3, NeedMoreReads DEF r, l
  <1>5. CASE /\ fill_ptr - from >= n + 2 /\ mem' = Moved(from, to, n)
             /\ p' = CASE mem'[from + n] = CR /\ mem'[from + n + 1] = NL -> from + n + 2
                       [] mem'[from + n] = NL -> from + n + 1
                       [] OTHER -> from + n
             /\ e' = [e EXCEPT !["chunked_body_end"] = to + n,
                               !["content_length"] = e.content_length + n,
                               !["chunked_length"] = 0, !["parse_step"] = "CHUNKED_SIZE"]
             /\ UNCHANGED <<peerVars, process_ptr, fill_ptr, pc, outcomes>>
    <2>a. fill_ptr - from >= n + 2
      BY <1>5
    <2>0. from + n + 1 < fill_ptr
      BY <1>3, <2>a
    <2>1. /\ conversation' = conversation /\ sent' = sent /\ wire' = wire
          /\ process_ptr' = process_ptr /\ fill_ptr' = fill_ptr /\ pc' = pc
          /\ outcomes' = outcomes
      BY <1>5 DEF peerVars
    <2>2. ASSUME NEW q \in Nat, q < fill_ptr
          PROVE  /\ q < to \/ to + n <= q => mem'[q] = mem[q]
                 /\ to <= q /\ q < to + n => mem'[q] = mem[from + q - to]
      <3>1. q \in Offsets /\ mem' = Moved(from, to, n)
        BY <1>b, <1>5, <2>2, ParserAssumption DEF Offsets
      <3>2. mem'[q] = IF q \in to .. to + n - 1 THEN mem[from + q - to] ELSE mem[q]
        <4> QED
          BY <3>1 DEF Moved
      <3> QED
        <4>1. q < to => q \notin to .. to + n - 1
          BY <1>3, <2>2
        <4>2. to + n <= q => q \notin to .. to + n - 1
          BY <1>3, <2>2
        <4>3. to <= q /\ q < to + n => q \in to .. to + n - 1
          BY <1>3, <2>2
        <4> QED
          BY <3>2, <4>1, <4>2, <4>3
    <2>3. ASSUME NEW q \in Nat, from <= q, q < fill_ptr, q < Size(r)
          PROVE  mem[q] = Byte(r, q)
      <3>1. to <= q
        BY <1>3, <2>3
      <3> QED
        BY <2>3, <3>1, Sees DEF r, to
    <2>4. mem'[from + n] = Byte(r, from + n) /\ mem'[from + n + 1] = Byte(r, from + n + 1)
      <3>1. /\ from + n \in Nat /\ from <= from + n /\ from + n < fill_ptr /\ from + n < Size(r)
            /\ to + n <= from + n
            /\ from + n + 1 \in Nat /\ from <= from + n + 1 /\ from + n + 1 < fill_ptr
            /\ from + n + 1 < Size(r) /\ to + n <= from + n + 1
        BY <1>3, <2>0
      <3>2. mem'[from + n] = mem[from + n] /\ mem'[from + n + 1] = mem[from + n + 1]
        BY <2>2, <3>1
      <3> QED
        BY <2>3, <3>1, <3>2
    <2>5. p' = next
      <3>1. /\ from + n \in Nat
            /\ \/ Byte(r, from + n) = NL /\ next = from + n + 1
               \/ Byte(r, from + n) = CR /\ Byte(r, from + n + 1) = NL /\ next = from + n + 2
        <4>1. EndOfLine(r, from + n, next)
          BY <1>2 DEF from, n, next
        <4>2. /\ from + n \in Nat /\ (from + n) + 1 = from + n + 1 /\ (from + n) + 2 = from + n + 2
          BY <1>3
        <4> QED
          BY <4>1, <4>2 DEF EndOfLine
      <3>2. CR # NL
        BY DEF CR, NL
      <3>3. p' = CASE Byte(r, from + n) = CR /\ Byte(r, from + n + 1) = NL -> from + n + 2
                   [] Byte(r, from + n) = NL -> from + n + 1
                   [] OTHER -> from + n
        <4> QED
          BY <1>5, <2>4
      <3> QED
        BY <3>1, <3>2, <3>3
    <2>6. /\ e'.chunked_body_end = to + n /\ e'.content_length = e.content_length + n
          /\ e'.chunked_length = 0 /\ e'.parse_step = "CHUNKED_SIZE"
          /\ \A f \in DOMAIN e : f \notin {"chunked_body_end", "content_length",
                                           "chunked_length", "parse_step"} => e'[f] = e[f]
      <3>1. /\ "chunked_body_end" \in DOMAIN e /\ "content_length" \in DOMAIN e
            /\ "chunked_length" \in DOMAIN e /\ "parse_step" \in DOMAIN e
            /\ LineFields \subseteq DOMAIN e
        BY <1>a, EnvHasFields DEF LineFields, HeaderFields
      <3>2. e' = [e EXCEPT !["chunked_body_end"] = to + n,
                           !["content_length"] = e.content_length + n,
                           !["chunked_length"] = 0, !["parse_step"] = "CHUNKED_SIZE"]
        BY <1>5
      <3> QED
        BY <3>1, <3>2, FourFields
    <2>7. e'.body = e.body /\ e'.reforming_flag = e.reforming_flag
          /\ \A f \in ToldFields : e'[f] = e[f]
      <3>1. /\ \A f \in ToldFields : f \in DOMAIN e /\
                 f \notin {"chunked_body_end", "content_length", "chunked_length", "parse_step"}
            /\ "body" \in DOMAIN e /\ "reforming_flag" \in DOMAIN e
        BY <1>a, EnvHasFields DEF ToldFields, LineFields, HeaderFields
      <3> QED
        BY <2>6, <3>1
    <2>8. Standing(e', next, r, l)
      <3>1. AllTold(e', r, l)
        <4>1. AllTold(e, r, l)
          BY <1>2 DEF InChunk
        <4> QED
          BY <2>7, <4>1, AllToldFrame
      <3>2. to + n = l.body + l.chunk[i + 1].off /\ e.content_length + n = l.chunk[i + 1].off
        <4>1. l.body \in Nat /\ e.body = l.body
          BY <1>a, <1>2, LayoutTypes DEF InChunk, AllTold
        <4> QED
          BY <1>2, <1>c, <4>1, SMTT(30) DEF to, n
      <3>3. InChunk(e', r, l, i + 1)
        BY <1>2, <2>6, <3>1, <3>2 DEF InChunk, to, n
      <3>4. AtSize(e', next, r, l)
        BY <1>2, <1>c, <2>6, <3>3, SMTT(30) DEF AtSize, next
      <3> QED
        BY <2>6, <3>4 DEF Standing
    <2>9. Index' = Index /\ This' = This
      BY <2>1 DEF Index, This
    <2>10. \A k, q : Due(k, q)' = Due(k, q) /\ Total(k)' = Total(k)
      BY <2>1 DEF Due, Total, Outstanding
    <2>11. OutcomesMatch' /\ Ahead'
      BY <2>1, <2>9 DEF Reads, ReadInv, OutcomesMatch, Ahead
    <2>12. Flow(0)'
      BY <2>1, <2>9, <2>10 DEF Reads, ReadInv, Buffered, Flow
    <2>13. e'.chunked_body_end # -1
      BY <1>3, <2>6
    <2>14. Intact'
      <3> SUFFICES ASSUME NEW q \in 0 .. fill_ptr - 1, q < e'.body \/ e'.chunked_body_end <= q
                   PROVE  mem'[q] = Due(Index, q)
        BY <2>1, <2>9, <2>10 DEF Intact
      <3>1. /\ q \in Nat /\ q < fill_ptr /\ (q < to \/ to + n <= q)
            /\ q < e.body \/ e.chunked_body_end <= q
        <4>1. q < e.body \/ to + n <= q
          BY <2>6, <2>7
        <4> QED
          BY <1>3, <4>1 DEF to
      <3>2. mem'[q] = mem[q]
        BY <2>2, <3>1
      <3>3. mem[q] = Due(Index, q)
        BY <1>b, <3>1 DEF Reads, ReadInv, Buffered, Intact
      <3> QED
        BY <3>2, <3>3
    <2>15. Gathered'
      <3> SUFFICES ASSUME NEW j \in 1 .. (to + n) - e.body
                   PROVE  mem'[e.body + j - 1] = l.content[j]
        BY <2>1, <2>6, <2>7, <2>9 DEF Gathered, l
      <3>1. /\ j \in Nat /\ j >= 1 /\ j <= off + n /\ e.body + j - 1 \in Nat
            /\ e.body + j - 1 < fill_ptr
        <4>1. (to + n) - e.body = off + n
          BY <1>3
        <4>2. j \in 1 .. off + n
          BY <4>1
        <4>3. j \in Nat /\ j >= 1 /\ j <= off + n /\ e.body + j - 1 \in Nat
          BY <1>3, <4>2, SMTT(30)
        <4>4. e.body + j - 1 < to + n
          BY <1>3, <4>3, SMTT(30)
        <4> QED
          BY <1>3, <2>0, <4>3, <4>4
      <3>2. CASE j <= off
        <4>1. mem'[e.body + j - 1] = mem[e.body + j - 1]
          <5>1. e.body + j - 1 < to
            BY <1>3, <3>1, <3>2
          <5> QED
            BY <2>2, <3>1, <5>1
        <4>2. mem[e.body + j - 1] = l.content[j]
          <5>1. e.chunked_body_end # -1 /\ j \in 1 .. e.chunked_body_end - e.body
            <6>1. (to - e.body) = off /\ to # -1
              BY <1>3, SMTT(30)
            <6> QED
              BY <3>1, <3>2, <6>1 DEF to
          <5> QED
            BY <5>1 DEF Reads, ReadInv, Buffered, Gathered, l
        <4> QED
          BY <4>1, <4>2
      <3>3. CASE j > off
        <4> DEFINE k == j - off
        <4>1. k \in 1 .. n /\ off + k = j
          BY <1>3, <3>1, <3>3
        <4> HIDE DEF k
        <4>2. mem'[e.body + j - 1] = mem[from + k - 1]
          <5>1. to <= e.body + j - 1 /\ e.body + j - 1 < to + n
                /\ from + (e.body + j - 1) - to = from + k - 1
            <6>1. /\ to \in Nat /\ to = e.body + off /\ e.body \in Nat /\ off \in Nat
                  /\ from \in Nat /\ n \in Nat
              BY <1>3
            <6>2. k \in Nat /\ 1 <= k /\ k <= n /\ off + k = j
              BY <4>1, <6>1
            <6>3. e.body + j - 1 = to + k - 1
              <7>1. e.body + (off + k) - 1 = (e.body + off) + k - 1
                BY <6>1, <6>2
              <7> QED
                BY <6>1, <6>2, <7>1
            <6>4. to <= to + k - 1 /\ to + k - 1 < to + n
              BY <6>1, <6>2
            <6>5. from + (to + k - 1) - to = from + k - 1
              BY <6>1, <6>2
            <6> QED
              BY <6>3, <6>4, <6>5
          <5> QED
            BY <2>2, <3>1, <5>1
        <4>3. mem[from + k - 1] = Byte(r, from + k - 1)
          <5>1. /\ from + k - 1 \in Nat /\ from <= from + k - 1 /\ from + k - 1 < fill_ptr
                /\ from + k - 1 < Size(r)
            BY <1>3, <2>0, <4>1
          <5> QED
            BY <2>3, <5>1
        <4>4. l.content[off + k] = Byte(r, from + k - 1)
          <5> QED
            BY <1>2, <4>1 DEF ChunkData, off, from, n
        <4> QED
          BY <4>1, <4>2, <4>3, <4>4
      <3> QED
        BY <1>3, <3>1, <3>2, <3>3
    <2>16. Uncut'
      BY <2>13 DEF Uncut
    <2>17. Buffered'
      BY <1>a, <2>7, <2>12, <2>14, <2>15, <2>16 DEF Buffered
    <2>18. Parses'
      BY <1>b, <2>1, <2>5, <2>8, <2>9, <2>13 DEF Parses, Size, r, l
    <2> QED
      BY <1>1, <2>1, <2>11, <2>17, <2>18 DEF ReadInv
  <1> QED
    BY <1>1, <1>4, <1>5

----------------------------------------------------------------------------
(* Every case of the switch. *)

(* What is sent is within the conversation, and of requests that are written. *)
LEMMA SentTypes ==
  ASSUME ParserInv, Ahead
  PROVE  /\ Len(outcomes) \in Nat /\ sent \in Nat /\ Len(conversation) \in Nat
         /\ sent <= Len(conversation) /\ DOMAIN conversation = 1 .. Len(conversation)
         /\ Len(outcomes) <= sent /\ sent <= Len(outcomes) + 2
         /\ Index \in Nat \ {0} /\ Index = Len(outcomes) + 1
         /\ conversation \in Conversations
  <1>1. /\ conversation \in Conversations /\ sent \in 0 .. Len(conversation)
        /\ Len(conversation) \in Nat /\ DOMAIN conversation = 1 .. Len(conversation)
    BY ParserAssumption DEF ParserInv, ParserTypeOK
  <1>2. Len(outcomes) \in Nat
    BY DEF Ahead
  <1> QED
    BY <1>1, <1>2 DEF Ahead, Index

(* The request being read is one that the conversation is expected to have. *)
LEMMA ThisExpected ==
  ASSUME ParserInv, Ahead, AllServable, Len(outcomes) < sent
  PROVE  /\ Index \in DOMAIN conversation /\ Expects(This, This.layout)
         /\ WholeRequest(This, This.layout) /\ Chunks(This, This.layout) => Index = Len(conversation)
  <1>1. Index \in DOMAIN conversation /\ conversation \in Conversations
    BY SentTypes
  <1>2. Servable(conversation)
    BY <1>1 DEF AllServable
  <1>3. This.bytes \in Seq(Symbols)
    BY <1>1, ParserAssumption DEF This
  <1>4. Size(This) \in Nat
    <2>1. Len(This.bytes) \in Nat
      BY <1>3
    <2> QED
      BY <2>1 DEF Size
  <1> QED
    BY <1>1, <1>2, <1>4 DEF Expects, Servable, This

LEMMA ServableReads ==
  ASSUME ParserInv, ReadInv, AllServable, pc = "parse" PROVE Reads
  <1>1. Len(outcomes) < sent /\ Ahead
    BY DEF ReadInv, Parses
  <1> QED
    BY <1>1, ThisExpected DEF Reads

(* Every case of ParseHttpBuffer keeps the invariant. *)
LEMMA ParseHttpBufferReads ==
  ASSUME ParserInv, ReadInv, AllServable, ParseHttpBuffer PROVE ReadInv'
  <1>1. pc = "parse"
    BY DEF ParseHttpBuffer, MethodBegins, MethodEnds, UriBegins, UriEnds, VersionBegins, VersionEnds,
       HeaderNameBegins, HeaderNameEnds, ValueBegins, HeaderValueEnds, Body, ChunkedSize,
       ChunkedSizeEnds, ChunkedData, TokenBegins, Parsing
  <1>2. Reads
    BY <1>1, ServableReads
  <1> QED
    BY <1>2, MethodBeginsReads, MethodEndsReads, UriBeginsReads, UriEndsReads, VersionBeginsReads,
       VersionEndsReads, HeaderNameBeginsReads, HeaderNameEndsReads, ValueBeginsReads,
       HeaderValueEndsReads, BodyReads, ChunkedSizeReads, ChunkedSizeEndsReads, ChunkedDataReads
    DEF ParseHttpBuffer

----------------------------------------------------------------------------
(* The steps between two parses. *)

(* A connection that closes. *)
LEMMA CloseReads ==
  ASSUME ReadInv, Close PROVE ReadInv'
  BY DEF Close, ReadInv, OutcomesMatch, Ahead, This, Index, peerVars

(* The invariant holds at the start. *)
LEMMA InitReads ==
  ASSUME Init PROVE ReadInv
  <1>1. /\ outcomes = <<>> /\ sent = 0 /\ wire = <<>> /\ fill_ptr = 0 /\ process_ptr = 0
        /\ e = FreshEnv /\ pc = "recv" /\ Len(outcomes) = 0 /\ Len(wire) = 0
    BY DEF Init
  <1>2. Index = 1 /\ Len(Outstanding(1)) = 0 /\ Len(Outstanding(2)) = 0
    BY <1>1 DEF Index, Outstanding
  <1>3. Flow(0)
    BY <1>1, <1>2 DEF Flow, Total
  <1>4. e.chunked_body_end = -1 /\ ~e.reforming_flag /\ e.parse_step = "BEGIN"
    BY <1>1 DEF FreshEnv
  <1>5. Buffered
    BY <1>1, <1>3, <1>4 DEF Buffered, Uncut, Intact, Gathered
  <1>6. Waits
    BY <1>1, <1>4 DEF Waits
  <1>7. OutcomesMatch
    BY <1>1 DEF OutcomesMatch
  <1>8. Ahead
    BY <1>1 DEF Ahead
  <1> QED
    BY <1>1, <1>5, <1>6, <1>7, <1>8 DEF ReadInv

(* One request more is sent: it is due behind what was due before. *)
LEMMA OneMoreDue ==
  ASSUME ParserInv, Ahead, PeerSends,
         \/ sent = 0 \/ Len(outcomes) = sent \/ Len(outcomes) + 1 >= sent,
         NEW b, b = conversation[sent + 1].bytes, NEW N, N = Total(Index)
  PROVE  /\ b \in Seq(Symbols) /\ Len(b) \in Nat /\ N \in Nat
         /\ wire' = wire \o b /\ Len(wire) \in Nat /\ Len(wire') = Len(wire) + Len(b)
         /\ \A j \in 1 .. Len(wire) + Len(b) :
              wire'[j] = IF j <= Len(wire) THEN wire[j] ELSE b[j - Len(wire)]
         /\ Total(Index)' = N + Len(b)
         /\ \A q \in Nat : q < N + Len(b) =>
              Due(Index, q)' = IF q < N THEN Due(Index, q) ELSE b[q - N + 1]
         /\ sent' <= Len(outcomes) + 2 /\ Index' = Index /\ This' = This /\ sent \in Nat
         /\ sent' = sent + 1 /\ outcomes' = outcomes /\ conversation' = conversation
  <1>1. /\ Len(outcomes) \in Nat /\ sent \in Nat /\ Len(conversation) \in Nat
        /\ sent < Len(conversation) /\ DOMAIN conversation = 1 .. Len(conversation)
        /\ Len(outcomes) <= sent /\ Index \in Nat \ {0} /\ Index = Len(outcomes) + 1
        /\ conversation \in Conversations /\ sent' = sent + 1
        /\ outcomes' = outcomes /\ conversation' = conversation
    BY SentTypes DEF PeerSends
  <1>2. /\ b \in Seq(Symbols) /\ Len(b) \in Nat
    <2>1. sent + 1 \in DOMAIN conversation
      BY <1>1
    <2>2. conversation[sent + 1].bytes \in Seq(Symbols)
      BY <1>1, <2>1, ParserAssumption
    <2> QED
      BY <2>2
  <1>3. /\ wire' = wire \o b /\ wire \in Seq(Symbols) /\ Len(wire) \in Nat
    BY DEF PeerSends, ParserInv, ParserTypeOK
  <1>4. /\ Len(wire') = Len(wire) + Len(b)
        /\ \A j \in 1 .. Len(wire) + Len(b) :
              wire'[j] = IF j <= Len(wire) THEN wire[j] ELSE b[j - Len(wire)]
    BY <1>2, <1>3, ConcatProperties
  <1>5. sent + 1 = Index \/ sent + 1 = Index + 1
    BY <1>1
  <1>6. Index' = Index /\ This' = This
    BY <1>1 DEF Index, This
  <1> DEFINE A == Outstanding(Index)
             B == Outstanding(Index + 1)
             More == /\ Total(Index)' = N + Len(b)
                     /\ \A q \in Nat : q < N + Len(b) =>
                          Due(Index, q)' = IF q < N THEN Due(Index, q) ELSE b[q - N + 1]
  <1>7. Len(A) \in Nat /\ Len(B) \in Nat /\ N = Len(A) + Len(B)
    BY <1>1, OutstandingTypes DEF Total
  <1>8. /\ Total(Index)' = Len(A') + Len(B')
        /\ \A q : Due(Index, q)' = IF q < Len(A') THEN A'[q + 1] ELSE B'[q - Len(A') + 1]
        /\ \A q : Due(Index, q) = IF q < Len(A) THEN A[q + 1] ELSE B[q - Len(A) + 1]
    BY DEF Total, Due
  <1>9. ASSUME sent + 1 = Index PROVE More
    <2>1. A = <<>> /\ B = <<>> /\ A' = b /\ B' = <<>>
      BY <1>1, <1>6, <1>9 DEF Outstanding
    <2>2. Len(A) = 0 /\ Len(B) = 0 /\ Len(B') = 0 /\ Len(A') = Len(b) /\ N = 0
      BY <1>7, <2>1
    <2>3. Total(Index)' = N + Len(b)
      <3> HIDE DEF A, B
      <3>1. Total(Index)' = Len(b) + 0
        BY <1>8, <2>2
      <3> QED
        BY <1>2, <2>2, <3>1
    <2>4. ASSUME NEW q \in Nat, q < N + Len(b)
          PROVE  Due(Index, q)' = IF q < N THEN Due(Index, q) ELSE b[q - N + 1]
      <3>1. q < Len(b) /\ ~(q < N) /\ q - N + 1 = q + 1
        BY <1>2, <2>2, <2>4
      <3>2. Due(Index, q)' = A'[q + 1]
        BY <1>8, <2>2, <3>1
      <3> HIDE DEF A, B
      <3> QED
        BY <2>1, <3>1, <3>2
    <2> QED
      BY <2>3, <2>4
  <1>10. ASSUME sent + 1 = Index + 1 PROVE More
    <2>1. A' = A /\ B = <<>> /\ B' = b
      BY <1>1, <1>6, <1>10 DEF Outstanding
    <2>2. Len(B) = 0 /\ N = Len(A) /\ Len(A') = N /\ Len(B') = Len(b) /\ N \in Nat
      BY <1>7, <2>1
    <2>3. Total(Index)' = N + Len(b)
      BY <1>8, <2>2
    <2>4. ASSUME NEW q \in Nat, q < N + Len(b)
          PROVE  Due(Index, q)' = IF q < N THEN Due(Index, q) ELSE b[q - N + 1]
      <3> HIDE DEF A, B
      <3>1. CASE q < N
        BY <1>8, <2>1, <2>2, <3>1
      <3>2. CASE ~(q < N)
        BY <1>8, <2>1, <2>2, <3>2
      <3> QED
        BY <3>1, <3>2
    <2> QED
      BY <2>3, <2>4
  <1>11. More
    BY <1>5, <1>9, <1>10
  <1>12. N \in Nat /\ sent' <= Len(outcomes) + 2
    BY <1>1, <1>5, <1>7
  <1> HIDE DEF A, B
  <1> QED
    BY <1>1, <1>2, <1>3, <1>4, <1>6, <1>11, <1>12

(* It flows behind what is under way. *)
LEMMA PeerSendsFlows ==
  ASSUME ParserInv, Ahead, PeerSends,
         \/ sent = 0 \/ Len(outcomes) = sent \/ Len(outcomes) + 1 >= sent,
         NEW base \in Nat, base <= fill_ptr, Flow(base)
  PROVE  /\ Len(wire') + fill_ptr - base = Total(Index)'
         /\ \A j \in 1 .. Len(wire') : wire'[j] = Due(Index, fill_ptr - base + j - 1)'
         /\ \A q \in base .. fill_ptr - 1 : Due(Index, q - base)' = Due(Index, q - base)
  <1> DEFINE b == conversation[sent + 1].bytes
             N == Total(Index)
             w == Len(wire)
             f == fill_ptr - base
  <1>1. /\ Len(b) \in Nat /\ N \in Nat /\ w \in Nat /\ Len(wire') = w + Len(b)
        /\ \A j \in 1 .. w + Len(b) : wire'[j] = IF j <= w THEN wire[j] ELSE b[j - w]
        /\ Total(Index)' = N + Len(b)
        /\ \A q \in Nat : q < N + Len(b) =>
              Due(Index, q)' = IF q < N THEN Due(Index, q) ELSE b[q - N + 1]
    BY OneMoreDue
  <1>2. /\ w + fill_ptr - base = N
        /\ \A j \in 1 .. w : wire[j] = Due(Index, fill_ptr - base + j - 1)
    BY DEF Flow
  <1>3. f \in Nat /\ fill_ptr \in Nat
    BY Bounds
  <1>4. w + f = N
    BY <1>1, <1>2, <1>3
  <1> HIDE DEF b, N, w
  <1>5. Len(wire') + fill_ptr - base = Total(Index)'
    BY <1>1, <1>2, <1>3
  <1> HIDE DEF f
  <1>6. ASSUME NEW j \in 1 .. w + Len(b) PROVE wire'[j] = Due(Index, fill_ptr - base + j - 1)'
    <2>1. PICK g \in Nat : g = f + j - 1 /\ g < N + Len(b)
      BY <1>1, <1>3, <1>4
    <2>2. wire'[j] = Due(Index, g)'
      <3>1. CASE j <= w
        <4>1. g < N /\ j \in 1 .. w
          BY <1>1, <1>3, <1>4, <2>1, <3>1
        <4>2. wire[j] = Due(Index, g)
          BY <1>2, <2>1, <4>1 DEF f
        <4>3. Due(Index, g)' = Due(Index, g)
          BY <1>1, <2>1, <4>1
        <4>4. wire'[j] = wire[j]
          BY <1>1, <3>1
        <4> QED
          BY <4>2, <4>3, <4>4
      <3>2. CASE j > w
        <4>1. ~(g < N) /\ ~(j <= w) /\ g - N + 1 = j - w
          BY <1>1, <1>3, <1>4, <2>1, <3>2
        <4>2. Due(Index, g)' = b[g - N + 1]
          BY <1>1, <2>1, <4>1
        <4> QED
          BY <1>1, <4>1, <4>2
      <3> QED
        BY <1>1, <3>1, <3>2
    <2>3. g = fill_ptr' - base + j - 1
      BY <2>1 DEF f, PeerSends, bufVars
    <2> QED
      BY <2>2, <2>3 DEF PeerSends, bufVars
  <1>7. ASSUME NEW q \in base .. fill_ptr - 1 PROVE Due(Index, q - base)' = Due(Index, q - base)
    <2>1. q - base \in Nat /\ q - base < N
      BY <1>1, <1>3, <1>4, SMTT(30) DEF f
    <2>2. q - base < N + Len(b)
      BY <1>1, <2>1
    <2> QED
      BY <1>1, <2>1, <2>2
  <1> QED
    BY <1>1, <1>5, <1>6, <1>7

(* The peer may send only where the parser can tell the requests apart. *)
LEMMA PeerSendsReads ==
  ASSUME ParserInv, ReadInv, PeerSends PROVE ReadInv'
  <1>1. /\ mem' = mem /\ process_ptr' = process_ptr /\ fill_ptr' = fill_ptr
        /\ e' = e /\ p' = p /\ pc' = pc /\ outcomes' = outcomes
        /\ conversation' = conversation /\ sent' = sent + 1
    BY DEF PeerSends, bufVars
  <1>2. /\ Ahead /\ OutcomesMatch /\ Len(outcomes) \in Nat /\ sent \in Nat /\ Len(outcomes) <= sent
        /\ fill_ptr \in Nat /\ process_ptr \in Nat /\ process_ptr <= fill_ptr
    BY SentTypes, Bounds DEF ReadInv
  <1>3. \/ sent = 0 \/ Len(outcomes) = sent
        \/ Len(outcomes) + 1 >= sent /\ conversation[sent].pipelines
    BY <1>2 DEF PeerSends
  <1>4. \/ sent = 0 \/ Len(outcomes) = sent \/ Len(outcomes) + 1 >= sent
    BY <1>3
  <1>5. Index' = Index /\ This' = This
    BY <1>1 DEF Index, This
  <1>6. OutcomesMatch'
    <2>1. \A k \in DOMAIN outcomes : k <= sent /\ outcomes[k] = conversation[k].outcome
      BY <1>2 DEF OutcomesMatch
    <2>2. \A k \in DOMAIN outcomes : k \in Nat
      BY DEF ReadInv, Ahead
    <2>3. \A k \in DOMAIN outcomes : k <= sent + 1
      BY <1>2, <2>1, <2>2
    <2> QED
      BY <1>1, <2>1, <2>3 DEF OutcomesMatch
  <1>7. Ahead'
    <2>1. sent' <= Len(outcomes) + 2 /\ Len(outcomes) <= sent'
      BY <1>1, <1>2, <1>4
    <2>2. sent' = Len(outcomes) + 2 => This.pipelines
      <3>1. ASSUME sent' = Len(outcomes) + 2 PROVE sent = Index /\ sent # 0 /\ sent # Len(outcomes)
        BY <1>1, <1>2, <3>1 DEF Index
      <3> QED
        BY <1>3, <3>1 DEF This
    <2> QED
      BY <1>1, <1>2, <1>5, <2>1, <2>2 DEF Ahead
  <1>8. ASSUME NEW base \in Nat, base <= fill_ptr, Flow(base)
        PROVE  /\ Len(wire') + fill_ptr' - base = Total(Index)'
               /\ \A j \in 1 .. Len(wire') : wire'[j] = Due(Index, fill_ptr - base + j - 1)'
               /\ \A q \in base .. fill_ptr - 1 : Due(Index, q - base)' = Due(Index, q - base)
    BY <1>1, <1>2, <1>4, <1>8, PeerSendsFlows
  <1>9. ASSUME Buffered PROVE Buffered'
    <2>1. Flow(0)
      BY <1>9 DEF Buffered
    <2>2. /\ Len(wire') + fill_ptr' - 0 = Total(Index)'
          /\ \A j \in 1 .. Len(wire') : wire'[j] = Due(Index, fill_ptr - 0 + j - 1)'
          /\ \A q \in 0 .. fill_ptr - 1 : Due(Index, q - 0)' = Due(Index, q - 0)
      <3>1. PICK base \in Nat : base = 0
        OBVIOUS
      <3>2. Flow(base) /\ base <= fill_ptr
        BY <1>2, <2>1, <3>1
      <3>3. /\ Len(wire') + fill_ptr' - base = Total(Index)'
            /\ \A j \in 1 .. Len(wire') : wire'[j] = Due(Index, fill_ptr - base + j - 1)'
            /\ \A q \in base .. fill_ptr - 1 : Due(Index, q - base)' = Due(Index, q - base)
        BY <1>8, <3>2
      <3> QED
        BY <3>1, <3>3
    <2>3. Flow(0)'
      BY <2>2 DEF Flow
    <2>4. Intact'
      <3> SUFFICES ASSUME NEW q \in 0 .. fill_ptr - 1, q < e.body \/ e.chunked_body_end <= q
                   PROVE  mem[q] = Due(Index, q)'
        BY <1>1 DEF Intact
      <3>1. mem[q] = Due(Index, q)
        BY <1>9 DEF Buffered, Intact
      <3>2. q - 0 = q
        BY <1>2
      <3>3. Due(Index, q - 0)' = Due(Index, q - 0)
        BY <2>2
      <3> QED
        BY <3>1, <3>2, <3>3
    <2>5. Uncut' /\ Gathered' /\ ~e'.reforming_flag
      BY <1>1, <1>5, <1>9 DEF Buffered, Uncut, Gathered
    <2> QED
      BY <2>3, <2>4, <2>5 DEF Buffered
  <1>10. ASSUME Waits PROVE Waits'
    <2>1. Len(outcomes) < sent => Len(outcomes) < sent + 1
      BY <1>2
    <2> QED
      BY <1>1, <1>5, <1>10, <2>1 DEF Waits, Size
  <1>11. ASSUME Parses PROVE Parses'
    <2>1. Len(outcomes) < sent => Len(outcomes) < sent + 1
      BY <1>2
    <2> QED
      BY <1>1, <1>5, <1>11, <2>1 DEF Parses, Size
  <1>12. ASSUME Answered PROVE Answered'
    <2>1. CASE Len(outcomes) = Len(conversation) /\ e.keepalive = -1
      BY <1>1, <2>1 DEF Answered
    <2>2. CASE /\ Flow(process_ptr) /\ Uncut /\ e.chunked_body_end = -1
               /\ \A q \in process_ptr .. fill_ptr - 1 : mem[q] = Due(Index, q - process_ptr)
               /\ e.reforming_flag <=> process_ptr < fill_ptr
               /\ e.header_array_size = HeaderArraySize
      <3>1. PICK base \in Nat : base = process_ptr
        BY <1>2
      <3>2. Flow(base) /\ base <= fill_ptr
        BY <1>2, <2>2, <3>1
      <3>3. /\ Len(wire') + fill_ptr' - base = Total(Index)'
            /\ \A j \in 1 .. Len(wire') : wire'[j] = Due(Index, fill_ptr - base + j - 1)'
            /\ \A q \in base .. fill_ptr - 1 : Due(Index, q - base)' = Due(Index, q - base)
        BY <1>8, <3>2
      <3>4. Flow(process_ptr)'
        BY <1>1, <3>1, <3>3 DEF Flow
      <3>5. \A q \in base .. fill_ptr - 1 : mem[q] = Due(Index, q - base)'
        BY <2>2, <3>1, <3>3
      <3>6. \A q \in process_ptr' .. fill_ptr' - 1 : mem'[q] = Due(Index, q - process_ptr)'
        BY <1>1, <3>1, <3>5
      <3>7. Uncut' /\ e'.chunked_body_end = -1 /\ (e'.reforming_flag <=> process_ptr' < fill_ptr')
            /\ e'.header_array_size = HeaderArraySize
        BY <1>1, <2>2 DEF Uncut
      <3> QED
        BY <3>4, <3>6, <3>7 DEF Answered
    <2> QED
      BY <1>12, <2>1, <2>2 DEF Answered
  <1> QED
    BY <1>1, <1>6, <1>7, <1>9, <1>10, <1>11, <1>12 DEF ReadInv

(* Where chunks are gathered, the body begins where the layout says. *)
LEMMA StandingBody ==
  ASSUME NEW env, NEW at, NEW r, NEW l, Standing(env, at, r, l), env.chunked_body_end # -1
  PROVE  env.body = l.body
  <1>1. ASSUME InLines(env, r, l) PROVE env.body = l.body
    BY <1>1 DEF InLines, InHeaders, NoBody, InTrailer, InChunk, AllTold
  <1>2. ~Empty(env, r, l)
    BY DEF Empty, InHeaders, NoBody
  <1>3. AtName0(env, at, r, l) \/ AtName(env, at, r, l) \/ AtValue0(env, at, r, l)
        \/ AtValue(env, at, r, l) \/ AtSize(env, at, r, l) \/ AtData(env, at, r, l)
    <2>1. /\ ~AtMethod0(env, at, r, l) /\ ~AtMethod(env, at, r, l) /\ ~AtUri0(env, at, r, l)
          /\ ~AtUri(env, at, r, l) /\ ~AtVersion0(env, at, r, l) /\ ~AtVersion(env, at, r, l)
      BY <1>2 DEF AtMethod0, AtMethod, AtUri0, AtUri, AtVersion0, AtVersion
    <2>2. ~AtBody(env, at, r, l)
      BY DEF AtBody
    <2> QED
      BY <2>1, <2>2 DEF Standing
  <1>4. ASSUME AtSize(env, at, r, l) \/ AtData(env, at, r, l) PROVE env.body = l.body
    BY <1>4 DEF AtSize, AtData, InChunk, AllTold
  <1> QED
    BY <1>1, <1>3, <1>4 DEF AtName0, AtName, AtValue0, AtValue

(* Bytes that have come in, or are under way, are of a request not answered. *)
LEMMA SomethingSent ==
  ASSUME ParserInv, Ahead, Flow(0), Len(wire) + fill_ptr > 0
  PROVE  Len(outcomes) < sent
  <1>1. /\ Len(outcomes) \in Nat /\ sent \in Nat /\ Len(outcomes) <= sent /\ Index = Len(outcomes) + 1
        /\ fill_ptr \in Nat /\ Len(wire) \in Nat
    BY SentTypes, Bounds DEF ParserInv, ParserTypeOK
  <1>2. Len(wire) + fill_ptr - 0 = Total(Index)
    BY DEF Flow
  <1>3. ASSUME Len(outcomes) = sent PROVE FALSE
    <2>1. ~(Index <= sent) /\ ~(Index + 1 <= sent)
      BY <1>1, <1>3
    <2>2. Len(Outstanding(Index)) = 0 /\ Len(Outstanding(Index + 1)) = 0
      BY <2>1 DEF Outstanding
    <2>3. Total(Index) = 0
      BY <2>2 DEF Total
    <2> QED
      BY <1>1, <1>2, <2>3
  <1> QED
    BY <1>1, <1>3

(* A request begins at the base with nothing known of it. *)
LEMMA FreshStands ==
  ASSUME NEW r, NEW l, Expects(r, l), NEW env, env = [FreshEnv EXCEPT !.parse_step = "METHOD0"]
  PROVE  Standing(env, 0, r, l) /\ 0 < Size(r)
  <1>1. /\ env.parse_step = "METHOD0" /\ env.body = -1 /\ env.chunked_body_end = -1
        /\ env.chunked_length = 0 /\ env.header_array = <<>>
        /\ env.header_array_size = HeaderArraySize /\ env.chunked = FALSE
        /\ env.TRAILER = NoToken /\ env.content_length = 0
    BY DEF FreshEnv
  <1>2. Len(env.header_array) = 0
    BY <1>1
  <1>3. l \in Layout /\ Size(r) \in Nat /\ MethodGap(r, l)
    BY StartLineEnds DEF Expects, Written
  <1>4. l.line \in Nat /\ l.header \in Seq(Header) /\ l.method.from \in Nat
    BY <1>3, LayoutTypes
  <1>5. Told(env, r, l, 0)
    <2>1. 1 .. 0 = {} /\ 0 <= Len(l.header) /\ LineAt(l, 0 + 1) = l.line /\ l.line <= l.line
      BY <1>4 DEF LineAt
    <2> QED
      BY <1>1, <1>2, <2>1 DEF Told
  <1>6. Empty(env, r, l)
    <2>1. LengthTold(r, l, 0) = 0
      BY DEF LengthTold
    <2> QED
      BY <1>1, <1>2, <1>5, <2>1 DEF Empty, InHeaders, NoBody
  <1>7. 0 <= l.method.from /\ 0 < Size(r)
    BY <1>3, <1>4 DEF MethodGap, Gap
  <1>8. AtMethod0(env, 0, r, l)
    BY <1>3, <1>6, <1>7 DEF AtMethod0
  <1> QED
    BY <1>1, <1>7, <1>8 DEF Standing

(* ParseHttpBuffer is called: the parser stands where it stopped. *)
LEMMA BeginReads ==
  ASSUME ParserInv, ReadInv, AllServable, pc = "recv", BeginParsing(process_ptr),
         process_ptr' = process_ptr, Len(wire) + fill_ptr > 0
  PROVE  /\ OutcomesMatch' /\ Ahead' /\ Parses' /\ pc' = "parse"
         /\ This' = This /\ Index' = Index
         /\ \A k, q : Due(k, q)' = Due(k, q) /\ Total(k)' = Total(k)
         /\ e'.body = e.body /\ e'.chunked_body_end = e.chunked_body_end /\ ~e'.reforming_flag
         /\ e.chunked_body_end # -1 => e.body \in Nat
  <1>1. /\ conversation' = conversation /\ sent' = sent /\ outcomes' = outcomes
        /\ p' = process_ptr /\ pc' = "parse" /\ process_ptr' = process_ptr
        /\ e' = IF e.parse_step = "BEGIN" THEN [e EXCEPT !.parse_step = "METHOD0"] ELSE e
    BY DEF BeginParsing
  <1>2. /\ Ahead /\ OutcomesMatch /\ Waits /\ Flow(0) /\ ~e.reforming_flag
    BY DEF ReadInv, Buffered
  <1>3. This' = This /\ Index' = Index
    BY <1>1 DEF This, Index
  <1>4. \A k, q : Due(k, q)' = Due(k, q) /\ Total(k)' = Total(k)
    BY <1>1 DEF Due, Total, Outstanding
  <1>5. OutcomesMatch' /\ Ahead'
    BY <1>1, <1>2, <1>3 DEF OutcomesMatch, Ahead
  <1>6. Len(outcomes) < sent
    BY <1>2, SomethingSent
  <1>7. Expects(This, This.layout)
    BY <1>2, <1>6, ThisExpected
  <1>8. CASE e.parse_step = "BEGIN"
    <2>1. e = FreshEnv /\ process_ptr = 0 /\ e' = [FreshEnv EXCEPT !.parse_step = "METHOD0"]
      BY <1>1, <1>2, <1>8 DEF Waits
    <2>2. Standing(e', 0, This, This.layout) /\ 0 < Size(This)
      BY <1>7, <2>1, FreshStands
    <2>3. /\ e'.body = -1 /\ e'.chunked_body_end = -1 /\ ~e'.reforming_flag
          /\ e.body = -1 /\ e.chunked_body_end = -1
      BY <2>1 DEF FreshEnv
    <2>4. Parses'
      <3>1. process_ptr' <= p'
        BY <1>1, <2>1
      <3> QED
        BY <1>1, <1>3, <1>6, <2>1, <2>2, <3>1 DEF Parses, Size
    <2> QED
      BY <1>1, <1>3, <1>4, <1>5, <2>3, <2>4
  <1>9. CASE e.parse_step # "BEGIN"
    <2>1. e' = e /\ fill_ptr < Size(This) /\ Standing(e, process_ptr, This, This.layout)
      BY <1>1, <1>2, <1>9 DEF Waits
    <2>2. process_ptr < Size(This) /\ process_ptr <= process_ptr
      <3>1. fill_ptr \in Nat /\ process_ptr \in 0 .. fill_ptr /\ Size(This) \in Nat
        BY <1>7, Bounds DEF Expects
      <3>2. fill_ptr < Size(This)
        BY <2>1
      <3> QED
        BY <3>1, <3>2
    <2>3. Parses'
      BY <1>1, <1>3, <1>6, <2>1, <2>2 DEF Parses, Size
    <2>4. e.chunked_body_end # -1 => e.body \in Nat
      <3>1. This.layout.body \in Nat
        BY <1>7, LayoutTypes DEF Expects, Written
      <3> QED
        BY <2>1, <3>1, StandingBody
    <2> QED
      BY <1>1, <1>2, <1>3, <1>4, <1>5, <2>1, <2>3, <2>4
  <1> QED
    BY <1>8, <1>9

(* Bytes that waited at the base are parsed. *)
LEMMA ParseWaitingReads ==
  ASSUME ParserInv, ReadInv, AllServable, ParseWaiting PROVE ReadInv'
  <1>1. /\ pc = "recv" /\ BeginParsing(process_ptr) /\ process_ptr < fill_ptr
        /\ wire' = wire /\ mem' = mem /\ process_ptr' = process_ptr /\ fill_ptr' = fill_ptr
    BY DEF ParseWaiting, bufVars
  <1>2. Len(wire) + fill_ptr > 0
    <2>1. Len(wire) \in Nat /\ fill_ptr \in Nat /\ process_ptr \in 0 .. fill_ptr
      BY Bounds DEF ParserInv, ParserTypeOK
    <2> QED
      BY <1>1, <2>1
  <1>3. /\ OutcomesMatch' /\ Ahead' /\ Parses' /\ pc' = "parse"
        /\ This' = This /\ Index' = Index
        /\ \A k, q : Due(k, q)' = Due(k, q) /\ Total(k)' = Total(k)
        /\ e'.body = e.body /\ e'.chunked_body_end = e.chunked_body_end /\ ~e'.reforming_flag
    BY <1>1, <1>2, BeginReads
  <1>4. Buffered
    BY <1>1 DEF ReadInv
  <1>5. Flow(0)'
    BY <1>1, <1>3, <1>4 DEF Buffered, Flow
  <1>6. Intact'
    BY <1>1, <1>3, <1>4 DEF Buffered, Intact
  <1>7. Uncut' /\ Gathered'
    BY <1>1, <1>3, <1>4 DEF Buffered, Uncut, Gathered
  <1>8. Buffered'
    BY <1>3, <1>5, <1>6, <1>7 DEF Buffered
  <1> QED
    BY <1>3, <1>8 DEF ReadInv

(* What recv() brings is what is due. *)
LEMMA ReceiveReads ==
  ASSUME ParserInv, ReadInv, AllServable, ~BlankLineCut, Receive PROVE ReadInv'
  <1>1. PICK n \in 1 .. Len(wire) :
          /\ fill_ptr + n <= BufSize - 1
          /\ mem' = [q \in Offsets |->
               IF q \in fill_ptr .. fill_ptr + n - 1 THEN wire[q - fill_ptr + 1] ELSE mem[q]]
          /\ fill_ptr' = fill_ptr + n
          /\ wire' = SubSeq(wire, n + 1, Len(wire))
          /\ ~CutsBlankLine
    BY DEF Receive
  <1>2. /\ pc = "recv" /\ BeginParsing(process_ptr) /\ process_ptr' = process_ptr
    BY DEF Receive
  <1>3. /\ wire \in Seq(Symbols) /\ Len(wire) \in Nat /\ fill_ptr \in Nat
        /\ BufSize \in Nat /\ process_ptr \in Nat
    BY Bounds, ParserAssumption DEF ParserInv, ParserTypeOK
  <1>4. n \in Nat /\ n >= 1 /\ n <= Len(wire)
    BY <1>1, <1>3
  <1>5. Len(wire) + fill_ptr > 0
    BY <1>3, <1>4
  <1>6. /\ OutcomesMatch' /\ Ahead' /\ Parses' /\ pc' = "parse"
        /\ This' = This /\ Index' = Index
        /\ \A k, q : Due(k, q)' = Due(k, q) /\ Total(k)' = Total(k)
        /\ e'.body = e.body /\ e'.chunked_body_end = e.chunked_body_end /\ ~e'.reforming_flag
        /\ e.chunked_body_end # -1 => e.body \in Nat
    BY <1>2, <1>5, BeginReads
  <1>7. /\ Len(wire') = Len(wire) - n
        /\ \A j \in 1 .. Len(wire) - n : wire'[j] = wire[n + j]
    <2>1. \A j \in n + 1 .. Len(wire) : wire[j] \in Symbols
      BY <1>3, <1>4
    <2>2. n + 1 \in Int /\ Len(wire) \in Int
      BY <1>3, <1>4
    <2>3. /\ Len(wire') = IF n + 1 <= Len(wire) THEN Len(wire) - (n + 1) + 1 ELSE 0
          /\ \A j \in 1 .. Len(wire) - (n + 1) + 1 : wire'[j] = wire[(n + 1) + j - 1]
      BY <1>1, <2>1, <2>2, SubSeqProperties
    <2>4. Len(wire') = Len(wire) - n
      BY <1>3, <1>4, <2>3
    <2>5. ASSUME NEW j \in 1 .. Len(wire) - n PROVE wire'[j] = wire[n + j]
      <3>1. j \in 1 .. Len(wire) - (n + 1) + 1 /\ (n + 1) + j - 1 = n + j
        BY <1>3, <1>4
      <3> QED
        BY <2>3, <3>1
    <2> QED
      BY <2>4, <2>5
  <1>8. Buffered
    BY <1>2 DEF ReadInv
  <1>9. /\ Len(wire) + fill_ptr - 0 = Total(Index)
        /\ \A j \in 1 .. Len(wire) : wire[j] = Due(Index, fill_ptr - 0 + j - 1)
    BY <1>8 DEF Buffered, Flow
  <1>10. ASSUME NEW q \in Nat, q < fill_ptr + n
         PROVE  mem'[q] = IF q < fill_ptr THEN mem[q] ELSE wire[q - fill_ptr + 1]
    <2>1. q \in Offsets
      BY <1>1, <1>3, <1>4, <1>10 DEF Offsets
    <2>2. mem'[q] = IF q \in fill_ptr .. fill_ptr + n - 1 THEN wire[q - fill_ptr + 1] ELSE mem[q]
      BY <1>1, <2>1
    <2>3. q \in fill_ptr .. fill_ptr + n - 1 <=> ~(q < fill_ptr)
      BY <1>3, <1>4, <1>10
    <2> QED
      BY <2>2, <2>3
  <1>11. Flow(0)'
    <2>1. Len(wire') + (fill_ptr + n) - 0 = Total(Index)
      BY <1>3, <1>4, <1>7, <1>9
    <2>2. ASSUME NEW j \in 1 .. Len(wire') PROVE wire'[j] = Due(Index, (fill_ptr + n) - 0 + j - 1)
      <3>1. j \in 1 .. Len(wire) - n
        BY <1>7
      <3>2. /\ n + j \in 1 .. Len(wire)
            /\ fill_ptr - 0 + (n + j) - 1 = (fill_ptr + n) - 0 + j - 1
        BY <1>3, <1>4, <3>1
      <3>3. wire'[j] = wire[n + j]
        BY <1>7, <3>1
      <3>4. wire[n + j] = Due(Index, fill_ptr - 0 + (n + j) - 1)
        BY <1>9, <3>2
      <3> QED
        BY <3>2, <3>3, <3>4
    <2> QED
      BY <1>1, <1>6, <2>1, <2>2 DEF Flow
  <1>12. Intact'
    <2>a. ASSUME NEW q \in 0 .. fill_ptr + n - 1, q < e.body \/ e.chunked_body_end <= q
          PROVE  mem'[q] = Due(Index, q)
      <3>1. q \in Nat /\ q < fill_ptr + n
        BY <1>3, <1>4, <2>a
      <3>2. CASE q < fill_ptr
        <4>1. q \in 0 .. fill_ptr - 1
          BY <1>3, <3>1, <3>2
        <4>2. mem[q] = Due(Index, q)
          BY <1>8, <2>a, <4>1 DEF Buffered, Intact
        <4> QED
          BY <1>10, <3>1, <3>2, <4>2
      <3>3. CASE ~(q < fill_ptr)
        <4>1. q - fill_ptr + 1 \in 1 .. Len(wire) /\ fill_ptr - 0 + (q - fill_ptr + 1) - 1 = q
          BY <1>3, <1>4, <3>1, <3>3
        <4>2. wire[q - fill_ptr + 1] = Due(Index, q)
          BY <1>9, <4>1
        <4> QED
          BY <1>10, <3>1, <3>3, <4>2
      <3> QED
        BY <3>2, <3>3
    <2>b. \A q : Due(Index, q)' = Due(Index, q)
      BY <1>6
    <2>c. \A q \in 0 .. fill_ptr' - 1 :
            q < e'.body \/ e'.chunked_body_end <= q => mem'[q] = Due(Index, q)'
      <3>1. /\ fill_ptr' = fill_ptr + n
            /\ e'.body = e.body /\ e'.chunked_body_end = e.chunked_body_end
        BY <1>1, <1>6
      <3>2. SUFFICES ASSUME NEW q \in 0 .. fill_ptr' - 1, q < e'.body \/ e'.chunked_body_end <= q
                     PROVE  mem'[q] = Due(Index, q)'
        OBVIOUS
      <3>3. q \in 0 .. fill_ptr + n - 1
        BY <1>3, <1>4, <3>1
      <3>4. q < e.body \/ e.chunked_body_end <= q
        BY <3>1, <3>2
      <3> QED
        BY <2>a, <2>b, <3>3, <3>4
    <2> QED
      BY <2>c DEF Intact
  <1>13. Gathered'
    <2> SUFFICES ASSUME e.chunked_body_end # -1,
                        NEW j \in 1 .. e.chunked_body_end - e.body
                 PROVE  mem'[e.body + j - 1] = This.layout.content[j]
      BY <1>6 DEF Gathered
    <2>1. e.body \in Nat /\ e.chunked_body_end \in Int /\ e.chunked_body_end <= fill_ptr
      <3>1. e.chunked_body_end \in Int /\ e.chunked_body_end <= fill_ptr
        BY Bounds DEF Within, Env
      <3> QED
        BY <1>6, <3>1
    <2>2. e.body + j - 1 \in Nat /\ e.body + j - 1 < fill_ptr
      BY <1>3, <2>1
    <2>3. e.body + j - 1 < fill_ptr + n
      BY <1>3, <1>4, <2>1, <2>2
    <2>4. mem'[e.body + j - 1] = mem[e.body + j - 1]
      BY <1>10, <2>2, <2>3
    <2>5. mem[e.body + j - 1] = This.layout.content[j]
      BY <1>8 DEF Buffered, Gathered
    <2> QED
      BY <2>4, <2>5
  <1>14. Uncut'
    <2>1. fill_ptr' >= 2 /\ mem'[fill_ptr' - 2] = NL /\ mem'[fill_ptr' - 1] = CR
            => process_ptr = fill_ptr' - 1
      BY <1>1 DEF CutsBlankLine
    <2>2. process_ptr = fill_ptr' - 1 => process_ptr >= fill_ptr' - 1
      BY <1>3
    <2> QED
      BY <1>2, <2>1, <2>2 DEF Uncut
  <1>15. Buffered'
    BY <1>6, <1>11, <1>12, <1>13, <1>14 DEF Buffered
  <1> QED
    BY <1>6, <1>15 DEF ReadInv

(* The reset leaves what stands behind the request at the base. *)
LEMMA KeepAliveReads ==
  ASSUME ParserInv, ReadInv, KeepAlive PROVE ReadInv'
  <1>1. /\ pc = "done" /\ e.keepalive # -1 /\ process_ptr' = 0
        /\ pc' = IF ArrayShrinks THEN "undefined" ELSE "recv"
        /\ conversation' = conversation /\ sent' = sent /\ wire' = wire /\ outcomes' = outcomes
    BY DEF KeepAlive, ResetHttpEnv, CheckHttpKeepAlive, peerVars
  <1>2. /\ OutcomesMatch /\ Ahead
        /\ Flow(process_ptr) /\ Uncut /\ e.chunked_body_end = -1
        /\ \A q \in process_ptr .. fill_ptr - 1 : mem[q] = Due(Index, q - process_ptr)
        /\ e.reforming_flag <=> process_ptr < fill_ptr
        /\ e.header_array_size = HeaderArraySize
    BY <1>1 DEF ReadInv, Answered
  <1>3. fill_ptr \in Nat /\ process_ptr \in Nat /\ process_ptr <= fill_ptr /\ fill_ptr < BufSize
        /\ BufSize \in Nat /\ Len(wire) \in Nat
    BY Bounds, ParserAssumption DEF ParserInv, ParserTypeOK
  <1> DEFINE len == fill_ptr - process_ptr
             keep == process_ptr < fill_ptr /\ e.reforming_flag
  <1>4. /\ mem' = IF keep THEN [q \in Offsets |-> IF q < len THEN mem[process_ptr + q] ELSE mem[q]]
                  ELSE mem
        /\ fill_ptr' = IF keep THEN len ELSE 0
        /\ e' = [FreshEnv EXCEPT !.reforming_flag = e.reforming_flag /\ ~keep,
                                 !.header_array_size = IF ArrayShrinks THEN @
                                                       ELSE e.header_array_size]
        /\ ~ArrayShrinks /\ pc' = "recv"
    <2>1. ~ArrayShrinks
      BY <1>2, ParserAssumption DEF ArrayShrinks
    <2> QED
      BY <1>1, <2>1 DEF KeepAlive, ResetHttpEnv
  <1>5. keep <=> process_ptr < fill_ptr
    BY <1>2
  <1>6. e' = FreshEnv
    <2>1. (e.reforming_flag /\ ~keep) = FALSE
      BY <1>2
    <2> HIDE DEF keep
    <2> QED
      BY <1>2, <1>4, <2>1 DEF FreshEnv
  <1>7. len \in Nat
    BY <1>3
  <1>8. fill_ptr' = len /\ \A q \in 0 .. len - 1 : mem'[q] = mem[process_ptr + q]
    <2>1. CASE process_ptr < fill_ptr
      <3>1. /\ mem' = [q \in Offsets |-> IF q < len THEN mem[process_ptr + q] ELSE mem[q]]
            /\ fill_ptr' = len
        BY <1>4, <1>5, <2>1
      <3>2. ASSUME NEW q \in 0 .. len - 1 PROVE q \in Offsets /\ q < len
        BY <1>3, <3>2 DEF Offsets
      <3> HIDE DEF len
      <3> QED
        BY <3>1, <3>2
    <2>2. CASE ~(process_ptr < fill_ptr)
      <3>1. fill_ptr' = 0 /\ len = 0
        BY <1>3, <1>4, <1>5, <2>2
      <3>2. 0 .. len - 1 = {}
        BY <3>1
      <3> QED
        BY <3>1, <3>2
    <2> QED
      BY <2>1, <2>2
  <1>9. Index' = Index /\ This' = This
    BY <1>1 DEF Index, This
  <1>10. \A k, q : Due(k, q)' = Due(k, q) /\ Total(k)' = Total(k)
    BY <1>1 DEF Due, Total, Outstanding
  <1>11. /\ Total(Index)' = Total(Index) /\ \A q : Due(Index, q)' = Due(Index, q)
    BY <1>9, <1>10
  <1>12. OutcomesMatch' /\ Ahead'
    BY <1>1, <1>2, <1>9 DEF OutcomesMatch, Ahead
  <1>13. /\ e'.chunked_body_end = -1 /\ ~e'.reforming_flag /\ e'.parse_step = "BEGIN"
    BY <1>6 DEF FreshEnv
  <1>14. Flow(0)'
    <2>1. /\ Len(wire) + fill_ptr - process_ptr = Total(Index)
          /\ \A j \in 1 .. Len(wire) : wire[j] = Due(Index, fill_ptr - process_ptr + j - 1)
      BY <1>2 DEF Flow
    <2>2. Len(wire) + len - 0 = Total(Index) /\ len - 0 = len
      BY <1>3, <2>1
    <2>3. \A j \in 1 .. Len(wire) : wire[j] = Due(Index, len - 0 + j - 1)
      BY <2>1, <2>2
    <2> HIDE DEF len
    <2>4. Len(wire') + fill_ptr' - 0 = Total(Index)'
      BY <1>1, <1>8, <1>11, <2>2
    <2>5. \A j \in 1 .. Len(wire') : wire'[j] = Due(Index, fill_ptr - 0 + j - 1)'
      BY <1>1, <1>8, <1>9, <1>10, <2>3
    <2> QED
      BY <2>4, <2>5 DEF Flow
  <1>15. Intact'
    <2>1. ASSUME NEW q \in 0 .. len - 1 PROVE mem'[q] = Due(Index, q)'
      <3>1. process_ptr + q \in process_ptr .. fill_ptr - 1 /\ (process_ptr + q) - process_ptr = q
        BY <1>3, <2>1
      <3>2. mem[process_ptr + q] = Due(Index, q)
        BY <1>2, <3>1
      <3> QED
        BY <1>8, <1>11, <3>2
    <2>2. \A q \in 0 .. fill_ptr' - 1 : mem'[q] = Due(Index, q)'
      <3> HIDE DEF len
      <3> QED
        BY <1>7, <1>8, <2>1
    <2> QED
      BY <2>2 DEF Intact
  <1>16. Uncut'
    <2>1. ASSUME len >= 2, mem'[len - 2] = NL, mem'[len - 1] = CR PROVE FALSE
      <3>1. /\ len - 2 \in 0 .. len - 1 /\ len - 1 \in 0 .. len - 1
            /\ process_ptr + (len - 2) = fill_ptr - 2 /\ process_ptr + (len - 1) = fill_ptr - 1
            /\ fill_ptr >= 2 /\ ~(process_ptr >= fill_ptr - 1)
        BY <1>3, <2>1
      <3>2. mem[fill_ptr - 2] = NL /\ mem[fill_ptr - 1] = CR
        BY <1>8, <2>1, <3>1
      <3> QED
        BY <1>2, <3>1, <3>2 DEF Uncut
    <2> HIDE DEF len
    <2> QED
      BY <1>8, <2>1 DEF Uncut
  <1>17. Gathered'
    BY <1>13 DEF Gathered
  <1>18. Buffered'
    BY <1>13, <1>14, <1>15, <1>16, <1>17 DEF Buffered
  <1>19. Waits'
    BY <1>1, <1>6, <1>13 DEF Waits, FreshEnv
  <1> QED
    BY <1>4, <1>12, <1>18, <1>19 DEF ReadInv

(* Every step keeps the invariant. *)
LEMMA NextReads ==
  ASSUME ParserInv, ReadInv, AllServable, ~BlankLineCut, [Next]_vars PROVE ReadInv'
  <1>1. CASE UNCHANGED vars
    <2>1. /\ conversation' = conversation /\ sent' = sent /\ wire' = wire /\ mem' = mem
          /\ process_ptr' = process_ptr /\ fill_ptr' = fill_ptr /\ e' = e /\ p' = p
          /\ pc' = pc /\ outcomes' = outcomes
      BY <1>1 DEF vars, peerVars, bufVars
    <2>2. Index' = Index /\ This' = This
      BY <2>1 DEF Index, This
    <2>3. \A k, q : Due(k, q)' = Due(k, q) /\ Total(k)' = Total(k)
      BY <2>1 DEF Due, Total, Outstanding
    <2>4. \A q : Due(Index, q)' = Due(Index, q) /\ Total(Index)' = Total(Index)
      BY <2>2, <2>3
    <2>5. OutcomesMatch' = OutcomesMatch /\ Ahead' = Ahead
      BY <2>1, <2>2 DEF OutcomesMatch, Ahead
    <2>6. Flow(0)' = Flow(0) /\ Uncut' = Uncut /\ Intact' = Intact /\ Gathered' = Gathered
      <3>1. Flow(0)' = Flow(0)
        BY <2>1, <2>2, <2>3 DEF Flow
      <3>2. Intact' = Intact
        BY <2>1, <2>2, <2>3 DEF Intact
      <3>3. Uncut' = Uncut /\ Gathered' = Gathered
        BY <2>1, <2>2 DEF Uncut, Gathered
      <3> QED
        BY <3>1, <3>2, <3>3
    <2>7. Buffered' = Buffered
      BY <2>1, <2>6 DEF Buffered
    <2>8. Waits' = Waits /\ Parses' = Parses
      BY <2>1, <2>2 DEF Waits, Parses, Size
    <2>9. Answered' = Answered
      <3>1. Flow(process_ptr)' = Flow(process_ptr)
        BY <2>1, <2>2, <2>3 DEF Flow
      <3>2. (\A q \in process_ptr .. fill_ptr - 1 : mem[q] = Due(Index, q - process_ptr))' =
            (\A q \in process_ptr .. fill_ptr - 1 : mem[q] = Due(Index, q - process_ptr))
        BY <2>1, <2>2, <2>3
      <3> QED
        BY <2>1, <2>6, <3>1, <3>2 DEF Answered
    <2> QED
      BY <2>1, <2>5, <2>7, <2>8, <2>9 DEF ReadInv
  <1> QED
    BY <1>1, PeerSendsReads, ParseWaitingReads, ReceiveReads, ParseHttpBufferReads, KeepAliveReads,
       CloseReads DEF Next

(* The invariant holds in every state: the parser stands where the layout of the
   request says, whatever the pieces it came in. *)
THEOREM ParserReads ==
  ASSUME AllServable, ~BlankLineCut PROVE Spec => []ReadInv
  <1>1. Init => ReadInv
    BY InitReads
  <1>2. ParserInv /\ ReadInv /\ [Next]_vars => ReadInv'
    BY NextReads
  <1>3. Spec => []ParserInv
    BY ParserInBuffer DEF ParserInv
  <1> QED
    BY <1>1, <1>2, <1>3, PTL DEF Spec

----------------------------------------------------------------------------
(* What the invariant says of the properties. *)

(* Bytes that are due are the requests outstanding, one behind the other. *)
LEMMA UnreadIs ==
  ASSUME ParserInv, Ahead, Flow(process_ptr),
         \A q \in process_ptr .. fill_ptr - 1 : mem[q] = Due(Index, q - process_ptr)
  PROVE  [q \in 1 .. fill_ptr - process_ptr |-> mem[process_ptr + q - 1]] \o wire
           = Outstanding(Index) \o Outstanding(Index + 1)
  <1> DEFINE f == fill_ptr - process_ptr
             s == [q \in 1 .. f |-> mem[process_ptr + q - 1]]
             A == Outstanding(Index)
             B == Outstanding(Index + 1)
  <1>1. /\ Index \in Nat \ {0} /\ fill_ptr \in Nat /\ process_ptr \in Nat /\ process_ptr <= fill_ptr
        /\ fill_ptr < BufSize /\ BufSize \in Nat
        /\ wire \in Seq(Symbols) /\ Len(wire) \in Nat /\ mem \in [Offsets -> Symbols]
    BY SentTypes, Bounds, ParserAssumption DEF ParserInv, ParserTypeOK
  <1>2. A \in Seq(Symbols) /\ B \in Seq(Symbols) /\ Len(A) \in Nat /\ Len(B) \in Nat
    BY <1>1, OutstandingTypes
  <1>3. f \in Nat
    BY <1>1
  <1>4. s \in Seq(Symbols) /\ Len(s) = f /\ \A q \in 1 .. f : s[q] = mem[process_ptr + q - 1]
    <2>1. ASSUME NEW q \in 1 .. f PROVE mem[process_ptr + q - 1] \in Symbols
      <3>1. process_ptr + q - 1 \in Offsets
        BY <1>1 DEF Offsets
      <3> QED
        BY <1>1, <3>1
    <2> HIDE DEF f
    <2> QED
      BY <1>3, <2>1
  <1>5. Total(Index) = Len(A) + Len(B) /\ Len(wire) + f = Len(A) + Len(B)
    <2>1. Len(wire) + fill_ptr - process_ptr = Total(Index) /\ Total(Index) = Len(A) + Len(B)
      BY DEF Flow, Total
    <2> QED
      BY <1>1, <1>2, <2>1
  <1>6. \A q : Due(Index, q) = IF q < Len(A) THEN A[q + 1] ELSE B[q - Len(A) + 1]
    BY DEF Due
  <1>7. \A j \in 1 .. Len(wire) : wire[j] = Due(Index, fill_ptr - process_ptr + j - 1)
    BY DEF Flow
  <1>8. ASSUME NEW j \in 1 .. f + Len(wire) PROVE (s \o wire)[j] = Due(Index, j - 1)
    <2>1. (s \o wire)[j] = IF j <= f THEN s[j] ELSE wire[j - f]
      <3> HIDE DEF s, f
      <3> QED
        BY <1>1, <1>4, ConcatProperties
    <2>2. CASE j <= f
      <3>1. /\ j \in 1 .. f /\ process_ptr + j - 1 \in process_ptr .. fill_ptr - 1
            /\ (process_ptr + j - 1) - process_ptr = j - 1
        BY <1>1, <1>3, <2>2
      <3>2. mem[process_ptr + j - 1] = Due(Index, j - 1)
        BY <3>1
      <3> HIDE DEF s, f
      <3> QED
        BY <1>4, <2>1, <2>2, <3>1, <3>2
    <2>3. CASE ~(j <= f)
      <3>1. j - f \in 1 .. Len(wire) /\ fill_ptr - process_ptr + (j - f) - 1 = j - 1
        BY <1>1, <1>3, <2>3
      <3>2. wire[j - f] = Due(Index, j - 1)
        <4>1. wire[j - f] = Due(Index, fill_ptr - process_ptr + (j - f) - 1)
          BY <1>7, <3>1
        <4> QED
          BY <3>1, <4>1
      <3> HIDE DEF s, f
      <3> QED
        BY <2>1, <2>3, <3>2
    <2> QED
      BY <2>2, <2>3
  <1>9. ASSUME NEW j \in 1 .. Len(A) + Len(B) PROVE (A \o B)[j] = Due(Index, j - 1)
    <2>1. (A \o B)[j] = IF j <= Len(A) THEN A[j] ELSE B[j - Len(A)]
      <3> HIDE DEF A, B
      <3> QED
        BY <1>2, ConcatProperties
    <2> HIDE DEF A, B
    <2>2. (j - 1 < Len(A) <=> j <= Len(A)) /\ (j - 1) + 1 = j /\ (j - 1) - Len(A) + 1 = j - Len(A)
      BY <1>2
    <2>3. Due(Index, j - 1) = IF j - 1 < Len(A) THEN A[(j - 1) + 1] ELSE B[(j - 1) - Len(A) + 1]
      BY <1>6
    <2> QED
      BY <2>1, <2>2, <2>3
  <1> HIDE DEF s, f, A, B
  <1>10. /\ s \o wire \in Seq(Symbols) /\ A \o B \in Seq(Symbols)
         /\ Len(s \o wire) = f + Len(wire) /\ Len(A \o B) = Len(A) + Len(B)
    BY <1>1, <1>2, <1>4, ConcatProperties
  <1>11. f + Len(wire) = Len(A) + Len(B)
    BY <1>1, <1>3, <1>5
  <1>12. s \o wire = A \o B
    <2>1. \A j \in 1 .. Len(s \o wire) : (s \o wire)[j] = (A \o B)[j]
      BY <1>8, <1>9, <1>10, <1>11
    <2> QED
      BY <1>10, <1>11, <2>1, SeqEqual
  <1> QED
    BY <1>12 DEF s, f, A, B

(* Between two requests the invariant gives what is unread. *)
LEMMA ReadKeepsNext ==
  ASSUME ParserInv, ReadInv PROVE NextRequestIntact
  <1> SUFFICES ASSUME pc = "done" \/ (pc = "recv" /\ e.parse_step = "BEGIN"),
                      Len(outcomes) < Len(conversation)
               PROVE  /\ sent <= Len(outcomes) + 2
                      /\ [q \in 1 .. fill_ptr - process_ptr |-> mem[process_ptr + q - 1]] \o wire
                           = Outstanding(Len(outcomes) + 1) \o Outstanding(Len(outcomes) + 2)
    BY DEF NextRequestIntact
  <1>1. Ahead /\ Index = Len(outcomes) + 1 /\ sent <= Len(outcomes) + 2
        /\ Len(outcomes) \in Nat /\ Len(conversation) \in Nat /\ Index + 1 = Len(outcomes) + 2
        /\ fill_ptr \in Nat
    BY SentTypes, Bounds DEF ReadInv
  <1>2. /\ Flow(process_ptr)
        /\ \A q \in process_ptr .. fill_ptr - 1 : mem[q] = Due(Index, q - process_ptr)
    <2>1. CASE pc = "done"
      <3>1. Len(outcomes) # Len(conversation)
        BY <1>1
      <3> QED
        BY <2>1, <3>1 DEF ReadInv, Answered
    <2>2. CASE pc = "recv" /\ e.parse_step = "BEGIN"
      <3>1. process_ptr = 0 /\ e = FreshEnv /\ Flow(0) /\ Intact
        BY <2>2 DEF ReadInv, Waits, Buffered
      <3>2. e.chunked_body_end = -1
        BY <3>1 DEF FreshEnv
      <3>3. ASSUME NEW q \in 0 .. fill_ptr - 1 PROVE mem[q] = Due(Index, q - 0)
        <4>1. e.chunked_body_end <= q /\ q - 0 = q
          BY <1>1, <3>2
        <4> QED
          BY <3>1, <4>1 DEF Intact
      <3> QED
        BY <3>1, <3>3
    <2> QED
      BY <2>1, <2>2
  <1> QED
    BY <1>1, <1>2, UnreadIs

(* A request that has come in full is not waited for. *)
LEMMA ReadWaits ==
  ASSUME ParserInv, ReadInv, AllServable PROVE WaitsForMissing
  <1> SUFFICES ASSUME pc = "recv", wire = <<>>, ~(process_ptr = 0 /\ process_ptr < fill_ptr)
               PROVE  Len(outcomes) = sent
    BY DEF WaitsForMissing
  <1>1. /\ Ahead /\ Waits /\ Flow(0) /\ Len(wire) = 0
        /\ Len(outcomes) \in Nat /\ sent \in Nat /\ Len(outcomes) <= sent
        /\ fill_ptr \in Nat /\ process_ptr \in Nat /\ process_ptr <= fill_ptr
        /\ Index \in Nat \ {0} /\ Index = Len(outcomes) + 1
    BY SentTypes, Bounds DEF ReadInv, Buffered
  <1>2. SUFFICES ASSUME Len(outcomes) < sent PROVE FALSE
    BY <1>1
  <1>3. Expects(This, This.layout)
    BY <1>1, <1>2, ThisExpected
  <1>4. Size(This) \in Nat /\ 0 < Size(This)
    <2>1. 0 < Size(This)
      BY <1>3, FreshStands
    <2> QED
      BY <1>3, <2>1 DEF Expects
  <1>5. fill_ptr >= Size(This)
    <2>1. fill_ptr = Total(Index)
      <3>1. Len(wire) + fill_ptr - 0 = Total(Index)
        BY <1>1 DEF Flow
      <3> QED
        BY <1>1, <3>1
    <2>2. Len(Outstanding(Index)) = Size(This)
      BY <1>1, <1>2 DEF Outstanding, This, Size
    <2>3. Len(Outstanding(Index + 1)) \in Nat
      BY <1>1, OutstandingTypes
    <2>4. Total(Index) = Size(This) + Len(Outstanding(Index + 1))
      BY <2>2 DEF Total
    <2> QED
      BY <1>4, <2>1, <2>3, <2>4
  <1>6. CASE e.parse_step = "BEGIN"
    <2>1. process_ptr = 0
      BY <1>1, <1>6 DEF Waits
    <2> QED
      BY <1>1, <1>4, <1>5, <2>1
  <1>7. CASE e.parse_step # "BEGIN"
    <2>1. fill_ptr < Size(This)
      BY <1>1, <1>7 DEF Waits
    <2> QED
      BY <1>1, <1>4, <1>5, <2>1
  <1> QED
    BY <1>6, <1>7

(* However recv() cuts what the peer sends, ParseHttpBuffer returns for each request
   what the whole request deserves, for every conversation it is made for, every
   buffer that holds it and every number of requests. *)
THEOREM ParserAnswersRight ==
  ASSUME AllServable, ~BlankLineCut PROVE Spec => []OutcomesMatch
  <1>1. ReadInv => OutcomesMatch
    BY DEF ReadInv
  <1> QED
    BY <1>1, ParserReads, PTL

(* Between two requests, the bytes unread are exactly the requests sent and not
   parsed: ParseHttpBuffer and ResetHttpEnv neither take a byte of the next request
   nor leave or forget one. *)
THEOREM ParserKeepsNext ==
  ASSUME AllServable, ~BlankLineCut PROVE Spec => []NextRequestIntact
  <1>1. ParserInv /\ ReadInv => NextRequestIntact
    BY ReadKeepsNext
  <1>2. Spec => []ParserInv
    BY ParserInBuffer DEF ParserInv
  <1> QED
    BY <1>1, <1>2, ParserReads, PTL

(* The parser never waits for a request that has come in full. *)
THEOREM ParserWaitsForMissing ==
  ASSUME AllServable, ~BlankLineCut PROVE Spec => []WaitsForMissing
  <1>1. ParserInv /\ ReadInv => WaitsForMissing
    BY ReadWaits
  <1>2. Spec => []ParserInv
    BY ParserInBuffer DEF ParserInv
  <1> QED
    BY <1>1, <1>2, ParserReads, PTL
=============================================================================

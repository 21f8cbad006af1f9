------------------------- MODULE RequestResponseMC -------------------------
(***************************************************************************)
(* RequestResponse on two hosts, two connections and a small site.  The    *)
(* first peer may ask everything, the second one is there to move          *)
(* p_virtualhost and the cache under the first.                            *)
(***************************************************************************)
EXTENDS RequestResponse

CONSTANTS c1, c2

MCServers == << [domain |-> "",  wwwroot |-> <<"www">>],
                [domain |-> "b", wwwroot |-> <<"www2">>] >>

MCSite ==
  LET file(n) == [kind |-> "file", size |-> n]
      dir     == [kind |-> "dir", size |-> 1]
      names   == { << <<"www">>, dir >>,
                   << <<"www", "/", "index", ".", "html">>, file(2) >>,
                   << <<"www", "/", "doc">>, dir >>,
                   << <<"www", "/", "doc", "/", "index", ".", "html">>, file(0) >>,
                   << <<"www", "/", "doc", "/", "index", ".", "htm">>, file(5) >>,
                   << <<"www", "/", "page", ".", "hs">>, file(1) >>,
                   << <<"www2">>, dir >>,
                   << <<"www2", "/", "index", ".", "html">>, file(1) >> }
  IN  [p \in {n[1] : n \in names} |-> (CHOOSE n \in names : n[1] = p)[2]]

MCIndex == << <<"/", "index", ".", "html">>, <<"/", "index", ".", "htm">> >>

MCMimeTypes == << "html", "htm", "hs" >>

(* "" and "b" share a chain, and so do two of the extensions.              *)
MCHash == [k \in {"", "a", "b"} |-> 3] @@ [k \in {"html", "htm"} |-> 7]
            @@ [k \in {"hs", "txt"} |-> 4]

Get(host, uri, accept, keep) ==
  [method |-> "GET", host |-> host, uri |-> uri, accept |-> accept,
   keepalive |-> keep]

MCAsks ==
  (c1 :> { Get(None, <<"/">>, None, TRUE),
           Get("a", <<"/", "index", ".", "html">>, <<"br", "gzip", "deflate">>, TRUE),
           Get("b", <<"/", "index", ".", "html">>, <<"br">>, FALSE),
           [Get("", <<"/", "index", ".", "html">>, <<"deflate">>, TRUE)
              EXCEPT !.method = "HEAD"],
           Get(None, <<"/", "doc">>, None, TRUE),
           Get(None, <<"/", "page", ".", "hs">>, None, TRUE),
           Get("b", <<"/", "index", ".", "html", "?", "x">>, None, TRUE),
           Get("b", <<"/", "none">>, None, FALSE),
           Get("b", <<"/", ".", ".", "/", "www">>, None, TRUE) })
  @@
  (c2 :> { Get("b", <<"/", "index", ".", "html">>, <<"gzip">>, FALSE),
           Get(None, <<"/", "doc">>, <<"gzip">>, FALSE) })

ASSUME MCHarmless == Harmless /\ DefaultHost # None
ASSUME MCTellable == GivesUp => Tellable
=============================================================================

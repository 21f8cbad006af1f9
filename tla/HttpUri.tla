------------------------------ MODULE HttpUri ------------------------------
(***************************************************************************)
(* SplitHttpUri of fasterhttp.c: a URI is cut into directory, file name,   *)
(* main name, extension and parameters.                                    *)
(*                                                                         *)
(* A URI is a sequence of tokens: the separators "/", "." and "?", and     *)
(* names between them, which are not looked into.                          *)
(***************************************************************************)
EXTENDS Integers, Sequences, FiniteSetsExt

CONSTANT Site    \* what stat() finds: path -> [kind, size]

ASSUME UriAssumption ==
  \A path \in DOMAIN Site :
    Site[path].kind \in {"file", "dir"} /\ Site[path].size \in Nat

(* Repeated slashes are one slash to the file system.                      *)
OnDisk(path) ==
  LET Clean[i \in 0..Len(path)] ==
        IF i = 0 THEN <<>>
        ELSE IF i > 1 /\ path[i] = "/" /\ path[i - 1] = "/" THEN Clean[i - 1]
        ELSE Append(Clean[i - 1], path[i])
      all == Clean[Len(path)]
  IN  IF Len(all) > 0 /\ all[Len(all)] = "/"
        THEN SubSeq(all, 1, Len(all) - 1) ELSE all

Kind(path) ==
  IF OnDisk(path) \in DOMAIN Site THEN Site[OnDisk(path)].kind ELSE "none"

Largest(S) == IF S = {} THEN 0 ELSE Max(S)

(* The last slash; behind it the last dot in front of any question mark,   *)
(* and the last question mark.  0 stands for NULL.                         *)
Marks(u) ==
  LET slash == Largest({i \in DOMAIN u : u[i] = "/"})
      rest  == (slash + 1)..Len(u)
  IN  [slash |-> slash,
       dot   |-> Largest({i \in rest : u[i] = "." /\
                            \A j \in (slash + 1)..i : u[j] # "?"}),
       quest |-> Largest({i \in rest : u[i] = "?"})]

Failed == [ret |-> -1, dirname |-> <<>>, filename |-> <<>>, main |-> <<>>,
           ext |-> <<>>, param |-> <<>>]

(* A URI is followed by a blank in the request buffer, which a length one  *)
(* too large takes in.                                                     *)
Slice(u, first, last) == SubSeq(Append(u, " "), first, last)

(* The six forms that need or need not ask the file system, with the parts *)
(* that all of them cut alike.                                             *)
Parts(u, m, dirname, filename, main, ext) ==
  [ret      |-> 0,
   dirname  |-> dirname,
   filename |-> filename,
   main     |-> main,
   ext      |-> ext,
   param    |-> IF m.quest = 0 THEN <<>> ELSE Slice(u, m.quest + 1, Len(u))]

Stop(u, m) == IF m.quest = 0 THEN Len(u) + 1 ELSE m.quest

(* No slash: the name of an index file.                                    *)
SplitRelative(wwwroot, u, m) ==
  LET name == Slice(u, 1, Stop(u, m) - 1)
      kind == Kind(wwwroot \o <<"/">> \o name)
  IN  IF m.dot # 0
        THEN Parts(u, m, <<>>, name, Slice(u, 1, m.dot - 1),
                   Slice(u, m.dot + 1, Stop(u, m) - 1))
      ELSE IF kind = "none" THEN Failed
      ELSE IF kind = "dir" THEN Parts(u, m, name, <<>>, <<>>, <<>>)
      ELSE Parts(u, m, <<>>, name, name, <<>>)

(* A path.  Without parameters the file name is one character too long     *)
(* (line 2789).                                                            *)
SplitAbsolute(wwwroot, u, m) ==
  LET whole == Slice(u, 1, Stop(u, m) - 1)
      dir   == Slice(u, 1, m.slash - 1)
      name  == Slice(u, m.slash + 1, Stop(u, m) - 1)
      kind  == Kind(wwwroot \o whole)
  IN  IF m.dot # 0
        THEN Parts(u, m, dir,
                   IF m.quest = 0 THEN Slice(u, m.slash + 1, Len(u) + 1) ELSE name,
                   Slice(u, m.slash + 1, m.dot - 1),
                   Slice(u, m.dot + 1, Stop(u, m) - 1))
      ELSE IF kind = "none" THEN Failed
      ELSE IF kind = "dir" THEN Parts(u, m, whole, <<>>, <<>>, <<>>)
      ELSE Parts(u, m, dir, name, name, <<>>)

SplitAt(wwwroot, u, m) ==
  IF m.slash = 0 THEN SplitRelative(wwwroot, u, m) ELSE SplitAbsolute(wwwroot, u, m)

SplitHttpUri(wwwroot, u) == SplitAt(wwwroot, u, Marks(u))
=============================================================================

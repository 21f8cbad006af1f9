----------------------------- MODULE HttpBuffer -----------------------------
(***************************************************************************)
(* The growing buffers of the HTTP engine, struct HttpBuffer of            *)
(* fasterhttp.c: base .. process_ptr .. fill_ptr within buf_size bytes.    *)
(*                                                                         *)
(* A buffer is [size, process, data]: data is what stands between base and *)
(* fill_ptr, so fill_ptr - base is Len(data).  The contents are pieces of  *)
(* one unit of length each.  An operation returns the buffer it leaves, or *)
(* one of the two ways in which it does not come back in order: Endless    *)
(* for a loop that never ends, and Corrupt for a write outside the buffer. *)
(***************************************************************************)
EXTENDS Integers, Sequences, FiniteSetsExt

CONSTANTS
  GrowthLimit,   \* 100*1024*1024, up to which a buffer is doubled
  MaxGrowths     \* turns of a growing loop that are looked at

ASSUME BufferAssumption ==
  GrowthLimit \in Nat \ {0} /\ MaxGrowths \in Nat

Endless == [size |-> 0, process |-> 0, data |-> <<>>, is |-> "endless"]
Corrupt == [size |-> 0, process |-> 0, data |-> <<>>, is |-> "corrupt"]

NewBuffer(n) == [size |-> n, process |-> 0, data |-> <<>>, is |-> "sound"]

(* What every operation relies on: the last byte stays free for the zero.  *)
Sound(b) ==
  /\ b.is = "sound"
  /\ b.process \in 0..Len(b.data)
  /\ Len(b.data) <= b.size - 1

CleanHttpBuffer(b) == [b EXCEPT !.data = <<>>, !.process = 0]

(* realloc() keeps the offsets.  With less room than there is data, the    *)
(* memset() behind the data starts outside the buffer.                     *)
ReallocHttpBuffer(b, n) ==
  IF n < Len(b.data) THEN Corrupt ELSE [b EXCEPT !.size = n]

GrownSize(n) == IF n <= GrowthLimit THEN 2 * n ELSE GrowthLimit

Sizes(b) ==
  LET After[k \in 0..MaxGrowths] == IF k = 0 THEN b.size ELSE GrownSize(After[k - 1])
  IN  After

GrowTo(b, sizes, turns) ==
  IF turns = {} THEN Endless
  ELSE IF \E k \in 0..Min(turns) : sizes[k] < Len(b.data) THEN Corrupt
  ELSE [b EXCEPT !.size = sizes[Min(turns)]]

(* Mutant: the byte for the terminating zero is forgotten.                 *)
GrownForAll(b, need) ==
  GrowTo(b, Sizes(b), {k \in 0..MaxGrowths : need <= Sizes(b)[k]})

(* The loops `while( need > buf_size-1 ) ReallocHttpBuffer( b , -1 )'.     *)
(* Above the limit the sizes alternate between the limit and its double,   *)
(* so the loop for anything longer does not end; on the way the buffer may *)
(* shrink below what it holds.                                             *)
Grown(b, need) ==
  GrowTo(b, Sizes(b), {k \in 0..MaxGrowths : need <= Sizes(b)[k] - 1})

(* The writes below are skipped when the buffer was lost before them.      *)
Holding(b, data) == IF b.is = "sound" THEN [b EXCEPT !.data = data] ELSE b

(* From the base: what stood in the buffer is overwritten, process_ptr is  *)
(* left where it is.                                                       *)
StrcpyHttpBuffer(b, s) ==
  IF b.is = "sound" THEN Holding(Grown(b, Len(s)), s) ELSE b

MemcatHttpBuffer(b, s) ==
  IF b.is = "sound"
    THEN Holding(Grown(b, Len(b.data) + Len(s)), b.data \o s) ELSE b

Room(b) == b.size - 1 - Len(b.data)

(* vsnprintf() into the room that is left returns the length it would have *)
(* needed.  Only a text of exactly that length makes the buffer grow; a    *)
(* longer one moves fill_ptr past the end.                                 *)
StrcatfHttpBuffer(b, s) ==
  IF b.is # "sound" THEN b
  ELSE IF Len(s) > Room(b) THEN Corrupt
  ELSE Holding(IF Len(s) = Room(b) THEN ReallocHttpBuffer(b, GrownSize(b.size))
               ELSE b,
               b.data \o s)
=============================================================================

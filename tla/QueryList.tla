------------------------------ MODULE QueryList ------------------------------
(***************************************************************************)
(* What a query object promises, without memory, pools or positions: it is *)
(* a list of pairs.  Parsing appends the pairs a text means, filtering     *)
(* takes out some, sorting swaps neighbours, and a clone is there as a     *)
(* whole or not at all.                                                    *)
(***************************************************************************)
EXTENDS QueryText, SequencesExt

CONSTANTS Objects,
          Maxes, FlagSets   \* what an object may be made with

VARIABLES objects,  \* live, list, max and flags of each object
          asked,    \* the text being parsed
          answer,   \* what the last call returned
          custom    \* a sort is by an order of the caller's

(***************************************************************************)
(* The pairs of a text: its pieces between '&'s, each split at the first   *)
(* '='.  A pair without a key is no pair; one without a value is none      *)
(* unless empty values are kept.                                           *)
(***************************************************************************)
PieceEnds(t, to) == to = Len(t) \/ At(t, to) = Amp

Piece(t, to) ==
  LET Begins(j) == (j = 0 \/ At(t, j - 1) = Amp) /\ \A k \in j..(to - 1) : At(t, k) # Amp
  IN Cut(t, CHOOSE j \in 0..to : Begins(j), to)

PairOf(piece) ==
  LET e == Find(piece, {Equal}, 0) IN [k |-> Cut(piece, 0, e), v |-> Cut(piece, e + 1, Len(piece))]

Shape(p, flags) ==
  [k |-> IF "LOWERCASE_KEYS" \in flags THEN lowercase_string(p.k) ELSE p.k,
   v |-> IF "TRIM_VALUES" \in flags THEN trim_string(p.v) ELSE p.v]

\* The pair that ends at a position, if there is one.
PairAt(t, to, flags) ==
  LET p == Shape(PairOf(Piece(t, to)), flags)
  IN IF PieceEnds(t, to) /\ p.k # <<>> /\ ("KEEP_EMPTY" \in flags \/ p.v # <<>>) THEN <<p>> ELSE <<>>

Meaning(t, flags) ==
  LET upto[n \in 0..Len(t)] ==
        IF n = 0 THEN PairAt(t, 0, flags) ELSE upto[n - 1] \o PairAt(t, n, flags)
  IN upto[Len(t)]

-----------------------------------------------------------------------------
Nothing == [live |-> FALSE, loading |-> FALSE, list |-> <<>>, max |-> 0, flags |-> {}]

Becomes(x, list) == objects' = [objects EXCEPT ![x].list = list]

Create(x) ==
  /\ ~objects[x].live
  /\ \E n \in Maxes, f \in FlagSets :
       objects' = [objects EXCEPT ![x] = [Nothing EXCEPT !.live = TRUE, !.max = n, !.flags = f]]

Destroy(x) == objects[x].live /\ objects' = [objects EXCEPT ![x] = Nothing]

Clear(x) == objects[x].live /\ Becomes(x, <<>>)

Ask(x) == /\ objects[x].live /\ ~objects[x].loading
          /\ objects' = [objects EXCEPT ![x].list = <<>>, ![x].loading = TRUE]

\* The answer tells what is missing.
Load(x) ==
  LET o == objects[x]
      m == Meaning(asked, o.flags)
  IN
  /\ o.loading
  /\ \E n \in 0..Len(m) :
       /\ n <= o.max
       /\ objects' = [objects EXCEPT ![x].list = SubSeq(m, 1, n), ![x].loading = FALSE]
       /\ \/ answer' = "OK" /\ n = Len(m)
          \/ answer' = "OK" /\ n = o.max /\ "STRICT" \notin o.flags
          \/ answer' = "TOO_MANY_PAIRS" /\ n = o.max /\ "STRICT" \in o.flags
          \/ answer' = "MEMORY_ERROR"

DropItem(x) == \E i \in DOMAIN objects[x].list : Becomes(x, RemoveAt(objects[x].list, i))

SwapItems(x) ==
  LET s == objects[x].list IN
  \E i \in 1..(Len(s) - 1) :
    /\ KeyAfter(s[i].k, s[i + 1].k) \/ custom
    /\ Becomes(x, [s EXCEPT ![i] = s[i + 1], ![i + 1] = s[i]])

CopyOf(x, y) == ~objects[x].live /\ objects[y].live /\ objects' = [objects EXCEPT ![x] = objects[y]]

Init == objects = [x \in Objects |-> Nothing]

Next == \E x \in Objects :
          /\ objects'[x] # objects[x]
          /\ \/ Create(x) \/ Destroy(x) \/ Clear(x) \/ Ask(x) \/ Load(x)
             \/ DropItem(x) \/ SwapItems(x)
             \/ \E y \in Objects : CopyOf(x, y)

Spec == Init /\ [][Next]_objects
=============================================================================

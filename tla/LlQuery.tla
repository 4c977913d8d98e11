------------------------------- MODULE LlQuery -------------------------------
(***************************************************************************)
(* llquery.c: query objects, the memory they own and what it takes to keep *)
(* it.  A call is a sequence of steps, one for each allocation and each     *)
(* turn of a loop; any allocation may fail.  The steps of a call follow     *)
(* each other: nothing runs between them but callbacks.                    *)
(*                                                                         *)
(* A pointer is the block it points into.  A string in the pool of its      *)
(* object is a pointer to the pool's block: the code tells pooled strings   *)
(* by the range they lie in.                                               *)
(***************************************************************************)
EXTENDS QueryText

CONSTANTS Queries,      \* query objects
          Allocators, Default,   \* alloc_fn, free_fn and alloc_data; malloc and free
          Memory,       \* the blocks, numbers, that each allocator can give out
          Texts,        \* the queries to parse
          FlagSets,     \* the flags an object may be initialised with
          Limits,       \* max_pairs
          DEFAULT_MAX_PAIRS,
          BufferSizes,  \* of the caller's decode buffer; 0 if there is none
          PoolPad,      \* estimate_string_size adds this (256)
          Failures,     \* may an allocation fail
          Calls         \* the functions the application calls, on which object: {<<op, x>>}

ASSUME QueryAssumptions ==
  /\ Default \in Allocators /\ "free" \notin Allocators
  /\ Memory \in [Allocators -> SUBSET (Nat \ {0})]
  /\ Texts \subseteq Seq(0..255)
  /\ Limits \subseteq Nat /\ DEFAULT_MAX_PAIRS \in Nat \ {0}
  /\ PoolPad \in Nat \ {0}
  /\ BufferSizes \subseteq Nat

VARIABLES
  q,            \* the query objects
  heap,         \* the allocator of each block; "free" if it is not allocated
  foreign,      \* a block was freed twice, or not by the allocator it came from
  pc,           \* the next step; "idle" between calls
  me, other,    \* the object at hand; the source of its clone
  text, len,    \* the query behind its '?', decoded; its length before decoding
  cur, index,   \* where the loop is: a position of text, a number of pairs
  write,        \* filter: write_idx;  sort: i
  rc            \* what the last call returned; "OK" if it returns no error

heaps  == <<heap, foreign>>
locals == <<me, other, text, len, cur, index, write>>
vars   == <<q, heap, foreign, pc, me, other, text, len, cur, index, write, rc>>

Nobody == "nobody"

Null   == 0
Caller == -1          \* the caller's decode buffer

EmptyPair == [key |-> Null, value |-> Null, k |-> <<>>, v |-> <<>>]
\* memset(q, 0): _reserved is NULL.
Zero == [up |-> FALSE, flags |-> {}, max |-> 0, count |-> 0, pairs |-> <<>>,
         alloc |-> Default, internal |-> Null, kv_pairs |-> Null,
         pool |-> Null, pool_size |-> 0, pool_used |-> 0, decode_buffer |-> Null]

\* The list of pairs an object stands for.
Contents(x) == [i \in 1..x.count |-> [k |-> x.pairs[i].k, v |-> x.pairs[i].v]]

-----------------------------------------------------------------------------
(* Memory. *)

Blocks    == UNION {Memory[a] : a \in Allocators}
Unused(a) == {b \in Memory[a] : heap[b] = "free"}
\* The next allocation gets block b.  (The least: any choice would do.)
Gets(a, b) == b \in Unused(a) /\ \A c \in Unused(a) : b <= c
Full(a)    == Failures \/ Unused(a) = {}

Allocate(a, b) == Gets(a, b) /\ heap' = [heap EXCEPT ![b] = a] /\ UNCHANGED foreign
Release(S, a)  == /\ heap' = [b \in Blocks |-> IF b \in S THEN "free" ELSE heap[b]]
                  /\ foreign' = (foreign \/ \E b \in S : heap[b] # a)

\* The blocks of the strings in the slots S, but for those in the pool.
Loose(x, S) == ({x.pairs[i].key : i \in S} \cup {x.pairs[i].value : i \in S}) \ {Null, x.pool}
Strings(x)  == Loose(x, 1..x.count) \cup ({x.pool, x.decode_buffer} \ {Null, Caller})
Owned(x)    == Strings(x) \cup ({x.internal, x.kv_pairs} \ {Null})

Update(x, v) == q' = [q EXCEPT ![x] = v]
Begins(op, x) == pc = "idle" /\ <<op, x>> \in Calls
Goes(step)   == pc' = step /\ UNCHANGED rc
Ends(err)    == /\ pc' = "idle" /\ rc' = err
                /\ me' = Nobody /\ other' = Nobody /\ text' = <<>> /\ len' = 0
                /\ cur' = 0 /\ index' = 0 /\ write' = 0

-----------------------------------------------------------------------------
(* llquery_init_ex, llquery_init and the beginning of llquery_clone: two    *)
(* allocations.                                                            *)

NewObject(x, from, a, max, flags) ==
  \/ /\ Full(a)
     /\ UNCHANGED heaps /\ Update(x, Zero) /\ Ends("MEMORY_ERROR")
  \/ /\ \E b \in Blocks :
          /\ Allocate(a, b)
          /\ Update(x, [Zero EXCEPT !.alloc = a, !.internal = b, !.max = max, !.flags = flags])
     /\ Goes("init_pairs") /\ me' = x /\ other' = from
     /\ UNCHANGED <<text, len, cur, index, write>>

llquery_init_ex(x, a, max, flags) ==
  /\ Begins(IF a = Default THEN "init" ELSE "init_ex", x) /\ ~q[x].up
  /\ NewObject(x, x, a, IF max = 0 THEN DEFAULT_MAX_PAIRS ELSE max, flags)

InitPairs ==
  /\ pc = "init_pairs"
  /\ \/ /\ Full(q[me].alloc)
        /\ Release({q[me].internal}, q[me].alloc) /\ Update(me, Zero) /\ Ends("MEMORY_ERROR")
     \/ /\ \E b \in Blocks :
             /\ Allocate(q[me].alloc, b)
             /\ Update(me, [q[me] EXCEPT !.up = TRUE, !.kv_pairs = b,
                              !.count = IF other = me THEN 0 ELSE q[other].count,
                              !.pairs = [i \in 1..q[me].max |-> EmptyPair]])
        /\ \/ other = me /\ Ends("OK")
           \/ other # me /\ Goes("clone_key") /\ UNCHANGED locals

-----------------------------------------------------------------------------
(* llquery_reset, llquery_free and llquery_set_allocator. *)

\* The slots S without strings.  (A NULL pointer has no bytes.)
Cleared(pairs, S) == [i \in DOMAIN pairs |-> IF i \in S THEN EmptyPair ELSE pairs[i]]

\* A mistake: the size of the pool stays.
ResetKeepsSize(x) ==
  [x EXCEPT !.pairs = Cleared(@, 1..x.count), !.count = 0,
            !.pool = Null, !.pool_used = 0, !.decode_buffer = Null]

ResetObject(x) ==
  [x EXCEPT !.pairs = Cleared(@, 1..x.count), !.count = 0,
            !.pool = Null, !.pool_size = 0, !.pool_used = 0, !.decode_buffer = Null]

llquery_reset(x) ==
  /\ Begins("reset", x) /\ q[x].up
  /\ Release(Strings(q[x]), q[x].alloc) /\ Update(x, ResetObject(q[x])) /\ Ends("OK")

Discard(x) == Release(Owned(q[x]), q[x].alloc) /\ Update(x, Zero)

llquery_free(x) == Begins("free", x) /\ q[x].up /\ Discard(x) /\ Ends("OK")

\* A mistake: the old array is not freed.
SetAllocatorLeaks(x, a) ==
  /\ Begins("set_allocator", x) /\ q[x].up
  /\ \/ Full(a) /\ UNCHANGED heaps /\ Update(x, [q[x] EXCEPT !.alloc = a])
     \/ \E b \in Blocks : Allocate(a, b) /\ Update(x, [q[x] EXCEPT !.alloc = a, !.kv_pairs = b])
  /\ Ends("OK")

\* The array of pairs moves, if there is memory for it; nothing else does.
llquery_set_allocator(x, a) ==
  /\ Begins("set_allocator", x) /\ q[x].up
  /\ \/ Full(a) /\ UNCHANGED heaps /\ Update(x, [q[x] EXCEPT !.alloc = a])
     \/ \E b \in Blocks :
          /\ Gets(a, b)
          /\ heap' = [heap EXCEPT ![b] = a, ![q[x].kv_pairs] = "free"]
          /\ foreign' = (foreign \/ heap[q[x].kv_pairs] # q[x].alloc)
          /\ Update(x, [q[x] EXCEPT !.alloc = a, !.kv_pairs = b])
  /\ Ends("OK")

-----------------------------------------------------------------------------
(* llquery_parse_ex. *)

Decodes(x, t) == "AUTO_DECODE" \in x.flags /\ has_encoded_chars(t)

\* The first steps, up to the string pool.
llquery_parse_ex(x, t, size) ==
  LET w == Unquestioned(t)
      r == ResetObject(q[x])
      Parses(step, y, into) ==
        /\ Update(x, y) /\ Goes(step)
        /\ me' = x /\ text' = into /\ len' = Len(w) /\ cur' = 0 /\ index' = 0
        /\ UNCHANGED <<other, write>>
  IN
  /\ Begins("parse", x) /\ q[x].up
  /\ IF t = <<>> THEN Ends("EMPTY_STRING") /\ UNCHANGED <<q, heaps>>
     ELSE Release(Strings(q[x]), q[x].alloc) /\
          \/ w = <<>> /\ Update(x, r) /\ Ends("OK")
          \/ w # <<>> /\ ~Decodes(r, w) /\ Parses("pool", r, w)
          \/ Decodes(r, w) /\ size = 0 /\ Parses("decode", r, w)
          \/ /\ Decodes(r, w) /\ size > 0 /\ size < Len(w) + 1
             /\ Update(x, r) /\ Ends("BUFFER_TOO_SMALL")
          \/ /\ Decodes(r, w) /\ size >= Len(w) + 1
             /\ Parses("pool", [r EXCEPT !.decode_buffer = Caller], decode_in_place(w))

DecodeBuffer ==
  /\ pc = "decode"
  /\ \/ Full(q[me].alloc) /\ UNCHANGED <<q, heaps>> /\ Ends("MEMORY_ERROR")
     \/ /\ \E b \in Blocks : /\ Allocate(q[me].alloc, b)
                             /\ Update(me, [q[me] EXCEPT !.decode_buffer = b])
        /\ text' = decode_in_place(text)
        /\ Goes("pool") /\ UNCHANGED <<me, other, len, cur, index, write>>

\* A mistake: no room for the NUL of every string.
EstimateWithoutNuls(n) == n + PoolPad
estimate_string_size(n) == 2 * n + PoolPad

\* Without a pool every string is a block of its own.
StringPool ==
  /\ pc = "pool"
  /\ \/ Full(q[me].alloc) /\ UNCHANGED <<q, heaps>>
     \/ \E b \in Blocks :
          /\ Allocate(q[me].alloc, b)
          /\ Update(me, [q[me] EXCEPT !.pool = b, !.pool_used = 0,
                                      !.pool_size = estimate_string_size(len)])
  /\ Goes("pair") /\ UNCHANGED locals

\* pool_alloc_string for a string of n bytes and its NUL.
PoolHolds(x, n) == x.pool # Null /\ x.pool_used + n + 1 <= x.pool_size
FromPool(x, n)  == [x EXCEPT !.pool_used = @ + n + 1]

MorePairs == cur < Len(text) /\ index < q[me].max
Start     == PairStart(text, cur)
AtPair    == MorePairs /\ Start < Len(text) /\ Key(text, Start) # <<>>

\* kv_count is set however the loop ends.
StopParsing(err) == Update(me, [q[me] EXCEPT !.count = index]) /\ Ends(err)

\* A mistake: an empty key is skipped, its '=' is not.
SkipInPlace ==
  /\ pc = "pair" /\ MorePairs /\ ~AtPair
  /\ cur' = Start
  /\ Goes("pair") /\ UNCHANGED <<q, heaps, me, other, text, len, index, write>>

\* Nothing but separators is left, or a pair without a key.
SkipPair ==
  /\ pc = "pair" /\ MorePairs /\ ~AtPair
  /\ cur' = IF Start < Len(text) THEN PairEnd(text, Start) ELSE Len(text)
  /\ Goes("pair") /\ UNCHANGED <<q, heaps, me, other, text, len, index, write>>

ParseKey ==
  LET x == q[me]
      k == Key(text, Start)
      With(y, block) ==
        /\ Update(me, [y EXCEPT !.pairs[index + 1] =
                         [@ EXCEPT !.key = block, !.k = k, !.v = Value(text, Start)]])
        /\ cur' = Start
        /\ Goes("value") /\ UNCHANGED <<me, other, text, len, index, write>>
  IN
  /\ pc = "pair" /\ AtPair
  /\ \/ PoolHolds(x, Len(k)) /\ With(FromPool(x, Len(k)), x.pool) /\ UNCHANGED heaps
     \/ ~PoolHolds(x, Len(k)) /\ \E b \in Blocks : Allocate(x.alloc, b) /\ With(x, b)
     \/ ~PoolHolds(x, Len(k)) /\ Full(x.alloc) /\ UNCHANGED heaps /\ StopParsing("MEMORY_ERROR")

\* The pair as the flags want it.
Shaped(s, flags) ==
  [s EXCEPT !.k = IF "LOWERCASE_KEYS" \in flags THEN lowercase_string(@) ELSE @,
            !.v = IF "TRIM_VALUES" \in flags THEN trim_string(@) ELSE @]

\* A mistake: a value is looked at before it is trimmed.
FinishBeforeTrim(y, block) ==
  LET s     == Shaped([y.pairs[index + 1] EXCEPT !.value = block], y.flags)
      keep  == "KEEP_EMPTY" \in y.flags \/ y.pairs[index + 1].v # <<>>
      drops == IF keep THEN {} ELSE {s.key, s.value} \ {y.pool}
  IN
  /\ Update(me, [y EXCEPT !.pairs[index + 1] = s])
  /\ heap' = [b \in Blocks |-> IF b \in drops THEN "free"
                               ELSE IF b = block THEN y.alloc ELSE heap[b]]
  /\ foreign' = (foreign \/ \E b \in drops \ {block} : heap[b] # y.alloc)
  /\ index' = IF keep THEN index + 1 ELSE index
  /\ cur' = PairEnd(text, cur)
  /\ Goes("pair") /\ UNCHANGED <<me, other, text, len, write>>

\* The value is in the block: the pair is kept, or dropped if its value is empty.  A
\* dropped pair leaves its pointers behind.
FinishPair(y, block) ==
  LET s     == Shaped([y.pairs[index + 1] EXCEPT !.value = block], y.flags)
      keep  == "KEEP_EMPTY" \in y.flags \/ s.v # <<>>
      drops == IF keep THEN {} ELSE {s.key, s.value} \ {y.pool}
  IN
  /\ Update(me, [y EXCEPT !.pairs[index + 1] = s])
  /\ heap' = [b \in Blocks |-> IF b \in drops THEN "free"
                               ELSE IF b = block THEN y.alloc ELSE heap[b]]
  /\ foreign' = (foreign \/ \E b \in drops \ {block} : heap[b] # y.alloc)
  /\ index' = IF keep THEN index + 1 ELSE index
  /\ cur' = PairEnd(text, cur)
  /\ Goes("pair") /\ UNCHANGED <<me, other, text, len, write>>

ParseValue ==
  LET x == q[me]
      n == Len(x.pairs[index + 1].v)
  IN
  /\ pc = "value"
  /\ \/ PoolHolds(x, n) /\ FinishPair(FromPool(x, n), x.pool)
     \/ ~PoolHolds(x, n) /\ \E b \in Blocks : Gets(x.alloc, b) /\ FinishPair(x, b)
     \/ /\ ~PoolHolds(x, n) /\ Full(x.alloc)
        /\ Release({x.pairs[index + 1].key} \ {x.pool}, x.alloc)
        /\ StopParsing("MEMORY_ERROR")

ParseEnd ==
  /\ pc = "pair" /\ ~MorePairs
  /\ StopParsing(IF cur < Len(text) /\ "STRICT" \in q[me].flags THEN "TOO_MANY_PAIRS" ELSE "OK")
  /\ UNCHANGED heaps

-----------------------------------------------------------------------------
(* llquery_filter: keep is the callback's answer about pair index + 1. *)

llquery_filter(x) ==
  /\ Begins("filter", x) /\ q[x].up
  /\ Goes("filter") /\ me' = x /\ index' = 0 /\ write' = 0
  /\ UNCHANGED <<q, heaps, other, text, len, cur>>

\* A mistake: a pair that moves to the front stays where it was, too.
FilterPairCopies(keep) ==
  LET x == q[me]
      r == index + 1
      w == write + 1
  IN
  /\ pc = "filter" /\ index < x.count
  /\ \/ /\ keep
        /\ Update(me, [x EXCEPT !.pairs[w] = x.pairs[r]])
        /\ write' = w /\ UNCHANGED heaps
     \/ /\ ~keep
        /\ Release(Loose(x, {r}), x.alloc)
        /\ Update(me, [x EXCEPT !.pairs = Cleared(@, {r})])
        /\ UNCHANGED write
  /\ index' = r
  /\ Goes("filter") /\ UNCHANGED <<me, other, text, len, cur>>

FilterPair(keep) ==
  LET x == q[me]
      r == index + 1
      w == write + 1
  IN
  /\ pc = "filter" /\ index < x.count
  /\ \/ /\ keep
        /\ Update(me, IF w = r THEN x
                      ELSE [x EXCEPT !.pairs = [@ EXCEPT ![w] = x.pairs[r], ![r] = EmptyPair]])
        /\ write' = w /\ UNCHANGED heaps
     \/ /\ ~keep
        /\ Release(Loose(x, {r}), x.alloc)
        /\ Update(me, [x EXCEPT !.pairs = Cleared(@, {r})])
        /\ UNCHANGED write
  /\ index' = r
  /\ Goes("filter") /\ UNCHANGED <<me, other, text, len, cur>>

FilterEnd ==
  LET x    == q[me]
      rest == (write + 1)..x.count
  IN
  /\ pc = "filter" /\ index = x.count
  /\ Release(Loose(x, rest), x.alloc)
  /\ Update(me, [x EXCEPT !.count = write, !.pairs = Cleared(@, rest)])
  /\ Ends("OK")

-----------------------------------------------------------------------------
(* llquery_sort: rounds over adjacent pairs.  A compare_fn of the caller's  *)
(* may answer anything.                                                    *)

llquery_sort(x, compare_fn) ==
  /\ Begins("sort", x) /\ q[x].up /\ q[x].count >= 2
  /\ Goes(IF compare_fn THEN "sort_by" ELSE "sort")
  /\ me' = x /\ index' = 0 /\ write' = 0
  /\ UNCHANGED <<q, heaps, other, text, len, cur>>

\* A mistake: the last pair is left out.
ThisRoundShort == IF q[me].count > write + 1 THEN q[me].count - write - 2 ELSE 0
\* The comparisons of this round; the last round has one.
ThisRound == q[me].count - write - 1

\* A mistake: pairs of the same key change places.
SortPairUnstable ==
  LET a == q[me].pairs[index + 1]
      b == q[me].pairs[index + 2]
  IN
  /\ pc \in {"sort", "sort_by"} /\ index < ThisRound
  /\ \E after \in IF pc = "sort" THEN {~KeyAfter(b.k, a.k)} ELSE BOOLEAN :
       IF after THEN Update(me, [q[me] EXCEPT !.pairs[index + 1] = b, !.pairs[index + 2] = a])
                ELSE UNCHANGED q
  /\ index' = index + 1
  /\ UNCHANGED <<heaps, pc, rc, me, other, text, len, cur, write>>

SortPair ==
  LET a == q[me].pairs[index + 1]
      b == q[me].pairs[index + 2]
  IN
  /\ pc \in {"sort", "sort_by"} /\ index < ThisRound
  /\ \E after \in IF pc = "sort" THEN {KeyAfter(a.k, b.k)} ELSE BOOLEAN :
       IF after THEN Update(me, [q[me] EXCEPT !.pairs[index + 1] = b, !.pairs[index + 2] = a])
                ELSE UNCHANGED q
  /\ index' = index + 1
  /\ UNCHANGED <<heaps, pc, rc, me, other, text, len, cur, write>>

SortRound ==
  /\ pc \in {"sort", "sort_by"} /\ index = ThisRound /\ ThisRound > 0
  /\ index' = 0 /\ write' = write + 1
  /\ UNCHANGED <<q, heaps, pc, rc, me, other, text, len, cur>>

SortEnd ==
  /\ pc \in {"sort", "sort_by"} /\ ThisRound = 0
  /\ Ends("OK") /\ UNCHANGED <<q, heaps>>

-----------------------------------------------------------------------------
(* llquery_clone: llquery_init, then a key and a value at a time. *)

llquery_clone(dst, src) ==
  /\ Begins("clone", dst) /\ ~q[dst].up /\ q[src].up
  /\ NewObject(dst, src, Default, q[src].max, q[src].flags)

CloneFails == Full(q[me].alloc) /\ Discard(me) /\ Ends("MEMORY_ERROR")

CloneKey ==
  /\ pc = "clone_key" /\ index < q[other].count
  /\ \/ CloneFails
     \/ /\ \E b \in Blocks :
             /\ Allocate(q[me].alloc, b)
             /\ Update(me, [q[me] EXCEPT !.pairs[index + 1].key = b,
                                         !.pairs[index + 1].k = q[other].pairs[index + 1].k])
        /\ Goes("clone_value") /\ UNCHANGED locals

\* A mistake: the value comes from the allocator of the source.
CloneValueFromSource ==
  /\ pc = "clone_value"
  /\ \/ CloneFails
     \/ /\ \E b \in Blocks :
             /\ Allocate(q[other].alloc, b)
             /\ Update(me, [q[me] EXCEPT !.pairs[index + 1].value = b,
                                         !.pairs[index + 1].v = q[other].pairs[index + 1].v])
        /\ index' = index + 1
        /\ Goes("clone_key") /\ UNCHANGED <<me, other, text, len, cur, write>>

CloneValue ==
  /\ pc = "clone_value"
  /\ \/ CloneFails
     \/ /\ \E b \in Blocks :
             /\ Allocate(q[me].alloc, b)
             /\ Update(me, [q[me] EXCEPT !.pairs[index + 1].value = b,
                                         !.pairs[index + 1].v = q[other].pairs[index + 1].v])
        /\ index' = index + 1
        /\ Goes("clone_key") /\ UNCHANGED <<me, other, text, len, cur, write>>

CloneBuffer ==
  /\ pc = "clone_key" /\ index = q[other].count
  /\ \/ q[other].decode_buffer = Null /\ Ends("OK") /\ UNCHANGED <<q, heaps>>
     \/ q[other].decode_buffer # Null /\ CloneFails
     \/ /\ q[other].decode_buffer # Null
        /\ \E b \in Blocks : /\ Allocate(q[me].alloc, b)
                             /\ Update(me, [q[me] EXCEPT !.decode_buffer = b])
        /\ Ends("OK")

-----------------------------------------------------------------------------
Init == /\ q = [x \in Queries |-> Zero]
        /\ heap = [b \in Blocks |-> "free"] /\ foreign = FALSE
        /\ pc = "idle" /\ rc = "OK"
        /\ me = Nobody /\ other = Nobody /\ text = <<>> /\ len = 0
        /\ cur = 0 /\ index = 0 /\ write = 0

Call == \E x \in Queries :
  \/ \E a \in Allocators, n \in Limits, f \in FlagSets : llquery_init_ex(x, a, n, f)
  \/ \E t \in Texts, n \in BufferSizes : llquery_parse_ex(x, t, n)
  \/ llquery_reset(x) \/ llquery_free(x) \/ llquery_filter(x)
  \/ \E by \in BOOLEAN : llquery_sort(x, by)
  \/ \E y \in Queries : llquery_clone(x, y)
  \/ \E a \in Allocators : llquery_set_allocator(x, a)

Step ==
  /\ pc # "idle"
  /\ \/ InitPairs \/ DecodeBuffer \/ StringPool
     \/ SkipPair \/ ParseKey \/ ParseValue \/ ParseEnd
     \/ \E keep \in BOOLEAN : FilterPair(keep)
     \/ FilterEnd \/ SortPair \/ SortRound \/ SortEnd
     \/ CloneKey \/ CloneValue \/ CloneBuffer

Next == Call \/ Step
Spec     == Init /\ [][Next]_vars
FairSpec == Spec /\ WF_vars(Step)
-----------------------------------------------------------------------------
(* Properties. *)

TypeOK ==
  /\ heap \in [Blocks -> Allocators \cup {"free"}] /\ foreign \in BOOLEAN
  /\ {me, other} \subseteq Queries \cup {Nobody}
  /\ \A x \in Queries :
       /\ q[x].count \in 0..Len(q[x].pairs) /\ Len(q[x].pairs) \in {0, q[x].max}
       /\ q[x].up = (q[x].kv_pairs # Null)
       /\ q[x].pool_used \in 0..q[x].pool_size
       /\ q[x].pool = Null <=> q[x].pool_size = 0
  /\ pc \in {"idle", "init_pairs", "decode", "pool", "pair", "value", "filter", "sort", "sort_by",
              "clone_key", "clone_value"}

\* The slots whose strings are the object's: while it is parsed into, those behind the loop.
Parsing(x) == me = x /\ pc \in {"pair", "value"}
Held(x)    == IF Parsing(x) THEN 1..index ELSE 1..q[x].count
HeldKeys(x) == Held(x) \cup (IF me = x /\ pc = "value" THEN {index + 1} ELSE {})

\* Who points to a block, and from where.
Places(x) ==
  LET y == q[x] IN
  {p \in {<<x, 0, "internal", y.internal>>, <<x, 0, "kv_pairs", y.kv_pairs>>,
          <<x, 0, "pool", y.pool>>, <<x, 0, "buffer", y.decode_buffer>>}
         \cup {<<x, i, "key", y.pairs[i].key>> : i \in {j \in HeldKeys(x) : y.pairs[j].key # y.pool}}
         \cup {<<x, i, "value", y.pairs[i].value>> : i \in {j \in Held(x) : y.pairs[j].value # y.pool}}
     : p[4] \notin {Null, Caller}}

(* Every block on the heap is pointed to from exactly one place of one object, and nothing *)
(* points to a block that is free: no leak, no second free and no dangling string, at any  *)
(* step of parse, filter, sort, clone, reset and free and after any failed allocation      *)
(* (llquery.c:238-293, 434-488, 503-555, 687-778, 845-963).                                *)
EveryBlockOwnedOnce ==
  LET refs == UNION {Places(x) : x \in Queries} IN
  /\ {r[4] : r \in refs} = {b \in Blocks : heap[b] # "free"}
  /\ \A r, s \in refs : r[4] = s[4] => r = s

(* No block is freed twice or by an allocator that did not make it, by init, parse,    *)
(* filter, clone, reset or free (llquery.c:272-289, 503-555, 687-963).  It does not    *)
(* hold behind llquery_set_allocator (965-992).                                        *)
FreedByItsAllocator == ~foreign

(* An object that has a pool needs no other block for its strings: the estimate made   *)
(* before the pairs are known is enough for every text, dropped pairs included, so the *)
(* mixed allocation of pool_alloc_string (llquery.c:141-164) never happens.            *)
PoolIsEnough ==
  /\ pc = "pair" /\ AtPair => q[me].pool = Null \/ PoolHolds(q[me], Len(Key(text, Start)))
  /\ pc = "value" => q[me].pool = Null \/ PoolHolds(q[me], Len(q[me].pairs[index + 1].v))

(* A finished sort by keys has the keys in order (llquery.c:656-685). *)
SortedByKey ==
  [][pc = "sort" /\ pc' = "idle" =>
       \A i \in 1..(q[me].count - 1) : ~KeyAfter(q[me].pairs[i].k, q[me].pairs[i + 1].k)]_vars

(* Every call comes to an end: the loops of parse, filter, sort and clone move on in *)
(* each turn (llquery.c:386-488, 663-682, 697-751, 864-890).                         *)
CallsEnd == []<>(pc = "idle")
=============================================================================

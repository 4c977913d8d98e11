---------------------------- MODULE LlQueryProofs ----------------------------
(***************************************************************************)
(* The memory of query objects: every block has one owner and goes back to *)
(* the allocator it came from; the pool is large enough for every text; a  *)
(* sorted object is in order.                                              *)
(***************************************************************************)
EXTENDS LlQuery, QueryTextProofs

-----------------------------------------------------------------------------
(* Types. *)

Block  == Blocks \cup {Null}
Pair   == [key : Block, value : Block, k : Seq(Int), v : Seq(Int)]
Object == [up : BOOLEAN, flags : FlagSets \cup {{}}, max : Nat, count : Nat, pairs : Seq(Pair),
           alloc : Allocators, internal : Block, kv_pairs : Block,
           pool : Block, pool_size : Nat, pool_used : Nat, decode_buffer : Block \cup {Caller}]

Types ==
  /\ q \in [Queries -> Object]
  /\ heap \in [Blocks -> Allocators \cup {"free"}] /\ foreign \in BOOLEAN
  /\ {me, other} \subseteq Queries \cup {Nobody}
  /\ text \in Seq(Int) /\ len \in Nat /\ cur \in Nat /\ index \in Nat /\ write \in Nat
  /\ pc \in {"idle", "init_pairs", "decode", "pool", "pair", "value", "filter", "sort", "sort_by",
              "clone_key", "clone_value"}

\* What fits together within an object.
Fits(y) ==
  /\ y.count <= Len(y.pairs) /\ Len(y.pairs) = (IF y.up THEN y.max ELSE 0)
  /\ y.up <=> y.kv_pairs # Null
  /\ y.pool_used <= y.pool_size
  /\ y.pool = Null <=> y.pool_size = 0

-----------------------------------------------------------------------------
(* Where a call is. *)

\* An object that is not there is Zero, but for what llquery_init_ex has made of it.
Begun(y) == /\ ~y.up /\ y.count = 0 /\ y.pairs = <<>> /\ y.internal # Null
            /\ y.kv_pairs = Null /\ y.pool = Null /\ y.decode_buffer = Null
Absent   == \A x \in Queries :
              ~q[x].up => q[x] = Zero \/ (me = x /\ pc = "init_pairs" /\ Begun(q[x]))

EmptySlots(y, S) == \A i \in S : y.pairs[i].key = Null /\ y.pairs[i].value = Null

Initialising ==
  pc = "init_pairs" =>
    /\ Begun(q[me]) /\ index = 0
    /\ other # me => other \in Queries /\ q[other].up /\ q[other].max = q[me].max

Parses ==
  /\ pc \in {"decode", "pool"} => index = 0 /\ cur = 0 /\ q[me].count = 0 /\ q[me].pool = Null
  /\ pc = "decode" => q[me].decode_buffer = Null
  /\ pc = "pair" => index <= q[me].max /\ cur <= Len(text)
  /\ pc = "value" => index < q[me].max /\ cur < Len(text) /\ q[me].pairs[index + 1].key # Null

Filters ==
  pc = "filter" => /\ write <= index /\ index <= q[me].count
                   /\ EmptySlots(q[me], (write + 1)..index)

Sorts == pc \in {"sort", "sort_by"} => write < q[me].count /\ index <= ThisRound

Clones ==
  pc \in {"clone_key", "clone_value"} =>
    /\ other \in Queries /\ other # me /\ q[other].up
    /\ q[me].count = q[other].count /\ q[me].pool = Null /\ q[me].decode_buffer = Null
    /\ index <= q[me].count
    /\ EmptySlots(q[me], (index + 2)..q[me].count)
    /\ pc = "clone_key" => EmptySlots(q[me], (index + 1)..q[me].count)
    /\ pc = "clone_value" => index < q[me].count /\ q[me].pairs[index + 1].value = Null

Control == /\ pc = "idle" => index = 0
           /\ pc # "idle" => me \in Queries /\ (pc # "init_pairs" => q[me].up)
           /\ Absent /\ Initialising /\ Parses /\ Filters /\ Sorts /\ Clones

TypeInv == Types /\ (\A x \in Queries : Fits(q[x])) /\ Control

-----------------------------------------------------------------------------
(* Who owns which block. *)

\* The blocks of y, if the keys in slots K and the values in V are its own.
Holdings(y, K, V) ==
  ({y.internal, y.kv_pairs, y.pool, y.decode_buffer}
     \cup {y.pairs[i].key : i \in K} \cup {y.pairs[i].value : i \in V}) \ {Null, Caller}

Own(x) == Holdings(q[x], HeldKeys(x), Held(x))

\* A string that is neither missing nor in the pool.
Lone(y, p) == p \notin {Null, y.pool}

\* No two places of y hold the same block.
Apart(y, K, V) ==
  /\ \A i \in K : Lone(y, y.pairs[i].key) =>
       /\ y.pairs[i].key \notin {y.internal, y.kv_pairs, y.decode_buffer}
       /\ \A j \in K : y.pairs[j].key = y.pairs[i].key => j = i
       /\ \A j \in V : y.pairs[j].value # y.pairs[i].key
  /\ \A i \in V : Lone(y, y.pairs[i].value) =>
       /\ y.pairs[i].value \notin {y.internal, y.kv_pairs, y.decode_buffer}
       /\ \A j \in V : y.pairs[j].value = y.pairs[i].value => j = i
  /\ y.internal # Null => y.internal \notin {y.kv_pairs, y.pool, y.decode_buffer}
  /\ y.kv_pairs # Null => y.kv_pairs \notin {y.pool, y.decode_buffer}
  /\ y.pool # Null => y.pool # y.decode_buffer

OneOwner ==
  /\ \A x \in Queries : Apart(q[x], HeldKeys(x), Held(x))
  /\ \A x, y \in Queries : x # y => Own(x) \cap Own(y) = {}
  /\ \A b \in Blocks : heap[b] # "free" <=> \E x \in Queries : b \in Own(x)

MemoryInv == TypeInv /\ OneOwner

\* Each object's blocks come from its allocator.
FromItsAllocator == ~foreign /\ \A x \in Queries : \A b \in Own(x) : heap[b] = q[x].alloc

-----------------------------------------------------------------------------
(* How full the pool is: of what lies before cur, no byte counts more than twice. *)

PoolInv ==
  /\ pc \in {"decode", "pool", "pair", "value"} => Len(text) <= len
  /\ pc \in {"pair", "value"} => (q[me].pool # Null => q[me].pool_size = 2 * len + PoolPad)
  /\ pc = "pair" => q[me].pool_used <= 2 * cur + (IF cur < Len(text) THEN 0 ELSE 1)
  /\ pc = "value" => /\ Key(text, cur) # <<>>
                     /\ q[me].pool_used <= 2 * cur + Len(Key(text, cur)) + 1
                     /\ q[me].pairs[index + 1].v = Value(text, cur)

-----------------------------------------------------------------------------
(* The last write keys are in their places; so far, the greatest of a round is at its end. *)

\* No key in a slot behind n is less than one before it; none of the first m is greater
\* than the next.
Placed(y, n)   == \A j \in (n + 1)..y.count : \A i \in 1..(j - 1) :
                    ~KeyAfter(y.pairs[i].k, y.pairs[j].k)
Greatest(y, m) == \A i \in 1..m : ~KeyAfter(y.pairs[i].k, y.pairs[m + 1].k)

SortInv == pc = "sort" => Placed(q[me], q[me].count - write) /\ Greatest(q[me], index)
-----------------------------------------------------------------------------
(* Types: memory, objects, and the end of a call. *)

LEMMA BlockIsPositive == \A b \in Blocks : b \in Nat \ {0}
BY QueryAssumptions DEF Blocks

LEMMA AllocateTypes ==
  ASSUME Types, NEW a \in Allocators, NEW b, Allocate(a, b)
  PROVE  heap' \in [Blocks -> Allocators \cup {"free"}] /\ foreign' \in BOOLEAN
BY DEF Types, Allocate

LEMMA ReleaseTypes ==
  ASSUME Types, NEW S, NEW a, Release(S, a)
  PROVE  heap' \in [Blocks -> Allocators \cup {"free"}] /\ foreign' \in BOOLEAN
<1>1. heap' \in [Blocks -> Allocators \cup {"free"}]
  BY DEF Types, Release
<1>2. foreign' \in BOOLEAN
  BY Zenon DEF Types, Release
<1> QED BY <1>1, <1>2

LEMMA GetsBlock ==
  ASSUME NEW a \in Allocators, NEW b, Gets(a, b)
  PROVE  b \in Blocks /\ b # Null /\ b # Caller /\ heap[b] = "free"
<1>1. b \in Blocks /\ heap[b] = "free"
  BY DEF Gets, Unused, Blocks
<1> QED BY <1>1, BlockIsPositive DEF Null, Caller

LEMMA ZeroIsObject == Zero \in Object /\ Fits(Zero) /\ ~Zero.up
BY QueryAssumptions DEF Zero, Object, Block, Null, Fits

\* An object is its fields.
Record(y) == [up |-> y.up, flags |-> y.flags, max |-> y.max, count |-> y.count,
              pairs |-> y.pairs, alloc |-> y.alloc, internal |-> y.internal,
              kv_pairs |-> y.kv_pairs, pool |-> y.pool, pool_size |-> y.pool_size,
              pool_used |-> y.pool_used, decode_buffer |-> y.decode_buffer]

LEMMA ObjectFields == \A y \in Object : y = Record(y)
BY DEF Object, Record

\* A step that changes one object keeps the others.
LEMMA Updated ==
  ASSUME q \in [Queries -> Object], NEW x \in Queries, NEW v \in Object, Update(x, v)
  PROVE  /\ q' \in [Queries -> Object] /\ q'[x] = v
         /\ \A y \in Queries : y # x => q'[y] = q[y]
BY DEF Update

\* What is left to show of a step that changes object x.
LEMMA StepOn ==
  ASSUME TypeInv, NEW x \in Queries, NEW v \in Object, Update(x, v), Fits(v),
         v.up \/ v = Zero \/ (me' = x /\ pc' = "init_pairs" /\ Begun(v)),
         pc = "init_pairs" => me = x
  PROVE  /\ q' \in [Queries -> Object] /\ \A y \in Queries : Fits(q'[y])
         /\ Absent'
         /\ q'[x] = v /\ \A y \in Queries : y # x => q'[y] = q[y]
<1>1. /\ q' \in [Queries -> Object] /\ q'[x] = v
      /\ \A y \in Queries : y # x => q'[y] = q[y]
  BY Updated DEF TypeInv, Types
<1>2. \A y \in Queries : Fits(q'[y])
  BY <1>1 DEF TypeInv
<1>3. Absent'
  <2> SUFFICES ASSUME NEW y \in Queries, ~q'[y].up
               PROVE  q'[y] = Zero \/ (me' = y /\ pc' = "init_pairs" /\ Begun(q'[y]))
    BY DEF Absent, Begun
  <2>1. CASE y = x
    BY <1>1, <2>1
  <2>2. CASE y # x
    BY <1>1, <2>2 DEF TypeInv, Control, Absent
  <2> QED BY <2>1, <2>2
<1> QED BY <1>1, <1>2, <1>3

\* The same where no object changes.
LEMMA StepOnNone ==
  ASSUME TypeInv, UNCHANGED q, pc # "init_pairs"
  PROVE  /\ q' \in [Queries -> Object] /\ \A y \in Queries : Fits(q'[y])
         /\ Absent'
BY DEF TypeInv, Types, Control, Absent

\* A call that ends leaves nothing behind but objects and memory.
LEMMA AtRest ==
  ASSUME NEW err, Ends(err),
         q' \in [Queries -> Object], \A y \in Queries : Fits(q'[y]), Absent',
         heap' \in [Blocks -> Allocators \cup {"free"}], foreign' \in BOOLEAN
  PROVE  TypeInv'
<1>1. Types'
  BY DEF Ends, Types
<1>2. Control'
  BY DEF Ends, Control, Initialising, Parses, Filters, Sorts, Clones
<1> QED BY <1>1, <1>2 DEF TypeInv, Fits
-----------------------------------------------------------------------------
(* Types: the calls that end with their first step. *)

LEMMA NewObjectTypes ==
  ASSUME TypeInv, NEW x \in Queries, NEW from \in Queries, NEW a \in Allocators,
         NEW max \in Nat, NEW flags \in FlagSets \cup {{}},
         pc = "idle", ~q[x].up,
         from # x => q[from].up /\ q[from].max = max,
         NewObject(x, from, a, max, flags)
  PROVE  TypeInv'
<1>1. CASE UNCHANGED heaps /\ Update(x, Zero) /\ Ends("MEMORY_ERROR")
  <2>1. heap' \in [Blocks -> Allocators \cup {"free"}] /\ foreign' \in BOOLEAN
    BY <1>1 DEF TypeInv, Types, heaps
  <2> QED BY <1>1, <2>1, ZeroIsObject, StepOn, AtRest
<1>2. ASSUME NEW b \in Blocks, Allocate(a, b),
             Update(x, [Zero EXCEPT !.alloc = a, !.internal = b, !.max = max, !.flags = flags]),
             Goes("init_pairs"), me' = x, other' = from,
             UNCHANGED <<text, len, cur, index, write>>
      PROVE  TypeInv'
  <2> DEFINE v == [Zero EXCEPT !.alloc = a, !.internal = b, !.max = max, !.flags = flags]
  <2>1. b \in Blocks /\ b # Null
    BY <1>2, GetsBlock DEF Allocate
  <2>2. v \in Object /\ Fits(v) /\ Begun(v) /\ v.max = max
    <3>1. b \in Block
      BY <2>1 DEF Block
    <3> HIDE DEF Zero
    <3>2. /\ v \in Object /\ v.internal = b /\ v.max = max
          /\ v.up = Zero.up /\ v.count = Zero.count /\ v.pairs = Zero.pairs
          /\ v.kv_pairs = Zero.kv_pairs /\ v.pool = Zero.pool /\ v.pool_size = Zero.pool_size
          /\ v.pool_used = Zero.pool_used /\ v.decode_buffer = Zero.decode_buffer
      BY <3>1, ZeroIsObject DEF Object
    <3>3. /\ Zero.up = FALSE /\ Zero.count = 0 /\ Zero.pairs = <<>> /\ Zero.kv_pairs = Null
          /\ Zero.pool = Null /\ Zero.pool_size = 0 /\ Zero.pool_used = 0
          /\ Zero.decode_buffer = Null
      BY DEF Zero
    <3> HIDE DEF v
    <3> QED BY <2>1, <3>2, <3>3 DEF Null, Fits, Begun
  <2>3. Update(x, v) /\ (pc = "init_pairs" => me = x)
    BY <1>2
  <2> HIDE DEF v
  <2>4. /\ q' \in [Queries -> Object] /\ \A y \in Queries : Fits(q'[y])
        /\ Absent'
        /\ q'[x] = v /\ \A y \in Queries : y # x => q'[y] = q[y]
    BY <1>2, <2>2, <2>3, StepOn DEF Goes
  <2>5. heap' \in [Blocks -> Allocators \cup {"free"}] /\ foreign' \in BOOLEAN
    BY <1>2, AllocateTypes DEF TypeInv
  <2>6. Types'
    BY <1>2, <2>4, <2>5 DEF TypeInv, Types, Goes
  <2>7. Initialising'
    BY <1>2, <2>2, <2>4 DEF Initialising, Begun, TypeInv, Control
  <2>8. Control'
    BY <1>2, <2>4, <2>7 DEF Control, Goes, Parses, Filters, Sorts, Clones
  <2> QED BY <2>4, <2>6, <2>8 DEF TypeInv
<1> QED BY <1>1, <1>2 DEF NewObject

LEMMA InitTypes ==
  ASSUME TypeInv, NEW x \in Queries, NEW a \in Allocators, NEW n \in Limits, NEW f \in FlagSets,
         llquery_init_ex(x, a, n, f)
  PROVE  TypeInv'
<1>1. (IF n = 0 THEN DEFAULT_MAX_PAIRS ELSE n) \in Nat
  BY QueryAssumptions
<1> QED BY <1>1, NewObjectTypes DEF llquery_init_ex, Begins

LEMMA CloneTypes ==
  ASSUME TypeInv, NEW x \in Queries, NEW y \in Queries, llquery_clone(x, y)
  PROVE  TypeInv'
<1>1. q[y].max \in Nat /\ q[y].flags \in FlagSets \cup {{}}
  BY DEF TypeInv, Types, Object
<1> QED BY <1>1, NewObjectTypes, QueryAssumptions DEF llquery_clone, Begins

LEMMA ResetIsObject ==
  ASSUME TypeInv, NEW x \in Queries, q[x].up
  PROVE  /\ ResetObject(q[x]) \in Object /\ Fits(ResetObject(q[x])) /\ ResetObject(q[x]).up
         /\ ResetObject(q[x]).count = 0 /\ ResetObject(q[x]).pool = Null
         /\ ResetObject(q[x]).decode_buffer = Null /\ ResetObject(q[x]).pool_used = 0
         /\ ResetObject(q[x]).alloc = q[x].alloc
         /\ ResetObject(q[x]).internal = q[x].internal
         /\ ResetObject(q[x]).kv_pairs = q[x].kv_pairs
         /\ ResetObject(q[x]).max = q[x].max /\ ResetObject(q[x]).flags = q[x].flags
<1> DEFINE old == q[x]
           cleared == Cleared(old.pairs, 1..old.count)
           new == ResetObject(old)
<1>1. old \in Object /\ Fits(old) /\ old.up
  BY DEF TypeInv, Types
<1>2. cleared \in Seq(Pair) /\ Len(cleared) = Len(old.pairs)
  <2>1. EmptyPair \in Pair
    BY DEF EmptyPair, Pair, Block
  <2> HIDE DEF old
  <2>2. old.pairs \in Seq(Pair) /\ DOMAIN old.pairs = 1..Len(old.pairs)
    BY <1>1 DEF Object
  <2> QED BY <2>1, <2>2 DEF Cleared
<1> HIDE DEF old
<1>3. new = [up |-> old.up, flags |-> old.flags, max |-> old.max, count |-> 0, pairs |-> cleared,
             alloc |-> old.alloc, internal |-> old.internal, kv_pairs |-> old.kv_pairs,
             pool |-> Null, pool_size |-> 0, pool_used |-> 0, decode_buffer |-> Null]
  <2>1. old = Record(old)
    BY <1>1, ObjectFields
  <2>2. new = [old EXCEPT !.pairs = cleared, !.count = 0, !.pool = Null, !.pool_size = 0,
                          !.pool_used = 0, !.decode_buffer = Null]
    BY DEF ResetObject
  <2> HIDE DEF cleared, new
  <2> QED BY <2>1, <2>2 DEF Record
<1> HIDE DEF cleared, new
<1>4. new \in Object /\ Fits(new)
  BY <1>1, <1>2, <1>3 DEF Object, Fits, Block
<1> QED BY <1>1, <1>3, <1>4 DEF new, old

LEMMA ResetTypes ==
  ASSUME TypeInv, NEW x \in Queries, llquery_reset(x)
  PROVE  TypeInv'
<1>1. heap' \in [Blocks -> Allocators \cup {"free"}] /\ foreign' \in BOOLEAN
  BY ReleaseTypes DEF TypeInv, llquery_reset
<1>2. pc # "init_pairs" /\ q[x].up
  BY DEF llquery_reset, Begins
<1>3. /\ q' \in [Queries -> Object] /\ \A y \in Queries : Fits(q'[y])
      /\ Absent'
  BY <1>2, ResetIsObject, StepOn DEF llquery_reset
<1> QED BY <1>1, <1>3, AtRest DEF llquery_reset

LEMMA FreeTypes ==
  ASSUME TypeInv, NEW x \in Queries, llquery_free(x)
  PROVE  TypeInv'
<1>1. heap' \in [Blocks -> Allocators \cup {"free"}] /\ foreign' \in BOOLEAN
  BY ReleaseTypes DEF TypeInv, llquery_free, Discard
<1>2. /\ q' \in [Queries -> Object] /\ \A y \in Queries : Fits(q'[y])
      /\ Absent'
  BY ZeroIsObject, StepOn DEF llquery_free, Discard, Begins
<1> QED BY <1>1, <1>2, AtRest DEF llquery_free

LEMMA SetAllocatorTypes ==
  ASSUME TypeInv, NEW x \in Queries, NEW a \in Allocators, llquery_set_allocator(x, a)
  PROVE  TypeInv'
<1>0. q[x] \in Object /\ Fits(q[x]) /\ q[x].up /\ pc = "idle" /\ Ends("OK")
  BY DEF TypeInv, Types, llquery_set_allocator, Begins
<1>1. CASE UNCHANGED heaps /\ Update(x, [q[x] EXCEPT !.alloc = a])
  <2>1. heap' \in [Blocks -> Allocators \cup {"free"}] /\ foreign' \in BOOLEAN
    BY <1>1 DEF TypeInv, Types, heaps
  <2>2. /\ [q[x] EXCEPT !.alloc = a] \in Object /\ Fits([q[x] EXCEPT !.alloc = a])
        /\ [q[x] EXCEPT !.alloc = a].up
    BY <1>0 DEF Object, Fits
  <2> QED BY <1>0, <1>1, <2>1, <2>2, StepOn, AtRest
<1>2. ASSUME NEW b \in Blocks, Gets(a, b),
             heap' = [heap EXCEPT ![b] = a, ![q[x].kv_pairs] = "free"],
             foreign' = (foreign \/ heap[q[x].kv_pairs] # q[x].alloc),
             Update(x, [q[x] EXCEPT !.alloc = a, !.kv_pairs = b])
      PROVE  TypeInv'
  <2>1. heap' \in [Blocks -> Allocators \cup {"free"}]
    BY <1>2 DEF TypeInv, Types
  <2>2. foreign' \in BOOLEAN
    BY <1>2, Zenon DEF TypeInv, Types
  <2>3. /\ [q[x] EXCEPT !.alloc = a, !.kv_pairs = b] \in Object
        /\ Fits([q[x] EXCEPT !.alloc = a, !.kv_pairs = b])
        /\ [q[x] EXCEPT !.alloc = a, !.kv_pairs = b].up
    BY <1>0, <1>2, GetsBlock DEF Object, Block, Fits
  <2> QED BY <1>0, <1>2, <2>1, <2>2, <2>3, StepOn, AtRest
<1> QED BY <1>1, <1>2 DEF llquery_set_allocator
-----------------------------------------------------------------------------
(* Types: parsing. *)

LEMMA ParseTypes ==
  ASSUME TypeInv, NEW x \in Queries, NEW t \in Texts, NEW size \in BufferSizes,
         llquery_parse_ex(x, t, size)
  PROVE  TypeInv'
<1> DEFINE w == Unquestioned(t)
           r == ResetObject(q[x])
           Enters(step, y, into) ==
             /\ Update(x, y) /\ Goes(step)
             /\ me' = x /\ text' = into /\ len' = Len(w) /\ cur' = 0 /\ index' = 0
             /\ UNCHANGED <<other, write>>
<1>0. /\ pc = "idle" /\ q[x].up /\ x \in Queries /\ index = 0
      /\ r \in Object /\ Fits(r) /\ r.up /\ r.count = 0 /\ r.pool = Null
      /\ r.decode_buffer = Null
  BY ResetIsObject DEF llquery_parse_ex, Begins, TypeInv, Control
<1>1. t \in Seq(Int) /\ w \in Seq(Int)
  <2>1. t \in Seq(0..255)
    BY QueryAssumptions
  <2>2. 0..255 \subseteq Int
    OBVIOUS
  <2>3. t \in Seq(Int)
    BY <2>1, <2>2, SeqMonotonic
  <2> QED BY <2>3, UnquestionedLength
<1> HIDE DEF w, r
<1>2. CASE Ends("EMPTY_STRING") /\ UNCHANGED <<q, heaps>>
  <2>1. heap' \in [Blocks -> Allocators \cup {"free"}] /\ foreign' \in BOOLEAN
    BY <1>2 DEF TypeInv, Types, heaps
  <2> QED BY <1>0, <1>2, <2>1, StepOnNone, AtRest
<1>3. ASSUME Release(Strings(q[x]), q[x].alloc), NEW err, Update(x, r), Ends(err)
      PROVE  TypeInv'
  <2>1. heap' \in [Blocks -> Allocators \cup {"free"}] /\ foreign' \in BOOLEAN
    BY <1>3, ReleaseTypes DEF TypeInv
  <2> QED BY <1>0, <1>3, <2>1, StepOn, AtRest
<1>4. ASSUME Release(Strings(q[x]), q[x].alloc), NEW step \in {"pool", "decode"},
             NEW y \in Object, Fits(y), y.up, y.count = 0, y.pool = Null,
             step = "decode" => y.decode_buffer = Null,
             NEW into \in Seq(Int), Enters(step, y, into)
      PROVE  TypeInv'
  <2>1. heap' \in [Blocks -> Allocators \cup {"free"}] /\ foreign' \in BOOLEAN
    BY <1>4, ReleaseTypes DEF TypeInv
  <2>2. /\ q' \in [Queries -> Object] /\ \A z \in Queries : Fits(q'[z])
        /\ Absent' /\ q'[x] = y
    BY <1>0, <1>4, StepOn
  <2>3. pc' = step /\ me' = x /\ index' = 0 /\ cur' = 0
    BY <1>4 DEF Goes
  <2>4. Types'
    <3>1. Len(w) \in Nat /\ text' = into /\ len' = Len(w) /\ UNCHANGED <<other, write>>
      BY <1>1, <1>4
    <3> QED BY <1>4, <2>1, <2>2, <2>3, <3>1 DEF TypeInv, Types
  <2>5. Parses'
    BY <1>4, <2>2, <2>3 DEF Parses
  <2>6. Control'
    BY <1>4, <2>2, <2>3, <2>5 DEF Control, Initialising, Filters, Sorts, Clones
  <2> QED BY <2>2, <2>4, <2>6 DEF TypeInv
<1>5. CASE ~(t = <<>>)
  <2>1. Release(Strings(q[x]), q[x].alloc)
    BY <1>5 DEF llquery_parse_ex
  <2>2. \/ \E err : Update(x, r) /\ Ends(err)
        \/ Enters("pool", r, w) \/ Enters("decode", r, w)
        \/ Enters("pool", [r EXCEPT !.decode_buffer = Caller], decode_in_place(w))
    BY <1>5 DEF llquery_parse_ex, w, r
  <2>3. decode_in_place(w) \in Seq(Int)
    BY <1>1, DecodeInPlaceLength
  <2>4. /\ [r EXCEPT !.decode_buffer = Caller] \in Object
        /\ Fits([r EXCEPT !.decode_buffer = Caller])
        /\ [r EXCEPT !.decode_buffer = Caller].up
        /\ [r EXCEPT !.decode_buffer = Caller].count = 0
        /\ [r EXCEPT !.decode_buffer = Caller].pool = Null
    BY <1>0 DEF Object, Fits
  <2> HIDE DEF Enters
  <2>5. CASE Enters("pool", [r EXCEPT !.decode_buffer = Caller], decode_in_place(w))
    BY <1>4, <2>1, <2>3, <2>4, <2>5
  <2>6. CASE Enters("pool", r, w)
    BY <1>0, <1>1, <1>4, <2>1, <2>6
  <2>7. CASE Enters("decode", r, w)
    BY <1>0, <1>1, <1>4, <2>1, <2>7
  <2> QED BY <1>3, <2>1, <2>2, <2>5, <2>6, <2>7
<1> QED BY <1>2, <1>5 DEF llquery_parse_ex

LEMMA DecodeBufferTypes == ASSUME TypeInv, DecodeBuffer PROVE TypeInv'
<1>0. /\ pc = "decode" /\ me \in Queries /\ q[me] \in Object /\ Fits(q[me]) /\ q[me].up
      /\ index = 0 /\ cur = 0 /\ q[me].count = 0 /\ q[me].pool = Null
  BY DEF DecodeBuffer, TypeInv, Types, Control, Parses
<1>1. CASE UNCHANGED <<q, heaps>> /\ Ends("MEMORY_ERROR")
  <2>1. heap' \in [Blocks -> Allocators \cup {"free"}] /\ foreign' \in BOOLEAN
    BY <1>1 DEF TypeInv, Types, heaps
  <2> QED BY <1>0, <1>1, <2>1, StepOnNone, AtRest
<1>2. ASSUME NEW b \in Blocks, Allocate(q[me].alloc, b),
             Update(me, [q[me] EXCEPT !.decode_buffer = b]),
             text' = decode_in_place(text), Goes("pool"),
             UNCHANGED <<me, other, len, cur, index, write>>
      PROVE  TypeInv'
  <2> DEFINE v == [q[me] EXCEPT !.decode_buffer = b]
  <2>1. q[me].alloc \in Allocators /\ b \in Block
    BY <1>0 DEF Object, Block
  <2>2. heap' \in [Blocks -> Allocators \cup {"free"}] /\ foreign' \in BOOLEAN
    BY <1>2, <2>1, AllocateTypes DEF TypeInv
  <2>3. v \in Object /\ Fits(v) /\ v.up /\ v.count = 0 /\ v.pool = Null
    BY <1>0, <2>1 DEF Object, Fits
  <2>4. Update(me, v)
    BY <1>2
  <2> HIDE DEF v
  <2>5. /\ q' \in [Queries -> Object] /\ \A z \in Queries : Fits(q'[z])
        /\ Absent' /\ q'[me] = v
    BY <1>0, <2>3, <2>4, StepOn
  <2>6. text' \in Seq(Int)
    BY <1>2, DecodeInPlaceLength DEF TypeInv, Types
  <2>7. Types'
    BY <1>2, <2>2, <2>5, <2>6 DEF TypeInv, Types, Goes
  <2>8. Control'
    BY <1>0, <1>2, <2>3, <2>5 DEF Control, Goes, Initialising, Parses, Filters, Sorts, Clones
  <2> QED BY <2>5, <2>7, <2>8 DEF TypeInv
<1> QED BY <1>1, <1>2 DEF DecodeBuffer

LEMMA StringPoolTypes == ASSUME TypeInv, StringPool PROVE TypeInv'
<1>0. /\ pc = "pool" /\ me \in Queries /\ q[me] \in Object /\ Fits(q[me]) /\ q[me].up
      /\ index = 0 /\ cur = 0 /\ q[me].count = 0
      /\ Goes("pair") /\ UNCHANGED locals
  BY DEF StringPool, TypeInv, Types, Control, Parses
<1>1. ASSUME q' \in [Queries -> Object], \A z \in Queries : Fits(q'[z]), Absent', q'[me].up,
             heap' \in [Blocks -> Allocators \cup {"free"}], foreign' \in BOOLEAN
      PROVE  TypeInv'
  <2>1. pc' = "pair" /\ UNCHANGED <<me, other, text, len, cur, index, write>>
    BY <1>0 DEF Goes, locals
  <2>2. Types'
    BY <1>1, <2>1 DEF TypeInv, Types
  <2>3. Parses'
    <3>1. q'[me].max \in Nat
      <4>1. q'[me] \in Object
        BY <1>0, <1>1
      <4> QED BY <4>1 DEF Object
    <3>2. Len(text) \in Nat
      BY DEF TypeInv, Types
    <3> QED BY <1>0, <2>1, <3>1, <3>2 DEF Parses
  <2>4. Control'
    BY <1>0, <1>1, <2>1, <2>3 DEF Control, Initialising, Filters, Sorts, Clones
  <2> QED BY <1>1, <2>2, <2>4 DEF TypeInv
<1>2. CASE UNCHANGED <<q, heaps>>
  <2>1. heap' \in [Blocks -> Allocators \cup {"free"}] /\ foreign' \in BOOLEAN
    BY <1>2 DEF TypeInv, Types, heaps
  <2> QED BY <1>0, <1>1, <1>2, <2>1, StepOnNone
<1>3. ASSUME NEW b \in Blocks, Allocate(q[me].alloc, b),
             Update(me, [q[me] EXCEPT !.pool = b, !.pool_used = 0,
                                      !.pool_size = estimate_string_size(len)])
      PROVE  TypeInv'
  <2> DEFINE n == estimate_string_size(len)
             v == [q[me] EXCEPT !.pool = b, !.pool_used = 0, !.pool_size = n]
  <2>1. q[me].alloc \in Allocators /\ b \in Block /\ b # Null
    BY <1>0, <1>3, GetsBlock DEF Object, Block, Allocate
  <2>2. heap' \in [Blocks -> Allocators \cup {"free"}] /\ foreign' \in BOOLEAN
    BY <1>3, <2>1, AllocateTypes DEF TypeInv
  <2>3. n \in Nat /\ n # 0
    BY QueryAssumptions DEF estimate_string_size, TypeInv, Types
  <2> HIDE DEF n
  <2>4. v \in Object /\ v.up
    BY <1>0, <2>1, <2>3 DEF Object
  <2>5. Fits(v)
    BY <1>0, <2>1, <2>3 DEF Object, Fits
  <2>6. Update(me, v)
    BY <1>3 DEF n
  <2> HIDE DEF v
  <2> QED BY <1>0, <1>1, <2>2, <2>4, <2>5, <2>6, StepOn
<1> QED BY <1>2, <1>3 DEF StringPool
\* A step that changes slot i of an object, and perhaps its pool.
LEMMA SlotUpdated ==
  ASSUME NEW y \in Object, Fits(y), NEW i \in 1..Len(y.pairs), NEW s \in Pair
  PROVE  LET v == [y EXCEPT !.pairs = [y.pairs EXCEPT ![i] = s]] IN
         /\ v \in Object /\ Fits(v) /\ v.pairs = [y.pairs EXCEPT ![i] = s]
         /\ v.up = y.up /\ v.max = y.max /\ v.count = y.count /\ v.flags = y.flags
         /\ v.alloc = y.alloc /\ v.internal = y.internal /\ v.kv_pairs = y.kv_pairs
         /\ v.pool = y.pool /\ v.pool_size = y.pool_size /\ v.pool_used = y.pool_used
         /\ v.decode_buffer = y.decode_buffer
<1> DEFINE ps == [y.pairs EXCEPT ![i] = s]
           v  == [y EXCEPT !.pairs = ps]
<1>1. ps \in Seq(Pair) /\ Len(ps) = Len(y.pairs)
  BY DEF Object
<1> HIDE DEF ps
<1>2. /\ v \in Object /\ v.pairs = ps
      /\ v.up = y.up /\ v.max = y.max /\ v.count = y.count /\ v.flags = y.flags
      /\ v.alloc = y.alloc /\ v.internal = y.internal /\ v.kv_pairs = y.kv_pairs
      /\ v.pool = y.pool /\ v.pool_size = y.pool_size /\ v.pool_used = y.pool_used
      /\ v.decode_buffer = y.decode_buffer
  BY <1>1 DEF Object
<1> HIDE DEF v
<1>3. Fits(v)
  BY <1>1, <1>2 DEF Fits
<1> QED BY <1>2, <1>3 DEF v, ps

\* Taking n bytes and a NUL from the pool of y.
LEMMA PoolTaken ==
  ASSUME NEW y \in Object, Fits(y), NEW n \in Nat, PoolHolds(y, n)
  PROVE  LET v == FromPool(y, n) IN
         /\ v \in Object /\ Fits(v) /\ v.pairs = y.pairs
         /\ v.up = y.up /\ v.max = y.max /\ v.count = y.count /\ v.flags = y.flags
         /\ v.alloc = y.alloc /\ v.internal = y.internal /\ v.kv_pairs = y.kv_pairs
         /\ v.pool = y.pool /\ v.pool_size = y.pool_size /\ v.pool_used = y.pool_used + n + 1
         /\ v.decode_buffer = y.decode_buffer /\ y.pool # Null
<1> DEFINE used == y.pool_used + n + 1
           v    == [y EXCEPT !.pool_used = used]
<1>1. FromPool(y, n) = v
  BY DEF FromPool
<1>2. used \in Nat /\ used <= y.pool_size /\ y.pool # Null
  BY DEF PoolHolds, Object
<1> HIDE DEF used
<1>3. /\ v \in Object /\ v.pairs = y.pairs
      /\ v.up = y.up /\ v.max = y.max /\ v.count = y.count /\ v.flags = y.flags
      /\ v.alloc = y.alloc /\ v.internal = y.internal /\ v.kv_pairs = y.kv_pairs
      /\ v.pool = y.pool /\ v.pool_size = y.pool_size /\ v.pool_used = used
      /\ v.decode_buffer = y.decode_buffer
  BY <1>2 DEF Object
<1> HIDE DEF v
<1>4. Fits(v)
  BY <1>2, <1>3 DEF Fits
<1> QED BY <1>1, <1>2, <1>3, <1>4 DEF used

\* The loop is over: the object has the pairs counted so far.
LEMMA CountSet ==
  ASSUME NEW y \in Object, Fits(y), NEW n \in Nat, n <= Len(y.pairs)
  PROVE  LET v == [y EXCEPT !.count = n] IN
         /\ v \in Object /\ Fits(v) /\ v.pairs = y.pairs /\ v.count = n
         /\ v.up = y.up /\ v.max = y.max /\ v.flags = y.flags
         /\ v.alloc = y.alloc /\ v.internal = y.internal /\ v.kv_pairs = y.kv_pairs
         /\ v.pool = y.pool /\ v.pool_size = y.pool_size /\ v.pool_used = y.pool_used
         /\ v.decode_buffer = y.decode_buffer
BY DEF Object, Fits

LEMMA StopParsingTypes ==
  ASSUME TypeInv, NEW err, me \in Queries, pc # "init_pairs", q[me].up, index <= q[me].max,
         StopParsing(err),
         heap' \in [Blocks -> Allocators \cup {"free"}], foreign' \in BOOLEAN
  PROVE  TypeInv'
<1> DEFINE v == [q[me] EXCEPT !.count = index]
<1>1. q[me] \in Object /\ Fits(q[me]) /\ index \in Nat /\ index <= Len(q[me].pairs)
  BY DEF TypeInv, Types, Fits
<1>2. v \in Object /\ Fits(v) /\ v.up
  BY <1>1, CountSet
<1>3. Update(me, v) /\ Ends(err)
  BY DEF StopParsing
<1> HIDE DEF v
<1> QED BY <1>2, <1>3, StepOn, AtRest

\* What is known at every turn of the parsing loop.
LEMMA AtTurn ==
  ASSUME TypeInv, pc \in {"pair", "value"}
  PROVE  /\ me \in Queries /\ q[me] \in Object /\ Fits(q[me]) /\ q[me].up
         /\ q[me].alloc \in Allocators
         /\ Len(q[me].pairs) = q[me].max /\ q[me].max \in Nat /\ index \in Nat
         /\ text \in Seq(Int) /\ Len(text) \in Nat /\ cur \in 0..Len(text)
         /\ pc = "pair" => index <= q[me].max
         /\ pc = "value" => index < q[me].max /\ cur < Len(text)
         /\ Start \in cur..Len(text)
         /\ index < q[me].max => index + 1 \in 1..Len(q[me].pairs)
                                 /\ q[me].pairs[index + 1] \in Pair
<1>1. /\ me \in Queries /\ q[me] \in Object /\ Fits(q[me]) /\ q[me].up
      /\ index \in Nat /\ cur \in Nat /\ text \in Seq(Int)
      /\ pc = "pair" => index <= q[me].max /\ cur <= Len(text)
      /\ pc = "value" => index < q[me].max /\ cur < Len(text)
  BY DEF TypeInv, Types, Control, Parses
<1>2. /\ q[me].alloc \in Allocators /\ q[me].max \in Nat /\ q[me].pairs \in Seq(Pair)
      /\ Len(q[me].pairs) = q[me].max /\ Len(text) \in Nat /\ cur \in 0..Len(text)
  BY <1>1 DEF Object, Fits
<1>3. Start \in cur..Len(text)
  BY <1>1, <1>2, StartRange DEF Start
<1>4. index < q[me].max => index + 1 \in 1..Len(q[me].pairs) /\ q[me].pairs[index + 1] \in Pair
  BY <1>1, <1>2
<1> QED BY <1>1, <1>2, <1>3, <1>4

LEMMA SkipPairTypes == ASSUME TypeInv, SkipPair PROVE TypeInv'
<1>1. pc = "pair" /\ MorePairs /\ Goes("pair") /\ UNCHANGED <<q, heaps, me, other, text, len, index, write>>
  BY DEF SkipPair
<1>2. /\ q' \in [Queries -> Object] /\ \A y \in Queries : Fits(q'[y])
      /\ Absent'
  BY <1>1, StepOnNone
<1>3. cur' \in 0..Len(text)
  <2>1. Start < Len(text) => PairEnd(text, Start) \in 0..Len(text)
    <3>1. Start \in 0..Len(text) /\ text \in Seq(Int)
      BY <1>1, AtTurn
    <3> QED BY <3>1, PairParts
  <2> QED BY <1>1, <2>1, AtTurn DEF SkipPair
<1>4. Types'
  BY <1>1, <1>2, <1>3 DEF TypeInv, Types, Goes, heaps
<1>5. Parses'
  BY <1>1, <1>3, AtTurn DEF Parses, Goes
<1>6. Control'
  BY <1>1, <1>2, <1>5, AtTurn DEF Control, Goes, Initialising, Filters, Sorts, Clones
<1> QED BY <1>2, <1>4, <1>6 DEF TypeInv
\* v is y with other pairs and another mark in the pool.
Kin(v, y) == /\ v.up = y.up /\ v.max = y.max /\ v.flags = y.flags /\ v.alloc = y.alloc
             /\ v.internal = y.internal /\ v.kv_pairs = y.kv_pairs
             /\ v.pool = y.pool /\ v.pool_size = y.pool_size
             /\ v.decode_buffer = y.decode_buffer

WithSlot(y, i, s) == [y EXCEPT !.pairs = [y.pairs EXCEPT ![i] = s]]

LEMMA SlotKin ==
  ASSUME NEW y \in Object, Fits(y), NEW i \in 1..Len(y.pairs), NEW s \in Pair,
         NEW v, v = WithSlot(y, i, s)
  PROVE  /\ v \in Object /\ Fits(v) /\ v.pairs = [y.pairs EXCEPT ![i] = s]
         /\ Kin(v, y) /\ v.count = y.count /\ v.pool_used = y.pool_used
<1>1. /\ v \in Object /\ Fits(v) /\ v.pairs = [y.pairs EXCEPT ![i] = s]
      /\ v.up = y.up /\ v.max = y.max /\ v.count = y.count /\ v.flags = y.flags
      /\ v.alloc = y.alloc /\ v.internal = y.internal /\ v.kv_pairs = y.kv_pairs
      /\ v.pool = y.pool /\ v.pool_size = y.pool_size /\ v.pool_used = y.pool_used
      /\ v.decode_buffer = y.decode_buffer
  BY SlotUpdated DEF WithSlot
<1> QED BY <1>1 DEF Kin

LEMMA PoolKin ==
  ASSUME NEW y \in Object, Fits(y), NEW n \in Nat, PoolHolds(y, n),
         NEW v, v = FromPool(y, n)
  PROVE  /\ v \in Object /\ Fits(v) /\ v.pairs = y.pairs /\ Kin(v, y) /\ v.count = y.count
         /\ v.pool_used = y.pool_used + n + 1 /\ y.pool # Null /\ y.pool \in Block
<1>1. /\ v \in Object /\ Fits(v) /\ v.pairs = y.pairs
      /\ v.up = y.up /\ v.max = y.max /\ v.count = y.count /\ v.flags = y.flags
      /\ v.alloc = y.alloc /\ v.internal = y.internal /\ v.kv_pairs = y.kv_pairs
      /\ v.pool = y.pool /\ v.pool_size = y.pool_size /\ v.pool_used = y.pool_used + n + 1
      /\ v.decode_buffer = y.decode_buffer /\ y.pool # Null
  BY PoolTaken
<1>2. y.pool \in Block
  BY DEF Object
<1> QED BY <1>1, <1>2 DEF Kin

\* The key is in slot index + 1: in the pool or a block of its own.
KeyTaken(v, s) ==
  LET y == q[me] IN
  /\ v \in Object /\ Fits(v) /\ Kin(v, y) /\ v.count = y.count
  /\ s \in Pair /\ v.pairs = [y.pairs EXCEPT ![index + 1] = s]
  /\ s.k = Key(text, Start) /\ s.v = Value(text, Start)
  /\ \/ /\ s.key = y.pool /\ y.pool # Null /\ UNCHANGED heaps
        /\ v.pool_used = y.pool_used + Len(s.k) + 1
     \/ /\ Allocate(y.alloc, s.key) /\ ~PoolHolds(y, Len(s.k))
        /\ v.pool_used = y.pool_used
  /\ Update(me, v) /\ cur' = Start /\ pc' = "value"
  /\ UNCHANGED <<me, other, text, len, index, write>>

LEMMA KeyEffect ==
  ASSUME TypeInv, ParseKey
  PROVE  \/ \E v, s : KeyTaken(v, s)
         \/ UNCHANGED heaps /\ StopParsing("MEMORY_ERROR")
<1> DEFINE y == q[me]
           k == Key(text, Start)
           w == Value(text, Start)
           slot(b) == [y.pairs[index + 1] EXCEPT !.key = b, !.k = k, !.v = w]
           With(z, b) ==
             /\ Update(me, [z EXCEPT !.pairs = [z.pairs EXCEPT ![index + 1] =
                              [z.pairs[index + 1] EXCEPT !.key = b, !.k = k, !.v = w]]])
             /\ cur' = Start /\ Goes("value") /\ UNCHANGED <<me, other, text, len, index, write>>
<1>1. /\ pc = "pair" /\ y \in Object /\ Fits(y) /\ y.alloc \in Allocators
      /\ index + 1 \in 1..Len(y.pairs) /\ y.pairs[index + 1] \in Pair
      /\ text \in Seq(Int) /\ Start \in 0..Len(text)
  <2>1. pc = "pair" /\ index < y.max
    BY DEF ParseKey, AtPair, MorePairs
  <2> QED BY <2>1, AtTurn
<1>2. k \in Seq(Int) /\ w \in Seq(Int) /\ Len(k) \in Nat
  BY <1>1, PairParts
<1>3. \/ PoolHolds(y, Len(k)) /\ With(FromPool(y, Len(k)), y.pool) /\ UNCHANGED heaps
      \/ ~PoolHolds(y, Len(k)) /\ \E b \in Blocks : Allocate(y.alloc, b) /\ With(y, b)
      \/ UNCHANGED heaps /\ StopParsing("MEMORY_ERROR")
  BY DEF ParseKey
<1> HIDE DEF y, k, w
<1>4. \A b \in Block : /\ slot(b) \in Pair /\ slot(b).key = b
                       /\ slot(b).k = k /\ slot(b).v = w
  BY <1>1, <1>2 DEF Pair
<1>5. CASE PoolHolds(y, Len(k)) /\ With(FromPool(y, Len(k)), y.pool) /\ UNCHANGED heaps
  <2> DEFINE z == FromPool(y, Len(k))
             s == slot(y.pool)
             v == [z EXCEPT !.pairs = [z.pairs EXCEPT ![index + 1] = s]]
  <2>1. /\ z \in Object /\ Fits(z) /\ z.pairs = y.pairs /\ Kin(z, y) /\ z.count = y.count
        /\ z.pool_used = y.pool_used + Len(k) + 1 /\ y.pool # Null /\ y.pool \in Block
    <3>1. z = FromPool(y, Len(k))
      OBVIOUS
    <3> HIDE DEF z
    <3> QED BY <1>1, <1>2, <1>5, <3>1, PoolKin
  <2>2. s \in Pair /\ s.key = y.pool /\ s.k = k /\ s.v = w
    BY <1>4, <2>1
  <2>3. Update(me, v)
    BY <1>5, <2>1
  <2> HIDE DEF z, s, slot
  <2>4. /\ v \in Object /\ Fits(v) /\ v.pairs = [y.pairs EXCEPT ![index + 1] = s]
        /\ Kin(v, y) /\ v.count = y.count /\ v.pool_used = z.pool_used
    <3>1. index + 1 \in 1..Len(z.pairs) /\ z \in Object /\ Fits(z) /\ s \in Pair
      BY <1>1, <2>1, <2>2
    <3>2. /\ v \in Object /\ Fits(v) /\ v.pairs = [z.pairs EXCEPT ![index + 1] = s]
          /\ Kin(v, z) /\ v.count = z.count /\ v.pool_used = z.pool_used
      <4>1. v = WithSlot(z, index + 1, s)
        BY DEF WithSlot
      <4> HIDE DEF v
      <4> QED BY <3>1, <4>1, SlotKin
    <3> HIDE DEF v
    <3> QED BY <2>1, <3>2 DEF Kin
  <2> HIDE DEF v
  <2>5. KeyTaken(v, s)
    BY <1>5, <2>1, <2>2, <2>3, <2>4 DEF KeyTaken, Goes, y, k, w
  <2> QED BY <2>5
<1>6. ASSUME ~PoolHolds(y, Len(k)), NEW b \in Blocks, Allocate(y.alloc, b), With(y, b)
      PROVE  \E v, s : KeyTaken(v, s)
  <2> DEFINE s == slot(b)
             v == [y EXCEPT !.pairs = [y.pairs EXCEPT ![index + 1] = s]]
  <2>1. b \in Block
    BY DEF Block
  <2>2. s \in Pair /\ s.key = b /\ s.k = k /\ s.v = w
    BY <1>4, <2>1
  <2>3. Update(me, v)
    BY <1>6
  <2> HIDE DEF s, slot
  <2>4. /\ v \in Object /\ Fits(v) /\ v.pairs = [y.pairs EXCEPT ![index + 1] = s]
        /\ Kin(v, y) /\ v.count = y.count /\ v.pool_used = y.pool_used
    <3>1. v = WithSlot(y, index + 1, s)
      BY DEF WithSlot
    <3> HIDE DEF v
    <3> QED BY <1>1, <2>2, <3>1, SlotKin
  <2> HIDE DEF v
  <2>5. KeyTaken(v, s)
    BY <1>6, <2>2, <2>3, <2>4 DEF KeyTaken, Goes, y, k, w
  <2> QED BY <2>5
<1> QED BY <1>3, <1>5, <1>6

LEMMA ParseKeyTypes == ASSUME TypeInv, ParseKey PROVE TypeInv'
<1>0. /\ pc = "pair" /\ MorePairs /\ Start < Len(text) /\ me \in Queries /\ q[me].up
      /\ index < q[me].max /\ Start \in Nat /\ q[me].alloc \in Allocators
  <2>1. pc = "pair" /\ MorePairs /\ Start < Len(text)
    BY DEF ParseKey, AtPair
  <2> QED BY <2>1, AtTurn DEF MorePairs
<1>1. ASSUME NEW v, NEW s, KeyTaken(v, s) PROVE TypeInv'
  <2>1. v \in Object /\ Fits(v) /\ v.up /\ v.max = q[me].max /\ Update(me, v)
    BY <1>0, <1>1 DEF KeyTaken, Kin
  <2>2. heap' \in [Blocks -> Allocators \cup {"free"}] /\ foreign' \in BOOLEAN
    BY <1>0, <1>1, AllocateTypes DEF KeyTaken, TypeInv, Types, heaps
  <2>3. /\ q' \in [Queries -> Object] /\ \A y \in Queries : Fits(q'[y])
        /\ Absent' /\ q'[me] = v
    BY <1>0, <2>1, StepOn
  <2>4. cur' = Start /\ pc' = "value" /\ UNCHANGED <<me, other, text, len, index, write>>
    BY <1>1 DEF KeyTaken
  <2>5. Types'
    BY <1>0, <2>2, <2>3, <2>4 DEF TypeInv, Types
  <2>6. v.pairs[index + 1].key # Null
    <3>1. v.pairs = [q[me].pairs EXCEPT ![index + 1] = s]
      BY <1>1 DEF KeyTaken
    <3>2. q[me].pairs \in Seq(Pair) /\ index + 1 \in 1..Len(q[me].pairs)
      BY <1>0, AtTurn DEF Object
    <3>3. s.key # Null
      BY <1>0, <1>1, GetsBlock DEF KeyTaken, Allocate
    <3> QED BY <3>1, <3>2, <3>3
  <2>7. Parses'
    BY <1>0, <2>1, <2>3, <2>4, <2>6 DEF Parses
  <2>8. Control'
    BY <1>0, <2>1, <2>3, <2>4, <2>7
    DEF Control, Initialising, Filters, Sorts, Clones
  <2> QED BY <2>3, <2>5, <2>8 DEF TypeInv
<1>2. CASE UNCHANGED heaps /\ StopParsing("MEMORY_ERROR")
  <2>1. heap' \in [Blocks -> Allocators \cup {"free"}] /\ foreign' \in BOOLEAN
    BY <1>2 DEF TypeInv, Types, heaps
  <2>2. index <= q[me].max
    BY <1>0, AtTurn
  <2> QED BY <1>0, <1>2, <2>1, <2>2, StopParsingTypes
<1> QED BY <1>1, <1>2, KeyEffect

LEMMA ParseEndTypes == ASSUME TypeInv, ParseEnd PROVE TypeInv'
<1>1. PICK err : StopParsing(err)
  BY DEF ParseEnd
<1>2. heap' \in [Blocks -> Allocators \cup {"free"}] /\ foreign' \in BOOLEAN
  BY DEF ParseEnd, TypeInv, Types, heaps
<1>3. pc = "pair"
  BY DEF ParseEnd
<1> QED BY <1>1, <1>2, <1>3, AtTurn, StopParsingTypes
LEMMA ShapedIsPair ==
  ASSUME NEW s \in Pair, NEW flags
  PROVE  /\ Shaped(s, flags) \in Pair
         /\ Shaped(s, flags).key = s.key /\ Shaped(s, flags).value = s.value
         /\ Len(Shaped(s, flags).k) = Len(s.k)
         /\ Shaped(s, flags).k = (IF "LOWERCASE_KEYS" \in flags THEN lowercase_string(s.k) ELSE s.k)
         /\ Shaped(s, flags).v = (IF "TRIM_VALUES" \in flags THEN trim_string(s.v) ELSE s.v)
<1> DEFINE k == IF "LOWERCASE_KEYS" \in flags THEN lowercase_string(s.k) ELSE s.k
           v == IF "TRIM_VALUES" \in flags THEN trim_string(s.v) ELSE s.v
<1>1. s.k \in Seq(Int) /\ s.v \in Seq(Int)
  BY DEF Pair
<1>2. k \in Seq(Int) /\ v \in Seq(Int) /\ Len(k) = Len(s.k)
  BY <1>1, LowercaseIsText, TrimIsText
<1>3. Shaped(s, flags) = [s EXCEPT !.k = k, !.v = v]
  BY DEF Shaped
<1> HIDE DEF k, v
<1>4. /\ Shaped(s, flags) \in Pair
      /\ Shaped(s, flags).key = s.key /\ Shaped(s, flags).value = s.value
      /\ Shaped(s, flags).k = k /\ Shaped(s, flags).v = v
  BY <1>2, <1>3 DEF Pair
<1> QED BY <1>2, <1>4 DEF k, v

\* The value is in slot index + 1: in the pool or a block of its own; or the pair is dropped.
ValueTaken(v, s, keep) ==
  LET y     == q[me]
      old   == y.pairs[index + 1]
      n     == Len(old.v)
      drops == IF keep THEN {} ELSE {s.key, s.value} \ {y.pool}
  IN
  /\ v \in Object /\ Fits(v) /\ Kin(v, y) /\ v.count = y.count
  /\ s \in Pair /\ v.pairs = [y.pairs EXCEPT ![index + 1] = s]
  /\ s.key = old.key /\ Len(s.k) = Len(old.k)
  /\ s.k = (IF "LOWERCASE_KEYS" \in y.flags THEN lowercase_string(old.k) ELSE old.k)
  /\ s.v = (IF "TRIM_VALUES" \in y.flags THEN trim_string(old.v) ELSE old.v)
  /\ keep <=> "KEEP_EMPTY" \in y.flags \/ s.v # <<>>
  /\ \/ s.value = y.pool /\ y.pool # Null /\ v.pool_used = y.pool_used + n + 1
     \/ Gets(y.alloc, s.value) /\ ~PoolHolds(y, n) /\ v.pool_used = y.pool_used
  /\ heap' = [b \in Blocks |-> IF b \in drops THEN "free"
                               ELSE IF b = s.value THEN y.alloc ELSE heap[b]]
  /\ foreign' = (foreign \/ \E b \in drops \ {s.value} : heap[b] # y.alloc)
  /\ Update(me, v) /\ cur' = PairEnd(text, cur) /\ pc' = "pair"
  /\ index' = (IF keep THEN index + 1 ELSE index)
  /\ UNCHANGED <<me, other, text, len, write>>

LEMMA FinishEffect ==
  ASSUME TypeInv, pc = "value", NEW y \in Object, Fits(y), Kin(y, q[me]), y.count = q[me].count,
         y.pairs = q[me].pairs, NEW block \in Block,
         LET n == Len(q[me].pairs[index + 1].v) IN
           \/ block = q[me].pool /\ q[me].pool # Null /\ y.pool_used = q[me].pool_used + n + 1
           \/ Gets(q[me].alloc, block) /\ ~PoolHolds(q[me], n) /\ y.pool_used = q[me].pool_used,
         FinishPair(y, block)
  PROVE  \E v, s : \E keep \in BOOLEAN : ValueTaken(v, s, keep)
<1> DEFINE old   == y.pairs[index + 1]
           new   == [old EXCEPT !.value = block]
           s     == Shaped(new, y.flags)
           v     == [y EXCEPT !.pairs = [y.pairs EXCEPT ![index + 1] = s]]
           keep  == "KEEP_EMPTY" \in y.flags \/ s.v # <<>>
           drops == IF keep THEN {} ELSE {s.key, s.value} \ {y.pool}
<1>1. index + 1 \in 1..Len(y.pairs) /\ old \in Pair
  BY AtTurn
<1>2. /\ new \in Pair /\ new.key = old.key /\ new.value = block
      /\ new.k = old.k /\ new.v = old.v
  <2> HIDE DEF old
  <2> QED BY <1>1 DEF Pair
<1>3. /\ s \in Pair /\ s.key = old.key /\ s.value = block /\ Len(s.k) = Len(old.k)
      /\ s.k = (IF "LOWERCASE_KEYS" \in y.flags THEN lowercase_string(old.k) ELSE old.k)
      /\ s.v = (IF "TRIM_VALUES" \in y.flags THEN trim_string(old.v) ELSE old.v)
  <2> HIDE DEF new
  <2> QED BY <1>2, ShapedIsPair
<1>4. /\ Update(me, v)
      /\ heap' = [b \in Blocks |-> IF b \in drops THEN "free"
                                   ELSE IF b = block THEN y.alloc ELSE heap[b]]
      /\ foreign' = (foreign \/ \E b \in drops \ {block} : heap[b] # y.alloc)
      /\ index' = IF keep THEN index + 1 ELSE index
      /\ cur' = PairEnd(text, cur)
      /\ pc' = "pair" /\ UNCHANGED <<me, other, text, len, write>>
  BY DEF FinishPair, Goes
<1> HIDE DEF s
<1>5. /\ v \in Object /\ Fits(v) /\ v.pairs = [y.pairs EXCEPT ![index + 1] = s]
      /\ Kin(v, y) /\ v.count = y.count /\ v.pool_used = y.pool_used
  <2>1. v = WithSlot(y, index + 1, s)
    BY DEF WithSlot
  <2> HIDE DEF v
  <2> QED BY <1>1, <1>3, <2>1, SlotKin
<1> HIDE DEF v
<1>6. Kin(v, q[me]) /\ y.alloc = q[me].alloc /\ y.pool = q[me].pool /\ y.flags = q[me].flags
  BY <1>5 DEF Kin
<1>7. CASE keep
  <2>1. ValueTaken(v, s, TRUE)
    BY <1>3, <1>4, <1>5, <1>6, <1>7 DEF ValueTaken
  <2> QED BY <2>1
<1>8. CASE ~keep
  <2>1. ValueTaken(v, s, FALSE)
    BY <1>3, <1>4, <1>5, <1>6, <1>8 DEF ValueTaken
  <2> QED BY <2>1
<1> QED BY <1>7, <1>8

LEMMA ValueEffect ==
  ASSUME TypeInv, ParseValue
  PROVE  \/ \E v, s : \E keep \in BOOLEAN : ValueTaken(v, s, keep)
         \/ /\ Release({q[me].pairs[index + 1].key} \ {q[me].pool}, q[me].alloc)
            /\ StopParsing("MEMORY_ERROR")
<1> DEFINE x == q[me]
           n == Len(x.pairs[index + 1].v)
<1>0. pc = "value"
  BY DEF ParseValue
<1>1. /\ x \in Object /\ Fits(x) /\ x.alloc \in Allocators /\ n \in Nat
  <2>1. x \in Object /\ Fits(x) /\ x.alloc \in Allocators /\ x.pairs[index + 1] \in Pair
    BY <1>0, AtTurn
  <2> QED BY <2>1 DEF Pair
<1>2. \/ PoolHolds(x, n) /\ FinishPair(FromPool(x, n), x.pool)
      \/ ~PoolHolds(x, n) /\ \E b \in Blocks : Gets(x.alloc, b) /\ FinishPair(x, b)
      \/ Release({x.pairs[index + 1].key} \ {x.pool}, x.alloc) /\ StopParsing("MEMORY_ERROR")
  BY DEF ParseValue
<1>3. CASE PoolHolds(x, n) /\ FinishPair(FromPool(x, n), x.pool)
  <2> DEFINE y == FromPool(x, n)
  <2>1. /\ y \in Object /\ Fits(y) /\ y.pairs = x.pairs /\ Kin(y, x) /\ y.count = x.count
        /\ y.pool_used = x.pool_used + n + 1 /\ x.pool # Null /\ x.pool \in Block
    <3>1. y = FromPool(x, n)
      OBVIOUS
    <3> HIDE DEF y
    <3> QED BY <1>1, <1>3, <3>1, PoolKin
  <2>2. FinishPair(y, x.pool)
    BY <1>3
  <2> HIDE DEF y
  <2> QED BY <1>0, <2>1, <2>2, FinishEffect
<1>4. ASSUME ~PoolHolds(x, n), NEW b \in Blocks, Gets(x.alloc, b), FinishPair(x, b)
      PROVE  \E v, s : \E keep \in BOOLEAN : ValueTaken(v, s, keep)
  <2>1. b \in Block /\ Kin(x, x)
    BY DEF Block, Kin
  <2> QED BY <1>0, <1>1, <1>4, <2>1, FinishEffect
<1> QED BY <1>2, <1>3, <1>4

LEMMA ParseValueTypes == ASSUME TypeInv, ParseValue PROVE TypeInv'
<1>0. /\ pc = "value" /\ me \in Queries /\ q[me].up /\ q[me].alloc \in Allocators
      /\ index < q[me].max /\ index \in Nat /\ q[me].max \in Nat
      /\ text \in Seq(Int) /\ cur \in 0..Len(text)
  <2>1. pc = "value"
    BY DEF ParseValue
  <2> QED BY <2>1, AtTurn
<1>1. ASSUME NEW v, NEW s, NEW keep \in BOOLEAN, ValueTaken(v, s, keep) PROVE TypeInv'
  <2>1. v \in Object /\ Fits(v) /\ v.up /\ v.max = q[me].max /\ Update(me, v)
    BY <1>0, <1>1 DEF ValueTaken, Kin
  <2>2. heap' \in [Blocks -> Allocators \cup {"free"}]
    BY <1>0, <1>1 DEF ValueTaken, TypeInv, Types
  <2>3. foreign' \in BOOLEAN
    BY <1>1, Zenon DEF ValueTaken, TypeInv, Types
  <2>4. /\ q' \in [Queries -> Object] /\ \A y \in Queries : Fits(q'[y])
        /\ Absent' /\ q'[me] = v
    BY <1>0, <2>1, StepOn
  <2>5. /\ cur' = PairEnd(text, cur) /\ pc' = "pair" /\ index' \in {index, index + 1}
        /\ UNCHANGED <<me, other, text, len, write>>
    BY <1>1 DEF ValueTaken
  <2>6. cur' \in 0..Len(text)
    BY <1>0, <2>5, PairParts
  <2>7. Types'
    BY <1>0, <2>2, <2>3, <2>4, <2>5, <2>6 DEF TypeInv, Types
  <2>8. Parses'
    BY <1>0, <2>1, <2>4, <2>5, <2>6 DEF Parses
  <2>9. Control'
    BY <1>0, <2>1, <2>4, <2>5, <2>8 DEF Control, Initialising, Filters, Sorts, Clones
  <2> QED BY <2>4, <2>7, <2>9 DEF TypeInv
<1>2. CASE /\ Release({q[me].pairs[index + 1].key} \ {q[me].pool}, q[me].alloc)
           /\ StopParsing("MEMORY_ERROR")
  <2>1. heap' \in [Blocks -> Allocators \cup {"free"}] /\ foreign' \in BOOLEAN
    BY <1>2, ReleaseTypes DEF TypeInv
  <2> QED BY <1>0, <1>2, <2>1, StopParsingTypes
<1> QED BY <1>1, <1>2, ValueEffect
-----------------------------------------------------------------------------
(* Types: filtering and sorting. *)

LEMMA EmptyPairIsPair == EmptyPair \in Pair /\ EmptyPair.key = Null /\ EmptyPair.value = Null
BY DEF EmptyPair, Pair, Block

\* A step that gives an object other pairs, as many as it had slots.
LEMMA PairsUpdated ==
  ASSUME NEW y \in Object, Fits(y), NEW ps \in Seq(Pair), Len(ps) = Len(y.pairs),
         NEW n \in Nat, n <= Len(ps)
  PROVE  LET v == [y EXCEPT !.count = n, !.pairs = ps] IN
         /\ v \in Object /\ Fits(v) /\ Kin(v, y) /\ v.pairs = ps /\ v.count = n
         /\ v.pool_used = y.pool_used
<1> DEFINE v == [y EXCEPT !.count = n, !.pairs = ps]
<1>1. /\ v \in Object /\ Kin(v, y) /\ v.pairs = ps /\ v.count = n
      /\ v.pool_used = y.pool_used
  BY DEF Object, Kin
<1> HIDE DEF v
<1>2. Fits(v)
  BY <1>1 DEF Fits, Kin
<1> QED BY <1>1, <1>2 DEF v

\* The same with the count it had.
LEMMA PairsChanged ==
  ASSUME NEW y \in Object, Fits(y), NEW ps \in Seq(Pair), Len(ps) = Len(y.pairs)
  PROVE  LET v == [y EXCEPT !.pairs = ps] IN
         /\ v \in Object /\ Fits(v) /\ Kin(v, y) /\ v.pairs = ps /\ v.count = y.count
         /\ v.pool_used = y.pool_used
<1> DEFINE v == [y EXCEPT !.pairs = ps]
<1>1. /\ v \in Object /\ Kin(v, y) /\ v.pairs = ps /\ v.count = y.count
      /\ v.pool_used = y.pool_used
  BY DEF Object, Kin
<1> HIDE DEF v
<1>2. Fits(v)
  BY <1>1 DEF Fits, Kin
<1> QED BY <1>1, <1>2 DEF v

LEMMA ClearedSlots ==
  ASSUME NEW ps \in Seq(Pair), NEW S
  PROVE  /\ Cleared(ps, S) \in Seq(Pair) /\ Len(Cleared(ps, S)) = Len(ps)
         /\ \A i \in 1..Len(ps) : Cleared(ps, S)[i] = IF i \in S THEN EmptyPair ELSE ps[i]
BY EmptyPairIsPair DEF Cleared

\* Any method that only walks over an object's pairs: filter and sort.
Walking == pc \in {"filter", "sort", "sort_by"}

LEMMA AtWalk ==
  ASSUME TypeInv, Walking
  PROVE  /\ me \in Queries /\ q[me] \in Object /\ Fits(q[me]) /\ q[me].up
         /\ q[me].pairs \in Seq(Pair) /\ q[me].count \in Nat /\ q[me].count <= Len(q[me].pairs)
         /\ Len(q[me].pairs) \in Nat
         /\ index \in Nat /\ write \in Nat /\ q[me].alloc \in Allocators
         /\ index <= q[me].count /\ write <= q[me].count
<1>1. /\ me \in Queries /\ q[me] \in Object /\ Fits(q[me]) /\ q[me].up
      /\ index \in Nat /\ write \in Nat
  BY DEF Walking, TypeInv, Types, Control
<1>2. /\ q[me].pairs \in Seq(Pair) /\ q[me].count \in Nat /\ q[me].count <= Len(q[me].pairs)
      /\ Len(q[me].pairs) \in Nat /\ q[me].alloc \in Allocators
  BY <1>1 DEF Object, Fits
<1>3. index <= q[me].count /\ write <= q[me].count
  BY <1>1, <1>2 DEF TypeInv, Control, Walking, Filters, Sorts, ThisRound
<1> QED BY <1>1, <1>2, <1>3

LEMMA FilterStartTypes == ASSUME TypeInv, NEW x \in Queries, llquery_filter(x) PROVE TypeInv'
<1>1. /\ q[x].up /\ q[x].count \in Nat /\ pc = "idle" /\ pc' = "filter" /\ me' = x
      /\ index' = 0 /\ write' = 0 /\ UNCHANGED <<q, heaps, other, text, len, cur>>
  BY DEF llquery_filter, Begins, Goes, TypeInv, Types, Object
<1>2. /\ q' \in [Queries -> Object] /\ \A y \in Queries : Fits(q'[y])
      /\ Absent'
  BY <1>1, StepOnNone
<1>3. Types'
  BY <1>1, <1>2 DEF TypeInv, Types, heaps
<1>4. Filters'
  BY <1>1 DEF Filters, EmptySlots
<1>5. Control'
  BY <1>1, <1>2, <1>4 DEF Control, Initialising, Parses, Sorts, Clones
<1> QED BY <1>2, <1>3, <1>5 DEF TypeInv

\* Pair index + 1 moves to the front; or its slot is cleared.
Moved(v) ==
  LET y == q[me] IN
  /\ v \in Object /\ Fits(v) /\ Kin(v, y) /\ v.count = y.count /\ Len(v.pairs) = Len(y.pairs)
  /\ \A i \in 1..Len(y.pairs) :
       v.pairs[i] = IF i = write + 1 THEN y.pairs[index + 1]
                    ELSE IF i = index + 1 THEN EmptyPair ELSE y.pairs[i]
  /\ write' = write + 1 /\ UNCHANGED heaps
Dropped(v) ==
  LET y == q[me] IN
  /\ v \in Object /\ Fits(v) /\ Kin(v, y) /\ v.count = y.count /\ Len(v.pairs) = Len(y.pairs)
  /\ \A i \in 1..Len(y.pairs) : v.pairs[i] = IF i = index + 1 THEN EmptyPair ELSE y.pairs[i]
  /\ Release(Loose(y, {index + 1}), y.alloc) /\ UNCHANGED write

LEMMA FilterEffect ==
  ASSUME TypeInv, NEW keep \in BOOLEAN, FilterPair(keep)
  PROVE  /\ pc = "filter" /\ index < q[me].count
         /\ \E v : (Moved(v) \/ Dropped(v)) /\ Update(me, v)
         /\ pc' = "filter" /\ index' = index + 1 /\ UNCHANGED <<me, other, text, len, cur>>
<1> DEFINE x == q[me]
           r == index + 1
           w == write + 1
           ps == [x.pairs EXCEPT ![w] = x.pairs[r], ![r] = EmptyPair]
<1>1. /\ pc = "filter" /\ index < x.count
      /\ pc' = "filter" /\ index' = r /\ UNCHANGED <<me, other, text, len, cur>>
  BY DEF FilterPair, Goes
<1>2. /\ x \in Object /\ Fits(x) /\ x.pairs \in Seq(Pair) /\ Len(x.pairs) \in Nat
      /\ r \in 1..Len(x.pairs) /\ w \in 1..Len(x.pairs) /\ w <= r
  <2>1. write <= index
    BY <1>1 DEF TypeInv, Control, Filters
  <2> QED BY <1>1, <2>1, AtWalk DEF Walking
<1>3. CASE /\ keep
           /\ Update(me, IF w = r THEN x ELSE [x EXCEPT !.pairs = ps])
           /\ write' = w /\ UNCHANGED heaps
  <2>1. CASE w = r
    <3>1. Moved(x)
      BY <1>2, <1>3, <2>1 DEF Moved, Kin
    <3>2. Update(me, x)
      BY <1>3, <2>1
    <3> QED BY <1>1, <3>1, <3>2
  <2>2. CASE w # r
    <3> DEFINE v == [x EXCEPT !.pairs = ps]
    <3>1. /\ ps \in Seq(Pair) /\ Len(ps) = Len(x.pairs)
          /\ \A i \in 1..Len(x.pairs) :
               ps[i] = IF i = w THEN x.pairs[r] ELSE IF i = r THEN EmptyPair ELSE x.pairs[i]
      <4> HIDE DEF x
      <4> QED BY <1>2, <2>2, EmptyPairIsPair
    <3>2. Update(me, v)
      BY <1>3, <2>2
    <3> HIDE DEF ps
    <3>3. /\ v \in Object /\ Fits(v) /\ Kin(v, x) /\ v.pairs = ps /\ v.count = x.count
      BY <1>2, <3>1, PairsChanged
    <3> HIDE DEF v
    <3>4. Moved(v)
      BY <1>3, <3>1, <3>3 DEF Moved
    <3> QED BY <1>1, <3>2, <3>4
  <2> QED BY <2>1, <2>2
<1>4. CASE /\ Release(Loose(x, {r}), x.alloc)
           /\ Update(me, [x EXCEPT !.pairs = Cleared(@, {r})])
           /\ UNCHANGED write
  <2> DEFINE cs == Cleared(x.pairs, {r})
             v == [x EXCEPT !.pairs = cs]
  <2>1. /\ cs \in Seq(Pair) /\ Len(cs) = Len(x.pairs)
        /\ \A i \in 1..Len(x.pairs) : cs[i] = IF i = r THEN EmptyPair ELSE x.pairs[i]
    <3> HIDE DEF x
    <3>1. \A i : i \in {r} <=> i = r
      OBVIOUS
    <3> QED BY <1>2, <3>1, ClearedSlots
  <2>2. Update(me, v)
    BY <1>4
  <2> HIDE DEF cs
  <2>3. /\ v \in Object /\ Fits(v) /\ Kin(v, x) /\ v.pairs = cs /\ v.count = x.count
    BY <1>2, <2>1, PairsChanged
  <2> HIDE DEF v
  <2>4. Dropped(v)
    BY <1>4, <2>1, <2>3 DEF Dropped
  <2> QED BY <1>1, <2>2, <2>4
<1> QED BY <1>3, <1>4 DEF FilterPair

LEMMA FilterPairTypes ==
  ASSUME TypeInv, NEW keep \in BOOLEAN, FilterPair(keep)
  PROVE  TypeInv'
<1>1. /\ pc = "filter" /\ index < q[me].count
      /\ pc' = "filter" /\ index' = index + 1 /\ UNCHANGED <<me, other, text, len, cur>>
  BY FilterEffect
<1>2. PICK v : (Moved(v) \/ Dropped(v)) /\ Update(me, v)
  BY FilterEffect
<1>3. /\ me \in Queries /\ q[me].up /\ q[me].count \in Nat /\ q[me].count <= Len(q[me].pairs)
      /\ Len(q[me].pairs) \in Nat /\ index \in Nat /\ write \in Nat /\ write <= index
      /\ EmptySlots(q[me], (write + 1)..index)
  <2>1. write <= index /\ EmptySlots(q[me], (write + 1)..index)
    BY <1>1 DEF TypeInv, Control, Filters
  <2> QED BY <1>1, <2>1, AtWalk DEF Walking
<1>4. /\ v \in Object /\ Fits(v) /\ v.up /\ v.max = q[me].max /\ v.count = q[me].count
      /\ write' \in Nat /\ write' <= index + 1
  <2>1. CASE Moved(v)
    BY <1>3, <2>1 DEF Moved, Kin
  <2>2. CASE Dropped(v)
    BY <1>3, <2>2 DEF Dropped, Kin
  <2> QED BY <1>2, <2>1, <2>2
<1>5. /\ q' \in [Queries -> Object] /\ \A y \in Queries : Fits(q'[y])
      /\ Absent' /\ q'[me] = v
  BY <1>1, <1>2, <1>3, <1>4, StepOn
<1>6. heap' \in [Blocks -> Allocators \cup {"free"}] /\ foreign' \in BOOLEAN
  <2>1. CASE Moved(v)
    BY <2>1 DEF Moved, TypeInv, Types, heaps
  <2>2. CASE Dropped(v)
    BY <2>2, ReleaseTypes DEF Dropped, TypeInv
  <2> QED BY <1>2, <2>1, <2>2
<1>7. Types'
  BY <1>1, <1>3, <1>4, <1>5, <1>6 DEF TypeInv, Types
<1>8. EmptySlots(v, (write' + 1)..(index + 1))
  <2> SUFFICES ASSUME NEW i \in (write' + 1)..(index + 1)
               PROVE  v.pairs[i].key = Null /\ v.pairs[i].value = Null
    BY DEF EmptySlots
  <2>1. i \in 1..Len(q[me].pairs)
    BY <1>1, <1>3, <1>4
  <2>2. CASE i = index + 1
    <3>1. v.pairs[i] = EmptyPair
      <4>1. CASE Moved(v)
        BY <1>3, <1>4, <2>1, <2>2, <4>1 DEF Moved
      <4>2. CASE Dropped(v)
        BY <2>1, <2>2, <4>2 DEF Dropped
      <4> QED BY <1>2, <4>1, <4>2
    <3> QED BY <3>1, EmptyPairIsPair
  <2>3. CASE i # index + 1
    <3>1. i \in (write + 1)..index /\ v.pairs[i] = q[me].pairs[i]
      <4>1. CASE Moved(v)
        <5>1. write' = write + 1
          BY <4>1 DEF Moved
        <5> QED BY <1>3, <2>1, <2>3, <4>1, <5>1 DEF Moved
      <4>2. CASE Dropped(v)
        <5>1. write' = write
          BY <4>2 DEF Dropped
        <5> QED BY <1>3, <2>1, <2>3, <4>2, <5>1 DEF Dropped
      <4> QED BY <1>2, <4>1, <4>2
    <3> QED BY <1>3, <3>1 DEF EmptySlots
  <2> QED BY <2>2, <2>3
<1>9. Filters'
  BY <1>1, <1>3, <1>4, <1>5, <1>8 DEF Filters
<1>10. Control'
  BY <1>1, <1>3, <1>4, <1>5, <1>9 DEF Control, Initialising, Parses, Sorts, Clones
<1> QED BY <1>5, <1>7, <1>10 DEF TypeInv

LEMMA FilterEndTypes == ASSUME TypeInv, FilterEnd PROVE TypeInv'
<1> DEFINE x  == q[me]
           ps == Cleared(x.pairs, (write + 1)..x.count)
           v  == [x EXCEPT !.count = write, !.pairs = ps]
<1>1. pc = "filter" /\ Update(me, v) /\ Ends("OK")
  BY DEF FilterEnd
<1>2. /\ x \in Object /\ Fits(x) /\ x.up /\ x.pairs \in Seq(Pair) /\ me \in Queries
      /\ write \in Nat /\ write <= Len(x.pairs)
  BY <1>1, AtWalk DEF Walking
<1>3. ps \in Seq(Pair) /\ Len(ps) = Len(x.pairs)
  BY <1>2, ClearedSlots
<1> HIDE DEF ps
<1>4. v \in Object /\ Fits(v) /\ v.up
  <2>1. write <= Len(ps)
    BY <1>2, <1>3
  <2>2. v \in Object /\ Fits(v) /\ Kin(v, x)
    BY <1>2, <1>3, <2>1, PairsUpdated
  <2> HIDE DEF v
  <2> QED BY <1>2, <2>2 DEF Kin
<1> HIDE DEF v
<1>5. heap' \in [Blocks -> Allocators \cup {"free"}] /\ foreign' \in BOOLEAN
  BY ReleaseTypes DEF FilterEnd, TypeInv
<1> QED BY <1>1, <1>2, <1>4, <1>5, StepOn, AtRest

LEMMA SortStartTypes ==
  ASSUME TypeInv, NEW x \in Queries, NEW by \in BOOLEAN, llquery_sort(x, by)
  PROVE  TypeInv'
<1>1. /\ q[x].up /\ q[x].count \in Nat /\ q[x].count >= 2 /\ pc = "idle" /\ me' = x
      /\ pc' \in {"sort", "sort_by"}
      /\ index' = 0 /\ write' = 0 /\ UNCHANGED <<q, heaps, other, text, len, cur>>
  BY DEF llquery_sort, Begins, Goes, TypeInv, Types, Object
<1>2. /\ q' \in [Queries -> Object] /\ \A y \in Queries : Fits(q'[y])
      /\ Absent'
  BY <1>1, StepOnNone
<1>3. Types'
  BY <1>1, <1>2 DEF TypeInv, Types, heaps
<1>4. Sorts'
  BY <1>1 DEF Sorts, ThisRound
<1>5. Control'
  BY <1>1, <1>2, <1>4 DEF Control, Initialising, Parses, Filters, Clones
<1> QED BY <1>2, <1>3, <1>5 DEF TypeInv

\* Pairs index + 1 and index + 2 change places.
Swapped(v) ==
  LET y == q[me] IN
  /\ v \in Object /\ Fits(v) /\ Kin(v, y) /\ v.count = y.count /\ Len(v.pairs) = Len(y.pairs)
  /\ \A i \in 1..Len(y.pairs) :
       v.pairs[i] = IF i = index + 1 THEN y.pairs[index + 2]
                    ELSE IF i = index + 2 THEN y.pairs[index + 1] ELSE y.pairs[i]

LEMMA SortEffect ==
  ASSUME TypeInv, SortPair
  PROVE  /\ pc \in {"sort", "sort_by"} /\ index < ThisRound
         /\ index' = index + 1
         /\ UNCHANGED <<heaps, pc, me, other, text, len, cur, write>>
         /\ \E after \in BOOLEAN :
              /\ pc = "sort" => after = KeyAfter(q[me].pairs[index + 1].k, q[me].pairs[index + 2].k)
              /\ IF after THEN \E v : Swapped(v) /\ Update(me, v) ELSE UNCHANGED q
<1> DEFINE x == q[me]
           a == x.pairs[index + 1]
           b == x.pairs[index + 2]
           ps == [x.pairs EXCEPT ![index + 1] = b, ![index + 2] = a]
           v == [x EXCEPT !.pairs = ps]
<1>1. /\ pc \in {"sort", "sort_by"} /\ index < ThisRound
      /\ index' = index + 1
      /\ UNCHANGED <<heaps, pc, me, other, text, len, cur, write>>
  BY DEF SortPair
<1>2. /\ x \in Object /\ Fits(x) /\ x.pairs \in Seq(Pair) /\ Len(x.pairs) \in Nat
      /\ index + 1 \in 1..Len(x.pairs) /\ index + 2 \in 1..Len(x.pairs)
  <2>1. Walking
    BY <1>1 DEF Walking
  <2>2. /\ x \in Object /\ Fits(x) /\ x.pairs \in Seq(Pair) /\ Len(x.pairs) \in Nat
        /\ x.count \in Nat /\ x.count <= Len(x.pairs) /\ index \in Nat /\ write \in Nat
    BY <2>1, AtWalk
  <2>3. index < x.count - write - 1
    BY <1>1 DEF ThisRound
  <2> HIDE DEF x
  <2> QED BY <2>2, <2>3
<1>3. PICK after \in IF pc = "sort" THEN {KeyAfter(a.k, b.k)} ELSE BOOLEAN :
        IF after THEN Update(me, [x EXCEPT !.pairs[index + 1] = b, !.pairs[index + 2] = a])
                 ELSE UNCHANGED q
  BY DEF SortPair
<1>4. KeyAfter(a.k, b.k) \in BOOLEAN
  BY AfterIsBoolean
<1>5. after \in BOOLEAN /\ (pc = "sort" => after = KeyAfter(a.k, b.k))
  BY <1>3, <1>4
<1>6. CASE ~after
  BY <1>1, <1>3, <1>5, <1>6
<1>7. CASE after
  <2>1. Update(me, [x EXCEPT !.pairs[index + 1] = b, !.pairs[index + 2] = a])
    BY <1>3, <1>7
  <2>2. [x EXCEPT !.pairs[index + 1] = b, !.pairs[index + 2] = a] = v
    <3> HIDE DEF a, b
    <3> DEFINE p1 == [x.pairs EXCEPT ![index + 1] = b]
               v1 == [x EXCEPT !.pairs = p1]
    <3>1. v1.pairs = p1 /\ v1 = [x EXCEPT !.pairs[index + 1] = b]
      BY <1>2 DEF Object
    <3>2. [x EXCEPT !.pairs[index + 1] = b, !.pairs[index + 2] = a]
            = [v1 EXCEPT !.pairs = [v1.pairs EXCEPT ![index + 2] = a]]
      OBVIOUS
    <3>3. ps = [p1 EXCEPT ![index + 2] = a]
      OBVIOUS
    <3> HIDE DEF p1, ps
    <3> QED BY <1>2, <3>1, <3>2, <3>3 DEF Object
  <2>3. /\ ps \in Seq(Pair) /\ Len(ps) = Len(x.pairs)
        /\ \A i \in 1..Len(x.pairs) :
             ps[i] = IF i = index + 1 THEN b ELSE IF i = index + 2 THEN a ELSE x.pairs[i]
    <3> HIDE DEF x
    <3> QED BY <1>2
  <2>4. Update(me, v)
    BY <2>1, <2>2
  <2> HIDE DEF ps
  <2>5. /\ v \in Object /\ Fits(v) /\ Kin(v, x) /\ v.pairs = ps /\ v.count = x.count
    BY <1>2, <2>3, PairsChanged
  <2> HIDE DEF v
  <2>6. Swapped(v)
    BY <2>3, <2>5 DEF Swapped
  <2> QED BY <1>1, <1>5, <1>7, <2>4, <2>6
<1> QED BY <1>5, <1>6, <1>7

LEMMA SortPairTypes == ASSUME TypeInv, SortPair PROVE TypeInv'
<1>1. /\ pc \in {"sort", "sort_by"} /\ index < ThisRound
      /\ index' = index + 1
      /\ UNCHANGED <<heaps, pc, me, other, text, len, cur, write>>
      /\ UNCHANGED q \/ \E v : Swapped(v) /\ Update(me, v)
  BY SortEffect
<1>2. /\ me \in Queries /\ q[me].up /\ q[me].count \in Nat /\ index \in Nat /\ write \in Nat
      /\ write < q[me].count
  <2>1. write < q[me].count
    BY <1>1 DEF TypeInv, Control, Sorts
  <2> QED BY <1>1, <2>1, AtWalk DEF Walking
<1>3. /\ q' \in [Queries -> Object] /\ \A y \in Queries : Fits(q'[y])
      /\ Absent' /\ q'[me].up /\ q'[me].count = q[me].count
  <2>1. CASE UNCHANGED q
    BY <1>1, <1>2, <2>1, StepOnNone
  <2>2. ASSUME NEW v, Swapped(v), Update(me, v) PROVE <1>3!:
    <3>1. v \in Object /\ Fits(v) /\ v.up /\ v.count = q[me].count
      BY <1>2, <2>2 DEF Swapped, Kin
    <3> QED BY <1>1, <1>2, <2>2, <3>1, StepOn
  <2> QED BY <1>1, <2>1, <2>2
<1>4. Types'
  BY <1>1, <1>2, <1>3 DEF TypeInv, Types, heaps
<1>5. Sorts'
  BY <1>1, <1>2, <1>3 DEF Sorts, ThisRound
<1>6. Control'
  BY <1>1, <1>2, <1>3, <1>5 DEF Control, Initialising, Parses, Filters, Clones
<1> QED BY <1>3, <1>4, <1>6 DEF TypeInv

LEMMA SortRoundTypes == ASSUME TypeInv, SortRound PROVE TypeInv'
<1>1. /\ pc \in {"sort", "sort_by"} /\ ThisRound > 0 /\ index' = 0 /\ write' = write + 1
      /\ UNCHANGED <<q, heaps, pc, rc, me, other, text, len, cur>>
  BY DEF SortRound
<1>2. /\ me \in Queries /\ q[me].up /\ q[me].count \in Nat /\ write \in Nat
      /\ write + 1 < q[me].count
  BY <1>1, AtWalk DEF Walking, ThisRound
<1>3. /\ q' \in [Queries -> Object] /\ \A y \in Queries : Fits(q'[y])
      /\ Absent'
  BY <1>1, StepOnNone
<1>4. Types'
  BY <1>1, <1>2, <1>3 DEF TypeInv, Types, heaps
<1>5. Sorts'
  BY <1>1, <1>2 DEF Sorts, ThisRound
<1>6. Control'
  BY <1>1, <1>2, <1>3, <1>5 DEF Control, Initialising, Parses, Filters, Clones
<1> QED BY <1>3, <1>4, <1>6 DEF TypeInv

LEMMA SortEndTypes == ASSUME TypeInv, SortEnd PROVE TypeInv'
<1>1. pc # "init_pairs" /\ Ends("OK") /\ UNCHANGED <<q, heaps>>
  BY DEF SortEnd
<1>2. heap' \in [Blocks -> Allocators \cup {"free"}] /\ foreign' \in BOOLEAN
  BY <1>1 DEF TypeInv, Types, heaps
<1> QED BY <1>1, <1>2, StepOnNone, AtRest
-----------------------------------------------------------------------------
(* Types: the rest of init and clone. *)

\* The second allocation of a new object.
PairsMade(b, v) ==
  /\ Allocate(q[me].alloc, b) /\ b \in Blocks /\ b # Null
  /\ v \in Object /\ Fits(v) /\ v.up /\ Update(me, v)
  /\ v.alloc = q[me].alloc /\ v.internal = q[me].internal /\ v.kv_pairs = b
  /\ v.pool = Null /\ v.decode_buffer = Null
  /\ v.count = (IF other = me THEN 0 ELSE q[other].count)
  /\ v.max = q[me].max /\ v.flags = q[me].flags
  /\ EmptySlots(v, 1..v.count)
  /\ \/ other = me /\ Ends("OK")
     \/ /\ other # me /\ other \in Queries /\ q[other].up /\ pc' = "clone_key"
        /\ UNCHANGED locals

LEMMA PairsEffect ==
  ASSUME TypeInv, InitPairs
  PROVE  /\ pc = "init_pairs" /\ me \in Queries /\ q[me] \in Object /\ Fits(q[me])
         /\ Begun(q[me]) /\ index = 0
         /\ \/ /\ Release({q[me].internal}, q[me].alloc) /\ Update(me, Zero)
               /\ Ends("MEMORY_ERROR")
            \/ \E b, v : PairsMade(b, v)
<1> DEFINE y == q[me]
<1>1. /\ pc = "init_pairs" /\ me \in Queries /\ y \in Object /\ Fits(y) /\ Begun(y) /\ index = 0
      /\ y.pool_size = 0 /\ y.pool_used = 0
      /\ other # me => /\ other \in Queries /\ q[other] \in Object /\ Fits(q[other])
                       /\ q[other].up /\ q[other].max = y.max
  <2>1. pc = "init_pairs" /\ me \in Queries /\ y \in Object /\ Fits(y) /\ Begun(y) /\ index = 0
    BY DEF InitPairs, TypeInv, Types, Control, Initialising
  <2>2. other # me => /\ other \in Queries /\ q[other] \in Object /\ Fits(q[other])
                      /\ q[other].up /\ q[other].max = y.max
    BY <2>1 DEF TypeInv, Types, Control, Initialising
  <2>3. y.pool_size = 0 /\ y.pool_used = 0
    BY <2>1 DEF Begun, Fits, Object
  <2> QED BY <2>1, <2>2, <2>3
<1>2. CASE Release({y.internal}, y.alloc) /\ Update(me, Zero) /\ Ends("MEMORY_ERROR")
  BY <1>1, <1>2
<1>3. ASSUME NEW b \in Blocks, Allocate(y.alloc, b),
             Update(me, [y EXCEPT !.up = TRUE, !.kv_pairs = b,
                              !.count = IF other = me THEN 0 ELSE q[other].count,
                              !.pairs = [i \in 1..y.max |-> EmptyPair]]),
             \/ other = me /\ Ends("OK")
             \/ other # me /\ Goes("clone_key") /\ UNCHANGED locals
      PROVE  \E v : PairsMade(b, v)
  <2> DEFINE n  == IF other = me THEN 0 ELSE q[other].count
             ps == [i \in 1..y.max |-> EmptyPair]
             v  == [y EXCEPT !.up = TRUE, !.kv_pairs = b, !.count = n, !.pairs = ps]
  <2>1. y.max \in Nat /\ n \in Nat /\ n <= y.max /\ b \in Block /\ b # Null /\ y.alloc \in Allocators
    <3>1. y.max \in Nat /\ n \in Nat /\ n <= y.max /\ b \in Block /\ y.alloc \in Allocators
      BY <1>1 DEF Object, Fits, Block
    <3> QED BY <1>3, <3>1, GetsBlock DEF Allocate
  <2>2. /\ ps \in Seq(Pair) /\ Len(ps) = y.max
        /\ \A i \in 1..y.max : ps[i].key = Null /\ ps[i].value = Null
    BY <2>1, EmptyPairIsPair
  <2>3. Update(me, v)
    BY <1>3
  <2> HIDE DEF n, ps
  <2>4. /\ v \in Object /\ v.up /\ v.kv_pairs = b /\ v.count = n /\ v.pairs = ps
        /\ v.max = y.max /\ v.flags = y.flags
        /\ v.alloc = y.alloc /\ v.internal = y.internal /\ v.pool = y.pool
        /\ v.pool_size = y.pool_size /\ v.pool_used = y.pool_used
        /\ v.decode_buffer = y.decode_buffer
    <3> HIDE DEF y
    <3> QED BY <1>1, <2>1, <2>2 DEF Object
  <2> HIDE DEF v
  <2>5. Fits(v) /\ v.pool = Null /\ v.decode_buffer = Null
    BY <1>1, <2>1, <2>2, <2>4 DEF Fits, Begun
  <2>6. EmptySlots(v, 1..v.count)
    BY <2>1, <2>2, <2>4 DEF EmptySlots
  <2>7. \/ other = me /\ Ends("OK")
        \/ /\ other # me /\ other \in Queries /\ q[other].up /\ pc' = "clone_key"
           /\ UNCHANGED locals
    BY <1>1, <1>3 DEF Goes
  <2>8. PairsMade(b, v)
    BY <1>3, <2>1, <2>3, <2>4, <2>5, <2>6, <2>7 DEF PairsMade, n
  <2> QED BY <2>8
<1> QED BY <1>1, <1>2, <1>3 DEF InitPairs

LEMMA InitPairsTypes == ASSUME TypeInv, InitPairs PROVE TypeInv'
<1>1. /\ pc = "init_pairs" /\ me \in Queries /\ q[me] \in Object /\ index = 0
      /\ q[me].alloc \in Allocators
  BY PairsEffect DEF Object
<1>2. CASE /\ Release({q[me].internal}, q[me].alloc) /\ Update(me, Zero)
           /\ Ends("MEMORY_ERROR")
  <2>1. heap' \in [Blocks -> Allocators \cup {"free"}] /\ foreign' \in BOOLEAN
    BY <1>2, ReleaseTypes DEF TypeInv
  <2> QED BY <1>1, <1>2, <2>1, ZeroIsObject, StepOn, AtRest
<1>3. ASSUME NEW b, NEW v, PairsMade(b, v)
      PROVE  TypeInv'
  <2>1. heap' \in [Blocks -> Allocators \cup {"free"}] /\ foreign' \in BOOLEAN
    BY <1>1, <1>3, AllocateTypes DEF TypeInv, PairsMade
  <2>2. /\ q' \in [Queries -> Object] /\ \A y \in Queries : Fits(q'[y])
        /\ Absent' /\ q'[me] = v /\ \A y \in Queries : y # me => q'[y] = q[y]
    BY <1>1, <1>3, StepOn DEF PairsMade
  <2>3. CASE Ends("OK")
    BY <2>1, <2>2, <2>3, AtRest
  <2>4. CASE /\ other # me /\ other \in Queries /\ q[other].up /\ pc' = "clone_key"
             /\ UNCHANGED locals
    <3>1. Types'
      BY <2>1, <2>2, <2>4 DEF TypeInv, Types, locals
    <3>2. Clones'
      <4>1. v.count \in Nat
        BY <1>3 DEF PairsMade, Object
      <4>2. /\ me' = me /\ other' = other /\ index' = 0 /\ q'[me'] = v /\ q'[other'] = q[other]
            /\ pc' = "clone_key" /\ v.count = q[other].count
        BY <1>1, <1>3, <2>2, <2>4 DEF PairsMade, locals
      <4>3. EmptySlots(v, 2..v.count)
        BY <1>3, <4>1 DEF PairsMade, EmptySlots
      <4> QED BY <1>3, <2>4, <4>1, <4>2, <4>3 DEF PairsMade, Clones
    <3>3. Control'
      BY <1>1, <1>3, <2>2, <2>4, <3>2
      DEF PairsMade, Control, Initialising, Parses, Filters, Sorts, locals
    <3> QED BY <2>2, <3>1, <3>3 DEF TypeInv
  <2> QED BY <1>3, <2>3, <2>4 DEF PairsMade
<1> QED BY <1>2, <1>3, PairsEffect
LEMMA CloneFailsTypes ==
  ASSUME TypeInv, me \in Queries, pc # "init_pairs", CloneFails
  PROVE  TypeInv'
<1>1. heap' \in [Blocks -> Allocators \cup {"free"}] /\ foreign' \in BOOLEAN
  BY ReleaseTypes DEF CloneFails, Discard, TypeInv
<1>2. /\ q' \in [Queries -> Object] /\ \A y \in Queries : Fits(q'[y])
      /\ Absent'
  BY ZeroIsObject, StepOn DEF CloneFails, Discard
<1> QED BY <1>1, <1>2, AtRest DEF CloneFails

\* What is known at every turn of the copying loop.
LEMMA AtCopy ==
  ASSUME TypeInv, pc \in {"clone_key", "clone_value"}
  PROVE  /\ me \in Queries /\ q[me] \in Object /\ Fits(q[me]) /\ q[me].up
         /\ q[me].alloc \in Allocators
         /\ other \in Queries /\ other # me /\ q[other].up /\ q[other] \in Object
         /\ q[me].count = q[other].count /\ q[me].count \in Nat /\ index \in Nat
         /\ q[me].count <= Len(q[me].pairs) /\ index <= q[me].count
         /\ q[me].pool = Null /\ q[me].decode_buffer = Null
         /\ index < q[me].count =>
              /\ index + 1 \in 1..Len(q[me].pairs) /\ q[me].pairs[index + 1] \in Pair
              /\ q[other].pairs[index + 1] \in Pair
<1>1. /\ me \in Queries /\ q[me] \in Object /\ Fits(q[me]) /\ q[me].up /\ index \in Nat
      /\ other \in Queries /\ other # me /\ q[other].up /\ q[other] \in Object /\ Fits(q[other])
      /\ q[me].count = q[other].count /\ q[me].pool = Null /\ q[me].decode_buffer = Null
      /\ index <= q[me].count
  BY DEF TypeInv, Types, Control, Clones
<1>2. /\ q[me].alloc \in Allocators /\ q[me].count \in Nat /\ q[me].pairs \in Seq(Pair)
      /\ q[other].pairs \in Seq(Pair) /\ q[other].count <= Len(q[other].pairs)
      /\ q[me].count <= Len(q[me].pairs)
  BY <1>1 DEF Object, Fits
<1>3. index < q[me].count =>
        /\ index + 1 \in 1..Len(q[me].pairs) /\ q[me].pairs[index + 1] \in Pair
        /\ q[other].pairs[index + 1] \in Pair
  <2> SUFFICES ASSUME index < q[me].count
               PROVE  /\ index + 1 \in 1..Len(q[me].pairs) /\ q[me].pairs[index + 1] \in Pair
                      /\ q[other].pairs[index + 1] \in Pair
    OBVIOUS
  <2>1. index + 1 \in 1..Len(q[me].pairs) /\ index + 1 \in 1..Len(q[other].pairs)
    BY <1>1, <1>2
  <2> QED BY <1>2, <2>1
<1> QED BY <1>1, <1>2, <1>3

\* A string of the source is in a block of slot index + 1.
Copied(v, s, b) ==
  LET y == q[me] IN
  /\ v \in Object /\ Fits(v) /\ Kin(v, y) /\ v.count = y.count
  /\ s \in Pair /\ v.pairs = [y.pairs EXCEPT ![index + 1] = s]
  /\ b \in Blocks /\ Allocate(y.alloc, b) /\ Update(me, v)
  /\ UNCHANGED <<me, other, text, len, cur, write>>
KeyCopied(v, s) ==
  /\ Copied(v, s, s.key) /\ s.value = q[me].pairs[index + 1].value
  /\ s.k = q[other].pairs[index + 1].k
  /\ pc' = "clone_value" /\ UNCHANGED index
ValueCopied(v, s) ==
  /\ Copied(v, s, s.value)
  /\ s.key = q[me].pairs[index + 1].key /\ s.k = q[me].pairs[index + 1].k
  /\ s.v = q[other].pairs[index + 1].v
  /\ pc' = "clone_key" /\ index' = index + 1

LEMMA CopyKeyEffect ==
  ASSUME TypeInv, CloneKey
  PROVE  /\ pc = "clone_key" /\ index < q[me].count
         /\ CloneFails \/ \E v, s : KeyCopied(v, s)
<1> DEFINE y == q[me]
           old == y.pairs[index + 1]
           k == q[other].pairs[index + 1].k
<1>1. pc = "clone_key" /\ index < q[other].count
  BY DEF CloneKey
<1>2. /\ y \in Object /\ Fits(y) /\ y.count = q[other].count /\ y.pairs \in Seq(Pair)
      /\ index + 1 \in 1..Len(y.pairs) /\ old \in Pair /\ k \in Seq(Int)
  BY <1>1, AtCopy DEF Object, Pair
<1>3. ASSUME NEW b \in Blocks, Allocate(y.alloc, b),
             Update(me, [y EXCEPT !.pairs[index + 1].key = b, !.pairs[index + 1].k = k]),
             Goes("clone_value"), UNCHANGED locals
      PROVE  \E v, s : KeyCopied(v, s)
  <2> DEFINE s == [old EXCEPT !.key = b, !.k = k]
             v == [y EXCEPT !.pairs = [y.pairs EXCEPT ![index + 1] = s]]
  <2>1. s \in Pair /\ s.key = b /\ s.value = old.value /\ s.k = k
    <3> HIDE DEF old, k
    <3> QED BY <1>2 DEF Pair, Block
  <2>2. [y EXCEPT !.pairs[index + 1].key = b, !.pairs[index + 1].k = k] = v
    <3> DEFINE s1 == [old EXCEPT !.key = b]
               p1 == [y.pairs EXCEPT ![index + 1] = s1]
               v1 == [y EXCEPT !.pairs = p1]
    <3>1. v1.pairs = p1 /\ v1 = [y EXCEPT !.pairs[index + 1].key = b]
      BY <1>2 DEF Object
    <3>2. p1[index + 1] = s1
      BY <1>2
    <3>3. [y EXCEPT !.pairs[index + 1].key = b, !.pairs[index + 1].k = k]
            = [v1 EXCEPT !.pairs = [v1.pairs EXCEPT ![index + 1] = [v1.pairs[index + 1] EXCEPT !.k = k]]]
      OBVIOUS
    <3>4. s = [s1 EXCEPT !.k = k] /\ \A t : [p1 EXCEPT ![index + 1] = t] = [y.pairs EXCEPT ![index + 1] = t]
      OBVIOUS
    <3> HIDE DEF s, s1
    <3>5. [v1.pairs EXCEPT ![index + 1] = [v1.pairs[index + 1] EXCEPT !.k = k]]
            = [y.pairs EXCEPT ![index + 1] = s]
      BY <3>1, <3>2, <3>4
    <3> HIDE DEF p1
    <3> QED BY <1>2, <3>3, <3>5 DEF Object
  <2>3. Update(me, v)
    BY <1>3, <2>2
  <2> HIDE DEF s
  <2>4. /\ v \in Object /\ Fits(v) /\ v.pairs = [y.pairs EXCEPT ![index + 1] = s]
        /\ Kin(v, y) /\ v.count = y.count
    <3>1. v = WithSlot(y, index + 1, s)
      BY DEF WithSlot
    <3> HIDE DEF v
    <3> QED BY <1>2, <2>1, <3>1, SlotKin
  <2> HIDE DEF v
  <2>5. KeyCopied(v, s)
    BY <1>3, <2>1, <2>3, <2>4 DEF KeyCopied, Copied, Goes, locals
  <2> QED BY <2>5
<1> QED BY <1>1, <1>2, <1>3 DEF CloneKey

LEMMA CopyValueEffect ==
  ASSUME TypeInv, CloneValue
  PROVE  /\ pc = "clone_value" /\ index < q[me].count
         /\ CloneFails \/ \E v, s : ValueCopied(v, s)
<1> DEFINE y == q[me]
           old == y.pairs[index + 1]
           w == q[other].pairs[index + 1].v
<1>1. pc = "clone_value" /\ index < y.count
  BY DEF CloneValue, TypeInv, Control, Clones
<1>2. /\ y \in Object /\ Fits(y) /\ y.count = q[other].count /\ y.pairs \in Seq(Pair)
      /\ index + 1 \in 1..Len(y.pairs) /\ old \in Pair /\ w \in Seq(Int)
  BY <1>1, AtCopy DEF Object, Pair
<1>3. ASSUME NEW b \in Blocks, Allocate(y.alloc, b),
             Update(me, [y EXCEPT !.pairs[index + 1].value = b, !.pairs[index + 1].v = w]),
             index' = index + 1, Goes("clone_key"), UNCHANGED <<me, other, text, len, cur, write>>
      PROVE  \E v, s : ValueCopied(v, s)
  <2> DEFINE s == [old EXCEPT !.value = b, !.v = w]
             v == [y EXCEPT !.pairs = [y.pairs EXCEPT ![index + 1] = s]]
  <2>1. s \in Pair /\ s.value = b /\ s.key = old.key /\ s.k = old.k /\ s.v = w
    <3> HIDE DEF old, w
    <3> QED BY <1>2 DEF Pair, Block
  <2>2. [y EXCEPT !.pairs[index + 1].value = b, !.pairs[index + 1].v = w] = v
    <3> DEFINE s1 == [old EXCEPT !.value = b]
               p1 == [y.pairs EXCEPT ![index + 1] = s1]
               v1 == [y EXCEPT !.pairs = p1]
    <3>1. v1.pairs = p1 /\ v1 = [y EXCEPT !.pairs[index + 1].value = b]
      BY <1>2 DEF Object
    <3>2. p1[index + 1] = s1
      BY <1>2
    <3>3. [y EXCEPT !.pairs[index + 1].value = b, !.pairs[index + 1].v = w]
            = [v1 EXCEPT !.pairs = [v1.pairs EXCEPT ![index + 1] = [v1.pairs[index + 1] EXCEPT !.v = w]]]
      OBVIOUS
    <3>4. s = [s1 EXCEPT !.v = w] /\ \A t : [p1 EXCEPT ![index + 1] = t] = [y.pairs EXCEPT ![index + 1] = t]
      OBVIOUS
    <3> HIDE DEF s, s1
    <3>5. [v1.pairs EXCEPT ![index + 1] = [v1.pairs[index + 1] EXCEPT !.v = w]]
            = [y.pairs EXCEPT ![index + 1] = s]
      BY <3>1, <3>2, <3>4
    <3> HIDE DEF p1
    <3> QED BY <1>2, <3>3, <3>5 DEF Object
  <2>3. Update(me, v)
    BY <1>3, <2>2
  <2> HIDE DEF s
  <2>4. /\ v \in Object /\ Fits(v) /\ v.pairs = [y.pairs EXCEPT ![index + 1] = s]
        /\ Kin(v, y) /\ v.count = y.count
    <3>1. v = WithSlot(y, index + 1, s)
      BY DEF WithSlot
    <3> HIDE DEF v
    <3> QED BY <1>2, <2>1, <3>1, SlotKin
  <2> HIDE DEF v
  <2>5. ValueCopied(v, s)
    BY <1>3, <2>1, <2>3, <2>4 DEF ValueCopied, Copied, Goes
  <2> QED BY <2>5
<1> QED BY <1>1, <1>2, <1>3 DEF CloneValue
\* A copied string leaves the slots behind the loop empty.
LEMMA CopiedSlots ==
  ASSUME TypeInv, pc \in {"clone_key", "clone_value"}, index < q[me].count,
         NEW v, NEW s, NEW b, Copied(v, s, b),
         NEW n \in Nat, n > index + 1, EmptySlots(q[me], n..q[me].count)
  PROVE  EmptySlots(v, n..v.count) /\ v.pairs[index + 1] = s
<1>1. /\ v.count = q[me].count /\ v.pairs = [q[me].pairs EXCEPT ![index + 1] = s]
  BY DEF Copied
<1>2. /\ q[me].pairs \in Seq(Pair) /\ q[me].count \in Nat /\ q[me].count <= Len(q[me].pairs)
      /\ Len(q[me].pairs) \in Nat /\ index \in Nat /\ index + 1 \in 1..Len(q[me].pairs)
  BY AtCopy DEF Object
<1>3. \A i \in n..v.count : v.pairs[i] = q[me].pairs[i]
  BY <1>1, <1>2
<1> QED BY <1>1, <1>2, <1>3 DEF EmptySlots

LEMMA CopiedTypes ==
  ASSUME TypeInv, pc \in {"clone_key", "clone_value"}, index < q[me].count,
         NEW v, NEW s, NEW b, Copied(v, s, b),
         pc' \in {"clone_key", "clone_value"}, index' \in Nat
  PROVE  /\ q' \in [Queries -> Object] /\ \A y \in Queries : Fits(q'[y])
         /\ Absent' /\ q'[me] = v /\ \A y \in Queries : y # me => q'[y] = q[y]
         /\ v.up /\ Types'
<1>1. /\ me \in Queries /\ q[me].up /\ q[me].alloc \in Allocators /\ index \in Nat
  BY AtCopy
<1>2. v \in Object /\ Fits(v) /\ v.up /\ Update(me, v) /\ Allocate(q[me].alloc, b)
  BY <1>1 DEF Copied, Kin
<1>3. heap' \in [Blocks -> Allocators \cup {"free"}] /\ foreign' \in BOOLEAN
  BY <1>1, <1>2, AllocateTypes DEF TypeInv
<1>4. /\ q' \in [Queries -> Object] /\ \A y \in Queries : Fits(q'[y])
      /\ Absent' /\ q'[me] = v /\ \A y \in Queries : y # me => q'[y] = q[y]
  BY <1>1, <1>2, StepOn
<1>5. Types'
  <2>1. UNCHANGED <<me, other, text, len, cur, write>>
    BY DEF Copied
  <2> QED BY <1>1, <1>3, <1>4, <2>1 DEF TypeInv, Types
<1> QED BY <1>2, <1>4, <1>5

LEMMA CloneKeyTypes == ASSUME TypeInv, CloneKey PROVE TypeInv'
<1>1. /\ pc = "clone_key" /\ index < q[me].count /\ me \in Queries /\ other \in Queries
      /\ other # me /\ q[other].up /\ index \in Nat /\ q[me].count \in Nat
      /\ q[me].count = q[other].count /\ q[me].pool = Null /\ q[me].decode_buffer = Null
  BY CopyKeyEffect, AtCopy
<1>2. ASSUME NEW v, NEW s, KeyCopied(v, s) PROVE TypeInv'
  <2>1. /\ Copied(v, s, s.key) /\ s.value = q[me].pairs[index + 1].value
        /\ pc' = "clone_value" /\ index' = index
    BY <1>2 DEF KeyCopied
  <2>2. /\ EmptySlots(q[me], (index + 2)..q[me].count)
        /\ q[me].pairs[index + 1].value = Null
    BY <1>1 DEF TypeInv, Control, Clones, EmptySlots
  <2>3. EmptySlots(v, (index + 2)..v.count) /\ v.pairs[index + 1].value = Null
    <3>1. index + 2 \in Nat /\ index + 2 > index + 1
      BY <1>1
    <3> QED BY <1>1, <2>1, <2>2, <3>1, CopiedSlots
  <2>4. /\ v.count = q[me].count /\ v.pool = Null /\ v.decode_buffer = Null
        /\ UNCHANGED <<me, other, text, len, cur, write>>
    BY <1>1, <2>1 DEF Copied, Kin
  <2>5. /\ q' \in [Queries -> Object] /\ \A y \in Queries : Fits(q'[y])
        /\ Absent' /\ q'[me] = v /\ \A y \in Queries : y # me => q'[y] = q[y]
        /\ v.up /\ Types'
    BY <1>1, <2>1, CopiedTypes
  <2>6. Clones'
    BY <1>1, <2>1, <2>3, <2>4, <2>5 DEF Clones, EmptySlots
  <2>7. Control'
    BY <1>1, <2>1, <2>4, <2>5, <2>6 DEF Control, Initialising, Parses, Filters, Sorts
  <2> QED BY <2>5, <2>7 DEF TypeInv
<1> QED BY <1>1, <1>2, CopyKeyEffect, CloneFailsTypes

LEMMA CloneValueTypes == ASSUME TypeInv, CloneValue PROVE TypeInv'
<1>1. /\ pc = "clone_value" /\ index < q[me].count /\ me \in Queries /\ other \in Queries
      /\ other # me /\ q[other].up /\ index \in Nat /\ q[me].count \in Nat
      /\ q[me].count = q[other].count /\ q[me].pool = Null /\ q[me].decode_buffer = Null
  BY CopyValueEffect, AtCopy
<1>2. ASSUME NEW v, NEW s, ValueCopied(v, s) PROVE TypeInv'
  <2>1. /\ Copied(v, s, s.value) /\ pc' = "clone_key" /\ index' = index + 1
    BY <1>2 DEF ValueCopied
  <2>2. EmptySlots(q[me], (index + 2)..q[me].count)
    BY <1>1 DEF TypeInv, Control, Clones
  <2>3. EmptySlots(v, (index + 2)..v.count)
    <3>1. index + 2 \in Nat /\ index + 2 > index + 1
      BY <1>1
    <3> QED BY <1>1, <2>1, <2>2, <3>1, CopiedSlots
  <2>4. /\ v.count = q[me].count /\ v.pool = Null /\ v.decode_buffer = Null
        /\ UNCHANGED <<me, other, text, len, cur, write>>
    BY <1>1, <2>1 DEF Copied, Kin
  <2>5. /\ q' \in [Queries -> Object] /\ \A y \in Queries : Fits(q'[y])
        /\ Absent' /\ q'[me] = v /\ \A y \in Queries : y # me => q'[y] = q[y]
        /\ v.up /\ Types'
    BY <1>1, <2>1, CopiedTypes
  <2>6. Clones'
    <3>1. index' + 1 = index + 2 /\ index' + 2 = index + 3 /\ index' <= q[me].count
      BY <1>1, <2>1
    <3>2. EmptySlots(v, (index + 3)..v.count)
      BY <1>1, <2>3, <2>4 DEF EmptySlots
    <3>3. pc' = "clone_key" /\ me' = me /\ other' = other /\ q'[me'] = v /\ q'[other'] = q[other]
      BY <1>1, <2>1, <2>4, <2>5
    <3> QED BY <1>1, <2>3, <2>4, <3>1, <3>2, <3>3 DEF Clones, EmptySlots
  <2>7. Control'
    BY <1>1, <2>1, <2>4, <2>5, <2>6 DEF Control, Initialising, Parses, Filters, Sorts
  <2> QED BY <2>5, <2>7 DEF TypeInv
<1> QED BY <1>1, <1>2, CopyValueEffect, CloneFailsTypes

\* The copy of the buffer.
BufferCopied(v, b) ==
  /\ v \in Object /\ Fits(v) /\ v.decode_buffer = b
  /\ v.up = q[me].up /\ v.max = q[me].max /\ v.count = q[me].count /\ v.pairs = q[me].pairs
  /\ v.alloc = q[me].alloc /\ v.internal = q[me].internal /\ v.kv_pairs = q[me].kv_pairs
  /\ v.pool = q[me].pool /\ v.flags = q[me].flags
  /\ b \in Blocks /\ Allocate(q[me].alloc, b) /\ Update(me, v)

LEMMA BufferCopy ==
  ASSUME NEW y \in Object, Fits(y), NEW b \in Blocks
  PROVE  LET v == [y EXCEPT !.decode_buffer = b] IN
         /\ v \in Object /\ Fits(v) /\ v.decode_buffer = b
         /\ v.up = y.up /\ v.max = y.max /\ v.count = y.count /\ v.pairs = y.pairs
         /\ v.alloc = y.alloc /\ v.internal = y.internal /\ v.kv_pairs = y.kv_pairs
         /\ v.pool = y.pool /\ v.flags = y.flags
BY DEF Object, Block, Fits

LEMMA CopyBufferEffect ==
  ASSUME TypeInv, CloneBuffer
  PROVE  /\ pc = "clone_key" /\ index = q[me].count
         /\ \/ UNCHANGED <<q, heaps>> /\ Ends("OK")
            \/ CloneFails
            \/ \E v, b : BufferCopied(v, b) /\ Ends("OK")
<1>1. pc = "clone_key" /\ index = q[other].count
  BY DEF CloneBuffer
<1>2. q[me] \in Object /\ Fits(q[me]) /\ index = q[me].count
  BY <1>1, AtCopy
<1>3. ASSUME NEW b \in Blocks, Allocate(q[me].alloc, b),
             Update(me, [q[me] EXCEPT !.decode_buffer = b]), Ends("OK")
      PROVE  \E v : BufferCopied(v, b)
  <2>1. BufferCopied([q[me] EXCEPT !.decode_buffer = b], b)
    BY <1>2, <1>3, BufferCopy DEF BufferCopied
  <2> QED BY <2>1
<1> QED BY <1>1, <1>2, <1>3 DEF CloneBuffer

LEMMA CloneBufferTypes == ASSUME TypeInv, CloneBuffer PROVE TypeInv'
<1>1. /\ pc = "clone_key" /\ me \in Queries /\ q[me].up /\ q[me].alloc \in Allocators
  BY CopyBufferEffect, AtCopy
<1>2. CASE UNCHANGED <<q, heaps>> /\ Ends("OK")
  <2>1. heap' \in [Blocks -> Allocators \cup {"free"}] /\ foreign' \in BOOLEAN
    BY <1>2 DEF TypeInv, Types, heaps
  <2> QED BY <1>1, <1>2, <2>1, StepOnNone, AtRest
<1>3. CASE CloneFails
  BY <1>1, <1>3, CloneFailsTypes
<1>4. ASSUME NEW v, NEW b, BufferCopied(v, b), Ends("OK") PROVE TypeInv'
  <2>1. v \in Object /\ Fits(v) /\ v.up /\ Update(me, v) /\ Allocate(q[me].alloc, b)
    BY <1>1, <1>4 DEF BufferCopied
  <2>2. heap' \in [Blocks -> Allocators \cup {"free"}] /\ foreign' \in BOOLEAN
    BY <1>1, <2>1, AllocateTypes DEF TypeInv
  <2> QED BY <1>1, <1>4, <2>1, <2>2, StepOn, AtRest
<1> QED BY <1>2, <1>3, <1>4, CopyBufferEffect
-----------------------------------------------------------------------------
(* Types, at every step. *)

LEMMA InitTyped == Init => TypeInv
<1> SUFFICES ASSUME Init PROVE TypeInv
  OBVIOUS
<1>1. q \in [Queries -> Object] /\ \A x \in Queries : q[x] = Zero
  BY ZeroIsObject DEF Init
<1>2. Types
  <2>1. heap \in [Blocks -> Allocators \cup {"free"}]
    BY DEF Init
  <2>2. foreign \in BOOLEAN
    BY Zenon DEF Init
  <2>3. text \in Seq(Int)
    BY DEF Init
  <2> QED BY <1>1, <2>1, <2>2, <2>3 DEF Init, Types
<1>3. Control
  BY <1>1 DEF Init, Control, Absent, Initialising, Parses, Filters, Sorts, Clones
<1> QED BY <1>1, <1>2, <1>3, ZeroIsObject DEF TypeInv

LEMMA StutterTyped == ASSUME TypeInv, UNCHANGED vars PROVE TypeInv'
<1>1. Types'
  BY DEF TypeInv, Types, vars
<1>2. Control'
  BY DEF TypeInv, Control, Absent, Begun, Initialising, Parses, Filters, EmptySlots, Sorts,
         ThisRound, Clones, vars
<1> QED BY <1>1, <1>2 DEF TypeInv, Fits, vars

LEMMA StepTyped == TypeInv /\ [Next]_vars => TypeInv'
<1> SUFFICES ASSUME TypeInv, [Next]_vars PROVE TypeInv'
  OBVIOUS
<1>1. CASE Call
  BY <1>1, InitTypes, ParseTypes, ResetTypes, FreeTypes, FilterStartTypes, SortStartTypes,
     CloneTypes, SetAllocatorTypes DEF Call
<1>2. CASE Step
  BY <1>2, InitPairsTypes, DecodeBufferTypes, StringPoolTypes, SkipPairTypes, ParseKeyTypes,
     ParseValueTypes, ParseEndTypes, FilterPairTypes, FilterEndTypes, SortPairTypes,
     SortRoundTypes, SortEndTypes, CloneKeyTypes, CloneValueTypes, CloneBufferTypes DEF Step
<1>3. CASE UNCHANGED vars
  BY <1>3, StutterTyped
<1> QED BY <1>1, <1>2, <1>3 DEF Next

LEMMA TypeInvHolds == Spec => []TypeInv
BY InitTyped, StepTyped, PTL DEF Spec

LEMMA TypedIsOK == TypeInv => TypeOK
<1> SUFFICES ASSUME TypeInv PROVE TypeOK
  OBVIOUS
<1>1. ASSUME NEW x \in Queries
      PROVE  /\ q[x].count \in 0..Len(q[x].pairs) /\ Len(q[x].pairs) \in {0, q[x].max}
             /\ q[x].up = (q[x].kv_pairs # Null)
             /\ q[x].pool_used \in 0..q[x].pool_size
             /\ q[x].pool = Null <=> q[x].pool_size = 0
  <2>1. /\ q[x] \in Object /\ Fits(q[x])
    BY DEF TypeInv, Types
  <2>2. /\ q[x].count \in Nat /\ q[x].pool_used \in Nat /\ q[x].pool_size \in Nat
        /\ q[x].pairs \in Seq(Pair) /\ q[x].up \in BOOLEAN
    BY <2>1 DEF Object
  <2> QED BY <2>1, <2>2 DEF Fits
<1> QED BY <1>1 DEF TypeInv, Types, TypeOK

(* Objects are well formed at every step: as many slots as the limit the object was *)
(* initialised with, no more pairs than slots, no more of a pool in use than there  *)
(* is (llquery.c:169-295, 302-488).                                                 *)
THEOREM QueryTypes == Spec => []TypeOK
BY TypeInvHolds, TypedIsOK, PTL
-----------------------------------------------------------------------------
(* Ownership: what any step may do. *)

\* A step on object x: it keeps a block or gives it back; what it gains was free.
Trade(x) ==
  /\ pc = "idle" \/ me = x
  /\ (pc = "idle" \/ me = x)'
  /\ \A y \in Queries : y # x => q'[y] = q[y]
  /\ Apart(q[x], HeldKeys(x), Held(x))'
  /\ \A b \in Own(x)' : IF b \in Own(x) THEN heap'[b] \in {heap[b], q'[x].alloc}
                        ELSE heap[b] = "free" /\ heap'[b] = q'[x].alloc
  /\ \A b \in Blocks : b \notin Own(x)' =>
       heap'[b] = IF b \in Own(x) THEN "free" ELSE heap[b]
  /\ (\A b \in Own(x) : heap[b] = q[x].alloc) => foreign' = foreign
  /\ \/ q'[x].alloc = q[x].alloc \/ Own(x) = {} \/ Own(x)' = {}
     \/ <<"set_allocator", x>> \in Calls

\* The slots whose strings an object holds are there, and what it holds are blocks.
HoldsBlocks ==
  \A x \in Queries :
    /\ q[x] \in Object /\ q[x].pairs \in Seq(Pair) /\ q[x].alloc \in Allocators
    /\ Held(x) \subseteq HeldKeys(x) /\ HeldKeys(x) \subseteq 1..Len(q[x].pairs)
    /\ Own(x) \subseteq Blocks

LEMMA HeldSlots == TypeInv => HoldsBlocks
<1> SUFFICES ASSUME TypeInv, NEW x \in Queries
             PROVE  /\ q[x] \in Object /\ q[x].pairs \in Seq(Pair) /\ q[x].alloc \in Allocators
                    /\ Held(x) \subseteq HeldKeys(x) /\ HeldKeys(x) \subseteq 1..Len(q[x].pairs)
                    /\ Own(x) \subseteq Blocks
  BY DEF HoldsBlocks
<1>1. /\ q[x] \in Object /\ q[x].pairs \in Seq(Pair) /\ q[x].alloc \in Allocators
      /\ q[x].count \in Nat /\ q[x].count <= Len(q[x].pairs) /\ Len(q[x].pairs) \in Nat
  <2>1. q[x] \in Object /\ Fits(q[x])
    BY DEF TypeInv, Types
  <2> QED BY <2>1 DEF Object, Fits
<1>2. Held(x) \subseteq HeldKeys(x) /\ HeldKeys(x) \subseteq 1..Len(q[x].pairs)
  <2>1. CASE Parsing(x)
    <3>1. index \in Nat /\ me = x
      BY <2>1, AtTurn DEF Parsing
    <3>2. CASE pc = "pair"
      <4>1. index <= Len(q[x].pairs) /\ Held(x) = 1..index /\ HeldKeys(x) = 1..index
        BY <2>1, <3>1, <3>2, AtTurn DEF Held, HeldKeys
      <4> QED BY <1>1, <3>1, <4>1
    <3>3. CASE pc = "value"
      <4>1. /\ index + 1 <= Len(q[x].pairs)
            /\ Held(x) = 1..index /\ HeldKeys(x) = 1..index \cup {index + 1}
        BY <1>1, <2>1, <3>1, <3>3, AtTurn DEF Held, HeldKeys
      <4> QED BY <1>1, <3>1, <4>1
    <3> QED BY <2>1, <3>2, <3>3 DEF Parsing
  <2>2. CASE ~Parsing(x)
    BY <1>1, <2>2 DEF Held, HeldKeys, Parsing
  <2> QED BY <2>1, <2>2
<1>3. \A i \in HeldKeys(x) : q[x].pairs[i] \in Pair
  BY <1>1, <1>2
<1>4. /\ q[x].internal \in Block /\ q[x].kv_pairs \in Block /\ q[x].pool \in Block
      /\ q[x].decode_buffer \in Block \cup {Caller}
  BY <1>1 DEF Object
<1>5. \A p \in Pair : p.key \in Block /\ p.value \in Block
  BY DEF Pair
<1>6. Own(x) \subseteq Blocks
  BY <1>2, <1>3, <1>4, <1>5 DEF Own, Holdings, Block
<1> QED BY <1>1, <1>2, <1>6

\* An object that no step touches holds what it held.
LEMMA OthersKeep ==
  ASSUME NEW x, NEW y \in Queries, y # x, Trade(x)
  PROVE  /\ q'[y] = q[y] /\ HeldKeys(y)' = HeldKeys(y) /\ Held(y)' = Held(y)
         /\ Own(y)' = Own(y)
<1>1. q'[y] = q[y] /\ HeldKeys(y)' = HeldKeys(y) /\ Held(y)' = Held(y)
  BY DEF Trade, HeldKeys, Held, Parsing
<1> QED BY <1>1 DEF Own, Holdings

LEMMA OwnNext ==
  ASSUME NEW x
  PROVE  /\ Own(x)' = Holdings(q'[x], HeldKeys(x)', Held(x)')
         /\ Apart(q[x], HeldKeys(x), Held(x))' <=> Apart(q'[x], HeldKeys(x)', Held(x)')
<1>1. Own(x)' = Holdings(q'[x], HeldKeys(x)', Held(x)')
  BY DEF Own, Holdings
<1>2. Apart(q[x], HeldKeys(x), Held(x))' <=> Apart(q'[x], HeldKeys(x)', Held(x)')
  BY DEF Apart, Lone
<1> QED BY <1>1, <1>2

LEMMA HeldSlotsNext == TypeInv' => HoldsBlocks'
BY HeldSlots, PTL

LEMMA TradeKeepsOwners ==
  ASSUME TypeInv, TypeInv', OneOwner, NEW x \in Queries, Trade(x)
  PROVE  OneOwner'
<1>1. \A y \in Queries : Own(y) \subseteq Blocks
  BY HeldSlots DEF HoldsBlocks
<1>2. Own(x)' \subseteq Blocks
  BY HeldSlotsNext DEF HoldsBlocks
<1>3. \A y \in Queries : Apart(q[y], HeldKeys(y), Held(y))'
  <2> SUFFICES ASSUME NEW y \in Queries PROVE Apart(q[y], HeldKeys(y), Held(y))'
    OBVIOUS
  <2>1. CASE y = x
    BY <2>1 DEF Trade
  <2>2. CASE y # x
    <3>1. Apart(q[y], HeldKeys(y), Held(y))
      BY DEF OneOwner
    <3>2. q'[y] = q[y] /\ HeldKeys(y)' = HeldKeys(y) /\ Held(y)' = Held(y)
      BY <2>2, OthersKeep
    <3> QED BY <3>1, <3>2, OwnNext
  <2> QED BY <2>1, <2>2
<1>4. \A b \in Own(x)' : \A y \in Queries : y # x => b \notin Own(y)
  BY <1>2 DEF Trade, OneOwner
<1>5. \A y, z \in Queries : y # z => (Own(y) \cap Own(z) = {})'
  <2> SUFFICES ASSUME NEW y \in Queries, NEW z \in Queries, y # z
               PROVE  Own(y)' \cap Own(z)' = {}
    OBVIOUS
  <2>1. CASE y # x /\ z # x
    BY <2>1, OthersKeep DEF OneOwner
  <2>2. CASE y = x
    BY <1>4, <2>2, OthersKeep
  <2>3. CASE z = x
    BY <1>4, <2>3, OthersKeep
  <2> QED BY <2>1, <2>2, <2>3
<1>6. ASSUME NEW b \in Blocks
      PROVE  heap'[b] # "free" <=> \E y \in Queries : b \in Own(y)'
  <2>1. CASE b \in Own(x)'
    <3>1. q'[x].alloc # "free"
      <4>1. q'[x].alloc \in Allocators
        BY HeldSlotsNext DEF HoldsBlocks
      <4> QED BY <4>1, QueryAssumptions
    <3>2. heap'[b] # "free"
      BY <2>1, <3>1 DEF Trade, OneOwner
    <3> QED BY <2>1, <3>2
  <2>2. CASE b \notin Own(x)' /\ b \in Own(x)
    <3>1. heap'[b] = "free"
      BY <2>2 DEF Trade
    <3>2. \A y \in Queries : y # x => b \notin Own(y)'
      BY <2>2, OthersKeep DEF OneOwner
    <3> QED BY <2>2, <3>1, <3>2
  <2>3. CASE b \notin Own(x)' /\ b \notin Own(x)
    <3>1. heap'[b] = heap[b]
      BY <2>3 DEF Trade
    <3>2. \A y \in Queries : y # x => Own(y)' = Own(y)
      BY OthersKeep
    <3> QED BY <2>3, <3>1, <3>2 DEF OneOwner
  <2> QED BY <2>1, <2>2, <2>3
<1> QED BY <1>3, <1>5, <1>6 DEF OneOwner

\* The application leaves every object with the allocator it was initialised with.
NoSetAllocator == \A x \in Queries : <<"set_allocator", x>> \notin Calls

LEMMA TradeKeepsAllocators ==
  ASSUME TypeInv, TypeInv', OneOwner, FromItsAllocator, NoSetAllocator,
         NEW x \in Queries, Trade(x)
  PROVE  FromItsAllocator'
<1>1. Own(x)' \subseteq Blocks /\ \A y \in Queries : Own(y) \subseteq Blocks
  <2>1. Own(x)' \subseteq Blocks
    BY HeldSlotsNext DEF HoldsBlocks
  <2> QED BY <2>1, HeldSlots DEF HoldsBlocks
<1>2. ~foreign'
  BY DEF Trade, FromItsAllocator
<1>3. \A b \in Own(x)' : heap'[b] = q'[x].alloc
  BY DEF Trade, FromItsAllocator, NoSetAllocator
<1>4. ASSUME NEW y \in Queries, y # x, NEW b \in Own(y)'
      PROVE  heap'[b] = q'[y].alloc
  <2>1. b \in Own(y) /\ q'[y] = q[y]
    BY <1>4, OthersKeep
  <2>2. b \in Blocks /\ b \notin Own(x) /\ heap[b] # "free"
    BY <1>1, <1>4, <2>1 DEF OneOwner
  <2>3. b \notin Own(x)'
    BY <2>2 DEF Trade
  <2>4. heap'[b] = heap[b]
    BY <2>2, <2>3 DEF Trade
  <2> QED BY <2>1, <2>4 DEF FromItsAllocator
<1> QED BY <1>2, <1>3, <1>4 DEF FromItsAllocator
-----------------------------------------------------------------------------
(* Ownership: the calls that end with their first step. *)

LEMMA AllHeld ==
  ASSUME NEW x, ~Parsing(x)
  PROVE  Held(x) = 1..q[x].count /\ HeldKeys(x) = 1..q[x].count
BY DEF Held, HeldKeys, Parsing

LEMMA AllHeldNext ==
  ASSUME NEW x, ~Parsing(x)'
  PROVE  Held(x)' = 1..q'[x].count /\ HeldKeys(x)' = 1..q'[x].count
BY DEF Held, HeldKeys, Parsing

\* What an object holds if its slots are empty.
LEMMA BareHoldings ==
  ASSUME NEW y, NEW K, NEW V, \A i \in K : y.pairs[i].key = Null,
         \A i \in V : y.pairs[i].value = Null
  PROVE  /\ Holdings(y, K, V)
              = {y.internal, y.kv_pairs, y.pool, y.decode_buffer} \ {Null, Caller}
         /\ Apart(y, K, V) <=> /\ y.internal # Null => y.internal \notin {y.kv_pairs, y.pool, y.decode_buffer}
                               /\ y.kv_pairs # Null => y.kv_pairs \notin {y.pool, y.decode_buffer}
                               /\ y.pool # Null => y.pool # y.decode_buffer
BY DEF Holdings, Apart, Lone

LEMMA ZeroHoldsNothing ==
  ASSUME NEW K, NEW V, K = {}, V = {}
  PROVE  Holdings(Zero, K, V) = {} /\ Apart(Zero, K, V)
BY DEF Holdings, Apart, Zero, Null

\* A new object holds nothing yet.
LEMMA AbsentHoldsNothing ==
  ASSUME TypeInv, NEW x \in Queries, pc = "idle", ~q[x].up
  PROVE  q[x] = Zero /\ Own(x) = {}
<1>1. q[x] = Zero
  BY DEF TypeInv, Control, Absent
<1>2. Zero.count = 0
  BY DEF Zero
<1>3. Held(x) = {} /\ HeldKeys(x) = {}
  BY <1>1, <1>2, AllHeld DEF Parsing
<1> QED BY <1>1, <1>3, ZeroHoldsNothing DEF Own

\* A step after which x is not there, and its blocks are back.
LEMMA GoneTrade ==
  ASSUME TypeInv, NEW x \in Queries, Update(x, Zero), pc' = "idle",
         pc = "idle" \/ me = x, Release(Own(x), q[x].alloc)
  PROVE  Trade(x)
<1>1. q'[x] = Zero /\ \A y \in Queries : y # x => q'[y] = q[y]
  BY ZeroIsObject, Updated DEF TypeInv, Types
<1>2. Held(x)' = {} /\ HeldKeys(x)' = {}
  <2>1. Zero.count = 0
    BY DEF Zero
  <2> QED BY <1>1, <2>1, AllHeldNext DEF Parsing
<1>3. Own(x)' = {} /\ Apart(q[x], HeldKeys(x), Held(x))'
  BY <1>1, <1>2, ZeroHoldsNothing, OwnNext
<1>4. /\ \A b \in Blocks : heap'[b] = IF b \in Own(x) THEN "free" ELSE heap[b]
      /\ (\A b \in Own(x) : heap[b] = q[x].alloc) => foreign' = foreign
  <2>1. \A b \in Blocks : heap'[b] = IF b \in Own(x) THEN "free" ELSE heap[b]
    BY DEF Release
  <2>2. foreign \in BOOLEAN /\ foreign' = (foreign \/ \E b \in Own(x) : heap[b] # q[x].alloc)
    BY Zenon DEF Release, TypeInv, Types
  <2>3. (\A b \in Own(x) : heap[b] = q[x].alloc) => foreign' = foreign
    BY <2>2, Zenon
  <2> QED BY <2>1, <2>3
<1> QED BY <1>1, <1>3, <1>4 DEF Trade

LEMMA ReleaseForeign ==
  ASSUME TypeInv, NEW x \in Queries, NEW S, S \subseteq Own(x), Release(S, q[x].alloc)
  PROVE  (\A b \in Own(x) : heap[b] = q[x].alloc) => foreign' = foreign
<1>1. foreign \in BOOLEAN /\ foreign' = (foreign \/ \E b \in S : heap[b] # q[x].alloc)
  BY Zenon DEF Release, TypeInv, Types
<1> QED BY <1>1, Zenon

\* What free gives back is what the object holds; what reset gives back, all but the
\* two blocks it was made of.
LEMMA OwnedIsOwn ==
  ASSUME TypeInv, NEW x \in Queries, ~Parsing(x)
  PROVE  Owned(q[x]) = Own(x)
<1> DEFINE y == q[x]
           L == 1..y.count
<1>1. Own(x) = Holdings(y, L, L) /\ Own(x) \subseteq Blocks
  BY AllHeld, HeldSlots DEF Own, HoldsBlocks
<1>2. Caller \notin Blocks /\ Null \notin Blocks
  BY BlockIsPositive DEF Caller, Null
<1>3. /\ y.internal # Caller /\ y.kv_pairs # Caller /\ y.pool # Caller
      /\ \A i \in L : y.pairs[i].key # Caller /\ y.pairs[i].value # Caller
  <2>1. y \in Object /\ y.pairs \in Seq(Pair) /\ L \subseteq 1..Len(y.pairs)
    BY AllHeld, HeldSlots DEF HoldsBlocks
  <2>2. \A i \in L : y.pairs[i] \in Pair
    BY <2>1
  <2>3. y.internal \in Block /\ y.kv_pairs \in Block /\ y.pool \in Block
    BY <2>1 DEF Object
  <2>4. \A p \in Pair : p.key \in Block /\ p.value \in Block
    BY DEF Pair
  <2>5. Caller \notin Block
    BY <1>2 DEF Block, Null, Caller
  <2> HIDE DEF y, L
  <2> QED BY <2>2, <2>3, <2>4, <2>5
<1> HIDE DEF y, L
<1>4. Owned(y) = Holdings(y, L, L)
  BY <1>3 DEF Owned, Strings, Loose, Holdings, L
<1> QED BY <1>1, <1>4 DEF y

LEMMA StringsAreOwn ==
  ASSUME TypeInv, OneOwner, NEW x \in Queries, ~Parsing(x)
  PROVE  Strings(q[x]) = Own(x) \ {q[x].internal, q[x].kv_pairs}
<1> DEFINE y == q[x]
           L == 1..y.count
<1>1. Own(x) = Strings(y) \cup ({y.internal, y.kv_pairs} \ {Null})
  BY OwnedIsOwn DEF Owned
<1>2. Apart(y, L, L)
  BY AllHeld DEF OneOwner
<1> HIDE DEF y
<1>3. \A b \in Strings(y) : b \notin {y.internal, y.kv_pairs}
  BY <1>2 DEF Strings, Loose, Apart, Lone
<1> QED BY <1>1, <1>3 DEF y

LEMMA FreeTrade == ASSUME TypeInv, NEW x \in Queries, llquery_free(x) PROVE Trade(x)
<1>1. /\ pc = "idle" /\ Release(Owned(q[x]), q[x].alloc) /\ Update(x, Zero) /\ pc' = "idle"
  BY DEF llquery_free, Begins, Discard, Ends
<1>2. Owned(q[x]) = Own(x)
  BY <1>1, OwnedIsOwn DEF Parsing
<1> QED BY <1>1, <1>2, GoneTrade

LEMMA CloneFailsTrade ==
  ASSUME TypeInv, NEW x \in Queries, x = me, pc \in {"clone_key", "clone_value"}, CloneFails
  PROVE  Trade(x)
<1>1. Release(Owned(q[x]), q[x].alloc) /\ Update(x, Zero) /\ pc' = "idle"
  BY DEF CloneFails, Discard, Ends
<1>2. Owned(q[x]) = Own(x)
  BY OwnedIsOwn DEF Parsing
<1> QED BY <1>1, <1>2, GoneTrade

\* The strings go; no slot is held.
LEMMA ClearTrade ==
  ASSUME TypeInv, OneOwner, NEW x \in Queries, pc = "idle", (pc = "idle" \/ me = x)',
         NEW v \in Object, Update(x, v), v.alloc = q[x].alloc, v.internal = q[x].internal,
         v.kv_pairs = q[x].kv_pairs, v.pool = Null, v.decode_buffer \in {Null, Caller},
         Held(x)' = {}, HeldKeys(x)' = {}, Release(Strings(q[x]), q[x].alloc)
  PROVE  Trade(x)
<1>1. q'[x] = v /\ \A y \in Queries : y # x => q'[y] = q[y]
  BY Updated DEF TypeInv, Types
<1>2. /\ Strings(q[x]) = Own(x) \ {q[x].internal, q[x].kv_pairs}
      /\ Apart(q[x], 1..q[x].count, 1..q[x].count)
      /\ Own(x) \subseteq Blocks
      /\ Owned(q[x]) = Own(x)
  BY StringsAreOwn, AllHeld, HeldSlots, OwnedIsOwn DEF Parsing, OneOwner, HoldsBlocks
<1>3. /\ q[x].internal \in Block /\ q[x].kv_pairs \in Block /\ Caller \notin Block
  BY BlockIsPositive DEF TypeInv, Types, Object, Block, Caller, Null
<1>4. Own(x)' = {q[x].internal, q[x].kv_pairs} \ {Null}
  BY <1>1, <1>3, OwnNext DEF Holdings, Null
<1>5. Apart(q[x], HeldKeys(x), Held(x))'
  <2>1. q[x].internal # Null => q[x].internal # q[x].kv_pairs
    BY <1>2 DEF Apart
  <2> QED BY <1>1, <1>3, <2>1, OwnNext DEF Apart
<1>6. Own(x)' \subseteq Own(x) /\ Strings(q[x]) = Own(x) \ Own(x)'
  BY <1>2, <1>4 DEF Owned
<1>7. \A b \in Blocks : heap'[b] = IF b \in Strings(q[x]) THEN "free" ELSE heap[b]
  BY DEF Release
<1>8. (\A b \in Own(x) : heap[b] = q[x].alloc) => foreign' = foreign
  BY <1>6, ReleaseForeign
<1>9. \A b \in Own(x)' : b \in Own(x) /\ heap'[b] = heap[b]
  BY <1>2, <1>6, <1>7
<1>10. \A b \in Blocks : b \notin Own(x)' =>
         heap'[b] = IF b \in Own(x) THEN "free" ELSE heap[b]
  BY <1>6, <1>7
<1> QED BY <1>1, <1>5, <1>8, <1>9, <1>10 DEF Trade

LEMMA ResetTrade ==
  ASSUME TypeInv, OneOwner, NEW x \in Queries, llquery_reset(x) PROVE Trade(x)
<1>1. /\ pc = "idle" /\ q[x].up /\ Update(x, ResetObject(q[x])) /\ pc' = "idle"
      /\ Release(Strings(q[x]), q[x].alloc)
  BY DEF llquery_reset, Begins, Ends
<1>2. q'[x] = ResetObject(q[x])
  BY <1>1, ResetIsObject, Updated DEF TypeInv, Types
<1>3. Held(x)' = {} /\ HeldKeys(x)' = {}
  BY <1>1, <1>2, ResetIsObject, AllHeldNext DEF Parsing
<1> QED BY <1>1, <1>3, ResetIsObject, ClearTrade

LEMMA NewObjectTrade ==
  ASSUME TypeInv, NEW x \in Queries, NEW from, NEW a \in Allocators,
         NEW max \in Nat, NEW flags \in FlagSets \cup {{}}, pc = "idle", ~q[x].up,
         NewObject(x, from, a, max, flags)
  PROVE  Trade(x)
<1>1. q[x] = Zero /\ Own(x) = {}
  BY AbsentHoldsNothing
<1>2. CASE UNCHANGED heaps /\ Update(x, Zero) /\ Ends("MEMORY_ERROR")
  <2>1. q'[x] = Zero /\ (\A y \in Queries : y # x => q'[y] = q[y]) /\ pc' = "idle"
    BY <1>2, ZeroIsObject, Updated DEF Ends, TypeInv, Types
  <2>2. Held(x)' = {} /\ HeldKeys(x)' = {}
    <3>1. Zero.count = 0
      BY DEF Zero
    <3> QED BY <2>1, <3>1, AllHeldNext DEF Parsing
  <2>3. Own(x)' = {} /\ Apart(q[x], HeldKeys(x), Held(x))'
    BY <2>1, <2>2, ZeroHoldsNothing, OwnNext
  <2>4. heap' = heap /\ foreign' = foreign
    BY <1>2 DEF heaps
  <2> QED BY <1>1, <2>1, <2>3, <2>4 DEF Trade
<1>3. ASSUME NEW b \in Blocks, Allocate(a, b),
             Update(x, [Zero EXCEPT !.alloc = a, !.internal = b, !.max = max, !.flags = flags]),
             pc' = "init_pairs", me' = x
      PROVE  Trade(x)
  <2> DEFINE v == [Zero EXCEPT !.alloc = a, !.internal = b, !.max = max, !.flags = flags]
  <2>1. v \in Object
    <3>1. b \in Block
      BY DEF Block
    <3> HIDE DEF Zero
    <3> QED BY <3>1, ZeroIsObject DEF Object
  <2>2. /\ v.count = 0 /\ v.alloc = a /\ v.internal = b /\ v.kv_pairs = Null /\ v.pool = Null
        /\ v.decode_buffer = Null
    BY DEF Zero
  <2>3. Update(x, v)
    BY <1>3
  <2> HIDE DEF v
  <2>4. q'[x] = v /\ \A y \in Queries : y # x => q'[y] = q[y]
    BY <2>1, <2>3, Updated DEF TypeInv, Types
  <2>5. Held(x)' = {} /\ HeldKeys(x)' = {}
    BY <1>3, <2>2, <2>4, AllHeldNext DEF Parsing
  <2>6. b # Null /\ b # Caller /\ heap[b] = "free" /\ foreign' = foreign
        /\ heap' = [heap EXCEPT ![b] = a]
    BY <1>3, GetsBlock DEF Allocate
  <2>7. Own(x)' = {b} /\ Apart(q[x], HeldKeys(x), Held(x))'
    BY <2>2, <2>4, <2>5, <2>6, OwnNext DEF Holdings, Apart
  <2>8. \A c \in Blocks : heap'[c] = IF c = b THEN a ELSE heap[c]
    BY <2>6 DEF TypeInv, Types
  <2> QED BY <1>1, <1>3, <2>2, <2>4, <2>6, <2>7, <2>8 DEF Trade
<1> QED BY <1>2, <1>3 DEF NewObject, Goes

LEMMA InitTrade ==
  ASSUME TypeInv, NEW x \in Queries, NEW a \in Allocators, NEW n \in Limits, NEW f \in FlagSets,
         llquery_init_ex(x, a, n, f)
  PROVE  Trade(x)
<1>1. (IF n = 0 THEN DEFAULT_MAX_PAIRS ELSE n) \in Nat
  BY QueryAssumptions
<1> QED BY <1>1, NewObjectTrade DEF llquery_init_ex, Begins

LEMMA CloneTrade ==
  ASSUME TypeInv, NEW x \in Queries, NEW y \in Queries, llquery_clone(x, y)
  PROVE  Trade(x)
<1>1. q[y].max \in Nat /\ q[y].flags \in FlagSets \cup {{}}
  BY DEF TypeInv, Types, Object
<1> QED BY <1>1, NewObjectTrade, QueryAssumptions DEF llquery_clone, Begins

\* A step that changes what no object holds, nor the heap.
LEMMA QuietTrade ==
  ASSUME TypeInv, OneOwner, NEW x \in Queries,
         pc = "idle" \/ me = x, (pc = "idle" \/ me = x)', UNCHANGED heaps,
         \A y \in Queries : y # x => q'[y] = q[y],
         q'[x].alloc = q[x].alloc \/ <<"set_allocator", x>> \in Calls,
         Own(x)' = Own(x), Apart(q[x], HeldKeys(x), Held(x))'
  PROVE  Trade(x)
<1>1. heap' = heap /\ foreign' = foreign
  BY DEF heaps
<1> QED BY <1>1 DEF Trade

\* The same where no object changes.
LEMMA StillTrade ==
  ASSUME TypeInv, OneOwner, NEW x \in Queries,
         pc = "idle" \/ me = x, (pc = "idle" \/ me = x)', UNCHANGED heaps, UNCHANGED q,
         HeldKeys(x)' = HeldKeys(x), Held(x)' = Held(x)
  PROVE  Trade(x)
<1>1. Own(x)' = Own(x) /\ Apart(q[x], HeldKeys(x), Held(x))'
  <2>1. Own(x)' = Own(x)
    BY OwnNext DEF Own
  <2>2. Apart(q[x], HeldKeys(x), Held(x))'
    BY OwnNext DEF OneOwner
  <2> QED BY <2>1, <2>2
<1> QED BY <1>1, QuietTrade

\* A step that gives object x a block that was free.
LEMMA GainTrade ==
  ASSUME TypeInv, NEW x \in Queries, NEW b, NEW a \in Allocators, Allocate(a, b),
         pc = "idle" \/ me = x, (pc = "idle" \/ me = x)', a = q[x].alloc,
         \A y \in Queries : y # x => q'[y] = q[y],
         q'[x].alloc = q[x].alloc,
         Own(x)' = Own(x) \cup {b}, Apart(q[x], HeldKeys(x), Held(x))'
  PROVE  Trade(x)
<1>1. /\ b \in Blocks /\ heap[b] = "free" /\ foreign' = foreign
      /\ heap' = [heap EXCEPT ![b] = a]
  BY GetsBlock DEF Allocate
<1>2. \A c \in Blocks : heap'[c] = IF c = b THEN a ELSE heap[c]
  BY <1>1 DEF TypeInv, Types
<1>3. \A c \in Own(x)' : IF c \in Own(x) THEN heap'[c] \in {heap[c], q'[x].alloc}
                         ELSE heap[c] = "free" /\ heap'[c] = q'[x].alloc
  <2>1. Own(x) \subseteq Blocks
    BY HeldSlots DEF HoldsBlocks
  <2> QED BY <1>1, <1>2, <2>1
<1>4. \A c \in Blocks : c \notin Own(x)' =>
        heap'[c] = IF c \in Own(x) THEN "free" ELSE heap[c]
  BY <1>2
<1> QED BY <1>1, <1>3, <1>4 DEF Trade

\* Objects of the same strings and blocks hold the same.
LEMMA SameHoldings ==
  ASSUME NEW y, NEW v, NEW K, NEW V, v.pairs = y.pairs, v.internal = y.internal,
         v.kv_pairs = y.kv_pairs, v.pool = y.pool, v.decode_buffer = y.decode_buffer
  PROVE  /\ Holdings(v, K, V) = Holdings(y, K, V)
         /\ Apart(v, K, V) <=> Apart(y, K, V)
<1>1. Holdings(v, K, V) = Holdings(y, K, V)
  BY DEF Holdings
<1>2. Apart(v, K, V) <=> Apart(y, K, V)
  BY DEF Apart, Lone
<1> QED BY <1>1, <1>2

\* A block that no object holds, in place of the array of pairs.
LEMMA ArrayMoved ==
  ASSUME NEW y, NEW v, NEW K, NEW V, NEW b, v.pairs = y.pairs, v.internal = y.internal,
         v.kv_pairs = b, v.pool = y.pool, v.decode_buffer = y.decode_buffer,
         b \notin Holdings(y, K, V), b \notin {Null, Caller}, Apart(y, K, V), y.kv_pairs # Null,
         y.kv_pairs # Caller
  PROVE  /\ Holdings(v, K, V) = (Holdings(y, K, V) \ {y.kv_pairs}) \cup {b}
         /\ Apart(v, K, V) /\ y.kv_pairs \in Holdings(y, K, V)
<1>1. \A i \in K : y.pairs[i].key \notin {b, y.kv_pairs}
  BY DEF Holdings, Apart, Lone
<1>2. \A i \in V : y.pairs[i].value \notin {b, y.kv_pairs}
  BY DEF Holdings, Apart, Lone
<1>3. b \notin {y.internal, y.pool, y.decode_buffer}
      /\ y.kv_pairs \notin {y.internal, y.pool, y.decode_buffer}
  BY DEF Holdings, Apart
<1>4. Holdings(v, K, V) = (Holdings(y, K, V) \ {y.kv_pairs}) \cup {b}
  BY <1>1, <1>2, <1>3 DEF Holdings
<1>5. Apart(v, K, V)
  BY <1>1, <1>2, <1>3 DEF Apart, Lone
<1>6. y.kv_pairs \in Holdings(y, K, V)
  BY DEF Holdings
<1> QED BY <1>4, <1>5, <1>6

LEMMA SetAllocatorTrade ==
  ASSUME TypeInv, OneOwner, NEW x \in Queries, NEW a \in Allocators, llquery_set_allocator(x, a)
  PROVE  Trade(x)
<1> DEFINE y == q[x]
           L == 1..y.count
<1>0. /\ y \in Object /\ Fits(y) /\ y.up /\ pc = "idle" /\ pc' = "idle"
      /\ <<"set_allocator", x>> \in Calls
      /\ Held(x) = L /\ HeldKeys(x) = L
  BY AllHeld DEF TypeInv, Types, llquery_set_allocator, Begins, Ends, Parsing
<1>1. ASSUME NEW v \in Object, Update(x, v), v.count = y.count
      PROVE  /\ q'[x] = v /\ \A z \in Queries : z # x => q'[z] = q[z]
             /\ Held(x)' = L /\ HeldKeys(x)' = L
  <2>1. /\ q'[x] = v /\ \A z \in Queries : z # x => q'[z] = q[z]
    BY <1>1, Updated DEF TypeInv, Types
  <2> QED BY <1>0, <1>1, <2>1, AllHeldNext DEF Parsing
<1>2. CASE UNCHANGED heaps /\ Update(x, [q[x] EXCEPT !.alloc = a])
  <2> DEFINE v == [y EXCEPT !.alloc = a]
  <2>1. /\ v \in Object /\ v.count = y.count /\ v.pairs = y.pairs /\ v.internal = y.internal
        /\ v.kv_pairs = y.kv_pairs /\ v.pool = y.pool /\ v.decode_buffer = y.decode_buffer
    BY <1>0 DEF Object
  <2>2. Update(x, v)
    BY <1>2
  <2> HIDE DEF v, L
  <2>3. /\ q'[x] = v /\ \A z \in Queries : z # x => q'[z] = q[z]
        /\ Held(x)' = L /\ HeldKeys(x)' = L
    BY <1>1, <2>1, <2>2
  <2>4. Own(x)' = Own(x) /\ Apart(q[x], HeldKeys(x), Held(x))'
    <3>1. Holdings(v, L, L) = Holdings(y, L, L) /\ (Apart(v, L, L) <=> Apart(y, L, L))
      BY <2>1, SameHoldings
    <3>2. Own(x) = Holdings(y, L, L) /\ Apart(y, L, L)
      BY <1>0 DEF Own, OneOwner
    <3> QED BY <2>3, <3>1, <3>2, OwnNext
  <2> QED BY <1>0, <1>2, <2>3, <2>4, QuietTrade
<1>3. ASSUME NEW b \in Blocks, Gets(a, b),
             heap' = [heap EXCEPT ![b] = a, ![q[x].kv_pairs] = "free"],
             foreign' = (foreign \/ heap[q[x].kv_pairs] # q[x].alloc),
             Update(x, [q[x] EXCEPT !.alloc = a, !.kv_pairs = b])
      PROVE  Trade(x)
  <2> DEFINE v == [y EXCEPT !.alloc = a, !.kv_pairs = b]
             old == y.kv_pairs
  <2>1. /\ v \in Object /\ v.count = y.count /\ v.pairs = y.pairs /\ v.internal = y.internal
        /\ v.kv_pairs = b /\ v.pool = y.pool /\ v.decode_buffer = y.decode_buffer
        /\ v.alloc = a
    BY <1>0, <1>3 DEF Object, Block
  <2>2. Update(x, v)
    BY <1>3
  <2>3. /\ old # Null /\ old # Caller /\ old \in Blocks
        /\ b # Null /\ b # Caller /\ heap[b] = "free"
    <3>1. old # Null /\ old \in Block
      BY <1>0 DEF Fits, Object
    <3> QED BY <1>3, <3>1, GetsBlock, BlockIsPositive DEF Block, Caller
  <2> HIDE DEF v, L
  <2>4. /\ q'[x] = v /\ \A z \in Queries : z # x => q'[z] = q[z]
        /\ Held(x)' = L /\ HeldKeys(x)' = L
    BY <1>1, <2>1, <2>2
  <2>5. Own(x) = Holdings(y, L, L) /\ Apart(y, L, L) /\ b \notin Own(x) /\ Own(x) \subseteq Blocks
    BY <1>0, <1>3, <2>3, HeldSlots DEF Own, OneOwner, HoldsBlocks
  <2>6. Own(x)' = (Own(x) \ {old}) \cup {b} /\ Apart(q[x], HeldKeys(x), Held(x))'
        /\ old \in Own(x)
    BY <2>1, <2>3, <2>4, <2>5, ArrayMoved, OwnNext
  <2>7. \A c \in Blocks : heap'[c] = IF c = old THEN "free" ELSE IF c = b THEN a ELSE heap[c]
    BY <1>3, <2>3 DEF TypeInv, Types
  <2>8. (\A c \in Own(x) : heap[c] = q[x].alloc) => foreign' = foreign
    <3>1. foreign \in BOOLEAN /\ foreign' = (foreign \/ heap[old] # q[x].alloc)
      BY <1>3, Zenon DEF TypeInv, Types
    <3> QED BY <2>6, <3>1, Zenon
  <2>9. \A c \in Own(x)' : IF c \in Own(x) THEN heap'[c] \in {heap[c], q'[x].alloc}
                            ELSE heap[c] = "free" /\ heap'[c] = q'[x].alloc
    <3> SUFFICES ASSUME NEW c \in Own(x)'
                 PROVE  IF c \in Own(x) THEN heap'[c] \in {heap[c], a}
                        ELSE heap[c] = "free" /\ heap'[c] = a
      BY <2>1, <2>4
    <3> HIDE DEF old
    <3>1. CASE c = b
      BY <1>3, <2>3, <2>5, <2>6, <2>7, <3>1
    <3>2. CASE c # b
      <4>1. c \in Own(x) /\ c # old /\ c \in Blocks
        BY <2>5, <2>6, <3>2
      <4> QED BY <2>7, <3>2, <4>1
    <3> QED BY <3>1, <3>2
  <2>10. \A c \in Blocks : c \notin Own(x)' => heap'[c] = IF c \in Own(x) THEN "free" ELSE heap[c]
    <3> SUFFICES ASSUME NEW c \in Blocks, c \notin Own(x)'
                 PROVE  heap'[c] = IF c \in Own(x) THEN "free" ELSE heap[c]
      OBVIOUS
    <3> HIDE DEF old
    <3>1. c # b /\ (c \in Own(x) <=> c = old)
      BY <2>6
    <3> QED BY <2>7, <3>1
  <2> HIDE DEF old, y
  <2> QED BY <1>0, <2>4, <2>6, <2>8, <2>9, <2>10 DEF Trade
<1> QED BY <1>2, <1>3 DEF llquery_set_allocator
-----------------------------------------------------------------------------
(* Ownership: parsing. *)

LEMMA ParseTrade ==
  ASSUME TypeInv, OneOwner, NEW x \in Queries, NEW t \in Texts, NEW size \in BufferSizes,
         llquery_parse_ex(x, t, size)
  PROVE  Trade(x)
<1> DEFINE w == Unquestioned(t)
           r == ResetObject(q[x])
<1>0. /\ pc = "idle" /\ q[x].up
      /\ r \in Object /\ r.count = 0 /\ r.pool = Null /\ r.decode_buffer = Null
      /\ r.alloc = q[x].alloc /\ r.internal = q[x].internal /\ r.kv_pairs = q[x].kv_pairs
  BY ResetIsObject DEF llquery_parse_ex, Begins
<1> HIDE DEF r
<1>1. CASE Ends("EMPTY_STRING") /\ UNCHANGED <<q, heaps>>
  <2>1. /\ pc' = "idle" /\ HeldKeys(x)' = HeldKeys(x) /\ Held(x)' = Held(x)
    BY <1>0, <1>1, AllHeld, AllHeldNext DEF Ends, Parsing
  <2> QED BY <1>0, <1>1, <2>1, StillTrade
<1>2. ASSUME Release(Strings(q[x]), q[x].alloc), NEW v \in Object, Update(x, v),
             v.count = 0, v.pool = Null, v.decode_buffer \in {Null, Caller},
             v.alloc = q[x].alloc, v.internal = q[x].internal, v.kv_pairs = q[x].kv_pairs,
             pc' = "idle" \/ me' = x, pc' \notin {"pair", "value"}
      PROVE  Trade(x)
  <2>1. q'[x] = v
    BY <1>2, Updated DEF TypeInv, Types
  <2>2. Held(x)' = {} /\ HeldKeys(x)' = {}
    BY <1>2, <2>1, AllHeldNext DEF Parsing
  <2> QED BY <1>0, <1>2, <2>2, ClearTrade
<1>3. CASE ~(t = <<>>)
  <2> DEFINE into == [r EXCEPT !.decode_buffer = Caller]
  <2>1. Release(Strings(q[x]), q[x].alloc)
    BY <1>3 DEF llquery_parse_ex
  <2>2. /\ Update(x, r) \/ Update(x, into)
        /\ pc' = "idle" \/ me' = x
        /\ pc' \notin {"pair", "value"}
    BY <1>3 DEF llquery_parse_ex, Ends, Goes, w, r
  <2>3. /\ into \in Object /\ into.count = 0 /\ into.pool = Null /\ into.decode_buffer = Caller
        /\ into.alloc = r.alloc /\ into.internal = r.internal /\ into.kv_pairs = r.kv_pairs
    BY <1>0 DEF Object
  <2> HIDE DEF into
  <2> QED BY <1>0, <1>2, <2>1, <2>2, <2>3
<1> QED BY <1>1, <1>3 DEF llquery_parse_ex

\* The buffer of an object that has none.
LEMMA BufferGained ==
  ASSUME NEW y, NEW v, NEW K, NEW V, NEW b, v.pairs = y.pairs, v.internal = y.internal,
         v.kv_pairs = y.kv_pairs, v.pool = y.pool, v.decode_buffer = b,
         b \notin Holdings(y, K, V), b \notin {Null, Caller}, Apart(y, K, V),
         y.decode_buffer \in {Null, Caller}
  PROVE  Holdings(v, K, V) = Holdings(y, K, V) \cup {b} /\ Apart(v, K, V)
<1>1. /\ \A i \in K : y.pairs[i].key # b
      /\ \A i \in V : y.pairs[i].value # b
      /\ b \notin {y.internal, y.kv_pairs, y.pool}
  BY DEF Holdings
<1>2. Holdings(v, K, V) = Holdings(y, K, V) \cup {b}
  BY DEF Holdings
<1>3. Apart(v, K, V)
  BY <1>1 DEF Apart, Lone
<1> QED BY <1>2, <1>3

\* The pool of an object without strings.
LEMMA PoolGained ==
  ASSUME NEW y, NEW v, NEW b, v.internal = y.internal,
         v.kv_pairs = y.kv_pairs, v.pool = b, v.decode_buffer = y.decode_buffer,
         b \notin Holdings(y, {}, {}), b \notin {Null, Caller}, Apart(y, {}, {}), y.pool = Null
  PROVE  Holdings(v, {}, {}) = Holdings(y, {}, {}) \cup {b} /\ Apart(v, {}, {})
<1>1. b \notin {y.internal, y.kv_pairs, y.decode_buffer}
  BY DEF Holdings
<1>2. Holdings(v, {}, {}) = Holdings(y, {}, {}) \cup {b}
  BY DEF Holdings
<1>3. Apart(v, {}, {})
  BY <1>1 DEF Apart, Lone
<1> QED BY <1>2, <1>3

\* A block that is free is held by none.
LEMMA FreshBlock ==
  ASSUME TypeInv, OneOwner, NEW x \in Queries, NEW a \in Allocators, NEW b, Gets(a, b)
  PROVE  b \notin Own(x) /\ b \notin {Null, Caller} /\ b \in Blocks
BY GetsBlock DEF OneOwner

LEMMA EmptyHands ==
  ASSUME OneOwner, NEW x \in Queries, HeldKeys(x) = {}, Held(x) = {}
  PROVE  Own(x) = Holdings(q[x], {}, {}) /\ Apart(q[x], {}, {})
<1>1. Apart(q[x], HeldKeys(x), Held(x))
  BY DEF OneOwner
<1> QED BY <1>1 DEF Own

LEMMA DecodeTrade ==
  ASSUME TypeInv, OneOwner, NEW x \in Queries, x = me, DecodeBuffer
  PROVE  Trade(x)
<1>0. /\ pc = "decode" /\ q[x] \in Object /\ q[x].alloc \in Allocators
      /\ q[x].decode_buffer = Null /\ q[x].count = 0
      /\ Held(x) = {} /\ HeldKeys(x) = {}
  <2>1. pc = "decode" /\ q[x] \in Object /\ q[x].decode_buffer = Null /\ q[x].count = 0
    BY DEF DecodeBuffer, TypeInv, Types, Control, Parses
  <2> QED BY <2>1, AllHeld DEF Parsing, Object
<1>1. CASE UNCHANGED <<q, heaps>> /\ Ends("MEMORY_ERROR")
  <2>1. /\ pc' = "idle" /\ HeldKeys(x)' = HeldKeys(x) /\ Held(x)' = Held(x)
    BY <1>0, <1>1, AllHeld, AllHeldNext DEF Ends, Parsing
  <2> QED BY <1>1, <2>1, StillTrade
<1>2. ASSUME NEW b \in Blocks, Allocate(q[x].alloc, b),
             Update(x, [q[x] EXCEPT !.decode_buffer = b]), pc' = "pool", me' = x
      PROVE  Trade(x)
  <2> DEFINE v == [q[x] EXCEPT !.decode_buffer = b]
  <2>1. /\ v \in Object /\ v.count = 0 /\ v.pairs = q[x].pairs /\ v.alloc = q[x].alloc
        /\ v.internal = q[x].internal /\ v.kv_pairs = q[x].kv_pairs /\ v.pool = q[x].pool
        /\ v.decode_buffer = b
    BY <1>0 DEF Object, Block
  <2>2. Update(x, v)
    BY <1>2
  <2> HIDE DEF v
  <2>3. /\ q'[x] = v /\ \A z \in Queries : z # x => q'[z] = q[z]
        /\ Held(x)' = {} /\ HeldKeys(x)' = {}
    <3>1. /\ q'[x] = v /\ \A z \in Queries : z # x => q'[z] = q[z]
      BY <2>1, <2>2, Updated DEF TypeInv, Types
    <3> QED BY <1>2, <2>1, <3>1, AllHeldNext DEF Parsing
  <2>4. Own(x)' = Own(x) \cup {b} /\ Apart(q[x], HeldKeys(x), Held(x))'
    <3>1. Own(x) = Holdings(q[x], {}, {}) /\ Apart(q[x], {}, {})
      BY <1>0, EmptyHands
    <3>2. b \notin Own(x) /\ b \notin {Null, Caller}
      BY <1>0, <1>2, FreshBlock DEF Allocate
    <3>3. Holdings(v, {}, {}) = Holdings(q[x], {}, {}) \cup {b} /\ Apart(v, {}, {})
      <4>1. b \notin Holdings(q[x], {}, {}) /\ q[x].decode_buffer \in {Null, Caller}
        BY <1>0, <3>1, <3>2
      <4> QED BY <2>1, <3>1, <3>2, <4>1, BufferGained
    <3> QED BY <2>3, <3>1, <3>3, OwnNext
  <2> QED BY <1>0, <1>2, <2>1, <2>3, <2>4, GainTrade
<1> QED BY <1>1, <1>2 DEF DecodeBuffer, Goes

LEMMA PoolTrade ==
  ASSUME TypeInv, OneOwner, NEW x \in Queries, x = me, StringPool
  PROVE  Trade(x)
<1>0. /\ pc = "pool" /\ q[x] \in Object /\ q[x].alloc \in Allocators
      /\ q[x].pool = Null /\ q[x].count = 0 /\ pc' = "pair" /\ me' = x /\ index' = 0
      /\ Held(x) = {} /\ HeldKeys(x) = {}
      /\ Held(x)' = {} /\ HeldKeys(x)' = {}
  <2>1. /\ pc = "pool" /\ q[x] \in Object /\ q[x].pool = Null /\ q[x].count = 0
        /\ pc' = "pair" /\ me' = x /\ index' = 0
    BY DEF StringPool, Goes, locals, TypeInv, Types, Control, Parses
  <2>2. Held(x)' = {} /\ HeldKeys(x)' = {}
    BY <2>1 DEF Held, HeldKeys, Parsing
  <2> QED BY <2>1, <2>2, AllHeld DEF Parsing, Object
<1>1. CASE UNCHANGED <<q, heaps>>
  BY <1>0, <1>1, StillTrade
<1>2. ASSUME NEW b \in Blocks, Allocate(q[x].alloc, b),
             Update(x, [q[x] EXCEPT !.pool = b, !.pool_used = 0,
                                    !.pool_size = estimate_string_size(len)])
      PROVE  Trade(x)
  <2> DEFINE n == estimate_string_size(len)
             v == [q[x] EXCEPT !.pool = b, !.pool_used = 0, !.pool_size = n]
  <2>1. /\ v \in Object /\ v.alloc = q[x].alloc
        /\ v.internal = q[x].internal /\ v.kv_pairs = q[x].kv_pairs /\ v.pool = b
        /\ v.decode_buffer = q[x].decode_buffer
    <3>1. n \in Nat
      BY QueryAssumptions DEF estimate_string_size, TypeInv, Types
    <3> HIDE DEF n
    <3> QED BY <1>0, <3>1 DEF Object, Block
  <2>2. Update(x, v)
    BY <1>2
  <2> HIDE DEF v
  <2>3. /\ q'[x] = v /\ \A z \in Queries : z # x => q'[z] = q[z]
    BY <2>1, <2>2, Updated DEF TypeInv, Types
  <2>4. Own(x)' = Own(x) \cup {b} /\ Apart(q[x], HeldKeys(x), Held(x))'
    <3>1. Own(x) = Holdings(q[x], {}, {}) /\ Apart(q[x], {}, {})
      BY <1>0, EmptyHands
    <3>2. b \notin Own(x) /\ b \notin {Null, Caller}
      BY <1>0, <1>2, FreshBlock DEF Allocate
    <3>3. Holdings(v, {}, {}) = Holdings(q[x], {}, {}) \cup {b} /\ Apart(v, {}, {})
      BY <1>0, <2>1, <3>1, <3>2, PoolGained
    <3> QED BY <1>0, <2>3, <3>1, <3>3, OwnNext
  <2> QED BY <1>0, <1>2, <2>1, <2>3, <2>4, GainTrade
<1> QED BY <1>1, <1>2 DEF StringPool

LEMMA SkipTrade ==
  ASSUME TypeInv, OneOwner, NEW x \in Queries, x = me, SkipPair
  PROVE  Trade(x)
<1>1. /\ pc = "pair" /\ pc' = "pair" /\ me' = x /\ index' = index /\ UNCHANGED <<q, heaps>>
  BY DEF SkipPair, Goes
<1>2. HeldKeys(x)' = HeldKeys(x) /\ Held(x)' = Held(x)
  BY <1>1 DEF Held, HeldKeys, Parsing
<1> QED BY <1>1, <1>2, StillTrade

\* v holds what y does, and b.
Gains(v, Kv, Vv, y, K, V, b) ==
  Holdings(v, Kv, Vv) = Holdings(y, K, V) \cup {b} /\ Apart(v, Kv, Vv)

\* A key in slot j: it is in the pool; or in a block that no one holds.
KeyIn(v, y, K, V, j) ==
  /\ Kin(v, y) /\ Apart(y, K, V) /\ v.pairs[j].key \notin {Null, Caller}
  /\ \A i \in K : i # j => v.pairs[i].key = y.pairs[i].key
  /\ \A i \in V : v.pairs[i].value = y.pairs[i].value
  /\ j \in K => y.pairs[j].key = Null

LEMMA KeyPooled ==
  ASSUME NEW y, NEW v, NEW K, NEW V, NEW j, KeyIn(v, y, K, V, j), v.pairs[j].key = y.pool
  PROVE  Holdings(v, K \cup {j}, V) = Holdings(y, K, V) /\ Apart(v, K \cup {j}, V)
<1>1. /\ v.internal = y.internal /\ v.kv_pairs = y.kv_pairs /\ v.pool = y.pool
      /\ v.decode_buffer = y.decode_buffer
  BY DEF KeyIn, Kin
<1>2. Holdings(v, K \cup {j}, V) = Holdings(y, K, V)
  BY <1>1 DEF KeyIn, Holdings
<1>3. Apart(v, K \cup {j}, V)
  BY <1>1 DEF KeyIn, Apart, Lone
<1> QED BY <1>2, <1>3

LEMMA KeyGained ==
  ASSUME NEW y, NEW v, NEW K, NEW V, NEW j, KeyIn(v, y, K, V, j),
         v.pairs[j].key \notin Holdings(y, K, V)
  PROVE  Gains(v, K \cup {j}, V, y, K, V, v.pairs[j].key)
<1>1. /\ v.internal = y.internal /\ v.kv_pairs = y.kv_pairs /\ v.pool = y.pool
      /\ v.decode_buffer = y.decode_buffer
  BY DEF KeyIn, Kin
<1>2. Holdings(v, K \cup {j}, V) = Holdings(y, K, V) \cup {v.pairs[j].key}
  BY <1>1 DEF KeyIn, Holdings
<1>3. /\ \A i \in K : y.pairs[i].key # v.pairs[j].key
      /\ \A i \in V : y.pairs[i].value # v.pairs[j].key
      /\ v.pairs[j].key \notin {y.internal, y.kv_pairs, y.pool, y.decode_buffer}
  BY DEF KeyIn, Holdings
<1>4. Apart(v, K \cup {j}, V)
  BY <1>1, <1>3 DEF KeyIn, Apart, Lone
<1> QED BY <1>2, <1>4 DEF Gains

\* The same for a value.
ValueIn(v, y, K, V, j) ==
  /\ Kin(v, y) /\ Apart(y, K, V) /\ v.pairs[j].value \notin {Null, Caller}
  /\ \A i \in K : v.pairs[i].key = y.pairs[i].key
  /\ \A i \in V : i # j => v.pairs[i].value = y.pairs[i].value
  /\ j \in V => y.pairs[j].value = Null

LEMMA ValuePooled ==
  ASSUME NEW y, NEW v, NEW K, NEW V, NEW j, ValueIn(v, y, K, V, j), v.pairs[j].value = y.pool
  PROVE  Holdings(v, K, V \cup {j}) = Holdings(y, K, V) /\ Apart(v, K, V \cup {j})
<1>1. /\ v.internal = y.internal /\ v.kv_pairs = y.kv_pairs /\ v.pool = y.pool
      /\ v.decode_buffer = y.decode_buffer
  BY DEF ValueIn, Kin
<1>2. Holdings(v, K, V \cup {j}) = Holdings(y, K, V)
  BY <1>1 DEF ValueIn, Holdings
<1>3. Apart(v, K, V \cup {j})
  BY <1>1 DEF ValueIn, Apart, Lone
<1> QED BY <1>2, <1>3

LEMMA ValueGained ==
  ASSUME NEW y, NEW v, NEW K, NEW V, NEW j, ValueIn(v, y, K, V, j),
         v.pairs[j].value \notin Holdings(y, K, V)
  PROVE  Gains(v, K, V \cup {j}, y, K, V, v.pairs[j].value)
<1>1. /\ v.internal = y.internal /\ v.kv_pairs = y.kv_pairs /\ v.pool = y.pool
      /\ v.decode_buffer = y.decode_buffer
  BY DEF ValueIn, Kin
<1>2. Holdings(v, K, V \cup {j}) = Holdings(y, K, V) \cup {v.pairs[j].value}
  BY <1>1 DEF ValueIn, Holdings
<1>3. /\ \A i \in K : y.pairs[i].key # v.pairs[j].value
      /\ \A i \in V : y.pairs[i].value # v.pairs[j].value
      /\ v.pairs[j].value \notin {y.internal, y.kv_pairs, y.pool, y.decode_buffer}
  BY DEF ValueIn, Holdings
<1>4. Apart(v, K, V \cup {j})
  BY <1>1, <1>3 DEF ValueIn, Apart, Lone
<1> QED BY <1>2, <1>4 DEF Gains

\* The loop ends with the pairs before the one at hand.
LEMMA StopTrade ==
  ASSUME TypeInv, OneOwner, NEW x \in Queries, x = me, pc = "pair", NEW err, StopParsing(err),
         UNCHANGED heaps
  PROVE  Trade(x)
<1> DEFINE v == [q[x] EXCEPT !.count = index]
<1>1. q[x] \in Object /\ Fits(q[x]) /\ index \in Nat /\ index <= Len(q[x].pairs)
  BY AtTurn
<1>2. /\ v \in Object /\ v.pairs = q[x].pairs /\ v.count = index /\ v.alloc = q[x].alloc
      /\ v.internal = q[x].internal /\ v.kv_pairs = q[x].kv_pairs /\ v.pool = q[x].pool
      /\ v.decode_buffer = q[x].decode_buffer
  BY <1>1, CountSet
<1>3. Update(x, v) /\ pc' = "idle"
  BY DEF StopParsing, Ends
<1> HIDE DEF v
<1>4. q'[x] = v /\ \A y \in Queries : y # x => q'[y] = q[y]
  BY <1>2, <1>3, Updated DEF TypeInv, Types
<1>5. Held(x) = 1..index /\ HeldKeys(x) = 1..index
  BY DEF Held, HeldKeys, Parsing
<1>6. Held(x)' = 1..index /\ HeldKeys(x)' = 1..index
  BY <1>2, <1>3, <1>4, AllHeldNext DEF Parsing
<1>7. Own(x)' = Own(x) /\ Apart(q[x], HeldKeys(x), Held(x))'
  <2>1. Own(x) = Holdings(q[x], 1..index, 1..index) /\ Apart(q[x], 1..index, 1..index)
    BY <1>5 DEF Own, OneOwner
  <2> QED BY <1>2, <1>4, <1>6, <2>1, SameHoldings, OwnNext
<1> QED BY <1>2, <1>3, <1>4, <1>7, QuietTrade

LEMMA KeyTrade ==
  ASSUME TypeInv, OneOwner, NEW x \in Queries, x = me, ParseKey
  PROVE  Trade(x)
<1>0. pc = "pair" /\ index < q[x].max
  BY DEF ParseKey, AtPair, MorePairs
<1>1. ASSUME NEW v, NEW s, KeyTaken(v, s) PROVE Trade(x)
  <2> DEFINE y == q[x]
             j == index + 1
             L == 1..index
  <2>1. /\ v \in Object /\ Kin(v, y) /\ v.pairs = [y.pairs EXCEPT ![j] = s] /\ s \in Pair
        /\ Update(x, v) /\ pc' = "value" /\ me' = x /\ index' = index
    BY <1>1 DEF KeyTaken
  <2>2. y.pairs \in Seq(Pair) /\ j \in 1..Len(y.pairs) /\ index \in Nat /\ y.alloc \in Allocators
        /\ y \in Object
    BY <1>0, AtTurn DEF Object
  <2>3. q'[x] = v /\ \A z \in Queries : z # x => q'[z] = q[z]
    BY <2>1, Updated DEF TypeInv, Types
  <2>4. /\ Held(x) = L /\ HeldKeys(x) = L
        /\ Held(x)' = L /\ HeldKeys(x)' = L \cup {j}
    BY <1>0, <2>1 DEF Held, HeldKeys, Parsing
  <2>5. Own(x) = Holdings(y, L, L) /\ Apart(y, L, L)
    BY <2>4 DEF Own, OneOwner
  <2>6. /\ v.pairs[j] = s /\ j \notin L
        /\ \A i \in L : v.pairs[i] = y.pairs[i]
    BY <2>1, <2>2
  <2>7. CASE s.key = y.pool /\ y.pool # Null /\ UNCHANGED heaps
    <3>1. y.pool # Caller
      BY <2>2, BlockIsPositive DEF Object, Block, Caller, Null
    <3>2. Holdings(v, L \cup {j}, L) = Holdings(y, L, L) /\ Apart(v, L \cup {j}, L)
      <4>1. KeyIn(v, y, L, L, j) /\ v.pairs[j].key = y.pool
        BY <2>1, <2>5, <2>6, <2>7, <3>1 DEF KeyIn
      <4> HIDE DEF y, j, L
      <4> QED BY <4>1, KeyPooled
    <3>3. Own(x)' = Own(x) /\ Apart(q[x], HeldKeys(x), Held(x))'
      BY <2>3, <2>4, <2>5, <3>2, OwnNext
    <3> QED BY <2>1, <2>3, <2>7, <3>3, QuietTrade DEF Kin
  <2>8. CASE Allocate(y.alloc, s.key)
    <3>1. s.key \notin Own(x) /\ s.key \notin {Null, Caller}
      BY <2>2, <2>8, FreshBlock DEF Allocate
    <3>2. Holdings(v, L \cup {j}, L) = Holdings(y, L, L) \cup {s.key} /\ Apart(v, L \cup {j}, L)
      <4>1. KeyIn(v, y, L, L, j) /\ v.pairs[j].key = s.key /\ s.key \notin Holdings(y, L, L)
        BY <2>1, <2>5, <2>6, <3>1 DEF KeyIn
      <4> HIDE DEF y, j, L
      <4>2. Gains(v, L \cup {j}, L, y, L, L, s.key)
        BY <4>1, KeyGained
      <4> QED BY <4>2 DEF Gains
    <3>3. Own(x)' = Own(x) \cup {s.key} /\ Apart(q[x], HeldKeys(x), Held(x))'
      BY <2>3, <2>4, <2>5, <3>2, OwnNext
    <3> QED BY <2>1, <2>2, <2>3, <2>8, <3>3, GainTrade DEF Kin
  <2> QED BY <1>1, <2>7, <2>8 DEF KeyTaken
<1> QED BY <1>0, <1>1, KeyEffect, StopTrade

\* v holds what y does, but for the key in slot j.
KeyOut(v, y, K, V, j) ==
  /\ Kin(v, y) /\ j \notin K
  /\ \A i \in K : v.pairs[i].key = y.pairs[i].key
  /\ \A i \in V : v.pairs[i].value = y.pairs[i].value
Loses(v, y, K, V, j) ==
  /\ Holdings(v, K, V) = Holdings(y, K \cup {j}, V) \ ({y.pairs[j].key} \ {y.pool})
  /\ Apart(v, K, V)

LEMMA KeyDropped ==
  ASSUME NEW y, NEW v, NEW K, NEW V, NEW j, KeyOut(v, y, K, V, j), Apart(y, K \cup {j}, V)
  PROVE  Loses(v, y, K, V, j)
<1> DEFINE b == y.pairs[j].key
<1>1. /\ v.internal = y.internal /\ v.kv_pairs = y.kv_pairs /\ v.pool = y.pool
      /\ v.decode_buffer = y.decode_buffer
  BY DEF KeyOut, Kin
<1>2. Lone(y, b) =>
        /\ \A i \in K : y.pairs[i].key # b
        /\ \A i \in V : y.pairs[i].value # b
        /\ b \notin {y.internal, y.kv_pairs, y.decode_buffer}
  BY DEF KeyOut, Apart
<1>3. Holdings(v, K, V) = Holdings(y, K \cup {j}, V) \ ({b} \ {y.pool})
  BY <1>1, <1>2 DEF KeyOut, Holdings, Lone
<1>4. Apart(v, K, V)
  BY <1>1 DEF KeyOut, Apart, Lone
<1> QED BY <1>3, <1>4 DEF Loses

\* What is known when a value is due.
LEMMA AtValue ==
  ASSUME TypeInv, OneOwner, NEW x \in Queries, x = me, pc = "value"
  PROVE  LET L == 1..index
             j == index + 1
             k == q[x].pairs[j].key
         IN /\ index \in Nat /\ j \notin L /\ L \cup {j} = 1..j
            /\ Held(x) = L /\ HeldKeys(x) = L \cup {j}
            /\ Own(x) = Holdings(q[x], L \cup {j}, L) /\ Apart(q[x], L \cup {j}, L)
            /\ q[x] \in Object /\ q[x].pairs \in Seq(Pair) /\ j \in 1..Len(q[x].pairs)
            /\ q[x].alloc \in Allocators /\ k \in Own(x) /\ Own(x) \subseteq Blocks
<1> DEFINE L == 1..index
           j == index + 1
<1>1. /\ index \in Nat /\ j \notin L /\ L \cup {j} = 1..j
      /\ q[x] \in Object /\ q[x].pairs \in Seq(Pair) /\ j \in 1..Len(q[x].pairs)
      /\ q[x].alloc \in Allocators
  BY AtTurn DEF Object
<1>2. Held(x) = L /\ HeldKeys(x) = L \cup {j}
  BY DEF Held, HeldKeys, Parsing
<1>3. Own(x) = Holdings(q[x], L \cup {j}, L) /\ Apart(q[x], L \cup {j}, L)
  BY <1>2 DEF Own, OneOwner
<1>4. q[x].pairs[j].key \notin {Null, Caller}
  <2>1. q[x].pairs[j].key \in Block /\ q[x].pairs[j].key # Null
    <3>1. q[x].pairs[j] \in Pair
      BY <1>1
    <3>2. q[x].pairs[j].key # Null
      BY DEF TypeInv, Control, Parses
    <3> QED BY <3>1, <3>2 DEF Pair
  <2> QED BY <2>1, BlockIsPositive DEF Block, Caller
<1>5. q[x].pairs[j].key \in Own(x)
  BY <1>3, <1>4 DEF Holdings
<1>6. Own(x) \subseteq Blocks
  BY HeldSlots DEF HoldsBlocks
<1> QED BY <1>1, <1>2, <1>3, <1>5, <1>6

\* The pair is kept: the object gains the value's block, if the value is not in the pool.
LEMMA KeepTrade ==
  ASSUME TypeInv, OneOwner, NEW x \in Queries, x = me, pc = "value", NEW v, NEW s,
         ValueTaken(v, s, TRUE)
  PROVE  Trade(x)
<1> DEFINE y == q[x]
           j == index + 1
           L == 1..index
           b == s.value
<1>1. /\ index \in Nat /\ j \notin L /\ L \cup {j} = 1..j
      /\ Held(x) = L /\ HeldKeys(x) = L \cup {j}
      /\ Own(x) = Holdings(y, L \cup {j}, L) /\ Apart(y, L \cup {j}, L)
      /\ y \in Object /\ y.pairs \in Seq(Pair) /\ j \in 1..Len(y.pairs)
      /\ y.alloc \in Allocators /\ Own(x) \subseteq Blocks
  BY AtValue
<1>2. /\ v \in Object /\ Kin(v, y) /\ v.pairs = [y.pairs EXCEPT ![j] = s] /\ s \in Pair
      /\ s.key = y.pairs[j].key /\ Update(x, v) /\ pc' = "pair" /\ me' = x /\ index' = j
      /\ (b = y.pool /\ y.pool # Null) \/ Gets(y.alloc, b)
  BY DEF ValueTaken
<1>3. /\ heap' = [c \in Blocks |-> IF c = b THEN y.alloc ELSE heap[c]]
      /\ foreign' = foreign
  <2>1. heap' = [c \in Blocks |-> IF c = b THEN y.alloc ELSE heap[c]]
    BY DEF ValueTaken
  <2>2. foreign \in BOOLEAN /\ foreign' = (foreign \/ \E c \in {} \ {b} : heap[c] # y.alloc)
    BY Zenon DEF ValueTaken, TypeInv, Types
  <2>3. foreign' = foreign
    BY <2>2, Zenon
  <2> QED BY <2>1, <2>3
<1>4. q'[x] = v /\ \A z \in Queries : z # x => q'[z] = q[z]
  BY <1>2, Updated DEF TypeInv, Types
<1>5. Held(x)' = L \cup {j} /\ HeldKeys(x)' = L \cup {j}
  <2>1. Held(x)' = 1..j /\ HeldKeys(x)' = 1..j
    BY <1>2 DEF Held, HeldKeys, Parsing
  <2> QED BY <1>1, <2>1
<1>6. b \notin {Null, Caller}
  <2>1. CASE b = y.pool /\ y.pool # Null
    <3>1. y.pool \in Block
      BY <1>1 DEF Object
    <3> QED BY <2>1, <3>1, BlockIsPositive DEF Block, Caller
  <2>2. CASE Gets(y.alloc, b)
    BY <1>1, <2>2, FreshBlock
  <2> QED BY <1>2, <2>1, <2>2
<1>7. ValueIn(v, y, L \cup {j}, L, j) /\ v.pairs[j].value = b
  <2>1. v.pairs[j] = s /\ \A i \in L : v.pairs[i] = y.pairs[i]
    BY <1>1, <1>2
  <2>2. \A i \in L \cup {j} : v.pairs[i].key = y.pairs[i].key
    BY <1>2, <2>1
  <2> HIDE DEF y, j, L, b
  <2>3. v.pairs[j].value = b
    BY <2>1 DEF b
  <2> QED BY <1>1, <1>2, <1>6, <2>1, <2>2, <2>3 DEF ValueIn
<1>8. CASE b = y.pool
  <2>1. /\ Holdings(v, L \cup {j}, L \cup {j}) = Holdings(y, L \cup {j}, L)
        /\ Apart(v, L \cup {j}, L \cup {j})
    <3> HIDE DEF y, j, L, b
    <3> QED BY <1>7, <1>8, ValuePooled
  <2>2. Own(x)' = Own(x) /\ Apart(q[x], HeldKeys(x), Held(x))'
    BY <1>1, <1>4, <1>5, <2>1, OwnNext
  <2>3. b \in Own(x)
    BY <1>1, <1>6, <1>8 DEF Holdings
  <2>4. \A c \in Blocks : heap'[c] = IF c = b THEN y.alloc ELSE heap[c]
    BY <1>3
  <2>5. v.alloc = y.alloc
    BY <1>2 DEF Kin
  <2> HIDE DEF y, j, L, b
  <2>6. \A c \in Own(x)' : c \in Own(x) /\ heap'[c] \in {heap[c], q'[x].alloc}
    BY <1>1, <1>4, <2>2, <2>4, <2>5
  <2>7. \A c \in Blocks : c \notin Own(x)' => c \notin Own(x) /\ heap'[c] = heap[c]
    BY <2>2, <2>3, <2>4
  <2>8. q'[x].alloc = q[x].alloc
    BY <1>4, <2>5 DEF y
  <2> QED BY <1>2, <1>3, <1>4, <2>2, <2>6, <2>7, <2>8 DEF Trade
<1>9. CASE Gets(y.alloc, b)
  <2>1. b \notin Own(x) /\ b \in Blocks
    BY <1>1, <1>9, FreshBlock
  <2>2. Gains(v, L \cup {j}, L \cup {j}, y, L \cup {j}, L, b)
    <3>1. v.pairs[j].value \notin Holdings(y, L \cup {j}, L)
      BY <1>1, <1>7, <2>1
    <3> HIDE DEF y, j, L, b
    <3>2. Gains(v, L \cup {j}, L \cup {j}, y, L \cup {j}, L, v.pairs[j].value)
      BY <1>7, <3>1, ValueGained
    <3> QED BY <1>7, <3>2
  <2>3. Own(x)' = Own(x) \cup {b} /\ Apart(q[x], HeldKeys(x), Held(x))'
    BY <1>1, <1>4, <1>5, <2>2, OwnNext DEF Gains
  <2>4. Allocate(y.alloc, b)
    BY <1>3, <1>9, <2>1 DEF Allocate, TypeInv, Types
  <2> QED BY <1>1, <1>2, <1>4, <2>3, <2>4, GainTrade DEF Kin
<1> QED BY <1>2, <1>8, <1>9

\* The pair is dropped, and the blocks of its key and value with it.
LEMMA DropTrade ==
  ASSUME TypeInv, OneOwner, NEW x \in Queries, x = me, pc = "value", NEW v, NEW s,
         ValueTaken(v, s, FALSE)
  PROVE  Trade(x)
<1> DEFINE y == q[x]
           j == index + 1
           L == 1..index
           k == y.pairs[j].key
           b == s.value
           drops == {k, b} \ {y.pool}
<1>1. /\ index \in Nat /\ j \notin L
      /\ Held(x) = L /\ HeldKeys(x) = L \cup {j}
      /\ Own(x) = Holdings(y, L \cup {j}, L) /\ Apart(y, L \cup {j}, L)
      /\ y \in Object /\ y.pairs \in Seq(Pair) /\ j \in 1..Len(y.pairs)
      /\ y.alloc \in Allocators /\ k \in Own(x) /\ Own(x) \subseteq Blocks
  BY AtValue
<1>2. /\ v \in Object /\ Kin(v, y) /\ v.pairs = [y.pairs EXCEPT ![j] = s] /\ s \in Pair
      /\ s.key = k /\ Update(x, v) /\ pc' = "pair" /\ me' = x /\ index' = index
      /\ (b = y.pool /\ y.pool # Null) \/ Gets(y.alloc, b)
  BY DEF ValueTaken
<1>3. \A c \in Blocks : heap'[c] = IF c \in drops THEN "free"
                                   ELSE IF c = b THEN y.alloc ELSE heap[c]
  BY DEF ValueTaken
<1>4. (\A c \in Own(x) : heap[c] = y.alloc) => foreign' = foreign
  <2>1. foreign \in BOOLEAN /\ foreign' = (foreign \/ \E c \in drops \ {b} : heap[c] # y.alloc)
    BY Zenon DEF ValueTaken, TypeInv, Types
  <2>2. \A c \in drops \ {b} : c \in Own(x)
    BY <1>1
  <2> QED BY <2>1, <2>2, Zenon
<1>5. q'[x] = v /\ \A z \in Queries : z # x => q'[z] = q[z]
  BY <1>2, Updated DEF TypeInv, Types
<1>6. Held(x)' = L /\ HeldKeys(x)' = L
  BY <1>2 DEF Held, HeldKeys, Parsing
<1>7. Holdings(v, L, L) = Holdings(y, L \cup {j}, L) \ ({k} \ {y.pool}) /\ Apart(v, L, L)
  <2>1. \A i \in L : v.pairs[i].key = y.pairs[i].key /\ v.pairs[i].value = y.pairs[i].value
    BY <1>1, <1>2
  <2>2. KeyOut(v, y, L, L, j)
    BY <1>1, <1>2, <2>1 DEF KeyOut
  <2>3. Loses(v, y, L, L, j)
    <3> HIDE DEF y, j, L
    <3> QED BY <1>1, <2>2, KeyDropped
  <2> QED BY <2>3 DEF Loses
<1>8. Own(x)' = Own(x) \ ({k} \ {y.pool}) /\ Apart(q[x], HeldKeys(x), Held(x))'
  BY <1>1, <1>5, <1>6, <1>7, OwnNext
<1>9. (b = y.pool /\ y.pool \in Own(x)) \/ (b \notin Own(x) /\ heap[b] = "free" /\ b # y.pool)
  <2>1. b = y.pool /\ y.pool # Null => y.pool \in Own(x)
    <3>1. y.pool # Caller
      BY <1>1, BlockIsPositive DEF Object, Block, Caller, Null
    <3> QED BY <1>1, <3>1 DEF Holdings
  <2>2. Gets(y.alloc, b) => b \notin Own(x) /\ heap[b] = "free" /\ b \notin {Null, Caller}
    BY <1>1, FreshBlock, GetsBlock
  <2>3. y.pool \in Own(x) \/ y.pool \in {Null, Caller}
    BY <1>1 DEF Holdings
  <2> QED BY <1>2, <2>1, <2>2, <2>3
<1>10. q'[x].alloc = y.alloc
  BY <1>2, <1>5 DEF Kin
<1>11. \A c \in Own(x)' : c \in Own(x) /\ heap'[c] \in {heap[c], q'[x].alloc}
  BY <1>1, <1>3, <1>8, <1>9, <1>10
<1>12. \A c \in Blocks : c \notin Own(x)' =>
         heap'[c] = IF c \in Own(x) THEN "free" ELSE heap[c]
  BY <1>1, <1>3, <1>8, <1>9
<1> QED BY <1>2, <1>4, <1>5, <1>8, <1>10, <1>11, <1>12 DEF Trade

\* There is no memory for the value: its key goes.
LEMMA FailTrade ==
  ASSUME TypeInv, OneOwner, NEW x \in Queries, x = me, pc = "value",
         Release({q[x].pairs[index + 1].key} \ {q[x].pool}, q[x].alloc),
         NEW err, StopParsing(err)
  PROVE  Trade(x)
<1> DEFINE y == q[x]
           j == index + 1
           L == 1..index
           k == y.pairs[j].key
           v == [y EXCEPT !.count = index]
<1>1. /\ index \in Nat /\ j \notin L
      /\ Held(x) = L /\ HeldKeys(x) = L \cup {j}
      /\ Own(x) = Holdings(y, L \cup {j}, L) /\ Apart(y, L \cup {j}, L)
      /\ y \in Object /\ k \in Own(x) /\ Own(x) \subseteq Blocks
  BY AtValue
<1>2. /\ v \in Object /\ Kin(v, y) /\ v.pairs = y.pairs /\ v.count = index
  <2>1. Fits(y) /\ index <= Len(y.pairs)
    BY AtTurn
  <2> HIDE DEF y
  <2> QED BY <1>1, <2>1, CountSet DEF Kin
<1>3. Update(x, v) /\ pc' = "idle"
  BY DEF StopParsing, Ends
<1> HIDE DEF v
<1>4. q'[x] = v /\ \A z \in Queries : z # x => q'[z] = q[z]
  BY <1>2, <1>3, Updated DEF TypeInv, Types
<1>5. Held(x)' = L /\ HeldKeys(x)' = L
  BY <1>2, <1>3, <1>4, AllHeldNext DEF Parsing
<1>6. Holdings(v, L, L) = Holdings(y, L \cup {j}, L) \ ({k} \ {y.pool}) /\ Apart(v, L, L)
  <2>1. \A i \in L : v.pairs[i].key = y.pairs[i].key /\ v.pairs[i].value = y.pairs[i].value
    BY <1>2
  <2>2. KeyOut(v, y, L, L, j)
    BY <1>1, <1>2, <2>1 DEF KeyOut
  <2>3. Loses(v, y, L, L, j)
    <3> HIDE DEF y, j, L
    <3> QED BY <1>1, <2>2, KeyDropped
  <2> QED BY <2>3 DEF Loses
<1>7. Own(x)' = Own(x) \ ({k} \ {y.pool}) /\ Apart(q[x], HeldKeys(x), Held(x))'
  BY <1>1, <1>4, <1>5, <1>6, OwnNext
<1>8. \A c \in Blocks : heap'[c] = IF c \in {k} \ {y.pool} THEN "free" ELSE heap[c]
  BY DEF Release
<1>9. (\A c \in Own(x) : heap[c] = q[x].alloc) => foreign' = foreign
  <2>1. {k} \ {y.pool} \subseteq Own(x)
    BY <1>1
  <2> QED BY <2>1, ReleaseForeign
<1>10. q'[x].alloc = q[x].alloc
  BY <1>2, <1>4 DEF Kin
<1>11. \A c \in Own(x)' : c \in Own(x) /\ heap'[c] = heap[c]
  BY <1>1, <1>7, <1>8
<1>12. \A c \in Blocks : c \notin Own(x)' =>
         heap'[c] = IF c \in Own(x) THEN "free" ELSE heap[c]
  BY <1>1, <1>7, <1>8
<1> QED BY <1>3, <1>4, <1>7, <1>9, <1>10, <1>11, <1>12 DEF Trade

LEMMA ValueTrade ==
  ASSUME TypeInv, OneOwner, NEW x \in Queries, x = me, ParseValue
  PROVE  Trade(x)
<1>1. pc = "value"
  BY DEF ParseValue
<1>2. ASSUME NEW v, NEW s, NEW keep \in BOOLEAN, ValueTaken(v, s, keep) PROVE Trade(x)
  BY <1>1, <1>2, KeepTrade, DropTrade
<1> QED BY <1>1, <1>2, ValueEffect, FailTrade

LEMMA ParseEndTrade ==
  ASSUME TypeInv, OneOwner, NEW x \in Queries, x = me, ParseEnd
  PROVE  Trade(x)
<1>1. PICK err : StopParsing(err)
  BY DEF ParseEnd
<1>2. pc = "pair" /\ UNCHANGED heaps
  BY DEF ParseEnd
<1> QED BY <1>1, <1>2, StopTrade
-----------------------------------------------------------------------------
(* Ownership: filtering and sorting. *)

LEMMA FilterStartTrade ==
  ASSUME TypeInv, OneOwner, NEW x \in Queries, llquery_filter(x) PROVE Trade(x)
<1>1. pc = "idle" /\ pc' = "filter" /\ me' = x /\ UNCHANGED <<q, heaps>>
  BY DEF llquery_filter, Begins, Goes
<1>2. HeldKeys(x)' = HeldKeys(x) /\ Held(x)' = Held(x)
  BY <1>1, AllHeld, AllHeldNext DEF Parsing
<1> QED BY <1>1, <1>2, StillTrade

LEMMA SortStartTrade ==
  ASSUME TypeInv, OneOwner, NEW x \in Queries, NEW by \in BOOLEAN, llquery_sort(x, by)
  PROVE  Trade(x)
<1>1. pc = "idle" /\ pc' \in {"sort", "sort_by"} /\ me' = x /\ UNCHANGED <<q, heaps>>
  BY DEF llquery_sort, Begins, Goes
<1>2. HeldKeys(x)' = HeldKeys(x) /\ Held(x)' = Held(x)
  BY <1>1, AllHeld, AllHeldNext DEF Parsing
<1> QED BY <1>1, <1>2, StillTrade

LEMMA SortRoundTrade ==
  ASSUME TypeInv, OneOwner, NEW x \in Queries, x = me, SortRound PROVE Trade(x)
<1>1. pc \in {"sort", "sort_by"} /\ pc' = pc /\ me' = x /\ UNCHANGED <<q, heaps>>
  BY DEF SortRound
<1>2. HeldKeys(x)' = HeldKeys(x) /\ Held(x)' = Held(x)
  BY <1>1, AllHeld, AllHeldNext DEF Parsing
<1> QED BY <1>1, <1>2, StillTrade

LEMMA SortEndTrade ==
  ASSUME TypeInv, OneOwner, NEW x \in Queries, x = me, SortEnd PROVE Trade(x)
<1>1. pc \in {"sort", "sort_by"} /\ pc' = "idle" /\ UNCHANGED <<q, heaps>>
  BY DEF SortEnd, Ends
<1>2. HeldKeys(x)' = HeldKeys(x) /\ Held(x)' = Held(x)
  BY <1>1, AllHeld, AllHeldNext DEF Parsing
<1> QED BY <1>1, <1>2, StillTrade

\* The strings of slots i and j change places.
Swap(v, y, L, i, j) ==
  /\ Kin(v, y) /\ i \in L /\ j \in L
  /\ v.pairs[i].key = y.pairs[j].key /\ v.pairs[i].value = y.pairs[j].value
  /\ v.pairs[j].key = y.pairs[i].key /\ v.pairs[j].value = y.pairs[i].value
  /\ \A n \in L : n \notin {i, j} => /\ v.pairs[n].key = y.pairs[n].key
                                     /\ v.pairs[n].value = y.pairs[n].value
Alike(v, y, L) == Holdings(v, L, L) = Holdings(y, L, L) /\ Apart(v, L, L)

LEMMA SwapHoldsTheSame ==
  ASSUME NEW y, NEW v, NEW L, NEW i, NEW j, Swap(v, y, L, i, j), Apart(y, L, L)
  PROVE  Alike(v, y, L)
<1> DEFINE across(n) == IF n = i THEN j ELSE IF n = j THEN i ELSE n
<1>1. /\ v.internal = y.internal /\ v.kv_pairs = y.kv_pairs /\ v.pool = y.pool
      /\ v.decode_buffer = y.decode_buffer
  BY DEF Swap, Kin
<1>2. \A n \in L : /\ across(n) \in L /\ across(across(n)) = n
                   /\ v.pairs[n].key = y.pairs[across(n)].key
                   /\ v.pairs[n].value = y.pairs[across(n)].value
                   /\ y.pairs[n].key = v.pairs[across(n)].key
                   /\ y.pairs[n].value = v.pairs[across(n)].value
  BY DEF Swap
<1> HIDE DEF across
<1>3. Holdings(v, L, L) = Holdings(y, L, L)
  <2>1. {v.pairs[n].key : n \in L} = {y.pairs[n].key : n \in L}
    BY <1>2
  <2>2. {v.pairs[n].value : n \in L} = {y.pairs[n].value : n \in L}
    BY <1>2
  <2> QED BY <1>1, <2>1, <2>2 DEF Holdings
<1>4. \A m, n \in L : across(m) = across(n) => m = n
  BY <1>2
<1>5. ASSUME NEW n \in L, Lone(v, v.pairs[n].key)
      PROVE  /\ v.pairs[n].key \notin {v.internal, v.kv_pairs, v.decode_buffer}
             /\ \A m \in L : v.pairs[m].key = v.pairs[n].key => m = n
             /\ \A m \in L : v.pairs[m].value # v.pairs[n].key
  <2>1. Lone(y, y.pairs[across(n)].key) /\ across(n) \in L
    BY <1>1, <1>2, <1>5 DEF Lone
  <2>2. /\ y.pairs[across(n)].key \notin {y.internal, y.kv_pairs, y.decode_buffer}
        /\ \A m \in L : y.pairs[m].key = y.pairs[across(n)].key => m = across(n)
        /\ \A m \in L : y.pairs[m].value # y.pairs[across(n)].key
    BY <2>1 DEF Apart
  <2> QED BY <1>1, <1>2, <1>4, <2>2
<1>6. ASSUME NEW n \in L, Lone(v, v.pairs[n].value)
      PROVE  /\ v.pairs[n].value \notin {v.internal, v.kv_pairs, v.decode_buffer}
             /\ \A m \in L : v.pairs[m].value = v.pairs[n].value => m = n
  <2>1. Lone(y, y.pairs[across(n)].value) /\ across(n) \in L
    BY <1>1, <1>2, <1>6 DEF Lone
  <2>2. /\ y.pairs[across(n)].value \notin {y.internal, y.kv_pairs, y.decode_buffer}
        /\ \A m \in L : y.pairs[m].value = y.pairs[across(n)].value => m = across(n)
    BY <2>1 DEF Apart
  <2> QED BY <1>1, <1>2, <1>4, <2>2
<1>7. Apart(v, L, L)
  BY <1>1, <1>5, <1>6 DEF Apart
<1> QED BY <1>3, <1>7 DEF Alike

\* A step in filter or sort that moves strings from slot to slot.
LEMMA SwapTrade ==
  ASSUME TypeInv, OneOwner, NEW x \in Queries, x = me, Walking, NEW v \in Object, Update(x, v),
         v.count = q[x].count, NEW i, NEW j, Swap(v, q[x], 1..q[x].count, i, j),
         me' = x, pc' \notin {"pair", "value"}, UNCHANGED heaps
  PROVE  Trade(x)
<1> DEFINE L == 1..q[x].count
<1>1. Held(x) = L /\ HeldKeys(x) = L
  BY AllHeld DEF Walking, Parsing
<1>2. q'[x] = v /\ \A z \in Queries : z # x => q'[z] = q[z]
  BY Updated DEF TypeInv, Types
<1>3. Held(x)' = L /\ HeldKeys(x)' = L
  BY <1>2, AllHeldNext DEF Parsing
<1>4. Own(x) = Holdings(q[x], L, L) /\ Apart(q[x], L, L)
  BY <1>1 DEF Own, OneOwner
<1> HIDE DEF L
<1>5. Alike(v, q[x], L)
  BY <1>4, SwapHoldsTheSame DEF L
<1>6. Own(x)' = Own(x) /\ Apart(q[x], HeldKeys(x), Held(x))'
  BY <1>2, <1>3, <1>4, <1>5, OwnNext DEF Alike
<1>7. q'[x].alloc = q[x].alloc
  BY <1>2 DEF Swap, Kin
<1> QED BY <1>2, <1>6, <1>7, QuietTrade

LEMMA SortPairTrade ==
  ASSUME TypeInv, OneOwner, NEW x \in Queries, x = me, SortPair PROVE Trade(x)
<1>1. /\ pc \in {"sort", "sort_by"} /\ index < ThisRound /\ pc' = pc /\ me' = x
      /\ UNCHANGED heaps
      /\ UNCHANGED q \/ \E v : Swapped(v) /\ Update(x, v)
  BY SortEffect
<1>2. CASE UNCHANGED q
  <2>1. HeldKeys(x)' = HeldKeys(x) /\ Held(x)' = Held(x)
    BY <1>1, <1>2, AllHeld, AllHeldNext DEF Parsing
  <2> QED BY <1>1, <1>2, <2>1, StillTrade
<1>3. ASSUME NEW v, Swapped(v), Update(x, v) PROVE Trade(x)
  <2>1. /\ index \in Nat /\ q[x].count \in Nat /\ Len(q[x].pairs) \in Nat
        /\ q[x].count <= Len(q[x].pairs) /\ index + 2 <= q[x].count
    BY <1>1, AtWalk DEF Walking, ThisRound
  <2>2. Swap(v, q[x], 1..q[x].count, index + 1, index + 2)
    <3>1. /\ Kin(v, q[x])
          /\ \A i \in 1..Len(q[x].pairs) :
               v.pairs[i] = IF i = index + 1 THEN q[x].pairs[index + 2]
                            ELSE IF i = index + 2 THEN q[x].pairs[index + 1] ELSE q[x].pairs[i]
      BY <1>3 DEF Swapped
    <3>2. /\ index + 1 \in 1..q[x].count /\ index + 2 \in 1..q[x].count
          /\ index + 1 # index + 2
          /\ \A i \in 1..q[x].count : i \in 1..Len(q[x].pairs)
      BY <2>1
    <3>3. /\ v.pairs[index + 1] = q[x].pairs[index + 2]
          /\ v.pairs[index + 2] = q[x].pairs[index + 1]
          /\ \A i \in 1..q[x].count : i \notin {index + 1, index + 2} => v.pairs[i] = q[x].pairs[i]
      BY <3>1, <3>2
    <3> QED BY <3>1, <3>2, <3>3 DEF Swap
  <2>3. v \in Object /\ v.count = q[x].count
    BY <1>3 DEF Swapped
  <2> QED BY <1>1, <1>3, <2>2, <2>3, SwapTrade DEF Walking
<1> QED BY <1>1, <1>2, <1>3

\* The strings of slot j are gone.
SlotOut(v, y, L, j) ==
  /\ Kin(v, y) /\ j \in L
  /\ v.pairs[j].key = Null /\ v.pairs[j].value = Null
  /\ \A n \in L : n # j => /\ v.pairs[n].key = y.pairs[n].key
                           /\ v.pairs[n].value = y.pairs[n].value
Clears(v, y, L, j) == Holdings(v, L, L) = Holdings(y, L, L) \ Loose(y, {j}) /\ Apart(v, L, L)

LEMMA SlotDropped ==
  ASSUME NEW y, NEW v, NEW L, NEW j, SlotOut(v, y, L, j), Apart(y, L, L)
  PROVE  Clears(v, y, L, j)
<1> DEFINE k == y.pairs[j].key
           w == y.pairs[j].value
<1>1. /\ v.internal = y.internal /\ v.kv_pairs = y.kv_pairs /\ v.pool = y.pool
      /\ v.decode_buffer = y.decode_buffer
  BY DEF SlotOut, Kin
<1>2. Loose(y, {j}) = {k, w} \ {Null, y.pool}
  BY DEF Loose
<1>3. Lone(y, k) => /\ k \notin {y.internal, y.kv_pairs, y.decode_buffer}
                    /\ \A n \in L : n # j => y.pairs[n].key # k /\ y.pairs[n].value # k
  BY DEF SlotOut, Apart
<1>4. Lone(y, w) => /\ w \notin {y.internal, y.kv_pairs, y.decode_buffer}
                    /\ \A n \in L : n # j => y.pairs[n].value # w
  BY DEF SlotOut, Apart
<1>5. Lone(y, w) => \A n \in L : n # j => y.pairs[n].key # w
  BY DEF SlotOut, Apart
<1>6. Holdings(v, L, L) = Holdings(y, L, L) \ Loose(y, {j})
  <2>1. ASSUME NEW b, b \in Holdings(v, L, L)
        PROVE  b \in Holdings(y, L, L) /\ b \notin {k, w} \ {Null, y.pool}
    BY <1>1, <1>3, <1>4, <1>5, <2>1 DEF SlotOut, Holdings, Lone
  <2>2. ASSUME NEW b, b \in Holdings(y, L, L), b \notin {k, w} \ {Null, y.pool}
        PROVE  b \in Holdings(v, L, L)
    BY <1>1, <2>2 DEF SlotOut, Holdings
  <2> QED BY <1>2, <2>1, <2>2
<1>7. Apart(v, L, L)
  BY <1>1 DEF SlotOut, Apart, Lone
<1> QED BY <1>6, <1>7 DEF Clears

LEMMA DroppedTrade ==
  ASSUME TypeInv, OneOwner, NEW x \in Queries, x = me, pc = "filter", index < q[x].count,
         NEW v, Dropped(v), Update(x, v), me' = x, pc' = "filter"
  PROVE  Trade(x)
<1> DEFINE L == 1..q[x].count
           j == index + 1
           S == Loose(q[x], {j})
<1>1. /\ index \in Nat /\ q[x].count \in Nat /\ Len(q[x].pairs) \in Nat
      /\ q[x].count <= Len(q[x].pairs)
  BY AtWalk DEF Walking
<1>2. /\ v \in Object /\ Kin(v, q[x]) /\ v.count = q[x].count
      /\ \A i \in 1..Len(q[x].pairs) : v.pairs[i] = IF i = j THEN EmptyPair ELSE q[x].pairs[i]
      /\ Release(S, q[x].alloc)
  BY DEF Dropped
<1>3. Held(x) = L /\ HeldKeys(x) = L
  BY AllHeld DEF Parsing
<1>4. q'[x] = v /\ \A z \in Queries : z # x => q'[z] = q[z]
  BY <1>2, Updated DEF TypeInv, Types
<1>5. Held(x)' = L /\ HeldKeys(x)' = L
  BY <1>2, <1>4, AllHeldNext DEF Parsing
<1>6. Own(x) = Holdings(q[x], L, L) /\ Apart(q[x], L, L) /\ Own(x) \subseteq Blocks
  BY <1>3, HeldSlots DEF Own, OneOwner, HoldsBlocks
<1>7. SlotOut(v, q[x], L, j)
  <2>1. j \in L /\ L \subseteq 1..Len(q[x].pairs)
    BY <1>1
  <2> HIDE DEF L, j
  <2> QED BY <1>2, <2>1, EmptyPairIsPair DEF SlotOut
<1>8. Clears(v, q[x], L, j)
  <2> HIDE DEF L, j
  <2> QED BY <1>6, <1>7, SlotDropped
<1>9. Own(x)' = Own(x) \ S /\ Apart(q[x], HeldKeys(x), Held(x))'
  BY <1>4, <1>5, <1>6, <1>8, OwnNext DEF Clears
<1>10. S \subseteq Own(x)
  <2>1. Caller \notin S
    <3>1. q[x].pairs[j] \in Pair
      BY <1>1 DEF TypeInv, Types, Object
    <3> QED BY <3>1, BlockIsPositive DEF Pair, Block, Loose, Caller, Null
  <2> QED BY <1>6, <1>7, <2>1 DEF SlotOut, Loose, Holdings
<1>11. \A c \in Blocks : heap'[c] = IF c \in S THEN "free" ELSE heap[c]
  BY <1>2 DEF Release
<1>12. (\A c \in Own(x) : heap[c] = q[x].alloc) => foreign' = foreign
  BY <1>2, <1>10, ReleaseForeign
<1>13. q'[x].alloc = q[x].alloc
  BY <1>2, <1>4 DEF Kin
<1> HIDE DEF S
<1>14. \A c \in Own(x)' : c \in Own(x) /\ heap'[c] = heap[c]
  BY <1>6, <1>9, <1>11
<1>15. \A c \in Blocks : c \notin Own(x)' =>
         heap'[c] = IF c \in Own(x) THEN "free" ELSE heap[c]
  BY <1>9, <1>10, <1>11
<1> QED BY <1>4, <1>9, <1>12, <1>13, <1>14, <1>15 DEF Trade

LEMMA MovedTrade ==
  ASSUME TypeInv, OneOwner, NEW x \in Queries, x = me, pc = "filter", index < q[x].count,
         NEW v, Moved(v), Update(x, v), me' = x, pc' = "filter"
  PROVE  Trade(x)
<1>1. /\ index \in Nat /\ q[x].count \in Nat /\ Len(q[x].pairs) \in Nat /\ write \in Nat
      /\ q[x].count <= Len(q[x].pairs) /\ write <= index
      /\ EmptySlots(q[x], (write + 1)..index)
  <2>1. write <= index /\ EmptySlots(q[x], (write + 1)..index)
    BY DEF TypeInv, Control, Filters
  <2> QED BY <2>1, AtWalk DEF Walking
<1>2. /\ v \in Object /\ Kin(v, q[x]) /\ v.count = q[x].count /\ UNCHANGED heaps
      /\ \A i \in 1..Len(q[x].pairs) :
           v.pairs[i] = IF i = write + 1 THEN q[x].pairs[index + 1]
                        ELSE IF i = index + 1 THEN EmptyPair ELSE q[x].pairs[i]
  BY DEF Moved
<1>3. Swap(v, q[x], 1..q[x].count, write + 1, index + 1)
  <2>1. CASE write = index
    BY <1>1, <1>2, <2>1 DEF Swap
  <2>2. CASE write # index
    <3>1. q[x].pairs[write + 1].key = Null /\ q[x].pairs[write + 1].value = Null
      BY <1>1, <2>2 DEF EmptySlots
    <3>2. /\ write + 1 \in 1..q[x].count /\ index + 1 \in 1..q[x].count
          /\ 1..q[x].count \subseteq 1..Len(q[x].pairs) /\ index + 1 # write + 1
      BY <1>1, <2>2
    <3>3. /\ v.pairs[write + 1] = q[x].pairs[index + 1]
          /\ v.pairs[index + 1].key = Null /\ v.pairs[index + 1].value = Null
          /\ \A n \in 1..q[x].count : n \notin {write + 1, index + 1} => v.pairs[n] = q[x].pairs[n]
      BY <1>2, <3>2, EmptyPairIsPair
    <3> QED BY <1>2, <3>1, <3>2, <3>3 DEF Swap
  <2> QED BY <2>1, <2>2
<1> QED BY <1>2, <1>3, SwapTrade DEF Walking

LEMMA FilterPairTrade ==
  ASSUME TypeInv, OneOwner, NEW x \in Queries, x = me, NEW keep \in BOOLEAN, FilterPair(keep)
  PROVE  Trade(x)
<1>1. /\ pc = "filter" /\ index < q[x].count /\ me' = x /\ pc' = "filter"
      /\ \E v : (Moved(v) \/ Dropped(v)) /\ Update(x, v)
  BY FilterEffect
<1> QED BY <1>1, MovedTrade, DroppedTrade

\* The slots of L that are not in M are empty.
Shortened(v, y, L, M) ==
  /\ Kin(v, y) /\ M \subseteq L
  /\ \A n \in L : n \notin M => y.pairs[n].key = Null /\ y.pairs[n].value = Null
  /\ \A n \in M : v.pairs[n].key = y.pairs[n].key /\ v.pairs[n].value = y.pairs[n].value
Fewer(v, y, L, M) == Holdings(v, M, M) = Holdings(y, L, L) /\ Apart(v, M, M)

LEMMA FewerSlots ==
  ASSUME NEW y, NEW v, NEW L, NEW M, Shortened(v, y, L, M), Apart(y, L, L)
  PROVE  Fewer(v, y, L, M)
<1>1. /\ v.internal = y.internal /\ v.kv_pairs = y.kv_pairs /\ v.pool = y.pool
      /\ v.decode_buffer = y.decode_buffer
  BY DEF Shortened, Kin
<1>2. Holdings(v, M, M) = Holdings(y, L, L)
  BY <1>1 DEF Shortened, Holdings
<1>3. Apart(v, M, M)
  BY <1>1 DEF Shortened, Apart, Lone
<1> QED BY <1>2, <1>3 DEF Fewer

LEMMA FilterEndTrade ==
  ASSUME TypeInv, OneOwner, NEW x \in Queries, x = me, FilterEnd PROVE Trade(x)
<1> DEFINE y    == q[x]
           rest == (write + 1)..y.count
           ps   == Cleared(y.pairs, rest)
           v    == [y EXCEPT !.count = write, !.pairs = ps]
           L    == 1..y.count
           M    == 1..write
<1>1. /\ pc = "filter" /\ index = y.count /\ pc' = "idle"
      /\ Release(Loose(y, rest), y.alloc) /\ Update(x, v)
  BY DEF FilterEnd, Ends
<1>2. /\ y \in Object /\ Fits(y) /\ y.pairs \in Seq(Pair) /\ Len(y.pairs) \in Nat
      /\ write \in Nat /\ write <= y.count /\ y.count \in Nat /\ y.count <= Len(y.pairs)
      /\ EmptySlots(y, rest)
  <2>1. EmptySlots(y, rest)
    BY <1>1 DEF TypeInv, Control, Filters
  <2> QED BY <1>1, <2>1, AtWalk DEF Walking
<1>3. UNCHANGED heaps
  <2>1. Loose(y, rest) = {}
    BY <1>2 DEF Loose, EmptySlots
  <2>2. heap' = heap
    BY <1>1, <2>1 DEF Release, TypeInv, Types
  <2>3. foreign \in BOOLEAN /\ foreign' = (foreign \/ \E b \in {} : heap[b] # y.alloc)
    BY <1>1, <2>1, Zenon DEF Release, TypeInv, Types
  <2>4. foreign' = foreign
    BY <2>3, Zenon
  <2> QED BY <2>2, <2>4 DEF heaps
<1>4. /\ ps \in Seq(Pair) /\ Len(ps) = Len(y.pairs)
      /\ \A i \in 1..Len(y.pairs) : ps[i] = IF i \in rest THEN EmptyPair ELSE y.pairs[i]
  <2> HIDE DEF y, rest
  <2> QED BY <1>2, ClearedSlots
<1>5. M \subseteq L /\ L \subseteq 1..Len(y.pairs) /\ \A i \in L : i \in M <=> i \notin rest
  BY <1>2
<1> HIDE DEF ps
<1>6. v \in Object /\ Kin(v, y) /\ v.pairs = ps /\ v.count = write
  <2> HIDE DEF y
  <2> QED BY <1>2, <1>4 DEF Object, Kin
<1>7. Update(x, v)
  BY <1>1
<1> HIDE DEF v
<1>8. q'[x] = v /\ \A z \in Queries : z # x => q'[z] = q[z]
  BY <1>6, <1>7, Updated DEF TypeInv, Types
<1>9. Held(x) = L /\ HeldKeys(x) = L /\ Held(x)' = M /\ HeldKeys(x)' = M
  BY <1>1, <1>6, <1>8, AllHeld, AllHeldNext DEF Parsing
<1>10. Shortened(v, y, L, M)
  <2> HIDE DEF L, M, rest
  <2> QED BY <1>2, <1>4, <1>5, <1>6 DEF Shortened, EmptySlots
<1>11. Own(x) = Holdings(y, L, L) /\ Apart(y, L, L)
  BY <1>9 DEF Own, OneOwner
<1>12. Fewer(v, y, L, M)
  <2> HIDE DEF y, L, M
  <2> QED BY <1>10, <1>11, FewerSlots
<1>13. Own(x)' = Own(x) /\ Apart(q[x], HeldKeys(x), Held(x))'
  BY <1>8, <1>9, <1>11, <1>12, OwnNext DEF Fewer
<1>14. q'[x].alloc = q[x].alloc
  BY <1>6, <1>8 DEF Kin
<1> QED BY <1>1, <1>3, <1>8, <1>13, <1>14, QuietTrade
-----------------------------------------------------------------------------
(* Ownership: the rest of init and clone. *)

LEMMA InitPairsTrade ==
  ASSUME TypeInv, OneOwner, NEW x \in Queries, x = me, InitPairs PROVE Trade(x)
<1> DEFINE y == q[x]
<1>1. pc = "init_pairs" /\ y \in Object /\ Begun(y)
  BY PairsEffect
<1>2. Held(x) = {} /\ HeldKeys(x) = {}
  <2>1. y.count = 0
    BY <1>1 DEF Begun
  <2> QED BY <1>1, <2>1, AllHeld DEF Parsing
<1>3. y.internal # Null /\ y.internal # Caller /\ y.alloc \in Allocators
  BY <1>1, BlockIsPositive DEF Begun, Object, Block, Caller, Null
<1>4. Own(x) = {y.internal}
  BY <1>1, <1>2, <1>3 DEF Own, Holdings, Begun
<1>5. CASE Release({y.internal}, y.alloc) /\ Update(x, Zero) /\ Ends("MEMORY_ERROR")
  BY <1>4, <1>5, GoneTrade DEF Ends
<1>6. ASSUME NEW b, NEW v, PairsMade(b, v) PROVE Trade(x)
  <2>1. /\ Allocate(y.alloc, b) /\ b \in Blocks /\ v \in Object /\ Update(x, v)
        /\ v.alloc = y.alloc /\ v.internal = y.internal /\ v.kv_pairs = b
        /\ v.pool = Null /\ v.decode_buffer = Null /\ EmptySlots(v, 1..v.count)
        /\ pc' = "idle" \/ (pc' = "clone_key" /\ me' = x)
    BY <1>6 DEF PairsMade, Ends, locals
  <2>2. q'[x] = v /\ \A z \in Queries : z # x => q'[z] = q[z]
    BY <2>1, Updated DEF TypeInv, Types
  <2>3. Held(x)' = 1..v.count /\ HeldKeys(x)' = 1..v.count
    BY <2>1, <2>2, AllHeldNext DEF Parsing
  <2>4. b # y.internal /\ b # Null /\ b # Caller
    <3>1. b \notin Own(x) /\ b \notin {Null, Caller}
      BY <1>3, <2>1, FreshBlock DEF Allocate
    <3> QED BY <1>4, <3>1
  <2>5. /\ Holdings(v, 1..v.count, 1..v.count)
             = {v.internal, v.kv_pairs, v.pool, v.decode_buffer} \ {Null, Caller}
        /\ Apart(v, 1..v.count, 1..v.count) <=>
             /\ v.internal # Null => v.internal \notin {v.kv_pairs, v.pool, v.decode_buffer}
             /\ v.kv_pairs # Null => v.kv_pairs \notin {v.pool, v.decode_buffer}
             /\ v.pool # Null => v.pool # v.decode_buffer
    BY <2>1, BareHoldings DEF EmptySlots
  <2>6. Own(x)' = Own(x) \cup {b} /\ Apart(q[x], HeldKeys(x), Held(x))'
    BY <1>3, <1>4, <2>1, <2>2, <2>3, <2>4, <2>5, OwnNext
  <2> QED BY <1>3, <2>1, <2>2, <2>6, GainTrade
<1> QED BY <1>5, <1>6, PairsEffect

\* What is known when a string is to be copied.
LEMMA CopyHoldings ==
  ASSUME TypeInv, OneOwner, NEW x \in Queries, x = me, pc \in {"clone_key", "clone_value"},
         index < q[x].count, NEW v, NEW s, NEW b, Copied(v, s, b),
         pc' \in {"clone_key", "clone_value"}
  PROVE  LET L == 1..q[x].count
             j == index + 1
         IN /\ Held(x) = L /\ HeldKeys(x) = L /\ Held(x)' = L /\ HeldKeys(x)' = L
            /\ Own(x) = Holdings(q[x], L, L) /\ Apart(q[x], L, L)
            /\ q'[x] = v /\ \A z \in Queries : z # x => q'[z] = q[z]
            /\ v.alloc = q[x].alloc /\ q[x].alloc \in Allocators /\ Allocate(q[x].alloc, b)
            /\ b \notin Own(x) /\ b \notin {Null, Caller} /\ me' = x
            /\ j \in L /\ L \cup {j} = L /\ Kin(v, q[x]) /\ v.pairs[j] = s
            /\ \A i \in L : i # j => v.pairs[i] = q[x].pairs[i]
<1> DEFINE L == 1..q[x].count
           j == index + 1
<1>1. /\ q[x].alloc \in Allocators /\ index \in Nat /\ q[x].count \in Nat
      /\ q[x].pairs \in Seq(Pair) /\ q[x].count <= Len(q[x].pairs)
      /\ j \in 1..Len(q[x].pairs)
  BY AtCopy DEF Object
<1>2. /\ v \in Object /\ Kin(v, q[x]) /\ v.count = q[x].count /\ b \in Blocks
      /\ s \in Pair /\ v.pairs = [q[x].pairs EXCEPT ![j] = s]
      /\ Allocate(q[x].alloc, b) /\ Update(x, v) /\ me' = x
  BY DEF Copied
<1>3. q'[x] = v /\ \A z \in Queries : z # x => q'[z] = q[z]
  BY <1>2, Updated DEF TypeInv, Types
<1>4. Held(x) = L /\ HeldKeys(x) = L /\ Held(x)' = L /\ HeldKeys(x)' = L
  BY <1>2, <1>3, AllHeld, AllHeldNext DEF Parsing
<1>5. Own(x) = Holdings(q[x], L, L) /\ Apart(q[x], L, L)
  BY <1>4 DEF Own, OneOwner
<1>6. b \notin Own(x) /\ b \notin {Null, Caller}
  BY <1>1, <1>2, FreshBlock DEF Allocate
<1>7. j \in L /\ L \cup {j} = L
  BY <1>1
<1>8. v.pairs[j] = s /\ \A i \in L : i # j => v.pairs[i] = q[x].pairs[i]
  BY <1>1, <1>2
<1>9. v.alloc = q[x].alloc
  BY <1>2 DEF Kin
<1> QED BY <1>1, <1>2, <1>3, <1>4, <1>5, <1>6, <1>7, <1>8, <1>9

LEMMA CloneKeyTrade ==
  ASSUME TypeInv, OneOwner, NEW x \in Queries, x = me, CloneKey PROVE Trade(x)
<1> DEFINE y == q[x]
           j == index + 1
           L == 1..y.count
<1>1. pc = "clone_key" /\ index < y.count
  BY CopyKeyEffect
<1>2. ASSUME NEW v, NEW s, KeyCopied(v, s) PROVE Trade(x)
  <2>1. /\ Copied(v, s, s.key) /\ s.value = y.pairs[j].value /\ pc' = "clone_value"
    BY <1>2 DEF KeyCopied
  <2>2. /\ Held(x)' = L /\ HeldKeys(x)' = L
        /\ Own(x) = Holdings(y, L, L) /\ Apart(y, L, L)
        /\ q'[x] = v /\ \A z \in Queries : z # x => q'[z] = q[z]
        /\ v.alloc = y.alloc /\ y.alloc \in Allocators /\ Allocate(y.alloc, s.key)
        /\ s.key \notin Own(x) /\ s.key \notin {Null, Caller} /\ me' = x
        /\ j \in L /\ L \cup {j} = L /\ Kin(v, y) /\ v.pairs[j] = s
        /\ \A i \in L : i # j => v.pairs[i] = y.pairs[i]
    BY <1>1, <2>1, CopyHoldings
  <2>3. y.pairs[j].key = Null
    <3>1. EmptySlots(y, (index + 1)..y.count)
      BY <1>1 DEF TypeInv, Control, Clones
    <3>2. j \in (index + 1)..y.count
      BY <1>1, <2>2, AtCopy
    <3> QED BY <3>1, <3>2 DEF EmptySlots
  <2>4. KeyIn(v, y, L, L, j)
    <3> HIDE DEF y, j, L
    <3> QED BY <2>1, <2>2, <2>3 DEF KeyIn
  <2>5. Gains(v, L, L, y, L, L, s.key)
    <3> HIDE DEF y, j, L
    <3>1. Gains(v, L \cup {j}, L, y, L, L, v.pairs[j].key)
      BY <2>2, <2>4, KeyGained
    <3> QED BY <2>2, <3>1
  <2>6. Own(x)' = Own(x) \cup {s.key} /\ Apart(q[x], HeldKeys(x), Held(x))'
    BY <2>2, <2>5, OwnNext DEF Gains
  <2> QED BY <2>2, <2>6, GainTrade
<1> QED BY <1>1, <1>2, CopyKeyEffect, CloneFailsTrade

LEMMA CloneValueTrade ==
  ASSUME TypeInv, OneOwner, NEW x \in Queries, x = me, CloneValue PROVE Trade(x)
<1> DEFINE y == q[x]
           j == index + 1
           L == 1..y.count
<1>1. pc = "clone_value" /\ index < y.count
  BY CopyValueEffect
<1>2. ASSUME NEW v, NEW s, ValueCopied(v, s) PROVE Trade(x)
  <2>1. /\ Copied(v, s, s.value) /\ s.key = y.pairs[j].key /\ pc' = "clone_key"
    BY <1>2 DEF ValueCopied
  <2>2. /\ Held(x)' = L /\ HeldKeys(x)' = L
        /\ Own(x) = Holdings(y, L, L) /\ Apart(y, L, L)
        /\ q'[x] = v /\ \A z \in Queries : z # x => q'[z] = q[z]
        /\ v.alloc = y.alloc /\ y.alloc \in Allocators /\ Allocate(y.alloc, s.value)
        /\ s.value \notin Own(x) /\ s.value \notin {Null, Caller} /\ me' = x
        /\ j \in L /\ L \cup {j} = L /\ Kin(v, y) /\ v.pairs[j] = s
        /\ \A i \in L : i # j => v.pairs[i] = y.pairs[i]
    BY <1>1, <2>1, CopyHoldings
  <2>3. y.pairs[j].value = Null
    BY <1>1 DEF TypeInv, Control, Clones
  <2>4. ValueIn(v, y, L, L, j)
    <3> HIDE DEF y, j, L
    <3> QED BY <2>1, <2>2, <2>3 DEF ValueIn
  <2>5. Gains(v, L, L, y, L, L, s.value)
    <3> HIDE DEF y, j, L
    <3>1. Gains(v, L, L \cup {j}, y, L, L, v.pairs[j].value)
      BY <2>2, <2>4, ValueGained
    <3> QED BY <2>2, <3>1
  <2>6. Own(x)' = Own(x) \cup {s.value} /\ Apart(q[x], HeldKeys(x), Held(x))'
    BY <2>2, <2>5, OwnNext DEF Gains
  <2> QED BY <2>2, <2>6, GainTrade
<1> QED BY <1>1, <1>2, CopyValueEffect, CloneFailsTrade

LEMMA CloneBufferTrade ==
  ASSUME TypeInv, OneOwner, NEW x \in Queries, x = me, CloneBuffer PROVE Trade(x)
<1> DEFINE L == 1..q[x].count
<1>1. /\ pc = "clone_key" /\ q[x].alloc \in Allocators /\ q[x].decode_buffer = Null
  BY CopyBufferEffect, AtCopy
<1>2. Held(x) = L /\ HeldKeys(x) = L
  BY <1>1, AllHeld DEF Parsing
<1>3. CASE UNCHANGED <<q, heaps>> /\ Ends("OK")
  <2>1. /\ pc' = "idle" /\ HeldKeys(x)' = HeldKeys(x) /\ Held(x)' = Held(x)
    BY <1>2, <1>3, AllHeldNext DEF Ends, Parsing
  <2> QED BY <1>3, <2>1, StillTrade
<1>4. CASE CloneFails
  BY <1>1, <1>4, CloneFailsTrade
<1>5. ASSUME NEW v, NEW b, BufferCopied(v, b), Ends("OK") PROVE Trade(x)
  <2>1. /\ v \in Object /\ v.decode_buffer = b
        /\ v.count = q[x].count /\ v.pairs = q[x].pairs
        /\ v.alloc = q[x].alloc /\ v.internal = q[x].internal /\ v.kv_pairs = q[x].kv_pairs
        /\ v.pool = q[x].pool
        /\ Allocate(q[x].alloc, b) /\ Update(x, v) /\ pc' = "idle"
    BY <1>5 DEF BufferCopied, Ends
  <2>2. q'[x] = v /\ \A z \in Queries : z # x => q'[z] = q[z]
    BY <2>1, Updated DEF TypeInv, Types
  <2>3. Held(x)' = L /\ HeldKeys(x)' = L
    BY <2>1, <2>2, AllHeldNext DEF Parsing
  <2>4. Own(x) = Holdings(q[x], L, L) /\ Apart(q[x], L, L)
    BY <1>2 DEF Own, OneOwner
  <2>5. b \notin Own(x) /\ b \notin {Null, Caller}
    BY <1>1, <2>1, FreshBlock DEF Allocate
  <2>6. Holdings(v, L, L) = Holdings(q[x], L, L) \cup {b} /\ Apart(v, L, L)
    <3> HIDE DEF L
    <3> QED BY <1>1, <2>1, <2>4, <2>5, BufferGained
  <2>7. Own(x)' = Own(x) \cup {b} /\ Apart(q[x], HeldKeys(x), Held(x))'
    BY <2>2, <2>3, <2>4, <2>6, OwnNext
  <2> QED BY <1>1, <2>1, <2>2, <2>7, GainTrade
<1> QED BY <1>3, <1>4, <1>5, CopyBufferEffect
-----------------------------------------------------------------------------
(* Ownership, at every step. *)

LEMMA StepTrades ==
  ASSUME TypeInv, OneOwner, Next PROVE \E x \in Queries : Trade(x)
<1>1. CASE Call
  BY <1>1, InitTrade, ParseTrade, ResetTrade, FreeTrade, FilterStartTrade, SortStartTrade,
     CloneTrade, SetAllocatorTrade DEF Call
<1>2. CASE Step
  <2>1. PICK x \in Queries : x = me
    BY <1>2 DEF Step, TypeInv, Control
  <2>2. Trade(x)
    BY <1>2, <2>1, InitPairsTrade, DecodeTrade, PoolTrade, SkipTrade, KeyTrade,
       ValueTrade, ParseEndTrade, FilterPairTrade, FilterEndTrade, SortPairTrade,
       SortRoundTrade, SortEndTrade, CloneKeyTrade, CloneValueTrade, CloneBufferTrade DEF Step
  <2> QED BY <2>2
<1> QED BY <1>1, <1>2 DEF Next

LEMMA InitOwned == Init => OneOwner /\ FromItsAllocator
<1> SUFFICES ASSUME Init PROVE OneOwner /\ FromItsAllocator
  OBVIOUS
<1>1. ASSUME NEW x \in Queries
      PROVE  Own(x) = {} /\ Apart(q[x], HeldKeys(x), Held(x))
  <2>1. q[x] = Zero /\ ~Parsing(x) /\ Zero.count = 0
    BY DEF Init, Parsing, Zero
  <2>2. Held(x) = {} /\ HeldKeys(x) = {}
    BY <2>1, AllHeld
  <2> QED BY <2>1, <2>2, ZeroHoldsNothing DEF Own
<1>2. \A b \in Blocks : heap[b] = "free"
  BY DEF Init
<1>3. ~foreign
  BY DEF Init
<1> QED BY <1>1, <1>2, <1>3 DEF OneOwner, FromItsAllocator

LEMMA StutterOwned ==
  ASSUME UNCHANGED vars PROVE (OneOwner' <=> OneOwner) /\ (FromItsAllocator' <=> FromItsAllocator)
<1>1. \A x : Held(x)' = Held(x) /\ HeldKeys(x)' = HeldKeys(x) /\ Own(x)' = Own(x)
  BY DEF vars, Held, HeldKeys, Parsing, Own, Holdings
<1>2. \A x : Apart(q[x], HeldKeys(x), Held(x))' <=> Apart(q[x], HeldKeys(x), Held(x))
  BY <1>1 DEF vars, Apart, Lone
<1>3. q' = q /\ heap' = heap
  BY DEF vars
<1>4. foreign' <=> foreign
  BY Zenon DEF vars
<1>5. OneOwner' <=> OneOwner
  BY <1>1, <1>2, <1>3 DEF OneOwner
<1>6. FromItsAllocator' <=> FromItsAllocator
  BY <1>1, <1>3, <1>4 DEF FromItsAllocator
<1> QED BY <1>5, <1>6

LEMMA StepOwned == MemoryInv /\ [Next]_vars => MemoryInv'
<1> SUFFICES ASSUME MemoryInv, [Next]_vars PROVE MemoryInv'
  OBVIOUS
<1>1. TypeInv'
  BY StepTyped DEF MemoryInv
<1>2. CASE Next
  <2>1. PICK x \in Queries : Trade(x)
    BY <1>2, StepTrades DEF MemoryInv
  <2> QED BY <1>1, <2>1, TradeKeepsOwners DEF MemoryInv
<1>3. CASE UNCHANGED vars
  BY <1>1, <1>3, StutterOwned DEF MemoryInv
<1> QED BY <1>2, <1>3

LEMMA MemoryInvHolds == Spec => []MemoryInv
<1>1. Init => MemoryInv
  BY InitTyped, InitOwned DEF MemoryInv
<1> QED BY <1>1, StepOwned, PTL DEF Spec

\* The places of an object and what it holds.
LEMMA PlaceKinds ==
  ASSUME NEW x, NEW p \in Places(x)
  PROVE  LET y == q[x] IN
         /\ p[4] \notin {Null, Caller} /\ p[4] \in Own(x)
         /\ \/ p = <<x, 0, "internal", y.internal>>
            \/ p = <<x, 0, "kv_pairs", y.kv_pairs>>
            \/ p = <<x, 0, "pool", y.pool>>
            \/ p = <<x, 0, "buffer", y.decode_buffer>>
            \/ \E i \in HeldKeys(x) : /\ p = <<x, i, "key", y.pairs[i].key>>
                                      /\ Lone(y, y.pairs[i].key)
            \/ \E i \in Held(x) : /\ p = <<x, i, "value", y.pairs[i].value>>
                                  /\ Lone(y, y.pairs[i].value)
<1> DEFINE y == q[x]
<1>1. p[4] \notin {Null, Caller}
  BY DEF Places
<1>2. \/ p \in {<<x, 0, "internal", y.internal>>, <<x, 0, "kv_pairs", y.kv_pairs>>,
               <<x, 0, "pool", y.pool>>, <<x, 0, "buffer", y.decode_buffer>>}
      \/ \E i \in HeldKeys(x) : y.pairs[i].key # y.pool /\ p = <<x, i, "key", y.pairs[i].key>>
      \/ \E i \in Held(x) : y.pairs[i].value # y.pool /\ p = <<x, i, "value", y.pairs[i].value>>
  BY DEF Places
<1> HIDE DEF y
<1>3. p[4] \in ({y.internal, y.kv_pairs, y.pool, y.decode_buffer}
                 \cup {y.pairs[i].key : i \in HeldKeys(x)}
                 \cup {y.pairs[i].value : i \in Held(x)}) \ {Null, Caller}
  BY <1>1, <1>2
<1>4. p[4] \in Own(x)
  BY <1>3 DEF Own, Holdings, y
<1>5. ASSUME NEW i \in HeldKeys(x), y.pairs[i].key # y.pool, p = <<x, i, "key", y.pairs[i].key>>
      PROVE  Lone(y, y.pairs[i].key)
  BY <1>1, <1>5 DEF Lone
<1>6. ASSUME NEW i \in Held(x), y.pairs[i].value # y.pool, p = <<x, i, "value", y.pairs[i].value>>
      PROVE  Lone(y, y.pairs[i].value)
  BY <1>1, <1>6 DEF Lone
<1> QED BY <1>1, <1>2, <1>4, <1>5, <1>6 DEF y

LEMMA HeldHasPlace ==
  ASSUME NEW x, NEW b \in Own(x) PROVE \E p \in Places(x) : p[4] = b
<1> DEFINE y == q[x]
<1>1. b \notin {Null, Caller}
  BY DEF Own, Holdings
<1>2. CASE b = y.internal
  <2>1. <<x, 0, "internal", y.internal>> \in Places(x)
    BY <1>1, <1>2 DEF Places
  <2> QED BY <1>2, <2>1
<1>3. CASE b = y.kv_pairs
  <2>1. <<x, 0, "kv_pairs", y.kv_pairs>> \in Places(x)
    BY <1>1, <1>3 DEF Places
  <2> QED BY <1>3, <2>1
<1>4. CASE b = y.pool
  <2>1. <<x, 0, "pool", y.pool>> \in Places(x)
    BY <1>1, <1>4 DEF Places
  <2> QED BY <1>4, <2>1
<1>5. CASE b = y.decode_buffer
  <2>1. <<x, 0, "buffer", y.decode_buffer>> \in Places(x)
    BY <1>1, <1>5 DEF Places
  <2> QED BY <1>5, <2>1
<1>6. ASSUME b # y.pool, NEW i \in HeldKeys(x), b = y.pairs[i].key
      PROVE  \E p \in Places(x) : p[4] = b
  <2>1. <<x, i, "key", y.pairs[i].key>> \in Places(x)
    BY <1>1, <1>6 DEF Places
  <2> QED BY <1>6, <2>1
<1>7. ASSUME b # y.pool, NEW i \in Held(x), b = y.pairs[i].value
      PROVE  \E p \in Places(x) : p[4] = b
  <2>1. <<x, i, "value", y.pairs[i].value>> \in Places(x)
    BY <1>1, <1>7 DEF Places
  <2> QED BY <1>7, <2>1
<1> QED BY <1>2, <1>3, <1>4, <1>5, <1>6, <1>7 DEF Own, Holdings

LEMMA PlacesApart ==
  ASSUME NEW x, Apart(q[x], HeldKeys(x), Held(x)),
         NEW p \in Places(x), NEW r \in Places(x), p[4] = r[4]
  PROVE  p = r
<1> DEFINE y == q[x]
<1>1. /\ y.internal # Null => y.internal \notin {y.kv_pairs, y.pool, y.decode_buffer}
      /\ y.kv_pairs # Null => y.kv_pairs \notin {y.pool, y.decode_buffer}
      /\ y.pool # Null => y.pool # y.decode_buffer
      /\ \A i \in HeldKeys(x) : Lone(y, y.pairs[i].key) =>
           /\ y.pairs[i].key \notin {y.internal, y.kv_pairs, y.pool, y.decode_buffer}
           /\ \A j \in HeldKeys(x) : y.pairs[j].key = y.pairs[i].key => j = i
           /\ \A j \in Held(x) : y.pairs[j].value # y.pairs[i].key
      /\ \A i \in Held(x) : Lone(y, y.pairs[i].value) =>
           /\ y.pairs[i].value \notin {y.internal, y.kv_pairs, y.pool, y.decode_buffer}
           /\ \A j \in Held(x) : y.pairs[j].value = y.pairs[i].value => j = i
  BY DEF Apart, Lone
<1>2. /\ p[4] # Null
      /\ \/ r \in {<<x, 0, "internal", y.internal>>, <<x, 0, "kv_pairs", y.kv_pairs>>,
                  <<x, 0, "pool", y.pool>>, <<x, 0, "buffer", y.decode_buffer>>}
         \/ \E i \in HeldKeys(x) : r = <<x, i, "key", y.pairs[i].key>> /\ Lone(y, y.pairs[i].key)
         \/ \E i \in Held(x) : r = <<x, i, "value", y.pairs[i].value>> /\ Lone(y, y.pairs[i].value)
  BY PlaceKinds
<1> HIDE DEF y
<1>3. ASSUME NEW i \in HeldKeys(x), p = <<x, i, "key", y.pairs[i].key>>, Lone(y, y.pairs[i].key)
      PROVE  p = r
  BY <1>1, <1>2, <1>3
<1>4. ASSUME NEW i \in Held(x), p = <<x, i, "value", y.pairs[i].value>>, Lone(y, y.pairs[i].value)
      PROVE  p = r
  BY <1>1, <1>2, <1>4
<1>5. CASE p = <<x, 0, "internal", y.internal>>
  BY <1>1, <1>2, <1>5
<1>6. CASE p = <<x, 0, "kv_pairs", y.kv_pairs>>
  BY <1>1, <1>2, <1>6
<1>7. CASE p = <<x, 0, "pool", y.pool>>
  BY <1>1, <1>2, <1>7
<1>8. CASE p = <<x, 0, "buffer", y.decode_buffer>>
  BY <1>1, <1>2, <1>8
<1> QED BY <1>3, <1>4, <1>5, <1>6, <1>7, <1>8, PlaceKinds DEF y

LEMMA OwnersHaveBlocks == MemoryInv => EveryBlockOwnedOnce
<1> SUFFICES ASSUME MemoryInv PROVE EveryBlockOwnedOnce
  OBVIOUS
<1> DEFINE refs == UNION {Places(x) : x \in Queries}
<1>1. \A x \in Queries : Own(x) \subseteq Blocks
  BY HeldSlots DEF MemoryInv, HoldsBlocks
<1>2. {r[4] : r \in refs} = {b \in Blocks : heap[b] # "free"}
  <2>1. ASSUME NEW r \in refs PROVE r[4] \in Blocks /\ heap[r[4]] # "free"
    <3>1. PICK x \in Queries : r \in Places(x)
      OBVIOUS
    <3>2. r[4] \in Own(x)
      BY <3>1, PlaceKinds
    <3> QED BY <1>1, <3>2 DEF MemoryInv, OneOwner
  <2>2. ASSUME NEW b \in Blocks, heap[b] # "free" PROVE \E r \in refs : r[4] = b
    <3>1. PICK x \in Queries : b \in Own(x)
      BY <2>2 DEF MemoryInv, OneOwner
    <3>2. PICK p \in Places(x) : p[4] = b
      BY <3>1, HeldHasPlace
    <3> QED BY <3>2
  <2> HIDE DEF refs
  <2> QED BY <2>1, <2>2
<1>3. ASSUME NEW r \in refs, NEW s \in refs, r[4] = s[4] PROVE r = s
  <2>1. PICK x \in Queries : r \in Places(x)
    OBVIOUS
  <2>2. PICK y \in Queries : s \in Places(y)
    OBVIOUS
  <2>3. r[4] \in Own(x) /\ r[4] \in Own(y)
    BY <1>3, <2>1, <2>2, PlaceKinds
  <2>4. x = y /\ Apart(q[x], HeldKeys(x), Held(x))
    BY <2>3 DEF MemoryInv, OneOwner
  <2> QED BY <1>3, <2>1, <2>2, <2>4, PlacesApart
<1> HIDE DEF refs
<1>4. \A r, s \in refs : r[4] = s[4] => r = s
  BY <1>3
<1> QED BY <1>2, <1>4 DEF EveryBlockOwnedOnce, refs

(* No leak, no second free, no dangling string: at every step of every call, whatever *)
(* allocation fails, each block that is not free has exactly one owner and nothing    *)
(* points to a free one (llquery.c:238-293, 434-488, 503-555, 687-778, 845-963).      *)
THEOREM OneOwnerEach == Spec => []EveryBlockOwnedOnce
BY MemoryInvHolds, OwnersHaveBlocks, PTL

(* As long as the application does not change the allocator of an object, which is    *)
(* what llquery_set_allocator gets wrong, every block goes back to the allocator that *)
(* made it (llquery.c:503-555, 908-963).                                              *)
THEOREM BlocksGoHome == ASSUME NoSetAllocator PROVE Spec => []FreedByItsAllocator
<1> DEFINE I == MemoryInv /\ FromItsAllocator
<1>1. Init => I
  BY InitTyped, InitOwned DEF MemoryInv
<1>2. I /\ [Next]_vars => I'
  <2> SUFFICES ASSUME MemoryInv, FromItsAllocator, [Next]_vars PROVE MemoryInv' /\ FromItsAllocator'
    OBVIOUS
  <2>1. MemoryInv'
    BY StepOwned
  <2>2. CASE Next
    <3>1. PICK x \in Queries : Trade(x)
      BY <2>2, StepTrades DEF MemoryInv
    <3> QED BY <2>1, <3>1, TradeKeepsAllocators DEF MemoryInv
  <2>3. CASE UNCHANGED vars
    BY <2>1, <2>3, StutterOwned
  <2> QED BY <2>1, <2>2, <2>3
<1>3. I => FreedByItsAllocator
  BY DEF FromItsAllocator, FreedByItsAllocator
<1> QED BY <1>1, <1>2, <1>3, PTL DEF Spec
-----------------------------------------------------------------------------
(* The pool, from step to step. *)

LEMMA ParsePool ==
  ASSUME TypeInv, NEW x \in Queries, NEW t \in Texts, NEW size \in BufferSizes,
         llquery_parse_ex(x, t, size)
  PROVE  PoolInv'
<1> DEFINE w == Unquestioned(t)
<1>1. w \in Seq(Int) /\ Len(w) \in Nat
  <2>1. t \in Seq(0..255)
    BY QueryAssumptions
  <2>2. 0..255 \subseteq Int
    OBVIOUS
  <2>3. t \in Seq(Int)
    BY <2>1, <2>2, SeqMonotonic
  <2>4. w \in Seq(Int)
    BY <2>3, UnquestionedLength
  <2> QED BY <2>4
<1>2. Len(decode_in_place(w)) <= Len(w)
  BY <1>1, DecodeInPlaceLength
<1> HIDE DEF w
<1>3. \/ pc' = "idle"
      \/ pc' \in {"pool", "decode"} /\ len' = Len(w) /\ text' \in {w, decode_in_place(w)}
  BY DEF llquery_parse_ex, Goes, Ends, w
<1> QED BY <1>1, <1>2, <1>3 DEF PoolInv

LEMMA DecodePool == ASSUME TypeInv, PoolInv, DecodeBuffer PROVE PoolInv'
<1>1. pc = "decode" /\ text \in Seq(Int) /\ Len(text) <= len /\ len \in Nat
  BY DEF DecodeBuffer, PoolInv, TypeInv, Types
<1>2. Len(text) \in Nat /\ Len(decode_in_place(text)) \in Nat
      /\ Len(decode_in_place(text)) <= Len(text)
  BY <1>1, DecodeInPlaceLength
<1>3. pc' = "idle" \/ (pc' = "pool" /\ text' = decode_in_place(text) /\ len' = len)
  BY DEF DecodeBuffer, Goes, Ends
<1> QED BY <1>1, <1>2, <1>3 DEF PoolInv

LEMMA StringPoolPool == ASSUME TypeInv, PoolInv, StringPool PROVE PoolInv'
<1>1. /\ pc = "pool" /\ me \in Queries /\ q[me] \in Object /\ Fits(q[me]) /\ q[me].pool = Null
      /\ cur = 0 /\ Len(text) <= len /\ len \in Nat
  BY DEF StringPool, PoolInv, TypeInv, Types, Control, Parses
<1>2. pc' = "pair" /\ UNCHANGED <<me, other, text, len, cur, index, write>>
  BY DEF StringPool, Goes, locals
<1>3. CASE UNCHANGED q
  <2>1. q'[me].pool_used = 0
    BY <1>1, <1>3 DEF Fits, Object
  <2> QED BY <1>1, <1>2, <1>3, <2>1 DEF PoolInv
<1>4. ASSUME NEW b \in Blocks,
             Update(me, [q[me] EXCEPT !.pool = b, !.pool_used = 0,
                                      !.pool_size = estimate_string_size(len)])
      PROVE  PoolInv'
  <2>1. q'[me].pool_used = 0 /\ q'[me].pool_size = 2 * len + PoolPad
    BY <1>1, <1>4 DEF Update, Object, TypeInv, Types, estimate_string_size
  <2> QED BY <1>1, <1>2, <2>1 DEF PoolInv
<1> QED BY <1>3, <1>4 DEF StringPool

\* What is known at a turn of the loop.
LEMMA PoolTurn ==
  ASSUME TypeInv, PoolInv, pc \in {"pair", "value"}
  PROVE  /\ me \in Queries /\ q[me] \in Object /\ Fits(q[me])
         /\ q[me].pool_used \in Nat /\ q[me].pool_size \in Nat /\ len \in Nat
         /\ text \in Seq(Int) /\ Len(text) \in Nat /\ cur \in 0..Len(text) /\ Len(text) <= len
         /\ q[me].pool # Null => q[me].pool_size = 2 * len + PoolPad
         /\ Start \in cur..Len(text)
<1>1. /\ me \in Queries /\ q[me] \in Object /\ Fits(q[me])
      /\ text \in Seq(Int) /\ Len(text) \in Nat /\ cur \in 0..Len(text)
      /\ Start \in cur..Len(text)
  BY AtTurn
<1>2. q[me].pool_used \in Nat /\ q[me].pool_size \in Nat /\ len \in Nat
  BY <1>1 DEF Object, TypeInv, Types
<1>3. Len(text) <= len /\ (q[me].pool # Null => q[me].pool_size = 2 * len + PoolPad)
  BY DEF PoolInv
<1> QED BY <1>1, <1>2, <1>3

LEMMA SkipPool == ASSUME TypeInv, PoolInv, SkipPair PROVE PoolInv'
<1>1. /\ pc = "pair" /\ cur < Len(text) /\ pc' = "pair"
      /\ UNCHANGED <<q, heaps, me, other, text, len, index, write>>
      /\ cur' = IF Start < Len(text) THEN PairEnd(text, Start) ELSE Len(text)
  BY DEF SkipPair, MorePairs, Goes
<1>2. q[me].pool_used <= 2 * cur
  <2>1. cur \in Nat
    BY <1>1, PoolTurn
  <2> QED BY <1>1, <2>1 DEF PoolInv
<1>3. cur' \in cur..Len(text)
  <2>1. Start \in 0..Len(text) /\ text \in Seq(Int)
    BY <1>1, PoolTurn
  <2>2. PairEnd(text, Start) \in Start..Len(text)
    BY <2>1, PairParts
  <2> QED BY <1>1, <2>2, PoolTurn
<1>4. q[me].pool_used <= 2 * cur'
  BY <1>1, <1>2, <1>3, PoolTurn
<1> QED BY <1>1, <1>3, <1>4, PoolTurn DEF PoolInv

\* A key is found, and as far as it is counted it fits.
LEMMA KeyRoom ==
  ASSUME TypeInv, PoolInv, pc = "pair", AtPair
  PROVE  LET n == Len(Key(text, Start)) IN
         /\ n \in Nat /\ Key(text, Start) # <<>>
         /\ q[me].pool_used <= 2 * Start
         /\ q[me].pool = Null \/ PoolHolds(q[me], n)
<1>1. /\ cur < Len(text) /\ Start < Len(text) /\ Key(text, Start) # <<>>
      /\ Start \in cur..Len(text) /\ cur \in Nat /\ Len(text) \in Nat /\ text \in Seq(Int)
  BY PoolTurn DEF AtPair, MorePairs
<1>2. q[me].pool_used <= 2 * Start
  <2>1. q[me].pool_used <= 2 * cur
    BY <1>1 DEF PoolInv
  <2> QED BY <1>1, <2>1, PoolTurn
<1> DEFINE n == Len(Key(text, Start))
<1>3. n \in Nat /\ n <= Len(text) - Start
  <2>1. Start \in 0..Len(text)
    BY <1>1
  <2>2. KeyEnd(text, Start) \in Start..Len(text) /\ n = KeyEnd(text, Start) - Start
    BY <1>1, <2>1, PairParts
  <2> HIDE DEF n
  <2> QED BY <1>1, <2>1, <2>2
<1> HIDE DEF n
<1>4. q[me].pool # Null => q[me].pool_used + n + 1 <= q[me].pool_size
  <2> SUFFICES ASSUME q[me].pool # Null PROVE q[me].pool_used + n + 1 <= 2 * len + PoolPad
    BY PoolTurn
  <2>1. PoolPad \in Nat /\ PoolPad >= 1
    BY QueryAssumptions
  <2>2. /\ q[me].pool_used \in Nat /\ len \in Nat /\ Len(text) <= len /\ Start \in Nat
    BY <1>1, PoolTurn
  <2> DEFINE used == q[me].pool_used
             l    == Len(text)
  <2>3. /\ used \in Nat /\ used <= 2 * Start /\ l \in Nat /\ l <= len
        /\ n <= l - Start
    BY <1>1, <1>2, <1>3, <2>2
  <2> HIDE DEF used, l
  <2>4. used + n + 1 <= Start + l + 1 /\ Start + l <= 2 * l
    BY <1>3, <2>2, <2>3
  <2>5. used + n + 1 <= 2 * len + PoolPad
    BY <1>3, <2>1, <2>2, <2>3, <2>4
  <2> QED BY <2>5 DEF used
<1> QED BY <1>1, <1>2, <1>3, <1>4 DEF n, PoolHolds

LEMMA KeyPool == ASSUME TypeInv, PoolInv, ParseKey PROVE PoolInv'
<1>1. pc = "pair" /\ AtPair
  BY DEF ParseKey
<1>2. ASSUME NEW v, NEW s, KeyTaken(v, s) PROVE PoolInv'
  <2>1. /\ v \in Object /\ Kin(v, q[me]) /\ s \in Pair /\ Update(me, v)
        /\ v.pairs = [q[me].pairs EXCEPT ![index + 1] = s]
        /\ s.k = Key(text, Start) /\ s.v = Value(text, Start)
        /\ v.pool_used \in {q[me].pool_used, q[me].pool_used + Len(s.k) + 1}
        /\ cur' = Start /\ pc' = "value" /\ UNCHANGED <<me, other, text, len, index, write>>
    BY <1>2 DEF KeyTaken
  <2>2. q'[me] = v
    BY <1>1, <2>1, PoolTurn, Updated DEF TypeInv, Types
  <2>3. v.pairs[index + 1] = s
    <3>1. q[me].pairs \in Seq(Pair) /\ index + 1 \in 1..Len(q[me].pairs)
      BY <1>1, AtTurn DEF AtPair, MorePairs, Object
    <3> QED BY <2>1, <3>1
  <2>4. v.pool_used <= 2 * Start + Len(Key(text, Start)) + 1
    <3>1. /\ q[me].pool_used \in Nat /\ Start \in Nat
      BY <1>1, PoolTurn
    <3>2. Len(Key(text, Start)) \in Nat /\ q[me].pool_used <= 2 * Start
      BY <1>1, KeyRoom
    <3> QED BY <2>1, <3>1, <3>2
  <2>5. v.pool = q[me].pool /\ v.pool_size = q[me].pool_size /\ Key(text, Start) # <<>>
    BY <1>1, <2>1, KeyRoom DEF Kin
  <2> QED BY <1>1, <2>1, <2>2, <2>3, <2>4, <2>5, PoolTurn DEF PoolInv
<1>3. CASE pc' = "idle"
  BY <1>3 DEF PoolInv
<1> QED BY <1>2, <1>3, KeyEffect DEF StopParsing, Ends

\* So does its value.
LEMMA ValueRoom ==
  ASSUME TypeInv, PoolInv, pc = "value"
  PROVE  LET n   == Len(q[me].pairs[index + 1].v)
             end == PairEnd(text, cur)
         IN /\ n \in Nat /\ end \in cur..Len(text)
            /\ q[me].pool_used + n + 1 <= 2 * end + (IF end < Len(text) THEN 0 ELSE 1)
            /\ q[me].pool = Null \/ PoolHolds(q[me], n)
<1> DEFINE k   == Len(Key(text, cur))
           n   == Len(Value(text, cur))
           end == PairEnd(text, cur)
           ke  == KeyEnd(text, cur)
           vs  == ValueStart(text, cur)
           ve  == ValueEnd(text, cur)
<1>1. /\ q[me].pool_used <= 2 * cur + k + 1 /\ Key(text, cur) # <<>>
      /\ q[me].pairs[index + 1].v = Value(text, cur)
  BY DEF PoolInv
<1>2. /\ cur \in Nat /\ Len(text) \in Nat /\ cur < Len(text) /\ text \in Seq(Int)
      /\ cur \in 0..Len(text)
  BY AtTurn
<1>3. /\ ke \in cur..Len(text) /\ k = ke - cur /\ vs \in ke..Len(text) /\ ve \in vs..Len(text)
      /\ ve # ke => vs = ke + 1
      /\ n = ve - vs /\ end = (IF ve < Len(text) THEN ve + 1 ELSE Len(text))
      /\ end \in cur..Len(text) /\ Key(text, cur) \in Seq(Int)
  BY <1>2, PairParts
<1>4. k >= 1
  BY <1>1, <1>3
<1> HIDE DEF k, n, end, ke, vs, ve
<1>5. q[me].pool_used \in Nat /\ Len(text) <= len /\ len \in Nat
      /\ (q[me].pool # Null => q[me].pool_size = 2 * len + PoolPad)
  BY PoolTurn
<1>6. n \in Nat /\ q[me].pool_used + n + 1 <= 2 * end + (IF end < Len(text) THEN 0 ELSE 1)
  <2>1. /\ ke \in Nat /\ vs \in Nat /\ ve \in Nat /\ n \in Nat
        /\ ke <= vs /\ vs <= ve /\ ve <= Len(text)
    BY <1>2, <1>3
  <2>2. end \in Nat /\ end = (IF ve < Len(text) THEN ve + 1 ELSE Len(text))
    BY <1>2, <1>3
  <2>3. ke >= cur + 1 /\ q[me].pool_used <= 2 * cur + (ke - cur) + 1
    BY <1>1, <1>2, <1>3, <1>4, <2>1
  <2>4. n = ve - vs /\ (ve # ke => vs = ke + 1)
    BY <1>3
  <2>5. cur \in Nat /\ Len(text) \in Nat /\ q[me].pool_used \in Nat /\ cur + 1 <= ke
    BY <1>2, <1>5, <2>3
  <2> DEFINE used == q[me].pool_used
             l    == Len(text)
  <2>6. used \in Nat /\ l \in Nat /\ used <= 2 * cur + (ke - cur) + 1
        /\ ve <= l /\ end = (IF ve < l THEN ve + 1 ELSE l)
    BY <2>1, <2>2, <2>3, <2>5
  <2> HIDE DEF used, l
  <2>7. used + n + 1 <= 2 * end + (IF end < l THEN 0 ELSE 1)
    <3>1. used <= cur + ke + 1
      BY <2>1, <2>5, <2>6
    <3>2. n <= ve - ke /\ (ve # ke => n + 1 = ve - ke)
      BY <2>1, <2>4
    <3>3. used + n + 1 <= 2 * ve + 1
      <4>1. CASE ve = ke
        BY <2>1, <2>5, <2>6, <3>1, <3>2, <4>1
      <4>2. CASE ve # ke
        BY <2>1, <2>5, <2>6, <3>1, <3>2, <4>2
      <4> QED BY <4>1, <4>2
    <3>4. CASE ve < l
      <4>1. end = ve + 1
        BY <2>6, <3>4
      <4>2. used + n + 1 <= 2 * end
        BY <2>1, <2>6, <3>3, <4>1
      <4> DEFINE extra == IF end < l THEN 0 ELSE 1
      <4>3. extra \in {0, 1}
        OBVIOUS
      <4> HIDE DEF extra
      <4>4. used + n + 1 <= 2 * end + extra
        BY <2>1, <2>2, <2>6, <4>2, <4>3
      <4> QED BY <4>4 DEF extra
    <3>5. CASE ve = l
      <4>1. end = l
        BY <2>6, <3>5
      <4>2. (IF end < l THEN 0 ELSE 1) = 1
        BY <2>6, <4>1
      <4>3. used + n + 1 <= 2 * end + 1
        BY <3>3, <3>5, <4>1
      <4> QED BY <4>2, <4>3
    <3> QED BY <2>1, <2>6, <3>4, <3>5
  <2> QED BY <2>1, <2>7 DEF used, l
<1>7. q[me].pool # Null => q[me].pool_used + n + 1 <= q[me].pool_size
  <2> SUFFICES ASSUME q[me].pool # Null PROVE q[me].pool_used + n + 1 <= 2 * len + PoolPad
    BY <1>5
  <2>1. PoolPad \in Nat /\ PoolPad >= 1
    BY QueryAssumptions
  <2>2. end \in Nat /\ end <= Len(text)
    BY <1>2, <1>3
  <2>3. 2 * end + (IF end < Len(text) THEN 0 ELSE 1) <= 2 * len + 1
    BY <1>2, <1>5, <2>2
  <2> DEFINE used == q[me].pool_used
             most == 2 * end + (IF end < Len(text) THEN 0 ELSE 1)
  <2>4. used + n + 1 <= most /\ most <= 2 * len + 1 /\ most \in Nat /\ used \in Nat /\ n \in Nat
    BY <1>5, <1>6, <2>2, <2>3
  <2> HIDE DEF used, most
  <2>5. used + n + 1 <= 2 * len + PoolPad
    BY <1>5, <2>1, <2>4
  <2> QED BY <2>5 DEF used
<1> QED BY <1>1, <1>3, <1>6, <1>7 DEF n, end, PoolHolds

LEMMA ValuePool == ASSUME TypeInv, PoolInv, ParseValue PROVE PoolInv'
<1>1. pc = "value"
  BY DEF ParseValue
<1> DEFINE n   == Len(q[me].pairs[index + 1].v)
           end == PairEnd(text, cur)
<1>2. ASSUME NEW v, NEW s, NEW keep \in BOOLEAN, ValueTaken(v, s, keep) PROVE PoolInv'
  <2>1. /\ v \in Object /\ Kin(v, q[me]) /\ Update(me, v)
        /\ v.pool_used \in {q[me].pool_used, q[me].pool_used + n + 1}
        /\ cur' = end /\ pc' = "pair" /\ UNCHANGED <<me, other, text, len, write>>
    BY <1>2 DEF ValueTaken
  <2>2. q'[me] = v
    BY <1>1, <2>1, PoolTurn, Updated DEF TypeInv, Types
  <2>3. n \in Nat /\ q[me].pool_used + n + 1 <= 2 * end + (IF end < Len(text) THEN 0 ELSE 1)
        /\ end \in cur..Len(text)
    BY <1>1, ValueRoom
  <2>4. q[me].pool_used \in Nat /\ cur \in Nat /\ Len(text) \in Nat
    BY <1>1, PoolTurn
  <2> HIDE DEF n, end
  <2>5. v.pool_used <= 2 * end + (IF end < Len(text) THEN 0 ELSE 1)
    BY <2>1, <2>3, <2>4
  <2>6. v.pool = q[me].pool /\ v.pool_size = q[me].pool_size
    BY <2>1 DEF Kin
  <2> QED BY <1>1, <2>1, <2>2, <2>5, <2>6, PoolTurn DEF PoolInv
<1>3. CASE pc' = "idle"
  BY <1>3 DEF PoolInv
<1> QED BY <1>2, <1>3, ValueEffect DEF StopParsing, Ends

LEMMA StepPool == TypeInv /\ PoolInv /\ [Next]_vars => PoolInv'
<1> SUFFICES ASSUME TypeInv, PoolInv, [Next]_vars PROVE PoolInv'
  OBVIOUS
<1>1. CASE pc' \notin {"decode", "pool", "pair", "value"}
  BY <1>1 DEF PoolInv
<1>2. CASE Call /\ pc' \in {"decode", "pool", "pair", "value"}
  <2>1. \E x \in Queries : \E t \in Texts, n \in BufferSizes : llquery_parse_ex(x, t, n)
    BY <1>2 DEF Call, llquery_init_ex, llquery_clone, NewObject, llquery_reset, llquery_free,
                llquery_filter, llquery_sort, llquery_set_allocator, Goes, Ends
  <2> QED BY <2>1, ParsePool
<1>3. CASE Step /\ pc' \in {"decode", "pool", "pair", "value"}
  <2>1. DecodeBuffer \/ StringPool \/ SkipPair \/ ParseKey \/ ParseValue
    BY <1>3 DEF Step, InitPairs, ParseEnd, StopParsing, FilterPair, FilterEnd, SortPair, SortRound,
                SortEnd, CloneFails, CloneKey, CloneValue, CloneBuffer, Goes, Ends
  <2> QED BY <2>1, DecodePool, StringPoolPool, SkipPool, KeyPool, ValuePool
<1>4. CASE UNCHANGED vars
  BY <1>4 DEF vars, PoolInv
<1> QED BY <1>1, <1>2, <1>3, <1>4 DEF Next

(* The estimate made before the pairs are known is enough for every text, whatever is  *)
(* decoded, trimmed or dropped: a string that finds no room in a pool never takes a    *)
(* block of its own beside it (llquery.c:125-164, 302-488).                            *)
THEOREM PoolSuffices == Spec => []PoolIsEnough
<1>1. Init => TypeInv /\ PoolInv
  BY InitTyped DEF Init, PoolInv
<1>2. TypeInv /\ PoolInv => PoolIsEnough
  BY KeyRoom, ValueRoom DEF PoolIsEnough
<1> QED BY <1>1, <1>2, StepTyped, StepPool, PTL DEF Spec
-----------------------------------------------------------------------------
(* Sorting, from step to step. *)

LEMMA SortPairSorts == ASSUME TypeInv, SortInv, pc = "sort", SortPair PROVE SortInv'
<1> DEFINE y == q[me]
           n == y.count - write
           a == y.pairs[index + 1].k
           b == y.pairs[index + 2].k
<1>1. /\ index < n - 1 /\ index' = index + 1
      /\ UNCHANGED <<heaps, pc, me, other, text, len, cur, write>>
      /\ \E after \in BOOLEAN :
           /\ after = KeyAfter(a, b)
           /\ IF after THEN \E v : Swapped(v) /\ Update(me, v) ELSE UNCHANGED q
  <2>1. index < ThisRound
    BY SortEffect
  <2> QED BY <2>1, SortEffect DEF ThisRound
<1>2. /\ me \in Queries /\ y \in Object /\ y.pairs \in Seq(Pair) /\ y.count \in Nat
      /\ y.count <= Len(y.pairs) /\ Len(y.pairs) \in Nat /\ index \in Nat /\ write \in Nat
      /\ write <= y.count
  BY AtWalk DEF Walking
<1>3. n \in Nat /\ n <= y.count /\ index + 2 <= n
  BY <1>1, <1>2
<1>4. Placed(y, n) /\ Greatest(y, index)
  BY DEF SortInv
<1>5. \A i \in 1..y.count : y.pairs[i].k \in Seq(Int)
  <2>1. \A i \in 1..y.count : y.pairs[i] \in Pair
    BY <1>2
  <2> QED BY <2>1 DEF Pair
<1> HIDE DEF y, n
<1>6. CASE ~KeyAfter(a, b) /\ UNCHANGED q
  <2>1. Greatest(y, index + 1)
    <3> SUFFICES ASSUME NEW i \in 1..(index + 1) PROVE ~KeyAfter(y.pairs[i].k, b)
      BY <1>2 DEF Greatest
    <3>1. CASE i = index + 1
      BY <1>6, <3>1
    <3>2. CASE i # index + 1
      <4>1. i \in 1..index /\ i \in 1..y.count /\ index + 1 \in 1..y.count /\ index + 2 \in 1..y.count
        BY <1>2, <1>3, <3>2
      <4>2. ~KeyAfter(y.pairs[i].k, a)
        BY <1>4, <4>1 DEF Greatest
      <4> QED BY <1>5, <1>6, <4>1, <4>2, NotAfterIsTransitive
    <3> QED BY <3>1, <3>2
  <2> QED BY <1>1, <1>4, <1>6, <2>1 DEF SortInv, y, n
<1>7. ASSUME KeyAfter(a, b), NEW v, Swapped(v), Update(me, v) PROVE SortInv'
  <2>1. /\ v \in Object /\ v.count = y.count
        /\ \A i \in 1..Len(y.pairs) :
             v.pairs[i] = IF i = index + 1 THEN y.pairs[index + 2]
                          ELSE IF i = index + 2 THEN y.pairs[index + 1] ELSE y.pairs[i]
    BY <1>7 DEF Swapped, y
  <2>2. q'[me] = v
    BY <1>2, <1>7, <2>1, Updated DEF TypeInv, Types
  <2>3. /\ v.pairs[index + 1].k = b /\ v.pairs[index + 2].k = a
        /\ \A i \in 1..y.count : i \notin {index + 1, index + 2} => v.pairs[i].k = y.pairs[i].k
        /\ index + 1 \in 1..y.count /\ index + 2 \in 1..y.count
    BY <1>2, <1>3, <2>1
  <2>4. Greatest(v, index + 1)
    <3> SUFFICES ASSUME NEW i \in 1..(index + 1) PROVE ~KeyAfter(v.pairs[i].k, a)
      BY <1>2, <2>3 DEF Greatest
    <3>1. CASE i = index + 1
      BY <1>5, <1>7, <2>3, <3>1, AfterIsAsymmetric
    <3>2. CASE i # index + 1
      <4>1. i \in 1..index /\ v.pairs[i].k = y.pairs[i].k
        BY <1>2, <1>3, <2>3, <3>2
      <4> QED BY <1>4, <4>1 DEF Greatest
    <3> QED BY <3>1, <3>2
  <2>5. Placed(v, n)
    <3> SUFFICES ASSUME NEW j \in (n + 1)..y.count, NEW i \in 1..(j - 1)
                 PROVE  ~KeyAfter(v.pairs[i].k, v.pairs[j].k)
      BY <2>1 DEF Placed
    <3>1. /\ v.pairs[j].k = y.pairs[j].k /\ i \in 1..y.count
          /\ index + 1 \in 1..(j - 1) /\ index + 2 \in 1..(j - 1)
      BY <1>2, <1>3, <2>3
    <3>2. \E h \in 1..(j - 1) : v.pairs[i].k = y.pairs[h].k
      BY <2>3, <3>1
    <3> QED BY <1>4, <3>1, <3>2 DEF Placed
  <2> QED BY <1>1, <2>1, <2>2, <2>4, <2>5 DEF SortInv, n
<1> QED BY <1>1, <1>6, <1>7

LEMMA SortRoundSorts == ASSUME TypeInv, SortInv, pc = "sort", SortRound PROVE SortInv'
<1> DEFINE y == q[me]
           n == y.count - write
<1>1. /\ index = n - 1 /\ index' = 0 /\ write' = write + 1 /\ UNCHANGED <<q, pc, me>>
  BY DEF SortRound, ThisRound
<1>2. y.count \in Nat /\ write \in Nat /\ index \in Nat
  BY AtWalk DEF Walking
<1>3. Placed(y, n) /\ Greatest(y, n - 1)
  BY <1>1 DEF SortInv
<1> HIDE DEF y
<1>4. Placed(y, n - 1)
  <2> SUFFICES ASSUME NEW j \in n..y.count, NEW i \in 1..(j - 1)
               PROVE  ~KeyAfter(y.pairs[i].k, y.pairs[j].k)
    BY <1>2 DEF Placed
  <2>1. CASE j = n
    BY <1>2, <1>3, <2>1 DEF Greatest
  <2>2. CASE j # n
    BY <1>2, <1>3, <2>2 DEF Placed
  <2> QED BY <2>1, <2>2
<1>5. y.count - (write + 1) = n - 1 /\ Greatest(y, 0)
  BY <1>2 DEF Greatest
<1> QED BY <1>1, <1>4, <1>5 DEF SortInv, y

LEMMA SortStartSorts ==
  ASSUME TypeInv, NEW x \in Queries, NEW by \in BOOLEAN, llquery_sort(x, by)
  PROVE  SortInv'
<1>1. q'[me'] = q[x] /\ write' = 0 /\ index' = 0 /\ q[x].count \in Nat
  BY DEF llquery_sort, TypeInv, Types, Object
<1> QED BY <1>1 DEF SortInv, Placed, Greatest

LEMMA StepSorts == TypeInv /\ SortInv /\ [Next]_vars => SortInv'
<1> SUFFICES ASSUME TypeInv, SortInv, [Next]_vars PROVE SortInv'
  OBVIOUS
<1>1. CASE pc' # "sort"
  BY <1>1 DEF SortInv
<1>2. CASE Call /\ pc' = "sort"
  <2>1. \E x \in Queries : \E by \in BOOLEAN : llquery_sort(x, by)
    BY <1>2 DEF Call, llquery_init_ex, llquery_clone, NewObject, llquery_reset, llquery_free,
                llquery_filter, llquery_parse_ex, llquery_set_allocator, Goes, Ends
  <2> QED BY <2>1, SortStartSorts
<1>3. CASE Step /\ pc' = "sort"
  <2>1. pc = "sort" /\ (SortPair \/ SortRound)
    BY <1>3 DEF Step, InitPairs, DecodeBuffer, StringPool, SkipPair, ParseKey, ParseValue,
                FinishPair, ParseEnd, StopParsing, FilterPair, FilterEnd, SortPair, SortRound,
                SortEnd, CloneFails, CloneKey, CloneValue, CloneBuffer, Goes, Ends
  <2> QED BY <2>1, SortPairSorts, SortRoundSorts
<1>4. CASE UNCHANGED vars
  BY <1>4 DEF vars, SortInv, Placed, Greatest
<1> QED BY <1>1, <1>2, <1>3, <1>4 DEF Next

\* The step a sort ends with.
LEMMA SortEnds ==
  ASSUME TypeInv, SortInv, [Next]_vars, pc = "sort", pc' = "idle"
  PROVE  \A i \in 1..(q[me].count - 1) : ~KeyAfter(q[me].pairs[i].k, q[me].pairs[i + 1].k)
<1>1. ThisRound = 0
  <2>1. Step
    BY DEF Next, Call, llquery_init_ex, llquery_clone, llquery_reset, llquery_free,
           llquery_filter, llquery_sort, llquery_parse_ex, llquery_set_allocator, Begins, vars
  <2>2. SortEnd
    BY <2>1 DEF Step, InitPairs, DecodeBuffer, StringPool, SkipPair, ParseKey, ParseValue,
                ParseEnd, FilterPair, FilterEnd, SortPair, SortRound, CloneKey, CloneValue,
                CloneBuffer
  <2> QED BY <2>2 DEF SortEnd
<1>2. q[me].count \in Nat /\ write \in Nat
  BY AtWalk DEF Walking
<1>3. q[me].count - write = 1 /\ Placed(q[me], 1)
  <2>1. q[me].count - write = 1
    BY <1>1, <1>2 DEF ThisRound
  <2> QED BY <2>1 DEF SortInv
<1> QED BY <1>2, <1>3 DEF Placed

(* Whatever the pairs are, a sort by keys that has come to its end leaves no key before *)
(* a lesser one (llquery.c:643-685).                                                    *)
THEOREM SortSorts == Spec => SortedByKey
<1>1. Init => TypeInv /\ SortInv
  BY InitTyped DEF Init, SortInv
<1>2. TypeInv /\ SortInv /\ [Next]_vars =>
        [pc = "sort" /\ pc' = "idle" =>
           \A i \in 1..(q[me].count - 1) :
             ~KeyAfter(q[me].pairs[i].k, q[me].pairs[i + 1].k)]_vars
  BY SortEnds
<1> QED BY <1>1, <1>2, StepTyped, StepSorts, PTL DEF Spec, SortedByKey
=============================================================================

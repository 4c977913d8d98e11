# A TLA+ verification of lhttp_parser

lhttp_parser is a Lua module for HTTP: a binding of the llhttp parser
(`lhttp_parser.c` over `llhttp/`), a URL parser (`llurl.c`), a query-string
library (`llquery.c`) and their Lua binding (`lhttp_url.c`).  This directory
models all four in TLA+, checks small instances with TLC and proves theorems
with TLAPS.

## The system

| part | state | operations | how it interacts |
|---|---|---|---|
| run loop, `llhttp/src/llhttp.c` | `llhttp_t`: current label, error and error position, the open span, method, status, version, header state, flags, content length, upgrade, finish, "one message done" | `llhttp__internal_execute`, about 250 labels | calls back in the middle of a run; the callback's answer continues, pauses or fails it |
| decisions, `http.c` | none | before and after headers complete, after message complete, needs EOF, keep alive | read and set the flags of `llhttp_t` |
| API, `api.c` | `error`, `finish` of `llhttp_t` | init, reset, execute, finish, pause, resume, resume after upgrade | called between executions, and by programs from callbacks |
| binding, `lhttp_parser.c` | `parser_ctx`: the Lua state of the call in hand, a reference to the callback table | new, execute, finish, reset, pause, resume, resume_after_upgrade, getters, gc | passes calls to the API and callbacks to Lua handlers, which may call any method of the same parser, raise errors or be missing |
| URL parser, `llurl.c` | none between calls; in a call the state, the position, the field being read and where it began, the colon of a port, the fields found | `http_parser_parse_url` | called by `lhttp_url.c` |
| queries, `llquery.c` | an object: array of pairs, limit, flags, allocator, string pool, decode buffer | init, parse, sort, filter, clone, reset, set_allocator, free; lookups, stringify, encode, decode, parse_fast, is_valid, count_pairs | called by `lhttp_url.c`; calls the allocator and the callbacks of filter and sort |
| their binding, `lhttp_url.c` | none | encode, decode, parse_query, parse | Lua strings and tables out of the two above |

There are no threads.  What makes the code hard is the *cutting* of a stream
into chunks (every label may have to stop and go on), *callbacks* that re-enter
the parser while the run loop is on the C stack, *errors and pauses* whose
position points into a chunk that may be gone, one parser used for *many
messages*, and the interplay of header fields in deciding where a message ends.
In `llquery.c` it is *who owns a string*: one of a pool, of a block of its own or
of nobody, after any allocation failed; in `llurl.c` it is *fields that grow out
of several turns* of a loop that scans ahead and steps back.

What each part must do:

- run loop: handlers are given the message, whatever the cut; callbacks come in
  order; a message has one framing; a truncated message is noticed; every call
  returns.
- decisions: those of RFC 7230, and another message is read where they allow one.
- API: a failed parser stays failed until reset; reset makes a new parser.
- binding: the Lua state is there when a handler is called, and not afterwards;
  the count answered is that of bytes of this chunk.
- llquery: a query object is a list of pairs, those its text means; every block
  is owned once and freed by the allocator it came from; every call ends.
- llurl: the URLs of a grammar are accepted, the fields are their parts and do
  not overlap; the loop ends.
- lhttp_url: decoding inverts encoding; no pair is lost in the table.

## Modules

| module | models |
|---|---|
| `HttpFraming` | `http.c`: upgrade, body and keep-alive as functions of the parser's fields |
| `Llhttp` | `llhttp.c` and `api.c`: fields, labels, spans, callbacks, errors, pauses, API |
| `LhttpParser` | `lhttp_parser.c` composed with `Llhttp`: methods, handlers, and the application that feeds a stream in chunks; the specification `Spec` and `FairSpec` |
| `CallbackOrder` | abstract: in which order a parser may call its handlers |
| `CallbackLog` | `LhttpParser` with a history of the calls made to handlers; refines `CallbackOrder` |
| `HttpMessages` | well-formed messages and the callbacks they stand for, written without the parser |
| `LlUrl` | `llurl.c`: the turns of `http_parser_parse_url` |
| `UrlGrammar` | the URLs it accepts and their parts, by where delimiters stand in the text |
| `QueryText` | what `llquery.c` does to texts: codecs, trimming, order of keys, the bounds of a pair; the functions that need no object |
| `LlQuery` | `llquery.c`: objects, their memory, and every call as a sequence of steps |
| `QueryList` | abstract: an object is a list of pairs |
| `LlQueryList` | the list an object of `LlQuery` stands for; refines `QueryList` |
| `LhttpUrl` | `lhttp_url.c`: what Lua is given, as operators on what `llquery.c` and `llurl.c` answer |
| `LuaQuery` | `LlQuery` and `LhttpUrl` together, and what the binding promises of the objects' texts and pairs |
| `MCStream`, `MCMalformed`, `MCHandlers`, `MCFraming`, `MCUrl`, `MCQuery`, `MCText` | the instances TLC checks |
| `LlhttpProofs` | lemmas about `Llhttp`: what each step of the run loop, each answer, each start and end of a call does to the registers and fields |
| `LhttpParserProofs` | the inductive invariant of `LhttpParser` and the theorems that follow; the proof that a message has one framing |
| `CallbackLogProofs` | the proof that `CallbackLog` implements `CallbackOrder` |
| `LlUrlProofs` | the proof that the fields of a URL lie apart |
| `QueryTextProofs` | lemmas about `QueryText`: the bounds of a pair, the length of a decoded text, the order of keys |
| `LlQueryProofs` | the proofs about `LlQuery`: types, ownership of memory, the pool, sorting |
| `LuaQueryProofs` | the proofs about encoding and decoding and about the table of pairs, with the induction they need |
| `QueryListProofs` | the proof that `LlQuery` implements `QueryList` |

### How state and actions correspond to the code

**Input.**  llhttp reads bytes; the model reads *tokens*: a method, a header
name the parser knows, a version, a status code, a digit, CR, LF, SP, a comma,
`chunked`, one byte of other text (`text`), a forbidden byte (`ctl`).  Labels
of llhttp.c that match the next letter of a word are therefore one step, and a
chunk boundary can fall between any two tokens but not within a word.  (Inside
a word the generated matcher keeps `_index` and has no other effect; the names
are compared as wholes.)  The states of absolute URLs are one label `url`; a `text` is a byte that
may stand in a header's name, and may be the first of a URL.

**Labels.**  `at` is the label about to run, named as in llhttp.c without its
prefix.  One action of `RunStep` stands for the labels of one piece of syntax:
`Reads(l)` is the label's test `if (p == endp) return l`, `Go(l, q)` a goto,
`Stop`, `Reject`, `RejectAfter` an error or pause label (the difference is
whether the byte was consumed, `p++`, before), `EndSpan` and `OpenSpan` the span
labels, `Suspend` the end of `llhttp__internal_execute`.

**Callbacks.**  A run stops with `cb` set to the callback's name;
`CallbackReturns(r)` continues it with the answer `r` (`NotifyReturns`,
`SpanReturns`, `HeadersCompleteReturns`, `FlushReturns` after the end of the
chunk, `FinishReturns` in `llhttp_finish`).  Between the two the program has
control and can call the API, which is how re-entry is modelled: the registers
`<<op, base, end, p, at, cb, rc>>` of the interrupted call go to `saved`, as
they stay on the C stack.

**Binding.**  `ctxL` is `ctx->L`; `lua` tells that Lua code has control.
`call_handler` is `lua_pcall` in `pcall_callback`, `no_handler` its early return
for a missing field, `no_state` its NULL test (and the use of the state before
that test in the callbacks with arguments: `crashed`), `handler_ends` the return
or the caught error, `handler_raises` the error of `luaL_optinteger`, which is
outside the pcall and unwinds llhttp and `execute`.  `ret` is the answer of
`execute` and `finish`.  `error_pos` is `[buf, off]`, the call whose chunk it
points into and the place there; when that call ends the pointer becomes
`Nowhere`, and a count made from it is `Outside`.

**URLs.**  A URL is a sequence of bytes.  One action of `LlUrl` is one turn of the
loop, named for the state and the byte (`PathTurn`, `ServerColon`, ...); a turn that
scans to a delimiter, steps back and continues is one action together with the
turn at the delimiter's left, so that `i` is always the position of the next turn.
`pc = "body"` is `goto start_parsing`, which passes by the loop's test: behind a
quick schema that ends the URL the byte read is one past the buffer, and
`SlashTurn` lets it be anything.  `Width` is 2^16, the range of an offset.

**Queries.**  A call of `LlQuery` starts in `pc = "idle"` and goes on step by step:
one step per allocation (each may fail) and per turn of a loop.  `heap` maps every
block to the allocator it came from; a pointer is the number of the block it points
into.  A string in the pool is a pointer to the pool's block, because the code
tells pooled strings by their address (`key_in_pool`).  Positions in `text` stand
for `current`, `key_start` and the like; `index` is `kv_index`, `read_idx`, `j` or
`i`, `write` is `write_idx` or sort's `i`.  The answers of a filter's callback and of
a caller's compare function are free choices.  A freed or moved slot is
`EmptyPair`.

**Abstracted.**  Texts of errors, what handlers do with values, and the contents
of URLs and header values in the HTTP parser.  `content_length` has the limit
`MaxLength` in place of 2^64 - 1.  The lenient flags are 0: the binding has no
setter.  In `LlQuery`: `field_set`, `is_encoded`, `decode_buffer_size`; the least
free block is the one an allocation gets.

**Not modelled.**  `PRI` and HTTP/2, RTSP, ICE methods; `HPE_PAUSED_H2_UPGRADE`;
a span inside chunk extensions (no callback is registered); `execute`'s index
arguments; garbage collection; calls with NULL arguments or on objects that were
not initialised; `llquery_iterate` (it reads), `llquery_strerror`; the values left in
the URL struct after a refusal; a failed malloc in `lhttp_url.c`.  The tests and
benchmarks were read for what they state and are not modelled.

## Runs

All cfgs set `CHECK_DEADLOCK FALSE`: an application may stop calling the parser,
a stream ends, and a URL is parsed once.

| run | instance | checks |
|---|---|---|
| `stream` | five connections of 1 or 2 messages, all types of parser, chunks of 1, 2, 3 bytes or the rest, `pause` and `resume` between calls, pause from onHeadersComplete | `LogIsPrefixOfMeaning`, `AllDelivered`, `WellFormedAccepted` |
| `malformed` | three connections with each token dropped or replaced by one of 9, chunks of 1 token or the rest, failing handlers, reset | `OrderKept` (the refinement of `CallbackOrder`), `TruncationIsSeen`, `OneFraming`, `ResetStartsAfresh` |
| `handlers` | a chunked request, a response until close, a tunnel; every method between calls; reset, pause and resume from handlers; every answer of onHeadersComplete; failing handlers | `BindingTypeOK`, `LuaStateHeld`, `FailureIsFinal`, `StopsInChunk`, `CallsReturn` |
| `nested` | the same streams; handlers that call execute and finish (two calls deep), a missing handler, results that raise | `StopsInChunk` |
| `framing` | 8 start lines with every sequence of up to 3 of 9 framing header lines, the body the message then has, and the first token of another message; execute, finish and resume_after_upgrade | `FramingFollowsRfc`, `KeepAliveFollowsRfc`, `NextFollowsRfc`, `RefusesOnlyAmbiguous` |
| `url` | every URL of up to 4 bytes of 12 kinds, the same behind `//` and `ws://`, and longer ones around quick schemas, escapes, ports and brackets; as a request's and as CONNECT's | `AcceptsGrammar`, `FieldsAreParts`, `FieldsApart`, `Terminates` |
| `query` | two objects, two allocators, three texts, two sets of flags, no, a small and a large buffer, at most 2 pairs, every allocation may fail; init, parse, reset, free, filter, sort and clone in any order | `ImplementsList` (the refinement of `QueryList`), `EveryBlockOwnedOnce`, `FreedByItsAllocator`, `PoolIsEnough`, `CallsEnd`, `TypeOK` |
| `text` | one object that parses every text of up to 3 bytes of 8 kinds, of up to 5 of `a`, `&`, `=`, and escapes of `&` and of escapes, under flags that parse_query can set, with limits of 2 and 3 pairs, and sorts them; set_allocator before and after | `ImplementsList`, `SortedByKey`, `QuickParsersAgree`, `DecodeInvertsEncode`, `MergeLosesNothing`, `StringifyKeepsPairs`, `EveryBlockOwnedOnce` |

The bounds.  A message of the `stream` run contains every kind of piece the
parser tells apart; a chunk cut is a state of the parser between two tokens, and
chunks of 1, 2 and 3 tokens reach all of them together with all pairs of cuts
that are near each other, where a span starts, ends or is flushed.  Two messages
on a connection show what the first leaves behind.  Three header lines are the
smallest number that holds a conflict and a line between or after it.  The rules
of RFC 7230 in `MCFraming` are written over the start line and the header lines; one
message is left out of what they are compared on for keep-alive, HTTP/1.0 with both
`close` and `keep-alive` (`Contradicts`), where the code departs from the RFC (below).
`MaxLength` is 10 in the `malformed` run, so that two digits overflow it.

A URL of four bytes behind a prefix holds every pair of delimiters with something
or nothing before, between and after them, which is what the turns tell apart;
numbers of up to six digits cross both limits of a port.  In the `query` run two
pairs are the fewest that can be sorted, filtered past and be too many; the three of
the `text` run make a sort of two rounds and a key of three values;
`DEFAULT_MAX_PAIRS` is 2 in place of 128 and the pool's spare 256 bytes are 1, the
least with which `PoolIsEnough` holds: with the code's number it holds the more.
One text has pairs that need no decoding, a `?` and one too many, one has `+`, empty
keys and empty values.  In the `text` run nothing fails, so that texts and not
interleavings take up the states.

**Fairness.**  `FairSpec` of `LhttpParser` asks that C code which can go on does
(`WF_vars(run)`, `WF_vars(Return)`) and that handlers end
(`WF_vars(call_handler \/ Answer)`): one thread runs, and nothing in the parser
waits.  The application's own calls are not fair: it may stop at any time.
`FairSpec` of `LlUrl` (`WF_vars(Next)`) and of `LlQuery` (`WF_vars(Step)`) ask the
same of a call that has begun.

### What documents say and the code does not do

Each of these runs checks one statement of a document or comment, and finds it
violated by what the code does.

| run | statement | what happens |
|---|---|---|
| `count_after_pause` | execute answers how many bytes were read | after `pause()` execute subtracts from a pointer that is NULL or of an older chunk |
| `nested_crash` | callbacks test the Lua state | those with arguments use it before the test |
| `set_allocator` | the allocator is changed at run time | what was allocated before, but for the array of pairs, is freed by the new one |
| `long_encode` | encode answers the encoded string | a text that needs a block of its own and has spaces gets a tail of two bytes for each space: the NUL and what the block held (the run's buffer has 16 bytes, the code's 2048) |

Noticed in the HTTP parser and its binding:

- A value cut by a chunk boundary reaches its handler in pieces, the URL and
  header values too; readme.md:91 promises full values.
- HTTP/1.0 with both `close` and `keep-alive` is kept alive and another message is read
  behind it: `llhttp_should_keep_alive` looks at the flag of `keep-alive` alone (http.c:164).
  RFC 7230 6.3 obeys the close, and llhttp.h:843 says that more data behind
  `Connection: close` is an error.  `KeepAliveFollowsRfc` and `NextFollowsRfc` leave
  these messages out (and the former those whose body is refused).
- `parser:should_keep_alive()` is right in the handlers (`KeepAliveFollowsRfc`).  Between
  two executes it looks at flags that were cleared with the message (http.c:122): true
  after an HTTP/1.1 request that closes, false after any HTTP/1.0 message.  readme.md:123
  does not say when it may be asked.
- `finish` on a failed parser answers 0 (api.c:139); lhttp_parser.c:421 documents
  nil and an error.  A second `finish` completes an until-close message twice.
- A reset made by a handler is overwritten by the run loop it returns to, which
  stores its own label (llhttp.c:10264): `ResetStartsAfresh` holds for resets
  between calls, and the passing run has only those.
- When a result of onHeadersComplete is no integer, `luaL_optinteger` raises through
  `execute`, which leaves `ctx->L` set (lhttp_parser.c:224, 392); `_current` is then
  still the label of the last chunk boundary while the other fields are those of the
  message in hand, and the next `execute` goes on from there.
- Header fields in trailers have their meaning: `Connection: close` in the trailers of
  a chunked message closes the connection.  The streams of `framing` have no trailers.
- A table of callbacks without onHeadersComplete refuses every message
  (lhttp_parser.c:226); readme.md:32 asks for "any fields".
- A parser paused at the last byte of the stream has callbacks left that only a
  further byte triggers (`execute("")` does not ask llhttp); a failure of a nested
  `execute` is forgotten by the outer one; `execute(data, i, j)` with `j < i - 1` wraps the
  unsigned length, and the sum that is checked wraps back (lhttp_parser.c:378).

Noticed in `llurl.c`:

- `h:` with nothing behind the colon is a host named `h:`, while `[::1]:` is refused.
  Text behind a closing bracket that is no port is dropped without an error.
- A CONNECT authority may have userinfo.
- A URL longer than 65535 bytes is accepted with offsets that have wrapped.

Noticed in `llquery.c` and `lhttp_url.c`:

- The query is decoded before it is split: an encoded `&` or `=` in a value splits
  it, so `parse_query` does not take back what `encode` did to a value.
  `StringifyKeepsPairs` holds only where nothing was decoded, and stringify's
  `encode` argument is not looked at.
- In strict mode a trailing `&` behind the last pair that the limit allows answers
  TOO_MANY_PAIRS.
- `llquery_parse_fast`, when it decodes, returns pairs that point into its own stack
  frame, and goes on by the length before decoding.
- The flags SORT_KEYS and MERGE_DUPLICATES change nothing; `parse_query` merges
  duplicates always.
- `llquery_reset` on an object that failed to initialise uses a NULL pointer
  (llquery.c:939), which `llquery_parse` and `llquery_free` test for.
- `parse_query` passes its buffer as text and as decode buffer: behind a `?` the
  ranges of the memcpy at llquery.c:349 overlap.

## Proofs

The theorems hold for every set of streams over the tokens, every `MaxLength`,
every set of chunk sizes, every depth of nested calls, every set of missing
handlers and every behaviour of the others.  They use the assumptions the
modules state about their constants (`StreamsAssumption`,
`MaxLengthAssumption`, `BindingAssumption`: types only) and, where said,
`PlainHandlers` or `PlainProgram`.  Those about `LlUrl` hold for every set of URLs and every `Width`
(`UrlAssumptions`: types only).  Those about `LlQuery` hold for every set of query
objects, allocators, blocks, texts, limits, flag sets and buffer sizes, with
allocations that fail or do not, for every set of calls in every order, and for
every spare byte count of the pool from 1 on (`QueryAssumptions`: types, and that
the pool has a spare byte).

| theorem | says | assumes |
|---|---|---|
| `Invariance` | `Spec => []IInv` | |
| `TypeCorrect` | `Spec => []BindingTypeOK` | |
| `StopsInChunkHolds` | `Spec => StopsInChunk` | |
| `LuaStateIsHeld` | `Spec => []LuaStateHeld` | `PlainHandlers` |
| `FailureIsFinalHolds` | `Spec => FailureIsFinal` | `PlainHandlers` |
| `OneFramingHolds` | `Spec => []OneFraming` | `PlainHandlers` |
| `OrderIsKept` | `LogSpec => OrderKept`, the refinement of `CallbackOrder` | `PlainProgram` |
| `TruncationSeen` | `LogSpec => []TruncationIsSeen` | `PlainProgram` |
| `ResetsAfresh` | `LogSpec => []ResetStartsAfresh` | `PlainProgram` |
| `FieldsAreApart` | `Spec => []FieldsApart`, of `LlUrl` | |
| `QueryTypes` | `Spec => []TypeOK`, of `LlQuery` | |
| `OneOwnerEach` | `Spec => []EveryBlockOwnedOnce` | |
| `BlocksGoHome` | `Spec => []FreedByItsAllocator` | `NoSetAllocator` |
| `PoolSuffices` | `Spec => []PoolIsEnough` | |
| `SortSorts` | `Spec => SortedByKey` | |
| `DecodeOfEncoded` | `llquery_url_decode(Encoded(t)) = t` for every text `t` of bytes | |
| `EncodeFits` | `llquery_url_encode` writes no more than the buffer's size, and a second call with the answer of the first succeeds | |
| `EncodeThenDecode` | `Spec => []DecodeInvertsEncode`, of `LuaQuery` | texts that fit (`FitsBuffer`) |
| `TableHasAll` | the table of a list of pairs has its keys, and of each all values in order | pairs with keys |
| `TableLosesNothing` | `Spec => []MergeLosesNothing`, of `LuaQuery` | |
| `QueryImplementsList` | `Spec => ImplementsList`, the refinement of `QueryList` by `LlQuery` | |

`PlainHandlers`: handlers start no `execute` or `finish` of the parser that
called them, and onHeadersComplete does not answer with something that is no
integer.  They may reset, pause and resume it, fail, or be missing.  Without the
assumption `LuaStateHeld` is false (a result that raises keeps `ctx->L`), and a nested
call can hide the failure of, or resume at a stale label under, the call around
it.

`PlainProgram`: `PlainHandlers`, and there is a handler for every callback, handlers do
not reset the parser (they may pause and resume it, and fail), and the program does not
call `finish`.  Each part is needed.  A second `finish` completes a message twice.
The run loop overwrites the label that a handler's reset stored.  Where a
handler is missing its callback is not in the history, so the next one seems to
come too early.  The run `malformed` is such a program.

`NoSetAllocator`: the application does not call `llquery_set_allocator`.  With that
call `FreedByItsAllocator` is false: the run `set_allocator` shows it.  The other
theorems about `LlQuery` allow it.

`FitsBuffer(t)`: the size reckoned for the text is below `BufSize - 1`, so that
`encode_url` needs its stack buffer only, or the text has no space.  For the others
`DecodeInvertsEncode` is false, which is what the run `long_encode` shows: a space is reckoned
three bytes and takes one, and the answer of the first call is taken for the
length.

**The run loop** (`LlhttpProofs`).  `RunShape` says what any of the 43 actions of
`RunStep` does: it moves to a label, calls out, stops with an error at the read
position, or is out of input, and in each case the read position stays in the
chunk.  It is proved action by action; everything later uses the four shapes
and not the actions.  `AnswerShape` does the same for the answer of a callback.

**The inductive invariant** (`IInv`).  Types are not inductive:

- The label after a span callback skips the delimiter, `p + skip`, after Lua code
  has run.  `RegistersOK` therefore adds that the delimiter is in the chunk
  while the callback runs, and `SavedOK` that it is for each interrupted call
  (`InBounds`), since a nested call may start and end meanwhile.
- A paused parser starts its next call at `current`.  If that were a span's end,
  nothing would put the delimiter into the new chunk: `StopOK` says that it never
  is (`Rest`).
- `execute` adds `error_pos - chunk` to the bytes consumed.  That this stays in
  the stream needs `PointerOK`, error_pos lies in the chunk of the call it belongs
  to, for all calls on the stack, and `BindingOK`, the bytes consumed end where
  the outermost chunk begins.

`StopsInChunk` is an action property: the shapes give it for the steps of the
run loop and for answers, and no other step is one that stops early, because
calls that start or return change the stack.

**Plain handlers** (`PlainInv`).  There is one call at most, and a parser with a
fatal error is at `return` with no callback running.

**One framing** (`FramingInv`).  The flags are compared at `load_header_state`,
and set labels later, with chunk ends in between: `Unconflicted(l)` says of these
labels that the other flag is absent.  It must hold of `at` while the loop runs,
and of `current` when it does not: while it runs, `current` is a stale label of
which it may be false.

**The order of callbacks** (`OrderInv` of `CallbackLogProofs`).  `CallbackOrder` sees
the handler called last and the flag of the trailers; the run loop goes by its label.
`SeenBefore(l)` says what has been seen last when the loop is at label `l`, for all
of them; the labels inside a span allow two answers, since a chunk's end may have
given the handler a first part of the value.  Behind a header line the flag decides
(`BeforeField`): the same labels read headers and trailers.  `FieldsAt(l)` says the
same of the fields of `llhttp_t`: which span is open, at which labels the flag may
be set, and what `finish` is.
`Located` puts these together.  In the loop they hold of `at`; while a handler runs
the callback is that of the label, and it is the one seen last.  At a chunk's end and
between calls they hold of `current`, which is never a label in the middle of a
callback (`Waiting`).  While the loop runs `current` is stale and nothing is said
of it, and nothing at all is said of a parser that has failed.
Each of the 43 actions of `RunStep` is a `Flow`: it fails or goes to a label
that is right for what was seen, and changes the flag only behind `on_chunk_header`
and `on_message_complete`, which are the abstract steps `SeeLastChunk` and
`NextMessage`.  A handler that is called at a label, or at the end of the chunk
for the open span, is one that `CallbackOrder` lets follow (`OrderOfCall`,
`OrderOfFlush`), or goes on with the value before.  `TruncationIsSeen` and
`ResetStartsAfresh` are read off `Located` between two calls.

**Fields apart** (`LlUrlProofs`).  `FieldsApart` speaks of a parser that is
done; what holds on the way is `Inv`, two parts.  `Control` says which states
go with which open field, and that the positions are in the input.  `Data` holds
while the input is shorter than `Width`: the fields written so far lie apart and
all end at `Edge` or before it.  That is where the open field starts in the states
inside a field (`InField`), one byte back in the two states behind a schema
(`Behind`: its colon was passed), and the read position otherwise.  The field that
is closed next starts there, so it cannot reach back; only a port is cut out of
the host it stands in, and the host is shortened for it.
From `Width` on offsets wrap and the theorem says nothing: its property
has the same condition.

**Where a query call is** (`TypeInv` of `LlQueryProofs`).  `Types` and `Fits` are the
ranges; `Control` says what each step of a call finds.  Its part that is not plain is
`EmptySlots`: filter leaves nothing behind the pairs it has moved up, and clone finds
nothing in the slots it has not reached.  Both write a pointer without freeing
what was there.

**Who owns a block** (`MemoryInv`).  `Own(x)` is what an object holds, as a set;
`Apart` that no two places of it are the same block, where strings in the pool do not
count; `OneOwner` adds that objects share nothing and that exactly what is owned is
not free.  `EveryBlockOwnedOnce` follows.  Every step is a `Trade(x)`, proved action by action:
it changes what one object holds, each block of it is kept or freed, and what it
gains was free.  A trade keeps `OneOwner` provided the object stays `Apart`, which
is where filter needs the empty slots, sort that it swaps two pairs (`Swap`), and a
parse that the key of the pair in hand is counted before its value is there
(`HeldKeys`).  `FromItsAllocator` goes by the same trades: what is gained comes
from the object's allocator.

**The pool** (`PoolInv`).  It has `2 * len + PoolPad` bytes, `len` being the length of
the text before decoding, and decoding never lengthens.  At cursor `cur` at most
`2 * cur` bytes are used, and one more when the text has ended; between a key and
its value `2 * cur + Len(Key(text, cur)) + 1`.  Keys are not empty, so a key with its
NUL takes at most twice the bytes of its text; a value has the `=` before it or
the `&` behind it for its NUL, or the one byte more at the end.  Pairs that are
dropped count as well, which is why the bound is in `cur` and not in `count`.

**Sorting** (`SortInv`).  Of the bubble sort's two loops: what lies behind this round
is in its final order (`Placed`), and the last pair seen is the greatest of the round
so far (`Greatest`).  This needs of `KeyAfter`, which compares keys as `strcmp` does,
that it is asymmetric and that its negation is transitive; both are lemmas of
`QueryTextProofs`.

**Encoding and decoding** (`LuaQueryProofs`).  Both are loops over bytes, here recursive
functions on `0..n`.  The library's induction over the numbers takes a predicate as
a parameter and cannot be used; `UpTo` takes the set of the numbers that have the
property instead and follows from the least number that is missing, and `Recursion` gets from
it that the function exists.  `Spells(t, e, at)` says that `e` is the codes
of the bytes of `t` one behind the other, `at[k]` being where the code of byte `k`
ends.  `CodesApart`: no code begins inside another one.  So the `%` that
decode meets are those that encode wrote (`CodeIsEscape`, `EscapeIsCode`), the bytes
it drops are the two behind each of them (`LeftOfCodes`), and what is left, one per code, is
the byte that was encoded (`CodeOfByte`).  `EncodeThenDecode` needs of the object only
`RawInv`: a text that is not to be decoded is one the application gave, without
its `?`.

**The table of pairs** (`LuaQueryProofs`).  The table is a fold over the list.  `TablesAre`
builds with `UpTo` the function that the fold is (`TableSteps` gives it as one table per
pair), and `ValuesSteps` does so for the values that `llquery_get_all_values` collects for a
key.  `Told` relates the two at every pair: the entry of a key holds the values found so
far, and is an array when there are two or more (`AddTells`); as many values are found
as positions have the key.  `TableHasAll` needs that every pair has a key,
since a pair without one leaves no entry.  `KeyInv` is that invariant of
the objects: the slots in use (`KeySlots`) have keys with bytes in them.  While a call is
under way these are not the first `count`: a filter leaves a gap behind the
pairs it has moved up, a parse and a clone have not reached all of theirs, and the pair
in work has its key before its value.  `KeyInv` rests on what `LlQueryProofs`
states of each step's pair (`ShapedIsPair`, `ValueTaken`, `KeyCopied`): no step stores
a key that trimming or decoding emptied.

**The objects are lists** (`QueryListProofs`).  `QueryList` says what a text means by its
pieces: at each position where a piece ends stands the pair of that piece, if it is
one, and `Meaning` is all of them in order.  The code never looks for pieces; it scans
from where the last pair ended.  `PairOfPiece`: where a piece begins, its key and value
are those the code finds there.  `Sofar(t, flags, c)` are the pairs of the pieces
before `c`: it does not change where the code skips (`SofarSkips`: nothing but separators, or
a piece without a key), grows by the shaped pair where it takes one (`SofarTakes`), and
is the meaning at the end (`SofarEnds`).  Three invariants go by the calls.  `LoopInv`: the
first `index` slots (`Lead`) hold `Sofar` of the cursor, and the cursor is where a piece begins;
this needs that an object being parsed into has a count of 0.  `MadeInv`: an object in the making
has the limit and the flags it was asked for, or those of its source.  `CopyInv`: the
slots a clone has filled are those of its source, and in between the key of the pair
in hand is.  `View(y, step, w, i)` is the abstract object as a function of the
concrete one and of where the call about it stands, and `TurnsOne` that a step changes
one view only.  Each action then keeps the view (`Stays`) or turns it in one of the ways
of `QueryList` (`Appears`, `Vanishes`, `Empties`, `Asks`, `Loads`, `Drops`, `Swaps`, `Copies`).
What a filter's view is, `Filtered`, is the pairs moved up and those not yet seen: moving
one does not change it (`FilterMoves`), and dropping one drops its item (`FilterDrops`), though
what the slots hold changes in both.

**Only model-checked.**

- Liveness, which is out of the prover's reach: `CallsReturn`, `Terminates`,
  `CallsEnd`.
- What needs induction over data: `LogIsPrefixOfMeaning`, `AllDelivered`,
  `WellFormedAccepted`, which speak of the meaning of given streams, the
  comparison with RFC 7230 over built messages, `AcceptsGrammar` and
  `FieldsAreParts` over the parts of a URL, `QuickParsersAgree` and
  `StringifyKeepsPairs` over the pairs of whole texts.  `UpTo` would serve
  for some of them, as it does for what a text means, but not where a loop is written with
  `SelectSeq` or `FlattenSeq`, which are recursive operators in the libraries.

## Plan

1. Done: `HttpFraming`, `Llhttp`, `LhttpParser`, the callback order, the message
   meaning; `LlUrl` and its grammar; `QueryText`, `LlQuery` and the list it
   implements; `LhttpUrl`; the theorems above.
2. `ByteRange`: `posrelatI`, `getendpos` and the argument checks of execute, in
   w-bit arithmetic, against `string.sub`.
3. The collection of a parser: what the Lua stack and registry keep alive.

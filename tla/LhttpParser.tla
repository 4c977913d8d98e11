---------------------------- MODULE LhttpParser ----------------------------
(***************************************************************************)
(* The parser object Lua programs use (lhttp_parser.c): the llhttp parser  *)
(* of module Llhttp, the parser_ctx beside it, and the methods and         *)
(* callbacks that connect the two.                                         *)
(*                                                                         *)
(* ctx->L is the Lua state the callbacks run in.  It is set while execute  *)
(* or finish runs and is NULL between calls.  While lua is TRUE Lua code   *)
(* has control: the application between two calls (op = "none"), or the    *)
(* handler of callback cb.  The application feeds the stream in chunks; it *)
(* goes on after the bytes the last execute counted (fed).                 *)
(***************************************************************************)
EXTENDS Llhttp

CONSTANTS
  ChunkSizes,    \* the lengths of the chunks given to execute
  MaxDepth,      \* how deep calls may nest through handlers
  TopOps,        \* the methods called between executions
  NestedOps,     \* the methods handlers call
  Missing,       \* the callbacks the table given to new has no field for
  Outcomes,      \* how handlers end: "returns", "errors", "answers no integer"
  HeaderResults  \* the integers onHeadersComplete returns

Ops == {"execute", "finish", "reset", "pause", "resume", "resume_after_upgrade"}

ASSUME BindingAssumption ==
  /\ ChunkSizes \subseteq Nat \ {0} /\ MaxDepth \in Nat
  /\ TopOps \subseteq Ops /\ NestedOps \subseteq Ops
  /\ Missing \subseteq Callbacks
  /\ Outcomes \subseteq {"returns", "errors", "answers no integer"}
  /\ HeaderResults \subseteq Results

VARIABLES
  ctxL,    \* parser_ctx.L: "null" or "set"
  lua,     \* Lua code has control
  ret,     \* the last answer of execute or finish
  fed,     \* the bytes of the stream consumed so far
  crashed  \* a NULL lua_State was dereferenced

bindingVars == <<ctxL, lua, ret, fed, crashed>>
vars        == <<parserVars, registers, saved, stream, bindingVars>>

HPE_INTERNAL == 1
HPE_USER     == 24

Outside == -1                        \* a difference of unrelated pointers
Unset   == [count |-> 0, err |-> "OK", nil |-> FALSE]
Answers == [count : Nat \cup {Outside}, err : Codes \cup {"raised"}, nil : BOOLEAN]

-----------------------------------------------------------------------------
(* Methods *)

Allowed(o) == /\ lua /\ ~crashed
              /\ IF op = "none" THEN o \in TopOps
                 ELSE /\ o \in NestedOps
                      /\ o \in Calls => Depth < MaxDepth

\* Where a call's chunk starts: a handler feeds what follows the chunk in hand.
NextByte == IF op = "none" THEN fed ELSE end

\* parser:execute(data), with n bytes or what is left of the stream.
execute(n) ==
  /\ Allowed("execute") /\ NextByte < Len(stream)
  /\ llhttp_execute(NextByte, IF NextByte + n <= Len(stream) THEN n
                              ELSE Len(stream) - NextByte)
  /\ ctxL' = "set" /\ lua' = FALSE
  /\ UNCHANGED <<ret, fed, crashed>>

\* No byte to parse: the parser is not asked, whatever its error.
execute_nothing ==
  /\ Allowed("execute")
  /\ ctxL' = "null" /\ ret' = Unset
  /\ UNCHANGED <<parserVars, registers, saved, stream, lua, fed, crashed>>

\* nparsed: the position of the error in the chunk of this call.
Count == IF rc = "OK" THEN end - base
         ELSE IF errorPos.buf = Depth THEN errorPos.off - base ELSE Outside

Quiet == {"OK", "PAUSED", "PAUSED_UPGRADE", "STRICT"}    \* errors answered with a count

\* A mistake: the error path forgets to reset ctx->L.
ExecuteReturnsWithState ==
  /\ ~lua /\ op = "execute" /\ at = "return"
  /\ Leave
  /\ ctxL' = IF rc \in Quiet THEN "null" ELSE ctxL
  /\ lua' = TRUE
  /\ ret' = [count |-> 0, err |-> rc, nil |-> rc \notin Quiet]
  /\ UNCHANGED <<fed, crashed>>

execute_returns ==
  /\ ~lua /\ op = "execute" /\ at = "return"
  /\ Leave
  /\ ctxL' = "null" /\ lua' = TRUE
  /\ LET count == IF rc \in Quiet THEN Count ELSE 0
     IN /\ ret' = [count |-> count, err |-> rc, nil |-> rc \notin Quiet]
        /\ fed' = IF saved = <<>> /\ count # Outside THEN fed + count ELSE fed
  /\ UNCHANGED crashed

finish_(b) ==
  /\ Allowed("finish")
  /\ llhttp_finish(b)
  /\ ctxL' = "set" /\ lua' = FALSE
  /\ UNCHANGED <<ret, fed, crashed>>

finish_returns ==
  /\ ~lua /\ op = "finish" /\ at = "return"
  /\ Leave
  /\ ctxL' = "null" /\ lua' = TRUE
  /\ ret' = [count |-> 0, err |-> rc, nil |-> rc \notin {"OK", "PAUSED"}]
  /\ UNCHANGED <<fed, crashed>>

\* parser:reset().  The application then parses the stream from its start.
reset ==
  /\ Allowed("reset")
  /\ llhttp_reset
  /\ fed' = IF op = "none" THEN 0 ELSE fed
  /\ UNCHANGED <<ctxL, lua, ret, crashed>>

pause == Allowed("pause") /\ llhttp_pause /\ UNCHANGED bindingVars
resume == Allowed("resume") /\ llhttp_resume /\ UNCHANGED bindingVars
resume_after_upgrade ==
  Allowed("resume_after_upgrade") /\ llhttp_resume_after_upgrade /\ UNCHANGED bindingVars

-----------------------------------------------------------------------------
(* Callbacks *)

\* The C callbacks that push their arguments before pcall_callback tests L.
PushesFirst == Spans \cup {"on_headers_complete", "on_chunk_header"}

Entering == ~lua /\ cb # "none" /\ ~crashed

\* lhttp_parser_pcall_callback, with a handler: Lua code takes control.
call_handler ==
  /\ Entering /\ ctxL = "set" /\ cb \notin Missing
  /\ lua' = TRUE
  /\ UNCHANGED <<parserVars, registers, saved, stream, ctxL, ret, fed, crashed>>

\* Without one it answers 0, which on_headers_complete takes for a failure.
no_handler ==
  /\ Entering /\ ctxL = "set" /\ cb \in Missing
  /\ CallbackReturns(IF cb = "on_headers_complete" THEN HPE_USER ELSE 0)
  /\ UNCHANGED bindingVars

no_state ==
  /\ Entering /\ ctxL = "null"
  /\ IF cb \in PushesFirst
     THEN crashed' = TRUE /\ UNCHANGED <<parserVars, registers, saved, stream>>
     ELSE CallbackReturns(HPE_INTERNAL) /\ UNCHANGED crashed
  /\ UNCHANGED <<ctxL, lua, ret, fed>>

HandlerRuns == lua /\ cb # "none"

\* The handler ends: a Lua error is caught and answered as HPE_USER.
handler_ends ==
  /\ HandlerRuns
  /\ \/ "errors" \in Outcomes /\ CallbackReturns(HPE_USER)
     \/ /\ "returns" \in Outcomes
        /\ IF cb = "on_headers_complete"
           THEN \E r \in HeaderResults : CallbackReturns(r)
           ELSE CallbackReturns(0)
  /\ lua' = FALSE
  /\ UNCHANGED <<ctxL, ret, fed, crashed>>

\* luaL_optinteger raises on a result that is no integer: the error unwinds
\* llhttp_execute and execute, and reaches the Lua code that called execute.
handler_raises ==
  /\ HandlerRuns /\ cb = "on_headers_complete"
  /\ "answers no integer" \in Outcomes
  /\ Leave
  /\ ret' = [count |-> 0, err |-> "raised", nil |-> TRUE]
  /\ UNCHANGED <<ctxL, lua, fed, crashed>>

-----------------------------------------------------------------------------
run == ~lua /\ ~crashed /\ RunStep /\ UNCHANGED bindingVars

Init == InitParser /\ ctxL = "null" /\ lua = TRUE /\ ret = Unset /\ fed = 0 /\ crashed = FALSE

Method   == \/ \E n \in ChunkSizes : execute(n)
            \/ execute_nothing \/ finish_(NextByte)
            \/ pause \/ resume \/ resume_after_upgrade
Return   == execute_returns \/ finish_returns
Answer   == no_handler \/ no_state \/ handler_ends \/ handler_raises

\* Every step but the two that change what Lua code has seen of the stream.
Unseen == Method \/ run \/ Answer \/ Return

Next == Unseen \/ call_handler \/ reset

Spec == Init /\ [][Next]_vars

\* One thread runs: C code always goes on, and handlers end.
Fairness == WF_vars(run) /\ WF_vars(call_handler \/ Answer) /\ WF_vars(Return)
FairSpec == Spec /\ Fairness

-----------------------------------------------------------------------------
(* Properties *)

\* The parser's and the binding's variables hold values of their types.
BindingTypeOK ==
  /\ TypeOK
  /\ ctxL \in {"null", "set"} /\ lua \in BOOLEAN /\ crashed \in BOOLEAN
  /\ ret \in Answers /\ fed \in 0..Len(stream)

\* Callbacks always find the Lua state and nothing keeps it after the call:
\* ctx->L is set during execute and finish, NULL otherwise
\* (lhttp_parser.c 384-407 and 434-436).
LuaStateHeld == ctxL = IF op = "none" THEN "null" ELSE "set"

\* A parser that has failed does nothing more: until it is reset its fields stay
\* as they are and no handler is called (internal_execute's "lingering errors").
StaysFailed == /\ UNCHANGED <<current, error, spanVars, lineVars, headerVars, lifeVars>>
               /\ ~call_handler
FailureIsFinal == [][~reset /\ error \in Fatal => StaysFailed]_vars

\* Whenever the run loop stops early, error_pos points into the chunk being
\* parsed, so that execute's pos - chunk counts bytes of this chunk (398-400).
StopsEarly    == /\ op = "execute" /\ at # "return" /\ saved' = saved
                 /\ at' = "return" /\ rc' # "OK"
PointsInChunk == errorPos'.buf = Depth /\ base <= errorPos'.off /\ errorPos'.off <= end
StopsInChunk  == [][StopsEarly => PointsInChunk]_vars

\* A message is framed in one way: a Content-Length and a Transfer-Encoding are
\* never both accepted (llhttp.c 8732-8775), however the lines are cut.
OneFraming == ~ ({"CONTENT_LENGTH", "TRANSFER_ENCODING"} \subseteq flags)

\* Every call of execute and finish returns.
CallsReturn == op # "none" ~> op = "none"

-----------------------------------------------------------------------------
(* What comments and docs say and the code does not do: each is the property *)
(* of a run that finds it violated.                                          *)

\* execute answers how many bytes were read (readme.md 99).
CountIsOfThisChunk == ret.count # Outside

\* Callbacks test the Lua state before they use it (lhttp_parser.c 64).
NullStateIsCaught == ~crashed
=============================================================================

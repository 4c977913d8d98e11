--------------------------- MODULE LhttpParserProofs ---------------------------
(***************************************************************************)
(* Theorems about LhttpParser, for every stream, every way to cut it, every *)
(* depth of nested calls and every behaviour of the handlers.              *)
(***************************************************************************)
EXTENDS LhttpParser, LlhttpProofs

-----------------------------------------------------------------------------
(* The inductive invariant. *)

\* The bytes consumed end where the chunk of the outermost call begins.
BindingOK ==
  /\ ctxL \in {"null", "set"} /\ lua \in BOOLEAN /\ crashed \in BOOLEAN
  /\ ret \in Answers /\ fed \in 0..Len(stream) /\ stream \in Streams
  /\ op # "none" => fed = IF saved = <<>> THEN base ELSE saved[1].base

IInv == ParserOK /\ BindingOK

LEMMA InitIInv == Init => IInv
<1> SUFFICES ASSUME Init PROVE IInv
  OBVIOUS
<1>1. ParserOK /\ stream \in Streams
  BY InitKeeps DEF Init
<1>2. Len(stream) \in Nat
  BY <1>1, StreamsAssumption
<1>3. ret \in Answers
  BY DEF Init, Unset, Answers, Codes, Errors
<1>4. op = "none"
  BY DEF Init, InitParser
<1>5. lua \in BOOLEAN /\ crashed \in BOOLEAN /\ ctxL = "null" /\ fed = 0
  BY DEF Init
<1> QED BY <1>1, <1>2, <1>3, <1>4, <1>5 DEF IInv, BindingOK

LEMMA StartsInStream ==
  ASSUME IInv
  PROVE  /\ NextByte \in Nat /\ NextByte <= Len(stream) /\ Len(stream) \in Nat
         /\ op = "none" => NextByte = fed
BY StreamsAssumption DEF IInv, ParserOK, RegistersOK, BindingOK, NextByte

\* A call that starts: the outermost chunk begins where the bytes consumed end.
LEMMA EnterKeepsBinding ==
  ASSUME IInv, NEW f, Enter(f), f.op # "none", op = "none" => f.base = fed
  PROVE  /\ UNCHANGED stream
         /\ fed = IF saved' = <<>> THEN base' ELSE saved'[1].base
<1>1. CASE op = "none"
  BY <1>1 DEF IInv, ParserOK, SavedOK, Enter, Load
<1>2. CASE op # "none"
  <2>1. saved \in Seq(Frames) /\ saved' = Append(saved, Frame)
    BY <1>2 DEF IInv, ParserOK, SavedOK, Enter
  <2>2. saved' # <<>>
    BY <2>1, AppendProperties
  <2>3. CASE saved = <<>>
    BY <1>2, <2>1, <2>2, <2>3 DEF IInv, BindingOK, Enter, Frame
  <2>4. CASE saved # <<>>
    BY <1>2, <2>1, <2>2, <2>4 DEF IInv, BindingOK, Enter
  <2> QED BY <2>3, <2>4
<1> QED BY <1>1, <1>2

\* execute and finish start a call on bytes that are in the stream.
LEMMA CallsKeep ==
  ASSUME IInv, (\E n \in ChunkSizes : execute(n)) \/ finish_(NextByte)
  PROVE  IInv'
<1>1. CASE \E n \in ChunkSizes : execute(n)
  <2>1. PICK n \in ChunkSizes : execute(n)
    BY <1>1
  <2> DEFINE k == IF NextByte + n <= Len(stream) THEN n ELSE Len(stream) - NextByte
             f == [op |-> "execute", base |-> NextByte, end |-> NextByte + k, p |-> NextByte,
                   cb |-> "none", at |-> IF error = "OK" THEN current ELSE "return", rc |-> error]
  <2>2. k \in Nat /\ NextByte + k <= Len(stream)
    <3>1. n \in Nat \ {0}
      BY BindingAssumption
    <3>2. NextByte < Len(stream)
      BY <2>1 DEF execute
    <3> QED BY <3>1, <3>2, StartsInStream
  <2>3. Enter(f) /\ spanPos' \in Nat
    <3>1. llhttp_execute(NextByte, k)
      BY <2>1 DEF execute
    <3> HIDE DEF k
    <3> QED BY <3>1, StartsInStream DEF llhttp_execute, IInv, ParserOK, DataOK
  <2>4. /\ f.op \in Calls /\ f.at \in Rest /\ f.cb \in Callbacks \cup {"none"} /\ f.rc \in Codes
        /\ f.base \in Nat /\ f.end \in Nat /\ f.p = f.base /\ f.base <= f.end
        /\ f.end <= Len(stream) /\ (f.at = "return" => f.cb = "none")
    <3> HIDE DEF k
    <3> QED BY <2>2, StartsInStream DEF IInv, ParserOK, StopOK, Calls, Rest, Labels, SpanEnd, Codes
  <2>5. f.op # "none" /\ (op = "none" => f.base = fed)
    BY StartsInStream
  <2> HIDE DEF f
  <2>6. ParserOK'
    BY <2>3, <2>4, EnterKeeps DEF IInv
  <2>7. BindingOK'
    BY <2>1, <2>3, <2>5, EnterKeepsBinding DEF IInv, BindingOK, execute
  <2> QED BY <2>6, <2>7 DEF IInv
<1>2. CASE finish_(NextByte)
  <2> DEFINE calls == error = "OK" /\ finish = "SAFE_WITH_CB"
             f == [op |-> "finish", base |-> NextByte, end |-> NextByte, p |-> NextByte,
                   at |-> IF calls THEN "finish" ELSE "return",
                   cb |-> IF calls THEN "on_message_complete" ELSE "none",
                   rc |-> IF error = "OK" /\ finish = "UNSAFE" THEN "INVALID_EOF_STATE" ELSE "OK"]
  <2>1. Enter(f) /\ spanPos' \in Nat
    BY <1>2 DEF finish_, llhttp_finish, IInv, ParserOK, DataOK
  <2>2. /\ f.op \in Calls /\ f.at \in Rest /\ f.cb \in Callbacks \cup {"none"} /\ f.rc \in Codes
        /\ f.base \in Nat /\ f.end \in Nat /\ f.p = f.base /\ f.base <= f.end
        /\ f.end <= Len(stream) /\ (f.at = "return" => f.cb = "none")
    <3> HIDE DEF calls
    <3> QED BY StartsInStream DEF Calls, Rest, Labels, SpanEnd, Codes, Errors, Callbacks
  <2>3. f.op # "none" /\ (op = "none" => f.base = fed)
    BY StartsInStream
  <2> HIDE DEF f
  <2>4. ParserOK'
    BY <2>1, <2>2, EnterKeeps DEF IInv
  <2>5. BindingOK'
    BY <1>2, <2>1, <2>3, EnterKeepsBinding DEF IInv, BindingOK, finish_
  <2> QED BY <2>4, <2>5 DEF IInv
<1> QED BY <1>1, <1>2

\* nparsed counts bytes of the chunk, so the bytes consumed stay in the stream.
LEMMA CountTypes ==
  ASSUME IInv, op # "none"
  PROVE  /\ Count \in Nat \cup {Outside}
         /\ Count # Outside => base + Count <= Len(stream)
<1>1. /\ base \in Nat /\ end \in Nat /\ Len(stream) \in Nat /\ base <= end /\ end <= Len(stream)
      /\ errorPos.off \in Nat
  BY StartsInStream DEF IInv, ParserOK, RegistersOK, StopOK
<1>2. CASE rc = "OK"
  BY <1>1, <1>2 DEF Count
<1>3. CASE rc # "OK" /\ errorPos.buf = Depth
  BY <1>1, <1>3 DEF Count, IInv, ParserOK, PointerOK
<1>4. CASE rc # "OK" /\ errorPos.buf # Depth
  BY <1>4 DEF Count
<1> QED BY <1>2, <1>3, <1>4

\* A call that returns to the program: the Lua state is as before the call, and
\* the outermost call moves the stream forward by what it consumed.
LEMMA LeavesKeep ==
  ASSUME IInv, op # "none", Leave,
         ctxL' \in {"null", "set"}, lua' \in BOOLEAN, crashed' \in BOOLEAN, ret' \in Answers,
         saved # <<>> => fed' = fed, fed' \in 0..Len(stream)
  PROVE  IInv'
<1>1. ParserOK' /\ UNCHANGED stream
  BY LeaveKeeps DEF IInv
<1>2. op' # "none" => fed' = IF saved' = <<>> THEN base' ELSE saved'[1].base
  BY LeaveKeeps DEF IInv, BindingOK
<1> QED BY <1>1, <1>2 DEF IInv, BindingOK

LEMMA ReturnsKeep ==
  ASSUME IInv, Return \/ handler_raises
  PROVE  IInv'
<1>1. rc \in Codes /\ Codes \subseteq Codes \cup {"raised"}
  BY DEF IInv, ParserOK, RegistersOK
<1>2. CASE execute_returns
  <2> DEFINE count == IF rc \in Quiet THEN Count ELSE 0
  <2>1. op # "none" /\ count \in Nat \cup {Outside} /\ Leave
    BY <1>2, CountTypes DEF execute_returns
  <2>2. ret' \in Answers
    BY <1>1, <1>2, <2>1 DEF execute_returns, Answers
  <2>3. fed' \in 0..Len(stream) /\ (saved # <<>> => fed' = fed)
    <3>1. fed \in 0..Len(stream) /\ Len(stream) \in Nat
      BY StartsInStream DEF IInv, BindingOK
    <3>2. fed' = IF saved = <<>> /\ count # Outside THEN fed + count ELSE fed
      BY <1>2 DEF execute_returns
    <3>3. CASE saved = <<>> /\ count # Outside
      <4>1. fed = base
        BY <2>1, <3>3 DEF IInv, BindingOK
      <4>2. fed + count <= Len(stream)
        BY <2>1, <3>1, <3>3, <4>1, CountTypes
      <4> HIDE DEF count
      <4> QED BY <2>1, <3>1, <3>2, <3>3, <4>2
    <3>4. CASE ~ (saved = <<>> /\ count # Outside)
      BY <3>1, <3>2, <3>4
    <3> QED BY <3>3, <3>4
  <2>4. ctxL' \in {"null", "set"} /\ lua' \in BOOLEAN /\ crashed' \in BOOLEAN
    BY <1>2 DEF execute_returns, IInv, BindingOK
  <2> QED BY <2>1, <2>2, <2>3, <2>4, LeavesKeep
<1>3. CASE finish_returns
  <2>1. op # "none" /\ Leave /\ ret' \in Answers
    BY <1>1, <1>3 DEF finish_returns, Answers
  <2>2. /\ ctxL' \in {"null", "set"} /\ lua' \in BOOLEAN /\ crashed' \in BOOLEAN
        /\ fed' = fed /\ fed' \in 0..Len(stream)
    BY <1>3 DEF finish_returns, IInv, BindingOK
  <2> QED BY <2>1, <2>2, LeavesKeep
<1>4. CASE handler_raises
  <2>1. op # "none" /\ Leave /\ ret' \in Answers
    BY <1>4 DEF handler_raises, HandlerRuns, Answers, IInv, ParserOK, SavedOK
  <2>2. /\ ctxL' \in {"null", "set"} /\ lua' \in BOOLEAN /\ crashed' \in BOOLEAN
        /\ fed' = fed /\ fed' \in 0..Len(stream)
    BY <1>4 DEF handler_raises, IInv, BindingOK
  <2> QED BY <2>1, <2>2, LeavesKeep
<1> QED BY <1>2, <1>3, <1>4 DEF Return

\* The steps that stay in the same call.
LEMMA SameCallKeeps ==
  ASSUME IInv, ParserOK', UNCHANGED <<op, base, saved, stream, ctxL, ret, fed>>,
         lua' \in BOOLEAN, crashed' \in BOOLEAN
  PROVE  IInv'
BY DEF IInv, BindingOK

\* The C callbacks answer with integers the run loop knows, or crash.
LEMMA AnswerIsResult ==
  ASSUME no_handler \/ no_state \/ handler_ends
  PROVE  \/ \E r \in Results : CallbackReturns(r)
         \/ UNCHANGED <<parserVars, registers, saved>>
<1>1. CASE no_handler
  BY <1>1 DEF no_handler, HPE_USER, Results
<1>2. CASE no_state
  BY <1>2 DEF no_state, HPE_INTERNAL, Results
<1>3. CASE handler_ends
  BY <1>3, BindingAssumption DEF handler_ends, HPE_USER, Results
<1> QED BY <1>1, <1>2, <1>3

LEMMA AnswersKeep ==
  ASSUME IInv, no_handler \/ no_state \/ handler_ends
  PROVE  IInv'
<1> USE DEF bindingVars
<1>1. ASSUME NEW r \in Results, CallbackReturns(r), UNCHANGED <<ctxL, ret, fed>>,
             lua' \in BOOLEAN, crashed' \in BOOLEAN
      PROVE  IInv'
  BY <1>1, AnswerKeeps, SameCallKeeps DEF IInv, AnswerShape
<1>2. lua \in BOOLEAN /\ crashed \in BOOLEAN
  BY DEF IInv, BindingOK
<1>3. CASE no_handler
  <2>1. (IF cb = "on_headers_complete" THEN HPE_USER ELSE 0) \in Results
    BY DEF HPE_USER, Results
  <2> QED BY <1>1, <1>2, <1>3, <2>1 DEF no_handler
<1>4. CASE no_state
  <2>1. HPE_INTERNAL \in Results
    BY DEF HPE_INTERNAL, Results
  <2>2. CASE cb \in PushesFirst
    <3>1. UNCHANGED <<parserVars, registers, saved, stream, ctxL, ret, fed, lua>> /\ crashed' = TRUE
      BY <1>4, <2>2 DEF no_state
    <3>2. ParserOK'
      BY <3>1 DEF IInv, ParserOK, DataOK, StopOK, RegistersOK, SavedOK, PointerOK, InBounds, Depth,
                  parserVars, stopVars, spanVars, lineVars, headerVars, lifeVars, registers
    <3> QED BY <1>2, <3>1, <3>2, SameCallKeeps DEF registers
  <2>3. CASE cb \notin PushesFirst
    BY <1>1, <1>2, <1>4, <2>1, <2>3 DEF no_state
  <2> QED BY <2>2, <2>3
<1>5. CASE handler_ends
  <2>1. HPE_USER \in Results /\ 0 \in Results /\ HeaderResults \subseteq Results
    BY BindingAssumption DEF HPE_USER, Results
  <2> QED BY <1>1, <1>2, <1>5, <2>1 DEF handler_ends
<1> QED BY <1>3, <1>4, <1>5

\* execute of no bytes, pause and the two resumes.
LEMMA QuietMethodsKeep ==
  ASSUME IInv, execute_nothing \/ pause \/ resume \/ resume_after_upgrade
  PROVE  IInv'
<1>1. CASE execute_nothing
  <2>1. UNCHANGED <<parserVars, registers, saved, stream>>
    BY <1>1 DEF execute_nothing
  <2>2. ParserOK'
    BY <2>1 DEF IInv, ParserOK, DataOK, StopOK, RegistersOK, SavedOK, PointerOK, InBounds, Depth,
                parserVars, stopVars, spanVars, lineVars, headerVars, lifeVars, registers
  <2>3. ctxL' \in {"null", "set"} /\ ret' \in Answers /\ UNCHANGED <<lua, fed, crashed>>
    BY <1>1 DEF execute_nothing, Unset, Answers, Codes, Errors
  <2> QED BY <2>1, <2>2, <2>3 DEF IInv, BindingOK, registers
<1>2. CASE pause \/ resume \/ resume_after_upgrade
  <2>1. PICK from \in Errors, to \in Errors : SetError(from, to)
    BY <1>2 DEF pause, resume, resume_after_upgrade, llhttp_pause, llhttp_resume,
                llhttp_resume_after_upgrade, Errors, Pauses
  <2>2. ParserOK' /\ UNCHANGED <<registers, saved, stream>>
    BY <2>1, SetErrorKeeps DEF IInv, SetError
  <2>3. UNCHANGED bindingVars
    BY <1>2 DEF pause, resume, resume_after_upgrade
  <2> QED BY <2>2, <2>3, SameCallKeeps DEF IInv, BindingOK, registers, bindingVars
<1> QED BY <1>1, <1>2

LEMMA ResetKeepsIInv ==
  ASSUME IInv, reset
  PROVE  IInv'
<1>1. ParserOK' /\ UNCHANGED <<registers, saved, stream>>
  BY ResetKeeps DEF IInv, reset, llhttp_reset
<1>2. UNCHANGED <<ctxL, lua, ret, crashed>> /\ fed' = IF op = "none" THEN 0 ELSE fed
  BY DEF reset
<1>3. fed' \in 0..Len(stream')
  BY <1>1, <1>2, StartsInStream DEF IInv, BindingOK
<1> QED BY <1>1, <1>2, <1>3 DEF IInv, BindingOK, registers

LEMMA RunKeepsIInv ==
  ASSUME IInv, run
  PROVE  IInv' /\ RunShape
<1>1. ParserOK' /\ RunShape
  BY RunKeeps DEF IInv, run
<1>2. UNCHANGED <<op, base, saved, stream, ctxL, ret, fed>> /\ lua' \in BOOLEAN /\ crashed' \in BOOLEAN
  BY <1>1 DEF RunShape, run, bindingVars, IInv, BindingOK
<1> QED BY <1>1, <1>2, SameCallKeeps

LEMMA StutterKeeps ==
  ASSUME IInv, call_handler \/ UNCHANGED vars
  PROVE  IInv'
<1>1. UNCHANGED <<parserVars, registers, saved, stream, ctxL, ret, fed, crashed>> /\ lua' \in BOOLEAN
  BY DEF call_handler, vars, bindingVars, IInv, BindingOK
<1>2. ParserOK'
  BY <1>1 DEF IInv, ParserOK, DataOK, StopOK, RegistersOK, SavedOK, PointerOK, InBounds, Depth,
              parserVars, stopVars, spanVars, lineVars, headerVars, lifeVars, registers
<1> QED BY <1>1, <1>2, SameCallKeeps DEF IInv, BindingOK, registers

LEMMA NextKeepsIInv == IInv /\ [Next]_vars => IInv'
BY CallsKeep, QuietMethodsKeep, RunKeepsIInv, AnswersKeep, ReturnsKeep, ResetKeepsIInv,
   StutterKeeps DEF Next, Unseen, Method, Return, Answer

\* Every reachable state of the parser object satisfies the inductive invariant:
\* the read position and the delimiter a callback leaves unread are in the chunk,
\* the chunks in the stream, and error_pos in a chunk still being parsed
\* (llhttp__internal_execute and lhttp_parser_execute).
THEOREM Invariance == Spec => []IInv
<1> QED BY InitIInv, NextKeepsIInv, PTL DEF Spec

-----------------------------------------------------------------------------
(* What follows from it. *)

\* The fields of llhttp_t and of parser_ctx hold values of their types, and no
\* step of the run loop reads past the chunk, for every stream and program.
THEOREM TypeCorrect == Spec => []BindingTypeOK
<1>1. IInv => BindingTypeOK
  <2> SUFFICES ASSUME IInv PROVE BindingTypeOK
    OBVIOUS
  <2>1. DOMAIN saved = 1..Len(saved)
    BY LenProperties DEF IInv, ParserOK, SavedOK
  <2>2. \A i \in DOMAIN saved : InBounds(saved[i])
    BY <2>1 DEF IInv, ParserOK, SavedOK
  <2>3. current \in Labels
    BY DEF IInv, ParserOK, StopOK, Rest
  <2> QED BY <2>2, <2>3 DEF IInv, ParserOK, DataOK, StopOK, RegistersOK, SavedOK, BindingOK,
                            BindingTypeOK, TypeOK, InBounds
<1> QED BY <1>1, Invariance, PTL

\* When a step of the run loop stops early, so that execute will compute
\* error_pos - chunk (lhttp_parser.c 398-400), error_pos is in this call's chunk.
LEMMA StepStopsInChunk ==
  ASSUME IInv, Next
  PROVE  StopsEarly => PointsInChunk
<1> SUFFICES ASSUME StopsEarly PROVE PointsInChunk
  OBVIOUS
<1>1. op = "execute" /\ at # "return" /\ saved' = saved /\ at' = "return" /\ rc' # "OK"
  BY DEF StopsEarly
<1>2. (\E q \in base..end : errorPos' = Here(q)) => PointsInChunk
  BY DEF IInv, ParserOK, RegistersOK, Here, PointsInChunk
<1>3. CASE run
  BY <1>1, <1>2, <1>3, RunKeepsIInv DEF RunShape, Moves, CallsOut, Stops, Waits
<1>4. CASE no_handler \/ no_state \/ handler_ends
  <2>1. ~ UNCHANGED registers
    BY <1>1 DEF registers
  <2>2. PICK r \in Results : CallbackReturns(r)
    BY <1>4, <2>1, AnswerIsResult
  <2> QED BY <1>1, <1>2, <2>2, AnswerKeeps DEF AnswerShape, IInv
<1>5. CASE Leave
  <2>1. CASE saved = <<>>
    BY <1>1, <1>5, <2>1, LeaveKeeps DEF IInv
  <2>2. CASE saved # <<>>
    <3>1. Len(saved') = Len(saved) - 1 /\ Len(saved) \in Nat
      BY <1>1, <1>5, <2>2, LeaveKeeps DEF IInv, ParserOK, SavedOK
    <3> QED BY <1>1, <3>1
  <2> QED BY <2>1, <2>2
<1>6. CASE \E f : Enter(f)
  <2>1. Len(saved') = Len(saved) + 1 /\ Len(saved) \in Nat
    BY <1>1, <1>6 DEF Enter, IInv, ParserOK, SavedOK
  <2> QED BY <1>1, <2>1
<1>7. CASE UNCHANGED at
  BY <1>1, <1>7
<1> QED
  BY <1>3, <1>4, <1>5, <1>6, <1>7
  DEF Next, Unseen, Method, Return, Answer, execute, llhttp_execute, finish_, llhttp_finish,
      execute_nothing, pause, resume, resume_after_upgrade, llhttp_pause, llhttp_resume,
      llhttp_resume_after_upgrade, SetError, reset, llhttp_reset, call_handler, registers,
      execute_returns, finish_returns, handler_raises

\* The count execute answers is a distance within its chunk, in every execution.
THEOREM StopsInChunkHolds == Spec => StopsInChunk
<1>1. IInv /\ [Next]_vars => [StopsEarly => PointsInChunk]_vars
  BY StepStopsInChunk
<1> QED BY <1>1, Invariance, PTL DEF Spec, StopsInChunk

-----------------------------------------------------------------------------
(* Programs whose handlers start no call of their own parser, and answer      *)
(* onHeadersComplete with an integer or nothing.                             *)

PlainHandlers == NestedOps \cap Calls = {} /\ "answers no integer" \notin Outcomes

\* Between calls ctx->L is NULL, and a parser that has failed is on its way out.
PlainInv == /\ IInv /\ saved = <<>> /\ LuaStateHeld
            /\ error \in Fatal => at = "return" /\ cb = "none"

LEMMA PlainEnter ==
  ASSUME PlainInv, PlainHandlers,
         (\E n \in ChunkSizes : execute(n)) \/ finish_(NextByte) \/ execute_nothing
  PROVE  op = "none"
BY DEF PlainHandlers, execute, finish_, execute_nothing, Allowed, Calls

\* The steps that leave the call as it is.
LEMMA PlainSameCall ==
  ASSUME PlainInv, IInv', UNCHANGED <<op, saved, ctxL>>,
         error' \in Fatal => at' = "return" /\ cb' = "none"
  PROVE  PlainInv'
BY DEF PlainInv, LuaStateHeld

LEMMA PlainNext == PlainHandlers /\ PlainInv /\ [Next]_vars => PlainInv'
<1> SUFFICES ASSUME PlainHandlers, PlainInv, [Next]_vars PROVE PlainInv'
  OBVIOUS
<1>1. IInv /\ IInv'
  BY NextKeepsIInv DEF PlainInv
<1>2. /\ saved = <<>> /\ (error \in Fatal => at = "return" /\ cb = "none")
      /\ ctxL = IF op = "none" THEN "null" ELSE "set"
  BY DEF PlainInv, LuaStateHeld
<1>3. "OK" \notin Fatal /\ Pauses \cap Fatal = {}
  BY DEF Fatal, Pauses
<1>4. CASE \E n \in ChunkSizes : execute(n)
  <2>1. op = "none"
    BY <1>4, PlainEnter
  <2>2. /\ op' = "execute" /\ saved' = <<>> /\ ctxL' = "set" /\ error' = error /\ cb' = "none"
        /\ at' = IF error = "OK" THEN current ELSE "return"
    BY <1>2, <1>4, <2>1 DEF execute, llhttp_execute, Enter, Load, stopVars
  <2> QED BY <1>1, <1>3, <2>2 DEF PlainInv, LuaStateHeld
<1>5. CASE finish_(NextByte)
  <2>1. op = "none"
    BY <1>5, PlainEnter
  <2>2. /\ op' = "finish" /\ saved' = <<>> /\ ctxL' = "set" /\ error' = error
        /\ error # "OK" => at' = "return" /\ cb' = "none"
    BY <1>2, <1>5, <2>1 DEF finish_, llhttp_finish, Enter, Load, stopVars
  <2> QED BY <1>1, <1>3, <2>2 DEF PlainInv, LuaStateHeld
<1>6. CASE execute_nothing
  <2>1. op = "none"
    BY <1>6, PlainEnter
  <2>2. /\ UNCHANGED <<op, at, cb, error, saved>> /\ ctxL' = "null"
    BY <1>6 DEF execute_nothing, registers, parserVars, stopVars
  <2> QED BY <1>1, <1>2, <2>1, <2>2 DEF PlainInv, LuaStateHeld
<1>7. CASE Return
  <2>1. op' = "none" /\ saved' = <<>> /\ at' = "return" /\ cb' = "none" /\ ctxL' = "null"
    BY <1>2, <1>7 DEF Return, execute_returns, finish_returns, Leave, Load, Idle
  <2> QED BY <1>1, <2>1 DEF PlainInv, LuaStateHeld
<1>8. CASE run
  <2>1. RunShape /\ UNCHANGED ctxL
    BY <1>1, <1>8, RunKeepsIInv DEF run, bindingVars
  <2>2. error' \in Fatal => at' = "return" /\ cb' = "none"
    BY <1>2, <2>1 DEF RunShape, Moves, CallsOut, Stops, Waits, stopVars
  <2> QED BY <1>1, <2>1, <2>2, PlainSameCall DEF RunShape
<1>9. CASE no_handler \/ no_state \/ handler_ends
  <2>1. UNCHANGED ctxL /\ cb # "none"
    BY <1>9 DEF no_handler, no_state, handler_ends, Entering, HandlerRuns, bindingVars
  <2>2. CASE \E r \in Results : CallbackReturns(r)
    <3>1. AnswerShape
      BY <1>1, <2>2, AnswerKeeps DEF IInv
    <3>2. error' \in Fatal => at' = "return" /\ cb' = "none"
      BY <1>2, <2>1, <3>1 DEF AnswerShape
    <3> QED BY <1>1, <2>1, <3>1, <3>2, PlainSameCall DEF AnswerShape
  <2>3. CASE UNCHANGED <<parserVars, registers, saved>>
    BY <1>1, <1>2, <2>1, <2>3, PlainSameCall DEF parserVars, stopVars, registers
  <2> QED BY <1>9, <2>2, <2>3, AnswerIsResult
<1>10. CASE pause \/ resume \/ resume_after_upgrade
  <2>1. /\ UNCHANGED <<op, at, cb, saved, ctxL>>
        /\ error' = error \/ error' \in {"OK", "PAUSED"}
    BY <1>10 DEF pause, resume, resume_after_upgrade, llhttp_pause, llhttp_resume,
                 llhttp_resume_after_upgrade, SetError, registers, bindingVars
  <2>2. "PAUSED" \notin Fatal
    BY DEF Fatal
  <2> QED BY <1>1, <1>2, <1>3, <2>1, <2>2, PlainSameCall
<1>11. CASE reset
  <2>1. UNCHANGED <<op, at, cb, saved, ctxL>> /\ error' = "OK"
    BY <1>11 DEF reset, llhttp_reset, registers
  <2> QED BY <1>1, <1>3, <2>1, PlainSameCall
<1>12. CASE call_handler \/ UNCHANGED vars
  <2>1. UNCHANGED <<op, at, cb, saved, ctxL, error>>
    BY <1>12 DEF call_handler, vars, parserVars, stopVars, registers, bindingVars
  <2> QED BY <1>1, <1>2, <2>1, PlainSameCall
<1>13. ~ handler_raises
  BY DEF PlainHandlers, handler_raises
<1> QED
  BY <1>4, <1>5, <1>6, <1>7, <1>8, <1>9, <1>10, <1>11, <1>12, <1>13
  DEF Next, Unseen, Method, Answer

LEMMA PlainInit == Init => PlainInv
<1> SUFFICES ASSUME Init PROVE PlainInv
  OBVIOUS
<1>1. op = "none" /\ saved = <<>> /\ error = "OK" /\ ctxL = "null"
  BY DEF Init, InitParser
<1>2. "OK" \notin Fatal
  BY DEF Fatal
<1> QED BY <1>1, <1>2, InitIInv DEF PlainInv, LuaStateHeld

\* Callbacks find the Lua state and no call leaves it behind, as long as handlers
\* start no call of their parser (lhttp_parser.c 384-407, 434-436).
THEOREM LuaStateIsHeld ==
  ASSUME PlainHandlers PROVE Spec => []LuaStateHeld
<1>1. PlainInv => LuaStateHeld
  BY DEF PlainInv
<1>2. PlainInv /\ [Next]_vars => PlainInv'
  BY PlainNext
<1> QED BY PlainInit, <1>1, <1>2, PTL DEF Spec

\* Until it is reset a failed parser keeps its fields and calls nothing, whatever
\* the program asks of it (the lingering errors of llhttp__internal_execute).
LEMMA FailedStays ==
  ASSUME PlainHandlers, PlainInv, Next, ~reset, error \in Fatal
  PROVE  StaysFailed
<1>1. at = "return" /\ cb = "none" /\ saved = <<>>
  BY DEF PlainInv
<1>2. error \notin {"OK", "PAUSED", "PAUSED_UPGRADE"}
  BY DEF Fatal
<1>3. ~ run
  BY <1>1, RunKeepsIInv DEF RunShape, PlainInv
<1>4. ~ Answer /\ ~ call_handler
  BY <1>1 DEF Answer, call_handler, no_handler, no_state, handler_ends, handler_raises,
              Entering, HandlerRuns
<1>5. CASE \E n \in ChunkSizes : execute(n)
  BY <1>2, <1>4, <1>5 DEF execute, llhttp_execute, Enter, StaysFailed, stopVars, spanVars
<1>6. CASE finish_(NextByte)
  BY <1>4, <1>6 DEF finish_, llhttp_finish, Enter, StaysFailed, stopVars, spanVars
<1>7. CASE execute_nothing
  BY <1>4, <1>7 DEF execute_nothing, StaysFailed, parserVars, stopVars
<1>8. CASE pause \/ resume \/ resume_after_upgrade
  BY <1>2, <1>4, <1>8 DEF pause, resume, resume_after_upgrade, llhttp_pause, llhttp_resume,
                          llhttp_resume_after_upgrade, SetError, StaysFailed, restVars
<1>9. CASE Return
  BY <1>4, <1>9 DEF Return, execute_returns, finish_returns, Leave, StaysFailed
<1> QED BY <1>3, <1>4, <1>5, <1>6, <1>7, <1>8, <1>9 DEF Next, Unseen, Method

\* A failure is final, for every program whose handlers start no call of their
\* parser.
THEOREM FailureIsFinalHolds ==
  ASSUME PlainHandlers PROVE Spec => FailureIsFinal
<1>1. PlainInv /\ [Next]_vars => [~reset /\ error \in Fatal => StaysFailed]_vars
  BY FailedStays
<1>2. PlainInv /\ [Next]_vars => PlainInv'
  BY PlainNext
<1> QED BY PlainInit, <1>1, <1>2, PTL DEF Spec, FailureIsFinal

-----------------------------------------------------------------------------
(* A message has one framing, when handlers start no call of their own      *)
(* parser.  The check of a Content-Length against a Transfer-Encoding comes *)
(* before the value is read, and its flag is set after: between the two     *)
(* labels the chunk may end, the parser may be paused and the flags may be  *)
(* cleared.                                                                 *)

Framings    == {"CONTENT_LENGTH", "TRANSFER_ENCODING"}
ValueLabels == {"header_value_content_length", "header_value_content_length_ws"}
Checked     == ValueLabels \cup {"header_value_discard_ws"}

\* At the labels between the check and the flag, the other framing is not there.
Unconflicted(l) ==
  /\ l \in ValueLabels => "TRANSFER_ENCODING" \notin flags
  /\ l = "header_value_discard_ws" /\ headerState = "CONTENT_LENGTH" =>
       "TRANSFER_ENCODING" \notin flags
  /\ l = "header_value_discard_ws" /\ headerState = "TRANSFER_ENCODING" =>
       "CONTENT_LENGTH" \notin flags

\* It holds where the run loop is, and where it will go on.
FramingInv ==
  /\ PlainInv /\ OneFraming
  /\ op = "execute" /\ cb = "none" => Unconflicted(at)
  /\ op # "execute" \/ at \in {"return", "flush"} => Unconflicted(current)

\* A step to a label elsewhere that sets neither flag.
Elsewhere == /\ at' \notin Checked
             /\ at' \in {"return", "flush"} => current' \notin Checked
             /\ flags' \cap Framings \subseteq flags

LEMMA OutsideHeaders ==
  ASSUME \/ Start \/ UpdateFinish \/ LoadType \/ StartReqOrRes
         \/ ReadMethod \/ ReadSpaceBeforeUrl \/ ReadUrl \/ SkipToHttp \/ UrlToHttp09
         \/ ReadRequestVersion \/ EndRequestLine
         \/ ReadResponseVersion \/ ReadStatusCode \/ ReadStatus \/ EndStatusLine
  PROVE  Elsewhere
<1> USE DEF Elsewhere, Checked, ValueLabels, Go, Take, Pass, Stop, Reject, RejectAfter, Refuse,
            Call, EndSpan, restVars, headerVars
<1>1. CASE Start \/ UpdateFinish \/ LoadType \/ StartReqOrRes
  BY <1>1 DEF Start, UpdateFinish, LoadType, StartReqOrRes
<1>2. CASE ReadMethod \/ ReadSpaceBeforeUrl \/ ReadUrl \/ SkipToHttp
  BY <1>2 DEF ReadMethod, ReadSpaceBeforeUrl, ReadUrl, SkipToHttp
<1>3. CASE UrlToHttp09 \/ ReadRequestVersion \/ EndRequestLine
  BY <1>3 DEF UrlToHttp09, ReadRequestVersion, EndRequestLine
<1>4. CASE ReadResponseVersion \/ ReadStatusCode \/ ReadStatus \/ EndStatusLine
  BY <1>4 DEF ReadResponseVersion, ReadStatusCode, ReadStatus, EndStatusLine
<1> QED BY <1>1, <1>2, <1>3, <1>4

LEMMA OtherHeaderSteps ==
  ASSUME \/ HeadersStart \/ HeaderFieldStart \/ HeaderField
         \/ EmptyHeaderValue \/ ConnectionValue \/ TransferEncodingValue
         \/ HeaderValue \/ EndHeaderValue \/ HeadersAlmostDone
  PROVE  Elsewhere
<1> USE DEF Elsewhere, Checked, ValueLabels, Framings, StateFlags,
            Go, Take, Pass, Stop, Reject, RejectAfter, Refuse, Call, EndSpan, restVars, headerVars
<1>1. CASE HeadersStart \/ HeaderFieldStart \/ HeaderField
  BY <1>1 DEF HeadersStart, HeaderFieldStart, HeaderField
<1>2. CASE EmptyHeaderValue
  BY <1>2 DEF EmptyHeaderValue
<1>3. CASE ConnectionValue
  BY <1>3 DEF ConnectionValue
<1>4. CASE TransferEncodingValue
  BY <1>4 DEF TransferEncodingValue
<1>5. CASE HeaderValue \/ EndHeaderValue \/ HeadersAlmostDone
  BY <1>5 DEF HeaderValue, EndHeaderValue, HeadersAlmostDone
<1> QED BY <1>1, <1>2, <1>3, <1>4, <1>5

LEMMA BodyAndAfter ==
  ASSUME \/ AfterHeadersComplete \/ StartBody \/ ReadToEof \/ ConsumeBody
         \/ UpdateContentLength1 \/ ReadChunkSize \/ ChunkExtensions \/ EndChunkLine
         \/ LastChunk \/ IsEqualUpgrade \/ PauseForUpgrade \/ AfterMessageComplete \/ Closed
         \/ Invoke \/ FailDeferred
  PROVE  Elsewhere
<1> USE DEF Elsewhere, Checked, ValueLabels, Framings,
            Go, Take, Pass, Stop, Reject, RejectAfter, Refuse, Call, EndSpan, restVars, headerVars
<1>1. CASE AfterHeadersComplete \/ StartBody \/ ReadToEof
  BY <1>1 DEF AfterHeadersComplete, StartBody, ReadToEof
<1>2. CASE ConsumeBody
  BY <1>2 DEF ConsumeBody, ConsumeContentLength, Suspend
<1>3. CASE UpdateContentLength1 \/ ReadChunkSize
  BY <1>3 DEF UpdateContentLength1, ReadChunkSize
<1>4. CASE ChunkExtensions \/ EndChunkLine
  BY <1>4 DEF ChunkExtensions, EndChunkLine
<1>5. CASE LastChunk \/ IsEqualUpgrade \/ PauseForUpgrade \/ AfterMessageComplete \/ Closed
  BY <1>5 DEF LastChunk, IsEqualUpgrade, PauseForUpgrade, AfterMessageComplete, Closed
<1>6. CASE Invoke \/ FailDeferred
  BY <1>6 DEF Invoke, FailDeferred, Notify, Running
<1> QED BY <1>1, <1>2, <1>3, <1>4, <1>5, <1>6

\* What a step of the run loop must keep.
FramingKept == /\ OneFraming' /\ Unconflicted(at)'
               /\ at' \in {"return", "flush"} => Unconflicted(current)'

LEMMA ElsewhereKeeps ==
  ASSUME OneFraming, Elsewhere
  PROVE  FramingKept
BY DEF OneFraming, Elsewhere, FramingKept, Unconflicted, Checked, ValueLabels, Framings

\* The check (llhttp.c 8732-8775), the first byte of a value, the value of a
\* Content-Length, and the end of the chunk at any label.
LEMMA CheckedSteps ==
  ASSUME OneFraming, Unconflicted(at),
         LoadHeaderState \/ HeaderValueStart \/ ContentLengthValue \/ EndOfInput
  PROVE  FramingKept
<1> USE DEF OneFraming, Unconflicted, FramingKept, ValueLabels, Running, At, Reads,
            Go, Take, Pass, Stop, Reject, RejectAfter, Refuse, Call, EndSpan, restVars, headerVars
<1>1. CASE LoadHeaderState
  BY <1>1 DEF LoadHeaderState
<1>2. CASE HeaderValueStart
  BY <1>2 DEF HeaderValueStart
<1>3. CASE ContentLengthValue
  BY <1>3 DEF ContentLengthValue
<1>4. CASE EndOfInput
  <2>1. current' = at /\ UNCHANGED headerVars /\ at' \in {"return", "flush"}
    BY <1>4 DEF EndOfInput, Suspend
  <2> QED BY <2>1
<1> QED BY <1>1, <1>2, <1>3, <1>4

LEMMA RunKeepsFraming ==
  ASSUME OneFraming, Unconflicted(at), RunStep
  PROVE  FramingKept
BY OutsideHeaders, OtherHeaderSteps, BodyAndAfter, CheckedSteps, ElsewhereKeeps DEF RunStep

\* No callback stands between the check and the flag.
LEMMA AnswerKeepsFraming ==
  ASSUME OneFraming, NEW r, CallbackReturns(r),
         at \in {"return", "flush"} => Unconflicted(current), op = "execute"
  PROVE  FramingKept
<1>1. CASE NotifyReturns(r)
  <2>1. Notify[at].next \notin Checked \cup {"return", "flush"}
    BY <1>1 DEF NotifyReturns, Calling, Notify, Checked, ValueLabels
  <2>2. Elsewhere
    BY <1>1, <2>1 DEF NotifyReturns, Resume, Stop, Elsewhere, Checked, ValueLabels, restVars, headerVars
  <2> QED BY <2>2, ElsewhereKeeps
<1>2. CASE SpanReturns(r)
  <2>1. SpanEnd[at].next \notin Checked \cup {"return", "flush"}
    BY <1>2 DEF SpanReturns, Calling, SpanEnd, Checked, ValueLabels
  <2>2. Elsewhere
    BY <1>2, <2>1 DEF SpanReturns, Resume, Stop, Elsewhere, Checked, ValueLabels, restVars, headerVars
  <2> QED BY <2>2, ElsewhereKeeps
<1>3. CASE HeadersCompleteReturns(r)
  <2>1. Elsewhere
    BY <1>3 DEF HeadersCompleteReturns, Resume, Stop, Elsewhere, Checked, ValueLabels, Framings
  <2> QED BY <2>1, ElsewhereKeeps
<1>4. CASE FlushReturns(r)
  BY <1>4 DEF FlushReturns, Calling, FramingKept, OneFraming, Unconflicted, ValueLabels,
              restVars, headerVars
<1>5. CASE FinishReturns(r)
  BY <1>5 DEF FinishReturns
<1> QED BY <1>1, <1>2, <1>3, <1>4, <1>5 DEF CallbackReturns

\* The steps that change no flag, no header state and no label to go on at.
LEMMA SameFraming ==
  ASSUME FramingInv, PlainInv', UNCHANGED <<current, headerVars>>,
         \/ UNCHANGED <<op, at, cb>>
         \/ at' \in {"return", current} /\ op = "none"
  PROVE  FramingInv'
<1> USE DEF FramingInv, OneFraming, Unconflicted, ValueLabels, headerVars
<1>1. CASE UNCHANGED <<op, at, cb>>
  BY <1>1
<1>2. CASE at' \in {"return", current} /\ op = "none"
  BY <1>2
<1> QED BY <1>1, <1>2

LEMMA FramingNext == PlainHandlers /\ FramingInv /\ [Next]_vars => FramingInv'
<1> SUFFICES ASSUME PlainHandlers, FramingInv, [Next]_vars PROVE FramingInv'
  OBVIOUS
<1>1. PlainInv /\ PlainInv' /\ saved = <<>>
  BY PlainNext DEF FramingInv, PlainInv
<1>2. CASE \E n \in ChunkSizes : execute(n)
  <2>1. op = "none"
    BY <1>1, <1>2, PlainEnter
  <2>2. at' \in {"return", current} /\ UNCHANGED <<current, headerVars>>
    BY <1>2 DEF execute, llhttp_execute, Enter, Load, stopVars
  <2> QED BY <1>1, <2>1, <2>2, SameFraming
<1>3. CASE finish_(NextByte)
  <2>1. op = "none"
    BY <1>1, <1>3, PlainEnter
  <2>2. op' # "execute" /\ UNCHANGED <<current, headerVars>>
    BY <1>3 DEF finish_, llhttp_finish, Enter, Load, stopVars
  <2>3. Unconflicted(current)
    BY <2>1 DEF FramingInv
  <2> QED BY <1>1, <2>2, <2>3
          DEF FramingInv, OneFraming, Unconflicted, headerVars
<1>4. CASE Return
  <2>1. at = "return" /\ op' = "none" /\ UNCHANGED <<current, headerVars>>
    BY <1>1, <1>4 DEF Return, execute_returns, finish_returns, Leave, Load, Idle
  <2>2. Unconflicted(current)
    BY <2>1 DEF FramingInv
  <2> QED BY <1>1, <2>1, <2>2
          DEF FramingInv, OneFraming, Unconflicted, headerVars
<1>5. CASE run
  <2>1. op = "execute" /\ cb = "none" /\ op' = op /\ RunStep
    BY <1>1, <1>5, RunKeepsIInv DEF PlainInv, RunShape, run
  <2>2. FramingKept
    BY <2>1, RunKeepsFraming DEF FramingInv
  <2> QED BY <1>1, <2>1, <2>2 DEF FramingInv, FramingKept
<1>6. CASE no_handler \/ no_state \/ handler_ends
  <2>1. CASE UNCHANGED <<parserVars, registers, saved>>
    BY <1>1, <2>1, SameFraming DEF parserVars, stopVars, registers
  <2>2. CASE \E r \in Results : CallbackReturns(r)
    <3>1. PICK r \in Results : CallbackReturns(r)
      BY <2>2
    <3>2. AnswerShape
      BY <1>1, <3>1, AnswerKeeps DEF PlainInv, IInv
    <3>3. CASE op = "execute"
      <4>1. FramingKept
        BY <3>1, <3>3, AnswerKeepsFraming DEF FramingInv
      <4> QED BY <1>1, <3>2, <3>3, <4>1 DEF FramingInv, FramingKept, AnswerShape
    <3>4. CASE op # "execute"
      <4>1. FinishReturns(r)
        BY <3>1, <3>4 DEF CallbackReturns, NotifyReturns, SpanReturns, HeadersCompleteReturns,
                          FlushReturns, Calling
      <4>2. op' # "execute" /\ UNCHANGED <<current, headerVars>>
        BY <3>4, <4>1 DEF FinishReturns, stopVars, restVars
      <4>3. Unconflicted(current)
        BY <3>4 DEF FramingInv
      <4> QED BY <1>1, <4>2, <4>3 DEF FramingInv, OneFraming, Unconflicted, headerVars
    <3> QED BY <3>3, <3>4
  <2> QED BY <1>6, <2>1, <2>2, AnswerIsResult
<1>7. CASE pause \/ resume \/ resume_after_upgrade
  <2>1. UNCHANGED <<op, at, cb, current, headerVars>>
    BY <1>7 DEF pause, resume, resume_after_upgrade, llhttp_pause, llhttp_resume,
                llhttp_resume_after_upgrade, SetError, restVars, registers
  <2> QED BY <1>1, <2>1, SameFraming
<1>8. CASE reset
  <2>1. flags' = {}
    BY <1>8 DEF reset, llhttp_reset
  <2> QED BY <1>1, <2>1 DEF FramingInv, OneFraming, Unconflicted
<1>9. CASE execute_nothing \/ call_handler \/ UNCHANGED vars
  <2>1. UNCHANGED <<op, at, cb, current, headerVars>>
    BY <1>9 DEF execute_nothing, call_handler, vars, parserVars, stopVars, registers
  <2> QED BY <1>1, <2>1, SameFraming
<1>10. ~ handler_raises
  BY DEF PlainHandlers, handler_raises
<1> QED
  BY <1>2, <1>3, <1>4, <1>5, <1>6, <1>7, <1>8, <1>9, <1>10
  DEF Next, Unseen, Method, Answer

\* A message is never framed both by a length and by a coding, however the lines
\* are cut into chunks, paused, finished or reset (llhttp.c 8732-8775).
THEOREM OneFramingHolds ==
  ASSUME PlainHandlers PROVE Spec => []OneFraming
<1>1. Init => FramingInv
  <2> SUFFICES ASSUME Init PROVE FramingInv
    OBVIOUS
  <2>1. flags = {}
    BY DEF Init, InitParser
  <2> QED BY <2>1, PlainInit DEF FramingInv, OneFraming, Unconflicted
<1>2. FramingInv /\ [Next]_vars => FramingInv'
  BY FramingNext
<1>3. FramingInv => OneFraming
  BY DEF FramingInv
<1> QED BY <1>1, <1>2, <1>3, PTL DEF Spec
=============================================================================

----------------------------- MODULE LlhttpProofs -----------------------------
(***************************************************************************)
(* What a step of Llhttp's run loop does to the registers and to the fields *)
(* of llhttp_t, for every stream.  LhttpParserProofs builds on it.         *)
(***************************************************************************)
EXTENDS Llhttp, SequenceTheorems, TLAPS

\* Labels an execution may stop and go on at: none is a span's end, where the
\* delimiter is still to be consumed.
Rest == Labels \ DOMAIN SpanEnd

-----------------------------------------------------------------------------
(* The tables of Llhttp hold values of their types. *)

LEMMA NotifyTypes ==
  \A l \in DOMAIN Notify : /\ Notify[l].cb \in Callbacks
                           /\ Notify[l].next \in Rest \ {"return", "flush"}
                           /\ Notify[l].err \in Fatal
BY DEF Notify, Callbacks, Spans, Rest, Labels, ReadLabels, Fatal, SpanEnd

LEMMA SpanEndTypes ==
  \A l \in DOMAIN SpanEnd : /\ SpanEnd[l].cb \in Spans
                            /\ SpanEnd[l].next \in Rest \ {"return", "flush"}
                            /\ SpanEnd[l].skip \in {0, 1}
BY DEF SpanEnd, Spans, Rest, Labels, ReadLabels, DeferredError, Notify

LEMMA DeferredErrorTypes == \A l \in DOMAIN DeferredError : DeferredError[l] \in Fatal
BY DEF DeferredError, Fatal

-----------------------------------------------------------------------------
(* mul_add_content_length keeps content_length inside its type. *)

\* One more digit leaves content_length within its bounds, whether or not the
\* sum overflows (llhttp.c 809-834).
LEMMA MulAddBound ==
  ASSUME NEW radix \in Nat, NEW digit \in Nat, contentLength \in 0..MaxLength, MulAdd(radix, digit)
  PROVE  contentLength' \in 0..MaxLength
<1>1. MaxLength \in Nat
  BY MaxLengthAssumption
<1> DEFINE product == contentLength * radix
<1>2. product \in Nat
  BY <1>1
<1>3. CASE product > MaxLength
  BY <1>1, <1>2, <1>3 DEF MulAdd
<1>4. CASE product <= MaxLength /\ product > MaxLength - digit
  BY <1>1, <1>2, <1>4 DEF MulAdd, Overflows
<1>5. CASE product <= MaxLength - digit
  BY <1>1, <1>2, <1>5 DEF MulAdd, Overflows
<1> QED BY <1>1, <1>2, <1>3, <1>4, <1>5

LEMMA DigitTypes == \A t \in DOMAIN DigitOf : DigitOf[t] \in Nat
BY DEF DigitOf

-----------------------------------------------------------------------------
(* The inductive invariant. *)

DataOK ==
  /\ span \in Spans \cup {"none"} /\ spanPos \in Nat
  /\ type \in Types /\ method \in Methods /\ status \in Nat /\ version \in Versions
  /\ headerState \in HeaderStates /\ flags \subseteq Flags
  /\ contentLength \in 0..MaxLength
  /\ upgrade \in BOOLEAN /\ finish \in {"SAFE", "SAFE_WITH_CB", "UNSAFE"}
  /\ initialDone \in BOOLEAN

StopOK == /\ current \in Rest /\ error \in Errors
          /\ errorPos \in [buf : Nat, off : Nat]

\* The delimiter that a span's callback will consume is in the chunk.
RegistersOK ==
  /\ op \in Calls \cup {"none"} /\ at \in Labels /\ cb \in Callbacks \cup {"none"}
  /\ rc \in Codes /\ base \in Nat /\ end \in Nat /\ p \in Nat
  /\ base <= p /\ p <= end /\ end <= Len(stream)
  /\ at \in DOMAIN SpanEnd => p + SpanEnd[at].skip <= end
  /\ at = "return" => cb = "none"

InBounds(f) == /\ f.base <= f.p /\ f.p <= f.end /\ f.end <= Len(stream)
               /\ f.at \in DOMAIN SpanEnd => f.p + SpanEnd[f.at].skip <= f.end
               /\ f.at = "return" => f.cb = "none"

\* The interrupted calls are what they were when they called back.
SavedOK == /\ saved \in Seq(Frames)
           /\ \A i \in 1..Len(saved) : InBounds(saved[i])
           /\ op = "none" => saved = <<>> /\ cb = "none"

\* error_pos points into the chunk of a call that has not returned, or nowhere.
PointerOK ==
  /\ errorPos.buf <= Depth
  /\ \A i \in 1..Len(saved) :
       errorPos.buf = i => saved[i].base <= errorPos.off /\ errorPos.off <= saved[i].end
  /\ op # "none" /\ errorPos.buf = Depth => base <= errorPos.off /\ errorPos.off <= end

ParserOK == DataOK /\ StopOK /\ RegistersOK /\ SavedOK /\ PointerOK

-----------------------------------------------------------------------------
(* Every step of the run loop moves to another label, calls out, stops with *)
(* an error at the read position, or is out of input.                       *)

Moves    == /\ at' \in Rest \ {"return", "flush"}
            /\ UNCHANGED <<cb, rc, stopVars>>
CallsOut == /\ at' \in Labels \ {"return", "flush"} /\ cb' \in Callbacks
            /\ at' \in DOMAIN SpanEnd => p' + SpanEnd[at'].skip <= end
            /\ UNCHANGED <<rc, stopVars>>
Stops    == /\ at' = "return" /\ cb' = "none"
            /\ error' \in Fatal \cup Pauses /\ rc' = error' /\ errorPos' = Here(p')
            /\ current' \in Rest
Waits    == /\ current' \in Rest /\ UNCHANGED <<error, errorPos>>
            /\ \/ at' = "return" /\ cb' = "none" /\ rc' = "OK"
               \/ at' = "flush" /\ cb' \in Spans /\ rc' = rc

RunShape ==
  /\ op = "execute" /\ cb = "none" /\ at # "return"
  /\ UNCHANGED <<op, base, end, saved, stream>>
  /\ p' \in base..end
  /\ Moves \/ CallsOut \/ Stops \/ Waits

\* The labels the run loop goes to: no span ends there.
Onward == Rest \ {"return", "flush"}

LEMMA SpanLabels ==
  /\ DOMAIN SpanEnd =
       {"span_end_on_url", "span_end_on_url_1", "span_end_on_url_2",
        "span_end_on_status", "span_end_on_status_1",
        "span_end_on_header_field", "span_end_on_header_field_1",
        "span_end_on_header_value", "span_end_on_header_value_1", "span_end_on_header_value_2",
        "span_end_on_header_value_3", "span_end_on_header_value_6", "span_end_on_header_value_7",
        "span_end_on_header_value_8", "span_end_on_header_value_9",
        "span_end_on_body", "span_end_on_body_1"}
  /\ SpanEnd["span_end_on_header_value_6"].skip = 0
  /\ \A l \in {"span_end_on_body", "span_end_on_body_1"} :
       SpanEnd[l].skip = 0 /\ SpanEnd[l].cb = "on_body"
BY DEF SpanEnd

LEMMA NotifyLabels ==
  DOMAIN Notify = {"on_reset", "on_message_begin", "on_chunk_header", "on_chunk_complete",
                   "on_chunk_complete_2", "on_message_complete", "on_message_complete_1",
                   "on_message_complete_2"}
BY DEF Notify

LEMMA OnwardLabels ==
  /\ \A l \in ReadLabels : l \in Onward
  /\ \A l \in DOMAIN Notify \cup DOMAIN DeferredError : l \in Onward
  /\ \A l \in {"s_error", "load_type", "update_finish", "load_header_state",
              "on_headers_complete", "after_headers_complete", "update_content_length_1",
              "is_equal_content_length", "consume_content_length", "consume_content_length_1",
              "is_equal_upgrade", "pause_1", "after_message_complete"} : l \in Onward
  /\ \A l \in DOMAIN SpanEnd : l \in Labels \ {"return", "flush"}
<1>1. \A l \in ReadLabels : l \in Labels \ DOMAIN SpanEnd /\ l \notin {"return", "flush"}
  BY SpanLabels DEF Labels, ReadLabels
<1>2. DOMAIN DeferredError = {"error_99", "error_5", "error_52", "error_55", "error_57",
                              "error_58", "error_59", "error_60"}
  BY DEF DeferredError
<1> QED BY <1>1, <1>2, NotifyLabels, SpanLabels DEF Labels, Onward, Rest

\* A jump, an error and a call of the run loop have the shape of its steps.
LEMMA GoShape ==
  ASSUME StopOK, RegistersOK, Running, at # "return",
         NEW l \in Onward, NEW k \in base..end, Go(l, k)
  PROVE  RunShape
BY DEF RunShape, Moves, Onward, Running, Go

LEMMA StopShape ==
  ASSUME StopOK, RegistersOK, Running, at # "return",
         NEW e \in Fatal \cup Pauses, NEW k \in base..end, NEW l \in Rest, Stop(e, k, l)
  PROVE  RunShape
BY DEF RunShape, Stops, Running, Stop

LEMMA CallShape ==
  ASSUME StopOK, RegistersOK, Running, at # "return",
         NEW c \in Callbacks, NEW l \in Labels \ {"return", "flush"}, NEW k \in base..end,
         l \in DOMAIN SpanEnd => k + SpanEnd[l].skip <= end, Call(c, l, k)
  PROVE  RunShape
BY DEF RunShape, CallsOut, Running, Call

LEMMA EndShape ==
  ASSUME StopOK, RegistersOK, Running, at # "return",
         NEW l \in DOMAIN SpanEnd, NEW k \in base..end, k + SpanEnd[l].skip <= end, EndSpan(l, k)
  PROVE  RunShape
<1>1. SpanEnd[l].cb \in Callbacks /\ l \in Labels \ {"return", "flush"}
  BY SpanEndTypes, OnwardLabels DEF Callbacks
<1> QED BY <1>1, CallShape DEF EndSpan

LEMMA SuspendShape ==
  ASSUME StopOK, RegistersOK, DataOK, Running, at # "return", NEW l \in Rest, Suspend(l)
  PROVE  RunShape
<1>1. /\ current' \in Rest /\ UNCHANGED <<error, errorPos, op, base, end, p, saved, stream>>
      /\ \/ at' = "return" /\ rc' = "OK" /\ UNCHANGED cb
         \/ at' = "flush" /\ cb' = span /\ span # "none" /\ UNCHANGED rc
  BY DEF Suspend
<1>2. span # "none" => span \in Spans
  BY DEF DataOK
<1>3. p \in base..end
  BY DEF RegistersOK
<1> QED BY <1>1, <1>2, <1>3 DEF RunShape, Waits, Running

\* What a label that reads a byte, and one that does not, may do.
LEMMA ReadShapes ==
  ASSUME StopOK, RegistersOK, NEW from, from # "return", Reads(from)
  PROVE  /\ \A l \in Onward : Go(l, p) \/ Go(l, p + 1) \/ Go(l, end) => RunShape
         /\ \A toks : \A l \in Onward : Take(toks, l) \/ Pass(toks, l) => RunShape
         /\ \A e \in Fatal : Reject(e) \/ RejectAfter(e) => RunShape
         /\ \A toks : \A e \in Fatal : Refuse(toks, e) => RunShape
         /\ \A l \in DOMAIN SpanEnd : EndSpan(l, p) => RunShape
         /\ \A l \in DOMAIN SpanEnd : SpanEnd[l].skip = 0 /\ EndSpan(l, p + 1) => RunShape
         /\ \A c \in Callbacks : \A l \in DOMAIN SpanEnd : Call(c, l, p) => RunShape
<1>1. /\ Running /\ at # "return" /\ p \in base..end /\ p + 1 \in base..end /\ end \in base..end
      /\ p \in Nat /\ p + 1 <= end
  BY DEF Reads, At, RegistersOK
<1>2. \A l \in Onward : Go(l, p) \/ Go(l, p + 1) \/ Go(l, end) => RunShape
  BY <1>1, GoShape
<1>3. \A toks : \A l \in Onward : Take(toks, l) \/ Pass(toks, l) => RunShape
  BY <1>2 DEF Take, Pass
<1>4. \A e \in Fatal : Reject(e) \/ RejectAfter(e) => RunShape
  BY <1>1, StopShape, OnwardLabels DEF Reject, RejectAfter, Onward
<1>5. \A toks : \A e \in Fatal : Refuse(toks, e) => RunShape
  BY <1>4 DEF Refuse
<1>6. \A l \in DOMAIN SpanEnd : p + SpanEnd[l].skip <= end
  BY <1>1, SpanEndTypes
<1>7. \A l \in DOMAIN SpanEnd : EndSpan(l, p) => RunShape
  BY <1>1, <1>6, EndShape
<1>8. \A l \in DOMAIN SpanEnd : SpanEnd[l].skip = 0 /\ EndSpan(l, p + 1) => RunShape
  BY <1>1, EndShape
<1>9. \A c \in Callbacks : \A l \in DOMAIN SpanEnd : Call(c, l, p) => RunShape
  BY <1>1, <1>6, CallShape, OnwardLabels
<1> QED BY <1>2, <1>3, <1>4, <1>5, <1>7, <1>8, <1>9

LEMMA AtShapes ==
  ASSUME StopOK, RegistersOK, NEW from, from # "return", At(from)
  PROVE  /\ \A l \in Onward : Go(l, p) => RunShape
         /\ \A e \in Fatal : Reject(e) => RunShape
         /\ \A e \in Pauses : \A l \in Onward : Stop(e, p, l) => RunShape
<1>1. Running /\ at # "return" /\ p \in base..end
  BY DEF At, RegistersOK
<1>2. \A l \in Onward : Go(l, p) => RunShape
  BY <1>1, GoShape
<1>3. \A e \in Fatal : Reject(e) => RunShape
  BY <1>1, StopShape, OnwardLabels DEF Reject, Onward
<1>4. \A e \in Pauses : \A l \in Onward : Stop(e, p, l) => RunShape
  BY <1>1, StopShape DEF Onward
<1> QED BY <1>2, <1>3, <1>4

-----------------------------------------------------------------------------
(* The shape of each step of the run loop: where it goes, what it stops with. *)

LEMMA BetweenMessagesShape ==
  ASSUME DataOK, StopOK, RegistersOK,
         Start \/ UpdateFinish \/ LoadType \/ StartReqOrRes
  PROVE  RunShape
<1> USE ReadShapes, AtShapes, OnwardLabels
<1>1. CASE Start
  BY <1>1, NotifyLabels DEF Start, ReadLabels, Fatal
<1>2. CASE UpdateFinish
  BY <1>2, NotifyLabels DEF UpdateFinish, ReadLabels, Fatal
<1>3. CASE LoadType
  BY <1>3 DEF LoadType, ReadLabels, Fatal
<1>4. CASE StartReqOrRes
  BY <1>4 DEF StartReqOrRes, ReadLabels, Fatal
<1> QED BY <1>1, <1>2, <1>3, <1>4

LEMMA RequestLineShape ==
  ASSUME DataOK, StopOK, RegistersOK,
         ReadMethod \/ ReadSpaceBeforeUrl \/ ReadUrl \/ SkipToHttp \/ UrlToHttp09
         \/ ReadRequestVersion \/ EndRequestLine
  PROVE  RunShape
<1> USE ReadShapes, AtShapes, OnwardLabels
<1>1. CASE ReadMethod
  BY <1>1 DEF ReadMethod, ReadLabels, Fatal
<1>2. CASE ReadSpaceBeforeUrl
  BY <1>2 DEF ReadSpaceBeforeUrl, ReadLabels, Fatal
<1>3. CASE ReadUrl
  BY <1>3, SpanLabels DEF ReadUrl, ReadLabels, Fatal
<1>4. CASE SkipToHttp
  BY <1>4 DEF SkipToHttp, ReadLabels, Fatal
<1>5. CASE UrlToHttp09
  BY <1>5 DEF UrlToHttp09, ReadLabels, Fatal
<1>6. CASE ReadRequestVersion
  BY <1>6 DEF ReadRequestVersion, ReadLabels, Fatal
<1>7. CASE EndRequestLine
  BY <1>7 DEF EndRequestLine, ReadLabels, Fatal
<1> QED BY <1>1, <1>2, <1>3, <1>4, <1>5, <1>6, <1>7

LEMMA StatusLineShape ==
  ASSUME DataOK, StopOK, RegistersOK,
         ReadResponseVersion \/ ReadStatusCode \/ ReadStatus \/ EndStatusLine
  PROVE  RunShape
<1> USE ReadShapes, AtShapes, OnwardLabels
<1>1. CASE ReadResponseVersion
  BY <1>1 DEF ReadResponseVersion, ReadLabels, Fatal
<1>2. CASE ReadStatusCode
  BY <1>2 DEF ReadStatusCode, ReadLabels, Fatal
<1>3. CASE ReadStatus
  BY <1>3, SpanLabels DEF ReadStatus, ReadLabels, Fatal
<1>4. CASE EndStatusLine
  BY <1>4 DEF EndStatusLine, ReadLabels, Fatal
<1> QED BY <1>1, <1>2, <1>3, <1>4

LEMMA HeaderNamesReadShape ==
  ASSUME DataOK, StopOK, RegistersOK,
         HeadersStart \/ HeaderFieldStart \/ HeaderField \/ LoadHeaderState
  PROVE  RunShape
<1> USE ReadShapes, AtShapes, OnwardLabels
<1>1. CASE HeadersStart
  BY <1>1 DEF HeadersStart, ReadLabels, Fatal
<1>2. CASE HeaderFieldStart
  BY <1>2 DEF HeaderFieldStart, ReadLabels, Fatal
<1>3. CASE HeaderField
  BY <1>3, SpanLabels DEF HeaderField, ReadLabels, Fatal
<1>4. CASE LoadHeaderState
  BY <1>4 DEF LoadHeaderState, ReadLabels, Fatal
<1> QED BY <1>1, <1>2, <1>3, <1>4

LEMMA HeaderValuesShape ==
  ASSUME DataOK, StopOK, RegistersOK,
         HeaderValueStart \/ EmptyHeaderValue \/ ConnectionValue \/ ContentLengthValue
         \/ TransferEncodingValue \/ HeaderValue \/ EndHeaderValue \/ HeadersAlmostDone
  PROVE  RunShape
<1> USE ReadShapes, AtShapes, OnwardLabels
<1>1. CASE HeaderValueStart
  BY <1>1, SpanLabels DEF HeaderValueStart, ReadLabels, Fatal, Callbacks, Spans
<1>2. CASE EmptyHeaderValue
  BY <1>2, SpanLabels DEF EmptyHeaderValue, ReadLabels, Fatal, Callbacks, Spans
<1>3. CASE ConnectionValue
  BY <1>3 DEF ConnectionValue, ReadLabels, Fatal
<1>4. CASE ContentLengthValue
  BY <1>4, SpanLabels DEF ContentLengthValue, ReadLabels, Fatal
<1>5. CASE TransferEncodingValue
  BY <1>5, SpanLabels DEF TransferEncodingValue, ReadLabels, Fatal
<1>6. CASE HeaderValue
  BY <1>6, SpanLabels DEF HeaderValue, ReadLabels, Fatal
<1>7. CASE EndHeaderValue
  BY <1>7 DEF EndHeaderValue, ReadLabels, Fatal
<1>8. CASE HeadersAlmostDone
  BY <1>8, NotifyLabels DEF HeadersAlmostDone, ReadLabels, Fatal
<1> QED BY <1>1, <1>2, <1>3, <1>4, <1>5, <1>6, <1>7, <1>8

LEMMA BodyStepsShape ==
  ASSUME DataOK, StopOK, RegistersOK,
         AfterHeadersComplete \/ StartBody \/ ReadToEof \/ ConsumeBody
         \/ UpdateContentLength1 \/ ReadChunkSize \/ ChunkExtensions \/ EndChunkLine
         \/ LastChunk
  PROVE  RunShape
<1> USE ReadShapes, AtShapes, OnwardLabels
<1>1. CASE AfterHeadersComplete
  BY <1>1, NotifyLabels DEF AfterHeadersComplete, ReadLabels, Fatal
<1>2. CASE StartBody
  BY <1>2 DEF StartBody, ReadLabels, Fatal
<1>3. CASE ReadToEof
  BY <1>3 DEF ReadToEof, ReadLabels, Fatal
<1>4. CASE ConsumeBody
  <2>1. ASSUME NEW here \in Onward, NEW spanEnd \in DOMAIN SpanEnd, SpanEnd[spanEnd].skip = 0,
               ConsumeContentLength(here, spanEnd)
        PROVE  RunShape
    <3>1. Running /\ at # "return" /\ p \in base..end /\ p \in Nat /\ end \in Nat /\ base \in Nat
      BY <2>1 DEF ConsumeContentLength, At, Onward, RegistersOK
    <3>2. contentLength \in Nat
      BY MaxLengthAssumption DEF DataOK
    <3>3. CASE contentLength <= end - p
      <4>1. EndSpan(spanEnd, p + contentLength)
        BY <2>1, <3>1, <3>2, <3>3 DEF ConsumeContentLength
      <4>2. p + contentLength \in base..end /\ p + contentLength + SpanEnd[spanEnd].skip <= end
        BY <2>1, <3>1, <3>2, <3>3
      <4> QED BY <3>1, <4>1, <4>2, EndShape
    <3>4. CASE contentLength > end - p
      <4>1. Suspend(here) /\ here \in Rest
        BY <2>1, <3>1, <3>2, <3>4 DEF ConsumeContentLength, Onward
      <4> QED BY <3>1, <4>1, SuspendShape
    <3> QED BY <3>1, <3>2, <3>3, <3>4
  <2> QED BY <1>4, <2>1, SpanLabels DEF ConsumeBody
<1>5. CASE UpdateContentLength1
  BY <1>5 DEF UpdateContentLength1, ReadLabels, Fatal
<1>6. CASE ReadChunkSize
  BY <1>6 DEF ReadChunkSize, ReadLabels, Fatal
<1>7. CASE ChunkExtensions
  BY <1>7 DEF ChunkExtensions, ReadLabels, Fatal
<1>8. CASE EndChunkLine
  BY <1>8, NotifyLabels DEF EndChunkLine, ReadLabels, Fatal
<1>9. CASE LastChunk
  BY <1>9 DEF LastChunk, ReadLabels, Fatal
<1> QED BY <1>1, <1>2, <1>3, <1>4, <1>5, <1>6, <1>7, <1>8, <1>9

LEMMA AfterMessageShape ==
  ASSUME DataOK, StopOK, RegistersOK,
         IsEqualUpgrade \/ PauseForUpgrade \/ AfterMessageComplete \/ Closed \/ Invoke
         \/ FailDeferred \/ EndOfInput
  PROVE  RunShape
<1> USE ReadShapes, AtShapes, OnwardLabels
<1>1. CASE IsEqualUpgrade
  BY <1>1 DEF IsEqualUpgrade, ReadLabels, Fatal
<1>2. CASE PauseForUpgrade
  BY <1>2 DEF PauseForUpgrade, Pauses
<1>3. CASE AfterMessageComplete
  BY <1>3 DEF AfterMessageComplete, ReadLabels, Fatal
<1>4. CASE Closed
  BY <1>4 DEF Closed, ReadLabels, Fatal
<1>5. CASE Invoke
  <2>1. Running /\ p \in base..end
    BY <1>5 DEF Invoke, RegistersOK
  <2>2. PICK c \in Callbacks : Call(c, at, p) /\ at \in Onward
    BY <1>5, NotifyTypes DEF Invoke, Callbacks
  <2>3. at # "return" /\ at \in Labels \ {"return", "flush"} /\ at \notin DOMAIN SpanEnd
    BY <2>2 DEF Onward, Rest
  <2> QED BY <2>1, <2>2, <2>3, CallShape
<1>6. CASE FailDeferred
  <2>1. At(at) /\ at # "return" /\ DeferredError[at] \in Fatal /\ Reject(DeferredError[at])
    BY <1>6, DeferredErrorTypes DEF FailDeferred, At, Onward
  <2> QED BY <2>1
<1>7. CASE EndOfInput
  <2>1. Running /\ at \in Rest /\ at # "return" /\ Suspend(at)
    BY <1>7 DEF EndOfInput, Onward
  <2> QED BY <2>1, SuspendShape
<1> QED BY <1>1, <1>2, <1>3, <1>4, <1>5, <1>6, <1>7

-----------------------------------------------------------------------------
(* The fields of llhttp_t after each step of the run loop. *)

LEMMA BetweenMessagesData ==
  ASSUME DataOK, RegistersOK,
         Start \/ UpdateFinish \/ LoadType \/ StartReqOrRes
  PROVE  DataOK'
<1> USE DEF DataOK, RegistersOK, Reads, At, EndSpan, OpenSpan,
            restVars, spanVars, lineVars, headerVars, lifeVars
<1>1. CASE Start
  BY <1>1 DEF Start
<1>2. CASE UpdateFinish
  BY <1>2 DEF UpdateFinish
<1>3. CASE LoadType
  BY <1>3 DEF LoadType
<1>4. CASE StartReqOrRes
  BY <1>4 DEF StartReqOrRes, Types
<1> QED BY <1>1, <1>2, <1>3, <1>4

LEMMA RequestLineData ==
  ASSUME DataOK, RegistersOK,
         ReadMethod \/ ReadSpaceBeforeUrl \/ ReadUrl \/ SkipToHttp \/ UrlToHttp09
         \/ ReadRequestVersion \/ EndRequestLine
  PROVE  DataOK'
<1> USE DEF DataOK, RegistersOK, Reads, At, EndSpan, OpenSpan,
            restVars, spanVars, lineVars, headerVars, lifeVars
<1>1. CASE ReadMethod
  BY <1>1 DEF ReadMethod, Methods
<1>2. CASE ReadSpaceBeforeUrl
  BY <1>2 DEF ReadSpaceBeforeUrl, Spans
<1>3. CASE ReadUrl
  BY <1>3 DEF ReadUrl
<1>4. CASE SkipToHttp
  BY <1>4 DEF SkipToHttp
<1>5. CASE UrlToHttp09
  BY <1>5 DEF UrlToHttp09, Versions
<1>6. CASE ReadRequestVersion
  BY <1>6 DEF ReadRequestVersion, Take, Versions, VersionOf
<1>7. CASE EndRequestLine
  BY <1>7 DEF EndRequestLine
<1> QED BY <1>1, <1>2, <1>3, <1>4, <1>5, <1>6, <1>7

LEMMA StatusLineData ==
  ASSUME DataOK, RegistersOK,
         ReadResponseVersion \/ ReadStatusCode \/ ReadStatus \/ EndStatusLine
  PROVE  DataOK'
<1> USE DEF DataOK, RegistersOK, Reads, At, EndSpan, OpenSpan,
            restVars, spanVars, lineVars, headerVars, lifeVars
<1>1. CASE ReadResponseVersion
  BY <1>1 DEF ReadResponseVersion, Take, Versions, VersionOf
<1>2. CASE ReadStatusCode
  BY <1>2 DEF ReadStatusCode, Take, StatusOf
<1>3. CASE ReadStatus
  BY <1>3 DEF ReadStatus, Spans
<1>4. CASE EndStatusLine
  BY <1>4 DEF EndStatusLine
<1> QED BY <1>1, <1>2, <1>3, <1>4

LEMMA HeaderNamesReadData ==
  ASSUME DataOK, RegistersOK,
         HeadersStart \/ HeaderFieldStart \/ HeaderField \/ LoadHeaderState
  PROVE  DataOK'
<1> USE DEF DataOK, RegistersOK, Reads, At, EndSpan, OpenSpan,
            restVars, spanVars, lineVars, headerVars, lifeVars
<1>1. CASE HeadersStart
  BY <1>1 DEF HeadersStart
<1>2. CASE HeaderFieldStart
  BY <1>2 DEF HeaderFieldStart, Spans
<1>3. CASE HeaderField
  BY <1>3 DEF HeaderField, HeaderStates, NameState
<1>4. CASE LoadHeaderState
  BY <1>4 DEF LoadHeaderState
<1> QED BY <1>1, <1>2, <1>3, <1>4

LEMMA HeaderValuesData ==
  ASSUME DataOK, RegistersOK,
         HeaderValueStart \/ EmptyHeaderValue \/ ConnectionValue \/ ContentLengthValue
         \/ TransferEncodingValue \/ HeaderValue \/ EndHeaderValue \/ HeadersAlmostDone
  PROVE  DataOK'
<1> USE DEF DataOK, RegistersOK, Reads, At, EndSpan, OpenSpan,
            restVars, spanVars, lineVars, headerVars, lifeVars
<1>1. CASE HeaderValueStart
  BY <1>1 DEF HeaderValueStart, Spans, HeaderStates, Flags
<1>2. CASE EmptyHeaderValue
  BY <1>2 DEF EmptyHeaderValue
<1>3. CASE ConnectionValue
  BY <1>3 DEF ConnectionValue, Take, HeaderStates, ConnectionState, StateFlags, Flags
<1>4. CASE ContentLengthValue
  <2>1. CASE /\ Tok \in DOMAIN DigitOf /\ MulAdd(10, DigitOf[Tok])
             /\ UNCHANGED flags /\ span' \in {span, "none"}
    <3>1. contentLength' \in 0..MaxLength
      BY <2>1, DigitTypes, MulAddBound
    <3> QED BY <1>4, <2>1, <3>1 DEF ContentLengthValue
  <2>2. CASE UNCHANGED contentLength
    BY <1>4, <2>2 DEF ContentLengthValue, Flags
  <2> QED BY <1>4, <2>1, <2>2 DEF ContentLengthValue
<1>5. CASE TransferEncodingValue
  BY <1>5 DEF TransferEncodingValue, HeaderStates
<1>6. CASE HeaderValue
  BY <1>6 DEF HeaderValue
<1>7. CASE EndHeaderValue
  <2>1. StateFlags(headerState) => headerState \in Flags
    BY DEF StateFlags, Flags
  <2>2. "CONNECTION" \in HeaderStates
    BY DEF HeaderStates
  <2> QED BY <1>7, <2>1, <2>2 DEF EndHeaderValue
<1>8. CASE HeadersAlmostDone
  BY <1>8 DEF HeadersAlmostDone, UpgradeWanted
<1> QED BY <1>1, <1>2, <1>3, <1>4, <1>5, <1>6, <1>7, <1>8

LEMMA BodyStepsData ==
  ASSUME DataOK, RegistersOK,
         AfterHeadersComplete \/ StartBody \/ ReadToEof \/ ConsumeBody
         \/ UpdateContentLength1 \/ ReadChunkSize \/ ChunkExtensions \/ EndChunkLine
         \/ LastChunk
  PROVE  DataOK'
<1> USE DEF DataOK, RegistersOK, Reads, At, EndSpan, OpenSpan,
            restVars, spanVars, lineVars, headerVars, lifeVars
<1>1. CASE AfterHeadersComplete
  BY <1>1 DEF AfterHeadersComplete
<1>2. CASE StartBody
  BY <1>2 DEF StartBody, Spans
<1>3. CASE ReadToEof
  BY <1>3 DEF ReadToEof
<1>4. CASE ConsumeBody
  <2>1. ASSUME NEW here, NEW spanEnd, ConsumeContentLength(here, spanEnd)
        PROVE  DataOK'
    <3>1. contentLength' \in 0..MaxLength
      BY <2>1, MaxLengthAssumption DEF ConsumeContentLength
    <3> QED BY <2>1, <3>1 DEF ConsumeContentLength, Suspend, Spans
  <2> QED BY <1>4, <2>1 DEF ConsumeBody
<1>5. CASE UpdateContentLength1
  BY <1>5, MaxLengthAssumption DEF UpdateContentLength1
<1>6. CASE ReadChunkSize
  <2>1. CASE Tok \in DOMAIN DigitOf /\ MulAdd(16, DigitOf[Tok])
    <3>1. contentLength' \in 0..MaxLength
      BY <2>1, DigitTypes, MulAddBound
    <3> QED BY <1>6, <3>1 DEF ReadChunkSize
  <2>2. CASE UNCHANGED contentLength
    BY <1>6, <2>2 DEF ReadChunkSize
  <2> QED BY <1>6, <2>1, <2>2 DEF ReadChunkSize
<1>7. CASE ChunkExtensions
  BY <1>7 DEF ChunkExtensions
<1>8. CASE EndChunkLine
  BY <1>8 DEF EndChunkLine
<1>9. CASE LastChunk
  BY <1>9 DEF LastChunk, Flags
<1> QED BY <1>1, <1>2, <1>3, <1>4, <1>5, <1>6, <1>7, <1>8, <1>9

LEMMA AfterMessageData ==
  ASSUME DataOK, RegistersOK,
         IsEqualUpgrade \/ PauseForUpgrade \/ AfterMessageComplete \/ Closed \/ Invoke
         \/ FailDeferred \/ EndOfInput
  PROVE  DataOK'
<1> USE DEF DataOK, RegistersOK, Reads, At, EndSpan, OpenSpan,
            restVars, spanVars, lineVars, headerVars, lifeVars
<1>1. CASE IsEqualUpgrade
  BY <1>1 DEF IsEqualUpgrade
<1>2. CASE PauseForUpgrade
  BY <1>2 DEF PauseForUpgrade
<1>3. CASE AfterMessageComplete
  <2>1. contentLength' \in 0..MaxLength /\ initialDone' \in BOOLEAN
    <3>1. CASE ShouldKeepAlive(type, status, version, flags)
      BY <1>3, <3>1, MaxLengthAssumption DEF AfterMessageComplete
    <3>2. CASE ~ ShouldKeepAlive(type, status, version, flags)
      BY <1>3, <3>2 DEF AfterMessageComplete
    <3> QED BY <3>1, <3>2
  <2> QED BY <1>3, <2>1 DEF AfterMessageComplete
<1>4. CASE Closed
  BY <1>4 DEF Closed
<1>5. CASE Invoke
  BY <1>5 DEF Invoke
<1>6. CASE FailDeferred
  BY <1>6 DEF FailDeferred
<1>7. CASE EndOfInput
  BY <1>7 DEF EndOfInput, Suspend
<1> QED BY <1>1, <1>2, <1>3, <1>4, <1>5, <1>6, <1>7

LEMMA RunStepShape ==
  ASSUME DataOK, StopOK, RegistersOK, RunStep
  PROVE  RunShape /\ DataOK'
<1>1. RunShape
  BY BetweenMessagesShape, RequestLineShape, StatusLineShape, HeaderNamesReadShape,
     HeaderValuesShape, BodyStepsShape, AfterMessageShape DEF RunStep
<1>2. DataOK'
  BY BetweenMessagesData, RequestLineData, StatusLineData, HeaderNamesReadData,
     HeaderValuesData, BodyStepsData, AfterMessageData DEF RunStep
<1> QED BY <1>1, <1>2

-----------------------------------------------------------------------------
(* Each operation keeps the invariant. *)

LEMMA StepKeepsBounds ==
  ASSUME ParserOK, op # "none",
         UNCHANGED <<op, base, end, saved, stream>>, p' \in base..end,
         errorPos' = errorPos \/ \E q \in base..end : errorPos' = Here(q)
  PROVE  /\ SavedOK' /\ PointerOK'
         /\ base' \in Nat /\ end' \in Nat /\ p' \in Nat
         /\ base' <= p' /\ p' <= end' /\ end' <= Len(stream')
         /\ errorPos' \in [buf : Nat, off : Nat]
<1> USE DEF ParserOK, RegistersOK, SavedOK, PointerOK, StopOK, Here, Depth, InBounds
<1>1. Len(saved) \in Nat /\ base..end \subseteq Nat
  OBVIOUS
<1>2. SavedOK'
  OBVIOUS
<1>3. errorPos' \in [buf : Nat, off : Nat]
  BY <1>1
<1>4. PointerOK'
  BY <1>1
<1> QED BY <1>2, <1>3, <1>4

\* A step of the run loop reads inside the chunk and leaves error_pos inside it.
LEMMA RunKeeps ==
  ASSUME ParserOK, RunStep
  PROVE  ParserOK' /\ RunShape
<1>1. RunShape /\ DataOK'
  BY RunStepShape DEF ParserOK
<1>2. errorPos' = errorPos \/ \E q \in base..end : errorPos' = Here(q)
  BY <1>1 DEF RunShape, Moves, CallsOut, Stops, Waits, stopVars
<1>3. SavedOK' /\ PointerOK' /\ errorPos' \in [buf : Nat, off : Nat]
  BY <1>1, <1>2, StepKeepsBounds DEF RunShape
<1>4. StopOK'
  BY <1>1, <1>3 DEF ParserOK, StopOK, RunShape, Moves, CallsOut, Stops, Waits, stopVars, Errors
<1>5. RegistersOK'
  <2>1. base' \in Nat /\ end' \in Nat /\ p' \in Nat /\ base' <= p' /\ p' <= end' /\ end' <= Len(stream')
    BY <1>1, <1>2, StepKeepsBounds DEF RunShape
  <2>2. "return" \in Rest /\ "flush" \in Rest /\ Rest \cap DOMAIN SpanEnd = {} /\ Rest \subseteq Labels
    BY DEF Rest, Labels, SpanEnd
  <2>3. op' \in Calls \cup {"none"} /\ cb' \in Callbacks \cup {"none"} /\ rc' \in Codes /\ at' \in Labels
    BY <1>1, <2>2 DEF ParserOK, RegistersOK, RunShape, Moves, CallsOut, Stops, Waits, Callbacks, Codes, Errors
  <2>4. /\ at' \in DOMAIN SpanEnd => p' + SpanEnd[at'].skip <= end'
        /\ at' = "return" => cb' = "none"
    BY <1>1, <2>2 DEF RunShape, Moves, CallsOut, Stops, Waits
  <2> QED BY <2>1, <2>3, <2>4 DEF RegistersOK
<1> QED BY <1>1, <1>3, <1>4, <1>5 DEF ParserOK

\* What the run loop may do with a callback's answer, for the same chunk.
AnswerShape ==
  /\ op # "none" /\ at # "return"
  /\ UNCHANGED <<op, base, end, saved, stream>>
  /\ p' \in base..end /\ cb' = "none" /\ at' \in Rest
  /\ error' \in Errors /\ current' \in Rest /\ rc' \in Codes
  /\ error' = error \/ at' = "return"
  /\ errorPos' = errorPos \/ \E q \in base..end : errorPos' = Here(q)
  /\ at' = "return" /\ rc' # "OK" /\ op = "execute" => \E q \in base..end : errorPos' = Here(q)

LEMMA ErrnoTypes == \A r \in Results : ErrnoOf(r) \in Errors
BY DEF Results, ErrnoOf, Errors, Pauses, Fatal

LEMMA AnswerSteps ==
  ASSUME ParserOK, NEW r \in Results, CallbackReturns(r)
  PROVE  AnswerShape /\ DataOK'
<1> USE DEF ParserOK, DataOK, StopOK, RegistersOK, AnswerShape, Calling, Resume, Stop,
            restVars, stopVars, spanVars, lineVars, headerVars, lifeVars
<1>0. at # "return"
  BY DEF CallbackReturns, NotifyReturns, SpanReturns, HeadersCompleteReturns, FlushReturns, FinishReturns
<1>1. p \in base..end /\ end \in base..end /\ Rest \subseteq Labels /\ "return" \in Rest
  BY DEF Rest, Labels, SpanEnd
<1>2. Pauses \subseteq Errors /\ Fatal \subseteq Errors /\ Errors \subseteq Codes
  BY DEF Errors, Codes
<1>3. CASE NotifyReturns(r)
  <2>1. /\ Notify[at].next \in Rest \ {"return"} /\ Notify[at].err \in Errors
        /\ "s_error" \in Rest /\ "PAUSED" \in Errors
    BY <1>2, <1>3, NotifyTypes DEF NotifyReturns, Rest, Labels, SpanEnd, Pauses
  <2> QED BY <1>0, <1>1, <1>2, <1>3, <2>1 DEF NotifyReturns
<1>4. CASE SpanReturns(r)
  <2>1. /\ SpanEnd[at].next \in Rest \ {"return"} /\ SpanEnd[at].skip \in {0, 1}
        /\ p + SpanEnd[at].skip \in base..end
    BY <1>4, SpanEndTypes DEF SpanReturns
  <2> QED BY <1>0, <1>1, <1>2, <1>4, <2>1, ErrnoTypes DEF SpanReturns
<1>5. CASE HeadersCompleteReturns(r)
  <2>1. /\ "after_headers_complete" \in Rest \ {"return"} /\ "s_error" \in Rest
        /\ "PAUSED" \in Errors /\ "CB_HEADERS_COMPLETE" \in Errors
    BY <1>2 DEF Rest, Labels, SpanEnd, Pauses, Fatal
  <2> QED BY <1>0, <1>1, <1>2, <1>5, <2>1 DEF HeadersCompleteReturns, Flags
<1>6. CASE FlushReturns(r)
  BY <1>0, <1>1, <1>2, <1>6, ErrnoTypes DEF FlushReturns, ErrnoOf
<1>7. CASE FinishReturns(r)
  BY <1>0, <1>1, <1>2, <1>7, ErrnoTypes DEF FinishReturns
<1> QED BY <1>3, <1>4, <1>5, <1>6, <1>7 DEF CallbackReturns

\* The answer of a callback is taken where the callback was called.
LEMMA AnswerKeeps ==
  ASSUME ParserOK, NEW r \in Results, CallbackReturns(r)
  PROVE  ParserOK' /\ AnswerShape
<1>1. AnswerShape /\ DataOK'
  BY AnswerSteps
<1>2. /\ SavedOK' /\ PointerOK' /\ errorPos' \in [buf : Nat, off : Nat]
      /\ base' \in Nat /\ end' \in Nat /\ p' \in Nat
      /\ base' <= p' /\ p' <= end' /\ end' <= Len(stream')
  BY <1>1, StepKeepsBounds DEF AnswerShape
<1>3. StopOK'
  BY <1>1, <1>2 DEF StopOK, AnswerShape
<1>4. RegistersOK'
  BY <1>1, <1>2 DEF ParserOK, RegistersOK, AnswerShape, Rest
<1> QED BY <1>1, <1>2, <1>3, <1>4 DEF ParserOK

\* A call that starts finds its chunk in the stream, and is saved whole when a
\* callback starts another.
LEMMA EnterKeeps ==
  ASSUME ParserOK, NEW f, Enter(f), spanPos' \in Nat,
         f.op \in Calls, f.at \in Rest, f.cb \in Callbacks \cup {"none"}, f.rc \in Codes,
         f.at = "return" => f.cb = "none", f.base \in Nat, f.end \in Nat, f.p = f.base, f.base <= f.end, f.end <= Len(stream)
  PROVE  ParserOK'
<1> USE DEF Enter, Load, stopVars
<1>1. DataOK'
  BY DEF ParserOK, DataOK, lineVars, headerVars, lifeVars
<1>2. StopOK'
  BY DEF ParserOK, StopOK
<1>3. RegistersOK'
  BY DEF RegistersOK, Rest
<1>4. op # "none" => Frame \in Frames /\ InBounds(Frame)
  BY DEF ParserOK, RegistersOK, Frame, Frames, InBounds, ProgramRuns
<1>5. SavedOK'
  <2>1. CASE op = "none"
    BY <2>1 DEF ParserOK, SavedOK, InBounds, Calls
  <2>2. CASE op # "none"
    <3>1. saved' \in Seq(Frames)
      BY <1>4, <2>2 DEF ParserOK, SavedOK
    <3>2. \A i \in 1..Len(saved') : saved'[i] = IF i = Len(saved) + 1 THEN Frame ELSE saved[i]
      BY <2>2 DEF ParserOK, SavedOK
    <3>3. Len(saved') = Len(saved) + 1 /\ Len(saved) \in Nat
      BY <2>2 DEF ParserOK, SavedOK
    <3>4. \A i \in 1..Len(saved') : InBounds(saved[i])'
      BY <1>4, <2>2, <3>2, <3>3 DEF ParserOK, SavedOK, InBounds
    <3> QED BY <3>1, <3>4 DEF SavedOK, Calls
  <2> QED BY <2>1, <2>2
<1>6. PointerOK'
  <2>1. CASE op = "none"
    BY <2>1 DEF ParserOK, StopOK, SavedOK, PointerOK, Depth, Calls
  <2>2. CASE op # "none"
    BY <2>2 DEF ParserOK, StopOK, SavedOK, PointerOK, Depth, Calls, Frame
  <2> QED BY <2>1, <2>2
<1> QED BY <1>1, <1>2, <1>3, <1>5, <1>6 DEF ParserOK

\* A call that returns gives the registers back to the call it interrupted, and
\* leaves no pointer into its chunk.
LEMMA LeaveKeeps ==
  ASSUME ParserOK, op # "none", Leave
  PROVE  /\ ParserOK'
         /\ saved = <<>> => op' = "none" /\ saved' = <<>> /\ at' = "return" /\ rc' = "OK"
         /\ saved # <<>> => /\ op' # "none" /\ Len(saved') = Len(saved) - 1
                           /\ (IF saved' = <<>> THEN base' ELSE saved'[1].base) = saved[1].base
         /\ UNCHANGED stream
<1> USE DEF Leave, Load
<1>1. DataOK'
  BY DEF ParserOK, DataOK, spanVars, lineVars, headerVars, lifeVars
<1>2. StopOK'
  BY DEF ParserOK, StopOK, Nowhere
<1>3. CASE saved = <<>>
  <2>1. op' = "none" /\ saved' = <<>> /\ at' = "return" /\ rc' = "OK" /\ cb' = "none"
    BY <1>3 DEF Idle
  <2>2. RegistersOK'
    BY <1>3 DEF ParserOK, RegistersOK, Idle, Labels, SpanEnd, Codes, Errors
  <2>3. SavedOK'
    BY <1>3, <2>1 DEF ParserOK, SavedOK
  <2>4. PointerOK'
    BY <1>3, <2>1 DEF ParserOK, StopOK, PointerOK, Depth, Nowhere
  <2> QED BY <1>1, <1>2, <1>3, <2>1, <2>2, <2>3, <2>4 DEF ParserOK
<1>4. CASE saved # <<>>
  <2> DEFINE n == Len(saved)
  <2>1. n \in Nat \ {0} /\ saved[n] \in Frames /\ InBounds(saved[n])
    BY <1>4 DEF ParserOK, SavedOK
  <2>2. /\ saved' \in Seq(Frames) /\ Len(saved') = n - 1
        /\ \A i \in 1..(n - 1) : saved'[i] = saved[i]
    <3>1. saved' = SubSeq(saved, 1, n - 1) /\ \A i \in 1..(n - 1) : saved[i] \in Frames
      BY <2>1 DEF ParserOK, SavedOK
    <3> HIDE DEF n
    <3> QED BY <2>1, <3>1, SubSeqProperties
  <2>3. op' # "none" /\ UNCHANGED stream
    BY <2>1 DEF Frames, Calls
  <2>4. RegistersOK'
    BY <2>1 DEF RegistersOK, Frames, InBounds
  <2>5. SavedOK'
    BY <2>1, <2>2, <2>3 DEF ParserOK, SavedOK, InBounds
  <2>6. PointerOK'
    <3>1. Depth = n + 1 /\ Depth' = n
      BY <2>1, <2>2, <2>3 DEF Depth
    <3>2. CASE errorPos.buf = Depth
      BY <2>1, <2>2, <3>1, <3>2 DEF PointerOK, Nowhere
    <3>3. CASE errorPos.buf # Depth
      BY <2>1, <2>2, <3>1, <3>3 DEF ParserOK, PointerOK, StopOK
    <3> QED BY <3>2, <3>3
  <2>7. (IF saved' = <<>> THEN base' ELSE saved'[1].base) = saved[1].base
    <3>1. CASE n = 1
      BY <2>1, <2>2, <3>1, EmptySeq
    <3>2. CASE n > 1
      <4> HIDE DEF n
      <4>1. saved' # <<>>
        <5>1. Len(saved') # 0
          BY <2>1, <2>2, <3>2
        <5> QED BY <5>1
      <4>2. saved'[1] = saved[1]
        BY <2>1, <2>2, <3>2
      <4> QED BY <4>1, <4>2
    <3> QED BY <2>1, <3>1, <3>2
  <2> QED BY <1>1, <1>2, <1>4, <2>2, <2>3, <2>4, <2>5, <2>6, <2>7 DEF ParserOK
<1> QED BY <1>3, <1>4

\* Reset, pause and resume leave the registers of every call alone.
LEMMA ResetKeeps ==
  ASSUME ParserOK, llhttp_reset
  PROVE  ParserOK'
<1> USE DEF ParserOK, llhttp_reset, registers
<1>1. DataOK'
  <2>1. contentLength' \in 0..MaxLength /\ version' \in Versions
    BY MaxLengthAssumption DEF Versions
  <2>2. /\ method' \in Methods /\ headerState' \in HeaderStates /\ type' \in Types
        /\ status' \in Nat /\ spanPos' \in Nat /\ flags' \subseteq Flags
    BY DEF DataOK, Methods, HeaderStates
  <2> QED BY <2>1, <2>2 DEF DataOK
<1>2. StopOK'
  BY DEF StopOK, Rest, Labels, ReadLabels, SpanEnd, Errors, Nowhere
<1>3. RegistersOK' /\ SavedOK'
  BY DEF RegistersOK, SavedOK, InBounds
<1>4. PointerOK'
  BY DEF SavedOK, PointerOK, Nowhere, Depth
<1> QED BY <1>1, <1>2, <1>3, <1>4

LEMMA SetErrorKeeps ==
  ASSUME ParserOK, NEW from, NEW to \in Errors, SetError(from, to)
  PROVE  ParserOK'
BY DEF ParserOK, SetError, DataOK, StopOK, RegistersOK, SavedOK, PointerOK, Depth, InBounds,
       registers, restVars, spanVars, lineVars, headerVars, lifeVars

LEMMA InitKeeps ==
  ASSUME InitParser
  PROVE  ParserOK /\ stream \in Streams
<1> USE DEF InitParser
<1>1. DataOK
  <2>1. contentLength \in 0..MaxLength /\ version \in Versions
    BY MaxLengthAssumption DEF Versions
  <2>2. /\ method \in Methods /\ headerState \in HeaderStates /\ type \in Types
        /\ status \in Nat /\ spanPos \in Nat /\ flags \subseteq Flags
    BY DEF DataOK, Methods, HeaderStates
  <2> QED BY <2>1, <2>2 DEF DataOK
<1>2. StopOK
  BY DEF StopOK, Rest, Labels, ReadLabels, SpanEnd, Errors, Nowhere
<1>3. RegistersOK
  BY StreamsAssumption DEF RegistersOK, Labels, SpanEnd, Codes, Errors
<1>4. SavedOK /\ PointerOK
  BY DEF SavedOK, PointerOK, Nowhere, Depth
<1> QED BY <1>1, <1>2, <1>3, <1>4 DEF ParserOK
=============================================================================

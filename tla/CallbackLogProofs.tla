--------------------------- MODULE CallbackLogProofs ---------------------------
(***************************************************************************)
(* CallbackLog implements CallbackOrder: handlers are called in order, a   *)
(* truncated message is noticed and a reset parser is new, for every       *)
(* stream and every way to cut it, when the program only executes, resets, *)
(* pauses and resumes a parser that has a handler for every callback.      *)
(***************************************************************************)
EXTENDS CallbackLog, LhttpParserProofs

-----------------------------------------------------------------------------
(* Where a parser is in a message, and what its handlers have seen then. *)

LastSeen == IF log = <<>> THEN "none" ELSE log[Len(log)][1]
Trailing == "TRAILING" \in flags

\* The labels of llhttp.c by the piece of syntax they read; a span's end goes with
\* the labels inside the span.
Beginning == {"load_type", "start_req_or_res", "after_start_req", "req_first_space_before_url",
              "req_spaces_before_url", "res_after_start", "res_after_version", "res_status_code",
              "res_status_code_otherwise", "span_start_on_status"}
InUrl     == {"url_start", "url"}
UrlEnds   == {"span_end_on_url", "span_end_on_url_1", "span_end_on_url_2"}
AfterUrl  == {"url_skip_to_http", "url_skip_to_http09", "url_skip_lf_to_http09",
              "url_skip_lf_to_http09_1", "url_to_http_09", "req_http_start", "req_http_complete",
              "req_http_complete_crlf"}
InStatus  == {"res_status"}
AroundStatus == {"span_end_on_status", "span_end_on_status_1", "res_line_almost_done"}
InField   == {"header_field", "header_field_colon", "header_field_general"}
FieldEnds == {"span_end_on_header_field", "span_end_on_header_field_1"}
AfterField == {"load_header_state", "header_value_discard_ws",
               "header_value_discard_ws_almost_done", "header_value_discard_lws"}
InValue   == {"header_value", "header_value_otherwise", "header_value_connection",
              "header_value_connection_ws", "header_value_connection_token",
              "header_value_content_length", "header_value_content_length_ws",
              "header_value_te_chunked", "header_value_te_chunked_last",
              "header_value_te_token", "header_value_te_token_ows"}
ValueEnds == {"span_end_on_header_value", "span_end_on_header_value_1",
              "span_end_on_header_value_2", "span_end_on_header_value_3",
              "span_end_on_header_value_6", "span_end_on_header_value_7",
              "span_end_on_header_value_8", "span_end_on_header_value_9"}
AfterValue == {"header_value_almost_done", "header_value_lws"}
ChunkLine == {"update_content_length_1", "chunk_size_digit", "chunk_size", "chunk_extensions",
              "chunk_extension_name", "chunk_size_almost_done", "on_chunk_header"}
ChunkData == {"consume_content_length", "span_end_on_body"}
AfterData == {"chunk_data_almost_done", "chunk_data_almost_done_1", "on_chunk_complete"}
WholeBody == {"consume_content_length_1", "eof", "span_end_on_body_1"}
InBody    == {"consume_content_length", "consume_content_length_1", "eof"}
AfterMessageLabels == {"is_equal_upgrade", "pause_1", "after_message_complete"}
HeaderLine == {"header_field_start", "headers_almost_done"} \cup InField \cup FieldEnds
                \cup AfterField \cup InValue \cup ValueEnds \cup AfterValue
Erring    == DOMAIN DeferredError

\* What a header line, or the end of a header section, comes after.
Heads       == {"on_message_begin", "on_url", "on_status", "on_header_value"}
BeforeField == IF Trailing THEN {"on_chunk_header", "on_header_value"} ELSE Heads

SeenBefore(l) ==
  /\ l = "start" => LastSeen = IF initialDone THEN "on_message_complete" ELSE "none"
  /\ l \in {"on_reset", "closed"} \cup AfterMessageLabels => LastSeen = "on_message_complete"
  /\ l \in {"update_finish", "on_message_begin"} => LastSeen \in {"none", "on_reset"}
  /\ l \in Beginning => LastSeen = "on_message_begin"
  /\ l \in InUrl \cup UrlEnds => LastSeen \in {"on_message_begin", "on_url"}
  /\ l \in AfterUrl => LastSeen = "on_url"
  /\ l \in InStatus \cup AroundStatus => LastSeen \in {"on_message_begin", "on_status"}
  /\ l \in {"headers_start", "header_field_start", "headers_almost_done",
            "on_headers_complete", "on_chunk_complete_2"} => LastSeen \in BeforeField
  /\ l \in InField \cup FieldEnds => LastSeen \in BeforeField \cup {"on_header_field"}
  /\ l \in AfterField => LastSeen = "on_header_field"
  /\ l \in InValue \cup ValueEnds => LastSeen \in {"on_header_field", "on_header_value"}
  /\ l \in AfterValue => LastSeen = "on_header_value"
  /\ l \in {"after_headers_complete", "span_start_on_body_1", "span_start_on_body_2",
            "on_message_complete", "on_message_complete_1"} => LastSeen = "on_headers_complete"
  /\ l \in ChunkLine => LastSeen \in {"on_headers_complete", "on_chunk_complete"}
  /\ l \in {"is_equal_content_length", "span_start_on_body"} => LastSeen = "on_chunk_header"
  /\ l \in ChunkData => LastSeen \in {"on_chunk_header", "on_body"}
  /\ l \in AfterData => LastSeen = "on_body"
  /\ l \in WholeBody => LastSeen \in {"on_headers_complete", "on_body"}
  /\ l = "on_message_complete_2" => LastSeen = IF Trailing THEN "on_chunk_complete" ELSE "on_body"

\* The fields of llhttp_t that say the same: the open span, the flag of the
\* trailers, and what the end of the connection would mean.
SpanAt(l) == IF l \in InUrl THEN "on_url"
             ELSE IF l \in InStatus THEN "on_status"
             ELSE IF l \in InField THEN "on_header_field"
             ELSE IF l \in InValue THEN "on_header_value"
             ELSE IF l \in InBody THEN "on_body" ELSE "none"

FinishAt(l) == IF l \in {"start", "closed", "on_reset", "update_finish"} THEN "SAFE"
               ELSE IF l \in {"span_start_on_body_2", "eof"} THEN "SAFE_WITH_CB" ELSE "UNSAFE"

FieldsAt(l) ==
  /\ span = SpanAt(l) /\ finish = FinishAt(l)
  /\ l = "on_chunk_complete_2" => Trailing
  /\ Trailing => l \in HeaderLine \cup AfterMessageLabels \cup Erring
                       \cup {"on_chunk_complete_2", "on_message_complete_2"}

Placed(l) == SeenBefore(l) /\ FieldsAt(l)

\* Where a parser that has not failed may go on: nowhere in the middle of a callback.
Waiting == ReadLabels \cup {"consume_content_length", "consume_content_length_1",
                            "after_headers_complete", "after_message_complete"}

CallbackAt(l) == IF l \in DOMAIN Notify THEN Notify[l].cb
                 ELSE IF l \in DOMAIN SpanEnd THEN SpanEnd[l].cb ELSE "on_headers_complete"
CallsBack(l) == l \in DOMAIN Notify \cup DOMAIN SpanEnd \cup {"on_headers_complete"}

\* In the run loop: the label is right for what was seen, or its callback's handler runs.
InLoop == /\ FieldsAt(at)
          /\ cb # "none" => CallsBack(at) /\ cb = CallbackAt(at)
          /\ IF lua THEN cb # "none" /\ LastSeen = cb ELSE SeenBefore(at)

\* At the end of a chunk and between calls: the label to go on at is.
AtEnd == /\ current \in Waiting /\ Placed(current)
         /\ op = "execute" /\ at = "flush" => /\ cb = span /\ cb # "none"
                                              /\ lua => LastSeen = cb

Located == IF op = "execute" /\ at \notin {"flush", "return"} THEN InLoop ELSE AtEnd

-----------------------------------------------------------------------------
(* The run loop. *)

\* What a step of the run loop does: it fails, or it moves to a label that is right
\* for what was seen; the flag of the trailers is set behind the last chunk's
\* header and cleared behind the message.
Flow ==
  /\ \/ error' \in Fatal
     \/ /\ at' \notin {"flush", "return"} /\ Placed(at)'
        /\ cb' # "none" => CallsBack(at') /\ cb' = CallbackAt(at')
     \/ /\ at' \in {"flush", "return"} /\ current' \in Waiting /\ Placed(current)'
        /\ at' = "flush" => cb' = span' /\ cb' # "none"
  /\ \/ Trailing' = Trailing
     \/ LastSeen = "on_chunk_header" /\ Trailing'
     \/ LastSeen = "on_message_complete" /\ ~Trailing'

SomeEnds == UrlEnds \cup {"span_end_on_status", "span_end_on_status_1"} \cup FieldEnds
              \cup ValueEnds \cup {"span_end_on_body", "span_end_on_body_1"}

LEMMA EndsCallBack ==
  \A l \in SomeEnds : CallsBack(l) /\ CallbackAt(l) = SpanEnd[l].cb
BY DEF SomeEnds, UrlEnds, FieldEnds, ValueEnds, CallsBack, CallbackAt, SpanEnd, Notify

LEMMA FlowBetween ==
  ASSUME Placed(at), LastSeen' = LastSeen,
         Start \/ UpdateFinish \/ LoadType \/ StartReqOrRes
  PROVE  Flow
<1> USE DEF Flow, Placed, SeenBefore, FieldsAt, SpanAt, FinishAt, Trailing, HeaderLine, Erring,
            BeforeField, Heads, Running, At, Reads, Go, Take, Pass,
            Beginning, InUrl, UrlEnds, AfterUrl, InStatus, AroundStatus, InField, FieldEnds,
            AfterField, InValue, ValueEnds, AfterValue, ChunkLine, ChunkData, AfterData,
            WholeBody, InBody, AfterMessageLabels, DeferredError,
            restVars, spanVars, headerVars, lifeVars
<1>1. CASE Start
  BY <1>1 DEF Start
<1>2. CASE UpdateFinish
  BY <1>2 DEF UpdateFinish
<1>3. CASE LoadType
  BY <1>3 DEF LoadType
<1>4. CASE StartReqOrRes
  BY <1>4 DEF StartReqOrRes
<1> QED BY <1>1, <1>2, <1>3, <1>4

LEMMA FlowRequestLine ==
  ASSUME Placed(at), LastSeen' = LastSeen,
         ReadMethod \/ ReadSpaceBeforeUrl \/ ReadUrl \/ SkipToHttp \/ UrlToHttp09
           \/ ReadRequestVersion \/ EndRequestLine
  PROVE  Flow
<1> USE EndsCallBack
    DEF Flow, Placed, SeenBefore, FieldsAt, SpanAt, FinishAt, Trailing, HeaderLine, Erring,
            BeforeField, Heads, Running, At, Reads, Go, Take, Pass, Stop, Reject, RejectAfter,
            Refuse, Call, EndSpan, OpenSpan, Fatal, SomeEnds,
            Beginning, InUrl, UrlEnds, AfterUrl, InStatus, AroundStatus, InField, FieldEnds,
            AfterField, InValue, ValueEnds, AfterValue, ChunkLine, ChunkData, AfterData,
            WholeBody, InBody, AfterMessageLabels, DeferredError,
            restVars, spanVars, headerVars, lifeVars
<1>1. CASE ReadMethod
  BY <1>1 DEF ReadMethod
<1>2. CASE ReadSpaceBeforeUrl
  BY <1>2 DEF ReadSpaceBeforeUrl
<1>3. CASE ReadUrl
  BY <1>3 DEF ReadUrl
<1>4. CASE SkipToHttp
  BY <1>4 DEF SkipToHttp
<1>5. CASE UrlToHttp09
  BY <1>5 DEF UrlToHttp09
<1>6. CASE ReadRequestVersion
  BY <1>6 DEF ReadRequestVersion
<1>7. CASE EndRequestLine
  BY <1>7 DEF EndRequestLine
<1> QED BY <1>1, <1>2, <1>3, <1>4, <1>5, <1>6, <1>7

LEMMA FlowStatusLine ==
  ASSUME Placed(at), LastSeen' = LastSeen,
         ReadResponseVersion \/ ReadStatusCode \/ ReadStatus \/ EndStatusLine
  PROVE  Flow
<1> USE EndsCallBack
    DEF Flow, Placed, SeenBefore, FieldsAt, SpanAt, FinishAt, Trailing, HeaderLine, Erring,
            BeforeField, Heads, Running, At, Reads, Go, Take, Pass, Stop, Reject, RejectAfter,
            Refuse, Call, EndSpan, OpenSpan, Fatal, SomeEnds,
            Beginning, InUrl, UrlEnds, AfterUrl, InStatus, AroundStatus, InField, FieldEnds,
            AfterField, InValue, ValueEnds, AfterValue, ChunkLine, ChunkData, AfterData,
            WholeBody, InBody, AfterMessageLabels, DeferredError,
            restVars, spanVars, headerVars, lifeVars
<1>1. CASE ReadResponseVersion
  BY <1>1 DEF ReadResponseVersion
<1>2. CASE ReadStatusCode
  BY <1>2 DEF ReadStatusCode
<1>3. CASE ReadStatus
  BY <1>3 DEF ReadStatus
<1>4. CASE EndStatusLine
  BY <1>4 DEF EndStatusLine
<1> QED BY <1>1, <1>2, <1>3, <1>4

LEMMA FlowHeaderLine ==
  ASSUME Placed(at), LastSeen' = LastSeen,
         HeadersStart \/ HeaderFieldStart \/ HeaderField \/ LoadHeaderState \/ HeaderValueStart
           \/ EmptyHeaderValue \/ ConnectionValue \/ ContentLengthValue
           \/ TransferEncodingValue \/ HeaderValue \/ EndHeaderValue \/ HeadersAlmostDone
  PROVE  Flow
<1> USE EndsCallBack
    DEF Flow, Placed, SeenBefore, FieldsAt, SpanAt, FinishAt, Trailing, HeaderLine, Erring,
            BeforeField, Heads, Running, At, Reads, Go, Take, Pass, Stop, Reject, RejectAfter,
            Refuse, Call, EndSpan, OpenSpan, Fatal, SomeEnds,
            Beginning, InUrl, UrlEnds, AfterUrl, InStatus, AroundStatus, InField, FieldEnds,
            AfterField, InValue, ValueEnds, AfterValue, ChunkLine, ChunkData, AfterData,
            WholeBody, InBody, AfterMessageLabels, DeferredError,
            restVars, spanVars, headerVars, lifeVars
<1>1. CASE HeadersStart
  BY <1>1 DEF HeadersStart
<1>2. CASE HeaderFieldStart
  BY <1>2 DEF HeaderFieldStart
<1>3. CASE HeaderField
  BY <1>3 DEF HeaderField
<1>4. CASE LoadHeaderState
  BY <1>4 DEF LoadHeaderState
<1>5. CASE HeaderValueStart
  BY <1>5 DEF HeaderValueStart, SpanEnd
<1>6. CASE EmptyHeaderValue
  BY <1>6 DEF EmptyHeaderValue, SpanEnd
<1>7. CASE ConnectionValue
  BY <1>7 DEF ConnectionValue, StateFlags
<1>8. CASE ContentLengthValue
  BY <1>8 DEF ContentLengthValue
<1>9. CASE TransferEncodingValue
  BY <1>9 DEF TransferEncodingValue
<1>10. CASE HeaderValue
  BY <1>10 DEF HeaderValue
<1>11. CASE EndHeaderValue
  BY <1>11 DEF EndHeaderValue, StateFlags
<1>12. CASE HeadersAlmostDone
  BY <1>12 DEF HeadersAlmostDone
<1> QED BY <1>1, <1>2, <1>3, <1>4, <1>5, <1>6, <1>7, <1>8, <1>9, <1>10, <1>11, <1>12

LEMMA FlowBody ==
  ASSUME Placed(at), LastSeen' = LastSeen,
         AfterHeadersComplete \/ StartBody \/ ReadToEof \/ UpdateContentLength1
           \/ ReadChunkSize \/ ChunkExtensions \/ EndChunkLine \/ LastChunk
  PROVE  Flow
<1> USE EndsCallBack
    DEF Flow, Placed, SeenBefore, FieldsAt, SpanAt, FinishAt, Trailing, HeaderLine, Erring,
            BeforeField, Heads, Running, At, Reads, Go, Take, Pass, Stop, Reject, RejectAfter,
            Refuse, Call, EndSpan, OpenSpan, Fatal, SomeEnds,
            Beginning, InUrl, UrlEnds, AfterUrl, InStatus, AroundStatus, InField, FieldEnds,
            AfterField, InValue, ValueEnds, AfterValue, ChunkLine, ChunkData, AfterData,
            WholeBody, InBody, AfterMessageLabels, DeferredError,
            restVars, spanVars, headerVars, lifeVars
<1>1. CASE AfterHeadersComplete
  BY <1>1 DEF AfterHeadersComplete
<1>2. CASE StartBody
  BY <1>2 DEF StartBody
<1>3. CASE ReadToEof
  BY <1>3 DEF ReadToEof
<1>4. CASE UpdateContentLength1
  BY <1>4 DEF UpdateContentLength1
<1>5. CASE ReadChunkSize
  BY <1>5 DEF ReadChunkSize
<1>6. CASE ChunkExtensions
  BY <1>6 DEF ChunkExtensions
<1>7. CASE EndChunkLine
  BY <1>7 DEF EndChunkLine
<1>8. CASE LastChunk
  BY <1>8 DEF LastChunk
<1> QED BY <1>1, <1>2, <1>3, <1>4, <1>5, <1>6, <1>7, <1>8

\* Calling out moves nothing.
LEMMA FlowInvoke ==
  ASSUME Placed(at), LastSeen' = LastSeen, Invoke
  PROVE  Flow
<1>1. at' = at /\ UNCHANGED restVars
  BY DEF Invoke, Call
<1>2. Placed(at)' /\ Trailing' = Trailing
  BY <1>1 DEF Placed, SeenBefore, FieldsAt, BeforeField, Trailing,
             restVars, spanVars, headerVars, lifeVars
<1>3. CallsBack(at) /\ cb' = CallbackAt(at) /\ at \notin {"flush", "return"}
  BY DEF Invoke, Call, CallsBack, CallbackAt, Notify, SpanEnd
<1> QED BY <1>1, <1>2, <1>3 DEF Flow

LEMMA FlowAfterMessage ==
  ASSUME Placed(at), LastSeen' = LastSeen,
         IsEqualUpgrade \/ PauseForUpgrade \/ AfterMessageComplete \/ Closed \/ Invoke
           \/ FailDeferred
  PROVE  Flow
<1> USE DEF Flow, Placed, SeenBefore, FieldsAt, SpanAt, FinishAt, Trailing, HeaderLine, Erring,
            BeforeField, Heads, Running, At, Reads, Go, Take, Pass, Stop, Reject, RejectAfter,
            Refuse, Call, EndSpan, OpenSpan, Fatal, SomeEnds,
            Beginning, InUrl, UrlEnds, AfterUrl, InStatus, AroundStatus, InField, FieldEnds,
            AfterField, InValue, ValueEnds, AfterValue, ChunkLine, ChunkData, AfterData,
            WholeBody, InBody, AfterMessageLabels, DeferredError,
            restVars, spanVars, headerVars, lifeVars
<1>1. CASE IsEqualUpgrade
  BY <1>1 DEF IsEqualUpgrade
<1>2. CASE PauseForUpgrade
  BY <1>2 DEF PauseForUpgrade, Waiting
<1>3. CASE AfterMessageComplete
  BY <1>3 DEF AfterMessageComplete
<1>4. CASE Closed
  BY <1>4 DEF Closed
<1>5. CASE Invoke
  BY <1>5, FlowInvoke
<1>6. CASE FailDeferred
  BY <1>6 DEF FailDeferred
<1> QED BY <1>1, <1>2, <1>3, <1>4, <1>5, <1>6

\* The end of a chunk changes nothing but the length of the body that is left.
LEMMA FlowEndOfInput ==
  ASSUME Placed(at), LastSeen' = LastSeen, RegistersOK, EndOfInput \/ ConsumeBody
  PROVE  Flow
<1>1. ASSUME at \in Waiting, Suspend(at), UNCHANGED flags, cb = "none"
      PROVE  Flow
  <2>1. Placed(current)' /\ Trailing' = Trailing /\ current' \in Waiting
    BY <1>1 DEF Suspend, Placed, SeenBefore, FieldsAt, BeforeField, Trailing, spanVars, lifeVars
  <2>2. at' \in {"flush", "return"} /\ (at' = "flush" => cb' = span' /\ cb' # "none")
    BY <1>1 DEF Suspend, spanVars
  <2> QED BY <2>1, <2>2 DEF Flow
<1>2. CASE EndOfInput
  BY <1>1, <1>2 DEF EndOfInput, Waiting, headerVars, Running
<1>3. ASSUME NEW here, NEW spanEnd, ConsumeContentLength(here, spanEnd),
             <<here, spanEnd>> \in {<<"consume_content_length", "span_end_on_body">>,
                                    <<"consume_content_length_1", "span_end_on_body_1">>}
      PROVE  Flow
  <2>1. CASE Suspend(here)
    BY <1>1, <1>3, <2>1 DEF ConsumeContentLength, Waiting, At, Running
  <2>2. CASE EndSpan(spanEnd, p + contentLength) /\ UNCHANGED lifeVars
    <3>1. at = here /\ UNCHANGED flags
      BY <1>3 DEF ConsumeContentLength, At
    <3> QED
    BY <1>3, <2>2, <3>1, EndsCallBack
    DEF Flow, Placed, SeenBefore, FieldsAt, SpanAt, FinishAt, Trailing,
        HeaderLine, Erring, Call, EndSpan, SomeEnds, spanVars, lifeVars,
        Beginning, InUrl, UrlEnds, AfterUrl, InStatus, AroundStatus, InField, FieldEnds,
        AfterField, InValue, ValueEnds, AfterValue, ChunkLine, ChunkData, AfterData,
        WholeBody, InBody, AfterMessageLabels, DeferredError
  <2> QED BY <1>3, <2>1, <2>2 DEF ConsumeContentLength
<1>4. CASE ConsumeBody
  BY <1>3, <1>4 DEF ConsumeBody
<1> QED BY <1>2, <1>4

LEMMA RunFlows ==
  ASSUME Placed(at), LastSeen' = LastSeen, RegistersOK, RunStep
  PROVE  Flow
BY FlowBetween, FlowRequestLine, FlowStatusLine, FlowHeaderLine, FlowBody, FlowAfterMessage,
   FlowEndOfInput DEF RunStep

-----------------------------------------------------------------------------
(* Programs and their invariant. *)

\* A program that has a handler for every callback and does not finish; its
\* handlers may pause and resume the parser, and may fail.
PlainProgram ==
  /\ PlainHandlers /\ Missing = {}
  /\ "finish" \notin TopOps /\ "reset" \notin NestedOps

\* What the history holds.
Entry == [1..3 -> Callbacks \cup Nat]
LogOK == log \in Seq(Entry) /\ \A i \in 1..Len(log) : log[i][1] \in Callbacks

OrderInv == /\ PlainInv /\ LogOK /\ op # "finish"
            /\ error \notin Fatal => Located

LEMMA LastSeenTypes ==
  ASSUME LogOK
  PROVE  /\ LastSeen \in Callbacks \cup {"none"}
         /\ LastSeen = "none" <=> log = <<>>
<1>1. log # <<>> => Len(log) \in 1..Len(log)
  BY DEF LogOK
<1>2. "none" \notin Callbacks
  BY DEF Callbacks, Spans
<1> QED BY <1>1, <1>2 DEF LogOK, LastSeen

\* The handler called last is the one that has been seen last, whether its value
\* is joined to the one before or not.
LEMMA RecordsCall ==
  ASSUME LogOK, NEW c \in Callbacks, NEW from \in Nat, NEW to \in Nat,
         log' = Record(<<c, from, to>>)
  PROVE  LogOK' /\ LastSeen' = c
<1> DEFINE e == <<c, from, to>>
           n == Len(log)
<1>1. e \in Entry /\ e[1] = c /\ e[3] \in Callbacks \cup Nat /\ log' = Record(e)
  BY DEF Entry
<1> HIDE DEF e
<1>2. log \in Seq(Entry) /\ n \in Nat /\ (log # <<>> => n \in 1..n /\ log[n] \in Entry)
  BY DEF LogOK
<1>3. CASE Continues(e)
  <2> DEFINE f == [log[n] EXCEPT ![3] = e[3]]
  <2>1. log # <<>> /\ log[n][1] = e[1]
    BY <1>3 DEF Continues
  <2>2. log' = [log EXCEPT ![n] = f]
    BY <1>1, <1>3 DEF Record
  <2>3. f \in Entry
    BY <1>1, <1>2, <2>1 DEF Entry
  <2>4. f[1] = c
    BY <1>1, <1>2, <2>1 DEF Entry
  <2> HIDE DEF f
  <2>5. log' \in Seq(Entry) /\ Len(log') = n /\ \A i \in 1..n : log'[i] = IF i = n THEN f ELSE log[i]
    <3>1. n \in 1..Len(log)
      BY <1>2, <2>1
    <3> HIDE DEF n
    <3>2. /\ [log EXCEPT ![n] = f] \in Seq(Entry) /\ Len([log EXCEPT ![n] = f]) = Len(log)
          /\ \A j \in 1..Len(log) : [log EXCEPT ![n] = f][j] = IF j = n THEN f ELSE log[j]
      BY <1>2, <2>3, <3>1, ExceptSeq
    <3> QED BY <2>2, <3>2 DEF n
  <2>6. n \in 1..n /\ log' # <<>>
    BY <1>2, <2>1, <2>5
  <2> QED BY <2>4, <2>5, <2>6 DEF LogOK, LastSeen
<1>4. CASE ~ Continues(e)
  <2>1. log' = Append(log, e)
    BY <1>1, <1>4 DEF Record
  <2>2. /\ log' \in Seq(Entry) /\ Len(log') = n + 1 /\ log'[n + 1] = e
        /\ \A i \in 1..n : log'[i] = log[i]
    <3>1. /\ Append(log, e) \in Seq(Entry) /\ Len(Append(log, e)) = n + 1
          /\ Append(log, e)[n + 1] = e /\ \A i \in 1..n : Append(log, e)[i] = log[i]
      BY <1>1, <1>2, AppendProperties
    <3> QED BY <2>1, <3>1
  <2>3. n + 1 \in 1..(n + 1) /\ log' # <<>> /\ \A i \in 1..(n + 1) : i = n + 1 \/ i \in 1..n
    BY <1>2, <2>2
  <2> QED BY <1>1, <2>2, <2>3 DEF LogOK, LastSeen
<1> QED BY <1>3, <1>4

\* An answer takes the run loop to a label that is right for the handler just
\* called, fails it, or pauses it.
LEMMA AnswerFlows ==
  ASSUME OrderInv, error \notin Fatal, handler_ends, LastSeen' = LastSeen
  PROVE  Flow /\ Trailing' = Trailing /\ cb' = "none"
<1>1. PICK r \in {0, 24} \cup HeaderResults :
        CallbackReturns(r) /\ (r \notin {0, 24} => cb = "on_headers_complete")
  BY DEF handler_ends, HPE_USER
<1>2. lua /\ cb # "none" /\ op = "execute" /\ Located /\ at # "return"
  BY DEF handler_ends, HandlerRuns, OrderInv, PlainInv, IInv, ParserOK, RegistersOK, SavedOK, Calls
<1>3. r = 24 => ErrnoOf(r) \in Fatal
  BY DEF ErrnoOf, Fatal
<1>4. CASE NotifyReturns(r)
  <2>1. at \in DOMAIN Notify /\ at \notin {"flush", "return"} /\ cb # "on_headers_complete"
    BY <1>2, <1>4 DEF NotifyReturns, Calling, Located, InLoop, CallsBack, CallbackAt, Notify
  <2>2. LastSeen = Notify[at].cb /\ FieldsAt(at) /\ UNCHANGED restVars /\ r \in {0, 24}
    BY <1>1, <1>2, <1>4, <2>1 DEF NotifyReturns, Located, InLoop, CallbackAt
  <2>3. CASE r = 0
    <3>1. at' = Notify[at].next /\ cb' = "none"
      BY <1>4, <2>3 DEF NotifyReturns, Resume
    <3>2. Placed(at)' /\ at' \notin {"flush", "return"} /\ Trailing' = Trailing
      BY <2>1, <2>2, <3>1
      DEF Notify, Placed, SeenBefore, FieldsAt, SpanAt, FinishAt, Trailing, HeaderLine, Erring,
          BeforeField, Heads, Beginning, InUrl, UrlEnds, AfterUrl, InStatus, AroundStatus,
          InField, FieldEnds, AfterField, InValue, ValueEnds, AfterValue, ChunkLine, ChunkData,
          AfterData, WholeBody, InBody, AfterMessageLabels, DeferredError,
          restVars, spanVars, headerVars, lifeVars
    <3> QED BY <3>1, <3>2 DEF Flow
  <2>4. CASE r = 24
    <3>1. error' \in Fatal /\ cb' = "none"
      BY <1>4, <2>1, <2>4, NotifyTypes DEF NotifyReturns, Stop
    <3> QED BY <2>2, <3>1 DEF Flow, Trailing, restVars, headerVars
  <2> QED BY <2>2, <2>3, <2>4
<1>5. CASE SpanReturns(r)
  <2>1. at \in DOMAIN SpanEnd /\ at \notin {"flush", "return"} /\ cb # "on_headers_complete"
    BY <1>2, <1>5 DEF SpanReturns, Calling, Located, InLoop, CallsBack, CallbackAt, SpanEnd, Notify
  <2>2. LastSeen = SpanEnd[at].cb /\ FieldsAt(at) /\ UNCHANGED restVars /\ r \in {0, 24}
    BY <1>1, <1>2, <1>5, <2>1 DEF SpanReturns, Located, InLoop, CallbackAt, SpanEnd, Notify
  <2>3. CASE r = 0
    <3>1. at' = SpanEnd[at].next /\ cb' = "none"
      BY <1>5, <2>3 DEF SpanReturns, Resume
    <3>2. Placed(at)' /\ at' \notin {"flush", "return"} /\ Trailing' = Trailing
      BY <2>1, <2>2, <3>1
      DEF SpanEnd, Placed, SeenBefore, FieldsAt, SpanAt, FinishAt, Trailing, HeaderLine, Erring,
          BeforeField, Heads, Beginning, InUrl, UrlEnds, AfterUrl, InStatus, AroundStatus,
          InField, FieldEnds, AfterField, InValue, ValueEnds, AfterValue, ChunkLine, ChunkData,
          AfterData, WholeBody, InBody, AfterMessageLabels, DeferredError,
          restVars, spanVars, headerVars, lifeVars
    <3> QED BY <3>1, <3>2 DEF Flow
  <2>4. CASE r = 24
    <3>1. error' \in Fatal /\ cb' = "none"
      BY <1>3, <1>5, <2>4 DEF SpanReturns, Stop
    <3> QED BY <2>2, <3>1 DEF Flow, Trailing, restVars, headerVars
  <2> QED BY <2>2, <2>3, <2>4
<1>6. CASE HeadersCompleteReturns(r)
  <2>1. at = "on_headers_complete" /\ cb = "on_headers_complete"
    BY <1>2, <1>6 DEF HeadersCompleteReturns, Calling, Located, InLoop, CallbackAt, Notify, SpanEnd
  <2>2. /\ LastSeen = "on_headers_complete" /\ span = "none" /\ finish = "UNSAFE" /\ ~Trailing
    BY <1>2, <2>1
    DEF Located, InLoop, FieldsAt, SpanAt, FinishAt, HeaderLine, Erring, InUrl, InStatus, InField,
        FieldEnds, AfterField, InValue, ValueEnds, AfterValue, InBody, AfterMessageLabels,
        DeferredError
  <2>3. /\ LastSeen' = "on_headers_complete" /\ span' = "none" /\ finish' = "UNSAFE" /\ ~Trailing'
        /\ cb' = "none"
    BY <1>6, <2>2 DEF HeadersCompleteReturns, Trailing, spanVars, Stop, Resume
  <2>9. Trailing' = Trailing
    BY <2>2, <2>3 DEF Trailing
  <2>4. at' = "after_headers_complete" => Placed(at)'
    BY <2>3
    DEF Placed, SeenBefore, FieldsAt, SpanAt, FinishAt, BeforeField, Heads, Beginning, InUrl,
        UrlEnds, AfterUrl, InStatus, AroundStatus, InField, FieldEnds, AfterField, InValue,
        ValueEnds, AfterValue, ChunkLine, ChunkData, AfterData, WholeBody, InBody,
        AfterMessageLabels
  <2>5. current' = "after_headers_complete" => Placed(current)'
    BY <2>3
    DEF Placed, SeenBefore, FieldsAt, SpanAt, FinishAt, BeforeField, Heads, Beginning, InUrl,
        UrlEnds, AfterUrl, InStatus, AroundStatus, InField, FieldEnds, AfterField, InValue,
        ValueEnds, AfterValue, ChunkLine, ChunkData, AfterData, WholeBody, InBody,
        AfterMessageLabels
  <2>6. CASE r \in {0, 1, 2}
    <3>1. at' = "after_headers_complete"
      BY <1>6, <2>6 DEF HeadersCompleteReturns, Resume
    <3> QED BY <2>3, <2>4, <2>9, <3>1 DEF Flow
  <2>7. CASE r = 21
    <3>1. at' = "return" /\ current' = "after_headers_complete"
      BY <1>6, <2>7 DEF HeadersCompleteReturns, Stop
    <3> QED BY <2>3, <2>5, <2>9, <3>1 DEF Flow, Waiting
  <2>8. CASE r \notin {0, 1, 2, 21}
    <3>1. error' = "CB_HEADERS_COMPLETE"
      BY <1>6, <2>8 DEF HeadersCompleteReturns, Stop
    <3> QED BY <2>3, <2>9, <3>1 DEF Flow, Fatal
  <2> QED BY <2>6, <2>7, <2>8
<1>7. CASE FlushReturns(r)
  <2>1. at = "flush" /\ cb \in Spans /\ current \in Waiting /\ Placed(current)
    BY <1>2, <1>7 DEF FlushReturns, Calling, Located, AtEnd, OrderInv, PlainInv, IInv, ParserOK, DataOK
  <2>2. r \in {0, 24} /\ UNCHANGED <<current, restVars>> /\ at' = "return" /\ cb' = "none"
    BY <1>1, <1>7, <2>1 DEF FlushReturns, Spans
  <2>3. Placed(current)' /\ Trailing' = Trailing
    BY <2>1, <2>2 DEF Placed, SeenBefore, FieldsAt, BeforeField, Trailing,
                      restVars, spanVars, headerVars, lifeVars
  <2>4. CASE r = 0
    BY <2>1, <2>2, <2>3 DEF Flow
  <2>5. CASE r = 24
    BY <1>3, <1>7, <2>2, <2>3, <2>5 DEF FlushReturns, Flow
  <2> QED BY <2>2, <2>3, <2>4, <2>5
<1>8. ~ FinishReturns(r)
  BY <1>2 DEF FinishReturns
<1> QED BY <1>1, <1>4, <1>5, <1>6, <1>7, <1>8 DEF CallbackReturns

-----------------------------------------------------------------------------
(* The calls of handlers, and the abstract order. *)

OrderStep == [Order!Next]_(Order!orderVars)

\* Each of the two abstract variables is a part of the state that Located names.
LEMMA OrderStutters ==
  ASSUME LastSeen' = LastSeen, Trailing' = Trailing
  PROVE  OrderStep
BY DEF OrderStep, Order!orderVars, LastSeen, Trailing

LEMMA OrderOfFlow ==
  ASSUME Flow, LastSeen' = LastSeen
  PROVE  OrderStep
<1>1. CASE Trailing' = Trailing
  BY <1>1, OrderStutters
<1>2. CASE LastSeen = "on_chunk_header" /\ Trailing'
  BY <1>2 DEF OrderStep, Order!Next, Order!SeeLastChunk, LastSeen, Trailing
<1>3. CASE LastSeen = "on_message_complete" /\ ~Trailing'
  BY <1>3 DEF OrderStep, Order!Next, Order!NextMessage, LastSeen, Trailing
<1> QED BY <1>1, <1>2, <1>3 DEF Flow

LEMMA Following ==
  ASSUME NEW c, NEW before, LastSeen \in before, LastSeen' = c, Trailing' = Trailing
  PROVE  Order!Follows(c, before)
BY DEF Order!Follows, LastSeen, Trailing

\* A handler called where the run loop is, is one that may follow the last.
LEMMA OrderOfCall ==
  ASSUME SeenBefore(at), FieldsAt(at), CallsBack(at), LastSeen' = CallbackAt(at),
         Trailing' = Trailing
  PROVE  OrderStep
<1>1. CASE at \in DOMAIN Notify
  <2>1. LastSeen' = Notify[at].cb
    BY <1>1 DEF CallbackAt
  <2>2. Trailing => at \in {"on_chunk_complete_2", "on_message_complete_2"}
    BY <1>1 DEF Notify, FieldsAt, HeaderLine, Erring, InField, FieldEnds, AfterField, InValue,
                ValueEnds, AfterValue, AfterMessageLabels, DeferredError
  <2>3. CASE at = "on_reset"
    <3>1. Order!Follows("on_reset", {"on_message_complete"})
      BY <2>1, <2>3, Following DEF Notify, SeenBefore
    <3> QED BY <2>2, <2>3, <3>1 DEF OrderStep, Order!Next, Order!NextMessage, Trailing
  <2>4. CASE at = "on_message_begin"
    <3>1. Order!Follows("on_message_begin", {"none", "on_reset"})
      BY <2>1, <2>4, Following DEF Notify, SeenBefore
    <3> QED BY <2>2, <2>4, <3>1 DEF OrderStep, Order!Next, Order!Begin, Trailing
  <2>5. CASE at = "on_chunk_header"
    <3>1. Order!Follows("on_chunk_header", {"on_headers_complete", "on_chunk_complete"})
      BY <2>1, <2>5, Following DEF Notify, SeenBefore, ChunkLine
    <3> QED BY <2>2, <2>5, <3>1 DEF OrderStep, Order!Next, Order!ChunkHeader, Trailing
  <2>6. CASE at \in {"on_chunk_complete", "on_chunk_complete_2"}
    <3>1. Order!Follows("on_chunk_complete",
                        IF Trailing THEN {"on_chunk_header", "on_header_value"} ELSE {"on_body"})
      BY <2>1, <2>2, <2>6, Following DEF Notify, SeenBefore, FieldsAt, AfterData, BeforeField
    <3> QED BY <3>1 DEF OrderStep, Order!Next, Order!ChunkComplete, Trailing
  <2>7. CASE at \in {"on_message_complete", "on_message_complete_1", "on_message_complete_2"}
    <3>1. Order!Follows("on_message_complete", IF Trailing THEN {"on_chunk_complete"}
                                               ELSE {"on_headers_complete", "on_body"})
      BY <2>1, <2>2, <2>7, Following DEF Notify, SeenBefore
    <3> QED BY <3>1 DEF OrderStep, Order!Next, Order!MessageComplete, Trailing
  <2> QED BY <1>1, <2>3, <2>4, <2>5, <2>6, <2>7 DEF Notify
<1>2. CASE at \in DOMAIN SpanEnd
  <2>1. LastSeen' = SpanEnd[at].cb /\ (LastSeen = SpanEnd[at].cb => OrderStep)
    BY <1>2, OrderStutters DEF CallbackAt, SpanEnd, Notify
  <2>2. at \in UrlEnds \cup AroundStatus \cup ValueEnds \cup ChunkData \cup WholeBody \cup FieldEnds
    BY <1>2 DEF SpanEnd, UrlEnds, AroundStatus, ValueEnds, ChunkData, WholeBody, FieldEnds
  <2>3. Trailing => at \in FieldEnds \cup ValueEnds
    BY <1>2 DEF SpanEnd, FieldsAt, HeaderLine, Erring, InField, FieldEnds, AfterField, InValue,
                ValueEnds, AfterValue, AfterMessageLabels, DeferredError
  <2>4. CASE at \in UrlEnds
    <3>1. LastSeen = "on_url" \/ Order!Follows("on_url", {"on_message_begin"})
      BY <2>1, <2>4, Following DEF SpanEnd, UrlEnds, SeenBefore
    <3>2. SpanEnd[at].cb = "on_url"
      BY <2>4 DEF SpanEnd, UrlEnds
    <3> QED BY <2>1, <3>1, <3>2 DEF OrderStep, Order!Next, Order!StartLine
  <2>5. CASE at \in AroundStatus
    <3>1. LastSeen = "on_status" \/ Order!Follows("on_status", {"on_message_begin"})
      BY <1>2, <2>1, <2>5, Following DEF SpanEnd, AroundStatus, SeenBefore
    <3>2. SpanEnd[at].cb = "on_status"
      BY <1>2, <2>5 DEF SpanEnd, AroundStatus
    <3> QED BY <2>1, <3>1, <3>2 DEF OrderStep, Order!Next, Order!StartLine
  <2>6. CASE at \in FieldEnds
    <3>1. LastSeen = "on_header_field" \/ Order!Follows("on_header_field", BeforeField)
      BY <2>1, <2>6, Following DEF SpanEnd, FieldEnds, SeenBefore
    <3>2. SpanEnd[at].cb = "on_header_field"
      BY <2>6 DEF SpanEnd, FieldEnds
    <3> QED BY <2>1, <3>1, <3>2
            DEF OrderStep, Order!Next, Order!Field, BeforeField, Heads, Trailing
  <2>7. CASE at \in ValueEnds
    <3>1. LastSeen = "on_header_value" \/ Order!Follows("on_header_value", {"on_header_field"})
      BY <2>1, <2>7, Following DEF SpanEnd, ValueEnds, SeenBefore
    <3>2. SpanEnd[at].cb = "on_header_value"
      BY <2>7 DEF SpanEnd, ValueEnds
    <3> QED BY <2>1, <3>1, <3>2 DEF OrderStep, Order!Next, Order!Value
  <2>8. CASE at \in ChunkData \cup WholeBody
    <3>1. LastSeen = "on_body" \/ Order!Follows("on_body", {"on_headers_complete", "on_chunk_header"})
      BY <1>2, <2>1, <2>8, Following DEF SpanEnd, ChunkData, WholeBody, SeenBefore
    <3>2. SpanEnd[at].cb = "on_body" /\ ~Trailing
      BY <1>2, <2>3, <2>8 DEF SpanEnd, ChunkData, WholeBody, FieldEnds, ValueEnds
    <3> QED BY <2>1, <3>1, <3>2 DEF OrderStep, Order!Next, Order!Body, Trailing
  <2> QED BY <2>2, <2>4, <2>5, <2>6, <2>7, <2>8
<1>3. CASE at = "on_headers_complete"
  <2>1. LastSeen' = "on_headers_complete" /\ ~Trailing
    BY <1>3 DEF CallbackAt, Notify, SpanEnd, FieldsAt, HeaderLine, Erring, InField, FieldEnds,
                AfterField, InValue, ValueEnds, AfterValue, AfterMessageLabels, DeferredError
  <2>2. Order!Follows("on_headers_complete", Heads)
    BY <1>3, <2>1, Following DEF SeenBefore, BeforeField
  <2> QED BY <2>1, <2>2 DEF OrderStep, Order!Next, Order!HeadersComplete, Heads, Trailing
<1> QED BY <1>1, <1>2, <1>3 DEF CallsBack

\* The part of a value that the end of the chunk cuts off.
LEMMA OrderOfFlush ==
  ASSUME Placed(current), span # "none", LastSeen' = span, UNCHANGED flags,
         UNCHANGED <<current, span, finish, initialDone>>
  PROVE  OrderStep /\ Placed(current)'
<1> DEFINE l == current
<1>1. span = SpanAt(l) /\ Trailing' = Trailing /\ (LastSeen = span => OrderStep)
  BY OrderStutters DEF Placed, FieldsAt, Trailing
<1>2. l \in InUrl \cup InStatus \cup InField \cup InValue \cup InBody
  BY <1>1 DEF SpanAt
<1>3. Trailing => l \in InField \cup InValue
  BY <1>2 DEF Placed, FieldsAt, HeaderLine, Erring, InUrl, InStatus, InField, FieldEnds,
              AfterField, InValue, ValueEnds, AfterValue, InBody, AfterMessageLabels, DeferredError
<1>4. OrderStep
  <2>1. CASE l \in InUrl
    <3>1. span = "on_url" /\ (LastSeen = "on_url" \/ Order!Follows("on_url", {"on_message_begin"}))
      BY <1>1, <2>1, Following DEF SpanAt, Placed, SeenBefore
    <3> QED BY <1>1, <3>1 DEF OrderStep, Order!Next, Order!StartLine
  <2>2. CASE l \in InStatus
    <3>1. /\ span = "on_status"
          /\ LastSeen = "on_status" \/ Order!Follows("on_status", {"on_message_begin"})
      BY <1>1, <2>2, Following DEF SpanAt, InUrl, InStatus, Placed, SeenBefore
    <3> QED BY <1>1, <3>1 DEF OrderStep, Order!Next, Order!StartLine
  <2>3. CASE l \in InField
    <3>1. /\ span = "on_header_field"
          /\ LastSeen = "on_header_field" \/ Order!Follows("on_header_field", BeforeField)
      BY <1>1, <2>3, Following DEF SpanAt, InUrl, InStatus, InField, Placed, SeenBefore
    <3> QED BY <1>1, <3>1 DEF OrderStep, Order!Next, Order!Field, BeforeField, Heads, Trailing
  <2>4. CASE l \in InValue
    <3>1. /\ span = "on_header_value"
          /\ LastSeen = "on_header_value" \/ Order!Follows("on_header_value", {"on_header_field"})
      BY <1>1, <2>4, Following DEF SpanAt, InUrl, InStatus, InField, InValue, Placed, SeenBefore
    <3> QED BY <1>1, <3>1 DEF OrderStep, Order!Next, Order!Value
  <2>5. CASE l \in InBody
    <3>1. /\ span = "on_body" /\ ~Trailing
          /\ \/ LastSeen = "on_body"
             \/ Order!Follows("on_body", {"on_headers_complete", "on_chunk_header"})
      BY <1>1, <1>3, <2>5, Following
      DEF SpanAt, InUrl, InStatus, InField, InValue, InBody, Placed, SeenBefore, ChunkData, WholeBody
    <3> QED BY <1>1, <3>1 DEF OrderStep, Order!Next, Order!Body, Trailing
  <2> QED BY <1>2, <2>1, <2>2, <2>3, <2>4, <2>5
<1>5. SeenBefore(current)'
  BY <1>1, <1>2
  DEF SeenBefore, SpanAt, Beginning, InUrl, UrlEnds, AfterUrl, InStatus, AroundStatus, InField,
      FieldEnds, AfterField, InValue, ValueEnds, AfterValue, ChunkLine, ChunkData, AfterData,
      WholeBody, InBody, AfterMessageLabels
<1>6. FieldsAt(current)'
  BY <1>1 DEF Placed, FieldsAt
<1> QED BY <1>4, <1>5, <1>6 DEF Placed

-----------------------------------------------------------------------------
(* Every step keeps the invariant and is a step of CallbackOrder. *)

\* A handler may run where no failure was met and a callback was called.
LEMMA WhereHandlersRun ==
  ASSUME OrderInv, cb # "none"
  PROVE  /\ op = "execute" /\ ctxL = "set" /\ at # "return" /\ error \notin Fatal /\ Located
         /\ cb \in Callbacks
BY DEF OrderInv, PlainInv, LuaStateHeld, IInv, ParserOK, RegistersOK, SavedOK, Calls

LEMMA HandlerIsNext ==
  ASSUME OrderInv, call_handler, log' = Record(Delivery)
  PROVE  LogOK' /\ Located' /\ OrderStep
<1>1. /\ ~lua /\ cb # "none" /\ lua' = TRUE
      /\ UNCHANGED <<current, error, span, flags, finish, initialDone, op, at, cb>>
  BY DEF call_handler, Entering, parserVars, stopVars, spanVars, headerVars, lifeVars, registers
<1>2. LogOK' /\ LastSeen' = cb
  <2>1. cb \in Callbacks /\ LogOK /\ end \in Nat /\ p \in Nat /\ spanPos \in Nat
    BY <1>1, WhereHandlersRun DEF OrderInv, PlainInv, IInv, ParserOK, RegistersOK, DataOK
  <2> DEFINE to   == IF at = "flush" THEN end ELSE p
             from == IF cb \in Spans THEN spanPos ELSE to
  <2>2. to \in Nat /\ from \in Nat /\ log' = Record(<<cb, from, to>>)
    BY <2>1 DEF Delivery
  <2> HIDE DEF from, to
  <2> QED BY <2>1, <2>2, RecordsCall
<1>3. op = "execute" /\ at # "return" /\ Located /\ Trailing' = Trailing
  BY <1>1, WhereHandlersRun DEF Trailing
<1>4. CASE at # "flush"
  <2>1. InLoop
    BY <1>3, <1>4 DEF Located
  <2>2. OrderStep
    BY <1>1, <1>2, <1>3, <2>1, OrderOfCall DEF InLoop
  <2>3. InLoop'
    <3>1. FieldsAt(at)'
      BY <1>1, <1>3, <2>1 DEF InLoop, FieldsAt
    <3>2. (CallsBack(at) /\ cb = CallbackAt(at))'
      BY <1>1, <2>1 DEF InLoop, CallsBack, CallbackAt
    <3> QED BY <1>1, <1>2, <3>1, <3>2 DEF InLoop
  <2> QED BY <1>1, <1>2, <1>3, <1>4, <2>2, <2>3 DEF Located
<1>5. CASE at = "flush"
  <2>1. AtEnd
    BY <1>5, <1>3 DEF Located
  <2>2. OrderStep /\ Placed(current)'
    BY <1>1, <1>2, <1>3, <1>5, <2>1, OrderOfFlush DEF AtEnd
  <2>3. AtEnd'
    BY <1>1, <1>2, <1>3, <1>5, <2>1, <2>2 DEF AtEnd
  <2> QED BY <1>2, <1>3, <1>1, <1>5, <2>2, <2>3 DEF Located
<1> QED BY <1>4, <1>5

\* What a flow leads to is what the invariant asks for.
LEMMA FlowIsLocated ==
  ASSUME Flow, op' = "execute", lua' = FALSE
  PROVE  error' \notin Fatal => Located'
<1> SUFFICES ASSUME error' \notin Fatal PROVE Located'
  OBVIOUS
<1>1. CASE at' \notin {"flush", "return"}
  <2>1. Placed(at)' /\ (cb' # "none" => CallsBack(at') /\ cb' = CallbackAt(at'))
    BY <1>1 DEF Flow
  <2>2. InLoop'
    BY <2>1 DEF InLoop, Placed
  <2> QED BY <1>1, <2>2 DEF Located
<1>2. CASE at' \in {"flush", "return"}
  <2>1. AtEnd'
    BY <1>2 DEF Flow, AtEnd
  <2> QED BY <1>2, <2>1 DEF Located
<1> QED BY <1>1, <1>2

\* The fields stay and the program has control again: the label is as right as before.
LEMMA PlacedStays ==
  ASSUME AtEnd, UNCHANGED <<current, span, flags, finish, initialDone, log>>
  PROVE  /\ current' \in Waiting /\ Placed(current)'
         /\ at' = current => Placed(at)'
         /\ LastSeen' = LastSeen /\ Trailing' = Trailing
<1>1. LastSeen' = LastSeen /\ Trailing' = Trailing
  BY DEF LastSeen, Trailing
<1> QED BY <1>1 DEF AtEnd, Placed, SeenBefore, FieldsAt, BeforeField

LEMMA OrderOfMethods ==
  ASSUME PlainProgram, OrderInv, Method, UNCHANGED log
  PROVE  op' # "finish" /\ (error' \notin Fatal => Located') /\ OrderStep
<1>1. LogOK' /\ LastSeen' = LastSeen
  BY DEF OrderInv, LogOK, LastSeen
<1>2. CASE \E n \in ChunkSizes : execute(n)
  <2>1. op = "none"
    BY <1>2, PlainEnter DEF PlainProgram, OrderInv
  <2>2. /\ op' = "execute" /\ lua' = FALSE /\ cb' = "none"
        /\ at' = IF error = "OK" THEN current ELSE "return"
        /\ UNCHANGED <<current, error, span, flags, finish, initialDone>>
    BY <1>2 DEF execute, llhttp_execute, Enter, Load, stopVars, headerVars, lifeVars
  <2>3. Trailing' = Trailing
    BY <2>2 DEF Trailing
  <2>4. ASSUME error' \notin Fatal PROVE Located'
    <3>1. AtEnd
      BY <2>1, <2>2, <2>4 DEF OrderInv, Located
    <3>2. CASE error = "OK"
      <4>1. Placed(at)' /\ at' \notin {"flush", "return"}
        BY <2>2, <3>1, <3>2, PlacedStays DEF AtEnd, Waiting, ReadLabels
      <4> QED BY <2>2, <4>1 DEF Located, InLoop, Placed
    <3>3. CASE error # "OK"
      BY <2>2, <3>1, <3>3, PlacedStays DEF Located, AtEnd
    <3> QED BY <3>2, <3>3
  <2> QED BY <1>1, <2>2, <2>3, <2>4, OrderStutters
<1>3. ~ finish_(NextByte)
  <2>1. "finish" \notin NestedOps
    BY DEF PlainProgram, PlainHandlers, Calls
  <2> QED BY <2>1 DEF PlainProgram, finish_, Allowed
<1>4. ASSUME UNCHANGED <<current, span, flags, finish, initialDone, op, at, cb, lua>>,
             error' \notin Fatal => error \notin Fatal
      PROVE  op' # "finish" /\ (error' \notin Fatal => Located') /\ OrderStep
  <2>1. Trailing' = Trailing
    BY <1>4 DEF Trailing
  <2>2. Located => Located'
    <3>1. InLoop => InLoop'
      BY <1>1, <1>4, <2>1 DEF InLoop, FieldsAt, SeenBefore, BeforeField
    <3>2. AtEnd => AtEnd'
      BY <1>1, <1>4, PlacedStays DEF AtEnd
    <3> QED BY <1>4, <3>1, <3>2 DEF Located
  <2> QED BY <1>1, <1>4, <2>1, <2>2, OrderStutters DEF OrderInv
<1>5. CASE execute_nothing
  BY <1>4, <1>5 DEF execute_nothing, parserVars, stopVars, spanVars, headerVars, lifeVars, registers
<1>6. CASE pause \/ resume \/ resume_after_upgrade
  <2>1. UNCHANGED <<current, span, flags, finish, initialDone, op, at, cb, lua>>
    BY <1>6 DEF pause, resume, resume_after_upgrade, llhttp_pause, llhttp_resume,
                llhttp_resume_after_upgrade, SetError, restVars, spanVars, headerVars, lifeVars,
                registers, bindingVars
  <2>2. error \in Fatal => error' = error
    BY <1>6 DEF pause, resume, resume_after_upgrade, llhttp_pause, llhttp_resume,
                llhttp_resume_after_upgrade, SetError, Fatal
  <2> QED BY <1>4, <2>1, <2>2
<1> QED BY <1>2, <1>3, <1>5, <1>6 DEF Method

LEMMA OrderNext ==
  ASSUME PlainProgram, OrderInv, [LogNext]_logVars
  PROVE  OrderInv' /\ OrderStep
<1>1. PlainInv'
  <2>1. [Next]_vars
    BY DEF LogNext, Next, logVars
  <2> QED BY <2>1, PlainNext DEF PlainProgram, OrderInv
<1>2. UNCHANGED log => LogOK' /\ LastSeen' = LastSeen
  BY DEF OrderInv, LogOK, LastSeen
<1>3. CASE call_handler /\ log' = Record(Delivery)
  <2>1. op' # "finish"
    BY <1>3 DEF call_handler, registers, OrderInv
  <2> QED BY <1>1, <1>3, <2>1, HandlerIsNext DEF OrderInv
<1>4. CASE reset /\ log' = <<>>
  <2>1. op = "none"
    BY <1>4 DEF reset, Allowed, PlainProgram
  <2>2. /\ op' = "none" /\ current' = "start" /\ span' = "none" /\ flags' = {}
        /\ finish' = "SAFE" /\ initialDone' = FALSE
    BY <1>4, <2>1 DEF reset, llhttp_reset, registers
  <2>3. LogOK' /\ LastSeen' = "none"
    BY <1>4, EmptySeq DEF LogOK, LastSeen
  <2>4. ~Trailing'
    BY <2>2 DEF Trailing
  <2>5. Placed(current)'
    BY <2>2, <2>3, <2>4
    DEF Placed, SeenBefore, FieldsAt, SpanAt, FinishAt, Beginning, InUrl, UrlEnds, AfterUrl,
        InStatus, AroundStatus, InField, FieldEnds, AfterField, InValue, ValueEnds, AfterValue,
        ChunkLine, ChunkData, AfterData, WholeBody, InBody, AfterMessageLabels
  <2>6. Located'
    BY <2>2, <2>5 DEF Located, AtEnd, Waiting, ReadLabels
  <2>7. OrderStep
    BY <2>3, <2>4 DEF OrderStep, Order!Next, Order!Reset, LastSeen, Trailing
  <2> QED BY <1>1, <2>2, <2>3, <2>6, <2>7 DEF OrderInv
<1>5. CASE Method /\ UNCHANGED log
  BY <1>1, <1>2, <1>5, OrderOfMethods DEF OrderInv
<1>6. CASE run /\ UNCHANGED log
  <2>1. RunShape
    BY <1>6, RunKeepsIInv DEF OrderInv, PlainInv
  <2>2. op = "execute" /\ op' = "execute" /\ cb = "none" /\ at # "return" /\ ~lua /\ lua' = FALSE
    BY <1>6, <2>1 DEF RunShape, run, bindingVars
  <2>3. Located
    BY <2>2 DEF OrderInv, PlainInv
  <2>4. at # "flush" /\ Placed(at)
    BY <2>2, <2>3 DEF Located, AtEnd, InLoop, Placed
  <2>5. Flow
    BY <1>2, <1>6, <2>4, RunFlows DEF run, OrderInv, PlainInv, IInv, ParserOK
  <2> QED BY <1>1, <1>2, <1>6, <2>2, <2>5, FlowIsLocated, OrderOfFlow DEF OrderInv
<1>7. CASE handler_ends /\ UNCHANGED log
  <2>1. cb # "none" /\ lua' = FALSE
    BY <1>7 DEF handler_ends, HandlerRuns
  <2>2. op = "execute" /\ error \notin Fatal
    BY <2>1, WhereHandlersRun
  <2>3. Flow
    BY <1>2, <1>7, <2>2, AnswerFlows
  <2>4. op' = op
    <3>1. ~ UNCHANGED cb
      BY <1>2, <1>7, <2>1, <2>2, AnswerFlows
    <3>2. PICK r \in Results : CallbackReturns(r)
      BY <1>7, <3>1, AnswerIsResult DEF registers
    <3> QED BY <3>2, AnswerKeeps DEF AnswerShape, OrderInv, PlainInv, IInv
  <2> QED BY <1>1, <1>2, <1>7, <2>1, <2>2, <2>3, <2>4, FlowIsLocated, OrderOfFlow DEF OrderInv
<1>8. ~ no_handler /\ ~ no_state /\ ~ handler_raises
  BY WhereHandlersRun DEF no_handler, no_state, handler_raises, Entering, PlainProgram, PlainHandlers
<1>9. CASE Return /\ UNCHANGED log
  <2>1. /\ op = "execute" /\ at = "return" /\ op' = "none"
        /\ UNCHANGED <<current, error, span, flags, finish, initialDone>>
    BY <1>9 DEF Return, execute_returns, finish_returns, Leave, Load, Idle, OrderInv, PlainInv,
                spanVars, headerVars, lifeVars
  <2>2. OrderStep
    BY <1>2, <1>9, <2>1, OrderStutters DEF Trailing
  <2>3. error' \notin Fatal => Located'
    BY <1>9, <2>1, PlacedStays DEF OrderInv, Located, AtEnd
  <2> QED BY <1>1, <1>2, <1>9, <2>1, <2>2, <2>3 DEF OrderInv
<1>10. CASE UNCHANGED logVars
  <2>1. UNCHANGED <<vars, log>>
    BY <1>10 DEF logVars
  <2>2. UNCHANGED <<current, error, span, flags, finish, initialDone, op, at, cb, lua>>
    BY <2>1 DEF vars, parserVars, stopVars, spanVars, headerVars, lifeVars, registers, bindingVars
  <2>3. Trailing' = Trailing
    BY <2>2 DEF Trailing
  <2>4. Located => Located'
    BY <1>2, <2>1, <2>2, <2>3
    DEF Located, InLoop, AtEnd, Placed, FieldsAt, SeenBefore, BeforeField
  <2> QED BY <1>1, <1>2, <2>1, <2>2, <2>3, <2>4, OrderStutters DEF OrderInv
<1> QED BY <1>3, <1>4, <1>5, <1>6, <1>7, <1>8, <1>9, <1>10 DEF LogNext, Unseen, Answer

LEMMA OrderInit == LogInit => OrderInv /\ Order!Init
<1> SUFFICES ASSUME LogInit PROVE OrderInv /\ Order!Init
  OBVIOUS
<1>1. /\ op = "none" /\ current = "start" /\ span = "none" /\ flags = {} /\ finish = "SAFE"
      /\ initialDone = FALSE /\ log = <<>>
  BY DEF LogInit, Init, InitParser
<1>2. LogOK /\ LastSeen = "none" /\ ~Trailing
  BY <1>1, EmptySeq DEF LogOK, LastSeen, Trailing
<1>3. Placed(current)
  BY <1>1, <1>2
  DEF Placed, SeenBefore, FieldsAt, SpanAt, FinishAt, Beginning, InUrl, UrlEnds, AfterUrl,
      InStatus, AroundStatus, InField, FieldEnds, AfterField, InValue, ValueEnds, AfterValue,
      ChunkLine, ChunkData, AfterData, WholeBody, InBody, AfterMessageLabels
<1>4. Located
  BY <1>1, <1>3 DEF Located, AtEnd, Waiting, ReadLabels
<1>5. PlainInv
  BY PlainInit DEF LogInit
<1> QED BY <1>1, <1>2, <1>4, <1>5 DEF OrderInv, Order!Init, LastSeen, Trailing

LEMMA OrderInvHolds == ASSUME PlainProgram PROVE LogSpec => []OrderInv
<1>1. OrderInv /\ [LogNext]_logVars => OrderInv'
  BY OrderNext
<1> QED BY OrderInit, <1>1, PTL DEF LogSpec

\* Handlers are called in the order of CallbackOrder whatever bytes the stream
\* holds and wherever it is cut: every step of the parser is a step of the order
\* or leaves it alone (llhttp.c and the callbacks of lhttp_parser.c).
THEOREM OrderIsKept == ASSUME PlainProgram PROVE LogSpec => OrderKept
<1>1. OrderInv /\ [LogNext]_logVars => [Order!Next]_(Order!orderVars)
  BY OrderNext DEF OrderStep
<1> QED BY OrderInit, OrderInvHolds, <1>1, PTL DEF LogSpec, OrderKept, Order!Spec

\* When finish would answer success no message is open, or the connection's end
\* ends its body (api.c 143-153), for every stream and every such program.
THEOREM TruncationSeen == ASSUME PlainProgram PROVE LogSpec => []TruncationIsSeen
<1>1. OrderInv => TruncationIsSeen
  <2> SUFFICES ASSUME OrderInv, op = "none", error = "OK", log # <<>>
               PROVE  /\ finish = "SAFE" => LastSeen = "on_message_complete"
                      /\ finish = "SAFE_WITH_CB" =>
                           LastSeen \in {"on_headers_complete", "on_body", "on_message_complete"}
    BY DEF TruncationIsSeen, LastSeen
  <2>1. current \in Waiting /\ Placed(current) /\ LastSeen # "none"
    BY LastSeenTypes DEF OrderInv, Located, AtEnd, Fatal
  <2>2. finish = "SAFE" => current \in {"start", "closed"}
    BY <2>1 DEF Placed, FieldsAt, FinishAt, Waiting, ReadLabels
  <2>3. finish = "SAFE_WITH_CB" => current \in {"span_start_on_body_2", "eof"}
    BY <2>1 DEF Placed, FieldsAt, FinishAt
  <2> QED BY <2>1, <2>2, <2>3 DEF Placed, SeenBefore, WholeBody
<1> QED BY OrderInvHolds, <1>1, PTL

\* A parser whose handlers have not been called since it was made or reset
\* begins a message, for every such program (lhttp_parser.c 449-451).
THEOREM ResetsAfresh == ASSUME PlainProgram PROVE LogSpec => []ResetStartsAfresh
<1>1. OrderInv => ResetStartsAfresh
  <2> SUFFICES ASSUME OrderInv, op = "none", error = "OK", log = <<>> PROVE current = "start"
    BY DEF ResetStartsAfresh
  <2>1. current \in Waiting /\ Placed(current) /\ LastSeen = "none"
    BY LastSeenTypes DEF OrderInv, Located, AtEnd, Fatal
  <2> QED
    BY <2>1
    DEF Placed, SeenBefore, BeforeField, Heads, Waiting, ReadLabels, Beginning, InUrl, AfterUrl,
        InStatus, AroundStatus, InField, AfterField, InValue, AfterValue, ChunkLine, ChunkData,
        AfterData, WholeBody, AfterMessageLabels
<1> QED BY OrderInvHolds, <1>1, PTL
=============================================================================

--------------------------- MODULE ProviderStream ---------------------------
(***************************************************************************)
(* One streamed model attempt through the provider adapters: the HTTP      *)
(* answer, SSE frames arriving in network chunks, the three protocol       *)
(* decoders (providers/src: chat.rs, responses.rs, messages.rs, native.rs, *)
(* sse.rs) and the collector that turns model events into a reply          *)
(* (runtime/src/model.rs).                                                 *)
(*                                                                         *)
(* The remote side sends any frames in any order, cut into any chunks, and *)
(* may vanish.  Text and arguments are counted in fragments; the k-th      *)
(* fragment of output item i is <<i, k>>.                                  *)
(***************************************************************************)
EXTENDS Integers, Sequences, SequencesExt, FiniteSets

CONSTANTS
    Protocols,    \* of {"chat", "responses", "messages"}
    Whole,        \* fragments that make a complete JSON argument
    MaxItems,     \* bound on output items, blocks or tool indexes
    MaxFrames     \* bound on the frames of one response

VARIABLES
    protocol, phase, frames,
    decoder,   \* what has been decoded
    pending,   \* VecDeque of model events not yet taken
    failure,   \* the adapter's error: NoFailure or its model_output_started
    fence,     \* output_started when this chunk began
    collected, \* Collected
    outcome,   \* of the attempt
    produced, taken   \* events decoded from complete frames, and events handed on (history)

vars == <<protocol, phase, frames, decoder, pending, failure, fence, collected, outcome, produced, taken>>

Kinds == {"message", "call", "reasoning"}
NoFailure == "none"
\* An error with its model_output_started.
Failure(output) == IF output THEN "failed after output" ELSE "failed"
Fragments(i, from, to) == [k \in 1 .. (to - from) |-> <<i, from + k>>]

Text(parts) == [event |-> "text", parts |-> parts]
ToolDelta(i, parts) == [event |-> "tool", index |-> i, parts |-> parts]
Plain(name) == [event |-> name]
Finish(reason) == [event |-> "finish", reason |-> reason]
\* The events of p but for its End.
WithoutEnd(p) == FlattenSeq([i \in DOMAIN p |-> IF p[i].event = "end" THEN <<>> ELSE <<p[i]>>])

Bad(d) == [ok |-> FALSE, d |-> d, events |-> <<>>]
Good(d, events) == [ok |-> TRUE, d |-> d, events |-> events]

Active(d, i) == i \in DOMAIN d.items /\ ~d.items[i].done
AllDone(d) == \A i \in DOMAIN d.items : d.items[i].done
CallsIn(d) == {i \in DOMAIN d.items : d.items[i].kind = "call"}
PrivateIn(d) == \E i \in DOMAIN d.items : d.items[i].kind = "reasoning"
\* Text of the final items, in item order.
ItemText(d) ==
    FlattenSeq([i \in DOMAIN d.items |->
        IF d.items[i].kind = "message" THEN Fragments(i, 0, d.items[i].size) ELSE <<>>])

\* New parts of item i, as the event its kind calls for.
Parts(d, i, from, to) ==
    CASE from = to -> <<>>
      [] from # to /\ d.items[i].kind = "message" -> <<Text(Fragments(i, from, to))>>
      [] from # to /\ d.items[i].kind = "call" -> <<ToolDelta(i, Fragments(i, from, to))>>
      [] from # to /\ d.items[i].kind = "reasoning" -> <<>>

\* Mutant: text that comes with the item itself does not count as output.
AddedUnfenced(d, f) ==
    [d EXCEPT !.items = Append(@, [kind |-> f.kind, size |-> f.n, done |-> FALSE]),
              !.output = @ \/ f.kind # "message",
              !.text = IF f.kind = "message" THEN @ \o Fragments(Len(d.items) + 1, 0, f.n) ELSE @]

\* An item that starts with n fragments in it.
Added(d, f) ==
    [d EXCEPT !.items = Append(@, [kind |-> f.kind, size |-> f.n, done |-> FALSE]),
              !.output = @ \/ f.kind # "message" \/ f.n > 0,
              !.text = IF f.kind = "message" THEN @ \o Fragments(Len(d.items) + 1, 0, f.n) ELSE @]

Extended(d, i, n) ==
    [d EXCEPT !.items[i].size = n,
              !.output = TRUE,
              !.text = IF d.items[i].kind = "message" THEN @ \o Fragments(i, d.items[i].size, n) ELSE @]

-----------------------------------------------------------------------------
(* ResponsesDecoder::decode.  Item ends and the terminal frame carry full snapshots. *)

ResponsesFrames ==
         [t : {"created", "incomplete", "error"}]
    \cup [t : {"added"}, kind : Kinds, n : 0 .. 1]
    \cup [t : {"delta"}, i : 1 .. MaxItems, kind : Kinds]
    \cup [t : {"item_done"}, i : 1 .. MaxItems, n : 0 .. Whole]
    \cup [t : {"completed"}, same : BOOLEAN]

\* The terminal snapshot repeats every completed item, and its text in item order is the
\* streamed text.
ResponsesCompleted(d, f) ==
    IF ~f.same \/ ~AllDone(d) \/ ItemText(d) # d.text THEN Bad(d)
    ELSE Good([d EXCEPT !.ended = TRUE],
              <<Plain("usage")>> \o (IF PrivateIn(d) THEN <<Plain("data")>> ELSE <<>>)
              \o <<Finish(IF CallsIn(d) = {} THEN "stop" ELSE "tools"), Plain("end")>>)

\* A completed item may add to what was streamed, never contradict it.
FinishItem(d, f) ==
    LET i == f.i IN
    IF ~Active(d, i) \/ (d.items[i].kind = "call" /\ f.n # Whole) THEN Bad(d)
    ELSE IF d.items[i].kind # "reasoning" /\ f.n < d.items[i].size
    THEN Bad([d EXCEPT !.output = @ \/ d.items[i].kind = "call" \/ f.n > 0])
    ELSE LET n == IF d.items[i].kind = "reasoning" THEN d.items[i].size ELSE f.n
             more == IF n = d.items[i].size THEN d ELSE Extended(d, i, n)
         IN  Good([more EXCEPT !.items[i].done = TRUE], Parts(d, i, d.items[i].size, n))

ResponsesDecode(d, f) ==
    CASE f.t = "error" -> Bad(d)
      [] f.t = "created" -> IF d.started THEN Bad(d) ELSE Good([d EXCEPT !.started = TRUE], <<>>)
      [] f.t \notin {"error", "created"} /\ ~d.started -> Bad(d)
      [] f.t = "added" /\ d.started ->
            IF Len(d.items) = MaxItems THEN Bad(d)
            ELSE LET e == Added(d, f) IN
                 Good(e, IF f.kind = "call" THEN <<ToolDelta(Len(e.items), Fragments(Len(e.items), 0, f.n))>>
                         ELSE Parts(e, Len(e.items), 0, f.n))
      [] f.t = "delta" /\ d.started ->
            IF ~Active(d, f.i) \/ d.items[f.i].kind # f.kind
            THEN Bad([d EXCEPT !.output = @ \/ f.kind # "reasoning"])   \* set before the item is looked up
            ELSE Good(Extended(d, f.i, d.items[f.i].size + 1),
                      Parts(d, f.i, d.items[f.i].size, d.items[f.i].size + 1))
      [] f.t = "item_done" /\ d.started -> FinishItem(d, f)
      [] f.t = "completed" /\ d.started -> ResponsesCompleted(d, f)
      [] f.t = "incomplete" /\ d.started ->
            Good([d EXCEPT !.ended = TRUE], <<Plain("usage"), Finish("length"), Plain("end")>>)

-----------------------------------------------------------------------------
(* MessagesDecoder::decode.  Blocks come one after the other; a tool block carries either its *)
(* whole input or deltas.                                                                     *)

MessagesFrames ==
         [t : {"message_start", "message_stop", "error"}]
    \cup [t : {"block_start"}, kind : Kinds, n : 0 .. 1]
    \cup [t : {"delta", "block_stop"}, i : 1 .. MaxItems]
    \cup [t : {"message_delta"}, reason : {"stop", "tools", "length"}]

MessagesDecode(d, f) ==
    CASE f.t = "error" -> Bad(d)
      [] f.t = "message_start" ->
            IF d.started THEN Bad(d) ELSE Good([d EXCEPT !.started = TRUE], <<>>)
      [] f.t \notin {"error", "message_start"} /\ ~d.started -> Bad(d)
      [] f.t = "block_start" /\ d.started ->
            IF d.finish # "none" \/ Len(d.items) = MaxItems \/ ~AllDone(d) THEN Bad(d)
            ELSE LET whole == f.kind = "call" /\ f.n = 1
                     e == Added(d, IF f.kind = "call" THEN [f EXCEPT !.n = 0] ELSE f)
                 IN  Good([e EXCEPT !.whole = whole],
                          IF f.kind = "call" THEN <<ToolDelta(Len(e.items), <<>>)>>
                          ELSE Parts(e, Len(e.items), 0, f.n))
      [] f.t = "delta" /\ d.started ->
            IF ~Active(d, f.i) \/ (d.items[f.i].kind = "call" /\ d.whole) THEN Bad(d)
            ELSE Good(Extended(d, f.i, d.items[f.i].size + 1),
                      Parts(d, f.i, d.items[f.i].size, d.items[f.i].size + 1))
      [] f.t = "block_stop" /\ d.started ->
            IF ~Active(d, f.i) THEN Bad(d)
            ELSE LET size == d.items[f.i].size
                     \* A block without deltas has its input in the block itself.
                     final == IF d.items[f.i].kind = "call" /\ size = 0 THEN Whole ELSE size
                 IN  IF d.items[f.i].kind = "call" /\ final # Whole THEN Bad(d)
                     ELSE Good([d EXCEPT !.items[f.i].size = final, !.items[f.i].done = TRUE],
                               Parts(d, f.i, size, final))
      [] f.t = "message_delta" /\ d.started ->
            IF ~AllDone(d) \/ d.finish # "none" THEN Bad(d)
            ELSE Good([d EXCEPT !.finish = f.reason], <<Plain("usage")>>)
      [] f.t = "message_stop" /\ d.started ->
            IF \/ d.finish = "none"
               \/ ~AllDone(d)
               \/ d.finish # "length" /\ (d.finish = "tools") # (CallsIn(d) # {})
            THEN Bad(d)
            ELSE Good([d EXCEPT !.ended = TRUE],
                      (IF d.finish # "length" /\ PrivateIn(d) THEN <<Plain("data")>> ELSE <<>>)
                      \o <<Finish(d.finish), Plain("end")>>)

-----------------------------------------------------------------------------
(* decode_chunk and ReplayCapture of Chat Completions: no item lifecycle, the collector checks *)

ChatFrames ==
         [t : {"content", "reasoning", "usage", "done", "error"}]
    \cup [t : {"tool"}, i : 1 .. MaxItems]
    \cup [t : {"finish"}, reason : {"stop", "tools", "length"}]

ChatDecode(d, f) ==
    CASE f.t = "error" -> Bad(d)
      [] f.t = "content" ->
            Good([d EXCEPT !.output = TRUE, !.text = Append(@, <<1, Len(@) + 1>>)],
                 <<Text(<<<<1, Len(d.text) + 1>>>>)>>)
      [] f.t = "reasoning" -> Good([d EXCEPT !.output = TRUE, !.private = TRUE], <<Plain("reasoning")>>)
      [] f.t = "tool" -> Good([d EXCEPT !.output = TRUE], <<ToolDelta(f.i, <<<<f.i, 1>>>>)>>)
      [] f.t = "usage" -> Good(d, <<Plain("usage")>>)
      \* Replay data goes out ahead of the finish reason.
      [] f.t = "finish" ->
            Good(d, (IF d.private THEN <<Plain("data")>> ELSE <<>>) \o <<Finish(f.reason)>>)
      [] f.t = "done" -> Good([d EXCEPT !.ended = TRUE], <<Plain("end")>>)

Frames(p) ==
    CASE p = "responses" -> ResponsesFrames
      [] p = "messages" -> MessagesFrames
      [] p = "chat" -> ChatFrames

Decode(d, f) ==
    CASE protocol = "responses" -> ResponsesDecode(d, f)
      [] protocol = "messages" -> MessagesDecode(d, f)
      [] protocol = "chat" -> ChatDecode(d, f)

-----------------------------------------------------------------------------
(* Collected *)

EmptyReply == [text |-> <<>>, calls |-> [i \in 1 .. MaxItems |-> <<>>], seen |-> {}, private |-> FALSE,
               finish |-> "none", ended |-> FALSE]

HasOutput(c) == c.text # <<>> \/ c.seen # {} \/ c.private

\* Whether push refuses the event.
Refused(c, e) ==
    \/ c.ended
    \/ c.finish # "none" /\ e.event \in {"text", "reasoning", "tool", "data"}
    \/ e.event = "finish" /\ c.finish \notin {"none", e.reason}

Pushed(c, e) ==
    CASE e.event = "text" -> [c EXCEPT !.text = @ \o e.parts]
      [] e.event = "tool" -> [c EXCEPT !.calls[e.index] = @ \o e.parts, !.seen = @ \cup {e.index}]
      [] e.event \in {"reasoning", "data"} -> [c EXCEPT !.private = TRUE]
      [] e.event = "usage" -> c
      [] e.event = "finish" -> [c EXCEPT !.finish = e.reason]
      [] e.event = "end" -> [c EXCEPT !.ended = TRUE]

\* reply: complete, not cut short, and finish reason and calls agree.  Indexes of the native
\* decoders count calls; here they are item numbers, so contiguity is chat's alone.
Acceptable(c) ==
    /\ c.ended
    /\ c.finish \in {"stop", "tools"}
    /\ (c.finish = "tools") = (c.seen # {})
    /\ protocol = "chat" => c.seen = 1 .. Cardinality(c.seen)
    /\ \A i \in c.seen : Len(c.calls[i]) = Whole

-----------------------------------------------------------------------------

Init ==
    /\ protocol \in Protocols
    /\ phase = "request"
    /\ frames = 0
    /\ decoder = [started |-> FALSE, items |-> <<>>, finish |-> "none", ended |-> FALSE, output |-> FALSE,
                  text |-> <<>>, whole |-> FALSE, private |-> FALSE]
    /\ pending = <<>>
    /\ failure = NoFailure
    /\ fence = FALSE
    /\ collected = EmptyReply
    /\ outcome = "none"
    /\ produced = 0 /\ taken = 0

\* classify_http_error: what kind of error a refused request becomes.  class is what the body
\* says, "unknown" when it says nothing known; a 409 is believed only when it asks for a retry.
ClassifyHttp(status, class) ==
    CASE status \in {401, 403} -> "authentication"
      [] status = 402 -> "quota"
      [] status \notin {401, 402, 403} /\ class # "unknown" /\ (status # 409 \/ class \in {"rate", "server"}) -> class
      [] status = 409 /\ class \notin {"rate", "server"} -> "request"
      [] status \in {408, 429} /\ class = "unknown" -> "rate"
      [] status >= 500 /\ class = "unknown" -> "server"
      [] status = 400 /\ class = "unknown" -> "request"

\* The answer to the POST: a stream, an HTTP error, or none.
Response ==
    /\ phase = "request"
    /\ \/ /\ phase' = "deliver"
          /\ UNCHANGED outcome
       \/ \E status \in {400, 401, 402, 408, 409, 429, 500},
             class \in {"unknown", "rate", "server", "context", "quota"} :
          /\ outcome' = ClassifyHttp(status, class)
          /\ phase' = "over"
       \/ outcome' \in {"transport", "cancelled", "protocol"} /\ phase' = "over"
    /\ UNCHANGED <<protocol, frames, decoder, pending, failure, fence, collected, produced, taken>>

\* The next network chunk begins, or the wait for it ends otherwise.
Receive ==
    /\ phase = "deliver" /\ pending = <<>> /\ failure = NoFailure /\ ~decoder.ended
    /\ \/ phase' = "ingest" /\ fence' = decoder.output /\ UNCHANGED failure
       \* Cancelled, connection lost or closed, or too many bytes.
       \/ failure' = Failure(decoder.output) /\ UNCHANGED <<phase, fence>>
    /\ UNCHANGED <<protocol, frames, decoder, pending, collected, outcome, produced, taken>>

Fail(output) ==
    /\ failure' = Failure(output)
    /\ phase' = "deliver"

\* One complete frame of this chunk.  A native adapter drops the End it had queued.
Ingest(f) ==
    LET r == Decode(decoder, f) IN
    /\ phase = "ingest" /\ frames < MaxFrames
    /\ frames' = frames + 1
    /\ IF decoder.ended \/ ~r.ok
       THEN /\ Fail(IF decoder.ended THEN decoder.output ELSE r.d.output)
            /\ pending' = IF protocol = "chat" THEN pending ELSE WithoutEnd(pending)
            /\ UNCHANGED <<decoder, produced>>
       ELSE /\ decoder' = r.d
            /\ pending' = pending \o r.events
            /\ produced' = produced + Len(WithoutEnd(r.events))
            /\ UNCHANGED <<phase, failure>>
    /\ UNCHANGED <<protocol, fence, collected, outcome, taken>>

\* The SSE decoder rejects a line: not UTF-8, or a frame over its limit.  Chat decodes the whole
\* chunk first, so nothing of this chunk is left; the native wire goes line by line.
Malformed ==
    /\ phase = "ingest" /\ frames < MaxFrames
    /\ frames' = frames + 1
    /\ IF protocol = "chat"
       THEN Fail(fence) /\ pending' = <<>>
       ELSE Fail(decoder.output) /\ pending' = WithoutEnd(pending)
    /\ UNCHANGED <<protocol, decoder, fence, collected, outcome, produced, taken>>

ChunkEnd ==
    /\ phase = "ingest"
    /\ phase' = "deliver"
    /\ UNCHANGED <<protocol, frames, decoder, pending, failure, fence, collected, outcome, produced, taken>>

\* The gateway takes what is queued, then learns of the failure or of the end.
Deliver ==
    /\ phase = "deliver"
    /\ \/ /\ pending # <<>>
          /\ pending' = Tail(pending)
          /\ taken' = taken + (IF Head(pending).event = "end" THEN 0 ELSE 1)
          /\ IF Refused(collected, Head(pending))
             THEN outcome' = "refused" /\ phase' = "over" /\ UNCHANGED collected
             ELSE collected' = Pushed(collected, Head(pending)) /\ UNCHANGED <<outcome, phase>>
       \/ /\ pending = <<>> /\ failure # NoFailure
          /\ outcome' = failure
          /\ phase' = "over"
          /\ UNCHANGED <<pending, collected, taken>>
       \/ /\ pending = <<>> /\ failure = NoFailure /\ decoder.ended
          /\ outcome' = IF Acceptable(collected) THEN "reply" ELSE "refused"
          /\ phase' = "over"
          /\ UNCHANGED <<pending, collected, taken>>
    /\ UNCHANGED <<protocol, frames, decoder, failure, fence, produced>>

Next ==
    \/ Response \/ Receive \/ Malformed \/ ChunkEnd \/ Deliver
    \/ \E f \in Frames(protocol) : Ingest(f)

Spec == Init /\ [][Next]_vars

-----------------------------------------------------------------------------

\* A reply is what the provider finally said: all items complete, their text in item order,
\* every tool call with its whole arguments, and nothing arrived after the end.
ReplyIsFinal ==
    outcome = "reply" =>
        /\ failure = NoFailure /\ decoder.ended
        /\ protocol # "chat" =>
              /\ AllDone(decoder)
              /\ collected.text = ItemText(decoder)
              /\ collected.seen = CallsIn(decoder)
        /\ \A i \in collected.seen : Len(collected.calls[i]) = Whole

\* An attempt that fails without the output mark may be retried by the gateway, so nothing of it
\* has reached the user.
RetryFence ==
    outcome = "failed" => ~HasOutput(collected)

\* What a native adapter decoded before a bad frame is handed on before the error, even when
\* both came in one chunk.
FactsBeforeFailure ==
    (protocol # "chat" /\ outcome \in {"failed", "failed after output"}) => taken = produced

\* A reply is the whole reply, and a failed attempt says truly whether any of it was shown.
ReplyHonest == ReplyIsFinal /\ RetryFence /\ FactsBeforeFailure
=============================================================================

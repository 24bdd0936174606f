-------------------------------- MODULE Brain --------------------------------
(***************************************************************************)
(* The bundled Thinker: one Prompt becomes one request on either wire, chat *)
(* completions or Responses, blocking or streaming, and what the provider   *)
(* sends is folded back into one decision or one error.                     *)
(*                                                                         *)
(* The provider answers as the scripted endpoint of the tests does, frame   *)
(* by frame; besides, the connection may break, a stream may end early and  *)
(* the SDK's accumulator may refuse a chunk, at any point.  Text is a       *)
(* sequence of runes, tool calls are numbered; rendering is left out.       *)
(***************************************************************************)
EXTENDS Integers, Sequences

CONSTANTS
    Replies,    \* the provider's answers to try, see Reply
    NoReply     \* nothing received yet

(* FakeCompletion: what the provider has to say, and how it ends. *)
Reply == [text : Seq({"a", "b"}), calls : Nat, usage : BOOLEAN,
          status : {"completed", "failed", "incomplete"},
          errStatus : BOOLEAN, streamError : BOOLEAN]

VARIABLES
    mode,       \* the wire: "chat" or "responses"
    stream,     \* BrainConfig.Stream
    sink,       \* a Sink is mounted on the context
    schemas,    \* every tool schema of the round parses
    stage,      \* where this Think is
    reply,      \* what the provider answers this request with
    frames,     \* frames of the answer still to arrive
    acc,        \* chat: the accumulated completion
    resp,       \* Responses: the response of the terminal event
    deltas,     \* what the sink heard of this request
    decision    \* what Think returned, an error included

VARIABLE requests   \* history: requests sent

brainConfig == <<mode, stream, sink, schemas>>
wireVars    == <<reply, frames, acc, resp, deltas>>
brainVars   == <<brainConfig, stage, wireVars, decision, requests>>

Failed == [text |-> << >>, calls |-> 0, usage |-> FALSE, ok |-> FALSE]
Empty  == [text |-> << >>, calls |-> 0, usage |-> FALSE, choices |-> FALSE]

Decided(body) == [text |-> body.text, calls |-> body.calls, usage |-> body.usage, ok |-> TRUE]

BrainInit ==
    /\ mode \in {"chat", "responses"} /\ stream \in BOOLEAN /\ sink \in BOOLEAN
    /\ schemas \in BOOLEAN
    /\ stage = "rest" /\ reply = NoReply /\ frames = << >> /\ acc = Empty
    /\ resp = NoReply /\ deltas = << >> /\ decision = Failed /\ requests = 0

-----------------------------------------------------------------------------
(* The provider.  Text arrives in two pieces, the first of them empty for a *)
(* single rune, and each call in a frame of its own.                        *)
Delta(text)   == [type |-> "delta", text |-> text]
Plain(type)   == [type |-> type, text |-> << >>]
Pieces(text)  == LET mid == Len(text) \div 2
                 IN  <<Delta(SubSeq(text, 1, mid)), Delta(SubSeq(text, mid + 1, Len(text)))>>

writeSSE(r) ==
    (IF r.text = << >> THEN <<Delta(<< >>)>> ELSE Pieces(r.text))
        \o [i \in 1 .. r.calls |-> Plain("call")]
        \o <<Plain("finish"), Plain("usage")>>

(* A failed run has no output. *)
responsesBody(r) ==
    IF r.status = "failed" THEN [r EXCEPT !.text = << >>, !.calls = 0] ELSE r

writeResponsesSSE(r) ==
    IF r.streamError THEN <<Plain("error")>>
    ELSE (IF r.text = << >> THEN << >> ELSE Pieces(r.text)) \o <<Plain("terminal")>>

-----------------------------------------------------------------------------
(* Think is called: the tool list is rendered first, and a malformed schema *)
(* fails it before anything is sent.                                        *)
RenderFails ==
    /\ stage = "called" /\ ~schemas
    /\ stage' = "returned" /\ decision' = Failed
    /\ UNCHANGED <<brainConfig, wireVars, requests>>

Request ==
    /\ stage = "called" /\ schemas
    /\ requests' = requests + 1
    /\ reply' \in Replies
    /\ frames' = IF mode = "chat" THEN writeSSE(reply') ELSE writeResponsesSSE(reply')
    /\ acc' = Empty /\ resp' = NoReply /\ deltas' = << >>
    /\ stage' = IF stream THEN "streaming" ELSE "waiting"
    /\ UNCHANGED <<brainConfig, decision>>

OnWire == stage \in {"waiting", "streaming"}

Return(d) ==
    /\ stage' = "returned" /\ decision' = d
    /\ UNCHANGED <<brainConfig, reply, requests>>

(* Mutant: the transport tries again on its own. *)
RequestFailsRetried ==
    /\ OnWire
    /\ stage' = IF requests < 6 THEN "called" ELSE "returned"
    /\ decision' = Failed
    /\ UNCHANGED <<brainConfig, wireVars, requests>>

(* A refused request, a broken connection, a context that is done: the SDK  *)
(* does not try again.                                                      *)
RequestFails ==
    /\ OnWire /\ Return(Failed)
    /\ UNCHANGED <<frames, acc, resp, deltas>>

responseDecisionOf(r) == IF r.status = "failed" THEN Failed ELSE Decided(r)

(* One whole answer, on either wire; a chat answer has no status. *)
Answered ==
    /\ stage = "waiting" /\ ~reply.errStatus
    /\ Return(IF mode = "chat" THEN Decided(reply) ELSE responseDecisionOf(responsesBody(reply)))
    /\ UNCHANGED <<frames, acc, resp, deltas>>

-----------------------------------------------------------------------------
(* Streams. *)
Receiving == stage = "streaming" /\ ~reply.errStatus

Hear(frame) ==
    deltas' = IF sink /\ frame.type = "delta" THEN deltas \o frame.text ELSE deltas

(* The accumulator merges the chunk; the frame of the usage has no choices. *)
AddChunk(a, frame, usage) ==
    CASE frame.type = "delta"  -> [a EXCEPT !.text = @ \o frame.text, !.choices = TRUE]
      [] frame.type = "call"   -> [a EXCEPT !.calls = @ + 1, !.choices = TRUE]
      [] frame.type = "usage"  -> [a EXCEPT !.usage = usage]
      [] OTHER                 -> [a EXCEPT !.choices = TRUE]

Chunk ==
    /\ Receiving /\ mode = "chat" /\ frames # << >>
    /\ acc' = AddChunk(acc, Head(frames), reply.usage)
    /\ Hear(Head(frames)) /\ frames' = Tail(frames)
    /\ UNCHANGED <<brainConfig, stage, reply, resp, decision, requests>>

(* The accumulator refuses the chunk: what arrived so far is dropped. *)
ChunkRefused ==
    /\ Receiving /\ mode = "chat" /\ frames # << >>
    /\ Return(Failed) /\ UNCHANGED <<frames, acc, resp, deltas>>

(* Text deltas are only heard; the terminal event carries the response. *)
ResponseEvent ==
    /\ Receiving /\ mode = "responses" /\ frames # << >> /\ Head(frames).type # "error"
    /\ Hear(Head(frames)) /\ frames' = Tail(frames)
    /\ resp' = IF Head(frames).type = "terminal" THEN responsesBody(reply) ELSE resp
    /\ UNCHANGED <<brainConfig, stage, reply, acc, decision, requests>>

ErrorEvent ==
    /\ Receiving /\ mode = "responses" /\ frames # << >> /\ Head(frames).type = "error"
    /\ Return(Failed) /\ UNCHANGED <<frames, acc, resp, deltas>>

(* Mutant: a stream without a terminal event is folded as it stands. *)
StreamEndsUnchecked ==
    /\ Receiving
    /\ Return(IF mode = "chat" THEN (IF acc.choices THEN Decided(acc) ELSE Failed)
              ELSE IF resp = NoReply THEN Decided([Empty EXCEPT !.text = deltas])
              ELSE responseDecisionOf(resp))
    /\ UNCHANGED <<frames, acc, resp, deltas>>

(* The stream ends, by itself or early.  The chat wire folds what arrived,  *)
(* if any choice did; the Responses wire wants its terminal event.          *)
StreamEnds ==
    /\ Receiving
    /\ Return(IF mode = "chat" THEN (IF acc.choices THEN Decided(acc) ELSE Failed)
              ELSE IF resp = NoReply THEN Failed
              ELSE responseDecisionOf(resp))
    /\ UNCHANGED <<frames, acc, resp, deltas>>

(* What the provider, or the network, may or may not do. *)
ProviderStep == Answered \/ Chunk \/ ChunkRefused \/ ResponseEvent \/ ErrorEvent \/ StreamEnds
LocalStep    == RenderFails \/ Request

BrainStep == LocalStep \/ ProviderStep \/ RequestFails

-----------------------------------------------------------------------------
Has(d, r) == d.text = r.text /\ d.calls = r.calls /\ d.usage = r.usage

(* A decision comes from this request's own answer and from one that may    *)
(* make it: all of it over a blocking call and over the Responses wire,     *)
(* which neither folds a failed run nor a stream without its terminal event;*)
(* over the chat stream what had arrived when it ended, all of it if it     *)
(* ended by itself.  And the sink has heard the text of the decision, once  *)
(* (stream.go 21-47, responses.go 121-189, decision.go).                    *)
DecisionIsTheAnswer ==
    stage = "returned" /\ decision.ok =>
        /\ reply # NoReply /\ ~reply.errStatus
        /\ mode = "responses" => reply.status # "failed" /\ (stream => ~reply.streamError)
        /\ mode = "chat" /\ stream => /\ decision.calls <= reply.calls
                                      /\ decision.text = SubSeq(reply.text, 1, Len(decision.text))
        /\ mode = "responses" \/ ~stream \/ frames = << >> => Has(decision, reply)
        /\ deltas = IF stream /\ sink THEN decision.text ELSE << >>
=============================================================================

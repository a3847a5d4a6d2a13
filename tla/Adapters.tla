------------------------------- MODULE Adapters -------------------------------
(***************************************************************************)
(* The provider adapters, internal/providers: what one call of the client, *)
(* in OpenAI's terms, becomes at an upstream that speaks its own, and what *)
(* becomes of the upstream's answer.  The relay sees all of it as one step *)
(* (UpstreamAnswers, UpstreamFails and StreamOpens in Relay); here it is   *)
(* every exchange with the upstream, one at a time.                        *)
(*                                                                         *)
(* Texts are members of a small set.  The wire formats are modelled by     *)
(* what they carry, and the upstreams, which are not in this repository,   *)
(* by what their format says of a conversation and of a reply.             *)
(***************************************************************************)
EXTENDS Integers, SequencesExt

CONSTANTS
  Texts,            \* message contents, parts of replies, embedding inputs
  Words,            \* text -> its number of words
  Limits,           \* max_tokens a client may send; 0 is unset
  UsageCounts,      \* token counts an upstream may report
  MaxMessages, MaxParts, MaxInputs,     \* bounds of the model
  NULL              \* unset, no request, no answer

Roles == {"system", "user", "assistant"}
AdapterTypes == {"openai_compatible", "anthropic", "gemini"}
Message == [role : Roles, content : Texts]
Chat == [kind : {"chat"}, messages : BoundedSeq(Message, MaxMessages), maxTokens : Limits,
         sampled : BOOLEAN]       \* the client set temperature or top_p
Embeddings == [kind : {"embeddings"}, input : BoundedSeq(Texts, MaxInputs)]
Images == [kind : {"images"}]

(* What goes over the wire, and what comes back to the relay. *)
Turn == [role : Roles \cup {"model"}, content : Texts]
ChatOut == [turns : Seq(Turn), system : Texts \cup {NULL}, limit : Nat \cup {NULL}, sampled : BOOLEAN]
TextsOut == [texts : Seq(Texts)]
ImagesOut == [images : {1}]
ChatBack == [text : Seq(Texts), tokens : Nat,
             finish : {"stop", "length", "content_filter", "max_tokens", "refusal"}]
VectorsBack == [vectors : Seq([index : Nat, of : Texts]), tokens : Nat]
ImagesBack == [tokens : {0}]

ASSUME AdaptersAssumption ==
  /\ Words \in [Texts -> Nat] /\ UsageCounts \subseteq Nat /\ Limits \subseteq Nat
  /\ {MaxMessages, MaxParts, MaxInputs} \subseteq Nat
  /\ NULL \notin Texts \cup Int
  /\ NULL \notin Chat /\ NULL \notin Embeddings /\ NULL \notin Images
  /\ NULL \notin ChatOut /\ NULL \notin TextsOut /\ NULL \notin ImagesOut
  /\ NULL \notin ChatBack /\ NULL \notin VectorsBack /\ NULL \notin ImagesBack

VARIABLES
  adapter,      \* the type of the provider the call goes to
  request,      \* what the client asked
  phase,        \* where the adapter is
  wire,         \* the request on its way to the upstream
  done,         \* the inputs the loop over them has done with
  data,         \* the embeddings collected so far
  tokens,       \* what they are estimated at
  answer,       \* what the adapter returns to the relay, unless an error
  reply         \* history: what the upstream had to say

vars == <<adapter, request, phase, wire, done, data, tokens, answer, reply>>

(* The relay logs the tokens of a response that is not nil, of a call that *)
(* failed too: there is no response beside an error.                       *)
TypeOK ==
  /\ adapter \in AdapterTypes
  /\ phase \in {"idle", "sending", "waiting", "over", "failed"}
  /\ request \in Chat \cup Embeddings \cup Images \cup {NULL}
  /\ wire \in ChatOut \cup TextsOut \cup ImagesOut \cup {NULL}
  /\ answer \in ChatBack \cup VectorsBack \cup ImagesBack \cup {NULL}
  /\ data \in Seq([index : Nat, of : Texts])
  /\ phase = "idle" <=> request = NULL
  /\ phase = "waiting" <=> wire # NULL
  /\ phase = "over" <=> answer # NULL
  /\ done \in 0 .. MaxInputs /\ Len(data) <= done /\ tokens \in Nat

Init ==
  /\ adapter \in AdapterTypes
  /\ phase = "idle"
  /\ request = NULL /\ wire = NULL /\ answer = NULL /\ reply = NULL
  /\ done = 0 /\ data = <<>> /\ tokens = 0

-----------------------------------------------------------------------------
(* Those of s that are in some set, collected as a loop over s does it. *)
Collect(s, wanted) ==
  LET collected[n \in 0 .. Len(s)] ==
        IF n = 0 THEN <<>>
        ELSE IF s[n] \in wanted THEN Append(collected[n - 1], s[n]) ELSE collected[n - 1]
  IN  collected[Len(s)]

(* Building the upstream's request. *)
Instructions(messages) == Collect(messages, [role : {"system"}, content : Texts])
Turns(messages) == Collect(messages, [role : {"user", "assistant"}, content : Texts])

(* Each system message overwrites the one before. *)
SystemOf(messages) ==
  IF Instructions(messages) = <<>> THEN NULL ELSE Last(Instructions(messages)).content

OpenAIRequest(r) ==
  [turns |-> r.messages, system |-> NULL,
   limit |-> IF r.maxTokens > 0 THEN r.maxTokens ELSE NULL, sampled |-> r.sampled]

(* Mutant: the loop treats system messages like the others. *)
AnthropicRequestInline(r) ==
  [turns |-> r.messages, system |-> SystemOf(r.messages),
   limit |-> IF r.maxTokens = 0 THEN 4096 ELSE r.maxTokens, sampled |-> FALSE]

(* buildAnthropicRequest: max_tokens is required there, temperature and    *)
(* top_p have no field.                                                    *)
AnthropicRequest(r) ==
  [turns |-> Turns(r.messages), system |-> SystemOf(r.messages),
   limit |-> IF r.maxTokens = 0 THEN 4096 ELSE r.maxTokens, sampled |-> FALSE]

AsGemini(m) == [m EXCEPT !.role = IF @ = "assistant" THEN "model" ELSE @]

GeminiRequest(r) ==
  LET turns == Turns(r.messages)
  IN  [turns |-> [i \in DOMAIN turns |-> AsGemini(turns[i])], system |-> SystemOf(r.messages),
       limit |-> IF r.maxTokens > 0 THEN r.maxTokens ELSE NULL, sampled |-> r.sampled]

ChatRequest ==
  CASE adapter = "openai_compatible" -> OpenAIRequest(request)
    [] adapter = "anthropic" -> AnthropicRequest(request)
    [] adapter = "gemini" -> GeminiRequest(request)

(* embedContent takes one text at a time. *)
EmbeddingsRequest ==
  [texts |-> IF adapter = "gemini" THEN <<request.input[done + 1]>> ELSE request.input]

-----------------------------------------------------------------------------
(* What an upstream makes of a chat request, in its own format. *)
HeardTurns ==
  LET heard(m) == [m EXCEPT !.role = IF @ = "model" THEN "assistant" ELSE @]
      said == IF adapter = "openai_compatible" THEN Turns(wire.turns) ELSE wire.turns
  IN  [i \in DOMAIN said |-> heard(said[i])]
HeardSystem ==
  IF adapter = "openai_compatible"
  THEN [i \in DOMAIN Instructions(wire.turns) |-> Instructions(wire.turns)[i].content]
  ELSE IF wire.system = NULL THEN <<>> ELSE <<wire.system>>

(* What an upstream has to say: text in parts, other blocks (a tool use, a *)
(* thought) among them, why it stopped, and the tokens of both sides.      *)
Part == [type : {"text"}, text : Texts] \cup [type : {"other"}]
Reasons == {"finished", "cut", "blocked"}
Reply == [parts : BoundedSeq(Part, MaxParts), why : Reasons, in : UsageCounts, out : UsageCounts]

SaidText(parts) ==
  LET said == Collect(parts, [type : {"text"}, text : Texts])
  IN  [i \in DOMAIN said |-> said[i].text]

(* The wire formats of a reply. *)
OpenAIWire(r) ==
  [content |-> SaidText(r.parts),
   finish_reason |-> CASE r.why = "finished" -> "stop" [] r.why = "cut" -> "length"
                       [] r.why = "blocked" -> "content_filter",
   total |-> r.in + r.out]
AnthropicWire(r) ==
  [content |-> r.parts,
   stop_reason |-> CASE r.why = "finished" -> "end_turn" [] r.why = "cut" -> "max_tokens"
                     [] r.why = "blocked" -> "refusal",
   in |-> r.in, out |-> r.out]
(* A part has no type there.  One that is no text carries none: thoughts,  *)
(* which would, are sent to who asks for them, and no request here does.   *)
GeminiParts(parts) ==
  [i \in DOMAIN parts |-> [text |-> IF parts[i].type = "text" THEN parts[i].text ELSE NULL]]

(* A prompt that is blocked has no candidate. *)
GeminiWire(r) ==
  [candidates |-> IF r.why = "blocked" /\ r.parts = <<>> THEN <<>>
                  ELSE <<[parts |-> GeminiParts(r.parts),
                          finishReason |-> CASE r.why = "finished" -> "STOP"
                                             [] r.why = "cut" -> "MAX_TOKENS"
                                             [] r.why = "blocked" -> "SAFETY"]>>,
   total |-> r.in + r.out]

-----------------------------------------------------------------------------
(* Decoding.  An OpenAI answer is handed on as it is. *)
OpenAIAnswer(w) == [text |-> w.content, finish |-> w.finish_reason, tokens |-> w.total]

(* Mutant: the first block only. *)
AnthropicAnswerFirstBlock(w) ==
  [text |-> IF w.content = <<>> THEN <<>> ELSE SaidText(<<Head(w.content)>>),
   finish |-> IF w.stop_reason = "end_turn" THEN "stop" ELSE w.stop_reason,
   tokens |-> w.in + w.out]

(* anthropicResponseToChatResponse *)
AnthropicAnswer(w) ==
  [text |-> SaidText(w.content),
   finish |-> IF w.stop_reason = "end_turn" THEN "stop" ELSE w.stop_reason,
   tokens |-> w.in + w.out]

(* The texts of all parts, one after the other; no text adds nothing. *)
JoinedText(parts) ==
  LET texts == Collect(parts, [text : Texts])
  IN  [i \in DOMAIN texts |-> texts[i].text]

(* geminiResponseToChatResponse: the first candidate; reasons other than   *)
(* the two it knows, and no candidate, read "stop".                        *)
GeminiAnswer(w) ==
  [text |-> IF w.candidates = <<>> THEN <<>> ELSE JoinedText(Head(w.candidates).parts),
   finish |-> IF w.candidates # <<>> /\ Head(w.candidates).finishReason = "MAX_TOKENS"
              THEN "max_tokens" ELSE "stop",
   tokens |-> w.total]

ChatAnswer(r) ==
  CASE adapter = "openai_compatible" -> OpenAIAnswer(OpenAIWire(r))
    [] adapter = "anthropic" -> AnthropicAnswer(AnthropicWire(r))
    [] adapter = "gemini" -> GeminiAnswer(GeminiWire(r))

-----------------------------------------------------------------------------
(* One call. *)
Ask ==
  /\ phase = "idle"
  /\ request' \in Chat \cup Embeddings \cup Images
  /\ phase' = "sending"
  /\ UNCHANGED <<adapter, wire, done, data, tokens, answer, reply>>

Supported ==
  /\ request.kind = "embeddings" => adapter # "anthropic"
  /\ request.kind = "images" => adapter = "openai_compatible"

Return(a) ==
  /\ answer' = a
  /\ phase' = "over"
  /\ wire' = NULL

(* Mutant: what was collected is returned along with the error. *)
ReturnErrorWithData ==
  /\ phase' = "failed"
  /\ wire' = NULL
  /\ answer' = [vectors |-> data, tokens |-> tokens]

ReturnError ==
  /\ phase' = "failed"
  /\ wire' = NULL
  /\ UNCHANGED answer

(* "... does not support ...", without asking anyone. *)
Unsupported ==
  /\ phase = "sending"
  /\ ~Supported
  /\ ReturnError
  /\ UNCHANGED <<adapter, request, done, data, tokens, reply>>

(* No text, no exchange: the loop over the inputs is over before it starts. *)
NothingToEmbed == request.kind = "embeddings" /\ adapter = "gemini" /\ request.input = <<>>

ReturnNothing ==
  /\ phase = "sending"
  /\ NothingToEmbed
  /\ Return([vectors |-> <<>>, tokens |-> 0])
  /\ UNCHANGED <<adapter, request, done, data, tokens, reply>>

Send ==
  /\ phase = "sending"
  /\ Supported /\ ~NothingToEmbed
  /\ wire' = CASE request.kind = "chat" -> ChatRequest
               [] request.kind = "embeddings" -> EmbeddingsRequest
               [] request.kind = "images" -> [images |-> 1]
  /\ phase' = "waiting"
  /\ UNCHANGED <<adapter, request, done, data, tokens, answer, reply>>

(* Mutant: a text the upstream refuses is left out. *)
ExchangeFailsSkips ==
  /\ phase = "waiting"
  /\ IF request.kind = "embeddings" /\ adapter = "gemini"
     THEN /\ done' = done + 1
          /\ IF done' = Len(request.input)
             THEN Return([vectors |-> data, tokens |-> tokens])
             ELSE phase' = "sending" /\ wire' = NULL /\ UNCHANGED answer
     ELSE ReturnError /\ UNCHANGED done
  /\ UNCHANGED <<adapter, request, data, tokens, reply>>

(* No connection, a status other than 200, a body that does not decode,    *)
(* the client's timeout.  What was collected before is dropped.            *)
ExchangeFails ==
  /\ phase = "waiting"
  /\ ReturnError
  /\ UNCHANGED <<adapter, request, done, data, tokens, reply>>

ChatReplied ==
  /\ phase = "waiting" /\ request.kind = "chat"
  /\ \E r \in Reply : reply' = r /\ Return(ChatAnswer(r))
  /\ UNCHANGED <<adapter, request, done, data, tokens>>

(* A vector stands for the text it was made from; the response is handed on. *)
Vector(i, text) == [index |-> i, of |-> text]

EmbeddingsReplied ==
  /\ phase = "waiting" /\ request.kind = "embeddings" /\ adapter = "openai_compatible"
  /\ \E n \in UsageCounts :
       Return([vectors |-> [i \in DOMAIN wire.texts |-> Vector(i - 1, wire.texts[i])],
               tokens |-> n])
  /\ UNCHANGED <<adapter, request, done, data, tokens, reply>>

(* Gemini: one vector, and on to the next text.  len(strings.Fields) of it. *)
VectorReplied ==
  /\ phase = "waiting" /\ request.kind = "embeddings" /\ adapter = "gemini"
  /\ data' = Append(data, Vector(done, wire.texts[1]))
  /\ tokens' = tokens + Words[wire.texts[1]]
  /\ done' = done + 1
  /\ IF done' = Len(request.input)
     THEN Return([vectors |-> data', tokens |-> tokens'])
     ELSE phase' = "sending" /\ wire' = NULL /\ UNCHANGED answer
  /\ UNCHANGED <<adapter, request, reply>>

(* The images themselves are handed on; no usage comes with them. *)
ImagesReplied ==
  /\ phase = "waiting" /\ request.kind = "images"
  /\ Return([tokens |-> 0])
  /\ UNCHANGED <<adapter, request, done, data, tokens, reply>>

Next ==
  \/ Ask \/ Unsupported \/ ReturnNothing \/ Send \/ ExchangeFails
  \/ ChatReplied \/ EmbeddingsReplied \/ VectorReplied \/ ImagesReplied

Spec == Init /\ [][Next]_vars

-----------------------------------------------------------------------------
(* Whatever its format, an upstream reads in the request the conversation  *)
(* the client had: every turn, in order, by whom it was said.  Of several  *)
(* system messages it reads at least the last, and a limit on the answer   *)
(* if and as the client set one (buildAnthropicRequest, buildGeminiRequest).*)
ConversationReachesUpstream ==
  (phase = "waiting" /\ request.kind = "chat") =>
     /\ HeardTurns = Turns(request.messages)
     /\ Instructions(request.messages) # <<>> =>
          HeardSystem # <<>> /\ Last(HeardSystem) = Last(Instructions(request.messages)).content
     /\ Instructions(request.messages) = <<>> => HeardSystem = <<>>
     /\ request.maxTokens > 0 => wire.limit = request.maxTokens

(* Whatever its format, the client gets all the text of the reply and no   *)
(* other, is charged for the tokens of both sides, and is not told "stop"  *)
(* of an answer that was cut at its limit.                                 *)
AnswerIsReply ==
  (reply # NULL) =>
     /\ answer.text = SaidText(reply.parts)
     /\ answer.tokens = reply.in + reply.out
     /\ reply.why = "cut" => answer.finish # "stop"

(* One vector for each input, in their order, or an error: though Gemini   *)
(* is asked for them one by one, no answer leaves one out, or mistakes one *)
(* for another, when an exchange in between fails (gemini.go:216).         *)
EmbeddingsMatchInputs ==
  (phase = "over" /\ request.kind = "embeddings") =>
     /\ Len(answer.vectors) = Len(request.input)
     /\ \A i \in DOMAIN request.input : answer.vectors[i] = Vector(i - 1, request.input[i])
=============================================================================

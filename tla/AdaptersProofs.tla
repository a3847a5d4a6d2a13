---------------------------- MODULE AdaptersProofs ----------------------------
(***************************************************************************)
(* Theorems about the adapters, for conversations, replies and lists of    *)
(* inputs of any length.                                                   *)
(*                                                                         *)
(* The loop over the embedding inputs is the one part that takes several   *)
(* exchanges: its invariant says of the vectors collected so far what the  *)
(* property says of all of them.  The translations of a chat and of a      *)
(* reply take one step, but loop over messages and parts in it; what such  *)
(* a loop collects is proved first, by induction on how far it has come.   *)
(***************************************************************************)
EXTENDS Adapters, WellFoundedInduction, TLAPS

Embedding == request # NULL /\ request.kind = "embeddings"

(* What is on its way to the upstream was made from the request as it is,  *)
(* and from as much of the inputs as the loop has done with.               *)
SentIsRequest ==
  phase = "waiting" =>
    /\ Supported /\ ~NothingToEmbed
    /\ request.kind = "chat" => wire = ChatRequest
    /\ request.kind = "embeddings" => wire = EmbeddingsRequest

(* The loop has collected one vector for each input it has done with, and  *)
(* is not over while an exchange is still to come.                         *)
CollectedSoFar ==
  /\ phase = "idle" => done = 0 /\ data = <<>>
  /\ Embedding /\ phase \in {"sending", "waiting"} =>
       /\ Len(data) = done /\ done <= Len(request.input)
       /\ request.input # <<>> => done < Len(request.input)
       /\ \A i \in 1 .. done : data[i] = Vector(i - 1, request.input[i])

(* A reply has been answered. *)
Replied == reply # NULL => phase = "over" /\ request.kind = "chat" /\ AnswerIsReply

AdaptersInv == TypeOK /\ SentIsRequest /\ CollectedSoFar /\ Replied /\ EmbeddingsMatchInputs

(* The order of the natural numbers, as the induction theorems take it. *)
LEMMA NatOrder == \A i, j \in Nat : <<i, j>> \in OpToRel(<, Nat) <=> i < j
BY DEF OpToRel

(* Induction, as a fact about sets of numbers. *)
LEMMA NatSetInduction ==
  ASSUME NEW I, 0 \in I, \A n \in Nat : n \in I => n + 1 \in I
  PROVE  Nat \subseteq I
<1> SUFFICES ASSUME Nat \ I # {} PROVE FALSE
  OBVIOUS
<1> DEFINE R == OpToRel(<, Nat)
           T == Nat \ I
<1>1. IsWellFoundedOn(R, Nat)
  BY NatLessThanWellFounded
<1> HIDE DEF R
<1>2. PICK x \in T : \A y \in T : <<y, x>> \notin R
  <2>1. T \subseteq Nat /\ T # {}
    OBVIOUS
  <2> HIDE DEF T
  <2> QED BY <1>1, <2>1, WFMin
<1>3. x # 0 /\ x - 1 \in Nat /\ x - 1 < x
  OBVIOUS
<1>4. x - 1 \in I
  BY <1>2, <1>3, NatOrder DEF R
<1> QED BY <1>3, <1>4

-----------------------------------------------------------------------------
(* What a loop has collected after n rounds, from what it had before.      *)
Round(g, s, wanted, n) ==
  IF n = 0 THEN <<>> ELSE IF s[n] \in wanted THEN Append(g[n - 1], s[n]) ELSE g[n - 1]
IsLoop(g, s, wanted, n) == g = [i \in 0 .. n |-> Round(g, s, wanted, i)]

(* Collect is such a loop, run to the end. *)
LEMMA CollectDef ==
  ASSUME NEW s, NEW wanted
  PROVE  Collect(s, wanted) = (CHOOSE g : IsLoop(g, s, wanted, Len(s)))[Len(s)]
BY DEF Collect, IsLoop, Round

(* It can be run for any number of rounds. *)
LEMMA LoopExists ==
  ASSUME NEW s, NEW wanted
  PROVE  \A n \in Nat : \E g : IsLoop(g, s, wanted, n)
<1> DEFINE I == {n \in Nat : \E g : IsLoop(g, s, wanted, n)}
<1>1. 0 \in I
  <2>1. IsLoop([i \in 0 .. 0 |-> <<>>], s, wanted, 0)
    BY DEF IsLoop, Round
  <2> QED BY <2>1
<1>2. ASSUME NEW n \in Nat, n \in I PROVE n + 1 \in I
  <2>1. PICK g : IsLoop(g, s, wanted, n)
    BY <1>2
  <2> DEFINE h == [i \in 0 .. n + 1 |-> Round(g, s, wanted, i)]
  <2>2. ASSUME NEW i \in 0 .. n + 1 PROVE Round(h, s, wanted, i) = Round(g, s, wanted, i)
    <3>1. CASE i = 0
      BY <3>1 DEF Round
    <3>2. CASE i # 0
      <4>1. i - 1 \in 0 .. n /\ i - 1 \in 0 .. n + 1
        BY <3>2
      <4>2. g[i - 1] = Round(g, s, wanted, i - 1)
        BY <2>1, <4>1 DEF IsLoop
      <4>3. h[i - 1] = Round(g, s, wanted, i - 1)
        BY <4>1
      <4> HIDE DEF h
      <4> QED BY <3>2, <4>2, <4>3 DEF Round
    <3> QED BY <3>1, <3>2
  <2>3. IsLoop(h, s, wanted, n + 1)
    BY <2>2 DEF IsLoop
  <2> HIDE DEF h
  <2> QED BY <2>3
<1> HIDE DEF I
<1>3. Nat \subseteq I
  BY <1>1, <1>2, NatSetInduction
<1> QED BY <1>3 DEF I

(* It collects a sequence of what is wanted and there, and nothing from nothing. *)
LEMMA Collects ==
  ASSUME NEW S, NEW s \in Seq(S), NEW wanted
  PROVE  /\ Collect(s, wanted) \in Seq(S \cap wanted)
         /\ s = <<>> => Collect(s, wanted) = <<>>
<1> DEFINE g == CHOOSE g : IsLoop(g, s, wanted, Len(s))
           I == {n \in Nat : n <= Len(s) => g[n] \in Seq(S \cap wanted)}
<1>0. Len(s) \in Nat /\ \A n \in 1 .. Len(s) : s[n] \in S
  OBVIOUS
<1>1. IsLoop(g, s, wanted, Len(s))
  BY <1>0, LoopExists
<1>2. Collect(s, wanted) = g[Len(s)]
  BY CollectDef
<1> HIDE DEF g
<1>3. \A n \in 0 .. Len(s) : g[n] = Round(g, s, wanted, n)
  BY <1>1 DEF IsLoop
<1>4. 0 \in I
  <2>1. g[0] = <<>>
    BY <1>0, <1>3 DEF Round
  <2>2. <<>> \in Seq(S \cap wanted)
    OBVIOUS
  <2> QED BY <2>1, <2>2
<1>5. ASSUME NEW n \in Nat, n \in I PROVE n + 1 \in I
  <2> SUFFICES ASSUME n + 1 <= Len(s) PROVE g[n + 1] \in Seq(S \cap wanted)
    OBVIOUS
  <2>1. g[n] \in Seq(S \cap wanted) /\ s[n + 1] \in S
    BY <1>0, <1>5
  <2>2. g[n + 1] = IF s[n + 1] \in wanted THEN Append(g[n], s[n + 1]) ELSE g[n]
    BY <1>0, <1>3 DEF Round
  <2> QED BY <2>1, <2>2
<1> HIDE DEF I
<1>6. Len(s) \in I
  BY <1>0, <1>4, <1>5, NatSetInduction
<1>7. s = <<>> => g[Len(s)] = <<>>
  BY <1>0, <1>3 DEF Round
<1> QED BY <1>0, <1>2, <1>6, <1>7 DEF I

(* A bounded sequence is a sequence, and bounded. *)
LEMMA BoundedSeqTyped ==
  ASSUME NEW S, NEW n \in Nat, NEW s \in BoundedSeq(S, n)
  PROVE  s \in Seq(S) /\ Len(s) \in Nat /\ Len(s) <= n /\ DOMAIN s = 1 .. Len(s)
         /\ \A i \in 1 .. Len(s) : s[i] \in S
<1>1. s \in UNION {[1 .. m -> S] : m \in 0 .. n}
  BY DEF BoundedSeq, SeqOf
<1>2. PICK m \in 0 .. n : s \in [1 .. m -> S]
  BY <1>1
<1>3. m \in Nat /\ m <= n
  BY <1>2
<1>4. s \in Seq(S)
  BY <1>2, <1>3
<1>5. Len(s) = m
  BY <1>2, <1>3, <1>4
<1> QED BY <1>2, <1>3, <1>4, <1>5

(* A sequence, element by element. *)
LEMMA Elements ==
  ASSUME NEW S, NEW s
  PROVE  s \in Seq(S) <=> /\ Len(s) \in Nat /\ s = [i \in 1 .. Len(s) |-> s[i]]
                         /\ \A i \in 1 .. Len(s) : s[i] \in S
OBVIOUS

(* Turns are what is not a system message, and instructions what is one. *)
LEMMA TurnsTyped ==
  ASSUME NEW messages \in Seq(Message)
  PROVE  /\ Turns(messages) \in Seq([role : {"user", "assistant"}, content : Texts])
         /\ Instructions(messages) \in Seq([role : {"system"}, content : Texts])
<1>1. /\ Message \cap [role : {"user", "assistant"}, content : Texts]
           = [role : {"user", "assistant"}, content : Texts]
      /\ Message \cap [role : {"system"}, content : Texts] = [role : {"system"}, content : Texts]
  BY DEF Message, Roles
<1> QED BY <1>1, Collects DEF Turns, Instructions

(* The text of a reply is a sequence of texts, and there is none in no parts. *)
LEMMA SaidTextTyped ==
  ASSUME NEW parts \in Seq(Part)
  PROVE  SaidText(parts) \in Seq(Texts) /\ SaidText(<<>>) = <<>>
<1> DEFINE said == Collect(parts, [type : {"text"}, text : Texts])
<1>1. Part \cap [type : {"text"}, text : Texts] = [type : {"text"}, text : Texts]
  BY DEF Part
<1>2. said \in Seq([type : {"text"}, text : Texts])
  BY <1>1, Collects
<1>3. Collect(<<>>, [type : {"text"}, text : Texts]) = <<>>
  <2>1. <<>> \in Seq(Part)
    OBVIOUS
  <2> QED BY <2>1, Collects
<1>4. SaidText(<<>>) = <<>>
  <2>1. SaidText(<<>>) = [i \in {} |-> Collect(<<>>, [type : {"text"}, text : Texts])[i].text]
    <3>1. SaidText(<<>>) = [i \in DOMAIN Collect(<<>>, [type : {"text"}, text : Texts])
                             |-> Collect(<<>>, [type : {"text"}, text : Texts])[i].text]
      BY DEF SaidText
    <3>2. DOMAIN <<>> = {}
      OBVIOUS
    <3> QED BY <1>3, <3>1, <3>2, Zenon
  <2> QED BY <2>1
<1>5. SaidText(parts) = [i \in DOMAIN said |-> said[i].text]
  BY DEF SaidText
<1> HIDE DEF said
<1>6. Len(said) \in Nat /\ DOMAIN said = 1 .. Len(said) /\ \A i \in 1 .. Len(said) : said[i].text \in Texts
  <2>1. \A i \in 1 .. Len(said) : said[i] \in [type : {"text"}, text : Texts]
    BY <1>2, Elements, Zenon
  <2>2. \A r \in [type : {"text"}, text : Texts] : r.text \in Texts
    OBVIOUS
  <2>3. Len(said) \in Nat /\ DOMAIN said = 1 .. Len(said)
    BY <1>2
  <2> QED BY <2>1, <2>2, <2>3, Zenon
<1>7. [i \in 1 .. Len(said) |-> said[i].text] \in Seq(Texts)
  BY <1>6
<1> QED BY <1>4, <1>5, <1>6, <1>7

-----------------------------------------------------------------------------
(* What a request holds, by its kind. *)
LEMMA RequestTyped ==
  ASSUME NEW r \in Chat \cup Embeddings \cup Images
  PROVE  /\ r.kind \in {"chat", "embeddings", "images"}
         /\ r.kind = "chat" => /\ r.messages \in Seq(Message) /\ r.maxTokens \in Nat
                              /\ r.sampled \in BOOLEAN
         /\ r.kind = "embeddings" => /\ r.input \in Seq(Texts)
                                    /\ Len(r.input) <= MaxInputs
<1>1. MaxMessages \in Nat /\ MaxInputs \in Nat /\ Limits \subseteq Nat
  BY AdaptersAssumption
<1>2. CASE r \in Chat
  <2>1. r.kind = "chat" /\ r.messages \in BoundedSeq(Message, MaxMessages)
        /\ r.maxTokens \in Limits /\ r.sampled \in BOOLEAN
    BY <1>2 DEF Chat
  <2> QED BY <1>1, <2>1, BoundedSeqTyped
<1>3. CASE r \in Embeddings
  <2>1. r.kind = "embeddings" /\ r.input \in BoundedSeq(Texts, MaxInputs)
    BY <1>3 DEF Embeddings
  <2> QED BY <1>1, <2>1, BoundedSeqTyped
<1>4. CASE r \in Images
  BY <1>4 DEF Images
<1> QED BY <1>2, <1>3, <1>4

(* The system prompt is the last of the instructions, if there is any. *)
LEMMA SystemTyped ==
  ASSUME NEW messages \in Seq(Message)
  PROVE  /\ SystemOf(messages) \in Texts \cup {NULL}
         /\ SystemOf(messages) = NULL <=> Instructions(messages) = <<>>
<1> DEFINE all == Instructions(messages)
<1>1. all \in Seq([role : {"system"}, content : Texts])
  BY TurnsTyped
<1>2. SystemOf(messages) = IF all = <<>> THEN NULL ELSE all[Len(all)].content
  BY DEF SystemOf, Last
<1> HIDE DEF all
<1>3. ASSUME all # <<>> PROVE all[Len(all)].content \in Texts
  <2>1. Len(all) \in 1 .. Len(all)
    BY <1>1, <1>3
  <2>2. all[Len(all)] \in [role : {"system"}, content : Texts]
    BY <1>1, <2>1, Elements, Zenon
  <2> QED BY <2>2
<1>4. NULL \notin Texts
  BY AdaptersAssumption
<1>5. SystemOf(messages) = NULL <=> all = <<>>
  BY <1>2, <1>3, <1>4
<1> QED BY <1>2, <1>3, <1>5 DEF all

(* Two loops over sequences of which the same places are wanted collect     *)
(* the same texts, if those places have the same.                          *)
LEMMA CollectAlike ==
  ASSUME NEW S, NEW T, NEW s \in Seq(S), NEW t \in Seq(T), NEW W, NEW V, Len(s) = Len(t),
         \A i \in 1 .. Len(s) : (s[i] \in W <=> t[i] \in V) /\ (s[i] \in W => s[i].text = t[i].text)
  PROVE  /\ Len(Collect(s, W)) = Len(Collect(t, V))
         /\ \A i \in 1 .. Len(Collect(s, W)) : Collect(s, W)[i].text = Collect(t, V)[i].text
<1> DEFINE g == CHOOSE g : IsLoop(g, s, W, Len(s))
           h == CHOOSE h : IsLoop(h, t, V, Len(t))
           Alike(a, b) == /\ a \in Seq(S) /\ b \in Seq(T) /\ Len(a) = Len(b)
                          /\ \A i \in 1 .. Len(a) : a[i].text = b[i].text
           I == {n \in Nat : n <= Len(s) => Alike(g[n], h[n])}
<1>0. Len(s) \in Nat /\ \A n \in 1 .. Len(s) : s[n] \in S /\ t[n] \in T
  OBVIOUS
<1>1. IsLoop(g, s, W, Len(s)) /\ IsLoop(h, t, V, Len(t))
  BY <1>0, LoopExists
<1>2. Collect(s, W) = g[Len(s)] /\ Collect(t, V) = h[Len(s)]
  BY CollectDef
<1> HIDE DEF g, h
<1>3. \A n \in 0 .. Len(s) : g[n] = Round(g, s, W, n) /\ h[n] = Round(h, t, V, n)
  BY <1>1 DEF IsLoop
<1>4. 0 \in I
  <2>1. g[0] = <<>> /\ h[0] = <<>>
    BY <1>0, <1>3 DEF Round
  <2>2. Alike(<<>>, <<>>)
    <3>1. <<>> \in Seq(S) /\ <<>> \in Seq(T) /\ Len(<<>>) = 0
      OBVIOUS
    <3> QED BY <3>1
  <2>3. Alike(g[0], h[0])
    BY <2>1, <2>2
  <2> HIDE DEF Alike
  <2> QED BY <2>3
<1>5. ASSUME NEW n \in Nat, n \in I PROVE n + 1 \in I
  <2> SUFFICES ASSUME n + 1 <= Len(s) PROVE Alike(g[n + 1], h[n + 1])
    OBVIOUS
  <2>1. Alike(g[n], h[n]) /\ s[n + 1] \in S /\ t[n + 1] \in T
    BY <1>0, <1>5
  <2>2. /\ g[n + 1] = IF s[n + 1] \in W THEN Append(g[n], s[n + 1]) ELSE g[n]
        /\ h[n + 1] = IF t[n + 1] \in V THEN Append(h[n], t[n + 1]) ELSE h[n]
    BY <1>0, <1>3 DEF Round
  <2>3. (s[n + 1] \in W <=> t[n + 1] \in V) /\ (s[n + 1] \in W => s[n + 1].text = t[n + 1].text)
    BY <1>0
  <2>4. ASSUME NEW a, NEW b, Alike(a, b), NEW x \in S, NEW y \in T, x.text = y.text
        PROVE  Alike(Append(a, x), Append(b, y))
    <3>1. a \in Seq(S) /\ b \in Seq(T) /\ Len(a) = Len(b) /\ Len(a) \in Nat
      BY <2>4
    <3>2. /\ Append(a, x) \in Seq(S) /\ Len(Append(a, x)) = Len(a) + 1
          /\ \A i \in 1 .. Len(a) + 1 : Append(a, x)[i] = IF i <= Len(a) THEN a[i] ELSE x
      BY <3>1
    <3>3. /\ Append(b, y) \in Seq(T) /\ Len(Append(b, y)) = Len(a) + 1
          /\ \A i \in 1 .. Len(a) + 1 : Append(b, y)[i] = IF i <= Len(a) THEN b[i] ELSE y
      BY <3>1
    <3>4. \A i \in 1 .. Len(a) + 1 : Append(a, x)[i].text = Append(b, y)[i].text
      <4>1. \A i \in 1 .. Len(a) : a[i].text = b[i].text
        BY <2>4
      <4>2. \A i \in 1 .. Len(a) + 1 : i <= Len(a) => i \in 1 .. Len(a)
        BY <3>1
      <4> QED BY <2>4, <3>2, <3>3, <4>1, <4>2
    <3> QED BY <3>2, <3>3, <3>4
  <2> HIDE DEF Alike
  <2>5. CASE s[n + 1] \in W
    BY <2>1, <2>2, <2>3, <2>4, <2>5
  <2>6. CASE s[n + 1] \notin W
    BY <2>1, <2>2, <2>3, <2>6
  <2> QED BY <2>5, <2>6
<1> HIDE DEF I
<1>6. Len(s) \in I
  BY <1>0, <1>4, <1>5, NatSetInduction
<1> QED BY <1>0, <1>2, <1>6 DEF I

(* The texts of Gemini's parts are those of the parts that are text. *)
LEMMA PartsJoined ==
  ASSUME NEW parts \in Seq(Part)
  PROVE  JoinedText(GeminiParts(parts)) = SaidText(parts)
<1> DEFINE W == [type : {"text"}, text : Texts]
           V == [text : Texts]
           sent == GeminiParts(parts)
           said == Collect(parts, W)
           texts == Collect(sent, V)
<1>1. /\ Len(parts) \in Nat /\ DOMAIN parts = 1 .. Len(parts)
      /\ \A i \in 1 .. Len(parts) : parts[i] \in Part
  OBVIOUS
<1>2. sent = [i \in 1 .. Len(parts) |-> [text |-> IF parts[i].type = "text" THEN parts[i].text ELSE NULL]]
  BY <1>1 DEF GeminiParts
<1>3. ASSUME NEW i \in 1 .. Len(parts)
      PROVE  /\ parts[i] \in W <=> sent[i] \in V
             /\ parts[i] \in W => parts[i].text = sent[i].text
             /\ sent[i] \in [text : Texts \cup {NULL}]
  <2>1. sent[i] = [text |-> IF parts[i].type = "text" THEN parts[i].text ELSE NULL]
    BY <1>2
  <2>2. parts[i] \in Part /\ NULL \notin Texts
    BY <1>1, AdaptersAssumption
  <2> HIDE DEF sent
  <2> QED BY <2>1, <2>2 DEF Part
<1>4. sent \in Seq([text : Texts \cup {NULL}]) /\ Len(sent) = Len(parts)
  BY <1>1, <1>2, <1>3
<1> HIDE DEF sent, W, V
<1>5. /\ Len(said) = Len(texts)
      /\ \A i \in 1 .. Len(said) : said[i].text = texts[i].text
  BY <1>3, <1>4, CollectAlike
<1>6. said \in Seq(Part \cap W) /\ texts \in Seq([text : Texts \cup {NULL}] \cap V)
  BY <1>4, Collects
<1>7. DOMAIN said = 1 .. Len(said) /\ DOMAIN texts = 1 .. Len(said)
  BY <1>5, <1>6
<1>8. /\ SaidText(parts) = [i \in DOMAIN said |-> said[i].text]
      /\ JoinedText(sent) = [i \in DOMAIN texts |-> texts[i].text]
  BY DEF SaidText, JoinedText, W, V
<1> HIDE DEF said, texts
<1> QED BY <1>5, <1>7, <1>8 DEF sent

(* The role a turn goes by in Gemini's format, and back. *)
LEMMA RoleThereAndBack ==
  ASSUME NEW turns \in Seq([role : {"user", "assistant"}, content : Texts])
  PROVE  /\ turns \in Seq(Turn)
         /\ [i \in DOMAIN turns |-> AsGemini(turns[i])] \in Seq(Turn)
         /\ \A i \in DOMAIN turns :
              LET back(m) == [m EXCEPT !.role = IF @ = "model" THEN "assistant" ELSE @]
              IN  back(turns[i]) = turns[i] /\ back(AsGemini(turns[i])) = turns[i]
<1> DEFINE Said == [role : {"user", "assistant"}, content : Texts]
<1>1. /\ Len(turns) \in Nat /\ DOMAIN turns = 1 .. Len(turns) /\ turns = [i \in 1 .. Len(turns) |-> turns[i]]
      /\ \A i \in 1 .. Len(turns) : turns[i] \in Said
  <2>1. /\ Len(turns) \in Nat /\ turns = [i \in 1 .. Len(turns) |-> turns[i]]
        /\ \A i \in 1 .. Len(turns) : turns[i] \in Said
    BY Elements, Zenon
  <2>2. DOMAIN turns = 1 .. Len(turns)
    OBVIOUS
  <2> QED BY <2>1, <2>2
<1>2. \A m \in Said : m \in Turn /\ AsGemini(m) \in Turn
  BY DEF Turn, AsGemini, Roles
<1>3. \A m \in Said : /\ [m EXCEPT !.role = IF @ = "model" THEN "assistant" ELSE @] = m
                      /\ [AsGemini(m) EXCEPT !.role = IF @ = "model" THEN "assistant" ELSE @] = m
  BY DEF AsGemini
<1> HIDE DEF Said
<1>4. turns \in Seq(Turn)
  BY <1>1, <1>2, Elements, Zenon
<1>5. [i \in 1 .. Len(turns) |-> AsGemini(turns[i])] \in Seq(Turn)
  BY <1>1, <1>2
<1> QED BY <1>1, <1>3, <1>4, <1>5

(* Every adapter makes a request of the right type, and keeps a limit. *)
LEMMA ChatRequestTyped ==
  ASSUME TypeOK, request # NULL, request.kind = "chat"
  PROVE  /\ ChatRequest \in ChatOut
         /\ request.maxTokens > 0 => ChatRequest.limit = request.maxTokens
<1> DEFINE turns == Turns(request.messages)
<1>1. /\ request.messages \in Seq(Message) /\ request.maxTokens \in Nat /\ request.sampled \in BOOLEAN
      /\ adapter \in AdapterTypes
  BY RequestTyped DEF TypeOK
<1>2. /\ turns \in Seq(Turn) /\ [i \in DOMAIN turns |-> AsGemini(turns[i])] \in Seq(Turn)
      /\ SystemOf(request.messages) \in Texts \cup {NULL}
  BY <1>1, TurnsTyped, SystemTyped, RoleThereAndBack
<1>3. request.messages \in Seq(Turn)
  <2>1. \A m \in Message : m \in Turn
    BY DEF Message, Turn
  <2> QED BY <1>1, <2>1, Elements, Zenon
<1> HIDE DEF turns
<1>4. CASE adapter = "openai_compatible"
  <2>1. ChatRequest = OpenAIRequest(request)
    BY <1>4 DEF ChatRequest
  <2> QED BY <1>1, <1>3, <2>1 DEF OpenAIRequest, ChatOut
<1>5. CASE adapter = "anthropic"
  <2>1. ChatRequest = [turns |-> turns, system |-> SystemOf(request.messages),
                       limit |-> IF request.maxTokens = 0 THEN 4096 ELSE request.maxTokens,
                       sampled |-> FALSE]
    BY <1>5 DEF ChatRequest, AnthropicRequest, turns
  <2> QED BY <1>1, <1>2, <2>1 DEF ChatOut
<1>6. CASE adapter = "gemini"
  <2>1. ChatRequest = [turns |-> [i \in DOMAIN turns |-> AsGemini(turns[i])],
                       system |-> SystemOf(request.messages),
                       limit |-> IF request.maxTokens > 0 THEN request.maxTokens ELSE NULL,
                       sampled |-> request.sampled]
    BY <1>6 DEF ChatRequest, GeminiRequest, turns
  <2> QED BY <1>1, <1>2, <2>1 DEF ChatOut
<1> QED BY <1>1, <1>4, <1>5, <1>6 DEF AdapterTypes

(* What an upstream reads in it is the conversation. *)
LEMMA ChatHeard ==
  ASSUME TypeOK, request # NULL, request.kind = "chat", wire = ChatRequest
  PROVE  /\ HeardTurns = Turns(request.messages)
         /\ Instructions(request.messages) # <<>> =>
              HeardSystem # <<>> /\ Last(HeardSystem) = Last(Instructions(request.messages)).content
         /\ Instructions(request.messages) = <<>> => HeardSystem = <<>>
<1> DEFINE turns == Turns(request.messages)
           all == Instructions(request.messages)
           back(m) == [m EXCEPT !.role = IF @ = "model" THEN "assistant" ELSE @]
           Said == [role : {"user", "assistant"}, content : Texts]
<1>1. request.messages \in Seq(Message) /\ adapter \in AdapterTypes
  BY RequestTyped DEF TypeOK
<1>2. turns \in Seq(Said) /\ all \in Seq([role : {"system"}, content : Texts])
  BY <1>1, TurnsTyped
<1>3. turns = [i \in DOMAIN turns |-> turns[i]]
  BY <1>2
<1>4. \A i \in DOMAIN turns : back(turns[i]) = turns[i] /\ back(AsGemini(turns[i])) = turns[i]
  BY <1>2, RoleThereAndBack
<1>5. /\ SystemOf(request.messages) = IF all = <<>> THEN NULL ELSE all[Len(all)].content
      /\ SystemOf(request.messages) = NULL <=> all = <<>>
  BY <1>1, SystemTyped DEF SystemOf, Last
<1>6. CASE adapter = "openai_compatible"
  <2>1. wire.turns = request.messages
    BY <1>6 DEF ChatRequest, OpenAIRequest
  <2>2. HeardTurns = [i \in DOMAIN turns |-> back(turns[i])]
    BY <1>6, <2>1 DEF HeardTurns
  <2>3. HeardSystem = [i \in DOMAIN all |-> all[i].content]
    BY <1>6, <2>1 DEF HeardSystem
  <2>4. HeardTurns = turns
    BY <1>3, <1>4, <2>2
  <2> HIDE DEF all
  <2>5. /\ Len(all) \in Nat /\ DOMAIN all = 1 .. Len(all) /\ (all = <<>> <=> Len(all) = 0)
    BY <1>2
  <2>6. HeardSystem = [i \in 1 .. Len(all) |-> all[i].content]
    BY <2>3, <2>5
  <2>7. Len(HeardSystem) = Len(all)
    BY <2>5, <2>6
  <2>8. all # <<>> => HeardSystem # <<>> /\ HeardSystem[Len(all)] = all[Len(all)].content
    BY <2>5, <2>6, <2>7
  <2>9. all = <<>> => HeardSystem = <<>>
    BY <2>5, <2>6
  <2> QED BY <2>4, <2>7, <2>8, <2>9 DEF Last, all
<1>7. CASE adapter # "openai_compatible"
  <2>1. /\ wire.system = SystemOf(request.messages)
        /\ wire.turns = IF adapter = "anthropic" THEN turns
                        ELSE [i \in DOMAIN turns |-> AsGemini(turns[i])]
    BY <1>1, <1>7 DEF ChatRequest, AnthropicRequest, GeminiRequest, AdapterTypes
  <2>2. HeardTurns = [i \in DOMAIN wire.turns |-> back(wire.turns[i])]
    BY <1>7 DEF HeardTurns
  <2>3. HeardSystem = IF wire.system = NULL THEN <<>> ELSE <<wire.system>>
    BY <1>7 DEF HeardSystem
  <2> HIDE DEF turns, all
  <2>4. HeardTurns = [i \in DOMAIN turns |-> turns[i]]
    <3>1. CASE adapter = "anthropic"
      BY <1>4, <2>1, <2>2, <3>1
    <3>2. CASE adapter # "anthropic"
      BY <1>4, <2>1, <2>2, <3>2
    <3> QED BY <3>1, <3>2
  <2>5. all # <<>> => HeardSystem # <<>> /\ HeardSystem[Len(HeardSystem)] = all[Len(all)].content
    BY <1>5, <2>1, <2>3
  <2>6. all = <<>> => HeardSystem = <<>>
    BY <1>5, <2>1, <2>3
  <2> QED BY <1>3, <2>4, <2>5, <2>6 DEF Last, turns, all
<1> QED BY <1>6, <1>7

-----------------------------------------------------------------------------
(* Every adapter hands on the text, the tokens and the cut of a reply. *)
LEMMA ReplyAnswered ==
  ASSUME adapter \in AdapterTypes, NEW r \in Reply
  PROVE  /\ ChatAnswer(r) \in ChatBack
         /\ ChatAnswer(r).text = SaidText(r.parts)
         /\ ChatAnswer(r).tokens = r.in + r.out
         /\ r.why = "cut" => ChatAnswer(r).finish # "stop"
<1>1. /\ r.parts \in BoundedSeq(Part, MaxParts) /\ r.why \in Reasons
      /\ r.in \in Nat /\ r.out \in Nat /\ MaxParts \in Nat
  BY AdaptersAssumption DEF Reply
<1>2. /\ SaidText(r.parts) \in Seq(Texts) /\ SaidText(<<>>) = <<>>
      /\ JoinedText(GeminiParts(r.parts)) = SaidText(r.parts)
  BY <1>1, BoundedSeqTyped, SaidTextTyped, PartsJoined
<1>3. CASE adapter = "openai_compatible"
  <2>1. ChatAnswer(r) =
          [text |-> SaidText(r.parts), tokens |-> r.in + r.out,
           finish |-> CASE r.why = "finished" -> "stop" [] r.why = "cut" -> "length"
                        [] r.why = "blocked" -> "content_filter"]
    BY <1>3 DEF ChatAnswer, OpenAIAnswer, OpenAIWire
  <2> QED BY <1>1, <1>2, <2>1 DEF ChatBack, Reasons
<1>4. CASE adapter = "anthropic"
  <2> DEFINE stop == CASE r.why = "finished" -> "end_turn" [] r.why = "cut" -> "max_tokens"
                       [] r.why = "blocked" -> "refusal"
  <2>1. ChatAnswer(r) =
          [text |-> SaidText(r.parts), tokens |-> r.in + r.out,
           finish |-> IF stop = "end_turn" THEN "stop" ELSE stop]
    <3>1. ChatAnswer(r) = AnthropicAnswer(AnthropicWire(r))
      BY <1>4 DEF ChatAnswer
    <3>2. AnthropicWire(r) = [content |-> r.parts, stop_reason |-> stop, in |-> r.in, out |-> r.out]
      BY DEF AnthropicWire
    <3> HIDE DEF stop
    <3> QED BY <3>1, <3>2 DEF AnthropicAnswer
  <2> QED BY <1>1, <1>2, <2>1 DEF ChatBack, Reasons
<1>5. CASE adapter = "gemini"
  <2> DEFINE none == r.why = "blocked" /\ r.parts = <<>>
  <2>0. ChatAnswer(r) = GeminiAnswer(GeminiWire(r))
    BY <1>5 DEF ChatAnswer
  <2>1. CASE none
    <3>1. GeminiWire(r) = [candidates |-> <<>>, total |-> r.in + r.out]
      BY <2>1 DEF GeminiWire
    <3>2. ChatAnswer(r) = [text |-> <<>>, finish |-> "stop", tokens |-> r.in + r.out]
      BY <2>0, <3>1 DEF GeminiAnswer
    <3>3. r.why # "cut" /\ SaidText(r.parts) = <<>>
      BY <1>2, <2>1
    <3> QED BY <1>1, <1>2, <3>2, <3>3 DEF ChatBack
  <2>2. CASE ~none
    <3> DEFINE reason == CASE r.why = "finished" -> "STOP" [] r.why = "cut" -> "MAX_TOKENS"
                           [] r.why = "blocked" -> "SAFETY"
               c == [parts |-> GeminiParts(r.parts), finishReason |-> reason]
    <3>1. GeminiWire(r) = [candidates |-> <<c>>, total |-> r.in + r.out]
      BY <2>2 DEF GeminiWire
    <3>2. ASSUME NEW x PROVE <<x>> # <<>> /\ Head(<<x>>) = x
      OBVIOUS
    <3>3. c.parts = GeminiParts(r.parts) /\ c.finishReason = reason
      OBVIOUS
    <3>4. r.why = "cut" => reason = "MAX_TOKENS"
      OBVIOUS
    <3> HIDE DEF c, reason
    <3>5. ChatAnswer(r) = [text |-> SaidText(r.parts), tokens |-> r.in + r.out,
                           finish |-> IF reason = "MAX_TOKENS" THEN "max_tokens" ELSE "stop"]
      BY <1>2, <2>0, <3>1, <3>2, <3>3 DEF GeminiAnswer
    <3> QED BY <1>1, <1>2, <3>4, <3>5 DEF ChatBack
  <2> QED BY <2>1, <2>2
<1> QED BY <1>3, <1>4, <1>5 DEF AdapterTypes

-----------------------------------------------------------------------------
(* The invariant, step by step. *)

(* A call is asked for. *)
LEMMA AskStep == ASSUME AdaptersInv, Ask PROVE AdaptersInv'
<1> USE DEF AdaptersInv
<1>1. /\ phase = "idle" /\ phase' = "sending" /\ request' \in Chat \cup Embeddings \cup Images
      /\ UNCHANGED <<adapter, wire, done, data, tokens, answer, reply>>
  BY DEF Ask
<1>2. request' # NULL
  BY <1>1, AdaptersAssumption
<1>3. TypeOK'
  BY <1>1, <1>2 DEF TypeOK
<1>4. SentIsRequest' /\ Replied' /\ EmbeddingsMatchInputs'
  BY <1>1 DEF SentIsRequest, Replied, EmbeddingsMatchInputs
<1>5. CollectedSoFar'
  <2>1. done = 0 /\ data = <<>>
    BY <1>1 DEF CollectedSoFar
  <2>2. Embedding' => request'.input \in Seq(Texts)
    BY <1>1, RequestTyped DEF Embedding
  <2>3. Embedding' => Len(request'.input) \in Nat /\ (request'.input # <<>> => 0 < Len(request'.input))
    <3> SUFFICES ASSUME Embedding' PROVE Len(request'.input) \in Nat
                                         /\ (request'.input # <<>> => 0 < Len(request'.input))
      OBVIOUS
    <3> DEFINE input == request'.input
    <3>1. input \in Seq(Texts)
      BY <2>2
    <3> HIDE DEF input
    <3>2. Len(input) \in Nat /\ (input # <<>> => 0 < Len(input))
      BY <3>1
    <3> QED BY <3>2 DEF input
  <2> QED BY <1>1, <2>1, <2>3 DEF CollectedSoFar
<1> QED BY <1>3, <1>4, <1>5

(* Nothing was asked of the upstream, or nothing good came of it: no answer. *)
LEMMA ErrorStep == ASSUME AdaptersInv, Unsupported \/ ExchangeFails PROVE AdaptersInv'
<1> USE DEF AdaptersInv
<1>1. /\ phase \in {"sending", "waiting"} /\ phase' = "failed" /\ wire' = NULL
      /\ UNCHANGED <<adapter, request, done, data, tokens, answer, reply>>
  BY DEF Unsupported, ExchangeFails, ReturnError
<1>2. TypeOK'
  BY <1>1 DEF TypeOK
<1> QED BY <1>1, <1>2 DEF SentIsRequest, Replied, EmbeddingsMatchInputs, CollectedSoFar

(* The request is built and sent. *)
LEMMA SendStep == ASSUME AdaptersInv, Send PROVE AdaptersInv'
<1> USE DEF AdaptersInv
<1>1. /\ phase = "sending" /\ phase' = "waiting" /\ Supported /\ ~NothingToEmbed /\ request # NULL
      /\ UNCHANGED <<adapter, request, done, data, tokens, answer, reply>>
      /\ wire' = CASE request.kind = "chat" -> ChatRequest
                   [] request.kind = "embeddings" -> EmbeddingsRequest
                   [] request.kind = "images" -> [images |-> 1]
  BY DEF Send, TypeOK
<1>2. request.kind \in {"chat", "embeddings", "images"}
  BY <1>1, RequestTyped DEF TypeOK
<1>3. wire' \in ChatOut \cup TextsOut \cup ImagesOut
  <2>1. CASE request.kind = "chat"
    BY <1>1, <2>1, ChatRequestTyped
  <2>2. CASE request.kind = "embeddings"
    <3>1. request.input \in Seq(Texts)
      BY <1>1, <2>2, RequestTyped DEF TypeOK
    <3> DEFINE input == request.input
    <3>2. input # <<>> => done + 1 \in 1 .. Len(input)
      BY <1>1, <2>2, <3>1 DEF CollectedSoFar, Embedding, TypeOK
    <3>3. adapter = "gemini" => input # <<>>
      BY <1>1, <2>2 DEF NothingToEmbed
    <3>4. EmbeddingsRequest = [texts |-> IF adapter = "gemini" THEN <<input[done + 1]>> ELSE input]
      BY DEF EmbeddingsRequest
    <3> HIDE DEF input
    <3>5. input \in Seq(Texts)
      BY <3>1 DEF input
    <3>6. adapter = "gemini" => input[done + 1] \in Texts
      BY <3>2, <3>3, <3>5
    <3>7. EmbeddingsRequest \in TextsOut
      BY <3>4, <3>5, <3>6 DEF TextsOut
    <3> QED BY <1>1, <2>2, <3>7
  <2>3. CASE request.kind = "images"
    BY <1>1, <2>3 DEF ImagesOut
  <2> QED BY <1>2, <2>1, <2>2, <2>3
<1>4. TypeOK'
  <2>1. wire' # NULL
    BY <1>3, AdaptersAssumption
  <2> QED BY <1>1, <1>3, <2>1 DEF TypeOK
<1>5. SentIsRequest'
  BY <1>1 DEF SentIsRequest, Supported, NothingToEmbed, ChatRequest, EmbeddingsRequest
<1> QED BY <1>1, <1>4, <1>5 DEF Replied, EmbeddingsMatchInputs, CollectedSoFar, Embedding

(* An answer is returned that is no reply to a chat. *)
LEMMA ReturnStep ==
  ASSUME AdaptersInv, ReturnNothing \/ EmbeddingsReplied \/ ImagesReplied
  PROVE  AdaptersInv'
<1> USE DEF AdaptersInv
<1>1. /\ phase \in {"sending", "waiting"} /\ phase' = "over" /\ wire' = NULL /\ request # NULL
      /\ UNCHANGED <<adapter, request, done, data, tokens, reply>>
  BY DEF ReturnNothing, EmbeddingsReplied, ImagesReplied, Return, TypeOK
<1>2. answer' \in VectorsBack \cup ImagesBack /\ EmbeddingsMatchInputs'
  <2>1. CASE ReturnNothing
    <3>1. answer' = [vectors |-> <<>>, tokens |-> 0] /\ request.input = <<>>
      BY <2>1 DEF ReturnNothing, Return, NothingToEmbed
    <3> QED BY <1>1, <3>1 DEF VectorsBack, EmbeddingsMatchInputs
  <2>2. CASE EmbeddingsReplied
    <3>1. /\ request.kind = "embeddings" /\ phase = "waiting" /\ adapter = "openai_compatible"
      BY <2>2 DEF EmbeddingsReplied
    <3>2. wire.texts = request.input
      BY <3>1 DEF SentIsRequest, EmbeddingsRequest
    <3>3. PICK n \in UsageCounts :
            answer' = [vectors |-> [i \in DOMAIN request.input |-> Vector(i - 1, request.input[i])],
                       tokens |-> n]
      BY <2>2, <3>2 DEF EmbeddingsReplied, Return
    <3> DEFINE input == request.input
    <3>4. input \in Seq(Texts)
      BY <1>1, <3>1, RequestTyped DEF TypeOK
    <3>5. answer'.vectors = [i \in DOMAIN input |-> Vector(i - 1, input[i])] /\ answer'.tokens = n
      BY <3>3
    <3> HIDE DEF input
    <3>6. /\ DOMAIN input = 1 .. Len(input) /\ Len(input) \in Nat
          /\ \A i \in 1 .. Len(input) : input[i] \in Texts
      BY <3>4
    <3>7. \A i \in 1 .. Len(input) : Vector(i - 1, input[i]) \in [index : Nat, of : Texts]
      BY <3>6 DEF Vector
    <3>8. /\ [i \in 1 .. Len(input) |-> Vector(i - 1, input[i])] \in Seq([index : Nat, of : Texts])
          /\ Len([i \in 1 .. Len(input) |-> Vector(i - 1, input[i])]) = Len(input)
      BY <3>6, <3>7
    <3>9. n \in Nat
      BY AdaptersAssumption
    <3>10. answer' \in VectorsBack
      BY <3>3, <3>6, <3>8, <3>9 DEF VectorsBack, input
    <3>11. EmbeddingsMatchInputs'
      BY <1>1, <3>5, <3>6, <3>8 DEF EmbeddingsMatchInputs, input
    <3> QED BY <3>10, <3>11
  <2>3. CASE ImagesReplied
    BY <1>1, <2>3 DEF ImagesReplied, Return, ImagesBack, EmbeddingsMatchInputs
  <2> QED BY <2>1, <2>2, <2>3
<1>3. TypeOK'
  <2>1. answer' # NULL
    BY <1>2, AdaptersAssumption
  <2> QED BY <1>1, <1>2, <2>1 DEF TypeOK
<1> QED BY <1>1, <1>2, <1>3 DEF SentIsRequest, Replied, CollectedSoFar

(* A chat is answered. *)
LEMMA ChatRepliedStep == ASSUME AdaptersInv, ChatReplied PROVE AdaptersInv'
<1> USE DEF AdaptersInv
<1>1. PICK r \in Reply : reply' = r /\ answer' = ChatAnswer(r)
  BY DEF ChatReplied, Return
<1>2. /\ phase = "waiting" /\ request.kind = "chat" /\ phase' = "over" /\ wire' = NULL /\ request # NULL
      /\ UNCHANGED <<adapter, request, done, data, tokens>>
  BY DEF ChatReplied, Return, TypeOK
<1>3. /\ answer' \in ChatBack /\ answer'.text = SaidText(r.parts)
      /\ answer'.tokens = r.in + r.out
      /\ r.why = "cut" => answer'.finish # "stop"
  BY <1>1, ReplyAnswered DEF TypeOK
<1>4. TypeOK'
  <2>1. answer' # NULL
    BY <1>3, AdaptersAssumption
  <2> QED BY <1>2, <1>3, <2>1 DEF TypeOK
<1>5. AnswerIsReply'
  BY <1>1, <1>3 DEF AnswerIsReply
<1> QED BY <1>2, <1>4, <1>5
        DEF SentIsRequest, Replied, EmbeddingsMatchInputs, CollectedSoFar

(* One more vector, and the answer if there is no more text. *)
LEMMA VectorRepliedStep == ASSUME AdaptersInv, VectorReplied PROVE AdaptersInv'
<1> USE DEF AdaptersInv
<1> DEFINE input == request.input
           vectors == Append(data, Vector(done, input[done + 1]))
           Back == [index : Nat, of : Texts]
<1>1. /\ phase = "waiting" /\ request.kind = "embeddings" /\ adapter = "gemini" /\ request # NULL
      /\ UNCHANGED <<adapter, request, reply>> /\ done' = done + 1
  BY DEF VectorReplied, TypeOK
<1>2. /\ input \in Seq(Texts) /\ Len(input) <= MaxInputs /\ MaxInputs \in Nat
      /\ data \in Seq(Back) /\ done \in Nat /\ tokens \in Nat
  BY <1>1, RequestTyped, AdaptersAssumption DEF TypeOK
<1>3. /\ Len(data) = done /\ done < Len(input) /\ Len(input) \in Nat /\ input[done + 1] \in Texts
      /\ \A i \in 1 .. done : data[i] = Vector(i - 1, input[i])
  <2>1. input # <<>>
    BY <1>1 DEF SentIsRequest, NothingToEmbed
  <2>2. Len(data) = done /\ done < Len(input) /\ \A i \in 1 .. done : data[i] = Vector(i - 1, input[i])
    BY <1>1, <2>1 DEF CollectedSoFar, Embedding
  <2> HIDE DEF input
  <2>3. Len(input) \in Nat
    BY <1>2
  <2> QED BY <1>2, <2>2, <2>3
<1>4. wire.texts[1] = input[done + 1]
  BY <1>1 DEF SentIsRequest, EmbeddingsRequest
<1>5. /\ data' = vectors /\ tokens' = tokens + Words[input[done + 1]]
      /\ \/ /\ done + 1 = Len(input) /\ phase' = "over" /\ wire' = NULL
            /\ answer' = [vectors |-> vectors, tokens |-> tokens']
         \/ /\ done + 1 # Len(input) /\ phase' = "sending" /\ wire' = NULL /\ answer' = answer
  BY <1>1, <1>4 DEF VectorReplied, Return
<1> HIDE DEF input
<1>6. /\ vectors \in Seq(Back) /\ Len(vectors) = done + 1
      /\ \A i \in 1 .. done + 1 : vectors[i] = Vector(i - 1, input[i])
  <2>1. Vector(done, input[done + 1]) \in Back
    BY <1>2, <1>3 DEF Vector
  <2> DEFINE new == Vector(done, input[done + 1])
  <2>2. new \in Back /\ vectors = Append(data, new)
    BY <2>1
  <2> HIDE DEF new, Back, vectors
  <2>3. vectors \in Seq(Back) /\ Len(vectors) = done + 1
        /\ (\A i \in 1 .. done : vectors[i] = data[i]) /\ vectors[done + 1] = new
    BY <1>2, <1>3, <2>2
  <2>4. new = Vector(done, input[done + 1])
    BY DEF new
  <2>5. ASSUME NEW i \in 1 .. done + 1 PROVE vectors[i] = Vector(i - 1, input[i])
    <3>1. CASE i \in 1 .. done
      BY <1>3, <2>3, <3>1
    <3>2. CASE i = done + 1
      <4>1. i - 1 = done
        BY <1>2, <3>2
      <4> QED BY <2>3, <2>4, <3>2, <4>1
    <3> QED BY <1>2, <2>5, <3>1, <3>2
  <2> QED BY <2>3, <2>5
<1> HIDE DEF vectors
<1>7. tokens' \in Nat
  BY <1>2, <1>3, <1>5, AdaptersAssumption
<1>8. CASE done + 1 = Len(input)
  <2>1. phase' = "over" /\ wire' = NULL /\ answer' = [vectors |-> vectors, tokens |-> tokens']
    BY <1>5, <1>8
  <2>2. answer' \in VectorsBack /\ answer' # NULL
    BY <1>6, <1>7, <2>1, AdaptersAssumption DEF VectorsBack
  <2>3. TypeOK'
    BY <1>1, <1>2, <1>3, <1>5, <1>6, <1>7, <2>1, <2>2 DEF TypeOK
  <2>4. EmbeddingsMatchInputs'
    <3>1. DOMAIN input = 1 .. done + 1 /\ request'.input = input /\ answer'.vectors = vectors
      BY <1>1, <1>2, <1>8, <2>1 DEF input
    <3> QED BY <1>6, <1>8, <3>1 DEF EmbeddingsMatchInputs
  <2> QED BY <1>1, <2>1, <2>3, <2>4 DEF SentIsRequest, Replied, CollectedSoFar
<1>9. CASE done + 1 # Len(input)
  <2>1. phase' = "sending" /\ wire' = NULL /\ answer' = answer
    BY <1>5, <1>9
  <2>2. TypeOK'
    BY <1>1, <1>2, <1>3, <1>5, <1>6, <1>7, <2>1 DEF TypeOK
  <2>3. CollectedSoFar'
    <3>1. done + 1 < Len(input) /\ request'.input = input
      BY <1>1, <1>2, <1>3, <1>9 DEF input
    <3> QED BY <1>1, <1>5, <1>6, <2>1, <3>1 DEF CollectedSoFar, Embedding
  <2> QED BY <1>1, <2>1, <2>2, <2>3 DEF SentIsRequest, Replied, EmbeddingsMatchInputs
<1> QED BY <1>8, <1>9

(* The invariant holds throughout every call. *)
LEMMA AdaptersInvariant == Spec => []AdaptersInv
<1>1. Init => AdaptersInv
  <2> SUFFICES ASSUME Init PROVE AdaptersInv
    OBVIOUS
  <2>1. MaxInputs \in Nat
    BY AdaptersAssumption
  <2>2. TypeOK
    BY <2>1 DEF Init, TypeOK
  <2> QED BY <2>2 DEF Init, AdaptersInv, SentIsRequest, CollectedSoFar, Embedding, Replied,
                      EmbeddingsMatchInputs
<1>2. AdaptersInv /\ [Next]_vars => AdaptersInv'
  <2> SUFFICES ASSUME AdaptersInv, [Next]_vars PROVE AdaptersInv'
    OBVIOUS
  <2>1. CASE UNCHANGED vars
    BY <2>1 DEF vars, AdaptersInv, TypeOK, SentIsRequest, CollectedSoFar, Embedding, Replied,
                EmbeddingsMatchInputs, AnswerIsReply, Supported, NothingToEmbed, ChatRequest,
                EmbeddingsRequest
  <2> QED BY <2>1, AskStep, ErrorStep, SendStep, ReturnStep, ChatRepliedStep, VectorRepliedStep DEF Next
<1> QED BY <1>1, <1>2, PTL DEF Spec

-----------------------------------------------------------------------------
(* The states of an adapter are well typed, and no answer is there beside  *)
(* an error: the relay logs the tokens of every response that is not nil,  *)
(* of a failed call too (service.go:253).                                  *)
THEOREM TypeCorrect == Spec => []TypeOK
<1>1. AdaptersInv => TypeOK
  BY DEF AdaptersInv
<1> QED BY <1>1, AdaptersInvariant, PTL

(* Each upstream reads in its request the conversation the client had, for *)
(* conversations of any length (buildAnthropicRequest, anthropic.go:87;    *)
(* buildGeminiRequest, gemini.go:101).                                     *)
THEOREM ConversationReaches == Spec => []ConversationReachesUpstream
<1>1. AdaptersInv => ConversationReachesUpstream
  <2> SUFFICES ASSUME AdaptersInv, phase = "waiting", request.kind = "chat"
               PROVE  ConversationReachesUpstream
    BY DEF ConversationReachesUpstream
  <2>1. TypeOK /\ request # NULL /\ wire = ChatRequest
    BY DEF AdaptersInv, TypeOK, SentIsRequest
  <2> QED BY <2>1, ChatHeard, ChatRequestTyped DEF ConversationReachesUpstream
<1> QED BY <1>1, AdaptersInvariant, PTL

(* The client gets the text of a reply of any number of parts, is charged  *)
(* for its tokens, and learns of a cut.                                    *)
THEOREM AnswersAreReplies == Spec => []AnswerIsReply
<1>1. AdaptersInv => AnswerIsReply
  BY DEF AdaptersInv, Replied, AnswerIsReply
<1> QED BY <1>1, AdaptersInvariant, PTL

(* An embeddings answer has one vector for each input, in order, however   *)
(* many exchanges it took and whichever of them failed (gemini.go:216).    *)
THEOREM EmbeddingsMatch == Spec => []EmbeddingsMatchInputs
<1>1. AdaptersInv => EmbeddingsMatchInputs
  BY DEF AdaptersInv
<1> QED BY <1>1, AdaptersInvariant, PTL
=============================================================================

----------------------------- MODULE Conversations ----------------------------
(***************************************************************************)
(* A conversation of a client whose requests each carry all that was said  *)
(* before, while the executor sends them now to one provider and now to    *)
(* another: each request is translated from the client's format to that of *)
(* its provider, by a converter of the registry or by the Antigravity      *)
(* adapter with its process-wide memory of signatures.                     *)
(*                                                                         *)
(* The client and the models are the environment: what they may say is     *)
(* CONSTANT. What is said in the t-th turn is numbered from 10 * t.        *)
(***************************************************************************)
EXTENDS AntigravityRequest

CONSTANTS
    Clients,     \* API formats of the clients
    Routes(_),   \* the routes of a client: records [to, model]
    Openings,    \* what a user may say: sequences of kinds
    Answers(_),  \* what a model on a route may answer: sequences of <<kind, len>>
    Replays,     \* what a client sends back of signatures and thoughts
    Thinkers,    \* the models that support thinking
    Versions(_), \* what an answer of a model may say is its version, "" for nothing
    MaxTurns,    \* turns of user and model together
    MaxRestarts

VARIABLES
    client,    \* the format of the client
    thinks,    \* whether its requests ask for thinking
    replay,    \* how much of an answer it sends back
    history,   \* the messages it sends
    turn,      \* number of turns so far
    caches,    \* the signatures remembered
    sent,      \* the last request sent on: its route, messages and thinking
    restarts

vars == <<client, thinks, replay, history, turn, caches, sent, restarts>>

Unsent == [to |-> "none", model |-> "none", thinking |-> FALSE, messages |-> <<>>]

UsersTurn == turn % 2 = 0

-----------------------------------------------------------------------------
(* How clients write down a turn. *)

Numbered(said, sigs) ==
    [i \in DOMAIN said |->
        Part(said[i], 10 * (turn + 1) + i,
             IF said[i] = "call" THEN 10 * (turn + 1) + i ELSE 0,
             IF sigs[i] = Missing THEN NoSig
             ELSE [n |-> 10 * (turn + 1) + i, len |-> sigs[i]])]

Each(role, parts) == [i \in DOMAIN parts |-> Message(role, <<parts[i]>>)]

Result(k, i) == Part("result", 10 * (turn + 1) + i, k, NoSig)

(* OpenAI clients send each result in a message of its own, Codex clients  *)
(* each call as well.                                                      *)
Written(role, parts) ==
    LET shown   == Kind(parts, {"text", "image"})
        calls   == Kind(parts, {"call"})
        results == Kind(parts, {"result"})
    IN  CASE client = "openai" ->
                Each("tool", results)
                \o Unless(shown \o calls, <<Message(role, shown \o calls)>>)
          [] client = "codex" ->
                Each(role, results) \o Unless(shown, <<Message(role, shown)>>)
                \o Each(role, calls)
          [] OTHER -> <<Message(role, parts)>>

(* What a client keeps of an answer. *)
Kept(parts) ==
    LET unsigned(p) == IF p.kind = "call" THEN Signed(p, NoSig) ELSE p
        kept == IF replay = "no thoughts"
                THEN SelectSeq(parts, LAMBDA p : ~IsThought(p)) ELSE parts
    IN  IF replay = "all" THEN kept ELSE [i \in DOMAIN kept |-> unsigned(kept[i])]

(* Codex clients may send the id of the item with a call. *)
WithItem(p) ==
    IF p.kind = "call" THEN [p EXCEPT !.item = <<"item", p.of>>] ELSE p

Itemised(parts) ==
    IF client = "codex" /\ replay = "all"
    THEN [i \in DOMAIN parts |-> WithItem(parts[i])] ELSE parts

(* The calls of the last answer. *)
Open ==
    LET last(i) == \A j \in i + 1 .. Len(history) : history[j].role = "assistant"
        calls(i) == IF last(i) /\ history[i].role = "assistant"
                    THEN Kind(history[i].parts, {"call"}) ELSE <<>>
    IN  FlattenSeq([i \in DOMAIN history |-> calls(i)])

-----------------------------------------------------------------------------
(* The registry. *)

TransformRequest(route, lists) ==
    LET supported == route.model \in Thinkers
        plain(messages) == [thinking |-> FALSE, messages |-> messages]
        of == <<client, route.to>>
        r == CASE of = <<"claude", "antigravity">> ->
                    TransformClaudeToGemini(history, route.model, thinks, supported, caches)
               [] of = <<"claude", "gemini">> -> ClaudeToGemini(history, thinks, supported)
               [] of = <<"claude", "openai">> -> plain(ClaudeToOpenAI(history))
               [] of = <<"claude", "codex">>  -> plain(ClaudeToCodex(history, lists))
               [] of = <<"codex", "claude">>  -> plain(CodexToClaude(history, lists))
               [] of = <<"codex", "openai">>  -> plain(CodexToOpenAI(history, lists))
               [] of = <<"codex", "gemini">>  -> plain(CodexToGemini(history))
               [] of = <<"gemini", "claude">> -> plain(GeminiToClaude(history))
               [] of = <<"gemini", "codex">>  -> plain(GeminiToCodex(history))
               [] of = <<"gemini", "openai">> -> plain(GeminiToOpenAI(history))
               [] of = <<"openai", "claude">> -> plain(OpenAIToClaude(history, lists))
               [] of = <<"openai", "codex">>  -> plain(OpenAIToCodex(history, lists))
               [] of = <<"openai", "gemini">> -> plain(OpenAIToGemini(history, lists))
    IN  [to |-> route.to, model |-> route.model,
         thinking |-> r.thinking, messages |-> r.messages]

-----------------------------------------------------------------------------
Init ==
    /\ client \in Clients
    /\ thinks \in (IF client = "claude" THEN BOOLEAN ELSE {FALSE})
    /\ replay \in CASE client = "claude" -> Replays
                   [] client = "codex" -> Replays \ {"no thoughts"}
                   [] OTHER -> {"all"}
    /\ history = <<>> /\ turn = 0
    /\ caches = EmptyCaches
    /\ sent = Unsent
    /\ restarts = 0

Says(role, messages) ==
    /\ history' = history \o messages
    /\ turn' = turn + 1
    /\ sent' = Unsent
    /\ UNCHANGED <<client, thinks, replay, restarts>>

(* The user says something that is not about calls. *)
Ask ==
    /\ UsersTurn /\ turn < MaxTurns /\ Open = <<>>
    /\ \E said \in Openings :
          Says("user", Written("user", Numbered(said, [i \in DOMAIN said |-> Missing])))
    /\ UNCHANGED caches

(* The client returns the result of every call, in some order, and the     *)
(* user may say something with them.                                       *)
Return ==
    /\ UsersTurn /\ turn < MaxTurns /\ Open # <<>>
    /\ \E said \in Openings \union {<<>>}, reversed \in BOOLEAN :
          LET calls   == IF reversed THEN Reverse(Open) ELSE Open
              results == [i \in DOMAIN calls |-> Result(calls[i].of, i)]
              rest    == [i \in DOMAIN said |->
                            Part(said[i], 10 * (turn + 1) + 5 + i, 0, NoSig)]
          IN  Says("user", Written("user", results \o rest))
    /\ UNCHANGED caches

(* The converters that tell a list from a string. *)
TellsLists(route) ==
    client = "openai" \/ <<client, route.to>> \in
        {<<"claude", "codex">>, <<"codex", "claude">>, <<"codex", "openai">>}

(* The executor sends the request on. Whether the client wrote what it     *)
(* says as strings or as lists is chosen with the request: it matters to   *)
(* no other.                                                               *)
Send ==
    /\ ~UsersTurn /\ sent = Unsent
    /\ \E route \in Routes(client), lists \in BOOLEAN :
          /\ lists => TellsLists(route)
          /\ sent' = TransformRequest(route, lists)
    /\ UNCHANGED <<client, thinks, replay, history, turn, caches, restarts>>

(* The provider fails; the request may be sent on again, there or elsewhere. *)
Fail ==
    /\ sent # Unsent
    /\ sent' = Unsent
    /\ UNCHANGED <<client, thinks, replay, history, turn, caches, restarts>>

(* The provider answers the request that was sent. *)
Answer ==
    /\ ~UsersTurn /\ turn < MaxTurns /\ sent # Unsent
    /\ \E said \in Answers(sent.to), version \in Versions(sent.model) :
          LET parts == Numbered([i \in DOMAIN said |-> said[i][1]],
                                [i \in DOMAIN said |-> said[i][2]])
              shown == IF client = "claude" THEN parts
                       ELSE SelectSeq(parts, LAMBDA p : ~IsThought(p))
          IN  /\ Kept(shown) # <<>>
              /\ Says("assistant", Written("assistant", Itemised(Kept(shown))))
              /\ caches' = IF sent.to # "antigravity" THEN caches
                           ELSE FoldLeft(LAMBDA c, p : Remember(c, p, version),
                                         caches, parts)

(* Two hours pass since a turn: the signatures kept until then are         *)
(* forgotten, but for the one for all. Of an expiry while a request is     *)
(* under way only the next request can tell.                               *)
Expire ==
    LET since(f, t) == Restrict(f, {n \in DOMAIN f : n >= 10 * t})
    IN  /\ sent = Unsent
        /\ \E t \in 1 .. turn + 1 :
              caches' = [caches EXCEPT !.tools = since(@, t),
                                       !.families = since(@, t)]
        /\ UNCHANGED <<client, thinks, replay, history, turn, sent, restarts>>

Crash ==
    /\ restarts < MaxRestarts /\ turn > 0
    /\ caches' = EmptyCaches
    /\ sent' = Unsent
    /\ restarts' = restarts + 1
    /\ UNCHANGED <<client, thinks, replay, history, turn>>

Next == Ask \/ Return \/ Send \/ Fail \/ Answer \/ Expire \/ Crash

Spec == Init /\ [][Next]_vars

-----------------------------------------------------------------------------
(* Properties. *)

PartsOf(messages) == FlattenSeq([i \in DOMAIN messages |-> messages[i].parts])

(* What was said, without what the converters make up. *)
SaidOf(messages) == SelectSeq(PartsOf(messages), LAMBDA p : p.n # 0)

IsPart(p) ==
    /\ p.kind \in {"text", "image", "thought", "hint", "call", "result", "foreign",
                   "nothing", "blank"}
    /\ p.n \in Nat /\ p.of \in Nat
    /\ p.sig.len \in {Missing, Short, Long}
    /\ p.kind \in {"call", "result"} => p.of # 0 /\ p.ref # NoRef

(* Histories, requests and memory are of their types: only signatures long *)
(* enough are remembered for calls and families, and a request sent on     *)
(* says something, its Gemini form in turns (mergeAdjacentRoles).          *)
TypeInvariant ==
    /\ client \in Clients /\ turn \in 0 .. MaxTurns /\ restarts \in 0 .. MaxRestarts
    /\ \A i \in DOMAIN SaidOf(history) : IsPart(SaidOf(history)[i])
    /\ \A i \in DOMAIN PartsOf(sent.messages) : IsPart(PartsOf(sent.messages)[i])
    /\ \A k \in DOMAIN caches.tools : Valid(caches.tools[k])
    /\ \A k \in DOMAIN caches.families :
          caches.families[k] \in UNION {Versions(route.model) : route \in Routes("claude")} \ {""}
    /\ client = "claude" /\ sent.to \in {"gemini", "antigravity"} =>
          \A i \in 1 .. Len(sent.messages) - 1 :
             sent.messages[i].role # sent.messages[i + 1].role

(* What a translation leaves out: the pictures most converters do not      *)
(* know, the thoughts those to OpenAI and Codex do not, all but the last   *)
(* text of a message to Codex, and to or from OpenAI what a message of     *)
(* several texts or pictures says beside calls or other messages.          *)
Forgotten(m, p) ==
    LET of == <<client, sent.to>>
    IN  \/ p.kind \in {"nothing", "blank", "hint"}
        \/ p.kind = "image" /\ sent.to \in {"codex", "gemini"} /\ client # "claude"
        \/ p.kind = "image" /\ (client = "gemini" \/ of = <<"claude", "codex">>)
        \/ p.kind = "thought" /\ client = "claude" /\ sent.to \in {"openai", "codex"}
        \/ p.kind = "text" /\ of = <<"claude", "codex">> /\ p # Last(Kind(m.parts, {"text"}))
        \/ p.kind \in {"text", "image"} /\ ~IsString(m.parts)
              /\ of \in {<<"claude", "openai">>, <<"openai", "claude">>}

(* What stands in the request for something the provider cannot read: the  *)
(* text or picture of a Codex list in the types of Codex, and an empty     *)
(* result for one that Claude clients wrote as a list for Codex, or OpenAI *)
(* clients for anyone.                                                     *)
StandsIn(p, q) ==
    \/ /\ client = "codex" /\ sent.to \in {"claude", "openai"}
       /\ q.kind = "foreign" /\ q.n = p.n
    \/ /\ client = "openai" \/ <<client, sent.to>> = <<"claude", "codex">>
       /\ p.kind = "result" /\ q.kind = "result" /\ q.of = p.of /\ q.n = 0

(* Whatever provider a request goes to, the provider reads what was said   *)
(* turn by turn, nothing twice and nothing left out but what its converter *)
(* cannot say; what the provider cannot read of a list stands where it was *)
(* said (StandsIn).                                                        *)
SaidInOrder ==
    sent # Unsent =>
        LET parts == PartsOf(sent.messages)
            said == SaidOf(sent.messages)
            of(n) == {i \in DOMAIN said : said[i].n = n}
            read(p) == \E i \in of(p.n) : said[i].kind # "foreign"
        IN  /\ \A i \in 1 .. Len(said) - 1 : said[i].n \div 10 <= said[i + 1].n \div 10
            /\ \A i \in DOMAIN said : Cardinality(of(said[i].n)) = 1
            /\ \A i \in DOMAIN history : \A j \in DOMAIN history[i].parts :
                  LET p == history[i].parts[j]
                  IN  \/ Forgotten(history[i], p) \/ read(p)
                      \/ \E k \in DOMAIN parts : StandsIn(p, parts[k])

(* The translations whose results can be told by the name of their call:   *)
(* not those that make names of their own for Gemini's sake, and from      *)
(* Codex only if items have no ids of their own.                           *)
KeepsNames ==
    \/ client = "claude" /\ sent.to \in {"codex", "gemini", "antigravity"}
    \/ client = "codex" /\ sent.to \in {"claude", "openai"} /\ replay # "all"
    \/ client = "openai" /\ sent.to \in {"claude", "codex"}

(* Every result a provider reads comes after the call it answers and, by   *)
(* the name it refers to, answers no other.                                *)
ResultsAnswered ==
    LET parts == PartsOf(sent.messages)
    IN  \A i \in DOMAIN parts :
           parts[i].kind = "result" =>
               LET calls == {j \in 1 .. i : parts[j].kind = "call"}
               IN  /\ \E j \in calls : parts[j].of = parts[i].of
                   /\ KeepsNames =>
                         {j \in calls : parts[j].ref = parts[i].ref}
                         = {j \in calls : parts[j].of = parts[i].of}

Answered(messages) == messages[LastOf(messages, "assistant")].parts

(* The last turn returns results to a model that is to think. *)
InLoop ==
    /\ thinks /\ sent.to \in {"gemini", "antigravity"} /\ sent.model \in Thinkers
    /\ Has(Last(history), "result")

(* The answer the results are for begins with a thought of the model's own *)
(* kind, as far as known, which the code takes for signed.                 *)
BeginsWithThought ==
    LET p == Answered(history)[1]
    IN  /\ p.kind = "thought" /\ p.sig.len >= Short
        /\ sent.to = "antigravity" =>
              Valid(p.sig) /\ IsModelCompatible(caches, p.sig, sent.model)

HasNoThought ==
    \A i \in DOMAIN Answered(history) :
        IsThought(Answered(history)[i]) => Answered(history)[i].sig = NoSig

LoopClosed == Last(PartsOf(sent.messages)) = Said(0)

(* When results are returned, an answer that began with a signed thought   *)
(* is sent with that thought first and every call signed, and the model    *)
(* keeps thinking. For an answer without a thought the model is not asked  *)
(* to think (the converter of the registry) or its loop is closed and the  *)
(* model starts over (Antigravity), whatever restarts and expiries left of *)
(* the signatures and whatever the client sends back. Not promised for an  *)
(* answer of which only a trailing signature is left, nor for a thought of *)
(* another model: their requests may ask for thinking and hold no thought. *)
(* A thought known to be of another model is never sent as one.            *)
LoopsResume ==
    /\ sent.to = "antigravity" =>
        LET thoughts == Kind(PartsOf(sent.messages), {"thought"})
        IN  \A i \in DOMAIN thoughts :
                IsModelCompatible(caches, thoughts[i].sig, sent.model)
    /\ InLoop =>
        LET answer == Answered(sent.messages)
            signed(p) == p.kind = "call" => p.sig.len >= Short
        IN  /\ BeginsWithThought =>
                  /\ sent.thinking
                  /\ answer[1].kind = "thought" /\ answer[1].n = Answered(history)[1].n
                  /\ \A i \in DOMAIN answer : signed(answer[i])
            /\ HasNoThought => IF sent.to = "antigravity" THEN LoopClosed ELSE ~sent.thinking

===============================================================================

---------------------------- MODULE MCConversations ----------------------------
(***************************************************************************)
(* Conversations on small instances.                                       *)
(***************************************************************************)
EXTENDS Conversations

Formats == {"claude", "openai", "codex", "gemini"}

(* "opus" and "sonnet" think, "flash" does not. *)
MCThinkers == {"opus", "pro", "sonnet"}

MCRoutes(c) ==
    {[to |-> f, model |-> IF f = "gemini" THEN "pro" ELSE "other"] : f \in Formats \ {c}}
    \union IF c # "claude" THEN {}
           ELSE {[to |-> "antigravity", model |-> m] : m \in {"opus", "pro", "flash"}}

MCOpenings == {<<"text">>, <<"text", "image">>}

Called == <<"call", Missing>>
Told == <<"text", Missing>>

(* The thoughts of OpenAI and Codex come with a made-up signature, those   *)
(* of Gemini with none.                                                    *)
MCAnswers(to) ==
    {<<Told>>, <<Told, Called, Called>>}
    \union
    CASE to = "openai" -> {<<<<"thought", Short>>, Told, Called>>}
      [] to = "antigravity" ->
            {<<<<"thought", Long>>, <<"call", Long>>, Called>>,
             <<<<"hint", Long>>, <<"call", Short>>>>}
      [] to = "gemini" -> {<<<<"thought", Missing>>, Called>>}
      [] OTHER -> {}

(* An answer may say no version, the name its model was asked for by, or   *)
(* another, which the code does not take for the same model.               *)
MCVersions(model) ==
    CASE model = "opus" -> {"", "opus"} [] model = "pro" -> {"pro dated"} [] OTHER -> {model}

MCReplays == {"all", "calls unsigned", "no thoughts"}
===============================================================================

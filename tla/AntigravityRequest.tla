-------------------------- MODULE AntigravityRequest --------------------------
(***************************************************************************)
(* How the Antigravity adapter makes a Gemini request of a Claude one      *)
(* (TransformClaudeToGemini, then applyClaudePostProcess), and the         *)
(* process-wide memory of signatures it looks up while it does: the        *)
(* signature each call came with, the model each signature is of, and one  *)
(* signature for all that have none. A call is known by the number it was  *)
(* made under, a signature by its own.                                     *)
(***************************************************************************)
EXTENDS RequestConverters

EmptyCaches == [tools |-> << >>, families |-> << >>, global |-> NoSig]

Valid(sig) == sig.len >= Long

GetToolSignature(caches, call) ==
    IF call \in DOMAIN caches.tools THEN caches.tools[call] ELSE NoSig

(* Two names are of one family if they are the same. (The four families    *)
(* the code knows besides are of older models.)                            *)
IsModelCompatible(caches, sig, model) ==
    sig.n \in DOMAIN caches.families => caches.families[sig.n] = model

(* The longest signature is kept. *)
StoreThoughtSignature(caches, sig) ==
    IF sig.len > caches.global.len THEN [caches EXCEPT !.global = sig] ELSE caches

CacheThinkingFamily(caches, sig, version) ==
    IF Valid(sig) THEN [caches EXCEPT !.families = (sig.n :> version) @@ @]
    ELSE caches

(* Mutant of CacheToolSignature: a signature is remembered however short. *)
CacheToolSignatureUnchecked(caches, call, sig) ==
    IF sig # NoSig THEN [caches EXCEPT !.tools = (call :> sig) @@ @] ELSE caches

CacheToolSignature(caches, call, sig) ==
    IF Valid(sig) THEN [caches EXCEPT !.tools = (call :> sig) @@ @] ELSE caches

(* What is remembered of a part of an answer that says it is of `version`  *)
(* of a model, or nothing; a trailing signature is not.                    *)
Remember(caches, p, version) ==
    CASE p.kind = "thought" /\ p.sig # NoSig ->
            StoreThoughtSignature(
                IF version = "" THEN caches
                ELSE CacheThinkingFamily(caches, p.sig, version), p.sig)
      [] p.kind = "call" -> CacheToolSignature(caches, p.of, p.sig)
      [] OTHER -> caches

-----------------------------------------------------------------------------
(* Before the contents are built. *)

(* Mutant of CloseToolLoopForThinking: a thought in any answer will do. *)
CloseToolLoopForThinkingOnce(history) ==
    IF history # <<>> /\ Has(Last(history), "result") /\ ~HasThinkingHistory(history)
    THEN history \o <<Message("assistant", <<Said(0)>>), Message("user", <<Said(0)>>)>>
    ELSE history

(* After results of an answer without a thought the model is made to start *)
(* a turn of its own.                                                      *)
CloseToolLoopForThinking(history) ==
    LET i == LastOf(history, "assistant")
    IN  IF /\ history # <<>> /\ Last(history).role = "user"
           /\ Has(Last(history), "result")
           /\ i > 0 /\ ~Thinks(history[i])
        THEN history \o <<Message("assistant", <<Said(0)>>), Message("user", <<Said(0)>>)>>
        ELSE history

HasValidSignatureForFunctionCalls(history, caches) ==
    \/ Valid(caches.global)
    \/ \E i \in DOMAIN history : \E j \in DOMAIN history[i].parts :
          IsThought(history[i].parts[j]) /\ Valid(history[i].parts[j].sig)

CalculateFinalThinkingState(history, requested, supported, caches) ==
    /\ requested /\ supported
    /\ ~ShouldDisableThinkingDueToHistory(history)
    /\ HasFunctionCalls(history) => HasValidSignatureForFunctionCalls(history, caches)

-----------------------------------------------------------------------------
(* The contents. *)

ProcessThinkingBlock(b, p, model, caches) ==
    LET sig == IF p.sig = NoSig THEN b.sig ELSE p.sig
    IN  IF p.kind = "hint"
        THEN Put(b, IF b.parts = <<>> THEN Said(0) ELSE Part("blank", 0, 0, NoSig))
        ELSE IF b.parts # <<>> THEN Put(b, AsText(p))
        ELSE IF ~IsModelCompatible(caches, sig, model) THEN Put(b, AsText(p))
        ELSE IF sig.len >= Short THEN [Put(b, Signed(p, sig)) EXCEPT !.sig = sig]
        ELSE Put(b, Signed(p, NoSig))

(* The first of four: the client's, the last thought's, the one the call   *)
(* came with, the one for all.                                             *)
RecoverSignature(b, p, caches) ==
    LET layers == SelectSeq(<<p.sig, b.sig, GetToolSignature(caches, p.of),
                              caches.global>>,
                            LAMBDA sig : sig # NoSig)
    IN  IF layers = <<>> THEN NoSig ELSE layers[1]

ProcessPart(b, p, model, caches) ==
    CASE p.kind = "nothing" -> b
      [] IsThought(p) -> ProcessThinkingBlock(b, p, model, caches)
      [] p.kind = "call" ->
            [Put(b, Signed(Refer(p, Name(p.of)), RecoverSignature(b, p, caches)))
               EXCEPT !.named = @ \union {p.of}]
      [] p.kind = "result" -> PutResult(b, p)
      [] OTHER -> Put(b, p)

-----------------------------------------------------------------------------
(* After the contents are built. *)

(* `sig` is the signature of the last thought of the message. *)
Recheck(b, p, model, caches) ==
    LET cached    == GetToolSignature(caches, p.of)
        recovered == IF Valid(p.sig) \/ cached = NoSig THEN p.sig ELSE cached
        final     == IF Valid(recovered) \/ ~Valid(b.sig) THEN recovered ELSE b.sig
    IN  CASE p.kind = "thought" ->
                IF p.sig.len < Short THEN [b EXCEPT !.sig = NoSig]
                ELSE IF ~IsModelCompatible(caches, p.sig, model) THEN Put(b, AsText(p))
                ELSE [Put(b, p) EXCEPT !.sig = p.sig]
          [] p.kind = "call" ->
                IF ~Valid(p.sig) /\ cached # NoSig
                   /\ ~IsModelCompatible(caches, cached, model)
                THEN Put(b, p) ELSE Put(b, Signed(p, final))
          [] OTHER -> Put(b, p)

(* Thoughts left without a valid signature are dropped. *)
ProcessContentsForSignatures(contents, model, caches) ==
    [i \in DOMAIN contents |->
        IF contents[i].role # "assistant" THEN contents[i]
        ELSE [contents[i] EXCEPT !.parts =
                FoldLeft(LAMBDA b, p : Recheck(b, p, model, caches), Built, @).parts]]

TransformClaudeToGemini(history, model, requested, supported, caches) ==
    LET h        == CloseToolLoopForThinking(FilterInvalidThinkingBlocks(history))
        thinking == CalculateFinalThinkingState(h, requested, supported, caches)
        put(b, p) == ProcessPart(b, p, model, caches)
        build(b, m) == CloseContents(FoldLeft(put, b, m.parts), m)
        contents == ProcessContentsForSignatures(
                        MergeAdjacentRoles(FoldLeft(build, Built, h).out), model, caches)
    IN  [thinking |-> thinking,
         messages |-> IF thinking THEN contents ELSE ClearThinking(contents)]
===============================================================================

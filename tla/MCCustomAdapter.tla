---------------------------- MODULE MCCustomAdapter ----------------------------
(* CustomAdapter on every pair of formats a converter serves in full. *)
EXTENDS CustomAdapter

Formats == {"claude", "openai", "gemini", "codex"}

(* The two pairs whose response converters are registered the wrong way. *)
Swapped == {<<"codex", "gemini">>, <<"gemini", "codex">>}
Straight == (Formats \X Formats) \ Swapped
=============================================================================

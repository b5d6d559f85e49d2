----------------------------- MODULE ClaudeEvents -----------------------------
(***************************************************************************)
(* What a Claude client may rely on when it reads a streamed message, one  *)
(* event at a time: a start, then blocks one after the other, numbered     *)
(* without a gap, each closed before the next opens; a thinking block's    *)
(* signature is the last thing in it; then the stop reason and the stop,   *)
(* and nothing after it.  Deltas of a block leave this state alone.        *)
(***************************************************************************)
EXTENDS Naturals

VARIABLES
    phase,  \* what the client is inside of
    index   \* the number the next block has, or the open block's

vars == <<phase, index>>

BlockTypes == {"text", "thinking", "tool_use"}
Phases == BlockTypes \cup {"before", "open", "signed", "closing", "over"}

Init == phase = "before" /\ index = 0

MessageStart == /\ phase = "before"
                /\ phase' = "open"
                /\ UNCHANGED index

BlockStart == /\ phase = "open"
              /\ phase' \in BlockTypes
              /\ UNCHANGED index

Signature == /\ phase = "thinking"
             /\ phase' = "signed"
             /\ UNCHANGED index

BlockStop == /\ phase \in BlockTypes \cup {"signed"}
             /\ phase' = "open"
             /\ index' = index + 1

MessageDelta == /\ phase = "open"
                /\ phase' = "closing"
                /\ UNCHANGED index

MessageStop == /\ phase = "closing"
               /\ phase' = "over"
               /\ UNCHANGED index

Next == MessageStart \/ BlockStart \/ Signature \/ BlockStop
        \/ MessageDelta \/ MessageStop

Spec == Init /\ [][Next]_vars
===============================================================================

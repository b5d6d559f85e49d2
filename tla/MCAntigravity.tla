----------------------------- MODULE MCAntigravity -----------------------------
(* AntigravityAdapter with calls that are interchangeable. *)
EXTENDS AntigravityAdapter, TLC

CONSTANTS c1, c2

TwoCalls == {c1, c2}
=============================================================================

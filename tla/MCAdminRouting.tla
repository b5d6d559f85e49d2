---------------------------- MODULE MCAdminRouting ----------------------------
(* AdminRouting with two client types and two projects. *)
EXTENDS AdminRouting

CONSTANTS claude, openai

Clients == {claude, openai}
OneOrBoth == {{claude}, {claude, openai}}
GlobalAndOne == {Global, 1}
=============================================================================

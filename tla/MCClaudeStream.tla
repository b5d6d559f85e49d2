--------------------------- MODULE MCClaudeStream ---------------------------
(***************************************************************************)
(* Every answer of up to three parts in up to three lines.                 *)
(***************************************************************************)
EXTENDS ClaudeStream, TLC

MCShapes == {<<"text", FALSE, FALSE>>, <<"text", FALSE, TRUE>>,
             <<"text", TRUE, TRUE>>,
             <<"thought", FALSE, TRUE>>, <<"thought", TRUE, FALSE>>,
             <<"call", FALSE, TRUE>>,
             <<"image", FALSE, FALSE>>}
===============================================================================

--------------------------- MODULE MCDebugSession ---------------------------
(* Programs that read in every way, break, loop and die, with input that   *)
(* is cut anywhere: a line may be missing its end or be longer than what   *)
(* the guest asks for.                                                     *)
EXTENDS DebugSession

T == "text"
N == "newline"

MCPrograms ==
  { <<"number", "str", "halt">>, <<"char", "number", "plain">>,
    <<"plain", "break", "str", "fatal">>, <<"str", "plain", "loop">>,
    <<"loop">> }
MCPrefills == { <<>>, <<T, N>>, <<N, T, T, N>>, <<T, N, T>>, <<T, T, N, T, N>> }
MCLineTexts == { <<>>, <<T>>, <<T, T>> }

WaitingPrograms == { <<"number", "plain", "char">>, <<"str", "number">> }
WaitingPrefills == { <<>>, <<T, N>>, <<T, N, T>> }
=============================================================================

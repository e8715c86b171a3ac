---------------------------- MODULE MCLlmService ----------------------------
(***************************************************************************)
(* Tokens for TLC: single characters, a blank before a letter, as language *)
(* models have it, and an abbreviation with its period.                    *)
(***************************************************************************)
EXTENDS LlmService

MCTokens == {<<"letter">>, <<"dot">>, <<"space", "mr">>}
MCNumber == {<<"letter">>, <<"digit">>, <<"dot">>}

\* The calls are alike, and no property of the run is about liveness.
MCSymmetry == Permutations(Calls)
=============================================================================

-------------------------- MODULE MCWeatherService --------------------------
(***************************************************************************)
(* Small instances of WeatherService for TLC.                              *)
(***************************************************************************)
EXTENDS AccountsRefinement, TLC

CONSTANTS a, b, p, q   \* fields

(* Names and passwords without a comma.                                    *)
PlainUsernames == {<<a>>, <<b>>}
PlainPasswords == {<<p>>, <<q>>}

AllFaultsHappen == AllFaults
CrashOnly == {"crash"}
TornSave == {"tornSave"}

TokenSymmetry == Permutations(Tokens)
=============================================================================

----------------------------- MODULE MCPipeline -----------------------------
(* An instance of Pipeline for TLC.                                        *)
EXTENDS Pipeline

CONSTANTS sh, app, r1, r2

TwoFilters  == <<r1, r2>>
SecondMatch == [b \in Binaries |-> IF b = sh THEN {r2} ELSE {}]
=============================================================================

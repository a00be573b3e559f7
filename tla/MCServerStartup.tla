-------------------------- MODULE MCServerStartup ---------------------------
(* Instances of ServerStartup for TLC.                                     *)
EXTENDS ServerStartup

CONSTANTS a, b, c

\* Three outputs, with two workers, one, and none.
TwoOneNone == [o \in Outputs |-> IF o = a THEN 2 ELSE IF o = b THEN 1 ELSE 0]
=============================================================================

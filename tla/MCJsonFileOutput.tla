-------------------------- MODULE MCJsonFileOutput --------------------------
(* Instances of JsonFileOutput for TLC.                                    *)
EXTENDS JsonFileOutput

CONSTANTS w1, w2, j1, j2, i1, i2, i3, i4, i5

\* Two processes of one job, the others of another.
TwoElsewhere == [i \in Infos |-> IF i \in {i2, i4} THEN j2 ELSE j1]
=============================================================================

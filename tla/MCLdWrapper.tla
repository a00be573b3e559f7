---------------------------- MODULE MCLdWrapper -----------------------------
(* Instances of LdWrapper for TLC.                                         *)
EXTENDS LdWrapper

CONSTANTS l1, l2, wrap, bin, usr, f1, f2, f3

\* The wrapper before, behind and without a linker, once and twice.
AllPaths == UNION {[1..n -> Dirs] : n \in 0..3}
=============================================================================

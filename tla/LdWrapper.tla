----------------------------- MODULE LdWrapper ------------------------------
(***************************************************************************)
(* The linker wrapper, client/wrappers/ld: a script named ld, in front of  *)
(* the linker in PATH, which makes a signature object with ogrt in a       *)
(* temporary file and execs the linker with that file before its own       *)
(* arguments.  Several of them may run at once, as under make -j.          *)
(***************************************************************************)
EXTENDS Integers, Sequences, FiniteSets

CONSTANTS
  Links,     \* the invocations of ld
  Dirs,      \* directories that may be in PATH
  Wrappers,  \* those whose ld is the wrapper (the same file as $0)
  Linkers,   \* those whose ld is a linker
  Paths,     \* the values of PATH
  Files,     \* names mktemp may give
  None

ASSUME WrapperAssumption ==
  /\ Wrappers \subseteq Dirs /\ Linkers \subseteq Dirs
  /\ Wrappers \cap Linkers = {}
  /\ Paths \subseteq Seq(Dirs)
  /\ None \notin Files

VARIABLES
  PATH,       \* in the environment of all of them
  pc,         \* where each invocation is in the script, or what it became
  sigfile,    \* the temporary file of each
  arguments,  \* the signature files each was given or added, in order
  tmp,        \* the files in TMPDIR
  signed,     \* those that hold a whole signature object
  torn        \* those that hold a part of one, of which ogrt said nothing

vars == <<PATH, pc, sigfile, arguments, tmp, signed, torn>>

Init ==
  /\ PATH \in Paths
  /\ pc = [l \in Links |-> "new"]
  /\ sigfile = [l \in Links |-> None]
  /\ arguments = [l \in Links |-> <<>>]
  /\ tmp = {}
  /\ signed = {}
  /\ torn = {}

Executable == Wrappers \cup Linkers

\* Where the loop over PATH has found the script itself, and what follows.
AfterSelf(k) == \E s \in 1..k-1 : PATH[s] \in Wrappers

\* Faulty variant: any ld in PATH.
UnwrappedFirst ==
  LET found == {k \in DOMAIN PATH : PATH[k] \in Executable}
  IN  IF found = {} THEN None
      ELSE PATH[CHOOSE k \in found : \A n \in found : k <= n]

\* The first ld in PATH after the first that is the script itself, else the
\* string false, the name of a program that fails.
Unwrapped ==
  LET found == {k \in DOMAIN PATH : AfterSelf(k) /\ PATH[k] \in Executable}
  IN  IF found = {} THEN None
      ELSE PATH[CHOOSE k \in found : \A n \in found : k <= n]

\* exec: the script is gone, whatever follows exec in it never runs.
Exec(l) ==
  pc' = [pc EXCEPT ![l] = IF Unwrapped = None THEN "failed"
                          ELSE IF Unwrapped \in Wrappers THEN "new"
                          ELSE "linker"]

\* ld has no arguments, there is no ogrt in PATH, or mktemp fails.
NotSigning(l) ==
  /\ pc[l] = "new"
  /\ Exec(l)
  /\ UNCHANGED <<PATH, sigfile, arguments, tmp, signed, torn>>

\* Faulty variant: the name of the temporary file is fixed.
MakeFixedFile(l) ==
  /\ pc[l] = "new"
  /\ LET f == CHOOSE f \in Files : TRUE IN
       /\ sigfile' = [sigfile EXCEPT ![l] = f]
       /\ tmp' = tmp \cup {f}
       /\ signed' = signed \ {f}
  /\ pc' = [pc EXCEPT ![l] = "generate"]
  /\ UNCHANGED <<PATH, arguments, torn>>

\* Faulty variant: that mktemp failed is not noticed.
MakeFileUnchecked(l) ==
  /\ pc[l] = "new"
  /\ \E f \in (Files \ tmp) \cup {None} :
       /\ sigfile' = [sigfile EXCEPT ![l] = f]
       /\ tmp' = tmp \cup ({f} \ {None})
  /\ pc' = [pc EXCEPT ![l] = "generate"]
  /\ UNCHANGED <<PATH, arguments, signed, torn>>

\* mktemp creates a file of a new name.
MakeFile(l) ==
  /\ pc[l] = "new"
  /\ \E f \in Files \ tmp :
       /\ sigfile' = [sigfile EXCEPT ![l] = f]
       /\ tmp' = tmp \cup {f}
  /\ pc' = [pc EXCEPT ![l] = "generate"]
  /\ UNCHANGED <<PATH, arguments, signed, torn>>

\* ogrt --generate-signature succeeds.
Generate(l) ==
  /\ pc[l] = "generate"
  /\ signed' = signed \cup {sigfile[l]}
  /\ arguments' = [arguments EXCEPT ![l] = <<sigfile[l]>> \o @]
  /\ pc' = [pc EXCEPT ![l] = "exec"]
  /\ UNCHANGED <<PATH, sigfile, tmp, torn>>

\* main does not look at what printf returns, and the flush at exit is not
\* looked at either: on a full disk the file is cut short and the status is 0.
GenerateTruncated(l) ==
  /\ pc[l] = "generate"
  /\ torn' = torn \cup {sigfile[l]}
  /\ arguments' = [arguments EXCEPT ![l] = <<sigfile[l]>> \o @]
  /\ pc' = [pc EXCEPT ![l] = "exec"]
  /\ UNCHANGED <<PATH, sigfile, tmp, signed>>

\* Faulty variant: the file is added all the same.
GenerateFailsAppending(l) ==
  /\ pc[l] = "generate"
  /\ arguments' = [arguments EXCEPT ![l] = <<sigfile[l]>> \o @]
  /\ pc' = [pc EXCEPT ![l] = "exec"]
  /\ UNCHANGED <<PATH, sigfile, tmp, signed, torn>>

\* It fails: the file is not among the arguments.
GenerateFails(l) ==
  /\ pc[l] = "generate"
  /\ pc' = [pc EXCEPT ![l] = "exec"]
  /\ UNCHANGED <<PATH, sigfile, arguments, tmp, signed, torn>>

ExecSigned(l) ==
  /\ pc[l] = "exec"
  /\ Exec(l)
  /\ UNCHANGED <<PATH, sigfile, arguments, tmp, signed, torn>>

\* The linker reads its input files and ends.
Link(l) ==
  /\ pc[l] = "linker"
  /\ pc' = [pc EXCEPT ![l] = "done"]
  /\ UNCHANGED <<PATH, sigfile, arguments, tmp, signed, torn>>

Step(l) ==
  \/ NotSigning(l)
  \/ MakeFile(l)
  \/ Generate(l)
  \/ GenerateTruncated(l)
  \/ GenerateFails(l)
  \/ ExecSigned(l)
  \/ Link(l)

Done == (\A l \in Links : pc[l] \in {"done", "failed"}) /\ UNCHANGED vars

Next == (\E l \in Links : Step(l)) \/ Done

Spec == Init /\ [][Next]_vars

\* Every process of the build runs.
FairSpec == Spec /\ \A l \in Links : WF_vars(Step(l))

-----------------------------------------------------------------------------
(* Properties.                                                             *)

\* The type invariant.
TypeOK ==
  /\ PATH \in Paths
  /\ pc \in [Links -> {"new", "generate", "exec", "linker", "failed", "done"}]
  /\ sigfile \in [Links -> Files \cup {None}]
  /\ arguments \in [Links -> Seq(Files)]
  /\ tmp \subseteq Files
  /\ signed \subseteq Files
  /\ torn \subseteq Files

Args(l) == {arguments[l][k] : k \in DOMAIN arguments[l]}

\* A linker is never given a signature file that is not there, that ogrt has
\* reported a failure for, or that is the file of another link, however many
\* wrappers run at once or exec one another: each binary gets a signature of
\* its own.  What the wrapper cannot see is a file that was cut short.
SignaturesSound ==
  /\ \A l \in Links :
       pc[l] \in {"linker", "done"} => Args(l) \subseteq tmp \cap (signed \cup torn)
  /\ \A l, m \in Links : l # m => Args(l) \cap Args(m) = {}

\* The nearest ld behind the first wrapper in PATH is one of those in D.
NextBehind(D) ==
  \E s, k \in DOMAIN PATH :
    /\ s < k
    /\ PATH[s] \in Wrappers
    /\ PATH[k] \in D
    /\ \A n \in 1..k-1 : n # s => PATH[n] \notin
         IF n < s THEN Wrappers ELSE Executable

\* What is behind the wrapper in PATH decides what becomes of a link, whatever
\* fails on the way and whatever other links do.  A linker runs, with one
\* signature at the most, and another wrapper further back makes no difference.
\* If the wrapper itself comes next, the script execs itself for ever and no
\* linker runs.  If nothing does, the link fails.
PathDecides ==
  \A l \in Links :
    /\ NextBehind(Linkers) =>
         <>(pc[l] = "done") /\ [](Len(arguments[l]) <= 1)
    /\ NextBehind(Wrappers) =>
         []<>(pc[l] = "new") /\ [](pc[l] \notin {"linker", "done", "failed"})
    /\ ~NextBehind(Executable) => <>(pc[l] = "failed")
=============================================================================

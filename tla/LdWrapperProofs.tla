-------------------------- MODULE LdWrapperProofs ---------------------------
(***************************************************************************)
(* Proofs about LdWrapper, for any number of links, any PATH and any       *)
(* temporary files: the type invariant, and SignaturesSound.               *)
(***************************************************************************)
EXTENDS LdWrapper, TLAPS

-----------------------------------------------------------------------------
(* Types.                                                                  *)

\* Only a link that is about to run ogrt needs the name of its file.
NamedFile == \A l \in Links : pc[l] = "generate" => sigfile[l] \in Files

TypeInv == TypeOK /\ NamedFile

LEMMA ExecType ==
  ASSUME TypeInv, NEW l \in Links, Exec(l)
  PROVE  /\ pc' \in [Links -> {"new", "generate", "exec", "linker", "failed", "done"}]
         /\ \A m \in Links : pc'[m] = "generate" => m # l /\ pc[m] = "generate"
         /\ \A m \in Links : m # l => pc'[m] = pc[m]
BY DEF Exec, TypeInv, TypeOK

LEMMA TypeInvInit == Init => TypeInv
BY WrapperAssumption DEF Init, TypeInv, TypeOK, NamedFile

\* Each step of a link keeps the types.
LEMMA TypeInvLink ==
  ASSUME TypeInv, NEW l \in Links, Step(l)
  PROVE  TypeInv'
<1> USE WrapperAssumption
<1> USE DEF TypeInv, TypeOK, NamedFile
<1>1. CASE NotSigning(l)
  BY <1>1, ExecType DEF NotSigning
<1>2. CASE MakeFile(l)
  BY <1>2 DEF MakeFile
<1>3. CASE Generate(l)
  <2>1. <<sigfile[l]>> \o arguments[l] \in Seq(Files)
    BY <1>3 DEF Generate
  <2>2. QED BY <1>3, <2>1 DEF Generate
<1>4. CASE GenerateTruncated(l)
  <2>1. <<sigfile[l]>> \o arguments[l] \in Seq(Files)
    BY <1>4 DEF GenerateTruncated
  <2>2. QED BY <1>4, <2>1 DEF GenerateTruncated
<1>5. CASE GenerateFails(l)
  BY <1>5 DEF GenerateFails
<1>6. CASE ExecSigned(l)
  BY <1>6, ExecType DEF ExecSigned
<1>7. CASE Link(l)
  BY <1>7 DEF Link
<1>8. QED BY <1>1, <1>2, <1>3, <1>4, <1>5, <1>6, <1>7 DEF Step

LEMMA TypeInvStep == TypeInv /\ [Next]_vars => TypeInv'
<1> SUFFICES ASSUME TypeInv, [Next]_vars PROVE TypeInv'
  OBVIOUS
<1>1. CASE UNCHANGED vars
  BY <1>1 DEF vars, TypeInv, TypeOK, NamedFile
<1>2. QED BY <1>1, TypeInvLink DEF Next, Done

\* The type invariant holds for any number of links, whatever is in PATH.
THEOREM TypeCorrect == Spec => []TypeOK
<1>1. Spec => []TypeInv
  BY TypeInvInit, TypeInvStep, PTL DEF Spec
<1>2. QED BY <1>1, PTL DEF TypeInv

-----------------------------------------------------------------------------
(* The signature files.                                                    *)

\* The files among the arguments are there, and ogrt has reported success.
ArgsFinished == \A l \in Links : Args(l) \subseteq tmp \cap (signed \cup torn)

\* The file that a link is about to fill is there and is nobody else's.
OwnFile ==
  \A l \in Links : pc[l] = "generate" =>
    /\ sigfile[l] \in tmp
    /\ \A m \in Links : sigfile[l] \notin Args(m)
    /\ \A m \in Links \ {l} : pc[m] = "generate" => sigfile[m] # sigfile[l]

NotShared == \A l, m \in Links : l # m => Args(l) \cap Args(m) = {}

SignatureInv == TypeInv /\ ArgsFinished /\ OwnFile /\ NotShared

Elements(s) == {s[k] : k \in DOMAIN s}

\* What is in a sequence that something was put in front of.
LEMMA InFront ==
  ASSUME NEW S, NEW s \in Seq(S), NEW x \in S
  PROVE  Elements(<<x>> \o s) = {x} \cup Elements(s)
<1> DEFINE t == <<x>> \o s
<1>1. /\ Len(t) = Len(s) + 1 /\ DOMAIN t = 1..Len(s) + 1 /\ DOMAIN s = 1..Len(s)
      /\ t[1] = x
      /\ \A k \in 1..Len(s) : t[k + 1] = s[k]
      /\ Len(s) \in Nat
  OBVIOUS
<1> HIDE DEF t
<1>2. ASSUME NEW k \in DOMAIN t PROVE t[k] \in {x} \cup {s[n] : n \in DOMAIN s}
  <2>1. CASE k = 1 BY <1>1, <2>1
  <2>2. CASE k # 1
    <3>1. k - 1 \in 1..Len(s) /\ t[k] = s[k - 1]
      BY <1>1, <1>2, <2>2
    <3>2. QED BY <1>1, <3>1
  <2>3. QED BY <2>1, <2>2
<1>3. ASSUME NEW n \in DOMAIN s PROVE s[n] \in {t[k] : k \in DOMAIN t}
  <2>1. n + 1 \in DOMAIN t /\ t[n + 1] = s[n]
    BY <1>1, <1>3
  <2>2. QED BY <2>1
<1>4. x \in {t[k] : k \in DOMAIN t}
  BY <1>1
<1>5. Elements(t) = {x} \cup Elements(s)
  BY <1>2, <1>3, <1>4 DEF Elements
<1>6. QED BY <1>5 DEF t

LEMMA SignatureInvInit == Init => SignatureInv
BY TypeInvInit DEF Init, SignatureInv, ArgsFinished, OwnFile, NotShared, Args

\* ogrt has ended with status 0, and its output is among the arguments of l.
LEMMA SignatureInvAppended ==
  ASSUME SignatureInv, TypeInv', NEW l \in Links, pc[l] = "generate",
         arguments' = [arguments EXCEPT ![l] = <<sigfile[l]>> \o @],
         pc' = [pc EXCEPT ![l] = "exec"],
         sigfile' = sigfile, tmp' = tmp,
         signed \cup torn \cup {sigfile[l]} \subseteq signed' \cup torn'
  PROVE  SignatureInv'
<1>1. /\ Args(l)' = {sigfile[l]} \cup Args(l)
      /\ \A m \in Links : m # l => Args(m)' = Args(m)
  <2>1. arguments[l] \in Seq(Files) /\ sigfile[l] \in Files
    BY DEF SignatureInv, TypeInv, TypeOK, NamedFile
  <2>2. arguments'[l] = <<sigfile[l]>> \o arguments[l]
    BY DEF SignatureInv, TypeInv, TypeOK
  <2>3. \A m \in Links : m # l => arguments'[m] = arguments[m]
    BY DEF SignatureInv, TypeInv, TypeOK
  <2>4. Elements(<<sigfile[l]>> \o arguments[l]) = {sigfile[l]} \cup Elements(arguments[l])
    BY <2>1, InFront
  <2>5. Args(l)' = {sigfile[l]} \cup Args(l)
    BY <2>2, <2>4, Zenon DEF Args, Elements
  <2>6. \A m \in Links : m # l => Args(m)' = Args(m)
    BY <2>3, Zenon DEF Args
  <2>7. QED BY <2>5, <2>6
<1>2. /\ pc'[l] = "exec"
      /\ \A m \in Links : m # l => pc'[m] = pc[m]
  BY DEF SignatureInv, TypeInv, TypeOK
<1>3. ArgsFinished'
  BY <1>1 DEF SignatureInv, ArgsFinished, OwnFile
<1>4. OwnFile'
  BY <1>1, <1>2 DEF SignatureInv, OwnFile
<1>5. NotShared'
  BY <1>1 DEF SignatureInv, OwnFile, NotShared
<1>6. QED BY <1>3, <1>4, <1>5 DEF SignatureInv

\* The arguments and the files stay as they are, and no link begins to sign.
LEMMA SignatureInvKept ==
  ASSUME SignatureInv, TypeInv',
         UNCHANGED <<sigfile, arguments, tmp, signed, torn>>,
         \A m \in Links : pc'[m] = "generate" => pc[m] = "generate"
  PROVE  SignatureInv'
<1>1. \A m \in Links : Args(m)' = Args(m)
  BY DEF Args
<1>2. QED
  BY <1>1 DEF SignatureInv, ArgsFinished, OwnFile, NotShared

LEMMA SignatureInvLink ==
  ASSUME SignatureInv, TypeInv', NEW l \in Links, Step(l)
  PROVE  SignatureInv'
<1>1. CASE NotSigning(l)
  BY <1>1, ExecType, SignatureInvKept DEF NotSigning, SignatureInv
<1>2. CASE MakeFile(l)
  <2>1. PICK f \in Files \ tmp :
          /\ sigfile' = [sigfile EXCEPT ![l] = f]
          /\ tmp' = tmp \cup {f}
    BY <1>2 DEF MakeFile
  <2>2. /\ sigfile'[l] = f
        /\ \A m \in Links : m # l => sigfile'[m] = sigfile[m] /\ pc'[m] = pc[m]
    BY <1>2, <2>1 DEF MakeFile, SignatureInv, TypeInv, TypeOK
  <2>3. \A m \in Links : Args(m)' = Args(m)
    BY <1>2 DEF MakeFile, Args
  <2>4. \A m \in Links : f \notin Args(m)
    BY <2>1 DEF SignatureInv, ArgsFinished
  <2>5. ArgsFinished'
    BY <1>2, <2>1, <2>3 DEF MakeFile, SignatureInv, ArgsFinished
  <2>6. OwnFile'
    BY <2>1, <2>2, <2>3, <2>4 DEF SignatureInv, OwnFile
  <2>7. NotShared'
    BY <2>3 DEF SignatureInv, NotShared
  <2>8. QED BY <2>5, <2>6, <2>7 DEF SignatureInv
<1>3. CASE Generate(l)
  BY <1>3, SignatureInvAppended DEF Generate
<1>4. CASE GenerateTruncated(l)
  BY <1>4, SignatureInvAppended DEF GenerateTruncated
<1>5. CASE GenerateFails(l)
  <2>1. \A m \in Links : pc'[m] = "generate" => pc[m] = "generate"
    BY <1>5 DEF GenerateFails, SignatureInv, TypeInv, TypeOK
  <2>2. QED BY <1>5, <2>1, SignatureInvKept DEF GenerateFails
<1>6. CASE ExecSigned(l)
  BY <1>6, ExecType, SignatureInvKept DEF ExecSigned, SignatureInv
<1>7. CASE Link(l)
  <2>1. \A m \in Links : pc'[m] = "generate" => pc[m] = "generate"
    BY <1>7 DEF Link, SignatureInv, TypeInv, TypeOK
  <2>2. QED BY <1>7, <2>1, SignatureInvKept DEF Link
<1>8. QED BY <1>1, <1>2, <1>3, <1>4, <1>5, <1>6, <1>7 DEF Step

LEMMA SignatureInvStep == SignatureInv /\ [Next]_vars => SignatureInv'
<1> SUFFICES ASSUME SignatureInv, [Next]_vars PROVE SignatureInv'
  OBVIOUS
<1>1. TypeInv'
  BY TypeInvStep DEF SignatureInv
<1>2. CASE UNCHANGED vars
  BY <1>1, <1>2, SignatureInvKept DEF vars
<1>3. QED BY <1>1, <1>2, SignatureInvLink DEF Next, Done

\* However many wrappers run at once and exec one another, a linker is given
\* only signature files that are there, that ogrt has reported success for, and
\* that no other link is given.
THEOREM SignaturesSoundCorrect == Spec => []SignaturesSound
<1>1. SignatureInv => SignaturesSound
  BY DEF SignatureInv, ArgsFinished, NotShared, SignaturesSound
<1>2. Spec => []SignatureInv
  BY SignatureInvInit, SignatureInvStep, PTL DEF Spec
<1>3. QED BY <1>1, <1>2, PTL
=============================================================================

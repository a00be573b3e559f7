--------------------------- MODULE NoteScanProofs ---------------------------
(***************************************************************************)
(* What holds of NoteScan for every object: any number of PT_NOTE segments *)
(* with any number of notes of any sizes, and whatever the scan reads      *)
(* between them.                                                           *)
(***************************************************************************)
EXTENDS NoteScan, WellFoundedInduction, TLAPS

-----------------------------------------------------------------------------
(* Induction, from the least number that is not in a set.                  *)

Less == {pair \in Nat \X Nat : pair[1] < pair[2]}

LEMMA LeastNumber ==
  ASSUME NEW T, T \subseteq Nat, T # {}
  PROVE  \E n \in T : \A m \in T : n <= m
<1>1. IsWellFoundedOn(Less, Nat)
  BY NatLessThanWellFounded, Zenon DEF OpToRel, Less
<1>2. PICK n \in T : \A m \in T : ~(<<m, n>> \in Less)
  BY <1>1, WFMin
<1>3. \A m \in T : ~(m < n)
  BY <1>2 DEF Less
<1>4. QED BY <1>3

LEMMA SetInduction ==
  ASSUME NEW S, NEW top \in Nat, 1 \in S,
         \A n \in 1..top : n \in S => n + 1 \in S
  PROVE  1..top + 1 \subseteq S
<1> DEFINE Missing == (1..top + 1) \ S
<1> SUFFICES ASSUME Missing # {} PROVE FALSE
  OBVIOUS
<1>1. PICK n \in Missing : \A m \in Missing : n <= m
  <2>1. Missing \subseteq Nat
    OBVIOUS
  <2>2. QED BY <2>1, LeastNumber
<1>2. n # 1 /\ n \in 1..top + 1
  OBVIOUS
<1>3. n - 1 \in 1..top
  BY <1>2
<1>4. n - 1 \notin Missing
  BY <1>1, <1>3
<1>5. n - 1 \in S /\ (n - 1) + 1 = n
  BY <1>2, <1>3, <1>4
<1>6. n \in S
  BY <1>3, <1>5
<1>7. QED BY <1>6

-----------------------------------------------------------------------------
(* Where the notes of a segment begin.                                     *)

LEMMA SpanType ==
  ASSUME NEW note \in Note
  PROVE  NoteSpan(note) \in Nat /\ NoteSpan(note) > 0 /\ Advance(note) \in Nat /\ Advance(note) > 0
  BY DEF NoteSpan, Padded, HeaderSize, Note, Advance

\* The equation that defines Begins has a solution, ...
BeginsAs(segment, f) ==
  f = [k \in 1..Len(segment) + 1 |->
         IF k = 1 THEN 0 ELSE f[k-1] + NoteSpan(segment[k-1])]

LEMMA BeginsExists ==
  ASSUME NEW segment \in Seq(Note)
  PROVE  \E f : BeginsAs(segment, f)
<1> DEFINE Step(f, k) == f[k] = IF k = 1 THEN 0 ELSE f[k-1] + NoteSpan(segment[k-1])
           Defined(n) == \E f \in [1..n -> Nat] : \A k \in 1..n : Step(f, k)
           S == {n \in Nat : Defined(n)}
<1>1. 1 \in S
  <2> DEFINE f == [k \in 1..1 |-> 0]
  <2>1. f \in [1..1 -> Nat] /\ \A k \in 1..1 : Step(f, k)
    OBVIOUS
  <2>2. QED BY <2>1
<1>2. ASSUME NEW n \in 1..Len(segment), n \in S PROVE n + 1 \in S
  <2>1. PICK f \in [1..n -> Nat] : \A k \in 1..n : Step(f, k)
    BY <1>2
  <2>2. NoteSpan(segment[n]) \in Nat
    BY SpanType
  <2> DEFINE g == [k \in 1..n + 1 |-> IF k = n + 1 THEN f[n] + NoteSpan(segment[n]) ELSE f[k]]
  <2>3. n \in Nat /\ n + 1 \in Nat /\ n \in 1..n
    OBVIOUS
  <2>4. g \in [1..n + 1 -> Nat]
    BY <2>2, <2>3
  <2>5. \A k \in 1..n + 1 : Step(g, k)
    BY <2>1, <2>3
  <2>6. Defined(n + 1)
    <3> HIDE DEF g
    <3>1. QED BY <2>4, <2>5
  <2>7. QED BY <2>3, <2>6
<1>3. Len(segment) + 1 \in S
  <2>1. Len(segment) \in Nat /\ Len(segment) + 1 \in 1..Len(segment) + 1
    OBVIOUS
  <2> HIDE DEF S
  <2>2. 1..Len(segment) + 1 \subseteq S
    BY <1>1, <1>2, <2>1, SetInduction
  <2>3. QED BY <2>1, <2>2
<1>4. PICK f \in [1..Len(segment) + 1 -> Nat] : \A k \in 1..Len(segment) + 1 : Step(f, k)
  BY <1>3
<1>5. BeginsAs(segment, f)
  BY <1>4 DEF BeginsAs
<1>6. QED BY <1>5

\* ... so Begins adds up the spans of the notes.
LEMMA BeginsStep ==
  ASSUME NEW segment \in Seq(Note)
  PROVE  /\ Begins(segment)[1] = 0
         /\ \A k \in 1..Len(segment) :
              Begins(segment)[k + 1] = Begins(segment)[k] + NoteSpan(segment[k])
<1>1. Begins(segment) = CHOOSE f : BeginsAs(segment, f)
  BY DEF Begins, BeginsAs
<1>2. BeginsAs(segment, Begins(segment))
  BY <1>1, BeginsExists, Zenon
<1>3. QED BY <1>2 DEF BeginsAs

\* Notes begin at increasing offsets, all before the end of the segment.
LEMMA BeginsGrows ==
  ASSUME NEW segment \in Seq(Note)
  PROVE  /\ \A k \in 1..Len(segment) + 1 : Begins(segment)[k] \in Nat
         /\ \A l \in 1..Len(segment) + 1 : \A k \in 1..l - 1 :
              Begins(segment)[k] < Begins(segment)[l]
<1> DEFINE b == Begins(segment)
           S == {l \in Nat : b[l] \in Nat /\ \A k \in 1..l - 1 : b[k] \in Nat /\ b[k] < b[l]}
<1>1. b[1] = 0 /\ \A k \in 1..Len(segment) : b[k + 1] = b[k] + NoteSpan(segment[k])
  BY BeginsStep
<1> HIDE DEF b
<1>2. 1 \in S
  BY <1>1
<1>3. ASSUME NEW n \in 1..Len(segment), n \in S PROVE n + 1 \in S
  <2>1. b[n + 1] = b[n] + NoteSpan(segment[n]) /\ NoteSpan(segment[n]) \in Nat
        /\ NoteSpan(segment[n]) > 0
    BY <1>1, SpanType
  <2>2. n \in Nat /\ b[n] \in Nat /\ \A k \in 1..n - 1 : b[k] \in Nat /\ b[k] < b[n]
    BY <1>3
  <2>3. b[n + 1] \in Nat /\ b[n] < b[n + 1]
    BY <2>1, <2>2
  <2>4. ASSUME NEW k \in 1..n PROVE b[k] \in Nat /\ b[k] < b[n + 1]
    <3>1. CASE k = n
      BY <2>2, <2>3, <3>1
    <3>2. CASE k # n
      <4>1. k \in 1..n - 1
        BY <2>2, <3>2
      <4>2. QED BY <2>2, <2>3, <4>1
    <3>3. QED BY <3>1, <3>2
  <2>5. n + 1 \in Nat /\ (n + 1) - 1 = n
    OBVIOUS
  <2>6. QED BY <2>3, <2>4, <2>5
<1>4. Len(segment) \in Nat
  OBVIOUS
<1>5. 1..Len(segment) + 1 \subseteq S
  <2> HIDE DEF S
  <2>1. QED BY <1>2, <1>3, <1>4, SetInduction
<1>6. QED BY <1>5 DEF b

\* At most one note begins at an offset.
LEMMA OneNote ==
  ASSUME NEW segment \in Seq(Note), NEW k \in 1..Len(segment) + 1, NEW l \in 1..Len(segment) + 1,
         Begins(segment)[k] <= Begins(segment)[l]
  PROVE  k <= l
<1>1. Begins(segment)[k] \in Nat /\ Begins(segment)[l] \in Nat
  BY BeginsGrows
<1>2. l < k => Begins(segment)[l] < Begins(segment)[k]
  <2>1. l < k => l \in 1..k - 1
    OBVIOUS
  <2>2. QED BY <2>1, BeginsGrows
<1>3. QED BY <1>1, <1>2

-----------------------------------------------------------------------------
(* Type correctness.                                                       *)

LEMMA Segments ==
  ASSUME TypeOK, NEW i \in 1..Len(object)
  PROVE  object[i] \in Seq(Note) /\ object[i] # <<>> /\ Len(object[i]) >= 1
         /\ Len(object) \in Nat
<1>1. object \in Seq(Seq(Note) \ {<<>>})
  BY ScanAssumption DEF TypeOK
<1>2. QED BY <1>1

LEMMA TypeOKStep == TypeOK /\ [Next]_vars => TypeOK'
<1> SUFFICES ASSUME TypeOK, [Next]_vars PROVE TypeOK'
  OBVIOUS
<1> USE ScanAssumption
<1>1. Len(object) \in Nat
  BY DEF TypeOK
<1>2. CASE EnterSegment
  BY <1>1, <1>2 DEF EnterSegment, TypeOK
<1>3. CASE ReadNote
  <2>1. PICK k \in NotesAt(object[j], offset) :
          /\ signature' = Found(object[j][k])
          /\ offset' = offset + Advance(object[j][k])
    BY <1>3 DEF ReadNote
  <2>2. object[j][k] \in Note
    <3>1. j \in 1..Len(object)
      BY <1>1, <1>3 DEF ReadNote, TypeOK
    <3>2. QED BY <2>1, <3>1, Segments DEF NotesAt
  <2>3. offset' \in Nat
    <3>1. Advance(object[j][k]) \in Nat /\ offset \in Nat
      BY <2>2, SpanType DEF TypeOK
    <3>2. QED BY <2>1, <3>1
  <2>4. signature' \in Stamps \cup {NULL}
    BY <2>1, <2>2 DEF Found, Note, TypeOK
  <2>5. QED BY <1>3, <2>3, <2>4 DEF ReadNote, TypeOK
<1>4. CASE ReadGarbage
  BY <1>4 DEF ReadGarbage, TypeOK
<1>5. CASE LeaveSegment
  <2>1. j \in 1..Len(object) + 1 /\ j <= Len(object) /\ j' = j + 1 /\ object' = object
    BY <1>5 DEF LeaveSegment, TypeOK
  <2>2. j' \in 1..Len(object) + 1
    BY <1>1, <2>1
  <2>3. QED BY <1>5, <2>1, <2>2 DEF LeaveSegment, TypeOK
<1>6. CASE Done \/ UNCHANGED vars
  BY <1>6 DEF Done, vars, TypeOK
<1>7. QED BY <1>2, <1>3, <1>4, <1>5, <1>6 DEF Next

LEMMA TypeOKInit == Init => TypeOK
<1> SUFFICES ASSUME Init PROVE TypeOK
  OBVIOUS
<1>1. Len(object) \in Nat
  BY ScanAssumption DEF Init
<1>2. 1 \in 1..Len(object) + 1
  BY <1>1
<1>3. QED BY <1>2 DEF Init, TypeOK

\* The type invariant holds for every object.
THEOREM TypeCorrect == Spec => []TypeOK
  BY TypeOKInit, TypeOKStep, PTL DEF Spec

-----------------------------------------------------------------------------
(* The signature reported.                                                 *)

\* The stamps of a segment that the scan is sure to come to.
ReachedIn(segment) ==
  {k \in DOMAIN segment : segment[k].stamp # NULL /\ Reached(segment, k)}

\* found is a stamp of the segment, and no reached one is behind it.
Reports(segment, found) ==
  IF found = NULL THEN ReachedIn(segment) = {}
  ELSE \E k \in DOMAIN segment :
         /\ segment[k].stamp = found
         /\ \A n \in ReachedIn(segment) : n <= k

\* The scan is where a note at or before the n-th begins.
Ahead(segment, n) == \E m \in 1..n : Begins(segment)[m] = offset

\* Within a segment: of the reached stamps, those that are not ahead are not
\* behind the one found.
FoundSoFar(segment) ==
  IF signature = NULL THEN \A n \in ReachedIn(segment) : Ahead(segment, n)
  ELSE \E k \in DOMAIN segment :
         /\ segment[k].stamp = signature
         /\ Begins(segment)[k] < offset
         /\ \A n \in ReachedIn(segment) : n <= k \/ Ahead(segment, n)

ScanInv ==
  /\ scanning => FoundSoFar(object[j])
  /\ scanning /\ offset > 0 => so_signature = signature
  /\ ~scanning /\ j > 1 => Reports(object[j-1], so_signature)

\* The scan begins where the first note does: every reached stamp is ahead.
LEMMA ScanInvEnter ==
  ASSUME TypeOK, EnterSegment
  PROVE  ScanInv'
<1>1. PICK i \in 1..Len(object) : i = j /\ i = j' /\ object' = object
  BY ScanAssumption DEF EnterSegment, TypeOK
<1>2. scanning' = TRUE /\ offset' = 0 /\ signature' = NULL
  BY DEF EnterSegment
<1>3. object[i] \in Seq(Note)
  BY Segments
<1>4. Begins(object[i])[1] = 0
  BY <1>3, BeginsStep
<1>5. ASSUME NEW n \in ReachedIn(object[i]) PROVE \E m \in 1..n : Begins(object[i])[m] = 0
  <2>1. n \in Nat /\ n >= 1
    BY <1>3 DEF ReachedIn
  <2>2. QED BY <1>4, <2>1
<1>6. FoundSoFar(object[j])'
  BY <1>1, <1>2, <1>5 DEF FoundSoFar, Ahead, ReachedIn
<1>7. QED BY <1>2, <1>6 DEF ScanInv

\* A stamp ahead of the scan when it reads a note is that note's, or is ahead
\* after it: the notes before a reached one need no padding.
LEMMA StillAhead ==
  ASSUME NEW segment \in Seq(Note), NEW at \in Nat, NEW k \in NotesAt(segment, at),
         NEW n \in ReachedIn(segment), NEW m \in 1..n, Begins(segment)[m] = at
  PROVE  n = k \/ (n > k /\ \E l \in 1..n : Begins(segment)[l] = at + Advance(segment[k]))
<1>1. k \in 1..Len(segment) /\ n \in 1..Len(segment) /\ m \in 1..Len(segment)
      /\ Len(segment) \in Nat
  BY DEF NotesAt, ReachedIn
<1>2. Begins(segment)[k] = at
  BY DEF NotesAt
<1>3. k = m
  <2>1. k \in 1..Len(segment) + 1 /\ m \in 1..Len(segment) + 1
    BY <1>1
  <2>2. k <= m /\ m <= k
    BY <1>2, <2>1, OneNote
  <2>3. QED BY <1>1, <2>2
<1>4. CASE k < n
  <2>1. k \in 1..n - 1
    BY <1>1, <1>4
  <2>2. Advance(segment[k]) = NoteSpan(segment[k])
    BY <2>1 DEF ReachedIn, Reached
  <2>3. Begins(segment)[k + 1] = at + Advance(segment[k])
    BY <1>1, <1>2, <2>2, BeginsStep
  <2>4. k + 1 \in 1..n
    BY <1>1, <1>4
  <2>5. QED BY <1>1, <1>4, <2>3, <2>4
<1>5. QED BY <1>1, <1>3, <1>4

LEMMA ScanInvReadNote ==
  ASSUME TypeOK, ScanInv, ReadNote
  PROVE  ScanInv'
<1>1. PICK i \in 1..Len(object) : i = j /\ i = j' /\ object' = object
  BY ScanAssumption DEF ReadNote, TypeOK
<1> DEFINE segment == object[i]
<1>2. segment \in Seq(Note)
  BY Segments
<1>3. PICK k \in NotesAt(segment, offset) :
        /\ signature' = Found(segment[k])
        /\ offset' = offset + Advance(segment[k])
  BY <1>1 DEF ReadNote
<1>4. scanning /\ scanning' /\ so_signature' = signature'
  BY DEF ReadNote
<1>5. FoundSoFar(segment)
  BY <1>1, <1>4 DEF ScanInv
<1> HIDE DEF segment
<1>6. k \in DOMAIN segment /\ k \in 1..Len(segment) /\ Len(segment) \in Nat
      /\ segment[k] \in Note /\ Begins(segment)[k] = offset
  BY <1>2 DEF NotesAt
<1>7. Advance(segment[k]) \in Nat /\ Advance(segment[k]) > 0 /\ offset \in Nat
  BY <1>6, SpanType DEF TypeOK
<1>8. ASSUME NEW n \in ReachedIn(segment), Ahead(segment, n)
      PROVE  n = k \/ (n > k /\ \E l \in 1..n : Begins(segment)[l] = offset')
  BY <1>2, <1>3, <1>7, <1>8, StillAhead DEF Ahead
<1>9. \A n \in ReachedIn(segment) : n \in 1..Len(segment) /\ segment[n].stamp # NULL
  BY <1>2 DEF ReachedIn
<1>10. CASE segment[k].stamp # NULL
  <2>1. signature' = segment[k].stamp /\ signature' # NULL
    BY <1>3, <1>10 DEF Found
  <2>2. Begins(segment)[k] < offset'
    BY <1>3, <1>6, <1>7
  <2>3. ASSUME NEW n \in ReachedIn(segment)
        PROVE  n <= k \/ \E l \in 1..n : Begins(segment)[l] = offset'
    <3>1. CASE Ahead(segment, n)
      BY <1>6, <1>8, <1>9, <3>1
    <3>2. CASE ~Ahead(segment, n)
      <4>1. PICK p \in DOMAIN segment : Begins(segment)[p] < offset /\ n <= p
        BY <1>5, <3>2 DEF FoundSoFar
      <4>2. p \in 1..Len(segment) + 1 /\ k \in 1..Len(segment) + 1
        BY <1>2, <1>6
      <4>3. Begins(segment)[p] <= Begins(segment)[k]
        BY <1>2, <1>6, <1>7, <4>1, <4>2, BeginsGrows
      <4>4. p <= k
        BY <1>2, <4>2, <4>3, OneNote
      <4>5. QED BY <1>6, <1>9, <4>1, <4>2, <4>4
    <3>3. QED BY <3>1, <3>2
  <2>4. QED BY <1>1, <1>4, <1>6, <2>1, <2>2, <2>3
            DEF ScanInv, FoundSoFar, Ahead, ReachedIn, segment
<1>11. CASE segment[k].stamp = NULL
  <2>1. signature' = signature
    BY <1>3, <1>11 DEF Found
  <2>2. ASSUME NEW n \in ReachedIn(segment), Ahead(segment, n)
        PROVE  \E l \in 1..n : Begins(segment)[l] = offset'
    BY <1>8, <1>9, <1>11, <2>2
  <2>3. CASE signature = NULL
    <3>1. \A n \in ReachedIn(segment) : \E l \in 1..n : Begins(segment)[l] = offset'
      BY <1>5, <2>2, <2>3 DEF FoundSoFar
    <3>2. QED BY <1>1, <1>4, <2>1, <2>3, <3>1 DEF ScanInv, FoundSoFar, Ahead, ReachedIn, segment
  <2>4. CASE signature # NULL
    <3>1. PICK p \in DOMAIN segment :
            /\ segment[p].stamp = signature
            /\ Begins(segment)[p] < offset
            /\ \A n \in ReachedIn(segment) : n <= p \/ Ahead(segment, n)
      BY <1>5, <2>4 DEF FoundSoFar
    <3>2. Begins(segment)[p] < offset'
      <4>1. Begins(segment)[p] \in Nat
        BY <1>2, BeginsGrows
      <4>2. QED BY <1>3, <1>7, <3>1, <4>1
    <3>3. \A n \in ReachedIn(segment) : n <= p \/ \E l \in 1..n : Begins(segment)[l] = offset'
      BY <2>2, <3>1
    <3>4. QED BY <1>1, <1>4, <2>1, <2>4, <3>1, <3>2, <3>3
              DEF ScanInv, FoundSoFar, Ahead, ReachedIn, segment
  <2>5. QED BY <2>3, <2>4
<1>12. QED BY <1>10, <1>11

\* Where no note begins, no stamp is ahead, and none will be.
LEMMA ScanInvReadGarbage ==
  ASSUME TypeOK, ScanInv, ReadGarbage
  PROVE  ScanInv'
<1>1. PICK i \in 1..Len(object) : i = j /\ i = j' /\ object' = object
  BY ScanAssumption DEF ReadGarbage, TypeOK
<1> DEFINE segment == object[i]
<1>2. segment \in Seq(Note)
  BY Segments
<1>3. /\ scanning /\ scanning' /\ signature' = signature /\ so_signature' = signature'
      /\ NotesAt(segment, offset) = {}
      /\ FoundSoFar(segment)
  BY <1>1 DEF ReadGarbage, ScanInv
<1>4. offset \in Nat /\ offset' \in Nat /\ offset' > offset
  BY ScanAssumption DEF ReadGarbage, TypeOK
<1> HIDE DEF segment
<1>5. ASSUME NEW n \in ReachedIn(segment) PROVE ~Ahead(segment, n)
  <2>1. \A m \in 1..n : m \in DOMAIN segment
    BY <1>2 DEF ReachedIn
  <2>2. QED BY <1>3, <2>1 DEF Ahead, NotesAt
<1>6. CASE signature = NULL
  <2>1. ReachedIn(segment) = {}
    BY <1>3, <1>5, <1>6 DEF FoundSoFar
  <2>2. QED BY <1>1, <1>3, <1>6, <2>1 DEF ScanInv, FoundSoFar, ReachedIn, segment
<1>7. CASE signature # NULL
  <2>1. PICK p \in DOMAIN segment :
          /\ segment[p].stamp = signature
          /\ Begins(segment)[p] < offset
          /\ \A n \in ReachedIn(segment) : n <= p
    BY <1>3, <1>5, <1>7 DEF FoundSoFar
  <2>2. Begins(segment)[p] < offset'
    <3>1. Begins(segment)[p] \in Nat
      BY <1>2, BeginsGrows
    <3>2. QED BY <1>4, <2>1, <3>1
  <2>3. QED BY <1>1, <1>3, <1>7, <2>1, <2>2 DEF ScanInv, FoundSoFar, ReachedIn, segment
<1>8. QED BY <1>6, <1>7

\* All notes begin before the end of the segment, so none is ahead there; a
\* segment has a note, so the scan has read something in it.
LEMMA ScanInvLeave ==
  ASSUME TypeOK, ScanInv, LeaveSegment
  PROVE  ScanInv'
<1>1. PICK i \in 1..Len(object) : i = j /\ j' = i + 1 /\ object' = object
  BY ScanAssumption DEF LeaveSegment, TypeOK
<1> DEFINE segment == object[i]
<1>2. segment \in Seq(Note) /\ Len(segment) >= 1 /\ Len(segment) \in Nat
  BY Segments
<1>3. /\ scanning /\ ~scanning' /\ so_signature' = so_signature
      /\ offset >= Begins(segment)[Len(segment) + 1]
      /\ FoundSoFar(segment) /\ offset \in Nat
  BY <1>1 DEF LeaveSegment, ScanInv, MemSz, TypeOK
<1>4. object[j - 1]' = segment
  BY <1>1
<1>5. offset > 0 => so_signature = signature
  BY <1>3 DEF ScanInv
<1> HIDE DEF segment
<1>6. ASSUME NEW n \in 1..Len(segment)
      PROVE  Begins(segment)[n] \in Nat /\ Begins(segment)[n] < offset
  <2>1. n \in 1..(Len(segment) + 1) - 1 /\ Len(segment) + 1 \in 1..Len(segment) + 1
        /\ n \in 1..Len(segment) + 1
    BY <1>2
  <2>2. /\ Begins(segment)[n] < Begins(segment)[Len(segment) + 1]
        /\ Begins(segment)[n] \in Nat /\ Begins(segment)[Len(segment) + 1] \in Nat
    BY <1>2, <2>1, BeginsGrows
  <2>3. QED BY <1>3, <2>2
<1>7. offset > 0
  BY <1>2, <1>3, <1>6
<1>8. ASSUME NEW n \in ReachedIn(segment) PROVE ~Ahead(segment, n)
  <2>1. \A m \in 1..n : m \in 1..Len(segment)
    BY <1>2 DEF ReachedIn
  <2>2. \A m \in 1..n : Begins(segment)[m] # offset
    BY <1>3, <1>6, <2>1
  <2>3. QED BY <2>2 DEF Ahead
<1>9. Reports(segment, signature)
  BY <1>3, <1>8 DEF FoundSoFar, Reports
<1>10. Reports(segment, so_signature')
  BY <1>3, <1>5, <1>7, <1>9
<1>11. QED BY <1>3, <1>4, <1>10 DEF ScanInv, Reports, ReachedIn

LEMMA ScanInvStep == TypeOK /\ ScanInv /\ [Next]_vars => ScanInv'
<1> SUFFICES ASSUME TypeOK, ScanInv, [Next]_vars PROVE ScanInv'
  OBVIOUS
<1>1. CASE Done \/ UNCHANGED vars
  BY <1>1 DEF Done, vars, ScanInv, FoundSoFar, Ahead, Reports, ReachedIn
<1>2. QED BY <1>1, ScanInvEnter, ScanInvReadNote, ScanInvReadGarbage, ScanInvLeave DEF Next

\* When all segments are scanned, the last one's report stands.
LEMMA Reported ==
  ASSUME TypeOK, ScanInv, Finished, object # <<>>
  PROVE  Reports(object[Len(object)], so_signature)
<1>1. object \in Seq(Seq(Note) \ {<<>>})
  BY ScanAssumption DEF TypeOK
<1>2. Len(object) \in Nat /\ Len(object) >= 1
  BY <1>1
<1>3. j = Len(object) + 1 /\ ~scanning
  BY <1>2 DEF TypeOK, Finished
<1>4. j - 1 = Len(object) /\ j > 1
  BY <1>2, <1>3
<1>5. QED BY <1>3, <1>4 DEF ScanInv

LEMMA ScanInvAlways == Spec => [](TypeOK /\ ScanInv)
<1>1. Init => ScanInv
  BY DEF Init, ScanInv
<1>2. QED BY <1>1, TypeOKInit, TypeOKStep, ScanInvStep, PTL DEF Spec

\* What is reported of an object is a stamp of its last segment, or NULL.
THEOREM SignatureIsAStampCorrect == Spec => []SignatureIsAStamp
<1>1. TypeOK /\ ScanInv => SignatureIsAStamp
  <2> SUFFICES ASSUME TypeOK, ScanInv, Finished, object # <<>>
               PROVE  so_signature \in StampsOf(object[Len(object)]) \cup {NULL}
    BY DEF SignatureIsAStamp
  <2>1. QED BY Reported DEF Reports, StampsOf
<1>2. QED BY <1>1, ScanInvAlways, PTL

\* A stamp that only notes without padding precede is found, unless a later one
\* replaces it.
THEOREM ReachedStampReportedCorrect == Spec => []ReachedStampReported
<1>1. TypeOK /\ ScanInv => ReachedStampReported
  <2> SUFFICES ASSUME TypeOK, ScanInv, Finished, object # <<>>,
                      ReachedIn(object[Len(object)]) # {}
               PROVE  \E k \in DOMAIN object[Len(object)] :
                        /\ object[Len(object)][k].stamp = so_signature
                        /\ so_signature # NULL
                        /\ \A n \in ReachedIn(object[Len(object)]) : n <= k
    BY DEF ReachedStampReported, ReachedIn
  <2>1. QED BY Reported DEF Reports
<1>2. QED BY <1>1, ScanInvAlways, PTL
=============================================================================

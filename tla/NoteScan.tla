------------------------------ MODULE NoteScan ------------------------------
(***************************************************************************)
(* How the preload library reads the OGRT signature of one loaded object   *)
(* from memory: handle_program_header and read_signature in                *)
(* client/src/ogrt-readso.c.                                               *)
(*                                                                         *)
(* An object is the sequence of its PT_NOTE segments (other segments are   *)
(* skipped), a segment the sequence of its notes.  Notes begin at multiples*)
(* of 4 bytes: the name and the descriptor of a note are padded.  The scan *)
(* starts at each segment and adds the sizes in the headers, not padded,   *)
(* to its offset, so that it may come to read a header where none is.      *)
(* What it finds there is not an OGRT note: the bytes of the type occur    *)
(* nowhere else.  The sizes it finds there are arbitrary.                  *)
(***************************************************************************)
EXTENDS Naturals, Sequences

CONSTANTS
  Objects,  \* the objects that may be loaded
  Stamps,   \* the uuids in OGRT notes of the supported version
  Strides,  \* what the sizes may add up to where there is no header
  NULL

\* The header of a note: name_size, desc_size and type.
HeaderSize == 12

Note == [name_size : Nat, desc_size : Nat, stamp : Stamps \cup {NULL}]

ASSUME ScanAssumption ==
  /\ NULL \notin Stamps
  /\ Objects \subseteq Seq(Seq(Note) \ {<<>>})
  /\ Strides \subseteq Nat \ {0}

Padded(size) == ((size + 3) \div 4) * 4

NoteSpan(note) == HeaderSize + Padded(note.name_size) + Padded(note.desc_size)

\* Where each note of a segment begins, and where the segment ends (p_memsz).
Begins(segment) ==
  LET at[k \in 1..Len(segment) + 1] ==
        IF k = 1 THEN 0 ELSE at[k-1] + NoteSpan(segment[k-1])
  IN at

MemSz(segment) == Begins(segment)[Len(segment) + 1]

\* The notes of a segment that begin at an offset: one, or none.
NotesAt(segment, at) == {k \in DOMAIN segment : Begins(segment)[k] = at}

VARIABLES
  object,        \* the object that is scanned
  j,             \* the PT_NOTE segment the scan is at
  scanning,      \* it is within that segment
  offset,        \* where in it
  signature,     \* the local variable
  so_signature   \* shared_object->signature

vars == <<object, j, scanning, offset, signature, so_signature>>

Init ==
  /\ object \in Objects
  /\ j = 1
  /\ scanning = FALSE
  /\ offset = 0
  /\ signature = NULL
  /\ so_signature = NULL

\* Faulty variant: signature is not set to NULL again.
EnterSegmentKeeping ==
  /\ j <= Len(object)
  /\ ~scanning
  /\ scanning' = TRUE
  /\ offset' = 0
  /\ UNCHANGED <<object, j, signature, so_signature>>

EnterSegment ==
  /\ j <= Len(object)
  /\ ~scanning
  /\ scanning' = TRUE
  /\ offset' = 0
  /\ signature' = NULL
  /\ UNCHANGED <<object, j, so_signature>>

\* Faulty variant: the size of the header is forgotten.
AdvanceShort(note) == note.name_size + note.desc_size

\* What read_signature returns.
Advance(note) == note.desc_size + note.name_size + HeaderSize

\* Faulty variant: any note replaces the signature found before.
FoundLast(note) == note.stamp

\* An OGRT note of the supported version sets signature, others leave it.
Found(note) == IF note.stamp = NULL THEN signature ELSE note.stamp

\* read_signature on a note.
ReadNote ==
  /\ scanning
  /\ offset < MemSz(object[j])
  /\ \E k \in NotesAt(object[j], offset) :
       /\ signature' = Found(object[j][k])
       /\ offset' = offset + Advance(object[j][k])
  /\ so_signature' = signature'
  /\ UNCHANGED <<object, j, scanning>>

\* read_signature where no note begins, perhaps past the end of the segment.
ReadGarbage ==
  /\ scanning
  /\ offset < MemSz(object[j])
  /\ NotesAt(object[j], offset) = {}
  /\ \E stride \in Strides : offset' = offset + stride
  /\ so_signature' = signature
  /\ UNCHANGED <<object, j, scanning, signature>>

\* Faulty variant: the scan does not know it left.
LeaveSegmentScanning ==
  /\ scanning
  /\ offset >= MemSz(object[j])
  /\ j' = j + 1
  /\ UNCHANGED <<object, scanning, offset, signature, so_signature>>

LeaveSegment ==
  /\ scanning
  /\ offset >= MemSz(object[j])
  /\ scanning' = FALSE
  /\ j' = j + 1
  /\ UNCHANGED <<object, offset, signature, so_signature>>

Done == j > Len(object) /\ UNCHANGED vars

Next == EnterSegment \/ ReadNote \/ ReadGarbage \/ LeaveSegment \/ Done

Spec == Init /\ [][Next]_vars

-----------------------------------------------------------------------------
(* Properties.                                                             *)

\* The type invariant.
TypeOK ==
  /\ object \in Objects
  /\ j \in 1..Len(object) + 1
  /\ scanning \in BOOLEAN /\ (scanning => j <= Len(object))
  /\ offset \in Nat
  /\ signature \in Stamps \cup {NULL}
  /\ so_signature \in Stamps \cup {NULL}

StampsOf(segment) == {segment[k].stamp : k \in DOMAIN segment} \ {NULL}

Finished == j > Len(object)

\* Garbage never becomes a signature: the one reported is a stamp of the last
\* PT_NOTE segment of the object (an earlier segment's is forgotten), or NULL.
SignatureIsAStamp ==
  Finished /\ object # <<>> =>
    so_signature \in StampsOf(object[Len(object)]) \cup {NULL}

\* Nothing before the note has a size that needs padding.
Reached(segment, k) ==
  \A n \in 1..k-1 : Advance(segment[n]) = NoteSpan(segment[n])

\* A stamp of the last segment that only notes without padding precede is
\* found, and a later one that the scan also reaches replaces it.
ReachedStampReported ==
  Finished /\ object # <<>> =>
    LET last == object[Len(object)]
        reached == {k \in DOMAIN last : last[k].stamp # NULL /\ Reached(last, k)}
    IN  reached # {} =>
          \E k \in DOMAIN last :
            /\ last[k].stamp = so_signature
            /\ so_signature # NULL
            /\ \A n \in reached : n <= k
=============================================================================

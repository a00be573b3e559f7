----------------------------- MODULE MCNoteScan -----------------------------
(* Instances of NoteScan for TLC.                                          *)
EXTENDS NoteScan

CONSTANTS u1, u2

\* The notes of real objects: what ogrt --generate-signature makes (38 bytes
\* with its version and uuid, named OGRT), GNU build ids and ABI tags, and a
\* note whose name is padded.
Stamp(u)  == [name_size |-> 5, desc_size |-> 38, stamp |-> u]
BuildId   == [name_size |-> 4, desc_size |-> 20, stamp |-> NULL]
AbiTag    == [name_size |-> 4, desc_size |-> 16, stamp |-> NULL]
OddName   == [name_size |-> 3, desc_size |-> 4, stamp |-> NULL]

Notes == {Stamp(u1), Stamp(u2), BuildId, OddName}

SegmentsUpTo(n) == UNION {[1..k -> Notes] : k \in 1..n}

OneSegment  == {<<s>> : s \in SegmentsUpTo(3)}
TwoSegments == {<<s, t>> : s \in SegmentsUpTo(2), t \in SegmentsUpTo(2)}
Real        == {<< <<AbiTag, BuildId>>, <<Stamp(u1)>> >>,
                << <<Stamp(u1)>>, <<AbiTag, BuildId>> >>,
                << <<BuildId, AbiTag, Stamp(u1)>> >>}
AllObjects  == OneSegment \cup TwoSegments \cup Real \cup {<<>>}

\* Within the note, to the next ones, and past the end.
AllStrides == {1, 5, 12, 200}
=============================================================================

---------------------------- MODULE MCCommandLine ---------------------------
(* Model checking of CommandLine: every line of up to MaxWords words of every  *)
(* kind, longer ones of the words that make operands move, some ELF files.     *)
EXTENDS CommandLine

CONSTANTS MaxWords, MaxMoves

AWord(kind, opts, exact, value, letter) ==
  [kind |-> kind, opts |-> opts, exact |-> exact, value |-> value, letter |-> letter]

operand == AWord("operand", {}, FALSE, FALSE, NULL)
dashes  == AWord("dashes", {}, FALSE, FALSE, NULL)
long(o, exact, value) == AWord("long", {o}, exact, value, NULL)
short(letter) == AWord("short", {}, FALSE, FALSE, letter)

generate == long(Generate, TRUE, FALSE)
show     == long(Show, FALSE, FALSE)

Movers == {operand, dashes, generate, show}

Words == Movers \cup
  { long(Generate, FALSE, TRUE), long(Show, TRUE, TRUE), long(1, FALSE, FALSE), long(2, TRUE, FALSE),
    AWord("long", {}, FALSE, FALSE, NULL), AWord("long", 1..4, FALSE, TRUE, NULL),
    short("h"), short("V"), short(NULL) }

MCInputs == UNION {[1..n -> Words] : n \in 0..MaxWords}
              \cup UNION {[1..n -> Movers] : n \in 0..MaxMoves}

Sec(note, uuid) == [note |-> note, uuid |-> uuid]

\* Without notes, with another note before the one of OGRT, and, for short
\* lines, with so many notes that their number does not fit in an exit status.
MCElfs ==
  [input \in MCInputs |->
     {<<>>, <<Sec(TRUE, NULL), Sec(FALSE, NULL), Sec(TRUE, "u1")>>}
       \cup IF Len(input) <= 2 THEN {[n \in 1..257 |-> Sec(TRUE, "u1")]} ELSE {}]
=============================================================================

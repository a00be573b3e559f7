---------------------------- MODULE CommandLine -----------------------------
(***************************************************************************)
(* The command line tool ogrt: its option parser (cmdline_parser_internal  *)
(* and the getopt_long it carries, client/src/ogrt-cmdline.c), and what    *)
(* main does with the options (client/src/ogrt-cli.c).                     *)
(*                                                                         *)
(* getopt moves the operands it meets behind the options, so argv is a     *)
(* permutation: argv[n] is the place at which the word now at n was given. *)
(* A word is what the parser tells apart of it.  The letters of a word of  *)
(* short options are h, V or invalid; each of them ends the program, so    *)
(* only the first letter counts, and nextchar never outlives a call.       *)
(***************************************************************************)
EXTENDS Integers, Sequences, FiniteSets

CONSTANTS
  Inputs,  \* the command lines, each a sequence of words
  Elfs,    \* of a command line: the ELF files it may be to show, each a sequence of sections
  NULL

\* The array long_options, and optstring.
LongOptions ==
  << [name |-> "help",               has_arg |-> FALSE, val |-> "h"],
     [name |-> "version",            has_arg |-> FALSE, val |-> "V"],
     [name |-> "generate-signature", has_arg |-> FALSE, val |-> "0"],
     [name |-> "show-signature",     has_arg |-> TRUE,  val |-> "0"] >>

OptString == {"h", "V"}
Generate  == 3
Show      == 4

\* A word: an operand, "--", or an option.  opts are the long options that
\* its name is a prefix of, the only one if exact; value: it has "=value".
Word == [kind : {"operand", "dashes", "long", "short"},
         opts : SUBSET DOMAIN LongOptions, exact : BOOLEAN, value : BOOLEAN,
         letter : OptString \cup {NULL}]

\* A section: of type SHT_NOTE or not, and the uuid of its first note, NULL if
\* that is not an OGRT note.
Section == [note : BOOLEAN, uuid : STRING \cup {NULL}]

ASSUME CommandLineAssumption ==
  /\ NULL \notin OptString \cup {LongOptions[o].name : o \in DOMAIN LongOptions}
  /\ Inputs \subseteq Seq(Word)
  /\ \A input \in Inputs : \A k \in DOMAIN input :
       input[k].exact => \E o \in DOMAIN LongOptions : input[k].opts = {o}
  /\ \A input \in Inputs : Elfs[input] \subseteq Seq(Section)

VARIABLES
  pc,            \* where the program is
  given,         \* the words, as given
  argv,          \* the places at which the words now in argv were given
  optind,        \* custom_optind
  first_nonopt,  \* the operands skipped so far are those from here ...
  last_nonopt,   \* ... to before here
  bottom, top,   \* the local variables of exchange
  before,        \* history: argv when exchange was called
  rest,          \* "--" was found
  option,        \* the long option found
  optarg,        \* where its argument was given, 0 for NULL
  args_info,     \* what the parser tells main
  local_given,   \* local_args_info: how often each option was given
  stdout,        \* what was printed
  file, scn,     \* the ELF file to show, and the section to read next
  status         \* the exit status, -1 before

indices == <<optind, first_nonopt, last_nonopt>>
swap    == <<bottom, top, before>>
found   == <<option, optarg>>
parsed  == <<args_info, local_given>>
reading == <<file, scn>>
vars == <<pc, given, argv, indices, swap, rest, found, parsed, stdout, reading, status>>

argc == Len(given) + 1
Places == 0..argc - 1

\* The word now at argv[n].
WordAt(n) == given[argv[n]]

\* NONOPTION_P.
Operand(n) == WordAt(n).kind = "operand"

\* clear_given and clear_args.
Cleared == [given |-> [o \in {Generate, Show} |-> 0], show_signature_arg |-> 0,
            link_info_mode_counter |-> 0]

Init ==
  /\ pc = "start"
  /\ given \in Inputs
  /\ argv = [n \in Places |-> n]
  /\ optind = 0
  /\ first_nonopt = 0 /\ last_nonopt = 0
  /\ bottom = 0 /\ top = 0 /\ before = argv
  /\ rest = FALSE
  /\ option = 0 /\ optarg = 0
  /\ args_info = Cleared
  /\ local_given = Cleared.given
  /\ stdout = <<>>
  /\ file = <<>> /\ scn = 1
  /\ status = -1

Exit(code) == pc' = "exit" /\ status' = code

\* cmdline_parser_release of local_args_info.
Release == local_given' = Cleared.given

\* cmdline_parser2 on EXIT_FAILURE.
ParserFails == args_info' = Cleared /\ Exit(1)

\* label failure of cmdline_parser_internal.
Fail ==
  /\ Release
  /\ ParserFails
  /\ UNCHANGED <<given, argv, first_nonopt, last_nonopt, swap, rest, stdout, reading>>

-----------------------------------------------------------------------------
(* getopt_long: the operands.                                              *)

\* custom_optind is 0 on the first call: start at argv[1].
GetoptInitialize ==
  /\ pc = "start"
  /\ optind' = 1 /\ first_nonopt' = 1 /\ last_nonopt' = 1
  /\ pc' = "shuffle"
  /\ UNCHANGED <<given, argv, swap, rest, found, parsed, stdout, reading, status>>

Exchange(from) ==
  /\ pc' = "exchange"
  /\ bottom' = first_nonopt
  /\ top' = from
  /\ before' = argv

\* Faulty variant: operands that options followed are forgotten.
ShuffleForgetting ==
  /\ pc = "shuffle"
  /\ pc' = "skip"
  /\ first_nonopt' = IF last_nonopt # optind THEN optind ELSE first_nonopt
  /\ UNCHANGED <<given, argv, optind, last_nonopt, swap, rest, parsed, stdout, reading, status>>
  /\ option' = 0 /\ optarg' = 0

\* shuffle_argv up to the call of exchange: options have followed operands.
Shuffle ==
  /\ pc = "shuffle"
  /\ IF first_nonopt # last_nonopt /\ last_nonopt # optind
     THEN /\ Exchange(optind)
          /\ UNCHANGED first_nonopt
     ELSE /\ pc' = "skip"
          /\ first_nonopt' = IF last_nonopt # optind THEN optind ELSE first_nonopt
          /\ UNCHANGED swap
  /\ option' = 0 /\ optarg' = 0
  /\ UNCHANGED <<given, argv, optind, last_nonopt, rest, parsed, stdout, reading, status>>

\* The loops over i in exchange: len elements from a and from b change places.
Swapped(a, b, len) ==
  [n \in Places |->
     IF n \in a..a + len - 1 THEN argv[b + (n - a)]
     ELSE IF n \in b..b + len - 1 THEN argv[a + (n - b)]
     ELSE argv[n]]

BottomLen == last_nonopt - bottom
TopLen    == top - last_nonopt

\* The shorter segment, at the bottom, goes to the end of the longer one.
ExchangeShortBottom ==
  /\ pc = "exchange"
  /\ BottomLen > 0 /\ TopLen > BottomLen
  /\ argv' = Swapped(bottom, top - BottomLen, BottomLen)
  /\ top' = top - BottomLen
  /\ UNCHANGED <<pc, given, indices, bottom, before, rest, found, parsed, stdout, reading, status>>

\* Faulty variant: the wrong end of the longer segment.
ExchangeShortTopAbove ==
  /\ pc = "exchange"
  /\ TopLen > 0 /\ BottomLen > 0 /\ TopLen <= BottomLen
  /\ argv' = Swapped(last_nonopt - TopLen, last_nonopt, TopLen)
  /\ bottom' = bottom + TopLen
  /\ UNCHANGED <<pc, given, indices, top, before, rest, found, parsed, stdout, reading, status>>

\* Faulty variant: the moved top segment is not excluded.
ExchangeShortTopAgain ==
  /\ pc = "exchange"
  /\ TopLen > 0 /\ BottomLen > 0 /\ TopLen <= BottomLen
  /\ argv' = Swapped(bottom, last_nonopt, TopLen)
  /\ UNCHANGED <<pc, given, indices, swap, rest, found, parsed, stdout, reading, status>>

\* The shorter segment, at the top, goes to the beginning of the longer one.
ExchangeShortTop ==
  /\ pc = "exchange"
  /\ TopLen > 0 /\ BottomLen > 0 /\ TopLen <= BottomLen
  /\ argv' = Swapped(bottom, last_nonopt, TopLen)
  /\ bottom' = bottom + TopLen
  /\ UNCHANGED <<pc, given, indices, top, before, rest, found, parsed, stdout, reading, status>>

Exchanged == BottomLen <= 0 \/ TopLen <= 0

\* exchange returns: the operands are behind the options; behind "--" all are.
ExchangeReturns ==
  /\ pc = "exchange"
  /\ Exchanged
  /\ first_nonopt' = first_nonopt + (optind - last_nonopt)
  /\ last_nonopt' = IF rest THEN argc ELSE optind
  /\ optind' = IF rest THEN argc ELSE optind
  /\ pc' = IF rest THEN "stop" ELSE "skip"
  /\ UNCHANGED <<given, argv, swap, rest, found, parsed, stdout, reading, status>>

\* shuffle_argv goes on to the next word that is no operand.
SkipOperands ==
  /\ pc = "skip"
  /\ \E n \in optind..argc :
       /\ \A k \in optind..n - 1 : Operand(k)
       /\ n < argc => ~Operand(n)
       /\ optind' = n
       /\ last_nonopt' = n
       /\ pc' = IF n = argc THEN "stop"
                ELSE IF WordAt(n).kind = "dashes" THEN "dashes" ELSE "option"
  /\ UNCHANGED <<given, argv, first_nonopt, swap, rest, found, parsed, stdout, reading, status>>

\* "--": it is put before the operands like an option, the rest are operands.
EndOfOptions ==
  /\ pc = "dashes"
  /\ rest' = TRUE
  /\ IF first_nonopt # last_nonopt
     THEN /\ optind' = optind + 1
          /\ Exchange(optind + 1)
          /\ UNCHANGED <<first_nonopt, last_nonopt>>
     ELSE /\ first_nonopt' = optind + 1
          /\ last_nonopt' = argc
          /\ optind' = argc
          /\ pc' = "stop"
          /\ UNCHANGED swap
  /\ UNCHANGED <<given, argv, found, parsed, stdout, reading, status>>

\* All of argv is scanned: getopt_long returns -1, and the parser 0.
Stop ==
  /\ pc = "stop"
  /\ optind' = IF first_nonopt # last_nonopt THEN first_nonopt ELSE optind
  /\ Release
  /\ pc' = "main"
  /\ UNCHANGED <<given, argv, first_nonopt, last_nonopt, swap, rest, found,
                 args_info, stdout, reading, status>>

-----------------------------------------------------------------------------
(* getopt_long: an option, and what the parser makes of it.                *)

\* The word that shuffle_argv stopped at, and the long option it names.
OptionWord == WordAt(optind)

FirstMatch(opts) == CHOOSE o \in opts : \A p \in opts : o <= p

Named == LongOptions[FirstMatch(OptionWord.opts)]

\* The matches differ in more than their names, and none is exact.
Ambiguous(word) ==
  /\ ~word.exact
  /\ \E o, p \in word.opts :
       <<LongOptions[o].has_arg, LongOptions[o].val>> #
         <<LongOptions[p].has_arg, LongOptions[p].val>>

\* Faulty variant: the word of the option counts as its argument's.
ArgumentFollowsItself == optind < argc

\* A word is left to be the argument of the option.
ArgumentFollows == optind + 1 < argc

ArgumentAt(n) == IF n < argc THEN argv[n] ELSE 0

\* One option is named, with a value only if it takes one, and if it takes one
\* with a value or a word to take.
LongValid ==
  /\ OptionWord.opts # {}
  /\ ~Ambiguous(OptionWord)
  /\ OptionWord.value => Named.has_arg
  /\ Named.has_arg => OptionWord.value \/ ArgumentFollows

\* check_long_opt returns '?'.
LongInvalid ==
  /\ pc = "option" /\ OptionWord.kind = "long"
  /\ ~LongValid
  /\ optind' = optind + 1
  /\ Fail
  /\ UNCHANGED found

\* check_long_opt finds the option, its argument in the word or in the next.
LongFound ==
  /\ pc = "option" /\ OptionWord.kind = "long"
  /\ LongValid
  /\ option' = FirstMatch(OptionWord.opts)
  /\ IF Named.has_arg /\ ~OptionWord.value
     THEN optarg' = ArgumentAt(optind + 1) /\ optind' = optind + 2
     ELSE /\ optarg' = IF OptionWord.value THEN argv[optind] ELSE 0
          /\ optind' = optind + 1
  /\ pc' = "found"
  /\ UNCHANGED <<given, argv, first_nonopt, last_nonopt, swap, rest, parsed, stdout, reading, status>>

\* check_short_opt, invalid letter: optind moves on after the last letter.
ShortInvalid ==
  /\ pc = "option" /\ OptionWord.kind = "short"
  /\ OptionWord.letter \notin OptString
  /\ optind' \in {optind, optind + 1}
  /\ Fail
  /\ UNCHANGED found

\* cmdline_parser_print_help and cmdline_parser_print_version.
Printed(val) == IF val = "h" THEN "help" ELSE "version"

\* 'h' and 'V' of cmdline_parser_internal print and exit.
PrintAndExit(val) ==
  /\ stdout' = Append(stdout, Printed(val))
  /\ Release
  /\ Exit(0)

ShortFound ==
  /\ pc = "option" /\ OptionWord.kind = "short"
  /\ OptionWord.letter \in OptString
  /\ optind' \in {optind, optind + 1}
  /\ PrintAndExit(OptionWord.letter)
  /\ UNCHANGED <<given, argv, first_nonopt, last_nonopt, swap, rest, found, args_info, reading>>

LongExits ==
  /\ pc = "found" /\ LongOptions[option].val \in OptString
  /\ PrintAndExit(LongOptions[option].val)
  /\ UNCHANGED <<given, argv, indices, swap, rest, found, args_info, reading>>

\* Faulty variant: an option given before is updated again.
UpdateAgain ==
  /\ pc = "found" /\ LongOptions[option].val = "0"
  /\ local_given[option] > 0
  /\ local_given' = [local_given EXCEPT ![option] = 1]
  /\ args_info' = [args_info EXCEPT !.given[option] = 1, !.show_signature_arg = optarg]
  /\ pc' = "shuffle"
  /\ UNCHANGED <<given, argv, indices, swap, rest, found, stdout, reading, status>>

\* update_arg fails: the option was given before.
GivenTwice ==
  /\ pc = "found" /\ LongOptions[option].val = "0"
  /\ local_given[option] > 0
  /\ Fail
  /\ UNCHANGED <<optind, found>>

\* update_arg.  Its test of field_given never returns early: that is 0 where
\* prev_given is.
UpdateArg ==
  /\ pc = "found" /\ LongOptions[option].val = "0"
  /\ local_given[option] = 0
  /\ local_given' = [local_given EXCEPT ![option] = @ + 1]
  /\ args_info' =
       [args_info EXCEPT
          !.given[option] = @ + 1,
          !.link_info_mode_counter = @ + 1,
          !.show_signature_arg = IF option = Show THEN optarg ELSE @]
  /\ pc' = "shuffle"
  /\ UNCHANGED <<given, argv, indices, swap, rest, found, stdout, reading, status>>

-----------------------------------------------------------------------------
(* main of ogrt.                                                           *)

\* main after cmdline_parser; without options and operands it prints the help.
Main ==
  /\ pc = "main"
  /\ stdout' = IF argc = 1 THEN Append(stdout, Printed("h")) ELSE stdout
  /\ IF args_info.given[Generate] > 0 THEN pc' = "generate" /\ UNCHANGED status
     ELSE IF args_info.given[Show] > 0 THEN pc' = "show" /\ UNCHANGED status
     ELSE Exit(0)
  /\ UNCHANGED <<given, argv, indices, swap, rest, found, parsed, reading>>

\* gethostname fails.
GenerateFails ==
  /\ pc = "generate"
  /\ Exit(1)
  /\ UNCHANGED <<given, argv, indices, swap, rest, found, parsed, stdout, reading>>

\* The object is printed.  A failing printf or flush truncates it, and nothing
\* looks at that: the status is 0 as well.
GenerateSignature ==
  /\ pc = "generate"
  /\ \E printed \in {"object", "torn"} : stdout' = Append(stdout, printed)
  /\ Exit(0)
  /\ UNCHANGED <<given, argv, indices, swap, rest, found, parsed, reading>>

\* ogrt_read_info opens the file; it may be none, or no ELF file.
OpenElf ==
  /\ pc = "show"
  /\ \/ /\ Exit(1)
        /\ UNCHANGED reading
     \/ /\ file' \in Elfs[given] /\ scn' = 1
        /\ pc' = "sections"
        /\ UNCHANGED status
  /\ UNCHANGED <<given, argv, indices, swap, rest, found, parsed, stdout>>

\* The next section; libelf may fail on it.
ReadSection ==
  /\ pc = "sections" /\ scn <= Len(file)
  /\ \/ /\ Exit(1)
        /\ UNCHANGED <<stdout, scn>>
     \/ /\ stdout' = IF file[scn].note /\ file[scn].uuid # NULL
                     THEN Append(stdout, file[scn].uuid) ELSE stdout
        /\ scn' = scn + 1
        /\ UNCHANGED <<pc, status>>
  /\ UNCHANGED <<given, argv, indices, swap, rest, found, parsed, file>>

\* The exit status is the low byte of the number of notes.
ReturnNotesFound ==
  /\ pc = "sections" /\ scn > Len(file)
  /\ Exit(Len(stdout) % 256)
  /\ UNCHANGED <<given, argv, indices, swap, rest, found, parsed, stdout, reading>>

Terminated == pc = "exit" /\ UNCHANGED vars

GetoptLong ==
  \/ GetoptInitialize \/ Shuffle
  \/ ExchangeShortBottom \/ ExchangeShortTop \/ ExchangeReturns
  \/ SkipOperands \/ EndOfOptions \/ Stop
  \/ LongInvalid \/ LongFound \/ ShortInvalid \/ ShortFound

Step ==
  \/ GetoptLong
  \/ LongExits \/ GivenTwice \/ UpdateArg
  \/ Main \/ GenerateFails \/ GenerateSignature
  \/ OpenElf \/ ReadSection \/ ReturnNotesFound

Next == Step \/ Terminated

Spec == Init /\ [][Next]_vars

\* The program is sequential, and none of its calls blocks.
FairSpec == Spec /\ WF_vars(Step)

-----------------------------------------------------------------------------
(* The reference: what a line means, read once from left to right.         *)

\* The part the k-th word given plays; "wants" is an option whose argument is
\* the next word, whatever that looks like.
Role ==
  LET role[k \in Places] ==
        IF k = 0 THEN "program"
        ELSE IF role[k - 1] = "wants" THEN "argument"
        ELSE IF given[k].kind = "operand" \/ \E j \in 1..k - 1 : role[j] = "dashes"
             THEN "operand"
        ELSE IF given[k].kind = "dashes" THEN "dashes"
        ELSE IF given[k].kind = "long" /\ given[k].opts = {Show} /\ ~given[k].value
             THEN "wants" ELSE "option"
  IN  role

GivenOption(k) == Role[k] \in {"option", "wants"}

\* The name of the option that the k-th word gives, NULL for none that is valid.
Meant(k) ==
  LET word == given[k]
      o    == CHOOSE o \in word.opts : TRUE
  IN  IF word.kind = "short"
      THEN IF word.letter = "h" THEN "help" ELSE IF word.letter = "V" THEN "version" ELSE NULL
      ELSE IF \/ Cardinality(word.opts) # 1
              \/ word.value /\ o # Show
              \/ ~word.value /\ o = Show /\ k = argc - 1
           THEN NULL ELSE LongOptions[o].name

Immediate == {"help", "version", NULL}

\* The word that ends the parsing: it is no valid option, one given before, or
\* one that prints and exits.
Decides(k) ==
  /\ GivenOption(k)
  /\ \/ Meant(k) \in Immediate
     \/ \E j \in 1..k - 1 : GivenOption(j) /\ Meant(j) = Meant(k)

Deciding == {k \in Places : Decides(k) /\ \A j \in 1..k - 1 : ~Decides(j)}

\* The place of the argument that the last word giving this option has, 0 if none.
ArgumentGiven(name) ==
  LET givers == {k \in Places : GivenOption(k) /\ Meant(k) = name} IN
    IF givers = {} THEN 0
    ELSE LET k == CHOOSE k \in givers : TRUE IN IF given[k].value THEN k ELSE k + 1

IsGiven(name) == \E k \in Places : GivenOption(k) /\ Meant(k) = name

\* The uuids of the OGRT notes in the first n sections of the file.
Notes ==
  LET notes[n \in 0..Len(file)] ==
        IF n = 0 THEN <<>>
        ELSE IF file[n].note /\ file[n].uuid # NULL THEN Append(notes[n - 1], file[n].uuid)
        ELSE notes[n - 1]
  IN  notes

-----------------------------------------------------------------------------
(* Properties.                                                             *)

\* The variables have their types, and getopt's indices stay in order and within
\* argv, whose end none of its reads passes.
TypeOK ==
  /\ pc \in {"start", "shuffle", "exchange", "skip", "dashes", "stop", "option",
             "found", "main", "generate", "show", "sections", "exit"}
  /\ given \in Inputs
  /\ argv \in [Places -> Places]
  /\ optind \in 0..argc /\ first_nonopt \in 0..argc /\ last_nonopt \in 0..argc
  /\ pc # "skip" => first_nonopt <= last_nonopt
  /\ pc \in {"shuffle", "exchange", "skip", "dashes", "option", "found"} =>
       1 <= first_nonopt /\ first_nonopt <= optind /\ last_nonopt <= optind
  /\ pc \in {"option", "dashes"} => optind < argc
  /\ pc = "exchange" => first_nonopt <= bottom /\ bottom <= last_nonopt /\ last_nonopt <= top /\ top <= optind
  /\ rest \in BOOLEAN
  /\ option \in {0} \cup DOMAIN LongOptions
  /\ pc = "found" => option # 0
  /\ optarg \in Places
  /\ args_info \in [given : [{Generate, Show} -> Nat], show_signature_arg : Places,
                    link_info_mode_counter : Nat]
  /\ local_given \in [{Generate, Show} -> Nat]
  /\ scn \in Nat \ {0}
  /\ status \in -1..255

\* The segments [a, m) and [m, t) of line have changed places.
Rotated(line, a, m, t) ==
  [n \in Places |->
     IF n \in a..a + (t - m) - 1 THEN line[n + (m - a)]
     ELSE IF n \in a + (t - m)..t - 1 THEN line[n - (t - m)]
     ELSE line[n]]

\* When its loop ends, exchange has rotated argv: options and operands have
\* changed places, each in its old order, and nothing else moved.
ExchangeRotates ==
  pc = "exchange" /\ Exchanged => argv = Rotated(before, first_nonopt, last_nonopt, optind)

\* When the parser is done, argv has the program, then the options with their
\* arguments and "--" in the order given, then, from optind on, the operands in
\* the order given.
ArgvPartitioned ==
  pc = "main" =>
    /\ \A k \in Places : \E n \in Places : argv[n] = k
    /\ \A n \in Places : n < optind <=> Role[argv[n]] # "operand"
    /\ \A m, n \in Places : m < n /\ (m < optind <=> n < optind) => argv[m] < argv[n]

\* The permuting parser agrees with reading the line once from left to right:
\* which option decides, what is given to main, what is printed and which status
\* is returned.  The output is one of help, version, object and notes, unmixed.
OutcomeAsGiven ==
  /\ pc \in {"main", "generate", "show", "sections"} =>
       /\ Deciding = {}
       /\ \A o \in {Generate, Show} : args_info.given[o] > 0 <=> IsGiven(LongOptions[o].name)
       /\ args_info.show_signature_arg = ArgumentGiven("show-signature")
  /\ pc = "exit" =>
       IF Deciding # {}
       THEN LET meant == Meant(CHOOSE k \in Deciding : TRUE) IN
              IF meant \in {"help", "version"} THEN stdout = <<meant>> /\ status = 0
              ELSE stdout = <<>> /\ status = 1
       ELSE IF IsGiven("generate-signature")
       THEN \/ Len(stdout) = 1 /\ stdout[1] \in {"object", "torn"} /\ status = 0
            \/ stdout = <<>> /\ status = 1
       ELSE IF IsGiven("show-signature")
       THEN \/ stdout = Notes[Len(file)] /\ status = Len(stdout) % 256
            \/ status = 1 /\ \E n \in 0..Len(file) : stdout = Notes[n]
       ELSE stdout = (IF argc = 1 THEN <<"help">> ELSE <<>>) /\ status = 0

\* Every command line is parsed to its end and the program exits.
ParseEnds == <>(pc = "exit")

=============================================================================

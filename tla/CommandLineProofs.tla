-------------------------- MODULE CommandLineProofs -------------------------
(***************************************************************************)
(* What holds of CommandLine for every command line and every ELF file:    *)
(* getopt's indices stay within argv; exchange, whose loop moves the       *)
(* shorter of two segments until none is left, rotates them; what was      *)
(* scanned of argv is parted into options and operands; and what is parsed *)
(* and printed is what the line means when it is read from left to right.  *)
(***************************************************************************)
EXTENDS CommandLine, FiniteSetTheorems, WellFoundedInduction, TLAPS

-----------------------------------------------------------------------------
(* Type correctness.                                                       *)

\* The part of TypeOK about getopt's indices, with the variables of exchange.
IndexInv ==
  /\ optind \in 0..argc /\ first_nonopt \in 0..argc /\ last_nonopt \in 0..argc
  /\ bottom \in 0..argc /\ top \in 0..argc
  /\ pc # "skip" => first_nonopt <= last_nonopt
  /\ pc \in {"shuffle", "exchange", "skip", "dashes", "option", "found"} =>
       1 <= first_nonopt /\ first_nonopt <= optind /\ last_nonopt <= optind
  /\ pc \in {"option", "dashes"} => optind < argc
  /\ pc = "exchange" =>
       first_nonopt <= bottom /\ bottom <= last_nonopt /\ last_nonopt <= top /\ top <= optind

Args_info == [given : [{Generate, Show} -> Nat], show_signature_arg : Places,
              link_info_mode_counter : Nat]

\* What may be printed: a fixed text, or a uuid.
Texts == {"help", "version", "object", "torn", NULL} \cup STRING

\* The lines that argv may hold: of the words given, none at the place of the
\* program's name.
Lines == {line \in [Places -> Places] : \A n \in Places : n # 0 => line[n] # 0}

\* The part about the data, with what was printed and the file.
DataInv ==
  /\ pc \in {"start", "shuffle", "exchange", "skip", "dashes", "stop", "option",
             "found", "main", "generate", "show", "sections", "exit"}
  /\ given \in Inputs
  /\ argv \in Lines /\ before \in Lines
  /\ rest \in BOOLEAN
  /\ option \in {0} \cup DOMAIN LongOptions
  /\ pc = "found" => option # 0
  /\ optarg \in Places
  /\ args_info \in Args_info
  /\ local_given \in [{Generate, Show} -> Nat]
  /\ stdout \in Seq(Texts)
  /\ file \in Seq(Section)
  /\ scn \in Nat \ {0}
  /\ status \in -1..255

TypeInv == IndexInv /\ DataInv

LEMMA TypeInvTypeOK == TypeInv => TypeOK
  BY DEF TypeInv, IndexInv, DataInv, TypeOK, Args_info, Lines

LEMMA LongOptionsType ==
  /\ DOMAIN LongOptions = {1, 2, 3, 4}
  /\ \A o \in DOMAIN LongOptions : LongOptions[o].val = "0" => o \in {Generate, Show}
<1>1. DOMAIN LongOptions = 1..4
  BY DEF LongOptions
<1>2. LongOptions[1].val = "h" /\ LongOptions[2].val = "V"
  BY DEF LongOptions
<1>3. QED BY <1>1, <1>2 DEF Generate, Show

LEMMA Line ==
  ASSUME given \in Inputs
  PROVE  /\ given \in Seq(Word) /\ argc \in Nat /\ argc >= 1
         /\ Places = 0..argc - 1 /\ 0 \in Places
  BY CommandLineAssumption DEF argc, Places

\* Every set of options has a first.
LEMMA FirstMatchType ==
  ASSUME NEW opts \in SUBSET DOMAIN LongOptions, opts # {}
  PROVE  FirstMatch(opts) \in opts
<1>1. opts \subseteq {1, 2, 3, 4}
  BY LongOptionsType
<1>2. \E o \in opts : \A p \in opts : o <= p
  <2>1. CASE 1 \in opts
    BY <1>1, <2>1
  <2>2. CASE 1 \notin opts /\ 2 \in opts
    BY <1>1, <2>2
  <2>3. CASE 1 \notin opts /\ 2 \notin opts /\ 3 \in opts
    BY <1>1, <2>3
  <2>4. CASE opts \cap {1, 2, 3} = {}
    BY <1>1, <2>4
  <2>5. QED BY <2>1, <2>2, <2>3, <2>4
<1>3. QED BY <1>2 DEF FirstMatch

\* Words that change places stay behind the program's name.
LEMMA SwappedType ==
  ASSUME DataInv, NEW a \in Places \ {0}, NEW b \in Places \ {0}, NEW len \in Nat,
         a + len <= argc, b + len <= argc
  PROVE  Swapped(a, b, len) \in Lines
<1>1. argc \in Nat /\ Places = 0..argc - 1
  BY Line DEF DataInv
<1>2. argv \in [Places -> Places] /\ \A n \in Places : n # 0 => argv[n] # 0
  BY DEF DataInv, Lines
<1>3. ASSUME NEW n \in Places
      PROVE  /\ n \in a..a + len - 1 => b + (n - a) \in Places \ {0}
             /\ n \in b..b + len - 1 => a + (n - b) \in Places \ {0}
  BY <1>1
<1>4. \A n \in Places :
        /\ Swapped(a, b, len)[n] \in Places
        /\ n # 0 => Swapped(a, b, len)[n] # 0
  BY <1>2, <1>3 DEF Swapped
<1>5. Swapped(a, b, len) \in [Places -> Places]
  BY <1>4 DEF Swapped
<1>6. QED BY <1>4, <1>5 DEF Lines

LEMMA ClearedType ==
  ASSUME 0 \in Places
  PROVE  Cleared \in Args_info /\ Cleared.given \in [{Generate, Show} -> Nat]
  BY DEF Cleared, Args_info

LEMMA TypeInvInit == Init => TypeInv
<1> SUFFICES ASSUME Init PROVE TypeInv
  OBVIOUS
<1>1. argc \in Nat /\ argc >= 1 /\ 0 \in Places
  BY Line DEF Init
<1>2. IndexInv
  BY <1>1 DEF Init, IndexInv
<1>3. argv \in Lines /\ before \in Lines
  BY DEF Init, Lines
<1>4. args_info \in Args_info /\ local_given \in [{Generate, Show} -> Nat]
  BY <1>1, ClearedType DEF Init
<1>5. optarg \in Places /\ option \in {0} \cup DOMAIN LongOptions /\ status \in -1..255
  BY <1>1 DEF Init
<1>6. stdout \in Seq(Texts) /\ file \in Seq(Section) /\ scn \in Nat \ {0}
  BY DEF Init
<1>7. DataInv
  BY <1>3, <1>4, <1>5, <1>6 DEF Init, DataInv
<1>8. QED BY <1>2, <1>7 DEF TypeInv

\* The words given do not change, nor does what is said about them.
LEMMA SameLine ==
  ASSUME given' = given
  PROVE  argc' = argc /\ Places' = Places /\ Args_info' = Args_info /\ Lines' = Lines
  BY DEF argc, Places, Args_info, Lines

\* The steps that keep argv keep it an array of argc words.
LEMMA IndexInvStep == TypeInv /\ Next => IndexInv'
<1> SUFFICES ASSUME TypeInv, Next PROVE IndexInv'
  OBVIOUS
<1>1. argc \in Nat /\ argc >= 1
  BY Line DEF TypeInv, DataInv
<1>2. IndexInv
  BY DEF TypeInv
<1> USE <1>1, <1>2 DEF IndexInv
<1>3. ASSUME UNCHANGED <<given, indices, bottom, top>>,
             \/ pc' = pc
             \/ pc # "skip" /\ pc' \in {"main", "generate", "show", "sections", "exit"}
             \/ pc = "found" /\ pc' = "shuffle"
      PROVE  IndexInv'
  <2>1. argc' = argc
    BY <1>3, SameLine
  <2>2. QED BY <1>3, <2>1 DEF indices
<1>4. CASE GetoptInitialize
  <2>1. argc' = argc
    BY <1>4, SameLine DEF GetoptInitialize
  <2>2. QED BY <1>4, <2>1 DEF GetoptInitialize, swap
<1>5. CASE Shuffle
  <2>1. argc' = argc
    BY <1>5, SameLine DEF Shuffle
  <2>2. CASE first_nonopt # last_nonopt /\ last_nonopt # optind
    BY <1>5, <2>1, <2>2 DEF Shuffle, Exchange
  <2>3. CASE ~(first_nonopt # last_nonopt /\ last_nonopt # optind)
    BY <1>5, <2>1, <2>3 DEF Shuffle, swap
  <2>4. QED BY <2>2, <2>3
<1>6. CASE ExchangeShortBottom
  <2>1. argc' = argc
    BY <1>6, SameLine DEF ExchangeShortBottom
  <2>2. QED BY <1>6, <2>1 DEF ExchangeShortBottom, BottomLen, TopLen, indices
<1>7. CASE ExchangeShortTop
  <2>1. argc' = argc
    BY <1>7, SameLine DEF ExchangeShortTop
  <2>2. QED BY <1>7, <2>1 DEF ExchangeShortTop, BottomLen, TopLen, indices
<1>8. CASE ExchangeReturns
  <2>1. argc' = argc
    BY <1>8, SameLine DEF ExchangeReturns
  <2>2. first_nonopt + (optind - last_nonopt) \in 1..optind
    BY <1>8 DEF ExchangeReturns
  <2>3. QED BY <1>8, <2>1, <2>2 DEF ExchangeReturns, swap
<1>9. CASE SkipOperands
  <2>1. argc' = argc
    BY <1>9, SameLine DEF SkipOperands
  <2>2. PICK n \in optind..argc :
          /\ optind' = n /\ last_nonopt' = n
          /\ pc' \in {"stop", "dashes", "option"}
          /\ pc' # "stop" => n # argc
    BY <1>9 DEF SkipOperands
  <2>3. QED BY <1>9, <2>1, <2>2 DEF SkipOperands, swap
<1>10. CASE EndOfOptions
  <2>1. argc' = argc
    BY <1>10, SameLine DEF EndOfOptions
  <2>2. CASE first_nonopt # last_nonopt
    BY <1>10, <2>1, <2>2 DEF EndOfOptions, Exchange
  <2>3. CASE first_nonopt = last_nonopt
    BY <1>10, <2>1, <2>3 DEF EndOfOptions, swap
  <2>4. QED BY <2>2, <2>3
<1>11. CASE Stop
  <2>1. argc' = argc
    BY <1>11, SameLine DEF Stop
  <2>2. QED BY <1>11, <2>1 DEF Stop, swap
<1>12. ASSUME pc = "option", pc' \in {"exit", "found"},
              UNCHANGED <<given, first_nonopt, last_nonopt, swap>>,
              optind' = optind \/ optind' = optind + 1
                \/ (optind' = optind + 2 /\ optind + 1 < argc)
       PROVE  IndexInv'
  <2>1. argc' = argc
    BY <1>12, SameLine
  <2>2. QED BY <1>12, <2>1 DEF swap
<1>13. CASE LongInvalid \/ ShortInvalid \/ ShortFound
  <2>1. pc = "option" /\ pc' = "exit" /\ (optind' = optind \/ optind' = optind + 1)
    BY <1>13 DEF LongInvalid, ShortInvalid, ShortFound, Fail, ParserFails, PrintAndExit, Exit
  <2>2. UNCHANGED <<given, first_nonopt, last_nonopt, swap>>
    BY <1>13 DEF LongInvalid, ShortInvalid, ShortFound, Fail
  <2>3. QED BY <1>12, <2>1, <2>2
<1>14. CASE LongFound
  <2>1. UNCHANGED <<given, first_nonopt, last_nonopt, swap>> /\ pc = "option" /\ pc' = "found"
    BY <1>14 DEF LongFound
  <2>2. CASE Named.has_arg /\ ~OptionWord.value
    <3>1. optind' = optind + 2 /\ optind + 1 < argc
      BY <1>14, <2>2 DEF LongFound, LongValid, ArgumentFollows
    <3>2. QED BY <1>12, <2>1, <3>1
  <2>3. CASE ~(Named.has_arg /\ ~OptionWord.value)
    <3>1. optind' = optind + 1
      BY <1>14, <2>3 DEF LongFound
    <3>2. QED BY <1>12, <2>1, <3>1
  <2>4. QED BY <2>2, <2>3
<1>15. CASE LongExits \/ GivenTwice \/ UpdateArg
  BY <1>3, <1>15 DEF LongExits, GivenTwice, UpdateArg, PrintAndExit, Fail, ParserFails, Exit,
     indices, swap
<1>16. CASE Main \/ GenerateFails \/ GenerateSignature
  BY <1>3, <1>16 DEF Main, GenerateFails, GenerateSignature, Exit, swap
<1>17. CASE OpenElf \/ ReadSection \/ ReturnNotesFound
  BY <1>3, <1>17 DEF OpenElf, ReadSection, ReturnNotesFound, Exit, swap
<1>18. CASE Terminated
  BY <1>3, <1>18 DEF Terminated, vars, indices, swap
<1>19. QED BY <1>4, <1>5, <1>6, <1>7, <1>8, <1>9, <1>10, <1>11, <1>13, <1>14, <1>15,
              <1>16, <1>17, <1>18 DEF Next, Step, GetoptLong

\* The steps of the shuffle, which find no option.
LEMMA DataInvShuffle ==
  ASSUME TypeInv,
         \/ GetoptInitialize \/ Shuffle \/ ExchangeReturns
         \/ SkipOperands \/ EndOfOptions \/ Stop
  PROVE  DataInv'
<1>1. given' = given /\ argv' = argv
  BY DEF GetoptInitialize, Shuffle, ExchangeReturns, SkipOperands, EndOfOptions, Stop
<1>2. Places' = Places /\ Args_info' = Args_info /\ Lines' = Lines /\ 0 \in Places
  BY <1>1, SameLine, Line DEF TypeInv, DataInv
<1>3. before' = argv \/ before' = before
  BY DEF GetoptInitialize, Shuffle, ExchangeReturns, SkipOperands, EndOfOptions, Stop,
     Exchange, swap
<1>4. pc' \in {"shuffle", "exchange", "skip", "dashes", "stop", "option", "main"}
  BY DEF GetoptInitialize, Shuffle, ExchangeReturns, SkipOperands, EndOfOptions, Stop, Exchange
<1>5. /\ rest' = TRUE \/ rest' = rest
      /\ option' = 0 \/ option' = option
      /\ optarg' = 0 \/ optarg' = optarg
  BY DEF GetoptInitialize, Shuffle, ExchangeReturns, SkipOperands, EndOfOptions, Stop, found
<1>6. /\ UNCHANGED <<args_info, stdout, file, scn, status>>
      /\ local_given' = Cleared.given \/ local_given' = local_given
  BY DEF GetoptInitialize, Shuffle, ExchangeReturns, SkipOperands, EndOfOptions, Stop,
     parsed, reading, Release
<1>7. local_given' \in [{Generate, Show} -> Nat]
  BY <1>2, <1>6, ClearedType DEF TypeInv, DataInv
<1>8. argv' \in Lines /\ before' \in Lines
  BY <1>1, <1>3 DEF TypeInv, DataInv
<1>9. rest' \in BOOLEAN /\ option' \in {0} \cup DOMAIN LongOptions /\ optarg' \in Places
  BY <1>2, <1>5 DEF TypeInv, DataInv
<1>10. QED BY <1>1, <1>2, <1>4, <1>6, <1>7, <1>8, <1>9 DEF TypeInv, DataInv

\* The loop of exchange stays within argv.
LEMMA DataInvExchange ==
  ASSUME TypeInv, ExchangeShortBottom \/ ExchangeShortTop
  PROVE  DataInv'
<1>1. argc \in Nat /\ Places = 0..argc - 1
  BY Line DEF TypeInv, DataInv
<1>2. /\ pc = "exchange" /\ UNCHANGED <<pc, given, before, rest, found, parsed, stdout, reading, status>>
  BY DEF ExchangeShortBottom, ExchangeShortTop
<1>3. /\ bottom \in Nat /\ top \in Nat /\ last_nonopt \in Nat /\ optind \in Nat /\ optind <= argc
      /\ 1 <= bottom /\ bottom <= last_nonopt /\ last_nonopt <= top /\ top <= optind
  BY <1>1, <1>2 DEF TypeInv, IndexInv
<1>4. argv' \in Lines
  <2>1. CASE ExchangeShortBottom
    <3>1. /\ bottom \in Places \ {0} /\ top - BottomLen \in Places \ {0} /\ BottomLen \in Nat
          /\ bottom + BottomLen <= argc /\ top - BottomLen + BottomLen <= argc
      BY <1>1, <1>3, <2>1 DEF ExchangeShortBottom, BottomLen, TopLen
    <3>2. QED BY <2>1, <3>1, SwappedType DEF ExchangeShortBottom, TypeInv
  <2>2. CASE ExchangeShortTop
    <3>1. /\ bottom \in Places \ {0} /\ last_nonopt \in Places \ {0} /\ TopLen \in Nat
          /\ bottom + TopLen <= argc /\ last_nonopt + TopLen <= argc
      BY <1>1, <1>3, <2>2 DEF ExchangeShortTop, BottomLen, TopLen
    <3>2. QED BY <2>2, <3>1, SwappedType DEF ExchangeShortTop, TypeInv
  <2>3. QED BY <2>1, <2>2
<1>5. Places' = Places /\ Args_info' = Args_info /\ Lines' = Lines
  BY <1>2, SameLine
<1>6. QED BY <1>2, <1>4, <1>5 DEF TypeInv, DataInv, found, parsed, reading

\* What is found at an option.
LEMMA DataInvLongFound ==
  ASSUME TypeInv, LongFound
  PROVE  DataInv'
<1>1. argc \in Nat /\ Places = 0..argc - 1 /\ given \in Seq(Word) /\ 0 \in Places
  BY Line DEF TypeInv, DataInv
<1>2. pc = "option" /\ optind \in Places \ {0} /\ argv \in [Places -> Places]
      /\ argv[optind] # 0
  <2>1. pc = "option" /\ optind \in 0..argc /\ 1 <= first_nonopt /\ first_nonopt <= optind
        /\ first_nonopt \in 0..argc /\ optind < argc
    BY DEF LongFound, TypeInv, IndexInv
  <2>2. optind \in Places \ {0}
    BY <1>1, <2>1
  <2>3. QED BY <2>1, <2>2 DEF TypeInv, DataInv, Lines
<1>3. OptionWord.opts \in SUBSET DOMAIN LongOptions
  <2>1. argv[optind] \in DOMAIN given
    BY <1>1, <1>2 DEF argc
  <2>2. given[argv[optind]] \in Word
    BY <1>1, <2>1
  <2>3. QED BY <2>2 DEF OptionWord, WordAt, Word
<1>4. option' \in DOMAIN LongOptions /\ option' # 0
  BY <1>3, FirstMatchType, LongOptionsType DEF LongFound, LongValid
<1>5. optarg' \in Places
  <2>1. CASE Named.has_arg /\ ~OptionWord.value
    <3>1. optarg' = ArgumentAt(optind + 1)
      BY <2>1 DEF LongFound
    <3>2. optind + 1 < argc => argv[optind + 1] \in Places
      <4>1. optind + 1 < argc => optind + 1 \in Places
        BY <1>1, <1>2
      <4>2. QED BY <1>2, <4>1
    <3>3. QED BY <1>1, <3>1, <3>2 DEF ArgumentAt
  <2>2. CASE ~(Named.has_arg /\ ~OptionWord.value)
    BY <1>1, <1>2, <2>2 DEF LongFound
  <2>3. QED BY <2>1, <2>2
<1>6. pc' = "found" /\ UNCHANGED <<given, argv, before, rest, args_info, local_given, stdout,
                                   file, scn, status>>
  BY DEF LongFound, swap, parsed, reading
<1>7. Places' = Places /\ Args_info' = Args_info /\ Lines' = Lines
  BY <1>6, SameLine
<1>8. QED BY <1>4, <1>5, <1>6, <1>7 DEF TypeInv, DataInv

\* The steps of the parser that end it, and what it records.
LEMMA DataInvParser ==
  ASSUME TypeInv,
         \/ LongInvalid \/ ShortInvalid \/ ShortFound
         \/ LongExits \/ GivenTwice \/ UpdateArg
  PROVE  DataInv'
<1>1. UNCHANGED <<given, argv, before, rest, option, optarg, file, scn>>
  BY DEF LongInvalid, ShortInvalid, ShortFound, LongExits, GivenTwice, UpdateArg, Fail, swap,
     found, reading
<1>2. Places' = Places /\ Args_info' = Args_info /\ Lines' = Lines /\ 0 \in Places
  BY <1>1, SameLine, Line DEF TypeInv, DataInv
<1>3. stdout \in Seq(Texts) /\ status \in -1..255
  BY DEF TypeInv, DataInv
<1>4. ASSUME pc' = "exit", status' \in {0, 1},
             local_given' = Cleared.given,
             args_info' = Cleared \/ args_info' = args_info,
             stdout' = stdout \/ \E val \in Texts : stdout' = Append(stdout, val)
      PROVE  DataInv'
  <2>1. stdout' \in Seq(Texts)
    BY <1>3, <1>4
  <2>2. args_info' \in Args_info /\ local_given' \in [{Generate, Show} -> Nat]
    BY <1>2, <1>4, ClearedType DEF TypeInv, DataInv
  <2>3. QED BY <1>1, <1>2, <1>4, <2>1, <2>2 DEF TypeInv, DataInv
<1>5. CASE LongInvalid \/ ShortInvalid \/ GivenTwice
  BY <1>4, <1>5 DEF LongInvalid, ShortInvalid, GivenTwice, Fail, Release, ParserFails, Exit
<1>6. CASE ShortFound \/ LongExits
  <2>1. PICK val : stdout' = Append(stdout, Printed(val))
    BY <1>6 DEF ShortFound, LongExits, PrintAndExit
  <2>2. Printed(val) \in Texts
    BY DEF Printed, Texts
  <2>3. QED BY <1>4, <1>6, <2>1, <2>2 DEF ShortFound, LongExits, PrintAndExit, Release, Exit
<1>7. CASE UpdateArg
  <2>1. option \in {Generate, Show}
    BY <1>7, LongOptionsType DEF UpdateArg, TypeInv, DataInv
  <2>2. /\ args_info \in Args_info /\ local_given \in [{Generate, Show} -> Nat]
        /\ optarg \in Places
    BY DEF TypeInv, DataInv
  <2>3. local_given' \in [{Generate, Show} -> Nat]
    BY <1>7, <2>1, <2>2 DEF UpdateArg
  <2>4. args_info' \in Args_info
    <3>1. PICK g \in [{Generate, Show} -> Nat], a \in Places, c \in Nat :
            args_info = [given |-> g, show_signature_arg |-> a, link_info_mode_counter |-> c]
      BY <2>2 DEF Args_info
    <3>2. args_info' = [given |-> [g EXCEPT ![option] = @ + 1],
                        show_signature_arg |-> IF option = Show THEN optarg ELSE a,
                        link_info_mode_counter |-> c + 1]
      BY <1>7, <3>1 DEF UpdateArg
    <3>3. [g EXCEPT ![option] = @ + 1] \in [{Generate, Show} -> Nat] /\ c + 1 \in Nat
      BY <2>1
    <3>4. QED BY <2>2, <3>2, <3>3 DEF Args_info
  <2>5. QED BY <1>1, <1>2, <1>7, <2>3, <2>4 DEF UpdateArg, TypeInv, DataInv
<1>8. QED BY <1>5, <1>6, <1>7

\* The steps of main.
LEMMA DataInvMain ==
  ASSUME TypeInv,
         \/ Main \/ GenerateFails \/ GenerateSignature
         \/ OpenElf \/ ReadSection \/ ReturnNotesFound \/ Terminated
  PROVE  DataInv'
<1>1. UNCHANGED <<given, argv, before, rest, option, optarg, args_info, local_given>>
  BY DEF Main, GenerateFails, GenerateSignature, OpenElf, ReadSection, ReturnNotesFound,
     Terminated, vars, swap, found, parsed
<1>2. Places' = Places /\ Args_info' = Args_info /\ Lines' = Lines
  BY <1>1, SameLine
<1>3. /\ stdout \in Seq(Texts) /\ status \in -1..255
      /\ file \in Seq(Section) /\ scn \in Nat \ {0} /\ given \in Inputs
  BY DEF TypeInv, DataInv
<1>4. stdout' \in Seq(Texts)
  <2>1. CASE Main
    BY <1>3, <2>1 DEF Main, Printed, Texts
  <2>2. CASE GenerateSignature
    BY <1>3, <2>2 DEF GenerateSignature, Texts
  <2>3. CASE ReadSection
    <3>1. file[scn] \in Section
      BY <1>3, <2>3 DEF ReadSection
    <3>2. file[scn].uuid \in Texts
      BY <3>1 DEF Section, Texts
    <3>3. stdout' = stdout \/ stdout' = Append(stdout, file[scn].uuid)
      BY <2>3 DEF ReadSection
    <3>4. QED BY <1>3, <3>2, <3>3
  <2>4. QED BY <1>3, <2>1, <2>2, <2>3
            DEF GenerateFails, OpenElf, ReturnNotesFound, Terminated, vars
<1>5. file' \in Seq(Section) /\ scn' \in Nat \ {0}
  <2>1. CASE OpenElf
    BY <1>3, <2>1, CommandLineAssumption DEF OpenElf, reading
  <2>2. CASE ReadSection
    BY <1>3, <2>2 DEF ReadSection
  <2>3. QED BY <1>3, <2>1, <2>2
            DEF Main, GenerateFails, GenerateSignature, ReturnNotesFound, Terminated, vars, reading
<1>6. status' \in -1..255
  <2>0. 0..255 \subseteq -1..255 /\ {0, 1} \subseteq 0..255
    OBVIOUS
  <2>1. CASE ReturnNotesFound
    <3>1. Len(stdout) \in Nat
      BY <1>3
    <3>2. \A n \in Nat : n % 256 \in 0..255
      OBVIOUS
    <3>3. status' \in 0..255
      BY <2>1, <3>1, <3>2 DEF ReturnNotesFound, Exit
    <3>4. QED BY <2>0, <3>3
  <2>2. status' \in {status, 0, 1} \/ ReturnNotesFound
    BY DEF Main, GenerateFails, GenerateSignature, OpenElf, ReadSection, Terminated, vars, Exit
  <2>3. 0 \in -1..255 /\ 1 \in -1..255
    OBVIOUS
  <2>4. QED BY <1>3, <2>1, <2>2, <2>3
<1>7. pc' \in {"generate", "show", "sections", "exit"}
  BY DEF Main, GenerateFails, GenerateSignature, OpenElf, ReadSection, ReturnNotesFound,
     Terminated, vars, Exit
<1>8. QED BY <1>1, <1>2, <1>4, <1>5, <1>6, <1>7 DEF TypeInv, DataInv

LEMMA TypeInvStep == TypeInv /\ [Next]_vars => TypeInv'
<1> SUFFICES ASSUME TypeInv, [Next]_vars PROVE TypeInv'
  OBVIOUS
<1>1. CASE Next
  <2>1. DataInv'
    BY <1>1, DataInvShuffle, DataInvExchange, DataInvLongFound, DataInvParser, DataInvMain
       DEF Next, Step, GetoptLong
  <2>2. QED BY <1>1, <2>1, IndexInvStep DEF TypeInv
<1>2. CASE UNCHANGED vars
  BY <1>2 DEF vars, indices, swap, found, parsed, reading, TypeInv, IndexInv, DataInv, argc,
     Places, Args_info, Lines
<1>3. QED BY <1>1, <1>2

LEMMA TypeInvAlways == Spec => []TypeInv
  BY TypeInvInit, TypeInvStep, PTL DEF Spec

\* The variables keep their types, and getopt's indices stay in order and within
\* argv, for every command line.
THEOREM TypeCorrect == Spec => []TypeOK
  BY TypeInvAlways, TypeInvTypeOK, PTL

-----------------------------------------------------------------------------
(* What exchange does.                                                     *)

\* Rotating the segments that are left would give what was to be done.
RotateInv ==
  pc = "exchange" =>
    Rotated(argv, bottom, last_nonopt, top) = Rotated(before, first_nonopt, last_nonopt, optind)

\* The indices within the loop, as numbers.
LEMMA Within ==
  ASSUME TypeInv, pc = "exchange"
  PROVE  /\ bottom \in Nat /\ top \in Nat /\ last_nonopt \in Nat /\ top <= argc
         /\ bottom <= last_nonopt /\ last_nonopt <= top
         /\ argc \in Nat /\ Places = 0..argc - 1 /\ argv \in [Places -> Places]
<1>1. argc \in Nat /\ Places = 0..argc - 1
  BY Line DEF TypeInv, DataInv
<1>2. QED BY <1>1 DEF TypeInv, IndexInv, DataInv, Lines

\* The bottom segment is at its place after it went to the end of the top one.
LEMMA RotateShortBottom ==
  ASSUME TypeInv, ExchangeShortBottom
  PROVE  Rotated(argv', bottom, last_nonopt, top') = Rotated(argv, bottom, last_nonopt, top)
<1> DEFINE a == bottom  m == last_nonopt  t == top  b == m - a
<1>1. /\ a \in Nat /\ t \in Nat /\ m \in Nat /\ t <= argc /\ a <= m /\ m <= t
      /\ argc \in Nat /\ Places = 0..argc - 1
  BY Within DEF ExchangeShortBottom
<1>2. b \in Nat /\ b > 0 /\ t - m > b /\ top' = t - b /\ argv' = Swapped(a, t - b, b)
  BY <1>1 DEF ExchangeShortBottom, BottomLen, TopLen
<1>3. \A n \in Places : argv'[n] =
        IF n \in a..a + b - 1 THEN argv[(t - b) + (n - a)]
        ELSE IF n \in (t - b)..(t - b) + b - 1 THEN argv[a + (n - (t - b))]
        ELSE argv[n]
  BY <1>2 DEF Swapped
<1> HIDE DEF a, m, t, b
<1>4. ASSUME NEW n \in Places
      PROVE  Rotated(argv', a, m, t - b)[n] = Rotated(argv, a, m, t)[n]
  <2>0. n \in Nat /\ m = a + b
    BY <1>1 DEF b
  <2>1. CASE n < a \/ n >= t
    <3>1. argv'[n] = argv[n]
      <4>1. n \notin a..a + b - 1 /\ n \notin (t - b)..(t - b) + b - 1
        BY <1>1, <1>2, <2>0, <2>1
      <4>2. QED BY <1>3, <4>1
    <3>2. Rotated(argv', a, m, t - b)[n] = argv'[n]
      BY <1>1, <1>2, <2>0, <2>1 DEF Rotated
    <3>3. Rotated(argv, a, m, t)[n] = argv[n]
      BY <1>1, <1>2, <2>0, <2>1 DEF Rotated
    <3>4. QED BY <3>1, <3>2, <3>3
  <2>2. CASE a <= n /\ n < a + (t - m) - b
    <3>1. n + b \in Places /\ argv'[n + b] = argv[n + b]
      BY <1>1, <1>2, <1>3, <2>0, <2>2
    <3>2. Rotated(argv', a, m, t - b)[n] = argv'[n + (m - a)]
      BY <1>1, <1>2, <2>0, <2>2 DEF Rotated
    <3>3. Rotated(argv, a, m, t)[n] = argv[n + (m - a)]
      BY <1>1, <1>2, <2>0, <2>2 DEF Rotated
    <3>4. n + (m - a) = n + b
      BY <1>1, <1>2, <2>0
    <3>5. QED BY <3>1, <3>2, <3>3, <3>4
  <2>3. CASE a + (t - m) - b <= n /\ n < a + (t - m)
    <3>1. n - ((t - b) - m) \in Places
      BY <1>1, <1>2, <2>0, <2>3
    <3>2. argv'[n - ((t - b) - m)] = argv[(t - b) + (n - ((t - b) - m) - a)]
      BY <1>1, <1>2, <1>3, <2>0, <2>3, <3>1
    <3>3. Rotated(argv', a, m, t - b)[n] = argv'[n - ((t - b) - m)]
      BY <1>1, <1>2, <2>0, <2>3 DEF Rotated
    <3>4. Rotated(argv, a, m, t)[n] = argv[n + (m - a)]
      BY <1>1, <1>2, <2>0, <2>3 DEF Rotated
    <3>5. (t - b) + (n - ((t - b) - m) - a) = n + (m - a)
      BY <1>1, <1>2, <2>0
    <3>6. QED BY <3>2, <3>3, <3>4, <3>5
  <2>4. CASE a + (t - m) <= n /\ n < t
    <3>1. argv'[n] = argv[a + (n - (t - b))]
      BY <1>1, <1>2, <1>3, <2>0, <2>4
    <3>2. Rotated(argv', a, m, t - b)[n] = argv'[n]
      BY <1>1, <1>2, <2>0, <2>4 DEF Rotated
    <3>3. Rotated(argv, a, m, t)[n] = argv[n - (t - m)]
      BY <1>1, <1>2, <2>0, <2>4 DEF Rotated
    <3>4. a + (n - (t - b)) = n - (t - m)
      BY <1>1, <1>2, <2>0
    <3>5. QED BY <3>1, <3>2, <3>3, <3>4
  <2>5. QED BY <1>1, <1>2, <2>0, <2>1, <2>2, <2>3, <2>4
<1>5. Rotated(argv', a, m, t - b) = Rotated(argv, a, m, t)
  BY <1>4 DEF Rotated
<1>6. QED BY <1>2, <1>5 DEF a, m, t

\* The top segment is at its place after it went to the beginning of the bottom one.
LEMMA RotateShortTop ==
  ASSUME TypeInv, ExchangeShortTop
  PROVE  Rotated(argv', bottom', last_nonopt, top) = Rotated(argv, bottom, last_nonopt, top)
<1> DEFINE a == bottom  m == last_nonopt  t == top  l == t - m
<1>1. /\ a \in Nat /\ t \in Nat /\ m \in Nat /\ t <= argc /\ a <= m /\ m <= t
      /\ argc \in Nat /\ Places = 0..argc - 1
  BY Within DEF ExchangeShortTop
<1>2. l \in Nat /\ l > 0 /\ m - a >= l /\ bottom' = a + l /\ argv' = Swapped(a, m, l)
  BY <1>1 DEF ExchangeShortTop, BottomLen, TopLen
<1>3. \A n \in Places : argv'[n] =
        IF n \in a..a + l - 1 THEN argv[m + (n - a)]
        ELSE IF n \in m..m + l - 1 THEN argv[a + (n - m)]
        ELSE argv[n]
  BY <1>2 DEF Swapped
<1> HIDE DEF a, m, t, l
<1>4. ASSUME NEW n \in Places
      PROVE  Rotated(argv', a + l, m, t)[n] = Rotated(argv, a, m, t)[n]
  <2>0. n \in Nat /\ t = m + l
    BY <1>1 DEF l
  <2>1. CASE n < a \/ n >= t
    <3>1. argv'[n] = argv[n]
      <4>1. n \notin a..a + l - 1 /\ n \notin m..m + l - 1
        BY <1>1, <1>2, <2>0, <2>1
      <4>2. QED BY <1>3, <4>1
    <3>2. Rotated(argv', a + l, m, t)[n] = argv'[n]
      BY <1>1, <1>2, <2>0, <2>1 DEF Rotated
    <3>3. Rotated(argv, a, m, t)[n] = argv[n]
      BY <1>1, <1>2, <2>0, <2>1 DEF Rotated
    <3>4. QED BY <3>1, <3>2, <3>3
  <2>2. CASE a <= n /\ n < a + l
    <3>1. argv'[n] = argv[m + (n - a)]
      <4>1. n \in a..a + l - 1
        BY <1>1, <1>2, <2>0, <2>2
      <4>2. QED BY <1>3, <4>1
    <3>2. Rotated(argv', a + l, m, t)[n] = argv'[n]
      BY <1>1, <1>2, <2>0, <2>2 DEF Rotated
    <3>3. Rotated(argv, a, m, t)[n] = argv[n + (m - a)]
      BY <1>1, <1>2, <2>0, <2>2 DEF Rotated
    <3>4. m + (n - a) = n + (m - a)
      BY <1>1, <2>0
    <3>5. QED BY <3>1, <3>2, <3>3, <3>4
  <2>3. CASE a + l <= n /\ n < a + l + l
    <3>1. n + (m - (a + l)) \in Places
      BY <1>1, <1>2, <2>0, <2>3
    <3>2. argv'[n + (m - (a + l))] = argv[n - (t - m)]
      <4>1. n + (m - (a + l)) \in m..m + l - 1 /\ n + (m - (a + l)) \notin a..a + l - 1
        BY <1>1, <1>2, <2>0, <2>3
      <4>2. PICK i \in Places : i = n + (m - (a + l))
        BY <3>1
      <4>3. argv'[i] = argv[a + (i - m)]
        BY <1>3, <4>1, <4>2
      <4>4. a + (i - m) = n - (t - m)
        BY <1>1, <1>2, <2>0, <4>2
      <4>5. QED BY <4>2, <4>3, <4>4
    <3>3. Rotated(argv', a + l, m, t)[n] = argv'[n + (m - (a + l))]
      BY <1>1, <1>2, <2>0, <2>3 DEF Rotated
    <3>4. Rotated(argv, a, m, t)[n] = argv[n - (t - m)]
      BY <1>1, <1>2, <2>0, <2>3 DEF Rotated
    <3>5. QED BY <3>2, <3>3, <3>4
  <2>4. CASE a + l + l <= n /\ n < t
    <3>1. n - (t - m) \in Places
      BY <1>1, <1>2, <2>0, <2>4
    <3>2. argv'[n - (t - m)] = argv[n - (t - m)]
      BY <1>1, <1>2, <1>3, <2>0, <2>4, <3>1
    <3>3. Rotated(argv', a + l, m, t)[n] = argv'[n - (t - m)]
      BY <1>1, <1>2, <2>0, <2>4 DEF Rotated
    <3>4. Rotated(argv, a, m, t)[n] = argv[n - (t - m)]
      BY <1>1, <1>2, <2>0, <2>4 DEF Rotated
    <3>5. QED BY <3>2, <3>3, <3>4
  <2>5. QED BY <1>1, <1>2, <2>0, <2>1, <2>2, <2>3, <2>4
<1>5. Rotated(argv', a + l, m, t) = Rotated(argv, a, m, t)
  BY <1>4 DEF Rotated
<1>6. QED BY <1>2, <1>5 DEF a, m, t

LEMMA RotateInvStep == TypeInv /\ RotateInv /\ [Next]_vars => RotateInv'
<1> SUFFICES ASSUME TypeInv, RotateInv, [Next]_vars, pc' = "exchange"
             PROVE  Rotated(argv, bottom, last_nonopt, top)'
                    = Rotated(before, first_nonopt, last_nonopt, optind)'
  BY DEF RotateInv
<1>1. CASE ExchangeShortBottom
  <2>1. Rotated(argv', bottom, last_nonopt, top')
          = Rotated(before, first_nonopt, last_nonopt, optind)
    BY <1>1, RotateShortBottom DEF RotateInv, ExchangeShortBottom
  <2>2. QED BY <1>1, <2>1 DEF ExchangeShortBottom, indices, Rotated, Places, argc
<1>2. CASE ExchangeShortTop
  <2>1. Rotated(argv', bottom', last_nonopt, top)
          = Rotated(before, first_nonopt, last_nonopt, optind)
    BY <1>2, RotateShortTop DEF RotateInv, ExchangeShortTop
  <2>2. QED BY <1>2, <2>1 DEF ExchangeShortTop, indices, Rotated, Places, argc
<1>3. CASE Shuffle \/ EndOfOptions
  <2>1. /\ bottom' = first_nonopt' /\ top' = optind' /\ before' = argv'
    BY <1>3 DEF Shuffle, EndOfOptions, Exchange
  <2>2. QED BY <2>1 DEF Rotated
<1>4. CASE UNCHANGED vars \/ Terminated
  BY <1>4 DEF Terminated, vars, indices, swap, RotateInv, Rotated, Places, argc
<1>5. QED
  BY <1>1, <1>2, <1>3, <1>4
     DEF Next, Step, GetoptLong, GetoptInitialize, ExchangeReturns, SkipOperands, Stop,
         LongInvalid, LongFound, ShortInvalid, ShortFound, Fail, ParserFails, PrintAndExit,
         LongExits, GivenTwice, UpdateArg, Main, GenerateFails, GenerateSignature, OpenElf,
         ReadSection, ReturnNotesFound, Exit

LEMMA RotateInvInit == Init => RotateInv
  BY DEF Init, RotateInv

LEMMA ExchangeRotatesFromInv == TypeInv /\ RotateInv => ExchangeRotates
<1> SUFFICES ASSUME TypeInv, RotateInv, pc = "exchange", Exchanged
             PROVE  argv = Rotated(before, first_nonopt, last_nonopt, optind)
  BY DEF ExchangeRotates
<1>1. bottom = last_nonopt \/ top = last_nonopt
  BY Within DEF Exchanged, BottomLen, TopLen
<1>2. ASSUME NEW n \in Places
      PROVE  Rotated(argv, bottom, last_nonopt, top)[n] = argv[n]
  BY <1>1, Within DEF Rotated
<1>3. argv = Rotated(argv, bottom, last_nonopt, top)
  BY <1>2, Within DEF Rotated
<1>4. QED BY <1>3 DEF RotateInv

\* exchange has rotated options and operands when its loop ends, whatever their
\* numbers.
THEOREM ExchangeRotatesCorrect == Spec => []ExchangeRotates
  BY ExchangeRotatesFromInv, TypeInvInit, TypeInvStep, RotateInvInit, RotateInvStep, PTL DEF Spec
-----------------------------------------------------------------------------
(* The parts that words play, read from left to right.                     *)

Less == {pair \in Nat \X Nat : pair[1] < pair[2]}

\* Induction, from the least number that is not in the set.
LEMMA SetInduction ==
  ASSUME NEW S, NEW last \in Nat, 0 \in S,
         \A n \in 0..last - 1 : n \in S => n + 1 \in S
  PROVE  0..last \subseteq S
<1> DEFINE Missing == (0..last) \ S
<1> SUFFICES ASSUME Missing # {} PROVE FALSE
  OBVIOUS
<1>1. IsWellFoundedOn(Less, Nat)
  BY NatLessThanWellFounded, Zenon DEF OpToRel, Less
<1>2. Missing \subseteq Nat
  OBVIOUS
<1>3. PICK n \in Missing : \A m \in Missing : ~(<<m, n>> \in Less)
  BY <1>1, <1>2, WFMin
<1>4. n # 0 /\ n \in 0..last
  OBVIOUS
<1>5. n - 1 \in 0..last - 1 /\ n - 1 \in 0..last /\ <<n - 1, n>> \in Less
  BY <1>4 DEF Less
<1>6. n - 1 \in S /\ (n - 1) + 1 = n
  BY <1>3, <1>4, <1>5
<1>7. n \in S
  BY <1>5, <1>6
<1>8. QED BY <1>7

\* The right hand side of the definition of Role.
RoleOf(role, k) ==
  IF k = 0 THEN "program"
  ELSE IF role[k - 1] = "wants" THEN "argument"
  ELSE IF given[k].kind = "operand" \/ \E j \in 1..k - 1 : role[j] = "dashes"
       THEN "operand"
  ELSE IF given[k].kind = "dashes" THEN "dashes"
  ELSE IF given[k].kind = "long" /\ given[k].opts = {Show} /\ ~given[k].value
       THEN "wants" ELSE "option"

RoleAs(role) == role = [k \in Places |-> RoleOf(role, k)]

LEMMA RoleExists ==
  ASSUME given \in Inputs
  PROVE  \E role : RoleAs(role)
<1> DEFINE Defined(n) == \E role : \A k \in 0..n : role[k] = RoleOf(role, k)
           S == {n \in Nat : Defined(n)}
<1>1. 0 \in S
  <2> DEFINE role == [k \in {0} |-> "program"]
  <2>1. \A k \in 0..0 : role[k] = RoleOf(role, k)
    BY DEF RoleOf
  <2>2. QED BY <2>1
<1>2. ASSUME NEW n \in Nat, n \in S PROVE n + 1 \in S
  <2>1. PICK role : \A k \in 0..n : role[k] = RoleOf(role, k)
    BY <1>2
  <2> DEFINE next == [k \in 0..n + 1 |-> IF k = n + 1 THEN RoleOf(role, k) ELSE role[k]]
  <2>2. \A k \in 0..n : next[k] = role[k]
    OBVIOUS
  <2>3. next[n + 1] = RoleOf(role, n + 1)
    OBVIOUS
  <2> HIDE DEF next
  <2>4. ASSUME NEW k \in 0..n + 1 PROVE RoleOf(next, k) = RoleOf(role, k)
    <3>1. \A j \in 1..k - 1 : next[j] = role[j]
      BY <2>2
    <3>2. k # 0 => next[k - 1] = role[k - 1]
      BY <2>2
    <3>3. QED BY <3>1, <3>2 DEF RoleOf
  <2>5. \A k \in 0..n + 1 : next[k] = RoleOf(next, k)
    <3>1. ASSUME NEW k \in 0..n + 1 PROVE next[k] = RoleOf(role, k)
      <4>1. k \in 0..n \/ k = n + 1
        OBVIOUS
      <4>2. QED BY <2>1, <2>2, <2>3, <4>1
    <3>2. QED BY <2>4, <3>1
  <2>6. QED BY <2>5
<1>3. argc - 1 \in Nat /\ Places = 0..argc - 1
  BY Line
<1>4. argc - 1 \in S
  <2> HIDE DEF S
  <2>1. 0..argc - 1 \subseteq S
    <3>1. \A n \in 0..(argc - 1) - 1 : n \in S => n + 1 \in S
      BY <1>2
    <3>2. QED BY <1>1, <1>3, <3>1, SetInduction
  <2>2. QED BY <1>3, <2>1
<1>5. PICK role : \A k \in Places : role[k] = RoleOf(role, k)
  BY <1>3, <1>4
<1> DEFINE whole == [k \in Places |-> role[k]]
<1>6. \A k \in Places : whole[k] = role[k]
  OBVIOUS
<1>7. ASSUME NEW k \in Places PROVE RoleOf(whole, k) = RoleOf(role, k)
  <2>1. \A j \in 1..k - 1 : j \in Places
    BY <1>3
  <2>2. k # 0 => k - 1 \in Places
    BY <1>3
  <2> HIDE DEF whole
  <2>3. QED BY <1>6, <2>1, <2>2 DEF RoleOf
<1>8. whole = [k \in Places |-> RoleOf(whole, k)]
  BY <1>5, <1>6, <1>7
<1>9. QED BY <1>8 DEF RoleAs

\* Each word has the role that those before it leave to it.
LEMMA RoleStep ==
  ASSUME given \in Inputs, NEW k \in Places
  PROVE  Role[k] = RoleOf(Role, k)
<1>1. Role = CHOOSE role : RoleAs(role)
  BY DEF Role, RoleAs, RoleOf
<1>2. RoleAs(Role)
  BY <1>1, RoleExists, Zenon
<1>3. QED BY <1>2 DEF RoleAs

\* What comes before the n-th word leaves it to be an option.
Clean(n) == n >= 1 /\ Role[n - 1] # "wants" /\ \A j \in 1..n - 1 : Role[j] # "dashes"

LEMMA CleanFirst ==
  ASSUME given \in Inputs
  PROVE  Clean(1)
  BY Line, RoleStep DEF Clean, RoleOf

\* One more word, which is no option with its argument to follow.
LEMMA CleanNext ==
  ASSUME NEW n \in Nat, Clean(n), Role[n] \notin {"wants", "dashes"}
  PROVE  Clean(n + 1)
<1>1. \A j \in 1..(n + 1) - 1 : j \in 1..n - 1 \/ j = n
  OBVIOUS
<1>2. (n + 1) - 1 = n /\ n + 1 >= 1
  OBVIOUS
<1>3. QED BY <1>1, <1>2 DEF Clean

\* Words that look like operands, where an option could be, are operands.
LEMMA CleanOperands ==
  ASSUME given \in Inputs, NEW n \in Nat, NEW m \in Nat, n <= m, m <= argc, Clean(n),
         \A k \in n..m - 1 : given[k].kind = "operand"
  PROVE  Clean(m) /\ \A k \in n..m - 1 : Role[k] = "operand"
<1> DEFINE S == {i \in Nat : Clean(n + i) /\ \A k \in n..n + i - 1 : Role[k] = "operand"}
<1>1. 0 \in S
  OBVIOUS
<1>2. ASSUME NEW i \in 0..(m - n) - 1, i \in S PROVE i + 1 \in S
  <2> DEFINE k == n + i
  <2>1. k \in n..m - 1 /\ k \in Places /\ k \in Nat /\ i \in Nat /\ k # 0
    BY Line DEF Clean
  <2>2. Clean(k) /\ \A l \in n..k - 1 : Role[l] = "operand"
    BY <1>2
  <2> HIDE DEF k
  <2>3. Role[k] = "operand"
    BY <2>1, <2>2, RoleStep DEF RoleOf, Clean
  <2>4. Clean(k + 1)
    BY <2>1, <2>2, <2>3, CleanNext
  <2>5. \A l \in n..k : Role[l] = "operand"
    <3>1. \A l \in n..k : l \in n..k - 1 \/ l = k
      BY <2>1
    <3>2. QED BY <2>2, <2>3, <3>1
  <2>6. n + (i + 1) = k + 1 /\ (k + 1) - 1 = k /\ i + 1 \in Nat
    BY <2>1 DEF k
  <2>7. QED BY <2>4, <2>5, <2>6
<1>3. m - n \in Nat /\ n + (m - n) = m /\ m - n \in 0..m - n
  OBVIOUS
<1>4. m - n \in S
  <2> HIDE DEF S
  <2>1. 0..m - n \subseteq S
    BY <1>1, <1>2, <1>3, SetInduction
  <2>2. QED BY <1>3, <2>1
<1>5. QED BY <1>3, <1>4

\* All words behind "--" are operands.
LEMMA RestOperands ==
  ASSUME given \in Inputs, NEW d \in Places \ {0}, Role[d] = "dashes"
  PROVE  \A k \in d + 1..argc - 1 : Role[k] = "operand"
<1> DEFINE S == {i \in Nat : d + i < argc => Role[d + i] \in {"dashes", "operand"}
                                            /\ (i > 0 => Role[d + i] = "operand")}
<1>1. argc \in Nat /\ Places = 0..argc - 1 /\ d \in Nat /\ d >= 1
  BY Line
<1>2. 0 \in S
  BY <1>1
<1>3. ASSUME NEW i \in Nat, i \in S, d + (i + 1) < argc
      PROVE  Role[d + (i + 1)] = "operand"
  <2> DEFINE k == d + (i + 1)
  <2>1. k \in Places /\ k # 0 /\ k - 1 = d + i /\ d \in 1..k - 1
    BY <1>1, <1>3
  <2>2. Role[k - 1] # "wants"
    BY <1>1, <1>3, <2>1
  <2> HIDE DEF k
  <2>3. Role[k] = "operand"
    BY <2>1, <2>2, RoleStep DEF RoleOf
  <2>4. QED BY <2>3 DEF k
<1>4. \A i \in 0..(argc - d) - 1 : i \in S => i + 1 \in S
  BY <1>3
<1>5. 0..argc - d \subseteq S
  <2> HIDE DEF S
  <2>1. argc - d \in Nat
    BY <1>1
  <2>2. QED BY <1>2, <1>4, <2>1, SetInduction
<1>6. ASSUME NEW k \in d + 1..argc - 1 PROVE Role[k] = "operand"
  <2>1. k - d \in 0..argc - d /\ k - d > 0 /\ d + (k - d) = k /\ k < argc
    BY <1>1
  <2>2. k - d \in S
    BY <1>5, <2>1
  <2>3. QED BY <2>1, <2>2
<1>7. QED BY <1>6

-----------------------------------------------------------------------------
(* How argv is permuted.                                                   *)

\* Of the line, the first t words given are in their places or permuted, the
\* operands among them from a to before m; operands are in the order given, and
\* so are the others.
Parted(line, a, m, t) ==
  /\ \A n \in 0..t - 1 : line[n] \in 0..t - 1
  /\ \A k \in 0..t - 1 : \E n \in 0..t - 1 : line[n] = k
  /\ \A n \in t..argc - 1 : line[n] = n
  /\ \A n \in 0..t - 1 : Role[line[n]] = "operand" <=> n \in a..m - 1
  /\ \A k, n \in 0..t - 1 : k < n /\ (k \in a..m - 1 <=> n \in a..m - 1) => line[k] < line[n]

\* Where the word that a rotation puts at n was.
From(a, m, t, n) ==
  IF n \in a..a + (t - m) - 1 THEN n + (m - a)
  ELSE IF n \in a + (t - m)..t - 1 THEN n - (t - m)
  ELSE n

LEMMA FromType ==
  ASSUME NEW a \in Nat, NEW m \in Nat, NEW t \in Nat, a <= m, m <= t, NEW n \in 0..t - 1
  PROVE  /\ From(a, m, t, n) \in 0..t - 1
         /\ From(a, m, t, n) \in a..m - 1 <=> n \in a + (t - m)..t - 1
  BY DEF From

LEMMA FromOrder ==
  ASSUME NEW a \in Nat, NEW m \in Nat, NEW t \in Nat, a <= m, m <= t,
         NEW k \in 0..t - 1, NEW n \in 0..t - 1, k < n,
         k \in a + (t - m)..t - 1 <=> n \in a + (t - m)..t - 1
  PROVE  From(a, m, t, k) < From(a, m, t, n)
  BY DEF From

LEMMA FromOnto ==
  ASSUME NEW a \in Nat, NEW m \in Nat, NEW t \in Nat, a <= m, m <= t, NEW i \in 0..t - 1
  PROVE  \E n \in 0..t - 1 : From(a, m, t, n) = i
<1>1. CASE i \in a..m - 1
  <2>1. i + (t - m) \in 0..t - 1 /\ From(a, m, t, i + (t - m)) = i
    BY <1>1 DEF From
  <2>2. QED BY <2>1
<1>2. CASE i \in m..t - 1
  <2>1. i - (m - a) \in 0..t - 1 /\ From(a, m, t, i - (m - a)) = i
    BY <1>2 DEF From
  <2>2. QED BY <2>1
<1>3. CASE i < a
  <2>1. From(a, m, t, i) = i
    BY <1>3 DEF From
  <2>2. QED BY <2>1
<1>4. QED BY <1>1, <1>2, <1>3

\* After the rotation the operands are at the end.
LEMMA PartedRotated ==
  ASSUME NEW line, NEW a \in Nat, NEW m \in Nat, NEW t \in Nat, a <= m, m <= t, t <= argc,
         given \in Inputs, Parted(line, a, m, t)
  PROVE  Parted(Rotated(line, a, m, t), a + (t - m), t, t)
<1> DEFINE turned == Rotated(line, a, m, t)
           src(n) == From(a, m, t, n)
<1>1. argc \in Nat /\ Places = 0..argc - 1
  BY Line
<1>2. \A n \in 0..t - 1 : turned[n] = line[src(n)]
  BY <1>1 DEF Rotated, From
<1>3. \A n \in t..argc - 1 : turned[n] = line[n]
  BY <1>1 DEF Rotated
<1> HIDE DEF turned
<1>4. \A n \in 0..t - 1 :
        /\ src(n) \in 0..t - 1
        /\ src(n) \in a..m - 1 <=> n \in a + (t - m)..t - 1
  BY FromType
<1>5. \A k, n \in 0..t - 1 :
        k < n /\ (k \in a + (t - m)..t - 1 <=> n \in a + (t - m)..t - 1) => src(k) < src(n)
  BY FromOrder
<1>6. \A i \in 0..t - 1 : \E n \in 0..t - 1 : src(n) = i
  BY FromOnto
<1> HIDE DEF src
<1>7. \A n \in 0..t - 1 : turned[n] \in 0..t - 1
  BY <1>2, <1>4 DEF Parted
<1>8. \A k \in 0..t - 1 : \E n \in 0..t - 1 : turned[n] = k
  <2> SUFFICES ASSUME NEW k \in 0..t - 1 PROVE \E n \in 0..t - 1 : turned[n] = k
    OBVIOUS
  <2>1. PICK i \in 0..t - 1 : line[i] = k
    BY DEF Parted
  <2>2. PICK n \in 0..t - 1 : src(n) = i
    BY <1>6
  <2>3. QED BY <1>2, <2>1, <2>2
<1>9. \A n \in t..argc - 1 : turned[n] = n
  BY <1>3 DEF Parted
<1>10. ASSUME NEW n \in 0..t - 1
       PROVE  Role[turned[n]] = "operand" <=> n \in a + (t - m)..t - 1
  <2>1. PICK i \in 0..t - 1 : i = src(n)
    BY <1>4
  <2>2. Role[line[i]] = "operand" <=> i \in a..m - 1
    BY DEF Parted
  <2>3. turned[n] = line[i]
    BY <1>2, <2>1
  <2>4. i \in a..m - 1 <=> n \in a + (t - m)..t - 1
    BY <1>4, <2>1
  <2>5. QED BY <2>2, <2>3, <2>4
<1>11. ASSUME NEW k \in 0..t - 1, NEW n \in 0..t - 1, k < n,
              k \in a + (t - m)..t - 1 <=> n \in a + (t - m)..t - 1
       PROVE  turned[k] < turned[n]
  <2>1. src(k) < src(n) /\ (src(k) \in a..m - 1 <=> src(n) \in a..m - 1)
    BY <1>4, <1>5, <1>11
  <2>2. line[src(k)] < line[src(n)]
    BY <1>4, <2>1 DEF Parted
  <2>3. QED BY <1>2, <2>2
<1>12. QED BY <1>7, <1>8, <1>9, <1>10, <1>11 DEF Parted, turned

\* The next words are scanned: they are where they were given.
LEMMA PartedMore ==
  ASSUME NEW line, NEW a \in Nat, NEW m \in Nat, NEW t \in Nat, a <= m, m <= t,
         NEW l \in Nat, NEW u \in Nat, t <= u, u <= argc, argc \in Nat, Parted(line, a, m, t),
         \/ l = m /\ \A n \in t..u - 1 : Role[n] # "operand"
         \/ l = u /\ m = t /\ \A n \in t..u - 1 : Role[n] = "operand"
  PROVE  Parted(line, a, l, u)
<1>1. \A n \in 0..u - 1 : n \in 0..t - 1 \/ n \in t..u - 1
  OBVIOUS
<1>2. \A n \in 0..t - 1 : n \in 0..u - 1 /\ line[n] \in 0..u - 1 /\ line[n] \in 0..t - 1
  BY DEF Parted
<1>3. \A n \in t..u - 1 : n \in 0..u - 1 /\ n \notin 0..t - 1 /\ line[n] = n
  BY DEF Parted
<1>4. \A n \in u..argc - 1 : line[n] = n
  BY DEF Parted
<1>5. \A n \in 0..u - 1 : line[n] \in 0..u - 1
  BY <1>1, <1>2, <1>3
<1>6. \A k \in 0..u - 1 : \E n \in 0..u - 1 : line[n] = k
  <2> SUFFICES ASSUME NEW k \in 0..u - 1 PROVE \E n \in 0..u - 1 : line[n] = k
    OBVIOUS
  <2>1. CASE k \in 0..t - 1
    BY <1>2, <2>1 DEF Parted
  <2>2. CASE k \in t..u - 1
    BY <1>3, <2>2
  <2>3. QED BY <1>1, <2>1, <2>2
<1>7. \A n \in 0..t - 1 : n \in a..l - 1 <=> n \in a..m - 1
  OBVIOUS
<1>8. \A n \in t..u - 1 : n \in a..l - 1 <=> Role[n] = "operand"
  OBVIOUS
<1>9. \A n \in 0..u - 1 : Role[line[n]] = "operand" <=> n \in a..l - 1
  BY <1>1, <1>3, <1>7, <1>8 DEF Parted
<1>10. ASSUME NEW k \in 0..u - 1, NEW n \in 0..u - 1, k < n,
              k \in a..l - 1 <=> n \in a..l - 1
       PROVE  line[k] < line[n]
  <2>1. CASE n \in 0..t - 1
    <3>1. k \in 0..t - 1
      BY <1>10, <2>1
    <3>2. QED BY <1>7, <1>10, <2>1, <3>1 DEF Parted
  <2>2. CASE n \in t..u - 1 /\ k \in t..u - 1
    BY <1>3, <1>10, <2>2
  <2>3. CASE n \in t..u - 1 /\ k \in 0..t - 1
    <3>1. line[n] = n /\ line[k] \in 0..t - 1
      BY <1>2, <1>3, <2>3
    <3>2. QED BY <2>3, <3>1
  <2>4. QED BY <1>1, <2>1, <2>2, <2>3
<1>11. QED BY <1>4, <1>5, <1>6, <1>9, <1>10 DEF Parted

\* Where there are no operands does not matter.
LEMMA PartedEmpty ==
  ASSUME NEW line, NEW a \in Nat, NEW b \in Nat, NEW t \in Nat, Parted(line, a, a, t)
  PROVE  Parted(line, b, b, t)
<1>1. a..a - 1 = {} /\ b..b - 1 = {}
  OBVIOUS
<1>2. QED BY <1>1 DEF Parted

\* What ArgvPartitioned says of argv and optind.
Partitioned(line, ind) ==
  /\ \A k \in Places : \E n \in Places : line[n] = k
  /\ \A n \in Places : n < ind <=> Role[line[n]] # "operand"
  /\ \A m, n \in Places : m < n /\ (m < ind <=> n < ind) => line[m] < line[n]

\* Of the values of the variables: the words before optind are parted, those
\* from optind on are as given, and the next is not yet decided upon.
PartsAt(at, line, old, ind, first, last, dashed) ==
  /\ at = "start" => ~dashed /\ \A n \in Places : line[n] = n
  /\ at \in {"shuffle", "dashes", "option", "found"} => Parted(line, first, last, ind)
  /\ at = "skip" => Parted(line, first, ind, ind)
  /\ at = "exchange" => Parted(old, first, last, ind)
  /\ at = "stop" => ind = argc /\ last = argc /\ Parted(line, first, argc, argc)
  /\ at = "main" => Partitioned(line, ind)
  /\ at \in {"shuffle", "skip", "dashes", "option", "found"} => ~dashed /\ Clean(ind)
  /\ at = "exchange" => IF dashed THEN Role[ind - 1] = "dashes" ELSE Clean(ind)
  /\ at = "dashes" => last = ind /\ given[ind].kind = "dashes"
  /\ at = "option" => last = ind /\ given[ind].kind \in {"long", "short"}

PartInv == PartsAt(pc, argv, before, optind, first_nonopt, last_nonopt, rest)

\* The words given do not change, nor do their roles.
LEMMA SameRole ==
  ASSUME given' = given
  PROVE  Role' = Role /\ argc' = argc /\ Places' = Places
  BY DEF Role, argc, Places

LEMMA PartInvPrimed ==
  ASSUME given' = given,
         PartsAt(pc', argv', before', optind', first_nonopt', last_nonopt', rest')
  PROVE  PartInv'
<1>1. Role' = Role /\ argc' = argc /\ Places' = Places
  BY SameRole
<1>2. QED BY <1>1 DEF PartInv, PartsAt, Parted, Partitioned, Clean

\* What is used of TypeInv while argv is scanned.
LEMMA Indices ==
  ASSUME TypeInv, pc \in {"shuffle", "exchange", "skip", "dashes", "option", "found"}
  PROVE  /\ given \in Inputs /\ argc \in Nat /\ Places = 0..argc - 1
         /\ optind \in Nat /\ optind <= argc /\ optind >= 1
         /\ first_nonopt \in Nat /\ 1 <= first_nonopt /\ first_nonopt <= optind
         /\ last_nonopt \in Nat /\ last_nonopt <= optind
         /\ pc # "skip" => first_nonopt <= last_nonopt
         /\ pc \in {"option", "dashes"} => optind < argc /\ optind \in Places
<1>1. given \in Inputs /\ argc \in Nat /\ Places = 0..argc - 1
  BY Line DEF TypeInv, DataInv
<1>2. QED BY <1>1 DEF TypeInv, IndexInv

\* The words from optind on are as given.
LEMMA WordsAhead ==
  ASSUME TypeInv, PartInv, pc \in {"skip", "option", "dashes", "shuffle", "found"},
         NEW n \in optind..argc - 1
  PROVE  argv[n] = n /\ WordAt(n) = given[n] /\ given[n] \in Word /\ n \in Places
<1>1. argv[n] = n
  BY DEF PartInv, PartsAt, Parted
<1>2. n \in Places /\ n \in DOMAIN given /\ given \in Seq(Word)
  BY Indices, Line DEF argc
<1>3. QED BY <1>1, <1>2 DEF WordAt

LEMMA PartInvStart ==
  ASSUME TypeInv, PartInv, GetoptInitialize
  PROVE  PartInv'
<1>1. given \in Inputs /\ argc \in Nat /\ argc >= 1 /\ Places = 0..argc - 1
  BY Line DEF TypeInv, DataInv
<1>2. ~rest /\ \A n \in Places : argv[n] = n
  BY DEF PartInv, PartsAt, GetoptInitialize
<1>3. Parted(argv, 1, 1, 1)
  <2>1. 0..1 - 1 = {0} /\ 1..1 - 1 = {}
    OBVIOUS
  <2>2. argv[0] = 0 /\ \A n \in 1..argc - 1 : argv[n] = n
    BY <1>1, <1>2
  <2>3. Role[0] = "program"
    BY <1>1, RoleStep DEF RoleOf
  <2>4. QED BY <2>1, <2>2, <2>3 DEF Parted
<1>4. Clean(1)
  BY <1>1, CleanFirst
<1>5. QED BY <1>2, <1>3, <1>4, PartInvPrimed DEF GetoptInitialize, PartsAt

LEMMA PartInvShuffle ==
  ASSUME TypeInv, PartInv, Shuffle
  PROVE  PartInv'
<1>1. Parted(argv, first_nonopt, last_nonopt, optind) /\ ~rest /\ Clean(optind)
  BY DEF PartInv, PartsAt, Shuffle
<1>2. CASE first_nonopt # last_nonopt /\ last_nonopt # optind
  BY <1>1, <1>2, PartInvPrimed DEF Shuffle, Exchange, PartsAt
<1>3. CASE ~(first_nonopt # last_nonopt /\ last_nonopt # optind)
  <2>1. pc' = "skip" /\ UNCHANGED <<given, argv, optind, rest>>
        /\ first_nonopt' = IF last_nonopt # optind THEN optind ELSE first_nonopt
    BY <1>3 DEF Shuffle
  <2>2. Parted(argv, first_nonopt', optind, optind)
    <3>1. CASE last_nonopt = optind
      BY <1>1, <2>1, <3>1
    <3>2. CASE last_nonopt # optind
      <4>1. first_nonopt = last_nonopt
        BY <1>3, <3>2
      <4>2. QED BY <1>1, <2>1, <3>2, <4>1, PartedEmpty, Indices DEF Shuffle
    <3>3. QED BY <3>1, <3>2
  <2>3. QED BY <1>1, <2>1, <2>2, PartInvPrimed DEF PartsAt
<1>4. QED BY <1>2, <1>3

\* When exchange has put "--" before the operands, only operands are left.
LEMMA BehindDashes ==
  ASSUME TypeInv, PartInv, pc = "exchange", rest
  PROVE  \A n \in optind..argc - 1 : Role[n] = "operand"
<1>1. /\ given \in Inputs /\ argc \in Nat /\ Places = 0..argc - 1
      /\ optind \in Nat /\ optind <= argc /\ optind >= 1
  BY Indices
<1>2. Role[optind - 1] = "dashes"
  BY DEF PartInv, PartsAt
<1>3. optind - 1 \in Places /\ optind - 1 # 0
  <2>1. 0 \in Places /\ Role[0] = "program"
    BY <1>1, Line, RoleStep DEF RoleOf
  <2>2. QED BY <1>1, <1>2, <2>1
<1>4. (optind - 1) + 1 = optind
  BY <1>1
<1>5. QED BY <1>1, <1>2, <1>3, <1>4, RestOperands

LEMMA PartInvExchangeReturns ==
  ASSUME TypeInv, PartInv, ExchangeRotates, ExchangeReturns
  PROVE  PartInv'
<1>1. pc = "exchange" /\ argv = Rotated(before, first_nonopt, last_nonopt, optind)
  BY DEF ExchangeRotates, ExchangeReturns
<1>2. /\ given \in Inputs /\ argc \in Nat /\ Places = 0..argc - 1
      /\ optind \in Nat /\ optind <= argc /\ optind >= 1
      /\ first_nonopt \in Nat /\ last_nonopt \in Nat
      /\ first_nonopt <= last_nonopt /\ last_nonopt <= optind
  BY <1>1, Indices
<1> DEFINE first == first_nonopt + (optind - last_nonopt)
<1>3. first \in Nat /\ first <= optind
  BY <1>2
<1>4. /\ UNCHANGED <<given, argv, rest, before>> /\ first_nonopt' = first
      /\ last_nonopt' = IF rest THEN argc ELSE optind
      /\ optind' = IF rest THEN argc ELSE optind
      /\ pc' = IF rest THEN "stop" ELSE "skip"
  BY DEF ExchangeReturns, swap
<1> HIDE DEF first
<1>5. Parted(argv, first, optind, optind)
  BY <1>1, <1>2, PartedRotated DEF PartInv, PartsAt, first
<1>6. CASE ~rest
  <2>1. Clean(optind)
    BY <1>1, <1>6 DEF PartInv, PartsAt
  <2>2. QED BY <1>4, <1>5, <1>6, <2>1, PartInvPrimed DEF PartsAt
<1>7. CASE rest
  <2>1. Parted(argv, first, argc, argc)
    BY <1>1, <1>2, <1>3, <1>5, <1>7, BehindDashes, PartedMore
  <2>2. QED BY <1>4, <1>7, <2>1, PartInvPrimed DEF PartsAt
<1>8. QED BY <1>6, <1>7

\* shuffle_argv skips operands, and stops at what is none.
LEMMA SkipRoles ==
  ASSUME TypeInv, PartInv, SkipOperands
  PROVE  /\ optind' \in Nat /\ optind <= optind' /\ optind' <= argc /\ Clean(optind')
         /\ \A k \in optind..optind' - 1 : Role[k] = "operand"
         /\ last_nonopt' = optind' /\ pc' \in {"stop", "dashes", "option"}
         /\ pc' = "stop" => optind' = argc
         /\ pc' = "dashes" => given[optind'].kind = "dashes"
         /\ pc' = "option" => given[optind'].kind \in {"long", "short"}
<1>1. pc = "skip" /\ Clean(optind)
  BY DEF PartInv, PartsAt, SkipOperands
<1>2. given \in Inputs /\ argc \in Nat /\ optind \in Nat /\ optind <= argc
  BY <1>1, Indices
<1>3. PICK n \in optind..argc :
        /\ \A k \in optind..n - 1 : Operand(k)
        /\ n < argc => ~Operand(n)
        /\ optind' = n /\ last_nonopt' = n
        /\ pc' = IF n = argc THEN "stop"
                 ELSE IF WordAt(n).kind = "dashes" THEN "dashes" ELSE "option"
  BY DEF SkipOperands
<1>4. n \in Nat /\ optind <= n /\ n <= argc
  BY <1>2
<1>5. \A k \in optind..n - 1 : given[k].kind = "operand"
  <2>1. \A k \in optind..n - 1 : k \in optind..argc - 1
    BY <1>2, <1>4
  <2>2. QED BY <1>1, <1>3, <2>1, WordsAhead DEF Operand
<1>6. Clean(n) /\ \A k \in optind..n - 1 : Role[k] = "operand"
  BY <1>1, <1>2, <1>4, <1>5, CleanOperands
<1>7. n # argc => WordAt(n) = given[n] /\ given[n].kind \in {"dashes", "long", "short"}
  <2>1. n # argc => n \in optind..argc - 1 /\ n < argc
    BY <1>2, <1>4
  <2>2. QED BY <1>1, <1>3, <2>1, WordsAhead DEF Operand, Word
<1>8. QED BY <1>3, <1>4, <1>6, <1>7

LEMMA PartInvSkip ==
  ASSUME TypeInv, PartInv, SkipOperands
  PROVE  PartInv'
<1>1. pc = "skip" /\ Parted(argv, first_nonopt, optind, optind) /\ ~rest
  BY DEF PartInv, PartsAt, SkipOperands
<1>2. /\ argc \in Nat /\ optind \in Nat
      /\ first_nonopt \in Nat /\ first_nonopt <= optind
  BY <1>1, Indices
<1>3. UNCHANGED <<given, argv, first_nonopt, before, rest>>
  BY DEF SkipOperands, swap
<1>4. Parted(argv, first_nonopt, optind', optind')
  BY <1>1, <1>2, SkipRoles, PartedMore
<1>5. QED BY <1>1, <1>3, <1>4, SkipRoles, PartInvPrimed DEF PartsAt

LEMMA DashesRole ==
  ASSUME TypeInv, PartInv, pc = "dashes"
  PROVE  Role[optind] = "dashes" /\ optind \in Places \ {0}
<1>1. Clean(optind) /\ given[optind].kind = "dashes"
  BY DEF PartInv, PartsAt
<1>2. given \in Inputs /\ optind \in Places /\ optind \in Nat /\ optind >= 1
  BY Indices
<1>3. QED BY <1>1, <1>2, RoleStep DEF RoleOf, Clean

LEMMA PartInvDashes ==
  ASSUME TypeInv, PartInv, EndOfOptions
  PROVE  PartInv'
<1>1. /\ pc = "dashes" /\ Parted(argv, first_nonopt, last_nonopt, optind)
      /\ Clean(optind) /\ last_nonopt = optind /\ given[optind].kind = "dashes"
  BY DEF PartInv, PartsAt, EndOfOptions
<1>2. /\ given \in Inputs /\ argc \in Nat /\ Places = 0..argc - 1
      /\ optind \in Nat /\ optind < argc /\ optind \in Places /\ optind >= 1
      /\ first_nonopt \in Nat /\ first_nonopt <= last_nonopt /\ last_nonopt \in Nat
      /\ optind + 1 \in Nat /\ optind + 1 <= argc /\ optind \in Places \ {0}
  BY <1>1, Indices
<1>3. Role[optind] = "dashes"
  BY <1>1, DashesRole
<1>4. Parted(argv, first_nonopt, last_nonopt, optind + 1)
  <2>1. \A n \in optind..(optind + 1) - 1 : Role[n] # "operand"
    BY <1>2, <1>3
  <2>2. QED BY <1>1, <1>2, <2>1, PartedMore
<1>5. CASE first_nonopt # last_nonopt
  <2>1. /\ pc' = "exchange" /\ before' = argv /\ optind' = optind + 1 /\ rest' = TRUE
        /\ UNCHANGED <<given, argv, first_nonopt, last_nonopt>>
    BY <1>5 DEF EndOfOptions, Exchange
  <2>2. Role[optind' - 1] = "dashes"
    BY <1>2, <1>3, <2>1
  <2>3. QED BY <1>4, <2>1, <2>2, PartInvPrimed DEF PartsAt
<1>6. CASE first_nonopt = last_nonopt
  <2>1. /\ pc' = "stop" /\ first_nonopt' = optind + 1 /\ last_nonopt' = argc /\ optind' = argc
        /\ UNCHANGED <<given, argv>>
    BY <1>6 DEF EndOfOptions
  <2>2. Parted(argv, optind + 1, optind + 1, optind + 1)
    BY <1>2, <1>4, <1>6, PartedEmpty
  <2>3. \A n \in optind + 1..argc - 1 : Role[n] = "operand"
    BY <1>2, <1>3, RestOperands
  <2>4. Parted(argv, optind + 1, argc, argc)
    BY <1>2, <2>2, <2>3, PartedMore
  <2>5. QED BY <2>1, <2>4, PartInvPrimed DEF PartsAt
<1>7. QED BY <1>5, <1>6

LEMMA PartInvStop ==
  ASSUME TypeInv, PartInv, Stop
  PROVE  PartInv'
<1>1. optind = argc /\ last_nonopt = argc /\ Parted(argv, first_nonopt, argc, argc)
  BY DEF PartInv, PartsAt, Stop
<1>2. argc \in Nat /\ Places = 0..argc - 1 /\ first_nonopt \in 0..argc
  BY Line DEF TypeInv, DataInv, IndexInv
<1>3. pc' = "main" /\ optind' = first_nonopt /\ UNCHANGED <<given, argv>>
  BY <1>1 DEF Stop
<1>4. Partitioned(argv, first_nonopt)
  <2>1. \A n \in Places : n < first_nonopt <=> ~(n \in first_nonopt..argc - 1)
    BY <1>2
  <2>2. QED BY <1>1, <1>2, <2>1 DEF Parted, Partitioned
<1>5. QED BY <1>3, <1>4, PartInvPrimed DEF PartsAt

\* A valid long option names one option, whose argument it has or takes.
LEMMA OneOption ==
  ASSUME TypeInv, PartInv, pc = "option", LongValid
  PROVE  \E o \in DOMAIN LongOptions :
           /\ given[optind].opts = {o} /\ OptionWord = given[optind]
           /\ FirstMatch(OptionWord.opts) = o /\ Named = LongOptions[o]
<1>1. OptionWord = given[optind] /\ OptionWord \in Word
  <2>1. optind \in optind..argc - 1
    BY Indices
  <2>2. QED BY <2>1, WordsAhead DEF OptionWord
<1> DEFINE opts == OptionWord.opts
<1>2. opts \subseteq DOMAIN LongOptions /\ opts # {}
  BY <1>1 DEF Word, LongValid
<1>3. \E o \in DOMAIN LongOptions : opts = {o}
  <2>1. CASE OptionWord.exact
    <3>1. given \in Inputs /\ optind \in DOMAIN given
      BY Indices, Line DEF argc
    <3>2. QED BY <1>1, <2>1, <3>1, CommandLineAssumption
  <2>2. CASE ~OptionWord.exact
    <3>1. \A o, p \in opts : /\ LongOptions[o].has_arg = LongOptions[p].has_arg
                             /\ LongOptions[o].val = LongOptions[p].val
      BY <2>2 DEF LongValid, Ambiguous
    <3>2. \A o, p \in opts : o = p
      <4>1. opts \subseteq {1, 2, 3, 4}
        BY <1>2, LongOptionsType
      <4>2. /\ LongOptions[1].val = "h" /\ LongOptions[2].val = "V"
            /\ LongOptions[3].val = "0" /\ LongOptions[4].val = "0"
            /\ LongOptions[3].has_arg = FALSE /\ LongOptions[4].has_arg = TRUE
        BY DEF LongOptions
      <4> HIDE DEF opts
      <4>3. QED BY <3>1, <4>1, <4>2
    <3>3. PICK o \in opts : TRUE
      BY <1>2
    <3>4. opts = {o}
      BY <3>2, <3>3
    <3>5. QED BY <1>2, <3>3, <3>4
  <2>3. QED BY <2>1, <2>2
<1>4. PICK o \in DOMAIN LongOptions : opts = {o}
  BY <1>3
<1>5. FirstMatch(opts) = o
  BY <1>2, <1>4, FirstMatchType
<1>6. QED BY <1>1, <1>4, <1>5 DEF Named

\* The role of the option that getopt is at.
LEMMA OptionRole ==
  ASSUME TypeInv, PartInv, pc = "option"
  PROVE  Role[optind] =
           IF given[optind].kind = "long" /\ given[optind].opts = {Show} /\ ~given[optind].value
           THEN "wants" ELSE "option"
<1>1. Clean(optind) /\ given[optind].kind \in {"long", "short"}
  BY DEF PartInv, PartsAt
<1>2. given \in Inputs /\ optind \in Places /\ optind \in Nat /\ optind >= 1
  BY Indices
<1>3. QED BY <1>1, <1>2, RoleStep DEF RoleOf, Clean

LEMMA HasArg == \A o \in DOMAIN LongOptions : LongOptions[o].has_arg <=> o = Show
<1>1. DOMAIN LongOptions = {1, 2, 3, 4}
  BY LongOptionsType
<1>2. /\ LongOptions[1].has_arg = FALSE /\ LongOptions[2].has_arg = FALSE
      /\ LongOptions[3].has_arg = FALSE /\ LongOptions[4].has_arg = TRUE
  BY DEF LongOptions
<1>3. QED BY <1>1, <1>2 DEF Show

\* An option that is found with its argument is scanned.
LEMMA LongFoundRoles ==
  ASSUME TypeInv, PartInv, LongFound
  PROVE  /\ optind' \in Nat /\ optind < optind' /\ optind' <= argc /\ Clean(optind')
         /\ Role[optind] \in {"wants", "option"}
         /\ \A n \in optind + 1..optind' - 1 : Role[n] = "argument"
<1>1. /\ pc = "option" /\ given[optind].kind \in {"long", "short"}
      /\ Clean(optind) /\ given[optind].kind = "long"
  <2>1. pc = "option" /\ OptionWord.kind = "long"
    BY DEF LongFound
  <2>2. optind \in optind..argc - 1
    BY <2>1, Indices
  <2>3. QED BY <2>1, <2>2, WordsAhead DEF PartInv, PartsAt, OptionWord
<1>2. /\ given \in Inputs /\ argc \in Nat /\ Places = 0..argc - 1
      /\ optind \in Nat /\ optind < argc /\ optind \in Places /\ optind >= 1
  BY <1>1, Indices
<1>3. PICK o \in DOMAIN LongOptions :
        /\ given[optind].opts = {o} /\ OptionWord = given[optind]
        /\ Named = LongOptions[o]
  BY <1>1, OneOption DEF LongFound
<1>4. Named.has_arg <=> given[optind].opts = {Show}
  BY <1>3, HasArg
<1>5. CASE Named.has_arg /\ ~OptionWord.value
  <2>1. optind' = optind + 2 /\ optind + 1 < argc
    BY <1>5 DEF LongFound, LongValid, ArgumentFollows
  <2>2. Role[optind] = "wants"
    BY <1>1, <1>3, <1>4, <1>5, OptionRole
  <2> DEFINE k == optind + 1
  <2>3. k \in Places /\ k # 0 /\ k - 1 = optind
    BY <1>2, <2>1
  <2> HIDE DEF k
  <2>4. Role[k] = "argument"
    BY <1>2, <2>2, <2>3, RoleStep DEF RoleOf
  <2>5. optind' \in Nat /\ optind' <= argc /\ optind < optind' /\ optind' - 1 = k /\ optind' >= 1
    BY <1>2, <2>1 DEF k
  <2>6. \A j \in 1..optind' - 1 : j \in 1..optind - 1 \/ j = optind \/ j = k
    BY <1>2, <2>1 DEF k
  <2>7. Clean(optind')
    BY <1>1, <2>2, <2>4, <2>5, <2>6 DEF Clean
  <2>8. \A n \in optind + 1..optind' - 1 : n = k
    BY <1>2, <2>1 DEF k
  <2>9. QED BY <2>2, <2>4, <2>5, <2>7, <2>8
<1>6. CASE ~(Named.has_arg /\ ~OptionWord.value)
  <2>1. optind' = optind + 1
    BY <1>6 DEF LongFound
  <2>2. Role[optind] = "option"
    BY <1>1, <1>3, <1>4, <1>6, OptionRole
  <2>3. Clean(optind + 1)
    BY <1>1, <1>2, <2>2, CleanNext
  <2>4. \A n \in optind + 1..(optind + 1) - 1 : FALSE
    BY <1>2
  <2>5. QED BY <1>2, <2>1, <2>2, <2>3, <2>4
<1>7. QED BY <1>5, <1>6

LEMMA PartInvLongFound ==
  ASSUME TypeInv, PartInv, LongFound
  PROVE  PartInv'
<1>1. /\ pc = "option" /\ ~rest /\ Parted(argv, first_nonopt, last_nonopt, optind)
  BY DEF PartInv, PartsAt, LongFound
<1>2. /\ argc \in Nat /\ optind \in Nat /\ first_nonopt \in Nat /\ last_nonopt \in Nat
      /\ first_nonopt <= last_nonopt /\ last_nonopt <= optind
  BY <1>1, Indices
<1>3. pc' = "found" /\ UNCHANGED <<given, argv, first_nonopt, last_nonopt, rest>>
  BY DEF LongFound
<1>4. \A n \in optind..optind' - 1 : Role[n] # "operand"
  <2>1. \A n \in optind..optind' - 1 : n = optind \/ n \in optind + 1..optind' - 1
    BY <1>2, LongFoundRoles
  <2>2. QED BY <2>1, LongFoundRoles
<1>5. Parted(argv, first_nonopt, last_nonopt, optind')
  BY <1>1, <1>2, <1>4, LongFoundRoles, PartedMore
<1>6. QED BY <1>1, <1>3, <1>5, LongFoundRoles, PartInvPrimed DEF PartsAt

LEMMA PartInvStep == TypeInv /\ RotateInv /\ PartInv /\ [Next]_vars => PartInv'
<1> SUFFICES ASSUME TypeInv, RotateInv, PartInv, [Next]_vars PROVE PartInv'
  OBVIOUS
<1>1. CASE ExchangeShortBottom \/ ExchangeShortTop
  <2>1. pc = "exchange" /\ UNCHANGED <<pc, given, before, optind, first_nonopt, last_nonopt, rest>>
    BY <1>1 DEF ExchangeShortBottom, ExchangeShortTop, indices
  <2>2. QED BY <2>1, PartInvPrimed DEF PartInv, PartsAt
<1>2. CASE UpdateArg
  BY <1>2, PartInvPrimed DEF UpdateArg, indices, PartInv, PartsAt
<1>3. ASSUME given' = given, pc' \in {"generate", "show", "sections", "exit"}
      PROVE  PartInv'
  BY <1>3, PartInvPrimed DEF PartsAt
<1>4. CASE LongInvalid \/ ShortInvalid \/ ShortFound \/ LongExits \/ GivenTwice
  BY <1>3, <1>4 DEF LongInvalid, ShortInvalid, ShortFound, LongExits, GivenTwice, Fail,
     ParserFails, PrintAndExit, Exit
<1>5. CASE Main \/ GenerateFails \/ GenerateSignature \/ OpenElf \/ ReadSection \/ ReturnNotesFound
  BY <1>3, <1>5 DEF Main, GenerateFails, GenerateSignature, OpenElf, ReadSection,
     ReturnNotesFound, Exit
<1>6. CASE UNCHANGED vars
  BY <1>6, PartInvPrimed DEF vars, indices, swap, PartInv
<1>7. QED
  BY <1>1, <1>2, <1>4, <1>5, <1>6, ExchangeRotatesFromInv, PartInvStart, PartInvShuffle,
     PartInvExchangeReturns, PartInvSkip, PartInvDashes, PartInvStop, PartInvLongFound
     DEF Next, Step, GetoptLong, Terminated

LEMMA PartInvInit == Init => PartInv
  BY DEF Init, PartInv, PartsAt

LEMMA PartInvAlways == Spec => [](TypeInv /\ PartInv)
  BY TypeInvInit, TypeInvStep, RotateInvInit, RotateInvStep, PartInvInit, PartInvStep, PTL DEF Spec

\* The parser leaves argv as a stable partition of the line, with optind at the
\* first operand, for every line.
THEOREM ArgvPartitionedCorrect == Spec => []ArgvPartitioned
<1>1. PartInv => ArgvPartitioned
  BY DEF PartInv, PartsAt, Partitioned, ArgvPartitioned
<1>2. QED BY <1>1, PartInvAlways, PTL

-----------------------------------------------------------------------------
(* What a line means.                                                      *)

LEMMA OptionNames ==
  /\ LongOptions[1].name = "help" /\ LongOptions[2].name = "version"
  /\ LongOptions[Generate].name = "generate-signature"
  /\ LongOptions[Show].name = "show-signature"
  /\ LongOptions[1].val = "h" /\ LongOptions[2].val = "V"
  /\ LongOptions[Generate].val = "0" /\ LongOptions[Show].val = "0"
  /\ DOMAIN LongOptions = {1, 2, Generate, Show}
  /\ \A o \in DOMAIN LongOptions : LongOptions[o].name # NULL
<1>1. /\ LongOptions[1].name = "help" /\ LongOptions[2].name = "version"
      /\ LongOptions[Generate].name = "generate-signature"
      /\ LongOptions[Show].name = "show-signature"
      /\ LongOptions[1].val = "h" /\ LongOptions[2].val = "V"
      /\ LongOptions[Generate].val = "0" /\ LongOptions[Show].val = "0"
  BY DEF LongOptions, Generate, Show
<1>2. DOMAIN LongOptions = {1, 2, Generate, Show}
  BY LongOptionsType DEF Generate, Show
<1>3. QED BY <1>1, <1>2, CommandLineAssumption

\* A word that names one option, with an argument if it takes one.
LEMMA MeantOption ==
  ASSUME NEW k, NEW o, given[k].kind # "short", given[k].opts = {o},
         ~(given[k].value /\ o # Show),
         ~(~given[k].value /\ o = Show /\ k = argc - 1)
  PROVE  Meant(k) = LongOptions[o].name
<1>1. Cardinality({o}) = 1
  BY FS_Singleton
<1>2. (CHOOSE x \in {o} : TRUE) = o
  OBVIOUS
<1>3. QED BY <1>1, <1>2 DEF Meant

\* An option that getopt takes for invalid has no meaning.
LEMMA MeantInvalid ==
  ASSUME TypeInv, PartInv, pc = "option", OptionWord.kind = "long", ~LongValid
  PROVE  Meant(optind) = NULL
<1>1. OptionWord = given[optind] /\ OptionWord \in Word
  <2>1. optind \in optind..argc - 1
    BY Indices
  <2>2. QED BY <2>1, WordsAhead DEF OptionWord
<1>2. argc \in Nat /\ optind \in Nat /\ optind < argc
  BY Indices
<1> DEFINE opts == OptionWord.opts
<1>3. CASE Cardinality(opts) # 1
  BY <1>1, <1>3 DEF Meant
<1>4. CASE Cardinality(opts) = 1
  <2>1. opts \subseteq DOMAIN LongOptions /\ IsFiniteSet(opts)
    <3>1. opts \subseteq DOMAIN LongOptions
      BY <1>1 DEF Word
    <3>2. opts \subseteq Nat /\ \A o \in opts : o <= 4
      BY <3>1, LongOptionsType
    <3> HIDE DEF opts
    <3>3. QED BY <3>1, <3>2, FS_BoundedSetOfNaturals
  <2>2. PICK o : opts = {o}
    BY <1>4, <2>1, FS_Singleton
  <2>3. o \in DOMAIN LongOptions /\ opts # {} /\ (CHOOSE x \in opts : TRUE) = o
    BY <2>1, <2>2
  <2>4. FirstMatch(opts) = o
    BY <2>1, <2>2, <2>3, FirstMatchType
  <2>5. ~Ambiguous(OptionWord)
    BY <2>2 DEF Ambiguous
  <2>6. Named.has_arg <=> o = Show
    BY <2>3, <2>4, HasArg DEF Named
  <2>7. \/ OptionWord.value /\ o # Show
        \/ ~OptionWord.value /\ o = Show /\ ~ArgumentFollows
    BY <2>3, <2>5, <2>6 DEF LongValid
  <2>8. ~ArgumentFollows => optind = argc - 1
    BY <1>2 DEF ArgumentFollows
  <2>9. QED BY <1>1, <2>3, <2>7, <2>8 DEF Meant
<1>5. QED BY <1>3, <1>4

\* The word k gives the option o.
Gives(k, o) == GivenOption(k) /\ Meant(k) = LongOptions[o].name

\* Where the argument of the option that k gives is.
ArgPlace(k) == IF given[k].value THEN k ELSE k + 1

\* The words before n do not end the parsing, and info says which options they
\* give, and the argument of --show-signature.
Handled(info, n) ==
  /\ \A k \in 1..n - 1 : ~Decides(k)
  /\ \A o \in {Generate, Show} : info.given[o] > 0 <=> \E k \in 1..n - 1 : Gives(k, o)
  /\ \A k \in 1..n - 1 : Gives(k, Show) => info.show_signature_arg = ArgPlace(k)
  /\ (\A k \in 1..n - 1 : ~Gives(k, Show)) => info.show_signature_arg = 0

\* The word k gives the option that was found, and what is up to ind is its argument.
FoundAt(k, ind, opt, arg, info) ==
  /\ k \in Places \ {0} /\ k < ind /\ Handled(info, k) /\ Gives(k, opt)
  /\ \A j \in k + 1..ind - 1 : ~GivenOption(j)
  /\ opt = Show => arg = ArgPlace(k)

LEMMA HandledMore ==
  ASSUME NEW info, NEW n \in Nat, NEW m \in Nat, 1 <= n, n <= m, Handled(info, n),
         \A j \in n..m - 1 : ~GivenOption(j)
  PROVE  Handled(info, m)
<1>1. \A j \in 1..m - 1 : j \in 1..n - 1 \/ j \in n..m - 1
  OBVIOUS
<1>2. \A j \in 1..n - 1 : j \in 1..m - 1
  OBVIOUS
<1>3. \A j \in n..m - 1 : ~Decides(j) /\ \A o : ~Gives(j, o)
  BY DEF Decides, Gives
<1>4. \A k \in 1..m - 1 : ~Decides(k)
  BY <1>1, <1>3 DEF Handled
<1>5. \A o \in {Generate, Show} :
        (\E k \in 1..n - 1 : Gives(k, o)) <=> (\E k \in 1..m - 1 : Gives(k, o))
  BY <1>1, <1>2, <1>3
<1>6. QED BY <1>1, <1>2, <1>3, <1>4, <1>5 DEF Handled

\* The name of the program is no option.
LEMMA ProgramName ==
  ASSUME given \in Inputs
  PROVE  ~GivenOption(0)
  BY Line, RoleStep DEF RoleOf, GivenOption

\* A word that ends the parsing, when none before it does.
LEMMA OneDecides ==
  ASSUME given \in Inputs, NEW info, NEW k \in Places \ {0}, Handled(info, k), Decides(k)
  PROVE  Deciding = {k}
<1>1. k \in Deciding
  BY DEF Deciding, Handled
<1>2. ASSUME NEW j \in Deciding PROVE j = k
  <2>1. j \in Places /\ j \in Nat /\ k \in Nat /\ k >= 1
    BY Line DEF Deciding
  <2>2. CASE j < k /\ j # 0
    <3>1. j \in 1..k - 1
      BY <2>1, <2>2
    <3>2. QED BY <3>1 DEF Handled, Deciding
  <2>3. CASE j > k
    <3>1. k \in 1..j - 1
      BY <2>1, <2>3
    <3>2. QED BY <3>1 DEF Deciding
  <2>4. CASE j = 0
    BY <2>4, ProgramName DEF Deciding, Decides
  <2>5. QED BY <2>1, <2>2, <2>3, <2>4
<1>3. QED BY <1>1, <1>2

LEMMA MeantShort ==
  ASSUME NEW k, given[k].kind = "short"
  PROVE  Meant(k) = IF given[k].letter = "h" THEN "help"
                    ELSE IF given[k].letter = "V" THEN "version" ELSE NULL
  BY DEF Meant

\* The words given do not change, nor does what they mean.
LEMMA SameMeaning ==
  ASSUME given' = given
  PROVE  /\ \A k : Meant(k)' = Meant(k) /\ (GivenOption(k)' <=> GivenOption(k))
         /\ \A k : (Decides(k)' <=> Decides(k)) /\ ArgPlace(k)' = ArgPlace(k)
         /\ \A k, o : Gives(k, o)' <=> Gives(k, o)
         /\ Deciding' = Deciding
         /\ \A name : IsGiven(name)' <=> IsGiven(name)
<1>1. Role' = Role /\ argc' = argc /\ Places' = Places
  BY SameRole
<1>2. \A k : GivenOption(k)' <=> GivenOption(k)
  BY <1>1 DEF GivenOption
<1>3. \A k : Meant(k)' = Meant(k)
  BY <1>1 DEF Meant
<1>4. \A k : Decides(k)' <=> Decides(k)
  BY <1>2, <1>3 DEF Decides
<1>5. Deciding' = Deciding
  BY <1>1, <1>4 DEF Deciding
<1>6. \A k, o : Gives(k, o)' <=> Gives(k, o)
  BY <1>2, <1>3 DEF Gives
<1>7. \A k : ArgPlace(k)' = ArgPlace(k)
  BY DEF ArgPlace
<1>8. \A name : IsGiven(name)' <=> IsGiven(name)
  BY <1>1, <1>2, <1>3 DEF IsGiven
<1>9. QED BY <1>2, <1>3, <1>4, <1>5, <1>6, <1>7, <1>8

\* When all words are handled, main is told what they mean.
LEMMA AllHandled ==
  ASSUME given \in Inputs, NEW info, Handled(info, argc)
  PROVE  /\ Deciding = {}
         /\ \A o \in {Generate, Show} : info.given[o] > 0 <=> IsGiven(LongOptions[o].name)
         /\ info.show_signature_arg = ArgumentGiven("show-signature")
<1>1. /\ Places = 0..argc - 1 /\ argc \in Nat /\ ~GivenOption(0)
      /\ \A k \in Places : k = 0 \/ k \in 1..argc - 1
      /\ \A k \in 1..argc - 1 : k \in Places
  BY Line, ProgramName
<1>2. Deciding = {}
  BY <1>1 DEF Deciding, Decides, Handled
<1>3. ASSUME NEW o \in {Generate, Show} PROVE info.given[o] > 0 <=> IsGiven(LongOptions[o].name)
  BY <1>1 DEF Handled, IsGiven, Gives
<1> DEFINE givers == {k \in Places : GivenOption(k) /\ Meant(k) = "show-signature"}
<1>4. \A k \in givers : k \in 1..argc - 1 /\ Gives(k, Show)
  BY <1>1, OptionNames DEF Gives
<1>5. CASE givers = {}
  <2>1. \A k \in 1..argc - 1 : ~Gives(k, Show)
    BY <1>1, <1>5, OptionNames DEF Gives
  <2>2. info.show_signature_arg = 0
    BY <2>1 DEF Handled
  <2>3. QED BY <1>2, <1>3, <1>5, <2>2 DEF ArgumentGiven
<1>6. CASE givers # {}
  <2> DEFINE k == CHOOSE k \in givers : TRUE
  <2>1. k \in givers
    BY <1>6
  <2>2. info.show_signature_arg = ArgPlace(k)
    BY <1>4, <2>1 DEF Handled
  <2>3. ArgumentGiven("show-signature") = ArgPlace(k)
    BY <1>6 DEF ArgumentGiven, ArgPlace
  <2>4. QED BY <1>2, <1>3, <2>2, <2>3
<1>7. QED BY <1>5, <1>6

\* Of the values of the variables: the words that are behind are handled, and
\* nothing is printed before the parser or main ends.
HandledAt(at, ind, opt, arg, info, locally, out) ==
  /\ at \in {"start", "shuffle", "exchange", "skip", "dashes", "option", "found"} =>
       locally = info.given
  /\ at \notin {"sections", "exit"} => out = <<>>
  /\ at = "start" => Handled(info, 1)
  /\ at \in {"shuffle", "exchange", "skip", "dashes", "option"} => Handled(info, ind)
  /\ at = "found" => \E k \in Places : FoundAt(k, ind, opt, arg, info)
  /\ at \in {"stop", "main", "generate", "show", "sections"} => Handled(info, argc)
  /\ at = "generate" => info.given[Generate] > 0
  /\ at \in {"show", "sections"} => ~(info.given[Generate] > 0) /\ info.given[Show] > 0

HandledInv == HandledAt(pc, optind, option, optarg, args_info, local_given, stdout)

\* What OutcomeAsGiven says of what was printed and of the exit status.
Outcome(out, code) ==
  IF Deciding # {}
  THEN LET meant == Meant(CHOOSE k \in Deciding : TRUE) IN
         IF meant \in {"help", "version"} THEN out = <<meant>> /\ code = 0
         ELSE out = <<>> /\ code = 1
  ELSE IF IsGiven("generate-signature")
  THEN \/ Len(out) = 1 /\ out[1] \in {"object", "torn"} /\ code = 0
       \/ out = <<>> /\ code = 1
  ELSE IF IsGiven("show-signature")
  THEN \/ out = Notes[Len(file)] /\ code = Len(out) % 256
       \/ code = 1 /\ \E n \in 0..Len(file) : out = Notes[n]
  ELSE out = (IF argc = 1 THEN <<"help">> ELSE <<>>) /\ code = 0

\* The notes of the sections read are printed, and at the exit all is as given.
OutcomeInv ==
  /\ pc = "sections" => scn <= Len(file) + 1 /\ stdout = Notes[scn - 1]
  /\ pc = "exit" => Outcome(stdout, status)

LEMMA HandledPrimed ==
  ASSUME given' = given,
         HandledAt(pc', optind', option', optarg', args_info', local_given', stdout')
  PROVE  HandledInv'
<1>1. argc' = argc /\ Places' = Places
  BY SameRole
<1>2. QED BY <1>1, SameMeaning DEF HandledInv, HandledAt, Handled, FoundAt

LEMMA OutcomePrimed ==
  ASSUME given' = given, file' = file, Outcome(stdout', status')
  PROVE  Outcome(stdout, status)'
<1>1. argc' = argc /\ Deciding' = Deciding
  BY SameRole, SameMeaning
<1>2. Notes' = Notes
  BY DEF Notes
<1>3. Meant(CHOOSE k \in Deciding : TRUE)' = Meant(CHOOSE k \in Deciding : TRUE)
  <2> DEFINE k == CHOOSE k \in Deciding : TRUE
  <2>1. k' = k
    BY <1>1
  <2>2. Meant(k)' = Meant(k)
    BY <1>1, <2>1 DEF Meant
  <2>3. QED BY <2>2
<1>4. \A name : IsGiven(name)' <=> IsGiven(name)
  BY SameMeaning
<1>5. QED BY <1>1, <1>2, <1>3, <1>4 DEF Outcome

\* The word that getopt is at ends the parsing.
LEMMA Decided ==
  ASSUME given \in Inputs, NEW info, NEW k \in Places \ {0}, Handled(info, k),
         GivenOption(k),
         Meant(k) \in Immediate \/ \E j \in 1..k - 1 : Gives(j, option) /\ Gives(k, option),
         NEW out, NEW code,
         IF Meant(k) \in {"help", "version"} THEN out = <<Meant(k)>> /\ code = 0
         ELSE out = <<>> /\ code = 1
  PROVE  Outcome(out, code)
<1>1. Decides(k)
  BY DEF Decides, Gives
<1>2. Deciding = {k}
  BY <1>1, OneDecides
<1>3. (CHOOSE j \in Deciding : TRUE) = k
  BY <1>2
<1>4. QED BY <1>2, <1>3 DEF Outcome

\* What a step of the scan leaves alone.
LEMMA HandledScan ==
  ASSUME TypeInv, HandledInv, pc \in {"start", "shuffle", "exchange", "skip", "dashes", "option"},
         UNCHANGED <<given, args_info, local_given, stdout>>,
         \/ pc' \in {"shuffle", "exchange", "skip", "dashes", "option"} /\ Handled(args_info, optind')
         \/ pc' = "stop" /\ Handled(args_info, argc)
  PROVE  HandledInv'
  BY HandledPrimed DEF HandledInv, HandledAt

LEMMA HandledShuffle ==
  ASSUME TypeInv, HandledInv,
         GetoptInitialize \/ Shuffle \/ ExchangeShortBottom \/ ExchangeShortTop
  PROVE  HandledInv'
<1>1. CASE GetoptInitialize
  BY <1>1, HandledScan DEF GetoptInitialize, parsed, HandledInv, HandledAt
<1>2. CASE Shuffle
  BY <1>2, HandledScan DEF Shuffle, Exchange, parsed, HandledInv, HandledAt
<1>3. CASE ExchangeShortBottom \/ ExchangeShortTop
  BY <1>3, HandledScan DEF ExchangeShortBottom, ExchangeShortTop, parsed, indices, HandledInv, HandledAt
<1>4. QED BY <1>1, <1>2, <1>3

\* Operands and "--" say nothing to main.
LEMMA HandledOperands ==
  ASSUME TypeInv, PartInv, HandledInv, ExchangeReturns \/ SkipOperands \/ EndOfOptions
  PROVE  HandledInv'
<1>1. /\ pc \in {"exchange", "skip", "dashes"} /\ UNCHANGED <<given, args_info, local_given, stdout>>
  BY DEF ExchangeReturns, SkipOperands, EndOfOptions, parsed
<1>2. /\ Handled(args_info, optind) /\ optind \in Nat /\ optind >= 1 /\ optind <= argc
      /\ argc \in Nat /\ given \in Inputs
  BY <1>1, Indices DEF HandledInv, HandledAt
<1>3. CASE ExchangeReturns
  <2>1. CASE ~rest
    BY <1>1, <1>2, <1>3, <2>1, HandledScan DEF ExchangeReturns
  <2>2. CASE rest
    <3>1. \A n \in optind..argc - 1 : ~GivenOption(n)
      BY <1>3, <2>2, BehindDashes DEF GivenOption, ExchangeReturns
    <3>2. Handled(args_info, argc)
      BY <1>2, <3>1, HandledMore
    <3>3. QED BY <1>1, <1>3, <2>2, <3>2, HandledScan DEF ExchangeReturns
  <2>3. QED BY <2>1, <2>2
<1>4. CASE SkipOperands
  <2>1. \A k \in optind..optind' - 1 : ~GivenOption(k)
    BY <1>4, SkipRoles DEF GivenOption
  <2>2. Handled(args_info, optind')
    BY <1>2, <1>4, <2>1, SkipRoles, HandledMore
  <2>3. QED BY <1>1, <1>4, <2>2, SkipRoles, HandledScan
<1>5. CASE EndOfOptions
  <2>1. pc = "dashes" /\ Role[optind] = "dashes" /\ optind \in Places \ {0} /\ optind < argc
    BY <1>5, DashesRole, Indices DEF EndOfOptions
  <2>2. \A n \in optind..argc - 1 : ~GivenOption(n)
    <3>1. \A n \in optind..argc - 1 : n = optind \/ n \in optind + 1..argc - 1
      BY <1>2
    <3>2. QED BY <1>2, <2>1, <3>1, RestOperands DEF GivenOption
  <2>3. Handled(args_info, argc)
    BY <1>2, <2>2, HandledMore
  <2>4. Handled(args_info, optind + 1)
    <3>1. \A n \in optind..(optind + 1) - 1 : n \in optind..argc - 1
      BY <1>2, <2>1
    <3>2. QED BY <1>2, <2>2, <3>1, HandledMore
  <2>5. \/ pc' = "exchange" /\ optind' = optind + 1
        \/ pc' = "stop"
    BY <1>5 DEF EndOfOptions, Exchange
  <2>6. QED BY <1>1, <2>3, <2>4, <2>5, HandledScan
<1>6. QED BY <1>3, <1>4, <1>5

\* The option found is the one that its word gives.
LEMMA HandledLongFound ==
  ASSUME TypeInv, PartInv, HandledInv, LongFound
  PROVE  HandledInv'
<1>1. /\ pc = "option" /\ LongValid /\ OptionWord.kind = "long"
      /\ pc' = "found" /\ UNCHANGED <<given, argv, args_info, local_given, stdout>>
  BY DEF LongFound, parsed
<1>2. /\ Handled(args_info, optind) /\ optind \in Nat /\ optind >= 1 /\ optind < argc
      /\ argc \in Nat /\ Places = 0..argc - 1 /\ optind \in Places \ {0}
  BY <1>1, Indices DEF HandledInv, HandledAt
<1>3. PICK o \in DOMAIN LongOptions :
        /\ given[optind].opts = {o} /\ OptionWord = given[optind]
        /\ FirstMatch(OptionWord.opts) = o /\ Named = LongOptions[o]
  BY <1>1, OneOption
<1>4. Named.has_arg <=> o = Show
  BY <1>3, HasArg
<1>5. option' = o
  BY <1>3 DEF LongFound
<1>6. /\ ~(given[optind].value /\ o # Show)
      /\ ~(~given[optind].value /\ o = Show /\ optind = argc - 1)
  BY <1>1, <1>2, <1>3, <1>4 DEF LongValid, ArgumentFollows
<1>7. Gives(optind, o)
  <2>1. Meant(optind) = LongOptions[o].name
    BY <1>1, <1>3, <1>6, MeantOption
  <2>2. QED BY <2>1, LongFoundRoles DEF Gives, GivenOption
<1>8. o = Show => optarg' = ArgPlace(optind)
  <2>1. optind \in optind..argc - 1 /\ argv[optind] = optind
    BY <1>1, <1>2, WordsAhead
  <2>2. ASSUME optind + 1 < argc PROVE argv[optind + 1] = optind + 1
    <3>1. optind + 1 \in optind..argc - 1
      BY <1>2, <2>2
    <3>2. QED BY <1>1, <3>1, WordsAhead
  <2>3. o = Show /\ ~given[optind].value => optind + 1 < argc
    BY <1>2, <1>6
  <2>4. QED BY <1>3, <1>4, <2>1, <2>2, <2>3 DEF LongFound, ArgumentAt, ArgPlace
<1>9. optind' \in Nat /\ optind < optind' /\ \A j \in optind + 1..optind' - 1 : ~GivenOption(j)
  BY LongFoundRoles DEF GivenOption
<1>10. FoundAt(optind, optind', option', optarg', args_info)
  BY <1>2, <1>5, <1>7, <1>8, <1>9 DEF FoundAt
<1>11. QED BY <1>1, <1>2, <1>10, HandledPrimed DEF HandledInv, HandledAt

\* An option that update_arg takes is not one that ends the parsing.
LEMMA Recorded ==
  /\ Generate # Show /\ LongOptions[Generate].name # LongOptions[Show].name
  /\ \A o \in {Generate, Show} : LongOptions[o].name \notin Immediate
<1>1. \A o \in {Generate, Show} : LongOptions[o].name # NULL
  BY OptionNames
<1>2. Generate # Show
  BY DEF Generate, Show
<1>3. QED BY <1>1, <1>2, OptionNames DEF Immediate

\* What update_arg records is what the word found gives.
LEMMA HandledUpdate ==
  ASSUME TypeInv, HandledInv, UpdateArg
  PROVE  Handled(args_info', optind)
<1>1. /\ pc = "found" /\ LongOptions[option].val = "0" /\ local_given[option] = 0
      /\ local_given = args_info.given
  BY DEF UpdateArg, HandledInv, HandledAt
<1>2. PICK k \in Places : FoundAt(k, optind, option, optarg, args_info)
  BY <1>1 DEF HandledInv, HandledAt
<1>3. /\ k \in Nat /\ k >= 1 /\ optind \in Nat /\ k < optind /\ given \in Inputs
      /\ Handled(args_info, k) /\ Gives(k, option)
  BY <1>1, <1>2, Indices DEF FoundAt
<1>4. option \in {Generate, Show}
  BY <1>1, LongOptionsType DEF TypeInv, DataInv
<1>5. args_info.given[option] = 0 /\ ~(args_info.given[option] > 0)
  BY <1>1
<1>6. \A j \in 1..k - 1 : ~Gives(j, option)
  BY <1>3, <1>4, <1>5 DEF Handled
<1>7. ~Decides(k)
  BY <1>3, <1>4, <1>6, Recorded DEF Decides, Gives
<1> DEFINE info == args_info'
<1>8. /\ info.given[option] > 0
      /\ \A o \in {Generate, Show} : o # option => info.given[o] = args_info.given[o]
      /\ info.show_signature_arg = IF option = Show THEN optarg ELSE args_info.show_signature_arg
  <2>1. args_info \in Args_info
    BY DEF TypeInv, DataInv
  <2>2. QED BY <1>4, <1>5, <2>1 DEF UpdateArg, Args_info
<1> HIDE DEF info
<1>9. /\ \A j \in 1..(k + 1) - 1 : j \in 1..k - 1 \/ j = k
      /\ \A j \in 1..k - 1 : j \in 1..(k + 1) - 1
      /\ k \in 1..(k + 1) - 1
  BY <1>3
<1>10. \A o \in {Generate, Show} : o # option => ~Gives(k, o)
  BY <1>3, <1>4, Recorded DEF Gives
<1>11. \A j \in 1..(k + 1) - 1 : ~Decides(j)
  BY <1>3, <1>7, <1>9 DEF Handled
<1>12. ASSUME NEW o \in {Generate, Show}
       PROVE  info.given[o] > 0 <=> \E j \in 1..(k + 1) - 1 : Gives(j, o)
  <2>1. CASE o = option
    BY <1>3, <1>8, <1>9, <2>1
  <2>2. CASE o # option
    <3>1. (\E j \in 1..k - 1 : Gives(j, o)) <=> (\E j \in 1..(k + 1) - 1 : Gives(j, o))
      BY <1>9, <1>10, <2>2
    <3>2. QED BY <1>3, <1>8, <2>2, <3>1 DEF Handled
  <2>3. QED BY <2>1, <2>2
<1>13. /\ \A j \in 1..(k + 1) - 1 : Gives(j, Show) => info.show_signature_arg = ArgPlace(j)
       /\ (\A j \in 1..(k + 1) - 1 : ~Gives(j, Show)) => info.show_signature_arg = 0
  <2>1. CASE option = Show
    BY <1>2, <1>3, <1>6, <1>8, <1>9, <2>1 DEF FoundAt
  <2>2. CASE option # Show
    <3>1. ~Gives(k, Show)
      BY <1>10, <2>2
    <3>2. QED BY <1>3, <1>8, <1>9, <2>2, <3>1 DEF Handled
  <2>3. QED BY <2>1, <2>2
<1>14. Handled(info, k + 1)
  BY <1>11, <1>12, <1>13 DEF Handled
<1>15. Handled(info, optind)
  <2>1. k + 1 \in Nat /\ 1 <= k + 1 /\ k + 1 <= optind
    BY <1>3
  <2>2. QED BY <1>2, <1>3, <1>14, <2>1, HandledMore DEF FoundAt
<1>16. QED BY <1>15 DEF info

LEMMA HandledUpdateArg ==
  ASSUME TypeInv, HandledInv, UpdateArg
  PROVE  HandledInv'
<1>1. /\ pc = "found" /\ pc' = "shuffle" /\ optind' = optind
      /\ UNCHANGED <<given, stdout>>
  BY DEF UpdateArg, indices
<1>2. option \in {Generate, Show}
  BY LongOptionsType DEF TypeInv, DataInv, UpdateArg
<1>3. local_given' = args_info'.given
  <2>1. args_info \in Args_info /\ local_given = args_info.given
    BY <1>1 DEF TypeInv, DataInv, HandledInv, HandledAt
  <2>2. QED BY <1>2, <2>1 DEF UpdateArg, Args_info
<1>4. QED BY <1>1, <1>3, HandledUpdate, HandledPrimed DEF HandledInv, HandledAt

\* The steps of the parser that end it, at a word that decides.
LEMMA OutcomeAtOption ==
  ASSUME TypeInv, PartInv, HandledInv, LongInvalid \/ ShortInvalid \/ ShortFound
  PROVE  Outcome(stdout', status')
<1>1. /\ pc = "option" /\ stdout = <<>> /\ Handled(args_info, optind)
      /\ given \in Inputs /\ optind \in Places \ {0}
  <2>1. pc = "option"
    BY DEF LongInvalid, ShortInvalid, ShortFound
  <2>2. QED BY <2>1, Indices DEF HandledInv, HandledAt
<1>2. GivenOption(optind)
  BY <1>1, OptionRole DEF GivenOption
<1>3. OptionWord = given[optind] /\ OptionWord \in Word
  <2>1. optind \in optind..argc - 1
    BY <1>1, Indices
  <2>2. QED BY <1>1, <2>1, WordsAhead DEF OptionWord
<1>4. NULL \notin {"help", "version", "h", "V"}
  BY CommandLineAssumption, OptionNames DEF OptString
<1>5. CASE LongInvalid \/ ShortInvalid
  <2>1. Meant(optind) = NULL
    <3>1. CASE LongInvalid
      BY <1>1, <3>1, MeantInvalid DEF LongInvalid
    <3>2. CASE ShortInvalid
      BY <1>3, <3>2, MeantShort DEF ShortInvalid, OptString
    <3>3. QED BY <1>5, <3>1, <3>2
  <2>2. stdout' = <<>> /\ status' = 1
    BY <1>1, <1>5 DEF LongInvalid, ShortInvalid, Fail, ParserFails, Exit
  <2>3. QED BY <1>1, <1>2, <1>4, <2>1, <2>2, Decided DEF Immediate
<1>6. CASE ShortFound
  <2>1. OptionWord.kind = "short" /\ OptionWord.letter \in {"h", "V"}
    BY <1>6 DEF ShortFound, OptString
  <2>2. Meant(optind) = Printed(OptionWord.letter) /\ Meant(optind) \in {"help", "version"}
    BY <1>3, <2>1, MeantShort DEF Printed
  <2>3. stdout' = <<Printed(OptionWord.letter)>> /\ status' = 0
    BY <1>1, <1>6 DEF ShortFound, PrintAndExit, Exit
  <2>4. QED BY <1>1, <1>2, <2>2, <2>3, Decided DEF Immediate
<1>7. QED BY <1>5, <1>6

LEMMA OutcomeAtFound ==
  ASSUME TypeInv, HandledInv, LongExits \/ GivenTwice
  PROVE  Outcome(stdout', status')
<1>1. pc = "found" /\ stdout = <<>> /\ given \in Inputs /\ local_given = args_info.given
  BY DEF LongExits, GivenTwice, HandledInv, HandledAt, TypeInv, DataInv
<1>2. PICK k \in Places : FoundAt(k, optind, option, optarg, args_info)
  BY <1>1 DEF HandledInv, HandledAt
<1>3. /\ k \in Places \ {0} /\ Handled(args_info, k) /\ Gives(k, option) /\ GivenOption(k)
      /\ Meant(k) = LongOptions[option].name
  BY <1>2 DEF FoundAt, Gives
<1>4. option \in DOMAIN LongOptions
  BY <1>1 DEF TypeInv, DataInv
<1>5. CASE LongExits
  <2>1. LongOptions[option].val \in {"h", "V"}
    BY <1>5 DEF LongExits, OptString
  <2>2. Meant(k) = Printed(LongOptions[option].val) /\ Meant(k) \in {"help", "version"}
    BY <1>3, <1>4, <2>1, OptionNames DEF Printed
  <2>3. stdout' = <<Printed(LongOptions[option].val)>> /\ status' = 0
    BY <1>1, <1>5 DEF LongExits, PrintAndExit, Exit
  <2>4. QED BY <1>1, <1>3, <2>2, <2>3, Decided DEF Immediate
<1>6. CASE GivenTwice
  <2>1. option \in {Generate, Show}
    BY <1>4, <1>6, LongOptionsType DEF GivenTwice
  <2>2. \E j \in 1..k - 1 : Gives(j, option)
    BY <1>1, <1>3, <1>6, <2>1 DEF GivenTwice, Handled
  <2>3. Meant(k) \notin {"help", "version"}
    BY <1>3, <2>1, Recorded DEF Immediate
  <2>4. stdout' = <<>> /\ status' = 1
    BY <1>1, <1>6 DEF GivenTwice, Fail, ParserFails, Exit
  <2>5. QED BY <1>1, <1>3, <2>2, <2>3, <2>4, Decided
<1>7. QED BY <1>5, <1>6

-----------------------------------------------------------------------------
(* What main prints of an ELF file.                                        *)

\* The right hand side of the definition of Notes.
NotesOf(notes, n) ==
  IF n = 0 THEN <<>>
  ELSE IF file[n].note /\ file[n].uuid # NULL THEN Append(notes[n - 1], file[n].uuid)
  ELSE notes[n - 1]

NotesAs(notes) == notes = [n \in 0..Len(file) |-> NotesOf(notes, n)]

LEMMA NotesExists ==
  ASSUME file \in Seq(Section)
  PROVE  \E notes : NotesAs(notes)
<1> DEFINE Defined(n) == \E notes : \A k \in 0..n : notes[k] = NotesOf(notes, k)
           S == {n \in Nat : Defined(n)}
<1>1. 0 \in S
  <2> DEFINE notes == [k \in {0} |-> <<>>]
  <2>1. \A k \in 0..0 : notes[k] = NotesOf(notes, k)
    BY DEF NotesOf
  <2>2. QED BY <2>1
<1>2. ASSUME NEW n \in Nat, n \in S PROVE n + 1 \in S
  <2>1. PICK notes : \A k \in 0..n : notes[k] = NotesOf(notes, k)
    BY <1>2
  <2> DEFINE next == [k \in 0..n + 1 |-> IF k = n + 1 THEN NotesOf(notes, k) ELSE notes[k]]
  <2>2. \A k \in 0..n : next[k] = notes[k]
    OBVIOUS
  <2>3. next[n + 1] = NotesOf(notes, n + 1)
    OBVIOUS
  <2> HIDE DEF next
  <2>4. ASSUME NEW k \in 0..n + 1 PROVE NotesOf(next, k) = NotesOf(notes, k)
    <3>1. k # 0 => next[k - 1] = notes[k - 1]
      BY <2>2
    <3>2. QED BY <3>1 DEF NotesOf
  <2>5. \A k \in 0..n + 1 : next[k] = NotesOf(next, k)
    <3>1. ASSUME NEW k \in 0..n + 1 PROVE next[k] = NotesOf(notes, k)
      <4>1. k \in 0..n \/ k = n + 1
        OBVIOUS
      <4>2. QED BY <2>1, <2>2, <2>3, <4>1
    <3>2. QED BY <2>4, <3>1
  <2>6. QED BY <2>5
<1>3. Len(file) \in Nat
  OBVIOUS
<1>4. Len(file) \in S
  <2> HIDE DEF S
  <2>1. 0..Len(file) \subseteq S
    <3>1. \A n \in 0..Len(file) - 1 : n \in S => n + 1 \in S
      BY <1>2
    <3>2. QED BY <1>1, <1>3, <3>1, SetInduction
  <2>2. QED BY <1>3, <2>1
<1>5. PICK notes : \A k \in 0..Len(file) : notes[k] = NotesOf(notes, k)
  BY <1>4
<1> DEFINE whole == [k \in 0..Len(file) |-> notes[k]]
<1>6. \A k \in 0..Len(file) : whole[k] = notes[k]
  OBVIOUS
<1>7. ASSUME NEW k \in 0..Len(file) PROVE NotesOf(whole, k) = NotesOf(notes, k)
  <2>1. k # 0 => k - 1 \in 0..Len(file)
    BY <1>3
  <2> HIDE DEF whole
  <2>2. QED BY <1>6, <2>1 DEF NotesOf
<1>8. whole = [k \in 0..Len(file) |-> NotesOf(whole, k)]
  BY <1>5, <1>6, <1>7
<1>9. QED BY <1>8 DEF NotesAs

\* Each section adds its note, if it has one.
LEMMA NotesStep ==
  file \in Seq(Section) => \A n \in 0..Len(file) : Notes[n] = NotesOf(Notes, n)
<1> SUFFICES ASSUME file \in Seq(Section), NEW n \in 0..Len(file)
             PROVE  Notes[n] = NotesOf(Notes, n)
  OBVIOUS
<1>1. Notes = CHOOSE notes : NotesAs(notes)
  BY DEF Notes, NotesAs, NotesOf
<1>2. NotesAs(Notes)
  BY <1>1, NotesExists, Zenon
<1>3. QED BY <1>2 DEF NotesAs

LEMMA NoNotes == file \in Seq(Section) => Notes[0] = <<>>
<1> SUFFICES ASSUME file \in Seq(Section) PROVE Notes[0] = <<>>
  OBVIOUS
<1>1. 0 \in 0..Len(file)
  OBVIOUS
<1>2. QED BY <1>1, NotesStep DEF NotesOf

\* At the exit nothing is said of the options any more.
LEMMA HandledAtExit ==
  ASSUME given' = given, pc' = "exit"
  PROVE  HandledInv'
  BY HandledPrimed DEF HandledAt

\* The words given to main say what it does.
LEMMA Told ==
  ASSUME TypeInv, HandledInv, pc \in {"main", "generate", "show", "sections"}
  PROVE  /\ Deciding = {}
         /\ args_info.given[Generate] > 0 <=> IsGiven("generate-signature")
         /\ args_info.given[Show] > 0 <=> IsGiven("show-signature")
         /\ args_info.show_signature_arg = ArgumentGiven("show-signature")
<1>1. given \in Inputs /\ Handled(args_info, argc)
  BY DEF TypeInv, DataInv, HandledInv, HandledAt
<1>2. QED BY <1>1, AllHandled, OptionNames

LEMMA MainHandled ==
  ASSUME TypeInv, HandledInv, Main
  PROVE  HandledInv' /\ (pc' = "exit" => Outcome(stdout', status'))
<1>1. pc = "main" /\ given' = given /\ args_info' = args_info /\ stdout = <<>> /\ Handled(args_info, argc)
  BY DEF Main, parsed, HandledInv, HandledAt
<1>2. given \in Inputs /\ argc \in Nat
  BY Line DEF TypeInv, DataInv
<1>3. args_info.given[Generate] > 0 \/ args_info.given[Show] > 0 => argc # 1
  BY <1>1, <1>2 DEF Handled
<1>4. CASE pc' = "exit"
  <2>1. ~IsGiven("generate-signature") /\ ~IsGiven("show-signature") /\ Deciding = {} /\ status' = 0
    BY <1>1, <1>4, Told DEF Main, Exit
  <2>2. stdout' = IF argc = 1 THEN <<"help">> ELSE <<>>
    BY <1>1 DEF Main, Printed
  <2>3. Outcome(stdout', status')
    BY <2>1, <2>2 DEF Outcome
  <2>4. QED BY <1>1, <1>4, <2>3, HandledAtExit
<1>5. CASE pc' # "exit"
  <2>1. \/ pc' = "generate" /\ args_info.given[Generate] > 0
        \/ pc' = "show" /\ ~(args_info.given[Generate] > 0) /\ args_info.given[Show] > 0
    BY <1>5 DEF Main, Exit
  <2>2. stdout' = <<>>
    BY <1>1, <1>3, <2>1 DEF Main
  <2>3. QED BY <1>1, <1>5, <2>1, <2>2, HandledPrimed DEF HandledAt
<1>6. QED BY <1>4, <1>5

LEMMA OutcomeGenerate ==
  ASSUME TypeInv, HandledInv, GenerateFails \/ GenerateSignature
  PROVE  Outcome(stdout', status')
<1>1. pc = "generate" /\ stdout = <<>> /\ args_info.given[Generate] > 0
  BY DEF GenerateFails, GenerateSignature, HandledInv, HandledAt
<1>2. Deciding = {} /\ IsGiven("generate-signature")
  BY <1>1, Told
<1>3. \/ stdout' = <<>> /\ status' = 1
      \/ status' = 0 /\ \E printed \in {"object", "torn"} : stdout' = <<printed>>
  BY <1>1 DEF GenerateFails, GenerateSignature, Exit
<1>4. QED BY <1>2, <1>3 DEF Outcome

LEMMA OutcomeShow ==
  ASSUME TypeInv, HandledInv, OutcomeInv, OpenElf \/ ReadSection \/ ReturnNotesFound
  PROVE  HandledInv' /\ OutcomeInv'
<1>1. /\ pc \in {"show", "sections"} /\ given' = given /\ args_info' = args_info
      /\ Handled(args_info, argc) /\ ~(args_info.given[Generate] > 0) /\ args_info.given[Show] > 0
  BY DEF OpenElf, ReadSection, ReturnNotesFound, parsed, HandledInv, HandledAt
<1>2. Deciding = {} /\ ~IsGiven("generate-signature") /\ IsGiven("show-signature")
  BY <1>1, Told
<1>3. file \in Seq(Section) /\ Len(file) \in Nat /\ scn \in Nat \ {0}
  BY DEF TypeInv, DataInv
<1>4. HandledInv'
  <2>1. CASE pc' = "exit"
    BY <1>1, <2>1, HandledAtExit
  <2>2. CASE pc' # "exit"
    <3>1. pc' = "sections"
      BY <2>2 DEF OpenElf, ReadSection, ReturnNotesFound, Exit
    <3>2. QED BY <1>1, <3>1, HandledPrimed DEF HandledAt
  <2>3. QED BY <2>1, <2>2
<1>5. ASSUME pc' = "exit", file' = file, Outcome(stdout', status') PROVE OutcomeInv'
  BY <1>1, <1>5, OutcomePrimed DEF OutcomeInv
<1>6. CASE OpenElf
  <2>1. stdout = <<>> /\ stdout' = <<>>
    BY <1>6 DEF OpenElf, HandledInv, HandledAt
  <2>2. CASE pc' = "exit"
    <3>1. file' = file /\ status' = 1
      BY <1>6, <2>2 DEF OpenElf, Exit, reading
    <3>2. 0 \in 0..Len(file) /\ stdout' = Notes[0]
      BY <1>3, <2>1, NoNotes
    <3>3. Outcome(stdout', status')
      BY <1>2, <3>1, <3>2 DEF Outcome
    <3>4. QED BY <1>4, <1>5, <2>2, <3>1, <3>3
  <2>3. CASE pc' # "exit"
    <3>1. pc' = "sections" /\ scn' = 1
      BY <1>6, <2>3 DEF OpenElf, Exit
    <3>2. DataInv'
      BY <1>6, DataInvMain
    <3>3. (Notes[0])' = <<>>
      <4>1. (file \in Seq(Section) => Notes[0] = <<>>)'
        BY NoNotes, PTL
      <4>2. QED BY <3>2, <4>1 DEF DataInv
    <3>4. scn' <= Len(file') + 1 /\ scn' - 1 = 0
      <4>1. Len(file') \in Nat
        BY <3>2 DEF DataInv
      <4>2. QED BY <3>1, <4>1
    <3>5. QED BY <1>4, <2>1, <3>1, <3>3, <3>4 DEF OutcomeInv
  <2>4. QED BY <2>2, <2>3
<1>7. ASSUME pc = "sections" PROVE scn - 1 \in 0..Len(file) /\ stdout = Notes[scn - 1]
  BY <1>3, <1>7 DEF OutcomeInv
<1>8. CASE ReadSection
  <2>1. pc = "sections" /\ file' = file /\ scn <= Len(file)
    BY <1>8 DEF ReadSection
  <2>2. CASE pc' = "exit"
    <3>1. stdout' = stdout /\ status' = 1
      BY <1>8, <2>1, <2>2 DEF ReadSection, Exit
    <3>2. Outcome(stdout', status')
      BY <1>2, <1>7, <2>1, <3>1 DEF Outcome
    <3>3. QED BY <1>4, <1>5, <2>1, <2>2, <3>2
  <2>3. CASE pc' # "exit"
    <3>1. /\ pc' = "sections" /\ scn' = scn + 1
          /\ stdout' = IF file[scn].note /\ file[scn].uuid # NULL
                       THEN Append(stdout, file[scn].uuid) ELSE stdout
      BY <1>8, <2>1, <2>3 DEF ReadSection, Exit
    <3>2. scn \in 0..Len(file) /\ scn # 0 /\ scn' - 1 = scn /\ scn' <= Len(file) + 1
      BY <1>3, <2>1, <3>1
    <3>3. stdout' = Notes[scn]
      BY <1>3, <1>7, <2>1, <3>1, <3>2, NotesStep DEF NotesOf
    <3>4. Notes' = Notes
      BY <2>1 DEF Notes
    <3>5. QED BY <1>4, <2>1, <3>1, <3>2, <3>3, <3>4 DEF OutcomeInv
  <2>4. QED BY <2>2, <2>3
<1>9. CASE ReturnNotesFound
  <2>1. /\ pc = "sections" /\ pc' = "exit" /\ file' = file /\ stdout' = stdout
        /\ status' = Len(stdout) % 256 /\ scn > Len(file)
    BY <1>9 DEF ReturnNotesFound, Exit, reading
  <2>2. scn - 1 = Len(file)
    BY <1>3, <1>7, <2>1
  <2>3. Outcome(stdout', status')
    BY <1>2, <1>7, <2>1, <2>2 DEF Outcome
  <2>4. QED BY <1>4, <1>5, <2>1, <2>3
<1>10. QED BY <1>4, <1>6, <1>8, <1>9

LEMMA OutcomeStep ==
  TypeInv /\ PartInv /\ HandledInv /\ OutcomeInv /\ [Next]_vars => HandledInv' /\ OutcomeInv'
<1> SUFFICES ASSUME TypeInv, PartInv, HandledInv, OutcomeInv, [Next]_vars
             PROVE  HandledInv' /\ OutcomeInv'
  OBVIOUS
<1>1. ASSUME pc' \notin {"sections", "exit"} PROVE OutcomeInv'
  BY <1>1 DEF OutcomeInv
<1>2. ASSUME pc' = "exit", given' = given, file' = file, Outcome(stdout', status')
      PROVE  HandledInv' /\ OutcomeInv'
  BY <1>2, HandledAtExit, OutcomePrimed DEF OutcomeInv
<1>3. CASE GetoptInitialize \/ Shuffle \/ ExchangeShortBottom \/ ExchangeShortTop
  <2>1. pc' \notin {"sections", "exit"}
    BY <1>3 DEF GetoptInitialize, Shuffle, Exchange, ExchangeShortBottom, ExchangeShortTop
  <2>2. QED BY <1>1, <1>3, <2>1, HandledShuffle
<1>4. CASE ExchangeReturns \/ SkipOperands \/ EndOfOptions
  <2>1. pc' \notin {"sections", "exit"}
    BY <1>4 DEF ExchangeReturns, SkipOperands, EndOfOptions, Exchange
  <2>2. QED BY <1>1, <1>4, <2>1, HandledOperands
<1>5. CASE Stop
  <2>1. pc = "stop" /\ pc' = "main" /\ UNCHANGED <<given, args_info, stdout>>
    BY <1>5 DEF Stop
  <2>2. QED BY <1>1, <2>1, HandledPrimed DEF HandledInv, HandledAt
<1>6. CASE LongFound
  BY <1>1, <1>6, HandledLongFound DEF LongFound
<1>7. CASE UpdateArg
  BY <1>1, <1>7, HandledUpdateArg DEF UpdateArg
<1>8. CASE LongInvalid \/ ShortInvalid \/ ShortFound
  <2>1. pc' = "exit" /\ given' = given /\ file' = file
    BY <1>8 DEF LongInvalid, ShortInvalid, ShortFound, Fail, ParserFails, PrintAndExit, Exit, reading
  <2>2. QED BY <1>2, <1>8, <2>1, OutcomeAtOption
<1>9. CASE LongExits \/ GivenTwice
  <2>1. pc' = "exit" /\ given' = given /\ file' = file
    BY <1>9 DEF LongExits, GivenTwice, Fail, ParserFails, PrintAndExit, Exit, reading
  <2>2. QED BY <1>2, <1>9, <2>1, OutcomeAtFound
<1>10. CASE Main
  <2>1. pc' # "sections" /\ given' = given /\ file' = file
    BY <1>10 DEF Main, Exit, reading
  <2>2. QED BY <1>1, <1>2, <1>10, <2>1, MainHandled
<1>11. CASE GenerateFails \/ GenerateSignature
  <2>1. pc' = "exit" /\ given' = given /\ file' = file
    BY <1>11 DEF GenerateFails, GenerateSignature, Exit, reading
  <2>2. QED BY <1>2, <1>11, <2>1, OutcomeGenerate
<1>12. CASE OpenElf \/ ReadSection \/ ReturnNotesFound
  BY <1>12, OutcomeShow
<1>13. CASE UNCHANGED vars
  <2>1. UNCHANGED <<pc, given, optind, option, optarg, args_info, local_given, stdout, file, scn, status>>
    BY <1>13 DEF vars, indices, found, parsed, reading
  <2>2. HandledInv'
    BY <2>1, HandledPrimed DEF HandledInv
  <2>3. Notes' = Notes
    BY <2>1 DEF Notes
  <2>4. OutcomeInv'
    BY <2>1, <2>3, OutcomePrimed DEF OutcomeInv
  <2>5. QED BY <2>2, <2>4
<1>14. QED
  BY <1>3, <1>4, <1>5, <1>6, <1>7, <1>8, <1>9, <1>10, <1>11, <1>12, <1>13
     DEF Next, Step, GetoptLong, Terminated

LEMMA OutcomeInit == Init => HandledInv /\ OutcomeInv
<1> SUFFICES ASSUME Init PROVE HandledInv /\ OutcomeInv
  OBVIOUS
<1>1. Handled(args_info, 1)
  <2>1. 1..1 - 1 = {}
    OBVIOUS
  <2>2. args_info.given[Generate] = 0 /\ args_info.given[Show] = 0 /\ args_info.show_signature_arg = 0
    BY DEF Init, Cleared
  <2>3. QED BY <2>1, <2>2 DEF Handled
<1>2. pc = "start" /\ stdout = <<>> /\ local_given = args_info.given
  BY DEF Init, Cleared
<1>3. QED BY <1>1, <1>2 DEF HandledInv, HandledAt, OutcomeInv

LEMMA OutcomeAlways == Spec => [](TypeInv /\ HandledInv /\ OutcomeInv)
  BY TypeInvInit, TypeInvStep, RotateInvInit, RotateInvStep, PartInvInit, PartInvStep,
     OutcomeInit, OutcomeStep, PTL DEF Spec

\* The parser, which permutes, agrees with reading the line once from left to
\* right, and the program prints and returns what that line means.
THEOREM OutcomeAsGivenCorrect == Spec => []OutcomeAsGiven
<1>1. TypeInv /\ HandledInv /\ OutcomeInv => OutcomeAsGiven
  <2> SUFFICES ASSUME TypeInv, HandledInv, OutcomeInv PROVE OutcomeAsGiven
    OBVIOUS
  <2>1. pc \in {"main", "generate", "show", "sections"} =>
          /\ Deciding = {}
          /\ \A o \in {Generate, Show} : args_info.given[o] > 0 <=> IsGiven(LongOptions[o].name)
          /\ args_info.show_signature_arg = ArgumentGiven("show-signature")
    BY Told, OptionNames
  <2>2. pc = "exit" => Outcome(stdout, status)
    BY DEF OutcomeInv
  <2>3. QED BY <2>1, <2>2 DEF OutcomeAsGiven, Outcome
<1>2. QED BY <1>1, OutcomeAlways, PTL
=============================================================================

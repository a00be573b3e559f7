-------------------------- MODULE ProcessInfoProofs -------------------------
(***************************************************************************)
(* What holds of ProcessInfo for any number of objects linked, and of      *)
(* plugins that threads load and unload at any time: when the library can  *)
(* come to undefined behaviour, what it leaves allocated, and that the     *)
(* server decodes the truth from what it sends: what is packed by the      *)
(* client's fields arrives by the server's tags, for tables of any length  *)
(* (RoundTrip), and the message has what the process is (GatherInv).       *)
(***************************************************************************)
EXTENDS ProcessInfo, WellFoundedInduction, TLAPS

-----------------------------------------------------------------------------
(* The loader's list.                                                      *)

\* The objects linked for good are at the front.
LinkedFirst(list) ==
  /\ list \in Seq(Objects)
  /\ Len(list) >= Len(Linked)
  /\ \A k \in 1..Len(Linked) : list[k] = Linked[k]

LEMMA LinkedType ==
  /\ Linked \in Seq(Objects) /\ Len(Linked) \in Nat /\ Len(Linked) >= 2
  /\ LinkedFirst(Linked)
  /\ \A k \in 1..Len(Linked) : Linked[k] \notin Plugins
<1>1. Linked \in Seq(Objects) /\ Len(Linked) \in Nat /\ Len(Linked) >= 2
  BY ProcessInfoAssumption DEF Objects
<1>2. \A k \in 1..Len(Linked) : Linked[k] \in Range(Linked)
  BY ProcessInfoAssumption DEF Range
<1>3. QED BY <1>1, <1>2, ProcessInfoAssumption DEF LinkedFirst

LEMMA AppendKeeps ==
  ASSUME NEW list, LinkedFirst(list), NEW o \in Plugins
  PROVE  LinkedFirst(Append(list, o)) /\ Len(Append(list, o)) = Len(list) + 1
<1>1. list \in Seq(Objects) /\ o \in Objects /\ Len(list) \in Nat
  BY DEF LinkedFirst, Objects
<1>2. QED BY <1>1, LinkedType DEF LinkedFirst

LEMMA RemoveKeeps ==
  ASSUME NEW list, LinkedFirst(list), NEW k \in DOMAIN list, list[k] \in Plugins
  PROVE  LinkedFirst(RemoveAt(list, k))
<1>1. list \in Seq(Objects) /\ Len(list) \in Nat /\ k \in 1..Len(list)
  BY DEF LinkedFirst
<1>2. k > Len(Linked)
  BY <1>1, LinkedType DEF LinkedFirst
<1> DEFINE front == SubSeq(list, 1, k - 1)
           back  == SubSeq(list, k + 1, Len(list))
<1>3. front \in Seq(Objects) /\ Len(front) = k - 1 /\ \A i \in 1..k - 1 : front[i] = list[i]
  BY <1>1
<1>4. back \in Seq(Objects)
  BY <1>1
<1> HIDE DEF front, back
<1>5. /\ front \o back \in Seq(Objects)
      /\ Len(front \o back) >= k - 1
      /\ \A i \in 1..k - 1 : (front \o back)[i] = list[i]
  BY <1>1, <1>3, <1>4
<1>6. LinkedFirst(front \o back)
  <2>1. Len(Linked) \in Nat /\ k - 1 >= Len(Linked)
    BY <1>1, <1>2, LinkedType
  <2>2. front \o back \in Seq(Objects) /\ Len(front \o back) >= Len(Linked)
    BY <1>1, <1>5, <2>1
  <2>3. ASSUME NEW i \in 1..Len(Linked) PROVE (front \o back)[i] = Linked[i]
    <3>1. i \in 1..k - 1
      BY <1>1, <2>1
    <3>2. QED BY <1>5, <3>1 DEF LinkedFirst
  <2>4. QED BY <2>2, <2>3 DEF LinkedFirst
<1>7. QED BY <1>6 DEF RemoveAt, front, back

LEMMA LinkedFront ==
  ASSUME NEW list, LinkedFirst(list)
  PROVE  SubSeq(list, 1, Len(Linked)) = Linked
  BY LinkedType DEF LinkedFirst

-----------------------------------------------------------------------------
(* The two passes.                                                         *)

\* The first pass counts the objects there are; as long as no thread disturbs,
\* these are what the second pass records and what is still loaded later.
PassInv ==
  /\ LinkedFirst(loaded)
  /\ size \in Nat
  /\ pc = "count" => DOMAIN shared_objects = {}
  /\ pc # "count" => size >= 2 /\ DOMAIN shared_objects = 1..size + 1
  /\ index \in 0..size + 1
  /\ disturbed \in BOOLEAN
  /\ pc # "count" /\ ~disturbed => Len(loaded) = size
  /\ pc \notin {"count", "record", "undefined"} /\ ~disturbed =>
       \A k \in 1..size : shared_objects[k] = SharedObject(loaded[k])
  /\ UndefinedOnlyIfDisturbed

Pcs == {"count", "record", "binpath", "modules", "cmdline", "names",
        "environment", "pack", "free", "done", "undefined"}

\* The rest of TypeOK.
RestInv ==
  /\ pc \in Pcs
  /\ process \in Processes
  /\ opened \subseteq Plugins
  /\ DOMAIN msg = DOMAIN InitMessage

LEMMA TypeFromInv == PassInv /\ RestInv => TypeOK
<1> SUFFICES ASSUME PassInv, RestInv PROVE TypeOK
  OBVIOUS
<1>1. SubSeq(loaded, 1, Len(Linked)) = Linked /\ loaded \in Seq(Objects)
  BY LinkedFront DEF PassInv, LinkedFirst
<1>2. pc # "count" => SharedObjectCount \in Nat
  BY DEF PassInv, SharedObjectCount
<1>3. QED BY <1>1, <1>2 DEF PassInv, RestInv, TypeOK, Pcs

\* The steps of the other threads.
LEMMA PassInvThreads ==
  ASSUME PassInv, NEW o \in Plugins, DlOpen(o) \/ DlClose(o)
  PROVE  PassInv'
<1>1. LinkedFirst(loaded')
  BY AppendKeeps, RemoveKeeps DEF DlOpen, DlClose, PassInv
<1>2. /\ UNCHANGED <<pc, process, size, index, shared_objects>>
      /\ disturbed' = (disturbed \/ pc # "count") /\ Running
  BY DEF DlOpen, DlClose, so_infos
<1>3. LinkedFirst(loaded)'
  BY <1>1 DEF LinkedFirst
<1>4. UndefinedOnlyIfDisturbed'
  BY <1>2 DEF UndefinedOnlyIfDisturbed, Running
<1>5. disturbed' \in BOOLEAN
  BY <1>2, Zenon DEF PassInv
<1>6. pc' # "count" => disturbed'
  BY <1>2, Zenon DEF PassInv
<1>7. QED BY <1>2, <1>3, <1>4, <1>5, <1>6 DEF PassInv

\* The second pass.
LEMMA PassInvRecord ==
  ASSUME PassInv, RecordObjects \/ RecordOverruns
  PROVE  PassInv'
<1>1. pc = "record" /\ UNCHANGED <<process, loaded, disturbed, size>>
  BY DEF RecordObjects, RecordOverruns, threads, so_infos
<1>2. Len(loaded) \in Nat /\ size \in Nat /\ size >= 2 /\ (~disturbed => Len(loaded) = size)
  BY <1>1 DEF PassInv, LinkedFirst
<1>3. LinkedFirst(loaded)'
  BY <1>1 DEF PassInv, LinkedFirst
<1>4. CASE RecordObjects
  <2>1. /\ pc' = "binpath" /\ index' = Len(loaded) /\ Len(loaded) <= size + 1
        /\ shared_objects' = [k \in 1..size + 1 |->
             IF k <= Len(loaded) THEN SharedObject(loaded[k]) ELSE JUNK]
    BY <1>4 DEF RecordObjects
  <2>2. DOMAIN shared_objects' = 1..size + 1 /\ index' \in 0..size + 1
    BY <1>2, <2>1
  <2>3. ~disturbed => \A k \in 1..size : shared_objects'[k] = SharedObject(loaded[k])
    BY <1>2, <2>1
  <2>4. ~disturbed' => \A k \in 1..size' : shared_objects'[k] = SharedObject(loaded[k])'
    BY <1>1, <2>3 DEF SharedObject, NormalizedPath
  <2>5. QED BY <1>1, <1>2, <1>3, <2>1, <2>2, <2>4 DEF PassInv, UndefinedOnlyIfDisturbed
<1>5. CASE RecordOverruns
  <2>1. pc' = "undefined" /\ UNCHANGED <<index, shared_objects>> /\ Len(loaded) > size + 1
    BY <1>5 DEF RecordOverruns, so_infos
  <2>2. disturbed
    BY <1>2, <2>1
  <2>3. QED BY <1>1, <1>2, <1>3, <2>1, <2>2 DEF PassInv, UndefinedOnlyIfDisturbed
<1>6. QED BY <1>4, <1>5

\* What was recorded can be read, unless a thread disturbed.
LEMMA ListedReadable ==
  ASSUME PassInv, pc = "pack", ~disturbed, NEW k \in DOMAIN Listed
  PROVE  Readable(Listed[k])
<1>1. /\ size \in Nat /\ size >= 2 /\ Len(loaded) = size /\ loaded \in Seq(Objects)
      /\ DOMAIN shared_objects = 1..size + 1
      /\ \A n \in 1..size : shared_objects[n] = SharedObject(loaded[n])
  BY DEF PassInv, LinkedFirst
<1>2. k \in 1..size - 2
  BY DEF Listed, SharedObjectCount
<1>3. 2 + k \in 1..size /\ 2 + k \in DOMAIN shared_objects /\ 2 + k \in DOMAIN loaded
  BY <1>1, <1>2
<1>4. PICK o \in Objects : o = loaded[2 + k] /\ o \in Range(loaded)
  BY <1>1, <1>3 DEF Range
<1>5. Listed[k] = SharedObject(o)
  BY <1>1, <1>3, <1>4 DEF Listed, SharedObjectAt, Blank
<1>6. SharedObject(o) \in [object : Objects, path : Objects \cup {NULL},
                           signature : STRING \cup {NULL}]
  BY ProcessInfoAssumption DEF SharedObject, NormalizedPath
<1>7. SharedObject(o) # JUNK /\ SharedObject(o).object = o
  BY <1>6, ProcessInfoAssumption DEF SharedObject
<1>8. QED BY <1>4, <1>5, <1>7 DEF Readable

\* The steps that end in undefined behaviour.
LEMMA PassInvUndefined ==
  ASSUME PassInv, BinpathOverruns \/ CmdlineOverruns \/ PackReadsGarbage
  PROVE  PassInv'
<1>1. /\ pc \in {"binpath", "cmdline", "pack"} /\ pc' = "undefined"
      /\ UNCHANGED <<process, loaded, disturbed, size, index, shared_objects>>
  BY DEF BinpathOverruns, CmdlineOverruns, PackReadsGarbage, Undefined, threads, so_infos
<1>2. CmdlineBytes' = CmdlineBytes
  BY <1>1 DEF CmdlineBytes
<1>3. \/ disturbed \/ process.exe_fills \/ process.arguments = NULL
      \/ Len(CmdlineBytes) >= PathMax
  BY ListedReadable DEF BinpathOverruns, CmdlineOverruns, PackReadsGarbage
<1>4. UndefinedOnlyIfDisturbed'
  BY <1>1, <1>2, <1>3 DEF UndefinedOnlyIfDisturbed
<1>5. QED BY <1>1, <1>4 DEF PassInv, LinkedFirst

\* The steps that make the message and free it.
LEMMA PassInvMessage ==
  ASSUME PassInv,
         \/ GetBinpath \/ GetModules \/ GetCmdline \/ GetNames \/ GetEnvironment
         \/ PackMessage \/ SendAndFree
  PROVE  PassInv'
<1>1. /\ pc \notin {"count", "record", "undefined"} /\ pc' \notin {"count", "record", "undefined"}
      /\ UNCHANGED <<process, loaded, disturbed, size, index, shared_objects>>
  BY DEF GetBinpath, GetModules, GetCmdline, GetNames, GetEnvironment, PackMessage, SendAndFree,
     threads, so_infos
<1>2. QED BY <1>1 DEF PassInv, LinkedFirst, UndefinedOnlyIfDisturbed, SharedObject, NormalizedPath

LEMMA PassInvStep == PassInv /\ [Next]_vars => PassInv'
<1> SUFFICES ASSUME PassInv, [Next]_vars PROVE PassInv'
  OBVIOUS
<1>1. CASE CountObjects
  <2>1. /\ pc = "count" /\ pc' = "record" /\ size' = Len(loaded) /\ index' = 0
        /\ shared_objects' = [k \in 1..Len(loaded) + 1 |-> JUNK]
        /\ UNCHANGED <<process, loaded, disturbed>>
    BY <1>1 DEF CountObjects, threads
  <2>2. Len(loaded) \in Nat /\ Len(loaded) >= 2
    BY LinkedType DEF PassInv, LinkedFirst
  <2>3. index' \in 0..size' + 1 /\ DOMAIN shared_objects' = 1..size' + 1 /\ size' \in Nat
    BY <2>1, <2>2
  <2>4. QED BY <2>1, <2>2, <2>3 DEF PassInv, LinkedFirst, UndefinedOnlyIfDisturbed
<1>2. CASE Ended \/ UNCHANGED vars
  <2>1. UNCHANGED <<pc, process, loaded, disturbed, size, index, shared_objects>>
    BY <1>2 DEF Ended, vars, threads, so_infos
  <2>2. CmdlineBytes' = CmdlineBytes
    BY <2>1 DEF CmdlineBytes
  <2>3. QED BY <2>1, <2>2 DEF PassInv, LinkedFirst, UndefinedOnlyIfDisturbed, SharedObject,
            NormalizedPath
<1>3. QED BY <1>1, <1>2, PassInvThreads, PassInvRecord, PassInvUndefined, PassInvMessage DEF Next

LEMMA RestInvStep == RestInv /\ [Next]_vars => RestInv'
<1> SUFFICES ASSUME RestInv, [Next]_vars PROVE RestInv'
  OBVIOUS
<1>1. pc' = pc \/ pc' \in Pcs
  BY DEF Next, CountObjects, RecordObjects, RecordOverruns, GetBinpath, BinpathOverruns, GetModules,
     GetCmdline, CmdlineOverruns, GetNames, GetEnvironment, PackMessage, PackReadsGarbage,
     SendAndFree, DlOpen, DlClose, Ended, Undefined, vars, Pcs
<1>2. process' = process
  BY DEF Next, CountObjects, RecordObjects, RecordOverruns, GetBinpath, BinpathOverruns, GetModules,
     GetCmdline, CmdlineOverruns, GetNames, GetEnvironment, PackMessage, PackReadsGarbage,
     SendAndFree, DlOpen, DlClose, Ended, Undefined, vars
<1>3. opened' = opened \/ \E o \in Plugins : opened' = opened \cup {o}
  BY DEF Next, CountObjects, RecordObjects, RecordOverruns, GetBinpath, BinpathOverruns, GetModules,
     GetCmdline, CmdlineOverruns, GetNames, GetEnvironment, PackMessage, PackReadsGarbage,
     SendAndFree, DlOpen, DlClose, Ended, Undefined, vars, threads
<1>4. DOMAIN msg' = DOMAIN msg
  BY DEF Next, CountObjects, RecordObjects, RecordOverruns, GetBinpath, BinpathOverruns, GetModules,
     GetCmdline, CmdlineOverruns, GetNames, GetEnvironment, PackMessage, PackReadsGarbage,
     SendAndFree, DlOpen, DlClose, Ended, Undefined, vars
<1>5. QED BY <1>1, <1>2, <1>3, <1>4 DEF RestInv, InitMessage

LEMMA InvInit == Init => PassInv /\ RestInv
<1> SUFFICES ASSUME Init PROVE PassInv /\ RestInv
  OBVIOUS
<1>1. LinkedFirst(loaded)
  BY LinkedType DEF Init
<1>2. pc = "count" /\ size = 0 /\ index = 0 /\ DOMAIN shared_objects = {} /\ disturbed = FALSE
  BY DEF Init
<1>3. size \in Nat /\ index \in 0..size + 1
  BY <1>2
<1>4. PassInv
  BY <1>1, <1>2, <1>3 DEF PassInv, UndefinedOnlyIfDisturbed
<1>5. QED BY <1>4 DEF Init, RestInv, Pcs

LEMMA PassInvAlways == Spec => [](PassInv /\ RestInv)
  BY InvInit, PassInvStep, RestInvStep, PTL DEF Spec

\* The type invariant; the number of objects sent is never negative.
THEOREM TypeCorrect == Spec => []TypeOK
  BY PassInvAlways, TypeFromInv, PTL

\* Only a thread that loads or unloads, or what /proc says, makes the library
\* come to undefined behaviour.
THEOREM UndefinedOnlyIfDisturbedCorrect == Spec => []UndefinedOnlyIfDisturbed
<1>1. PassInv => UndefinedOnlyIfDisturbed
  BY DEF PassInv
<1>2. QED BY <1>1, PassInvAlways, PTL

-----------------------------------------------------------------------------
(* The heap.                                                               *)

Single == {"binpath", "infos", "buffer", "username", "hostname", "cmdline", "modules"} \X {0}

\* What SendAndFree frees, but for the paths.
FreedWith(message) ==
  Single \cup ({"name", "module"} \X DOMAIN message.loaded_modules)
         \cup ({"variable"} \X DOMAIN message.environment_variables)

\* All that is allocated is a path for which there was room, or can be freed;
\* the path behind the last object counted is that of an object loaded since.
HeapInv ==
  /\ heap \subseteq ({"path"} \X (1..size + 1)) \cup FreedWith(msg)
  /\ <<"path", size + 1>> \in heap => disturbed
  /\ pc = "count" => heap = {}
  /\ pc = "record" => heap = {<<"infos", 0>>}
  /\ pc \in {"count", "record", "binpath", "modules"} => DOMAIN msg.loaded_modules = {}
  /\ pc \in {"count", "record", "binpath", "modules", "cmdline", "names", "environment"} =>
       DOMAIN msg.environment_variables = {}
  /\ HeapBalanced

LEMMA SingleType ==
  /\ \A name \in {"binpath", "infos", "buffer", "username", "hostname", "cmdline", "modules"} :
       \A message : <<name, 0>> \in FreedWith(message)
  /\ \A message, k : <<"path", k>> \notin FreedWith(message)
  BY DEF Single, FreedWith

\* The path of an object behind those counted is only there if one was loaded
\* since.
LEMMA HeapInvRecord ==
  ASSUME PassInv, HeapInv, RecordObjects
  PROVE  HeapInv'
<1> DEFINE There == {n \in DOMAIN loaded : loaded[n] \notin Unresolvable}
<1>1. /\ pc = "record" /\ pc' = "binpath" /\ UNCHANGED <<size, msg, disturbed>>
      /\ Len(loaded) <= size + 1 /\ heap = {<<"infos", 0>>}
      /\ heap' = heap \cup {<<"path", k>> : k \in There}
  BY DEF RecordObjects, threads, HeapInv
<1>2. /\ There \subseteq 1..size + 1
      /\ ~disturbed => size + 1 \notin There
  <2>1. DOMAIN loaded = 1..Len(loaded) /\ Len(loaded) \in Nat /\ size \in Nat
        /\ (~disturbed => Len(loaded) = size)
    BY <1>1 DEF PassInv, LinkedFirst
  <2>2. QED BY <1>1, <2>1
<1> HIDE DEF There
<1>3. heap' \subseteq ({"path"} \X (1..size + 1)) \cup FreedWith(msg)
  <2>1. ASSUME NEW k \in There PROVE <<"path", k>> \in {"path"} \X (1..size + 1)
    BY <1>2
  <2>2. <<"infos", 0>> \in FreedWith(msg)
    BY SingleType
  <2>3. QED BY <1>1, <2>1, <2>2
<1>4. <<"path", size + 1>> \in heap' => disturbed
  <2>1. <<"path", size + 1>> # <<"infos", 0>>
    OBVIOUS
  <2>2. ASSUME NEW k \in There, <<"path", size + 1>> = <<"path", k>> PROVE k = size + 1
    BY <2>2
  <2>3. QED BY <1>1, <1>2, <2>1, <2>2
<1>5. QED BY <1>1, <1>3, <1>4 DEF HeapInv, HeapBalanced, FreedWith

\* Steps that allocate what will be freed, and tell it in the message.
LEMMA HeapInvAllocates ==
  ASSUME HeapInv, UNCHANGED <<size, disturbed>>,
         pc' \in {"modules", "cmdline", "names", "environment", "pack", "free", "undefined"},
         NEW more, heap' = heap \cup more, more \subseteq FreedWith(msg'),
         FreedWith(msg) \subseteq FreedWith(msg'),
         pc' = "modules" => DOMAIN msg'.loaded_modules = {},
         pc' \in {"modules", "cmdline", "names", "environment"} =>
           DOMAIN msg'.environment_variables = {}
  PROVE  HeapInv'
<1>1. heap' \subseteq ({"path"} \X (1..size + 1)) \cup FreedWith(msg')
  BY DEF HeapInv
<1>2. <<"path", size + 1>> \in heap' => disturbed
  BY SingleType DEF HeapInv
<1>3. QED BY <1>1, <1>2 DEF HeapInv, HeapBalanced, FreedWith

LEMMA HeapInvMessage ==
  ASSUME RestInv, HeapInv,
         \/ GetBinpath \/ GetModules \/ GetCmdline \/ GetNames \/ GetEnvironment \/ PackMessage
  PROVE  HeapInv'
<1>1. UNCHANGED <<size, disturbed>>
  BY DEF GetBinpath, GetModules, GetCmdline, GetNames, GetEnvironment, PackMessage, threads, so_infos
<1>2. "loaded_modules" \in DOMAIN msg /\ "environment_variables" \in DOMAIN msg
  BY DEF RestInv, InitMessage
<1>3. CASE GetBinpath
  <2> DEFINE more == IF process.exe = NULL THEN {} ELSE {<<"binpath", 0>>}
  <2>1. /\ pc = "binpath" /\ pc' = "modules" /\ heap' = heap \cup more
        /\ msg'.loaded_modules = msg.loaded_modules
        /\ msg'.environment_variables = msg.environment_variables
    BY <1>2, <1>3 DEF GetBinpath
  <2>2. more \subseteq FreedWith(msg')
    BY SingleType
  <2> HIDE DEF more
  <2>3. FreedWith(msg) = FreedWith(msg')
    BY <2>1 DEF FreedWith
  <2>4. DOMAIN msg'.loaded_modules = {} /\ DOMAIN msg'.environment_variables = {}
    BY <2>1 DEF HeapInv
  <2>5. QED BY <1>1, <2>1, <2>2, <2>3, <2>4, HeapInvAllocates
<1>4. CASE GetModules
  <2> DEFINE more == ({"module", "name"} \X DOMAIN Modules)
                       \cup IF Modules = <<>> THEN {} ELSE {<<"modules", 0>>}
  <2>1. /\ pc = "modules" /\ pc' = "cmdline" /\ heap' = heap \cup more
        /\ DOMAIN msg'.loaded_modules = DOMAIN Modules
        /\ msg'.environment_variables = msg.environment_variables
    BY <1>2, <1>4 DEF GetModules
  <2>2. more \subseteq FreedWith(msg')
    BY <2>1, SingleType DEF FreedWith
  <2> HIDE DEF more
  <2>3. DOMAIN msg.loaded_modules = {} /\ DOMAIN msg.environment_variables = {}
    BY <2>1 DEF HeapInv
  <2>4. FreedWith(msg) \subseteq FreedWith(msg') /\ DOMAIN msg'.environment_variables = {}
    BY <2>1, <2>3 DEF FreedWith
  <2>5. QED BY <1>1, <2>1, <2>2, <2>4, HeapInvAllocates
<1>5. CASE GetCmdline
  <2>1. /\ pc = "cmdline" /\ pc' = "names" /\ heap' = heap \cup {<<"cmdline", 0>>}
        /\ msg'.loaded_modules = msg.loaded_modules
        /\ msg'.environment_variables = msg.environment_variables
    BY <1>2, <1>5 DEF GetCmdline
  <2>2. {<<"cmdline", 0>>} \subseteq FreedWith(msg')
    BY SingleType
  <2>3. FreedWith(msg) = FreedWith(msg')
    BY <2>1 DEF FreedWith
  <2>4. DOMAIN msg'.environment_variables = {}
    BY <2>1 DEF HeapInv
  <2>5. QED BY <1>1, <2>1, <2>2, <2>3, <2>4, HeapInvAllocates
<1>6. CASE GetNames
  <2> DEFINE more == (IF process.username = NULL THEN {} ELSE {<<"username", 0>>})
                       \cup (IF process.hostname = NULL THEN {} ELSE {<<"hostname", 0>>})
  <2>1. /\ pc = "names" /\ pc' = "environment" /\ heap' = heap \cup more
        /\ msg'.loaded_modules = msg.loaded_modules
        /\ msg'.environment_variables = msg.environment_variables
    BY <1>2, <1>6 DEF GetNames
  <2>2. more \subseteq FreedWith(msg')
    BY SingleType
  <2> HIDE DEF more
  <2>3. FreedWith(msg) = FreedWith(msg')
    BY <2>1 DEF FreedWith
  <2>4. DOMAIN msg'.environment_variables = {}
    BY <2>1 DEF HeapInv
  <2>5. QED BY <1>1, <2>1, <2>2, <2>3, <2>4, HeapInvAllocates
<1>7. CASE GetEnvironment
  <2> DEFINE more == {<<"variable", k>> : k \in DOMAIN Exported}
  <2>1. /\ pc = "environment" /\ pc' = "pack" /\ heap' = heap \cup more
        /\ msg'.loaded_modules = msg.loaded_modules
        /\ DOMAIN msg'.environment_variables = DOMAIN Exported
    BY <1>2, <1>7 DEF GetEnvironment
  <2>2. more \subseteq FreedWith(msg')
    BY <2>1 DEF FreedWith
  <2> HIDE DEF more
  <2>3. DOMAIN msg.environment_variables = {}
    BY <2>1 DEF HeapInv
  <2>4. FreedWith(msg) \subseteq FreedWith(msg')
    BY <2>1, <2>3 DEF FreedWith
  <2>5. QED BY <1>1, <2>1, <2>2, <2>4, HeapInvAllocates
<1>8. CASE PackMessage
  <2>1. /\ pc = "pack" /\ pc' = "free" /\ heap' = heap \cup {<<"buffer", 0>>}
        /\ msg'.loaded_modules = msg.loaded_modules
        /\ msg'.environment_variables = msg.environment_variables
    BY <1>2, <1>8 DEF PackMessage
  <2>2. {<<"buffer", 0>>} \subseteq FreedWith(msg')
    BY SingleType
  <2>3. FreedWith(msg) = FreedWith(msg')
    BY <2>1 DEF FreedWith
  <2>4. QED BY <1>1, <2>1, <2>2, <2>3, HeapInvAllocates
<1>9. QED BY <1>3, <1>4, <1>5, <1>6, <1>7, <1>8

\* Of what is allocated, only the path behind the objects counted stays.
LEMMA HeapInvFree ==
  ASSUME PassInv, HeapInv, SendAndFree
  PROVE  HeapInv'
<1>1. /\ pc' = "done" /\ UNCHANGED <<size, msg, disturbed>>
      /\ heap' = heap \ (FreedPaths \cup FreedWith(msg))
  BY DEF SendAndFree, threads, so_infos, FreedWith, Single
<1>2. size \in Nat /\ FreedPaths = {"path"} \X (1..size)
  BY DEF PassInv, FreedPaths
<1>3. heap' \subseteq {<<"path", size + 1>>}
  BY <1>1, <1>2 DEF HeapInv
<1>4. heap' # {} => disturbed
  BY <1>1, <1>3 DEF HeapInv
<1>5. HeapBalanced'
  BY <1>1, <1>3, <1>4 DEF HeapBalanced
<1>6. QED BY <1>1, <1>5 DEF HeapInv, FreedWith

LEMMA HeapInvStep == PassInv /\ RestInv /\ HeapInv /\ [Next]_vars => HeapInv'
<1> SUFFICES ASSUME PassInv, RestInv, HeapInv, [Next]_vars PROVE HeapInv'
  OBVIOUS
<1>1. CASE CountObjects
  <2>1. /\ pc = "count" /\ pc' = "record" /\ UNCHANGED <<msg, disturbed>>
        /\ heap' = {<<"infos", 0>>}
    BY <1>1 DEF CountObjects, threads
  <2>2. heap' \subseteq FreedWith(msg) /\ <<"path", size' + 1>> \notin heap'
    BY <2>1, SingleType
  <2>3. QED BY <2>1, <2>2 DEF HeapInv, HeapBalanced, FreedWith
<1>2. ASSUME pc' = pc \/ pc' = "undefined", UNCHANGED <<heap, msg, size>>,
             disturbed => disturbed'
      PROVE  HeapInv'
  BY <1>2 DEF HeapInv, HeapBalanced, FreedWith
<1>3. CASE RecordOverruns \/ BinpathOverruns \/ CmdlineOverruns \/ PackReadsGarbage
           \/ Ended \/ UNCHANGED vars
  BY <1>2, <1>3 DEF RecordOverruns, BinpathOverruns, CmdlineOverruns, PackReadsGarbage, Undefined,
     Ended, vars, threads, so_infos
<1>4. CASE \E o \in Plugins : DlOpen(o) \/ DlClose(o)
  BY <1>2, <1>4 DEF DlOpen, DlClose, so_infos
<1>5. QED BY <1>1, <1>3, <1>4, HeapInvRecord, HeapInvMessage, HeapInvFree DEF Next

\* All that is allocated is freed, but for the path of an object that was loaded
\* between the passes.
THEOREM HeapBalancedCorrect == Spec => []HeapBalanced
<1>1. Init => HeapInv
  BY DEF Init, HeapInv, HeapBalanced, InitMessage
<1>2. HeapInv => HeapBalanced
  BY DEF HeapInv
<1>3. QED BY <1>1, <1>2, PassInvAlways, HeapInvStep, PTL DEF Spec

-----------------------------------------------------------------------------
(* Recursion over numbers and sequences.                                   *)

Less == {pair \in Nat \X Nat : pair[1] < pair[2]}

\* Induction, from the least number that is not in the set.
LEMMA SetInduction ==
  ASSUME NEW S, NEW last \in Nat, 0 \in S,
         \A n \in 0..last - 1 : n \in S => n + 1 \in S
  PROVE  0..last \subseteq S
<1> DEFINE Missing == (0..last) \ S
<1> SUFFICES ASSUME Missing # {} PROVE FALSE
  OBVIOUS
<1>1. IsWellFoundedOn(Less, Nat)
  BY NatLessThanWellFounded, Zenon DEF OpToRel, Less
<1>2. Missing \subseteq Nat
  OBVIOUS
<1>3. PICK n \in Missing : \A m \in Missing : ~(<<m, n>> \in Less)
  BY <1>1, <1>2, WFMin
<1>4. n # 0 /\ n \in 0..last
  OBVIOUS
<1>5. n - 1 \in 0..last - 1 /\ n - 1 \in 0..last /\ <<n - 1, n>> \in Less
  BY <1>4 DEF Less
<1>6. n - 1 \in S /\ (n - 1) + 1 = n
  BY <1>3, <1>4, <1>5
<1>7. n \in S
  BY <1>5, <1>6
<1>8. QED BY <1>7

\* What holds of the empty sequence, and with each sequence of the longer ones.
LEMMA SeqInduction ==
  ASSUME NEW A, NEW P, <<>> \in P,
         \A s \in Seq(A), e \in A : s \in P => Append(s, e) \in P
  PROVE  Seq(A) \subseteq P
<1> DEFINE S == {n \in Nat : \A s \in Seq(A) : Len(s) = n => s \in P}
<1>1. 0 \in S
  <2>1. \A s \in Seq(A) : Len(s) = 0 => s = <<>>
    OBVIOUS
  <2>2. QED BY <2>1
<1>2. ASSUME NEW n \in Nat, n \in S PROVE n + 1 \in S
  <2> SUFFICES ASSUME NEW s \in Seq(A), Len(s) = n + 1 PROVE s \in P
    OBVIOUS
  <2> DEFINE front == SubSeq(s, 1, n)
  <2>1. front \in Seq(A) /\ Len(front) = n /\ s[n + 1] \in A
    OBVIOUS
  <2>2. s = Append(front, s[n + 1])
    OBVIOUS
  <2>3. front \in P
    BY <1>2, <2>1
  <2> HIDE DEF front
  <2>4. QED BY <2>1, <2>2, <2>3
<1>3. ASSUME NEW s \in Seq(A) PROVE s \in P
  <2>1. Len(s) \in Nat
    OBVIOUS
  <2>2. Len(s) \in S
    <3> HIDE DEF S
    <3>1. 0..Len(s) \subseteq S
      BY <1>1, <1>2, <2>1, SetInduction
    <3>2. QED BY <2>1, <3>1
  <2>3. QED BY <2>2
<1>4. QED BY <1>3

\* A function that is defined by its first value and by the step to the next.
Steps(step, N, V) == step \in [1..N -> [V -> V]]

Follows(f, N, V, first, step) ==
  f \in [0..N -> V] /\ f[0] = first /\ \A n \in 1..N : f[n] = step[n][f[n - 1]]

LEMMA Recursion ==
  ASSUME NEW N \in Nat, NEW V, NEW first \in V, NEW step, Steps(step, N, V)
  PROVE  \E f : Follows(f, N, V, first, step)
<1> USE DEF Steps, Follows
<1> DEFINE Defines(f, m) == f[0] = first /\ \A n \in 1..m : f[n] = step[n][f[n - 1]]
           S == {m \in 0..N : \E f \in [0..m -> V] : Defines(f, m)}
<1>1. 0 \in S
  <2> DEFINE f == [n \in 0..0 |-> first]
  <2>1. f \in [0..0 -> V] /\ Defines(f, 0) /\ 0 \in 0..N
    OBVIOUS
  <2> HIDE DEF f
  <2>2. QED BY <2>1
<1>2. ASSUME NEW m \in 0..N - 1, m \in S PROVE m + 1 \in S
  <2>1. PICK f \in [0..m -> V] : Defines(f, m)
    BY <1>2
  <2>2. m \in Nat /\ m + 1 \in 1..N /\ m + 1 \in 0..N /\ m \in 0..m /\ f[m] \in V
    BY <2>1
  <2> DEFINE g == [n \in 0..m + 1 |-> IF n = m + 1 THEN step[m + 1][f[m]] ELSE f[n]]
  <2>3. g \in [0..m + 1 -> V]
    <3>1. step[m + 1][f[m]] \in V
      BY <2>2
    <3>2. \A n \in 0..m + 1 : n # m + 1 => n \in 0..m
      BY <2>2
    <3>3. QED BY <3>1, <3>2
  <2>4. (\A n \in 0..m : g[n] = f[n]) /\ g[m + 1] = step[m + 1][f[m]]
    BY <2>2
  <2> HIDE DEF g
  <2>5. g[0] = first
    BY <2>1, <2>2, <2>4
  <2>6. ASSUME NEW n \in 1..m + 1 PROVE g[n] = step[n][g[n - 1]]
    <3>1. CASE n = m + 1
      <4>1. n - 1 = m
        BY <2>2, <3>1
      <4>2. QED BY <2>2, <2>4, <3>1, <4>1
    <3>2. CASE n # m + 1
      <4>1. n \in 1..m /\ n \in 0..m /\ n - 1 \in 0..m
        BY <2>2, <3>2
      <4>2. QED BY <2>1, <2>4, <4>1
    <3>3. QED BY <3>1, <3>2
  <2>7. QED BY <2>2, <2>3, <2>5, <2>6
<1>3. N \in S
  <2> HIDE DEF S
  <2>1. 0..N \subseteq S
    BY <1>1, <1>2, SetInduction
  <2>2. QED BY <2>1
<1>4. QED BY <1>3

\* The step determines the values.
StepsAlike(f, g, N) == \A n \in 1..N : f[n - 1] = g[n - 1] => f[n] = g[n]

LEMMA SameRecursion ==
  ASSUME NEW N \in Nat, NEW f, NEW g, f[0] = g[0], StepsAlike(f, g, N)
  PROVE  \A n \in 0..N : f[n] = g[n]
<1> USE DEF StepsAlike
<1> DEFINE S == {n \in 0..N : f[n] = g[n]}
<1>1. 0 \in S
  OBVIOUS
<1>2. ASSUME NEW n \in 0..N - 1, n \in S PROVE n + 1 \in S
  <2>1. n + 1 \in 1..N /\ n + 1 \in 0..N /\ (n + 1) - 1 = n
    OBVIOUS
  <2>2. QED BY <1>2, <2>1
<1>3. 0..N \subseteq S
  <2> HIDE DEF S
  <2>1. QED BY <1>1, <1>2, SetInduction
<1>4. QED BY <1>3

-----------------------------------------------------------------------------
(* The operators on sequences.                                             *)

IsConcat(r, s, t) ==
  /\ Len(r) = Len(s) + Len(t)
  /\ \A k \in 1..Len(s) : r[k] = s[k]
  /\ \A k \in 1..Len(t) : r[Len(s) + k] = t[k]

LEMMA ConcatIs ==
  ASSUME NEW A, NEW s \in Seq(A), NEW t \in Seq(A)
  PROVE  s \o t \in Seq(A) /\ IsConcat(s \o t, s, t)
BY DEF IsConcat

IsAppend(t, s, e) ==
  /\ t = [k \in 1..Len(s) + 1 |-> t[k]]
  /\ \A k \in 1..Len(s) : t[k] = s[k]
  /\ t[Len(s) + 1] = e

LEMMA AppendIs ==
  ASSUME NEW A, NEW s \in Seq(A), NEW t, NEW e \in A, IsAppend(t, s, e)
  PROVE  t = Append(s, e)
<1> DEFINE u == Append(s, e)
<1>1. u = [k \in 1..Len(s) + 1 |-> u[k]] /\ Len(s) \in Nat
  <2>1. u \in Seq(A) /\ Len(u) = Len(s) + 1 /\ Len(s) \in Nat
    OBVIOUS
  <2> HIDE DEF u
  <2>2. u = [k \in 1..Len(u) |-> u[k]]
    BY <2>1
  <2>3. QED BY <2>1, <2>2
<1>2. (\A k \in 1..Len(s) : u[k] = s[k]) /\ u[Len(s) + 1] = e
  OBVIOUS
<1> HIDE DEF u
<1>3. \A k \in 1..Len(s) + 1 : k \in 1..Len(s) \/ k = Len(s) + 1
  BY <1>1
<1>4. \A k \in 1..Len(s) + 1 : t[k] = u[k]
  BY <1>2, <1>3 DEF IsAppend
<1>5. [k \in 1..Len(s) + 1 |-> t[k]] = [k \in 1..Len(s) + 1 |-> u[k]]
  BY <1>4
<1>6. t = u
  BY <1>1, <1>5 DEF IsAppend
<1>7. QED BY <1>6 DEF u

\* The right hand side of the definition in Only.
OnlyOf(upto, seq, set, n) ==
  IF n = 0 THEN <<>>
  ELSE IF seq[n] \in set THEN Append(upto[n - 1], seq[n])
  ELSE upto[n - 1]

OnlyAs(upto, seq, set) == upto = [n \in 0..Len(seq) |-> OnlyOf(upto, seq, set, n)]

LEMMA OnlyDefined ==
  ASSUME NEW A, NEW seq \in Seq(A), NEW set
  PROVE  \E upto : OnlyAs(upto, seq, set)
<1> DEFINE V == Seq(A)
           N == Len(seq)
           none == <<>>
           step == [n \in 1..N |-> [v \in V |-> IF seq[n] \in set THEN Append(v, seq[n]) ELSE v]]
<1>1. N \in Nat /\ none \in V
  OBVIOUS
<1>2. \A n \in 1..N, v \in V : Append(v, seq[n]) \in V
  OBVIOUS
<1> HIDE DEF V, N, none
<1>3. \A n \in 1..N, v \in V : step[n][v] = IF seq[n] \in set THEN Append(v, seq[n]) ELSE v
  OBVIOUS
<1>4. Steps(step, N, V)
  BY <1>2 DEF Steps
<1> HIDE DEF step
<1>5. PICK f : Follows(f, N, V, none, step)
  BY <1>1, <1>4, Recursion
<1>6. ASSUME NEW n \in 0..N PROVE f[n] = OnlyOf(f, seq, set, n)
  <2>1. CASE n = 0
    BY <1>5, <2>1 DEF OnlyOf, Follows, none
  <2>2. CASE n # 0
    <3>1. n \in 1..N /\ n - 1 \in 0..N
      BY <1>1, <2>2
    <3>2. f[n - 1] \in V
      BY <1>5, <3>1 DEF Follows
    <3>3. QED BY <1>3, <1>5, <2>2, <3>1, <3>2 DEF OnlyOf, Follows
  <2>3. QED BY <2>1, <2>2
<1>7. f = [n \in 0..N |-> OnlyOf(f, seq, set, n)]
  BY <1>5, <1>6 DEF Follows
<1>8. QED BY <1>7 DEF OnlyAs, N

\* Only is the last of the values that its definition gives.
LEMMA OnlyIs ==
  ASSUME NEW A, NEW seq \in Seq(A), NEW set
  PROVE  \E upto : /\ Only(seq, set) = upto[Len(seq)]
                   /\ \A n \in 0..Len(seq) : upto[n] = OnlyOf(upto, seq, set, n)
<1> DEFINE upto == CHOOSE f : OnlyAs(f, seq, set)
<1>1. Only(seq, set) = upto[Len(seq)]
  BY DEF Only, OnlyAs, OnlyOf
<1>2. OnlyAs(upto, seq, set)
  BY OnlyDefined, Zenon
<1> HIDE DEF upto
<1>3. QED BY <1>1, <1>2 DEF OnlyAs

LEMMA OnlyEmpty ==
  ASSUME NEW set
  PROVE  Only(<<>>, set) = <<>>
<1> DEFINE seq == <<>>
<1>1. seq \in Seq(BOOLEAN) /\ seq = <<>> /\ Len(seq) = 0
  OBVIOUS
<1> HIDE DEF seq
<1>2. PICK upto : /\ Only(seq, set) = upto[Len(seq)]
                  /\ \A n \in 0..Len(seq) : upto[n] = OnlyOf(upto, seq, set, n)
  <2>1. \A q \in Seq(BOOLEAN) :
          \E upto : /\ Only(q, set) = upto[Len(q)]
                    /\ \A n \in 0..Len(q) : upto[n] = OnlyOf(upto, q, set, n)
    BY OnlyIs
  <2>2. QED BY <1>1, <2>1, Zenon
<1>3. 0 \in 0..0
  OBVIOUS
<1>4. Only(seq, set) = <<>>
  BY <1>1, <1>2, <1>3 DEF OnlyOf
<1>5. QED BY <1>4 DEF seq

LEMMA OnlyAppend ==
  ASSUME NEW A, NEW seq \in Seq(A), NEW e \in A, NEW set
  PROVE  Only(Append(seq, e), set) =
           IF e \in set THEN Append(Only(seq, set), e) ELSE Only(seq, set)
<1> DEFINE more == Append(seq, e)
           N == Len(seq)
<1>1. /\ more \in Seq(A) /\ Len(more) = N + 1 /\ N \in Nat /\ more[N + 1] = e
      /\ \A n \in 1..N : more[n] = seq[n]
  OBVIOUS
<1> HIDE DEF more
<1>2. PICK f : Only(seq, set) = f[N] /\ \A n \in 0..N : f[n] = OnlyOf(f, seq, set, n)
  BY OnlyIs
<1>3. PICK g : Only(more, set) = g[N + 1] /\ \A n \in 0..N + 1 : g[n] = OnlyOf(g, more, set, n)
  BY <1>1, OnlyIs
<1> HIDE DEF N
<1>4. 0 \in 0..N /\ 0 \in 0..N + 1 /\ N \in 0..N /\ N + 1 \in 0..N + 1 /\ N + 1 # 0 /\ (N + 1) - 1 = N
  BY <1>1
<1>5. f[0] = g[0]
  BY <1>2, <1>3, <1>4 DEF OnlyOf
<1>6. ASSUME NEW n \in 1..N, f[n - 1] = g[n - 1] PROVE f[n] = g[n]
  <2>1. n \in 0..N /\ n \in 0..N + 1 /\ n # 0 /\ more[n] = seq[n]
    BY <1>1
  <2>2. QED BY <1>2, <1>3, <1>6, <2>1 DEF OnlyOf
<1>7. f[N] = g[N]
  <2>1. \A n \in 0..N : f[n] = g[n]
    <3>1. StepsAlike(f, g, N)
      BY <1>6 DEF StepsAlike
    <3>2. QED BY <1>1, <1>5, <3>1, SameRecursion
  <2>2. QED BY <1>4, <2>1
<1>8. g[N + 1] = IF e \in set THEN Append(g[N], e) ELSE g[N]
  BY <1>1, <1>3, <1>4 DEF OnlyOf
<1>9. QED BY <1>2, <1>3, <1>7, <1>8 DEF more

\* The same for FlattenSeq.
FlattenOf(flatten, seqs, n) == IF n = 1 THEN seqs[n] ELSE flatten[n - 1] \o seqs[n]

FlattenAs(flatten, seqs) == flatten = [n \in 1..Len(seqs) |-> FlattenOf(flatten, seqs, n)]

LEMMA FlattenDefined ==
  ASSUME NEW A, NEW seqs \in Seq(Seq(A))
  PROVE  \E flatten : FlattenAs(flatten, seqs)
<1> DEFINE V == Seq(A)
           N == Len(seqs)
           none == <<>>
           step == [n \in 1..N |-> [v \in V |-> v \o seqs[n]]]
<1>1. N \in Nat /\ none \in V /\ \A n \in 1..N : seqs[n] \in V
  OBVIOUS
<1>2. \A v \in V, w \in V : v \o w \in V
  OBVIOUS
<1>3. \A v \in V : none \o v = v
  OBVIOUS
<1> HIDE DEF V, N, none
<1>4. \A n \in 1..N, v \in V : step[n][v] = v \o seqs[n]
  OBVIOUS
<1>5. Steps(step, N, V)
  BY <1>1, <1>2 DEF Steps
<1> HIDE DEF step
<1>6. PICK f : Follows(f, N, V, none, step)
  BY <1>1, <1>5, Recursion
<1> DEFINE flatten == [n \in 1..N |-> f[n]]
<1>7. ASSUME NEW n \in 1..N PROVE f[n] = FlattenOf(flatten, seqs, n)
  <2>1. n - 1 \in 0..N /\ (n = 1 => n - 1 = 0) /\ (n # 1 => n - 1 \in 1..N)
    BY <1>1
  <2>2. f[n - 1] \in V /\ f[n] = f[n - 1] \o seqs[n]
    BY <1>4, <1>6, <2>1 DEF Follows
  <2>3. CASE n = 1
    <3>1. f[n - 1] = none
      BY <1>6, <2>1, <2>3 DEF Follows
    <3>2. QED BY <1>1, <1>3, <2>2, <2>3, <3>1 DEF FlattenOf
  <2>4. CASE n # 1
    BY <2>1, <2>2, <2>4 DEF FlattenOf
  <2>5. QED BY <2>3, <2>4
<1>8. FlattenAs(flatten, seqs)
  <2>1. flatten = [n \in 1..N |-> FlattenOf(flatten, seqs, n)]
    BY <1>7
  <2>2. QED BY <2>1 DEF FlattenAs, N
<1>9. QED BY <1>8

LEMMA FlattenIs ==
  ASSUME NEW A, NEW seqs \in Seq(Seq(A)), Len(seqs) # 0
  PROVE  \E flatten : /\ FlattenSeq(seqs) = flatten[Len(seqs)]
                      /\ \A n \in 1..Len(seqs) : flatten[n] = FlattenOf(flatten, seqs, n)
<1> DEFINE flatten == CHOOSE f : FlattenAs(f, seqs)
<1>1. FlattenSeq(seqs) = flatten[Len(seqs)]
  BY DEF FlattenSeq, FlattenAs, FlattenOf
<1>2. FlattenAs(flatten, seqs)
  BY FlattenDefined, Zenon
<1> HIDE DEF flatten
<1>3. QED BY <1>1, <1>2 DEF FlattenAs

LEMMA FlattenEmpty == FlattenSeq(<<>>) = <<>>
BY DEF FlattenSeq

LEMMA FlattenAppend ==
  ASSUME NEW A, NEW seqs \in Seq(Seq(A)), NEW s \in Seq(A)
  PROVE  FlattenSeq(Append(seqs, s)) = FlattenSeq(seqs) \o s
<1> DEFINE more == Append(seqs, s)
           N == Len(seqs)
<1>1. /\ more \in Seq(Seq(A)) /\ Len(more) = N + 1 /\ N \in Nat /\ more[N + 1] = s
      /\ \A n \in 1..N : more[n] = seqs[n]
  OBVIOUS
<1> HIDE DEF more
<1>2. Len(more) # 0
  BY <1>1
<1>3. PICK g : FlattenSeq(more) = g[Len(more)] /\ \A n \in 1..Len(more) : g[n] = FlattenOf(g, more, n)
  BY <1>1, <1>2, FlattenIs
<1>4. CASE N = 0
  <2>1. seqs = <<>>
    BY <1>4
  <2>2. FlattenSeq(seqs) \o s = s
    BY <2>1, FlattenEmpty
  <2>3. g[1] = more[1] /\ more[1] = s
    BY <1>1, <1>3, <1>4 DEF FlattenOf
  <2>4. QED BY <1>1, <1>3, <1>4, <2>2, <2>3 DEF more
<1>5. CASE N # 0
  <2>1. PICK f : FlattenSeq(seqs) = f[N] /\ \A n \in 1..N : f[n] = FlattenOf(f, seqs, n)
    BY <1>5, FlattenIs
  <2> HIDE DEF N
  <2> DEFINE S == {n \in 0..N : n = 0 \/ f[n] = g[n]}
  <2>2. 0 \in S
    BY <1>1
  <2>3. ASSUME NEW n \in 0..N - 1, n \in S PROVE n + 1 \in S
    <3>1. /\ n + 1 \in 1..N /\ n + 1 \in 1..N + 1 /\ n + 1 \in 0..N /\ (n + 1) - 1 = n
          /\ (n + 1 = 1 <=> n = 0)
      BY <1>1
    <3>2. f[n + 1] = FlattenOf(f, seqs, n + 1) /\ g[n + 1] = FlattenOf(g, more, n + 1)
      BY <1>1, <1>3, <2>1, <3>1
    <3>3. f[n + 1] = g[n + 1]
      BY <1>1, <2>3, <3>1, <3>2 DEF FlattenOf
    <3>4. QED BY <3>1, <3>3
  <2>4. f[N] = g[N]
    <3> HIDE DEF S
    <3>1. 0..N \subseteq S
      BY <1>1, <2>2, <2>3, SetInduction
    <3>2. N \in S /\ N # 0
      BY <1>1, <1>5, <3>1
    <3>3. QED BY <3>2 DEF S
  <2>5. g[N + 1] = g[N] \o s
    <3>1. N + 1 \in 1..N + 1 /\ N + 1 # 1 /\ (N + 1) - 1 = N
      BY <1>1, <1>5 DEF N
    <3>2. QED BY <1>1, <1>3, <3>1 DEF FlattenOf
  <2>6. QED BY <1>1, <1>3, <2>1, <2>4, <2>5 DEF more
<1>6. QED BY <1>4, <1>5

LEMMA FlattenType ==
  ASSUME NEW A, NEW seqs \in Seq(Seq(A))
  PROVE  FlattenSeq(seqs) \in Seq(A)
<1> DEFINE B == Seq(A)
           P == {q \in Seq(B) : FlattenSeq(q) \in B}
<1>1. <<>> \in P
  <2>1. <<>> \in Seq(B) /\ <<>> \in B
    OBVIOUS
  <2>2. FlattenSeq(<<>>) \in B
    BY <2>1, FlattenEmpty
  <2>3. QED BY <2>1, <2>2
<1>2. ASSUME NEW q \in Seq(B), NEW s \in B, q \in P PROVE Append(q, s) \in P
  <2>1. FlattenSeq(Append(q, s)) = FlattenSeq(q) \o s
    BY FlattenAppend
  <2>2. FlattenSeq(q) \o s \in B
    BY <1>2
  <2>3. Append(q, s) \in Seq(B)
    OBVIOUS
  <2>4. QED BY <2>1, <2>2, <2>3
<1>3. Seq(B) \subseteq P
  <2> HIDE DEF P, B
  <2>1. QED BY <1>1, <1>2, SeqInduction
<1>4. QED BY <1>3

-----------------------------------------------------------------------------
(* What Only selects.                                                      *)

LEMMA OnlyType ==
  ASSUME NEW A, NEW seq \in Seq(A), NEW set
  PROVE  Only(seq, set) \in Seq(A)
<1> DEFINE P == {s \in Seq(A) : Only(s, set) \in Seq(A)}
<1>1. <<>> \in P
  <2>1. <<>> \in Seq(A)
    OBVIOUS
  <2>2. Only(<<>>, set) \in Seq(A)
    BY <2>1, OnlyEmpty
  <2>3. QED BY <2>1, <2>2
<1>2. ASSUME NEW s \in Seq(A), NEW e \in A, s \in P PROVE Append(s, e) \in P
  <2>1. Only(Append(s, e), set) = IF e \in set THEN Append(Only(s, set), e) ELSE Only(s, set)
    BY OnlyAppend
  <2>2. Append(Only(s, set), e) \in Seq(A) /\ Only(s, set) \in Seq(A) /\ Append(s, e) \in Seq(A)
    BY <1>2
  <2>3. QED BY <2>1, <2>2
<1>3. Seq(A) \subseteq P
  <2> HIDE DEF P
  <2>1. QED BY <1>1, <1>2, SeqInduction
<1>4. QED BY <1>3

\* Two sets that agree on the elements of the sequence select the same.
Agree(seq, set, other) == \A k \in 1..Len(seq) : seq[k] \in set <=> seq[k] \in other

LEMMA OnlySame ==
  ASSUME NEW A, NEW seq \in Seq(A), NEW set, NEW other, Agree(seq, set, other)
  PROVE  Only(seq, set) = Only(seq, other)
<1> DEFINE P == {s \in Seq(A) : Agree(s, set, other) => Only(s, set) = Only(s, other)}
<1>1. <<>> \in P
  <2>1. <<>> \in Seq(A)
    OBVIOUS
  <2>2. Only(<<>>, set) = Only(<<>>, other)
    BY OnlyEmpty
  <2>3. QED BY <2>1, <2>2
<1>2. ASSUME NEW s \in Seq(A), NEW e \in A, s \in P PROVE Append(s, e) \in P
  <2> SUFFICES ASSUME Agree(Append(s, e), set, other)
               PROVE  Only(Append(s, e), set) = Only(Append(s, e), other)
    OBVIOUS
  <2> DEFINE more == Append(s, e)
  <2>1. /\ Len(s) \in Nat /\ Len(more) = Len(s) + 1 /\ more[Len(s) + 1] = e
        /\ \A k \in 1..Len(s) : more[k] = s[k]
    OBVIOUS
  <2>2. Agree(s, set, other) /\ (e \in set <=> e \in other)
    <3> HIDE DEF more
    <3>1. \A k \in 1..Len(more) : more[k] \in set <=> more[k] \in other
      BY DEF Agree, more
    <3>2. QED BY <2>1, <3>1 DEF Agree
  <2>3. Only(s, set) = Only(s, other)
    BY <1>2, <2>2
  <2>4. Only(Append(s, e), set) = IF e \in set THEN Append(Only(s, set), e) ELSE Only(s, set)
    BY OnlyAppend
  <2>5. Only(Append(s, e), other) =
          IF e \in other THEN Append(Only(s, other), e) ELSE Only(s, other)
    BY OnlyAppend
  <2>6. QED BY <2>2, <2>3, <2>4, <2>5
<1>3. Seq(A) \subseteq P
  <2> HIDE DEF P
  <2>1. QED BY <1>1, <1>2, SeqInduction
<1>4. QED BY <1>3

LEMMA OnlyAll ==
  ASSUME NEW A, NEW seq \in Seq(A)
  PROVE  Only(seq, A) = seq
<1> DEFINE P == {s \in Seq(A) : Only(s, A) = s}
<1>1. <<>> \in P
  <2>1. <<>> \in Seq(A)
    OBVIOUS
  <2>2. QED BY <2>1, OnlyEmpty
<1>2. ASSUME NEW s \in Seq(A), NEW e \in A, s \in P PROVE Append(s, e) \in P
  <2>1. Only(Append(s, e), A) = Append(Only(s, A), e)
    BY OnlyAppend
  <2>2. Append(s, e) \in Seq(A)
    OBVIOUS
  <2>3. QED BY <1>2, <2>1, <2>2
<1>3. Seq(A) \subseteq P
  <2> HIDE DEF P
  <2>1. QED BY <1>1, <1>2, SeqInduction
<1>4. QED BY <1>3

LEMMA OnlyNone ==
  ASSUME NEW A, NEW seq \in Seq(A)
  PROVE  Only(seq, {}) = <<>>
<1> DEFINE P == {s \in Seq(A) : Only(s, {}) = <<>>}
<1>1. <<>> \in P
  <2>1. <<>> \in Seq(A)
    OBVIOUS
  <2>2. QED BY <2>1, OnlyEmpty
<1>2. ASSUME NEW s \in Seq(A), NEW e \in A, s \in P PROVE Append(s, e) \in P
  <2>1. Only(Append(s, e), {}) = Only(s, {})
    BY OnlyAppend
  <2>2. Append(s, e) \in Seq(A)
    OBVIOUS
  <2>3. QED BY <1>2, <2>1, <2>2
<1>3. Seq(A) \subseteq P
  <2> HIDE DEF P
  <2>1. QED BY <1>1, <1>2, SeqInduction
<1>4. QED BY <1>3

LEMMA OnlyConcat ==
  ASSUME NEW A, NEW s \in Seq(A), NEW t \in Seq(A), NEW set
  PROVE  Only(s \o t, set) = Only(s, set) \o Only(t, set)
<1> DEFINE P == {u \in Seq(A) : Only(s \o u, set) = Only(s, set) \o Only(u, set)}
<1>0. Only(s, set) \in Seq(A)
  BY OnlyType
<1>1. <<>> \in P
  <2>1. <<>> \in Seq(A) /\ s \o <<>> = s
    OBVIOUS
  <2>2. Only(s, set) \o <<>> = Only(s, set)
    BY <1>0
  <2>3. QED BY <2>1, <2>2, OnlyEmpty
<1>2. ASSUME NEW u \in Seq(A), NEW e \in A, u \in P PROVE Append(u, e) \in P
  <2>1. s \o Append(u, e) = Append(s \o u, e) /\ s \o u \in Seq(A) /\ Append(u, e) \in Seq(A)
    OBVIOUS
  <2>2. Only(u, set) \in Seq(A)
    BY OnlyType
  <2>3. Only(s, set) \o Append(Only(u, set), e) = Append(Only(s, set) \o Only(u, set), e)
    BY <1>0, <2>2
  <2>4. Only(Append(u, e), set) = IF e \in set THEN Append(Only(u, set), e) ELSE Only(u, set)
    BY OnlyAppend
  <2>5. Only(Append(s \o u, e), set) =
          IF e \in set THEN Append(Only(s \o u, set), e) ELSE Only(s \o u, set)
    BY <2>1, OnlyAppend
  <2>6. Only(s \o u, set) = Only(s, set) \o Only(u, set)
    BY <1>2
  <2>7. Only(s \o Append(u, e), set) = Only(s, set) \o Only(Append(u, e), set)
    BY <2>1, <2>3, <2>4, <2>5, <2>6
  <2>8. QED BY <2>1, <2>7
<1>3. Seq(A) \subseteq P
  <2> HIDE DEF P
  <2>1. QED BY <1>1, <1>2, SeqInduction
<1>4. QED BY <1>3

\* Of parts put together, a set that has the elements of one of them, and none
\* of the others, selects that one.
Singles(parts, set, j) ==
  \A n \in 1..Len(parts) : \A i \in 1..Len(parts[n]) : parts[n][i] \in set <=> n = j

PartAt(parts, j) == IF j \in 1..Len(parts) THEN parts[j] ELSE <<>>

LEMMA OnlyFlatten ==
  ASSUME NEW A, NEW parts \in Seq(Seq(A)), NEW set, NEW j, Singles(parts, set, j)
  PROVE  Only(FlattenSeq(parts), set) = PartAt(parts, j)
<1> DEFINE B == Seq(A)
           P == {q \in Seq(B) : Singles(q, set, j) => Only(FlattenSeq(q), set) = PartAt(q, j)}
<1>1. <<>> \in P
  <2>1. <<>> \in Seq(B)
    OBVIOUS
  <2>2. Only(FlattenSeq(<<>>), set) = <<>>
    BY FlattenEmpty, OnlyEmpty
  <2>3. PartAt(<<>>, j) = <<>>
    BY DEF PartAt
  <2>4. QED BY <2>1, <2>2, <2>3
<1>2. ASSUME NEW q \in Seq(B), NEW s \in B, q \in P PROVE Append(q, s) \in P
  <2> DEFINE more == Append(q, s)
             N == Len(q)
  <2>0. more \in Seq(B)
    OBVIOUS
  <2> SUFFICES ASSUME Singles(more, set, j)
               PROVE  Only(FlattenSeq(more), set) = PartAt(more, j)
    BY <2>0
  <2>1. /\ N \in Nat /\ Len(more) = N + 1 /\ more[N + 1] = s
        /\ \A n \in 1..N : more[n] = q[n]
    OBVIOUS
  <2>2. s \in Seq(A) /\ Len(s) \in Nat /\ \A i \in 1..Len(s) : s[i] \in A
    OBVIOUS
  <2>3. FlattenSeq(q) \in Seq(A) /\ FlattenSeq(more) = FlattenSeq(q) \o s
    BY FlattenType, FlattenAppend
  <2>4. Only(FlattenSeq(more), set) = Only(FlattenSeq(q), set) \o Only(s, set)
    BY <2>2, <2>3, OnlyConcat
  <2>5. \A i \in 1..Len(s) : s[i] \in set <=> N + 1 = j
    <3> HIDE DEF more
    <3>1. N + 1 \in 1..Len(more)
      BY <2>1
    <3>2. QED BY <2>1, <3>1 DEF Singles
  <2>6. Singles(q, set, j)
    <3> HIDE DEF more
    <3>1. \A n \in 1..N : n \in 1..Len(more)
      BY <2>1
    <3>2. QED BY <2>1, <3>1 DEF Singles
  <2>7. Only(FlattenSeq(q), set) = PartAt(q, j)
    BY <1>2, <2>6
  <2>8. Only(FlattenSeq(q), set) \in Seq(A)
    BY <2>3, OnlyType
  <2> HIDE DEF more
  <2>9. CASE N + 1 = j
    <3>1. Agree(s, set, A)
      BY <2>2, <2>5, <2>9 DEF Agree
    <3>2. Only(s, set) = s
      BY <2>2, <3>1, OnlySame, OnlyAll
    <3>3. PartAt(q, j) = <<>> /\ PartAt(more, j) = s
      BY <2>1, <2>9 DEF PartAt
    <3>4. <<>> \o s = s
      BY <2>2
    <3>5. QED BY <2>4, <2>7, <3>2, <3>3, <3>4
  <2>10. CASE N + 1 # j
    <3>1. Agree(s, set, {})
      BY <2>2, <2>5, <2>10 DEF Agree
    <3>2. Only(s, set) = <<>>
      BY <2>2, <3>1, OnlySame, OnlyNone
    <3>3. PartAt(q, j) = PartAt(more, j)
      <4>1. j \in 1..N + 1 <=> j \in 1..N
        BY <2>1, <2>10
      <4>2. QED BY <2>1, <4>1 DEF PartAt
    <3>4. Only(FlattenSeq(q), set) \o <<>> = Only(FlattenSeq(q), set)
      BY <2>8
    <3>5. QED BY <2>4, <2>7, <3>2, <3>3, <3>4
  <2>11. QED BY <2>9, <2>10
<1>3. Seq(B) \subseteq P
  <2> HIDE DEF P, B
  <2>1. QED BY <1>1, <1>2, SeqInduction
<1>4. QED BY <1>3

\* To select and to map.
Mapped(f, seq) == [k \in DOMAIN seq |-> f[seq[k]]]

LEMMA OnlyMapped ==
  ASSUME NEW A, NEW B, NEW f \in [A -> B], NEW seq \in Seq(A), NEW set, NEW other,
         \A e \in A : e \in set <=> f[e] \in other
  PROVE  Only(Mapped(f, seq), other) = Mapped(f, Only(seq, set))
<1> DEFINE P == {s \in Seq(A) : Only(Mapped(f, s), other) = Mapped(f, Only(s, set))}
<1>0. ASSUME NEW s \in Seq(A), NEW e \in A
      PROVE  Mapped(f, s) \in Seq(B) /\ Mapped(f, Append(s, e)) = Append(Mapped(f, s), f[e])
  <2> DEFINE more == Append(s, e)
             there == Mapped(f, s)
             t == Mapped(f, more)
             last == f[e]
  <2>1. /\ Len(s) \in Nat /\ DOMAIN s = 1..Len(s) /\ \A k \in 1..Len(s) : f[s[k]] \in B
        /\ last \in B
    OBVIOUS
  <2>2. DOMAIN more = 1..Len(s) + 1 /\ more[Len(s) + 1] = e /\ \A k \in 1..Len(s) : more[k] = s[k]
    OBVIOUS
  <2>3. there \in Seq(B) /\ Len(there) = Len(s)
    BY <2>1 DEF Mapped
  <2> HIDE DEF more, last
  <2>4. /\ \A k \in 1..Len(s) : t[k] = there[k]
        /\ t[Len(s) + 1] = last
        /\ t = [k \in 1..Len(s) + 1 |-> t[k]]
    BY <2>1, <2>2 DEF Mapped, last
  <2> HIDE DEF there, t
  <2>5. IsAppend(t, there, last)
    BY <2>3, <2>4 DEF IsAppend
  <2>6. t = Append(there, last)
    BY <2>1, <2>3, <2>5, AppendIs
  <2>7. QED BY <2>3, <2>6 DEF more, there, t, last
<1>1. <<>> \in P
  <2>1. <<>> \in Seq(A) /\ Mapped(f, <<>>) = <<>>
    BY DEF Mapped
  <2>2. QED BY <2>1, OnlyEmpty
<1>2. ASSUME NEW s \in Seq(A), NEW e \in A, s \in P PROVE Append(s, e) \in P
  <2>1. f[e] \in B /\ Append(s, e) \in Seq(A)
    OBVIOUS
  <2>2. Only(Mapped(f, Append(s, e)), other) =
          IF f[e] \in other THEN Append(Only(Mapped(f, s), other), f[e])
          ELSE Only(Mapped(f, s), other)
    <3> DEFINE there == Mapped(f, s)
               more == f[e]
    <3>1. there \in Seq(B) /\ more \in B /\ Mapped(f, Append(s, e)) = Append(there, more)
      BY <1>0, <2>1
    <3> HIDE DEF there, more
    <3>2. Only(Append(there, more), other) =
            IF more \in other THEN Append(Only(there, other), more) ELSE Only(there, other)
      BY <3>1, OnlyAppend
    <3>3. QED BY <3>1, <3>2 DEF there, more
  <2>3. Only(Append(s, e), set) = IF e \in set THEN Append(Only(s, set), e) ELSE Only(s, set)
    BY OnlyAppend
  <2>4. Mapped(f, Append(Only(s, set), e)) = Append(Mapped(f, Only(s, set)), f[e])
    BY <1>0, OnlyType
  <2>5. Only(Mapped(f, Append(s, e)), other) = Mapped(f, Only(Append(s, e), set))
    BY <1>2, <2>2, <2>3, <2>4
  <2>6. QED BY <2>1, <2>5
<1>3. Seq(A) \subseteq P
  <2> HIDE DEF P
  <2>1. QED BY <1>1, <1>2, SeqInduction
<1>4. QED BY <1>3

-----------------------------------------------------------------------------
(* What is packed by a table of fields, and decoded by the tags for them.  *)

IsTable(fields) ==
  /\ fields \in Seq(Range(fields))
  /\ \A k \in DOMAIN fields :
       fields[k].id \in Nat /\ fields[k].label \in {"required", "optional", "repeated"}

TagOf(tag, field) ==
  /\ tag.id = field.id
  /\ tag.wire = WireType(field.type)
  /\ tag.label = "req" <=> field.label = "required"
  /\ tag.label = "rep" <=> field.label = "repeated"

\* The fields have numbers of their own, and each has its tag.
Matching(fields, tags) ==
  /\ IsTable(fields)
  /\ \A k \in DOMAIN fields, l \in DOMAIN fields : fields[k].id = fields[l].id => k = l
  /\ \A k \in DOMAIN fields : TagOf(tags[fields[k].name], fields[k])
  /\ \A name \in DOMAIN tags : \E k \in DOMAIN fields : fields[k].name = name

\* The values of the repeated fields are sequences.
Fitting(fields, m) ==
  \A k \in DOMAIN fields : LET value == m[fields[k].name] IN
    fields[k].label = "repeated" => value \in Seq(Range(value))

\* A required string arrives even if it was NULL.
Sent(field, value) == IF field.label = "required" /\ value = NULL THEN "" ELSE value

Parts(fields, m) == [k \in DOMAIN fields |-> PackField(fields[k], m[fields[k].name])]

\* Entries of the fields, with values from a set.
Entries(fields, V) ==
  {e \in [id : Nat, wire : {"varint", "bytes"}, value : V] :
     \E k \in DOMAIN fields : e.id = fields[k].id /\ e.wire = WireType(fields[k].type)}

\* The values of one field, and of its elements.
ValuesOf(value) == {"", value} \cup Range(value)

AllValues(fields, m) == UNION {ValuesOf(m[fields[k].name]) : k \in DOMAIN fields}

LEMMA PartType ==
  ASSUME NEW fields, IsTable(fields), NEW m, Fitting(fields, m), NEW j \in DOMAIN fields
  PROVE  LET part == PackField(fields[j], m[fields[j].name]) IN
           /\ part \in Seq(Entries(fields, AllValues(fields, m)))
           /\ \A i \in 1..Len(part) : part[i].id = fields[j].id
<1> DEFINE V == AllValues(fields, m)
           E == Entries(fields, V)
           value == m[fields[j].name]
           wire == WireType(fields[j].type)
           entry(v) == [id |-> fields[j].id, wire |-> wire, value |-> v]
           part == PackField(fields[j], value)
<1>1. fields[j].id \in Nat /\ fields[j].label \in {"required", "optional", "repeated"}
  BY DEF IsTable
<1>2. ValuesOf(value) \subseteq V
  BY DEF AllValues
<1>3. wire \in {"varint", "bytes"}
  BY DEF WireType
<1>4. \A v \in V : entry(v) \in E /\ entry(v).id = fields[j].id
  <2> HIDE DEF V
  <2>1. QED BY <1>1, <1>3 DEF Entries
<1>5. "" \in V /\ value \in V /\ Range(value) \subseteq V
  BY <1>2 DEF ValuesOf
<1> HIDE DEF V, E
<1>6. CASE fields[j].label = "repeated"
  <2>1. value \in Seq(Range(value))
    BY <1>6 DEF Fitting
  <2>2. part = [k \in DOMAIN value |-> entry(value[k])]
    BY <1>6 DEF PackField
  <2>3. Len(value) \in Nat /\ DOMAIN value = 1..Len(value) /\ \A k \in 1..Len(value) : value[k] \in V
    <3> HIDE DEF value
    <3>1. Len(value) \in Nat /\ DOMAIN value = 1..Len(value)
      BY <2>1
    <3>2. \A k \in 1..Len(value) : value[k] \in Range(value)
      BY <3>1 DEF Range
    <3>3. QED BY <1>5, <3>1, <3>2
  <2>4. QED BY <1>4, <2>2, <2>3 DEF V, E
<1>7. CASE fields[j].label = "optional" /\ value = NULL
  <2>1. part = <<>>
    BY <1>7 DEF PackField
  <2>2. QED BY <2>1 DEF V, E
<1>8. CASE fields[j].label # "repeated" /\ ~(fields[j].label = "optional" /\ value = NULL)
  <2> DEFINE v == IF value = NULL THEN "" ELSE value
  <2>1. part = <<entry(v)>>
    BY <1>8 DEF PackField
  <2>2. v \in V
    BY <1>5
  <2> HIDE DEF v
  <2>3. entry(v) \in E /\ entry(v).id = fields[j].id
    BY <1>4, <2>2
  <2>4. QED BY <2>1, <2>3 DEF V, E
<1>9. QED BY <1>6, <1>7, <1>8

\* A tag finds what was packed for its field.
LEMMA PartFound ==
  ASSUME NEW fields, NEW tags, NEW m, Matching(fields, tags), Fitting(fields, m), NEW j \in DOMAIN fields
  PROVE  LET packed == PackFields(fields, m) IN
           /\ packed \in Seq(Entries(fields, AllValues(fields, m)))
           /\ Only(packed, {entry \in Range(packed) : entry.id = fields[j].id})
                = PackField(fields[j], m[fields[j].name])
<1> DEFINE E == Entries(fields, AllValues(fields, m))
           B == Seq(E)
           parts == Parts(fields, m)
           packed == PackFields(fields, m)
           set == {entry \in Range(packed) : entry.id = fields[j].id}
           other == {entry \in E : entry.id = fields[j].id}
<1>1. IsTable(fields) /\ Len(fields) \in Nat /\ DOMAIN fields = 1..Len(fields)
  BY DEF Matching, IsTable
<1>2. \A k \in DOMAIN fields : parts[k] = PackField(fields[k], m[fields[k].name])
  BY DEF Parts
<1>3. \A k \in DOMAIN fields : /\ parts[k] \in B
                               /\ \A i \in 1..Len(parts[k]) : parts[k][i].id = fields[k].id
  <2> TAKE k \in DOMAIN fields
  <2>1. QED BY <1>1, <1>2, PartType
<1>4. parts \in Seq(B) /\ Len(parts) = Len(fields)
  <2>1. DOMAIN parts = 1..Len(fields)
    BY <1>1 DEF Parts
  <2> HIDE DEF B
  <2>2. parts = [k \in 1..Len(fields) |-> parts[k]]
    BY <2>1 DEF Parts
  <2> HIDE DEF parts
  <2>3. QED BY <1>1, <1>3, <2>1, <2>2
<1>5. packed = FlattenSeq(parts)
  BY DEF PackFields, Parts
<1> HIDE DEF parts, packed, E
<1>6. packed \in Seq(E)
  BY <1>4, <1>5, FlattenType
<1>7. Agree(packed, set, other)
  <2>1. \A k \in 1..Len(packed) : packed[k] \in E /\ packed[k] \in Range(packed)
    BY <1>6 DEF Range
  <2>2. QED BY <2>1 DEF Agree
<1>8. Only(packed, set) = Only(packed, other)
  <2> HIDE DEF set, other
  <2>1. QED BY <1>6, <1>7, OnlySame
<1>9. Singles(parts, other, j)
  <2> SUFFICES ASSUME NEW n \in 1..Len(parts), NEW i \in 1..Len(parts[n])
               PROVE  parts[n][i] \in other <=> n = j
    BY DEF Singles
  <2>1. n \in DOMAIN fields /\ parts[n] \in Seq(E) /\ parts[n][i].id = fields[n].id
    BY <1>1, <1>3, <1>4
  <2>2. parts[n][i] \in E
    BY <2>1
  <2>3. fields[n].id = fields[j].id <=> n = j
    BY <2>1 DEF Matching
  <2>4. QED BY <2>1, <2>2, <2>3
<1>10. Only(packed, other) = parts[j]
  <2> HIDE DEF other
  <2>1. Only(packed, other) = PartAt(parts, j)
    BY <1>4, <1>5, <1>9, OnlyFlatten
  <2>2. PartAt(parts, j) = parts[j]
    BY <1>1, <1>4 DEF PartAt
  <2>3. QED BY <2>1, <2>2
<1>11. Only(packed, set) = PackField(fields[j], m[fields[j].name])
  BY <1>2, <1>8, <1>10
<1>12. QED BY <1>6, <1>11 DEF packed, E

\* The values arrive.
LEMMA RoundTrip ==
  ASSUME NEW fields, NEW tags, NEW m, Matching(fields, tags), Fitting(fields, m), NEW j \in DOMAIN fields
  PROVE  UnmarshalField(tags[fields[j].name], PackFields(fields, m)) = Sent(fields[j], m[fields[j].name])
<1> DEFINE packed == PackFields(fields, m)
           field == fields[j]
           tag == tags[field.name]
           value == m[field.name]
           those == Only(packed, {entry \in Range(packed) : entry.id = tag.id})
           entry(v) == [id |-> field.id, wire |-> WireType(field.type), value |-> v]
<1>1. TagOf(tag, field) /\ field.label \in {"required", "optional", "repeated"}
  BY DEF Matching, IsTable
<1>2. those = PackField(field, value)
  <2>1. tag.id = field.id
    BY <1>1 DEF TagOf
  <2>2. QED BY <2>1, PartFound
<1>3. UnmarshalField(tag, packed) =
        IF tag.label = "rep" THEN [k \in DOMAIN those |-> those[k].value]
        ELSE IF those = <<>> THEN NULL
        ELSE those[Len(those)].value
  BY DEF UnmarshalField
<1>4. field.label = "repeated" => value \in Seq(Range(value))
  BY DEF Fitting
<1> HIDE DEF packed, field, tag, value, those
<1>5. CASE field.label = "repeated"
  <2>1. tag.label = "rep"
    BY <1>1, <1>5 DEF TagOf
  <2>2. those = [k \in DOMAIN value |-> entry(value[k])]
    BY <1>2, <1>5 DEF PackField
  <2>3. [k \in DOMAIN those |-> those[k].value] = [k \in DOMAIN value |-> value[k]]
    BY <2>2
  <2>4. [k \in DOMAIN value |-> value[k]] = value
    BY <1>4, <1>5
  <2>5. Sent(field, value) = value
    BY <1>5 DEF Sent
  <2>6. UnmarshalField(tag, packed) = Sent(field, value)
    BY <1>3, <2>1, <2>3, <2>4, <2>5
  <2>7. QED BY <2>6 DEF packed, tag, field, value
<1>6. CASE field.label = "optional" /\ value = NULL
  <2>1. those = <<>> /\ tag.label # "rep"
    BY <1>1, <1>2, <1>6 DEF PackField, TagOf
  <2>2. UnmarshalField(tag, packed) = Sent(field, value)
    BY <1>3, <1>6, <2>1 DEF Sent
  <2>3. QED BY <2>2 DEF packed, tag, field, value
<1>7. CASE field.label # "repeated" /\ ~(field.label = "optional" /\ value = NULL)
  <2> DEFINE v == IF value = NULL THEN "" ELSE value
  <2>1. those = <<entry(v)>> /\ tag.label # "rep"
    BY <1>1, <1>2, <1>7 DEF PackField, TagOf
  <2>2. v = Sent(field, value)
    BY <1>1, <1>7 DEF Sent
  <2> HIDE DEF v
  <2>3. Len(those) = 1 /\ those # <<>> /\ those[1].value = v
    BY <2>1
  <2>4. UnmarshalField(tag, packed) = Sent(field, value)
    BY <1>3, <2>1, <2>2, <2>3
  <2>5. QED BY <2>4 DEF packed, tag, field, value
<1>8. QED BY <1>5, <1>6, <1>7

\* No error: required fields are there, and the wire types are those expected.
LEMMA RoundTripDecodes ==
  ASSUME NEW fields, NEW tags, NEW m, Matching(fields, tags), Fitting(fields, m)
  PROVE  Decodable(tags, PackFields(fields, m))
<1> DEFINE packed == PackFields(fields, m)
           E == Entries(fields, AllValues(fields, m))
<1> SUFFICES ASSUME NEW name \in DOMAIN tags
             PROVE  /\ tags[name].label = "req" => \E k \in DOMAIN packed : packed[k].id = tags[name].id
                    /\ \A k \in DOMAIN packed : packed[k].id = tags[name].id => packed[k].wire = tags[name].wire
  BY DEF Decodable
<1>1. PICK j \in DOMAIN fields : fields[j].name = name
  BY DEF Matching
<1>2. TagOf(tags[name], fields[j])
  BY <1>1 DEF Matching
<1> DEFINE set == {entry \in Range(packed) : entry.id = fields[j].id}
           part == PackField(fields[j], m[fields[j].name])
<1>3. packed \in Seq(E) /\ Only(packed, set) = part
  BY PartFound
<1>4. tags[name].id = fields[j].id /\ tags[name].wire = WireType(fields[j].type)
  BY <1>2 DEF TagOf
<1>5. ASSUME tags[name].label = "req" PROVE \E k \in DOMAIN packed : packed[k].id = fields[j].id
  <2>1. fields[j].label = "required"
    BY <1>2, <1>5 DEF TagOf
  <2>2. part # <<>>
    BY <2>1 DEF PackField
  <2> SUFFICES ASSUME \A k \in DOMAIN packed : packed[k].id # fields[j].id PROVE FALSE
    OBVIOUS
  <2> HIDE DEF packed, E, part
  <2>3. DOMAIN packed = 1..Len(packed)
    BY <1>3
  <2>4. Agree(packed, set, {})
    BY <2>3 DEF Agree
  <2> HIDE DEF set
  <2>5. Only(packed, set) = <<>>
    BY <1>3, <2>4, OnlySame, OnlyNone
  <2>6. QED BY <1>3, <2>2, <2>5
<1>6. ASSUME NEW k \in DOMAIN packed, packed[k].id = fields[j].id
      PROVE  packed[k].wire = WireType(fields[j].type)
  <2>1. packed[k] \in E
    <3> HIDE DEF packed, E
    <3>1. QED BY <1>3
  <2>2. PICK l \in DOMAIN fields : packed[k].id = fields[l].id /\ packed[k].wire = WireType(fields[l].type)
    <3> HIDE DEF packed
    <3>1. QED BY <2>1 DEF Entries
  <2>3. l = j
    BY <1>6, <2>2 DEF Matching
  <2>4. QED BY <2>2, <2>3
<1>7. QED BY <1>4, <1>5, <1>6

-----------------------------------------------------------------------------
(* The tables.                                                             *)

LEMMA ModuleMatching == Matching(ModuleFields, ModuleTags)
<1>1. DOMAIN ModuleFields = 1..1 /\ ModuleFields[1] = Field("name", 700, "required", "string")
  BY DEF ModuleFields
<1>2. ModuleFields \in Seq(Range(ModuleFields))
  BY DEF Range, ModuleFields
<1>3. QED BY <1>1, <1>2 DEF Matching, IsTable, Field, ModuleTags, Tag, TagOf, WireType

LEMMA SharedObjectMatching == Matching(SharedObjectFields, SharedObjectTags)
<1>1. /\ DOMAIN SharedObjectFields = 1..2
      /\ SharedObjectFields[1] = Field("path", 400, "required", "string")
      /\ SharedObjectFields[2] = Field("signature", 401, "optional", "string")
  BY DEF SharedObjectFields
<1>2. SharedObjectFields \in Seq(Range(SharedObjectFields))
  BY DEF Range, SharedObjectFields
<1>3. QED BY <1>1, <1>2 DEF Matching, IsTable, Field, SharedObjectTags, Tag, TagOf, WireType

LEMMA ProcessInfoFieldsAre ==
  /\ DOMAIN ProcessInfoFields = 1..13
  /\ ProcessInfoFields[1] = Field("binpath",    300, "required", "string")
  /\ ProcessInfoFields[2] = Field("pid",        301, "required", "int32")
  /\ ProcessInfoFields[3] = Field("parent_pid", 302, "required", "int32")
  /\ ProcessInfoFields[4] = Field("time",       303, "required", "int64")
  /\ ProcessInfoFields[5] = Field("signature",  304, "optional", "string")
  /\ ProcessInfoFields[6] = Field("job_id",     305, "optional", "string")
  /\ ProcessInfoFields[7] = Field("username",   306, "optional", "string")
  /\ ProcessInfoFields[8] = Field("hostname",   307, "optional", "string")
  /\ ProcessInfoFields[9] = Field("cmdline",    308, "optional", "string")
  /\ ProcessInfoFields[10] = Field("environment_variables", 309, "repeated", "string")
  /\ ProcessInfoFields[11] = Field("arguments",             310, "repeated", "string")
  /\ ProcessInfoFields[12] = Field("shared_objects",        311, "repeated", "SharedObject")
  /\ ProcessInfoFields[13] = Field("loaded_modules",        312, "repeated", "Module")
BY DEF ProcessInfoFields

LEMMA ProcessInfoMatching == Matching(ProcessInfoFields, ProcessInfoTags)
<1>1. \A k \in 1..13 : k \in {1, 2, 3, 4, 5, 6, 7, 8, 9, 10, 11, 12, 13}
  OBVIOUS
<1>2. IsTable(ProcessInfoFields)
  <2>1. ProcessInfoFields \in Seq(Range(ProcessInfoFields))
    BY DEF Range, ProcessInfoFields
  <2>2. \A k \in 1..13 : ProcessInfoFields[k].id \in Nat
    BY <1>1, ProcessInfoFieldsAre DEF Field
  <2>3. \A k \in 1..13 : ProcessInfoFields[k].label \in {"required", "optional", "repeated"}
    BY <1>1, ProcessInfoFieldsAre DEF Field
  <2>4. DOMAIN ProcessInfoFields = 1..13
    BY ProcessInfoFieldsAre
  <2>5. QED BY <2>1, <2>2, <2>3, <2>4 DEF IsTable
<1>3. \A k \in 1..13, l \in 1..13 : ProcessInfoFields[k].id = ProcessInfoFields[l].id => k = l
  <2>1. \A k \in 1..13 : ProcessInfoFields[k].id = 299 + k
    BY <1>1, ProcessInfoFieldsAre DEF Field
  <2>2. QED BY <2>1
<1>4. \A k \in 1..13 : TagOf(ProcessInfoTags[ProcessInfoFields[k].name], ProcessInfoFields[k])
  BY <1>1, ProcessInfoFieldsAre DEF Field, ProcessInfoTags, Tag, TagOf, WireType
<1>5. \A name \in DOMAIN ProcessInfoTags : \E k \in 1..13 : ProcessInfoFields[k].name = name
  BY ProcessInfoFieldsAre DEF Field, ProcessInfoTags
<1>6. DOMAIN ProcessInfoFields = 1..13
  BY ProcessInfoFieldsAre
<1>7. QED BY <1>2, <1>3, <1>4, <1>5, <1>6 DEF Matching

\* The messages within.
LEMMA ModuleArrives ==
  ASSUME NEW m
  PROVE  LET packed == PackFields(ModuleFields, m) IN
           /\ Decodable(ModuleTags, packed)
           /\ UnmarshalFields(ModuleTags, packed) = [name |-> IF m.name = NULL THEN "" ELSE m.name]
<1> DEFINE packed == PackFields(ModuleFields, m)
           got == UnmarshalFields(ModuleTags, packed)
           name == IF m.name = NULL THEN "" ELSE m.name
<1>1. DOMAIN ModuleFields = 1..1 /\ ModuleFields[1] = Field("name", 700, "required", "string")
  BY DEF ModuleFields
<1>2. Fitting(ModuleFields, m)
  BY <1>1 DEF Fitting, Field
<1>3. Decodable(ModuleTags, packed)
  BY <1>2, ModuleMatching, RoundTripDecodes
<1>4. UnmarshalField(ModuleTags[ModuleFields[1].name], packed) = Sent(ModuleFields[1], m[ModuleFields[1].name])
  <2>1. 1 \in DOMAIN ModuleFields
    BY <1>1
  <2>2. QED BY <1>2, <2>1, ModuleMatching, RoundTrip
<1> HIDE DEF packed
<1>5. UnmarshalField(ModuleTags["name"], packed) = name
  <2>1. ModuleFields[1].name = "name" /\ ModuleFields[1].label = "required"
    BY <1>1 DEF Field
  <2>2. Sent(ModuleFields[1], m["name"]) = name
    BY <2>1 DEF Sent
  <2>3. QED BY <1>4, <2>1, <2>2
<1>6. DOMAIN ModuleTags = {"name"}
  BY DEF ModuleTags
<1> HIDE DEF name
<1>7. got = [name |-> name]
  BY <1>5, <1>6 DEF UnmarshalFields
<1>8. QED BY <1>3, <1>7 DEF packed, name

LEMMA SharedObjectArrives ==
  ASSUME NEW m
  PROVE  LET packed == PackFields(SharedObjectFields, m) IN
           /\ Decodable(SharedObjectTags, packed)
           /\ UnmarshalFields(SharedObjectTags, packed) =
                [path |-> IF m.path = NULL THEN "" ELSE m.path, signature |-> m.signature]
<1> DEFINE packed == PackFields(SharedObjectFields, m)
           got == UnmarshalFields(SharedObjectTags, packed)
           path == IF m.path = NULL THEN "" ELSE m.path
           signature == m.signature
<1>1. /\ DOMAIN SharedObjectFields = 1..2
      /\ SharedObjectFields[1] = Field("path", 400, "required", "string")
      /\ SharedObjectFields[2] = Field("signature", 401, "optional", "string")
  BY DEF SharedObjectFields
<1>2. Fitting(SharedObjectFields, m)
  BY <1>1 DEF Fitting, Field
<1>3. Decodable(SharedObjectTags, packed)
  BY <1>2, SharedObjectMatching, RoundTripDecodes
<1>4. \A j \in {1, 2} :
        UnmarshalField(SharedObjectTags[SharedObjectFields[j].name], packed)
          = Sent(SharedObjectFields[j], m[SharedObjectFields[j].name])
  <2> TAKE j \in {1, 2}
  <2>1. j \in DOMAIN SharedObjectFields
    BY <1>1
  <2>2. QED BY <1>2, <2>1, SharedObjectMatching, RoundTrip
<1> HIDE DEF packed
<1>5. UnmarshalField(SharedObjectTags["path"], packed) = path
  <2>1. SharedObjectFields[1].name = "path" /\ SharedObjectFields[1].label = "required"
    BY <1>1 DEF Field
  <2>2. Sent(SharedObjectFields[1], m["path"]) = path
    BY <2>1 DEF Sent
  <2>3. QED BY <1>4, <2>1, <2>2
<1>6. UnmarshalField(SharedObjectTags["signature"], packed) = signature
  <2>1. SharedObjectFields[2].name = "signature" /\ SharedObjectFields[2].label = "optional"
    BY <1>1 DEF Field
  <2>2. Sent(SharedObjectFields[2], m["signature"]) = signature
    BY <2>1 DEF Sent
  <2>3. QED BY <1>4, <2>1, <2>2
<1>7. DOMAIN SharedObjectTags = {"path", "signature"}
  BY DEF SharedObjectTags
<1> HIDE DEF path, signature
<1>8. got = [path |-> path, signature |-> signature]
  BY <1>5, <1>6, <1>7 DEF UnmarshalFields
<1>9. QED BY <1>3, <1>8 DEF packed, path, signature

\* A message whose lists are sequences.
IsMessage(m) ==
  /\ DOMAIN m = DOMAIN InitMessage
  /\ \A name \in {"environment_variables", "arguments", "shared_objects", "loaded_modules"} :
       m[name] \in Seq(Range(m[name]))

\* The message with the messages within packed.
Inner(m) ==
  [m EXCEPT !.shared_objects = [k \in DOMAIN @ |-> PackFields(SharedObjectFields, @[k])],
            !.loaded_modules = [k \in DOMAIN @ |-> PackFields(ModuleFields, @[k])]]

LEMMA InnerFitting ==
  ASSUME NEW m, IsMessage(m)
  PROVE  Fitting(ProcessInfoFields, Inner(m)) /\ DOMAIN Inner(m) = DOMAIN m
<1> DEFINE so == m["shared_objects"]
           lm == m["loaded_modules"]
           packed_so == [k \in DOMAIN so |-> PackFields(SharedObjectFields, so[k])]
           packed_lm == [k \in DOMAIN lm |-> PackFields(ModuleFields, lm[k])]
<1>1. /\ DOMAIN Inner(m) = DOMAIN m
      /\ Inner(m)["environment_variables"] = m["environment_variables"]
      /\ Inner(m)["arguments"] = m["arguments"]
      /\ Inner(m)["shared_objects"] = packed_so
      /\ Inner(m)["loaded_modules"] = packed_lm
  BY DEF Inner, IsMessage, InitMessage
<1>2. /\ so \in Seq(Range(so)) /\ lm \in Seq(Range(lm))
      /\ m["environment_variables"] \in Seq(Range(m["environment_variables"]))
      /\ m["arguments"] \in Seq(Range(m["arguments"]))
  BY DEF IsMessage
<1> HIDE DEF so, lm
<1>3. /\ Len(so) \in Nat /\ DOMAIN so = 1..Len(so)
      /\ Len(lm) \in Nat /\ DOMAIN lm = 1..Len(lm)
  BY <1>2
<1>4. packed_so \in Seq(Range(packed_so))
  BY <1>3 DEF Range
<1>5. packed_lm \in Seq(Range(packed_lm))
  BY <1>3 DEF Range
<1> HIDE DEF packed_so, packed_lm
<1>6. Fitting(ProcessInfoFields, Inner(m))
  <2> SUFFICES ASSUME NEW k \in 1..13, ProcessInfoFields[k].label = "repeated"
               PROVE  Inner(m)[ProcessInfoFields[k].name] \in Seq(Range(Inner(m)[ProcessInfoFields[k].name]))
    <3>1. DOMAIN ProcessInfoFields = 1..13
      BY ProcessInfoFieldsAre
    <3>2. QED BY <3>1 DEF Fitting
  <2>1. k \in {10, 11, 12, 13}
    <3>1. k \in {1, 2, 3, 4, 5, 6, 7, 8, 9, 10, 11, 12, 13}
      OBVIOUS
    <3>2. QED BY <3>1, ProcessInfoFieldsAre DEF Field
  <2>2. CASE k = 10
    <3>1. ProcessInfoFields[k].name = "environment_variables"
      BY <2>2, ProcessInfoFieldsAre DEF Field
    <3>2. QED BY <1>1, <1>2, <3>1
  <2>3. CASE k = 11
    <3>1. ProcessInfoFields[k].name = "arguments"
      BY <2>3, ProcessInfoFieldsAre DEF Field
    <3>2. QED BY <1>1, <1>2, <3>1
  <2>4. CASE k = 12
    <3>1. ProcessInfoFields[k].name = "shared_objects"
      BY <2>4, ProcessInfoFieldsAre DEF Field
    <3>2. QED BY <1>1, <1>4, <3>1
  <2>5. CASE k = 13
    <3>1. ProcessInfoFields[k].name = "loaded_modules"
      BY <2>5, ProcessInfoFieldsAre DEF Field
    <3>2. QED BY <1>1, <1>5, <3>1
  <2>6. QED BY <2>1, <2>2, <2>3, <2>4, <2>5
<1>7. QED BY <1>1, <1>6

\* What the server has of each field.
LEMMA FieldArrives ==
  ASSUME NEW m, IsMessage(m), NEW j \in 1..13
  PROVE  UnmarshalFields(ProcessInfoTags, Pack(m))[ProcessInfoFields[j].name]
           = Sent(ProcessInfoFields[j], Inner(m)[ProcessInfoFields[j].name])
<1> DEFINE packed == Pack(m)
           name == ProcessInfoFields[j].name
<1>1. packed = PackFields(ProcessInfoFields, Inner(m))
  BY DEF Pack, Inner
<1>2. j \in DOMAIN ProcessInfoFields /\ Fitting(ProcessInfoFields, Inner(m))
  BY ProcessInfoFieldsAre, InnerFitting
<1>3. UnmarshalField(ProcessInfoTags[name], packed) = Sent(ProcessInfoFields[j], Inner(m)[name])
  BY <1>1, <1>2, ProcessInfoMatching, RoundTrip
<1>4. name \in DOMAIN ProcessInfoTags
  <2>1. j \in {1, 2, 3, 4, 5, 6, 7, 8, 9, 10, 11, 12, 13}
    OBVIOUS
  <2>2. QED BY <2>1, ProcessInfoFieldsAre DEF Field, ProcessInfoTags
<1> HIDE DEF packed
<1>5. UnmarshalFields(ProcessInfoTags, packed)[name] = UnmarshalField(ProcessInfoTags[name], packed)
  <2> HIDE DEF name
  <2>1. QED BY <1>4 DEF UnmarshalFields
<1>6. QED BY <1>3, <1>5 DEF packed

RequiredNames == {"binpath", "pid", "parent_pid", "time"}

OtherNames == {"signature", "job_id", "username", "hostname", "cmdline",
               "environment_variables", "arguments"}

LEMMA FieldsArrive ==
  ASSUME NEW m, IsMessage(m)
  PROVE  LET fields == UnmarshalFields(ProcessInfoTags, Pack(m)) IN
           /\ \A name \in RequiredNames : fields[name] = IF m[name] = NULL THEN "" ELSE m[name]
           /\ \A name \in OtherNames : fields[name] = m[name]
           /\ fields["shared_objects"] =
                [k \in DOMAIN m["shared_objects"] |-> PackFields(SharedObjectFields, m["shared_objects"][k])]
           /\ fields["loaded_modules"] =
                [k \in DOMAIN m["loaded_modules"] |-> PackFields(ModuleFields, m["loaded_modules"][k])]
<1> DEFINE fields == UnmarshalFields(ProcessInfoTags, Pack(m))
           inner == Inner(m)
<1>1. \A j \in 1..13 : fields[ProcessInfoFields[j].name] = Sent(ProcessInfoFields[j], inner[ProcessInfoFields[j].name])
  BY FieldArrives
<1>2. /\ \A name \in RequiredNames \cup OtherNames : inner[name] = m[name]
      /\ inner["shared_objects"] =
           [k \in DOMAIN m["shared_objects"] |-> PackFields(SharedObjectFields, m["shared_objects"][k])]
      /\ inner["loaded_modules"] =
           [k \in DOMAIN m["loaded_modules"] |-> PackFields(ModuleFields, m["loaded_modules"][k])]
  BY DEF Inner, IsMessage, InitMessage, RequiredNames, OtherNames
<1> HIDE DEF fields, inner
<1>3. \A j \in {1, 2, 3, 4} : ProcessInfoFields[j].label = "required"
  BY ProcessInfoFieldsAre DEF Field
<1>4. \A j \in {5, 6, 7, 8, 9, 10, 11, 12, 13} : ProcessInfoFields[j].label # "required"
  BY ProcessInfoFieldsAre DEF Field
<1>5. \A name \in RequiredNames : \E j \in {1, 2, 3, 4} : ProcessInfoFields[j].name = name
  BY ProcessInfoFieldsAre DEF Field, RequiredNames
<1>6. \A name \in OtherNames \cup {"shared_objects", "loaded_modules"} :
        \E j \in {5, 6, 7, 8, 9, 10, 11, 12, 13} : ProcessInfoFields[j].name = name
  BY ProcessInfoFieldsAre DEF Field, OtherNames
<1>7. ASSUME NEW name \in RequiredNames
      PROVE  fields[name] = IF inner[name] = NULL THEN "" ELSE inner[name]
  <2>1. PICK j \in {1, 2, 3, 4} : ProcessInfoFields[j].name = name
    BY <1>5
  <2>2. j \in 1..13
    OBVIOUS
  <2>3. QED BY <1>1, <1>3, <2>1, <2>2 DEF Sent
<1>8. ASSUME NEW name \in OtherNames \cup {"shared_objects", "loaded_modules"}
      PROVE  fields[name] = inner[name]
  <2>1. PICK j \in {5, 6, 7, 8, 9, 10, 11, 12, 13} : ProcessInfoFields[j].name = name
    BY <1>6
  <2>2. j \in 1..13
    OBVIOUS
  <2>3. QED BY <1>1, <1>4, <2>1, <2>2 DEF Sent
<1>9. QED BY <1>2, <1>7, <1>8 DEF fields

\* The message decodes to what it was made of.
LEMMA MessageArrives ==
  ASSUME NEW m, IsMessage(m)
  PROVE  LET got == Unmarshal(Pack(m))
             so == m["shared_objects"]
             lm == m["loaded_modules"]
         IN  /\ Decodes(Pack(m))
             /\ \A name \in RequiredNames : got[name] = IF m[name] = NULL THEN "" ELSE m[name]
             /\ \A name \in OtherNames : got[name] = m[name]
             /\ got["shared_objects"] = [k \in DOMAIN so |->
                  [path |-> IF so[k].path = NULL THEN "" ELSE so[k].path, signature |-> so[k].signature]]
             /\ got["loaded_modules"] = [k \in DOMAIN lm |->
                  [name |-> IF lm[k].name = NULL THEN "" ELSE lm[k].name]]
<1> DEFINE packed == Pack(m)
           fields == UnmarshalFields(ProcessInfoTags, packed)
           got == Unmarshal(packed)
           so == m["shared_objects"]
           lm == m["loaded_modules"]
           packed_so == [k \in DOMAIN so |-> PackFields(SharedObjectFields, so[k])]
           packed_lm == [k \in DOMAIN lm |-> PackFields(ModuleFields, lm[k])]
<1>1. /\ \A name \in RequiredNames : fields[name] = IF m[name] = NULL THEN "" ELSE m[name]
      /\ \A name \in OtherNames : fields[name] = m[name]
      /\ fields["shared_objects"] = packed_so /\ fields["loaded_modules"] = packed_lm
  BY FieldsArrive
<1>2. Decodable(ProcessInfoTags, packed)
  <2>1. packed = PackFields(ProcessInfoFields, Inner(m)) /\ Fitting(ProcessInfoFields, Inner(m))
    BY InnerFitting DEF Pack, Inner
  <2>2. QED BY <2>1, ProcessInfoMatching, RoundTripDecodes
<1> HIDE DEF packed, so, lm
<1>3. \A k \in DOMAIN packed_so : Decodable(SharedObjectTags, packed_so[k])
  BY SharedObjectArrives
<1>4. \A k \in DOMAIN packed_lm : Decodable(ModuleTags, packed_lm[k])
  BY ModuleArrives
<1>5. Decodes(packed)
  <2> HIDE DEF packed_so, packed_lm
  <2>1. fields.shared_objects = packed_so /\ fields.loaded_modules = packed_lm
    BY <1>1
  <2>2. QED BY <1>2, <1>3, <1>4, <2>1 DEF Decodes
<1>6. /\ \A name \in RequiredNames \cup OtherNames : got[name] = fields[name]
      /\ got["shared_objects"] = [k \in DOMAIN packed_so |-> UnmarshalFields(SharedObjectTags, packed_so[k])]
      /\ got["loaded_modules"] = [k \in DOMAIN packed_lm |-> UnmarshalFields(ModuleTags, packed_lm[k])]
  <2>1. DOMAIN fields = DOMAIN ProcessInfoTags
    BY DEF UnmarshalFields
  <2>2. RequiredNames \cup OtherNames \cup {"shared_objects", "loaded_modules"} \subseteq DOMAIN fields
    BY <2>1 DEF ProcessInfoTags, RequiredNames, OtherNames
  <2>3. got = [fields EXCEPT
                 !.shared_objects = [k \in DOMAIN @ |-> UnmarshalFields(SharedObjectTags, @[k])],
                 !.loaded_modules = [k \in DOMAIN @ |-> UnmarshalFields(ModuleTags, @[k])]]
    BY DEF Unmarshal
  <2> HIDE DEF fields, got, packed_so, packed_lm
  <2>4. \A name \in RequiredNames \cup OtherNames : name # "shared_objects" /\ name # "loaded_modules"
    BY DEF RequiredNames, OtherNames
  <2>5. QED BY <1>1, <2>2, <2>3, <2>4
<1>7. got["shared_objects"] = [k \in DOMAIN so |->
        [path |-> IF so[k].path = NULL THEN "" ELSE so[k].path, signature |-> so[k].signature]]
  <2>1. \A k \in DOMAIN so : UnmarshalFields(SharedObjectTags, packed_so[k]) =
          [path |-> IF so[k].path = NULL THEN "" ELSE so[k].path, signature |-> so[k].signature]
    BY SharedObjectArrives
  <2>2. DOMAIN packed_so = DOMAIN so
    OBVIOUS
  <2> HIDE DEF packed_so, got
  <2>3. QED BY <1>6, <2>1, <2>2
<1>8. got["loaded_modules"] = [k \in DOMAIN lm |-> [name |-> IF lm[k].name = NULL THEN "" ELSE lm[k].name]]
  <2>1. \A k \in DOMAIN lm : UnmarshalFields(ModuleTags, packed_lm[k]) =
          [name |-> IF lm[k].name = NULL THEN "" ELSE lm[k].name]
    BY ModuleArrives
  <2>2. DOMAIN packed_lm = DOMAIN lm
    OBVIOUS
  <2> HIDE DEF packed_lm, got
  <2>3. QED BY <1>6, <2>1, <2>2
<1> HIDE DEF got, fields
<1>9. QED BY <1>1, <1>5, <1>6, <1>7, <1>8 DEF packed, so, lm, got

-----------------------------------------------------------------------------
(* The command line.                                                       *)

NUL == "NUL"
SPACE == " "
Shown(c) == IF c = "NUL" THEN " " ELSE c

LEMMA CharFacts ==
  /\ NUL \notin Chars /\ SPACE \in Chars
  /\ Shown(NUL) = SPACE
  /\ \A c \in Chars : Shown(c) = c /\ c # NUL
BY DEF NUL, SPACE, Shown, Chars

BytesOf(args) == FlattenSeq([k \in DOMAIN args |-> Append(args[k], NUL)])

JoinedOf(args) == FlattenSeq([k \in DOMAIN args |-> IF k = 1 THEN args[k] ELSE <<SPACE>> \o args[k]])

\* The bytes are those of the line, with a NUL for some of its spaces and one
\* behind it.
BytesOfLine(bytes, line) ==
  /\ line \in Seq(Chars)
  /\ bytes \in Seq(Chars \cup {NUL})
  /\ Len(bytes) = Len(line) + 1
  /\ bytes[Len(bytes)] = NUL
  /\ \A k \in 1..Len(line) : line[k] = Shown(bytes[k])

LEMMA OneArgument ==
  ASSUME NEW a \in Seq(Chars)
  PROVE  BytesOfLine(Append(a, NUL), a)
<1>1. /\ Append(a, NUL) \in Seq(Chars \cup {NUL}) /\ Len(a) \in Nat
      /\ Len(Append(a, NUL)) = Len(a) + 1 /\ Append(a, NUL)[Len(a) + 1] = NUL
      /\ \A k \in 1..Len(a) : Append(a, NUL)[k] = a[k] /\ a[k] \in Chars
  OBVIOUS
<1>2. \A k \in 1..Len(a) : a[k] = Shown(a[k])
  BY <1>1, CharFacts
<1>3. QED BY <1>1, <1>2 DEF BytesOfLine

LEMMA MoreArguments ==
  ASSUME NEW bytes, NEW line, BytesOfLine(bytes, line), NEW a \in Seq(Chars)
  PROVE  BytesOfLine(bytes \o Append(a, NUL), line \o (<<SPACE>> \o a))
<1> DEFINE C == Chars \cup {NUL}
           x == Append(a, NUL)
           y == <<SPACE>> \o a
<1>1. /\ line \in Seq(Chars) /\ Len(line) \in Nat /\ bytes \in Seq(C) /\ Len(bytes) = Len(line) + 1
      /\ bytes[Len(bytes)] = NUL
      /\ \A k \in 1..Len(line) : line[k] = Shown(bytes[k])
  BY DEF BytesOfLine
<1>2. BytesOfLine(x, a)
  BY OneArgument
<1>3. /\ x \in Seq(C) /\ Len(a) \in Nat /\ Len(x) = Len(a) + 1 /\ x[Len(a) + 1] = NUL
      /\ \A k \in 1..Len(a) : a[k] = Shown(x[k])
  BY <1>2 DEF BytesOfLine
<1>4. y \in Seq(Chars) /\ Len(y) = Len(a) + 1 /\ y[1] = SPACE /\ \A k \in 1..Len(a) : y[k + 1] = a[k]
  BY CharFacts
<1> HIDE DEF C, x, y
<1> DEFINE b == bytes \o x
           j == line \o y
<1>5. /\ b \in Seq(C) /\ Len(b) = Len(bytes) + Len(x)
      /\ \A k \in 1..Len(bytes) : b[k] = bytes[k]
      /\ \A k \in 1..Len(x) : b[Len(bytes) + k] = x[k]
  <2>1. b \in Seq(C) /\ IsConcat(b, bytes, x)
    BY <1>1, <1>3, ConcatIs
  <2>2. QED BY <2>1 DEF IsConcat
<1>6. /\ j \in Seq(Chars) /\ Len(j) = Len(line) + Len(y)
      /\ \A k \in 1..Len(line) : j[k] = line[k]
      /\ \A k \in 1..Len(y) : j[Len(line) + k] = y[k]
  <2>1. j \in Seq(Chars) /\ IsConcat(j, line, y)
    BY <1>1, <1>4, ConcatIs
  <2>2. QED BY <2>1 DEF IsConcat
<1> HIDE DEF b, j
<1>7. Len(b) = Len(j) + 1 /\ b[Len(b)] = NUL
  BY <1>1, <1>3, <1>4, <1>5, <1>6
<1>8. ASSUME NEW k \in 1..Len(j) PROVE j[k] = Shown(b[k])
  <2>1. CASE k \in 1..Len(line)
    BY <1>1, <1>3, <1>5, <1>6, <2>1
  <2>2. CASE k = Len(line) + 1
    <3>1. b[k] = NUL
      BY <1>1, <1>3, <1>5, <2>2
    <3>2. j[k] = SPACE
      BY <1>1, <1>3, <1>4, <1>6, <2>2
    <3>3. QED BY <3>1, <3>2, CharFacts
  <2>3. CASE k > Len(line) + 1
    <3> DEFINE i == k - (Len(line) + 1)
    <3>1. i \in 1..Len(a) /\ i \in 1..Len(x) /\ k = Len(bytes) + i /\ k = Len(line) + (i + 1) /\ i + 1 \in 1..Len(y)
      BY <1>1, <1>3, <1>4, <1>6, <2>3
    <3> HIDE DEF i
    <3>2. b[k] = x[i] /\ j[k] = a[i]
      BY <1>4, <1>5, <1>6, <3>1
    <3>3. QED BY <1>3, <3>1, <3>2
  <2>4. QED BY <1>1, <1>4, <1>6, <2>1, <2>2, <2>3
<1>9. QED BY <1>5, <1>6, <1>7, <1>8 DEF BytesOfLine, b, j, x, y, C

Terminated(q) == [k \in DOMAIN q |-> Append(q[k], NUL)]

Apart(q) == [k \in DOMAIN q |-> IF k = 1 THEN q[k] ELSE <<SPACE>> \o q[k]]

LEMMA TerminatedAppend ==
  ASSUME NEW q \in Seq(Seq(Chars)), NEW a \in Seq(Chars)
  PROVE  /\ Terminated(q) \in Seq(Seq(Chars \cup {NUL}))
         /\ Terminated(Append(q, a)) = Append(Terminated(q), Append(a, NUL))
<1> DEFINE A == Seq(Chars)
           E == Seq(Chars \cup {NUL})
           more == Append(q, a)
<1>1. \A x \in A : Append(x, NUL) \in E
  OBVIOUS
<1> HIDE DEF A, E
<1>2. q \in Seq(A) /\ a \in A
  BY DEF A
<1>3. /\ Len(q) \in Nat /\ DOMAIN q = 1..Len(q) /\ \A k \in 1..Len(q) : q[k] \in A
      /\ DOMAIN more = 1..Len(q) + 1 /\ more[Len(q) + 1] = a /\ \A k \in 1..Len(q) : more[k] = q[k]
  BY <1>2
<1> HIDE DEF more
<1>4. Terminated(q) \in Seq(E) /\ Len(Terminated(q)) = Len(q)
  BY <1>1, <1>3 DEF Terminated
<1>5. /\ \A k \in 1..Len(q) : Terminated(more)[k] = Terminated(q)[k]
      /\ Terminated(more)[Len(q) + 1] = Append(a, NUL)
      /\ Terminated(more) = [k \in 1..Len(q) + 1 |-> Terminated(more)[k]]
  <2>1. Len(q) + 1 \in DOMAIN more /\ \A k \in 1..Len(q) : k \in DOMAIN more
    BY <1>3
  <2>2. \A k \in 1..Len(q) : Terminated(more)[k] = Terminated(q)[k]
    BY <1>3, <2>1 DEF Terminated
  <2>3. Terminated(more)[Len(q) + 1] = Append(a, NUL)
    BY <1>3, <2>1 DEF Terminated
  <2>4. Terminated(more) = [k \in 1..Len(q) + 1 |-> Terminated(more)[k]]
    BY <1>3 DEF Terminated
  <2>5. QED BY <2>2, <2>3, <2>4
<1>6. Terminated(more) = Append(Terminated(q), Append(a, NUL))
  <2> DEFINE s == Terminated(q)
             t == Terminated(more)
             e == Append(a, NUL)
  <2>1. e \in E
    BY <1>1, <1>2
  <2> HIDE DEF s, t, e
  <2>2. s \in Seq(E) /\ IsAppend(t, s, e)
    BY <1>4, <1>5 DEF IsAppend, s, t, e
  <2>3. t = Append(s, e)
    BY <2>1, <2>2, AppendIs
  <2>4. QED BY <2>3 DEF s, t, e
<1>7. QED BY <1>4, <1>6 DEF E, more

LEMMA ApartAppend ==
  ASSUME NEW q \in Seq(Seq(Chars)), NEW a \in Seq(Chars)
  PROVE  LET next == IF q = <<>> THEN a ELSE <<SPACE>> \o a IN
         /\ Apart(q) \in Seq(Seq(Chars)) /\ next \in Seq(Chars)
         /\ Apart(Append(q, a)) = Append(Apart(q), next)
<1> DEFINE A == Seq(Chars)
           more == Append(q, a)
           next == IF q = <<>> THEN a ELSE <<SPACE>> \o a
<1>1. \A x \in A : <<SPACE>> \o x \in A
  BY CharFacts
<1> HIDE DEF A
<1>2. q \in Seq(A) /\ a \in A
  BY DEF A
<1>3. /\ Len(q) \in Nat /\ DOMAIN q = 1..Len(q) /\ \A k \in 1..Len(q) : q[k] \in A
      /\ DOMAIN more = 1..Len(q) + 1 /\ more[Len(q) + 1] = a /\ \A k \in 1..Len(q) : more[k] = q[k]
      /\ (q = <<>> <=> Len(q) = 0)
  BY <1>2
<1>4. next \in A
  BY <1>1, <1>2
<1> HIDE DEF more
<1>5. Apart(q) \in Seq(A) /\ Len(Apart(q)) = Len(q)
  BY <1>1, <1>3 DEF Apart
<1>6. /\ \A k \in 1..Len(q) : Apart(more)[k] = Apart(q)[k]
      /\ Apart(more)[Len(q) + 1] = next
      /\ Apart(more) = [k \in 1..Len(q) + 1 |-> Apart(more)[k]]
  BY <1>3 DEF Apart
<1>7. Apart(more) = Append(Apart(q), next)
  <2> DEFINE s == Apart(q)
             t == Apart(more)
  <2> HIDE DEF s, t, next
  <2>1. s \in Seq(A) /\ IsAppend(t, s, next)
    BY <1>5, <1>6 DEF IsAppend, s, t
  <2>2. t = Append(s, next)
    BY <1>4, <2>1, AppendIs
  <2>3. QED BY <2>2 DEF s, t
<1>8. QED BY <1>4, <1>5, <1>7 DEF A, more

LEMMA LineOfArguments ==
  ASSUME NEW args \in Seq(Seq(Chars))
  PROVE  IF args = <<>> THEN BytesOf(args) = <<>> /\ JoinedOf(args) = <<>>
         ELSE BytesOfLine(BytesOf(args), JoinedOf(args))
<1> DEFINE Holds(q) == IF q = <<>> THEN BytesOf(q) = <<>> /\ JoinedOf(q) = <<>>
                       ELSE BytesOfLine(BytesOf(q), JoinedOf(q))
           A == Seq(Chars)
           D == Chars \cup {NUL}
           P == {q \in Seq(A) : Holds(q)}
<1>1. <<>> \in P
  <2>1. <<>> \in Seq(A)
    OBVIOUS
  <2>2. Terminated(<<>>) = <<>> /\ Apart(<<>>) = <<>>
    BY DEF Terminated, Apart
  <2>3. BytesOf(<<>>) = FlattenSeq(Terminated(<<>>)) /\ JoinedOf(<<>>) = FlattenSeq(Apart(<<>>))
    BY DEF BytesOf, JoinedOf, Terminated, Apart
  <2>4. BytesOf(<<>>) = <<>> /\ JoinedOf(<<>>) = <<>>
    BY <2>2, <2>3, FlattenEmpty
  <2>5. QED BY <2>1, <2>4
<1>2. ASSUME NEW q \in Seq(A), NEW a \in A, q \in P PROVE Append(q, a) \in P
  <2> DEFINE more == Append(q, a)
             last == Append(a, NUL)
             next == IF q = <<>> THEN a ELSE <<SPACE>> \o a
  <2>0. Holds(q)
    BY <1>2
  <2> HIDE DEF P, Holds
  <2>1. more \in Seq(A) /\ more # <<>>
    <3> HIDE DEF A
    <3>1. more \in Seq(A) /\ Len(more) = Len(q) + 1 /\ Len(q) \in Nat
      OBVIOUS
    <3>2. Len(more) # Len(<<>>)
      BY <3>1
    <3>3. QED BY <3>1, <3>2
  <2>2. Terminated(q) \in Seq(Seq(D)) /\ Terminated(more) = Append(Terminated(q), last) /\ last \in Seq(D)
    BY TerminatedAppend
  <2>3. /\ Apart(q) \in Seq(Seq(Chars)) /\ next \in Seq(Chars)
        /\ Apart(more) = Append(Apart(q), next)
    BY ApartAppend
  <2>4. BytesOf(more) = BytesOf(q) \o last
    <3> HIDE DEF last, D, more
    <3>1. FlattenSeq(Append(Terminated(q), last)) = FlattenSeq(Terminated(q)) \o last
      BY <2>2, FlattenAppend
    <3>2. QED BY <2>2, <3>1 DEF BytesOf, Terminated
  <2>5. JoinedOf(more) = JoinedOf(q) \o next
    <3> HIDE DEF next, more
    <3>1. FlattenSeq(Append(Apart(q), next)) = FlattenSeq(Apart(q)) \o next
      BY <2>3, FlattenAppend
    <3>2. QED BY <2>3, <3>1 DEF JoinedOf, Apart
  <2>6. BytesOfLine(BytesOf(more), JoinedOf(more))
    <3>1. CASE q = <<>>
      <4>1. BytesOf(q) = <<>> /\ JoinedOf(q) = <<>>
        BY <2>0, <3>1 DEF Holds
      <4>2. BytesOf(more) = last /\ JoinedOf(more) = a
        <5>1. <<>> \o last = last /\ <<>> \o a = a
          BY <2>2
        <5>2. next = a
          BY <3>1
        <5>3. QED BY <2>4, <2>5, <4>1, <5>1, <5>2
      <4>3. QED BY <4>2, OneArgument
    <3>2. CASE q # <<>>
      <4>1. BytesOfLine(BytesOf(q), JoinedOf(q))
        BY <2>0, <3>2 DEF Holds
      <4>2. next = <<SPACE>> \o a
        BY <3>2
      <4>3. BytesOfLine(BytesOf(q) \o last, JoinedOf(q) \o (<<SPACE>> \o a))
        BY <4>1, MoreArguments
      <4>4. QED BY <2>4, <2>5, <4>2, <4>3
    <3>3. QED BY <3>1, <3>2
  <2>7. QED BY <2>1, <2>6 DEF P, Holds
<1>3. Seq(A) \subseteq P
  <2> HIDE DEF P, A
  <2>1. QED BY <1>1, <1>2, SeqInduction
<1>4. QED BY <1>3

\* ogrt_get_cmdline gives the line.
LEMMA CmdlineJoined ==
  ASSUME NEW args \in Seq(Seq(Chars))
  PROVE  CString(Spaced(BytesOf(args))) = JoinedOf(args)
<1> DEFINE bytes == BytesOf(args)
           line == JoinedOf(args)
<1>1. CASE args = <<>>
  <2>1. bytes = <<>> /\ line = <<>>
    BY <1>1, LineOfArguments
  <2> HIDE DEF bytes, line
  <2>2. Spaced(bytes) = <<>>
    BY <2>1 DEF Spaced
  <2>3. QED BY <2>1, <2>2, OnlyEmpty DEF CString, bytes, line
<1>2. CASE args # <<>>
  <2>1. BytesOfLine(bytes, line)
    BY <1>2, LineOfArguments
  <2> HIDE DEF bytes, line
  <2>2. /\ line \in Seq(Chars) /\ Len(line) \in Nat
        /\ bytes \in Seq(Chars \cup {NUL}) /\ Len(bytes) = Len(line) + 1
    BY <2>1 DEF BytesOfLine
  <2>3. Spaced(bytes) = Append(line, NUL)
    <3>1. DOMAIN bytes = 1..Len(line) + 1
      BY <2>2
    <3>2. \A k \in 1..Len(line) : Spaced(bytes)[k] = line[k]
      <4>1. \A k \in 1..Len(line) : k \in DOMAIN bytes /\ k < Len(bytes)
        BY <2>2, <3>1
      <4>2. \A k \in 1..Len(line) : Spaced(bytes)[k] = Shown(bytes[k])
        BY <4>1 DEF Spaced, Shown
      <4>3. QED BY <2>1, <4>2 DEF BytesOfLine
    <3>3. Spaced(bytes)[Len(line) + 1] = NUL
      <4>1. Len(bytes) \in DOMAIN bytes /\ ~(Len(bytes) < Len(bytes))
        BY <2>2, <3>1
      <4>2. Spaced(bytes)[Len(bytes)] = bytes[Len(bytes)]
        BY <4>1 DEF Spaced
      <4>3. QED BY <2>1, <2>2, <4>2 DEF BytesOfLine
    <3>4. DOMAIN Spaced(bytes) = 1..Len(line) + 1 /\ Spaced(bytes) = [k \in 1..Len(line) + 1 |-> Spaced(bytes)[k]]
      BY <3>1 DEF Spaced
    <3> DEFINE C == Chars \cup {NUL}
    <3>5. line \in Seq(C) /\ NUL \in C
      BY <2>2
    <3> HIDE DEF C
    <3>6. IsAppend(Spaced(bytes), line, NUL)
      BY <3>2, <3>3, <3>4 DEF IsAppend
    <3>7. QED BY <3>5, <3>6, AppendIs
  <2>4. line \in Seq(Chars \cup {NUL}) /\ NUL \notin Chars
    BY <2>2, CharFacts
  <2>5. Only(Append(line, NUL), Chars) = Only(line, Chars)
    BY <2>4, OnlyAppend
  <2>6. QED BY <2>2, <2>3, <2>5, OnlyAll DEF CString, bytes, line
<1>3. QED BY <1>1, <1>2

-----------------------------------------------------------------------------
(* The message, field by field.                                            *)

FromPack == {"pack", "free", "done"}
FromEnvironment == FromPack \cup {"environment"}
FromNames == FromEnvironment \cup {"names"}
FromCmdline == FromNames \cup {"cmdline"}
FromModules == FromCmdline \cup {"modules"}
FromBinpath == FromModules \cup {"binpath"}

GatheredModules == [k \in DOMAIN Modules |-> [name |-> Modules[k]]]

GatheredVariables == [k \in DOMAIN Exported |-> Assignment(Exported[k])]

\* What has been gathered of the process so far, nothing of it overwritten.
GatherInv ==
  /\ msg["arguments"] = <<>>
  /\ pc \in FromModules => msg["binpath"] = process.exe /\ msg["time"] = process.time
  /\ pc \in FromCmdline => msg["loaded_modules"] = GatheredModules
  /\ pc \in FromNames => process.arguments # NULL /\ msg["cmdline"] = CString(Spaced(CmdlineBytes))
  /\ pc \in FromEnvironment =>
       /\ msg["pid"] = process.pid /\ msg["parent_pid"] = process.parent_pid
       /\ msg["job_id"] = Known(process.job_id)
       /\ msg["username"] = Known(process.username) /\ msg["hostname"] = Known(process.hostname)
  /\ pc \in FromPack => msg["environment_variables"] = GatheredVariables

\* The objects of the second pass.
RecordInv ==
  pc \in FromBinpath =>
    /\ LinkedFirst(recorded)
    /\ Len(recorded) <= size + 1
    /\ ~disturbed => Len(recorded) = size
    /\ shared_objects = [k \in 1..size + 1 |->
         IF k <= Len(recorded) THEN SharedObject(recorded[k]) ELSE JUNK]

SentObjects == [k \in 1..size - 2 |->
  [path |-> NormalizedPath(recorded[k + 2]), signature |-> SignatureOf[recorded[k + 2]]]]

\* What is sent is the message, and tells of all the objects counted.
PacketInv ==
  /\ pc \notin {"free", "done"} => packet = NULL
  /\ pc \in {"free", "done"} =>
       /\ packet = Sendbuffer(12, Pack(msg))
       /\ msg["signature"] = SignatureOf[Linked[1]]
       /\ msg["shared_objects"] = SentObjects
       /\ Len(recorded) >= size

LEMMA SameProcess ==
  ASSUME process' = process
  PROVE  /\ GatheredModules' = GatheredModules
         /\ GatheredVariables' = GatheredVariables
         /\ CString(Spaced(CmdlineBytes))' = CString(Spaced(CmdlineBytes))
<1>1. Modules' = Modules
  BY DEF Modules, Tokens
<1>2. Exported' = Exported
  BY DEF Exported
<1>3. CmdlineBytes' = CmdlineBytes
  BY DEF CmdlineBytes
<1>4. QED BY <1>1, <1>2, <1>3 DEF GatheredModules, GatheredVariables, Assignment

\* Each step that gathers sets its fields and no others.
LEMMA GatherInvSets ==
  ASSUME RestInv, GatherInv, GetBinpath \/ GetModules \/ GetCmdline \/ GetNames \/ GetEnvironment
  PROVE  GatherInv'
<1>1. process' = process
  BY DEF GetBinpath, GetModules, GetCmdline, GetNames, GetEnvironment
<1>2. DOMAIN msg = {"binpath", "pid", "parent_pid", "time", "signature", "job_id", "username", "hostname",
                    "cmdline", "environment_variables", "arguments", "shared_objects", "loaded_modules"}
  BY DEF RestInv, InitMessage
<1> USE DEF FromPack, FromEnvironment, FromNames, FromCmdline, FromModules
<1>3. CASE GetBinpath
  <2>1. /\ pc' = "modules" /\ msg'["binpath"] = process.exe /\ msg'["time"] = process.time
        /\ msg'["arguments"] = msg["arguments"]
    BY <1>2, <1>3 DEF GetBinpath
  <2>2. QED BY <1>1, <2>1 DEF GatherInv
<1>4. CASE GetModules
  <2>1. /\ pc = "modules" /\ pc' = "cmdline" /\ msg'["loaded_modules"] = GatheredModules
        /\ \A name \in {"binpath", "time", "arguments"} : msg'[name] = msg[name]
    BY <1>2, <1>4 DEF GetModules, GatheredModules
  <2>2. QED BY <1>1, <2>1, SameProcess DEF GatherInv
<1>5. CASE GetCmdline
  <2>1. /\ pc = "cmdline" /\ pc' = "names" /\ msg'["cmdline"] = CString(Spaced(CmdlineBytes))
        /\ process.arguments # NULL
        /\ \A name \in {"binpath", "time", "arguments", "loaded_modules"} : msg'[name] = msg[name]
    BY <1>2, <1>5 DEF GetCmdline
  <2>2. QED BY <1>1, <2>1, SameProcess DEF GatherInv
<1>6. CASE GetNames
  <2>1. /\ pc = "names" /\ pc' = "environment"
        /\ msg'["pid"] = process.pid /\ msg'["parent_pid"] = process.parent_pid
        /\ msg'["job_id"] = Known(process.job_id)
        /\ msg'["username"] = Known(process.username) /\ msg'["hostname"] = Known(process.hostname)
        /\ \A name \in {"binpath", "time", "arguments", "loaded_modules", "cmdline"} : msg'[name] = msg[name]
    BY <1>2, <1>6 DEF GetNames
  <2>2. QED BY <1>1, <2>1, SameProcess DEF GatherInv
<1>7. CASE GetEnvironment
  <2>1. /\ pc = "environment" /\ pc' = "pack" /\ msg'["environment_variables"] = GatheredVariables
        /\ \A name \in {"binpath", "time", "arguments", "loaded_modules", "cmdline", "pid", "parent_pid",
                        "job_id", "username", "hostname"} : msg'[name] = msg[name]
    BY <1>2, <1>7 DEF GetEnvironment, GatheredVariables
  <2>2. QED BY <1>1, <2>1, SameProcess DEF GatherInv
<1>8. QED BY <1>3, <1>4, <1>5, <1>6, <1>7

\* The other steps leave what was gathered.
LEMMA GatherInvKeeps ==
  ASSUME GatherInv, process' = process,
         \A name \in {"binpath", "time", "arguments", "loaded_modules", "cmdline", "pid", "parent_pid",
                      "job_id", "username", "hostname", "environment_variables"} : msg'[name] = msg[name],
         \/ pc' \in {"record", "binpath", "undefined"}
         \/ pc' = pc
         \/ pc \in FromPack /\ pc' \in FromPack
  PROVE  GatherInv'
BY SameProcess DEF GatherInv, FromPack, FromEnvironment, FromNames, FromCmdline, FromModules

LEMMA GatherInvStep == RestInv /\ GatherInv /\ [Next]_vars => GatherInv'
<1> SUFFICES ASSUME RestInv, GatherInv, [Next]_vars PROVE GatherInv'
  OBVIOUS
<1>1. CASE CountObjects \/ RecordObjects \/ RecordOverruns \/ BinpathOverruns \/ CmdlineOverruns
           \/ PackReadsGarbage
  <2>1. process' = process /\ msg' = msg /\ pc' \in {"record", "binpath", "undefined"}
    BY <1>1 DEF CountObjects, RecordObjects, RecordOverruns, BinpathOverruns, CmdlineOverruns,
       PackReadsGarbage, Undefined
  <2>2. QED BY <2>1, GatherInvKeeps
<1>2. CASE PackMessage
  <2>1. DOMAIN msg = {"binpath", "pid", "parent_pid", "time", "signature", "job_id", "username", "hostname",
                      "cmdline", "environment_variables", "arguments", "shared_objects", "loaded_modules"}
    BY DEF RestInv, InitMessage
  <2>2. \A name \in {"binpath", "time", "arguments", "loaded_modules", "cmdline", "pid", "parent_pid",
                     "job_id", "username", "hostname", "environment_variables"} : msg'[name] = msg[name]
    BY <1>2, <2>1 DEF PackMessage
  <2>3. process' = process /\ pc \in FromPack /\ pc' \in FromPack
    BY <1>2 DEF PackMessage, FromPack
  <2>4. QED BY <2>2, <2>3, GatherInvKeeps
<1>3. CASE SendAndFree
  <2>1. process' = process /\ msg' = msg /\ pc \in FromPack /\ pc' \in FromPack
    BY <1>3 DEF SendAndFree, FromPack
  <2>2. QED BY <2>1, GatherInvKeeps
<1>4. CASE \E o \in Plugins : DlOpen(o) \/ DlClose(o)
  <2>1. process' = process /\ msg' = msg /\ pc' = pc
    BY <1>4 DEF DlOpen, DlClose
  <2>2. QED BY <2>1, GatherInvKeeps
<1>5. CASE Ended \/ UNCHANGED vars
  <2>1. process' = process /\ msg' = msg /\ pc' = pc
    BY <1>5 DEF Ended, vars, threads, so_infos
  <2>2. QED BY <2>1, GatherInvKeeps
<1>6. QED BY <1>1, <1>2, <1>3, <1>4, <1>5, GatherInvSets DEF Next

LEMMA RecordInvStep == PassInv /\ RecordInv /\ [Next]_vars => RecordInv'
<1> SUFFICES ASSUME PassInv, RecordInv, [Next]_vars PROVE RecordInv'
  OBVIOUS
<1> USE DEF FromBinpath, FromPack, FromEnvironment, FromNames, FromCmdline, FromModules
<1>1. CASE RecordObjects
  <2>1. /\ pc' = "binpath" /\ recorded' = loaded /\ Len(loaded) <= size + 1
        /\ UNCHANGED <<size, disturbed>> /\ pc = "record"
        /\ shared_objects' = [k \in 1..size + 1 |->
             IF k <= Len(loaded) THEN SharedObject(loaded[k]) ELSE JUNK]
    BY <1>1 DEF RecordObjects, threads
  <2>2. LinkedFirst(loaded) /\ (~disturbed => Len(loaded) = size)
    BY <2>1 DEF PassInv
  <2>3. LinkedFirst(recorded)'
    BY <2>1, <2>2 DEF LinkedFirst
  <2>4. QED BY <2>1, <2>2, <2>3 DEF RecordInv, SharedObject, NormalizedPath
<1>2. CASE CountObjects \/ RecordOverruns \/ BinpathOverruns \/ CmdlineOverruns \/ PackReadsGarbage
  <2>1. pc' \in {"record", "undefined"}
    BY <1>2 DEF CountObjects, RecordOverruns, BinpathOverruns, CmdlineOverruns, PackReadsGarbage, Undefined
  <2>2. QED BY <2>1 DEF RecordInv
<1>3. ASSUME UNCHANGED <<size, shared_objects, recorded, disturbed>>,
             pc' \in FromBinpath => pc \in FromBinpath
      PROVE  RecordInv'
  <2>1. LinkedFirst(recorded)' <=> LinkedFirst(recorded)
    BY <1>3 DEF LinkedFirst
  <2> HIDE DEF FromBinpath
  <2>2. QED BY <1>3, <2>1 DEF RecordInv, SharedObject, NormalizedPath
<1>4. CASE \/ GetBinpath \/ GetModules \/ GetCmdline \/ GetNames \/ GetEnvironment
           \/ PackMessage \/ SendAndFree
  <2>1. UNCHANGED <<size, shared_objects, recorded, disturbed>> /\ pc \in FromBinpath
    BY <1>4 DEF GetBinpath, GetModules, GetCmdline, GetNames, GetEnvironment, PackMessage, SendAndFree,
       threads, so_infos
  <2>2. QED BY <1>3, <2>1
<1>5. CASE \E o \in Plugins : DlOpen(o) \/ DlClose(o)
  <2>1. /\ UNCHANGED <<size, shared_objects, recorded, pc>>
        /\ disturbed' = (disturbed \/ pc # "count")
    BY <1>5 DEF DlOpen, DlClose, so_infos
  <2>2. pc \in FromBinpath => disturbed'
    BY <2>1, Zenon
  <2>3. LinkedFirst(recorded)' <=> LinkedFirst(recorded)
    BY <2>1 DEF LinkedFirst
  <2> HIDE DEF FromBinpath
  <2>4. QED BY <2>1, <2>2, <2>3 DEF RecordInv, SharedObject, NormalizedPath
<1>6. CASE Ended \/ UNCHANGED vars
  <2>1. UNCHANGED <<size, shared_objects, recorded, disturbed, pc>>
    BY <1>6 DEF Ended, vars, threads, so_infos
  <2>2. QED BY <1>3, <2>1
<1>7. QED BY <1>1, <1>2, <1>4, <1>5, <1>6 DEF Next

LEMMA PacketInvPack ==
  ASSUME PassInv, RestInv, RecordInv, PackMessage
  PROVE  PacketInv'
<1>1. /\ pc = "pack" /\ pc' = "free" /\ UNCHANGED <<size, recorded>>
      /\ \A k \in DOMAIN Listed : Readable(Listed[k])
      /\ packet' = Sendbuffer(MessageType.ProcessInfoMsg, Pack(msg'))
  BY DEF PackMessage, so_infos
<1>2. /\ LinkedFirst(recorded) /\ Len(recorded) <= size + 1
      /\ shared_objects = [k \in 1..size + 1 |->
           IF k <= Len(recorded) THEN SharedObject(recorded[k]) ELSE JUNK]
  BY <1>1 DEF RecordInv, FromBinpath, FromModules, FromCmdline, FromNames, FromEnvironment, FromPack
<1>3. /\ size \in Nat /\ size >= 2 /\ Len(recorded) \in Nat /\ Len(recorded) >= 2
      /\ recorded[1] = Linked[1]
  BY <1>1, <1>2, LinkedType DEF PassInv, LinkedFirst
<1>4. DOMAIN Listed = 1..size - 2 /\ \A k \in 1..size - 2 : Listed[k] = shared_objects[k + 2]
  <2>1. \A k \in 1..size - 2 : k + 2 \in DOMAIN shared_objects /\ Blank + k = k + 2
    BY <1>2, <1>3 DEF Blank
  <2>2. QED BY <2>1 DEF Listed, SharedObjectAt, SharedObjectCount
<1>5. Len(recorded) >= size
  <2>1. CASE size = 2
    BY <1>3, <2>1
  <2>2. CASE size # 2
    <3>1. size - 2 \in 1..size - 2 /\ (size - 2) + 2 = size /\ size \in 1..size + 1
      BY <1>3, <2>2
    <3>2. shared_objects[size] # JUNK
      BY <1>1, <1>4, <3>1 DEF Readable
    <3>3. QED BY <1>2, <1>3, <3>1, <3>2
  <2>3. QED BY <2>1, <2>2
<1>6. ASSUME NEW k \in 1..size - 2
      PROVE  /\ Listed[k].path = NormalizedPath(recorded[k + 2])
             /\ Listed[k].signature = SignatureOf[recorded[k + 2]]
  <2>1. k + 2 \in 1..size + 1 /\ k + 2 <= Len(recorded)
    BY <1>3, <1>5
  <2>2. Listed[k] = SharedObject(recorded[k + 2])
    BY <1>2, <1>4, <2>1
  <2>3. QED BY <2>2 DEF SharedObject
<1>7. shared_objects[1].signature = SignatureOf[Linked[1]]
  <2>1. 1 \in 1..size + 1 /\ 1 <= Len(recorded)
    BY <1>3
  <2>2. shared_objects[1] = SharedObject(Linked[1])
    BY <1>2, <1>3, <2>1
  <2>3. QED BY <2>2 DEF SharedObject
<1>8. /\ msg'["signature"] = shared_objects[1].signature
      /\ msg'["shared_objects"] = [k \in DOMAIN Listed |->
           [path |-> Listed[k].path, signature |-> Listed[k].signature]]
  <2>1. "signature" \in DOMAIN msg /\ "shared_objects" \in DOMAIN msg
    BY DEF RestInv, InitMessage
  <2> DEFINE so == [k \in DOMAIN Listed |-> [path |-> Listed[k].path, signature |-> Listed[k].signature]]
             sig == shared_objects[1].signature
  <2>2. msg' = [msg EXCEPT !.signature = sig, !.shared_objects = so]
    BY DEF PackMessage
  <2> HIDE DEF so, sig
  <2>3. msg'["signature"] = sig /\ msg'["shared_objects"] = so
    BY <2>1, <2>2
  <2>4. QED BY <2>3 DEF so, sig
<1>9. msg'["shared_objects"] = SentObjects
  <2> HIDE DEF Listed
  <2>1. QED BY <1>4, <1>6, <1>8 DEF SentObjects
<1>10. SentObjects' = SentObjects
  BY <1>1 DEF SentObjects, NormalizedPath
<1>11. packet' = Sendbuffer(12, Pack(msg'))
  BY <1>1 DEF MessageType
<1>12. QED BY <1>1, <1>5, <1>7, <1>8, <1>9, <1>10, <1>11 DEF PacketInv

LEMMA PacketInvStep == PassInv /\ RestInv /\ RecordInv /\ PacketInv /\ [Next]_vars => PacketInv'
<1> SUFFICES ASSUME PassInv, RestInv, RecordInv, PacketInv, [Next]_vars PROVE PacketInv'
  OBVIOUS
<1>1. ASSUME UNCHANGED <<size, recorded, msg, packet>>,
             pc' \in {"free", "done"} <=> pc \in {"free", "done"}
      PROVE  PacketInv'
  <2>1. SentObjects' = SentObjects
    BY <1>1 DEF SentObjects, NormalizedPath
  <2>2. Pack(msg)' = Pack(msg)
    BY <1>1
  <2>3. QED BY <1>1, <2>1, <2>2 DEF PacketInv
<1>2. CASE SendAndFree
  <2>1. UNCHANGED <<size, recorded, msg, packet>> /\ pc = "free" /\ pc' = "done"
    BY <1>2 DEF SendAndFree, so_infos
  <2>2. QED BY <1>1, <2>1
<1>3. CASE Ended \/ UNCHANGED vars
  <2>1. UNCHANGED <<size, recorded, msg, packet, pc>>
    BY <1>3 DEF Ended, vars, threads, so_infos
  <2>2. QED BY <1>1, <2>1
<1>4. CASE \E o \in Plugins : DlOpen(o) \/ DlClose(o)
  <2>1. UNCHANGED <<size, recorded, msg, packet, pc>>
    BY <1>4 DEF DlOpen, DlClose, so_infos
  <2>2. QED BY <1>1, <2>1
<1>5. CASE \/ CountObjects \/ RecordObjects \/ RecordOverruns \/ BinpathOverruns \/ CmdlineOverruns
           \/ PackReadsGarbage \/ GetBinpath \/ GetModules \/ GetCmdline \/ GetNames \/ GetEnvironment
  <2>1. packet' = packet /\ pc \notin {"free", "done"} /\ pc' \notin {"free", "done"}
    BY <1>5 DEF CountObjects, RecordObjects, RecordOverruns, BinpathOverruns, CmdlineOverruns,
       PackReadsGarbage, Undefined, GetBinpath, GetModules, GetCmdline, GetNames, GetEnvironment
  <2>2. QED BY <2>1 DEF PacketInv
<1>6. QED BY <1>2, <1>3, <1>4, <1>5, PacketInvPack DEF Next

LEMMA MessageInvAlways == Spec => [](PassInv /\ RestInv /\ GatherInv /\ RecordInv /\ PacketInv)
<1>1. Init => GatherInv /\ RecordInv /\ PacketInv
  BY DEF Init, InitMessage, GatherInv, RecordInv, PacketInv, FromBinpath, FromModules, FromCmdline,
     FromNames, FromEnvironment, FromPack
<1>2. QED BY <1>1, InvInit, PassInvStep, RestInvStep, GatherInvStep, RecordInvStep, PacketInvStep, PTL
          DEF Spec

-----------------------------------------------------------------------------
(* What the server learns.                                                 *)

LEMMA ProcessType ==
  ASSUME RestInv
  PROVE  /\ process.pid \in Nat /\ process.parent_pid \in Nat /\ process.time \in Nat
         /\ process.arguments # NULL => process.arguments \in Seq(Seq(Chars))
         /\ process.loadedmodules # NULL => process.loadedmodules \in Seq(STRING)
<1>1. process \in Process
  BY ProcessInfoAssumption DEF RestInv
<1>2. QED BY <1>1 DEF Process

LEMMA ModulesType ==
  ASSUME RestInv
  PROVE  /\ GatheredModules \in Seq(Range(GatheredModules))
         /\ \A k \in DOMAIN GatheredModules :
              /\ GatheredModules[k].name # NULL
              /\ GatheredModules[k] = [name |-> GatheredModules[k].name]
<1>1. Modules \in Seq(STRING)
  <2>1. CASE process.loadedmodules = NULL
    BY <2>1 DEF Modules
  <2>2. CASE process.loadedmodules # NULL
    BY <2>2, ProcessType, OnlyType DEF Modules, Tokens
  <2>3. QED BY <2>1, <2>2
<1>2. NULL \notin STRING
  BY ProcessInfoAssumption
<1> DEFINE names == Modules
<1> HIDE DEF names
<1>3. /\ Len(names) \in Nat /\ DOMAIN names = 1..Len(names)
      /\ \A k \in 1..Len(names) : names[k] # NULL
  BY <1>1, <1>2 DEF names
<1>4. GatheredModules = [k \in 1..Len(names) |-> [name |-> names[k]]]
  BY <1>3 DEF GatheredModules, names
<1>5. GatheredModules \in Seq(Range(GatheredModules))
  BY <1>3, <1>4 DEF Range
<1>6. \A k \in 1..Len(names) :
        GatheredModules[k].name = names[k] /\ names[k] # NULL /\ GatheredModules[k] = [name |-> names[k]]
  BY <1>3, <1>4
<1>7. QED BY <1>4, <1>5, <1>6

\* The variables sent are those of the whitelist that are set.
LEMMA VariablesTrue ==
  LET all == [k \in DOMAIN Whitelist |-> Assignment(Whitelist[k])] IN
    /\ GatheredVariables = Only(all, {variable \in Range(all) : variable[3] # NULL})
    /\ GatheredVariables \in Seq(Range(GatheredVariables))
<1> DEFINE A == Range(Whitelist)
           B == {Assignment(name) : name \in A}
           f == [name \in A |-> Assignment(name)]
           all == [k \in DOMAIN Whitelist |-> Assignment(Whitelist[k])]
           set == {name \in A : process.environment[name] # NULL}
           other == {variable \in Range(all) : variable[3] # NULL}
<1>1. Whitelist \in Seq(A) /\ DOMAIN Whitelist = 1..Len(Whitelist)
  <2>1. Len(Whitelist) \in Nat /\ Whitelist = [k \in 1..Len(Whitelist) |-> Whitelist[k]]
    BY ProcessInfoAssumption
  <2>2. QED BY <2>1 DEF Range
<1>2. \A name \in A : Assignment(name)[3] = process.environment[name]
  BY DEF Assignment
<1>3. Range(all) = B
  BY DEF Range
<1>4. f \in [A -> B] /\ \A name \in A : f[name] = Assignment(name)
  OBVIOUS
<1>5. all = Mapped(f, Whitelist)
  <2>1. \A k \in DOMAIN Whitelist : Whitelist[k] \in A
    BY DEF Range
  <2>2. QED BY <2>1 DEF Mapped
<1>6. Exported = Only(Whitelist, set)
  BY DEF Exported
<1>7. \A name \in A : name \in set <=> f[name] \in other
  BY <1>2, <1>3, <1>4
<1>8. Exported \in Seq(A)
  <2> HIDE DEF A, set
  <2>1. QED BY <1>1, <1>6, OnlyType
<1>9. GatheredVariables = Mapped(f, Exported)
  <2>1. \A k \in DOMAIN Exported : Exported[k] \in A
    <3> HIDE DEF A
    <3>1. QED BY <1>8
  <2>2. QED BY <1>4, <2>1 DEF GatheredVariables, Mapped
<1> HIDE DEF A, B, f, all, set, other
<1>10. Only(all, other) = GatheredVariables
  BY <1>1, <1>4, <1>5, <1>6, <1>7, <1>9, OnlyMapped
<1>11. GatheredVariables \in Seq(Range(GatheredVariables))
  <2>1. Len(Exported) \in Nat /\ DOMAIN Exported = 1..Len(Exported)
    BY <1>8
  <2>2. GatheredVariables = [k \in 1..Len(Exported) |-> f[Exported[k]]]
    BY <1>9, <2>1 DEF Mapped
  <2>3. QED BY <2>1, <2>2 DEF Range
<1>12. QED BY <1>10, <1>11 DEF all, other

LEMMA SentMessage ==
  ASSUME PassInv, RestInv, GatherInv, PacketInv, pc \in {"free", "done"}
  PROVE  IsMessage(msg)
<1> USE DEF FromPack, FromEnvironment, FromNames, FromCmdline, FromModules
<1>1. /\ msg["arguments"] = <<>> /\ msg["loaded_modules"] = GatheredModules
      /\ msg["environment_variables"] = GatheredVariables
  BY DEF GatherInv
<1>2. msg["shared_objects"] = SentObjects /\ size \in Nat /\ size >= 2
  BY DEF PacketInv, PassInv
<1>3. SentObjects \in Seq(Range(SentObjects))
  <2>1. size - 2 \in Nat
    BY <1>2
  <2>2. QED BY <2>1 DEF SentObjects, Range
<1>4. <<>> \in Seq(Range(<<>>))
  OBVIOUS
<1>5. QED BY <1>1, <1>2, <1>3, <1>4, ModulesType, VariablesTrue DEF IsMessage, RestInv

LEMMA PacketIs ==
  ASSUME PacketInv, packet # NULL
  PROVE  pc \in {"free", "done"} /\ packet.type = 12 /\ packet.payload = Pack(msg)
<1>1. pc \in {"free", "done"} /\ packet = Sendbuffer(12, Pack(msg))
  BY DEF PacketInv
<1> DEFINE payload == Pack(msg)
<1> HIDE DEF payload
<1>2. packet = Sendbuffer(12, payload)
  BY <1>1 DEF payload
<1>3. packet.type = 12 /\ packet.payload = payload
  BY <1>2 DEF Sendbuffer
<1>4. QED BY <1>1, <1>3 DEF payload

LEMMA RecordTrue ==
  PassInv /\ RestInv /\ GatherInv /\ PacketInv => RecordIsTrue
<1> SUFFICES ASSUME PassInv, RestInv, GatherInv, PacketInv, packet # NULL
             PROVE  /\ packet.type = 12 /\ Decodes(packet.payload)
                    /\ \A name \in DOMAIN Truth : Received[name] = Truth[name]
  BY DEF RecordIsTrue
<1>1. pc \in {"free", "done"} /\ packet.type = 12 /\ packet.payload = Pack(msg)
  BY PacketIs
<1> DEFINE got == Unmarshal(Pack(msg))
           lm == msg["loaded_modules"]
<1>2. IsMessage(msg)
  BY <1>1, SentMessage
<1>3. /\ Decodes(Pack(msg))
      /\ \A name \in RequiredNames : got[name] = IF msg[name] = NULL THEN "" ELSE msg[name]
      /\ \A name \in OtherNames : got[name] = msg[name]
      /\ got["loaded_modules"] = [k \in DOMAIN lm |-> [name |-> IF lm[k].name = NULL THEN "" ELSE lm[k].name]]
  BY <1>2, MessageArrives
<1>4. Received = got
  BY <1>1 DEF Received
<1> HIDE DEF got, lm
<1>5. /\ msg["arguments"] = <<>> /\ lm = GatheredModules
      /\ msg["environment_variables"] = GatheredVariables
      /\ msg["binpath"] = process.exe /\ msg["time"] = process.time
      /\ msg["pid"] = process.pid /\ msg["parent_pid"] = process.parent_pid
      /\ msg["job_id"] = Known(process.job_id)
      /\ msg["username"] = Known(process.username) /\ msg["hostname"] = Known(process.hostname)
      /\ process.arguments # NULL /\ msg["cmdline"] = CString(Spaced(CmdlineBytes))
      /\ msg["signature"] = SignatureOf[Linked[1]]
  BY <1>1 DEF GatherInv, PacketInv, FromPack, FromEnvironment, FromNames, FromCmdline, FromModules, lm
<1>6. /\ got["binpath"] = (IF process.exe = NULL THEN "" ELSE process.exe)
      /\ got["pid"] = process.pid /\ got["parent_pid"] = process.parent_pid
      /\ got["time"] = process.time
  <2>1. NULL \notin Nat
    BY ProcessInfoAssumption
  <2>2. QED BY <1>3, <1>5, <2>1, ProcessType DEF RequiredNames
<1>7. got["cmdline"] = CommandLine
  <2>1. CmdlineBytes = BytesOf(process.arguments) /\ CommandLine = JoinedOf(process.arguments)
    BY DEF CmdlineBytes, BytesOf, CommandLine, JoinedOf, NUL, SPACE
  <2>2. CString(Spaced(BytesOf(process.arguments))) = JoinedOf(process.arguments)
    BY <1>5, ProcessType, CmdlineJoined
  <2>3. QED BY <1>3, <1>5, <2>1, <2>2 DEF OtherNames
<1>8. got["environment_variables"] = Truth["environment_variables"]
  BY <1>3, <1>5, VariablesTrue DEF OtherNames, Truth
<1>9. got["loaded_modules"] = Truth["loaded_modules"]
  <2>1. got["loaded_modules"] = GatheredModules
    <3>1. lm \in Seq(Range(lm)) /\ \A k \in DOMAIN lm : lm[k].name # NULL /\ lm[k] = [name |-> lm[k].name]
      BY <1>5, ModulesType
    <3>2. got["loaded_modules"] = [k \in DOMAIN lm |-> lm[k]]
      BY <1>3, <3>1
    <3>3. lm = [k \in DOMAIN lm |-> lm[k]]
      BY <3>1
    <3>4. QED BY <1>5, <3>2, <3>3
  <2>2. GatheredModules = Truth["loaded_modules"]
    BY DEF GatheredModules, Modules, Truth
  <2>3. QED BY <2>1, <2>2
<1>10. /\ got["signature"] = SignatureOf[Linked[1]] /\ got["job_id"] = Known(process.job_id)
       /\ got["username"] = Known(process.username) /\ got["hostname"] = Known(process.hostname)
       /\ got["arguments"] = <<>>
  BY <1>3, <1>5 DEF OtherNames
<1>11. \A name \in DOMAIN Truth : got[name] = Truth[name]
  <2>1. DOMAIN Truth = {"binpath", "pid", "parent_pid", "time", "signature", "job_id", "username", "hostname",
                        "cmdline", "arguments", "environment_variables", "loaded_modules"}
    BY DEF Truth
  <2>2. /\ Truth["binpath"] = (IF process.exe = NULL THEN "" ELSE process.exe)
        /\ Truth["pid"] = process.pid /\ Truth["parent_pid"] = process.parent_pid
        /\ Truth["time"] = process.time /\ Truth["signature"] = SignatureOf[Linked[1]]
        /\ Truth["job_id"] = Known(process.job_id) /\ Truth["username"] = Known(process.username)
        /\ Truth["hostname"] = Known(process.hostname)
        /\ Truth["cmdline"] = CommandLine /\ Truth["arguments"] = <<>>
    BY DEF Truth
  <2>3. QED BY <1>6, <1>7, <1>8, <1>9, <1>10, <2>1, <2>2
<1>12. QED BY <1>1, <1>3, <1>4, <1>11

\* The server decodes what is true of the process: of a packet that is sent,
\* by the C tables and the Go tags, every field, whatever is missing or empty
\* and whatever threads do meanwhile.
THEOREM RecordIsTrueCorrect == Spec => []RecordIsTrue
  BY MessageInvAlways, RecordTrue, PTL

LEMMA ListTrue ==
  PassInv /\ RestInv /\ GatherInv /\ RecordInv /\ PacketInv => ListsLoaded
<1> SUFFICES ASSUME PassInv, RestInv, GatherInv, RecordInv, PacketInv, packet # NULL
             PROVE  LET there == [k \in 1..Len(recorded) - 2 |-> Described(recorded[k + 2])] IN
                      \/ Received.shared_objects = there
                      \/ disturbed /\ Received.shared_objects = SubSeq(there, 1, Len(there) - 1)
  BY DEF ListsLoaded
<1> DEFINE there == [k \in 1..Len(recorded) - 2 |-> Described(recorded[k + 2])]
           so == msg["shared_objects"]
           got == Unmarshal(Pack(msg))["shared_objects"]
<1>1. pc \in {"free", "done"} /\ packet.payload = Pack(msg)
  BY PacketIs
<1>2. got = [k \in DOMAIN so |->
        [path |-> IF so[k].path = NULL THEN "" ELSE so[k].path, signature |-> so[k].signature]]
  BY <1>1, SentMessage, MessageArrives
<1>3. Received.shared_objects = got
  BY <1>1 DEF Received
<1>4. /\ LinkedFirst(recorded) /\ Len(recorded) <= size + 1 /\ (~disturbed => Len(recorded) = size)
      /\ so = SentObjects /\ Len(recorded) >= size /\ size \in Nat /\ size >= 2
  BY <1>1 DEF RecordInv, PacketInv, PassInv, FromBinpath, FromModules, FromCmdline, FromNames,
     FromEnvironment, FromPack
<1>5. recorded \in Seq(Objects) /\ Len(recorded) \in Nat /\ NULL \notin Objects
  BY <1>4, ProcessInfoAssumption DEF LinkedFirst
<1> HIDE DEF got, so
<1>6. got = [k \in 1..size - 2 |-> Described(recorded[k + 2])]
  <2>1. \A k \in 1..size - 2 : recorded[k + 2] \in Objects
    BY <1>4, <1>5
  <2>2. \A o \in Objects : (IF NormalizedPath(o) = NULL THEN "" ELSE NormalizedPath(o)) =
                           (IF o \in Unresolvable THEN "" ELSE o)
    BY <1>5 DEF NormalizedPath
  <2>3. DOMAIN so = 1..size - 2 /\ \A k \in 1..size - 2 :
          so[k].path = NormalizedPath(recorded[k + 2]) /\ so[k].signature = SignatureOf[recorded[k + 2]]
    BY <1>4 DEF SentObjects
  <2>4. \A k \in 1..size - 2 :
          [path |-> IF so[k].path = NULL THEN "" ELSE so[k].path, signature |-> so[k].signature]
            = Described(recorded[k + 2])
    BY <2>1, <2>2, <2>3 DEF Described
  <2>5. QED BY <1>2, <2>3, <2>4
<1>7. CASE Len(recorded) = size
  BY <1>3, <1>6, <1>7
<1>8. CASE Len(recorded) = size + 1
  <2>1. disturbed
    BY <1>4, <1>8
  <2>2. Len(there) = size - 1 /\ \A k \in 1..size - 2 : there[k] = Described(recorded[k + 2])
    BY <1>4, <1>8
  <2>3. SubSeq(there, 1, Len(there) - 1) = [k \in 1..size - 2 |-> there[k]]
    <3> HIDE DEF there
    <3>1. Len(there) - 1 = size - 2
      BY <1>4, <2>2
    <3>2. QED BY <1>4, <3>1
  <2>4. got = SubSeq(there, 1, Len(there) - 1)
    <3> HIDE DEF there
    <3>1. QED BY <1>6, <2>2, <2>3
  <2>5. QED BY <1>3, <2>1, <2>4
<1>9. Len(recorded) = size \/ Len(recorded) = size + 1
  BY <1>4, <1>5
<1>10. QED BY <1>7, <1>8, <1>9

\* The server learns of every object of the second pass but the first two, each
\* with its own signature, in order; the last may be missing if a thread
\* disturbed the passes.
THEOREM ListsLoadedCorrect == Spec => []ListsLoaded
  BY MessageInvAlways, ListTrue, PTL
=============================================================================

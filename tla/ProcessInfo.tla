---------------------------- MODULE ProcessInfo -----------------------------
(***************************************************************************)
(* What the preload library tells the server of one process:               *)
(* ogrt_send_processinfo (client/src/ogrt-main.c) with ogrt_get_loaded_so  *)
(* (client/src/ogrt-readso.c) and the readers of /proc, of the password    *)
(* file and of the environment (client/src/ogrt-util.c), built with all    *)
(* the OGRT_MSG_SEND options and a whitelist of environment variables.     *)
(*                                                                         *)
(* The loaded objects are counted in one pass and recorded in another.     *)
(* Each pass holds the lock of the dynamic loader, but other threads may   *)
(* dlopen and dlclose between them, and until the message is packed: the   *)
(* signatures in it are pointers into the objects.  Undefined behaviour    *)
(* ends the model: pc = "undefined".  Allocations succeed.                 *)
(***************************************************************************)
EXTENDS Wire

CONSTANTS
  Linked,        \* the objects loaded for good, the program and the vDSO first
  Plugins,       \* the objects that threads may load once and unload
  SignatureOf,   \* the signature that NoteScan finds in each object, or NULL
  Unresolvable,  \* the objects whose path realpath rejects, like the vDSO's
  Processes,     \* what the system says of the process
  Whitelist,     \* OGRT_MSG_SEND_ENVIRONMENT_WHITELIST, a sequence
  PathMax,       \* PATH_MAX
  JUNK           \* memory that was not initialised

Objects == Range(Linked) \cup Plugins

\* The characters of a command line; "NUL" ends an argument.
Chars == {"x", "y", " "}

\* The fields that the kernel, the password file and the environment give.
\* exe, arguments, username and hostname are NULL if they cannot be read.
Process ==
  [pid : Nat, parent_pid : Nat, time : Nat,
   exe : STRING \cup {NULL}, exe_fills : BOOLEAN,
   arguments : Seq(Seq(Chars)) \cup {NULL},
   job_id : STRING \cup {NULL}, username : STRING \cup {NULL}, hostname : STRING \cup {NULL},
   loadedmodules : Seq(STRING) \cup {NULL},
   environment : [Range(Whitelist) -> STRING \cup {NULL}]]

ASSUME ProcessInfoAssumption ==
  /\ Linked \in Seq(Range(Linked)) /\ Len(Linked) >= 2
  /\ Range(Linked) \cap Plugins = {}
  /\ SignatureOf \in [Objects -> STRING \cup {NULL}]
  /\ Unresolvable \subseteq Objects
  /\ JUNK \notin [object : Objects, path : Objects \cup {NULL}, signature : STRING \cup {NULL}]
  /\ PathMax \in Nat
  /\ Whitelist \in Seq(STRING)
  /\ NULL \notin Nat \cup STRING \cup Objects
  /\ Processes \subseteq Process

VARIABLES
  pc,
  process,         \* what there is to tell
  loaded,          \* the objects loaded, in the order of the loader's list
  opened,          \* the plugins that were loaded
  size, index,     \* of so_infos
  shared_objects,  \* of so_infos: room for one more than size
  msg,             \* the message under construction
  packet,          \* what is sent
  heap,            \* the allocations not freed
  recorded,        \* history: the objects loaded at the second pass
  disturbed        \* history: a thread loaded or unloaded after the first pass

threads == <<loaded, opened, disturbed>>
so_infos == <<size, index, shared_objects>>
vars == <<pc, process, threads, so_infos, msg, packet, heap, recorded>>

\* ogrt__process_info__init.
InitMessage ==
  [binpath |-> NULL, pid |-> 0, parent_pid |-> 0, time |-> 0, signature |-> NULL,
   job_id |-> NULL, username |-> NULL, hostname |-> NULL, cmdline |-> NULL,
   environment_variables |-> <<>>, arguments |-> <<>>,
   shared_objects |-> <<>>, loaded_modules |-> <<>>]

Init ==
  /\ pc = "count"
  /\ process \in Processes
  /\ loaded = Linked
  /\ opened = {}
  /\ size = 0 /\ index = 0 /\ shared_objects = <<>>
  /\ msg = InitMessage
  /\ packet = NULL
  /\ heap = {}
  /\ recorded = <<>>
  /\ disturbed = FALSE

-----------------------------------------------------------------------------
(* The other threads of the program.                                       *)

Running == pc \notin {"done", "undefined"}

DlOpen(o) ==
  /\ Running
  /\ o \notin opened
  /\ loaded' = Append(loaded, o)
  /\ opened' = opened \cup {o}
  /\ disturbed' = (disturbed \/ pc # "count")
  /\ UNCHANGED <<pc, process, so_infos, msg, packet, heap, recorded>>

DlClose(o) ==
  /\ Running
  /\ \E k \in DOMAIN loaded : loaded[k] = o /\ loaded' = RemoveAt(loaded, k)
  /\ disturbed' = (disturbed \/ pc # "count")
  /\ UNCHANGED <<pc, process, opened, so_infos, msg, packet, heap, recorded>>

-----------------------------------------------------------------------------
(* ogrt_get_loaded_so.                                                     *)

\* Faulty variant: the object in the struct itself is not counted as room.
CountObjectsExactly ==
  /\ pc = "count"
  /\ size' = Len(loaded)
  /\ index' = 0
  /\ shared_objects' = [k \in 1..Len(loaded) |-> JUNK]
  /\ heap' = {<<"infos", 0>>}
  /\ pc' = "record"
  /\ UNCHANGED <<process, threads, msg, packet, recorded>>

\* The first pass: count_program_header.  The struct has room for one object,
\* to which that for size objects is added.
CountObjects ==
  /\ pc = "count"
  /\ size' = Len(loaded)
  /\ index' = 0
  /\ shared_objects' = [k \in 1..Len(loaded) + 1 |-> JUNK]
  /\ heap' = {<<"infos", 0>>}
  /\ pc' = "record"
  /\ UNCHANGED <<process, threads, msg, packet, recorded>>

\* ogrt_normalize_path.
NormalizedPath(o) == IF o \in Unresolvable THEN NULL ELSE o

\* The shared object that handle_program_header records.
SharedObject(o) ==
  [object |-> o, path |-> NormalizedPath(o), signature |-> SignatureOf[o]]

\* The second pass: handle_program_header for each object there is now.
RecordObjects ==
  /\ pc = "record"
  /\ Len(loaded) <= size + 1
  /\ shared_objects' = [k \in 1..size + 1 |->
       IF k <= Len(loaded) THEN SharedObject(loaded[k]) ELSE JUNK]
  /\ index' = Len(loaded)
  /\ heap' = heap \cup {<<"path", k>> : k \in {k \in DOMAIN loaded : loaded[k] \notin Unresolvable}}
  /\ recorded' = loaded
  /\ pc' = "binpath"
  /\ UNCHANGED <<process, threads, size, msg, packet>>

\* It writes past the allocation.
RecordOverruns ==
  /\ pc = "record"
  /\ Len(loaded) > size + 1
  /\ pc' = "undefined"
  /\ recorded' = loaded
  /\ UNCHANGED <<process, threads, so_infos, msg, packet, heap>>

-----------------------------------------------------------------------------
(* ogrt_send_processinfo: the fields.                                      *)

Undefined ==
  /\ pc' = "undefined"
  /\ UNCHANGED <<process, threads, so_infos, msg, packet, heap, recorded>>

\* clock_gettime and ogrt_get_binpath; NULL if readlink fails.
GetBinpath ==
  /\ pc = "binpath"
  /\ ~process.exe_fills
  /\ msg' = [msg EXCEPT !.binpath = process.exe, !.time = process.time]
  /\ heap' = heap \cup IF process.exe = NULL THEN {} ELSE {<<"binpath", 0>>}
  /\ pc' = "modules"
  /\ UNCHANGED <<process, threads, so_infos, packet, recorded>>

\* readlink fills all of bin_path: the NUL is written behind it.
BinpathOverruns == pc = "binpath" /\ process.exe_fills /\ Undefined

\* strtok skips empty names.
Tokens(names) == Only(names, STRING \ {""})

\* The modules named in LOADEDMODULES, counted and then copied.
Modules == IF process.loadedmodules = NULL THEN <<>> ELSE Tokens(process.loadedmodules)

GetModules ==
  /\ pc = "modules"
  /\ msg' = [msg EXCEPT !.loaded_modules = [k \in DOMAIN Modules |-> [name |-> Modules[k]]]]
  /\ heap' = heap \cup ({"module", "name"} \X DOMAIN Modules)
                  \cup IF Modules = <<>> THEN {} ELSE {<<"modules", 0>>}
  /\ pc' = "cmdline"
  /\ UNCHANGED <<process, threads, so_infos, packet, recorded>>

\* /proc/<pid>/cmdline: the arguments, each with its NUL.
CmdlineBytes == FlattenSeq([k \in DOMAIN process.arguments |-> Append(process.arguments[k], "NUL")])

\* Faulty variant: the last NUL is replaced as well.
SpacedToTheEnd(bytes) == [k \in DOMAIN bytes |-> IF bytes[k] = "NUL" THEN " " ELSE bytes[k]]

\* ogrt_get_cmdline: a space for each NUL but the last.
Spaced(bytes) ==
  [k \in DOMAIN bytes |-> IF bytes[k] = "NUL" /\ k < Len(bytes) THEN " " ELSE bytes[k]]

\* Only the last byte may still be a NUL.
CString(bytes) == Only(bytes, Chars)

\* The descriptor of /proc/<pid>/cmdline stays open: see PreloadHook.
GetCmdline ==
  /\ pc = "cmdline"
  /\ process.arguments # NULL
  /\ Len(CmdlineBytes) < PathMax
  /\ msg' = [msg EXCEPT !.cmdline = CString(Spaced(CmdlineBytes))]
  /\ heap' = heap \cup {<<"cmdline", 0>>}
  /\ pc' = "names"
  /\ UNCHANGED <<process, threads, so_infos, packet, recorded>>

\* open or read fails, or read fills all of cmdline: the final NUL is written
\* before it or behind it.
CmdlineOverruns ==
  /\ pc = "cmdline"
  /\ process.arguments # NULL => Len(CmdlineBytes) >= PathMax
  /\ Undefined

Known(name) == IF name = NULL THEN "UNKNOWN" ELSE name

\* The pids, the job, ogrt_get_username and ogrt_get_hostname.
GetNames ==
  /\ pc = "names"
  /\ msg' = [msg EXCEPT !.pid = process.pid, !.parent_pid = process.parent_pid,
                        !.job_id = Known(process.job_id),
                        !.username = Known(process.username),
                        !.hostname = Known(process.hostname)]
  /\ heap' = heap \cup (IF process.username = NULL THEN {} ELSE {<<"username", 0>>})
                  \cup (IF process.hostname = NULL THEN {} ELSE {<<"hostname", 0>>})
  /\ pc' = "environment"
  /\ UNCHANGED <<process, threads, so_infos, packet, recorded>>

\* asprintf "%s=%s".
Assignment(name) == <<name, "=", process.environment[name]>>

\* The variables of the whitelist that are set.
Exported == Only(Whitelist, {name \in Range(Whitelist) : process.environment[name] # NULL})

GetEnvironment ==
  /\ pc = "environment"
  /\ msg' = [msg EXCEPT !.environment_variables = [k \in DOMAIN Exported |-> Assignment(Exported[k])]]
  /\ heap' = heap \cup {<<"variable", k>> : k \in DOMAIN Exported}
  /\ pc' = "pack"
  /\ UNCHANGED <<process, threads, so_infos, packet, recorded>>

-----------------------------------------------------------------------------
(* ogrt_send_processinfo: the message.                                     *)

\* Faulty variant: only the program itself is left out.
BlankOne == 1

\* shared_object_excl_blank: the objects before this are left out.
Blank == 2

\* Faulty variant: the objects left out are counted.
SharedObjectCountAll == size

SharedObjectCount == size - 2

SharedObjectAt(k) ==
  IF k \in DOMAIN shared_objects THEN shared_objects[k] ELSE JUNK

\* What is packed was initialised, and its signature is still mapped.
Readable(so) ==
  /\ so # JUNK
  /\ so.signature # NULL => so.object \in Range(loaded)

Listed == [k \in 1..SharedObjectCount |-> SharedObjectAt(Blank + k)]

\* get_packed_size, ogrt_prepare_sendbuffer and pack.
PackMessage ==
  /\ pc = "pack"
  /\ \A k \in DOMAIN Listed : Readable(Listed[k])
  /\ msg' = [msg EXCEPT
       !.signature = shared_objects[1].signature,
       !.shared_objects = [k \in DOMAIN Listed |->
          [path |-> Listed[k].path, signature |-> Listed[k].signature]]]
  /\ packet' = Sendbuffer(MessageType.ProcessInfoMsg, Pack(msg'))
  /\ heap' = heap \cup {<<"buffer", 0>>}
  /\ pc' = "free"
  /\ UNCHANGED <<process, threads, so_infos, recorded>>

\* It reads a shared object that the second pass did not find, or a signature
\* in an object unloaded since.
PackReadsGarbage ==
  /\ pc = "pack"
  /\ \E k \in DOMAIN Listed : ~Readable(Listed[k])
  /\ Undefined

\* Faulty variant: the paths of the objects that are not sent are forgotten.
FreedPathsListed == {<<"path", Blank + k>> : k \in DOMAIN Listed}

FreedPaths == {<<"path", k>> : k \in 1..size}

\* send, whose result is ignored, so that the packet may be lost here, and
\* "free stuff".
SendAndFree ==
  /\ pc = "free"
  /\ heap' = heap
       \ (FreedPaths
          \cup ({"binpath", "infos", "buffer", "username", "hostname", "cmdline", "modules"} \X {0})
          \cup ({"name", "module"} \X DOMAIN msg.loaded_modules)
          \cup ({"variable"} \X DOMAIN msg.environment_variables))
  /\ pc' = "done"
  /\ UNCHANGED <<process, threads, so_infos, msg, packet, recorded>>

Ended == ~Running /\ UNCHANGED vars

Next ==
  \/ CountObjects
  \/ RecordObjects
  \/ RecordOverruns
  \/ GetBinpath
  \/ BinpathOverruns
  \/ GetModules
  \/ GetCmdline
  \/ CmdlineOverruns
  \/ GetNames
  \/ GetEnvironment
  \/ PackMessage
  \/ PackReadsGarbage
  \/ SendAndFree
  \/ \E o \in Plugins : DlOpen(o) \/ DlClose(o)
  \/ Ended

Spec == Init /\ [][Next]_vars

-----------------------------------------------------------------------------
(* Properties.                                                             *)

\* The type invariant.  The objects linked for good are at the front of the
\* loader's list in both passes, whatever threads load and unload behind them.
TypeOK ==
  /\ pc \in {"count", "record", "binpath", "modules", "cmdline", "names",
             "environment", "pack", "free", "done", "undefined"}
  /\ process \in Processes
  /\ loaded \in Seq(Objects)
  /\ SubSeq(loaded, 1, Len(Linked)) = Linked
  /\ opened \subseteq Plugins
  /\ pc # "count" => SharedObjectCount \in Nat
  /\ DOMAIN shared_objects = IF pc = "count" THEN {} ELSE 1..size + 1
  /\ index \in 0..size + 1
  /\ DOMAIN msg = DOMAIN InitMessage
  /\ disturbed \in BOOLEAN

\* The library does not come to undefined behaviour unless a thread loads or
\* unloads an object while the list is made and sent, or /proc says of the
\* process what does not fit into PATH_MAX or nothing at all.
UndefinedOnlyIfDisturbed ==
  pc = "undefined" =>
    \/ disturbed
    \/ process.exe_fills
    \/ process.arguments = NULL
    \/ Len(CmdlineBytes) >= PathMax

Received == Unmarshal(packet.payload)

\* The arguments with a space between them.
CommandLine ==
  LET args == process.arguments
  IN  FlattenSeq([k \in DOMAIN args |-> IF k = 1 THEN args[k] ELSE <<" ">> \o args[k]])

\* What the server is to know of the process, but for the shared objects.
Truth ==
  [binpath |-> IF process.exe = NULL THEN "" ELSE process.exe,
   pid |-> process.pid, parent_pid |-> process.parent_pid, time |-> process.time,
   signature |-> SignatureOf[Linked[1]],
   job_id |-> Known(process.job_id), username |-> Known(process.username),
   hostname |-> Known(process.hostname), cmdline |-> CommandLine, arguments |-> <<>>,
   environment_variables |->
     LET all == [k \in DOMAIN Whitelist |-> Assignment(Whitelist[k])]
     IN  Only(all, {variable \in Range(all) : variable[3] # NULL}),
   loaded_modules |->
     IF process.loadedmodules = NULL THEN <<>>
     ELSE LET names == Tokens(process.loadedmodules)
          IN  [k \in DOMAIN names |-> [name |-> names[k]]]]

\* The server takes the packet for a process info and decodes from it, by its
\* own tags, every field as it is for the process.
RecordIsTrue ==
  packet # NULL =>
    /\ packet.type = 12
    /\ Decodes(packet.payload)
    /\ \A name \in DOMAIN Truth : Received[name] = Truth[name]

\* What is to be said of an object.
Described(o) ==
  [path |-> IF o \in Unresolvable THEN "" ELSE o, signature |-> SignatureOf[o]]

\* The server learns of every object loaded at the second pass but the program
\* and the vDSO, each with its own signature, in order; only if a thread
\* disturbed the passes, the last of them may be missing.
ListsLoaded ==
  packet # NULL =>
    LET there == [k \in 1..Len(recorded) - 2 |-> Described(recorded[k + 2])] IN
      \/ Received.shared_objects = there
      \/ disturbed /\ Received.shared_objects = SubSeq(there, 1, Len(there) - 1)

\* All that is allocated is freed, whatever was missing, but for the path of an
\* object that was loaded between the passes.
HeapBalanced ==
  pc = "done" =>
    /\ heap \subseteq {<<"path", size + 1>>}
    /\ heap # {} => disturbed
=============================================================================

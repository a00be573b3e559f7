# OGRT in TLA+

OGRT tells which programs and libraries run on a cluster. A preload library
sends one UDP datagram per program image to a daemon, which persists it; a
linker wrapper stamps binaries with signatures that the preload library finds
in memory. This directory holds TLA+ models of these parts, their TLC
configurations, and TLAPS proofs. Paths below are relative to `src/`.

## The system

| Component | Source | State | Operations |
|---|---|---|---|
| Server data path | `server/src/ogrt-server.go:148-205` | one `packet_buffer`, a goroutine and a decoded message per datagram, unbuffered channels, workers | receive, decode, fan out, persist, signal |
| Server start | `server/src/ogrt-server.go:84-150` | maps of channels and writers, timers | one loop over the configured outputs, starting workers as it goes |
| JsonFile output | `server/src/output/json_file.go` | a file per job, a mutex per writer | `PersistProcessInfo` |
| TCP and ElasticSearch outputs | `server/src/output/json_over_tcp.go`, `json_elasticsearch.go` | a connection | `PersistProcessInfo`; ElasticSearch rewrites the shared message |
| Preload hook | `client/src/ogrt-main.c:21-137` | `__ogrt_active`, `__daemon_socket`, file descriptors | filter, resolve, connect, send, close |
| Message building | `client/src/ogrt-main.c:139-327`, `ogrt-util.c` | heap of one call | collect, pack, send, free |
| Message format | `client/src/ogrt.pb-c.[ch]`, `server/src/protocol/ogrt.pb.go` | none | pack by descriptors in C, decode by struct tags in Go |
| Loaded objects | `client/src/ogrt-readso.c:92-115` | the list of objects | count, then record |
| Signature scan | `client/src/ogrt-readso.c:23-90` | offset, signature of an object | walk the notes of each PT_NOTE segment |
| Linker wrapper | `client/wrappers/ld` | temporary files, arguments | find the linker, sign, exec |
| Command line tool | `client/src/ogrt-cli.c`, `ogrt-cmdline.c` | `argv` and the indices of getopt, `args_info` | parse options, print a signature object, list the signatures in a file |
| Build, metrics, unused generated code | `wscript`, ... | | |

How they meet: the wrapper runs the command line tool and passes its output to
the linker; the loader calls the hook in each image, which scans the loaded
objects and sends a message; `main` of the server gives the datagram to a
handler goroutine, which gives a pointer to the decoded message to a worker of
every output.

What is hard to get right, and the property that says it does (or how far it
does):

- **Shared receive buffer.** The slice given to a handler aliases the buffer
  that the next datagram overwrites. `DecodesOwnPayload`: this is the *only*
  way to another process's data.
- **Fan-out.** Unbuffered channels, visited in random order, with competing
  workers. `InOnePlace`, `RecordedOnce`, `ImplementsProcessLog`,
  `EveryOutputServed`.
- **Shared message.** ElasticSearch workers rewrite its time while others read
  it. `TimesBounded`.
- **Ends of the process.** Errors, panics and signals at any point; the above
  hold up to that point.
- **Start.** Workers read a map that `main` is still assigning to, and look up
  a timer registered after they were started. `NothingMissing`,
  `ReadyToReceive`, `ServerStarts`.
- **Job files.** Read, truncate and write by several writers, with failures,
  kills and restarts in between. `RecordsKept`, `ValidUnlessDisturbed`,
  `FileWellFormed`, `DamageIsPermanent`.
- **Failing connections.** A JSON encoder keeps its first error for ever and
  nothing dials again. `TcpLossIsFinal`.
- **Hook in every program.** It must end, close nobody else's descriptors, leave
  no socket behind (it does leave a descriptor, one per image), send from the
  images it should and from no other, and say so. `HookReturns`,
  `SocketAccounted`, `DescriptorsLeft`, `ReturnTellsConnected`.
- **From the hook to the record.** Datagrams are lost, duplicated and reordered
  while the process goes on to other images. `OnlyTracedRecorded`,
  `RecordedTwiceOnlyIfDuplicated`.
- **Message building.** Threads load and unload objects between the passes that
  count and record them and until the message is packed; anything the system
  is asked may be missing or too long; client and server have separately
  generated formats. `UndefinedOnlyIfDisturbed`, `ListsLoaded`, `RecordIsTrue`,
  `HeapBalanced`.
- **Options.** getopt permutes `argv` in place while it scans it.
  `ExchangeRotates`, `ArgvPartitioned`, `OutcomeAsGiven`, `ParseEnds`.
- **Scan of notes.** The offset ignores padding, so the scan reads headers where
  none is. `SignatureIsAStamp`, `ReachedStampReported`.
- **Parallel links.** `SignaturesSound`, `PathDecides`.

## Modules

**OgrtServer** models the goroutines of the running server. A datagram names
the handler started for it. `Receive` is one turn of the receive loop
(`ogrt-server.go:152-187`): it overwrites the cells of `packet_buffer` that the
payload covers and starts the handler, or panics if the slice exceeds the
buffer. `IgnoreType`, `ReadCell`, `Decode` are the handler: it reads its slice
cell by cell *from the shared buffer*, and what a mixed payload decodes to is
`Garbled` or an error. `NextChannel`, `Deliver`, `HandlerReturns` are the loop
over `output_channels`; a send on an unbuffered channel is one step with a
waiting worker. `LoadTime` and `StoreTime` are the two halves of
`*Time = *Time * 1000`; `WriteRecord`, `WriteFails`, `WritePanics` end
`PersistProcessInfo`. A failed write makes a TCP worker `broken` for good: its
encoder returns the same error from then on. `CatchSignal` and `CloseWriters` are the signal
goroutine, `MainReturns` any receive error. Payload bytes are cells that hold
the name of a message, times the number of multiplications. `clobbered` is a
history variable.

**ProcessLog** is the abstract promise: a datagram is heard once and, for each
output, recorded at most once or lost for good. `OgrtServer` defines the
mapping (`heard`, `fate`) and `ImplementsProcessLog`.

**ServerStartup** models `main` up to the receive loop. The assignment to the
map `outputs` is an interval (`Open` to `Assigned`), in which the read of a
worker already started may be noticed by the Go runtime (`LookupRaces`).

**JsonFileOutput** gives `PersistProcessInfo` of the file output a step per
system call. A writer is one worker's object; the mutex is per writer, as in
the code. The writers are the workers of one output, of which a message goes to
one. Failing calls, `log.Panic`, a kill at any point and the restart are
actions. `disturbed` is a history variable: a job is disturbed when a process
died with its file truncated, a read of an existing file failed, or two
writers overlapped on it; the code defends against none of these, and
`ogrt.conf:45-48` advises against the output in production and against more than
one worker. `settled` remembers the processes whose `PersistProcessInfo`
returned.

**PreloadHook** models the constructor statement by statement: every early
return, the filter loop, the loop over addresses with its stale descriptor,
the one `send` whose result is ignored, the final `close`. Around it, threads
open and close descriptors at any time, and `execve` starts another image with
fresh statics and the old descriptors. The descriptor of `/proc/<pid>/cmdline`
that `ogrt_get_cmdline` opens is not closed (`fds[f] = "cmdline"`); without a
free one the library writes before a buffer, which may crash (`SendCrashes`) or
not.

**Pipeline** extends PreloadHook: a send makes a datagram or none, the network
duplicates and delivers in any order, and the server is ProcessLog, which
OgrtServer implements. `images` remembers what each image was, so that a record
can be compared with the image it came from long after that is gone.

**ProcessInfo** models `ogrt_send_processinfo` in the order in which it asks
for things, with `ogrt_get_loaded_so` as its two passes. Threads `DlOpen` and
`DlClose` between any two steps. `shared_objects` has the room that `malloc`
gives, one object more than were counted, and holds `JUNK` where nothing was
recorded; reads of that, of a signature in an object that is gone, and writes
outside of a buffer go to `pc = "undefined"`. `heap` holds the allocations.
`recorded` and `disturbed` are history variables.

**Wire** holds the field descriptors of the client and the struct tags of the
server, each as generated, and what the two protobuf libraries do with them:
`Pack` makes a sequence of numbered fields of a message, `Decodes` says whether
`proto.Unmarshal` takes it and `Unmarshal` what it makes of it. ProcessInfo packs
by the one and its properties decode by the other. `Only`, the elements of a
sequence that are in a set, is a recursive function and stands for `strtok`
skipping empty names, for the end of a C string and for the fields of one number.

**CommandLine** models the tool `ogrt`: `cmdline_parser_internal` with its own
copy of getopt_long, `update_arg`, and `main`. `argv[n]` is the place at which
the word now at `n` was given, so that a permutation can be compared with what
was given. Words are what the parser tells apart: an operand, `--`, a word of
short options by its first letter, a long option by the options its name is a
prefix of. `exchange` is a step per turn of its loop. The reference that it is
compared with (`Role`, `Meant`, `Deciding`) reads the line once from left to
right and knows nothing of permutation.

**NoteScan** models `handle_program_header` and `read_signature` on an object
given as its PT_NOTE segments. Offsets are computed as the code does, without
padding; where no note begins, the sizes read are arbitrary members of
`Strides`.

**LdWrapper** models the script. `Exec` replaces the process by what the search
of `PATH` found, another wrapper included; nothing after `exec` in the script
is a step, because it never runs. `torn` are the signature files that were cut
short although `ogrt` returned 0 (`GenerateTruncated`): the wrapper cannot tell
them from whole ones, and `SignaturesSound` says that it excludes all others.
`PathDecides` says of every `PATH` what becomes of a link: a linker runs, the
script execs itself for ever, or the link fails.

The module `MC<name>` of each gives TLC its constants. Definitions marked
*Faulty variant* in the modules are not part of any specification: each is the
form that a neighbouring definition would have after a plausible mistake, and
violates one of the properties.

## Runs

| Run | Instance | What it shows |
|---|---|---|
| `server_safety` | 4 datagrams of 3 lengths and 2 types, one too long for the buffer; a file with 2 interchangeable workers (symmetry), TCP with 1; 326 K states | `TypeOK`, `DecodesOwnPayload`, `InOnePlace`, `RecordedOnce`, `TcpLossIsFinal` |
| `server_log` | 2 datagrams; two ElasticSearch outputs with 1 worker each, TCP with none; 443 K states | `TimesBounded`, `ImplementsProcessLog`, `EveryOutputServed` |
| `startup_outputs` | outputs with 2, 1 and 0 workers; 271 states | all of ServerStartup |
| `file_records` | 2 writers, 2 jobs, 5 messages, failing calls on the file of one job, kills, restarts; 295 K states | all of JsonFileOutput |
| `pipeline_images` | 2 binaries, 2 filters, 2 addresses, 3 descriptors, 2 images, 2 datagrams, 1 output; 106 K states | all of PreloadHook and Pipeline |
| `process_info` | a program, the vDSO, a library, 2 plugins; processes with and without a path, modules, variables, some, all or none of job, user and host, 6 command lines around a `PATH_MAX` of 6; 186 K states | all of ProcessInfo, with Wire |
| `cli_options` | every line of up to 3 words out of 13, and of up to 6 out of the 4 that make operands move; files without notes, with a foreign one, with 257; 97 K states | all of CommandLine |
| `scan_objects` | all objects of 1 segment of up to 3 notes or 2 segments of up to 2, four kinds of notes; 113 K states | all of NoteScan |
| `ld_links` | 2 links, every `PATH` of up to 3 directories; 34 K states | all of LdWrapper |

Two runs look for a counterexample to what a comment or document says, and
find it:

| Run | Said | Done |
|---|---|---|
| `server_payload_own` | `ogrt-server.go:168` "allocate a buffer as big as the payload" | line 169 slices the shared buffer: a handler decodes the next datagram's bytes |
| `hook_crashes` | `README.md:85` failure does not interrupt the program | NULL from `ogrt_get_binpath` goes to `regexec` |

More disagreements are plain from the models and have no run:
`json_elasticsearch.go:43` says "set time to milliseconds", but with two such
outputs the shared time is multiplied by each (hence the bound in
`TimesBounded`); `ogrt-server.go:118` says "shutting down", but `CloseWriters`
calls `Close` on a nil `Writer` and panics;
`readso.c:66` says that all sections are checked, but each PT_NOTE segment
resets the signature (hence *last segment* in `SignatureIsAStamp`);
`readso.c:20` says that values are padded, but line 38 does not pad (hence
`Reached` in `ReachedStampReported`); the deletion at the end of `wrappers/ld`
comes after `exec`.

*Bounds.* Every behaviour involves at most: two handlers and a third that
overwrites their buffer; two workers competing for a channel and one that does
not; an output without workers before, between or after two others; two
writers overlapping on a file, a third message before or after them
and one of another job; an address that fails and one that connects, or two that fail; an image that
sends and another that sends, is filtered or is not active, while the datagram
of the first is still on its way; two plugins loaded between the passes, which
is one more than there is room for, or unloaded; segments of operands and
options of different lengths that `exchange` swaps in both directions and in
several turns; a note
before and one after a stamp. The instances have room for these. `time` and
`Seq(Nat)` are bounded by the number of workers, `calls` by one send per image;
`MaxImages` bounds the images of a process, and the sets `Datagrams`, `Plugins`
(each loaded once) and `Inputs` bound the rest. Deadlock is checked in every run; the ways
to stop are explicit actions (`Terminated`, `Stopped`, `Gone`, `Done`, `Ended`, `Rest`).

*Fairness.* `OgrtServer`: weak fairness of each handler and each worker, since
the Go scheduler runs goroutines that can run, and a writer's I/O returns.
None for arrival of datagrams, receive errors, or signals.
`EveryOutputServed` says what an output with `Workers = 0` does: handlers block
on it for ever, and the outputs after it in their random order get nothing.
`ServerStartup`: weak fairness of `main` and of each
worker's lookup. `PreloadHook`: weak fairness of the hook, which the loader
runs to its end; its system calls return, and it need not crash. `Pipeline`
assumes the same of its hook step and nothing of the network or the server.
`CommandLine`: weak fairness of the one sequential program. `LdWrapper`: weak fairness of each
invocation, a process of its own.

## Proofs

The proofs hold for every value of the constants under the `ASSUME` of the
module, which state only what the configuration and the types of the code give:
among them that the configuration names finitely many outputs (`OgrtServer`)
and that uninitialised memory is no record of a shared object and a null pointer
neither a number, a string nor an object (`ProcessInfo`).

- `OgrtServerProofs`
  - `TypeCorrect`: `TypeInv` strengthens `TypeOK` by "a busy worker has a
    message" and "a handler decodes within the buffer", without which the
    index of `ReadCell` has no type.
  - `PayloadCorrect`: `PayloadInv` says that as long as a slice is not
    overwritten it holds the payload (`Intact`) and nothing else was seen in it.
  - `PlaceCorrect`, `RecordedOnceCorrect`: proved together from `PlaceInv`.
    Each needs the other: that no two workers hold a message of an output
    follows from it being in one place, and it is in one place after a write
    only because no second worker held it. `HandlerInv` relates the program
    counter of a handler to the channels it has yet to visit.
  - `TcpLossIsFinalCorrect`, an action property, from `LossBreaks`: an output
    that has lost something has a broken encoder, if one worker is all it has.
  - `TimesBoundedCorrect`: the bound counts the ElasticSearch outputs. `TimesInv`
    counts, for each message, the outputs that have stored its time
    (`Stamped`), and bounds by their number both the time and what a worker has
    loaded and not yet stored. A store adds its output to the set, and only
    because no output has the message twice (`PlaceInv`) is it new there.
  - `ServerImplementsProcessLog`: writes map to `Settle`, receiving to `Hear`
    (to a stutter when it panics), all else to stutters.
- `ServerStartupProofs`: `NothingMissingCorrect` and `ReadyToReceiveCorrect`
  from `StartInv`. `LoopInv` says of every output whether `main` has not come to
  it, is at it or is done with it, and which of its workers, writers and timers
  there are in each case; a worker is started only after its writer was
  assigned (`WriterAssigned`).
- `JsonFileOutputProofs`: `TypeCorrect`, `RecordsKeptCorrect` and
  `ValidUnlessDisturbedCorrect` from `FileInv`. It follows an undisturbed file
  through the rewriting: one writer at a time is between read and write; after
  reading, its memory is the file plus its process; after truncating, the
  memory alone has everything that must be kept (`Kept`: what was persisted,
  and what is written but not yet returned). One lemma per step of a writer on
  the job it rewrites, one for writers elsewhere, one for the death of the
  process. `FileWellFormedCorrect` holds of disturbed files too, so it has an
  invariant of its own about what a writer has in memory. `DamageIsPermanentCorrect`
  is an action property.
- `PipelineProofs`, of `PreloadHook` and of `Pipeline`
  - `SocketAccountedCorrect`, `DescriptorsLeftCorrect`: `SocketInv` adds
    where the hook has a socket and where it has had none yet.
  - `ReturnTellsConnectedCorrect`: `AttemptInv` relates program counter,
    `connected` and the calls made; `__ogrt_active` alone does not tell, it is
    false after an address failed.
  - `PipelineImplementsHook`: a step of the composition is one of the hook or
    leaves the hook alone. The invariants of the hook carry over.
  - `OnlyTracedRecordedCorrect`, `RecordedTwiceCorrect`: `PipelineInv` follows a
    datagram from the image to the record. `FilterInv` says that an image that
    is past its filters has passed each of them, `SentInv` that a datagram is of
    an image that was, `SentOnce` that two of one image need a duplication;
    nothing the network does changes whose datagram it is.
- `ProcessInfoProofs`
  - `TypeCorrect` and `UndefinedOnlyIfDisturbedCorrect` from `PassInv`: objects
    linked for good stay at the front of the loader's list, so there are two to
    leave out of the message; undisturbed, the second pass records as many
    objects as the first counted, and they are still loaded when the message is
    packed.
  - `HeapBalancedCorrect`: `HeapInv` says that all that is allocated is a path
    for which there was room, or is among what the message under construction
    lets `ogrt_send_processinfo` free.
  - `RecordIsTrueCorrect` and `ListsLoadedCorrect` rest on two arguments. That
    the message is the truth is an invariant: `GatherInv` says which fields are
    set at each step and that none is overwritten, `RecordInv` that
    `shared_objects` has the objects of the second pass and junk behind them,
    `PacketInv` that the packet is the message packed and, since what is listed
    could be read, that no object counted is missing from it.
  - That a message packed by the client's table arrives by the server's is
    `RoundTrip`, for any table of fields and any tags that fit it (`Matching`:
    numbers of their own, the same wire type and kind of label) and any message
    whose lists are sequences. The three tables are shown to fit;
    `MessageArrives` puts the messages within and the message together.
  - Both need facts about sequences of any length. `Recursion` shows that a
    function defined by a first value and a step exists, which gives the
    equations of `Only` and `FlattenSeq` (`OnlyAppend`, `FlattenAppend`);
    `SeqInduction` is induction over sequences with a set in place of a
    predicate. From these: a set that has the elements of one part of a
    flattened sequence and none of the others selects that part (`OnlyFlatten`),
    selecting commutes with mapping (`OnlyMapped`, for the whitelist), and
    `ogrt_get_cmdline` makes of the bytes of any arguments these with a space
    between them (`CmdlineJoined`).
- `CommandLineProofs`
  - `TypeCorrect`: getopt's indices stay in order and within `argv`; since
    `given` has no word 0, it needs that the program's name stays at `argv[0]`.
  - `ExchangeRotatesCorrect` for segments of any lengths: `RotateInv` says that
    rotating what is left of the segments would give the rotation of `before`;
    one lemma for each way to swap shows it kept.
  - `ArgvPartitionedCorrect` from `PartInv`: the words before `optind` are a
    permutation of those given before it, with the operands in one segment and
    both operands and options in their order (`Parted`); those from `optind` on
    are as given, and the next of them can still be an option (`Clean`). A
    rotation keeps a line parted (`PartedRotated`), so this rests on
    `RotateInv`. That each word has the role that the definition of the
    recursive function `Role` gives it (`RoleStep`) is proved by induction over
    sets of numbers (`SetInduction`).
  - `OutcomeAsGivenCorrect` from `HandledInv` and `OutcomeInv`: no word before
    `optind` ends the parsing, and `args_info` has of them what they give
    (`Handled`); when an option was found, this holds up to its word
    (`FoundAt`). A word that getopt rejects has no meaning (`MeantInvalid`), and
    the only one that decides is the first (`OneDecides`). While sections are
    read, `Notes` of those behind is printed.
- `NoteScanProofs`: `SignatureIsAStampCorrect` and `ReachedStampReportedCorrect`
  for objects of any number of segments and notes. `ScanInv` says that the scan
  is at a note that it can reach or past all of them, and that each
  reached stamp is still ahead of the scan or not behind the one it found. Where a note begins is a
  recursive function. What is needed of it (`BeginsStep`, `BeginsGrows`,
  `OneNote`) is proved by induction in the form `SetInduction`, a set that
  contains 1 and with each number the next, from the least number not in it
  (`LeastNumber`).
- `LdWrapperProofs`: `TypeCorrect` and `SignaturesSoundCorrect` from
  `SignatureInv`, for any number of links, any `PATH` and also an infinite set
  of temporary files. That no two links are given the same file needs that the
  file a link is about to fill is in nobody's arguments and nobody else is about
  to fill it (`OwnFile`), which follows from `mktemp` creating a new file and
  from every file among the arguments being there (`ArgsFinished`).

Only model-checked:

- liveness (`EveryOutputServed`, `ServerStarts`, `HookReturns`, `PathDecides`,
  `ParseEnds`), which is beyond the prover.

## Not modelled

- Datagrams whose header announces more than they hold, or shorter than a
  header: the client sends none. The code would read bytes of earlier ones.
- Note sizes that make an offset go backwards; PT_NOTE segments without a note,
  which leave the signature of the segment before in place (`readso.c:79-82`).
  What `SignatureIsAStamp` calls the last segment is the last that has notes.
  Outside of notes no word is taken for the type of a signature.
- An SHT_NOTE section without data, on which `ogrt --show-signature`
  dereferences NULL (`ogrt-cli.c:56-57`).
- A race on the map `outputs` that the Go runtime does not notice: the lookup in
  `ServerStartup` then finds what was assigned, which a map that grows meanwhile
  need not give.
- Two JsonFile outputs with one directory: each would append every message.
- A process with fewer than two loaded objects: one that has the library
  preloaded has itself and the library (`ASSUME` in `ProcessInfo`).
- Of the build options of the library, all combinations but the one that sends
  everything with a whitelist of environment variables; failing allocations.
- Invalid regular expressions in an instance: the filters are compiled in, and
  an invalid one silences every image. `FilterRejects` has the case, and the
  theorems about it hold for any `Bad`.
- Generated code that nothing calls (`cmdline_parser_dump`, `check_modes`,
  unpacking in C) and messages that nobody sends (JobStart, JobEnd, JobInfo,
  Fork, Execve); the bytes of the template object in `ogrt-signature.c`.
- Metrics but for their registration, InfluxDB reporter, debug endpoint, build:
  libraries and scripts without state of their own.

## Plan

Done, in this order: OgrtServer, ProcessLog and their proofs; JsonFileOutput
and its proofs; PreloadHook; NoteScan; LdWrapper and its proofs; ServerStartup;
CommandLine; Wire and ProcessInfo; Pipeline; the proofs of TimesBounded,
TcpLossIsFinal, FileWellFormed and DamageIsPermanent, of ServerStartup, of
PreloadHook and Pipeline, of NoteScan, of CommandLine, of
UndefinedOnlyIfDisturbed and HeapBalanced, of RecordIsTrue and ListsLoaded.

Every invariant and action property that a run checks is proved; what is left
to model is listed above.

----------------------------- MODULE OgrtServer -----------------------------
(***************************************************************************)
(* The data path of the ogrt-server daemon, from its UDP socket to its     *)
(* outputs (server/src/ogrt-server.go and server/src/output/).             *)
(*                                                                         *)
(* The main goroutine reads every datagram into the same packet_buffer and *)
(* starts a handler goroutine on a slice of that buffer.  A handler        *)
(* decodes the slice and sends a pointer to the decoded message on the     *)
(* unbuffered channel of every output.  A worker goroutine of the output   *)
(* receives the pointer and persists the message.  A signal goroutine ends *)
(* the process.                                                            *)
(*                                                                         *)
(* Datagrams are the datagrams that may arrive, each at most once: a lost  *)
(* one is never received, the network may deliver them in any order, and a *)
(* duplicate is another datagram with the same message.  A handler is      *)
(* named by the datagram it was started for.                               *)
(*                                                                         *)
(* Bytes are abstracted to cells: a payload of MsgLen cells overwrites the *)
(* first cells of the buffer, each of which then holds (a part of) that    *)
(* message.  A time stamp is abstracted to the number of times it was      *)
(* multiplied by 1000: 0 is what the client sent, 1 is milliseconds.       *)
(***************************************************************************)
EXTENDS Naturals, Sequences, FiniteSets

CONSTANTS
  Datagrams,   \* the datagrams that may arrive at the socket
  Messages,    \* the payloads clients sent
  MsgOf,       \* the payload of each datagram
  MsgType,     \* the type in the header of each message
  MsgLen,      \* the length of each payload, in cells
  BufCells,    \* MaxReceiveBuffer, in cells after the 8 bytes of the header
  Outputs,     \* the names under [Outputs] in ogrt.conf
  OutputType,  \* the Type of each output
  Workers,     \* the goroutines running writeToOutput
  OutputOf,    \* the output each worker was started for
  Garbled,     \* a message decoded from pieces of several payloads
  None

MessageTypes == {"JobStartMsg", "JobEndMsg", "ProcessInfoMsg",
                 "SharedObjectMsg", "ForkMsg", "ExecveMsg"}
OutputTypes  == {"JsonOverTcp", "JsonElasticSearch", "JsonFile"}

ASSUME ServerAssumption ==
  /\ MsgOf \in [Datagrams -> Messages]
  /\ MsgType \in [Messages -> MessageTypes]
  /\ MsgLen \in [Messages -> Nat \ {0}]
  /\ BufCells \in Nat
  /\ IsFiniteSet(Outputs)
  /\ OutputType \in [Outputs -> OutputTypes]
  /\ OutputOf \in [Workers -> Outputs]
  /\ Garbled \notin Messages
  /\ None \notin Messages \cup {Garbled} \cup Outputs \cup Datagrams

VARIABLES
  status,         \* "running", "exited" (status 0) or "panicked"
  listening,      \* the UDP listener is open
  packet_buffer,  \* the cells after the header
  hpc,            \* where each handler goroutine is
  pos, seen,      \* cells a handler has decoded, and what it saw in them
  msg,            \* the message a handler decoded
  todo,           \* outputs the fan-out loop of a handler has yet to visit
  chan,           \* the output whose channel a handler is blocked on
  clobbered,      \* history: the slice was overwritten while being decoded
  time,           \* the Time field of the message decoded by each handler
  wpc, wmsg,      \* where each worker is, and the message it persists
  wtime,          \* the time an ElasticSearch worker has loaded
  log,            \* the times of the records of a message that an output wrote
                  \* without an error
  lost,           \* messages an output reported it could not write
  broken          \* workers whose json.Encoder has seen a write fail

socketVars  == <<listening, packet_buffer>>
decodeVars  == <<pos, seen, msg, clobbered>>
fanoutVars  == <<todo, chan>>
workerVars  == <<wpc, wmsg, wtime>>
storeVars   == <<log, lost, broken>>
vars == <<status, socketVars, hpc, decodeVars, fanoutVars, time,
          workerVars, storeVars>>

PayloadLen(d)  == MsgLen[MsgOf[d]]   \* msg_length in the header of d
HeaderType(d) == MsgType[MsgOf[d]]  \* msg_type in the header of d

Running == status = "running"

Init ==
  /\ status = "running"
  /\ listening = TRUE
  /\ packet_buffer = [i \in 1..BufCells |-> None]
  /\ hpc = [d \in Datagrams |-> "none"]
  /\ pos = [d \in Datagrams |-> 0]
  /\ seen = [d \in Datagrams |-> {}]
  /\ msg = [d \in Datagrams |-> None]
  /\ todo = [d \in Datagrams |-> {}]
  /\ chan = [d \in Datagrams |-> None]
  /\ clobbered = [d \in Datagrams |-> FALSE]
  /\ time = [d \in Datagrams |-> 0]
  /\ wpc = [w \in Workers |-> "idle"]
  /\ wmsg = [w \in Workers |-> None]
  /\ wtime = [w \in Workers |-> 0]
  /\ log = [o \in Outputs |-> [d \in Datagrams |-> <<>>]]
  /\ lost = [o \in Outputs |-> {}]
  /\ broken = {}

-----------------------------------------------------------------------------
(* The main goroutine.                                                     *)

\* Faulty variant: the last cell of the payload is not copied.
OverwriteShort(buffer, d) ==
  [i \in 1..BufCells |-> IF i < PayloadLen(d) THEN MsgOf[d] ELSE buffer[i]]

\* Faulty variant: the buffer is replaced by one of the size of the payload.
OverwriteResized(buffer, d) == [i \in 1..PayloadLen(d) |-> MsgOf[d]]

\* ReadFromUDP copies what fits into the buffer the previous packets used.
Overwrite(buffer, d) ==
  [i \in 1..BufCells |-> IF i <= PayloadLen(d) THEN MsgOf[d] ELSE buffer[i]]

\* The slice packet_buffer[8 : msg_length+8] is within the buffer.
SliceFits(d) == PayloadLen(d) <= BufCells

\* Read one datagram, decode its header and start its handler; slicing past
\* the end of the buffer panics.
Receive(d) ==
  /\ Running
  /\ listening
  /\ hpc[d] = "none"
  /\ packet_buffer' = Overwrite(packet_buffer, d)
  /\ clobbered' = [e \in Datagrams |-> clobbered[e] \/ hpc[e] = "decode"]
  /\ \/ /\ SliceFits(d)
        /\ hpc' = [hpc EXCEPT ![d] = "decode"]
        /\ UNCHANGED status
     \/ /\ ~SliceFits(d)
        /\ status' = "panicked"
        /\ UNCHANGED hpc
  /\ UNCHANGED <<listening, pos, seen, msg, fanoutVars, time, workerVars,
                 storeVars>>

\* ReadFromUDP fails, because the listener was closed or for any other reason:
\* main returns, and the process with it.
MainReturns ==
  /\ Running
  /\ status' = "exited"
  /\ UNCHANGED <<socketVars, hpc, decodeVars, fanoutVars, time, workerVars,
                 storeVars>>

-----------------------------------------------------------------------------
(* A handler goroutine.                                                    *)

\* A datagram that is no ProcessInfo: the switch has no case for it.
IgnoreType(d) ==
  /\ Running
  /\ hpc[d] = "decode"
  /\ HeaderType(d) # "ProcessInfoMsg"
  /\ hpc' = [hpc EXCEPT ![d] = "ignored"]
  /\ UNCHANGED <<status, socketVars, decodeVars, fanoutVars, time, workerVars,
                 storeVars>>

\* proto.Unmarshal reads the next cell of the slice, which is the buffer's.
ReadCell(d) ==
  /\ Running
  /\ hpc[d] = "decode"
  /\ HeaderType(d) = "ProcessInfoMsg"
  /\ pos[d] < PayloadLen(d)
  /\ pos' = [pos EXCEPT ![d] = @ + 1]
  /\ seen' = [seen EXCEPT ![d] = @ \cup {packet_buffer[pos[d] + 1]}]
  /\ UNCHANGED <<status, socketVars, hpc, msg, clobbered, fanoutVars, time,
                 workerVars, storeVars>>

\* What Unmarshal may make of the cells it read, None being an error.  A whole
\* payload of another type lacks the required fields; anything cut or mixed
\* may or may not parse.
Parse(d) ==
  IF \E m \in Messages : seen[d] = {m} /\ MsgLen[m] = PayloadLen(d)
  THEN { IF MsgType[m] = "ProcessInfoMsg" THEN m ELSE None : m \in seen[d] }
  ELSE {Garbled, None}

\* Unmarshal returns: the handler enters the fan-out loop, or logs the error
\* and returns.
Decode(d) ==
  /\ Running
  /\ hpc[d] = "decode"
  /\ HeaderType(d) = "ProcessInfoMsg"
  /\ pos[d] = PayloadLen(d)
  /\ \E m \in Parse(d) :
       /\ msg' = [msg EXCEPT ![d] = m]
       /\ hpc' = [hpc EXCEPT ![d] = IF m = None THEN "failed" ELSE "fanout"]
       /\ todo' = [todo EXCEPT ![d] = IF m = None THEN {} ELSE Outputs]
  /\ UNCHANGED <<status, socketVars, pos, seen, clobbered, chan, time,
                 workerVars, storeVars>>

\* Faulty variant: the channel stays among those to visit.
NextChannelAgain(d) ==
  /\ Running
  /\ hpc[d] = "fanout"
  /\ \E o \in todo[d] : chan' = [chan EXCEPT ![d] = o]
  /\ hpc' = [hpc EXCEPT ![d] = "blocked"]
  /\ UNCHANGED <<status, socketVars, decodeVars, todo, time, workerVars,
                 storeVars>>

\* The loop takes the next channel, in the random order of a Go map, and
\* blocks on it.
NextChannel(d) ==
  /\ Running
  /\ hpc[d] = "fanout"
  /\ \E o \in todo[d] :
       /\ chan' = [chan EXCEPT ![d] = o]
       /\ todo' = [todo EXCEPT ![d] = @ \ {o}]
  /\ hpc' = [hpc EXCEPT ![d] = "blocked"]
  /\ UNCHANGED <<status, socketVars, decodeVars, time, workerVars, storeVars>>

\* Faulty variant: the handler returns after any channel.
HandlerReturnsEarly(d) ==
  /\ Running
  /\ hpc[d] = "fanout"
  /\ hpc' = [hpc EXCEPT ![d] = "done"]
  /\ UNCHANGED <<status, socketVars, decodeVars, fanoutVars, time, workerVars,
                 storeVars>>

\* All channels visited: the handler returns.
HandlerReturns(d) ==
  /\ Running
  /\ hpc[d] = "fanout"
  /\ todo[d] = {}
  /\ hpc' = [hpc EXCEPT ![d] = "done"]
  /\ UNCHANGED <<status, socketVars, decodeVars, fanoutVars, time, workerVars,
                 storeVars>>

-----------------------------------------------------------------------------
(* A worker goroutine.                                                     *)

\* Faulty variant: the time is not rewritten.
PersistStartNever(o) == "write"

\* The first step of persisting: ElasticSearch rewrites the time.
PersistStart(o) == IF OutputType[o] = "JsonElasticSearch" THEN "load" ELSE "write"

\* The channel is unbuffered: send and receive are one step of handler d and
\* of a worker of that output that is waiting for a message.
Deliver(d, w) ==
  /\ Running
  /\ hpc[d] = "blocked"
  /\ chan[d] = OutputOf[w]
  /\ wpc[w] = "idle"
  /\ hpc' = [hpc EXCEPT ![d] = "fanout"]
  /\ chan' = [chan EXCEPT ![d] = None]
  /\ wpc' = [wpc EXCEPT ![w] = PersistStart(OutputOf[w])]
  /\ wmsg' = [wmsg EXCEPT ![w] = d]
  /\ UNCHANGED <<status, socketVars, decodeVars, todo, time, wtime, storeVars>>

\* *process_info.Time = *process_info.Time * 1000 on a message that the other
\* outputs share: a load, then a store.
LoadTime(w) ==
  /\ Running
  /\ wpc[w] = "load"
  /\ wpc' = [wpc EXCEPT ![w] = "store"]
  /\ wtime' = [wtime EXCEPT ![w] = time[wmsg[w]]]
  /\ UNCHANGED <<status, socketVars, hpc, decodeVars, fanoutVars, time, wmsg,
                 storeVars>>

StoreTime(w) ==
  /\ Running
  /\ wpc[w] = "store"
  /\ wpc' = [wpc EXCEPT ![w] = "write"]
  /\ time' = [time EXCEPT ![wmsg[w]] = wtime[w] + 1]
  /\ UNCHANGED <<status, socketVars, hpc, decodeVars, fanoutVars, wmsg, wtime,
                 storeVars>>

\* The message, with the time it has now, is written as JSON.  The encoder of a
\* JsonOverTcp worker returns an error that it had once for ever.
WriteRecord(w) ==
  /\ Running
  /\ wpc[w] = "write"
  /\ w \notin broken
  /\ log' = [log EXCEPT ![OutputOf[w]][wmsg[w]] = Append(@, time[wmsg[w]])]
  /\ wpc' = [wpc EXCEPT ![w] = "idle"]
  /\ wmsg' = [wmsg EXCEPT ![w] = None]
  /\ UNCHANGED <<status, socketVars, hpc, decodeVars, fanoutVars, time, wtime,
                 lost, broken>>

\* Faulty variant: a failed write is not reported.
WriteFailsSilently(w) ==
  /\ Running
  /\ wpc[w] = "write"
  /\ wpc' = [wpc EXCEPT ![w] = "idle"]
  /\ wmsg' = [wmsg EXCEPT ![w] = None]
  /\ UNCHANGED <<status, socketVars, hpc, decodeVars, fanoutVars, time, wtime,
                 storeVars>>

\* Faulty variant: the connection is dialled again.
BreaksNone(w) == {}

\* The workers whose writes all fail after a failed write of w.
Breaks(w) == IF OutputType[OutputOf[w]] = "JsonOverTcp" THEN {w} ELSE {}

\* JsonOverTcp and JsonElasticSearch log a failed write and go on.
WriteFails(w) ==
  /\ Running
  /\ wpc[w] = "write"
  /\ OutputType[OutputOf[w]] # "JsonFile"
  /\ lost' = [lost EXCEPT ![OutputOf[w]] = @ \cup {wmsg[w]}]
  /\ broken' = broken \cup Breaks(w)
  /\ wpc' = [wpc EXCEPT ![w] = "idle"]
  /\ wmsg' = [wmsg EXCEPT ![w] = None]
  /\ UNCHANGED <<status, socketVars, hpc, decodeVars, fanoutVars, time, wtime,
                 log>>

\* JsonFile panics on any failure (module JsonFileOutput has the details).
WritePanics(w) ==
  /\ Running
  /\ wpc[w] = "write"
  /\ OutputType[OutputOf[w]] = "JsonFile"
  /\ status' = "panicked"
  /\ UNCHANGED <<socketVars, hpc, decodeVars, fanoutVars, time, workerVars,
                 storeVars>>

-----------------------------------------------------------------------------
(* The signal goroutine.                                                   *)

\* An interrupt or SIGTERM is caught: the listener is closed first.
CatchSignal ==
  /\ Running
  /\ listening
  /\ listening' = FALSE
  /\ UNCHANGED <<status, packet_buffer, hpc, decodeVars, fanoutVars, time,
                 workerVars, storeVars>>

\* Then the Writer of every entry of config.Outputs is closed.  No entry has
\* one (main sets Writer on its own copy), so the first call panics; without
\* outputs the process exits with status 0.
CloseWriters ==
  /\ Running
  /\ ~listening
  /\ status' = IF Outputs = {} THEN "exited" ELSE "panicked"
  /\ UNCHANGED <<socketVars, hpc, decodeVars, fanoutVars, time, workerVars,
                 storeVars>>

-----------------------------------------------------------------------------
Handler(d) ==
  \/ IgnoreType(d)
  \/ ReadCell(d)
  \/ Decode(d)
  \/ NextChannel(d)
  \/ HandlerReturns(d)
  \/ \E w \in Workers : Deliver(d, w)

Worker(w) ==
  \/ LoadTime(w)
  \/ StoreTime(w)
  \/ WriteRecord(w)
  \/ WriteFails(w)
  \/ WritePanics(w)

\* The process is gone.
Terminated == ~Running /\ UNCHANGED vars

Next ==
  \/ \E d \in Datagrams : Receive(d) \/ Handler(d)
  \/ \E w \in Workers : Worker(w)
  \/ MainReturns
  \/ CatchSignal
  \/ CloseWriters
  \/ Terminated

Spec == Init /\ [][Next]_vars

\* The Go scheduler runs every goroutine that can run, and the I/O of an
\* output returns.  Nothing makes a datagram or a signal arrive.
Fairness ==
  /\ \A d \in Datagrams : WF_vars(Handler(d))
  /\ \A w \in Workers : WF_vars(Worker(w))

FairSpec == Spec /\ Fairness

-----------------------------------------------------------------------------
(* Properties.                                                             *)

HandlerStates == {"none", "decode", "ignored", "failed", "fanout", "blocked",
                  "done"}

\* The type invariant: what every variable of the data path may hold.
TypeOK ==
  /\ status \in {"running", "exited", "panicked"}
  /\ listening \in BOOLEAN
  /\ packet_buffer \in [1..BufCells -> Messages \cup {None}]
  /\ hpc \in [Datagrams -> HandlerStates]
  /\ pos \in [Datagrams -> Nat]
  /\ seen \in [Datagrams -> SUBSET (Messages \cup {None})]
  /\ msg \in [Datagrams -> Messages \cup {Garbled, None}]
  /\ todo \in [Datagrams -> SUBSET Outputs]
  /\ chan \in [Datagrams -> Outputs \cup {None}]
  /\ clobbered \in [Datagrams -> BOOLEAN]
  /\ time \in [Datagrams -> Nat]
  /\ wpc \in [Workers -> {"idle", "load", "store", "write"}]
  /\ wmsg \in [Workers -> Datagrams \cup {None}]
  /\ wtime \in [Workers -> Nat]
  /\ log \in [Outputs -> [Datagrams -> Seq(Nat)]]
  /\ lost \in [Outputs -> SUBSET Datagrams]
  /\ broken \subseteq Workers

\* A handler whose slice of packet_buffer was not overwritten by a later
\* ReadFromUDP while it was decoding never fails to decode it, and decodes
\* the message of its own datagram and no other: overwriting the shared
\* buffer is the only thing that can replace one process's data by another's.
DecodesOwnPayload ==
  \A d \in Datagrams : ~clobbered[d] =>
    /\ hpc[d] # "failed"
    /\ msg[d] \in {None, MsgOf[d]}

\* Where the message of d is on its way to output o.
Waiting(o, d)  == o \in todo[d] \/ chan[d] = o
Held(o, d)     == \E w \in Workers : OutputOf[w] = o /\ wmsg[w] = d
Recorded(o, d) == log[o][d] # <<>>
Lost(o, d)     == d \in lost[o]

\* Nothing vanishes between the decoder and the outputs: a decoded message is,
\* for each output, in exactly one place - not yet sent on its channel, with
\* a worker, recorded, or reported as not written - and a message that was
\* not decoded is nowhere.
InOnePlace ==
  \A d \in Datagrams, o \in Outputs :
    /\ Waiting(o, d) => ~Held(o, d) /\ ~Recorded(o, d) /\ ~Lost(o, d)
    /\ Held(o, d) => ~Recorded(o, d) /\ ~Lost(o, d)
    /\ Recorded(o, d) => ~Lost(o, d)
    /\ msg[d] # None <=>
         Waiting(o, d) \/ Held(o, d) \/ Recorded(o, d) \/ Lost(o, d)

\* No output records a message twice, and no two of its workers persist the
\* same message, however many workers compete for its channel.
RecordedOnce ==
  /\ \A d \in Datagrams, o \in Outputs : Len(log[o][d]) <= 1
  /\ \A v, w \in Workers :
       wmsg[v] # None /\ wmsg[v] = wmsg[w] /\ OutputOf[v] = OutputOf[w] => v = w

\* The only worker of a JsonOverTcp output.
OnlyTcpWorker(w) ==
  /\ OutputType[OutputOf[w]] = "JsonOverTcp"
  /\ \A v \in Workers : OutputOf[v] = OutputOf[w] => v = w

RecordsNoMore ==
  \A w \in Workers :
    OnlyTcpWorker(w) /\ lost[OutputOf[w]] # {} => log'[OutputOf[w]] = log[OutputOf[w]]

\* A JsonOverTcp output with one worker that has lost one message, for whatever
\* reason, records none after it: the connection is not dialled again.
TcpLossIsFinal == [][RecordsNoMore]_vars

EsOutputs == {o \in Outputs : OutputType[o] = "JsonElasticSearch"}

\* The time in a record was multiplied by 1000 at most once per ElasticSearch
\* output the message is shared with, and at least once in a record of
\* ElasticSearch itself; without such an output it is the client's.
TimesBounded ==
  \A d \in Datagrams, o \in Outputs : \A i \in DOMAIN log[o][d] :
    /\ log[o][d][i] <= Cardinality(EsOutputs)
    /\ o \in EsOutputs => log[o][d][i] >= 1

\* The outputs with Workers = 0, whose channel nobody receives from.
Unattended == {o \in Outputs : \A w \in Workers : OutputOf[w] # o}

\* Every decoded message ends up recorded or reported as lost in every output,
\* unless the process ends first.  Only an output without workers stops the
\* fan-out, for good, and then the outputs that came before it are served all
\* the same: no number of workers, no failed write and no order of the channels
\* makes a handler wait for ever otherwise.
EveryOutputServed ==
  \A d \in Datagrams : msg[d] # None ~>
    \/ ~Running
    \/ \A o \in Outputs :
         \/ Recorded(o, d) \/ Lost(o, d)
         \/ Waiting(o, d) /\ chan[d] \in Unattended

\* What an outside observer sees of the data path.
heard == {d \in Datagrams : hpc[d] # "none"}
FateOf(o, d) == IF Recorded(o, d) THEN "recorded"
                ELSE IF Lost(o, d) THEN "lost" ELSE "none"
fate == [o \in Outputs |-> [d \in Datagrams |-> FateOf(o, d)]]

PL == INSTANCE ProcessLog WITH
        Datagrams <- Datagrams, Outputs <- Outputs, heard <- heard, fate <- fate

\* Whatever the interleaving of main, handlers and workers, the outputs of the
\* server behave as module ProcessLog promises.
ImplementsProcessLog == PL!Spec

(* What the source says and the code does not do.                          *)

\* ogrt-server.go:168 "allocate a buffer as big as the payload": a handler
\* decodes the payload it was started for.
PayloadIsOwn ==
  \A d \in Datagrams : hpc[d] # "failed" /\ msg[d] \in {None, MsgOf[d]}
=============================================================================

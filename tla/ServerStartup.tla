--------------------------- MODULE ServerStartup ----------------------------
(***************************************************************************)
(* How ogrt-server starts (main in server/src/ogrt-server.go): it          *)
(* instantiates the outputs of the configuration one after the other, with *)
(* a writer and a worker goroutine each, while the workers it has already  *)
(* started look up their writer in the map outputs, without a lock, that   *)
(* main goes on to assign to.  Then it receives messages.                  *)
(***************************************************************************)
EXTENDS Naturals, FiniteSets

CONSTANTS
  Outputs,      \* the names under [Outputs] in ogrt.conf
  WorkerCount,  \* the Workers of each output
  None

ASSUME StartupAssumption ==
  /\ WorkerCount \in [Outputs -> Nat]
  /\ None \notin Outputs

\* The workers to be: the number id of an output.
WorkerIds == UNION {{o} \X (0..WorkerCount[o] - 1) : o \in Outputs}

VARIABLES
  main,             \* "loop", "assign" (within a map assignment), "start",
                    \* "receive", or how the process ended: "fatal", "race",
                    \* "nil"
  config_Outputs,   \* the outputs that the loop has yet to visit
  name,             \* the output it is at
  i,                \* the worker of that output it is at
  output_channels,  \* the outputs with a channel
  outputs,          \* how many writers each output has in the map
  metrics,          \* the outputs whose timer is registered
  wpc               \* each worker: "none", "lookup" or "serve"

vars == <<main, config_Outputs, name, i, output_channels, outputs, metrics, wpc>>

Up == main \in {"loop", "assign", "start", "receive"}

Init ==
  /\ main = "loop"
  /\ config_Outputs = Outputs
  /\ name = None
  /\ i = 0
  /\ output_channels = {}
  /\ outputs = [o \in Outputs |-> 0]
  /\ metrics = {}
  /\ wpc = [w \in WorkerIds |-> "none"]

\* The next entry of the configuration, in the random order of a Go map.
MakeChannel(o) ==
  /\ main = "loop"
  /\ name = None
  /\ o \in config_Outputs
  /\ config_Outputs' = config_Outputs \ {o}
  /\ name' = o
  /\ i' = 0
  /\ output_channels' = output_channels \cup {o}
  /\ UNCHANGED <<main, outputs, metrics, wpc>>

\* Faulty variant: one iteration too many.
MoreWorkersInclusive == name # None /\ i <= WorkerCount[name]

\* The condition of the loop over the workers of an output.
MoreWorkers == name # None /\ i < WorkerCount[name]

\* The type is unknown, or Open fails: log.Fatal or panic.
OpenFails ==
  /\ main = "loop"
  /\ MoreWorkers
  /\ main' = "fatal"
  /\ UNCHANGED <<config_Outputs, name, i, output_channels, outputs, metrics, wpc>>

\* Open succeeds, and the assignment of outputs[name] begins.
Open ==
  /\ main = "loop"
  /\ MoreWorkers
  /\ main' = "assign"
  /\ UNCHANGED <<config_Outputs, name, i, output_channels, outputs, metrics, wpc>>

\* Faulty variant: the writer is put in a copy of the entry.
AssignedToCopy ==
  /\ main = "assign"
  /\ main' = "start"
  /\ UNCHANGED <<config_Outputs, name, i, output_channels, outputs, metrics, wpc>>

\* outputs[name] = append(outputs[name], output_) is done.
Assigned ==
  /\ main = "assign"
  /\ outputs' = [outputs EXCEPT ![name] = @ + 1]
  /\ main' = "start"
  /\ UNCHANGED <<config_Outputs, name, i, output_channels, metrics, wpc>>

\* go writeToOutput(name, i, output_channels[name])
StartWorker ==
  /\ main = "start"
  /\ wpc' = [wpc EXCEPT ![<<name, i>>] = "lookup"]
  /\ i' = i + 1
  /\ main' = "loop"
  /\ UNCHANGED <<config_Outputs, name, output_channels, outputs, metrics>>

\* Faulty variant: the output is done with before its last worker.
RegisterEarly ==
  /\ main = "loop"
  /\ name # None
  /\ i + 1 >= WorkerCount[name]
  /\ metrics' = metrics \cup {name}
  /\ name' = None
  /\ UNCHANGED <<main, config_Outputs, i, output_channels, outputs, wpc>>

\* All workers of the output are started: its timer is registered.
Register ==
  /\ main = "loop"
  /\ name # None
  /\ ~MoreWorkers
  /\ metrics' = metrics \cup {name}
  /\ name' = None
  /\ UNCHANGED <<main, config_Outputs, i, output_channels, outputs, wpc>>

\* Faulty variant: the loop is left with an output to go.
BeginReceiveEarly ==
  /\ main = "loop"
  /\ config_Outputs = {}
  /\ main' = "receive"
  /\ UNCHANGED <<config_Outputs, name, i, output_channels, outputs, metrics, wpc>>

\* After the last output main sets up the signal handler and receives.
BeginReceive ==
  /\ main = "loop"
  /\ name = None
  /\ config_Outputs = {}
  /\ main' = "receive"
  /\ UNCHANGED <<config_Outputs, name, i, output_channels, outputs, metrics, wpc>>

\* out := outputs[output][id], which main has assigned before it started the
\* worker.
Lookup(w) ==
  /\ Up
  /\ wpc[w] = "lookup"
  /\ IF w[2] < outputs[w[1]]
     THEN wpc' = [wpc EXCEPT ![w] = "serve"] /\ UNCHANGED main
     ELSE main' = "nil" /\ UNCHANGED wpc
  /\ UNCHANGED <<config_Outputs, name, i, output_channels, outputs, metrics>>

\* The Go runtime notices the assignment and throws "concurrent map read and
\* map write"; it need not notice.
LookupRaces(w) ==
  /\ main = "assign"
  /\ wpc[w] = "lookup"
  /\ main' = "race"
  /\ UNCHANGED <<config_Outputs, name, i, output_channels, outputs, metrics, wpc>>

\* A message on the channel: metrics.Get("output_" + output).(metrics.Timer)
\* panics if there is none.
ServeMessage(w) ==
  /\ main = "receive"
  /\ wpc[w] = "serve"
  /\ main' = IF w[1] \in metrics THEN main ELSE "nil"
  /\ UNCHANGED <<config_Outputs, name, i, output_channels, outputs, metrics, wpc>>

Main ==
  \/ \E o \in Outputs : MakeChannel(o)
  \/ Open
  \/ Assigned
  \/ StartWorker
  \/ Register
  \/ BeginReceive

Stopped == ~Up /\ UNCHANGED vars

Next ==
  \/ Main
  \/ OpenFails
  \/ \E w \in WorkerIds : Lookup(w) \/ LookupRaces(w) \/ ServeMessage(w)
  \/ Stopped
  \/ main = "receive" /\ UNCHANGED vars

Spec == Init /\ [][Next]_vars

\* Main runs, and so does each worker; an Open that can succeed does.
FairSpec ==
  Spec /\ WF_vars(Main) /\ \A w \in WorkerIds : WF_vars(Lookup(w))

-----------------------------------------------------------------------------
(* Properties.                                                             *)

\* The type invariant.
TypeOK ==
  /\ main \in {"loop", "assign", "start", "receive", "fatal", "race", "nil"}
  /\ config_Outputs \subseteq Outputs
  /\ name \in Outputs \cup {None}
  /\ i \in Nat
  /\ main \in {"assign", "start"} => name # None /\ i < WorkerCount[name]
  /\ output_channels \subseteq Outputs
  /\ outputs \in [Outputs -> Nat]
  /\ metrics \subseteq Outputs
  /\ wpc \in [WorkerIds -> {"none", "lookup", "serve"}]

\* No worker looks for a writer that is not in the map yet, and none gets a
\* message before the timer of its output is registered: both would panic.
NothingMissing == main # "nil"

\* When main receives, every output has its channel, its timer and all of its
\* workers, each with a writer of its own.
ReadyToReceive ==
  main = "receive" =>
    /\ output_channels = Outputs /\ metrics = Outputs
    /\ outputs = WorkerCount
    /\ \A w \in WorkerIds : wpc[w] # "none"

\* Unless it fails on the way, the server gets to receive and all its workers
\* to serve.
ServerStarts ==
  <>(~Up \/ (main = "receive" /\ \A w \in WorkerIds : wpc[w] = "serve"))
=============================================================================

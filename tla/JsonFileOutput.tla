--------------------------- MODULE JsonFileOutput ---------------------------
(***************************************************************************)
(* The JsonFile output of ogrt-server (server/src/output/json_file.go): a  *)
(* file per job, which every PersistProcessInfo reads, extends by one      *)
(* process, truncates and writes again.                                    *)
(*                                                                         *)
(* A writer is one JsonFileOutput object.  Each worker of an output of     *)
(* this type has its own (ogrt-server.go:96-105), with its own mutex.      *)
(* The writers are the workers of one output: they share its directory,    *)
(* and each message goes to one of them.  The process may be killed at any *)
(* point and started again on the files it left.                           *)
(***************************************************************************)
EXTENDS Naturals, Sequences

CONSTANTS
  Writers,     \* the JsonFileOutput objects of the server
  Jobs,        \* job ids, each naming a file
  Infos,       \* process infos the server receives, each handed to one writer
  JobOf,       \* the job id in each process info
  Unreliable,  \* jobs on whose files system calls may fail
  None

ASSUME FileAssumption ==
  /\ JobOf \in [Infos -> Jobs]
  /\ Unreliable \subseteq Jobs
  /\ None \notin Infos

VARIABLES
  server,     \* "up", or why the process is down: "killed", "io", "unmarshal"
  fstate,     \* each job file: "absent", "empty", "json" or "corrupt"
  processes,  \* the processes in each job file that is valid JSON
  pc,         \* where each writer is in PersistProcessInfo
  info,       \* its process_info
  job_info,   \* the processes it has in memory
  mu,         \* fw.mu is locked
  handed,     \* process infos given to some writer
  settled,    \* history: process infos whose PersistProcessInfo returned
  disturbed   \* history: something the code does not defend against happened
              \* to the file of this job

fileVars   == <<fstate, processes>>
writerVars == <<pc, info, job_info, mu>>
vars == <<server, fileVars, writerVars, handed, settled, disturbed>>

\* Faulty variant: the same file for every job.
SameFile(w) == CHOOSE j \in Jobs : TRUE

\* path.Join(fw.path, process_info.GetJobId()): a file per job.
JobOfWriter(w) == JobOf[info[w]]

\* A writer that has read the file of job j and has not written it back.
Busy(w, j) == pc[w] \in {"create", "write"} /\ JobOfWriter(w) = j

\* A writer that has truncated the file of job j and has not written it.
Writing(w, j) == pc[w] = "write" /\ JobOfWriter(w) = j

Listed(s) == {s[i] : i \in DOMAIN s}

Init ==
  /\ server = "up"
  /\ fstate = [j \in Jobs |-> "absent"]
  /\ processes = [j \in Jobs |-> <<>>]
  /\ pc = [w \in Writers |-> "idle"]
  /\ info = [w \in Writers |-> None]
  /\ job_info = [w \in Writers |-> <<>>]
  /\ mu = [w \in Writers |-> FALSE]
  /\ handed = {}
  /\ settled = {}
  /\ disturbed = [j \in Jobs |-> FALSE]

-----------------------------------------------------------------------------
\* The process ends, for whatever reason: the writers are gone, and a file
\* that was being written is left as it was, or cut in the middle.
Die(why) ==
  LET open == {j \in Jobs : \E w \in Writers : Writing(w, j)} IN
  /\ server' = why
  /\ \E cut \in SUBSET open :
       /\ fstate' = [j \in Jobs |-> IF j \in cut THEN "corrupt" ELSE fstate[j]]
       /\ processes' = [j \in Jobs |-> IF j \in cut THEN <<>> ELSE processes[j]]
  /\ disturbed' = [j \in Jobs |-> disturbed[j] \/ j \in open]
  /\ pc' = [w \in Writers |-> "idle"]
  /\ info' = [w \in Writers |-> None]
  /\ job_info' = [w \in Writers |-> <<>>]
  /\ mu' = [w \in Writers |-> FALSE]
  /\ UNCHANGED <<handed, settled>>

\* A worker hands a process info to its writer.
Persist(w, i) ==
  /\ server = "up"
  /\ pc[w] = "idle"
  /\ i \notin handed
  /\ handed' = handed \cup {i}
  /\ info' = [info EXCEPT ![w] = i]
  /\ pc' = [pc EXCEPT ![w] = "lock"]
  /\ UNCHANGED <<server, fileVars, job_info, mu, settled, disturbed>>

Lock(w) ==
  /\ pc[w] = "lock"
  /\ ~mu[w]
  /\ mu' = [mu EXCEPT ![w] = TRUE]
  /\ pc' = [pc EXCEPT ![w] = "read"]
  /\ UNCHANGED <<server, fileVars, info, job_info, handed, settled, disturbed>>

\* Faulty variant: what the file said is forgotten.
ExtendedAfresh(w, before) == <<info[w]>>

\* Faulty variant: the job id is appended, not the process.
ExtendedByJob(w, before) == Append(before, JobOf[info[w]])

\* job_info.Processes = append(job_info.Processes, process_info)
Extended(w, before) == Append(before, info[w])

\* Another writer is between reading and writing the same file.
Overlap(w) == \E v \in Writers \ {w} : Busy(v, JobOfWriter(w))

\* Faulty variant: a file that is no JSON is taken for a job without a file.
ReadAnyJob(w) ==
  /\ pc[w] = "read"
  /\ LET j == JobOfWriter(w) IN
       /\ job_info' = [job_info EXCEPT ![w] = Extended(w, processes[j])]
       /\ disturbed' = [disturbed EXCEPT ![j] = @ \/ Overlap(w)]
  /\ pc' = [pc EXCEPT ![w] = "create"]
  /\ UNCHANGED <<server, fileVars, info, mu, handed, settled>>

\* The file is read, or there is none, and the process is added in memory.
ReadJob(w) ==
  /\ pc[w] = "read"
  /\ LET j == JobOfWriter(w) IN
       /\ fstate[j] \in {"absent", "json"}
       /\ job_info' = [job_info EXCEPT ![w] = Extended(w, processes[j])]
       /\ disturbed' = [disturbed EXCEPT ![j] = @ \/ Overlap(w)]
  /\ pc' = [pc EXCEPT ![w] = "create"]
  /\ UNCHANGED <<server, fileVars, info, mu, handed, settled>>

\* Any error of ReadFile is taken for a job without a file.
ReadFails(w) ==
  /\ pc[w] = "read"
  /\ JobOfWriter(w) \in Unreliable
  /\ job_info' = [job_info EXCEPT ![w] = Extended(w, <<>>)]
  /\ LET j == JobOfWriter(w) IN
       disturbed' = [disturbed EXCEPT ![j] =
                       @ \/ fstate[j] # "absent" \/ Overlap(w)]
  /\ pc' = [pc EXCEPT ![w] = "create"]
  /\ UNCHANGED <<server, fileVars, info, mu, handed, settled>>

\* The file is not JSON: log.Panic.
UnmarshalPanics(w) ==
  /\ pc[w] = "read"
  /\ fstate[JobOfWriter(w)] \in {"empty", "corrupt"}
  /\ Die("unmarshal")

\* os.Create truncates the file, or makes an empty one.
Create(w) ==
  /\ pc[w] = "create"
  /\ fstate' = [fstate EXCEPT ![JobOfWriter(w)] = "empty"]
  /\ processes' = [processes EXCEPT ![JobOfWriter(w)] = <<>>]
  /\ pc' = [pc EXCEPT ![w] = "write"]
  /\ UNCHANGED <<server, info, job_info, mu, handed, settled, disturbed>>

\* Faulty variant: a failed write is not noticed.
WriteUnchecked(w) ==
  /\ pc[w] = "write"
  /\ pc' = [pc EXCEPT ![w] = "close"]
  /\ UNCHANGED <<server, fileVars, info, job_info, mu, handed, settled,
                 disturbed>>

\* file.Write puts the JSON at the beginning of the file.  What another writer
\* wrote there since the truncation is covered, or leaves a tail behind it.
Write(w) ==
  /\ pc[w] = "write"
  /\ LET j == JobOfWriter(w) IN
       \/ /\ fstate' = [fstate EXCEPT ![j] = "json"]
          /\ processes' = [processes EXCEPT ![j] = job_info[w]]
       \/ /\ fstate[j] # "empty"
          /\ fstate' = [fstate EXCEPT ![j] = "corrupt"]
          /\ processes' = [processes EXCEPT ![j] = <<>>]
  /\ pc' = [pc EXCEPT ![w] = "close"]
  /\ UNCHANGED <<server, info, job_info, mu, handed, settled, disturbed>>

\* os.Create or file.Write fails: log.Panic.
IOPanics(w) ==
  /\ pc[w] \in {"create", "write"}
  /\ JobOfWriter(w) \in Unreliable
  /\ Die("io")

\* file.Close, mu.Unlock, return to the worker.
Return(w) ==
  /\ pc[w] = "close"
  /\ mu' = [mu EXCEPT ![w] = FALSE]
  /\ settled' = settled \cup {info[w]}
  /\ pc' = [pc EXCEPT ![w] = "idle"]
  /\ info' = [info EXCEPT ![w] = None]
  /\ job_info' = [job_info EXCEPT ![w] = <<>>]
  /\ UNCHANGED <<server, fileVars, handed, disturbed>>

\* The process is killed, or ends for a reason outside this output.
Kill == server = "up" /\ Die("killed")

\* The server is started again; Open finds the directory and its files.
Open ==
  /\ server # "up"
  /\ server' = "up"
  /\ UNCHANGED <<fileVars, writerVars, handed, settled, disturbed>>

WriterStep(w) ==
  \/ Lock(w)
  \/ ReadJob(w)
  \/ ReadFails(w)
  \/ UnmarshalPanics(w)
  \/ Create(w)
  \/ Write(w)
  \/ IOPanics(w)
  \/ Return(w)

Next ==
  \/ \E w \in Writers : WriterStep(w) \/ \E i \in Infos : Persist(w, i)
  \/ Kill
  \/ Open

Spec == Init /\ [][Next]_vars

-----------------------------------------------------------------------------
(* Properties.                                                             *)

\* The type invariant.
TypeOK ==
  /\ server \in {"up", "killed", "io", "unmarshal"}
  /\ fstate \in [Jobs -> {"absent", "empty", "json", "corrupt"}]
  /\ processes \in [Jobs -> Seq(Infos)]
  /\ pc \in [Writers -> {"idle", "lock", "read", "create", "write", "close"}]
  /\ info \in [Writers -> Infos \cup {None}]
  /\ job_info \in [Writers -> Seq(Infos)]
  /\ mu \in [Writers -> BOOLEAN]
  /\ handed \in SUBSET Infos
  /\ settled \in SUBSET Infos
  /\ disturbed \in [Jobs -> BOOLEAN]

BeingWritten(j) == \E w \in Writers : Writing(w, j)
Damaged(j) == fstate[j] \in {"empty", "corrupt"}

\* A process whose PersistProcessInfo returned stays in the file of its job,
\* through every later rewriting of that file, restart included, unless a
\* process died while writing the file, a read of it failed, or two writers
\* rewrote it at once.
RecordsKept ==
  \A j \in Jobs : ~disturbed[j] /\ ~BeingWritten(j) =>
    \A i \in settled : JobOf[i] = j => i \in Listed(processes[j])

\* Only these three things leave a file behind that is not JSON, on which the
\* next message of the job panics the server.
ValidUnlessDisturbed ==
  \A j \in Jobs : Damaged(j) => disturbed[j] \/ BeingWritten(j)

\* Whatever happens, a file lists processes of its own job, none twice.
FileWellFormed ==
  \A j \in Jobs :
    /\ \A i \in Listed(processes[j]) : JobOf[i] = j
    /\ \A m, n \in DOMAIN processes[j] :
         processes[j][m] = processes[j][n] => m = n

\* A damaged file that nobody is rewriting.
Abandoned(j) == Damaged(j) /\ \A w \in Writers : ~Busy(w, j)

DamageStays == \A j \in Jobs \ Unreliable : Abandoned(j) => Abandoned(j)'

\* Nothing repairs such a file, no later message of the job and no restart:
\* every writer that reads it panics before it could write it again.
DamageIsPermanent == [][DamageStays]_vars
=============================================================================

------------------------ MODULE JsonFileOutputProofs ------------------------
(***************************************************************************)
(* What holds of JsonFileOutput for every number of writers, jobs and      *)
(* messages, with and without failing system calls.                        *)
(***************************************************************************)
EXTENDS JsonFileOutput, TLAPS

-----------------------------------------------------------------------------
(* Type correctness.                                                       *)

\* A writer that is not idle has a process info.
BusyHasInfo == \A w \in Writers : pc[w] # "idle" => info[w] \in Infos

TypeInv == TypeOK /\ BusyHasInfo

LEMMA TypeInvInit == Init => TypeInv
  BY FileAssumption DEF Init, TypeInv, TypeOK, BusyHasInfo

LEMMA TypeInvDie ==
  ASSUME TypeInv, NEW why \in {"killed", "io", "unmarshal"}, Die(why)
  PROVE  TypeInv'
  BY FileAssumption DEF Die, TypeInv, TypeOK, BusyHasInfo

LEMMA TypeInvWriter ==
  ASSUME TypeInv, NEW w \in Writers, WriterStep(w)
  PROVE  TypeInv'
<1> USE FileAssumption DEF TypeInv, TypeOK, BusyHasInfo, fileVars, writerVars
<1>1. CASE Lock(w)
  BY <1>1 DEF Lock
<1>2. CASE ReadJob(w)
  BY <1>2 DEF ReadJob, Extended, JobOfWriter
<1>3. CASE ReadFails(w)
  BY <1>3 DEF ReadFails, Extended, JobOfWriter
<1>4. CASE UnmarshalPanics(w)
  BY <1>4, TypeInvDie DEF UnmarshalPanics
<1>5. CASE Create(w)
  BY <1>5 DEF Create, JobOfWriter
<1>6. CASE Write(w)
  <2>1. UNCHANGED <<server, info, job_info, mu, handed, settled, disturbed>>
        /\ pc' = [pc EXCEPT ![w] = "close"] /\ pc[w] = "write"
    BY <1>6 DEF Write
  <2>2. /\ fstate' \in [Jobs -> {"absent", "empty", "json", "corrupt"}]
        /\ processes' \in [Jobs -> Seq(Infos)]
    <3>1. \/ /\ fstate' = [fstate EXCEPT ![JobOfWriter(w)] = "json"]
             /\ processes' = [processes EXCEPT ![JobOfWriter(w)] = job_info[w]]
          \/ /\ fstate' = [fstate EXCEPT ![JobOfWriter(w)] = "corrupt"]
             /\ processes' = [processes EXCEPT ![JobOfWriter(w)] = <<>>]
      BY <1>6 DEF Write
    <3>2. <<>> \in Seq(Infos) /\ job_info[w] \in Seq(Infos)
      OBVIOUS
    <3>3. /\ fstate \in [Jobs -> {"absent", "empty", "json", "corrupt"}]
          /\ processes \in [Jobs -> Seq(Infos)]
      OBVIOUS
    <3>4. ASSUME NEW k, NEW s \in Seq(Infos), processes' = [processes EXCEPT ![k] = s]
          PROVE  processes' \in [Jobs -> Seq(Infos)]
      BY <3>3, <3>4
    <3>5. ASSUME NEW k, NEW t \in {"json", "corrupt"}, fstate' = [fstate EXCEPT ![k] = t]
          PROVE  fstate' \in [Jobs -> {"absent", "empty", "json", "corrupt"}]
      BY <3>3, <3>5
    <3>6. QED BY <3>1, <3>2, <3>4, <3>5, Zenon
  <2>3. QED BY <2>1, <2>2
<1>7. CASE IOPanics(w)
  BY <1>7, TypeInvDie DEF IOPanics
<1>8. CASE Return(w)
  BY <1>8 DEF Return
<1>9. QED
  BY <1>1, <1>2, <1>3, <1>4, <1>5, <1>6, <1>7, <1>8 DEF WriterStep

LEMMA TypeInvStep == TypeInv /\ [Next]_vars => TypeInv'
<1> SUFFICES ASSUME TypeInv, [Next]_vars PROVE TypeInv'
  OBVIOUS
<1>1. ASSUME NEW w \in Writers, NEW m \in Infos, Persist(w, m) PROVE TypeInv'
  BY <1>1, FileAssumption DEF Persist, TypeInv, TypeOK, BusyHasInfo, fileVars
<1>2. CASE Kill
  BY <1>2, TypeInvDie DEF Kill
<1>3. CASE Open \/ UNCHANGED vars
  BY <1>3 DEF Open, TypeInv, TypeOK, BusyHasInfo, fileVars, writerVars, vars
<1>4. QED BY <1>1, <1>2, <1>3, TypeInvWriter DEF Next

\* The type invariant holds for every value of the constants.
THEOREM TypeCorrect == Spec => []TypeOK
<1>1. Spec => []TypeInv
  BY TypeInvInit, TypeInvStep, PTL DEF Spec
<1>2. QED BY <1>1, PTL DEF TypeInv

-----------------------------------------------------------------------------
(* The file of a job that nothing disturbed.                               *)

\* Writers that are past the reading of the file of job j.
Concerned(w, j) == pc[w] \in {"create", "write", "close"} /\ JobOfWriter(w) = j

SettledOf(j) == {m \in settled : JobOf[m] = j}

\* What the file of job j must list: the processes that were persisted, and
\* those that are written but not yet returned.
Kept(j) ==
  SettledOf(j) \cup
    {info[w] : w \in {v \in Writers : pc[v] = "close" /\ JobOfWriter(v) = j}}

\* One writer at a time rewrites the file; until it truncates the file it has
\* all of it in memory with its own process, and until it writes, the memory
\* is the only place that has it.
Undisturbed(j) ==
  /\ \A v, w \in Writers : Busy(v, j) /\ Busy(w, j) => v = w
  /\ \A w \in Writers : pc[w] = "create" /\ JobOfWriter(w) = j =>
       job_info[w] = Append(processes[j], info[w])
  /\ \A w \in Writers : Writing(w, j) =>
       fstate[j] = "empty" /\ Kept(j) \cup {info[w]} \subseteq Listed(job_info[w])
  /\ ~BeingWritten(j) =>
       fstate[j] \in {"absent", "json"} /\ Kept(j) \subseteq Listed(processes[j])

UndisturbedInv == \A j \in Jobs : ~disturbed[j] => Undisturbed(j)

\* A file that is not JSON lists nothing.
OnlyJsonLists == \A j \in Jobs : fstate[j] # "json" => processes[j] = <<>>

FileInv == OnlyJsonLists /\ UndisturbedInv

LEMMA ListedAppend ==
  ASSUME NEW s \in Seq(Infos), NEW m \in Infos
  PROVE  Listed(Append(s, m)) = Listed(s) \cup {m}
<1>1. DOMAIN Append(s, m) = 1..Len(s) + 1 /\ DOMAIN s = 1..Len(s) /\ Len(s) \in Nat
  OBVIOUS
<1>2. \A k \in 1..Len(s) : Append(s, m)[k] = s[k]
  OBVIOUS
<1>3. Append(s, m)[Len(s) + 1] = m
  OBVIOUS
<1>4. QED BY <1>1, <1>2, <1>3 DEF Listed

LEMMA FileInvInit == Init => FileInv
  BY DEF Init, FileInv, OnlyJsonLists, UndisturbedInv, Undisturbed, Busy, Writing,
         BeingWritten, Kept, SettledOf

\* A step of a writer that is not concerned with the file of job j, before or
\* after, leaves j undisturbed.
LEMMA UndisturbedElsewhere ==
  ASSUME NEW j \in Jobs, NEW w \in Writers, Undisturbed(j),
         fstate'[j] = fstate[j], processes'[j] = processes[j],
         SettledOf(j)' = SettledOf(j),
         ~Concerned(w, j), ~Concerned(w, j)',
         \A v \in Writers : v # w =>
           pc'[v] = pc[v] /\ info'[v] = info[v] /\ job_info'[v] = job_info[v]
  PROVE  Undisturbed(j)'
<1>1. ~Busy(w, j) /\ ~Busy(w, j)' /\ ~Writing(w, j) /\ ~Writing(w, j)'
  BY DEF Concerned, Busy, Writing
<1>2. \A v \in Writers : v # w =>
        /\ Busy(v, j)' <=> Busy(v, j)
        /\ Writing(v, j)' <=> Writing(v, j)
        /\ JobOfWriter(v)' = JobOfWriter(v)
  BY DEF Busy, Writing, JobOfWriter
<1>3. Kept(j)' = Kept(j)
  <2>1. \A v \in Writers : (pc'[v] = "close" /\ JobOfWriter(v)' = j)
                            <=> (pc[v] = "close" /\ JobOfWriter(v) = j)
    BY <1>2 DEF Concerned
  <2>2. \A v \in Writers : pc[v] = "close" /\ JobOfWriter(v) = j => info'[v] = info[v]
    BY DEF Concerned
  <2>3. {info'[v] : v \in {u \in Writers : pc'[u] = "close" /\ JobOfWriter(u)' = j}}
        = {info[v] : v \in {u \in Writers : pc[u] = "close" /\ JobOfWriter(u) = j}}
    BY <2>1, <2>2
  <2>4. QED BY <2>3 DEF Kept
<1>4. \A v, u \in Writers : Busy(v, j)' /\ Busy(u, j)' => v = u
  BY <1>1, <1>2 DEF Undisturbed
<1>5. ASSUME NEW v \in Writers, pc'[v] = "create" /\ JobOfWriter(v)' = j
      PROVE  job_info'[v] = Append(processes'[j], info'[v])
  <2>1. v # w
    BY <1>5 DEF Concerned
  <2>2. QED BY <1>2, <1>5, <2>1 DEF Undisturbed
<1>6. ASSUME NEW v \in Writers, Writing(v, j)'
      PROVE  fstate'[j] = "empty"
             /\ Kept(j)' \cup {info'[v]} \subseteq Listed(job_info'[v])
  BY <1>1, <1>2, <1>3, <1>6 DEF Undisturbed
<1>7. ~BeingWritten(j)' =>
        fstate'[j] \in {"absent", "json"} /\ Kept(j)' \subseteq Listed(processes'[j])
  BY <1>1, <1>2, <1>3 DEF Undisturbed, BeingWritten
<1>8. QED BY <1>4, <1>5, <1>6, <1>7 DEF Undisturbed

\* A writer reads the file of its job, which nothing else is rewriting.
LEMMA UndisturbedRead ==
  ASSUME TypeInv, OnlyJsonLists, NEW w \in Writers, NEW k \in Jobs,
         k = JobOfWriter(w), Undisturbed(k), pc[w] = "read", ~Overlap(w),
         \/ job_info' = [job_info EXCEPT ![w] = Extended(w, processes[k])]
         \/ /\ fstate[k] = "absent"
            /\ job_info' = [job_info EXCEPT ![w] = Extended(w, <<>>)],
         pc' = [pc EXCEPT ![w] = "create"],
         UNCHANGED <<fstate, processes, info, settled>>
  PROVE  Undisturbed(k)'
<1>1. job_info'[w] = Append(processes[k], info[w])
  BY DEF TypeInv, TypeOK, OnlyJsonLists, Extended
<1>2. /\ pc'[w] = "create"
      /\ \A v \in Writers : v # w => pc'[v] = pc[v] /\ job_info'[v] = job_info[v]
  BY DEF TypeInv, TypeOK
<1>3. \A v \in Writers : ~Busy(v, k)
  BY DEF Overlap, Busy
<1>4. \A v \in Writers : v # w => ~Busy(v, k)'
  BY <1>2, <1>3 DEF Busy, JobOfWriter
<1>5. ~BeingWritten(k) /\ ~BeingWritten(k)' /\ \A v \in Writers : ~Writing(v, k)'
  BY <1>2, <1>3, <1>4 DEF BeingWritten, Writing, Busy
<1>6. Kept(k)' = Kept(k)
  <2>1. \A v \in Writers : pc'[v] = "close" <=> pc[v] = "close"
    BY <1>2
  <2>2. QED BY <2>1 DEF Kept, SettledOf, JobOfWriter
<1>7. \A v, u \in Writers : Busy(v, k)' /\ Busy(u, k)' => v = u
  BY <1>4
<1>8. ASSUME NEW v \in Writers, pc'[v] = "create" /\ JobOfWriter(v)' = k
      PROVE  job_info'[v] = Append(processes'[k], info'[v])
  <2>1. v = w
    BY <1>4, <1>8 DEF Busy
  <2>2. QED BY <1>1, <2>1
<1>9. fstate'[k] \in {"absent", "json"} /\ Kept(k)' \subseteq Listed(processes'[k])
  BY <1>5, <1>6 DEF Undisturbed
<1>10. QED BY <1>5, <1>7, <1>8, <1>9 DEF Undisturbed

\* It truncates the file: what the file said is in its memory.
LEMMA UndisturbedCreate ==
  ASSUME TypeInv, NEW w \in Writers, NEW k \in Jobs,
         k = JobOfWriter(w), Undisturbed(k), Create(w)
  PROVE  Undisturbed(k)'
<1>1. /\ pc[w] = "create" /\ fstate'[k] = "empty"
      /\ pc'[w] = "write" /\ \A v \in Writers : v # w => pc'[v] = pc[v]
      /\ UNCHANGED <<info, job_info, settled>>
  BY DEF Create, TypeInv, TypeOK
<1>2. Busy(w, k) /\ \A v \in Writers : v # w => ~Busy(v, k) /\ ~Busy(v, k)'
  <2>1. Busy(w, k)
    BY <1>1 DEF Busy
  <2>2. QED BY <1>1, <2>1 DEF Undisturbed, Busy, JobOfWriter
<1>3. ~BeingWritten(k)
  BY <1>1, <1>2 DEF BeingWritten, Writing, Busy
<1>4. Kept(k)' = Kept(k)
  <2>1. \A v \in Writers : pc'[v] = "close" <=> pc[v] = "close"
    BY <1>1
  <2>2. QED BY <1>1, <2>1 DEF Kept, SettledOf, JobOfWriter
<1>5. Listed(job_info[w]) = Listed(processes[k]) \cup {info[w]}
  <2>1. job_info[w] = Append(processes[k], info[w])
    BY <1>1 DEF Undisturbed
  <2>2. processes[k] \in Seq(Infos) /\ info[w] \in Infos
    BY <1>1 DEF TypeInv, TypeOK, BusyHasInfo
  <2>3. QED BY <2>1, <2>2, ListedAppend
<1>6. Kept(k) \subseteq Listed(processes[k])
  BY <1>3 DEF Undisturbed
<1>7. Writing(w, k)' /\ BeingWritten(k)'
  BY <1>1 DEF Writing, BeingWritten, JobOfWriter
<1>8. \A v \in Writers : (pc'[v] = "create" /\ JobOfWriter(v)' = k => FALSE)
                         /\ (Writing(v, k)' => v = w)
  BY <1>1, <1>2 DEF Busy, Writing
<1>9. Kept(k)' \cup {info'[w]} \subseteq Listed(job_info'[w])
  BY <1>1, <1>4, <1>5, <1>6
<1>10. \A v, u \in Writers : Busy(v, k)' /\ Busy(u, k)' => v = u
  BY <1>2
<1>11. QED BY <1>1, <1>7, <1>8, <1>9, <1>10 DEF Undisturbed

\* It writes its memory to the empty file.
LEMMA UndisturbedWrite ==
  ASSUME TypeInv, NEW w \in Writers, NEW k \in Jobs,
         k = JobOfWriter(w), Undisturbed(k), Write(w)
  PROVE  Undisturbed(k)'
<1>1. /\ pc[w] = "write"
      /\ pc'[w] = "close" /\ \A v \in Writers : v # w => pc'[v] = pc[v]
      /\ UNCHANGED <<info, job_info, settled>>
  BY DEF Write, TypeInv, TypeOK
<1>2. Writing(w, k)
  BY <1>1 DEF Writing
<1>3. \A v \in Writers : ~Busy(v, k)'
  <2>1. Busy(w, k)
    BY <1>1 DEF Busy
  <2>2. QED BY <1>1, <2>1 DEF Undisturbed, Busy, JobOfWriter
<1>4. fstate[k] = "empty" /\ Kept(k) \cup {info[w]} \subseteq Listed(job_info[w])
  BY <1>2 DEF Undisturbed
<1>5. fstate'[k] = "json" /\ processes'[k] = job_info[w]
  BY <1>4 DEF Write, TypeInv, TypeOK
<1>6. Kept(k)' \subseteq Kept(k) \cup {info[w]}
  BY <1>1 DEF Kept, SettledOf, JobOfWriter
<1>7. \A v \in Writers : ~Writing(v, k)' /\ ~(pc'[v] = "create" /\ JobOfWriter(v)' = k)
  BY <1>3 DEF Writing, Busy
<1>8. QED BY <1>3, <1>4, <1>5, <1>6, <1>7 DEF Undisturbed

\* It returns: its process was written and is now persisted.
LEMMA UndisturbedReturn ==
  ASSUME TypeInv, NEW w \in Writers, NEW k \in Jobs,
         k = JobOfWriter(w), Undisturbed(k), Return(w)
  PROVE  Undisturbed(k)'
<1>1. /\ pc[w] = "close" /\ pc'[w] = "idle"
      /\ \A v \in Writers : v # w =>
           pc'[v] = pc[v] /\ info'[v] = info[v] /\ job_info'[v] = job_info[v]
      /\ settled' = settled \cup {info[w]}
      /\ UNCHANGED <<fstate, processes>>
  BY DEF Return, TypeInv, TypeOK, fileVars
<1>2. ~Busy(w, k) /\ ~Busy(w, k)' /\ ~Writing(w, k) /\ ~Writing(w, k)'
  BY <1>1 DEF Busy, Writing
<1>3. \A v \in Writers : v # w =>
        /\ Busy(v, k)' <=> Busy(v, k)
        /\ Writing(v, k)' <=> Writing(v, k)
        /\ JobOfWriter(v)' = JobOfWriter(v)
  BY <1>1 DEF Busy, Writing, JobOfWriter
<1>4. Kept(k)' \subseteq Kept(k)
  <2>1. SettledOf(k)' \subseteq SettledOf(k) \cup {info[w]}
    BY <1>1 DEF SettledOf
  <2>2. info[w] \in Kept(k)
    BY <1>1 DEF Kept
  <2>3. ASSUME NEW v \in Writers, pc'[v] = "close" /\ JobOfWriter(v)' = k
        PROVE  info'[v] \in Kept(k)
    <3>1. v # w
      BY <1>1, <2>3
    <3>2. QED BY <1>1, <1>3, <2>3, <3>1 DEF Kept
  <2>4. SettledOf(k) \subseteq Kept(k)
    BY DEF Kept
  <2>5. Kept(k)' = SettledOf(k)' \cup
          {info'[v] : v \in {u \in Writers : pc'[u] = "close" /\ JobOfWriter(u)' = k}}
    BY DEF Kept
  <2>6. QED BY <2>1, <2>2, <2>3, <2>4, <2>5
<1>5. \A v, u \in Writers : Busy(v, k)' /\ Busy(u, k)' => v = u
  BY <1>2, <1>3 DEF Undisturbed
<1>6. ASSUME NEW v \in Writers, pc'[v] = "create" /\ JobOfWriter(v)' = k
      PROVE  job_info'[v] = Append(processes'[k], info'[v])
  <2>1. v # w
    BY <1>1, <1>6
  <2>2. QED BY <1>1, <1>3, <1>6, <2>1 DEF Undisturbed
<1>7. ASSUME NEW v \in Writers, Writing(v, k)'
      PROVE  fstate'[k] = "empty"
             /\ Kept(k)' \cup {info'[v]} \subseteq Listed(job_info'[v])
  <2>1. v # w /\ Writing(v, k)
    BY <1>2, <1>3, <1>7
  <2>2. fstate[k] = "empty" /\ Kept(k) \cup {info[v]} \subseteq Listed(job_info[v])
    BY <2>1 DEF Undisturbed
  <2>3. QED BY <1>1, <1>4, <2>1, <2>2
<1>8. ~BeingWritten(k)' =>
        fstate'[k] \in {"absent", "json"} /\ Kept(k)' \subseteq Listed(processes'[k])
  BY <1>1, <1>2, <1>3, <1>4 DEF Undisturbed, BeingWritten
<1>9. QED BY <1>5, <1>6, <1>7, <1>8 DEF Undisturbed

\* The process ends: a file that was not being written is as it was.
LEMMA UndisturbedDie ==
  ASSUME TypeInv, UndisturbedInv, NEW why, Die(why)
  PROVE  UndisturbedInv'
<1>1. SUFFICES ASSUME NEW j \in Jobs, ~disturbed'[j]
               PROVE  Undisturbed(j)'
  BY DEF UndisturbedInv
<1>2. ~disturbed[j] /\ ~BeingWritten(j)
  BY <1>1 DEF Die, BeingWritten
<1>3. fstate'[j] = fstate[j] /\ processes'[j] = processes[j] /\ settled' = settled
  BY <1>2 DEF Die, BeingWritten
<1>4. \A v \in Writers : pc'[v] = "idle"
  BY DEF Die
<1>5. Kept(j)' \subseteq Kept(j)
  BY <1>3, <1>4 DEF Kept, SettledOf
<1>6. fstate[j] \in {"absent", "json"} /\ Kept(j) \subseteq Listed(processes[j])
  BY <1>2 DEF UndisturbedInv, Undisturbed
<1>7. \A v \in Writers : ~Busy(v, j)' /\ ~Writing(v, j)' /\ pc'[v] # "create"
  BY <1>4 DEF Busy, Writing
<1>8. QED BY <1>3, <1>5, <1>6, <1>7 DEF Undisturbed

LEMMA OnlyJsonListsStep == TypeInv /\ OnlyJsonLists /\ [Next]_vars => OnlyJsonLists'
<1> SUFFICES ASSUME TypeInv, OnlyJsonLists, [Next]_vars PROVE OnlyJsonLists'
  OBVIOUS
<1> USE DEF TypeInv, TypeOK, OnlyJsonLists
<1>1. ASSUME NEW why, Die(why) PROVE OnlyJsonLists'
  BY <1>1 DEF Die
<1>2. ASSUME NEW w \in Writers, WriterStep(w) PROVE OnlyJsonLists'
  <2>1. CASE Create(w)
    BY <2>1 DEF Create
  <2>2. CASE Write(w)
    BY <2>2 DEF Write
  <2>3. CASE UnmarshalPanics(w) \/ IOPanics(w)
    BY <1>1, <2>3 DEF UnmarshalPanics, IOPanics
  <2>4. CASE Lock(w) \/ ReadJob(w) \/ ReadFails(w) \/ Return(w)
    BY <2>4 DEF Lock, ReadJob, ReadFails, Return, fileVars
  <2>5. QED BY <1>2, <2>1, <2>2, <2>3, <2>4 DEF WriterStep
<1>3. ASSUME NEW w \in Writers, NEW m \in Infos, Persist(w, m) PROVE OnlyJsonLists'
  BY <1>3 DEF Persist, fileVars
<1>4. CASE Open \/ UNCHANGED vars
  BY <1>4 DEF Open, vars, fileVars
<1>5. QED BY <1>1, <1>2, <1>3, <1>4 DEF Next, Kill

\* What a writer does to the file of its job, and to no other.
LEMMA UndisturbedWriter ==
  ASSUME TypeInv, FileInv, NEW w \in Writers, WriterStep(w)
  PROVE  UndisturbedInv'
<1>1. SUFFICES ASSUME NEW j \in Jobs, ~disturbed'[j] PROVE Undisturbed(j)'
  BY DEF UndisturbedInv
<1>2. CASE UnmarshalPanics(w) \/ IOPanics(w)
  BY <1>1, <1>2, UndisturbedDie DEF UnmarshalPanics, IOPanics, FileInv, UndisturbedInv
<1>3. CASE Lock(w)
  <2>1. ~disturbed[j] /\ Undisturbed(j)
    BY <1>1, <1>3 DEF Lock, FileInv, UndisturbedInv
  <2>2. QED
    BY <1>3, <2>1, UndisturbedElsewhere
    DEF Lock, fileVars, Concerned, SettledOf, TypeInv, TypeOK
<1> DEFINE k == JobOfWriter(w)
<1>4. pc[w] # "idle" => k \in Jobs
  BY FileAssumption DEF TypeInv, BusyHasInfo, JobOfWriter
<1>5. CASE ReadJob(w) \/ ReadFails(w)
  <2>1. /\ pc[w] = "read" /\ pc' = [pc EXCEPT ![w] = "create"]
        /\ UNCHANGED <<fstate, processes, info, settled>>
        /\ \A v \in Writers : v # w => pc'[v] = pc[v] /\ job_info'[v] = job_info[v]
    BY <1>5 DEF ReadJob, ReadFails, fileVars, TypeInv, TypeOK
  <2>2. ~disturbed[j] /\ (j = k => ~Overlap(w))
    BY <1>1, <1>5 DEF ReadJob, ReadFails, TypeInv, TypeOK
  <2>3. Undisturbed(j)
    BY <2>2 DEF FileInv, UndisturbedInv
  <2>4. CASE j = k
    <3>1. \/ job_info' = [job_info EXCEPT ![w] = Extended(w, processes[k])]
          \/ /\ fstate[k] = "absent"
             /\ job_info' = [job_info EXCEPT ![w] = Extended(w, <<>>)]
      BY <1>1, <1>5, <2>4 DEF ReadJob, ReadFails, TypeInv, TypeOK
    <3>2. QED BY <2>1, <2>2, <2>3, <2>4, <3>1, UndisturbedRead DEF FileInv
  <2>5. CASE j # k
    <3>1. ~Concerned(w, j) /\ ~Concerned(w, j)'
      BY <2>1, <2>5 DEF Concerned, JobOfWriter
    <3>2. SettledOf(j)' = SettledOf(j)
      BY <2>1 DEF SettledOf
    <3>3. QED BY <2>1, <2>3, <3>1, <3>2, UndisturbedElsewhere
  <2>6. QED BY <2>4, <2>5
<1>6. CASE Create(w) \/ Write(w)
  <2>1. /\ pc[w] \in {"create", "write"}
        /\ UNCHANGED <<info, job_info, settled, disturbed>>
        /\ \A v \in Writers : v # w => pc'[v] = pc[v]
        /\ j # k => fstate'[j] = fstate[j] /\ processes'[j] = processes[j]
    BY <1>6 DEF Create, Write, TypeInv, TypeOK
  <2>2. Undisturbed(j)
    BY <1>1, <2>1 DEF FileInv, UndisturbedInv
  <2>3. CASE j = k
    BY <1>6, <2>2, <2>3, UndisturbedCreate, UndisturbedWrite
  <2>4. CASE j # k
    <3>1. ~Concerned(w, j) /\ ~Concerned(w, j)'
      BY <2>1, <2>4 DEF Concerned, JobOfWriter
    <3>2. SettledOf(j)' = SettledOf(j)
      BY <2>1 DEF SettledOf
    <3>3. QED BY <2>1, <2>2, <2>4, <3>1, <3>2, UndisturbedElsewhere
  <2>5. QED BY <2>3, <2>4
<1>7. CASE Return(w)
  <2>1. /\ pc[w] = "close" /\ pc'[w] = "idle"
        /\ settled' = settled \cup {info[w]}
        /\ UNCHANGED <<fstate, processes, disturbed>>
        /\ \A v \in Writers : v # w =>
             pc'[v] = pc[v] /\ info'[v] = info[v] /\ job_info'[v] = job_info[v]
    BY <1>7 DEF Return, fileVars, TypeInv, TypeOK
  <2>2. Undisturbed(j)
    BY <1>1, <2>1 DEF FileInv, UndisturbedInv
  <2>3. CASE j = k
    BY <1>7, <2>2, <2>3, UndisturbedReturn
  <2>4. CASE j # k
    <3>1. ~Concerned(w, j) /\ ~Concerned(w, j)'
      BY <2>1, <2>4 DEF Concerned
    <3>2. SettledOf(j)' = SettledOf(j)
      BY <2>1, <2>4 DEF SettledOf, JobOfWriter
    <3>3. QED BY <2>1, <2>2, <3>1, <3>2, UndisturbedElsewhere
  <2>5. QED BY <2>3, <2>4
<1>8. QED BY <1>2, <1>3, <1>5, <1>6, <1>7 DEF WriterStep

LEMMA FileInvStep == TypeInv /\ FileInv /\ [Next]_vars => FileInv'
<1> SUFFICES ASSUME TypeInv, FileInv, [Next]_vars PROVE UndisturbedInv'
  BY OnlyJsonListsStep DEF FileInv
<1>1. ASSUME NEW w \in Writers, NEW m \in Infos, Persist(w, m) PROVE UndisturbedInv'
  <2>1. SUFFICES ASSUME NEW j \in Jobs, ~disturbed'[j] PROVE Undisturbed(j)'
    BY DEF UndisturbedInv
  <2>2. Undisturbed(j)
    BY <1>1, <2>1 DEF Persist, FileInv, UndisturbedInv
  <2>3. QED
    BY <1>1, <2>2, UndisturbedElsewhere
    DEF Persist, fileVars, Concerned, SettledOf, TypeInv, TypeOK
<1>2. CASE Kill
  BY <1>2, UndisturbedDie DEF Kill, FileInv
<1>3. CASE Open \/ UNCHANGED vars
  BY <1>3 DEF Open, vars, fileVars, writerVars, FileInv, UndisturbedInv, Undisturbed,
              Busy, Writing, BeingWritten, Kept, SettledOf, JobOfWriter
<1>4. QED BY <1>1, <1>2, <1>3, UndisturbedWriter DEF Next

LEMMA FileInvCorrect == Spec => []FileInv
  BY TypeInvInit, TypeInvStep, FileInvInit, FileInvStep, PTL DEF Spec

\* Of every job that nothing disturbed, the file lists every process whose
\* PersistProcessInfo returned, whatever the number of writers and however
\* often the server was killed between the writes and started again.
THEOREM RecordsKeptCorrect == Spec => []RecordsKept
<1>1. FileInv => RecordsKept
  <2>1. SUFFICES ASSUME UndisturbedInv, NEW j \in Jobs, ~disturbed[j], ~BeingWritten(j),
                        NEW m \in settled, JobOf[m] = j
                 PROVE  m \in Listed(processes[j])
    BY DEF FileInv, RecordsKept
  <2>2. Kept(j) \subseteq Listed(processes[j])
    BY <2>1 DEF UndisturbedInv, Undisturbed
  <2>3. m \in Kept(j)
    BY <2>1 DEF Kept, SettledOf
  <2>4. QED BY <2>2, <2>3
<1>2. QED BY <1>1, FileInvCorrect, PTL

\* A job file that is no JSON was disturbed, or is being written.
THEOREM ValidUnlessDisturbedCorrect == Spec => []ValidUnlessDisturbed
<1>1. FileInv => ValidUnlessDisturbed
  BY DEF FileInv, UndisturbedInv, Undisturbed, ValidUnlessDisturbed, Damaged
<1>2. QED BY <1>1, FileInvCorrect, PTL

-----------------------------------------------------------------------------
(* What a file lists, whatever happens to it.                              *)

\* Processes of job j, none twice.
ListsOwn(s, j) ==
  /\ \A m \in Listed(s) : JobOf[m] = j
  /\ \A k, n \in DOMAIN s : s[k] = s[n] => k = n

\* A process info is handed to one writer, and is in no list before that one
\* has read the file.
ListInv ==
  /\ \A j \in Jobs : ListsOwn(processes[j], j) /\ Listed(processes[j]) \subseteq handed
  /\ \A w \in Writers : pc[w] \in {"create", "write"} => ListsOwn(job_info[w], JobOfWriter(w))
  /\ \A w \in Writers : Listed(job_info[w]) \subseteq handed
  /\ \A w \in Writers : pc[w] \in {"idle", "lock", "read"} => job_info[w] = <<>>
  /\ \A w \in Writers : pc[w] # "idle" => info[w] \in handed
  /\ \A v, w \in Writers : v # w /\ pc[v] # "idle" /\ pc[w] # "idle" => info[v] # info[w]
  /\ \A w \in Writers : pc[w] \in {"lock", "read"} =>
       /\ \A j \in Jobs : info[w] \notin Listed(processes[j])
       /\ \A v \in Writers : info[w] \notin Listed(job_info[v])

LEMMA ListsOwnEmpty ==
  /\ \A j : ListsOwn(<<>>, j)
  /\ Listed(<<>>) = {}
BY DEF ListsOwn, Listed

LEMMA ListsOwnAppend ==
  ASSUME NEW s \in Seq(Infos), NEW m \in Infos, NEW j, ListsOwn(s, j),
         JobOf[m] = j, m \notin Listed(s)
  PROVE  ListsOwn(Append(s, m), j)
<1>1. \A e \in Listed(Append(s, m)) : JobOf[e] = j
  BY ListedAppend DEF ListsOwn
<1>2. /\ DOMAIN Append(s, m) = 1..Len(s) + 1 /\ DOMAIN s = 1..Len(s) /\ Len(s) \in Nat
      /\ \A k \in 1..Len(s) : Append(s, m)[k] = s[k]
      /\ Append(s, m)[Len(s) + 1] = m
  OBVIOUS
<1>3. \A k \in 1..Len(s) : s[k] # m
  BY <1>2 DEF Listed
<1>4. ASSUME NEW k \in 1..Len(s) + 1, NEW n \in 1..Len(s) + 1,
             Append(s, m)[k] = Append(s, m)[n]
      PROVE  k = n
  <2>1. k \in 1..Len(s) \/ k = Len(s) + 1
    BY <1>2
  <2>2. n \in 1..Len(s) \/ n = Len(s) + 1
    BY <1>2
  <2>3. QED BY <1>2, <1>3, <1>4, <2>1, <2>2 DEF ListsOwn
<1>5. QED BY <1>1, <1>2, <1>4 DEF ListsOwn

LEMMA ListInvInit == Init => ListInv
BY ListsOwnEmpty DEF Init, ListInv

\* A writer reads the file, or nothing, and adds its process in memory.
LEMMA ListInvRead ==
  ASSUME TypeInv, ListInv, NEW w \in Writers, pc[w] = "read",
         NEW before \in Seq(Infos),
         before = <<>> \/ before = processes[JobOfWriter(w)],
         job_info' = [job_info EXCEPT ![w] = Append(before, info[w])],
         pc' = [pc EXCEPT ![w] = "create"],
         UNCHANGED <<processes, info, handed>>
  PROVE  ListInv'
<1>1. /\ info[w] \in Infos /\ JobOfWriter(w) \in Jobs /\ JobOf[info[w]] = JobOfWriter(w)
      /\ info[w] \in handed
  BY FileAssumption DEF TypeInv, BusyHasInfo, JobOfWriter, ListInv
<1>2. ListsOwn(before, JobOfWriter(w)) /\ Listed(before) \subseteq handed
  BY <1>1, ListsOwnEmpty DEF ListInv
<1>3. info[w] \notin Listed(before)
  BY <1>1, ListsOwnEmpty DEF ListInv
<1>4. /\ ListsOwn(Append(before, info[w]), JobOfWriter(w))
      /\ Listed(Append(before, info[w])) = Listed(before) \cup {info[w]}
  BY <1>1, <1>2, <1>3, ListsOwnAppend, ListedAppend
<1>5. /\ job_info'[w] = Append(before, info[w]) /\ pc'[w] = "create"
      /\ \A v \in Writers : v # w => job_info'[v] = job_info[v] /\ pc'[v] = pc[v]
  BY DEF TypeInv, TypeOK
<1>6. \A v \in Writers : JobOfWriter(v)' = JobOfWriter(v)
  BY DEF JobOfWriter
<1>7. ASSUME NEW v \in Writers, v # w, pc[v] \in {"lock", "read"}
      PROVE  info[v] \notin Listed(Append(before, info[w]))
  <2>1. info[v] # info[w]
    BY <1>7 DEF ListInv
  <2>2. info[v] \notin Listed(before)
    BY <1>1, <1>7, ListsOwnEmpty DEF ListInv
  <2>3. QED BY <1>4, <2>1, <2>2
<1>8. QED BY <1>1, <1>2, <1>4, <1>5, <1>6, <1>7 DEF ListInv

\* The file of job j is emptied, or gets what a writer of that job has.
LEMMA ListInvFile ==
  ASSUME TypeInv, ListInv, NEW w \in Writers, NEW j \in Jobs, j = JobOfWriter(w),
         pc[w] \in {"create", "write"}, NEW next \in {"write", "close"},
         \/ processes' = [processes EXCEPT ![j] = <<>>]
         \/ processes' = [processes EXCEPT ![j] = job_info[w]],
         pc' = [pc EXCEPT ![w] = next],
         UNCHANGED <<info, job_info, handed>>
  PROVE  ListInv'
<1>1. /\ \A k \in Jobs : k # j => processes'[k] = processes[k]
      /\ processes'[j] = <<>> \/ processes'[j] = job_info[w]
  BY DEF TypeInv, TypeOK
<1>2. \A v \in Writers : v # w => pc'[v] = pc[v]
  BY DEF TypeInv, TypeOK
<1>3. pc'[w] = next
  BY DEF TypeInv, TypeOK
<1>4. /\ ListsOwn(processes'[j], j) /\ Listed(processes'[j]) \subseteq handed
      /\ \A v \in Writers : pc[v] \in {"lock", "read"} => info[v] \notin Listed(processes'[j])
  BY <1>1, ListsOwnEmpty DEF ListInv
<1>5. \A v \in Writers : JobOfWriter(v)' = JobOfWriter(v)
  BY DEF JobOfWriter
<1>6. QED BY <1>1, <1>2, <1>3, <1>4, <1>5 DEF ListInv

LEMMA ListInvDie ==
  ASSUME TypeInv, ListInv, NEW why, Die(why)
  PROVE  ListInv'
<1>1. /\ \A j \in Jobs : processes'[j] = <<>> \/ processes'[j] = processes[j]
      /\ handed' = handed
      /\ \A w \in Writers : pc'[w] = "idle" /\ job_info'[w] = <<>>
  BY DEF Die
<1>2. QED BY <1>1, ListsOwnEmpty DEF ListInv

LEMMA ListInvStep == TypeInv /\ ListInv /\ [Next]_vars => ListInv'
<1> SUFFICES ASSUME TypeInv, ListInv, [Next]_vars PROVE ListInv'
  OBVIOUS
<1>1. ASSUME NEW w \in Writers, NEW m \in Infos, Persist(w, m) PROVE ListInv'
  <2>1. /\ pc[w] = "idle" /\ m \notin handed /\ handed' = handed \cup {m}
        /\ pc'[w] = "lock" /\ info'[w] = m
        /\ \A v \in Writers : v # w => info'[v] = info[v] /\ pc'[v] = pc[v]
        /\ UNCHANGED <<processes, job_info>>
    BY <1>1 DEF Persist, TypeInv, TypeOK, fileVars
  <2>2. \A v \in Writers : v # w => JobOfWriter(v)' = JobOfWriter(v)
    BY <2>1 DEF JobOfWriter
  <2>3. QED BY <2>1, <2>2 DEF ListInv
<1>2. ASSUME NEW w \in Writers, WriterStep(w) PROVE ListInv'
  <2>1. CASE Lock(w)
    BY <2>1 DEF Lock, ListInv, JobOfWriter, fileVars, TypeInv, TypeOK
  <2>2. CASE ReadJob(w)
    <3>1. JobOfWriter(w) \in Jobs
      BY <2>2, FileAssumption DEF ReadJob, JobOfWriter, TypeInv, BusyHasInfo
    <3>2. processes[JobOfWriter(w)] \in Seq(Infos)
      BY <3>1 DEF TypeInv, TypeOK
    <3>3. QED BY <2>2, <3>2, ListInvRead DEF ReadJob, Extended, fileVars
  <2>3. CASE ReadFails(w)
    <3>1. <<>> \in Seq(Infos)
      OBVIOUS
    <3>2. QED BY <2>3, <3>1, ListInvRead DEF ReadFails, Extended, fileVars
  <2>4. CASE Create(w) \/ Write(w)
    <3>1. JobOfWriter(w) \in Jobs
      BY <2>4, FileAssumption DEF Create, Write, JobOfWriter, TypeInv, BusyHasInfo
    <3>2. QED BY <2>4, <3>1, ListInvFile DEF Create, Write
  <2>5. CASE UnmarshalPanics(w) \/ IOPanics(w)
    BY <2>5, ListInvDie DEF UnmarshalPanics, IOPanics
  <2>6. CASE Return(w)
    <3>1. /\ pc'[w] = "idle" /\ job_info'[w] = <<>>
          /\ \A v \in Writers : v # w => /\ info'[v] = info[v] /\ pc'[v] = pc[v]
                                         /\ job_info'[v] = job_info[v]
          /\ UNCHANGED <<processes, handed>>
      BY <2>6 DEF Return, TypeInv, TypeOK, fileVars
    <3>2. \A v \in Writers : v # w => JobOfWriter(v)' = JobOfWriter(v)
      BY <3>1 DEF JobOfWriter
    <3>3. QED BY <3>1, <3>2, ListsOwnEmpty DEF ListInv
  <2>7. QED BY <1>2, <2>1, <2>2, <2>3, <2>4, <2>5, <2>6 DEF WriterStep
<1>3. CASE Kill
  BY <1>3, ListInvDie DEF Kill
<1>4. CASE Open \/ UNCHANGED vars
  BY <1>4 DEF Open, vars, fileVars, writerVars, ListInv, JobOfWriter
<1>5. QED BY <1>1, <1>2, <1>3, <1>4 DEF Next

\* However many writers rewrite a file at once, fail or are killed, it lists
\* processes of its own job, and none twice.
THEOREM FileWellFormedCorrect == Spec => []FileWellFormed
<1>1. ListInv => FileWellFormed
  BY DEF ListInv, ListsOwn, FileWellFormed
<1>2. QED BY <1>1, TypeInvInit, TypeInvStep, ListInvInit, ListInvStep, PTL DEF Spec

-----------------------------------------------------------------------------
(* A damaged file.                                                         *)

LEMMA DamageStaysStep == TypeInv /\ [Next]_vars => [DamageStays]_vars
<1> SUFFICES ASSUME TypeInv, Next, NEW j \in Jobs \ Unreliable, Abandoned(j)
             PROVE  Abandoned(j)'
  BY DEF DamageStays
<1> USE DEF Abandoned, Damaged, Busy
<1>1. ASSUME NEW why, Die(why) PROVE Abandoned(j)'
  <2>1. fstate'[j] = "corrupt" \/ fstate'[j] = fstate[j]
    BY <1>1 DEF Die
  <2>2. \A w \in Writers : pc'[w] = "idle"
    BY <1>1 DEF Die
  <2>3. QED BY <2>1, <2>2
<1>2. ASSUME NEW w \in Writers, NEW m \in Infos, Persist(w, m) PROVE Abandoned(j)'
  BY <1>2 DEF Persist, fileVars, JobOfWriter, TypeInv, TypeOK
<1>3. ASSUME NEW w \in Writers, WriterStep(w) PROVE Abandoned(j)'
  <2>1. CASE Lock(w) \/ Return(w)
    BY <2>1 DEF Lock, Return, fileVars, JobOfWriter, TypeInv, TypeOK
  <2>2. CASE ReadJob(w) \/ ReadFails(w)
    <3>1. JobOfWriter(w) # j
      BY <2>2 DEF ReadJob, ReadFails
    <3>2. QED BY <2>2, <3>1 DEF ReadJob, ReadFails, fileVars, JobOfWriter, TypeInv, TypeOK
  <2>3. CASE Create(w) \/ Write(w)
    <3>1. JobOfWriter(w) # j
      BY <2>3 DEF Create, Write
    <3>2. fstate'[j] = fstate[j]
      BY <2>3, <3>1 DEF Create, Write, TypeInv, TypeOK
    <3>3. QED BY <2>3, <3>1, <3>2 DEF Create, Write, JobOfWriter, TypeInv, TypeOK
  <2>4. CASE UnmarshalPanics(w) \/ IOPanics(w)
    BY <1>1, <2>4 DEF UnmarshalPanics, IOPanics
  <2>5. QED BY <1>3, <2>1, <2>2, <2>3, <2>4 DEF WriterStep
<1>4. CASE Open
  BY <1>4 DEF Open, fileVars, writerVars, JobOfWriter
<1>5. QED BY <1>1, <1>2, <1>3, <1>4 DEF Next, Kill

\* A damaged file that nobody is rewriting, and on which system calls work, is
\* never valid again.
THEOREM DamageIsPermanentCorrect == Spec => DamageIsPermanent
BY DamageStaysStep, TypeInvInit, TypeInvStep, PTL DEF Spec, DamageIsPermanent
=============================================================================

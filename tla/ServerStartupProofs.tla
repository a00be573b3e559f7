------------------------ MODULE ServerStartupProofs -------------------------
(***************************************************************************)
(* Proofs about ServerStartup, for any outputs with any numbers of         *)
(* workers, none included.                                                 *)
(***************************************************************************)
EXTENDS ServerStartup, TLAPS

LEMMA WorkerIdsFacts ==
  /\ \A w \in WorkerIds : /\ w[1] \in Outputs /\ w[2] \in Nat /\ w[2] < WorkerCount[w[1]]
                          /\ w = <<w[1], w[2]>>
  /\ \A o \in Outputs, k \in Nat : k < WorkerCount[o] => <<o, k>> \in WorkerIds
<1>1. ASSUME NEW w \in WorkerIds
      PROVE  /\ w[1] \in Outputs /\ w[2] \in Nat /\ w[2] < WorkerCount[w[1]]
             /\ w = <<w[1], w[2]>>
  <2>1. PICK o \in Outputs : w \in {o} \X (0..WorkerCount[o] - 1)
    BY DEF WorkerIds
  <2>2. WorkerCount[o] \in Nat
    BY StartupAssumption
  <2>3. QED BY <2>1, <2>2
<1>2. ASSUME NEW o \in Outputs, NEW k \in Nat, k < WorkerCount[o]
      PROVE  <<o, k>> \in WorkerIds
  <2>1. k \in 0..WorkerCount[o] - 1
    BY <1>2, StartupAssumption
  <2>2. QED BY <2>1 DEF WorkerIds
<1>3. QED BY <1>1, <1>2

-----------------------------------------------------------------------------
(* Types.                                                                  *)

LEMMA TypeOKStep == TypeOK /\ [Next]_vars => TypeOK'
<1> SUFFICES ASSUME TypeOK, [Next]_vars PROVE TypeOK'
  OBVIOUS
<1> USE StartupAssumption DEF TypeOK
<1>1. ASSUME NEW o \in Outputs, MakeChannel(o) PROVE TypeOK'
  BY <1>1 DEF MakeChannel
<1>2. CASE Open \/ OpenFails
  BY <1>2 DEF Open, OpenFails, MoreWorkers
<1>3. CASE Assigned
  BY <1>3 DEF Assigned
<1>4. CASE StartWorker
  <2>1. wpc' = [wpc EXCEPT ![<<name, i>>] = "lookup"]
    BY <1>4 DEF StartWorker
  <2>2. wpc' \in [WorkerIds -> {"none", "lookup", "serve"}]
    BY <2>1
  <2>3. QED BY <1>4, <2>2 DEF StartWorker
<1>5. CASE Register
  BY <1>5 DEF Register
<1>6. CASE BeginReceive
  BY <1>6 DEF BeginReceive
<1>7. ASSUME NEW w \in WorkerIds, Lookup(w) \/ LookupRaces(w) \/ ServeMessage(w) PROVE TypeOK'
  BY <1>7 DEF Lookup, LookupRaces, ServeMessage, Up
<1>8. CASE UNCHANGED vars
  BY <1>8 DEF vars
<1>9. QED
  BY <1>1, <1>2, <1>3, <1>4, <1>5, <1>6, <1>7, <1>8 DEF Next, Main, Stopped

\* The type invariant holds for any configuration.
THEOREM TypeCorrect == Spec => []TypeOK
<1>1. Init => TypeOK
  BY StartupAssumption DEF Init, TypeOK
<1>2. QED BY <1>1, TypeOKStep, PTL DEF Spec

-----------------------------------------------------------------------------
(* The loops of main.                                                      *)

Started(o, k) == wpc[<<o, k>>] # "none"

\* An output that the loop has not come to.
Ahead(o) ==
  /\ outputs[o] = 0
  /\ \A k \in Nat : k < WorkerCount[o] => ~Started(o, k)

\* The output it is at: the first i workers are started, and from the
\* assignment on there is the writer of the next.
AtWork(o) ==
  /\ o \in Outputs \ config_Outputs
  /\ o \in output_channels
  /\ i <= WorkerCount[o]
  /\ outputs[o] = IF main = "start" THEN i + 1 ELSE i
  /\ \A k \in Nat : k < WorkerCount[o] => (Started(o, k) <=> k < i)

\* An output it is done with.
Complete(o) ==
  /\ o \in output_channels /\ o \in metrics
  /\ outputs[o] = WorkerCount[o]
  /\ \A k \in Nat : k < WorkerCount[o] => Started(o, k)

\* While main has not ended.
LoopInv ==
  Up =>
    /\ \A o \in config_Outputs : Ahead(o)
    /\ name # None => AtWork(name)
    /\ \A o \in Outputs \ config_Outputs : o # name => Complete(o)
    /\ main = "receive" => config_Outputs = {} /\ name = None

\* A worker is started only when its writer is in the map.
WriterAssigned == \A w \in WorkerIds : wpc[w] # "none" => w[2] < outputs[w[1]]

StartInv == TypeOK /\ LoopInv /\ WriterAssigned /\ NothingMissing

LEMMA StartInvInit == Init => StartInv
<1> SUFFICES ASSUME Init PROVE StartInv
  OBVIOUS
<1>1. TypeOK
  BY StartupAssumption DEF Init, TypeOK
<1>2. LoopInv
  BY StartupAssumption, WorkerIdsFacts DEF Init, LoopInv, Ahead, Started
<1>3. QED BY <1>1, <1>2 DEF Init, StartInv, WriterAssigned, NothingMissing

\* The steps of main.
LEMMA StartInvMain ==
  ASSUME StartInv, Main
  PROVE  StartInv'
<1> USE StartupAssumption, WorkerIdsFacts
<1>1. TypeOK'
  BY TypeOKStep DEF StartInv, Next
<1>2. ASSUME NEW o \in Outputs, MakeChannel(o) PROVE StartInv'
  <2>1. LoopInv'
    BY <1>2 DEF MakeChannel, StartInv, TypeOK, LoopInv, Ahead, AtWork, Complete, Started, Up
  <2>2. QED BY <1>1, <1>2, <2>1 DEF MakeChannel, StartInv, WriterAssigned, NothingMissing
<1>3. CASE Open
  <2>1. LoopInv'
    BY <1>3 DEF Open, StartInv, TypeOK, LoopInv, Ahead, AtWork, Complete, Started, Up
  <2>2. QED BY <1>1, <1>3, <2>1 DEF Open, StartInv, WriterAssigned, NothingMissing
<1>4. CASE Assigned
  <2>1. name \in Outputs /\ name \notin config_Outputs
    BY <1>4 DEF Assigned, StartInv, TypeOK, LoopInv, AtWork, Up
  <2>2. /\ outputs'[name] = outputs[name] + 1
        /\ \A o \in Outputs : o # name => outputs'[o] = outputs[o]
    BY <1>4, <2>1 DEF Assigned, StartInv, TypeOK
  <2>3. LoopInv'
    BY <1>4, <2>1, <2>2 DEF Assigned, StartInv, TypeOK, LoopInv, Ahead, AtWork, Complete,
       Started, Up
  <2>4. WriterAssigned'
    BY <1>4, <2>1, <2>2 DEF Assigned, StartInv, TypeOK, WriterAssigned
  <2>5. QED BY <1>1, <1>4, <2>3, <2>4 DEF Assigned, StartInv, NothingMissing
<1>5. CASE StartWorker
  <2>1. PICK o \in Outputs, n \in Nat :
          /\ o = name /\ n = i
          /\ o \notin config_Outputs /\ n < WorkerCount[o] /\ outputs[o] = n + 1
          /\ AtWork(o)
    BY <1>5 DEF StartWorker, StartInv, TypeOK, LoopInv, AtWork, Up
  <2>2. /\ name' = o /\ i' = n + 1 /\ main' = "loop"
        /\ wpc' = [wpc EXCEPT ![<<o, n>>] = "lookup"]
        /\ UNCHANGED <<config_Outputs, output_channels, outputs, metrics>>
    BY <1>5, <2>1 DEF StartWorker
  <2>3. <<o, n>> \in WorkerIds
    BY <2>1
  <2>4. /\ Started(o, n)'
        /\ \A w \in WorkerIds : w # <<o, n>> => wpc'[w] = wpc[w]
    BY <2>2, <2>3 DEF StartInv, TypeOK, Started
  <2>5. \A q \in Outputs, k \in Nat :
          k < WorkerCount[q] /\ ~(q = o /\ k = n) => (Started(q, k)' <=> Started(q, k))
    BY <2>4 DEF Started
  <2>6. \A q \in config_Outputs : Ahead(q)'
    BY <1>5, <2>1, <2>2, <2>5 DEF StartWorker, StartInv, TypeOK, LoopInv, Ahead, Up
  <2>7. AtWork(o)'
    <3>1. ASSUME NEW k \in Nat, k < WorkerCount[o] PROVE Started(o, k)' <=> k < n + 1
      BY <2>1, <2>4, <2>5, <3>1 DEF AtWork
    <3>2. QED BY <2>1, <2>2, <3>1 DEF AtWork
  <2>8. \A q \in Outputs \ config_Outputs : q # o => Complete(q)'
    BY <1>5, <2>1, <2>2, <2>5 DEF StartWorker, StartInv, TypeOK, LoopInv, Complete, Up
  <2>9. LoopInv'
    BY <2>2, <2>6, <2>7, <2>8 DEF LoopInv
  <2>10. WriterAssigned'
    BY <2>1, <2>2, <2>4 DEF StartInv, TypeOK, WriterAssigned
  <2>11. QED BY <1>1, <2>2, <2>9, <2>10 DEF StartInv, NothingMissing
<1>6. CASE Register
  <2>1. PICK o \in Outputs : o = name /\ AtWork(o) /\ i = WorkerCount[o]
    BY <1>6 DEF Register, StartInv, TypeOK, LoopInv, Up, MoreWorkers, AtWork
  <2>2. /\ metrics' = metrics \cup {o} /\ name' = None /\ main = "loop" /\ main' = main
        /\ UNCHANGED <<config_Outputs, output_channels, outputs, wpc>>
    BY <1>6, <2>1 DEF Register
  <2>3. Complete(o)'
    BY <2>1, <2>2 DEF AtWork, Complete, Started
  <2>4. LoopInv'
    BY <2>1, <2>2, <2>3 DEF StartInv, TypeOK, LoopInv, Ahead, Complete, Started, Up
  <2>5. QED BY <1>1, <1>6, <2>4 DEF Register, StartInv, WriterAssigned, NothingMissing
<1>7. CASE BeginReceive
  <2>1. LoopInv'
    BY <1>7 DEF BeginReceive, StartInv, TypeOK, LoopInv, Complete, Started, Up
  <2>2. QED BY <1>1, <1>7, <2>1 DEF BeginReceive, StartInv, WriterAssigned, NothingMissing
<1>8. QED BY <1>2, <1>3, <1>4, <1>5, <1>6, <1>7 DEF Main

\* The steps of a worker.
LEMMA StartInvWorker ==
  ASSUME StartInv, NEW w \in WorkerIds, Lookup(w) \/ LookupRaces(w) \/ ServeMessage(w)
  PROVE  StartInv'
<1> USE WorkerIdsFacts
<1>1. TypeOK'
  BY TypeOKStep DEF StartInv, Next
<1>2. CASE Lookup(w)
  <2>1. w[2] < outputs[w[1]]
    BY <1>2 DEF Lookup, StartInv, WriterAssigned
  <2>2. wpc' = [wpc EXCEPT ![w] = "serve"] /\ wpc[w] = "lookup" /\ UNCHANGED main
    BY <1>2, <2>1 DEF Lookup
  <2>3. \A v \in WorkerIds : wpc'[v] # "none" <=> wpc[v] # "none"
    BY <2>2 DEF StartInv, TypeOK
  <2>4. \A o \in Outputs, k \in Nat : k < WorkerCount[o] => (Started(o, k)' <=> Started(o, k))
    BY <2>3 DEF Started
  <2>5. LoopInv'
    BY <1>2, <2>2, <2>4 DEF Lookup, StartInv, TypeOK, LoopInv, Ahead, AtWork, Complete, Up
  <2>6. QED BY <1>1, <1>2, <2>2, <2>3, <2>5 DEF Lookup, StartInv, WriterAssigned, NothingMissing
<1>3. CASE LookupRaces(w)
  BY <1>1, <1>3 DEF LookupRaces, StartInv, LoopInv, WriterAssigned, NothingMissing, Up
<1>4. CASE ServeMessage(w)
  <2>1. w[1] \in metrics
    <3>1. main = "receive" /\ w[1] \in Outputs
      BY <1>4 DEF ServeMessage
    <3>2. Complete(w[1])
      BY <3>1, StartupAssumption DEF StartInv, LoopInv, Up
    <3>3. QED BY <3>2 DEF Complete
  <2>2. UNCHANGED vars
    BY <1>4, <2>1 DEF ServeMessage, vars
  <2>3. QED BY <1>1, <2>2
     DEF vars, StartInv, LoopInv, Ahead, AtWork, Complete, Started, WriterAssigned,
         NothingMissing, Up
<1>5. QED BY <1>2, <1>3, <1>4

LEMMA StartInvStep == StartInv /\ [Next]_vars => StartInv'
<1> SUFFICES ASSUME StartInv, [Next]_vars PROVE StartInv'
  OBVIOUS
<1>1. TypeOK'
  BY TypeOKStep DEF StartInv
<1>2. CASE OpenFails
  BY <1>1, <1>2 DEF OpenFails, StartInv, LoopInv, WriterAssigned, NothingMissing, Up
<1>3. CASE UNCHANGED vars
  BY <1>1, <1>3
     DEF vars, StartInv, LoopInv, Ahead, AtWork, Complete, Started, WriterAssigned,
         NothingMissing, Up
<1>4. QED BY <1>2, <1>3, StartInvMain, StartInvWorker DEF Next, Stopped

LEMMA StartInvCorrect == Spec => []StartInv
BY StartInvInit, StartInvStep, PTL DEF Spec

\* However main and the workers it has started interleave, no worker finds its
\* writer or its timer missing.
THEOREM NothingMissingCorrect == Spec => []NothingMissing
BY StartInvCorrect, PTL DEF StartInv

\* When main receives, every output has its channel, its timer and all of its
\* workers and writers, in whatever order it visited them.
THEOREM ReadyToReceiveCorrect == Spec => []ReadyToReceive
<1>1. StartInv => ReadyToReceive
  <2> SUFFICES ASSUME StartInv, main = "receive"
               PROVE  /\ output_channels = Outputs /\ metrics = Outputs
                      /\ outputs = WorkerCount
                      /\ \A w \in WorkerIds : wpc[w] # "none"
    BY DEF ReadyToReceive
  <2>1. \A o \in Outputs : Complete(o)
    BY StartupAssumption DEF StartInv, LoopInv, Up
  <2>2. output_channels = Outputs /\ metrics = Outputs
    BY <2>1 DEF StartInv, TypeOK, Complete
  <2>3. outputs = WorkerCount
    BY <2>1, StartupAssumption DEF StartInv, TypeOK, Complete
  <2>4. \A w \in WorkerIds : wpc[w] # "none"
    BY <2>1, WorkerIdsFacts DEF Complete, Started
  <2>5. QED BY <2>2, <2>3, <2>4
<1>2. QED BY <1>1, StartInvCorrect, PTL
=============================================================================

-------------------------- MODULE OgrtServerProofs --------------------------
(***************************************************************************)
(* What holds of OgrtServer for every number of datagrams, outputs and     *)
(* workers, every buffer and every payload.                                *)
(***************************************************************************)
EXTENDS OgrtServer, FiniteSetTheorems, TLAPS

-----------------------------------------------------------------------------
(* Type correctness.                                                       *)

\* A worker that persists has a message to persist.
BusyHasMessage == \A w \in Workers : wpc[w] # "idle" => wmsg[w] \in Datagrams

\* A handler that decodes was given a slice within the buffer.
DecodesWithinBuffer == \A d \in Datagrams : hpc[d] = "decode" => SliceFits(d)

TypeInv == TypeOK /\ BusyHasMessage /\ DecodesWithinBuffer

LEMMA TypeInvInit == Init => TypeInv
  BY ServerAssumption
     DEF Init, TypeInv, TypeOK, BusyHasMessage, DecodesWithinBuffer, HandlerStates

\* The steps of main and of the signal goroutine.
LEMMA TypeInvMain ==
  ASSUME TypeInv,
         \/ \E d \in Datagrams : Receive(d)
         \/ MainReturns
         \/ CatchSignal
         \/ CloseWriters
         \/ UNCHANGED vars
  PROVE  TypeInv'
<1> USE ServerAssumption
<1>1. ASSUME NEW d \in Datagrams, Receive(d) PROVE TypeInv'
  <2>1. packet_buffer' \in [1..BufCells -> Messages \cup {None}]
    BY <1>1 DEF Receive, Overwrite, TypeInv, TypeOK
  <2>2. hpc' \in [Datagrams -> HandlerStates]
    <3>1. hpc' = [hpc EXCEPT ![d] = "decode"] \/ hpc' = hpc
      BY <1>1, Zenon DEF Receive
    <3>2. hpc \in [Datagrams -> HandlerStates] /\ "decode" \in HandlerStates
      BY DEF TypeInv, TypeOK, HandlerStates
    <3>3. QED BY <3>1, <3>2
  <2>3. TypeOK'
    BY <1>1, <2>1, <2>2 DEF Receive, TypeInv, TypeOK, fanoutVars, workerVars, storeVars
  <2>4. DecodesWithinBuffer'
    BY <1>1 DEF Receive, TypeInv, TypeOK, DecodesWithinBuffer, SliceFits, PayloadLen
  <2>5. BusyHasMessage'
    BY <1>1 DEF Receive, TypeInv, BusyHasMessage, workerVars
  <2>6. QED BY <2>3, <2>4, <2>5 DEF TypeInv
<1>2. CASE MainReturns
  BY <1>2 DEF MainReturns, TypeInv, TypeOK, BusyHasMessage, DecodesWithinBuffer, SliceFits,
     PayloadLen, socketVars, decodeVars, fanoutVars, workerVars, storeVars
<1>3. CASE CatchSignal
  BY <1>3 DEF CatchSignal, TypeInv, TypeOK, BusyHasMessage, DecodesWithinBuffer, SliceFits,
     PayloadLen, decodeVars, fanoutVars, workerVars, storeVars
<1>4. CASE CloseWriters
  BY <1>4 DEF CloseWriters, TypeInv, TypeOK, BusyHasMessage, DecodesWithinBuffer, SliceFits,
     PayloadLen, socketVars, decodeVars, fanoutVars, workerVars, storeVars
<1>5. CASE UNCHANGED vars
  BY <1>5 DEF vars, TypeInv, TypeOK, BusyHasMessage, DecodesWithinBuffer, SliceFits,
     PayloadLen, socketVars, decodeVars, fanoutVars, workerVars, storeVars
<1>6. QED BY <1>1, <1>2, <1>3, <1>4, <1>5

\* The steps of a handler goroutine.
LEMMA TypeInvHandler ==
  ASSUME TypeInv, NEW d \in Datagrams, Handler(d)
  PROVE  TypeInv'
<1> USE ServerAssumption
<1> USE DEF TypeInv, TypeOK, BusyHasMessage, DecodesWithinBuffer, SliceFits,
            PayloadLen, socketVars, decodeVars, fanoutVars, workerVars, storeVars
<1>1. CASE IgnoreType(d)
  BY <1>1 DEF IgnoreType, HandlerStates
<1>2. CASE ReadCell(d)
  <2>1. pos[d] + 1 \in 1..BufCells
    BY <1>2 DEF ReadCell
  <2>2. QED BY <1>2, <2>1 DEF ReadCell
<1>3. CASE Decode(d)
  <2>1. Parse(d) \subseteq Messages \cup {Garbled, None}
    BY DEF Parse
  <2>2. PICK m \in Parse(d) :
          /\ msg' = [msg EXCEPT ![d] = m]
          /\ hpc' = [hpc EXCEPT ![d] = IF m = None THEN "failed" ELSE "fanout"]
          /\ todo' = [todo EXCEPT ![d] = IF m = None THEN {} ELSE Outputs]
    BY <1>3 DEF Decode
  <2>3. QED BY <1>3, <2>1, <2>2 DEF Decode, HandlerStates
<1>4. CASE NextChannel(d)
  BY <1>4 DEF NextChannel, HandlerStates
<1>5. CASE HandlerReturns(d)
  BY <1>5 DEF HandlerReturns, HandlerStates
<1>6. ASSUME NEW w \in Workers, Deliver(d, w) PROVE TypeInv'
  BY <1>6 DEF Deliver, PersistStart, HandlerStates
<1>7. QED BY <1>1, <1>2, <1>3, <1>4, <1>5, <1>6 DEF Handler

\* The steps of a worker goroutine.
LEMMA TypeInvWorker ==
  ASSUME TypeInv, NEW w \in Workers, Worker(w)
  PROVE  TypeInv'
<1> USE ServerAssumption
<1> USE DEF TypeInv, TypeOK, BusyHasMessage, DecodesWithinBuffer, SliceFits,
            PayloadLen, socketVars, decodeVars, fanoutVars, workerVars, storeVars
<1>1. CASE LoadTime(w)
  BY <1>1 DEF LoadTime
<1>2. CASE StoreTime(w)
  BY <1>2 DEF StoreTime
<1>3. CASE WriteRecord(w)
  BY <1>3 DEF WriteRecord
<1>4. CASE WriteFails(w)
  BY <1>4 DEF WriteFails, Breaks
<1>5. CASE WritePanics(w)
  BY <1>5 DEF WritePanics
<1>6. QED BY <1>1, <1>2, <1>3, <1>4, <1>5 DEF Worker

LEMMA TypeInvStep == TypeInv /\ [Next]_vars => TypeInv'
  BY TypeInvMain, TypeInvHandler, TypeInvWorker DEF Next, Terminated

\* The type invariant holds for every value of the constants.
THEOREM TypeCorrect == Spec => []TypeOK
<1>1. Spec => []TypeInv
  BY TypeInvInit, TypeInvStep, PTL DEF Spec
<1>2. QED BY <1>1, PTL DEF TypeInv

-----------------------------------------------------------------------------
(* The payload a handler decodes.                                          *)

\* A handler that was not started has seen nothing.
Unstarted(d) ==
  pos[d] = 0 /\ seen[d] = {} /\ msg[d] = None /\ ~clobbered[d]

\* The slice of a handler holds the payload of its datagram, and only that has
\* been seen in it.
Intact(d) ==
  /\ \A c \in 1..PayloadLen(d) : packet_buffer[c] = MsgOf[d]
  /\ seen[d] = IF pos[d] = 0 THEN {} ELSE {MsgOf[d]}

PayloadInv ==
  \A d \in Datagrams :
    /\ hpc[d] = "none" => Unstarted(d)
    /\ hpc[d] = "decode" => msg[d] = None
    /\ hpc[d] = "decode" /\ ~clobbered[d] => Intact(d)
    /\ ~clobbered[d] => hpc[d] # "failed" /\ msg[d] \in {None, MsgOf[d]}

LEMMA PayloadInvInit == Init => PayloadInv
  BY ServerAssumption DEF Init, PayloadInv, Unstarted

\* A datagram is received: its own slice holds its payload, and any handler
\* that is decoding is marked.
LEMMA PayloadInvReceive ==
  ASSUME TypeInv, PayloadInv, NEW d \in Datagrams, Receive(d)
  PROVE  PayloadInv'
<1> USE ServerAssumption
<1>1. /\ hpc[d] = "none"
      /\ packet_buffer' = Overwrite(packet_buffer, d)
      /\ UNCHANGED <<pos, seen, msg>>
  BY DEF Receive
<1>2. \/ SliceFits(d) /\ hpc' = [hpc EXCEPT ![d] = "decode"]
      \/ hpc' = hpc
  BY Zenon DEF Receive
<1>3. \A e \in Datagrams : clobbered'[e] <=> (clobbered[e] \/ hpc[e] = "decode")
  BY DEF Receive
<1>4. hpc \in [Datagrams -> HandlerStates]
  BY DEF TypeInv, TypeOK
<1>5. SUFFICES ASSUME NEW e \in Datagrams
               PROVE  /\ hpc'[e] = "none" => Unstarted(e)'
                      /\ hpc'[e] = "decode" => msg'[e] = None
                      /\ hpc'[e] = "decode" /\ ~clobbered'[e] => Intact(e)'
                      /\ ~clobbered'[e] => hpc'[e] # "failed"
                                          /\ msg'[e] \in {None, MsgOf[e]}
  BY DEF PayloadInv
<1>6. CASE hpc'[e] = hpc[e]
  BY <1>1, <1>3, <1>6 DEF PayloadInv, Unstarted
<1>7. CASE hpc'[e] # hpc[e]
  <2>1. e = d /\ hpc'[d] = "decode" /\ SliceFits(d)
    BY <1>2, <1>4, <1>7
  <2>2. Unstarted(d) /\ ~clobbered'[d]
    BY <1>1, <1>3 DEF PayloadInv, Unstarted
  <2>3. \A c \in 1..PayloadLen(d) : packet_buffer'[c] = MsgOf[d]
    BY <1>1, <2>1 DEF Overwrite, SliceFits, PayloadLen
  <2>4. Intact(d)'
    BY <1>1, <2>2, <2>3 DEF Intact, Unstarted, PayloadLen
  <2>5. QED BY <1>1, <2>1, <2>2, <2>4 DEF Unstarted
<1>8. QED BY <1>6, <1>7

\* A handler reads one more cell of its slice.
LEMMA PayloadInvReadCell ==
  ASSUME TypeInv, PayloadInv, NEW d \in Datagrams, ReadCell(d)
  PROVE  PayloadInv'
<1> USE ServerAssumption
<1>1. /\ hpc[d] = "decode" /\ pos[d] < PayloadLen(d)
      /\ pos' = [pos EXCEPT ![d] = @ + 1]
      /\ seen' = [seen EXCEPT ![d] = @ \cup {packet_buffer[pos[d] + 1]}]
      /\ UNCHANGED <<packet_buffer, hpc, msg, clobbered>>
  BY DEF ReadCell, socketVars
<1>2. pos \in [Datagrams -> Nat] /\ PayloadLen(d) \in Nat
  BY DEF TypeInv, TypeOK, PayloadLen
<1>3. DOMAIN seen = Datagrams
  BY DEF TypeInv, TypeOK
<1>4. ~clobbered[d] => Intact(d)'
  <2>1. ASSUME ~clobbered[d] PROVE Intact(d)'
    <3>1. Intact(d)
      BY <1>1, <2>1 DEF PayloadInv
    <3>2. packet_buffer[pos[d] + 1] = MsgOf[d]
      BY <1>1, <1>2, <3>1 DEF Intact
    <3>3. seen'[d] = {MsgOf[d]}
      BY <1>1, <1>3, <3>1, <3>2 DEF Intact
    <3>4. pos'[d] # 0
      BY <1>1, <1>2
    <3>5. QED BY <1>1, <3>1, <3>3, <3>4 DEF Intact, PayloadLen
  <2>2. QED BY <2>1
<1>5. ASSUME NEW e \in Datagrams, e # d
      PROVE  pos'[e] = pos[e] /\ seen'[e] = seen[e]
  BY <1>1, <1>2, <1>3, <1>5
<1>6. ASSUME NEW e \in Datagrams, e # d
      PROVE  (Unstarted(e)' <=> Unstarted(e)) /\ (Intact(e)' <=> Intact(e))
  BY <1>1, <1>5, <1>6 DEF Unstarted, Intact, PayloadLen
<1>7. ASSUME NEW e \in Datagrams
      PROVE  /\ hpc'[e] = "none" => Unstarted(e)'
             /\ hpc'[e] = "decode" => msg'[e] = None
             /\ hpc'[e] = "decode" /\ ~clobbered'[e] => Intact(e)'
             /\ ~clobbered'[e] => hpc'[e] # "failed" /\ msg'[e] \in {None, MsgOf[e]}
  <2>1. CASE e = d
    BY <1>1, <1>4, <2>1 DEF PayloadInv
  <2>2. CASE e # d
    BY <1>1, <1>6, <2>2 DEF PayloadInv
  <2>3. QED BY <2>1, <2>2
<1>8. QED BY <1>7 DEF PayloadInv

\* Unmarshal returns what was seen: an intact payload as it is.
LEMMA PayloadInvDecode ==
  ASSUME TypeInv, PayloadInv, NEW d \in Datagrams, Decode(d)
  PROVE  PayloadInv'
<1> USE ServerAssumption
<1>1. /\ hpc[d] = "decode" /\ pos[d] = PayloadLen(d)
      /\ HeaderType(d) = "ProcessInfoMsg"
      /\ UNCHANGED <<packet_buffer, pos, seen, clobbered>>
  BY DEF Decode, socketVars
<1>2. PICK m \in Parse(d) :
        /\ msg' = [msg EXCEPT ![d] = m]
        /\ hpc' = [hpc EXCEPT ![d] = IF m = None THEN "failed" ELSE "fanout"]
  BY DEF Decode
<1>3. ~clobbered[d] => m = MsgOf[d]
  <2>1. ASSUME ~clobbered[d] PROVE m = MsgOf[d]
    <3>1. Intact(d)
      BY <1>1, <2>1 DEF PayloadInv
    <3>2. seen[d] = {MsgOf[d]}
      BY <1>1, <3>1 DEF Intact, PayloadLen
    <3>3. Parse(d) = { IF MsgType[n] = "ProcessInfoMsg" THEN n ELSE None : n \in seen[d] }
      BY <3>2 DEF Parse, PayloadLen
    <3>4. QED BY <1>1, <3>2, <3>3 DEF HeaderType
  <2>2. QED BY <2>1
<1>4. MsgOf[d] # None
  OBVIOUS
<1>5. hpc \in [Datagrams -> HandlerStates] /\ DOMAIN msg = Datagrams
  BY DEF TypeInv, TypeOK
<1>6. /\ msg'[d] = m
      /\ hpc'[d] = IF m = None THEN "failed" ELSE "fanout"
      /\ \A e \in Datagrams : e # d => msg'[e] = msg[e] /\ hpc'[e] = hpc[e]
  BY <1>2, <1>5
<1>7. ASSUME NEW e \in Datagrams
      PROVE  /\ hpc'[e] = "none" => Unstarted(e)'
             /\ hpc'[e] = "decode" => msg'[e] = None
             /\ hpc'[e] = "decode" /\ ~clobbered'[e] => Intact(e)'
             /\ ~clobbered'[e] => hpc'[e] # "failed" /\ msg'[e] \in {None, MsgOf[e]}
  <2>1. CASE e = d
    BY <1>1, <1>3, <1>4, <1>6, <2>1
  <2>2. CASE e # d
    <3>1. (Unstarted(e)' <=> Unstarted(e)) /\ (Intact(e)' <=> Intact(e))
      BY <1>1, <1>6, <2>2 DEF Unstarted, Intact, PayloadLen
    <3>2. QED BY <1>1, <1>6, <2>2, <3>1 DEF PayloadInv
  <2>3. QED BY <2>1, <2>2
<1>8. QED BY <1>7 DEF PayloadInv

\* All other steps leave the buffer, the cells seen and the messages alone.
LEMMA PayloadInvOther ==
  ASSUME TypeInv, PayloadInv,
         UNCHANGED <<packet_buffer, pos, seen, msg, clobbered>>,
         \A e \in Datagrams :
           \/ hpc'[e] = hpc[e]
           \/ hpc'[e] \notin {"none", "decode", "failed"}
  PROVE  PayloadInv'
  BY DEF PayloadInv, Unstarted, Intact, PayloadLen

LEMMA PayloadInvStep == TypeInv /\ PayloadInv /\ [Next]_vars => PayloadInv'
<1> SUFFICES ASSUME TypeInv, PayloadInv, [Next]_vars PROVE PayloadInv'
  OBVIOUS
<1> USE DEF socketVars, decodeVars, fanoutVars, workerVars, storeVars
<1>1. hpc \in [Datagrams -> HandlerStates]
  BY DEF TypeInv, TypeOK
<1>2. ASSUME NEW d \in Datagrams, Handler(d) PROVE PayloadInv'
  <2>1. CASE IgnoreType(d)
    BY <1>1, <2>1, PayloadInvOther DEF IgnoreType
  <2>2. CASE NextChannel(d)
    BY <1>1, <2>2, PayloadInvOther DEF NextChannel
  <2>3. CASE HandlerReturns(d)
    BY <1>1, <2>3, PayloadInvOther DEF HandlerReturns
  <2>4. ASSUME NEW w \in Workers, Deliver(d, w) PROVE PayloadInv'
    BY <1>1, <2>4, PayloadInvOther DEF Deliver
  <2>5. QED
    BY <1>2, <2>1, <2>2, <2>3, <2>4, PayloadInvReadCell, PayloadInvDecode DEF Handler
<1>3. ASSUME NEW w \in Workers, Worker(w) PROVE PayloadInv'
  <2>1. UNCHANGED <<packet_buffer, hpc, pos, seen, msg, clobbered>>
    BY <1>3 DEF Worker, LoadTime, StoreTime, WriteRecord, WriteFails, WritePanics
  <2>2. QED BY <2>1, PayloadInvOther
<1>4. CASE MainReturns \/ CatchSignal \/ CloseWriters \/ UNCHANGED vars
  <2>1. UNCHANGED <<packet_buffer, hpc, pos, seen, msg, clobbered>>
    BY <1>4 DEF MainReturns, CatchSignal, CloseWriters, vars
  <2>2. QED BY <2>1, PayloadInvOther
<1>5. QED
  BY <1>2, <1>3, <1>4, PayloadInvReceive DEF Next, Terminated

\* Only an overwritten slice makes a handler fail or decode the message of
\* another datagram.
THEOREM PayloadCorrect == Spec => []DecodesOwnPayload
<1>1. PayloadInv => DecodesOwnPayload
  BY DEF PayloadInv, DecodesOwnPayload
<1>2. Spec => [](TypeInv /\ PayloadInv)
  BY TypeInvInit, TypeInvStep, PayloadInvInit, PayloadInvStep, PTL DEF Spec
<1>3. QED BY <1>1, <1>2, PTL

-----------------------------------------------------------------------------
(* The way of a message to the outputs.                                    *)

Undecoded == {"none", "decode", "ignored", "failed"}

\* Where a handler is tells which channels it has yet to send on.
HandlerInv ==
  \A d \in Datagrams :
    /\ msg[d] = None <=> hpc[d] \in Undecoded
    /\ hpc[d] \in Undecoded \cup {"done"} => todo[d] = {}
    /\ hpc[d] = "blocked" <=> chan[d] # None
    /\ chan[d] \notin todo[d]

IdleHasNone == \A w \in Workers : wpc[w] = "idle" => wmsg[w] = None

PlaceInv == InOnePlace /\ RecordedOnce /\ HandlerInv /\ IdleHasNone

LEMMA PlaceInvInit == Init => PlaceInv
<1> SUFFICES ASSUME Init PROVE PlaceInv
  OBVIOUS
<1> USE ServerAssumption DEF Init
<1>1. InOnePlace
  BY DEF InOnePlace, Waiting, Held, Recorded, Lost
<1>2. RecordedOnce
  BY DEF RecordedOnce
<1>3. HandlerInv /\ IdleHasNone
  BY DEF HandlerInv, IdleHasNone, Undecoded
<1>4. QED BY <1>1, <1>2, <1>3 DEF PlaceInv

\* Steps that move no message: a handler that has none stays without, and one
\* that returns has nothing left to send.
LEMMA PlaceInvOther ==
  ASSUME PlaceInv,
         UNCHANGED <<msg, todo, chan, wmsg, log, lost>>,
         \A d \in Datagrams :
           \/ hpc'[d] = hpc[d]
           \/ hpc[d] \in Undecoded /\ hpc'[d] \in Undecoded
           \/ hpc[d] = "fanout" /\ hpc'[d] = "done" /\ todo[d] = {},
         \A w \in Workers : wpc'[w] = "idle" => wpc[w] = "idle"
  PROVE  PlaceInv'
<1>1. InOnePlace'
  BY DEF PlaceInv, InOnePlace, Waiting, Held, Recorded, Lost
<1>2. RecordedOnce'
  BY DEF PlaceInv, RecordedOnce
<1>3. HandlerInv'
  BY DEF PlaceInv, HandlerInv, Undecoded
<1>4. IdleHasNone'
  BY DEF PlaceInv, IdleHasNone
<1>5. QED BY <1>1, <1>2, <1>3, <1>4 DEF PlaceInv

\* A decoded message waits for every output, an undecoded one for none.
LEMMA PlaceInvDecode ==
  ASSUME TypeInv, PlaceInv, NEW d \in Datagrams, Decode(d)
  PROVE  PlaceInv'
<1> USE ServerAssumption
<1>1. PICK m \in Parse(d) :
        /\ msg' = [msg EXCEPT ![d] = m]
        /\ hpc' = [hpc EXCEPT ![d] = IF m = None THEN "failed" ELSE "fanout"]
        /\ todo' = [todo EXCEPT ![d] = IF m = None THEN {} ELSE Outputs]
  BY DEF Decode
<1>2. hpc[d] = "decode" /\ UNCHANGED <<chan, wmsg, wpc, log, lost>>
  BY DEF Decode, workerVars, storeVars
<1>3. /\ DOMAIN msg = Datagrams /\ DOMAIN hpc = Datagrams
      /\ DOMAIN todo = Datagrams
  BY DEF TypeInv, TypeOK
<1>4. /\ msg'[d] = m
      /\ hpc'[d] = IF m = None THEN "failed" ELSE "fanout"
      /\ todo'[d] = IF m = None THEN {} ELSE Outputs
      /\ \A e \in Datagrams : e # d =>
           msg'[e] = msg[e] /\ hpc'[e] = hpc[e] /\ todo'[e] = todo[e]
  BY <1>1, <1>3
<1>5. msg[d] = None /\ chan[d] = None
  BY <1>2 DEF PlaceInv, HandlerInv, Undecoded
<1>6. InOnePlace'
  <2>1. ASSUME NEW o \in Outputs
        PROVE  ~Held(o, d)' /\ ~Recorded(o, d)' /\ ~Lost(o, d)'
               /\ (Waiting(o, d)' <=> m # None)
    BY <1>2, <1>4, <1>5 DEF PlaceInv, InOnePlace, Waiting, Held, Recorded, Lost
  <2>2. ASSUME NEW e \in Datagrams, e # d, NEW o \in Outputs
        PROVE  /\ Waiting(o, e)' <=> Waiting(o, e)
               /\ Held(o, e)' <=> Held(o, e)
               /\ Recorded(o, e)' <=> Recorded(o, e)
               /\ Lost(o, e)' <=> Lost(o, e)
    BY <1>2, <1>4, <2>2 DEF Waiting, Held, Recorded, Lost
  <2>3. QED BY <1>4, <2>1, <2>2 DEF PlaceInv, InOnePlace
<1>7. RecordedOnce'
  BY <1>2 DEF PlaceInv, RecordedOnce
<1>8. HandlerInv'
  BY <1>2, <1>4, <1>5 DEF PlaceInv, HandlerInv, Undecoded
<1>9. IdleHasNone'
  BY <1>2 DEF PlaceInv, IdleHasNone
<1>10. QED BY <1>6, <1>7, <1>8, <1>9 DEF PlaceInv

\* The output stays among those the message waits for.
LEMMA PlaceInvNextChannel ==
  ASSUME TypeInv, PlaceInv, NEW d \in Datagrams, NextChannel(d)
  PROVE  PlaceInv'
<1> USE ServerAssumption
<1>1. PICK o \in todo[d] : /\ chan' = [chan EXCEPT ![d] = o]
                           /\ todo' = [todo EXCEPT ![d] = @ \ {o}]
  BY DEF NextChannel
<1>2. /\ hpc[d] = "fanout" /\ hpc' = [hpc EXCEPT ![d] = "blocked"]
      /\ UNCHANGED <<msg, wmsg, wpc, log, lost>>
  BY DEF NextChannel, decodeVars, workerVars, storeVars
<1>3. /\ DOMAIN chan = Datagrams /\ DOMAIN hpc = Datagrams
      /\ DOMAIN todo = Datagrams /\ todo[d] \subseteq Outputs
  BY DEF TypeInv, TypeOK
<1>4. /\ chan'[d] = o /\ hpc'[d] = "blocked" /\ todo'[d] = todo[d] \ {o}
      /\ \A e \in Datagrams : e # d =>
           chan'[e] = chan[e] /\ hpc'[e] = hpc[e] /\ todo'[e] = todo[e]
  BY <1>1, <1>2, <1>3
<1>5. chan[d] = None /\ o # None
  BY <1>1, <1>2, <1>3 DEF PlaceInv, HandlerInv
<1>6. InOnePlace'
  <2>1. ASSUME NEW e \in Datagrams, NEW p \in Outputs
        PROVE  /\ Waiting(p, e)' <=> Waiting(p, e)
               /\ Held(p, e)' <=> Held(p, e)
               /\ Recorded(p, e)' <=> Recorded(p, e)
               /\ Lost(p, e)' <=> Lost(p, e)
    BY <1>2, <1>4, <1>5 DEF Waiting, Held, Recorded, Lost
  <2>2. QED BY <1>2, <2>1 DEF PlaceInv, InOnePlace
<1>7. RecordedOnce'
  BY <1>2 DEF PlaceInv, RecordedOnce
<1>8. HandlerInv'
  BY <1>2, <1>4, <1>5 DEF PlaceInv, HandlerInv, Undecoded
<1>9. IdleHasNone'
  BY <1>2 DEF PlaceInv, IdleHasNone
<1>10. QED BY <1>6, <1>7, <1>8, <1>9 DEF PlaceInv

\* The message goes from the handler to a worker that had none.
LEMMA PlaceInvDeliver ==
  ASSUME TypeInv, PlaceInv, NEW d \in Datagrams, NEW w \in Workers, Deliver(d, w)
  PROVE  PlaceInv'
<1> USE ServerAssumption
<1>1. /\ hpc[d] = "blocked" /\ chan[d] = OutputOf[w] /\ wpc[w] = "idle"
      /\ hpc' = [hpc EXCEPT ![d] = "fanout"]
      /\ chan' = [chan EXCEPT ![d] = None]
      /\ wpc' = [wpc EXCEPT ![w] = PersistStart(OutputOf[w])]
      /\ wmsg' = [wmsg EXCEPT ![w] = d]
      /\ UNCHANGED <<msg, todo, log, lost>>
  BY DEF Deliver, decodeVars, storeVars
<1>2. /\ DOMAIN chan = Datagrams /\ DOMAIN hpc = Datagrams
      /\ DOMAIN wpc = Workers /\ DOMAIN wmsg = Workers
  BY DEF TypeInv, TypeOK
<1>3. /\ chan'[d] = None /\ hpc'[d] = "fanout"
      /\ \A e \in Datagrams : e # d => chan'[e] = chan[e] /\ hpc'[e] = hpc[e]
  BY <1>1, <1>2
<1>4. /\ wmsg'[w] = d /\ wpc'[w] # "idle"
      /\ \A v \in Workers : v # w => wmsg'[v] = wmsg[v] /\ wpc'[v] = wpc[v]
  BY <1>1, <1>2 DEF PersistStart
<1>5. wmsg[w] = None /\ OutputOf[w] \in Outputs /\ OutputOf[w] \notin todo[d]
  BY <1>1 DEF PlaceInv, IdleHasNone, HandlerInv
<1>6. Waiting(OutputOf[w], d)
  BY <1>1 DEF Waiting
<1>7. ~Held(OutputOf[w], d) /\ ~Recorded(OutputOf[w], d) /\ ~Lost(OutputOf[w], d)
  BY <1>5, <1>6 DEF PlaceInv, InOnePlace
<1>8. InOnePlace'
  <2>1. ~Waiting(OutputOf[w], d)' /\ Held(OutputOf[w], d)'
    BY <1>1, <1>3, <1>4, <1>5 DEF Waiting, Held
  <2>2. ASSUME NEW e \in Datagrams, NEW p \in Outputs, e # d \/ p # OutputOf[w]
        PROVE  (Waiting(p, e)' <=> Waiting(p, e)) /\ (Held(p, e)' <=> Held(p, e))
    <3>1. Waiting(p, e)' <=> Waiting(p, e)
      BY <1>1, <1>3, <2>2 DEF Waiting
    <3>2. Held(p, e)' <=> Held(p, e)
      BY <1>4, <1>5, <2>2 DEF Held
    <3>3. QED BY <3>1, <3>2
  <2>3. ASSUME NEW e \in Datagrams, NEW p \in Outputs
        PROVE  (Recorded(p, e)' <=> Recorded(p, e)) /\ (Lost(p, e)' <=> Lost(p, e))
    BY <1>1 DEF Recorded, Lost
  <2>4. msg' = msg
    BY <1>1
  <2>5. QED BY <1>6, <1>7, <2>1, <2>2, <2>3, <2>4 DEF PlaceInv, InOnePlace
<1>9. RecordedOnce'
  <2>1. \A v \in Workers : OutputOf[v] = OutputOf[w] => wmsg[v] # d
    BY <1>7 DEF Held
  <2>2. QED BY <1>1, <1>4, <2>1 DEF PlaceInv, RecordedOnce
<1>10. HandlerInv'
  <2>1. None \notin todo[d]
    BY DEF TypeInv, TypeOK
  <2>2. QED BY <1>1, <1>3, <2>1 DEF PlaceInv, HandlerInv, Undecoded
<1>11. IdleHasNone'
  BY <1>4 DEF PlaceInv, IdleHasNone
<1>12. QED BY <1>8, <1>9, <1>10, <1>11 DEF PlaceInv

\* A worker lets its message go when it is recorded, or reported as lost.
LEMMA PlaceInvSettle ==
  ASSUME TypeInv, PlaceInv, NEW w \in Workers, WriteRecord(w) \/ WriteFails(w)
  PROVE  PlaceInv'
<1> DEFINE o == OutputOf[w]
<1> USE ServerAssumption
<1>1. /\ wpc[w] = "write"
      /\ wpc' = [wpc EXCEPT ![w] = "idle"]
      /\ wmsg' = [wmsg EXCEPT ![w] = None]
      /\ UNCHANGED <<hpc, msg, todo, chan>>
  BY DEF WriteRecord, WriteFails, decodeVars, fanoutVars
<1>2. PICK d \in Datagrams : d = wmsg[w] /\ d # None /\ o \in Outputs
  BY <1>1 DEF TypeInv, BusyHasMessage
<1>3. /\ wmsg'[w] = None
      /\ \A v \in Workers : v # w => wmsg'[v] = wmsg[v] /\ wpc'[v] = wpc[v]
  BY <1>1 DEF TypeInv, TypeOK
<1>4. Held(o, d)
  BY <1>2 DEF Held
<1>5. ~Waiting(o, d) /\ ~Recorded(o, d) /\ ~Lost(o, d) /\ msg[d] # None
  BY <1>2, <1>4 DEF PlaceInv, InOnePlace
<1>6. ~Held(o, d)'
  <2>1. \A v \in Workers : OutputOf[v] = o /\ wmsg[v] = d => v = w
    BY <1>2 DEF PlaceInv, RecordedOnce
  <2>2. QED BY <1>2, <1>3, <2>1 DEF Held
<1>7. ASSUME NEW e \in Datagrams, NEW p \in Outputs, e # d \/ p # o
      PROVE  /\ Held(p, e)' <=> Held(p, e)
             /\ Recorded(p, e)' <=> Recorded(p, e)
             /\ Lost(p, e)' <=> Lost(p, e)
             /\ log'[p][e] = log[p][e]
  <2>1. Held(p, e)' <=> Held(p, e)
    <3>1. \A v \in Workers : OutputOf[v] = p /\ wmsg[v] = e => v # w
      BY <1>2, <1>7
    <3>2. e # None
      OBVIOUS
    <3>3. QED BY <1>3, <3>1, <3>2 DEF Held
  <2>2. CASE WriteRecord(w)
    <3>1. log' = [log EXCEPT ![o][d] = Append(@, time[d])] /\ lost' = lost
      BY <1>2, <2>2 DEF WriteRecord
    <3>2. log'[p][e] = log[p][e]
      BY <1>2, <1>7, <3>1 DEF TypeInv, TypeOK
    <3>3. QED BY <2>1, <3>1, <3>2 DEF Recorded, Lost
  <2>3. CASE WriteFails(w)
    <3>1. lost' = [lost EXCEPT ![o] = @ \cup {d}] /\ log' = log
      BY <1>2, <2>3 DEF WriteFails
    <3>2. e \in lost'[p] <=> e \in lost[p]
      BY <1>2, <1>7, <3>1 DEF TypeInv, TypeOK
    <3>3. QED BY <2>1, <3>1, <3>2 DEF Recorded, Lost
  <2>4. QED BY <2>2, <2>3
<1>8. /\ Recorded(o, d)' <=> ~Lost(o, d)'
      /\ Len(log'[o][d]) <= 1
  <2>1. log[o][d] = <<>> /\ d \notin lost[o]
    BY <1>5 DEF Recorded, Lost
  <2>2. CASE WriteRecord(w)
    <3>1. log' = [log EXCEPT ![o][d] = Append(@, time[d])] /\ lost' = lost
      BY <1>2, <2>2 DEF WriteRecord
    <3>2. log'[o][d] = Append(log[o][d], time[d])
      BY <1>2, <3>1 DEF TypeInv, TypeOK
    <3>3. log[o][d] \in Seq(Nat) /\ time[d] \in Nat
      BY <1>2 DEF TypeInv, TypeOK
    <3>4. Len(log'[o][d]) = 1 /\ log'[o][d] # <<>>
      BY <2>1, <3>2, <3>3
    <3>5. QED BY <2>1, <3>1, <3>4 DEF Recorded, Lost
  <2>3. CASE WriteFails(w)
    <3>1. lost' = [lost EXCEPT ![o] = @ \cup {d}] /\ log' = log
      BY <1>2, <2>3 DEF WriteFails
    <3>2. d \in lost'[o]
      BY <1>2, <3>1 DEF TypeInv, TypeOK
    <3>3. QED BY <2>1, <3>1, <3>2 DEF Recorded, Lost
  <2>4. QED BY <2>2, <2>3
<1>9. ASSUME NEW e \in Datagrams, NEW p \in Outputs
      PROVE  Waiting(p, e)' <=> Waiting(p, e)
  BY <1>1 DEF Waiting
<1>10. InOnePlace'
  BY <1>1, <1>4, <1>5, <1>6, <1>7, <1>8, <1>9 DEF PlaceInv, InOnePlace
<1>11. RecordedOnce'
  <2>1. \A e \in Datagrams, p \in Outputs : Len(log'[p][e]) <= 1
    BY <1>7, <1>8 DEF PlaceInv, RecordedOnce
  <2>2. QED BY <1>3, <2>1 DEF PlaceInv, RecordedOnce
<1>12. HandlerInv'
  BY <1>1 DEF PlaceInv, HandlerInv, Undecoded
<1>13. IdleHasNone'
  BY <1>3 DEF PlaceInv, IdleHasNone
<1>14. QED BY <1>10, <1>11, <1>12, <1>13 DEF PlaceInv

LEMMA PlaceInvStep == TypeInv /\ PlaceInv /\ [Next]_vars => PlaceInv'
<1> SUFFICES ASSUME TypeInv, PlaceInv, [Next]_vars PROVE PlaceInv'
  OBVIOUS
<1> USE DEF socketVars, decodeVars, fanoutVars, workerVars, storeVars
<1>1. DOMAIN hpc = Datagrams /\ DOMAIN wpc = Workers
  BY DEF TypeInv, TypeOK
<1>2. ASSUME NEW d \in Datagrams, Receive(d) PROVE PlaceInv'
  <2>1. hpc' = [hpc EXCEPT ![d] = "decode"] \/ hpc' = hpc
    BY <1>2, Zenon DEF Receive
  <2>2. hpc[d] = "none" /\ UNCHANGED <<msg, todo, chan, wpc, wmsg, log, lost>>
    BY <1>2 DEF Receive
  <2>3. QED BY <1>1, <2>1, <2>2, PlaceInvOther DEF Undecoded
<1>3. ASSUME NEW d \in Datagrams, Handler(d) PROVE PlaceInv'
  <2>1. CASE IgnoreType(d)
    BY <1>1, <2>1, PlaceInvOther DEF IgnoreType, Undecoded
  <2>2. CASE ReadCell(d)
    BY <2>2, PlaceInvOther DEF ReadCell
  <2>3. CASE HandlerReturns(d)
    BY <1>1, <2>3, PlaceInvOther DEF HandlerReturns
  <2>4. QED
    BY <1>3, <2>1, <2>2, <2>3, PlaceInvDecode, PlaceInvNextChannel, PlaceInvDeliver
       DEF Handler
<1>4. ASSUME NEW w \in Workers, Worker(w) PROVE PlaceInv'
  <2>1. CASE LoadTime(w)
    BY <1>1, <2>1, PlaceInvOther DEF LoadTime
  <2>2. CASE StoreTime(w)
    BY <1>1, <2>2, PlaceInvOther DEF StoreTime
  <2>3. CASE WritePanics(w)
    BY <2>3, PlaceInvOther DEF WritePanics
  <2>4. QED BY <1>4, <2>1, <2>2, <2>3, PlaceInvSettle DEF Worker
<1>5. CASE MainReturns \/ CatchSignal \/ CloseWriters \/ UNCHANGED vars
  <2>1. UNCHANGED <<hpc, msg, todo, chan, wpc, wmsg, log, lost>>
    BY <1>5 DEF MainReturns, CatchSignal, CloseWriters, vars
  <2>2. QED BY <2>1, PlaceInvOther
<1>6. QED BY <1>2, <1>3, <1>4, <1>5 DEF Next, Terminated

LEMMA PlaceInvAlways == Spec => [](TypeInv /\ PlaceInv)
  BY TypeInvInit, TypeInvStep, PlaceInvInit, PlaceInvStep, PTL DEF Spec

\* A decoded message is in exactly one place for each output, whatever the
\* number of outputs and workers.
THEOREM PlaceCorrect == Spec => []InOnePlace
<1>1. PlaceInv => InOnePlace
  BY DEF PlaceInv
<1>2. QED BY <1>1, PlaceInvAlways, PTL

\* No output records a message twice.
THEOREM RecordedOnceCorrect == Spec => []RecordedOnce
<1>1. PlaceInv => RecordedOnce
  BY DEF PlaceInv
<1>2. QED BY <1>1, PlaceInvAlways, PTL

-----------------------------------------------------------------------------
(* The connection of a JsonOverTcp output.                                 *)

\* The only worker of such an output has seen what was lost fail.
LossBreaks == \A w \in Workers : OnlyTcpWorker(w) /\ lost[OutputOf[w]] # {} => w \in broken

LEMMA LossBreaksStep == TypeInv /\ LossBreaks /\ [Next]_vars => LossBreaks'
<1> SUFFICES ASSUME TypeInv, LossBreaks, [Next]_vars PROVE LossBreaks'
  OBVIOUS
<1>1. CASE UNCHANGED <<lost, broken>>
  BY <1>1 DEF LossBreaks, OnlyTcpWorker
<1>2. ASSUME NEW w \in Workers, WriteFails(w) PROVE LossBreaks'
  <2>1. SUFFICES ASSUME NEW v \in Workers, OnlyTcpWorker(v), lost'[OutputOf[v]] # {}
                 PROVE  v \in broken'
    BY DEF LossBreaks, OnlyTcpWorker
  <2>2. CASE OutputOf[v] = OutputOf[w]
    BY <1>2, <2>1, <2>2 DEF WriteFails, Breaks, OnlyTcpWorker
  <2>3. CASE OutputOf[v] # OutputOf[w]
    <3>1. lost'[OutputOf[v]] = lost[OutputOf[v]]
      BY <1>2, <2>3, ServerAssumption DEF WriteFails, TypeInv, TypeOK
    <3>2. QED BY <1>2, <2>1, <3>1 DEF WriteFails, LossBreaks
  <2>4. QED BY <2>2, <2>3
<1>3. ASSUME NEW d \in Datagrams, Receive(d) \/ Handler(d) PROVE UNCHANGED <<lost, broken>>
  BY <1>3 DEF Receive, Handler, IgnoreType, ReadCell, Decode, NextChannel, HandlerReturns,
     Deliver, storeVars
<1>4. ASSUME NEW w \in Workers, Worker(w) PROVE UNCHANGED <<lost, broken>> \/ WriteFails(w)
  BY <1>4 DEF Worker, LoadTime, StoreTime, WriteRecord, WritePanics, storeVars
<1>5. CASE MainReturns \/ CatchSignal \/ CloseWriters \/ UNCHANGED vars
  BY <1>1, <1>5 DEF MainReturns, CatchSignal, CloseWriters, vars, storeVars
<1>6. QED BY <1>1, <1>2, <1>3, <1>4, <1>5 DEF Next, Terminated

LEMMA RecordsNoMoreStep == TypeInv /\ LossBreaks /\ [Next]_vars => [RecordsNoMore]_vars
<1> SUFFICES ASSUME TypeInv, LossBreaks, Next,
                    NEW w \in Workers, OnlyTcpWorker(w), lost[OutputOf[w]] # {}
             PROVE  log'[OutputOf[w]] = log[OutputOf[w]]
  BY DEF RecordsNoMore
<1>1. ASSUME NEW d \in Datagrams, Receive(d) \/ Handler(d) PROVE log' = log
  BY <1>1 DEF Receive, Handler, IgnoreType, ReadCell, Decode, NextChannel, HandlerReturns,
     Deliver, storeVars
<1>2. ASSUME NEW v \in Workers, Worker(v) PROVE log' = log \/ WriteRecord(v)
  BY <1>2 DEF Worker, LoadTime, StoreTime, WriteFails, WritePanics, storeVars
<1>3. ASSUME NEW v \in Workers, WriteRecord(v) PROVE log'[OutputOf[w]] = log[OutputOf[w]]
  <2>1. OutputOf[v] # OutputOf[w]
    BY <1>3 DEF WriteRecord, LossBreaks, OnlyTcpWorker
  <2>2. QED BY <1>3, <2>1, ServerAssumption DEF WriteRecord, TypeInv, TypeOK
<1>4. CASE MainReturns \/ CatchSignal \/ CloseWriters \/ Terminated
  BY <1>4 DEF MainReturns, CatchSignal, CloseWriters, Terminated, vars, storeVars
<1>5. QED BY <1>1, <1>2, <1>3, <1>4 DEF Next

\* A JsonOverTcp output with one worker records nothing after its first loss.
THEOREM TcpLossIsFinalCorrect == Spec => TcpLossIsFinal
<1>1. Init => LossBreaks
  BY ServerAssumption DEF Init, LossBreaks
<1>2. QED BY <1>1, TypeInvInit, TypeInvStep, LossBreaksStep, RecordsNoMoreStep, PTL
          DEF Spec, TcpLossIsFinal

-----------------------------------------------------------------------------
(* The times in the records.                                               *)

\* Output o has written its time into the message of d, if it is of the type
\* that does.
StampedBy(o, d) ==
  \/ Recorded(o, d)
  \/ Lost(o, d)
  \/ \E w \in Workers : OutputOf[w] = o /\ wmsg[w] = d /\ wpc[w] = "write"

Stamped(d) == {o \in EsOutputs : StampedBy(o, d)}

\* The time of a message was multiplied at most once by each output that has
\* written it, and so was the time that a worker has loaded.
TimesInv ==
  /\ \A w \in Workers : wpc[w] \in {"load", "store"} => OutputOf[w] \in EsOutputs
  /\ \A d \in Datagrams : time[d] <= Cardinality(Stamped(d))
  /\ \A d \in Datagrams : Stamped(d) # {} => time[d] >= 1
  /\ \A w \in Workers : wpc[w] = "store" => wtime[w] <= Cardinality(Stamped(wmsg[w]))
  /\ TimesBounded

LEMMA StampedFinite ==
  ASSUME NEW d
  PROVE  /\ IsFiniteSet(Stamped(d)) /\ Cardinality(Stamped(d)) \in Nat
         /\ Cardinality(EsOutputs) \in Nat /\ Cardinality(Stamped(d)) <= Cardinality(EsOutputs)
<1>1. IsFiniteSet(EsOutputs)
  BY ServerAssumption, FS_Subset DEF EsOutputs
<1>2. Stamped(d) \subseteq EsOutputs
  BY DEF Stamped
<1>3. QED BY <1>1, <1>2, FS_Subset, FS_CardinalityType

LEMMA TimesInvInit == Init => TimesInv
<1> SUFFICES ASSUME Init PROVE TimesInv
  OBVIOUS
<1>1. \A d \in Datagrams : Stamped(d) = {}
  BY DEF Init, Stamped, StampedBy, Recorded, Lost, EsOutputs
<1>2. Cardinality({}) = 0
  BY FS_EmptySet
<1>3. TimesBounded
  BY DEF Init, TimesBounded
<1>4. ASSUME NEW d \in Datagrams PROVE time[d] <= Cardinality(Stamped(d))
  <2>1. Cardinality(Stamped(d)) = 0
    BY <1>1, <1>2
  <2>2. time[d] = 0
    BY DEF Init
  <2>3. QED BY <2>1, <2>2
<1>5. \A w \in Workers : wpc[w] = "idle"
  BY DEF Init
<1>6. QED BY <1>1, <1>3, <1>4, <1>5 DEF TimesInv

\* Steps that stamp nothing.
LEMMA TimesInvKept ==
  ASSUME TimesInv, time' = time, TimesBounded',
         \A o \in EsOutputs, d \in Datagrams : StampedBy(o, d)' <=> StampedBy(o, d),
         \A w \in Workers :
           /\ wpc'[w] \in {"load", "store"} => OutputOf[w] \in EsOutputs
           /\ wpc'[w] = "store" =>
                /\ wmsg'[w] \in Datagrams
                /\ \/ wpc[w] = "store" /\ wmsg'[w] = wmsg[w] /\ wtime'[w] = wtime[w]
                   \/ wtime'[w] = time[wmsg'[w]]
  PROVE  TimesInv'
<1>1. \A d \in Datagrams : Stamped(d)' = Stamped(d)
  BY DEF Stamped, EsOutputs
<1>2. ASSUME NEW w \in Workers, wpc'[w] = "store"
      PROVE  wtime'[w] <= Cardinality(Stamped(wmsg[w]))'
  <2>1. PICK d \in Datagrams : d = wmsg'[w]
    BY <1>2
  <2>2. wtime'[w] <= Cardinality(Stamped(d))
    BY <1>2, <2>1 DEF TimesInv
  <2>3. Stamped(wmsg[w])' = Stamped(d)'
    BY <2>1 DEF Stamped, StampedBy, Recorded, Lost, EsOutputs
  <2>4. QED BY <1>1, <2>2, <2>3
<1>3. QED BY <1>1, <1>2 DEF TimesInv, EsOutputs

\* Steps of main, of a handler that sends nothing, and of the signal goroutine.
LEMMA TimesInvOther ==
  ASSUME TypeInv, TimesInv, UNCHANGED <<time, workerVars, log, lost>>
  PROVE  TimesInv'
<1>1. TimesBounded'
  BY DEF TimesInv, TimesBounded, EsOutputs
<1>2. \A o \in EsOutputs, d \in Datagrams : StampedBy(o, d)' <=> StampedBy(o, d)
  BY DEF StampedBy, Recorded, Lost, workerVars
<1>3. \A w \in Workers : wpc[w] = "store" => wmsg[w] \in Datagrams
  BY DEF TypeInv, BusyHasMessage
<1>4. QED BY <1>1, <1>2, <1>3, TimesInvKept DEF TimesInv, workerVars

\* A worker that receives a message has not stamped it, and one of another type
\* of output never does.
LEMMA TimesInvDeliver ==
  ASSUME TypeInv, TimesInv, NEW d \in Datagrams, NEW w \in Workers, Deliver(d, w)
  PROVE  TimesInv'
<1>1. /\ wpc[w] = "idle" /\ UNCHANGED <<time, wtime, log, lost>>
      /\ wpc'[w] = PersistStart(OutputOf[w]) /\ wmsg'[w] = d
      /\ \A v \in Workers : v # w => wpc'[v] = wpc[v] /\ wmsg'[v] = wmsg[v]
  BY DEF Deliver, TypeInv, TypeOK, storeVars
<1>2. /\ OutputOf[w] \in EsOutputs => wpc'[w] = "load"
      /\ OutputOf[w] \notin EsOutputs => wpc'[w] = "write"
  BY <1>1, ServerAssumption DEF PersistStart, EsOutputs
<1>3. TimesBounded'
  BY <1>1 DEF TimesInv, TimesBounded, EsOutputs
<1>4. ASSUME NEW o \in EsOutputs, NEW e \in Datagrams
      PROVE  StampedBy(o, e)' <=> StampedBy(o, e)
  <2>1. \A v \in Workers : OutputOf[v] = o =>
          (wmsg'[v] = e /\ wpc'[v] = "write" <=> wmsg[v] = e /\ wpc[v] = "write")
    BY <1>1, <1>2
  <2>2. QED BY <1>1, <2>1 DEF StampedBy, Recorded, Lost
<1>5. ASSUME NEW v \in Workers
      PROVE  /\ wpc'[v] \in {"load", "store"} => OutputOf[v] \in EsOutputs
             /\ wpc'[v] = "store" => /\ wpc[v] = "store" /\ wmsg'[v] = wmsg[v]
                                     /\ wmsg'[v] \in Datagrams
  BY <1>1, <1>2 DEF TimesInv, TypeInv, BusyHasMessage
<1>6. QED BY <1>1, <1>3, <1>4, <1>5, TimesInvKept

\* What a worker loads is the time that is bounded.
LEMMA TimesInvLoad ==
  ASSUME TypeInv, TimesInv, NEW w \in Workers, LoadTime(w)
  PROVE  TimesInv'
<1>1. /\ wpc[w] = "load" /\ UNCHANGED <<time, wmsg, log, lost>>
      /\ wpc'[w] = "store" /\ wtime'[w] = time[wmsg[w]]
      /\ \A v \in Workers : v # w => wpc'[v] = wpc[v] /\ wtime'[v] = wtime[v]
  BY DEF LoadTime, TypeInv, TypeOK, storeVars
<1>2. TimesBounded'
  BY <1>1 DEF TimesInv, TimesBounded, EsOutputs
<1>3. ASSUME NEW o \in EsOutputs, NEW e \in Datagrams
      PROVE  StampedBy(o, e)' <=> StampedBy(o, e)
  BY <1>1 DEF StampedBy, Recorded, Lost
<1>4. ASSUME NEW v \in Workers
      PROVE  /\ wpc'[v] \in {"load", "store"} => OutputOf[v] \in EsOutputs
             /\ wpc'[v] = "store" => wmsg'[v] \in Datagrams
  BY <1>1 DEF TimesInv, TypeInv, BusyHasMessage
<1>5. QED BY <1>1, <1>2, <1>3, <1>4, TimesInvKept

\* The output of a worker that stores had not stamped the message before, so
\* there is one more that has.
LEMMA TimesInvStore ==
  ASSUME TypeInv, PlaceInv, TimesInv, NEW w \in Workers, StoreTime(w)
  PROVE  TimesInv'
<1>1. PICK d \in Datagrams, o \in EsOutputs : d = wmsg[w] /\ o = OutputOf[w]
  BY DEF StoreTime, TypeInv, BusyHasMessage, TimesInv
<1>2. /\ wpc[w] = "store" /\ UNCHANGED <<wmsg, wtime, log, lost>>
      /\ wpc'[w] = "write" /\ time'[d] = wtime[w] + 1
      /\ \A v \in Workers : v # w => wpc'[v] = wpc[v]
      /\ \A e \in Datagrams : e # d => time'[e] = time[e]
  BY <1>1 DEF StoreTime, TypeInv, TypeOK, storeVars
<1>3. o \in Outputs /\ d # None
  BY ServerAssumption DEF EsOutputs
<1>4. o \notin Stamped(d)
  <2>1. ~Recorded(o, d) /\ ~Lost(o, d)
    BY <1>1, <1>3 DEF PlaceInv, InOnePlace, Held
  <2>2. \A v \in Workers : OutputOf[v] = o /\ wmsg[v] = d => v = w
    BY <1>1, <1>3 DEF PlaceInv, RecordedOnce
  <2>3. QED BY <1>2, <2>1, <2>2 DEF Stamped, StampedBy
<1>5. Stamped(d)' = Stamped(d) \cup {o}
  <2>1. StampedBy(o, d)'
    BY <1>1, <1>2 DEF StampedBy
  <2>2. ASSUME NEW p \in EsOutputs, p # o PROVE StampedBy(p, d)' <=> StampedBy(p, d)
    BY <1>1, <1>2, <2>2 DEF StampedBy, Recorded, Lost
  <2>3. QED BY <2>1, <2>2 DEF Stamped, EsOutputs
<1>6. ASSUME NEW e \in Datagrams, e # d PROVE Stamped(e)' = Stamped(e)
  <2>1. ASSUME NEW p \in EsOutputs PROVE StampedBy(p, e)' <=> StampedBy(p, e)
    BY <1>1, <1>2, <1>6 DEF StampedBy, Recorded, Lost
  <2>2. QED BY <2>1 DEF Stamped, EsOutputs
<1>7. /\ Cardinality(Stamped(d)) \in Nat
      /\ Cardinality(Stamped(d)') = Cardinality(Stamped(d)) + 1
  BY <1>4, <1>5, StampedFinite, FS_AddElement
<1>8. wtime \in [Workers -> Nat]
  BY DEF TypeInv, TypeOK
<1>9. wtime[w] <= Cardinality(Stamped(d))
  BY <1>1, <1>2 DEF TimesInv
<1>10. time'[d] <= Cardinality(Stamped(d)') /\ time'[d] >= 1
  BY <1>2, <1>7, <1>8, <1>9
<1>11. ASSUME NEW v \in Workers, wpc'[v] = "store"
       PROVE  wtime'[v] <= Cardinality(Stamped(wmsg[v]))'
  <2>1. PICK e \in Datagrams : e = wmsg[v] /\ e = wmsg'[v]
    BY <1>2, <1>11 DEF TypeInv, BusyHasMessage
  <2>2. wtime[v] <= Cardinality(Stamped(e))
    BY <1>2, <1>11, <2>1 DEF TimesInv
  <2>3. wtime'[v] <= Cardinality(Stamped(e)')
    BY <1>2, <1>6, <1>7, <1>8, <2>2
  <2>4. Stamped(wmsg[v])' = Stamped(e)'
    BY <2>1 DEF Stamped, StampedBy, Recorded, Lost, EsOutputs
  <2>5. QED BY <2>3, <2>4
<1>12. TimesBounded'
  BY <1>2 DEF TimesInv, TimesBounded, EsOutputs
<1>13. ASSUME NEW e \in Datagrams
       PROVE  /\ time'[e] <= Cardinality(Stamped(e)')
              /\ Stamped(e)' # {} => time'[e] >= 1
  BY <1>2, <1>6, <1>10 DEF TimesInv
<1>14. ASSUME NEW v \in Workers, wpc'[v] \in {"load", "store"}
       PROVE  OutputOf[v] \in EsOutputs
  BY <1>2, <1>14 DEF TimesInv
<1>15. QED BY <1>11, <1>12, <1>13, <1>14 DEF TimesInv, EsOutputs

\* A settled message was stamped before and stays so; the time recorded is the
\* one that the message has.
LEMMA TimesInvSettle ==
  ASSUME TypeInv, PlaceInv, TimesInv, NEW w \in Workers, WriteRecord(w) \/ WriteFails(w)
  PROVE  TimesInv'
<1>1. PICK d \in Datagrams, o \in Outputs : d = wmsg[w] /\ o = OutputOf[w]
  BY ServerAssumption DEF WriteRecord, WriteFails, TypeInv, BusyHasMessage
<1>2. /\ wpc[w] = "write" /\ UNCHANGED <<time, wtime>>
      /\ wpc'[w] = "idle"
      /\ \A v \in Workers : v # w => wpc'[v] = wpc[v] /\ wmsg'[v] = wmsg[v]
  BY DEF WriteRecord, WriteFails, TypeInv, TypeOK
<1>3. d # None
  BY ServerAssumption
<1>4. log[o][d] = <<>>
  BY <1>1, <1>3 DEF PlaceInv, InOnePlace, Held, Recorded
<1>5. time[d] \in Nat
  BY DEF TypeInv, TypeOK
<1>6. \/ log'[o][d] = <<time[d]>> /\ lost' = lost
      \/ log'[o][d] = log[o][d] /\ d \in lost'[o]
  <2>1. CASE WriteRecord(w)
    <3>1. log'[o][d] = Append(log[o][d], time[d]) /\ lost' = lost
      BY <1>1, <2>1 DEF WriteRecord, TypeInv, TypeOK
    <3>2. QED BY <1>4, <1>5, <3>1
  <2>2. CASE WriteFails(w)
    BY <1>1, <2>2 DEF WriteFails, TypeInv, TypeOK
  <2>3. QED BY <2>1, <2>2
<1>7. ASSUME NEW e \in Datagrams, NEW p \in Outputs, e # d \/ p # o
      PROVE  log'[p][e] = log[p][e] /\ (e \in lost'[p] <=> e \in lost[p])
  BY <1>1, <1>7 DEF WriteRecord, WriteFails, TypeInv, TypeOK
<1>8. ASSUME NEW e \in Datagrams, NEW p \in EsOutputs
      PROVE  StampedBy(p, e)' <=> StampedBy(p, e)
  <2>1. p \in Outputs
    BY DEF EsOutputs
  <2>2. CASE e = d /\ p = o
    <3>1. StampedBy(p, e)
      BY <1>1, <1>2, <2>2 DEF StampedBy
    <3>2. log'[o][d] # <<>> \/ d \in lost'[o]
      <4>1. <<time[d]>> # <<>>
        OBVIOUS
      <4>2. QED BY <1>6, <4>1
    <3>3. Recorded(p, e)' \/ Lost(p, e)'
      BY <2>2, <3>2 DEF Recorded, Lost
    <3>4. QED BY <3>1, <3>3 DEF StampedBy
  <2>3. CASE e # d \/ p # o
    <3>1. \A v \in Workers : OutputOf[v] = p =>
            (wmsg'[v] = e /\ wpc'[v] = "write" <=> wmsg[v] = e /\ wpc[v] = "write")
      BY <1>1, <1>2, <2>3
    <3>2. QED BY <1>7, <2>1, <2>3, <3>1 DEF StampedBy, Recorded, Lost
  <2>4. QED BY <2>2, <2>3
<1>9. time[d] <= Cardinality(EsOutputs) /\ (o \in EsOutputs => time[d] >= 1)
  <2>1. time[d] <= Cardinality(Stamped(d)) /\ (Stamped(d) # {} => time[d] >= 1)
    BY DEF TimesInv
  <2>2. time[d] <= Cardinality(EsOutputs)
    BY <1>5, <2>1, StampedFinite
  <2>3. o \in EsOutputs => o \in Stamped(d)
    BY <1>1, <1>2 DEF Stamped, StampedBy
  <2>4. QED BY <2>1, <2>2, <2>3
<1>10. TimesBounded'
  <2>1. ASSUME NEW e \in Datagrams, NEW p \in Outputs, NEW i \in DOMAIN log'[p][e]
        PROVE  log'[p][e][i] <= Cardinality(EsOutputs)
               /\ (p \in EsOutputs => log'[p][e][i] >= 1)
    <3>1. CASE log'[p][e] = log[p][e]
      BY <3>1 DEF TimesInv, TimesBounded
    <3>2. CASE e = d /\ p = o /\ log'[o][d] = <<time[d]>>
      <4>1. i = 1
        BY <3>2
      <4>2. log'[p][e][i] = time[d]
        BY <3>2, <4>1
      <4>3. QED BY <1>9, <3>2, <4>2
    <3>3. QED BY <1>6, <1>7, <3>1, <3>2
  <2>2. QED BY <2>1 DEF TimesBounded, EsOutputs
<1>11. ASSUME NEW v \in Workers
       PROVE  /\ wpc'[v] \in {"load", "store"} => OutputOf[v] \in EsOutputs
              /\ wpc'[v] = "store" => /\ wpc[v] = "store" /\ wmsg'[v] = wmsg[v]
                                      /\ wmsg'[v] \in Datagrams
  BY <1>2 DEF TimesInv, TypeInv, BusyHasMessage
<1>12. QED BY <1>2, <1>8, <1>10, <1>11, TimesInvKept

LEMMA TimesInvStep == TypeInv /\ PlaceInv /\ TimesInv /\ [Next]_vars => TimesInv'
<1> SUFFICES ASSUME TypeInv, PlaceInv, TimesInv, [Next]_vars PROVE TimesInv'
  OBVIOUS
<1>1. ASSUME NEW d \in Datagrams, Receive(d) \/ Handler(d) PROVE TimesInv'
  <2>1. \/ UNCHANGED <<time, workerVars, log, lost>>
        \/ \E w \in Workers : Deliver(d, w)
    BY <1>1 DEF Receive, Handler, IgnoreType, ReadCell, Decode, NextChannel,
       HandlerReturns, storeVars
  <2>2. QED BY <2>1, TimesInvOther, TimesInvDeliver
<1>2. ASSUME NEW w \in Workers, Worker(w) PROVE TimesInv'
  <2>1. CASE WritePanics(w)
    BY <2>1, TimesInvOther DEF WritePanics, storeVars
  <2>2. QED BY <1>2, <2>1, TimesInvLoad, TimesInvStore, TimesInvSettle DEF Worker
<1>3. CASE MainReturns \/ CatchSignal \/ CloseWriters \/ UNCHANGED vars
  <2>1. UNCHANGED <<time, workerVars, log, lost>>
    BY <1>3 DEF MainReturns, CatchSignal, CloseWriters, vars, storeVars
  <2>2. QED BY <2>1, TimesInvOther
<1>4. QED BY <1>1, <1>2, <1>3 DEF Next, Terminated

\* The time in a record was multiplied at most once per ElasticSearch output,
\* and at least once in a record of such an output.
THEOREM TimesBoundedCorrect == Spec => []TimesBounded
<1>1. Spec => [](TypeInv /\ PlaceInv)
  BY PlaceInvAlways, PTL
<1>2. Spec => []TimesInv
  BY <1>1, TimesInvInit, TimesInvStep, PTL DEF Spec
<1>3. QED BY <1>2, PTL DEF TimesInv

-----------------------------------------------------------------------------
(* The refinement of ProcessLog: heard and fate behave as its variables.   *)

\* A received datagram whose message is with a worker is settled by nothing but
\* that worker's write, which adds it to the records or to what was lost.
LEMMA SettleStep ==
  ASSUME TypeInv, PlaceInv, NEW w \in Workers, WriteRecord(w) \/ WriteFails(w)
  PROVE  PL!Next
<1> DEFINE o == OutputOf[w]
<1> USE ServerAssumption
<1>1. PICK d \in Datagrams : d = wmsg[w] /\ d # None /\ o \in Outputs
  BY DEF TypeInv, BusyHasMessage, WriteRecord, WriteFails
<1>2. Held(o, d)
  BY <1>1 DEF Held
<1>3. ~Recorded(o, d) /\ ~Lost(o, d) /\ msg[d] # None
  BY <1>1, <1>2 DEF PlaceInv, InOnePlace
<1>4. d \in heard /\ heard' = heard
  <2>1. hpc[d] # "none"
    BY <1>3 DEF PlaceInv, HandlerInv, Undecoded
  <2>2. QED BY <2>1 DEF heard, WriteRecord, WriteFails
<1>5. fate[o][d] = "none"
  BY <1>1, <1>3 DEF fate, FateOf
<1>6. \E f \in {"recorded", "lost"} : fate' = [fate EXCEPT ![o][d] = f]
  <2>1. CASE WriteRecord(w)
    <3>1. log' = [log EXCEPT ![o][d] = Append(@, time[d])] /\ lost' = lost
      BY <1>1, <2>1 DEF WriteRecord
    <3>2. \A p \in Outputs, e \in Datagrams :
            log'[p][e] = IF p = o /\ e = d THEN Append(log[o][d], time[d]) ELSE log[p][e]
      <4>1. DOMAIN log = Outputs /\ \A p \in Outputs : DOMAIN log[p] = Datagrams
        BY DEF TypeInv, TypeOK
      <4>2. QED BY <1>1, <3>1, <4>1
    <3>3. Append(log[o][d], time[d]) # <<>>
      <4>1. log[o][d] = <<>>
        BY <1>3 DEF Recorded
      <4>2. time[d] \in Nat
        BY <1>1 DEF TypeInv, TypeOK
      <4>3. Len(Append(<<>>, time[d])) = 1
        BY <4>2
      <4>4. QED BY <4>1, <4>3
    <3>4. \A p \in Outputs, e \in Datagrams :
            FateOf(p, e)' = IF p = o /\ e = d THEN "recorded" ELSE FateOf(p, e)
      <4>1. log'[o][d] # <<>>
        BY <1>1, <3>2, <3>3
      <4>2. FateOf(o, d)' = "recorded"
        BY <4>1 DEF FateOf, Recorded
      <4>3. ASSUME NEW p \in Outputs, NEW e \in Datagrams, ~(p = o /\ e = d)
            PROVE  FateOf(p, e)' = FateOf(p, e)
        <5>1. log'[p][e] = log[p][e]
          BY <3>2, <4>3
        <5>2. QED BY <3>1, <5>1 DEF FateOf, Recorded, Lost
      <4>4. QED BY <4>2, <4>3
    <3>5. fate' = [fate EXCEPT ![o][d] = "recorded"]
      BY <1>1, <3>4 DEF fate
    <3>6. QED BY <3>5
  <2>2. CASE WriteFails(w)
    <3>1. lost' = [lost EXCEPT ![o] = @ \cup {d}] /\ log' = log
      BY <1>1, <2>2 DEF WriteFails
    <3>2. \A p \in Outputs, e \in Datagrams :
            e \in lost'[p] <=> (p = o /\ e = d) \/ e \in lost[p]
      BY <1>1, <3>1 DEF TypeInv, TypeOK
    <3>3. \A p \in Outputs, e \in Datagrams :
            FateOf(p, e)' = IF p = o /\ e = d THEN "lost" ELSE FateOf(p, e)
      BY <1>1, <1>3, <3>1, <3>2 DEF FateOf, Recorded, Lost
    <3>4. fate' = [fate EXCEPT ![o][d] = "lost"]
      BY <1>1, <3>3 DEF fate
    <3>5. QED BY <3>4
  <2>3. QED BY <2>1, <2>2
<1>7. PL!Settle(o, d)
  BY <1>4, <1>5, <1>6 DEF PL!Settle
<1>8. QED BY <1>1, <1>7 DEF PL!Next

\* A datagram that is received is heard of, unless receiving it panics.
LEMMA HearStep ==
  ASSUME TypeInv, NEW d \in Datagrams, Receive(d)
  PROVE  [PL!Next]_<<heard, fate>>
<1>1. fate' = fate
  BY DEF Receive, storeVars, fate, FateOf, Recorded, Lost
<1>2. hpc[d] = "none" /\ (hpc' = [hpc EXCEPT ![d] = "decode"] \/ hpc' = hpc)
  BY Zenon DEF Receive
<1>3. CASE hpc' = hpc
  BY <1>1, <1>3 DEF heard
<1>4. CASE hpc' = [hpc EXCEPT ![d] = "decode"]
  <2>1. d \notin heard /\ heard' = heard \cup {d}
    BY <1>2, <1>4 DEF heard, TypeInv, TypeOK
  <2>2. PL!Hear(d)
    BY <1>1, <2>1 DEF PL!Hear
  <2>3. QED BY <2>2 DEF PL!Next
<1>5. QED BY <1>2, <1>3, <1>4

\* A step that takes no handler to or from "none" and writes nothing changes
\* nothing an observer sees.
LEMMA InvisibleStep ==
  ASSUME UNCHANGED <<log, lost>>,
         \A d \in Datagrams : hpc'[d] = "none" <=> hpc[d] = "none"
  PROVE  UNCHANGED <<heard, fate>>
<1>1. heard' = heard
  BY DEF heard
<1>2. fate' = fate
  BY DEF fate, FateOf, Recorded, Lost
<1>3. QED BY <1>1, <1>2

LEMMA ImplementsStep ==
  TypeInv /\ PlaceInv /\ [Next]_vars => [PL!Next]_<<heard, fate>>
<1> SUFFICES ASSUME TypeInv, PlaceInv, [Next]_vars
             PROVE  [PL!Next]_<<heard, fate>>
  OBVIOUS
<1> USE DEF socketVars, decodeVars, fanoutVars, workerVars, storeVars
<1>1. DOMAIN hpc = Datagrams
  BY DEF TypeInv, TypeOK
<1>2. ASSUME NEW d \in Datagrams, Handler(d) PROVE UNCHANGED <<heard, fate>>
  <2>1. /\ UNCHANGED <<log, lost>>
        /\ hpc[d] # "none"
        /\ \E s \in HandlerStates \ {"none"} :
             hpc' = [hpc EXCEPT ![d] = s] \/ hpc' = hpc
    <3>1. CASE IgnoreType(d)
      BY <3>1 DEF IgnoreType, HandlerStates
    <3>2. CASE ReadCell(d)
      BY <3>2 DEF ReadCell, HandlerStates
    <3>3. CASE Decode(d)
      BY <3>3 DEF Decode, HandlerStates
    <3>4. CASE NextChannel(d)
      BY <3>4 DEF NextChannel, HandlerStates
    <3>5. CASE HandlerReturns(d)
      BY <3>5 DEF HandlerReturns, HandlerStates
    <3>6. ASSUME NEW w \in Workers, Deliver(d, w)
          PROVE  /\ UNCHANGED <<log, lost>>
                 /\ hpc[d] # "none"
                 /\ hpc' = [hpc EXCEPT ![d] = "fanout"]
      BY <3>6 DEF Deliver
    <3>7. QED
      BY <1>2, <3>1, <3>2, <3>3, <3>4, <3>5, <3>6 DEF Handler, HandlerStates
  <2>2. QED BY <1>1, <2>1, InvisibleStep
<1>3. ASSUME NEW w \in Workers, Worker(w) PROVE [PL!Next]_<<heard, fate>>
  <2>1. CASE LoadTime(w) \/ StoreTime(w) \/ WritePanics(w)
    <3>1. UNCHANGED <<hpc, log, lost>>
      BY <2>1 DEF LoadTime, StoreTime, WritePanics
    <3>2. QED BY <3>1, InvisibleStep
  <2>2. QED BY <1>3, <2>1, SettleStep DEF Worker
<1>4. CASE MainReturns \/ CatchSignal \/ CloseWriters \/ UNCHANGED vars
  <2>1. UNCHANGED <<hpc, log, lost>>
    BY <1>4 DEF MainReturns, CatchSignal, CloseWriters, vars
  <2>2. QED BY <2>1, InvisibleStep
<1>5. QED
  BY <1>2, <1>3, <1>4, HearStep DEF Next, Terminated

LEMMA ImplementsInit == Init => PL!Init
<1> SUFFICES ASSUME Init PROVE PL!Init
  OBVIOUS
<1>1. heard = {}
  BY DEF Init, heard
<1>2. fate = [o \in Outputs |-> [d \in Datagrams |-> "none"]]
  BY DEF Init, fate, FateOf, Recorded, Lost
<1>3. QED BY <1>1, <1>2 DEF PL!Init

\* The outputs of the server behave as ProcessLog promises: what was received
\* is recorded at most once or lost for good, and nothing else is.
THEOREM ServerImplementsProcessLog == Spec => ImplementsProcessLog
  BY ImplementsInit, ImplementsStep, PlaceInvAlways, PTL
     DEF Spec, ImplementsProcessLog, PL!Spec
=============================================================================

--------------------------- MODULE ShutdownProofs ---------------------------
(***************************************************************************)
(* What main's shutdown sequence keeps, for any number of requests and     *)
(* workers, any faults, and the signal at any moment; and that the gateway *)
(* is as good inside the process, up to its exit and after it.             *)
(***************************************************************************)
EXTENDS Shutdown, MappingProofs

Returned(r) == pc[r] \in {"idle", "over"}

Released(r) == det[r] \in {"none", "done"}

\* A worker that has returned from its loop holds no page.
LeftIdle == left \subseteq Workers /\ \A w \in left : wpc[w] = "idle"

\* What each call of main leaves behind it when it was not given up: no
\* handler, then nothing in the queue, then no finalizer, then no worker.
InOrder ==
    /\ phase \in {"drain", "waitFinalize", "stop", "exited"} => \A r \in Requests : Returned(r)
    /\ phase \in {"waitFinalize", "stop", "exited"} => queue = <<>>
    /\ phase \in {"stop", "exited"} => \A r \in Requests : Released(r)
    /\ phase = "exited" => left = Workers

\* The inductive invariant of the shutdown.
Orderly ==
    /\ phase \in {"up", "shutdown", "drain", "waitFinalize", "stop", "exited"}
    /\ hurried \in BOOLEAN
    /\ LeftIdle
    /\ ~hurried => InOrder

Process == TypeOK /\ Discipline /\ Orderly

-----------------------------------------------------------------------------
(* The gateway inside the process.                                         *)

\* Redis drops a page entry.
Drops ==
    \E r \in Requests :
        /\ ExpireEntry(r)
        /\ UNCHANGED <<collectorVars, poolVars, sent, mapping, proxyVars>>

\* Every step of the process is a step of the gateway, leaves it alone, or
\* - once the process is gone - lets an entry expire that no Finalize read.
LEMMA ProcessStep ==
    ASSUME [ProcessNext]_processVars
    PROVE  [GatewayNext]_gatewayVars \/ (~Running /\ Drops)
<1>1. ASSUME NEW r \in Requests,
             RequestStep(r) \/ CopyRuns(r) \/ FinalizeGoesOn(r) \/ DetachedRuns(r)
      PROVE  GatewayNext
  BY <1>1 DEF RequestStep, CopyRuns, FinalizeGoesOn, DetachedRuns, GatewayNext
<1>2. ASSUME NEW r \in Requests, Redis(r) PROVE GatewayNext
  BY <1>2 DEF Redis, GatewayNext, Environment
<1>3. ASSUME NEW r \in Requests, Elapse(r) PROVE GatewayNext \/ (~Running /\ Drops)
  <2>1. CASE Finished(r) \/ "expire" \in Faults
    BY <1>3, <2>1 DEF Elapse, GatewayNext, Environment, Expire
  <2>2. CASE ~(Finished(r) \/ "expire" \in Faults)
    BY <1>3, <2>2 DEF Elapse, Drops
  <2> QED
    BY <2>1, <2>2
<1>4. ASSUME NEW w \in Workers, WorkerRuns(w) PROVE GatewayNext
  BY <1>4 DEF WorkerRuns, GatewayNext, Environment
<1>5. ASSUME NEW w \in Workers, WorkerExit(w) PROVE UNCHANGED gatewayVars
  BY <1>5 DEF WorkerExit
<1>6. ASSUME ElapseSession PROVE GatewayNext
  BY <1>6 DEF ElapseSession, GatewayNext, Environment
<1>7. ASSUME Signal \/ ServerError \/ Main PROVE UNCHANGED gatewayVars
  BY <1>7 DEF Signal, ServerError, Main, Shutdown, Drain, WaitFinalize, TimedOut, Exit, Goto
<1>8. ASSUME UNCHANGED processVars PROVE UNCHANGED gatewayVars
  BY <1>8 DEF processVars
<1> QED
  BY <1>1, <1>2, <1>3, <1>4, <1>5, <1>6, <1>7, <1>8 DEF ProcessNext

LEMMA DropsKeep ==
    ASSUME TypeOK, Discipline, Drops
    PROVE  TypeOK' /\ Discipline'
<1>1. PICK r \in Requests :
        ExpireEntry(r) /\ UNCHANGED <<collectorVars, poolVars, sent, mapping, proxyVars>>
  BY DEF Drops
<1>2. StoreTypeOK'
  <2>1. 1 \in Nat \ {0} /\ <<>> \in Seq(Piece) /\ StoreTypeOK
    BY DEF TypeOK
  <2> QED
    BY <1>1, <2>1, StoreType
<1>3. TypeOK'
  BY <1>1, <1>2 DEF TypeOK, collectorVars, poolVars
<1>4. Discipline'
  BY <1>1, QuietDiscipline DEF collectorVars, proxyVars
<1> QED
  BY <1>3, <1>4

LEMMA ProcessDiscipline ==
    ASSUME TypeOK, Discipline, [ProcessNext]_processVars
    PROVE  TypeOK' /\ Discipline'
<1>1. CASE [GatewayNext]_gatewayVars
  BY <1>1, GatewayStep, NextType, NextDiscipline
<1>2. CASE Drops
  BY <1>2, DropsKeep
<1> QED
  BY <1>1, <1>2, ProcessStep

-----------------------------------------------------------------------------
(* What goes on after a call of main has returned.                         *)

\* A request whose handler has returned, or that was never accepted, runs
\* at most its finalizer: it reads nothing, enqueues nothing and starts no
\* finalizer.
LEMMA ReturnedStays ==
    ASSUME Discipline, phase \notin {"up", "shutdown"}, NEW r \in Requests, Returned(r),
           RequestStep(r) \/ CopyRuns(r) \/ FinalizeGoesOn(r) \/ DetachedRuns(r)
    PROVE  /\ UNCHANGED <<pc, queue, wpc, shutdownVars>>
           /\ \A q \in Requests : Released(q) => det'[q] = det[q]
<1>1. Handling(r) /\ ProxyTypes
  BY DEF Discipline
<1>2. ~RequestStep(r)
  BY DEF Returned, RequestStep, Arrival, Upstream, ServeChat, ServeTransparent, ServeRefused,
         modifyResponse, ReadStream, ReadJson, ReadEOF, ReadFails
<1>3. ~CopyRuns(r)
  BY DEF Returned, CopyRuns, CopyGoroutine, ReadReturns, Deliver, DeliverFails, Close, CopyPlain,
         AtDoneFails, AtDoneSucceeds, AtDoneMaps
<1>4. CASE FinalizeGoesOn(r)
  BY <1>4 DEF FinalizeGoesOn, FinalizeRuns, FinalizeStep, FinalizeCall, FinalizeWait,
              FinalizeRead, FinalizeDelete, poolVars, proxyVars
<1>5. CASE DetachedRuns(r)
  <2>1. UNCHANGED <<pc, queue, wpc, shutdownVars>>
    BY <1>5 DEF DetachedRuns, Detached, finalizeStream, finalizeStreamOnClose, finalizeJSON,
                DetachedMaps, vars, poolVars
  <2>2. /\ det[r] \in {"stream", "close", "json", "put"}
        /\ \E d : det' = [det EXCEPT ![r] = d]
    BY <1>5 DEF DetachedRuns, Detached, finalizeStream, finalizeStreamOnClose, finalizeJSON,
                DetachedMaps
  <2>3. ASSUME NEW q \in Requests, Released(q) PROVE det'[q] = det[q]
    BY <1>1, <2>2, <2>3 DEF ProxyTypes, Released
  <2> QED
    BY <2>1, <2>3
<1> QED
  BY <1>2, <1>3, <1>4, <1>5

\* The handler and the finalizers do not touch the workers' program counters.
LEMMA RequestsKeepWorkers ==
    ASSUME NEW r \in Requests,
           RequestStep(r) \/ CopyRuns(r) \/ FinalizeGoesOn(r) \/ DetachedRuns(r)
    PROVE  UNCHANGED <<wpc, shutdownVars>> /\ Running
<1>1. ASSUME NEW e, finish(r, e) PROVE UNCHANGED wpc
  BY <1>1 DEF finish, CloseBody, vars, poolVars
<1>2. CASE RequestStep(r)
  <2>1. CASE Arrival(r)
    BY <1>2, <2>1 DEF RequestStep, Arrival, ServeChat, ServeTransparent, ServeRefused,
                      modifyResponse, NewCollector, vars, poolVars
  <2>2. CASE Upstream(r)
    BY <1>1, <1>2, <2>2 DEF RequestStep, Upstream, ReadStream, ReadJson, ReadEOF, ReadFails, Write,
                            vars, poolVars
  <2> QED
    BY <1>2, <2>1, <2>2 DEF RequestStep
<1>3. CASE CopyRuns(r)
  BY <1>1, <1>3 DEF CopyRuns, CopyGoroutine, ReadReturns, Deliver, DeliverFails, Close, CopyPlain,
                    AtDoneFails, AtDoneSucceeds, AtDoneMaps, WriteReturn, vars, poolVars
<1>4. CASE FinalizeGoesOn(r)
  BY <1>4 DEF FinalizeGoesOn, FinalizeRuns, FinalizeStep, FinalizeCall, FinalizeWait,
              FinalizeRead, FinalizeDelete, poolVars
<1>5. CASE DetachedRuns(r)
  BY <1>5 DEF DetachedRuns, Detached, finalizeStream, finalizeStreamOnClose, finalizeJSON,
              DetachedMaps, vars, poolVars
<1> QED
  BY <1>2, <1>3, <1>4, <1>5

\* A step that leaves the handlers, the finalizers and main where they are,
\* and neither fills the queue nor moves a worker that has left.
LEMMA OrderlyQuiet ==
    ASSUME Orderly, UNCHANGED <<pc, det, shutdownVars>>,
           queue = <<>> => queue' = <<>>,
           \A w \in left : wpc'[w] = wpc[w]
    PROVE  Orderly'
  BY DEF Orderly, InOrder, LeftIdle, Returned, Released, shutdownVars

LEMMA RequestOrderly ==
    ASSUME Process, NEW r \in Requests,
           RequestStep(r) \/ CopyRuns(r) \/ FinalizeGoesOn(r) \/ DetachedRuns(r)
    PROVE  Orderly'
<1>1. UNCHANGED <<wpc, shutdownVars>> /\ phase # "exited"
  BY RequestsKeepWorkers DEF Running
<1>2. UNCHANGED <<wpc, phase, left, hurried>>
  BY <1>1 DEF shutdownVars
<1>3. LeftIdle'
  BY <1>2 DEF LeftIdle, Process, Orderly
<1>4. ASSUME ~hurried PROVE InOrder'
  <2>1. InOrder
    BY <1>4 DEF Process, Orderly
  <2>2. CASE phase \in {"up", "shutdown"}
    BY <1>2, <2>2 DEF InOrder
  <2>3. CASE phase \in {"drain", "waitFinalize", "stop"}
    <3>1. Returned(r) /\ Discipline /\ phase \notin {"up", "shutdown"}
      BY <2>1, <2>3 DEF InOrder, Process
    <3>2. /\ UNCHANGED <<pc, queue>>
          /\ \A q \in Requests : Released(q) => det'[q] = det[q]
      BY <3>1, ReturnedStays
    <3> QED
      BY <1>2, <2>1, <3>2 DEF InOrder, Returned, Released
  <2> QED
    BY <1>1, <2>2, <2>3 DEF Process, Orderly
<1> QED
  BY <1>2, <1>3, <1>4 DEF Process, Orderly

LEMMA WorkerOrderly ==
    ASSUME Process, NEW w \in Workers, WorkerRuns(w)
    PROVE  Orderly'
<1>1. w \notin left /\ UNCHANGED <<pc, det, shutdownVars>>
  BY DEF WorkerRuns, proxyVars
<1>2. wpc \in [Workers -> {"idle", "put", "done"}] /\ left \subseteq Workers /\ Orderly
  BY DEF Process, TypeOK, Orderly, LeftIdle
<1>3. queue = <<>> => queue' = <<>>
  BY DEF WorkerRuns, WorkerStep, WorkerTake, WorkerPut, WorkerDone
<1>4. \E p : wpc' = [wpc EXCEPT ![w] = p]
  BY DEF WorkerRuns, WorkerStep, WorkerTake, WorkerPut, WorkerDone
<1>5. ASSUME NEW v \in left PROVE wpc'[v] = wpc[v]
  BY <1>1, <1>2, <1>4
<1> QED
  BY <1>1, <1>2, <1>3, <1>5, OrderlyQuiet

LEMMA RedisOrderly ==
    ASSUME Process,
           (\E r \in Requests : Redis(r) \/ Elapse(r)) \/ ElapseSession \/ UNCHANGED processVars
    PROVE  Orderly'
<1>1. UNCHANGED <<pc, det, shutdownVars, queue, wpc>>
  BY DEF Redis, RedisLate, Elapse, ElapseSession, processVars, gatewayVars, proxyVars, vars,
         poolVars
<1> QED
  BY <1>1, OrderlyQuiet DEF Process

\* Each call of main returns when the thing it waits for has happened, and
\* what the calls before it waited for has lasted until then.
LEMMA MainOrderly ==
    ASSUME Process, (\E w \in Workers : WorkerExit(w)) \/ Signal \/ ServerError \/ Main
    PROVE  Orderly'
<1>1. UNCHANGED <<pc, det, queue, wpc>>
  BY DEF WorkerExit, Signal, ServerError, Main, Shutdown, Drain, WaitFinalize, TimedOut, Exit, Goto,
         gatewayVars, proxyVars, vars, poolVars
<1>2. Orderly
  BY DEF Process
<1>3. CASE \E w \in Workers : WorkerExit(w)
  BY <1>1, <1>2, <1>3 DEF WorkerExit, Orderly, LeftIdle, InOrder, Returned, Released
<1>4. CASE Signal
  BY <1>1, <1>2, <1>4 DEF Signal, Goto, Orderly, LeftIdle, InOrder
<1>5. CASE ServerError
  BY <1>1, <1>2, <1>5 DEF ServerError, Goto, Orderly, LeftIdle
<1>6. CASE Shutdown
  BY <1>1, <1>2, <1>6 DEF Shutdown, HandlersReturned, Goto, Orderly, LeftIdle, InOrder, Returned
<1>7. CASE Drain
  BY <1>1, <1>2, <1>7 DEF Drain, Goto, Orderly, LeftIdle, InOrder, Returned
<1>8. CASE WaitFinalize
  BY <1>1, <1>2, <1>8 DEF WaitFinalize, FinalizersReturned, Goto, Orderly, LeftIdle, InOrder,
                          Returned, Released
<1>9. CASE TimedOut
  <2>1. phase' \in {"drain", "waitFinalize", "stop"} /\ hurried' = TRUE /\ UNCHANGED left
    BY <1>9 DEF TimedOut, HasDeadline, Phases, Goto
  <2> QED
    BY <1>1, <1>2, <2>1 DEF Orderly, LeftIdle
<1>10. CASE Exit
  BY <1>1, <1>2, <1>10 DEF Exit, Goto, Orderly, LeftIdle, InOrder, Returned, Released
<1> QED
  BY <1>3, <1>4, <1>5, <1>6, <1>7, <1>8, <1>9, <1>10 DEF Main

LEMMA ProcessKept == ProcessSpec => []Process
<1>1. ProcessInit => Process
  <2> SUFFICES ASSUME ProcessInit PROVE Process
    OBVIOUS
  <2>1. TypeOK /\ Discipline
    BY InitType, InitDiscipline DEF ProcessInit, GatewayInit
  <2>2. Orderly
    BY DEF ProcessInit, Orderly, LeftIdle, InOrder
  <2> QED
    BY <2>1, <2>2 DEF Process
<1>2. Process /\ [ProcessNext]_processVars => Process'
  <2> SUFFICES ASSUME Process, [ProcessNext]_processVars PROVE Process'
    OBVIOUS
  <2>1. TypeOK' /\ Discipline'
    BY ProcessDiscipline DEF Process
  <2>2. Orderly'
    BY RequestOrderly, WorkerOrderly, RedisOrderly, MainOrderly DEF ProcessNext
  <2> QED
    BY <2>1, <2>2 DEF Process
<1> QED
  BY <1>1, <1>2, PTL DEF ProcessSpec

-----------------------------------------------------------------------------
(***************************************************************************)
(* main's sequence srv.Shutdown, Drain, WaitFinalize, Stop loses nothing   *)
(* unless a deadline elapsed: Drain may ignore what the workers hold, and  *)
(* WaitFinalize may come after Drain, because no handler is left to fill   *)
(* the queue and Stop waits for the workers.                               *)
(***************************************************************************)
THEOREM OrderlyShutdownLosesNothing == ProcessSpec => []NothingLost
<1>1. Process => NothingLost
  <2> SUFFICES ASSUME Process, ~Running, ~hurried PROVE NothingLost
    BY DEF NothingLost
  <2>1. /\ \A r \in Requests : Returned(r) /\ Released(r)
        /\ queue = <<>> /\ \A w \in Workers : wpc[w] = "idle"
    BY DEF Process, Orderly, InOrder, LeftIdle, Running
  <2>2. ASSUME NEW r \in Requests, pc[r] # "idle"
        PROVE  /\ Gone(r)
               /\ Collected(r) => cnt[r].completed + cnt[r].aborted = 1
               /\ body[r] = "sse" => cnt[r].fok = 1 \/ cnt[r].ferr > 0
    <3>1. Gone(r)
      BY <2>1, <2>2 DEF Gone, Returned, Released
    <3>2. Handling(r) /\ early[r] \in BOOLEAN /\ once[r] \in BOOLEAN
      BY DEF Process, Discipline, ProxyTypes
    <3>3. Collected(r) => Ended(r) = 1
      BY <3>1, <3>2 DEF Handling, FinishedOnce, Completions, Gone
    <3>4. body[r] = "sse" => cnt[r].fok = 1 \/ Failed(r) > 0
      BY <3>1, <3>2 DEF Handling, FinishedOnce, OwnerPlace, Mappings, Failures, Gone, Collected
    <3> QED
      BY <3>1, <3>3, <3>4 DEF Ended, Failed
  <2> QED
    BY <2>1, <2>2 DEF NothingLost
<1> QED
  BY <1>1, ProcessKept, PTL

(***************************************************************************)
(* finalizeWG: no Add happens beside or after main's Wait, unless main     *)
(* gave up waiting for a handler before.                                   *)
(***************************************************************************)
THEOREM FinalizersStartInTime == ProcessSpec => NoLateFinalizer
<1>1. ASSUME Process, [ProcessNext]_processVars, phase \in {"waitFinalize", "stop"}, ~hurried,
             NEW r \in Requests, FinalizerStarts(r)
      PROVE  FALSE
  <2>1. /\ Discipline /\ phase \notin {"up", "shutdown"} /\ \A q \in Requests : Returned(q)
        /\ Released(r) /\ det'[r] # det[r]
    BY <1>1 DEF Process, Orderly, InOrder, FinalizerStarts, Released
  <2>2. ASSUME NEW q \in Requests,
               RequestStep(q) \/ CopyRuns(q) \/ FinalizeGoesOn(q) \/ DetachedRuns(q)
        PROVE  FALSE
    BY <2>1, <2>2, ReturnedStays
  <2>3. ~UNCHANGED det
    BY <2>1
  <2>4. (\E q \in Requests : Redis(q) \/ Elapse(q)) \/ ElapseSession \/ UNCHANGED processVars
          => UNCHANGED det
    BY DEF Redis, Elapse, ElapseSession, processVars, gatewayVars, proxyVars
  <2>5. (\E w \in Workers : WorkerRuns(w) \/ WorkerExit(w)) \/ Signal \/ ServerError \/ Main
          => UNCHANGED det
    BY DEF WorkerRuns, WorkerExit, Signal, ServerError, Main, Shutdown, Drain, WaitFinalize,
           TimedOut, Exit, Goto, gatewayVars, proxyVars
  <2> QED
    BY <1>1, <2>2, <2>3, <2>4, <2>5 DEF ProcessNext
<1>2. Process /\ [ProcessNext]_processVars =>
        [(\E r \in Requests : FinalizerStarts(r)) /\ phase \in {"waitFinalize", "stop"}
            => hurried]_processVars
  BY <1>1 DEF Process, Orderly
<1> QED
  BY <1>2, ProcessKept, PTL DEF ProcessSpec, NoLateFinalizer

-----------------------------------------------------------------------------
(* The collector and the mapping inside the process.                       *)

\* What is known of every state of the gateway, conversations included.
Serving == Base /\ Collecting /\ MappedWhole

\* An entry may expire that the process, before it was gone, has not read:
\* nothing is claimed of its request any more, and the others are the same.
LEMMA DropsCollecting ==
    ASSUME Collecting, TypeOK', Drops
    PROVE  Collecting'
<1>1. PICK r \in Requests :
        ExpireEntry(r) /\ UNCHANGED <<collectorVars, poolVars, sent, mapping, proxyVars>>
  BY DEF Drops
<1>2. UNCHANGED <<owner, seq, sealed, failed, fin, got, tail, sent, inflight, queue, job, wpc>>
  BY <1>1 DEF collectorVars, poolVars
<1>3. StoreTypeOK /\ Conservation /\ Wholeness /\ Accounting
  BY DEF Collecting, Conservation, Accounting, TypeOK
<1>4. /\ UNCHANGED wire /\ expired'[r]
      /\ \A q \in Requests \ {r} : pages'[q] = pages[q] /\ expired'[q] = expired[q]
  BY <1>1, <1>3 DEF ExpireEntry, DropEntry, StoreTypeOK
<1>5. Accounting'
  <2>1. /\ PlacesDistinct' /\ NumbersIssued' /\ InflightCounts'
        /\ \A q \in Requests : Outstanding(q)' = Outstanding(q)
    BY <1>2, <1>3, AccountingQuiet
  <2>2. CallDiscipline' /\ NoFlushAfterRead'
    BY <1>2, <1>3, <2>1 DEF Accounting, CallDiscipline, NoFlushAfterRead
  <2> QED
    BY <2>1, <2>2 DEF Accounting
<1>6. Conservation'
  <2>1. LateMeansFailed' /\ ReadsEveryPage'
    BY <1>2, <1>3, <1>4 DEF Conservation, LateMeansFailed, ReadsEveryPage
  <2>2. ASSUME NEW q \in Requests, Intact(q)' PROVE Conserved(q)'
    <3>1. q # r /\ Intact(q)
      BY <1>2, <1>4, <2>2 DEF Intact
    <3>2. Conserved(q)
      BY <1>3, <3>1, ConservedIs DEF Conservation
    <3> QED
      BY <1>2, <1>4, <3>1, <3>2, ConservedQuiet
  <2>3. PageConservation'
    BY <2>2 DEF PageConservation, Conserved, Busy
  <2> QED
    BY <1>5, <2>1, <2>3 DEF Conservation
<1>7. ASSUME NEW q \in Requests, Sound(q)' PROVE Whole(q)'
  <2>1. q # r /\ Sound(q) /\ pages'[q] = pages[q]
    BY <1>2, <1>4, <1>7 DEF Sound
  <2>2. Whole(q) /\ Same(q) /\ NothingNew(q)
    BY <1>2, <1>3, <2>1, PoolNothingNew DEF Wholeness, Same
  <2> QED
    BY <2>1, <2>2, WholeFrame
<1> QED
  BY <1>6, <1>7 DEF Collecting, Wholeness

LEMMA DropsServing ==
    ASSUME Serving, Drops
    PROVE  Serving'
<1>1. PICK r \in Requests :
        ExpireEntry(r) /\ UNCHANGED <<collectorVars, poolVars, sent, mapping, proxyVars>>
  BY DEF Drops
<1>2. /\ UNCHANGED <<pc, body, eof, early, det, cnt, json, seen, req, mapping>>
      /\ UNCHANGED <<failed, sealed, sawDone, fin, sent>>
  BY <1>1 DEF collectorVars, proxyVars
<1>3. TypeOK' /\ Discipline' /\ TypeOK /\ StoreTypeOK
  BY DropsKeep DEF Serving, Base, TypeOK
<1>4. \A q \in Requests : Compromised(q) => Compromised(q)'
  BY <1>1, <1>2, <1>3 DEF Compromised, ExpireEntry, StoreTypeOK
<1>5. /\ \A q : Collected(q)' = Collected(q) /\ Received(q)' = Received(q)
      /\ \A q : Complete(q)' = Complete(q) /\ StateOf(q)' = StateOf(q)
  BY <1>2 DEF Collected, Received, Complete, Reply, StateOf
<1>6. LengthsOK'
  BY <1>2 DEF Serving, Base, LengthsOK
<1>7. Lineage'
  BY <1>2, <1>5 DEF Serving, Base, Lineage, SessionTypes, Participates, MappingBegan, ResolvedBegan, Began
<1>8. ASSUME NEW q \in Requests PROVE Watching(q)' /\ EarlyMapped(q)'
  <2>1. Watching(q) /\ EarlyMapped(q)
    BY DEF Serving, MappedWhole
  <2>2. JsonPlace(q)' /\ SeenBound(q)' /\ DoneSeals(q)'
    BY <1>2, <1>5, <2>1 DEF Watching, JsonPlace, SeenBound, DoneSeals
  <2>3. SeenSealed(q)' /\ SealedEarly(q)'
    BY <1>2, <2>1 DEF Watching, SeenSealed, SeenDone, SealedEarly, Failed
  <2>4. EarlyMapped(q)'
    BY <1>2, <1>4, <1>5, <2>1 DEF EarlyMapped
  <2> QED
    BY <2>2, <2>3, <2>4 DEF Watching
<1>9. MappingSound'
  BY <1>2, <1>4, <1>5 DEF Serving, MappedWhole, MappingSound
<1>10. Collecting'
  BY <1>3, DropsCollecting DEF Serving
<1> QED
  BY <1>3, <1>6, <1>7, <1>8, <1>9, <1>10 DEF Serving, Base, MappedWhole

LEMMA ProcessServing == ProcessSpec => []Serving
<1>1. ProcessInit => Serving
  <2> SUFFICES ASSUME ProcessInit PROVE Serving
    OBVIOUS
  <2>1. GatewayInit /\ CollectorInit
    BY DEF ProcessInit, GatewayInit
  <2>2. Base
    BY <2>1, InitType, InitDiscipline, InitLengths, InitLineage DEF Base
  <2>3. Collecting
    BY <2>1, InitConservation, InitWholeness DEF Collecting
  <2> QED
    BY <2>1, <2>2, <2>3, InitMappedWhole DEF Serving
<1>2. Serving /\ [ProcessNext]_processVars => Serving'
  <2> SUFFICES ASSUME Serving, [ProcessNext]_processVars PROVE Serving'
    OBVIOUS
  <2>1. CASE [GatewayNext]_gatewayVars
    <3>1. Base /\ Collecting /\ MappedWhole /\ [CollectorNext]_vars
      BY <2>1, GatewayStep DEF Serving
    <3>2. Base'
      BY <2>1, <3>1, NextType, NextDiscipline, NextLengths, NextLineage DEF Base
    <3>3. Collecting'
      BY <3>1, NextConservation, NextWholeness DEF Collecting
    <3>4. MappedWhole'
      BY <2>1, <3>1, NextMappedWhole
    <3> QED
      BY <3>2, <3>3, <3>4 DEF Serving
  <2>2. CASE Drops
    BY <2>2, DropsServing
  <2> QED
    BY <2>1, <2>2, ProcessStep
<1> QED
  BY <1>1, <1>2, PTL DEF ProcessSpec

(***************************************************************************)
(* What a process leaves in Redis is right, whenever it ends - in order,   *)
(* after an elapsed deadline, or at once because the server failed in the  *)
(* middle of streams, flushes and finalizers: every key of the mapping is  *)
(* the complete state that a request of that client ended in, with its     *)
(* session (unless it lost a page), and it stays so while late writes are  *)
(* applied and entries expire.                                             *)
(***************************************************************************)
THEOREM MappingOutlivesProcess == ProcessSpec => []MappingSound
<1>1. Serving => MappingSound
  BY DEF Serving, MappedWhole
<1> QED
  BY <1>1, ProcessServing, PTL

(***************************************************************************)
(* The shutdown disturbs no request that is still under way: finalizers,   *)
(* workers that have returned and abandoned waits notwithstanding, a       *)
(* successful Finalize has every page and the whole message, the mapping   *)
(* comes before [DONE], and sessions stay with their clients.              *)
(***************************************************************************)
THEOREM GatewayUndisturbed ==
    ProcessSpec => [](/\ ReadsEveryPage /\ WholeUnlessLost
                      /\ MappedBeforeDoneSeen /\ SessionStaysWithClient)
<1>1. Serving => ReadsEveryPage /\ WholeUnlessLost
  BY WholeParse DEF Serving, Collecting, Conservation
<1>2. Serving => MappedBeforeDoneSeen
  BY DoneSeenMapped DEF Serving
<1>3. Serving => SessionStaysWithClient
  BY DEF Serving, Base, Lineage, ResolvedBegan, Began, SessionStaysWithClient
<1> QED
  BY <1>1, <1>2, <1>3, ProcessServing, PTL
=============================================================================

---------------------------- MODULE MappingProofs ----------------------------
(***************************************************************************)
(* Theorems about the mapping of conversation states to sessions, for      *)
(* every value of the gateway's constants: what is mapped and when, and    *)
(* that the gateway implements Affinity.  For the latter, first the        *)
(* collector when no flush can fail and no entry expires under a request:  *)
(* a Finalize that succeeds never returns less than the whole; then the    *)
(* types of the conversation states; then the simulation, step by step.    *)
(***************************************************************************)
EXTENDS GatewayProofs, ResponseProofs

\* A JSON response is finalized at its end, and mapped if it parses.
JsonPlace(r) ==
    body[r] = "json" =>
        /\ det[r] \in {"json", "put"} => eof[r]
        /\ det[r] = "put" => AssistantFromMessage(json[r].data).result = "ok"

\* The client has received a part of what the gateway has.
SeenBound(r) ==
    /\ seen[r] \in Nat
    /\ ~Collected(r) => seen[r] = 0
    /\ seen[r] <= Len(Received(r))

IsDone(p) == p.kind = "done"

\* The collector has not overlooked a [DONE], unless it had given up.
DoneSeals(r) ==
    /\ sawDone[r] => sealed[r]
    /\ ~failed[r] /\ (\E i \in DOMAIN sent[r] : IsDone(sent[r][i])) => sealed[r]

\* A [DONE] that the client has received was dealt with before.
SeenSealed(r) ==
    SeenDone(r) /\ ~failed[r] => sealed[r] /\ pc[r] \notin {"write", "map"}

\* The callback of Write has left its mark.
SealedEarly(r) ==
    body[r] = "sse" /\ sealed[r] /\ pc[r] \notin {"write", "map"} => early[r] \/ Failed(r) > 0

\* After an early finalization the mapping of the whole answer is there.
EarlyMapped(r) ==
    early[r] /\ pc[r] # "map" /\ ~Compromised(r) /\ ~SessionFaults =>
        Complete(r) /\ <<req[r].client, StateOf(r)>> \in DOMAIN mapping

Watching(r) == JsonPlace(r) /\ SeenBound(r) /\ DoneSeals(r) /\ SeenSealed(r) /\ SealedEarly(r)

\* The inductive invariant of the mapping.
MappedWhole ==
    /\ \A r \in Requests : Watching(r) /\ EarlyMapped(r)
    /\ MappingSound

\* What is known of every state of the gateway.
Base == TypeOK /\ Discipline /\ LengthsOK /\ Lineage

-----------------------------------------------------------------------------
(* What a step does to one request.                                        *)

\* Nothing of request q changes that the invariant speaks of.
SameAt(q) ==
    /\ pc'[q] = pc[q] /\ body'[q] = body[q] /\ eof'[q] = eof[q] /\ early'[q] = early[q]
    /\ det'[q] = det[q] /\ cnt'[q] = cnt[q] /\ json'[q] = json[q] /\ seen'[q] = seen[q]
    /\ sawDone'[q] = sawDone[q] /\ sealed'[q] = sealed[q] /\ sent'[q] = sent[q]
    /\ failed[q] => failed'[q]

\* A step of the handler for request r.
StepOf(r) ==
    Arrival(r) \/ Upstream(r) \/ CopyGoroutine(r) \/ FinalizeRuns(r) \/ Detached(r)

\* The types behind the frame facts.
LEMMA BaseTypes ==
    ASSUME Base
    PROVE  /\ pc \in [Requests -> PCs] /\ body \in [Requests -> {"none", "sse", "json", "plain"}]
           /\ eof \in [Requests -> BOOLEAN] /\ early \in [Requests -> BOOLEAN]
           /\ det \in [Requests -> Dets] /\ cnt \in [Requests -> Counts]
           /\ json = [r \in Requests |-> json[r]] /\ seen \in [Requests -> 0..MaxUnits]
           /\ sawDone \in [Requests -> BOOLEAN] /\ sealed \in [Requests -> BOOLEAN]
           /\ failed \in [Requests -> BOOLEAN] /\ sent \in [Requests -> Seq(Piece)]
           /\ owner \in [Requests -> Owners] /\ tail \in [Requests -> Seq(Piece)]
           /\ expired \in [Requests -> BOOLEAN]
  BY DEF Base, TypeOK, StoreTypeOK, Discipline, ProxyTypes, LengthsOK

\* What finish leaves alone.
LEMMA FinishLeaves ==
    ASSUME NEW r, NEW e, finish(r, e)
    PROVE  UNCHANGED <<sawDone, sealed, sent, failed, expired>>
  BY DEF finish, CloseBody, vars, collectorVars, storeVars

LEMMA EndCollected ==
    ASSUME Base, NEW r \in Requests, ReadReturns(r) \/ ReadEOF(r) \/ Close(r)
    PROVE  Collected(r)
  BY DEF Base, ReadReturns, ReadEOF, Close, Collected, Discipline, ProxyTypes, Handling, CopyPlace

LEMMA Elsewhere ==
    ASSUME Base, NEW r \in Requests, StepOf(r), NEW q \in Requests, q # r
    PROVE  SameAt(q)
<1> USE DEF SameAt
<1>1. CASE Arrival(r) \/ CopyPlain(r) \/ ReadFails(r) \/ DeliverFails(r) \/ Deliver(r)
  BY <1>1, BaseTypes DEF Arrival, ServeChat, ServeTransparent, ServeRefused, modifyResponse,
     NewCollector, CopyPlain, ReadFails, DeliverFails, Deliver, vars, collectorVars
<1>2. CASE ReadStream(r)
  <2>1. PICK c \in Chunks : Write(r, c)
    BY <1>2 DEF ReadStream
  <2>2. /\ sawDone'[q] = sawDone[q] /\ sealed'[q] = sealed[q] /\ sent'[q] = sent[q]
        /\ failed[q] => failed'[q]
    BY <2>1, BaseTypes DEF Write, submit, watchDone
  <2> QED
    BY <1>2, <2>2, BaseTypes DEF ReadStream
<1>3. CASE ReadJson(r)
  BY <1>3, BaseTypes DEF ReadJson, vars, collectorVars
<1>4. CASE ReadReturns(r) \/ ReadEOF(r) \/ Close(r)
  <2>1. UNCHANGED <<body, early, json, seen>> /\ eof'[q] = eof[q] /\ pc'[q] = pc[q]
    BY <1>4, BaseTypes DEF ReadReturns, ReadEOF, Close
  <2>2. ASSUME NEW e \in BOOLEAN, finish(r, e) PROVE det'[q] = det[q] /\ cnt'[q] = cnt[q]
    <3>1. Collected(r) /\ TypeOK /\ Discipline
      BY <1>4, EndCollected DEF Base
    <3> QED
      BY <2>2, <3>1, Finish DEF Adds
  <2>3. CASE UNCHANGED <<det, cnt, vars>>
    BY <2>1, <2>3 DEF vars, collectorVars
  <2>4. CASE \E e \in BOOLEAN : finish(r, e)
    BY <2>1, <2>2, <2>4, FinishLeaves
  <2> QED
    BY <1>4, <2>3, <2>4, BaseTypes DEF ReadReturns, ReadEOF, Close
<1>5. CASE AtDoneFails(r) \/ AtDoneSucceeds(r) \/ AtDoneMaps(r)
  <2>1. cnt'[q] = cnt[q]
    BY <1>5, BaseTypes DEF AtDoneFails, AtDoneSucceeds, AtDoneMaps, putMapping, Count
  <2> QED
    BY <1>5, <2>1, BaseTypes DEF AtDoneFails, AtDoneSucceeds, AtDoneMaps, WriteReturn, vars, collectorVars
<1>6. CASE Detached(r)
  <2>1. cnt'[q] = cnt[q] /\ det'[q] = det[q]
    BY <1>6, BaseTypes DEF Detached, finalizeStream, finalizeStreamOnClose, finalizeJSON, DetachedMaps,
                putMapping, Count
  <2> QED
    BY <1>6, <2>1, BaseTypes DEF Detached, finalizeStream, finalizeStreamOnClose, finalizeJSON, DetachedMaps,
                vars, collectorVars
<1>7. CASE FinalizeRuns(r)
  BY <1>7 DEF FinalizeRuns, FinalizeStep, FinalizeCall, FinalizeWait, FinalizeRead, FinalizeDelete,
              proxyVars
<1> QED
  BY <1>1, <1>2, <1>3, <1>4, <1>5, <1>6, <1>7 DEF StepOf, Upstream, CopyGoroutine

LEMMA EnvironmentSame ==
    ASSUME Base, Environment \/ UNCHANGED gatewayVars, NEW q \in Requests
    PROVE  SameAt(q)
<1> USE DEF SameAt
<1>1. CASE \E w \in Workers : WorkerStep(w) /\ UNCHANGED <<mapping, proxyVars>>
  <2>1. failed[q] => failed'[q]
    BY <1>1, BaseTypes DEF WorkerStep, WorkerTake, WorkerPut, WorkerDone, collectorVars
  <2> QED
    BY <1>1, <2>1 DEF WorkerStep, WorkerTake, WorkerPut, WorkerDone, collectorVars, proxyVars
<1>2. CASE ~\E w \in Workers : WorkerStep(w) /\ UNCHANGED <<mapping, proxyVars>>
  BY <1>2 DEF Environment, RedisLate, Expire, collectorVars, proxyVars, vars, gatewayVars
<1> QED
  BY <1>1, <1>2

-----------------------------------------------------------------------------
(* What the client has seen, and what the collector has.                   *)

\* A step that keeps the copy goroutine in or out of the callback, and
\* counts no failure back.
LEMMA WatchingOn ==
    ASSUME NEW r \in Requests, Watching(r), JsonPlace(r)',
           body'[r] = body[r], early'[r] = early[r], json'[r] = json[r], seen'[r] = seen[r],
           sawDone'[r] = sawDone[r], sealed'[r] = sealed[r], sent'[r] = sent[r],
           failed[r] => failed'[r], Failed(r) > 0 => Failed(r)' > 0,
           pc'[r] \in {"write", "map"} <=> pc[r] \in {"write", "map"}
    PROVE  Watching(r)'
<1>1. SeenBound(r)'
  BY DEF Watching, SeenBound, Received, Collected
<1>2. DoneSeals(r)'
  BY DEF Watching, DoneSeals
<1>3. SeenDone(r)' = SeenDone(r)
  BY DEF SeenDone
<1>4. SeenSealed(r)' /\ SealedEarly(r)'
  BY <1>3 DEF Watching, SeenSealed, SealedEarly
<1> QED
  BY <1>1, <1>2, <1>4 DEF Watching

LEMMA WatchingSame ==
    ASSUME NEW q \in Requests, Watching(q), SameAt(q)
    PROVE  Watching(q)'
<1>1. JsonPlace(q)'
  BY DEF Watching, JsonPlace, SameAt
<1>2. Failed(q)' = Failed(q)
  BY DEF Failed, SameAt
<1> QED
  BY <1>1, <1>2, WatchingOn DEF SameAt

\* The handler's other steps.
LEMMA PlaceWatching ==
    ASSUME Base, NEW r \in Requests, Watching(r),
           ServeChat(r) \/ ServeTransparent(r) \/ ServeRefused(r) \/ CopyPlain(r)
             \/ ReadFails(r) \/ DeliverFails(r)
    PROVE  Watching(r)'
<1>1. /\ UNCHANGED <<body, eof, early, det, json, cnt, seen, sawDone, sealed, sent, failed>>
      /\ pc[r] \in {"idle", "upstream", "read", "deliver"}
      /\ pc'[r] \in {"upstream", "over", "close"}
  BY BaseTypes DEF ServeChat, ServeTransparent, ServeRefused, CopyPlain, ReadFails, DeliverFails,
     vars, collectorVars
<1>2. JsonPlace(r)' /\ Failed(r)' = Failed(r)
  BY <1>1 DEF Watching, JsonPlace, Failed
<1> QED
  BY <1>1, <1>2, WatchingOn

LEMMA WrapWatching ==
    ASSUME Base, NEW r \in Requests, Watching(r), modifyResponse(r)
    PROVE  Watching(r)'
<1>1. /\ UNCHANGED <<eof, early, det, json, cnt, seen, sawDone, sealed, sent, failed>>
      /\ pc[r] = "upstream" /\ pc'[r] = "read"
  BY BaseTypes DEF modifyResponse, NewCollector, vars, collectorVars
<1>2. Untouched(r) /\ body[r] = "none"
  BY <1>1 DEF Base, Discipline, ProxyTypes, Handling, CopyPlace, PCs
<1>3. seen[r] = 0 /\ seen'[r] = 0
  BY <1>1, <1>2 DEF Watching, SeenBound, Collected
<1>4. Len(Received(r))' \in Nat
  BY <1>1, BaseTypes DEF Received, Base, LengthsOK
<1>5. SeenBound(r)'
  BY <1>3, <1>4 DEF SeenBound
<1>6. ~SeenDone(r)'
  BY <1>3 DEF SeenDone
<1>7. JsonPlace(r)' /\ DoneSeals(r)' /\ SealedEarly(r)' /\ SeenSealed(r)'
  BY <1>1, <1>2, <1>6 DEF JsonPlace, Untouched, Watching, DoneSeals, SealedEarly, SeenSealed
<1> QED
  BY <1>5, <1>7 DEF Watching

LEMMA JsonWatching ==
    ASSUME Base, NEW r \in Requests, Watching(r), ReadJson(r)
    PROVE  Watching(r)'
<1>1. /\ UNCHANGED <<body, eof, early, det, cnt, seen, sawDone, sealed, sent, failed>>
      /\ pc[r] = "read" /\ pc'[r] = "teed" /\ body[r] = "json"
  BY BaseTypes DEF ReadJson, vars, collectorVars
<1>2. det[r] = "none"
  BY <1>1 DEF Base, Discipline, Handling, FinishedOnce, Collected
<1>3. JsonPlace(r)'
  BY <1>1, <1>2 DEF JsonPlace
<1>4. PICK n : n = Len(json[r].data)
  OBVIOUS
<1>5. json[r].data \in Seq(Piece) /\ n \in Nat
  BY <1>4 DEF Base, LengthsOK
<1>6. PICK c \in Chunks : json'[r].data = json[r].data \o Pieces(c, n)
  <2>1. PICK c \in Chunks :
          json' = [json EXCEPT ![r] = [data |-> json[r].data \o Pieces(c, Len(json[r].data)),
                      kept |-> json[r].kept /\ Len(json[r].data) + Len(c) <= JsonLimit]]
    BY DEF ReadJson, Base, LengthsOK
  <2>2. DOMAIN json = Requests
    BY DEF Base, LengthsOK
  <2> QED
    BY <1>4, <2>1, <2>2
<1>7. Len(json'[r].data) = n + Len(c) /\ Len(c) \in Nat
  <2>1. Len(json[r].data \o Pieces(c, n)) = n + Len(c)
    BY <1>4, <1>5, ChunkLength
  <2>2. Len(c) \in Nat
    BY <1>5, ChunkLength, ChunkAssumption
  <2> QED
    BY <1>6, <2>1, <2>2
<1>8. SeenBound(r)'
  <2>1. seen[r] \in Nat /\ seen[r] <= n
    BY <1>1, <1>4 DEF Watching, SeenBound, Received
  <2>2. seen'[r] <= Len(Received(r))'
    BY <1>1, <1>5, <1>7, <2>1 DEF Received
  <2> QED
    BY <1>1, <2>1, <2>2 DEF SeenBound, Collected
<1>9. DoneSeals(r)' /\ SeenSealed(r)' /\ SealedEarly(r)'
  BY <1>1 DEF Watching, DoneSeals, SeenSealed, SealedEarly, SeenDone
<1> QED
  BY <1>3, <1>8, <1>9 DEF Watching

LEMMA DeliverWatching ==
    ASSUME Base, NEW r \in Requests, Watching(r), Deliver(r)
    PROVE  Watching(r)'
<1>1. /\ UNCHANGED <<body, eof, early, det, cnt, json, sawDone, sealed, sent, failed>>
      /\ pc[r] = "deliver" /\ pc'[r] \in {"close", "read"} /\ seen'[r] = Len(Received(r))
  BY BaseTypes DEF Deliver, vars, collectorVars
<1>2. Collected(r)
  BY <1>1 DEF Base, Discipline, Handling, CopyPlace, Collected, ProxyTypes
<1>3. Len(Received(r)) \in Nat
  BY BaseTypes DEF Received, Base, LengthsOK
<1>4. SeenBound(r)'
  <2>1. Received(r)' = Received(r) /\ Collected(r)'
    BY <1>1, <1>2 DEF Received, Collected
  <2> QED
    BY <1>1, <1>3, <2>1 DEF SeenBound
<1>5. ASSUME SeenDone(r)', ~failed'[r] PROVE sealed'[r]
  <2>1. body[r] = "sse" /\ \E i \in 1..Len(sent[r]) : sent[r][i].kind = "done"
    BY <1>1, <1>5 DEF SeenDone, Received
  <2>2. DOMAIN sent[r] = 1..Len(sent[r])
    BY BaseTypes
  <2> QED
    BY <1>1, <1>5, <2>1, <2>2 DEF Watching, DoneSeals, IsDone
<1>6. SeenSealed(r)'
  BY <1>1, <1>5 DEF SeenSealed
<1>7. JsonPlace(r)' /\ DoneSeals(r)' /\ SealedEarly(r)'
  BY <1>1 DEF Watching, JsonPlace, DoneSeals, SealedEarly, Failed
<1> QED
  BY <1>4, <1>6, <1>7 DEF Watching

\* Read returns: EOF, or the close.
LEMMA EndWatching ==
    ASSUME Base, NEW r \in Requests, Watching(r), ReadReturns(r) \/ ReadEOF(r) \/ Close(r)
    PROVE  Watching(r)'
<1>0. Collected(r) /\ TypeOK /\ Discipline
  BY EndCollected DEF Base
<1>1. /\ UNCHANGED <<body, early, json, seen>>
      /\ pc[r] \in {"teed", "read", "close"} /\ pc'[r] \in {"deliver", "close", "over"}
  BY BaseTypes DEF ReadReturns, ReadEOF, Close
<1>2. UNCHANGED <<sawDone, sealed, sent, failed>>
  BY FinishLeaves DEF ReadReturns, ReadEOF, Close, vars, collectorVars
<1>3. CASE UNCHANGED <<eof, det, cnt>>
  <2>1. JsonPlace(r)' /\ Failed(r)' = Failed(r)
    BY <1>1, <1>3 DEF Watching, JsonPlace, Failed
  <2> QED
    BY <1>1, <1>2, <2>1, WatchingOn
<1>4. CASE \E e \in BOOLEAN : finish(r, e) /\ (e => eof'[r]) /\ (eof[r] => eof'[r])
  <2>1. PICK e \in BOOLEAN : finish(r, e) /\ (e => eof'[r]) /\ (eof[r] => eof'[r])
    BY <1>4
  <2>2. /\ \E k \in {0, 1} : Adds(r, k, 0, 0, 0)
        /\ \/ det' = det
           \/ body[r] = "json" /\ e /\ det'[r] \in {"none", "json"}
           \/ body[r] = "sse"
    BY <1>0, <2>1, Finish DEF Collected
  <2>3. Failed(r) > 0 => Failed(r)' > 0
    BY <2>2 DEF Adds
  <2>4. JsonPlace(r)'
    BY <1>1, <2>1, <2>2 DEF Watching, JsonPlace
  <2> QED
    BY <1>1, <1>2, <2>3, <2>4, WatchingOn
<1>5. \/ UNCHANGED <<eof, det, cnt>>
      \/ \E e \in BOOLEAN : finish(r, e) /\ (e => eof'[r]) /\ (eof[r] => eof'[r])
  <2>1. CASE ReadReturns(r) \/ ReadEOF(r)
    BY <2>1, BaseTypes DEF ReadReturns, ReadEOF
  <2>2. CASE Close(r)
    BY <2>2, BaseTypes DEF Close
  <2> QED
    BY <2>1, <2>2
<1> QED
  BY <1>3, <1>4, <1>5

LEMMA AtDoneWatching ==
    ASSUME Base, NEW r \in Requests, Watching(r),
           AtDoneFails(r) \/ AtDoneSucceeds(r) \/ AtDoneMaps(r)
    PROVE  Watching(r)'
<1>1. /\ UNCHANGED <<body, eof, det, json, seen, sawDone, sealed, sent, failed>>
      /\ pc[r] \in {"write", "map"}
  BY DEF AtDoneFails, AtDoneSucceeds, AtDoneMaps, WriteReturn, vars, collectorVars
<1>2. body[r] = "sse" /\ sealed[r]
  BY <1>1 DEF Base, Discipline, Handling, CopyPlace, OwnerPlace, ProxyTypes
<1>3. \/ AtDoneFails(r) /\ pc'[r] = "teed" /\ Failed(r)' > 0
      \/ AtDoneSucceeds(r) /\ pc'[r] = "map"
      \/ AtDoneMaps(r) /\ pc'[r] = "teed" /\ early'[r]
  <2>1. CASE AtDoneFails(r)
    <3>1. Adds(r, 0, 1, 0, 0)
      BY <2>1, BaseTypes, CountAdds DEF AtDoneFails
    <3>2. Failed(r)' > 0
      BY <3>1 DEF Adds
    <3> QED
      BY <2>1, <3>2, BaseTypes DEF AtDoneFails
  <2>2. CASE AtDoneSucceeds(r)
    BY <2>2, BaseTypes DEF AtDoneSucceeds
  <2>3. CASE AtDoneMaps(r)
    <3>1. early[r]
      BY <1>2, <2>3 DEF AtDoneMaps, Base, Discipline, Handling, OwnerPlace
    <3> QED
      BY <2>3, <3>1, BaseTypes DEF AtDoneMaps
  <2> QED
    BY <2>1, <2>2, <2>3
<1>4. SeenDone(r) => failed[r]
  BY <1>1 DEF Watching, SeenSealed
<1>5. SeenDone(r)' = SeenDone(r)
  BY <1>1 DEF SeenDone
<1>6. SeenSealed(r)' /\ SealedEarly(r)'
  BY <1>1, <1>3, <1>4, <1>5 DEF SeenSealed, SealedEarly
<1>7. JsonPlace(r)' /\ DoneSeals(r)' /\ SeenBound(r)'
  BY <1>1 DEF Watching, JsonPlace, DoneSeals, SeenBound, Received, Collected
<1> QED
  BY <1>6, <1>7 DEF Watching

LEMMA DetachedWatching ==
    ASSUME Base, NEW r \in Requests, Watching(r), Detached(r) \/ FinalizeRuns(r)
    PROVE  Watching(r)'
<1>1. UNCHANGED <<pc, body, eof, early, json, seen, sawDone, sealed, sent, failed>>
  BY DEF Detached, finalizeStream, finalizeStreamOnClose, finalizeJSON, DetachedMaps, FinalizeRuns,
         FinalizeStep, FinalizeCall, FinalizeWait, FinalizeRead, FinalizeDelete, vars, collectorVars,
         proxyVars
<1>2. Failed(r) > 0 => Failed(r)' > 0
  <2>1. CASE FinalizeRuns(r)
    BY <2>1 DEF FinalizeRuns, proxyVars, Failed
  <2>2. CASE Detached(r)
    <3>1. \E a, b, c, d \in {0, 1} : Adds(r, a, b, c, d)
      BY <2>2, BaseTypes, CountAdds DEF Detached, finalizeStream, finalizeStreamOnClose, finalizeJSON,
                                        DetachedMaps, putMapping
    <3> QED
      BY <3>1 DEF Adds
  <2> QED
    BY <2>1, <2>2
<1>3. JsonPlace(r)'
  <2>1. CASE FinalizeRuns(r)
    BY <1>1, <2>1 DEF Watching, JsonPlace, FinalizeRuns, proxyVars
  <2>2. CASE finalizeJSON(r)
    BY <1>1, <2>2, BaseTypes DEF Watching, JsonPlace, finalizeJSON
  <2>3. CASE DetachedMaps(r)
    BY <1>1, <2>3, BaseTypes DEF Watching, JsonPlace, DetachedMaps
  <2>4. CASE finalizeStream(r) \/ finalizeStreamOnClose(r)
    <3>1. body[r] # "json"
      BY <2>4 DEF finalizeStream, finalizeStreamOnClose, Base, Discipline, Handling, CopyPlace
    <3> QED
      BY <1>1, <3>1 DEF JsonPlace
  <2> QED
    BY <2>1, <2>2, <2>3, <2>4 DEF Detached
<1> QED
  BY <1>1, <1>2, <1>3, WatchingOn

\* The pieces of a chunk carry its kinds, wherever it comes in the response.
LEMMA ChunkHasDone ==
    ASSUME NEW c \in Chunks, NEW n \in Nat, NEW i \in DOMAIN Pieces(c, n), IsDone(Pieces(c, n)[i])
    PROVE  HasDoneLine(Pieces(c, 0))
<1>1. DOMAIN Pieces(c, n) = 1..Len(c) /\ DOMAIN Pieces(c, 0) = 1..Len(c)
  BY DEF Pieces
<1>2. Pieces(c, n)[i].kind = c[i] /\ Pieces(c, 0)[i].kind = c[i]
  BY <1>1 DEF Pieces
<1> QED
  BY <1>1, <1>2 DEF HasDoneLine, IsDoneLine, IsDone

\* What a Write does to the watch for [DONE].
LEMMA WriteWatch ==
    ASSUME Base, NEW r \in Requests, NEW c \in Chunks, Write(r, c)
    PROVE  /\ sent'[r] = sent[r] \o Pieces(c, Len(sent[r]))
           /\ failed[r] => failed'[r]
           /\ \/ Ignores(r) /\ UNCHANGED <<sawDone, sealed, owner>>
              \/ /\ ~Ignores(r) /\ ~sawDone[r] /\ HasDoneLine(Pieces(c, 0))
                 /\ sawDone'[r] /\ sealed'[r] /\ owner'[r] = "onDone"
              \/ /\ ~Ignores(r) /\ (sawDone[r] \/ ~HasDoneLine(Pieces(c, 0)))
                 /\ UNCHANGED <<sawDone, sealed, owner>>
           /\ owner[r] = "writing"
<1>1. sent'[r] = sent[r] \o Pieces(c, Len(sent[r])) /\ (failed[r] => failed'[r]) /\ owner[r] = "writing"
  BY BaseTypes DEF Write, submit
<1>2. CASE Ignores(r)
  BY <1>1, <1>2 DEF Write
<1>3. CASE ~Ignores(r)
  <2>1. watchDone(r, c)
    BY <1>3 DEF Write
  <2> QED
    BY <1>1, <1>3, <2>1, BaseTypes DEF watchDone
<1> QED
  BY <1>2, <1>3

LEMMA StreamWatching ==
    ASSUME Base, NEW r \in Requests, Watching(r), ReadStream(r)
    PROVE  Watching(r)'
<1>1. PICK c \in Chunks : Write(r, c)
  BY DEF ReadStream
<1>2. /\ UNCHANGED <<body, eof, early, det, json, cnt, seen>>
      /\ pc[r] = "read" /\ body[r] = "sse"
      /\ pc'[r] = IF owner'[r] = "onDone" THEN "write" ELSE "teed"
  BY BaseTypes DEF ReadStream
<1>3. PICK x : x = sent[r]
  OBVIOUS
<1>4. PICK y : y = Pieces(c, Len(x))
  OBVIOUS
<1>5. x \in Seq(Piece) /\ Len(x) \in Nat
  BY <1>3, BaseTypes
<1>6. y \in Seq(Piece)
  BY <1>4, <1>5, PiecesType
<1>7. /\ sent'[r] = x \o y /\ (failed[r] => failed'[r]) /\ owner[r] = "writing"
      /\ \/ Ignores(r) /\ UNCHANGED <<sawDone, sealed, owner>>
         \/ /\ ~Ignores(r) /\ sawDone'[r] /\ sealed'[r] /\ owner'[r] = "onDone"
         \/ /\ ~Ignores(r) /\ (sawDone[r] \/ ~HasDoneLine(Pieces(c, 0)))
            /\ UNCHANGED <<sawDone, sealed, owner>>
  BY <1>1, <1>3, <1>4, WriteWatch
<1>8. /\ Len(x \o y) = Len(x) + Len(y) /\ Len(y) \in Nat /\ DOMAIN y = 1..Len(y)
      /\ DOMAIN x = 1..Len(x) /\ DOMAIN (x \o y) = 1..(Len(x) + Len(y))
      /\ \A i \in 1..Len(x) : (x \o y)[i] = x[i]
      /\ \A i \in 1..(Len(x) + Len(y)) : i \in 1..Len(x) \/
            (i - Len(x) \in 1..Len(y) /\ (x \o y)[i] = y[i - Len(x)])
  BY <1>5, <1>6
<1>9. SeenBound(r)'
  <2>1. seen[r] \in Nat /\ seen[r] <= Len(x)
    BY <1>2, <1>3 DEF Watching, SeenBound, Received
  <2>2. Len(Received(r))' = Len(x) + Len(y)
    BY <1>2, <1>7, <1>8 DEF Received
  <2>3. seen[r] <= Len(x) + Len(y)
    BY <1>5, <1>8, <2>1
  <2> QED
    BY <1>2, <2>1, <2>2, <2>3 DEF SeenBound, Collected
<1>10. SeenDone(r)' = SeenDone(r)
  <2>1. \A i \in 1..seen[r] : i \in 1..Len(x)
    BY <1>2, <1>3, <1>5 DEF Watching, SeenBound, Received
  <2>2. \A i \in 1..seen[r] : sent'[r][i] = sent[r][i]
    BY <1>3, <1>7, <1>8, <2>1
  <2> QED
    BY <1>2, <2>2 DEF SeenDone
<1>11. DoneSeals(r)'
  <2>1. sawDone'[r] => sealed'[r]
    BY <1>7 DEF Watching, DoneSeals
  <2>2. ASSUME ~failed'[r], NEW i \in DOMAIN sent'[r], IsDone(sent'[r][i]) PROVE sealed'[r]
    <3>1. CASE i \in 1..Len(x)
      <4>1. sealed[r]
        BY <1>3, <1>7, <1>8, <2>2, <3>1 DEF Watching, DoneSeals
      <4> QED
        BY <1>7, <4>1
    <3>2. CASE i \notin 1..Len(x)
      <4>1. i - Len(x) \in DOMAIN y /\ IsDone(y[i - Len(x)])
        BY <1>7, <1>8, <2>2, <3>2
      <4>2. HasDoneLine(Pieces(c, 0))
        BY <1>4, <1>5, <4>1, ChunkHasDone
      <4>3. ~failed[r]
        BY <1>7, <2>2
      <4> QED
        BY <1>7, <4>2, <4>3 DEF Watching, DoneSeals, Ignores
    <3> QED
      BY <3>1, <3>2
  <2> QED
    BY <2>1, <2>2 DEF DoneSeals
<1>12. SeenSealed(r)'
  <2> SUFFICES ASSUME SeenDone(r), ~failed'[r] PROVE sealed'[r] /\ pc'[r] \notin {"write", "map"}
    BY <1>10 DEF SeenSealed
  <2>1. sealed[r] /\ ~failed[r]
    BY <1>7 DEF Watching, SeenSealed
  <2>2. UNCHANGED <<sealed, owner>>
    BY <1>7, <2>1 DEF Ignores
  <2> QED
    BY <1>2, <1>7, <2>1, <2>2
<1>13. SealedEarly(r)'
  <2>1. CASE UNCHANGED <<sealed, owner>>
    BY <1>2, <2>1 DEF Watching, SealedEarly, Failed
  <2>2. CASE owner'[r] = "onDone"
    BY <1>2, <2>2 DEF SealedEarly
  <2> QED
    BY <1>7, <2>1, <2>2
<1>14. JsonPlace(r)'
  BY <1>2 DEF JsonPlace
<1> QED
  BY <1>9, <1>11, <1>12, <1>13, <1>14 DEF Watching

LEMMA NextWatching ==
    ASSUME Base, \A r \in Requests : Watching(r), [GatewayNext]_gatewayVars
    PROVE  \A r \in Requests : Watching(r)'
<1> SUFFICES ASSUME NEW q \in Requests PROVE Watching(q)'
  OBVIOUS
<1>1. CASE \E r \in Requests : StepOf(r)
  <2>1. PICK r \in Requests : StepOf(r)
    BY <1>1
  <2>2. CASE q # r
    BY <2>1, <2>2, Elsewhere, WatchingSame
  <2>3. CASE q = r
    <3>1. Watching(r) /\ StepOf(r)
      BY <2>1
    <3>2. CASE ServeChat(r) \/ ServeTransparent(r) \/ ServeRefused(r) \/ CopyPlain(r)
                 \/ ReadFails(r) \/ DeliverFails(r)
      BY <2>3, <3>1, <3>2, PlaceWatching
    <3>3. CASE modifyResponse(r)
      BY <2>3, <3>1, <3>3, WrapWatching
    <3>4. CASE ReadStream(r)
      BY <2>3, <3>1, <3>4, StreamWatching
    <3>5. CASE ReadJson(r)
      BY <2>3, <3>1, <3>5, JsonWatching
    <3>6. CASE Deliver(r)
      BY <2>3, <3>1, <3>6, DeliverWatching
    <3>7. CASE ReadReturns(r) \/ ReadEOF(r) \/ Close(r)
      BY <2>3, <3>1, <3>7, EndWatching
    <3>8. CASE AtDoneFails(r) \/ AtDoneSucceeds(r) \/ AtDoneMaps(r)
      BY <2>3, <3>1, <3>8, AtDoneWatching
    <3>9. CASE Detached(r) \/ FinalizeRuns(r)
      BY <2>3, <3>1, <3>9, DetachedWatching
    <3> QED
      BY <3>1, <3>2, <3>3, <3>4, <3>5, <3>6, <3>7, <3>8, <3>9 DEF StepOf, Arrival, Upstream, CopyGoroutine
  <2> QED
    BY <2>2, <2>3
<1>2. CASE Environment \/ UNCHANGED gatewayVars
  BY <1>2, EnvironmentSame, WatchingSame
<1> QED
  BY <1>1, <1>2 DEF GatewayNext, StepOf

-----------------------------------------------------------------------------
(* A complete answer stays what it is.                                     *)

\* What has come of request q only grows.
GrowsAt(q) ==
    /\ Collected(q) => body'[q] = body[q]
    /\ req[q].participate => req'[q] = req[q]
    /\ eof[q] => eof'[q]
    /\ Compromised(q) => Compromised(q)'
    /\ \E y \in Seq(Piece) : sent'[q] = sent[q] \o y
    /\ body[q] = "json" /\ eof[q] => json'[q] = json[q]

LEMMA LossStays ==
    ASSUME TypeOK, [CollectorNext]_vars, NEW q \in Requests
    PROVE  (failed[q] => failed'[q]) /\ (expired[q] => expired'[q])
<1>0. failed \in [Requests -> BOOLEAN] /\ expired \in [Requests -> BOOLEAN]
  BY DEF TypeOK, StoreTypeOK
<1>1. ASSUME NEW r \in Requests, CopyStep(r)
      PROVE  (failed[q] => failed'[q]) /\ (expired[q] => expired'[q])
  BY <1>0, <1>1 DEF CopyStep, NewCollector, Write, submit, WriteReturn, CloseBody, storeVars
<1>2. ASSUME NEW r \in Requests, FinalizeStep(r) \/ Abort(r)
      PROVE  (failed[q] => failed'[q]) /\ (expired[q] => expired'[q])
  BY <1>0, <1>2 DEF FinalizeStep, FinalizeCall, FinalizeWait, FinalizeRead, FinalizeDelete, Abort,
                    DeletePages, storeVars
<1>3. ASSUME NEW w \in Workers, WorkerStep(w)
      PROVE  (failed[q] => failed'[q]) /\ (expired[q] => expired'[q])
  BY <1>0, <1>3 DEF WorkerStep, WorkerTake, WorkerPut, WorkerDone, PutPage, PutPageError, storeVars,
                    collectorVars
<1>4. ASSUME NEW r \in Requests, RedisLate(r) \/ Expire(r)
      PROVE  (failed[q] => failed'[q]) /\ (expired[q] => expired'[q])
  BY <1>0, <1>4 DEF RedisLate, Expire, LatePut, ExpireEntry, collectorVars
<1>5. CASE UNCHANGED vars
  BY <1>5 DEF vars, storeVars, collectorVars
<1> QED
  BY <1>1, <1>2, <1>3, <1>4, <1>5 DEF CollectorNext, Rest

LEMMA NextGrows ==
    ASSUME Base, [GatewayNext]_gatewayVars, NEW q \in Requests
    PROVE  GrowsAt(q)
<1>1. Compromised(q) => Compromised(q)'
  BY GatewayStep, LossStays DEF Base, Compromised
<1>2. ASSUME sent'[q] = sent[q] PROVE \E y \in Seq(Piece) : sent'[q] = sent[q] \o y
  <2>1. sent[q] \in Seq(Piece)
    BY BaseTypes
  <2>2. <<>> \in Seq(Piece) /\ sent[q] \o <<>> = sent[q]
    BY <2>1, ConcatEmptySeq
  <2> QED
    BY <1>2, <2>2
<1>3. req[q].participate => req'[q] = req[q]
  <2>1. ASSUME NEW r \in Requests, ServeChat(r), req[q].participate PROVE req'[q] = req[q]
    <3>1. ~req[r].participate
      BY <2>1 DEF ServeChat, Base, Lineage, Participates, NoReq
    <3>2. q # r
      BY <2>1, <3>1
    <3> QED
      BY <2>1, <3>2 DEF ServeChat
  <2> QED
    BY <2>1, SessionSteps DEF Base
<1>4. ASSUME SameAt(q) PROVE GrowsAt(q)
  BY <1>1, <1>2, <1>3, <1>4 DEF GrowsAt, SameAt
<1>5. CASE \E r \in Requests : StepOf(r)
  <2>1. PICK r \in Requests : StepOf(r)
    BY <1>5
  <2>2. CASE q # r
    BY <1>4, <2>1, <2>2, Elsewhere
  <2>3. CASE q = r
    <3>1. CASE modifyResponse(q)
      <4>1. ~Collected(q)
        BY <3>1 DEF modifyResponse, Base, Discipline, Handling, CopyPlace, Collected
      <4>2. sent' = sent /\ eof' = eof
        BY <3>1 DEF modifyResponse, NewCollector, vars
      <4> QED
        BY <1>1, <1>2, <1>3, <4>1, <4>2 DEF GrowsAt, Collected
    <3>2. CASE ReadStream(q)
      <4>1. PICK c \in Chunks : Write(q, c)
        BY <3>2 DEF ReadStream
      <4>2. sent[q] \in Seq(Piece) /\ Len(sent[q]) \in Nat
        BY BaseTypes
      <4>3. Pieces(c, Len(sent[q])) \in Seq(Piece)
        BY <4>2, PiecesType
      <4>4. sent'[q] = sent[q] \o Pieces(c, Len(sent[q]))
        BY <4>1, WriteWatch
      <4> QED
        BY <1>1, <1>3, <3>2, <4>3, <4>4 DEF GrowsAt, ReadStream
    <3>3. CASE ReadJson(q)
      <4>1. ~eof[q] /\ UNCHANGED <<body, eof, sent>>
        BY <3>3 DEF ReadJson, vars, Base, Discipline, Handling, FinishedOnce, Collected
      <4> QED
        BY <1>1, <1>2, <1>3, <4>1 DEF GrowsAt
    <3>4. CASE ReadReturns(q) \/ ReadEOF(q) \/ Close(q)
      <4>1. UNCHANGED <<body, json, sent>> /\ (eof[q] => eof'[q])
        BY <3>4, FinishLeaves, BaseTypes DEF ReadReturns, ReadEOF, Close, vars
      <4> QED
        BY <1>1, <1>2, <1>3, <4>1 DEF GrowsAt
    <3>5. CASE ServeChat(q) \/ ServeTransparent(q) \/ ServeRefused(q) \/ CopyPlain(q)
                 \/ ReadFails(q) \/ DeliverFails(q) \/ Deliver(q)
      <4>1. UNCHANGED <<body, json, sent, eof>>
        BY <3>5 DEF ServeChat, ServeTransparent, ServeRefused, CopyPlain, ReadFails, DeliverFails,
                    Deliver, vars
      <4> QED
        BY <1>1, <1>2, <1>3, <4>1 DEF GrowsAt
    <3>6. CASE AtDoneFails(q) \/ AtDoneSucceeds(q) \/ AtDoneMaps(q) \/ Detached(q) \/ FinalizeRuns(q)
      <4>1. UNCHANGED <<body, json, sent, eof>>
        BY <3>6 DEF AtDoneFails, AtDoneSucceeds, AtDoneMaps, WriteReturn, Detached, finalizeStream,
                finalizeStreamOnClose, finalizeJSON, DetachedMaps, FinalizeRuns, FinalizeStep,
                FinalizeCall, FinalizeWait, FinalizeRead, FinalizeDelete, vars, proxyVars
      <4> QED
        BY <1>1, <1>2, <1>3, <4>1 DEF GrowsAt
    <3> QED
      BY <2>1, <2>3, <3>1, <3>2, <3>3, <3>4, <3>5, <3>6 DEF StepOf, Arrival, Upstream, CopyGoroutine
  <2> QED
    BY <2>2, <2>3
<1>6. CASE Environment \/ UNCHANGED gatewayVars
  BY <1>4, <1>6, EnvironmentSame
<1> QED
  BY <1>5, <1>6 DEF GatewayNext, StepOf

\* More bytes after the sentinel do not change the message.
LEMMA LongerParse ==
    ASSUME NEW x \in Seq(Piece), NEW y \in Seq(Piece), AssistantFromSSE(x).result = "ok"
    PROVE  AssistantFromSSE(x \o y) = AssistantFromSSE(x)
<1>1. x \o y \in Seq(Piece) /\ Len(x \o y) = Len(x) + Len(y) /\ Len(x) \in Nat /\ Len(y) \in Nat
  BY ConcatProperties
<1>2. SubSeq(x \o y, 0 + 1, Len(x)) = SubSeq(x, 0 + 1, Len(x))
  BY <1>1, SliceStays
<1>3. SubSeq(x, 1, Len(x)) = x
  BY SubSeqFull
<1>4. 0 + 1 = 1
  OBVIOUS
<1>5. SubSeq(x \o y, 1, Len(x)) = x
  BY <1>2, <1>3, <1>4
<1>6. Len(x) \in 0..Len(x \o y)
  BY <1>1
<1>7. HasSentinel(x)
  BY OkHasSentinel
<1> QED
  BY <1>1, <1>5, <1>6, <1>7, PrefixParse

LEMMA CompleteStays ==
    ASSUME Base, NEW q \in Requests, GrowsAt(q), Complete(q)
    PROVE  Complete(q)' /\ StateOf(q)' = StateOf(q)
<1>1. Collected(q) /\ req[q].participate
  BY DEF Complete
<1>2. body'[q] = body[q] /\ req'[q] = req[q] /\ Collected(q)'
  BY <1>1 DEF GrowsAt, Collected
<1>3. Reply(q, Received(q))' = Reply(q, Received(q))
  <2>1. CASE body[q] = "sse"
    <3>1. PICK y \in Seq(Piece) : sent'[q] = sent[q] \o y
      BY DEF GrowsAt
    <3>2. sent[q] \in Seq(Piece) /\ AssistantFromSSE(sent[q]).result = "ok"
      BY <2>1, BaseTypes DEF Complete, Reply, Received
    <3>3. AssistantFromSSE(sent'[q]) = AssistantFromSSE(sent[q])
      BY <3>1, <3>2, LongerParse
    <3> QED
      BY <1>2, <2>1, <3>3 DEF Reply, Received
  <2>2. CASE body[q] = "json"
    BY <1>2, <2>2 DEF GrowsAt, Complete, Reply, Received
  <2> QED
    BY <1>1, <2>1, <2>2 DEF Collected
<1>4. body[q] = "json" => eof'[q]
  BY DEF Complete, GrowsAt
<1> QED
  BY <1>1, <1>2, <1>3, <1>4 DEF Complete, StateOf

-----------------------------------------------------------------------------
(* The mapping.                                                            *)

Collecting == Conservation /\ Wholeness

\* Finalize has returned the message of the whole stream.
LEMMA StreamWhole ==
    ASSUME Base, Collecting, NEW r \in Requests, body[r] = "sse", fin[r] = "ok", ~Compromised(r)
    PROVE  Complete(r) /\ Reply(r, Received(r)) = AssistantFromSSE(Payload(r))
<1>1. AssistantFromSSE(Payload(r)) = AssistantFromSSE(sent[r])
  BY WholeParse DEF Collecting, WholeUnlessLost, Compromised
<1>2. AssistantFromSSE(Payload(r)).result = "ok"
  BY DEF Collecting, Wholeness, Sound, Whole, Parsed, Compromised
<1>3. Reply(r, Received(r)) = AssistantFromSSE(sent[r])
  BY DEF Reply, Received
<1>4. req[r].participate /\ Collected(r)
  BY DEF Base, Lineage, Participates, Collected
<1> QED
  BY <1>1, <1>2, <1>3, <1>4 DEF Complete

\* What putMapping writes: the state that the request ended in.
Writes(r) ==
    /\ req[r].participate
    /\ \E state :
          /\ Compromised(r) \/ (Complete(r) /\ state = StateOf(r))
          /\ \/ SetSession(<<req[r].client, state>>, req[r].sid)
             \/ SessionFaults /\ UNCHANGED mapping

LEMMA PutWrites ==
    ASSUME NEW r \in Requests, req[r].participate, NEW text, putMapping(r, text),
           Compromised(r) \/ (Complete(r) /\ Reply(r, Received(r)).text = text)
    PROVE  Writes(r)
<1>1. PICK state : state = FullState(req[r].msgs, Assistant(text))
  OBVIOUS
<1>2. \/ SetSession(<<req[r].client, state>>, req[r].sid)
      \/ SessionFaults /\ UNCHANGED mapping
  BY <1>1 DEF putMapping, PutSession, PutSessionError, SessionKey
<1>3. Compromised(r) \/ (Complete(r) /\ state = StateOf(r))
  BY <1>1 DEF StateOf
<1> QED
  BY <1>2, <1>3 DEF Writes

LEMMA AtDoneWrites ==
    ASSUME Base, Collecting, NEW r \in Requests, AtDoneMaps(r)
    PROVE  Writes(r)
<1>1. body[r] = "sse" /\ fin[r] = "ok"
  BY DEF AtDoneMaps, Base, Discipline, Handling, CopyPlace, OwnerPlace, ProxyTypes
<1>2. req[r].participate
  BY <1>1 DEF Base, Lineage, Participates, Collected
<1>3. putMapping(r, AssistantFromSSE(Payload(r)).text)
  BY DEF AtDoneMaps
<1> QED
  BY <1>1, <1>2, <1>3, StreamWhole, PutWrites

LEMMA DetachedWrites ==
    ASSUME Base, Collecting, NEW r \in Requests, Watching(r), DetachedMaps(r)
    PROVE  Writes(r)
<1>1. Collected(r) /\ det[r] = "put"
  BY DEF DetachedMaps, Base, Discipline, Handling, CopyPlace, Collected, ProxyTypes, Untouched
<1>2. req[r].participate
  BY <1>1 DEF Base, Lineage, Participates
<1>3. CASE body[r] = "sse"
  <2>1. fin[r] = "ok"
    BY <1>1, <1>3 DEF Base, Discipline, Handling, OwnerPlace, FinishedOnce
  <2>2. putMapping(r, AssistantFromSSE(Payload(r)).text)
    BY <1>3 DEF DetachedMaps
  <2> QED
    BY <1>2, <1>3, <2>1, <2>2, StreamWhole, PutWrites
<1>4. CASE body[r] = "json"
  <2>1. eof[r] /\ AssistantFromMessage(json[r].data).result = "ok"
    BY <1>1, <1>4 DEF Watching, JsonPlace
  <2>2. putMapping(r, AssistantFromMessage(json[r].data).text)
    BY <1>4 DEF DetachedMaps
  <2>3. Complete(r) /\ Reply(r, Received(r)) = AssistantFromMessage(json[r].data)
    BY <1>1, <1>2, <1>4, <2>1 DEF Complete, Reply, Received
  <2> QED
    BY <1>2, <2>2, <2>3, PutWrites
<1> QED
  BY <1>1, <1>3, <1>4 DEF Collected

\* The steps, by what they do to the mapping and to early finalization.
LEMMA MappingSteps ==
    ASSUME Base, Collecting, \A r \in Requests : Watching(r), [GatewayNext]_gatewayVars
    PROVE  \/ /\ UNCHANGED mapping \/ ExpireSession
              /\ \A q \in Requests : early'[q] /\ pc'[q] # "map" => early[q] /\ pc[q] # "map"
           \/ \E r \in Requests :
                 /\ Writes(r)
                 /\ \A q \in Requests : early'[q] /\ pc'[q] # "map" => q = r \/ (early[q] /\ pc[q] # "map")
<1>0. ASSUME NEW r \in Requests, ~AtDoneMaps(r), StepOf(r), NEW q \in Requests, early'[q], pc'[q] # "map"
      PROVE  early[q] /\ pc[q] # "map"
  <2>1. CASE q # r
    BY <1>0, <2>1, Elsewhere DEF SameAt
  <2>2. CASE q = r
    <3>1. CASE AtDoneFails(r) \/ AtDoneSucceeds(r)
      <4>1. ~early[r] /\ body[r] = "sse"
        BY <3>1, BaseTypes DEF AtDoneFails, AtDoneSucceeds, Base, Discipline, Handling, CopyPlace, OwnerPlace
      <4> QED
        BY <1>0, <2>2, <3>1, <4>1, BaseTypes DEF AtDoneFails, AtDoneSucceeds
    <3>2. CASE ~(AtDoneFails(r) \/ AtDoneSucceeds(r))
      <4>1. UNCHANGED early
        BY <1>0, <3>2 DEF StepOf, Arrival, ServeChat, ServeTransparent, ServeRefused, modifyResponse,
             Upstream, ReadStream, ReadJson, ReadEOF, ReadFails, CopyGoroutine, ReadReturns, Deliver,
             DeliverFails, Close, CopyPlain, FinalizeRuns, Detached, finalizeStream,
             finalizeStreamOnClose, finalizeJSON, DetachedMaps, proxyVars
      <4>2. pc[r] = "map" => pc'[r] = "map"
        BY <1>0, <3>2 DEF StepOf, Arrival, ServeChat, ServeTransparent, ServeRefused, modifyResponse,
             Upstream, ReadStream, ReadJson, ReadEOF, ReadFails, CopyGoroutine, ReadReturns, Deliver,
             DeliverFails, Close, CopyPlain, FinalizeRuns, Detached, finalizeStream,
             finalizeStreamOnClose, finalizeJSON, DetachedMaps, proxyVars
      <4> QED
        BY <1>0, <2>2, <4>1, <4>2
    <3> QED
      BY <3>1, <3>2
  <2> QED
    BY <2>1, <2>2
<1>1. ASSUME NEW r \in Requests, StepOf(r), ~AtDoneMaps(r), ~DetachedMaps(r) PROVE UNCHANGED mapping
  BY <1>1 DEF StepOf, Arrival, ServeChat, ServeTransparent, ServeRefused, modifyResponse, Upstream,
         ReadStream, ReadJson, ReadEOF, ReadFails, CopyGoroutine, ReadReturns, Deliver, DeliverFails,
         Close, CopyPlain, AtDoneFails, AtDoneSucceeds, FinalizeRuns, Detached, finalizeStream,
         finalizeStreamOnClose, finalizeJSON
<1>2. ASSUME NEW r \in Requests, AtDoneMaps(r)
      PROVE  /\ Writes(r)
             /\ \A q \in Requests : early'[q] /\ pc'[q] # "map" => q = r \/ (early[q] /\ pc[q] # "map")
  <2>1. StepOf(r)
    BY <1>2 DEF StepOf, CopyGoroutine
  <2> QED
    BY <1>2, <2>1, AtDoneWrites, Elsewhere DEF SameAt
<1>3. ASSUME NEW r \in Requests, DetachedMaps(r)
      PROVE  /\ Writes(r)
             /\ \A q \in Requests : early'[q] /\ pc'[q] # "map" => early[q] /\ pc[q] # "map"
  BY <1>3, DetachedWrites DEF DetachedMaps
<1>4. CASE Environment \/ UNCHANGED gatewayVars
  <2>1. \A q \in Requests : early'[q] /\ pc'[q] # "map" => early[q] /\ pc[q] # "map"
    BY <1>4, EnvironmentSame DEF SameAt
  <2>2. UNCHANGED mapping \/ ExpireSession
    BY <1>4 DEF Environment, gatewayVars
  <2> QED
    BY <2>1, <2>2
<1> QED
  BY <1>0, <1>1, <1>2, <1>3, <1>4 DEF GatewayNext, StepOf

\* A key of the mapping is justified by request r.
Justifies(r, k, sid) ==
    /\ req[r].participate /\ req[r].client = k[1] /\ req[r].sid = sid
    /\ Compromised(r) \/ (Complete(r) /\ k[2] = StateOf(r))

LEMMA JustifiesStays ==
    ASSUME Base, NEW r \in Requests, NEW k, NEW sid, GrowsAt(r), Justifies(r, k, sid)
    PROVE  Justifies(r, k, sid)'
<1>1. req'[r] = req[r] /\ (Compromised(r) => Compromised(r)')
  BY DEF Justifies, GrowsAt
<1>2. Complete(r) => Complete(r)' /\ StateOf(r)' = StateOf(r)
  BY CompleteStays
<1> QED
  BY <1>1, <1>2 DEF Justifies

LEMMA NextMappedWhole ==
    ASSUME Base, Collecting, MappedWhole, [GatewayNext]_gatewayVars
    PROVE  MappedWhole'
<1>1. \A r \in Requests : Watching(r)
  BY DEF MappedWhole
<1>2. \A r \in Requests : Watching(r)'
  BY <1>1, NextWatching
<1>3. \A r \in Requests : GrowsAt(r)
  BY NextGrows
<1>4. \A k \in DOMAIN mapping : \E r \in Requests : Justifies(r, k, mapping[k])
  BY DEF MappedWhole, MappingSound, Justifies
<1>5. ASSUME \A k \in DOMAIN mapping' : \E r \in Requests : Justifies(r, k, mapping[k])'
      PROVE  MappingSound'
  BY <1>5 DEF MappingSound, Justifies
<1>6. ASSUME NEW q \in Requests, early[q], pc[q] # "map", ~Compromised(q)', ~SessionFaults,
             DOMAIN mapping \subseteq DOMAIN mapping'
      PROVE  Complete(q)' /\ <<req[q].client, StateOf(q)>>' \in DOMAIN mapping'
  <2>1. ~Compromised(q)
    BY <1>3, <1>6 DEF GrowsAt
  <2>2. Complete(q) /\ <<req[q].client, StateOf(q)>> \in DOMAIN mapping
    BY <1>6, <2>1 DEF MappedWhole, EarlyMapped
  <2>3. Complete(q)' /\ StateOf(q)' = StateOf(q) /\ req'[q] = req[q]
    BY <1>3, <2>2, CompleteStays DEF GrowsAt, Complete
  <2> QED
    BY <1>6, <2>2, <2>3
<1>7. CASE /\ UNCHANGED mapping \/ ExpireSession
           /\ \A q \in Requests : early'[q] /\ pc'[q] # "map" => early[q] /\ pc[q] # "map"
  <2>1. \A k \in DOMAIN mapping' : k \in DOMAIN mapping /\ mapping'[k] = mapping[k]
    BY <1>7 DEF ExpireSession
  <2>2. MappingSound'
    <3> SUFFICES ASSUME NEW k \in DOMAIN mapping'
                 PROVE  \E r \in Requests : Justifies(r, k, mapping[k])'
      BY <1>5
    <3>1. PICK r \in Requests : Justifies(r, k, mapping[k])
      BY <1>4, <2>1
    <3>2. PICK sid : sid = mapping[k] /\ sid = mapping'[k]
      BY <2>1
    <3>3. Justifies(r, k, sid)'
      BY <1>3, <3>1, <3>2, JustifiesStays
    <3> QED
      BY <3>2, <3>3 DEF Justifies
  <2>3. ASSUME NEW q \in Requests PROVE EarlyMapped(q)'
    <3>1. ~SessionFaults => UNCHANGED mapping
      BY <1>7 DEF ExpireSession
    <3> QED
      BY <1>6, <1>7, <3>1 DEF EarlyMapped
  <2> QED
    BY <1>2, <2>2, <2>3 DEF MappedWhole
<1>8. CASE \E r \in Requests :
              /\ Writes(r)
              /\ \A q \in Requests : early'[q] /\ pc'[q] # "map" => q = r \/ (early[q] /\ pc[q] # "map")
  <2>1. PICK r \in Requests :
              /\ Writes(r)
              /\ \A q \in Requests : early'[q] /\ pc'[q] # "map" => q = r \/ (early[q] /\ pc[q] # "map")
    BY <1>8
  <2>2. PICK state : /\ Compromised(r) \/ (Complete(r) /\ state = StateOf(r))
                     /\ \/ SetSession(<<req[r].client, state>>, req[r].sid)
                        \/ SessionFaults /\ UNCHANGED mapping
    BY <2>1 DEF Writes
  <2>3. PICK key : key = <<req[r].client, state>>
    OBVIOUS
  <2>4. \/ mapping' = [k \in DOMAIN mapping \cup {key} |-> IF k = key THEN req[r].sid ELSE mapping[k]]
        \/ SessionFaults /\ UNCHANGED mapping
    BY <2>2, <2>3 DEF SetSession
  <2>5. Justifies(r, key, req[r].sid)
    BY <2>1, <2>2, <2>3 DEF Justifies, Writes
  <2>6. MappingSound'
    <3> SUFFICES ASSUME NEW k \in DOMAIN mapping'
                 PROVE  \E p \in Requests : Justifies(p, k, mapping[k])'
      BY <1>5
    <3>1. PICK sid : sid = mapping'[k]
      OBVIOUS
    <3>2. PICK p \in Requests : Justifies(p, k, sid)
      <4>1. (k = key /\ sid = req[r].sid) \/ (k \in DOMAIN mapping /\ sid = mapping[k])
        BY <2>4, <3>1
      <4> QED
        BY <1>4, <2>5, <4>1
    <3>3. Justifies(p, k, sid)'
      BY <1>3, <3>2, JustifiesStays
    <3> QED
      BY <3>1, <3>3 DEF Justifies
  <2>7. ASSUME NEW q \in Requests PROVE EarlyMapped(q)'
    <3> SUFFICES ASSUME early'[q], pc'[q] # "map", ~Compromised(q)', ~SessionFaults
                 PROVE  Complete(q)' /\ <<req[q].client, StateOf(q)>>' \in DOMAIN mapping'
      BY DEF EarlyMapped
    <3>1. DOMAIN mapping' = DOMAIN mapping \cup {key}
      BY <2>4
    <3>2. CASE q = r
      <4>1. ~Compromised(r)
        BY <1>3, <3>2 DEF GrowsAt
      <4>2. Complete(r) /\ state = StateOf(r)
        BY <2>2, <4>1
      <4>3. Complete(r)' /\ StateOf(r)' = StateOf(r) /\ req'[r] = req[r]
        BY <1>3, <4>2, CompleteStays DEF GrowsAt, Complete
      <4> QED
        BY <2>3, <3>1, <3>2, <4>2, <4>3
    <3>3. CASE early[q] /\ pc[q] # "map"
      BY <1>6, <3>1, <3>3
    <3> QED
      BY <2>1, <3>2, <3>3
  <2> QED
    BY <1>2, <2>6, <2>7 DEF MappedWhole
<1> QED
  BY <1>1, <1>7, <1>8, MappingSteps

LEMMA InitMappedWhole == GatewayInit => MappedWhole
<1> SUFFICES ASSUME GatewayInit PROVE MappedWhole
  OBVIOUS
<1>1. DOMAIN mapping = {}
  BY DEF GatewayInit, SessionInit
<1>2. ASSUME NEW r \in Requests PROVE Watching(r) /\ EarlyMapped(r)
  <2>1. /\ body[r] = "none" /\ seen[r] = 0 /\ sent[r] = <<>> /\ ~sealed[r] /\ ~sawDone[r] /\ ~early[r]
    BY DEF GatewayInit, CollectorInit
  <2>2. ~SeenDone(r) /\ ~Collected(r) /\ Received(r) = <<>> /\ Len(<<>>) = 0
    BY <2>1 DEF SeenDone, Collected, Received
  <2>3. JsonPlace(r) /\ SeenBound(r) /\ DoneSeals(r)
    BY <2>1, <2>2 DEF JsonPlace, SeenBound, DoneSeals
  <2>4. SeenSealed(r) /\ SealedEarly(r) /\ EarlyMapped(r)
    BY <2>1, <2>2 DEF SeenSealed, SealedEarly, EarlyMapped
  <2> QED
    BY <2>3, <2>4 DEF Watching
<1> QED
  BY <1>1, <1>2 DEF MappedWhole, MappingSound

LEMMA GatewayMappedWhole == GatewaySpec => [](Base /\ Collecting /\ MappedWhole)
<1>1. GatewayInit => LengthsOK /\ Lineage /\ MappedWhole
  BY InitLengths, InitLineage, InitMappedWhole
<1>2. Base /\ [GatewayNext]_gatewayVars => (LengthsOK /\ Lineage)'
  BY NextLengths, NextLineage DEF Base
<1>3. Base /\ Collecting /\ MappedWhole /\ [GatewayNext]_gatewayVars => MappedWhole'
  BY NextMappedWhole
<1>4. GatewaySpec => [](TypeOK /\ Discipline)
  BY GatewayDiscipline
<1>5. GatewaySpec => []Collecting
  BY GatewayUsesCollector, CollectorWholeness, PTL DEF Collecting
<1>6. Base <=> (TypeOK /\ Discipline) /\ LengthsOK /\ Lineage
  BY DEF Base
<1> QED
  BY <1>1, <1>2, <1>3, <1>4, <1>5, <1>6, PTL DEF GatewaySpec

(***************************************************************************)
(* The mapping is sound in every state: each key leads to the session of a *)
(* request of that client and is the state which that request ended in,    *)
(* with the assistant message of its whole answer, however its pages,      *)
(* finalizers and retries interleaved with other requests; only requests   *)
(* that lost a page to a failed flush or to an expired entry are excepted. *)
(***************************************************************************)
THEOREM MappingIsSound == GatewaySpec => []MappingSound
<1>1. MappedWhole => MappingSound
  BY DEF MappedWhole
<1> QED
  BY <1>1, GatewayMappedWhole, PTL

LEMMA DoneSeenMapped == Base /\ MappedWhole => MappedBeforeDoneSeen
<1> SUFFICES ASSUME Base, MappedWhole, NEW r \in Requests, SeenDone(r), ~Compromised(r),
                    cnt[r].ferr = 0, ~SessionFaults
             PROVE  <<req[r].client, StateOf(r)>> \in DOMAIN mapping
  BY DEF MappedBeforeDoneSeen
<1>1. sealed[r] /\ pc[r] \notin {"write", "map"}
  BY DEF MappedWhole, Watching, SeenSealed, Compromised
<1>2. early[r]
  BY <1>1 DEF MappedWhole, Watching, SealedEarly, SeenDone, Failed
<1> QED
  BY <1>1, <1>2 DEF MappedWhole, EarlyMapped

(***************************************************************************)
(* The mapping of a streamed answer is written before its client can have  *)
(* received [DONE], so a client that continues at once finds its session,  *)
(* unless a failure of the request was counted or Redis lost something.    *)
(***************************************************************************)
THEOREM DoneComesAfterMapping == GatewaySpec => []MappedBeforeDoneSeen
  BY DoneSeenMapped, GatewayMappedWhole, PTL

-----------------------------------------------------------------------------
(* The promise of Affinity.                                                *)

\* Redis may fail to answer a read and to delete, but it applies each write
\* it was asked for and keeps an entry while its request is under way.
KeepsPages == Faults \subseteq {"get", "del"}

\* Nothing is lost while Finalize is at work, nor after it succeeded.
Undisturbed(r) ==
    /\ fin[r] \in FinSteps \cup {"ok"} => ~failed[r]
    /\ expired[r] => Finished(r)
    /\ fin[r] = "ok" => /\ AssistantFromSSE(Payload(r)).result = "ok"
                        /\ AssistantFromSSE(Payload(r)) = AssistantFromSSE(sent[r])

Faultless == \A r \in Requests : Undisturbed(r)

-----------------------------------------------------------------------------
(* The collector over a Redis that keeps its pages.                        *)

LEMMA UndisturbedFrame ==
    ASSUME NEW r \in Requests, Undisturbed(r), fin'[r] = fin[r], failed'[r] = failed[r],
           expired'[r] = expired[r], owner'[r] = owner[r], got'[r] = got[r], tail'[r] = tail[r],
           sent'[r] = sent[r]
    PROVE  Undisturbed(r)'
  BY DEF Undisturbed, Finished, Payload

\* A request that writes is not being finalized.
LEMMA CopyFaultless ==
    ASSUME Conservation, Faultless, NEW q \in Requests, CopyStep(q)
    PROVE  Faultless'
<1>1. TypeOK /\ CallDiscipline
  BY DEF Conservation, Accounting
<1>2. UNCHANGED expired
  BY DEF CopyStep, NewCollector, Write, WriteReturn, CloseBody, storeVars
<1>3. ASSUME NEW r \in Requests, r # q PROVE Undisturbed(r)'
  <2>1. /\ fin'[r] = fin[r] /\ failed'[r] = failed[r] /\ owner'[r] = owner[r] /\ got'[r] = got[r]
        /\ tail'[r] = tail[r] /\ sent'[r] = sent[r]
    <3>1. CASE \E c \in Chunks : Write(q, c)
      <4>1. PICK c \in Chunks : Write(q, c)
        BY <3>1
      <4>2. fin' = fin /\ got' = got
        BY <4>1 DEF Write
      <4>3. sent'[r] = sent[r]
        BY <1>1, <1>3, <4>1 DEF TypeOK, Write
      <4>4. failed'[r] = failed[r] /\ owner'[r] = owner[r] /\ tail'[r] = tail[r]
        BY <1>1, <1>3, <4>1 DEF TypeOK, Write, submit, watchDone
      <4> QED
        BY <4>2, <4>3, <4>4
    <3>2. CASE NewCollector(q) \/ WriteReturn(q) \/ CloseBody(q)
      BY <1>1, <1>3, <3>2 DEF TypeOK, NewCollector, WriteReturn, CloseBody
    <3> QED
      BY <3>1, <3>2 DEF CopyStep
  <2> QED
    BY <1>2, <2>1, UndisturbedFrame DEF Faultless
<1>4. Undisturbed(q)'
  <2>1. owner[q] # "gone" /\ ~expired[q]
    BY DEF CopyStep, NewCollector, Write, WriteReturn, CloseBody, Faultless, Undisturbed, Finished
  <2>2. fin'[q] \notin FinSteps \cup {"ok"}
    BY <1>1 DEF CallDiscipline, TypeOK, CopyStep, NewCollector, Write, WriteReturn, CloseBody,
                FinSteps, FinResults, FinErrors
  <2> QED
    BY <1>2, <2>1, <2>2 DEF Undisturbed
<1> QED
  BY <1>3, <1>4 DEF Faultless

LEMMA FinalizeFaultless ==
    ASSUME Conservation, Wholeness, Faultless, Wholeness', WholeUnlessLost',
           NEW q \in Requests, FinalizeStep(q) \/ Abort(q)
    PROVE  Faultless'
<1>1. TypeOK
  BY DEF Conservation, Accounting
<1>2. UNCHANGED <<owner, tail, sent, expired>>
  BY DEF FinalizeStep, FinalizeCall, FinalizeWait, FinalizeRead, FinalizeDelete, Abort, DeletePages,
         storeVars
<1>3. ASSUME NEW r \in Requests, r # q PROVE Undisturbed(r)'
  <2>1. fin'[r] = fin[r] /\ failed'[r] = failed[r] /\ got'[r] = got[r]
    BY <1>1, <1>3 DEF TypeOK, FinalizeStep, FinalizeCall, FinalizeWait, FinalizeRead,
                      FinalizeDelete, Abort
  <2> QED
    BY <1>2, <2>1, UndisturbedFrame DEF Faultless
<1>4. Undisturbed(q)'
  <2>1. Undisturbed(q) /\ fin \in [Requests -> FinStates] /\ failed \in [Requests -> BOOLEAN]
    BY <1>1 DEF Faultless, TypeOK
  <2>2. ~expired[q]
    BY <2>1 DEF Undisturbed, Finished, FinResults, FinErrors, FinalizeStep, FinalizeCall,
                FinalizeWait, FinalizeRead, FinalizeDelete, Abort
  <2>3. fin'[q] \in FinSteps \cup {"ok"} => ~failed'[q]
    BY <2>1 DEF Undisturbed, FinSteps, FinResults, FinErrors, FinalizeStep, FinalizeCall,
                FinalizeWait, FinalizeRead, FinalizeDelete, Abort
  <2>4. ASSUME fin'[q] = "ok"
        PROVE  /\ AssistantFromSSE(Payload(q)').result = "ok"
               /\ AssistantFromSSE(Payload(q)') = AssistantFromSSE(sent'[q])
    <3>1. Sound(q)'
      BY <1>2, <2>2, <2>3, <2>4 DEF Sound
    <3>2. Whole(q)'
      BY <3>1 DEF Wholeness
    <3>3. AssistantFromSSE(Payload(q)').result = "ok"
      BY <2>4, <3>2 DEF Whole, Parsed
    <3> QED
      BY <2>4, <3>1, <3>3 DEF WholeUnlessLost, Sound
  <2> QED
    BY <1>2, <2>2, <2>3, <2>4 DEF Undisturbed
<1> QED
  BY <1>3, <1>4 DEF Faultless

\* No flush fails, and what expires is not in use any more.
LEMMA OtherFaultless ==
    ASSUME KeepsPages, Conservation, Faultless,
           \/ \E w \in Workers : WorkerStep(w)
           \/ \E q \in Requests : RedisLate(q) \/ Expire(q)
           \/ UNCHANGED vars
    PROVE  Faultless'
<1>1. TypeOK
  BY DEF Conservation, Accounting
<1>2. UNCHANGED <<owner, fin, got, tail, sent>>
  BY DEF WorkerStep, WorkerTake, WorkerPut, WorkerDone, RedisLate, Expire, collectorVars, vars
<1>3. UNCHANGED failed
  BY DEF WorkerStep, WorkerTake, WorkerPut, WorkerDone, RedisLate, Expire, collectorVars, vars,
         PutPageError, KeepsPages
<1>4. ASSUME NEW r \in Requests, expired'[r] PROVE Finished(r)
  <2>1. CASE expired[r]
    BY <2>1 DEF Faultless, Undisturbed
  <2>2. CASE ~expired[r]
    <3>1. \E q \in Requests : Expire(q)
      BY <1>4, <2>2 DEF WorkerStep, WorkerTake, WorkerPut, WorkerDone, RedisLate, LatePut, PutPage,
                        PutPageError, storeVars, vars
    <3>2. Expire(r)
      BY <1>1, <1>4, <2>2, <3>1 DEF Expire, ExpireEntry, TypeOK, StoreTypeOK
    <3> QED
      BY <3>2 DEF Expire, KeepsPages
  <2> QED
    BY <2>1, <2>2
<1>5. ASSUME NEW r \in Requests PROVE Undisturbed(r)'
  BY <1>2, <1>3, <1>4 DEF Faultless, Undisturbed, Finished, Payload
<1> QED
  BY <1>5 DEF Faultless

LEMMA NextFaultless ==
    ASSUME KeepsPages, Conservation, Wholeness, Faultless, Wholeness', WholeUnlessLost',
           [CollectorNext]_vars
    PROVE  Faultless'
  BY CopyFaultless, FinalizeFaultless, OtherFaultless DEF CollectorNext, Rest

LEMMA InitFaultless == CollectorInit => Faultless
  BY DEF CollectorInit, StoreInit, Faultless, Undisturbed, FinSteps

LEMMA CollectorFaultless ==
    ASSUME KeepsPages
    PROVE  CollectorSpec => []Faultless
<1>1. Conservation /\ Wholeness /\ Faultless /\ (Wholeness /\ WholeUnlessLost)' /\ [CollectorNext]_vars
        => Faultless'
  BY NextFaultless
<1> QED
  BY <1>1, InitFaultless, CollectorWholeness, FinalizeReturnsTheWhole, PTL DEF CollectorSpec

(***************************************************************************)
(* Finalize, the error contract of its comment: over a Redis that applies  *)
(* every write and keeps the entry while the request is under way, a       *)
(* Finalize that succeeds returns the message of the whole response - also *)
(* when the queue was full, a read or a delete failed, or it is the second *)
(* Finalize of the request.  A failed flush is the only way to a partial   *)
(* one.                                                                    *)
(***************************************************************************)
THEOREM PartialOnlyByLoss ==
    ASSUME KeepsPages
    PROVE  CollectorSpec => []NeverPartial
<1>1. Faultless => NeverPartial
  BY DEF Faultless, Undisturbed, NeverPartial
<1> QED
  BY <1>1, CollectorFaultless, PTL

-----------------------------------------------------------------------------
(* The types of texts and conversation states.                             *)

\* The scanned events are a prefix.
LEMMA TextType ==
    ASSUME NEW s \in Seq(Piece)
    PROVE  TextOf(s) \in Seq(Piece)
<1>1. Scanned(s) \subseteq 1..Len(s) /\ Len(s) \in Nat
  BY DEF Scanned
<1>2. PICK n : n = Cardinality(Scanned(s))
  OBVIOUS
<1>3. n \in Nat /\ n <= Len(s)
  <2>1. PICK m \in Nat : m = Len(s)
    BY <1>1
  <2>2. IsFiniteSet(1..m) /\ Cardinality(1..m) = m
    BY FS_Interval
  <2>3. IsFiniteSet(Scanned(s)) /\ Cardinality(Scanned(s)) <= m
    BY <1>1, <2>1, <2>2, FS_Subset
  <2> QED
    BY <1>2, <2>1, <2>3, FS_CardinalityType
<1>4. SubSeq(s, 1, n) \in Seq(Piece)
  BY <1>1, <1>3
<1> QED
  BY <1>2, <1>4, AccumulatedType DEF TextOf

LEMMA ReplyType ==
    ASSUME NEW r, NEW s \in Seq(Piece)
    PROVE  Reply(r, s).text \in Seq(Piece)
<1>1. NoText \in Seq(Piece)
  BY DEF NoText
<1>2. AssistantFromSSE(s).text \in {NoText, TextOf(s)}
  BY DEF AssistantFromSSE
<1>3. AssistantFromMessage(s).text = Accumulated(s)
  BY DEF AssistantFromMessage
<1> QED
  BY <1>1, <1>2, <1>3, TextType, AccumulatedType DEF Reply

-----------------------------------------------------------------------------
(* The variables of Affinity, as the gateway holds them, and its steps in  *)
(* terms of these.                                                         *)

GrantOf(r) ==
    IF req[r].participate
      THEN [client |-> req[r].client, from |-> From(r), sid |-> req[r].sid, source |-> req[r].source]
      ELSE NoSession

EndedOf(r) == IF Complete(r) THEN StateOf(r) ELSE NoSession

ToldOf(r) == Mapped(r) > 0

\* To a client nothing has changed about request q.
Unseen(q) == GrantOf(q)' = GrantOf(q) /\ EndedOf(q)' = EndedOf(q) /\ ToldOf(q)' = ToldOf(q)

LEMMA AskStep ==
    ASSUME NEW r \in Requests, GrantOf(r) = NoSession, GrantOf(r)' \in Promise!Grant,
           Promise!Decided(r, GrantOf(r)'), \A q \in Requests \ {r} : GrantOf(q)' = GrantOf(q),
           \A q \in Requests : EndedOf(q)' = EndedOf(q) /\ ToldOf(q)' = ToldOf(q),
           UNCHANGED mapping
    PROVE  Promise!Ask(r)
<1>1. [q \in Requests |-> GrantOf(q)]' = [[q \in Requests |-> GrantOf(q)] EXCEPT ![r] = GrantOf(r)']
  OBVIOUS
<1>2. [q \in Requests |-> EndedOf(q)]' = [q \in Requests |-> EndedOf(q)]
  OBVIOUS
<1>3. [q \in Requests |-> ToldOf(q)]' = [q \in Requests |-> ToldOf(q)]
  OBVIOUS
<1> QED
  BY <1>1, <1>2, <1>3 DEF Promise!Ask, GrantOf, EndedOf, ToldOf, Mapped

LEMMA AnswerStep ==
    ASSUME NEW r \in Requests, GrantOf(r) # NoSession, EndedOf(r) = NoSession,
           EndedOf(r)' \in Seq(Message), \A q \in Requests \ {r} : EndedOf(q)' = EndedOf(q),
           \A q \in Requests : GrantOf(q)' = GrantOf(q) /\ ToldOf(q)' = ToldOf(q),
           UNCHANGED mapping
    PROVE  Promise!Answer(r)
<1>1. [q \in Requests |-> EndedOf(q)]' = [[q \in Requests |-> EndedOf(q)] EXCEPT ![r] = EndedOf(r)']
  OBVIOUS
<1>2. [q \in Requests |-> GrantOf(q)]' = [q \in Requests |-> GrantOf(q)]
  OBVIOUS
<1>3. [q \in Requests |-> ToldOf(q)]' = [q \in Requests |-> ToldOf(q)]
  OBVIOUS
<1> QED
  BY <1>1, <1>2, <1>3 DEF Promise!Answer, GrantOf, EndedOf, ToldOf, Mapped

LEMMA RememberStep ==
    ASSUME NEW r \in Requests, req[r].participate, Complete(r),
           GrantOf(r) # NoSession, EndedOf(r) # NoSession, ~ToldOf(r), ToldOf(r)',
           \A q \in Requests \ {r} : ToldOf(q)' = ToldOf(q),
           \A q \in Requests : GrantOf(q)' = GrantOf(q) /\ EndedOf(q)' = EndedOf(q),
           \/ SetSession(<<req[r].client, StateOf(r)>>, req[r].sid)
           \/ SessionFaults /\ UNCHANGED mapping
    PROVE  Promise!Remember(r)
<1>1. [q \in Requests |-> ToldOf(q)]' = [[q \in Requests |-> ToldOf(q)] EXCEPT ![r] = TRUE]
  BY DEF ToldOf
<1>2. [q \in Requests |-> GrantOf(q)]' = [q \in Requests |-> GrantOf(q)]
  OBVIOUS
<1>3. [q \in Requests |-> EndedOf(q)]' = [q \in Requests |-> EndedOf(q)]
  OBVIOUS
<1>4. GrantOf(r).client = req[r].client /\ GrantOf(r).sid = req[r].sid /\ EndedOf(r) = StateOf(r)
  BY DEF GrantOf, EndedOf
<1>5. \/ Promise!Learn(<<GrantOf(r).client, EndedOf(r)>>, GrantOf(r).sid)
      \/ SessionFaults /\ UNCHANGED mapping
  BY <1>4 DEF Promise!Learn, SetSession
<1> QED
  BY <1>1, <1>2, <1>3, <1>5 DEF Promise!Remember, GrantOf, EndedOf, ToldOf, Mapped

LEMMA ForgetStep ==
    ASSUME ExpireSession, \A q \in Requests : Unseen(q)
    PROVE  Promise!Forget
<1>1. [q \in Requests |-> GrantOf(q)]' = [q \in Requests |-> GrantOf(q)]
  BY DEF Unseen
<1>2. [q \in Requests |-> EndedOf(q)]' = [q \in Requests |-> EndedOf(q)]
  BY DEF Unseen
<1>3. [q \in Requests |-> ToldOf(q)]' = [q \in Requests |-> ToldOf(q)]
  BY DEF Unseen
<1> QED
  BY <1>1, <1>2, <1>3 DEF Promise!Forget, ExpireSession, GrantOf, EndedOf, ToldOf, Mapped

LEMMA UnseenStep ==
    ASSUME UNCHANGED mapping, \A q \in Requests : Unseen(q)
    PROVE  UNCHANGED Promise!affinityVars
<1>1. [q \in Requests |-> GrantOf(q)]' = [q \in Requests |-> GrantOf(q)]
  BY DEF Unseen
<1>2. [q \in Requests |-> EndedOf(q)]' = [q \in Requests |-> EndedOf(q)]
  BY DEF Unseen
<1>3. [q \in Requests |-> ToldOf(q)]' = [q \in Requests |-> ToldOf(q)]
  BY DEF Unseen
<1> QED
  BY <1>1, <1>2, <1>3 DEF Promise!affinityVars, GrantOf, EndedOf, ToldOf, Mapped

LEMMA InitPromise == GatewayInit => Promise!AffinityInit
<1> SUFFICES ASSUME GatewayInit PROVE Promise!AffinityInit
  OBVIOUS
<1>1. ASSUME NEW r \in Requests PROVE ~req[r].participate /\ ~Complete(r) /\ ~ToldOf(r)
  BY DEF GatewayInit, NoReq, NoCounts, Complete, ToldOf, Mapped
<1>2. [q \in Requests |-> GrantOf(q)] = [q \in Requests |-> NoSession]
  BY <1>1 DEF GrantOf
<1>3. [q \in Requests |-> EndedOf(q)] = [q \in Requests |-> NoSession]
  BY <1>1 DEF EndedOf
<1>4. [q \in Requests |-> ToldOf(q)] = [q \in Requests |-> FALSE]
  <2>1. ASSUME NEW q \in Requests PROVE ToldOf(q) = FALSE
    BY <1>1 DEF ToldOf
  <2> QED
    BY <2>1
<1>5. mapping = [k \in {} |-> NoSession]
  BY DEF GatewayInit, SessionInit
<1> QED
  BY <1>2, <1>3, <1>4, <1>5 DEF Promise!AffinityInit, GrantOf, EndedOf, ToldOf, Mapped

-----------------------------------------------------------------------------
(* The conversations.                                                      *)

\* A request of a client continues a conversation, and its session is one
\* that some decision of Resolve gave it.
Talks(r) ==
    req[r].participate =>
        /\ req[r].client \in Clients
        /\ req[r].msgs \in Seq(Message) /\ Len(req[r].msgs) > 0
        /\ req[r].sid \in Sessions /\ req[r].source \in {"client", "resolved", "new"}

\* The keys of the mapping are conversation states.
KeysAreStates == \A k \in DOMAIN mapping : k[2] \in Seq(Message)

Dialogue == (\A r \in Requests : Talks(r)) /\ KeysAreStates

LEMMA MessageType ==
    ASSUME NEW text \in Seq(Piece)
    PROVE  Assistant(text) \in Message /\ User \in Message
<1>1. <<>> \in Seq(Piece)
  OBVIOUS
<1> QED
  BY <1>1 DEF Assistant, User, Message, NoText

LEMMA StateType ==
    ASSUME Base, NEW r \in Requests, Talks(r), req[r].participate
    PROVE  StateOf(r) \in Seq(Message)
<1>1. Received(r) \in Seq(Piece)
  BY BaseTypes DEF Base, LengthsOK, Received
<1>2. Assistant(Reply(r, Received(r)).text) \in Message
  BY <1>1, ReplyType, MessageType
<1> QED
  BY <1>2 DEF StateOf, FullState, Talks

LEMMA ConversationType ==
    ASSUME Base, \A r \in Requests : Watching(r), Dialogue, NEW msgs \in Conversations
    PROVE  msgs \in Seq(Message) /\ Len(msgs) > 0
<1>1. CASE msgs = <<User>>
  <2>1. <<>> \in Seq(Piece)
    OBVIOUS
  <2>2. User \in Message
    BY <2>1, MessageType
  <2> QED
    BY <1>1, <2>2
<1>2. CASE msgs # <<User>>
  <2>1. PICK q \in Requests :
          /\ Answered(q)
          /\ msgs = Append(FullState(req[q].msgs, Assistant(Reply(q, Seen(q)).text)), User)
    BY <1>2 DEF Conversations
  <2>2. Received(q) \in Seq(Piece) /\ seen[q] \in Nat /\ seen[q] <= Len(Received(q))
    BY BaseTypes DEF Base, LengthsOK, Received, Watching, SeenBound
  <2>3. Seen(q) \in Seq(Piece)
    BY <2>2 DEF Seen
  <2>4. Reply(q, Seen(q)).text \in Seq(Piece)
    BY <2>3, ReplyType
  <2>5. PICK a \in Message : a = Assistant(Reply(q, Seen(q)).text)
    BY <2>4, MessageType
  <2>6. User \in Message
    BY <2>4, MessageType
  <2>7. PICK m \in Seq(Message) : m = req[q].msgs
    BY <2>1 DEF Dialogue, Talks, Answered
  <2>8. msgs = Append(Append(m, a), User)
    BY <2>1, <2>5, <2>7 DEF FullState
  <2> QED
    BY <2>5, <2>6, <2>7, <2>8
<1> QED
  BY <1>1, <1>2

LEMMA GrantType ==
    ASSUME NEW r \in Requests, Talks(r), req[r].participate
    PROVE  GrantOf(r) \in Promise!Grant /\ GrantOf(r) # NoSession
<1>1. From(r) \in Seq(Message) \cup {NoSession}
  <2>1. PICK m \in Seq(Message) : m = req[r].msgs
    BY DEF Talks
  <2>2. PICK n \in Nat : n = Len(m) - 1
    <3>1. Len(m) \in Nat /\ Len(m) > 0
      BY <2>1 DEF Talks
    <3> QED
      BY <3>1
  <2>3. SubSeq(m, 1, n) \in Seq(Message)
    BY <2>2
  <2> QED
    BY <2>1, <2>2, <2>3 DEF From
<1>2. GrantOf(r) \in [client : Clients, from : Seq(Message) \cup {NoSession},
                      sid : Requests \cup ClientSessions, source : {"client", "resolved", "new"}]
  BY <1>1 DEF GrantOf, Talks, Sessions
<1> QED
  BY <1>2, NoneAssumption DEF Promise!Grant, Promise!Sessions, Promise!Sources

\* What Resolve decides for a conversation is what Affinity allows: a first
\* message has no state to be found by.
LEMMA ResolveDecides ==
    ASSUME KeysAreStates, NEW client, NEW msgs \in Seq(Message), Len(msgs) > 0,
           NEW header \in ClientSessions \cup {NoSession}, NEW r,
           NEW d \in Resolve(client, msgs, header, r), NEW from,
           from = IF Len(msgs) - 1 = 0 THEN NoSession ELSE SubSeq(msgs, 1, Len(msgs) - 1)
    PROVE  \/ d.source = "client" /\ d.sid \in ClientSessions
           \/ /\ d.source = "resolved"
              /\ <<client, from>> \in DOMAIN mapping /\ d.sid = mapping[<<client, from>>]
           \/ /\ d.source = "new" /\ d.sid = r
              /\ SessionFaults \/ <<client, from>> \notin DOMAIN mapping
<1>1. PICK n \in Nat : n = Len(msgs)
  OBVIOUS
<1>2. PICK key : key = <<client, SubSeq(msgs, 1, n - 1)>>
  OBVIOUS
<1>3. n # 1 => key = <<client, from>>
  BY <1>1, <1>2
<1>4. n = 1 => <<client, from>> \notin DOMAIN mapping
  <2>1. n = 1 => <<client, from>>[2] = NoSession
    BY <1>1
  <2> QED
    BY <2>1, NoneAssumption DEF KeysAreStates
<1>5. CASE header # NoSession
  BY <1>5 DEF Resolve
<1>6. CASE header = NoSession /\ n > 1 /\ key \in DOMAIN mapping
  <2>1. d \in {[sid |-> mapping[key], source |-> "resolved"]}
                \cup (IF SessionFaults THEN {[sid |-> r, source |-> "new"]} ELSE {})
    BY <1>1, <1>2, <1>6 DEF Resolve, SessionKey, HistoryHash
  <2>2. key = <<client, from>> /\ key \in DOMAIN mapping
    BY <1>3, <1>6
  <2>3. CASE d = [sid |-> mapping[key], source |-> "resolved"]
    <3>1. d.source = "resolved" /\ d.sid = mapping[key]
      BY <2>3
    <3> QED
      BY <2>2, <3>1
  <2>4. CASE d = [sid |-> r, source |-> "new"] /\ SessionFaults
    <3>1. d.source = "new" /\ d.sid = r
      BY <2>4
    <3> QED
      BY <2>4, <3>1
  <2> QED
    BY <2>1, <2>3, <2>4
<1>7. CASE header = NoSession /\ ~(n > 1 /\ key \in DOMAIN mapping)
  <2>1. d = [sid |-> r, source |-> "new"]
    BY <1>1, <1>2, <1>7 DEF Resolve, SessionKey, HistoryHash
  <2>2. n = 1 \/ key \notin DOMAIN mapping
    BY <1>1, <1>7
  <2> QED
    BY <1>3, <1>4, <2>1, <2>2
<1> QED
  BY <1>5, <1>6, <1>7

-----------------------------------------------------------------------------
(* What the steps of the gateway are to its clients.                       *)

\* putMapping submits the state the request ended in, and for the first time.
Remembers(r) ==
    /\ req[r].participate /\ Complete(r) /\ UNCHANGED req
    /\ \/ SetSession(<<req[r].client, StateOf(r)>>, req[r].sid)
       \/ SessionFaults /\ UNCHANGED mapping
    /\ Mapped(r) = 0 /\ Mapped(r)' = 1

LEMMA PutRemembers ==
    ASSUME Base, NEW r \in Requests, req[r].participate, Complete(r), UNCHANGED req, Mapped(r) = 0,
           NEW text, text = Reply(r, Received(r)).text, putMapping(r, text)
    PROVE  Remembers(r)
<1>1. \/ SetSession(<<req[r].client, StateOf(r)>>, req[r].sid)
      \/ SessionFaults /\ UNCHANGED mapping
  BY DEF putMapping, PutSession, PutSessionError, SessionKey, StateOf
<1>2. Mapped(r)' = 1
  <2>1. cnt \in [Requests -> Counts]
    BY BaseTypes
  <2>2. Adds(r, 0, 0, 1, 0) \/ Adds(r, 0, 1, 0, 1)
    BY <2>1, CountAdds DEF putMapping
  <2> QED
    BY <2>2 DEF Adds
<1> QED
  BY <1>1, <1>2 DEF Remembers

LEMMA MapsRemember ==
    ASSUME Base, Faultless, NEW r \in Requests, Watching(r), AtDoneMaps(r) \/ DetachedMaps(r)
    PROVE  Remembers(r)
<1>1. Handling(r) /\ ProxyTypes /\ UNCHANGED req
  BY DEF Base, Discipline, AtDoneMaps, DetachedMaps
<1>2. Collected(r) /\ pc[r] \in PCs /\ early[r] \in BOOLEAN
  BY <1>1 DEF AtDoneMaps, DetachedMaps, Handling, CopyPlace, Untouched, Collected, ProxyTypes
<1>3. req[r].participate
  BY <1>2 DEF Base, Lineage, Participates
<1>4. Mapped(r) = 0
  <2>1. CASE AtDoneMaps(r)
    <3>1. pc[r] = "map"
      BY <2>1 DEF AtDoneMaps
    <3>2. body[r] = "sse"
      BY <1>1, <1>2, <3>1 DEF Handling, CopyPlace, Collected
    <3>3. early[r]
      BY <1>1, <3>1, <3>2 DEF Handling, OwnerPlace
    <3> QED
      BY <1>1, <3>1, <3>3 DEF Handling, Mappings
  <2>2. CASE DetachedMaps(r)
    <3>1. ~early[r]
      BY <1>1, <1>2, <2>2 DEF DetachedMaps, Handling, CopyPlace, OwnerPlace, FinishedOnce, Collected
    <3> QED
      BY <1>1, <2>2, <3>1 DEF DetachedMaps, Handling, Mappings
  <2> QED
    BY <2>1, <2>2
<1>5. CASE body[r] = "sse"
  <2>1. fin[r] = "ok"
    BY <1>1, <1>2, <1>5 DEF AtDoneMaps, DetachedMaps, Handling, OwnerPlace, FinishedOnce, Collected
  <2>2. /\ AssistantFromSSE(Payload(r)).result = "ok"
        /\ AssistantFromSSE(Payload(r)) = AssistantFromSSE(sent[r])
    BY <2>1 DEF Faultless, Undisturbed
  <2>3. Reply(r, Received(r)) = AssistantFromSSE(sent[r])
    BY <1>5 DEF Reply, Received
  <2>4. Complete(r)
    BY <1>2, <1>3, <1>5, <2>2, <2>3 DEF Complete
  <2>5. putMapping(r, AssistantFromSSE(Payload(r)).text)
    BY <1>5 DEF AtDoneMaps, DetachedMaps
  <2> QED
    BY <1>1, <1>3, <1>4, <2>2, <2>3, <2>4, <2>5, PutRemembers
<1>6. CASE body[r] = "json"
  <2>1. DetachedMaps(r)
    BY <1>1, <1>6 DEF AtDoneMaps, Handling, CopyPlace
  <2>2. eof[r] /\ AssistantFromMessage(json[r].data).result = "ok"
    BY <1>6, <2>1 DEF DetachedMaps, Watching, JsonPlace
  <2>3. Reply(r, Received(r)) = AssistantFromMessage(json[r].data)
    BY <1>6 DEF Reply, Received
  <2>4. Complete(r)
    BY <1>2, <1>3, <1>6, <2>2, <2>3 DEF Complete
  <2>5. putMapping(r, AssistantFromMessage(json[r].data).text)
    BY <1>6, <2>1 DEF DetachedMaps
  <2> QED
    BY <1>1, <1>3, <1>4, <2>3, <2>4, <2>5, PutRemembers
<1> QED
  BY <1>2, <1>5, <1>6 DEF Collected

\* No other step counts a mapping.
LEMMA OthersSubmitNothing ==
    ASSUME Base, NEW r \in Requests, StepOf(r), ~AtDoneMaps(r), ~DetachedMaps(r)
    PROVE  Mapped(r)' = Mapped(r)
<1>1. cnt \in [Requests -> Counts]
  BY BaseTypes
<1>2. ASSUME NEW ended, NEW err, Adds(r, ended, err, 0, 0) PROVE Mapped(r)' = Mapped(r)
  BY <1>2 DEF Adds
<1>3. CASE ReadReturns(r) \/ ReadEOF(r) \/ Close(r)
  <2>1. Collected(r) /\ eof[r] \in BOOLEAN
    BY <1>3, EndCollected, BaseTypes
  <2>2. UNCHANGED cnt \/ finish(r, TRUE) \/ finish(r, eof[r])
    BY <1>3 DEF ReadReturns, ReadEOF, Close
  <2>3. ASSUME NEW e \in BOOLEAN, finish(r, e) PROVE Mapped(r)' = Mapped(r)
    BY <1>2, <2>1, <2>3, Finish DEF Base
  <2> QED
    BY <2>1, <2>2, <2>3 DEF Mapped
<1>4. CASE AtDoneFails(r) \/ AtDoneSucceeds(r)
  <2>1. cnt' = Count(r, "ferr") \/ cnt' = Count(r, "completed")
    BY <1>4 DEF AtDoneFails, AtDoneSucceeds
  <2> QED
    BY <1>1, <1>2, <2>1, CountAdds
<1>5. CASE Detached(r)
  <2>1. \/ cnt' = cnt \/ cnt' = Count(r, "ferr") \/ cnt' = Count(r, "completed")
        \/ cnt' = [cnt EXCEPT ![r].aborted = @ + 1, ![r].ferr = @ + 1]
    BY <1>5 DEF Detached, finalizeStream, finalizeStreamOnClose, finalizeJSON
  <2> QED
    BY <1>1, <1>2, <2>1, CountAdds
<1>6. CASE UNCHANGED cnt
  BY <1>6 DEF Mapped
<1>7. ASSUME Arrival(r) \/ FinalizeRuns(r) \/ ReadStream(r) \/ ReadJson(r) \/ ReadFails(r)
               \/ Deliver(r) \/ DeliverFails(r) \/ CopyPlain(r)
      PROVE  UNCHANGED cnt
  BY <1>7 DEF Arrival, ServeChat, ServeTransparent, ServeRefused, modifyResponse, FinalizeRuns,
              ReadStream, ReadJson, ReadFails, Deliver, DeliverFails, CopyPlain, proxyVars
<1> QED
  BY <1>3, <1>4, <1>5, <1>6, <1>7 DEF StepOf, Upstream, CopyGoroutine

-----------------------------------------------------------------------------
(* The simulation.                                                         *)

\* Everything about a request of a client is typed as Affinity has it.
Typed ==
    \A r \in Requests : req[r].participate =>
        GrantOf(r) \in Promise!Grant /\ GrantOf(r) # NoSession /\ StateOf(r) \in Seq(Message)

LEMMA DialogueTyped == Base /\ Dialogue => Typed
  BY GrantType, StateType DEF Dialogue, Typed

LEMMA SameUnseen ==
    ASSUME NEW q \in Requests, SameAt(q), req'[q] = req[q]
    PROVE  Unseen(q)
<1>1. GrantOf(q)' = GrantOf(q)
  BY DEF GrantOf, From
<1>2. Complete(q)' = Complete(q)
  BY DEF Complete, SameAt, Collected, Reply, Received
<1>3. StateOf(q)' = StateOf(q)
  BY DEF StateOf, SameAt, Reply, Received
<1>4. ToldOf(q)' = ToldOf(q)
  BY DEF ToldOf, Mapped, SameAt
<1>5. EndedOf(q)' = EndedOf(q)
  BY <1>2, <1>3 DEF EndedOf
<1> QED
  BY <1>1, <1>4, <1>5 DEF Unseen

\* A step of request r that neither asks nor submits.
Proceeds(r) == UNCHANGED <<req, mapping>> /\ Mapped(r)' = Mapped(r)

LEMMA PromiseSteps ==
    ASSUME Base, Faultless, \A q \in Requests : Watching(q), [GatewayNext]_gatewayVars
    PROVE  \/ \E r \in Requests :
                /\ ServeChat(r) \/ Remembers(r) \/ Proceeds(r)
                /\ \A q \in Requests \ {r} : SameAt(q)
           \/ /\ ExpireSession \/ UNCHANGED mapping
              /\ UNCHANGED req /\ \A q \in Requests : SameAt(q)
<1>1. ASSUME NEW r \in Requests, StepOf(r)
      PROVE  /\ ServeChat(r) \/ Remembers(r) \/ Proceeds(r)
             /\ \A q \in Requests \ {r} : SameAt(q)
  <2>1. \A q \in Requests \ {r} : SameAt(q)
    BY <1>1, Elsewhere
  <2>2. CASE AtDoneMaps(r) \/ DetachedMaps(r)
    BY <2>1, <2>2, MapsRemember
  <2>3. CASE ~AtDoneMaps(r) /\ ~DetachedMaps(r) /\ ~ServeChat(r)
    <3>1. Mapped(r)' = Mapped(r)
      BY <1>1, <2>3, OthersSubmitNothing
    <3>2. ASSUME Arrival(r) \/ Upstream(r) PROVE UNCHANGED <<req, mapping>>
      BY <2>3, <3>2 DEF Arrival, ServeTransparent, ServeRefused, modifyResponse, Upstream, ReadStream,
                        ReadJson, ReadEOF, ReadFails
    <3>3. ASSUME CopyGoroutine(r) \/ FinalizeRuns(r) PROVE UNCHANGED <<req, mapping>>
      BY <2>3, <3>3 DEF CopyGoroutine, ReadReturns, Deliver, DeliverFails, Close, CopyPlain, AtDoneFails,
                        AtDoneSucceeds, FinalizeRuns, proxyVars
    <3>4. ASSUME Detached(r) PROVE UNCHANGED <<req, mapping>>
      BY <2>3, <3>4 DEF Detached, finalizeStream, finalizeStreamOnClose, finalizeJSON
    <3>5. UNCHANGED <<req, mapping>>
      BY <1>1, <3>2, <3>3, <3>4 DEF StepOf
    <3> QED
      BY <2>1, <3>1, <3>5 DEF Proceeds
  <2> QED
    BY <2>1, <2>2, <2>3
<1>2. CASE Environment \/ UNCHANGED gatewayVars
  <2>1. \A q \in Requests : SameAt(q)
    BY <1>2, EnvironmentSame
  <2>2. UNCHANGED req /\ (ExpireSession \/ UNCHANGED mapping)
    BY <1>2 DEF Environment, gatewayVars, proxyVars
  <2> QED
    BY <2>1, <2>2
<1> QED
  BY <1>1, <1>2 DEF GatewayNext, StepOf

LEMMA ServeDialogue ==
    ASSUME Base, \A q \in Requests : Watching(q), Dialogue, NEW r \in Requests, ServeChat(r)
    PROVE  /\ Dialogue' /\ UNCHANGED mapping /\ req[r] = NoReq /\ ~Collected(r)
           /\ req'[r].participate /\ Promise!Decided(r, GrantOf(r)')
           /\ \A q \in Requests \ {r} : req'[q] = req[q]
<1>1. PICK client \in Clients, msgs \in Conversations, header \in ClientSessions \cup {NoSession} :
        \E d \in Resolve(client, msgs, header, r) :
            req' = [req EXCEPT ![r] = [participate |-> TRUE, client |-> client, msgs |-> msgs,
                                       sid |-> d.sid, source |-> d.source]]
  BY DEF ServeChat
<1>2. PICK d \in Resolve(client, msgs, header, r) :
        req' = [req EXCEPT ![r] = [participate |-> TRUE, client |-> client, msgs |-> msgs,
                                       sid |-> d.sid, source |-> d.source]]
  BY <1>1
<1>3. /\ req'[r] = [participate |-> TRUE, client |-> client, msgs |-> msgs,
                    sid |-> d.sid, source |-> d.source]
      /\ \A q \in Requests \ {r} : req'[q] = req[q]
  BY <1>2 DEF Base, Lineage, SessionTypes
<1>4. msgs \in Seq(Message) /\ Len(msgs) > 0
  BY ConversationType
<1>5. PICK from : from = IF Len(msgs) - 1 = 0 THEN NoSession ELSE SubSeq(msgs, 1, Len(msgs) - 1)
  OBVIOUS
<1>6. \/ d.source = "client" /\ d.sid \in ClientSessions
      \/ /\ d.source = "resolved"
         /\ <<client, from>> \in DOMAIN mapping /\ d.sid = mapping[<<client, from>>]
      \/ /\ d.source = "new" /\ d.sid = r
         /\ SessionFaults \/ <<client, from>> \notin DOMAIN mapping
  BY <1>4, <1>5, ResolveDecides DEF Dialogue
<1>7. d.sid \in Sessions
  BY ResolveLineage DEF Base
<1>8. GrantOf(r)' = [client |-> client, from |-> from, sid |-> d.sid, source |-> d.source]
  <2>1. From(r)' = from
    BY <1>3, <1>5 DEF From
  <2> QED
    BY <1>3, <2>1 DEF GrantOf
<1>9. Promise!Decided(r, GrantOf(r)')
  <2>1. PICK g : g = GrantOf(r)'
    OBVIOUS
  <2>2. g.client = client /\ g.from = from /\ g.sid = d.sid /\ g.source = d.source
    BY <1>8, <2>1
  <2>3. Promise!Decided(r, g)
    BY <1>6, <2>2 DEF Promise!Decided, Promise!Key
  <2> QED
    BY <2>1, <2>3
<1>10. UNCHANGED mapping
  BY DEF ServeChat
<1>11. ASSUME NEW q \in Requests PROVE Talks(q)'
  <2>1. CASE q = r
    BY <1>3, <1>4, <1>6, <1>7, <2>1 DEF Talks
  <2>2. CASE q # r
    BY <1>3, <2>2 DEF Talks, Dialogue
  <2> QED
    BY <2>1, <2>2
<1>12. Dialogue'
  BY <1>10, <1>11 DEF Dialogue, KeysAreStates
<1>13. req[r] = NoReq /\ ~Collected(r)
  BY DEF ServeChat, Base, Lineage, Participates, Discipline, Handling, CopyPlace, Collected
<1> QED
  BY <1>3, <1>9, <1>10, <1>12, <1>13

LEMMA NextDialogue ==
    ASSUME Base, Faultless, \A q \in Requests : Watching(q), Dialogue, [GatewayNext]_gatewayVars
    PROVE  Dialogue'
<1>1. CASE \E r \in Requests : ServeChat(r)
  BY <1>1, ServeDialogue
<1>2. ASSUME UNCHANGED req PROVE \A q \in Requests : Talks(q)'
  BY <1>2 DEF Dialogue, Talks
<1>3. CASE UNCHANGED req /\ (UNCHANGED mapping \/ ExpireSession)
  BY <1>2, <1>3 DEF Dialogue, KeysAreStates, ExpireSession
<1>4. ASSUME NEW r \in Requests, Remembers(r) PROVE Dialogue'
  <2>1. StateOf(r) \in Seq(Message)
    BY <1>4, StateType DEF Dialogue, Remembers
  <2>2. PICK key : key = <<req[r].client, StateOf(r)>>
    OBVIOUS
  <2>3. key[2] \in Seq(Message)
    BY <2>1, <2>2
  <2>4. DOMAIN mapping' \subseteq DOMAIN mapping \cup {key}
    BY <1>4, <2>2 DEF Remembers, SetSession
  <2>5. KeysAreStates'
    BY <2>3, <2>4 DEF Dialogue, KeysAreStates
  <2> QED
    BY <1>2, <1>4, <2>5 DEF Dialogue, Remembers
<1> QED
  BY <1>1, <1>3, <1>4, PromiseSteps DEF Proceeds

LEMMA PromiseNext ==
    ASSUME Base, Faultless, \A q \in Requests : Watching(q), Dialogue, Typed, Typed',
           [GatewayNext]_gatewayVars
    PROVE  [Promise!AffinityNext]_(Promise!affinityVars)
<1>1. \A q \in Requests : GrowsAt(q)
  BY NextGrows
<1>2. ASSUME NEW q \in Requests, UNCHANGED req PROVE GrantOf(q)' = GrantOf(q)
  BY <1>2 DEF GrantOf, From
<1>3. ASSUME NEW q \in Requests, Complete(q)
      PROVE  EndedOf(q)' = EndedOf(q) /\ EndedOf(q) = StateOf(q)
  BY <1>1, <1>3, CompleteStays DEF EndedOf
<1>4. ASSUME NEW q \in Requests, Complete(q) PROVE req[q].participate
  BY <1>4 DEF Complete
<1>5. ASSUME NEW r \in Requests, ServeChat(r), \A q \in Requests \ {r} : SameAt(q)
      PROVE  Promise!Ask(r)
  <2>1. /\ UNCHANGED mapping /\ req[r] = NoReq /\ ~Collected(r)
        /\ req'[r].participate /\ Promise!Decided(r, GrantOf(r)')
        /\ \A q \in Requests \ {r} : req'[q] = req[q]
    BY <1>5, ServeDialogue
  <2>2. \A q \in Requests \ {r} : Unseen(q)
    BY <1>5, <2>1, SameUnseen
  <2>3. GrantOf(r) = NoSession
    BY <2>1 DEF GrantOf, NoReq
  <2>4. GrantOf(r)' \in Promise!Grant
    BY <2>1 DEF Typed
  <2>5. EndedOf(r)' = EndedOf(r)
    <3>1. body'[r] = body[r]
      BY <1>5 DEF ServeChat
    <3> QED
      BY <2>1, <3>1 DEF EndedOf, Complete, Collected
  <2>6. ToldOf(r)' = ToldOf(r)
    BY <1>5 DEF ServeChat, ToldOf, Mapped
  <2> QED
    BY <2>1, <2>2, <2>3, <2>4, <2>5, <2>6, AskStep DEF Unseen
<1>6. ASSUME NEW r \in Requests, Remembers(r), \A q \in Requests \ {r} : SameAt(q)
      PROVE  Promise!Remember(r)
  <2>1. req[r].participate /\ Complete(r) /\ UNCHANGED req /\ Mapped(r) = 0 /\ Mapped(r)' = 1
    BY <1>6 DEF Remembers
  <2>2. \A q \in Requests \ {r} : Unseen(q)
    BY <1>6, <2>1, SameUnseen
  <2>3. EndedOf(r)' = EndedOf(r) /\ EndedOf(r) = StateOf(r)
    BY <1>3, <2>1
  <2>4. GrantOf(r) # NoSession /\ EndedOf(r) # NoSession
    BY <2>1, <2>3, NoneAssumption DEF Typed
  <2>5. ~ToldOf(r) /\ ToldOf(r)'
    BY <2>1 DEF ToldOf
  <2>6. GrantOf(r)' = GrantOf(r)
    BY <1>2, <2>1
  <2>7. \/ SetSession(<<req[r].client, StateOf(r)>>, req[r].sid)
        \/ SessionFaults /\ UNCHANGED mapping
    BY <1>6 DEF Remembers
  <2> QED
    BY <2>1, <2>2, <2>3, <2>4, <2>5, <2>6, <2>7, RememberStep DEF Unseen
<1>7. ASSUME NEW r \in Requests, Proceeds(r), \A q \in Requests \ {r} : SameAt(q)
      PROVE  Promise!Answer(r) \/ UNCHANGED Promise!affinityVars
  <2>1. UNCHANGED mapping /\ UNCHANGED req /\ ToldOf(r)' = ToldOf(r)
    BY <1>7 DEF Proceeds, ToldOf
  <2>2. \A q \in Requests \ {r} : Unseen(q)
    BY <1>7, <2>1, SameUnseen
  <2>3. \A q \in Requests : GrantOf(q)' = GrantOf(q)
    BY <1>2, <2>1
  <2>4. CASE ~Complete(r) /\ Complete(r)'
    <3>1. req[r].participate /\ req'[r].participate
      BY <2>1, <2>4 DEF Complete
    <3>2. EndedOf(r) = NoSession /\ EndedOf(r)' = StateOf(r)'
      BY <2>4 DEF EndedOf
    <3>3. GrantOf(r) # NoSession /\ EndedOf(r)' \in Seq(Message)
      BY <3>1, <3>2 DEF Typed
    <3> QED
      BY <2>1, <2>2, <2>3, <3>2, <3>3, AnswerStep DEF Unseen
  <2>5. CASE Complete(r) \/ ~Complete(r)'
    <3>1. EndedOf(r)' = EndedOf(r)
      BY <1>3, <2>5 DEF EndedOf
    <3> QED
      BY <2>1, <2>2, <2>3, <3>1, UnseenStep DEF Unseen
  <2> QED
    BY <2>4, <2>5
<1>8. ASSUME ExpireSession \/ UNCHANGED mapping, UNCHANGED req, \A q \in Requests : SameAt(q)
      PROVE  Promise!Forget \/ UNCHANGED Promise!affinityVars
  <2>1. \A q \in Requests : Unseen(q)
    BY <1>8, SameUnseen
  <2> QED
    BY <1>8, <2>1, ForgetStep, UnseenStep
<1> QED
  BY <1>5, <1>6, <1>7, <1>8, PromiseSteps DEF Promise!AffinityNext

(***************************************************************************)
(* To its clients the whole gateway - streams cut into pages, workers,     *)
(* finalizers at [DONE], at EOF and at the close, their retries, metrics   *)
(* and the session store - is no more than the memory of Affinity, as long *)
(* as Redis keeps the pages it was given: each session is decided by that  *)
(* memory, each complete state is submitted to it once, for the client     *)
(* that reached it, and nothing else ever is.                              *)
(***************************************************************************)
THEOREM GatewayKeepsPromise ==
    ASSUME KeepsPages
    PROVE  GatewaySpec => KeepsPromise
<1>1. GatewaySpec => [](Base /\ Collecting /\ MappedWhole)
  BY GatewayMappedWhole
<1>2. GatewaySpec => []Faultless
  BY GatewayUsesCollector, CollectorFaultless, PTL
<1>3. GatewayInit => Dialogue
  <2>1. ASSUME GatewayInit PROVE Dialogue
    <3>1. DOMAIN mapping = {} /\ \A r \in Requests : ~req[r].participate
      BY <2>1 DEF GatewayInit, SessionInit, NoReq
    <3> QED
      BY <3>1 DEF Dialogue, KeysAreStates, Talks
  <2> QED
    BY <2>1
<1>4. Base /\ MappedWhole /\ Faultless /\ Dialogue /\ [GatewayNext]_gatewayVars => Dialogue'
  BY NextDialogue DEF MappedWhole
<1>5. Base /\ Dialogue => Typed
  BY DialogueTyped
<1>6. Base /\ MappedWhole /\ Faultless /\ Dialogue /\ Typed /\ Typed' /\ [GatewayNext]_gatewayVars
        => [Promise!AffinityNext]_(Promise!affinityVars)
  BY PromiseNext DEF MappedWhole
<1>7. GatewayInit => Promise!AffinityInit
  BY InitPromise
<1>8. GatewaySpec => []Typed
  BY <1>1, <1>2, <1>3, <1>4, <1>5, PTL DEF GatewaySpec
<1> QED
  BY <1>1, <1>2, <1>3, <1>4, <1>6, <1>7, <1>8, PTL
     DEF GatewaySpec, KeepsPromise, Promise!AffinitySpec
=============================================================================

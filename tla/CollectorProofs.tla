--------------------------- MODULE CollectorProofs ---------------------------
(* Theorems about the collector, for every value of its constants.         *)
EXTENDS Collector, FiniteSetTheorems, SequenceTheorems, TLAPS

LEMMA PiecesType ==
    ASSUME NEW c \in Chunks, NEW n \in Nat
    PROVE  /\ c \in Seq(Kinds)
           /\ Len(c) \in Nat \ {0}
           /\ Pieces(c, n) \in Seq(Piece)
<1>1. PICK m \in 1..MaxChunk : c \in [1..m -> Kinds]
  BY DEF Chunks
<1>2. m \in Nat \ {0}
  BY <1>1, ChunkAssumption
<1>3. c \in Seq(Kinds) /\ Len(c) = m
  BY <1>1, <1>2
<1>4. \A i \in 1..Len(c) : [kind |-> c[i], pos |-> n + i] \in Piece
  BY <1>1, <1>2, <1>3 DEF Piece
<1> QED
  BY <1>2, <1>3, <1>4 DEF Pieces

LEMMA HSetType ==
    ASSUME NEW h, IsPageMap(h), NEW s \in Nat \ {0}, NEW d \in Seq(Piece)
    PROVE  /\ IsPageMap(HSet(h, s, d))
           /\ DOMAIN HSet(h, s, d) = DOMAIN h \cup {s}
  BY DEF IsPageMap, HSet

LEMMA NoPagesType == IsPageMap(NoPages) /\ DOMAIN NoPages = {}
  BY DEF IsPageMap, NoPages

LEMMA ParseResult ==
    ASSUME NEW s
    PROVE  AssistantFromSSE(s).result \in FinResults
  BY DEF AssistantFromSSE, FinResults, FinErrors

-----------------------------------------------------------------------------
LEMMA StoreType ==
    ASSUME StoreTypeOK, NEW r \in Requests, NEW s \in Nat \ {0},
           NEW d \in Seq(Piece)
    PROVE  /\ PutPage(r, s, d) => StoreTypeOK'
           /\ PutPageError(r, s, d) => StoreTypeOK'
           /\ LatePut(r) => StoreTypeOK'
           /\ DeletePages(r) => StoreTypeOK'
           /\ ExpireEntry(r) => StoreTypeOK'
           /\ UNCHANGED storeVars => StoreTypeOK'
<1> USE DEF StoreTypeOK
<1>1. UNCHANGED storeVars => StoreTypeOK'
  BY DEF storeVars, IsPageMap
<1>2. IsPageMap(HSet(pages[r], s, d))
  BY HSetType
<1>3. PutPage(r, s, d) => StoreTypeOK'
  BY <1>2 DEF PutPage
<1>4. PutPageError(r, s, d) => StoreTypeOK'
  <2>1. ASSUME pages' = [pages EXCEPT ![r] = HSet(@, s, d)],
               UNCHANGED <<ttl, wire, expired>>
        PROVE  StoreTypeOK'
    BY <2>1, <1>2
  <2>2. ASSUME wire' = [wire EXCEPT ![r] = @ \cup {[seq |-> s, data |-> d]}],
               UNCHANGED <<pages, ttl, expired>>
        PROVE  StoreTypeOK'
    <3>1. [seq |-> s, data |-> d] \in Page
      BY DEF Page
    <3>2. \A q \in Requests : wire'[q] \subseteq wire[q] \cup {[seq |-> s, data |-> d]}
      BY <2>2
    <3>3. DOMAIN wire' = Requests /\ wire' = [q \in Requests |-> wire'[q]]
      BY <2>2
    <3> QED
      BY <2>2, <3>1, <3>2, <3>3
  <2> QED
    BY <1>1, <1>3, <2>1, <2>2 DEF PutPageError
<1>5. LatePut(r) => StoreTypeOK'
  <2> SUFFICES ASSUME NEW p \in wire[r],
                      pages' = [pages EXCEPT ![r] = HSet(@, p.seq, p.data)],
                      ttl' = [ttl EXCEPT ![r] = TRUE],
                      wire' = [wire EXCEPT ![r] = @ \ {p}],
                      UNCHANGED expired
               PROVE  StoreTypeOK'
    BY DEF LatePut
  <2>1. p.seq \in Nat \ {0} /\ p.data \in Seq(Piece)
    BY DEF Page
  <2>2. IsPageMap(HSet(pages[r], p.seq, p.data))
    BY <2>1, HSetType
  <2> QED
    BY <2>2
<1>6. DropEntry(r) /\ UNCHANGED wire /\ expired' \in [Requests -> BOOLEAN] => StoreTypeOK'
  BY NoPagesType DEF DropEntry
<1>7. DeletePages(r) => StoreTypeOK'
  BY <1>1, <1>6 DEF DeletePages
<1>8. ExpireEntry(r) => StoreTypeOK'
  BY <1>6 DEF ExpireEntry
<1> QED
  BY <1>1, <1>3, <1>4, <1>5, <1>7, <1>8

LEMMA InitType == CollectorInit => TypeOK
<1> SUFFICES ASSUME CollectorInit PROVE TypeOK
  OBVIOUS
<1>1. StoreTypeOK
  BY NoPagesType DEF CollectorInit, StoreInit, StoreTypeOK
<1>2. /\ DOMAIN got = Requests
      /\ got = [r \in Requests |-> got[r]]
      /\ \A r \in Requests : IsPageMap(got[r])
  BY NoPagesType DEF CollectorInit
<1>3. queue \in Seq(Job) /\ <<>> \in Seq(Piece)
  BY DEF CollectorInit
<1> QED
  BY <1>1, <1>2, <1>3 DEF CollectorInit, TypeOK, Owners, FinStates

\* A step of the copy goroutine keeps the types.
LEMMA CopyType ==
    ASSUME TypeOK, NEW r \in Requests, CopyStep(r)
    PROVE  TypeOK'
<1>1. UNCHANGED storeVars => StoreTypeOK'
  BY DEF TypeOK, StoreTypeOK, storeVars, IsPageMap
<1>2. CASE NewCollector(r)
  BY <1>1, <1>2 DEF NewCollector, TypeOK, Owners, poolVars
<1>3. ASSUME NEW c \in Chunks, Write(r, c) PROVE TypeOK'
  <2> DEFINE p == Pieces(c, Len(sent[r]))
             buf == tail[r] \o p
  <2>1. sent[r] \in Seq(Piece) /\ Len(sent[r]) \in Nat /\ tail[r] \in Seq(Piece)
    BY DEF TypeOK
  <2>2. p \in Seq(Piece)
    BY <2>1, PiecesType
  <2>3. buf \in Seq(Piece) /\ sent[r] \o p \in Seq(Piece) /\ <<>> \in Seq(Piece)
    BY <2>1, <2>2
  <2>4. StoreTypeOK'
    BY <1>1, <1>3 DEF Write, Ignores
  <2>5. sent' \in [Requests -> Seq(Piece)]
    BY <1>3, <2>3 DEF Write, Ignores, TypeOK
  <2>6. tail' \in [Requests -> Seq(Piece)]
    <3>1. UNCHANGED tail \/ \E x \in {<<>>, buf} : tail' = [tail EXCEPT ![r] = x]
      BY <1>3 DEF Write
    <3>2. tail \in [Requests -> Seq(Piece)] /\ \A x \in {<<>>, buf} : x \in Seq(Piece)
      BY <2>3 DEF TypeOK
    <3> QED
      BY <3>1, <3>2
  <2>7. /\ owner' \in [Requests -> Owners]
        /\ sawDone' \in [Requests -> BOOLEAN]
        /\ sealed' \in [Requests -> BOOLEAN]
    <3>1. watchDone(r, c) \/ UNCHANGED <<owner, sawDone, sealed>>
      BY <1>3 DEF Write, Ignores
    <3>2. "onDone" \in Owners
      BY DEF Owners
    <3>3. /\ owner \in [Requests -> Owners]
          /\ sawDone \in [Requests -> BOOLEAN]
          /\ sealed \in [Requests -> BOOLEAN]
      BY DEF TypeOK
    <3> QED
      BY <3>1, <3>2, <3>3 DEF watchDone
  <2>8. submit(r, buf) =>
          /\ seq' \in [Requests -> Nat]
          /\ inflight' \in [Requests -> Int]
          /\ failed' \in [Requests -> BOOLEAN]
          /\ queue' \in Seq(Job)
    <3>1. [req |-> r, seq |-> seq[r] + 1, data |-> buf] \in Job
      BY <2>3 DEF TypeOK, Job
    <3>2. /\ seq \in [Requests -> Nat]
          /\ inflight \in [Requests -> Int]
          /\ failed \in [Requests -> BOOLEAN]
          /\ queue \in Seq(Job)
      BY DEF TypeOK
    <3>3. Append(queue, [req |-> r, seq |-> seq[r] + 1, data |-> buf]) \in Seq(Job)
      BY <3>1, <3>2
    <3> HIDE DEF buf
    <3>4. submit(r, buf) => seq' \in [Requests -> Nat]
      BY <3>2 DEF submit
    <3>5. submit(r, buf) => inflight' \in [Requests -> Int]
      BY <3>2 DEF submit
    <3>6. submit(r, buf) => failed' \in [Requests -> BOOLEAN]
      BY <3>2, Zenon DEF submit
    <3>7. submit(r, buf) => queue' \in Seq(Job)
      BY <3>2, <3>3 DEF submit
    <3> QED
      BY <3>4, <3>5, <3>6, <3>7
  <2>9. /\ seq' \in [Requests -> Nat]
        /\ inflight' \in [Requests -> Int]
        /\ failed' \in [Requests -> BOOLEAN]
        /\ queue' \in Seq(Job)
    BY <1>3, <2>8 DEF Write, Ignores, TypeOK
  <2>10. UNCHANGED <<fin, got, wpc, job>>
    BY <1>3 DEF Write, Ignores
  <2> HIDE DEF p, buf
  <2> QED
    BY <2>4, <2>5, <2>6, <2>7, <2>9, <2>10 DEF TypeOK, IsPageMap
<1>4. CASE WriteReturn(r)
  <2>1. StoreTypeOK'
    BY <1>1, <1>4 DEF WriteReturn
  <2>2. /\ DOMAIN got' = Requests
        /\ got' = [q \in Requests |-> got'[q]]
        /\ \A q \in Requests : IsPageMap(got'[q])
    BY <1>4, NoPagesType DEF WriteReturn, TypeOK
  <2>3. <<>> \in Seq(Piece)
    OBVIOUS
  <2> QED
    BY <1>4, <2>1, <2>2, <2>3 DEF WriteReturn, TypeOK, Owners, FinStates, poolVars
<1>5. CASE CloseBody(r)
  BY <1>1, <1>5 DEF CloseBody, TypeOK, Owners, poolVars
<1> QED
  BY <1>2, <1>3, <1>4, <1>5 DEF CopyStep

\* A step of Finalize, or Abort, keeps the types.
LEMMA FinalizeType ==
    ASSUME TypeOK, NEW r \in Requests, FinalizeStep(r) \/ Abort(r)
    PROVE  TypeOK'
<1>0. 1 \in Nat \ {0} /\ <<>> \in Seq(Piece) /\ StoreTypeOK
  BY DEF TypeOK
<1>1. /\ UNCHANGED storeVars => StoreTypeOK'
      /\ DeletePages(r) => StoreTypeOK'
  BY <1>0, StoreType
<1>2. CASE FinalizeCall(r)
  BY <1>1, <1>2 DEF FinalizeCall, TypeOK, FinStates, FinSteps, FinResults, FinErrors, poolVars
<1>3. CASE FinalizeWait(r)
  BY <1>1, <1>3 DEF FinalizeWait, TypeOK, FinStates, FinSteps, poolVars
<1>4. CASE FinalizeRead(r)
  <2>1. /\ DOMAIN got' = Requests
        /\ got' = [q \in Requests |-> got'[q]]
        /\ \A q \in Requests : IsPageMap(got'[q])
    BY <1>4, <1>0 DEF FinalizeRead, TypeOK, StoreTypeOK
  <2> QED
    BY <1>1, <1>4, <2>1 DEF FinalizeRead, TypeOK, FinStates, FinSteps, FinResults,
                            FinErrors, poolVars
<1>5. CASE FinalizeDelete(r)
  <2>1. AssistantFromSSE(Payload(r)).result \in FinStates
    BY ParseResult DEF FinStates
  <2> QED
    BY <1>1, <1>5, <2>1 DEF FinalizeDelete, TypeOK, poolVars
<1>6. CASE Abort(r)
  BY <1>1, <1>6 DEF Abort, TypeOK, FinStates, poolVars
<1> QED
  BY <1>2, <1>3, <1>4, <1>5, <1>6 DEF FinalizeStep

\* A step of a worker keeps the types.
LEMMA WorkerType ==
    ASSUME TypeOK, NEW w \in Workers, WorkerStep(w)
    PROVE  TypeOK'
<1>1. UNCHANGED storeVars => StoreTypeOK'
  BY DEF TypeOK, StoreTypeOK, storeVars, IsPageMap
<1>2. CASE WorkerTake(w)
  <2>1. Head(queue) \in Job /\ Tail(queue) \in Seq(Job)
    BY <1>2 DEF WorkerTake, TypeOK
  <2> QED
    BY <1>1, <1>2, <2>1 DEF WorkerTake, TypeOK, collectorVars
<1>3. CASE WorkerPut(w)
  <2>1. job[w] \in Job
    BY <1>3 DEF WorkerPut, TypeOK
  <2>2. job[w].req \in Requests /\ job[w].seq \in Nat \ {0} /\ job[w].data \in Seq(Piece)
    BY <2>1 DEF Job
  <2>3. StoreTypeOK'
    BY <1>3, <2>2, StoreType DEF WorkerPut, TypeOK
  <2> QED
    BY <1>3, <2>2, <2>3 DEF WorkerPut, TypeOK
<1>4. CASE WorkerDone(w)
  <2>1. job[w].req \in Requests
    BY <1>4 DEF WorkerDone, TypeOK, Job
  <2> QED
    BY <1>1, <1>4, <2>1 DEF WorkerDone, TypeOK
<1> QED
  BY <1>2, <1>3, <1>4 DEF WorkerStep

LEMMA NextType == TypeOK /\ [CollectorNext]_vars => TypeOK'
<1> SUFFICES ASSUME TypeOK, [CollectorNext]_vars PROVE TypeOK'
  OBVIOUS
<1>1. ASSUME NEW r \in Requests, RedisLate(r) \/ Expire(r) PROVE TypeOK'
  <2>1. 1 \in Nat \ {0} /\ <<>> \in Seq(Piece) /\ StoreTypeOK
    BY DEF TypeOK
  <2>2. StoreTypeOK'
    BY <1>1, <2>1, StoreType DEF RedisLate, Expire
  <2> QED
    BY <1>1, <2>2 DEF RedisLate, Expire, TypeOK, collectorVars, poolVars, IsPageMap
<1>2. UNCHANGED vars => TypeOK'
  BY DEF vars, storeVars, collectorVars, poolVars, TypeOK, StoreTypeOK, IsPageMap
<1> QED
  BY <1>1, <1>2, CopyType, FinalizeType, WorkerType DEF CollectorNext, Rest

(***************************************************************************)
(* Type correctness: in every behaviour of the collector its variables     *)
(* keep their types, so that for instance a worker that is past its        *)
(* receive always holds a job of a known request.                          *)
(***************************************************************************)
THEOREM TypeCorrect == CollectorSpec => []TypeOK
  BY InitType, NextType, PTL DEF CollectorSpec

-----------------------------------------------------------------------------
(* Accounting of the outstanding pages.                                    *)

Busy(w) == wpc[w] # "idle"

\* No page number of a request is outstanding in two places.
PlacesDistinct ==
    /\ \A i, k \in DOMAIN queue :
          i # k /\ queue[i].req = queue[k].req => queue[i].seq # queue[k].seq
    /\ \A w, v \in Workers :
          w # v /\ Busy(w) /\ Busy(v) /\ job[w].req = job[v].req => job[w].seq # job[v].seq
    /\ \A i \in DOMAIN queue, w \in Workers :
          Busy(w) /\ queue[i].req = job[w].req => queue[i].seq # job[w].seq

\* Only numbers that submit has issued are outstanding.
NumbersIssued ==
    /\ \A i \in DOMAIN queue : queue[i].seq <= seq[queue[i].req]
    /\ \A w \in Workers : Busy(w) => job[w].seq <= seq[job[w].req]

\* Finalize runs inside onDone or after the close, and onDone only once
\* the collector is sealed: no page can be submitted while it runs.
CallDiscipline ==
    \A r \in Requests :
        /\ fin[r] \in FinSteps \cup FinResults => owner[r] \in {"onDone", "gone"}
        /\ fin[r] = "early" => sealed[r]
        /\ owner[r] = "onDone" => sealed[r]

\* The inductive invariant behind InflightCounts and NoFlushAfterRead.
Accounting ==
    /\ TypeOK
    /\ PlacesDistinct
    /\ NumbersIssued
    /\ CallDiscipline
    /\ InflightCounts
    /\ NoFlushAfterRead

LEMMA OutstandingFinite ==
    ASSUME TypeOK, NumbersIssued, NEW r \in Requests
    PROVE  /\ Outstanding(r) \subseteq 1..seq[r]
           /\ IsFiniteSet(Outstanding(r))
<1>1. seq[r] \in Nat
  BY DEF TypeOK
<1>2. \A i \in DOMAIN queue : queue[i] \in Job
  BY ElementOfSeq DEF TypeOK
<1>3. \A i \in DOMAIN queue : queue[i].seq \in Nat \ {0}
  BY <1>2 DEF Job
<1>4. \A w \in Workers : Busy(w) => job[w].seq \in Nat \ {0}
  BY DEF TypeOK, Busy, Job
<1>5. Queued(r) \subseteq 1..seq[r]
  BY <1>1, <1>3 DEF Queued, NumbersIssued
<1>6. Held(r) \subseteq 1..seq[r]
  BY <1>1, <1>4 DEF Held, NumbersIssued, Busy
<1>7. Outstanding(r) \subseteq 1..seq[r]
  BY <1>5, <1>6 DEF Outstanding
<1>8. IsFiniteSet(1..seq[r])
  BY <1>1, FS_Interval
<1> QED
  BY <1>7, <1>8, FS_Subset

\* The pool's threads do nothing that concerns the accounting.
LEMMA PoolIdle ==
    ASSUME UNCHANGED <<queue, job, wpc>>, NEW r
    PROVE  /\ Queued(r)' = Queued(r)
           /\ Held(r)' = Held(r)
           /\ Outstanding(r)' = Outstanding(r)
  BY DEF Queued, Held, Outstanding

LEMMA Enqueue ==
    ASSUME TypeOK, NEW j \in Job, queue' = Append(queue, j),
           UNCHANGED <<job, wpc>>, NEW r
    PROVE  /\ Queued(r)' = Queued(r) \cup (IF j.req = r THEN {j.seq} ELSE {})
           /\ Held(r)' = Held(r)
           /\ DOMAIN queue' = DOMAIN queue \cup {Len(queue) + 1}
           /\ \A i \in DOMAIN queue : queue'[i] = queue[i]
           /\ queue'[Len(queue) + 1] = j
<1>1. queue \in Seq(Job)
  BY DEF TypeOK
<1>2. /\ DOMAIN queue' = 1..(Len(queue) + 1)
      /\ DOMAIN queue = 1..Len(queue)
      /\ Len(queue) \in Nat
  BY <1>1, AppendProperties
<1>3. DOMAIN queue' = DOMAIN queue \cup {Len(queue) + 1}
  BY <1>2
<1>4. /\ \A i \in DOMAIN queue : queue'[i] = queue[i]
      /\ queue'[Len(queue) + 1] = j
  BY <1>1, <1>2, AppendProperties
<1>5. Queued(r)' = Queued(r) \cup (IF j.req = r THEN {j.seq} ELSE {})
  BY <1>3, <1>4 DEF Queued
<1>6. Held(r)' = Held(r)
  BY DEF Held
<1> QED
  BY <1>3, <1>4, <1>5, <1>6

LEMMA Take ==
    ASSUME TypeOK, NEW w \in Workers, WorkerTake(w), NEW r
    PROVE  /\ Queued(r) = Queued(r)' \cup (IF Head(queue).req = r THEN {Head(queue).seq} ELSE {})
           /\ Held(r)' = Held(r) \cup (IF Head(queue).req = r THEN {Head(queue).seq} ELSE {})
           /\ Outstanding(r)' = Outstanding(r)
           /\ Head(queue) = queue[1] /\ 1 \in DOMAIN queue
           /\ \A i \in DOMAIN queue' : i + 1 \in DOMAIN queue /\ i + 1 # 1 /\ queue'[i] = queue[i + 1]
           /\ job'[w] = Head(queue) /\ Busy(w)' /\ ~Busy(w)
           /\ \A v \in Workers : v # w => job'[v] = job[v] /\ wpc'[v] = wpc[v]
<1>1. queue \in Seq(Job) /\ queue # <<>> /\ queue' = Tail(queue)
  BY DEF TypeOK, WorkerTake
<1>2. /\ DOMAIN queue = 1..Len(queue) /\ Len(queue) \in Nat /\ Len(queue) >= 1
      /\ DOMAIN queue' = 1..(Len(queue) - 1)
      /\ Head(queue) = queue[1]
      /\ \A i \in 1..(Len(queue) - 1) : queue'[i] = queue[i + 1]
  BY <1>1
<1>3. \A i \in DOMAIN queue' : i + 1 \in DOMAIN queue /\ i + 1 # 1 /\ queue'[i] = queue[i + 1]
  BY <1>2
<1>4. \A k \in DOMAIN queue : k = 1 \/ (k - 1 \in DOMAIN queue' /\ queue'[k - 1] = queue[k])
  BY <1>2
<1>5. 1 \in DOMAIN queue
  BY <1>2
<1>6. Queued(r) = Queued(r)' \cup (IF Head(queue).req = r THEN {Head(queue).seq} ELSE {})
  BY <1>2, <1>3, <1>4, <1>5 DEF Queued
<1>7. /\ job'[w] = Head(queue) /\ Busy(w)' /\ ~Busy(w)
      /\ \A v \in Workers : v # w => job'[v] = job[v] /\ wpc'[v] = wpc[v]
  BY DEF WorkerTake, TypeOK, Busy
<1>8. Held(r)' = Held(r) \cup (IF Head(queue).req = r THEN {Head(queue).seq} ELSE {})
  BY <1>7 DEF Held, Busy
<1> QED
  BY <1>2, <1>3, <1>5, <1>6, <1>7, <1>8 DEF Outstanding

LEMMA Done ==
    ASSUME TypeOK, PlacesDistinct, NEW w \in Workers, WorkerDone(w), NEW r
    PROVE  /\ Queued(r)' = Queued(r)
           /\ Held(r)' = Held(r) \ (IF job[w].req = r THEN {job[w].seq} ELSE {})
           /\ Outstanding(r)' = Outstanding(r) \ (IF job[w].req = r THEN {job[w].seq} ELSE {})
           /\ job[w].req = r => job[w].seq \in Outstanding(r)
           /\ Busy(w) /\ ~Busy(w)'
           /\ \A v \in Workers : v # w => job'[v] = job[v] /\ wpc'[v] = wpc[v]
<1>1. /\ Busy(w) /\ ~Busy(w)'
      /\ \A v \in Workers : v # w => job'[v] = job[v] /\ wpc'[v] = wpc[v]
  BY DEF WorkerDone, TypeOK, Busy
<1>2. Queued(r)' = Queued(r)
  BY DEF Queued, WorkerDone
<1>3. \A v \in Workers : v # w /\ Busy(v) /\ job[v].req = job[w].req => job[v].seq # job[w].seq
  BY <1>1 DEF PlacesDistinct
<1>4. Held(r)' = Held(r) \ (IF job[w].req = r THEN {job[w].seq} ELSE {})
  BY <1>1, <1>3 DEF Held, Busy
<1>5. job[w].req = r => job[w].seq \in Held(r) /\ job[w].seq \notin Queued(r)
  BY <1>1 DEF Held, Queued, PlacesDistinct, Busy
<1> QED
  BY <1>1, <1>2, <1>4, <1>5 DEF Outstanding

-----------------------------------------------------------------------------
LEMMA InitAccounting == CollectorInit => Accounting
<1> SUFFICES ASSUME CollectorInit PROVE Accounting
  OBVIOUS
<1>1. TypeOK
  BY InitType
<1>2. DOMAIN queue = {} /\ \A w \in Workers : ~Busy(w)
  BY DEF CollectorInit, Busy
<1>3. PlacesDistinct /\ NumbersIssued
  BY <1>2 DEF PlacesDistinct, NumbersIssued
<1>4. CallDiscipline
  BY DEF CallDiscipline, CollectorInit, FinSteps, FinResults, FinErrors
<1>5. \A r \in Requests : Outstanding(r) = {}
  BY <1>2 DEF Outstanding, Queued, Held, Busy
<1>6. InflightCounts
  BY <1>5, FS_EmptySet DEF InflightCounts, CollectorInit
<1>7. NoFlushAfterRead
  BY <1>5 DEF NoFlushAfterRead
<1> QED
  BY <1>1, <1>3, <1>4, <1>6, <1>7 DEF Accounting

\* A step that leaves the pool and the counters alone.
LEMMA AccountingQuiet ==
    ASSUME Accounting, UNCHANGED <<queue, job, wpc, seq, inflight>>
    PROVE  /\ PlacesDistinct' /\ NumbersIssued' /\ InflightCounts'
           /\ \A r \in Requests : Outstanding(r)' = Outstanding(r)
<1>1. PlacesDistinct' /\ NumbersIssued'
  BY DEF Accounting, PlacesDistinct, NumbersIssued, Busy
<1>2. \A r \in Requests : Outstanding(r)' = Outstanding(r)
  BY PoolIdle
<1>3. InflightCounts'
  BY <1>2 DEF Accounting, InflightCounts
<1> QED
  BY <1>1, <1>2, <1>3

\* One Write call.
LEMMA WriteAccounting ==
    ASSUME Accounting, TypeOK', NEW r \in Requests, NEW c \in Chunks, Write(r, c)
    PROVE  Accounting'
<1>1. /\ UNCHANGED <<fin, wpc, job>> /\ owner[r] = "writing"
      /\ fin \in [Requests -> FinStates]
  BY DEF Write, Ignores, Accounting, TypeOK
<1>2. fin[r] \notin FinSteps \cup FinResults
  BY <1>1 DEF Accounting, CallDiscipline
<1>3. CallDiscipline'
  <2>1. watchDone(r, c) \/ UNCHANGED <<owner, sawDone, sealed>>
    BY DEF Write, Ignores
  <2>2. CASE UNCHANGED <<owner, sealed>>
    BY <1>1, <2>2 DEF Accounting, CallDiscipline
  <2>3. CASE /\ sealed' = [sealed EXCEPT ![r] = TRUE]
             /\ owner' = [owner EXCEPT ![r] = "onDone"]
    <3>1. /\ \A q \in Requests : q # r => sealed'[q] = sealed[q] /\ owner'[q] = owner[q]
          /\ sealed'[r] /\ owner'[r] = "onDone"
      BY <2>3 DEF Accounting, TypeOK
    <3> QED
      BY <1>1, <3>1 DEF Accounting, CallDiscipline
  <2> QED
    BY <2>1, <2>2, <2>3 DEF watchDone
<1>4. CASE UNCHANGED <<queue, seq, inflight>>
  <2>1. /\ PlacesDistinct' /\ NumbersIssued' /\ InflightCounts'
        /\ \A q \in Requests : Outstanding(q)' = Outstanding(q)
    BY <1>1, <1>4, AccountingQuiet
  <2>2. NoFlushAfterRead'
    BY <1>1, <2>1 DEF Accounting, NoFlushAfterRead
  <2> QED
    BY <1>3, <2>1, <2>2 DEF Accounting
<1>5. ASSUME ~sealed[r], NEW page, submit(r, page) PROVE Accounting'
  <2>1. seq' = [seq EXCEPT ![r] = @ + 1] /\ seq \in [Requests -> Nat]
    BY <1>5 DEF submit, Accounting, TypeOK
  <2>2. CASE UNCHANGED <<queue, inflight>>
    <3>1. PlacesDistinct' /\ \A q \in Requests : Outstanding(q)' = Outstanding(q)
      BY <1>1, <2>2, PoolIdle DEF Accounting, PlacesDistinct, Busy
    <3>2. \A q \in Requests : seq[q] \in Nat /\ seq'[q] \in Nat /\ seq[q] <= seq'[q]
      BY <2>1
    <3>3. /\ \A i \in DOMAIN queue : queue[i] \in Job
          /\ \A w \in Workers : Busy(w) => job[w] \in Job
      BY ElementOfSeq DEF Accounting, TypeOK, Busy
    <3>4. NumbersIssued'
      BY <1>1, <2>2, <3>2, <3>3 DEF Accounting, NumbersIssued, Busy, Job
    <3>5. InflightCounts' /\ NoFlushAfterRead'
      BY <1>1, <2>2, <3>1 DEF Accounting, InflightCounts, NoFlushAfterRead
    <3> QED
      BY <1>3, <3>1, <3>4, <3>5 DEF Accounting
  <2>3. CASE /\ queue' = Append(queue, [req |-> r, seq |-> seq[r] + 1, data |-> page])
             /\ inflight' = [inflight EXCEPT ![r] = @ + 1]
    <3> DEFINE j == [req |-> r, seq |-> seq[r] + 1, data |-> page]
    <3>1. /\ j \in Job /\ j.req = r /\ j.seq = seq[r] + 1 /\ seq[r] \in Nat
          /\ queue' = Append(queue, j)
      <4>1. queue \in Seq(Job) /\ queue' \in Seq(Job)
        BY DEF Accounting, TypeOK
      <4>2. Len(queue) + 1 \in DOMAIN queue' /\ queue'[Len(queue) + 1] = j
        BY <2>3, <4>1
      <4>3. j \in Job
        BY <4>1, <4>2, ElementOfSeq
      <4> QED
        BY <2>1, <2>3, <4>3
    <3> HIDE DEF j
    <3>2. /\ \A q \in Requests : /\ Queued(q)' = Queued(q) \cup (IF j.req = q THEN {j.seq} ELSE {})
                                 /\ Held(q)' = Held(q)
          /\ DOMAIN queue' = DOMAIN queue \cup {Len(queue) + 1}
          /\ \A i \in DOMAIN queue : queue'[i] = queue[i]
          /\ queue'[Len(queue) + 1] = j
      BY <1>1, <3>1, Enqueue DEF Accounting
    <3>3. /\ \A i \in DOMAIN queue : queue[i] \in Job
          /\ \A w \in Workers : Busy(w) => job[w] \in Job
      BY ElementOfSeq DEF Accounting, TypeOK, Busy
    <3>4. /\ \A i \in DOMAIN queue : queue[i].req = r => queue[i].seq # j.seq
          /\ \A w \in Workers : Busy(w) /\ job[w].req = r => job[w].seq # j.seq
      BY <3>1, <3>3 DEF Accounting, NumbersIssued, Job
    <3>5. PlacesDistinct'
      BY <1>1, <3>1, <3>2, <3>4 DEF Accounting, PlacesDistinct, Busy
    <3>6. NumbersIssued'
      <4>1. \A q \in Requests : seq[q] \in Nat /\ seq'[q] \in Nat /\ seq[q] <= seq'[q]
        BY <2>1
      <4>2. j.seq <= seq'[j.req]
        BY <2>1, <3>1
      <4> QED
        BY <1>1, <3>2, <3>3, <4>1, <4>2 DEF Accounting, NumbersIssued, Busy, Job
    <3>7. \A q \in Requests : Outstanding(q)' = Outstanding(q) \cup (IF r = q THEN {j.seq} ELSE {})
      BY <3>1, <3>2 DEF Outstanding
    <3>8. j.seq \notin Outstanding(r) /\ IsFiniteSet(Outstanding(r))
      BY <3>1, OutstandingFinite DEF Accounting
    <3>9. InflightCounts'
      <4>1. inflight'[r] = inflight[r] + 1
        BY <2>3 DEF Accounting, TypeOK
      <4>2. Cardinality(Outstanding(r) \cup {j.seq}) = Cardinality(Outstanding(r)) + 1
        BY <3>8, FS_AddElement
      <4>3. \A q \in Requests : q # r => inflight'[q] = inflight[q]
        BY <2>3 DEF Accounting, TypeOK
      <4> QED
        BY <3>7, <4>1, <4>2, <4>3 DEF Accounting, InflightCounts
    <3>10. NoFlushAfterRead'
      <4>1. fin[r] \notin {"read", "delete", "ok", "early"}
        BY <1>2, <1>5 DEF Accounting, CallDiscipline, FinSteps, FinResults
      <4> QED
        BY <1>1, <3>7, <4>1 DEF Accounting, NoFlushAfterRead
    <3> QED
      BY <1>3, <3>5, <3>6, <3>9, <3>10 DEF Accounting
  <2> QED
    BY <1>5, <2>2, <2>3 DEF submit
<1> QED
  BY <1>4, <1>5 DEF Write, Ignores

\* The other steps of the copy goroutine.
LEMMA CopyAccounting ==
    ASSUME Accounting, TypeOK', NEW r \in Requests, CopyStep(r)
    PROVE  Accounting'
<1>1. ASSUME NewCollector(r) \/ WriteReturn(r) \/ CloseBody(r) PROVE Accounting'
  <2>1. UNCHANGED <<queue, job, wpc, seq, inflight, sealed>>
    BY <1>1 DEF NewCollector, WriteReturn, CloseBody, poolVars
  <2>2. /\ PlacesDistinct' /\ NumbersIssued' /\ InflightCounts'
        /\ \A q \in Requests : Outstanding(q)' = Outstanding(q)
    BY <2>1, AccountingQuiet
  <2>3. /\ \A q \in Requests : q # r => fin'[q] = fin[q] /\ owner'[q] = owner[q]
        /\ owner[r] # "onDone" => fin'[r] = fin[r]
        /\ owner[r] = "onDone" => fin'[r] \in {"none", "early"}
        /\ fin'[r] = "early" => fin[r] \in {"ok", "early"}
        /\ owner'[r] # "onDone"
        /\ owner[r] = "gone" => owner'[r] = "gone"
    BY <1>1 DEF NewCollector, WriteReturn, CloseBody, Accounting, TypeOK
  <2>4. CallDiscipline'
    <3>1. fin'[r] \notin FinSteps \cup FinResults
      BY <1>1, <2>3 DEF NewCollector, WriteReturn, CloseBody, Accounting, CallDiscipline,
                        FinSteps, FinResults, FinErrors
    <3>2. fin'[r] = "early" => sealed[r]
      BY <1>1, <2>3 DEF NewCollector, WriteReturn, CloseBody, Accounting, CallDiscipline
    <3> QED
      BY <2>1, <2>3, <3>1, <3>2 DEF Accounting, CallDiscipline
  <2>5. NoFlushAfterRead'
    <3>1. fin'[r] \in {"read", "delete", "ok", "early"} => fin[r] \in {"read", "delete", "ok", "early"}
      BY <2>3
    <3> QED
      BY <2>2, <2>3, <3>1 DEF Accounting, NoFlushAfterRead
  <2> QED
    BY <2>2, <2>4, <2>5 DEF Accounting
<1> QED
  BY <1>1, WriteAccounting DEF CopyStep

\* Finalize and Abort: only the Wait needs the count.
LEMMA FinalizeAccounting ==
    ASSUME Accounting, TypeOK', NEW r \in Requests, FinalizeStep(r) \/ Abort(r)
    PROVE  Accounting'
<1> USE DEF FinalizeStep
<1>1. UNCHANGED <<queue, job, wpc, seq, inflight, sealed, owner>>
  BY DEF FinalizeCall, FinalizeWait, FinalizeRead, FinalizeDelete, Abort, poolVars
<1>2. /\ PlacesDistinct' /\ NumbersIssued' /\ InflightCounts'
      /\ \A q \in Requests : Outstanding(q)' = Outstanding(q)
  BY <1>1, AccountingQuiet
<1>3. /\ \A q \in Requests : q # r => fin'[q] = fin[q]
      /\ fin[r] \in {"none"} \cup FinSteps
      /\ fin'[r] # "early"
      /\ owner[r] \in {"onDone", "gone"}
  <2>1. CASE FinalizeDelete(r)
    <3>1. AssistantFromSSE(Payload(r)).result # "early"
      BY ParseResult DEF FinResults, FinErrors
    <3> QED
      BY <2>1, <3>1 DEF FinalizeDelete, Accounting, TypeOK, CallDiscipline, FinSteps
  <2>2. CASE FinalizeCall(r) \/ FinalizeWait(r) \/ FinalizeRead(r) \/ Abort(r)
    BY <2>2 DEF FinalizeCall, FinalizeWait, FinalizeRead, Abort, Accounting, TypeOK,
                CallDiscipline, FinSteps
  <2> QED
    BY <2>1, <2>2
<1>4. CallDiscipline'
  BY <1>1, <1>3 DEF Accounting, CallDiscipline
<1>5. fin'[r] \in {"read", "delete", "ok"} => Outstanding(r) = {}
  <2>1. CASE FinalizeCall(r) \/ Abort(r)
    BY <2>1 DEF FinalizeCall, Abort, Accounting, TypeOK
  <2>2. CASE FinalizeWait(r)
    <3>1. inflight[r] = 0
      BY <2>2 DEF FinalizeWait
    <3>2. Cardinality(Outstanding(r)) = 0 /\ IsFiniteSet(Outstanding(r))
      BY <3>1, OutstandingFinite DEF Accounting, InflightCounts
    <3> QED
      BY <3>2, FS_EmptySet
  <2>3. CASE FinalizeRead(r) \/ FinalizeDelete(r)
    BY <2>3 DEF FinalizeRead, FinalizeDelete, Accounting, NoFlushAfterRead
  <2> QED
    BY <2>1, <2>2, <2>3
<1>6. NoFlushAfterRead'
  BY <1>2, <1>3, <1>5 DEF Accounting, NoFlushAfterRead
<1> QED
  BY <1>2, <1>4, <1>6 DEF Accounting

\* The workers: Take moves a page, Put leaves it with its worker, Done
\* drops it and counts down.
LEMMA WorkerAccounting ==
    ASSUME Accounting, TypeOK', NEW w \in Workers, WorkerStep(w)
    PROVE  Accounting'
<1>1. CASE WorkerTake(w)
  <2>1. UNCHANGED <<owner, seq, inflight, sealed, fin>>
    BY <1>1 DEF WorkerTake, collectorVars
  <2>2. /\ \A r \in Requests : Outstanding(r)' = Outstanding(r)
        /\ Head(queue) = queue[1] /\ 1 \in DOMAIN queue
        /\ \A i \in DOMAIN queue' : i + 1 \in DOMAIN queue /\ i + 1 # 1 /\ queue'[i] = queue[i + 1]
        /\ job'[w] = Head(queue) /\ Busy(w)' /\ ~Busy(w)
        /\ \A v \in Workers : v # w => job'[v] = job[v] /\ wpc'[v] = wpc[v]
    BY <1>1, Take DEF Accounting
  <2>3. DOMAIN queue' \subseteq Int
    BY DEF TypeOK
  <2>4. PlacesDistinct'
    <3>1. \A i, k \in DOMAIN queue' :
             i # k /\ queue'[i].req = queue'[k].req => queue'[i].seq # queue'[k].seq
      BY <2>2, <2>3 DEF Accounting, PlacesDistinct
    <3>2. \A v \in Workers : v # w => (Busy(v)' <=> Busy(v))
      BY <2>2 DEF Busy
    <3>3. \A v, u \in Workers :
             v # u /\ Busy(v)' /\ Busy(u)' /\ job'[v].req = job'[u].req => job'[v].seq # job'[u].seq
      BY <2>2, <3>2 DEF Accounting, PlacesDistinct
    <3>4. \A i \in DOMAIN queue', v \in Workers :
             Busy(v)' /\ queue'[i].req = job'[v].req => queue'[i].seq # job'[v].seq
      BY <2>2, <3>2 DEF Accounting, PlacesDistinct
    <3> QED
      BY <3>1, <3>3, <3>4 DEF PlacesDistinct
  <2>5. NumbersIssued'
    BY <2>1, <2>2 DEF Accounting, NumbersIssued, Busy
  <2>6. CallDiscipline' /\ InflightCounts' /\ NoFlushAfterRead'
    BY <2>1, <2>2 DEF Accounting, CallDiscipline, InflightCounts, NoFlushAfterRead
  <2> QED
    BY <2>4, <2>5, <2>6 DEF Accounting
<1>2. CASE WorkerPut(w)
  <2>1. /\ UNCHANGED <<owner, seq, inflight, sealed, fin, queue, job>>
        /\ \A v \in Workers : Busy(v)' <=> Busy(v)
    BY <1>2 DEF WorkerPut, Accounting, TypeOK, Busy
  <2>2. \A r \in Requests : Outstanding(r)' = Outstanding(r)
    BY <2>1 DEF Outstanding, Queued, Held, Busy
  <2>3. PlacesDistinct' /\ NumbersIssued'
    BY <2>1 DEF Accounting, PlacesDistinct, NumbersIssued
  <2>4. CallDiscipline' /\ InflightCounts' /\ NoFlushAfterRead'
    BY <2>1, <2>2 DEF Accounting, CallDiscipline, InflightCounts, NoFlushAfterRead
  <2> QED
    BY <2>3, <2>4 DEF Accounting
<1>3. CASE WorkerDone(w)
  <2> DEFINE r == job[w].req
             n == job[w].seq
  <2>1. UNCHANGED <<owner, seq, sealed, fin, queue>>
    BY <1>3 DEF WorkerDone
  <2>2. /\ \A q \in Requests : Outstanding(q)' = Outstanding(q) \ (IF r = q THEN {n} ELSE {})
        /\ Busy(w) /\ ~Busy(w)'
        /\ \A v \in Workers : v # w => job'[v] = job[v] /\ wpc'[v] = wpc[v]
    BY <1>3, Done DEF Accounting
  <2>3. r \in Requests
    BY <2>2 DEF Accounting, TypeOK, Busy, Job
  <2>4. n \in Outstanding(r) /\ IsFiniteSet(Outstanding(r))
    BY <1>3, <2>3, Done, OutstandingFinite DEF Accounting
  <2>5. PlacesDistinct' /\ NumbersIssued'
    BY <2>1, <2>2 DEF Accounting, PlacesDistinct, NumbersIssued, Busy
  <2>6. InflightCounts'
    <3>1. /\ inflight'[r] = inflight[r] - 1
          /\ \A q \in Requests : q # r => inflight'[q] = inflight[q]
      BY <1>3, <2>3 DEF WorkerDone, Accounting, TypeOK
    <3>2. Cardinality(Outstanding(r) \ {n}) = Cardinality(Outstanding(r)) - 1
      BY <2>4, FS_RemoveElement
    <3> HIDE DEF r, n
    <3> QED
      BY <2>2, <2>3, <3>1, <3>2 DEF Accounting, InflightCounts
  <2>7. CallDiscipline' /\ NoFlushAfterRead'
    BY <2>1, <2>2 DEF Accounting, CallDiscipline, NoFlushAfterRead
  <2> QED
    BY <2>5, <2>6, <2>7 DEF Accounting
<1> QED
  BY <1>1, <1>2, <1>3 DEF WorkerStep

LEMMA NextAccounting == Accounting /\ [CollectorNext]_vars => Accounting'
<1> SUFFICES ASSUME Accounting, [CollectorNext]_vars PROVE Accounting'
  OBVIOUS
<1>1. TypeOK'
  BY NextType DEF Accounting
<1>2. ASSUME UNCHANGED <<collectorVars, poolVars>> PROVE Accounting'
  <2>1. UNCHANGED <<queue, job, wpc, seq, inflight, sealed, owner, fin>>
    BY <1>2 DEF collectorVars, poolVars
  <2>2. /\ PlacesDistinct' /\ NumbersIssued' /\ InflightCounts'
        /\ \A q \in Requests : Outstanding(q)' = Outstanding(q)
    BY <2>1, AccountingQuiet
  <2>3. CallDiscipline' /\ NoFlushAfterRead'
    BY <2>1, <2>2 DEF Accounting, CallDiscipline, NoFlushAfterRead
  <2> QED
    BY <1>1, <2>2, <2>3 DEF Accounting
<1>3. ASSUME NEW r \in Requests, RedisLate(r) \/ Expire(r) PROVE Accounting'
  BY <1>2, <1>3 DEF RedisLate, Expire
<1>4. UNCHANGED vars => Accounting'
  BY <1>2 DEF vars
<1> QED
  BY <1>1, <1>3, <1>4, CopyAccounting, FinalizeAccounting, WorkerAccounting
     DEF CollectorNext, Rest

(***************************************************************************)
(* The WaitGroup is exact: in every reachable state its counter is the     *)
(* number of pages of the request still in the queue or held by a worker.  *)
(***************************************************************************)
THEOREM InflightExact == CollectorSpec => []InflightCounts
<1>1. Accounting => InflightCounts
  BY DEF Accounting
<1> QED
  BY <1>1, InitAccounting, NextAccounting, PTL DEF CollectorSpec

(***************************************************************************)
(* The last-page race is excluded: after Finalize's Wait no flush of the   *)
(* request can reach Redis any more.                                       *)
(***************************************************************************)
THEOREM LastPageRaceExcluded == CollectorSpec => []NoFlushAfterRead
<1>1. Accounting => NoFlushAfterRead
  BY DEF Accounting
<1> QED
  BY <1>1, InitAccounting, NextAccounting, PTL DEF CollectorSpec

-----------------------------------------------------------------------------
(* Page conservation.                                                      *)

\* Redis can only be late with a write whose worker has reported a failure.
LateMeansFailed == \A r \in Requests : wire[r] # {} => failed[r]

\* The inductive invariant behind PageConservation and ReadsEveryPage.
Conservation ==
    /\ Accounting
    /\ LateMeansFailed
    /\ PageConservation
    /\ ReadsEveryPage

\* What PageConservation says of one request.
Conserved(r) ==
    /\ DOMAIN pages[r] \cup Outstanding(r) = 1..seq[r]
    /\ DOMAIN pages[r] \cap Queued(r) = {}
    /\ \A w \in Workers : Busy(w) /\ job[w].req = r =>
          ((wpc[w] = "put") <=> (job[w].seq \notin DOMAIN pages[r]))

LEMMA ConservedIs == PageConservation <=> \A r \in Requests : Intact(r) => Conserved(r)
  BY DEF PageConservation, Conserved, Busy

LEMMA InitConservation == CollectorInit => Conservation
<1> SUFFICES ASSUME CollectorInit PROVE Conservation
  OBVIOUS
<1>1. Accounting
  BY InitAccounting
<1>2. LateMeansFailed
  BY DEF CollectorInit, StoreInit, LateMeansFailed
<1>3. \A r \in Requests : /\ DOMAIN pages[r] = {} /\ Queued(r) = {} /\ Held(r) = {}
                          /\ seq[r] = 0 /\ fin[r] = "none"
  BY NoPagesType DEF CollectorInit, StoreInit, Queued, Held
<1>4. \A w \in Workers : ~Busy(w)
  BY DEF CollectorInit, Busy
<1>5. PageConservation
  BY <1>3, <1>4, ConservedIs DEF Conserved, Outstanding
<1>6. ReadsEveryPage
  BY <1>3 DEF ReadsEveryPage
<1> QED
  BY <1>1, <1>2, <1>5, <1>6 DEF Conservation

\* Pages, pool and page numbers of r stay as they are.
LEMMA ConservedQuiet ==
    ASSUME NEW r, Conserved(r), DOMAIN pages'[r] = DOMAIN pages[r], seq'[r] = seq[r],
           UNCHANGED <<queue, job, wpc>>
    PROVE  Conserved(r)'
  BY PoolIdle DEF Conserved, Busy

LEMMA CopyConservation ==
    ASSUME Conservation, Accounting', NEW r \in Requests, CopyStep(r)
    PROVE  Conservation'
<1>1. UNCHANGED <<pages, wire, expired, job, wpc>>
  BY DEF CopyStep, NewCollector, Write, Ignores, WriteReturn, CloseBody, storeVars, poolVars
<1>2. \A q \in Requests : failed[q] => failed'[q]
  <2>1. ASSUME NEW c \in Chunks, Write(r, c) PROVE \A q \in Requests : failed[q] => failed'[q]
    <3>1. failed' = [failed EXCEPT ![r] = TRUE] \/ UNCHANGED failed
      BY <2>1 DEF Write, Ignores, submit
    <3> QED
      BY <3>1 DEF Conservation, Accounting, TypeOK
  <2> QED
    BY <2>1 DEF CopyStep, NewCollector, WriteReturn, CloseBody
<1>3. LateMeansFailed'
  BY <1>1, <1>2 DEF Conservation, LateMeansFailed
<1>4. \A q \in Requests : q # r =>
        /\ owner'[q] = owner[q] /\ sealed'[q] = sealed[q] /\ fin'[q] = fin[q]
        /\ got'[q] = got[q] /\ seq'[q] = seq[q] /\ failed'[q] = failed[q]
  <2>1. ASSUME NEW c \in Chunks, Write(r, c), NEW q \in Requests, q # r
        PROVE  /\ owner'[q] = owner[q] /\ sealed'[q] = sealed[q] /\ fin'[q] = fin[q]
               /\ got'[q] = got[q] /\ seq'[q] = seq[q] /\ failed'[q] = failed[q]
    <3>1. watchDone(r, c) \/ UNCHANGED <<owner, sawDone, sealed>>
      BY <2>1 DEF Write, Ignores
    <3>2. owner'[q] = owner[q] /\ sealed'[q] = sealed[q]
      BY <3>1, <2>1 DEF watchDone, Conservation, Accounting, TypeOK
    <3>3. /\ seq' = [seq EXCEPT ![r] = @ + 1] \/ UNCHANGED seq
          /\ failed' = [failed EXCEPT ![r] = TRUE] \/ UNCHANGED failed
          /\ UNCHANGED <<fin, got>>
      BY <2>1 DEF Write, Ignores, submit
    <3> QED
      BY <2>1, <3>2, <3>3 DEF Conservation, Accounting, TypeOK
  <2> QED
    BY <2>1 DEF CopyStep, NewCollector, WriteReturn, CloseBody, Conservation, Accounting, TypeOK
<1>5. ReadsEveryPage'
  <2>1. fin'[r] \notin {"delete", "ok"}
    <3>1. ASSUME NEW c \in Chunks, Write(r, c) PROVE fin'[r] \notin {"delete", "ok"}
      BY <3>1 DEF Write, Ignores, Conservation, Accounting, CallDiscipline, FinSteps, FinResults
    <3> QED
      BY <3>1 DEF CopyStep, NewCollector, WriteReturn, CloseBody, Conservation, Accounting,
                  TypeOK, CallDiscipline, FinSteps, FinResults
  <2> QED
    BY <1>1, <1>4, <2>1 DEF Conservation, ReadsEveryPage
<1>6. ASSUME NEW q \in Requests, Intact(q)', UNCHANGED queue, seq'[q] = seq[q], Intact(q)
      PROVE  Conserved(q)'
  <2>1. Conserved(q)
    BY <1>6, ConservedIs DEF Conservation
  <2> QED
    BY <1>1, <1>6, <2>1, ConservedQuiet
<1>7. CASE NewCollector(r) \/ WriteReturn(r) \/ CloseBody(r)
  <2>1. UNCHANGED <<queue, seq, sealed, failed>>
    BY <1>7 DEF NewCollector, WriteReturn, CloseBody, poolVars
  <2>2. ASSUME Intact(r)' PROVE Intact(r)
    <3>1. CASE WriteReturn(r)
      <4>1. sealed[r] /\ owner'[r] = "writing"
        BY <3>1 DEF WriteReturn, Conservation, Accounting, CallDiscipline, TypeOK
      <4> QED
        BY <2>1, <2>2, <4>1 DEF Intact
    <3>2. CASE NewCollector(r) \/ CloseBody(r)
      BY <1>1, <2>1, <2>2, <3>2 DEF NewCollector, CloseBody, Intact, Conservation, Accounting, TypeOK
    <3> QED
      BY <1>7, <3>1, <3>2
  <2>3. \A q \in Requests : Intact(q)' => Intact(q)
    BY <1>1, <1>4, <2>2 DEF Intact
  <2>4. PageConservation'
    BY <1>6, <2>1, <2>3, ConservedIs DEF PageConservation, Conserved, Busy
  <2> QED
    BY <1>3, <1>5, <2>4 DEF Conservation
<1>8. ASSUME NEW c \in Chunks, Write(r, c) PROVE Conservation'
  <2>1. ASSUME Intact(r)' PROVE Intact(r)
    <3>1. CASE UNCHANGED <<owner, sealed, failed>>
      BY <1>1, <1>8, <2>1, <3>1 DEF Write, Ignores, Intact
    <3>2. CASE ~sealed[r]
      BY <1>1, <1>2, <1>8, <2>1, <3>2 DEF Write, Ignores, Intact
    <3> QED
      BY <1>8, <3>1, <3>2 DEF Write, Ignores
  <2>2. \A q \in Requests : Intact(q)' => Intact(q)
    BY <1>1, <1>4, <2>1 DEF Intact
  <2>3. CASE UNCHANGED <<queue, seq>>
    <3>1. PageConservation'
      BY <1>6, <2>2, <2>3, ConservedIs DEF PageConservation, Conserved, Busy
    <3> QED
      BY <1>3, <1>5, <3>1 DEF Conservation
  <2>4. ASSUME NEW page, submit(r, page) PROVE Conservation'
    <3>1. seq'[r] = seq[r] + 1 /\ seq[r] \in Nat
      BY <2>4 DEF submit, Conservation, Accounting, TypeOK
    <3>2. CASE failed' = [failed EXCEPT ![r] = TRUE] /\ UNCHANGED queue
      <4>1. ~Intact(r)'
        BY <3>2 DEF Intact, Conservation, Accounting, TypeOK
      <4>2. PageConservation'
        BY <1>4, <1>6, <2>2, <3>2, <4>1, ConservedIs DEF PageConservation, Conserved, Busy
      <4> QED
        BY <1>3, <1>5, <4>2 DEF Conservation
    <3>3. CASE queue' = Append(queue, [req |-> r, seq |-> seq[r] + 1, data |-> page])
      <4> DEFINE j == [req |-> r, seq |-> seq[r] + 1, data |-> page]
      <4>1. j \in Job /\ j.req = r /\ j.seq = seq[r] + 1 /\ queue' = Append(queue, j)
        <5>1. queue \in Seq(Job) /\ queue' \in Seq(Job)
          BY DEF Conservation, Accounting, TypeOK
        <5>2. Len(queue) + 1 \in DOMAIN queue' /\ queue'[Len(queue) + 1] = j
          BY <3>3, <5>1
        <5>3. j \in Job
          BY <5>1, <5>2, ElementOfSeq
        <5> QED
          BY <3>3, <5>3
      <4> HIDE DEF j
      <4>2. \A q \in Requests : /\ Queued(q)' = Queued(q) \cup (IF j.req = q THEN {j.seq} ELSE {})
                               /\ Held(q)' = Held(q)
        BY <1>1, <4>1, Enqueue DEF Conservation, Accounting
      <4>3. ASSUME NEW q \in Requests, Intact(q)' PROVE Conserved(q)'
        <5>1. Conserved(q)
          BY <2>2, <4>3, ConservedIs DEF Conservation
        <5>2. CASE q = r
          <6>1. DOMAIN pages[r] \subseteq 1..seq[r]
            BY <5>1, <5>2 DEF Conserved
          <6>2. j.seq \notin DOMAIN pages[r] /\ 1..(seq[r] + 1) = 1..seq[r] \cup {j.seq}
            BY <3>1, <4>1, <6>1
          <6> QED
            BY <1>1, <3>1, <4>1, <4>2, <5>1, <5>2, <6>2 DEF Conserved, Outstanding, Busy
        <5>3. CASE q # r
          BY <1>1, <1>4, <4>1, <4>2, <5>1, <5>3 DEF Conserved, Outstanding, Busy
        <5> QED
          BY <5>2, <5>3
      <4>4. PageConservation'
        BY <4>3, ConservedIs DEF PageConservation, Conserved, Busy
      <4> QED
        BY <1>3, <1>5, <4>4 DEF Conservation
    <3> QED
      BY <2>4, <3>2, <3>3 DEF submit
  <2> QED
    BY <1>8, <2>3, <2>4 DEF Write, Ignores
<1> QED
  BY <1>7, <1>8 DEF CopyStep

LEMMA FinalizeConservation ==
    ASSUME Conservation, Accounting', NEW r \in Requests, FinalizeStep(r) \/ Abort(r)
    PROVE  Conservation'
<1> USE DEF FinalizeStep
<1>1. UNCHANGED <<queue, job, wpc, seq, sealed, owner, wire, expired>>
  BY DEF FinalizeCall, FinalizeWait, FinalizeRead, FinalizeDelete, Abort, poolVars,
         storeVars, DeletePages
<1>2. /\ \A q \in Requests : failed[q] => failed'[q]
      /\ \A q \in Requests : q # r =>
            /\ fin'[q] = fin[q] /\ got'[q] = got[q] /\ failed'[q] = failed[q]
            /\ pages'[q] = pages[q]
  BY DEF FinalizeCall, FinalizeWait, FinalizeRead, FinalizeDelete, Abort, storeVars,
         DeletePages, DropEntry, Conservation, Accounting, TypeOK, StoreTypeOK
<1>3. LateMeansFailed'
  BY <1>1, <1>2 DEF Conservation, LateMeansFailed
<1>4. ASSUME Intact(r)' PROVE Intact(r) /\ pages' = pages
  <2>1. CASE FinalizeDelete(r)
    <3>1. fin'[r] \in FinResults
      BY <2>1, ParseResult DEF FinalizeDelete, Conservation, Accounting, TypeOK
    <3> QED
      BY <1>4, <3>1 DEF Intact, FinResults, FinErrors, FinSteps
  <2>2. CASE Abort(r)
    <3>1. fin'[r] = "aborted"
      BY <2>2 DEF Abort, Conservation, Accounting, TypeOK
    <3> QED
      BY <1>4, <3>1 DEF Intact, FinSteps
  <2>3. CASE FinalizeCall(r) \/ FinalizeWait(r) \/ FinalizeRead(r)
    BY <1>1, <1>4, <2>3 DEF FinalizeCall, FinalizeWait, FinalizeRead, Intact, FinSteps, storeVars
  <2> QED
    BY <2>1, <2>2, <2>3
<1>5. ASSUME NEW q \in Requests, Intact(q)' PROVE Conserved(q)'
  <2>1. Intact(q) /\ pages'[q] = pages[q]
    BY <1>1, <1>2, <1>4, <1>5 DEF Intact
  <2>2. Conserved(q)
    BY <2>1, ConservedIs DEF Conservation
  <2> QED
    BY <1>1, <2>1, <2>2, ConservedQuiet
<1>6. PageConservation'
  BY <1>5, ConservedIs DEF PageConservation, Conserved, Busy
<1>7. ASSUME fin'[r] \in {"delete", "ok"}, ~failed'[r], ~expired'[r],
             owner'[r] = "onDone" \/ ~sealed'[r]
      PROVE  DOMAIN got'[r] = 1..seq'[r]
  <2>1. CASE FinalizeRead(r)
    <3>1. got'[r] = pages[r] /\ fin[r] = "read" /\ ~failed[r]
      BY <1>7, <2>1 DEF FinalizeRead, Conservation, Accounting, TypeOK
    <3>2. Intact(r)
      BY <1>1, <1>7, <3>1 DEF Intact, FinSteps
    <3>3. Conserved(r) /\ Outstanding(r) = {}
      BY <3>1, <3>2, ConservedIs DEF Conservation, Accounting, NoFlushAfterRead
    <3> QED
      BY <1>1, <3>1, <3>3 DEF Conserved
  <2>2. CASE FinalizeDelete(r)
    BY <1>1, <1>7, <2>2 DEF FinalizeDelete, Conservation, ReadsEveryPage
  <2>3. CASE FinalizeCall(r) \/ FinalizeWait(r) \/ Abort(r)
    BY <1>7, <2>3 DEF FinalizeCall, FinalizeWait, Abort, Conservation, Accounting, TypeOK
  <2> QED
    BY <2>1, <2>2, <2>3
<1>8. ReadsEveryPage'
  BY <1>1, <1>2, <1>7 DEF Conservation, ReadsEveryPage
<1> QED
  BY <1>3, <1>6, <1>8 DEF Conservation

LEMMA WorkerConservation ==
    ASSUME Conservation, Accounting', NEW w \in Workers, WorkerStep(w)
    PROVE  Conservation'
<1>1. UNCHANGED <<owner, seq, sealed, fin, got, expired>>
  BY DEF WorkerStep, WorkerTake, WorkerPut, WorkerDone, collectorVars, storeVars,
         PutPage, PutPageError
<1>2. \A q \in Requests : failed[q] => failed'[q]
  BY DEF WorkerStep, WorkerTake, WorkerPut, WorkerDone, collectorVars, Conservation,
         Accounting, TypeOK
<1>3. ReadsEveryPage'
  BY <1>1, <1>2 DEF Conservation, ReadsEveryPage
<1>4. \A q \in Requests : Intact(q)' => Intact(q)
  BY <1>1, <1>2 DEF Intact
<1>5. CASE WorkerTake(w)
  <2>1. UNCHANGED <<pages, wire, failed>> /\ wpc'[w] = "put"
    BY <1>5 DEF WorkerTake, storeVars, collectorVars, Conservation, Accounting, TypeOK
  <2>2. ASSUME NEW q \in Requests, Intact(q)' PROVE Conserved(q)'
    <3>1. Conserved(q)
      BY <1>4, <2>2, ConservedIs DEF Conservation
    <3>2. /\ Queued(q) = Queued(q)' \cup (IF Head(queue).req = q THEN {Head(queue).seq} ELSE {})
          /\ Outstanding(q)' = Outstanding(q)
          /\ job'[w] = Head(queue)
          /\ \A v \in Workers : v # w => job'[v] = job[v] /\ wpc'[v] = wpc[v]
      BY <1>5, Take DEF Conservation, Accounting
    <3> QED
      BY <1>1, <2>1, <3>1, <3>2 DEF Conserved, Busy
  <2>3. PageConservation'
    BY <2>2, ConservedIs DEF PageConservation, Conserved, Busy
  <2> QED
    BY <1>3, <2>1, <2>3 DEF Conservation, LateMeansFailed
<1>6. CASE WorkerPut(w)
  <2>0. /\ Busy(w) /\ job[w].data \in Seq(Piece)
        /\ job[w].req \in Requests /\ job[w].seq \in Nat \ {0}
    BY <1>6 DEF WorkerPut, Busy, Conservation, Accounting, TypeOK, Job
  <2>1. PICK r \in Requests, n \in Nat \ {0} : job[w].req = r /\ job[w].seq = n
    BY <2>0
  <2>2. /\ UNCHANGED <<queue, job>> /\ wpc[w] = "put" /\ wpc'[w] = "done"
        /\ \A v \in Workers : v # w => wpc'[v] = wpc[v]
    BY <1>6 DEF WorkerPut, Conservation, Accounting, TypeOK
  <2>3. \A q \in Requests : Queued(q)' = Queued(q) /\ Outstanding(q)' = Outstanding(q)
    BY <2>2 DEF Outstanding, Queued, Held
  <2>4. \A q \in Requests : q # r => pages'[q] = pages[q] /\ wire'[q] = wire[q]
    BY <1>6, <2>1 DEF WorkerPut, PutPage, PutPageError, storeVars, Conservation, Accounting,
                      TypeOK, StoreTypeOK
  <2>5. ASSUME NEW q \in Requests, q # r, Intact(q)' PROVE Conserved(q)'
    <3>1. Conserved(q)
      BY <1>4, <2>5, ConservedIs DEF Conservation
    <3> QED
      BY <1>1, <2>1, <2>2, <2>3, <2>4, <2>5, <3>1 DEF Conserved, Busy
  <2>6. CASE PutPage(r, n, job[w].data) /\ UNCHANGED failed
    <3>1. DOMAIN pages'[r] = DOMAIN pages[r] \cup {n} /\ UNCHANGED wire
      <4>1. IsPageMap(pages[r])
        BY <2>1 DEF Conservation, Accounting, TypeOK, StoreTypeOK
      <4>2. pages'[r] = HSet(pages[r], n, job[w].data) /\ UNCHANGED wire
        BY <2>1, <2>6 DEF PutPage, Conservation, Accounting, TypeOK, StoreTypeOK
      <4>3. DOMAIN HSet(pages[r], n, job[w].data) = DOMAIN pages[r] \cup {n}
        BY <2>0, <4>1, HSetType
      <4> QED
        BY <4>2, <4>3
    <3>2. ASSUME Intact(r)' PROVE Conserved(r)'
      <4>1. Conserved(r)
        BY <1>4, <2>1, <3>2, ConservedIs DEF Conservation
      <4>2. n \in Outstanding(r)
        BY <2>0, <2>1 DEF Outstanding, Held, Busy
      <4>3. n \notin Queued(r)
        BY <2>0, <2>1 DEF Queued, Conservation, Accounting, PlacesDistinct
      <4>4. \A v \in Workers : v # w /\ Busy(v) /\ job[v].req = r => job[v].seq # n
        BY <2>0, <2>1 DEF Conservation, Accounting, PlacesDistinct
      <4>5. DOMAIN pages'[r] \cup Outstanding(r)' = 1..seq'[r]
        BY <1>1, <2>1, <2>3, <3>1, <4>1, <4>2 DEF Conserved
      <4>6. DOMAIN pages'[r] \cap Queued(r)' = {}
        BY <2>1, <2>3, <3>1, <4>1, <4>3 DEF Conserved
      <4>7. \A v \in Workers : Busy(v)' /\ job'[v].req = r =>
              ((wpc'[v] = "put") <=> (job'[v].seq \notin DOMAIN pages'[r]))
        BY <2>1, <2>2, <3>1, <4>1, <4>4 DEF Conserved, Busy
      <4> QED
        BY <4>5, <4>6, <4>7 DEF Conserved
    <3>3. PageConservation'
      BY <2>5, <3>2, ConservedIs DEF PageConservation, Conserved, Busy
    <3> QED
      BY <1>3, <2>6, <3>1, <3>3 DEF Conservation, LateMeansFailed
  <2>7. CASE failed' = [failed EXCEPT ![r] = TRUE]
    <3>1. failed'[r] /\ ~Intact(r)'
      BY <2>1, <2>7 DEF Intact, Conservation, Accounting, TypeOK
    <3>2. PageConservation'
      BY <2>5, <3>1, ConservedIs DEF PageConservation, Conserved, Busy
    <3>3. LateMeansFailed'
      BY <1>2, <2>4, <3>1 DEF Conservation, LateMeansFailed
    <3> QED
      BY <1>3, <3>2, <3>3 DEF Conservation
  <2> QED
    BY <1>6, <2>1, <2>6, <2>7 DEF WorkerPut
<1>7. CASE WorkerDone(w)
  <2>1. UNCHANGED <<pages, wire, failed>> /\ wpc[w] = "done"
    BY <1>7 DEF WorkerDone, storeVars
  <2>2. ASSUME NEW q \in Requests, Intact(q)' PROVE Conserved(q)'
    <3>1. Conserved(q)
      BY <1>4, <2>2, ConservedIs DEF Conservation
    <3>2. /\ Queued(q)' = Queued(q)
          /\ Outstanding(q)' = Outstanding(q) \ (IF job[w].req = q THEN {job[w].seq} ELSE {})
          /\ Busy(w) /\ ~Busy(w)'
          /\ \A v \in Workers : v # w => job'[v] = job[v] /\ wpc'[v] = wpc[v]
      BY <1>7, Done DEF Conservation, Accounting
    <3>3. job[w].req = q => job[w].seq \in DOMAIN pages[q]
      BY <2>1, <3>1, <3>2 DEF Conserved
    <3>4. DOMAIN pages'[q] \cup Outstanding(q)' = 1..seq'[q]
      BY <1>1, <2>1, <3>1, <3>2, <3>3 DEF Conserved
    <3> QED
      BY <2>1, <3>1, <3>2, <3>4 DEF Conserved, Busy
  <2>3. PageConservation'
    BY <2>2, ConservedIs DEF PageConservation, Conserved, Busy
  <2> QED
    BY <1>3, <2>1, <2>3 DEF Conservation, LateMeansFailed
<1> QED
  BY <1>5, <1>6, <1>7 DEF WorkerStep

\* Redis applies a late write, or lets an entry expire.
LEMMA RedisConservation ==
    ASSUME Conservation, Accounting', NEW r \in Requests, RedisLate(r) \/ Expire(r)
    PROVE  Conservation'
<1>1. UNCHANGED <<collectorVars, poolVars>>
  BY DEF RedisLate, Expire
<1>2. UNCHANGED <<owner, seq, sealed, failed, fin, got, queue, job, wpc>>
  BY <1>1 DEF collectorVars, poolVars
<1>3. /\ \A q \in Requests : q # r => pages'[q] = pages[q] /\ wire'[q] = wire[q]
      /\ \A q \in Requests : expired[q] => expired'[q]
      /\ wire'[r] \subseteq wire[r]
      /\ failed[r] \/ expired'[r]
  BY DEF RedisLate, Expire, LatePut, ExpireEntry, DropEntry, Conservation, Accounting, TypeOK,
         StoreTypeOK, LateMeansFailed
<1>4. LateMeansFailed' /\ ReadsEveryPage'
  BY <1>2, <1>3 DEF Conservation, LateMeansFailed, ReadsEveryPage
<1>5. ASSUME NEW q \in Requests, Intact(q)' PROVE Conserved(q)'
  <2>1. q # r /\ Intact(q)
    BY <1>2, <1>3, <1>5 DEF Intact
  <2>2. Conserved(q)
    BY <2>1, ConservedIs DEF Conservation
  <2> QED
    BY <1>2, <1>3, <2>1, <2>2, ConservedQuiet
<1>6. PageConservation'
  BY <1>5, ConservedIs DEF PageConservation, Conserved, Busy
<1> QED
  BY <1>4, <1>6 DEF Conservation

LEMMA NextConservation == Conservation /\ [CollectorNext]_vars => Conservation'
<1> SUFFICES ASSUME Conservation, [CollectorNext]_vars PROVE Conservation'
  OBVIOUS
<1>1. Accounting'
  BY NextAccounting DEF Conservation
<1>2. ASSUME UNCHANGED vars PROVE Conservation'
  <2>1. UNCHANGED <<pages, wire, expired, owner, seq, sealed, failed, fin, got, queue, job, wpc>>
    BY <1>2 DEF vars, storeVars, collectorVars, poolVars
  <2>2. LateMeansFailed' /\ ReadsEveryPage'
    BY <2>1 DEF Conservation, LateMeansFailed, ReadsEveryPage
  <2>3. PageConservation'
    BY <2>1 DEF Conservation, PageConservation, Intact, Outstanding, Queued, Held
  <2> QED
    BY <1>1, <2>2, <2>3 DEF Conservation
<1> QED
  BY <1>1, <1>2, CopyConservation, FinalizeConservation, WorkerConservation, RedisConservation
     DEF CollectorNext, Rest

(***************************************************************************)
(* No page is lost between the queue, the workers and Redis: until the     *)
(* entry is deleted, a request whose flushes succeeded and whose entry did *)
(* not expire has each of its pages in exactly one of those places.        *)
(***************************************************************************)
THEOREM PagesConserved == CollectorSpec => []PageConservation
<1>1. Conservation => PageConservation
  BY DEF Conservation
<1> QED
  BY <1>1, InitConservation, NextConservation, PTL DEF CollectorSpec

(***************************************************************************)
(* Finalize needs no page count of its own: without a failed flush or an   *)
(* expiry, the pages it reads are all the pages that were submitted.       *)
(***************************************************************************)
THEOREM FinalizeReadsEveryPage == CollectorSpec => []ReadsEveryPage
<1>1. Conservation => ReadsEveryPage
  BY DEF Conservation
<1> QED
  BY <1>1, InitConservation, NextConservation, PTL DEF CollectorSpec

-----------------------------------------------------------------------------
(* Memory.                                                                 *)

LEMMA ChunkLength ==
    ASSUME NEW s \in Seq(Piece), NEW c \in Chunks, NEW n \in Nat
    PROVE  /\ s \o Pieces(c, n) \in Seq(Piece)
           /\ Len(s \o Pieces(c, n)) = Len(s) + Len(c)
           /\ Len(c) \in 1..MaxChunk
<1>1. Pieces(c, n) \in Seq(Piece) /\ c \in Seq(Kinds) /\ Len(c) \in Nat \ {0}
  BY PiecesType
<1>2. Len(Pieces(c, n)) = Len(c)
  BY <1>1 DEF Pieces
<1>3. PICK m \in 1..MaxChunk : c \in [1..m -> Kinds]
  BY DEF Chunks
<1>4. Len(c) = m
  BY <1>1, <1>3, ChunkAssumption
<1> QED
  BY <1>1, <1>2, <1>3, <1>4

\* What a step does to the memory of the collectors: it is a Write that
\* is not ignored, or the tail of r is dropped, or the queue shrinks.
LEMMA MemorySteps ==
    ASSUME TypeOK, [CollectorNext]_vars
    PROVE  \/ UNCHANGED <<tail, seq, queue>>
           \/ \E r \in Requests, c \in Chunks : Write(r, c) /\ ~Ignores(r)
           \/ \E r \in Requests : tail' = [tail EXCEPT ![r] = <<>>] /\ UNCHANGED <<seq, queue>>
           \/ queue # <<>> /\ queue' = Tail(queue) /\ UNCHANGED <<tail, seq>>
<1>1. ASSUME NEW r \in Requests, NEW c \in Chunks, Write(r, c), Ignores(r)
      PROVE  UNCHANGED <<tail, seq, queue>>
  BY <1>1 DEF Write
<1>2. ASSUME NEW r \in Requests, NewCollector(r) \/ CloseBody(r)
      PROVE  UNCHANGED <<tail, seq, queue>>
  BY <1>2 DEF NewCollector, CloseBody, poolVars
<1>3. ASSUME NEW r \in Requests, WriteReturn(r)
      PROVE  tail' = [tail EXCEPT ![r] = <<>>] /\ UNCHANGED <<seq, queue>>
  BY <1>3 DEF WriteReturn, poolVars
<1>4. ASSUME NEW r \in Requests, FinalizeStep(r) \/ Abort(r) \/ RedisLate(r) \/ Expire(r)
      PROVE  UNCHANGED <<tail, seq, queue>>
  BY <1>4 DEF FinalizeStep, FinalizeCall, FinalizeWait, FinalizeRead, FinalizeDelete, Abort,
              RedisLate, Expire, collectorVars, poolVars
<1>5. ASSUME NEW w \in Workers, WorkerStep(w)
      PROVE  \/ UNCHANGED <<tail, seq, queue>>
             \/ queue # <<>> /\ queue' = Tail(queue) /\ UNCHANGED <<tail, seq>>
  BY <1>5 DEF WorkerStep, WorkerTake, WorkerPut, WorkerDone, collectorVars
<1>6. UNCHANGED vars => UNCHANGED <<tail, seq, queue>>
  BY DEF vars, collectorVars, poolVars
<1> QED
  BY <1>1, <1>2, <1>3, <1>4, <1>5, <1>6 DEF CollectorNext, CopyStep, Rest

LEMMA WriteMemory ==
    ASSUME TypeOK, RAMBounded, NEW r \in Requests, NEW c \in Chunks, Write(r, c), ~Ignores(r)
    PROVE  RAMBounded'
<1> DEFINE buf == tail[r] \o Pieces(c, Len(sent[r]))
<1>0. tail[r] \in Seq(Piece) /\ Len(sent[r]) \in Nat /\ queue \in Seq(Job)
  BY DEF TypeOK
<1>1. buf \in Seq(Piece) /\ Len(buf) \in Nat /\ Len(buf) < PageSize + MaxChunk
  <2>1. /\ buf \in Seq(Piece) /\ Len(buf) = Len(tail[r]) + Len(c) /\ Len(c) \in 1..MaxChunk
    BY <1>0, ChunkLength
  <2>2. Len(tail[r]) < PageSize /\ Len(tail[r]) \in Nat
    BY <1>0 DEF RAMBounded
  <2> QED
    BY <2>1, <2>2, PageSizeAssumption, ChunkAssumption
<1>2. \/ /\ PageFull(buf) /\ submit(r, buf) /\ tail' = [tail EXCEPT ![r] = <<>>]
      \/ ~PageFull(buf) /\ tail' = [tail EXCEPT ![r] = buf] /\ UNCHANGED queue
  BY DEF Write
<1> HIDE DEF buf
<1>3. CASE ~PageFull(buf) /\ tail' = [tail EXCEPT ![r] = buf] /\ UNCHANGED queue
  <2>1. Len(buf) < PageSize
    BY <1>1, <1>3, PageSizeAssumption DEF PageFull
  <2> QED
    BY <1>3, <2>1 DEF RAMBounded, TypeOK
<1>4. CASE PageFull(buf) /\ submit(r, buf) /\ tail' = [tail EXCEPT ![r] = <<>>]
  <2>1. \A q \in Requests : Len(tail'[q]) < PageSize
    <3>1. Len(<<>>) < PageSize
      BY PageSizeAssumption
    <3> QED
      BY <1>4, <3>1 DEF RAMBounded, TypeOK
  <2>2. CASE UNCHANGED queue
    BY <2>1, <2>2 DEF RAMBounded
  <2>3. CASE /\ Len(queue) < MaxPendingPages
             /\ queue' = Append(queue, [req |-> r, seq |-> seq[r] + 1, data |-> buf])
    <3> DEFINE j == [req |-> r, seq |-> seq[r] + 1, data |-> buf]
    <3>0. j \in Job /\ j.data = buf
      BY <1>1 DEF Job, TypeOK
    <3> HIDE DEF j
    <3>1. /\ Len(queue') = Len(queue) + 1 /\ DOMAIN queue' = 1..Len(queue) + 1
          /\ queue'[Len(queue) + 1] = j
          /\ \A i \in 1..Len(queue) : queue'[i] = queue[i]
      BY <1>0, <2>3, <3>0 DEF j
    <3>2. Len(queue') <= MaxPendingPages
      BY <1>0, <2>3, <3>1, MaxPendingPagesAssumption
    <3>3. ASSUME NEW i \in DOMAIN queue' PROVE Len(queue'[i].data) < PageSize + MaxChunk
      <4>1. i \in 1..Len(queue) \/ i = Len(queue) + 1
        BY <1>0, <3>1
      <4>2. CASE i = Len(queue) + 1
        BY <1>1, <3>0, <3>1, <4>2
      <4>3. CASE i \in 1..Len(queue)
        BY <1>0, <3>1, <4>3 DEF RAMBounded
      <4> QED
        BY <4>1, <4>2, <4>3
    <3> QED
      BY <2>1, <3>2, <3>3 DEF RAMBounded
  <2> QED
    BY <1>4, <2>2, <2>3 DEF submit
<1> QED
  BY <1>2, <1>3, <1>4

LEMMA NextMemory == TypeOK /\ RAMBounded /\ [CollectorNext]_vars => RAMBounded'
<1> SUFFICES ASSUME TypeOK, RAMBounded, [CollectorNext]_vars PROVE RAMBounded'
  OBVIOUS
<1>1. CASE UNCHANGED <<tail, seq, queue>>
  BY <1>1 DEF RAMBounded
<1>2. ASSUME NEW r \in Requests, tail' = [tail EXCEPT ![r] = <<>>], UNCHANGED <<seq, queue>>
      PROVE  RAMBounded'
  <2>1. Len(<<>>) < PageSize
    BY PageSizeAssumption
  <2> QED
    BY <1>2, <2>1 DEF RAMBounded, TypeOK
<1>3. CASE queue # <<>> /\ queue' = Tail(queue) /\ UNCHANGED <<tail, seq>>
  <2>1. queue \in Seq(Job) /\ Len(queue) \in Nat \ {0}
    BY <1>3 DEF TypeOK
  <2>2. /\ Len(queue') = Len(queue) - 1 /\ DOMAIN queue' = 1..Len(queue) - 1
        /\ \A i \in 1..Len(queue) - 1 : i + 1 \in DOMAIN queue /\ queue'[i] = queue[i + 1]
    BY <1>3, <2>1
  <2>3. Len(queue') <= MaxPendingPages
    BY <2>1, <2>2, MaxPendingPagesAssumption DEF RAMBounded
  <2> QED
    BY <1>3, <2>2, <2>3 DEF RAMBounded
<1> QED
  BY <1>1, <1>2, <1>3, WriteMemory, MemorySteps

(***************************************************************************)
(* RAM is bounded for every number of requests and whatever Redis does:    *)
(* a tail stays below a page, a page exceeds PageSize by less than a chunk *)
(* and the channel never holds more than MaxPendingPages of them.          *)
(***************************************************************************)
THEOREM MemoryBounded == CollectorSpec => []RAMBounded
<1>1. CollectorInit => RAMBounded
  <2> SUFFICES ASSUME CollectorInit PROVE RAMBounded
    OBVIOUS
  <2>1. Len(<<>>) = 0 /\ DOMAIN <<>> = {}
    OBVIOUS
  <2>2. queue = <<>> /\ \A r \in Requests : tail[r] = <<>>
    BY DEF CollectorInit
  <2> QED
    BY <2>1, <2>2, PageSizeAssumption, MaxPendingPagesAssumption DEF RAMBounded
<1> QED
  BY <1>1, NextMemory, TypeCorrect, PTL DEF CollectorSpec
=============================================================================

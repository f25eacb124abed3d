---------------------------- MODULE ResponseProofs ----------------------------
(* What Finalize returns, for every value of the collector's constants: a  *)
(* request whose flushes succeeded and whose entry did not expire yields   *)
(* the assistant message of the whole response or an error, and whatever   *)
(* Redis loses, what is parsed is made of the response's pieces in order.  *)
EXTENDS CollectorProofs, StreamProofs

Sound(r) == ~failed[r] /\ ~expired[r]

\* The part of s between two cuts.
Slice(s, cut, n) == SubSeq(s, cut[n - 1] + 1, cut[n])

\* The first n pages end at increasing places of a response of length len.
Cuts(cut, n, len) ==
    /\ cut \in [Nat -> Nat] /\ cut[0] = 0
    /\ \A k \in 1..n : cut[k - 1] <= cut[k]
    /\ \A k \in 0..n : cut[k] <= len

\* A page of r numbered s with content d is the part between its cuts.
IsPage(r, cut, s, d) == s \in 1..seq[r] /\ d = Slice(sent[r], cut, s)

\* The pages in the queue and in the workers' hands.
Travelling(r, cut) ==
    /\ \A i \in DOMAIN queue : queue[i].req = r => IsPage(r, cut, queue[i].seq, queue[i].data)
    /\ \A w \in Workers : Busy(w) /\ job[w].req = r => IsPage(r, cut, job[w].seq, job[w].data)

\* The pages in Redis, and those that Finalize has read.
Stored(r, cut) ==
    /\ \A s \in DOMAIN pages[r] : IsPage(r, cut, s, pages[r][s])
    /\ \A s \in DOMAIN got[r] : IsPage(r, cut, s, got[r][s])

\* The tail is the rest of the response, until Write drops it.
Remaining(r, cut) ==
    tail[r] = IF sealed[r] /\ owner[r] # "onDone"
                THEN <<>>
                ELSE SubSeq(sent[r], cut[seq[r]] + 1, Len(sent[r]))

Sliced(r, cut) ==
    /\ Cuts(cut, seq[r], Len(sent[r]))
    /\ Travelling(r, cut) /\ Stored(r, cut) /\ Remaining(r, cut)

\* Once Finalize has waited, nothing is outstanding and the entry is whole
\* or deleted.
Settled(r) ==
    fin[r] \in {"read", "delete"} \cup FinResults \/ (sealed[r] /\ owner[r] # "onDone") =>
        /\ Outstanding(r) = {}
        /\ DOMAIN pages[r] \in {{}, 1..seq[r]}

\* The result of a Finalize call is that of its parse, of pages that were
\* all read or, in a second call, all deleted.
Parsed(r) ==
    /\ fin[r] \in {"delete", "ok"} => DOMAIN got[r] \in {{}, 1..seq[r]}
    /\ fin[r] = "ok" => AssistantFromSSE(Payload(r)).result = "ok"
    /\ fin[r] = "errCache" => failed[r]

Whole(r) == (\E cut \in [Nat -> Nat] : Sliced(r, cut)) /\ Settled(r) /\ Parsed(r)

\* The inductive invariant behind WholeUnlessLost.
Wholeness == \A r \in Requests : Sound(r) => Whole(r)

-----------------------------------------------------------------------------
(* Facts about numbers and sequences.                                      *)

\* The only increasing enumeration of 1..n is the identity.
LEMMA IncreasingIsIdentity ==
    ASSUME NEW n \in Nat, NEW f \in [1..n -> 1..n],
           \A i, k \in 1..n : i < k => f[i] < f[k]
    PROVE  \A i \in 1..n : f[i] = i
<1>1. \A i \in 1..n : f[i] >= i
  <2> DEFINE T == {i \in 1..n : f[i] < i}
  <2>1. CASE T # {}
    <3>1. T \subseteq Nat
      OBVIOUS
    <3>2. PICK i \in T : \A k \in T : i <= k
      BY <2>1, <3>1, LeastMember
    <3>3. i \in 1..n /\ f[i] < i /\ f[i] \in 1..n
      OBVIOUS
    <3>4. f[f[i]] < f[i] /\ f[i] \in T
      BY <3>3
    <3> QED
      BY <3>2, <3>3, <3>4
  <2> QED
    BY <2>1
<1>2. ASSUME NEW i \in 1..n, ~(f[i] <= i) PROVE FALSE
  <2> DEFINE T == {m \in Nat : \E k \in 1..n : m = n - k /\ f[k] > k}
  <2>1. ASSUME NEW k \in 1..n, f[k] > k PROVE n - k \in T
    <3>1. n - k \in Nat /\ \E j \in 1..n : n - k = n - j /\ f[j] > j
      BY <2>1
    <3> QED
      BY <3>1
  <2>2. T \subseteq Nat /\ T # {}
    <3>1. f[i] \in 1..n /\ f[i] > i
      BY <1>2
    <3> QED
      BY <2>1, <3>1
  <2>3. \A m \in T : \E k \in 1..n : m = n - k /\ f[k] > k
    OBVIOUS
  <2> HIDE DEF T
  <2>4. PICK m \in T : \A k \in T : m <= k
    BY <2>2, LeastMember
  <2>5. PICK k \in 1..n : m = n - k /\ f[k] > k
    BY <2>3
  <2>6. f[k] \in 1..n /\ f[f[k]] \in 1..n /\ f[f[k]] > f[k] /\ n - f[k] < m
    BY <2>5
  <2>7. n - f[k] \in T
    BY <2>1, <2>6
  <2> QED
    BY <2>2, <2>4, <2>6, <2>7
<1>3. \A i \in 1..n : f[i] \in 1..n
  OBVIOUS
<1> QED
  BY <1>1, <1>2, <1>3

\* The pages 1 to n, each the slice between its cuts, make up a prefix.
LEMMA AssembleSlices ==
    ASSUME NEW S, NEW x \in Seq(S), NEW n \in Nat, NEW cut, Cuts(cut, n, Len(x)),
           NEW h, DOMAIN h = 1..n, \A s \in 1..n : h[s] = Slice(x, cut, s)
    PROVE  Assemble(h) = SubSeq(x, 1, cut[n])
<1> DEFINE m == Cardinality(DOMAIN h)
           Rising(f) == \A i, k \in 1..m : i < k => f[i] < f[k]
           order == CHOOSE f \in [1..m -> DOMAIN h] : Rising(f)
           parts == [i \in 1..m |-> h[order[i]]]
<1>1. Assemble(h) = FlattenSeq(parts)
  BY DEF Assemble
<1>2. m = n
  BY FS_Interval
<1> HIDE DEF m
<1>3. order \in [1..n -> 1..n] /\ Rising(order)
  <2>1. [i \in 1..n |-> i] \in [1..m -> DOMAIN h] /\ Rising([i \in 1..n |-> i])
    BY <1>2
  <2>2. \E f \in [1..m -> DOMAIN h] : Rising(f)
    BY <2>1
  <2> HIDE DEF Rising
  <2>3. order \in [1..m -> DOMAIN h] /\ Rising(order)
    BY <2>2
  <2> QED
    BY <1>2, <2>3
<1> HIDE DEF order
<1>4. \A i \in 1..n : order[i] = i
  BY <1>2, <1>3, IncreasingIsIdentity
<1>5. \A i \in 1..n : parts[i] = Slice(x, cut, i)
  BY <1>2, <1>4
<1>6. DOMAIN parts = 1..n /\ Len(parts) = n /\ parts \in Seq({parts[i] : i \in 1..n})
  BY <1>2
<1> HIDE DEF parts
<1>7. CASE n = 0
  <2>1. parts = <<>>
    BY <1>6, <1>7
  <2>2. FlattenSeq(parts) = parts
    BY <1>6, <1>7 DEF FlattenSeq
  <2>3. SubSeq(x, 1, cut[n]) = <<>>
    BY <1>7, SubSeqEmpty DEF Cuts
  <2> QED
    BY <1>1, <2>1, <2>2, <2>3
<1>8. CASE n # 0
  <2> DEFINE g == [i \in 1..n |-> SubSeq(x, 1, cut[i])]
  <2>0. n \in 1..n /\ n \in Nat \ {0}
    BY <1>8
  <2>1. ASSUME NEW i \in 1..n
        PROVE  g[i] = IF i = 1 THEN parts[i] ELSE g[i - 1] \o parts[i]
    <3>0. cut[i] \in Nat /\ cut[i - 1] \in Nat /\ cut[i - 1] <= cut[i] /\ cut[i] <= Len(x)
      BY SMTT(30) DEF Cuts
    <3>1. SubSeq(x, 1, cut[i - 1]) \o SubSeq(x, cut[i - 1] + 1, cut[i]) = SubSeq(x, 1, cut[i])
      <4>1. /\ 1 \in 1..Len(x) + 1 /\ cut[i - 1] \in 1 - 1..Len(x) /\ cut[i] \in cut[i - 1]..Len(x)
        BY <3>0
      <4> QED
        BY <4>1, ConcatAdjacentSubSeq
    <3>2. CASE i = 1
      <4>1. cut[i - 1] + 1 = 1
        BY <3>2 DEF Cuts
      <4> QED
        BY <1>5, <3>2, <4>1 DEF Slice
    <3>3. CASE i # 1
      <4>1. i - 1 \in 1..n
        BY <3>3
      <4> QED
        BY <1>5, <3>1, <3>3, <4>1 DEF Slice
    <3> QED
      BY <3>2, <3>3
  <2>2. Joins(g, parts, n)
    BY <2>1 DEF Joins
  <2>3. g[n] = SubSeq(x, 1, cut[n])
    BY <2>0
  <2> HIDE DEF g
  <2>5. FlattenSeq(parts) = g[n]
    BY <1>6, <2>0, <2>2, FlattenKnown
  <2> QED
    BY <1>1, <2>3, <2>5
<1> QED
  BY <1>7, <1>8

-----------------------------------------------------------------------------
(* sse.Scan stops at the sentinel: what follows it does not matter.        *)

LEMMA PrefixParse ==
    ASSUME NEW x \in Seq(Piece), NEW m \in 0..Len(x), NEW p, p = SubSeq(x, 1, m),
           HasSentinel(p)
    PROVE  AssistantFromSSE(p) = AssistantFromSSE(x)
<1>1. /\ p \in Seq(Piece) /\ Len(p) = m /\ DOMAIN p = 1..m
      /\ \A i \in 1..m : p[i] = x[i]
  BY SubSeqProperties
<1>2. DOMAIN x = 1..Len(x) /\ Len(x) \in Nat /\ m \in Nat /\ m <= Len(x)
  OBVIOUS
<1>3. PICK z \in 1..m : IsSentinel(p[z])
  BY <1>1 DEF HasSentinel
<1>4. IsSentinel(x[z]) /\ z \in DOMAIN x
  BY <1>1, <1>2, <1>3
<1>5. HasSentinel(x)
  BY <1>4 DEF HasSentinel
<1>6. Scanned(p) \subseteq 1..m /\ Scanned(p) = Scanned(x)
  <2>1. ASSUME NEW i \in DOMAIN x, \A k \in 1..i : ~IsSentinel(x[k]) PROVE i < z
    BY <1>2, <1>3, <1>4, <2>1
  <2>2. ASSUME NEW i \in 1..m
        PROVE  (\A k \in 1..i : ~IsSentinel(x[k])) <=> (\A k \in 1..i : ~IsSentinel(p[k]))
    <3>1. \A k \in 1..i : k \in 1..m /\ p[k] = x[k]
      BY <1>1, <1>2
    <3> QED
      BY <3>1
  <2>3. Scanned(x) \subseteq 1..m
    BY <1>2, <2>1 DEF Scanned
  <2>4. \A i \in 1..m : i \in Scanned(x) <=> i \in Scanned(p)
    BY <1>1, <1>2, <2>2 DEF Scanned
  <2>5. Scanned(p) \subseteq 1..m
    BY <1>1 DEF Scanned
  <2> QED
    BY <2>3, <2>4, <2>5
<1>7. KindsScanned(p) = KindsScanned(x)
  BY <1>1, <1>6 DEF KindsScanned
<1>8. SubSeq(p, 1, Cardinality(Scanned(p))) = SubSeq(x, 1, Cardinality(Scanned(x)))
  <2> DEFINE n == Cardinality(Scanned(p))
  <2>1. n \in Nat /\ n <= m
    <3>1. IsFiniteSet(1..m) /\ Cardinality(1..m) = m
      BY <1>2, FS_Interval
    <3>2. IsFiniteSet(Scanned(p)) /\ Cardinality(Scanned(p)) <= m
      BY <1>6, <3>1, FS_Subset
    <3> QED
      BY <3>2, FS_CardinalityType
  <2> HIDE DEF n
  <2>2. \A i \in 1..n : p[i] \in Piece /\ x[i] \in Piece /\ p[i] = x[i]
    BY <1>1, <1>2, <2>1
  <2>3. /\ SubSeq(p, 1, n) \in Seq(Piece) /\ SubSeq(x, 1, n) \in Seq(Piece)
        /\ Len(SubSeq(p, 1, n)) = n /\ Len(SubSeq(x, 1, n)) = n
        /\ \A i \in 1..n : SubSeq(p, 1, n)[i] = p[i] /\ SubSeq(x, 1, n)[i] = x[i]
    BY <2>1, <2>2, SubSeqProperties
  <2>4. SubSeq(p, 1, n) = SubSeq(x, 1, n)
    BY <2>2, <2>3, SeqEqual
  <2> QED
    BY <1>6, <2>4 DEF n
<1>9. TextOf(p) = TextOf(x)
  BY <1>8 DEF TextOf
<1> QED
  BY <1>5, <1>7, <1>9 DEF AssistantFromSSE

LEMMA OkHasSentinel ==
    ASSUME NEW s, AssistantFromSSE(s).result = "ok"
    PROVE  HasSentinel(s)
  BY DEF AssistantFromSSE

-----------------------------------------------------------------------------
(* The steps.                                                              *)

\* No page of r comes to the pool; one may move on or be accounted for.
NothingNew(r) ==
    /\ \A i \in DOMAIN queue' : queue'[i].req = r => \E k \in DOMAIN queue : queue'[i] = queue[k]
    /\ \A w \in Workers : Busy(w)' /\ job'[w].req = r =>
          \/ \E k \in DOMAIN queue : job'[w] = queue[k]
          \/ \E v \in Workers : Busy(v) /\ job'[w] = job[v]
    /\ Outstanding(r)' \subseteq Outstanding(r)

\* What a collector is made of, apart from its pages in the pool and Redis.
Same(r) ==
    /\ seq'[r] = seq[r] /\ sent'[r] = sent[r] /\ tail'[r] = tail[r] /\ sealed'[r] = sealed[r]
    /\ owner'[r] = owner[r] /\ fin'[r] = fin[r] /\ got'[r] = got[r] /\ (failed[r] => failed'[r])

LEMMA PoolNothingNew ==
    ASSUME UNCHANGED <<queue, job, wpc>>, NEW r
    PROVE  NothingNew(r)
  BY PoolIdle DEF NothingNew, Busy

LEMMA TravellingOn ==
    ASSUME NEW r, NEW cut, Travelling(r, cut), NothingNew(r), seq'[r] = seq[r], sent'[r] = sent[r]
    PROVE  Travelling(r, cut)'
<1>1. ASSUME NEW i \in DOMAIN queue', queue'[i].req = r
      PROVE  IsPage(r, cut, queue[i].seq, queue[i].data)'
  <2>1. PICK k \in DOMAIN queue : queue'[i] = queue[k]
    BY <1>1 DEF NothingNew
  <2> QED
    BY <1>1, <2>1 DEF Travelling, IsPage
<1>2. ASSUME NEW w \in Workers, Busy(w)', job'[w].req = r
      PROVE  IsPage(r, cut, job[w].seq, job[w].data)'
  <2>1. \/ \E k \in DOMAIN queue : job'[w] = queue[k]
        \/ \E v \in Workers : Busy(v) /\ job'[w] = job[v]
    BY <1>2 DEF NothingNew
  <2> QED
    BY <1>2, <2>1 DEF Travelling, IsPage
<1> QED
  BY <1>1, <1>2 DEF Travelling

\* Nothing happens to r but that its pages travel.
LEMMA WholeFrame ==
    ASSUME NEW r \in Requests, Whole(r), NothingNew(r), Same(r), pages'[r] = pages[r]
    PROVE  Whole(r)'
<1>1. PICK cut \in [Nat -> Nat] : Sliced(r, cut)
  BY DEF Whole
<1>2. Travelling(r, cut)'
  BY <1>1, TravellingOn DEF Sliced, Same
<1>3. Stored(r, cut)' /\ Remaining(r, cut)' /\ Cuts(cut, seq[r], Len(sent[r]))'
  BY <1>1 DEF Sliced, Same, Stored, Remaining, IsPage, Cuts
<1>4. Settled(r)'
  BY DEF Whole, Settled, Same, NothingNew
<1>5. Parsed(r)'
  BY DEF Whole, Parsed, Same, Payload
<1> QED
  BY <1>2, <1>3, <1>4, <1>5 DEF Whole, Sliced

\* A step of request q, or of a worker on a page of q, leaves r alone.
LEMMA WorkerWhole ==
    ASSUME Conservation, Wholeness, NEW w \in Workers, WorkerStep(w)
    PROVE  Wholeness'
<1> SUFFICES ASSUME NEW r \in Requests, Sound(r)' PROVE Whole(r)'
  BY DEF Wholeness
<1>0. Accounting /\ TypeOK
  BY DEF Conservation, Accounting
<1>1. /\ UNCHANGED <<owner, seq, sealed, fin, got, expired, tail, sent>>
      /\ \A q \in Requests : failed[q] => failed'[q]
  BY <1>0 DEF WorkerStep, WorkerTake, WorkerPut, WorkerDone, collectorVars, storeVars,
         PutPage, PutPageError, TypeOK
<1>2. Sound(r) /\ Whole(r)
  BY <1>1 DEF Sound, Wholeness
<1>3. Same(r)
  BY <1>0, <1>1, <1>2 DEF Same, Sound, TypeOK
<1>4. CASE WorkerTake(w)
  <2>1. pages'[r] = pages[r]
    BY <1>4 DEF WorkerTake, storeVars
  <2>2. NothingNew(r)
    <3>1. /\ Outstanding(r)' = Outstanding(r) /\ Head(queue) = queue[1] /\ 1 \in DOMAIN queue
          /\ \A i \in DOMAIN queue' : i + 1 \in DOMAIN queue /\ queue'[i] = queue[i + 1]
          /\ job'[w] = Head(queue)
          /\ \A v \in Workers : v # w => job'[v] = job[v] /\ wpc'[v] = wpc[v]
      BY <1>0, <1>4, Take
    <3> QED
      BY <3>1 DEF NothingNew, Busy
  <2> QED
    BY <1>2, <1>3, <2>1, <2>2, WholeFrame
<1>5. CASE WorkerDone(w)
  <2>1. pages'[r] = pages[r] /\ UNCHANGED queue
    BY <1>5 DEF WorkerDone, storeVars
  <2>2. NothingNew(r)
    <3>1. /\ Outstanding(r)' \subseteq Outstanding(r) /\ Busy(w) /\ ~Busy(w)'
          /\ \A v \in Workers : v # w => job'[v] = job[v] /\ wpc'[v] = wpc[v]
      BY <1>0, <1>5, Done DEF Accounting
    <3> QED
      BY <2>1, <3>1 DEF NothingNew, Busy
  <2> QED
    BY <1>2, <1>3, <2>1, <2>2, WholeFrame
<1>6. CASE WorkerPut(w)
  <2>0. /\ Busy(w) /\ job[w].data \in Seq(Piece)
        /\ job[w].req \in Requests /\ job[w].seq \in Nat \ {0}
    BY <1>0, <1>6 DEF WorkerPut, Busy, TypeOK, Job
  <2>1. /\ UNCHANGED <<queue, job>> /\ wpc[w] = "put" /\ wpc'[w] = "done"
        /\ \A v \in Workers : Busy(v)' <=> Busy(v)
    BY <1>0, <1>6 DEF WorkerPut, TypeOK, Busy
  <2>2. NothingNew(r)
    <3>1. Outstanding(r)' = Outstanding(r)
      BY <2>1 DEF Outstanding, Queued, Held, Busy
    <3> QED
      BY <2>1, <3>1 DEF NothingNew
  <2>3. CASE job[w].req # r
    <3>1. pages'[r] = pages[r]
      BY <1>0, <1>6, <2>0, <2>3 DEF WorkerPut, PutPage, PutPageError, storeVars, TypeOK, StoreTypeOK
    <3> QED
      BY <1>2, <1>3, <2>2, <3>1, WholeFrame
  <2>4. CASE job[w].req = r
    <3>1. PutPage(r, job[w].seq, job[w].data)
      BY <1>0, <1>6, <2>4 DEF WorkerPut, Sound, TypeOK
    <3>2. pages'[r] = HSet(pages[r], job[w].seq, job[w].data) /\ IsPageMap(pages[r])
      BY <1>0, <3>1 DEF PutPage, TypeOK, StoreTypeOK
    <3>3. PICK cut \in [Nat -> Nat] : Sliced(r, cut)
      BY <1>2 DEF Whole
    <3>4. IsPage(r, cut, job[w].seq, job[w].data)
      BY <2>0, <2>4, <3>3 DEF Sliced, Travelling
    <3>5. ASSUME NEW s \in DOMAIN pages'[r] PROVE IsPage(r, cut, s, pages[r][s])'
      <4>1. pages'[r][s] = IF s = job[w].seq THEN job[w].data ELSE pages[r][s]
        BY <3>2, <3>5 DEF HSet
      <4>2. s # job[w].seq => s \in DOMAIN pages[r]
        BY <3>2, <3>5 DEF HSet
      <4> QED
        BY <1>3, <3>3, <3>4, <4>1, <4>2 DEF Same, Sliced, Stored, IsPage
    <3>6. Stored(r, cut)' /\ Remaining(r, cut)' /\ Cuts(cut, seq[r], Len(sent[r]))'
      BY <1>3, <3>3, <3>5 DEF Same, Sliced, Stored, Remaining, IsPage, Cuts
    <3>7. Travelling(r, cut)'
      BY <1>3, <2>2, <3>3, TravellingOn DEF Same, Sliced
    <3>8. Settled(r)'
      <4>1. job[w].seq \in Outstanding(r)
        BY <2>0, <2>4 DEF Outstanding, Held, Busy
      <4> QED
        BY <1>2, <1>3, <4>1 DEF Whole, Settled, Same
    <3>9. Parsed(r)'
      BY <1>2, <1>3 DEF Whole, Parsed, Same, Payload
    <3> QED
      BY <3>6, <3>7, <3>8, <3>9 DEF Whole, Sliced
  <2> QED
    BY <2>3, <2>4
<1> QED
  BY <1>4, <1>5, <1>6 DEF WorkerStep

LEMMA RedisWhole ==
    ASSUME Conservation, Wholeness, NEW q \in Requests, RedisLate(q) \/ Expire(q)
    PROVE  Wholeness'
<1> SUFFICES ASSUME NEW r \in Requests, Sound(r)' PROVE Whole(r)'
  BY DEF Wholeness
<1>1. UNCHANGED <<owner, seq, sealed, failed, fin, got, tail, queue, job, wpc, sent>>
  BY DEF RedisLate, Expire, collectorVars, poolVars
<1>2. r # q /\ ~expired[r] /\ pages'[r] = pages[r]
  BY <1>1 DEF RedisLate, Expire, LatePut, ExpireEntry, DropEntry, Conservation, Accounting, TypeOK,
         StoreTypeOK, LateMeansFailed, Sound
<1>3. Sound(r) /\ Same(r) /\ NothingNew(r)
  BY <1>1, <1>2, PoolNothingNew DEF Sound, Same
<1> QED
  BY <1>2, <1>3, WholeFrame DEF Wholeness

LEMMA FinalizeWhole ==
    ASSUME Conservation, Wholeness, Conservation', NEW q \in Requests, FinalizeStep(q) \/ Abort(q)
    PROVE  Wholeness'
<1> SUFFICES ASSUME NEW r \in Requests, Sound(r)' PROVE Whole(r)'
  BY DEF Wholeness
<1>0. /\ Accounting /\ TypeOK /\ StoreTypeOK /\ fin \in [Requests -> FinStates]
      /\ failed \in [Requests -> BOOLEAN] /\ DOMAIN pages = Requests /\ DOMAIN got = Requests
  BY DEF Conservation, Accounting, TypeOK, StoreTypeOK
<1>1. /\ UNCHANGED <<owner, seq, sealed, expired, tail, sent, queue, job, wpc>>
      /\ \A p \in Requests \ {q} : fin'[p] = fin[p] /\ got'[p] = got[p] /\ pages'[p] = pages[p]
                                   /\ failed'[p] = failed[p]
      /\ failed[q] => failed'[q]
  BY <1>0 DEF FinalizeStep, FinalizeCall, FinalizeWait, FinalizeRead, FinalizeDelete, Abort, DeletePages,
         DropEntry, storeVars, poolVars
<1>2. Sound(r) /\ Whole(r) /\ NothingNew(r)
  BY <1>1, PoolNothingNew DEF Sound, Wholeness
<1>3. CASE r # q
  BY <1>1, <1>2, <1>3, WholeFrame DEF Same
<1>4. CASE r = q
  <2>1. FinalizeStep(r) /\ ~Abort(r)
    BY <1>0, <1>4 DEF Abort, Sound
  <2>2. PICK cut \in [Nat -> Nat] : Sliced(r, cut)
    BY <1>2 DEF Whole
  <2>3. Travelling(r, cut)'
    BY <1>1, <1>2, <2>2, TravellingOn DEF Sliced
  <2>4. Remaining(r, cut)' /\ Cuts(cut, seq[r], Len(sent[r]))'
    BY <1>1, <2>2 DEF Sliced, Remaining, Cuts
  <2>5. Outstanding(r)' = Outstanding(r)
    BY <1>1, PoolIdle
  <2>6. ~failed[r] /\ ~expired[r]
    BY <1>2 DEF Sound
  <2>7. CASE FinalizeCall(r) \/ FinalizeWait(r)
    <3>1. pages' = pages /\ got' = got
      BY <2>7 DEF FinalizeCall, FinalizeWait, storeVars
    <3>2. Stored(r, cut)'
      BY <1>1, <2>2, <3>1 DEF Sliced, Stored, IsPage
    <3>3. fin'[r] \in {"wait", "read"} /\ (fin'[r] = "read" => fin[r] = "wait")
      BY <1>0, <2>6, <2>7 DEF FinalizeCall, FinalizeWait
    <3>4. Parsed(r)'
      BY <3>3 DEF Parsed
    <3>5. Settled(r)'
      <4>1. CASE sealed[r] /\ owner[r] # "onDone"
        BY <1>1, <1>2, <2>5, <3>1, <4>1 DEF Whole, Settled
      <4>2. CASE (owner[r] = "onDone" \/ ~sealed[r]) /\ fin'[r] = "read"
        <5>1. Outstanding(r)' = {}
          BY <4>2 DEF Conservation, Accounting, NoFlushAfterRead
        <5>2. Intact(r)
          BY <2>6, <3>3, <4>2 DEF Intact, FinSteps
        <5>3. DOMAIN pages[r] \cup Outstanding(r) = 1..seq[r]
          BY <5>2 DEF Conservation, PageConservation
        <5> QED
          BY <1>1, <2>5, <3>1, <5>1, <5>3 DEF Settled
      <4>3. CASE (owner[r] = "onDone" \/ ~sealed[r]) /\ fin'[r] = "wait"
        BY <1>1, <4>3 DEF Settled, FinResults, FinErrors
      <4> QED
        BY <3>3, <4>1, <4>2, <4>3
    <3> QED
      BY <2>3, <2>4, <3>2, <3>4, <3>5 DEF Whole, Sliced
  <2>8. CASE FinalizeRead(r)
    <3>1. /\ fin[r] = "read" /\ pages' = pages
          /\ \/ got'[r] = pages[r] /\ fin'[r] = "delete"
             \/ got'[r] = got[r] /\ fin'[r] = "errRead"
      BY <1>0, <2>8 DEF FinalizeRead, storeVars
    <3>2. Stored(r, cut)'
      BY <1>1, <2>2, <3>1 DEF Sliced, Stored, IsPage
    <3>3. Settled(r)'
      BY <1>1, <1>2, <2>5, <3>1 DEF Whole, Settled
    <3>4. Parsed(r)'
      BY <1>1, <1>2, <3>1 DEF Whole, Settled, Parsed
    <3> QED
      BY <2>3, <2>4, <3>2, <3>3, <3>4 DEF Whole, Sliced
  <2>9. CASE FinalizeDelete(r)
    <3>1. /\ fin[r] = "delete" /\ UNCHANGED got
          /\ pages'[r] = NoPages \/ pages'[r] = pages[r]
          /\ fin'[r] = AssistantFromSSE(Payload(r)).result
      BY <1>0, <2>9 DEF FinalizeDelete, DeletePages, DropEntry, storeVars
    <3>2. DOMAIN NoPages = {}
      BY NoPagesType
    <3>3. Stored(r, cut)'
      BY <1>1, <2>2, <3>1, <3>2 DEF Sliced, Stored, IsPage
    <3>4. Settled(r)'
      BY <1>1, <1>2, <2>5, <3>1, <3>2 DEF Whole, Settled
    <3>5. fin'[r] # "errCache" /\ fin'[r] # "delete"
      BY <3>1 DEF AssistantFromSSE
    <3>6. Payload(r)' = Payload(r)
      BY <1>1, <3>1 DEF Payload
    <3>7. Parsed(r)'
      BY <1>1, <1>2, <3>1, <3>5, <3>6 DEF Whole, Parsed
    <3> QED
      BY <2>3, <2>4, <3>3, <3>4, <3>7 DEF Whole, Sliced
  <2> QED
    BY <2>1, <2>7, <2>8, <2>9 DEF FinalizeStep
<1> QED
  BY <1>3, <1>4

\* More of the response leaves the slices alone, and extends the rest.
LEMMA SliceStays ==
    ASSUME NEW S, NEW x \in Seq(S), NEW y \in Seq(S), NEW a \in Nat, NEW b \in Nat, b <= Len(x)
    PROVE  SubSeq(x \o y, a + 1, b) = SubSeq(x, a + 1, b)
<1>1. CASE b < a + 1
  BY <1>1, SubSeqEmpty
<1>2. CASE a + 1 <= b
  <2>1. a + 1 \in 1..Len(x) /\ b \in 1..Len(x)
    BY <1>2
  <2> QED
    BY <2>1, SubSeqOfConcat1
<1> QED
  BY <1>1, <1>2

LEMMA RestGrows ==
    ASSUME NEW S, NEW x \in Seq(S), NEW y \in Seq(S), NEW a \in Nat, a <= Len(x)
    PROVE  SubSeq(x, a + 1, Len(x)) \o y = SubSeq(x \o y, a + 1, Len(x \o y))
<1>1. x \o y \in Seq(S) /\ Len(x \o y) = Len(x) + Len(y) /\ Len(x) \in Nat /\ Len(y) \in Nat
  BY ConcatProperties
<1>2. SubSeq(x \o y, Len(x) + 1, Len(x \o y)) = y
  <2>1. CASE Len(y) = 0
    BY <1>1, <2>1, SubSeqEmpty
  <2>2. CASE Len(y) # 0
    <3>1. /\ Len(x) + 1 \in Len(x) + 1..Len(x) + Len(y)
          /\ Len(x) + Len(y) \in Len(x) + 1..Len(x) + Len(y)
      BY <1>1, <2>2
    <3>2. SubSeq(x \o y, Len(x) + 1, Len(x) + Len(y))
            = SubSeq(y, Len(x) + 1 - Len(x), Len(x) + Len(y) - Len(x))
      BY <3>1, SubSeqOfConcat2
    <3>3. Len(x) + 1 - Len(x) = 1 /\ Len(x) + Len(y) - Len(x) = Len(y)
      BY <1>1
    <3> QED
      BY <1>1, <3>2, <3>3, SubSeqFull
  <2> QED
    BY <2>1, <2>2
<1>3. SubSeq(x \o y, a + 1, Len(x)) = SubSeq(x, a + 1, Len(x))
  BY <1>1, SliceStays
<1>4. SubSeq(x \o y, a + 1, Len(x)) \o SubSeq(x \o y, Len(x) + 1, Len(x \o y))
        = SubSeq(x \o y, a + 1, Len(x \o y))
  <2>1. /\ a + 1 \in 1..Len(x \o y) + 1
        /\ Len(x) \in (a + 1) - 1..Len(x \o y)
        /\ Len(x \o y) \in Len(x)..Len(x \o y)
    BY <1>1
  <2> QED
    BY <1>1, <2>1, ConcatAdjacentSubSeq
<1> QED
  BY <1>2, <1>3, <1>4

\* The cuts of a response still fit when it grows.
LEMMA CutsGrow ==
    ASSUME NEW m \in Nat, NEW len \in Nat, NEW more \in Nat, NEW cut, Cuts(cut, m, len)
    PROVE  Cuts(cut, m, len + more)
<1>1. cut \in [Nat -> Nat] /\ \A k \in 0..m : k \in Nat /\ cut[k] <= len
  BY DEF Cuts
<1>2. \A k \in 0..m : cut[k] \in Nat
  BY <1>1
<1>3. \A k \in 0..m : cut[k] <= len + more
  BY <1>1, <1>2
<1> QED
  BY <1>3 DEF Cuts

\* Two lists of cuts agree on the first m pages.
Agree(cut2, cut, m) == \A k \in 0..m : cut2[k] = cut[k]

\* A new page ends where the response does.
LEMMA CutsExtend ==
    ASSUME NEW m \in Nat, NEW len \in Nat, NEW cut, Cuts(cut, m, len)
    PROVE  \E cut2 \in [Nat -> Nat] :
              Cuts(cut2, m + 1, len) /\ cut2[m + 1] = len /\ Agree(cut2, cut, m)
<1>1. cut \in [Nat -> Nat] /\ cut[0] = 0 /\ \A k \in 0..m : k \in Nat /\ cut[k] <= len
  BY DEF Cuts
<1>2. m + 1 \in Nat /\ m + 1 \notin 0..m /\ m \in 0..m /\ 0 \in 0..m
  OBVIOUS
<1>3. PICK cut2 \in [Nat -> Nat] : cut2[m + 1] = len /\ \A k \in 0..m : cut2[k] = cut[k]
  <2>1. [cut EXCEPT ![m + 1] = len] \in [Nat -> Nat]
    BY <1>1
  <2>2. [cut EXCEPT ![m + 1] = len][m + 1] = len
    BY <1>1, <1>2
  <2>3. \A k \in 0..m : [cut EXCEPT ![m + 1] = len][k] = cut[k]
    BY <1>1, <1>2
  <2> QED
    BY <2>1, <2>2, <2>3
<1>4. \A k \in 0..m + 1 : cut2[k] <= len
  <2>1. \A k \in 0..m + 1 : k \in 0..m \/ k = m + 1
    OBVIOUS
  <2>2. len <= len
    OBVIOUS
  <2> QED
    BY <1>1, <1>3, <2>1, <2>2
<1>5. \A k \in 1..m + 1 : cut2[k - 1] <= cut2[k]
  <2>1. ASSUME NEW k \in 1..m + 1 PROVE k - 1 \in 0..m /\ ((k \in 0..m /\ k \in 1..m) \/ k = m + 1)
    OBVIOUS
  <2>2. \A k \in 1..m : cut[k - 1] <= cut[k]
    BY DEF Cuts
  <2> QED
    BY <1>1, <1>3, <2>1, <2>2
<1>6. cut2[0] = 0
  BY <1>1, <1>2, <1>3
<1> QED
  BY <1>3, <1>4, <1>5, <1>6 DEF Cuts, Agree

\* The pages cut so far are the same parts of the longer response.
LEMMA SlicesStay ==
    ASSUME NEW x \in Seq(Piece), NEW y \in Seq(Piece), NEW m \in Nat, NEW cut, Cuts(cut, m, Len(x)),
           NEW cut2, Agree(cut2, cut, m)
    PROVE  \A s \in 1..m : Slice(x \o y, cut2, s) = Slice(x, cut, s)
<1> SUFFICES ASSUME NEW s \in 1..m PROVE Slice(x \o y, cut2, s) = Slice(x, cut, s)
  OBVIOUS
<1>1. s \in 0..m /\ s - 1 \in 0..m /\ s \in Nat /\ s - 1 \in Nat
  OBVIOUS
<1>2. cut \in [Nat -> Nat] /\ cut[s] <= Len(x)
  BY <1>1 DEF Cuts
<1>3. cut2[s] = cut[s] /\ cut2[s - 1] = cut[s - 1] /\ cut[s] \in Nat /\ cut[s - 1] \in Nat
  BY <1>1, <1>2 DEF Agree
<1>4. SubSeq(x \o y, cut[s - 1] + 1, cut[s]) = SubSeq(x, cut[s - 1] + 1, cut[s])
  BY <1>2, <1>3, SliceStays, ZenonT(30)
<1> QED
  BY <1>3, <1>4 DEF Slice

\* Write, on the collector it is called on.
LEMMA WriteWhole ==
    ASSUME Conservation, NEW r \in Requests, Sound(r), Whole(r), Sound(r)',
           NEW c \in Chunks, Write(r, c)
    PROVE  Whole(r)'
<1>0. /\ Accounting /\ TypeOK /\ seq \in [Requests -> Nat] /\ tail \in [Requests -> Seq(Piece)]
      /\ sent \in [Requests -> Seq(Piece)] /\ owner \in [Requests -> Owners]
      /\ sealed \in [Requests -> BOOLEAN] /\ failed \in [Requests -> BOOLEAN]
      /\ queue \in Seq(Job)
  BY DEF Conservation, Accounting, TypeOK
<1>a. sent[r] \in Seq(Piece) /\ tail[r] \in Seq(Piece) /\ Len(sent[r]) \in Nat /\ seq[r] \in Nat
  BY <1>0
<1>b. PICK x : x = sent[r]
  OBVIOUS
<1>c. PICK y : y = Pieces(c, Len(sent[r]))
  OBVIOUS
<1>d. PICK buf : buf = tail[r] \o y
  OBVIOUS
<1>e. PICK m : m = seq[r]
  OBVIOUS
<1>1. x \in Seq(Piece) /\ y \in Seq(Piece)
  BY <1>a, <1>b, <1>c, PiecesType
<1>2. m \in Nat
  BY <1>a, <1>e
<1>3. Len(x) \in Nat /\ Len(y) \in Nat /\ x \o y \in Seq(Piece) /\ Len(x \o y) = Len(x) + Len(y)
  BY <1>1, ConcatProperties
<1>4. /\ sent'[r] = x \o y
      /\ owner[r] = "writing" /\ UNCHANGED <<pages, fin, got, wpc, job>>
  BY <1>0, <1>b, <1>c DEF Write, storeVars
<1>5. Len(sent'[r]) = Len(x) + Len(y) /\ Len(sent'[r]) \in Nat
  BY <1>3, <1>4
<1>6. fin[r] \notin FinSteps \cup FinResults
  BY <1>0, <1>4 DEF Accounting, CallDiscipline
<1>7. Parsed(r)'
  BY <1>4, <1>6 DEF Parsed, FinSteps, FinResults, FinErrors
<1>8. PICK cut \in [Nat -> Nat] : Sliced(r, cut)
  BY DEF Whole
<1>9. Cuts(cut, m, Len(x)) /\ Cuts(cut, m, Len(sent'[r]))
  <2>1. Cuts(cut, m, Len(x))
    BY <1>8, <1>b, <1>e DEF Sliced
  <2> QED
    BY <1>2, <1>3, <1>5, <2>1, CutsGrow
<1>10. \A s \in 1..m : Slice(sent'[r], cut, s) = Slice(sent[r], cut, s)
  <2>1. Agree(cut, cut, m)
    BY DEF Agree
  <2>2. \A s \in 1..m : Slice(x \o y, cut, s) = Slice(x, cut, s)
    BY <1>1, <1>2, <1>9, <2>1, SlicesStay
  <2> QED
    BY <1>4, <1>b, <2>2
<1>11. ASSUME UNCHANGED <<seq, queue>> PROVE Travelling(r, cut)' /\ Stored(r, cut)'
  <2>1. Travelling(r, cut)'
    BY <1>4, <1>8, <1>10, <1>11, <1>e DEF Sliced, Travelling, IsPage, Busy
  <2>2. Stored(r, cut)'
    BY <1>4, <1>8, <1>10, <1>11, <1>e DEF Sliced, Stored, IsPage
  <2> QED
    BY <2>1, <2>2
<1>12. CASE Ignores(r)
  <2>1. sealed[r] /\ UNCHANGED <<tail, seq, sealed, owner, queue>>
    BY <1>12 DEF Write, Ignores, Sound
  <2>2. Cuts(cut, seq[r], Len(sent[r]))'
    BY <1>9, <1>e, <2>1
  <2>3. Remaining(r, cut)'
    BY <1>4, <1>8, <2>1 DEF Sliced, Remaining
  <2>4. Outstanding(r)' = Outstanding(r)
    BY <1>4, <2>1, PoolIdle
  <2>5. Settled(r)'
    BY <1>4, <2>1, <2>4 DEF Settled, Whole
  <2> QED
    BY <1>7, <1>11, <2>1, <2>2, <2>3, <2>5 DEF Whole, Sliced
<1>13. CASE ~Ignores(r)
  <2>1. ~sealed[r] /\ (sealed'[r] => owner'[r] = "onDone")
    BY <1>0, <1>13 DEF Write, Ignores, watchDone
  <2>2. Settled(r)'
    BY <1>4, <1>6, <2>1 DEF Settled, FinSteps
  <2>3. tail[r] = SubSeq(x, cut[m] + 1, Len(x))
    BY <1>8, <1>b, <1>e, <2>1 DEF Sliced, Remaining
  <2>4. cut[m] \in Nat /\ cut[m] <= Len(x)
    <3>1. m \in 0..m
      BY <1>2
    <3> QED
      BY <1>2, <1>9, <3>1 DEF Cuts
  <2>5. buf = SubSeq(sent'[r], cut[m] + 1, Len(sent'[r]))
    <3>1. PICK a \in Nat : a = cut[m]
      BY <2>4
    <3>2. SubSeq(x, a + 1, Len(x)) \o y = SubSeq(x \o y, a + 1, Len(x \o y))
      BY <1>1, <2>4, <3>1, RestGrows
    <3> QED
      BY <1>4, <1>d, <2>3, <3>1, <3>2
  <2>6. CASE tail' = [tail EXCEPT ![r] = buf] /\ UNCHANGED <<seq, queue>>
    <3>1. Cuts(cut, seq[r], Len(sent[r]))'
      BY <1>9, <1>e, <2>6
    <3>2. Remaining(r, cut)'
      BY <1>0, <1>e, <2>1, <2>5, <2>6 DEF Remaining
    <3> QED
      BY <1>7, <1>11, <2>2, <2>6, <3>1, <3>2 DEF Whole, Sliced
  <2>7. CASE submit(r, buf) /\ tail' = [tail EXCEPT ![r] = <<>>]
    <3>1. PICK n : n = m + 1
      OBVIOUS
    <3>2. n \in Nat \ {0} /\ n - 1 = m /\ n \in 1..n /\ \A s \in 1..m : s \in 1..n
      BY <1>2, <3>1
    <3>3. PICK j : j = [req |-> r, seq |-> n, data |-> buf]
      OBVIOUS
    <3>4. queue' = Append(queue, j) /\ seq' = [seq EXCEPT ![r] = n]
      BY <1>0, <1>e, <2>7, <3>1, <3>3 DEF submit, Sound
    <3>5. buf \in Seq(Piece)
      BY <1>1, <1>a, <1>d, ConcatProperties
    <3>6. j \in Job /\ j.req = r /\ j.seq = n /\ j.data = buf
      BY <3>2, <3>3, <3>5 DEF Job
    <3>7. PICK cut2 \in [Nat -> Nat] : /\ Cuts(cut2, n, Len(sent'[r]))
                                       /\ cut2[n] = Len(sent'[r])
                                       /\ Agree(cut2, cut, m)
      <4>1. PICK len \in Nat : len = Len(sent'[r])
        BY <1>5
      <4>2. Cuts(cut, m, len)
        BY <1>9, <4>1
      <4>3. \E cut2 \in [Nat -> Nat] :
              Cuts(cut2, m + 1, len) /\ cut2[m + 1] = len /\ Agree(cut2, cut, m)
        BY <1>2, <4>2, CutsExtend
      <4> QED
        BY <3>1, <4>1, <4>3
    <3>8. /\ DOMAIN queue' = DOMAIN queue \cup {Len(queue) + 1}
          /\ \A i \in DOMAIN queue : queue'[i] = queue[i]
          /\ queue'[Len(queue) + 1] = j
      BY <1>0, <1>4, <3>4, <3>6, Enqueue
    <3>9. seq'[r] = n
      BY <1>0, <3>4
    <3>10. \A s \in 1..m : Slice(sent'[r], cut2, s) = Slice(sent[r], cut, s)
      <4>1. Agree(cut2, cut, m)
        BY <3>7
      <4>2. \A s \in 1..m : Slice(x \o y, cut2, s) = Slice(x, cut, s)
        BY <1>1, <1>2, <1>9, <4>1, SlicesStay, SMTT(30)
      <4> QED
        BY <1>4, <1>b, <4>2
    <3>11. buf = Slice(sent'[r], cut2, n)
      <4>1. m \in 0..m
        BY <1>2
      <4> QED
        BY <2>5, <3>2, <3>7, <4>1 DEF Slice, Agree
    <3>12. ASSUME NEW s, NEW d, IsPage(r, cut, s, d)
           PROVE  s \in 1..seq'[r] /\ d = Slice(sent'[r], cut2, s)
      BY <1>e, <3>2, <3>9, <3>10, <3>12 DEF IsPage
    <3>13. Travelling(r, cut2)'
      <4>1. ASSUME NEW i \in DOMAIN queue', queue'[i].req = r
            PROVE  IsPage(r, cut2, queue[i].seq, queue[i].data)'
        <5>1. CASE i \in DOMAIN queue
          BY <1>8, <3>8, <3>12, <4>1, <5>1 DEF Sliced, Travelling, IsPage
        <5>2. CASE i = Len(queue) + 1
          BY <3>2, <3>6, <3>8, <3>9, <3>11, <5>2 DEF IsPage
        <5> QED
          BY <3>8, <4>1, <5>1, <5>2
      <4>2. ASSUME NEW w \in Workers, Busy(w)', job'[w].req = r
            PROVE  IsPage(r, cut2, job[w].seq, job[w].data)'
        BY <1>4, <1>8, <3>12, <4>2 DEF Sliced, Travelling, IsPage, Busy
      <4> QED
        BY <4>1, <4>2 DEF Travelling
    <3>14. Stored(r, cut2)'
      BY <1>4, <1>8, <3>12 DEF Sliced, Stored, IsPage
    <3>15. Remaining(r, cut2)'
      <4>1. tail'[r] = <<>>
        BY <1>0, <2>7
      <4>2. SubSeq(sent'[r], Len(sent'[r]) + 1, Len(sent'[r])) = <<>>
        BY <1>3, <1>4, <1>5, SubSeqEmpty
      <4> QED
        BY <2>1, <3>7, <3>9, <4>1, <4>2 DEF Remaining
    <3> QED
      BY <1>7, <2>2, <3>7, <3>9, <3>13, <3>14, <3>15 DEF Whole, Sliced
  <2>8. \/ submit(r, buf) /\ tail' = [tail EXCEPT ![r] = <<>>]
        \/ tail' = [tail EXCEPT ![r] = buf] /\ UNCHANGED <<seq, queue>>
    BY <1>13, <1>c, <1>d DEF Write
  <2> QED
    BY <2>6, <2>7, <2>8
<1> QED
  BY <1>12, <1>13

\* What a Write leaves alone of the other requests.
LEMMA WriteOthers ==
    ASSUME TypeOK, NEW q \in Requests, NEW c \in Chunks, Write(q, c),
           NEW r \in Requests, r # q
    PROVE  NothingNew(r) /\ Same(r) /\ pages'[r] = pages[r] /\ expired'[r] = expired[r]
<1>0. /\ seq \in [Requests -> Nat] /\ tail \in [Requests -> Seq(Piece)]
      /\ sent \in [Requests -> Seq(Piece)] /\ owner \in [Requests -> Owners]
      /\ sealed \in [Requests -> BOOLEAN] /\ failed \in [Requests -> BOOLEAN]
      /\ queue \in Seq(Job)
  BY DEF TypeOK
<1>1. UNCHANGED <<pages, expired, fin, got, wpc, job>>
  BY DEF Write, storeVars
<1>2. Same(r)
  BY <1>0, <1>1 DEF Write, Same, submit, watchDone
<1>3. CASE queue' = queue
  BY <1>1, <1>2, <1>3, PoolNothingNew
<1>4. CASE queue' # queue
  <2>1. PICK y : y = Pieces(c, Len(sent[q]))
    OBVIOUS
  <2>2. PICK buf : buf = tail[q] \o y
    OBVIOUS
  <2>3. PICK j : j = [req |-> q, seq |-> seq[q] + 1, data |-> buf]
    OBVIOUS
  <2>4. queue' = Append(queue, j)
    BY <1>4, <2>1, <2>2, <2>3 DEF Write, submit
  <2>5. buf \in Seq(Piece)
    <3>1. Len(sent[q]) \in Nat /\ tail[q] \in Seq(Piece)
      BY <1>0
    <3>2. y \in Seq(Piece)
      BY <2>1, <3>1, PiecesType
    <3> QED
      BY <2>2, <3>1, <3>2, ConcatProperties
  <2>6. seq[q] + 1 \in Nat \ {0}
    BY <1>0
  <2>7. j \in Job /\ j.req = q
    BY <2>3, <2>5, <2>6 DEF Job
  <2>8. /\ Queued(r)' = Queued(r) /\ Held(r)' = Held(r)
        /\ DOMAIN queue' = DOMAIN queue \cup {Len(queue) + 1}
        /\ \A i \in DOMAIN queue : queue'[i] = queue[i]
        /\ queue'[Len(queue) + 1] = j
    <3>1. Queued(r)' = Queued(r) \cup (IF j.req = r THEN {j.seq} ELSE {})
      BY <1>1, <2>4, <2>7, Enqueue
    <3>2. Queued(r)' = Queued(r)
      BY <2>7, <3>1
    <3>3. /\ Held(r)' = Held(r)
          /\ DOMAIN queue' = DOMAIN queue \cup {Len(queue) + 1}
          /\ \A i \in DOMAIN queue : queue'[i] = queue[i]
          /\ queue'[Len(queue) + 1] = j
      BY <1>1, <2>4, <2>7, Enqueue
    <3> QED
      BY <3>2, <3>3
  <2>9. \A i \in DOMAIN queue' : queue'[i].req = r => i \in DOMAIN queue
    BY <2>7, <2>8
  <2>10. Outstanding(r)' \subseteq Outstanding(r)
    BY <2>8 DEF Outstanding
  <2>11. NothingNew(r)
    BY <1>1, <2>8, <2>9, <2>10 DEF NothingNew, Busy
  <2> QED
    BY <1>1, <1>2, <2>11
<1> QED
  BY <1>3, <1>4

LEMMA CopyWhole ==
    ASSUME Conservation, Wholeness, NEW q \in Requests, CopyStep(q)
    PROVE  Wholeness'
<1> SUFFICES ASSUME NEW r \in Requests, Sound(r)' PROVE Whole(r)'
  BY DEF Wholeness
<1>0. /\ Accounting /\ TypeOK /\ CallDiscipline /\ tail \in [Requests -> Seq(Piece)]
      /\ owner \in [Requests -> Owners] /\ fin \in [Requests -> FinStates]
      /\ DOMAIN got = Requests
  BY DEF Conservation, Accounting, TypeOK
<1>1. CASE \E c \in Chunks : Write(q, c)
  <2>1. PICK c \in Chunks : Write(q, c)
    BY <1>1
  <2>2. Sound(r)
    <3>1. expired' = expired /\ (failed[r] => failed'[r])
      BY <1>0, <2>1 DEF Write, submit, storeVars, TypeOK
    <3> QED
      BY <3>1 DEF Sound
  <2>3. Whole(r)
    BY <2>2 DEF Wholeness
  <2>4. CASE r = q
    BY <2>1, <2>2, <2>3, <2>4, WriteWhole
  <2>5. CASE r # q
    BY <1>0, <2>1, <2>3, <2>5, WriteOthers, WholeFrame
  <2> QED
    BY <2>4, <2>5
<1>2. CASE ~\E c \in Chunks : Write(q, c)
  <2>1. /\ UNCHANGED <<pages, expired, seq, failed, sealed, queue, wpc, job, sent>>
        /\ \A p \in Requests \ {q} : /\ owner'[p] = owner[p] /\ fin'[p] = fin[p]
                                     /\ got'[p] = got[p] /\ tail'[p] = tail[p]
    BY <1>0, <1>2 DEF CopyStep, NewCollector, WriteReturn, CloseBody, storeVars, poolVars
  <2>2. Sound(r) /\ Whole(r) /\ NothingNew(r)
    BY <2>1, PoolNothingNew DEF Sound, Wholeness
  <2>3. CASE r # q
    BY <2>1, <2>2, <2>3, WholeFrame DEF Same
  <2>4. CASE r = q
    <3>1. PICK cut \in [Nat -> Nat] : Sliced(r, cut)
      BY <2>2 DEF Whole
    <3>2. Travelling(r, cut)'
      BY <2>1, <2>2, <3>1, TravellingOn DEF Sliced
    <3>3. Cuts(cut, seq[r], Len(sent[r]))'
      BY <2>1, <3>1 DEF Sliced, Cuts
    <3>4. Outstanding(r)' = Outstanding(r)
      BY <2>1, PoolIdle
    <3>5. CASE NewCollector(r) \/ CloseBody(r)
      <4>1. /\ UNCHANGED <<tail, fin, got>>
            /\ owner[r] # "onDone" /\ owner'[r] # "onDone"
        BY <1>0, <3>5 DEF NewCollector, CloseBody
      <4>2. Stored(r, cut)' /\ Remaining(r, cut)'
        BY <2>1, <3>1, <4>1 DEF Sliced, Stored, IsPage, Remaining
      <4>3. Settled(r)'
        BY <2>1, <2>2, <3>4, <4>1 DEF Whole, Settled
      <4>4. Payload(r)' = Payload(r)
        BY <4>1 DEF Payload
      <4>5. Parsed(r)'
        BY <2>1, <2>2, <4>1, <4>4 DEF Whole, Parsed
      <4> QED
        BY <3>2, <3>3, <4>2, <4>3, <4>5 DEF Whole, Sliced
    <3>6. CASE WriteReturn(r)
      <4>1. /\ owner[r] = "onDone" /\ owner'[r] = "writing" /\ tail'[r] = <<>> /\ got'[r] = NoPages
            /\ fin[r] \in FinResults /\ fin'[r] \in {"none", "early"}
        BY <1>0, <3>6 DEF WriteReturn
      <4>2. sealed[r] /\ sealed'[r]
        BY <1>0, <2>1, <4>1 DEF CallDiscipline
      <4>3. Remaining(r, cut)'
        BY <4>1, <4>2 DEF Remaining
      <4>4. DOMAIN got'[r] = {}
        BY <4>1, NoPagesType
      <4>5. Stored(r, cut)'
        BY <2>1, <3>1, <4>4 DEF Sliced, Stored, IsPage
      <4>6. Settled(r)'
        BY <2>1, <2>2, <3>4, <4>1 DEF Whole, Settled
      <4>7. Parsed(r)'
        BY <4>1 DEF Parsed
      <4> QED
        BY <3>2, <3>3, <4>3, <4>5, <4>6, <4>7 DEF Whole, Sliced
    <3> QED
      BY <1>2, <2>4, <3>5, <3>6 DEF CopyStep
  <2> QED
    BY <2>3, <2>4
<1> QED
  BY <1>1, <1>2

LEMMA NextWholeness ==
    ASSUME Conservation, Wholeness, [CollectorNext]_vars
    PROVE  Wholeness'
<1>1. Conservation'
  BY NextConservation
<1>2. CASE UNCHANGED vars
  <2>1. /\ UNCHANGED <<owner, tail, seq, failed, sealed, fin, got, pages, expired, sent>>
        /\ UNCHANGED <<queue, wpc, job>>
    BY <1>2 DEF vars, storeVars, collectorVars, poolVars
  <2>2. ASSUME NEW r \in Requests, Sound(r)' PROVE Whole(r)'
    <3>1. Sound(r) /\ Same(r) /\ pages'[r] = pages[r] /\ NothingNew(r)
      BY <2>1, <2>2, PoolNothingNew DEF Sound, Same
    <3> QED
      BY <3>1, WholeFrame DEF Wholeness
  <2> QED
    BY <2>2 DEF Wholeness
<1>3. CASE \E r \in Requests : CopyStep(r)
  BY <1>3, CopyWhole
<1>4. CASE \E r \in Requests : FinalizeStep(r) \/ Abort(r)
  BY <1>1, <1>4, FinalizeWhole
<1>5. CASE \E w \in Workers : WorkerStep(w)
  BY <1>5, WorkerWhole
<1>6. CASE \E r \in Requests : RedisLate(r) \/ Expire(r)
  BY <1>6, RedisWhole
<1> QED
  BY <1>2, <1>3, <1>4, <1>5, <1>6 DEF CollectorNext, Rest

LEMMA InitWholeness == CollectorInit => Wholeness
<1> SUFFICES ASSUME CollectorInit, NEW r \in Requests PROVE Whole(r)
  BY DEF Wholeness
<1>1. /\ seq[r] = 0 /\ sent[r] = <<>> /\ tail[r] = <<>> /\ fin[r] = "none" /\ got[r] = NoPages
      /\ pages[r] = NoPages /\ ~sealed[r] /\ queue = <<>> /\ \A w \in Workers : ~Busy(w)
  BY DEF CollectorInit, StoreInit, Busy
<1>2. PICK cut \in [Nat -> Nat] : \A n \in Nat : cut[n] = 0
  <2>1. [n \in Nat |-> 0] \in [Nat -> Nat] /\ \A k \in Nat : [n \in Nat |-> 0][k] = 0
    OBVIOUS
  <2> QED
    BY <2>1
<1>3. Cuts(cut, seq[r], Len(sent[r]))
  BY <1>1, <1>2 DEF Cuts
<1>4. Travelling(r, cut)
  BY <1>1 DEF Travelling
<1>5. Stored(r, cut)
  BY <1>1, NoPagesType DEF Stored
<1>6. Remaining(r, cut)
  <2>1. SubSeq(<<>>, 1, 0) = <<>> /\ Len(<<>>) = 0 /\ cut[0] + 1 = 1
    BY <1>2, SubSeqEmpty
  <2> QED
    BY <1>1, <2>1 DEF Remaining
<1>7. Settled(r) /\ Parsed(r)
  BY <1>1 DEF Settled, Parsed, FinResults, FinErrors
<1> QED
  BY <1>3, <1>4, <1>5, <1>6, <1>7 DEF Whole, Sliced

-----------------------------------------------------------------------------
(* What Finalize returns.                                                  *)

\* The payload that Finalize parses is a beginning of the response.
LEMMA PayloadIsPrefix ==
    ASSUME Conservation, NEW r \in Requests, Sound(r), Whole(r), fin[r] = "ok"
    PROVE  \E m \in 0..Len(sent[r]) : Payload(r) = SubSeq(sent[r], 1, m)
<1>0. sent[r] \in Seq(Piece) /\ seq[r] \in Nat /\ Len(sent[r]) \in Nat
  BY DEF Conservation, Accounting, TypeOK
<1>1. PICK x : x = sent[r]
  OBVIOUS
<1>2. PICK n : n = seq[r]
  OBVIOUS
<1>3. x \in Seq(Piece) /\ n \in Nat /\ Len(x) \in Nat
  BY <1>0, <1>1, <1>2
<1>4. PICK cut \in [Nat -> Nat] : Sliced(r, cut)
  BY DEF Whole
<1>5. Cuts(cut, n, Len(x)) /\ Remaining(r, cut)
  BY <1>1, <1>2, <1>4 DEF Sliced
<1>6. DOMAIN got[r] \in {{}, 1..n}
  BY <1>2 DEF Whole, Parsed
<1>7. cut[n] \in Nat /\ cut[n] <= Len(x)
  <2>1. n \in 0..n
    BY <1>3
  <2> QED
    BY <1>3, <1>5, <2>1 DEF Cuts
<1>8. PICK a \in Nat : a = cut[n]
  BY <1>7
<1>9. CASE DOMAIN got[r] = 1..n
  <2>1. \A s \in 1..n : got[r][s] = Slice(x, cut, s)
    BY <1>1, <1>4, <1>9 DEF Sliced, Stored, IsPage
  <2>2. Assemble(got[r]) = SubSeq(x, 1, a)
    BY <1>3, <1>5, <1>8, <1>9, <2>1, AssembleSlices
  <2>3. CASE sealed[r] /\ owner[r] # "onDone"
    <3>1. tail[r] = <<>>
      BY <1>5, <2>3 DEF Remaining
    <3>2. SubSeq(x, 1, a) \in Seq(Piece)
      BY <1>3, <1>7, <1>8, SubSeqProperties
    <3>3. Payload(r) = SubSeq(x, 1, a)
      BY <2>2, <3>1, <3>2, ConcatEmptySeq DEF Payload
    <3>4. a \in 0..Len(x)
      BY <1>3, <1>7, <1>8
    <3> QED
      BY <1>1, <3>3, <3>4
  <2>4. CASE ~(sealed[r] /\ owner[r] # "onDone")
    <3>1. tail[r] = SubSeq(x, a + 1, Len(x))
      BY <1>1, <1>2, <1>5, <1>8, <2>4 DEF Remaining
    <3>2. SubSeq(x, 1, a) \o SubSeq(x, a + 1, Len(x)) = SubSeq(x, 1, Len(x))
      <4>1. 1 \in 1..Len(x) + 1 /\ a \in 1 - 1..Len(x) /\ Len(x) \in a..Len(x)
        BY <1>3, <1>7, <1>8
      <4> QED
        BY <1>3, <4>1, ConcatAdjacentSubSeq
    <3>3. Len(x) \in 0..Len(x)
      BY <1>3
    <3> QED
      BY <1>1, <2>2, <3>1, <3>2, <3>3 DEF Payload
  <2> QED
    BY <2>3, <2>4
<1>10. CASE DOMAIN got[r] = {} /\ DOMAIN got[r] # 1..n
  <2>1. sealed[r] /\ owner[r] # "onDone"
    BY <1>2, <1>10 DEF Conservation, ReadsEveryPage, Sound
  <2>2. tail[r] = <<>>
    BY <1>5, <2>1 DEF Remaining
  <2>3. DOMAIN got[r] = 1..0
    BY <1>10
  <2>4. Assemble(got[r]) = <<>>
    <3>1. \A s \in 1..0 : got[r][s] = Slice(<<>>, cut, s)
      OBVIOUS
    <3>2. Cuts(cut, 0, 0)
      BY <1>5 DEF Cuts
    <3>3. <<>> \in Seq(Piece) /\ Len(<<>>) = 0 /\ 0 \in Nat
      OBVIOUS
    <3>4. Assemble(got[r]) = SubSeq(<<>>, 1, cut[0])
      BY <2>3, <3>1, <3>2, <3>3, AssembleSlices
    <3> QED
      BY <3>2, <3>4, SubSeqEmpty DEF Cuts
  <2>5. Payload(r) = SubSeq(x, 1, 0)
    BY <1>3, <2>2, <2>4, ConcatEmptySeq, SubSeqEmpty DEF Payload
  <2>6. 0 \in 0..Len(x)
    BY <1>3
  <2> QED
    BY <1>1, <2>5, <2>6
<1> QED
  BY <1>6, <1>9, <1>10

LEMMA WholeParse == Conservation /\ Wholeness => WholeUnlessLost
<1> SUFFICES ASSUME Conservation, Wholeness, NEW r \in Requests, fin[r] = "ok",
                    ~failed[r], ~expired[r]
             PROVE  AssistantFromSSE(Payload(r)) = AssistantFromSSE(sent[r])
  BY DEF WholeUnlessLost
<1>1. Sound(r) /\ Whole(r)
  BY DEF Sound, Wholeness
<1>2. PICK x : x = sent[r]
  OBVIOUS
<1>3. PICK p : p = Payload(r)
  OBVIOUS
<1>4. x \in Seq(Piece)
  BY <1>2 DEF Conservation, Accounting, TypeOK
<1>5. PICK m \in 0..Len(x) : p = SubSeq(x, 1, m)
  BY <1>1, <1>2, <1>3, PayloadIsPrefix
<1>6. HasSentinel(p)
  BY <1>1, <1>3, OkHasSentinel DEF Whole, Parsed
<1>7. AssistantFromSSE(p) = AssistantFromSSE(x)
  BY <1>4, <1>5, <1>6, PrefixParse
<1> QED
  BY <1>2, <1>3, <1>7

LEMMA CollectorWholeness == CollectorSpec => [](Conservation /\ Wholeness)
<1>1. CollectorInit => Conservation /\ Wholeness
  BY InitConservation, InitWholeness
<1>2. Conservation /\ Wholeness /\ [CollectorNext]_vars => (Conservation /\ Wholeness)'
  BY NextConservation, NextWholeness
<1> QED
  BY <1>1, <1>2, PTL DEF CollectorSpec

(***************************************************************************)
(* Finalize returns the assistant message of the whole response, or an     *)
(* error, for every page size, queue capacity, number of workers and       *)
(* requests and every interleaving of their steps, as long as no flush of  *)
(* the request failed and its entry did not expire: the pages that were    *)
(* cut off the response, flushed by workers in any order and read back are *)
(* put together again as they were.                                        *)
(***************************************************************************)
THEOREM FinalizeReturnsTheWhole == CollectorSpec => []WholeUnlessLost
<1>1. CollectorSpec => [](Conservation /\ Wholeness)
  BY CollectorWholeness
<1> QED
  BY <1>1, WholeParse, PTL

-----------------------------------------------------------------------------
(* Whatever is lost: the order of what is left.                            *)

\* Every piece of d comes before every piece of e.
Before(d, e) == \A i \in DOMAIN d, k \in DOMAIN e : d[i].pos < e[k].pos

\* The members of S, one after the other.
Enumerates(f, S, n) == f \in [1..n -> S] /\ \A i, k \in 1..n : i < k => f[i] < f[k]

LEMMA RisingExists ==
    ASSUME NEW n \in Nat, NEW S \in SUBSET (1..n)
    PROVE  \E f : Enumerates(f, S, Cardinality(S))
<1> DEFINE Hard(m) == \E R \in SUBSET (1..m) : ~\E f : Enumerates(f, R, Cardinality(R))
           T == {m \in Nat : Hard(m)}
<1>1. ASSUME NEW m \in T, \A j \in T : m <= j PROVE FALSE
  <2>1. PICK R \in SUBSET (1..m) : ~\E f : Enumerates(f, R, Cardinality(R))
    OBVIOUS
  <2>2. m \in Nat /\ IsFiniteSet(R)
    <3>1. m \in Nat
      OBVIOUS
    <3>2. IsFiniteSet(1..m)
      BY <3>1, FS_Interval
    <3> QED
      BY <3>1, <3>2, FS_Subset
  <2>3. m \in R
    <3>1. CASE m = 0
      <4>1. R = {}
        BY <3>1
      <4>2. Cardinality(R) = 0 /\ [i \in 1..0 |-> i] \in [1..0 -> R] /\ 1..0 = {}
        BY <4>1, FS_EmptySet
      <4>3. Enumerates([i \in 1..0 |-> i], R, Cardinality(R))
        BY <4>2 DEF Enumerates
      <4> QED
        BY <2>1, <4>3
    <3>2. CASE m # 0 /\ m \notin R
      <4>1. m - 1 \in Nat /\ R \in SUBSET (1..m - 1) /\ ~(m <= m - 1)
        BY <2>2, <3>2
      <4>2. Hard(m - 1)
        BY <2>1, <4>1
      <4>3. m - 1 \in T
        BY <4>1, <4>2
      <4> QED
        BY <1>1, <4>1, <4>3
    <3> QED
      BY <3>1, <3>2
  <2>4. PICK Q : Q = R \ {m}
    OBVIOUS
  <2>5. m - 1 \in Nat /\ Q \in SUBSET (1..m - 1) /\ ~(m <= m - 1)
    BY <2>2, <2>3, <2>4
  <2>6. PICK c \in Nat : c = Cardinality(Q) /\ Cardinality(R) = c + 1
    <3>1. IsFiniteSet(Q) /\ Cardinality(Q) = Cardinality(R) - 1
      BY <2>2, <2>3, <2>4, FS_RemoveElement
    <3>2. Cardinality(Q) \in Nat /\ Cardinality(R) \in Nat
      BY <2>2, <3>1, FS_CardinalityType
    <3> QED
      BY <3>1, <3>2
  <2>7. PICK g : Enumerates(g, Q, c)
    <3>1. m - 1 \notin T
      BY <1>1, <2>5
    <3>2. ~Hard(m - 1)
      BY <2>5, <3>1
    <3> QED
      BY <2>5, <2>6, <3>2
  <2>8. PICK f : f = [i \in 1..c + 1 |-> IF i = c + 1 THEN m ELSE g[i]]
    OBVIOUS
  <2>9. ASSUME NEW i \in 1..c + 1, i # c + 1 PROVE i \in 1..c /\ f[i] = g[i] /\ f[i] \in Q
    BY <2>6, <2>7, <2>8, <2>9 DEF Enumerates
  <2>10. f \in [1..c + 1 -> R]
    BY <2>3, <2>4, <2>8, <2>9
  <2>11. ASSUME NEW i \in 1..c + 1, NEW k \in 1..c + 1, i < k PROVE f[i] < f[k]
    <3>1. i # c + 1 /\ i \in 1..c /\ f[i] = g[i] /\ f[i] \in Q
      BY <2>6, <2>9, <2>11
    <3>2. CASE k = c + 1
      <4>1. f[k] = m /\ f[i] \in 1..m - 1
        BY <2>5, <2>8, <3>1, <3>2
      <4> QED
        BY <2>2, <4>1
    <3>3. CASE k # c + 1
      <4>1. k \in 1..c /\ f[k] = g[k]
        BY <2>9, <3>3
      <4> QED
        BY <2>7, <2>11, <3>1, <4>1 DEF Enumerates
    <3> QED
      BY <3>2, <3>3
  <2>12. Enumerates(f, R, Cardinality(R))
    BY <2>6, <2>10, <2>11 DEF Enumerates
  <2> QED
    BY <2>1, <2>12
<1>2. T \subseteq Nat
  OBVIOUS
<1>3. n \notin T
  <2> HIDE DEF T
  <2> QED
    BY <1>1, <1>2, LeastMember
<1> QED
  BY <1>3

LEMMA ConcatSelects ==
    ASSUME NEW a \in Seq(Piece), NEW b \in Seq(Piece), NEW x,
           Selects(a, x), Selects(b, x), Before(a, b)
    PROVE  Selects(a \o b, x)
<1>1. PICK l \in Nat, m \in Nat : l = Len(a) /\ m = Len(b)
  OBVIOUS
<1>2. PICK s : s = a \o b
  OBVIOUS
<1>3. /\ DOMAIN a = 1..l /\ DOMAIN b = 1..m /\ DOMAIN s = 1..l + m
      /\ \A i \in 1..l + m : s[i] = IF i <= l THEN a[i] ELSE b[i - l]
  BY <1>1, <1>2, ConcatProperties
<1>4. ASSUME NEW i \in 1..l + m
      PROVE  IF i <= l THEN i \in DOMAIN a /\ s[i] = a[i] ELSE i - l \in DOMAIN b /\ s[i] = b[i - l]
  BY <1>3
<1>5. \A i \in 1..l + m : s[i].pos \in DOMAIN x /\ s[i] = x[s[i].pos]
  BY <1>4 DEF Selects
<1>6. ASSUME NEW i \in 1..l + m, NEW k \in 1..l + m, i < k PROVE s[i].pos < s[k].pos
  <2>1. CASE k <= l
    <3>1. i <= l
      BY <1>6, <2>1
    <3> QED
      BY <1>4, <1>6, <2>1, <3>1 DEF Selects
  <2>2. CASE i <= l /\ ~(k <= l)
    BY <1>4, <2>2 DEF Before
  <2>3. CASE ~(i <= l) /\ ~(k <= l)
    <3>1. i - l < k - l
      BY <1>6
    <3> QED
      BY <1>4, <2>3, <3>1 DEF Selects
  <2> QED
    BY <1>6, <2>1, <2>2, <2>3
<1> QED
  BY <1>2, <1>3, <1>5, <1>6 DEF Selects

\* Place p of a concatenation is a place of one of its parts.
PartOf(flat, ss, off, n, p) ==
    \E i \in 1..n : \E k \in DOMAIN ss[i] :
        p = off[i - 1] + k /\ p <= off[i] /\ flat[p] = ss[i][k]

LEMMA PlaceInPart ==
    ASSUME NEW n \in Nat \ {0}, NEW ss \in [1..n -> Seq(Piece)], NEW flat, NEW off,
           Ranges(flat, ss, off, n), NEW p \in 1..off[n]
    PROVE  PartOf(flat, ss, off, n, p)
<1>1. off \in [0..n -> Nat] /\ off[0] = 0 /\ n \in Nat
  BY DEF Ranges
<1>2. PICK i \in 1..n : off[i - 1] < p /\ p <= off[i]
  BY <1>1, Located
<1>3. off[i - 1] \in Nat /\ off[i] \in Nat /\ off[i] = off[i - 1] + Len(ss[i])
  BY <1>1 DEF Ranges
<1>4. ss[i] \in Seq(Piece) /\ Len(ss[i]) \in Nat /\ DOMAIN ss[i] = 1..Len(ss[i])
  OBVIOUS
<1>5. PICK k : k = p - off[i - 1]
  OBVIOUS
<1>6. k \in 1..Len(ss[i]) /\ p = off[i - 1] + k
  BY <1>2, <1>3, <1>4, <1>5
<1>7. flat[off[i - 1] + k] = ss[i][k]
  BY <1>6 DEF Ranges
<1> QED
  BY <1>2, <1>4, <1>6, <1>7 DEF PartOf

LEMMA FlattenSelects ==
    ASSUME NEW n \in Nat \ {0}, NEW ss \in [1..n -> Seq(Piece)], NEW x,
           \A i \in 1..n : Selects(ss[i], x),
           \A i, k \in 1..n : i < k => Before(ss[i], ss[k])
    PROVE  /\ FlattenSeq(ss) \in Seq(Piece) /\ Selects(FlattenSeq(ss), x)
           /\ \A p \in DOMAIN FlattenSeq(ss) : \E i \in 1..n : \E k \in DOMAIN ss[i] :
                FlattenSeq(ss)[p] = ss[i][k]
<1>1. PICK flat : flat = FlattenSeq(ss)
  OBVIOUS
<1>2. PICK off : Ranges(flat, ss, off, n)
  BY <1>1, FlattenRanges
<1>3. flat \in Seq(Piece)
  BY <1>1, FlattenRanges
<1>4. off \in [0..n -> Nat] /\ n \in 0..n /\ n \in Nat
  BY <1>2 DEF Ranges
<1>5. DOMAIN flat = 1..off[n] /\ off[n] \in Nat
  BY <1>2, <1>3, <1>4 DEF Ranges
<1>6. \A p \in 1..off[n] : \E i \in 1..n : \E k \in DOMAIN ss[i] :
        p = off[i - 1] + k /\ p <= off[i] /\ flat[p] = ss[i][k]
  <2>1. \A p \in 1..off[n] : PartOf(flat, ss, off, n, p)
    BY <1>2, PlaceInPart
  <2> QED
    BY <2>1 DEF PartOf
<1>7. \A p \in 1..off[n] : flat[p].pos \in DOMAIN x /\ flat[p] = x[flat[p].pos]
  BY <1>6 DEF Selects
<1>8. ASSUME NEW p \in 1..off[n], NEW q \in 1..off[n], p < q PROVE flat[p].pos < flat[q].pos
  <2>1. PICK i \in 1..n : \E k \in DOMAIN ss[i] :
          p = off[i - 1] + k /\ p <= off[i] /\ flat[p] = ss[i][k]
    BY <1>6
  <2>2. PICK k \in DOMAIN ss[i] : p = off[i - 1] + k /\ p <= off[i] /\ flat[p] = ss[i][k]
    BY <2>1
  <2>3. PICK j \in 1..n : \E m \in DOMAIN ss[j] :
          q = off[j - 1] + m /\ q <= off[j] /\ flat[q] = ss[j][m]
    BY <1>6
  <2>4. PICK m \in DOMAIN ss[j] : q = off[j - 1] + m /\ q <= off[j] /\ flat[q] = ss[j][m]
    BY <2>3
  <2>5. /\ off[i - 1] \in Nat /\ off[j] \in Nat /\ i - 1 \in 0..n /\ j \in 0..n
        /\ ss[i] \in Seq(Piece) /\ ss[j] \in Seq(Piece)
    BY <1>4
  <2>6. k \in Nat \ {0} /\ m \in Nat \ {0}
    <3>1. DOMAIN ss[i] = 1..Len(ss[i]) /\ DOMAIN ss[j] = 1..Len(ss[j])
      BY <2>5
    <3>2. Len(ss[i]) \in Nat /\ Len(ss[j]) \in Nat
      BY <2>5
    <3> QED
      BY <3>1, <3>2
  <2>7. i <= j
    <3>1. CASE j <= i - 1
      <4>1. ASSUME NEW z \in 1..n PROVE off[z - 1] <= off[z]
        <5>1. off[z - 1] \in Nat /\ Len(ss[z]) \in Nat
          BY <1>4, SMTT(30)
        <5>2. off[z] = off[z - 1] + Len(ss[z])
          BY <1>2 DEF Ranges
        <5> QED
          BY <5>1, <5>2
      <4>2. off[j] <= off[i - 1]
        BY <1>4, <2>5, <3>1, <4>1, OffsetsGrow
      <4>3. q <= off[j] /\ off[i - 1] < p
        BY <2>2, <2>4, <2>5, <2>6
      <4>4. p \in Nat /\ q \in Nat
        BY <1>5
      <4> QED
        BY <1>8, <2>5, <4>2, <4>3, <4>4
    <3> QED
      BY <3>1
  <2>8. CASE i = j
    <3>1. k < m
      BY <1>8, <2>2, <2>4, <2>5, <2>6, <2>8
    <3> QED
      BY <2>2, <2>4, <2>8, <3>1 DEF Selects
  <2>9. CASE i < j
    BY <2>2, <2>4, <2>9 DEF Before
  <2> QED
    BY <2>7, <2>8, <2>9
<1>9. Selects(flat, x)
  BY <1>5, <1>7, <1>8 DEF Selects
<1> QED
  BY <1>1, <1>3, <1>5, <1>6, <1>9

\* Every piece of s is a piece of some page of h.
MadeOf(s, h) ==
    \A p \in DOMAIN s : \E n \in DOMAIN h : \E k \in DOMAIN h[n] : s[p] = h[n][k]

LEMMA AssembleSelects ==
    ASSUME NEW n \in Nat, NEW h, DOMAIN h \in SUBSET (1..n), NEW x,
           \A s \in DOMAIN h : h[s] \in Seq(Piece) /\ Selects(h[s], x),
           \A s, t \in DOMAIN h : s < t => Before(h[s], h[t])
    PROVE  /\ Assemble(h) \in Seq(Piece) /\ Selects(Assemble(h), x)
           /\ MadeOf(Assemble(h), h)
<1> DEFINE m == Cardinality(DOMAIN h)
           Rising(f) == \A i, k \in 1..m : i < k => f[i] < f[k]
           order == CHOOSE f \in [1..m -> DOMAIN h] : Rising(f)
           parts == [i \in 1..m |-> h[order[i]]]
<1>1. Assemble(h) = FlattenSeq(parts)
  BY DEF Assemble
<1>2. m \in Nat
  <2>1. IsFiniteSet(1..n)
    BY FS_Interval
  <2>2. IsFiniteSet(DOMAIN h)
    BY <2>1, FS_Subset
  <2> QED
    BY <2>2, FS_CardinalityType
<1>3. order \in [1..m -> DOMAIN h] /\ Rising(order)
  <2>1. \E f : Enumerates(f, DOMAIN h, m)
    BY RisingExists
  <2> HIDE DEF m
  <2>2. \E f \in [1..m -> DOMAIN h] : Rising(f)
    BY <2>1 DEF Enumerates
  <2> HIDE DEF Rising
  <2> QED
    BY <2>2
<1> HIDE DEF order, m
<1>4. \A i \in 1..m : parts[i] = h[order[i]] /\ order[i] \in DOMAIN h
  BY <1>3
<1>5. parts \in [1..m -> Seq(Piece)]
  BY <1>4
<1> HIDE DEF parts
<1>6. CASE m = 0
  <2>1. DOMAIN parts = {} /\ Len(parts) = 0 /\ parts = <<>>
    BY <1>5, <1>6
  <2>2. FlattenSeq(parts) = <<>>
    BY <2>1 DEF FlattenSeq
  <2>3. <<>> \in Seq(Piece) /\ DOMAIN <<>> = {}
    OBVIOUS
  <2> QED
    BY <1>1, <2>2, <2>3 DEF Selects, MadeOf
<1>7. CASE m # 0
  <2>1. m \in Nat \ {0}
    BY <1>2, <1>7
  <2>2. \A i \in 1..m : Selects(parts[i], x)
    BY <1>4
  <2>3. \A i, k \in 1..m : i < k => Before(parts[i], parts[k])
    BY <1>3, <1>4
  <2>4. /\ FlattenSeq(parts) \in Seq(Piece) /\ Selects(FlattenSeq(parts), x)
        /\ \A p \in DOMAIN FlattenSeq(parts) : \E i \in 1..m : \E k \in DOMAIN parts[i] :
             FlattenSeq(parts)[p] = parts[i][k]
    BY <1>5, <2>1, <2>2, <2>3, FlattenSelects
  <2> QED
    BY <1>1, <1>4, <2>4 DEF MadeOf
<1> QED
  BY <1>6, <1>7

-----------------------------------------------------------------------------
(* Every copy of a page: in the queue, with a worker, on its way to Redis, *)
(* in Redis and read by Finalize.                                          *)

InPool(r, s, d) ==
    \/ \E i \in DOMAIN queue : queue[i].req = r /\ queue[i].seq = s /\ queue[i].data = d
    \/ \E w \in Workers : Busy(w) /\ job[w].req = r /\ job[w].seq = s /\ job[w].data = d

IsCopy(r, s, d) ==
    \/ InPool(r, s, d)
    \/ \E p \in wire[r] : p.seq = s /\ p.data = d
    \/ s \in DOMAIN pages[r] /\ pages[r][s] = d
    \/ s \in DOMAIN got[r] /\ got[r][s] = d

\* The pieces that have left the tail.
Paged(r) ==
    \A s, d : IsCopy(r, s, d) =>
        s \in 1..seq[r] /\ Selects(d, sent[r]) /\ Before(d, tail[r])

PagesApart(r) ==
    \A s, d, t, e : IsCopy(r, s, d) /\ IsCopy(r, t, e) /\ s < t => Before(d, e)

\* The inductive invariant behind PayloadInOrder: each piece knows its
\* place, and a page of a higher number holds later pieces.
Placed(r) ==
    /\ \A i \in DOMAIN sent[r] : sent[r][i].pos = i
    /\ Selects(tail[r], sent[r])
    /\ Paged(r) /\ PagesApart(r)

Placement == \A r \in Requests : Placed(r)

LEMMA PoolCopies ==
    ASSUME NEW r, NothingNew(r), NEW s, NEW d, InPool(r, s, d)'
    PROVE  InPool(r, s, d)
<1>1. CASE \E i \in DOMAIN queue' : queue'[i].req = r /\ queue'[i].seq = s /\ queue'[i].data = d
  BY <1>1 DEF NothingNew, InPool
<1>2. CASE \E w \in Workers : Busy(w)' /\ job'[w].req = r /\ job'[w].seq = s /\ job'[w].data = d
  BY <1>2 DEF NothingNew, InPool
<1> QED
  BY <1>1, <1>2 DEF InPool

\* A step that copies pages of r about, and perhaps drops its tail.
LEMMA PlacedMoves ==
    ASSUME NEW r, Placed(r), NothingNew(r), seq'[r] = seq[r], sent'[r] = sent[r],
           tail'[r] \in {tail[r], <<>>},
           \A p \in wire'[r] : IsCopy(r, p.seq, p.data),
           \A s \in DOMAIN pages'[r] : IsCopy(r, s, pages'[r][s]),
           \A s \in DOMAIN got'[r] : IsCopy(r, s, got'[r][s])
    PROVE  Placed(r)'
<1>1. ASSUME NEW s, NEW d, IsCopy(r, s, d)' PROVE IsCopy(r, s, d)
  <2>1. CASE InPool(r, s, d)'
    BY <2>1, PoolCopies DEF IsCopy
  <2> QED
    BY <1>1, <2>1 DEF IsCopy
<1>2. DOMAIN <<>> = {}
  OBVIOUS
<1>3. Selects(tail[r], sent[r])'
  BY <1>2 DEF Placed, Selects
<1>4. ASSUME NEW s, NEW d, IsCopy(r, s, d)'
      PROVE  s \in 1..seq'[r] /\ Selects(d, sent'[r]) /\ Before(d, tail'[r])
  <2>1. s \in 1..seq[r] /\ Selects(d, sent[r]) /\ Before(d, tail[r])
    BY <1>1, <1>4 DEF Placed, Paged
  <2> QED
    BY <1>2, <2>1 DEF Before
<1>5. Paged(r)'
  BY <1>4 DEF Paged
<1>6. PagesApart(r)'
  BY <1>1 DEF Placed, PagesApart
<1> QED
  BY <1>3, <1>5, <1>6 DEF Placed

\* What a chunk adds to the response.
LEMMA ChunkPlaces ==
    ASSUME NEW x \in Seq(Piece), \A i \in DOMAIN x : x[i].pos = i,
           NEW c \in Chunks, NEW y, y = Pieces(c, Len(x))
    PROVE  /\ x \o y \in Seq(Piece) /\ y \in Seq(Piece)
           /\ \A i \in DOMAIN (x \o y) : (x \o y)[i].pos = i
           /\ Selects(y, x \o y)
           /\ \A d : Selects(d, x) => Selects(d, x \o y) /\ Before(d, y)
<1>1. PICK l \in Nat, m \in Nat : l = Len(x) /\ m = Len(c)
  BY PiecesType
<1>2. y \in Seq(Piece) /\ DOMAIN y = 1..m /\ \A i \in 1..m : y[i].pos = l + i
  BY <1>1, PiecesType DEF Pieces
<1>3. PICK z : z = x \o y
  OBVIOUS
<1>4. /\ z \in Seq(Piece) /\ DOMAIN x = 1..l /\ DOMAIN z = 1..l + m
      /\ \A i \in 1..l + m : z[i] = IF i <= l THEN x[i] ELSE y[i - l]
  <2>1. Len(y) = m
    BY <1>2
  <2> QED
    BY <1>1, <1>2, <1>3, <2>1, ConcatProperties
<1>5. \A i \in 1..l : i \in 1..l + m /\ z[i] = x[i]
  BY <1>4
<1>6. ASSUME NEW i \in 1..m PROVE l + i \in 1..l + m /\ z[l + i] = y[i]
  <2>1. l + i \in 1..l + m /\ ~(l + i <= l) /\ (l + i) - l = i
    OBVIOUS
  <2> QED
    BY <1>4, <2>1
<1>7. ASSUME NEW i \in 1..l + m PROVE z[i].pos = i
  <2>1. CASE i <= l
    <3>1. i \in 1..l
      BY <2>1
    <3> QED
      BY <1>4, <1>5, <3>1
  <2>2. CASE ~(i <= l)
    <3>1. i - l \in 1..m /\ l + (i - l) = i
      BY <2>2
    <3> QED
      BY <1>2, <1>6, <3>1
  <2> QED
    BY <2>1, <2>2
<1>8. Selects(y, z)
  <2>1. \A i \in 1..m : y[i].pos \in DOMAIN z /\ y[i] = z[y[i].pos]
    BY <1>2, <1>4, <1>6
  <2>2. \A i, k \in 1..m : i < k => y[i].pos < y[k].pos
    BY <1>2
  <2> QED
    BY <1>2, <2>1, <2>2 DEF Selects
<1>9. ASSUME NEW d, Selects(d, x) PROVE Selects(d, z) /\ Before(d, y)
  <2>1. \A i \in DOMAIN d : d[i].pos \in 1..l /\ d[i] = x[d[i].pos]
    BY <1>4, <1>9 DEF Selects
  <2>2. Selects(d, z)
    BY <1>4, <1>5, <1>9, <2>1 DEF Selects
  <2>3. Before(d, y)
    <3>1. \A i \in DOMAIN d, k \in 1..m : d[i].pos < y[k].pos
      BY <1>2, <2>1
    <3> QED
      BY <1>2, <3>1 DEF Before
  <2> QED
    BY <2>2, <2>3
<1> QED
  BY <1>2, <1>3, <1>4, <1>7, <1>8, <1>9

LEMMA WritePlaced ==
    ASSUME TypeOK, NEW r \in Requests, NEW c \in Chunks, Write(r, c), Placed(r)
    PROVE  Placed(r)'
<1>0. /\ seq \in [Requests -> Nat] /\ tail \in [Requests -> Seq(Piece)]
      /\ sent \in [Requests -> Seq(Piece)] /\ queue \in Seq(Job)
  BY DEF TypeOK
<1>1. PICK x, y, t, buf : x = sent[r] /\ y = Pieces(c, Len(sent[r])) /\ t = tail[r] /\ buf = t \o y
  OBVIOUS
<1>2. x \in Seq(Piece) /\ t \in Seq(Piece)
  BY <1>0, <1>1
<1>3. /\ x \o y \in Seq(Piece) /\ y \in Seq(Piece)
      /\ \A i \in DOMAIN (x \o y) : (x \o y)[i].pos = i
      /\ Selects(y, x \o y)
      /\ \A d : Selects(d, x) => Selects(d, x \o y) /\ Before(d, y)
  <2>1. \A i \in DOMAIN x : x[i].pos = i
    BY <1>1 DEF Placed
  <2> QED
    BY <1>1, <1>2, <2>1, ChunkPlaces
<1>4. sent'[r] = x \o y /\ UNCHANGED <<pages, wire, got, wpc, job>>
  BY <1>0, <1>1 DEF Write, storeVars
<1>5. Selects(t, x) /\ Selects(t, x \o y) /\ Before(t, y)
  BY <1>1, <1>3 DEF Placed
<1>6. buf \in Seq(Piece) /\ Selects(buf, x \o y)
  <2>1. t \o y \in Seq(Piece)
    BY <1>2, <1>3, ConcatProperties
  <2>2. Selects(t \o y, x \o y)
    BY <1>2, <1>3, <1>5, ConcatSelects
  <2> QED
    BY <1>1, <2>1, <2>2
<1>7. ASSUME NEW d, Before(d, t), Before(d, y) PROVE Before(d, buf)
  <2>1. ASSUME NEW k \in DOMAIN buf
        PROVE  (\E j \in DOMAIN t : buf[k] = t[j]) \/ (\E j \in DOMAIN y : buf[k] = y[j])
    <3>1. PICK l \in Nat, m \in Nat : l = Len(t) /\ m = Len(y)
      BY <1>2, <1>3
    <3>2. /\ DOMAIN t = 1..l /\ DOMAIN y = 1..m /\ DOMAIN buf = 1..l + m
          /\ buf[k] = IF k <= l THEN t[k] ELSE y[k - l]
      BY <1>1, <1>2, <1>3, <2>1, <3>1, ConcatProperties
    <3>3. IF k <= l THEN k \in DOMAIN t ELSE k - l \in DOMAIN y
      BY <2>1, <3>2
    <3> QED
      BY <3>2, <3>3
  <2> QED
    BY <1>7, <2>1 DEF Before
<1>8. ASSUME NEW s, NEW d, IsCopy(r, s, d)
      PROVE  /\ s \in 1..seq[r] /\ Selects(d, x \o y) /\ Before(d, t) /\ Before(d, buf)
  <2>1. s \in 1..seq[r] /\ Selects(d, x) /\ Before(d, t)
    BY <1>1, <1>8 DEF Placed, Paged
  <2> QED
    BY <1>3, <1>7, <2>1
<1>9. ASSUME UNCHANGED <<queue, seq>>, tail'[r] \in {t, buf, <<>>} PROVE Placed(r)'
  <2>1. ASSUME NEW s, NEW d PROVE IsCopy(r, s, d)' <=> IsCopy(r, s, d)
    BY <1>4, <1>9 DEF IsCopy, InPool, Busy
  <2>2. DOMAIN <<>> = {}
    OBVIOUS
  <2>3. Selects(tail[r], sent[r])'
    BY <1>4, <1>5, <1>6, <1>9, <2>2 DEF Selects
  <2>4. Paged(r)'
    <3>1. ASSUME NEW s, NEW d, IsCopy(r, s, d)'
          PROVE  s \in 1..seq'[r] /\ Selects(d, sent'[r]) /\ Before(d, tail'[r])
      <4>1. s \in 1..seq[r] /\ Selects(d, x \o y) /\ Before(d, t) /\ Before(d, buf)
        BY <1>8, <2>1, <3>1
      <4>2. Before(d, <<>>)
        BY <2>2 DEF Before
      <4> QED
        BY <1>4, <1>9, <4>1, <4>2
    <3> QED
      BY <3>1 DEF Paged
  <2>5. PagesApart(r)'
    BY <2>1 DEF Placed, PagesApart
  <2> QED
    BY <1>3, <1>4, <2>3, <2>4, <2>5 DEF Placed
<1>10. ASSUME queue' \in {queue, Append(queue, [req |-> r, seq |-> seq[r] + 1, data |-> buf])},
              seq'[r] = seq[r] + 1, tail'[r] = <<>>
       PROVE  Placed(r)'
  <2> DEFINE j == [req |-> r, seq |-> seq[r] + 1, data |-> buf]
  <2>1. j \in Job /\ j.req = r /\ j.seq = seq[r] + 1 /\ j.data = buf
    BY <1>0, <1>6 DEF Job
  <2> HIDE DEF j
  <2>2. ASSUME NEW i \in DOMAIN queue' PROVE queue'[i] = j \/ \E k \in DOMAIN queue : queue'[i] = queue[k]
    <3>1. CASE queue' = queue
      BY <2>2, <3>1
    <3>2. CASE queue' = Append(queue, j)
      <4>1. /\ DOMAIN queue' = DOMAIN queue \cup {Len(queue) + 1}
            /\ \A k \in DOMAIN queue : queue'[k] = queue[k]
            /\ queue'[Len(queue) + 1] = j
        BY <1>4, <2>1, <3>2, Enqueue
      <4> QED
        BY <2>2, <4>1
    <3> QED
      BY <1>10, <3>1, <3>2 DEF j
  <2>3. ASSUME NEW s, NEW d, IsCopy(r, s, d)'
        PROVE  IsCopy(r, s, d) \/ (s = seq[r] + 1 /\ d = buf)
    <3>1. CASE \E i \in DOMAIN queue' : queue'[i].req = r /\ queue'[i].seq = s /\ queue'[i].data = d
      BY <2>1, <2>2, <3>1 DEF IsCopy, InPool
    <3>2. CASE ~\E i \in DOMAIN queue' : queue'[i].req = r /\ queue'[i].seq = s /\ queue'[i].data = d
      BY <1>4, <2>3, <3>2 DEF IsCopy, InPool, Busy
    <3> QED
      BY <3>1, <3>2
  <2>4. DOMAIN <<>> = {} /\ seq[r] \in Nat
    BY <1>0
  <2>5. Selects(tail[r], sent[r])'
    BY <1>10, <2>4 DEF Selects
  <2>6. Paged(r)'
    <3>1. ASSUME NEW s, NEW d, IsCopy(r, s, d)'
          PROVE  s \in 1..seq'[r] /\ Selects(d, sent'[r]) /\ Before(d, tail'[r])
      <4>1. s \in 1..seq[r] + 1 /\ Selects(d, x \o y)
        BY <1>6, <1>8, <2>3, <2>4, <3>1
      <4>2. Before(d, <<>>)
        BY <2>4 DEF Before
      <4> QED
        BY <1>4, <1>10, <4>1, <4>2
    <3> QED
      BY <3>1 DEF Paged
  <2>7. PagesApart(r)'
    <3>1. ASSUME NEW s, NEW d, NEW u, NEW e, IsCopy(r, s, d)', IsCopy(r, u, e)', s < u
          PROVE  Before(d, e)
      <4>1. CASE IsCopy(r, s, d) /\ IsCopy(r, u, e)
        BY <3>1, <4>1 DEF Placed, PagesApart
      <4>2. CASE IsCopy(r, s, d) /\ e = buf
        BY <1>8, <4>2
      <4>3. CASE s = seq[r] + 1
        <5>1. u \in 1..seq[r] + 1
          BY <1>8, <2>3, <2>4, <3>1
        <5> QED
          BY <2>4, <3>1, <4>3, <5>1
      <4> QED
        BY <2>3, <3>1, <4>1, <4>2, <4>3
    <3> QED
      BY <3>1 DEF PagesApart
  <2> QED
    BY <1>3, <1>4, <2>5, <2>6, <2>7 DEF Placed
<1>11. CASE Ignores(r)
  BY <1>0, <1>1, <1>9, <1>11 DEF Write
<1>12. CASE ~Ignores(r) /\ ~PageFull(buf)
  <2>1. tail' = [tail EXCEPT ![r] = buf] /\ UNCHANGED <<seq, queue>>
    BY <1>1, <1>12 DEF Write
  <2> QED
    BY <1>0, <1>9, <2>1
<1>13. CASE ~Ignores(r) /\ PageFull(buf)
  <2>1. submit(r, buf) /\ tail' = [tail EXCEPT ![r] = <<>>]
    BY <1>1, <1>13 DEF Write
  <2> QED
    BY <1>0, <1>10, <2>1 DEF submit
<1> QED
  BY <1>11, <1>12, <1>13

LEMMA CopyPlaced ==
    ASSUME TypeOK, Placement, NEW q \in Requests, CopyStep(q)
    PROVE  Placement'
<1> SUFFICES ASSUME NEW r \in Requests PROVE Placed(r)'
  BY DEF Placement
<1>0. Placed(r) /\ tail \in [Requests -> Seq(Piece)] /\ DOMAIN got = Requests
  BY DEF Placement, TypeOK
<1>1. ASSUME NEW c \in Chunks, Write(q, c) PROVE Placed(r)'
  <2>1. CASE r = q
    BY <1>0, <1>1, <2>1, WritePlaced
  <2>2. CASE r # q
    <3>1. NothingNew(r) /\ Same(r) /\ pages'[r] = pages[r] /\ wire' = wire
      BY <1>1, <2>2, WriteOthers DEF Write, storeVars
    <3> QED
      BY <1>0, <3>1, PlacedMoves DEF Same, IsCopy
  <2> QED
    BY <2>1, <2>2
<1>2. CASE NewCollector(q) \/ CloseBody(q) \/ WriteReturn(q)
  <2>1. /\ UNCHANGED <<pages, wire, seq, queue, wpc, job, sent>>
        /\ tail'[r] \in {tail[r], <<>>} /\ got'[r] \in {got[r], NoPages}
    BY <1>0, <1>2 DEF NewCollector, CloseBody, WriteReturn, storeVars, poolVars
  <2>2. NothingNew(r)
    BY <2>1, PoolNothingNew
  <2>3. \A s \in DOMAIN got'[r] : IsCopy(r, s, got'[r][s])
    BY <2>1, NoPagesType DEF IsCopy
  <2> QED
    BY <1>0, <2>1, <2>2, <2>3, PlacedMoves DEF IsCopy
<1> QED
  BY <1>1, <1>2 DEF CopyStep

LEMMA FinalizePlaced ==
    ASSUME TypeOK, Placement, NEW q \in Requests,
           FinalizeStep(q) \/ Abort(q) \/ RedisLate(q) \/ Expire(q)
    PROVE  Placement'
<1> SUFFICES ASSUME NEW r \in Requests PROVE Placed(r)'
  BY DEF Placement
<1>0. /\ Placed(r) /\ DOMAIN got = Requests /\ DOMAIN pages = Requests /\ DOMAIN wire = Requests
      /\ pages = [p \in Requests |-> pages[p]] /\ got = [p \in Requests |-> got[p]]
      /\ wire = [p \in Requests |-> wire[p]]
  BY DEF Placement, TypeOK, StoreTypeOK
<1>1. UNCHANGED <<tail, seq, queue, wpc, job, sent>>
  BY DEF FinalizeStep, FinalizeCall, FinalizeWait, FinalizeRead, FinalizeDelete, Abort, RedisLate,
         Expire, collectorVars, poolVars
<1>2. NothingNew(r)
  BY <1>1, PoolNothingNew
<1>3. got'[r] \in {got[r], pages[r]} /\ wire'[r] \subseteq wire[r]
  <2>1. CASE FinalizeStep(q) \/ Abort(q)
    BY <1>0, <2>1 DEF FinalizeStep, FinalizeCall, FinalizeWait, FinalizeRead, FinalizeDelete, Abort,
                      DeletePages, storeVars
  <2>2. CASE RedisLate(q)
    BY <1>0, <2>2 DEF RedisLate, LatePut, collectorVars
  <2>3. CASE Expire(q)
    BY <1>0, <2>3 DEF Expire, ExpireEntry, collectorVars
  <2> QED
    BY <2>1, <2>2, <2>3
<1>4. \A s \in DOMAIN pages'[r] : IsCopy(r, s, pages'[r][s])
  <2>1. CASE pages'[r] \in {pages[r], NoPages}
    BY <2>1, NoPagesType DEF IsCopy
  <2>2. ASSUME NEW p \in wire[r], pages'[r] = HSet(pages[r], p.seq, p.data)
        PROVE  \A s \in DOMAIN pages'[r] : IsCopy(r, s, pages'[r][s])
    BY <2>2 DEF HSet, IsCopy
  <2>3. CASE FinalizeStep(q) \/ Abort(q) \/ Expire(q)
    <3>1. pages'[r] \in {pages[r], NoPages}
      BY <1>0, <2>3 DEF FinalizeStep, FinalizeCall, FinalizeWait, FinalizeRead, FinalizeDelete, Abort,
                        DeletePages, storeVars, Expire, ExpireEntry, DropEntry
    <3> QED
      BY <2>1, <3>1
  <2>4. CASE RedisLate(q)
    <3>1. PICK p \in wire[q] : pages' = [pages EXCEPT ![q] = HSet(@, p.seq, p.data)]
      BY <2>4 DEF RedisLate, LatePut
    <3> QED
      BY <1>0, <2>1, <2>2, <3>1
  <2> QED
    BY <2>3, <2>4
<1>5. \A s \in DOMAIN got'[r] : IsCopy(r, s, got'[r][s])
  BY <1>3 DEF IsCopy
<1>6. \A p \in wire'[r] : IsCopy(r, p.seq, p.data)
  BY <1>3 DEF IsCopy
<1> QED
  BY <1>0, <1>1, <1>2, <1>4, <1>5, <1>6, PlacedMoves

LEMMA WorkerPlaced ==
    ASSUME Accounting, Placement, NEW w \in Workers, WorkerStep(w)
    PROVE  Placement'
<1> SUFFICES ASSUME NEW r \in Requests PROVE Placed(r)'
  BY DEF Placement
<1>0. /\ Placed(r) /\ TypeOK /\ PlacesDistinct /\ DOMAIN pages = Requests /\ DOMAIN wire = Requests
      /\ pages = [p \in Requests |-> pages[p]] /\ wire = [p \in Requests |-> wire[p]]
  BY DEF Placement, Accounting, TypeOK, StoreTypeOK
<1>1. UNCHANGED <<tail, seq, got, sent>>
  BY DEF WorkerStep, WorkerTake, WorkerPut, WorkerDone, collectorVars
<1>2. CASE WorkerTake(w)
  <2>1. NothingNew(r)
    <3>1. /\ Outstanding(r)' = Outstanding(r) /\ Head(queue) = queue[1] /\ 1 \in DOMAIN queue
          /\ \A i \in DOMAIN queue' : i + 1 \in DOMAIN queue /\ queue'[i] = queue[i + 1]
          /\ job'[w] = Head(queue)
          /\ \A v \in Workers : v # w => job'[v] = job[v] /\ wpc'[v] = wpc[v]
      BY <1>0, <1>2, Take
    <3> QED
      BY <3>1 DEF NothingNew, Busy
  <2>2. UNCHANGED <<pages, wire>>
    BY <1>2 DEF WorkerTake, storeVars
  <2> QED
    BY <1>0, <1>1, <2>1, <2>2, PlacedMoves DEF IsCopy
<1>3. CASE WorkerDone(w)
  <2>1. UNCHANGED <<pages, wire, queue>>
    BY <1>3 DEF WorkerDone, storeVars
  <2>2. NothingNew(r)
    <3>1. /\ Outstanding(r)' \subseteq Outstanding(r) /\ Busy(w) /\ ~Busy(w)'
          /\ \A v \in Workers : v # w => job'[v] = job[v] /\ wpc'[v] = wpc[v]
      BY <1>0, <1>3, Done
    <3> QED
      BY <2>1, <3>1 DEF NothingNew, Busy
  <2> QED
    BY <1>0, <1>1, <2>1, <2>2, PlacedMoves DEF IsCopy
<1>4. CASE WorkerPut(w)
  <2>1. /\ UNCHANGED <<queue, job>> /\ Busy(w) /\ job[w].req \in Requests
        /\ \A v \in Workers : Busy(v)' <=> Busy(v)
    BY <1>0, <1>4 DEF WorkerPut, TypeOK, Busy, Job
  <2>2. NothingNew(r)
    <3>1. Outstanding(r)' = Outstanding(r)
      BY <2>1 DEF Outstanding, Queued, Held, Busy
    <3> QED
      BY <2>1, <3>1 DEF NothingNew
  <2>3. job[w].req = r => IsCopy(r, job[w].seq, job[w].data)
    BY <2>1 DEF IsCopy, InPool
  <2>4. \/ pages'[r] = pages[r]
        \/ job[w].req = r /\ pages'[r] = HSet(pages[r], job[w].seq, job[w].data)
    BY <1>0, <1>4, <2>1 DEF WorkerPut, PutPage, PutPageError, storeVars
  <2>5. \/ wire'[r] = wire[r]
        \/ job[w].req = r /\ wire'[r] = wire[r] \cup {[seq |-> job[w].seq, data |-> job[w].data]}
    BY <1>0, <1>4, <2>1 DEF WorkerPut, PutPage, PutPageError, storeVars
  <2>6. \A s \in DOMAIN pages'[r] : IsCopy(r, s, pages'[r][s])
    <3>1. CASE pages'[r] = pages[r]
      BY <3>1 DEF IsCopy
    <3>2. CASE job[w].req = r /\ pages'[r] = HSet(pages[r], job[w].seq, job[w].data)
      <4>1. ASSUME NEW s \in DOMAIN pages'[r] PROVE IsCopy(r, s, pages'[r][s])
        <5>1. CASE s = job[w].seq
          BY <2>3, <3>2, <4>1, <5>1 DEF HSet
        <5>2. CASE s # job[w].seq
          BY <3>2, <4>1, <5>2 DEF HSet, IsCopy
        <5> QED
          BY <5>1, <5>2
      <4> QED
        BY <4>1
    <3> QED
      BY <2>4, <3>1, <3>2
  <2>7. \A p \in wire'[r] : IsCopy(r, p.seq, p.data)
    BY <2>3, <2>5 DEF IsCopy
  <2> QED
    BY <1>0, <1>1, <2>2, <2>6, <2>7, PlacedMoves DEF IsCopy
<1> QED
  BY <1>2, <1>3, <1>4 DEF WorkerStep

LEMMA NextPlaced ==
    ASSUME Accounting, Placement, [CollectorNext]_vars
    PROVE  Placement'
<1>0. TypeOK
  BY DEF Accounting
<1>1. CASE UNCHANGED vars
  <2>1. UNCHANGED <<tail, seq, got, sent, pages, wire, queue, wpc, job>>
    BY <1>1 DEF vars, storeVars, collectorVars, poolVars
  <2>2. ASSUME NEW r \in Requests PROVE Placed(r)'
    BY <2>1, PoolNothingNew, PlacedMoves DEF Placement, IsCopy
  <2> QED
    BY <2>2 DEF Placement
<1> QED
  BY <1>0, <1>1, CopyPlaced, FinalizePlaced, WorkerPlaced DEF CollectorNext, Rest

LEMMA InitPlaced == CollectorInit => Placement
<1> SUFFICES ASSUME CollectorInit, NEW r \in Requests PROVE Placed(r)
  BY DEF Placement
<1>1. /\ sent[r] = <<>> /\ tail[r] = <<>> /\ queue = <<>> /\ wire[r] = {} /\ pages[r] = NoPages
      /\ got[r] = NoPages /\ \A w \in Workers : ~Busy(w)
  BY DEF CollectorInit, StoreInit, Busy
<1>2. DOMAIN <<>> = {}
  OBVIOUS
<1>3. \A s, d : ~IsCopy(r, s, d)
  BY <1>1, <1>2, NoPagesType DEF IsCopy, InPool
<1> QED
  BY <1>1, <1>2, <1>3 DEF Placed, Paged, PagesApart, Selects

LEMMA PlacedPayload == TypeOK /\ Placement => PayloadInOrder
<1> SUFFICES ASSUME TypeOK, Placement, NEW r \in Requests
             PROVE  Selects(Payload(r), sent[r])
  BY DEF PayloadInOrder
<1>1. Placed(r) /\ seq[r] \in Nat /\ tail[r] \in Seq(Piece) /\ IsPageMap(got[r])
  BY DEF Placement, TypeOK
<1>2. PICK h, a : h = got[r] /\ a = Assemble(h)
  OBVIOUS
<1>3. ASSUME NEW s \in DOMAIN h
      PROVE  /\ IsCopy(r, s, h[s]) /\ s \in 1..seq[r] /\ h[s] \in Seq(Piece)
             /\ Selects(h[s], sent[r]) /\ Before(h[s], tail[r])
  <2>1. IsCopy(r, s, h[s])
    BY <1>2 DEF IsCopy
  <2> QED
    BY <1>1, <1>2, <2>1 DEF Placed, Paged, IsPageMap
<1>4. \A s, t \in DOMAIN h : s < t => Before(h[s], h[t])
  BY <1>1, <1>3 DEF Placed, PagesApart
<1>5. DOMAIN h \in SUBSET (1..seq[r])
  BY <1>3
<1>6. a \in Seq(Piece) /\ Selects(a, sent[r]) /\ MadeOf(a, h)
  BY <1>1, <1>2, <1>3, <1>4, <1>5, AssembleSelects
<1>7. Before(a, tail[r])
  BY <1>3, <1>6 DEF Before, MadeOf
<1>8. Selects(a \o tail[r], sent[r])
  BY <1>1, <1>6, <1>7, ConcatSelects DEF Placed
<1> QED
  BY <1>2, <1>8 DEF Payload

(***************************************************************************)
(* What Finalize parses is made of pieces of the response in their order,  *)
(* for every page size, number of workers and requests and whatever Redis  *)
(* does: a failed, late or half-applied write, a failed read or delete and *)
(* an expiry can take pages away, never repeat or reorder them.            *)
(***************************************************************************)
THEOREM NothingMadeUp == CollectorSpec => []PayloadInOrder
<1>1. CollectorInit => Accounting /\ Placement
  BY InitAccounting, InitPlaced
<1>2. Accounting /\ Placement /\ [CollectorNext]_vars => (Accounting /\ Placement)'
  BY NextAccounting, NextPlaced
<1>3. Accounting /\ Placement => PayloadInOrder
  BY PlacedPayload DEF Accounting
<1> QED
  BY <1>1, <1>2, <1>3, PTL DEF CollectorSpec
=============================================================================

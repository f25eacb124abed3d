------------------------------ MODULE Collector ------------------------------
(***************************************************************************)
(* internal/collector: the streaming response collector.  One Collector    *)
(* per request buffers the raw response in a RAM tail, hands full pages to *)
(* the bounded queue of the shared Pool, whose fixed workers write them to *)
(* Redis; Finalize waits for the outstanding flushes, reads the pages      *)
(* back, appends the tail and extracts the assistant message.              *)
(*                                                                         *)
(* Threads: per request the copy goroutine (Write, and Finalize when it    *)
(* runs inside Write's onDone callback) and, after the body is closed, a   *)
(* detached goroutine that calls Finalize; plus the pool's workers.  The   *)
(* caller follows the single-owner contract of the Collector: Write only   *)
(* while the body is open, Finalize inside onDone or after the close.      *)
(***************************************************************************)
EXTENDS TempPageStore

CONSTANTS Workers,          \* the pool's workers
          PageSize,         \* RAM page size, in pieces
          MaxPendingPages   \* capacity of the page queue

ASSUME WorkersAssumption == Workers # {}
ASSUME PageSizeAssumption == PageSize \in Nat \ {0}
ASSUME MaxPendingPagesAssumption == MaxPendingPages \in Nat \ {0}

VARIABLES
    owner,      \* request -> who may use the collector
    tail,       \* request -> RAM page buffer
    seq,        \* request -> pages handed to the queue so far
    inflight,   \* request -> counter of the WaitGroup
    failed,     \* request -> the cache failed
    sawDone,    \* request -> watchDone has seen the sentinel
    sealed,     \* request -> finalized early on [DONE]
    fin,        \* request -> where the current Finalize call is
    got,        \* request -> pages that Finalize read (its local variable)
    queue,      \* the pool's channel of page jobs
    wpc,        \* worker -> where it is in its loop
    job,        \* worker -> the page job it holds
    sent        \* request -> ghost: the pieces upstream has sent

collectorVars == <<owner, tail, seq, inflight, failed, sawDone, sealed, fin, got>>
poolVars == <<queue, wpc, job>>
vars == <<storeVars, collectorVars, poolVars, sent>>

(***************************************************************************)
(* owner: "none" before NewCollector, "writing" while the copy goroutine   *)
(* reads the body, "onDone" while it is inside the onDone callback of      *)
(* Write, "gone" after the body is closed.                                 *)
(* fin: "none", then the steps of one call of Finalize, then its result;   *)
(* "early" once a call inside onDone has succeeded (earlyFinalized of the  *)
(* handler): its caller then asks for no other.                            *)
(***************************************************************************)
Owners == {"none", "writing", "onDone", "gone"}
FinErrors == {"errCache", "errRead", "errComplex", "errNoMessage", "errIncomplete"}
FinResults == {"ok"} \cup FinErrors
FinSteps == {"wait", "read", "delete"}
FinStates == {"none", "early", "aborted"} \cup FinSteps \cup FinResults

Job == [req : Requests, seq : Nat \ {0}, data : Seq(Piece)]
NoJob == [req |-> "none", seq |-> 0, data |-> <<>>]

(***************************************************************************)
(* Every variable keeps its type, and a worker holds a job unless it is    *)
(* idle.                                                                   *)
(***************************************************************************)
TypeOK ==
    /\ StoreTypeOK
    /\ owner \in [Requests -> Owners]
    /\ tail \in [Requests -> Seq(Piece)]
    /\ seq \in [Requests -> Nat]
    /\ inflight \in [Requests -> Int]
    /\ failed \in [Requests -> BOOLEAN]
    /\ sawDone \in [Requests -> BOOLEAN]
    /\ sealed \in [Requests -> BOOLEAN]
    /\ fin \in [Requests -> FinStates]
    /\ DOMAIN got = Requests
    /\ got = [r \in Requests |-> got[r]]
    /\ \A r \in Requests : IsPageMap(got[r])
    /\ queue \in Seq(Job)
    /\ wpc \in [Workers -> {"idle", "put", "done"}]
    /\ job \in [Workers -> Job \cup {NoJob}]
    /\ \A w \in Workers : wpc[w] # "idle" => job[w] \in Job
    /\ sent \in [Requests -> Seq(Piece)]

CollectorInit ==
    /\ StoreInit
    /\ owner = [r \in Requests |-> "none"]
    /\ tail = [r \in Requests |-> <<>>]
    /\ seq = [r \in Requests |-> 0]
    /\ inflight = [r \in Requests |-> 0]
    /\ failed = [r \in Requests |-> FALSE]
    /\ sawDone = [r \in Requests |-> FALSE]
    /\ sealed = [r \in Requests |-> FALSE]
    /\ fin = [r \in Requests |-> "none"]
    /\ got = [r \in Requests |-> NoPages]
    /\ queue = <<>>
    /\ wpc = [w \in Workers |-> "idle"]
    /\ job = [w \in Workers |-> NoJob]
    /\ sent = [r \in Requests |-> <<>>]

-----------------------------------------------------------------------------
(* The copy goroutine.                                                     *)

NewCollector(r) ==
    /\ owner[r] = "none"
    /\ owner' = [owner EXCEPT ![r] = "writing"]
    /\ UNCHANGED <<storeVars, tail, seq, inflight, failed, sawDone, sealed,
                   fin, got, poolVars, sent>>

\* Mutant: a page is flushed only when it exceeds its size.
PageOverfull(s) == Len(s) > PageSize

PageFull(s) == Len(s) >= PageSize

\* Write returns at once: finalized early, or resource protection.
Ignores(r) == sealed[r] \/ failed[r]

\* Mutant: inflight.Done() is forgotten when the queue is full.
submitKeepsCount(r, page) ==
    /\ seq' = [seq EXCEPT ![r] = @ + 1]
    /\ inflight' = [inflight EXCEPT ![r] = @ + 1]
    /\ \/ /\ Len(queue) < MaxPendingPages
          /\ queue' = Append(queue, [req |-> r, seq |-> seq[r] + 1, data |-> page])
          /\ UNCHANGED failed
       \/ /\ Len(queue) = MaxPendingPages
          /\ failed' = [failed EXCEPT ![r] = TRUE]
          /\ UNCHANGED queue

(***************************************************************************)
(* submit: number the page, count it, and enqueue it without blocking; on  *)
(* a full queue the count is taken back and the cache marked failed.       *)
(***************************************************************************)
submit(r, page) ==
    /\ seq' = [seq EXCEPT ![r] = @ + 1]
    /\ \/ /\ Len(queue) < MaxPendingPages
          /\ queue' = Append(queue, [req |-> r, seq |-> seq[r] + 1, data |-> page])
          /\ inflight' = [inflight EXCEPT ![r] = @ + 1]
          /\ UNCHANGED failed
       \/ /\ Len(queue) = MaxPendingPages
          /\ failed' = [failed EXCEPT ![r] = TRUE]
          /\ UNCHANGED <<queue, inflight>>

\* watchDone over the lines that end in this chunk: on a hit the collector
\* is sealed and the onDone callback entered.
watchDone(r, c) ==
    IF ~sawDone[r] /\ HasDoneLine(Pieces(c, 0))
      THEN /\ sawDone' = [sawDone EXCEPT ![r] = TRUE]
           /\ sealed' = [sealed EXCEPT ![r] = TRUE]
           /\ owner' = [owner EXCEPT ![r] = "onDone"]
      ELSE UNCHANGED <<sawDone, sealed, owner>>

\* One Write call, up to the onDone callback when there is one.
Write(r, c) ==
    LET p == Pieces(c, Len(sent[r]))
        buf == tail[r] \o p
    IN
    /\ owner[r] = "writing"
    /\ Len(sent[r]) + Len(c) <= MaxUnits
    /\ sent' = [sent EXCEPT ![r] = @ \o p]
    /\ \/ /\ Ignores(r)
          /\ UNCHANGED <<tail, seq, inflight, failed, sawDone, sealed, owner, queue>>
       \/ /\ ~Ignores(r)
          /\ \/ /\ PageFull(buf)
                /\ submit(r, buf)
                /\ tail' = [tail EXCEPT ![r] = <<>>]
             \/ /\ ~PageFull(buf)
                /\ tail' = [tail EXCEPT ![r] = buf]
                /\ UNCHANGED <<seq, inflight, failed, queue>>
          /\ watchDone(r, c)
    /\ UNCHANGED <<storeVars, fin, got, wpc, job>>

\* The rest of Write after onDone returned: the tail is dropped, whatever
\* the callback's Finalize came to.
WriteReturn(r) ==
    /\ owner[r] = "onDone"
    /\ fin[r] \in FinResults
    /\ owner' = [owner EXCEPT ![r] = "writing"]
    /\ fin' = [fin EXCEPT ![r] = IF @ = "ok" THEN "early" ELSE "none"]
    /\ got' = [got EXCEPT ![r] = NoPages]
    /\ tail' = [tail EXCEPT ![r] = <<>>]
    /\ UNCHANGED <<storeVars, seq, inflight, failed, sawDone, sealed, poolVars, sent>>

\* The body ends (EOF) or is closed: no further Write.
CloseBody(r) ==
    /\ owner[r] = "writing"
    /\ owner' = [owner EXCEPT ![r] = "gone"]
    /\ UNCHANGED <<storeVars, tail, seq, inflight, failed, sawDone, sealed,
                   fin, got, poolVars, sent>>

-----------------------------------------------------------------------------
(* Finalize, on the copy goroutine (onDone) or detached (gone).            *)

FinalizeCall(r) ==
    /\ owner[r] \in {"onDone", "gone"}
    /\ fin[r] = "none"
    /\ fin' = [fin EXCEPT ![r] = IF failed[r] THEN "errCache" ELSE "wait"]
    /\ UNCHANGED <<storeVars, owner, tail, seq, inflight, failed, sawDone,
                   sealed, got, poolVars, sent>>

\* Mutant: Finalize reads without waiting for the flushes.
FinalizeSkipsWait(r) ==
    /\ fin[r] = "wait"
    /\ fin' = [fin EXCEPT ![r] = "read"]
    /\ UNCHANGED <<storeVars, owner, tail, seq, inflight, failed, sawDone,
                   sealed, got, poolVars, sent>>

\* inflight.Wait
FinalizeWait(r) ==
    /\ fin[r] = "wait"
    /\ inflight[r] = 0
    /\ fin' = [fin EXCEPT ![r] = "read"]
    /\ UNCHANGED <<storeVars, owner, tail, seq, inflight, failed, sawDone,
                   sealed, got, poolVars, sent>>

\* GetPages
FinalizeRead(r) ==
    /\ fin[r] = "read"
    /\ \/ /\ got' = [got EXCEPT ![r] = pages[r]]
          /\ fin' = [fin EXCEPT ![r] = "delete"]
       \/ /\ "get" \in Faults
          /\ fin' = [fin EXCEPT ![r] = "errRead"]
          /\ UNCHANGED got
    /\ UNCHANGED <<storeVars, owner, tail, seq, inflight, failed, sawDone,
                   sealed, poolVars, sent>>

\* Mutant: pages in another order, as a range over the Go map yields them.
AssembleUnsorted(h) ==
    LET n == Cardinality(DOMAIN h)
        order == CHOOSE f \in [1..n -> DOMAIN h] : \A i, k \in 1..n : i < k => f[i] > f[k]
    IN  FlattenSeq([i \in 1..n |-> h[order[i]]])

\* The pages in the order of their numbers, one after the other.
Assemble(h) ==
    LET n == Cardinality(DOMAIN h)
        order == CHOOSE f \in [1..n -> DOMAIN h] : \A i, k \in 1..n : i < k => f[i] < f[k]
    IN  FlattenSeq([i \in 1..n |-> h[order[i]]])

\* Mutant: the tail is put before the pages.
PayloadTailFirst(r) == tail[r] \o Assemble(got[r])

Payload(r) == Assemble(got[r]) \o tail[r]

\* DeletePages (best effort), then the parse that decides the result.
FinalizeDelete(r) ==
    /\ fin[r] = "delete"
    /\ DeletePages(r)
    /\ fin' = [fin EXCEPT ![r] = AssistantFromSSE(Payload(r)).result]
    /\ UNCHANGED <<owner, tail, seq, inflight, failed, sawDone, sealed, got,
                   poolVars, sent>>

\* Abort: public and tested, although the handler no longer calls it.
Abort(r) ==
    /\ owner[r] = "gone"
    /\ fin[r] = "none"
    /\ failed' = [failed EXCEPT ![r] = TRUE]
    /\ DeletePages(r)
    /\ fin' = [fin EXCEPT ![r] = "aborted"]
    /\ UNCHANGED <<owner, tail, seq, inflight, sawDone, sealed, got, poolVars, sent>>

-----------------------------------------------------------------------------
(* The pool's workers.                                                     *)

\* Mutant: the worker starts its flush without its job.
WorkerTakeForgets(w) ==
    /\ wpc[w] = "idle"
    /\ queue # <<>>
    /\ queue' = Tail(queue)
    /\ wpc' = [wpc EXCEPT ![w] = "put"]
    /\ UNCHANGED <<storeVars, collectorVars, job, sent>>

WorkerTake(w) ==
    /\ wpc[w] = "idle"
    /\ queue # <<>>
    /\ job' = [job EXCEPT ![w] = Head(queue)]
    /\ queue' = Tail(queue)
    /\ wpc' = [wpc EXCEPT ![w] = "put"]
    /\ UNCHANGED <<storeVars, collectorVars, sent>>

\* PutPage and, on an error, owner.fail().
WorkerPut(w) ==
    LET j == job[w] IN
    /\ wpc[w] = "put"
    /\ \/ /\ PutPage(j.req, j.seq, j.data)
          /\ UNCHANGED failed
       \/ /\ PutPageError(j.req, j.seq, j.data)
          /\ failed' = [failed EXCEPT ![j.req] = TRUE]
    /\ wpc' = [wpc EXCEPT ![w] = "done"]
    /\ UNCHANGED <<owner, tail, seq, inflight, sawDone, sealed, fin, got,
                   queue, job, sent>>

\* Mutant: Done is not reached after a failed flush.
WorkerDoneIfWritten(w) ==
    /\ wpc[w] = "done"
    /\ inflight' = [inflight EXCEPT ![job[w].req] = IF failed[job[w].req] THEN @ ELSE @ - 1]
    /\ wpc' = [wpc EXCEPT ![w] = "idle"]
    /\ job' = [job EXCEPT ![w] = NoJob]
    /\ UNCHANGED <<storeVars, owner, tail, seq, failed, sawDone, sealed, fin,
                   got, queue, sent>>

\* owner.inflight.Done()
WorkerDone(w) ==
    /\ wpc[w] = "done"
    /\ inflight' = [inflight EXCEPT ![job[w].req] = @ - 1]
    /\ wpc' = [wpc EXCEPT ![w] = "idle"]
    /\ job' = [job EXCEPT ![w] = NoJob]
    /\ UNCHANGED <<storeVars, owner, tail, seq, failed, sawDone, sealed, fin,
                   got, queue, sent>>

-----------------------------------------------------------------------------
(* Redis on its own account, and time.                                     *)

\* No call of this request is under way or to come.
Finished(r) == owner[r] = "gone" /\ fin[r] \in FinResults \cup {"early", "aborted"}

RedisLate(r) == LatePut(r) /\ UNCHANGED <<collectorVars, poolVars, sent>>

\* The TTL (30 minutes by default) outlives a request unless "expire" says
\* otherwise; it always elapses afterwards.
Expire(r) ==
    /\ Finished(r) \/ "expire" \in Faults
    /\ ExpireEntry(r)
    /\ UNCHANGED <<collectorVars, poolVars, sent>>

\* Everything has come to rest.
Quiet ==
    /\ \A r \in Requests : Finished(r) /\ wire[r] = {} /\ (pages[r] = NoPages \/ ~ttl[r])
    /\ queue = <<>> /\ \A w \in Workers : wpc[w] = "idle"

Rest == Quiet /\ UNCHANGED vars

-----------------------------------------------------------------------------
CopyStep(r) ==
    \/ NewCollector(r)
    \/ \E c \in Chunks : Write(r, c)
    \/ WriteReturn(r)
    \/ CloseBody(r)

FinalizeStep(r) ==
    FinalizeCall(r) \/ FinalizeWait(r) \/ FinalizeRead(r) \/ FinalizeDelete(r)

WorkerStep(w) == WorkerTake(w) \/ WorkerPut(w) \/ WorkerDone(w)

CollectorNext ==
    \/ \E r \in Requests : CopyStep(r) \/ FinalizeStep(r) \/ Abort(r)
    \/ \E w \in Workers : WorkerStep(w)
    \/ \E r \in Requests : RedisLate(r) \/ Expire(r)
    \/ Rest

CollectorSpec == CollectorInit /\ [][CollectorNext]_vars

-----------------------------------------------------------------------------
(* What the collector promises.                                            *)

\* The page numbers of r that were enqueued and are not yet accounted for:
\* in the queue, or in the hands of a worker.
Queued(r) == {queue[i].seq : i \in {k \in DOMAIN queue : queue[k].req = r}}

Held(r) == {job[w].seq : w \in {v \in Workers : wpc[v] # "idle" /\ job[v].req = r}}

Outstanding(r) == Queued(r) \cup Held(r)

(***************************************************************************)
(* The WaitGroup counts exactly the pages of the request that are in the   *)
(* queue or in a worker's hands, whatever mixture of full queues, failed   *)
(* and successful flushes led there: it can neither go negative (a panic   *)
(* in sync.WaitGroup) nor stay positive (a Finalize that never returns).   *)
(***************************************************************************)
InflightCounts ==
    \A r \in Requests : inflight[r] = Cardinality(Outstanding(r))

(***************************************************************************)
(* The last-page race of DEVELOP section 20: once Finalize has passed its  *)
(* Wait, no worker can still write a page of that request, so GetPages and *)
(* DeletePages see the final set of pages.                                 *)
(***************************************************************************)
NoFlushAfterRead ==
    \A r \in Requests :
        fin[r] \in {"read", "delete", "ok", "early"} => Outstanding(r) = {}

\* Nothing has gone wrong with the pages of r and none were deleted yet.
Intact(r) ==
    /\ ~failed[r] /\ ~expired[r]
    /\ owner[r] = "onDone" \/ ~sealed[r]
    /\ fin[r] \in {"none"} \cup FinSteps

(***************************************************************************)
(* Page conservation: as long as no flush failed and the entry did not     *)
(* expire, every page handed to the queue is in exactly one place - queue, *)
(* worker or Redis, a worker's own page being in Redis once it is written. *)
(***************************************************************************)
PageConservation ==
    \A r \in Requests : Intact(r) =>
        /\ DOMAIN pages[r] \cup Outstanding(r) = 1..seq[r]
        /\ DOMAIN pages[r] \cap Queued(r) = {}
        /\ \A w \in Workers : wpc[w] # "idle" /\ job[w].req = r =>
              ((wpc[w] = "put") <=> (job[w].seq \notin DOMAIN pages[r]))

(***************************************************************************)
(* What Finalize assembles is every page: with no failed flush and no      *)
(* expiry, the first Finalize of a request reads pages 1 to seq, although  *)
(* the code never compares the number of pages read with c.seq.            *)
(***************************************************************************)
ReadsEveryPage ==
    \A r \in Requests :
        /\ fin[r] \in {"delete", "ok"}
        /\ ~failed[r] /\ ~expired[r]
        /\ owner[r] = "onDone" \/ ~sealed[r]
        => DOMAIN got[r] = 1..seq[r]

(***************************************************************************)
(* If no flush failed and no page expired, a Finalize that succeeds        *)
(* returns the assistant message of the whole response as upstream sent    *)
(* it: no page is missing, repeated or out of order, and neither the bytes *)
(* after [DONE] nor a failed earlier Finalize change it.                   *)
(***************************************************************************)
WholeUnlessLost ==
    \A r \in Requests : fin[r] = "ok" /\ ~failed[r] /\ ~expired[r] =>
        AssistantFromSSE(Payload(r)) = AssistantFromSSE(sent[r])

(***************************************************************************)
(* RAM is bounded whatever Redis does: a tail is always shorter than a     *)
(* page, a page exceeds PageSize by less than one chunk, and at most       *)
(* MaxPendingPages pages wait for the workers.                             *)
(***************************************************************************)
RAMBounded ==
    /\ \A r \in Requests : Len(tail[r]) < PageSize
    /\ Len(queue) <= MaxPendingPages
    /\ \A i \in DOMAIN queue : Len(queue[i].data) < PageSize + MaxChunk

\* s is made of pieces of x in their order.
Selects(s, x) ==
    /\ \A i \in DOMAIN s : s[i].pos \in DOMAIN x /\ s[i] = x[s[i].pos]
    /\ \A i, k \in DOMAIN s : i < k => s[i].pos < s[k].pos

(***************************************************************************)
(* Whatever Redis loses, nothing is made up: with failed and late flushes, *)
(* an entry that expired between two pages or was deleted by a Finalize    *)
(* that is now repeated, what Finalize parses may lack pieces of the       *)
(* response but holds none twice and none out of its place.                *)
(***************************************************************************)
PayloadInOrder ==
    \A r \in Requests : fin[r] \in {"delete", "ok"} => Selects(Payload(r), sent[r])

-----------------------------------------------------------------------------
(* What comments and documents say of the collector and the code does not  *)
(* keep: each of these is refuted by a run of its own.                     *)

(***************************************************************************)
(* "It returns an error (and the caller must not write any mapping) when   *)
(* the cache failed" (Finalize), and DEVELOP section 23: no mapping is     *)
(* built from a partial response.  Whatever Redis does, a Finalize that    *)
(* succeeds returns the assistant message of the whole response.           *)
(***************************************************************************)
NeverPartial ==
    \A r \in Requests : fin[r] = "ok" =>
        AssistantFromSSE(Payload(r)) = AssistantFromSSE(sent[r])

(***************************************************************************)
(* "ErrStreamIncomplete means the stream ended without a [DONE] sentinel": *)
(* with an intact page cache a close-time Finalize reports it for no       *)
(* stream that upstream ended properly.                                    *)
(***************************************************************************)
IncompleteMeansNoDone ==
    \A r \in Requests :
        owner[r] = "gone" /\ fin[r] = "errIncomplete" /\ ~failed[r] /\ ~expired[r]
            => ~HasSentinel(sent[r])

(***************************************************************************)
(* "Every write refreshes the TTL of the whole entry" (TempPageStore): an  *)
(* entry in Redis always has an expiry.                                    *)
(***************************************************************************)
EntryHasTTL ==
    \A r \in Requests : pages[r] # NoPages => ttl[r]
=============================================================================

# A TLA+ model of OPGate

OPGate is a gateway in front of an OpenAI-compatible API. It gives every chat
request a session ID: a request that continues a known conversation gets the
session the conversation had before. To recognise it, the gateway collects each
answer as it passes through, builds the conversation state *messages + answer*,
and stores `hash(state) -> session` in Redis; the next request is looked up by
the hash of all its messages but the last. An answer that streams is buffered in
small pages that a worker pool moves to Redis. Everything hard is in that path:
an answer ends in several ways, pages are written by several workers to a store
that may fail, and nothing but a complete answer may be mapped.

## Inventory

| component | state | operations | used by |
|---|---|---|---|
| collector (`internal/collector`) | per request: RAM tail, page number, WaitGroup, flags `failed`, `sawDone`, `sealed`; shared: page queue, workers | `NewCollector`, `Write` (`submit`, `watchDone`), `Finalize`, `Abort`; `worker`, `Drain`, `Stop` | proxy handler, main |
| temporary pages (`internal/store`) | one Redis hash per request with one TTL | `PutPage`, `GetPages`, `DeletePages` | workers, `Finalize`, `Abort` |
| session mapping (`internal/store`) | Redis keys client + state hash -> session | `GetSession`, `PutSession` | resolver, `putMapping` |
| resolver (`internal/session`) | none | `Resolve` | `prepare` |
| proxy handler (`internal/proxy`) | `reqState` per request, `finalizeWG` | `ServeHTTP`, `prepare`, `modifyResponse`, the two body wrappers, `finish`, four finalizers, `putMapping`, `WaitFinalize` | net/http, ReverseProxy |
| SSE scanner, assistant reconstruction (`internal/sse`, `internal/openai`) | accumulator | `Scan`, `mergeDelta`, `canonical`, `AssistantFromSSE`, `AssistantFromMessage`, request parsing | `Finalize`, `finalizeJSON`, `prepare` |
| canonical JSON and hashes (`internal/canon`) | none | `Canonicalize`, `HistoryHash`, `FullState` | `prepare`, `putMapping`, resolver |
| shutdown (`cmd/ocgate`) | none of its own | `srv.Shutdown`, `Drain`, `WaitFinalize`, `Stop` | signal |
| configuration (`internal/config`) | `Config`, read once | `UnmarshalYAML`, `Load`, `Validate` | main, `readBody` |
| metrics, smoke test | - | - | - |

Threads: for each request the *copy goroutine* of net/http (it resolves the
session, reads the body through `streamBody` or `jsonBody`, writes to the client,
closes), at most one *detached finalizer* started by `finish`, and the pool's
*workers*. They share the collector's atomics and WaitGroup, the page queue and
Redis. The collector's buffer has no lock: it relies on a single owner.

What makes each part correct:

- collector: no page is lost, repeated or reordered; `Finalize` reads only when
  no flush is outstanding; it always returns; RAM is bounded; a message built
  from part of a response is never returned;
- temporary pages: they vanish in the end;
- session mapping: a key is a complete state of a conversation of that client;
- handler: each response is counted and finalized once however it ends; the
  mapping is there before the client sees `[DONE]`; Redis holds no chunk back for
  ever;
- scanners: the two of them agree on what a stream says however it is cut into
  Reads;
- reconstruction and canonical JSON: the message put together from a stream, the
  one from a JSON answer and the client's echo of it have the same text, and
  different messages have different ones;
- shutdown: it ends, and within its deadlines it loses nothing;
- configuration: what runs is what the file says, or the file is refused.

The hazards, each with its line and its properties, are in `PROJECT.json`.

## Modules

    ResponseStream     pieces of a response; what watchDone and AssistantFromSSE see in them
      TempPageStore    the page hashes in Redis, with their faults
        Collector      collectors, page queue, workers                   MCCollector
      DoneScanner      watchDone and sse.Scan on bytes                   MCDoneScanner
    SessionStore       the mapping and the resolver
    Affinity           abstract: what the gateway promises its clients
    Gateway            = Collector + SessionStore + the proxy handler    MCGateway
                         (implements Affinity and Collector)
      Shutdown         = Gateway + main from the signal to the exit      MCShutdown
    CanonicalJSON      canonical text of JSON
      AssistantMessage mergeDelta, canonical, AssistantFromMessage       MCAssistantMessage
    Config             reading, validating, the limit on bodies          MCConfig

The proofs build on each other too:

    StreamProofs         numbers, sequences, the recursive operators on responses
      ScannerProofs      DoneScanner: the two scanners on bytes
    CollectorProofs      Collector: pages, counts, memory
      ResponseProofs     (+ StreamProofs)    Collector: what Finalize returns
      GatewayProofs      Gateway: the handler uses the collector properly and counts
                         once; types; sessions stay with their clients
        MappingProofs    (+ ResponseProofs)  Gateway: what is mapped, and when;
                         Gateway implements Affinity
          ShutdownProofs Shutdown: nothing is lost, nothing wrong is left behind
    ConfigProofs         Config

**ResponseStream.** A response is a sequence of pieces, one for each complete
SSE line, of seven kinds that the two recognisers treat differently: `watchDone`
wants a trimmed line equal to `data: [DONE]`, `sse.Scan` and `AssistantFromSSE`
want a line that begins with `data:` whose trimmed rest is `[DONE]`. So `bare`
(`data:[DONE]`, or a last line without its newline) is seen by the second only
and `padded` by the first only. A piece carries its position, so the text
reconstructed from the wrong pieces, or from the right ones in the wrong order,
differs. Pages consist of whole pieces; the code cuts pages at Read boundaries
anywhere in a line, which makes no difference as long as all of them are
concatenated in order.

**TempPageStore.** `pages[r]` is the hash, `ttl[r]` whether it has an expiry.
`PutPageError` covers a call that was not applied, was applied with its reply
lost, was applied up to HSET only, or is still on the way (`wire`) and is applied
later by `LatePut`. The constant `Faults` says which of them may happen. `expired`
is a ghost that records that pages were lost to the TTL. A `DeletePages` that is
applied after its timeout is indistinguishable from an expiry at that moment.

**Collector.** One action per step that another goroutine can observe. `Write`
is atomic up to its callback: the only shared thing it touches besides its own
counter is one non-blocking send; the flag `failed` it read at the start can
change meanwhile, which has the same effect as changing after it. `Finalize` is
five steps (`FinalizeCall`, `-Wait`, `-Read`, `-Delete` with the parse, and the
return), a worker's iteration three (`WorkerTake`, `WorkerPut`, `WorkerDone`).
`WriteReturn` is the end of `Write` after the callback, which drops the tail
whatever `Finalize` came to. `owner` states the contract of the caller. `Abort`
is included although the handler no longer calls it.

**SessionStore.** State hashes are the conversations themselves: SHA-256 and the
canonical form are taken to be injective. `Resolve` returns the set of decisions
the code may take; its fresh UUID is the request's own name, because each request
draws at most one.

**Gateway.** The life of a request from `ServeHTTP` to its last finalizer;
`Collector` is composed by conjunction, so that a `Read` is a `Write` of the
collector, the close of the body ends the copy goroutine's ownership, and the
finalizers drive `Finalize`. `ReverseProxy` is external: it passes each chunk on
before the next Read, stops at EOF or at an error of either side, then closes the
body. Clients start conversations or continue one whose answer they have fully
received. `cnt` holds a request's contributions to the counters
`StreamCompleted`, `StreamAborted`, `FinalizeError`, `FinalizeSuccess` and
`SessionMappingError`; the others are left out. The re-check of `earlyFinalized` in the
detached finalizers repeats the one of `finish` on the same goroutine's writes and
is not a step. A JSON body is a sequence of pieces too; only its being well
formed, its text and its size matter.

**Affinity.** The contract in four actions: a request is granted a session
(brought along, remembered, or new), its conversation reaches a complete state,
that state is remembered for its client, or forgotten. `Promise` in Gateway maps
it: a request has *ended* when what was read from upstream makes a complete
answer, its state is *told* once `putMapping` has been tried, and the memory is the session mapping.
`Lossy` is the gateway's `SessionFaults`: without them a known state is never
answered with a new session.

**Shutdown.** The process: `phase` is the call main is in, `left` the workers
that have returned. The handlers, finalizers and workers are those of Gateway,
running until the exit takes them; Redis goes on. A connection accepted just
before the signal may still bring its request, which `srv.Shutdown` then waits for
(`ReadHeaderTimeout` is below its deadline). With the fault `expire` an entry may
vanish under a running request, as in Collector. `srv.Shutdown`, `Drain` and
`WaitFinalize` each return when what they wait for has happened or when their
deadline elapses, at any moment; the ghost `hurried` records the second, and the
immediate exit when the server fails. A worker whose context is cancelled may
still take a job, because `select` chooses at random.

**DoneScanner.** Bytes are abstracted to symbols no smaller than what the two
scanners tell apart (`data:`, blank, `[DONE]`, text, comment, `\r`, `\n`), and
the stream is handed to `watchDone` in portions that end after any symbol;
`Scans` is `sse.Scan` byte by byte. The module checks the abstraction of
ResponseStream against the bytes; the streams it covers are events of one or two
lines that end with a blank line, the last one perhaps without it. Two `data:`
events without a blank line between them are one event to `sse.Scan` and are not
covered. Of the texts (`Payloads`) it is assumed that they begin like JSON and
that none ends in a complete `data: [DONE]` (`PayloadAssumption`): `watchDone`
drops the beginning of a line longer than its cap (`ScanCap`) and would take a
remainder that is the sentinel for one, which no JSON text can have at its end.
The sentinel itself fits below the cap (`ScanCapAssumption`; the cap is 1 MiB).

**CanonicalJSON, AssistantMessage.** JSON text is its syntax tree, with member
order, duplicates and the spelling of each character; `Canonicalize`,
`CanonicalValue` (through `json.Marshal`, which spells `<` differently) and
`WriteString` are translated on it. Upstream has a message in mind and `Send`s
it event by event: the next fragment of the content and of tool calls in any
interleaving, several in one event, nulls, the legacy `text` field, choices
other than the first, or the whole message at once. Excluded is a name cut into
two equal fragments (`NameFragment` takes the second for a repetition of the
whole). JSON decoding is external; the reasoning fields are decoded by the code
and not used.

**Config.** `Load` reads a file over the defaults: a field is absent, null, an
integer, an integer in another base, a number with a suffix and perhaps half a
unit, or not understood. Integers are six bits wide in the run, so that all
overflows happen; the width is `MaxInt`. A float too large for an integer
becomes `machine`: the smallest integer on amd64, the largest on arm64. The
rounding of float64 above 2^53 is left out. `ReadBody` is `readBody` with
`max+1` in machine arithmetic.

## Runs

| run | what it asks | bounds |
|---|---|---|
| `collector_one` | `InflightCounts`, `NoFlushAfterRead`, `PageConservation`, `ReadsEveryPage`, `WholeUnlessLost`, `PayloadInOrder`, `RAMBounded` with every fault | 1 request of 4 pieces in chunks of 1-2, 5 kinds, pages of 2, queue of 1, 2 workers |
| `gateway_stream` | `SingleOwner`, `CountedOnce`, `MappedOnceOrFailed`, `MappingSound`; the handler implements `CollectorSpec` | 1 request of 3 pieces, all body types, Redis and session faults |
| `gateway_sessions` | `MappedBeforeDoneSeen`, `SessionStaysWithClient`; the gateway implements `Affinity` (`KeepsPromise`) | 2 requests of 2 pieces, 2 clients, one client-supplied session, no faults |
| `shutdown` | `NothingLost`, `NoLateFinalizer`, `ShutdownCompletes`, `ChunkNotStuck`, `FinalizersEnd`, `TempDataGone` | 1 request of 2 pieces, all body types, 1 worker, failing and late Redis calls, expiring entries, every deadline |
| `scanner` | `WatchExact`, `SealLosesNothing`, `PiecesFaithful` | 2 events: the sentinel in 3 spellings, a comment, texts of one line (3) and of two (9); both line ends, 3 ways to stop, cap of 5 symbols |
| `assistant` | `StreamedAsMessage`, `EchoFound`, `EchoUnique` | up to 2 tool calls, texts, names and arguments of up to 2 characters with each kind of escape |
| `config` | `SettingsFaithful`, `BodyWhole` | six-bit integers; numbers around zero and every limit; 6 lengths of bodies |

Why these are enough to be interesting: a queue of one page with two workers
overflows, is drained out of order and refills; four pieces in pages of two give
two pages, or a page and a tail, with `[DONE]` in either and text after it; two
requests are what a conversation and its continuation, or two clients with the
same conversation, need. Two events of a stream have one boundary, which is cut
at every symbol; the longest form exceeds the cap of the scan buffer. Two tool
calls can be mentioned in either order and interleaved. Larger instances of the same
questions are what the proofs are for: they hold for any number of requests,
workers and clients.

`MaxUnits`, `MaxChunk`, `Kinds`, `PageSize`, `MaxPendingPages`, `JsonLimit`,
`ScanCap` and `MaxInt` are the bounds; all but the first three are parameters or
constants of the program too. Requests, workers and clients are permuted where
no liveness property is checked. Deadlock is checked everywhere; a system in
which everything has come to rest stutters explicitly (`Rest`, `GatewayQuiet`,
the exited process, the end of a stream).

The refinement `CollectorSpec` in `gateway_stream` is what carries the theorems
about the collector over to the gateway: the handler does nothing with a
collector's state but what the Collector module allows. `SingleOwner` says the
same from the handler's side: when it is about to call, it is the owner.
`KeepsPromise` is the second refinement, from the client's side: the mapping only
ever learns complete states of the client that reached them, each once. Both are
also proved.

### Fairness

Stated once, for the whole process, in `ProcessFairness`. Workers, `Finalize`,
the detached finalizers and the copy goroutine inside the gateway's own code
(`OwnCode`) are weakly fair: the Go scheduler runs what can run, and every Redis
call has a timeout (`RedisStore.ctx`). Main is weakly fair, and so is the TTL of an
entry whose request or process is over (`TTLElapses`): time passes. The exit of a worker is
strongly fair: its `select` between a job and the cancelled context is decided at
random, so a filled queue cannot keep it for ever. Upstream is not fair (a stream
may stall for ever with its request open), nor are arrivals, the signal, or Redis
as far as late calls are concerned. Nor is a write to the client: the server sets
no `WriteTimeout` (`main.go:109-113`), so a connected client that stops reading may
block it for ever. `ChunkNotStuck` therefore ends where `Read` hands the chunk to
the copy loop, and says that Redis does not keep it from there. `TempDataGone` needs every entry to have an
expiry, so `shutdown` has no broken pipelines.

`ShutdownCompletes` and `FinalizersEnd` together say what the missing deadline of
`inflight.Wait` comes to: a worker counts every page down, written or not, so the
wait ends; only workers stopped after elapsed deadlines can leave it hanging, and
then the process exits.

### Where the code differs from what is said of it

Each is a run of its own in which TLC finds the counterexample.

| run | what happens |
|---|---|
| `flush_fails_during_wait` | `Finalize` looks at `failed` only before it waits; a flush that fails during the wait leaves a hole, and the message without that page is returned as complete |
| `retry_after_done` | after a failed read at `[DONE]`, `Write` has dropped the tail; the retry at close reports an incomplete stream |
| `pipeline_breaks` | HSET applied, EXPIRE not: an entry without expiry |
| `big_json` | a JSON answer over the limit is neither mapped nor counted as failed; the branch for it in `finalizeJSON` is never reached |
| `streamed_message` | a message streamed as one event: `mergeDelta` takes index 0 for all its tool calls and merges them, `AssistantFromMessage` does not |

Also seen while modelling, without a run of their own; the last three are excepted
where a property would run into them:

- a `Finalize` that refuses because the cache failed leaves the pages already
  written to the TTL (`collector.go:278`, `handler.go:333`);
- the chunk with `[DONE]` waits for the flushes and three Redis calls before the
  client gets it (`collector.go:225`), although no wait on Redis is meant to be on
  the stream's path (`collector.go:8`);
- a duration in plain seconds beyond the range, large or negative, wraps around
  and may come out positive (`config.go:30`), and a size beyond it becomes the largest integer where float conversion saturates
  (`config.go:84`); both may pass `Validate`;
- with `max_request_body` at the largest integer, `max+1` overflows and every body
  is read as empty (`handler.go:528`);
- a function name streamed in two equal fragments loses the second
  (`assistant.go:120`).

`WholeUnlessLost`, `ReadsEveryPage`, `MappingSound` and `MappedBeforeDoneSeen`
state what does hold: they except requests with a failed flush or an expiry. The second exception is needed
because `Finalize` does not compare the pages it got with the pages it sent: an
entry that expired or was evicted before the read goes unnoticed in the same way
as a flush that fails during the wait. `PayloadInOrder` has no exception: whatever
Redis loses, delays or applies late, pieces may be missing from what `Finalize`
parses, but none is repeated or out of its place.

## Proofs

Everything below is proved for any set of requests and clients, any non-empty set
of workers, any positive page size and queue capacity (`config.Validate` requires
these), any kinds and lengths of responses, any JSON limit, and - except where a
line says so - any set of Redis and session faults. The other assumptions are
that `NoSession` is not a session, a state or a grant; in Config, that a
second and the defaults fit into an integer and that units are positive; and in
DoneScanner the two on texts and cap given above, for any number of events and
texts of any length.

| theorem | module | property |
|---|---|---|
| `TypeCorrect` | CollectorProofs | `TypeOK` |
| `InflightExact` | | `InflightCounts` |
| `LastPageRaceExcluded` | | `NoFlushAfterRead` |
| `PagesConserved` | | `PageConservation` |
| `FinalizeReadsEveryPage` | | `ReadsEveryPage` |
| `MemoryBounded` | | `RAMBounded` |
| `FinalizeReturnsTheWhole` | ResponseProofs | `WholeUnlessLost` |
| `NothingMadeUp` | | `PayloadInOrder` |
| `GatewayUsesCollector` | GatewayProofs | `CollectorSpec` (refinement) |
| `CollectorSingleOwner` | | `SingleOwner` |
| `EveryResponseCountedOnce` | | `CountedOnce` |
| `EveryStreamMappedOnceOrFailed` | | `MappedOnceOrFailed` |
| `SessionsStayWithClients` | | `SessionStaysWithClient` |
| `GatewayTypeCorrect` | | `GatewayTypeOK` |
| `MappingIsSound` | MappingProofs | `MappingSound` |
| `DoneComesAfterMapping` | | `MappedBeforeDoneSeen` |
| `PartialOnlyByLoss` | | `NeverPartial`, where Redis keeps its pages |
| `GatewayKeepsPromise` | | `KeepsPromise` (refinement), where Redis keeps its pages |
| `OrderlyShutdownLosesNothing` | ShutdownProofs | `NothingLost` |
| `FinalizersStartInTime` | | `NoLateFinalizer` (action property) |
| `MappingOutlivesProcess` | | `MappingSound`, in the process and after its exit |
| `GatewayUndisturbed` | | `WholeUnlessLost`, `ReadsEveryPage`, `MappedBeforeDoneSeen`, `SessionStaysWithClient` in the process |
| `WatchDoneExact` | ScannerProofs | `WatchExact` |
| `SealedPayloadComplete` | | `SealLosesNothing` |
| `BytesAsPieces` | | `PiecesFaithful` |
| `ConfigFaithful` | ConfigProofs | `SettingsFaithful` |
| `BodiesWhole` | | `BodyWhole` |

Hardly any of the properties is inductive; each module states the invariant that
is, in named parts, and proves it action by action.

**CollectorProofs.** A worker that takes a page moves it from one set to the
other, and `InflightCounts` stays right only if no two places hold the same page.
`Accounting` therefore adds `PlacesDistinct` (pages of one request in the queue and
in workers' hands have distinct numbers), `NumbersIssued` (none exceeds `seq`) and
`CallDiscipline` (`Finalize` runs only for an owner that does not write; without it
a `Write` could enqueue behind the wait), and contains `NoFlushAfterRead`.
`Conservation` adds `PageConservation`, `ReadsEveryPage` and `LateMeansFailed` (a
write that may still arrive belongs to a request that is marked failed). The
cardinalities are dealt with in the lemmas `Enqueue`, `Take` and `Done`, on what a
step does to `Outstanding`.

**StreamProofs.** What the other modules need of numbers and sequences. Where an
argument is by induction over pages, pieces, lines or bytes it is put as a least
counterexample (`LeastMember`), which needs no induction rule. `FlattenRanges`
says where each part of a concatenation lies in it, and `AccumulatedText` what the
text of a response is, one piece after the other.

**ResponseProofs.** `Wholeness` says that, while nothing was lost, there is a way
to cut the response received so far (`Cuts`) such that page *i*, wherever it is -
queue, worker, Redis or what `Finalize` got - is the *i*-th slice, and the tail is
the rest. The concatenation of the pages in the order of their numbers is then
the response, up to `[DONE]`: `AssembleSlices` proves this of the model's
`Assemble`, and `PrefixParse` that what follows the sentinel does not matter.
`NothingMadeUp` makes no exception for losses, so there is no such cut any more:
the tail may be gone, pages may be missing, be on the wire after their request was
given up, or come back after a delete. `Placement` holds instead of every copy of a
page, wherever it is (`IsCopy`): its pieces are pieces of the response in their
order, and all of page *m* come before all of page *n* when *m < n*, and before the
tail. `AssembleSelects` draws the conclusion for any subset of the pages;
`RisingExists` lists the pages of such a subset in rising order.

**GatewayProofs.** `Discipline` relates, for each request, where the copy goroutine
is, where the detached finalizer is, who owns the collector, how far `Finalize` is,
and what has been counted: `CopyPlace`, `FinishedOnce`, `OwnerPlace`,
`Completions`, `Mappings`, `Failures`. For example, the count is right at the end
only because `earlyFinalized` implies that the callback has already counted, and
that no finalizer is started any more. `GatewayUsesCollector` is the step
simulation: with it every theorem about `CollectorSpec` holds of the gateway.
For the sessions, `Lineage`: each key of the mapping leads to a session that a
request of the key's client began, and each resolved request has such a
predecessor. `SessionStaysWithClient` alone says nothing about the mapping, from
which the next session will be taken. `LengthsOK` bounds what was received and
delivered.

**MappingProofs.** `MappedWhole` follows `[DONE]` on its way: the collector has not
overlooked it (`DoneSeals`), the client has not received it before the callback
returned (`SeenSealed`), the callback left a mark or a counted failure
(`SealedEarly`), and after a mark the key of the whole answer is in the mapping
(`EarlyMapped`). That a complete answer stays complete while the stream goes on
(`CompleteStays`) keeps the old keys right. The attempt to prove
`MappedBeforeDoneSeen` without excepting requests whose page entry expired failed
for a good reason: with an expired entry the state that is mapped may be that of
part of the response, as in `NeverPartial`.

For the promise, `KeepsPages` restricts the faults to reads and deletes that
fail. Under it no flush fails and no entry expires under a running request
(`Faultless`), so a successful `Finalize` returns the whole: the counterexample of
`flush_fails_during_wait` really needs a lost page. `Dialogue` types the
conversations, including the ones clients build from what they have received.
The simulation of `Affinity` then has four cases: `ServeChat` asks, a step of
`putMapping` remembers (`MapsRemember`: it writes the complete state, the first
time), an expiring key forgets, and any other step answers if it completes the
response and is invisible otherwise. Without `KeepsPages` the refinement is false,
by the same counterexample.

**ShutdownProofs.** `Orderly`: unless hurried, each call of main leaves behind what
it waited for - no handler, then an empty queue, then no finalizer, then no
worker - and nothing brings it back later. That the queue stays empty after
`Drain` is not obvious, since `Drain` does not look at finalizers: only a `Write`
enqueues, and there is no handler left to call it. The invariants of the collector
and of the gateway hold in the process as well (`Serving`): while it runs, a step of
it is a step of the gateway or of main (`ProcessStep`), and afterwards only Redis
moves. An entry may then expire that a `Finalize` was about to read, which the
gateway alone excludes where the TTL outlives requests; `DropsServing` shows that
this hurts no other request. So what a process that was cut off leaves in the
mapping is right.

**ScannerProofs.** The invariant has two parts. `Watched` is about `watchDone`:
until the sentinel has come, everything read was collected, no line read so far is
the sentinel, and the scan buffer is what was read of the current line, or of a
part of it that begins beyond the cap (`Pending`). From this and a property of the
stream (`Watchable`: a line that is the sentinel is short, and no end of a longer
line looks like it), `WatchHits` and `WatchRest` show that one `Write` finds the
sentinel just when it is there. `Streamed` is about the stream: it consists of lines
laid out one after the other (`Laid`), and the lines of events (`Composed`), but
for the ends that are missing; that it is `Watchable` follows from
`PayloadAssumption`. The proof about `sse.Scan` then goes up from bytes: a line is
gathered and taken (`LineScanned`), an event is dispatched at its blank line and
leaves the scanner as it was before it (`EventScanned`, `EventsFresh`), and the end
of the payload stands for a missing blank line or newline (`ScanSealed`,
`WholeScan`). `EventsGathered` compares the result with the text of the pieces.

**ConfigProofs.** `Configured`: what runs was produced by the parser from this file
(`Parsed`), passed `Validate`, and the last body was read under it. The lemmas
compute, form by form, what a value means and what two's complement arithmetic of
any width makes of it. The exception for durations had to be widened in the
course of this: a negative number of seconds can wrap around to a positive
duration as well as a large one.

### Only model-checked

- the liveness properties `ShutdownCompletes`, `ChunkNotStuck`, `FinalizersEnd`,
  `TempDataGone`: fairness is outside the prover's reach;
- `StreamedAsMessage`, `EchoFound`, `EchoUnique`: `CanonicalJSON` and
  `AssistantMessage` are recursive over JSON trees (`RECURSIVE` operators and
  structural induction), which the prover cannot use.

## Not modelled

Left out: the registration and export of metrics (`cnt` in Gateway has
the counters whose values mean something), logging, the health check, command
line flags, HTTP header details, TLS and HTTP/2 transport, and the smoke test,
which is a client of the system. SHA-256 is taken to be injective.

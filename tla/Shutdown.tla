------------------------------ MODULE Shutdown ------------------------------
(***************************************************************************)
(* The life of the process: the gateway under load, the signal, and the    *)
(* steps of main after it - srv.Shutdown, pool.Drain, WaitFinalize,        *)
(* pool.Stop, rs.Close and exit - while requests, workers and finalizers   *)
(* are still running.  Three of the steps give up after a timeout, which   *)
(* may elapse at any moment.  Exit takes every goroutine with it; what is  *)
(* in Redis stays there.                                                   *)
(***************************************************************************)
EXTENDS Gateway

VARIABLES phase,     \* where main is
          left,      \* the workers that have returned from their loop
          hurried    \* ghost: main gave up waiting, or did not wait at all

shutdownVars == <<phase, left, hurried>>
processVars == <<gatewayVars, shutdownVars>>

\* "up" is main waiting for the signal; each other phase but the last is
\* named after the call main is in.
Phases == <<"up", "shutdown", "drain", "waitFinalize", "stop", "exited">>

Running == phase # "exited"

ProcessInit ==
    /\ GatewayInit
    /\ phase = "up" /\ left = {} /\ hurried = FALSE

-----------------------------------------------------------------------------
(* The gateway while the process lives.                                    *)

\* The listener is closed after the signal, but a connection accepted just
\* before may still bring its request while srv.Shutdown waits: for it too.
RequestStep(r) ==
    /\ Running
    /\ pc[r] = "idle" => phase \in {"up", "shutdown"}
    /\ Arrival(r) \/ Upstream(r)
    /\ UNCHANGED shutdownVars

CopyRuns(r) == Running /\ CopyGoroutine(r) /\ UNCHANGED shutdownVars

FinalizeGoesOn(r) == Running /\ FinalizeRuns(r) /\ UNCHANGED shutdownVars

DetachedRuns(r) == Running /\ Detached(r) /\ UNCHANGED shutdownVars

\* A worker that finds both its context cancelled and a job may take either.
WorkerRuns(w) ==
    /\ Running /\ w \notin left
    /\ WorkerStep(w)
    /\ UNCHANGED <<mapping, proxyVars, shutdownVars>>

WorkerExit(w) ==
    /\ phase = "stop" /\ wpc[w] = "idle" /\ w \notin left
    /\ left' = left \cup {w}
    /\ UNCHANGED <<gatewayVars, phase, hurried>>

\* Redis outlives the process: late writes are applied, TTLs elapse, and an
\* entry may expire under a running request as in Collector.
Redis(r) ==
    /\ RedisLate(r)
    /\ UNCHANGED <<mapping, proxyVars, shutdownVars>>

Elapse(r) ==
    /\ Finished(r) \/ ~Running \/ "expire" \in Faults
    /\ ExpireEntry(r)
    /\ UNCHANGED <<collectorVars, poolVars, sent, mapping, proxyVars, shutdownVars>>

ElapseSession == ExpireSession /\ UNCHANGED <<vars, proxyVars, shutdownVars>>

-----------------------------------------------------------------------------
(* The main goroutine.                                                     *)

Goto(p) == phase' = p /\ UNCHANGED <<gatewayVars, left>>

Signal == phase = "up" /\ Goto("shutdown") /\ UNCHANGED hurried

\* ListenAndServe fails and main exits at once, whatever is under way.
ServerError == phase = "up" /\ Goto("exited") /\ hurried' = TRUE

\* Mutant: srv.Close, which does not wait for handlers, in its place.
HandlersIgnored == phase = "shutdown"

\* srv.Shutdown returns when every handler has.
HandlersReturned == phase = "shutdown" /\ \A r \in Requests : pc[r] \in {"idle", "over"}

\* Mutant: the wait for the finalizers is left out.
FinalizersIgnored == phase = "waitFinalize"

FinalizersReturned ==
    phase = "waitFinalize" /\ \A r \in Requests : det[r] \in {"none", "done"}

\* Mutant: srv.Shutdown with a context that has no deadline.
DeadlineOfPool(p) == p \in {"drain", "waitFinalize"}

\* The three calls of main that have a deadline.
HasDeadline(p) == p \in {"shutdown", "drain", "waitFinalize"}

Shutdown == HandlersReturned /\ Goto("drain") /\ UNCHANGED hurried

\* Drain looks at the queue, not at what the workers hold.
Drain == phase = "drain" /\ queue = <<>> /\ Goto("waitFinalize") /\ UNCHANGED hurried

\* WaitFinalize returns, and Stop cancels the workers' context.
WaitFinalize == FinalizersReturned /\ Goto("stop") /\ UNCHANGED hurried

TimedOut ==
    /\ HasDeadline(phase)
    /\ \E i \in 1..5 : phase = Phases[i] /\ Goto(Phases[i + 1])
    /\ hurried' = TRUE

\* Stop has seen every worker return; Redis is closed and main ends.
Exit == phase = "stop" /\ left = Workers /\ Goto("exited") /\ UNCHANGED hurried

Main == Shutdown \/ Drain \/ WaitFinalize \/ TimedOut \/ Exit

-----------------------------------------------------------------------------
ProcessNext ==
    \/ \E r \in Requests :
         \/ RequestStep(r) \/ CopyRuns(r) \/ FinalizeGoesOn(r) \/ DetachedRuns(r)
         \/ Redis(r) \/ Elapse(r)
    \/ \E w \in Workers : WorkerRuns(w) \/ WorkerExit(w)
    \/ ElapseSession
    \/ Signal \/ ServerError \/ Main
    \/ ~Running /\ UNCHANGED processVars

ProcessSpec == ProcessInit /\ [][ProcessNext]_processVars

(***************************************************************************)
(* Fairness: goroutines inside the gateway's own code are scheduled, Redis *)
(* calls return within redis.timeout, and time passes, so deadlines elapse *)
(* and so does the TTL of an entry nobody writes any more.  A worker       *)
(* chooses at random between a job and its cancelled context, so it does   *)
(* not choose the job for ever: strong fairness.  Arrivals, the signal,    *)
(* what upstream sends and what the client takes are not fair: a stream    *)
(* may hang open for ever, and the server sets no WriteTimeout, so a write *)
(* to a client that has stopped reading may never return.                  *)
(***************************************************************************)
OwnCode(r) == pc[r] \in {"write", "map", "teed", "close"} /\ CopyRuns(r)

TTLElapses(r) == (Finished(r) \/ ~Running) /\ Elapse(r)

ProcessFairness ==
    /\ WF_processVars(Main)
    /\ \A w \in Workers : WF_processVars(WorkerRuns(w)) /\ SF_processVars(WorkerExit(w))
    /\ \A r \in Requests : /\ WF_processVars(OwnCode(r))
                           /\ WF_processVars(FinalizeGoesOn(r))
                           /\ WF_processVars(DetachedRuns(r))
                           /\ WF_processVars(TTLElapses(r))

FairProcessSpec == ProcessSpec /\ ProcessFairness

-----------------------------------------------------------------------------
(* What the sequence of DEVELOP section 56 is for.                         *)

(***************************************************************************)
(* A shutdown in which no deadline elapsed loses nothing: every request    *)
(* that was accepted has left, every collected response was counted once   *)
(* and is mapped or counted as failed, and no page was thrown away with    *)
(* the queue or a worker - although Drain ignores what workers hold, and   *)
(* although a Finalize of a failed cache leaves its pages in the queue.    *)
(***************************************************************************)
NothingLost ==
    ~Running /\ ~hurried =>
        /\ \A r \in Requests : pc[r] # "idle" =>
             /\ Gone(r)
             /\ Collected(r) => cnt[r].completed + cnt[r].aborted = 1
             /\ body[r] = "sse" => cnt[r].fok = 1 \/ cnt[r].ferr > 0
        /\ queue = <<>> /\ \A w \in Workers : wpc[w] = "idle"

(***************************************************************************)
(* WaitFinalize waits on a WaitGroup the handlers add to: once main is in  *)
(* it, no finalizer starts (an Add beside a Wait is a misuse, and the new  *)
(* finalizer would be cut off) unless a deadline elapsed before.           *)
(***************************************************************************)
FinalizerStarts(r) == det[r] = "none" /\ det'[r] # "none"

NoLateFinalizer ==
    [][(\E r \in Requests : FinalizerStarts(r)) /\ phase \in {"waitFinalize", "stop"}
          => hurried]_processVars

(***************************************************************************)
(* The process ends after a signal, whatever is going on: a stream that    *)
(* hangs open, a Finalize that waits for pages no worker will write any    *)
(* more, and a queue that workers and cancellation compete for.            *)
(***************************************************************************)
ShutdownCompletes == phase = "shutdown" ~> ~Running

(***************************************************************************)
(* Redis never holds a chunk back for ever: Read hands what it has taken   *)
(* from upstream to the copy loop, also when the [DONE]-time Finalize, run *)
(* inside that Read, waits for flushes that fail, or for pages that        *)
(* stopped workers leave in the queue.  How long the client then takes to  *)
(* read it is not the gateway's to say.                                    *)
(***************************************************************************)
ChunkNotStuck ==
    \A r \in Requests : pc[r] \in {"write", "map", "teed"}
                            ~> pc[r] = "deliver" \/ ~Running

(***************************************************************************)
(* Every detached finalizer comes to an end: its wait for the flushes has  *)
(* no deadline of its own, and ends because each page is written or given  *)
(* up and counted down either way.                                         *)
(***************************************************************************)
FinalizersEnd ==
    \A r \in Requests : once[r] ~> det[r] \in {"none", "done"} \/ ~Running

(***************************************************************************)
(* Temporary data does not outlive its request for ever (DEVELOP section   *)
(* 54): once the request or the process is over its entry vanishes and     *)
(* stays away, also when the delete failed, the cache failed with pages    *)
(* still queued, a timed-out write arrives after the delete, or the        *)
(* process ended between the flush and the delete.                         *)
(***************************************************************************)
TempDataGone ==
    \A r \in Requests : Finished(r) \/ ~Running ~> [](pages[r] = NoPages)
=============================================================================

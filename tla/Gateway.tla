------------------------------- MODULE Gateway -------------------------------
(***************************************************************************)
(* internal/proxy: one request from ServeHTTP to its last finalizer, over  *)
(* the Collector, the session store and the resolver.                      *)
(*                                                                         *)
(* Per request there is the copy goroutine (net/http's handler goroutine   *)
(* inside httputil.ReverseProxy: resolve, round trip, then Read and write  *)
(* to the client in a loop, then Close) and at most one detached goroutine *)
(* that finish starts.  ReverseProxy itself is external and modelled from  *)
(* how the handler relies on it: it returns each chunk to the client       *)
(* before the next Read, stops at EOF or at an error of either side, and   *)
(* then closes the body.                                                   *)
(***************************************************************************)
EXTENDS Collector, SessionStore

CONSTANTS Bodies,      \* the content types upstream may answer with
          JsonLimit    \* jsonBufferLimit, in pieces

ASSUME BodiesAssumption == Bodies \subseteq {"sse", "json", "plain"}
ASSUME JsonLimitAssumption == JsonLimit \in Nat

VARIABLES
    req,       \* request -> reqState: client, messages, session, participate
    pc,        \* request -> where the copy goroutine is
    body,      \* request -> how modifyResponse wrapped the response body
    eof,       \* request -> the body ended with EOF
    early,     \* request -> earlyFinalized
    once,      \* request -> the finisher has run
    det,       \* request -> where the detached finalizer is
    json,      \* request -> the JSON body read so far, and whether jsonBuf keeps it
    cnt,       \* request -> its contributions to the metrics
    seen       \* request -> ghost: number of pieces the client has received

proxyVars == <<req, pc, body, eof, early, once, det, json, cnt, seen>>
gatewayVars == <<vars, mapping, proxyVars>>

(***************************************************************************)
(* pc: "idle", "upstream" (round trip), "read" (in rc.Read), "write"       *)
(* (inside the onDone callback of collector.Write), "map" (its putMapping),*)
(* "teed" (the chunk is collected, Read is about to return), "deliver"     *)
(* (writing the chunk to the client), "close", "over".                     *)
(* det: "none", "stream" (finalizeStream), "close" (finalizeStreamOnClose),*)
(* "json" (finalizeJSON), "put" (putMapping), "done".                      *)
(***************************************************************************)
PCs == {"idle", "upstream", "read", "write", "map", "teed", "deliver", "close", "over"}
Dets == {"none", "stream", "close", "json", "put", "done"}

User == [role |-> "user", text |-> NoText]
Assistant(text) == [role |-> "assistant", text |-> text]

NoReq == [participate |-> FALSE]
NoCounts == [completed |-> 0, aborted |-> 0, ferr |-> 0, fok |-> 0, merr |-> 0]

GatewayInit ==
    /\ CollectorInit
    /\ SessionInit
    /\ req = [r \in Requests |-> NoReq]
    /\ pc = [r \in Requests |-> "idle"]
    /\ body = [r \in Requests |-> "none"]
    /\ eof = [r \in Requests |-> FALSE]
    /\ early = [r \in Requests |-> FALSE]
    /\ once = [r \in Requests |-> FALSE]
    /\ det = [r \in Requests |-> "none"]
    /\ json = [r \in Requests |-> [data |-> <<>>, kept |-> TRUE]]
    /\ cnt = [r \in Requests |-> NoCounts]
    /\ seen = [r \in Requests |-> 0]

\* Every variable of the gateway keeps its type.
GatewayTypeOK ==
    /\ TypeOK
    /\ \A k \in DOMAIN mapping : mapping[k] \in Requests \cup ClientSessions
    /\ \A r \in Requests : req[r] = NoReq \/ req[r].sid \in Requests \cup ClientSessions
    /\ pc \in [Requests -> PCs]
    /\ body \in [Requests -> {"none", "sse", "json", "plain"}]
    /\ det \in [Requests -> Dets]
    /\ \A r \in Requests : json[r].data \in Seq(Piece) /\ json[r].kept \in BOOLEAN
    /\ \A r \in Requests : cnt[r] \in [DOMAIN NoCounts -> 0..2]
    /\ seen \in [Requests -> 0..MaxUnits]

-----------------------------------------------------------------------------
(* What the client sends and sees.                                         *)

\* The response as the gateway has received it.
Received(r) == IF body[r] = "json" THEN json[r].data ELSE sent[r]

Seen(r) == SubSeq(Received(r), 1, seen[r])

\* The assistant message of a JSON response, when its body is well formed.
AssistantFromMessage(s) ==
    LET kinds == {s[i].kind : i \in DOMAIN s} IN
    [result |-> IF kinds \subseteq {"text", "null"} /\ kinds # {} THEN "ok" ELSE "err",
     text |-> Accumulated(s)]

Reply(r, s) == IF body[r] = "json" THEN AssistantFromMessage(s) ELSE AssistantFromSSE(s)

\* The client has a whole answer to continue from.
Answered(r) ==
    /\ req[r].participate /\ Reply(r, Seen(r)).result = "ok"
    /\ body[r] = "json" => eof[r] /\ pc[r] = "over" /\ seen[r] = Len(Received(r))

\* A client opens a conversation or continues one it has the answer of.
Conversations ==
    {<<User>>} \cup
    {Append(FullState(req[q].msgs, Assistant(Reply(q, Seen(q)).text)), User) :
        q \in {p \in Requests : Answered(p)}}

-----------------------------------------------------------------------------
(* ServeHTTP up to the response.                                           *)

\* A chat request: prepare resolves the session and sets the header.
ServeChat(r) ==
    /\ pc[r] = "idle"
    /\ \E client \in Clients, msgs \in Conversations,
          header \in ClientSessions \cup {NoSession} :
         \E d \in Resolve(client, msgs, header, r) :
            req' = [req EXCEPT ![r] = [participate |-> TRUE, client |-> client, msgs |-> msgs,
                                       sid |-> d.sid, source |-> d.source]]
    /\ pc' = [pc EXCEPT ![r] = "upstream"]
    /\ UNCHANGED <<vars, mapping, body, eof, early, once, det, json, cnt, seen>>

\* Another path or method, or a body prepare cannot use: a plain proxy.
ServeTransparent(r) ==
    /\ pc[r] = "idle"
    /\ pc' = [pc EXCEPT ![r] = "upstream"]
    /\ UNCHANGED <<vars, mapping, req, body, eof, early, once, det, json, cnt, seen>>

\* The request body cannot be read or is too large (400, 413), or the round
\* trip fails and errorHandler answers 502.
ServeRefused(r) ==
    /\ pc[r] \in {"idle", "upstream"}
    /\ pc' = [pc EXCEPT ![r] = "over"]
    /\ UNCHANGED <<vars, mapping, req, body, eof, early, once, det, json, cnt, seen>>

\* modifyResponse: only a 2xx answer to a participating request is wrapped.
modifyResponse(r) ==
    /\ pc[r] = "upstream"
    /\ \/ /\ req[r].participate /\ "sse" \in Bodies
          /\ NewCollector(r)
          /\ body' = [body EXCEPT ![r] = "sse"]
       \/ /\ req[r].participate /\ "json" \in Bodies
          /\ body' = [body EXCEPT ![r] = "json"]
          /\ UNCHANGED vars
       \/ /\ ~req[r].participate \/ "plain" \in Bodies
          /\ body' = [body EXCEPT ![r] = "plain"]
          /\ UNCHANGED vars
    /\ pc' = [pc EXCEPT ![r] = "read"]
    /\ UNCHANGED <<mapping, req, eof, early, once, det, json, cnt, seen>>

\* An unwrapped body is copied without any of this package's code.
CopyPlain(r) ==
    /\ pc[r] = "read" /\ body[r] = "plain"
    /\ pc' = [pc EXCEPT ![r] = "over"]
    /\ UNCHANGED <<vars, mapping, req, body, eof, early, once, det, json, cnt, seen>>

-----------------------------------------------------------------------------
(* finish: once per request, at EOF or at Close.                           *)

Count(r, name) == [cnt EXCEPT ![r][name] = @ + 1]

\* Mutant: finish does not ask whether [DONE] has finalized the stream.
EarlyForgotten(r) == FALSE

EarlyFinalized(r) == early[r]

\* The body is not read any more; e says whether it ended with EOF.
finish(r, e) ==
    \/ /\ once[r]
       /\ UNCHANGED <<once, det, cnt, vars>>
    \/ /\ ~once[r]
       /\ once' = [once EXCEPT ![r] = TRUE]
       /\ IF body[r] = "sse" THEN CloseBody(r) ELSE UNCHANGED vars
       /\ \/ EarlyFinalized(r) /\ UNCHANGED <<det, cnt>>
          \/ /\ ~EarlyFinalized(r) /\ e
             /\ cnt' = Count(r, "completed")
             /\ det' = [det EXCEPT ![r] =
                          IF body[r] = "sse" THEN "stream"
                          ELSE IF json[r].kept THEN "json" ELSE @]
          \/ /\ ~EarlyFinalized(r) /\ ~e /\ body[r] = "sse"
             /\ det' = [det EXCEPT ![r] = "close"]
             /\ UNCHANGED cnt
          \/ /\ ~EarlyFinalized(r) /\ ~e /\ body[r] = "json"
             /\ cnt' = Count(r, "aborted")
             /\ UNCHANGED det

-----------------------------------------------------------------------------
(* streamBody.Read and jsonBody.Read.                                      *)

\* Mutant: the finalize of [DONE] does not hold the chunk back.
ReadStreamAsync(r) ==
    /\ pc[r] = "read" /\ body[r] = "sse"
    /\ \E c \in Chunks : Write(r, c)
    /\ pc' = [pc EXCEPT ![r] = "teed"]
    /\ UNCHANGED <<mapping, req, body, eof, early, once, det, json, cnt, seen>>

\* rc.Read returns bytes of an SSE stream: collector.Write, perhaps into
\* its onDone callback.
ReadStream(r) ==
    /\ pc[r] = "read" /\ body[r] = "sse"
    /\ \E c \in Chunks : Write(r, c)
    /\ pc' = [pc EXCEPT ![r] = IF owner'[r] = "onDone" THEN "write" ELSE "teed"]
    /\ UNCHANGED <<mapping, req, body, eof, early, once, det, json, cnt, seen>>

\* rc.Read returns bytes of a JSON body: beyond the limit the whole buffer
\* is dropped for good.
ReadJson(r) ==
    /\ pc[r] = "read" /\ body[r] = "json"
    /\ \E c \in Chunks :
         LET n == Len(json[r].data) IN
         /\ n + Len(c) <= MaxUnits
         /\ json' = [json EXCEPT ![r] = [data |-> @.data \o Pieces(c, n),
                                         kept |-> @.kept /\ n + Len(c) <= JsonLimit]]
    /\ pc' = [pc EXCEPT ![r] = "teed"]
    /\ UNCHANGED <<vars, mapping, req, body, eof, early, once, det, cnt, seen>>

\* Read returns the chunk, with or without EOF beside it.
ReadReturns(r) ==
    /\ pc[r] = "teed"
    /\ \/ UNCHANGED <<eof, once, det, cnt, vars>>
       \/ /\ eof' = [eof EXCEPT ![r] = TRUE]
          /\ finish(r, TRUE)
    /\ pc' = [pc EXCEPT ![r] = "deliver"]
    /\ UNCHANGED <<mapping, req, body, early, json, seen>>

\* Read returns EOF alone.
ReadEOF(r) ==
    /\ pc[r] = "read" /\ body[r] \in {"sse", "json"}
    /\ eof' = [eof EXCEPT ![r] = TRUE]
    /\ finish(r, TRUE)
    /\ pc' = [pc EXCEPT ![r] = "close"]
    /\ UNCHANGED <<mapping, req, body, early, json, seen>>

\* The upstream connection breaks, or the client's context is cancelled.
ReadFails(r) ==
    /\ pc[r] = "read" /\ body[r] \in {"sse", "json"}
    /\ pc' = [pc EXCEPT ![r] = "close"]
    /\ UNCHANGED <<vars, mapping, req, body, eof, early, once, det, json, cnt, seen>>

\* ReverseProxy writes the chunk to the client and flushes it.
Deliver(r) ==
    /\ pc[r] = "deliver"
    /\ seen' = [seen EXCEPT ![r] = Len(Received(r))]
    /\ pc' = [pc EXCEPT ![r] = IF eof[r] THEN "close" ELSE "read"]
    /\ UNCHANGED <<vars, mapping, req, body, eof, early, once, det, json, cnt>>

\* The client is gone.
DeliverFails(r) ==
    /\ pc[r] = "deliver"
    /\ pc' = [pc EXCEPT ![r] = "close"]
    /\ UNCHANGED <<vars, mapping, req, body, eof, early, once, det, json, cnt, seen>>

Close(r) ==
    /\ pc[r] = "close"
    /\ finish(r, eof[r])
    /\ pc' = [pc EXCEPT ![r] = "over"]
    /\ UNCHANGED <<mapping, req, body, eof, early, json, seen>>
-----------------------------------------------------------------------------
(* putMapping and the four finalizers.                                     *)

\* Mutant: the state that is mapped lacks the assistant message.
putMappingHistory(r, text) ==
    /\ PutSession(req[r].client, HistoryHash(req[r].msgs), req[r].sid)
    /\ cnt' = Count(r, "fok")

\* Mutant: a failed write of the mapping is not counted.
putMappingUncounted(r, text) ==
    LET state == FullState(req[r].msgs, Assistant(text)) IN
    \/ /\ PutSession(req[r].client, state, req[r].sid)
       /\ cnt' = Count(r, "fok")
    \/ /\ PutSessionError(req[r].client, state, req[r].sid)
       /\ UNCHANGED cnt

\* putMapping: Hash(messages and assistant) -> session, written once and
\* not retried.
putMapping(r, text) ==
    LET state == FullState(req[r].msgs, Assistant(text)) IN
    \/ /\ PutSession(req[r].client, state, req[r].sid)
       /\ cnt' = Count(r, "fok")
    \/ /\ PutSessionError(req[r].client, state, req[r].sid)
       /\ cnt' = [cnt EXCEPT ![r].merr = @ + 1, ![r].ferr = @ + 1]

\* Finalize advances, for finalizeAtDone or for a detached finalizer.
Finalizing(r) == pc[r] = "write" \/ det[r] \in {"stream", "close"}

FinalizeRuns(r) ==
    /\ Finalizing(r)
    /\ FinalizeStep(r)
    /\ UNCHANGED <<mapping, proxyVars>>

\* Mutant: the retry is started at once instead of at the close.
AtDoneRetriesNow(r) ==
    /\ pc[r] = "write" /\ fin[r] \in FinErrors
    /\ cnt' = Count(r, "ferr")
    /\ WriteReturn(r)
    /\ pc' = [pc EXCEPT ![r] = "teed"]
    /\ det' = [det EXCEPT ![r] = "stream"]
    /\ UNCHANGED <<mapping, req, body, eof, early, once, json, seen>>

\* Mutant: the collector is unsealed for the retry and collects again.
AtDoneUnseals(r) ==
    /\ pc[r] = "write" /\ fin[r] \in FinErrors
    /\ cnt' = Count(r, "ferr")
    /\ owner' = [owner EXCEPT ![r] = "writing"]
    /\ fin' = [fin EXCEPT ![r] = "none"]
    /\ sealed' = [sealed EXCEPT ![r] = FALSE]
    /\ pc' = [pc EXCEPT ![r] = "teed"]
    /\ UNCHANGED <<storeVars, tail, seq, inflight, failed, sawDone, got, poolVars, sent,
                   mapping, req, body, eof, early, once, det, json, seen>>

\* finalizeAtDone: Finalize failed; the close-time path is to retry.
AtDoneFails(r) ==
    /\ pc[r] = "write" /\ fin[r] \in FinErrors
    /\ cnt' = Count(r, "ferr")
    /\ WriteReturn(r)
    /\ pc' = [pc EXCEPT ![r] = "teed"]
    /\ UNCHANGED <<mapping, req, body, eof, early, once, det, json, seen>>

\* finalizeAtDone: Finalize succeeded.
AtDoneSucceeds(r) ==
    /\ pc[r] = "write" /\ fin[r] = "ok"
    /\ early' = [early EXCEPT ![r] = TRUE]
    /\ cnt' = Count(r, "completed")
    /\ pc' = [pc EXCEPT ![r] = "map"]
    /\ UNCHANGED <<vars, mapping, req, body, eof, once, det, json, seen>>

\* Its putMapping; then Write drops the tail and Read goes on.
AtDoneMaps(r) ==
    /\ pc[r] = "map"
    /\ putMapping(r, AssistantFromSSE(Payload(r)).text)
    /\ WriteReturn(r)
    /\ pc' = [pc EXCEPT ![r] = "teed"]
    /\ UNCHANGED <<req, body, eof, early, once, det, json, seen>>

\* finalizeStream: the stream was counted as completed by finish.
finalizeStream(r) ==
    /\ det[r] = "stream" /\ fin[r] \in FinResults
    /\ det' = [det EXCEPT ![r] = IF fin[r] = "ok" THEN "put" ELSE "done"]
    /\ cnt' = IF fin[r] = "ok" THEN cnt ELSE Count(r, "ferr")
    /\ UNCHANGED <<vars, mapping, req, pc, body, eof, early, once, json, seen>>

\* Mutant: a stream that was cut off is mapped all the same.
finalizeAnyClose(r) ==
    /\ det[r] = "close" /\ fin[r] \in FinResults
    /\ det' = [det EXCEPT ![r] = "put"]
    /\ cnt' = Count(r, "completed")
    /\ UNCHANGED <<vars, mapping, req, pc, body, eof, early, once, json, seen>>

\* finalizeStreamOnClose: the result decides between completion and abort.
finalizeStreamOnClose(r) ==
    /\ det[r] = "close" /\ fin[r] \in FinResults
    /\ det' = [det EXCEPT ![r] = IF fin[r] = "ok" THEN "put" ELSE "done"]
    /\ cnt' = IF fin[r] = "ok"
                THEN Count(r, "completed")
                ELSE [cnt EXCEPT ![r].aborted = @ + 1, ![r].ferr = @ + 1]
    /\ UNCHANGED <<vars, mapping, req, pc, body, eof, early, once, json, seen>>

\* finalizeJSON up to its putMapping.
finalizeJSON(r) ==
    LET ok == AssistantFromMessage(json[r].data).result = "ok" IN
    /\ det[r] = "json"
    /\ det' = [det EXCEPT ![r] = IF ok THEN "put" ELSE "done"]
    /\ cnt' = IF ok THEN cnt ELSE Count(r, "ferr")
    /\ UNCHANGED <<vars, mapping, req, pc, body, eof, early, once, json, seen>>

\* putMapping of a detached finalizer.
DetachedMaps(r) ==
    /\ det[r] = "put"
    /\ putMapping(r, IF body[r] = "json" THEN AssistantFromMessage(json[r].data).text
                                         ELSE AssistantFromSSE(Payload(r)).text)
    /\ det' = [det EXCEPT ![r] = "done"]
    /\ UNCHANGED <<vars, req, pc, body, eof, early, once, json, seen>>

-----------------------------------------------------------------------------
CopyGoroutine(r) ==
    \/ ReadReturns(r) \/ Deliver(r) \/ DeliverFails(r) \/ Close(r) \/ CopyPlain(r)
    \/ AtDoneFails(r) \/ AtDoneSucceeds(r) \/ AtDoneMaps(r)

Upstream(r) ==
    ReadStream(r) \/ ReadJson(r) \/ ReadEOF(r) \/ ReadFails(r)

Detached(r) ==
    finalizeStream(r) \/ finalizeStreamOnClose(r) \/ finalizeJSON(r) \/ DetachedMaps(r)

Arrival(r) == ServeChat(r) \/ ServeTransparent(r) \/ ServeRefused(r) \/ modifyResponse(r)

\* Redis and its clock; a request is over for the TTL once its last
\* finalizer is.
Environment ==
    \/ \E w \in Workers : WorkerStep(w) /\ UNCHANGED <<mapping, proxyVars>>
    \/ \E r \in Requests : (RedisLate(r) \/ Expire(r)) /\ UNCHANGED <<mapping, proxyVars>>
    \/ ExpireSession /\ UNCHANGED <<vars, proxyVars>>

\* The request has left the gateway.
Gone(r) == pc[r] = "over" /\ det[r] \in {"none", "done"}

GatewayQuiet ==
    /\ \A r \in Requests : Gone(r)
    /\ queue = <<>> /\ \A w \in Workers : wpc[w] = "idle"

GatewayNext ==
    \/ \E r \in Requests : Arrival(r) \/ Upstream(r) \/ CopyGoroutine(r)
                             \/ FinalizeRuns(r) \/ Detached(r)
    \/ Environment
    \/ GatewayQuiet /\ UNCHANGED gatewayVars

GatewaySpec == GatewayInit /\ [][GatewayNext]_gatewayVars

-----------------------------------------------------------------------------
(* What the gateway promises.                                              *)

Collected(r) == body[r] \in {"sse", "json"}

(***************************************************************************)
(* The single-owner design of the Collector, whose buffer has no lock: at  *)
(* each of its calls the handler's goroutine is the only one inside, so a  *)
(* detached finalizer never runs beside a Write, whichever of EOF, [DONE], *)
(* a failed Finalize inside Write and Close came first.                    *)
(***************************************************************************)
SingleOwner ==
    \A r \in Requests : body[r] = "sse" =>
        /\ pc[r] = "read" => owner[r] = "writing"
        /\ pc[r] \in {"write", "map"} => owner[r] = "onDone"
        /\ det[r] \in {"stream", "close"} =>
             owner[r] = "gone" /\ pc[r] \in {"deliver", "close", "over"}

(***************************************************************************)
(* Every collected response is counted exactly once, as completed or as    *)
(* aborted, whichever of EOF, [DONE], Close and the detached finalizer got *)
(* there first, and never in between.                                      *)
(***************************************************************************)
CountedOnce ==
    \A r \in Requests :
        /\ cnt[r].completed + cnt[r].aborted <= 1
        /\ Collected(r) /\ Gone(r) => cnt[r].completed + cnt[r].aborted = 1

(***************************************************************************)
(* A request writes its mapping at most once, although up to two Finalize  *)
(* calls run for it, and every stream is accounted for in the end: mapped, *)
(* or counted as a failed finalization.                                    *)
(***************************************************************************)
MappedOnceOrFailed ==
    \A r \in Requests :
        /\ cnt[r].fok + cnt[r].merr <= 1
        /\ body[r] = "sse" /\ Gone(r) => cnt[r].fok = 1 \/ cnt[r].ferr > 0

\* The full conversation state of r, if its answer is whole.
StateOf(r) == FullState(req[r].msgs, Assistant(Reply(r, Received(r)).text))

Complete(r) ==
    /\ req[r].participate /\ Collected(r) /\ Reply(r, Received(r)).result = "ok"
    /\ body[r] = "json" => eof[r]

Compromised(r) == failed[r] \/ expired[r]

(***************************************************************************)
(* The mapping is sound: each key was written for a request of that very   *)
(* client that got that session, and the key is the state that request     *)
(* ended in: its messages and its complete answer.  Requests with a failed *)
(* flush or an expired page entry are excepted (see NeverPartial).         *)
(***************************************************************************)
MappingSound ==
    \A k \in DOMAIN mapping : \E r \in Requests :
        /\ req[r].participate /\ req[r].client = k[1] /\ req[r].sid = mapping[k]
        /\ Compromised(r) \/ (Complete(r) /\ k[2] = StateOf(r))

\* The client has received a data: [DONE] line.
SeenDone(r) == body[r] = "sse" /\ \E i \in 1..seen[r] : sent[r][i].kind = "done"

(***************************************************************************)
(* The reason for finalizeAtDone: a client that has received [DONE] finds  *)
(* its session when it continues at once, because the mapping is written   *)
(* before the chunk with [DONE] is handed on - unless a failure of this    *)
(* request was recorded, its page entry expired (see NeverPartial), or     *)
(* session keys may expire.                                                *)
(***************************************************************************)
MappedBeforeDoneSeen ==
    \A r \in Requests :
        SeenDone(r) /\ ~Compromised(r) /\ cnt[r].ferr = 0 /\ ~SessionFaults
            => <<req[r].client, StateOf(r)>> \in DOMAIN mapping

(***************************************************************************)
(* The gateway implements Affinity as long as Redis loses no page: to the  *)
(* client, streams, finalizers and metrics come down to a memory of the    *)
(* complete states its conversations reached.  A request continues the     *)
(* state before its last message; its answer is complete when upstream     *)
(* ended it properly, and is submitted to the memory by putMapping.        *)
(***************************************************************************)
Message == [role : {"user", "assistant"}, text : Seq(Piece)]

From(r) == LET n == Len(req[r].msgs) - 1
           IN  IF n = 0 THEN NoSession ELSE SubSeq(req[r].msgs, 1, n)

\* "None" is neither a conversation state nor a grant of Affinity.
ASSUME NoneAssumption ==
    /\ NoSession \notin Seq(Message)
    /\ NoSession \notin [client : Clients, from : Seq(Message) \cup {NoSession},
                         sid : Requests \cup ClientSessions, source : {"client", "resolved", "new"}]

Promise == INSTANCE Affinity WITH
    States <- Seq(Message), Lossy <- SessionFaults, NoState <- NoSession, NoGrant <- NoSession,
    grant <- [r \in Requests |-> IF req[r].participate
                                   THEN [client |-> req[r].client, from |-> From(r),
                                         sid |-> req[r].sid, source |-> req[r].source]
                                   ELSE NoSession],
    ended <- [r \in Requests |-> IF Complete(r) THEN StateOf(r) ELSE NoSession],
    told <- [r \in Requests |-> cnt[r].fok + cnt[r].merr > 0],
    memory <- mapping

KeepsPromise == Promise!AffinitySpec

(***************************************************************************)
(* A session recovered from the mapping was begun by the same client: some *)
(* request of that client was given it as a new or as its own session.     *)
(***************************************************************************)
SessionStaysWithClient ==
    \A r \in Requests : req[r].participate /\ req[r].source = "resolved" =>
        \E q \in Requests \ {r} :
            /\ req[q].participate /\ req[q].client = req[r].client
            /\ req[q].sid = req[r].sid /\ req[q].source # "resolved"

-----------------------------------------------------------------------------
(* What a comment says of the gateway and the code does not keep: a run    *)
(* refutes it.                                                             *)

(***************************************************************************)
(* finalizeJSON counts a failed finalization for a response that is "too   *)
(* large to parse": a JSON response that was read to its end is mapped or  *)
(* counted as a failed finalization.                                       *)
(***************************************************************************)
JsonAccounted ==
    \A r \in Requests :
        body[r] = "json" /\ eof[r] /\ Gone(r) => cnt[r].fok + cnt[r].ferr > 0
=============================================================================

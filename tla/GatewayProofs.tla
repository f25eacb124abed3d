---------------------------- MODULE GatewayProofs ----------------------------
(* Theorems about the proxy handler and about the sessions it hands out,   *)
(* for every value of its constants.                                       *)
EXTENDS Gateway, CollectorProofs

Counts == [completed : Nat, aborted : Nat, ferr : Nat, fok : Nat, merr : Nat]

\* The types of the handler's own state; TypeOK has the collector's.
ProxyTypes ==
    /\ pc \in [Requests -> PCs]
    /\ body \in [Requests -> {"none", "sse", "json", "plain"}]
    /\ eof \in [Requests -> BOOLEAN]
    /\ early \in [Requests -> BOOLEAN]
    /\ once \in [Requests -> BOOLEAN]
    /\ det \in [Requests -> Dets]
    /\ cnt \in [Requests -> Counts]

\* Before a body is wrapped, and for one that is not, nothing has happened.
Untouched(r) ==
    /\ owner[r] = "none" /\ fin[r] = "none" /\ ~sealed[r]
    /\ ~eof[r] /\ ~early[r] /\ ~once[r]
    /\ det[r] = "none" /\ cnt[r] = NoCounts

\* Where the copy goroutine can be, by the kind of body.
CopyPlace(r) ==
    /\ body[r] = "none" => pc[r] \in {"idle", "upstream", "over"} /\ Untouched(r)
    /\ body[r] = "plain" => pc[r] \in {"read", "over"} /\ Untouched(r)
    /\ body[r] = "json" => /\ pc[r] \in {"read", "teed", "deliver", "close", "over"}
                           /\ owner[r] = "none" /\ fin[r] = "none" /\ ~early[r] /\ ~sealed[r]
                           /\ det[r] \in {"none", "json", "put", "done"}
    /\ body[r] = "sse" => /\ pc[r] \in PCs \ {"idle", "upstream"}
                          /\ det[r] \in {"none", "stream", "close", "put", "done"}

\* The finisher runs when the copy goroutine has stopped reading.
FinishedOnce(r) ==
    Collected(r) =>
        /\ once[r] => pc[r] \in {"deliver", "close", "over"}
        /\ eof[r] => once[r]
        /\ pc[r] = "over" => once[r]
        /\ once[r] /\ pc[r] # "over" => eof[r]
        /\ det[r] # "none" => once[r]

\* Whose the collector is, and how far its Finalize may be.
OwnerPlace(r) ==
    body[r] = "sse" =>
        /\ pc[r] \in {"write", "map"} <=> owner[r] = "onDone"
        /\ once[r] <=> owner[r] = "gone"
        /\ owner[r] # "none"
        /\ owner[r] = "onDone" \/ early[r] => sealed[r]
        /\ owner[r] = "writing" => fin[r] = IF early[r] THEN "early" ELSE "none"
        /\ pc[r] = "write" => ~early[r] /\ fin[r] \in {"none"} \cup FinSteps \cup FinResults
        /\ pc[r] = "map" => early[r] /\ fin[r] = "ok"
        /\ once[r] /\ early[r] => det[r] = "none" /\ fin[r] = "early"
        /\ once[r] /\ ~early[r] =>
             /\ det[r] # "none"
             /\ fin[r] \in {"none"} \cup FinSteps \cup FinResults
             /\ det[r] = "put" => fin[r] = "ok"
             /\ det[r] = "done" => fin[r] \in FinResults

\* How often the response was counted as over, and its mapping written.
Ended(r) == cnt[r].completed + cnt[r].aborted
Mapped(r) == cnt[r].fok + cnt[r].merr
Failed(r) == cnt[r].ferr

\* What has been counted, by how far the request is.
Completions(r) ==
    /\ early[r] => Ended(r) = 1
    /\ ~early[r] /\ ~once[r] => Ended(r) = 0
    /\ ~early[r] /\ once[r] => Ended(r) = IF det[r] = "close" THEN 0 ELSE 1

Mappings(r) ==
    /\ early[r] => Mapped(r) = IF pc[r] = "map" THEN 0 ELSE 1
    /\ ~early[r] /\ det[r] # "done" => Mapped(r) = 0
    /\ Mapped(r) <= 1

Failures(r) ==
    /\ pc[r] \in {"write", "map"} => Failed(r) = 0
    /\ ~sealed[r] /\ det[r] # "done" => Failed(r) = 0
    /\ det[r] # "done" => Failed(r) <= 1
    /\ Failed(r) <= 2
    /\ det[r] = "done" /\ body[r] = "sse" => cnt[r].fok = 1 \/ Failed(r) > 0
    /\ early[r] /\ pc[r] # "map" => cnt[r].fok = 1 \/ Failed(r) > 0

\* A body is wrapped for a participating request only.
Participates(r) ==
    /\ pc[r] = "idle" => req[r] = NoReq
    /\ Collected(r) => req[r].participate

Handling(r) ==
    /\ CopyPlace(r) /\ FinishedOnce(r) /\ OwnerPlace(r)
    /\ Completions(r) /\ Mappings(r) /\ Failures(r)

\* The inductive invariant of the handler.
Discipline ==
    /\ ProxyTypes
    /\ \A r \in Requests : Handling(r)

-----------------------------------------------------------------------------
\* A step of request r leaves the handling of the others alone.
OthersIdle(r) ==
    \A q \in Requests \ {r} :
        /\ pc'[q] = pc[q] /\ body'[q] = body[q] /\ eof'[q] = eof[q] /\ early'[q] = early[q]
        /\ once'[q] = once[q] /\ det'[q] = det[q] /\ cnt'[q] = cnt[q]
        /\ owner'[q] = owner[q] /\ fin'[q] = fin[q] /\ sealed'[q] = sealed[q]

LEMMA HandlingFrame ==
    ASSUME NEW q \in Requests, Handling(q),
           pc'[q] = pc[q], body'[q] = body[q], eof'[q] = eof[q], early'[q] = early[q],
           once'[q] = once[q], det'[q] = det[q], cnt'[q] = cnt[q],
           owner'[q] = owner[q], fin'[q] = fin[q], sealed'[q] = sealed[q]
    PROVE  Handling(q)'
  BY DEF Handling, CopyPlace, FinishedOnce, OwnerPlace, Completions, Mappings, Failures,
         Untouched, Collected, Ended, Mapped, Failed

\* The counters of r have grown by these amounts.
Adds(r, ended, err, fok, merr) ==
    /\ cnt' \in [Requests -> Counts]
    /\ \A q \in Requests \ {r} : cnt'[q] = cnt[q]
    /\ Ended(r) \in Nat /\ Ended(r)' = Ended(r) + ended
    /\ Mapped(r) \in Nat /\ Mapped(r)' = Mapped(r) + fok + merr
    /\ Failed(r) \in Nat /\ Failed(r)' = Failed(r) + err
    /\ cnt[r].fok \in Nat /\ cnt'[r].fok = cnt[r].fok + fok
    /\ Mapped(r) = 0 => cnt[r].fok = 0

LEMMA CountAdds ==
    ASSUME cnt \in [Requests -> Counts], NEW r \in Requests
    PROVE  /\ cnt' = cnt => Adds(r, 0, 0, 0, 0)
           /\ cnt' = Count(r, "completed") => Adds(r, 1, 0, 0, 0)
           /\ cnt' = Count(r, "aborted") => Adds(r, 1, 0, 0, 0)
           /\ cnt' = Count(r, "ferr") => Adds(r, 0, 1, 0, 0)
           /\ cnt' = Count(r, "fok") => Adds(r, 0, 0, 1, 0)
           /\ cnt' = [cnt EXCEPT ![r].aborted = @ + 1, ![r].ferr = @ + 1] => Adds(r, 1, 1, 0, 0)
           /\ cnt' = [cnt EXCEPT ![r].merr = @ + 1, ![r].ferr = @ + 1] => Adds(r, 0, 1, 0, 1)
<1> USE DEF Adds, Counts, Ended, Mapped, Failed
<1>1. cnt' = cnt => Adds(r, 0, 0, 0, 0)
  OBVIOUS
<1>2. cnt' = Count(r, "completed") => Adds(r, 1, 0, 0, 0)
  BY DEF Count
<1>3. cnt' = Count(r, "aborted") => Adds(r, 1, 0, 0, 0)
  BY DEF Count
<1>4. cnt' = Count(r, "ferr") => Adds(r, 0, 1, 0, 0)
  BY DEF Count
<1>5. cnt' = Count(r, "fok") => Adds(r, 0, 0, 1, 0)
  BY DEF Count
<1>6. cnt' = [cnt EXCEPT ![r].aborted = @ + 1, ![r].ferr = @ + 1] => Adds(r, 1, 1, 0, 0)
  OBVIOUS
<1>7. cnt' = [cnt EXCEPT ![r].merr = @ + 1, ![r].ferr = @ + 1] => Adds(r, 0, 1, 0, 1)
  OBVIOUS
<1> QED
  BY <1>1, <1>2, <1>3, <1>4, <1>5, <1>6, <1>7

LEMMA DisciplineStep ==
    ASSUME Discipline, NEW r \in Requests, ProxyTypes', OthersIdle(r), Handling(r)'
    PROVE  Discipline'
<1>1. ASSUME NEW q \in Requests PROVE Handling(q)'
  BY HandlingFrame DEF OthersIdle, Discipline
<1> QED
  BY <1>1 DEF Discipline

LEMMA ServeDiscipline ==
    ASSUME TypeOK, Discipline, NEW r \in Requests,
           ServeChat(r) \/ ServeTransparent(r) \/ ServeRefused(r) \/ CopyPlain(r)
    PROVE  Discipline'
<1>1. /\ UNCHANGED <<owner, fin, sealed, body, eof, early, once, det, cnt>>
      /\ pc[r] \in {"idle", "upstream"} \/ (pc[r] = "read" /\ body[r] = "plain")
      /\ \/ pc[r] = "idle" /\ pc' = [pc EXCEPT ![r] = "upstream"]
         \/ pc' = [pc EXCEPT ![r] = "over"]
  BY DEF ServeChat, ServeTransparent, ServeRefused, CopyPlain, vars, collectorVars
<1>2. ProxyTypes'
  BY <1>1 DEF ProxyTypes, Discipline, PCs
<1>3. OthersIdle(r)
  BY <1>1 DEF OthersIdle, Discipline, ProxyTypes
<1>4. Handling(r)'
  BY <1>1 DEF Handling, CopyPlace, FinishedOnce, OwnerPlace, Completions, Mappings, Failures,
         Untouched, Collected, Discipline, ProxyTypes, PCs, Ended, Mapped, Failed
<1> QED
  BY <1>2, <1>3, <1>4, DisciplineStep

LEMMA WrapDiscipline ==
    ASSUME TypeOK, Discipline, NEW r \in Requests, modifyResponse(r)
    PROVE  Discipline'
<1>1. /\ UNCHANGED <<fin, sealed, eof, early, once, det, cnt>>
      /\ pc[r] = "upstream" /\ pc' = [pc EXCEPT ![r] = "read"]
      /\ \E b \in {"sse", "json", "plain"} :
            /\ body' = [body EXCEPT ![r] = b]
            /\ owner' = IF b = "sse" THEN [owner EXCEPT ![r] = "writing"] ELSE owner
  BY DEF modifyResponse, NewCollector, vars, collectorVars
<1>2. ProxyTypes'
  BY <1>1 DEF ProxyTypes, Discipline, PCs
<1>3. OthersIdle(r)
  BY <1>1 DEF OthersIdle, Discipline, ProxyTypes, TypeOK
<1>4. Handling(r)'
  <2>1. Untouched(r)
    BY <1>1 DEF Discipline, ProxyTypes, Handling, CopyPlace, PCs
  <2>2. Completions(r)' /\ Mappings(r)' /\ Failures(r)'
    BY <1>1, <2>1 DEF Untouched, Completions, Mappings, Failures, NoCounts, Discipline, ProxyTypes,
                      Ended, Mapped, Failed
  <2>3. CopyPlace(r)' /\ FinishedOnce(r)' /\ OwnerPlace(r)'
    BY <1>1, <2>1 DEF Untouched, CopyPlace, FinishedOnce, OwnerPlace, Collected, Discipline,
                      ProxyTypes, TypeOK, PCs
  <2> QED
    BY <2>2, <2>3 DEF Handling
<1> QED
  BY <1>2, <1>3, <1>4, DisciplineStep

\* What finish does to a request that has been collected.
LEMMA Finish ==
    ASSUME TypeOK, Discipline, NEW r \in Requests, NEW e \in BOOLEAN, Collected(r), finish(r, e)
    PROVE  /\ UNCHANGED <<fin, sealed>>
           /\ once' = [once EXCEPT ![r] = TRUE]
           /\ det' \in [Requests -> Dets] /\ \A q \in Requests \ {r} : det'[q] = det[q]
           /\ owner' = IF body[r] = "sse" THEN [owner EXCEPT ![r] = "gone"] ELSE owner
           /\ \/ (once[r] \/ early[r]) /\ det' = det /\ Adds(r, 0, 0, 0, 0)
              \/ /\ ~once[r] /\ ~early[r] /\ e
                 /\ det'[r] \in (IF body[r] = "sse" THEN {"stream"} ELSE {"none", "json"})
                 /\ Adds(r, 1, 0, 0, 0)
              \/ /\ ~once[r] /\ ~early[r] /\ ~e /\ body[r] = "sse"
                 /\ det'[r] = "close" /\ Adds(r, 0, 0, 0, 0)
              \/ /\ ~once[r] /\ ~early[r] /\ ~e /\ body[r] = "json"
                 /\ det' = det /\ Adds(r, 1, 0, 0, 0)
<1>0. /\ cnt \in [Requests -> Counts] /\ once \in [Requests -> BOOLEAN]
      /\ det \in [Requests -> Dets] /\ owner \in [Requests -> Owners] /\ early[r] \in BOOLEAN
  BY DEF Discipline, ProxyTypes, TypeOK
<1>1. CASE once[r]
  <2>1. UNCHANGED <<once, det, cnt, owner, fin, sealed>>
    BY <1>1 DEF finish, vars, collectorVars
  <2>2. body[r] = "sse" => owner[r] = "gone"
    BY <1>1 DEF Discipline, Handling, OwnerPlace
  <2>3. once' = [once EXCEPT ![r] = TRUE] /\ owner' = [owner EXCEPT ![r] = owner[r]]
    BY <1>0, <1>1, <2>1
  <2> QED
    BY <1>0, <1>1, <2>1, <2>2, <2>3, CountAdds
<1>2. CASE ~once[r]
  <2>1. once' = [once EXCEPT ![r] = TRUE]
    BY <1>2 DEF finish
  <2>2. /\ UNCHANGED <<fin, sealed>>
        /\ owner' = IF body[r] = "sse" THEN [owner EXCEPT ![r] = "gone"] ELSE owner
    BY <1>2 DEF finish, CloseBody, vars, collectorVars
  <2>3. body[r] = "json" => det[r] = "none"
    BY <1>2 DEF Discipline, Handling, FinishedOnce, Collected
  <2>4. CASE ~early[r] /\ e
    <3>1. /\ cnt' = Count(r, "completed")
          /\ det' = [det EXCEPT ![r] = IF body[r] = "sse" THEN "stream"
                                       ELSE IF json[r].kept THEN "json" ELSE @]
      BY <1>2, <2>4 DEF finish, EarlyFinalized
    <3>2. Adds(r, 1, 0, 0, 0)
      BY <1>0, <3>1, CountAdds
    <3>3. /\ det' \in [Requests -> Dets] /\ \A q \in Requests \ {r} : det'[q] = det[q]
          /\ det'[r] \in (IF body[r] = "sse" THEN {"stream"} ELSE {"none", "json"})
      BY <1>0, <2>3, <3>1 DEF Dets, Collected
    <3> QED
      BY <1>2, <2>1, <2>2, <2>4, <3>2, <3>3
  <2>5. CASE early[r]
    <3>1. UNCHANGED <<det, cnt>>
      BY <1>2, <2>5 DEF finish, EarlyFinalized
    <3> QED
      BY <1>0, <2>1, <2>2, <2>5, <3>1, CountAdds
  <2>6. CASE ~early[r] /\ ~e /\ body[r] = "sse"
    <3>1. det' = [det EXCEPT ![r] = "close"] /\ UNCHANGED cnt
      BY <1>2, <2>6 DEF finish, EarlyFinalized
    <3>2. det' \in [Requests -> Dets] /\ \A q \in Requests \ {r} : det'[q] = det[q]
      BY <1>0, <3>1 DEF Dets
    <3> QED
      BY <1>0, <1>2, <2>1, <2>2, <2>6, <3>1, <3>2, CountAdds
  <2>7. CASE ~early[r] /\ ~e /\ body[r] = "json"
    <3>1. cnt' = Count(r, "aborted") /\ UNCHANGED det
      BY <1>2, <2>7 DEF finish, EarlyFinalized
    <3> QED
      BY <1>0, <1>2, <2>1, <2>2, <2>7, <3>1, CountAdds
  <2> QED
    BY <2>4, <2>5, <2>6, <2>7 DEF Collected
<1> QED
  BY <1>1, <1>2, <1>0

LEMMA EndDiscipline ==
    ASSUME TypeOK, Discipline, NEW r \in Requests, ReadReturns(r) \/ ReadEOF(r) \/ Close(r)
    PROVE  Discipline'
<1>0. Collected(r) /\ pc[r] \in {"teed", "read", "close"}
  BY DEF ReadReturns, ReadEOF, Close, Collected, Discipline, ProxyTypes, Handling, CopyPlace
<1>1. UNCHANGED <<body, early>>
  BY DEF ReadReturns, ReadEOF, Close
<1>2. ASSUME pc[r] = "teed", pc' = [pc EXCEPT ![r] = "deliver"],
             UNCHANGED <<eof, once, det, cnt, vars>>
      PROVE  Discipline'
  <2>1. UNCHANGED <<owner, fin, sealed>>
    BY <1>2 DEF vars, collectorVars
  <2>2. ProxyTypes'
    BY <1>1, <1>2 DEF ProxyTypes, Discipline, PCs
  <2>3. OthersIdle(r)
    BY <1>1, <1>2, <2>1 DEF OthersIdle, Discipline, ProxyTypes
  <2>4. Handling(r)'
    BY <1>0, <1>1, <1>2, <2>1
       DEF Handling, CopyPlace, FinishedOnce, OwnerPlace, Completions, Mappings, Failures,
           Untouched, Collected, Discipline, ProxyTypes, PCs, Ended, Mapped, Failed
  <2> QED
    BY <2>2, <2>3, <2>4, DisciplineStep
<1>3. ASSUME NEW e \in BOOLEAN, finish(r, e), NEW p \in {"deliver", "close", "over"},
             pc' = [pc EXCEPT ![r] = p], NEW f \in BOOLEAN, eof' = [eof EXCEPT ![r] = f],
             \/ pc[r] \in {"teed", "read"} /\ p # "over" /\ e /\ f
             \/ pc[r] = "close" /\ p = "over" /\ e = eof[r] /\ f = eof[r]
      PROVE  Discipline'
  <2>1. /\ UNCHANGED <<fin, sealed>>
        /\ once' = [once EXCEPT ![r] = TRUE]
        /\ det' \in [Requests -> Dets] /\ \A q \in Requests \ {r} : det'[q] = det[q]
        /\ owner' = IF body[r] = "sse" THEN [owner EXCEPT ![r] = "gone"] ELSE owner
        /\ \/ (once[r] \/ early[r]) /\ det' = det /\ Adds(r, 0, 0, 0, 0)
           \/ /\ ~once[r] /\ ~early[r] /\ e
              /\ det'[r] \in (IF body[r] = "sse" THEN {"stream"} ELSE {"none", "json"})
              /\ Adds(r, 1, 0, 0, 0)
           \/ /\ ~once[r] /\ ~early[r] /\ ~e /\ body[r] = "sse"
              /\ det'[r] = "close" /\ Adds(r, 0, 0, 0, 0)
           \/ /\ ~once[r] /\ ~early[r] /\ ~e /\ body[r] = "json"
              /\ det' = det /\ Adds(r, 1, 0, 0, 0)
    BY <1>0, <1>3, Finish
  <2>2. cnt' \in [Requests -> Counts] /\ \A q \in Requests \ {r} : cnt'[q] = cnt[q]
    BY <2>1 DEF Adds
  <2>3. ProxyTypes'
    BY <1>1, <1>3, <2>1, <2>2 DEF ProxyTypes, Discipline, PCs
  <2>4. OthersIdle(r)
    BY <1>1, <1>3, <2>1, <2>2 DEF OthersIdle, Discipline, ProxyTypes, TypeOK
  <2>5. ProxyTypes /\ Handling(r) /\ owner \in [Requests -> Owners]
    BY DEF Discipline, TypeOK
  <2>6. /\ pc'[r] = p /\ eof'[r] = f /\ once'[r] /\ body'[r] = body[r] /\ early'[r] = early[r]
        /\ fin'[r] = fin[r] /\ sealed'[r] = sealed[r]
        /\ owner'[r] = IF body[r] = "sse" THEN "gone" ELSE owner[r]
    BY <1>1, <1>3, <2>1, <2>5 DEF ProxyTypes
  <2>7. CopyPlace(r)' /\ FinishedOnce(r)'
    BY <1>0, <1>3, <2>1, <2>5, <2>6 DEF Handling, CopyPlace, FinishedOnce, Collected, PCs, Untouched
  <2>8. OwnerPlace(r)'
    BY <1>0, <1>3, <2>1, <2>5, <2>6 DEF Handling, CopyPlace, FinishedOnce, OwnerPlace, Collected,
                                        Owners, ProxyTypes
  <2>9. Completions(r)' /\ Mappings(r)' /\ Failures(r)'
    <3>1. cnt[r] \in Counts
      BY <2>5 DEF ProxyTypes
    <3>2. /\ early[r] => det[r] # "done" /\ pc[r] # "map"
          /\ ~once[r] => det[r] = "none"
          /\ ~(pc[r] = "write" \/ p \in {"write", "map"})
          /\ early[r] \in BOOLEAN /\ once[r] \in BOOLEAN
      BY <1>0, <2>5 DEF Handling, FinishedOnce, OwnerPlace, CopyPlace, Collected, ProxyTypes
    <3>3. Completions(r)' /\ Mappings(r)' /\ Failures(r)'
      BY <1>0, <2>1, <2>5, <2>6, <3>2, SMTT(30) DEF Handling, Completions, Mappings, Failures, Adds
    <3> QED
      BY <3>3
  <2> QED
    BY <2>3, <2>4, <2>7, <2>8, <2>9, DisciplineStep DEF Handling
<1>4. CASE ReadReturns(r)
  <2>1. CASE UNCHANGED <<eof, once, det, cnt, vars>>
    BY <1>2, <1>4, <2>1 DEF ReadReturns
  <2>2. CASE eof' = [eof EXCEPT ![r] = TRUE] /\ finish(r, TRUE)
    <3>1. /\ finish(r, TRUE) /\ pc[r] = "teed" /\ pc' = [pc EXCEPT ![r] = "deliver"]
          /\ eof' = [eof EXCEPT ![r] = TRUE]
      BY <1>4, <2>2 DEF ReadReturns
    <3> QED
      BY <1>3, <3>1
  <2> QED
    BY <1>4, <2>1, <2>2 DEF ReadReturns
<1>5. CASE ReadEOF(r)
  <2>1. /\ finish(r, TRUE) /\ pc[r] = "read" /\ pc' = [pc EXCEPT ![r] = "close"]
        /\ eof' = [eof EXCEPT ![r] = TRUE]
    BY <1>5 DEF ReadEOF
  <2> QED
    BY <1>3, <2>1
<1>6. CASE Close(r)
  <2>1. eof' = [eof EXCEPT ![r] = eof[r]] /\ eof[r] \in BOOLEAN
    BY <1>6 DEF Close, Discipline, ProxyTypes
  <2> QED
    BY <1>3, <1>6, <2>1 DEF Close
<1> QED
  BY <1>4, <1>5, <1>6

LEMMA DeliverDiscipline ==
    ASSUME TypeOK, Discipline, NEW r \in Requests, Deliver(r) \/ DeliverFails(r) \/ ReadFails(r)
    PROVE  Discipline'
<1>1. /\ UNCHANGED <<owner, fin, sealed, body, eof, early, once, det, cnt>>
      /\ pc[r] \in {"read", "deliver"} /\ Collected(r)
      /\ \E p \in {"read", "close"} :
            pc' = [pc EXCEPT ![r] = p] /\ (p = "read" => ~eof[r])
  BY DEF Deliver, DeliverFails, ReadFails, vars, collectorVars, Collected, Discipline, Handling,
         CopyPlace, ProxyTypes
<1>2. ProxyTypes'
  BY <1>1 DEF ProxyTypes, Discipline, PCs
<1>3. OthersIdle(r)
  BY <1>1 DEF OthersIdle, Discipline, ProxyTypes
<1>4. Handling(r)'
  BY <1>1 DEF Handling, CopyPlace, FinishedOnce, OwnerPlace, Completions, Mappings, Failures,
         Untouched, Collected, Discipline, ProxyTypes, PCs, Ended, Mapped, Failed
<1> QED
  BY <1>2, <1>3, <1>4, DisciplineStep

LEMMA ReadDiscipline ==
    ASSUME TypeOK, Discipline, NEW r \in Requests, ReadStream(r) \/ ReadJson(r)
    PROVE  Discipline'
<1>1. /\ UNCHANGED <<fin, body, eof, early, once, det, cnt>>
      /\ pc[r] = "read" /\ Collected(r)
      /\ \/ pc' = [pc EXCEPT ![r] = "teed"] /\ UNCHANGED <<owner, sealed>>
         \/ /\ pc' = [pc EXCEPT ![r] = "write"] /\ body[r] = "sse" /\ ~sealed[r]
            /\ owner' = [owner EXCEPT ![r] = "onDone"]
            /\ sealed' = [sealed EXCEPT ![r] = TRUE]
  <2>1. CASE ReadJson(r)
    BY <2>1 DEF ReadJson, vars, collectorVars, Collected
  <2>2. CASE ReadStream(r)
    <3>1. PICK c \in Chunks : Write(r, c)
      BY <2>2 DEF ReadStream
    <3>2. owner[r] = "writing" /\ UNCHANGED fin
      BY <3>1 DEF Write
    <3>3. \/ UNCHANGED <<owner, sealed>>
          \/ /\ ~sealed[r] /\ owner' = [owner EXCEPT ![r] = "onDone"]
             /\ sealed' = [sealed EXCEPT ![r] = TRUE]
      BY <3>1 DEF Write, Ignores, watchDone
    <3>4. pc' = [pc EXCEPT ![r] = IF owner'[r] = "onDone" THEN "write" ELSE "teed"]
      BY <2>2 DEF ReadStream
    <3>5. \/ pc' = [pc EXCEPT ![r] = "teed"] /\ UNCHANGED <<owner, sealed>>
          \/ /\ pc' = [pc EXCEPT ![r] = "write"] /\ ~sealed[r]
             /\ owner' = [owner EXCEPT ![r] = "onDone"]
             /\ sealed' = [sealed EXCEPT ![r] = TRUE]
      BY <3>2, <3>3, <3>4 DEF TypeOK
    <3> QED
      BY <2>2, <3>2, <3>5 DEF ReadStream, Collected
  <2> QED
    BY <2>1, <2>2
<1>2. ProxyTypes'
  BY <1>1 DEF ProxyTypes, Discipline, PCs
<1>3. OthersIdle(r)
  BY <1>1 DEF OthersIdle, Discipline, ProxyTypes, TypeOK
<1>4. Handling(r)'
  <2>1. Handling(r) /\ ProxyTypes /\ owner \in [Requests -> Owners] /\ sealed \in [Requests -> BOOLEAN]
    BY DEF Discipline, TypeOK
  <2>2. CopyPlace(r)' /\ FinishedOnce(r)' /\ OwnerPlace(r)'
    <3>0. ~once[r] /\ ~eof[r] /\ (body[r] = "sse" => owner[r] # "onDone")
      BY <1>1, <2>1 DEF Handling, FinishedOnce, OwnerPlace
    <3>1. CASE pc' = [pc EXCEPT ![r] = "teed"] /\ UNCHANGED <<owner, sealed>>
      BY <1>1, <2>1, <3>0, <3>1 DEF Handling, CopyPlace, FinishedOnce, OwnerPlace, Untouched,
                      Collected, ProxyTypes, PCs
    <3>2. CASE /\ pc' = [pc EXCEPT ![r] = "write"] /\ body[r] = "sse" /\ ~sealed[r]
               /\ owner' = [owner EXCEPT ![r] = "onDone"]
               /\ sealed' = [sealed EXCEPT ![r] = TRUE]
      <4>1. /\ pc'[r] = "write" /\ owner'[r] = "onDone" /\ sealed'[r] /\ ~early[r]
            /\ fin[r] = "none" /\ det[r] = "none"
        BY <1>1, <2>1, <3>0, <3>2 DEF Handling, OwnerPlace, FinishedOnce, ProxyTypes, Owners, Collected
      <4> QED
        BY <1>1, <2>1, <3>0, <3>2, <4>1 DEF CopyPlace, FinishedOnce, OwnerPlace, PCs
    <3> QED
      BY <1>1, <3>1, <3>2
  <2>3. Completions(r)' /\ Mappings(r)' /\ Failures(r)'
    BY <1>1, <2>1 DEF Handling, FinishedOnce, OwnerPlace, Completions, Mappings, Failures,
                      Collected, ProxyTypes, Ended, Mapped, Failed
  <2> QED
    BY <2>2, <2>3 DEF Handling
<1> QED
  BY <1>2, <1>3, <1>4, DisciplineStep

\* finalizeAtDone, inside Write.
LEMMA AtDoneDiscipline ==
    ASSUME TypeOK, Discipline, NEW r \in Requests,
           AtDoneFails(r) \/ AtDoneSucceeds(r) \/ AtDoneMaps(r)
    PROVE  Discipline'
<1>0. /\ Handling(r) /\ ProxyTypes /\ owner \in [Requests -> Owners]
      /\ fin \in [Requests -> FinStates] /\ cnt \in [Requests -> Counts]
  BY DEF Discipline, TypeOK, ProxyTypes
<1>1. UNCHANGED <<body, eof, once, det, sealed>> /\ pc[r] \in {"write", "map"} /\ body[r] = "sse"
  BY <1>0 DEF AtDoneFails, AtDoneSucceeds, AtDoneMaps, WriteReturn, vars, collectorVars,
              Handling, CopyPlace, ProxyTypes
<1>2. \/ /\ pc[r] = "write" /\ pc' = [pc EXCEPT ![r] = "teed"] /\ Adds(r, 0, 1, 0, 0)
         /\ owner' = [owner EXCEPT ![r] = "writing"] /\ fin' = [fin EXCEPT ![r] = "none"]
         /\ UNCHANGED early
      \/ /\ pc[r] = "write" /\ pc' = [pc EXCEPT ![r] = "map"] /\ Adds(r, 1, 0, 0, 0)
         /\ UNCHANGED <<owner, fin>> /\ fin[r] = "ok" /\ early' = [early EXCEPT ![r] = TRUE]
      \/ /\ pc[r] = "map" /\ pc' = [pc EXCEPT ![r] = "teed"]
         /\ Adds(r, 0, 0, 1, 0) \/ Adds(r, 0, 1, 0, 1)
         /\ owner' = [owner EXCEPT ![r] = "writing"] /\ fin' = [fin EXCEPT ![r] = "early"]
         /\ UNCHANGED early
  <2>1. CASE AtDoneFails(r)
    BY <1>0, <2>1, CountAdds DEF AtDoneFails, WriteReturn, FinErrors
  <2>2. CASE AtDoneSucceeds(r)
    BY <1>0, <2>2, CountAdds DEF AtDoneSucceeds, vars, collectorVars
  <2>3. CASE AtDoneMaps(r)
    <3>1. fin[r] = "ok"
      BY <1>0, <1>1, <2>3 DEF AtDoneMaps, Handling, OwnerPlace
    <3>2. fin' = [fin EXCEPT ![r] = "early"] /\ owner' = [owner EXCEPT ![r] = "writing"]
      BY <2>3, <3>1 DEF AtDoneMaps, WriteReturn
    <3>3. Adds(r, 0, 0, 1, 0) \/ Adds(r, 0, 1, 0, 1)
      BY <1>0, <2>3, CountAdds DEF AtDoneMaps, putMapping
    <3> QED
      BY <2>3, <3>2, <3>3 DEF AtDoneMaps
  <2> QED
    BY <2>1, <2>2, <2>3
<1>3. cnt' \in [Requests -> Counts] /\ \A q \in Requests \ {r} : cnt'[q] = cnt[q]
  BY <1>2 DEF Adds
<1>4. ProxyTypes'
  BY <1>0, <1>1, <1>2, <1>3 DEF ProxyTypes, PCs
<1>5. OthersIdle(r)
  BY <1>0, <1>1, <1>2, <1>3 DEF OthersIdle, ProxyTypes
<1>6. CopyPlace(r)' /\ FinishedOnce(r)' /\ OwnerPlace(r)'
  BY <1>0, <1>1, <1>2 DEF Handling, CopyPlace, FinishedOnce, OwnerPlace, Untouched, Collected,
                          ProxyTypes, PCs
<1>7. Completions(r)' /\ Mappings(r)' /\ Failures(r)'
  BY <1>0, <1>1, <1>2 DEF Handling, FinishedOnce, OwnerPlace, Completions, Mappings, Failures,
                          Collected, ProxyTypes, Adds
<1> QED
  BY <1>4, <1>5, <1>6, <1>7, DisciplineStep DEF Handling

\* The detached finalizers.
LEMMA DetachedDiscipline ==
    ASSUME TypeOK, Discipline, NEW r \in Requests, Detached(r)
    PROVE  Discipline'
<1>0. /\ Handling(r) /\ ProxyTypes /\ cnt \in [Requests -> Counts]
  BY DEF Discipline, ProxyTypes
<1>1. UNCHANGED <<owner, fin, sealed, pc, body, eof, early, once>>
  BY DEF Detached, finalizeStream, finalizeStreamOnClose, finalizeJSON, DetachedMaps, vars,
         collectorVars
<1>2. \/ /\ det[r] \in {"stream", "json"} /\ (det[r] = "stream" => fin[r] = "ok")
         /\ det' = [det EXCEPT ![r] = "put"] /\ Adds(r, 0, 0, 0, 0)
      \/ /\ det[r] \in {"stream", "json"} /\ (det[r] = "stream" => fin[r] \in FinResults)
         /\ det' = [det EXCEPT ![r] = "done"] /\ Adds(r, 0, 1, 0, 0)
      \/ /\ det[r] = "close" /\ fin[r] = "ok"
         /\ det' = [det EXCEPT ![r] = "put"] /\ Adds(r, 1, 0, 0, 0)
      \/ /\ det[r] = "close" /\ fin[r] \in FinResults
         /\ det' = [det EXCEPT ![r] = "done"] /\ Adds(r, 1, 1, 0, 0)
      \/ /\ det[r] = "put" /\ det' = [det EXCEPT ![r] = "done"]
         /\ Adds(r, 0, 0, 1, 0) \/ Adds(r, 0, 1, 0, 1)
  <2>1. CASE finalizeStream(r)
    BY <1>0, <2>1, CountAdds DEF finalizeStream
  <2>2. CASE finalizeStreamOnClose(r)
    BY <1>0, <2>2, CountAdds DEF finalizeStreamOnClose
  <2>3. CASE finalizeJSON(r)
    BY <1>0, <2>3, CountAdds DEF finalizeJSON
  <2>4. CASE DetachedMaps(r)
    BY <1>0, <2>4, CountAdds DEF DetachedMaps, putMapping
  <2> QED
    BY <2>1, <2>2, <2>3, <2>4 DEF Detached
<1>3. cnt' \in [Requests -> Counts] /\ \A q \in Requests \ {r} : cnt'[q] = cnt[q]
  BY <1>2 DEF Adds
<1>4. ProxyTypes'
  BY <1>0, <1>1, <1>2, <1>3 DEF ProxyTypes, Dets
<1>5. OthersIdle(r)
  BY <1>0, <1>1, <1>2, <1>3 DEF OthersIdle, ProxyTypes
<1>6. once[r] /\ ~early[r] /\ Collected(r) /\ pc[r] \in {"deliver", "close", "over"}
  BY <1>0, <1>2 DEF Handling, CopyPlace, FinishedOnce, OwnerPlace, Collected, Untouched, ProxyTypes
<1>7. CopyPlace(r)' /\ FinishedOnce(r)' /\ OwnerPlace(r)'
  BY <1>0, <1>1, <1>2, <1>6 DEF Handling, CopyPlace, FinishedOnce, OwnerPlace, Collected,
                          ProxyTypes, Dets, FinResults
<1>8. det'[r] \in {"put", "done"} /\ det[r] # "done"
  BY <1>0, <1>2 DEF ProxyTypes
<1>9. Completions(r)' /\ Mappings(r)' /\ Failures(r)'
  BY <1>0, <1>1, <1>2, <1>6, <1>8 DEF Handling, Completions, Mappings, Failures, ProxyTypes, Adds
<1> QED
  BY <1>4, <1>5, <1>7, <1>9, DisciplineStep DEF Handling

\* A step inside Finalize changes nothing of the handler's.
LEMMA FinalizeDiscipline ==
    ASSUME TypeOK, Discipline, NEW r \in Requests, FinalizeRuns(r)
    PROVE  Discipline'
<1>0. Handling(r) /\ ProxyTypes
  BY DEF Discipline
<1>1. /\ UNCHANGED <<owner, sealed, pc, body, eof, early, once, det, cnt>>
      /\ fin[r] \in {"none"} \cup FinSteps
      /\ \E f \in FinSteps \cup FinResults : fin' = [fin EXCEPT ![r] = f]
  <2>1. UNCHANGED <<owner, sealed, pc, body, eof, early, once, det, cnt>>
    BY DEF FinalizeRuns, FinalizeStep, FinalizeCall, FinalizeWait, FinalizeRead, FinalizeDelete,
           proxyVars
  <2>2. CASE FinalizeDelete(r)
    BY <2>1, <2>2, ParseResult DEF FinalizeDelete, FinSteps
  <2>3. CASE FinalizeCall(r) \/ FinalizeWait(r) \/ FinalizeRead(r)
    BY <2>1, <2>3 DEF FinalizeCall, FinalizeWait, FinalizeRead, FinSteps, FinResults, FinErrors
  <2> QED
    BY <2>2, <2>3 DEF FinalizeRuns, FinalizeStep
<1>2. fin \in [Requests -> FinStates] /\ Finalizing(r)
  BY DEF TypeOK, FinalizeRuns
<1>3. ProxyTypes'
  BY <1>0, <1>1 DEF ProxyTypes
<1>4. OthersIdle(r)
  BY <1>1, <1>2 DEF OthersIdle
<1>5. /\ body[r] = "sse"
      /\ \/ pc[r] = "write" /\ ~once[r] /\ det[r] = "none"
         \/ once[r] /\ ~early[r] /\ det[r] \in {"stream", "close"}
  BY <1>0, <1>2 DEF Finalizing, Handling, CopyPlace, FinishedOnce, OwnerPlace, Collected, Untouched,
                    ProxyTypes, Dets
<1>6. CopyPlace(r)' /\ FinishedOnce(r)'
  BY <1>0, <1>1, <1>5 DEF Handling, CopyPlace, FinishedOnce, Collected
<1>7. OwnerPlace(r)'
  BY <1>0, <1>1, <1>2, <1>5 DEF Handling, OwnerPlace, FinishedOnce, Collected
<1>8. Completions(r)' /\ Mappings(r)' /\ Failures(r)'
  BY <1>0, <1>1 DEF Handling, Completions, Mappings, Failures, Ended, Mapped, Failed
<1> QED
  BY <1>3, <1>4, <1>6, <1>7, <1>8, DisciplineStep DEF Handling

\* The workers, Redis and its clock touch none of it.
LEMMA QuietDiscipline ==
    ASSUME Discipline,
           UNCHANGED <<owner, fin, sealed, pc, body, eof, early, once, det, cnt>>
    PROVE  Discipline'
<1>1. ProxyTypes'
  BY DEF ProxyTypes, Discipline
<1>2. ASSUME NEW q \in Requests PROVE Handling(q)'
  BY HandlingFrame DEF Discipline
<1> QED
  BY <1>1, <1>2 DEF Discipline

LEMMA EnvironmentDiscipline ==
    ASSUME Discipline, Environment \/ UNCHANGED gatewayVars
    PROVE  Discipline'
<1>1. UNCHANGED <<owner, fin, sealed>>
  BY DEF Environment, WorkerStep, WorkerTake, WorkerPut, WorkerDone, RedisLate, Expire,
         collectorVars, vars, gatewayVars
<1>2. UNCHANGED <<pc, body, eof, early, once, det, cnt>>
  BY DEF Environment, proxyVars, gatewayVars
<1> QED
  BY <1>1, <1>2, QuietDiscipline

LEMMA NextDiscipline ==
    TypeOK /\ Discipline /\ [GatewayNext]_gatewayVars => Discipline'
<1> SUFFICES ASSUME TypeOK, Discipline, [GatewayNext]_gatewayVars PROVE Discipline'
  OBVIOUS
<1>1. ASSUME NEW r \in Requests, Arrival(r) PROVE Discipline'
  BY <1>1, ServeDiscipline, WrapDiscipline DEF Arrival
<1>2. ASSUME NEW r \in Requests, Upstream(r) PROVE Discipline'
  BY <1>2, ReadDiscipline, EndDiscipline, DeliverDiscipline DEF Upstream
<1>3. ASSUME NEW r \in Requests, CopyGoroutine(r) PROVE Discipline'
  BY <1>3, EndDiscipline, DeliverDiscipline, ServeDiscipline, AtDoneDiscipline DEF CopyGoroutine
<1>4. ASSUME NEW r \in Requests, FinalizeRuns(r) PROVE Discipline'
  BY <1>4, FinalizeDiscipline
<1>5. ASSUME NEW r \in Requests, Detached(r) PROVE Discipline'
  BY <1>5, DetachedDiscipline
<1>6. ASSUME Environment \/ UNCHANGED gatewayVars PROVE Discipline'
  BY <1>6, EnvironmentDiscipline
<1> QED
  BY <1>1, <1>2, <1>3, <1>4, <1>5, <1>6 DEF GatewayNext

LEMMA InitDiscipline == GatewayInit => Discipline
<1> SUFFICES ASSUME GatewayInit PROVE Discipline
  OBVIOUS
<1>1. ProxyTypes
  BY DEF GatewayInit, ProxyTypes, PCs, Dets, Counts, NoCounts
<1>2. ASSUME NEW r \in Requests PROVE Handling(r)
  <2>1. Untouched(r) /\ body[r] = "none" /\ pc[r] = "idle"
    BY DEF GatewayInit, CollectorInit, Untouched
  <2> QED
    BY <2>1 DEF Untouched, Handling, CopyPlace, FinishedOnce, OwnerPlace, Completions, Mappings,
       Failures, Collected, Ended, Mapped, Failed, NoCounts
<1> QED
  BY <1>1, <1>2 DEF Discipline

-----------------------------------------------------------------------------
(* The handler over the collector.                                         *)

\* Every step of the gateway is a step of the collector or leaves it alone.
LEMMA GatewayStep == [GatewayNext]_gatewayVars => [CollectorNext]_vars
<1> SUFFICES ASSUME [GatewayNext]_gatewayVars PROVE [CollectorNext]_vars
  OBVIOUS
<1> USE DEF CollectorNext, CopyStep
<1>1. ASSUME NEW r \in Requests, Arrival(r) PROVE [CollectorNext]_vars
  <2>1. UNCHANGED vars \/ NewCollector(r)
    BY <1>1 DEF Arrival, ServeChat, ServeTransparent, ServeRefused, modifyResponse
  <2> QED
    BY <2>1
<1>2. ASSUME NEW r \in Requests, NEW e, finish(r, e) PROVE UNCHANGED vars \/ CloseBody(r)
  BY <1>2 DEF finish
<1>3. ASSUME NEW r \in Requests, Upstream(r) PROVE [CollectorNext]_vars
  <2>1. UNCHANGED vars \/ CloseBody(r) \/ \E c \in Chunks : Write(r, c)
    BY <1>2, <1>3 DEF Upstream, ReadStream, ReadJson, ReadEOF, ReadFails
  <2> QED
    BY <2>1
<1>4. ASSUME NEW r \in Requests, CopyGoroutine(r) PROVE [CollectorNext]_vars
  <2>1. UNCHANGED vars \/ CloseBody(r) \/ WriteReturn(r)
    BY <1>2, <1>4 DEF CopyGoroutine, ReadReturns, Deliver, DeliverFails, Close, CopyPlain,
                      AtDoneFails, AtDoneSucceeds, AtDoneMaps
  <2> QED
    BY <2>1
<1>5. ASSUME NEW r \in Requests, FinalizeRuns(r) PROVE [CollectorNext]_vars
  BY <1>5 DEF FinalizeRuns
<1>6. ASSUME NEW r \in Requests, Detached(r) PROVE [CollectorNext]_vars
  BY <1>6 DEF Detached, finalizeStream, finalizeStreamOnClose, finalizeJSON, DetachedMaps
<1>7. ASSUME Environment \/ UNCHANGED gatewayVars PROVE [CollectorNext]_vars
  BY <1>7 DEF Environment, gatewayVars
<1> QED
  BY <1>1, <1>3, <1>4, <1>5, <1>6, <1>7 DEF GatewayNext

(***************************************************************************)
(* The handler uses the Collector as its contract allows: whatever EOF,    *)
(* [DONE], Close, finalizers and faults come to, what the gateway does to  *)
(* its collectors, the pool and Redis is a behaviour of CollectorSpec, so  *)
(* that every theorem about the collector holds in the gateway.            *)
(***************************************************************************)
THEOREM GatewayUsesCollector == GatewaySpec => CollectorSpec
<1>1. GatewayInit => CollectorInit
  BY DEF GatewayInit
<1> QED
  BY <1>1, GatewayStep, PTL DEF GatewaySpec, CollectorSpec

LEMMA GatewayDiscipline == GatewaySpec => [](TypeOK /\ Discipline)
<1>1. GatewayInit => TypeOK
  BY InitType DEF GatewayInit
<1>2. TypeOK /\ [GatewayNext]_gatewayVars => TypeOK'
  BY GatewayStep, NextType
<1> QED
  BY <1>1, <1>2, InitDiscipline, NextDiscipline, PTL DEF GatewaySpec

(***************************************************************************)
(* At every call into a Collector the handler's goroutine is the only one  *)
(* inside: streamBody.Read, finalizeAtDone inside Write and the detached   *)
(* finalizers never overlap, for any number of requests and any chunks.    *)
(***************************************************************************)
THEOREM CollectorSingleOwner == GatewaySpec => []SingleOwner
<1>1. TypeOK /\ Discipline => SingleOwner
  <2> SUFFICES ASSUME TypeOK, Discipline, NEW r \in Requests, body[r] = "sse"
               PROVE  /\ pc[r] = "read" => owner[r] = "writing"
                      /\ pc[r] \in {"write", "map"} => owner[r] = "onDone"
                      /\ det[r] \in {"stream", "close"} =>
                           owner[r] = "gone" /\ pc[r] \in {"deliver", "close", "over"}
    BY DEF SingleOwner
  <2>1. Handling(r) /\ owner[r] \in Owners
    BY DEF Discipline, TypeOK
  <2> QED
    BY <2>1 DEF Handling, FinishedOnce, OwnerPlace, Collected, Owners
<1> QED
  BY <1>1, GatewayDiscipline, PTL

(***************************************************************************)
(* streamsCompleted and streamsAborted: each collected response is counted *)
(* once in the one or the other, in every order of EOF, [DONE], Close and  *)
(* the finalizer that finish detaches, and never twice on the way.         *)
(***************************************************************************)
THEOREM EveryResponseCountedOnce == GatewaySpec => []CountedOnce
<1>1. TypeOK /\ Discipline => CountedOnce
  <2> SUFFICES ASSUME TypeOK, Discipline, NEW r \in Requests
               PROVE  Ended(r) <= 1 /\ (Collected(r) /\ Gone(r) => Ended(r) = 1)
    BY DEF CountedOnce, Ended
  <2>1. Handling(r) /\ early[r] \in BOOLEAN /\ once[r] \in BOOLEAN
    BY DEF Discipline, ProxyTypes
  <2> QED
    BY <2>1 DEF Handling, FinishedOnce, Completions, Gone
<1> QED
  BY <1>1, GatewayDiscipline, PTL

(***************************************************************************)
(* putMapping runs at most once for a request, although finalizeAtDone and *)
(* a finalizer at the close may both run; and a stream that has left the   *)
(* gateway was mapped or counted as a failed finalization.                 *)
(***************************************************************************)
THEOREM EveryStreamMappedOnceOrFailed == GatewaySpec => []MappedOnceOrFailed
<1>1. TypeOK /\ Discipline => MappedOnceOrFailed
  <2> SUFFICES ASSUME TypeOK, Discipline, NEW r \in Requests
               PROVE  /\ Mapped(r) <= 1
                      /\ body[r] = "sse" /\ Gone(r) => cnt[r].fok = 1 \/ Failed(r) > 0
    BY DEF MappedOnceOrFailed, Mapped, Failed
  <2>1. Handling(r) /\ early[r] \in BOOLEAN /\ once[r] \in BOOLEAN
    BY DEF Discipline, ProxyTypes
  <2> QED
    BY <2>1 DEF Handling, FinishedOnce, OwnerPlace, Mappings, Failures, Gone, Collected
<1> QED
  BY <1>1, GatewayDiscipline, PTL

-----------------------------------------------------------------------------
(* Sessions.                                                               *)

Sessions == Requests \cup ClientSessions

\* What prepare leaves in reqState.
IsReq(q) ==
    \/ q = NoReq
    \/ q.participate = TRUE /\ q.sid \in Sessions

\* Session s of client c began with request q.
Began(q, c, s) ==
    /\ req[q].participate /\ req[q].client = c /\ req[q].sid = s /\ req[q].source # "resolved"

SessionTypes ==
    /\ DOMAIN req = Requests /\ req = [r \in Requests |-> req[r]]
    /\ \A r \in Requests : IsReq(req[r])
    /\ mapping = [k \in DOMAIN mapping |-> mapping[k]]
    /\ \A k \in DOMAIN mapping : mapping[k] \in Sessions

MappingBegan == \A k \in DOMAIN mapping : \E q \in Requests : Began(q, k[1], mapping[k])

ResolvedBegan ==
    \A r \in Requests : req[r].participate /\ req[r].source = "resolved" =>
        \E q \in Requests \ {r} : Began(q, req[r].client, req[r].sid)

\* The inductive invariant of the sessions.
Lineage ==
    /\ SessionTypes
    /\ \A r \in Requests : Participates(r)
    /\ MappingBegan /\ ResolvedBegan

-----------------------------------------------------------------------------
\* The copy goroutines move on, and wrap no body of a request that does not
\* take part.
Onward ==
    \A r \in Requests : /\ pc'[r] = "idle" => pc[r] = "idle"
                        /\ Collected(r)' => Collected(r) \/ req[r].participate

\* A mapping is written for a collected response.
Puts(r) == Collected(r) /\ \E text : putMapping(r, text)

\* What a step of the gateway may do to requests and mapping.
LEMMA SessionSteps ==
    ASSUME TypeOK, Discipline, [GatewayNext]_gatewayVars
    PROVE  \/ UNCHANGED <<req, mapping>> /\ Onward
           \/ \E r \in Requests : ServeChat(r)
           \/ (\E r \in Requests : Puts(r)) /\ UNCHANGED req /\ Onward
           \/ ExpireSession /\ UNCHANGED req /\ Onward
<1>0. ProxyTypes
  BY DEF Discipline
<1>1. ASSUME NEW r \in Requests, NEW p \in PCs \ {"idle"}, pc' = [pc EXCEPT ![r] = p],
             UNCHANGED body
      PROVE  Onward
  BY <1>0, <1>1 DEF Onward, Collected, ProxyTypes
<1>2. ASSUME UNCHANGED <<pc, body>> PROVE Onward
  BY <1>2 DEF Onward, Collected
<1>3. ASSUME NEW r \in Requests, Arrival(r)
      PROVE  (UNCHANGED <<req, mapping>> /\ Onward) \/ ServeChat(r)
  <2>1. CASE modifyResponse(r)
    BY <1>0, <2>1 DEF modifyResponse, Onward, Collected, ProxyTypes
  <2>2. CASE ServeTransparent(r) \/ ServeRefused(r)
    BY <1>1, <2>2 DEF ServeTransparent, ServeRefused, PCs
  <2> QED
    BY <1>3, <2>1, <2>2 DEF Arrival
<1>4. ASSUME NEW r \in Requests, Upstream(r) PROVE UNCHANGED <<req, mapping>> /\ Onward
  BY <1>1, <1>4 DEF Upstream, ReadStream, ReadJson, ReadEOF, ReadFails, PCs
<1>5. ASSUME NEW r \in Requests, CopyGoroutine(r), ~AtDoneMaps(r)
      PROVE  UNCHANGED <<req, mapping>> /\ Onward
  BY <1>1, <1>5 DEF CopyGoroutine, ReadReturns, Deliver, DeliverFails, Close, CopyPlain,
                    AtDoneFails, AtDoneSucceeds, PCs
<1>6. ASSUME NEW r \in Requests, AtDoneMaps(r) PROVE Puts(r) /\ UNCHANGED req /\ Onward
  <2>1. Collected(r)
    BY <1>0, <1>6 DEF AtDoneMaps, Discipline, Handling, CopyPlace, Collected, ProxyTypes
  <2> QED
    BY <1>1, <1>6, <2>1 DEF AtDoneMaps, Puts, PCs
<1>7. ASSUME NEW r \in Requests, FinalizeRuns(r) PROVE UNCHANGED <<req, mapping>> /\ Onward
  BY <1>2, <1>7 DEF FinalizeRuns, proxyVars
<1>8. ASSUME NEW r \in Requests, Detached(r), ~DetachedMaps(r)
      PROVE UNCHANGED <<req, mapping>> /\ Onward
  BY <1>2, <1>8 DEF Detached, finalizeStream, finalizeStreamOnClose, finalizeJSON
<1>9. ASSUME NEW r \in Requests, DetachedMaps(r) PROVE Puts(r) /\ UNCHANGED req /\ Onward
  <2>1. Collected(r)
    BY <1>0, <1>9 DEF DetachedMaps, Discipline, Handling, CopyPlace, Collected, ProxyTypes, Untouched
  <2> QED
    BY <1>2, <1>9, <2>1 DEF DetachedMaps, Puts
<1>10. ASSUME Environment \/ UNCHANGED gatewayVars
       PROVE  /\ UNCHANGED req /\ Onward
              /\ UNCHANGED mapping \/ ExpireSession
  BY <1>2, <1>10 DEF Environment, gatewayVars, proxyVars
<1> QED
  BY <1>3, <1>4, <1>5, <1>6, <1>7, <1>8, <1>9, <1>10 DEF GatewayNext

-----------------------------------------------------------------------------
LEMMA InitLineage == GatewayInit => Lineage
<1> SUFFICES ASSUME GatewayInit PROVE Lineage
  OBVIOUS
<1>1. DOMAIN mapping = {} /\ mapping = [k \in DOMAIN mapping |-> mapping[k]]
  BY DEF GatewayInit, SessionInit
<1>2. \A r \in Requests : req[r] = NoReq /\ ~Collected(r) /\ ~req[r].participate
  BY DEF GatewayInit, Collected, NoReq
<1>3. DOMAIN req = Requests /\ req = [r \in Requests |-> req[r]]
  BY DEF GatewayInit
<1> QED
  BY <1>1, <1>2, <1>3 DEF Lineage, SessionTypes, IsReq, Participates, MappingBegan, ResolvedBegan

\* The copy goroutine leaves "idle" for good, and the request is the same.
LEMMA ParticipatesOnward ==
    ASSUME \A r \in Requests : Participates(r), UNCHANGED req, Onward
    PROVE  \A r \in Requests : Participates(r)'
  BY DEF Participates, Onward

LEMMA BeganStays ==
    ASSUME UNCHANGED req, NEW q, NEW c, NEW s, Began(q, c, s)
    PROVE  Began(q, c, s)'
  BY DEF Began

LEMMA ResolvedStays ==
    ASSUME ResolvedBegan, UNCHANGED req
    PROVE  ResolvedBegan'
  BY DEF ResolvedBegan, Began

LEMMA PutLineage ==
    ASSUME Lineage, NEW r \in Requests, Puts(r), UNCHANGED req, Onward
    PROVE  Lineage'
<1>0. req[r].participate
  BY DEF Lineage, Participates, Puts
<1>1. req[r].sid \in Sessions
  BY <1>0 DEF Lineage, SessionTypes, IsReq, NoReq
<1>2. PICK q \in Requests : Began(q, req[r].client, req[r].sid)
  BY <1>0 DEF Lineage, ResolvedBegan, Began
<1>3. PICK state : UNCHANGED mapping \/ SetSession(<<req[r].client, state>>, req[r].sid)
  BY DEF Puts, putMapping, PutSession, PutSessionError, SessionKey
<1>4. CASE UNCHANGED mapping
  BY <1>4, ParticipatesOnward, ResolvedStays DEF Lineage, SessionTypes, MappingBegan, Began
<1>5. CASE SetSession(<<req[r].client, state>>, req[r].sid)
  <2> DEFINE key == <<req[r].client, state>>
  <2>1. mapping' = [k \in DOMAIN mapping \cup {key} |-> IF k = key THEN req[r].sid ELSE mapping[k]]
    BY <1>5 DEF SetSession
  <2>2. key[1] = req[r].client
    OBVIOUS
  <2> HIDE DEF key
  <2>3. DOMAIN mapping' = DOMAIN mapping \cup {key} /\ mapping' = [k \in DOMAIN mapping' |-> mapping'[k]]
    BY <2>1
  <2>4. ASSUME NEW k \in DOMAIN mapping'
        PROVE  mapping'[k] \in Sessions /\ \E p \in Requests : Began(p, k[1], mapping[k])'
    <3>1. CASE k = key
      BY <1>1, <1>2, <2>1, <2>2, <3>1 DEF Began
    <3>2. CASE k # key
      <4>1. k \in DOMAIN mapping /\ mapping'[k] = mapping[k]
        BY <2>1, <2>3, <3>2
      <4> QED
        BY <4>1 DEF Lineage, SessionTypes, MappingBegan, Began
    <3> QED
      BY <3>1, <3>2
  <2>5. MappingBegan'
    BY <2>4 DEF MappingBegan
  <2>6. SessionTypes'
    BY <2>3, <2>4 DEF Lineage, SessionTypes
  <2> QED
    BY <2>5, <2>6, ParticipatesOnward, ResolvedStays DEF Lineage
<1> QED
  BY <1>3, <1>4, <1>5

LEMMA ExpireLineage ==
    ASSUME Lineage, ExpireSession, UNCHANGED req, Onward
    PROVE  Lineage'
<1>1. PICK key \in DOMAIN mapping : mapping' = [k \in DOMAIN mapping \ {key} |-> mapping[k]]
  BY DEF ExpireSession
<1>2. /\ DOMAIN mapping' = DOMAIN mapping \ {key}
      /\ mapping' = [k \in DOMAIN mapping' |-> mapping'[k]]
      /\ \A k \in DOMAIN mapping' : k \in DOMAIN mapping /\ mapping'[k] = mapping[k]
  BY <1>1
<1>3. SessionTypes'
  BY <1>2 DEF Lineage, SessionTypes
<1>4. MappingBegan'
  BY <1>2 DEF Lineage, MappingBegan, Began
<1> QED
  BY <1>3, <1>4, ParticipatesOnward, ResolvedStays DEF Lineage

\* A session that Resolve takes from the mapping was begun by this client.
LEMMA ResolveLineage ==
    ASSUME Lineage, NEW client, NEW msgs, NEW header \in ClientSessions \cup {NoSession},
           NEW r \in Requests, NEW d \in Resolve(client, msgs, header, r)
    PROVE  /\ d.sid \in Sessions
           /\ d.source = "resolved" => \E q \in Requests : Began(q, client, d.sid)
<1> DEFINE key == SessionKey(client, HistoryHash(SubSeq(msgs, 1, Len(msgs) - 1)))
           New == [sid |-> r, source |-> "new"]
<1>1. \/ d = [sid |-> header, source |-> "client"] /\ header # NoSession
      \/ d = [sid |-> mapping[key], source |-> "resolved"] /\ key \in DOMAIN mapping
      \/ d = New
  BY DEF Resolve
<1>2. key[1] = client
  BY DEF SessionKey
<1> HIDE DEF key
<1>3. CASE d = [sid |-> mapping[key], source |-> "resolved"] /\ key \in DOMAIN mapping
  BY <1>2, <1>3 DEF Lineage, SessionTypes, MappingBegan
<1>4. CASE d = New \/ (d = [sid |-> header, source |-> "client"] /\ header # NoSession)
  BY <1>4 DEF Sessions
<1> QED
  BY <1>1, <1>3, <1>4

LEMMA ServeLineage ==
    ASSUME Discipline, Lineage, NEW r \in Requests, ServeChat(r)
    PROVE  Lineage'
<1>0. ProxyTypes /\ req[r] = NoReq /\ ~req[r].participate
  BY DEF Discipline, ServeChat, Lineage, Participates, NoReq
<1>1. PICK client \in Clients, msgs \in Conversations, header \in ClientSessions \cup {NoSession} :
        \E d \in Resolve(client, msgs, header, r) :
            req' = [req EXCEPT ![r] = [participate |-> TRUE, client |-> client, msgs |-> msgs,
                                       sid |-> d.sid, source |-> d.source]]
  BY DEF ServeChat
<1>2. PICK d \in Resolve(client, msgs, header, r) :
        req' = [req EXCEPT ![r] = [participate |-> TRUE, client |-> client, msgs |-> msgs,
                                       sid |-> d.sid, source |-> d.source]]
  BY <1>1
<1>3. /\ d.sid \in Sessions
      /\ d.source = "resolved" => \E q \in Requests : Began(q, client, d.sid)
  BY ResolveLineage
<1>4. /\ req'[r].participate = TRUE /\ req'[r].client = client /\ req'[r].sid = d.sid
      /\ req'[r].source = d.source
      /\ \A q \in Requests \ {r} : req'[q] = req[q]
      /\ DOMAIN req' = Requests /\ req' = [q \in Requests |-> req'[q]]
  BY <1>2 DEF Lineage, SessionTypes
<1>5. UNCHANGED <<mapping, body>> /\ pc' = [pc EXCEPT ![r] = "upstream"]
  BY DEF ServeChat
<1>6. SessionTypes'
  BY <1>3, <1>4, <1>5 DEF Lineage, SessionTypes, IsReq
<1>7. ASSUME NEW q, NEW c, NEW s, q \in Requests, Began(q, c, s)
      PROVE  q # r /\ Began(q, c, s)'
  BY <1>0, <1>4, <1>7 DEF Began
<1>8. MappingBegan'
  BY <1>5, <1>7 DEF Lineage, MappingBegan
<1>9. ResolvedBegan'
  <2> SUFFICES ASSUME NEW p \in Requests, req'[p].participate, req'[p].source = "resolved"
               PROVE  \E q \in Requests \ {p} : Began(q, req[p].client, req[p].sid)'
    BY DEF ResolvedBegan
  <2>1. CASE p = r
    <3>1. PICK q \in Requests : Began(q, client, d.sid)
      BY <1>3, <1>4, <2>1
    <3>2. q # r /\ Began(q, client, d.sid)'
      BY <1>7, <3>1
    <3> QED
      BY <1>4, <2>1, <3>2 DEF Began
  <2>2. CASE p # r
    <3>1. PICK q \in Requests \ {p} : Began(q, req[p].client, req[p].sid)
      BY <1>4, <2>2 DEF Lineage, ResolvedBegan
    <3>2. q # r /\ req'[q] = req[q] /\ req'[p] = req[p]
      BY <1>4, <1>7, <2>2, <3>1
    <3> QED
      BY <3>1, <3>2 DEF Began
  <2> QED
    BY <2>1, <2>2
<1>10. ASSUME NEW q \in Requests PROVE Participates(q)'
  BY <1>0, <1>4, <1>5 DEF Participates, Lineage, Collected, ProxyTypes
<1> QED
  BY <1>6, <1>8, <1>9, <1>10 DEF Lineage

LEMMA NextLineage ==
    TypeOK /\ Discipline /\ Lineage /\ [GatewayNext]_gatewayVars => Lineage'
<1> SUFFICES ASSUME TypeOK, Discipline, Lineage, [GatewayNext]_gatewayVars PROVE Lineage'
  OBVIOUS
<1>1. CASE UNCHANGED <<req, mapping>> /\ Onward
  BY <1>1, ParticipatesOnward, ResolvedStays DEF Lineage, SessionTypes, MappingBegan, Began
<1> QED
  BY <1>1, SessionSteps, ServeLineage, PutLineage, ExpireLineage

(***************************************************************************)
(* No conversation crosses from one client to another: a session that      *)
(* Resolve recovers from the mapping was begun by a request of the same    *)
(* client identity, through any chain of continued conversations, failed   *)
(* and repeated writes and expired keys.                                   *)
(***************************************************************************)
THEOREM SessionsStayWithClients == GatewaySpec => []SessionStaysWithClient
<1>1. Lineage => SessionStaysWithClient
  BY DEF Lineage, ResolvedBegan, Began, SessionStaysWithClient
<1> QED
  BY <1>1, GatewayDiscipline, InitLineage, NextLineage, PTL DEF GatewaySpec

-----------------------------------------------------------------------------
(* The types of all variables of the gateway.                              *)

\* A response is no longer than upstream's bound, and no more is delivered.
LengthsOK ==
    /\ \A r \in Requests : Len(sent[r]) <= MaxUnits
    /\ DOMAIN json = Requests
    /\ json = [r \in Requests |-> json[r]]
    /\ \A r \in Requests : /\ json[r].data \in Seq(Piece) /\ json[r].kept \in BOOLEAN
                           /\ Len(json[r].data) <= MaxUnits
    /\ seen \in [Requests -> 0..MaxUnits]

LEMMA InitLengths == GatewayInit => LengthsOK
<1> SUFFICES ASSUME GatewayInit PROVE LengthsOK
  OBVIOUS
<1>1. /\ sent = [r \in Requests |-> <<>>] /\ seen = [r \in Requests |-> 0]
      /\ json = [r \in Requests |-> [data |-> <<>>, kept |-> TRUE]]
  BY DEF GatewayInit, CollectorInit
<1>2. Len(<<>>) = 0 /\ <<>> \in Seq(Piece) /\ 0 \in 0..MaxUnits
  BY UnitsAssumption
<1>3. \A r \in Requests : json[r].data = <<>> /\ json[r].kept = TRUE /\ sent[r] = <<>>
  BY <1>1
<1>4. seen \in [Requests -> 0..MaxUnits] /\ json = [r \in Requests |-> json[r]]
  BY <1>1, <1>2
<1>5. DOMAIN json = Requests
  BY <1>1
<1>6. \A r \in Requests : Len(sent[r]) <= MaxUnits /\ Len(json[r].data) <= MaxUnits
  BY <1>2, <1>3, UnitsAssumption
<1>7. \A r \in Requests : json[r].data \in Seq(Piece) /\ json[r].kept \in BOOLEAN
  BY <1>2, <1>3
<1> QED
  BY <1>4, <1>5, <1>6, <1>7 DEF LengthsOK

LEMMA LengthsQuiet ==
    ASSUME LengthsOK, UNCHANGED <<sent, json, seen>>
    PROVE  LengthsOK'
  BY DEF LengthsOK

LEMMA NextLengths ==
    TypeOK /\ Discipline /\ LengthsOK /\ [GatewayNext]_gatewayVars => LengthsOK'
<1> SUFFICES ASSUME TypeOK, Discipline, LengthsOK, [GatewayNext]_gatewayVars PROVE LengthsOK'
  OBVIOUS
<1>0. sent \in [Requests -> Seq(Piece)]
  BY DEF TypeOK
<1>1. ASSUME NEW r \in Requests, ReadStream(r) PROVE LengthsOK'
  <2>1. PICK c \in Chunks : Write(r, c)
    BY <1>1 DEF ReadStream
  <2>2. /\ sent' = [sent EXCEPT ![r] = @ \o Pieces(c, Len(sent[r]))]
        /\ Len(sent[r]) + Len(c) <= MaxUnits /\ UNCHANGED <<json, seen>>
    BY <1>1, <2>1 DEF Write, ReadStream
  <2>3. Len(sent[r] \o Pieces(c, Len(sent[r]))) = Len(sent[r]) + Len(c)
    BY <1>0, ChunkLength
  <2>4. \A q \in Requests : Len(sent'[q]) <= MaxUnits
    BY <1>0, <2>2, <2>3 DEF LengthsOK
  <2> QED
    BY <2>2, <2>4 DEF LengthsOK
<1>2. ASSUME NEW r \in Requests, ReadJson(r) PROVE LengthsOK'
  <2> DEFINE n == Len(json[r].data)
  <2>1. PICK c \in Chunks :
          /\ n + Len(c) <= MaxUnits
          /\ json' = [json EXCEPT ![r] = [data |-> json[r].data \o Pieces(c, n),
                                          kept |-> json[r].kept /\ n + Len(c) <= JsonLimit]]
    BY <1>2 DEF ReadJson, LengthsOK
  <2>2. /\ json[r].data \o Pieces(c, n) \in Seq(Piece)
        /\ Len(json[r].data \o Pieces(c, n)) = n + Len(c)
    <3>1. json[r].data \in Seq(Piece) /\ n \in Nat
      BY DEF LengthsOK
    <3> QED
      BY <3>1, ChunkLength
  <2>3. UNCHANGED <<sent, seen>>
    BY <1>2 DEF ReadJson, vars
  <2>4. (json[r].kept /\ n + Len(c) <= JsonLimit) \in BOOLEAN
    OBVIOUS
  <2>5. json'[r].data = json[r].data \o Pieces(c, n) /\ json'[r].kept \in BOOLEAN
    BY <2>1, <2>4 DEF LengthsOK
  <2> HIDE DEF n
  <2>6. /\ DOMAIN json' = Requests /\ json' = [q \in Requests |-> json'[q]]
        /\ \A q \in Requests \ {r} : json'[q] = json[q]
    BY <2>1 DEF LengthsOK
  <2> QED
    BY <2>1, <2>2, <2>3, <2>5, <2>6 DEF LengthsOK
<1>3. ASSUME NEW r \in Requests, Deliver(r) PROVE LengthsOK'
  <2>1. /\ UNCHANGED <<sent, json>>
        /\ seen' = [seen EXCEPT ![r] = Len(Received(r))]
    BY <1>3 DEF Deliver, vars
  <2>2. Len(Received(r)) \in 0..MaxUnits
    BY <1>0 DEF Received, LengthsOK
  <2> QED
    BY <2>1, <2>2 DEF LengthsOK
<1>4. ASSUME NEW r \in Requests, Arrival(r) PROVE LengthsOK'
  BY <1>4, LengthsQuiet DEF Arrival, ServeChat, ServeTransparent, ServeRefused, modifyResponse,
                            NewCollector, vars
<1>5. ASSUME NEW r \in Requests, NEW e, finish(r, e) PROVE UNCHANGED sent
  BY <1>5 DEF finish, CloseBody, vars
<1>6. ASSUME NEW r \in Requests, ReadEOF(r) \/ ReadFails(r) PROVE LengthsOK'
  BY <1>5, <1>6, LengthsQuiet DEF ReadEOF, ReadFails, vars
<1>7. ASSUME NEW r \in Requests, CopyGoroutine(r), ~Deliver(r) PROVE LengthsOK'
  BY <1>5, <1>7, LengthsQuiet DEF CopyGoroutine, ReadReturns, DeliverFails, Close, CopyPlain,
                            AtDoneFails, AtDoneSucceeds, AtDoneMaps, WriteReturn, vars
<1>8. ASSUME NEW r \in Requests, FinalizeRuns(r) PROVE LengthsOK'
  BY <1>8, LengthsQuiet DEF FinalizeRuns, FinalizeStep, FinalizeCall, FinalizeWait, FinalizeRead,
                            FinalizeDelete, proxyVars
<1>9. ASSUME NEW r \in Requests, Detached(r) PROVE LengthsOK'
  BY <1>9, LengthsQuiet DEF Detached, finalizeStream, finalizeStreamOnClose, finalizeJSON,
                            DetachedMaps, vars
<1>10. ASSUME Environment \/ UNCHANGED gatewayVars PROVE LengthsOK'
  BY <1>10, LengthsQuiet DEF Environment, WorkerStep, WorkerTake, WorkerPut, WorkerDone, RedisLate,
                            Expire, vars, gatewayVars, proxyVars
<1> QED
  BY <1>1, <1>2, <1>3, <1>4, <1>6, <1>7, <1>8, <1>9, <1>10 DEF GatewayNext, Upstream

\* The counters of a request stay small.
LEMMA CountsBounded ==
    ASSUME Discipline, NEW r \in Requests
    PROVE  cnt[r] \in [DOMAIN NoCounts -> 0..2]
<1>1. cnt[r] \in Counts
  BY DEF Discipline, ProxyTypes
<1>2. Handling(r) /\ early[r] \in BOOLEAN /\ once[r] \in BOOLEAN
  BY DEF Discipline, ProxyTypes
<1>3. Ended(r) <= 1 /\ Mapped(r) <= 1 /\ Failed(r) <= 2
  BY <1>2 DEF Handling, Completions, Mappings, Failures
<1>4. /\ cnt[r].completed \in 0..2 /\ cnt[r].aborted \in 0..2 /\ cnt[r].ferr \in 0..2
      /\ cnt[r].fok \in 0..2 /\ cnt[r].merr \in 0..2
  <2>1. /\ cnt[r].completed \in Nat /\ cnt[r].aborted \in Nat /\ cnt[r].ferr \in Nat
        /\ cnt[r].fok \in Nat /\ cnt[r].merr \in Nat
    BY <1>1 DEF Counts
  <2>2. \A a, b \in Nat : a + b <= 1 => a \in 0..2 /\ b \in 0..2
    OBVIOUS
  <2>3. cnt[r].completed \in 0..2 /\ cnt[r].aborted \in 0..2
    BY <1>3, <2>1, <2>2 DEF Ended
  <2>4. cnt[r].fok \in 0..2 /\ cnt[r].merr \in 0..2
    BY <1>3, <2>1, <2>2 DEF Mapped
  <2>5. cnt[r].ferr \in 0..2
    BY <1>3, <2>1 DEF Failed
  <2> QED
    BY <2>3, <2>4, <2>5
<1>5. DOMAIN NoCounts = {"completed", "aborted", "ferr", "fok", "merr"}
  BY DEF NoCounts
<1> QED
  BY <1>1, <1>4, <1>5 DEF Counts

(***************************************************************************)
(* Type correctness of the gateway: among others, every session ID in the  *)
(* mapping or given to a request is a request's fresh one or a client's,   *)
(* no counter of a request exceeds two, and no more of a response is       *)
(* delivered than was read.                                                *)
(***************************************************************************)
THEOREM GatewayTypeCorrect == GatewaySpec => []GatewayTypeOK
<1>1. TypeOK /\ Discipline /\ Lineage /\ LengthsOK => GatewayTypeOK
  <2> SUFFICES ASSUME TypeOK, Discipline, Lineage, LengthsOK PROVE GatewayTypeOK
    OBVIOUS
  <2>1. \A k \in DOMAIN mapping : mapping[k] \in Requests \cup ClientSessions
    BY DEF Lineage, SessionTypes, Sessions
  <2>2. \A r \in Requests : req[r] = NoReq \/ req[r].sid \in Requests \cup ClientSessions
    BY DEF Lineage, SessionTypes, IsReq, Sessions
  <2>3. \A r \in Requests : cnt[r] \in [DOMAIN NoCounts -> 0..2]
    BY CountsBounded
  <2> QED
    BY <2>1, <2>2, <2>3 DEF GatewayTypeOK, Discipline, ProxyTypes, LengthsOK
<1> QED
  BY <1>1, GatewayDiscipline, InitLineage, NextLineage, InitLengths, NextLengths, PTL DEF GatewaySpec
=============================================================================

---------------------------- MODULE TempPageStore ----------------------------
(***************************************************************************)
(* The temporary page entries in Redis (store.TempPageStore as RedisStore  *)
(* implements it): one hash per request, a field per page, one TTL for the *)
(* whole entry.  PutPage is a pipeline of HSET and EXPIRE, not a           *)
(* transaction.  A call that returns an error may or may not have been     *)
(* applied, and a call that timed out may still be applied later: Redis    *)
(* executes what it has received.                                          *)
(*                                                                         *)
(* Page sequence numbers are the fields: PageField(seq) = %06d and         *)
(* strconv.Atoi are inverse to each other on the positive integers, also   *)
(* beyond six digits, so the field is modelled by the number.              *)
(***************************************************************************)
EXTENDS ResponseStream

CONSTANTS Requests,   \* request IDs (fresh UUIDs, so never shared)
          Faults      \* the kinds of trouble Redis may give

(***************************************************************************)
(*   "put"     PutPage may return an error (not applied, or applied with   *)
(*             the reply lost)                                             *)
(*   "late"    a PutPage that timed out may be applied afterwards          *)
(*   "pipe"    the connection may break between HSET and EXPIRE            *)
(*   "get"     GetPages may return an error                                *)
(*   "del"     DeletePages may return an error (applied or not)            *)
(*   "expire"  the TTL may elapse, or Redis evict the entry, while the     *)
(*             request still needs it                                      *)
(***************************************************************************)
AllFaults == {"put", "late", "pipe", "get", "del", "expire"}

ASSUME FaultsAssumption == Faults \subseteq AllFaults

VARIABLES pages,     \* request -> (page number -> content): the hashes
          ttl,       \* request -> the entry has an expiry
          wire,      \* request -> pages of timed-out calls Redis may yet apply
          expired    \* request -> ghost: the entry was lost to its TTL

storeVars == <<pages, ttl, wire, expired>>

Page == [seq : Nat \ {0}, data : Seq(Piece)]

NoPages == [s \in {} |-> <<>>]

IsPageMap(h) ==
    /\ h = [s \in DOMAIN h |-> h[s]]
    /\ \A s \in DOMAIN h : s \in Nat \ {0} /\ h[s] \in Seq(Piece)

StoreTypeOK ==
    /\ DOMAIN pages = Requests
    /\ pages = [r \in Requests |-> pages[r]]
    /\ \A r \in Requests : IsPageMap(pages[r])
    /\ ttl \in [Requests -> BOOLEAN]
    /\ DOMAIN wire = Requests
    /\ wire = [r \in Requests |-> wire[r]]
    /\ \A r \in Requests : \A p \in wire[r] : p \in Page
    /\ expired \in [Requests -> BOOLEAN]

StoreInit ==
    /\ pages = [r \in Requests |-> NoPages]
    /\ ttl = [r \in Requests |-> FALSE]
    /\ wire = [r \in Requests |-> {}]
    /\ expired = [r \in Requests |-> FALSE]

-----------------------------------------------------------------------------
\* Mutant: the page overwrites the entry (SET instead of HSET).
SetEntry(h, s, d) == [k \in {s} |-> d]

HSet(h, s, d) == [k \in DOMAIN h \cup {s} |-> IF k = s THEN d ELSE h[k]]

\* Mutant: the pipeline without its EXPIRE.
PutPageNoExpire(r, s, d) ==
    /\ pages' = [pages EXCEPT ![r] = HSet(@, s, d)]
    /\ UNCHANGED <<ttl, wire, expired>>

PutPage(r, s, d) ==
    /\ pages' = [pages EXCEPT ![r] = HSet(@, s, d)]
    /\ ttl' = [ttl EXCEPT ![r] = TRUE]
    /\ UNCHANGED <<wire, expired>>

\* PutPage returns an error: not applied, applied with the reply lost,
\* applied up to the HSET, or still under way to Redis.
PutPageError(r, s, d) ==
    \/ "put" \in Faults /\ UNCHANGED storeVars
    \/ "put" \in Faults /\ PutPage(r, s, d)
    \/ /\ "pipe" \in Faults
       /\ pages' = [pages EXCEPT ![r] = HSet(@, s, d)]
       /\ UNCHANGED <<ttl, wire, expired>>
    \/ /\ "late" \in Faults
       /\ wire' = [wire EXCEPT ![r] = @ \cup {[seq |-> s, data |-> d]}]
       /\ UNCHANGED <<pages, ttl, expired>>

\* Redis executes a call its client has given up on.
LatePut(r) == \E p \in wire[r] :
    /\ pages' = [pages EXCEPT ![r] = HSet(@, p.seq, p.data)]
    /\ ttl' = [ttl EXCEPT ![r] = TRUE]
    /\ wire' = [wire EXCEPT ![r] = @ \ {p}]
    /\ UNCHANGED expired

DropEntry(r) ==
    /\ pages' = [pages EXCEPT ![r] = NoPages]
    /\ ttl' = [ttl EXCEPT ![r] = FALSE]

\* DeletePages: best effort for every caller, so success and failure differ
\* only in what is left behind.
DeletePages(r) ==
    \/ DropEntry(r) /\ UNCHANGED <<wire, expired>>
    \/ "del" \in Faults /\ UNCHANGED storeVars

\* The entry's TTL elapses.
ExpireEntry(r) ==
    /\ ttl[r] /\ pages[r] # NoPages
    /\ DropEntry(r)
    /\ expired' = [expired EXCEPT ![r] = TRUE]
    /\ UNCHANGED wire
=============================================================================

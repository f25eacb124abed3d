---------------------------- MODULE SessionStore ----------------------------
(***************************************************************************)
(* The session mapping in Redis (store.SessionStore as RedisStore          *)
(* implements it) and the resolver that reads it (internal/session).  A    *)
(* key is a client identity and a conversation state.  Both are SHA-256    *)
(* digests in the code; distinct canonical conversations are taken to have *)
(* distinct digests, so the state is modelled by the conversation itself.  *)
(***************************************************************************)
EXTENDS Integers, Sequences

CONSTANTS Clients,         \* client identities (hashed credentials)
          ClientSessions,  \* session IDs clients may supply themselves
          NoSession,       \* no x-opencode-session header
          SessionFaults    \* may GetSession and PutSession fail, or keys expire?

ASSUME NoSessionAssumption == NoSession \notin ClientSessions
ASSUME SessionFaultsAssumption == SessionFaults \in BOOLEAN

VARIABLE mapping           \* <<client, state>> -> session ID

SessionInit == mapping = [k \in {} |-> NoSession]

\* SHA-256 over the canonical message array.
HistoryHash(msgs) == msgs

FullState(msgs, assistant) == Append(msgs, assistant)

\* Mutant: the key without the client identity.
SharedSessionKey(client, state) == <<"anyone", state>>

SessionKey(client, state) == <<client, state>>

-----------------------------------------------------------------------------
\* SET with a TTL: the last writer of a key wins.
SetSession(key, sid) ==
    mapping' = [k \in DOMAIN mapping \cup {key} |-> IF k = key THEN sid ELSE mapping[k]]

PutSession(client, state, sid) == SetSession(SessionKey(client, state), sid)

\* PutSession returns an error: applied with the reply lost, or not applied.
PutSessionError(client, state, sid) ==
    /\ SessionFaults
    /\ PutSession(client, state, sid) \/ UNCHANGED mapping

\* session.ttl elapses for one key.
ExpireSession ==
    /\ SessionFaults
    /\ \E key \in DOMAIN mapping :
         mapping' = [k \in DOMAIN mapping \ {key} |-> mapping[k]]

\* Mutant: an absent header is taken for a session.
ResolveTrustsHeader(client, msgs, header, fresh) ==
    {[sid |-> header, source |-> "client"]}

(***************************************************************************)
(* Resolve: what it may decide for a request of client with these messages *)
(* and this header.  A header always wins; a first message is not looked   *)
(* up; a hit on the state before the last message recovers the session; a  *)
(* miss or a failed lookup takes the fresh session.                        *)
(***************************************************************************)
Resolve(client, msgs, header, fresh) ==
    LET key == SessionKey(client, HistoryHash(SubSeq(msgs, 1, Len(msgs) - 1)))
        New == [sid |-> fresh, source |-> "new"]
    IN
    CASE header # NoSession ->
           {[sid |-> header, source |-> "client"]}
      [] header = NoSession /\ Len(msgs) > 1 /\ key \in DOMAIN mapping ->
           {[sid |-> mapping[key], source |-> "resolved"]}
             \cup (IF SessionFaults THEN {New} ELSE {})
      [] OTHER -> {New}
=============================================================================

------------------------------ MODULE Affinity ------------------------------
(***************************************************************************)
(* What OPGate promises its clients, without streams, pages or finalizers: *)
(* a memory that leads a client from a state of a conversation back to the *)
(* session the conversation had.  A request is granted a session, its      *)
(* conversation may come to a new complete state, and that state may be    *)
(* remembered, once, for the client that reached it.                       *)
(***************************************************************************)
EXTENDS Naturals

CONSTANTS Requests,        \* requests; a fresh session is named after its request
          Clients,
          ClientSessions,  \* sessions clients bring along
          States,          \* conversation states
          Lossy            \* may the memory miss, fail and forget?

CONSTANT NoState           \* the request opens a conversation, or has no answer yet
CONSTANT NoGrant           \* the request has not been granted a session

VARIABLES grant,     \* request -> who asked, from which state, and for what session
          ended,     \* request -> the complete state it led to
          told,      \* request -> its state has been submitted to the memory
          memory     \* <<client, state>> -> session

affinityVars == <<grant, ended, told, memory>>

Sessions == Requests \cup ClientSessions
Sources == {"client", "resolved", "new"}
Grant == [client : Clients, from : States \cup {NoState}, sid : Sessions, source : Sources]

AffinityInit ==
    /\ grant = [r \in Requests |-> NoGrant]
    /\ ended = [r \in Requests |-> NoState]
    /\ told = [r \in Requests |-> FALSE]
    /\ memory = [k \in {} |-> NoState]

-----------------------------------------------------------------------------
Key(g) == <<g.client, g.from>>

\* A session brought along is kept; a remembered one is found again; a new
\* one is the request's own and is given only where there is no memory.
Decided(r, g) ==
    \/ g.source = "client" /\ g.sid \in ClientSessions
    \/ g.source = "resolved" /\ Key(g) \in DOMAIN memory /\ g.sid = memory[Key(g)]
    \/ g.source = "new" /\ g.sid = r /\ (Lossy \/ Key(g) \notin DOMAIN memory)

Ask(r) ==
    /\ grant[r] = NoGrant
    /\ grant'[r] \in Grant /\ Decided(r, grant'[r])
    /\ grant' = [grant EXCEPT ![r] = grant'[r]]
    /\ UNCHANGED <<ended, told, memory>>

Answer(r) ==
    /\ grant[r] # NoGrant /\ ended[r] = NoState
    /\ ended'[r] \in States
    /\ ended' = [ended EXCEPT ![r] = ended'[r]]
    /\ UNCHANGED <<grant, told, memory>>

Learn(key, sid) ==
    memory' = [k \in DOMAIN memory \cup {key} |-> IF k = key THEN sid ELSE memory[k]]

Remember(r) ==
    /\ grant[r] # NoGrant /\ ended[r] # NoState /\ ~told[r]
    /\ told' = [told EXCEPT ![r] = TRUE]
    /\ \/ Learn(<<grant[r].client, ended[r]>>, grant[r].sid)
       \/ Lossy /\ UNCHANGED memory
    /\ UNCHANGED <<grant, ended>>

Forget ==
    /\ Lossy
    /\ \E key \in DOMAIN memory : memory' = [k \in DOMAIN memory \ {key} |-> memory[k]]
    /\ UNCHANGED <<grant, ended, told>>

AffinityNext ==
    \/ \E r \in Requests : Ask(r) \/ Answer(r) \/ Remember(r)
    \/ Forget

AffinitySpec == AffinityInit /\ [][AffinityNext]_affinityVars
=============================================================================

-------------------------- MODULE AssistantMessage --------------------------
(***************************************************************************)
(* internal/openai: the assistant message put together from the events of  *)
(* a stream (AssistantFromSSE), from a whole JSON answer                   *)
(* (AssistantFromMessage), and as the client echoes it in its next request *)
(* (Canonicalize in prepare).  The session is found again exactly when the *)
(* three agree.                                                            *)
(*                                                                         *)
(* Upstream has one message in mind and streams it: the content and each   *)
(* tool call are cut into fragments, and an event carries the next         *)
(* fragment of one or several of them - or the whole message at once.      *)
(***************************************************************************)
EXTENDS CanonicalJSON

CONSTANTS Contents,    \* texts, as sequences of characters
          Names,       \* names of functions
          Arguments,   \* arguments of tool calls
          Ids          \* sequence of the IDs of tool calls, by position

Absent == [t |-> "absent"]
Parts == Arr(<<Map([type |-> Str(<<"p">>)])>>)
NoIndex == -1
Function == <<"f", "n">>

Calls(k) == [id : {Ids[k]}, type : {Function}, name : Names, arguments : Arguments]

Messages ==
    {[content |-> c, calls |-> calls] :
        c \in {Absent, Null, Parts} \cup {Str(s) : s \in Contents},
        calls \in {<<>>} \cup {<<a>> : a \in Calls(1)}
                         \cup {<<a, b>> : a \in Calls(1), b \in Calls(2)}}

-----------------------------------------------------------------------------
(* The accumulator.                                                        *)

NoTool == [ID |-> <<>>, Type |-> <<>>, Name |-> <<>>, Arguments |-> <<>>]

Empty == [text |-> <<>>, textSeen |-> FALSE, nullSeen |-> FALSE, complex |-> FALSE,
          tools |-> <<>>, toolOrder |-> <<>>]

mergeContent(a, c) ==
    CASE c.t = "absent" -> a
      [] c.t = "null" -> [a EXCEPT !.nullSeen = TRUE]
      [] c.t = "str" -> [a EXCEPT !.text = @ \o c.s, !.textSeen = TRUE]
      [] OTHER -> [a EXCEPT !.complex = TRUE]

\* The state of tool call idx, made when it is first mentioned.
tool(a, idx) ==
    IF idx \in DOMAIN a.tools THEN a
    ELSE [a EXCEPT !.tools = (idx :> NoTool) @@ @, !.toolOrder = Append(@, idx)]

First(old, new) == IF old = <<>> THEN new ELSE old

\* A name that comes again as a whole is no fragment.
NameFragment(old, new) == IF new = old THEN old ELSE old \o new

mergeTool(a, tc) ==
    LET idx == IF tc.index = NoIndex THEN 0 ELSE tc.index
    IN  [tool(a, idx) EXCEPT !.tools[idx] =
            [ID |-> First(@.ID, tc.id), Type |-> First(@.Type, tc.type),
             Name |-> NameFragment(@.Name, tc.name),
             Arguments |-> @.Arguments \o tc.arguments]]

mergeDelta(a, d) == FoldLeft(mergeTool, mergeContent(a, d.content), d.calls)

empty(a) == ~a.textSeen /\ ~a.nullSeen /\ ~a.complex /\ DOMAIN a.tools = {}

NonEmpty(key, s) == IF s = <<>> THEN <<>> ELSE key :> Str(s)

ToolValue(st) ==
    Map([function |-> Map([arguments |-> Str(st.Arguments)] @@ NonEmpty("name", st.Name))]
        @@ NonEmpty("id", st.ID) @@ NonEmpty("type", st.Type))

\* Mutant: the tool calls in the order in which they were first mentioned.
OrderOfMention(a) == a.toolOrder

\* sort.Ints
OrderOfIndex(a) == SortSeq(a.toolOrder, LAMBDA i, j : i < j)

canonical(a) ==
    LET order == OrderOfIndex(a)
        content == CASE a.textSeen -> "content" :> Str(a.text)
                     [] ~a.textSeen /\ a.nullSeen -> "content" :> Null
                     [] OTHER -> <<>>
        calls == IF order = <<>> THEN <<>>
                 ELSE "tool_calls" :> Arr([i \in DOMAIN order |-> ToolValue(a.tools[order[i]])])
    IN
    CASE a.complex -> [t |-> "ErrComplexContent"]
      [] ~a.complex /\ empty(a) -> [t |-> "ErrNoAssistantContent"]
      [] OTHER -> CanonicalValue(Map([role |-> Str(<<"assistant">>)] @@ content @@ calls))

\* A whole message: the position of a tool call is its index.
AssistantFromMessage(m) ==
    LET Set(a, i) == [tool(a, i) EXCEPT !.tools[i] =
                        [ID |-> m.calls[i].id, Type |-> m.calls[i].type,
                         Name |-> m.calls[i].name, Arguments |-> m.calls[i].arguments]]
    IN  canonical(FoldLeft(Set, mergeContent(Empty, m.content), [i \in DOMAIN m.calls |-> i]))

\* The callback of AssistantFromSSE for one choice of an event.
mergeChoice(a, choice, delta, message, text) ==
    IF choice # 0 THEN a
    ELSE LET b == mergeDelta(mergeDelta(a, delta), message)
         IN  IF text = <<>> THEN b ELSE [b EXCEPT !.text = @ \o text, !.textSeen = TRUE]

-----------------------------------------------------------------------------
(* How upstream may cut the message.                                       *)

NoDelta == [content |-> Absent, calls |-> <<>>]

Characters(s) == [i \in DOMAIN s |-> <<s[i]>>]

ContentTracks(c) ==
    CASE c.t = "absent" -> {<<>>}
      [] c.t = "null" -> {<<Null>>, <<Null, Null>>}
      [] c.t = "str" ->
           {lead \o [i \in DOMAIN c.s |-> Str(<<c.s[i]>>)] :
               lead \in {<<Str(<<>>)>>, <<Null, Str(<<>>)>>} \cup (IF c.s = <<>> THEN {} ELSE {<<>>})}
      [] OTHER -> {<<c>>}

Fragment(index, id, type, name, arguments) ==
    [index |-> index, id |-> id, type |-> type, name |-> name, arguments |-> arguments]

\* Tool call k with its name in fragments, or with id, type and name again
\* in every event.
ToolTracks(k, call) ==
    LET names == Characters(call.name)
        args == Characters(call.arguments)
    IN
    {<<Fragment(k - 1, call.id, call.type, names[1], <<>>)>>
       \o [i \in 1..(Len(names) - 1) |-> Fragment(k - 1, <<>>, <<>>, names[i + 1], <<>>)]
       \o [i \in DOMAIN args |-> Fragment(k - 1, <<>>, <<>>, <<>>, args[i])],
     <<Fragment(k - 1, call.id, call.type, call.name, <<>>)>>
       \o [i \in DOMAIN args |-> Fragment(k - 1, call.id, call.type, call.name, args[i])]}

VARIABLES message,    \* what upstream means
          content,    \* the fragments of its content still to come
          calls,      \* the fragments still to come of each tool call
          whole,      \* ghost: the message came as one event
          acc         \* the accumulator

assistantVars == <<message, content, calls, whole, acc>>

AssistantInit ==
    /\ message \in Messages
    /\ content \in ContentTracks(message.content)
    /\ \/ message.calls = <<>> /\ calls = <<>>
       \/ Len(message.calls) = 1 /\ calls \in {<<t>> : t \in ToolTracks(1, message.calls[1])}
       \/ Len(message.calls) = 2 /\ calls \in {<<t, u>> : t \in ToolTracks(1, message.calls[1]),
                                                          u \in ToolTracks(2, message.calls[2])}
    /\ whole = FALSE
    /\ acc = Empty

\* An event with the next fragments of the tool calls in ks, and of the
\* content if c holds.
SendDelta(c, ks) ==
    LET order == SetToSortSeq(ks, LAMBDA i, j : i < j)
        delta == [content |-> IF c THEN Head(content) ELSE Absent,
                  calls |-> [i \in DOMAIN order |-> Head(calls[order[i]])]]
    IN
    /\ c \/ ks # {}
    /\ c => content # <<>>
    /\ \A k \in ks : calls[k] # <<>>
    /\ acc' = mergeChoice(acc, 0, delta, NoDelta, <<>>)
    /\ content' = IF c THEN Tail(content) ELSE content
    /\ calls' = [k \in DOMAIN calls |-> IF k \in ks THEN Tail(calls[k]) ELSE calls[k]]
    /\ UNCHANGED <<message, whole>>

\* The legacy text field in place of a content fragment.
SendText ==
    /\ content # <<>> /\ Head(content).t = "str" /\ Head(content).s # <<>>
    /\ acc' = mergeChoice(acc, 0, NoDelta, NoDelta, Head(content).s)
    /\ content' = Tail(content)
    /\ UNCHANGED <<message, calls, whole>>

\* Another choice, a usage report, an event that is no JSON.
SendOther ==
    /\ acc' = mergeChoice(acc, 1, NoDelta, NoDelta, <<"o">>)
    /\ UNCHANGED <<message, content, calls, whole>>

\* The whole message as one event; its tool calls have no index.
SendMessage ==
    /\ acc = Empty
    /\ acc' = mergeChoice(acc, 0, NoDelta,
                [content |-> message.content,
                 calls |-> [k \in DOMAIN message.calls |->
                              Fragment(NoIndex, message.calls[k].id, message.calls[k].type,
                                       message.calls[k].name, message.calls[k].arguments)]],
                <<>>)
    /\ content' = <<>>
    /\ calls' = [k \in DOMAIN calls |-> <<>>]
    /\ whole' = TRUE
    /\ UNCHANGED message

AssistantNext ==
    \/ \E c \in BOOLEAN : \E ks \in SUBSET DOMAIN calls : SendDelta(c, ks)
    \/ SendText \/ SendOther \/ SendMessage

AssistantSpec == AssistantInit /\ [][AssistantNext]_assistantVars

\* The stream has said everything.
Sent == content = <<>> /\ \A k \in DOMAIN calls : calls[k] = <<>>

-----------------------------------------------------------------------------
(* The message as the client sends it back.                                *)

\* The members of an object, as written or the other way round.
InOrder(members, back) == Obj(IF back THEN Reverse(members) ELSE members)

\* Any character may be spelled \uXXXX.
Text(s, hex) ==
    Spelled(s, LAMBDA c : IF hex THEN "hex" ELSE IF c \in Special THEN "short" ELSE "plain")

EchoCall(call, back, hex) ==
    InOrder(<<<<"id", Text(call.id, hex)>>, <<"type", Text(call.type, hex)>>,
              <<"function", InOrder(<<<<"name", Text(call.name, hex)>>,
                                      <<"arguments", Text(call.arguments, hex)>>>>, back)>>>>,
            back)

Echo(m, back, hex) ==
    InOrder(<<<<"role", Text(<<"assistant">>, hex)>>>>
            \o (IF m.content = Absent THEN <<>>
                ELSE <<<<"content", IF m.content = Null THEN Null ELSE Text(m.content.s, hex)>>>>)
            \o (IF m.calls = <<>> THEN <<>>
                ELSE <<<<"tool_calls", Arr([k \in DOMAIN m.calls |->
                                              EchoCall(m.calls[k], back, hex)])>>>>),
            back)

-----------------------------------------------------------------------------
(* What makes a session found again.                                       *)

Errors == {"ErrComplexContent", "ErrNoAssistantContent"}

(***************************************************************************)
(* However upstream cuts the message into events - fragments of content    *)
(* and of several tool calls mixed in any order, in one event or several,  *)
(* repeated names, nulls before the text, the legacy text field, events of *)
(* other choices - the stream is reconstructed to what the same message    *)
(* gives as a JSON answer, errors included.  A whole message in one event  *)
(* is excepted when it has several tool calls (see WholeAsMessage).        *)
(***************************************************************************)
StreamedAsMessage ==
    Sent /\ ~(whole /\ Len(message.calls) > 1)
        => canonical(acc) = AssistantFromMessage(message)

(***************************************************************************)
(* The state the gateway maps is the state the client comes back with:     *)
(* the echo of the message, with its members in any order and its          *)
(* characters escaped or not, has the canonical text of the reconstructed  *)
(* message, although that one went through json.Marshal and its own        *)
(* escapes.                                                                *)
(***************************************************************************)
EchoFound ==
    LET text == canonical(acc) IN
    Sent /\ ~(whole /\ Len(message.calls) > 1) /\ text.t \notin Errors =>
        \A back, hex \in BOOLEAN : Canonicalize(Echo(message, back, hex)) = text

(***************************************************************************)
(* No two messages share a canonical text: content null and no content,    *)
(* an empty text, one tool call or two and the order of the calls all stay *)
(* apart, so the state of one conversation never leads to the session of   *)
(* another.                                                                *)
(***************************************************************************)
EchoUnique ==
    LET text == canonical(acc) IN
    Sent /\ ~(whole /\ Len(message.calls) > 1) =>
        \A m \in {n \in Messages : n.content # Parts /\ n # message} :
            Canonicalize(Echo(m, FALSE, FALSE)) # text

(***************************************************************************)
(* "deltaLike covers both streaming deltas and full messages": a message   *)
(* that is streamed in one event is reconstructed like the same message in *)
(* a JSON answer.                                                          *)
(***************************************************************************)
WholeAsMessage ==
    Sent /\ whole => canonical(acc) = AssistantFromMessage(message)
=============================================================================

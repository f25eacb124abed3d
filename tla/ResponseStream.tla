--------------------------- MODULE ResponseStream ---------------------------
(***************************************************************************)
(* The upstream response as the gateway reads it, and what the parsers of  *)
(* internal/sse and internal/openai make of it.                            *)
(*                                                                         *)
(* A stream is a sequence of pieces.  A piece is one complete SSE event    *)
(* line, reduced to its kind and to its position in the stream (so two     *)
(* text deltas are never equal, and a lost, repeated or reordered piece is *)
(* always visible in the reconstructed text):                              *)
(*   "text"    a delta of choice 0 with string content                     *)
(*   "null"    a delta of choice 0 with "content": null                    *)
(*   "parts"   a delta whose content is an array of parts                  *)
(*   "ping"    a comment, a malformed event, a delta of another choice     *)
(*   "done"    data: [DONE]                                                *)
(*   "bare"    data:[DONE], or a last line without its newline: accepted   *)
(*             by sse.Scan and not by watchDone                            *)
(*   "padded"  [DONE] line with a leading blank: watchDone trims it,       *)
(*             sse.Scan ignores the line                                   *)
(* A chunk is what one Read of the body returns, as the kinds of the lines *)
(* that end in it.                                                         *)
(***************************************************************************)
EXTENDS Integers, Sequences, FiniteSets, SequencesExt

CONSTANTS Kinds,      \* the kinds of piece upstream may send
          MaxChunk,   \* bound on the pieces of one chunk
          MaxUnits    \* bound on the pieces of one response

AllKinds == {"text", "null", "parts", "ping", "done", "bare", "padded"}

ASSUME KindsAssumption == Kinds \subseteq AllKinds
ASSUME ChunkAssumption == MaxChunk \in Nat \ {0}
ASSUME UnitsAssumption == MaxUnits \in Nat

Piece == [kind : Kinds, pos : Nat]

Chunks == UNION {[1..n -> Kinds] : n \in 1..MaxChunk}

\* The pieces of chunk c when n pieces of the response came before it.
Pieces(c, n) == [i \in 1..Len(c) |-> [kind |-> c[i], pos |-> n + i]]

-----------------------------------------------------------------------------
\* watchDone: a complete line that equals "data: [DONE]" after TrimSpace.
IsDoneLine(p) == p.kind \in {"done", "padded"}

HasDoneLine(s) == \E i \in DOMAIN s : IsDoneLine(s[i])

\* AssistantFromSSE: the data of an event, trimmed, equals "[DONE]".
IsSentinel(p) == p.kind \in {"done", "bare"}

HasSentinel(s) == \E i \in DOMAIN s : IsSentinel(s[i])

\* sse.Scan stops at the event for which the callback returns false.
Scanned(s) ==
    {i \in DOMAIN s : \A k \in 1..i : ~IsSentinel(s[k])}

KindsScanned(s) == {s[i].kind : i \in Scanned(s)}

IsText(p) == p.kind = "text"

\* The text that mergeDelta accumulates event by event.
Accumulated(s) ==
    LET text[n \in 0..Len(s)] ==
          IF n = 0 THEN <<>>
          ELSE IF IsText(s[n]) THEN Append(text[n - 1], s[n]) ELSE text[n - 1]
    IN  text[Len(s)]

\* The text of the scanned events.
TextOf(s) == Accumulated(SubSeq(s, 1, Cardinality(Scanned(s))))

NoText == <<>>

(***************************************************************************)
(* AssistantFromSSE and the error handling of Finalize after it: content   *)
(* parts are refused first, then a stream without any content, and only    *)
(* then a stream without its sentinel.  A null content with no text is an  *)
(* assistant message with content null (text NoText).                      *)
(***************************************************************************)
AssistantFromSSE(s) ==
    LET seen == KindsScanned(s) IN
    CASE "parts" \in seen ->
           [result |-> "errComplex", text |-> NoText]
      [] "parts" \notin seen /\ seen \cap {"text", "null"} = {} ->
           [result |-> "errNoMessage", text |-> NoText]
      [] OTHER ->
           IF HasSentinel(s)
             THEN [result |-> "ok", text |-> TextOf(s)]
             ELSE [result |-> "errIncomplete", text |-> NoText]
=============================================================================

---------------------------- MODULE DoneScanner ----------------------------
(***************************************************************************)
(* The two recognisers of [DONE] on bytes: watchDone of the Collector,     *)
(* which sees the stream in the portions Read happens to return, and       *)
(* sse.Scan, which sees the collected payload as a whole.  ResponseStream  *)
(* takes a stream for a sequence of pieces; this module shows for which    *)
(* byte streams that is right.                                             *)
(*                                                                         *)
(* Symbols: D "data:", S a blank, E "[DONE]", J other text, C ":" with a   *)
(* comment after it, R and N the two line-end characters.  A portion may   *)
(* end after any symbol.                                                   *)
(***************************************************************************)
EXTENDS ResponseStream

CONSTANTS ScanCap,    \* the cap of scanBuf (1 MiB), in symbols
          Payloads    \* the texts of data: lines that are not the sentinel

\* bytes.TrimSpace: S, R and N are its blanks here.
TrimSpace(s) ==
    LET ink == {i \in DOMAIN s : s[i] \notin {"S", "R", "N"}}
    IN  IF ink = {} THEN <<>> ELSE SubSeq(s, Min(ink), Max(ink))

Sentinel == <<"D", "S", "E">>

\* The sentinel with a blank before it and an R after it fits below the cap.
ASSUME ScanCapAssumption == ScanCap \in Nat /\ ScanCap >= 5

\* A text begins like JSON, not with a blank or [DONE], and may mention the
\* sentinel but does not end with it.
ASSUME PayloadAssumption ==
    \A p \in Payloads :
        /\ p \in Seq({"D", "S", "E", "J"}) /\ p # <<>> /\ p[1] = "J"
        /\ \A i \in DOMAIN p : TrimSpace(SubSeq(p, i, Len(p))) # Sentinel

Form(kind, lines, data) == [kind |-> kind, lines |-> lines, data |-> data]

TextForm(p) == Form("text", <<<<"D", "S">> \o p>>, p)

\* A text in two lines, the first without a blank after data:.
TextForm2(p, q) == Form("text", <<<<"D">> \o p, <<"D", "S">> \o q>>, p \o <<"N">> \o q)

\* What upstream sends: the kind of piece, its lines, its event's payload.
Forms ==
    {Form("done", <<Sentinel>>, <<>>),
     Form("bare", <<<<"D", "E">>>>, <<>>),
     Form("padded", <<<<"S", "D", "S", "E">>>>, <<>>),
     Form("ping", <<<<"C">>>>, <<>>)}
    \cup {TextForm(p) : p \in Payloads}
    \cup {TextForm2(pq[1], pq[2]) : pq \in Payloads \X Payloads}

LineEnds == {<<"N">>, <<"R", "N">>}

\* How the stream stops: after a blank line, after a line, or in a line.
Stops == {"blank", "line", "cut"}

\* The lines of the events fs: a blank line ends each.
Lines(fs) == FlattenSeq([i \in DOMAIN fs |-> Append(fs[i].lines, <<>>)])

\* The bytes of all lines, but for the ends that are missing.
StreamBytes(fs, eol, stop) ==
    LET lines == Lines(fs)
        all == FlattenSeq([i \in DOMAIN lines |-> lines[i] \o eol])
        missing == CASE stop = "blank" -> 0 [] stop = "line" -> 1 [] stop = "cut" -> 2
    IN  SubSeq(all, 1, Len(all) - missing * Len(eol))

(***************************************************************************)
(* The stream as ResponseStream has it: a last line without its newline is *)
(* seen by sse.Scan only.                                                  *)
(***************************************************************************)
LastKind(kind, stop) ==
    CASE stop = "cut" /\ kind = "done" -> "bare"
      [] stop = "cut" /\ kind = "padded" -> "ping"
      [] OTHER -> kind

StreamPieces(fs, stop) ==
    [i \in 1..Len(fs) |->
        [kind |-> IF i = Len(fs) THEN LastKind(fs[i].kind, stop) ELSE fs[i].kind, pos |-> i]]

VARIABLES forms, stop,  \* what upstream sends, and how it stops
          stream,       \* ghost: all the bytes it will have sent
          at,           \* how many of them have been read
          scanBuf,      \* the unterminated rest of a line
          sawDone,
          collected     \* the bytes that Write has not ignored

scannerVars == <<forms, stop, stream, at, scanBuf, sawDone, collected>>

ScannerInit ==
    /\ \E n \in 1..MaxUnits : forms \in [1..n -> {f \in Forms : f.kind \in Kinds}]
    /\ stop \in Stops
    /\ \E eol \in LineEnds : stream = StreamBytes(forms, eol, stop)
    /\ at = 0
    /\ scanBuf = <<>>
    /\ sawDone = FALSE
    /\ collected = <<>>

-----------------------------------------------------------------------------
(* Lines.                                                                  *)

\* The line ends in s, and the last one before position j.
Ends(s) == {i \in DOMAIN s : s[i] = "N"}

EndBefore(s, j) == Max({0} \cup {i \in Ends(s) : i < j})

\* The line of s that ends before position j.
Line(s, j) == SubSeq(s, EndBefore(s, j) + 1, j - 1)

TrimCR(line) == IF line # <<>> /\ Last(line) = "R" THEN Front(line) ELSE line

\* Mutant: a line that ends in the sentinel.
EndsInDone(line) == TrimSpace(line) # <<>> /\ Last(TrimSpace(line)) = "E"

DoneLine(line) == TrimSpace(TrimCR(line)) = Sentinel

-----------------------------------------------------------------------------
(* watchDone.                                                              *)

\* Mutant: each portion is scanned for itself.
Buffered(buf, p) == p

ScanBuffer(buf, p) == buf \o p

\* A rest beyond the cap cannot become the sentinel and is dropped.
Capped(rest) == IF Len(rest) > ScanCap THEN <<>> ELSE rest

\* One Write of the next n bytes: collect, then watchDone.
WriteBytes(n) ==
    LET p == SubSeq(stream, at + 1, at + n)
        buf == ScanBuffer(scanBuf, p)
        hits == {j \in Ends(buf) : DoneLine(Line(buf, j))}
    IN
    /\ at + n <= Len(stream)
    /\ at' = at + n
    /\ \/ sawDone /\ UNCHANGED <<scanBuf, sawDone, collected>>
       \/ /\ ~sawDone
          /\ collected' = collected \o p
          /\ \/ /\ hits = {}
                /\ scanBuf' = Capped(Line(buf, Len(buf) + 1))
                /\ UNCHANGED sawDone
             \/ /\ hits # {}
                /\ scanBuf' = SubSeq(buf, Min(hits) + 1, Len(buf))
                /\ sawDone' = TRUE
    /\ UNCHANGED <<forms, stop, stream>>

ScannerNext ==
    \/ \E n \in 1..Len(stream) : WriteBytes(n)
    \/ at = Len(stream) /\ UNCHANGED scannerVars

ScannerSpec == ScannerInit /\ [][ScannerNext]_scannerVars

-----------------------------------------------------------------------------
(* sse.Scan with the callback of AssistantFromSSE.                         *)

\* line: read of the current line; open: data lines have come for the
\* current event, data joins them; events, done: what the callback has got.
NoneScanned == [line |-> <<>>, open |-> FALSE, data |-> <<>>, events |-> <<>>, done |-> FALSE]

\* The callback stops the scan at [DONE].
Dispatch(acc) ==
    IF ~acc.open THEN acc
    ELSE IF TrimSpace(acc.data) = <<"E">>
      THEN [acc EXCEPT !.open = FALSE, !.data = <<>>, !.done = TRUE]
      ELSE [acc EXCEPT !.open = FALSE, !.data = <<>>, !.events = Append(@, acc.data)]

AddData(acc, v) ==
    [acc EXCEPT !.open = TRUE, !.data = IF acc.open THEN @ \o <<"N">> \o v ELSE v]

\* A blank line ends an event, data: lines add to it, others are ignored.
TakeLine(acc, l) ==
    IF acc.done THEN acc
    ELSE IF l = <<>> THEN Dispatch(acc)
    ELSE IF l[1] = "D" THEN AddData(acc, SubSeq(l, IF Len(l) > 1 /\ l[2] = "S" THEN 3 ELSE 2, Len(l)))
    ELSE acc

\* Mutant: only N ends a line.
ScanLineLF(acc, line) == TakeLine(acc, line)

ScanLine(acc, line) == TakeLine(acc, TrimCR(line))

ScanByte(acc, b) ==
    IF b = "N" THEN [ScanLine(acc, acc.line) EXCEPT !.line = <<>>]
               ELSE [acc EXCEPT !.line = Append(@, b)]

\* How far the scan is after each byte.
Scans(payload) ==
    LET scan[n \in 0..Len(payload)] ==
          IF n = 0 THEN NoneScanned ELSE ScanByte(scan[n - 1], payload[n])
    IN  scan

\* A last line without its end counts, and so does an event without its
\* blank line.
ScanEnd(acc) ==
    LET last == IF acc.line = <<>> THEN acc ELSE ScanLine(acc, acc.line)
        end == IF last.done THEN last ELSE Dispatch(last)
    IN  [events |-> end.events, done |-> end.done]

\* The events before the sentinel, and whether it came.
Scan(payload) == ScanEnd(Scans(payload)[Len(payload)])

-----------------------------------------------------------------------------
(* What the two scanners promise.                                          *)

(***************************************************************************)
(* watchDone fires exactly when a whole terminated line of what was read   *)
(* so far is the sentinel, however the bytes were cut into Reads, with \n  *)
(* and \r\n, after lines too long for the scan buffer, and never for a     *)
(* line that merely mentions [DONE].                                       *)
(***************************************************************************)
WatchExact ==
    sawDone <=>
        \E i \in 1..at : \E j \in i..at :
            /\ i = 1 \/ stream[i - 1] = "N"
            /\ stream[j] = "N" /\ \A k \in i..(j - 1) : stream[k] # "N"
            /\ TrimSpace(SubSeq(stream, i, j)) = Sentinel

(***************************************************************************)
(* Once the collector is sealed its payload says all the stream will ever  *)
(* say: Write may drop what follows [DONE], and the Finalize inside Write  *)
(* sees the sentinel although its blank line has not come yet - unless the *)
(* line had leading blanks, which sse.Scan does not take for an event.     *)
(***************************************************************************)
SealLosesNothing ==
    sawDone /\ (\A i \in DOMAIN forms : forms[i].kind # "padded")
        => Scan(collected) = Scan(stream)

(***************************************************************************)
(* Pieces are a faithful view of the bytes: for events of one or several   *)
(* lines, each ended by a blank line (the last perhaps not), watchDone and *)
(* sse.Scan find on the bytes what HasDoneLine, HasSentinel and TextOf     *)
(* find on the pieces.                                                     *)
(***************************************************************************)
PiecesFaithful ==
    LET pieces == StreamPieces(forms, stop)
        text == TextOf(pieces)
    IN  at = Len(stream) =>
          /\ sawDone <=> HasDoneLine(pieces)
          /\ Scan(stream) = [events |-> [i \in DOMAIN text |-> forms[text[i].pos].data],
                             done |-> HasSentinel(pieces)]
=============================================================================

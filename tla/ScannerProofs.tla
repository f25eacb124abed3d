---------------------------- MODULE ScannerProofs ----------------------------
(***************************************************************************)
(* Theorems about the two recognisers of [DONE] on bytes: for streams of   *)
(* any number of events with any texts, however they are cut into Reads.   *)
(***************************************************************************)
EXTENDS DoneScanner, StreamProofs, SequenceTheorems

Blanks == {"S", "R", "N"}
Symbols == {"D", "S", "E", "J", "C", "R", "N"}

-----------------------------------------------------------------------------
(* Trimming.                                                               *)

\* The sentinel with nothing but blanks around it, at positions i..j of s.
DoneAt(s, i, j) ==
    \E a \in i..j :
        /\ a + 2 <= j /\ s[a] = "D" /\ s[a + 1] = "S" /\ s[a + 2] = "E"
        /\ \A k \in i..j : k < a \/ k > a + 2 => s[k] \in Blanks

DoneShape(s) == DoneAt(s, 1, Len(s))

LEMMA TrimRange ==
    ASSUME NEW s \in Seq(Symbols)
    PROVE  \/ TrimSpace(s) = <<>> /\ \A i \in 1..Len(s) : s[i] \in Blanks
           \/ \E a, b \in 1..Len(s) :
                /\ a <= b /\ TrimSpace(s) = SubSeq(s, a, b)
                /\ s[a] \notin Blanks /\ s[b] \notin Blanks
                /\ \A i \in 1..Len(s) : i < a \/ i > b => s[i] \in Blanks
<1>1. PICK n \in Nat : n = Len(s) /\ DOMAIN s = 1..n
  OBVIOUS
<1>2. PICK ink : ink = {i \in DOMAIN s : s[i] \notin {"S", "R", "N"}}
  OBVIOUS
<1>3. TrimSpace(s) = IF ink = {} THEN <<>> ELSE SubSeq(s, Min(ink), Max(ink))
  BY <1>2 DEF TrimSpace
<1>4. CASE ink = {}
  BY <1>1, <1>2, <1>3, <1>4 DEF Blanks
<1>5. CASE ink # {}
  <2>1. ink \subseteq Nat /\ ink \subseteq 0..n
    BY <1>1, <1>2
  <2>2. PICK a \in ink, b \in ink :
          a = Min(ink) /\ b = Max(ink) /\ (\A i \in ink : a <= i) /\ (\A i \in ink : i <= b)
    BY <1>5, <2>1, MinMember, MaxMember
  <2>3. a \in 1..n /\ b \in 1..n /\ s[a] \notin Blanks /\ s[b] \notin Blanks /\ a <= b
    BY <1>1, <1>2, <2>2 DEF Blanks
  <2>4. ASSUME NEW i \in 1..n, i < a \/ i > b PROVE s[i] \in Blanks
    <3>1. i \notin ink
      BY <2>1, <2>2, <2>4
    <3> QED
      BY <1>1, <1>2, <3>1 DEF Blanks
  <2>5. TrimSpace(s) = SubSeq(s, a, b)
    BY <1>3, <1>5, <2>2
  <2> QED
    BY <1>1, <2>3, <2>4, <2>5
<1> QED
  BY <1>4, <1>5

LEMMA TrimSentinel ==
    ASSUME NEW s \in Seq(Symbols)
    PROVE  TrimSpace(s) = Sentinel <=> DoneShape(s)
<1>1. PICK n \in Nat : n = Len(s)
  OBVIOUS
<1>2. Sentinel[1] = "D" /\ Sentinel[2] = "S" /\ Sentinel[3] = "E" /\ Len(Sentinel) = 3
  BY DEF Sentinel
<1>3. CASE TrimSpace(s) = <<>> /\ \A i \in 1..Len(s) : s[i] \in Blanks
  <2>1. TrimSpace(s) # Sentinel
    BY <1>2, <1>3
  <2> QED
    BY <1>3, <2>1 DEF DoneShape, DoneAt, Blanks
<1>4. CASE \E a, b \in 1..Len(s) :
                /\ a <= b /\ TrimSpace(s) = SubSeq(s, a, b)
                /\ s[a] \notin Blanks /\ s[b] \notin Blanks
                /\ \A i \in 1..Len(s) : i < a \/ i > b => s[i] \in Blanks
  <2>1. PICK a \in 1..n, b \in 1..n :
                /\ a <= b /\ TrimSpace(s) = SubSeq(s, a, b)
                /\ s[a] \notin Blanks /\ s[b] \notin Blanks
                /\ \A i \in 1..n : i < a \/ i > b => s[i] \in Blanks
    BY <1>1, <1>4
  <2>2. PICK t : t = SubSeq(s, a, b)
    OBVIOUS
  <2>3. Len(t) = b - a + 1 /\ (\A i \in 1..(b - a + 1) : t[i] = s[a + i - 1]) /\ t \in Seq(Symbols)
    BY <1>1, <2>1, <2>2
  <2>4. ASSUME t = Sentinel PROVE DoneShape(s)
    <3>1. b = a + 2
      <4>1. Len(t) = 3
        BY <1>2, <2>4
      <4>2. Len(t) = b - a + 1
        BY <2>3
      <4>3. b - a + 1 = 3
        BY <4>1, <4>2
      <4>4. a \in Nat /\ b \in Nat
        OBVIOUS
      <4> QED
        BY <4>3, <4>4
    <3>2. s[a] = "D" /\ s[a + 1] = "S" /\ s[a + 2] = "E"
      <4>1. t[1] = "D" /\ t[2] = "S" /\ t[3] = "E"
        BY <1>2, <2>4
      <4>2. t[1] = s[a + 1 - 1] /\ t[2] = s[a + 2 - 1] /\ t[3] = s[a + 3 - 1]
        BY <2>1, <2>3, <3>1
      <4> QED
        BY <2>1, <4>1, <4>2
    <3> QED
      BY <1>1, <2>1, <3>1, <3>2 DEF DoneShape, DoneAt
  <2>5. ASSUME DoneShape(s) PROVE t = Sentinel
    <3>1. PICK c \in 1..n :
            /\ c + 2 <= n /\ s[c] = "D" /\ s[c + 1] = "S" /\ s[c + 2] = "E"
            /\ \A i \in 1..n : i < c \/ i > c + 2 => s[i] \in Blanks
      BY <1>1, <2>5 DEF DoneShape, DoneAt
    <3>2. "D" \notin Blanks /\ "E" \notin Blanks /\ "S" \in Blanks
      BY DEF Blanks
    <3>3. a = c /\ b = c + 2
      BY <2>1, <3>1, <3>2
    <3>4. Len(t) = 3 /\ t[1] = "D" /\ t[2] = "S" /\ t[3] = "E"
      BY <2>3, <3>1, <3>3
    <3>5. t \in Seq(Symbols) /\ Sentinel \in Seq(Symbols)
      BY <2>3 DEF Sentinel, Symbols
    <3> QED
      BY <1>2, <3>4, <3>5
  <2> QED
    BY <2>1, <2>2, <2>4, <2>5
<1> QED
  BY <1>3, <1>4, TrimRange

\* The R before the N makes no difference to a done line.
LEMMA DoneLineShape ==
    ASSUME NEW l \in Seq(Symbols)
    PROVE  DoneLine(l) <=> DoneShape(l)
<1>1. PICK n \in Nat : n = Len(l)
  OBVIOUS
<1>2. CASE TrimCR(l) = l
  BY <1>2, TrimSentinel DEF DoneLine
<1>3. CASE TrimCR(l) # l
  <2>1. PICK t \in Seq(Symbols) : t = TrimCR(l) /\ n > 0 /\ l[n] = "R" /\ Len(t) = n - 1
                                  /\ \A i \in 1..(n - 1) : t[i] = l[i]
    <3>1. l # <<>> /\ l[n] = "R" /\ TrimCR(l) = SubSeq(l, 1, n - 1)
      BY <1>1, <1>3 DEF TrimCR, Last, Front
    <3>2. n > 0
      BY <1>1, <3>1
    <3> QED
      BY <1>1, <3>1, <3>2
  <2>2. DoneShape(t) => DoneShape(l)
    <3> SUFFICES ASSUME DoneShape(t) PROVE DoneShape(l)
      OBVIOUS
    <3>1. PICK a \in 1..(n - 1) :
            /\ a + 2 <= n - 1 /\ t[a] = "D" /\ t[a + 1] = "S" /\ t[a + 2] = "E"
            /\ \A i \in 1..(n - 1) : i < a \/ i > a + 2 => t[i] \in Blanks
      BY <2>1 DEF DoneShape, DoneAt
    <3>2. ASSUME NEW i \in 1..n, i < a \/ i > a + 2 PROVE l[i] \in Blanks
      <4>1. CASE i = n
        BY <2>1, <4>1 DEF Blanks
      <4>2. CASE i # n
        BY <2>1, <3>1, <3>2, <4>2
      <4> QED
        BY <4>1, <4>2
    <3>3. l[a] = "D" /\ l[a + 1] = "S" /\ l[a + 2] = "E"
      BY <2>1, <3>1
    <3>4. a \in 1..n /\ a + 2 <= n
      BY <1>1, <3>1
    <3> QED
      BY <1>1, <3>2, <3>3, <3>4 DEF DoneShape, DoneAt
  <2>3. DoneShape(l) => DoneShape(t)
    <3> SUFFICES ASSUME DoneShape(l) PROVE DoneShape(t)
      OBVIOUS
    <3>1. PICK a \in 1..n :
            /\ a + 2 <= n /\ l[a] = "D" /\ l[a + 1] = "S" /\ l[a + 2] = "E"
            /\ \A i \in 1..n : i < a \/ i > a + 2 => l[i] \in Blanks
      BY <1>1 DEF DoneShape, DoneAt
    <3>2. a + 2 # n
      <4>1. l[a + 2] # "R"
        BY <3>1
      <4> QED
        BY <2>1, <4>1
    <3>3. t[a] = "D" /\ t[a + 1] = "S" /\ t[a + 2] = "E" /\ a \in 1..(n - 1) /\ a + 2 <= n - 1
      BY <2>1, <3>1, <3>2
    <3>4. \A i \in 1..(n - 1) : i < a \/ i > a + 2 => t[i] \in Blanks
      BY <2>1, <3>1
    <3> QED
      BY <2>1, <3>3, <3>4 DEF DoneShape, DoneAt
  <2> QED
    BY <2>1, <2>2, <2>3, TrimSentinel DEF DoneLine
<1> QED
  BY <1>2, <1>3

-----------------------------------------------------------------------------
(* watchDone on any stream.                                                *)

\* Positions i..j of s are a whole line, its end included.
IsLine(s, i, j) ==
    /\ i = 1 \/ s[i - 1] = "N"
    /\ s[j] = "N" /\ \A k \in i..(j - 1) : s[k] # "N"

\* A line that is too long for scanBuf is not the sentinel, and neither is
\* what is left of it when its beginning has been dropped.
Watchable(s) ==
    /\ s \in Seq(Symbols)
    /\ \A i, j, c \in 1..Len(s) :
        IsLine(s, i, j) /\ i <= c /\ c < j /\ c - i >= ScanCap => ~DoneAt(s, i, j) /\ ~DoneAt(s, c + 1, j)

LEMMA PartOf ==
    ASSUME NEW X, NEW s \in Seq(X), NEW i \in 1..(Len(s) + 1), NEW j \in 0..Len(s), i <= j + 1
    PROVE  /\ SubSeq(s, i, j) \in Seq(X) /\ Len(SubSeq(s, i, j)) = j - i + 1
           /\ \A k \in 1..(j - i + 1) : SubSeq(s, i, j)[k] = s[i + k - 1]
<1>1. PICK n \in Nat : n = Len(s) /\ \A k \in 1..n : s[k] \in X
  OBVIOUS
<1>2. i \in Int /\ j \in Int /\ i..j \subseteq 1..n /\ (~(i <= j) => j - i + 1 = 0)
  BY <1>1
<1>3. \A k \in i..j : s[k] \in X
  BY <1>1, <1>2
<1> QED
  BY <1>2, <1>3, SubSeqProperties

LEMMA PartAfter ==
    ASSUME NEW X, NEW s \in Seq(X), NEW c \in Nat, NEW d \in Nat, c <= d, d <= Len(s)
    PROVE  /\ SubSeq(s, c + 1, d) \in Seq(X) /\ Len(SubSeq(s, c + 1, d)) = d - c
           /\ \A k \in 1..(d - c) : SubSeq(s, c + 1, d)[k] = s[c + k]
<1>1. PICK n \in Nat : n = Len(s)
  OBVIOUS
<1>2. c + 1 \in 1..(n + 1) /\ d \in 0..n /\ c + 1 <= d + 1 /\ d - (c + 1) + 1 = d - c
  BY <1>1
<1>3. \A k \in 1..(d - c) : (c + 1) + k - 1 = c + k
  OBVIOUS
<1>4. /\ SubSeq(s, c + 1, d) \in Seq(X) /\ Len(SubSeq(s, c + 1, d)) = d - (c + 1) + 1
      /\ \A k \in 1..(d - (c + 1) + 1) : SubSeq(s, c + 1, d)[k] = s[(c + 1) + k - 1]
  BY <1>1, <1>2, PartOf
<1> QED
  BY <1>2, <1>3, <1>4

LEMMA DonePart ==
    ASSUME NEW s \in Seq(Symbols), NEW i \in 1..(Len(s) + 1), NEW j \in 0..Len(s)
    PROVE  DoneShape(SubSeq(s, i, j)) <=> DoneAt(s, i, j)
<1>1. PICK n \in Nat : n = Len(s)
  OBVIOUS
<1>2. CASE j < i
  <2>1. Len(SubSeq(s, i, j)) = 0
    BY <1>1, <1>2
  <2> QED
    BY <1>1, <1>2, <2>1 DEF DoneShape, DoneAt
<1>3. CASE i <= j
  <2>1. PICK t : t = SubSeq(s, i, j) /\ Len(t) = j - i + 1 /\ \A k \in 1..(j - i + 1) : t[k] = s[i + k - 1]
    <3>1. i <= j + 1
      BY <1>1, <1>3
    <3>2. Len(SubSeq(s, i, j)) = j - i + 1 /\ \A k \in 1..(j - i + 1) : SubSeq(s, i, j)[k] = s[i + k - 1]
      BY <3>1, PartOf
    <3> QED
      BY <3>2
  <2>2. PICK m \in Nat : m = j - i + 1
    BY <1>1, <1>3
  <2>3. \A k \in 1..m : t[k] = s[i + k - 1]
    BY <2>1, <2>2
  <2>4. \A k \in i..j : k - i + 1 \in 1..m /\ t[k - i + 1] = s[k]
    BY <1>1, <1>3, <2>2, <2>3
  <2>5. ASSUME DoneAt(t, 1, m) PROVE DoneAt(s, i, j)
    <3>1. PICK a \in 1..m :
            /\ a + 2 <= m /\ t[a] = "D" /\ t[a + 1] = "S" /\ t[a + 2] = "E"
            /\ \A k \in 1..m : k < a \/ k > a + 2 => t[k] \in Blanks
      BY <2>5 DEF DoneAt
    <3>2. PICK x \in i..j : x = i + a - 1 /\ x + 2 <= j
      BY <1>1, <1>3, <2>2, <3>1
    <3>3. s[x] = "D" /\ s[x + 1] = "S" /\ s[x + 2] = "E"
      BY <1>1, <2>2, <2>3, <3>1, <3>2
    <3>4. ASSUME NEW k \in i..j, k < x \/ k > x + 2 PROVE s[k] \in Blanks
      <4>1. PICK y \in 1..m : y = k - i + 1 /\ t[y] = s[k]
        BY <2>4
      <4>2. y < a \/ y > a + 2
        BY <1>1, <3>2, <3>4, <4>1
      <4> QED
        BY <3>1, <4>1, <4>2
    <3> QED
      BY <3>2, <3>3, <3>4 DEF DoneAt
  <2>6. ASSUME DoneAt(s, i, j) PROVE DoneAt(t, 1, m)
    <3>1. PICK x \in i..j :
            /\ x + 2 <= j /\ s[x] = "D" /\ s[x + 1] = "S" /\ s[x + 2] = "E"
            /\ \A k \in i..j : k < x \/ k > x + 2 => s[k] \in Blanks
      BY <2>6 DEF DoneAt
    <3>2. PICK a \in 1..m : a = x - i + 1 /\ a + 2 <= m
      BY <1>1, <1>3, <2>2, <3>1
    <3>3. t[a] = "D" /\ t[a + 1] = "S" /\ t[a + 2] = "E"
      BY <1>1, <2>2, <2>3, <3>1, <3>2
    <3>4. ASSUME NEW k \in 1..m, k < a \/ k > a + 2 PROVE t[k] \in Blanks
      <4>0. i + k - 1 \in i..j
        BY <1>1, <2>2
      <4>1. PICK y \in i..j : y = i + k - 1 /\ t[k] = s[y]
        BY <2>3, <4>0
      <4>2. y < x \/ y > x + 2
        BY <1>1, <3>2, <3>4, <4>1
      <4> QED
        BY <3>1, <4>1, <4>2
    <3> QED
      BY <3>2, <3>3, <3>4 DEF DoneAt
  <2>7. DoneShape(t) <=> DoneAt(t, 1, m)
    BY <2>1, <2>2 DEF DoneShape
  <2> QED
    BY <2>1, <2>5, <2>6, <2>7
<1> QED
  BY <1>1, <1>2, <1>3

LEMMA DoneBeforeBlank ==
    ASSUME NEW s, NEW i \in Nat, NEW j \in Nat, i <= j, s[j] \in Blanks
    PROVE  DoneAt(s, i, j) <=> DoneAt(s, i, j - 1)
<1>1. ASSUME DoneAt(s, i, j) PROVE DoneAt(s, i, j - 1)
  <2>1. PICK a \in i..j :
          /\ a + 2 <= j /\ s[a] = "D" /\ s[a + 1] = "S" /\ s[a + 2] = "E"
          /\ \A k \in i..j : k < a \/ k > a + 2 => s[k] \in Blanks
    BY <1>1 DEF DoneAt
  <2>2. a + 2 # j
    BY <2>1 DEF Blanks
  <2>3. a \in i..(j - 1) /\ a + 2 <= j - 1 /\ \A k \in i..(j - 1) : k \in i..j
    BY <2>1, <2>2
  <2> QED
    BY <2>1, <2>3 DEF DoneAt
<1>2. ASSUME DoneAt(s, i, j - 1) PROVE DoneAt(s, i, j)
  <2>1. PICK a \in i..(j - 1) :
          /\ a + 2 <= j - 1 /\ s[a] = "D" /\ s[a + 1] = "S" /\ s[a + 2] = "E"
          /\ \A k \in i..(j - 1) : k < a \/ k > a + 2 => s[k] \in Blanks
    BY <1>2 DEF DoneAt
  <2>2. a \in i..j /\ a + 2 <= j /\ \A k \in i..j : k = j \/ k \in i..(j - 1)
    BY <2>1
  <2> QED
    BY <2>1, <2>2 DEF DoneAt
<1> QED
  BY <1>1, <1>2

\* buf holds the stream s from position c+1 on; its line that ends before
\* its position j begins after its position e.
InBuffer(s, c, buf, j, e) ==
    /\ e = 0 \/ s[c + e] = "N"
    /\ \A k \in (c + e + 1)..(c + j - 1) : s[k] # "N"
    /\ Line(buf, j) = SubSeq(s, c + e + 1, c + j - 1)

LEMMA BufferLine ==
    ASSUME NEW s \in Seq(Symbols), NEW c \in 0..Len(s), NEW d \in c..Len(s),
           NEW buf, buf = SubSeq(s, c + 1, d), NEW j \in 1..(d - c + 1)
    PROVE  \E e \in 0..(j - 1) : InBuffer(s, c, buf, j, e)
<1>1. PICK n \in Nat : n = Len(s) /\ c \in Nat /\ d \in Nat /\ d <= n /\ c <= d
  OBVIOUS
<1>2. PICK m \in Nat : m = d - c /\ j \in Nat /\ 1 <= j /\ j <= m + 1
  BY <1>1
<1>3. buf \in Seq(Symbols) /\ Len(buf) = m /\ \A k \in 1..m : buf[k] = s[c + k]
  BY <1>1, <1>2, PartAfter
<1>4. PICK T : T = {0} \cup {i \in Ends(buf) : i < j}
  OBVIOUS
<1>5. T = {0} \cup {i \in 1..m : buf[i] = "N" /\ i < j}
  BY <1>3, <1>4 DEF Ends
<1>6. T # {} /\ T \subseteq 0..j
  BY <1>2, <1>5
<1>7. PICK e \in T : e = EndBefore(buf, j) /\ \A y \in T : y <= e
  BY <1>2, <1>4, <1>6, MaxMember DEF EndBefore
<1>8. e \in 0..(j - 1) /\ (e = 0 \/ (e \in 1..m /\ buf[e] = "N"))
  BY <1>2, <1>5
<1>9. e = 0 \/ s[c + e] = "N"
  BY <1>3, <1>8
<1>10. ASSUME NEW k \in (c + e + 1)..(c + j - 1) PROVE s[k] # "N"
  <2>1. PICK i \in 1..m : i = k - c /\ e < i /\ i < j
    BY <1>1, <1>2, <1>8
  <2>2. i \notin T
    BY <1>2, <1>7, <1>8, <2>1
  <2>3. buf[i] # "N"
    BY <1>5, <2>1, <2>2
  <2>4. c + i = k
    BY <1>1, <2>1
  <2> QED
    BY <1>3, <2>1, <2>3, <2>4
<1>11. Line(buf, j) = SubSeq(s, c + e + 1, c + j - 1)
  <2>1. PICK t : t = SubSeq(buf, e + 1, j - 1)
    OBVIOUS
  <2>2. PICK u : u = SubSeq(s, c + e + 1, c + j - 1)
    OBVIOUS
  <2>3. PICK w \in Nat : w = j - 1 - e
    BY <1>2, <1>8
  <2>g. PICK g \in Nat, h \in Nat, x \in Nat : g = j - 1 /\ h = c + j - 1 /\ x = c + e
    BY <1>1, <1>2, <1>8
  <2>4. t \in Seq(Symbols) /\ Len(t) = w /\ \A k \in 1..w : t[k] = buf[e + k]
    <3>1. e \in Nat /\ e <= g /\ g <= m /\ g - e = w
      BY <1>2, <1>8, <2>3, <2>g
    <3> QED
      BY <1>3, <2>1, <2>g, <3>1, PartAfter
  <2>5. u \in Seq(Symbols) /\ Len(u) = w /\ \A k \in 1..w : u[k] = s[x + k]
    <3>1. x <= h /\ h <= n /\ h - x = w
      BY <1>1, <1>2, <1>8, <2>3, <2>g
    <3>2. u = SubSeq(s, x + 1, h)
      BY <2>2, <2>g
    <3> QED
      BY <1>1, <3>1, <3>2, PartAfter
  <2>6. ASSUME NEW k \in 1..w PROVE t[k] = u[k]
    <3>1. e + k \in 1..m /\ c + (e + k) = x + k
      BY <1>1, <1>2, <1>8, <2>3, <2>g
    <3> QED
      BY <1>3, <2>4, <2>5, <3>1
  <2>7. t = u
    BY <2>4, <2>5, <2>6, SeqEqual
  <2> QED
    BY <1>7, <2>1, <2>2, <2>7 DEF Line
<1> QED
  BY <1>8, <1>9, <1>10, <1>11 DEF InBuffer

\* A line of scanBuf is a hit if what scanBuf has of the line is the sentinel.
LEMMA BufferHit ==
    ASSUME NEW s \in Seq(Symbols), NEW c \in 0..Len(s), NEW d \in c..Len(s),
           NEW buf, buf = SubSeq(s, c + 1, d), NEW j \in 1..(d - c), s[c + j] = "N"
    PROVE  \E e \in 0..(j - 1) :
             /\ e = 0 \/ s[c + e] = "N"
             /\ \A k \in (c + e + 1)..(c + j - 1) : s[k] # "N"
             /\ DoneLine(Line(buf, j)) <=> DoneAt(s, c + e + 1, c + j)
<1>1. PICK n \in Nat : n = Len(s) /\ c \in Nat /\ d \in Nat /\ d <= n /\ c <= d
  OBVIOUS
<1>2. j \in 1..(d - c + 1) /\ j \in Nat /\ j <= d - c
  BY <1>1
<1>3. PICK e \in 0..(j - 1) :
             /\ e = 0 \/ s[c + e] = "N"
             /\ \A k \in (c + e + 1)..(c + j - 1) : s[k] # "N"
             /\ Line(buf, j) = SubSeq(s, c + e + 1, c + j - 1)
  <2>1. PICK e \in 0..(j - 1) : InBuffer(s, c, buf, j, e)
    <3>1. j \in 1..(d - c + 1)
      BY <1>2
    <3>2. buf = SubSeq(s, c + 1, d)
      OBVIOUS
    <3> QED
      BY <3>1, <3>2, BufferLine
  <2> QED
    BY <2>1 DEF InBuffer
<1>4. PICK i \in Nat, h \in Nat : i = c + e + 1 /\ h = c + j
  BY <1>1, <1>2
<1>5. i \in 1..(n + 1) /\ h - 1 \in 0..n /\ i <= (h - 1) + 1 /\ h - 1 = c + j - 1 /\ i <= h
  BY <1>1, <1>2, <1>3, <1>4
<1>6. SubSeq(s, i, h - 1) \in Seq(Symbols) /\ (DoneShape(SubSeq(s, i, h - 1)) <=> DoneAt(s, i, h - 1))
  BY <1>1, <1>5, DonePart, PartOf
<1>7. DoneAt(s, i, h) <=> DoneAt(s, i, h - 1)
  <2>1. s[h] \in Blanks
    BY <1>4 DEF Blanks
  <2> QED
    BY <1>4, <1>5, <2>1, DoneBeforeBlank
<1>8. DoneLine(Line(buf, j)) <=> DoneAt(s, i, h)
  BY <1>3, <1>4, <1>5, <1>6, <1>7, DoneLineShape
<1> QED
  BY <1>3, <1>4, <1>8

\* d bytes of s have been read: b is the last line end among them, and the
\* scan buffer begins after c, later than b if an overlong rest was dropped.
Pending(s, d, b, c) ==
    /\ b \in 0..d /\ c \in b..d
    /\ b = 0 \/ s[b] = "N"
    /\ \A k \in (b + 1)..d : s[k] # "N"
    /\ c = b \/ c - b > ScanCap

NoDone(s, d) == \A i, j \in 1..d : i <= j /\ IsLine(s, i, j) => ~DoneAt(s, i, j)

LEMMA LineUnique ==
    ASSUME NEW s, NEW j \in Nat, NEW i \in 1..j, NEW h \in 1..j, IsLine(s, i, j), IsLine(s, h, j)
    PROVE  i = h
<1>1. /\ i = 1 \/ s[i - 1] = "N"
      /\ h = 1 \/ s[h - 1] = "N"
      /\ \A k \in i..(j - 1) : s[k] # "N"
      /\ \A k \in h..(j - 1) : s[k] # "N"
  BY DEF IsLine
<1>2. ~(i < h)
  <2>1. i < h => h - 1 \in i..(j - 1) /\ h # 1
    OBVIOUS
  <2> QED
    BY <1>1, <2>1
<1>3. ~(h < i)
  <2>1. h < i => i - 1 \in h..(j - 1) /\ i # 1
    OBVIOUS
  <2> QED
    BY <1>1, <2>1
<1> QED
  BY <1>2, <1>3

\* What the scan buffer has of the line that ends at its position j is the
\* sentinel if and only if the line is.
LEMMA WatchLine ==
    ASSUME NEW s, Watchable(s), NEW a \in Nat, NEW d \in Nat, a <= d, d <= Len(s),
           NEW b, NEW c, Pending(s, a, b, c), NEW buf, buf = SubSeq(s, c + 1, d),
           NEW j \in 1..(d - c), s[c + j] = "N"
    PROVE  \E i \in 1..(c + j) : IsLine(s, i, c + j) /\ (DoneLine(Line(buf, j)) <=> DoneAt(s, i, c + j))
<1>1. s \in Seq(Symbols) /\ ScanCap \in Nat
  BY ScanCapAssumption DEF Watchable
<1>2. PICK n \in Nat : n = Len(s)
  BY <1>1
<1>3. /\ b \in Nat /\ c \in Nat /\ b <= c /\ c <= a /\ (b = 0 \/ s[b] = "N") /\ (c = b \/ c - b > ScanCap)
      /\ \A k \in (b + 1)..a : s[k] # "N"
  BY DEF Pending
<1>4. c \in 0..Len(s) /\ d \in c..Len(s)
  BY <1>2, <1>3
<1>5. PICK e \in 0..(j - 1) :
             /\ e = 0 \/ s[c + e] = "N"
             /\ \A k \in (c + e + 1)..(c + j - 1) : s[k] # "N"
             /\ DoneLine(Line(buf, j)) <=> DoneAt(s, c + e + 1, c + j)
  BY <1>1, <1>4, BufferHit
<1>6. PICK h \in Nat : h = c + j /\ h <= n /\ h > c
  BY <1>2, <1>3
<1>7. h > a
  BY <1>3, <1>6, SMTT(30)
<1>8. CASE c = b \/ e # 0
  <2>1. PICK i \in 1..h : i = c + e + 1
    BY <1>3, <1>5, <1>6
  <2>2. i = 1 \/ s[i - 1] = "N"
    BY <1>3, <1>5, <1>8, <2>1
  <2>a. \A k \in i..(h - 1) : k \in (c + e + 1)..(c + j - 1)
    BY <1>3, <1>6, <2>1
  <2>3. IsLine(s, i, h)
    BY <1>5, <1>6, <2>2, <2>a DEF IsLine
  <2> QED
    BY <1>5, <1>6, <2>1, <2>3
<1>9. CASE c - b > ScanCap /\ e = 0
  <2>1. PICK i \in 1..h : i = b + 1 /\ i <= c
    BY <1>1, <1>3, <1>6, <1>9
  <2>2. ASSUME NEW k \in i..(h - 1) PROVE s[k] # "N"
    <3>1. k \in (b + 1)..a \/ k \in (c + e + 1)..(c + j - 1)
      BY <1>3, <1>6, <1>9, <2>1
    <3> QED
      BY <1>3, <1>5, <3>1
  <2>3. IsLine(s, i, h)
    BY <1>3, <1>6, <2>1, <2>2 DEF IsLine
  <2>4. c \in 1..n /\ h \in 1..n /\ i \in 1..n /\ i <= c /\ c < h /\ c - i >= ScanCap
    BY <1>1, <1>2, <1>3, <1>6, <1>9, <2>1
  <2>5. ~DoneAt(s, i, h) /\ ~DoneAt(s, c + 1, h)
    BY <1>2, <2>3, <2>4 DEF Watchable
  <2>6. c + e + 1 = c + 1
    BY <1>3, <1>9
  <2> QED
    BY <1>5, <1>6, <2>1, <2>3, <2>5, <2>6
<1> QED
  BY <1>3, <1>8, <1>9

Hits(buf) == {j \in Ends(buf) : DoneLine(Line(buf, j))}

LEMMA WatchHits ==
    ASSUME NEW s, Watchable(s), NEW a \in Nat, NEW d \in Nat, a <= d, d <= Len(s),
           NoDone(s, a), NEW b, NEW c, Pending(s, a, b, c), NEW buf, buf = SubSeq(s, c + 1, d)
    PROVE  (Hits(buf) = {} => NoDone(s, d)) /\ (Hits(buf) # {} => ~NoDone(s, d))
<1>1. s \in Seq(Symbols)
  BY DEF Watchable
<1>2. PICK n \in Nat : n = Len(s)
  BY <1>1
<1>3. c \in Nat /\ c <= a /\ b \in Nat /\ b <= c /\ \A k \in (b + 1)..a : s[k] # "N"
  BY DEF Pending
<1>4. PICK m \in Nat : m = d - c
  BY <1>3
<1>5. Ends(buf) = {j \in 1..m : s[c + j] = "N"}
  <2>1. buf \in Seq(Symbols) /\ Len(buf) = m /\ \A k \in 1..m : buf[k] = s[c + k]
    <3>1. c <= d /\ c \in Nat
      BY <1>3
    <3>2. buf \in Seq(Symbols) /\ Len(buf) = d - c /\ \A k \in 1..(d - c) : buf[k] = s[c + k]
      BY <1>1, <3>1, PartAfter
    <3> QED
      BY <1>4, <3>2
  <2> QED
    BY <2>1 DEF Ends
<1>6. ASSUME NEW j \in 1..m, s[c + j] = "N"
      PROVE  \E i \in 1..(c + j) : IsLine(s, i, c + j) /\ (DoneLine(Line(buf, j)) <=> DoneAt(s, i, c + j))
  <2>1. j \in 1..(d - c)
    BY <1>4, <1>6
  <2> QED
    BY <1>6, <2>1, WatchLine, ZenonT(30)
<1>7. ASSUME NoDone(s, d), NEW j \in 1..m, s[c + j] = "N" PROVE ~DoneLine(Line(buf, j))
  <2>1. PICK i \in 1..(c + j) : IsLine(s, i, c + j) /\ (DoneLine(Line(buf, j)) <=> DoneAt(s, i, c + j))
    BY <1>6, <1>7
  <2>2. i \in 1..d /\ c + j \in 1..d /\ i <= c + j
    BY <1>3, <1>4
  <2> QED
    BY <1>7, <2>1, <2>2 DEF NoDone
<1>8. ASSUME NEW i \in 1..d, NEW h \in 1..d, i <= h, IsLine(s, i, h), DoneAt(s, i, h),
             \A j \in 1..m : s[c + j] = "N" => ~DoneLine(Line(buf, j))
      PROVE  FALSE
  <2>1. h > a
    <3>1. h <= a => i \in 1..a /\ h \in 1..a
      BY <1>8
    <3> QED
      BY <1>8, <3>1 DEF NoDone
  <2>2. PICK j \in 1..m : c + j = h
    <3>1. h - c \in 1..m /\ c + (h - c) = h
      BY <1>3, <1>4, <2>1
    <3> QED
      BY <3>1
  <2>3. s[c + j] = "N"
    BY <1>8, <2>2 DEF IsLine
  <2>4. PICK x \in 1..h : IsLine(s, x, h) /\ (DoneLine(Line(buf, j)) <=> DoneAt(s, x, h))
    BY <1>6, <2>2, <2>3
  <2>5. i = x
    <3>1. i \in 1..h /\ h \in Nat
      BY <1>8
    <3> QED
      BY <1>8, <2>4, <3>1, LineUnique
  <2> QED
    BY <1>8, <2>3, <2>4, <2>5
<1>9. NoDone(s, d) <=> \A j \in 1..m : s[c + j] = "N" => ~DoneLine(Line(buf, j))
  BY <1>7, <1>8 DEF NoDone
<1> QED
  BY <1>5, <1>9 DEF Hits

\* The rest that scanBuf keeps.
LEMMA WatchRest ==
    ASSUME NEW s, Watchable(s), NEW a \in Nat, NEW d \in Nat, a <= d, d <= Len(s),
           NEW b, NEW c, Pending(s, a, b, c), NEW buf, buf = SubSeq(s, c + 1, d)
    PROVE  \E x, y \in 0..d :
             Pending(s, d, x, y) /\ Capped(Line(buf, Len(buf) + 1)) = SubSeq(s, y + 1, d) /\ d - y <= ScanCap
<1>1. s \in Seq(Symbols) /\ ScanCap \in Nat
  BY ScanCapAssumption DEF Watchable
<1>2. PICK n \in Nat : n = Len(s)
  BY <1>1
<1>3. /\ c \in Nat /\ c <= a /\ b \in Nat /\ b <= c /\ (b = 0 \/ s[b] = "N") /\ (c = b \/ c - b > ScanCap)
      /\ \A k \in (b + 1)..a : s[k] # "N"
  BY DEF Pending
<1>4. PICK m \in Nat : m = d - c /\ c <= d /\ d - c + 1 = m + 1
  BY <1>3
<1>5. buf \in Seq(Symbols) /\ Len(buf) = m
  BY <1>1, <1>3, <1>4, PartAfter
<1>6. PICK e \in 0..m : InBuffer(s, c, buf, m + 1, e)
  <2>1. m + 1 \in 1..(d - c + 1) /\ c \in 0..Len(s) /\ d \in c..Len(s) /\ (m + 1) - 1 = m
    BY <1>2, <1>3, <1>4
  <2>2. \E e \in 0..((m + 1) - 1) : InBuffer(s, c, buf, m + 1, e)
    BY <1>1, <2>1, BufferLine
  <2> QED
    BY <2>1, <2>2
<1>7. PICK z \in Nat : z = c + e /\ z <= d /\ c <= z
  BY <1>3, <1>4
<1>8. PICK line : line = Line(buf, m + 1) /\ line = SubSeq(s, z + 1, d)
  <2>1. c + (m + 1) - 1 = d
    BY <1>3, <1>4
  <2> QED
    BY <1>6, <1>7, <2>1 DEF InBuffer
<1>9. \A k \in (z + 1)..d : s[k] # "N"
  <2>1. c + (m + 1) - 1 = d
    BY <1>3, <1>4
  <2> QED
    BY <1>6, <1>7, <2>1 DEF InBuffer
<1>10. line \in Seq(Symbols) /\ Len(line) = d - z
  <2>1. SubSeq(s, z + 1, d) \in Seq(Symbols) /\ Len(SubSeq(s, z + 1, d)) = d - z
    BY <1>1, <1>7, PartAfter
  <2> QED
    BY <1>8, <2>1
<1>11. PICK x \in 0..d : (x = 0 \/ s[x] = "N") /\ (\A k \in (x + 1)..d : s[k] # "N")
                          /\ x <= z /\ (z = x \/ z - x > ScanCap)
  <2>1. CASE e = 0
    <3>1. ASSUME NEW k \in (b + 1)..d PROVE s[k] # "N"
      <4>1. k \in (b + 1)..a \/ k \in (z + 1)..d
        BY <1>3, <1>4, <1>7, <2>1
      <4> QED
        BY <1>3, <1>9, <4>1
    <3>2. z = c /\ b \in 0..d
      BY <1>3, <1>4, <1>7, <2>1
    <3> QED
      BY <1>3, <3>1, <3>2
  <2>2. CASE e # 0
    <3>1. s[z] = "N" /\ z \in 0..d
      BY <1>6, <1>7, <2>2 DEF InBuffer
    <3> QED
      BY <1>7, <1>9, <3>1
  <2> QED
    BY <2>1, <2>2
<1>12. CASE d - z > ScanCap
  <2>1. Capped(line) = <<>>
    BY <1>10, <1>12 DEF Capped
  <2>2. SubSeq(s, d + 1, d) = <<>>
    BY SubSeqEmpty
  <2>3. x \in 0..d /\ d \in x..d /\ d - x > ScanCap /\ d \in 0..d /\ d - d <= ScanCap
    BY <1>1, <1>7, <1>11, <1>12
  <2>4. Pending(s, d, x, d)
    BY <1>11, <2>3 DEF Pending
  <2> QED
    BY <1>5, <1>8, <2>1, <2>2, <2>3, <2>4
<1>13. CASE d - z <= ScanCap
  <2>1. Capped(line) = line
    BY <1>1, <1>7, <1>10, <1>13 DEF Capped
  <2>2. z \in 0..d /\ x \in 0..d /\ z \in x..d
    BY <1>7, <1>11
  <2>3. Pending(s, d, x, z)
    BY <1>11, <2>2 DEF Pending
  <2> QED
    BY <1>5, <1>8, <1>13, <2>1, <2>2, <2>3
<1>14. d - z > ScanCap \/ d - z <= ScanCap
  BY <1>1, <1>7
<1> QED
  BY <1>12, <1>13, <1>14, Zenon

-----------------------------------------------------------------------------
(* The invariant of watchDone.                                             *)

\* Until the sentinel has come everything read is collected and scanBuf is
\* what is read of the current line, or a part of it that is past its cap;
\* what is collected when it has come contains it.
Watched ==
    /\ Watchable(stream) /\ at \in 0..Len(stream) /\ sawDone \in BOOLEAN
    /\ ~sawDone =>
        /\ collected = SubSeq(stream, 1, at) /\ NoDone(stream, at)
        /\ \E b, c \in 0..at :
             Pending(stream, at, b, c) /\ scanBuf = SubSeq(stream, c + 1, at) /\ at - c <= ScanCap
    /\ sawDone => \E e \in 0..at : collected = SubSeq(stream, 1, e) /\ ~NoDone(stream, e)

\* A byte string joined to what follows it in the stream.
LEMMA PartJoined ==
    ASSUME NEW X, NEW s \in Seq(X), NEW c \in Nat, NEW a \in Nat, NEW d \in Nat,
           c <= a, a <= d, d <= Len(s)
    PROVE  SubSeq(s, c + 1, a) \o SubSeq(s, a + 1, d) = SubSeq(s, c + 1, d)
<1>1. PICK n \in Nat : n = Len(s)
  OBVIOUS
<1>2. c + 1 \in 1..(n + 1) /\ a \in ((c + 1) - 1)..n /\ d \in a..n
  BY <1>1
<1> QED
  BY <1>1, <1>2, ConcatAdjacentSubSeq

LEMMA WatchedInit ==
    ASSUME ScannerInit, Watchable(stream)
    PROVE  Watched
<1>1. stream \in Seq(Symbols) /\ at = 0 /\ scanBuf = <<>> /\ sawDone = FALSE /\ collected = <<>>
  BY DEF ScannerInit, Watchable
<1>2. at \in 0..Len(stream) /\ SubSeq(stream, 1, 0) = <<>>
  BY <1>1, SubSeqEmpty
<1>3. NoDone(stream, 0)
  BY DEF NoDone
<1>4. Pending(stream, 0, 0, 0)
  BY DEF Pending
<1>5. 0 - 0 <= ScanCap /\ 0 \in 0..0 /\ 0 + 1 = 1
  BY ScanCapAssumption
<1> QED
  BY <1>1, <1>2, <1>3, <1>4, <1>5 DEF Watched

LEMMA WatchedStep ==
    ASSUME Watched, [ScannerNext]_scannerVars
    PROVE  Watched'
<1>1. CASE UNCHANGED scannerVars
  BY <1>1 DEF Watched, scannerVars
<1>2. ASSUME NEW n \in 1..Len(stream), WriteBytes(n) PROVE Watched'
  <2>1. /\ at + n <= Len(stream) /\ at' = at + n /\ UNCHANGED <<forms, stop, stream>>
        /\ stream \in Seq(Symbols) /\ at \in 0..Len(stream) /\ Watchable(stream)
    BY <1>2 DEF WriteBytes, Watched, Watchable
  <2>2. PICK a \in Nat, d \in Nat, m \in Nat : a = at /\ d = at + n /\ m = Len(stream) /\ a <= d /\ d <= m
    <3>1. Len(stream) \in Nat /\ at \in Nat /\ n \in Nat
      BY <2>1
    <3>2. at + n \in Nat /\ at <= at + n
      BY <3>1
    <3> QED
      BY <2>1, <3>1, <3>2
  <2>w. Watchable(stream) /\ stream \in Seq(Symbols) /\ d <= Len(stream) /\ a <= d
    BY <2>1, <2>2
  <2>3. CASE sawDone
    <3>1. UNCHANGED <<scanBuf, sawDone, collected>>
      BY <1>2, <2>3 DEF WriteBytes
    <3>2. PICK e \in 0..a : collected = SubSeq(stream, 1, e) /\ ~NoDone(stream, e)
      BY <2>2, <2>3 DEF Watched
    <3>3. e \in 0..d /\ d \in 0..m
      BY <2>2
    <3> QED
      BY <2>1, <2>2, <2>3, <3>1, <3>2, <3>3 DEF Watched
  <2>4. CASE ~sawDone
    <3>1. collected = SubSeq(stream, 1, a) /\ NoDone(stream, a)
      BY <2>2, <2>4 DEF Watched
    <3>2. PICK b \in 0..a, c \in 0..a :
            Pending(stream, a, b, c) /\ scanBuf = SubSeq(stream, c + 1, a)
      BY <2>2, <2>4 DEF Watched
    <3>3. PICK buf : buf = ScanBuffer(scanBuf, SubSeq(stream, at + 1, at + n))
      OBVIOUS
    <3>4. buf = SubSeq(stream, c + 1, d)
      <4>1. c \in Nat /\ c <= a
        BY <2>2
      <4>2. buf = SubSeq(stream, c + 1, a) \o SubSeq(stream, a + 1, d)
        BY <2>2, <3>2, <3>3 DEF ScanBuffer
      <4> QED
        BY <2>w, <4>1, <4>2, PartJoined
    <3>5. collected' = SubSeq(stream, 1, d)
      <4>1. collected' = collected \o SubSeq(stream, a + 1, d)
        BY <1>2, <2>2, <2>4 DEF WriteBytes
      <4>2. SubSeq(stream, 0 + 1, a) \o SubSeq(stream, a + 1, d) = SubSeq(stream, 0 + 1, d)
        BY <2>1, <2>2, PartJoined
      <4>3. 0 + 1 = 1
        OBVIOUS
      <4> QED
        BY <3>1, <4>1, <4>2, <4>3
    <3>6. PICK hits : hits = {j \in Ends(buf) : DoneLine(Line(buf, j))}
      OBVIOUS
    <3>7. NoDone(stream, d) <=> hits = {}
      <4>1. Pending(stream, a, b, c) /\ NoDone(stream, a)
        BY <3>1, <3>2
      <4>2. (Hits(buf) = {} => NoDone(stream, d)) /\ (Hits(buf) # {} => ~NoDone(stream, d))
        BY <2>w, <3>4, <4>1, WatchHits
      <4> QED
        BY <3>6, <4>2 DEF Hits
    <3>8. d \in 0..m /\ d \in 0..d
      BY <2>2
    <3>9. CASE hits = {}
      <4>1. scanBuf' = Capped(Line(buf, Len(buf) + 1)) /\ UNCHANGED sawDone
        BY <1>2, <2>4, <3>3, <3>6, <3>9 DEF WriteBytes
      <4>2. PICK x \in 0..d, y \in 0..d :
              Pending(stream, d, x, y) /\ Capped(Line(buf, Len(buf) + 1)) = SubSeq(stream, y + 1, d) /\ d - y <= ScanCap
        BY <2>w, <3>2, <3>4, WatchRest
      <4>3. ~sawDone' /\ sawDone' \in BOOLEAN
        BY <2>4, <4>1 DEF Watched
      <4> QED
        BY <2>1, <2>2, <3>5, <3>7, <3>8, <3>9, <4>1, <4>2, <4>3 DEF Watched
    <3>10. CASE hits # {}
      <4>1. sawDone' = TRUE
        BY <1>2, <2>4, <3>3, <3>6, <3>10 DEF WriteBytes
      <4> QED
        BY <2>1, <2>2, <3>5, <3>7, <3>8, <3>10, <4>1 DEF Watched
    <3> QED
      BY <3>9, <3>10
  <2> QED
    BY <2>3, <2>4
<1> QED
  BY <1>1, <1>2 DEF ScannerNext

LEMMA WatchedExact ==
    ASSUME Watched
    PROVE  WatchExact
<1>1. PICK a \in Nat, n \in Nat : a = at /\ n = Len(stream) /\ a <= n /\ stream \in Seq(Symbols)
  <2>1. stream \in Seq(Symbols) /\ at \in 0..Len(stream)
    BY DEF Watched, Watchable
  <2>2. at \in Nat /\ Len(stream) \in Nat /\ at <= Len(stream)
    BY <2>1
  <2> QED
    BY <2>1, <2>2
<1>2. ASSUME NEW i \in 1..a, NEW j \in 1..a, i <= j
      PROVE  DoneAt(stream, i, j) <=> TrimSpace(SubSeq(stream, i, j)) = Sentinel
  <2>1. i \in 1..(Len(stream) + 1) /\ j \in 0..Len(stream) /\ i <= j + 1
    BY <1>1, <1>2
  <2>2. SubSeq(stream, i, j) \in Seq(Symbols)
    BY <1>1, <2>1, PartOf
  <2> QED
    BY <1>1, <2>1, <2>2, DonePart, TrimSentinel
<1>3. ASSUME sawDone
      PROVE  \E i, j \in 1..a : i <= j /\ IsLine(stream, i, j) /\ TrimSpace(SubSeq(stream, i, j)) = Sentinel
  <2>1. PICK e \in 0..a : ~NoDone(stream, e)
    BY <1>1, <1>3 DEF Watched
  <2>2. PICK i \in 1..e, j \in 1..e : i <= j /\ IsLine(stream, i, j) /\ DoneAt(stream, i, j)
    BY <2>1 DEF NoDone
  <2>3. i \in 1..a /\ j \in 1..a
    BY <1>1
  <2> QED
    BY <1>2, <2>2, <2>3
<1>4. ASSUME NEW i \in 1..a, NEW j \in 1..a, i <= j, IsLine(stream, i, j),
             TrimSpace(SubSeq(stream, i, j)) = Sentinel
      PROVE  sawDone
  BY <1>1, <1>2, <1>4 DEF Watched, NoDone
<1>5. \A i, j : i \in 1..a /\ j \in i..a <=> i \in 1..a /\ j \in 1..a /\ i <= j
  BY <1>1
<1> QED
  BY <1>1, <1>3, <1>4, <1>5 DEF WatchExact, IsLine

-----------------------------------------------------------------------------
(* The lines of a stream.                                                  *)

Ink == {"D", "S", "E", "J", "C"}
Padded == <<"S", "D", "S", "E">>
TextLines == {<<"D">> \o p : p \in Payloads} \cup {<<"D", "S">> \o p : p \in Payloads}
Content == {<<>>, Sentinel, <<"D", "E">>, Padded, <<"C">>} \cup TextLines

\* Positions i..j of t are h later in s.
Shifted(s, t, i, j, h) == \A k \in i..j : t[k] = s[k + h]

LEMMA DoneShift ==
    ASSUME NEW s, NEW t, NEW i \in Int, NEW j \in Int, NEW h \in Int, Shifted(s, t, i, j, h),
           NEW u \in Int, NEW v \in Int, u = i + h, v = j + h
    PROVE  DoneAt(t, i, j) <=> DoneAt(s, u, v)
<1>0. \A k \in i..j : t[k] = s[k + h]
  BY DEF Shifted
<1>1. ASSUME DoneAt(t, i, j) PROVE DoneAt(s, u, v)
  <2>1. PICK a \in i..j :
          /\ a + 2 <= j /\ t[a] = "D" /\ t[a + 1] = "S" /\ t[a + 2] = "E"
          /\ \A k \in i..j : k < a \/ k > a + 2 => t[k] \in Blanks
    BY <1>1 DEF DoneAt
  <2>2. PICK x \in u..v : x = a + h /\ x + 2 <= v
    BY <2>1
  <2>3. s[x] = "D" /\ s[x + 1] = "S" /\ s[x + 2] = "E"
    <3>1. a \in i..j /\ a + 1 \in i..j /\ a + 2 \in i..j
      BY <2>1
    <3>2. x = a + h /\ x + 1 = (a + 1) + h /\ x + 2 = (a + 2) + h
      BY <2>2
    <3> QED
      BY <1>0, <2>1, <3>1, <3>2
  <2>4. ASSUME NEW k \in u..v, k < x \/ k > x + 2 PROVE s[k] \in Blanks
    <3>1. PICK y \in i..j : y = k - h /\ y + h = k
      OBVIOUS
    <3>2. y < a \/ y > a + 2
      BY <2>2, <2>4, <3>1
    <3> QED
      BY <1>0, <2>1, <3>1, <3>2
  <2> QED
    BY <2>2, <2>3, <2>4 DEF DoneAt
<1>2. ASSUME DoneAt(s, u, v) PROVE DoneAt(t, i, j)
  <2>1. PICK x \in u..v :
          /\ x + 2 <= v /\ s[x] = "D" /\ s[x + 1] = "S" /\ s[x + 2] = "E"
          /\ \A k \in u..v : k < x \/ k > x + 2 => s[k] \in Blanks
    BY <1>2 DEF DoneAt
  <2>2. PICK a \in i..j : a = x - h /\ a + h = x /\ a + 2 <= j
    BY <2>1
  <2>3. t[a] = "D" /\ t[a + 1] = "S" /\ t[a + 2] = "E"
    <3>1. a \in i..j /\ a + 1 \in i..j /\ a + 2 \in i..j
      BY <2>2
    <3>2. x = a + h /\ x + 1 = (a + 1) + h /\ x + 2 = (a + 2) + h
      BY <2>2
    <3> QED
      BY <1>0, <2>1, <3>1, <3>2
  <2>4. ASSUME NEW k \in i..j, k < a \/ k > a + 2 PROVE t[k] \in Blanks
    <3>1. PICK y \in u..v : y = k + h
      OBVIOUS
    <3>2. y < x \/ y > x + 2
      BY <2>2, <2>4, <3>1
    <3> QED
      BY <1>0, <2>1, <3>1, <3>2
  <2> QED
    BY <2>2, <2>3, <2>4 DEF DoneAt
<1> QED
  BY <1>1, <1>2

LEMMA PayloadShape ==
    ASSUME NEW p \in Payloads
    PROVE  /\ p \in Seq({"D", "S", "E", "J"}) /\ p \in Seq(Symbols) /\ p \in Seq(Ink)
           /\ Len(p) \in Nat /\ Len(p) >= 1 /\ p[1] = "J"
           /\ \A k \in 1..Len(p) : p[k] \in Ink /\ ~DoneAt(p, k, Len(p))
<1>1. /\ p \in Seq({"D", "S", "E", "J"}) /\ p # <<>> /\ p[1] = "J"
      /\ \A i \in DOMAIN p : TrimSpace(SubSeq(p, i, Len(p))) # Sentinel
  BY PayloadAssumption
<1>2. {"D", "S", "E", "J"} \subseteq Symbols /\ {"D", "S", "E", "J"} \subseteq Ink
  BY DEF Symbols, Ink
<1>3. p \in Seq(Symbols) /\ p \in Seq(Ink)
  BY <1>1, <1>2, SeqMonotonic
<1>4. PICK n \in Nat : n = Len(p) /\ n >= 1 /\ DOMAIN p = 1..n
  BY <1>1
<1>5. ASSUME NEW k \in 1..n PROVE p[k] \in Ink /\ ~DoneAt(p, k, n)
  <2>1. k \in 1..(Len(p) + 1) /\ n \in 0..Len(p) /\ k <= n + 1
    BY <1>4
  <2>2. SubSeq(p, k, n) \in Seq(Symbols) /\ (DoneShape(SubSeq(p, k, n)) <=> DoneAt(p, k, n))
    BY <1>3, <2>1, PartOf, DonePart
  <2>3. TrimSpace(SubSeq(p, k, n)) # Sentinel
    BY <1>1, <1>4
  <2>4. p[k] \in Ink
    BY <1>3, <1>4
  <2> QED
    BY <2>2, <2>3, <2>4, TrimSentinel
<1> QED
  BY <1>1, <1>3, <1>4, <1>5

\* A data: line with a text that has h symbols before the text.
TextAfter(l, p, h) ==
    /\ p \in Payloads /\ Len(l) = h + Len(p) /\ l[1] = "D" /\ (h = 2 => l[2] = "S")
    /\ \A k \in 1..Len(p) : l[k + h] = p[k]

LEMMA TextLineShape ==
    ASSUME NEW l \in TextLines
    PROVE  l \in Seq(Ink) /\ \E p \in Payloads : \E h \in {1, 2} : TextAfter(l, p, h)
<1>1. ASSUME NEW p \in Payloads, l = <<"D">> \o p PROVE l \in Seq(Ink) /\ TextAfter(l, p, 1)
  <2>1. p \in Seq(Ink) /\ <<"D">> \in Seq(Ink) /\ Len(<<"D">>) = 1
    BY PayloadShape DEF Ink
  <2>2. PICK n \in Nat : n = Len(p)
    BY <2>1
  <2>3. l \in Seq(Ink) /\ Len(l) = 1 + n /\ \A i \in 1..(1 + n) : l[i] = IF i <= 1 THEN <<"D">>[i] ELSE p[i - 1]
    BY <1>1, <2>1, <2>2, ConcatProperties
  <2>4. l[1] = "D"
    BY <2>3
  <2>5. \A k \in 1..n : l[k + 1] = p[k]
    <3>1. \A k \in 1..n : k + 1 \in 1..(1 + n) /\ ~(k + 1 <= 1) /\ (k + 1) - 1 = k
      OBVIOUS
    <3> QED
      BY <2>3, <3>1
  <2> QED
    BY <2>2, <2>3, <2>4, <2>5 DEF TextAfter
<1>2. ASSUME NEW p \in Payloads, l = <<"D", "S">> \o p PROVE l \in Seq(Ink) /\ TextAfter(l, p, 2)
  <2>1. p \in Seq(Ink) /\ <<"D", "S">> \in Seq(Ink) /\ Len(<<"D", "S">>) = 2
    BY PayloadShape DEF Ink
  <2>2. PICK n \in Nat : n = Len(p)
    BY <2>1
  <2>3. l \in Seq(Ink) /\ Len(l) = 2 + n /\ \A i \in 1..(2 + n) : l[i] = IF i <= 2 THEN <<"D", "S">>[i] ELSE p[i - 2]
    BY <1>2, <2>1, <2>2, ConcatProperties
  <2>4. l[1] = "D" /\ l[2] = "S"
    BY <2>3
  <2>5. \A k \in 1..n : l[k + 2] = p[k]
    <3>1. \A k \in 1..n : k + 2 \in 1..(2 + n) /\ ~(k + 2 <= 2) /\ (k + 2) - 2 = k
      OBVIOUS
    <3> QED
      BY <2>3, <3>1
  <2> QED
    BY <2>2, <2>3, <2>4, <2>5 DEF TextAfter
<1> QED
  BY <1>1, <1>2 DEF TextLines

\* A text is not the sentinel, nor is any end of it.
LEMMA TextNotDone ==
    ASSUME NEW l \in TextLines
    PROVE  /\ l \in Seq(Ink) /\ ~DoneAt(l, 1, Len(l)) /\ l # <<>> /\ l[1] = "D"
           /\ \A k \in 3..Len(l) : ~DoneAt(l, k, Len(l))
<1>1. PICK p \in Payloads, h \in {1, 2} : TextAfter(l, p, h)
  BY TextLineShape
<1>2. l \in Seq(Ink)
  BY TextLineShape
<1>3. PICK n \in Nat, m \in Nat : n = Len(p) /\ m = Len(l) /\ m = h + n /\ n >= 1
  BY <1>1, <1>2, PayloadShape DEF TextAfter
<1>4. /\ l[1] = "D" /\ (h = 2 => l[2] = "S") /\ (\A k \in 1..n : l[k + h] = p[k]) /\ p[1] = "J"
      /\ \A k \in 1..n : ~DoneAt(p, k, n)
  BY <1>1, <1>3, PayloadShape DEF TextAfter
<1>5. ASSUME DoneAt(l, 1, m) PROVE FALSE
  <2>1. PICK a \in 1..m :
          /\ a + 2 <= m /\ l[a] = "D" /\ l[a + 1] = "S" /\ l[a + 2] = "E"
          /\ \A k \in 1..m : k < a \/ k > a + 2 => l[k] \in Blanks
    BY <1>5 DEF DoneAt
  <2>2. 1 \in 1..m /\ "D" \notin Blanks
    BY <1>3 DEF Blanks
  <2>3. a = 1
    BY <1>4, <2>1, <2>2
  <2>4. l[1 + h] = "J" /\ 1 + h \in {2, 3}
    BY <1>3, <1>4
  <2>5. l[2] = "S" /\ l[3] = "E"
    BY <2>1, <2>3
  <2> QED
    BY <2>4, <2>5
<1>6. ASSUME NEW k \in 3..m PROVE ~DoneAt(l, k, m)
  <2>1. PICK i \in 1..n : i + h = k /\ n + h = m
    <3>1. k - h \in 1..n /\ (k - h) + h = k
      BY <1>3
    <3> QED
      BY <1>3, <3>1
  <2>2. DoneAt(p, i, n) <=> DoneAt(l, k, m)
    <3>1. Shifted(l, p, i, n, h)
      BY <1>4 DEF Shifted
    <3>2. i \in Int /\ n \in Int /\ h \in Int /\ k \in Int /\ m \in Int /\ k = i + h /\ m = n + h
      BY <2>1
    <3> QED
      BY <3>1, <3>2, DoneShift
  <2> QED
    BY <1>4, <2>1, <2>2
<1>7. l # <<>>
  <2>1. Len(<<>>) = 0 /\ m # 0
    BY <1>3
  <2>2. ASSUME l = <<>> PROVE FALSE
    BY <1>3, <2>1, <2>2
  <2> QED
    BY <2>2
<1> QED
  BY <1>2, <1>3, <1>4, <1>5, <1>6, <1>7

LEMMA ContentShape ==
    ASSUME NEW l \in Content
    PROVE  /\ l \in Seq(Ink) /\ l \in Seq(Symbols)
           /\ DoneAt(l, 1, Len(l)) <=> l \in {Sentinel, Padded}
           /\ Len(l) >= 5 => l \in TextLines
<1>1. Ink \subseteq Symbols
  BY DEF Ink, Symbols
<1>2. CASE l \in TextLines
  <2>1. l \in Seq(Ink) /\ ~DoneAt(l, 1, Len(l))
    BY <1>2, TextNotDone
  <2>2. DoneAt(Sentinel, 1, 3) /\ Len(Sentinel) = 3
    <3>1. Sentinel[1] = "D" /\ Sentinel[2] = "S" /\ Sentinel[3] = "E" /\ Len(Sentinel) = 3
      BY DEF Sentinel
    <3>2. 1 \in 1..3 /\ 1 + 1 = 2 /\ 1 + 2 = 3 /\ 1 + 2 <= 3 /\ \A k \in 1..3 : ~(k < 1 \/ k > 1 + 2)
      OBVIOUS
    <3> QED
      BY <3>1, <3>2 DEF DoneAt
  <2>3. DoneAt(Padded, 1, 4) /\ Len(Padded) = 4
    <3>1. Padded[1] = "S" /\ Padded[2] = "D" /\ Padded[3] = "S" /\ Padded[4] = "E" /\ Len(Padded) = 4
      BY DEF Padded
    <3>2. 2 \in 1..4 /\ 2 + 1 = 3 /\ 2 + 2 = 4 /\ 2 + 2 <= 4 /\ \A k \in 1..4 : k < 2 \/ k > 2 + 2 => k = 1
      OBVIOUS
    <3> QED
      BY <3>1, <3>2 DEF DoneAt, Blanks
  <2>4. l # Sentinel /\ l # Padded
    BY <2>1, <2>2, <2>3
  <2>5. l \in Seq(Symbols)
    BY <1>1, <2>1, SeqMonotonic
  <2> QED
    BY <1>2, <2>1, <2>4, <2>5
<1>3. CASE l = <<>>
  <2>1. Len(l) = 0 /\ l \in Seq(Ink) /\ l \in Seq(Symbols) /\ l # Sentinel /\ l # Padded
    BY <1>3 DEF Sentinel, Padded
  <2> QED
    BY <2>1 DEF DoneAt
<1>4. CASE l = Sentinel
  <2>1. Len(l) = 3 /\ l \in Seq(Ink) /\ l \in Seq(Symbols) /\ l[1] = "D" /\ l[2] = "S" /\ l[3] = "E"
    BY <1>4 DEF Sentinel, Ink, Symbols
  <2>2. 1 \in 1..3 /\ 1 + 1 = 2 /\ 1 + 2 = 3 /\ 1 + 2 <= 3 /\ \A k \in 1..3 : ~(k < 1 \/ k > 1 + 2)
    OBVIOUS
  <2>3. DoneAt(l, 1, 3)
    BY <2>1, <2>2 DEF DoneAt
  <2> QED
    BY <1>4, <2>1, <2>3
<1>5. CASE l = Padded
  <2>1. Len(l) = 4 /\ l \in Seq(Ink) /\ l \in Seq(Symbols) /\ l[1] = "S" /\ l[2] = "D" /\ l[3] = "S" /\ l[4] = "E"
    BY <1>5 DEF Padded, Ink, Symbols
  <2>2. 2 \in 1..4 /\ 2 + 1 = 3 /\ 2 + 2 = 4 /\ 2 + 2 <= 4 /\ \A k \in 1..4 : k < 2 \/ k > 2 + 2 => k = 1
    OBVIOUS
  <2>3. DoneAt(l, 1, 4)
    BY <2>1, <2>2 DEF DoneAt, Blanks
  <2> QED
    BY <1>5, <2>1, <2>3
<1>6. CASE l = <<"D", "E">> \/ l = <<"C">>
  <2>a. Len(Sentinel) = 3 /\ Len(Padded) = 4
    BY DEF Sentinel, Padded
  <2>b. l \in Seq(Ink) /\ l \in Seq(Symbols) /\ Len(l) \in {1, 2}
    <3>1. CASE l = <<"D", "E">>
      BY <3>1 DEF Ink, Symbols
    <3>2. CASE l = <<"C">>
      BY <3>2 DEF Ink, Symbols
    <3> QED
      BY <1>6, <3>1, <3>2
  <2>1. Len(l) \in Nat /\ Len(l) < 3 /\ l \in Seq(Ink) /\ l \in Seq(Symbols) /\ l # Sentinel /\ l # Padded
    <3>0. PICK z : z = Len(l) /\ (z = 1 \/ z = 2)
      BY <2>b
    <3>1. ASSUME l = Sentinel \/ l = Padded PROVE FALSE
      BY <2>a, <3>0, <3>1
    <3>2. Len(l) \in Nat /\ Len(l) < 3
      BY <3>0
    <3> QED
      BY <2>b, <3>1, <3>2
  <2>2. ~DoneAt(l, 1, Len(l))
    BY <2>1 DEF DoneAt
  <2> QED
    BY <2>1, <2>2
<1> QED
  BY <1>2, <1>3, <1>4, <1>5, <1>6 DEF Content

-----------------------------------------------------------------------------
(* The bytes of a stream.                                                  *)

\* all is m lines, each with its end; line i ends at off[i].
Laid(all, lines, eol, off, m) ==
    /\ m \in Nat \ {0} /\ lines \in [1..m -> Content] /\ eol \in LineEnds
    /\ all \in Seq(Symbols) /\ off \in [0..m -> Nat] /\ off[0] = 0 /\ Len(all) = off[m]
    /\ \A i \in 1..m :
        /\ off[i] = off[i - 1] + Len(lines[i]) + Len(eol)
        /\ Shifted(all, lines[i], 1, Len(lines[i]), off[i - 1])
        /\ Shifted(all, eol, 1, Len(eol), off[i - 1] + Len(lines[i]))

LEMMA EolShape ==
    ASSUME NEW eol \in LineEnds
    PROVE  /\ eol \in Seq(Symbols) /\ Len(eol) \in {1, 2} /\ eol[Len(eol)] = "N" /\ (Len(eol) = 2 => eol[1] = "R")
           /\ (Len(eol) = 1 => eol = <<"N">>) /\ (Len(eol) = 2 => eol = <<"R", "N">>)
<1>1. CASE eol = <<"N">>
  BY <1>1 DEF Symbols
<1>2. CASE eol = <<"R", "N">>
  BY <1>2 DEF Symbols
<1> QED
  BY <1>1, <1>2 DEF LineEnds

LEMMA LaidOut ==
    ASSUME NEW m \in Nat \ {0}, NEW lines \in [1..m -> Content], NEW eol \in LineEnds
    PROVE  \E off : Laid(FlattenSeq([i \in 1..m |-> lines[i] \o eol]), lines, eol, off, m)
<1>1. eol \in Seq(Symbols)
  BY EolShape
<1>2. PICK ss : ss = [i \in 1..m |-> lines[i] \o eol]
  OBVIOUS
<1>3. ASSUME NEW i \in 1..m
      PROVE  /\ lines[i] \in Seq(Symbols) /\ Len(lines[i]) \in Nat /\ Len(eol) \in Nat
             /\ ss[i] \in Seq(Symbols) /\ Len(ss[i]) = Len(lines[i]) + Len(eol)
             /\ \A k \in 1..(Len(lines[i]) + Len(eol)) :
                   ss[i][k] = IF k <= Len(lines[i]) THEN lines[i][k] ELSE eol[k - Len(lines[i])]
  <2>1. lines[i] \in Seq(Symbols)
    BY ContentShape
  <2>2. ss[i] = lines[i] \o eol
    BY <1>2
  <2>3. Len(lines[i]) \in Nat /\ Len(eol) \in Nat
    BY <1>1, <2>1
  <2> QED
    BY <1>1, <2>1, <2>2, <2>3, ConcatProperties
<1>4. ss \in [1..m -> Seq(Symbols)]
  BY <1>2, <1>3
<1>5. PICK all : all = FlattenSeq(ss)
  OBVIOUS
<1>6. PICK off : all \in Seq(Symbols) /\ Ranges(all, ss, off, m)
  BY <1>4, <1>5, FlattenRanges
<1>7. /\ off \in [0..m -> Nat] /\ off[0] = 0 /\ Len(all) = off[m]
      /\ \A i \in 1..m : off[i] = off[i - 1] + Len(ss[i])
      /\ \A i \in 1..m : \A k \in 1..Len(ss[i]) : all[off[i - 1] + k] = ss[i][k]
  BY <1>6 DEF Ranges
<1>8. ASSUME NEW i \in 1..m
      PROVE  /\ off[i] = off[i - 1] + Len(lines[i]) + Len(eol)
             /\ Shifted(all, lines[i], 1, Len(lines[i]), off[i - 1])
             /\ Shifted(all, eol, 1, Len(eol), off[i - 1] + Len(lines[i]))
  <2>1. PICK b \in Nat, z \in Nat, e \in Nat : b = off[i - 1] /\ z = Len(lines[i]) /\ e = Len(eol)
    <3>1. i - 1 \in 0..m
      OBVIOUS
    <3> QED
      BY <1>3, <1>7, <3>1
  <2>2. PICK t : t = ss[i] /\ Len(t) = z + e
    BY <1>3, <2>1
  <2>3. \A k \in 1..(z + e) : t[k] = IF k <= z THEN lines[i][k] ELSE eol[k - z]
    BY <1>3, <2>1, <2>2
  <2>4. off[i] = b + (z + e) /\ \A k \in 1..(z + e) : all[b + k] = t[k]
    BY <1>7, <2>1, <2>2
  <2>5. off[i] = b + z + e
    BY <2>4
  <2>6. ASSUME NEW k \in 1..z PROVE lines[i][k] = all[k + b]
    <3>1. k \in 1..(z + e) /\ k <= z /\ k + b = b + k
      OBVIOUS
    <3> QED
      BY <2>3, <2>4, <3>1
  <2>7. ASSUME NEW k \in 1..e PROVE eol[k] = all[k + (b + z)]
    <3>1. z + k \in 1..(z + e) /\ ~(z + k <= z) /\ (z + k) - z = k /\ k + (b + z) = b + (z + k)
      OBVIOUS
    <3> QED
      BY <2>3, <2>4, <3>1
  <2> QED
    BY <2>1, <2>5, <2>6, <2>7 DEF Shifted
<1>9. Laid(all, lines, eol, off, m)
  BY <1>6, <1>7, <1>8 DEF Laid
<1> QED
  BY <1>2, <1>5, <1>9

\* Line i begins after b and has z symbols and an end of e symbols.
LineAt(all, lines, eol, off, i, b, z, e) ==
    /\ b = off[i - 1] /\ z = Len(lines[i]) /\ e = Len(eol) /\ e \in {1, 2} /\ off[i] = b + z + e
    /\ off[i] <= Len(all) /\ lines[i] \in Content
    /\ \A k \in 1..z : all[k + b] = lines[i][k] /\ lines[i][k] \in Ink
    /\ \A k \in (b + z + 1)..(b + z + e) : all[k] \in Blanks
    /\ all[b + z + e] = "N" /\ (e = 2 => all[b + z + 1] = "R")

LEMMA LaidLine ==
    ASSUME NEW all, NEW lines, NEW eol, NEW off, NEW m, Laid(all, lines, eol, off, m), NEW i \in 1..m
    PROVE  \E b, z, e \in Nat : LineAt(all, lines, eol, off, i, b, z, e)
<1>1. /\ m \in Nat \ {0} /\ lines[i] \in Content /\ eol \in LineEnds
      /\ all \in Seq(Symbols) /\ off \in [0..m -> Nat] /\ off[0] = 0 /\ Len(all) = off[m]
      /\ off[i] = off[i - 1] + Len(lines[i]) + Len(eol)
      /\ Shifted(all, lines[i], 1, Len(lines[i]), off[i - 1])
      /\ Shifted(all, eol, 1, Len(eol), off[i - 1] + Len(lines[i]))
  BY DEF Laid
<1>2. lines[i] \in Seq(Ink) /\ eol \in Seq(Symbols)
  BY <1>1, ContentShape, EolShape
<1>3. PICK b \in Nat, z \in Nat, e \in Nat : b = off[i - 1] /\ z = Len(lines[i]) /\ e = Len(eol)
  <2>1. i - 1 \in 0..m
    BY <1>1
  <2> QED
    BY <1>1, <1>2, <2>1
<1>4. e \in {1, 2} /\ eol[e] = "N" /\ (e = 2 => eol[1] = "R")
  BY <1>1, <1>3, EolShape
<1>5. \A k \in 1..z : all[k + b] = lines[i][k] /\ lines[i][k] \in Ink
  BY <1>1, <1>2, <1>3 DEF Shifted
<1>6. \A k \in 1..e : all[k + (b + z)] = eol[k]
  BY <1>1, <1>3 DEF Shifted
<1>7. all[b + z + e] = "N" /\ (e = 2 => all[b + z + 1] = "R")
  <2>1. e \in 1..e /\ 1 \in 1..e /\ e + (b + z) = b + z + e /\ 1 + (b + z) = b + z + 1
    BY <1>4
  <2> QED
    BY <1>4, <1>6, <2>1
<1>8. \A k \in (b + z + 1)..(b + z + e) : all[k] \in Blanks
  <2>1. \A k \in (b + z + 1)..(b + z + e) : k = b + z + e \/ (e = 2 /\ k = b + z + 1)
    BY <1>4
  <2> QED
    BY <1>7, <2>1 DEF Blanks
<1>9. off[i] = b + z + e
  BY <1>1, <1>3
<1>10. off[i] <= Len(all)
  <2>1. \A x \in 1..m : off[x - 1] <= off[x]
    <3> SUFFICES ASSUME NEW x \in 1..m PROVE off[x - 1] <= off[x]
      OBVIOUS
    <3>1. off[x] = off[x - 1] + Len(lines[x]) + Len(eol) /\ lines[x] \in Content
      BY DEF Laid
    <3>2. lines[x] \in Seq(Ink)
      BY <3>1, ContentShape
    <3>3. Len(lines[x]) \in Nat /\ Len(eol) \in Nat
      BY <1>2, <3>2
    <3>4. off[x - 1] \in Nat
      BY <1>1
    <3> QED
      BY <3>1, <3>3, <3>4
  <2>2. i \in 0..m /\ m \in 0..m /\ i <= m /\ m \in Nat
    BY <1>1
  <2>3. off[i] <= off[m]
    BY <1>1, <2>1, <2>2, OffsetsGrow
  <2> QED
    BY <1>1, <2>3
<1> QED
  BY <1>1, <1>3, <1>4, <1>5, <1>7, <1>8, <1>9, <1>10 DEF LineAt

\* The offsets are the line ends, and nothing else is.
LEMMA LaidEnds ==
    ASSUME NEW all, NEW lines, NEW eol, NEW off, NEW m, Laid(all, lines, eol, off, m)
    PROVE  /\ \A l \in 1..m : off[l] \in 1..Len(all) /\ IsLine(all, off[l - 1] + 1, off[l]) /\ off[l - 1] < off[l]
           /\ \A k \in 1..Len(all) : all[k] = "N" => \E l \in 1..m : k = off[l]
<1>1. m \in Nat /\ off \in [0..m -> Nat] /\ off[0] = 0 /\ Len(all) = off[m] /\ off[m] \in Nat
  BY DEF Laid
<1>2. ASSUME NEW l \in 1..m
      PROVE  /\ off[l] \in 1..Len(all) /\ off[l - 1] \in Nat /\ off[l - 1] < off[l] /\ all[off[l]] = "N"
             /\ \A k \in (off[l - 1] + 1)..(off[l] - 1) : all[k] # "N"
  <2>0. PICK b \in Nat, z \in Nat, e \in Nat : LineAt(all, lines, eol, off, l, b, z, e)
    BY LaidLine
  <2>1.      /\ b = off[l - 1] /\ e \in {1, 2} /\ off[l] = b + z + e
             /\ off[l] <= Len(all)
             /\ \A k \in 1..z : all[k + b] = lines[l][k] /\ lines[l][k] \in Ink
             /\ all[b + z + e] = "N" /\ (e = 2 => all[b + z + 1] = "R")
    BY <2>0 DEF LineAt
  <2>2. ASSUME NEW k \in (b + 1)..(b + z + e - 1) PROVE all[k] # "N"
    <3>1. CASE k <= b + z
      <4>1. PICK x \in 1..z : x + b = k
        <5>1. k - b \in 1..z /\ (k - b) + b = k
          BY <3>1
        <5> QED
          BY <5>1
      <4>2. all[k] \in Ink
        BY <2>1, <4>1
      <4> QED
        BY <4>2 DEF Ink
    <3>2. CASE k > b + z
      <4>1. e \in {1, 2}
        BY <2>1
      <4>2. e = 2 /\ k = b + z + 1
        BY <3>2, <4>1
      <4> QED
        BY <2>1, <4>2
    <3> QED
      BY <3>1, <3>2
  <2>3. off[l] \in 1..Len(all) /\ b < off[l]
    BY <1>1, <2>1
  <2> QED
    BY <2>1, <2>2, <2>3
<1>3. ASSUME NEW l \in 1..m PROVE IsLine(all, off[l - 1] + 1, off[l])
  <2>1. PICK b \in Nat : b = off[l - 1]
    BY <1>2
  <2>2. b + 1 = 1 \/ all[(b + 1) - 1] = "N"
    <3>1. CASE l = 1
      BY <1>1, <2>1, <3>1
    <3>2. CASE l # 1
      <4>1. l - 1 \in 1..m /\ (b + 1) - 1 = b
        BY <1>1, <3>2
      <4> QED
        BY <1>2, <2>1, <4>1
    <3> QED
      BY <3>1, <3>2
  <2> QED
    BY <1>2, <2>1, <2>2 DEF IsLine
<1>4. ASSUME NEW k \in 1..Len(all), all[k] = "N" PROVE \E l \in 1..m : k = off[l]
  <2>1. PICK l \in 1..m : off[l - 1] < k /\ k <= off[l]
    BY <1>1, Located
  <2>2. off[l] \in Nat /\ off[l - 1] \in Nat /\ k \in Nat
    BY <1>1, <1>2
  <2>3. k \notin (off[l - 1] + 1)..(off[l] - 1)
    BY <1>2, <1>4
  <2>4. k = off[l]
    BY <2>1, <2>2, <2>3
  <2> QED
    BY <2>4
<1> QED
  BY <1>2, <1>3, <1>4

LEMMA LaidLines ==
    ASSUME NEW all, NEW lines, NEW eol, NEW off, NEW m, Laid(all, lines, eol, off, m),
           NEW j \in 1..Len(all), NEW i \in 1..j, IsLine(all, i, j)
    PROVE  \E l \in 1..m : i = off[l - 1] + 1 /\ j = off[l]
<1>1. all[j] = "N" /\ j \in Nat
  BY DEF IsLine
<1>2. PICK l \in 1..m : j = off[l]
  BY <1>1, LaidEnds
<1>3. IsLine(all, off[l - 1] + 1, j) /\ off[l - 1] < j
  BY <1>2, LaidEnds
<1>4. off[l - 1] \in Nat
  BY DEF Laid
<1>5. off[l - 1] + 1 \in 1..j
  BY <1>1, <1>3, <1>4
<1>6. i = off[l - 1] + 1
  BY <1>1, <1>3, <1>5, LineUnique
<1> QED
  BY <1>2, <1>6

\* Blanks at the end do not count.
LEMMA DoneBeforeEnd ==
    ASSUME NEW s, NEW i \in Nat, NEW j \in Nat, NEW e \in {1, 2}, i <= j + 1,
           \A k \in (j + 1)..(j + e) : s[k] \in Blanks
    PROVE  DoneAt(s, i, j + e) <=> DoneAt(s, i, j)
<1>1. DoneAt(s, i, j + 1) <=> DoneAt(s, i, j)
  <2>1. s[j + 1] \in Blanks /\ (j + 1) - 1 = j /\ j + 1 \in Nat
    OBVIOUS
  <2>2. DoneAt(s, i, j + 1) <=> DoneAt(s, i, (j + 1) - 1)
    BY <2>1, DoneBeforeBlank
  <2> QED
    BY <2>1, <2>2
<1>2. CASE e = 2
  <2>1. s[j + 2] \in Blanks /\ (j + 2) - 1 = j + 1 /\ j + 2 \in Nat /\ i <= j + 2
    BY <1>2
  <2>2. DoneAt(s, i, j + 2) <=> DoneAt(s, i, (j + 2) - 1)
    BY <2>1, DoneBeforeBlank
  <2> QED
    BY <1>1, <1>2, <2>1, <2>2
<1>3. CASE e = 1
  BY <1>1, <1>3
<1> QED
  BY <1>2, <1>3

LEMMA LaidDone ==
    ASSUME NEW all, NEW lines, NEW eol, NEW off, NEW m, Laid(all, lines, eol, off, m), NEW l \in 1..m
    PROVE  DoneAt(all, off[l - 1] + 1, off[l]) <=> lines[l] \in {Sentinel, Padded}
<1>0. PICK b \in Nat, z \in Nat, e \in Nat : LineAt(all, lines, eol, off, l, b, z, e)
  BY LaidLine
<1>1.        /\ b = off[l - 1] /\ z = Len(lines[l]) /\ e \in {1, 2} /\ off[l] = b + z + e /\ lines[l] \in Content
             /\ \A k \in 1..z : all[k + b] = lines[l][k]
             /\ \A k \in (b + z + 1)..(b + z + e) : all[k] \in Blanks
  BY <1>0 DEF LineAt
<1>2. PICK j \in Nat : j = b + z
  OBVIOUS
<1>3. DoneAt(all, b + 1, j + e) <=> DoneAt(all, b + 1, j)
  <2>1. \A k \in (j + 1)..(j + e) : all[k] \in Blanks
    BY <1>1, <1>2
  <2>2. b + 1 \in Nat /\ b + 1 <= j + 1 /\ e \in {1, 2}
    BY <1>1, <1>2, SMTT(30)
  <2> QED
    BY <2>1, <2>2, DoneBeforeEnd
<1>4. DoneAt(lines[l], 1, z) <=> DoneAt(all, b + 1, j)
  <2>1. Shifted(all, lines[l], 1, z, b)
    BY <1>1 DEF Shifted
  <2>2. 1 \in Int /\ z \in Int /\ b \in Int /\ b + 1 \in Int /\ j \in Int /\ b + 1 = 1 + b /\ j = z + b
    BY <1>2
  <2> QED
    BY <2>1, <2>2, DoneShift
<1>5. DoneAt(lines[l], 1, z) <=> lines[l] \in {Sentinel, Padded}
  BY <1>1, ContentShape
<1>6. off[l] = j + e
  BY <1>1, <1>2
<1> QED
  BY <1>1, <1>3, <1>4, <1>5, <1>6

\* What is left of a long line is not the sentinel.
LEMMA LaidRest ==
    ASSUME NEW all, NEW lines, NEW eol, NEW off, NEW m, Laid(all, lines, eol, off, m), NEW l \in 1..m,
           NEW c \in Nat, c < off[l], c - (off[l - 1] + 1) >= ScanCap
    PROVE  ~DoneAt(all, off[l - 1] + 1, off[l]) /\ ~DoneAt(all, c + 1, off[l])
<1>0. PICK b \in Nat, z \in Nat, e \in Nat : LineAt(all, lines, eol, off, l, b, z, e)
  BY LaidLine
<1>1.        /\ b = off[l - 1] /\ z = Len(lines[l]) /\ e \in {1, 2} /\ off[l] = b + z + e /\ lines[l] \in Content
             /\ \A k \in 1..z : all[k + b] = lines[l][k]
             /\ \A k \in (b + z + 1)..(b + z + e) : all[k] \in Blanks
  BY <1>0 DEF LineAt
<1>2. PICK j \in Nat : j = b + z /\ j + e = off[l]
  BY <1>1, SMTT(30)
<1>3. c >= b + 6 /\ z >= 5
  <2>1. ScanCap \in Nat /\ ScanCap >= 5
    BY ScanCapAssumption
  <2>2. c - (b + 1) >= 5
    BY <1>1, <2>1
  <2>3. c < b + z + e /\ (e = 1 \/ e = 2)
    BY <1>1
  <2> QED
    BY <2>2, <2>3
<1>4. lines[l] \in TextLines
  BY <1>1, <1>3, ContentShape
<1>5. lines[l] \notin {Sentinel, Padded}
  BY <1>1, <1>4, ContentShape, TextNotDone
<1>6. ~DoneAt(all, off[l - 1] + 1, off[l])
  BY <1>5, LaidDone
<1>7. CASE c >= j
  <2>1. \A k \in (c + 1)..off[l] : all[k] \in Blanks
    BY <1>1, <1>2, <1>7
  <2>2. "D" \notin Blanks
    BY DEF Blanks
  <2> QED
    BY <1>6, <2>1, <2>2 DEF DoneAt
<1>8. CASE c < j
  <2>1. DoneAt(all, c + 1, j + e) <=> DoneAt(all, c + 1, j)
    <3>1. \A k \in (j + 1)..(j + e) : all[k] \in Blanks
      BY <1>1, <1>2
    <3>2. c + 1 \in Nat /\ c + 1 <= j + 1 /\ e \in {1, 2}
      BY <1>1, <1>8
    <3> QED
      BY <3>1, <3>2, DoneBeforeEnd
  <2>2. PICK k \in 3..z : c + 1 = k + b
    <3>1. (c + 1) - b \in 3..z /\ c + 1 = ((c + 1) - b) + b
      BY <1>2, <1>3, <1>8
    <3> QED
      BY <3>1
  <2>3. DoneAt(lines[l], k, z) <=> DoneAt(all, c + 1, j)
    <3>1. Shifted(all, lines[l], k, z, b)
      BY <1>1, SMTT(30) DEF Shifted
    <3>2. k \in Int /\ z \in Int /\ b \in Int /\ c + 1 \in Int /\ j \in Int /\ j = z + b
      BY <1>2
    <3> QED
      BY <2>2, <3>1, <3>2, DoneShift
  <2>4. ~DoneAt(lines[l], k, z)
    BY <1>1, <1>4, TextNotDone
  <2> QED
    BY <1>2, <1>6, <2>1, <2>3, <2>4
<1> QED
  BY <1>2, <1>7, <1>8

\* s is the first z bytes of all.
Prefix(s, all, z) ==
    z \in 0..Len(all) /\ s \in Seq(Symbols) /\ Len(s) = z /\ \A k \in 1..z : s[k] = all[k]

LEMMA PrefixLine ==
    ASSUME NEW s, NEW all \in Seq(Symbols), NEW z, Prefix(s, all, z), NEW j \in 1..z, NEW i \in 1..j
    PROVE  (IsLine(s, i, j) <=> IsLine(all, i, j)) /\ (DoneAt(s, i, j) <=> DoneAt(all, i, j))
<1>1. z \in Nat /\ \A k \in 1..z : s[k] = all[k]
  BY DEF Prefix
<1>2. i \in Int /\ j \in Int /\ i = i + 0 /\ j = j + 0
  BY <1>1
<1>3. Shifted(all, s, i, j, 0)
  <2>1. \A k \in i..j : k \in 1..z /\ k + 0 = k
    BY <1>1
  <2> QED
    BY <1>1, <2>1 DEF Shifted
<1>4. DoneAt(s, i, j) <=> DoneAt(all, i, j)
  BY <1>2, <1>3, DoneShift
<1>5. IsLine(s, i, j) <=> IsLine(all, i, j)
  <2>1. \A k \in i..(j - 1) : s[k] = all[k]
    BY <1>1
  <2>2. s[j] = all[j] /\ (i # 1 => s[i - 1] = all[i - 1])
    BY <1>1
  <2> QED
    BY <2>1, <2>2 DEF IsLine
<1> QED
  BY <1>4, <1>5

LEMMA PrefixWatchable ==
    ASSUME NEW all, NEW lines, NEW eol, NEW off, NEW m, Laid(all, lines, eol, off, m),
           NEW s, NEW z, Prefix(s, all, z)
    PROVE  Watchable(s)
<1>1. all \in Seq(Symbols) /\ s \in Seq(Symbols) /\ Len(s) = z /\ z \in 0..Len(all)
  BY DEF Laid, Prefix
<1>2. z \in Nat /\ z <= Len(all) /\ Len(all) \in Nat
  BY <1>1
<1>3. ASSUME NEW i \in 1..z, NEW j \in 1..z, NEW c \in 1..z, IsLine(s, i, j), i <= c, c < j, c - i >= ScanCap
      PROVE  ~DoneAt(s, i, j) /\ ~DoneAt(s, c + 1, j)
  <2>1. i \in 1..j /\ c + 1 \in 1..j /\ j \in 1..Len(all) /\ c \in Nat
    BY <1>2, <1>3
  <2>2. IsLine(all, i, j)
    BY <1>1, <1>3, <2>1, PrefixLine
  <2>3. PICK l \in 1..m : i = off[l - 1] + 1 /\ j = off[l]
    BY <2>1, <2>2, LaidLines
  <2>4. c < off[l] /\ c - (off[l - 1] + 1) >= ScanCap
    BY <1>3, <2>3
  <2>5. ~DoneAt(all, off[l - 1] + 1, off[l]) /\ ~DoneAt(all, c + 1, off[l])
    BY <2>1, <2>4, LaidRest
  <2>6. ~DoneAt(all, i, j) /\ ~DoneAt(all, c + 1, j)
    BY <2>3, <2>5
  <2> QED
    BY <1>1, <2>1, <2>6, PrefixLine
<1> QED
  BY <1>1, <1>3 DEF Watchable

-----------------------------------------------------------------------------
(* The events of a stream.                                                 *)

\* lines is the lines of the events fs; those of event i end at first[i].
Composed(fs, n, lines, m, first) ==
    /\ n \in Nat \ {0} /\ fs \in [1..n -> Forms]
    /\ m \in Nat \ {0} /\ lines \in [1..m -> Content]
    /\ first \in [0..n -> Nat] /\ first[0] = 0 /\ first[n] = m
    /\ \A i \in 1..n :
        /\ first[i] = first[i - 1] + Len(fs[i].lines) + 1 /\ lines[first[i]] = <<>>
        /\ \A k \in 1..Len(fs[i].lines) : lines[first[i - 1] + k] = fs[i].lines[k]

\* An event is one of six kinds.
LEMMA FormCases ==
    ASSUME NEW f \in Forms
    PROVE  \/ f.kind = "done" /\ f.lines = <<Sentinel>>
           \/ f.kind = "bare" /\ f.lines = <<<<"D", "E">>>>
           \/ f.kind = "padded" /\ f.lines = <<Padded>>
           \/ f.kind = "ping" /\ f.lines = <<<<"C">>>>
           \/ \E p \in Payloads : f.kind = "text" /\ f.lines = <<<<"D", "S">> \o p>> /\ f.data = p
           \/ \E p, q \in Payloads :
                /\ f.kind = "text" /\ f.lines = <<<<"D">> \o p, <<"D", "S">> \o q>>
                /\ f.data = p \o <<"N">> \o q
<1>1. \A k, l, d : Form(k, l, d).kind = k /\ Form(k, l, d).lines = l /\ Form(k, l, d).data = d
  BY DEF Form
<1>2. CASE f \in {Form("done", <<Sentinel>>, <<>>), Form("bare", <<<<"D", "E">>>>, <<>>),
                  Form("padded", <<<<"S", "D", "S", "E">>>>, <<>>), Form("ping", <<<<"C">>>>, <<>>)}
  BY <1>1, <1>2 DEF Padded
<1>3. ASSUME NEW p \in Payloads, f = TextForm(p)
      PROVE  f.kind = "text" /\ f.lines = <<<<"D", "S">> \o p>> /\ f.data = p
  BY <1>3 DEF TextForm, Form
<1>4. ASSUME NEW p \in Payloads, NEW q \in Payloads, f = TextForm2(p, q)
      PROVE  f.kind = "text" /\ f.lines = <<<<"D">> \o p, <<"D", "S">> \o q>> /\ f.data = p \o <<"N">> \o q
  BY <1>4 DEF TextForm2, Form
<1>5. CASE f \in {TextForm(p) : p \in Payloads}
  <2>1. PICK p \in Payloads : f = TextForm(p)
    BY <1>5
  <2> QED
    BY <1>3, <2>1
<1>6. CASE f \in {TextForm2(pq[1], pq[2]) : pq \in Payloads \X Payloads}
  <2>1. PICK p \in Payloads, q \in Payloads : f = TextForm2(p, q)
    BY <1>6
  <2> QED
    BY <1>4, <2>1
<1>7. \/ f \in {Form("done", <<Sentinel>>, <<>>), Form("bare", <<<<"D", "E">>>>, <<>>),
                 Form("padded", <<<<"S", "D", "S", "E">>>>, <<>>), Form("ping", <<<<"C">>>>, <<>>)}
      \/ f \in {TextForm(p) : p \in Payloads}
      \/ f \in {TextForm2(pq[1], pq[2]) : pq \in Payloads \X Payloads}
  BY Zenon DEF Forms
<1> QED
  BY <1>2, <1>5, <1>6, <1>7

LEMMA FormLines ==
    ASSUME NEW f \in Forms
    PROVE  f.lines \in Seq(Content) /\ Len(f.lines) \in {1, 2}
<1>1. <<>> \in Content /\ Sentinel \in Content /\ <<"D", "E">> \in Content /\ Padded \in Content /\ <<"C">> \in Content
  BY DEF Content
<1>2. \A p \in Payloads : <<"D", "S">> \o p \in Content /\ <<"D">> \o p \in Content
  BY DEF Content, TextLines
<1>3. ASSUME NEW x \in Content, f.lines = <<x>> PROVE f.lines \in Seq(Content) /\ Len(f.lines) \in {1, 2}
  BY <1>3
<1>4. ASSUME NEW x \in Content, NEW y \in Content, f.lines = <<x, y>>
      PROVE  f.lines \in Seq(Content) /\ Len(f.lines) \in {1, 2}
  BY <1>4
<1>5. (\E x \in Content : f.lines = <<x>>) \/ \E x, y \in Content : f.lines = <<x, y>>
  BY <1>1, <1>2, FormCases
<1> QED
  BY <1>3, <1>4, <1>5

LEMMA LinesComposed ==
    ASSUME NEW n \in Nat \ {0}, NEW fs \in [1..n -> Forms]
    PROVE  \E m, first : Composed(fs, n, Lines(fs), m, first)
<1>1. PICK ss : ss = [i \in 1..n |-> Append(fs[i].lines, <<>>)]
  OBVIOUS
<1>2. Lines(fs) = FlattenSeq(ss)
  BY <1>1 DEF Lines
<1>3. ASSUME NEW i \in 1..n
      PROVE  /\ ss[i] = Append(fs[i].lines, <<>>) /\ fs[i].lines \in Seq(Content) /\ ss[i] \in Seq(Content)
             /\ Len(fs[i].lines) \in Nat /\ Len(ss[i]) = Len(fs[i].lines) + 1
             /\ ss[i][Len(fs[i].lines) + 1] = <<>>
             /\ \A k \in 1..Len(fs[i].lines) : ss[i][k] = fs[i].lines[k]
  <2>1. fs[i].lines \in Seq(Content) /\ <<>> \in Content
    BY FormLines DEF Content
  <2>2. ss[i] = Append(fs[i].lines, <<>>)
    BY <1>1
  <2>3. Len(fs[i].lines) \in Nat
    BY <2>1
  <2> QED
    BY <2>1, <2>2, <2>3, AppendProperties
<1>4. ss \in [1..n -> Seq(Content)]
  BY <1>1, <1>3
<1>5. PICK lines : lines = FlattenSeq(ss)
  OBVIOUS
<1>6. PICK first : lines \in Seq(Content) /\ Ranges(lines, ss, first, n)
  BY <1>4, <1>5, FlattenRanges
<1>7. /\ first \in [0..n -> Nat] /\ first[0] = 0 /\ Len(lines) = first[n]
      /\ \A i \in 1..n : first[i] = first[i - 1] + Len(ss[i])
      /\ \A i \in 1..n : \A k \in 1..Len(ss[i]) : lines[first[i - 1] + k] = ss[i][k]
  BY <1>6 DEF Ranges
<1>8. ASSUME NEW i \in 1..n
      PROVE  /\ first[i] = first[i - 1] + Len(fs[i].lines) + 1 /\ lines[first[i]] = <<>> /\ first[i - 1] < first[i]
             /\ \A k \in 1..Len(fs[i].lines) : lines[first[i - 1] + k] = fs[i].lines[k]
  <2>1. PICK b \in Nat, z \in Nat : b = first[i - 1] /\ z = Len(fs[i].lines)
    <3>1. i - 1 \in 0..n
      OBVIOUS
    <3> QED
      BY <1>3, <1>7, <3>1
  <2>2. Len(ss[i]) = z + 1 /\ ss[i][z + 1] = <<>> /\ \A k \in 1..z : ss[i][k] = fs[i].lines[k]
    BY <1>3, <2>1
  <2>3. first[i] = b + (z + 1) /\ \A k \in 1..(z + 1) : lines[b + k] = ss[i][k]
    BY <1>7, <2>1, <2>2
  <2>4. first[i] = b + z + 1 /\ b < first[i] /\ z + 1 \in 1..(z + 1) /\ \A k \in 1..z : k \in 1..(z + 1)
    BY <2>3
  <2> QED
    BY <2>1, <2>2, <2>3, <2>4
<1>9. PICK m : m = first[n]
  OBVIOUS
<1>10. m \in Nat \ {0}
  <2>1. n \in 1..n /\ n \in 0..n /\ n - 1 \in 0..n
    OBVIOUS
  <2>2. first[n] \in Nat /\ first[n - 1] \in Nat /\ first[n - 1] < first[n]
    BY <1>7, <1>8, <2>1
  <2> QED
    BY <1>9, <2>2
<1>11. lines \in [1..m -> Content]
  BY <1>6, <1>7, <1>9
<1>12. Composed(fs, n, lines, m, first)
  BY <1>7, <1>8, <1>9, <1>10, <1>11 DEF Composed
<1> QED
  BY <1>2, <1>5, <1>12

\* Where a stream of m lines stops.
StopAt(off, lines, m, st) ==
    CASE st = "blank" -> off[m]
      [] st = "line" -> off[m - 1]
      [] st = "cut" -> off[m - 2] + Len(lines[m - 1])

IsStream(fs, st, s, n, lines, m, first, eol, all, off) ==
    /\ Composed(fs, n, lines, m, first) /\ Laid(all, lines, eol, off, m)
    /\ st \in Stops /\ m >= 2 /\ Prefix(s, all, StopAt(off, lines, m, st))

LEMMA StreamLaid ==
    ASSUME NEW n \in Nat \ {0}, NEW fs \in [1..n -> Forms], NEW eol \in LineEnds, NEW st \in Stops
    PROVE  \E lines, m, first, all, off : IsStream(fs, st, StreamBytes(fs, eol, st), n, lines, m, first, eol, all, off)
<1>1. PICK lines : lines = Lines(fs)
  OBVIOUS
<1>2. PICK m, first : Composed(fs, n, lines, m, first)
  BY <1>1, LinesComposed
<1>3. m \in Nat \ {0} /\ lines \in [1..m -> Content] /\ DOMAIN lines = 1..m
  BY <1>2 DEF Composed
<1>4. PICK all : all = FlattenSeq([i \in DOMAIN lines |-> lines[i] \o eol])
  OBVIOUS
<1>5. PICK off : Laid(all, lines, eol, off, m)
  BY <1>3, <1>4, LaidOut
<1>6. PICK z \in Nat : m >= 2 /\ lines[m] = <<>> /\ off[m] = off[m - 1] + Len(eol)
                       /\ z = Len(lines[m - 1]) /\ off[m - 1] = off[m - 2] + z + Len(eol)
  <2>1. /\ first[n] = m /\ first[n - 1] \in Nat /\ m = first[n - 1] + Len(fs[n].lines) + 1 /\ lines[m] = <<>>
        /\ fs[n] \in Forms
    <3>1. n \in 1..n /\ n - 1 \in 0..n
      OBVIOUS
    <3> QED
      BY <1>2, <3>1 DEF Composed
  <2>2. Len(fs[n].lines) \in {1, 2}
    BY <2>1, FormLines
  <2>3. m \in Nat /\ m >= 2
    <3>1. PICK x \in Nat, y \in {1, 2} : x = first[n - 1] /\ y = Len(fs[n].lines)
      BY <2>1, <2>2
    <3>2. m = x + y + 1
      BY <2>1, <3>1
    <3> QED
      BY <3>2
  <2>4. m \in 1..m /\ m - 1 \in 1..m /\ (m - 1) - 1 = m - 2
    BY <2>3
  <2>5. /\ off[m] = off[m - 1] + Len(lines[m]) + Len(eol)
        /\ off[m - 1] = off[(m - 1) - 1] + Len(lines[m - 1]) + Len(eol)
        /\ lines[m - 1] \in Content /\ off \in [0..m -> Nat]
    BY <1>5, <2>4 DEF Laid
  <2>6. lines[m - 1] \in Seq(Ink) /\ Len(<<>>) = 0
    BY <2>5, ContentShape
  <2>7. Len(lines[m - 1]) \in Nat
    BY <2>6
  <2>8. off[m - 1] \in Nat /\ off[m - 1] + 0 = off[m - 1]
    BY <2>4, <2>5
  <2> QED
    BY <2>1, <2>3, <2>4, <2>5, <2>6, <2>7, <2>8
<1>7. /\ off[m] \in Nat /\ off[m - 1] \in Nat /\ off[m - 2] \in Nat
      /\ all \in Seq(Symbols) /\ Len(all) = off[m]
  <2>1. m \in 0..m /\ m - 1 \in 0..m /\ m - 2 \in 0..m
    BY <1>3, <1>6
  <2> QED
    BY <1>5, <2>1 DEF Laid
<1>8. PICK missing : missing = CASE st = "blank" -> 0 [] st = "line" -> 1 [] st = "cut" -> 2
  OBVIOUS
<1>9. StreamBytes(fs, eol, st) = SubSeq(all, 1, Len(all) - missing * Len(eol))
  BY <1>1, <1>4, <1>8 DEF StreamBytes
<1>10. PICK x \in Nat : x = StopAt(off, lines, m, st) /\ x = Len(all) - missing * Len(eol) /\ x <= Len(all)
  <2>1. PICK e \in {1, 2} : e = Len(eol)
    BY EolShape
  <2>2. CASE st = "blank"
    <3>1. missing = 0 /\ StopAt(off, lines, m, st) = off[m]
      BY <1>8, <2>2 DEF StopAt
    <3> QED
      BY <1>7, <2>1, <3>1
  <2>3. CASE st = "line"
    <3>1. missing = 1 /\ StopAt(off, lines, m, st) = off[m - 1]
      BY <1>8, <2>3 DEF StopAt
    <3>2. missing * Len(eol) = e /\ off[m] = off[m - 1] + e
      BY <1>6, <2>1, <3>1
    <3> QED
      BY <1>7, <2>1, <3>1, <3>2
  <2>4. CASE st = "cut"
    <3>1. missing = 2 /\ StopAt(off, lines, m, st) = off[m - 2] + z
      BY <1>6, <1>8, <2>4 DEF StopAt
    <3>2. missing * Len(eol) = e + e /\ off[m] = off[m - 1] + e /\ off[m - 1] = off[m - 2] + z + e
      BY <1>6, <2>1, <3>1
    <3>3. off[m] - (e + e) = off[m - 2] + z
      BY <1>7, <2>1, <3>2, SMTT(30)
    <3>4. off[m - 2] + z <= off[m]
      BY <1>7, <2>1, <3>2
    <3> QED
      BY <1>7, <3>1, <3>2, <3>3, <3>4, SMTT(30)
  <2> QED
    BY <2>2, <2>3, <2>4 DEF Stops
<1>11. Prefix(SubSeq(all, 1, x), all, x)
  <2>1. 0 \in Nat /\ 0 <= x /\ 0 + 1 = 1 /\ x - 0 = x /\ \A k \in 1..x : 0 + k = k
    OBVIOUS
  <2>2. /\ SubSeq(all, 0 + 1, x) \in Seq(Symbols) /\ Len(SubSeq(all, 0 + 1, x)) = x - 0
        /\ \A k \in 1..(x - 0) : SubSeq(all, 0 + 1, x)[k] = all[0 + k]
    BY <1>7, <1>10, <2>1, PartAfter
  <2>3. x \in 0..Len(all)
    BY <1>7, <1>10
  <2> QED
    BY <2>1, <2>2, <2>3 DEF Prefix
<1>12. IsStream(fs, st, StreamBytes(fs, eol, st), n, lines, m, first, eol, all, off)
  BY <1>2, <1>5, <1>6, <1>9, <1>10, <1>11 DEF IsStream
<1> QED
  BY <1>12

\* What the bytes are is decided when upstream answers.
Streamed ==
    \E n, lines, m, first, eol, all, off : IsStream(forms, stop, stream, n, lines, m, first, eol, all, off)

LEMMA StreamedInit ==
    ASSUME ScannerInit
    PROVE  Streamed /\ Watchable(stream)
<1>1. PICK n \in 1..MaxUnits : forms \in [1..n -> {f \in Forms : f.kind \in Kinds}]
  BY DEF ScannerInit
<1>2. n \in Nat \ {0} /\ forms \in [1..n -> Forms]
  BY <1>1, UnitsAssumption
<1>3. PICK eol \in LineEnds : stop \in Stops /\ stream = StreamBytes(forms, eol, stop)
  BY DEF ScannerInit
<1>4. PICK lines, m, first, all, off : IsStream(forms, stop, stream, n, lines, m, first, eol, all, off)
  BY <1>2, <1>3, StreamLaid
<1>5. Watchable(stream)
  BY <1>4, PrefixWatchable DEF IsStream
<1> QED
  BY <1>4, <1>5 DEF Streamed

-----------------------------------------------------------------------------
(* sse.Scan byte by byte.                                                  *)

Accs == [line : Seq(Symbols), open : BOOLEAN, data : Seq(Symbols),
         events : Seq(Seq(Symbols)), done : BOOLEAN]

LEMMA TrimCRShape ==
    ASSUME NEW l \in Seq(Symbols)
    PROVE  /\ TrimCR(l) \in Seq(Symbols)
           /\ l \in Seq(Ink) => TrimCR(l) = l /\ TrimCR(Append(l, "R")) = l
<1>1. PICK n \in Nat : n = Len(l)
  OBVIOUS
<1>2. TrimCR(l) \in Seq(Symbols)
  BY DEF TrimCR, Front, Last
<1>3. ASSUME l \in Seq(Ink) PROVE TrimCR(l) = l
  <2>1. l # <<>> => l[Len(l)] \in Ink
    BY <1>3
  <2> QED
    BY <2>1 DEF TrimCR, Last, Ink
<1>4. ASSUME l \in Seq(Ink) PROVE TrimCR(Append(l, "R")) = l
  <2>1. PICK t : t = Append(l, "R")
    OBVIOUS
  <2>2. "R" \in Symbols
    BY DEF Symbols
  <2>3. t \in Seq(Symbols) /\ t # <<>> /\ Len(t) = n + 1 /\ t[n + 1] = "R" /\ \A i \in 1..n : t[i] = l[i]
    BY <1>1, <2>1, <2>2, AppendProperties
  <2>4. TrimCR(t) = SubSeq(t, 1, (n + 1) - 1)
    BY <2>3 DEF TrimCR, Front, Last
  <2>5. SubSeq(t, 1, n) = l
    <3>1. 0 \in Nat /\ 0 <= n /\ 0 + 1 = 1 /\ n - 0 = n /\ n <= Len(t) /\ \A k \in 1..n : 0 + k = k
      BY <2>3
    <3>2. /\ SubSeq(t, 0 + 1, n) \in Seq(Symbols) /\ Len(SubSeq(t, 0 + 1, n)) = n - 0
          /\ \A k \in 1..(n - 0) : SubSeq(t, 0 + 1, n)[k] = t[0 + k]
      BY <2>3, <3>1, PartAfter
    <3>3. SubSeq(t, 1, n) \in Seq(Symbols) /\ Len(SubSeq(t, 1, n)) = n /\ \A k \in 1..n : SubSeq(t, 1, n)[k] = l[k]
      BY <2>3, <3>1, <3>2
    <3> QED
      BY <1>1, <3>3, SeqEqual
  <2>6. (n + 1) - 1 = n
    OBVIOUS
  <2> QED
    BY <2>1, <2>4, <2>5, <2>6
<1> QED
  BY <1>2, <1>3, <1>4

LEMMA TakeLineType ==
    ASSUME NEW acc \in Accs, NEW l \in Seq(Symbols)
    PROVE  TakeLine(acc, l) \in Accs /\ TakeLine(acc, l).line = acc.line
<1>1. Dispatch(acc) \in Accs /\ Dispatch(acc).line = acc.line
  <2>1. <<>> \in Seq(Symbols) /\ Append(acc.events, acc.data) \in Seq(Seq(Symbols))
    BY DEF Accs
  <2> QED
    BY <2>1 DEF Dispatch, Accs
<1>2. ASSUME NEW v \in Seq(Symbols) PROVE AddData(acc, v) \in Accs /\ AddData(acc, v).line = acc.line
  <2>1. <<"N">> \in Seq(Symbols)
    BY DEF Symbols
  <2>2. acc.data \o <<"N">> \o v \in Seq(Symbols)
    BY <2>1 DEF Accs
  <2> QED
    BY <2>2 DEF AddData, Accs
<1>3. ASSUME NEW x \in {2, 3}, l # <<>> PROVE SubSeq(l, x, Len(l)) \in Seq(Symbols)
  <2>1. PICK n \in Nat : n = Len(l) /\ \A k \in 1..n : l[k] \in Symbols
    OBVIOUS
  <2>2. \A k \in x..n : l[k] \in Symbols
    BY <2>1
  <2>3. x \in Int /\ n \in Int
    BY <2>1
  <2> QED
    BY <2>1, <2>2, <2>3, SubSeqProperties
<1>4. ASSUME l # <<>>
      PROVE  SubSeq(l, IF Len(l) > 1 /\ l[2] = "S" THEN 3 ELSE 2, Len(l)) \in Seq(Symbols)
  BY <1>3, <1>4
<1> QED
  BY <1>1, <1>2, <1>4 DEF TakeLine

LEMMA ScanByteType ==
    ASSUME NEW acc \in Accs, NEW b \in Symbols
    PROVE  ScanByte(acc, b) \in Accs
<1>1. TrimCR(acc.line) \in Seq(Symbols)
  BY TrimCRShape DEF Accs
<1>2. ScanLine(acc, acc.line) \in Accs
  BY <1>1, TakeLineType DEF ScanLine
<1>3. [ScanLine(acc, acc.line) EXCEPT !.line = <<>>] \in Accs
  <2>1. <<>> \in Seq(Symbols)
    OBVIOUS
  <2> QED
    BY <1>2, <2>1 DEF Accs
<1>4. [acc EXCEPT !.line = Append(@, b)] \in Accs
  <2>1. Append(acc.line, b) \in Seq(Symbols)
    BY DEF Accs
  <2> QED
    BY <2>1 DEF Accs
<1> QED
  BY <1>3, <1>4 DEF ScanByte

LEMMA ScansUnfold ==
    ASSUME NEW s \in Seq(Symbols)
    PROVE  /\ Scans(s)[0] = NoneScanned
           /\ \A k \in 1..Len(s) : Scans(s)[k] = ScanByte(Scans(s)[k - 1], s[k])
           /\ \A k \in 0..Len(s) : Scans(s)[k] \in Accs
<1> DEFINE Is(f) == f = [k \in 0..Len(s) |-> IF k = 0 THEN NoneScanned ELSE ScanByte(f[k - 1], s[k])]
<1>1. PICK n \in Nat : n = Len(s)
  OBVIOUS
<1>2. PICK step : step = [x \in Nat \X Accs |-> IF x[1] \in 1..n THEN ScanByte(x[2], s[x[1]]) ELSE x[2]]
  OBVIOUS
<1>3. step \in [Nat \X Accs -> Accs]
  <2>1. ASSUME NEW x \in Nat \X Accs PROVE step[x] \in Accs
    <3>1. x[1] \in 1..n => s[x[1]] \in Symbols
      BY <1>1
    <3> QED
      BY <1>2, <3>1, ScanByteType
  <2> QED
    BY <1>2, <2>1
<1>4. PICK f \in [0..n -> Accs] : Iterates(f, NoneScanned, step, n)
  <2>1. NoneScanned \in Accs
    BY DEF NoneScanned, Accs
  <2> QED
    BY <1>3, <2>1, IterationExists
<1>5. \A k \in 0..n : f[k] = IF k = 0 THEN NoneScanned ELSE step[<<k, f[k - 1]>>]
  BY <1>4 DEF Iterates
<1>6. ASSUME NEW k \in 0..n PROVE f[k] = IF k = 0 THEN NoneScanned ELSE ScanByte(f[k - 1], s[k])
  <2>1. CASE k = 0
    BY <1>5, <2>1
  <2>2. CASE k # 0
    <3>1. k \in 1..n /\ k - 1 \in 0..n /\ f[k - 1] \in Accs /\ k \in Nat
      BY <2>2
    <3>2. step[<<k, f[k - 1]>>] = ScanByte(f[k - 1], s[k])
      BY <1>2, <3>1
    <3> QED
      BY <1>5, <2>2, <3>2
  <2> QED
    BY <2>1, <2>2
<1>7. Is(f)
  BY <1>1, <1>6
<1>8. PICK g : g = CHOOSE h : Is(h)
  OBVIOUS
<1>9. Is(g)
  BY <1>7, <1>8
<1>10. Scans(s) = g
  BY <1>8 DEF Scans
<1>11. \A k \in 0..n : g[k] = IF k = 0 THEN NoneScanned ELSE ScanByte(g[k - 1], s[k])
  BY <1>1, <1>9
<1> HIDE DEF Is
<1>12. g[0] = NoneScanned /\ \A k \in 1..n : g[k] = ScanByte(g[k - 1], s[k])
  BY <1>11
<1>13. \A k \in 0..n : g[k] \in Accs
  <2> DEFINE T == {k \in 0..n : g[k] \notin Accs}
  <2>1. T \subseteq Nat
    OBVIOUS
  <2>2. ASSUME NEW k \in T, \A j \in T : k <= j PROVE FALSE
    <3>1. k \in 0..n /\ g[k] \notin Accs
      OBVIOUS
    <3>2. k # 0
      <4>1. NoneScanned \in Accs
        BY DEF NoneScanned, Accs
      <4> QED
        BY <1>12, <3>1, <4>1
    <3>3. k \in 1..n /\ k - 1 \in 0..n /\ ~(k <= k - 1)
      BY <3>1, <3>2
    <3>4. g[k - 1] \in Accs
      BY <2>2, <3>3
    <3>5. s[k] \in Symbols
      BY <1>1, <3>3
    <3> QED
      BY <1>12, <3>1, <3>3, <3>4, <3>5, ScanByteType
  <2>3. T = {}
    BY <2>1, <2>2, LeastMember
  <2> QED
    BY <2>3
<1> QED
  BY <1>1, <1>10, <1>12, <1>13

LEMMA ScansPrefix ==
    ASSUME NEW all \in Seq(Symbols), NEW s, NEW z, Prefix(s, all, z), NEW k \in 0..z
    PROVE  Scans(s)[k] = Scans(all)[k]
<1>1. z \in Nat /\ z <= Len(all) /\ s \in Seq(Symbols) /\ Len(s) = z /\ \A i \in 1..z : s[i] = all[i]
  BY DEF Prefix
<1> DEFINE T == {i \in 0..z : Scans(s)[i] # Scans(all)[i]}
<1>2. T \subseteq Nat
  BY <1>1
<1>3. ASSUME NEW i \in T, \A j \in T : i <= j PROVE FALSE
  <2>1. i \in 0..z /\ Scans(s)[i] # Scans(all)[i]
    OBVIOUS
  <2>2. i # 0
    BY <1>1, <2>1, ScansUnfold
  <2>3. i \in 1..z /\ i - 1 \in 0..z /\ ~(i <= i - 1) /\ i \in 1..Len(all)
    BY <1>1, <2>1, <2>2
  <2>4. Scans(s)[i - 1] = Scans(all)[i - 1]
    BY <1>3, <2>3
  <2>5. Scans(s)[i] = ScanByte(Scans(s)[i - 1], s[i]) /\ Scans(all)[i] = ScanByte(Scans(all)[i - 1], all[i])
    BY <1>1, <2>3, ScansUnfold
  <2> QED
    BY <1>1, <2>1, <2>3, <2>4, <2>5
<1>4. T = {}
  BY <1>2, <1>3, LeastMember
<1> QED
  BY <1>4

WithLine(acc, x) == [acc EXCEPT !.line = x]

LEMMA WithLineFacts ==
    ASSUME NEW acc \in Accs, NEW x \in Seq(Symbols)
    PROVE  /\ WithLine(acc, x) \in Accs /\ WithLine(acc, x).line = x
           /\ acc.line = x => WithLine(acc, x) = acc
           /\ \A y : WithLine(WithLine(acc, x), y) = WithLine(acc, y)
           /\ \A l \in Seq(Symbols) : TakeLine(WithLine(acc, x), l) = WithLine(TakeLine(acc, l), x)
<1>1. WithLine(acc, x) \in Accs /\ WithLine(acc, x).line = x
  BY DEF WithLine, Accs
<1>2. acc.line = x => WithLine(acc, x) = acc
  BY DEF WithLine, Accs
<1>3. \A y : WithLine(WithLine(acc, x), y) = WithLine(acc, y)
  BY DEF WithLine, Accs
<1>4. ASSUME NEW l \in Seq(Symbols) PROVE TakeLine(WithLine(acc, x), l) = WithLine(TakeLine(acc, l), x)
  <2>1. /\ WithLine(acc, x).done = acc.done /\ WithLine(acc, x).open = acc.open
        /\ WithLine(acc, x).data = acc.data /\ WithLine(acc, x).events = acc.events
    BY DEF WithLine, Accs
  <2>2. Dispatch(WithLine(acc, x)) = WithLine(Dispatch(acc), x)
    BY <2>1 DEF Dispatch, WithLine, Accs
  <2>3. \A v : AddData(WithLine(acc, x), v) = WithLine(AddData(acc, v), x)
    BY <2>1 DEF AddData, WithLine, Accs
  <2> QED
    BY <2>1, <2>2, <2>3 DEF TakeLine
<1> QED
  BY <1>1, <1>2, <1>3, <1>4

LEMMA ByteGathered ==
    ASSUME NEW acc \in Accs, NEW x \in Seq(Symbols), NEW b, b # "N"
    PROVE  ScanByte(WithLine(acc, x), b) = WithLine(acc, Append(x, b))
<1>1. ScanByte(WithLine(acc, x), b) = WithLine(WithLine(acc, x), Append(WithLine(acc, x).line, b))
  BY DEF ScanByte, WithLine
<1> QED
  BY <1>1, WithLineFacts

\* Scanning one line: its symbols are gathered, then the line is taken.
LEMMA LineScanned ==
    ASSUME NEW all, NEW lines, NEW eol, NEW off, NEW m, Laid(all, lines, eol, off, m), NEW l \in 1..m,
           Scans(all)[off[l - 1]].line = <<>>
    PROVE  /\ Scans(all)[off[l - 1]] \in Accs
           /\ Scans(all)[off[l - 1] + Len(lines[l])] = WithLine(Scans(all)[off[l - 1]], lines[l])
           /\ Len(eol) = 2 => Scans(all)[off[l] - 1] = WithLine(Scans(all)[off[l - 1]], Append(lines[l], "R"))
           /\ Scans(all)[off[l]] = TakeLine(Scans(all)[off[l - 1]], lines[l])
<1>1. PICK b \in Nat, z \in Nat, e \in Nat : LineAt(all, lines, eol, off, l, b, z, e)
  BY LaidLine
<1>2. /\ b = off[l - 1] /\ z = Len(lines[l]) /\ e = Len(eol) /\ (e = 1 \/ e = 2) /\ off[l] = b + z + e
      /\ off[l] <= Len(all) /\ lines[l] \in Content
      /\ \A k \in 1..z : all[k + b] = lines[l][k] /\ lines[l][k] \in Ink
      /\ all[b + z + e] = "N" /\ (e = 2 => all[b + z + 1] = "R")
  BY <1>1 DEF LineAt
<1>3. PICK n \in Nat : n = Len(all) /\ all \in Seq(Symbols)
  BY DEF Laid
<1>n. b + z + e <= n /\ (e = 1 \/ e = 2)
  BY <1>2, <1>3
<1>4. PICK sc : sc = Scans(all)
  OBVIOUS
<1>5. (\A k \in 1..n : sc[k] = ScanByte(sc[k - 1], all[k])) /\ \A k \in 0..n : sc[k] \in Accs
  BY <1>3, <1>4, ScansUnfold
<1>6. PICK acc \in Accs : acc = sc[b] /\ acc.line = <<>>
  <2>1. b \in 0..n
    BY <1>2, <1>3
  <2> QED
    BY <1>2, <1>4, <1>5, <2>1
<1>7. PICK t \in Seq(Symbols) : t = lines[l] /\ Len(t) = z /\ t \in Seq(Ink) /\ \A k \in 1..z : all[k + b] = t[k] /\ t[k] \in Ink
  BY <1>2, ContentShape
<1>8. ASSUME NEW k \in 0..z
      PROVE  SubSeq(t, 1, k) \in Seq(Symbols) /\ (k > 0 => SubSeq(t, 1, k) = Append(SubSeq(t, 1, k - 1), t[k]))
  BY <1>7
<1>9. SubSeq(t, 1, z) = t /\ SubSeq(t, 1, 0) = <<>>
  BY <1>7
<1> DEFINE T == {k \in 0..z : sc[b + k] # WithLine(acc, SubSeq(t, 1, k))}
<1>10. T \subseteq Nat
  OBVIOUS
<1>11. ASSUME NEW k \in T, \A j \in T : k <= j PROVE FALSE
  <2>1. k \in 0..z /\ sc[b + k] # WithLine(acc, SubSeq(t, 1, k))
    OBVIOUS
  <2>2. k # 0
    <3>1. b + 0 = b
      OBVIOUS
    <3>2. <<>> \in Seq(Symbols)
      OBVIOUS
    <3>3. WithLine(acc, <<>>) = acc
      BY <1>6, <3>2, WithLineFacts
    <3> QED
      BY <1>6, <1>9, <2>1, <3>1, <3>3
  <2>3. k - 1 \in 0..z /\ k \in 1..z /\ ~(k <= k - 1)
    BY <2>1, <2>2
  <2>4. sc[b + (k - 1)] = WithLine(acc, SubSeq(t, 1, k - 1))
    BY <1>11, <2>3
  <2>5. b + k \in 1..n /\ (b + k) - 1 = b + (k - 1) /\ b + k = k + b
    BY <1>n, <2>3
  <2>6. sc[b + k] = ScanByte(sc[b + (k - 1)], t[k])
    BY <1>5, <1>7, <2>3, <2>5
  <2>7. t[k] # "N" /\ SubSeq(t, 1, k - 1) \in Seq(Symbols)
    BY <1>7, <1>8, <2>3 DEF Ink
  <2>8. PICK x \in Seq(Symbols), y \in Ink : x = SubSeq(t, 1, k - 1) /\ y = t[k] /\ y # "N"
    BY <1>7, <2>3, <2>7
  <2>9. ScanByte(WithLine(acc, x), y) = WithLine(acc, Append(x, y))
    BY <2>8, ByteGathered
  <2>10. sc[b + k] = WithLine(acc, Append(x, y))
    BY <2>4, <2>6, <2>8, <2>9
  <2>11. k \in 0..z /\ k > 0
    BY <2>3
  <2>12. SubSeq(t, 1, k) = Append(x, y)
    BY <1>8, <2>8, <2>11
  <2> QED
    BY <2>1, <2>10, <2>12
<1>12. T = {}
  BY <1>10, <1>11, LeastMember
<1>13. sc[b + z] = WithLine(acc, t)
  <2>1. z \in 0..z
    OBVIOUS
  <2> QED
    BY <1>9, <1>12, <2>1
<1> HIDE DEF T
<1>14. TrimCR(t) = t /\ TrimCR(Append(t, "R")) = t /\ Append(t, "R") \in Seq(Symbols)
  BY <1>7, TrimCRShape DEF Symbols
<1>15. ASSUME NEW x \in Seq(Symbols), TrimCR(x) = t
       PROVE  ScanByte(WithLine(acc, x), "N") = TakeLine(acc, t)
  <2>1. WithLine(acc, x).line = x
    BY WithLineFacts
  <2>2. ScanByte(WithLine(acc, x), "N") = WithLine(TakeLine(WithLine(acc, x), t), <<>>)
    BY <1>15, <2>1 DEF ScanByte, ScanLine, WithLine
  <2>3. TakeLine(WithLine(acc, x), t) = WithLine(TakeLine(acc, t), x)
    BY WithLineFacts
  <2>4. TakeLine(acc, t) \in Accs /\ TakeLine(acc, t).line = <<>>
    BY <1>6, TakeLineType
  <2>5. WithLine(WithLine(TakeLine(acc, t), x), <<>>) = WithLine(TakeLine(acc, t), <<>>)
    BY <2>4, WithLineFacts
  <2>6. WithLine(TakeLine(acc, t), <<>>) = TakeLine(acc, t)
    <3>1. <<>> \in Seq(Symbols)
      OBVIOUS
    <3> QED
      BY <2>4, <3>1, WithLineFacts
  <2> QED
    BY <2>2, <2>3, <2>5, <2>6
<1>16. CASE e = 1
  <2>1. b + z + 1 \in 1..n /\ (b + z + 1) - 1 = b + z
    BY <1>n, <1>16
  <2>2. sc[b + z + 1] = ScanByte(sc[b + z], "N")
    BY <1>2, <1>5, <1>16, <2>1
  <2>3. sc[b + z + 1] = TakeLine(acc, t)
    BY <1>13, <1>14, <1>15, <2>2
  <2> QED
    BY <1>2, <1>4, <1>6, <1>7, <1>13, <1>16, <2>3
<1>17. CASE e = 2
  <2>1. /\ b + z + 1 \in 1..n /\ (b + z + 1) - 1 = b + z
        /\ b + z + 2 \in 1..n /\ (b + z + 2) - 1 = b + z + 1
    BY <1>n, <1>17
  <2>2. sc[b + z + 1] = ScanByte(sc[b + z], "R")
    BY <1>2, <1>5, <1>17, <2>1
  <2>3. sc[b + z + 1] = WithLine(acc, Append(t, "R"))
    BY <1>13, <2>2, ByteGathered
  <2>4. sc[b + z + 2] = ScanByte(sc[b + z + 1], "N")
    BY <1>2, <1>5, <1>17, <2>1, SMTT(30)
  <2>5. sc[b + z + 2] = TakeLine(acc, t)
    BY <1>14, <1>15, <2>3, <2>4
  <2>6. off[l] = b + z + 2 /\ off[l] - 1 = b + z + 1
    BY <1>2, <1>17, <2>1
  <2> QED
    BY <1>2, <1>4, <1>6, <1>7, <1>13, <2>3, <2>5, <2>6
<1> QED
  BY <1>2, <1>16, <1>17

-----------------------------------------------------------------------------
(* sse.Scan event by event.                                                *)

\* Between two events.
Fresh(acc) == acc \in Accs /\ acc.line = <<>> /\ acc.open = FALSE /\ acc.data = <<>>

\* What event f adds.
After(acc, f) ==
    IF acc.done THEN acc
    ELSE IF f.kind \in {"done", "bare"} THEN [acc EXCEPT !.done = TRUE]
    ELSE IF f.kind = "text" THEN [acc EXCEPT !.events = Append(@, f.data)]
    ELSE acc

Result(acc) == [events |-> acc.events, done |-> acc.done]

LEMMA TrimText ==
    ASSUME NEW v \in Seq(Symbols), NEW n \in Nat, n = Len(v), n >= 1, v[1] = "J"
    PROVE  TrimSpace(v) # <<"E">>
<1>1. PICK t : t = TrimSpace(v)
  OBVIOUS
<1>2. "J" \notin Blanks /\ 1 \in 1..n
  BY DEF Blanks
<1>3. PICK a \in 1..n, b \in 1..n : a <= b /\ t = SubSeq(v, a, b) /\ \A i \in 1..n : i < a \/ i > b => v[i] \in Blanks
  BY <1>1, <1>2, TrimRange
<1>4. a = 1
  BY <1>2, <1>3
<1>5. t[1] = "J"
  BY <1>3, <1>4
<1>6. ASSUME t = <<"E">> PROVE FALSE
  <2>1. t[1] = "E"
    BY <1>6
  <2> QED
    BY <1>5, <2>1
<1> QED
  BY <1>1, <1>6

LEMMA TrimDone == TrimSpace(<<"E">>) = <<"E">>
<1>1. PICK v : v = <<"E">>
  OBVIOUS
<1>2. v \in Seq(Symbols) /\ Len(v) = 1 /\ v[1] = "E"
  BY <1>1 DEF Symbols
<1>3. "E" \notin Blanks
  BY DEF Blanks
<1>4. PICK a \in 1..1, b \in 1..1 : TrimSpace(v) = SubSeq(v, a, b)
  BY <1>2, <1>3, TrimRange
<1>5. a = 1 /\ b = 1
  OBVIOUS
<1>6. SubSeq(v, 1, 1) = v
  BY <1>2, SubSeqFull
<1> QED
  BY <1>1, <1>4, <1>5, <1>6

\* The value of a data: line.
LEMMA DataLine ==
    ASSUME NEW acc \in Accs, ~acc.done, NEW l \in Seq(Symbols), NEW v \in Seq(Symbols), NEW h \in {1, 2},
           l[1] = "D", Len(l) = h + Len(v), Len(v) >= 1, h = 2 <=> l[2] = "S",
           Shifted(l, v, 1, Len(v), h)
    PROVE  TakeLine(acc, l) = AddData(acc, v)
<1>1. PICK n \in Nat : n = Len(v) /\ n >= 1
  OBVIOUS
<1>2. Len(l) = h + n /\ Len(l) > 1 /\ h + n \in Nat
  BY <1>1
<1>3. l # <<>>
  <2>1. Len(<<>>) = 0
    OBVIOUS
  <2>2. ASSUME l = <<>> PROVE FALSE
    <3>1. Len(l) = 0
      BY <2>1, <2>2
    <3> QED
      BY <1>2, <3>1
  <2> QED
    BY <2>2
<1>4. (IF Len(l) > 1 /\ l[2] = "S" THEN 3 ELSE 2) = h + 1
  BY <1>2
<1>5. SubSeq(l, h + 1, h + n) = v
  <2>1. h \in Nat /\ h <= h + n /\ (h + n) - h = n /\ h + n <= Len(l)
    BY <1>1, <1>2
  <2>2. PICK u : u = SubSeq(l, h + 1, h + n)
    OBVIOUS
  <2>3. u \in Seq(Symbols) /\ Len(u) = (h + n) - h /\ \A k \in 1..((h + n) - h) : u[k] = l[h + k]
    BY <1>2, <2>1, <2>2, PartAfter
  <2>4. \A k \in 1..n : h + k = k + h
    OBVIOUS
  <2>5. \A k \in 1..n : v[k] = l[k + h]
    BY <1>1 DEF Shifted
  <2>6. Len(u) = n /\ \A k \in 1..n : u[k] = v[k]
    BY <2>1, <2>3, <2>4, <2>5
  <2> QED
    BY <1>1, <2>2, <2>3, <2>6, SeqEqual
<1> QED
  BY <1>2, <1>3, <1>4, <1>5 DEF TakeLine

LEMMA TextLineTaken ==
    ASSUME NEW acc \in Accs, ~acc.done, NEW p \in Payloads
    PROVE  /\ TakeLine(acc, <<"D">> \o p) = AddData(acc, p)
           /\ TakeLine(acc, <<"D", "S">> \o p) = AddData(acc, p)
<1>1. p \in Seq(Symbols) /\ Len(p) \in Nat /\ Len(p) >= 1 /\ p[1] = "J"
  BY PayloadShape
<1>2. PICK n \in Nat : n = Len(p) /\ n >= 1
  BY <1>1
<1>3. ASSUME NEW l, l = <<"D">> \o p PROVE TakeLine(acc, l) = AddData(acc, p)
  <2>1. <<"D">> \in Seq(Symbols) /\ Len(<<"D">>) = 1 /\ <<"D">>[1] = "D"
    BY DEF Symbols
  <2>2. l \in Seq(Symbols) /\ Len(l) = 1 + n /\ \A i \in 1..(1 + n) : l[i] = IF i <= 1 THEN <<"D">>[i] ELSE p[i - 1]
    BY <1>1, <1>2, <1>3, <2>1, ConcatProperties
  <2>3. l[1] = "D" /\ l[2] = p[2 - 1]
    BY <1>2, <2>1, <2>2
  <2>4. l[2] # "S"
    BY <1>1, <2>3
  <2>5. Shifted(l, p, 1, n, 1)
    <3>1. \A k \in 1..n : k + 1 \in 1..(1 + n) /\ ~(k + 1 <= 1) /\ (k + 1) - 1 = k
      OBVIOUS
    <3> QED
      BY <2>2, <3>1 DEF Shifted
  <2>6. 1 \in {1, 2} /\ ~(1 = 2)
    OBVIOUS
  <2> QED
    BY <1>1, <1>2, <2>2, <2>3, <2>4, <2>5, <2>6, DataLine
<1>4. ASSUME NEW l, l = <<"D", "S">> \o p PROVE TakeLine(acc, l) = AddData(acc, p)
  <2>1. <<"D", "S">> \in Seq(Symbols) /\ Len(<<"D", "S">>) = 2 /\ <<"D", "S">>[1] = "D" /\ <<"D", "S">>[2] = "S"
    BY DEF Symbols
  <2>2. l \in Seq(Symbols) /\ Len(l) = 2 + n /\ \A i \in 1..(2 + n) : l[i] = IF i <= 2 THEN <<"D", "S">>[i] ELSE p[i - 2]
    BY <1>1, <1>2, <1>4, <2>1, ConcatProperties
  <2>3. l[1] = "D" /\ l[2] = "S"
    BY <1>2, <2>1, <2>2
  <2>4. Shifted(l, p, 1, n, 2)
    <3>1. \A k \in 1..n : k + 2 \in 1..(2 + n) /\ ~(k + 2 <= 2) /\ (k + 2) - 2 = k
      OBVIOUS
    <3> QED
      BY <2>2, <3>1 DEF Shifted
  <2>5. 2 \in {1, 2}
    OBVIOUS
  <2> QED
    BY <1>1, <1>2, <2>2, <2>3, <2>4, <2>5, DataLine
<1> QED
  BY <1>3, <1>4

LEMMA DoneLineTaken ==
    ASSUME NEW acc \in Accs, ~acc.done
    PROVE  TakeLine(acc, Sentinel) = AddData(acc, <<"E">>) /\ TakeLine(acc, <<"D", "E">>) = AddData(acc, <<"E">>)
<1>1. PICK v : v = <<"E">>
  OBVIOUS
<1>2. v \in Seq(Symbols) /\ Len(v) = 1 /\ v[1] = "E"
  BY <1>1 DEF Symbols
<1>3. ASSUME NEW l \in Seq(Symbols), NEW h \in {1, 2}, Len(l) = h + 1, l[1] = "D", h = 2 <=> l[2] = "S", l[1 + h] = "E"
      PROVE  TakeLine(acc, l) = AddData(acc, v)
  <2>1. Shifted(l, v, 1, 1, h)
    BY <1>2, <1>3 DEF Shifted
  <2>2. Len(l) = h + Len(v) /\ Len(v) >= 1
    BY <1>2, <1>3
  <2> QED
    BY <1>2, <1>3, <2>1, <2>2, DataLine
<1>4. Sentinel \in Seq(Symbols) /\ Len(Sentinel) = 2 + 1 /\ Sentinel[1] = "D" /\ Sentinel[2] = "S" /\ Sentinel[1 + 2] = "E"
  BY DEF Sentinel, Symbols
<1>5. PICK l : l = <<"D", "E">>
  OBVIOUS
<1>6. l \in Seq(Symbols) /\ Len(l) = 1 + 1 /\ l[1] = "D" /\ l[2] # "S" /\ l[1 + 1] = "E"
  BY <1>5 DEF Symbols
<1>7. 1 \in {1, 2} /\ 2 \in {1, 2} /\ ~(1 = 2)
  OBVIOUS
<1> QED
  BY <1>1, <1>3, <1>4, <1>5, <1>6, <1>7

LEMMA DataDispatched ==
    ASSUME NEW acc, Fresh(acc), ~acc.done, NEW v \in Seq(Symbols)
    PROVE  /\ AddData(acc, v) \in Accs /\ ~AddData(acc, v).done
           /\ \A w \in Seq(Symbols) : AddData(AddData(acc, v), w) = AddData(acc, v \o <<"N">> \o w)
           /\ TrimSpace(v) = <<"E">> => TakeLine(AddData(acc, v), <<>>) = [acc EXCEPT !.done = TRUE]
           /\ TrimSpace(v) # <<"E">> => TakeLine(AddData(acc, v), <<>>) = [acc EXCEPT !.events = Append(@, v)]
<1>1. acc \in Accs /\ acc.line = <<>> /\ acc.open = FALSE /\ acc.data = <<>> /\ acc.done = FALSE
  BY DEF Fresh, Accs
<1>2. PICK a : a = AddData(acc, v)
  OBVIOUS
<1>3. a = [acc EXCEPT !.open = TRUE, !.data = v]
  BY <1>1, <1>2 DEF AddData
<1>4. a \in Accs /\ a.open = TRUE /\ a.data = v /\ a.done = FALSE /\ a.events = acc.events
  BY <1>1, <1>3 DEF Accs
<1>5. ASSUME NEW w \in Seq(Symbols) PROVE AddData(a, w) = AddData(acc, v \o <<"N">> \o w)
  <2>1. AddData(a, w) = [a EXCEPT !.open = TRUE, !.data = v \o <<"N">> \o w]
    BY <1>4 DEF AddData
  <2>2. AddData(acc, v \o <<"N">> \o w) = [acc EXCEPT !.open = TRUE, !.data = v \o <<"N">> \o w]
    BY <1>1 DEF AddData
  <2> QED
    BY <1>1, <1>3, <2>1, <2>2 DEF Accs
<1>6. TakeLine(a, <<>>) = Dispatch(a)
  BY <1>4 DEF TakeLine
<1>7. ASSUME TrimSpace(v) = <<"E">> PROVE TakeLine(a, <<>>) = [acc EXCEPT !.done = TRUE]
  <2>1. Dispatch(a) = [a EXCEPT !.open = FALSE, !.data = <<>>, !.done = TRUE]
    BY <1>4, <1>7 DEF Dispatch
  <2> QED
    BY <1>1, <1>3, <1>6, <2>1 DEF Accs
<1>8. ASSUME TrimSpace(v) # <<"E">> PROVE TakeLine(a, <<>>) = [acc EXCEPT !.events = Append(@, v)]
  <2>1. Dispatch(a) = [a EXCEPT !.open = FALSE, !.data = <<>>, !.events = Append(acc.events, v)]
    BY <1>4, <1>8 DEF Dispatch
  <2> QED
    BY <1>1, <1>3, <1>6, <2>1 DEF Accs
<1> QED
  BY <1>2, <1>4, <1>5, <1>7, <1>8

\* Taking the lines of an event.
Taken(acc, ls) == IF Len(ls) = 1 THEN TakeLine(acc, ls[1]) ELSE TakeLine(TakeLine(acc, ls[1]), ls[2])

LEMMA FormTaken ==
    ASSUME NEW acc, Fresh(acc), NEW f \in Forms
    PROVE  /\ TakeLine(Taken(acc, f.lines), <<>>) = After(acc, f)
           /\ Fresh(After(acc, f))
           /\ f.kind = "done" /\ ~acc.done => Taken(acc, f.lines) = AddData(acc, <<"E">>)
<1>1. acc \in Accs /\ acc.line = <<>> /\ acc.open = FALSE /\ acc.data = <<>>
  BY DEF Fresh
<1>2. CASE acc.done
  <2>1. \A l : TakeLine(acc, l) = acc
    BY <1>2 DEF TakeLine
  <2> QED
    BY <1>2, <2>1 DEF Taken, After
<1>3. CASE ~acc.done
  <2>1. [acc EXCEPT !.done = TRUE] \in Accs /\ Fresh([acc EXCEPT !.done = TRUE])
    BY <1>1 DEF Accs, Fresh
  <2>2. ASSUME NEW v \in Seq(Symbols) PROVE Fresh([acc EXCEPT !.events = Append(@, v)])
    <3>1. Append(acc.events, v) \in Seq(Seq(Symbols))
      BY <1>1 DEF Accs
    <3> QED
      BY <1>1, <3>1 DEF Accs, Fresh
  <2>3. <<"E">> \in Seq(Symbols)
    BY DEF Symbols
  <2>4. CASE f.kind = "done" /\ f.lines = <<Sentinel>>
    <3>1. Taken(acc, f.lines) = AddData(acc, <<"E">>)
      BY <1>1, <1>3, <2>4, DoneLineTaken DEF Taken
    <3>2. TakeLine(AddData(acc, <<"E">>), <<>>) = [acc EXCEPT !.done = TRUE]
      BY <1>3, <2>3, DataDispatched, TrimDone
    <3> QED
      BY <1>3, <2>1, <2>4, <3>1, <3>2 DEF After
  <2>5. CASE f.kind = "bare" /\ f.lines = <<<<"D", "E">>>>
    <3>1. Taken(acc, f.lines) = AddData(acc, <<"E">>)
      BY <1>1, <1>3, <2>5, DoneLineTaken DEF Taken
    <3>2. TakeLine(AddData(acc, <<"E">>), <<>>) = [acc EXCEPT !.done = TRUE]
      BY <1>3, <2>3, DataDispatched, TrimDone
    <3> QED
      BY <1>3, <2>1, <2>5, <3>1, <3>2 DEF After
  <2>6. CASE f.kind \in {"padded", "ping"} /\ (f.lines = <<Padded>> \/ f.lines = <<<<"C">>>>)
    <3>1. PICK l : f.lines = <<l>> /\ (l = Padded \/ l = <<"C">>)
      BY <2>6
    <3>2. l # <<>> /\ l[1] # "D"
      BY <3>1 DEF Padded
    <3>3. Taken(acc, f.lines) = acc
      BY <1>3, <3>1, <3>2 DEF Taken, TakeLine
    <3>4. TakeLine(acc, <<>>) = acc
      BY <1>1, <1>3 DEF TakeLine, Dispatch
    <3> QED
      BY <1>3, <2>6, <3>3, <3>4 DEF After
  <2>7. CASE \E p \in Payloads : f.kind = "text" /\ f.lines = <<<<"D", "S">> \o p>> /\ f.data = p
    <3>1. PICK p \in Payloads : f.kind = "text" /\ f.lines = <<<<"D", "S">> \o p>> /\ f.data = p
      BY <2>7
    <3>2. Taken(acc, f.lines) = AddData(acc, p)
      BY <1>1, <1>3, <3>1, TextLineTaken DEF Taken
    <3>3. p \in Seq(Symbols) /\ TrimSpace(p) # <<"E">>
      BY PayloadShape, TrimText
    <3>4. TakeLine(AddData(acc, p), <<>>) = [acc EXCEPT !.events = Append(@, p)]
      BY <1>3, <3>3, DataDispatched
    <3> QED
      BY <1>3, <2>2, <3>1, <3>2, <3>3, <3>4 DEF After
  <2>8. CASE \E p, q \in Payloads :
                /\ f.kind = "text" /\ f.lines = <<<<"D">> \o p, <<"D", "S">> \o q>>
                /\ f.data = p \o <<"N">> \o q
    <3>1. PICK p \in Payloads, q \in Payloads :
                /\ f.kind = "text" /\ f.lines = <<<<"D">> \o p, <<"D", "S">> \o q>>
                /\ f.data = p \o <<"N">> \o q
      BY <2>8
    <3>2. p \in Seq(Symbols) /\ q \in Seq(Symbols) /\ Len(p) \in Nat /\ Len(p) >= 1 /\ p[1] = "J" /\ Len(q) \in Nat
      BY PayloadShape
    <3>3. PICK v \in Seq(Symbols), n \in Nat : v = p \o <<"N">> \o q /\ n = Len(v) /\ n >= 1 /\ v[1] = "J"
      <4>1. PICK x : x = p \o <<"N">>
        OBVIOUS
      <4>2. <<"N">> \in Seq(Symbols) /\ Len(<<"N">>) = 1
        BY DEF Symbols
      <4>3. x \in Seq(Symbols) /\ Len(x) = Len(p) + 1 /\ x[1] = "J"
        BY <3>2, <4>1, <4>2
      <4>4. x \o q \in Seq(Symbols) /\ Len(x \o q) = Len(x) + Len(q) /\ (x \o q)[1] = "J"
        BY <3>2, <4>3
      <4>5. Len(x \o q) \in Nat /\ Len(x \o q) >= 1
        BY <3>2, <4>3, <4>4
      <4> QED
        BY <4>1, <4>4, <4>5
    <3>4. TakeLine(acc, <<"D">> \o p) = AddData(acc, p)
      BY <1>1, <1>3, TextLineTaken
    <3>5. AddData(acc, p) \in Accs /\ ~AddData(acc, p).done
      BY <1>3, <3>2, DataDispatched
    <3>6. TakeLine(AddData(acc, p), <<"D", "S">> \o q) = AddData(AddData(acc, p), q)
      BY <3>5, TextLineTaken
    <3>7. AddData(AddData(acc, p), q) = AddData(acc, v)
      BY <1>3, <3>2, <3>3, DataDispatched
    <3>8. Taken(acc, f.lines) = AddData(acc, v)
      <4>1. PICK a, b : a = <<"D">> \o p /\ b = <<"D", "S">> \o q
        OBVIOUS
      <4>2. f.lines = <<a, b>>
        BY <3>1, <4>1
      <4>3. Taken(acc, f.lines) = TakeLine(TakeLine(acc, a), b)
        BY <4>2 DEF Taken
      <4> QED
        BY <3>4, <3>6, <3>7, <4>1, <4>3
    <3>9. TakeLine(AddData(acc, v), <<>>) = [acc EXCEPT !.events = Append(@, v)]
      BY <1>3, <3>3, DataDispatched, TrimText
    <3> QED
      BY <1>3, <2>2, <3>1, <3>3, <3>8, <3>9 DEF After
  <2> QED
    BY <2>4, <2>5, <2>6, <2>7, <2>8, FormCases
<1> QED
  BY <1>2, <1>3

\* Event i has y lines, the first of which is line x + 1.
EventAt(fs, lines, m, first, i, x, y) ==
    /\ x = first[i - 1] /\ (y = 1 \/ y = 2) /\ y = Len(fs[i].lines) /\ first[i] = x + y + 1 /\ first[i] <= m
    /\ m \in Nat /\ fs[i] \in Forms /\ lines[x + y + 1] = <<>> /\ lines[x + 1] = fs[i].lines[1]
    /\ y = 2 => lines[x + 2] = fs[i].lines[2]

LEMMA EventLines ==
    ASSUME NEW fs, NEW n, NEW lines, NEW m, NEW first, Composed(fs, n, lines, m, first), NEW i \in 1..n
    PROVE  \E x, y \in Nat : EventAt(fs, lines, m, first, i, x, y)
<1>1. /\ n \in Nat \ {0} /\ fs \in [1..n -> Forms] /\ first \in [0..n -> Nat] /\ first[n] = m
      /\ first[i] = first[i - 1] + Len(fs[i].lines) + 1 /\ lines[first[i]] = <<>>
      /\ \A k \in 1..Len(fs[i].lines) : lines[first[i - 1] + k] = fs[i].lines[k]
  BY DEF Composed
<1>2. fs[i] \in Forms /\ i - 1 \in 0..n /\ i \in 0..n /\ n \in 0..n /\ i <= n
  BY <1>1
<1>3. PICK x \in Nat, y \in Nat : x = first[i - 1] /\ y \in {1, 2} /\ y = Len(fs[i].lines)
  BY <1>1, <1>2, FormLines
<1>4. first[i] <= m /\ m \in Nat
  <2>1. \A j \in 1..n : first[j - 1] <= first[j]
    <3> SUFFICES ASSUME NEW j \in 1..n PROVE first[j - 1] <= first[j]
      OBVIOUS
    <3>1. first[j] = first[j - 1] + Len(fs[j].lines) + 1 /\ fs[j] \in Forms
      BY DEF Composed
    <3>2. first[j - 1] \in Nat /\ Len(fs[j].lines) \in {1, 2}
      BY <1>1, <3>1, FormLines
    <3>3. PICK u \in Nat, v \in {1, 2} : u = first[j - 1] /\ v = Len(fs[j].lines)
      BY <3>2
    <3>4. first[j] = u + v + 1
      BY <3>1, <3>3
    <3> QED
      BY <3>3, <3>4
  <2>2. first[i] <= first[n] /\ first[n] \in Nat
    BY <1>1, <1>2, <2>1, OffsetsGrow
  <2> QED
    BY <1>1, <2>2
<1>5. 1 \in 1..y /\ (y = 2 => 2 \in 1..y)
  <2>1. y = 1 \/ y = 2
    BY <1>3
  <2> QED
    BY <2>1
<1>6. lines[x + 1] = fs[i].lines[1] /\ (y = 2 => lines[x + 2] = fs[i].lines[2])
  BY <1>1, <1>3, <1>5
<1>7. first[i] = x + y + 1 /\ lines[x + y + 1] = <<>>
  BY <1>1, <1>3
<1>8. y = 1 \/ y = 2
  BY <1>3
<1> QED
  BY <1>2, <1>3, <1>4, <1>6, <1>7, <1>8 DEF EventAt

\* How the scan goes over an event that ends with line x and finds acc.
EventTaken(all, lines, off, f, x, acc) ==
    /\ Scans(all)[off[x - 1]] = Taken(acc, f.lines)
    /\ Scans(all)[off[x]] = After(acc, f)
    /\ \E before \in Accs :
        /\ before.line = <<>> /\ TakeLine(before, lines[x - 1]) = Taken(acc, f.lines)
        /\ Scans(all)[off[x - 2] + Len(lines[x - 1])] = WithLine(before, lines[x - 1])
        /\ lines[x - 1] \in Content /\ lines[x - 1] # <<>>

LEMMA FormNotBlank ==
    ASSUME NEW f \in Forms
    PROVE  f.lines[1] # <<>> /\ (Len(f.lines) = 2 => f.lines[2] # <<>>)
<1>1. Sentinel # <<>> /\ <<"D", "E">> # <<>> /\ Padded # <<>> /\ <<"C">> # <<>>
  BY DEF Sentinel, Padded
<1>2. \A p \in Payloads : <<"D", "S">> \o p # <<>> /\ <<"D">> \o p # <<>>
  <2> SUFFICES ASSUME NEW p \in Payloads PROVE <<"D", "S">> \o p # <<>> /\ <<"D">> \o p # <<>>
    OBVIOUS
  <2>1. <<"D", "S">> \o p \in TextLines /\ <<"D">> \o p \in TextLines
    BY DEF TextLines
  <2> QED
    BY <2>1, TextNotDone
<1>3. ASSUME NEW x, x # <<>>, f.lines = <<x>> PROVE f.lines[1] # <<>> /\ (Len(f.lines) = 2 => f.lines[2] # <<>>)
  BY <1>3
<1>4. ASSUME NEW x, NEW y, x # <<>>, y # <<>>, f.lines = <<x, y>>
      PROVE  f.lines[1] # <<>> /\ (Len(f.lines) = 2 => f.lines[2] # <<>>)
  BY <1>4
<1>5. (\E x : x # <<>> /\ f.lines = <<x>>) \/ \E x, y : x # <<>> /\ y # <<>> /\ f.lines = <<x, y>>
  BY <1>1, <1>2, FormCases
<1> QED
  BY <1>3, <1>4, <1>5

LEMMA EventScanned ==
    ASSUME NEW fs, NEW n, NEW lines, NEW m, NEW first, Composed(fs, n, lines, m, first),
           NEW all, NEW eol, NEW off, Laid(all, lines, eol, off, m),
           NEW i \in 1..n, Fresh(Scans(all)[off[first[i - 1]]])
    PROVE  /\ EventTaken(all, lines, off, fs[i], first[i], Scans(all)[off[first[i - 1]]])
           /\ Fresh(Scans(all)[off[first[i]]])
<1>0. PICK x \in Nat, y \in Nat : EventAt(fs, lines, m, first, i, x, y)
  BY EventLines
<1>1.        /\ x = first[i - 1] /\ (y = 1 \/ y = 2) /\ y = Len(fs[i].lines) /\ first[i] = x + y + 1 /\ first[i] <= m
             /\ m \in Nat /\ fs[i] \in Forms /\ lines[x + y + 1] = <<>> /\ lines[x + 1] = fs[i].lines[1]
             /\ y = 2 => lines[x + 2] = fs[i].lines[2]
  BY <1>0 DEF EventAt
<1>2. PICK f \in Forms : f = fs[i]
  BY <1>1
<1>3. PICK sc : sc = Scans(all)
  OBVIOUS
<1>4. PICK acc \in Accs : acc = sc[off[x]] /\ Fresh(acc) /\ acc.line = <<>>
  BY <1>1, <1>3 DEF Fresh
<1>5. \A l \in 1..m : lines[l] \in Content /\ lines[l] \in Seq(Symbols)
  BY ContentShape DEF Laid
<1>6. ASSUME NEW l \in 1..m, sc[off[l - 1]].line = <<>>
      PROVE  /\ sc[off[l - 1]] \in Accs /\ sc[off[l]] = TakeLine(sc[off[l - 1]], lines[l]) /\ sc[off[l]].line = <<>>
             /\ sc[off[l - 1] + Len(lines[l])] = WithLine(sc[off[l - 1]], lines[l])
  <2>1. /\ sc[off[l - 1]] \in Accs /\ sc[off[l]] = TakeLine(sc[off[l - 1]], lines[l])
        /\ sc[off[l - 1] + Len(lines[l])] = WithLine(sc[off[l - 1]], lines[l])
    BY <1>3, <1>6, LineScanned
  <2> QED
    BY <1>5, <1>6, <2>1, TakeLineType
<1>7. TakeLine(Taken(acc, f.lines), <<>>) = After(acc, f) /\ Fresh(After(acc, f))
  BY <1>4, FormTaken
<1>8. f.lines[1] # <<>> /\ (Len(f.lines) = 2 => f.lines[2] # <<>>)
  BY FormNotBlank
<1>9. CASE y = 1
  <2>1. /\ x + 1 \in 1..m /\ x + 2 \in 1..m /\ (x + 1) - 1 = x /\ (x + 2) - 1 = x + 1
        /\ first[i] = x + 2 /\ first[i] - 1 = x + 1 /\ first[i] - 2 = x
    <3>1. first[i] = x + 2 /\ first[i] <= m /\ m \in Nat
      BY <1>1, <1>9
    <3> QED
      BY <3>1
  <2>2. sc[off[x + 1]] = TakeLine(acc, lines[x + 1]) /\ sc[off[x + 1]].line = <<>>
        /\ sc[off[x] + Len(lines[x + 1])] = WithLine(acc, lines[x + 1])
    BY <1>4, <1>6, <2>1
  <2>3. sc[off[x + 2]] = TakeLine(sc[off[x + 1]], lines[x + 2])
    BY <1>6, <2>1, <2>2
  <2>4. lines[x + 2] = <<>> /\ lines[x + 1] = f.lines[1] /\ Taken(acc, f.lines) = TakeLine(acc, f.lines[1])
    BY <1>1, <1>2, <1>9, <2>1 DEF Taken
  <2>5. sc[off[x + 1]] = Taken(acc, f.lines) /\ sc[off[x + 2]] = After(acc, f)
    BY <1>7, <2>2, <2>3, <2>4
  <2>6. lines[x + 1] \in Content /\ lines[x + 1] # <<>>
    BY <1>5, <1>8, <2>1, <2>4
  <2>7. \E before \in Accs :
        /\ before.line = <<>> /\ TakeLine(before, lines[x + 1]) = Taken(acc, f.lines)
        /\ sc[off[x] + Len(lines[x + 1])] = WithLine(before, lines[x + 1])
        /\ lines[x + 1] \in Content /\ lines[x + 1] # <<>>
    BY <1>4, <2>2, <2>4, <2>6
  <2> QED
    BY <1>1, <1>2, <1>3, <1>4, <1>7, <2>1, <2>5, <2>7 DEF EventTaken
<1>10. CASE y = 2
  <2>1. /\ x + 1 \in 1..m /\ x + 2 \in 1..m /\ x + 3 \in 1..m /\ (x + 1) - 1 = x /\ (x + 2) - 1 = x + 1 /\ (x + 3) - 1 = x + 2
        /\ first[i] = x + 3 /\ first[i] - 1 = x + 2 /\ first[i] - 2 = x + 1
    BY <1>1, <1>10, SMTT(30)
  <2>2. sc[off[x + 1]] = TakeLine(acc, lines[x + 1]) /\ sc[off[x + 1]].line = <<>>
    BY <1>4, <1>6, <2>1
  <2>3. /\ sc[off[x + 1]] \in Accs /\ sc[off[x + 2]] = TakeLine(sc[off[x + 1]], lines[x + 2]) /\ sc[off[x + 2]].line = <<>>
        /\ sc[off[x + 1] + Len(lines[x + 2])] = WithLine(sc[off[x + 1]], lines[x + 2])
    BY <1>6, <2>1, <2>2
  <2>4. sc[off[x + 3]] = TakeLine(sc[off[x + 2]], lines[x + 3])
    BY <1>6, <2>1, <2>3
  <2>5. /\ lines[x + 3] = <<>> /\ lines[x + 1] = f.lines[1] /\ lines[x + 2] = f.lines[2]
        /\ Taken(acc, f.lines) = TakeLine(TakeLine(acc, f.lines[1]), f.lines[2])
    BY <1>1, <1>2, <1>10, <2>1, SMTT(30) DEF Taken
  <2>6. sc[off[x + 2]] = Taken(acc, f.lines) /\ sc[off[x + 3]] = After(acc, f)
    BY <1>7, <2>2, <2>3, <2>4, <2>5
  <2>7. lines[x + 2] \in Content /\ lines[x + 2] # <<>>
    BY <1>1, <1>2, <1>5, <1>8, <1>10, <2>1, <2>5
  <2>8. \E before \in Accs :
        /\ before.line = <<>> /\ TakeLine(before, lines[x + 2]) = Taken(acc, f.lines)
        /\ sc[off[x + 1] + Len(lines[x + 2])] = WithLine(before, lines[x + 2])
        /\ lines[x + 2] \in Content /\ lines[x + 2] # <<>>
    BY <2>2, <2>3, <2>5, <2>6, <2>7
  <2> QED
    BY <1>1, <1>2, <1>3, <1>4, <1>7, <2>1, <2>6, <2>8 DEF EventTaken
<1> QED
  BY <1>1, <1>9, <1>10

\* Every event finds the scan between two events.
LEMMA EventsFresh ==
    ASSUME NEW fs, NEW n, NEW lines, NEW m, NEW first, Composed(fs, n, lines, m, first),
           NEW all, NEW eol, NEW off, Laid(all, lines, eol, off, m), NEW k \in 0..n
    PROVE  Fresh(Scans(all)[off[first[k]]])
<1>1. n \in Nat /\ first[0] = 0 /\ off[0] = 0 /\ all \in Seq(Symbols)
  BY DEF Composed, Laid
<1> DEFINE T == {i \in 0..n : ~Fresh(Scans(all)[off[first[i]]])}
<1>2. T \subseteq Nat
  OBVIOUS
<1>3. ASSUME NEW i \in T, \A j \in T : i <= j PROVE FALSE
  <2>1. i \in 0..n /\ ~Fresh(Scans(all)[off[first[i]]])
    OBVIOUS
  <2>2. i # 0
    <3>1. Scans(all)[0] = NoneScanned
      BY <1>1, ScansUnfold
    <3>2. Fresh(NoneScanned)
      BY DEF Fresh, NoneScanned, Accs
    <3> QED
      BY <1>1, <2>1, <3>1, <3>2
  <2>3. i \in 1..n /\ i - 1 \in 0..n /\ ~(i <= i - 1)
    BY <1>1, <2>1, <2>2
  <2>4. Fresh(Scans(all)[off[first[i - 1]]])
    BY <1>3, <2>3
  <2> HIDE DEF T
  <2> QED
    BY <2>1, <2>3, <2>4, EventScanned
<1>4. T = {}
  BY <1>2, <1>3, LeastMember
<1> QED
  BY <1>4

-----------------------------------------------------------------------------
(* The sentinel in the scan.                                               *)

\* A scan that is done stays as it is.
LEMMA ScanDone ==
    ASSUME NEW s \in Seq(Symbols), NEW k \in 0..Len(s), Scans(s)[k].done,
           NEW h \in 0..Len(s), k <= h
    PROVE  Scans(s)[h].done /\ Scans(s)[h].events = Scans(s)[k].events
<1>1. PICK n \in Nat : n = Len(s)
  OBVIOUS
<1>0. PICK sc : sc = Scans(s)
  OBVIOUS
<1>2. PICK e : e = sc[k].events
  OBVIOUS
<1> DEFINE T == {i \in 0..n : k <= i /\ ~(sc[i].done /\ sc[i].events = e)}
<1>3. T \subseteq Nat
  BY <1>1
<1>4. ASSUME NEW i \in T, \A j \in T : i <= j PROVE FALSE
  <2>1. i \in 0..n /\ k <= i /\ ~(sc[i].done /\ sc[i].events = e)
    OBVIOUS
  <2>2. i # k
    BY <1>0, <1>1, <1>2, <2>1
  <2>3. i \in 1..n /\ i - 1 \in 0..n /\ k <= i - 1 /\ ~(i <= i - 1)
    BY <1>1, <2>1, <2>2
  <2>4. sc[i - 1].done /\ sc[i - 1].events = e
    BY <1>4, <2>3
  <2> HIDE DEF T
  <2>5. PICK acc \in Accs, b \in Symbols : acc = sc[i - 1] /\ sc[i] = ScanByte(acc, b)
    BY <1>0, <1>1, <2>3, ScansUnfold
  <2>6. ScanByte(acc, b).done /\ ScanByte(acc, b).events = e
    <3>1. TakeLine(acc, TrimCR(acc.line)) = acc
      BY <2>4, <2>5 DEF TakeLine
    <3> QED
      BY <2>4, <2>5, <3>1 DEF ScanByte, ScanLine, Accs
  <2> QED
    BY <2>1, <2>5, <2>6
<1>5. T = {}
  BY <1>3, <1>4, LeastMember
<1> QED
  BY <1>0, <1>1, <1>2, <1>5

LEMMA ScanEndDone ==
    ASSUME NEW acc \in Accs, acc.done
    PROVE  ScanEnd(acc) = [events |-> acc.events, done |-> TRUE]
<1>1. TakeLine(acc, TrimCR(acc.line)) = acc /\ acc.done = TRUE
  BY DEF TakeLine, Accs
<1> QED
  BY <1>1 DEF ScanEnd, ScanLine

\* What is left at the end of the payload is taken like a line and a blank
\* line after it.
LEMMA ScanEndTakes ==
    ASSUME NEW acc \in Accs
    PROVE  /\ acc.line = <<>> => ScanEnd(acc) = Result(TakeLine(acc, <<>>))
           /\ acc.line # <<>> => ScanEnd(acc) = Result(TakeLine(TakeLine(acc, TrimCR(acc.line)), <<>>))
<1>1. ASSUME NEW last PROVE (IF last.done THEN last ELSE Dispatch(last)) = TakeLine(last, <<>>)
  BY DEF TakeLine
<1> QED
  BY <1>1 DEF ScanEnd, ScanLine, Result

\* From the line end of the sentinel on, wherever the bytes stop, the scan
\* finds the same.
LEMMA ScanSealed ==
    ASSUME NEW fs, NEW n, NEW lines, NEW m, NEW first, Composed(fs, n, lines, m, first),
           NEW all, NEW eol, NEW off, Laid(all, lines, eol, off, m),
           NEW i \in 1..n, fs[i].kind = "done", NEW x \in Nat, x = first[i - 1],
           NEW k \in Nat, off[x + 1] <= k, k <= Len(all)
    PROVE  ScanEnd(Scans(all)[k]) = [events |-> Scans(all)[off[x]].events, done |-> TRUE]
<1>1. PICK y \in Nat :
             /\ y = Len(fs[i].lines) /\ first[i] = x + y + 1 /\ first[i] <= m
             /\ m \in Nat /\ fs[i] \in Forms /\ lines[x + y + 1] = <<>> /\ lines[x + 1] = fs[i].lines[1]
  <2>1. PICK u \in Nat, y \in Nat : EventAt(fs, lines, m, first, i, u, y)
    BY EventLines
  <2>2. u = x
    BY <2>1 DEF EventAt
  <2> QED
    BY <2>1, <2>2 DEF EventAt
<1>2. y = 1
  <2>1. fs[i].lines = <<Sentinel>>
    BY <1>1, FormCases
  <2> QED
    BY <1>1, <2>1
<1>0. PICK sc : sc = Scans(all)
  OBVIOUS
<1>3. PICK f \in Forms : f = fs[i] /\ sc = Scans(all) /\ f.kind = "done"
  BY <1>0, <1>1
<1>4. i \in Nat /\ n \in Nat /\ i - 1 \in 0..n /\ all \in Seq(Symbols)
  BY DEF Composed, Laid
<1>5. PICK acc \in Accs : acc = sc[off[x]] /\ Fresh(acc) /\ acc.line = <<>>
  <2>1. Fresh(Scans(all)[off[first[i - 1]]])
    BY <1>4, EventsFresh
  <2>2. Fresh(sc[off[x]])
    BY <1>3, <2>1
  <2> QED
    BY <2>2 DEF Fresh
<1>6. /\ x + 1 \in 1..m /\ x + 2 \in 1..m /\ (x + 1) - 1 = x /\ (x + 2) - 1 = x + 1
      /\ first[i] = x + 2 /\ first[i] - 1 = x + 1 /\ lines[x + 2] = <<>>
  BY <1>1, <1>2
<1>7. sc[off[x + 1]] = Taken(acc, f.lines) /\ sc[off[x + 2]] = After(acc, f)
  <2>1. EventTaken(all, lines, off, fs[i], first[i], Scans(all)[off[first[i - 1]]])
    BY <1>3, <1>5, EventScanned
  <2> QED
    BY <1>3, <1>5, <1>6, <2>1 DEF EventTaken
<1>8. PICK z \in Nat : z = Len(all) /\ off[x + 1] \in 0..z /\ off[x + 2] \in 0..z /\ off[x] \in 0..z /\ off[x] <= k
  <2>1. off[x + 1] \in 1..Len(all) /\ off[x + 2] \in 1..Len(all) /\ off[x] < off[x + 1]
    BY <1>6, LaidEnds
  <2>2. off \in [0..m -> Nat] /\ x \in 0..m /\ Len(all) \in Nat
    <3>1. off \in [0..m -> Nat]
      BY DEF Laid
    <3>2. x \in 0..m
      BY <1>1, <1>6
    <3> QED
      BY <1>4, <3>1, <3>2
  <2>3. off[x] \in Nat
    BY <2>2
  <2> QED
    BY <2>1, <2>2, <2>3, SMTT(30)
<1>9. ASSUME NEW h \in 0..z, h <= k, sc[h].done, sc[h].events = acc.events
      PROVE  ScanEnd(sc[k]) = [events |-> acc.events, done |-> TRUE]
  <2>1. k \in 0..Len(all) /\ h \in 0..Len(all)
    BY <1>8
  <2>2. sc[k].done /\ sc[k].events = acc.events /\ sc[k] \in Accs
    BY <1>3, <1>4, <1>9, <2>1, ScanDone, ScansUnfold
  <2> QED
    BY <2>2, ScanEndDone
<1>10. CASE acc.done
  BY <1>3, <1>5, <1>8, <1>9, <1>10
<1>11. CASE ~acc.done
  <2>1. PICK d : d = AddData(acc, <<"E">>) /\ sc[off[x + 1]] = d
    BY <1>3, <1>5, <1>7, <1>11, FormTaken
  <2>2. PICK g : g = [acc EXCEPT !.done = TRUE]
    OBVIOUS
  <2>3. d \in Accs /\ TakeLine(d, <<>>) = g
    <3>1. PICK v \in Seq(Symbols) : v = <<"E">> /\ TrimSpace(v) = <<"E">>
      <4>1. <<"E">> \in Seq(Symbols)
        BY DEF Symbols
      <4> QED
        BY <4>1, TrimDone
    <3>2. AddData(acc, v) \in Accs /\ TakeLine(AddData(acc, v), <<>>) = [acc EXCEPT !.done = TRUE]
      BY <1>5, <1>11, <3>1, DataDispatched
    <3> QED
      BY <2>1, <2>2, <3>1, <3>2
  <2>4. d.line = <<>>
    BY <1>5, <2>1 DEF AddData, Accs
  <2>5. g \in Accs /\ g.done = TRUE /\ g.events = acc.events
    BY <1>5, <2>2 DEF Accs
  <2>6. sc[off[x + 2]] = g
    BY <1>3, <1>7, <1>11, <2>2 DEF After
  <2>7. CASE k = off[x + 1]
    BY <2>1, <2>3, <2>4, <2>5, <2>7, ScanEndTakes, <1>3, <1>5 DEF Result
  <2>8. CASE k >= off[x + 2]
    <3>1. PICK h \in 0..z : h = off[x + 2]
      BY <1>8
    <3>2. h <= k /\ sc[h].done /\ sc[h].events = acc.events
      BY <2>5, <2>6, <2>8, <3>1
    <3>3. ScanEnd(sc[k]) = [events |-> acc.events, done |-> TRUE]
      BY <1>9, <3>2
    <3> QED
      BY <1>3, <1>5, <3>3
  <2>9. CASE k # off[x + 1] /\ k < off[x + 2]
    <3>1. PICK b \in Nat, w \in Nat, e \in Nat : LineAt(all, lines, eol, off, x + 2, b, w, e)
      BY <1>6, LaidLine
    <3>2. /\ b = off[x + 1] /\ w = Len(lines[x + 2]) /\ e = Len(eol) /\ (e = 1 \/ e = 2) /\ off[x + 2] = b + w + e
      BY <1>6, <3>1 DEF LineAt
    <3>3. w = 0
      BY <1>6, <3>2
    <3>4. e = 2 /\ k = off[x + 2] - 1
      <4>1. b <= k /\ k # b
        BY <2>9, <3>2
      <4>2. PICK q \in Nat : q = off[x + 2] /\ q = b + e /\ k < q
        BY <2>9, <3>2, <3>3
      <4>3. e = 2 /\ k = q - 1
        <5>1. e = 1 \/ e = 2
          BY <3>2
        <5>2. q = b + e /\ k < q /\ b <= k /\ k # b
          BY <4>1, <4>2
        <5> QED
          BY <5>1, <5>2
      <4> QED
        BY <4>2, <4>3
    <3>5. sc[k] = WithLine(d, Append(<<>>, "R"))
      <4>1. PICK l \in 1..m : l = x + 2 /\ l - 1 = x + 1
        BY <1>6
      <4>2. Scans(all)[off[l - 1]] = d /\ Scans(all)[off[l - 1]].line = <<>>
        BY <1>3, <2>1, <2>4, <4>1
      <4>3. Len(eol) = 2 => Scans(all)[off[l] - 1] = WithLine(Scans(all)[off[l - 1]], Append(lines[l], "R"))
        BY <4>2, LineScanned
      <4> QED
        BY <1>3, <1>6, <3>2, <3>4, <4>1, <4>2, <4>3
    <3>6. Append(<<>>, "R") \in Seq(Symbols) /\ <<>> \in Seq(Ink) /\ <<>> \in Seq(Symbols) /\ Append(<<>>, "R") # <<>>
      BY DEF Symbols
    <3>7. TrimCR(Append(<<>>, "R")) = <<>>
      BY <3>6, TrimCRShape
    <3>8. PICK v \in Seq(Symbols) : v = Append(<<>>, "R") /\ v # <<>> /\ TrimCR(v) = <<>>
      BY <3>6, <3>7
    <3>9. sc[k] \in Accs /\ sc[k].line = v /\ sc[k] = WithLine(d, v)
      <4>1. WithLine(d, v) \in Accs /\ WithLine(d, v).line = v
        BY <2>3, WithLineFacts
      <4> QED
        BY <3>5, <3>8, <4>1
    <3>10. TakeLine(sc[k], <<>>) = WithLine(g, v)
      <4>1. \A l \in Seq(Symbols) : TakeLine(WithLine(d, v), l) = WithLine(TakeLine(d, l), v)
        BY <2>3, WithLineFacts
      <4>2. TakeLine(WithLine(d, v), <<>>) = WithLine(TakeLine(d, <<>>), v)
        BY <3>6, <4>1
      <4> QED
        BY <2>3, <3>9, <4>2
    <3>11. TakeLine(WithLine(g, v), <<>>) = WithLine(g, v)
      BY <2>5 DEF TakeLine, WithLine, Accs
    <3>12. ScanEnd(sc[k]) = Result(WithLine(g, v))
      BY <3>8, <3>9, <3>10, <3>11, ScanEndTakes
    <3>13. Result(WithLine(g, v)) = [events |-> acc.events, done |-> TRUE]
      BY <2>5 DEF Result, WithLine, Accs
    <3> QED
      BY <1>3, <1>5, <3>12, <3>13
  <2> QED
    BY <1>3, <1>5, <1>8, <2>7, <2>8, <2>9
<1> QED
  BY <1>10, <1>11

-----------------------------------------------------------------------------
(* What the two scanners find.                                             *)

\* A line is taken for the sentinel by watchDone just if it is the line of
\* such an event.
LEMMA DoneEvent ==
    ASSUME NEW fs, NEW n, NEW lines, NEW m, NEW first, Composed(fs, n, lines, m, first)
    PROVE  /\ \A l \in 1..m : lines[l] \in {Sentinel, Padded} =>
                \E i \in 1..n : l = first[i - 1] + 1 /\ fs[i].kind \in {"done", "padded"}
           /\ \A i \in 1..n : fs[i].kind \in {"done", "padded"} =>
                lines[first[i - 1] + 1] \in {Sentinel, Padded} /\ first[i] = first[i - 1] + 2 /\ first[i] <= m
<1>1. <<>> \notin {Sentinel, Padded} /\ Sentinel # <<"D", "E">> /\ Padded # <<"D", "E">> /\ <<"C">> \notin {Sentinel, Padded}
  BY DEF Sentinel, Padded
<1>2. ASSUME NEW p \in Payloads PROVE <<"D", "S">> \o p \notin {Sentinel, Padded} /\ <<"D">> \o p \notin {Sentinel, Padded}
  <2>1. ASSUME NEW l \in TextLines PROVE l \notin {Sentinel, Padded}
    <3>1. l \in Content
      BY DEF Content
    <3> QED
      BY <3>1, TextNotDone, ContentShape
  <2> QED
    BY <2>1 DEF TextLines
<1>3. ASSUME NEW f \in Forms
      PROVE  /\ f.lines[1] \in {Sentinel, Padded} => f.kind \in {"done", "padded"}
             /\ f.kind \in {"done", "padded"} => f.lines[1] \in {Sentinel, Padded} /\ Len(f.lines) = 1
             /\ Len(f.lines) = 2 => f.lines[2] \notin {Sentinel, Padded}
  <2> DEFINE Right(g) ==
             /\ g.lines[1] \in {Sentinel, Padded} => g.kind \in {"done", "padded"}
             /\ g.kind \in {"done", "padded"} => g.lines[1] \in {Sentinel, Padded} /\ Len(g.lines) = 1
             /\ Len(g.lines) = 2 => g.lines[2] \notin {Sentinel, Padded}
  <2>1. ASSUME NEW l, f.lines = <<l>>, l \in {Sentinel, Padded} <=> f.kind \in {"done", "padded"} PROVE Right(f)
    BY <2>1
  <2>2. ASSUME NEW k, NEW l, f.lines = <<k, l>>, k \notin {Sentinel, Padded}, l \notin {Sentinel, Padded}, f.kind = "text"
        PROVE  Right(f)
    BY <2>2
  <2>3. \/ \E l : f.lines = <<l>> /\ (l \in {Sentinel, Padded} <=> f.kind \in {"done", "padded"})
        \/ \E k, l : f.lines = <<k, l>> /\ k \notin {Sentinel, Padded} /\ l \notin {Sentinel, Padded} /\ f.kind = "text"
    <3>1. CASE f.kind = "done" /\ f.lines = <<Sentinel>>
      BY <3>1
    <3>2. CASE f.kind = "bare" /\ f.lines = <<<<"D", "E">>>>
      BY <1>1, <3>2
    <3>3. CASE f.kind = "padded" /\ f.lines = <<Padded>>
      BY <3>3
    <3>4. CASE f.kind = "ping" /\ f.lines = <<<<"C">>>>
      BY <1>1, <3>4
    <3>5. CASE \E p \in Payloads : f.kind = "text" /\ f.lines = <<<<"D", "S">> \o p>> /\ f.data = p
      BY <1>2, <3>5
    <3>6. CASE \E p, q \in Payloads :
                /\ f.kind = "text" /\ f.lines = <<<<"D">> \o p, <<"D", "S">> \o q>>
                /\ f.data = p \o <<"N">> \o q
      BY <1>2, <3>6
    <3> QED
      BY <3>1, <3>2, <3>3, <3>4, <3>5, <3>6, FormCases
  <2> HIDE DEF Right
  <2>4. Right(f)
    BY <2>1, <2>2, <2>3
  <2> QED
    BY <2>4 DEF Right
<1>5. ASSUME NEW l \in 1..m, lines[l] \in {Sentinel, Padded}
      PROVE  \E i \in 1..n : l = first[i - 1] + 1 /\ fs[i].kind \in {"done", "padded"}
  <2>1. n \in Nat /\ first \in [0..n -> Nat] /\ first[0] = 0 /\ l \in 1..first[n]
    BY DEF Composed
  <2>2. PICK i \in 1..n : first[i - 1] < l /\ l <= first[i]
    BY <2>1, Located
  <2>0. PICK x \in Nat, y \in Nat : EventAt(fs, lines, m, first, i, x, y)
    BY EventLines
  <2>3.      /\ x = first[i - 1] /\ (y = 1 \/ y = 2) /\ y = Len(fs[i].lines) /\ first[i] = x + y + 1 /\ first[i] <= m
             /\ m \in Nat /\ fs[i] \in Forms /\ lines[x + y + 1] = <<>> /\ lines[x + 1] = fs[i].lines[1]
             /\ y = 2 => lines[x + 2] = fs[i].lines[2]
    BY <2>0 DEF EventAt
  <2>4. l = x + 1 \/ (y = 2 /\ l = x + 2) \/ l = x + y + 1
    <3>1. l \in Nat /\ x < l /\ l <= x + y + 1 /\ (y = 1 \/ y = 2)
      BY <2>2, <2>3
    <3> QED
      BY <3>1
  <2>5. CASE l = x + 1
    <3>1. fs[i].lines[1] \in {Sentinel, Padded}
      BY <1>5, <2>3, <2>5
    <3> QED
      BY <1>3, <2>3, <2>5, <3>1
  <2>6. CASE y = 2 /\ l = x + 2
    BY <1>3, <1>5, <2>3, <2>6
  <2>7. CASE l = x + y + 1
    BY <1>1, <1>5, <2>3, <2>7
  <2> QED
    BY <2>4, <2>5, <2>6, <2>7
<1>6. ASSUME NEW i \in 1..n, fs[i].kind \in {"done", "padded"}
      PROVE  lines[first[i - 1] + 1] \in {Sentinel, Padded} /\ first[i] = first[i - 1] + 2 /\ first[i] <= m
  <2>0. PICK x \in Nat, y \in Nat : EventAt(fs, lines, m, first, i, x, y)
    BY EventLines
  <2>1.      /\ x = first[i - 1] /\ (y = 1 \/ y = 2) /\ y = Len(fs[i].lines) /\ first[i] = x + y + 1 /\ first[i] <= m
             /\ m \in Nat /\ fs[i] \in Forms /\ lines[x + y + 1] = <<>> /\ lines[x + 1] = fs[i].lines[1]
             /\ y = 2 => lines[x + 2] = fs[i].lines[2]
    BY <2>0 DEF EventAt
  <2>2. fs[i].lines[1] \in {Sentinel, Padded} /\ y = 1
    BY <1>3, <1>6, <2>1
  <2>3. first[i] = x + 2
    BY <2>1, <2>2
  <2> QED
    BY <2>1, <2>2, <2>3
<1> QED
  BY <1>5, <1>6

\* watchDone on the first e bytes.
LEMMA DoneRead ==
    ASSUME NEW fs, NEW n, NEW lines, NEW m, NEW first, Composed(fs, n, lines, m, first),
           NEW all, NEW eol, NEW off, Laid(all, lines, eol, off, m),
           NEW s, NEW z, Prefix(s, all, z), NEW e \in 0..z
    PROVE  ~NoDone(s, e) <=> \E i \in 1..n : fs[i].kind \in {"done", "padded"} /\ off[first[i - 1] + 1] <= e
<1>1. all \in Seq(Symbols) /\ z \in 0..Len(all) /\ z \in Nat /\ e \in Nat /\ e <= z /\ Len(all) \in Nat
  BY DEF Laid, Prefix
<1>2. ASSUME NEW i \in 1..e, NEW j \in 1..e, i <= j, IsLine(s, i, j), DoneAt(s, i, j)
      PROVE  \E h \in 1..n : fs[h].kind \in {"done", "padded"} /\ off[first[h - 1] + 1] <= e
  <2>1. i \in 1..j /\ j \in 1..z /\ j \in 1..Len(all) /\ j <= e
    BY <1>1, <1>2
  <2>2. IsLine(all, i, j) /\ DoneAt(all, i, j)
    BY <1>1, <1>2, <2>1, PrefixLine
  <2>3. PICK l \in 1..m : i = off[l - 1] + 1 /\ j = off[l]
    BY <2>1, <2>2, LaidLines
  <2>4. lines[l] \in {Sentinel, Padded}
    BY <2>2, <2>3, LaidDone
  <2>5. PICK h \in 1..n : l = first[h - 1] + 1 /\ fs[h].kind \in {"done", "padded"}
    BY <2>4, DoneEvent
  <2> QED
    BY <2>1, <2>3, <2>5
<1>3. ASSUME NEW h \in 1..n, fs[h].kind \in {"done", "padded"}, off[first[h - 1] + 1] <= e
      PROVE  \E i, j \in 1..e : i <= j /\ IsLine(s, i, j) /\ DoneAt(s, i, j)
  <2>1. lines[first[h - 1] + 1] \in {Sentinel, Padded} /\ first[h] = first[h - 1] + 2 /\ first[h] <= m
    BY <1>3, DoneEvent
  <2>2. PICK x \in Nat : x = first[h - 1] /\ m \in Nat /\ off \in [0..m -> Nat]
    <3>1. n \in Nat /\ h - 1 \in 0..n /\ first \in [0..n -> Nat]
      BY DEF Composed
    <3>2. m \in Nat /\ off \in [0..m -> Nat]
      BY DEF Laid
    <3> QED
      BY <3>1, <3>2
  <2>3. PICK l \in 1..m : l = x + 1 /\ l - 1 \in 0..m /\ lines[l] \in {Sentinel, Padded} /\ off[l] <= e
    <3>1. x + 1 \in 1..m /\ (x + 1) - 1 \in 0..m
      BY <2>1, <2>2, SMTT(30)
    <3> QED
      BY <1>3, <2>1, <2>2, <3>1
  <2>4. off[l] \in 1..Len(all) /\ IsLine(all, off[l - 1] + 1, off[l]) /\ off[l - 1] < off[l]
    BY LaidEnds
  <2>5. DoneAt(all, off[l - 1] + 1, off[l])
    BY <2>3, LaidDone
  <2>6. PICK a \in Nat, j \in Nat : a = off[l - 1] /\ j = off[l]
    BY <2>2, <2>3
  <2>7. a + 1 \in 1..j /\ j \in 1..z /\ a + 1 \in 1..e /\ j \in 1..e /\ a + 1 <= j
    BY <1>1, <2>3, <2>4, <2>6
  <2>8. IsLine(all, a + 1, j) /\ DoneAt(all, a + 1, j)
    BY <2>4, <2>5, <2>6
  <2>9. IsLine(s, a + 1, j) /\ DoneAt(s, a + 1, j)
    BY <1>1, <2>7, <2>8, PrefixLine
  <2> QED
    BY <2>7, <2>9
<1>4. ~NoDone(s, e) <=> \E i, j \in 1..e : i <= j /\ IsLine(s, i, j) /\ DoneAt(s, i, j)
  BY DEF NoDone
<1> QED
  BY <1>2, <1>3, <1>4

\* What Write has collected once the sentinel has come is scanned like the
\* whole stream.
LEMMA SealedFaithful ==
    ASSUME Streamed, Watched
    PROVE  SealLosesNothing
<1> SUFFICES ASSUME sawDone, \A i \in DOMAIN forms : forms[i].kind # "padded"
             PROVE  Scan(collected) = Scan(stream)
  BY DEF SealLosesNothing
<1>1. PICK n, lines, m, first, eol, all, off : IsStream(forms, stop, stream, n, lines, m, first, eol, all, off)
  BY DEF Streamed
<1>2. PICK z : Prefix(stream, all, z) /\ Composed(forms, n, lines, m, first) /\ Laid(all, lines, eol, off, m)
  BY <1>1 DEF IsStream
<1>3. /\ all \in Seq(Symbols) /\ Len(all) \in Nat /\ z \in Nat /\ z <= Len(all)
      /\ stream \in Seq(Symbols) /\ Len(stream) = z /\ \A k \in 1..z : stream[k] = all[k]
  BY <1>2 DEF Laid, Prefix
<1>4. PICK e \in 0..at : collected = SubSeq(stream, 1, e) /\ ~NoDone(stream, e)
  BY DEF Watched
<1>5. e \in Nat /\ e \in 0..z
  <2>1. at \in 0..z
    BY <1>3 DEF Watched
  <2> QED
    BY <1>3, <2>1
<1>6. Prefix(collected, all, e)
  <2>1. 1 \in 1..(Len(stream) + 1) /\ e \in 0..Len(stream) /\ 1 <= e + 1 /\ e - 1 + 1 = e
    BY <1>3, <1>5
  <2>2. /\ collected \in Seq(Symbols) /\ Len(collected) = e
        /\ \A k \in 1..e : collected[k] = stream[1 + k - 1]
    BY <1>3, <1>4, <2>1, PartOf
  <2>3. \A k \in 1..e : k \in 1..z /\ 1 + k - 1 = k
    BY <1>3, <1>5
  <2>4. \A k \in 1..e : collected[k] = all[k]
    BY <1>3, <2>2, <2>3
  <2> QED
    BY <1>3, <1>5, <2>2, <2>4 DEF Prefix
<1>7. PICK i \in 1..n : forms[i].kind \in {"done", "padded"} /\ off[first[i - 1] + 1] <= e
  BY <1>2, <1>4, <1>5, DoneRead
<1>8. forms[i].kind = "done"
  <2>1. DOMAIN forms = 1..n
    BY <1>2 DEF Composed
  <2> QED
    BY <1>7, <2>1
<1>9. PICK x \in Nat : x = first[i - 1]
  <2>1. n \in Nat /\ i - 1 \in 0..n /\ first \in [0..n -> Nat]
    BY <1>2 DEF Composed
  <2> QED
    BY <2>1
<1>10. ScanEnd(Scans(all)[e]) = [events |-> Scans(all)[off[x]].events, done |-> TRUE]
  <2>1. e \in Nat /\ off[x + 1] <= e /\ e <= Len(all)
    BY <1>3, <1>5, <1>7, <1>9
  <2> QED
    BY <1>2, <1>8, <1>9, <2>1, ScanSealed
<1>11. ScanEnd(Scans(all)[z]) = [events |-> Scans(all)[off[x]].events, done |-> TRUE]
  <2>1. off \in [0..m -> Nat] /\ x + 1 \in 0..m
    <3>1. first[i] = first[i - 1] + 2 /\ first[i] <= m
      BY <1>2, <1>7, DoneEvent
    <3>2. m \in Nat /\ off \in [0..m -> Nat]
      BY <1>2 DEF Laid
    <3>3. x + 2 <= m
      BY <1>9, <3>1
    <3> QED
      BY <3>2, <3>3
  <2>2. off[x + 1] \in Nat /\ off[x + 1] <= e
    BY <1>7, <1>9, <2>1
  <2>3. z \in Nat /\ off[x + 1] <= z /\ z <= Len(all)
    BY <1>3, <1>5, <2>2
  <2> QED
    BY <1>2, <1>8, <1>9, <2>3, ScanSealed
<1>12. Scans(collected)[e] = Scans(all)[e] /\ Scans(stream)[z] = Scans(all)[z]
  <2>1. e \in 0..e /\ z \in 0..z
    BY <1>3, <1>5
  <2> QED
    BY <1>2, <1>3, <1>6, <2>1, ScansPrefix
<1>13. Len(collected) = e
  BY <1>6 DEF Prefix
<1> QED
  BY <1>3, <1>10, <1>11, <1>12, <1>13 DEF Scan

-----------------------------------------------------------------------------
(* Pieces.                                                                 *)

LEMMA FirstGrows ==
    ASSUME NEW fs, NEW n, NEW lines, NEW m, NEW first, Composed(fs, n, lines, m, first),
           NEW i \in 0..n, NEW j \in 0..n, i <= j
    PROVE  first[i] <= first[j]
<1>1. n \in Nat /\ first \in [0..n -> Nat]
  BY DEF Composed
<1>2. ASSUME NEW h \in 1..n PROVE first[h - 1] <= first[h]
  <2>1. PICK x \in Nat, y \in Nat : EventAt(fs, lines, m, first, h, x, y)
    BY EventLines
  <2>2. x = first[h - 1] /\ first[h] = x + y + 1
    BY <2>1 DEF EventAt
  <2> QED
    BY <2>2
<1> QED
  BY <1>1, <1>2, OffsetsGrow

\* The stream holds the end of the line of every such event, except of the
\* last one when it stops in a line.
LEMMA DoneLineRead ==
    ASSUME NEW fs, NEW st, NEW s, NEW n, NEW lines, NEW m, NEW first, NEW eol, NEW all, NEW off,
           IsStream(fs, st, s, n, lines, m, first, eol, all, off),
           NEW i \in 1..n, fs[i].kind \in {"done", "padded"}
    PROVE  off[first[i - 1] + 1] <= Len(s) <=> ~(i = n /\ st = "cut")
<1>1. /\ Composed(fs, n, lines, m, first) /\ Laid(all, lines, eol, off, m)
      /\ st \in Stops /\ m >= 2 /\ Len(s) = StopAt(off, lines, m, st)
  BY DEF IsStream, Prefix
<1>2. m \in Nat /\ off \in [0..m -> Nat] /\ n \in Nat /\ first \in [0..n -> Nat] /\ first[n] = m
  BY <1>1 DEF Composed, Laid
<1>3. PICK x \in Nat : x = first[i - 1] /\ first[i] = x + 2 /\ x + 2 <= m
  <2>1. first[i] = first[i - 1] + 2 /\ first[i] <= m
    BY <1>1, DoneEvent
  <2>2. first[i - 1] \in Nat
    BY <1>2
  <2> QED
    BY <2>1, <2>2
<1>4. ASSUME NEW a \in 0..m, NEW b \in 0..m, a <= b PROVE off[a] <= off[b]
  <2>1. \A l \in 1..m : off[l - 1] <= off[l]
    <3> SUFFICES ASSUME NEW l \in 1..m PROVE off[l - 1] <= off[l]
      OBVIOUS
    <3>1. off[l - 1] < off[l]
      BY <1>1, LaidEnds
    <3>2. l - 1 \in 0..m /\ l \in 0..m
      BY <1>2
    <3>3. off[l - 1] \in Nat /\ off[l] \in Nat
      BY <1>2, <3>2
    <3> QED
      BY <3>1, <3>3
  <2> QED
    BY <1>2, <1>4, <2>1, OffsetsGrow
<1>5. PICK l \in 1..m, k \in 0..m : l = m - 1 /\ k = m - 2 /\ l - 1 = k /\ x + 1 <= l
  <2>1. m - 1 \in 1..m /\ m - 2 \in 0..m /\ (m - 1) - 1 = m - 2 /\ x + 1 <= m - 1
    BY <1>1, <1>2, <1>3
  <2> QED
    BY <2>1
<1>6. PICK b \in Nat, w \in Nat, e \in Nat : b = off[k] /\ w = Len(lines[l]) /\ off[l] = b + w + e /\ e >= 1
  <2>1. PICK b \in Nat, w \in Nat, e \in Nat : LineAt(all, lines, eol, off, l, b, w, e)
    BY <1>1, LaidLine
  <2>2. b = off[l - 1] /\ w = Len(lines[l]) /\ (e = 1 \/ e = 2) /\ off[l] = b + w + e
    BY <2>1 DEF LineAt
  <2>3. b = off[k] /\ e >= 1
    BY <1>5, <2>2
  <2> QED
    BY <2>2, <2>3
<1>7. PICK q \in Nat, r \in Nat, u \in Nat : q = off[m] /\ r = off[l] /\ u = off[x + 1] /\ r <= q
  <2>1. m \in 0..m /\ l \in 0..m /\ x + 1 \in 0..m /\ l <= m
    BY <1>2, <1>3, <1>5, SMTT(30)
  <2>2. off[m] \in Nat /\ off[l] \in Nat /\ off[x + 1] \in Nat /\ off[l] <= off[m]
    BY <1>2, <1>4, <2>1
  <2> QED
    BY <2>2
<1>8. /\ st = "blank" => Len(s) = q
      /\ st = "line" => Len(s) = r
      /\ st = "cut" => Len(s) = b + w
      /\ st = "blank" \/ st = "line" \/ st = "cut"
  BY <1>1, <1>5, <1>6, <1>7 DEF StopAt, Stops
<1>9. CASE i = n
  <2>1. x + 1 = l
    BY <1>2, <1>3, <1>5, <1>9, SMTT(30)
  <2>2. u = r
    BY <1>7, <2>1
  <2>3. CASE st = "cut"
    <3>1. Len(s) = b + w /\ r = b + w + e
      BY <1>6, <1>7, <1>8, <2>3
    <3>2. ~(r <= b + w)
      BY <1>6, <3>1
    <3> QED
      BY <1>3, <1>7, <1>9, <2>2, <2>3, <3>1, <3>2
  <2>4. CASE st # "cut"
    <3>1. u <= Len(s)
      BY <1>7, <1>8, <2>2, <2>4
    <3> QED
      BY <1>3, <1>7, <1>9, <2>4, <3>1
  <2> QED
    BY <2>3, <2>4
<1>10. CASE i # n
  <2>1. x + 2 <= m - 2
    <3>1. PICK v \in Nat, y \in Nat : EventAt(fs, lines, m, first, n, v, y)
      <4>1. n \in 1..n
        BY <1>2
      <4> QED
        BY <1>1, <4>1, EventLines
    <3>2. v = first[n - 1] /\ m = v + y + 1 /\ (y = 1 \/ y = 2)
      BY <1>2, <3>1 DEF EventAt
    <3>3. i \in 0..n /\ n - 1 \in 0..n /\ i <= n - 1
      BY <1>2, <1>10
    <3>4. first[i] <= first[n - 1]
      BY <1>1, <3>3, FirstGrows
    <3>5. x + 2 <= v
      BY <1>3, <3>2, <3>4
    <3> QED
      BY <3>2, <3>5
  <2>2. u <= b
    <3>1. x + 1 \in 0..m /\ x + 1 <= k
      <4>1. m \in Nat /\ k = m - 2 /\ x + 2 <= m - 2
        BY <1>2, <1>5, <2>1
      <4> QED
        BY <4>1
    <3> QED
      BY <1>4, <1>6, <1>7, <3>1
  <2>3. u <= q /\ u <= r /\ u <= b + w
    BY <1>6, <1>7, <2>2, SMTT(30)
  <2>4. u <= Len(s)
    BY <1>8, <2>3
  <2> QED
    BY <1>3, <1>7, <1>10, <2>4
<1> QED
  BY <1>9, <1>10

\* Wherever the stream stops, its scan ends as after the last blank line.
LEMMA WholeScan ==
    ASSUME NEW fs, NEW st, NEW s, NEW n, NEW lines, NEW m, NEW first, NEW eol, NEW all, NEW off,
           IsStream(fs, st, s, n, lines, m, first, eol, all, off)
    PROVE  Scan(s) = Result(Scans(all)[off[m]])
<1>1. /\ Composed(fs, n, lines, m, first) /\ Laid(all, lines, eol, off, m)
      /\ st \in Stops /\ m >= 2 /\ Prefix(s, all, StopAt(off, lines, m, st))
  BY DEF IsStream
<1>2. m \in Nat /\ n \in Nat \ {0} /\ first[n] = m /\ all \in Seq(Symbols) /\ fs \in [1..n -> Forms]
  BY <1>1 DEF Composed, Laid
<1>3. PICK sc : sc = Scans(all)
  OBVIOUS
<1>4. PICK z : z = StopAt(off, lines, m, st)
  OBVIOUS
<1>5. Scan(s) = ScanEnd(sc[z])
  <2>1. Len(s) = z /\ z \in 0..z
    BY <1>1, <1>4 DEF Prefix
  <2>2. Scans(s)[z] = sc[z]
    BY <1>1, <1>2, <1>3, <1>4, <2>1, ScansPrefix
  <2> QED
    BY <2>1, <2>2 DEF Scan
<1>6. n \in 1..n /\ n - 1 \in 0..n
  BY <1>2
<1>7. PICK acc : acc = sc[off[first[n - 1]]] /\ Fresh(acc)
  BY <1>1, <1>3, <1>6, EventsFresh
<1>8. PICK f \in Forms : f = fs[n]
  BY <1>2, <1>6
<1>9. EventTaken(all, lines, off, f, m, acc)
  <2>1. EventTaken(all, lines, off, fs[n], first[n], Scans(all)[off[first[n - 1]]])
    BY <1>1, <1>3, <1>6, <1>7, EventScanned
  <2> QED
    BY <1>2, <1>3, <1>7, <1>8, <2>1
<1>10. PICK B : B = Taken(acc, f.lines)
  OBVIOUS
<1>11. PICK before \in Accs, l \in Content :
        /\ l = lines[m - 1] /\ before.line = <<>> /\ TakeLine(before, l) = B
        /\ sc[off[m - 2] + Len(l)] = WithLine(before, l) /\ l # <<>>
  BY <1>3, <1>9, <1>10 DEF EventTaken
<1>12. sc[off[m - 1]] = B /\ sc[off[m]] = TakeLine(B, <<>>)
  BY <1>3, <1>7, <1>9, <1>10, FormTaken DEF EventTaken
<1>13. l \in Seq(Symbols) /\ TrimCR(l) = l /\ <<>> \in Seq(Symbols)
  BY ContentShape, TrimCRShape
<1>14. B \in Accs /\ B.line = <<>>
  BY <1>11, <1>13, TakeLineType
<1>15. CASE st = "blank"
  <2>1. z = off[m]
    BY <1>4, <1>15 DEF StopAt
  <2>2. Fresh(sc[off[m]])
    BY <1>3, <1>7, <1>12, <1>10, FormTaken
  <2>3. PICK a \in Accs : a = sc[off[m]] /\ a.line = <<>> /\ a.open = FALSE
    BY <2>2 DEF Fresh
  <2>4. TakeLine(a, <<>>) = a
    BY <2>3 DEF TakeLine, Dispatch
  <2>5. ScanEnd(a) = Result(TakeLine(a, <<>>))
    BY <2>3, ScanEndTakes
  <2> QED
    BY <1>3, <1>5, <2>1, <2>3, <2>4, <2>5
<1>16. CASE st = "line"
  <2>1. z = off[m - 1]
    BY <1>4, <1>16 DEF StopAt
  <2>2. ScanEnd(B) = Result(TakeLine(B, <<>>))
    BY <1>14, ScanEndTakes
  <2> QED
    BY <1>3, <1>5, <1>12, <2>1, <2>2
<1>17. CASE st = "cut"
  <2>1. z = off[m - 2] + Len(l)
    BY <1>4, <1>11, <1>17 DEF StopAt
  <2>2. PICK a \in Accs : a = WithLine(before, l) /\ a.line = l /\ sc[z] = a
    <3>1. WithLine(before, l) \in Accs /\ WithLine(before, l).line = l
      BY <1>13, WithLineFacts
    <3> QED
      BY <1>11, <2>1, <3>1
  <2>3. ScanEnd(a) = Result(TakeLine(TakeLine(a, l), <<>>))
    BY <1>11, <1>13, <2>2, ScanEndTakes
  <2>4. TakeLine(a, l) = WithLine(B, l)
    <3>1. \A x \in Seq(Symbols) : TakeLine(WithLine(before, l), x) = WithLine(TakeLine(before, x), l)
      BY <1>13, WithLineFacts
    <3> QED
      BY <1>11, <1>13, <2>2, <3>1
  <2>5. TakeLine(WithLine(B, l), <<>>) = WithLine(TakeLine(B, <<>>), l)
    <3>1. \A x \in Seq(Symbols) : TakeLine(WithLine(B, l), x) = WithLine(TakeLine(B, x), l)
      BY <1>13, <1>14, WithLineFacts
    <3> QED
      BY <1>13, <3>1
  <2>6. Result(WithLine(TakeLine(B, <<>>), l)) = Result(TakeLine(B, <<>>))
    <3>1. TakeLine(B, <<>>) \in Accs
      BY <1>13, <1>14, TakeLineType
    <3> QED
      BY <3>1 DEF Result, WithLine, Accs
  <2> QED
    BY <1>3, <1>5, <1>12, <2>2, <2>3, <2>4, <2>5, <2>6
<1> QED
  BY <1>1, <1>15, <1>16, <1>17 DEF Stops

\* The payloads of the text pieces tx.
Payload(tx, fs) == [k \in DOMAIN tx |-> fs[tx[k].pos].data]

LEMMA PayloadAppend ==
    ASSUME NEW X, NEW tx \in Seq(X), NEW p \in X, NEW fs
    PROVE  Payload(Append(tx, p), fs) = Append(Payload(tx, fs), fs[p.pos].data)
<1>1. PICK n \in Nat : n = Len(tx)
  OBVIOUS
<1>2. PICK u : u = Append(tx, p)
  OBVIOUS
<1>3. DOMAIN tx = 1..n /\ DOMAIN u = 1..(n + 1) /\ u[n + 1] = p /\ \A k \in 1..n : u[k] = tx[k]
  BY <1>1, <1>2
<1>4. PICK a : a = Payload(tx, fs)
  OBVIOUS
<1>5. a = [k \in 1..n |-> fs[tx[k].pos].data]
  BY <1>3, <1>4 DEF Payload
<1>6. PICK Y : Y = {fs[tx[k].pos].data : k \in 1..n} \cup {fs[p.pos].data}
  OBVIOUS
<1>7. a \in [1..n -> Y]
  BY <1>5, <1>6
<1>8. a \in Seq(Y) /\ Len(a) = n /\ fs[p.pos].data \in Y
  BY <1>6, <1>7
<1>9. PICK d \in Y : d = fs[p.pos].data
  BY <1>8
<1>10. Append(a, d) = [k \in 1..(n + 1) |-> IF k = n + 1 THEN d ELSE a[k]]
  BY <1>8, <1>9
<1>11. Payload(u, fs) = [k \in 1..(n + 1) |-> fs[u[k].pos].data]
  BY <1>3 DEF Payload
<1>12. ASSUME NEW k \in 1..(n + 1) PROVE fs[u[k].pos].data = IF k = n + 1 THEN d ELSE a[k]
  <2>1. CASE k = n + 1
    BY <1>3, <1>9, <2>1
  <2>2. CASE k # n + 1
    <3>1. k \in 1..n
      BY <2>2
    <3> QED
      BY <1>3, <1>5, <2>2, <3>1
  <2> QED
    BY <2>1, <2>2
<1> QED
  BY <1>2, <1>4, <1>9, <1>10, <1>11, <1>12

\* The pieces before the sentinel.
LEMMA ScannedPieces ==
    ASSUME NEW X, NEW s \in Seq(X)
    PROVE  \E c \in 0..Len(s) :
             /\ Cardinality(Scanned(s)) = c /\ (HasSentinel(s) <=> c < Len(s))
             /\ \A k \in 1..c : ~IsSentinel(s[k])
             /\ c < Len(s) => IsSentinel(s[c + 1])
<1>1. PICK n \in Nat : n = Len(s) /\ DOMAIN s = 1..n
  OBVIOUS
<1>2. ASSUME NEW c \in 0..n, \A k \in 1..c : ~IsSentinel(s[k]), c < n => IsSentinel(s[c + 1])
      PROVE  Cardinality(Scanned(s)) = c /\ (HasSentinel(s) <=> c < n)
  <2>1. c \in Nat /\ c <= n
    BY <1>1
  <2>2. ASSUME NEW i \in 1..n PROVE (\A k \in 1..i : ~IsSentinel(s[k])) <=> i \in 1..c
    <3>1. CASE i <= c
      <4>1. i \in 1..c /\ \A k \in 1..i : k \in 1..c
        BY <2>1, <3>1
      <4> QED
        BY <1>2, <4>1
    <3>2. CASE ~(i <= c)
      <4>1. c + 1 \in 1..i /\ c < n /\ i \notin 1..c
        BY <1>1, <2>1, <3>2
      <4> QED
        BY <1>2, <4>1
    <3> QED
      BY <3>1, <3>2
  <2>3. Scanned(s) = 1..c
    <3>1. \A i \in 1..c : i \in 1..n
      BY <1>1, <2>1
    <3> QED
      BY <1>1, <2>2, <3>1 DEF Scanned
  <2>4. Cardinality(1..c) = c
    <3>1. 1 \in Int /\ c \in Int
      BY <2>1
    <3>2. Cardinality(1..c) = IF 1 > c THEN 0 ELSE c - 1 + 1
      BY <3>1, FS_Interval
    <3> QED
      BY <2>1, <3>2
  <2>5. HasSentinel(s) <=> c < n
    <3>1. ASSUME c < n PROVE HasSentinel(s)
      <4>1. c + 1 \in 1..n
        BY <1>1, <2>1, <3>1
      <4> QED
        BY <1>1, <1>2, <3>1, <4>1 DEF HasSentinel
    <3>2. ASSUME ~(c < n) PROVE ~HasSentinel(s)
      <4>1. \A k \in 1..n : k \in 1..c
        BY <1>1, <2>1, <3>2
      <4> QED
        BY <1>1, <1>2, <4>1 DEF HasSentinel
    <3> QED
      BY <3>1, <3>2
  <2> QED
    BY <2>3, <2>4, <2>5
<1>3. \E c \in 0..n : (\A k \in 1..c : ~IsSentinel(s[k])) /\ (c < n => IsSentinel(s[c + 1]))
  <2> DEFINE T == {i \in 1..n : IsSentinel(s[i])}
  <2>1. CASE T = {}
    <3>1. n \in 0..n /\ ~(n < n)
      BY <1>1
    <3> QED
      BY <2>1, <3>1
  <2>2. CASE T # {}
    <3>1. T \subseteq Nat
      OBVIOUS
    <3>2. PICK i \in T : \A j \in T : i <= j
      BY <2>2, <3>1, LeastMember
    <3>3. i \in 1..n /\ IsSentinel(s[i])
      OBVIOUS
    <3>4. i - 1 \in 0..n /\ (i - 1) + 1 = i /\ \A k \in 1..(i - 1) : k \in 1..n /\ ~(i <= k)
      BY <1>1, <3>3
    <3>5. \A k \in 1..(i - 1) : ~IsSentinel(s[k])
      BY <3>2, <3>4
    <3> QED
      BY <3>3, <3>4, <3>5
  <2> QED
    BY <2>1, <2>2
<1> QED
  BY <1>1, <1>2, <1>3

\* S is the scan after each event of fs, text what is accumulated of the
\* first c pieces, which the sentinel follows.
Gathers(n, fs, S, X, pieces, c, text) ==
    /\ n \in Nat /\ c \in 0..n /\ pieces \in Seq(X) /\ Len(pieces) = n
    /\ text \in [0..c -> Seq(X)] /\ Accumulates(text, SubSeq(pieces, 1, c))
    /\ S[0] = NoneScanned /\ \A i \in 0..n : S[i] \in Accs
    /\ \A i \in 1..n : S[i] = After(S[i - 1], fs[i])
    /\ \A i \in 1..n : pieces[i].pos = i /\ (IsText(pieces[i]) <=> fs[i].kind = "text")
                        /\ (IsSentinel(pieces[i]) <=> fs[i].kind \in {"done", "bare"})
    /\ \A k \in 1..c : ~IsSentinel(pieces[k])
    /\ c < n => IsSentinel(pieces[c + 1])

\* The events that the callback gets, one after the other.
LEMMA EventsGathered ==
    ASSUME NEW n, NEW fs, NEW S, NEW X, NEW pieces, NEW c, NEW text, Gathers(n, fs, S, X, pieces, c, text)
    PROVE  Result(S[n]) = [events |-> Payload(text[c], fs), done |-> c < n]
<1> /\ n \in Nat /\ c \in 0..n /\ pieces \in Seq(X) /\ Len(pieces) = n
    /\ text \in [0..c -> Seq(X)] /\ Accumulates(text, SubSeq(pieces, 1, c))
  BY DEF Gathers
<1> /\ S[0] = NoneScanned /\ \A i \in 0..n : S[i] \in Accs
    /\ \A i \in 1..n : S[i] = After(S[i - 1], fs[i])
  BY DEF Gathers
<1> /\ \A i \in 1..n : pieces[i].pos = i /\ (IsText(pieces[i]) <=> fs[i].kind = "text")
                        /\ (IsSentinel(pieces[i]) <=> fs[i].kind \in {"done", "bare"})
    /\ \A k \in 1..c : ~IsSentinel(pieces[k])
    /\ c < n => IsSentinel(pieces[c + 1])
  BY DEF Gathers
<1>1. c \in Nat /\ c <= n
  OBVIOUS
<1>2. PICK t : t = SubSeq(pieces, 1, c)
  OBVIOUS
<1>3. Len(t) = c /\ \A k \in 1..c : t[k] = pieces[k] /\ pieces[k] \in X
  <2>1. 1 \in 1..(Len(pieces) + 1) /\ c \in 0..Len(pieces) /\ 1 <= c + 1 /\ c - 1 + 1 = c
    BY <1>1
  <2>2. Len(t) = c /\ \A k \in 1..c : t[k] = pieces[1 + k - 1]
    BY <1>2, <2>1, PartOf
  <2>3. \A k \in 1..c : 1 + k - 1 = k /\ k \in 1..n
    BY <1>1
  <2>4. \A k \in 1..n : pieces[k] \in X
    OBVIOUS
  <2> QED
    BY <2>2, <2>3, <2>4
<1>4. /\ text[0] = <<>>
      /\ \A k \in 1..c : text[k] = IF IsText(pieces[k]) THEN Append(text[k - 1], pieces[k]) ELSE text[k - 1]
  BY <1>2, <1>3 DEF Accumulates
<1> DEFINE Good(i) == IF i <= c THEN ~S[i].done /\ S[i].events = Payload(text[i], fs)
                                ELSE S[i].done /\ S[i].events = Payload(text[c], fs)
           T == {i \in 0..n : ~Good(i)}
<1>5. T \subseteq Nat
  OBVIOUS
<1>6. ASSUME NEW i \in T, \A j \in T : i <= j PROVE FALSE
  <2>1. i \in 0..n /\ ~Good(i)
    OBVIOUS
  <2>2. i # 0
    <3>1. Payload(<<>>, fs) = <<>>
      BY DEF Payload
    <3>2. 0 <= c /\ ~S[0].done /\ S[0].events = <<>>
      BY <1>1 DEF NoneScanned
    <3>3. Good(0)
      BY <1>4, <3>1, <3>2
    <3> QED
      BY <2>1, <3>3
  <2>3. i \in 1..n /\ i - 1 \in 0..n /\ ~(i <= i - 1)
    BY <2>1, <2>2
  <2>4. Good(i - 1)
    BY <1>6, <2>3
  <2> HIDE DEF T
  <2>5. PICK a \in Accs : a = S[i - 1] /\ S[i] = After(a, fs[i])
    BY <2>3
  <2>6. CASE i <= c
    <3>1. i \in 1..c /\ i - 1 <= c /\ i - 1 \in 0..c
      BY <1>1, <2>3, <2>6
    <3>2. ~a.done /\ a.events = Payload(text[i - 1], fs)
      BY <2>4, <2>5, <3>1
    <3>3. fs[i].kind \notin {"done", "bare"}
      BY <2>3, <3>1
    <3>4. CASE fs[i].kind = "text"
      <4>1. S[i] = [a EXCEPT !.events = Append(@, fs[i].data)]
        BY <2>5, <3>2, <3>4 DEF After
      <4>2. ~S[i].done /\ S[i].events = Append(a.events, fs[i].data)
        BY <3>2, <4>1 DEF Accs
      <4>3. text[i] = Append(text[i - 1], pieces[i]) /\ pieces[i].pos = i /\ pieces[i] \in X
        BY <1>3, <1>4, <2>3, <3>1, <3>4
      <4>4. text[i - 1] \in Seq(X)
        BY <3>1
      <4>5. Payload(text[i], fs) = Append(Payload(text[i - 1], fs), fs[i].data)
        <5>1. PICK p \in X, tx \in Seq(X) : p = pieces[i] /\ tx = text[i - 1] /\ p.pos = i
          BY <4>3, <4>4
        <5>2. Payload(Append(tx, p), fs) = Append(Payload(tx, fs), fs[p.pos].data)
          BY PayloadAppend
        <5> QED
          BY <4>3, <5>1, <5>2
      <4>6. Good(i)
        BY <2>6, <3>2, <4>2, <4>5
      <4> QED
        BY <2>1, <4>6
    <3>5. CASE fs[i].kind # "text"
      <4>1. S[i] = a
        BY <2>5, <3>2, <3>3, <3>5 DEF After
      <4>2. text[i] = text[i - 1]
        BY <1>4, <2>3, <3>1, <3>5
      <4>3. Good(i)
        BY <2>6, <3>2, <4>1, <4>2
      <4> QED
        BY <2>1, <4>3
    <3> QED
      BY <3>4, <3>5
  <2>7. CASE i = c + 1
    <3>1. i - 1 = c /\ ~(i <= c) /\ c < n
      BY <1>1, <2>3, <2>7
    <3>2. ~a.done /\ a.events = Payload(text[c], fs)
      BY <2>4, <2>5, <3>1
    <3>3. fs[i].kind \in {"done", "bare"}
      BY <2>3, <2>7, <3>1
    <3>4. S[i] = [a EXCEPT !.done = TRUE]
      BY <2>5, <3>2, <3>3 DEF After
    <3>5. S[i].done /\ S[i].events = a.events
      BY <3>4 DEF Accs
    <3>6. Good(i)
      BY <3>1, <3>2, <3>5
    <3> QED
      BY <2>1, <3>6
  <2>8. CASE i > c + 1
    <3>1. ~(i - 1 <= c) /\ ~(i <= c)
      BY <1>1, <2>3, <2>8
    <3>2. a.done /\ a.events = Payload(text[c], fs)
      BY <2>4, <2>5, <3>1
    <3>3. S[i] = a
      BY <2>5, <3>2 DEF After
    <3>4. Good(i)
      BY <3>1, <3>2, <3>3
    <3> QED
      BY <2>1, <3>4
  <2>9. i <= c \/ i = c + 1 \/ i > c + 1
    BY <1>1, <2>3
  <2> QED
    BY <2>6, <2>7, <2>8, <2>9
<1>7. T = {}
  BY <1>5, <1>6, LeastMember
<1>8. Good(n)
  <2>1. n \in 0..n
    OBVIOUS
  <2>2. \A i \in 0..n : Good(i)
    <3> HIDE DEF Good
    <3> QED
      BY <1>7
  <2> HIDE DEF Good
  <2> QED
    BY <2>1, <2>2
<1>9. S[n].done \in BOOLEAN
  <2>1. S[n] \in Accs
    OBVIOUS
  <2> QED
    BY <2>1 DEF Accs
<1>10. CASE n <= c
  <2>1. n = c /\ (c < n) = FALSE
    BY <1>1, <1>10
  <2>2. S[n].done = FALSE /\ S[n].events = Payload(text[c], fs)
    BY <1>8, <1>9, <1>10, <2>1
  <2> QED
    BY <2>1, <2>2 DEF Result
<1>11. CASE ~(n <= c)
  <2>1. (c < n) = TRUE
    BY <1>1, <1>11
  <2>2. S[n].done = TRUE /\ S[n].events = Payload(text[c], fs)
    BY <1>8, <1>9, <1>11
  <2> QED
    BY <2>1, <2>2 DEF Result
<1> QED
  BY <1>10, <1>11

\* The last piece of a stream that stops in a line.
LEMMA PieceKinds ==
    ASSUME NEW kind, NEW st
    PROVE  /\ LastKind(kind, st) \in {"done", "padded"} <=> kind \in {"done", "padded"} /\ st # "cut"
           /\ LastKind(kind, st) \in {"done", "bare"} <=> kind \in {"done", "bare"}
           /\ LastKind(kind, st) = "text" <=> kind = "text"
<1>1. LastKind(kind, st) = IF st = "cut" /\ kind = "done" THEN "bare"
                           ELSE IF st = "cut" /\ kind = "padded" THEN "ping" ELSE kind
  BY DEF LastKind
<1> QED
  BY <1>1

\* Bytes and pieces tell the two scanners the same.
LEMMA BytesFaithful ==
    ASSUME Streamed, Watched
    PROVE  PiecesFaithful
<1>1. PICK n, lines, m, first, eol, all, off : IsStream(forms, stop, stream, n, lines, m, first, eol, all, off)
  BY DEF Streamed
<1>2. PICK z : Prefix(stream, all, z) /\ Composed(forms, n, lines, m, first) /\ Laid(all, lines, eol, off, m)
  BY <1>1 DEF IsStream
<1>3. /\ n \in Nat \ {0} /\ n \in Nat /\ forms \in [1..n -> Forms] /\ first \in [0..n -> Nat] /\ first[0] = 0 /\ first[n] = m
      /\ all \in Seq(Symbols) /\ off[0] = 0
  BY <1>2 DEF Composed, Laid
<1>4. PICK pieces : pieces = StreamPieces(forms, stop)
  OBVIOUS
<1>5. pieces = [i \in 1..n |-> [kind |-> IF i = n THEN LastKind(forms[i].kind, stop) ELSE forms[i].kind, pos |-> i]]
  <2>1. Len(forms) = n
    BY <1>3
  <2> QED
    BY <1>4, <2>1 DEF StreamPieces
<1>6. PICK X : X = {pieces[i] : i \in 1..n}
  OBVIOUS
<1>7. pieces \in Seq(X) /\ Len(pieces) = n /\ DOMAIN pieces = 1..n
  <2>1. pieces \in [1..n -> X]
    BY <1>5, <1>6
  <2> QED
    BY <1>3, <2>1
<1>8. ASSUME NEW i \in 1..n
      PROVE  /\ pieces[i].pos = i /\ (IsText(pieces[i]) <=> forms[i].kind = "text")
             /\ (IsSentinel(pieces[i]) <=> forms[i].kind \in {"done", "bare"})
             /\ (IsDoneLine(pieces[i]) <=> forms[i].kind \in {"done", "padded"} /\ ~(i = n /\ stop = "cut"))
  <2>1. pieces[i].pos = i /\ pieces[i].kind = IF i = n THEN LastKind(forms[i].kind, stop) ELSE forms[i].kind
    BY <1>5
  <2>2. CASE i = n
    BY <2>1, <2>2, PieceKinds DEF IsText, IsSentinel, IsDoneLine
  <2>3. CASE i # n
    BY <2>1, <2>3 DEF IsText, IsSentinel, IsDoneLine
  <2> QED
    BY <2>2, <2>3
<1>9. PICK c \in 0..n :
             /\ Cardinality(Scanned(pieces)) = c /\ (HasSentinel(pieces) <=> c < n)
             /\ \A k \in 1..c : ~IsSentinel(pieces[k])
             /\ c < n => IsSentinel(pieces[c + 1])
  BY <1>7, ScannedPieces
<1>10. PICK t : t = SubSeq(pieces, 1, c) /\ t \in Seq(X) /\ Len(t) = c
  <2>1. 1 \in 1..(Len(pieces) + 1) /\ c \in 0..Len(pieces) /\ 1 <= c + 1 /\ c - 1 + 1 = c
    BY <1>3, <1>7
  <2>2. SubSeq(pieces, 1, c) \in Seq(X) /\ Len(SubSeq(pieces, 1, c)) = c
    BY <1>7, <2>1, PartOf
  <2> QED
    BY <2>2
<1>11. PICK text \in [0..c -> Seq(X)] : Accumulates(text, t) /\ Accumulated(t) = text[c]
  BY <1>10, AccumulatedText
<1>12. TextOf(pieces) = text[c]
  BY <1>9, <1>10, <1>11 DEF TextOf
<1>13. PICK S : S = [i \in 0..n |-> Scans(all)[off[first[i]]]]
  OBVIOUS
<1>14. ASSUME NEW i \in 0..n PROVE S[i] \in Accs /\ Fresh(S[i]) /\ S[i] = Scans(all)[off[first[i]]]
  <2>1. Fresh(Scans(all)[off[first[i]]])
    BY <1>2, EventsFresh
  <2> QED
    BY <1>13, <2>1 DEF Fresh
<1>15. ASSUME NEW i \in 1..n PROVE S[i] = After(S[i - 1], forms[i])
  <2>1. i - 1 \in 0..n /\ i \in 0..n
    BY <1>3
  <2>2. Fresh(Scans(all)[off[first[i - 1]]]) /\ S[i - 1] = Scans(all)[off[first[i - 1]]]
    BY <1>14, <2>1
  <2>3. EventTaken(all, lines, off, forms[i], first[i], Scans(all)[off[first[i - 1]]])
    BY <1>2, <2>2, EventScanned
  <2>4. Scans(all)[off[first[i]]] = After(Scans(all)[off[first[i - 1]]], forms[i])
    BY <2>3 DEF EventTaken
  <2> QED
    BY <1>14, <2>1, <2>2, <2>4
<1>16. S[0] = NoneScanned
  <2>1. 0 \in 0..n
    BY <1>3
  <2> QED
    BY <1>3, <1>14, <2>1, ScansUnfold
<1>17. Result(S[n]) = [events |-> Payload(text[c], forms), done |-> c < n]
  <2>1. \A i \in 0..n : S[i] \in Accs
    BY <1>14
  <2>2. \A i \in 1..n : S[i] = After(S[i - 1], forms[i])
    BY <1>15
  <2>3. \A i \in 1..n : pieces[i].pos = i /\ (IsText(pieces[i]) <=> forms[i].kind = "text")
                             /\ (IsSentinel(pieces[i]) <=> forms[i].kind \in {"done", "bare"})
    BY <1>8
  <2> QED
    <3>1. Gathers(n, forms, S, X, pieces, c, text)
      BY <1>3, <1>7, <1>9, <1>10, <1>11, <1>16, <2>1, <2>2, <2>3 DEF Gathers
    <3> QED
      BY <3>1, EventsGathered
<1>18. Scan(stream) = [events |-> Payload(TextOf(pieces), forms), done |-> HasSentinel(pieces)]
  <2>1. Scan(stream) = Result(Scans(all)[off[m]])
    BY <1>1, WholeScan
  <2>2. n \in 0..n
    BY <1>3
  <2>3. S[n] = Scans(all)[off[m]]
    BY <1>3, <1>14, <2>2
  <2>4. HasSentinel(pieces) = (c < n)
    <3>1. HasSentinel(pieces) \in BOOLEAN
      BY DEF HasSentinel
    <3>2. (c < n) \in BOOLEAN
      OBVIOUS
    <3> QED
      BY <1>9, <3>1, <3>2, Zenon
  <2> QED
    BY <1>12, <1>17, <2>1, <2>3, <2>4
<1>19. ASSUME at = Len(stream) PROVE sawDone <=> HasDoneLine(pieces)
  <2>1. Len(stream) = z /\ z \in Nat /\ z \in 0..z
    BY <1>2 DEF Prefix
  <2>2. sawDone <=> ~NoDone(stream, z)
    <3>1. ASSUME ~sawDone PROVE NoDone(stream, z)
      BY <1>19, <2>1, <3>1 DEF Watched
    <3>2. ASSUME sawDone PROVE ~NoDone(stream, z)
      <4>1. PICK e \in 0..z : ~NoDone(stream, e)
        BY <1>19, <2>1, <3>2 DEF Watched
      <4>2. \A i \in 1..e : i \in 1..z
        BY <2>1
      <4> QED
        BY <4>1, <4>2 DEF NoDone
    <3> QED
      BY <3>1, <3>2
  <2>3. ~NoDone(stream, z) <=> \E i \in 1..n : forms[i].kind \in {"done", "padded"} /\ off[first[i - 1] + 1] <= z
    BY <1>2, <2>1, DoneRead
  <2>4. \A i \in 1..n : forms[i].kind \in {"done", "padded"} => (off[first[i - 1] + 1] <= z <=> ~(i = n /\ stop = "cut"))
    BY <1>1, <2>1, DoneLineRead
  <2>5. HasDoneLine(pieces) <=> \E i \in 1..n : forms[i].kind \in {"done", "padded"} /\ ~(i = n /\ stop = "cut")
    BY <1>7, <1>8 DEF HasDoneLine
  <2> QED
    BY <2>2, <2>3, <2>4, <2>5
<1>20. Payload(TextOf(pieces), forms) = [i \in DOMAIN TextOf(pieces) |-> forms[TextOf(pieces)[i].pos].data]
  BY DEF Payload
<1> QED
  BY <1>4, <1>18, <1>19, <1>20 DEF PiecesFaithful

LEMMA StreamedStep ==
    ASSUME Streamed, [ScannerNext]_scannerVars
    PROVE  Streamed'
<1>1. UNCHANGED <<forms, stop, stream>>
  BY DEF ScannerNext, WriteBytes, scannerVars
<1> QED
  BY <1>1 DEF Streamed

-----------------------------------------------------------------------------

\* The bytes are those of the events, and watchDone has its invariant.
LEMMA ScannerInvariant == ScannerSpec => [](Streamed /\ Watched)
<1>1. ScannerInit => Streamed /\ Watched
  BY StreamedInit, WatchedInit
<1>2. Streamed /\ Watched /\ [ScannerNext]_scannerVars => (Streamed /\ Watched)'
  BY StreamedStep, WatchedStep
<1> QED
  BY <1>1, <1>2, PTL DEF ScannerSpec

(***************************************************************************)
(* However the bytes of the response are cut into Reads, watchDone of the  *)
(* collector has fired just when a terminated line of what was read is the *)
(* sentinel.                                                               *)
(***************************************************************************)
THEOREM WatchDoneExact == ScannerSpec => []WatchExact
  BY ScannerInvariant, WatchedExact, PTL

(***************************************************************************)
(* Write may ignore what follows the sentinel: AssistantFromSSE finds the  *)
(* same in the collected bytes as in the whole stream.                     *)
(***************************************************************************)
THEOREM SealedPayloadComplete == ScannerSpec => []SealLosesNothing
  BY ScannerInvariant, SealedFaithful, PTL

(***************************************************************************)
(* A sequence of pieces is a faithful view of the bytes of a response: on  *)
(* the bytes watchDone and sse.Scan find what the operators of             *)
(* ResponseStream, on which the collector and the gateway are modelled,    *)
(* find on the pieces.                                                     *)
(***************************************************************************)
THEOREM BytesAsPieces == ScannerSpec => []PiecesFaithful
  BY ScannerInvariant, BytesFaithful, PTL
=============================================================================

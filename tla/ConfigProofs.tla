---------------------------- MODULE ConfigProofs ----------------------------
(***************************************************************************)
(* Config, proved for integers of any width, any units and any numbers a   *)
(* file may hold.                                                          *)
(***************************************************************************)
EXTENDS Config, TLAPS

-----------------------------------------------------------------------------
(* Arithmetic.                                                             *)

\* Two's complement leaves an integer that fits alone: the only place where
\* the parser and ReadBeyondLimit could go wrong is outside the range.
LEMMA WrapFits ==
    ASSUME NEW n \in Int, Fits(n)
    PROVE  Wrap(n) = n
<1>1. PICK w \in Int : w = MaxInt + 1
  BY MaxIntAssumption
<1>2. w > 0 /\ MinInt = -w
  BY <1>1, MaxIntAssumption DEF MinInt
<1>3. n + w \in 0..(2 * w - 1)
  BY <1>1, <1>2, MaxIntAssumption DEF Fits
<1>4. PICK k \in Nat : k = n + w
  BY <1>1, <1>3
<1>5. PICK d \in Nat : d = 2 * w
  BY <1>1, <1>2
<1>6. d > 0 /\ k < d
  BY <1>3, <1>4, <1>5
<1>7. k % d = k
  BY <1>6
<1>8. n + MaxInt + 1 = k /\ 2 * (MaxInt + 1) = d
  BY <1>1, <1>4, <1>5, MaxIntAssumption
<1>9. Wrap(n) = k - MaxInt - 1
  BY <1>7, <1>8 DEF Wrap
<1> QED
  BY <1>1, <1>4, <1>9, MaxIntAssumption

-----------------------------------------------------------------------------
(* The inductive invariant.  What a run checks of a serving gateway is     *)
(* not inductive: it has to remember that cfg was read from this file on   *)
(* this machine and passed Validate, and that the last request was read    *)
(* under this cfg, which no later Load replaces.                           *)

\* What the file may say, with the numbers in it.
FileOK ==
    /\ \A f \in Fields : file.settings[f] \in Values
    /\ machine \in {MinInt, MaxInt}

\* cfg holds a value the parser produced, and each is positive.
CfgParsed ==
    state = "serving" => \A f \in Fields : cfg[f] \in Parsed(f) /\ cfg[f] > 0

\* The last request was admitted or refused under the cfg that is in force.
LastRead ==
    last.answer # "none" =>
        /\ state = "serving"
        /\ last.length \in Nat
        /\ last.read = ReadBeyondLimit(last.length, cfg["max_request_body"])
        /\ last.answer = IF last.read > cfg["max_request_body"] THEN "413" ELSE "forwarded"

Configured == FileOK /\ CfgParsed /\ LastRead

-----------------------------------------------------------------------------
(* The shape of what a file may say.                                       *)

LEMMA ValueForms ==
    ASSUME NEW v \in Values
    PROVE  /\ v.form \in {"absent", "null", "bad", "int", "hex", "size", "time"}
           /\ v.form \in {"int", "hex"} => v.n \in Int
           /\ v.form = "size" => v.halves \in Nat /\ v.unit \in DOMAIN Unit
           /\ v.form = "time" => v.halves \in Int /\ v.unit \in DOMAIN TimeUnit
<1>1. CASE v \in {NoValue, [form |-> "null"], [form |-> "bad"]}
  BY <1>1 DEF NoValue
<1>2. CASE v \in [form : {"int", "hex"}, n : Numbers]
  BY <1>2, InputAssumption
<1>3. CASE v \in [form : {"size"}, halves : Numbers \cap Nat, unit : DOMAIN Unit]
  BY <1>3
<1>4. CASE v \in [form : {"time"}, halves : Numbers, unit : DOMAIN TimeUnit]
  BY <1>4, InputAssumption
<1> QED
  BY <1>1, <1>2, <1>3, <1>4 DEF Values

LEMMA SettingsValues ==
    ASSUME NEW s \in Settings, NEW f \in Fields
    PROVE  s[f] \in Values
<1>1. PICK g \in Fields, v \in Values, w \in {NoValue} \cup [form : {"int"}, n : Numbers] :
        s = [h \in Fields |-> IF h = g THEN v
                              ELSE IF h = "max_request_body" THEN w ELSE NoValue]
  BY DEF Settings
<1>2. s[f] \in {v, w, NoValue}
  BY <1>1
<1>3. NoValue \in Values
  BY DEF Values
<1>4. w \in Values
  <2>1. CASE w = NoValue
    BY <2>1, <1>3
  <2>2. CASE w \in [form : {"int"}, n : Numbers]
    <3>1. w \in [form : {"int", "hex"}, n : Numbers]
      BY <2>2
    <3> QED
      BY <3>1 DEF Values
  <2> QED
    BY <2>1, <2>2
<1> QED
  BY <1>2, <1>3, <1>4

-----------------------------------------------------------------------------
(* What the parser returns, field by field, for a value that was accepted. *)

\* Durations: exact, or plain seconds whose product is out of range.
LEMMA DurationExact ==
    ASSUME FileOK, NEW f \in Durations, NEW c \in Parsed(f)
    PROVE  \/ c = Meaning(f)
           \/ ~Fits(Meaning(f)) /\ file.settings[f].form = "int"
<1>1. PICK v : v = file.settings[f]
  OBVIOUS
<1>2. v \in Values /\ f \in Fields /\ f \notin Sizes
  BY <1>1 DEF FileOK, Fields, Durations, Sizes
<1>3. CASE v.form \in {"absent", "null"}
  <2>1. Parsed(f) = {Default[f]}
    BY <1>1, <1>3 DEF Parsed, Parse
  <2>2. Meaning(f) = Default[f]
    BY <1>1, <1>3 DEF Meaning
  <2> QED
    BY <2>1, <2>2
<1>4. CASE v.form \notin {"absent", "null"}
  <2>1. Parsed(f) = ParseDuration(v)
    BY <1>1, <1>2, <1>4 DEF Parsed, Parse
  <2>2. CASE v.form = "int"
    <3>1. v.n \in Int
      BY <1>2, <2>2, ValueForms
    <3>2. Meaning(f) = v.n * Second
      BY <1>1, <2>2 DEF Meaning
    <3>3. v.n * Second \in Int
      BY <3>1, SecondAssumption
    <3>4. c = Wrap(v.n * Second)
      BY <2>1, <2>2 DEF ParseDuration
    <3> QED
      BY <1>1, <2>2, <3>2, <3>3, <3>4, WrapFits
  <2>3. CASE v.form = "time"
    <3>1. Meaning(f) = (v.halves * TimeUnit[v.unit]) \div 2
      BY <1>1, <2>3 DEF Meaning
    <3>2. c = (v.halves * TimeUnit[v.unit]) \div 2
      BY <2>1, <2>3 DEF ParseDuration
    <3> QED
      BY <3>1, <3>2
  <2>4. CASE v.form \notin {"int", "time"}
    BY <2>1, <2>4 DEF ParseDuration
  <2> QED
    BY <2>2, <2>3, <2>4
<1> QED
  BY <1>3, <1>4

\* Sizes: exact, or a float out of range, which the machine decides; and
\* in any case an integer of the machine.
LEMMA SizeExact ==
    ASSUME FileOK, NEW f \in Sizes, NEW c \in Parsed(f)
    PROVE  /\ \/ c = Meaning(f)
              \/ Meaning(f) > MaxInt /\ c = machine
           /\ c \in Int /\ c <= MaxInt
<1>1. PICK v : v = file.settings[f]
  OBVIOUS
<1>2. v \in Values /\ f \in Fields /\ f \notin Durations
  BY <1>1 DEF FileOK, Fields, Durations, Sizes
<1>machine. machine \in Int /\ machine <= MaxInt
  BY MaxIntAssumption DEF FileOK, MinInt
<1>3. CASE v.form \in {"absent", "null"}
  <2>1. Parsed(f) = {Default[f]}
    BY <1>1, <1>3 DEF Parsed, Parse
  <2>2. Meaning(f) = Default[f]
    BY <1>1, <1>3 DEF Meaning
  <2>3. Default[f] = 2
    BY <1>2 DEF Default, Sizes, Counts, Durations
  <2> QED
    BY <2>1, <2>2, <2>3, MaxIntAssumption
<1>4. CASE v.form \notin {"absent", "null"}
  <2>1. Parsed(f) = ParseSize(v, machine)
    BY <1>1, <1>2, <1>4 DEF Parsed, Parse
  <2>2. CASE v.form = "int"
    <3>1. v.n \in Int
      BY <1>2, <2>2, ValueForms
    <3>2. Meaning(f) = v.n
      BY <1>1, <1>2, <2>2 DEF Meaning
    <3>3. CASE Fits(v.n)
      <4>1. ~IsFloat(v.n)
        BY <3>1, <3>3, MaxIntAssumption DEF Fits, IsFloat, MinInt
      <4> QED
        BY <2>1, <2>2, <3>1, <3>2, <3>3, <4>1, MaxIntAssumption DEF ParseSize, Fits
    <3>4. CASE ~Fits(v.n) /\ IsFloat(v.n)
      <4>1. c = FloatToInt(v.n, machine)
        BY <2>1, <2>2, <3>4 DEF ParseSize
      <4>2. v.n > MaxInt
        BY <3>1, <3>4, MaxIntAssumption DEF IsFloat
      <4> QED
        BY <1>machine, <3>1, <3>2, <4>1, <4>2, MaxIntAssumption DEF FloatToInt
    <3>5. CASE ~Fits(v.n) /\ ~IsFloat(v.n)
      BY <2>1, <2>2, <3>5 DEF ParseSize
    <3> QED
      BY <3>3, <3>4, <3>5
  <2>3. CASE v.form = "size"
    <3>1. PICK m : m = (v.halves * Unit[v.unit]) \div 2
      OBVIOUS
    <3>2. m \in Int
      <4>1. v.halves \in Nat /\ Unit[v.unit] \in Nat
        BY <1>2, <2>3, ValueForms, UnitAssumption
      <4>2. v.halves * Unit[v.unit] \in Int
        BY <4>1
      <4> QED
        BY <3>1, <4>2
    <3>3. Meaning(f) = m
      BY <1>1, <2>3, <3>1 DEF Meaning
    <3>4. c = FloatToInt(m, machine)
      BY <2>1, <2>3, <3>1 DEF ParseSize
    <3> QED
      BY <1>machine, <3>2, <3>3, <3>4, MaxIntAssumption DEF FloatToInt
  <2>4. CASE v.form \notin {"int", "size"}
    BY <2>1, <2>4 DEF ParseSize
  <2> QED
    BY <2>2, <2>3, <2>4
<1> QED
  BY <1>3, <1>4

\* Counts are exact.
LEMMA CountExact ==
    ASSUME FileOK, NEW f \in Counts, NEW c \in Parsed(f)
    PROVE  c = Meaning(f)
<1>1. PICK v : v = file.settings[f]
  OBVIOUS
<1>2. f \notin Durations /\ f \notin Sizes
  BY DEF Counts, Durations, Sizes
<1>3. CASE v.form \in {"absent", "null"}
  <2>1. Parsed(f) = {Default[f]}
    BY <1>1, <1>3 DEF Parsed, Parse
  <2>2. Meaning(f) = Default[f]
    BY <1>1, <1>3 DEF Meaning
  <2> QED
    BY <2>1, <2>2
<1>4. CASE v.form \notin {"absent", "null"}
  <2>1. Parsed(f) = ParseCount(v)
    BY <1>1, <1>2, <1>4 DEF Parsed, Parse
  <2>2. v.form \in {"int", "hex"} /\ c = v.n
    BY <2>1 DEF ParseCount
  <2>3. Meaning(f) = v.n
    BY <1>1, <1>2, <2>2 DEF Meaning
  <2> QED
    BY <2>2, <2>3
<1> QED
  BY <1>3, <1>4

-----------------------------------------------------------------------------
(* The invariant is inductive.                                             *)

LEMMA ConfigInitially == ConfigInit => Configured
<1> SUFFICES ASSUME ConfigInit PROVE Configured
  OBVIOUS
<1>1. file.settings \in Settings
  BY DEF ConfigInit
<1>2. FileOK
  BY <1>1, SettingsValues DEF ConfigInit, FileOK
<1>3. CfgParsed
  BY DEF ConfigInit, CfgParsed
<1>4. LastRead
  BY DEF ConfigInit, NoRequest, LastRead
<1> QED
  BY <1>2, <1>3, <1>4 DEF Configured

\* Load is the only step that sets cfg, and it comes before every request.
LEMMA LoadConfigures ==
    ASSUME Configured, Load
    PROVE  Configured'
<1>1. UNCHANGED <<file, machine, last>> /\ state = "start"
  BY DEF Load
<1>2. FileOK'
  BY <1>1 DEF Configured, FileOK
<1>3. LastRead'
  <2>1. last.answer = "none"
    BY <1>1 DEF Configured, LastRead
  <2> QED
    BY <1>1, <2>1 DEF LastRead
<1>4. CfgParsed'
  <2> SUFFICES ASSUME state' = "serving", NEW f \in Fields
               PROVE  (cfg[f] \in Parsed(f) /\ cfg[f] > 0)'
    BY DEF CfgParsed
  <2>1. ~ \E g \in Fields : Parsed(g) = {}
    BY DEF Load
  <2>2. cfg' = [g \in Fields |-> CHOOSE n \in Parsed(g) : TRUE] /\ Validate(cfg')
    BY <2>1 DEF Load
  <2>3. cfg'[f] > 0
    BY <2>2 DEF Validate
  <2>4. cfg'[f] = CHOOSE n \in Parsed(f) : TRUE
    BY <2>2
  <2>5. cfg'[f] \in Parsed(f)
    BY <2>1, <2>4
  <2>6. Parsed(f)' = Parsed(f)
    BY <1>1 DEF Parsed
  <2> QED
    BY <2>3, <2>5, <2>6
<1> QED
  BY <1>2, <1>3, <1>4 DEF Configured

LEMMA ReadBodyConfigured ==
    ASSUME Configured, NEW length \in Lengths, ReadBody(length)
    PROVE  Configured'
<1>1. UNCHANGED <<file, machine, state, cfg>> /\ state = "serving"
  BY DEF ReadBody
<1>2. FileOK'
  BY <1>1 DEF Configured, FileOK
<1>3. CfgParsed'
  BY <1>1 DEF Configured, CfgParsed, Parsed
<1>4. LastRead'
  <2>1. PICK max, read : /\ max = cfg["max_request_body"]
                         /\ read = ReadBeyondLimit(length, max)
    OBVIOUS
  <2>2. last' = [length |-> length, read |-> read,
                 answer |-> IF read > max THEN "413" ELSE "forwarded"]
    BY <2>1 DEF ReadBody
  <2>3. length \in Nat
    BY InputAssumption
  <2> QED
    BY <1>1, <2>1, <2>2, <2>3 DEF LastRead
<1> QED
  BY <1>2, <1>3, <1>4 DEF Configured

LEMMA StaysConfigured == ConfigSpec => []Configured
<1>1. Configured /\ [ConfigNext]_configVars => Configured'
  <2> SUFFICES ASSUME Configured, [ConfigNext]_configVars PROVE Configured'
    OBVIOUS
  <2>1. CASE Load
    BY <2>1, LoadConfigures
  <2>2. CASE \E length \in Lengths : ReadBody(length)
    BY <2>2, ReadBodyConfigured
  <2>3. CASE UNCHANGED configVars
    BY <2>3 DEF configVars, Configured, FileOK, CfgParsed, LastRead, Parsed
  <2> QED
    BY <2>1, <2>2, <2>3 DEF ConfigNext
<1> QED
  BY <1>1, ConfigInitially, PTL DEF ConfigSpec

-----------------------------------------------------------------------------
(* What follows from it.                                                   *)

LEMMA AcceptedFaithful ==
    ASSUME Configured
    PROVE  SettingsFaithful
<1> SUFFICES ASSUME state = "serving", NEW f \in Fields
             PROVE  \/ cfg[f] = Meaning(f)
                    \/ ~Fits(Meaning(f)) /\ f \in Durations /\ file.settings[f].form = "int"
                    \/ Meaning(f) > MaxInt /\ f \in Sizes /\ machine = MaxInt
  BY DEF SettingsFaithful
<1>1. cfg[f] \in Parsed(f) /\ cfg[f] > 0 /\ FileOK
  BY DEF Configured, CfgParsed
<1>2. CASE f \in Durations
  BY <1>1, <1>2, DurationExact
<1>3. CASE f \in Sizes
  <2>1. machine # MinInt \/ cfg[f] # machine
    BY <1>1, MaxIntAssumption DEF MinInt
  <2> QED
    BY <1>1, <1>3, <2>1, SizeExact DEF FileOK
<1>4. CASE f \in Counts
  BY <1>1, <1>4, CountExact
<1> QED
  BY <1>2, <1>3, <1>4 DEF Fields

\* A limit below MaxInt leaves room for the byte that tells a body that
\* exceeds it from one that just fits.
LEMMA LimitDecides ==
    ASSUME NEW length \in Nat, NEW max \in 1..(MaxInt - 1)
    PROVE  LET read == ReadBeyondLimit(length, max)
           IN  /\ read > max <=> length > max
               /\ ~(read > max) => read = length
<1>1. max + 1 \in Int /\ Fits(max + 1)
  BY MaxIntAssumption DEF Fits, MinInt
<1>2. ReadBeyondLimit(length, max) = LimitReader(length, max + 1)
  BY <1>1, WrapFits DEF ReadBeyondLimit
<1> QED
  BY <1>2, MaxIntAssumption DEF LimitReader

LEMMA AcceptedWhole ==
    ASSUME Configured
    PROVE  BodyWhole
<1> SUFFICES ASSUME last.answer # "none", cfg["max_request_body"] # MaxInt
             PROVE  /\ last.answer = "forwarded" => last.read = last.length
                    /\ last.answer = "413" <=> last.length > Meaning("max_request_body")
  BY DEF BodyWhole
<1>1. PICK max : max = cfg["max_request_body"]
  OBVIOUS
<1>2. "max_request_body" \in Fields /\ "max_request_body" \in Sizes
  BY DEF Fields, Sizes
<1>3. /\ state = "serving" /\ last.length \in Nat
      /\ last.read = ReadBeyondLimit(last.length, max)
      /\ last.answer = IF last.read > max THEN "413" ELSE "forwarded"
  BY <1>1 DEF Configured, LastRead
<1>4. max \in Parsed("max_request_body") /\ max > 0 /\ FileOK
  BY <1>1, <1>2, <1>3 DEF Configured, CfgParsed
<1>5. max = Meaning("max_request_body")
  <2>1. machine # max
    BY <1>1, <1>4, MaxIntAssumption DEF FileOK, MinInt
  <2> QED
    BY <1>2, <1>4, <2>1, SizeExact
<1>6. max \in 1..(MaxInt - 1)
  BY <1>1, <1>2, <1>4, SizeExact, MaxIntAssumption
<1> QED
  BY <1>3, <1>5, <1>6, LimitDecides

-----------------------------------------------------------------------------
(***************************************************************************)
(* config.Load: whatever the file says, a gateway that gets past Validate  *)
(* runs with exactly that, except for the two conversions that have no     *)
(* range check (config.go:30 and config.go:84).                            *)
(***************************************************************************)
THEOREM ConfigFaithful == ConfigSpec => []SettingsFaithful
BY StaysConfigured, AcceptedFaithful, PTL

(***************************************************************************)
(* readBody: a chat request goes on with its whole body or is refused for  *)
(* its length, for every limit below MaxInt and every length.              *)
(***************************************************************************)
THEOREM BodiesWhole == ConfigSpec => []BodyWhole
BY StaysConfigured, AcceptedWhole, PTL
=============================================================================

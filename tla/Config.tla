------------------------------- MODULE Config -------------------------------
(***************************************************************************)
(* internal/config, and the limit on request bodies that comes from it:    *)
(* a YAML file is read over the defaults, its sizes and durations parsed   *)
(* into integers of fixed width, validated, and then the gateway serves    *)
(* requests whose bodies readBody admits or refuses.                       *)
(*                                                                         *)
(* Integers are signed and MaxInt is the largest one (2^63 - 1).  A size   *)
(* with a fraction goes through float64; a float beyond MaxInt converts to *)
(* the smallest integer on amd64 and to the largest on arm64.              *)
(***************************************************************************)
EXTENDS Integers, FiniteSets

CONSTANTS MaxInt,      \* largest integer; MaxInt + 1 is a power of two
          Second,      \* time.Second, in nanoseconds
          Unit,        \* suffix -> multiplier of sizes
          TimeUnit,    \* suffix -> nanoseconds
          Numbers,     \* numbers that occur in files
          Lengths      \* lengths of request bodies

\* The defaults are integers of the machine.
ASSUME MaxIntAssumption == MaxInt \in Nat /\ MaxInt >= 4
ASSUME SecondAssumption == Second \in 1..MaxInt
ASSUME InputAssumption == Numbers \subseteq Int /\ Lengths \subseteq Nat
ASSUME UnitAssumption == /\ \A u \in DOMAIN Unit : Unit[u] \in Nat \ {0}
                         /\ \A u \in DOMAIN TimeUnit : TimeUnit[u] \in Nat \ {0}

MinInt == -MaxInt - 1

\* Two's complement of an integer result.
Wrap(n) == ((n + MaxInt + 1) % (2 * (MaxInt + 1))) - MaxInt - 1

Durations == {"redis.timeout", "session.ttl", "response_cache.ttl"}
Sizes == {"page_size", "max_request_body"}
Counts == {"workers", "max_pending_pages"}
Fields == Durations \cup Sizes \cup Counts

-----------------------------------------------------------------------------
(* What a file may say of a field.                                         *)

NoValue == [form |-> "absent"]

\* Nothing; a decimal integer; an integer in another base; a number of
\* halves with a suffix; anything else.
Values ==
    {NoValue, [form |-> "null"], [form |-> "bad"]}
    \cup [form : {"int", "hex"}, n : Numbers]
    \cup [form : {"size"}, halves : Numbers \cap Nat, unit : DOMAIN Unit]
    \cup [form : {"time"}, halves : Numbers, unit : DOMAIN TimeUnit]

\* A file sets one field to anything and the limit on bodies to an integer,
\* or leaves them out; the strings (base_url, redis.addr) are usable or not.
Settings ==
    {[f \in Fields |-> IF f = g THEN v ELSE IF f = "max_request_body" THEN w ELSE NoValue] :
        g \in Fields, v \in Values, w \in {NoValue} \cup [form : {"int"}, n : Numbers]}

-----------------------------------------------------------------------------
(* UnmarshalYAML: a set with the value, or the empty set for an error.  The *)
(* machine decides what a float beyond the integers becomes.               *)

FloatToInt(n, machine) == IF n <= MaxInt THEN n ELSE machine

\* yaml gives an integer beyond uint64 the tag of a float.
IsFloat(n) == n > 2 * MaxInt + 1

Fits(n) == n \in MinInt..MaxInt

ParseDuration(v) ==
    CASE v.form = "int" -> IF Fits(v.n) THEN {Wrap(v.n * Second)} ELSE {}
      [] v.form = "time" -> {(v.halves * TimeUnit[v.unit]) \div 2} \cap (MinInt..MaxInt)
      [] OTHER -> {}

\* Mutant: the fraction is cut off before the unit is applied.
ParseWholeUnits(v, machine) ==
    CASE v.form = "int" /\ Fits(v.n) -> {v.n}
      [] v.form = "int" /\ IsFloat(v.n) -> {FloatToInt(v.n, machine)}
      [] v.form = "size" -> {FloatToInt((v.halves \div 2) * Unit[v.unit], machine)}
      [] OTHER -> {}

ParseSize(v, machine) ==
    CASE v.form = "int" /\ Fits(v.n) -> {v.n}
      [] v.form = "int" /\ IsFloat(v.n) -> {FloatToInt(v.n, machine)}
      [] v.form = "size" -> {FloatToInt((v.halves * Unit[v.unit]) \div 2, machine)}
      [] OTHER -> {}

\* A plain int field is decoded by yaml, in every base.
ParseCount(v) ==
    IF v.form \in {"int", "hex"} /\ Fits(v.n) THEN {v.n} ELSE {}

Default ==
    [f \in Fields |->
        CASE f \in Durations -> Second
          [] f \in Sizes -> 2
          [] f \in Counts -> 4]

\* A null leaves the default alone.
Parse(f, v, machine) ==
    CASE v.form \in {"absent", "null"} -> {Default[f]}
      [] v.form \notin {"absent", "null"} /\ f \in Durations -> ParseDuration(v)
      [] v.form \notin {"absent", "null"} /\ f \in Sizes -> ParseSize(v, machine)
      [] OTHER -> ParseCount(v)

-----------------------------------------------------------------------------
VARIABLES file,      \* the settings, and whether the strings are usable
          machine,   \* what a float beyond MaxInt converts to
          state,     \* "start", "serving", "failed"
          cfg,       \* the Config
          last       \* the last request: its length, what was read, the answer

configVars == <<file, machine, state, cfg, last>>

NoRequest == [length |-> 0, read |-> 0, answer |-> "none"]

ConfigInit ==
    /\ file \in [settings : Settings, strings : {"usable", "unusable"}]
    /\ machine \in {MinInt, MaxInt}
    /\ state = "start"
    /\ cfg = Default
    /\ last = NoRequest

Parsed(f) == Parse(f, file.settings[f], machine)

\* Every numeric setting has to be positive, the strings usable.
Validate(c) == file.strings = "usable" /\ \A f \in Fields : c[f] > 0

Load ==
    /\ state = "start"
    /\ IF \E f \in Fields : Parsed(f) = {}
         THEN state' = "failed" /\ UNCHANGED cfg
         ELSE /\ cfg' = [f \in Fields |-> CHOOSE n \in Parsed(f) : TRUE]
              /\ state' = IF Validate(cfg') THEN "serving" ELSE "failed"
    /\ UNCHANGED <<file, machine, last>>

\* io.LimitReader stops after n bytes, and at once when n is not positive.
LimitReader(length, n) == IF n <= 0 THEN 0 ELSE IF length < n THEN length ELSE n

\* Mutant: the reader stops at the limit.
ReadUpToLimit(length, max) == LimitReader(length, max)

ReadBeyondLimit(length, max) == LimitReader(length, Wrap(max + 1))

\* readBody, and what ServeHTTP makes of its result: the body is replaced
\* by what was read, and Content-Length by its length.
ReadBody(length) ==
    LET max == cfg["max_request_body"]
        read == ReadBeyondLimit(length, max)
    IN
    /\ state = "serving"
    /\ last' = [length |-> length, read |-> read,
                answer |-> IF read > max THEN "413" ELSE "forwarded"]
    /\ UNCHANGED <<file, machine, state, cfg>>

ConfigNext ==
    \/ Load
    \/ \E length \in Lengths : ReadBody(length)
    \/ state = "failed" /\ UNCHANGED configVars

ConfigSpec == ConfigInit /\ [][ConfigNext]_configVars

-----------------------------------------------------------------------------
(* What a configuration that was accepted guarantees.                      *)

\* What the file says of field f, before any machine arithmetic.
Meaning(f) ==
    LET v == file.settings[f] IN
    CASE v.form \in {"int", "hex"} -> IF f \in Durations THEN v.n * Second ELSE v.n
      [] v.form = "size" -> (v.halves * Unit[v.unit]) \div 2
      [] v.form = "time" -> (v.halves * TimeUnit[v.unit]) \div 2
      [] OTHER -> Default[f]

(***************************************************************************)
(* A gateway that starts runs with what its file says: integers, suffixes, *)
(* fractions of a unit, a null and an absent field all come to their exact *)
(* value, and a value no integer can hold is refused - but for a duration  *)
(* in plain seconds, whose product with time.Second wraps around (even a   *)
(* negative one may come out positive and pass Validate), and a size on a  *)
(* machine whose float conversion saturates.                               *)
(***************************************************************************)
SettingsFaithful ==
    state = "serving" => \A f \in Fields :
        \/ cfg[f] = Meaning(f)
        \/ ~Fits(Meaning(f)) /\ f \in Durations /\ file.settings[f].form = "int"
        \/ Meaning(f) > MaxInt /\ f \in Sizes /\ machine = MaxInt

(***************************************************************************)
(* A chat request reaches upstream with its whole body, or is refused with *)
(* 413 because the body exceeds the limit the file sets; it is never cut.  *)
(* A limit of MaxInt itself is excepted: max+1 wraps around there, nothing *)
(* is read, and the request goes on with an empty body.                    *)
(***************************************************************************)
BodyWhole ==
    last.answer # "none" /\ cfg["max_request_body"] # MaxInt =>
        /\ last.answer = "forwarded" => last.read = last.length
        /\ last.answer = "413" <=> last.length > Meaning("max_request_body")
=============================================================================

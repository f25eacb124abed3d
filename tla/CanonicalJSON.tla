--------------------------- MODULE CanonicalJSON ---------------------------
(***************************************************************************)
(* internal/canon: the canonical JSON text over which conversation states  *)
(* are hashed.  Text is modelled by its syntax tree without white space:   *)
(* an object is the sequence of its members as written, with its order and *)
(* its duplicates, a string the sequence of its characters, each with the  *)
(* spelling it has in the text.  A decoded value has a function for an     *)
(* object and plain characters for a string.                               *)
(***************************************************************************)
EXTENDS Integers, Sequences, SequencesExt

CONSTANTS KeyOrder,   \* the keys that occur, in byte order
          Special     \* characters with an escape of their own (\n, \", \\)

Null == [t |-> "null"]
Str(s) == [t |-> "str", s |-> s]
Arr(a) == [t |-> "arr", a |-> a]
Obj(members) == [t |-> "obj", o |-> members]
Map(f) == [t |-> "map", m |-> f]

-----------------------------------------------------------------------------
Spelled(s, Spelling(_)) == Str([i \in DOMAIN s |-> <<s[i], Spelling(s[i])>>])

\* WriteString: only special characters are escaped, and in the short way.
WriteString(s) == Spelled(s, LAMBDA c : IF c \in Special THEN "short" ELSE "plain")

Keys(members) == {members[i][1] : i \in DOMAIN members}

\* Of duplicate keys the last one counts.
LastMember(members, key) ==
    members[Max({i \in DOMAIN members : members[i][1] = key})][2]

RECURSIVE Decode(_)
Decode(text) ==
    CASE text.t = "str" -> Str([i \in DOMAIN text.s |-> text.s[i][1]])
      [] text.t = "arr" -> Arr([i \in DOMAIN text.a |-> Decode(text.a[i])])
      [] text.t = "obj" -> Map([k \in Keys(text.o) |-> Decode(LastMember(text.o, k))])
      [] OTHER -> text

Sorted(keys) == SelectSeq(KeyOrder, LAMBDA k : k \in keys)

\* Mutant: a null member is left out, like omitempty.
KeysWithoutNull(m) == Sorted({k \in DOMAIN m : m[k] # Null})

KeysToEmit(m) == Sorted(DOMAIN m)

RECURSIVE emit(_)
emit(v) ==
    CASE v.t = "str" -> WriteString(v.s)
      [] v.t = "arr" -> Arr([i \in DOMAIN v.a |-> emit(v.a[i])])
      [] v.t = "map" -> LET keys == KeysToEmit(v.m)
                        IN  Obj([i \in DOMAIN keys |-> <<keys[i], emit(v.m[keys[i]])>>])
      [] OTHER -> v

Canonicalize(text) == emit(Decode(text))

\* json.Marshal of the standard library: sorted keys too, but <, > and &
\* become \u003c and the like.
HTML == {"<", ">", "&"}

RECURSIVE Marshal(_)
Marshal(v) ==
    CASE v.t = "str" -> Spelled(v.s, LAMBDA c : IF c \in HTML THEN "hex" ELSE
                                                IF c \in Special THEN "short" ELSE "plain")
      [] v.t = "arr" -> Arr([i \in DOMAIN v.a |-> Marshal(v.a[i])])
      [] v.t = "map" -> LET keys == Sorted(DOMAIN v.m)
                        IN  Obj([i \in DOMAIN keys |-> <<keys[i], Marshal(v.m[keys[i]])>>])
      [] OTHER -> v

\* Mutant: what Marshal returns is taken for canonical.
MarshalIsEnough(v) == Marshal(v)

CanonicalValue(v) == Canonicalize(Marshal(v))
=============================================================================

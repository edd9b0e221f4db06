------------------------------- MODULE Texts --------------------------------
(***************************************************************************)
(* Three conversions of text that decide which rule a dump meets: the      *)
(* length that a process_name glob is held to have (glob_min_match_length  *)
(* of src/policy.rs), the command name recovered from the name of a dump   *)
(* (unescape_comm of src/dump.rs) and the fields recovered from what       *)
(* journalctl prints (parse_export of src/journal.rs). The glob crate,     *)
(* systemd's escaping and the export format are external.                  *)
(*                                                                         *)
(* An administrator types a pattern, a process chooses its name, or its    *)
(* executable and command line, one character at a time: every text up to  *)
(* MaxText characters is met.                                              *)
(***************************************************************************)
EXTENDS Naturals, Sequences, SequencesExt

CONSTANTS
    PatternChars,   \* the characters of patterns
    CommBytes,      \* the bytes of command names, by their code
    Fields,         \* the fields of an entry, each the text `NAME=`
    None,           \* no value
    MaxText         \* bound on the length of each of them

VARIABLES
    pattern, comm,
    entry           \* the value of each field; an empty one is not logged

vars == <<pattern, comm, entry>>

\* A field is none of the other symbols that stand in an entry.
ASSUME TextsAssumption ==
    /\ CommBytes \subseteq 1..255 /\ MaxText \in Nat
    /\ None \notin Nat
    /\ IsFiniteSet(Fields)
    /\ Fields \cap {"w", "NL", "non-UTF-8", "name", "length"} = {}

NoEntry == [f \in Fields |-> <<>>]

Init == pattern = <<>> /\ comm = <<>> /\ entry = NoEntry

TypePattern(c) ==
    /\ comm = <<>> /\ entry = NoEntry /\ Len(pattern) < MaxText
    /\ pattern' = Append(pattern, c)
    /\ UNCHANGED <<comm, entry>>

NameProcess(b) ==
    /\ pattern = <<>> /\ entry = NoEntry /\ Len(comm) < MaxText
    /\ comm' = Append(comm, b)
    /\ UNCHANGED <<pattern, entry>>

\* Of a value matter its lines, what in it reads like a field, and whether it
\* has control characters, or bytes that are no UTF-8.
ValueChars == {"w", "NL", "non-UTF-8"} \cup Fields

WriteField(f, c) ==
    /\ pattern = <<>> /\ comm = <<>> /\ Len(entry[f]) + 1 < MaxText
    /\ entry' = [entry EXCEPT ![f] = Append(@, c)]
    /\ UNCHANGED <<pattern, comm>>

StartOver == pattern' = <<>> /\ comm' = <<>> /\ entry' = NoEntry

Next ==
    \/ StartOver
    \/ \E c \in PatternChars : TypePattern(c)
    \/ \E b \in CommBytes : NameProcess(b)
    \/ \E f \in Fields, c \in ValueChars : WriteField(f, c)

Spec == Init /\ [][Next]_vars

Least(S) == CHOOSE i \in S : \A j \in S : i <= j

\* The first place from i on where c stands in p, or the one after the end.
Find(p, c, i) ==
    Least({j \in i..Len(p) : p[j] = c} \cup {Len(p) + 1})

-----------------------------------------------------------------------------
(* Globs.                                                                  *)

\* Mutant of MinMatchLength: a class counts for each of its characters.
MembersCounted(p) ==
    LET from[i \in 1..(Len(p) + 2)] ==
          IF i > Len(p) THEN 0
          ELSE IF p[i] = "*" THEN from[i + 1]
          ELSE IF p[i] = "backslash" THEN (IF i < Len(p) THEN 1 ELSE 0) + from[i + 2]
          ELSE 1 + from[i + 1]
    IN  from[1]

\* What the pattern takes from place i on, if it takes from[j] from a later j:
\* a backslash takes the next character along, a class ends at the first `]`.
MinAt(p, from, i) ==
    IF i > Len(p) THEN 0
    ELSE IF p[i] = "*" THEN from[i + 1]
    ELSE IF p[i] = "backslash" THEN (IF i < Len(p) THEN 1 ELSE 0) + from[i + 2]
    ELSE IF p[i] = "[" THEN 1 + from[Find(p, "]", i + 1) + 1]
    ELSE 1 + from[i + 1]

MinFrom(p) ==
    LET from[i \in 1..(Len(p) + 2)] == MinAt(p, from, i)
    IN  from

\* glob_min_match_length
MinMatchLength(p) == MinFrom(p)[1]

\* glob::Pattern: a class has a first member, be it `]`, before its end.
ClassEnd(p, i) ==
    Find(p, "]", IF i < Len(p) /\ p[i + 1] = "!" THEN i + 3 ELSE i + 2)

\* What Pattern::new makes of the rest from place i: the number of tokens that
\* consume one character each, or Malformed. Two stars are a token of their own
\* only where they are a whole path component, with the slash that follows.
Malformed == None

Plus(n, rest) == IF rest = Malformed THEN Malformed ELSE n + rest

ShortestAt(p, from, i) ==
    LET at(j, c) == j <= Len(p) /\ p[j] = c
    IN  IF i > Len(p) THEN 0
        ELSE IF at(i, "*") THEN
            IF ~ at(i + 1, "*") THEN from[i + 1]
            ELSE IF at(i + 2, "*") \/ ~ (i = 1 \/ at(i - 1, "/")) THEN Malformed
            ELSE IF at(i + 2, "/") THEN from[i + 3]
            ELSE IF i + 2 > Len(p) THEN 0
            ELSE Malformed
        ELSE IF at(i, "[") THEN
            IF ClassEnd(p, i) > Len(p) THEN Malformed
            ELSE Plus(1, from[ClassEnd(p, i) + 1])
        ELSE Plus(1, from[i + 1])

ShortestFrom(p) ==
    LET from[i \in 1..(Len(p) + 1)] == ShortestAt(p, from, i)
    IN  from

Shortest(p) == ShortestFrom(p)[1]

\* The patterns on which code and crate read the same: without a backslash,
\* which the crate takes for itself, without a `]` as first member of a class,
\* and without a component `**`, whose slash may match nothing.
Plain(p) ==
    SubSeqs(p) \cap {<<"backslash">>, <<"[", "]">>, <<"[", "!", "]">>, <<"*", "*", "/">>} = {}

(***************************************************************************)
(* The length that from_rule compares with COMM_MAX_LEN is that of the     *)
(* shortest text the glob matches: a pattern is refused as too long        *)
(* exactly when it can match no command name.                              *)
(***************************************************************************)
LengthIsShortest ==
    Plain(pattern) /\ Shortest(pattern) # Malformed =>
        MinMatchLength(pattern) = Shortest(pattern)

-----------------------------------------------------------------------------
(* Command names.                                                          *)

Backslash == 92
Dot       == 46

HexDigit(n) == IF n < 10 THEN 48 + n ELSE 87 + n

\* char::to_digit(16): the value of a hexadecimal digit, NoDigit for others.
NoDigit == 16
Digit(b) ==
    IF b \in 48..57 THEN b - 48
    ELSE IF b \in 65..70 THEN b - 55
    ELSE IF b \in 97..102 THEN b - 87
    ELSE NoDigit

\* systemd escapes what is not printable ASCII, and `\`, `.`, `/` and blanks.
EscapedByte(b) ==
    IF b < 32 \/ b >= 127 \/ b \in {Backslash, Dot, 47, 32}
    THEN <<Backslash, 120, HexDigit(b \div 16), HexDigit(b % 16)>>
    ELSE <<b>>

Escape(c) == FlattenSeq([i \in DOMAIN c |-> EscapedByte(c[i])])

\* Mutant of IsEscape: an escape must not be the last thing of the name.
IsEscapeInside(s, i) ==
    /\ i + 3 < Len(s)
    /\ s[i] = Backslash /\ s[i + 1] = 120
    /\ Digit(s[i + 2]) # NoDigit /\ Digit(s[i + 3]) # NoDigit

IsEscape(s, i) ==
    /\ i + 3 <= Len(s)
    /\ s[i] = Backslash /\ s[i + 1] = 120
    /\ Digit(s[i + 2]) # NoDigit /\ Digit(s[i + 3]) # NoDigit

UnescapedAt(s, from, i) ==
    IF i > Len(s) THEN <<>>
    ELSE IF IsEscape(s, i)
    THEN <<16 * Digit(s[i + 2]) + Digit(s[i + 3])>> \o from[i + 4]
    ELSE <<s[i]>> \o from[i + 1]

UnescapeFrom(s) ==
    LET from[i \in 1..(Len(s) + 1)] == UnescapedAt(s, from, i)
    IN  from

\* unescape_comm
Unescape(s) == UnescapeFrom(s)[1]

(***************************************************************************)
(* A command name comes back from the file name byte for byte, one that    *)
(* looks like an escape too, and adds no part to the parts from_name       *)
(* splits the file name into at its dots. (Each byte becomes a character   *)
(* of its own: a name in UTF-8 that is not ASCII is not the same text.)    *)
(***************************************************************************)
CommRestored ==
    /\ Unescape(Escape(comm)) = comm
    /\ \A i \in DOMAIN Escape(comm) : Escape(comm)[i] # Dot

-----------------------------------------------------------------------------
(* Journal entries.                                                        *)

\* A value of one printable line is exported as text. Any other follows the
\* bare name on a line that begins with its length, eight bytes with zeros at
\* the end. (Of more than 127 bytes: that is no UTF-8 either.)
IsText(v) == ~ Contains(v, "NL") /\ ~ Contains(v, "non-UTF-8")

ExportField(f) ==
    IF entry[f] = <<>> THEN <<>>
    ELSE IF IsText(entry[f]) THEN <<f>> \o entry[f] \o <<"NL">>
    ELSE <<"name", "NL", "length">> \o entry[f] \o <<"NL">>

\* The fields come in no particular order.
Exports == {FlattenSeq([i \in DOMAIN fs |-> ExportField(fs[i])]) : fs \in SetToSeqs(Fields)}

\* Mutant of StartsWith: the name may stand anywhere in the line.
SplitsAt(text, i, f) == text[i] = f

\* strip_prefix
StartsWith(text, i, f) ==
    text[i] = f /\ (i = 1 \/ text[i - 1] = "NL")

\* The rest of the line behind place i.
RestOfLine(s, i) == SubSeq(s, i + 1, Find(s, "NL", i) - 1)

\* parse_export: the rest of the last line that starts with the field.
ParseExport(text) ==
    [f \in Fields |->
        LET starts == {i \in DOMAIN text : StartsWith(text, i, f)}
            last   == CHOOSE i \in starts : \A j \in starts : j <= i
        IN  IF starts = {} THEN None ELSE RestOfLine(text, last)]

\* lookup, when journalctl has succeeded.
Lookup(text) ==
    IF Contains(text, "non-UTF-8") THEN [f \in Fields |-> None] ELSE ParseExport(text)

\* A line of value v, but not its first, begins at i like field f.
ReadsLike(v, i, f) == v[i] = f /\ v[i - 1] = "NL"

(***************************************************************************)
(* What lookup says of a field is what was logged of that field; or it is  *)
(* nothing, because nothing was logged, or a value of several lines, or    *)
(* some field has a byte that is no UTF-8; or it is the rest of a line in  *)
(* the midst of a logged value, when that line reads like the field.       *)
(***************************************************************************)
EntryReadRight ==
    \A text \in Exports, f \in Fields :
        \/ entry[f] # <<>> /\ Lookup(text)[f] = entry[f]
        \/ /\ Lookup(text)[f] = None
           /\ \/ entry[f] = <<>> \/ ~ IsText(entry[f])
              \/ \E g \in Fields : Contains(entry[g], "non-UTF-8")
        \/ \E g \in Fields : \E i \in 2..Len(entry[g]) :
              /\ ReadsLike(entry[g], i, f)
              /\ Lookup(text)[f] = RestOfLine(entry[g], i)
=============================================================================

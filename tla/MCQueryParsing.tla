--------------------------- MODULE MCQueryParsing ---------------------------
(***************************************************************************)
(* Small instances of QueryParsing for TLC: octets of four bits, so that a *)
(* group of an IPv6 address has two digits.                                *)
(***************************************************************************)
EXTENDS QueryParsing

TextsUpTo(alphabet, n) == UNION {[1 .. m -> alphabet] : m \in 0 .. n}

(* Every short text, and longer names. *)
AnyTexts == TextsUpTo({"a", "S", "1", "0", ".", ":", "/", "-", " "}, 4)
Names == TextsUpTo({"a", "s", "4", ".", "-"}, 5)
Odd == {<<"x", "_">>, <<"0", "0", "1", "4">>, <<"A", "s", "1", "6">>, <<"1", "5">>, <<"1", "6">>}

(* Addresses with and without a prefix. *)
PrefixTexts(lengths) == {<<>>} \cup {<<"/">> \o Numeral(n, 10) : n \in lengths}
Quads == {<<"1", "5", ".">> \o a \o <<".">> \o b \o <<".">> \o c :
            a, b, c \in {<<"0">>, <<"7">>, <<"1", "5">>, <<"1", "6">>, <<"0", "1">>}}
QuadTexts == {q \o p : q \in Quads, p \in PrefixTexts(0 .. 17)}

(* Every pattern of zero and other groups, spelled in full, with any run   *)
(* of zeros left out, or with its last groups in the notation of IPv4.     *)
Patterns == [1 .. 8 -> {0, 1}]
Valued(pattern) == [i \in 1 .. 8 |-> pattern[i] * (16 * i + 10)]
OneZero(groups) == {[start |-> i, length |-> 1] : i \in {j \in 1 .. 8 : groups[j] = 0}}
Spelled(groups) ==
  {SpelledWithout(groups, r) : r \in ZeroRuns(groups) \cup OneZero(groups) \cup {NoRun}}
Colons == UNION {Spelled(Valued(p)) : p \in Patterns}
Mixed == {s \o <<"0", ".", "1", "0", ".", "0", ".", "3">> :
            s \in {<<":", ":">>, <<":", ":", "F", "f", ":">>, <<":", ":", "1", ".">>}}
PatternsWithPrefix == {p \in Patterns : \A i \in 1 .. 5 : p[i] = i % 2}
ColonTexts == Colons \cup Mixed
  \cup {s \o p : s \in UNION {Spelled(Valued(q)) : q \in PatternsWithPrefix},
                 p \in PrefixTexts(0 .. 65)}

AllInputs == AnyTexts \cup Names \cup Odd \cup QuadTexts \cup ColonTexts
=============================================================================

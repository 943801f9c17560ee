---------------------------- MODULE CanonicalJson ----------------------------
(***************************************************************************)
(* canonical_json of osivault.audit, which append applies to the           *)
(* dictionary it was given and verification to the one the JSON column     *)
(* returns, and what the column does to the dictionary in between.         *)
(*                                                                         *)
(* A dictionary is a set of members with distinct keys.  A key is an       *)
(* integer or a text, spelled by its characters; a value stands for its    *)
(* JSON text.                                                              *)
(***************************************************************************)
EXTENDS Integers, Sequences, FiniteSets

Member(type, spelling, value) ==
  [key |-> [type |-> type, spelling |-> spelling], value |-> value]

IsDictionary(dict) ==
  /\ IsFiniteSet(dict)
  /\ \A m \in dict : /\ m = Member(m.key.type, m.key.spelling, m.value)
                     /\ m.key.type \in {"int", "str"} /\ m.key.spelling \in Seq(Nat)
  /\ \A m, n \in dict : m.key = n.key => m = n

-----------------------------------------------------------------------------
(* The order of sort_keys, which compares keys before they are turned into *)
(* text: natural numbers by size, texts character by character.            *)

TextBefore(s, t) ==
  \E i \in 1..Len(t) :
    /\ i - 1 <= Len(s) /\ SubSeq(s, 1, i - 1) = SubSeq(t, 1, i - 1)
    /\ i - 1 = Len(s) \/ s[i] < t[i]

NumberBefore(s, t) == Len(s) < Len(t) \/ (Len(s) = Len(t) /\ TextBefore(s, t))

KeyBefore(k, l) ==
  IF k.type = "int" THEN NumberBefore(k.spelling, l.spelling)
                    ELSE TextBefore(k.spelling, l.spelling)

\* Integers and texts have no order in Python: json.dumps raises a TypeError.
Sortable(dict) == \A m, n \in dict : m.key.type = n.key.type

\* The members in the order of sort_keys: i - 1 of them come before the i-th.
Sorted(dict) ==
  [i \in 1..Cardinality(dict) |->
     CHOOSE m \in dict : Cardinality({n \in dict : KeyBefore(n.key, m.key)}) = i - 1]

\* The text, member by member.
CanonicalJson(dict) ==
  [i \in 1..Cardinality(dict) |-> <<Sorted(dict)[i].key.spelling, Sorted(dict)[i].value>>]

-----------------------------------------------------------------------------
(* What a jsonb column and json.loads make of it: every key is a text, and *)
(* a float that Python writes with a positive exponent, from 1e16 on, is   *)
(* spelled out and comes back as an integer.                               *)

ExponentFloat == "1e+16"
SpelledOut(value) == IF value = ExponentFloat THEN "10000000000000000" ELSE value

Returned(dict) == {Member("str", m.key.spelling, SpelledOut(m.value)) : m \in dict}
=============================================================================

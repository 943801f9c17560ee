---------------------------- MODULE MCFieldVault ----------------------------
(* A small instance of FieldVault for TLC: master keys of two bytes. *)
EXTENDS FieldVault, TLC

CONSTANTS p1, note, history, v1, v2, doc

\* Bytes that are too long for a key; text that is base64 of a key.
Long == [raw |-> <<1, 2, 3>>, decoded |-> <<>>]
Text64 == [raw |-> <<65, 81>>, decoded |-> <<4, 5>>]

MCDeployment ==
  {[env |-> NoKey, given |-> Long, production |-> TRUE],
   [env |-> Text64, given |-> Long, production |-> TRUE],
   [env |-> NoKey, given |-> NoKey, production |-> TRUE],
   [env |-> NoKey, given |-> NoKey, production |-> FALSE]}

MCKey == {Long, Text64}
MCContext == [c \in Cell |-> c]
MCValueOf == note :> {v1, v2} @@ history :> {doc}
\* The two texts are interchangeable.
Symmetry == Permutations({v1, v2})
MCDevKey == <<9, 9>>
=============================================================================

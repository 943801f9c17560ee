------------------------- MODULE MCAuditVerification -------------------------
(* Small instances of AuditVerification for TLC. *)
EXTENDS AuditVerification, TLC

CONSTANTS k1, k2

\* Dictionaries {"2": .., "10": ..}, {2: .., 10: ..}, {2: .., "10": ..}, {"2": 1e16} and {}.
Two == <<2>>
Ten == <<1, 0>>
TextKeys == {Member("str", Two, "v"), Member("str", Ten, "v")}
NumberKeys == {Member("int", Two, "v"), Member("int", Ten, "v")}
MixedKeys == {Member("int", Two, "v"), Member("str", Ten, "v")}
LargeFloat == {Member("str", Two, ExponentFloat)}
NoMembers == {}

ChainValues == {TextKeys, NumberKeys, MixedKeys}
CheckpointValues == {TextKeys, NoMembers, LargeFloat}

ReadBack(dicts) == {CanonicalJson(Returned(values)) : values \in dicts}
ChainBodies == ReadBack(ChainValues \cup {NoMembers})
CheckpointBodies == ReadBack(CheckpointValues)

\* Keys are interchangeable: definitions only compare them for equality.
Symmetry == Permutations(Key)
=============================================================================

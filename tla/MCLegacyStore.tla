---------------------------- MODULE MCLegacyStore ---------------------------
(***************************************************************************)
(* Two names of one store; entries with one tag or two; expressions for    *)
(* one tag, two tags and the same tag twice; a batch that moves an entry,  *)
(* and one that is refused at its last key.                                *)
(***************************************************************************)
EXTENDS LegacyStore, TLC

CONSTANTS t1, t2
ThreadSymmetry == Permutations({t1, t2})

Tag(n, v) == [name |-> n, value |-> v]
A == [value |-> "v1", tags |-> {Tag("a", "1")}]
B == [value |-> "v2", tags |-> {Tag("b", "1")}]
AB == [value |-> "v1", tags |-> {Tag("a", "1"), Tag("b", "1")}]

MCLower == [contexts |-> "contexts", Contexts |-> "contexts"]
MCEntries == {A, B, AB}
PutIn(key, entry) == [key |-> key, entry |-> entry]
MCBatches == {<<PutIn("k1", NoEntry), PutIn("k2", B), PutIn("k2", AB)>>,
              <<PutIn("k1", A), PutIn("", A)>>}
MCExpressions == {<<Tag("a", "1")>>, <<Tag("a", ""), Tag("b", "1")>>, <<Tag("a", "1"), Tag("a", "2")>>}
=============================================================================

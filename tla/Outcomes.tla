------------------------------- MODULE Outcomes -------------------------------
(***************************************************************************)
(* What modules about the issuer share.  A Go call ends without a result   *)
(* in an absent value (nil), a returned error or a panic.  A Go slice is a *)
(* sequence.  Strings are compared as strings.EqualFold does.              *)
(***************************************************************************)
EXTENDS FiniteSets, Naturals, Sequences

CONSTANTS
    None,   \* nil
    Error,  \* a call returned an error
    Panic,  \* a call panicked
    Folded  \* strings that differ from their folded form, with that form

ASSUME OutcomesAssumption == Cardinality({None, Error, Panic}) = 3

EqualFold(s, t) ==
    LET Fold(u) == IF u \in DOMAIN Folded THEN Folded[u] ELSE u IN Fold(s) = Fold(t)

IsList(s) == Len(s) \in Nat /\ s = [i \in 1..Len(s) |-> s[i]]
=============================================================================

---------------------------- MODULE MCAttestation ----------------------------
(***************************************************************************)
(* Keys of two DIDs and one without, two payloads.                         *)
(***************************************************************************)
EXTENDS Attestation

MCDIDPart == [key1 |-> "did1", key2 |-> "did2", bare |-> NoDID]
=============================================================================

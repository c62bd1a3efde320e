----------------------------- MODULE MCSignature -----------------------------
(* Instances of Signature for TLC: every primitive type, one class, and     *)
(* their arrays.                                                            *)
EXTENDS Signature
=============================================================================

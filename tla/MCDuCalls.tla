------------------------------- MODULE MCDuCalls -------------------------------
(* Instances of DuCalls for TLC: one package whose name fits the buffer.    *)
EXTENDS DuCalls

OnePackage == {"likeread"}

OneLength == [p \in OnePackage |-> 1]
=============================================================================

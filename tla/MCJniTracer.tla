------------------------------ MODULE MCJniTracer ------------------------------
(* Instances of JniTracer for TLC.                                          *)
EXTENDS JniTracer

OneType == <<"Object">>

TwoTypes == <<"Void", "Object">>
=============================================================================

---------------------------- MODULE MCParamFormat ----------------------------
(* Instances of ParamFormat for TLC, with the sizes of the code: texts that *)
(* are short, that fill a buffer exactly, and that do not fit.              *)
EXTENDS ParamFormat
=============================================================================

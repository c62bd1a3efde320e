---------------------------- MODULE MCHookSession ----------------------------
(* Instances of HookSession for TLC: the application's own package and one  *)
(* without a launcher activity, such as the WebView provider.               *)
EXTENDS HookSession
=============================================================================

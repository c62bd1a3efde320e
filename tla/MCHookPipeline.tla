---------------------------- MODULE MCHookPipeline ----------------------------
(* Instances of HookPipeline for TLC: the process of likeread, which also   *)
(* loads the WebView provider, on devices that load the plugins in          *)
(* different ways.                                                          *)
EXTENDS HookPipeline

MCPackages == {"likeread", "webview"}

MCLaunchable == {"likeread"}

MCLength == [p \in MCPackages |-> IF p = "likeread" THEN 1 ELSE 2]

MCDevices ==
  {[maimai |-> FALSE, load |-> l, sdkP |-> TRUE, conscrypt |-> TRUE] :
     l \in {"direct", "unbound"}}

(* Libraries the module ignores are there from the start.                   *)
MCMapped == {{"other"}, {"other", "libflutter"}}
=============================================================================

----------------------------- MODULE HookedProcess -----------------------------
(***************************************************************************)
(* What the module promises of the process it is loaded into, without how:  *)
(* library loads are watched before the native side is told a package, it   *)
(* is told only packages of the process, the Flutter function is hooked     *)
(* only where likeread is one of them, and HookEntry stops trying only when *)
(* the native side has been told.                                           *)
(***************************************************************************)
CONSTANTS Packages, Likeread

VARIABLES
  watched,  \* android_dlopen_ext leads to the module, or will never do so
  told,     \* packages doNativeHook has been called with
  flutter,  \* the Flutter function is hooked
  settled   \* HookEntry does not try again

vars == <<watched, told, flutter, settled>>

Init ==
  /\ watched = FALSE
  /\ told = {}
  /\ flutter = FALSE
  /\ settled = FALSE

Watch ==
  /\ watched' = TRUE
  /\ UNCHANGED <<told, flutter, settled>>

Tell(p) ==
  /\ watched
  /\ ~settled
  /\ told' = told \cup {p}
  /\ UNCHANGED <<watched, flutter, settled>>

HookFlutter ==
  /\ watched
  /\ Likeread \in told
  /\ flutter' = TRUE
  /\ UNCHANGED <<watched, told, settled>>

Settle ==
  /\ told # {}
  /\ settled' = TRUE
  /\ UNCHANGED <<watched, told, flutter>>

Next == Watch \/ (\E p \in Packages : Tell(p)) \/ HookFlutter \/ Settle

Spec == Init /\ [][Next]_vars
=============================================================================

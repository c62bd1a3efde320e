-------------------------- MODULE HookSessionProofs --------------------------
(***************************************************************************)
(* Theorems about HookSession, for any finite set of packages and any       *)
(* number of attaches.                                                      *)
(***************************************************************************)
EXTENDS HookSession, FiniteSetTheorems, TLAPS

(* The places of an attach between the test of isAppHooked and its end.     *)
Working == {"native", "load", "retry", "intent", "class", "ssl", "latch"}

(* The packages whose handleLoadPackage has returned.                       *)
Done == {p \in Packages : loader[p] = "done"}

(* Each handleLoadPackage that finished has registered one callback, and an *)
(* attach is under way only once one has, so that it has callbacks to run   *)
(* and the field pkgName is set.                                            *)
LoaderInv ==
  /\ callbacks = Cardinality(Done)
  /\ loader[Own] # "none" => pkgName \in Packages
  /\ pc # "app" => loader[Own] = "done" /\ todo >= 1

(* What a successful attempt leaves behind.                                 *)
Complete ==
  /\ libs = PluginNames
  /\ nativePkgs # <<>>
  /\ device.maimai => classHooks > 0 /\ sslHooks > 0

(* How far the attempt in progress has come.                                *)
AttemptInv ==
  /\ pc \in Working => ~isAppHooked
  /\ pc \in Working \ {"latch"} => pkg \in Packages
  /\ pc \in {"app", "attach", "callback"} => next = 1
  /\ pc \in {"load", "retry"} => next <= Len(Plugins)
  /\ pc \in {"native", "load", "retry"} => \A i \in 1..(next - 1) : Plugins[i] \in libs
  /\ pc \in {"intent", "class", "ssl"} =>
       libs = PluginNames /\ nativePkgs # <<>> /\ device.maimai
  /\ pc = "ssl" => classHooks > 0
  /\ pc = "latch" \/ isAppHooked => nullAttach \/ Complete

(* What earlier attempts have left: a hook that can only be set once is not *)
(* set before the attempt that succeeds.                                    *)
CountInv ==
  /\ Len(nativePkgs) <= 1 + javaFailures
  /\ ~isAppHooked /\ pc \notin {"intent", "class", "ssl", "latch"} =>
       Len(nativePkgs) <= javaFailures
  /\ ~device.maimai => javaFailures = 0
  /\ sslHooks <= 1
  /\ ~isAppHooked /\ pc # "latch" => sslHooks = 0
  /\ device.conscrypt => classHooks <= 1
  /\ device.conscrypt /\ ~isAppHooked /\ pc \notin {"ssl", "latch"} => classHooks = 0

(* The inductive invariant.                                                 *)
Inv == TypeOK /\ LoaderInv /\ AttemptInv /\ CountInv

(* There are two plugins.                                                   *)
LEMMA TwoPlugins ==
  /\ Len(Plugins) = 2
  /\ PluginNames = {Plugins[1], Plugins[2]}
  /\ Plugins[1] \in PluginNames /\ Plugins[2] \in PluginNames
  BY DEF Plugins, PluginNames

(* In a fresh process no package is loaded and nothing hooked.              *)
LEMMA InitInv == Init => Inv
<1> SUFFICES ASSUME Init PROVE Inv
  OBVIOUS
<1>1. Done = {} /\ Cardinality(Done) = 0
  BY FS_EmptySet DEF Init, Done
<1>2. Cardinality(Packages) \in Nat
  BY PackagesAreFinite, FS_CardinalityType
<1>3. TypeOK
  <2>1. file \in [PluginNames -> {"absent", "partial", "complete"}]
    BY DEF Init
  <2>2. <<>> \in Seq(Packages)
    OBVIOUS
  <2>3. 1 \in 1..(Len(Plugins) + 1)
    BY TwoPlugins
  <2>4. loader \in [Packages -> {"none", "named", "done"}]
    BY DEF Init
  <2>5. /\ 0 \in 0..Cardinality(Packages) /\ 0 \in 0..MaxAttaches
    BY <1>2, AttachesAreCounted
  <2>6. /\ nativePkgs \in Seq(Packages) /\ next \in 1..(Len(Plugins) + 1)
    BY <2>2, <2>3 DEF Init
  <2>7. /\ callbacks \in 0..Cardinality(Packages) /\ todo \in 0..Cardinality(Packages)
        /\ attaches \in 0..MaxAttaches
    BY <2>5 DEF Init
  <2> QED
    BY <2>1, <2>4, <2>6, <2>7, Zenon DEF Init, TypeOK
<1>4. LoaderInv
  BY <1>1, OwnIsPackage DEF Init, LoaderInv
<1>5. AttemptInv
  BY DEF Init, AttemptInv, Working
<1>6. CountInv
  BY DEF Init, CountInv
<1> QED
  BY <1>3, <1>4, <1>5, <1>6 DEF Inv

(* The callbacks an attach runs are those of packages.                      *)
LEMMA CallbackBound ==
  ASSUME LoaderInv
  PROVE  /\ Cardinality(Packages) \in Nat
         /\ callbacks \in 0..Cardinality(Packages)
  BY PackagesAreFinite, FS_CardinalityType, FS_Subset DEF LoaderInv, Done

(* What handleLoadPackage registers is counted once.                        *)
LEMMA NextLoader == Inv /\ [Next]_vars => LoaderInv'
<1> SUFFICES ASSUME Inv, [Next]_vars PROVE LoaderInv'
  OBVIOUS
<1> USE DEF Inv, TypeOK, LoaderInv
<1>1. CASE UNCHANGED <<loader, callbacks, pkgName, pc, todo>>
  BY <1>1 DEF Done
<1>2. ASSUME NEW p \in Packages, LoadPackage(p) PROVE LoaderInv'
  <2>1. Done' = Done
    BY <1>2 DEF LoadPackage, Done
  <2>2. pkgName' \in Packages /\ loader'[Own] = "done" <=> loader[Own] = "done"
    BY <1>2, OwnIsPackage DEF LoadPackage
  <2> QED
    BY <1>2, <2>1, <2>2, OwnIsPackage DEF LoadPackage, call
<1>3. ASSUME NEW p \in Packages, HookAttach(p) PROVE LoaderInv'
  <2>1. Done' = Done \cup {p} /\ p \notin Done
    BY <1>3 DEF HookAttach, Done
  <2>2. IsFiniteSet(Done)
    BY PackagesAreFinite, FS_Subset DEF Done
  <2>3. Cardinality(Done') = Cardinality(Done) + 1
    BY <2>1, <2>2, FS_AddElement
  <2> QED
    BY <1>3, <2>3, OwnIsPackage DEF HookAttach, call
<1>4. ASSUME NEW context \in BOOLEAN, Attach(context) PROVE LoaderInv'
  <2>1. Own \in Done /\ IsFiniteSet(Done)
    BY <1>4, OwnIsPackage, PackagesAreFinite, FS_Subset DEF Attach, Done
  <2>2. callbacks >= 1
    <3>1. Cardinality(Done) # 0 /\ Cardinality(Done) \in Nat
      BY <2>1, FS_EmptySet, FS_CardinalityType
    <3> QED
      BY <3>1
  <2>3. Done' = Done
    BY <1>4 DEF Attach, env, Done
  <2> QED
    BY <1>4, <2>2, <2>3 DEF Attach, env, Goto
<1>5. CASE Callback
  <2>1. UNCHANGED <<loader, callbacks, pkgName>> /\ Done' = Done
    BY <1>5 DEF Callback, AttachReturns, AlreadyHooked, StartCallback, FindPlugin,
       SystemLoad, RetryLoad, DoNativeHook, GetLaunchIntent, HookLoadClass,
       HookSslWrite, Latch, NativeHookFails, PluginLoaded, StartHookJavaThrows, env, Done
  <2>2. pc # "app"
    BY <1>5 DEF Callback, AttachReturns, AlreadyHooked, StartCallback, FindPlugin,
       SystemLoad, RetryLoad, DoNativeHook, GetLaunchIntent, HookLoadClass,
       HookSslWrite, Latch, Goto
  <2>3. CASE EndCallback
    BY <2>1, <2>2, <2>3 DEF EndCallback
  <2>4. CASE UNCHANGED todo
    BY <2>1, <2>2, <2>4
  <2>5. EndCallback \/ UNCHANGED todo
    BY <1>5 DEF Callback, AttachReturns, AlreadyHooked, StartCallback, FindPlugin,
       SystemLoad, RetryLoad, DoNativeHook, GetLaunchIntent, HookLoadClass,
       HookSslWrite, Latch, NativeHookFails, PluginLoaded, StartHookJavaThrows, call
  <2> QED
    BY <2>3, <2>4, <2>5
<1> QED
  BY <1>1, <1>2, <1>3, <1>4, <1>5 DEF Next, CopyPlugin, vars, call

(* LoaderInv bounds the callbacks an attach begins with.                    *)
LEMMA NextType == Inv /\ [Next]_vars => TypeOK'
<1> SUFFICES ASSUME Inv, [Next]_vars PROVE TypeOK'
  OBVIOUS
<1>1. callbacks' \in 0..Cardinality(Packages) /\ Cardinality(Packages) \in Nat
  <2>1. LoaderInv'
    BY NextLoader
  <2>2. IsFiniteSet(Packages) /\ Done' \subseteq Packages
    BY PackagesAreFinite DEF Done
  <2> QED
    BY <2>1, <2>2, FS_CardinalityType, FS_Subset DEF LoaderInv
<1>2. CASE UNCHANGED vars
  BY <1>2 DEF vars, Inv, TypeOK
<1>3. ASSUME NEW p \in PluginNames, CopyPlugin(p) PROVE TypeOK'
  BY <1>3 DEF CopyPlugin, call, installed, history, Inv, TypeOK
<1>4. ASSUME NEW p \in Packages, LoadPackage(p) \/ HookAttach(p) PROVE TypeOK'
  BY <1>1, <1>4 DEF LoadPackage, HookAttach, call, installed, history, Inv, TypeOK
<1>5. ASSUME NEW context \in BOOLEAN, Attach(context) PROVE TypeOK'
  <2>1. attaches' \in 0..MaxAttaches
    BY <1>5, AttachesAreCounted DEF Attach, Inv, TypeOK
  <2> QED
    BY <1>5, <2>1 DEF Attach, env, installed, history, Goto, Inv, TypeOK
<1>6. CASE Callback
  <2>1. /\ UNCHANGED env /\ todo \in 1..Cardinality(Packages)
        /\ pkgName \in Packages
        /\ \A i \in 1..2 : Plugins[i] \in PluginNames
    <3>1. UNCHANGED env /\ pc # "app"
      BY <1>6 DEF Callback, AttachReturns, AlreadyHooked, StartCallback, FindPlugin,
         SystemLoad, RetryLoad, DoNativeHook, GetLaunchIntent, HookLoadClass,
         HookSslWrite, Latch, NativeHookFails, PluginLoaded, StartHookJavaThrows, Goto
    <3> QED
      BY <1>1, <3>1, TwoPlugins DEF Inv, TypeOK, LoaderInv
  <2> USE <2>1, <1>1, TwoPlugins DEF Inv, TypeOK, env, call, installed, history, Goto
  <2>2. ASSUME EndCallback,
               UNCHANGED <<env, installed, attaches, hasContext>>,
               isAppHooked' \in BOOLEAN, nullAttach' \in BOOLEAN, javaFailures' \in Nat
        PROVE  TypeOK'
    BY <2>2 DEF EndCallback
  <2>3. CASE AttachReturns \/ StartCallback \/ HookLoadClass
    <3>1. CASE AttachReturns
      BY <3>1 DEF AttachReturns
    <3>2. CASE StartCallback
      BY <3>2 DEF StartCallback
    <3>3. CASE HookLoadClass
      BY <3>3 DEF HookLoadClass
    <3> QED
      BY <2>3, <3>1, <3>2, <3>3
  <2>4. CASE AlreadyHooked \/ Latch
    BY <2>2, <2>4 DEF AlreadyHooked, Latch
  <2>5. NativeHookFails => TypeOK'
    BY <2>2 DEF NativeHookFails
  <2>6. StartHookJavaThrows => TypeOK'
    BY <2>2 DEF StartHookJavaThrows
  <2>7. CASE FindPlugin
    BY <2>5, <2>7 DEF FindPlugin
  <2>8. ASSUME PluginLoaded, pc' = "native", next <= Len(Plugins) PROVE TypeOK'
    BY <2>8 DEF PluginLoaded
  <2>9. pc \in {"load", "retry"} => next <= Len(Plugins)
    BY DEF AttemptInv
  <2>10. CASE SystemLoad \/ RetryLoad
    BY <2>5, <2>8, <2>9, <2>10 DEF SystemLoad, RetryLoad
  <2>11. CASE DoNativeHook
    <3>1. pkg \in Packages
      BY <2>11 DEF DoNativeHook, AttemptInv, Working
    <3>2. Append(nativePkgs, pkg) \in Seq(Packages)
      BY <3>1
    <3> QED
      BY <2>5, <2>11, <3>2 DEF DoNativeHook
  <2>12. CASE GetLaunchIntent \/ HookSslWrite
    <3>1. CASE GetLaunchIntent
      BY <2>6, <3>1 DEF GetLaunchIntent
    <3>2. CASE HookSslWrite
      BY <2>6, <3>2 DEF HookSslWrite
    <3> QED
      BY <2>12, <3>1, <3>2
  <2> QED
    BY <1>6, <2>3, <2>4, <2>7, <2>10, <2>11, <2>12 DEF Callback
<1> QED
  BY <1>2, <1>3, <1>4, <1>5, <1>6 DEF Next

(* The shapes a step can have for AttemptInv and CountInv.                  *)
LEMMA NextAttempt == Inv /\ [Next]_vars => AttemptInv' /\ CountInv'
<1> SUFFICES ASSUME Inv, [Next]_vars PROVE AttemptInv' /\ CountInv'
  OBVIOUS
<1> USE DEF Working, Goto
<1>1. CASE UNCHANGED <<device, isAppHooked, pc, pkg, next, installed, history>>
  BY <1>1 DEF Inv, AttemptInv, CountInv, Complete, installed, history
<1>2. ASSUME NEW context \in BOOLEAN, Attach(context) PROVE AttemptInv' /\ CountInv'
  BY <1>2 DEF Attach, env, installed, history, Inv, AttemptInv, CountInv, Complete
<1>3. ASSUME pc # "latch", pc # "app", EndCallback,
             UNCHANGED <<device, isAppHooked, installed, nullAttach>>,
             \/ javaFailures' = javaFailures /\ pc \notin {"intent", "class", "ssl"}
             \/ javaFailures' = javaFailures + 1 /\ device.maimai
                /\ (pc = "ssl" => ~device.conscrypt)
      PROVE  AttemptInv' /\ CountInv'
  <2>1. pc' \in {"app", "callback"} /\ next' = 1
    BY <1>3 DEF EndCallback
  <2>2. AttemptInv'
    BY <1>3, <2>1 DEF installed, Inv, AttemptInv, Complete
  <2>3. CountInv'
    BY <1>3, <2>1 DEF installed, Inv, TypeOK, AttemptInv, CountInv
  <2> QED
    BY <2>2, <2>3
<1>4. CASE AttachReturns
  BY <1>4 DEF AttachReturns, env, call, installed, history, Inv, AttemptInv, CountInv, Complete
<1>5. CASE AlreadyHooked
  BY <1>3, <1>5 DEF AlreadyHooked, env, history
<1>6. CASE StartCallback
  <2>1. pkgName \in Packages
    BY <1>6 DEF StartCallback, Inv, LoaderInv
  <2>2. AttemptInv'
    BY <1>6, <2>1 DEF StartCallback, env, installed, Inv, AttemptInv, Complete
  <2>3. CountInv'
    BY <1>6 DEF StartCallback, env, installed, Inv, CountInv
  <2> QED
    BY <2>2, <2>3
<1>7. ASSUME NativeHookFails, pc \in {"native", "load", "retry"}
      PROVE  AttemptInv' /\ CountInv'
  BY <1>3, <1>7 DEF NativeHookFails, env, history
<1>8. ASSUME StartHookJavaThrows, pc \in {"intent", "ssl"}, pc = "ssl" => ~device.conscrypt
      PROVE  AttemptInv' /\ CountInv'
  <2>1. device.maimai
    BY <1>8 DEF Inv, AttemptInv
  <2> QED
    BY <1>3, <1>8, <2>1 DEF StartHookJavaThrows, env
<1>9. ASSUME pc \in {"native", "load"}, pc' \in {"load", "retry"}, next <= Len(Plugins),
             UNCHANGED <<env, call, installed, history, isAppHooked>>
      PROVE  AttemptInv' /\ CountInv'
  BY <1>9 DEF env, call, installed, history, Inv, AttemptInv, CountInv, Complete
<1>10. CASE FindPlugin
  BY <1>7, <1>9, <1>10 DEF FindPlugin
<1>11. ASSUME PluginLoaded, pc \in {"load", "retry"}, pc' = "native"
       PROVE  AttemptInv' /\ CountInv'
  <2>1. libs' = libs \cup {Plugins[next]} /\ next' = next + 1 /\ next \in Nat
    BY <1>11 DEF PluginLoaded, Inv, TypeOK
  <2>2. \A i \in 1..(next' - 1) : Plugins[i] \in libs'
    BY <1>11, <2>1 DEF Inv, AttemptInv
  <2>3. AttemptInv'
    BY <1>11, <2>2 DEF PluginLoaded, env, history, Inv, AttemptInv, Complete
  <2>4. CountInv'
    BY <1>11 DEF PluginLoaded, env, history, Inv, CountInv
  <2> QED
    BY <2>3, <2>4
<1>12. CASE SystemLoad \/ RetryLoad
  BY <1>7, <1>9, <1>11, <1>12 DEF SystemLoad, RetryLoad, Inv, AttemptInv
<1>13. CASE DoNativeHook
  <2>1. CASE device.load = "unbound"
    BY <1>7, <1>13, <2>1 DEF DoNativeHook
  <2>2. CASE device.load # "unbound"
    <3>1. libs = PluginNames
      <4>1. next = 3
        BY <1>13, TwoPlugins DEF DoNativeHook, Inv, TypeOK
      <4>2. Plugins[1] \in libs /\ Plugins[2] \in libs
        BY <1>13, <4>1 DEF DoNativeHook, Inv, AttemptInv
      <4> QED
        BY <4>2, TwoPlugins DEF Inv, TypeOK
    <3>2. /\ nativePkgs' # <<>> /\ Len(nativePkgs') = Len(nativePkgs) + 1
          /\ Len(nativePkgs) \in Nat
      <4>1. /\ nativePkgs' = Append(nativePkgs, pkg)
            /\ pkg \in Packages /\ nativePkgs \in Seq(Packages)
        BY <1>13, <2>2 DEF DoNativeHook, Inv, AttemptInv, TypeOK
      <4> QED
        BY <4>1
    <3>3. CASE device.maimai
      <4>1. /\ pc' = "intent"
            /\ UNCHANGED <<env, call, history, isAppHooked, libs, classHooks, sslHooks>>
        BY <1>13, <2>2, <3>3 DEF DoNativeHook
      <4>2. AttemptInv'
        BY <1>13, <3>1, <3>2, <3>3, <4>1 DEF DoNativeHook, env, call, history, Inv, AttemptInv
      <4>3. CountInv'
        BY <1>13, <3>2, <3>3, <4>1
           DEF DoNativeHook, env, call, history, Inv, TypeOK, AttemptInv, CountInv
      <4> QED
        BY <4>2, <4>3
    <3>4. CASE ~device.maimai
      <4>1. /\ pc' = "latch"
            /\ UNCHANGED <<env, call, history, isAppHooked, libs, classHooks, sslHooks>>
        BY <1>13, <2>2, <3>4 DEF DoNativeHook
      <4>2. AttemptInv'
        BY <1>13, <3>1, <3>2, <3>4, <4>1
           DEF DoNativeHook, env, call, history, Inv, AttemptInv, Complete
      <4>3. CountInv'
        BY <1>13, <3>2, <3>4, <4>1
           DEF DoNativeHook, env, call, history, Inv, TypeOK, AttemptInv, CountInv
      <4> QED
        BY <4>2, <4>3
    <3> QED
      BY <3>3, <3>4
  <2> QED
    BY <2>1, <2>2
<1>14. CASE GetLaunchIntent
  <2>1. CASE pkgName \in Launchable
    BY <1>14, <2>1 DEF GetLaunchIntent, StartHookJavaThrows, env, call, installed, history,
                       Inv, AttemptInv, CountInv, Complete
  <2>2. CASE pkgName \notin Launchable
    BY <1>8, <1>14, <2>2 DEF GetLaunchIntent
  <2> QED
    BY <2>1, <2>2
<1>15. CASE HookLoadClass
  <2>1. AttemptInv'
    BY <1>15 DEF HookLoadClass, env, call, history, Inv, TypeOK, AttemptInv, Complete
  <2>2. CountInv'
    BY <1>15 DEF HookLoadClass, env, call, history, Inv, TypeOK, AttemptInv, CountInv
  <2> QED
    BY <2>1, <2>2
<1>16. CASE HookSslWrite
  <2>1. CASE device.conscrypt
    <3>1. /\ pc = "ssl" /\ pc' = "latch" /\ sslHooks' = sslHooks + 1
          /\ UNCHANGED <<env, call, history, isAppHooked, libs, nativePkgs, classHooks>>
      BY <1>16, <2>1 DEF HookSslWrite
    <3>2. AttemptInv'
      BY <3>1 DEF env, call, history, Inv, TypeOK, AttemptInv, Complete
    <3>3. CountInv'
      BY <3>1 DEF env, call, history, Inv, TypeOK, AttemptInv, CountInv
    <3> QED
      BY <3>2, <3>3
  <2>2. CASE ~device.conscrypt
    BY <1>8, <1>16, <2>2 DEF HookSslWrite
  <2> QED
    BY <2>1, <2>2
<1>17. CASE Latch
  <2>1. /\ pc' \in {"app", "callback"} /\ next' = 1 /\ isAppHooked'
        /\ UNCHANGED <<env, installed, history>>
    BY <1>17 DEF Latch, EndCallback
  <2>2. AttemptInv'
    BY <1>17, <2>1 DEF Latch, env, installed, history, Inv, AttemptInv, Complete
  <2>3. CountInv'
    BY <1>17, <2>1 DEF Latch, env, installed, history, Inv, CountInv
  <2> QED
    BY <2>2, <2>3
<1>18. UNCHANGED vars \/ (\E p \in PluginNames : CopyPlugin(p))
       \/ (\E p \in Packages : LoadPackage(p) \/ HookAttach(p)) => AttemptInv' /\ CountInv'
  BY <1>1 DEF CopyPlugin, LoadPackage, HookAttach, vars, call, installed, history
<1> QED
  BY <1>2, <1>4, <1>5, <1>6, <1>10, <1>12, <1>13, <1>14, <1>15, <1>16, <1>17, <1>18,
     Zenon DEF Next, Callback

(* So the invariant holds forever.                                          *)
LEMMA InvAlways == Spec => []Inv
<1>1. Inv /\ [Next]_vars => Inv'
  BY NextType, NextLoader, NextAttempt DEF Inv
<1> QED
  BY <1>1, InitInv, PTL DEF Spec

-----------------------------------------------------------------------------

(* The fields of HookEntry, the loading and the hooks keep their types; an  *)
(* attach never has more callbacks left than packages were loaded.          *)
THEOREM TypeCorrect == Spec => []TypeOK
<1>1. Inv => TypeOK
  BY DEF Inv
<1> QED
  BY <1>1, InvAlways, PTL

(* isAppHooked is set only when the hooks are complete, or by an attach     *)
(* with a null context.                                                     *)
THEOREM HookedIsInstalled == Spec => []HookedMeansInstalled
<1>1. Inv => HookedMeansInstalled
  BY DEF Inv, AttemptInv, Complete, HookedMeansInstalled
<1> QED
  BY <1>1, InvAlways, PTL

(* SSLOutputStream.write is hooked once at most, and so is loadClass where  *)
(* the SSL class exists.                                                    *)
THEOREM HooksStaySingle == Spec => []HooksAreSingle
<1>1. Inv => HooksAreSingle
  BY DEF Inv, CountInv, HooksAreSingle
<1> QED
  BY <1>1, InvAlways, PTL

(* doNativeHook runs once, and once more for each exception startHookJava   *)
(* threw behind it.                                                         *)
THEOREM NativeHookIsBounded == Spec => []NativeHookRunsOnce
<1>1. Inv => NativeHookRunsOnce
  BY DEF Inv, TypeOK, CountInv, NativeHookRunsOnce
<1> QED
  BY <1>1, InvAlways, PTL

(* After isAppHooked is set no step of the module installs anything.        *)
THEOREM HookingStaysFinal == Spec => HookingIsFinal
<1>1. Inv /\ [Next]_vars => [isAppHooked => isAppHooked' /\ UNCHANGED installed]_vars
  <2> SUFFICES ASSUME Inv, Next, isAppHooked PROVE isAppHooked' /\ UNCHANGED installed
    OBVIOUS
  <2>1. pc \notin Working
    BY DEF Inv, AttemptInv
  <2> QED
    BY <2>1 DEF Working, Next, CopyPlugin, LoadPackage, HookAttach, Attach, Callback,
       AttachReturns, AlreadyHooked, StartCallback, FindPlugin, SystemLoad, RetryLoad,
       DoNativeHook, GetLaunchIntent, HookLoadClass, HookSslWrite, Latch, Goto
<1> QED
  BY <1>1, InvAlways, PTL DEF Spec, HookingIsFinal

-----------------------------------------------------------------------------

(* The steps an attempt may still take, ends included: three for a plugin   *)
(* (its file, the load, the load by reflection), one for doNativeHook, and  *)
(* those of startHookJava and of line 59.                                   *)
AttemptRank ==
  CASE pc = "native" -> 3 * (Len(Plugins) + 1 - next) + 5
    [] pc = "load"   -> 3 * (Len(Plugins) + 1 - next) + 4
    [] pc = "retry"  -> 3 * (Len(Plugins) + 1 - next) + 3
    [] pc = "intent" -> 4
    [] pc = "class"  -> 3
    [] pc = "ssl"    -> 2
    [] pc = "latch"  -> 1

(* What the attempt has come to at its end.                                 *)
EndsWell == isAppHooked' \/ javaFailures' > javaFailures

(* A step of the main thread brings the attempt nearer to its end, other    *)
(* steps leave it where it is, and a failure has its reasons.               *)
AttemptAdvances ==
  pc \in Working =>
    /\ AttemptRank \in 1..11
    /\ Callback /\ pc' \in Working => AttemptRank' < AttemptRank
    /\ Callback /\ pc' \notin Working => EndsWell \/ ~Loadable \/ ~Deployed
    /\ ~Callback => AttemptRank' = AttemptRank

(* A place of an attempt has a rank.                                        *)
LEMMA AttemptRankBounds ==
  ASSUME next \in 1..3, pc \in Working,
         pc \in {"load", "retry"} => next <= Len(Plugins)
  PROVE  AttemptRank \in 1..11
  BY TwoPlugins DEF AttemptRank, Working

(* An attempt to hook takes at most AttemptRank more steps, which nothing   *)
(* but the main thread takes, and it ends hooked or by an exception of      *)
(* startHookJava unless the module cannot be loaded or a plugin is not      *)
(* deployed at that moment.  This is what DeployedAttachHooks rests on, for *)
(* any packages and attaches: what is left to it is that the main thread is *)
(* scheduled.                                                               *)
THEOREM AttemptsAdvance == Spec => [][AttemptAdvances]_vars
<1>1. ASSUME Inv, Next, pc \in Working PROVE AttemptAdvances
  <2>1. next \in 1..3 /\ (pc \in {"load", "retry"} => next <= 2)
    BY <1>1, TwoPlugins DEF Inv, TypeOK, AttemptInv
  <2>2. AttemptRank \in 1..11
    BY <1>1, <2>1, TwoPlugins, AttemptRankBounds
  <2>3. ASSUME Callback
        PROVE  IF pc' \in Working
               THEN AttemptRank' < AttemptRank
               ELSE EndsWell \/ ~Loadable \/ ~Deployed
    <3>1. NativeHookFails \/ StartHookJavaThrows => pc' \notin Working
      BY DEF NativeHookFails, StartHookJavaThrows, EndCallback, Working
    <3>2. StartHookJavaThrows => EndsWell
      BY <1>1 DEF StartHookJavaThrows, EndsWell, Inv, TypeOK
    <3>3. next <= 2 => Plugins[next] \in PluginNames
      BY <2>1, TwoPlugins
    <3>4. CASE FindPlugin
      <4>1. CASE file[Plugins[next]] = "absent"
        BY <3>1, <3>3, <3>4, <4>1, TwoPlugins DEF FindPlugin, Deployed
      <4>2. CASE file[Plugins[next]] # "absent"
        <5>1. pc = "native" /\ pc' = "load" /\ next' = next
          BY <3>4, <4>2 DEF FindPlugin, Goto, call
        <5> QED
          BY <2>1, <5>1, TwoPlugins DEF AttemptRank, Working
      <4> QED
        BY <4>1, <4>2
    <3>5. ASSUME PluginLoaded, pc \in {"load", "retry"}, pc' = "native"
          PROVE  pc' \in Working /\ AttemptRank' < AttemptRank
      <4>1. next' = next + 1
        BY <3>5 DEF PluginLoaded
      <4> QED
        BY <2>1, <3>5, <4>1, TwoPlugins DEF AttemptRank, Working
    <3>6. CASE SystemLoad
      <4>1. CASE Goto("load", "native") /\ PluginLoaded
        BY <3>5, <4>1 DEF Goto
      <4>2. CASE Goto("load", "retry") /\ next' = next
        BY <2>1, <4>2, TwoPlugins DEF Goto, AttemptRank, Working
      <4>3. ASSUME pc = "load", ~Loads({"direct"}), ~device.sdkP, NativeHookFails
            PROVE  pc' \notin Working /\ (~Loadable \/ ~Deployed)
        BY <2>1, <3>1, <3>3, <4>3 DEF Loads, Loadable, Deployed
      <4> QED
        BY <3>6, <4>1, <4>2, <4>3 DEF SystemLoad, call
    <3>7. CASE RetryLoad
      <4>1. CASE Goto("retry", "native") /\ PluginLoaded
        BY <3>5, <4>1 DEF Goto
      <4>2. ASSUME pc = "retry", ~Loads(Loading \ {"none"}), NativeHookFails
            PROVE  pc' \notin Working /\ (~Loadable \/ ~Deployed)
        <5>1. device.load \in Loading
          BY <1>1 DEF Inv, TypeOK, Device
        <5> QED
          BY <2>1, <3>1, <3>3, <4>2, <5>1 DEF Loads, Loading, Loadable, Deployed
      <4> QED
        BY <3>7, <4>1, <4>2 DEF RetryLoad
    <3>8. CASE DoNativeHook
      <4>1. CASE device.load = "unbound"
        BY <3>1, <3>8, <4>1 DEF DoNativeHook, Loadable
      <4>2. CASE device.load # "unbound"
        <5>1. pc = "native" /\ pc' \in {"intent", "latch"}
          BY <3>8, <4>2 DEF DoNativeHook
        <5> QED
          BY <2>1, <5>1, TwoPlugins DEF AttemptRank, Working
      <4> QED
        BY <4>1, <4>2
    <3>9. CASE GetLaunchIntent \/ HookLoadClass \/ HookSslWrite
      <4>1. CASE StartHookJavaThrows
        BY <3>1, <3>2, <4>1
      <4>2. CASE Goto("intent", "class") \/ Goto("class", "ssl") \/ Goto("ssl", "latch")
        BY <4>2 DEF Goto, AttemptRank, Working
      <4> QED
        BY <3>9, <4>1, <4>2 DEF GetLaunchIntent, HookLoadClass, HookSslWrite
    <3>10. CASE Latch
      BY <3>10 DEF Latch, EndCallback, Working, EndsWell
    <3> QED
      BY <1>1, <2>3, <3>4, <3>6, <3>7, <3>8, <3>9, <3>10
         DEF Callback, AttachReturns, AlreadyHooked, StartCallback, Goto, Working
  <2>4. ASSUME ~Callback PROVE AttemptRank' = AttemptRank
    <3>1. UNCHANGED <<pc, next>>
      BY <1>1, <2>4 DEF Next, CopyPlugin, LoadPackage, HookAttach, Attach, call, Goto,
         Working
    <3> QED
      BY <3>1 DEF AttemptRank
  <2> QED
    BY <1>1, <2>2, <2>3, <2>4 DEF AttemptAdvances
<1>2. Inv /\ [Next]_vars => [AttemptAdvances]_vars
  BY <1>1 DEF AttemptAdvances
<1> QED
  BY <1>2, InvAlways, PTL DEF Spec
=============================================================================

----------------------------- MODULE HookSession -----------------------------
(***************************************************************************)
(* HookEntry.java: what the module does inside the process of a target      *)
(* application.  Xposed calls handleLoadPackage for every package the        *)
(* process loads, on the thread that loads it; each call adds a callback to *)
(* Application.attach.  Attaches happen on the main thread and run, after   *)
(* the original, the callbacks that existed when they began; an exception   *)
(* of a callback is logged by Xposed and the next one runs.                 *)
(*                                                                         *)
(* The fields of HookEntry are shared without a lock, and the libraries it  *)
(* loads are files that MainActivity's cp processes may still be writing.   *)
(* Abstracted: class names and class loaders (every class looked up is a    *)
(* class of the boot class path) and what the Java hooks log.               *)
(***************************************************************************)
EXTENDS Integers, Sequences, FiniteSets

CONSTANTS
  Packages,     \* packages that may be loaded into the process
  Own,          \* the one the process is named after
  Launchable,   \* those getLaunchIntentForPackage finds an activity of
  NoPackage,    \* pkgName before handleLoadPackage has run
  MaxAttaches   \* bound: calls of Application.attach

ASSUME OwnIsPackage == Own \in Packages

ASSUME LaunchableArePackages == Launchable \subseteq Packages

ASSUME PackagesAreFinite == IsFiniteSet(Packages)

ASSUME AttachesAreCounted == MaxAttaches \in Nat

ASSUME NoPackageIsNoPackage == NoPackage \notin Packages

VARIABLES
  device,       \* what does not change while the process runs
  file,         \* per plugin: its file in the application's lib directory
  pkgName,      \* the field of HookEntry
  isAppHooked,  \* the field of HookEntry
  loader,       \* per package: where its handleLoadPackage is
  callbacks,    \* attach callbacks registered so far
  attaches,     \* attach calls begun
  pc,           \* where the main thread is
  todo,         \* callbacks this attach has yet to finish
  hasContext,   \* the argument of this attach is not null
  pkg,          \* the argument of hookAppNativeLib
  next,         \* index of the plugin hookAppNativeLib is at
  libs,         \* plugins loaded into the process
  nativePkgs,   \* arguments of the doNativeHook calls, in order
  classHooks,   \* hooks on ClassLoader.loadClass
  sslHooks,     \* hooks on SSLOutputStream.write
  nullAttach,   \* history: a callback ran for an attach of a null context
  javaFailures  \* history: exceptions thrown by startHookJava

vars == <<device, file, pkgName, isAppHooked, loader, callbacks, attaches, pc,
          todo, hasContext, pkg, next, libs, nativePkgs, classHooks, sslHooks,
          nullAttach, javaFailures>>

env == <<device, file, pkgName, loader, callbacks>>

call == <<attaches, todo, hasContext, pkg, next>>

installed == <<libs, nativePkgs, classHooks, sslHooks>>

history == <<nullAttach, javaFailures>>

(* hookPluginSoNames, in order.                                             *)
Plugins == <<"unicornvm", "haha123">>

PluginNames == {Plugins[i] : i \in DOMAIN Plugins}

(* Which call of System.load the system accepts from this module: the       *)
(* direct one, only the one by reflection, only that one and without        *)
(* binding the native methods of HookEntry to the library, or none.         *)
Loading == {"direct", "reflection", "unbound", "none"}

Device == [maimai: BOOLEAN, load: Loading, sdkP: BOOLEAN, conscrypt: BOOLEAN]

TypeOK ==
  /\ device \in Device
  /\ file \in [PluginNames -> {"absent", "partial", "complete"}]
  /\ pkgName \in Packages \cup {NoPackage}
  /\ isAppHooked \in BOOLEAN
  /\ loader \in [Packages -> {"none", "named", "done"}]
  /\ callbacks \in 0..Cardinality(Packages)
  /\ attaches \in 0..MaxAttaches
  /\ pc \in {"app", "attach", "callback", "native", "load", "retry", "intent",
             "class", "ssl", "latch"}
  /\ todo \in 0..Cardinality(Packages)
  /\ hasContext \in BOOLEAN
  /\ pkg \in Packages \cup {NoPackage}
  /\ next \in 1..(Len(Plugins) + 1)
  /\ libs \subseteq PluginNames
  /\ nativePkgs \in Seq(Packages)
  /\ classHooks \in Nat /\ sslHooks \in Nat
  /\ nullAttach \in BOOLEAN
  /\ javaFailures \in Nat

Init ==
  /\ device \in Device
  /\ file \in [PluginNames -> {"absent", "complete"}]
  /\ pkgName = NoPackage
  /\ isAppHooked = FALSE
  /\ loader = [p \in Packages |-> "none"]
  /\ callbacks = 0
  /\ attaches = 0
  /\ pc = "app"
  /\ todo = 0
  /\ hasContext = TRUE
  /\ pkg = NoPackage
  /\ next = 1
  /\ libs = {}
  /\ nativePkgs = <<>>
  /\ classHooks = 0 /\ sslHooks = 0
  /\ nullAttach = FALSE
  /\ javaFailures = 0

Goto(from, to) == pc = from /\ pc' = to

-----------------------------------------------------------------------------

(* MainActivity's cp of a plugin, which nobody waits for: it creates or     *)
(* truncates the file, then writes it.                                      *)
CopyPlugin(p) ==
  /\ file' = [file EXCEPT ![p] = IF @ = "partial" THEN "complete" ELSE "partial"]
  /\ UNCHANGED <<call, installed, history, device, pkgName, loader, callbacks,
                 isAppHooked, pc>>

(* handleLoadPackage(p) in a target process: lines 37-40, once per package; *)
(* the process's own package is loaded before any other.                    *)
LoadPackage(p) ==
  /\ loader[p] = "none"
  /\ p # Own => loader[Own] = "done"
  /\ loader' = [loader EXCEPT ![p] = "named"]
  /\ pkgName' = p
  /\ UNCHANGED <<call, installed, history, device, file, isAppHooked,
                 callbacks, pc>>

(* Lines 41-62.                                                             *)
HookAttach(p) ==
  /\ loader[p] = "named"
  /\ loader' = [loader EXCEPT ![p] = "done"]
  /\ callbacks' = callbacks + 1
  /\ UNCHANGED <<call, installed, history, device, file, pkgName, isAppHooked,
                 pc>>

-----------------------------------------------------------------------------

(* Application.attach begins: Xposed takes a snapshot of the callbacks.     *)
Attach(context) ==
  /\ loader[Own] = "done"
  /\ attaches < MaxAttaches
  /\ Goto("app", "attach")
  /\ attaches' = attaches + 1
  /\ todo' = callbacks
  /\ hasContext' = context
  /\ UNCHANGED <<env, installed, history, isAppHooked, pkg, next>>

(* The original attach has returned.                                        *)
AttachReturns ==
  /\ Goto("attach", "callback")
  /\ UNCHANGED <<env, call, installed, history, isAppHooked>>

(* A callback ends, normally or by an exception; the next one runs.         *)
EndCallback ==
  /\ pc' = IF todo > 1 THEN "callback" ELSE "app"
  /\ todo' = todo - 1
  /\ pkg' = NoPackage
  /\ next' = 1

(* Line 45.                                                                 *)
AlreadyHooked ==
  /\ pc = "callback"
  /\ isAppHooked
  /\ EndCallback
  /\ UNCHANGED <<env, installed, history, isAppHooked, attaches, hasContext>>

(* Mutation of StartCallback: isAppHooked is not tested.                    *)
StartCallbackAgain ==
  /\ pc = "callback"
  /\ IF hasContext
     THEN Goto("callback", "native") /\ pkg' = pkgName /\ UNCHANGED nullAttach
     ELSE Goto("callback", "latch") /\ nullAttach' = TRUE /\ UNCHANGED pkg
  /\ UNCHANGED <<env, installed, isAppHooked, attaches, todo, hasContext,
                 next, javaFailures>>

(* Lines 46-50: a null context skips the hooks; otherwise hookAppNativeLib  *)
(* is called with the field as it is now.                                   *)
StartCallback ==
  /\ pc = "callback"
  /\ ~isAppHooked
  /\ IF hasContext
     THEN Goto("callback", "native") /\ pkg' = pkgName /\ UNCHANGED nullAttach
     ELSE Goto("callback", "latch") /\ nullAttach' = TRUE /\ UNCHANGED pkg
  /\ UNCHANGED <<env, installed, isAppHooked, attaches, todo, hasContext,
                 next, javaFailures>>

(* Mutation of NativeHookFails: the return of line 52 is missing.           *)
NativeFailureIgnored ==
  /\ pc' = "latch"
  /\ UNCHANGED <<env, call, installed, history, isAppHooked>>

(* Lines 51-53; the libraries loaded so far stay.                           *)
NativeHookFails ==
  /\ EndCallback
  /\ UNCHANGED <<env, installed, history, isAppHooked, attaches, hasContext>>

(* The file test of load; without the directory there is no file.           *)
FindPlugin ==
  /\ pc = "native"
  /\ next <= Len(Plugins)
  /\ IF file[Plugins[next]] = "absent"
     THEN NativeHookFails
     ELSE /\ Goto("native", "load")
          /\ UNCHANGED <<env, call, installed, history, isAppHooked>>

(* System.load, called the accepted way, loads a complete file; it returns  *)
(* at once for a library that is loaded already, without reading the file.  *)
Loads(ways) ==
  /\ Plugins[next] \in libs \/ file[Plugins[next]] = "complete"
  /\ device.load \in ways

PluginLoaded ==
  /\ libs' = libs \cup {Plugins[next]}
  /\ next' = next + 1
  /\ UNCHANGED <<env, history, isAppHooked, attaches, todo, hasContext, pkg,
                 nativePkgs, classHooks, sslHooks>>

(* Mutation of SystemLoad: the load is not tried by reflection.             *)
SystemLoadOnce ==
  \/ Goto("load", "native") /\ Loads({"direct"}) /\ PluginLoaded
  \/ pc = "load" /\ ~Loads({"direct"}) /\ NativeHookFails

SystemLoad ==
  \/ Goto("load", "native") /\ Loads({"direct"}) /\ PluginLoaded
  \/ /\ Goto("load", "retry")
     /\ ~Loads({"direct"})
     /\ device.sdkP
     /\ UNCHANGED <<env, call, installed, history, isAppHooked>>
  \/ /\ pc = "load"
     /\ ~Loads({"direct"})
     /\ ~device.sdkP
     /\ NativeHookFails

(* Lines 191-202: the same call by reflection; the file may have been       *)
(* completed since.                                                         *)
RetryLoad ==
  \/ Goto("retry", "native") /\ Loads(Loading \ {"none"}) /\ PluginLoaded
  \/ pc = "retry" /\ ~Loads(Loading \ {"none"}) /\ NativeHookFails

(* Line 173, or its UnsatisfiedLinkError.                                   *)
DoNativeHook ==
  /\ pc = "native"
  /\ next > Len(Plugins)
  /\ IF device.load = "unbound"
     THEN NativeHookFails
     ELSE /\ pc' = IF device.maimai THEN "intent" ELSE "latch"
          /\ nativePkgs' = Append(nativePkgs, pkg)
          /\ UNCHANGED <<env, call, history, isAppHooked, libs, classHooks,
                         sslHooks>>

-----------------------------------------------------------------------------

StartHookJavaThrows ==
  /\ EndCallback
  /\ javaFailures' = javaFailures + 1
  /\ UNCHANGED <<env, installed, isAppHooked, attaches, hasContext,
                 nullAttach>>

(* Lines 66-68, with the field as it is now: no launch intent is a null     *)
(* pointer.                                                                 *)
GetLaunchIntent ==
  \/ /\ pkgName \in Launchable
     /\ Goto("intent", "class")
     /\ UNCHANGED <<env, call, installed, history, isAppHooked>>
  \/ pc = "intent" /\ pkgName \notin Launchable /\ StartHookJavaThrows

(* Lines 75-119.                                                            *)
HookLoadClass ==
  /\ Goto("class", "ssl")
  /\ classHooks' = classHooks + 1
  /\ UNCHANGED <<env, call, history, isAppHooked, libs, nativePkgs, sslHooks>>

(* Lines 123-133: the class exists or findAndHookMethod throws.             *)
HookSslWrite ==
  \/ /\ device.conscrypt
     /\ Goto("ssl", "latch")
     /\ sslHooks' = sslHooks + 1
     /\ UNCHANGED <<env, call, history, isAppHooked, libs, nativePkgs,
                    classHooks>>
  \/ pc = "ssl" /\ ~device.conscrypt /\ StartHookJavaThrows

(* Mutation of Latch: the flag is not set.                                  *)
NoLatch ==
  /\ pc = "latch"
  /\ EndCallback
  /\ UNCHANGED <<env, installed, history, isAppHooked, attaches, hasContext>>

(* Line 59.                                                                 *)
Latch ==
  /\ pc = "latch"
  /\ isAppHooked' = TRUE
  /\ EndCallback
  /\ UNCHANGED <<env, installed, history, attaches, hasContext>>

-----------------------------------------------------------------------------

(* The main thread inside an attach.                                        *)
Callback ==
  \/ AttachReturns \/ AlreadyHooked \/ StartCallback
  \/ FindPlugin \/ SystemLoad \/ RetryLoad \/ DoNativeHook
  \/ GetLaunchIntent \/ HookLoadClass \/ HookSslWrite \/ Latch

Next ==
  \/ \E p \in PluginNames : CopyPlugin(p)
  \/ \E p \in Packages : LoadPackage(p) \/ HookAttach(p)
  \/ \E context \in BOOLEAN : Attach(context)
  \/ Callback

Spec == Init /\ [][Next]_vars

(* The main thread is scheduled and nothing in a callback waits.            *)
FairSpec == Spec /\ WF_vars(Callback)

-----------------------------------------------------------------------------

(* isAppHooked tells the truth: unless an attach of a null context set it,   *)
(* both plugins are loaded, the native side was told a package, and in      *)
(* maimai both Java hooks are there.                                        *)
HookedMeansInstalled ==
  isAppHooked =>
    \/ nullAttach
    \/ /\ libs = PluginNames
       /\ nativePkgs # <<>>
       /\ device.maimai => classHooks > 0 /\ sslHooks > 0

(* Nothing is hooked twice, through any number of packages, attaches and    *)
(* failed attempts, but for one case: where the SSL class is missing, every *)
(* attempt hooks loadClass again.                                           *)
HooksAreSingle ==
  /\ sslHooks <= 1
  /\ device.conscrypt => classHooks <= 1

(* doNativeHook runs again only after startHookJava threw, so never in      *)
(* likeread; NativeBridge relies on it for what package_name holds.         *)
NativeHookRunsOnce ==
  /\ Len(nativePkgs) <= 1 + javaFailures
  /\ ~device.maimai => Len(nativePkgs) <= 1

(* Once isAppHooked is set nothing more is installed and it stays set,       *)
(* although every package loaded later registers one more callback.         *)
HookingIsFinal == [][isAppHooked => isAppHooked' /\ UNCHANGED installed]_vars

(* The module can load what is deployed.                                    *)
Loadable ==
  device.load = "direct" \/ (device.load = "reflection" /\ device.sdkP)

Deployed == \A p \in PluginNames : file[p] = "complete"

(* An attach that finds the plugins deployed, and not deployed again while  *)
(* it runs, leaves the process hooked, or startHookJava has thrown, whatever *)
(* failed in earlier attempts.                                              *)
DeployedAttachHooks ==
  pc = "callback" /\ hasContext /\ Loadable /\ []Deployed
    ~> isAppHooked \/ javaFailures > 0
=============================================================================

----------------------------- MODULE HookPipeline -----------------------------
(***************************************************************************)
(* HookEntry.java and native-lib.cpp together: HookSession's main thread    *)
(* loads the library NativeBridge models, and calls its doNativeHook, while *)
(* other threads load libraries and MainActivity's cp replaces the plugins. *)
(* The main thread is in one of the two at a time.                          *)
(***************************************************************************)
EXTENDS NativeBridge

CONSTANTS
  Own, Launchable, NoPackage, MaxAttaches,   \* as in HookSession
  Devices,    \* bound: the devices considered
  Mapped,     \* bound: what may be mapped before the module is loaded
  Replaced    \* bound: the plugins cp replaces

(* HookSession; its pc is step, and its nativePkgs NativeBridge's           *)
(* lastPackage.                                                             *)
VARIABLES
  device, file, pkgName, isAppHooked, loader, callbacks, attaches, step, todo,
  hasContext, pkg, next, libs, classHooks, sslHooks, nullAttach, javaFailures

S == INSTANCE HookSession WITH pc <- step, nativePkgs <- lastPackage

ASSUME OwnIsPackage == Own \in Packages

ASSUME LaunchableArePackages == Launchable \subseteq Packages

ASSUME PackagesAreFinite == IsFiniteSet(Packages)

ASSUME AttachesAreCounted == MaxAttaches \in Nat

ASSUME NoPackageIsNoPackage == NoPackage \notin Packages

ASSUME ReplacedArePlugins == Replaced \subseteq S!PluginNames

(* The session's variables that the library does not have.                  *)
session ==
  <<device, file, pkgName, isAppHooked, loader, callbacks, attaches, step, todo,
    hasContext, pkg, next, libs, classHooks, sslHooks, nullAttach, javaFailures>>

pipelineVars == <<session, vars>>

PipelineInit ==
  /\ S!Init
  /\ Init
  /\ device \in Devices
  /\ mapped \in Mapped
  /\ device.maimai = (Own # Likeread)

-----------------------------------------------------------------------------

(* What other threads and the cp processes do to the session.               *)
Around ==
  /\ \/ \E p \in Replaced : S!CopyPlugin(p)
     \/ \E p \in Packages : S!LoadPackage(p) \/ S!HookAttach(p)
  /\ UNCHANGED vars

(* The main thread is not inside the library.                               *)
MainIsInJava == pc[Main] = "app"

(* The load of libhaha123.so returns when its JNI_OnLoad does; a library    *)
(* that is loaded already is not loaded again.                              *)
LoadsBridge == "haha123" \in libs' \ libs /\ onload = "none"

(* The main thread in HookEntry.                                            *)
InSession ==
  /\ MainIsInJava
  /\ S!Callback
  /\ IF LoadsBridge THEN LoadHookLibrary
     ELSE IF lastPackage' # lastPackage THEN DoNativeHook(pkg)
     ELSE UNCHANGED vars

Attach ==
  /\ MainIsInJava
  /\ \E context \in BOOLEAN : S!Attach(context)
  /\ UNCHANGED vars

(* A thread in the library.  jni_hook_init does not find HookEntry from a   *)
(* library that is not the module's own.                                    *)
InBridge(t) ==
  /\ BridgeCode(t)
  /\ IF device.load = "unbound" THEN ~(InitJni(t) /\ jniReady') ELSE ~InitJniFails(t)
  /\ UNCHANGED session

(* The application loads a library; on the main thread from its own code.   *)
InApp ==
  /\ \/ \E t \in Threads, l \in Libraries :
          /\ t = Main => step \in {"app", "attach"}
          /\ LoadLibrary(t, l)
     \/ \E l \in Libraries : LoadUnseen(l)
  /\ UNCHANGED session

PipelineNext ==
  /\ ~crashed
  /\ \/ Around \/ InSession \/ Attach \/ InApp
     \/ \E t \in Threads : InBridge(t)

PipelineSpec == PipelineInit /\ [][PipelineNext]_pipelineVars

(* As in the two modules: a thread inside a callback or inside the library  *)
(* is scheduled.                                                            *)
FairPipelineSpec ==
  /\ PipelineSpec
  /\ WF_pipelineVars(~crashed /\ InSession)
  /\ \A t \in Threads : WF_pipelineVars(InBridge(t))

-----------------------------------------------------------------------------

(* The two halves, in every interleaving, keep what HookedProcess promises,  *)
(* as long as no callback runs with a null context.                         *)
P == INSTANCE HookedProcess WITH
       watched <- table["android_dlopen_ext"].patched \/ onload = "returned",
       told <- {lastPackage[i] : i \in DOMAIN lastPackage},
       flutter <- table["flutter"].entry,
       settled <- isAppHooked /\ ~nullAttach

KeepsPromise == P!Spec

(* When HookEntry stops trying, library loads reach the module and go on to *)
(* the original, and package_name reads as the package that was told:       *)
(* unless a callback ran with a null context, or a lookup returned NULL.    *)
HookedMeansWatching ==
  isAppHooked /\ ~nullAttach /\ ~nullOpen =>
    /\ table["android_dlopen_ext"].patched
    /\ table["android_dlopen_ext"].ori = "real"
    /\ Reads(Last)

(* From then on no load of libflutter.so is missed in likeread, on any      *)
(* thread, if the package told was likeread's: pkgName may be that of a     *)
(* package loaded later.                                                    *)
LateFlutterIsHooked ==
  \A t \in Threads :
    isAppHooked /\ lastPackage = <<Likeread>> /\ pc[t] = "ori" /\ lib[t] = "libflutter"
      ~> table["flutter"].entry \/ crashed
=============================================================================

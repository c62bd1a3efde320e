----------------------------- MODULE NativeBridge -----------------------------
(***************************************************************************)
(* The native half of the module, native-lib.cpp: JNI_OnLoad hooks          *)
(* android_dlopen_ext, doNativeHook tells the library which package it is   *)
(* in, and from then on fake_dlopen_ext watches every library the process    *)
(* loads and hooks functions of libflutter.so and libdu.so as they appear.   *)
(*                                                                         *)
(* Threads run concurrently, but a load that Java asks for (System.load and  *)
(* System.loadLibrary, synchronized on the Runtime) holds a monitor until    *)
(* JNI_OnLoad or android_dlopen_ext has returned.  Native code may call      *)
(* android_dlopen_ext without it, for libraries this program ignores.        *)
(* Nothing protects package_name.                                           *)
(***************************************************************************)
EXTENDS Integers, FiniteSets, Sequences

CONSTANTS
  Threads,      \* threads of the app process
  Main,         \* the thread that attaches the application
  NoThread,     \* nobody holds the Runtime's monitor
  Packages,     \* names doNativeHook may be called with
  Likeread,     \* "com.festearn.likeread", the package libflutter is hooked in
  NameLength,   \* strlen of each package name
  BufferSize,   \* sizeof package_name: 100 in the code
  MaxNativeHooks  \* bound: doNativeHook calls

ASSUME MainIsThread == Main \in Threads

ASSUME LikereadIsPackage == Likeread \in Packages

ASSUME NulIsNoPackage == "nul" \notin Packages

ASSUME HooksAreCounted == MaxNativeHooks \in Nat

ASSUME NoThreadIsNoThread == NoThread \notin Threads

ASSUME NamesHaveLengths == NameLength \in [Packages -> Nat \ {0}]

ASSUME BufferIsBuffer == BufferSize \in Nat \ {0, 1}

(* The files android_dlopen_ext is called for, and the addresses hooked.    *)
Libraries == {"libdu", "libflutter", "other"}

DuSites == {"decstr", "query", "query_internal", "query_internal_x"}

HookedSites == {"android_dlopen_ext", "flutter"} \cup DuSites

VARIABLES
  package_name,  \* per byte: the package that wrote it, or "nul"
  lastPackage,   \* history: arguments of the doNativeHook calls, in order
  du_ctx,        \* the handle of libdu.so: "null" or "ctx"
  onload,        \* JNI_OnLoad: not called, running, returned
  jniReady,      \* jni_hook_init has cached its classes and method ids
  mapped,        \* the libraries mapped into the process
  monitor,       \* the thread that holds the Runtime's monitor
  pc,            \* per thread: where it is
  lib,           \* per thread: libPath of the android_dlopen_ext it is in
  copied,        \* bytes memcpy has written in doNativeHook
  nullOpen,      \* history: fake_dlopen, fake_dlsym or FindClass has returned NULL
  crashed,       \* the process is gone
  table, job     \* Dobby

INSTANCE Dobby WITH Sites <- HookedSites

name == <<package_name, lastPackage, copied>>

library == <<onload, jniReady>>

dobby == <<table, job>>

end == <<nullOpen, crashed>>

vars == <<package_name, lastPackage, du_ctx, onload, jniReady, mapped, monitor,
          pc, lib, copied, nullOpen, crashed, table, job>>

Locations ==
  {"app",
   "open_libdl", "hook_dlopen",               \* JNI_OnLoad
   "memcpy",                                  \* doNativeHook
   "ori", "package", "hook_flutter",          \* fake_dlopen_ext
   "du", "null_du", "hook_du"}

Bytes == 0..(BufferSize - 1)

TypeOK ==
  /\ package_name \in [Bytes -> Packages \cup {"nul"}]
  /\ lastPackage \in Seq(Packages)
  /\ du_ctx \in {"null", "ctx"}
  /\ onload \in {"none", "running", "returned"}
  /\ jniReady \in BOOLEAN
  /\ mapped \subseteq Libraries
  /\ monitor \in Threads \cup {NoThread}
  /\ pc \in [Threads -> Locations]
  /\ lib \in [Threads -> Libraries]
  /\ copied \in 0..BufferSize
  /\ nullOpen \in BOOLEAN
  /\ crashed \in BOOLEAN
  /\ DobbyTypeOK

Init ==
  /\ package_name = [i \in Bytes |-> "nul"]
  /\ lastPackage = <<>>
  /\ du_ctx = "null"
  /\ onload = "none"
  /\ jniReady = FALSE
  /\ mapped \in SUBSET Libraries
  /\ monitor = NoThread
  /\ pc = [t \in Threads |-> "app"]
  /\ lib = [t \in Threads |-> "other"]
  /\ copied = 0
  /\ nullOpen = FALSE
  /\ crashed = FALSE
  /\ DobbyInit

Goto(t, from, to) ==
  /\ pc[t] = from
  /\ pc' = [pc EXCEPT ![t] = to]

(* What strcmp with the name of p finds in package_name.                    *)
Reads(p) ==
  /\ NameLength[p] < BufferSize
  /\ \A i \in 0..(NameLength[p] - 1) : package_name[i] = p
  /\ package_name[NameLength[p]] = "nul"

(* A monitor t holds is released when its Java load returns.                *)
Release(t) == monitor' = IF monitor = t THEN NoThread ELSE monitor

-----------------------------------------------------------------------------

(* System.load("libhaha123.so"): ART calls JNI_OnLoad, once per process.    *)
LoadHookLibrary ==
  /\ onload = "none"
  /\ monitor = NoThread
  /\ monitor' = Main
  /\ Goto(Main, "app", "open_libdl")
  /\ onload' = "running"
  /\ UNCHANGED <<name, dobby, end, du_ctx, jniReady, mapped, lib>>

(* JNI_OnLoad, lines 237-243.  fake_dlsym dereferences the handle           *)
(* fake_dlopen returns without a test; a symbol it does not find ends       *)
(* JNI_OnLoad early, before jni_hook_init.                                  *)
OpenLibdl(t) ==
  /\ \/ /\ Goto(t, "open_libdl", "hook_dlopen")
        /\ StartJob(t, <<"android_dlopen_ext">>)
        /\ UNCHANGED <<end, onload, monitor>>
     \/ /\ Goto(t, "open_libdl", "app")
        /\ onload' = "returned"
        /\ Release(t)
        /\ nullOpen' = TRUE
        /\ UNCHANGED <<crashed, job>>
     \/ /\ pc[t] = "open_libdl"
        /\ nullOpen' = TRUE
        /\ crashed' = TRUE
        /\ UNCHANGED <<onload, monitor, pc, job>>
  /\ UNCHANGED <<name, du_ctx, jniReady, mapped, lib, table>>

(* GetEnv, jni_hook_init unless GetEnv has left env NULL, and the return of *)
(* JNI_OnLoad to ART.                                                       *)
InitJni(t) ==
  /\ Goto(t, "hook_dlopen", "app")
  /\ ~Busy(t)
  /\ jniReady' \in BOOLEAN
  /\ onload' = "returned"
  /\ Release(t)
  /\ UNCHANGED <<name, dobby, end, du_ctx, mapped, lib>>

(* jni_hook_init: a library that belongs to another class loader does not    *)
(* find HookEntry, and GetStaticMethodID of a null class aborts.            *)
InitJniFails(t) ==
  /\ pc[t] = "hook_dlopen"
  /\ ~Busy(t)
  /\ nullOpen' = TRUE
  /\ crashed' = TRUE
  /\ UNCHANGED <<name, library, dobby, du_ctx, mapped, monitor, pc, lib>>

-----------------------------------------------------------------------------

(* doNativeHook(pkg), callable once the library is loaded.                  *)
DoNativeHook(pkg) ==
  /\ onload = "returned"
  /\ Len(lastPackage) < MaxNativeHooks
  /\ Goto(Main, "app", "memcpy")
  /\ lastPackage' = Append(lastPackage, pkg)
  /\ copied' = 0
  /\ UNCHANGED <<library, dobby, end, package_name, du_ctx, mapped, monitor,
                 lib>>

Last == lastPackage[Len(lastPackage)]

(* Mutations of CopyLength: no limit, a limit without room for the          *)
(* terminator, one byte too few.                                            *)
CopyLengthUnlimited(pkg) == NameLength[pkg]

CopyLengthFull(pkg) ==
  IF NameLength[pkg] >= BufferSize THEN BufferSize ELSE NameLength[pkg]

CopyLengthShort(pkg) ==
  IF NameLength[pkg] >= BufferSize THEN BufferSize - 1 ELSE NameLength[pkg] - 1

(* len of lines 179-182: at most one byte less than the buffer holds, and   *)
(* the terminator is not copied.                                            *)
CopyLength(pkg) ==
  IF NameLength[pkg] >= BufferSize THEN BufferSize - 1 ELSE NameLength[pkg]

(* memcpy, byte by byte, while other threads may compare.                   *)
CopyByte ==
  /\ pc[Main] = "memcpy"
  /\ copied < CopyLength(Last)
  /\ package_name' = [package_name EXCEPT ![copied] = Last]
  /\ copied' = copied + 1
  /\ UNCHANGED <<library, dobby, end, lastPackage, du_ctx, mapped, monitor,
                 pc, lib>>

(* The rest of doNativeHook changes nothing.                                *)
EndNativeHook ==
  /\ Goto(Main, "memcpy", "app")
  /\ copied = CopyLength(Last)
  /\ UNCHANGED <<name, library, dobby, end, du_ctx, mapped, monitor, lib>>

-----------------------------------------------------------------------------

(* A thread calls android_dlopen_ext, from Java under the monitor or from   *)
(* native code for a library that is not watched.  The call is intercepted  *)
(* once the function is patched.                                            *)
LoadLibrary(t, l) ==
  /\ table["android_dlopen_ext"].patched
  /\ \/ monitor = NoThread /\ monitor' = t
     \/ l = "other" /\ UNCHANGED monitor
  /\ Goto(t, "app", "ori")
  /\ lib' = [lib EXCEPT ![t] = l]
  /\ UNCHANGED <<name, library, dobby, end, du_ctx, mapped>>

(* Before that the process loads libraries unseen.                          *)
LoadUnseen(l) ==
  /\ ~table["android_dlopen_ext"].patched
  /\ monitor = NoThread
  /\ l \notin mapped
  /\ mapped' = mapped \cup {l}
  /\ UNCHANGED <<name, library, dobby, end, du_ctx, monitor, pc, lib>>

(* ori_dlopen_ext succeeds or fails.                                        *)
CallOriginal(t) ==
  /\ IF table["android_dlopen_ext"].ori = "real"
     THEN /\ Goto(t, "ori", "package")
          /\ mapped' \in {mapped, mapped \cup {lib[t]}}
          /\ UNCHANGED crashed
     ELSE /\ pc[t] = "ori"
          /\ crashed' = TRUE
          /\ UNCHANGED <<mapped, pc>>
  /\ UNCHANGED <<name, library, dobby, du_ctx, monitor, lib, nullOpen>>

(* Mutation of Watched: the package is not compared.                        *)
WatchedAnywhere(t) == lib[t] = "libflutter"

(* The tests of lines 131-132.                                              *)
Watched(t) == Reads(Likeread) /\ lib[t] = "libflutter"

(* Lines 133-137.  fake_dlopen finds a library only when it is mapped.      *)
HookFlutter(t) ==
  /\ Goto(t, "package", "hook_flutter")
  /\ Watched(t)
  /\ lib[t] \in mapped
  /\ StartJob(t, <<"flutter">>)
  /\ UNCHANGED <<name, library, end, du_ctx, mapped, monitor, lib, table>>

SkipFlutter(t) ==
  /\ Goto(t, "package", "du")
  /\ ~Watched(t)
  /\ UNCHANGED <<name, library, dobby, end, du_ctx, mapped, monitor, lib>>

FlutterHooked(t) ==
  /\ Goto(t, "hook_flutter", "du")
  /\ ~Busy(t)
  /\ UNCHANGED <<name, library, dobby, end, du_ctx, mapped, monitor, lib>>

(* Mutation of DuOrder: the fourth call is missing.                         *)
DuOrderOfThree == <<"decstr", "query", "query_internal">>

(* The DobbyHook calls of lines 144-150.                                    *)
DuOrder == <<"decstr", "query", "query_internal", "query_internal_x">>

(* Mutation of HookDu: the handle is kept in a local variable only.         *)
HookDuLocally(t) ==
  /\ Goto(t, "du", "hook_du")
  /\ lib[t] = "libdu"
  /\ lib[t] \in mapped
  /\ StartJob(t, DuOrder)
  /\ UNCHANGED <<name, library, end, du_ctx, mapped, monitor, lib, table>>

(* Lines 140-150.                                                           *)
HookDu(t) ==
  /\ Goto(t, "du", "hook_du")
  /\ lib[t] = "libdu"
  /\ lib[t] \in mapped
  /\ du_ctx' = "ctx"
  /\ StartJob(t, DuOrder)
  /\ UNCHANGED <<name, library, end, mapped, monitor, lib, table>>

(* fake_dlopen returns NULL for a library that failed to load, and may do   *)
(* so for a mapped one (no line of /proc/self/maps names it, or its file    *)
(* cannot be read).  Lines 134-135: the local so_info is dereferenced       *)
(* untested.                                                                *)
FakeDlopenFails(t) ==
  /\ pc[t] = "package"
  /\ Watched(t)
  /\ nullOpen' = TRUE
  /\ crashed' = TRUE
  /\ UNCHANGED <<name, library, dobby, du_ctx, mapped, monitor, pc, lib>>

(* Line 141: the NULL goes to the global du_ctx, which other threads read,  *)
(* even when an earlier load of libdu.so has set it.                        *)
LoseDu(t) ==
  /\ Goto(t, "du", "null_du")
  /\ lib[t] = "libdu"
  /\ du_ctx' = "null"
  /\ nullOpen' = TRUE
  /\ UNCHANGED <<name, library, dobby, crashed, mapped, monitor, lib>>

(* Line 142 dereferences it.                                                *)
UseNullDu(t) ==
  /\ pc[t] = "null_du"
  /\ crashed' = TRUE
  /\ UNCHANGED <<name, library, dobby, nullOpen, du_ctx, mapped, monitor, pc, lib>>

(* fake_dlopen_ext returns the handle of the original.                      *)
Leave(t, from) ==
  /\ Goto(t, from, "app")
  /\ lib' = [lib EXCEPT ![t] = "other"]
  /\ Release(t)

SkipDu(t) ==
  /\ Leave(t, "du")
  /\ lib[t] # "libdu"
  /\ UNCHANGED <<name, library, dobby, end, du_ctx, mapped>>

DuHooked(t) ==
  /\ Leave(t, "hook_du")
  /\ ~Busy(t)
  /\ UNCHANGED <<name, library, dobby, end, du_ctx, mapped>>

(* Mutations of Install: a call that reports the function as hooked already *)
(* is tried again until it succeeds; the pointer given to DobbyHook is not  *)
(* the ori_* the replacement calls through.                                 *)
InstallUntilHooked(t) ==
  /\ AtStep(t, "find") => ~table[Target(t)].entry
  /\ DobbyStep(t)
  /\ UNCHANGED <<name, library, end, du_ctx, mapped, monitor, pc, lib>>

InstallElsewhere(t) ==
  /\ \/ FindHookEntry(t) \/ RelocatePrologue(t) \/ CommitPatch(t)
     \/ /\ AtStep(t, "publish")
        /\ GoOn(t, "commit", "null")
        /\ table' = [table EXCEPT ![Target(t)].entry = TRUE]
  /\ UNCHANGED <<name, library, end, du_ctx, mapped, monitor, pc, lib>>

(* One step of the DobbyHook call t is in.                                  *)
Install(t) ==
  /\ DobbyStep(t)
  /\ UNCHANGED <<name, library, end, du_ctx, mapped, monitor, pc, lib>>

-----------------------------------------------------------------------------

(* Code of the library, which waits for nobody once it runs.                *)
BridgeCode(t) ==
  /\ ~crashed
  /\ \/ OpenLibdl(t)
     \/ InitJni(t) \/ InitJniFails(t)
     \/ t = Main /\ (CopyByte \/ EndNativeHook)
     \/ CallOriginal(t)
     \/ HookFlutter(t) \/ SkipFlutter(t) \/ FlutterHooked(t)
     \/ HookDu(t) \/ SkipDu(t) \/ DuHooked(t)
     \/ FakeDlopenFails(t) \/ LoseDu(t) \/ UseNullDu(t)
     \/ Install(t)

(* What the application and Java ask of it.                                 *)
Request ==
  /\ ~crashed
  /\ \/ LoadHookLibrary
     \/ \E pkg \in Packages : DoNativeHook(pkg)
     \/ \E t \in Threads, l \in Libraries : LoadLibrary(t, l)
     \/ \E l \in Libraries : LoadUnseen(l)

Next == Request \/ \E t \in Threads : BridgeCode(t)

Spec == Init /\ [][Next]_vars

(* The scheduler keeps running a thread that is inside the library.         *)
FairSpec == Spec /\ \A t \in Threads : WF_vars(BridgeCode(t))

-----------------------------------------------------------------------------

(* The process dies inside this library only after fake_dlopen, fake_dlsym  *)
(* or FindClass has returned NULL: never because an interception calls      *)
(* through a null ori_* or one that leads back to itself, however loads and *)
(* hooking interleave.                                                      *)
CrashNeedsFailedOpen == crashed => nullOpen

(* strcmp(package_name, ...) stops inside the buffer, whatever names and     *)
(* however many of them doNativeHook has been given.                        *)
BufferStaysTerminated == package_name[BufferSize - 1] = "nul"

(* package_name reads as the package of the last doNativeHook exactly when  *)
(* the name fits and no earlier one left more bytes: a shorter name does    *)
(* not clear the tail of a longer one.                                      *)
LastPackageIsRead ==
  lastPackage # <<>> /\ pc[Main] # "memcpy" =>
    (Reads(Last) <=>
       /\ NameLength[Last] < BufferSize
       /\ \A i \in DOMAIN lastPackage : CopyLength(lastPackage[i]) <= NameLength[Last])

(* The Flutter function is hooked in likeread only, even when libflutter is *)
(* loaded while package_name is being written.                              *)
FlutterOnlyInLikeread ==
  table["flutter"].entry => \E i \in DOMAIN lastPackage : lastPackage[i] = Likeread

(* A thread that enters a patched function of libdu.so finds du_ctx set,    *)
(* which unicornvm_callback dereferences, unless another load of libdu.so   *)
(* has just lost it and is about to end the process.                        *)
ContextBeforeDuHooks ==
  (\E f \in DuSites : table[f].patched) =>
    du_ctx = "ctx" \/ \E t \in Threads : pc[t] = "null_du"

(* Once a load of libdu.so has been seen and its Java caller has returned,  *)
(* all four functions are hooked and can reach their originals.             *)
SeenDuIsHooked ==
  du_ctx = "ctx" /\ monitor = NoThread =>
    \A f \in DuSites : table[f].patched /\ table[f].ori = "real"

(* Every Java load comes to an end, so no thread waits for the monitor for  *)
(* ever.                                                                    *)
MonitorIsReleased == monitor # NoThread ~> monitor = NoThread \/ crashed
=============================================================================

# A verification development of XposedNativeHook

XposedNativeHook is an Xposed module for Android. An installer activity copies two
native libraries into the applications it targets; inside a target process, Xposed
runs `HookEntry`, which loads those libraries and tells the native side which
package it is in; the native side hooks the dynamic linker, waits for the libraries
it is interested in, and can trace the JNI calls of the process.

This directory holds TLA+ modules translated from that code, the TLC configurations
that check them, and proofs that TLAPS checks. `PROJECT.json` lists, for every
definition, the lines of the source it stands for. Paths below are relative to
`src/app/src/main/`.

## Inventory of the system

| component | source | state it keeps | operations |
|---|---|---|---|
| Hook session | `java/.../HookEntry.java` 33-208 | `pkgName`, `isAppHooked`, `cxt`, `cl`; the libraries loaded; the Java hooks | `handleLoadPackage`, the callback on `Application.attach`, `hookAppNativeLib`, `load`, `startHookJava` |
| Native bridge | `cpp/native-lib.cpp` | `package_name[100]`, `du_ctx`, the `ori_*` pointers | `JNI_OnLoad`, `doNativeHook`, `fake_dlopen_ext` |
| JNI call tracer | `cpp/jni_function_hook.cpp` | `is_hook_jni`, `hook_tid`, `hook_tid2`, 21 `ori_*` pointers, cached method ids | `hook_jni_function`, `unhook_jni_function`, the 21 `fake_*`, `handleMethodCall`, `log_method_info` |
| Library lookup | `cpp/fake_dlfcn.c` | one handle per call: copies of four tables | `fake_dlopen`, `fake_dlsym`, `fake_dlclose` |
| Installer | `java/.../MainActivity.java` 56-139 | plugin files on disk | `onCreate` |
| Virtualised calls | `cpp/native-lib.cpp` 47-124 | `du_ctx` | `fake_decstr`, `fake_query`, `fake_query_internal`, `fake_query_internal_x`, `unicornvm_callback` |
| Dex dump | `HookEntry.java` 136-156, `native-lib.cpp` 194-211 | `canDump`, `index` | `getDexFile`, `getDexFileNative` |
| Argument rendering | `jni_function_hook.cpp` 33-83 | none | `get_param_valist_val_str` |
| Signature helpers | `HookEntry.java` 235-368 | none | `getType`, `getMethodSig`, `getMethodShorty`, ... |
| Inline hooking | `libdobby.a` (external) | table of hooked addresses, patched code | `DobbyHook` |
| Virtual machine | `libunicornvm.so` (external) | - | `vc_make_callee` |

The repository has no documentation, and its tests are the stubs the IDE generates.

How the parts interact:

- The installer's `cp` processes write the files `HookEntry.load` looks for; nobody
  waits for them.
- Xposed calls `handleLoadPackage` on whatever thread loads a package. The attach
  callbacks run on the main thread. They share the fields of `HookEntry`.
- `System.load` of the second library runs `JNI_OnLoad` in native code, which looks
  `android_dlopen_ext` up with the library lookup and hooks it with Dobby. Java then
  calls `doNativeHook` with the package name.
- Every later load of a library, on any thread, runs `fake_dlopen_ext`, which reads
  the package name, looks the library up and hooks functions in it.
- The replacement of one of those functions (`fake_query_internal`) tells the tracer
  which thread to trace. The tracer, when it logs, calls back into `HookEntry` through
  the JNI functions it has hooked.

What makes it hard: none of the shared globals or fields is protected; hooks become
live one at a time while others are still being installed; the tracer re-enters
itself; several steps may fail with earlier ones already done, and are retried by a
later callback. `PROJECT.json` ("hazards") lists each of these at its line, with the
properties that would catch it going wrong. Where the code goes wrong itself, so that a property
can only name the case as an exception, the hazard has no property and its note says so.

What makes each component correct:

- session: `isAppHooked` tells the truth, nothing is hooked twice, a failed attempt is
  made good by a later one;
- bridge: an intercepted call never runs through a pointer that is not set, the name
  buffer stays a string, the hooks in a library are complete when its loader returns;
- tracer: originals stay reachable, re-entry is bounded, only a thread that
  is being traced is logged, no JNI call is made with a pending exception;
- lookup: every error path gives everything back, a handle describes the file, the
  address returned is the one the linker gave the symbol.

## The modules

| module | models | main abstractions |
|---|---|---|
| `Dobby` | `DobbyHook`, external: lookup, relocation, publication of `*origin`, patch | an origin is null, real, or leads back into its replacement |
| `JniHooks` | switching the tracer; uses `Dobby` | JNI functions are (type, static, init) triples |
| `JniTracer` | the replacements, `handleMethodCall`, `log_method_info`; extends `JniHooks` | results, arguments and log text are left out |
| `ParamFormat` | `get_param_valist_val_str` and the buffers of `log_method_info` | a text is its length, a `va_list` the word it points to |
| `NativeBridge` | `JNI_OnLoad`, `jni_hook_init`, `doNativeHook`, `fake_dlopen_ext`; uses `Dobby` | a byte of the buffer holds the package that wrote it |
| `DuCalls` | the replacements in `libdu.so` and `unicornvm_callback`, while `NativeBridge` (which it extends) installs them | what the functions compute |
| `DexDump` | `getDexFile`, `getDexFileNative` | a cookie is a sequence of null, dex, or the dex that starts the dump |
| `HookSession` | `HookEntry` in a target process | class names and loaders are left out |
| `HookedProcess` | abstract: what the module promises of a process it is in | - |
| `HookPipeline` | `HookSession` (an INSTANCE) and `NativeBridge` (which it extends) composed; implements `HookedProcess` | their abstractions |
| `Signature` | the descriptor and shorty helpers of `HookEntry` | a string is a sequence of letters, a class name one letter |
| `Installer` | `MainActivity.onCreate` and the `cp`, `chmod` processes | a file is absent, partial or complete, with an ABI and a mode |
| `FakeDlopen` | `fake_dlfcn.c` | an ELF file is its PT_LOADs, section names and two symbol tables |
| `*Proofs` | theorems about the module of that name; `JniTracerProofs` also about `JniHooks`, `HookPipelineProofs` also about `NativeBridge` and `DuCalls` and about the refinements | - |
| `MC*` | instances for TLC | - |

How state and actions correspond to the code:

- Variables have the names of the C globals and Java fields they stand for
  (`is_hook_jni`, `hook_tid`, `package_name`, `du_ctx`, `pkgName`, `isAppHooked`).
  `pc`, `stack`, `job` and `todo` are the control state of threads. Variables marked
  *history* in their comment record what happened for the sake of a property and are
  read by no guard (`lastPackage`, the log of `doNativeHook` arguments, is the exception:
  its last entry is the argument of the call in progress).
- An action is a piece of a function between two accesses to something another actor
  can see: the test of a flag, the write of a global, one byte of `memcpy`, one effect
  of `DobbyHook`. In `FakeDlopen`, which shares nothing, a step is one test of the
  code together with what leads to it.
- `Dobby.job[t]` is the list of `DobbyHook` calls thread `t` still has to make and how
  far it is in the first of them. `libdobby.a` is a binary; the order of its effects is
  read off the shipped object file, and that it has no lock is part of the model.
- `JniTracer.stack[t]` is the stack of active replacements of a thread. A frame in the
  application's Java method ("original", with a method id of the application) is the
  application's own code again: it may call JNI functions, switch the tracer, or return.
  `DuCalls.stack[t]` is the same for the replacements of `libdu.so`.
- `ParamFormat` keeps two positions, where the caller put the next argument (`passed`) and
  where `va_arg` will read it (`list`); they differ once a `jfloat` was read on armeabi-v7a.
- In `HookPipeline` the main thread is in `HookEntry` or in the library, never in both: the
  steps of `HookSession` that load the library or call `doNativeHook` start a call of
  `NativeBridge` in the same step, and the session waits until it has returned.

## The runs

All runs pass. CHECK_DEADLOCK is off where the system may stop: `native_bridge`, `du_calls`, `dex_dump` and
`hook_pipeline`, because a crash ends the process; `fake_dlopen`, `param_format` and
`signature`, because a call ends; `installer`, because the launches are bounded.

| run | states | question |
|---|---|---|
| `jni_hooks_race` | 153 k | two threads switch the tracer concurrently: what still holds? |
| `jni_tracer_nested` | 20 k | nested and throwing calls, and the tracer's calls into itself |
| `jni_tracer_threads` | 300 k | the tracer is switched on and off on one thread while both are traced |
| `param_format` | 172 k | which texts and argument lists overflow the buffers or derail the `va_list`? |
| `native_bridge` | 565 k | loads, hooking and renaming on two threads |
| `du_calls` | 130 k | calls of `libdu.so` at every moment of its being hooked |
| `dex_dump` | 188 k | the unlocked limit on the number of files |
| `fake_dlopen` | 276 k | every short file layout and every failing test |
| `hook_session` | 82 k | packages, attaches, deployments and failures in any order |
| `hook_pipeline` | 261 k | both halves together: when `isAppHooked` is set, is the process watched? |
| `signature` | 87 k | does the signature read back as the method, and does the shorty follow it? |
| `installer` | 313 k | directories, failures, and processes of two launches in any order |

What they show:

- `jni_hooks_race`: `OriginBeforePatch` — a patched function has its `ori_*` set.
  `TracingIsInstalled` — when the flag is on and no thread is in `hook_jni_function`, the
  whole list is patched and a target is known. `HookReturns` — the call always finishes.
  `OriginsRunOriginals` is not checked here: the unlocked test of `is_hook_jni` lets two
  threads install at once, and it fails.
- `jni_tracer_nested`: `HelperCallsDoNotNest`, `NoJniCallWithPendingException`,
  `NoCrash` (no null `ori_*`, no stack overflow), `TracerYields`.
- `jni_tracer_threads`: `OriginsRunOriginals` — with one switching thread no `ori_*` ever leads
  back into its own replacement, although unhooking leaves all patches in place and each new
  hooking calls `DobbyHook` on patched functions again; `LoggedWhenTraced` — the
  flag and the two ids are read one after the other, without a lock, while they change (line
  339), and the test is still as good as an atomic one: a call is logged only if, at one moment
  between the reads, tracing was on with its thread as a target. `hook_jni_function` raises the
  flag before it names the thread; the other way round (the mutant) the property fails. It
  also fails with two switching threads and a third that is traced: one of them may have
  passed the test of the flag and name its thread after the other has switched tracing off.
  The history variable `traced` keeps what the property compares with.
- `param_format`: `BuffersHold` — what is appended stays below 500, although the counter counts
  the uncut length of strings; the 1024 bytes overflow only behind a header (class, method,
  signature) of more than 524, and `ss[256]` only because of a `jdouble` printed with `%lf`,
  never because of a String or the number of arguments. `WordsMatch` — `va_arg(list, jfloat)`
  is harmless on arm64-v8a, and on armeabi-v7a makes the reader fall behind the caller (a
  later reference may be a stray word) but never run past the arguments.
- `native_bridge`: `CrashNeedsFailedOpen` — the only crash in the model is a result of a
  failed lookup, or of `FindClass` in a library loaded by reflection, that is used untested
  (lines 135, 142, 238; `jni_function_hook.cpp` 381); `BufferStaysTerminated`;
  `LastPackageIsRead` — exactly when the buffer reads as the last package (a shorter name
  does not clear a longer one's tail); `FlutterOnlyInLikeread`;
  `SeenDuIsHooked`; `MonitorIsReleased`.
- `du_calls`: `DuCrashIsExplained` — however calls of `libdu.so` fall among the steps that hook it,
  no replacement calls an unpublished original, and no callback dereferences a null `du_ctx`, but
  for one window: a later load of `libdu.so` whose `fake_dlopen` fails stores null in the
  shared `du_ctx` (line 141) while the functions are hooked, and a callback on another thread may
  read it (lines 85, 98) before line 142 ends the process. What else ends the process is the null result of a query (line 60), of `vc_make_callee` (line
  121; `UnicornVM64.h` line 118 asks its callers to check it), and the missing return
  (line 120).
- `dex_dump`: `LimitHolds` — a dumper that is alone between test and increment keeps the limit,
  and N threads write at most N - 1 files too many unless an increment is lost;
  `RewriteNeedsLostIncrement` — and overwrite one only then. With an increment lost there
  is no bound.
- `fake_dlopen`: `FileIsReleased`, `HandleIsUsable`, `FreedOnce`; `OnlyKnownDefects`
  says exactly which defects the error and close paths have: copies of `.strtab` and superseded copies of `.dynstr` leak, and `munmap(0, ...)`
  is called for a file without dynamic tables; `LookupFindsDefinition` says when
  `fake_dlsym` answers as the linker would, and names the exceptions (an unaligned first
  segment, an imported name, `.symtab` without `.strtab`).
- `hook_session`: `HookedMeansInstalled`, `HooksAreSingle`, `NativeHookRunsOnce`,
  `HookingIsFinal`, `DeployedAttachHooks`. The exceptions the formulas name are behaviour
  of the code: an attach with a null context sets the flag (line 59), and where the SSL
  class is missing every attempt hooks `loadClass` once more (lines 75 and 123).
- `hook_pipeline`: `KeepsPromise` — the composition implements `HookedProcess`: the linker is
  watched (or `JNI_OnLoad` has given up) before a package is told, the Flutter function is
  hooked only where likeread was told, and nothing is told after the flag is set.
  `HookedMeansWatching` — with no null context and no failed lookup, a set `isAppHooked` means
  that loads reach the module and that it knows the package. `LateFlutterIsHooked` — a
  load of `libflutter.so` behind that point is not missed.
- `signature`: `SignatureReadsBack` — a reader of the class file format's
  descriptors gives back the parameter types and the result; `ShortyFollowsSignature` —
  each letter of the shorty is the first of the descriptor the reader finds at that place of
  the signature (an array being passed as a reference), so that `ParamFormat` reads what was
  passed. The code makes the two from tables of its own, a switch over names (lines 242-255) and
  a comparison of class objects (320-349); the model has both, and the reader a third.
- `installer`: `MissingDirectoryStopsAll` — one listed application without a native directory
  keeps all of them from being served (line 78); `FinishedMeansDeployed` and `CopiesOpen`
  say what the success log is worth: the files are complete and of the right ABI unless
  launches overlap or something fails; `chmod` may run before `cp` has created the file, and
  a second launch repairs that.

Met on the way and without effect on any property: the stray statement `1;` at
`native-lib.cpp` 125.

Each property of each run has a mutant, an operator that changes one mapped definition
the way a plausible bug would and makes TLC find that property violated.

### Bounds, and why they are enough

- `jni_hooks_*`, `jni_tracer_nested`: two result types out of ten (one in
  `jni_tracer_threads`). `HookJniCallMethodV` treats all types
  alike; two give a list with static and instance variants, more than one position, and
  `NewObjectV` last. Two hookers are what a race takes; in `jni_tracer_threads` the second
  thread is there for `hook_tid2` and for the unlocked reads of line 339. Nothing bounds the number of hook/unhook cycles. The
  theorems below remove these bounds.
- `jni_tracer_*`: `AppDepth` is 3 in the nested run (an intercepted call inside an
  intercepted call, twice) and 1 in the run with threads. `StackLimit` is `AppDepth` plus room
  for a helper call and at least one frame more, so that recursion is seen as a crash.
- `native_bridge`: `BufferSize` 4 and names of length 1, 2, 3 and 5: one that leaves a tail of
  another, `likeread`, the longest one that fits, and one that is cut. A byte is tagged with the
  name that wrote it, so that a half-copied name of which likeread's is a prefix does not compare
  equal, as it would in the program for a moment; the model
  has no such name. `MaxNativeHooks` is 3,
  so that a name can be short, long and short again. `HookSession` shows the code calls it
  once unless `startHookJava` throws.
- `param_format`: the code's own sizes; texts on both sides of each limit (199 and 200, 255 and
  256, 524 and 525, 1023 and 1024); five arguments, since three are enough to pass 500, and
  a jfloat, a two-word argument and a reference in any order need three.
- `du_calls`: one package and one name, whose copying `native_bridge` checks; `MaxCalls` 2 is
  one hooked function called from the original, or from the interpreted code, of another.
- `dex_dump`: two threads, `MaxIndex` 2 instead of 4 (the limit is only compared), two elements
  whose cookies are too short, start the dump, or continue it.
- `fake_dlopen`: up to `MaxSections` = 5 headers of five kinds in any order includes every
  duplicate and omission. Three sets of program headers: first segment at 0, at a later
  page, and inside a page.
- `hook_session`: two packages (the application and one without launch intent, such as
  a WebView provider) and `MaxAttaches` = 3: a failed attempt, a good one, one after it.
- `hook_pipeline`: the same two packages, two attaches (one that fails and one that is good),
  a thread besides main, and devices that load the plugins directly, or only by reflection
  and without binding the native methods.
  Libraries the module ignores are mapped from the start, and `cp` replaces only the plugin
  the bridge is in; the failures of Java code that do not meet the bridge, and of the other
  plugin, are left to `hook_session`.
- `signature`: two parameters show what one leaves behind for the next; two dimensions, that
  brackets repeat.
- `installer`: two applications, as in the code; one plugin, as the loop treats both alike and
  their files have nothing in common; two launches, which are what overlap and repair take.

### Fairness

- `FairHooksSpec`, `FairSpec` of `JniTracer` and `NativeBridge`: weak fairness, per thread, of
  the program's own code (`HookCode`, `TracerCode`, `BridgeCode`). None of it waits for
  another thread, and the kernel schedules every runnable thread. Nothing is assumed of
  the application: it need not call anything, and a Java method it is in need not return.
- `FairSpec` of `HookSession`: weak fairness of the main thread inside an attach. Neither the
  installer's copies nor further packages or attaches are assumed to happen;
  `DeployedAttachHooks` speaks of attaches during which the plugins stay deployed.
- `FairPipelineSpec` of `HookPipeline`: the two together, each thread for itself.
- `BridgeCode` includes the call of `ori_dlopen_ext`: the system's loader is assumed to return.

## The proofs

They hold for every value of the constants that the named assumptions of the modules allow
(TLC evaluates those in every run). Each module is laid out the same way: what a step does,
the invariant, that it is inductive (one step per action), the theorems.

| module | theorem | statement |
|---|---|---|
| `JniTracerProofs` | `HooksTypeCorrect` | `HooksSpec => []HooksTypeOK` |
| | `OriginsArePublished` | `HooksSpec => []OriginBeforePatch` |
| | `OriginsStayReal` | `HooksSpec => []OriginsRunOriginals`, assuming `OneHooker` |
| | `TracingInstalls` | `HooksSpec => []TracingIsInstalled` |
| | `HookingAdvances` | each step of a thread in `hook_jni_function` lessens what it has left to do, and nobody adds to it |
| | `TracerTypeCorrect` | `Spec => []TracerTypeOK` |
| | `NoPendingException` | `Spec => []NoJniCallWithPendingException` |
| | `LoggingIsAtomic` | `Spec => []LoggedWhenTraced`, assuming `OneHooker` |
| | `HelpersDoNotNest`, `TracerNeverCrashes` | `Spec => []HelperCallsDoNotNest`, `Spec => []NoCrash`, assuming `OneHooker` and `AppDepth < StackLimit` |
| | `TracerAdvances` | under the same assumptions, a thread in replacements is at most 50 of its steps from the application's code |
| `ParamFormatProofs` | `OverflowIsExplained` | `Spec => []BuffersHold` |
| | `WordsAreOwn` | `Spec => []WordsMatch` |
| `DexDumpProofs` | `OvershootIsBounded` | `Spec => []LimitHolds` |
| | `FilesAreKept` | `Spec => []RewriteNeedsLostIncrement` |
| `HookSessionProofs` | `TypeCorrect` | `Spec => []TypeOK` |
| | `HookedIsInstalled` | `Spec => []HookedMeansInstalled` |
| | `HooksStaySingle` | `Spec => []HooksAreSingle` |
| | `NativeHookIsBounded` | `Spec => []NativeHookRunsOnce` |
| | `HookingStaysFinal` | `Spec => HookingIsFinal` (an action property) |
| | `AttemptsAdvance` | `Spec => [][AttemptAdvances]_vars`: an attempt is at most 11 steps from its end, and fails only for a reason |
| `HookPipelineProofs`, | `TypeCorrect` | `Spec => []TypeOK` |
| `NativeBridge` | `BufferIsTerminated` | `Spec => []BufferStaysTerminated` |
| | `LastIsRead` | `Spec => []LastPackageIsRead` |
| | `FlutterIsLikereads` | `Spec => []FlutterOnlyInLikeread` |
| | `ContextIsFirst` | `Spec => []ContextBeforeDuHooks` |
| | `DuIsHooked` | `Spec => []SeenDuIsHooked` |
| | `CrashesAreFailedOpens` | `Spec => []CrashNeedsFailedOpen` |
| | `LoadsAdvance` | the holder of the monitor is at most 25 of its steps from releasing it |
| `DuCalls` | `DuCrashesAreExplained` | `DuSpec => []DuCrashIsExplained` |
| the composition | `PipelineIsBridge` | `PipelineSpec => Spec` (of `NativeBridge`) |
| | `PipelineIsSession` | `PipelineSpec => S!Spec` (of `HookSession`) |
| | `SessionHolds` | `PipelineSpec =>` each safety and action property of `HookSession` |
| | `PipelineKeepsPromise` | `PipelineSpec => KeepsPromise` (the refinement of `HookedProcess`) |
| | `HookedIsWatched` | with no null context and no failed lookup, a set `isAppHooked` means the linker is hooked |
| | `LikereadIsWatched` | `PipelineSpec => []HookedMeansWatching`, assuming `Own = Likeread` and names shorter than `BufferSize` |
| | `UnfailingIsWatched` | in any process `HookedMeansWatching` holds as long as `startHookJava` has thrown nothing, assuming names shorter than `BufferSize` |
| | `HookedIsRead` | with no null context, exactly when the buffer reads as the package told while `isAppHooked` is set |
| | `FlutterAdvances` | a load of `libflutter.so` in a likeread that is hooked leads to the hook and nowhere else, assuming likeread's name shorter than `BufferSize` |
| `SignatureProofs` | `SignaturesReadBack` | `Spec => []SignatureReadsBack` |
| | `ShortiesFollowSignatures` | `Spec => []ShortyFollowsSignature` |
| `FakeDlopenProofs` | `Invariance` | `Spec => []Inv`, type correctness included |
| | `FileReleased` | `Spec => []FileIsReleased` |
| | `HandlesAreUsable` | `Spec => []HandleIsUsable` |
| | `NothingFreedTwice` | `Spec => []FreedOnce` |
| | `DefectsAreKnown` | `Spec => []OnlyKnownDefects` |
| | `LookupIsRight` | `Spec => []LookupFindsDefinition` |
| `InstallerProofs` | `InstallerInvariance` | `Spec => []Inv`, type correctness included |
| | `MissingDirectoryStops` | `Spec => []MissingDirectoryStopsAll` |
| | `FinishedDeploys` | `Spec => []FinishedMeansDeployed` |
| | `CopiesAreOpen` | `Spec => []CopiesOpen` |

The arguments:

- `JniTracerProofs`, the switch. Type correctness is inductive once `HookOrder` is known to be a sequence of
  `JniFunctions` (`HookOrderIsSeq`); `JobParts` and `FindEffect` say what a `DobbyHook` call in
  progress looks like and what its first step does. `OriginBeforePatch` is not inductive:
  `OriginInv` adds, for every thread in a call, that the copy it holds is not null from
  "publish" on and that `*origin` is not null at "commit"; the number of hookers does not
  matter, because publication never resets a pointer to null. `OriginsRunOriginals` needs
  that nobody relocates a patched prologue. `SequentialInv` adds that only the hooker has
  calls in progress, that a patched function has an entry, that a call at "relocate" is for a
  function without one, and that the copy at "publish" is real: with a single hooker no
  other thread comes between "find" and "commit". `TracingIsInstalled` needs no such thing:
  `InstalledInv` says that while the flag is on, either every function has an entry and a
  target is set, or some thread is in `hook_jni_function`; and that a function without an
  entry is still on the list of every thread that installs. A call drops its target only
  when it has found an entry or has made one, so racing installers do each other's work.
- `JniTracerProofs`, the tracer. First that every step is a step of `JniHooks` or leaves its state: the
  lemma `TracerImplementsHooks`, which holds by the way the module is built and only serves to
  carry `HooksTypeOK` and the theorems on origins over to the tracer. Then
  the effect of a step on the stacks: a frame is replaced, pushed or popped. `StackInv` (a
  frame below the top is in the call of its original, or of a helper that is not the
  last), `QuietInv` (no exception is pending behind the call of the original) make the
  invariant inductive. For `LoggingIsAtomic`, `FlagInv` says
  that the thread ids are written only while the flag is up, which one hooker guarantees, and `TracedInv`
  that whatever line 339 has still to compare can succeed only on a thread that was a target since
  the flag was read: the next id to be stored is stored under a flag that is up then. For recursion, `NestInv` adds that the functions of frames are patched (hence
  their `ori_*` real, by `OriginsStayReal`) and `DepthInv`: a stack deeper than the
  application's own depth has a helper call on top, which makes no calls. With two threads
  switching, an `ori_*` may lead back into its replacement, and recursion is not bounded.
- `ParamFormatProofs`. `LimitInv`: what is appended is never longer than what is counted, so that
  the comparison of the counter bounds the text. `WordsMatch` is inductive with the types:
  the reader is at or before the caller's word, and level with it unless a `jfloat` was read
  on armeabi-v7a.
- `DexDumpProofs`. `LoneInv`: while nobody has overlapped, at most one thread is between test and
  increment, and it holds the value of `index`. `OnceInv`: while no increment was lost, every
  number below `index` was handed out once. The bound on the overshoot counts the threads
  between test and increment, and needs the finiteness of `Threads`. It also shows why the
  bound is stated for `~lost`: each lost increment lets another thread in.
- `HookSessionProofs`. `LoaderInv` (callbacks registered = packages whose `handleLoadPackage` is
  done), `AttemptInv` (what each place of an attempt has established: plugins loaded, package
  told, `loadClass` hooked), `CountInv` (what earlier, failed attempts have left: `sslHooks` is
  0 before the attempt that succeeds, `doNativeHook` calls are bounded by the exceptions).
- `HookPipelineProofs`, the library. `MonitorInv`: whoever loads a watched library or is in `JNI_OnLoad` holds
  the Runtime's monitor. With `JobInv` (the calls a thread may still have to make at its
  place) this makes hooking sequential, and `SiteInv` (a function is unhooked, hooked, or
  half hooked by a thread at "commit") inductive. `DuInv`: `du_ctx` comes before the first
  hook, and each function is hooked or wanted by a thread from then on, and it is null again only
  while a thread is between lines 141 and 142 (`DuLost`), which it does not survive (`LostInv`). `BytesInv`, for the
  name buffer: each byte is of the last call that has written it, `j` such that no later
  call reached that far; the last byte is reached by none, so that it stays zero, and
  `LastPackageIsRead` follows by comparing lengths. `FlutterInv`: whoever enters the Flutter
  branch has read likeread's name in bytes only a call with likeread has written.
  For `DuCalls`, every step keeps the bridge's invariant or is a step of the bridge
  (`BridgeInv`: the part that also holds of a process that died elsewhere), and `FramesInv` adds
  that the function of every replacement on a stack is patched. With `DuInv` and `SiteInv` it follows
  that its original is published whenever it is used, and that `du_ctx` is set or a thread
  about to die of it.
- `HookPipelineProofs`, the composition. `SessionInv` says what the session guarantees of the arguments of
  `doNativeHook`: they are packages, so that every step of the composition is a step of
  the bridge (`PipelineIsBridge`), and the bridge's invariant and theorems carry over. `MeetInv` relates how
  far the two are: nothing is told before `JNI_OnLoad` has returned, and a set flag means that
  something was told, unless a context was null. `OnLoadInv`: `JNI_OnLoad` returns with the linker
  hooked, or after a failed lookup. With them each step is a step of `HookedProcess`
  or leaves its variables. `OnceInv` is about likeread: only the other package goes on to
  `startHookJava`, so likeread is told at most once and the name stays in the buffer
  (`LastPackageIsRead`). Maimai may be told again after a failed attempt, and by then `pkgName`
  may be a shorter name, which leaves the longer one's tail in the buffer. `SessionHolds`
  closes that gap as far as the code does: it applies the theorems of `HookSessionProofs`, through
  `PipelineIsSession`, to the session in the composition, and `NativeHookRunsOnce` bounds what the
  library was told by the exceptions. Without one there is a single name (`UnfailingIsWatched`);
  with some, `HookedIsRead` is the exact condition, in which a name that the buffer cuts counts
  with the bytes copied of it. Whether the Flutter function is hooked depends on the name, which
  matters in likeread only. `FlutterJobInv`: the Flutter branch ends with the function hooked, whether
  this call hooks it or finds it hooked (`LastCallHooks`).
- `SignatureProofs`. `getDesc` is given a closed form: as many brackets as dimensions, then the letter
  or the class name between `L` and `;`. `MethodInv`, `ShortyInv` and `SigInv` say what the strings are
  after some parameters: each parameter's text at its place, places one behind the other (`Placed`).
  The reader is a function satisfying an equation, which the places of the parameters are shown to
  satisfy. What would be inductions over brackets, positions and parameters are arguments by
  the least counterexample.
- `FakeDlopenProofs`. `BlockInv` (the blocks allocated are those of the sections behind the loop and
  the handle), `TablesInv` and `PointedInv` (a block is the table the handle points to, or a
  string table that is not: `.strtab` after the copy, or a `.dynstr` that a later one replaced)
  make the leaks exact. `FileInv`: the file is open and mapped only up to the error exit or the
  return, and the view is gone on the error path only for a file without dynamic tables.
  `CountInv` and `AddressInv` are what `fake_dlsym` computes with. `ClosingBlocks` shows that
  `fake_dlclose` frees distinct blocks. `FirstEntryExists` and `LargestEndExists` show that the
  CHOOSEs of the model choose something (the first entry of a name, the end of the
  last segment): a least element, or a least counterexample, exists because `<` is well founded.
- `InstallerProofs`. `InfoInv` (`libInfoArray` is the packages the loop is past), `ReadyInv` (with a
  directory missing, no launch gets beyond looking for it) and `AbiInv` need no assumption on
  failures. While nothing failed and no launches overlap (`Smooth`), `UnpackedInv` has the
  processes find complete sources, and `DoneInv` the file of every iteration behind the loop
  complete or about to be; `Division` and `IterationExists` relate the one counter of the two
  nested loops to their indices, for any number of plugins. `EarlyInv` and `AgainInv` are about
  `chmod`: it opens the file or is recorded as early, and in a second launch it finds the
  file of the first.

Progress. The prover has no rules for fairness and ENABLED, so that each liveness property stays
with TLC; proved, for every value of the constants, is the part of it that is about the code: a
number that each of the thread's own steps lessens, and that nobody else's steps change.
`HookRank` counts the entries left and the place in the current `DobbyHook` call (`HookingAdvances`,
under `HookReturns`). `TracerRank` counts the points of the replacement, the helper calls left of
the frame below and the points of the helper's own replacement, at most 50 together
(`TracerAdvances`, under `TracerYields`); it needs `CallerInv`, that a frame in a helper call is above
one in the application's code, and with that at most two replacements are between a thread and
the application. `LoadRank`, at most 25, covers a load with its hooks (`LoadsAdvance`, under
`MonitorIsReleased`, with `HolderInv`: who holds the monitor is in a load). `AttemptRank`, at most 11,
covers the steps of an attempt (`AttemptsAdvance`, under `DeployedAttachHooks`). `FlutterAdvances`
has no number of its own: it says in which direction a load of `libflutter.so` goes, and
`LoadsAdvance` that it goes on. What is left to TLC is that a thread with steps to go can always take one,
and with the scheduler's fairness does.

The proof of `TracerAdvances` first failed on a step of the model that the program does not have: a
thread inside `hook_jni_function`, or in a library load, whose Java or native caller returned
meanwhile. The actions `CallOriginal` of `JniTracer` and `LeaveOriginal`, `DirectCallReturns` of `DuCalls`
have a guard for it since.

`HooksTypeCorrect`, `TracerTypeCorrect`, `TypeCorrect` of `HookSession`,
`ContextIsFirst` (a function of `libdu.so` is hooked only with `du_ctx` set, or between lines 141 and 142), `Invariance`,
`InstallerInvariance`, `PipelineIsBridge`, `PipelineIsSession`, `SessionHolds`, `HookedIsWatched`, `HookedIsRead`
and the theorems on progress are proved and need no run.
The type invariants of `DexDump`, `ParamFormat`, `Signature` and `DuCalls` (there without the bound `MaxCalls`)
are part of the invariants of their proofs.

The assumptions on constants the proofs use are in the modules that declare the
constants: of `FakeDlopen`, that layouts and tables are sequences and a page is not empty; of
`Installer`, that the apk has one entry of a name (`PluginsDiffer`); of `Signature`, that the bounds are
numbers and no class has the name of a primitive type; of `HookSession`, and again of `HookPipeline` for
the session in it, that the process belongs to a package, that packages are finitely many and the
attaches counted.

Only model-checked: the five liveness properties `HookReturns`, `TracerYields`, `MonitorIsReleased`,
`DeployedAttachHooks` and `LateFlutterIsHooked`, beyond what the theorems on progress say of them.

## Not modelled, and why

- `libdobby.a` and `libunicornvm.so` are binaries; both are modelled as their callers in `src/`
  rely on them. `DobbyDestroy`, `DobbyInstrument` and the rest of their headers are never used.
- The text of log lines. That exceptions of the application are cleared in every
  replacement (`jni_function_hook.cpp` 335) is what the code does in the model too; no
  property says it should be otherwise.
- Local references of the tracer, and thread ids that are reused: both need a count of what
  the runtime does between calls, which nothing in `src/` bounds.
- Library loads nested in library loads (constructors that load others), and attaches
  nested in attaches. `dlclose` of a hooked library.
- A plugin that is overwritten while a running process has it mapped: what the process then
  executes is decided by the kernel's page cache.
- The replacements of `sendto`, of the dex-file and X509 functions: their bodies are in
  `native-lib.cpp` but nothing installs them at this commit, and they only log and forward.
- `getDexFile` has no caller at this commit; it is modelled as if every thread that loads a
  class called it, as the commented-out line 116 does. The tracer's two switch functions have
  none either, but are the interface of the tracer (`hook.h`) and are modelled as such.
  `startHookJni` and `stopHookJni` of `HookEntry` have no native implementation.
- The tests are the stubs of the IDE; there is nothing in them to model.

## Plan

The modules were written in this order, the most important behaviour first:

1. done: `Dobby`, `JniHooks`, `JniTracer`, `NativeBridge`, `HookSession`, `FakeDlopen`; the
   proofs about `JniHooks`, now in `JniTracerProofs`.
2. done: `Installer`; `HookPipeline` with `HookedProcess`; `DuCalls`, `DexDump`; `ParamFormat` and `Signature`.
3. done: `ParamFormatProofs`, `DexDumpProofs`, `JniTracerProofs`, `HookSessionProofs`,
   those about `NativeBridge`, now in `HookPipelineProofs`.
4. done: `FakeDlopenProofs`, `InstallerProofs`, `HookPipelineProofs` with the refinement of
   `HookedProcess`; `TracingInstalls` and `DuCrashesAreExplained`.
5. done: `SignatureProofs`; the buffer in maimai's process (`SessionHolds`, `UnfailingIsWatched`,
   `HookedIsRead`); the theorems on progress. Every invariant and every action property the runs
   check has a theorem now.
6. left: liveness itself, for a prover with fairness; `LikereadIsWatched` covers one process and one
   name, and a fixed `doNativeHook` that clears the buffer would allow the same for any.

------------------------------- MODULE JniHooks -------------------------------
(***************************************************************************)
(* Switching the JNI call tracer on and off: hook_jni_function and          *)
(* unhook_jni_function of jni_function_hook.cpp, the globals they share      *)
(* with the replacements (is_hook_jni, hook_tid, hook_tid2), and the         *)
(* replacement of the traced library's worker, fake_query_internal.         *)
(*                                                                         *)
(* The two functions are the interface include/hook.h declares; the callers *)
(* in native-lib.cpp (lines 57 and 59) are commented out at this commit, so *)
(* the model lets any thread of Hookers call them whenever it runs code of  *)
(* the application, with any thread id.  Nothing in the code is locked or   *)
(* atomic: every read or write of a global is a step of its own.            *)
(***************************************************************************)
EXTENDS Integers, Sequences

CONSTANTS
  Threads,   \* pthread_self() values of the application's threads
  Hookers,   \* the threads that call hook_jni_function / unhook_jni_function
  NoThread,  \* hook_tid and hook_tid2 before they are assigned
  Types      \* result types HookJniCallMethodV is applied to, in order

ASSUME HookersAreThreads == Hookers \subseteq Threads

ASSUME NoThreadIsNoThread == NoThread \notin Threads

ASSUME TypesIsSequence == Types \in Seq(STRING)

VARIABLES
  is_hook_jni,
  hook_tid,
  hook_tid2,
  pc,        \* per thread: where it is in hook_jni_function
  tidArg,    \* per thread: the tid argument of its call
  table,     \* Dobby: the hooked functions
  job        \* Dobby: the DobbyHook calls each thread still has to make

(***************************************************************************)
(* A function of the JNI table that has a replacement, named by what its    *)
(* fake_* passes to handleMethodCall: result type, isStatic, isInit.        *)
(***************************************************************************)
JniFunction(type, static, init) == [type |-> type, static |-> static, init |-> init]

NewObjectV == JniFunction("Object", TRUE, TRUE)

(* The DobbyHook calls of hook_jni_function in program order: for each type *)
(* the static variant, then the instance variant; NewObjectV last.          *)
HookOrder ==
  [i \in 1..(2 * Len(Types) + 1) |->
     IF i = 2 * Len(Types) + 1
     THEN NewObjectV
     ELSE JniFunction(Types[(i + 1) \div 2], i % 2 = 1, FALSE)]

JniFunctions == {HookOrder[i] : i \in DOMAIN HookOrder}

INSTANCE Dobby WITH Sites <- JniFunctions

globals == <<is_hook_jni, hook_tid, hook_tid2>>

hookVars == <<is_hook_jni, hook_tid, hook_tid2, pc, tidArg, table, job>>

Locations == {"app", "set_flag", "set_tid", "install"}

HooksTypeOK ==
  /\ is_hook_jni \in BOOLEAN
  /\ hook_tid \in Threads \cup {NoThread}
  /\ hook_tid2 \in Threads \cup {NoThread}
  /\ pc \in [Threads -> Locations]
  /\ tidArg \in [Threads -> Threads \cup {NoThread}]
  /\ DobbyTypeOK

HooksInit ==
  /\ is_hook_jni = FALSE
  /\ hook_tid = NoThread
  /\ hook_tid2 = NoThread
  /\ pc = [t \in Threads |-> "app"]
  /\ tidArg = [t \in Threads |-> NoThread]
  /\ DobbyInit

Goto(t, from, to) ==
  /\ pc[t] = from
  /\ pc' = [pc EXCEPT ![t] = to]

-----------------------------------------------------------------------------

(* Mutation of EnterHook: the thread id is stored before the flag is set.   *)
EnterHookNamesThread(t, tid) ==
  /\ Goto(t, "app", "set_flag")
  /\ ~is_hook_jni
  /\ tidArg' = [tidArg EXCEPT ![t] = tid]
  /\ hook_tid' = tid
  /\ UNCHANGED <<is_hook_jni, hook_tid2, table, job>>

(* hook_jni_function(env, tid): the early return of line 347, then logd.    *)
EnterHook(t, tid) ==
  /\ Goto(t, "app", "set_flag")
  /\ ~is_hook_jni
  /\ tidArg' = [tidArg EXCEPT ![t] = tid]
  /\ UNCHANGED <<globals, table, job>>

SetFlag(t) ==
  /\ Goto(t, "set_flag", "set_tid")
  /\ is_hook_jni' = TRUE
  /\ UNCHANGED <<hook_tid, hook_tid2, tidArg, table, job>>

(* Mutation of SetTid: the list of hooks ends before NewObjectV.            *)
SetTidWithoutInit(t) ==
  /\ Goto(t, "set_tid", "install")
  /\ hook_tid' = tidArg[t]
  /\ StartJob(t, SubSeq(HookOrder, 1, 2 * Len(Types)))
  /\ UNCHANGED <<is_hook_jni, hook_tid2, tidArg, table>>

SetTid(t) ==
  /\ Goto(t, "set_tid", "install")
  /\ hook_tid' = tidArg[t]
  /\ StartJob(t, HookOrder)
  /\ UNCHANGED <<is_hook_jni, hook_tid2, tidArg, table>>

(* Mutation of Install: a call that reports the function as hooked already  *)
(* is tried again until it succeeds.                                        *)
InstallUntilHooked(t) ==
  /\ pc[t] = "install"
  /\ IF AtStep(t, "find") /\ table[Target(t)].entry
     THEN UNCHANGED <<table, job>>
     ELSE DobbyStep(t)
  /\ UNCHANGED <<globals, pc, tidArg>>

(* One step of the DobbyHook call t is in.                                  *)
Install(t) ==
  /\ pc[t] = "install"
  /\ DobbyStep(t)
  /\ UNCHANGED <<globals, pc, tidArg>>

LeaveHook(t) ==
  /\ Goto(t, "install", "app")
  /\ ~Busy(t)
  /\ tidArg' = [tidArg EXCEPT ![t] = NoThread]
  /\ UNCHANGED <<globals, table, job>>

(* Mutation of UnhookJniFunction: the ori_* are cleared although the        *)
(* patches stay.                                                            *)
UnhookForgetsOrigins(t) ==
  /\ pc[t] = "app"
  /\ is_hook_jni
  /\ is_hook_jni' = FALSE
  /\ table' = [f \in JniFunctions |-> [entry |-> table[f].entry,
                 patched |-> table[f].patched, ori |-> "null"]]
  /\ UNCHANGED <<hook_tid, hook_tid2, pc, tidArg, job>>

(* unhook_jni_function: DobbyDestroy is commented out, only the flag goes.  *)
(* Its test and its write are one step here: a write of FALSE that comes    *)
(* after the flag was cleared changes nothing, and one that comes after     *)
(* another thread set it is this step taken at the time of the write.       *)
UnhookJniFunction(t) ==
  /\ pc[t] = "app"
  /\ is_hook_jni
  /\ is_hook_jni' = FALSE
  /\ UNCHANGED <<hook_tid, hook_tid2, pc, tidArg, table, job>>

(* fake_query_internal on thread t: hook_tid2 = pthread_self(), then the    *)
(* original worker runs as application code.                                *)
FakeQueryInternal(t) ==
  /\ pc[t] = "app"
  /\ hook_tid2' = t
  /\ UNCHANGED <<is_hook_jni, hook_tid, pc, tidArg, table, job>>

HookCode(t) == SetFlag(t) \/ SetTid(t) \/ Install(t) \/ LeaveHook(t)

(* Mutation of HookApi: whichever thread runs fake_query switches the tracer *)
(* (the calls that lines 57 and 59 of native-lib.cpp comment out).          *)
HookApiFromAnyThread(t) ==
  \/ \E tid \in Threads : EnterHook(t, tid)
  \/ UnhookJniFunction(t)
  \/ FakeQueryInternal(t)

(* What application code may call.                                          *)
HookApi(t) ==
  \/ t \in Hookers /\ \E tid \in Threads : EnterHook(t, tid)
  \/ t \in Hookers /\ UnhookJniFunction(t)
  \/ FakeQueryInternal(t)

HooksNext == \E t \in Threads : HookCode(t) \/ HookApi(t)

HooksSpec == HooksInit /\ [][HooksNext]_hookVars

(* A thread inside hook_jni_function never waits for anything, so a         *)
(* scheduler that keeps running it lets it finish.                          *)
FairHooksSpec == HooksSpec /\ \A t \in Threads : WF_hookVars(HookCode(t))

-----------------------------------------------------------------------------

(* A function whose prologue is patched runs its fake_* on every call, and  *)
(* the fake_* calls through ori_* without a test: ori_* is set by then,     *)
(* however many threads are installing hooks.                               *)
OriginBeforePatch ==
  \A f \in JniFunctions : table[f].patched => table[f].ori # "null"

(* No ori_* ever leads back into its own replacement, through any number of *)
(* hook / unhook cycles (the hooks are never removed, so every cycle after  *)
(* the first calls DobbyHook on patched functions).  Holds when one thread  *)
(* switches the tracer; with two, the unlocked test of is_hook_jni lets     *)
(* both install.                                                            *)
OriginsRunOriginals ==
  \A f \in JniFunctions : table[f].ori # "loop"

(* Whenever tracing is on and no thread is inside hook_jni_function, every  *)
(* function of the list is patched and a target thread is known, whoever    *)
(* installed what.                                                          *)
TracingIsInstalled ==
  is_hook_jni /\ (\A t \in Threads : pc[t] = "app") =>
    /\ \A f \in JniFunctions : table[f].patched
    /\ hook_tid \in Threads

(* hook_jni_function always comes back to its caller.                       *)
HookReturns ==
  \A t \in Threads : pc[t] # "app" ~> pc[t] = "app"
=============================================================================

------------------------------- MODULE JniTracer -------------------------------
(***************************************************************************)
(* The replacements themselves: fake_Call[Static]<Type>MethodV and          *)
(* fake_NewObjectV, which all run handleMethodCall, and log_method_info,    *)
(* which itself calls Java helpers through the very JNI functions that are  *)
(* hooked.  Each thread has a stack of active replacements, innermost first. *)
(*                                                                         *)
(* Abstracted: the result value, the textual rendering of result and        *)
(* arguments, the log lines and the stack unwinding.  Kept: which original  *)
(* runs, pending exceptions, the tests of the globals in program order, the *)
(* helper calls and the re-entry they cause.                                *)
(***************************************************************************)
EXTENDS JniHooks

CONSTANTS
  AppMethods,  \* method ids the application passes to Call*Method
  AppDepth,    \* bound: intercepted calls the application nests per thread
  StackLimit   \* frames of replacements that fit on a thread's stack

VARIABLES
  stack,       \* per thread: the active replacements, innermost first
  pending,     \* per thread: a Java exception is pending
  crashed,     \* some thread overflowed its stack or called a null ori_*
  traced       \* history, per thread: since it last read is_hook_jni, tracing
               \* was on and the thread a target at one and the same moment

tracerVars == <<stack, pending, crashed, traced>>

vars == <<is_hook_jni, hook_tid, hook_tid2, pc, tidArg, table, job,
          stack, pending, crashed, traced>>

(* The method ids jni_hook_init caches and log_method_info refuses to log.  *)
HelperMethods ==
  {"gettype_method", "getmethodshorty_method", "getmethodname_method",
   "getmethodsig_method", "getinitname_method", "getinitsig_method",
   "getinitshorty_method"}

(* The application does not know the methods of HookEntry.                  *)
ASSUME AppMethodsAreOthers == AppMethods \cap HelperMethods = {}

(* Bounds on a stack are numbers of frames.                                 *)
ASSUME DepthsAreNumbers == AppDepth \in Nat /\ StackLimit \in Nat

(* The helpers log_method_info calls, in order.                             *)
HelperCalls(init) ==
  IF init
  THEN <<"getinitname_method", "getinitshorty_method",
         "gettype_method", "getinitsig_method">>
  ELSE <<"getmethodname_method", "getmethodshorty_method",
         "gettype_method", "getmethodsig_method">>

(* env->CallStaticObjectMethod goes through this entry of the JNI table.    *)
HelperFunction == JniFunction("Object", TRUE, FALSE)

(* HookJniCallMethodV is applied to Object as well.                         *)
ASSUME HelperFunctionIsHooked == HelperFunction \in JniFunctions

FramePoints == {"original", "result", "instanceof", "clear", "flag", "tid",
                "tid2", "log", "helper", "return"}

Frame == [fn: JniFunctions, mid: AppMethods \cup HelperMethods,
          at: FramePoints, k: 1..5]

NewFrame(fn, mid) == [fn |-> fn, mid |-> mid, at |-> "original", k |-> 1]

InFake(t) == stack[t] # <<>>

Top(t) == Head(stack[t])

At(t, point) == InFake(t) /\ Top(t).at = point

(* Tracing is on and t one of the two threads it logs.                      *)
IsTarget(t) == is_hook_jni /\ t \in {hook_tid, hook_tid2}

(* t runs code of the application: outside every replacement, or inside the *)
(* Java method an intercepted call of the application runs.                 *)
InApp(t) ==
  /\ pc[t] = "app"
  /\ InFake(t) => Top(t).at = "original" /\ Top(t).mid \in AppMethods

MoveTo(t, point) == stack' = [stack EXCEPT ![t][1].at = point]

Enter(t, fn, mid) ==
  IF Len(stack[t]) < StackLimit
  THEN /\ stack' = [stack EXCEPT ![t] = <<NewFrame(fn, mid)>> \o @]
       /\ UNCHANGED crashed
  ELSE /\ crashed' = TRUE
       /\ UNCHANGED stack

TracerTypeOK ==
  /\ HooksTypeOK
  /\ stack \in [Threads -> Seq(Frame)]
  /\ pending \in [Threads -> BOOLEAN]
  /\ crashed \in BOOLEAN
  /\ traced \in [Threads -> BOOLEAN]

Init ==
  /\ HooksInit
  /\ stack = [t \in Threads |-> <<>>]
  /\ pending = [t \in Threads |-> FALSE]
  /\ crashed = FALSE
  /\ traced = [t \in Threads |-> FALSE]

-----------------------------------------------------------------------------

(* The application calls a JNI function that is patched: its fake_* runs    *)
(* handleMethodCall.  An unpatched one is not seen by the tracer.           *)
AppCall(t, fn, mid) ==
  /\ InApp(t)
  /\ ~pending[t]
  /\ Len(stack[t]) < AppDepth
  /\ table[fn].patched
  /\ Enter(t, fn, mid)
  /\ UNCHANGED <<hookVars, pending, traced>>

(* The call through ori_*.  The Java method may throw; the helpers only read *)
(* reflection data and do not.  It returns when what it called has: t is    *)
(* not in hook_jni_function.                                                *)
CallOriginal(t) ==
  /\ pc[t] = "app"
  /\ At(t, "original")
  /\ CASE table[Top(t).fn].ori = "real" ->
            /\ \E throws \in IF Top(t).mid \in HelperMethods
                             THEN {FALSE} ELSE BOOLEAN :
                 pending' = [pending EXCEPT ![t] = throws]
            /\ MoveTo(t, IF Top(t).fn.type = "Object" THEN "result" ELSE "clear")
            /\ UNCHANGED crashed
       [] table[Top(t).fn].ori = "loop" ->
            /\ Enter(t, Top(t).fn, Top(t).mid)
            /\ UNCHANGED pending
       [] table[Top(t).fn].ori = "null" ->
            /\ crashed' = TRUE
            /\ UNCHANGED <<stack, pending>>
  /\ UNCHANGED <<hookVars, traced>>

(* Mutation of DropResultException: the exception is left pending.          *)
KeepResultException(t) ==
  /\ At(t, "result")
  /\ MoveTo(t, "instanceof")
  /\ UNCHANGED <<hookVars, pending, crashed, traced>>

(* case 'L', lines 317-319: the exception of the call is dropped before the *)
(* result is examined.                                                      *)
DropResultException(t) ==
  /\ At(t, "result")
  /\ pending' = [pending EXCEPT ![t] = FALSE]
  /\ MoveTo(t, "instanceof")
  /\ UNCHANGED <<hookVars, crashed, traced>>

(* FindClass, IsInstanceOf, GetStringUTFChars on the result.                *)
ExamineResult(t) ==
  /\ At(t, "instanceof")
  /\ MoveTo(t, "clear")
  /\ UNCHANGED <<hookVars, pending, crashed, traced>>

(* Lines 335-337, for every result type.                                    *)
ClearException(t) ==
  /\ At(t, "clear")
  /\ pending' = [pending EXCEPT ![t] = FALSE]
  /\ MoveTo(t, "flag")
  /\ UNCHANGED <<hookVars, crashed, traced>>

(* Line 339, first operand.                                                 *)
ReadFlag(t) ==
  /\ At(t, "flag")
  /\ MoveTo(t, IF is_hook_jni THEN "tid" ELSE "return")
  /\ traced' = [traced EXCEPT ![t] = IsTarget(t)]
  /\ UNCHANGED <<hookVars, pending, crashed>>

(* Its second operand, hook_tid,                                            *)
CompareTid(t) ==
  /\ At(t, "tid")
  /\ MoveTo(t, IF t = hook_tid THEN "log" ELSE "tid2")
  /\ UNCHANGED <<hookVars, pending, crashed, traced>>

(* and its third, hook_tid2.                                                *)
CompareTid2(t) ==
  /\ At(t, "tid2")
  /\ MoveTo(t, IF t = hook_tid2 THEN "log" ELSE "return")
  /\ UNCHANGED <<hookVars, pending, crashed, traced>>

(* Mutation of LogMethodInfo: the early return forgets gettype_method.      *)
LogTypeHelper(t) ==
  /\ At(t, "log")
  /\ MoveTo(t, IF Top(t).mid \in HelperMethods \ {"gettype_method"}
               THEN "return" ELSE "helper")
  /\ UNCHANGED <<hookVars, pending, crashed, traced>>

(* Mutation of LogMethodInfo: no early return.                              *)
LogEveryHelper(t) ==
  /\ At(t, "log")
  /\ MoveTo(t, "helper")
  /\ UNCHANGED <<hookVars, pending, crashed, traced>>

(* log_method_info: the early return of lines 86-89; otherwise the method   *)
(* is reflected and the helper calls begin.                                 *)
LogMethodInfo(t) ==
  /\ At(t, "log")
  /\ MoveTo(t, IF Top(t).mid \in HelperMethods THEN "return" ELSE "helper")
  /\ UNCHANGED <<hookVars, pending, crashed, traced>>

(* The k-th helper call: through the replacement once the table entry is    *)
(* patched, straight to the original before.                                *)
CallHelper(t) ==
  /\ At(t, "helper")
  /\ Top(t).k <= 4
  /\ IF table[HelperFunction].patched
     THEN Enter(t, HelperFunction, HelperCalls(Top(t).fn.init)[Top(t).k])
     ELSE /\ stack' = [stack EXCEPT ![t][1].k = @ + 1]
          /\ UNCHANGED crashed
  /\ UNCHANGED <<hookVars, pending, traced>>

(* All helpers have answered: the argument list is rendered, the call is    *)
(* logged, the strings are released.                                        *)
FinishLog(t) ==
  /\ At(t, "helper")
  /\ Top(t).k = 5
  /\ MoveTo(t, "return")
  /\ UNCHANGED <<hookVars, pending, crashed, traced>>

(* Mutation of Return: the waiting caller makes the same helper call again. *)
ReturnToSameHelper(t) ==
  /\ At(t, "return")
  /\ stack' = [stack EXCEPT ![t] = Tail(@)]
  /\ UNCHANGED <<hookVars, pending, crashed, traced>>

(* A caller that waited for a helper goes on to the next one.               *)
Resume(callers) ==
  IF callers # <<>> /\ Head(callers).at = "helper"
  THEN [callers EXCEPT ![1].k = @ + 1]
  ELSE callers

(* The replacement returns.                                                 *)
Return(t) ==
  /\ At(t, "return")
  /\ stack' = [stack EXCEPT ![t] = Resume(Tail(@))]
  /\ UNCHANGED <<hookVars, pending, crashed, traced>>

-----------------------------------------------------------------------------

(* Switching the tracer (JniHooks), from application code.                  *)
Switch(t) ==
  /\ \/ HookCode(t)
     \/ InApp(t) /\ HookApi(t)
  /\ traced' = [u \in Threads |-> traced[u] \/ IsTarget(u)']
  /\ UNCHANGED <<stack, pending, crashed>>

(* Steps of a replacement that need nothing from the application.           *)
FakeCode(t) ==
  \/ CallOriginal(t) /\ ~InApp(t)
  \/ DropResultException(t)
  \/ ExamineResult(t)
  \/ ClearException(t)
  \/ ReadFlag(t)
  \/ CompareTid(t)
  \/ CompareTid2(t)
  \/ LogMethodInfo(t)
  \/ CallHelper(t)
  \/ FinishLog(t)
  \/ Return(t)

(* The application: it makes intercepted calls, and the Java methods they   *)
(* run return.                                                              *)
AppStep(t) ==
  \/ \E fn \in JniFunctions, mid \in AppMethods : AppCall(t, fn, mid)
  \/ InApp(t) /\ CallOriginal(t)

Next ==
  /\ ~crashed
  /\ \E t \in Threads : Switch(t) \/ FakeCode(t) \/ AppStep(t)

Spec == Init /\ [][Next]_vars

(* The scheduler keeps running a thread that is inside the tracer's code;   *)
(* nothing is assumed of the application.                                   *)
TracerCode(t) ==
  /\ ~crashed
  /\ \/ FakeCode(t)
     \/ ~InApp(t) /\ Switch(t)

FairSpec == Spec /\ \A t \in Threads : WF_vars(TracerCode(t))

-----------------------------------------------------------------------------

(* Re-entry is one level deep: a helper call of log_method_info is          *)
(* intercepted again when CallStaticObjectMethodV is hooked, but its own    *)
(* replacement never calls a helper.  It runs innermost, on top of the      *)
(* replacement that is waiting for it.                                      *)
HelperCallsDoNotNest ==
  \A t \in Threads : \A i \in 1..Len(stack[t]) :
    stack[t][i].mid \in HelperMethods =>
      /\ i = 1
      /\ stack[t][i].at # "helper"
      /\ Len(stack[t]) > 1 /\ stack[t][2].at = "helper"

(* No JNI function other than ExceptionOccurred and ExceptionClear is       *)
(* called while an exception of the intercepted call is pending: neither    *)
(* when the result is examined nor by log_method_info and its helpers.      *)
NoJniCallWithPendingException ==
  \A t \in Threads :
    InFake(t) /\ Top(t).at \in {"instanceof", "log", "helper"} => ~pending[t]

(* Line 339 reads is_hook_jni, hook_tid and hook_tid2 one after the other   *)
(* with no lock, while hook_jni_function, unhook_jni_function and the        *)
(* worker's replacement write them.  The test is as good as an atomic one    *)
(* all the same: a call is logged only if at some moment between the first  *)
(* read and the last tracing was on with this very thread as a target, never *)
(* because an old flag was combined with a new id.  Holds when one thread   *)
(* switches the tracer, and because hook_jni_function raises the flag before *)
(* it names the thread.                                                     *)
LoggedWhenTraced ==
  \A t \in Threads : At(t, "log") => traced[t]

(* No thread of the application is lost in the tracer: no null ori_*, no    *)
(* unbounded recursion.                                                     *)
NoCrash == ~crashed

(* Whenever a thread is in the tracer's code it gets back to the            *)
(* application's.                                                           *)
TracerYields ==
  \A t \in Threads : ~InApp(t) ~> InApp(t)
=============================================================================

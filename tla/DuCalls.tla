-------------------------------- MODULE DuCalls --------------------------------
(***************************************************************************)
(* The replacements of the functions of libdu.so in native-lib.cpp, running *)
(* while NativeBridge is still installing hooks on other threads:           *)
(* fake_decstr, fake_query and fake_query_internal call their originals,    *)
(* and fake_query_internal_x runs its original in the virtual machine of    *)
(* libunicornvm.so, which asks unicornvm_callback at each operation.        *)
(*                                                                         *)
(* Each thread has a stack of replacements, innermost first.  Originals, and *)
(* code the virtual machine calls directly, run as native code and may call *)
(* hooked functions again.  What the functions compute and log is left out. *)
(***************************************************************************)
EXTENDS NativeBridge

CONSTANTS
  Callers,   \* threads that call functions of libdu.so
  MaxCalls   \* bound: replacements nested on a thread

ASSUME CallersAreThreads == Callers \subseteq Threads

VARIABLES
  stack,     \* per thread: its replacements
  cause      \* what killed the process in a replacement

duVars == <<stack, cause>>

allVars == <<vars, duVars>>

(* The operations the virtual machine reports, vc_optype_t, and one that    *)
(* the enumeration does not list.                                           *)
Operations == {"vcop_read", "vcop_write", "vcop_call", "vcop_return", "vcop_svc",
               "vcop_ifetch", "unknown"}

(* A replacement is at its start, in its original, in the interpreter, in a *)
(* callback, in code called directly, behind its last statement, or lost    *)
(* behind the end of the function.                                          *)
Points == {"start", "original", "interp", "direct", "end", "lost"} \cup Operations

DuTypeOK ==
  /\ TypeOK
  /\ stack \in [Threads -> Seq([fn: DuSites, at: Points])]
  /\ \A t \in Threads : Len(stack[t]) <= MaxCalls
  /\ cause \in {"none", "null_ori", "null_ctx", "null_string", "null_callee",
                "no_return"}

DuInit ==
  /\ Init
  /\ stack = [t \in Threads |-> <<>>]
  /\ cause = "none"

At(t, point) == stack[t] # <<>> /\ Head(stack[t]).at = point

Fn(t) == Head(stack[t]).fn

MoveTo(t, point) == stack' = [stack EXCEPT ![t][1].at = point]

(* t runs native code that is not a replacement.                            *)
InNative(t) == stack[t] = <<>> \/ At(t, "original") \/ At(t, "direct")

Crash(why) == crashed' = TRUE /\ cause' = why

bridge == <<name, library, dobby, du_ctx, mapped, monitor, pc, lib, nullOpen>>

-----------------------------------------------------------------------------

(* Native code calls a function of libdu.so that is patched.                *)
CallDu(t, f) ==
  /\ pc[t] = "app"
  /\ InNative(t)
  /\ Len(stack[t]) < MaxCalls
  /\ table[f].patched
  /\ stack' = [stack EXCEPT ![t] = <<[fn |-> f, at |-> "start"]>> \o @]
  /\ UNCHANGED <<bridge, crashed, cause>>

(* Lines 49, 58 and 116: the call through ori_*.                            *)
EnterOriginal(t) ==
  /\ At(t, "start")
  /\ Fn(t) # "query_internal_x"
  /\ IF table[Fn(t)].ori = "real"
     THEN MoveTo(t, "original") /\ UNCHANGED <<crashed, cause>>
     ELSE Crash("null_ori") /\ UNCHANGED stack
  /\ UNCHANGED bridge

(* The original returns, not while a library it loads is being loaded, and  *)
(* the replacement after it.  What the original of query returns is given   *)
(* to GetStringUTFChars, line 60, which aborts the process for a null       *)
(* string.                                                                  *)
LeaveOriginal(t) ==
  /\ pc[t] = "app"
  /\ At(t, "original")
  /\ \/ stack' = [stack EXCEPT ![t] = Tail(@)] /\ UNCHANGED <<crashed, cause>>
     \/ Fn(t) = "query" /\ Crash("null_string") /\ UNCHANGED stack
  /\ UNCHANGED bridge

(* Lines 121-122: a wrapper of the original is made, and called; it may be  *)
(* null.                                                                    *)
MakeCallee(t) ==
  /\ At(t, "start")
  /\ Fn(t) = "query_internal_x"
  /\ \/ /\ table[Fn(t)].ori = "real"
        /\ MoveTo(t, "interp")
        /\ UNCHANGED <<crashed, cause>>
     \/ table[Fn(t)].ori # "real" /\ Crash("null_ori") /\ UNCHANGED stack
     \/ Crash("null_callee") /\ UNCHANGED stack
  /\ UNCHANGED bridge

(* The interpreter comes to an operation, or to the end of the function.    *)
Interpret(t, op) ==
  /\ At(t, "interp")
  /\ MoveTo(t, op)
  /\ UNCHANGED <<bridge, crashed, cause>>

InterpretEnd(t) ==
  /\ At(t, "interp")
  /\ MoveTo(t, "end")
  /\ UNCHANGED <<bridge, crashed, cause>>

(* unicornvm_callback: lines 85 and 98 read du_ctx; a call is made          *)
(* directly, and the interpreter continues with everything else.            *)
UnicornvmCallback(t, op) ==
  /\ At(t, op)
  /\ IF op \in {"vcop_call", "vcop_ifetch"} /\ du_ctx = "null"
     THEN Crash("null_ctx") /\ UNCHANGED stack
     ELSE /\ MoveTo(t, IF op = "vcop_call" THEN "direct" ELSE "interp")
          /\ UNCHANGED <<crashed, cause>>
  /\ UNCHANGED bridge

DirectCallReturns(t) ==
  /\ pc[t] = "app"
  /\ At(t, "direct")
  /\ MoveTo(t, "interp")
  /\ UNCHANGED <<bridge, crashed, cause>>

(* fake_query_internal_x has no return statement: the compiler ends it with *)
(* a trap, or with nothing, so that the thread runs on in whatever follows. *)
RunOffTheEnd(t) ==
  /\ At(t, "end")
  /\ \/ Crash("no_return") /\ UNCHANGED stack
     \/ MoveTo(t, "lost") /\ UNCHANGED <<crashed, cause>>
  /\ UNCHANGED bridge

DuCode(t) ==
  /\ ~crashed
  /\ \/ \E f \in DuSites : t \in Callers /\ CallDu(t, f)
     \/ EnterOriginal(t) \/ LeaveOriginal(t)
     \/ MakeCallee(t)
     \/ \E op \in Operations : Interpret(t, op) \/ UnicornvmCallback(t, op)
     \/ InterpretEnd(t) \/ DirectCallReturns(t) \/ RunOffTheEnd(t)

(* NativeBridge's steps on threads that are not inside a replacement.       *)
BridgeStep ==
  /\ ~crashed
  /\ \/ InNative(Main) /\ (LoadHookLibrary \/ \E pkg \in Packages : DoNativeHook(pkg))
     \/ \E t \in Threads, l \in Libraries : InNative(t) /\ LoadLibrary(t, l)
     \/ \E l \in Libraries : LoadUnseen(l)
     \/ \E t \in Threads : BridgeCode(t)
  /\ UNCHANGED duVars

DuNext == BridgeStep \/ \E t \in Threads : DuCode(t)

DuSpec == DuInit /\ [][DuNext]_allVars

-----------------------------------------------------------------------------

(* However calls of libdu.so fall among the steps that hook it, no          *)
(* replacement calls an original that is not published, and a callback      *)
(* finds du_ctx null only while a thread is between lines 141 and 142 of a  *)
(* load whose fake_dlopen failed.                                           *)
NoUnsetPointerIsUsed ==
  /\ cause # "null_ori"
  /\ cause = "null_ctx" => \E t \in Threads : pc[t] = "null_du"

(* Only two calls of a library with a null result untested, and the missing *)
(* return, end the process in a replacement; otherwise a lookup has failed, *)
(* and the bridge, or a callback that reads du_ctx before it, dies of that. *)
DuCrashIsExplained ==
  /\ NoUnsetPointerIsUsed
  /\ crashed => nullOpen \/ cause \in {"null_string", "null_callee", "no_return"}
=============================================================================

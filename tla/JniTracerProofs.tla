--------------------------- MODULE JniTracerProofs ---------------------------
(***************************************************************************)
(* Theorems about JniHooks and JniTracer, for any threads, methods and list *)
(* of result types.  However the tracer is switched, a patched function has *)
(* its original; the replacements do to the switch what JniHooks allows,    *)
(* never call JNI with a pending exception, log target threads only, and,   *)
(* if one thread switches, do not recurse beyond one helper call.           *)
(***************************************************************************)
EXTENDS JniTracer, SequenceTheorems, TLAPS

(* HookOrder is a sequence of hooked functions.                             *)
LEMMA HookOrderIsSeq == HookOrder \in Seq(JniFunctions)
<1>1. Len(Types) \in Nat
  BY TypesIsSequence, LenProperties
<1>2. HookOrder = [i \in 1..(2 * Len(Types) + 1) |-> HookOrder[i]]
  BY DEF HookOrder
<1>3. \A i \in 1..(2 * Len(Types) + 1) : HookOrder[i] \in JniFunctions
  BY DEF HookOrder, JniFunctions
<1>4. 2 * Len(Types) + 1 \in Nat
  BY <1>1
<1> DEFINE n == 2 * Len(Types) + 1
<1>5. n \in Nat /\ \A i \in 1..n : HookOrder[i] \in JniFunctions
  BY <1>3, <1>4
<1>6. [i \in 1..n |-> HookOrder[i]] \in Seq(JniFunctions)
  <2> HIDE DEF n
  <2> QED BY <1>5, IsASeq
<1> QED BY <1>2, <1>6

(* The head of a non-empty job is a site, its tail is again a job.          *)
LEMMA JobParts ==
  ASSUME NEW t \in Threads, DobbyTypeOK, Busy(t)
  PROVE  /\ Target(t) \in JniFunctions
         /\ Tail(job[t].todo) \in Seq(JniFunctions)
<1>1. job[t].todo \in Seq(JniFunctions) /\ job[t].todo # <<>>
  BY DEF DobbyTypeOK, Busy
<1> QED BY <1>1, HeadTailProperties DEF Target

(* What FindHookEntry does to the job of its caller.                        *)
LEMMA FindEffect ==
  ASSUME NEW t \in Threads, FindHookEntry(t)
  PROVE  /\ AtStep(t, "find")
         /\ table' = table
         /\ \/ job' = [job EXCEPT ![t] = Job(Tail(job[t].todo), "find", "null")]
            \/ /\ ~table[Target(t)].entry
               /\ job' = [job EXCEPT ![t] = Job(job[t].todo, "relocate", "null")]
<1>1. CASE table[Target(t)].entry
  BY <1>1, Zenon DEF FindHookEntry, ReturnFromCall, StartJob
<1>2. CASE ~table[Target(t)].entry
  BY <1>2, Zenon DEF FindHookEntry, GoOn
<1> QED BY <1>1, <1>2

-----------------------------------------------------------------------------

(* A DobbyHook call keeps the hook table and the jobs well typed.           *)
LEMMA DobbyStepTypeOK ==
  ASSUME NEW t \in Threads, DobbyTypeOK, DobbyStep(t)
  PROVE  DobbyTypeOK'
<1> USE DEF Steps, Origins, GoOn, StartJob, ReturnFromCall, Job
<1>1. Busy(t) => /\ Target(t) \in JniFunctions
                 /\ Tail(job[t].todo) \in Seq(JniFunctions)
  BY JobParts
<1>2. CASE FindHookEntry(t)
  <2>1. CASE job' = [job EXCEPT ![t] = Job(Tail(job[t].todo), "find", "null")]
    BY <1>1, <1>2, <2>1, FindEffect DEF DobbyTypeOK, AtStep
  <2>2. CASE job' = [job EXCEPT ![t] = Job(job[t].todo, "relocate", "null")]
    BY <1>1, <1>2, <2>2, FindEffect DEF DobbyTypeOK, AtStep
  <2> QED BY <1>2, <2>1, <2>2, FindEffect
<1>3. CASE RelocatePrologue(t)
  BY <1>3 DEF RelocatePrologue, DobbyTypeOK, AtStep
<1>4. CASE PublishOrigin(t)
  BY <1>1, <1>4 DEF PublishOrigin, DobbyTypeOK, AtStep
<1>5. CASE CommitPatch(t)
  BY <1>1, <1>5 DEF CommitPatch, DobbyTypeOK, AtStep
<1> QED BY <1>2, <1>3, <1>4, <1>5 DEF DobbyStep

(* Every step of switching the tracer keeps its state well typed.           *)
LEMMA HooksStepTypeOK ==
  ASSUME HooksTypeOK, [HooksNext]_hookVars
  PROVE  HooksTypeOK'
<1> USE DEF HooksTypeOK, Locations, Goto, globals
<1>1. CASE UNCHANGED hookVars
  BY <1>1 DEF hookVars, DobbyTypeOK
<1>2. ASSUME NEW t \in Threads, HookCode(t)
      PROVE  HooksTypeOK'
  <2>1. CASE SetFlag(t)
    BY <2>1 DEF SetFlag, DobbyTypeOK
  <2>2. CASE SetTid(t)
    BY <2>2, HookOrderIsSeq
       DEF SetTid, StartJob, Job, DobbyTypeOK, Steps, Origins
  <2>3. CASE Install(t)
    BY <2>3, DobbyStepTypeOK DEF Install
  <2>4. CASE LeaveHook(t)
    BY <2>4 DEF LeaveHook, DobbyTypeOK
  <2> QED BY <1>2, <2>1, <2>2, <2>3, <2>4 DEF HookCode
<1>3. ASSUME NEW t \in Threads, HookApi(t)
      PROVE  HooksTypeOK'
  <2>1. ASSUME NEW tid \in Threads, EnterHook(t, tid)
        PROVE  HooksTypeOK'
    BY <2>1 DEF EnterHook, DobbyTypeOK
  <2>2. CASE UnhookJniFunction(t)
    BY <2>2 DEF UnhookJniFunction, DobbyTypeOK
  <2>3. CASE FakeQueryInternal(t)
    BY <2>3 DEF FakeQueryInternal, DobbyTypeOK
  <2> QED BY <1>3, <2>1, <2>2, <2>3 DEF HookApi
<1> QED BY <1>1, <1>2, <1>3 DEF HooksNext

(* The initial state is well typed.                                         *)
LEMMA HooksInitTypeOK ==
  ASSUME HooksInit
  PROVE  HooksTypeOK
<1>1. <<>> \in Seq(JniFunctions)
  OBVIOUS
<1> QED BY <1>1 DEF HooksInit, HooksTypeOK, DobbyInit, DobbyTypeOK, Locations,
                    Unhooked, NoJob, Job, Steps, Origins

(* The state of JniHooks is always of the type HooksTypeOK states, for any  *)
(* number of threads switching the tracer.                                  *)
THEOREM HooksTypeCorrect == HooksSpec => []HooksTypeOK
<1> QED BY HooksInitTypeOK, HooksStepTypeOK, PTL DEF HooksSpec

-----------------------------------------------------------------------------

(* OriginBeforePatch is not inductive: a thread about to patch relies on    *)
(* the origin it published, and one about to publish on its relocated stub. *)
OriginInv ==
  /\ OriginBeforePatch
  /\ \A t \in Threads : AtStep(t, "publish") => job[t].copy # "null"
  /\ \A t \in Threads : AtStep(t, "commit") => table[Target(t)].ori # "null"

(* A DobbyHook call keeps OriginInv, whatever calls other threads are in.   *)
LEMMA DobbyStepOriginInv ==
  ASSUME NEW t \in Threads, DobbyTypeOK, OriginInv, DobbyStep(t)
  PROVE  OriginInv'
<1> USE DEF OriginInv, OriginBeforePatch, AtStep, Busy, GoOn, StartJob,
            ReturnFromCall, Job
<1>1. \A s \in Threads : Busy(s) => Target(s) \in JniFunctions
  BY JobParts
<1>2. CASE FindHookEntry(t)
  <2>1. CASE job' = [job EXCEPT ![t] = Job(Tail(job[t].todo), "find", "null")]
    BY <1>1, <1>2, <2>1, FindEffect DEF DobbyTypeOK, Target
  <2>2. CASE job' = [job EXCEPT ![t] = Job(job[t].todo, "relocate", "null")]
    BY <1>1, <1>2, <2>2, FindEffect DEF DobbyTypeOK, Target
  <2> QED BY <1>2, <2>1, <2>2, FindEffect
<1>3. CASE RelocatePrologue(t)
  BY <1>1, <1>3 DEF RelocatePrologue, DobbyTypeOK, Target
<1>4. CASE PublishOrigin(t)
  BY <1>1, <1>4 DEF PublishOrigin, DobbyTypeOK, Target
<1>5. CASE CommitPatch(t)
  BY <1>1, <1>5 DEF CommitPatch, DobbyTypeOK, Target
<1> QED BY <1>2, <1>3, <1>4, <1>5 DEF DobbyStep

(* Calls of DobbyHook are the only steps that matter to OriginInv.          *)
LEMMA HooksStepOriginInv ==
  ASSUME HooksTypeOK, OriginInv, [HooksNext]_hookVars
  PROVE  OriginInv'
<1>1. CASE UNCHANGED <<table, job>>
  BY <1>1 DEF OriginInv, OriginBeforePatch, AtStep, Busy, Target
<1>2. ASSUME NEW t \in Threads, Install(t)
      PROVE  OriginInv'
  BY <1>2, DobbyStepOriginInv DEF Install, HooksTypeOK
<1>3. ASSUME NEW t \in Threads, SetTid(t)
      PROVE  OriginInv'
  BY <1>3 DEF SetTid, StartJob, Job, OriginInv, OriginBeforePatch, AtStep, Busy,
              Target, HooksTypeOK, DobbyTypeOK
<1> QED BY <1>1, <1>2, <1>3
        DEF HooksNext, HookCode, HookApi, SetFlag, LeaveHook, EnterHook,
            UnhookJniFunction, FakeQueryInternal, hookVars

(* However many threads install hooks at the same time, a patched function  *)
(* has its ori_* set: no replacement ever calls through a null pointer.     *)
THEOREM OriginsArePublished == HooksSpec => []OriginBeforePatch
<1>1. HooksInit => OriginInv
  BY DEF HooksInit, DobbyInit, Unhooked, NoJob, Job, OriginInv,
         OriginBeforePatch, AtStep, Busy
<1>2. OriginInv => OriginBeforePatch
  BY DEF OriginInv
<1> QED BY <1>1, <1>2, HooksStepOriginInv, HooksTypeCorrect, PTL DEF HooksSpec

-----------------------------------------------------------------------------

(* With at most one thread switching the tracer, the DobbyHook calls of the *)
(* program are sequential, and an entry seen absent stays absent until the  *)
(* call that looked records it: each prologue is relocated before it is     *)
(* patched.                                                                 *)
OneHooker == \A s, u \in Hookers : s = u

(* The inductive invariant in that case.                                    *)
SequentialInv ==
  /\ OriginsRunOriginals
  /\ \A t \in Threads : pc[t] # "app" => t \in Hookers
  /\ \A t \in Threads : Busy(t) => pc[t] = "install"
  /\ \A f \in JniFunctions : table[f].patched => table[f].entry
  /\ \A t \in Threads : AtStep(t, "relocate") => ~table[Target(t)].entry
  /\ \A t \in Threads : AtStep(t, "publish") => job[t].copy = "real"
  /\ \A t \in Threads : AtStep(t, "commit") => table[Target(t)].entry

(* The DobbyHook calls of the only hooker keep SequentialInv.               *)
LEMMA InstallSequentialInv ==
  ASSUME OneHooker, NEW t \in Threads, HooksTypeOK, SequentialInv, Install(t)
  PROVE  SequentialInv'
<1> USE DEF SequentialInv, OriginsRunOriginals, AtStep, Busy, GoOn, StartJob,
            ReturnFromCall, Job
<1>1. Busy(t) => Target(t) \in JniFunctions
  BY JobParts DEF HooksTypeOK
<1>2. \A s \in Threads : s # t => ~Busy(s)
  BY DEF Install, OneHooker
<1>3. pc[t] = "install" /\ pc' = pc /\ DobbyTypeOK
  BY DEF Install, HooksTypeOK
<1>4. CASE FindHookEntry(t)
  <2>1. CASE job' = [job EXCEPT ![t] = Job(Tail(job[t].todo), "find", "null")]
    BY <1>1, <1>2, <1>3, <1>4, <2>1, FindEffect DEF DobbyTypeOK, Target
  <2>2. CASE /\ ~table[Target(t)].entry
             /\ job' = [job EXCEPT ![t] = Job(job[t].todo, "relocate", "null")]
    BY <1>1, <1>2, <1>3, <1>4, <2>2, FindEffect DEF DobbyTypeOK, Target
  <2> QED BY <1>4, <2>1, <2>2, FindEffect
<1>5. CASE RelocatePrologue(t)
  <2>1. ~table[Target(t)].patched
    BY <1>1, <1>5 DEF RelocatePrologue
  <2>2. job' = [job EXCEPT ![t] = Job(job[t].todo, "publish", "real")]
    BY <1>5, <2>1 DEF RelocatePrologue
  <2> QED BY <1>1, <1>2, <1>3, <1>5, <2>2
          DEF RelocatePrologue, DobbyTypeOK, Target
<1>6. CASE PublishOrigin(t)
  BY <1>1, <1>2, <1>3, <1>6 DEF PublishOrigin, DobbyTypeOK, Target
<1>7. CASE CommitPatch(t)
  BY <1>1, <1>2, <1>3, <1>7 DEF CommitPatch, DobbyTypeOK, Target
<1> QED BY <1>4, <1>5, <1>6, <1>7 DEF Install, DobbyStep

(* So do the steps that start and end them.                                 *)
LEMMA HooksStepSequentialInv ==
  ASSUME OneHooker, HooksTypeOK, SequentialInv, [HooksNext]_hookVars
  PROVE  SequentialInv'
<1> USE DEF SequentialInv, OriginsRunOriginals, AtStep, Busy, Target, Goto
<1>1. CASE UNCHANGED <<pc, table, job>>
  BY <1>1
<1>2. ASSUME NEW t \in Threads, Install(t)
      PROVE  SequentialInv'
  BY <1>2, InstallSequentialInv
<1>3. ASSUME NEW t \in Threads, SetTid(t)
      PROVE  SequentialInv'
  BY <1>3 DEF SetTid, StartJob, Job, HooksTypeOK, DobbyTypeOK
<1>4. ASSUME NEW t \in Threads, SetFlag(t) \/ LeaveHook(t)
      PROVE  SequentialInv'
  BY <1>4 DEF SetFlag, LeaveHook, HooksTypeOK
<1>5. ASSUME NEW t \in Hookers, NEW tid \in Threads, EnterHook(t, tid)
      PROVE  SequentialInv'
  BY <1>5, HookersAreThreads DEF EnterHook, HooksTypeOK
<1> QED BY <1>1, <1>2, <1>3, <1>4, <1>5
        DEF HooksNext, HookCode, HookApi, UnhookJniFunction,
            FakeQueryInternal, hookVars

(* When at most one thread switches the tracer, no ori_* ever leads back    *)
(* into its replacement, through any number of hook / unhook cycles.        *)
THEOREM OriginsStayReal ==
  ASSUME OneHooker
  PROVE  HooksSpec => []OriginsRunOriginals
<1>1. HooksInit => SequentialInv
  BY DEF HooksInit, DobbyInit, Unhooked, NoJob, Job, SequentialInv,
         OriginsRunOriginals, AtStep, Busy
<1>2. HooksTypeOK /\ SequentialInv /\ [HooksNext]_hookVars => SequentialInv'
  BY OneHooker, HooksStepSequentialInv
<1>3. SequentialInv => OriginsRunOriginals
  BY DEF SequentialInv
<1> QED BY <1>1, <1>2, <1>3, HooksTypeCorrect, PTL DEF HooksSpec

-----------------------------------------------------------------------------

(* t has yet to call DobbyHook for f, or is in that call.                   *)
Wants(t, f) == \E i \in DOMAIN job[t].todo : job[t].todo[i] = f

(* Whoever set the flag goes through the whole list, and leaves each        *)
(* function with an entry, its own or that of a thread that is still about  *)
(* to patch it: the inductive invariant behind TracingIsInstalled.          *)
InstalledInv ==
  /\ is_hook_jni =>
       \/ hook_tid \in Threads /\ \A f \in JniFunctions : table[f].entry
       \/ \E t \in Threads : pc[t] \in {"set_tid", "install"}
  /\ \A t \in Threads :
       /\ pc[t] # "app" => tidArg[t] \in Threads
       /\ pc[t] = "install" =>
            /\ hook_tid \in Threads
            /\ \A f \in JniFunctions : table[f].entry \/ Wants(t, f)
       /\ Busy(t) => pc[t] = "install"
       /\ AtStep(t, "commit") => table[Target(t)].entry
  /\ \A f \in JniFunctions : table[f].entry =>
       \/ table[f].patched
       \/ \E t \in Threads : AtStep(t, "commit") /\ Target(t) = f
(* What is behind the head of a sequence is in its tail.                    *)
LEMMA LaterInTail ==
  ASSUME NEW S, NEW s \in Seq(S), s # <<>>, NEW i \in DOMAIN s, s[i] # Head(s)
  PROVE  \E j \in DOMAIN Tail(s) : Tail(s)[j] = s[i]
<1>1. i # 1 /\ i \in 1..Len(s) /\ Len(s) \in Nat
  OBVIOUS
<1>2. i - 1 \in 1..(Len(s) - 1)
  BY <1>1
<1>3. i - 1 \in DOMAIN Tail(s) /\ Tail(s)[i - 1] = s[i]
  BY <1>1, <1>2
<1> QED BY <1>3

(* Behind the head of a list, f is still wanted.                            *)
LEMMA WantedLater ==
  ASSUME NEW t \in Threads, DobbyTypeOK, Busy(t), NEW f, Wants(t, f), f # Target(t)
  PROVE  \E i \in DOMAIN Tail(job[t].todo) : Tail(job[t].todo)[i] = f
<1>1. job[t].todo \in Seq(JniFunctions) /\ job[t].todo # <<>>
  BY DEF DobbyTypeOK, Busy
<1>2. PICK i \in DOMAIN job[t].todo : job[t].todo[i] = f
  BY DEF Wants
<1> QED BY <1>1, <1>2, LaterInTail DEF Target

(* One step of a DobbyHook call keeps InstalledInv: a call that drops its   *)
(* target has found an entry or has patched.                                *)
LEMMA InstallInstalledInv ==
  ASSUME NEW t \in Threads, HooksTypeOK, InstalledInv, Install(t)
  PROVE  InstalledInv'
<1>1. /\ DobbyTypeOK /\ pc[t] = "install" /\ DobbyStep(t)
      /\ UNCHANGED <<is_hook_jni, hook_tid, pc, tidArg>>
  BY DEF Install, HooksTypeOK, globals
<1>2. Busy(t)
  BY <1>1 DEF DobbyStep, FindHookEntry, RelocatePrologue, PublishOrigin,
              CommitPatch, AtStep
<1>3. Target(t) \in JniFunctions /\ Tail(job[t].todo) \in Seq(JniFunctions)
  BY <1>1, <1>2, JobParts
<1>4. \A f \in JniFunctions :
        Wants(t, f) => f = Target(t) \/ \E i \in DOMAIN Tail(job[t].todo) : Tail(job[t].todo)[i] = f
  BY <1>1, <1>2, WantedLater
<1>5. \/ \E step \in {"relocate", "publish"}, copy \in Origins :
           table' = table /\ job' = [job EXCEPT ![t] = Job(job[t].todo, step, copy)]
           /\ job[t].step # "commit"
      \/ /\ table' = [table EXCEPT ![Target(t)] =
                        [entry |-> TRUE, patched |-> @.patched, ori |-> job[t].copy]]
         /\ job' = [job EXCEPT ![t] = Job(job[t].todo, "commit", job[t].copy)]
         /\ job[t].step # "commit"
      \/ /\ table[Target(t)].entry /\ table' = table
         /\ job' = [job EXCEPT ![t] = Job(Tail(job[t].todo), "find", "null")]
         /\ job[t].step # "commit"
      \/ /\ table[Target(t)].entry
         /\ table' = [table EXCEPT ![Target(t)] =
                        [entry |-> @.entry, patched |-> TRUE, ori |-> @.ori]]
         /\ job' = [job EXCEPT ![t] = Job(Tail(job[t].todo), "find", "null")]
         /\ job[t].step = "commit"
  <2>1. CASE FindHookEntry(t)
    <3>1. CASE table[Target(t)].entry
      BY <2>1, <3>1 DEF FindHookEntry, ReturnFromCall, StartJob, AtStep
    <3>2. CASE ~table[Target(t)].entry
      BY <2>1, <3>2 DEF FindHookEntry, GoOn, AtStep, Origins
    <3> QED BY <3>1, <3>2
  <2>2. CASE RelocatePrologue(t)
    BY <2>2 DEF RelocatePrologue, GoOn, AtStep, Origins
  <2>3. CASE PublishOrigin(t)
    BY <2>3 DEF PublishOrigin, GoOn, AtStep
  <2>4. CASE CommitPatch(t)
    BY <2>4 DEF CommitPatch, ReturnFromCall, StartJob, AtStep, InstalledInv
  <2> QED BY <1>1, <2>1, <2>2, <2>3, <2>4 DEF DobbyStep
<1>6. /\ \A s \in Threads : s # t => job'[s] = job[s]
      /\ \A f \in JniFunctions : f # Target(t) => table'[f] = table[f]
      /\ \A f \in JniFunctions : table[f].entry => table'[f].entry
      /\ \A f \in JniFunctions : table[f].patched => table'[f].patched
  <2>1. \A s \in Threads : s # t => job'[s] = job[s]
    BY <1>1, <1>5 DEF DobbyTypeOK
  <2>2. \A f \in JniFunctions : f # Target(t) => table'[f] = table[f]
    BY <1>1, <1>5 DEF DobbyTypeOK
  <2>3. /\ table[Target(t)].entry => table'[Target(t)].entry
        /\ table[Target(t)].patched => table'[Target(t)].patched
    BY <1>1, <1>3, <1>5 DEF DobbyTypeOK
  <2> QED BY <2>1, <2>2, <2>3
<1>7. is_hook_jni' =>
        \/ hook_tid' \in Threads /\ \A f \in JniFunctions : table'[f].entry
        \/ \E s \in Threads : pc'[s] \in {"set_tid", "install"}
  BY <1>1
<1>8. ASSUME NEW s \in Threads
      PROVE  /\ (pc[s] = "install")' => \A f \in JniFunctions : (table[f].entry \/ Wants(s, f))'
             /\ Busy(s)' => pc'[s] = "install"
             /\ AtStep(s, "commit")' => table'[Target(s)'].entry
  <2>1. CASE s # t
    <3>1. (Busy(s)' <=> Busy(s)) /\ (AtStep(s, "commit")' <=> AtStep(s, "commit"))
          /\ Target(s)' = Target(s) /\ \A f \in JniFunctions : Wants(s, f)' <=> Wants(s, f)
      BY <1>6, <2>1 DEF Busy, AtStep, Target, Wants
    <3>2. Busy(s) => Target(s) \in JniFunctions
      BY <1>1, JobParts
    <3> QED BY <1>1, <1>6, <3>1, <3>2 DEF InstalledInv, AtStep
  <2>2. CASE s = t
    <3>1. \A f \in JniFunctions : (table[f].entry \/ Wants(t, f))'
      <4>1. CASE job'[t].todo = job[t].todo
        BY <1>1, <1>6, <4>1 DEF InstalledInv, Wants
      <4>2. CASE job'[t].todo = Tail(job[t].todo) /\ table[Target(t)].entry
        BY <1>1, <1>4, <1>6, <4>2 DEF InstalledInv, Wants
      <4>3. \/ job'[t].todo = job[t].todo
            \/ job'[t].todo = Tail(job[t].todo) /\ table[Target(t)].entry
        <5>1. \A todo, step, copy :
                job' = [job EXCEPT ![t] = Job(todo, step, copy)] => job'[t].todo = todo
          BY <1>1 DEF DobbyTypeOK, Job
        <5> QED BY <1>5, <5>1
      <4> QED BY <4>1, <4>2, <4>3
    <3>2. AtStep(t, "commit")' => table'[Target(t)'].entry
      <4>1. ASSUME table' = [table EXCEPT ![Target(t)] =
                               [entry |-> TRUE, patched |-> @.patched, ori |-> job[t].copy]],
                   job' = [job EXCEPT ![t] = Job(job[t].todo, "commit", job[t].copy)]
            PROVE  table'[Target(t)'].entry
        BY <1>1, <1>3, <4>1 DEF DobbyTypeOK, Target, Job
      <4> QED BY <1>1, <1>5, <4>1 DEF DobbyTypeOK, AtStep, Job
    <3> QED BY <1>1, <2>2, <3>1, <3>2
  <2> QED BY <2>1, <2>2
<1>9. ASSUME NEW f \in JniFunctions, table'[f].entry, ~table'[f].patched
      PROVE  \E s \in Threads : (AtStep(s, "commit") /\ Target(s) = f)'
  <2>1. CASE table[f].entry
    <3>1. PICK s \in Threads : AtStep(s, "commit") /\ Target(s) = f
      BY <1>6, <1>9, <2>1 DEF InstalledInv
    <3>2. s # t
      BY <1>1, <1>3, <1>5, <1>9, <3>1 DEF AtStep, DobbyTypeOK
    <3> QED BY <1>6, <3>1, <3>2 DEF AtStep, Busy, Target
  <2>2. CASE ~table[f].entry
    <3>1. /\ f = Target(t)
          /\ job' = [job EXCEPT ![t] = Job(job[t].todo, "commit", job[t].copy)]
      BY <1>1, <1>3, <1>5, <1>9, <2>2 DEF DobbyTypeOK
    <3>2. job'[t] = Job(job[t].todo, "commit", job[t].copy)
      BY <1>1, <3>1 DEF DobbyTypeOK
    <3> QED BY <1>2, <3>1, <3>2 DEF AtStep, Busy, Target, Job
  <2> QED BY <2>1, <2>2
<1>10. \A s \in Threads : /\ (pc[s] # "app")' => tidArg'[s] \in Threads
                          /\ (pc[s] = "install")' => hook_tid' \in Threads
  BY <1>1 DEF InstalledInv
<1> QED BY <1>7, <1>8, <1>9, <1>10 DEF InstalledInv

(* Every step keeps InstalledInv.                                           *)
LEMMA HooksStepInstalledInv ==
  ASSUME HooksTypeOK, InstalledInv, [HooksNext]_hookVars
  PROVE  InstalledInv'
<1> USE DEF InstalledInv, AtStep, Busy, Target, Wants, Goto
<1>1. ASSUME UNCHANGED <<is_hook_jni, hook_tid, pc, tidArg, table, job>>
      PROVE  InstalledInv'
  BY <1>1
<1>2. ASSUME NEW t \in Threads, Install(t) PROVE InstalledInv'
  BY <1>2, InstallInstalledInv
<1>3. ASSUME NEW t \in Threads, SetFlag(t) PROVE InstalledInv'
  BY <1>3 DEF SetFlag, HooksTypeOK
<1>4. ASSUME NEW t \in Threads, SetTid(t) PROVE InstalledInv'
  <2>1. /\ pc'[t] = "install" /\ job'[t] = Job(HookOrder, "find", "null")
        /\ \A s \in Threads : s # t => pc'[s] = pc[s] /\ job'[s] = job[s]
        /\ hook_tid' \in Threads
        /\ UNCHANGED <<is_hook_jni, tidArg, table>>
    BY <1>4 DEF SetTid, StartJob, HooksTypeOK, DobbyTypeOK
  <2>2. job'[t].todo = HookOrder /\ job'[t].step = "find"
    BY <2>1 DEF Job
  <2>3. \A f \in JniFunctions : \E i \in DOMAIN HookOrder : HookOrder[i] = f
    BY DEF JniFunctions
  <2>4. \A s \in Threads : AtStep(s, "commit") => s # t
    BY <1>4 DEF SetTid
  <2> QED BY <1>4, <2>1, <2>2, <2>3, <2>4 DEF SetTid
<1>5. ASSUME NEW t \in Threads, LeaveHook(t) PROVE InstalledInv'
  <2>1. /\ pc[t] = "install" /\ hook_tid \in Threads /\ \A f \in JniFunctions : ~Wants(t, f)
        /\ pc'[t] = "app" /\ UNCHANGED <<is_hook_jni, hook_tid, table, job>>
        /\ \A s \in Threads : s # t => pc'[s] = pc[s] /\ tidArg'[s] = tidArg[s]
    BY <1>5 DEF LeaveHook, HooksTypeOK, globals
  <2>2. \A f \in JniFunctions : table[f].entry
    BY <2>1
  <2> QED BY <1>5, <2>1, <2>2 DEF LeaveHook
<1>6. ASSUME NEW t \in Threads, NEW tid \in Threads, EnterHook(t, tid) PROVE InstalledInv'
  BY <1>6 DEF EnterHook, HooksTypeOK, globals
<1>7. ASSUME NEW t \in Threads, UnhookJniFunction(t) PROVE InstalledInv'
  BY <1>7 DEF UnhookJniFunction
<1>8. ASSUME NEW t \in Threads, FakeQueryInternal(t) PROVE InstalledInv'
  BY <1>1, <1>8 DEF FakeQueryInternal
<1>9. CASE UNCHANGED hookVars
  BY <1>1, <1>9 DEF hookVars
<1> QED BY <1>2, <1>3, <1>4, <1>5, <1>6, <1>7, <1>8, <1>9 DEF HooksNext, HookCode, HookApi

(* Whoever switched the tracer on and however many threads did so at once:  *)
(* when the flag is set and nobody is inside hook_jni_function, all of its  *)
(* functions are patched and a target thread is known.                      *)
THEOREM TracingInstalls == HooksSpec => []TracingIsInstalled
<1>1. HooksInit => InstalledInv
  BY DEF HooksInit, DobbyInit, Unhooked, NoJob, Job, InstalledInv, AtStep, Busy
<1>2. InstalledInv => TracingIsInstalled
  BY DEF InstalledInv, TracingIsInstalled, AtStep
<1> QED BY <1>1, <1>2, HooksStepInstalledInv, HooksTypeCorrect, PTL DEF HooksSpec

-----------------------------------------------------------------------------

(* What is left of the DobbyHook calls of t, and of its hook_jni_function:  *)
(* no more steps than these numbers.                                        *)
StepsDone == [find |-> 0, relocate |-> 1, publish |-> 2, commit |-> 3]

Jobs == [todo: Seq(JniFunctions), step: Steps, copy: Origins]

JobRank(j) == IF j.todo # <<>> THEN 4 * Len(j.todo) - StepsDone[j.step] ELSE 0

HookRank(t) ==
  CASE pc[t] = "app" -> 0
    [] pc[t] = "set_flag" -> 4 * Len(HookOrder) + 3
    [] pc[t] = "set_tid" -> 4 * Len(HookOrder) + 2
    [] pc[t] = "install" -> JobRank(job[t]) + 1

(* There are steps left while there are calls, four for each at most.       *)
LEMMA JobRankBounds ==
  ASSUME NEW j \in Jobs
  PROVE  /\ Len(j.todo) \in Nat
         /\ JobRank(j) \in Nat
         /\ JobRank(j) <= 4 * Len(j.todo)
<1>1. j.todo \in Seq(JniFunctions) /\ j.step \in Steps /\ Len(j.todo) \in Nat
  BY LenProperties DEF Jobs
<1>2. j.todo # <<>> => Len(j.todo) >= 1
  BY <1>1
<1>3. StepsDone[j.step] \in {0, 1, 2, 3}
  BY <1>1 DEF Steps, StepsDone
<1> QED
  BY <1>1, <1>2, <1>3 DEF JobRank

(* Each step of DobbyHook brings its thread nearer to the end, and leaves   *)
(* the other threads where they are.                                        *)
LEMMA DobbyStepProgress ==
  ASSUME NEW t \in Threads, DobbyTypeOK, DobbyStep(t)
  PROVE  /\ JobRank(job'[t]) < JobRank(job[t])
         /\ \A u \in Threads \ {t} : job'[u] = job[u]
<1>1. /\ job[t].todo \in Seq(JniFunctions) /\ Len(job[t].todo) \in Nat
      /\ \A j : \A u \in Threads \ {t} : [job EXCEPT ![t] = j][u] = job[u]
      /\ \A j : [job EXCEPT ![t] = j][t] = j
      /\ job[t] \in Jobs
  BY LenProperties DEF DobbyTypeOK, Jobs
<1>2. Busy(t) => /\ Len(Tail(job[t].todo)) = Len(job[t].todo) - 1
                 /\ Tail(job[t].todo) \in Seq(JniFunctions)
                 /\ Len(job[t].todo) >= 1
  BY <1>1, HeadTailProperties DEF Busy
<1>3. job'[t] \in Jobs
  BY DobbyStepTypeOK DEF DobbyTypeOK, Jobs
<1>4. ASSUME AtStep(t, "find") \/ AtStep(t, "commit"),
             job' = [job EXCEPT ![t] = Job(Tail(job[t].todo), "find", "null")]
      PROVE  /\ JobRank(job'[t]) < JobRank(job[t])
             /\ \A u \in Threads \ {t} : job'[u] = job[u]
  <2>1. /\ job'[t].todo = Tail(job[t].todo) /\ job'[t].step = "find"
        /\ \A u \in Threads \ {t} : job'[u] = job[u]
    BY <1>1, <1>4 DEF Job
  <2>2. JobRank(job'[t]) <= 4 * Len(job'[t].todo)
    BY <1>3, JobRankBounds
  <2>3. JobRank(job'[t]) \in Nat
    BY <1>3, JobRankBounds
  <2>4. /\ Busy(t)
        /\ \/ JobRank(job[t]) = 4 * Len(job[t].todo)
           \/ JobRank(job[t]) = 4 * Len(job[t].todo) - 3
    BY <1>1, <1>4 DEF JobRank, AtStep, Busy, StepsDone
  <2>5. Len(job'[t].todo) = Len(job[t].todo) - 1
    BY <1>2, <2>1, <2>4
  <2>6. ASSUME NEW m \in Nat, NEW n \in Nat, NEW r \in Nat, m = n - 1, r <= 4 * m
        PROVE  r < 4 * n /\ r < 4 * n - 3
    BY <2>6
  <2>7. Len(job'[t].todo) \in Nat
    BY <1>3, JobRankBounds
  <2> QED
    BY <1>1, <2>1, <2>2, <2>3, <2>4, <2>5, <2>6, <2>7
<1>5. ASSUME NEW at, NEW next, NEW copy, AtStep(t, at),
             job' = [job EXCEPT ![t] = Job(job[t].todo, next, copy)],
             at \in Steps, next \in Steps, StepsDone[next] = StepsDone[at] + 1
      PROVE  /\ JobRank(job'[t]) < JobRank(job[t])
             /\ \A u \in Threads \ {t} : job'[u] = job[u]
  <2>1. /\ job'[t].todo = job[t].todo /\ job'[t].step = next
        /\ \A u \in Threads \ {t} : job'[u] = job[u]
    BY <1>1, <1>5 DEF Job
  <2>2. /\ JobRank(job[t]) = 4 * Len(job[t].todo) - StepsDone[at]
        /\ JobRank(job'[t]) = 4 * Len(job[t].todo) - StepsDone[next]
    BY <1>5, <2>1 DEF JobRank, AtStep, Busy
  <2>3. StepsDone[at] \in Nat
    BY <1>5 DEF Steps, StepsDone
  <2> QED
    BY <1>1, <1>5, <2>1, <2>2, <2>3
<1>6. /\ StepsDone["relocate"] = StepsDone["find"] + 1
      /\ StepsDone["publish"] = StepsDone["relocate"] + 1
      /\ StepsDone["commit"] = StepsDone["publish"] + 1
      /\ {"find", "relocate", "publish", "commit"} = Steps
  BY DEF StepsDone, Steps
<1>7. CASE FindHookEntry(t)
  BY <1>4, <1>5, <1>6, <1>7, FindEffect
<1>8. CASE RelocatePrologue(t)
  BY <1>5, <1>6, <1>8 DEF RelocatePrologue, GoOn
<1>9. CASE PublishOrigin(t)
  BY <1>5, <1>6, <1>9 DEF PublishOrigin, GoOn
<1>10. CASE CommitPatch(t)
  BY <1>4, <1>10 DEF CommitPatch, ReturnFromCall, StartJob
<1> QED
  BY <1>7, <1>8, <1>9, <1>10 DEF DobbyStep

(* The steps of t in hook_jni_function count down, and nobody else's step   *)
(* changes what is left to it.                                              *)
HookAdvances(t) ==
  /\ HookRank(t) \in Nat /\ (pc[t] # "app" => HookRank(t) >= 1)
  /\ HookCode(t) => HookRank(t)' < HookRank(t)
  /\ pc[t] # "app" /\ ~HookCode(t) => HookRank(t)' = HookRank(t)

(* That is so of every step.                                                *)
LEMMA HookStepAdvances ==
  ASSUME HooksTypeOK, HooksTypeOK', HooksNext, NEW t \in Threads
  PROVE  HookAdvances(t)
<1>1. /\ pc \in [Threads -> Locations] /\ DobbyTypeOK /\ DobbyTypeOK'
      /\ job \in [Threads -> Jobs] /\ job' \in [Threads -> Jobs]
  BY DEF HooksTypeOK, DobbyTypeOK, Jobs
<1>2. Len(HookOrder) \in Nat /\ JobRank(job[t]) \in Nat
  BY <1>1, HookOrderIsSeq, JobRankBounds, LenProperties
<1>3. HookRank(t) \in Nat /\ (pc[t] # "app" => HookRank(t) >= 1)
  BY <1>1, <1>2 DEF HookRank, Locations
<1>4. ASSUME HookCode(t) PROVE HookRank(t)' < HookRank(t)
  <2>1. CASE SetFlag(t)
    BY <1>1, <1>2, <2>1 DEF SetFlag, Goto, HookRank
  <2>2. CASE SetTid(t)
    <3>1. /\ pc[t] = "set_tid" /\ pc'[t] = "install"
          /\ job' = [job EXCEPT ![t] = Job(HookOrder, "find", "null")]
      BY <1>1, <2>2 DEF SetTid, Goto, StartJob
    <3>2. job'[t].todo = HookOrder
      BY <1>1, <3>1 DEF Job
    <3>3. JobRank(job'[t]) <= 4 * Len(HookOrder) /\ JobRank(job'[t]) \in Nat
      BY <1>1, <3>2, JobRankBounds
    <3> QED
      BY <1>2, <3>1, <3>3 DEF HookRank
  <2>3. CASE Install(t)
    <3>1. JobRank(job'[t]) < JobRank(job[t]) /\ pc[t] = "install" /\ pc'[t] = "install"
      BY <1>1, <2>3, DobbyStepProgress DEF Install
    <3>2. JobRank(job'[t]) \in Nat
      BY <1>1, JobRankBounds
    <3> QED
      BY <1>2, <3>1, <3>2 DEF HookRank
  <2>4. CASE LeaveHook(t)
    BY <1>1, <1>2, <2>4 DEF LeaveHook, Goto, HookRank
  <2> QED
    BY <1>4, <2>1, <2>2, <2>3, <2>4 DEF HookCode
<1>5. ASSUME pc[t] # "app", ~HookCode(t) PROVE HookRank(t)' = HookRank(t)
  <2>1. pc'[t] = pc[t] /\ job'[t] = job[t]
    <3>1. ASSUME NEW u \in Threads, HookCode(u) PROVE pc'[t] = pc[t] /\ job'[t] = job[t]
      <4>1. u # t
        BY <1>5, <3>1
      <4>2. CASE Install(u)
        BY <1>1, <4>1, <4>2, DobbyStepProgress DEF Install
      <4>3. CASE SetFlag(u) \/ SetTid(u) \/ LeaveHook(u)
        BY <1>1, <4>1, <4>3 DEF SetFlag, SetTid, LeaveHook, Goto, StartJob
      <4> QED
        BY <3>1, <4>2, <4>3 DEF HookCode
    <3>2. ASSUME NEW u \in Threads, HookApi(u) PROVE pc'[t] = pc[t] /\ job'[t] = job[t]
      BY <1>1, <1>5, <3>2
         DEF HookApi, EnterHook, UnhookJniFunction, FakeQueryInternal, Goto
    <3> QED
      BY <3>1, <3>2 DEF HooksNext
  <2> QED
    BY <2>1 DEF HookRank
<1> QED
  BY <1>3, <1>4, <1>5 DEF HookAdvances

(* A thread in hook_jni_function takes no more than HookRank steps to its   *)
(* end, and nothing another thread does adds to them: whoever else installs *)
(* the same hooks, each of its own steps brings it nearer.  This is what    *)
(* HookReturns rests on, for any threads and list of types.                 *)
THEOREM HookingAdvances ==
  HooksSpec => [][\A t \in Threads : HookAdvances(t)]_hookVars
<1>1. HooksTypeOK /\ HooksTypeOK' /\ [HooksNext]_hookVars
        => [\A t \in Threads : HookAdvances(t)]_hookVars
  BY HookStepAdvances
<1> QED
  BY <1>1, HooksTypeCorrect, PTL DEF HooksSpec

-----------------------------------------------------------------------------

(* Every step of the tracer is a step of JniHooks, or leaves its state.     *)
LEMMA TracerStepIsHooksStep == [Next]_vars => [HooksNext]_hookVars
  BY DEF Next, vars, hookVars, HooksNext, Switch, FakeCode, AppStep, AppCall,
         CallOriginal, DropResultException, ExamineResult, ClearException,
         ReadFlag, CompareTid, CompareTid2, LogMethodInfo, CallHelper, FinishLog, Return

(* The replacements have no access to the flag, the thread ids and the      *)
(* hooks, so what is proved of the switch alone holds in the tracer.        *)
LEMMA TracerImplementsHooks == Spec => HooksSpec
<1>1. Init => HooksInit
  BY DEF Init
<1> QED
  BY <1>1, TracerStepIsHooksStep, PTL DEF Spec, HooksSpec

-----------------------------------------------------------------------------

(* What a step does to the stacks: the top frame of t becomes f, f is put   *)
(* on top, or the top is dropped and a caller that waited for a helper      *)
(* counts it.                                                               *)
OneStack(t) ==
  /\ stack' \in [Threads -> Seq(Frame)]
  /\ \A u \in Threads : u # t => stack'[u] = stack[u]

(* The replacement on top of t goes on.                                     *)
Replaced(t, f) ==
  /\ OneStack(t)
  /\ Len(stack'[t]) = Len(stack[t])
  /\ stack'[t][1] = f
  /\ \A i \in 2..Len(stack[t]) : stack'[t][i] = stack[t][i]

(* A replacement is entered.                                                *)
Pushed(t, f) ==
  /\ OneStack(t)
  /\ Len(stack'[t]) = Len(stack[t]) + 1
  /\ stack'[t][1] = f
  /\ \A i \in 2..Len(stack'[t]) : stack'[t][i] = stack[t][i - 1]

(* A frame that waited for a helper counts it.                              *)
Counted(f) == IF f.at = "helper" THEN [f EXCEPT !.k = @ + 1] ELSE f

(* A replacement returns.                                                   *)
Popped(t) ==
  /\ OneStack(t)
  /\ Len(stack'[t]) = Len(stack[t]) - 1
  /\ Len(stack[t]) > 1 => stack'[t][1] = Counted(stack[t][2])
  /\ \A i \in 2..Len(stack'[t]) : stack'[t][i] = stack[t][i + 1]

(* A frame below the top is in the call of its original or of a helper, and *)
(* not behind the last helper.                                              *)
StackInv ==
  \A t \in Threads : \A i \in 2..Len(stack[t]) :
    /\ stack[t][i].at \in {"original", "helper"}
    /\ stack[t][i].at = "helper" => stack[t][i].k <= 4

(* In a replacement the stack has a top frame.                              *)
LEMMA TopFrame ==
  ASSUME TracerTypeOK, NEW t \in Threads, InFake(t)
  PROVE  /\ stack[t] \in Seq(Frame) /\ Len(stack[t]) \in Nat /\ Len(stack[t]) > 0
         /\ Top(t) = stack[t][1] /\ stack[t][1] \in Frame
         /\ \A i \in 1..Len(stack[t]) : stack[t][i] \in Frame
  BY DEF TracerTypeOK, InFake, Top

(* Changing the top frame of t changes nothing else.                        *)
LEMMA ReplaceTop ==
  ASSUME TracerTypeOK, NEW t \in Threads, InFake(t), NEW f \in Frame,
         stack' = [stack EXCEPT ![t] = [stack[t] EXCEPT ![1] = f]]
  PROVE  Replaced(t, f)
<1> DEFINE s == [stack[t] EXCEPT ![1] = f]
<1>1. /\ s \in Seq(Frame) /\ Len(s) = Len(stack[t]) /\ s[1] = f
      /\ \A i \in 2..Len(stack[t]) : s[i] = stack[t][i]
  BY TopFrame
<1>2. stack' = [stack EXCEPT ![t] = s]
  OBVIOUS
<1> QED
  BY <1>1, <1>2 DEF TracerTypeOK, Replaced, OneStack

(* Moving on is such a change,                                              *)
LEMMA MoveEffect ==
  ASSUME TracerTypeOK, NEW t \in Threads, InFake(t), NEW point \in FramePoints,
         MoveTo(t, point)
  PROVE  Replaced(t, [stack[t][1] EXCEPT !.at = point])
<1>1. stack' = [stack EXCEPT ![t] =
                  [stack[t] EXCEPT ![1] = [stack[t][1] EXCEPT !.at = point]]]
  BY DEF MoveTo
<1>2. [stack[t][1] EXCEPT !.at = point] \in Frame
  BY TopFrame DEF Frame
<1> QED
  BY <1>1, <1>2, ReplaceTop

(* and so is counting a helper call.                                        *)
LEMMA CountEffect ==
  ASSUME TracerTypeOK, NEW t \in Threads, InFake(t), stack[t][1].k <= 4,
         stack' = [stack EXCEPT ![t][1].k = @ + 1]
  PROVE  Replaced(t, [stack[t][1] EXCEPT !.k = @ + 1])
<1>1. stack' = [stack EXCEPT ![t] =
                  [stack[t] EXCEPT ![1] = [stack[t][1] EXCEPT !.k = @ + 1]]]
  OBVIOUS
<1>2. stack[t][1].k \in 1..5
  BY TopFrame DEF Frame
<1>3. stack[t][1].k + 1 \in 1..5
  BY <1>2
<1>4. [stack[t][1] EXCEPT !.k = @ + 1] \in Frame
  BY <1>3, TopFrame DEF Frame
<1> QED
  BY <1>1, <1>4, ReplaceTop

(* Entering a replacement pushes its frame, or overflows the stack.         *)
LEMMA EnterEffect ==
  ASSUME TracerTypeOK, NEW t \in Threads, NEW fn \in JniFunctions,
         NEW mid \in AppMethods \cup HelperMethods, Enter(t, fn, mid)
  PROVE  \/ Pushed(t, NewFrame(fn, mid)) /\ crashed' = crashed
                /\ Len(stack[t]) < StackLimit
         \/ stack' = stack /\ crashed' = TRUE /\ ~(Len(stack[t]) < StackLimit)
<1> DEFINE f == NewFrame(fn, mid)
           s == <<f>> \o stack[t]
<1>1. f \in Frame
  BY DEF NewFrame, Frame, FramePoints
<1>2. stack[t] \in Seq(Frame)
  BY DEF TracerTypeOK
<1>3. /\ s \in Seq(Frame) /\ Len(s) = Len(stack[t]) + 1 /\ s[1] = f
      /\ \A i \in 2..Len(s) : s[i] = stack[t][i - 1]
  <2> HIDE DEF f
  <2>1. <<f>> \in Seq(Frame) /\ Len(<<f>>) = 1 /\ <<f>>[1] = f
    BY <1>1
  <2>2. s \in Seq(Frame)
    BY <1>2, <2>1, ConcatProperties
  <2>3. Len(s) = 1 + Len(stack[t])
    BY <1>2, <2>1, ConcatProperties
  <2>4. \A i \in 1..Len(s) : s[i] = IF i <= 1 THEN f ELSE stack[t][i - 1]
    BY <1>2, <2>1, ConcatProperties
  <2>5. Len(stack[t]) \in Nat
    BY <1>2
  <2> HIDE DEF s
  <2> QED
    BY <2>2, <2>3, <2>4, <2>5
<1>4. CASE Len(stack[t]) < StackLimit
  <2>1. stack' = [stack EXCEPT ![t] = s] /\ crashed' = crashed
    BY <1>4 DEF Enter
  <2> HIDE DEF s
  <2>2. Pushed(t, f)
    BY <1>3, <2>1 DEF TracerTypeOK, Pushed, OneStack
  <2> QED
    BY <1>4, <2>1, <2>2
<1>5. CASE ~(Len(stack[t]) < StackLimit)
  BY <1>5 DEF Enter
<1> QED
  BY <1>4, <1>5

(* Returning pops the frame of the replacement.                             *)
LEMMA ReturnEffect ==
  ASSUME TracerTypeOK, StackInv, NEW t \in Threads, Return(t)
  PROVE  Popped(t)
<1>1. InFake(t)
  BY DEF Return, At
<1>2. /\ stack[t] \in Seq(Frame) /\ stack[t] # <<>>
      /\ \A i \in 1..Len(stack[t]) : stack[t][i] \in Frame
  BY <1>1, TopFrame DEF InFake
<1> DEFINE callers == Tail(stack[t])
           waits == callers # <<>> /\ Head(callers).at = "helper"
           g == [callers[1] EXCEPT !.k = @ + 1]
<1>3. /\ callers \in Seq(Frame) /\ Len(callers) = Len(stack[t]) - 1
      /\ \A i \in 1..Len(callers) : callers[i] = stack[t][i + 1]
      /\ callers # <<>> => Head(callers) = callers[1]
  BY <1>2
<1>4. stack' = [stack EXCEPT ![t] = Resume(callers)]
  BY Zenon DEF Return
<1> HIDE DEF callers
<1>5. CASE waits
  <2>1. Resume(callers) = [callers EXCEPT ![1] = g]
    BY <1>5, Zenon DEF Resume
  <2>2. callers[1] = stack[t][2] /\ Len(callers) > 0 /\ Len(stack[t]) > 1
    BY <1>2, <1>3, <1>5
  <2>3. callers[1] \in Frame /\ callers[1].k <= 4 /\ callers[1].at = "helper"
    BY <1>2, <1>3, <1>5, <2>2 DEF StackInv
  <2>4. callers[1].k \in 1..5 /\ callers[1].k + 1 \in 1..5
    BY <2>3 DEF Frame
  <2>5. g \in Frame
    BY <2>3, <2>4 DEF Frame
  <2>6. g = Counted(stack[t][2])
    BY <2>2, <2>3, Zenon DEF Counted
  <2> HIDE DEF g
  <2> DEFINE s == [callers EXCEPT ![1] = g]
  <2>7. /\ s \in Seq(Frame) /\ Len(s) = Len(callers) /\ s[1] = g
        /\ \A i \in 2..Len(s) : s[i] = callers[i]
    BY <1>3, <2>2, <2>5
  <2>8. stack' = [stack EXCEPT ![t] = s]
    BY <1>4, <2>1, Zenon
  <2> HIDE DEF s
  <2>9. OneStack(t) /\ stack'[t] = s
    BY <2>7, <2>8 DEF TracerTypeOK, OneStack
  <2>10. Len(s) = Len(stack[t]) - 1
    BY <1>3, <2>7
  <2>11. \A i \in 2..Len(s) : s[i] = stack[t][i + 1]
    BY <1>3, <2>7
  <2> QED
    BY <2>6, <2>7, <2>9, <2>10, <2>11 DEF Popped
<1>6. CASE ~waits
  <2>1. Resume(callers) = callers
    BY <1>6, Zenon DEF Resume
  <2>2. stack' = [stack EXCEPT ![t] = callers]
    BY <1>4, <2>1, Zenon
  <2>3. Len(stack[t]) > 1 => callers # <<>> /\ callers[1] = stack[t][2]
    BY <1>2, <1>3
  <2>4. Len(stack[t]) > 1 => stack[t][2].at # "helper"
    BY <1>3, <1>6, <2>3
  <2>5. Len(stack[t]) > 1 => callers[1] = Counted(stack[t][2])
    BY <2>3, <2>4, Zenon DEF Counted
  <2>6. OneStack(t) /\ stack'[t] = callers
    BY <1>3, <2>2 DEF TracerTypeOK, OneStack
  <2>7. \A i \in 2..Len(callers) : callers[i] = stack[t][i + 1]
    BY <1>3
  <2> HIDE DEF g
  <2> QED
    BY <1>3, <2>5, <2>6, <2>7 DEF Popped
<1> QED
  BY <1>5, <1>6

-----------------------------------------------------------------------------

(* Behind the call of the original no exception is pending, down to the     *)
(* return, so that a caller that waits for a helper finds none either.      *)
QuietInv ==
  \A t \in Threads :
    stack[t] # <<>> /\ stack[t][1].at \notin {"original", "result", "clear"} => ~pending[t]

(* The inductive invariant.                                                 *)
Inv == TracerTypeOK /\ StackInv /\ QuietInv

(* What every step of a replacement on t leaves alone.                      *)
OnlyThread(t) ==
  /\ HooksTypeOK'
  /\ crashed' \in BOOLEAN
  /\ traced' \in [Threads -> BOOLEAN]
  /\ pending' \in [Threads -> BOOLEAN]
  /\ \A u \in Threads : u # t => (pending'[u] <=> pending[u])

(* A replacement that goes on keeps the invariant if it does so with no     *)
(* exception pending.                                                       *)
LEMMA ReplacedKeepsInv ==
  ASSUME Inv, NEW t \in Threads, InFake(t), NEW f, Replaced(t, f), OnlyThread(t),
         f.at \notin {"original", "result", "clear"} => ~pending'[t]
  PROVE  Inv'
<1> USE DEF Inv, OnlyThread, Replaced, OneStack
<1>1. \A u \in Threads : Len(stack[u]) \in Nat /\ (stack'[u] = <<>> <=> stack[u] = <<>>)
  BY TopFrame DEF TracerTypeOK, InFake
<1>2. TracerTypeOK'
  BY DEF TracerTypeOK
<1>3. StackInv'
  BY <1>1 DEF StackInv
<1>4. QuietInv'
  BY <1>1 DEF QuietInv
<1> QED
  BY <1>2, <1>3, <1>4

(* So does entering one, from the application, from an original or from a   *)
(* helper call,                                                             *)
LEMMA PushedKeepsInv ==
  ASSUME Inv, NEW t \in Threads, NEW f, Pushed(t, f), OnlyThread(t),
         f.at = "original",
         InFake(t) => /\ stack[t][1].at \in {"original", "helper"}
                      /\ stack[t][1].at = "helper" => stack[t][1].k <= 4
  PROVE  Inv'
<1> USE DEF Inv, OnlyThread, Pushed, OneStack
<1>1. /\ \A u \in Threads : Len(stack[u]) \in Nat
      /\ Len(stack[t]) > 0 => InFake(t)
  BY DEF TracerTypeOK, InFake
<1>2. \A i \in 2..Len(stack'[t]) :
        /\ i - 1 \in 1..Len(stack[t]) /\ stack'[t][i] = stack[t][i - 1]
        /\ i - 1 = 1 \/ i - 1 \in 2..Len(stack[t])
  BY <1>1
<1>3. TracerTypeOK'
  BY DEF TracerTypeOK
<1>4. StackInv'
  <2>1. \A i \in 2..Len(stack'[t]) :
          /\ stack'[t][i].at \in {"original", "helper"}
          /\ stack'[t][i].at = "helper" => stack'[t][i].k <= 4
    <3> TAKE i \in 2..Len(stack'[t])
    <3>1. i - 1 \in 1..Len(stack[t]) /\ stack'[t][i] = stack[t][i - 1]
      BY <1>2
    <3>2. CASE i - 1 = 1
      <4>1. InFake(t)
        BY <1>1, <3>1
      <4> QED
        BY <3>1, <3>2, <4>1
    <3>3. CASE i - 1 \in 2..Len(stack[t])
      BY <3>1, <3>3 DEF StackInv
    <3> QED
      BY <1>2, <3>2, <3>3
  <2>2. \A u \in Threads : u # t => stack'[u] = stack[u]
    OBVIOUS
  <2> SUFFICES ASSUME NEW u \in Threads, NEW i \in 2..Len(stack'[u])
               PROVE  /\ stack'[u][i].at \in {"original", "helper"}
                      /\ stack'[u][i].at = "helper" => stack'[u][i].k <= 4
    BY DEF StackInv
  <2>3. CASE u = t
    BY <2>1, <2>3
  <2>4. CASE u # t
    BY <2>2, <2>4 DEF StackInv
  <2> QED
    BY <2>3, <2>4
<1>5. QuietInv'
  BY <1>1 DEF QuietInv
<1> QED
  BY <1>3, <1>4, <1>5

(* and returning from one with no exception pending.                        *)
LEMMA PoppedKeepsInv ==
  ASSUME Inv, NEW t \in Threads, InFake(t), Popped(t), OnlyThread(t),
         ~pending[t], pending' = pending
  PROVE  Inv'
<1> USE DEF Inv, OnlyThread, Popped, OneStack
<1>1. \A u \in Threads : Len(stack[u]) \in Nat
  BY DEF TracerTypeOK
<1>2. \A i \in 2..Len(stack'[t]) : i + 1 \in 2..Len(stack[t]) /\ i + 1 \in 1..Len(stack[t])
  BY <1>1
<1>3. Len(stack'[t]) > 0 => 2 \in 1..Len(stack[t]) /\ stack'[t][1].at = stack[t][2].at
  <2>1. SUFFICES ASSUME Len(stack'[t]) > 0
                 PROVE  2 \in 1..Len(stack[t]) /\ stack'[t][1].at = stack[t][2].at
    OBVIOUS
  <2>2. 2 \in 1..Len(stack[t]) /\ Len(stack[t]) > 1
    BY <1>1, <2>1
  <2>3. stack[t][2] \in Frame
    BY <2>2, TopFrame
  <2>4. Counted(stack[t][2]).at = stack[t][2].at
    BY <2>3 DEF Counted, Frame
  <2> QED
    BY <2>2, <2>4
<1>4. TracerTypeOK'
  BY DEF TracerTypeOK
<1>5. StackInv'
  <2> SUFFICES ASSUME NEW u \in Threads, NEW i \in 2..Len(stack'[u])
               PROVE  /\ stack'[u][i].at \in {"original", "helper"}
                      /\ stack'[u][i].at = "helper" => stack'[u][i].k <= 4
    BY DEF StackInv
  <2>1. CASE u = t
    BY <1>2, <2>1 DEF StackInv
  <2>2. CASE u # t
    BY <2>2 DEF StackInv
  <2> QED
    BY <2>1, <2>2
<1>6. QuietInv'
  BY DEF QuietInv
<1> QED
  BY <1>4, <1>5, <1>6

-----------------------------------------------------------------------------

(* log_method_info calls the cached methods only.                           *)
LEMMA HelperCallMethods ==
  \A init : \A k \in 1..4 : HelperCalls(init)[k] \in HelperMethods
  <1> TAKE init
  <1> TAKE k \in 1..4
  <1>1. CASE init
    BY <1>1 DEF HelperCalls, HelperMethods
  <1>2. CASE ~init
    BY <1>2 DEF HelperCalls, HelperMethods
  <1> QED
    BY <1>1, <1>2

(* No thread is in a replacement at first.                                  *)
LEMMA InitInv == Init => Inv
<1> SUFFICES ASSUME Init PROVE Inv
  OBVIOUS
<1>1. HooksTypeOK
  BY HooksInitTypeOK DEF Init
<1>2. \A t \in Threads : stack[t] = <<>> /\ Len(stack[t]) = 0
  BY DEF Init
<1>3. TracerTypeOK
  <2>1. <<>> \in Seq(Frame)
    OBVIOUS
  <2>2. stack \in [Threads -> Seq(Frame)]
    BY <2>1, Zenon DEF Init
  <2> QED
    BY <1>1, <2>2 DEF Init, TracerTypeOK
<1>4. StackInv /\ QuietInv
  BY <1>2 DEF StackInv, QuietInv
<1> QED
  BY <1>3, <1>4 DEF Inv

(* The switch changes no stack.                                             *)
LEMMA SwitchKeepsInv ==
  ASSUME Inv, NEW t \in Threads, Switch(t), HooksTypeOK'
  PROVE  Inv'
<1> USE DEF Inv
<1>1. /\ UNCHANGED <<stack, pending, crashed>>
      /\ traced' = [u \in Threads |-> traced[u] \/ IsTarget(u)']
  BY DEF Switch
<1>2. TracerTypeOK'
  BY <1>1 DEF TracerTypeOK, HooksTypeOK, IsTarget
<1>3. StackInv' /\ QuietInv'
  BY <1>1 DEF StackInv, QuietInv
<1> QED
  BY <1>2, <1>3

(* The top frame moves to another point of the replacement.                 *)
LEMMA MoveKeepsInv ==
  ASSUME Inv, NEW t \in Threads, InFake(t), OnlyThread(t),
         NEW point \in FramePoints, MoveTo(t, point),
         point \notin {"original", "result", "clear"} => ~pending'[t]
  PROVE  Inv'
<1> DEFINE f == [stack[t][1] EXCEPT !.at = point]
<1>1. Replaced(t, f)
  BY MoveEffect DEF Inv
<1>2. f.at = point
  BY TopFrame DEF Inv, Frame
<1> HIDE DEF f
<1> QED
  BY <1>1, <1>2, ReplacedKeepsInv

(* A replacement starts on top of the stack, or the stack overflows.        *)
LEMMA EnterKeepsInv ==
  ASSUME Inv, NEW t \in Threads, NEW fn \in JniFunctions,
         NEW mid \in AppMethods \cup HelperMethods, Enter(t, fn, mid),
         UNCHANGED <<hookVars, pending, traced>>,
         InFake(t) => /\ stack[t][1].at \in {"original", "helper"}
                      /\ stack[t][1].at = "helper" => stack[t][1].k <= 4
  PROVE  Inv'
<1>1. HooksTypeOK'
  BY DEF Inv, TracerTypeOK, HooksTypeOK, DobbyTypeOK, hookVars
<1>2. CASE Pushed(t, NewFrame(fn, mid)) /\ crashed' = crashed
  <2>1. OnlyThread(t)
    BY <1>1, <1>2 DEF OnlyThread, Inv, TracerTypeOK, hookVars
  <2>2. NewFrame(fn, mid).at = "original"
    BY DEF NewFrame
  <2> QED
    BY <1>2, <2>1, <2>2, PushedKeepsInv
<1>3. CASE stack' = stack /\ crashed' = TRUE
  BY <1>1, <1>3 DEF Inv, TracerTypeOK, StackInv, QuietInv, hookVars
<1> QED
  BY <1>2, <1>3, EnterEffect DEF Inv

(* Every action of the tracer keeps the invariant.                          *)
LEMMA NextInv == Inv /\ [Next]_vars => Inv'
<1> SUFFICES ASSUME Inv, [Next]_vars PROVE Inv'
  OBVIOUS
<1>1. HooksTypeOK'
  BY TracerStepIsHooksStep, HooksStepTypeOK DEF Inv, TracerTypeOK
<1>2. CASE UNCHANGED vars
  BY <1>1, <1>2 DEF vars, Inv, TracerTypeOK, StackInv, QuietInv
<1>3. ASSUME NEW t \in Threads, Switch(t) PROVE Inv'
  BY <1>1, <1>3, SwitchKeepsInv
<1>4. ASSUME NEW t \in Threads, NEW point, At(t, point)
      PROVE  /\ InFake(t) /\ stack[t] # <<>> /\ stack[t][1].at = point
             /\ Top(t) = stack[t][1] /\ stack[t][1] \in Frame
             /\ stack[t][1].fn \in JniFunctions
             /\ stack[t][1].mid \in AppMethods \cup HelperMethods
             /\ stack[t][1].k \in 1..5
  <2>1. InFake(t) /\ Top(t).at = point
    BY <1>4 DEF At
  <2>2. Top(t) = stack[t][1] /\ stack[t][1] \in Frame
    BY <2>1, TopFrame DEF Inv
  <2> QED
    BY <2>1, <2>2 DEF Frame, InFake
(* OnlyThread of a step that leaves the globals alone.                      *)
<1>5. ASSUME NEW t \in Threads, traced' \in [Threads -> BOOLEAN],
             crashed' \in BOOLEAN, pending' \in [Threads -> BOOLEAN],
             \A u \in Threads : u # t => (pending'[u] <=> pending[u])
      PROVE  OnlyThread(t)
  BY <1>1, <1>5 DEF OnlyThread
<1>6. ASSUME NEW t \in Threads, UNCHANGED <<hookVars, traced, crashed, pending>>
      PROVE  OnlyThread(t)
  BY <1>5, <1>6 DEF Inv, TracerTypeOK
<1>7. ASSUME NEW t \in Threads, UNCHANGED <<hookVars, traced, crashed>>,
             NEW v \in BOOLEAN, pending' = [pending EXCEPT ![t] = v]
      PROVE  OnlyThread(t) /\ (pending'[t] <=> v)
  <2>1. /\ pending' \in [Threads -> BOOLEAN]
        /\ \A u \in Threads : u # t => pending'[u] = pending[u]
        /\ pending'[t] = v
    BY <1>7 DEF Inv, TracerTypeOK
  <2> QED
    BY <1>5, <1>7, <2>1 DEF Inv, TracerTypeOK
<1>8. ASSUME NEW t \in Threads, NEW fn \in JniFunctions, NEW mid \in AppMethods,
             AppCall(t, fn, mid)
      PROVE  Inv'
  <2>1. InFake(t) => stack[t][1].at = "original"
    BY <1>8, TopFrame DEF AppCall, InApp, Inv
  <2> QED
    BY <1>8, <2>1, EnterKeepsInv DEF AppCall
<1>9. ASSUME NEW t \in Threads, CallOriginal(t) PROVE Inv'
  <2>1. At(t, "original") /\ UNCHANGED <<hookVars, traced>>
    BY <1>9 DEF CallOriginal
  <2>2. stack[t][1].fn \in JniFunctions /\ Top(t) = stack[t][1] /\ InFake(t)
        /\ stack[t][1].at = "original"
        /\ stack[t][1].mid \in AppMethods \cup HelperMethods
    BY <2>1, <1>4
  <2>3. table[Top(t).fn].ori \in {"null", "real", "loop"}
    BY <2>2 DEF Inv, TracerTypeOK, HooksTypeOK, DobbyTypeOK, Origins
  <2>4. CASE table[Top(t).fn].ori = "real"
    <3>1. PICK v \in BOOLEAN : pending' = [pending EXCEPT ![t] = v]
      BY <1>9, <2>4 DEF CallOriginal
    <3>2. UNCHANGED crashed
      BY <1>9, <2>4 DEF CallOriginal
    <3>3. PICK point \in {"result", "clear"} : MoveTo(t, point)
      BY <1>9, <2>4, Zenon DEF CallOriginal
    <3>4. point \in FramePoints
      BY DEF FramePoints
    <3> QED
      BY <1>7, <2>1, <2>2, <3>1, <3>2, <3>3, <3>4, MoveKeepsInv
  <2>5. CASE table[Top(t).fn].ori = "loop"
    <3>1. Enter(t, Top(t).fn, Top(t).mid) /\ UNCHANGED pending
      BY <1>9, <2>5 DEF CallOriginal
    <3> QED
      BY <2>1, <2>2, <3>1, EnterKeepsInv
  <2>6. CASE table[Top(t).fn].ori = "null"
    <3>1. crashed' = TRUE /\ UNCHANGED <<stack, pending>>
      BY <1>9, <2>6 DEF CallOriginal
    <3> QED
      BY <1>1, <2>1, <3>1 DEF Inv, TracerTypeOK, StackInv, QuietInv, hookVars
  <2> QED
    BY <2>3, <2>4, <2>5, <2>6
<1>10. ASSUME NEW t \in Threads, DropResultException(t) PROVE Inv'
  <2>1. "instanceof" \in FramePoints /\ MoveTo(t, "instanceof") /\ InFake(t)
    BY <1>4, <1>10 DEF DropResultException, FramePoints
  <2>2. OnlyThread(t) /\ ~pending'[t]
    BY <1>7, <1>10 DEF DropResultException
  <2> QED
    BY <2>1, <2>2, MoveKeepsInv
<1>11. ASSUME NEW t \in Threads, ExamineResult(t) PROVE Inv'
  <2>1. "clear" \in FramePoints /\ MoveTo(t, "clear") /\ InFake(t) /\ OnlyThread(t)
    BY <1>4, <1>6, <1>11 DEF ExamineResult, FramePoints
  <2> QED
    BY <2>1, MoveKeepsInv
<1>12. ASSUME NEW t \in Threads, ClearException(t) PROVE Inv'
  <2>1. "flag" \in FramePoints /\ MoveTo(t, "flag") /\ InFake(t)
    BY <1>4, <1>12 DEF ClearException, FramePoints
  <2>2. OnlyThread(t) /\ ~pending'[t]
    BY <1>7, <1>12 DEF ClearException
  <2> QED
    BY <2>1, <2>2, MoveKeepsInv
(* Behind the last clear nothing is pending.                                *)
<1>13. ASSUME NEW t \in Threads,
              NEW from \in {"flag", "tid", "tid2", "log", "helper", "return"}, At(t, from),
              traced' \in [Threads -> BOOLEAN], UNCHANGED <<crashed, pending>>
       PROVE  ~pending[t] /\ ~pending'[t] /\ OnlyThread(t) /\ InFake(t)
  BY <1>4, <1>5, <1>13 DEF Inv, TracerTypeOK, QuietInv
<1>14. ASSUME NEW t \in Threads, ReadFlag(t) PROVE Inv'
  <2>1. /\ At(t, "flag") /\ UNCHANGED <<hookVars, crashed, pending>>
        /\ traced' \in [Threads -> BOOLEAN]
    BY <1>14 DEF ReadFlag, IsTarget, Inv, TracerTypeOK
  <2>2. PICK point \in {"tid", "return"} : MoveTo(t, point)
    BY <1>14, Zenon DEF ReadFlag
  <2>3. point \in FramePoints
    BY DEF FramePoints
  <2> QED
    BY <1>13, <2>1, <2>2, <2>3, MoveKeepsInv
<1>15. ASSUME NEW t \in Threads, CompareTid(t) \/ CompareTid2(t) PROVE Inv'
  <2>1. /\ At(t, "tid") \/ At(t, "tid2")
        /\ UNCHANGED <<hookVars, traced, crashed, pending>>
    BY <1>15 DEF CompareTid, CompareTid2
  <2>2. PICK point \in {"tid2", "log", "return"} : MoveTo(t, point)
    BY <1>15, Zenon DEF CompareTid, CompareTid2
  <2>3. point \in FramePoints
    BY DEF FramePoints
  <2>4. traced' \in [Threads -> BOOLEAN]
    BY <2>1 DEF Inv, TracerTypeOK
  <2> QED
    BY <1>13, <2>1, <2>2, <2>3, <2>4, MoveKeepsInv
(* The steps behind the test leave the history alone.                       *)
<1>16. UNCHANGED traced => traced' \in [Threads -> BOOLEAN]
  BY DEF Inv, TracerTypeOK
<1>17. ASSUME NEW t \in Threads, LogMethodInfo(t) PROVE Inv'
  <2>1. At(t, "log") /\ UNCHANGED <<hookVars, traced, crashed, pending>>
    BY <1>17 DEF LogMethodInfo
  <2>2. PICK point \in {"helper", "return"} : MoveTo(t, point)
    BY <1>17, Zenon DEF LogMethodInfo
  <2>3. point \in FramePoints
    BY DEF FramePoints
  <2> QED
    BY <1>13, <1>16, <2>1, <2>2, <2>3, MoveKeepsInv
<1>18. ASSUME NEW t \in Threads, CallHelper(t) PROVE Inv'
  <2>1. /\ At(t, "helper") /\ Top(t).k <= 4
        /\ UNCHANGED <<hookVars, traced, pending>>
    BY <1>18 DEF CallHelper
  <2>2. /\ InFake(t) /\ stack[t][1].at = "helper" /\ stack[t][1].k \in 1..4
        /\ Top(t) = stack[t][1] /\ stack[t][1] \in Frame
    BY <1>4, <2>1
  <2>3. CASE table[HelperFunction].patched
    <3>1. Enter(t, HelperFunction, HelperCalls(Top(t).fn.init)[Top(t).k])
      BY <1>18, <2>3 DEF CallHelper
    <3>2. HelperCalls(Top(t).fn.init)[Top(t).k] \in HelperMethods
      BY <2>2, HelperCallMethods
    <3> QED
      BY <2>1, <2>2, <3>1, <3>2, HelperFunctionIsHooked, EnterKeepsInv
  <2>4. CASE ~table[HelperFunction].patched
    <3> DEFINE f == [stack[t][1] EXCEPT !.k = @ + 1]
    <3>1. stack' = [stack EXCEPT ![t][1].k = @ + 1] /\ UNCHANGED crashed
      BY <1>18, <2>4 DEF CallHelper
    <3>2. Replaced(t, f)
      <4>1. stack[t][1].k <= 4 /\ TracerTypeOK
        BY <2>2 DEF Inv
      <4> QED
        BY <2>2, <3>1, <4>1, CountEffect, Zenon
    <3>3. f.at = "helper"
      BY <2>2 DEF Frame
    <3> HIDE DEF f
    <3> QED
      BY <1>13, <1>16, <2>1, <3>1, <3>2, <3>3, ReplacedKeepsInv
  <2> QED
    BY <2>3, <2>4
<1>19. ASSUME NEW t \in Threads, FinishLog(t) PROVE Inv'
  <2>1. /\ At(t, "helper") /\ UNCHANGED <<hookVars, traced, crashed, pending>>
        /\ MoveTo(t, "return") /\ "return" \in FramePoints
    BY <1>19 DEF FinishLog, FramePoints
  <2> QED
    BY <1>13, <1>16, <2>1, MoveKeepsInv
<1>20. ASSUME NEW t \in Threads, Return(t) PROVE Inv'
  <2>1. At(t, "return") /\ UNCHANGED <<hookVars, traced, crashed, pending>>
    BY <1>20 DEF Return
  <2>2. Popped(t)
    BY <1>20, ReturnEffect DEF Inv
  <2> QED
    BY <1>13, <1>16, <2>1, <2>2, PoppedKeepsInv
<1> QED
  BY <1>2, <1>3, <1>8, <1>9, <1>10, <1>11, <1>12, <1>14, <1>15, <1>17, <1>18, <1>19,
     <1>20 DEF Next, FakeCode, AppStep

(* Throughout, Inv holds.                                                   *)
LEMMA InvAlways == Spec => []Inv
  BY InitInv, NextInv, PTL DEF Spec

(* Every replacement a thread is in has a frame of its own on that thread's *)
(* stack, with at most the four helper calls of log_method_info.            *)
THEOREM TracerTypeCorrect == Spec => []TracerTypeOK
<1>1. Inv => TracerTypeOK
  BY DEF Inv
<1> QED
  BY <1>1, InvAlways, PTL

(* handleMethodCall and log_method_info call no JNI function while an       *)
(* exception of the intercepted call is pending.                            *)
THEOREM NoPendingException == Spec => []NoJniCallWithPendingException
<1>1. Inv => NoJniCallWithPendingException
  BY TopFrame DEF Inv, QuietInv, NoJniCallWithPendingException, InFake
<1> QED
  BY <1>1, InvAlways, PTL

-----------------------------------------------------------------------------

(* Why the unlocked test of line 339 is as good as an atomic one.  Where    *)
(* one thread switches the tracer, the flag is up whenever it is about to   *)
(* store the thread id.                                                     *)
FlagInv ==
  \A t \in Threads :
    /\ pc[t] # "app" => t \in Hookers
    /\ pc[t] = "set_tid" => is_hook_jni

LEMMA HooksStepFlagInv ==
  ASSUME OneHooker, HooksTypeOK, FlagInv, [HooksNext]_hookVars
  PROVE  FlagInv'
<1> USE DEF FlagInv, Goto, HooksTypeOK
<1>1. CASE UNCHANGED <<pc, is_hook_jni>>
  BY <1>1
<1>2. ASSUME NEW t \in Threads, SetFlag(t) PROVE FlagInv'
  BY <1>2 DEF SetFlag
<1>5. ASSUME NEW t \in Threads, SetTid(t) PROVE FlagInv'
  BY <1>5 DEF SetTid
<1>6. ASSUME NEW t \in Threads, LeaveHook(t) PROVE FlagInv'
  BY <1>6 DEF LeaveHook, globals
<1>3. ASSUME NEW t \in Hookers, NEW tid \in Threads, EnterHook(t, tid)
      PROVE  FlagInv'
  BY <1>3, HookersAreThreads DEF EnterHook
<1>4. ASSUME NEW t \in Hookers, UnhookJniFunction(t) PROVE FlagInv'
  BY <1>4, OneHooker DEF UnhookJniFunction, OneHooker
<1> QED
  BY <1>1, <1>2, <1>3, <1>4, <1>5, <1>6
     DEF HooksNext, HookCode, HookApi, Install, FakeQueryInternal, globals, hookVars

(* Wherever the test stands, what it has still to compare can succeed only  *)
(* on a thread that was a target since it read the flag.                    *)
TracedInv ==
  \A t \in Threads : stack[t] # <<>> =>
    /\ stack[t][1].at = "tid" /\ t \in {hook_tid, hook_tid2} => traced[t]
    /\ stack[t][1].at = "tid2" /\ t = hook_tid2 => traced[t]
    /\ stack[t][1].at = "log" => traced[t]

(* The switch keeps that: an id is only stored with the flag up, and        *)
(* hook_tid2 by its own thread, which is not at the test then.              *)
LEMMA SwitchKeepsTraced ==
  ASSUME Inv, FlagInv, TracedInv, NEW t \in Threads, Switch(t)
  PROVE  TracedInv'
<1>1. /\ UNCHANGED stack
      /\ \A u \in Threads : traced'[u] <=> (traced[u] \/ IsTarget(u)')
  BY DEF Switch
<1>2. CASE UNCHANGED <<hook_tid, hook_tid2>>
  BY <1>1, <1>2 DEF TracedInv
<1>3. CASE SetTid(t)
  <2>1. is_hook_jni' /\ hook_tid2' = hook_tid2
    BY <1>3 DEF SetTid, Goto, FlagInv
  <2>2. \A u \in Threads : u \in {hook_tid', hook_tid2'} => traced'[u]
    BY <1>1, <2>1 DEF IsTarget
  <2> QED
    BY <1>1, <2>1, <2>2 DEF TracedInv
<1>4. CASE FakeQueryInternal(t) /\ InApp(t)
  <2>1. hook_tid2' = t /\ hook_tid' = hook_tid
    BY <1>4 DEF FakeQueryInternal
  <2>2. stack[t] # <<>> => stack[t][1].at = "original"
    BY <1>4, TopFrame DEF InApp, InFake, Inv
  <2> QED
    BY <1>1, <2>1, <2>2 DEF TracedInv
<1> QED
  BY <1>2, <1>3, <1>4
     DEF Switch, HookCode, HookApi, SetFlag, Install, LeaveHook, EnterHook,
         UnhookJniFunction, globals

(* So do the replacements.                                                  *)
LEMMA NextTraced ==
  ASSUME Inv, FlagInv, TracedInv, [Next]_vars
  PROVE  TracedInv'
<1>1. CASE UNCHANGED vars
  BY <1>1 DEF vars, TracedInv
<1>2. ASSUME NEW t \in Threads, Switch(t) PROVE TracedInv'
  BY <1>2, SwitchKeepsTraced
(* A step on t that leaves the history alone may do anything but go on with *)
(* the test.                                                                *)
<1>3. ASSUME NEW t \in Threads, UNCHANGED <<hookVars, traced>>, OneStack(t),
             stack'[t] # <<>> => stack'[t][1].at \notin {"tid", "tid2", "log"}
      PROVE  TracedInv'
  BY <1>3 DEF TracedInv, OneStack, hookVars
<1>4. ASSUME NEW t \in Threads, NEW from, At(t, from), NEW point \in FramePoints,
             MoveTo(t, point)
      PROVE  /\ OneStack(t) /\ stack'[t][1].at = point
             /\ stack[t] # <<>> /\ stack[t][1].at = from
  <2>1. InFake(t) /\ Top(t).at = from
    BY <1>4 DEF At
  <2>2. /\ stack[t] # <<>> /\ stack[t][1].at = from /\ stack[t][1] \in Frame
    BY <2>1, TopFrame DEF Inv, InFake
  <2>3. Replaced(t, [stack[t][1] EXCEPT !.at = point])
    BY <1>4, <2>1, MoveEffect DEF Inv
  <2> QED
    BY <2>2, <2>3 DEF Replaced, Frame
<1>5. ASSUME NEW t \in Threads, NEW fn \in JniFunctions,
             NEW mid \in AppMethods \cup HelperMethods, Enter(t, fn, mid),
             UNCHANGED <<hookVars, traced>>
      PROVE  TracedInv'
  <2>1. CASE stack' = stack
    BY <1>5, <2>1 DEF TracedInv, hookVars
  <2>2. CASE Pushed(t, NewFrame(fn, mid))
    BY <1>3, <1>5, <2>2 DEF Pushed, NewFrame
  <2> QED
    BY <1>5, <2>1, <2>2, EnterEffect DEF Inv
<1>6. ASSUME NEW t \in Threads, NEW from, At(t, from), UNCHANGED <<hookVars, traced>>,
             NEW point \in FramePoints \ {"tid", "tid2", "log"}, MoveTo(t, point)
      PROVE  TracedInv'
  BY <1>3, <1>4, <1>6
<1>7. ASSUME NEW t \in Threads, CallOriginal(t) PROVE TracedInv'
  <2>1. At(t, "original") /\ UNCHANGED <<hookVars, traced>>
    BY <1>7 DEF CallOriginal
  <2>2. /\ Top(t).fn \in JniFunctions /\ Top(t).mid \in AppMethods \cup HelperMethods
    BY <2>1, TopFrame DEF At, Inv, Frame
  <2>3. table[Top(t).fn].ori \in {"null", "real", "loop"}
    BY <2>2 DEF Inv, TracerTypeOK, HooksTypeOK, DobbyTypeOK, Origins
  <2>4. CASE table[Top(t).fn].ori = "real"
    <3>1. PICK point \in {"result", "clear"} : MoveTo(t, point)
      BY <1>7, <2>4, Zenon DEF CallOriginal
    <3>2. point \in FramePoints \ {"tid", "tid2", "log"}
      BY DEF FramePoints
    <3> QED
      BY <1>6, <2>1, <3>1, <3>2
  <2>5. CASE table[Top(t).fn].ori = "loop"
    <3>1. Enter(t, Top(t).fn, Top(t).mid)
      BY <1>7, <2>5 DEF CallOriginal
    <3> QED
      BY <1>5, <2>1, <2>2, <3>1
  <2>6. CASE table[Top(t).fn].ori = "null"
    <3>1. UNCHANGED stack
      BY <1>7, <2>6 DEF CallOriginal
    <3> QED
      BY <2>1, <3>1 DEF TracedInv, hookVars
  <2> QED
    BY <2>3, <2>4, <2>5, <2>6
<1>8. ASSUME NEW t \in Threads,
             \/ DropResultException(t) \/ ExamineResult(t) \/ ClearException(t)
             \/ LogMethodInfo(t) \/ FinishLog(t)
      PROVE  TracedInv'
  <2>1. /\ UNCHANGED <<hookVars, traced>>
        /\ \E from \in {"result", "instanceof", "clear", "log", "helper"} : At(t, from)
    BY <1>8 DEF DropResultException, ExamineResult, ClearException, LogMethodInfo,
                FinishLog
  <2>2. PICK point \in {"instanceof", "clear", "flag", "helper", "return"} :
          MoveTo(t, point)
    BY <1>8, Zenon DEF DropResultException, ExamineResult, ClearException,
                       LogMethodInfo, FinishLog
  <2>3. point \in FramePoints \ {"tid", "tid2", "log"}
    BY DEF FramePoints
  <2> QED
    BY <1>6, <2>1, <2>2, <2>3
(* The flag is read: the history starts anew.                               *)
<1>9. ASSUME NEW t \in Threads, ReadFlag(t) PROVE TracedInv'
  <2>1. At(t, "flag") /\ UNCHANGED hookVars
    BY <1>9 DEF ReadFlag
  <2>2. traced' = [traced EXCEPT ![t] = IsTarget(t)]
    BY <1>9 DEF ReadFlag
  <2>3. /\ traced'[t] <=> IsTarget(t)
        /\ \A u \in Threads : u # t => (traced'[u] <=> traced[u])
    BY <2>2 DEF Inv, TracerTypeOK
  <2>4. PICK point \in {"tid", "return"} :
          MoveTo(t, point) /\ (point = "tid" => is_hook_jni)
    <3>1. CASE is_hook_jni
      BY <1>9, <3>1, Zenon DEF ReadFlag
    <3>2. CASE ~is_hook_jni
      BY <1>9, <3>2, Zenon DEF ReadFlag
    <3> QED
      BY <3>1, <3>2
  <2>5. OneStack(t) /\ stack'[t][1].at = point
    <3>1. point \in FramePoints
      BY DEF FramePoints
    <3> QED
      BY <1>4, <2>1, <2>4, <3>1
  <2>6. stack'[t][1].at = "tid" /\ t \in {hook_tid', hook_tid2'} => traced'[t]
    BY <2>1, <2>3, <2>4, <2>5 DEF IsTarget, hookVars
  <2> QED
    BY <2>1, <2>3, <2>4, <2>5, <2>6 DEF TracedInv, OneStack, hookVars
(* An id that is compared is the thread's only with the history set.        *)
<1>10. ASSUME NEW t \in Threads, CompareTid(t) \/ CompareTid2(t) PROVE TracedInv'
  <2>1. UNCHANGED <<hookVars, traced>>
    BY <1>10 DEF CompareTid, CompareTid2
  <2>2. PICK from \in {"tid", "tid2"}, point \in {"tid2", "log", "return"} :
          /\ At(t, from) /\ MoveTo(t, point)
          /\ point = "tid2" => from = "tid"
          /\ point = "log" => t = IF from = "tid" THEN hook_tid ELSE hook_tid2
    <3>1. CASE CompareTid(t) /\ t = hook_tid
      BY <3>1, Zenon DEF CompareTid
    <3>2. CASE CompareTid(t) /\ t # hook_tid
      BY <3>2, Zenon DEF CompareTid
    <3>3. CASE CompareTid2(t) /\ t = hook_tid2
      BY <3>3, Zenon DEF CompareTid2
    <3>4. CASE CompareTid2(t) /\ t # hook_tid2
      BY <3>4, Zenon DEF CompareTid2
    <3> QED
      BY <1>10, <3>1, <3>2, <3>3, <3>4
  <2>3. /\ OneStack(t) /\ stack'[t][1].at = point
        /\ stack[t] # <<>> /\ stack[t][1].at = from
    <3>1. point \in FramePoints
      BY DEF FramePoints
    <3> QED
      BY <1>4, <2>2, <3>1
  <2> QED
    BY <2>1, <2>2, <2>3 DEF TracedInv, OneStack, hookVars
<1>11. ASSUME NEW t \in Threads, CallHelper(t) PROVE TracedInv'
  <2>1. At(t, "helper") /\ Top(t).k <= 4 /\ UNCHANGED <<hookVars, traced>>
    BY <1>11 DEF CallHelper
  <2>2. /\ InFake(t) /\ stack[t][1].at = "helper" /\ stack[t][1].k \in 1..4
        /\ Top(t) = stack[t][1] /\ stack[t][1] \in Frame
    BY <2>1, TopFrame DEF At, Inv, Frame
  <2>3. CASE table[HelperFunction].patched
    <3>1. Enter(t, HelperFunction, HelperCalls(Top(t).fn.init)[Top(t).k])
      BY <1>11, <2>3 DEF CallHelper
    <3>2. HelperCalls(Top(t).fn.init)[Top(t).k] \in HelperMethods
      BY <2>2, HelperCallMethods
    <3> QED
      BY <1>5, <2>1, <3>1, <3>2, HelperFunctionIsHooked
  <2>4. CASE ~table[HelperFunction].patched
    <3>1. stack' = [stack EXCEPT ![t][1].k = @ + 1]
      BY <1>11, <2>4 DEF CallHelper
    <3>2. stack[t][1].k <= 4 /\ TracerTypeOK
      BY <2>2 DEF Inv
    <3>3. Replaced(t, [stack[t][1] EXCEPT !.k = @ + 1])
      BY <2>2, <3>1, <3>2, CountEffect, Zenon
    <3>4. OneStack(t) /\ stack'[t][1].at = "helper"
      BY <2>2, <3>3 DEF Replaced, Frame
    <3> QED
      BY <1>3, <2>1, <3>4
  <2> QED
    BY <2>3, <2>4
(* A frame that comes to the top waited for its original or for a helper.   *)
<1>12. ASSUME NEW t \in Threads, Return(t) PROVE TracedInv'
  <2>1. UNCHANGED <<hookVars, traced>> /\ Popped(t) /\ InFake(t)
    BY <1>12, ReturnEffect DEF Return, At, Inv
  <2>2. stack'[t] # <<>> => stack'[t][1].at \in {"original", "helper"}
    <3>1. SUFFICES ASSUME stack'[t] # <<>>
                   PROVE  stack'[t][1].at \in {"original", "helper"}
      OBVIOUS
    <3>2. /\ Len(stack[t]) \in Nat /\ Len(stack'[t]) > 0
          /\ Len(stack'[t]) = Len(stack[t]) - 1
      BY <2>1, <3>1, TopFrame DEF Popped, OneStack, Inv
    <3>3. 2 \in 2..Len(stack[t]) /\ 2 \in 1..Len(stack[t]) /\ Len(stack[t]) > 1
      BY <3>2
    <3>4. stack[t][2] \in Frame /\ stack[t][2].at \in {"original", "helper"}
      BY <2>1, <3>3, TopFrame DEF Inv, StackInv
    <3> QED
      BY <2>1, <3>3, <3>4 DEF Popped, Counted, Frame
  <2> QED
    BY <1>3, <2>1, <2>2 DEF Popped
<1> QED
  BY <1>1, <1>2, <1>5, <1>7, <1>8, <1>9, <1>10, <1>11, <1>12
     DEF Next, FakeCode, AppStep, AppCall

(* Where one thread switches the tracer, a call is logged only if tracing   *)
(* was on with its thread as a target at one moment of the test, however    *)
(* hook_jni_function, unhook_jni_function and the worker's replacement run   *)
(* between its three reads.                                                 *)
THEOREM LoggingIsAtomic ==
  ASSUME OneHooker
  PROVE  Spec => []LoggedWhenTraced
<1>1. Init => FlagInv /\ TracedInv
  BY DEF Init, HooksInit, FlagInv, TracedInv
<1>2. Inv /\ FlagInv /\ [Next]_vars => FlagInv'
  BY OneHooker, HooksStepFlagInv, TracerStepIsHooksStep DEF Inv, TracerTypeOK
<1>3. Inv /\ FlagInv /\ TracedInv /\ [Next]_vars => TracedInv'
  BY NextTraced
<1>4. Inv /\ TracedInv => LoggedWhenTraced
  BY TopFrame DEF Inv, TracedInv, LoggedWhenTraced, At, InFake
<1> QED
  BY <1>1, <1>2, <1>3, <1>4, InvAlways, PTL DEF Spec

-----------------------------------------------------------------------------

(* Why nothing recurses without bound.  A helper's frame is the innermost,  *)
(* so that at most one frame more than the application's own is needed; a   *)
(* frame is there because its function is patched, and patches stay.        *)
FramesPatched ==
  \A t \in Threads : \A i \in 1..Len(stack[t]) : table[stack[t][i].fn].patched

(* The frame beyond those of the application is a helper's.                 *)
DepthInv ==
  \A t \in Threads :
    /\ Len(stack[t]) <= AppDepth + 1
    /\ Len(stack[t]) = AppDepth + 1 => stack[t][1].mid \in HelperMethods

(* What is inductive when one thread at most switches the tracer.           *)
NestInv == HelperCallsDoNotNest /\ FramesPatched /\ DepthInv /\ NoCrash

(* A patched function stays patched.                                        *)
LEMMA PatchesStay ==
  ASSUME HooksTypeOK, [HooksNext]_hookVars, NEW f \in JniFunctions, table[f].patched
  PROVE  table'[f].patched
<1>1. CASE UNCHANGED table
  BY <1>1
<1>2. ASSUME NEW t \in Threads, Install(t) PROVE table'[f].patched
  <2>1. Busy(t) => Target(t) \in JniFunctions
    BY JobParts DEF HooksTypeOK
  <2>2. table \in [JniFunctions -> [entry: BOOLEAN, patched: BOOLEAN, ori: Origins]]
    BY DEF HooksTypeOK, DobbyTypeOK
  <2>3. CASE FindHookEntry(t) \/ RelocatePrologue(t)
    BY <2>3 DEF FindHookEntry, RelocatePrologue
  <2>4. CASE PublishOrigin(t)
    BY <2>1, <2>2, <2>4 DEF PublishOrigin, AtStep
  <2>5. CASE CommitPatch(t)
    BY <2>1, <2>2, <2>5 DEF CommitPatch, AtStep
  <2> QED
    BY <1>2, <2>3, <2>4, <2>5 DEF Install, DobbyStep
<1> QED
  BY <1>1, <1>2 DEF HooksNext, HookCode, HookApi, SetFlag, SetTid, LeaveHook,
     EnterHook, UnhookJniFunction, FakeQueryInternal, hookVars

(* The top frame is replaced by one for the same call that is no further    *)
(* nested.                                                                  *)
LEMMA ReplacedKeepsNest ==
  ASSUME Inv, NestInv, NEW t \in Threads, InFake(t), NEW f, Replaced(t, f),
         f.fn = stack[t][1].fn, f.mid = stack[t][1].mid,
         f.at = "helper" => stack[t][1].mid \notin HelperMethods,
         UNCHANGED <<table, crashed>>
  PROVE  NestInv'
<1> USE DEF Replaced, OneStack
<1>1. \A u \in Threads : Len(stack[u]) \in Nat
  BY DEF Inv, TracerTypeOK
<1>2. Len(stack[t]) > 0 /\ 1 \in 1..Len(stack[t])
  BY TopFrame DEF Inv
<1>3. HelperCallsDoNotNest'
  <2>1. SUFFICES ASSUME NEW u \in Threads, NEW i \in 1..Len(stack'[u]),
                        stack'[u][i].mid \in HelperMethods
                 PROVE  /\ i = 1
                        /\ stack'[u][i].at # "helper"
                        /\ Len(stack'[u]) > 1 /\ stack'[u][2].at = "helper"
    BY DEF HelperCallsDoNotNest
  <2>2. CASE u # t
    BY <2>1, <2>2 DEF NestInv, HelperCallsDoNotNest
  <2>3. CASE u = t
    <3>1. stack[t][i].mid \in HelperMethods /\ i \in 1..Len(stack[t])
      BY <1>1, <2>1, <2>3
    <3>2. i = 1 /\ Len(stack[t]) > 1 /\ stack[t][2].at = "helper"
      BY <3>1 DEF NestInv, HelperCallsDoNotNest
    <3> QED
      BY <1>1, <2>1, <2>3, <3>1, <3>2
  <2> QED
    BY <2>2, <2>3
<1>4. FramesPatched'
  <2>1. SUFFICES ASSUME NEW u \in Threads, NEW i \in 1..Len(stack'[u])
                 PROVE  table[stack'[u][i].fn].patched
    BY DEF FramesPatched
  <2>2. i \in 1..Len(stack[u]) /\ stack'[u][i].fn = stack[u][i].fn
    BY <1>1
  <2> QED
    BY <2>2 DEF NestInv, FramesPatched
<1>5. DepthInv'
  BY <1>1 DEF NestInv, DepthInv
<1> QED
  BY <1>3, <1>4, <1>5 DEF NestInv, NoCrash

(* A patched function is entered by the application, or as a helper from a  *)
(* frame of the application, with room for it.                              *)
LEMMA PushedKeepsNest ==
  ASSUME Inv, NestInv, NEW t \in Threads, NEW f, Pushed(t, f),
         table[f.fn].patched, UNCHANGED <<table, crashed>>, f.at = "original",
         \/ /\ Len(stack[t]) < AppDepth
            /\ f.mid \notin HelperMethods
            /\ InFake(t) => stack[t][1].mid \notin HelperMethods
         \/ /\ InFake(t)
            /\ stack[t][1].at = "helper"
            /\ f.mid \in HelperMethods
  PROVE  NestInv'
<1> USE DEF Pushed, OneStack
<1>1. /\ \A u \in Threads : Len(stack[u]) \in Nat
      /\ AppDepth \in Nat
      /\ InFake(t) <=> Len(stack[t]) > 0
  BY DepthsAreNumbers DEF Inv, TracerTypeOK, InFake
<1>2. InFake(t) => stack[t][1].mid \notin HelperMethods
  BY <1>1 DEF NestInv, HelperCallsDoNotNest
<1>3. \A i \in 2..Len(stack'[t]) :
        i - 1 \in 1..Len(stack[t]) /\ stack'[t][i] = stack[t][i - 1]
  BY <1>1
<1>4. \A i \in 2..Len(stack'[t]) : stack'[t][i].mid \notin HelperMethods
  BY <1>1, <1>2, <1>3 DEF NestInv, HelperCallsDoNotNest
<1>5. HelperCallsDoNotNest'
  <2>1. SUFFICES ASSUME NEW u \in Threads, NEW i \in 1..Len(stack'[u]),
                        stack'[u][i].mid \in HelperMethods
                 PROVE  /\ i = 1
                        /\ stack'[u][i].at # "helper"
                        /\ Len(stack'[u]) > 1 /\ stack'[u][2].at = "helper"
    BY DEF HelperCallsDoNotNest
  <2>2. CASE u # t
    BY <2>1, <2>2 DEF NestInv, HelperCallsDoNotNest
  <2>3. CASE u = t
    <3>1. i = 1
      BY <1>1, <1>4, <2>1, <2>3
    <3>2. f.mid \in HelperMethods
      BY <2>1, <2>3, <3>1
    <3>3. Len(stack[t]) > 0 /\ stack[t][1].at = "helper"
      BY <1>1, <3>2
    <3> QED
      BY <1>1, <1>3, <2>3, <3>1, <3>3
  <2> QED
    BY <2>2, <2>3
<1>6. FramesPatched'
  <2>1. SUFFICES ASSUME NEW u \in Threads, NEW i \in 1..Len(stack'[u])
                 PROVE  table[stack'[u][i].fn].patched
    BY DEF FramesPatched
  <2>2. CASE u # t
    BY <2>2 DEF NestInv, FramesPatched
  <2>3. CASE u = t /\ i = 1
    BY <2>3
  <2>4. CASE u = t /\ i # 1
    <3>1. i \in 2..Len(stack'[t])
      BY <1>1, <2>4
    <3> QED
      BY <1>3, <2>4, <3>1 DEF NestInv, FramesPatched
  <2> QED
    BY <2>2, <2>3, <2>4
<1>7. DepthInv'
  <2>1. /\ Len(stack'[t]) <= AppDepth + 1
        /\ Len(stack'[t]) = AppDepth + 1 => f.mid \in HelperMethods
    BY <1>1, <1>2 DEF NestInv, DepthInv
  <2>2. \A u \in Threads : u # t => stack'[u] = stack[u]
    OBVIOUS
  <2> QED
    BY <2>1, <2>2 DEF NestInv, DepthInv
<1> QED
  BY <1>5, <1>6, <1>7 DEF NestInv, NoCrash

(* What remains after a return was below a frame, and is the application's. *)
LEMMA PoppedKeepsNest ==
  ASSUME Inv, NestInv, NEW t \in Threads, InFake(t), Popped(t),
         UNCHANGED <<table, crashed>>
  PROVE  NestInv'
<1> USE DEF Popped, OneStack
<1>1. /\ \A u \in Threads : Len(stack[u]) \in Nat
      /\ AppDepth \in Nat
  BY DepthsAreNumbers DEF Inv, TracerTypeOK
<1>2. \A i \in 1..Len(stack'[t]) :
        /\ i + 1 \in 2..Len(stack[t])
        /\ stack'[t][i].mid = stack[t][i + 1].mid
        /\ stack'[t][i].fn = stack[t][i + 1].fn
  <2> TAKE i \in 1..Len(stack'[t])
  <2>1. i + 1 \in 2..Len(stack[t]) /\ i + 1 \in 1..Len(stack[t])
    BY <1>1
  <2>2. CASE i = 1
    <3>1. stack[t][2] \in Frame /\ stack'[t][1] = Counted(stack[t][2])
      BY <1>1, <2>1, <2>2, TopFrame DEF Inv
    <3> QED
      BY <2>1, <2>2, <3>1 DEF Counted, Frame
  <2>3. CASE i # 1
    BY <1>1, <2>1, <2>3
  <2> QED
    BY <2>2, <2>3
<1>3. \A i \in 1..Len(stack'[t]) : stack'[t][i].mid \notin HelperMethods
  <2> TAKE i \in 1..Len(stack'[t])
  <2>1. i + 1 \in 1..Len(stack[t]) /\ i + 1 # 1
    BY <1>1, <1>2
  <2> QED
    BY <1>2, <2>1 DEF NestInv, HelperCallsDoNotNest
<1>4. HelperCallsDoNotNest'
  BY <1>3 DEF NestInv, HelperCallsDoNotNest
<1>5. FramesPatched'
  <2>1. SUFFICES ASSUME NEW u \in Threads, NEW i \in 1..Len(stack'[u])
                 PROVE  table[stack'[u][i].fn].patched
    BY DEF FramesPatched
  <2>2. CASE u # t
    BY <2>2 DEF NestInv, FramesPatched
  <2>3. CASE u = t
    <3>1. i + 1 \in 1..Len(stack[t]) /\ stack'[t][i].fn = stack[t][i + 1].fn
      BY <1>1, <1>2, <2>3
    <3> QED
      BY <2>3, <3>1 DEF NestInv, FramesPatched
  <2> QED
    BY <2>2, <2>3
<1>6. DepthInv'
  BY <1>1 DEF NestInv, DepthInv
<1> QED
  BY <1>4, <1>5, <1>6 DEF NestInv, NoCrash

(* No step of the tracer breaks NestInv while every ori_* is real.          *)
LEMMA NextNest ==
  ASSUME AppDepth < StackLimit, Inv, OriginBeforePatch, OriginsRunOriginals, NestInv,
         [Next]_vars
  PROVE  NestInv'
<1>1. /\ \A u \in Threads : Len(stack[u]) \in Nat
      /\ AppDepth \in Nat /\ StackLimit \in Nat
  BY DepthsAreNumbers DEF Inv, TracerTypeOK
<1>2. CASE UNCHANGED vars
  BY <1>2 DEF vars, NestInv, HelperCallsDoNotNest, FramesPatched, DepthInv, NoCrash
<1>3. ASSUME NEW t \in Threads, Switch(t) PROVE NestInv'
  <2>1. UNCHANGED <<stack, crashed>>
    BY <1>3 DEF Switch
  <2>2. \A f \in JniFunctions : table[f].patched => table'[f].patched
    BY PatchesStay, TracerStepIsHooksStep DEF Inv, TracerTypeOK
  <2>3. FramesPatched'
    <3>1. SUFFICES ASSUME NEW u \in Threads, NEW i \in 1..Len(stack[u])
                   PROVE  table'[stack[u][i].fn].patched
      BY <2>1 DEF FramesPatched
    <3>2. stack[u][i] \in Frame
      BY <1>1 DEF Inv, TracerTypeOK
    <3> QED
      BY <2>2, <3>2 DEF NestInv, FramesPatched, Frame
  <2> QED
    BY <2>1, <2>3 DEF NestInv, HelperCallsDoNotNest, DepthInv, NoCrash
<1>4. ASSUME NEW t \in Threads, NEW point, At(t, point)
      PROVE  /\ InFake(t) /\ stack[t][1].at = point
             /\ Top(t) = stack[t][1] /\ stack[t][1] \in Frame
             /\ 1 \in 1..Len(stack[t])
             /\ table[stack[t][1].fn].patched
  <2>1. InFake(t) /\ Top(t).at = point
    BY <1>4 DEF At
  <2>2. Top(t) = stack[t][1] /\ stack[t][1] \in Frame /\ 1 \in 1..Len(stack[t])
    BY <2>1, TopFrame DEF Inv
  <2> QED
    BY <2>1, <2>2 DEF NestInv, FramesPatched
(* A move of the top frame.                                                 *)
<1>5. ASSUME NEW t \in Threads, InFake(t), NEW point \in FramePoints, MoveTo(t, point),
             point = "helper" => stack[t][1].mid \notin HelperMethods,
             UNCHANGED <<hookVars, crashed>>
      PROVE  NestInv'
  <2> DEFINE f == [stack[t][1] EXCEPT !.at = point]
  <2>1. Replaced(t, f)
    BY <1>5, MoveEffect DEF Inv
  <2>2. f.at = point /\ f.fn = stack[t][1].fn /\ f.mid = stack[t][1].mid
    BY <1>5, TopFrame DEF Inv, Frame
  <2>3. UNCHANGED <<table, crashed>>
    BY <1>5 DEF hookVars
  <2> HIDE DEF f
  <2> QED
    BY <1>5, <2>1, <2>2, <2>3, ReplacedKeepsNest
<1>6. ASSUME NEW t \in Threads, NEW fn \in JniFunctions, NEW mid \in AppMethods,
             AppCall(t, fn, mid)
      PROVE  NestInv'
  <2>1. /\ Len(stack[t]) < AppDepth /\ Enter(t, fn, mid) /\ table[fn].patched
        /\ UNCHANGED table
    BY <1>6 DEF AppCall, hookVars
  <2>2. Pushed(t, NewFrame(fn, mid)) /\ crashed' = crashed
    <3>1. mid \in AppMethods \cup HelperMethods /\ TracerTypeOK
      BY DEF Inv
    <3>2. Len(stack[t]) < StackLimit
      BY <1>1, <2>1
    <3> QED
      BY <2>1, <3>1, <3>2, EnterEffect
  <2>3. InFake(t) => stack[t][1].mid \notin HelperMethods
    BY <1>6, TopFrame, AppMethodsAreOthers DEF AppCall, InApp, Inv
  <2>4. /\ NewFrame(fn, mid).fn = fn /\ NewFrame(fn, mid).mid \notin HelperMethods
        /\ NewFrame(fn, mid).at = "original"
    BY AppMethodsAreOthers DEF NewFrame
  <2> QED
    BY <2>1, <2>2, <2>3, <2>4, PushedKeepsNest
<1>7. ASSUME NEW t \in Threads, CallOriginal(t) PROVE NestInv'
  <2>1. At(t, "original") /\ UNCHANGED hookVars
    BY <1>7 DEF CallOriginal
  <2>2. /\ InFake(t) /\ Top(t) = stack[t][1] /\ stack[t][1].fn \in JniFunctions
        /\ table[stack[t][1].fn].patched
    BY <1>4, <2>1 DEF Frame
  <2>3. table[Top(t).fn].ori = "real"
    BY <2>2 DEF OriginBeforePatch, OriginsRunOriginals, Inv, TracerTypeOK,
                HooksTypeOK, DobbyTypeOK, Origins
  <2>4. PICK point \in {"result", "clear"} : MoveTo(t, point)
    BY <1>7, <2>3, Zenon DEF CallOriginal
  <2>5. point \in FramePoints /\ point # "helper"
    BY DEF FramePoints
  <2>6. UNCHANGED crashed
    BY <1>7, <2>3 DEF CallOriginal
  <2> QED
    BY <1>5, <2>1, <2>2, <2>4, <2>5, <2>6
<1>8. ASSUME NEW t \in Threads,
             \/ DropResultException(t) \/ ExamineResult(t) \/ ClearException(t)
             \/ ReadFlag(t) \/ CompareTid(t) \/ CompareTid2(t) \/ FinishLog(t)
      PROVE  NestInv'
  <2>1. PICK point \in {"instanceof", "clear", "flag", "tid", "tid2", "log", "return"} :
          MoveTo(t, point)
    BY <1>8, Zenon DEF DropResultException, ExamineResult, ClearException, ReadFlag,
                       CompareTid, CompareTid2, FinishLog
  <2>2. point \in FramePoints /\ point # "helper"
    BY DEF FramePoints
  <2>3. InFake(t) /\ UNCHANGED <<hookVars, crashed>>
    BY <1>8 DEF DropResultException, ExamineResult, ClearException, ReadFlag,
                CompareTid, CompareTid2, FinishLog, At
  <2> QED
    BY <1>5, <2>1, <2>2, <2>3
<1>9. ASSUME NEW t \in Threads, LogMethodInfo(t) PROVE NestInv'
  <2>1. At(t, "log") /\ UNCHANGED <<hookVars, crashed>>
    BY <1>9 DEF LogMethodInfo
  <2>2. InFake(t) /\ Top(t) = stack[t][1]
    BY <1>4, <2>1
  <2>3. "return" \in FramePoints /\ "helper" \in FramePoints
    BY DEF FramePoints
  <2>4. CASE Top(t).mid \in HelperMethods
    <3>1. MoveTo(t, "return")
      BY <1>9, <2>4, Zenon DEF LogMethodInfo
    <3> QED
      BY <1>5, <2>1, <2>2, <2>3, <3>1
  <2>5. CASE Top(t).mid \notin HelperMethods
    <3>1. MoveTo(t, "helper")
      BY <1>9, <2>5, Zenon DEF LogMethodInfo
    <3> QED
      BY <1>5, <2>1, <2>2, <2>3, <2>5, <3>1
  <2> QED
    BY <2>4, <2>5
<1>10. ASSUME NEW t \in Threads, CallHelper(t) PROVE NestInv'
  <2>1. At(t, "helper") /\ Top(t).k <= 4 /\ UNCHANGED table
    BY <1>10 DEF CallHelper, hookVars
  <2>2. /\ InFake(t) /\ stack[t][1].at = "helper" /\ 1 \in 1..Len(stack[t])
        /\ Top(t) = stack[t][1] /\ stack[t][1] \in Frame
    BY <1>4, <2>1
  <2>3. stack[t][1].k \in 1..4
    BY <2>1, <2>2 DEF Frame
  <2>4. stack[t][1].mid \notin HelperMethods
    BY <2>2 DEF NestInv, HelperCallsDoNotNest
  <2>5. CASE table[HelperFunction].patched
    <3> DEFINE mid == HelperCalls(Top(t).fn.init)[Top(t).k]
    <3>1. Enter(t, HelperFunction, mid)
      BY <1>10, <2>5 DEF CallHelper
    <3>2. mid \in HelperMethods
      BY <2>2, <2>3, HelperCallMethods
    <3>3. Len(stack[t]) < StackLimit
      BY <1>1, <2>4 DEF NestInv, DepthInv
    <3> HIDE DEF mid
    <3>4. Pushed(t, NewFrame(HelperFunction, mid)) /\ crashed' = crashed
      BY <3>1, <3>2, <3>3, EnterEffect, HelperFunctionIsHooked DEF Inv
    <3>5. /\ NewFrame(HelperFunction, mid).fn = HelperFunction
          /\ NewFrame(HelperFunction, mid).mid = mid
          /\ NewFrame(HelperFunction, mid).at = "original"
      BY DEF NewFrame
    <3> QED
      BY <2>1, <2>2, <2>5, <3>2, <3>4, <3>5, PushedKeepsNest
  <2>6. CASE ~table[HelperFunction].patched
    <3> DEFINE f == [stack[t][1] EXCEPT !.k = @ + 1]
    <3>1. stack' = [stack EXCEPT ![t][1].k = @ + 1] /\ UNCHANGED crashed
      BY <1>10, <2>6 DEF CallHelper
    <3>2. stack[t][1].k <= 4 /\ TracerTypeOK
      BY <2>3 DEF Inv
    <3>3. Replaced(t, f)
      BY <2>2, <3>1, <3>2, CountEffect, Zenon
    <3>4. f.fn = stack[t][1].fn /\ f.mid = stack[t][1].mid
      BY <2>2 DEF Frame
    <3> HIDE DEF f
    <3> QED
      BY <2>1, <2>2, <2>4, <3>1, <3>3, <3>4, ReplacedKeepsNest
  <2> QED
    BY <2>5, <2>6
<1>11. ASSUME NEW t \in Threads, Return(t) PROVE NestInv'
  <2>1. At(t, "return") /\ UNCHANGED <<table, crashed>>
    BY <1>11 DEF Return, hookVars
  <2>2. Popped(t)
    BY <1>11, ReturnEffect DEF Inv
  <2> QED
    BY <1>4, <2>1, <2>2, PoppedKeepsNest
<1> QED
  BY <1>2, <1>3, <1>6, <1>7, <1>8, <1>9, <1>10, <1>11 DEF Next, FakeCode, AppStep

(* Where one thread at most switches the tracer and the stack has room for  *)
(* one replacement more than the application nests, NestInv always holds.   *)
LEMMA NestAlways ==
  ASSUME OneHooker, AppDepth < StackLimit
  PROVE  Spec => []NestInv
<1>1. Init => NestInv
  <2> SUFFICES ASSUME Init PROVE NestInv
    OBVIOUS
  <2>1. \A t \in Threads : stack[t] = <<>> /\ Len(stack[t]) = 0
    BY DEF Init
  <2> QED
    BY <2>1, DepthsAreNumbers
       DEF Init, NestInv, HelperCallsDoNotNest, FramesPatched, DepthInv, NoCrash
<1>2. Inv /\ OriginBeforePatch /\ OriginsRunOriginals /\ NestInv /\ [Next]_vars => NestInv'
  BY AppDepth < StackLimit, NextNest
<1>3. HooksSpec => []OriginsRunOriginals
  BY OneHooker, OriginsStayReal
<1> QED
  BY <1>1, <1>2, <1>3, InvAlways, TracerImplementsHooks, OriginsArePublished, PTL DEF Spec

(* A helper call of log_method_info, itself intercepted, is never logged:   *)
(* re-entry of the tracer stops one level deep.                             *)
THEOREM HelpersDoNotNest ==
  ASSUME OneHooker, AppDepth < StackLimit
  PROVE  Spec => []HelperCallsDoNotNest
<1>1. Spec => []NestInv
  BY OneHooker, AppDepth < StackLimit, NestAlways
<1>2. NestInv => HelperCallsDoNotNest
  BY DEF NestInv
<1> QED
  BY <1>1, <1>2, PTL

(* No replacement calls a null ori_*, re-enters itself through one, or      *)
(* exhausts the stack.                                                      *)
THEOREM TracerNeverCrashes ==
  ASSUME OneHooker, AppDepth < StackLimit
  PROVE  Spec => []NoCrash
<1>1. Spec => []NestInv
  BY OneHooker, AppDepth < StackLimit, NestAlways
<1>2. NestInv => NoCrash
  BY DEF NestInv
<1> QED
  BY <1>1, <1>2, PTL

-----------------------------------------------------------------------------

(* Why a thread that is in the tracer's code gets out of it.  How a frame   *)
(* goes on:                                                                 *)
Goes(f, point) ==
  \/ f.at = "original" /\ point \in {"result", "clear"}
  \/ f.at = "result" /\ point = "instanceof"
  \/ f.at = "instanceof" /\ point = "clear"
  \/ f.at = "clear" /\ point = "flag"
  \/ f.at = "flag" /\ point \in {"tid", "return"}
  \/ f.at = "tid" /\ point \in {"log", "tid2"}
  \/ f.at = "tid2" /\ point \in {"log", "return"}
  \/ f.at = "log" /\ f.mid \in HelperMethods /\ point = "return"
  \/ f.at = "log" /\ f.mid \notin HelperMethods /\ point = "helper"
  \/ f.at = "helper" /\ f.k = 5 /\ point = "return"

(* its top frame goes on, counts or enters a helper call, or returns.       *)
FrameStep(t) ==
  LET f == stack[t][1] IN
  \/ \E point \in FramePoints :
       Goes(f, point) /\ Replaced(t, [f EXCEPT !.at = point])
  \/ f.at = "helper" /\ f.k <= 4 /\ Replaced(t, [f EXCEPT !.k = @ + 1])
  \/ \E g \in Frame :
       /\ f.at = "helper" /\ f.k <= 4
       /\ g.at = "original" /\ g.mid \in HelperMethods
       /\ Pushed(t, g)
  \/ f.at = "return" /\ Popped(t)

(* While every ori_* is real, a replacement does nothing else.              *)
LEMMA FrameSteps ==
  ASSUME AppDepth < StackLimit, Inv, OriginBeforePatch, OriginsRunOriginals, NestInv,
         NEW t \in Threads, FakeCode(t) \/ CallOriginal(t)
  PROVE  /\ InFake(t) /\ FrameStep(t) /\ UNCHANGED hookVars
         /\ stack[t][1].at = "original" => pc[t] = "app"
<1>1. \A u \in Threads : Len(stack[u]) \in Nat
  BY DEF Inv, TracerTypeOK
<1>2. ASSUME NEW point, At(t, point)
      PROVE  /\ InFake(t) /\ stack[t][1].at = point
             /\ Top(t) = stack[t][1] /\ stack[t][1] \in Frame
             /\ table[stack[t][1].fn].patched
  <2>1. InFake(t) /\ Top(t).at = point
    BY <1>2 DEF At
  <2>2. Top(t) = stack[t][1] /\ stack[t][1] \in Frame /\ 1 \in 1..Len(stack[t])
    BY <2>1, TopFrame DEF Inv
  <2> QED
    BY <2>1, <2>2 DEF NestInv, FramesPatched
(* A move of the top frame.                                                 *)
<1>3. ASSUME NEW from, At(t, from), NEW point \in FramePoints, MoveTo(t, point),
             Goes(stack[t][1], point)
      PROVE  InFake(t) /\ FrameStep(t) /\ stack[t][1].at = from
  <2>1. Replaced(t, [stack[t][1] EXCEPT !.at = point])
    BY <1>2, <1>3, MoveEffect DEF Inv
  <2> QED
    BY <1>2, <1>3, <2>1 DEF FrameStep
<1>4. CASE CallOriginal(t)
  <2>1. At(t, "original") /\ UNCHANGED hookVars /\ pc[t] = "app"
    BY <1>4 DEF CallOriginal
  <2>2. /\ Top(t) = stack[t][1] /\ stack[t][1].fn \in JniFunctions
        /\ table[stack[t][1].fn].patched /\ stack[t][1].at = "original"
    BY <1>2, <2>1 DEF Frame
  <2>3. table[Top(t).fn].ori = "real"
    BY <2>2 DEF OriginBeforePatch, OriginsRunOriginals, Inv, TracerTypeOK,
                HooksTypeOK, DobbyTypeOK, Origins
  <2>4. PICK point \in {"result", "clear"} : MoveTo(t, point)
    BY <1>4, <2>3, Zenon DEF CallOriginal
  <2>5. point \in FramePoints /\ Goes(stack[t][1], point)
    BY <2>2 DEF FramePoints, Goes
  <2> QED
    BY <1>3, <2>1, <2>4, <2>5
<1>5. CASE DropResultException(t)
  <2>1. At(t, "result") /\ MoveTo(t, "instanceof") /\ UNCHANGED hookVars
    BY <1>5 DEF DropResultException
  <2>2. "instanceof" \in FramePoints /\ Goes(stack[t][1], "instanceof")
    BY <1>2, <2>1 DEF FramePoints, Goes
  <2> QED
    BY <1>3, <2>1, <2>2
<1>6. CASE ExamineResult(t)
  <2>1. At(t, "instanceof") /\ MoveTo(t, "clear") /\ UNCHANGED hookVars
    BY <1>6 DEF ExamineResult
  <2>2. "clear" \in FramePoints /\ Goes(stack[t][1], "clear")
    BY <1>2, <2>1 DEF FramePoints, Goes
  <2> QED
    BY <1>3, <2>1, <2>2
<1>7. CASE ClearException(t)
  <2>1. At(t, "clear") /\ MoveTo(t, "flag") /\ UNCHANGED hookVars
    BY <1>7 DEF ClearException
  <2>2. "flag" \in FramePoints /\ Goes(stack[t][1], "flag")
    BY <1>2, <2>1 DEF FramePoints, Goes
  <2> QED
    BY <1>3, <2>1, <2>2
<1>8. CASE ReadFlag(t)
  <2>1. At(t, "flag") /\ UNCHANGED hookVars
    BY <1>8 DEF ReadFlag
  <2>2. PICK point \in {"tid", "return"} : MoveTo(t, point)
    BY <1>8, Zenon DEF ReadFlag
  <2>3. point \in FramePoints /\ Goes(stack[t][1], point)
    BY <1>2, <2>1 DEF FramePoints, Goes
  <2> QED
    BY <1>3, <2>1, <2>2, <2>3
<1>9. CASE CompareTid(t)
  <2>1. At(t, "tid") /\ UNCHANGED hookVars
    BY <1>9 DEF CompareTid
  <2>2. PICK point \in {"log", "tid2"} : MoveTo(t, point)
    BY <1>9, Zenon DEF CompareTid
  <2>3. point \in FramePoints /\ Goes(stack[t][1], point)
    BY <1>2, <2>1 DEF FramePoints, Goes
  <2> QED
    BY <1>3, <2>1, <2>2, <2>3
<1>14. CASE CompareTid2(t)
  <2>1. At(t, "tid2") /\ UNCHANGED hookVars
    BY <1>14 DEF CompareTid2
  <2>2. PICK point \in {"log", "return"} : MoveTo(t, point)
    BY <1>14, Zenon DEF CompareTid2
  <2>3. point \in FramePoints /\ Goes(stack[t][1], point)
    BY <1>2, <2>1 DEF FramePoints, Goes
  <2> QED
    BY <1>3, <2>1, <2>2, <2>3
<1>10. CASE LogMethodInfo(t)
  <2>1. At(t, "log") /\ UNCHANGED hookVars /\ Top(t) = stack[t][1]
    BY <1>2, <1>10 DEF LogMethodInfo
  <2>2. CASE stack[t][1].mid \in HelperMethods
    <3>1. MoveTo(t, "return")
      BY <1>10, <2>1, <2>2, Zenon DEF LogMethodInfo
    <3>2. "return" \in FramePoints /\ Goes(stack[t][1], "return")
      BY <1>2, <2>1, <2>2 DEF FramePoints, Goes
    <3> QED
      BY <1>3, <2>1, <3>1, <3>2
  <2>3. CASE stack[t][1].mid \notin HelperMethods
    <3>1. MoveTo(t, "helper")
      BY <1>10, <2>1, <2>3, Zenon DEF LogMethodInfo
    <3>2. "helper" \in FramePoints /\ Goes(stack[t][1], "helper")
      BY <1>2, <2>1, <2>3 DEF FramePoints, Goes
    <3> QED
      BY <1>3, <2>1, <3>1, <3>2
  <2> QED
    BY <2>2, <2>3
<1>11. CASE CallHelper(t)
  <2>1. At(t, "helper") /\ Top(t).k <= 4 /\ UNCHANGED hookVars
    BY <1>11 DEF CallHelper
  <2>2. /\ InFake(t) /\ stack[t][1].at = "helper" /\ Top(t) = stack[t][1]
        /\ stack[t][1] \in Frame /\ 1 \in 1..Len(stack[t])
    BY <1>2, <2>1, TopFrame DEF Inv
  <2>3. stack[t][1].k \in 1..4
    BY <2>1, <2>2 DEF Frame
  <2>4. CASE table[HelperFunction].patched
    <3> DEFINE mid == HelperCalls(Top(t).fn.init)[Top(t).k]
               g == NewFrame(HelperFunction, mid)
    <3>1. Enter(t, HelperFunction, mid)
      BY <1>11, <2>4 DEF CallHelper
    <3>2. mid \in HelperMethods
      BY <2>2, <2>3, HelperCallMethods
    <3>3. Len(stack[t]) < StackLimit
      <4>1. stack[t][1].mid \notin HelperMethods
        BY <2>2 DEF NestInv, HelperCallsDoNotNest
      <4> QED
        BY <1>1, <4>1, DepthsAreNumbers DEF NestInv, DepthInv
    <3> HIDE DEF mid
    <3>4. Pushed(t, g)
      BY <3>1, <3>2, <3>3, EnterEffect, HelperFunctionIsHooked DEF Inv
    <3>5. g \in Frame /\ g.at = "original" /\ g.mid \in HelperMethods
      BY <3>2, HelperFunctionIsHooked DEF NewFrame, Frame, FramePoints
    <3> HIDE DEF g
    <3> QED
      BY <2>1, <2>2, <2>3, <3>4, <3>5 DEF FrameStep
  <2>5. CASE ~table[HelperFunction].patched
    <3>1. stack' = [stack EXCEPT ![t][1].k = @ + 1]
      BY <1>11, <2>5 DEF CallHelper
    <3>2. stack[t][1].k <= 4 /\ TracerTypeOK
      BY <2>3 DEF Inv
    <3>3. Replaced(t, [stack[t][1] EXCEPT !.k = @ + 1])
      BY <2>2, <3>1, <3>2, CountEffect, Zenon
    <3> QED
      BY <2>1, <2>2, <3>2, <3>3 DEF FrameStep
  <2> QED
    BY <2>4, <2>5
<1>12. CASE FinishLog(t)
  <2>1. At(t, "helper") /\ MoveTo(t, "return") /\ UNCHANGED hookVars /\ Top(t).k = 5
    BY <1>12 DEF FinishLog
  <2>2. "return" \in FramePoints /\ Goes(stack[t][1], "return")
    BY <1>2, <2>1 DEF FramePoints, Goes
  <2> QED
    BY <1>3, <2>1, <2>2
<1>13. CASE Return(t)
  <2>1. At(t, "return") /\ UNCHANGED hookVars
    BY <1>13 DEF Return
  <2>2. Popped(t)
    BY <1>13, ReturnEffect DEF Inv
  <2> QED
    BY <1>2, <2>1, <2>2 DEF FrameStep
<1> QED
  BY <1>4, <1>5, <1>6, <1>7, <1>8, <1>9, <1>10, <1>11, <1>12, <1>13, <1>14
     DEF FakeCode

(* How the frames of a stack are called: a replacement the application      *)
(* called was called from a Java method of the application, and so was      *)
(* hook_jni_function.                                                       *)
CallerInv ==
  \A t \in Threads :
    /\ \A i \in 2..Len(stack[t]) :
         stack[t][i - 1].mid \notin HelperMethods => stack[t][i].at = "original"
    /\ pc[t] # "app" /\ stack[t] # <<>> =>
         stack[t][1].at = "original" /\ stack[t][1].mid \in AppMethods

(* A step of a replacement keeps to that,                                   *)
LEMMA FrameStepKeepsCaller ==
  ASSUME Inv, CallerInv, NEW t \in Threads, InFake(t), FrameStep(t), pc' = pc,
         stack[t][1].at = "original" => pc[t] = "app"
  PROVE  CallerInv'
<1> DEFINE f == stack[t][1]
<1>1. /\ Len(stack[t]) \in Nat /\ Len(stack[t]) > 0 /\ f \in Frame
      /\ \A i \in 1..Len(stack[t]) : stack[t][i] \in Frame
      /\ stack[t] # <<>> /\ \A u \in Threads : Len(stack[u]) \in Nat
  BY TopFrame DEF Inv, InFake, TracerTypeOK
<1>2. pc[t] = "app"
  BY <1>1 DEF CallerInv
<1>3. OneStack(t)
  BY DEF FrameStep, Replaced, Pushed, Popped
<1>4. ASSUME \A i \in 2..Len(stack'[t]) :
               stack'[t][i - 1].mid \notin HelperMethods => stack'[t][i].at = "original"
      PROVE  CallerInv'
  BY <1>2, <1>3, <1>4 DEF CallerInv, OneStack
<1>5. ASSUME NEW g, Replaced(t, g), g.mid = f.mid
      PROVE  \A i \in 2..Len(stack'[t]) :
               stack'[t][i - 1].mid \notin HelperMethods => stack'[t][i].at = "original"
  <2> TAKE i \in 2..Len(stack'[t])
  <2>1. /\ i \in 2..Len(stack[t]) /\ stack'[t][i] = stack[t][i]
        /\ stack'[t][i - 1].mid = stack[t][i - 1].mid
    <3>1. i \in 2..Len(stack[t]) /\ stack'[t][i] = stack[t][i]
      BY <1>5 DEF Replaced
    <3>2. i - 1 = 1 \/ i - 1 \in 2..Len(stack[t])
      BY <1>1, <3>1
    <3> QED
      BY <1>5, <3>1, <3>2 DEF Replaced
  <2> QED
    BY <2>1 DEF CallerInv
<1>6. ASSUME NEW point \in FramePoints, Replaced(t, [f EXCEPT !.at = point])
      PROVE  CallerInv'
  <2>1. [f EXCEPT !.at = point].mid = f.mid
    BY <1>1 DEF Frame
  <2> QED
    BY <1>4, <1>5, <1>6, <2>1
<1>7. ASSUME Replaced(t, [f EXCEPT !.k = @ + 1]) PROVE CallerInv'
  <2>1. [f EXCEPT !.k = @ + 1].mid = f.mid
    BY <1>1 DEF Frame
  <2> QED
    BY <1>4, <1>5, <1>7, <2>1
<1>8. ASSUME NEW g \in Frame, g.mid \in HelperMethods, Pushed(t, g) PROVE CallerInv'
  <2> SUFFICES ASSUME NEW i \in 2..Len(stack'[t]), stack'[t][i - 1].mid \notin HelperMethods
               PROVE  stack'[t][i].at = "original"
    BY <1>4
  <2>1. i # 2
    BY <1>8 DEF Pushed
  <2>2. /\ i - 1 \in 2..Len(stack[t]) /\ stack'[t][i] = stack[t][i - 1]
        /\ stack'[t][i - 1] = stack[t][(i - 1) - 1]
    BY <1>1, <1>8, <2>1 DEF Pushed
  <2> QED
    BY <2>2 DEF CallerInv
<1>9. ASSUME Popped(t) PROVE CallerInv'
  <2> SUFFICES ASSUME NEW i \in 2..Len(stack'[t]), stack'[t][i - 1].mid \notin HelperMethods
               PROVE  stack'[t][i].at = "original"
    BY <1>4
  <2>1. i + 1 \in 2..Len(stack[t]) /\ stack'[t][i] = stack[t][i + 1] /\ Len(stack[t]) > 1
    BY <1>1, <1>9 DEF Popped
  <2>2. stack'[t][i - 1].mid = stack[t][i].mid
    <3>1. CASE i = 2
      <4>1. stack'[t][1] = Counted(stack[t][2]) /\ stack[t][2] \in Frame
        BY <1>1, <1>9, <2>1 DEF Popped
      <4>2. Counted(stack[t][2]).mid = stack[t][2].mid
        BY <4>1 DEF Counted, Frame
      <4> QED
        BY <3>1, <4>1, <4>2
    <3>2. CASE i # 2
      <4>1. i - 1 \in 2..Len(stack'[t]) /\ (i - 1) + 1 = i
        BY <1>1, <1>3, <3>2
      <4> QED
        BY <1>9, <4>1 DEF Popped
    <3> QED
      BY <3>1, <3>2
  <2>3. stack[t][(i + 1) - 1].mid \notin HelperMethods
    BY <2>2
  <2> QED
    BY <2>1, <2>3 DEF CallerInv
<1> QED
  BY <1>6, <1>7, <1>8, <1>9 DEF FrameStep

(* and so does every step of the tracer.                                    *)
LEMMA NextCaller ==
  ASSUME AppDepth < StackLimit, Inv, OriginBeforePatch, OriginsRunOriginals, NestInv,
         CallerInv, [Next]_vars
  PROVE  CallerInv'
<1>1. CASE UNCHANGED vars
  BY <1>1 DEF vars, CallerInv
<1>2. ASSUME NEW t \in Threads, Switch(t) PROVE CallerInv'
  <2>1. UNCHANGED stack /\ (HookCode(t) \/ (InApp(t) /\ HookApi(t)))
    BY <1>2 DEF Switch
  <2>2. ASSUME NEW u \in Threads, pc'[u] # "app" PROVE pc[u] # "app" \/ InApp(u)
    <3>1. CASE HookCode(t)
      BY <2>2, <3>1 DEF HookCode, SetFlag, SetTid, Install, LeaveHook, Goto, Inv,
         TracerTypeOK, HooksTypeOK
    <3>2. CASE InApp(t) /\ HookApi(t)
      BY <2>2, <3>2 DEF HookApi, EnterHook, UnhookJniFunction, FakeQueryInternal, Goto,
         Inv, TracerTypeOK, HooksTypeOK
    <3> QED
      BY <2>1, <3>1, <3>2
  <2>3. ASSUME NEW u \in Threads, InApp(u), stack[u] # <<>>
        PROVE  stack[u][1].at = "original" /\ stack[u][1].mid \in AppMethods
    BY <2>3, TopFrame DEF InApp, InFake, Inv
  <2> QED
    BY <2>1, <2>2, <2>3 DEF CallerInv
<1>3. ASSUME NEW t \in Threads, FakeCode(t) \/ CallOriginal(t) PROVE CallerInv'
  <2>1. /\ InFake(t) /\ FrameStep(t) /\ UNCHANGED hookVars
        /\ stack[t][1].at = "original" => pc[t] = "app"
    BY <1>3, AppDepth < StackLimit, FrameSteps
  <2> QED
    BY <2>1, FrameStepKeepsCaller DEF hookVars
<1>4. ASSUME NEW t \in Threads, NEW fn \in JniFunctions, NEW mid \in AppMethods,
             AppCall(t, fn, mid)
      PROVE  CallerInv'
  <2>1. /\ InApp(t) /\ Enter(t, fn, mid) /\ UNCHANGED hookVars /\ pc[t] = "app"
    BY <1>4 DEF AppCall, InApp
  <2>2. CASE stack' = stack
    BY <2>1, <2>2 DEF CallerInv, hookVars
  <2>3. CASE Pushed(t, NewFrame(fn, mid))
    <3>1. \A u \in Threads : Len(stack[u]) \in Nat
      BY DEF Inv, TracerTypeOK
    <3>2. Len(stack[t]) > 0 => stack[t][1].at = "original"
      <4>1. Len(stack[t]) > 0 => InFake(t)
        BY <3>1 DEF InFake
      <4> QED
        BY <2>1, <4>1, TopFrame DEF InApp, Inv
    <3>3. ASSUME NEW i \in 2..Len(stack'[t]), stack'[t][i - 1].mid \notin HelperMethods
          PROVE  stack'[t][i].at = "original"
      <4>1. stack'[t][i] = stack[t][i - 1] /\ i - 1 \in 1..Len(stack[t])
        BY <2>3, <3>1 DEF Pushed
      <4>2. CASE i = 2
        BY <3>2, <4>1, <4>2
      <4>3. CASE i # 2
        <5>1. i - 1 \in 2..Len(stack[t]) /\ i - 1 \in 2..Len(stack'[t])
          BY <3>1, <4>1, <4>3
        <5>2. stack'[t][i - 1] = stack[t][(i - 1) - 1]
          BY <2>3, <5>1 DEF Pushed
        <5> QED
          BY <3>3, <4>1, <5>1, <5>2 DEF CallerInv
      <4> QED
        BY <4>2, <4>3
    <3>4. OneStack(t) /\ pc' = pc
      BY <2>1, <2>3 DEF Pushed, hookVars
    <3> QED
      BY <2>1, <3>3, <3>4 DEF CallerInv, OneStack
  <2> QED
    BY <2>1, <2>2, <2>3, EnterEffect DEF Inv
<1> QED
  BY <1>1, <1>2, <1>3, <1>4 DEF Next, AppStep

(* The points of a replacement, counted from its end.                       *)
PointsLeft == [return |-> 1, log |-> 2, tid2 |-> 3, tid |-> 4, flag |-> 5, clear |-> 6,
               instanceof |-> 7, result |-> 8, original |-> 9, helper |-> 0]

(* The steps that are left to a frame behind its k-th helper call, nine of *)
(* which are a helper's own.                                                *)
HelpersLeft(k) == 10 * (5 - k) + 2

(* The steps that are left to the replacement on top of t, until it is back *)
(* in the application's code.                                               *)
FakeRank(t) ==
  LET f == stack[t][1] IN
  CASE f.mid \in HelperMethods -> HelpersLeft(stack[t][2].k + 1) + PointsLeft[f.at]
    [] f.mid \notin HelperMethods /\ f.at = "helper" -> HelpersLeft(f.k)
    [] f.mid \notin HelperMethods /\ f.at = "return" -> 1
    [] OTHER -> HelpersLeft(1) + PointsLeft[f.at]

(* None is left in the application's code.                                  *)
TracerRank(t) ==
  IF pc[t] # "app" THEN HookRank(t) ELSE IF InApp(t) THEN 0 ELSE FakeRank(t)

(* Outside the application's code there is at least one step left, and in a *)
(* replacement no more than 50.                                             *)
LEMMA FakeRankBounds ==
  ASSUME Inv, NestInv, NEW t \in Threads, pc[t] = "app", ~InApp(t)
  PROVE  FakeRank(t) \in 1..50
<1> DEFINE f == stack[t][1]
<1>1. /\ InFake(t) /\ f \in Frame /\ 1 \in 1..Len(stack[t])
      /\ f.at \in FramePoints /\ f.mid \in AppMethods \cup HelperMethods /\ f.k \in 1..5
      /\ ~(f.at = "original" /\ f.mid \in AppMethods)
  BY TopFrame DEF InApp, Inv, Frame
<1>2. CASE f.mid \in HelperMethods
  <2>1. f.at # "helper" /\ Len(stack[t]) > 1 /\ stack[t][2].at = "helper"
    BY <1>1, <1>2 DEF NestInv, HelperCallsDoNotNest
  <2>2. stack[t][2].k \in 1..4
    <3>1. 2 \in 2..Len(stack[t]) /\ stack[t][2] \in Frame
      BY <1>1, <2>1, TopFrame DEF Inv
    <3> QED
      BY <2>1, <3>1 DEF Inv, StackInv, Frame
  <2>3. PointsLeft[f.at] \in 1..9
    BY <1>1, <2>1 DEF FramePoints, PointsLeft
  <2>4. FakeRank(t) = HelpersLeft(stack[t][2].k + 1) + PointsLeft[f.at]
    BY <1>2 DEF FakeRank
  <2>5. HelpersLeft(stack[t][2].k + 1) \in 2..32
    BY <2>2 DEF HelpersLeft
  <2> QED
    BY <2>3, <2>4, <2>5
<1>3. CASE f.mid \notin HelperMethods
  <2>1. f.at # "original"
    BY <1>1, <1>3
  <2>2. CASE f.at = "helper"
    <3>1. FakeRank(t) = HelpersLeft(f.k)
      BY <1>3, <2>2 DEF FakeRank
    <3>2. HelpersLeft(f.k) \in 2..42
      <4>1. f.k \in 1..5
        BY <1>1
      <4> QED
        BY <4>1 DEF HelpersLeft
    <3> HIDE DEF f
    <3> QED
      BY <3>1, <3>2
  <2>3. CASE f.at = "return"
    BY <1>3, <2>3 DEF FakeRank
  <2>4. CASE f.at \notin {"helper", "return"}
    <3>1. FakeRank(t) = HelpersLeft(1) + PointsLeft[f.at]
      BY <1>3, <2>4 DEF FakeRank
    <3>2. PointsLeft[f.at] \in 2..8
      BY <1>1, <2>1, <2>4 DEF FramePoints, PointsLeft
    <3> QED
      BY <3>1, <3>2 DEF HelpersLeft
  <2> QED
    BY <2>2, <2>3, <2>4
<1> QED
  BY <1>2, <1>3

(* Every step of a replacement brings its thread nearer.                    *)
LEMMA FrameStepAdvances ==
  ASSUME Inv, NestInv, CallerInv, NEW t \in Threads, pc[t] = "app", pc' = pc, ~InApp(t),
         FrameStep(t)
  PROVE  InApp(t)' \/ FakeRank(t)' < FakeRank(t)
<1> DEFINE f == stack[t][1]
           g == stack'[t][1]
<1>1. /\ InFake(t) /\ f \in Frame /\ 1 \in 1..Len(stack[t]) /\ Len(stack[t]) \in Nat
      /\ f.at \in FramePoints /\ f.mid \in AppMethods \cup HelperMethods /\ f.k \in 1..5
      /\ ~(f.at = "original" /\ f.mid \in AppMethods)
      /\ \A i \in 1..Len(stack[t]) : stack[t][i] \in Frame
  BY TopFrame DEF InApp, Inv, Frame
<1>2. f.mid \in HelperMethods =>
        /\ f.at # "helper" /\ Len(stack[t]) > 1 /\ stack[t][2].at = "helper"
        /\ stack[t][2].k \in 1..4 /\ stack[t][2].mid \notin HelperMethods
        /\ FakeRank(t) = HelpersLeft(stack[t][2].k + 1) + PointsLeft[f.at]
  <2> SUFFICES ASSUME f.mid \in HelperMethods
               PROVE  /\ f.at # "helper" /\ Len(stack[t]) > 1 /\ stack[t][2].at = "helper"
                      /\ stack[t][2].k \in 1..4 /\ stack[t][2].mid \notin HelperMethods
                      /\ FakeRank(t) = HelpersLeft(stack[t][2].k + 1) + PointsLeft[f.at]
    OBVIOUS
  <2>1. f.at # "helper" /\ Len(stack[t]) > 1 /\ stack[t][2].at = "helper"
    BY <1>1 DEF NestInv, HelperCallsDoNotNest
  <2>2. 2 \in 1..Len(stack[t]) /\ 2 \in 2..Len(stack[t]) /\ stack[t][2] \in Frame
    BY <1>1, <2>1
  <2>3. stack[t][2].mid \notin HelperMethods
    BY <2>2 DEF NestInv, HelperCallsDoNotNest
  <2>4. stack[t][2].k \in 1..4
    BY <2>1, <2>2 DEF Inv, StackInv, Frame
  <2> QED
    BY <2>1, <2>3, <2>4 DEF FakeRank
<1>3. ASSUME NEW point \in FramePoints, Goes(f, point),
             Replaced(t, [f EXCEPT !.at = point])
      PROVE  FakeRank(t)' < FakeRank(t)
  <2>1. g.at = point /\ g.mid = f.mid /\ g.k = f.k
    BY <1>1, <1>3 DEF Replaced, Frame
  <2>2. CASE f.mid \in HelperMethods
    <3>1. stack'[t][2] = stack[t][2]
      <4>1. 2 \in 2..Len(stack[t])
        BY <1>1, <1>2, <2>2
      <4> QED
        BY <1>3, <4>1 DEF Replaced
    <3>2. FakeRank(t)' = HelpersLeft(stack[t][2].k + 1) + PointsLeft[point]
      BY <2>1, <2>2, <3>1 DEF FakeRank
    <3>3. PointsLeft[point] < PointsLeft[f.at] /\ PointsLeft[point] \in Nat
          /\ PointsLeft[f.at] \in Nat
      BY <1>2, <1>3, <2>2 DEF Goes, PointsLeft
    <3>4. HelpersLeft(stack[t][2].k + 1) \in Nat
      BY <1>2, <2>2 DEF HelpersLeft
    <3> QED
      BY <1>2, <2>2, <3>2, <3>3, <3>4
  <2>3. CASE f.mid \notin HelperMethods /\ f.at = "helper"
    <3>1. FakeRank(t) = HelpersLeft(5) /\ point = "return"
      BY <1>3, <2>3 DEF FakeRank, Goes
    <3>2. FakeRank(t)' = 1
      BY <2>1, <2>3, <3>1 DEF FakeRank
    <3> QED
      BY <3>1, <3>2 DEF HelpersLeft
  <2>4. CASE f.mid \notin HelperMethods /\ f.at # "helper"
    <3>1. f.at \notin {"original", "return", "helper"}
      BY <1>1, <1>3, <2>4 DEF Goes
    <3>2. FakeRank(t) = HelpersLeft(1) + PointsLeft[f.at]
      BY <2>4, <3>1 DEF FakeRank
    <3>3. PointsLeft[f.at] \in 2..8 /\ HelpersLeft(1) = 42
      BY <1>1, <3>1 DEF FramePoints, PointsLeft, HelpersLeft
    <3>4. CASE point = "return"
      <4>1. FakeRank(t)' = 1
        BY <2>1, <2>4, <3>4 DEF FakeRank
      <4> QED
        BY <3>2, <3>3, <4>1
    <3>5. CASE point = "helper"
      <4>1. FakeRank(t)' = HelpersLeft(f.k)
        BY <2>1, <2>4, <3>5 DEF FakeRank
      <4>2. HelpersLeft(f.k) <= 42 /\ HelpersLeft(f.k) \in Nat
        BY <1>1 DEF HelpersLeft
      <4> QED
        BY <3>2, <3>3, <4>1, <4>2
    <3>6. CASE point \notin {"return", "helper"}
      <4>1. FakeRank(t)' = HelpersLeft(1) + PointsLeft[point]
        BY <2>1, <2>4, <3>6 DEF FakeRank
      <4>2. PointsLeft[point] < PointsLeft[f.at] /\ PointsLeft[point] \in Nat
        BY <1>3, <3>1, <3>6 DEF Goes, PointsLeft
      <4> QED
        BY <3>2, <3>3, <4>1, <4>2
    <3> QED
      BY <3>4, <3>5, <3>6
  <2> QED
    BY <2>2, <2>3, <2>4
<1>4. f.at = "helper" =>
        f.mid \notin HelperMethods /\ FakeRank(t) = HelpersLeft(f.k)
  BY <1>2 DEF FakeRank
<1>5. ASSUME f.at = "helper", f.k <= 4, Replaced(t, [f EXCEPT !.k = @ + 1])
      PROVE  FakeRank(t)' < FakeRank(t)
  <2>1. g.at = "helper" /\ g.mid = f.mid /\ g.k = f.k + 1
    BY <1>1, <1>5 DEF Replaced, Frame
  <2>2. FakeRank(t)' = HelpersLeft(f.k + 1)
    BY <1>4, <1>5, <2>1 DEF FakeRank
  <2> QED
    BY <1>1, <1>4, <1>5, <2>2 DEF HelpersLeft
<1>6. ASSUME NEW h \in Frame, f.at = "helper", f.k <= 4, h.at = "original",
             h.mid \in HelperMethods, Pushed(t, h)
      PROVE  FakeRank(t)' < FakeRank(t)
  <2>1. g = h /\ stack'[t][2] = f
    <3>1. 2 \in 2..Len(stack'[t])
      BY <1>1, <1>6 DEF Pushed
    <3> QED
      BY <1>6, <3>1 DEF Pushed
  <2>2. FakeRank(t)' = HelpersLeft(f.k + 1) + 9
    BY <1>6, <2>1 DEF FakeRank, PointsLeft
  <2> QED
    BY <1>1, <1>4, <1>6, <2>2 DEF HelpersLeft
<1>7. ASSUME f.at = "return", Popped(t) PROVE InApp(t)' \/ FakeRank(t)' < FakeRank(t)
  <2>1. CASE f.mid \in HelperMethods
    <3> DEFINE c == stack[t][2]
    <3>1. c \in Frame /\ Len(stack[t]) > 1
      BY <1>1, <1>2, <2>1
    <3>2. g = [c EXCEPT !.k = @ + 1]
      BY <1>2, <1>7, <2>1, <3>1 DEF Popped, Counted
    <3>3. g.at = "helper" /\ g.mid = c.mid /\ g.k = c.k + 1
      BY <1>2, <2>1, <3>1, <3>2 DEF Frame
    <3>4. FakeRank(t)' = HelpersLeft(c.k + 1)
      BY <1>2, <2>1, <3>3 DEF FakeRank
    <3>5. FakeRank(t) = HelpersLeft(c.k + 1) + 1
      BY <1>2, <1>7, <2>1 DEF PointsLeft
    <3>6. HelpersLeft(c.k + 1) \in Nat
      BY <1>2, <2>1 DEF HelpersLeft
    <3> QED
      BY <3>4, <3>5, <3>6
  <2>2. CASE f.mid \notin HelperMethods /\ Len(stack[t]) = 1
    <3>1. Len(stack'[t]) = 0 /\ stack'[t] \in Seq(Frame)
      BY <1>7, <2>2 DEF Popped, OneStack
    <3>2. stack'[t] = <<>>
      BY <3>1
    <3> QED
      BY <3>2 DEF InApp, InFake
  <2>3. CASE f.mid \notin HelperMethods /\ Len(stack[t]) # 1
    <3> DEFINE c == stack[t][2]
    <3>1. 2 \in 2..Len(stack[t]) /\ 2 \in 1..Len(stack[t]) /\ Len(stack[t]) > 1
      <4>1. Len(stack[t]) \in Nat /\ Len(stack[t]) >= 1 /\ Len(stack[t]) # 1
        BY <1>1, <2>3
      <4>2. \A n \in Nat : n >= 1 /\ n # 1 => 2 \in 2..n /\ 2 \in 1..n /\ n > 1
        OBVIOUS
      <4> QED
        BY <4>1, <4>2
    <3>2. c \in Frame /\ c.at = "original"
      <4>1. stack[t][2 - 1].mid \notin HelperMethods
        BY <2>3
      <4> QED
        BY <1>1, <3>1, <4>1 DEF CallerInv
    <3>3. c.mid \in AppMethods
      <4>1. c.mid \notin HelperMethods
        BY <3>1 DEF NestInv, HelperCallsDoNotNest
      <4> QED
        BY <3>2, <4>1 DEF Frame
    <3>4. g = c
      BY <1>7, <3>1, <3>2 DEF Popped, Counted
    <3>5. stack'[t] # <<>> /\ Head(stack'[t]) = g
      <4>1. stack'[t] \in Seq(Frame) /\ Len(stack'[t]) > 0
        BY <1>1, <1>7, <3>1 DEF Popped, OneStack
      <4> QED
        BY <4>1
    <3> QED
      BY <3>2, <3>3, <3>4, <3>5 DEF InApp, InFake, Top
  <2> QED
    BY <2>1, <2>2, <2>3
<1> QED
  BY <1>3, <1>5, <1>6, <1>7 DEF FrameStep

(* A step of t in the tracer, switching it or in a replacement, brings it   *)
(* nearer to the application's code; other steps leave it where it is.      *)
Yields(t) ==
  /\ TracerRank(t) \in Nat
  /\ InApp(t) <=> TracerRank(t) = 0
  /\ pc[t] = "app" => TracerRank(t) <= 50
  /\ TracerCode(t) => TracerRank(t)' < TracerRank(t)
  /\ ~InApp(t) /\ ~TracerCode(t) => TracerRank(t)' = TracerRank(t)

(* That is so while every ori_* is real.                                    *)
LEMMA StepYields ==
  ASSUME AppDepth < StackLimit, Inv, Inv', OriginBeforePatch, OriginsRunOriginals,
         NestInv, CallerInv, Next, NEW t \in Threads
  PROVE  Yields(t)
<1>1. /\ HooksTypeOK /\ HooksTypeOK' /\ [HooksNext]_hookVars /\ pc[t] \in Locations
      /\ ~crashed
  BY TracerStepIsHooksStep DEF Inv, TracerTypeOK, HooksTypeOK, Next
<1>2. HookRank(t) \in Nat /\ (pc[t] # "app" => HookRank(t) >= 1)
  <2>1. job[t] \in Jobs /\ HookOrder \in Seq(JniFunctions)
    BY <1>1, HookOrderIsSeq DEF HooksTypeOK, DobbyTypeOK, Jobs
  <2>2. Len(HookOrder) \in Nat /\ JobRank(job[t]) \in Nat
    BY <2>1, JobRankBounds, LenProperties
  <2> QED
    BY <1>1, <2>2 DEF HookRank, Locations
<1>3. /\ TracerRank(t) \in Nat
      /\ InApp(t) <=> TracerRank(t) = 0
      /\ pc[t] = "app" => TracerRank(t) <= 50
  <2>1. CASE pc[t] # "app"
    BY <1>2, <2>1 DEF TracerRank, InApp
  <2>2. CASE pc[t] = "app" /\ InApp(t)
    BY <2>2 DEF TracerRank
  <2>3. CASE pc[t] = "app" /\ ~InApp(t)
    <3>1. FakeRank(t) \in 1..50
      BY <2>3, FakeRankBounds
    <3> QED
      BY <2>3, <3>1 DEF TracerRank
  <2> QED
    BY <2>1, <2>2, <2>3
<1>4. ASSUME ~InApp(t), Switch(t) PROVE TracerRank(t)' < TracerRank(t)
  <2>1. HookCode(t) /\ UNCHANGED stack
    BY <1>4 DEF Switch
  <2>2. pc[t] # "app"
    BY <2>1 DEF HookCode, SetFlag, SetTid, Install, LeaveHook, Goto
  <2>3. HookRank(t)' < HookRank(t)
    BY <1>1, <2>1, HookStepAdvances DEF HookAdvances, HooksNext
  <2>4. TracerRank(t) = HookRank(t)
    BY <2>2 DEF TracerRank
  <2>5. CASE pc'[t] # "app"
    BY <2>3, <2>4, <2>5 DEF TracerRank
  <2>6. CASE pc'[t] = "app"
    <3>1. stack[t] # <<>> => Head(stack[t]) = stack[t][1]
      OBVIOUS
    <3>2. InApp(t)'
      BY <2>1, <2>2, <2>6, <3>1 DEF CallerInv, InApp, InFake, Top
    <3>3. TracerRank(t)' = 0
      BY <2>6, <3>2 DEF TracerRank
    <3> QED
      BY <1>2, <2>2, <2>4, <3>3
  <2> QED
    BY <2>5, <2>6
<1>5. ASSUME FakeCode(t) PROVE TracerRank(t)' < TracerRank(t)
  <2>1. /\ InFake(t) /\ FrameStep(t) /\ UNCHANGED hookVars
        /\ stack[t][1].at = "original" => pc[t] = "app"
    BY <1>5, AppDepth < StackLimit, FrameSteps
  <2>2. pc[t] = "app" /\ pc' = pc
    BY <2>1 DEF CallerInv, InFake, hookVars
  <2>3. ~InApp(t)
    BY <1>5 DEF FakeCode, DropResultException, ExamineResult, ClearException, ReadFlag,
       CompareTid, CompareTid2, LogMethodInfo, CallHelper, FinishLog, Return, At, InApp
  <2>4. InApp(t)' \/ FakeRank(t)' < FakeRank(t)
    BY <2>1, <2>2, <2>3, FrameStepAdvances
  <2>5. TracerRank(t) = FakeRank(t) /\ FakeRank(t) \in 1..50
    BY <2>2, <2>3, FakeRankBounds DEF TracerRank
  <2>6. CASE InApp(t)'
    <3>1. TracerRank(t)' = 0
      BY <2>2, <2>6 DEF TracerRank
    <3> QED
      BY <2>5, <3>1
  <2>7. CASE ~InApp(t)'
    <3>1. TracerRank(t)' = FakeRank(t)'
      BY <2>2, <2>7 DEF TracerRank
    <3> QED
      BY <2>4, <2>5, <2>7, <3>1
  <2> QED
    BY <2>6, <2>7
<1>6. ASSUME ~InApp(t), ~TracerCode(t) PROVE TracerRank(t)' = TracerRank(t)
  <2>1. PICK u \in Threads : Switch(u) \/ FakeCode(u) \/ AppStep(u)
    BY DEF Next
  <2>2. u # t
    BY <1>1, <1>6, <2>1 DEF TracerCode, AppStep, AppCall
  <2>3. stack'[t] = stack[t] /\ pc'[t] = pc[t] /\ job'[t] = job[t]
    <3>1. CASE HookCode(u) /\ Switch(u)
      <4>1. CASE Install(u)
        BY <1>1, <2>2, <3>1, <4>1, DobbyStepProgress DEF Install, Switch, HooksTypeOK
      <4>2. CASE SetFlag(u) \/ SetTid(u) \/ LeaveHook(u)
        BY <1>1, <2>2, <3>1, <4>2
           DEF SetFlag, SetTid, LeaveHook, Goto, StartJob, Switch, HooksTypeOK, DobbyTypeOK
      <4> QED
        BY <3>1, <4>1, <4>2 DEF HookCode
    <3>2. CASE HookApi(u) /\ Switch(u)
      BY <1>1, <2>2, <3>2 DEF HookApi, EnterHook, UnhookJniFunction, FakeQueryInternal,
         Goto, Switch, HooksTypeOK
    <3>3. CASE FakeCode(u) \/ CallOriginal(u)
      <4>1. FrameStep(u) /\ UNCHANGED hookVars
        BY <3>3, AppDepth < StackLimit, FrameSteps
      <4>2. OneStack(u)
        BY <4>1 DEF FrameStep, Replaced, Pushed, Popped
      <4> QED
        BY <2>2, <4>1, <4>2 DEF OneStack, hookVars
    <3>4. ASSUME NEW fn \in JniFunctions, NEW mid \in AppMethods, AppCall(u, fn, mid)
          PROVE  stack'[t] = stack[t] /\ pc'[t] = pc[t] /\ job'[t] = job[t]
      <4>1. Enter(u, fn, mid) /\ UNCHANGED hookVars
        BY <3>4 DEF AppCall
      <4>2. OneStack(u) \/ stack' = stack
        BY <4>1, EnterEffect DEF Inv, Pushed
      <4> QED
        BY <2>2, <4>1, <4>2 DEF OneStack, hookVars
    <3> QED
      BY <2>1, <3>1, <3>2, <3>3, <3>4 DEF Switch, AppStep
  <2>4. InApp(t)' = InApp(t)
    BY <2>3 DEF InApp, InFake, Top
  <2> QED
    BY <2>3, <2>4 DEF TracerRank, HookRank, FakeRank
<1>7. TracerCode(t) => FakeCode(t) \/ (~InApp(t) /\ Switch(t))
  BY DEF TracerCode
<1> QED
  BY <1>3, <1>4, <1>5, <1>6, <1>7 DEF Yields

(* Where one thread switches the tracer and the stack has room, a thread in *)
(* the tracer's code is at most 50 of its own steps from the application's  *)
(* when it is in replacements, however they nest, and HookRank steps when   *)
(* it is in hook_jni_function; no other thread adds to them.  This is what  *)
(* TracerYields rests on, for any threads, types and depth of calls.        *)
THEOREM TracerAdvances ==
  ASSUME OneHooker, AppDepth < StackLimit
  PROVE  Spec => [][\A t \in Threads : Yields(t)]_vars
<1>1. Init => CallerInv
  <2> SUFFICES ASSUME Init PROVE CallerInv
    OBVIOUS
  <2>1. \A t \in Threads : stack[t] = <<>> /\ Len(stack[t]) = 0
    BY DEF Init
  <2>2. \A i \in 2..0 : FALSE
    OBVIOUS
  <2> QED
    BY <2>1, <2>2, Zenon DEF CallerInv
<1>2. Inv /\ OriginBeforePatch /\ OriginsRunOriginals /\ NestInv /\ CallerInv /\ [Next]_vars
        => CallerInv'
  BY AppDepth < StackLimit, NextCaller
<1>3. Inv /\ Inv' /\ OriginBeforePatch /\ OriginsRunOriginals /\ NestInv /\ CallerInv
      /\ [Next]_vars
        => [\A t \in Threads : Yields(t)]_vars
  <2>1. ASSUME Inv, Inv', OriginBeforePatch, OriginsRunOriginals, NestInv, CallerInv, Next,
               NEW t \in Threads
        PROVE  Yields(t)
    BY <2>1, AppDepth < StackLimit, StepYields
  <2> QED
    BY <2>1
<1>4. HooksSpec => []OriginsRunOriginals
  BY OneHooker, OriginsStayReal
<1>5. Spec => []NestInv
  BY OneHooker, AppDepth < StackLimit, NestAlways
<1> QED
  BY <1>1, <1>2, <1>3, <1>4, <1>5, InvAlways, TracerImplementsHooks,
     OriginsArePublished, PTL DEF Spec
=============================================================================

-------------------------- MODULE HookPipelineProofs --------------------------
(***************************************************************************)
(* Theorems about the native bridge and what it is part of, for any threads, *)
(* packages, name lengths, buffer size and plugins.                         *)
(* Of NativeBridge: what package_name holds, where the Flutter function is  *)
(* hooked, that libdu.so is hooked completely with its handle known, and    *)
(* why the process dies only of a failed open.  Of DuCalls: the functions   *)
(* hooked so far may be called at any moment.  Of HookPipeline: the library *)
(* behaves in it as NativeBridge says, the two halves implement             *)
(* HookedProcess, and in likeread's process a set isAppHooked means that    *)
(* loads are watched.                                                       *)
(***************************************************************************)
EXTENDS HookPipeline, DuCalls, SequenceTheorems, TLAPS

(* The states of a hook: DobbyHook leaves Unhooked or Hooked, and Half while *)
(* it is about to patch.                                                    *)
Half == [entry |-> TRUE, patched |-> FALSE, ori |-> "real"]

(* DobbyHook has returned.                                                  *)
Hooked == [entry |-> TRUE, patched |-> TRUE, ori |-> "real"]

(* What one step of DobbyHook does to the state of its thread and target.   *)
Effect(t, hook, left, at, copy) ==
  /\ table' = [table EXCEPT ![Target(t)] = hook]
  /\ job' = [job EXCEPT ![t] = Job(left, at, copy)]
  /\ \/ /\ job[t].step = "find" /\ table[Target(t)].entry
        /\ hook = table[Target(t)] /\ left = Tail(job[t].todo) /\ at = "find"
     \/ /\ job[t].step = "find" /\ ~table[Target(t)].entry
        /\ hook = table[Target(t)] /\ left = job[t].todo /\ at = "relocate"
     \/ /\ job[t].step = "relocate"
        /\ hook = table[Target(t)] /\ left = job[t].todo /\ at = "publish"
        /\ ~table[Target(t)].patched => copy = "real"
     \/ /\ job[t].step = "publish"
        /\ hook = [entry |-> TRUE, patched |-> table[Target(t)].patched,
                   ori |-> job[t].copy]
        /\ left = job[t].todo /\ at = "commit"
     \/ /\ job[t].step = "commit"
        /\ hook = [entry |-> table[Target(t)].entry, patched |-> TRUE,
                   ori |-> table[Target(t)].ori]
        /\ left = Tail(job[t].todo) /\ at = "find"

(* What the table may hold for a function.                                  *)
HookType == [entry: BOOLEAN, patched: BOOLEAN, ori: Origins]

(* Each step of DobbyHook is one of the cases of Effect.                    *)
LEMMA DobbyEffect ==
  ASSUME DobbyTypeOK, NEW t \in Threads, DobbyStep(t)
  PROVE  /\ Busy(t) /\ Target(t) \in HookedSites
         /\ \E hook \in HookType, left \in {job[t].todo, Tail(job[t].todo)},
               at \in Steps, copy \in Origins : Effect(t, hook, left, at, copy)
<1>1. /\ Busy(t) /\ job[t] = Job(job[t].todo, job[t].step, job[t].copy)
      /\ job[t].todo \in Seq(HookedSites) /\ job[t].copy \in Origins
  BY DEF DobbyTypeOK, DobbyStep, FindHookEntry, RelocatePrologue, PublishOrigin,
         CommitPatch, AtStep, Job
<1>2. Target(t) \in HookedSites
  BY <1>1 DEF Busy, Target
<1>3. table[Target(t)] \in HookType /\ table = [table EXCEPT ![Target(t)] = table[Target(t)]]
  BY <1>2 DEF DobbyTypeOK, HookType
<1> DEFINE s == Target(t)
<1>4. "null" \in Origins /\ "real" \in Origins /\ "loop" \in Origins
      /\ \A at \in {"find", "relocate", "publish", "commit"} : at \in Steps
  BY DEF Origins, Steps
<1>5. CASE FindHookEntry(t)
  <2>1. CASE table[s].entry
    <3>1. Effect(t, table[s], Tail(job[t].todo), "find", "null")
      BY <1>3, <1>5, <2>1 DEF Effect, FindHookEntry, AtStep, ReturnFromCall, StartJob
    <3> QED
      BY <1>1, <1>2, <1>3, <1>4, <3>1
  <2>2. CASE ~table[s].entry
    <3>1. Effect(t, table[s], job[t].todo, "relocate", "null")
      BY <1>3, <1>5, <2>2 DEF Effect, FindHookEntry, AtStep, GoOn
    <3> QED
      BY <1>1, <1>2, <1>3, <1>4, <3>1
  <2> QED
    BY <2>1, <2>2
<1>6. CASE RelocatePrologue(t)
  <2>1. CASE table[s].patched
    <3>1. Effect(t, table[s], job[t].todo, "publish", "loop")
      BY <1>3, <1>6, <2>1 DEF Effect, RelocatePrologue, AtStep, GoOn
    <3> QED
      BY <1>1, <1>2, <1>3, <1>4, <3>1
  <2>2. CASE ~table[s].patched
    <3>1. Effect(t, table[s], job[t].todo, "publish", "real")
      BY <1>3, <1>6, <2>2 DEF Effect, RelocatePrologue, AtStep, GoOn
    <3> QED
      BY <1>1, <1>2, <1>3, <1>4, <3>1
  <2> QED
    BY <2>1, <2>2
<1>7. CASE PublishOrigin(t)
  <2> DEFINE hook == [entry |-> TRUE, patched |-> table[s].patched, ori |-> job[t].copy]
  <2>1. hook \in HookType
    BY <1>1, <1>3 DEF HookType
  <2>2. Effect(t, hook, job[t].todo, "commit", job[t].copy)
    BY <1>7 DEF Effect, PublishOrigin, AtStep, GoOn
  <2> QED
    BY <1>1, <1>2, <1>4, <2>1, <2>2
<1>8. CASE CommitPatch(t)
  <2> DEFINE hook == [entry |-> table[s].entry, patched |-> TRUE, ori |-> table[s].ori]
  <2>1. hook \in HookType
    BY <1>3 DEF HookType
  <2>2. Effect(t, hook, Tail(job[t].todo), "find", "null")
    BY <1>8 DEF Effect, CommitPatch, AtStep, ReturnFromCall, StartJob
  <2> QED
    BY <1>1, <1>2, <1>4, <2>1, <2>2
<1> QED
  BY <1>5, <1>6, <1>7, <1>8 DEF DobbyStep

-----------------------------------------------------------------------------

(* A thread that loads a watched library, or is in JNI_OnLoad, holds the    *)
(* Runtime's monitor.                                                       *)
MonitorInv ==
  \A t \in Threads :
    /\ pc[t] \in {"open_libdl", "hook_dlopen"} => monitor = t
    /\ lib[t] # "other" =>
         /\ monitor = t
         /\ pc[t] \in {"ori", "package", "hook_flutter", "du", "null_du", "hook_du"}
    /\ pc[t] \in {"hook_flutter", "null_du", "hook_du"} => lib[t] # "other"

(* The DobbyHook calls a thread at a given place may still have to make.    *)
Remaining(place) ==
  CASE place = "hook_dlopen" -> {<<"android_dlopen_ext">>, <<>>}
    [] place = "hook_flutter" -> {<<"flutter">>, <<>>}
    [] place = "hook_du" -> {DuOrder, Tail(DuOrder), Tail(Tail(DuOrder)),
                             Tail(Tail(Tail(DuOrder))), <<>>}
    [] OTHER -> {<<>>}

(* No thread has more calls to make than its place tells.                   *)
JobInv == \A t \in Threads : job[t].todo \in Remaining(pc[t])

(* So one thread hooks at a time, each function is copied before it is      *)
(* patched, and no hook is left half-way.                                   *)
SiteInv ==
  /\ \A f \in HookedSites :
       \/ table[f] \in {Unhooked, Hooked}
       \/ table[f] = Half /\ \E t \in Threads : AtStep(t, "commit") /\ Target(t) = f
  /\ \A t \in Threads : Busy(t) =>
       /\ job[t].step \in {"relocate", "publish"} => table[Target(t)] = Unhooked
       /\ job[t].step = "publish" => job[t].copy = "real"
       /\ job[t].step = "commit" => table[Target(t)] = Half

(* A thread has yet to hook f.                                              *)
Wants(t, f) == \E i \in DOMAIN job[t].todo : job[t].todo[i] = f

(* No function of libdu.so is hooked, and none is about to be.              *)
NoDuYet ==
  /\ \A f \in DuSites : table[f] = Unhooked
  /\ \A t \in Threads : pc[t] # "hook_du"

(* A thread has set du_ctx to null and will dereference it.                 *)
DuLost == \E t \in Threads : pc[t] = "null_du"

(* du_ctx is set before the first function of libdu.so is hooked, and each  *)
(* one is hooked or about to be as soon as it is.  It is lost again only by *)
(* the thread that ends the process next.                                   *)
DuInv ==
  /\ du_ctx = "null" => NoDuYet \/ DuLost
  /\ du_ctx = "ctx" =>
       \A f \in DuSites :
         table[f] = Hooked \/ \E t \in Threads : pc[t] = "hook_du" /\ Wants(t, f)

(* doNativeHook was called with p.                                          *)
Told(p) == \E i \in DOMAIN lastPackage : lastPackage[i] = p

(* The Flutter function is hooked, or about to be, only for likeread.       *)
FlutterInv ==
  /\ table["flutter"].entry => Told(Likeread)
  /\ \A t \in Threads : pc[t] = "hook_flutter" => Told(Likeread)

(* Bytes the j-th doNativeHook has written so far.                          *)
Written(j) ==
  IF j = Len(lastPackage) /\ pc[Main] = "memcpy"
  THEN copied ELSE CopyLength(lastPackage[j])

(* Each byte of package_name is of the last call that has written it.       *)
BytesInv ==
  /\ pc[Main] = "memcpy" => lastPackage # <<>> /\ copied <= CopyLength(Last)
  /\ \A i \in Bytes :
       \/ package_name[i] = "nul" /\ \A j \in DOMAIN lastPackage : Written(j) <= i
       \/ \E j \in DOMAIN lastPackage :
            /\ package_name[i] = lastPackage[j]
            /\ i < Written(j)
            /\ \A k \in DOMAIN lastPackage : j < k => Written(k) <= i

(* Who calls the original of android_dlopen_ext came through its patch.     *)
CallInv == \A t \in Threads : pc[t] = "ori" => table["android_dlopen_ext"].patched

(* du_ctx is lost only after a failed fake_dlopen.                          *)
LostInv == DuLost => nullOpen

(* The part of the invariant about hooking,                                 *)
HookInv == TypeOK /\ MonitorInv /\ JobInv /\ SiteInv

(* and the whole inductive invariant.                                       *)
Inv ==
  /\ HookInv /\ DuInv /\ FlutterInv /\ BytesInv /\ CallInv
  /\ LostInv /\ CrashNeedsFailedOpen

(* A thread that hooks holds the monitor, so that no other thread hooks.    *)
LEMMA BusyPlace ==
  ASSUME MonitorInv, JobInv, NEW t \in Threads, Busy(t)
  PROVE  pc[t] \in {"hook_dlopen", "hook_flutter", "hook_du"} /\ monitor = t
<1>1. job[t].todo \in Remaining(pc[t]) /\ job[t].todo # <<>>
  BY DEF JobInv, Busy
<1>2. pc[t] \in {"hook_dlopen", "hook_flutter", "hook_du"}
  <2>1. SUFFICES ASSUME pc[t] \notin {"hook_dlopen", "hook_flutter", "hook_du"}
                 PROVE  Remaining(pc[t]) = {<<>>}
    BY <1>1
  <2> QED
    BY <2>1, Zenon DEF Remaining
<1> QED
  BY <1>2 DEF MonitorInv

(* memcpy writes at least one byte and never the last one of the buffer.    *)
LEMMA CopyLengthType ==
  ASSUME NEW p \in Packages
  PROVE  /\ CopyLength(p) \in Nat /\ CopyLength(p) > 0 /\ CopyLength(p) < BufferSize
         /\ NameLength[p] \in Nat /\ NameLength[p] > 0 /\ CopyLength(p) <= NameLength[p]
         /\ NameLength[p] < BufferSize => CopyLength(p) = NameLength[p]
  BY NamesHaveLengths, BufferIsBuffer DEF CopyLength

(* Nothing is hooked and package_name is all zero at first.                 *)
LEMMA InitInv == Init => Inv
<1> SUFFICES ASSUME Init PROVE Inv
  OBVIOUS
<1>1. /\ <<>> \in Seq(Packages) /\ <<>> \in Seq(HookedSites)
      /\ 0 \in 0..BufferSize
      /\ "android_dlopen_ext" \in HookedSites /\ "flutter" \in HookedSites
      /\ DuSites \subseteq HookedSites
  BY BufferIsBuffer DEF HookedSites
<1>2. DobbyTypeOK
  BY <1>1 DEF Init, DobbyInit, DobbyTypeOK, Unhooked, NoJob, Job, Steps, Origins
<1>3. /\ package_name \in [Bytes -> Packages \cup {"nul"}]
      /\ pc \in [Threads -> Locations]
      /\ lib \in [Threads -> Libraries]
  BY DEF Init, Locations, Libraries
<1>4. TypeOK
  BY <1>1, <1>2, <1>3, Zenon DEF Init, TypeOK
<1>5. MonitorInv
  BY DEF Init, MonitorInv
<1>6. JobInv
  <2>1. \A t \in Threads : job[t].todo = <<>> /\ pc[t] = "app"
    BY DEF Init, DobbyInit, NoJob, Job
  <2>2. Remaining("app") = {<<>>}
    BY Zenon DEF Remaining
  <2> QED
    BY <2>1, <2>2 DEF JobInv
<1>7. SiteInv
  BY DEF Init, DobbyInit, SiteInv, Busy, NoJob, Job
<1>8. DuInv /\ FlutterInv /\ CallInv
  BY <1>1 DEF Init, DobbyInit, DuInv, NoDuYet, FlutterInv, CallInv, Unhooked
<1>9. BytesInv
  <2>1. lastPackage = <<>> /\ DOMAIN lastPackage = {} /\ pc[Main] = "app"
    BY MainIsThread DEF Init
  <2>2. \A i \in Bytes : package_name[i] = "nul"
    BY DEF Init
  <2> QED
    BY <2>1, <2>2 DEF BytesInv
<1> QED
  BY <1>4, <1>5, <1>6, <1>7, <1>8, <1>9
     DEF Inv, HookInv, Init, LostInv, DuLost, CrashNeedsFailedOpen

-----------------------------------------------------------------------------

(* Steps of the library on t other than a DobbyHook call.                   *)
Other(t) ==
  \/ OpenLibdl(t) \/ InitJni(t) \/ InitJniFails(t)
  \/ t = Main /\ (CopyByte \/ EndNativeHook)
  \/ CallOriginal(t)
  \/ HookFlutter(t) \/ SkipFlutter(t) \/ FlutterHooked(t)
  \/ HookDu(t) \/ SkipDu(t) \/ DuHooked(t)
  \/ FakeDlopenFails(t) \/ LoseDu(t) \/ UseNullDu(t)

(* A step that is no DobbyHook call hooks nothing: it keeps t's list, which *)
(* is empty if t moves, or begins the one of the place t moves to.          *)
Moves(t) ==
  /\ UNCHANGED table
  /\ \/ UNCHANGED <<pc, job>>
     \/ /\ UNCHANGED job /\ ~Busy(t)
        /\ \E place \in Locations : pc' = [pc EXCEPT ![t] = place]
     \/ /\ ~Busy(t)
        /\ \E place \in {"hook_dlopen", "hook_flutter", "hook_du"}, left \in Seq(HookedSites) :
             /\ left \in Remaining(place)
             /\ pc' = [pc EXCEPT ![t] = place]
             /\ job' = [job EXCEPT ![t] = Job(left, "find", "null")]

(* The lists of calls that are begun are those of the places they begin at. *)
LEMMA Lists ==
  /\ <<"android_dlopen_ext">> \in Seq(HookedSites)
  /\ <<"android_dlopen_ext">> \in Remaining("hook_dlopen")
  /\ <<"flutter">> \in Seq(HookedSites) /\ <<"flutter">> \in Remaining("hook_flutter")
  /\ DuOrder \in Seq(HookedSites) /\ DuOrder \in Remaining("hook_du")
  /\ \A place : <<>> \in Remaining(place)
<1>1. "android_dlopen_ext" \in HookedSites /\ "flutter" \in HookedSites
  BY DEF HookedSites
<1>2. "decstr" \in HookedSites /\ "query" \in HookedSites
      /\ "query_internal" \in HookedSites /\ "query_internal_x" \in HookedSites
  BY DEF HookedSites, DuSites
<1>3. DuOrder \in Seq(HookedSites)
  BY <1>2 DEF DuOrder
<1>4. /\ <<"android_dlopen_ext">> \in Remaining("hook_dlopen")
      /\ <<"flutter">> \in Remaining("hook_flutter")
      /\ DuOrder \in Remaining("hook_du")
  BY Zenon DEF Remaining
<1>5. ASSUME NEW place PROVE <<>> \in Remaining(place)
  BY Zenon DEF Remaining
<1> QED
  BY <1>1, <1>3, <1>4, <1>5

(* The library's steps are such moves,                                      *)
LEMMA OtherMoves ==
  ASSUME HookInv, NEW t \in Threads, Other(t)
  PROVE  Moves(t)
<1> USE DEF Goto, Leave, Moves
<1>1. \A place \in Locations :
        place \notin {"hook_dlopen", "hook_flutter", "hook_du"} /\ pc[t] = place => ~Busy(t)
  BY BusyPlace DEF HookInv
<1>2. pc[t] \in Locations
  BY DEF HookInv, TypeOK
<1>3. \A place \in {"app", "open_libdl", "hook_dlopen", "memcpy", "ori", "package",
                    "hook_flutter", "du", "null_du", "hook_du"} : place \in Locations
  BY DEF Locations
<1>4. CASE OpenLibdl(t)
  BY <1>1, <1>3, <1>4, Lists DEF OpenLibdl, StartJob
<1>5. CASE InitJni(t) \/ InitJniFails(t) \/ FlutterHooked(t) \/ DuHooked(t)
  BY <1>3, <1>5 DEF InitJni, InitJniFails, FlutterHooked, DuHooked, dobby
<1>6. CASE SkipFlutter(t) \/ SkipDu(t) \/ LoseDu(t)
  BY <1>1, <1>3, <1>6 DEF SkipFlutter, SkipDu, LoseDu, dobby
<1>11. CASE FakeDlopenFails(t) \/ UseNullDu(t)
  BY <1>11 DEF FakeDlopenFails, UseNullDu, dobby
<1>7. CASE CallOriginal(t)
  BY <1>1, <1>3, <1>7 DEF CallOriginal, dobby
<1>8. CASE HookFlutter(t)
  BY <1>1, <1>3, <1>8, Lists DEF HookFlutter, StartJob
<1>9. CASE HookDu(t)
  BY <1>1, <1>3, <1>9, Lists DEF HookDu, StartJob
<1>10. CASE t = Main /\ (CopyByte \/ EndNativeHook)
  BY <1>1, <1>3, <1>10 DEF CopyByte, EndNativeHook, dobby
<1> QED
  BY <1>4, <1>5, <1>6, <1>7, <1>8, <1>9, <1>10, <1>11 DEF Other

(* and so are the requests that begin them.                                 *)
LEMMA RequestMoves ==
  ASSUME HookInv, Request
  PROVE  \E t \in Threads : Moves(t)
<1> USE DEF Goto, Moves
<1>1. ASSUME NEW t \in Threads, pc[t] = "app" PROVE ~Busy(t)
  BY <1>1, BusyPlace DEF HookInv
<1>2. \A place \in {"open_libdl", "memcpy", "ori"} : place \in Locations
  BY DEF Locations
<1>3. CASE LoadHookLibrary
  BY <1>1, <1>2, <1>3, MainIsThread DEF LoadHookLibrary, dobby
<1>4. ASSUME NEW p \in Packages, DoNativeHook(p) PROVE \E t \in Threads : Moves(t)
  BY <1>1, <1>2, <1>4, MainIsThread DEF DoNativeHook, dobby
<1>5. ASSUME NEW t \in Threads, NEW l \in Libraries, LoadLibrary(t, l)
      PROVE  \E u \in Threads : Moves(u)
  BY <1>1, <1>2, <1>5 DEF LoadLibrary, dobby
<1>6. ASSUME NEW l \in Libraries, LoadUnseen(l) PROVE \E u \in Threads : Moves(u)
  BY <1>6, MainIsThread DEF LoadUnseen, dobby
<1> QED
  BY <1>3, <1>4, <1>5, <1>6 DEF Request

(* Moving hooks nothing, and keeps every thread's list that of its place.   *)
LEMMA MovesKeepSites ==
  ASSUME HookInv, NEW t \in Threads, Moves(t)
  PROVE  JobInv' /\ SiteInv'
<1> USE DEF Busy, AtStep, Target
<1>1. CASE UNCHANGED <<pc, job, table>>
  BY <1>1 DEF HookInv, JobInv, SiteInv
<1>2. ASSUME NEW place \in Locations, pc' = [pc EXCEPT ![t] = place],
             UNCHANGED <<job, table>>, ~Busy(t)
      PROVE  JobInv' /\ SiteInv'
  <2>1. \A u \in Threads : u # t => pc'[u] = pc[u]
    BY <1>2 DEF HookInv, TypeOK
  <2>2. JobInv'
    BY <1>2, <2>1, Lists DEF HookInv, JobInv
  <2>3. SiteInv'
    BY <1>2 DEF HookInv, SiteInv
  <2> QED
    BY <2>2, <2>3
<1>3. ASSUME NEW place \in Locations, NEW left \in Seq(HookedSites), left \in Remaining(place),
             pc' = [pc EXCEPT ![t] = place], UNCHANGED table, ~Busy(t),
             job' = [job EXCEPT ![t] = Job(left, "find", "null")]
      PROVE  JobInv' /\ SiteInv'
  <2>1. /\ \A u \in Threads : u # t => pc'[u] = pc[u] /\ job'[u] = job[u]
        /\ pc'[t] = place /\ job'[t] = Job(left, "find", "null")
    BY <1>3 DEF HookInv, TypeOK, DobbyTypeOK
  <2>2. job'[t].todo = left /\ job'[t].step = "find"
    BY <2>1 DEF Job
  <2>3. JobInv'
    BY <1>3, <2>1, <2>2 DEF HookInv, JobInv
  <2>4. SiteInv'
    <3>1. \A f \in HookedSites :
            \/ table'[f] \in {Unhooked, Hooked}
            \/ table'[f] = Half /\ \E u \in Threads : (AtStep(u, "commit") /\ Target(u) = f)'
      BY <1>3, <2>1 DEF HookInv, SiteInv
    <3>2. \A u \in Threads : (Busy(u))' =>
            /\ job'[u].step \in {"relocate", "publish"} => table'[Target(u)'] = Unhooked
            /\ job'[u].step = "publish" => job'[u].copy = "real"
            /\ job'[u].step = "commit" => table'[Target(u)'] = Half
      BY <1>3, <2>1, <2>2 DEF HookInv, SiteInv
    <3> QED
      BY <3>1, <3>2 DEF SiteInv
  <2> QED
    BY <2>3, <2>4
<1>4. \A place \in {"hook_dlopen", "hook_flutter", "hook_du"} : place \in Locations
  BY DEF Locations
<1> QED
  BY <1>1, <1>2, <1>3, <1>4 DEF Moves

(* A call of DobbyHook that returns leaves a list of the same place.        *)
LEMMA TailRemains ==
  ASSUME NEW place, NEW left \in Remaining(place), left # <<>>
  PROVE  Tail(left) \in Remaining(place)
<1>1. /\ Tail(<<"android_dlopen_ext">>) = <<>> /\ Tail(<<"flutter">>) = <<>>
      /\ Tail(Tail(Tail(Tail(DuOrder)))) = <<>>
  BY DEF DuOrder
<1>2. CASE place = "hook_dlopen"
  BY <1>1, <1>2, Zenon DEF Remaining
<1>3. CASE place = "hook_flutter"
  <2>1. Remaining(place) = {<<"flutter">>, <<>>}
    BY <1>3, Zenon DEF Remaining
  <2> QED
    BY <1>1, <2>1
<1>4. CASE place = "hook_du"
  <2>1. Remaining(place) = {DuOrder, Tail(DuOrder), Tail(Tail(DuOrder)),
                            Tail(Tail(Tail(DuOrder))), <<>>}
    BY <1>4, Zenon DEF Remaining
  <2> QED
    BY <1>1, <2>1
<1>5. CASE place \notin {"hook_dlopen", "hook_flutter", "hook_du"}
  BY <1>5, Zenon DEF Remaining
<1> QED
  BY <1>2, <1>3, <1>4, <1>5

(* The only thread that hooks takes its target from Unhooked through Half   *)
(* to Hooked, or finds it Hooked.                                           *)
LEMMA DobbyKeepsSites ==
  ASSUME HookInv, NEW t \in Threads, DobbyStep(t), UNCHANGED pc
  PROVE  JobInv' /\ SiteInv'
<1>1. DobbyTypeOK /\ MonitorInv /\ JobInv /\ SiteInv
  BY DEF HookInv, TypeOK
<1>2. Busy(t) /\ Target(t) \in HookedSites
  BY <1>1, DobbyEffect
<1>3. PICK hook \in HookType, left \in {job[t].todo, Tail(job[t].todo)},
           at \in Steps, copy \in Origins : Effect(t, hook, left, at, copy)
  BY <1>1, DobbyEffect
<1>4. \A u \in Threads : u # t => ~Busy(u)
  <2>1. SUFFICES ASSUME NEW u \in Threads, u # t, Busy(u) PROVE FALSE
    OBVIOUS
  <2>2. monitor = u /\ monitor = t
    BY <1>1, <1>2, <2>1, BusyPlace
  <2> QED
    BY <2>1, <2>2
<1>5. /\ \A u \in Threads : u # t => job'[u] = job[u]
      /\ job'[t].todo = left /\ job'[t].step = at /\ job'[t].copy = copy
      /\ \A f \in HookedSites : f # Target(t) => table'[f] = table[f]
      /\ table'[Target(t)] = hook
  <2>1. /\ job' = [job EXCEPT ![t] = Job(left, at, copy)]
        /\ table' = [table EXCEPT ![Target(t)] = hook]
    BY <1>3 DEF Effect
  <2> QED
    BY <1>1, <1>2, <2>1 DEF DobbyTypeOK, Job
<1>6. JobInv'
  <2>1. left \in Remaining(pc[t])
    BY <1>1, <1>2, <1>3, TailRemains DEF JobInv, Busy
  <2> QED
    BY <1>1, <1>5, <2>1 DEF JobInv
<1>7. \A f \in HookedSites : f # Target(t) => table[f] \in {Unhooked, Hooked}
  BY <1>1, <1>4 DEF SiteInv, AtStep
<1>8. job[t].step # "commit" => table[Target(t)] \in {Unhooked, Hooked}
  BY <1>1, <1>2, <1>4 DEF SiteInv, AtStep
<1>9. /\ ~Unhooked.entry /\ Hooked.entry /\ ~Unhooked.patched
      /\ Half = [entry |-> TRUE, patched |-> Unhooked.patched, ori |-> "real"]
      /\ Hooked = [entry |-> Half.entry, patched |-> TRUE, ori |-> Half.ori]
  BY DEF Unhooked, Hooked, Half
<1>10. /\ \/ hook \in {Unhooked, Hooked} /\ at # "commit"
          \/ hook = Half /\ at = "commit" /\ left = job[t].todo
       /\ at \in {"relocate", "publish"} => hook = Unhooked /\ left = job[t].todo
       /\ at = "publish" => copy = "real"
  <2> USE <1>8, <1>9
  <2>1. \/ job[t].step = "find" /\ table[Target(t)].entry
             /\ hook = table[Target(t)] /\ at = "find"
        \/ job[t].step = "find" /\ ~table[Target(t)].entry
             /\ hook = table[Target(t)] /\ left = job[t].todo /\ at = "relocate"
        \/ job[t].step = "relocate" /\ hook = table[Target(t)] /\ left = job[t].todo
             /\ at = "publish" /\ (~table[Target(t)].patched => copy = "real")
        \/ job[t].step = "publish" /\ left = job[t].todo /\ at = "commit"
             /\ hook = [entry |-> TRUE, patched |-> table[Target(t)].patched, ori |-> job[t].copy]
        \/ job[t].step = "commit" /\ at = "find"
             /\ hook = [entry |-> table[Target(t)].entry, patched |-> TRUE,
                         ori |-> table[Target(t)].ori]
    BY <1>3 DEF Effect
  <2>2. /\ job[t].step \in {"relocate", "publish"} => table[Target(t)] = Unhooked
        /\ job[t].step = "publish" => job[t].copy = "real"
        /\ job[t].step = "commit" => table[Target(t)] = Half
    BY <1>1, <1>2 DEF SiteInv
  <2> QED
    BY <2>1, <2>2
<1>11. SiteInv'
  <2>1. \A u \in Threads : Busy(u)' => u = t
    BY <1>4, <1>5 DEF Busy
  <2>2. left = job[t].todo => Target(t)' = Target(t) /\ Busy(t)'
    BY <1>2, <1>5 DEF Target, Busy
  <2>3. \A f \in HookedSites :
          \/ table'[f] \in {Unhooked, Hooked}
          \/ table'[f] = Half /\ AtStep(t, "commit")' /\ Target(t)' = f
    BY <1>5, <1>7, <1>10, <2>2 DEF AtStep
  <2>4. Busy(t)' =>
          /\ job'[t].step \in {"relocate", "publish"} => table'[Target(t)'] = Unhooked
          /\ job'[t].step = "publish" => job'[t].copy = "real"
          /\ job'[t].step = "commit" => table'[Target(t)'] = Half
    <3>1. at \in {"relocate", "publish", "commit"} => left = job[t].todo
      BY <1>10
    <3>2. (hook \in {Unhooked, Hooked} /\ at # "commit") \/ hook = Half
      BY <1>10
    <3> QED
      BY <1>5, <1>9, <1>10, <2>2, <3>1, <3>2
  <2> QED
    BY <2>1, <2>3, <2>4 DEF SiteInv, Unhooked
<1> QED
  BY <1>6, <1>11

(* So every step keeps JobInv and SiteInv.                                  *)
LEMMA NextSites == HookInv /\ Next => JobInv' /\ SiteInv'
<1> SUFFICES ASSUME HookInv, Next PROVE JobInv' /\ SiteInv'
  OBVIOUS
<1>1. CASE Request
  BY <1>1, RequestMoves, MovesKeepSites
<1>2. ASSUME NEW t \in Threads, Install(t) PROVE JobInv' /\ SiteInv'
  BY <1>2, DobbyKeepsSites DEF Install
<1>3. ASSUME NEW t \in Threads, Other(t) PROVE JobInv' /\ SiteInv'
  BY <1>3, OtherMoves, MovesKeepSites
<1> QED
  BY <1>1, <1>2, <1>3 DEF Next, BridgeCode, Other

(* The monitor changes hands only through NoThread.                         *)
LEMMA NextMonitor == HookInv /\ Next => MonitorInv'
<1> SUFFICES ASSUME HookInv, Next PROVE MonitorInv'
  OBVIOUS
<1> USE DEF HookInv, TypeOK, MonitorInv, Goto, Release
<1>1. CASE LoadHookLibrary
  BY <1>1, NoThreadIsNoThread, MainIsThread DEF LoadHookLibrary
<1>2. ASSUME NEW p \in Packages, DoNativeHook(p) PROVE MonitorInv'
  BY <1>2, MainIsThread DEF DoNativeHook
<1>3. ASSUME NEW t \in Threads, NEW l \in Libraries, LoadLibrary(t, l) PROVE MonitorInv'
  <2>1. /\ \A u \in Threads : u # t => pc'[u] = pc[u] /\ lib'[u] = lib[u]
        /\ pc[t] = "app" /\ pc'[t] = "ori" /\ lib'[t] = l
        /\ \/ monitor = NoThread /\ monitor' = t
           \/ l = "other" /\ monitor' = monitor
    BY <1>3 DEF LoadLibrary
  <2> QED
    BY <2>1, NoThreadIsNoThread
<1>4. ASSUME NEW l \in Libraries, LoadUnseen(l) PROVE MonitorInv'
  BY <1>4 DEF LoadUnseen
<1>5. ASSUME NEW t \in Threads, Install(t) PROVE MonitorInv'
  BY <1>5 DEF Install
<1>6. ASSUME NEW t \in Threads, OpenLibdl(t) PROVE MonitorInv'
  BY <1>6 DEF OpenLibdl
<1>7. ASSUME NEW t \in Threads, InitJni(t) \/ InitJniFails(t) PROVE MonitorInv'
  BY <1>7 DEF InitJni, InitJniFails
<1>8. CASE CopyByte \/ EndNativeHook
  BY <1>8, MainIsThread DEF CopyByte, EndNativeHook
<1>9. ASSUME NEW t \in Threads, CallOriginal(t) \/ SkipFlutter(t) \/ FlutterHooked(t)
      PROVE  MonitorInv'
  BY <1>9 DEF CallOriginal, SkipFlutter, FlutterHooked
<1>10. ASSUME NEW t \in Threads, HookFlutter(t) \/ HookDu(t) PROVE MonitorInv'
  BY <1>10 DEF HookFlutter, HookDu, Watched
<1>11. ASSUME NEW t \in Threads, SkipDu(t) \/ DuHooked(t) PROVE MonitorInv'
  BY <1>11 DEF SkipDu, DuHooked, Leave
<1>12. ASSUME NEW t \in Threads, FakeDlopenFails(t) \/ LoseDu(t) \/ UseNullDu(t)
       PROVE  MonitorInv'
  BY <1>12 DEF FakeDlopenFails, LoseDu, UseNullDu
<1> QED
  BY <1>1, <1>2, <1>3, <1>4, <1>5, <1>6, <1>7, <1>8, <1>9, <1>10, <1>11, <1>12
     DEF Next, Request, BridgeCode

(* The hook table and the jobs keep their types,                            *)
LEMMA NextDobbyType == HookInv /\ Next => DobbyTypeOK'
<1> SUFFICES ASSUME HookInv, Next PROVE DobbyTypeOK'
  OBVIOUS
<1>1. ASSUME NEW t \in Threads, Moves(t) PROVE DobbyTypeOK'
  <2>1. CASE UNCHANGED <<table, job>>
    BY <2>1 DEF HookInv, TypeOK, DobbyTypeOK
  <2>2. ASSUME UNCHANGED table, NEW left \in Seq(HookedSites),
               job' = [job EXCEPT ![t] = Job(left, "find", "null")]
        PROVE  DobbyTypeOK'
    BY <2>2 DEF HookInv, TypeOK, DobbyTypeOK, Job, Steps, Origins
  <2> QED
    BY <1>1, <2>1, <2>2 DEF Moves
<1>2. ASSUME NEW t \in Threads, DobbyStep(t) PROVE DobbyTypeOK'
  <2>1. DobbyTypeOK
    BY DEF HookInv, TypeOK
  <2>2. Busy(t) /\ Target(t) \in HookedSites
    BY <1>2, <2>1, DobbyEffect
  <2>3. PICK hook \in HookType, left \in {job[t].todo, Tail(job[t].todo)},
             at \in Steps, copy \in Origins : Effect(t, hook, left, at, copy)
    BY <1>2, <2>1, DobbyEffect
  <2>4. left \in Seq(HookedSites)
    <3>1. job[t].todo \in Seq(HookedSites) /\ job[t].todo # <<>>
      BY <2>1, <2>2 DEF DobbyTypeOK, Busy
    <3>2. Tail(job[t].todo) \in Seq(HookedSites)
      BY <3>1
    <3> QED
      BY <2>3, <3>1, <3>2
  <2>5. Job(left, at, copy) \in [todo: Seq(HookedSites), step: Steps, copy: Origins]
    BY <2>4 DEF Job
  <2> QED
    BY <2>1, <2>3, <2>5 DEF DobbyTypeOK, Effect, HookType
<1>3. CASE Request
  BY <1>1, <1>3, RequestMoves
<1>4. ASSUME NEW t \in Threads, Other(t) PROVE DobbyTypeOK'
  BY <1>1, <1>4, OtherMoves
<1> QED
  BY <1>2, <1>3, <1>4 DEF Next, BridgeCode, Other, Install

(* and so do the other variables.                                           *)
LEMMA NextType == Inv /\ Next => TypeOK'
<1> SUFFICES ASSUME Inv, Next PROVE TypeOK'
  OBVIOUS
<1>1. DobbyTypeOK'
  BY NextDobbyType DEF Inv
<1> USE <1>1 DEF Inv, HookInv, TypeOK, Goto, Release, name, library, end
<1>2. \A place \in {"app", "open_libdl", "hook_dlopen", "memcpy", "ori", "package",
                    "hook_flutter", "du", "null_du", "hook_du"} : place \in Locations
  BY DEF Locations
<1>3. CASE LoadHookLibrary
  BY <1>2, <1>3, MainIsThread DEF LoadHookLibrary
<1>4. ASSUME NEW p \in Packages, DoNativeHook(p) PROVE TypeOK'
  <2>1. Append(lastPackage, p) \in Seq(Packages) /\ 0 \in 0..BufferSize
    BY BufferIsBuffer
  <2> QED
    BY <1>2, <1>4, <2>1, MainIsThread DEF DoNativeHook
<1>5. ASSUME NEW t \in Threads, NEW l \in Libraries, LoadLibrary(t, l) PROVE TypeOK'
  BY <1>2, <1>5 DEF LoadLibrary
<1>6. ASSUME NEW l \in Libraries, LoadUnseen(l) PROVE TypeOK'
  BY <1>6 DEF LoadUnseen
<1>7. ASSUME NEW t \in Threads, Install(t) PROVE TypeOK'
  BY <1>7 DEF Install
<1>8. ASSUME NEW t \in Threads, OpenLibdl(t) PROVE TypeOK'
  BY <1>2, <1>8 DEF OpenLibdl
<1>9. ASSUME NEW t \in Threads, InitJni(t) \/ InitJniFails(t) PROVE TypeOK'
  BY <1>2, <1>9 DEF InitJni, InitJniFails
<1>10. CASE CopyByte
  <2>1. /\ lastPackage # <<>> /\ copied < CopyLength(Last)
    BY <1>10 DEF CopyByte, BytesInv
  <2>2. Last \in Packages
    BY <2>1 DEF Last
  <2>3. copied + 1 \in 0..BufferSize
    BY <2>1, <2>2, CopyLengthType, BufferIsBuffer
  <2>4. [package_name EXCEPT ![copied] = Last] \in [Bytes -> Packages \cup {"nul"}]
    BY <2>2
  <2> QED
    BY <1>10, <2>3, <2>4 DEF CopyByte
<1>11. CASE EndNativeHook
  BY <1>2, <1>11, MainIsThread DEF EndNativeHook
<1>12. ASSUME NEW t \in Threads, CallOriginal(t) PROVE TypeOK'
  <2>1. lib[t] \in Libraries
    OBVIOUS
  <2> QED
    BY <1>2, <1>12, <2>1 DEF CallOriginal
<1>13. ASSUME NEW t \in Threads, SkipFlutter(t) \/ FlutterHooked(t) PROVE TypeOK'
  BY <1>2, <1>13 DEF SkipFlutter, FlutterHooked
<1>14. ASSUME NEW t \in Threads, HookFlutter(t) \/ HookDu(t) PROVE TypeOK'
  BY <1>2, <1>14 DEF HookFlutter, HookDu
<1>15. ASSUME NEW t \in Threads, SkipDu(t) \/ DuHooked(t) PROVE TypeOK'
  BY <1>2, <1>15 DEF SkipDu, DuHooked, Leave, Libraries
<1>16. ASSUME NEW t \in Threads, FakeDlopenFails(t) \/ LoseDu(t) \/ UseNullDu(t)
       PROVE  TypeOK'
  BY <1>2, <1>16 DEF FakeDlopenFails, LoseDu, UseNullDu
<1> QED
  BY <1>3, <1>4, <1>5, <1>6, <1>7, <1>8, <1>9, <1>10, <1>11, <1>12, <1>13, <1>14, <1>15,
     <1>16 DEF Next, Request, BridgeCode

-----------------------------------------------------------------------------

(* A thread at hook_du wants functions of libdu.so only, and what it has    *)
(* been through in a call of DobbyHook, it does not want again.             *)
LEMMA DuTargets ==
  ASSUME NEW left \in Remaining("hook_du"), left # <<>>
  PROVE  /\ Head(left) \in DuSites
         /\ \A f \in DuSites :
              (\E i \in DOMAIN left : left[i] = f) =>
                f = Head(left) \/ \E i \in DOMAIN Tail(left) : Tail(left)[i] = f
<1>1. left \in Seq(DuSites)
  <2>1. /\ "decstr" \in DuSites /\ "query" \in DuSites
        /\ "query_internal" \in DuSites /\ "query_internal_x" \in DuSites
    BY DEF DuSites
  <2>2. /\ Tail(DuOrder) = <<"query", "query_internal", "query_internal_x">>
        /\ Tail(Tail(DuOrder)) = <<"query_internal", "query_internal_x">>
        /\ Tail(Tail(Tail(DuOrder))) = <<"query_internal_x">>
    BY DEF DuOrder
  <2>3. /\ DuOrder \in Seq(DuSites) /\ Tail(DuOrder) \in Seq(DuSites)
        /\ Tail(Tail(DuOrder)) \in Seq(DuSites)
        /\ Tail(Tail(Tail(DuOrder))) \in Seq(DuSites)
        /\ <<>> \in Seq(DuSites)
    BY <2>1, <2>2 DEF DuOrder
  <2>4. left \in {DuOrder, Tail(DuOrder), Tail(Tail(DuOrder)), Tail(Tail(Tail(DuOrder))), <<>>}
    BY Zenon DEF Remaining
  <2> QED
    BY <2>3, <2>4
<1>2. Head(left) \in DuSites
  <2>1. left \in {DuOrder, Tail(DuOrder), Tail(Tail(DuOrder)), Tail(Tail(Tail(DuOrder))), <<>>}
    BY Zenon DEF Remaining
  <2> QED
    BY <2>1 DEF DuOrder, DuSites
<1>3. ASSUME NEW i \in DOMAIN left
      PROVE  left[i] = Head(left) \/ \E j \in DOMAIN Tail(left) : Tail(left)[j] = left[i]
  <2>1. CASE i = 1
    BY <1>1, <2>1
  <2>2. CASE i # 1
    <3>1. i - 1 \in DOMAIN Tail(left) /\ Tail(left)[i - 1] = left[i]
      BY <1>1, <2>2
    <3> QED
      BY <3>1
  <2> QED
    BY <2>1, <2>2
<1> QED
  BY <1>2, <1>3

(* What the other steps leave to a thread that hooks libdu.so.              *)
KeepsDu ==
  /\ UNCHANGED <<table, du_ctx>>
  /\ \A u \in Threads :
       /\ pc'[u] = "hook_du" => pc[u] = "hook_du"
       /\ pc[u] = "hook_du" /\ Busy(u) => pc'[u] = "hook_du" /\ job'[u] = job[u]
       /\ pc[u] = "null_du" => pc'[u] = "null_du"

(* fake_dlopen_ext sets du_ctx before it hooks, and a failed dlopen, which  *)
(* makes it null again, ends the process.                                   *)
LEMMA NextDu == Inv /\ Next => DuInv'
<1> SUFFICES ASSUME Inv, Next PROVE DuInv'
  OBVIOUS
<1>2. KeepsDu => DuInv'
  <2> SUFFICES ASSUME KeepsDu PROVE DuInv'
    OBVIOUS
  <2>1. du_ctx' = "null" => NoDuYet' \/ DuLost'
    BY DEF KeepsDu, Inv, DuInv, NoDuYet, DuLost, Unhooked
  <2>2. ASSUME du_ctx' = "ctx", NEW f \in DuSites, table'[f] # Hooked
        PROVE  \E t \in Threads : pc'[t] = "hook_du" /\ Wants(t, f)'
    <3>1. PICK t \in Threads : pc[t] = "hook_du" /\ Wants(t, f)
      BY <2>2 DEF KeepsDu, Inv, DuInv
    <3>2. Busy(t)
      BY <3>1 DEF Wants, Busy
    <3>3. pc'[t] = "hook_du" /\ job'[t] = job[t]
      BY <3>1, <3>2 DEF KeepsDu
    <3>4. Wants(t, f)'
      BY <3>1, <3>3 DEF Wants
    <3> QED
      BY <3>3, <3>4
  <2> QED
    BY <2>1, <2>2 DEF DuInv, Unhooked
<1>3. ASSUME NEW t \in Threads, Install(t) PROVE DuInv'
  <2>1. DobbyTypeOK /\ MonitorInv /\ JobInv /\ SiteInv /\ DobbyStep(t)
        /\ UNCHANGED <<pc, du_ctx, crashed>>
    BY <1>3 DEF Inv, HookInv, TypeOK, Install, end
  <2>2. Busy(t) /\ Target(t) \in HookedSites
    BY <2>1, DobbyEffect
  <2>3. PICK hook \in HookType, left \in {job[t].todo, Tail(job[t].todo)},
             at \in Steps, copy \in Origins : Effect(t, hook, left, at, copy)
    BY <2>1, DobbyEffect
  <2>4. /\ \A u \in Threads : u # t => job'[u] = job[u]
        /\ job'[t].todo = left
        /\ \A f \in HookedSites : f # Target(t) => table'[f] = table[f]
        /\ table'[Target(t)] = hook
    <3>1. /\ job' = [job EXCEPT ![t] = Job(left, at, copy)]
          /\ table' = [table EXCEPT ![Target(t)] = hook]
      BY <2>3 DEF Effect
    <3> QED
      BY <2>1, <2>2, <3>1 DEF DobbyTypeOK, Job
  <2>5. pc[t] \in {"hook_dlopen", "hook_flutter", "hook_du"}
    BY <2>1, <2>2, BusyPlace
  <2>6. DuSites \subseteq HookedSites
    BY DEF HookedSites
  <2>7. CASE pc[t] # "hook_du"
    <3>1. Target(t) \notin DuSites
      <4>1. CASE pc[t] = "hook_dlopen"
        <5>1. job[t].todo \in {<<"android_dlopen_ext">>, <<>>}
          BY <2>1, <4>1, Zenon DEF JobInv, Remaining
        <5> QED
          BY <2>2, <5>1 DEF Busy, Target, DuSites
      <4>2. CASE pc[t] = "hook_flutter"
        <5>1. Remaining("hook_flutter") = {<<"flutter">>, <<>>}
          BY Zenon DEF Remaining
        <5> QED
          BY <2>1, <2>2, <4>2, <5>1 DEF JobInv, Busy, Target, DuSites
      <4> QED
        BY <2>5, <2>7, <4>1, <4>2
    <3>2. \A f \in DuSites : table'[f] = table[f]
      BY <2>4, <2>6, <3>1
    <3>3. \A u \in Threads, f \in DuSites : pc[u] = "hook_du" /\ Wants(u, f) => Wants(u, f)'
      BY <2>4, <2>7 DEF Wants
    <3> QED
      BY <2>1, <3>2, <3>3 DEF Inv, DuInv, NoDuYet, DuLost, Unhooked
  <2>8. CASE pc[t] = "hook_du"
    <3>1. du_ctx = "ctx"
      <4>1. ~DuLost
        BY <2>8 DEF Inv, HookInv, MonitorInv, DuLost
      <4> QED
        BY <2>8, <4>1 DEF Inv, HookInv, TypeOK, DuInv, NoDuYet
    <3>2. /\ job[t].todo \in Remaining("hook_du") /\ job[t].todo # <<>>
          /\ Head(job[t].todo) = Target(t)
      BY <2>1, <2>2, <2>8 DEF JobInv, Busy, Target
    <3>3. Target(t) \in DuSites
      BY <3>2, DuTargets
    <3>4. left = Tail(job[t].todo) /\ left # job[t].todo => hook = Hooked
      <4>1. SUFFICES ASSUME left # job[t].todo PROVE hook = Hooked
        OBVIOUS
      <4>2. \/ job[t].step = "find" /\ table[Target(t)].entry /\ hook = table[Target(t)]
            \/ /\ job[t].step = "commit"
               /\ hook = [entry |-> table[Target(t)].entry, patched |-> TRUE,
                          ori |-> table[Target(t)].ori]
        BY <2>3, <4>1 DEF Effect
      <4>3. job[t].step = "commit" => table[Target(t)] = Half
        BY <2>1, <2>2 DEF SiteInv
      <4>4. ASSUME job[t].step = "find" PROVE table[Target(t)] \in {Unhooked, Hooked}
        <5>1. SUFFICES ASSUME NEW u \in Threads, AtStep(u, "commit") PROVE FALSE
          BY <2>1, <2>2 DEF SiteInv
        <5>2. u # t /\ Busy(u)
          BY <4>4, <5>1 DEF AtStep
        <5>3. monitor = u /\ monitor = t
          BY <2>1, <2>2, <5>2, BusyPlace
        <5> QED
          BY <5>2, <5>3
      <4> QED
        BY <4>2, <4>3, <4>4 DEF Half, Hooked, Unhooked
    <3>5. ASSUME NEW f \in DuSites, table'[f] # Hooked
          PROVE  \E u \in Threads : pc'[u] = "hook_du" /\ Wants(u, f)'
      <4>1. CASE f = Target(t)
        <5>1. left = job[t].todo
          BY <2>3, <2>4, <3>4, <3>5, <4>1
        <5>2. 1 \in DOMAIN left /\ left[1] = f
          <6>1. job[t].todo \in Seq(HookedSites)
            BY <2>1 DEF DobbyTypeOK
          <6> QED
            BY <3>2, <4>1, <5>1, <6>1
        <5>3. Wants(t, f)'
          BY <2>4, <5>2 DEF Wants
        <5> QED
          BY <2>1, <2>8, <5>3
      <4>2. CASE f # Target(t)
        <5>1. table[f] # Hooked
          BY <2>4, <2>6, <3>5, <4>2
        <5>2. PICK u \in Threads : pc[u] = "hook_du" /\ Wants(u, f)
          BY <3>1, <5>1 DEF Inv, DuInv
        <5>3. CASE u # t
          <6>1. Wants(u, f)'
            BY <2>4, <5>2, <5>3 DEF Wants
          <6> QED
            BY <2>1, <5>2, <6>1
        <5>4. CASE u = t
          <6>1. \E i \in DOMAIN left : left[i] = f
            BY <2>3, <3>2, <4>2, <5>2, <5>4, DuTargets DEF Wants
          <6>2. Wants(t, f)'
            BY <2>4, <6>1 DEF Wants
          <6> QED
            BY <2>1, <2>8, <6>2
        <5> QED
          BY <5>3, <5>4
      <4> QED
        BY <4>1, <4>2
    <3> QED
      BY <2>1, <3>1, <3>5 DEF DuInv
  <2> QED
    BY <2>7, <2>8
<1>4. ASSUME NEW t \in Threads, HookDu(t) PROVE DuInv'
  <2>1. /\ du_ctx' = "ctx" /\ pc'[t] = "hook_du" /\ job'[t] = Job(DuOrder, "find", "null")
    BY <1>4 DEF HookDu, Goto, StartJob, Inv, HookInv, TypeOK, DobbyTypeOK
  <2>2. \A f \in DuSites : \E i \in DOMAIN DuOrder : DuOrder[i] = f
    <3>1. /\ DOMAIN DuOrder = 1..4 /\ DuOrder[1] = "decstr" /\ DuOrder[2] = "query"
          /\ DuOrder[3] = "query_internal" /\ DuOrder[4] = "query_internal_x"
      BY DEF DuOrder
    <3> QED
      BY <3>1 DEF DuSites
  <2>3. \A f \in DuSites : Wants(t, f)'
    BY <2>1, <2>2 DEF Wants, Job
  <2> QED
    BY <2>1, <2>3 DEF DuInv
<1>5. /\ DobbyTypeOK /\ MainIsThread
      /\ pc \in [Threads -> Locations]
  BY MainIsThread DEF Inv, HookInv, TypeOK
<1>12. ASSUME NEW t \in Threads, UNCHANGED <<table, du_ctx>>,
              pc[t] = "null_du" => UNCHANGED pc,
              pc[t] = "hook_du" => ~Busy(t) \/ UNCHANGED <<pc, job>>,
              pc'[t] = "hook_du" => pc[t] = "hook_du",
              \A u \in Threads : u # t => pc'[u] = pc[u] /\ job'[u] = job[u]
       PROVE  DuInv'
  <2>1. ASSUME NEW u \in Threads
        PROVE  /\ pc'[u] = "hook_du" => pc[u] = "hook_du"
               /\ pc[u] = "hook_du" /\ Busy(u) => pc'[u] = "hook_du" /\ job'[u] = job[u]
               /\ pc[u] = "null_du" => pc'[u] = "null_du"
    <3>1. CASE u = t
      BY <1>12, <3>1
    <3>2. CASE u # t
      BY <1>12, <3>2
    <3> QED
      BY <3>1, <3>2
  <2>2. KeepsDu
    BY <1>12, <2>1, Zenon DEF KeepsDu
  <2> QED
    BY <1>2, <2>2
<1>13. ASSUME NEW t \in Threads, NEW place,
              pc[t] \notin {"hook_du", "null_du"}, place # "hook_du",
              UNCHANGED <<table, du_ctx>>, pc' = [pc EXCEPT ![t] = place],
              \A u \in Threads : u # t => job'[u] = job[u]
       PROVE  DuInv'
  BY <1>5, <1>12, <1>13
<1>14. UNCHANGED <<table, job, pc, du_ctx>> => DuInv'
  BY <1>12, MainIsThread
<1> USE DEF Goto, end, dobby
<1>6. CASE Request
  <2>1. CASE LoadHookLibrary
    BY <1>13, <2>1, MainIsThread DEF LoadHookLibrary
  <2>2. ASSUME NEW p \in Packages, DoNativeHook(p) PROVE DuInv'
    BY <1>13, <2>2, MainIsThread DEF DoNativeHook
  <2>3. ASSUME NEW t \in Threads, NEW l \in Libraries, LoadLibrary(t, l) PROVE DuInv'
    BY <1>13, <2>3 DEF LoadLibrary
  <2>4. ASSUME NEW l \in Libraries, LoadUnseen(l) PROVE DuInv'
    BY <1>14, <2>4 DEF LoadUnseen
  <2> QED
    BY <1>6, <2>1, <2>2, <2>3, <2>4 DEF Request
<1>7. ASSUME NEW t \in Threads, OpenLibdl(t) PROVE DuInv'
  <2>1. /\ UNCHANGED <<table, du_ctx>>
        /\ pc[t] \notin {"hook_du", "null_du"} /\ pc'[t] # "hook_du"
        /\ \A u \in Threads : u # t => pc'[u] = pc[u] /\ job'[u] = job[u]
    BY <1>5, <1>7 DEF OpenLibdl, StartJob, DobbyTypeOK
  <2> QED
    BY <1>12, <2>1
<1>8. ASSUME NEW t \in Threads, HookFlutter(t) PROVE DuInv'
  <2>1. \A u \in Threads : u # t => job'[u] = job[u]
    BY <1>5, <1>8 DEF HookFlutter, StartJob, DobbyTypeOK
  <2> QED
    BY <1>13, <1>8, <2>1 DEF HookFlutter
<1>9. ASSUME NEW t \in Threads,
             InitJni(t) \/ SkipFlutter(t) \/ FlutterHooked(t) \/ SkipDu(t)
      PROVE  DuInv'
  <2>1. PICK place \in {"app", "du"} : pc' = [pc EXCEPT ![t] = place]
    BY <1>9 DEF InitJni, SkipFlutter, FlutterHooked, SkipDu, Leave
  <2>2. pc[t] \notin {"hook_du", "null_du"} /\ UNCHANGED <<table, du_ctx, job>>
    BY <1>9 DEF InitJni, SkipFlutter, FlutterHooked, SkipDu, Leave
  <2> QED
    BY <1>13, <2>1, <2>2
<1>10. ASSUME NEW t \in Threads, DuHooked(t) PROVE DuInv'
  <2>1. /\ pc[t] # "null_du" /\ pc' = [pc EXCEPT ![t] = "app"] /\ ~Busy(t)
        /\ UNCHANGED <<table, job, du_ctx>>
    BY <1>10 DEF DuHooked, Leave
  <2>2. pc'[t] = "app" /\ \A u \in Threads : u # t => pc'[u] = pc[u]
    BY <1>5, <2>1
  <2> QED
    BY <1>12, <2>1, <2>2
<1>11. ASSUME NEW t \in Threads, InitJniFails(t) \/ CallOriginal(t) PROVE DuInv'
  <2>1. CASE UNCHANGED pc
    BY <1>11, <1>14, <2>1 DEF InitJniFails, CallOriginal
  <2>2. CASE Goto(t, "ori", "package")
    BY <1>11, <1>13, <2>2 DEF InitJniFails, CallOriginal
  <2> QED
    BY <1>11, <2>1, <2>2 DEF InitJniFails, CallOriginal
<1>15. CASE CopyByte \/ EndNativeHook
  <2>1. CASE CopyByte
    BY <1>14, <2>1 DEF CopyByte
  <2>2. CASE EndNativeHook
    BY <1>13, <2>2, MainIsThread DEF EndNativeHook
  <2> QED
    BY <1>15, <2>1, <2>2
<1>16. ASSUME NEW t \in Threads, FakeDlopenFails(t) \/ UseNullDu(t) PROVE DuInv'
  BY <1>14, <1>16 DEF FakeDlopenFails, UseNullDu
<1>17. ASSUME NEW t \in Threads, LoseDu(t) PROVE DuInv'
  BY <1>5, <1>17 DEF LoseDu, DuInv, DuLost
<1> QED
  BY <1>3, <1>4, <1>6, <1>7, <1>8, <1>9, <1>10, <1>11, <1>15, <1>16, <1>17
     DEF Next, BridgeCode

-----------------------------------------------------------------------------

(* The Flutter function is hooked by a thread that read likeread's name in  *)
(* package_name, byte for byte.                                             *)
LEMMA ReadsTold ==
  ASSUME BytesInv, Reads(Likeread)
  PROVE  Told(Likeread)
<1>1. NameLength[Likeread] \in Nat /\ NameLength[Likeread] > 0 /\ NameLength[Likeread] < BufferSize
  BY CopyLengthType, LikereadIsPackage DEF Reads
<1>2. 0 \in Bytes /\ package_name[0] = Likeread
  BY <1>1, BufferIsBuffer DEF Reads, Bytes
<1>3. Likeread # "nul"
  BY NulIsNoPackage, LikereadIsPackage
<1> QED
  BY <1>2, <1>3 DEF BytesInv, Told

(* Who enters hook_flutter has read likeread's name.                        *)
LEMMA NextFlutter == Inv /\ Next => FlutterInv'
<1> SUFFICES ASSUME Inv, Next PROVE FlutterInv'
  OBVIOUS
<1>1. Told(Likeread) => Told(Likeread)'
  <2>1. CASE UNCHANGED lastPackage
    BY <2>1 DEF Told
  <2>2. ASSUME NEW p \in Packages, lastPackage' = Append(lastPackage, p)
        PROVE  Told(Likeread) => Told(Likeread)'
    <3>1. \A i \in DOMAIN lastPackage :
            i \in DOMAIN lastPackage' /\ lastPackage'[i] = lastPackage[i]
      BY <2>2 DEF Inv, HookInv, TypeOK
    <3> QED
      BY <3>1 DEF Told
  <2> QED
    BY <2>1, <2>2 DEF Next, Request, LoadHookLibrary, DoNativeHook, LoadLibrary, LoadUnseen,
       BridgeCode, OpenLibdl, InitJni, InitJniFails, CopyByte, EndNativeHook, CallOriginal,
       HookFlutter, SkipFlutter, FlutterHooked, HookDu, SkipDu, DuHooked, FakeDlopenFails,
       LoseDu, UseNullDu, Install, name
<1>2. \A t \in Threads : pc'[t] = "hook_flutter" => Told(Likeread)
  <2>1. SUFFICES ASSUME NEW t \in Threads, pc'[t] = "hook_flutter", pc[t] # "hook_flutter"
                 PROVE  Told(Likeread)
    BY DEF Inv, FlutterInv
  <2>2. pc \in [Threads -> Locations]
    BY DEF Inv, HookInv, TypeOK
  <2>3. HookFlutter(t)
    BY <2>1, <2>2, MainIsThread
       DEF Next, Request, LoadHookLibrary, DoNativeHook, LoadLibrary, LoadUnseen,
       BridgeCode, OpenLibdl, InitJni, InitJniFails, CopyByte, EndNativeHook, CallOriginal,
       HookFlutter, SkipFlutter, FlutterHooked, HookDu, SkipDu, DuHooked, FakeDlopenFails,
       LoseDu, UseNullDu, Install, Goto, Leave
  <2> QED
    BY <2>3, ReadsTold DEF HookFlutter, Watched, Inv
<1>3. table'["flutter"].entry => table["flutter"].entry \/ \E t \in Threads : pc[t] = "hook_flutter"
  <2>1. CASE UNCHANGED table
    BY <2>1
  <2>2. ASSUME NEW t \in Threads, Install(t), pc[t] # "hook_flutter"
        PROVE  table'["flutter"] = table["flutter"]
    <3>1. DobbyTypeOK /\ MonitorInv /\ JobInv /\ DobbyStep(t)
      BY <2>2 DEF Inv, HookInv, TypeOK, Install
    <3>2. Busy(t) /\ Target(t) \in HookedSites
      BY <3>1, DobbyEffect
    <3>3. PICK hook \in HookType : table' = [table EXCEPT ![Target(t)] = hook]
      BY <3>1, DobbyEffect DEF Effect
    <3>4. Target(t) # "flutter"
      <4>1. CASE pc[t] = "hook_dlopen"
        <5>1. job[t].todo \in {<<"android_dlopen_ext">>, <<>>}
          BY <3>1, <4>1, Zenon DEF JobInv, Remaining
        <5> QED
          BY <3>2, <5>1 DEF Busy, Target
      <4>2. CASE pc[t] = "hook_du"
        <5>1. Target(t) \in DuSites
          BY <3>1, <3>2, <4>2, DuTargets DEF JobInv, Busy, Target
        <5> QED
          BY <5>1 DEF DuSites
      <4> QED
        BY <2>2, <3>1, <3>2, <4>1, <4>2, BusyPlace
    <3> QED
      BY <3>1, <3>3, <3>4 DEF DobbyTypeOK, HookedSites
  <2>3. UNCHANGED table \/ \E t \in Threads : Install(t)
    BY DEF Next, Request, LoadHookLibrary, DoNativeHook, LoadLibrary, LoadUnseen,
       BridgeCode, OpenLibdl, InitJni, InitJniFails, CopyByte, EndNativeHook, CallOriginal,
       HookFlutter, SkipFlutter, FlutterHooked, HookDu, SkipDu, DuHooked, FakeDlopenFails,
       LoseDu, UseNullDu, dobby
  <2> QED
    BY <2>1, <2>2, <2>3
<1> QED
  BY <1>1, <1>2, <1>3 DEF Inv, FlutterInv

-----------------------------------------------------------------------------

(* What of package_name and doNativeHook a step outside it leaves alone.    *)
LEMMA NextBytes == Inv /\ Next => BytesInv'
<1> SUFFICES ASSUME Inv, Next PROVE BytesInv'
  OBVIOUS
<1>1. /\ lastPackage \in Seq(Packages) /\ Len(lastPackage) \in Nat
      /\ DOMAIN lastPackage = 1..Len(lastPackage)
      /\ copied \in Nat /\ Bytes = 0..(BufferSize - 1)
      /\ pc \in [Threads -> Locations]
      /\ package_name \in [Bytes -> Packages \cup {"nul"}]
      /\ \A j \in DOMAIN lastPackage : lastPackage[j] \in Packages
  BY DEF Inv, HookInv, TypeOK, Bytes
<1>2. CASE UNCHANGED name /\ (pc'[Main] = "memcpy" <=> pc[Main] = "memcpy")
  <2>1. \A j \in DOMAIN lastPackage : Written(j)' = Written(j)
    BY <1>2 DEF Written, name
  <2> QED
    BY <1>2, <2>1 DEF Inv, BytesInv, name, Last
<1>3. ASSUME NEW p \in Packages, DoNativeHook(p) PROVE BytesInv'
  <2>1. /\ pc[Main] = "app" /\ pc'[Main] = "memcpy" /\ copied' = 0
        /\ lastPackage' = Append(lastPackage, p) /\ UNCHANGED package_name
    BY <1>1, <1>3, MainIsThread DEF DoNativeHook, Goto
  <2>2. /\ Len(lastPackage') = Len(lastPackage) + 1 /\ DOMAIN lastPackage' = 1..Len(lastPackage')
        /\ lastPackage' # <<>> /\ lastPackage'[Len(lastPackage')] = p
        /\ \A j \in DOMAIN lastPackage :
             j \in DOMAIN lastPackage' /\ lastPackage'[j] = lastPackage[j]
    BY <1>1, <2>1
  <2>3. \A j \in DOMAIN lastPackage' : j \notin DOMAIN lastPackage => Written(j)' = 0
    BY <1>1, <2>1, <2>2 DEF Written
  <2>4. ASSUME NEW j \in DOMAIN lastPackage PROVE Written(j)' = Written(j)
    <3>1. j # Len(lastPackage')
      BY <1>1, <2>2
    <3> QED
      BY <2>1, <2>2, <3>1 DEF Written
  <2>5. ASSUME NEW i \in Bytes
        PROVE  \/ package_name'[i] = "nul" /\ \A j \in DOMAIN lastPackage' : Written(j)' <= i
               \/ \E j \in DOMAIN lastPackage' :
                    /\ package_name'[i] = lastPackage'[j] /\ i < Written(j)'
                    /\ \A k \in DOMAIN lastPackage' : j < k => Written(k)' <= i
    <3>1. 0 <= i
      BY <1>1
    <3>2. CASE package_name[i] = "nul" /\ \A j \in DOMAIN lastPackage : Written(j) <= i
      BY <2>1, <2>3, <2>4, <3>1, <3>2
    <3>3. ASSUME NEW j \in DOMAIN lastPackage,
                 package_name[i] = lastPackage[j], i < Written(j),
                 \A k \in DOMAIN lastPackage : j < k => Written(k) <= i
          PROVE  /\ j \in DOMAIN lastPackage' /\ package_name'[i] = lastPackage'[j]
                 /\ i < Written(j)'
                 /\ \A k \in DOMAIN lastPackage' : j < k => Written(k)' <= i
      BY <2>1, <2>2, <2>3, <2>4, <3>1, <3>3
    <3> QED
      BY <3>2, <3>3 DEF Inv, BytesInv
  <2>6. lastPackage' # <<>> /\ copied' <= CopyLength(Last')
    BY <2>1, <2>2, CopyLengthType DEF Last
  <2> QED
    BY <2>5, <2>6 DEF BytesInv, Last, CopyLength
<1>4. CASE CopyByte
  <2>1. /\ pc[Main] = "memcpy" /\ copied < CopyLength(Last) /\ copied' = copied + 1
        /\ package_name' = [package_name EXCEPT ![copied] = Last]
        /\ UNCHANGED <<lastPackage, pc>> /\ lastPackage # <<>>
    BY <1>4 DEF CopyByte, Inv, BytesInv
  <2> PICK n \in DOMAIN lastPackage : n = Len(lastPackage)
    BY <1>1, <2>1
  <2>2. Last = lastPackage[n] /\ Last \in Packages
    BY <1>1 DEF Last
  <2>3. copied \in Bytes /\ copied' <= CopyLength(Last)
    BY <1>1, <2>1, <2>2, CopyLengthType, BufferIsBuffer
  <2>4. Written(n) = copied /\ Written(n)' = copied + 1
    BY <2>1 DEF Written
  <2>5. \A j \in DOMAIN lastPackage : j # n => Written(j)' = Written(j)
    BY <2>1 DEF Written, CopyLength
  <2>6. ASSUME NEW i \in Bytes
        PROVE  \/ package_name'[i] = "nul" /\ \A j \in DOMAIN lastPackage : Written(j)' <= i
               \/ \E j \in DOMAIN lastPackage :
                    /\ package_name'[i] = lastPackage[j] /\ i < Written(j)'
                    /\ \A k \in DOMAIN lastPackage : j < k => Written(k)' <= i
    <3>1. CASE i = copied
      <4>1. package_name'[i] = lastPackage[n] /\ i < Written(n)'
        BY <1>1, <2>1, <2>2, <2>3, <2>4, <3>1
      <4>2. \A k \in DOMAIN lastPackage : ~(n < k)
        BY <1>1
      <4> QED
        BY <2>2, <4>1, <4>2
    <3>2. CASE i # copied
      <4>1. package_name'[i] = package_name[i]
        BY <1>1, <2>1, <3>2
      <4>2. /\ (Written(n) <= i <=> Written(n)' <= i)
            /\ (i < Written(n) <=> i < Written(n)')
        BY <1>1, <2>4, <3>2
      <4>3. \A j \in DOMAIN lastPackage :
              (Written(j) <= i <=> Written(j)' <= i) /\ (i < Written(j) <=> i < Written(j)')
        BY <2>5, <4>2
      <4> QED
        BY <4>1, <4>3 DEF Inv, BytesInv
    <3> QED
      BY <3>1, <3>2
  <2>7. lastPackage' # <<>> /\ copied' <= CopyLength(Last)'
    BY <2>1, <2>3 DEF Last, CopyLength
  <2> QED
    BY <2>1, <2>6, <2>7 DEF BytesInv
<1>5. CASE EndNativeHook
  <2>1. /\ pc[Main] = "memcpy" /\ pc'[Main] = "app" /\ copied = CopyLength(Last)
        /\ UNCHANGED <<lastPackage, package_name, copied>>
    BY <1>1, <1>5, MainIsThread DEF EndNativeHook, Goto, name
  <2>2. \A j \in DOMAIN lastPackage : Written(j)' = Written(j)
    BY <2>1 DEF Written, Last, CopyLength
  <2> QED
    BY <2>1, <2>2 DEF Inv, BytesInv
<1>6. CASE LoadHookLibrary
  BY <1>1, <1>2, <1>6, MainIsThread DEF LoadHookLibrary, Goto
<1>7. ASSUME NEW t \in Threads, NEW l \in Libraries, LoadLibrary(t, l) PROVE BytesInv'
  BY <1>1, <1>2, <1>7, MainIsThread DEF LoadLibrary, Goto
<1>8. ASSUME NEW l \in Libraries, LoadUnseen(l) PROVE BytesInv'
  BY <1>2, <1>8 DEF LoadUnseen
<1>9. ASSUME NEW t \in Threads,
             OpenLibdl(t) \/ InitJni(t) \/ InitJniFails(t) \/ CallOriginal(t)
      PROVE  BytesInv'
  BY <1>1, <1>2, <1>9, MainIsThread DEF OpenLibdl, InitJni, InitJniFails, CallOriginal, Goto
<1>10. ASSUME NEW t \in Threads, HookFlutter(t) \/ SkipFlutter(t) \/ FlutterHooked(t)
       PROVE  BytesInv'
  BY <1>1, <1>2, <1>10, MainIsThread DEF HookFlutter, SkipFlutter, FlutterHooked, Goto
<1>11. ASSUME NEW t \in Threads, HookDu(t) \/ SkipDu(t) \/ DuHooked(t) PROVE BytesInv'
  BY <1>1, <1>2, <1>11, MainIsThread DEF HookDu, SkipDu, DuHooked, Leave, Goto
<1>12. ASSUME NEW t \in Threads, FakeDlopenFails(t) \/ UseNullDu(t) \/ Install(t)
       PROVE  BytesInv'
  BY <1>2, <1>12 DEF FakeDlopenFails, UseNullDu, Install
<1>13. ASSUME NEW t \in Threads, LoseDu(t) PROVE BytesInv'
  BY <1>1, <1>2, <1>13, MainIsThread DEF LoseDu, Goto
<1> QED
  BY <1>3, <1>4, <1>5, <1>6, <1>7, <1>8, <1>9, <1>10, <1>11, <1>12, <1>13
     DEF Next, Request, BridgeCode

-----------------------------------------------------------------------------

(* NativeBridge's steps never unpatch a function.                           *)
LEMMA PatchesStay ==
  ASSUME DobbyTypeOK, Next, NEW f \in HookedSites, table[f].patched
  PROVE  table'[f].patched
<1>1. CASE UNCHANGED table
  BY <1>1
<1>2. ASSUME NEW t \in Threads, DobbyStep(t) PROVE table'[f].patched
  <2>1. PICK hook \in HookType : /\ table' = [table EXCEPT ![Target(t)] = hook]
                                 /\ table[Target(t)].patched => hook.patched
    BY <1>2, DobbyEffect DEF Effect
  <2> QED
    BY <2>1 DEF DobbyTypeOK
<1> QED
  BY <1>1, <1>2
     DEF Next, Request, LoadHookLibrary, DoNativeHook, LoadLibrary, LoadUnseen,
     BridgeCode, OpenLibdl, InitJni, InitJniFails, CopyByte, EndNativeHook, CallOriginal,
     HookFlutter, SkipFlutter, FlutterHooked, HookDu, SkipDu, DuHooked, FakeDlopenFails,
     LoseDu, UseNullDu, Install, dobby

(* A patched function is hooked completely.                                 *)
LEMMA PatchedIsHooked ==
  ASSUME SiteInv, NEW f \in HookedSites, table[f].patched
  PROVE  table[f] = Hooked
  BY DEF SiteInv, Unhooked, Half

(* A thread in fake_dlopen_ext came through a patch, which stays.           *)
LEMMA NextCall == Inv /\ Next => CallInv'
<1> SUFFICES ASSUME Inv, Next PROVE CallInv'
  OBVIOUS
<1>1. table["android_dlopen_ext"].patched => table'["android_dlopen_ext"].patched
  BY PatchesStay DEF Inv, HookInv, TypeOK, HookedSites
<1>2. \A t \in Threads : pc'[t] = "ori" => pc[t] = "ori" \/ table["android_dlopen_ext"].patched
  <2>1. pc \in [Threads -> Locations]
    BY DEF Inv, HookInv, TypeOK
  <2> QED
    BY <2>1, MainIsThread
       DEF Next, Request, LoadHookLibrary, DoNativeHook, LoadLibrary, LoadUnseen,
       BridgeCode, OpenLibdl, InitJni, InitJniFails, CopyByte, EndNativeHook, CallOriginal,
       HookFlutter, SkipFlutter, FlutterHooked, HookDu, SkipDu, DuHooked, FakeDlopenFails,
       LoseDu, UseNullDu, Install, Goto, Leave
<1> QED
  BY <1>1, <1>2 DEF Inv, CallInv

(* The original of android_dlopen_ext is real for every thread that calls   *)
(* it, so that only a failed open can end the process.                      *)
LEMMA NextCrash == Inv /\ Next => CrashNeedsFailedOpen' /\ LostInv'
<1> SUFFICES ASSUME Inv, Next PROVE CrashNeedsFailedOpen' /\ LostInv'
  OBVIOUS
<1>1. ~crashed
  BY DEF Next, Request, BridgeCode
<1>2. ASSUME NEW t \in Threads, CallOriginal(t) PROVE UNCHANGED crashed
  <2>1. pc[t] = "ori"
    BY <1>2 DEF CallOriginal, Goto
  <2>2. table["android_dlopen_ext"].patched
    BY <2>1 DEF Inv, CallInv
  <2>3. table["android_dlopen_ext"] \in {Unhooked, Hooked, Half}
    BY DEF Inv, HookInv, SiteInv, HookedSites
  <2>4. table["android_dlopen_ext"].ori = "real"
    BY <2>2, <2>3 DEF Unhooked, Hooked, Half
  <2> QED
    BY <1>2, <2>4 DEF CallOriginal
<1>3. nullOpen' \in {nullOpen, TRUE}
  BY DEF Next, Request, LoadHookLibrary, DoNativeHook, LoadLibrary, LoadUnseen,
     BridgeCode, OpenLibdl, InitJni, InitJniFails, CopyByte, EndNativeHook, CallOriginal,
     HookFlutter, SkipFlutter, FlutterHooked, HookDu, SkipDu, DuHooked, FakeDlopenFails,
     LoseDu, UseNullDu, Install, end
<1>4. crashed' => nullOpen'
  <2>1. ASSUME NEW t \in Threads, UseNullDu(t) PROVE nullOpen'
    BY <2>1 DEF UseNullDu, Inv, LostInv, DuLost
  <2> QED
    BY <1>1, <1>2, <2>1
       DEF Next, Request, LoadHookLibrary, DoNativeHook, LoadLibrary, LoadUnseen,
       BridgeCode, OpenLibdl, InitJni, InitJniFails, CopyByte, EndNativeHook,
       HookFlutter, SkipFlutter, FlutterHooked, HookDu, SkipDu, DuHooked, FakeDlopenFails,
       LoseDu, Install, end
<1>5. DuLost' => nullOpen'
  <2>1. pc \in [Threads -> Locations]
    BY DEF Inv, HookInv, TypeOK
  <2>2. ASSUME NEW u \in Threads, pc'[u] = "null_du", pc[u] # "null_du" PROVE LoseDu(u)
    BY <2>1, <2>2, MainIsThread
       DEF Next, Request, LoadHookLibrary, DoNativeHook, LoadLibrary, LoadUnseen,
       BridgeCode, OpenLibdl, InitJni, InitJniFails, CopyByte, EndNativeHook, CallOriginal,
       HookFlutter, SkipFlutter, FlutterHooked, HookDu, SkipDu, DuHooked, FakeDlopenFails,
       LoseDu, UseNullDu, Install, Goto, Leave
  <2> QED
    BY <1>3, <2>2 DEF LoseDu, Inv, LostInv, DuLost
<1> QED
  BY <1>4, <1>5 DEF CrashNeedsFailedOpen, LostInv

(* So the invariant is kept by every step,                                  *)
LEMMA NextInv == Inv /\ Next => Inv'
  BY NextType, NextMonitor, NextSites, NextDu, NextFlutter, NextBytes, NextCall, NextCrash
     DEF Inv, HookInv

(* and holds forever.                                                       *)
LEMMA InvAlways == Spec => []Inv
<1>1. Inv /\ Next => Inv'
  BY NextInv
<1>2. Inv /\ UNCHANGED vars => Inv'
  <2> SUFFICES ASSUME Inv, UNCHANGED vars PROVE Inv'
    OBVIOUS
  <2> USE DEF Inv, HookInv, vars
  <2>1. TypeOK' /\ MonitorInv' /\ JobInv' /\ CallInv' /\ LostInv' /\ CrashNeedsFailedOpen'
    BY DEF TypeOK, DobbyTypeOK, MonitorInv, JobInv, CallInv, LostInv, DuLost,
       CrashNeedsFailedOpen
  <2>2. SiteInv'
    BY DEF SiteInv, Busy, AtStep, Target
  <2>3. DuInv' /\ FlutterInv'
    BY DEF DuInv, NoDuYet, DuLost, FlutterInv, Wants, Told
  <2>4. BytesInv'
    <3>1. \A j \in DOMAIN lastPackage : Written(j)' = Written(j)
      BY DEF Written
    <3> QED
      BY <3>1 DEF BytesInv, Last
  <2> QED
    BY <2>1, <2>2, <2>3, <2>4
<1> QED
  BY <1>1, <1>2, InitInv, PTL DEF Spec

-----------------------------------------------------------------------------

(* In particular memcpy never leaves the buffer, and the places, the        *)
(* monitor and the hooks are what the model says.                           *)
THEOREM TypeCorrect == Spec => []TypeOK
<1>1. Inv => TypeOK
  BY DEF Inv, HookInv
<1> QED
  BY <1>1, InvAlways, PTL

(* However long the names doNativeHook is given, the last byte of           *)
(* package_name is never written: strcmp stops inside the buffer.           *)
THEOREM BufferIsTerminated == Spec => []BufferStaysTerminated
<1>1. Inv => BufferStaysTerminated
  <2> SUFFICES ASSUME Inv PROVE BufferStaysTerminated
    OBVIOUS
  <2>1. BufferSize - 1 \in Bytes
    BY BufferIsBuffer DEF Bytes
  <2>2. ASSUME NEW j \in DOMAIN lastPackage PROVE Written(j) <= BufferSize - 1
    <3>1. /\ lastPackage[j] \in Packages
          /\ j = Len(lastPackage) => Last = lastPackage[j]
      BY <2>2 DEF Inv, HookInv, TypeOK, Last
    <3> QED
      BY <3>1, CopyLengthType, BufferIsBuffer DEF Inv, HookInv, TypeOK, BytesInv, Written
  <2>3. ASSUME NEW j \in DOMAIN lastPackage PROVE ~(BufferSize - 1 < Written(j))
    <3>1. Written(j) \in Int
      BY CopyLengthType DEF Inv, HookInv, TypeOK, Written
    <3> QED
      BY <2>2, <3>1, BufferIsBuffer
  <2> QED
    BY <2>1, <2>3 DEF Inv, BytesInv, BufferStaysTerminated
<1> QED
  BY <1>1, InvAlways, PTL

(* package_name reads as the last package exactly when its name fits and    *)
(* none before it left more bytes.                                          *)
THEOREM LastIsRead == Spec => []LastPackageIsRead
<1>1. Inv => LastPackageIsRead
  <2> SUFFICES ASSUME Inv, lastPackage # <<>>, pc[Main] # "memcpy"
               PROVE  Reads(Last) <=>
                        /\ NameLength[Last] < BufferSize
                        /\ \A i \in DOMAIN lastPackage :
                             CopyLength(lastPackage[i]) <= NameLength[Last]
    BY DEF LastPackageIsRead
  <2>1. /\ Len(lastPackage) \in DOMAIN lastPackage
        /\ \A j \in DOMAIN lastPackage : lastPackage[j] \in Packages /\ j <= Len(lastPackage)
        /\ Last = lastPackage[Len(lastPackage)] /\ Last \in Packages
        /\ Len(lastPackage) \in Nat /\ \A j \in DOMAIN lastPackage : j \in Nat
    BY DEF Inv, HookInv, TypeOK, Last
  <2>2. \A j \in DOMAIN lastPackage :
          Written(j) = CopyLength(lastPackage[j]) /\ Written(j) \in Nat
    BY <2>1, CopyLengthType DEF Written
  <2>3. /\ NameLength[Last] \in Nat /\ NameLength[Last] > 0
        /\ NameLength[Last] < BufferSize => CopyLength(Last) = NameLength[Last]
    BY <2>1, CopyLengthType
  <2>4. /\ NameLength[Last] < BufferSize => NameLength[Last] \in Bytes
        /\ \A i \in 0..(NameLength[Last] - 1) : NameLength[Last] < BufferSize => i \in Bytes
        /\ \A i \in 0..(NameLength[Last] - 1) : i \in Nat /\ i < NameLength[Last]
    BY <2>3, BufferIsBuffer DEF Bytes
  <2>5. ASSUME Reads(Last), NEW j \in DOMAIN lastPackage
        PROVE  CopyLength(lastPackage[j]) <= NameLength[Last]
    <3>1. package_name[NameLength[Last]] = "nul" /\ NameLength[Last] \in Bytes
      BY <2>4, <2>5 DEF Reads
    <3>2. \A k \in DOMAIN lastPackage : lastPackage[k] # "nul"
      BY <2>1, NulIsNoPackage
    <3>3. Written(j) <= NameLength[Last]
      BY <3>1, <3>2 DEF Inv, BytesInv
    <3> QED
      BY <2>2, <3>3
  <2>6. ASSUME NameLength[Last] < BufferSize,
               \A i \in DOMAIN lastPackage : CopyLength(lastPackage[i]) <= NameLength[Last]
        PROVE  Reads(Last)
    <3>1. package_name[NameLength[Last]] = "nul"
      <4>1. \A j \in DOMAIN lastPackage : ~(NameLength[Last] < Written(j))
        BY <2>2, <2>3, <2>6
      <4> QED
        BY <2>4, <2>6, <4>1 DEF Inv, BytesInv
    <3>2. ASSUME NEW i \in 0..(NameLength[Last] - 1) PROVE package_name[i] = Last
      <4>1. i \in Bytes /\ i < Written(Len(lastPackage)) /\ ~(Written(Len(lastPackage)) <= i)
        BY <2>1, <2>2, <2>3, <2>4, <2>6
      <4>2. PICK j \in DOMAIN lastPackage :
              /\ package_name[i] = lastPackage[j]
              /\ \A k \in DOMAIN lastPackage : j < k => Written(k) <= i
        BY <2>1, <4>1 DEF Inv, BytesInv
      <4>3. j = Len(lastPackage)
        BY <2>1, <4>1, <4>2
      <4> QED
        BY <2>1, <4>2, <4>3
    <3> QED
      BY <2>6, <3>1, <3>2 DEF Reads
  <2> QED
    BY <2>5, <2>6 DEF Reads
<1> QED
  BY <1>1, InvAlways, PTL

(* However libflutter.so is loaded while package_name is being written, its *)
(* function is hooked only in a process told of likeread.                   *)
THEOREM FlutterIsLikereads == Spec => []FlutterOnlyInLikeread
<1>1. Inv => FlutterOnlyInLikeread
  BY DEF Inv, FlutterInv, Told, FlutterOnlyInLikeread
<1> QED
  BY <1>1, InvAlways, PTL

(* No replacement of a function of libdu.so runs before du_ctx is set, and  *)
(* none while it is null again but for the load that ends the process.      *)
THEOREM ContextIsFirst == Spec => []ContextBeforeDuHooks
<1>1. Inv => ContextBeforeDuHooks
  BY DEF Inv, HookInv, TypeOK, DuInv, NoDuYet, DuLost, ContextBeforeDuHooks, Unhooked
<1> QED
  BY <1>1, InvAlways, PTL

(* Once libdu.so was seen and no load is under way, its four functions are  *)
(* hooked and reach their originals.                                        *)
THEOREM DuIsHooked == Spec => []SeenDuIsHooked
<1>1. Inv => SeenDuIsHooked
  BY NoThreadIsNoThread DEF Inv, HookInv, MonitorInv, DuInv, SeenDuIsHooked, Hooked
<1> QED
  BY <1>1, InvAlways, PTL

(* Only a failed open ends the process inside this library.                 *)
THEOREM CrashesAreFailedOpens == Spec => []CrashNeedsFailedOpen
<1>1. Inv => CrashNeedsFailedOpen
  BY DEF Inv
<1> QED
  BY <1>1, InvAlways, PTL

-----------------------------------------------------------------------------

(* Who holds the Runtime's monitor is in a load.                            *)
LoadPlaces ==
  {"open_libdl", "hook_dlopen", "ori", "package", "hook_flutter", "du", "null_du", "hook_du"}

HolderInv == monitor # NoThread => pc[monitor] \in LoadPlaces

(* What is left of the DobbyHook calls of a thread, and of its load: no     *)
(* more steps than these numbers.                                           *)
StepsDone == [find |-> 0, relocate |-> 1, publish |-> 2, commit |-> 3]

Jobs == [todo: Seq(HookedSites), step: Steps, copy: Origins]

JobRank(j) == IF j.todo # <<>> THEN 4 * Len(j.todo) - StepsDone[j.step] ELSE 0

LoadRank(t) ==
  CASE pc[t] = "open_libdl" -> 6
    [] pc[t] \in {"hook_dlopen", "hook_du"} -> JobRank(job[t]) + 1
    [] pc[t] = "ori" -> 25
    [] pc[t] = "package" -> 24
    [] pc[t] = "hook_flutter" -> JobRank(job[t]) + 19
    [] pc[t] = "du" -> 18
    [] pc[t] = "null_du" -> 1
    [] OTHER -> 0

(* There are steps left while there are calls, four for each at most.       *)
LEMMA JobRankBounds ==
  ASSUME NEW j \in Jobs
  PROVE  /\ Len(j.todo) \in Nat
         /\ JobRank(j) \in Nat
         /\ JobRank(j) <= 4 * Len(j.todo)
<1>1. j.todo \in Seq(HookedSites) /\ j.step \in Steps /\ Len(j.todo) \in Nat
  BY LenProperties DEF Jobs
<1>2. j.todo # <<>> => Len(j.todo) >= 1
  BY <1>1
<1>3. StepsDone[j.step] \in {0, 1, 2, 3}
  BY <1>1 DEF Steps, StepsDone
<1> QED
  BY <1>1, <1>2, <1>3 DEF JobRank

(* A list of one call or of four begins.                                    *)
LEMMA ListRanks ==
  /\ Job(<<"android_dlopen_ext">>, "find", "null") \in Jobs
  /\ Job(<<"flutter">>, "find", "null") \in Jobs
  /\ Job(DuOrder, "find", "null") \in Jobs
  /\ JobRank(Job(<<"android_dlopen_ext">>, "find", "null")) <= 4
  /\ JobRank(Job(<<"flutter">>, "find", "null")) <= 4
  /\ JobRank(Job(DuOrder, "find", "null")) <= 16
<1>1. /\ Job(<<"android_dlopen_ext">>, "find", "null") \in Jobs
      /\ Job(<<"flutter">>, "find", "null") \in Jobs
      /\ Job(DuOrder, "find", "null") \in Jobs
  BY Lists DEF Jobs, Job, Steps, Origins
<1>2. /\ Len(<<"android_dlopen_ext">>) = 1 /\ Len(<<"flutter">>) = 1 /\ Len(DuOrder) = 4
  BY DEF DuOrder
<1>3. ASSUME NEW list, Job(list, "find", "null") \in Jobs
      PROVE  JobRank(Job(list, "find", "null")) <= 4 * Len(list)
  <2>1. Job(list, "find", "null").todo = list
    BY DEF Job
  <2> QED
    BY <1>3, <2>1, JobRankBounds
<1>4. /\ JobRank(Job(<<"android_dlopen_ext">>, "find", "null")) <= 4 * 1
      /\ JobRank(Job(<<"flutter">>, "find", "null")) <= 4 * 1
      /\ JobRank(Job(DuOrder, "find", "null")) <= 4 * 4
  BY <1>1, <1>2, <1>3
<1> QED
  BY <1>1, <1>4

(* Each step of DobbyHook brings its thread nearer to the end, and leaves   *)
(* the other threads where they are.                                        *)
LEMMA DobbyStepProgress ==
  ASSUME HookInv, DobbyTypeOK', NEW t \in Threads, DobbyStep(t)
  PROVE  /\ JobRank(job'[t]) < JobRank(job[t])
         /\ \A u \in Threads \ {t} : job'[u] = job[u]
<1>1. /\ job \in [Threads -> Jobs] /\ job'[t] \in Jobs /\ DobbyTypeOK
  BY DEF HookInv, TypeOK, DobbyTypeOK, Jobs
<1>2. Busy(t)
  BY <1>1, DobbyEffect
<1>3. PICK hook \in HookType, left \in {job[t].todo, Tail(job[t].todo)},
           at \in Steps, copy \in Origins : Effect(t, hook, left, at, copy)
  BY <1>1, DobbyEffect
<1>4. /\ job'[t].todo = left /\ job'[t].step = at
      /\ \A u \in Threads \ {t} : job'[u] = job[u]
  BY <1>1, <1>3 DEF Effect, Job
<1> DEFINE n == Len(job[t].todo)
<1>5. /\ n \in Nat /\ n >= 1 /\ Len(Tail(job[t].todo)) = n - 1
      /\ job[t].todo # <<>>
  <2>1. job[t].todo \in Seq(HookedSites) /\ job[t].todo # <<>>
    BY <1>1, <1>2 DEF Busy, Jobs
  <2> QED
    BY <2>1, HeadTailProperties, LenProperties
<1>6. JobRank(job[t]) = 4 * n - StepsDone[job[t].step]
  BY <1>5 DEF JobRank
<1> HIDE DEF n
<1>7. CASE left = Tail(job[t].todo) /\ job[t].step \in {"find", "commit"}
  <2>1. JobRank(job'[t]) \in Nat /\ JobRank(job'[t]) <= 4 * (n - 1)
    BY <1>1, <1>4, <1>5, <1>7, JobRankBounds
  <2>2. StepsDone[job[t].step] \in {0, 3}
    BY <1>7 DEF StepsDone
  <2> QED
    BY <1>4, <1>5, <1>6, <2>1, <2>2
<1>8. CASE left = job[t].todo /\ StepsDone[at] = StepsDone[job[t].step] + 1
  <2>1. JobRank(job'[t]) = 4 * n - StepsDone[at]
    BY <1>4, <1>5, <1>8 DEF JobRank, n
  <2>2. StepsDone[job[t].step] \in Nat
    BY <1>1 DEF Jobs, Steps, StepsDone
  <2> QED
    BY <1>4, <1>5, <1>6, <1>8, <2>1, <2>2
<1>9. \/ left = Tail(job[t].todo) /\ job[t].step \in {"find", "commit"}
      \/ left = job[t].todo /\ StepsDone[at] = StepsDone[job[t].step] + 1
  <2>1. \/ left = Tail(job[t].todo) /\ job[t].step \in {"find", "commit"}
        \/ /\ left = job[t].todo
           /\ \/ job[t].step = "find" /\ at = "relocate"
              \/ job[t].step = "relocate" /\ at = "publish"
              \/ job[t].step = "publish" /\ at = "commit"
    BY <1>3 DEF Effect
  <2>2. /\ StepsDone["relocate"] = StepsDone["find"] + 1
        /\ StepsDone["publish"] = StepsDone["relocate"] + 1
        /\ StepsDone["commit"] = StepsDone["publish"] + 1
    BY DEF StepsDone
  <2> QED
    BY <2>1, <2>2
<1> QED
  BY <1>4, <1>7, <1>8, <1>9

(* A load ends, or the process does, or the thread in it has fewer steps to *)
(* go.                                                                      *)
LEMMA LoadStepProgress ==
  ASSUME HookInv, DobbyTypeOK', NEW t \in Threads, BridgeCode(t), pc[t] \in LoadPlaces
  PROVE  \/ crashed' /\ monitor' = monitor /\ pc' = pc
         \/ monitor' = monitor /\ pc'[t] \in LoadPlaces /\ LoadRank(t)' < LoadRank(t)
         \/ pc'[t] = "app" /\ monitor' = IF monitor = t THEN NoThread ELSE monitor
<1> USE DEF LoadPlaces, Goto, Release
<1>1. /\ pc \in [Threads -> Locations] /\ job \in [Threads -> Jobs]
      /\ job' \in [Threads -> Jobs]
  BY DEF HookInv, TypeOK, DobbyTypeOK, Jobs
<1>2. JobRank(job[t]) \in Nat /\ JobRank(job'[t]) \in Nat
  BY <1>1, JobRankBounds
<1>3. \A j \in Jobs : [job EXCEPT ![t] = j][t] = j
  BY <1>1
<1>4. CASE OpenLibdl(t)
  <2>1. CASE Goto(t, "open_libdl", "hook_dlopen") /\ StartJob(t, <<"android_dlopen_ext">>)
    <3>1. job'[t] = Job(<<"android_dlopen_ext">>, "find", "null")
      BY <1>3, <2>1, ListRanks DEF StartJob
    <3>2. pc[t] = "open_libdl" /\ pc'[t] = "hook_dlopen" /\ JobRank(job'[t]) <= 4
      BY <1>1, <2>1, <3>1, ListRanks
    <3>3. monitor' = monitor
      BY <1>1, <1>4, <3>2 DEF OpenLibdl
    <3> QED
      BY <1>2, <3>2, <3>3 DEF LoadRank
  <2> QED
    BY <1>1, <1>4, <2>1 DEF OpenLibdl
<1>5. CASE \/ InitJni(t) \/ InitJniFails(t) \/ SkipDu(t) \/ DuHooked(t)
           \/ FakeDlopenFails(t) \/ UseNullDu(t)
  BY <1>1, <1>5
     DEF InitJni, InitJniFails, SkipDu, DuHooked, FakeDlopenFails, UseNullDu, Leave
<1>12. CASE LoseDu(t)
  <2>1. pc[t] = "du" /\ pc'[t] = "null_du" /\ monitor' = monitor
    BY <1>1, <1>12 DEF LoseDu
  <2> QED
    BY <2>1 DEF LoadRank
<1>6. CASE t = Main /\ (CopyByte \/ EndNativeHook)
  BY <1>6 DEF CopyByte, EndNativeHook
<1>7. CASE CallOriginal(t)
  <2>1. \/ crashed' /\ monitor' = monitor /\ pc' = pc
        \/ pc[t] = "ori" /\ pc'[t] = "package" /\ monitor' = monitor
    BY <1>1, <1>7 DEF CallOriginal
  <2> QED
    BY <2>1 DEF LoadRank
<1>8. CASE HookFlutter(t)
  <2>1. job'[t] = Job(<<"flutter">>, "find", "null")
    BY <1>3, <1>8, ListRanks DEF HookFlutter, StartJob
  <2>2. /\ pc[t] = "package" /\ pc'[t] = "hook_flutter" /\ monitor' = monitor
        /\ JobRank(job'[t]) <= 4
    BY <1>1, <1>8, <2>1, ListRanks DEF HookFlutter
  <2> QED
    BY <1>2, <2>2 DEF LoadRank
<1>9. CASE SkipFlutter(t) \/ FlutterHooked(t)
  <2>1. pc[t] \in {"package", "hook_flutter"} /\ pc'[t] = "du" /\ monitor' = monitor
    BY <1>1, <1>9 DEF SkipFlutter, FlutterHooked
  <2> QED
    BY <1>2, <2>1 DEF LoadRank
<1>10. CASE HookDu(t)
  <2>1. job'[t] = Job(DuOrder, "find", "null")
    BY <1>3, <1>10, ListRanks DEF HookDu, StartJob
  <2>2. /\ pc[t] = "du" /\ pc'[t] = "hook_du" /\ monitor' = monitor
        /\ JobRank(job'[t]) <= 16
    BY <1>1, <1>10, <2>1, ListRanks DEF HookDu
  <2> QED
    BY <1>2, <2>2 DEF LoadRank
<1>11. CASE Install(t)
  <2>1. /\ pc[t] \in {"hook_dlopen", "hook_flutter", "hook_du"}
        /\ pc' = pc /\ monitor' = monitor
    <3>1. Busy(t)
      BY <1>11, DobbyEffect DEF Install, HookInv, TypeOK
    <3> QED
      BY <1>11, <3>1, BusyPlace DEF Install, HookInv
  <2>2. JobRank(job'[t]) < JobRank(job[t])
    BY <1>11, DobbyStepProgress DEF Install
  <2> QED
    BY <1>2, <2>1, <2>2 DEF LoadRank
<1> QED
  BY <1>4, <1>5, <1>6, <1>7, <1>8, <1>9, <1>10, <1>11, <1>12 DEF BridgeCode

(* Nothing another thread or the application does takes a thread in a load  *)
(* that holds the monitor from its place, or the monitor from it.           *)
LEMMA HolderStays ==
  ASSUME HookInv, DobbyTypeOK', NEW t \in Threads, Next, ~BridgeCode(t), monitor = t,
         pc[t] \in LoadPlaces
  PROVE  monitor' = t /\ pc'[t] = pc[t] /\ job'[t] = job[t]
<1> USE DEF LoadPlaces, Goto, Release
<1>1. /\ pc \in [Threads -> Locations] /\ job \in [Threads -> Jobs]
      /\ t # NoThread
  BY NoThreadIsNoThread DEF HookInv, TypeOK, DobbyTypeOK, Jobs
<1>2. CASE Request
  BY <1>1, <1>2, MainIsThread
     DEF Request, LoadHookLibrary, DoNativeHook, LoadLibrary, LoadUnseen, dobby
<1>3. ASSUME NEW u \in Threads, u # t, BridgeCode(u)
      PROVE  monitor' = t /\ pc'[t] = pc[t] /\ job'[t] = job[t]
  <2>1. CASE Install(u)
    BY <1>3, <2>1, DobbyStepProgress DEF Install
  <2>2. CASE Other(u)
    <3>1. pc'[t] = pc[t] /\ job'[t] = job[t]
      BY <1>1, <1>3, <2>2, OtherMoves DEF Moves
    <3>2. monitor' = monitor
      BY <1>3, <2>2
         DEF Other, OpenLibdl, InitJni, InitJniFails, CopyByte, EndNativeHook, CallOriginal,
             HookFlutter, SkipFlutter, FlutterHooked, HookDu, SkipDu, DuHooked,
             FakeDlopenFails, LoseDu, UseNullDu, Leave
    <3> QED
      BY <3>1, <3>2
  <2> QED
    BY <1>3, <2>1, <2>2 DEF BridgeCode, Other
<1> QED
  BY <1>2, <1>3 DEF Next

(* Only a load takes the monitor, and the thread in it keeps it up to its   *)
(* end.                                                                     *)
LEMMA NextHolder ==
  ASSUME HookInv, DobbyTypeOK', HolderInv, [Next]_vars
  PROVE  HolderInv'
<1>1. CASE UNCHANGED vars
  BY <1>1 DEF vars, HolderInv
<1>2. SUFFICES ASSUME Next PROVE HolderInv'
  BY <1>1
<1>3. pc \in [Threads -> Locations] /\ monitor \in Threads \cup {NoThread}
  BY DEF HookInv, TypeOK
<1>4. CASE monitor = NoThread
  <2>1. CASE Request
    BY <1>3, <1>4, <2>1, MainIsThread
       DEF Request, LoadHookLibrary, DoNativeHook, LoadLibrary, LoadUnseen, HolderInv,
           LoadPlaces, Goto
  <2>2. ASSUME NEW u \in Threads, BridgeCode(u) PROVE monitor' = NoThread
    BY <1>4, <2>2
       DEF BridgeCode, Install, OpenLibdl, InitJni, InitJniFails, CopyByte, EndNativeHook,
           CallOriginal, HookFlutter, SkipFlutter, FlutterHooked, HookDu, SkipDu, DuHooked,
           FakeDlopenFails, LoseDu, UseNullDu, Leave, Release
  <2> QED
    BY <1>2, <2>1, <2>2 DEF Next, HolderInv
<1>5. CASE monitor # NoThread
  <2>1. monitor \in Threads /\ pc[monitor] \in LoadPlaces
    BY <1>3, <1>5 DEF HolderInv
  <2>2. CASE BridgeCode(monitor)
    <3>1. \/ monitor' = monitor /\ pc'[monitor] \in LoadPlaces
          \/ monitor' = NoThread
      BY <2>1, <2>2, LoadStepProgress
    <3> QED
      BY <3>1 DEF HolderInv
  <2>3. CASE ~BridgeCode(monitor)
    BY <1>2, <2>1, <2>3, HolderStays DEF HolderInv
  <2> QED
    BY <2>2, <2>3
<1> QED
  BY <1>4, <1>5

(* A load takes 25 steps of its thread at most.                             *)
LEMMA LoadRankBounds ==
  ASSUME HookInv, NEW t \in Threads, pc[t] \in LoadPlaces
  PROVE  LoadRank(t) \in 1..25
<1>1. job[t] \in Jobs /\ job[t].todo \in Remaining(pc[t])
  BY DEF HookInv, TypeOK, DobbyTypeOK, Jobs, JobInv
<1>2. JobRank(job[t]) \in Nat /\ JobRank(job[t]) <= 4 * Len(job[t].todo)
  BY <1>1, JobRankBounds
<1>3. ASSUME NEW n \in {0, 1, 2, 3, 4}, NEW r \in Nat, r <= 4 * n
      PROVE  r + 1 \in 1..25 /\ (n <= 1 => r + 19 \in 1..25)
  <2>1. r <= 16 /\ (n <= 1 => r <= 4)
    BY <1>3
  <2> QED
    BY ONLY <1>3, <2>1
<1>4. CASE pc[t] \in {"open_libdl", "ori", "package", "du", "null_du"}
  BY <1>4 DEF LoadRank
<1>5. CASE pc[t] = "hook_flutter"
  <2>1. Remaining("hook_flutter") = {<<"flutter">>, <<>>}
    BY Zenon DEF Remaining
  <2>2. Len(job[t].todo) \in {0, 1}
    BY <1>1, <1>5, <2>1
  <2>3. LoadRank(t) = JobRank(job[t]) + 19
    BY <1>5 DEF LoadRank
  <2>4. Len(job[t].todo) \in {0, 1, 2, 3, 4} /\ Len(job[t].todo) <= 1
    <3>1. \A l \in {0, 1} : l \in {0, 1, 2, 3, 4} /\ l <= 1
      OBVIOUS
    <3> QED
      BY ONLY <2>2, <3>1
  <2> QED
    BY ONLY <1>2, <1>3, <2>3, <2>4
<1>6. CASE pc[t] = "hook_dlopen"
  <2>1. Remaining("hook_dlopen") = {<<"android_dlopen_ext">>, <<>>}
    BY Zenon DEF Remaining
  <2>2. Len(job[t].todo) \in {0, 1}
    BY <1>1, <1>6, <2>1
  <2>3. LoadRank(t) = JobRank(job[t]) + 1
    BY <1>6 DEF LoadRank
  <2>4. Len(job[t].todo) \in {0, 1, 2, 3, 4} /\ Len(job[t].todo) <= 1
    <3>1. \A l \in {0, 1} : l \in {0, 1, 2, 3, 4} /\ l <= 1
      OBVIOUS
    <3> QED
      BY ONLY <2>2, <3>1
  <2> QED
    BY ONLY <1>2, <1>3, <2>3, <2>4
<1>7. CASE pc[t] = "hook_du"
  <2>1. Remaining("hook_du") = {DuOrder, Tail(DuOrder), Tail(Tail(DuOrder)),
                                Tail(Tail(Tail(DuOrder))), <<>>}
    BY Zenon DEF Remaining
  <2>2. /\ Len(DuOrder) = 4 /\ Len(Tail(DuOrder)) = 3 /\ Len(Tail(Tail(DuOrder))) = 2
        /\ Len(Tail(Tail(Tail(DuOrder)))) = 1 /\ Len(<<>>) = 0
    BY DEF DuOrder
  <2>3. job[t].todo \in {DuOrder, Tail(DuOrder), Tail(Tail(DuOrder)),
                         Tail(Tail(Tail(DuOrder))), <<>>}
    BY <1>1, <1>7, <2>1
  <2>4. Len(job[t].todo) \in {0, 1, 2, 3, 4}
    BY ONLY <2>2, <2>3
  <2>5. LoadRank(t) = JobRank(job[t]) + 1
    BY <1>7 DEF LoadRank
  <2> QED
    BY ONLY <1>2, <1>3, <2>4, <2>5
<1> QED
  BY <1>4, <1>5, <1>6, <1>7 DEF LoadPlaces

(* A monitor that is held is held by a thread in a load, which ends within  *)
(* 25 steps of that thread: each of them releases the monitor, ends the     *)
(* process or leaves fewer to go, and no other thread's step adds to them.  *)
(* This is what MonitorIsReleased rests on, for any threads and packages.   *)
THEOREM LoadsAdvance ==
  Spec =>
    [][monitor # NoThread =>
         /\ LoadRank(monitor) \in 1..25
         /\ BridgeCode(monitor) =>
              \/ crashed'
              \/ monitor' = NoThread
              \/ monitor' = monitor /\ LoadRank(monitor)' < LoadRank(monitor)
         /\ ~BridgeCode(monitor) =>
              monitor' = monitor /\ LoadRank(monitor)' = LoadRank(monitor)]_vars
<1> DEFINE Advances ==
      /\ LoadRank(monitor) \in 1..25
      /\ BridgeCode(monitor) =>
           \/ crashed'
           \/ monitor' = NoThread
           \/ monitor' = monitor /\ LoadRank(monitor)' < LoadRank(monitor)
      /\ ~BridgeCode(monitor) =>
           monitor' = monitor /\ LoadRank(monitor)' = LoadRank(monitor)
<1>1. Init => HolderInv
  BY DEF Init, HolderInv
<1>2. Inv /\ Inv' /\ HolderInv /\ [Next]_vars => HolderInv'
  BY NextHolder DEF Inv, HookInv, TypeOK
<1>3. ASSUME Inv, Inv', HolderInv, Next, monitor # NoThread PROVE Advances
  <2>1. HookInv /\ DobbyTypeOK' /\ monitor \in Threads /\ pc[monitor] \in LoadPlaces
    BY <1>3 DEF Inv, HookInv, TypeOK, HolderInv
  <2>2. LoadRank(monitor) \in 1..25
    BY <2>1, LoadRankBounds
  <2>3. ASSUME BridgeCode(monitor)
        PROVE  \/ crashed'
               \/ monitor' = NoThread
               \/ monitor' = monitor /\ LoadRank(monitor)' < LoadRank(monitor)
    <3> DEFINE t == monitor
    <3>1. \/ crashed'
          \/ monitor' = NoThread
          \/ /\ monitor' = monitor
             /\ \A u \in Threads : u = monitor => LoadRank(u)' < LoadRank(u)
      BY <2>1, <2>3, LoadStepProgress
    <3> QED
      BY <2>1, <3>1 DEF LoadRank
  <2>4. ASSUME ~BridgeCode(monitor)
        PROVE  monitor' = monitor /\ LoadRank(monitor)' = LoadRank(monitor)
    <3>1. monitor' = monitor /\ pc'[monitor] = pc[monitor] /\ job'[monitor] = job[monitor]
      BY <1>3, <2>1, <2>4, HolderStays
    <3> QED
      BY <3>1 DEF LoadRank
  <2> QED
    BY <2>2, <2>3, <2>4
<1>4. Inv /\ Inv' /\ HolderInv /\ [Next]_vars => [monitor # NoThread => Advances]_vars
  BY <1>3
<1> QED
  BY <1>1, <1>2, <1>4, InvAlways, PTL DEF Spec

-----------------------------------------------------------------------------

(* Each replacement on a stack is of a function that is patched.            *)
FramesInv ==
  /\ stack \in [Threads -> Seq([fn: DuSites, at: Points])]
  /\ \A t \in Threads : \A i \in DOMAIN stack[t] : table[stack[t][i].fn].patched

(* What the process dies of in a replacement, if not of a failed lookup.    *)
Causes == {"null_string", "null_callee", "no_return"}

(* The hooks are as in NativeBridge, even in a process that died elsewhere. *)
BridgeInv == HookInv /\ DuInv /\ FlutterInv /\ BytesInv /\ CallInv /\ LostInv

DuCallInv ==
  /\ BridgeInv
  /\ FramesInv
  /\ cause # "none" => crashed
  /\ DuCrashIsExplained

(* The innermost replacement is one of the stack.                           *)
LEMMA InnermostFrame ==
  ASSUME FramesInv, NEW t \in Threads, stack[t] # <<>>
  PROVE  /\ stack[t] \in Seq([fn: DuSites, at: Points]) /\ 1 \in DOMAIN stack[t]
         /\ stack[t][1] = Head(stack[t]) /\ Fn(t) \in DuSites
         /\ table[Fn(t)].patched
<1>1. stack[t] \in Seq([fn: DuSites, at: Points])
  BY DEF FramesInv
<1>2. 1 \in DOMAIN stack[t] /\ stack[t][1] = Head(stack[t])
  BY <1>1, EmptySeq, LenProperties
<1>3. stack[t][1] \in [fn: DuSites, at: Points]
  BY <1>1, <1>2, ElementOfSeq, LenProperties
<1> QED
  BY <1>1, <1>2, <1>3 DEF FramesInv, Fn

(* So its original is published, and the handle of libdu.so is known, if it *)
(* has not been lost again.                                                 *)
LEMMA PointersAreSet ==
  ASSUME BridgeInv, FramesInv, NEW t \in Threads, stack[t] # <<>>
  PROVE  table[Fn(t)].ori = "real" /\ (du_ctx = "null" => DuLost)
<1>1. Fn(t) \in DuSites /\ Fn(t) \in HookedSites /\ table[Fn(t)].patched
  BY InnermostFrame DEF HookedSites
<1>2. table[Fn(t)] = Hooked
  BY <1>1, PatchedIsHooked DEF BridgeInv, HookInv
<1>3. table[Fn(t)] # Unhooked
  BY <1>1 DEF Unhooked
<1> QED
  BY <1>1, <1>2, <1>3 DEF BridgeInv, DuInv, NoDuYet, Hooked

(* What replacing the innermost replacement's place does to the stacks,     *)
LEMMA MoveKeepsFrames ==
  ASSUME FramesInv, NEW t \in Threads, stack[t] # <<>>, NEW point \in Points, MoveTo(t, point),
         UNCHANGED table
  PROVE  FramesInv'
<1>1. stack[t] \in Seq([fn: DuSites, at: Points]) /\ 1 \in DOMAIN stack[t]
  BY InnermostFrame
<1> DEFINE frame == [stack[t][1] EXCEPT !.at = point]
           frames == [stack[t] EXCEPT ![1] = frame]
<1>2. stack' = [stack EXCEPT ![t] = frames]
  BY DEF MoveTo
<1>3. stack[t][1] \in [fn: DuSites, at: Points] /\ 1 \in 1..Len(stack[t])
  BY <1>1, ElementOfSeq, LenProperties
<1>4. frame \in [fn: DuSites, at: Points] /\ frame.fn = stack[t][1].fn
  BY <1>3
<1>5. /\ frames \in Seq([fn: DuSites, at: Points]) /\ Len(frames) = Len(stack[t])
      /\ \A i \in 1..Len(stack[t]) : frames[i] = IF i = 1 THEN frame ELSE stack[t][i]
  BY <1>1, <1>3, <1>4, ExceptSeq
<1>6. DOMAIN frames = DOMAIN stack[t] /\ DOMAIN stack[t] = 1..Len(stack[t])
  BY <1>1, <1>5, LenProperties
<1>7. \A i \in DOMAIN frames : table[frames[i].fn].patched
  BY <1>4, <1>5, <1>6 DEF FramesInv
<1> HIDE DEF frames, frame
<1>8. stack' \in [Threads -> Seq([fn: DuSites, at: Points])]
  BY <1>2, <1>5 DEF FramesInv
<1>9. \A u \in Threads : \A i \in DOMAIN stack'[u] : table'[stack'[u][i].fn].patched
  BY <1>2, <1>7 DEF FramesInv
<1> QED
  BY <1>8, <1>9 DEF FramesInv

(* a call of a patched function,                                            *)
LEMMA CallKeepsFrames ==
  ASSUME FramesInv, NEW t \in Threads, NEW f \in DuSites, CallDu(t, f)
  PROVE  FramesInv'
<1> DEFINE frame == [fn |-> f, at |-> "start"]
           frames == <<frame>> \o stack[t]
<1>1. frame \in [fn: DuSites, at: Points] /\ table[frame.fn].patched
  BY DEF CallDu, Points
<1>2. <<frame>> \in Seq([fn: DuSites, at: Points]) /\ Len(<<frame>>) = 1 /\ <<frame>>[1] = frame
  BY <1>1
<1>3. stack[t] \in Seq([fn: DuSites, at: Points]) /\ Len(stack[t]) \in Nat
      /\ DOMAIN stack[t] = 1..Len(stack[t])
  BY LenProperties DEF FramesInv
<1>4. /\ frames \in Seq([fn: DuSites, at: Points])
      /\ Len(frames) = Len(stack[t]) + 1
      /\ \A i \in 1..(Len(stack[t]) + 1) :
           frames[i] = IF i <= 1 THEN <<frame>>[i] ELSE stack[t][i - 1]
  <2> HIDE DEF frame
  <2> QED
    BY <1>2, <1>3, ConcatProperties
<1>5. DOMAIN frames = 1..(Len(stack[t]) + 1)
  BY <1>4, LenProperties
<1>6. ASSUME NEW i \in DOMAIN frames PROVE table[frames[i].fn].patched
  <2>1. CASE i = 1
    <3>1. frames[i] = frame
      BY <1>2, <1>4, <1>5, <2>1
    <3> QED
      BY <1>1, <3>1
  <2>2. CASE i # 1
    <3>1. i - 1 \in DOMAIN stack[t] /\ frames[i] = stack[t][i - 1]
      BY <1>3, <1>4, <1>5, <2>2
    <3> QED
      BY <3>1 DEF FramesInv
  <2> QED
    BY <2>1, <2>2
<1>7. stack' = [stack EXCEPT ![t] = frames] /\ UNCHANGED table
  BY DEF CallDu, bridge, dobby
<1> HIDE DEF frames, frame
<1> QED
  BY <1>4, <1>6, <1>7 DEF FramesInv

(* and a return.                                                            *)
LEMMA ReturnKeepsFrames ==
  ASSUME FramesInv, NEW t \in Threads, stack[t] # <<>>,
         stack' = [stack EXCEPT ![t] = Tail(@)], UNCHANGED table
  PROVE  FramesInv'
<1>1. stack[t] \in Seq([fn: DuSites, at: Points]) /\ Len(stack[t]) \in Nat
      /\ DOMAIN stack[t] = 1..Len(stack[t])
  BY LenProperties DEF FramesInv
<1>2. /\ Tail(stack[t]) \in Seq([fn: DuSites, at: Points])
      /\ Len(Tail(stack[t])) = Len(stack[t]) - 1
      /\ \A i \in 1..Len(Tail(stack[t])) : Tail(stack[t])[i] = stack[t][i + 1]
  BY <1>1, HeadTailProperties
<1>3. DOMAIN Tail(stack[t]) = 1..(Len(stack[t]) - 1)
  BY <1>2, LenProperties
<1>4. \A i \in DOMAIN Tail(stack[t]) : table[Tail(stack[t])[i].fn].patched
  BY <1>1, <1>2, <1>3 DEF FramesInv
<1> QED
  BY <1>2, <1>4 DEF FramesInv

(* The bridge's part of the invariant does not ask whether the process is   *)
(* alive.                                                                   *)
LEMMA BridgeUnchanged ==
  ASSUME BridgeInv, UNCHANGED bridge, crashed' \in BOOLEAN
  PROVE  BridgeInv'
<1> USE DEF BridgeInv, HookInv, bridge, name, library, dobby
<1>1. TypeOK' /\ MonitorInv' /\ JobInv' /\ CallInv'
  BY DEF TypeOK, DobbyTypeOK, MonitorInv, JobInv, CallInv
<1>2. SiteInv'
  BY DEF SiteInv, Busy, AtStep, Target
<1>3. DuInv' /\ FlutterInv' /\ LostInv'
  BY DEF DuInv, NoDuYet, DuLost, LostInv, FlutterInv, Wants, Told
<1>4. BytesInv'
  <2>1. \A j \in DOMAIN lastPackage : Written(j)' = Written(j)
    BY DEF Written
  <2> QED
    BY <2>1 DEF BytesInv, Last
<1> QED
  BY <1>1, <1>2, <1>3, <1>4

-----------------------------------------------------------------------------

(* A step of a replacement leaves the bridge alone, moves on a stack whose  *)
(* functions stay patched, and dies only of the listed causes.              *)
LEMMA DuCodeSteps ==
  ASSUME DuCallInv, NEW t \in Threads, DuCode(t)
  PROVE  /\ UNCHANGED bridge
         /\ FramesInv'
         /\ \/ UNCHANGED <<crashed, cause>>
            \/ crashed' = TRUE /\ cause' \in Causes
            \/ crashed' = TRUE /\ cause' = "null_ctx" /\ DuLost
<1>1. BridgeInv /\ FramesInv /\ ~crashed
  BY DEF DuCallInv, DuCode
<1> USE DEF Crash, Causes
<1>2. \A place \in {"start", "original", "interp", "direct", "end", "lost"} \cup Operations :
        place \in Points
  BY DEF Points
<1>3. UNCHANGED bridge => UNCHANGED table
  BY DEF bridge, dobby
<1>4. \A point \in Points :
        stack[t] # <<>> /\ MoveTo(t, point) /\ UNCHANGED bridge => FramesInv'
  BY <1>1, <1>3, MoveKeepsFrames
<1>5. UNCHANGED <<bridge, stack>> => FramesInv'
  BY <1>1, <1>3 DEF FramesInv
<1>6. stack[t] # <<>> => table[Fn(t)].ori = "real" /\ (du_ctx = "null" => DuLost)
  BY <1>1, PointersAreSet
<1>7. ASSUME NEW f \in DuSites, CallDu(t, f)
      PROVE  UNCHANGED <<bridge, crashed, cause>> /\ FramesInv'
  BY <1>1, <1>7, CallKeepsFrames DEF CallDu
<1>8. CASE EnterOriginal(t)
  <2>1. stack[t] # <<>> /\ MoveTo(t, "original") /\ UNCHANGED <<bridge, crashed, cause>>
    BY <1>6, <1>8 DEF EnterOriginal, At
  <2> QED
    BY <1>2, <1>4, <2>1
<1>9. CASE LeaveOriginal(t)
  <2>1. stack[t] # <<>> /\ UNCHANGED bridge
    BY <1>9 DEF LeaveOriginal, At
  <2>2. CASE stack' = [stack EXCEPT ![t] = Tail(@)] /\ UNCHANGED <<crashed, cause>>
    BY <1>1, <1>3, <2>1, <2>2, ReturnKeepsFrames
  <2>3. CASE Crash("null_string") /\ UNCHANGED stack
    BY <1>5, <2>1, <2>3
  <2> QED
    BY <1>9, <2>2, <2>3 DEF LeaveOriginal
<1>10. CASE MakeCallee(t)
  <2>1. stack[t] # <<>> /\ UNCHANGED bridge
    BY <1>10 DEF MakeCallee, At
  <2>2. \/ MoveTo(t, "interp") /\ UNCHANGED <<crashed, cause>>
        \/ Crash("null_callee") /\ UNCHANGED stack
    BY <1>6, <1>10, <2>1 DEF MakeCallee
  <2> QED
    BY <1>2, <1>4, <1>5, <2>1, <2>2
<1>11. ASSUME NEW op \in Operations, Interpret(t, op) \/ InterpretEnd(t) \/ DirectCallReturns(t)
       PROVE  FramesInv' /\ UNCHANGED <<bridge, crashed, cause>>
  BY <1>2, <1>4, <1>11 DEF Interpret, InterpretEnd, DirectCallReturns, At
<1>12. ASSUME NEW op \in Operations, UnicornvmCallback(t, op)
       PROVE  /\ FramesInv' /\ UNCHANGED bridge
              /\ UNCHANGED <<crashed, cause>> \/ (Crash("null_ctx") /\ DuLost)
  <2>1. stack[t] # <<>> /\ UNCHANGED bridge
    BY <1>12 DEF UnicornvmCallback, At
  <2>2. \/ /\ MoveTo(t, IF op = "vcop_call" THEN "direct" ELSE "interp")
           /\ UNCHANGED <<crashed, cause>>
        \/ Crash("null_ctx") /\ DuLost /\ UNCHANGED stack
    BY <1>6, <1>12, <2>1 DEF UnicornvmCallback
  <2> QED
    BY <1>2, <1>4, <1>5, <2>1, <2>2
<1>13. CASE RunOffTheEnd(t)
  <2>1. /\ stack[t] # <<>> /\ UNCHANGED bridge
        /\ \/ Crash("no_return") /\ UNCHANGED stack
           \/ MoveTo(t, "lost") /\ UNCHANGED <<crashed, cause>>
    BY <1>13 DEF RunOffTheEnd, At
  <2> QED
    BY <1>2, <1>4, <1>5, <2>1
<1>14. "unknown" \in Operations
  BY DEF Operations
<1> QED
  BY <1>7, <1>8, <1>9, <1>10, <1>11, <1>12, <1>13, <1>14 DEF DuCode

(* They are NativeBridge's, in a process that is alive, where its whole     *)
(* invariant holds.                                                         *)
LEMMA BridgeStepInv ==
  ASSUME DuCallInv, BridgeStep
  PROVE  DuCallInv'
<1>1. ~crashed /\ Next /\ UNCHANGED duVars
  BY DEF BridgeStep, Next, Request
<1>2. Inv
  BY <1>1 DEF DuCallInv, BridgeInv, Inv, CrashNeedsFailedOpen
<1>5. cause = "none" /\ cause' = "none"
  BY <1>1 DEF DuCallInv, duVars
<1>3. Inv'
  BY <1>1, <1>2, NextInv
<1>4. FramesInv'
  <2>1. \A f \in DuSites : table[f].patched => table'[f].patched
    BY <1>1, <1>2, PatchesStay DEF Inv, HookInv, TypeOK, HookedSites
  <2>2. \A u \in Threads : \A i \in DOMAIN stack[u] : stack[u][i].fn \in DuSites
    <3>1. ASSUME NEW u \in Threads, NEW i \in DOMAIN stack[u]
          PROVE  stack[u][i] \in [fn: DuSites, at: Points]
      BY <3>1, ElementOfSeq, LenProperties DEF DuCallInv, FramesInv
    <3> QED
      BY <3>1
  <2> QED
    BY <1>1, <2>1, <2>2 DEF DuCallInv, FramesInv, duVars
<1>6. DuCrashIsExplained'
  BY <1>3, <1>5 DEF Inv, CrashNeedsFailedOpen, DuCrashIsExplained, NoUnsetPointerIsUsed
<1> QED
  BY <1>3, <1>4, <1>5, <1>6 DEF DuCallInv, Inv, BridgeInv

(* Calling the functions of libdu.so never undoes what the bridge keeps.    *)
LEMMA DuInvAlways == DuSpec => []DuCallInv
<1>1. DuInit => DuCallInv
  <2> SUFFICES ASSUME DuInit PROVE DuCallInv
    OBVIOUS
  <2>1. Inv
    BY InitInv DEF DuInit
  <2>2. FramesInv
    <3>1. \A t \in Threads : stack[t] = <<>>
      BY DEF DuInit
    <3>2. <<>> \in Seq([fn: DuSites, at: Points])
      BY EmptySeq
    <3> QED
      BY <3>1, <3>2 DEF DuInit, FramesInv
  <2> QED
    BY <2>1, <2>2
       DEF DuInit, Init, Inv, DuCallInv, BridgeInv, DuCrashIsExplained, NoUnsetPointerIsUsed
<1>2. DuCallInv /\ [DuNext]_allVars => DuCallInv'
  <2> SUFFICES ASSUME DuCallInv, [DuNext]_allVars PROVE DuCallInv'
    OBVIOUS
  <2>1. ASSUME NEW t \in Threads, DuCode(t) PROVE DuCallInv'
    <3>1. FramesInv' /\ UNCHANGED bridge
      BY <2>1, DuCodeSteps
    <3>2. crashed' \in BOOLEAN /\ (cause' # "none" => crashed')
      BY <2>1, DuCodeSteps DEF DuCallInv, BridgeInv, HookInv, TypeOK
    <3>3. BridgeInv'
      BY <3>1, <3>2, BridgeUnchanged DEF DuCallInv
    <3>4. DuCrashIsExplained'
      BY <2>1, <3>1, DuCodeSteps
         DEF DuCallInv, BridgeInv, LostInv, DuLost, Causes, DuCrashIsExplained,
             NoUnsetPointerIsUsed, bridge
    <3> QED
      BY <3>1, <3>2, <3>3, <3>4 DEF DuCallInv
  <2>2. CASE UNCHANGED allVars
    <3>1. UNCHANGED <<bridge, crashed>> /\ crashed' \in BOOLEAN
      BY <2>2 DEF DuCallInv, BridgeInv, HookInv, TypeOK, allVars, vars, bridge, name,
                  library, dobby
    <3>2. BridgeInv'
      BY <3>1, BridgeUnchanged DEF DuCallInv
    <3> QED
      BY <2>2, <3>2 DEF DuCallInv, FramesInv, DuCrashIsExplained, NoUnsetPointerIsUsed,
                        allVars, duVars, vars
  <2> QED
    BY <2>1, <2>2, BridgeStepInv DEF DuNext
<1> QED
  BY <1>1, <1>2, PTL DEF DuSpec

(* However calls of libdu.so fall among the steps that hook it, a process   *)
(* dies in a replacement only of a null string, a null wrapper, the missing *)
(* return, or of the handle that a load whose fake_dlopen failed has just   *)
(* lost: never of an original or a handle that is not yet set.              *)
THEOREM DuCrashesAreExplained == DuSpec => []DuCrashIsExplained
<1>1. DuCallInv => DuCrashIsExplained
  BY DEF DuCallInv
<1> QED
  BY <1>1, DuInvAlways, PTL

-----------------------------------------------------------------------------

(* The places of an attempt to hook, between the test of isAppHooked and    *)
(* its end.                                                                 *)
Attempting == {"native", "load", "retry", "intent", "class", "ssl", "latch"}

(* What the session guarantees of the arguments of doNativeHook.            *)
SessionInv ==
  /\ loader \in [Packages -> {"none", "named", "done"}]
  /\ loader[Own] # "none" => pkgName \in Packages
  /\ step # "app" => loader[Own] = "done"
  /\ step \in Attempting => ~isAppHooked
  /\ step \in Attempting \ {"latch"} => pkg \in Packages
  /\ isAppHooked \in BOOLEAN /\ nullAttach \in BOOLEAN

(* How far the session is and how far the library is.                       *)
MeetInv ==
  /\ lastPackage # <<>> => onload = "returned"
  /\ step \in {"intent", "class", "ssl"} => lastPackage # <<>>
  /\ step = "latch" \/ isAppHooked => nullAttach \/ lastPackage # <<>>
  /\ isAppHooked => pc[Main] # "memcpy"

(* JNI_OnLoad returns with android_dlopen_ext hooked, or a lookup has       *)
(* returned NULL.                                                           *)
OnLoadInv ==
  /\ \A t \in Threads : pc[t] = "hook_dlopen" =>
       job[t].todo # <<>> \/ table["android_dlopen_ext"] = Hooked
  /\ onload = "returned" => nullOpen \/ table["android_dlopen_ext"] = Hooked

(* Only maimai goes on to startHookJava, whose failures make an attempt     *)
(* call doNativeHook again.                                                 *)
OnceInv ==
  /\ device.maimai = (Own # Likeread)
  /\ ~device.maimai =>
       /\ Len(lastPackage) <= 1
       /\ step \notin {"intent", "class", "ssl"}
       /\ lastPackage # <<>> => step = "latch" \/ isAppHooked

-----------------------------------------------------------------------------

(* What the steps of a callback do to the fields and to the arguments of    *)
(* doNativeHook: the attempt goes on or ends, it starts, it is skipped for  *)
(* a null context, the library is told a package, the flag is set.          *)
GoesOn ==
  /\ UNCHANGED <<isAppHooked, nullAttach, lastPackage>>
  /\ step # "latch"
  /\ step' \in Attempting => step \in Attempting
  /\ step' \in Attempting \ {"latch"} => pkg' = pkg
  /\ step' \in {"intent", "class", "ssl"} => step \in {"intent", "class", "ssl"}
  /\ step' = "latch" => step = "ssl"

Starts ==
  /\ UNCHANGED <<isAppHooked, nullAttach, lastPackage>>
  /\ ~isAppHooked
  /\ step = "callback" /\ step' = "native"
  /\ pkg' = pkgName

SkipsNull ==
  /\ UNCHANGED <<isAppHooked, lastPackage>>
  /\ ~isAppHooked
  /\ step = "callback" /\ step' = "latch"
  /\ nullAttach' = TRUE

Tells ==
  /\ UNCHANGED <<isAppHooked, nullAttach, pkg>>
  /\ step = "native"
  /\ step' = IF device.maimai THEN "intent" ELSE "latch"
  /\ lastPackage' = Append(lastPackage, pkg)

Latches ==
  /\ UNCHANGED <<nullAttach, lastPackage>>
  /\ step = "latch" /\ step' \in {"app", "callback"}
  /\ isAppHooked' = TRUE

(* A step of the main thread in HookEntry is one of them.                   *)
LEMMA CallbackEffect ==
  ASSUME S!Callback
  PROVE  /\ UNCHANGED <<device, loader, pkgName>>
         /\ step # "app"
         /\ GoesOn \/ Starts \/ SkipsNull \/ Tells \/ Latches
<1> USE DEF GoesOn, Starts, SkipsNull, Tells, Latches, Attempting, S!env, S!call,
            S!installed, S!history, S!Goto, S!EndCallback, S!NativeHookFails, S!PluginLoaded,
            S!StartHookJavaThrows
<1>1. CASE S!AttachReturns
  BY <1>1 DEF S!AttachReturns
<1>2. CASE S!AlreadyHooked
  BY <1>2 DEF S!AlreadyHooked
<1>3. CASE S!StartCallback
  BY <1>3 DEF S!StartCallback
<1>4. CASE S!FindPlugin
  BY <1>4 DEF S!FindPlugin
<1>5. CASE S!SystemLoad
  BY <1>5 DEF S!SystemLoad
<1>6. CASE S!RetryLoad
  BY <1>6 DEF S!RetryLoad
<1>7. CASE S!DoNativeHook
  BY <1>7 DEF S!DoNativeHook
<1>8. CASE S!GetLaunchIntent
  BY <1>8 DEF S!GetLaunchIntent
<1>9. CASE S!HookLoadClass
  BY <1>9 DEF S!HookLoadClass
<1>10. CASE S!HookSslWrite
  BY <1>10 DEF S!HookSslWrite
<1>11. CASE S!Latch
  BY <1>11 DEF S!Latch
<1> QED
  BY <1>1, <1>2, <1>3, <1>4, <1>5, <1>6, <1>7, <1>8, <1>9, <1>10, <1>11 DEF S!Callback

(* Packages are loaded by other threads, the process's own one first.       *)
LEMMA NextSession ==
  ASSUME SessionInv, [PipelineNext]_pipelineVars
  PROVE  SessionInv'
<1> USE OwnIsPackage DEF SessionInv, Attempting
<1>1. CASE UNCHANGED <<loader, pkgName, step, pkg, isAppHooked, nullAttach>>
  BY <1>1
<1>2. CASE Around
  <2>1. ASSUME NEW p, S!CopyPlugin(p) PROVE SessionInv'
    BY <1>1, <2>1 DEF S!CopyPlugin, S!call, S!history
  <2>2. ASSUME NEW p \in Packages, S!LoadPackage(p) PROVE SessionInv'
    BY <2>2 DEF S!LoadPackage, S!call, S!history
  <2>3. ASSUME NEW p \in Packages, S!HookAttach(p) PROVE SessionInv'
    BY <2>3 DEF S!HookAttach, S!call, S!history
  <2> QED
    BY <1>2, <2>1, <2>2, <2>3 DEF Around
<1>3. CASE InSession
  <2>1. /\ UNCHANGED <<loader, pkgName>> /\ step # "app"
        /\ GoesOn \/ Starts \/ SkipsNull \/ Tells \/ Latches
    BY <1>3, CallbackEffect DEF InSession
  <2>2. (loader[Own] # "none" => pkgName \in Packages)' /\ loader'[Own] = "done"
    BY <2>1
  <2>3. /\ (step \in Attempting => ~isAppHooked)'
        /\ (step \in Attempting \ {"latch"} => pkg \in Packages)'
        /\ (isAppHooked \in BOOLEAN /\ nullAttach \in BOOLEAN)'
    <3>1. CASE GoesOn
      BY <3>1 DEF GoesOn
    <3>2. CASE Starts
      BY <2>1, <3>2 DEF Starts
    <3>3. CASE SkipsNull
      BY <3>3 DEF SkipsNull
    <3>4. CASE Tells
      BY <3>4 DEF Tells
    <3>5. CASE Latches
      BY <3>5 DEF Latches
    <3> QED
      BY <2>1, <3>1, <3>2, <3>3, <3>4, <3>5
  <2> QED
    BY <2>1, <2>2, <2>3
<1>4. CASE Attach
  BY <1>4 DEF Attach, S!Attach, S!Goto, S!env, S!history
<1>5. ASSUME NEW t \in Threads, InBridge(t) \/ InApp PROVE SessionInv'
  BY <1>1, <1>5 DEF InBridge, InApp, session
<1>6. CASE UNCHANGED pipelineVars
  BY <1>1, <1>6 DEF pipelineVars, session
<1> QED
  BY <1>2, <1>3, <1>4, <1>5, <1>6, MainIsThread DEF PipelineNext

(* In the composition the library does what NativeBridge says: the session  *)
(* calls it only for packages and only when it may.                         *)
LEMMA BridgeSteps ==
  ASSUME SessionInv, [PipelineNext]_pipelineVars
  PROVE  [Next]_vars
<1>1. SUFFICES ASSUME PipelineNext, ~(UNCHANGED vars) PROVE Next
  BY DEF pipelineVars
<1>2. CASE InSession
  <2>1. CASE LoadsBridge
    BY <1>1, <1>2, <2>1 DEF InSession, Next, Request, PipelineNext
  <2>2. CASE ~LoadsBridge /\ lastPackage' # lastPackage
    <3>1. step = "native" /\ DoNativeHook(pkg)
      BY <1>2, <2>2, CallbackEffect
         DEF InSession, GoesOn, Starts, SkipsNull, Tells, Latches
    <3>2. pkg \in Packages
      BY <3>1 DEF SessionInv, Attempting
    <3> QED
      BY <1>1, <3>1, <3>2 DEF Next, Request, PipelineNext
  <2> QED
    BY <1>1, <1>2, <2>1, <2>2 DEF InSession
<1>3. CASE InApp
  BY <1>1, <1>3 DEF InApp, Next, Request, PipelineNext
<1>4. ASSUME NEW t \in Threads, InBridge(t) PROVE Next
  BY <1>4 DEF InBridge, Next
<1> QED
  BY <1>1, <1>2, <1>3, <1>4 DEF PipelineNext, Around, Attach, pipelineVars

(* So the session's guarantees hold forever.                                *)
LEMMA SessionAlways == PipelineSpec => []SessionInv
<1>1. PipelineInit => SessionInv
  BY OwnIsPackage DEF PipelineInit, S!Init, SessionInv, Attempting
<1> QED
  BY <1>1, NextSession, PTL DEF PipelineSpec

(* In the composition the library is the one NativeBridge models, so that   *)
(* every theorem about it holds of the composition.                         *)
THEOREM PipelineIsBridge == PipelineSpec => Spec
<1>1. PipelineInit => Init
  BY DEF PipelineInit
<1>2. SessionInv /\ [PipelineNext]_pipelineVars => [Next]_vars
  BY BridgeSteps
<1> QED
  BY <1>1, <1>2, SessionAlways, PTL DEF PipelineSpec, Spec

-----------------------------------------------------------------------------

(* A DobbyHook call that ends its thread's list leaves its function hooked,  *)
(* whether it hooks it or finds it hooked.                                  *)
LEMMA LastCallHooks ==
  ASSUME HookInv, NEW t \in Threads, DobbyStep(t),
         NEW f \in HookedSites, job[t].todo = <<f>>
  PROVE  job'[t].todo # <<>> \/ table'[f] = Hooked
<1>1. DobbyTypeOK /\ MonitorInv /\ JobInv /\ SiteInv
  BY DEF HookInv, TypeOK
<1>2. Busy(t) /\ Target(t) \in HookedSites
  BY <1>1, DobbyEffect
<1>3. PICK hook \in HookType, left \in {job[t].todo, Tail(job[t].todo)},
           at \in Steps, copy \in Origins : Effect(t, hook, left, at, copy)
  BY <1>1, DobbyEffect
<1>4. Target(t) = f
  BY DEF Target
<1>5. /\ job'[t].todo = left
      /\ table'[f] = hook
  <2>1. /\ job' = [job EXCEPT ![t] = Job(left, at, copy)]
        /\ table' = [table EXCEPT ![Target(t)] = hook]
    BY <1>3 DEF Effect
  <2> QED
    BY <1>1, <1>2, <1>4, <2>1 DEF DobbyTypeOK, Job
<1>6. job[t].step = "find" => table[Target(t)] \in {Unhooked, Hooked}
  <2>1. ASSUME NEW u \in Threads, AtStep(u, "commit") PROVE u = t
    <3>1. Busy(u)
      BY <2>1 DEF AtStep
    <3>2. monitor = u /\ monitor = t
      BY <1>1, <1>2, <3>1, BusyPlace
    <3> QED
      BY <3>2
  <2> QED
    BY <1>1, <1>2, <2>1 DEF SiteInv, AtStep
<1>7. job[t].step = "commit" => table[Target(t)] = Half
  BY <1>1, <1>2 DEF SiteInv
<1>8. CASE left = job[t].todo
  BY <1>4, <1>5, <1>8
<1>9. CASE left # job[t].todo
  <2>1. \/ job[t].step = "find" /\ table[Target(t)].entry /\ hook = table[Target(t)]
        \/ /\ job[t].step = "commit"
           /\ hook = [entry |-> table[Target(t)].entry, patched |-> TRUE,
                      ori |-> table[Target(t)].ori]
    BY <1>3, <1>9 DEF Effect
  <2>2. hook = Hooked
    BY <1>6, <1>7, <2>1 DEF Unhooked, Hooked, Half
  <2> QED
    BY <1>5, <2>2
<1> QED
  BY <1>8, <1>9

(* In JNI_OnLoad and for libflutter.so there is one such call.              *)
LEMMA BusyCalls ==
  ASSUME HookInv, NEW t \in Threads, DobbyStep(t)
  PROVE  /\ pc[t] = "hook_dlopen" => job[t].todo = <<"android_dlopen_ext">>
         /\ pc[t] = "hook_flutter" => job[t].todo = <<"flutter">>
<1>1. Busy(t) /\ job[t].todo \in Remaining(pc[t])
  BY DobbyEffect DEF HookInv, TypeOK, JobInv
<1>2. /\ Remaining("hook_dlopen") = {<<"android_dlopen_ext">>, <<>>}
      /\ Remaining("hook_flutter") = {<<"flutter">>, <<>>}
  BY Zenon DEF Remaining
<1> QED
  BY <1>1, <1>2 DEF Busy

(* So JNI_OnLoad returns with it hooked, unless a lookup has failed.        *)
LEMMA NextOnLoad ==
  ASSUME Inv, Inv', OnLoadInv, [Next]_vars
  PROVE  OnLoadInv'
<1> DEFINE Ext == "android_dlopen_ext"
<1>1. CASE UNCHANGED vars
  BY <1>1 DEF vars, OnLoadInv
<1>2. SUFFICES ASSUME Next PROVE OnLoadInv'
  BY <1>1
<1>3. /\ pc \in [Threads -> Locations]
      /\ job \in [Threads -> [todo : Seq(HookedSites), step : Steps, copy : Origins]]
      /\ Ext \in HookedSites /\ nullOpen \in BOOLEAN
  BY DEF Inv, HookInv, TypeOK, DobbyTypeOK, HookedSites
<1>4. ASSUME NEW t \in Threads, Install(t) PROVE OnLoadInv'
  <2>1. DobbyStep(t) /\ UNCHANGED <<pc, onload, nullOpen>>
    BY <1>4 DEF Install, library, end
  <2>2. table[Ext] = Hooked => table'[Ext] = Hooked
    <3>1. table[Ext].patched => table'[Ext].patched
      BY <1>2, <1>3, PatchesStay DEF Inv, HookInv, TypeOK
    <3>2. SiteInv'
      BY DEF Inv, HookInv
    <3>3. table'[Ext].patched => table'[Ext] = Hooked
      BY <1>3, <3>2 DEF SiteInv, Unhooked, Half
    <3> QED
      BY <3>1, <3>3 DEF Hooked
  <2>3. \A u \in Threads : u # t => job'[u] = job[u]
    BY <1>3, <2>1 DEF DobbyStep, FindHookEntry, RelocatePrologue, PublishOrigin, CommitPatch,
                      ReturnFromCall, GoOn, StartJob
  <2>4. pc[t] = "hook_dlopen" => job'[t].todo # <<>> \/ table'[Ext] = Hooked
    <3>1. pc[t] = "hook_dlopen" => job[t].todo = <<Ext>>
      BY <1>3, <2>1, BusyCalls DEF Inv
    <3> QED
      BY <1>3, <2>1, <3>1, LastCallHooks DEF Inv
  <2> QED
    BY <2>1, <2>2, <2>3, <2>4 DEF OnLoadInv
<1>5. ASSUME NEW t \in Threads, OpenLibdl(t) PROVE OnLoadInv'
  <2>1. CASE pc'[t] = "hook_dlopen"
    <3>1. /\ pc' = [pc EXCEPT ![t] = "hook_dlopen"]
          /\ job' = [job EXCEPT ![t] = Job(<<Ext>>, "find", "null")]
          /\ UNCHANGED <<table, onload, nullOpen>>
      BY <1>3, <1>5, <2>1 DEF OpenLibdl, Goto, StartJob, end
    <3>2. job'[t].todo # <<>> /\ \A u \in Threads : u # t => job'[u] = job[u] /\ pc'[u] = pc[u]
      BY <1>3, <3>1 DEF Job
    <3> QED
      BY <3>1, <3>2 DEF OnLoadInv
  <2>2. CASE pc'[t] # "hook_dlopen"
    <3>1. /\ UNCHANGED <<table, job>> /\ nullOpen'
          /\ \A u \in Threads : pc'[u] = "hook_dlopen" => pc[u] = "hook_dlopen"
      BY <1>3, <1>5, <2>2 DEF OpenLibdl, Goto
    <3> QED
      BY <3>1 DEF OnLoadInv
  <2> QED
    BY <2>1, <2>2
<1>6. ASSUME NEW t \in Threads, InitJni(t) PROVE OnLoadInv'
  <2>1. pc[t] = "hook_dlopen" /\ job[t].todo = <<>> /\ UNCHANGED <<table, job>>
        /\ pc' = [pc EXCEPT ![t] = "app"]
    BY <1>6 DEF InitJni, Goto, Busy, dobby
  <2> QED
    BY <1>3, <2>1 DEF OnLoadInv
<1>7. ASSUME UNCHANGED <<table, onload>>, nullOpen => nullOpen',
             \A t \in Threads : pc'[t] = "hook_dlopen" =>
               pc[t] = "hook_dlopen" /\ job'[t].todo = job[t].todo
      PROVE  OnLoadInv'
  BY <1>7 DEF OnLoadInv
<1>8. ASSUME NEW t \in Threads, HookFlutter(t) \/ HookDu(t) PROVE OnLoadInv'
  <2>1. /\ UNCHANGED <<table, onload, nullOpen>>
        /\ \A u \in Threads : u # t => job'[u] = job[u] /\ pc'[u] = pc[u]
        /\ pc'[t] # "hook_dlopen"
    BY <1>3, <1>8 DEF HookFlutter, HookDu, Goto, StartJob, library, end
  <2> QED
    BY <2>1 DEF OnLoadInv
<1>9. ASSUME NEW t \in Threads,
             \/ SkipFlutter(t) \/ FlutterHooked(t) \/ SkipDu(t) \/ DuHooked(t)
             \/ CallOriginal(t) \/ LoseDu(t)
      PROVE  OnLoadInv'
  BY <1>3, <1>7, <1>9
     DEF SkipFlutter, FlutterHooked, SkipDu, DuHooked, CallOriginal, LoseDu, Goto, Leave,
         dobby, library, end
<1>10. ASSUME NEW t \in Threads, InitJniFails(t) \/ FakeDlopenFails(t) \/ UseNullDu(t)
       PROVE  OnLoadInv'
  BY <1>3, <1>7, <1>10 DEF InitJniFails, FakeDlopenFails, UseNullDu, dobby, library
<1>11. CASE CopyByte \/ EndNativeHook
  BY <1>3, <1>7, <1>11, MainIsThread DEF CopyByte, EndNativeHook, Goto, dobby, library, end
<1>12. CASE LoadHookLibrary
  <2>1. onload' = "running" /\ UNCHANGED <<table, job>> /\ pc' = [pc EXCEPT ![Main] = "open_libdl"]
    BY <1>12 DEF LoadHookLibrary, Goto, dobby
  <2> QED
    BY <1>3, <2>1 DEF OnLoadInv
<1>13. ASSUME NEW p \in Packages, DoNativeHook(p) PROVE OnLoadInv'
  BY <1>3, <1>7, <1>13, MainIsThread DEF DoNativeHook, Goto, dobby, library, end
<1>14. ASSUME NEW t \in Threads, NEW l \in Libraries, LoadLibrary(t, l) \/ LoadUnseen(l)
       PROVE  OnLoadInv'
  BY <1>3, <1>7, <1>14 DEF LoadLibrary, LoadUnseen, Goto, dobby, library, end
<1> QED
  BY <1>2, <1>4, <1>5, <1>6, <1>8, <1>9, <1>10, <1>11, <1>12, <1>13, <1>14, MainIsThread
     DEF Next, Request, BridgeCode

-----------------------------------------------------------------------------

(* Outside HookEntry the session stands still, and the library is neither   *)
(* loaded nor told a package.                                               *)
LEMMA OutsideSession ==
  ASSUME TypeOK, InApp \/ \E t \in Threads : InBridge(t)
  PROVE  /\ UNCHANGED <<session, lastPackage>>
         /\ onload = "returned" => onload' = "returned"
         /\ pc'[Main] = "memcpy" => pc[Main] = "memcpy"
<1>1. pc \in [Threads -> Locations]
  BY DEF TypeOK
<1> USE MainIsThread, <1>1 DEF Goto, Leave, name, library
<1>2. CASE InApp
  BY <1>2 DEF InApp, LoadLibrary, LoadUnseen
<1>3. ASSUME NEW t \in Threads, InBridge(t)
      PROVE  /\ UNCHANGED <<session, lastPackage>>
             /\ onload = "returned" => onload' = "returned"
             /\ pc'[Main] = "memcpy" => pc[Main] = "memcpy"
  <2>1. UNCHANGED session
    BY <1>3 DEF InBridge
  <2>2. CASE OpenLibdl(t) \/ InitJni(t) \/ InitJniFails(t)
    BY <2>1, <2>2 DEF OpenLibdl, InitJni, InitJniFails
  <2>3. CASE t = Main /\ (CopyByte \/ EndNativeHook)
    BY <2>1, <2>3 DEF CopyByte, EndNativeHook
  <2>4. CASE CallOriginal(t) \/ SkipFlutter(t) \/ FlutterHooked(t) \/ HookFlutter(t)
    BY <2>1, <2>4 DEF CallOriginal, SkipFlutter, FlutterHooked, HookFlutter
  <2>5. CASE HookDu(t) \/ SkipDu(t) \/ DuHooked(t) \/ FakeDlopenFails(t) \/ Install(t)
    BY <2>1, <2>5 DEF HookDu, SkipDu, DuHooked, FakeDlopenFails, Install
  <2>6. CASE LoseDu(t) \/ UseNullDu(t)
    BY <2>1, <2>6 DEF LoseDu, UseNullDu
  <2> QED
    BY <1>3, <2>2, <2>3, <2>4, <2>5, <2>6 DEF InBridge, BridgeCode
<1> QED
  BY <1>2, <1>3

(* In HookEntry the library changes when it is loaded, or told a package.   *)
LEMMA InsideSession ==
  ASSUME TypeOK, InSession
  PROVE  \/ Tells /\ DoNativeHook(pkg)
         \/ /\ GoesOn \/ Starts \/ SkipsNull \/ Latches
            /\ UNCHANGED lastPackage
            /\ pc'[Main] # "memcpy"
            /\ LoadHookLibrary \/ UNCHANGED vars
<1>1. lastPackage \in Seq(Packages) /\ pc \in [Threads -> Locations]
  BY DEF TypeOK
<1>2. pc[Main] = "app"
  BY DEF InSession, MainIsInJava
<1>3. GoesOn \/ Starts \/ SkipsNull \/ Tells \/ Latches
  BY CallbackEffect DEF InSession
<1>4. CASE LoadHookLibrary
  <2>1. UNCHANGED lastPackage /\ pc'[Main] # "memcpy"
    BY <1>1, <1>4, MainIsThread DEF LoadHookLibrary, Goto, name
  <2>2. ~Tells
    BY <1>1, <2>1 DEF Tells
  <2> QED
    BY <1>3, <1>4, <2>1, <2>2
<1>5. CASE lastPackage' # lastPackage /\ DoNativeHook(pkg)
  BY <1>3, <1>5 DEF GoesOn, Starts, SkipsNull, Latches
<1>6. CASE UNCHANGED vars
  <2>1. ~Tells
    BY <1>1, <1>6 DEF Tells, vars
  <2> QED
    BY <1>2, <1>3, <1>6, <2>1 DEF vars
<1> QED
  BY <1>4, <1>5, <1>6 DEF InSession

(* The other threads' steps do not move the main thread, and an attach ends *)
(* and begins no attempt.                                                   *)
LEMMA AroundSession ==
  ASSUME Around \/ Attach
  PROVE  /\ UNCHANGED <<vars, device, isAppHooked, nullAttach>>
         /\ UNCHANGED step \/ (step = "app" /\ step' = "attach")
<1>1. ASSUME NEW p, S!CopyPlugin(p) \/ S!LoadPackage(p) \/ S!HookAttach(p)
      PROVE  UNCHANGED <<device, isAppHooked, nullAttach, step>>
  BY <1>1 DEF S!CopyPlugin, S!LoadPackage, S!HookAttach, S!history
<1>2. ASSUME NEW context, S!Attach(context)
      PROVE  /\ UNCHANGED <<device, isAppHooked, nullAttach>>
             /\ step = "app" /\ step' = "attach"
  BY <1>2 DEF S!Attach, S!Goto, S!env, S!history
<1> QED
  BY <1>1, <1>2 DEF Around, Attach

(* The two halves stay in step: the library is loaded before it is told a   *)
(* package, and told one before the attempt ends.                           *)
LEMMA NextMeet ==
  ASSUME SessionInv, MeetInv, TypeOK, [PipelineNext]_pipelineVars
  PROVE  MeetInv'
<1>1. CASE UNCHANGED <<vars, step, isAppHooked, nullAttach>>
  BY <1>1 DEF MeetInv, vars
<1>2. CASE Around \/ Attach
  <2>1. UNCHANGED <<lastPackage, onload, pc>>
    BY <1>2, AroundSession DEF vars
  <2> QED
    BY <1>2, <2>1, AroundSession DEF MeetInv
<1>3. CASE InApp \/ \E t \in Threads : InBridge(t)
  BY <1>3, OutsideSession DEF MeetInv, session
<1>4. CASE InSession
  <2>1. CASE Tells /\ DoNativeHook(pkg)
    <3>1. onload = "returned" /\ onload' = "returned" /\ lastPackage' # <<>>
      BY <2>1 DEF TypeOK, DoNativeHook, library
    <3>2. ~isAppHooked'
      BY <2>1 DEF Tells, SessionInv, Attempting
    <3> QED
      BY <3>1, <3>2 DEF MeetInv
  <2>2. ASSUME GoesOn \/ Starts \/ SkipsNull \/ Latches, UNCHANGED lastPackage,
               pc'[Main] # "memcpy", LoadHookLibrary \/ UNCHANGED vars
        PROVE  MeetInv'
    <3>1. onload = "returned" => onload' = "returned"
      BY <2>2 DEF LoadHookLibrary, vars
    <3>2. (step \in {"intent", "class", "ssl"} => lastPackage # <<>>)'
      BY <2>2 DEF MeetInv, GoesOn, Starts, SkipsNull, Latches
    <3>3. (step = "latch" \/ isAppHooked => nullAttach \/ lastPackage # <<>>)'
      BY <2>2 DEF MeetInv, GoesOn, Starts, SkipsNull, Latches
    <3> QED
      BY <2>2, <3>1, <3>2, <3>3 DEF MeetInv
  <2> QED
    BY <1>4, <2>1, <2>2, InsideSession
<1> QED
  BY <1>1, <1>2, <1>3, <1>4 DEF PipelineNext, pipelineVars, session

(* Where no startHookJava follows, the library is told one package.         *)
LEMMA NextOnce ==
  ASSUME SessionInv, OnceInv, TypeOK, [PipelineNext]_pipelineVars
  PROVE  OnceInv'
<1>1. CASE UNCHANGED <<vars, device, step, isAppHooked>>
  BY <1>1 DEF OnceInv, vars
<1>2. CASE Around \/ Attach
  <2>1. UNCHANGED lastPackage
    BY <1>2, AroundSession DEF vars
  <2> QED
    BY <1>2, <2>1, AroundSession DEF OnceInv
<1>3. CASE InApp \/ \E t \in Threads : InBridge(t)
  BY <1>3, OutsideSession DEF OnceInv, session
<1>4. CASE InSession
  <2>1. UNCHANGED device
    BY <1>4, CallbackEffect DEF InSession
  <2>2. ASSUME Tells, ~device.maimai PROVE OnceInv'
    <3>1. ~isAppHooked /\ lastPackage = <<>>
      BY <2>2 DEF Tells, SessionInv, OnceInv, Attempting
    <3>2. Len(lastPackage') = 1 /\ step' = "latch"
      BY <2>2, <3>1 DEF Tells
    <3> QED
      BY <2>1, <3>2 DEF OnceInv
  <2>3. ASSUME GoesOn \/ Starts \/ SkipsNull \/ Latches, UNCHANGED lastPackage
        PROVE  OnceInv'
    BY <2>1, <2>3 DEF OnceInv, GoesOn, Starts, SkipsNull, Latches
  <2>4. CASE device.maimai
    BY <2>1, <2>4 DEF OnceInv
  <2> QED
    BY <1>4, <2>2, <2>3, <2>4, InsideSession
<1> QED
  BY <1>1, <1>2, <1>3, <1>4 DEF PipelineNext, pipelineVars, session

-----------------------------------------------------------------------------

(* Each step of a DobbyHook call leaves what HookedProcess sees, or lets    *)
(* android_dlopen_ext lead to the module, or hooks the Flutter function in  *)
(* a process that was told of likeread.                                     *)
LEMMA InstallPromises ==
  ASSUME Inv, Inv', NEW t \in Threads, Install(t)
  PROVE  LET ext == table["android_dlopen_ext"].patched
             flutter == table["flutter"].entry IN
         \/ UNCHANGED <<ext, flutter>>
         \/ ext' = TRUE /\ UNCHANGED flutter
         \/ Told(Likeread) /\ flutter' = TRUE /\ UNCHANGED ext
<1>1. DobbyTypeOK /\ DobbyStep(t)
  BY DEF Inv, HookInv, TypeOK, Install
<1>2. Busy(t) /\ Target(t) \in HookedSites
  BY <1>1, DobbyEffect
<1>3. PICK hook \in HookType :
        /\ table' = [table EXCEPT ![Target(t)] = hook]
        /\ table[Target(t)].patched => hook.patched
        /\ hook.entry = table[Target(t)].entry \/ hook.entry
  <2>1. PICK hook \in HookType, left \in {job[t].todo, Tail(job[t].todo)},
             at \in Steps, copy \in Origins : Effect(t, hook, left, at, copy)
    BY <1>1, DobbyEffect
  <2>2. table' = [table EXCEPT ![Target(t)] = hook]
    BY <2>1 DEF Effect
  <2>3. /\ table[Target(t)].patched => hook.patched
        /\ hook.entry = table[Target(t)].entry \/ hook.entry
    BY <2>1 DEF Effect
  <2> QED
    BY <2>2, <2>3
<1>4. \A f \in HookedSites :
        table'[f] = IF f = Target(t) THEN hook ELSE table[f]
  BY <1>1, <1>2, <1>3 DEF DobbyTypeOK
<1>5. /\ "android_dlopen_ext" \in HookedSites /\ "flutter" \in HookedSites
      /\ table["android_dlopen_ext"].patched \in BOOLEAN
      /\ hook.patched \in BOOLEAN /\ hook.entry \in BOOLEAN
  BY <1>1 DEF HookedSites, DobbyTypeOK, HookType
<1>6. CASE Target(t) = "flutter"
  <2>1. table'["flutter"].entry => Told(Likeread)
    BY DEF Inv, FlutterInv, Told, Install, name
  <2>2. table'["flutter"].entry \in {table["flutter"].entry, TRUE}
    BY <1>3, <1>4, <1>5, <1>6
  <2> QED
    BY <1>4, <1>5, <1>6, <2>1, <2>2
<1>7. CASE Target(t) # "flutter"
  <2>1. UNCHANGED table["flutter"].entry
    BY <1>4, <1>5, <1>7
  <2>2. \/ UNCHANGED table["android_dlopen_ext"].patched
        \/ table'["android_dlopen_ext"].patched
    BY <1>3, <1>4, <1>5
  <2> QED
    BY <1>4, <1>5, <2>1, <2>2
<1> QED
  BY <1>6, <1>7

(* What the watching code and the session keep of HookedProcess, step by    *)
(* step.                                                                    *)
LEMMA PromiseSteps ==
  ASSUME Inv, Inv', SessionInv, MeetInv, [PipelineNext]_pipelineVars
  PROVE  [P!Next]_(P!vars)
<1> DEFINE W == table["android_dlopen_ext"].patched \/ onload = "returned"
           T == {lastPackage[i] : i \in DOMAIN lastPackage}
           F == table["flutter"].entry
           D == isAppHooked /\ ~nullAttach
<1>1. SUFFICES \/ UNCHANGED <<W, T, F, D>>
               \/ W' = TRUE /\ UNCHANGED <<T, F, D>>
               \/ /\ W /\ ~D /\ UNCHANGED <<W, F, D>>
                  /\ \E p \in Packages : T' = T \cup {p}
               \/ W /\ Likeread \in T /\ F' = TRUE /\ UNCHANGED <<W, T, D>>
               \/ T # {} /\ D' = TRUE /\ UNCHANGED <<W, T, F>>
  BY DEF P!Next, P!vars, P!Watch, P!Tell, P!HookFlutter, P!Settle
<1>2. /\ TypeOK /\ lastPackage \in Seq(Packages) /\ DobbyTypeOK
      /\ W \in BOOLEAN /\ F \in BOOLEAN
  BY DEF Inv, HookInv, TypeOK, DobbyTypeOK, HookedSites
<1>3. CASE UNCHANGED <<vars, isAppHooked, nullAttach>>
  BY <1>3 DEF vars
<1>4. CASE Around \/ Attach
  BY <1>3, <1>4, AroundSession
<1>5. CASE InApp
  <2>1. UNCHANGED <<table, lastPackage, onload, isAppHooked, nullAttach>>
    BY <1>5 DEF InApp, LoadLibrary, LoadUnseen, name, library, dobby, session
  <2> QED
    BY <2>1
<1>6. ASSUME NEW t \in Threads, InBridge(t)
      PROVE  \/ UNCHANGED <<W, T, F, D>>
             \/ W' = TRUE /\ UNCHANGED <<T, F, D>>
             \/ W /\ Likeread \in T /\ F' = TRUE /\ UNCHANGED <<W, T, D>>
  <2>1. /\ UNCHANGED <<lastPackage, isAppHooked, nullAttach>>
        /\ (onload = "returned" => onload' = "returned")
    BY <1>2, <1>6, OutsideSession DEF session
  <2>2. UNCHANGED <<T, D>>
    BY <2>1
  <2>3. CASE Install(t)
    <3>1. UNCHANGED onload
      BY <2>3 DEF Install, library
    <3>2. Told(Likeread) => W /\ Likeread \in T
      BY DEF Told, MeetInv
    <3> QED
      BY <2>2, <2>3, <3>1, <3>2, InstallPromises
  <2>4. CASE UNCHANGED table
    <3>1. UNCHANGED F
      BY <2>4
    <3>2. UNCHANGED W \/ W' = TRUE
      BY <1>2, <2>1, <2>4
    <3> QED
      BY <2>2, <3>1, <3>2
  <2> QED
    BY <1>6, <2>3, <2>4
       DEF InBridge, BridgeCode, OpenLibdl, InitJni, InitJniFails, CopyByte, EndNativeHook,
           CallOriginal, HookFlutter, SkipFlutter, FlutterHooked, HookDu, SkipDu, DuHooked,
           FakeDlopenFails, LoseDu, UseNullDu, dobby
<1>7. CASE InSession
  <2>1. CASE Tells /\ DoNativeHook(pkg)
    <3>1. W /\ UNCHANGED <<W, F>>
      BY <2>1 DEF DoNativeHook, library, dobby
    <3>2. ~D /\ UNCHANGED D /\ pkg \in Packages
      BY <2>1 DEF Tells, SessionInv, Attempting
    <3>3. T' = T \cup {pkg}
      BY <1>2, <2>1 DEF Tells
    <3> QED
      BY <3>1, <3>2, <3>3
  <2>2. ASSUME GoesOn \/ Starts \/ SkipsNull \/ Latches, UNCHANGED lastPackage,
               LoadHookLibrary \/ UNCHANGED vars
        PROVE  UNCHANGED <<W, T, F, D>> \/ (T # {} /\ D' = TRUE /\ UNCHANGED <<W, T, F>>)
    <3>1. UNCHANGED <<W, T, F>>
      BY <2>2 DEF LoadHookLibrary, dobby, vars
    <3>2. ASSUME Latches PROVE UNCHANGED D \/ (T # {} /\ D' = TRUE)
      <4>1. nullAttach \/ lastPackage # <<>>
        BY <3>2 DEF Latches, MeetInv
      <4>2. lastPackage # <<>> => T # {}
        <5>1. lastPackage # <<>> => 1 \in DOMAIN lastPackage
          BY <1>2
        <5> QED
          BY <5>1
      <4>3. nullAttach => UNCHANGED D
        BY <3>2 DEF Latches
      <4>4. ~nullAttach => D' = TRUE
        BY <3>2 DEF Latches
      <4> QED
        BY <4>1, <4>2, <4>3, <4>4
    <3>3. GoesOn \/ Starts \/ SkipsNull => UNCHANGED D
      BY DEF GoesOn, Starts, SkipsNull
    <3> QED
      BY <2>2, <3>1, <3>2, <3>3
  <2> QED
    BY <1>2, <1>7, <2>1, <2>2, InsideSession
<1> QED
  BY <1>3, <1>4, <1>5, <1>6, <1>7 DEF PipelineNext, pipelineVars, session

-----------------------------------------------------------------------------

(* All of it, forever.                                                      *)
PipelineInv == Inv /\ SessionInv /\ MeetInv /\ OnLoadInv /\ OnceInv

LEMMA PipelineInvAlways == PipelineSpec => []PipelineInv
<1>1. PipelineInit => MeetInv /\ OnLoadInv /\ OnceInv
  <2> SUFFICES ASSUME PipelineInit PROVE MeetInv /\ OnLoadInv /\ OnceInv
    OBVIOUS
  <2>1. /\ lastPackage = <<>> /\ onload = "none" /\ step = "app" /\ isAppHooked = FALSE
        /\ \A t \in Threads : pc[t] = "app"
        /\ device.maimai = (Own # Likeread)
    BY DEF PipelineInit, Init, S!Init
  <2> QED
    BY <2>1 DEF MeetInv, OnLoadInv, OnceInv
<1>2. /\ Inv /\ Inv' /\ SessionInv /\ MeetInv /\ OnLoadInv /\ OnceInv
      /\ [PipelineNext]_pipelineVars
      => MeetInv' /\ OnLoadInv' /\ OnceInv'
  <2> SUFFICES ASSUME Inv, Inv', SessionInv, MeetInv, OnLoadInv, OnceInv,
                      [PipelineNext]_pipelineVars
               PROVE  MeetInv' /\ OnLoadInv' /\ OnceInv'
    OBVIOUS
  <2>1. TypeOK
    BY DEF Inv, HookInv
  <2> QED
    BY <2>1, BridgeSteps, NextOnLoad, NextMeet, NextOnce
<1> QED
  BY <1>1, <1>2, SessionAlways, PipelineIsBridge, InvAlways, PTL DEF PipelineSpec, PipelineInv

(* HookEntry.java and native-lib.cpp together implement HookedProcess, for  *)
(* any threads, packages and devices, and however loads, packages, attaches *)
(* and the steps of both halves interleave.                                 *)
THEOREM PipelineKeepsPromise == PipelineSpec => KeepsPromise
<1>1. PipelineInit => P!Init
  <2> SUFFICES ASSUME PipelineInit PROVE P!Init
    OBVIOUS
  <2>1. /\ lastPackage = <<>> /\ onload = "none" /\ isAppHooked = FALSE
        /\ \A f \in HookedSites : table[f] = Unhooked
    BY DEF PipelineInit, Init, S!Init, DobbyInit
  <2>2. "android_dlopen_ext" \in HookedSites /\ "flutter" \in HookedSites
    BY DEF HookedSites
  <2>3. {lastPackage[i] : i \in DOMAIN lastPackage} = {}
    BY <2>1
  <2> QED
    BY <2>1, <2>2, <2>3 DEF P!Init, Unhooked
<1>2. PipelineInv /\ PipelineInv' /\ [PipelineNext]_pipelineVars => [P!Next]_(P!vars)
  BY PromiseSteps DEF PipelineInv
<1> QED
  BY <1>1, <1>2, PipelineInvAlways, PTL DEF PipelineSpec, KeepsPromise, P!Spec

(* In any target process a set isAppHooked means that library loads reach   *)
(* the module and go on to the original, unless a callback ran with a null  *)
(* context or a lookup returned NULL.                                       *)
THEOREM HookedIsWatched ==
  PipelineSpec =>
    [](isAppHooked /\ ~nullAttach /\ ~nullOpen => table["android_dlopen_ext"] = Hooked)
<1>1. PipelineInv =>
        (isAppHooked /\ ~nullAttach /\ ~nullOpen => table["android_dlopen_ext"] = Hooked)
  BY DEF PipelineInv, MeetInv, OnLoadInv
<1> QED
  BY <1>1, PipelineInvAlways, PTL

(* And HookEntry is in the composition what HookSession says, so that its   *)
(* properties hold with the library running.                                *)
THEOREM PipelineIsSession == PipelineSpec => S!Spec
<1>1. PipelineInit => S!Init
  BY DEF PipelineInit
<1>2. Inv /\ [PipelineNext]_pipelineVars => [S!Next]_(S!vars)
  <2> SUFFICES ASSUME TypeOK, [PipelineNext]_pipelineVars PROVE S!Next \/ UNCHANGED S!vars
    BY DEF Inv, HookInv
  <2>1. CASE Around
    BY <2>1, ReplacedArePlugins DEF Around, S!Next
  <2>2. CASE InSession \/ Attach
    BY <2>2 DEF InSession, Attach, S!Next
  <2>3. CASE InApp \/ \E t \in Threads : InBridge(t)
    BY <2>3, OutsideSession DEF session, S!vars
  <2>4. CASE UNCHANGED pipelineVars
    BY <2>4 DEF pipelineVars, session, vars, S!vars
  <2> QED
    BY <2>1, <2>2, <2>3, <2>4 DEF PipelineNext
<1> QED
  BY <1>1, <1>2, PipelineIsBridge, InvAlways, PTL DEF PipelineSpec, S!Spec

-----------------------------------------------------------------------------

(* The theorems about HookSession, of the session in the composition.       *)
SP == INSTANCE HookSessionProofs WITH pc <- step, nativePkgs <- lastPackage

(* They are about the specification the composition implements.             *)
LEMMA SameSession == S!Spec => SP!Spec
<1> USE DEF S!Plugins, SP!Plugins, S!PluginNames, SP!PluginNames, S!Goto, SP!Goto,
            S!env, SP!env, S!call, SP!call, S!installed, SP!installed, S!history,
            SP!history, S!EndCallback, SP!EndCallback, S!Loading, SP!Loading
<1>1. S!Init => SP!Init
  BY DEF S!Init, SP!Init, S!Device, SP!Device
<1>2. ASSUME NEW p PROVE /\ S!CopyPlugin(p) => SP!CopyPlugin(p)
                         /\ S!LoadPackage(p) => SP!LoadPackage(p)
                         /\ S!HookAttach(p) => SP!HookAttach(p)
                         /\ S!Attach(p) => SP!Attach(p)
  BY DEF S!CopyPlugin, SP!CopyPlugin, S!LoadPackage, SP!LoadPackage,
         S!HookAttach, SP!HookAttach, S!Attach, SP!Attach
<1>3. S!NativeHookFails => SP!NativeHookFails
  BY DEF S!NativeHookFails, SP!NativeHookFails
<1>4. S!PluginLoaded => SP!PluginLoaded
  BY DEF S!PluginLoaded, SP!PluginLoaded
<1>5. \A ways : S!Loads(ways) <=> SP!Loads(ways)
  BY DEF S!Loads, SP!Loads
<1>6. S!StartHookJavaThrows => SP!StartHookJavaThrows
  BY DEF S!StartHookJavaThrows, SP!StartHookJavaThrows
<1>7. S!AttachReturns => SP!AttachReturns
  BY DEF S!AttachReturns, SP!AttachReturns
<1>8. S!AlreadyHooked => SP!AlreadyHooked
  BY DEF S!AlreadyHooked, SP!AlreadyHooked
<1>9. S!StartCallback => SP!StartCallback
  BY DEF S!StartCallback, SP!StartCallback
<1>10. S!FindPlugin => SP!FindPlugin
  BY <1>3 DEF S!FindPlugin, SP!FindPlugin
<1>11. S!SystemLoad => SP!SystemLoad
  BY <1>3, <1>4, <1>5 DEF S!SystemLoad, SP!SystemLoad
<1>12. S!RetryLoad => SP!RetryLoad
  BY <1>3, <1>4, <1>5 DEF S!RetryLoad, SP!RetryLoad
<1>13. S!DoNativeHook => SP!DoNativeHook
  BY <1>3 DEF S!DoNativeHook, SP!DoNativeHook
<1>14. S!GetLaunchIntent => SP!GetLaunchIntent
  BY <1>6 DEF S!GetLaunchIntent, SP!GetLaunchIntent
<1>15. S!HookLoadClass => SP!HookLoadClass
  BY DEF S!HookLoadClass, SP!HookLoadClass
<1>16. S!HookSslWrite => SP!HookSslWrite
  BY <1>6 DEF S!HookSslWrite, SP!HookSslWrite
<1>17. S!Latch => SP!Latch
  BY DEF S!Latch, SP!Latch
<1>18. S!Callback => SP!Callback
  BY <1>7, <1>8, <1>9, <1>10, <1>11, <1>12, <1>13, <1>14, <1>15, <1>16, <1>17
     DEF S!Callback, SP!Callback
<1>19. [S!Next]_(S!vars) => [SP!Next]_(SP!vars)
  <2>1. S!Next => SP!Next
    BY <1>2, <1>18 DEF S!Next, SP!Next
  <2> QED
    BY <2>1 DEF S!vars, SP!vars
<1> QED
  BY <1>1, <1>19, PTL DEF S!Spec, SP!Spec

(* So what HookSession promises holds while the library works and loads.    *)
THEOREM SessionHolds ==
  PipelineSpec => /\ []S!HookedMeansInstalled
                  /\ []S!HooksAreSingle
                  /\ []S!NativeHookRunsOnce
                  /\ S!HookingIsFinal
<1> USE OwnIsPackage, LaunchableArePackages, PackagesAreFinite, AttachesAreCounted,
        NoPackageIsNoPackage
<1>1. SP!Spec => []SP!HookedMeansInstalled
  BY SP!HookedIsInstalled DEF IsFiniteSet, SP!IsFiniteSet
<1>2. SP!Spec => []SP!HooksAreSingle
  BY SP!HooksStaySingle DEF IsFiniteSet, SP!IsFiniteSet
<1>3. SP!Spec => []SP!NativeHookRunsOnce
  BY SP!NativeHookIsBounded DEF IsFiniteSet, SP!IsFiniteSet
<1>4. SP!Spec => SP!HookingIsFinal
  BY SP!HookingStaysFinal DEF IsFiniteSet, SP!IsFiniteSet
<1>5. /\ SP!HookedMeansInstalled => S!HookedMeansInstalled
      /\ SP!HooksAreSingle => S!HooksAreSingle
      /\ SP!NativeHookRunsOnce => S!NativeHookRunsOnce
  BY DEF S!HookedMeansInstalled, SP!HookedMeansInstalled, S!HooksAreSingle,
         SP!HooksAreSingle, S!NativeHookRunsOnce, SP!NativeHookRunsOnce,
         S!Plugins, SP!Plugins, S!PluginNames, SP!PluginNames
<1>6. [isAppHooked => isAppHooked' /\ UNCHANGED SP!installed]_(SP!vars)
        => [isAppHooked => isAppHooked' /\ UNCHANGED S!installed]_(S!vars)
  BY DEF S!installed, SP!installed, S!vars, SP!vars
<1> QED
  BY <1>1, <1>2, <1>3, <1>4, <1>5, <1>6, PipelineIsSession, SameSession, PTL
     DEF S!HookingIsFinal, SP!HookingIsFinal

-----------------------------------------------------------------------------

(* A library that was told one package, whose name fits the buffer, reads   *)
(* it there.                                                                *)
LEMMA OnePackageIsRead ==
  ASSUME PipelineInv, LastPackageIsRead, Len(lastPackage) <= 1,
         \A p \in Packages : NameLength[p] < BufferSize
  PROVE  HookedMeansWatching
<1> SUFFICES ASSUME isAppHooked, ~nullAttach, ~nullOpen
             PROVE  table["android_dlopen_ext"] = Hooked /\ Reads(Last)
  BY DEF HookedMeansWatching, Hooked
<1>1. lastPackage # <<>> /\ pc[Main] # "memcpy"
  BY DEF PipelineInv, MeetInv
<1>2. table["android_dlopen_ext"] = Hooked
  BY <1>1 DEF PipelineInv, MeetInv, OnLoadInv
<1>3. /\ DOMAIN lastPackage = {1} /\ Last = lastPackage[1] /\ Last \in Packages
  <2>1. lastPackage \in Seq(Packages)
    BY DEF PipelineInv, Inv, HookInv, TypeOK
  <2>2. /\ Len(lastPackage) \in DOMAIN lastPackage /\ Len(lastPackage) \in Nat
        /\ DOMAIN lastPackage = 1..Len(lastPackage)
    BY <1>1, <2>1
  <2>3. Len(lastPackage) = 1
    BY <2>2
  <2> QED
    BY <2>1, <2>2, <2>3 DEF Last
<1>4. \A i \in DOMAIN lastPackage : CopyLength(lastPackage[i]) <= NameLength[Last]
  BY <1>3, CopyLengthType
<1> QED
  BY <1>1, <1>2, <1>3, <1>4 DEF LastPackageIsRead

(* In likeread's process, when no name is too long for the buffer, it also  *)
(* means that package_name reads as the package the library was told.       *)
THEOREM LikereadIsWatched ==
  ASSUME Own = Likeread, \A p \in Packages : NameLength[p] < BufferSize
  PROVE  PipelineSpec => []HookedMeansWatching
<1>1. PipelineInv /\ LastPackageIsRead => HookedMeansWatching
  BY OnePackageIsRead DEF PipelineInv, OnceInv
<1> QED
  BY <1>1, PipelineInvAlways, PipelineIsBridge, LastIsRead, PTL

(* In maimai's it means so as long as startHookJava has not thrown, so that *)
(* doNativeHook has not run again with the name of a package loaded later.  *)
THEOREM UnfailingIsWatched ==
  ASSUME \A p \in Packages : NameLength[p] < BufferSize
  PROVE  PipelineSpec => [](javaFailures = 0 => HookedMeansWatching)
<1>1. PipelineInv /\ LastPackageIsRead /\ S!NativeHookRunsOnce =>
        (javaFailures = 0 => HookedMeansWatching)
  BY OnePackageIsRead DEF S!NativeHookRunsOnce
<1> QED
  BY <1>1, PipelineInvAlways, PipelineIsBridge, LastIsRead, SessionHolds, PTL

(* After any number of failures package_name reads as the last package      *)
(* exactly when its name fits and none told before has left more bytes.     *)
THEOREM HookedIsRead ==
  PipelineSpec =>
    [](isAppHooked /\ ~nullAttach =>
         /\ lastPackage # <<>>
         /\ Reads(Last) <=>
              /\ NameLength[Last] < BufferSize
              /\ \A i \in DOMAIN lastPackage : CopyLength(lastPackage[i]) <= NameLength[Last])
<1> DEFINE Fits == /\ NameLength[Last] < BufferSize
                   /\ \A i \in DOMAIN lastPackage :
                        CopyLength(lastPackage[i]) <= NameLength[Last]
<1>1. PipelineInv /\ LastPackageIsRead =>
        (isAppHooked /\ ~nullAttach => lastPackage # <<>> /\ (Reads(Last) <=> Fits))
  BY DEF PipelineInv, MeetInv, LastPackageIsRead
<1> QED
  BY <1>1, PipelineInvAlways, PipelineIsBridge, LastIsRead, PTL

-----------------------------------------------------------------------------

(* fake_dlopen_ext leaves the Flutter branch with the function hooked.      *)
FlutterJobInv ==
  \A t \in Threads : pc[t] = "hook_flutter" => job[t].todo # <<>> \/ table["flutter"] = Hooked

LEMMA NextFlutterJob ==
  ASSUME Inv, Inv', FlutterJobInv, [Next]_vars
  PROVE  FlutterJobInv'
<1>1. CASE UNCHANGED vars
  BY <1>1 DEF vars, FlutterJobInv
<1>2. SUFFICES ASSUME Next PROVE FlutterJobInv'
  BY <1>1
<1>3. /\ pc \in [Threads -> Locations]
      /\ job \in [Threads -> [todo : Seq(HookedSites), step : Steps, copy : Origins]]
      /\ "flutter" \in HookedSites
  BY DEF Inv, HookInv, TypeOK, DobbyTypeOK, HookedSites
<1>4. ASSUME NEW t \in Threads, Install(t) PROVE FlutterJobInv'
  <2>1. DobbyStep(t) /\ UNCHANGED pc
    BY <1>4 DEF Install
  <2>2. table["flutter"] = Hooked => table'["flutter"] = Hooked
    <3>1. table["flutter"].patched => table'["flutter"].patched
      BY <1>2, <1>3, PatchesStay DEF Inv, HookInv, TypeOK
    <3>2. table'["flutter"].patched => table'["flutter"] = Hooked
      BY <1>3 DEF Inv, HookInv, SiteInv, Unhooked, Half
    <3> QED
      BY <3>1, <3>2 DEF Hooked
  <2>3. \A u \in Threads : u # t => job'[u] = job[u]
    BY <1>3, <2>1 DEF DobbyStep, FindHookEntry, RelocatePrologue, PublishOrigin, CommitPatch,
                      ReturnFromCall, GoOn, StartJob
  <2>4. pc[t] = "hook_flutter" => job'[t].todo # <<>> \/ table'["flutter"] = Hooked
    <3>1. pc[t] = "hook_flutter" => job[t].todo = <<"flutter">>
      BY <2>1, BusyCalls DEF Inv
    <3> QED
      BY <1>3, <2>1, <3>1, LastCallHooks DEF Inv
  <2> QED
    BY <2>1, <2>2, <2>3, <2>4 DEF FlutterJobInv
<1>5. ASSUME NEW t \in Threads, HookFlutter(t) PROVE FlutterJobInv'
  <2>1. /\ job' = [job EXCEPT ![t] = Job(<<"flutter">>, "find", "null")]
        /\ pc' = [pc EXCEPT ![t] = "hook_flutter"]
        /\ UNCHANGED table
    BY <1>5 DEF HookFlutter, Goto, StartJob
  <2>2. job'[t].todo # <<>> /\ \A u \in Threads : u # t => job'[u] = job[u] /\ pc'[u] = pc[u]
    BY <1>3, <2>1 DEF Job
  <2> QED
    BY <2>1, <2>2 DEF FlutterJobInv
<1>6. ASSUME UNCHANGED table,
             \A t \in Threads : pc'[t] = "hook_flutter" =>
               pc[t] = "hook_flutter" /\ job'[t] = job[t]
      PROVE  FlutterJobInv'
  BY <1>6 DEF FlutterJobInv
<1>7. ASSUME NEW t \in Threads, OpenLibdl(t) \/ HookDu(t) PROVE FlutterJobInv'
  <2>1. /\ UNCHANGED table
        /\ \A u \in Threads : u # t => job'[u] = job[u] /\ pc'[u] = pc[u]
        /\ pc'[t] # "hook_flutter"
    BY <1>3, <1>7 DEF OpenLibdl, HookDu, Goto, StartJob
  <2> QED
    BY <1>6, <2>1
<1>8. ASSUME NEW t \in Threads,
             \/ InitJni(t) \/ SkipFlutter(t) \/ FlutterHooked(t)
             \/ SkipDu(t) \/ DuHooked(t) \/ CallOriginal(t) \/ LoseDu(t)
      PROVE  FlutterJobInv'
  BY <1>3, <1>6, <1>8
     DEF InitJni, SkipFlutter, FlutterHooked, SkipDu, DuHooked, CallOriginal, LoseDu, Goto,
         Leave, dobby
<1>9. ASSUME NEW t \in Threads, InitJniFails(t) \/ FakeDlopenFails(t) \/ UseNullDu(t)
      PROVE  FlutterJobInv'
  BY <1>6, <1>9 DEF InitJniFails, FakeDlopenFails, UseNullDu, dobby
<1>10. CASE CopyByte \/ EndNativeHook \/ LoadHookLibrary
  BY <1>3, <1>6, <1>10, MainIsThread DEF CopyByte, EndNativeHook, LoadHookLibrary, Goto, dobby
<1>11. ASSUME NEW p \in Packages, DoNativeHook(p) PROVE FlutterJobInv'
  BY <1>3, <1>6, <1>11, MainIsThread DEF DoNativeHook, Goto, dobby
<1>12. ASSUME NEW t \in Threads, NEW l \in Libraries, LoadLibrary(t, l) \/ LoadUnseen(l)
       PROVE  FlutterJobInv'
  BY <1>3, <1>6, <1>12 DEF LoadLibrary, LoadUnseen, Goto, dobby
<1>13. ASSUME NEW t \in Threads, BridgeCode(t) PROVE FlutterJobInv'
  BY <1>4, <1>5, <1>7, <1>8, <1>9, <1>10, <1>13 DEF BridgeCode
<1>14. CASE Request
  BY <1>10, <1>11, <1>12, <1>14, MainIsThread DEF Request
<1> QED
  BY <1>2, <1>13, <1>14 DEF Next

LEMMA FlutterJobAlways == Spec => []FlutterJobInv
<1>1. Init => FlutterJobInv
  BY DEF Init, FlutterJobInv
<1>2. Inv /\ Inv' /\ FlutterJobInv /\ [Next]_vars => FlutterJobInv'
  BY NextFlutterJob
<1> QED
  BY <1>1, <1>2, InvAlways, PTL DEF Spec

(* HookEntry has stopped trying after telling the library likeread's name.  *)
LikereadSettled == isAppHooked /\ lastPackage = <<Likeread>>

(* It stays so, and the library is not called any more.                     *)
LEMMA LikereadStaysSettled ==
  ASSUME Inv, SessionInv, LikereadSettled, [PipelineNext]_pipelineVars
  PROVE  /\ LikereadSettled'
         /\ \/ UNCHANGED vars
            \/ LoadHookLibrary
            \/ InApp
            \/ \E t \in Threads : InBridge(t)
<1>1. TypeOK
  BY DEF Inv, HookInv
<1>2. CASE Around \/ Attach
  BY <1>2, AroundSession DEF LikereadSettled, vars
<1>3. CASE InApp \/ \E t \in Threads : InBridge(t)
  BY <1>1, <1>3, OutsideSession DEF LikereadSettled, session
<1>4. CASE InSession
  <2>1. step \notin Attempting
    BY DEF SessionInv, LikereadSettled
  <2>2. ~Tells
    BY <2>1 DEF Tells, Attempting
  <2> QED
    BY <1>1, <1>4, <2>2, InsideSession
       DEF LikereadSettled, GoesOn, Starts, SkipsNull, Latches
<1> QED
  BY <1>2, <1>3, <1>4 DEF PipelineNext, pipelineVars, session, LikereadSettled, vars

(* The library reads likeread's name then.                                  *)
LEMMA LikereadIsRead ==
  ASSUME PipelineInv, LastPackageIsRead, LikereadSettled, NameLength[Likeread] < BufferSize
  PROVE  Reads(Likeread)
<1>1. lastPackage # <<>> /\ pc[Main] # "memcpy"
  BY DEF LikereadSettled, PipelineInv, MeetInv
<1>2. Last = Likeread /\ \A i \in DOMAIN lastPackage : lastPackage[i] = Likeread
  BY DEF Last, LikereadSettled
<1>3. Likeread \in Packages
  <2>1. lastPackage \in Seq(Packages)
    BY DEF PipelineInv, Inv, HookInv, TypeOK
  <2> QED
    BY <2>1 DEF LikereadSettled
<1>4. CopyLength(Likeread) <= NameLength[Likeread]
  BY <1>3, CopyLengthType
<1> QED
  BY <1>1, <1>2, <1>4 DEF LastPackageIsRead

(* A load of libflutter.so that fake_dlopen_ext has to hook.                *)
LoadsFlutter(t) ==
  /\ LikereadSettled
  /\ lib[t] = "libflutter"
  /\ pc[t] \in {"ori", "package", "hook_flutter"}

(* It goes on to the hook, or the process ends.                             *)
FlutterGoesOn(t) ==
  LoadsFlutter(t) =>
    \/ crashed'
    \/ LoadsFlutter(t)' /\ pc'[t] = pc[t]
    \/ LoadsFlutter(t)' /\ pc[t] = "ori" /\ pc'[t] = "package"
    \/ LoadsFlutter(t)' /\ pc[t] = "package" /\ pc'[t] = "hook_flutter"
    \/ pc[t] = "hook_flutter" /\ table["flutter"].entry

LEMMA FlutterStep ==
  ASSUME PipelineInv, FlutterJobInv, LastPackageIsRead, [PipelineNext]_pipelineVars,
         NameLength[Likeread] < BufferSize, NEW t \in Threads, LoadsFlutter(t)
  PROVE  FlutterGoesOn(t)
<1>1. /\ Inv /\ SessionInv
      /\ pc \in [Threads -> Locations] /\ lib \in [Threads -> Libraries]
  BY DEF PipelineInv, Inv, HookInv, TypeOK
<1>2. LikereadSettled /\ LikereadSettled'
  BY <1>1, LikereadStaysSettled DEF LoadsFlutter
<1>3. Watched(t)
  BY <1>2, LikereadIsRead DEF Watched, LoadsFlutter
<1>4. ASSUME pc'[t] = pc[t], lib'[t] = lib[t] PROVE FlutterGoesOn(t)
  BY <1>2, <1>4 DEF FlutterGoesOn, LoadsFlutter
<1>5. CASE UNCHANGED vars
  BY <1>4, <1>5 DEF vars
<1>6. CASE LoadHookLibrary \/ InApp
  BY <1>1, <1>4, <1>6, MainIsThread
     DEF LoadsFlutter, LoadHookLibrary, InApp, LoadLibrary, LoadUnseen, Goto
<1>7. ASSUME NEW u \in Threads, InBridge(u), u # t PROVE FlutterGoesOn(t)
  <2>1. BridgeCode(u)
    BY <1>7 DEF InBridge
  <2>2. CASE OpenLibdl(u) \/ InitJni(u) \/ InitJniFails(u) \/ Install(u) \/ FakeDlopenFails(u)
    BY <1>1, <1>4, <1>7, <2>2
       DEF OpenLibdl, InitJni, InitJniFails, Install, FakeDlopenFails, Goto
  <2>3. CASE u = Main /\ (CopyByte \/ EndNativeHook)
    BY <1>1, <1>4, <1>7, <2>3 DEF CopyByte, EndNativeHook, Goto
  <2>4. CASE CallOriginal(u) \/ HookFlutter(u) \/ SkipFlutter(u) \/ FlutterHooked(u)
    BY <1>1, <1>4, <1>7, <2>4 DEF CallOriginal, HookFlutter, SkipFlutter, FlutterHooked, Goto
  <2>5. CASE HookDu(u) \/ SkipDu(u) \/ DuHooked(u)
    BY <1>1, <1>4, <1>7, <2>5 DEF HookDu, SkipDu, DuHooked, Goto, Leave
  <2>6. CASE LoseDu(u) \/ UseNullDu(u)
    BY <1>1, <1>4, <1>7, <2>6 DEF LoseDu, UseNullDu, Goto
  <2> QED
    BY <2>1, <2>2, <2>3, <2>4, <2>5, <2>6 DEF BridgeCode
<1>8. CASE InBridge(t)
  <2>1. BridgeCode(t)
    BY <1>8 DEF InBridge
  <2>2. CASE CallOriginal(t)
    BY <1>1, <1>2, <2>2 DEF CallOriginal, Goto, FlutterGoesOn, LoadsFlutter
  <2>3. CASE HookFlutter(t)
    BY <1>1, <1>2, <2>3 DEF HookFlutter, Goto, FlutterGoesOn, LoadsFlutter
  <2>4. CASE FlutterHooked(t)
    <3>1. pc[t] = "hook_flutter" /\ job[t].todo = <<>>
      BY <2>4 DEF FlutterHooked, Goto, Busy
    <3>2. table["flutter"] = Hooked
      BY <3>1 DEF FlutterJobInv
    <3> QED
      BY <3>1, <3>2 DEF FlutterGoesOn, Hooked
  <2>5. CASE FakeDlopenFails(t)
    BY <2>5 DEF FakeDlopenFails, FlutterGoesOn
  <2>6. CASE Install(t)
    BY <1>4, <2>6 DEF Install
  <2>7. ~SkipFlutter(t)
    BY <1>3 DEF SkipFlutter
  <2>8. /\ ~OpenLibdl(t) /\ ~InitJni(t) /\ ~InitJniFails(t)
        /\ ~(t = Main /\ (CopyByte \/ EndNativeHook))
        /\ ~HookDu(t) /\ ~SkipDu(t) /\ ~DuHooked(t) /\ ~LoseDu(t) /\ ~UseNullDu(t)
    BY DEF OpenLibdl, InitJni, InitJniFails, CopyByte, EndNativeHook, HookDu, SkipDu,
           DuHooked, LoseDu, UseNullDu, Goto, Leave, LoadsFlutter
  <2> QED
    BY <2>1, <2>2, <2>3, <2>4, <2>5, <2>6, <2>7, <2>8 DEF BridgeCode
<1> QED
  BY <1>1, <1>2, <1>5, <1>6, <1>7, <1>8, LikereadStaysSettled

(* Once HookEntry has stopped trying with likeread's name, a load of        *)
(* libflutter.so on any thread goes on from the original to the comparison  *)
(* and to the hook, and leaves it with the function hooked, or the process  *)
(* ends.  This is what LateFlutterIsHooked rests on.                        *)
THEOREM FlutterAdvances ==
  ASSUME NameLength[Likeread] < BufferSize
  PROVE  PipelineSpec => [][\A t \in Threads : FlutterGoesOn(t)]_pipelineVars
<1>1. PipelineInv /\ FlutterJobInv /\ LastPackageIsRead /\ [PipelineNext]_pipelineVars
        => [\A t \in Threads : FlutterGoesOn(t)]_pipelineVars
  BY FlutterStep DEF FlutterGoesOn
<1> QED
  BY <1>1, PipelineInvAlways, PipelineIsBridge, LastIsRead, FlutterJobAlways, PTL DEF PipelineSpec
===============================================================================

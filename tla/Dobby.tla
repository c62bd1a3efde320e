-------------------------------- MODULE Dobby --------------------------------
(***************************************************************************)
(* The inline-hook library the native code links against (libdobby.a,      *)
(* include/dobby.h).  Only its binary is in the repository, so the module   *)
(* models what the callers in native-lib.cpp and jni_function_hook.cpp rely *)
(* on: DobbyHook(address, replacement, &origin) makes calls of address run  *)
(* the replacement and stores in origin a way to run the original code.     *)
(*                                                                         *)
(* The order of the effects is that of the shipped object file              *)
(* (FunctionInlineReplaceExport.cc.o): look the address up and return -1    *)
(* when it is hooked with this replacement already; copy the prologue into  *)
(* a relocated stub; record the entry and store the stub in *origin; and    *)
(* patch the prologue last.  There is no lock, so two threads may be        *)
(* anywhere between those steps.  Every address of this program has one     *)
(* replacement, so "hooked with this replacement" is "has an entry".        *)
(***************************************************************************)
EXTENDS Sequences

CONSTANTS Threads,   \* threads of the app process
          Sites      \* the functions some DobbyHook call names

VARIABLES table,     \* per site: entry recorded, prologue patched, *origin
          job        \* per thread: the DobbyHook calls it still has to make

(***************************************************************************)
(* What *origin holds: nothing yet, a stub that runs the original code, or  *)
(* a stub relocated from a prologue that was patched already, which jumps   *)
(* straight back into the replacement.                                      *)
(***************************************************************************)
Origins == {"null", "real", "loop"}

Steps == {"find", "relocate", "publish", "commit"}

Unhooked == [entry |-> FALSE, patched |-> FALSE, ori |-> "null"]

Job(todo, step, copy) == [todo |-> todo, step |-> step, copy |-> copy]

NoJob == Job(<<>>, "find", "null")

DobbyTypeOK ==
  /\ table \in [Sites -> [entry: BOOLEAN, patched: BOOLEAN, ori: Origins]]
  /\ job \in [Threads -> [todo: Seq(Sites), step: Steps, copy: Origins]]

DobbyInit ==
  /\ table = [f \in Sites |-> Unhooked]
  /\ job = [t \in Threads |-> NoJob]

Busy(t) == job[t].todo # <<>>

AtStep(t, step) == Busy(t) /\ job[t].step = step

Target(t) == Head(job[t].todo)

(* A straight-line run of DobbyHook calls, one per element of sites.        *)
StartJob(t, sites) == job' = [job EXCEPT ![t] = Job(sites, "find", "null")]

(* The call t is in returns; its remaining calls follow.                    *)
ReturnFromCall(t) == StartJob(t, Tail(job[t].todo))

GoOn(t, step, copy) == job' = [job EXCEPT ![t] = Job(job[t].todo, step, copy)]

-----------------------------------------------------------------------------

(* FindHookEntry: an address hooked already makes the call return -1, which *)
(* no caller looks at.                                                      *)
FindHookEntry(t) ==
  /\ AtStep(t, "find")
  /\ IF table[Target(t)].entry
     THEN ReturnFromCall(t)
     ELSE GoOn(t, "relocate", "null")
  /\ UNCHANGED table

(* The prologue is copied as it is now, patched or not.                     *)
RelocatePrologue(t) ==
  /\ AtStep(t, "relocate")
  /\ GoOn(t, "publish", IF table[Target(t)].patched THEN "loop" ELSE "real")
  /\ UNCHANGED table

(* AddHookEntry, then *origin_call = relocated stub.                        *)
PublishOrigin(t) ==
  /\ AtStep(t, "publish")
  /\ table' = [table EXCEPT ![Target(t)] =
                 [entry |-> TRUE, patched |-> @.patched, ori |-> job[t].copy]]
  /\ GoOn(t, "commit", job[t].copy)

(* InterceptRouting::Commit: from now on calls of the site run the          *)
(* replacement.                                                             *)
CommitPatch(t) ==
  /\ AtStep(t, "commit")
  /\ table' = [table EXCEPT ![Target(t)] =
                 [entry |-> @.entry, patched |-> TRUE, ori |-> @.ori]]
  /\ ReturnFromCall(t)

DobbyStep(t) ==
  \/ FindHookEntry(t)
  \/ RelocatePrologue(t)
  \/ PublishOrigin(t)
  \/ CommitPatch(t)
=============================================================================

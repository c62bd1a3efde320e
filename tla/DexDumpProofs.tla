---------------------------- MODULE DexDumpProofs ----------------------------
(***************************************************************************)
(* Theorems about DexDump, for any finite set of threads, any limit and any *)
(* lists of dex files.                                                      *)
(***************************************************************************)
EXTENDS DexDump, FiniteSetTheorems, TLAPS

USE MaxIndexIsNat

(* What the proof needs of the types of the variables.                      *)
DumpTypes ==
  /\ index \in Nat
  /\ pc \in [Threads -> Locations]
  /\ old \in [Threads -> Nat]
  /\ written \subseteq Nat
  /\ {rewritten, lost, overlapped} \subseteq BOOLEAN

(* While nobody overlaps, the one dumper holds the value of index.          *)
LoneInv ==
  ~overlapped =>
    /\ ~lost
    /\ index <= MaxIndex
    /\ \A t, u \in Dumpers : t = u
    /\ \A t \in Dumpers : index < MaxIndex
    /\ \A t \in Threads : pc[t] = "increment" => old[t] = index

(* While no increment is lost, every number below index was handed out      *)
(* once: to a file, or to a thread about to open it.                        *)
OnceInv ==
  ~lost =>
    /\ ~rewritten
    /\ \A k \in written : k < index
    /\ \A t \in Threads : pc[t] = "open" => old[t] < index /\ old[t] \notin written
    /\ \A t, u \in Threads : pc[t] = "open" /\ pc[u] = "open" /\ old[t] = old[u] => t = u

(* The inductive invariant.                                                 *)
Inv == DumpTypes /\ LoneInv /\ OnceInv /\ OvershootIsOnePerThread

(* The steps that leave index and the dumpers alone.                        *)
Quiet ==
  /\ \E t \in Threads : \E from \in Locations \ {"read", "increment"},
                           to \in Locations \ {"read", "increment", "open"} :
       pc[t] = from /\ pc' = [pc EXCEPT ![t] = to]
  /\ UNCHANGED <<index, old, written, rewritten, lost, overlapped>>

(* Test and increment of index as DexDump has them, one thread at a time.   *)
Pass(t) ==
  /\ Goto(t, "limit", "read") /\ index < MaxIndex
  /\ overlapped' = (overlapped \/ \E u \in Threads \ {t} : Dumping(u))
  /\ UNCHANGED <<index, old, written, rewritten, lost>>

(* A thread at "open" writes the file of its number, whatever follows.      *)
Write(t) ==
  /\ Goto(t, "open", "cookie")
  /\ written' = written \cup {old[t]}
  /\ rewritten' = (rewritten \/ old[t] \in written)
  /\ UNCHANGED <<index, old, lost, overlapped>>

(* The steps that change none of this.                                      *)
Still == UNCHANGED <<index, pc, old, written, rewritten, lost, overlapped>>

(* What a step does to the variables of the invariant.                      *)
LEMMA StepKinds ==
  ASSUME [Next]_vars
  PROVE  \/ Still \/ Quiet
         \/ \E t \in Threads : Pass(t) \/ ReadIndex(t) \/ WriteIndex(t) \/ Write(t)
<1> USE DEF Goto, globals, disk, loop, races, Locations
<1>1. CASE UNCHANGED vars
  BY <1>1 DEF vars, Still
<1>2. ASSUME NEW t \in Threads, Call(t)
      PROVE  Quiet
  BY <1>2 DEF Call, GetDexFile, Quiet
<1>3. ASSUME NEW t \in Threads, NextElement(t) PROVE Quiet
  BY <1>3 DEF NextElement, Quiet
<1>4. ASSUME NEW t \in Threads, NextCookie(t) PROVE Quiet \/ Still
  BY <1>4 DEF NextCookie, Quiet, Still
<1>5. ASSUME NEW t \in Threads, Latch(t) PROVE Quiet
  BY <1>5 DEF Latch, Quiet
<1>6. ASSUME NEW t \in Threads, TestCanDump(t) PROVE Quiet
  BY <1>6 DEF TestCanDump, Leave, Quiet
<1>7. ASSUME NEW t \in Threads, TestIndex(t) PROVE Quiet \/ Pass(t)
  BY <1>7 DEF TestIndex, Leave, Below, Quiet, Pass
<1>8. ASSUME NEW t \in Threads, WriteFile(t) PROVE Still \/ Write(t)
  BY <1>8 DEF WriteFile, Leave, Still, Write
<1> QED
  BY <1>1, <1>2, <1>3, <1>4, <1>5, <1>6, <1>7, <1>8 DEF Next, Dump

(* Counting dumpers.                                                        *)
LEMMA ThreadsCount ==
  ASSUME NEW D \in SUBSET Threads
  PROVE  /\ Cardinality(D) \in Nat /\ Cardinality(Threads) \in Nat
         /\ Cardinality(D) <= Cardinality(Threads)
         /\ \A t \in D : Cardinality(D \ {t}) = Cardinality(D) - 1
<1>1. IsFiniteSet(D) /\ Cardinality(D) <= Cardinality(Threads)
  BY ThreadsAreFinite, FS_Subset
<1> QED
  BY <1>1, ThreadsAreFinite, FS_CardinalityType, FS_RemoveElement

(* No thread has dumped anything at first.                                  *)
LEMMA InitInv == Init => Inv
<1> SUFFICES ASSUME Init PROVE Inv
  OBVIOUS
<1>1. DumpTypes
  BY DEF Init, DumpTypes, Locations
<1>2. Dumpers = {}
  BY DEF Init, Dumpers, Dumping
<1>3. LoneInv /\ OnceInv
  BY <1>2 DEF Init, LoneInv, OnceInv
<1>4. Cardinality(Dumpers) = 0 /\ Cardinality(Threads) \in Nat
  BY <1>2, FS_EmptySet, ThreadsCount
<1>5. OvershootIsOnePerThread
  BY <1>4 DEF Init, OvershootIsOnePerThread
<1> QED
  BY <1>1, <1>3, <1>5 DEF Inv

(* Each kind of step keeps the invariant.                                   *)
LEMMA NextInv == Inv /\ [Next]_vars => Inv'
<1> SUFFICES ASSUME Inv, [Next]_vars PROVE Inv'
  OBVIOUS
<1> USE DEF Goto, Locations
<1>0. DumpTypes /\ LoneInv /\ OnceInv /\ OvershootIsOnePerThread
  BY DEF Inv
<1>1. CASE Still
  <2>1. Dumpers' = Dumpers
    BY <1>1 DEF Still, Dumpers, Dumping
  <2>2. DumpTypes' /\ LoneInv' /\ OnceInv' /\ OvershootIsOnePerThread'
    BY <1>0, <1>1, <2>1 DEF Still, DumpTypes, LoneInv, OnceInv, OvershootIsOnePerThread
  <2> QED
    BY <2>2 DEF Inv
<1>2. CASE Quiet
  <2>1. Dumpers' = Dumpers
    BY <1>0, <1>2 DEF Quiet, Dumpers, Dumping, DumpTypes
  <2>2. \A t \in Threads : (pc'[t] = "increment" <=> pc[t] = "increment")
                           /\ (pc'[t] = "open" => pc[t] = "open")
    BY <1>0, <1>2 DEF Quiet, DumpTypes
  <2>3. DumpTypes'
    BY <1>0, <1>2 DEF Quiet, DumpTypes
  <2>4. LoneInv'
    BY <1>0, <1>2, <2>1, <2>2 DEF Quiet, LoneInv
  <2>5. OnceInv'
    BY <1>0, <1>2, <2>2 DEF Quiet, OnceInv
  <2>6. OvershootIsOnePerThread'
    BY <1>0, <1>2, <2>1 DEF Quiet, OvershootIsOnePerThread
  <2> QED
    BY <2>3, <2>4, <2>5, <2>6 DEF Inv
<1>3. ASSUME NEW t \in Threads, Pass(t)
      PROVE  Inv'
  <2>1. Dumpers' = Dumpers \cup {t} /\ t \notin Dumpers
    BY <1>0, <1>3 DEF Pass, Dumpers, Dumping, DumpTypes
  <2>2. \A u \in Threads : (pc'[u] = "increment" <=> pc[u] = "increment")
                           /\ (pc'[u] = "open" <=> pc[u] = "open")
    BY <1>0, <1>3 DEF Pass, DumpTypes
  <2>3. DumpTypes'
    BY <1>0, <1>3 DEF Pass, DumpTypes
  <2>4. ~overlapped' => ~overlapped /\ Dumpers = {}
    BY <1>0, <1>3, <2>1 DEF Pass, Dumpers, DumpTypes
  <2>5. LoneInv'
    BY <1>0, <1>3, <2>1, <2>2, <2>4 DEF Pass, LoneInv
  <2>6. OnceInv'
    BY <1>0, <1>3, <2>2 DEF Pass, OnceInv
  <2>7. OvershootIsOnePerThread'
    <3>1. Dumpers' \in SUBSET Threads
      BY DEF Dumpers
    <3>2. Cardinality(Dumpers') \in Nat /\ Cardinality(Threads) \in Nat
          /\ Cardinality(Dumpers') <= Cardinality(Threads)
      BY <3>1, ThreadsCount
    <3> QED
      BY <1>3, <1>0, <3>2 DEF Pass, OvershootIsOnePerThread, DumpTypes
  <2> QED
    BY <2>3, <2>5, <2>6, <2>7 DEF Inv
<1>4. ASSUME NEW t \in Threads, ReadIndex(t)
      PROVE  Inv'
  <2> USE <1>4 DEF ReadIndex, globals, disk, loop, races
  <2>1. Dumpers' = Dumpers /\ t \in Dumpers
    BY <1>0 DEF Dumpers, Dumping, DumpTypes
  <2>2. DumpTypes'
    BY <1>0 DEF DumpTypes
  <2>3. LoneInv'
    BY <1>0, <2>1 DEF LoneInv, DumpTypes
  <2>4. OnceInv'
    BY <1>0 DEF OnceInv, DumpTypes
  <2>5. OvershootIsOnePerThread'
    BY <1>0, <2>1 DEF OvershootIsOnePerThread
  <2> QED
    BY <2>2, <2>3, <2>4, <2>5 DEF Inv
<1>5. ASSUME NEW t \in Threads, WriteIndex(t)
      PROVE  Inv'
  <2> USE <1>5 DEF WriteIndex, disk, loop, races
  <2>1. Dumpers' = Dumpers \ {t} /\ t \in Dumpers
    BY <1>0 DEF Dumpers, Dumping, DumpTypes
  <2>2. DumpTypes'
    BY <1>0 DEF DumpTypes
  <2>3. ~lost' => ~lost /\ old[t] = index /\ index' = index + 1
    BY <1>0 DEF DumpTypes
  <2>4. LoneInv'
    <3> SUFFICES ASSUME ~overlapped' PROVE LoneInv'
      BY DEF LoneInv
    <3>1. ~overlapped /\ old[t] = index /\ index < MaxIndex /\ Dumpers = {t} /\ ~lost
      BY <1>0, <2>1 DEF LoneInv
    <3>2. Dumpers' = {} /\ ~lost' /\ index' = index + 1
      BY <1>0, <2>1, <3>1 DEF DumpTypes
    <3>3. \A u \in Threads : pc'[u] # "increment"
      BY <3>2 DEF Dumpers, Dumping
    <3> QED
      BY <1>0, <3>1, <3>2, <3>3 DEF LoneInv, DumpTypes
  <2>5. OnceInv'
    <3> SUFFICES ASSUME ~lost' PROVE OnceInv'
      BY DEF OnceInv
    <3>1. /\ ~rewritten'
          /\ \A k \in written : k < index
          /\ \A u \in Threads : pc[u] = "open" => old[u] < index /\ old[u] \notin written
          /\ \A u, v \in Threads : pc[u] = "open" /\ pc[v] = "open" /\ old[u] = old[v] => u = v
      BY <1>0, <2>3 DEF OnceInv
    <3>2. \A u \in Threads : pc'[u] = "open" <=> (pc[u] = "open" \/ u = t)
      BY <1>0 DEF DumpTypes
    <3>3. index \in Nat /\ index' = index + 1 /\ old[t] = index /\ old' = old /\ written' = written
      BY <1>0, <2>3 DEF DumpTypes
    <3>4. \A k \in written' : k < index'
      <4> SUFFICES ASSUME NEW k \in written PROVE k < index + 1
        BY <3>3
      <4>1. k \in Nat /\ k < index
        BY <1>0, <3>1 DEF DumpTypes
      <4> QED
        BY <3>3, <4>1
    <3>5. \A u \in Threads : pc'[u] = "open" => old'[u] < index' /\ old'[u] \notin written'
      BY <1>0, <3>1, <3>2, <3>3 DEF DumpTypes
    <3>6. \A u, v \in Threads : pc'[u] = "open" /\ pc'[v] = "open" /\ old'[u] = old'[v] => u = v
      BY <1>0, <3>1, <3>2, <3>3 DEF DumpTypes
    <3> QED
      BY <3>1, <3>4, <3>5, <3>6 DEF OnceInv
  <2>6. OvershootIsOnePerThread'
    <3>1. Dumpers \in SUBSET Threads
      BY DEF Dumpers
    <3>2. Cardinality(Dumpers) \in Nat /\ Cardinality(Threads) \in Nat
          /\ Cardinality(Dumpers') = Cardinality(Dumpers) - 1
      BY <2>1, <3>1, ThreadsCount
    <3> QED
      BY <1>0, <2>3, <3>2 DEF OvershootIsOnePerThread, DumpTypes
  <2> QED
    BY <2>2, <2>4, <2>5, <2>6 DEF Inv
<1>6. ASSUME NEW t \in Threads, Write(t)
      PROVE  Inv'
  <2> USE <1>6 DEF Write
  <2>1. Dumpers' = Dumpers
    BY <1>0 DEF Dumpers, Dumping, DumpTypes
  <2>2. \A u \in Threads : /\ pc'[u] = "increment" <=> pc[u] = "increment"
                           /\ pc'[u] = "open" <=> (pc[u] = "open" /\ u # t)
    BY <1>0 DEF DumpTypes
  <2>3. DumpTypes'
    BY <1>0 DEF DumpTypes
  <2>4. LoneInv'
    BY <1>0, <2>1, <2>2 DEF LoneInv
  <2>5. OnceInv'
    BY <1>0, <2>2 DEF OnceInv, DumpTypes
  <2>6. OvershootIsOnePerThread'
    BY <1>0, <2>1 DEF OvershootIsOnePerThread
  <2> QED
    BY <2>3, <2>4, <2>5, <2>6 DEF Inv
<1> QED
  BY <1>1, <1>2, <1>3, <1>4, <1>5, <1>6, StepKinds

(* So it holds forever.                                                     *)
LEMMA InvHolds == Spec => []Inv
  BY InitInv, NextInv, PTL DEF Spec

(* A thread that is alone between test and increment never exceeds the      *)
(* limit of line 203, whatever the limit is, and N threads open at most     *)
(* N - 1 files more, unless an increment of index is lost.                  *)
THEOREM OvershootIsBounded == Spec => []LimitHolds
<1>1. Inv => LimitHolds
  BY DEF Inv, LoneInv, LimitHolds, LoneDumperKeepsLimit
<1> QED
  BY <1>1, InvHolds, PTL

(* Nor is any of those files opened twice.                                  *)
THEOREM FilesAreKept == Spec => []RewriteNeedsLostIncrement
<1>1. Inv => RewriteNeedsLostIncrement
  BY DEF Inv, DumpTypes, OnceInv, RewriteNeedsLostIncrement
<1> QED
  BY <1>1, InvHolds, PTL
=============================================================================

-------------------------------- MODULE DexDump --------------------------------
(***************************************************************************)
(* HookEntry.getDexFile and getDexFileNative of native-lib.cpp: once a dex   *)
(* file of one particular length has been seen, the next files passed to     *)
(* the native method are written to /sdcard/maimai-dex/<index>.dex, as long  *)
(* as index is below 4.  canDump and index are globals without a lock.      *)
(*                                                                         *)
(* getDexFile is a public method whose only caller, the hook of loadClass,  *)
(* has the call commented out (HookEntry.java 116).  That hook runs on       *)
(* whatever thread loads a class, so the model lets every thread call it.   *)
(***************************************************************************)
EXTENDS Integers, Sequences, FiniteSets

CONSTANTS
  Threads,
  MaxIndex,     \* 4: the limit of line 203
  Cookies,      \* the values of mCookie of a dex element
  MaxElements   \* bound: dex elements of a class loader

ASSUME MaxIndexIsNat == MaxIndex \in Nat \ {0}

(* A cookie is a sequence of pointers: null, a dex file, or the dex file of *)
(* 0xb3d65c bytes that line 202 waits for.                                  *)
Pointers == {"null", "dex", "trigger"}

ASSUME ThreadsAreFinite == IsFiniteSet(Threads)

ASSUME CookiesAreSequences == Cookies \subseteq Seq(Pointers)

VARIABLES
  index, canDump,  \* the globals
  pc,              \* per thread: where it is
  elements,        \* per thread: dexElements still to visit
  cookie,          \* per thread: the rest of mCookie of the element it is at
  old,             \* per thread: the index that sprintf read
  written,         \* the numbers of the files opened for writing
  crashed,         \* the process is gone
  rewritten,       \* history: a file was opened again
  lost,            \* history: an increment of index was overwritten
  overlapped       \* history: two threads were between test and increment

vars == <<index, canDump, pc, elements, cookie, old, written, crashed,
          rewritten, lost, overlapped>>

Locations == {"app", "element", "cookie", "latch", "allowed", "limit", "read",
              "increment", "open"}

TypeOK ==
  /\ index \in Nat
  /\ canDump \in BOOLEAN
  /\ pc \in [Threads -> Locations]
  /\ elements \in [Threads -> Seq(Cookies)]
  /\ cookie \in [Threads -> Seq(Pointers)]
  /\ old \in [Threads -> Nat]
  /\ written \subseteq Nat
  /\ {crashed, rewritten, lost, overlapped} \subseteq BOOLEAN

Init ==
  /\ index = 0 /\ canDump = FALSE
  /\ pc = [t \in Threads |-> "app"]
  /\ elements = [t \in Threads |-> <<>>]
  /\ cookie = [t \in Threads |-> <<>>]
  /\ old = [t \in Threads |-> 0]
  /\ written = {}
  /\ crashed = FALSE
  /\ rewritten = FALSE /\ lost = FALSE /\ overlapped = FALSE

Goto(t, from, to) == pc[t] = from /\ pc' = [pc EXCEPT ![t] = to]

globals == <<index, canDump>>

disk == <<written, rewritten, crashed>>

races == <<lost, overlapped>>

loop == <<elements, cookie>>

-----------------------------------------------------------------------------

(* getDexFile of a class loader.                                            *)
GetDexFile(t, list) ==
  /\ Goto(t, "app", "element")
  /\ elements' = [elements EXCEPT ![t] = list]
  /\ UNCHANGED <<globals, disk, cookie, old, races>>

(* Lines 139-145: an element whose mCookie is too short ends the method,     *)
(* and the elements behind it are not visited.                              *)
NextElement(t) ==
  /\ pc[t] = "element"
  /\ IF elements[t] = <<>> \/ Len(Head(elements[t])) < 2
     THEN /\ Goto(t, "element", "app")
          /\ elements' = [elements EXCEPT ![t] = <<>>]
          /\ UNCHANGED cookie
     ELSE /\ Goto(t, "element", "cookie")
          /\ elements' = [elements EXCEPT ![t] = Tail(@)]
          /\ cookie' = [cookie EXCEPT ![t] = Head(elements[t])]
  /\ UNCHANGED <<globals, disk, old, races>>

(* Lines 146-152: a null pointer is skipped.                                *)
NextCookie(t) ==
  /\ pc[t] = "cookie"
  /\ \/ cookie[t] = <<>> /\ Goto(t, "cookie", "element") /\ UNCHANGED cookie
     \/ /\ cookie[t] # <<>> /\ Head(cookie[t]) = "null"
        /\ cookie' = [cookie EXCEPT ![t] = Tail(@)]
        /\ UNCHANGED pc
     \/ /\ cookie[t] # <<>> /\ Head(cookie[t]) # "null"
        /\ Goto(t, "cookie", "latch")
        /\ UNCHANGED cookie
  /\ UNCHANGED <<globals, disk, elements, old, races>>

(* getDexFileNative(mCookie[i]) returns.                                    *)
Leave(t, from) ==
  /\ Goto(t, from, "cookie")
  /\ cookie' = [cookie EXCEPT ![t] = Tail(@)]

(* Line 202.                                                                *)
Latch(t) ==
  /\ Goto(t, "latch", "allowed")
  /\ canDump' = (canDump \/ Head(cookie[t]) = "trigger")
  /\ UNCHANGED <<index, disk, loop, old, races>>

(* Line 203 reads canDump, then index.                                      *)
TestCanDump(t) ==
  /\ IF canDump THEN Goto(t, "allowed", "limit") /\ UNCHANGED cookie
                ELSE Leave(t, "allowed")
  /\ UNCHANGED <<globals, disk, elements, old, races>>

(* Mutation of Below: one file too many.                                    *)
BelowOrEqual == index <= MaxIndex

Below == index < MaxIndex

Dumping(t) == pc[t] \in {"read", "increment"}

TestIndex(t) ==
  /\ IF Below
     THEN /\ Goto(t, "limit", "read")
          /\ overlapped' = (overlapped \/ \E u \in Threads \ {t} : Dumping(u))
          /\ UNCHANGED cookie
     ELSE Leave(t, "limit") /\ UNCHANGED overlapped
  /\ UNCHANGED <<globals, disk, elements, old, lost>>

(* Line 206: index is read, then written.                                   *)
ReadIndex(t) ==
  /\ Goto(t, "read", "increment")
  /\ old' = [old EXCEPT ![t] = index]
  /\ UNCHANGED <<globals, disk, loop, races>>

(* Mutation of WriteIndex: the increment is forgotten.                      *)
WriteSameIndex(t) ==
  /\ Goto(t, "increment", "open")
  /\ index' = old[t]
  /\ lost' = (lost \/ index # old[t])
  /\ UNCHANGED <<canDump, disk, loop, old, overlapped>>

WriteIndex(t) ==
  /\ Goto(t, "increment", "open")
  /\ index' = old[t] + 1
  /\ lost' = (lost \/ index # old[t])
  /\ UNCHANGED <<canDump, disk, loop, old, overlapped>>

(* Lines 207-209: the file is opened for writing, which truncates it, and   *)
(* written; without it fwrite is given a null pointer.                      *)
WriteFile(t) ==
  /\ \/ /\ Leave(t, "open")
        /\ written' = written \cup {old[t]}
        /\ rewritten' = (rewritten \/ old[t] \in written)
        /\ UNCHANGED crashed
     \/ /\ pc[t] = "open"
        /\ crashed' = TRUE
        /\ UNCHANGED <<pc, cookie, written, rewritten>>
  /\ UNCHANGED <<globals, elements, old, races>>

Dump(t) ==
  /\ ~crashed
  /\ \/ NextElement(t) \/ NextCookie(t) \/ Latch(t) \/ TestCanDump(t)
     \/ TestIndex(t) \/ ReadIndex(t) \/ WriteIndex(t) \/ WriteFile(t)

Lists == UNION {[1..k -> Cookies] : k \in 0..MaxElements}

Call(t) == ~crashed /\ \E list \in Lists : GetDexFile(t, list)

Next == \E t \in Threads : Call(t) \/ Dump(t)

Spec == Init /\ [][Next]_vars

-----------------------------------------------------------------------------

Dumpers == {t \in Threads : Dumping(t)}

(* A thread alone in the test and increment of index respects the limit:    *)
(* at most MaxIndex files, through any number of class loaders.             *)
LoneDumperKeepsLimit == ~overlapped => index <= MaxIndex /\ ~lost

(* Threads that all pass the test before one of them counts may exceed it,  *)
(* by one file each, as long as no increment is lost.                       *)
OvershootIsOnePerThread ==
  ~lost => index + Cardinality(Dumpers) <= MaxIndex - 1 + Cardinality(Threads)

(* What the test of index is worth without a lock.                          *)
LimitHolds == LoneDumperKeepsLimit /\ OvershootIsOnePerThread

(* A dex file is overwritten by another only after an increment was lost.   *)
RewriteNeedsLostIncrement == rewritten => lost
=============================================================================

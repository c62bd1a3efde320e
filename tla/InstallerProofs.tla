---------------------------- MODULE InstallerProofs ----------------------------
(***************************************************************************)
(* Theorems about Installer, for any lists of packages and plugins, any     *)
(* phone and any number of launches.                                        *)
(***************************************************************************)
EXTENDS Installer, SequenceTheorems, TLAPS

(* The applications an onCreate that gets past the loop of line 64 copies   *)
(* to, and the files they are to get.                                       *)
Served == {a \in Apps : \E i \in DOMAIN Packages : a \in FirstLine(Packages[i])}

Targets == Served \X Libs

(* Every one of them has a directory.                                       *)
Ready == \A a \in Served : device.dir[a] # "none"

(* No call or process failed, and no two launches overlapped.               *)
Smooth == trouble \cap {"failed", "overlap"} = {}

InfoOf(a) == [app |-> a, abi |-> device.dir[a]]

(* Each launch comes to its end at most once.                               *)
LaunchInv == good <= launches /\ (pc # "idle" => good < launches)

(* libInfoArray holds the packages the loop is past, and no other;          *)
InfoInv ==
  /\ \A j \in DOMAIN libInfo : libInfo[j].app \in Served /\ libInfo[j] = InfoOf(libInfo[j].app)
  /\ pc = "find" =>
       \A i \in DOMAIN Packages : i < k => \A a \in FirstLine(Packages[i]) :
         \E j \in DOMAIN libInfo : libInfo[j] = InfoOf(a)
  /\ pc \in {"open", "unzip", "copy"} =>
       \A a \in Served : \E j \in DOMAIN libInfo : libInfo[j] = InfoOf(a)

(* a launch that gets there finds every directory, so that files, processes *)
(* and a launch that has come to its end mean there were;                   *)
ReadyInv ==
  ~Ready => /\ pc \in {"idle", "find"}
            /\ good = 0
            /\ processes = {}
            /\ \A f \in DOMAIN target : ~Present(f)

(* what is copied is for an application served, and of its ABI.             *)
AbiInv ==
  /\ \A p \in processes : p.app \in Served /\ p.src = CopyOf(InfoOf(p.app), p.src.lib)
  /\ \A f \in DOMAIN target : Present(f) => f[1] \in Served /\ target[f].abi = device.dir[f[1]]

(* Without failures and overlaps, processes run only after the unpacking,   *)
(* so that they copy complete files.                                        *)
Unpacked == \A e \in Sources : source[e] = "complete"

UnpackedInv ==
  Smooth =>
    /\ processes # {} => pc = "copy" \/ (pc = "idle" /\ good > 0)
    /\ pc \in {"open", "unzip"} =>
         \A i \in DOMAIN Entries : i < k => source[Entries[i]] = "complete"
    /\ pc = "unzip" => k \in DOMAIN Entries
    /\ pc = "copy" \/ (pc = "idle" /\ good > 0) => Unpacked

(* The file that iteration m of the loops of line 121 is about.             *)
CopiedIn(m) ==
  <<libInfo[((m - 1) \div Len(Plugins)) + 1].app, Plugins[((m - 1) % Len(Plugins)) + 1]>>

Copying(f) == \E p \in processes : p.cmd \in {"cp", "copying"} /\ TargetOf(p) = f

(* A file is there, or a cp is about to make it; it may be opened, or a      *)
(* chmod is about to allow it.                                              *)
Done(f) == target[f].content = "complete" \/ Copying(f)

Opens(f) == target[f].open \/ \E p \in processes : p.cmd = "chmod" /\ TargetOf(p) = f

DoneInv ==
  Smooth =>
    /\ pc = "copy" => \A m \in 1..(k - 1) : m <= Len(libInfo) * Len(Plugins) => Done(CopiedIn(m))
    /\ good > 0 => \A f \in Targets : Done(f)

(* A cp comes with a chmod, which is too early or opens the file;           *)
EarlyInv ==
  trouble = {} => \A f \in DOMAIN target : Present(f) \/ Copying(f) => Opens(f)

(* the chmod of a later launch finds the file.                              *)
AgainInv ==
  Smooth =>
    /\ good > 0 /\ pc # "idle" => \A f \in Targets : Present(f)
    /\ good > 0 /\ pc = "copy" =>
         \A m \in 1..(k - 1) : m <= Len(libInfo) * Len(Plugins) => Opens(CopiedIn(m))
    /\ good > 1 => \A f \in Targets : Present(f) /\ Opens(f)

Inv ==
  /\ TypeOK /\ LaunchInv
  /\ InfoInv /\ ReadyInv /\ AbiInv /\ UnpackedInv /\ DoneInv /\ EarlyInv /\ AgainInv

-----------------------------------------------------------------------------

LEMMA ListFacts ==
  /\ Len(Packages) \in Nat /\ DOMAIN Packages = 1..Len(Packages)
  /\ \A i \in 1..Len(Packages) : Packages[i] \in Apps
  /\ Len(Plugins) \in Nat /\ DOMAIN Plugins = 1..Len(Plugins)
  /\ \A q \in 1..Len(Plugins) : Plugins[q] \in Libs
  /\ \A lib \in Libs : \E q \in 1..Len(Plugins) : lib = Plugins[q]
<1>1. /\ Len(Packages) \in Nat /\ DOMAIN Packages = 1..Len(Packages)
      /\ Len(Plugins) \in Nat /\ DOMAIN Plugins = 1..Len(Plugins)
  BY ListsOK, LenProperties
<1> QED
  BY <1>1 DEF Apps, Libs

(* The apk has each plugin for each ABI, and nothing else that is unpacked. *)
LEMMA EntryFacts ==
  /\ DOMAIN Entries = 1..(2 * Len(Plugins))
  /\ \A i \in DOMAIN Entries : Entries[i] \in Sources
  /\ \A e \in Sources : e \in [lib: Libs, abi: Abis]
  /\ \A lib \in Libs, abi \in Abis : [lib |-> lib, abi |-> abi] \in Sources
<1>1. DOMAIN Entries = 1..(2 * Len(Plugins))
  BY DEF Entries
<1>2. ASSUME NEW i \in DOMAIN Entries PROVE Entries[i] \in [lib: Libs, abi: Abis]
  <2>1. (i + 1) \div 2 \in 1..Len(Plugins)
    BY <1>1, ListFacts
  <2>2. Plugins[(i + 1) \div 2] \in Libs
    BY <2>1, ListFacts
  <2> QED
    BY <1>1, <2>2 DEF Entries, Abis
<1>3. ASSUME NEW lib \in Libs, NEW abi \in Abis PROVE [lib |-> lib, abi |-> abi] \in Sources
  <2>1. PICK q \in 1..Len(Plugins) : lib = Plugins[q]
    BY ListFacts
  <2>2. q \in Nat /\ q >= 1 /\ q <= Len(Plugins) /\ Len(Plugins) \in Nat
    BY ListFacts
  <2>3. CASE abi = "arm"
    <3>1. 2 * q - 1 \in DOMAIN Entries /\ ((2 * q - 1) + 1) \div 2 = q /\ (2 * q - 1) % 2 = 1
      BY <1>1, <2>2
    <3>2. Entries[2 * q - 1] = [lib |-> lib, abi |-> abi]
      BY <1>1, <2>1, <2>3, <3>1 DEF Entries
    <3> QED
      BY <3>1, <3>2 DEF Sources
  <2>4. CASE abi = "arm64"
    <3>1. 2 * q \in DOMAIN Entries /\ (2 * q + 1) \div 2 = q /\ (2 * q) % 2 # 1
      BY <1>1, <2>2
    <3>2. Entries[2 * q] = [lib |-> lib, abi |-> abi]
      BY <1>1, <2>1, <2>4, <3>1 DEF Entries
    <3> QED
      BY <3>1, <3>2 DEF Sources
  <2> QED
    BY <2>3, <2>4 DEF Abis
<1> QED
  BY <1>1, <1>2, <1>3 DEF Sources

LEMMA EntriesDiffer ==
  ASSUME NEW i \in DOMAIN Entries, NEW j \in DOMAIN Entries, Entries[i] = Entries[j]
  PROVE  i = j
<1>1. i \in 1..(2 * Len(Plugins)) /\ j \in 1..(2 * Len(Plugins)) /\ Len(Plugins) \in Nat
  BY EntryFacts, ListFacts
<1>2. (i + 1) \div 2 \in 1..Len(Plugins) /\ (j + 1) \div 2 \in 1..Len(Plugins)
  BY <1>1
<1> DEFINE lib(h) == Plugins[(h + 1) \div 2]
           abi(h) == IF h % 2 = 1 THEN "arm" ELSE "arm64"
<1>3. ASSUME NEW h \in DOMAIN Entries PROVE Entries[h].lib = lib(h) /\ Entries[h].abi = abi(h)
  <2>1. Entries[h] = [lib |-> lib(h), abi |-> abi(h)]
    BY EntryFacts DEF Entries
  <2> QED
    BY <2>1
<1>4. lib(i) = lib(j) /\ abi(i) = abi(j)
  BY <1>3
<1>5. i % 2 = 1 <=> j % 2 = 1
  BY <1>4
<1>6. (i + 1) \div 2 = (j + 1) \div 2
  BY <1>2, <1>4, ListFacts, PluginsDiffer
<1>7. i % 2 = j % 2
  BY <1>1, <1>5
<1> QED
  BY <1>1, <1>6, <1>7

(* The loops of line 121 visit each pair of an application and a plugin, and *)
(* nothing else.                                                            *)
LEMMA Division ==
  ASSUME NEW n \in Nat \ {0}, NEW a \in Nat, NEW r \in 0..(n - 1), NEW m \in Nat, m = n * a + r
  PROVE  m \div n = a /\ m % n = r
<1> DEFINE d == m \div n
           e == m % n
<1>1. d \in Nat /\ e \in 0..(n - 1) /\ m = n * d + e
  OBVIOUS
<1> HIDE DEF d, e
<1>2. ASSUME d < a PROVE FALSE
  <2>1. PICK x \in Nat : a = d + 1 + x
    <3>1. a - d - 1 \in Nat /\ a = d + 1 + (a - d - 1)
      BY <1>1, <1>2
    <3> QED
      BY <3>1
  <2>2. n * a = n * d + n + n * x /\ n * x \in Nat
    BY <1>1, <2>1
  <2> QED
    BY <1>1, <2>2
<1>3. ASSUME a < d PROVE FALSE
  <2>1. PICK x \in Nat : d = a + 1 + x
    <3>1. d - a - 1 \in Nat /\ d = a + 1 + (d - a - 1)
      BY <1>1, <1>3
    <3> QED
      BY <3>1
  <2>2. n * d = n * a + n + n * x /\ n * x \in Nat
    BY <1>1, <2>1
  <2> QED
    BY <1>1, <2>2
<1>4. d = a
  BY <1>1, <1>2, <1>3
<1>5. e = r
  BY <1>1, <1>4
<1> QED
  BY <1>4, <1>5 DEF d, e

LEMMA IterationExists ==
  ASSUME NEW n \in Nat, NEW l \in Nat, NEW j \in 1..l, NEW q \in 1..n
  PROVE  \E m \in 1..(l * n) : (m - 1) \div n = j - 1 /\ (m - 1) % n = q - 1
<1> DEFINE m == n * (j - 1) + q
<1>1. n \in Nat \ {0} /\ j - 1 \in Nat /\ q - 1 \in 0..(n - 1)
  OBVIOUS
<1>2. n * (j - 1) \in Nat
  BY <1>1
<1>3. m - 1 \in Nat /\ m - 1 = n * (j - 1) + (q - 1)
  BY <1>1, <1>2
<1>4. l * n = n * (j - 1) + n + n * (l - j) /\ n * (l - j) \in Nat
  <2>1. l - j \in Nat
    OBVIOUS
  <2> QED
    BY <2>1
<1>5. m \in 1..(l * n)
  BY <1>1, <1>2, <1>4
<1>6. (m - 1) \div n = j - 1 /\ (m - 1) % n = q - 1
  <2> DEFINE h == m - 1
             a == j - 1
             r == q - 1
  <2>1. a \in Nat /\ r \in 0..(n - 1) /\ h \in Nat /\ h = n * a + r
    BY <1>1, <1>3
  <2> HIDE DEF h, a, r
  <2>2. h \div n = a /\ h % n = r
    BY <1>1, <2>1, Division
  <2> QED
    BY <2>2 DEF h, a, r
<1> QED
  BY <1>5, <1>6

LEMMA IterationIsInside ==
  ASSUME NEW n \in Nat, NEW l \in Nat, NEW m \in 1..(l * n)
  PROVE  ((m - 1) \div n) + 1 \in 1..l /\ ((m - 1) % n) + 1 \in 1..n
<1>1. l * n \in Nat
  OBVIOUS
<1>2. n # 0
  BY <1>1
<1> DEFINE h == m - 1
           d == h \div n
           e == h % n
<1>3. h \in Nat /\ h < l * n
  BY <1>1
<1>4. d \in Nat /\ e \in 0..(n - 1) /\ h = n * d + e
  <2> HIDE DEF h
  <2> QED
    BY <1>2, <1>3
<1> HIDE DEF d, e
<1>5. ASSUME l <= d PROVE FALSE
  <2>1. PICK x \in Nat : d = l + x
    <3>1. d - l \in Nat /\ d = l + (d - l)
      BY <1>4, <1>5
    <3> QED
      BY <3>1
  <2>2. n * d = l * n + n * x /\ n * x \in Nat
    BY <2>1
  <2> QED
    BY <1>1, <1>3, <1>4, <2>2
<1>6. d + 1 \in 1..l /\ e + 1 \in 1..n
  BY <1>4, <1>5
<1> QED
  BY <1>6 DEF d, e

-----------------------------------------------------------------------------

(* What the steps below know of a state.                                    *)
Infos == [app: Apps, abi: Abis]

LEMMA StateFacts ==
  ASSUME Inv
  PROVE  /\ device.dir \in [Apps -> Abis \cup {"none", "absent"}]
         /\ libInfo \in Seq(Infos)
         /\ Len(libInfo) \in Nat /\ DOMAIN libInfo = 1..Len(libInfo)
         /\ \A j \in 1..Len(libInfo) : libInfo[j] \in Infos
         /\ \A i \in DOMAIN Packages : FirstLine(Packages[i]) \subseteq Served
         /\ \A a \in Served : a \in Apps /\ device.dir[a] \in Abis \cup {"none"}
         /\ \A p \in processes :
              p \in Process /\ p.src.lib \in Libs /\ TargetOf(p) \in DOMAIN target
         /\ DOMAIN target = Apps \X Libs /\ Targets \subseteq DOMAIN target
<1>1. device.dir \in [Apps -> Abis \cup {"none", "absent"}]
  BY DEF Inv, TypeOK, Device
<1>2. libInfo \in Seq(Infos)
  BY DEF Inv, TypeOK, Infos
<1>3. Len(libInfo) \in Nat /\ DOMAIN libInfo = 1..Len(libInfo)
  BY <1>2, LenProperties
<1>4. \A j \in 1..Len(libInfo) : libInfo[j] \in Infos
  BY <1>2, ElementOfSeq
<1>5. \A i \in DOMAIN Packages : FirstLine(Packages[i]) \subseteq Served
  BY DEF FirstLine, Served
<1>6. \A a \in Served : a \in Apps /\ device.dir[a] \in Abis \cup {"none"}
  BY <1>1 DEF Served, FirstLine, Listed
<1>7. ASSUME NEW p \in processes PROVE p \in Process /\ p.src.lib \in Libs
  <2>1. p \in Process
    BY DEF Inv, TypeOK
  <2>2. p.src \in [lib: Libs, abi: Abis]
    BY <2>1, EntryFacts DEF Process
  <2> QED
    BY <2>1, <2>2
<1>8. DOMAIN target = Apps \X Libs
  BY DEF Inv, TypeOK
<1>9. \A p \in processes : TargetOf(p) \in DOMAIN target
  BY <1>7, <1>8 DEF TargetOf, Process
<1>10. Targets \subseteq DOMAIN target
  BY <1>6, <1>8 DEF Targets
<1> QED
  BY <1>1, <1>2, <1>3, <1>4, <1>5, <1>6, <1>7, <1>8, <1>9, <1>10

(* The phone stays as it is, and with it what is to be deployed.            *)
LEMMA PhoneStays ==
  ASSUME [Next]_vars
  PROVE  /\ device' = device /\ Served' = Served /\ Targets' = Targets /\ Ready' = Ready
         /\ \A a : InfoOf(a)' = InfoOf(a)
         /\ \A p : FirstLine(p)' = FirstLine(p)
<1>1. device' = device
  BY DEF Next, Activity, Run, OnCreate, FindDirectory, OpenApk, OpenSource, WriteSource,
         StartCopies, ExecCopy, Finish, Fails, CpStarts, CpEnds, Chmod, ProcessFails, vars
<1> QED
  BY <1>1 DEF Served, Targets, Ready, InfoOf, FirstLine, Listed

(* Iteration k of the copy loops is about a file that is to be deployed,    *)
LEMMA CopiedInTargets ==
  ASSUME Inv, NEW m \in Nat \ {0}, m <= Len(libInfo) * Len(Plugins)
  PROVE  LET j == ((m - 1) \div Len(Plugins)) + 1
             q == ((m - 1) % Len(Plugins)) + 1
         IN  /\ j \in 1..Len(libInfo) /\ q \in 1..Len(Plugins)
             /\ libInfo[j] = InfoOf(libInfo[j].app) /\ libInfo[j] \in Infos
             /\ libInfo[j].app \in Served /\ Plugins[q] \in Libs
             /\ CopiedIn(m) \in Targets
<1> DEFINE j == ((m - 1) \div Len(Plugins)) + 1
           q == ((m - 1) % Len(Plugins)) + 1
<1>1. Len(libInfo) \in Nat /\ Len(Plugins) \in Nat
  BY StateFacts, ListFacts
<1>2. m \in 1..(Len(libInfo) * Len(Plugins))
  <2>1. Len(libInfo) * Len(Plugins) \in Nat
    BY <1>1
  <2> QED
    BY <2>1
<1>3. j \in 1..Len(libInfo) /\ q \in 1..Len(Plugins)
  BY <1>1, <1>2, IterationIsInside
<1>4. CopiedIn(m) = <<libInfo[j].app, Plugins[q]>>
  BY DEF CopiedIn
<1> HIDE DEF j, q
<1>5. libInfo[j].app \in Served /\ libInfo[j] = InfoOf(libInfo[j].app) /\ libInfo[j] \in Infos
  BY <1>3, StateFacts DEF Inv, InfoInv
<1>6. Plugins[q] \in Libs
  BY <1>3, ListFacts
<1>7. CopiedIn(m) \in Targets
  BY <1>4, <1>5, <1>6 DEF Targets
<1> QED
  BY <1>3, <1>5, <1>6, <1>7 DEF j, q

(* and when the loops are over each of these files has had its iteration.   *)
LEMMA AllCopied ==
  ASSUME Inv, pc = "copy", NEW f \in Targets
  PROVE  \E m \in Nat \ {0} : m <= Len(libInfo) * Len(Plugins) /\ CopiedIn(m) = f
<1>1. PICK a \in Served, lib \in Libs : f = <<a, lib>>
  BY DEF Targets
<1>2. PICK j \in 1..Len(libInfo) : libInfo[j] = InfoOf(a)
  BY StateFacts DEF Inv, InfoInv
<1>3. PICK q \in 1..Len(Plugins) : lib = Plugins[q]
  BY ListFacts
<1>4. Len(libInfo) \in Nat /\ Len(Plugins) \in Nat
  BY StateFacts, ListFacts
<1>5. PICK m \in 1..(Len(libInfo) * Len(Plugins)) :
        (m - 1) \div Len(Plugins) = j - 1 /\ (m - 1) % Len(Plugins) = q - 1
  BY <1>4, IterationExists
<1>6. CopiedIn(m) = <<libInfo[j].app, Plugins[q]>>
  BY <1>5 DEF CopiedIn
<1>7. m \in Nat \ {0} /\ m <= Len(libInfo) * Len(Plugins)
  <2>1. Len(libInfo) * Len(Plugins) \in Nat
    BY <1>4
  <2> QED
    BY <2>1
<1> QED
  BY <1>1, <1>2, <1>3, <1>6, <1>7 DEF InfoOf

-----------------------------------------------------------------------------

(* Steps that leave the files and the processes alone.                      *)
Steady ==
  \/ OnCreate \/ FindDirectory \/ OpenApk \/ OpenSource \/ WriteSource \/ StartCopies
  \/ Finish \/ Fails \/ UNCHANGED vars

LEMMA SteadySteps ==
  ASSUME Steady
  PROVE  UNCHANGED <<target, processes>> /\ trouble \subseteq trouble'
  BY DEF Steady, OnCreate, FindDirectory, OpenApk, OpenSource, WriteSource, StartCopies,
         Finish, Fails, files, vars

(* The processes of an iteration.                                           *)
LEMMA Executed ==
  ASSUME Inv, ExecCopy
  PROVE  LET j == ((k - 1) \div Len(Plugins)) + 1
             q == ((k - 1) % Len(Plugins)) + 1
             info == libInfo[j]
             src == CopyOf(info, Plugins[q])
         IN  /\ processes' =
                  processes \cup {[cmd |-> c, app |-> info.app, src |-> src] : c \in Commands}
             /\ info.app \in Served /\ info = InfoOf(info.app) /\ src \in Sources
             /\ src = CopyOf(InfoOf(info.app), src.lib)
             /\ CopiedIn(k) = <<info.app, src.lib>>
             /\ CopiedIn(k) \in Targets
             /\ info.app \in Apps
<1> DEFINE j == ((k - 1) \div Len(Plugins)) + 1
           q == ((k - 1) % Len(Plugins)) + 1
           info == libInfo[j]
           src == CopyOf(info, Plugins[q])
<1>1. k \in Nat \ {0} /\ k <= Len(libInfo) * Len(Plugins)
  BY DEF ExecCopy, Inv, TypeOK
<1>2. /\ libInfo[j] = InfoOf(libInfo[j].app) /\ libInfo[j] \in Infos
      /\ libInfo[j].app \in Served /\ Plugins[q] \in Libs
      /\ CopiedIn(k) \in Targets
  BY <1>1, CopiedInTargets
<1>3. processes' = processes \cup {[cmd |-> c, app |-> info.app, src |-> src] : c \in Commands}
  BY DEF ExecCopy
<1>4. CopiedIn(k) = <<info.app, Plugins[q]>>
  BY DEF CopiedIn
<1> HIDE DEF j, q
<1>5. info.app \in Apps /\ info.abi \in Abis
  BY <1>2 DEF Infos
<1>6. src \in Sources /\ src.lib = Plugins[q]
  BY <1>2, <1>5, EntryFacts DEF CopyOf
<1>7. src = CopyOf(InfoOf(info.app), src.lib)
  BY <1>2, <1>6 DEF CopyOf
<1> QED
  BY <1>2, <1>3, <1>4, <1>5, <1>6, <1>7 DEF j, q

-----------------------------------------------------------------------------

LEMMA KeepsType ==
  ASSUME Inv, [Next]_vars
  PROVE  TypeOK'
<1> USE StateFacts, ListFacts, EntryFacts, PhoneStays DEF Inv, LaunchInv
<1>1. device' \in Device
  BY DEF TypeOK
<1>2. CASE UNCHANGED vars
  BY <1>2 DEF vars, TypeOK, Apps, Libs, Sources, Process, Entries, Device
<1>3. CASE OnCreate
  <2>1. <<>> \in Seq([app: Apps, abi: Abis])
    OBVIOUS
  <2> QED
    BY <1>1, <1>3, <2>1, LaunchesOK DEF OnCreate, files, TypeOK
<1>4. CASE FindDirectory
  <2>1. pc' \in {"idle", "find"} /\ ended' \in {"never", "return", "exception", "finish"}
    BY <1>4 DEF FindDirectory, End, TypeOK
  <2>2. k' \in Nat \ {0}
    <3>1. k' = k \/ k' = k + 1
      BY <1>4 DEF FindDirectory
    <3> QED
      BY <3>1 DEF TypeOK
  <2>3. libInfo' \in Seq(Infos)
    <3>1. ASSUME NEW a \in FirstLine(Packages[k]), device.dir[a] # "none"
          PROVE  Append(libInfo, [app |-> a, abi |-> device.dir[a]]) \in Seq(Infos)
      <4>1. k \in DOMAIN Packages
        BY <1>4 DEF FindDirectory, TypeOK
      <4>2. a \in Apps /\ device.dir[a] \in Abis
        BY <3>1, <4>1
      <4>3. [app |-> a, abi |-> device.dir[a]] \in Infos
        BY <4>2 DEF Infos
      <4> QED
        BY <4>3, AppendProperties
    <3> QED
      BY <1>4, <3>1 DEF FindDirectory, End
  <2>4. UNCHANGED <<launches, source, target, processes, good, trouble>>
    BY <1>4 DEF FindDirectory, files
  <2> QED
    BY <1>1, <2>1, <2>2, <2>3, <2>4 DEF TypeOK, Infos
<1>5. CASE OpenApk \/ StartCopies
  <2>1. k' = 1 /\ pc' \in {"open", "copy"}
    BY <1>5 DEF OpenApk, StartCopies
  <2>2. UNCHANGED <<launches, libInfo, source, target, processes, ended, good, trouble>>
    BY <1>5 DEF OpenApk, StartCopies, files
  <2> QED
    BY <1>1, <2>1, <2>2 DEF TypeOK
<1>6. CASE OpenSource \/ WriteSource
  <2>1. source' \in [Sources -> Content]
    BY <1>6 DEF OpenSource, WriteSource, TypeOK, Content
  <2>2. k' \in Nat \ {0} /\ pc' \in {"unzip", "open"}
    BY <1>6 DEF OpenSource, WriteSource, TypeOK
  <2> QED
    BY <1>1, <1>6, <2>1, <2>2 DEF OpenSource, WriteSource, TypeOK
<1>7. CASE ExecCopy
  <2>1. processes' \subseteq Process
    <3>1. \A c \in Commands : c \in {"cp", "copying", "chmod"}
      BY DEF Commands
    <3>2. processes \subseteq Process
      BY DEF TypeOK
    <3> QED
      BY <1>7, <3>1, <3>2, Executed DEF Process
  <2>2. /\ k' \in Nat \ {0}
        /\ UNCHANGED <<launches, pc, libInfo, source, target, ended, good, trouble>>
    BY <1>7 DEF ExecCopy, TypeOK
  <2> QED
    BY <1>1, <2>1, <2>2 DEF TypeOK
<1>8. CASE Finish
  <2>1. good' \in 0..MaxLaunches
    BY <1>8, LaunchesOK DEF Finish, TypeOK
  <2> QED
    BY <1>1, <1>8, <2>1 DEF Finish, End, files, TypeOK
<1>9. CASE Fails
  BY <1>1, <1>9 DEF Fails, End, files, TypeOK
<1>10. ASSUME NEW p \in processes, Run(p) PROVE TypeOK'
  <2> DEFINE t == TargetOf(p)
  <2>1. /\ UNCHANGED <<launches, pc, k, libInfo, source, ended, good>>
        /\ trouble' \subseteq trouble \cup {"failed", "early"}
    BY <1>10 DEF Run, CpStarts, CpEnds, Chmod, ProcessFails
  <2>2. p \in Process /\ t \in Apps \X Libs /\ p.src \in Sources /\ p.src.abi \in Abis
    BY DEF Process
  <2>3. processes' \subseteq Process
    <3>1. [p EXCEPT !.cmd = "copying"] \in Process
      BY <2>2 DEF Process
    <3> QED
      BY <1>10, <3>1 DEF Run, CpStarts, CpEnds, Chmod, ProcessFails, TypeOK
  <2>4. target' \in [Apps \X Libs -> [content: Content, abi: Abis, open: BOOLEAN]]
    <3>1. target \in [Apps \X Libs -> [content: Content, abi: Abis, open: BOOLEAN]]
      BY DEF TypeOK
    <3>2. target[t].open \in BOOLEAN /\ target[t] \in [content: Content, abi: Abis, open: BOOLEAN]
      BY <2>2, <3>1
    <3>3. source[p.src] \in Content /\ "partial" \in Content
      BY <2>2 DEF TypeOK, Content
    <3>4. \A c \in Content :
            File(c, p.src.abi, target[t].open) \in [content: Content, abi: Abis, open: BOOLEAN]
      BY <2>2, <3>2 DEF File
    <3>5. [target[t] EXCEPT !.open = TRUE] \in [content: Content, abi: Abis, open: BOOLEAN]
      BY <3>2
    <3>6. \/ target' = [target EXCEPT ![t] = File("partial", p.src.abi, target[t].open)]
          \/ target' = [target EXCEPT ![t] = File(source[p.src], p.src.abi, target[t].open)]
          \/ target' = [target EXCEPT ![t] = [target[t] EXCEPT !.open = TRUE]]
          \/ target' = target
      BY <1>10, <2>2, <3>1 DEF Run, CpStarts, CpEnds, Chmod, ProcessFails
    <3> DEFINE Files == [content: Content, abi: Abis, open: BOOLEAN]
    <3>7. PICK x \in Files : target' = [target EXCEPT ![t] = x] \/ target' = target
      BY <3>2, <3>3, <3>4, <3>5, <3>6
    <3> HIDE DEF t, Files
    <3>8. target' \in [Apps \X Libs -> Files]
      BY <3>1, <3>7 DEF Files
    <3> QED
      BY <3>8 DEF Files
  <2> QED
    BY <1>1, <2>1, <2>3, <2>4 DEF TypeOK
<1> QED
  BY <1>2, <1>3, <1>4, <1>5, <1>6, <1>7, <1>8, <1>9, <1>10 DEF Next, Activity

(* What a process does to its file and to the processes: a cp truncates the *)
(* file or completes it, a chmod opens one that is there.  The mode of a    *)
(* file is never taken away.                                                *)
LEMMA RunSteps ==
  ASSUME Inv, NEW p \in processes, Run(p)
  PROVE  LET t == TargetOf(p) IN
         /\ UNCHANGED <<device, launches, pc, k, libInfo, source, ended, good>>
         /\ \A f \in DOMAIN target : f # t => target'[f] = target[f]
         /\ target[t].open => target'[t].open
         /\ DOMAIN target' = DOMAIN target
         /\ \A q \in processes : q # p => q \in processes'
         /\ \/ /\ p.cmd = "cp" /\ trouble' = trouble
               /\ processes' = (processes \ {p}) \cup {[p EXCEPT !.cmd = "copying"]}
               /\ target'[t].content = "partial" /\ target'[t].abi = p.src.abi
            \/ /\ p.cmd = "copying" /\ trouble' = trouble /\ processes' = processes \ {p}
               /\ target'[t].content = source[p.src] /\ target'[t].abi = p.src.abi
            \/ /\ p.cmd = "chmod" /\ trouble' = trouble /\ processes' = processes \ {p}
               /\ Present(t) /\ target'[t] = [target[t] EXCEPT !.open = TRUE]
            \/ /\ p.cmd = "chmod" /\ trouble' = trouble \cup {"early"}
               /\ processes' = processes \ {p}
               /\ ~Present(t) /\ target' = target
            \/ /\ trouble' = trouble \cup {"failed"}
               /\ processes' = processes \ {p} /\ target' = target
<1> DEFINE t == TargetOf(p)
           Files == [content: Content, abi: Abis, open: BOOLEAN]
<1>1. t \in DOMAIN target /\ target \in [DOMAIN target -> Files] /\ target[t] \in Files
  BY StateFacts DEF Inv, TypeOK
<1>2. target[t].open \in BOOLEAN
  BY <1>1
<1>3. CASE CpStarts(p)
  <2>1. target' = [target EXCEPT ![t] = File("partial", p.src.abi, target[t].open)]
    BY <1>1, <1>3 DEF CpStarts
  <2>2. target'[t] = File("partial", p.src.abi, target[t].open)
    BY <1>1, <2>1
  <2>3. /\ target'[t].content = "partial" /\ target'[t].abi = p.src.abi
        /\ target'[t].open = target[t].open
    BY <2>2 DEF File
  <2> HIDE DEF t
  <2>4. (\A f \in DOMAIN target : f # t => target'[f] = target[f]) /\ DOMAIN target' = DOMAIN target
    BY <1>1, <2>1
  <2> QED
    BY <1>3, <2>3, <2>4 DEF CpStarts, t
<1>4. CASE CpEnds(p)
  <2>1. target' = [target EXCEPT ![t] = File(source[p.src], p.src.abi, target[t].open)]
    BY <1>1, <1>4 DEF CpEnds
  <2>2. target'[t] = File(source[p.src], p.src.abi, target[t].open)
    BY <1>1, <2>1
  <2>3. /\ target'[t].content = source[p.src] /\ target'[t].abi = p.src.abi
        /\ target'[t].open = target[t].open
    BY <2>2 DEF File
  <2> HIDE DEF t
  <2>4. (\A f \in DOMAIN target : f # t => target'[f] = target[f]) /\ DOMAIN target' = DOMAIN target
    BY <1>1, <2>1
  <2> QED
    BY <1>4, <2>3, <2>4 DEF CpEnds, t
<1>5. CASE Chmod(p) /\ Present(t)
  <2>1. target' = [target EXCEPT ![t] = [target[t] EXCEPT !.open = TRUE]] /\ trouble' = trouble
    BY <1>1, <1>5 DEF Chmod, Present
  <2>2. target'[t] = [target[t] EXCEPT !.open = TRUE] /\ target'[t].open
    BY <1>1, <2>1
  <2> HIDE DEF t
  <2>3. (\A f \in DOMAIN target : f # t => target'[f] = target[f]) /\ DOMAIN target' = DOMAIN target
    BY <1>1, <2>1
  <2> QED
    BY <1>5, <2>1, <2>2, <2>3 DEF Chmod, t
<1>6. CASE Chmod(p) /\ ~Present(t)
  <2>1. target' = target /\ trouble' = trouble \cup {"early"}
    BY <1>6 DEF Chmod, Present
  <2> QED
    BY <1>6, <2>1 DEF Chmod
<1>7. CASE ProcessFails(p)
  BY <1>7 DEF ProcessFails
<1> QED
  BY <1>3, <1>4, <1>5, <1>6, <1>7 DEF Run

(* Without failures a process does what it is there for: what was done or    *)
(* under way stays so, and a file once present is.                          *)
LEMMA SmoothRun ==
  ASSUME Inv, NEW p \in processes, Run(p), Smooth'
  PROVE  /\ Smooth
         /\ \A f \in DOMAIN target : Present(f) => Present(f)'
         /\ \A f \in DOMAIN target : Done(f) => Done(f)'
         /\ \A f \in DOMAIN target : Present(f) /\ Opens(f) => Opens(f)'
<1> DEFINE t == TargetOf(p)
           q == [p EXCEPT !.cmd = "copying"]
<1>1. Smooth
  BY RunSteps DEF Smooth
<1>2. source[p.src] = "complete"
  <2>1. Unpacked
    BY <1>1 DEF Inv, UnpackedInv
  <2> QED
    BY <2>1, StateFacts DEF Unpacked, Process
<1>3. "failed" \notin trouble'
  BY DEF Smooth
<1>4. p \in Process /\ q.cmd = "copying" /\ TargetOf(q) = t
  BY StateFacts DEF Process, TargetOf
<1> HIDE DEF q
<1>5. /\ \A f \in DOMAIN target : f # t => target'[f] = target[f]
      /\ target[t].open => target'[t].open
      /\ \A r \in processes : r # p => r \in processes'
      /\ \/ p.cmd = "cp" /\ q \in processes' /\ target'[t].content = "partial"
         \/ p.cmd = "copying" /\ target'[t].content = "complete"
         \/ /\ p.cmd = "chmod" /\ Present(t) /\ target'[t].content = target[t].content
            /\ target'[t].open
         \/ p.cmd = "chmod" /\ ~Present(t) /\ target' = target
  <2>1. target[t] \in [content: Content, abi: Abis, open: BOOLEAN]
    BY StateFacts DEF Inv, TypeOK
  <2>2. /\ [target[t] EXCEPT !.open = TRUE].content = target[t].content
        /\ [target[t] EXCEPT !.open = TRUE].open
    BY <2>1
  <2> QED
    BY <1>2, <1>3, <2>2, RunSteps DEF q
<1>6. \A f \in DOMAIN target : Present(f) => Present(f)'
  BY <1>5 DEF Present
<1>7. ASSUME NEW f \in DOMAIN target, Done(f) PROVE Done(f)'
  <2>1. CASE f = t
    <3>1. CASE p.cmd = "cp" /\ q \in processes'
      BY <1>4, <2>1, <3>1 DEF Done, Copying, TargetOf
    <3>2. CASE p.cmd = "copying" /\ target'[t].content = "complete"
      BY <2>1, <3>2 DEF Done
    <3>3. CASE p.cmd = "chmod" /\ target'[t].content = target[t].content
      BY <1>5, <1>7, <2>1, <3>3 DEF Done, Copying, TargetOf
    <3> QED
      BY <1>5, <3>1, <3>2, <3>3
  <2>2. CASE f # t
    BY <1>5, <1>7, <2>2 DEF Done, Copying, TargetOf
  <2> QED
    BY <2>1, <2>2
<1>8. ASSUME NEW f \in DOMAIN target, Present(f), Opens(f) PROVE Opens(f)'
  <2>1. CASE f = t /\ p.cmd = "chmod"
    BY <1>5, <1>8, <2>1 DEF Opens
  <2>2. CASE f # t \/ p.cmd # "chmod"
    BY <1>5, <1>8, <2>2 DEF Opens, TargetOf
  <2> QED
    BY <2>1, <2>2
<1> QED
  BY <1>1, <1>6, <1>7, <1>8

-----------------------------------------------------------------------------

LEMMA KeepsLaunch ==
  ASSUME Inv, [Next]_vars
  PROVE  LaunchInv'
<1>1. LaunchInv /\ good \in Nat /\ launches \in Nat
  BY LaunchesOK DEF Inv, TypeOK
<1>2. CASE OnCreate \/ Finish
  BY <1>1, <1>2 DEF LaunchInv, OnCreate, Finish, End
<1>3. CASE FindDirectory \/ OpenApk \/ OpenSource \/ WriteSource \/ StartCopies \/ ExecCopy \/ Fails
  <2>1. UNCHANGED <<good, launches>> /\ pc # "idle"
    BY <1>3 DEF FindDirectory, OpenApk, OpenSource, WriteSource, StartCopies, ExecCopy, Fails
  <2> QED
    BY <1>1, <2>1 DEF LaunchInv
<1>4. CASE (\E p \in processes : Run(p)) \/ UNCHANGED vars
  BY <1>1, <1>4 DEF LaunchInv, Run, CpStarts, CpEnds, Chmod, ProcessFails, vars
<1> QED
  BY <1>2, <1>3, <1>4 DEF Next, Activity

LEMMA KeepsInfo ==
  ASSUME Inv, [Next]_vars
  PROVE  InfoInv'
<1>1. InfoInv /\ k \in Nat \ {0}
  BY DEF Inv, TypeOK
<1>2. CASE OnCreate
  <2>1. libInfo' = <<>> /\ k' = 1 /\ pc' = "find"
    BY <1>2 DEF OnCreate
  <2> QED
    BY <2>1, ListFacts DEF InfoInv
<1>3. CASE FindDirectory
  <2>1. pc = "find" /\ k \in DOMAIN Packages /\ FirstLine(Packages[k]) \subseteq Served
    BY <1>1, <1>3, ListFacts, StateFacts DEF FindDirectory
  <2>2. CASE UNCHANGED libInfo /\ pc' = "idle"
    BY <1>1, <2>2, PhoneStays DEF InfoInv
  <2>3. CASE FirstLine(Packages[k]) = {} /\ UNCHANGED <<pc, libInfo>> /\ k' = k + 1
    <3>1. \A i \in DOMAIN Packages : i < k' => i < k \/ i = k
      BY <1>1, <2>3, ListFacts
    <3> QED
      BY <1>1, <2>1, <2>3, <3>1, PhoneStays DEF InfoInv
  <2>4. ASSUME NEW a \in FirstLine(Packages[k]),
               libInfo' = Append(libInfo, InfoOf(a)), k' = k + 1, pc' = pc
        PROVE  InfoInv'
    <3>1. FirstLine(Packages[k]) = {a}
      BY <2>4 DEF FirstLine
    <3>2. /\ DOMAIN libInfo' = 1..(Len(libInfo) + 1) /\ Len(libInfo) \in Nat
          /\ DOMAIN libInfo = 1..Len(libInfo)
          /\ \A j \in DOMAIN libInfo : libInfo'[j] = libInfo[j]
          /\ libInfo'[Len(libInfo) + 1] = InfoOf(a)
      <4> DEFINE info == InfoOf(a)
                 more == Append(libInfo, info)
      <4>1. /\ libInfo \in Seq(Infos \cup {info})
            /\ Len(libInfo) \in Nat /\ DOMAIN libInfo = 1..Len(libInfo)
        <5>1. \A j \in 1..Len(libInfo) : libInfo[j] \in Infos \cup {info}
          BY StateFacts
        <5> QED
          BY <5>1, StateFacts, IsASeq, LenProperties
      <4> HIDE DEF info
      <4>2. /\ Len(more) = Len(libInfo) + 1 /\ more \in Seq(Infos \cup {info})
            /\ \A j \in 1..Len(libInfo) : more[j] = libInfo[j]
            /\ more[Len(libInfo) + 1] = info
        BY <4>1, AppendProperties
      <4>3. DOMAIN more = 1..(Len(libInfo) + 1)
        BY <4>2, LenProperties
      <4> QED
        BY <2>4, <4>1, <4>2, <4>3 DEF info
    <3>3. InfoOf(a).app = a /\ a \in Served
      BY <2>1 DEF InfoOf
    <3>4. \A j \in DOMAIN libInfo' : j \in DOMAIN libInfo \/ j = Len(libInfo) + 1
      BY <3>2
    <3>5. \A j \in DOMAIN libInfo' :
            libInfo'[j].app \in Served /\ libInfo'[j] = InfoOf(libInfo'[j].app)
      BY <1>1, <3>2, <3>3, <3>4 DEF InfoInv
    <3>6. ASSUME NEW i \in DOMAIN Packages, i < k', NEW b \in FirstLine(Packages[i])
          PROVE  \E j \in DOMAIN libInfo' : libInfo'[j] = InfoOf(b)
      <4>1. CASE i < k
        <5>1. PICK j \in DOMAIN libInfo : libInfo[j] = InfoOf(b)
          BY <1>1, <2>1, <3>6, <4>1 DEF InfoInv
        <5>2. j \in DOMAIN libInfo' /\ libInfo'[j] = InfoOf(b)
          BY <3>2, <5>1
        <5> QED
          BY <5>2
      <4>2. CASE i = k
        <5>1. b = a /\ Len(libInfo) + 1 \in DOMAIN libInfo'
          BY <3>1, <3>2, <3>6, <4>2
        <5> QED
          BY <3>2, <5>1
      <4>3. i < k \/ i = k
        BY <1>1, <2>4, <3>6, ListFacts
      <4> QED
        BY <4>1, <4>2, <4>3
    <3> QED
      BY <2>1, <2>4, <3>5, <3>6, PhoneStays DEF InfoInv
  <2> QED
    BY <1>3, <2>2, <2>3, <2>4 DEF FindDirectory, End, InfoOf
<1>4. CASE OpenApk
  <2>1. pc = "find" /\ k > Len(Packages) /\ pc' = "open" /\ libInfo' = libInfo
    BY <1>4 DEF OpenApk
  <2>2. ASSUME NEW a \in Served PROVE \E j \in DOMAIN libInfo : libInfo[j] = InfoOf(a)
    <3>1. PICK i \in DOMAIN Packages : a \in FirstLine(Packages[i])
      BY DEF Served
    <3>2. i < k
      BY <1>1, <2>1, ListFacts
    <3> QED
      BY <1>1, <2>1, <3>1, <3>2 DEF InfoInv
  <2> QED
    BY <1>1, <2>1, <2>2, PhoneStays DEF InfoInv
<1>5. CASE OpenSource \/ WriteSource \/ StartCopies \/ ExecCopy
  <2>1. libInfo' = libInfo /\ pc \in {"open", "unzip", "copy"} /\ pc' \in {"open", "unzip", "copy"}
    BY <1>5 DEF OpenSource, WriteSource, StartCopies, ExecCopy
  <2> QED
    BY <1>1, <2>1, PhoneStays DEF InfoInv
<1>6. CASE Finish \/ Fails
  <2>1. libInfo' = libInfo /\ pc' = "idle"
    BY <1>6 DEF Finish, Fails, End
  <2> QED
    BY <1>1, <2>1, PhoneStays DEF InfoInv
<1>7. CASE (\E p \in processes : Run(p)) \/ UNCHANGED vars
  <2>1. UNCHANGED <<libInfo, pc, k>>
    BY <1>7 DEF Run, CpStarts, CpEnds, Chmod, ProcessFails, vars
  <2> QED
    BY <1>1, <2>1, PhoneStays DEF InfoInv
<1> QED
  BY <1>2, <1>3, <1>4, <1>5, <1>6, <1>7 DEF Next, Activity

(* A launch past the first loop has found every directory.                  *)
LEMMA PastFindIsReady ==
  ASSUME Inv, pc \in {"open", "unzip", "copy"} \/ (pc = "find" /\ k > Len(Packages))
  PROVE  Ready
<1>1. ASSUME NEW a \in Served PROVE \E j \in DOMAIN libInfo : libInfo[j] = InfoOf(a)
  <2>1. CASE pc \in {"open", "unzip", "copy"}
    BY <2>1 DEF Inv, InfoInv
  <2>2. CASE pc = "find" /\ k > Len(Packages)
    <3>1. PICK i \in DOMAIN Packages : a \in FirstLine(Packages[i])
      BY DEF Served
    <3>2. i < k
      BY <2>2, ListFacts DEF Inv, TypeOK
    <3> QED
      BY <2>2, <3>1, <3>2 DEF Inv, InfoInv
  <2> QED
    BY <2>1, <2>2
<1>2. ASSUME NEW a \in Served PROVE device.dir[a] # "none"
  <2>1. PICK j \in DOMAIN libInfo : libInfo[j] = InfoOf(a)
    BY <1>1
  <2>2. InfoOf(a).abi \in Abis
    BY <2>1, StateFacts DEF Infos
  <2> QED
    BY <2>2 DEF InfoOf, Abis
<1> QED
  BY <1>2 DEF Ready

LEMMA KeepsReady ==
  ASSUME Inv, [Next]_vars
  PROVE  ReadyInv'
<1> SUFFICES ASSUME ~Ready PROVE ReadyInv'
  BY PhoneStays DEF ReadyInv
<1>1. /\ pc \in {"idle", "find"} /\ good = 0 /\ processes = {}
      /\ \A f \in DOMAIN target : ~Present(f)
  BY DEF Inv, ReadyInv
<1>2. CASE OnCreate \/ FindDirectory \/ Fails \/ UNCHANGED vars
  <2>1. pc' \in {"idle", "find"} /\ UNCHANGED <<good, processes, target>>
    BY <1>1, <1>2 DEF OnCreate, FindDirectory, Fails, End, files, vars
  <2> QED
    BY <1>1, <2>1 DEF ReadyInv, Present
<1>3. ~OpenApk
  BY PastFindIsReady DEF OpenApk
<1>4. ~(OpenSource \/ WriteSource \/ StartCopies \/ ExecCopy \/ Finish)
  BY <1>1 DEF OpenSource, WriteSource, StartCopies, ExecCopy, Finish
<1> QED
  BY <1>1, <1>2, <1>3, <1>4 DEF Next, Activity

LEMMA KeepsAbi ==
  ASSUME Inv, [Next]_vars
  PROVE  AbiInv'
<1>1. AbiInv
  BY DEF Inv
<1>2. CASE Steady
  BY <1>1, <1>2, SteadySteps, PhoneStays DEF AbiInv, Present, CopyOf
<1>3. CASE ExecCopy
  <2>1. \A p \in processes' : p.app \in Served /\ p.src = CopyOf(InfoOf(p.app), p.src.lib)
    BY <1>1, <1>3, Executed DEF AbiInv
  <2>2. target' = target
    BY <1>3 DEF ExecCopy
  <2> QED
    BY <1>1, <2>1, <2>2, PhoneStays DEF AbiInv, Present, CopyOf
<1>4. ASSUME NEW p \in processes, Run(p) PROVE AbiInv'
  <2> DEFINE t == TargetOf(p)
             q == [p EXCEPT !.cmd = "copying"]
  <2>1. p \in Process /\ q.app = p.app /\ q.src = p.src
    BY StateFacts DEF Process
  <2>2. p.app \in Served /\ p.src = CopyOf(InfoOf(p.app), p.src.lib)
    BY <1>1 DEF AbiInv
  <2> HIDE DEF q
  <2>3. processes' \subseteq processes \cup {q}
    <3>1. \/ processes' = (processes \ {p}) \cup {q}
          \/ processes' = processes \ {p}
      BY <1>4, RunSteps DEF q
    <3> QED
      BY <3>1
  <2>4. \A r \in processes' : r.app \in Served /\ r.src = CopyOf(InfoOf(r.app), r.src.lib)
    BY <1>1, <2>1, <2>2, <2>3 DEF AbiInv
  <2>5. p.src.abi = device.dir[p.app] /\ t[1] = p.app /\ t \in DOMAIN target
    BY <2>2, StateFacts DEF CopyOf, InfoOf, TargetOf
  <2>6. ASSUME NEW f \in DOMAIN target', Present(f)'
        PROVE  f[1] \in Served /\ target'[f].abi = device.dir[f[1]]
    <3>1. DOMAIN target' = DOMAIN target
      BY <1>4, RunSteps
    <3>2. CASE f # t
      <4>1. target'[f] = target[f]
        BY <1>4, <2>6, <3>1, <3>2, RunSteps
      <4> QED
        BY <1>1, <2>6, <3>1, <4>1 DEF AbiInv, Present
    <3>3. CASE f = t
      <4>1. \/ target'[t].abi = p.src.abi
            \/ target' = target
            \/ target'[t] = [target[t] EXCEPT !.open = TRUE]
        BY <1>4, RunSteps
      <4>2. target[t] \in [content: Content, abi: Abis, open: BOOLEAN]
        BY <2>5, StateFacts DEF Inv, TypeOK
      <4>3. CASE target'[t].abi = p.src.abi
        BY <2>2, <2>5, <3>3, <4>3
      <4>4. CASE target' = target
        BY <1>1, <2>6, <3>1, <4>4 DEF AbiInv, Present
      <4>5. CASE target'[t] = [target[t] EXCEPT !.open = TRUE]
        <5>1. target'[t].abi = target[t].abi /\ target'[t].content = target[t].content
          BY <4>2, <4>5
        <5> QED
          BY <1>1, <2>5, <2>6, <3>3, <5>1 DEF AbiInv, Present
      <4> QED
        BY <4>1, <4>3, <4>4, <4>5
    <3> QED
      BY <3>2, <3>3
  <2> QED
    BY <2>4, <2>6, PhoneStays DEF AbiInv, CopyOf
<1> QED
  BY <1>2, <1>3, <1>4 DEF Next, Activity, Steady

LEMMA KeepsUnpacked ==
  ASSUME Inv, [Next]_vars
  PROVE  UnpackedInv'
<1> SUFFICES ASSUME Smooth' PROVE UnpackedInv'
  BY DEF UnpackedInv
<1>1. k \in Nat \ {0} /\ source \in [Sources -> Content]
  BY DEF Inv, TypeOK
<1>2. Smooth
  <2>1. ASSUME NEW p \in processes, Run(p) PROVE trouble \subseteq trouble'
    BY <2>1, RunSteps
  <2>2. Steady \/ ExecCopy => trouble \subseteq trouble'
    BY SteadySteps DEF ExecCopy
  <2> QED
    BY <2>1, <2>2 DEF Smooth, Next, Activity, Steady
<1>3. /\ processes # {} => pc = "copy" \/ (pc = "idle" /\ good > 0)
      /\ pc \in {"open", "unzip"} =>
         \A i \in DOMAIN Entries : i < k => source[Entries[i]] = "complete"
      /\ pc = "unzip" => k \in DOMAIN Entries
      /\ pc = "copy" \/ (pc = "idle" /\ good > 0) => Unpacked
  BY <1>2 DEF Inv, UnpackedInv
<1>4. CASE OnCreate
  <2>1. processes' = {} /\ pc' = "find"
    <3>1. processes # {} => "overlap" \in trouble'
      BY <1>4 DEF OnCreate
    <3> QED
      BY <1>4, <3>1 DEF OnCreate, files, Smooth
  <2> QED
    BY <2>1 DEF UnpackedInv
<1>5. CASE FindDirectory
  <2>1. processes' = {} /\ pc' \in {"find", "idle"} /\ good' = good
    BY <1>3, <1>5 DEF FindDirectory, End, files
  <2>2. pc' = "idle" => good = 0
    <3>1. ASSUME pc' = "idle" PROVE ~Ready
      <4>1. k \in DOMAIN Packages /\ \E a \in FirstLine(Packages[k]) : device.dir[a] = "none"
        BY <1>1, <1>5, <3>1, ListFacts DEF FindDirectory, End
      <4> QED
        BY <4>1, StateFacts DEF Ready
    <3> QED
      BY <3>1 DEF Inv, ReadyInv
  <2> QED
    BY <2>1, <2>2 DEF UnpackedInv
<1>6. CASE OpenApk
  BY <1>3, <1>6, EntryFacts DEF OpenApk, files, UnpackedInv
<1>7. CASE OpenSource
  <2>1. /\ pc = "open" /\ pc' = "unzip" /\ k' = k /\ processes' = {}
        /\ k \in DOMAIN Entries /\ source' = [source EXCEPT ![Entries[k]] = "partial"]
    <3>1. k <= Len(Entries) /\ Len(Entries) = 2 * Len(Plugins)
      BY <1>7, EntryFacts, ListFacts DEF OpenSource, Entries
    <3> QED
      BY <1>1, <1>3, <1>7, <3>1, EntryFacts, ListFacts DEF OpenSource
  <2>2. ASSUME NEW i \in DOMAIN Entries, i < k PROVE source'[Entries[i]] = "complete"
    <3>1. Entries[i] # Entries[k]
      BY <1>1, <2>1, <2>2, EntriesDiffer
    <3> QED
      BY <1>1, <1>3, <2>1, <2>2, <3>1, EntryFacts
  <2> QED
    BY <2>1, <2>2 DEF UnpackedInv
<1>8. CASE WriteSource
  <2>1. /\ pc = "unzip" /\ pc' = "open" /\ k' = k + 1 /\ processes' = {}
        /\ k \in DOMAIN Entries /\ source' = [source EXCEPT ![Entries[k]] = "complete"]
    BY <1>3, <1>8 DEF WriteSource
  <2>2. ASSUME NEW i \in DOMAIN Entries, i < k' PROVE source'[Entries[i]] = "complete"
    <3>1. i < k \/ i = k
      BY <1>1, <2>1, <2>2, EntryFacts, ListFacts
    <3> QED
      BY <1>1, <1>3, <2>1, <3>1, EntryFacts
  <2> QED
    BY <2>1, <2>2 DEF UnpackedInv
<1>9. CASE StartCopies
  <2>1. pc = "open" /\ pc' = "copy" /\ k > Len(Entries) /\ UNCHANGED <<source, processes>>
    BY <1>9 DEF StartCopies, files
  <2>2. \A i \in DOMAIN Entries : i < k
    BY <1>1, <2>1, EntryFacts, ListFacts DEF Entries
  <2>3. Unpacked'
    BY <1>3, <2>1, <2>2 DEF Unpacked, Sources
  <2> QED
    BY <1>3, <2>1, <2>3 DEF UnpackedInv
<1>10. CASE ExecCopy
  <2>1. pc = "copy" /\ UNCHANGED <<pc, source>>
    BY <1>10 DEF ExecCopy
  <2> QED
    BY <1>3, <2>1 DEF UnpackedInv, Unpacked
<1>11. CASE Finish
  <2>1. pc = "copy" /\ pc' = "idle" /\ good' = good + 1 /\ good \in Nat /\ UNCHANGED source
    BY <1>11 DEF Finish, End, files, Inv, TypeOK
  <2> QED
    BY <1>3, <2>1 DEF UnpackedInv, Unpacked
<1>12. CASE Fails
  BY <1>12 DEF Fails, Smooth
<1>13. ASSUME NEW p \in processes, Run(p) PROVE UnpackedInv'
  <2>1. UNCHANGED <<pc, good, source>> /\ (pc = "copy" \/ (pc = "idle" /\ good > 0))
    BY <1>3, <1>13, RunSteps
  <2> QED
    BY <1>3, <2>1 DEF UnpackedInv, Unpacked
<1>14. CASE UNCHANGED vars
  BY <1>3, <1>14 DEF vars, UnpackedInv, Unpacked
<1> QED
  BY <1>4, <1>5, <1>6, <1>7, <1>8, <1>9, <1>10, <1>11, <1>12, <1>13, <1>14 DEF Next, Activity

(* Any other step than a process's leaves what is done or open as it is.    *)
LEMMA SteadyFiles ==
  ASSUME Steady
  PROVE  \A f : /\ Present(f)' = Present(f) /\ Done(f)' = Done(f)
                /\ Opens(f)' = Opens(f) /\ Copying(f)' = Copying(f)
  BY SteadySteps DEF Present, Done, Opens, Copying, TargetOf

LEMMA ExecutedFiles ==
  ASSUME Inv, ExecCopy
  PROVE  /\ \A f : /\ Present(f)' = Present(f)
                   /\ Done(f) => Done(f)'
                   /\ Opens(f) => Opens(f)'
                   /\ Copying(f)' => Copying(f) \/ f = CopiedIn(k)
         /\ \A f : f = CopiedIn(k) => Copying(f)' /\ Opens(f)'
         /\ UNCHANGED <<pc, libInfo, good, trouble>> /\ k' = k + 1 /\ pc = "copy"
<1>1. PICK a, src : /\ processes' =
                         processes \cup {[cmd |-> c, app |-> a, src |-> src] : c \in Commands}
                    /\ CopiedIn(k) = <<a, src.lib>>
  BY Executed
<1>2. target' = target
  BY DEF ExecCopy
<1> DEFINE cp == [cmd |-> "cp", app |-> a, src |-> src]
           chmod == [cmd |-> "chmod", app |-> a, src |-> src]
<1>3. /\ cp.cmd = "cp" /\ TargetOf(cp) = CopiedIn(k)
      /\ chmod.cmd = "chmod" /\ TargetOf(chmod) = CopiedIn(k)
      /\ processes' = processes \cup {cp, chmod}
  BY <1>1 DEF Commands, TargetOf
<1> HIDE DEF cp, chmod
<1>4. \A f : /\ Copying(f) => Copying(f)'
             /\ Opens(f) => Opens(f)'
             /\ Copying(f)' => Copying(f) \/ f = CopiedIn(k)
  BY <1>2, <1>3 DEF Copying, Opens, TargetOf
<1>5. ASSUME NEW f, f = CopiedIn(k) PROVE Copying(f)' /\ Opens(f)'
  BY <1>2, <1>3, <1>5 DEF Copying, Opens, TargetOf
<1> QED
  BY <1>2, <1>4, <1>5 DEF Present, Done, ExecCopy

(* Nothing of what is smooth was not smooth before.                         *)
LEMMA SmoothBefore ==
  ASSUME Inv, [Next]_vars, Smooth'
  PROVE  Smooth
<1>1. ASSUME NEW p \in processes, Run(p) PROVE trouble \subseteq trouble'
  BY <1>1, RunSteps
<1>2. Steady \/ ExecCopy => trouble \subseteq trouble'
  BY SteadySteps DEF ExecCopy
<1> QED
  BY <1>1, <1>2 DEF Smooth, Next, Activity, Steady

(* When a smooth launch begins, nothing is under way any more.              *)
LEMMA SmoothBeginning ==
  ASSUME Inv, OnCreate, Smooth'
  PROVE  processes = {} /\ pc' = "find" /\ good' = good
<1>1. processes # {} => "overlap" \in trouble'
  BY DEF OnCreate
<1> QED
  BY <1>1 DEF OnCreate, Smooth

LEMMA KeepsDone ==
  ASSUME Inv, [Next]_vars
  PROVE  DoneInv'
<1> SUFFICES ASSUME Smooth' PROVE DoneInv'
  BY DEF DoneInv
<1>1. /\ pc = "copy" => \A m \in 1..(k - 1) : m <= Len(libInfo) * Len(Plugins) => Done(CopiedIn(m))
      /\ good > 0 => \A f \in Targets : Done(f)
  BY SmoothBefore DEF Inv, DoneInv
<1>2. k \in Nat \ {0} /\ good \in Nat
  BY DEF Inv, TypeOK
<1>3. ASSUME Steady, pc' # "copy", good' = good PROVE DoneInv'
  BY <1>1, <1>3, SteadyFiles, PhoneStays DEF DoneInv
<1>4. CASE OnCreate \/ FindDirectory \/ OpenApk \/ OpenSource \/ WriteSource \/ Fails
  BY <1>3, <1>4 DEF Steady, OnCreate, FindDirectory, OpenApk, OpenSource, WriteSource, Fails, End
<1>5. CASE StartCopies
  <2>1. Steady /\ good' = good /\ k' = 1
    BY <1>5 DEF Steady, StartCopies
  <2> QED
    BY <1>1, <2>1, SteadyFiles, PhoneStays DEF DoneInv
<1>6. CASE ExecCopy
  <2>1. /\ \A f : Done(f) => Done(f)'
        /\ \A f : f = CopiedIn(k) => Copying(f)'
        /\ UNCHANGED <<pc, libInfo, good>> /\ k' = k + 1 /\ pc = "copy"
    BY <1>6, ExecutedFiles
  <2>2. ASSUME NEW m \in 1..(k' - 1), m <= Len(libInfo) * Len(Plugins) PROVE Done(CopiedIn(m))'
    <3> DEFINE f == CopiedIn(m)
    <3>1. f' = f
      BY <2>1 DEF CopiedIn
    <3>2. m \in 1..(k - 1) => Done(f)
      BY <1>1, <2>1, <2>2
    <3>3. m = k => f = CopiedIn(k)
      OBVIOUS
    <3> HIDE DEF f
    <3>4. m \in 1..(k - 1) \/ m = k
      BY <1>2, <2>1
    <3>5. ASSUME NEW g, Copying(g)' PROVE Done(g)'
      BY <3>5 DEF Done
    <3>6. \A g : g = f => Done(g)'
      BY <2>1, <3>2, <3>3, <3>4, <3>5
    <3> QED
      BY <3>1, <3>6 DEF f, Done, Copying
  <2>3. good' > 0 => \A f \in Targets' : Done(f)'
    BY <1>1, <2>1, PhoneStays
  <2> QED
    BY <2>1, <2>2, <2>3 DEF DoneInv
<1>7. CASE Finish
  <2>1. Steady /\ pc' = "idle" /\ pc = "copy" /\ k > Len(libInfo) * Len(Plugins)
    BY <1>7 DEF Steady, Finish, End
  <2>2. ASSUME NEW f \in Targets PROVE Done(f)
    <3>1. PICK m \in Nat \ {0} : m <= Len(libInfo) * Len(Plugins) /\ CopiedIn(m) = f
      BY <2>1, AllCopied
    <3>2. m \in 1..(k - 1)
      <4>1. Len(libInfo) * Len(Plugins) \in Nat
        BY StateFacts, ListFacts
      <4> QED
        BY <1>2, <2>1, <3>1, <4>1
    <3> QED
      BY <1>1, <2>1, <3>1, <3>2
  <2> QED
    BY <2>1, <2>2, SteadyFiles, PhoneStays DEF DoneInv
<1>8. ASSUME NEW p \in processes, Run(p) PROVE DoneInv'
  <2>1. UNCHANGED <<pc, k, libInfo, good>> /\ \A f \in Targets : Done(f) => Done(f)'
    BY <1>8, RunSteps, SmoothRun, StateFacts
  <2>2. ASSUME NEW m \in 1..(k - 1), m <= Len(libInfo) * Len(Plugins), pc = "copy"
        PROVE  Done(CopiedIn(m))'
    <3> DEFINE f == CopiedIn(m)
    <3>1. f \in Targets /\ Done(f) /\ f' = f
      BY <1>1, <1>2, <2>1, <2>2, CopiedInTargets DEF CopiedIn
    <3> HIDE DEF f
    <3>2. \A g : g = f => Done(g)'
      BY <2>1, <3>1
    <3> QED
      BY <3>1, <3>2 DEF f, Done, Copying
  <2> QED
    BY <1>1, <2>1, <2>2, PhoneStays DEF DoneInv
<1>9. CASE UNCHANGED vars
  <2>1. UNCHANGED <<pc, k, libInfo, good>> /\ Steady
    BY <1>9 DEF vars, Steady
  <2> QED
    BY <1>1, <2>1, SteadyFiles, PhoneStays DEF DoneInv, CopiedIn, Done, Copying
<1> QED
  BY <1>4, <1>5, <1>6, <1>7, <1>8, <1>9 DEF Next, Activity

LEMMA KeepsEarly ==
  ASSUME Inv, [Next]_vars
  PROVE  EarlyInv'
<1> SUFFICES ASSUME trouble' = {}, NEW f \in DOMAIN target', Present(f)' \/ Copying(f)'
             PROVE  Opens(f)'
  BY DEF EarlyInv
<1>1. Smooth' /\ Smooth
  BY SmoothBefore DEF Smooth
<1>2. trouble = {} => \A g \in DOMAIN target : Present(g) \/ Copying(g) => Opens(g)
  BY DEF Inv, EarlyInv
<1>3. CASE Steady
  <2>1. trouble = {} /\ DOMAIN target' = DOMAIN target
    BY <1>3, SteadySteps
  <2> QED
    BY <1>2, <1>3, <2>1, SteadyFiles
<1>4. CASE ExecCopy
  <2>1. trouble = {} /\ DOMAIN target' = DOMAIN target
    BY <1>4 DEF ExecCopy
  <2> QED
    BY <1>2, <1>4, <2>1, ExecutedFiles
<1>5. ASSUME NEW p \in processes, Run(p) PROVE Opens(f)'
  <2> DEFINE t == TargetOf(p)
             q == [p EXCEPT !.cmd = "copying"]
  <2>1. p \in Process /\ q.cmd = "copying" /\ TargetOf(q) = t
    BY StateFacts DEF Process, TargetOf
  <2>2. target[t] \in [content: Content, abi: Abis, open: BOOLEAN]
    BY StateFacts DEF Inv, TypeOK
  <2>3. [target[t] EXCEPT !.open = TRUE].open
    BY <2>2
  <2>4. trouble' = trouble \/ "early" \in trouble' \/ "failed" \in trouble'
    BY <1>5, RunSteps
  <2>5. /\ trouble = {} /\ DOMAIN target' = DOMAIN target
        /\ \A g \in DOMAIN target : g # t => target'[g] = target[g]
        /\ target[t].open => target'[t].open
        /\ \A r \in processes : r # p => r \in processes'
    BY <1>5, <2>4, RunSteps
  <2>6. /\ processes' \subseteq processes \cup {q}
        /\ \/ p.cmd \in {"cp", "copying"}
           \/ p.cmd = "chmod" /\ Present(t) /\ target'[t].open
    <3> HIDE DEF t
    <3>1. \/ p.cmd = "cp" /\ processes' = (processes \ {p}) \cup {q}
          \/ p.cmd = "copying" /\ processes' = processes \ {p}
          \/ /\ p.cmd = "chmod" /\ processes' = processes \ {p}
             /\ Present(t) /\ target'[t] = [target[t] EXCEPT !.open = TRUE]
          \/ trouble' = trouble \cup {"early"}
          \/ trouble' = trouble \cup {"failed"}
      BY <1>5, RunSteps DEF t
    <3> QED
      BY <2>3, <3>1
  <2> HIDE DEF q
  <2>7. CASE f = t
    <3>1. CASE p.cmd \in {"cp", "copying"}
      <4>1. Copying(f)
        BY <2>7, <3>1 DEF Copying
      <4>2. Opens(f)
        BY <1>2, <2>5, <4>1
      <4> QED
        BY <2>5, <2>6, <3>1, <2>7, <4>2 DEF Opens, TargetOf
    <3>2. CASE target'[t].open
      BY <2>7, <3>2 DEF Opens
    <3> QED
      BY <2>6, <3>1, <3>2
  <2>8. CASE f # t
    <3>1. Present(f)' => Present(f)
      BY <2>5, <2>8 DEF Present
    <3>2. Copying(f)' => Copying(f)
      BY <2>1, <2>5, <2>6, <2>8 DEF Copying, TargetOf
    <3>3. Opens(f)
      BY <1>2, <2>5, <3>1, <3>2
    <3> QED
      BY <2>5, <2>8, <3>3 DEF Opens, TargetOf
  <2> QED
    BY <2>7, <2>8
<1> QED
  BY <1>3, <1>4, <1>5 DEF Next, Activity, Steady

LEMMA KeepsAgain ==
  ASSUME Inv, [Next]_vars
  PROVE  AgainInv'
<1> SUFFICES ASSUME Smooth' PROVE AgainInv'
  BY DEF AgainInv
<1>1. /\ good > 0 /\ pc # "idle" => \A f \in Targets : Present(f)
      /\ good > 0 /\ pc = "copy" =>
           \A m \in 1..(k - 1) : m <= Len(libInfo) * Len(Plugins) => Opens(CopiedIn(m))
      /\ good > 1 => \A f \in Targets : Present(f) /\ Opens(f)
  BY SmoothBefore DEF Inv, AgainInv
<1>2. k \in Nat \ {0} /\ good \in Nat
  BY DEF Inv, TypeOK
<1>3. CASE OnCreate
  <2>1. processes = {} /\ pc' = "find" /\ good' = good /\ Steady
    BY <1>3, SmoothBeginning DEF Steady
  <2>2. good > 0 => \A f \in Targets : Present(f)
    <3>1. good > 0 => \A f \in Targets : Done(f)
      BY SmoothBefore DEF Inv, DoneInv
    <3> QED
      BY <2>1, <3>1 DEF Done, Copying, Present
  <2> QED
    BY <1>1, <2>1, <2>2, SteadyFiles, PhoneStays DEF AgainInv
<1>4. CASE FindDirectory \/ OpenApk \/ OpenSource \/ WriteSource \/ Fails
  <2>1. Steady /\ pc # "idle" /\ pc' # "copy" /\ good' = good
    BY <1>4 DEF Steady, FindDirectory, OpenApk, OpenSource, WriteSource, Fails, End
  <2> QED
    BY <1>1, <2>1, SteadyFiles, PhoneStays DEF AgainInv
<1>5. CASE StartCopies
  <2>1. Steady /\ pc # "idle" /\ good' = good /\ k' = 1
    BY <1>5 DEF Steady, StartCopies
  <2> QED
    BY <1>1, <2>1, SteadyFiles, PhoneStays DEF AgainInv
<1>6. CASE ExecCopy
  <2>1. /\ \A f : Present(f)' = Present(f) /\ (Opens(f) => Opens(f)')
        /\ \A f : f = CopiedIn(k) => Opens(f)'
        /\ UNCHANGED <<pc, libInfo, good>> /\ k' = k + 1 /\ pc = "copy"
    BY <1>6, ExecutedFiles
  <2>2. ASSUME good > 0, NEW m \in 1..(k' - 1), m <= Len(libInfo) * Len(Plugins)
        PROVE  Opens(CopiedIn(m))'
    <3> DEFINE f == CopiedIn(m)
    <3>1. f' = f
      BY <2>1 DEF CopiedIn
    <3>2. m \in 1..(k - 1) => Opens(f)
      BY <1>1, <2>1, <2>2
    <3>3. m = k => f = CopiedIn(k)
      OBVIOUS
    <3> HIDE DEF f
    <3>4. m \in 1..(k - 1) \/ m = k
      BY <1>2, <2>1
    <3>5. \A g : g = f => Opens(g)'
      BY <2>1, <3>2, <3>3, <3>4
    <3> QED
      BY <3>1, <3>5 DEF f, Opens
  <2> QED
    BY <1>1, <2>1, <2>2, PhoneStays DEF AgainInv
<1>7. CASE Finish
  <2>1. Steady /\ pc' = "idle" /\ pc = "copy" /\ k > Len(libInfo) * Len(Plugins) /\ good' = good + 1
    BY <1>7 DEF Steady, Finish, End
  <2>2. ASSUME good > 0, NEW f \in Targets PROVE Present(f) /\ Opens(f)
    <3>1. PICK m \in Nat \ {0} : m <= Len(libInfo) * Len(Plugins) /\ CopiedIn(m) = f
      BY <2>1, AllCopied
    <3>2. m \in 1..(k - 1)
      <4>1. Len(libInfo) * Len(Plugins) \in Nat
        BY StateFacts, ListFacts
      <4> QED
        BY <1>2, <2>1, <3>1, <4>1
    <3> QED
      BY <1>1, <2>1, <2>2, <3>1, <3>2
  <2>3. good' > 1 => good > 0
    BY <1>2, <2>1
  <2> QED
    BY <2>1, <2>2, <2>3, SteadyFiles, PhoneStays DEF AgainInv
<1>8. ASSUME NEW p \in processes, Run(p) PROVE AgainInv'
  <2>1. /\ UNCHANGED <<pc, k, libInfo, good>>
        /\ \A f \in Targets : Present(f) => Present(f)'
        /\ \A f \in Targets : Present(f) /\ Opens(f) => Opens(f)'
    BY <1>8, RunSteps, SmoothRun, StateFacts
  <2>2. ASSUME good > 0, pc = "copy", NEW m \in 1..(k - 1), m <= Len(libInfo) * Len(Plugins)
        PROVE  Opens(CopiedIn(m))'
    <3> DEFINE f == CopiedIn(m)
    <3>1. f \in Targets /\ Opens(f) /\ Present(f) /\ f' = f
      BY <1>1, <1>2, <2>1, <2>2, CopiedInTargets DEF CopiedIn
    <3> HIDE DEF f
    <3>2. \A g : g = f => Opens(g)'
      BY <2>1, <3>1
    <3> QED
      BY <3>1, <3>2 DEF f, Opens
  <2> QED
    BY <1>1, <2>1, <2>2, PhoneStays DEF AgainInv
<1>9. CASE UNCHANGED vars
  <2>1. UNCHANGED <<pc, k, libInfo, good>> /\ Steady
    BY <1>9 DEF vars, Steady
  <2> QED
    BY <1>1, <2>1, SteadyFiles, PhoneStays DEF AgainInv, CopiedIn, Opens
<1> QED
  BY <1>3, <1>4, <1>5, <1>6, <1>7, <1>8, <1>9 DEF Next, Activity

-----------------------------------------------------------------------------

LEMMA InitInv ==
  ASSUME Init
  PROVE  Inv
<1>1. TypeOK
  <2>1. <<>> \in Seq([app: Apps, abi: Abis])
    OBVIOUS
  <2>2. source \in [Sources -> Content]
    BY DEF Init, Content
  <2>3. target \in [Apps \X Libs -> [content: Content, abi: Abis, open: BOOLEAN]]
    <3>1. File("absent", "arm", FALSE) \in [content: Content, abi: Abis, open: BOOLEAN]
      BY DEF File, Content, Abis
    <3> QED
      BY <3>1 DEF Init
  <2>4. launches \in 0..MaxLaunches /\ good \in 0..MaxLaunches
    BY LaunchesOK DEF Init
  <2>5. /\ device \in Device /\ pc = "idle" /\ k = 1 /\ libInfo = <<>> /\ processes = {}
        /\ ended = "never" /\ trouble = {}
    BY DEF Init
  <2> QED
    BY <2>1, <2>2, <2>3, <2>4, <2>5 DEF TypeOK
<1>2. \A f \in DOMAIN target : ~Present(f)
  BY DEF Init, Present, File
<1>3. LaunchInv /\ InfoInv /\ ReadyInv /\ AbiInv
  <2>1. pc = "idle" /\ libInfo = <<>> /\ processes = {} /\ good = 0 /\ launches = 0
    BY DEF Init
  <2>2. LaunchInv /\ InfoInv
    BY <2>1 DEF LaunchInv, InfoInv
  <2>3. ReadyInv /\ AbiInv
    BY <1>2, <2>1 DEF ReadyInv, AbiInv
  <2> QED
    BY <2>2, <2>3
<1>4. UnpackedInv /\ DoneInv /\ AgainInv
  BY DEF Init, UnpackedInv, DoneInv, AgainInv
<1>5. EarlyInv
  BY <1>2 DEF Init, EarlyInv, Copying
<1> QED
  BY <1>1, <1>3, <1>4, <1>5 DEF Inv

LEMMA StepInv ==
  ASSUME Inv, [Next]_vars
  PROVE  Inv'
<1>1. TypeOK' /\ LaunchInv' /\ InfoInv' /\ ReadyInv' /\ AbiInv'
  BY KeepsType, KeepsLaunch, KeepsInfo, KeepsReady, KeepsAbi
<1>2. UnpackedInv' /\ DoneInv' /\ EarlyInv' /\ AgainInv'
  BY KeepsUnpacked, KeepsDone, KeepsEarly, KeepsAgain
<1> QED
  BY <1>1, <1>2 DEF Inv

(* The invariant, TypeOK included, holds for any lists and any phone.       *)
THEOREM InstallerInvariance == Spec => []Inv
<1>1. Init => Inv
  BY InitInv
<1>2. Inv /\ [Next]_vars => Inv'
  BY StepInv
<1> QED
  BY <1>1, <1>2, PTL DEF Spec

(* MissingDirectoryStopsAll for any lists: the return of line 79 keeps      *)
(* every application, not only the one without a directory, from its files. *)
THEOREM MissingDirectoryStops == Spec => []MissingDirectoryStopsAll
<1>1. ASSUME Inv PROVE MissingDirectoryStopsAll
  <2> SUFFICES ASSUME NEW i \in DOMAIN Packages, NEW a \in FirstLine(Packages[i]),
                      device.dir[a] = "none"
               PROVE  \A f \in DOMAIN target : ~Present(f)
    BY DEF MissingDirectoryStopsAll
  <2>1. ~Ready
    BY <1>1, StateFacts DEF Ready
  <2> QED
    BY <1>1, <2>1 DEF Inv, ReadyInv
<1> QED
  BY <1>1, InstallerInvariance, PTL

(* FinishedMeansDeployed for any lists, launches and orders of processes.   *)
THEOREM FinishedDeploys == Spec => []FinishedMeansDeployed
<1>1. ASSUME Inv PROVE FinishedMeansDeployed
  <2> SUFFICES ASSUME Quiet, good > 0, device.piped, Smooth,
                      NEW f \in DOMAIN target, Listed(f[1])
               PROVE  target[f].content = "complete" /\ target[f].abi = device.dir[f[1]]
    BY DEF FinishedMeansDeployed, Smooth
  <2>1. f[1] \in Served /\ f \in Targets
    <3>1. f \in Apps \X Libs
      BY <1>1, StateFacts
    <3>2. PICK i \in DOMAIN Packages : f[1] = Packages[i]
      BY <3>1 DEF Apps
    <3>3. f[1] \in FirstLine(Packages[i])
      BY <3>1, <3>2 DEF FirstLine
    <3> QED
      BY <3>1, <3>3 DEF Served, Targets
  <2>2. target[f].content = "complete"
    BY <1>1, <2>1 DEF Inv, DoneInv, Done, Copying, Quiet
  <2>3. target[f].abi = device.dir[f[1]]
    BY <1>1, <2>2 DEF Inv, AbiInv, Present
  <2> QED
    BY <2>2, <2>3
<1> QED
  BY <1>1, InstallerInvariance, PTL

(* CopiesOpen for any lists, launches and orders of processes: a chmod that  *)
(* came too early is made good by the next launch.                          *)
THEOREM CopiesAreOpen == Spec => []CopiesOpen
<1>1. ASSUME Inv PROVE CopiesOpen
  <2>1. ASSUME Quiet, trouble = {}, NEW f \in DOMAIN target, Present(f) PROVE target[f].open
    <3>1. Opens(f)
      BY <1>1, <2>1 DEF Inv, EarlyInv
    <3> QED
      BY <2>1, <3>1 DEF Opens, Quiet
  <2>2. ASSUME Quiet, good >= 2, trouble \subseteq {"early"}, NEW f \in DOMAIN target, Present(f)
        PROVE  target[f].open
    <3>1. f \in Targets
      <4>1. f \in Apps \X Libs /\ f[1] \in Served
        BY <1>1, <2>2, StateFacts DEF Inv, AbiInv
      <4> QED
        BY <4>1 DEF Targets
    <3>2. Smooth /\ good > 1
      BY <1>1, <2>2 DEF Smooth, Inv, TypeOK
    <3>3. Opens(f)
      BY <1>1, <3>1, <3>2 DEF Inv, AgainInv
    <3> QED
      BY <2>2, <3>3 DEF Opens, Quiet
  <2> QED
    BY <2>1, <2>2 DEF CopiesOpen, DeployedIsOpen, SecondLaunchOpens
<1> QED
  BY <1>1, InstallerInvariance, PTL
=============================================================================

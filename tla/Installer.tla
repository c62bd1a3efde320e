------------------------------- MODULE Installer -------------------------------
(***************************************************************************)
(* MainActivity.onCreate: finds the directories of the applications to hook, *)
(* unpacks the plugins from the module's own apk, and starts for each        *)
(* application and plugin a cp and a chmod process, as root, that nobody     *)
(* waits for.                                                              *)
(*                                                                         *)
(* Abstracted: paths and file contents.  A file is absent, partial or       *)
(* complete, has the ABI of what was copied, and may be opened by the        *)
(* application or not (cp creates it with the mode of the module's private  *)
(* file and leaves the mode of an existing one).                            *)
(***************************************************************************)
EXTENDS Integers, Sequences

CONSTANTS
  Packages,     \* hookPackagesName, in order
  Plugins,      \* libNameArr, in order
  MaxLaunches   \* bound: times the activity is created

Apps == {Packages[i] : i \in DOMAIN Packages}

Libs == {Plugins[i] : i \in DOMAIN Plugins}

ASSUME ListsOK == Packages \in Seq(Apps) /\ Plugins \in Seq(Libs)

(* No plugin is named twice: the apk has one entry of a name.               *)
ASSUME PluginsDiffer == \A i, j \in DOMAIN Plugins : Plugins[i] = Plugins[j] => i = j

ASSUME LaunchesOK == MaxLaunches \in Nat

Abis == {"arm", "arm64"}

(* The entries of the apk that isCopyLib accepts: each plugin for each ABI. *)
Entries ==
  [i \in 1..(2 * Len(Plugins)) |->
     [lib |-> Plugins[(i + 1) \div 2], abi |-> IF i % 2 = 1 THEN "arm" ELSE "arm64"]]

Sources == {Entries[i] : i \in DOMAIN Entries}

VARIABLES
  device,     \* what the phone is like
  launches,   \* onCreate calls begun
  pc,         \* where onCreate is: "idle", "find", "open", "unzip", "copy"
  k,          \* the iteration of the loop it is in
  libInfo,    \* libInfoArray: application and ABI of its directory
  source,     \* per entry: the unpacked file
  target,     \* per application and plugin: the file in its directory
  processes,  \* cp and chmod processes that have not ended
  ended,      \* how the last onCreate ended
  good,       \* history: onCreate calls that reached their end without an exception
  trouble     \* history: a call or process "failed", launches "overlap"ped, chmod was "early"

vars == <<device, launches, pc, k, libInfo, source, target, processes, ended,
          good, trouble>>

(* dir: the directory an application has under lib, or that it has none, or *)
(* is not installed.  piped: su passes "| grep" to a shell; if not, find    *)
(* lists every installed application, the one named first before the rest.  *)
Device ==
  {d \in [dir: [Apps -> Abis \cup {"none", "absent"}], piped: BOOLEAN, first: Apps] :
     d.dir[d.first] = "absent" => \A a \in Apps : d.dir[a] = "absent"}

Content == {"absent", "partial", "complete"}

File(content, abi, open) == [content |-> content, abi |-> abi, open |-> open]

Process == [cmd: {"cp", "copying", "chmod"}, app: Apps, src: Sources]

TypeOK ==
  /\ device \in Device
  /\ launches \in 0..MaxLaunches
  /\ pc \in {"idle", "find", "open", "unzip", "copy"}
  /\ k \in Nat \ {0}
  /\ libInfo \in Seq([app: Apps, abi: Abis])
  /\ source \in [Sources -> Content]
  /\ target \in [Apps \X Libs -> [content: Content, abi: Abis, open: BOOLEAN]]
  /\ processes \subseteq Process
  /\ ended \in {"never", "return", "exception", "finish"}
  /\ good \in 0..MaxLaunches
  /\ trouble \subseteq {"failed", "overlap", "early"}

Init ==
  /\ device \in Device
  /\ launches = 0
  /\ pc = "idle" /\ k = 1 /\ libInfo = <<>>
  /\ source = [e \in Sources |-> "absent"]
  /\ target = [f \in Apps \X Libs |-> File("absent", "arm", FALSE)]
  /\ processes = {}
  /\ ended = "never"
  /\ good = 0
  /\ trouble = {}

files == <<source, target, processes>>

Listed(app) == device.dir[app] # "absent"

-----------------------------------------------------------------------------

(* The activity is created, perhaps while processes of an earlier launch run. *)
OnCreate ==
  /\ pc = "idle"
  /\ launches < MaxLaunches
  /\ launches' = launches + 1
  /\ pc' = "find" /\ k' = 1 /\ libInfo' = <<>>
  /\ trouble' = IF processes = {} THEN trouble ELSE trouble \cup {"overlap"}
  /\ UNCHANGED <<device, files, ended, good>>

(* The first line of find's output that isHookPackage accepts.              *)
FirstLine(p) ==
  (IF device.piped THEN {p} ELSE {device.first}) \cap {a \in Apps : Listed(a)}

End(how) == pc' = "idle" /\ ended' = how

(* Mutation of FindDirectory: the loop goes on with the next package.       *)
SkipDirectory ==
  /\ pc = "find" /\ k <= Len(Packages)
  /\ IF \E a \in FirstLine(Packages[k]) : device.dir[a] # "none"
     THEN \E a \in FirstLine(Packages[k]) :
            libInfo' = Append(libInfo, [app |-> a, abi |-> device.dir[a]])
     ELSE UNCHANGED libInfo
  /\ k' = k + 1
  /\ UNCHANGED <<device, launches, pc, files, ended, good, trouble>>

(* Lines 64-89: a package without a line is passed over; one whose           *)
(* application has neither directory ends onCreate, without finish().       *)
FindDirectory ==
  /\ pc = "find" /\ k <= Len(Packages)
  /\ \/ /\ FirstLine(Packages[k]) = {}
        /\ k' = k + 1
        /\ UNCHANGED <<pc, libInfo, ended>>
     \/ \E a \in FirstLine(Packages[k]) :
          IF device.dir[a] = "none"
          THEN End("return") /\ UNCHANGED <<k, libInfo>>
          ELSE /\ libInfo' = Append(libInfo, [app |-> a, abi |-> device.dir[a]])
               /\ k' = k + 1
               /\ UNCHANGED <<pc, ended>>
  /\ UNCHANGED <<device, launches, files, good, trouble>>

OpenApk ==
  /\ pc = "find" /\ k > Len(Packages)
  /\ pc' = "open" /\ k' = 1
  /\ UNCHANGED <<device, launches, libInfo, files, ended, good, trouble>>

(* Lines 100-109: the file is created or truncated.                         *)
OpenSource ==
  /\ pc = "open" /\ k <= Len(Entries)
  /\ source' = [source EXCEPT ![Entries[k]] = "partial"]
  /\ pc' = "unzip"
  /\ UNCHANGED <<device, launches, k, libInfo, target, processes, ended, good, trouble>>

(* Mutation of WriteSource: the stream is not flushed.                      *)
WriteSourceUnflushed ==
  /\ pc = "unzip"
  /\ pc' = "open" /\ k' = k + 1
  /\ UNCHANGED <<device, launches, libInfo, files, ended, good, trouble>>

(* Lines 111-118.                                                           *)
WriteSource ==
  /\ pc = "unzip"
  /\ source' = [source EXCEPT ![Entries[k]] = "complete"]
  /\ pc' = "open" /\ k' = k + 1
  /\ UNCHANGED <<device, launches, libInfo, target, processes, ended, good, trouble>>

StartCopies ==
  /\ pc = "open" /\ k > Len(Entries)
  /\ pc' = "copy" /\ k' = 1
  /\ UNCHANGED <<device, launches, libInfo, files, ended, good, trouble>>

CopyOf(info, lib) == [lib |-> lib, abi |-> info.abi]

(* Mutation of Commands: the mode is not changed.                           *)
CopyOnly == {"cp"}

(* The two processes of lines 129 and 130.                                  *)
Commands == {"cp", "chmod"}

(* Lines 121-131, for iteration k of the two loops: both processes are       *)
(* started, one after the other.                                            *)
ExecCopy ==
  LET info == libInfo[((k - 1) \div Len(Plugins)) + 1]
      src == CopyOf(info, Plugins[((k - 1) % Len(Plugins)) + 1])
  IN  /\ pc = "copy" /\ k <= Len(libInfo) * Len(Plugins)
      /\ processes' = processes \cup
           {[cmd |-> c, app |-> info.app, src |-> src] : c \in Commands}
      /\ k' = k + 1
      /\ UNCHANGED <<device, launches, pc, libInfo, source, target, ended, good, trouble>>

Finish ==
  /\ pc = "copy" /\ k > Len(libInfo) * Len(Plugins)
  /\ End("finish")
  /\ good' = good + 1
  /\ UNCHANGED <<device, launches, k, libInfo, files, trouble>>

(* An IOException of any call in the try block; finish() follows.           *)
Fails ==
  /\ pc # "idle"
  /\ End("exception")
  /\ trouble' = trouble \cup {"failed"}
  /\ UNCHANGED <<device, launches, k, libInfo, files, good>>

-----------------------------------------------------------------------------

TargetOf(p) == <<p.app, p.src.lib>>

(* cp opens its target, which creates or truncates it.                      *)
CpStarts(p) ==
  /\ p.cmd = "cp"
  /\ source[p.src] # "absent"
  /\ target' = [target EXCEPT ![TargetOf(p)] = File("partial", p.src.abi, @.open)]
  /\ processes' = (processes \ {p}) \cup {[p EXCEPT !.cmd = "copying"]}
  /\ UNCHANGED <<device, launches, pc, k, libInfo, source, ended, good, trouble>>

(* It copies what the source holds.                                         *)
CpEnds(p) ==
  /\ p.cmd = "copying"
  /\ target' = [target EXCEPT ![TargetOf(p)] = File(source[p.src], p.src.abi, @.open)]
  /\ processes' = processes \ {p}
  /\ UNCHANGED <<device, launches, pc, k, libInfo, source, ended, good, trouble>>

(* chmod 755 of a file that exists, or is not there yet.                    *)
Chmod(p) ==
  /\ p.cmd = "chmod"
  /\ processes' = processes \ {p}
  /\ IF target[TargetOf(p)].content = "absent"
     THEN trouble' = trouble \cup {"early"} /\ UNCHANGED target
     ELSE target' = [target EXCEPT ![TargetOf(p)].open = TRUE] /\ UNCHANGED trouble
  /\ UNCHANGED <<device, launches, pc, k, libInfo, source, ended, good>>

(* A process fails: su is refused, the disk is full.                        *)
ProcessFails(p) ==
  /\ processes' = processes \ {p}
  /\ trouble' = trouble \cup {"failed"}
  /\ UNCHANGED <<device, launches, pc, k, libInfo, source, target, ended, good>>

Activity ==
  \/ FindDirectory \/ OpenApk \/ OpenSource \/ WriteSource \/ StartCopies
  \/ ExecCopy \/ Finish \/ Fails

Run(p) == CpStarts(p) \/ CpEnds(p) \/ Chmod(p) \/ ProcessFails(p)

Next == OnCreate \/ Activity \/ \E p \in processes : Run(p)

Spec == Init /\ [][Next]_vars

-----------------------------------------------------------------------------

Quiet == pc = "idle" /\ processes = {}

Present(f) == target[f].content # "absent"

(* One listed application without a native directory keeps all of them from *)
(* being served, now and in every later launch: with grep any, without it   *)
(* the first one.                                                           *)
MissingDirectoryStopsAll ==
  (\E i \in DOMAIN Packages : \E a \in FirstLine(Packages[i]) : device.dir[a] = "none")
    => \A f \in DOMAIN target : ~Present(f)

(* When the log has announced every copy and the processes have ended, each *)
(* installed application has complete plugins of its own ABI, unless a call *)
(* or a process failed, two launches overlapped, or the listing was not     *)
(* filtered.                                                                *)
FinishedMeansDeployed ==
  /\ Quiet /\ good > 0 /\ device.piped
  /\ trouble \cap {"failed", "overlap"} = {}
  => \A f \in DOMAIN target :
       Listed(f[1]) => target[f].content = "complete" /\ target[f].abi = device.dir[f[1]]

(* The application may open a deployed plugin, unless a process failed or   *)
(* chmod came before cp had created the file.                               *)
DeployedIsOpen ==
  Quiet /\ trouble = {} => \A f \in DOMAIN target : Present(f) => target[f].open

(* A second launch, after the first has come to rest, repairs that: chmod    *)
(* finds the file of the first.                                             *)
SecondLaunchOpens ==
  Quiet /\ good >= 2 /\ trouble \subseteq {"early"}
    => \A f \in DOMAIN target : Present(f) => target[f].open

(* What the modes of the deployed files are worth.                          *)
CopiesOpen == DeployedIsOpen /\ SecondLaunchOpens
=============================================================================

---------------------------- MODULE WheelInstall ----------------------------
(***************************************************************************)
(* Processes that install one plugin of the lock, the cache and the files  *)
(* of CpuInstall: the CPU plugin, or the one of TPU or ROCm.  TPUInstall   *)
(* and RocmInstall extract the plugin from a Python wheel to               *)
(* <plugin>.tmp, a name that processes share, and rename it.               *)
(***************************************************************************)
EXTENDS CpuInstall

VARIABLES
  kind,     \* the plugin that the processes install
  pluginTmp \* the file <plugin>.tmp: "absent", "partial" or "whole"

vars == <<lockVars, pc, result, cacheVars, files, kind, pluginTmp>>

Init ==
  /\ InstallInit
  /\ kind \in {"cpu", "tpu", "rocm"}
  /\ pluginTmp = "absent"

(* AMD publishes no hashes, pypi.org does. *)
Hashed == kind = "tpu"

(* No such accelerator in this machine: nothing is installed. *)
Skip(p) ==
  /\ pc[p] = "start"
  /\ Return(p, "skipped")
  /\ UNCHANGED <<lockVars, cacheVars, files, pluginTmp>>

FetchWheel(p) ==
  Fetch(p, Hashed, "unzip") /\ UNCHANGED <<lockVars, files, pluginTmp>>

(* ExtractFileFromZip opens whole archives only, and truncates the file.   *)
StartUnzip(p) ==
  /\ pc[p] = "unzip" /\ archive[file[p]] = "whole"
  /\ pluginTmp' = "partial"
  /\ Goto(p, "unzipping")
  /\ UNCHANGED <<lockVars, cacheVars, files>>

Unzip(p) ==
  /\ pc[p] = "unzipping"
  /\ pluginTmp' = "whole"
  /\ Goto(p, "move")
  /\ UNCHANGED <<lockVars, cacheVars, files>>

Move(p) ==
  /\ pc[p] = "move"
  /\ plugin' = pluginTmp
  /\ pluginTmp' = "absent"
  /\ Goto(p, "unlock")
  /\ UNCHANGED <<lockVars, cacheVars, link, temp>>

(* Once the wheel is there, an error return removes the extracted file. *)
FailWheel(p) ==
  /\ pc[p] \in Downloading \cup {"unzip", "unzipping", "move"}
  /\ pluginTmp' = IF pc[p] \in Downloading THEN pluginTmp ELSE "absent"
  /\ Unlock(p, "error")
  /\ UNCHANGED <<cacheVars, files>>

WheelStep(p) ==
  \/ Skip(p) \/ FetchWheel(p) \/ StartUnzip(p) \/ Unzip(p) \/ Move(p) \/ FailWheel(p)

Next ==
  /\ \E p \in Processes :
       \/ Common(p) /\ UNCHANGED pluginTmp
       \/ kind = "cpu" /\ InstallStep(p) /\ UNCHANGED pluginTmp
       \/ kind # "cpu" /\ WheelStep(p)
  /\ UNCHANGED kind

Spec == Init /\ [][Next]_vars

-----------------------------------------------------------------------------
(* "the plugin .so is never visible in a partially-written state", at any  *)
(* crash, though the processes extract it next to it and, for wheels, to   *)
(* one shared name.                                                        *)
NeverPartial == plugin # "partial"

(* A file in the cache is not fetched again, so one that is not what it    *)
(* should be fails every later installation.  Whatever processes die in    *)
(* the middle of a download, and whatever they leave behind, it is all of  *)
(* what the server sent, and where there is a hash it is the archive.      *)
CacheComplete ==
  cacheFile # NoFile => archive[cacheFile] \in (IF Hashed THEN {"whole"} ELSE Received)

(* AutoInstall returns without an error only when the plugin is there. *)
OkMeansInstalled ==
  [][\A p \in Processes :
       result'[p] \in {"ok", "installed"} /\ result[p] = "none" => plugin = "whole"]_vars

(* A process runs into the timeout only while another one is installing:   *)
(* whatever way a process ends, it leaves no lock behind for others to     *)
(* wait for in vain ("either there is a slow installation in progress, or  *)
(* the lock file is stale").                                               *)
TimeoutMeansBusy ==
  [][\A p \in Processes :
       result[p] = "none" /\ result'[p] = "timeout" =>
         \E q \in Processes \ {p} : Installing(q)]_vars
=============================================================================

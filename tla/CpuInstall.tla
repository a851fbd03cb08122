----------------------------- MODULE CpuInstall -----------------------------
(***************************************************************************)
(* Processes that install the CPU plugin: CPUAutoInstall, which takes the  *)
(* file lock, and CPUInstall, which fetches the archive, extracts the      *)
(* plugin in a directory of its own, moves it into place and links the     *)
(* unversioned name to it.                                                 *)
(***************************************************************************)
EXTENDS DownloadCache

VARIABLES
  plugin,  \* the versioned plugin file: "absent", "partial" or "whole"
  link,    \* the unversioned name exists
  temp     \* the plugin in each process's own .extracting- directory

files == <<plugin, link, temp>>

InstallInit ==
  /\ LockInit
  /\ CacheInit
  /\ plugin = "absent" /\ link = FALSE
  /\ temp = [p \in Processes |-> "absent"]

Check(p) == CheckInstalled(p, plugin # "absent") /\ UNCHANGED <<cacheVars, files>>
Lock(p) == TryLock(p, "fetch") /\ UNCHANGED <<cacheVars, files>>
GiveUp(p) == (TryLockFails(p) \/ LockTimeout(p)) /\ UNCHANGED <<cacheVars, files>>

(* An error return: CPUInstall removes its temporary directory, but not    *)
(* what it has moved into place, and CPUAutoInstall unlocks.               *)
Fail(p) ==
  /\ pc[p] \in Downloading \cup {"mkdir", "extract", "replace", "rename", "unlink", "link"}
  /\ temp' = [temp EXCEPT ![p] = "absent"]
  /\ Unlock(p, "error")
  /\ UNCHANGED <<cacheVars, plugin, link>>

(* GitHub's releases have no hash to compare with. *)
FetchArchive(p) == Fetch(p, FALSE, "mkdir") /\ UNCHANGED <<lockVars, files>>

(* Seeded bug: the plugin is extracted in place. *)
StartExtract_InPlace(p) ==
  /\ pc[p] = "mkdir"
  /\ plugin' = "partial"
  /\ Goto(p, "extract")
  /\ UNCHANGED <<lockVars, cacheVars, link, temp>>

StartExtract(p) ==
  /\ pc[p] = "mkdir"
  /\ temp' = [temp EXCEPT ![p] = "partial"]
  /\ Goto(p, "extract")
  /\ UNCHANGED <<lockVars, cacheVars, plugin, link>>

(* Untar and Unzip come to the end of a whole archive only. *)
Extract(p) ==
  /\ pc[p] = "extract" /\ archive[file[p]] = "whole"
  /\ temp' = [temp EXCEPT ![p] = "whole"]
  /\ Goto(p, "replace")
  /\ UNCHANGED <<lockVars, cacheVars, plugin, link>>

(* "Remove existing file so Rename doesn't fail on some platforms." *)
RemoveOld(p) ==
  /\ pc[p] = "replace"
  /\ plugin' = "absent"
  /\ Goto(p, "rename")
  /\ UNCHANGED <<lockVars, cacheVars, link, temp>>

(* Seeded bug: the error of os.Rename is ignored. *)
Rename_Ignored(p) ==
  /\ pc[p] = "rename"
  /\ Goto(p, "unlink")
  /\ UNCHANGED <<lockVars, cacheVars, files>>

Rename(p) ==
  /\ pc[p] = "rename"
  /\ plugin' = temp[p]
  /\ temp' = [temp EXCEPT ![p] = "absent"]
  /\ Goto(p, "unlink")
  /\ UNCHANGED <<lockVars, cacheVars, link>>

RemoveLink(p) ==
  /\ pc[p] = "unlink"
  /\ link' = FALSE
  /\ Goto(p, "link")
  /\ UNCHANGED <<lockVars, cacheVars, plugin, temp>>

Link(p) ==
  /\ pc[p] = "link" /\ ~link
  /\ link' = TRUE
  /\ Goto(p, "unlock")
  /\ UNCHANGED <<lockVars, cacheVars, plugin, temp>>

Finish(p) == pc[p] = "unlock" /\ Unlock(p, "ok") /\ UNCHANGED <<cacheVars, files>>

Crash(p) == Die(p) /\ UNCHANGED <<cacheVars, files>>

InstallStep(p) ==
  \/ FetchArchive(p) \/ StartExtract(p) \/ Extract(p) \/ RemoveOld(p)
  \/ Rename(p) \/ RemoveLink(p) \/ Link(p) \/ Fail(p)

Common(p) == Check(p) \/ Lock(p) \/ GiveUp(p) \/ Finish(p) \/ Crash(p)
=============================================================================

---------------------------- MODULE CudaInstall ----------------------------
(***************************************************************************)
(* Processes that install the CUDA plugin: CudaAutoInstall, which takes    *)
(* the file lock, and the pjrt_installer command, which does not; both run *)
(* CudaInstall.  It deletes the nvidia directory, with the lock file in    *)
(* it, extracts the libraries in place, and the plugin through a temporary *)
(* file whose name every process shares.                                   *)
(***************************************************************************)
EXTENDS FileLock

CONSTANT Commands  \* the processes that are pjrt_installer commands

ASSUME CudaAssumption == Commands \subseteq Processes

VARIABLES
  alone,              \* in this behaviour, no two processes run at a time
  plugin, tmp, libs,  \* each is "absent", "partial" or "whole"
  writing             \* what each process is extracting, and where that now is

files == <<plugin, tmp, libs>>
vars  == <<lockVars, pc, result, alone, files, writing>>

Init ==
  /\ LockInit
  /\ alone \in BOOLEAN
  /\ plugin = "absent" /\ tmp = "absent" /\ libs = "absent"
  /\ writing = [p \in Processes |-> "none"]

MayStart == alone => \A q \in Processes : ~Active(q)

Check(p) ==
  /\ MayStart /\ p \notin Commands
  /\ CheckInstalled(p, plugin # "absent")
  /\ UNCHANGED <<files, writing>>

Command(p) ==
  /\ MayStart /\ p \in Commands /\ pc[p] = "start"
  /\ Goto(p, "wipe")
  /\ UNCHANGED <<lockVars, files, writing>>

Lock(p) == TryLock(p, "wipe") /\ UNCHANGED <<files, writing>>
GiveUp(p) == (TryLockFails(p) \/ LockTimeout(p)) /\ UNCHANGED <<files, writing>>

(* Whoever was writing a removed or truncated file writes to nothing now. *)
Orphan(what) ==
  [q \in Processes |-> IF writing[q] \in what THEN "lost" ELSE writing[q]]

(* os.RemoveAll removes the entries of the directory one by one, in any    *)
(* order, and the directory last.                                          *)
RemoveEntry(p) ==
  /\ pc[p] = "wipe"
  /\ \/ /\ plugin' = "absent" /\ writing' = Orphan({"plugin"})
        /\ UNCHANGED <<tmp, libs, lockFile>>
     \/ /\ tmp' = "absent" /\ writing' = Orphan({"tmp"})
        /\ UNCHANGED <<plugin, libs, lockFile>>
     \/ /\ libs = "whole"
        /\ libs' = "partial" /\ writing' = Orphan({"libs"})
        /\ UNCHANGED <<plugin, tmp, lockFile>>
     \/ /\ lockFile' = 0
        /\ UNCHANGED <<plugin, tmp, libs, writing>>
  /\ UNCHANGED <<dir, inodes, locked, pc, result>>

RemoveDir(p) ==
  /\ pc[p] = "wipe"
  /\ dir' = FALSE /\ lockFile' = 0
  /\ plugin' = "absent" /\ tmp' = "absent" /\ libs' = "absent"
  /\ writing' = Orphan({"plugin", "tmp", "libs"})
  /\ Goto(p, "libs")
  /\ UNCHANGED <<inodes, locked>>

(* CudaInstallNvidiaLibraries: the wheels are extracted in place. *)
StartLibs(p) ==
  /\ pc[p] = "libs"
  /\ dir' = TRUE /\ libs' = "partial"
  /\ writing' = [Orphan({"libs"}) EXCEPT ![p] = "libs"]
  /\ Goto(p, "extracting")
  /\ UNCHANGED <<lockFile, inodes, locked, plugin, tmp>>

(* Seeded bug: an error extracting a library is ignored. *)
FinishLibs_IgnoresErrors(p) ==
  /\ pc[p] = "extracting"
  /\ libs' \in {"partial", "whole"}
  /\ writing' = [writing EXCEPT ![p] = "none"]
  /\ dir' = TRUE
  /\ Goto(p, "plugin")
  /\ UNCHANGED <<lockFile, inodes, locked, plugin, tmp>>

(* With another process at the same libraries, or behind one that deleted  *)
(* them, there is no telling what is there.                                *)
FinishLibs(p) ==
  /\ pc[p] = "extracting"
  /\ libs' \in IF /\ writing[p] = "libs"
                  /\ \A q \in Processes \ {p} : pc[q] # "extracting"
               THEN {"whole"} ELSE {"partial", "whole"}
  /\ writing' = [writing EXCEPT ![p] = "none"]
  /\ dir' = TRUE
  /\ Goto(p, "plugin")
  /\ UNCHANGED <<lockFile, inodes, locked, plugin, tmp>>

(* CudaInstallPJRT: os.Create truncates the temporary file, whosever it is. *)
StartPlugin(p) ==
  /\ pc[p] = "plugin"
  /\ dir' = TRUE /\ tmp' = "partial"
  /\ writing' = [Orphan({"tmp"}) EXCEPT ![p] = "tmp"]
  /\ Goto(p, "copying")
  /\ UNCHANGED <<lockFile, inodes, locked, plugin, libs>>

FinishPlugin(p) ==
  /\ pc[p] = "copying"
  /\ tmp' = IF writing[p] = "tmp" THEN "whole" ELSE tmp
  /\ plugin' = IF writing[p] = "plugin" THEN "whole" ELSE plugin
  /\ writing' = [writing EXCEPT ![p] = "none"]
  /\ Goto(p, "rename")
  /\ UNCHANGED <<lockVars, libs>>

(* Seeded bug: the error of os.Rename is ignored. *)
Rename_Ignored(p) ==
  /\ pc[p] = "rename"
  /\ Goto(p, "unlock")
  /\ UNCHANGED <<lockVars, files, writing>>

(* os.Rename takes along the file, and who is still writing to it. *)
Rename(p) ==
  /\ pc[p] = "rename" /\ tmp # "absent"
  /\ plugin' = tmp /\ tmp' = "absent"
  /\ writing' = [q \in Processes |->
       CASE writing[q] = "tmp" -> "plugin" [] writing[q] = "plugin" -> "lost"
         [] OTHER -> writing[q]]
  /\ Goto(p, "unlock")
  /\ UNCHANGED <<lockVars, libs>>

Finish(p) == pc[p] = "unlock" /\ Unlock(p, "ok") /\ UNCHANGED <<files, writing>>

(* Seeded bug: a rename that fails is tried again, for ever. *)
Fail_NotRename(p) ==
  /\ pc[p] \in {"wipe", "libs", "extracting", "plugin", "copying"}
  /\ LET orphans == IF pc[p] = "copying" THEN Orphan({"tmp"}) ELSE writing
     IN writing' = [orphans EXCEPT ![p] = "none"]
  /\ tmp' = IF pc[p] = "copying" THEN "absent" ELSE tmp
  /\ Unlock(p, "error")
  /\ UNCHANGED <<plugin, libs>>

(* An error return.  Past the libraries the temporary file is removed,     *)
(* if CudaInstallPJRT had come to extracting it.                           *)
Fail(p) ==
  /\ pc[p] \in {"wipe", "libs", "extracting", "plugin", "copying", "rename"}
  /\ LET orphans == IF pc[p] \in {"copying", "rename"} THEN Orphan({"tmp"}) ELSE writing
     IN writing' = [orphans EXCEPT ![p] = "none"]
  /\ tmp' = IF pc[p] \in {"copying", "rename"} THEN "absent" ELSE tmp
  /\ Unlock(p, "error")
  /\ UNCHANGED <<plugin, libs>>

Crash(p) ==
  /\ Die(p)
  /\ writing' = [writing EXCEPT ![p] = "none"]
  /\ UNCHANGED files

Step(p) ==
  \/ Check(p) \/ Command(p) \/ Lock(p) \/ RemoveDir(p) \/ StartLibs(p)
  \/ FinishLibs(p) \/ StartPlugin(p) \/ FinishPlugin(p) \/ Rename(p) \/ Finish(p)

Next ==
  /\ \E p \in Processes :
       Step(p) \/ RemoveEntry(p) \/ GiveUp(p) \/ Fail(p) \/ Crash(p)
  /\ UNCHANGED alone

Spec == Init /\ [][Next]_vars

(* A process runs until it returns, unless it dies. *)
Runs(p) ==
  /\ Step(p) \/ GiveUp(p) \/ Fail(p)
  /\ UNCHANGED alone

FairSpec == Spec /\ \A p \in Processes : WF_vars(Runs(p))

-----------------------------------------------------------------------------
(* Processes that all take the lock, one after the other.  A command would *)
(* delete a good installation, and may die half-way, the plugin still in   *)
(* place.                                                                  *)
Undisturbed == alone /\ \A p \in Commands : pc[p] = "start"

(* The plugin is what the next CudaAutoInstall looks for: whatever process *)
(* fails or dies on the way, it never stands next to libraries that are    *)
(* missing or cut short (CudaInstall deletes everything first and puts the *)
(* plugin in place last).                                                  *)
PluginMeansLibs ==
  Undisturbed /\ plugin # "absent" => plugin = "whole" /\ libs = "whole"

(* CudaAutoInstall "installs the latest version of the CUDA PJRT and       *)
(* Nvidia libraries if not yet installed": a call that returns no error    *)
(* leaves both there.                                                      *)
OkMeansInstalled ==
  [][\A p \in Processes :
       Undisturbed /\ result'[p] \in {"ok", "installed"} /\ result[p] = "none"
         => plugin = "whole" /\ libs = "whole"]_vars

(* Nobody waits for ever, though the lock file and the directory it is in  *)
(* come and go, and the processes holding it may die.                      *)
EveryProcessReturns ==
  \A p \in Processes : <>(pc[p] \in {"returned", "dead"})
=============================================================================

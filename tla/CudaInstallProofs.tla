------------------------- MODULE CudaInstallProofs -------------------------
(***************************************************************************)
(* What one installer of CUDA after the other leaves on the disk, for any  *)
(* number of them, failing or dying at any step.                           *)
(***************************************************************************)
EXTENDS CudaInstall, TLAPS

Places == {"start", "lock", "wipe", "libs", "extracting", "plugin", "copying", "rename",
           "unlock", "returned", "dead"}

(* Where a process is tells what is on the disk: everything is deleted     *)
(* first, then the libraries are made whole, then the plugin.              *)
Stage(p) ==
  /\ pc[p] \in {"lock", "wipe", "libs", "extracting", "plugin", "copying", "rename"} => plugin = "absent"
  /\ pc[p] = "extracting" => writing[p] = "libs"
  /\ pc[p] \in {"plugin", "copying", "rename", "unlock"} => libs = "whole"
  /\ pc[p] = "copying" => writing[p] = "tmp"
  /\ pc[p] = "rename" => tmp = "whole"
  /\ pc[p] = "unlock" => plugin = "whole"

CudaTypes ==
  /\ pc \in [Processes -> Places]
  /\ result \in [Processes -> {"none", "installed", "ok", "error", "timeout"}]
  /\ alone \in BOOLEAN
  /\ writing \in [Processes -> {"none", "lost", "libs", "tmp", "plugin"}]

OneActive == alone => \A p, q \in Processes : Active(p) /\ Active(q) => p = q

CudaInv ==
  /\ CudaTypes
  /\ OneActive
  /\ Undisturbed => PluginMeansLibs /\ \A p \in Processes : Stage(p)

LEMMA CudaInvInit == Init => CudaInv
BY DEF Init, LockInit, CudaInv, CudaTypes, OneActive, Stage, Places, Active, PluginMeansLibs

LEMMA TypesKept ==
  ASSUME CudaInv, NEW p \in Processes,
         Step(p) \/ RemoveEntry(p) \/ GiveUp(p) \/ Fail(p) \/ Crash(p), UNCHANGED alone
  PROVE  /\ CudaTypes'
         /\ \A q \in Processes \ {p} : pc'[q] = pc[q] /\ result'[q] = result[q]
         /\ OneActive'
<1> USE DEF CudaInv, CudaTypes, Places, Goto, Return, Orphan
<1>1. CASE Check(p)
  BY <1>1 DEF Check, CheckInstalled, MayStart, OneActive, Active
<1>2. CASE Command(p)
  BY <1>2 DEF Command, MayStart, OneActive, Active
<1>3. CASE Lock(p)
  BY <1>3 DEF Lock, TryLock, OneActive, Active
<1>4. CASE GiveUp(p)
  BY <1>4 DEF GiveUp, TryLockFails, LockTimeout, OneActive, Active
<1>5. CASE RemoveEntry(p)
  BY <1>5 DEF RemoveEntry, OneActive, Active
<1>6. CASE RemoveDir(p)
  BY <1>6 DEF RemoveDir, OneActive, Active
<1>7. CASE StartLibs(p)
  BY <1>7 DEF StartLibs, OneActive, Active
<1>8. CASE FinishLibs(p)
  BY <1>8 DEF FinishLibs, OneActive, Active
<1>9. CASE StartPlugin(p)
  BY <1>9 DEF StartPlugin, OneActive, Active
<1>10. CASE FinishPlugin(p)
  BY <1>10 DEF FinishPlugin, OneActive, Active
<1>11. CASE Rename(p)
  BY <1>11 DEF Rename, OneActive, Active
<1>12. CASE Finish(p)
  BY <1>12 DEF Finish, Unlock, OneActive, Active
<1>13. CASE Fail(p)
  BY <1>13 DEF Fail, Unlock, OneActive, Active
<1>14. CASE Crash(p)
  BY <1>14 DEF Crash, Die, OneActive, Active
<1> QED
  BY <1>1, <1>2, <1>3, <1>4, <1>5, <1>6, <1>7, <1>8, <1>9, <1>10, <1>11, <1>12, <1>13, <1>14
  DEF Step

(* The process that runs, alone, keeps what is said of it; the others are  *)
(* not running, and nothing is said of them.                               *)
LEMMA StageKept ==
  ASSUME CudaInv, Undisturbed, NEW p \in Processes,
         Step(p) \/ RemoveEntry(p) \/ GiveUp(p) \/ Fail(p) \/ Crash(p), p \notin Commands
  PROVE  /\ plugin' # "absent" => plugin' = "whole" /\ libs' = "whole"
         /\ Stage(p)'
<1> USE DEF CudaInv, CudaTypes, Places, Goto, Return, Orphan, Stage, PluginMeansLibs, Active
<1>1. CASE Check(p)
  BY <1>1 DEF Check, CheckInstalled, files
<1>2. CASE Lock(p)
  BY <1>2 DEF Lock, TryLock, files
<1>3. CASE GiveUp(p)
  BY <1>3 DEF GiveUp, TryLockFails, LockTimeout, files
<1>4. CASE RemoveEntry(p)
  BY <1>4 DEF RemoveEntry
<1>5. CASE RemoveDir(p)
  BY <1>5 DEF RemoveDir
<1>6. CASE StartLibs(p)
  BY <1>6 DEF StartLibs
<1>7. CASE FinishLibs(p)
  <2>1. \A q \in Processes \ {p} : pc[q] # "extracting"
    BY <1>7 DEF FinishLibs, OneActive, Undisturbed
  <2> QED BY <1>7, <2>1 DEF FinishLibs
<1>8. CASE StartPlugin(p)
  BY <1>8 DEF StartPlugin
<1>9. CASE FinishPlugin(p)
  BY <1>9 DEF FinishPlugin
<1>10. CASE Rename(p)
  BY <1>10 DEF Rename
<1>11. CASE Finish(p)
  BY <1>11 DEF Finish, Unlock, files
<1>12. CASE Fail(p)
  BY <1>12 DEF Fail, Unlock
<1>13. CASE Crash(p)
  BY <1>13 DEF Crash, Die, files
<1> QED
  BY <1>1, <1>2, <1>3, <1>4, <1>5, <1>6, <1>7, <1>8, <1>9, <1>10, <1>11, <1>12, <1>13
  DEF Step, Command

LEMMA CommandStarts ==
  ASSUME CudaInv, NEW p \in Commands,
         Step(p) \/ RemoveEntry(p) \/ GiveUp(p) \/ Fail(p) \/ Crash(p)
  PROVE  pc'[p] # "start"
BY CudaAssumption DEF CudaInv, CudaTypes, Goto, Return, Step, Check, Command, Lock, TryLock,
   GiveUp, TryLockFails, LockTimeout, RemoveEntry, RemoveDir, StartLibs, FinishLibs, StartPlugin,
   FinishPlugin, Rename, Finish, Unlock, Fail, Crash, Die

LEMMA CudaInvNext == CudaInv /\ [Next]_vars => CudaInv'
<1> SUFFICES ASSUME CudaInv, [Next]_vars PROVE CudaInv'
  OBVIOUS
<1>1. CASE UNCHANGED vars
  BY <1>1 DEF vars, lockVars, files, CudaInv, CudaTypes, OneActive, Active, Undisturbed,
     PluginMeansLibs, Stage
<1>2. ASSUME NEW p \in Processes, UNCHANGED alone,
             Step(p) \/ RemoveEntry(p) \/ GiveUp(p) \/ Fail(p) \/ Crash(p)
      PROVE  CudaInv'
  <2>1. /\ CudaTypes' /\ OneActive'
        /\ \A q \in Processes \ {p} : pc'[q] = pc[q]
    BY <1>2, TypesKept
  <2>2. SUFFICES ASSUME Undisturbed'
                 PROVE  PluginMeansLibs' /\ \A q \in Processes : Stage(q)'
    BY <2>1 DEF CudaInv
  <2>3. p \notin Commands /\ Undisturbed
    BY <1>2, <2>1, <2>2, CommandStarts, CudaAssumption DEF Undisturbed
  <2>4. PluginMeansLibs' /\ Stage(p)'
    BY <1>2, <2>3, StageKept DEF PluginMeansLibs
  <2>5. ASSUME NEW q \in Processes, q # p PROVE Stage(q)'
    <3>1. Active(p) \/ MayStart
      BY <1>2, <2>3 DEF Step, Check, Lock, TryLock, GiveUp, TryLockFails, LockTimeout, RemoveEntry,
         RemoveDir, StartLibs, FinishLibs, StartPlugin, FinishPlugin, Rename, Finish, Fail, Crash,
         Die, Active, Command
    <3>2. ~Active(q)
      BY <2>3, <2>5, <3>1 DEF CudaInv, OneActive, MayStart, Undisturbed
    <3>3. pc'[q] = pc[q]
      BY <2>1, <2>5
    <3> QED BY <3>2, <3>3 DEF Stage, Active
  <2> QED BY <2>4, <2>5
<1> QED BY <1>1, <1>2 DEF Next

LEMMA CudaInvAlways == Spec => []CudaInv
BY CudaInvInit, CudaInvNext, PTL DEF Spec

(* Installers that all take the lock, one after the other, never leave the *)
(* plugin next to libraries that are missing or cut short.                 *)
THEOREM PluginNeedsLibs == Spec => []PluginMeansLibs
<1>1. CudaInv => PluginMeansLibs
  BY DEF CudaInv, PluginMeansLibs
<1> QED BY <1>1, CudaInvAlways, PTL

(* A call that returns without an error leaves the plugin and its          *)
(* libraries there, whether it has installed them or found them.           *)
THEOREM SuccessMeansCuda == Spec => OkMeansInstalled
<1>1. CudaInv /\ [Next]_vars =>
        [\A p \in Processes :
           Undisturbed /\ result'[p] \in {"ok", "installed"} /\ result[p] = "none"
             => plugin = "whole" /\ libs = "whole"]_vars
  <2> SUFFICES ASSUME CudaInv, Next, NEW q \in Processes,
                      Undisturbed, result'[q] \in {"ok", "installed"}, result[q] = "none"
               PROVE  plugin = "whole" /\ libs = "whole"
    OBVIOUS
  <2>1. PICK p \in Processes : Step(p) \/ RemoveEntry(p) \/ GiveUp(p) \/ Fail(p) \/ Crash(p)
    BY DEF Next
  <2>2. p = q
    BY <2>1, TypesKept DEF Next
  <2>3. Check(q) \/ Finish(q)
    BY <2>1, <2>2 DEF CudaInv, CudaTypes, Goto, Return, Step, Command, Lock, TryLock, GiveUp,
       TryLockFails, LockTimeout, RemoveEntry, RemoveDir, StartLibs, FinishLibs, StartPlugin,
       FinishPlugin, Rename, Unlock, Fail, Crash, Die
  <2>4. CASE Check(q)
    BY <2>4 DEF Check, CheckInstalled, Return, Goto, CudaInv, CudaTypes, PluginMeansLibs
  <2>5. CASE Finish(q)
    BY <2>5 DEF Finish, CudaInv, Stage
  <2> QED BY <2>3, <2>4, <2>5
<1> QED BY <1>1, CudaInvAlways, PTL DEF Spec, OkMeansInstalled
=============================================================================

------------------------------ MODULE FileLock ------------------------------
(***************************************************************************)
(* checkInstallOrFileLock and Unlock: the lock that keeps processes from   *)
(* installing the same plugin at the same time.  The lock is a flock on    *)
(* the file <plugin>.lock; it belongs to the file's inode, not its name.   *)
(* A process that dies loses its lock.                                     *)
(***************************************************************************)
EXTENDS Naturals

CONSTANT Processes

VARIABLES
  dir,       \* the installation directory exists
  lockFile,  \* the inode of the lock file, 0 if there is none
  inodes,    \* the number of lock files created
  locked,    \* the inode each process has locked, 0 for none
  pc, result \* each process: where it is, and what AutoInstall returned

lockVars == <<dir, lockFile, inodes, locked>>

LockInit ==
  /\ dir = FALSE /\ lockFile = 0 /\ inodes = 0
  /\ locked = [p \in Processes |-> 0]
  /\ pc = [p \in Processes |-> "start"]
  /\ result = [p \in Processes |-> "none"]

Return(p, r) ==
  /\ pc' = [pc EXCEPT ![p] = "returned"]
  /\ result' = [result EXCEPT ![p] = r]

Goto(p, step) ==
  /\ pc' = [pc EXCEPT ![p] = step]
  /\ UNCHANGED result

(* os.Stat of the plugin, then MkdirAll; either may fail. *)
CheckInstalled(p, present) ==
  /\ pc[p] = "start"
  /\ \/ present /\ Return(p, "installed") /\ UNCHANGED lockVars
     \/ Return(p, "error") /\ UNCHANGED lockVars
     \/ /\ ~present
        /\ dir' = TRUE
        /\ Goto(p, "lock")
        /\ UNCHANGED <<lockFile, inodes, locked>>

(* Seeded bug: the outcome of TryLock is not looked at. *)
TryLock_Ignored(p, step) ==
  LET inode == IF lockFile = 0 THEN inodes + 1 ELSE lockFile IN
  /\ pc[p] = "lock" /\ dir
  /\ lockFile' = inode
  /\ inodes' = IF lockFile = 0 THEN inode ELSE inodes
  /\ Goto(p, step)
  /\ UNCHANGED <<dir, locked>>

(* TryLock opens the file anew, creating it if it is missing. *)
TryLock(p, step) ==
  LET inode == IF lockFile = 0 THEN inodes + 1 ELSE lockFile IN
  /\ pc[p] = "lock" /\ dir
  /\ \A q \in Processes : locked[q] # inode
  /\ lockFile' = inode
  /\ inodes' = IF lockFile = 0 THEN inode ELSE inodes
  /\ locked' = [locked EXCEPT ![p] = inode]
  /\ Goto(p, step)
  /\ UNCHANGED dir

(* TryLock cannot open the file, always so if its directory is gone. *)
TryLockFails(p) ==
  /\ pc[p] = "lock"
  /\ Return(p, "error")
  /\ UNCHANGED lockVars

(* InstallationFileLockTimeout, while another process has the lock. *)
LockTimeout(p) ==
  /\ pc[p] = "lock" /\ dir /\ lockFile # 0
  /\ \E q \in Processes : locked[q] = lockFile
  /\ Return(p, "timeout")
  /\ UNCHANGED lockVars

(* Seeded bug: the lock is left to whoever installs next. *)
Unlock_KeepsLock(p, r) ==
  /\ Return(p, r)
  /\ UNCHANGED lockVars

Unlock(p, r) ==
  /\ locked' = [locked EXCEPT ![p] = 0]
  /\ Return(p, r)
  /\ UNCHANGED <<dir, lockFile, inodes>>

(* The process dies; what it wrote to the disk stays. *)
Die(p) ==
  /\ pc[p] \notin {"start", "returned", "dead"}
  /\ locked' = [locked EXCEPT ![p] = 0]
  /\ Goto(p, "dead")
  /\ UNCHANGED <<dir, lockFile, inodes>>

Active(p) == pc[p] \notin {"start", "returned", "dead"}
Installing(p) == Active(p) /\ pc[p] # "lock"

(* "strictly exclusive lock" (flock_test.go): between taking the lock and  *)
(* releasing it, no other process is installing.                           *)
OneInstaller ==
  \A p, q \in Processes : Installing(p) /\ Installing(q) => p = q
=============================================================================

---------------------------- MODULE InstallProofs ----------------------------
(***************************************************************************)
(* The installers and New.  The lock excludes, for any number of processes  *)
(* that die or fail where they may; from that follow what the files hold    *)
(* that they share.  What a program does that loads a plugin adds nothing   *)
(* to the installations, so what is proved of them holds there; and New     *)
(* finds the plugin, whatever the others do meanwhile.                     *)
(***************************************************************************)
EXTENDS PluginLoading, TLAPS

(* Where a process is while it has the lock. *)
Inside ==
  Downloading \cup {"mkdir", "extract", "replace", "rename", "unlink", "link", "unlock",
                    "unzip", "unzipping", "move"}

Results == {"none", "installed", "skipped", "timeout", "error", "ok"}

LockInv ==
  /\ lockFile \in Nat /\ inodes \in Nat
  /\ locked \in [Processes -> Nat]
  /\ pc \in [Processes -> Inside \cup {"start", "lock", "returned", "dead"}]
  /\ result \in [Processes -> Results]
  /\ \A p \in Processes : locked[p] # 0 <=> pc[p] \in Inside
  /\ \A p \in Processes : locked[p] \in {0, lockFile}
  /\ OneInstaller

(* A step of a process that has the lock and keeps it. *)
InnerStep(p) ==
  /\ pc[p] \in Inside
  /\ \E step \in Inside : Goto(p, step)
  /\ UNCHANGED lockVars

LEMMA InstallingInside ==
  ASSUME LockInv
  PROVE  \A p \in Processes : Installing(p) <=> pc[p] \in Inside
BY DEF LockInv, Installing, Active, Inside, Downloading

LEMMA FetchIsInner ==
  ASSUME NEW p \in Processes, NEW hashed \in BOOLEAN, NEW next \in {"mkdir", "unzip"},
         Fetch(p, hashed, next), UNCHANGED lockVars
  PROVE  InnerStep(p)
<1>1. CASE UseCached(p, hashed, next)
  BY <1>1 DEF UseCached, InnerStep, Inside, Downloading
<1>2. CASE DownloadPrivate(p, hashed, next)
  BY <1>2 DEF DownloadPrivate, InnerStep, Inside, Downloading
<1>3. CASE CreateTmp(p)
  BY <1>3 DEF CreateTmp, InnerStep, Inside, Downloading
<1>4. CASE Download(p)
  BY <1>4 DEF Download, InnerStep, Inside, Downloading
<1>5. CASE Uncache(p, hashed)
  BY <1>5 DEF Uncache, InnerStep, Inside, Downloading
<1>6. CASE Store(p, next)
  BY <1>6 DEF Store, InnerStep, Inside, Downloading
<1> QED BY <1>1, <1>2, <1>3, <1>4, <1>5, <1>6 DEF Fetch

(* Every step is one of the lock, or of a process that has it. *)
LEMMA StepsOfTheLock ==
  ASSUME NEW p \in Processes,
         Common(p) \/ InstallStep(p) \/ WheelStep(p)
  PROVE  \/ CheckInstalled(p, plugin # "absent")
         \/ TryLock(p, "fetch")
         \/ TryLockFails(p) \/ LockTimeout(p)
         \/ pc[p] \in Inside /\ \E r \in {"ok", "error"} : Unlock(p, r)
         \/ Die(p)
         \/ pc[p] = "start" /\ Return(p, "skipped") /\ UNCHANGED lockVars
         \/ InnerStep(p)
<1>1. CASE Common(p)
  BY <1>1 DEF Common, Check, Lock, GiveUp, Finish, Crash, Inside
<1>2. CASE InstallStep(p)
  <2>1. CASE FetchArchive(p)
    BY <2>1, FetchIsInner DEF FetchArchive
  <2>2. CASE Fail(p)
    BY <2>2 DEF Fail, Inside
  <2>3. CASE StartExtract(p) \/ Extract(p)
    BY <2>3 DEF StartExtract, Extract, InnerStep, Inside, lockVars
  <2>4. CASE RemoveOld(p) \/ Rename(p)
    BY <2>4 DEF RemoveOld, Rename, InnerStep, Inside, lockVars
  <2>5. CASE RemoveLink(p) \/ Link(p)
    BY <2>5 DEF RemoveLink, Link, InnerStep, Inside, lockVars
  <2> QED BY <1>2, <2>1, <2>2, <2>3, <2>4, <2>5 DEF InstallStep
<1>3. CASE WheelStep(p)
  <2>1. CASE FetchWheel(p)
    BY <2>1, FetchIsInner DEF FetchWheel, Hashed
  <2>2. CASE FailWheel(p)
    BY <2>2 DEF FailWheel, Inside
  <2>3. CASE StartUnzip(p) \/ Unzip(p) \/ Move(p)
    BY <2>3 DEF StartUnzip, Unzip, Move, InnerStep, Inside, lockVars
  <2>4. CASE Skip(p)
    BY <2>4 DEF Skip, lockVars
  <2> QED BY <1>3, <2>1, <2>2, <2>3, <2>4 DEF WheelStep
<1> QED BY <1>1, <1>2, <1>3

LEMMA LockInvInit == Init => LockInv
BY DEF Init, InstallInit, LockInit, LockInv, Results, OneInstaller, Installing, Active, Inside, Downloading

LEMMA OneLocks ==
  ASSUME LockInv
  PROVE  \A p, q \in Processes : locked[p] # 0 /\ locked[q] # 0 => p = q
BY InstallingInside DEF LockInv, OneInstaller

(* What a step of one process does to its place and its lock, and what is  *)
(* left of the lock of others.                                             *)
Moves(p, step, inode) ==
  /\ pc' = [pc EXCEPT ![p] = step]
  /\ locked' = [locked EXCEPT ![p] = inode]
  /\ lockFile' \in Nat /\ inodes' \in Nat
  /\ result' \in [Processes -> Results]
  /\ inode # 0 <=> step \in Inside
  /\ \/ inode = 0 /\ lockFile' = lockFile
     \/ inode = lockFile' /\ \A q \in Processes \ {p} : locked[q] = 0

LEMMA MovesKeepLock ==
  ASSUME LockInv, NEW p \in Processes, NEW inode \in Nat,
         NEW step \in Inside \cup {"start", "lock", "returned", "dead"}, Moves(p, step, inode)
  PROVE  LockInv'
<1> USE DEF LockInv, Moves
<1>1. locked' \in [Processes -> Nat]
  OBVIOUS
<1>2. pc' \in [Processes -> Inside \cup {"start", "lock", "returned", "dead"}]
  OBVIOUS
<1>3. ASSUME NEW q \in Processes
      PROVE  /\ locked'[q] # 0 <=> pc'[q] \in Inside
             /\ locked'[q] \in {0, lockFile'}
  <2>1. CASE q = p
    BY <2>1
  <2>2. CASE q # p
    BY <2>2
  <2> QED BY <2>1, <2>2
<1>4. ASSUME NEW q \in Processes, NEW r \in Processes, locked'[q] # 0, locked'[r] # 0
      PROVE  q = r
  <2>1. CASE inode = 0
    BY <1>4, <2>1, OneLocks
  <2>2. CASE inode # 0
    BY <1>4, <2>2
  <2> QED BY <2>1, <2>2
<1>5. \A q \in Processes : Installing(q)' <=> pc'[q] \in Inside
  BY <1>2 DEF Installing, Active, Inside, Downloading
<1>6. OneInstaller'
  BY <1>3, <1>4, <1>5 DEF OneInstaller
<1> QED BY <1>1, <1>2, <1>3, <1>6

LEMMA LockInvNext == LockInv /\ [Next]_vars => LockInv'
<1> SUFFICES ASSUME LockInv, [Next]_vars PROVE LockInv'
  OBVIOUS
<1> DEFINE Places == Inside \cup {"start", "lock", "returned", "dead"}
<1>1. CASE UNCHANGED vars
  BY <1>1 DEF LockInv, vars, lockVars, OneInstaller, Installing, Active
<1>2. ASSUME NEW p \in Processes, Common(p) \/ InstallStep(p) \/ WheelStep(p)
      PROVE  \E step \in Places, inode \in Nat : Moves(p, step, inode)
  <2>1. /\ {"start", "lock", "returned", "dead"} \cap Inside = {}
        /\ "fetch" \in Inside
    BY DEF Inside, Downloading
  <2>2. /\ lockFile \in Nat /\ inodes \in Nat
        /\ locked \in [Processes -> Nat] /\ pc \in [Processes -> Places]
        /\ result \in [Processes -> Results]
        /\ locked[p] # 0 <=> pc[p] \in Inside
        /\ \A q \in Processes : locked[q] \in {0, lockFile}
    BY DEF LockInv
  <2>3. locked = [locked EXCEPT ![p] = locked[p]]
    BY <2>2
  <2> USE <2>1, <2>2, <2>3 DEF Return, Goto, lockVars, Results
  <2>4. CASE CheckInstalled(p, plugin # "absent")
    <3>1. PICK step \in {"returned", "lock"} : pc' = [pc EXCEPT ![p] = step]
      BY <2>4 DEF CheckInstalled
    <3>2. UNCHANGED <<lockFile, inodes, locked>> /\ locked[p] = 0
      BY <2>4 DEF CheckInstalled
    <3>3. result' \in [Processes -> Results]
      BY <2>4 DEF CheckInstalled
    <3>4. Moves(p, step, locked[p])
      BY <3>1, <3>2, <3>3 DEF Moves
    <3> QED BY <3>1, <3>4
  <2>5. CASE TryLock(p, "fetch")
    <3> DEFINE inode == IF lockFile = 0 THEN inodes + 1 ELSE lockFile
    <3>1. inode \in Nat \ {0} /\ \A q \in Processes : locked[q] = 0
      BY <2>5 DEF TryLock
    <3>2. lockFile' = inode /\ inodes' \in Nat /\ locked' = [locked EXCEPT ![p] = inode]
      BY <2>5, <3>1 DEF TryLock
    <3>3. pc' = [pc EXCEPT ![p] = "fetch"] /\ result' = result
      BY <2>5 DEF TryLock
    <3>4. Moves(p, "fetch", inode)
      BY <3>1, <3>2, <3>3 DEF Moves
    <3> QED BY <3>1, <3>4
  <2>6. CASE TryLockFails(p) \/ LockTimeout(p)
    <3>1. pc' = [pc EXCEPT ![p] = "returned"] /\ result' \in [Processes -> Results]
      BY <2>6 DEF TryLockFails, LockTimeout
    <3>2. UNCHANGED <<lockFile, inodes, locked>> /\ locked[p] = 0
      BY <2>6 DEF TryLockFails, LockTimeout
    <3>3. Moves(p, "returned", locked[p])
      BY <3>1, <3>2 DEF Moves
    <3> QED BY <3>3
  <2>7. CASE pc[p] \in Inside /\ \E r \in {"ok", "error"} : Unlock(p, r)
    <3>1. pc' = [pc EXCEPT ![p] = "returned"] /\ result' \in [Processes -> Results]
      BY <2>7 DEF Unlock
    <3>2. UNCHANGED <<lockFile, inodes>> /\ locked' = [locked EXCEPT ![p] = 0]
      BY <2>7 DEF Unlock
    <3>3. Moves(p, "returned", 0)
      BY <3>1, <3>2 DEF Moves
    <3> QED BY <3>3
  <2>8. CASE Die(p)
    <3>1. pc' = [pc EXCEPT ![p] = "dead"] /\ result' = result
      BY <2>8 DEF Die
    <3>2. UNCHANGED <<lockFile, inodes>> /\ locked' = [locked EXCEPT ![p] = 0]
      BY <2>8 DEF Die
    <3>3. Moves(p, "dead", 0)
      BY <3>1, <3>2 DEF Moves
    <3> QED BY <3>3
  <2>9. CASE pc[p] = "start" /\ Return(p, "skipped") /\ UNCHANGED lockVars
    <3>1. pc' = [pc EXCEPT ![p] = "returned"] /\ result' \in [Processes -> Results]
      BY <2>9
    <3>2. UNCHANGED <<lockFile, inodes, locked>> /\ locked[p] = 0
      BY <2>9
    <3>3. Moves(p, "returned", locked[p])
      BY <3>1, <3>2 DEF Moves
    <3> QED BY <3>3
  <2>10. CASE InnerStep(p)
    <3>1. PICK step \in Inside : pc' = [pc EXCEPT ![p] = step] /\ result' = result
      BY <2>10 DEF InnerStep
    <3>2. UNCHANGED <<lockFile, inodes, locked>> /\ locked[p] = lockFile /\ locked[p] # 0
      BY <2>10 DEF InnerStep
    <3>3. \A q \in Processes \ {p} : locked[q] = 0
      BY <3>2, OneLocks
    <3>4. Moves(p, step, locked[p])
      BY <3>1, <3>2, <3>3 DEF Moves
    <3> QED BY <3>1, <3>2, <3>4
  <2> QED BY <1>2, StepsOfTheLock, <2>4, <2>5, <2>6, <2>7, <2>8, <2>9, <2>10
<1> QED BY <1>1, <1>2, MovesKeepLock DEF Next

(* Between taking the lock and releasing it, no other process installs     *)
(* (checkInstallOrFileLock and Unlock of flock.go), whichever processes die *)
(* or fail, for any number of them.                                        *)
THEOREM LockExcludes == Spec => []OneInstaller
<1>1. LockInv => OneInstaller
  BY DEF LockInv
<1> QED BY LockInvInit, LockInvNext, <1>1, PTL DEF Spec

-----------------------------------------------------------------------------
(* The cache.  Whoever downloads is alone, so that what it has created is  *)
(* still what <file>.tmp names when it renames it, and still as verified.  *)
Contents == {"absent", "partial"} \cup Received
Kept == IF Hashed THEN {"whole"} ELSE Received
Writing == {"download", "uncache", "store"}

CacheInv ==
  /\ archive \in [Processes -> Contents]
  /\ file \in [Processes -> Processes \cup {NoFile}]
  /\ cacheFile \in Processes \cup {NoFile} /\ tmpFile \in Processes \cup {NoFile}
  /\ \A p \in Processes :
       /\ pc[p] \in {"start", "lock", "fetch"} => p # cacheFile /\ p # tmpFile
       /\ pc[p] \in Writing => /\ cacheFile = NoFile
                              /\ tmpFile = file[p] /\ tmpFile \in Processes
       /\ pc[p] = "uncache" => archive[file[p]] \in Received
       /\ pc[p] = "store" => archive[file[p]] \in Kept
  /\ CacheComplete

LEMMA Alone ==
  ASSUME LockInv, NEW p \in Processes, pc[p] \in Inside
  PROVE  \A q \in Processes \ {p} : pc[q] \notin Inside
BY InstallingInside DEF LockInv, OneInstaller

LEMMA CacheInvInit == Init => CacheInv
BY NoFileAssumption DEF Init, InstallInit, LockInit, CacheInit, CacheInv, Contents, Received,
   Writing, CacheComplete

(* Steps that leave the cache alone. *)
LEMMA CacheUntouched ==
  ASSUME LockInv, CacheInv, NEW p \in Processes, NEW step,
         UNCHANGED <<cacheVars, kind>>, pc' = [pc EXCEPT ![p] = step],
         step \notin Writing,
         step \in {"start", "lock", "fetch"} => pc[p] \in {"start", "lock", "fetch"}
  PROVE  CacheInv'
<1>1. \A q \in Processes : pc'[q] = IF q = p THEN step ELSE pc[q]
  BY DEF LockInv
<1>2. UNCHANGED <<cacheFile, tmpFile, archive, file, kind>>
  BY DEF cacheVars
<1> QED BY <1>1, <1>2 DEF CacheInv, Writing, Kept, Hashed, CacheComplete

LEMMA FetchKeepsCache ==
  ASSUME LockInv, CacheInv, NEW p \in Processes, NEW next \in {"mkdir", "unzip"},
         Fetch(p, Hashed, next), UNCHANGED kind
  PROVE  CacheInv'
<1> USE NoFileAssumption DEF CacheInv, Writing, Contents, Received, Kept, Hashed, CacheComplete
<1>1. pc[p] \in Inside /\ pc[p] \in {"fetch"} \cup Writing
  BY DEF Fetch, UseCached, DownloadPrivate, CreateTmp, Download, Uncache, Store, Inside, Downloading
<1>2. \A q \in Processes \ {p} : pc[q] \notin Inside
  BY <1>1, Alone
<1>3. \A q \in Processes \ {p} : pc[q] \notin {"fetch"} \cup Writing
  BY <1>2 DEF Inside, Downloading
<1>4. pc \in [Processes -> Inside \cup {"start", "lock", "returned", "dead"}]
  BY DEF LockInv
<1> USE <1>3, <1>4
<1>5. CASE UseCached(p, Hashed, next)
  BY <1>5 DEF UseCached, Goto
<1>6. CASE DownloadPrivate(p, Hashed, next)
  BY <1>6 DEF DownloadPrivate, Goto
<1>7. CASE CreateTmp(p)
  BY <1>7 DEF CreateTmp, Goto
<1>8. CASE Download(p)
  BY <1>8 DEF Download, Goto
<1>9. CASE Uncache(p, Hashed)
  BY <1>9 DEF Uncache, Verified, Goto
<1>10. CASE Store(p, next)
  BY <1>10 DEF Store, Goto
<1> QED BY <1>5, <1>6, <1>7, <1>8, <1>9, <1>10 DEF Fetch

LEMMA CacheInvNext == LockInv /\ CacheInv /\ [Next]_vars => CacheInv'
<1> SUFFICES ASSUME LockInv, CacheInv, [Next]_vars PROVE CacheInv'
  OBVIOUS
<1>1. CASE UNCHANGED vars
  BY <1>1 DEF vars, cacheVars, CacheInv, Writing, Kept, Hashed, CacheComplete
<1>2. ASSUME NEW p \in Processes, Common(p), UNCHANGED kind
      PROVE  CacheInv'
  <2>1. UNCHANGED cacheVars
    BY <1>2 DEF Common, Check, Lock, GiveUp, Finish, Crash
  <2>2. PICK step \in {"returned", "lock", "fetch", "dead"} :
          /\ pc' = [pc EXCEPT ![p] = step]
          /\ step \in {"lock", "fetch"} => pc[p] \in {"start", "lock"}
    BY <1>2 DEF Common, Check, Lock, GiveUp, Finish, Crash, CheckInstalled, TryLock,
       TryLockFails, LockTimeout, Unlock, Die, Return, Goto
  <2> QED BY <1>2, <2>1, <2>2, CacheUntouched DEF Writing
<1>3. ASSUME NEW p \in Processes, kind = "cpu", InstallStep(p), UNCHANGED kind
      PROVE  CacheInv'
  <2>1. CASE FetchArchive(p)
    BY <1>3, <2>1, FetchKeepsCache DEF FetchArchive, Hashed
  <2>2. CASE StartExtract(p) \/ Extract(p) \/ RemoveOld(p)
    <3>1. PICK step \in {"extract", "replace", "rename"} : pc' = [pc EXCEPT ![p] = step]
      BY <2>2 DEF StartExtract, Extract, RemoveOld, Goto
    <3>2. UNCHANGED cacheVars
      BY <2>2 DEF StartExtract, Extract, RemoveOld
    <3> QED BY <1>3, <3>1, <3>2, CacheUntouched DEF Writing
  <2>3. CASE Rename(p) \/ RemoveLink(p) \/ Link(p)
    <3>1. PICK step \in {"unlink", "link", "unlock"} : pc' = [pc EXCEPT ![p] = step]
      BY <2>3 DEF Rename, RemoveLink, Link, Goto
    <3>2. UNCHANGED cacheVars
      BY <2>3 DEF Rename, RemoveLink, Link
    <3> QED BY <1>3, <3>1, <3>2, CacheUntouched DEF Writing
  <2>4. CASE Fail(p)
    <3>1. pc' = [pc EXCEPT ![p] = "returned"] /\ UNCHANGED cacheVars
      BY <2>4 DEF Fail, Unlock, Return
    <3> QED BY <1>3, <3>1, CacheUntouched DEF Writing
  <2> QED BY <1>3, <2>1, <2>2, <2>3, <2>4 DEF InstallStep
<1>4. ASSUME NEW p \in Processes, WheelStep(p), UNCHANGED kind
      PROVE  CacheInv'
  <2>1. CASE FetchWheel(p)
    BY <1>4, <2>1, FetchKeepsCache DEF FetchWheel
  <2>2. CASE StartUnzip(p) \/ Unzip(p) \/ Move(p)
    <3>1. PICK step \in {"unzipping", "move", "unlock"} : pc' = [pc EXCEPT ![p] = step]
      BY <2>2 DEF StartUnzip, Unzip, Move, Goto
    <3>2. UNCHANGED cacheVars
      BY <2>2 DEF StartUnzip, Unzip, Move
    <3> QED BY <1>4, <3>1, <3>2, CacheUntouched DEF Writing
  <2>3. CASE Skip(p) \/ FailWheel(p)
    <3>1. pc' = [pc EXCEPT ![p] = "returned"] /\ UNCHANGED cacheVars
      BY <2>3 DEF Skip, FailWheel, Unlock, Return
    <3> QED BY <1>4, <3>1, CacheUntouched DEF Writing
  <2> QED BY <1>4, <2>1, <2>2, <2>3 DEF WheelStep
<1> QED BY <1>1, <1>2, <1>3, <1>4 DEF Next

(* DownloadURLToTemp: for any number of processes that download, fail and  *)
(* die, a file that has its name in the cache was received to its end, and *)
(* has the hash where the installer knows one.                             *)
THEOREM CacheStaysComplete == Spec => []CacheComplete
<1>1. LockInv /\ CacheInv /\ [Next]_vars => (LockInv /\ CacheInv)'
  BY LockInvNext, CacheInvNext
<1>2. CacheInv => CacheComplete
  BY DEF CacheInv
<1> QED BY LockInvInit, CacheInvInit, <1>1, <1>2, PTL DEF Spec

-----------------------------------------------------------------------------
(* The plugin: what is moved into place is whole at that moment, and stays *)
(* so until the process that has moved it returns.                         *)
PluginInv ==
  /\ plugin \in {"absent", "whole"}
  /\ temp \in [Processes -> {"absent", "partial", "whole"}]
  /\ \A p \in Processes :
       /\ pc[p] \in {"replace", "rename"} => temp[p] = "whole"
       /\ pc[p] = "move" => pluginTmp = "whole"
       /\ pc[p] \in {"unlink", "link", "unlock"} => plugin = "whole"

LEMMA PluginInvInit == Init => PluginInv
BY DEF Init, InstallInit, LockInit, PluginInv

LEMMA PluginInvNext == LockInv /\ PluginInv /\ [Next]_vars => PluginInv'
<1> SUFFICES ASSUME LockInv, PluginInv, [Next]_vars PROVE PluginInv'
  OBVIOUS
<1> USE DEF PluginInv, files
<1>1. CASE UNCHANGED vars
  BY <1>1 DEF vars
<1>2. pc \in [Processes -> Inside \cup {"start", "lock", "returned", "dead"}]
  BY DEF LockInv
<1>3. ASSUME NEW p \in Processes, NEW step,
             UNCHANGED <<plugin, pluginTmp>>, temp' \in [Processes -> {"absent", "partial", "whole"}],
             \A q \in Processes \ {p} : temp'[q] = temp[q],
             pc' = [pc EXCEPT ![p] = step],
             step \notin {"replace", "rename", "move", "unlink", "link", "unlock"}
      PROVE  PluginInv'
  BY <1>2, <1>3
<1>4. ASSUME NEW p \in Processes, NEW next \in {"mkdir", "unzip"}, NEW hashed,
             Fetch(p, hashed, next)
      PROVE  \E step \in Downloading \cup {"mkdir", "unzip"} : pc' = [pc EXCEPT ![p] = step]
  BY <1>4 DEF Fetch, UseCached, DownloadPrivate, CreateTmp, Download, Uncache, Store, Goto,
     Downloading
<1>5. ASSUME NEW p \in Processes, Common(p), UNCHANGED pluginTmp
      PROVE  PluginInv'
  <2>1. UNCHANGED files
    BY <1>5 DEF Common, Check, Lock, GiveUp, Finish, Crash
  <2>2. PICK step \in {"returned", "lock", "fetch", "dead"} : pc' = [pc EXCEPT ![p] = step]
    BY <1>5 DEF Common, Check, Lock, GiveUp, Finish, Crash, CheckInstalled, TryLock,
       TryLockFails, LockTimeout, Unlock, Die, Return, Goto
  <2> QED BY <1>3, <1>5, <2>1, <2>2
<1>6. ASSUME NEW p \in Processes, InstallStep(p), UNCHANGED pluginTmp
      PROVE  PluginInv'
  <2>1. CASE FetchArchive(p)
    <3>1. PICK step \in Downloading \cup {"mkdir", "unzip"} : pc' = [pc EXCEPT ![p] = step]
      BY <1>4, <2>1 DEF FetchArchive
    <3> QED BY <1>3, <1>6, <2>1, <3>1 DEF FetchArchive, Downloading
  <2>2. CASE StartExtract(p)
    BY <1>3, <1>6, <2>2 DEF StartExtract, Goto
  <2>3. CASE Fail(p)
    BY <1>3, <1>6, <2>3 DEF Fail, Unlock, Return
  <2>4. CASE Extract(p)
    BY <1>2, <1>6, <2>4 DEF Extract, Goto
  <2>5. CASE RemoveOld(p) \/ Rename(p) \/ RemoveLink(p) \/ Link(p)
    <3>1. pc[p] \in Inside
      BY <2>5 DEF RemoveOld, Rename, RemoveLink, Link, Inside
    <3>2. \A q \in Processes \ {p} : pc[q] \notin {"replace", "rename", "move", "unlink", "link", "unlock"}
      BY <3>1, Alone DEF Inside
    <3>3. CASE RemoveOld(p)
      BY <1>2, <1>6, <3>2, <3>3 DEF RemoveOld, Goto
    <3>4. CASE Rename(p)
      BY <1>2, <1>6, <3>2, <3>4 DEF Rename, Goto
    <3>5. CASE RemoveLink(p) \/ Link(p)
      BY <1>2, <1>6, <3>2, <3>5 DEF RemoveLink, Link, Goto
    <3> QED BY <2>5, <3>3, <3>4, <3>5
  <2> QED BY <1>6, <2>1, <2>2, <2>3, <2>4, <2>5 DEF InstallStep
<1>7. ASSUME NEW p \in Processes, WheelStep(p)
      PROVE  PluginInv'
  <2>1. CASE FetchWheel(p)
    <3>1. PICK step \in Downloading \cup {"mkdir", "unzip"} : pc' = [pc EXCEPT ![p] = step]
      BY <1>4, <2>1 DEF FetchWheel
    <3> QED BY <1>3, <2>1, <3>1 DEF FetchWheel, Downloading
  <2>2. CASE Skip(p)
    BY <1>3, <2>2 DEF Skip, Return
  <2>3. CASE StartUnzip(p) \/ Unzip(p) \/ Move(p) \/ FailWheel(p)
    <3>1. pc[p] \in Inside
      BY <2>3 DEF StartUnzip, Unzip, Move, FailWheel, Inside
    <3>2. \A q \in Processes \ {p} : pc[q] \notin {"replace", "rename", "move", "unlink", "link", "unlock"}
      BY <3>1, Alone DEF Inside
    <3>3. CASE StartUnzip(p) \/ Unzip(p)
      BY <1>2, <3>2, <3>3 DEF StartUnzip, Unzip, Goto
    <3>4. CASE Move(p)
      BY <1>2, <3>2, <3>4 DEF Move, Goto
    <3>5. CASE FailWheel(p)
      BY <1>2, <3>2, <3>5 DEF FailWheel, Unlock, Return
    <3> QED BY <2>3, <3>3, <3>4, <3>5
  <2> QED BY <1>7, <2>1, <2>2, <2>3 DEF WheelStep
<1> QED BY <1>1, <1>5, <1>6, <1>7 DEF Next

(* "the plugin .so is never visible in a partially-written state"          *)
(* (cpu.go:197), for any number of processes and wherever they die.        *)
THEOREM PluginNeverPartial == Spec => []NeverPartial
<1>1. LockInv /\ PluginInv /\ [Next]_vars => (LockInv /\ PluginInv)'
  BY LockInvNext, PluginInvNext
<1>2. PluginInv => NeverPartial
  BY DEF PluginInv, NeverPartial
<1> QED BY LockInvInit, PluginInvInit, <1>1, <1>2, PTL DEF Spec

(* A step may make one process return: with "ok" from its last place only, *)
(* and with "timeout" only while it waits for the lock.                    *)
LEMMA Outcomes ==
  ASSUME NEW p \in Processes, Common(p) \/ InstallStep(p) \/ WheelStep(p)
  PROVE  \/ UNCHANGED result
         \/ plugin # "absent" /\ Return(p, "installed")
         \/ pc[p] = "unlock" /\ Return(p, "ok")
         \/ LockTimeout(p) /\ Return(p, "timeout")
         \/ Return(p, "error") \/ Return(p, "skipped")
<1>1. CASE Common(p)
  BY <1>1 DEF Common, Check, Lock, GiveUp, Finish, Crash, CheckInstalled, TryLock,
     TryLockFails, LockTimeout, Unlock, Die, Goto
<1>2. CASE InstallStep(p)
  <2>1. CASE FetchArchive(p)
    BY <2>1 DEF FetchArchive, Fetch, UseCached, DownloadPrivate, CreateTmp, Download, Uncache,
       Store, Goto
  <2>2. CASE ~FetchArchive(p)
    BY <1>2, <2>2 DEF InstallStep, StartExtract, Extract, RemoveOld, Rename, RemoveLink, Link,
       Fail, Unlock, Goto
  <2> QED BY <2>1, <2>2
<1>3. CASE WheelStep(p)
  <2>1. CASE FetchWheel(p)
    BY <2>1 DEF FetchWheel, Fetch, UseCached, DownloadPrivate, CreateTmp, Download, Uncache,
       Store, Goto
  <2>2. CASE ~FetchWheel(p)
    BY <1>3, <2>2 DEF WheelStep, Skip, StartUnzip, Unzip, Move, FailWheel, Unlock, Goto
  <2> QED BY <2>1, <2>2
<1> QED BY <1>1, <1>2, <1>3

(* AutoInstall returns nil to a process only when the plugin is there,     *)
(* whatever the others do, for any number of processes.                    *)
THEOREM SuccessMeansInstalled == Spec => OkMeansInstalled
<1>1. ASSUME LockInv, PluginInv, [Next]_vars
      PROVE  [\A p \in Processes :
                result'[p] \in {"ok", "installed"} /\ result[p] = "none" => plugin = "whole"]_vars
  <2>1. SUFFICES ASSUME NEW p \in Processes, ~UNCHANGED vars,
                        result'[p] \in {"ok", "installed"}, result[p] = "none"
                 PROVE  plugin = "whole"
    OBVIOUS
  <2>2. PICK q \in Processes : Common(q) \/ InstallStep(q) \/ WheelStep(q)
    BY <1>1, <2>1 DEF Next
  <2>3. result \in [Processes -> Results] /\ (pc[q] = "unlock" => plugin = "whole")
        /\ plugin \in {"absent", "whole"}
    BY <1>1 DEF LockInv, PluginInv
  <2>4. CASE plugin # "absent" /\ Return(q, "installed")
    BY <2>3, <2>4
  <2>5. CASE pc[q] = "unlock" /\ Return(q, "ok")
    BY <2>3, <2>5
  <2>6. CASE \/ UNCHANGED result \/ Return(q, "timeout")
             \/ Return(q, "error") \/ Return(q, "skipped")
    BY <2>1, <2>3, <2>6 DEF Return
  <2> QED BY <2>2, <2>4, <2>5, <2>6, Outcomes
<1>2. LockInv /\ PluginInv /\ [Next]_vars => (LockInv /\ PluginInv)'
  BY LockInvNext, PluginInvNext
<1> QED BY LockInvInit, PluginInvInit, <1>1, <1>2, PTL DEF Spec, OkMeansInstalled

(* A lock whose owner has died or returned makes nobody wait: a timeout    *)
(* means that another process is installing (flock.go:66-74).              *)
THEOREM NoStaleLock == Spec => TimeoutMeansBusy
<1>1. ASSUME LockInv, [Next]_vars
      PROVE  [\A p \in Processes :
                result[p] = "none" /\ result'[p] = "timeout" =>
                  \E q \in Processes \ {p} : Installing(q)]_vars
  <2>1. SUFFICES ASSUME NEW p \in Processes, ~UNCHANGED vars,
                        result[p] = "none", result'[p] = "timeout"
                 PROVE  \E q \in Processes \ {p} : Installing(q)
    OBVIOUS
  <2>2. PICK r \in Processes : Common(r) \/ InstallStep(r) \/ WheelStep(r)
    BY <1>1, <2>1 DEF Next
  <2>3. result \in [Processes -> Results]
    BY <1>1 DEF LockInv
  <2>4. r = p /\ LockTimeout(p)
    BY <2>1, <2>2, <2>3, Outcomes DEF Return
  <2>5. PICK q \in Processes : locked[q] = lockFile /\ lockFile # 0
    BY <2>4 DEF LockTimeout
  <2>6. pc[q] \in Inside /\ pc[p] \notin Inside
    BY <1>1, <2>4, <2>5 DEF LockInv, LockTimeout, Inside, Downloading
  <2>7. Installing(q) /\ q # p
    BY <1>1, <2>6, InstallingInside
  <2> QED BY <2>7
<1> QED BY LockInvInit, LockInvNext, <1>1, PTL DEF Spec, TimeoutMeansBusy

---------------------------------------------------------------------------
(* Loading a plugin while others install. *)

(* What New has seen is still there, and has a plugin of the name asked    *)
(* for, as long as nothing disturbs the directory.                         *)
Seen ==
  /\ plugin = "whole"
  /\ unchecked \cup found \subseteq Listed
  /\ at = "check" => Choice(unchecked \cup found) # {}
  /\ at \in {"find", "recheck", "load"} => chosen \in Listed
  /\ at = "recheck" => chosen \in unchecked \cup found
  /\ at \notin {"notfound", "failed", "panicked"}

LoadInv ==
  /\ asked = "base" \/ (asked = "versioned" /\ kind = "cpu")
  /\ at \in {"install", "list"} => unchecked = {} /\ found = {}
  /\ undisturbed => Seen

LEMMA LoadInvInit == LoadInit => LoadInv
BY DEF LoadInit, LoadInv, Init

LEMMA StepsInstall == LoadNext => [Next]_vars
BY DEF LoadNext, New, Install

LEMMA LoadSpecInstalls == LoadSpec => Spec
<1>1. LoadInit => Init
  BY DEF LoadInit
<1>2. [LoadNext]_<<vars, newVars, undisturbed>> => [Next]_vars
  BY StepsInstall
<1> QED BY <1>1, <1>2, PTL DEF LoadSpec, Spec

(* The directory has a library of every name that New may be asked for. *)
LEMMA ListedHasChoice ==
  ASSUME asked = "base" \/ (asked = "versioned" /\ kind = "cpu"), plugin = "whole"
  PROVE  Choice(Listed) # {}
<1>1. CASE kind = "cpu"
  <2>1. "versioned" \in Listed
    BY <1>1 DEF Listed
  <2> QED BY <2>1 DEF Choice
<1>2. CASE kind # "cpu"
  <2>1. "base" \in Listed
    BY <1>2 DEF Listed
  <2> QED BY <1>2, <2>1 DEF Choice
<1> QED BY <1>1, <1>2

LEMMA NewKeepsSeen ==
  ASSUME LoadInv, New
  PROVE  LoadInv'
<1>0. /\ Listed' = Listed /\ plugin' = plugin /\ kind' = kind /\ undisturbed' = undisturbed
      /\ asked' = asked
      /\ \A names : Choice(names)' = Choice(names)
  BY DEF New, AutoInstalled, List, CheckPlugin, Choose, Find, Found, LoadPlugin, vars, files,
     Listed, Choice
<1>1. SUFFICES /\ at' \in {"install", "list"} => unchecked' = {} /\ found' = {}
               /\ undisturbed /\ Seen => Seen'
  BY <1>0 DEF LoadInv
<1>2. CASE AutoInstalled
  BY <1>0, <1>2 DEF AutoInstalled, LoadInv, Seen
<1>3. CASE List
  <2>1. plugin = "whole" => Choice(Listed) # {}
    BY ListedHasChoice DEF LoadInv
  <2>2. unchecked' \cup found' = Listed /\ at' = "check"
    BY <1>3 DEF List
  <2> QED BY <1>0, <2>1, <2>2 DEF Seen
<1>4. CASE CheckPlugin
  <2>1. PICK name \in unchecked :
          /\ unchecked' = unchecked \ {name}
          /\ IF Opens(name)
             THEN found' = found \cup {name} /\ UNCHANGED at
             ELSE at' = "panicked" /\ UNCHANGED found
    BY <1>4 DEF CheckPlugin
  <2>2. at \in {"check", "recheck"} /\ chosen' = chosen
    BY <1>4 DEF CheckPlugin
  <2>3. Seen => Opens(name)
    BY DEF Seen, Opens
  <2>4. Seen => at' = at /\ unchecked' \cup found' = unchecked \cup found
    BY <2>1, <2>3
  <2>5. at' \notin {"install", "list"}
    BY <2>1, <2>2
  <2>6. ASSUME Seen PROVE Seen'
    <3>1. Choice(unchecked \cup found)' = Choice(unchecked \cup found)
      BY <1>0, <2>4, <2>6 DEF Choice
    <3> QED BY <1>0, <2>2, <2>4, <2>6, <3>1 DEF Seen
  <2> QED BY <2>5, <2>6
<1>5. CASE Choose
  <2>1. Choice(found) \subseteq found
    BY DEF Choice
  <2>2. unchecked \cup found = found /\ UNCHANGED <<unchecked, found>> /\ at = "check"
    BY <1>5 DEF Choose
  <2>3. CASE \E name \in Choice(found) : chosen' = name /\ at' = "find"
    BY <1>0, <2>1, <2>2, <2>3 DEF Seen
  <2>4. CASE Choice(found) = {} /\ at' = "notfound"
    BY <2>2, <2>4 DEF Seen
  <2> QED BY <1>5, <2>3, <2>4 DEF Choose
<1>6. CASE Find
  BY <1>0, <1>6 DEF Find, Seen
<1>7. CASE Found
  BY <1>0, <1>7 DEF Found, Seen
<1>8. CASE LoadPlugin
  BY <1>0, <1>8 DEF LoadPlugin, Seen, Opens
<1> QED BY <1>2, <1>3, <1>4, <1>5, <1>6, <1>7, <1>8 DEF New

(* A call of the program ends before New has seen anything. *)
LEMMA InstallKeepsSeen ==
  ASSUME LoadInv, PluginInv', Install
  PROVE  LoadInv'
<1>1. UNCHANGED newVars /\ kind' = kind
  BY DEF Install, Next
<1>2. SUFFICES ASSUME undisturbed' PROVE Seen'
  BY <1>1 DEF LoadInv, newVars
<1>3. plugin' = "whole" /\ Listed \subseteq Listed'
  BY <1>2 DEF Install, PluginInv
<1>4. \A names : Choice(names)' = Choice(names)
  BY <1>1 DEF newVars, Choice
<1>5. CASE undisturbed
  BY <1>1, <1>3, <1>4, <1>5 DEF LoadInv, Seen, newVars
<1>6. CASE ~undisturbed
  <2>1. Succeeds(InstallCall) \/ Succeeds(ListCall)
    BY <1>2, <1>6 DEF Install
  <2>2. at \in {"install", "list"}
    BY <2>1 DEF Install, Waits, Succeeds
  <2> QED BY <1>1, <1>3, <2>2 DEF LoadInv, Seen, newVars
<1> QED BY <1>5, <1>6

(* New finds what AutoInstall has reported installed unless something is   *)
(* taken away meanwhile, whatever the other processes do or leave undone.  *)
THEOREM InstalledIsFound == LoadSpec => []NewFindsPlugin
<1>1. LockInv /\ PluginInv /\ [Next]_vars => (LockInv /\ PluginInv)'
  BY LockInvNext, PluginInvNext
<1>2. ASSUME LockInv, PluginInv, LoadInv, [LoadNext]_<<vars, newVars, undisturbed>>
      PROVE  (LockInv /\ PluginInv /\ LoadInv)'
  <2>1. [Next]_vars
    BY <1>2, StepsInstall
  <2>2. (LockInv /\ PluginInv)'
    BY <1>1, <1>2, <2>1
  <2>3. CASE New
    BY <1>2, <2>2, <2>3, NewKeepsSeen
  <2>4. CASE Install
    BY <1>2, <2>2, <2>4, InstallKeepsSeen
  <2>5. CASE UNCHANGED <<vars, newVars, undisturbed>>
    BY <1>2, <2>2, <2>5 DEF LoadInv, Seen, Listed, Choice, vars, files, newVars
  <2> QED BY <1>2, <2>2, <2>3, <2>4, <2>5 DEF LoadNext
<1>3. LoadInit => LockInv /\ PluginInv /\ LoadInv
  BY LoadInvInit, LockInvInit, PluginInvInit DEF LoadInit
<1>4. LoadInv => NewFindsPlugin
  BY DEF LoadInv, Seen, NewFindsPlugin
<1> QED BY <1>2, <1>3, <1>4, PTL DEF LoadSpec

(* What is proved of the installations holds while programs load plugins:  *)
(* a library that is opened is never one half-written.                     *)
THEOREM LoadingNeverPartial == LoadSpec => []NeverPartial
BY LoadSpecInstalls, PluginNeverPartial, PTL

(* And AutoInstall still tells New the truth. *)
THEOREM LoadingMeansInstalled == LoadSpec => OkMeansInstalled
BY LoadSpecInstalls, SuccessMeansInstalled, PTL
=============================================================================

---------------------------- MODULE DownloadCache ----------------------------
(***************************************************************************)
(* DownloadURLToTemp and GetCachePath: an archive is downloaded under the  *)
(* name <file>.tmp, which all processes share, and renamed to <file> in    *)
(* the cache of the user; or, without the cache, to a file of its own.     *)
(* The place of a process is the pc of the installer that downloads.  A    *)
(* file is named after the process that created it, so that its contents   *)
(* stay with it when it is renamed.                                        *)
(***************************************************************************)
EXTENDS FileLock

CONSTANT NoFile
ASSUME NoFileAssumption == NoFile \notin Processes

VARIABLES
  cacheFile, \* the file that <file> names, or NoFile
  tmpFile,   \* the file that <file>.tmp names, or NoFile
  archive,   \* the contents of each file: "absent", "partial", "page", "whole"
  file       \* the file each process downloads to or installs from

cacheVars == <<cacheFile, tmpFile, archive, file>>

CacheInit ==
  /\ cacheFile = NoFile /\ tmpFile = NoFile
  /\ archive = [p \in Processes |-> "absent"]
  /\ file = [p \in Processes |-> NoFile]

(* The status of the answer is not looked at: what is read to its end may  *)
(* be the archive, or the page a server sends instead of it.               *)
Received == {"whole", "page"}

(* The sha256 of the file, where there is one to compare with. *)
Verified(f, hashed) == hashed => archive[f] = "whole"

(* GetCachePath finds the file: it is not downloaded again. *)
UseCached(p, hashed, next) ==
  /\ pc[p] = "fetch" /\ cacheFile # NoFile
  /\ Verified(cacheFile, hashed)
  /\ file' = [file EXCEPT ![p] = cacheFile]
  /\ Goto(p, next)
  /\ UNCHANGED <<cacheFile, tmpFile, archive>>

(* Without the cache: a file in the directory for temporary files. *)
DownloadPrivate(p, hashed, next) ==
  /\ pc[p] = "fetch"
  /\ \E received \in Received :
       /\ hashed => received = "whole"
       /\ archive' = [archive EXCEPT ![p] = received]
  /\ file' = [file EXCEPT ![p] = p]
  /\ Goto(p, next)
  /\ UNCHANGED <<cacheFile, tmpFile>>

(* Seeded bug: the download goes to the name it will have in the end. *)
CreateTmp_InPlace(p) ==
  /\ pc[p] = "fetch" /\ cacheFile = NoFile
  /\ cacheFile' = p
  /\ archive' = [archive EXCEPT ![p] = "partial"]
  /\ file' = [file EXCEPT ![p] = p]
  /\ Goto(p, "download")
  /\ UNCHANGED tmpFile

(* os.Create truncates the file that another process left, or still writes. *)
CreateTmp(p) ==
  LET created == IF tmpFile = NoFile THEN p ELSE tmpFile IN
  /\ pc[p] = "fetch" /\ cacheFile = NoFile
  /\ tmpFile' = created
  /\ archive' = [archive EXCEPT ![created] = "partial"]
  /\ file' = [file EXCEPT ![p] = created]
  /\ Goto(p, "download")
  /\ UNCHANGED cacheFile

(* Whoever ends first of two that write one file leaves it incomplete. *)
Download(p) ==
  /\ pc[p] = "download"
  /\ IF \E q \in Processes \ {p} : pc[q] = "download" /\ file[q] = file[p]
     THEN UNCHANGED archive
     ELSE \E received \in Received : archive' = [archive EXCEPT ![file[p]] = received]
  /\ Goto(p, "uncache")
  /\ UNCHANGED <<cacheFile, tmpFile, file>>

(* Only now is the hash compared; then whatever has the name goes. *)
Uncache(p, hashed) ==
  /\ pc[p] = "uncache"
  /\ Verified(file[p], hashed)
  /\ cacheFile' = NoFile
  /\ Goto(p, "store")
  /\ UNCHANGED <<tmpFile, archive, file>>

(* The rename fails if another process has renamed the file. *)
Store(p, next) ==
  /\ pc[p] = "store" /\ tmpFile # NoFile
  /\ cacheFile' = tmpFile
  /\ tmpFile' = NoFile
  /\ Goto(p, next)
  /\ UNCHANGED <<archive, file>>

Downloading == {"fetch", "download", "uncache", "store"}

Fetch(p, hashed, next) ==
  \/ UseCached(p, hashed, next) \/ DownloadPrivate(p, hashed, next)
  \/ CreateTmp(p) \/ Download(p) \/ Uncache(p, hashed) \/ Store(p, next)
=============================================================================

---------------------------- MODULE PluginLoading ----------------------------
(***************************************************************************)
(* compute/xla.New in one program while other processes install the same   *)
(* plugin.  New has it installed, lists the available plugins (which       *)
(* installs once more), chooses one by name, and loads it; both the list   *)
(* and the search by name look at the directory first and open what they   *)
(* have found there afterwards.                                            *)
(***************************************************************************)
EXTENDS WheelInstall

(* Each of Processes makes one call of AutoInstall.  The program makes two, *)
(* one after the other: New's own, and the one of GetAvailablePlugins.     *)
CONSTANTS InstallCall, ListCall
ASSUME CallsAssumption ==
  InstallCall \in Processes /\ ListCall \in Processes /\ InstallCall # ListCall

VARIABLES
  asked,      \* the name New is given: "base", as in "cpu", or "versioned"
  at,         \* how far New has come
  unchecked,  \* libraries that the search has seen and not opened yet
  found,      \* pluginsPaths: those that have been opened and have the API
  chosen,     \* the name that GetPlugin is called with
  undisturbed \* history: a call of the program has returned that the plugin
              \* is installed, and nothing has gone from the directory since

newVars == <<asked, at, unchecked, found, chosen>>

LoadInit ==
  /\ Init
  /\ asked \in IF kind = "cpu" THEN {"base", "versioned"} ELSE {"base"}
  /\ at = IF asked = "base" THEN "install" ELSE "list"
  /\ unchecked = {} /\ found = {} /\ chosen = "none"
  /\ undisturbed = FALSE

(* The names of the libraries in the directory, a dangling link included.  *)
Listed ==
  IF kind = "cpu"
  THEN {name \in {"base", "versioned"} : IF name = "base" THEN link ELSE plugin # "absent"}
  ELSE {name \in {"base"} : plugin # "absent"}

(* dlopen: all names lead to the one plugin. *)
Opens(name) == name \in Listed /\ plugin = "whole"

-----------------------------------------------------------------------------
(* NewWithOptions: an installer that fails is the end of it. *)
AutoInstalled ==
  /\ at = "install" /\ pc[InstallCall] = "returned"
  /\ at' = IF result[InstallCall] \in {"error", "timeout"} THEN "refused" ELSE "list"
  /\ UNCHANGED <<asked, unchecked, found, chosen>>

(* GetAvailablePlugins only logs that.  filepath.Glob reads the directory. *)
List ==
  /\ at = "list" /\ pc[ListCall] = "returned"
  /\ unchecked' = Listed /\ found' = {}
  /\ at' = "check"
  /\ UNCHANGED <<asked, chosen>>

(* searchPlugins opens the candidates in the order of their names.  When   *)
(* loadPlugin fails, checkPlugin goes on with a nil handle.                *)
CheckPlugin ==
  /\ at \in {"check", "recheck"}
  /\ \E name \in unchecked :
       /\ name = "versioned" => "base" \notin unchecked
       /\ unchecked' = unchecked \ {name}
       /\ IF Opens(name)
          THEN found' = found \cup {name} /\ UNCHANGED at
          ELSE at' = "panicked" /\ UNCHANGED found
  /\ UNCHANGED <<asked, chosen>>

(* Seeded bug: only the very name is looked for. *)
Choice_ExactName(names) == names \cap {asked}

(* Without a name, the first of DefaultPlugins; else the name or, in       *)
(* findVersionedPlugin, one that adds a version to it.                     *)
Choice(names) ==
  IF asked = "base" /\ asked \notin names THEN names \cap {"versioned"} ELSE names \cap {asked}

Choose ==
  /\ at = "check" /\ unchecked = {}
  /\ \/ \E name \in Choice(found) : chosen' = name /\ at' = "find"
     \/ Choice(found) = {} /\ at' = "notfound" /\ UNCHANGED chosen
  /\ UNCHANGED <<asked, unchecked, found>>

(* loadNamedPlugin: the plugin is not among loadedPlugins, and is searched *)
(* for again, under its name.                                              *)
Find ==
  /\ at = "find"
  /\ unchecked' = Listed \cap {chosen} /\ found' = {}
  /\ at' = "recheck"
  /\ UNCHANGED <<asked, chosen>>

Found ==
  /\ at = "recheck" /\ unchecked = {}
  /\ at' = IF chosen \in found THEN "load" ELSE "notfound"
  /\ UNCHANGED <<asked, unchecked, found, chosen>>

(* Here the error of loadPlugin is returned. *)
LoadPlugin ==
  /\ at = "load"
  /\ at' = IF Opens(chosen) THEN "loaded" ELSE "failed"
  /\ UNCHANGED <<asked, unchecked, found, chosen>>

New ==
  /\ AutoInstalled \/ List \/ CheckPlugin \/ Choose \/ Find \/ Found \/ LoadPlugin
  /\ UNCHANGED <<vars, undisturbed>>

(* A call of the program is made where New makes it. *)
Waits(call, place) == at # place => UNCHANGED <<pc[call], result[call]>>

Succeeds(call) == result[call] = "none" /\ result'[call] \in {"ok", "installed"}

Install ==
  /\ Next
  /\ Waits(InstallCall, "install") /\ Waits(ListCall, "list")
  /\ undisturbed' =
       /\ undisturbed \/ Succeeds(InstallCall) \/ Succeeds(ListCall)
       /\ plugin' # "absent" /\ Listed \subseteq Listed'
  /\ UNCHANGED newVars

LoadNext == New \/ Install

LoadSpec == LoadInit /\ [][LoadNext]_<<vars, newVars, undisturbed>>

-----------------------------------------------------------------------------
(* New finds the plugin that AutoInstall has reported installed, unless a  *)
(* process takes something away between: processes that died half-way in   *)
(* an installation, before the link or before its renewal, do not keep it  *)
(* from that, nor do those that still install.  What they take away while  *)
(* New is between its steps may end New in any of three ways.              *)
NewFindsPlugin == undisturbed => at \notin {"notfound", "failed", "panicked"}
=============================================================================

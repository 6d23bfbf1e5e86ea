------------------------------ MODULE ConfigFile ------------------------------
(***************************************************************************)
(* The configuration (config/file.go; control/config.go; the start of         *)
(* cmd/start.go): the file ~/.peek/config.json that every instance reads once *)
(* and whose editor any instance's dashboard offers.  A save reads the file,  *)
(* changes a key and writes it all through one temporary file that has the    *)
(* same name in every process; nothing is locked.                             *)
(***************************************************************************)
EXTENDS Naturals, FiniteSets

CONSTANTS
  Savers,         \* the editor's requests under way, of any instances
  Keys, Values,   \* the editable keys, and what they may be set to
  Unset, Bad,     \* a key the file does not have; a value that Set refuses
  Garbage,        \* content that is not JSON
  MaxSaves, MaxConfigCrashes, MaxConfigStarts   \* bounds

ASSUME ConfigFileAssumption ==
  /\ IsFiniteSet(Savers) /\ Unset \notin Values /\ Bad \notin Values \cup {Unset}
  /\ Garbage \notin [Keys -> Values \cup {Unset}]
  /\ MaxSaves \in Nat /\ MaxConfigCrashes \in Nat /\ MaxConfigStarts \in Nat

NoFile == 0
Inodes == 1 .. Cardinality(Savers) + 2

VARIABLES
  \* the directory
  path, tmp,     \* the files config.json and config.json.tmp name, or NoFile
  data,          \* what each file holds
  \* the requests
  saverAt, edit, \* where each is; the key and the value it sets
  copy,          \* the configuration it loaded
  handle,        \* the file it has open
  \* one instance
  given,         \* what its command line and environment say of each key
  running,       \* the values it started with, each with its source
  overridden,    \* overriddenKeys
  \* history
  may,           \* the values each key of the file may have
  overlapped,    \* whether two saves were under way at once
  saves, configCrashes, configStarts

directory     == <<path, tmp, data>>
requests      == <<saverAt, edit, copy, handle>>
instance      == <<given, running, overridden>>
configHistory == <<may, overlapped, saves, configCrashes, configStarts>>
configVars    == <<directory, requests, instance, configHistory>>

Empty    == [k \in Keys |-> Unset]
Configs  == [Keys -> Values \cup {Unset}]
NoEdit   == <<Unset, Unset>>
InSave   == {"open", "write", "rename", "reply"}
Sources  == {"flag", "env", "invalid env", "none"}

\* config.Load; a file that is not there is an empty configuration.
Load == IF path = NoFile THEN Empty ELSE data[path]

ConfigTypeOK ==
  /\ path \in Inodes \cup {NoFile} /\ tmp \in Inodes \cup {NoFile}
  /\ path # NoFile => path # tmp
  /\ data \in [Inodes -> Configs \cup {Garbage}]
  /\ saverAt \in [Savers -> {"idle", "load", "set"} \cup InSave]
  /\ copy \in [Savers -> Configs] /\ handle \in [Savers -> Inodes \cup {NoFile}]
  /\ given \in [Keys -> Sources] /\ overridden \subseteq Keys
  /\ running \in [Keys -> Values \cup {"flag", "env", "default"}]
  /\ may \in [Keys -> SUBSET (Values \cup {Unset})] /\ overlapped \in BOOLEAN
  /\ saves \in 0 .. MaxSaves
  /\ configCrashes \in 0 .. MaxConfigCrashes /\ configStarts \in 0 .. MaxConfigStarts

-----------------------------------------------------------------------------
(* Starting.                                                                 *)

\* applyEnvFallbacks: a flag that was given, or a valid value from the environment,
\* marks the key as changed; an invalid one is ignored.
Changed == {k \in Keys : given[k] \in {"flag", "env"}}

\* An invalid file is ignored.
Saved == IF Load = Garbage THEN Empty ELSE Load

\* applyConfigFileFallbacks sets what is not changed yet.
Effective ==
  [k \in Keys |-> CASE k \in Changed -> given[k]
                    [] k \notin Changed /\ Saved[k] # Unset -> Saved[k]
                    [] OTHER -> "default"]

\* Mutant: the changed keys are taken after the file was applied.
OverriddenLate == {k \in Keys : Effective[k] # "default"}

\* changedConfigKeys.
Overridden == Changed

ConfigInit ==
  /\ path = NoFile /\ tmp = NoFile /\ data = [n \in Inodes |-> Garbage]
  /\ saverAt = [r \in Savers |-> "idle"] /\ edit = [r \in Savers |-> NoEdit]
  /\ copy = [r \in Savers |-> Empty] /\ handle = [r \in Savers |-> NoFile]
  /\ given \in [Keys -> Sources]
  /\ running = [k \in Keys |-> IF k \in Changed THEN given[k] ELSE "default"]
  /\ overridden = Changed
  /\ may = [k \in Keys |-> {Unset}] /\ overlapped = FALSE
  /\ saves = 0 /\ configCrashes = 0 /\ configStarts = 0

\* The instance restarts, with the same command line and environment.
Start ==
  /\ configStarts < MaxConfigStarts /\ configStarts' = configStarts + 1
  /\ running' = Effective /\ overridden' = Overridden
  /\ UNCHANGED <<directory, requests, given, may, overlapped, saves, configCrashes>>

-----------------------------------------------------------------------------
(* POST /api/config/{key}.                                                   *)

SaverGoto(r, label) == saverAt' = [saverAt EXCEPT ![r] = label]

Ends(r) ==
  /\ SaverGoto(r, "idle") /\ edit' = [edit EXCEPT ![r] = NoEdit]
  /\ copy' = [copy EXCEPT ![r] = Empty] /\ handle' = [handle EXCEPT ![r] = NoFile]

UnderWay == {r \in Savers : saverAt[r] # "idle"}

RequestSave(r, k, v) ==
  /\ saverAt[r] = "idle" /\ saves < MaxSaves /\ saves' = saves + 1
  /\ SaverGoto(r, "load") /\ edit' = [edit EXCEPT ![r] = <<k, v>>]
  /\ overlapped' = (overlapped \/ UnderWay # {})
  /\ UNCHANGED <<directory, copy, handle, instance, may, configCrashes, configStarts>>

\* A file that cannot be parsed is answered with an error.
LoadFile(r) ==
  /\ saverAt[r] = "load"
  /\ \/ /\ Load # Garbage /\ SaverGoto(r, "set") /\ copy' = [copy EXCEPT ![r] = Load]
        /\ UNCHANGED <<edit, handle>>
     \/ Load = Garbage /\ Ends(r)
  /\ UNCHANGED <<directory, instance, configHistory>>

\* File.Set refuses a value out of range; an empty back-link removes the key.
Set(r) ==
  /\ saverAt[r] = "set"
  /\ LET k == edit[r][1] v == edit[r][2] IN
       \/ v = Bad /\ Ends(r)
       \/ /\ v # Bad /\ SaverGoto(r, "open") /\ copy' = [copy EXCEPT ![r][k] = v]
          /\ UNCHANGED <<edit, handle>>
  /\ UNCHANGED <<directory, instance, configHistory>>

InUse == {path, tmp} \cup {handle[r] : r \in Savers}

\* Mutant: config.json is written in place.
OpenInPlace(r) ==
  /\ saverAt[r] = "open" /\ SaverGoto(r, "write")
  /\ path' = (IF path # NoFile THEN path ELSE CHOOSE n \in Inodes : n \notin InUse)
  /\ handle' = [handle EXCEPT ![r] = path'] /\ data' = [data EXCEPT ![path'] = Garbage]
  /\ UNCHANGED <<tmp, edit, copy, instance, configHistory>>

\* os.WriteFile opens the temporary file, makes it if it is not there, and empties it;
\* an empty file is not JSON.
Open(r) ==
  /\ saverAt[r] = "open" /\ SaverGoto(r, "write")
  /\ tmp' = (IF tmp # NoFile THEN tmp ELSE CHOOSE n \in Inodes : n \notin InUse)
  /\ handle' = [handle EXCEPT ![r] = tmp'] /\ data' = [data EXCEPT ![tmp'] = Garbage]
  /\ UNCHANGED <<path, edit, copy, instance, configHistory>>

\* It writes from the beginning of the file: of a longer text another request has
\* written there meanwhile, the end stays.
Write(r) ==
  /\ saverAt[r] = "write" /\ SaverGoto(r, "rename")
  /\ \E content \in {copy[r]} \cup
       (IF data[handle[r]] \in {Garbage, copy[r]} THEN {} ELSE {Garbage}) :
         data' = [data EXCEPT ![handle[r]] = content]
  /\ UNCHANGED <<path, tmp, edit, copy, handle, instance, configHistory>>

\* os.Rename moves whatever file has the name by now; there may be none.
RenameConfig(r) ==
  /\ saverAt[r] = "rename"
  /\ \/ /\ tmp # NoFile /\ SaverGoto(r, "reply") /\ path' = tmp /\ tmp' = NoFile
        /\ data' = IF path = NoFile THEN data ELSE [data EXCEPT ![path] = Garbage]
        /\ UNCHANGED <<edit, copy, handle>>
     \/ tmp = NoFile /\ Ends(r) /\ UNCHANGED directory
  /\ UNCHANGED <<instance, configHistory>>

Reply(r) ==
  /\ saverAt[r] = "reply" /\ Ends(r) /\ may' = [may EXCEPT ![edit[r][1]] = {edit[r][2]}]
  /\ UNCHANGED <<directory, instance, overlapped, saves, configCrashes, configStarts>>

\* The process of the request ends in the middle of it.
Crash(r) ==
  /\ saverAt[r] # "idle" /\ Ends(r)
  /\ configCrashes < MaxConfigCrashes /\ configCrashes' = configCrashes + 1
  /\ may' = IF edit[r][2] = Bad THEN may ELSE [may EXCEPT ![edit[r][1]] = @ \cup {edit[r][2]}]
  /\ UNCHANGED <<directory, instance, overlapped, saves, configStarts>>

ConfigNext ==
  \/ \E r \in Savers :
       \/ \E k \in Keys, v \in Values \cup {Unset, Bad} : RequestSave(r, k, v)
       \/ LoadFile(r) \/ Set(r) \/ Open(r) \/ Write(r) \/ RenameConfig(r) \/ Reply(r) \/ Crash(r)
  \/ Start

ConfigSpec == ConfigInit /\ [][ConfigNext]_configVars

-----------------------------------------------------------------------------
(* Properties.                                                               *)

\* As long as saves do not overlap, the file is whole at any moment and has for each key
\* what was last saved, though processes end in the middle of a save and leave their
\* temporary file behind (Save; reference.md:61, "shared by every peek instance").
EditsKept ==
  ~overlapped =>
    /\ Load # Garbage
    /\ \A k \in Keys : Load[k] \in may[k] \cup {edit[r][2] : r \in {r \in UnderWay : edit[r][1] = k}}

\* What the editor says of a key comes true: one it shows as overridden keeps its value
\* over a restart whatever is saved, any other takes the saved one (changedConfigKeys
\* before applyConfigFileFallbacks; reference.md:61, "win over the file after restart").
RowComesTrue ==
  \A k \in Keys :
    /\ k \in overridden => Effective[k] = running[k]
    /\ k \notin overridden /\ Saved[k] # Unset => Effective[k] = Saved[k]

=============================================================================

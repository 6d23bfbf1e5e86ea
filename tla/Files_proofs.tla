----------------------------- MODULE Files_proofs ------------------------------
(***************************************************************************)
(* Proofs about the files that instances share.  ConfigFile: as long as saves *)
(* do not overlap, no crash loses or damages what is in the file, and the     *)
(* editor's rows come true.  StateDir: whatever writes, crashes and           *)
(* collections come in between, a collection takes only what is old or an     *)
(* orphan's.  PlanStore: the revision files that one instance writes are the  *)
(* history of the plan, and what it has in memory.                            *)
(***************************************************************************)
EXTENDS ConfigFile, StateDir, PlanStore, FiniteSetTheorems, SequenceTheorems,
        WellFoundedInduction, TLAPS

-----------------------------------------------------------------------------
(* ConfigFile.                                                              *)

SaverLabels == {"idle", "load", "set"} \cup InSave
Edits  == Keys \X (Values \cup {Unset, Bad})

\* The types of what the saves work on.
FileTypes ==
  /\ path \in Inodes \cup {NoFile} /\ tmp \in Inodes \cup {NoFile}
  /\ path # NoFile => path # tmp
  /\ data \in [Inodes -> Configs \cup {Garbage}]
  /\ saverAt \in [Savers -> SaverLabels] /\ edit \in [Savers -> Edits \cup {NoEdit}]
  /\ copy \in [Savers -> Configs] /\ handle \in [Savers -> Inodes \cup {NoFile}]
  /\ may \in [Keys -> SUBSET (Values \cup {Unset})]

\* No two saves are under way.
Alone == \A r, q \in Savers : saverAt[r] # "idle" /\ saverAt[q] # "idle" => r = q

\* What a request makes of the file that is there.
Result(r) == [Load EXCEPT ![edit[r][1]] = edit[r][2]]

\* A request that is under way has its edit in hand, what it loaded is still what the file
\* says, and the temporary file is its own from the moment it opened it.
InHand(r) ==
  /\ saverAt[r] # "idle" => edit[r] \in Edits
  /\ saverAt[r] \in {"idle", "load", "set", "open"} => handle[r] = NoFile
  /\ saverAt[r] = "set" => copy[r] = Load
  /\ saverAt[r] \in InSave => edit[r][2] # Bad
  /\ saverAt[r] \in {"open", "write", "rename"} => copy[r] = Result(r)
  /\ saverAt[r] \in {"write", "rename"} => tmp \in Inodes /\ handle[r] = tmp
  /\ saverAt[r] = "write" => data[tmp] = Garbage
  /\ saverAt[r] = "rename" => data[tmp] = copy[r]
  /\ saverAt[r] = "reply" => Load[edit[r][1]] = edit[r][2]

\* The file has what was saved last, or what the request about to be answered saved.
HasLast(k) ==
  \/ Load[k] \in may[k]
  \/ \E r \in Savers : saverAt[r] = "reply" /\ edit[r][1] = k /\ Load[k] = edit[r][2]

FileWhole == FileTypes /\ Load \in Configs /\ Alone

SaveInv == FileWhole /\ (\A r \in Savers : InHand(r)) /\ (\A k \in Keys : HasLast(k))

ConfigInv == overlapped \in BOOLEAN /\ (~overlapped => SaveInv)

-----------------------------------------------------------------------------
LEMMA NoFileIsNone == NoFile \notin Inodes
  BY DEF NoFile, Inodes

LEMMA InitConfig == ConfigInit => ConfigInv
  <1> SUFFICES ASSUME ConfigInit PROVE ConfigInv
    OBVIOUS
  <1>1. Empty \in Configs /\ Load = Empty
    BY DEF ConfigInit, Empty, Configs, Load
  <1>2. FileTypes
    BY <1>1 DEF ConfigInit, FileTypes, SaverLabels, NoFile
  <1>3. Alone /\ \A r \in Savers : InHand(r)
    BY DEF ConfigInit, Alone, InHand, InSave
  <1>4. \A k \in Keys : HasLast(k)
    BY <1>1 DEF ConfigInit, HasLast, Empty
  <1> QED
    BY <1>1, <1>2, <1>3, <1>4 DEF ConfigInit, ConfigInv, SaveInv, FileWhole

\* Beside a request that is under way all others are idle.
LEMMA OthersIdle ==
  ASSUME SaveInv, NEW r \in Savers, saverAt[r] # "idle"
  PROVE  \A q \in Savers : q # r => saverAt[q] = "idle" /\ handle[q] = NoFile
  BY DEF SaveInv, FileWhole, Alone, InHand

\* A step that changes where one request is, and leaves the file as it is.
LEMMA FileStays ==
  ASSUME SaveInv, NEW r \in Savers, saverAt[r] # "idle" \/ \A q \in Savers : saverAt[q] = "idle",
         FileTypes', Load' = Load, InHand(r)',
         \A q \in Savers : q # r => saverAt'[q] = saverAt[q] /\ handle'[q] = handle[q],
         \A k \in Keys : HasLast(k)'
  PROVE  SaveInv'
  <1>1. \A q \in Savers : q # r => saverAt'[q] = "idle" /\ handle'[q] = NoFile
    BY OthersIdle DEF SaveInv, InHand
  <1>2. Alone'
    BY <1>1 DEF Alone
  <1>3. ASSUME NEW q \in Savers, q # r PROVE InHand(q)'
    BY <1>1, <1>3 DEF InHand, InSave
  <1> QED
    BY <1>2, <1>3 DEF SaveInv, FileWhole

\* What a step that is not the answer leaves of the values that were saved.
LEMMA LastStays ==
  ASSUME SaveInv, NEW r \in Savers, UNCHANGED may, Load' = Load, saverAt[r] # "reply",
         saverAt[r] # "idle" \/ \A q \in Savers : saverAt[q] = "idle"
  PROVE  \A k \in Keys : HasLast(k)'
  BY OthersIdle DEF SaveInv, HasLast

\* A request that ends and leaves the file and what was saved as they are.
LEMMA EndsKeeps ==
  ASSUME SaveInv, NEW r \in Savers, saverAt[r] \notin {"idle", "reply"}, Ends(r),
         UNCHANGED <<directory, may>>
  PROVE  SaveInv'
  <1>1. Load' = Load
    BY DEF directory, Load
  <1>2. FileTypes'
    <2>1. Empty \in Configs /\ NoFile \in Inodes \cup {NoFile} /\ "idle" \in SaverLabels
      BY DEF Empty, Configs, SaverLabels
    <2> QED
      BY <2>1 DEF SaveInv, FileWhole, FileTypes, Ends, SaverGoto, directory
  <1>3. saverAt'[r] = "idle" /\ handle'[r] = NoFile
    BY DEF SaveInv, FileWhole, FileTypes, Ends, SaverGoto
  <1>4. \A q \in Savers : q # r => saverAt'[q] = saverAt[q] /\ handle'[q] = handle[q]
    BY DEF SaveInv, FileWhole, FileTypes, Ends, SaverGoto
  <1>5. InHand(r)'
    BY <1>3 DEF InHand, InSave
  <1> QED
    BY <1>1, <1>2, <1>4, <1>5, LastStays, FileStays

LEMMA RequestKeeps ==
  ASSUME SaveInv, NEW r \in Savers, NEW k \in Keys, NEW v \in Values \cup {Unset, Bad},
         RequestSave(r, k, v), ~overlapped'
  PROVE  SaveInv'
  <1>1. /\ UNCHANGED <<path, tmp, data, may, copy, handle>> /\ Load' = Load
        /\ saverAt[r] = "idle" /\ saverAt' = [saverAt EXCEPT ![r] = "load"] /\ edit' = [edit EXCEPT ![r] = <<k, v>>]
    BY DEF RequestSave, SaverGoto, directory, Load
  <1>2. \A q \in Savers : saverAt[q] = "idle"
    BY DEF RequestSave, UnderWay
  <1>3. FileTypes'
    BY <1>1 DEF SaveInv, FileWhole, FileTypes, SaverLabels, Edits
  <1>4. /\ saverAt'[r] = "load" /\ edit'[r] = <<k, v>>
        /\ \A q \in Savers : q # r => saverAt'[q] = saverAt[q]
    BY <1>1 DEF SaveInv, FileWhole, FileTypes
  <1>5. InHand(r)'
    BY <1>1, <1>4 DEF SaveInv, InHand, InSave, Edits
  <1> QED
    BY <1>1, <1>2, <1>3, <1>4, <1>5, LastStays, FileStays

LEMMA LoadKeeps ==
  ASSUME SaveInv, NEW r \in Savers, LoadFile(r)
  PROVE  SaveInv'
  <1>1. UNCHANGED <<directory, may>> /\ Load' = Load /\ saverAt[r] = "load"
    BY DEF LoadFile, configHistory, directory, Load
  <1>2. CASE Ends(r)
    BY <1>1, <1>2, EndsKeeps
  <1>3. CASE /\ saverAt' = [saverAt EXCEPT ![r] = "set"] /\ copy' = [copy EXCEPT ![r] = Load]
             /\ UNCHANGED <<edit, handle>>
    <2>1. FileTypes'
      BY <1>1, <1>3 DEF SaveInv, FileWhole, FileTypes, SaverLabels, directory
    <2>2. /\ saverAt'[r] = "set" /\ copy'[r] = Load /\ \A q \in Savers : q # r => saverAt'[q] = saverAt[q]
      BY <1>3 DEF SaveInv, FileWhole, FileTypes
    <2>3. InHand(r)'
      BY <1>1, <1>3, <2>2 DEF SaveInv, InHand, InSave
    <2> QED
      BY <1>1, <1>3, <2>1, <2>2, <2>3, LastStays, FileStays
  <1> QED
    BY <1>2, <1>3 DEF LoadFile, SaverGoto

LEMMA SetKeeps ==
  ASSUME SaveInv, NEW r \in Savers, Set(r)
  PROVE  SaveInv'
  <1>1. UNCHANGED <<directory, may>> /\ Load' = Load /\ saverAt[r] = "set"
    BY DEF Set, configHistory, directory, Load
  <1>2. CASE Ends(r)
    BY <1>1, <1>2, EndsKeeps
  <1>3. CASE /\ edit[r][2] # Bad /\ saverAt' = [saverAt EXCEPT ![r] = "open"]
             /\ copy' = [copy EXCEPT ![r][edit[r][1]] = edit[r][2]] /\ UNCHANGED <<edit, handle>>
    <2>1. edit[r][1] \in Keys /\ edit[r][2] \in Values \cup {Unset}
      BY <1>1, <1>3 DEF SaveInv, InHand, Edits
    <2>2. copy[r] = Load /\ Load \in Configs
      BY <1>1 DEF SaveInv, FileWhole, InHand
    <2>3. [Load EXCEPT ![edit[r][1]] = edit[r][2]] \in Configs
      BY <2>1, <2>2 DEF Configs
    <2>4. copy' = [copy EXCEPT ![r] = Result(r)]
      BY <1>3, <2>2 DEF Result
    <2>5. FileTypes'
      <3>1. copy' \in [Savers -> Configs]
        BY <2>3, <2>4 DEF SaveInv, FileWhole, FileTypes, Result
      <3>2. saverAt' \in [Savers -> SaverLabels]
        BY <1>3 DEF SaveInv, FileWhole, FileTypes, SaverLabels, InSave
      <3> QED
        BY <1>1, <1>3, <3>1, <3>2 DEF SaveInv, FileWhole, FileTypes, directory
    <2>6. /\ saverAt'[r] = "open" /\ copy'[r] = Result(r) /\ \A q \in Savers : q # r => saverAt'[q] = saverAt[q]
      BY <1>3, <2>4 DEF SaveInv, FileWhole, FileTypes
    <2>7. Result(r)' = Result(r)
      BY <1>1, <1>3 DEF Result
    <2>8. InHand(r)'
      BY <1>1, <1>3, <2>6, <2>7 DEF SaveInv, InHand, InSave
    <2> QED
      BY <1>1, <1>3, <2>5, <2>6, <2>8, LastStays, FileStays
  <1> QED
    BY <1>2, <1>3 DEF Set, SaverGoto

\* A request that is alone finds a file to open that is not config.json.
LEMMA OpenFinds ==
  ASSUME SaveInv, NEW r \in Savers, Open(r)
  PROVE  tmp' \in Inodes /\ tmp' # path
  <1>1. CASE tmp # NoFile
    BY <1>1 DEF Open, SaveInv, FileWhole, FileTypes
  <1>2. CASE tmp = NoFile
    <2>1. tmp' = CHOOSE n \in Inodes : n \notin InUse
      BY <1>2 DEF Open
    <2>2. InUse \subseteq {path, NoFile}
      <3>1. \A q \in Savers : handle[q] = NoFile
        BY OthersIdle DEF Open, SaveInv, InHand
      <3> QED
        BY <1>2, <3>1 DEF InUse
    <2>3. \E n \in Inodes : n \notin InUse
      <3>1. Cardinality(Savers) \in Nat
        BY FS_CardinalityType, ConfigFileAssumption
      <3>2. 1 \in Inodes /\ 2 \in Inodes
        BY <3>1 DEF Inodes
      <3> QED
        BY <2>2, <3>2 DEF NoFile
    <2>4. path \in InUse
      BY DEF InUse
    <2> QED
      BY <2>1, <2>3, <2>4
  <1> QED
    BY <1>1, <1>2

LEMMA OpenKeeps ==
  ASSUME SaveInv, NEW r \in Savers, Open(r)
  PROVE  SaveInv'
  <1>1. /\ saverAt[r] = "open" /\ saverAt' = [saverAt EXCEPT ![r] = "write"] /\ UNCHANGED <<path, edit, copy, may>>
        /\ handle' = [handle EXCEPT ![r] = tmp'] /\ data' = [data EXCEPT ![tmp'] = Garbage]
    BY DEF Open, SaverGoto, configHistory
  <1>2. tmp' \in Inodes /\ tmp' # path
    BY OpenFinds
  <1>3. Load' = Load
    BY <1>1, <1>2 DEF Load, SaveInv, FileWhole, FileTypes
  <1>4. FileTypes'
    BY <1>1, <1>2 DEF SaveInv, FileWhole, FileTypes, SaverLabels, InSave
  <1>5. /\ saverAt'[r] = "write" /\ handle'[r] = tmp' /\ data'[tmp'] = Garbage
        /\ \A q \in Savers : q # r => saverAt'[q] = saverAt[q] /\ handle'[q] = handle[q]
    BY <1>1, <1>2 DEF SaveInv, FileWhole, FileTypes
  <1>6. Result(r)' = Result(r)
    BY <1>1, <1>3 DEF Result
  <1>7. InHand(r)'
    BY <1>1, <1>2, <1>5, <1>6 DEF SaveInv, InHand, InSave
  <1> QED
    BY <1>1, <1>3, <1>4, <1>5, <1>7, LastStays, FileStays

LEMMA WriteKeeps ==
  ASSUME SaveInv, NEW r \in Savers, Write(r)
  PROVE  SaveInv'
  <1>1. /\ saverAt[r] = "write" /\ saverAt' = [saverAt EXCEPT ![r] = "rename"]
        /\ UNCHANGED <<path, tmp, edit, copy, handle, may>>
    BY DEF Write, SaverGoto, configHistory
  <1>2. /\ tmp \in Inodes /\ handle[r] = tmp /\ tmp # path /\ data[tmp] = Garbage
        /\ copy[r] = Result(r) /\ copy[r] \in Configs /\ edit[r] \in Edits /\ edit[r][2] # Bad
    <2>1. InHand(r)
      BY DEF SaveInv
    <2>2. tmp # path
      BY <1>1, <2>1, NoFileIsNone DEF SaveInv, FileWhole, FileTypes, InHand
    <2>3. copy[r] \in Configs
      BY DEF SaveInv, FileWhole, FileTypes
    <2> QED
      BY <1>1, <2>1, <2>2, <2>3 DEF InHand, InSave
  <1>3. data' = [data EXCEPT ![tmp] = copy[r]]
    BY <1>2 DEF Write
  <1>4. Load' = Load
    BY <1>1, <1>2, <1>3 DEF Load, SaveInv, FileWhole, FileTypes
  <1>5. FileTypes'
    BY <1>1, <1>2, <1>3 DEF SaveInv, FileWhole, FileTypes, SaverLabels, InSave
  <1>6. /\ saverAt'[r] = "rename" /\ data'[tmp] = copy[r]
        /\ \A q \in Savers : q # r => saverAt'[q] = saverAt[q]
    BY <1>1, <1>2, <1>3 DEF SaveInv, FileWhole, FileTypes
  <1>7. Result(r)' = Result(r)
    BY <1>1, <1>4 DEF Result
  <1>8. InHand(r)'
    BY <1>1, <1>2, <1>6, <1>7 DEF InHand, InSave
  <1> QED
    BY <1>1, <1>4, <1>5, <1>6, <1>8, LastStays, FileStays

\* The rename puts the edited configuration in place at once.
LEMMA RenameKeeps ==
  ASSUME SaveInv, NEW r \in Savers, RenameConfig(r)
  PROVE  SaveInv'
  <1>1. /\ saverAt[r] = "rename" /\ tmp \in Inodes /\ tmp # path /\ data[tmp] = Result(r)
        /\ edit[r] \in Edits /\ edit[r][2] # Bad /\ Result(r) \in Configs
    <2>1. saverAt[r] = "rename" /\ InHand(r)
      BY DEF RenameConfig, SaveInv
    <2>2. tmp # path
      BY <2>1, NoFileIsNone DEF SaveInv, FileWhole, FileTypes, InHand
    <2>3. copy[r] \in Configs
      BY DEF SaveInv, FileWhole, FileTypes
    <2> QED
      BY <2>1, <2>2, <2>3 DEF InHand, InSave
  <1>2. /\ saverAt' = [saverAt EXCEPT ![r] = "reply"] /\ path' = tmp /\ tmp' = NoFile
        /\ data' = IF path = NoFile THEN data ELSE [data EXCEPT ![path] = Garbage]
        /\ UNCHANGED <<edit, copy, handle, may>>
    BY <1>1 DEF RenameConfig, SaverGoto, configHistory, NoFile, Inodes
  <1>3. Load' = Result(r)
    <2>1. path' # NoFile /\ data'[tmp] = data[tmp]
      BY <1>1, <1>2 DEF SaveInv, FileWhole, FileTypes, NoFile, Inodes
    <2> QED
      BY <1>1, <1>2, <2>1 DEF Load
  <1>4. FileTypes'
    <2>1. data' \in [Inodes -> Configs \cup {Garbage}]
      BY <1>2 DEF SaveInv, FileWhole, FileTypes
    <2>2. saverAt' \in [Savers -> SaverLabels]
      BY <1>2 DEF SaveInv, FileWhole, FileTypes, SaverLabels, InSave
    <2> QED
      BY <1>1, <1>2, <2>1, <2>2 DEF SaveInv, FileWhole, FileTypes, NoFile, Inodes
  <1>5. saverAt'[r] = "reply" /\ \A q \in Savers : q # r => saverAt'[q] = "idle" /\ handle'[q] = NoFile
    BY <1>1, <1>2, OthersIdle DEF SaveInv, FileWhole, FileTypes
  <1>6. Load'[edit[r][1]] = edit[r][2] /\ \A k \in Keys : k # edit[r][1] => Load'[k] = Load[k]
    BY <1>1, <1>3 DEF Result, Edits, SaveInv, FileWhole, Configs
  <1>7. ASSUME NEW q \in Savers PROVE InHand(q)'
    <2>1. CASE q = r
      BY <1>1, <1>2, <1>5, <1>6, <2>1 DEF InHand, InSave
    <2>2. CASE q # r
      BY <1>5, <2>2 DEF InHand, InSave
    <2> QED
      BY <2>1, <2>2
  <1>8. ASSUME NEW k \in Keys PROVE HasLast(k)'
    <2>1. CASE k = edit[r][1]
      BY <1>2, <1>5, <1>6, <2>1 DEF HasLast
    <2>2. CASE k # edit[r][1]
      <3>1. Load[k] \in may[k]
        BY <1>1, OthersIdle DEF SaveInv, HasLast
      <3> QED
        BY <1>2, <1>6, <2>2, <3>1 DEF HasLast
    <2> QED
      BY <2>1, <2>2
  <1>9. Alone' /\ Load' \in Configs
    BY <1>1, <1>3, <1>5 DEF Alone
  <1> QED
    BY <1>4, <1>7, <1>8, <1>9 DEF SaveInv, FileWhole

LEMMA ReplyKeeps ==
  ASSUME SaveInv, NEW r \in Savers, Reply(r)
  PROVE  SaveInv'
  <1>1. /\ saverAt[r] = "reply" /\ edit[r] \in Edits /\ edit[r][2] # Bad
        /\ Load[edit[r][1]] = edit[r][2]
    BY DEF Reply, SaveInv, InHand, InSave
  <1>2. /\ UNCHANGED <<path, tmp, data>> /\ Load' = Load
        /\ may' = [may EXCEPT ![edit[r][1]] = {edit[r][2]}]
        /\ saverAt' = [saverAt EXCEPT ![r] = "idle"] /\ edit' = [edit EXCEPT ![r] = NoEdit]
        /\ copy' = [copy EXCEPT ![r] = Empty] /\ handle' = [handle EXCEPT ![r] = NoFile]
    BY DEF Reply, Ends, SaverGoto, directory, Load
  <1>3. edit[r][1] \in Keys /\ edit[r][2] \in Values \cup {Unset}
    BY <1>1 DEF Edits
  <1>4. FileTypes'
    <2>1. Empty \in Configs /\ "idle" \in SaverLabels
      BY DEF Empty, Configs, SaverLabels
    <2>2. may' \in [Keys -> SUBSET (Values \cup {Unset})]
      BY <1>2, <1>3 DEF SaveInv, FileWhole, FileTypes
    <2> QED
      BY <1>2, <2>1, <2>2 DEF SaveInv, FileWhole, FileTypes
  <1>5. /\ saverAt'[r] = "idle" /\ handle'[r] = NoFile
        /\ \A q \in Savers : q # r => saverAt'[q] = saverAt[q] /\ handle'[q] = handle[q]
    BY <1>2 DEF SaveInv, FileWhole, FileTypes
  <1>6. InHand(r)'
    BY <1>5 DEF InHand, InSave
  <1>7. ASSUME NEW k \in Keys PROVE HasLast(k)'
    <2>1. CASE k = edit[r][1]
      <3>1. may'[k] = {edit[r][2]}
        BY <1>2, <1>3, <2>1 DEF SaveInv, FileWhole, FileTypes
      <3> QED
        BY <1>1, <1>2, <2>1, <3>1 DEF HasLast
    <2>2. CASE k # edit[r][1]
      <3>1. Load[k] \in may[k]
        BY <1>1, <2>2, OthersIdle DEF SaveInv, HasLast
      <3>2. may'[k] = may[k]
        BY <1>2, <2>2 DEF SaveInv, FileWhole, FileTypes
      <3> QED
        BY <1>2, <3>1, <3>2 DEF HasLast
    <2> QED
      BY <2>1, <2>2
  <1> QED
    BY <1>1, <1>2, <1>4, <1>5, <1>6, <1>7, FileStays

\* Wherever a request ends, its value may be in the file or not.
LEMMA CrashKeeps ==
  ASSUME SaveInv, NEW r \in Savers, Crash(r)
  PROVE  SaveInv'
  <1>1. /\ saverAt[r] # "idle" /\ UNCHANGED <<path, tmp, data>> /\ Load' = Load
        /\ saverAt' = [saverAt EXCEPT ![r] = "idle"] /\ edit' = [edit EXCEPT ![r] = NoEdit]
        /\ copy' = [copy EXCEPT ![r] = Empty] /\ handle' = [handle EXCEPT ![r] = NoFile]
    BY DEF Crash, Ends, SaverGoto, directory, Load
  <1>2. /\ edit[r] \in Edits /\ edit[r][1] \in Keys
        /\ edit[r][2] # Bad => edit[r][2] \in Values \cup {Unset}
        /\ saverAt[r] = "reply" => edit[r][2] # Bad
    BY <1>1 DEF SaveInv, InHand, InSave, Edits
  <1>3. may' \in [Keys -> SUBSET (Values \cup {Unset})] /\ \A k \in Keys : may[k] \subseteq may'[k]
    <2>1. CASE edit[r][2] = Bad
      BY <2>1 DEF Crash, SaveInv, FileWhole, FileTypes
    <2>2. CASE edit[r][2] # Bad
      <3>1. may' = [may EXCEPT ![edit[r][1]] = may[edit[r][1]] \cup {edit[r][2]}]
        BY <2>2 DEF Crash
      <3> QED
        BY <1>2, <2>2, <3>1 DEF SaveInv, FileWhole, FileTypes
    <2> QED
      BY <2>1, <2>2
  <1>4. FileTypes'
    <2>1. Empty \in Configs /\ "idle" \in SaverLabels
      BY DEF Empty, Configs, SaverLabels
    <2> QED
      BY <1>1, <1>3, <2>1 DEF SaveInv, FileWhole, FileTypes
  <1>5. /\ saverAt'[r] = "idle" /\ handle'[r] = NoFile
        /\ \A q \in Savers : q # r => saverAt'[q] = saverAt[q] /\ handle'[q] = handle[q]
    BY <1>1 DEF SaveInv, FileWhole, FileTypes
  <1>6. InHand(r)'
    BY <1>5 DEF InHand, InSave
  <1>7. ASSUME NEW k \in Keys PROVE HasLast(k)'
    <2>1. CASE saverAt[r] = "reply" /\ edit[r][1] = k
      <3>1. Load[k] = edit[r][2]
        BY <2>1 DEF SaveInv, InHand
      <3>2. may' = [may EXCEPT ![k] = may[k] \cup {edit[r][2]}]
        BY <1>2, <2>1 DEF Crash
      <3>3. edit[r][2] \in may'[k]
        BY <3>2 DEF SaveInv, FileWhole, FileTypes
      <3> QED
        BY <1>1, <3>1, <3>3 DEF HasLast
    <2>2. CASE ~(saverAt[r] = "reply" /\ edit[r][1] = k)
      <3>1. Load[k] \in may[k]
        BY <1>1, <2>2, OthersIdle DEF SaveInv, HasLast
      <3> QED
        BY <1>1, <1>3, <3>1 DEF HasLast
    <2> QED
      BY <2>1, <2>2
  <1> QED
    BY <1>1, <1>4, <1>5, <1>6, <1>7, FileStays

LEMMA NextConfig == ConfigInv /\ [ConfigNext]_configVars => ConfigInv'
  <1> SUFFICES ASSUME ConfigInv, [ConfigNext]_configVars PROVE ConfigInv'
    OBVIOUS
  <1>1. ASSUME NEW r \in Savers, NEW k \in Keys, NEW v \in Values \cup {Unset, Bad}, RequestSave(r, k, v)
        PROVE  ConfigInv'
    <2>1. overlapped' \in BOOLEAN /\ (~overlapped' => ~overlapped)
      BY <1>1 DEF RequestSave, ConfigInv
    <2> QED
      BY <1>1, <2>1, RequestKeeps DEF ConfigInv
  <1>2. ASSUME NEW r \in Savers,
               \/ LoadFile(r) \/ Set(r) \/ Open(r) \/ Write(r) \/ RenameConfig(r)
               \/ Reply(r) \/ Crash(r)
        PROVE  ConfigInv'
    <2>1. UNCHANGED overlapped
      BY <1>2 DEF LoadFile, Set, Open, Write, RenameConfig, Reply, Crash, configHistory
    <2>2. SaveInv => SaveInv'
      BY <1>2, LoadKeeps, SetKeeps, OpenKeeps, WriteKeeps, RenameKeeps, ReplyKeeps, CrashKeeps
    <2> QED
      BY <2>1, <2>2 DEF ConfigInv
  <1>3. CASE Start \/ UNCHANGED configVars
    <2>1. UNCHANGED <<path, tmp, data, saverAt, edit, copy, handle, may, overlapped>>
      BY <1>3 DEF Start, configVars, directory, requests, configHistory
    <2>2. Load' = Load
      BY <2>1 DEF Load
    <2>3. FileWhole => FileWhole'
      BY <2>1, <2>2 DEF FileWhole, FileTypes, Alone
    <2>4. ASSUME NEW r \in Savers, InHand(r) PROVE InHand(r)'
      BY <2>1, <2>2, <2>4 DEF InHand, Result
    <2>5. ASSUME NEW k \in Keys, HasLast(k) PROVE HasLast(k)'
      BY <2>1, <2>2, <2>5 DEF HasLast
    <2> QED
      BY <2>1, <2>3, <2>4, <2>5 DEF ConfigInv, SaveInv
  <1> QED
    BY <1>1, <1>2, <1>3 DEF ConfigNext

\* For any requests, keys and values, and wherever processes end: as long as saves do not
\* overlap the file is whole and has for each key what was last saved (Save).
THEOREM EditsKeptCorrect == ConfigSpec => []EditsKept
  <1>1. ConfigInv => EditsKept
    <2> SUFFICES ASSUME SaveInv
                 PROVE  /\ Load # Garbage
                        /\ \A k \in Keys : Load[k] \in
                             may[k] \cup {edit[r][2] : r \in {q \in UnderWay : edit[q][1] = k}}
      BY DEF ConfigInv, EditsKept
    <2>1. Load # Garbage
      BY ConfigFileAssumption DEF SaveInv, FileWhole, Configs
    <2>2. ASSUME NEW k \in Keys
          PROVE  Load[k] \in may[k] \cup {edit[r][2] : r \in {q \in UnderWay : edit[q][1] = k}}
      BY DEF SaveInv, HasLast, UnderWay
    <2> QED
      BY <2>1, <2>2
  <1> QED
    BY <1>1, InitConfig, NextConfig, PTL DEF ConfigSpec

-----------------------------------------------------------------------------
\* What was given on the command line or in the environment stays, and so does what
\* the instance takes as overridden.
GivenInv ==
  /\ overridden = Changed
  /\ \A k \in Changed : running[k] = given[k]

\* Whatever saves and crashes leave in the file: what the editor says of a row comes true
\* with the next start (changedConfigKeys, applyConfigFileFallbacks).
THEOREM RowComesTrueCorrect == ConfigSpec => []RowComesTrue
  <1>1. ConfigInit => GivenInv
    BY DEF ConfigInit, GivenInv, Changed
  <1>2. GivenInv /\ [ConfigNext]_configVars => GivenInv'
    <2> SUFFICES ASSUME GivenInv, [ConfigNext]_configVars PROVE GivenInv'
      OBVIOUS
    <2>1. CASE UNCHANGED instance
      BY <2>1 DEF GivenInv, instance, Changed
    <2>2. CASE Start
      <3>1. UNCHANGED given /\ overridden' = Changed /\ running' = Effective
        BY <2>2 DEF Start, Overridden
      <3>2. \A k \in Changed : Effective[k] = given[k]
        BY DEF Effective, Changed
      <3> QED
        BY <3>1, <3>2 DEF GivenInv, Changed
    <2>3. CASE ~Start /\ ConfigNext
      BY <2>1, <2>3 DEF ConfigNext, RequestSave, LoadFile, Set, Open, Write, RenameConfig, Reply, Crash, instance
    <2> QED
      BY <2>1, <2>2, <2>3 DEF configVars
  <1>3. GivenInv => RowComesTrue
    <2>1. \A k \in Keys : k \in Changed => Effective[k] = given[k]
      BY DEF Effective
    <2>2. \A k \in Keys : k \notin Changed /\ Saved[k] # Unset => Effective[k] = Saved[k]
      BY DEF Effective
    <2> QED
      BY <2>1, <2>2 DEF GivenInv, RowComesTrue
  <1> QED
    BY <1>1, <1>2, <1>3, PTL DEF ConfigSpec

-----------------------------------------------------------------------------
(* StateDir.                                                                *)

WriterLabels == {"idle", "create", "rename"}
Phases == {"idle", "dirs", "snapshots", "stores"}

-----------------------------------------------------------------------------
(* DirTypes.                                                                    *)

\* What the actions assign, one conjunct for each variable.
DirTypes ==
  /\ dirs \subseteq Sessions /\ age \in [Sessions -> [Files -> Ages]] /\ temp \in [Sessions -> Ages]
  /\ writerAt \in [Sessions -> WriterLabels] /\ target \in [Sessions -> Files] /\ phase \in Phases
  /\ todo \subseteq Sessions /\ victim \subseteq Sessions
  /\ alive \subseteq Instances /\ cold \subseteq Instances
  /\ record \in [Instances -> Ages] /\ snap \in [Instances -> Ages]
  /\ doomedRecords \subseteq Instances /\ doomedSnaps \subseteq Instances
  /\ recordDay \in [Instances -> 0 .. MaxSteps] /\ snapDay \in [Instances -> 0 .. MaxSteps]
  /\ overtaken \subseteq Instances
  /\ owed \in [Sessions -> SUBSET Files] /\ failed \subseteq Sessions /\ raced \subseteq Sessions
  /\ writes \in 0 .. MaxWrites /\ steps \in 0 .. MaxSteps /\ stateCrashes \in 0 .. MaxStateCrashes

\* Nothing is in a directory that is not there.
NoTrace == \A s \in Sessions \ dirs : temp[s] = Absent /\ \A f \in Files : age[s][f] = Absent

DirTypeInv == DirTypes /\ NoTrace

\* Ages stay within their bound.
LEMMA AgesType ==
  /\ 0 \in Ages /\ Absent \in Ages /\ 0 # Absent /\ Absent \in Nat
  /\ \A n \in Ages : Older(n) \in Ages /\ (Older(n) = Absent <=> n = Absent) /\ Older(n) <= n + 1
  BY StateDirAssumption DEF Ages, Absent, Old, Older

LEMMA InitDirTypes == DirInit => DirTypeInv
  <1> SUFFICES ASSUME DirInit PROVE DirTypeInv
    OBVIOUS
  <1>1. DirTypes
    BY AgesType, StateDirAssumption DEF DirInit, DirTypes, WriterLabels, Phases, Files
  <1>2. NoTrace
    BY DEF DirInit, NoTrace
  <1> QED
    BY <1>1, <1>2 DEF DirTypeInv

LEMMA DaysTypes ==
  ASSUME DirTypeInv, Days
  PROVE  DirTypeInv'
  <1> USE DEF DirTypeInv, DirTypes, writer, collector, doomed
  <1>1. age' \in [Sessions -> [Files -> Ages]] /\ temp' \in [Sessions -> Ages]
    BY AgesType DEF Days
  <1>2. record' \in [Instances -> Ages] /\ snap' \in [Instances -> Ages]
    BY AgesType DEF Days
  <1>3. owed' \in [Sessions -> SUBSET Files]
    BY DEF Days, StillOwed
  <1>4. steps' \in 0 .. MaxSteps
    BY StateDirAssumption DEF Days
  <1>5. DirTypes'
    BY <1>1, <1>2, <1>3, <1>4 DEF Days
  <1>6. NoTrace'
    <2> SUFFICES ASSUME NEW s \in Sessions \ dirs'
                 PROVE  temp'[s] = Absent /\ \A f \in Files : age'[s][f] = Absent
      BY DEF NoTrace
    <2>1. temp[s] = Absent /\ \A f \in Files : age[s][f] = Absent
      BY DEF Days, NoTrace
    <2>2. temp'[s] = Older(temp[s]) /\ \A f \in Files : age'[s][f] = Older(age[s][f])
      BY DEF Days
    <2> QED
      BY <2>1, <2>2, AgesType
  <1> QED
    BY <1>5, <1>6

LEMMA WriterTypes ==
  ASSUME DirTypeInv, NEW s \in Sessions,
         \/ \E f \in Files : MakeDir(s, f)
         \/ CreateTemp(s) \/ RenameFile(s) \/ Touch(s) \/ CrashWriter(s)
  PROVE  DirTypeInv'
  <1> USE DEF DirTypeInv, DirTypes, NoTrace, trees, writer, collector, doomed, instances, stateHistory, WriterGoto, Races, Fails
  <1>1. ASSUME NEW f \in Files, MakeDir(s, f) PROVE DirTypeInv'
    BY <1>1, StateDirAssumption DEF MakeDir, WriterLabels
  <1>2. CASE CreateTemp(s)
    <2>1. CASE s \in dirs
      <3>1. /\ writerAt' = [writerAt EXCEPT ![s] = "rename"] /\ temp' = [temp EXCEPT ![s] = 0]
            /\ UNCHANGED <<dirs, age, target, collector, instances, owed, writes, steps, stateCrashes, failed>>
            /\ raced' = IF s \in victim THEN raced \cup {s} ELSE raced
        BY <1>2, <2>1 DEF CreateTemp
      <3>2. DirTypes'
        BY <3>1, AgesType DEF WriterLabels
      <3>3. NoTrace'
        BY <2>1, <3>1
      <3> QED
        BY <3>2, <3>3
    <2>2. CASE s \notin dirs
      BY <1>2, <2>2 DEF CreateTemp, WriterLabels
    <2> QED
      BY <2>1, <2>2
  <1>3. CASE RenameFile(s)
    <2>1. CASE temp[s] # Absent
      <3>1. /\ age' = [age EXCEPT ![s][target[s]] = 0] /\ temp' = [temp EXCEPT ![s] = Absent]
            /\ UNCHANGED <<dirs, target, collector, instances, writes, steps, stateCrashes, failed>>
            /\ owed' = [owed EXCEPT ![s] = owed[s] \cup {target[s]}]
            /\ writerAt' = [writerAt EXCEPT ![s] = "idle"]
            /\ raced' = IF s \in victim THEN raced \cup {s} ELSE raced
        BY <1>3, <2>1 DEF RenameFile
      <3>2. s \in dirs /\ target[s] \in Files
        BY <2>1
      <3>3. DirTypes'
        BY <3>1, <3>2, AgesType DEF WriterLabels
      <3>4. NoTrace'
        BY <3>1, <3>2
      <3> QED
        BY <3>3, <3>4
    <2>2. CASE temp[s] = Absent
      <3>1. /\ writerAt' = [writerAt EXCEPT ![s] = "idle"] /\ failed' = failed \cup {s}
            /\ UNCHANGED <<dirs, age, temp, target, collector, instances, owed, writes, steps, stateCrashes>>
            /\ raced' = IF s \in victim THEN raced \cup {s} ELSE raced
        BY <1>3, <2>2 DEF RenameFile
      <3>2. DirTypes'
        BY <3>1 DEF WriterLabels
      <3>3. NoTrace'
        BY <3>1
      <3> QED
        BY <3>2, <3>3
    <2> QED
      BY <2>1, <2>2
  <1>4. CASE Touch(s)
    <2>1. CASE age[s]["diff.snapshot"] # Absent
      <3>1. /\ age' = [age EXCEPT ![s]["diff.snapshot"] = 0] /\ writes < MaxWrites /\ writes' = writes + 1
            /\ UNCHANGED <<dirs, temp, writer, collector, instances, failed, steps, stateCrashes>>
            /\ owed' = [owed EXCEPT ![s] = owed[s] \cup {"diff.snapshot"}]
            /\ raced' = IF s \in victim THEN raced \cup {s} ELSE raced
        BY <1>4, <2>1 DEF Touch
      <3>2. "diff.snapshot" \in Files
        BY DEF Files
      <3>3. s \in dirs
        BY <2>1, <3>2
      <3>4. DirTypes'
        BY <3>1, <3>2, AgesType, StateDirAssumption
      <3>5. NoTrace'
        BY <3>1, <3>3
      <3> QED
        BY <3>4, <3>5
    <2>2. CASE age[s]["diff.snapshot"] = Absent
      BY <1>4, <2>2, StateDirAssumption DEF Touch
    <2> QED
      BY <2>1, <2>2
  <1>5. CASE CrashWriter(s)
    BY <1>5, StateDirAssumption DEF CrashWriter, WriterLabels
  <1> QED
    BY <1>1, <1>2, <1>3, <1>4, <1>5

LEMMA GcTypes ==
  ASSUME DirTypeInv,
         \/ BeginGc \/ NextPhase \/ EndGc \/ CrashGc
         \/ \E s \in Sessions : LookAtDir(s) \/ RemoveDir(s) \/ LookAtSnapshot(s) \/ RemoveSnapshot(s)
  PROVE  DirTypeInv'
  <1> USE DEF DirTypeInv, DirTypes, NoTrace, trees, writer, collector, doomed, instances, stateHistory, Phases
  <1>1. CASE BeginGc
    BY <1>1, AgesType DEF BeginGc
  <1>2. CASE NextPhase
    BY <1>2 DEF NextPhase
  <1>3. CASE EndGc
    BY <1>3, AgesType DEF EndGc
  <1>4. CASE CrashGc
    BY <1>4, StateDirAssumption DEF CrashGc
  <1>5. ASSUME NEW s \in Sessions, LookAtDir(s) PROVE DirTypeInv'
    BY <1>5 DEF LookAtDir, LooksDuringWrite
  <1>6. ASSUME NEW s \in Sessions, RemoveDir(s) PROVE DirTypeInv'
    <2>1. /\ dirs' = dirs \ {s} /\ age' = [age EXCEPT ![s] = [f \in Files |-> Absent]]
          /\ temp' = [temp EXCEPT ![s] = Absent] /\ victim' = {}
          /\ UNCHANGED <<writer, phase, todo, instances, stateHistory>>
      BY <1>6 DEF RemoveDir
    <2>2. DirTypes'
      BY <2>1, AgesType
    <2>3. NoTrace'
      BY <2>1
    <2> QED
      BY <2>2, <2>3
  <1>7. ASSUME NEW s \in Sessions, LookAtSnapshot(s) PROVE DirTypeInv'
    BY <1>7 DEF LookAtSnapshot
  <1>8. ASSUME NEW s \in Sessions, RemoveSnapshot(s) PROVE DirTypeInv'
    <2>1. /\ age' = [age EXCEPT ![s]["diff.snapshot"] = Absent] /\ victim' = {}
          /\ UNCHANGED <<dirs, temp, writer, phase, todo, instances, stateHistory>>
      BY <1>8 DEF RemoveSnapshot
    <2>2. "diff.snapshot" \in Files
      BY DEF Files
    <2>3. DirTypes'
      BY <2>1, <2>2, AgesType
    <2>4. NoTrace'
      BY <2>1, <2>2
    <2> QED
      BY <2>3, <2>4
  <1> QED
    BY <1>1, <1>2, <1>3, <1>4, <1>5, <1>6, <1>7, <1>8

LEMMA InstanceTypes ==
  ASSUME DirTypeInv,
         Stats \/ RemoveInstanceFiles \/ \E i \in Instances : Act(i) \/ Cool(i) \/ Warm(i) \/ Die(i)
  PROVE  DirTypeInv'
  <1> USE DEF DirTypeInv, DirTypes, NoTrace, trees, writer, collector, doomed, instances, stateHistory,
             Persist, Overtakes
  <1>1. CASE Stats
    BY <1>1 DEF Stats
  <1>2. ASSUME NEW i \in Instances, Act(i) PROVE DirTypeInv'
    BY <1>2, AgesType, StateDirAssumption DEF Act
  <1>3. ASSUME NEW i \in Instances, Cool(i) PROVE DirTypeInv'
    BY <1>3, AgesType, StateDirAssumption DEF Cool
  <1>4. ASSUME NEW i \in Instances, Warm(i) PROVE DirTypeInv'
    BY <1>4, AgesType, StateDirAssumption DEF Warm
  <1>5. ASSUME NEW i \in Instances, Die(i) PROVE DirTypeInv'
    BY <1>5, StateDirAssumption DEF Die
  <1>6. CASE RemoveInstanceFiles
    BY <1>6, AgesType DEF RemoveInstanceFiles
  <1> QED
    BY <1>1, <1>2, <1>3, <1>4, <1>5, <1>6

LEMMA NextDirTypes == DirTypeInv /\ [DirNext]_stateDirVars => DirTypeInv'
  <1> SUFFICES ASSUME DirTypeInv, [DirNext]_stateDirVars PROVE DirTypeInv'
    OBVIOUS
  <1>1. CASE UNCHANGED stateDirVars
    BY <1>1 DEF DirTypeInv, DirTypes, NoTrace, stateDirVars, trees, writer, collector, doomed, instances, stateHistory
  <1>2. CASE Days
    BY <1>2, DaysTypes
  <1>3. ASSUME NEW s \in Sessions,
               \/ \E f \in Files : MakeDir(s, f)
               \/ CreateTemp(s) \/ RenameFile(s) \/ Touch(s) \/ CrashWriter(s)
        PROVE  DirTypeInv'
    BY <1>3, WriterTypes
  <1>4. CASE \/ BeginGc \/ NextPhase \/ EndGc \/ CrashGc
             \/ \E s \in Sessions : LookAtDir(s) \/ RemoveDir(s) \/ LookAtSnapshot(s) \/ RemoveSnapshot(s)
    BY <1>4, GcTypes
  <1>5. CASE Stats \/ RemoveInstanceFiles \/ \E i \in Instances : Act(i) \/ Cool(i) \/ Warm(i) \/ Die(i)
    BY <1>5, InstanceTypes
  <1> QED
    BY <1>1, <1>2, <1>3, <1>4, <1>5 DEF DirNext

-----------------------------------------------------------------------------
(* The sessions' files.                                                      *)

\* What is owed of a session is there and not all of it is old, a write that is under way
\* finds its directory and its file, and what a collection is about to remove is not owed;
\* but for a session that was written to at that very moment.
Intact(s) ==
  /\ s \notin failed
  /\ \A f \in owed[s] : age[s][f] # Absent
  /\ owed[s] # {} => \E f \in owed[s] : ~IsOld(age[s][f], Retention)
  /\ "diff.snapshot" \in owed[s] => ~IsOld(age[s]["diff.snapshot"], SnapshotRetention)
  /\ writerAt[s] # "idle" => s \in dirs
  /\ writerAt[s] = "rename" => temp[s] = 0
  /\ s \in victim /\ phase = "dirs" => owed[s] = {} /\ writerAt[s] = "idle"
  /\ s \in victim /\ phase = "snapshots" => "diff.snapshot" \notin owed[s]

\* A victim is one of the phase that looked at it.
VictimOfPhase == phase \in {"idle", "stores"} => victim = {}

SessionInv == DirTypeInv /\ VictimOfPhase /\ \A s \in Sessions : s \notin raced => Intact(s)

\* A step that leaves a session alone.
LEMMA Untouched ==
  ASSUME NEW s \in Sessions, s \notin raced => Intact(s),
         age'[s] = age[s], temp'[s] = temp[s], writerAt'[s] = writerAt[s], owed'[s] = owed[s],
         s \in dirs => s \in dirs', s \in failed' => s \in failed, s \in raced => s \in raced',
         s \in victim' => s \in victim /\ phase' = phase
  PROVE  s \notin raced' => Intact(s)'
  BY DEF Intact

LEMMA InitSession == DirInit => SessionInv
  <1> SUFFICES ASSUME DirInit PROVE SessionInv
    OBVIOUS
  <1>1. DirTypeInv
    BY InitDirTypes
  <1>2. VictimOfPhase /\ \A s \in Sessions : Intact(s)
    BY DEF DirInit, VictimOfPhase, Intact
  <1> QED
    BY <1>1, <1>2 DEF SessionInv

\* What is new is not old.
LEMMA NewIsFresh == ~IsOld(0, Retention) /\ ~IsOld(0, SnapshotRetention)
  BY StateDirAssumption DEF IsOld

LEMMA DaysIntact ==
  ASSUME SessionInv, Days, NEW s \in Sessions, s \notin raced
  PROVE  Intact(s)'
  <1>1. /\ age' = [q \in Sessions |-> [f \in Files |-> Older(age[q][f])]]
        /\ owed' = [q \in Sessions |-> StillOwed(q)]
        /\ UNCHANGED <<dirs, writerAt, victim, failed>> /\ writerAt[s] = "idle" /\ victim = {}
    BY DEF Days, writer, collector, SessionInv, VictimOfPhase
  <1>2. owed'[s] = StillOwed(s) /\ \A f \in Files : age'[s][f] = Older(age[s][f])
    BY <1>1
  <1>3. owed[s] \subseteq Files /\ \A f \in Files : age[s][f] \in Ages
    BY DEF SessionInv, DirTypeInv, DirTypes
  <1> DEFINE kept == {f \in owed[s] : f = "diff.snapshot" => ~IsOld(Older(age[s][f]), SnapshotRetention)}
  <1>4. StillOwed(s) = IF \A f \in kept : IsOld(Older(age[s][f]), Retention) THEN {} ELSE kept
    BY DEF StillOwed
  <1>5. CASE \A f \in kept : IsOld(Older(age[s][f]), Retention)
    <2>1. owed'[s] = {}
      BY <1>2, <1>4, <1>5
    <2> QED
      BY <1>1, <2>1 DEF SessionInv, Intact
  <1>6. CASE \E f \in kept : ~IsOld(Older(age[s][f]), Retention)
    <2>1. owed'[s] = kept /\ kept \subseteq Files
      BY <1>2, <1>3, <1>4, <1>6
    <2>2. \A f \in kept : age'[s][f] # Absent
      BY <1>2, <1>3, AgesType DEF SessionInv, Intact
    <2>3. \E f \in kept : ~IsOld(age'[s][f], Retention)
      BY <1>2, <1>6, <2>1
    <2>4. "diff.snapshot" \in kept => ~IsOld(age'[s]["diff.snapshot"], SnapshotRetention)
      BY <1>2, <2>1
    <2>5. s \notin failed /\ writerAt'[s] = "idle" /\ s \notin failed' /\ s \notin victim'
      BY <1>1 DEF SessionInv, Intact
    <2> HIDE DEF kept
    <2>6. /\ \A f \in owed'[s] : age'[s][f] # Absent
          /\ \E f \in owed'[s] : ~IsOld(age'[s][f], Retention)
          /\ "diff.snapshot" \in owed'[s] => ~IsOld(age'[s]["diff.snapshot"], SnapshotRetention)
      BY <2>1, <2>2, <2>3, <2>4
    <2> QED
      BY <2>5, <2>6 DEF Intact, IsOld
  <1> QED
    BY <1>5, <1>6

\* A file that is written, or touched, is owed and new.
LEMMA FileWritten ==
  ASSUME SessionInv, NEW s \in Sessions, s \notin raced, s \notin victim,
         NEW f \in Files, UNCHANGED <<dirs, victim, failed>>,
         age' = [age EXCEPT ![s][f] = 0], owed' = [owed EXCEPT ![s] = owed[s] \cup {f}],
         writerAt'[s] = "idle"
  PROVE  Intact(s)'
  <1>1. owed'[s] = owed[s] \cup {f} /\ owed[s] \subseteq Files
    BY DEF SessionInv, DirTypeInv, DirTypes
  <1>2. age'[s][f] = 0 /\ \A g \in Files : g # f => age'[s][g] = age[s][g]
    BY DEF SessionInv, DirTypeInv, DirTypes
  <1>3. \A g \in owed'[s] : age'[s][g] # Absent
    BY <1>1, <1>2, AgesType DEF SessionInv, Intact
  <1>4. \E g \in owed'[s] : ~IsOld(age'[s][g], Retention)
    BY <1>1, <1>2, NewIsFresh
  <1>5. "diff.snapshot" \in owed'[s] => ~IsOld(age'[s]["diff.snapshot"], SnapshotRetention)
    BY <1>1, <1>2, NewIsFresh DEF SessionInv, Intact
  <1>6. s \notin failed' /\ s \notin victim'
    BY DEF SessionInv, Intact
  <1> QED
    BY <1>3, <1>4, <1>5, <1>6 DEF Intact, IsOld

\* A session that is not written to at the moment it is looked at.
LEMMA WriterIntact ==
  ASSUME SessionInv, NEW s \in Sessions, s \notin raced',
         \/ \E f \in Files : MakeDir(s, f)
         \/ CreateTemp(s) \/ RenameFile(s) \/ Touch(s) \/ CrashWriter(s)
  PROVE  Intact(s)'
  <1>1. s \notin raced /\ UNCHANGED <<victim, phase>>
    BY DEF MakeDir, CreateTemp, RenameFile, Touch, CrashWriter, Races, collector, SessionInv, DirTypeInv, DirTypes
  <1>2. Intact(s)
    BY <1>1 DEF SessionInv
  <1>3. ASSUME NEW f \in Files, MakeDir(s, f) PROVE Intact(s)'
    <2>1. s \notin victim
      BY <1>3 DEF MakeDir, Races, SessionInv, DirTypeInv, DirTypes
    <2>2. UNCHANGED <<age, owed, failed>> /\ dirs' = dirs \cup {s} /\ writerAt' = [writerAt EXCEPT ![s] = "create"]
      BY <1>3 DEF MakeDir, WriterGoto
    <2>3. writerAt'[s] = "create"
      BY <2>2 DEF SessionInv, DirTypeInv, DirTypes
    <2> QED
      BY <1>1, <1>2, <2>1, <2>2, <2>3 DEF Intact
  <1>4. CASE CreateTemp(s)
    <2>1. s \notin victim /\ s \in dirs
      BY <1>2, <1>4 DEF CreateTemp, Races, Intact
    <2>2. /\ UNCHANGED <<age, owed, failed, dirs>> /\ writerAt' = [writerAt EXCEPT ![s] = "rename"]
          /\ temp' = [temp EXCEPT ![s] = 0]
      BY <1>4, <2>1 DEF CreateTemp, WriterGoto
    <2>3. writerAt'[s] = "rename" /\ temp'[s] = 0
      BY <2>2 DEF SessionInv, DirTypeInv, DirTypes
    <2> QED
      BY <1>1, <1>2, <2>1, <2>2, <2>3 DEF Intact
  <1>5. CASE RenameFile(s)
    <2>1. s \notin victim /\ temp[s] # Absent
      BY <1>2, <1>5, AgesType DEF RenameFile, Races, Intact
    <2>2. /\ UNCHANGED <<dirs, failed>> /\ writerAt' = [writerAt EXCEPT ![s] = "idle"] /\ target[s] \in Files
          /\ age' = [age EXCEPT ![s][target[s]] = 0]
          /\ owed' = [owed EXCEPT ![s] = owed[s] \cup {target[s]}]
      BY <1>5, <2>1 DEF RenameFile, WriterGoto, SessionInv, DirTypeInv, DirTypes
    <2>3. writerAt'[s] = "idle"
      BY <2>2 DEF SessionInv, DirTypeInv, DirTypes
    <2> QED
      BY <1>1, <2>1, <2>2, <2>3, FileWritten
  <1>6. CASE Touch(s)
    <2>1. s \notin victim /\ writerAt[s] = "idle" /\ UNCHANGED <<writerAt, dirs, temp, failed>>
      BY <1>6 DEF Touch, Races, writer, SessionInv, DirTypeInv, DirTypes
    <2>2. CASE UNCHANGED <<age, owed>>
      BY <1>1, <1>2, <2>1, <2>2 DEF Intact
    <2>3. CASE /\ age' = [age EXCEPT ![s]["diff.snapshot"] = 0]
               /\ owed' = [owed EXCEPT ![s] = owed[s] \cup {"diff.snapshot"}]
      <3>1. "diff.snapshot" \in Files
        BY DEF Files
      <3> QED
        BY <1>1, <2>1, <2>3, <3>1, FileWritten
    <2> QED
      BY <1>6, <2>2, <2>3 DEF Touch
  <1>7. CASE CrashWriter(s)
    <2>1. UNCHANGED <<age, owed, failed, dirs>> /\ writerAt' = [writerAt EXCEPT ![s] = "idle"]
      BY <1>7 DEF CrashWriter, WriterGoto, trees
    <2>2. writerAt'[s] = "idle"
      BY <2>1 DEF SessionInv, DirTypeInv, DirTypes
    <2> QED
      BY <1>1, <1>2, <2>1, <2>2 DEF Intact
  <1> QED
    BY <1>3, <1>4, <1>5, <1>6, <1>7

LEMMA WriterKeeps ==
  ASSUME SessionInv, NEW s \in Sessions,
         \/ \E f \in Files : MakeDir(s, f)
         \/ CreateTemp(s) \/ RenameFile(s) \/ Touch(s) \/ CrashWriter(s)
  PROVE  SessionInv'
  <1>1. DirTypeInv'
    BY WriterTypes DEF SessionInv
  <1>2. UNCHANGED <<victim, phase>> /\ VictimOfPhase'
    BY DEF MakeDir, CreateTemp, RenameFile, Touch, CrashWriter, collector, SessionInv, VictimOfPhase
  <1>3. ASSUME NEW q \in Sessions, q # s PROVE q \notin raced' => Intact(q)'
    <2>1. age'[q] = age[q] /\ temp'[q] = temp[q] /\ writerAt'[q] = writerAt[q] /\ owed'[q] = owed[q]
      BY <1>3 DEF MakeDir, CreateTemp, RenameFile, Touch, CrashWriter, WriterGoto, Fails, trees, writer,
         SessionInv, DirTypeInv, DirTypes
    <2>2. (q \in dirs => q \in dirs') /\ (q \in failed' => q \in failed)
      BY <1>3 DEF MakeDir, CreateTemp, RenameFile, Touch, CrashWriter, Fails, trees
    <2>3. q \in raced => q \in raced'
      BY <1>3 DEF MakeDir, CreateTemp, RenameFile, Touch, CrashWriter, Races
    <2> QED
      BY <1>2, <2>1, <2>2, <2>3, Untouched DEF SessionInv
  <1>4. ASSUME NEW q \in Sessions, q \notin raced' PROVE Intact(q)'
    BY <1>3, <1>4, WriterIntact
  <1> QED
    BY <1>1, <1>2, <1>4 DEF SessionInv

\* A collection that begins, goes on, ends or crashes removes at most temporary files that
\* no write uses any more.
LEMMA PhaseKeeps ==
  ASSUME SessionInv, BeginGc \/ NextPhase \/ EndGc \/ CrashGc
  PROVE  SessionInv'
  <1>1. DirTypeInv'
    BY GcTypes DEF SessionInv
  <1>2. UNCHANGED <<dirs, age, writerAt, owed, failed, raced>> /\ victim' = {}
    BY DEF BeginGc, NextPhase, EndGc, CrashGc, trees, writer, stateHistory, SessionInv, VictimOfPhase
  <1>3. VictimOfPhase'
    BY <1>2 DEF VictimOfPhase
  <1>4. ASSUME NEW s \in Sessions, temp[s] = 0 PROVE temp'[s] = 0
    BY <1>4 DEF BeginGc, NextPhase, EndGc, CrashGc, trees
  <1> QED
    BY <1>1, <1>2, <1>3, <1>4 DEF SessionInv, Intact

\* A directory that is condemned holds nothing that is owed.
LEMMA LookKeeps ==
  ASSUME SessionInv, NEW s \in Sessions, LookAtDir(s)
  PROVE  SessionInv'
  <1>1. DirTypeInv'
    BY GcTypes DEF SessionInv
  <1>2. /\ UNCHANGED <<dirs, age, temp, writerAt, owed, failed, phase>> /\ phase = "dirs"
        /\ raced' = IF writerAt[s] # "idle" THEN raced \cup {s} ELSE raced
        /\ victim' = IF IsIdle(s) THEN {s} ELSE {}
    BY DEF LookAtDir, LooksDuringWrite, trees, writer
  <1>3. ASSUME NEW q \in Sessions, q \notin raced' PROVE Intact(q)'
    <2>1. Intact(q)
      BY <1>2, <1>3 DEF SessionInv
    <2>2. CASE q \in victim'
      <3>1. q = s /\ IsIdle(s) /\ writerAt[s] = "idle"
        BY <1>2, <1>3, <2>2
      <3>2. owed[s] = {}
        <4>1. owed[s] \subseteq Files
          BY DEF SessionInv, DirTypeInv, DirTypes
        <4>2. \A f \in Files : age[s][f] # Absent => IsOld(age[s][f], Retention)
          BY <3>1 DEF IsIdle
        <4> QED
          BY <2>1, <3>1, <4>1, <4>2 DEF Intact
      <3> QED
        BY <1>2, <2>1, <3>1, <3>2 DEF Intact
    <2>3. CASE q \notin victim'
      BY <1>2, <2>1, <2>3 DEF Intact
    <2> QED
      BY <2>2, <2>3
  <1> QED
    BY <1>1, <1>2, <1>3 DEF SessionInv, VictimOfPhase

LEMMA RemoveKeeps ==
  ASSUME SessionInv, NEW s \in Sessions, RemoveDir(s)
  PROVE  SessionInv'
  <1>1. DirTypeInv'
    BY GcTypes DEF SessionInv
  <1>2. /\ dirs' = dirs \ {s} /\ UNCHANGED <<writerAt, owed, failed, raced, phase>>
        /\ phase = "dirs" /\ s \in victim /\ victim' = {}
    BY DEF RemoveDir, writer, stateHistory
  <1>3. VictimOfPhase'
    BY <1>2 DEF VictimOfPhase
  <1>4. ASSUME NEW q \in Sessions, q # s PROVE q \notin raced' => Intact(q)'
    <2>1. age'[q] = age[q] /\ temp'[q] = temp[q]
      BY <1>4 DEF RemoveDir, SessionInv, DirTypeInv, DirTypes
    <2> QED
      BY <1>2, <1>4, <2>1, Untouched DEF SessionInv
  <1>5. s \notin raced' => Intact(s)'
    BY <1>2 DEF SessionInv, Intact
  <1> QED
    BY <1>1, <1>3, <1>4, <1>5 DEF SessionInv

\* A snapshot that is removed is old.
LEMMA SnapshotKeeps ==
  ASSUME SessionInv, NEW s \in Sessions, LookAtSnapshot(s) \/ RemoveSnapshot(s)
  PROVE  SessionInv'
  <1>1. DirTypeInv'
    BY GcTypes DEF SessionInv
  <1>2. UNCHANGED <<dirs, temp, writerAt, owed, failed, raced, phase>> /\ phase = "snapshots"
    BY DEF LookAtSnapshot, RemoveSnapshot, trees, writer, stateHistory
  <1>3. VictimOfPhase'
    BY <1>2 DEF VictimOfPhase
  <1>4. CASE LookAtSnapshot(s)
    <2>1. /\ UNCHANGED age
          /\ victim' = IF /\ age[s]["diff.snapshot"] # Absent
                          /\ IsOld(age[s]["diff.snapshot"], SnapshotRetention) THEN {s} ELSE {}
      BY <1>4 DEF LookAtSnapshot, trees
    <2>2. ASSUME NEW q \in Sessions, q \notin raced' PROVE Intact(q)'
      <3>1. Intact(q)
        BY <1>2, <2>2 DEF SessionInv
      <3>2. q \in victim' => "diff.snapshot" \notin owed[q]
        BY <2>1, <3>1 DEF Intact
      <3> QED
        BY <1>2, <2>1, <3>1, <3>2 DEF Intact
    <2> QED
      BY <1>1, <1>3, <2>2 DEF SessionInv
  <1>5. CASE RemoveSnapshot(s)
    <2>1. /\ s \in victim /\ victim' = {} /\ age' = [age EXCEPT ![s]["diff.snapshot"] = Absent]
      BY <1>5 DEF RemoveSnapshot
    <2>2. /\ \A q \in Sessions : q # s => age'[q] = age[q]
          /\ \A f \in Files : f # "diff.snapshot" => age'[s][f] = age[s][f]
      BY <2>1 DEF SessionInv, DirTypeInv, DirTypes
    <2>3. ASSUME NEW q \in Sessions, q \notin raced' PROVE Intact(q)'
      <3>1. Intact(q) /\ owed[q] \subseteq Files
        BY <1>2, <2>3 DEF SessionInv, DirTypeInv, DirTypes
      <3>2. \A f \in owed[q] : age'[q][f] = age[q][f]
        BY <1>2, <2>1, <2>2, <3>1 DEF Intact
      <3> QED
        BY <1>2, <2>1, <3>1, <3>2 DEF Intact, IsOld
    <2> QED
      BY <1>1, <1>3, <2>3 DEF SessionInv
  <1> QED
    BY <1>4, <1>5

LEMMA NextSession == SessionInv /\ [DirNext]_stateDirVars => SessionInv'
  <1> SUFFICES ASSUME SessionInv, [DirNext]_stateDirVars PROVE SessionInv'
    OBVIOUS
  <1>1. CASE Stats \/ RemoveInstanceFiles
             \/ (\E i \in Instances : Act(i) \/ Cool(i) \/ Warm(i) \/ Die(i))
             \/ UNCHANGED stateDirVars
    <2>1. UNCHANGED <<dirs, age, temp, writerAt, owed, failed, raced, victim, phase>>
      BY <1>1 DEF Stats, RemoveInstanceFiles, Act, Cool, Warm, Die, stateDirVars, trees, writer, collector, stateHistory
    <2>2. DirTypeInv'
      BY NextDirTypes DEF SessionInv
    <2> QED
      BY <2>1, <2>2 DEF SessionInv, VictimOfPhase, Intact
  <1>2. CASE Days
    <2>1. DirTypeInv'
      BY <1>2, DaysTypes DEF SessionInv
    <2>2. VictimOfPhase' /\ UNCHANGED raced
      BY <1>2 DEF Days, collector, SessionInv, VictimOfPhase
    <2> QED
      BY <1>2, <2>1, <2>2, DaysIntact DEF SessionInv
  <1>3. ASSUME NEW s \in Sessions,
               \/ \E f \in Files : MakeDir(s, f)
               \/ CreateTemp(s) \/ RenameFile(s) \/ Touch(s) \/ CrashWriter(s)
        PROVE  SessionInv'
    BY <1>3, WriterKeeps
  <1>4. CASE BeginGc \/ NextPhase \/ EndGc \/ CrashGc
    BY <1>4, PhaseKeeps
  <1>5. ASSUME NEW s \in Sessions,
               LookAtDir(s) \/ RemoveDir(s) \/ LookAtSnapshot(s) \/ RemoveSnapshot(s)
        PROVE  SessionInv'
    BY <1>5, LookKeeps, RemoveKeeps, SnapshotKeeps
  <1> QED
    BY <1>1, <1>2, <1>3, <1>4, <1>5 DEF DirNext

-----------------------------------------------------------------------------
(* The instances' files.                                                     *)

\* The age of a file is the time since it was last written.
AgesTold(i) ==
  /\ recordDay[i] <= steps /\ snapDay[i] <= steps
  /\ record[i] # Absent => record[i] = steps - recordDay[i]
  /\ snap[i] # Absent => snap[i] = steps - snapDay[i]

RecordPast(i) ==
  steps - recordDay[i] >= RecordRetention \/ IsOld(steps - recordDay[i], Retention)

SnapPast(i) == IsOld(steps - snapDay[i], Retention)

\* What a collection is about to remove of an instance, and what is gone, was past its time
\* or an orphan's.
Earned(i) ==
  /\ i \in doomedRecords \/ record[i] = Absent => RecordPast(i)
  /\ i \in doomedSnaps => i \notin alive \/ SnapPast(i)
  /\ i \in alive \cap cold /\ snap[i] = Absent => SnapPast(i)

Kept(i) == AgesTold(i) /\ (i \notin overtaken => Earned(i))

InstanceInv == DirTypeInv /\ \A i \in Instances : Kept(i)

\* The numbers of the instances.
LEMMA InstanceNumbers ==
  ASSUME DirTypeInv, NEW i \in Instances
  PROVE  /\ steps \in Nat /\ steps <= MaxSteps /\ MaxSteps \in Nat
         /\ Retention \in Nat /\ RecordRetention \in Nat
         /\ recordDay[i] \in Nat /\ snapDay[i] \in Nat /\ record[i] \in Ages /\ snap[i] \in Ages
  BY StateDirAssumption DEF DirTypeInv, DirTypes

\* A step that leaves the instances' files alone.
LEMMA InstancesUntouched ==
  ASSUME InstanceInv, DirTypeInv', alive' \subseteq alive,
         UNCHANGED <<record, snap, recordDay, snapDay, doomedRecords, doomedSnaps, overtaken, steps, cold>>
  PROVE  InstanceInv'
  BY DEF InstanceInv, Kept, AgesTold, Earned, RecordPast, SnapPast, IsOld

LEMMA DaysKept ==
  ASSUME InstanceInv, DirTypeInv', Days PROVE InstanceInv'
  <1>1. /\ UNCHANGED <<alive, cold, recordDay, snapDay, overtaken, doomedRecords, doomedSnaps>>
        /\ steps' = steps + 1 /\ doomedRecords = {} /\ doomedSnaps = {}
    BY DEF Days, doomed
  <1>2. ASSUME NEW i \in Instances PROVE Kept(i)'
    <2>1. record'[i] = Older(record[i]) /\ snap'[i] = Older(snap[i])
      BY DEF Days
    <2>2. /\ Kept(i) /\ steps \in Nat /\ steps <= MaxSteps /\ MaxSteps \in Nat
          /\ Retention \in Nat /\ RecordRetention \in Nat
          /\ recordDay[i] \in Nat /\ snapDay[i] \in Nat /\ record[i] \in Ages /\ snap[i] \in Ages
      BY InstanceNumbers DEF InstanceInv
    <2>3. /\ record'[i] = Absent <=> record[i] = Absent
          /\ snap'[i] = Absent <=> snap[i] = Absent
      BY <2>1, <2>2, AgesType
    <2>4. AgesTold(i)'
      BY <1>1, <2>1, <2>2, <2>3 DEF Kept, AgesTold, Older, Old, Absent
    <2>5. (RecordPast(i) => RecordPast(i)') /\ (SnapPast(i) => SnapPast(i)')
      BY <1>1, <2>2 DEF RecordPast, SnapPast, IsOld
    <2>6. i \notin overtaken' => Earned(i)'
      BY <1>1, <2>2, <2>3, <2>5 DEF Kept, Earned
    <2> QED
      BY <2>4, <2>6 DEF Kept
  <1> QED
    BY <1>2 DEF InstanceInv

\* A collection marks what it finds to be past its time by the age of the file.
LEMMA MarksKept ==
  ASSUME InstanceInv, DirTypeInv', EndGc \/ Stats PROVE InstanceInv'
  <1>1. UNCHANGED <<alive, cold, record, snap, recordDay, snapDay, overtaken, steps>>
    BY DEF EndGc, Stats, stateHistory
  <1>2. ASSUME NEW i \in Instances PROVE Kept(i)'
    <2>1. /\ Kept(i) /\ steps \in Nat /\ recordDay[i] \in Nat /\ snapDay[i] \in Nat
      BY InstanceNumbers DEF InstanceInv
    <2>2. (AgesTold(i) <=> AgesTold(i)') /\ (RecordPast(i) <=> RecordPast(i)') /\ (SnapPast(i) <=> SnapPast(i)')
      BY <1>1 DEF AgesTold, RecordPast, SnapPast, IsOld
    <2>3. i \in doomedRecords' => i \in doomedRecords \/ RecordPast(i)
      <3>1. i \in doomedRecords' => i \in doomedRecords
               \/ (record[i] # Absent /\ (IsOld(record[i], Retention) \/ record[i] >= RecordRetention))
        BY DEF EndGc, Stats, IsPast
      <3> QED
        BY <2>1, <3>1 DEF Kept, AgesTold, RecordPast
    <2>4. i \in doomedSnaps' => i \in doomedSnaps \/ i \notin alive \/ SnapPast(i)
      <3>1. i \in doomedSnaps' => i \in doomedSnaps \/ i \notin alive
               \/ (snap[i] # Absent /\ IsOld(snap[i], Retention))
        BY DEF EndGc, Stats, IsOrphan
      <3> QED
        BY <2>1, <3>1 DEF Kept, AgesTold, SnapPast
    <2> QED
      BY <1>1, <2>1, <2>2, <2>3, <2>4 DEF Kept, Earned
  <1> QED
    BY <1>2 DEF InstanceInv

\* What is marked is removed.
LEMMA RemovalKept ==
  ASSUME InstanceInv, DirTypeInv', RemoveInstanceFiles PROVE InstanceInv'
  <1>1. /\ UNCHANGED <<alive, cold, recordDay, snapDay, overtaken, steps>>
        /\ doomedRecords' = {} /\ doomedSnaps' = {}
    BY DEF RemoveInstanceFiles, stateHistory
  <1>2. ASSUME NEW i \in Instances PROVE Kept(i)'
    <2>1. /\ record'[i] = IF i \in doomedRecords THEN Absent ELSE record[i]
          /\ snap'[i] = IF i \in doomedSnaps THEN Absent ELSE snap[i]
      BY DEF RemoveInstanceFiles
    <2>2. Kept(i) /\ (RecordPast(i) <=> RecordPast(i)') /\ (SnapPast(i) <=> SnapPast(i)')
      BY <1>1 DEF InstanceInv, RecordPast, SnapPast, IsOld
    <2>3. AgesTold(i)'
      BY <1>1, <2>1, <2>2 DEF Kept, AgesTold
    <2>4. i \notin overtaken' => Earned(i)'
      BY <1>1, <2>1, <2>2 DEF Kept, Earned
    <2> QED
      BY <2>3, <2>4 DEF Kept
  <1> QED
    BY <1>2 DEF InstanceInv

\* What an instance writes is new, or it is overtaken.
LEMMA PersistKept ==
  ASSUME InstanceInv, DirTypeInv', NEW i \in Instances, Act(i) \/ Cool(i) \/ Warm(i)
  PROVE  InstanceInv'
  <1>1. /\ UNCHANGED <<alive, steps, doomedRecords, doomedSnaps>>
        /\ record' = [record EXCEPT ![i] = 0] /\ recordDay' = [recordDay EXCEPT ![i] = steps]
        /\ overtaken' = IF i \in doomedRecords \cup doomedSnaps THEN overtaken \cup {i} ELSE overtaken
    BY DEF Act, Cool, Warm, Persist, Overtakes, doomed, stateHistory
  <1>2. \/ UNCHANGED <<cold, snap, snapDay>>
        \/ /\ cold' = cold \cup {i} /\ snap' = [snap EXCEPT ![i] = 0]
           /\ snapDay' = [snapDay EXCEPT ![i] = steps]
        \/ cold' = cold \ {i} /\ snap' = [snap EXCEPT ![i] = Absent] /\ UNCHANGED snapDay
    BY DEF Act, Cool, Warm
  <1>3. ASSUME NEW j \in Instances, j # i PROVE Kept(j)'
    <2>1. /\ record'[j] = record[j] /\ recordDay'[j] = recordDay[j] /\ snap'[j] = snap[j]
          /\ snapDay'[j] = snapDay[j] /\ (j \in cold' <=> j \in cold)
          /\ j \in overtaken' <=> j \in overtaken
      BY <1>1, <1>2, <1>3 DEF InstanceInv, DirTypeInv, DirTypes
    <2> QED
      BY <1>1, <2>1 DEF InstanceInv, Kept, AgesTold, Earned, RecordPast, SnapPast, IsOld
  <1>4. Kept(i)'
    <2>1. record'[i] = 0 /\ recordDay'[i] = steps
      BY <1>1 DEF InstanceInv, DirTypeInv, DirTypes
    <2>2. \/ snap'[i] = snap[i] /\ snapDay'[i] = snapDay[i] /\ (i \in cold' <=> i \in cold)
          \/ snap'[i] = 0 /\ snapDay'[i] = steps
          \/ snap'[i] = Absent /\ snapDay'[i] = snapDay[i] /\ i \notin cold'
      BY <1>2 DEF InstanceInv, DirTypeInv, DirTypes
    <2>3. Kept(i) /\ steps \in Nat
      BY InstanceNumbers DEF InstanceInv
    <2>4. AgesTold(i)'
      BY <1>1, <2>1, <2>2, <2>3, AgesType DEF Kept, AgesTold
    <2>5. ASSUME i \notin overtaken' PROVE Earned(i)'
      <3>1. i \notin overtaken /\ i \notin doomedRecords' /\ i \notin doomedSnaps'
        BY <1>1, <2>5
      <3>2. record'[i] # Absent
        BY <2>1, AgesType
      <3>3. i \in alive' \cap cold' /\ snap'[i] = Absent => SnapPast(i)'
        BY <1>1, <2>2, <2>3, <3>1, AgesType DEF Kept, Earned, SnapPast, IsOld
      <3> QED
        BY <3>1, <3>2, <3>3 DEF Earned
    <2> QED
      BY <2>4, <2>5 DEF Kept
  <1> QED
    BY <1>3, <1>4 DEF InstanceInv

LEMMA NextInstance == InstanceInv /\ [DirNext]_stateDirVars => InstanceInv'
  <1> SUFFICES ASSUME InstanceInv, [DirNext]_stateDirVars PROVE InstanceInv'
    OBVIOUS
  <1>0. DirTypeInv'
    BY NextDirTypes DEF InstanceInv
  <1>1. CASE Days
    BY <1>0, <1>1, DaysKept
  <1>2. CASE EndGc \/ Stats
    BY <1>0, <1>2, MarksKept
  <1>3. CASE RemoveInstanceFiles
    BY <1>0, <1>3, RemovalKept
  <1>4. ASSUME NEW i \in Instances, Act(i) \/ Cool(i) \/ Warm(i) PROVE InstanceInv'
    BY <1>0, <1>4, PersistKept
  <1>5. ASSUME NEW i \in Instances, Die(i) PROVE InstanceInv'
    <2>1. /\ alive' \subseteq alive
          /\ UNCHANGED <<record, snap, recordDay, snapDay, doomedRecords, doomedSnaps, overtaken, steps, cold>>
      BY <1>5 DEF Die, doomed
    <2> QED
      BY <1>0, <2>1, InstancesUntouched
  <1>6. ASSUME NEW s \in Sessions,
               \/ \E f \in Files : MakeDir(s, f)
               \/ CreateTemp(s) \/ RenameFile(s) \/ Touch(s) \/ CrashWriter(s)
               \/ LookAtDir(s) \/ RemoveDir(s) \/ LookAtSnapshot(s) \/ RemoveSnapshot(s)
        PROVE  InstanceInv'
    <2>1. UNCHANGED <<instances, steps>>
      BY <1>6 DEF MakeDir, CreateTemp, RenameFile, Touch, CrashWriter, LookAtDir, RemoveDir,
         LookAtSnapshot, RemoveSnapshot, stateHistory
    <2> QED
      BY <1>0, <2>1, InstancesUntouched DEF instances, doomed
  <1>7. CASE BeginGc \/ NextPhase \/ CrashGc \/ UNCHANGED stateDirVars
    <2>1. UNCHANGED <<instances, steps>>
      BY <1>7 DEF BeginGc, NextPhase, CrashGc, stateDirVars, stateHistory
    <2> QED
      BY <1>0, <2>1, InstancesUntouched DEF instances, doomed
  <1> QED
    BY <1>1, <1>2, <1>3, <1>4, <1>5, <1>6, <1>7 DEF DirNext

LEMMA InitInstance == DirInit => InstanceInv
  <1>1. DirInit => DirTypeInv
    BY InitDirTypes
  <1>2. DirInit => \A i \in Instances : Kept(i)
    BY AgesType DEF DirInit, Kept, AgesTold, Earned
  <1> QED
    BY <1>1, <1>2 DEF InstanceInv

-----------------------------------------------------------------------------
\* The files and the collection keep their types, and nothing is left of a directory that
\* was removed, for any sessions, instances and retentions.
THEOREM DirTypeCorrect == DirSpec => []DirTypeOK
  <1>1. DirTypeInv => DirTypeOK
    BY DEF DirTypeInv, DirTypes, NoTrace, DirTypeOK, WriterLabels, Phases
  <1> QED
    BY <1>1, InitDirTypes, NextDirTypes, PTL DEF DirSpec

\* What was written of a session is there until all of it is old, and no write fails,
\* however many sessions are written and collected at a time and for any retention (Gc).
THEOREM FreshKeptCorrect == DirSpec => []FreshKept
  <1>1. SessionInv => FreshKept
    BY DEF SessionInv, Intact, FreshKept
  <1> QED
    BY <1>1, InitSession, NextSession, PTL DEF DirSpec

\* A living cold instance has its snapshot until it is as old as session state is kept,
\* and a record is there until it is past its retention by the time it was last written,
\* whatever is collected and whenever, for any instances and any retentions; but for what
\* is written between a collection's look and its removal (Gc, PruneInstanceStores,
\* PruneInstances).
THEOREM InstancesKeptCorrect == DirSpec => []InstancesKept
  <1>1. InstanceInv => InstancesKept
    BY DEF InstanceInv, Kept, Earned, RecordPast, SnapPast, InstancesKept, DirTypeInv, DirTypes
  <1> QED
    BY <1>1, InitInstance, NextInstance, PTL DEF DirSpec

\* Of sessions and instances, collections take only what has not been written for its
\* retention, or is an orphan's (Gc, PruneInstanceStores, PruneInstances).
THEOREM FilesKeptCorrect == DirSpec => []FilesKept
  BY FreshKeptCorrect, InstancesKeptCorrect, PTL DEF FilesKept

-----------------------------------------------------------------------------
(* PlanStore: the order of the revision files.                              *)

\* No two of the files have one name.
Apart(files) ==
  \A v, w \in files : v.index = w.index /\ v.isAlteration = w.isAlteration => v = w

\* list is files in the order of their names.
Enumerates(list, files) ==
  /\ \A k \in DOMAIN list : list[k] \in files
  /\ \A v \in files : \E k \in DOMAIN list : list[k] = v
  /\ \A k, l \in DOMAIN list : k < l => IsBefore(list[k], list[l])

LEMMA BeforeOrders ==
  ASSUME NEW files \in SUBSET PlanRevision, Apart(files)
  PROVE  /\ \A v, w \in files : v = w \/ IsBefore(v, w) \/ IsBefore(w, v)
         /\ \A v \in files : ~IsBefore(v, v)
         /\ \A u, v, w \in files : IsBefore(u, v) /\ IsBefore(v, w) => IsBefore(u, w)
<1>1. \A v \in files : v.index \in Nat /\ v.isAlteration \in BOOLEAN
  BY DEF PlanRevision
<1>2. \A v, w \in files : v.index < w.index \/ w.index < v.index \/ v.index = w.index
  BY <1>1
<1>3. \A v, w \in files : v = w \/ IsBefore(v, w) \/ IsBefore(w, v)
  BY <1>1, <1>2 DEF Apart, IsBefore
<1>4. \A v \in files : ~IsBefore(v, v)
  BY <1>1 DEF IsBefore
<1>5. \A u, v, w \in files : IsBefore(u, v) /\ IsBefore(v, w) => IsBefore(u, w)
  BY <1>1 DEF IsBefore
<1> QED
  BY <1>3, <1>4, <1>5

\* The place of a file is the number of files up to it.
LEMMA SortedExists ==
  ASSUME NEW files \in SUBSET PlanRevision, IsFiniteSet(files), Apart(files)
  PROVE  \E list \in [1 .. Cardinality(files) -> files] :
           \A k, l \in DOMAIN list : k < l => IsBefore(list[k], list[l])
<1> DEFINE n == Cardinality(files)
           upTo(v) == {w \in files : ~IsBefore(v, w)}
           rank == [v \in files |-> Cardinality(upTo(v))]
<1>1. n \in Nat
  BY FS_CardinalityType
<1>2. ASSUME NEW v \in files PROVE IsFiniteSet(upTo(v)) /\ rank[v] \in 1 .. n
  <2>1. IsFiniteSet(upTo(v)) /\ Cardinality(upTo(v)) <= n
    BY FS_Subset, upTo(v) \in SUBSET files
  <2>2. v \in upTo(v)
    BY BeforeOrders
  <2>3. Cardinality(upTo(v)) \in Nat /\ Cardinality(upTo(v)) # 0
    BY <2>1, <2>2, FS_CardinalityType, FS_EmptySet
  <2> QED
    BY <1>1, <2>1, <2>3
<1>3. ASSUME NEW v \in files, NEW w \in files, IsBefore(v, w) PROVE rank[v] < rank[w]
  <2>1. upTo(v) \in SUBSET upTo(w) /\ upTo(v) # upTo(w)
    BY <1>3, BeforeOrders
  <2>2. Cardinality(upTo(v)) <= Cardinality(upTo(w)) /\ Cardinality(upTo(v)) # Cardinality(upTo(w))
    BY <1>2, <2>1, FS_Subset
  <2>3. Cardinality(upTo(v)) \in Nat /\ Cardinality(upTo(w)) \in Nat
    BY <1>2, FS_CardinalityType
  <2> QED
    BY <2>2, <2>3
<1>4. rank \in [files -> 1 .. n]
  BY <1>2
<1>5. \A v, w \in files : rank[v] = rank[w] => v = w
  <2> SUFFICES ASSUME NEW v \in files, NEW w \in files, rank[v] = rank[w], v # w PROVE FALSE
    OBVIOUS
  <2>1. rank[v] < rank[w] \/ rank[w] < rank[v]
    BY <1>3, BeforeOrders
  <2> HIDE DEF rank
  <2> QED
    BY <2>1, <1>4
<1> HIDE DEF rank
<1>6. rank \in Injection(files, 1 .. n)
  BY <1>4, <1>5 DEF Injection, IsInjective
<1>7. IsFiniteSet(1 .. n) /\ Cardinality(1 .. n) = n
  BY <1>1, FS_Interval
<1>8. rank \in Surjection(files, 1 .. n)
  BY <1>6, <1>7, FS_Injection
<1>9. \A k \in 1 .. n : \E v \in files : rank[v] = k
  BY <1>8 DEF Surjection
<1> DEFINE list == [k \in 1 .. n |-> CHOOSE v \in files : rank[v] = k]
<1>10. \A k \in 1 .. n : list[k] \in files /\ rank[list[k]] = k
  BY <1>9
<1>11. \A k, l \in 1 .. n : k < l => IsBefore(list[k], list[l])
  <2> SUFFICES ASSUME NEW k \in 1 .. n, NEW l \in 1 .. n, k < l PROVE IsBefore(list[k], list[l])
    OBVIOUS
  <2>1. list[k] \in files /\ rank[list[k]] = k /\ list[l] \in files /\ rank[list[l]] = l
    BY <1>10
  <2> HIDE DEF list
  <2>2. list[k] # list[l] /\ ~IsBefore(list[l], list[k])
    BY <2>1, <1>3, <1>1
  <2> QED
    BY <2>1, <2>2, BeforeOrders
<1>12. list \in [1 .. n -> files] /\ DOMAIN list = 1 .. n
  BY <1>10
<1> QED
  BY <1>11, <1>12

LEMMA SortedIs ==
  ASSUME NEW files \in SUBSET PlanRevision, IsFiniteSet(files), Apart(files)
  PROVE  /\ Sorted(files) \in [1 .. Cardinality(files) -> files]
         /\ Sorted(files) \in Seq(PlanRevision) /\ Len(Sorted(files)) = Cardinality(files)
         /\ Enumerates(Sorted(files), files)
<1> DEFINE n == Cardinality(files)
           list == Sorted(files)
<1>1. n \in Nat
  BY FS_CardinalityType
<1>2. list \in [1 .. n -> files] /\ \A k, l \in DOMAIN list : k < l => IsBefore(list[k], list[l])
  BY SortedExists DEF Sorted
<1> HIDE DEF list
<1>3. \A k, l \in 1 .. n : list[k] = list[l] => k = l
  <2> SUFFICES ASSUME NEW k \in 1 .. n, NEW l \in 1 .. n, list[k] = list[l], k # l PROVE FALSE
    OBVIOUS
  <2>1. k < l \/ l < k
    BY <1>1
  <2>2. IsBefore(list[k], list[l]) \/ IsBefore(list[l], list[k])
    BY <1>2, <2>1
  <2> QED
    BY <1>2, <2>2, BeforeOrders
<1>4. list \in Injection(1 .. n, files)
  BY <1>2, <1>3 DEF Injection, IsInjective
<1>5. Cardinality(1 .. n) = n
  BY <1>1, FS_Interval
<1>6. list \in Surjection(1 .. n, files)
  BY <1>4, <1>5, FS_Injection
<1>7. \A v \in files : \E k \in 1 .. n : list[k] = v
  BY <1>6 DEF Surjection
<1>8. Enumerates(list, files)
  BY <1>2, <1>7 DEF Enumerates
<1>9. list \in Seq(PlanRevision) /\ Len(list) = n
  BY <1>1, <1>2
<1> QED
  BY <1>2, <1>8, <1>9 DEF list

LEMMA FirstPlace ==
  ASSUME NEW places \in SUBSET Nat, places # {}
  PROVE  \E m \in places : \A n \in places : m <= n
<1>1. PICK m \in places : \A n \in places : ~ (<<n, m>> \in OpToRel(<, Nat))
  BY NatLessThanWellFounded, WFMin, Zenon
<1>2. \A n \in places : ~(n < m)
  BY <1>1 DEF OpToRel
<1> QED
  BY <1>2

\* There is one way to list them in order.
LEMMA SortedUnique ==
  ASSUME NEW files \in SUBSET PlanRevision, IsFiniteSet(files), Apart(files),
         NEW list \in Seq(PlanRevision), Enumerates(list, files)
  PROVE  list = Sorted(files)
<1> DEFINE n == Cardinality(files)
           sorted == Sorted(files)
<1>1. n \in Nat
  BY FS_CardinalityType
<1>2. sorted \in [1 .. n -> files] /\ Enumerates(sorted, files) /\ DOMAIN sorted = 1 .. n
  BY SortedIs
<1>3. DOMAIN list = 1 .. Len(list) /\ Len(list) \in Nat
  OBVIOUS
<1>4. list \in [1 .. Len(list) -> files]
  BY <1>3 DEF Enumerates
<1>5. \A k, l \in 1 .. Len(list) : list[k] = list[l] => k = l
  <2> SUFFICES ASSUME NEW k \in 1 .. Len(list), NEW l \in 1 .. Len(list), list[k] = list[l], k # l PROVE FALSE
    OBVIOUS
  <2>1. k < l \/ l < k
    BY <1>3
  <2>2. IsBefore(list[k], list[l]) \/ IsBefore(list[l], list[k])
    BY <1>3, <2>1 DEF Enumerates
  <2> QED
    BY <1>4, <2>2, BeforeOrders
<1>6. Len(list) = n
  <2>1. list \in Injection(1 .. Len(list), files)
    BY <1>4, <1>5 DEF Injection, IsInjective
  <2>2. list \in Surjection(1 .. Len(list), files)
    BY <1>3, <1>4 DEF Surjection, Enumerates
  <2>3. Cardinality(1 .. Len(list)) = Len(list)
    BY <1>3, FS_Interval
  <2> QED
    BY <2>1, <2>2, <2>3, FS_Injection
<1> HIDE DEF sorted, n
<1>7. \A k \in 1 .. n : list[k] = sorted[k]
  <2> DEFINE wrong == {k \in 1 .. n : list[k] # sorted[k]}
  <2> SUFFICES ASSUME wrong # {} PROVE FALSE
    OBVIOUS
  <2>1. wrong \subseteq Nat
    BY <1>1
  <2>2. PICK k \in wrong : \A j \in wrong : k <= j
    BY <2>1, FirstPlace
  <2>3. k \in 1 .. n /\ list[k] # sorted[k]
    BY <2>2
  <2>4. \A j \in 1 .. n : j < k => list[j] = sorted[j]
    BY <2>2, <1>1
  <2>5. list[k] \in files /\ sorted[k] \in files
    BY <2>3, <1>2, <1>4, <1>6
  <2>6. PICK j \in 1 .. n : sorted[j] = list[k]
    BY <2>5, <1>2 DEF Enumerates
  <2>7. PICK m \in 1 .. n : list[m] = sorted[k]
    BY <2>5, <1>3, <1>6 DEF Enumerates
  <2>8. j # k /\ m # k
    BY <2>3, <2>6, <2>7
  <2>9. ~(j < k)
    <3> SUFFICES ASSUME j < k PROVE FALSE
      OBVIOUS
    <3>1. list[j] = list[k]
      BY <2>4, <2>6
    <3> QED
      BY <3>1, <1>5, <1>6, <2>3, <2>8
  <2>10. ~(m < k)
    <3> SUFFICES ASSUME m < k PROVE FALSE
      OBVIOUS
    <3>1. sorted[m] = sorted[k]
      BY <2>4, <2>7
    <3>2. IsBefore(sorted[m], sorted[k])
      BY <1>2, <2>3 DEF Enumerates
    <3> QED
      BY <3>1, <3>2, <2>5, BeforeOrders
  <2>11. k < j /\ k < m
    BY <2>3, <2>8, <2>9, <2>10, <1>1
  <2>12. IsBefore(sorted[k], sorted[j]) /\ IsBefore(list[k], list[m])
    BY <2>11, <2>3, <1>2, <1>3, <1>6 DEF Enumerates
  <2> QED
    BY <2>12, <2>5, <2>6, <2>7, BeforeOrders
<1> QED
  BY <1>2, <1>3, <1>4, <1>6, <1>7 DEF sorted

-----------------------------------------------------------------------------
(* PlanStore: types.                                                        *)

PlanLines == [text : Text, isExit : BOOLEAN, timestamp : Nat]

PlanSessions ==
  [content : Text, revisions : Seq(PlanRevision), announced : Seq(Nat), alterations : Nat,
   path : {"none", "reported", "worktree"}, planExitSeen : BOOLEAN, isKnown : BOOLEAN]

PlanChanges ==
  [step : {"idle", "hydrate", "sync", "adopt", "record", "latest"},
   by : {"none", "transcript", "planWatcher"}, text : Text, known : Text, timestamp : Nat]

PlanFiles ==
  /\ plan \in Text /\ latest \in Text /\ clock \in Nat /\ torn \in BOOLEAN
  /\ transcript \in Seq(PlanLines)
  /\ versions \in SUBSET PlanRevision /\ IsFiniteSet(versions) /\ Apart(versions)

StoreOK(i) ==
  /\ offset[i] <= Len(transcript)
  /\ op[i].step = "idle" => op[i] = Idle
  /\ ~session[i].isKnown => session[i] = NoPlanSession /\ op[i] = Idle /\ offset[i] = 0

PlanTypes ==
  /\ PlanFiles
  /\ session \in [Stores -> PlanSessions] /\ op \in [Stores -> PlanChanges]
  /\ offset \in [Stores -> Nat] /\ inHand \in [Stores -> Text] /\ noticed \in [Stores -> BOOLEAN]
  /\ \A i \in Stores : StoreOK(i)

LEMMA PlanTypesAre == PlanTypes => PlanTypeOK
<1> SUFFICES ASSUME PlanTypes PROVE PlanTypeOK
  OBVIOUS
<1>1. /\ plan \in Text /\ latest \in Text /\ clock \in Nat /\ torn \in BOOLEAN
      /\ transcript \in Seq([text : Text, isExit : BOOLEAN, timestamp : Nat])
      /\ versions \subseteq PlanRevision
      /\ \A v, w \in versions :
           v.index = w.index /\ v.isAlteration = w.isAlteration => v = w
  BY DEF PlanTypes, PlanFiles, PlanLines, Apart
<1>2. ASSUME NEW i \in Stores
      PROVE  /\ session[i].content \in Text /\ session[i].alterations \in Nat
             /\ session[i].revisions \in Seq(PlanRevision) /\ session[i].announced \in Seq(Nat)
             /\ session[i].path \in {"none", "reported", "worktree"}
             /\ session[i].planExitSeen \in BOOLEAN /\ session[i].isKnown \in BOOLEAN
             /\ ~session[i].isKnown => session[i] = NoPlanSession
             /\ offset[i] \in 0 .. Len(transcript) /\ inHand[i] \in Text
             /\ op[i].step \in {"idle", "hydrate", "sync", "adopt", "record", "latest"}
             /\ op[i].step = "idle" => op[i] = Idle
  <2>1. session[i] \in PlanSessions /\ op[i] \in PlanChanges /\ StoreOK(i) /\ offset[i] \in Nat /\ inHand[i] \in Text
    BY DEF PlanTypes
  <2>2. Len(transcript) \in Nat
    BY <1>1
  <2> QED
    BY <2>1, <2>2 DEF PlanSessions, PlanChanges, StoreOK
<1> QED
  BY <1>1, <1>2 DEF PlanTypeOK, PlanTypes

LEMMA NothingIsTyped ==
  NoPlanSession \in PlanSessions /\ Idle \in PlanChanges /\ Idle.step = "idle"
    /\ NoText \in Text /\ ~NoPlanSession.isKnown
BY DEF NoPlanSession, PlanSessions, Idle, PlanChanges, Text

LEMMA InitPlanTypes == PlanInit => PlanTypes
<1> SUFFICES ASSUME PlanInit PROVE PlanTypes
  OBVIOUS
<1>1. PlanFiles
  <2>1. versions = {} /\ transcript = <<>>
    BY DEF PlanInit
  <2>2. versions \in SUBSET PlanRevision /\ IsFiniteSet(versions) /\ Apart(versions)
    BY <2>1, FS_EmptySet DEF Apart
  <2>3. transcript \in Seq(PlanLines)
    BY <2>1
  <2>4. plan \in Text /\ latest \in Text /\ clock \in Nat /\ torn \in BOOLEAN
    BY DEF PlanInit, Text
  <2> QED
    BY <2>2, <2>3, <2>4 DEF PlanFiles
<1>2. \A i \in Stores : StoreOK(i)
  BY DEF PlanInit, StoreOK
<1> QED
  BY <1>1, <1>2, NothingIsTyped DEF PlanInit, PlanTypes

\* A step of one store that leaves the transcript.
LEMMA OthersTyped ==
  ASSUME PlanTypes, NEW i \in Stores, UNCHANGED transcript, PlanFiles',
         NEW s \in PlanSessions, session' = [session EXCEPT ![i] = s],
         NEW change \in PlanChanges, op' = [op EXCEPT ![i] = change],
         NEW read \in Nat, offset' = [offset EXCEPT ![i] = read], read <= Len(transcript),
         inHand' \in [Stores -> Text], noticed' \in [Stores -> BOOLEAN],
         change.step = "idle" => change = Idle,
         ~s.isKnown => s = NoPlanSession /\ change = Idle /\ read = 0
  PROVE  PlanTypes'
<1>1. ASSUME NEW j \in Stores PROVE StoreOK(j)'
  <2>1. CASE j = i
    BY <2>1 DEF PlanTypes, StoreOK
  <2>2. CASE j # i
    <3>1. session'[j] = session[j] /\ op'[j] = op[j] /\ offset'[j] = offset[j]
      BY <2>2 DEF PlanTypes
    <3> QED
      BY <3>1 DEF PlanTypes, StoreOK
  <2> QED
    BY <2>1, <2>2
<1> QED
  BY <1>1 DEF PlanTypes

LEMMA StoreTyped ==
  ASSUME PlanTypes, NEW i \in Stores
  PROVE  /\ session[i] \in PlanSessions /\ op[i] \in PlanChanges /\ StoreOK(i)
         /\ offset[i] \in Nat /\ inHand[i] \in Text /\ noticed[i] \in BOOLEAN
         /\ session[i].revisions \in Seq(PlanRevision) /\ session[i].content \in Text
         /\ op[i].text \in Text /\ op[i].timestamp \in Nat /\ op[i].known \in Text
         /\ Len(session[i].revisions) \in Nat
<1>1. session[i] \in PlanSessions /\ op[i] \in PlanChanges /\ StoreOK(i)
      /\ offset[i] \in Nat /\ inHand[i] \in Text /\ noticed[i] \in BOOLEAN
  BY DEF PlanTypes
<1>2. session[i].revisions \in Seq(PlanRevision) /\ session[i].content \in Text
  BY <1>1 DEF PlanSessions
<1>3. op[i].text \in Text /\ op[i].timestamp \in Nat /\ op[i].known \in Text
  BY <1>1 DEF PlanChanges
<1> QED
  BY <1>1, <1>2, <1>3

\* What SetPlanContent makes of the store.
LEMMA SetPlanContentIs ==
  ASSUME PlanTypes, NEW i \in Stores, NEW s \in PlanSessions, s.isKnown,
         NEW text \in Text, NEW timestamp \in Nat, NEW by \in {"transcript", "planWatcher"},
         op[i].step = "idle", SetPlanContent(i, s, text, timestamp, by)
  PROVE  \E t \in PlanSessions, change \in PlanChanges :
           /\ session' = [session EXCEPT ![i] = t] /\ op' = [op EXCEPT ![i] = change]
           /\ t.revisions = s.revisions /\ t.announced = s.announced
           /\ t.alterations = s.alterations /\ t.isKnown /\ t.path = s.path
           /\ \/ t = s /\ text \in {NoText, s.content} /\ change = Idle
              \/ t.content = text /\ text # NoText /\ change = Idle /\ IsPlanReplay(s, timestamp)
              \/ /\ t = s /\ text \notin {NoText, s.content} /\ ~IsPlanReplay(s, timestamp)
                 /\ change.step = "sync" /\ change.text = text /\ change.timestamp = timestamp
<1> DEFINE t == [s EXCEPT !.content = text]
           change == [step |-> "sync", by |-> by, text |-> text, known |-> NoText, timestamp |-> timestamp]
<1>1. op = [op EXCEPT ![i] = Idle] /\ Idle \in PlanChanges
  BY StoreTyped, NothingIsTyped DEF PlanTypes, StoreOK
<1>2. /\ t \in PlanSessions /\ t.content = text
      /\ t.revisions = s.revisions /\ t.announced = s.announced
      /\ t.alterations = s.alterations /\ t.isKnown /\ t.path = s.path
  BY DEF PlanSessions
<1>3. change \in PlanChanges /\ change.step = "sync" /\ change.text = text /\ change.timestamp = timestamp
  BY DEF PlanChanges, Text
<1>4. \/ text \in {NoText, s.content} /\ session' = [session EXCEPT ![i] = s] /\ op' = op
      \/ text # NoText /\ IsPlanReplay(s, timestamp) /\ session' = [session EXCEPT ![i] = t] /\ op' = op
      \/ text \notin {NoText, s.content} /\ ~IsPlanReplay(s, timestamp)
         /\ session' = [session EXCEPT ![i] = s] /\ op' = [op EXCEPT ![i] = change]
  BY DEF SetPlanContent
<1> HIDE DEF t, change
<1>5. CASE text \in {NoText, s.content} /\ session' = [session EXCEPT ![i] = s] /\ op' = op
  BY <1>1, <1>5
<1>6. CASE text # NoText /\ IsPlanReplay(s, timestamp) /\ session' = [session EXCEPT ![i] = t] /\ op' = op
  BY <1>1, <1>2, <1>6
<1>7. CASE text \notin {NoText, s.content} /\ ~IsPlanReplay(s, timestamp)
           /\ session' = [session EXCEPT ![i] = s] /\ op' = [op EXCEPT ![i] = change]
  BY <1>3, <1>7
<1> QED
  BY <1>4, <1>5, <1>6, <1>7

LEMMA SetPlanContentTyped ==
  ASSUME PlanTypes, NEW i \in Stores, NEW s \in PlanSessions, s.isKnown,
         NEW text \in Text, NEW timestamp \in Nat, NEW by \in {"transcript", "planWatcher"},
         op[i].step = "idle", SetPlanContent(i, s, text, timestamp, by),
         UNCHANGED transcript, PlanFiles',
         NEW read \in Nat, offset' = [offset EXCEPT ![i] = read], read <= Len(transcript),
         inHand' \in [Stores -> Text], noticed' \in [Stores -> BOOLEAN]
  PROVE  PlanTypes'
<1>1. PICK t \in PlanSessions, change \in PlanChanges :
        /\ session' = [session EXCEPT ![i] = t] /\ op' = [op EXCEPT ![i] = change]
        /\ t.isKnown /\ (change.step = "idle" => change = Idle)
  BY SetPlanContentIs
<1> QED
  BY <1>1, OthersTyped
-----------------------------------------------------------------------------
(* PlanStore: every step keeps the types, whatever the number of stores.    *)

\* What a step of one store leaves alone stays as typed.
LEMMA SameTyped ==
  ASSUME PlanTypes, NEW i \in Stores
  PROVE  /\ session = [session EXCEPT ![i] = session[i]] /\ op = [op EXCEPT ![i] = op[i]]
         /\ offset = [offset EXCEPT ![i] = offset[i]] /\ offset[i] <= Len(transcript)
BY DEF PlanTypes, StoreOK

LEMMA EditPlanTyped == ASSUME PlanTypes, EditPlan PROVE PlanTypes'
<1>1. PlanFiles'
  BY DEF PlanTypes, PlanFiles, EditPlan, disk, Apart, Text
<1>2. noticed' \in [Stores -> BOOLEAN]
  BY DEF PlanTypes, EditPlan
<1>3. UNCHANGED <<session, offset, inHand, op, transcript>>
  BY DEF EditPlan
<1>4. \A i \in Stores : StoreOK(i)'
  BY <1>3 DEF PlanTypes, StoreOK
<1> QED
  BY <1>1, <1>2, <1>3, <1>4 DEF PlanTypes

LEMMA WriteLineTyped == ASSUME PlanTypes, WriteLine PROVE PlanTypes'
<1>1. PICK text \in {NoText, plan}, isExit \in BOOLEAN :
        transcript' = Append(transcript, [text |-> text, isExit |-> isExit, timestamp |-> clock'])
  BY DEF WriteLine
<1>2. clock' \in Nat /\ transcript \in Seq(PlanLines) /\ NoText \in Text /\ plan \in Text
  BY DEF WriteLine, PlanTypes, PlanFiles, Text
<1>3. [text |-> text, isExit |-> isExit, timestamp |-> clock'] \in PlanLines
  BY <1>2 DEF PlanLines
<1>4. transcript' \in Seq(PlanLines) /\ Len(transcript') = Len(transcript) + 1
  BY <1>1, <1>2, <1>3
<1>5. UNCHANGED <<plan, versions, latest, torn, session, offset, noticed, inHand, op>>
  BY DEF WriteLine, disk, reader
<1>6. PlanFiles'
  BY <1>2, <1>4, <1>5 DEF PlanTypes, PlanFiles, Apart
<1>7. \A i \in Stores : StoreOK(i)'
  <2>1. Len(transcript) \in Nat
    BY <1>2
  <2> QED
    BY <1>4, <1>5, <2>1 DEF PlanTypes, StoreOK
<1> QED
  BY <1>5, <1>6, <1>7 DEF PlanTypes

LEMMA VersionsSorted ==
  ASSUME PlanFiles
  PROVE  /\ ReadPlanVersions \in Seq(PlanRevision) /\ Enumerates(ReadPlanVersions, versions)
         /\ Len(ReadPlanVersions) = Cardinality(versions)
BY SortedIs DEF PlanFiles, ReadPlanVersions

LEMMA AlterationsCount ==
  ASSUME NEW revisions \in Seq(PlanRevision) PROVE Alterations(revisions) \in Nat
<1>1. IsFiniteSet({k \in DOMAIN revisions : revisions[k].isAlteration})
  <2>1. DOMAIN revisions = 1 .. Len(revisions) /\ Len(revisions) \in Nat
    OBVIOUS
  <2>2. IsFiniteSet(1 .. Len(revisions))
    BY <2>1, FS_Interval
  <2> QED
    BY <2>1, <2>2, FS_Subset, {k \in DOMAIN revisions : revisions[k].isAlteration} \in SUBSET (1 .. Len(revisions))
<1> QED
  BY <1>1, FS_CardinalityType DEF Alterations

LEMMA HydrateTyped == ASSUME PlanTypes, NEW i \in Stores, Hydrate(i) PROVE PlanTypes'
<1> DEFINE s == [session[i] EXCEPT !.isKnown = TRUE, !.revisions = ReadPlanVersions,
                                   !.alterations = Alterations(ReadPlanVersions)]
<1>1. PlanFiles' /\ UNCHANGED <<transcript, offset, inHand, noticed>>
  BY DEF Hydrate, PlanTypes, PlanFiles, agentFiles, disk, reader, Apart
<1>2. s \in PlanSessions /\ s.isKnown
  <2>1. ReadPlanVersions \in Seq(PlanRevision) /\ Alterations(ReadPlanVersions) \in Nat
    BY VersionsSorted, AlterationsCount DEF PlanTypes
  <2>2. session[i] \in PlanSessions
    BY StoreTyped
  <2> HIDE DEF s
  <2>3. s = [session[i] EXCEPT !.isKnown = TRUE, !.revisions = ReadPlanVersions,
                               !.alterations = Alterations(ReadPlanVersions)]
    BY DEF s
  <2> QED
    BY <2>1, <2>2, <2>3 DEF PlanSessions
<1>3. session' = [session EXCEPT ![i] = s]
  <2>1. session' = [session EXCEPT ![i].isKnown = TRUE, ![i].revisions = ReadPlanVersions,
                                   ![i].alterations = Alterations(ReadPlanVersions)]
    BY DEF Hydrate
  <2> QED
    BY <2>1 DEF PlanTypes
<1> HIDE DEF s
<1>4. PICK change \in PlanChanges : op' = [op EXCEPT ![i] = change] /\ (change.step = "idle" => change = Idle)
  <2>1. CASE versions = {}
    BY <2>1, StoreTyped, SameTyped DEF Hydrate, StoreOK
  <2>2. CASE versions # {}
    <3>1. op' = [op EXCEPT ![i].step = "hydrate"]
      BY <2>2 DEF Hydrate, PlanGoto
    <3>2. [op[i] EXCEPT !.step = "hydrate"] \in PlanChanges /\ [op[i] EXCEPT !.step = "hydrate"].step = "hydrate"
      BY StoreTyped DEF PlanChanges
    <3> QED
      BY <3>1, <3>2 DEF PlanTypes
  <2> QED
    BY <2>1, <2>2
<1>5. inHand' \in [Stores -> Text] /\ noticed' \in [Stores -> BOOLEAN]
  BY <1>1 DEF PlanTypes
<1> QED
  BY <1>1, <1>2, <1>3, <1>4, <1>5, OthersTyped, SameTyped, StoreTyped

LEMMA HydrateLatestTyped == ASSUME PlanTypes, NEW i \in Stores, HydrateLatest(i) PROVE PlanTypes'
<1> DEFINE s == [session[i] EXCEPT !.content = latest]
<1>1. PlanFiles' /\ UNCHANGED <<transcript, offset, inHand, noticed>>
  BY DEF HydrateLatest, PlanTypes, PlanFiles, agentFiles, disk, reader, Apart
<1>2. s \in PlanSessions /\ s.isKnown
  <2>1. session[i] \in PlanSessions /\ StoreOK(i) /\ latest \in Text /\ op[i].step = "hydrate"
    BY StoreTyped DEF HydrateLatest, PlanTypes, PlanFiles
  <2>2. session[i].isKnown
    BY <2>1, NothingIsTyped DEF StoreOK
  <2> QED
    BY <2>1, <2>2 DEF PlanSessions
<1>3. session' = [session EXCEPT ![i] = s] /\ op' = [op EXCEPT ![i] = Idle]
  BY DEF HydrateLatest, PlanTypes
<1> HIDE DEF s
<1>4. inHand' \in [Stores -> Text] /\ noticed' \in [Stores -> BOOLEAN]
  BY <1>1 DEF PlanTypes
<1> QED
  BY <1>1, <1>2, <1>3, <1>4, OthersTyped, SameTyped, StoreTyped, NothingIsTyped

LEMMA ReadLineTyped == ASSUME PlanTypes, NEW i \in Stores, ReadLine(i) PROVE PlanTypes'
<1> DEFINE line == transcript[offset[i] + 1]
           isInWorktree == line.text = NoText /\ InWorktree /\ plan # NoText
           s == Follow(session[i], IF isInWorktree THEN "worktree" ELSE "reported", line.isExit)
           text == IF line.text = NoText THEN plan ELSE line.text
<1>1. PlanFiles' /\ UNCHANGED <<transcript, inHand, noticed>>
  BY DEF ReadLine, PlanTypes, PlanFiles, agentFiles, disk, Apart
<1>2. offset[i] \in Nat /\ offset[i] + 1 <= Len(transcript) /\ line \in PlanLines
  BY StoreTyped DEF ReadLine, PlanTypes, PlanFiles
<1>3. text \in Text /\ line.timestamp \in Nat /\ line.isExit \in BOOLEAN
  BY <1>2 DEF PlanLines, PlanTypes, PlanFiles
<1>4. s \in PlanSessions /\ s.isKnown
  BY <1>3, StoreTyped DEF Follow, PlanSessions, ReadLine
<1>5. op[i].step = "idle" /\ SetPlanContent(i, s, text, line.timestamp, "transcript")
      /\ offset' = [offset EXCEPT ![i] = offset[i] + 1]
  BY DEF ReadLine, PlanTypes
<1> HIDE DEF s, text
<1>6. inHand' \in [Stores -> Text] /\ noticed' \in [Stores -> BOOLEAN]
  BY <1>1 DEF PlanTypes
<1>7. offset[i] + 1 \in Nat
  BY <1>2
<1> DEFINE read == offset[i] + 1
           timestamp == line.timestamp
<1>8. /\ text \in Text /\ timestamp \in Nat /\ s \in PlanSessions /\ s.isKnown
      /\ SetPlanContent(i, s, text, timestamp, "transcript") /\ read \in Nat
      /\ offset' = [offset EXCEPT ![i] = read] /\ read <= Len(transcript)
  BY <1>2, <1>3, <1>4, <1>5, <1>7
<1> HIDE DEF read, timestamp
<1> QED
  BY <1>1, <1>5, <1>6, <1>8, SetPlanContentTyped

LEMMA SyncTyped == ASSUME PlanTypes, NEW i \in Stores, Sync(i) PROVE PlanTypes'
<1>1. PlanFiles' /\ UNCHANGED <<transcript, session, offset, inHand, noticed>>
  BY DEF Sync, PlanTypes, PlanFiles, agentFiles, disk, reader, Apart
<1>2. PICK change \in PlanChanges : op' = [op EXCEPT ![i] = change] /\ change.step # "idle"
  <2>1. latest \in Text /\ op[i] \in PlanChanges /\ op \in [Stores -> PlanChanges]
    BY DEF PlanTypes, PlanFiles
  <2>2. CASE op' = [op EXCEPT ![i].step = "adopt", ![i].known = latest]
    <3>1. [op[i] EXCEPT !.step = "adopt", !.known = latest] \in PlanChanges
          /\ [op[i] EXCEPT !.step = "adopt", !.known = latest].step = "adopt"
      BY <2>1 DEF PlanChanges
    <3> QED
      BY <2>1, <2>2, <3>1
  <2>3. CASE op' = [op EXCEPT ![i].step = "record"]
    <3>1. [op[i] EXCEPT !.step = "record"] \in PlanChanges /\ [op[i] EXCEPT !.step = "record"].step = "record"
      BY <2>1 DEF PlanChanges
    <3> QED
      BY <2>1, <2>3, <3>1
  <2> QED
    BY <2>2, <2>3 DEF Sync, PlanGoto
<1>3. session[i].isKnown
  BY StoreTyped, NothingIsTyped DEF StoreOK, Sync
<1>4. inHand' \in [Stores -> Text] /\ noticed' \in [Stores -> BOOLEAN]
  BY <1>1 DEF PlanTypes
<1> QED
  BY <1>1, <1>2, <1>3, <1>4, OthersTyped, SameTyped, StoreTyped

LEMMA SubsetSorted ==
  ASSUME PlanFiles, NEW some \in SUBSET versions
  PROVE  Sorted(some) \in Seq(PlanRevision) /\ Indexes(Sorted(some)) \in Seq(Nat)
         /\ Enumerates(Sorted(some), some) /\ (some = {} => Sorted(some) = <<>>)
<1>1. some \in SUBSET PlanRevision /\ IsFiniteSet(some) /\ Apart(some)
  BY FS_Subset DEF PlanFiles, Apart
<1>2. Sorted(some) \in Seq(PlanRevision) /\ Enumerates(Sorted(some), some)
      /\ Len(Sorted(some)) = Cardinality(some)
  BY <1>1, SortedIs
<1>3. Indexes(Sorted(some)) \in Seq(Nat)
  <2>1. \A k \in 1 .. Len(Sorted(some)) : Sorted(some)[k].index \in Nat
    <3> SUFFICES ASSUME NEW k \in 1 .. Len(Sorted(some)) PROVE Sorted(some)[k].index \in Nat
      OBVIOUS
    <3>1. Sorted(some)[k] \in PlanRevision
      BY <1>2
    <3> QED
      BY <3>1 DEF PlanRevision
  <2>2. DOMAIN Sorted(some) = 1 .. Len(Sorted(some)) /\ Len(Sorted(some)) \in Nat
    BY <1>2
  <2> QED
    BY <2>1, <2>2 DEF Indexes
<1>4. some = {} => Sorted(some) = <<>>
  BY <1>2, FS_EmptySet
<1> QED
  BY <1>2, <1>3, <1>4

LEMMA AdoptTyped == ASSUME PlanTypes, NEW i \in Stores, Adopt(i) PROVE PlanTypes'
<1> DEFINE new == {v \in versions : IsNew(v, session[i].revisions)}
           adopted == Sorted(new)
           names == Indexes(Sorted({v \in new : v.index > 0}))
           s == [session[i] EXCEPT
                   !.content = op[i].known,
                   !.revisions = @ \o adopted,
                   !.alterations = @ + Alterations(adopted),
                   !.announced = @ \o names]
<1>1. PlanFiles' /\ UNCHANGED <<transcript, offset, inHand, noticed>>
  BY DEF Adopt, PlanTypes, PlanFiles, agentFiles, disk, reader, Apart
<1>2. adopted \in Seq(PlanRevision) /\ names \in Seq(Nat) /\ Alterations(adopted) \in Nat
  <2>1. PlanFiles /\ new \in SUBSET versions /\ {v \in new : v.index > 0} \in SUBSET versions
    BY DEF PlanTypes
  <2> QED
    BY <2>1, SubsetSorted, AlterationsCount
<1>3. session' = [session EXCEPT ![i] = s]
  BY DEF Adopt
<1> HIDE DEF adopted, names, new
<1>4. session[i].isKnown
  BY StoreTyped, NothingIsTyped DEF StoreOK, Adopt
<1>5. s \in PlanSessions /\ s.isKnown
  <2>1. session[i] \in PlanSessions /\ op[i].known \in Text
    BY StoreTyped
  <2>2. /\ session[i].revisions \o adopted \in Seq(PlanRevision)
        /\ session[i].announced \o names \in Seq(Nat)
        /\ session[i].alterations + Alterations(adopted) \in Nat
    BY <1>2, <2>1 DEF PlanSessions
  <2> HIDE DEF s
  <2>3. s = [session[i] EXCEPT !.content = op[i].known,
                               !.revisions = session[i].revisions \o adopted,
                               !.alterations = session[i].alterations + Alterations(adopted),
                               !.announced = session[i].announced \o names]
    BY <2>1 DEF s, PlanSessions
  <2> QED
    BY <1>4, <2>1, <2>2, <2>3 DEF PlanSessions
<1> HIDE DEF s
<1>6. PICK change \in PlanChanges : op' = [op EXCEPT ![i] = change] /\ (change.step = "idle" => change = Idle)
  <2>1. CASE op' = [op EXCEPT ![i] = Idle]
    BY <2>1, NothingIsTyped
  <2>2. CASE op' = [op EXCEPT ![i].step = "record"]
    <3>1. [op[i] EXCEPT !.step = "record"] \in PlanChanges /\ [op[i] EXCEPT !.step = "record"].step = "record"
      BY StoreTyped DEF PlanChanges
    <3> QED
      BY <2>2, <3>1 DEF PlanTypes
  <2> QED
    BY <2>1, <2>2 DEF Adopt, PlanGoto
<1>7. inHand' \in [Stores -> Text] /\ noticed' \in [Stores -> BOOLEAN]
  BY <1>1 DEF PlanTypes
<1> QED
  BY <1>1, <1>3, <1>5, <1>6, <1>7, OthersTyped, SameTyped, StoreTyped

LEMMA NewRevisionTyped ==
  ASSUME NEW s \in PlanSessions, NEW text \in Text, NEW timestamp \in Nat
  PROVE  /\ NextPlanIndex(s.revisions) \in Nat
         /\ NewRevision(s, text, timestamp) \in PlanRevision
         /\ NewRevision(s, text, timestamp).to = text
         /\ NewRevision(s, text, timestamp).timestamp = timestamp
<1>1. s.revisions \in Seq(PlanRevision) /\ s.content \in Text /\ s.planExitSeen \in BOOLEAN
  BY DEF PlanSessions
<1>2. NextPlanIndex(s.revisions) \in Nat
  <2>1. CASE s.revisions = <<>>
    BY <2>1 DEF NextPlanIndex
  <2>2. CASE s.revisions # <<>>
    <3>1. Last(s.revisions) \in PlanRevision
      BY <1>1, <2>2 DEF Last
    <3> QED
      BY <2>2, <3>1 DEF NextPlanIndex, PlanRevision
  <2> QED
    BY <2>1, <2>2
<1> QED
  BY <1>1, <1>2 DEF NewRevision, PlanRevision, Text

\* What Record makes of the session.
Recorded(s, revision) ==
  [s EXCEPT
     !.content = revision.to,
     !.revisions = IF IsKept(s) THEN Append(@, revision) ELSE @,
     !.alterations = @ + IF revision.isAlteration THEN 1 ELSE 0,
     !.announced = IF s.content = NoText THEN @ ELSE Append(@, revision.index)]

LEMMA RecordedTyped ==
  ASSUME NEW s \in PlanSessions, NEW revision \in PlanRevision
  PROVE  Recorded(s, revision) \in PlanSessions
<1>1. /\ s.revisions \in Seq(PlanRevision) /\ s.announced \in Seq(Nat) /\ s.alterations \in Nat
      /\ revision.index \in Nat /\ revision.to \in Text
  BY DEF PlanSessions, PlanRevision
<1>2. (IF IsKept(s) THEN Append(s.revisions, revision) ELSE s.revisions) \in Seq(PlanRevision)
  BY <1>1
<1>3. (IF s.content = NoText THEN s.announced ELSE Append(s.announced, revision.index)) \in Seq(Nat)
  BY <1>1
<1>4. s.alterations + (IF revision.isAlteration THEN 1 ELSE 0) \in Nat
  BY <1>1
<1> QED
  BY <1>1, <1>2, <1>3, <1>4 DEF Recorded, PlanSessions

LEMMA RecordIs ==
  ASSUME PlanTypes, NEW i \in Stores, Record(i),
         NEW revision, revision = NewRevision(session[i], op[i].text, op[i].timestamp)
  PROVE  /\ op[i].step = "record" /\ session[i].isKnown
         /\ session' = [session EXCEPT ![i] = Recorded(session[i], revision)]
         /\ \/ IsKept(session[i]) /\ WritePlanVersion(revision) /\ PlanGoto(i, "latest") /\ torn' = torn
            \/ IsKept(session[i]) /\ torn' = TRUE /\ PlanGoto(i, "latest") /\ versions' = versions
            \/ ~IsKept(session[i]) /\ op' = [op EXCEPT ![i] = Idle] /\ versions' = versions /\ torn' = torn
         /\ UNCHANGED <<agentFiles, latest, reader, starts>>
<1>1. op[i].step = "record" /\ session[i].isKnown
  BY StoreTyped, NothingIsTyped DEF StoreOK, Record
<1>2. revision.to = op[i].text
  BY StoreTyped, NewRevisionTyped
<1> QED
  BY <1>1, <1>2 DEF Record, Recorded

LEMMA WrittenTyped ==
  ASSUME PlanFiles, NEW revision \in PlanRevision, WritePlanVersion(revision)
  PROVE  versions' \in SUBSET PlanRevision /\ IsFiniteSet(versions') /\ Apart(versions')
<1> DEFINE others == {v \in versions : ~IsSameFile(v, revision)}
<1>1. versions' = others \cup {revision}
  BY DEF WritePlanVersion
<1>2. IsFiniteSet(others)
  BY FS_Subset, others \in SUBSET versions DEF PlanFiles
<1>3. IsFiniteSet(versions')
  BY <1>1, <1>2, FS_AddElement
<1> QED
  BY <1>1, <1>3 DEF PlanFiles, Apart, IsSameFile

LEMMA GotoTyped ==
  ASSUME PlanTypes, NEW i \in Stores, NEW step \in {"hydrate", "sync", "adopt", "record", "latest"}, PlanGoto(i, step)
  PROVE  \E change \in PlanChanges :
           /\ op' = [op EXCEPT ![i] = change] /\ change.step = step
           /\ change.text = op[i].text /\ change.timestamp = op[i].timestamp
           /\ change.known = op[i].known
<1> DEFINE change == [op[i] EXCEPT !.step = step]
<1>1. change \in PlanChanges /\ change.step = step /\ change.text = op[i].text
      /\ change.timestamp = op[i].timestamp /\ change.known = op[i].known
  BY StoreTyped DEF PlanChanges
<1> QED
  BY <1>1 DEF PlanGoto, PlanTypes

LEMMA RecordTyped == ASSUME PlanTypes, NEW i \in Stores, Record(i) PROVE PlanTypes'
<1> DEFINE revision == NewRevision(session[i], op[i].text, op[i].timestamp)
<1>1. revision \in PlanRevision
  BY StoreTyped, NewRevisionTyped
<1> HIDE DEF revision
<1>2. /\ session[i].isKnown
      /\ session' = [session EXCEPT ![i] = Recorded(session[i], revision)]
      /\ \/ WritePlanVersion(revision) /\ PlanGoto(i, "latest") /\ torn' = torn
         \/ torn' = TRUE /\ PlanGoto(i, "latest") /\ versions' = versions
         \/ op' = [op EXCEPT ![i] = Idle] /\ versions' = versions /\ torn' = torn
      /\ UNCHANGED <<agentFiles, latest, reader, starts>>
  BY RecordIs DEF revision
<1>3. Recorded(session[i], revision) \in PlanSessions /\ Recorded(session[i], revision).isKnown
  <2>1. session[i] \in PlanSessions
    BY StoreTyped
  <2>2. Recorded(session[i], revision).isKnown
    BY <1>2, <2>1 DEF Recorded, PlanSessions
  <2> QED
    BY <1>1, <2>1, <2>2, RecordedTyped
<1>4. PlanFiles'
  <2>1. versions' \in SUBSET PlanRevision /\ IsFiniteSet(versions') /\ Apart(versions')
    <3>1. CASE versions' = versions
      BY <3>1 DEF PlanTypes, PlanFiles, Apart
    <3>2. CASE WritePlanVersion(revision)
      BY <1>1, <3>2, WrittenTyped DEF PlanTypes
    <3> QED
      BY <1>2, <3>1, <3>2
  <2> QED
    BY <1>2, <2>1 DEF PlanTypes, PlanFiles, agentFiles
<1>5. PICK change \in PlanChanges : op' = [op EXCEPT ![i] = change] /\ (change.step = "idle" => change = Idle)
  BY <1>2, GotoTyped, NothingIsTyped
<1>6. UNCHANGED <<transcript, offset, inHand, noticed>>
  BY <1>2 DEF agentFiles, reader
<1>7. inHand' \in [Stores -> Text] /\ noticed' \in [Stores -> BOOLEAN]
  BY <1>6 DEF PlanTypes
<1> QED
  BY <1>2, <1>3, <1>4, <1>5, <1>6, <1>7, OthersTyped, SameTyped, StoreTyped

LEMMA WritePlanLatestTyped == ASSUME PlanTypes, NEW i \in Stores, WritePlanLatest(i) PROVE PlanTypes'
<1>1. PlanFiles' /\ UNCHANGED <<transcript, session, offset, inHand, noticed>>
  <2>1. op[i].text \in Text
    BY StoreTyped
  <2> QED
    BY <2>1 DEF WritePlanLatest, PlanTypes, PlanFiles, agentFiles, reader, Apart
<1>2. op' = [op EXCEPT ![i] = Idle]
  BY DEF WritePlanLatest
<1>3. session[i].isKnown
  BY StoreTyped, NothingIsTyped DEF StoreOK, WritePlanLatest
<1>4. inHand' \in [Stores -> Text] /\ noticed' \in [Stores -> BOOLEAN]
  BY <1>1 DEF PlanTypes
<1> QED
  BY <1>1, <1>2, <1>3, <1>4, OthersTyped, SameTyped, StoreTyped, NothingIsTyped

LEMMA LoadPlanTyped == ASSUME PlanTypes, NEW i \in Stores, LoadPlan(i) PROVE PlanTypes'
<1>1. PlanFiles' /\ UNCHANGED <<transcript, session, offset, op>>
  BY DEF LoadPlan, PlanTypes, PlanFiles, agentFiles, disk, Apart
<1>2. inHand' \in [Stores -> Text] /\ noticed' \in [Stores -> BOOLEAN]
  BY DEF LoadPlan, PlanTypes, PlanFiles
<1> QED
  BY <1>1, <1>2 DEF PlanTypes, StoreOK

LEMMA UpdatePlanForPathTyped == ASSUME PlanTypes, NEW i \in Stores, UpdatePlanForPath(i) PROVE PlanTypes'
<1>1. PlanFiles' /\ UNCHANGED <<transcript, offset, noticed>> /\ clock' \in Nat
  BY DEF UpdatePlanForPath, PlanTypes, PlanFiles, disk, Apart
<1>2. inHand' \in [Stores -> Text] /\ noticed' \in [Stores -> BOOLEAN]
  BY DEF UpdatePlanForPath, PlanTypes, Text
<1>3. CASE session[i].path = "reported"
  <2>1. session[i].isKnown
    BY <1>3, StoreTyped DEF StoreOK, NoPlanSession
  <2>2. SetPlanContent(i, session[i], inHand[i], clock', "planWatcher") /\ op[i].step = "idle"
    BY <1>3 DEF UpdatePlanForPath
  <2> QED
    BY <1>1, <1>2, <2>1, <2>2, SetPlanContentTyped, SameTyped, StoreTyped
<1>4. CASE session[i].path # "reported"
  <2>1. UNCHANGED <<session, op>>
    BY <1>4 DEF UpdatePlanForPath
  <2> QED
    BY <1>1, <1>2, <2>1 DEF PlanTypes, StoreOK
<1> QED
  BY <1>3, <1>4

LEMMA RewarmTyped == ASSUME PlanTypes, NEW i \in Stores, Rewarm(i) PROVE PlanTypes'
<1>1. PlanFiles' /\ UNCHANGED <<transcript, session, offset, op, inHand>>
  BY DEF Rewarm, PlanTypes, PlanFiles, agentFiles, disk, Apart
<1>2. noticed' \in [Stores -> BOOLEAN]
  BY DEF Rewarm, PlanTypes
<1> QED
  BY <1>1, <1>2 DEF PlanTypes, StoreOK

LEMMA RestartTyped == ASSUME PlanTypes, NEW i \in Stores, PlanRestart(i) PROVE PlanTypes'
<1>1. PlanFiles' /\ UNCHANGED transcript
  BY DEF PlanRestart, PlanTypes, PlanFiles, agentFiles, Apart
<1>2. inHand' \in [Stores -> Text] /\ noticed' \in [Stores -> BOOLEAN]
  BY DEF PlanRestart, PlanTypes, Text
<1>3. Len(transcript) \in Nat
  BY DEF PlanTypes, PlanFiles
<1>4. session' = [session EXCEPT ![i] = NoPlanSession] /\ offset' = [offset EXCEPT ![i] = 0]
      /\ op' = [op EXCEPT ![i] = Idle]
  BY DEF PlanRestart
<1>5. PICK s \in PlanSessions, change \in PlanChanges, read \in Nat :
        /\ s = NoPlanSession /\ change = Idle /\ read = 0
        /\ session' = [session EXCEPT ![i] = s] /\ offset' = [offset EXCEPT ![i] = read]
        /\ op' = [op EXCEPT ![i] = change]
  BY <1>4, NothingIsTyped
<1>6. /\ read <= Len(transcript) /\ (change.step = "idle" => change = Idle)
      /\ (~s.isKnown => s = NoPlanSession /\ change = Idle /\ read = 0)
  BY <1>3, <1>5
<1> QED
  BY <1>1, <1>2, <1>5, <1>6, OthersTyped

LEMMA NextPlanTypes == ASSUME PlanTypes, [PlanNext]_planVars PROVE PlanTypes'
<1>1. CASE EditPlan
  BY <1>1, EditPlanTyped
<1>2. CASE WriteLine
  BY <1>2, WriteLineTyped
<1>3. ASSUME NEW i \in Stores, StoreStep(i) \/ WatcherStep(i) \/ Rewarm(i) \/ PlanRestart(i) PROVE PlanTypes'
  BY <1>3, HydrateTyped, HydrateLatestTyped, ReadLineTyped, SyncTyped, AdoptTyped, RecordTyped,
     WritePlanLatestTyped, LoadPlanTyped, UpdatePlanForPathTyped, RewarmTyped, RestartTyped
     DEF StoreStep, WatcherStep
<1>4. CASE UNCHANGED planVars
  BY <1>4 DEF planVars, agentFiles, disk, reader, PlanTypes, PlanFiles, StoreOK, Apart
<1> QED
  BY <1>1, <1>2, <1>3, <1>4 DEF PlanNext

\* For any number of instances, texts and caps: what is stored of a plan is what was
\* put there, each revision file has a name of its own, and a store has a change of
\* plan in hand only for a session it knows (WritePlanVersion, getOrCreate).
THEOREM PlanTypeCorrect == PlanSpec => []PlanTypeOK
<1>1. PlanInit => PlanTypes
  BY InitPlanTypes
<1>2. PlanTypes /\ [PlanNext]_planVars => PlanTypes'
  BY NextPlanTypes
<1>3. PlanTypes => PlanTypeOK
  BY PlanTypesAre
<1>4. QED BY <1>1, <1>2, <1>3, PTL DEF PlanSpec

-----------------------------------------------------------------------------
(* PlanStore: one instance, one history.                                    *)

OneStore == \A i, j \in Stores : i = j

\* When the plan was first spoken of, or later, and not after now.
Dated(timestamp) ==
  transcript # <<>> /\ transcript[1].timestamp <= timestamp /\ timestamp <= clock

\* A line is no older than the first, and what holds a text was written after the file.
PlanLinesOK ==
  \A n \in DOMAIN transcript :
    Dated(transcript[n].timestamp) /\ (transcript[n].text # NoText => plan # NoText)

RevisionOK(revision) == Dated(revision.timestamp) /\ revision.to # NoText /\ plan # NoText

\* The revision files follow each other in time as in number.
VersionsOK ==
  /\ \A v \in versions : RevisionOK(v)
  /\ \A v, w \in versions : v.index <= w.index => v = w \/ v.timestamp < w.timestamp

Rising(revisions) ==
  \A k, l \in DOMAIN revisions : k < l =>
    revisions[k].index < revisions[l].index /\ revisions[k].timestamp < revisions[l].timestamp

\* Below the cap each announced revision is in the list.
CountsOK(s) ==
  Len(s.revisions) < maxRevisions =>
    /\ s.alterations = Alterations(s.revisions) /\ IsInjective(s.announced)
    /\ \A n \in DOMAIN s.announced : \E k \in DOMAIN s.revisions :
         s.revisions[k].index = s.announced[n]

\* What is on the disk is in memory, in the order of the files; a session without a text
\* has no revisions or has not yet read the line that names its plan.
MemoryOK(i) ==
  LET s == session[i] IN
  /\ Rising(s.revisions) /\ CountsOK(s)
  /\ \A k \in DOMAIN s.revisions : RevisionOK(s.revisions[k])
  /\ s.isKnown => \A v \in versions : \E k \in DOMAIN s.revisions : s.revisions[k] = v
  /\ s.path # "none" => offset[i] > 0
  /\ s.content = NoText =>
       s.revisions = <<>> \/ (offset[i] = 0 /\ op[i].step \in {"idle", "hydrate"})

\* A change of plan in work is newer than every revision, and is recorded on what the
\* disk has.
ChangeOK(i) ==
  /\ inHand[i] # NoText => plan # NoText
  /\ op[i].step = "hydrate" => offset[i] = 0
  /\ op[i].step \in {"sync", "adopt", "record", "latest"} =>
       op[i].text # NoText /\ Dated(op[i].timestamp) /\ plan # NoText
  /\ op[i].step \in {"sync", "adopt", "record"} =>
       \A k \in DOMAIN session[i].revisions :
         session[i].revisions[k].timestamp < op[i].timestamp
  /\ op[i].step = "adopt" => op[i].known = latest /\ latest # NoText
  /\ op[i].step = "record" => latest \in {NoText, session[i].content}

\* While no write was lost, files and memory are the same history.
HistoryOK ==
  ~torn =>
    /\ IsHistory(ReadPlanVersions)
    /\ \A i \in Stores : session[i].isKnown =>
         /\ session[i].revisions = ReadPlanVersions
         /\ session[i].revisions = <<>> => session[i].content = NoText
    /\ \A i \in Stores : op[i].step = "latest" =>
         versions # {} /\ op[i].text = Last(ReadPlanVersions).to
    /\ (\A i \in Stores : op[i].step # "latest") =>
         latest = IF versions = {} THEN NoText ELSE Last(ReadPlanVersions).to

PlanInv ==
  PlanLinesOK /\ VersionsOK /\ HistoryOK /\ \A i \in Stores : MemoryOK(i) /\ ChangeOK(i)

-----------------------------------------------------------------------------
\* Restated for the parts of the state that a step of one store changes.
LEMMA OnlyStore ==
  ASSUME OneStore, NEW i \in Stores, MemoryOK(i)', ChangeOK(i)', PlanLinesOK', VersionsOK', HistoryOK'
  PROVE  PlanInv'
<1>1. \A j \in Stores : j = i
  BY DEF OneStore
<1> QED
  BY <1>1 DEF PlanInv

LEMMA RisingEnumerates ==
  ASSUME PlanFiles, NEW revisions \in Seq(PlanRevision), Rising(revisions),
         \A k \in DOMAIN revisions : revisions[k] \in versions,
         \A v \in versions : \E k \in DOMAIN revisions : revisions[k] = v
  PROVE  revisions = ReadPlanVersions
<1>1. Enumerates(revisions, versions)
  BY DEF Enumerates, Rising, IsBefore
<1> QED
  BY <1>1, SortedUnique DEF ReadPlanVersions, PlanFiles

LEMMA VersionsRise ==
  ASSUME PlanFiles, VersionsOK
  PROVE  Rising(ReadPlanVersions)
<1> DEFINE list == ReadPlanVersions
<1>1. list \in Seq(PlanRevision) /\ Enumerates(list, versions)
  BY VersionsSorted
<1> HIDE DEF list
<1>2. ASSUME NEW k \in DOMAIN list, NEW l \in DOMAIN list, k < l
      PROVE  list[k].index < list[l].index /\ list[k].timestamp < list[l].timestamp
  <2>1. list[k] \in versions /\ list[l] \in versions /\ IsBefore(list[k], list[l])
    BY <1>1, <1>2 DEF Enumerates
  <2>2. list[k] \in PlanRevision /\ list[l] \in PlanRevision
    BY <2>1 DEF PlanFiles
  <2>3. /\ list[k].index \in Nat /\ list[l].index \in Nat
        /\ list[k].timestamp \in Nat /\ list[l].timestamp \in Nat
        /\ list[k].isAlteration \in BOOLEAN
    BY <2>2 DEF PlanRevision
  <2>4. list[k].index <= list[l].index /\ list[k] # list[l]
    BY <2>1, <2>3 DEF IsBefore
  <2>5. list[k].timestamp < list[l].timestamp
    BY <2>1, <2>4 DEF VersionsOK
  <2>6. list[k].index # list[l].index
    <3> SUFFICES ASSUME list[k].index = list[l].index PROVE FALSE
      OBVIOUS
    <3>1. list[l].timestamp < list[k].timestamp
      BY <2>1, <2>3, <2>4 DEF VersionsOK
    <3> QED
      BY <2>3, <2>5, <3>1
  <2> QED
    BY <2>3, <2>4, <2>5, <2>6
<1> QED
  BY <1>2 DEF Rising, list

LEMMA PlanInvIs == ASSUME PlanTypes, PlanInv PROVE OneHistory
<1>1. HistoryConnects
  BY DEF PlanInv, HistoryOK, HistoryConnects
<1>2. MemoryAgrees
  BY DEF PlanInv, HistoryOK, MemoryOK, CountsOK, MemoryAgrees
<1>3. EachChangeOnce
  <2>1. Rising(ReadPlanVersions) /\ ReadPlanVersions \in Seq(PlanRevision)
    BY VersionsRise, VersionsSorted DEF PlanTypes, PlanInv
  <2>2. DOMAIN ReadPlanVersions = 1 .. Len(ReadPlanVersions) /\ Len(ReadPlanVersions) \in Nat
    BY <2>1
  <2> QED
    BY <2>1, <2>2 DEF EachChangeOnce, Rising
<1> QED
  BY <1>1, <1>2, <1>3 DEF OneHistory

LEMMA EmptyCounts == /\ Alterations(<<>>) = 0 /\ Rising(<<>>) /\ IsInjective(<<>>)
                     /\ IsHistory(<<>>)
<1>1. {k \in DOMAIN <<>> : <<>>[k].isAlteration} = {}
  OBVIOUS
<1>2. Alterations(<<>>) = 0
  BY <1>1, FS_EmptySet DEF Alterations
<1> QED
  BY <1>2 DEF Rising, IsInjective, IsHistory

LEMMA NoVersions == ASSUME PlanFiles, versions = {} PROVE ReadPlanVersions = <<>>
BY SubsetSorted, versions \in SUBSET versions DEF ReadPlanVersions

LEMMA InitPlanInv == PlanInit => PlanInv
<1> SUFFICES ASSUME PlanInit PROVE PlanInv
  OBVIOUS
<1>1. PlanLinesOK /\ VersionsOK
  BY DEF PlanInit, PlanLinesOK, VersionsOK
<1>2. ReadPlanVersions = <<>>
  BY NoVersions, InitPlanTypes DEF PlanInit, PlanTypes
<1>3. HistoryOK
  BY <1>2, EmptyCounts DEF PlanInit, HistoryOK, NoPlanSession, Idle
<1>4. ASSUME NEW i \in Stores PROVE MemoryOK(i) /\ ChangeOK(i)
  BY EmptyCounts DEF PlanInit, MemoryOK, ChangeOK, CountsOK, NoPlanSession, Idle
<1> QED
  BY <1>1, <1>3, <1>4 DEF PlanInv

-----------------------------------------------------------------------------
\* Time goes on and the plan file stays.
LEMMA RevisionStays ==
  ASSUME PlanTypes, clock' \in Nat, clock <= clock', plan' = plan \/ plan' # NoText,
         transcript' = transcript \/ \E line \in PlanLines : transcript' = Append(transcript, line)
  PROVE  /\ \A t \in Nat : Dated(t) => Dated(t)'
         /\ \A v \in PlanRevision : RevisionOK(v) => RevisionOK(v)'
<1>1. ASSUME transcript # <<>> PROVE transcript' # <<>> /\ transcript'[1] = transcript[1]
  <2>1. transcript \in Seq(PlanLines)
    BY DEF PlanTypes, PlanFiles
  <2> QED
    BY <1>1, <2>1
<1>2. \A t \in Nat : Dated(t) => Dated(t)'
  <2>1. ASSUME NEW t \in Nat, Dated(t) PROVE Dated(t)'
    <3>1. transcript' # <<>> /\ transcript'[1].timestamp <= t
      BY <2>1, <1>1 DEF Dated
    <3>2. t <= clock'
      BY <2>1 DEF Dated, PlanTypes, PlanFiles
    <3> QED
      BY <3>1, <3>2 DEF Dated
  <2> QED
    BY <2>1
<1>3. \A v \in PlanRevision : RevisionOK(v) => RevisionOK(v)'
  <2>1. \A v \in PlanRevision : v.timestamp \in Nat
    BY DEF PlanRevision
  <2> QED
    BY <1>2, <2>1 DEF RevisionOK
<1> QED
  BY <1>2, <1>3

LEMMA FilesStay ==
  ASSUME PlanTypes, PlanLinesOK, VersionsOK, versions' = versions, clock' \in Nat, clock <= clock',
         plan' = plan \/ plan' # NoText, transcript' = transcript
  PROVE  PlanLinesOK' /\ VersionsOK'
<1>1. /\ \A t \in Nat : Dated(t) => Dated(t)'
      /\ \A v \in PlanRevision : RevisionOK(v) => RevisionOK(v)'
  BY RevisionStays
<1>2. VersionsOK'
  BY <1>1 DEF VersionsOK, PlanTypes, PlanFiles
<1>3. \A n \in DOMAIN transcript : transcript[n].timestamp \in Nat
  <2> SUFFICES ASSUME NEW n \in DOMAIN transcript PROVE transcript[n].timestamp \in Nat
    OBVIOUS
  <2>1. transcript[n] \in PlanLines
    BY DEF PlanTypes, PlanFiles
  <2> QED
    BY <2>1 DEF PlanLines
<1>4. PlanLinesOK'
  BY <1>1, <1>3 DEF PlanLinesOK
<1> QED
  BY <1>2, <1>4

LEMMA SameVersions == ASSUME versions' = versions PROVE ReadPlanVersions' = ReadPlanVersions
BY DEF ReadPlanVersions

\* The directory stays, and the only store is not between its two writes.
LEMMA HistoryStays ==
  ASSUME HistoryOK, OneStore, NEW i \in Stores,
         versions' = versions, latest' = latest, torn' = torn,
         op[i].step # "latest", op'[i].step # "latest",
         ~torn /\ session'[i].isKnown =>
           /\ session'[i].revisions = ReadPlanVersions
           /\ session'[i].revisions = <<>> => session'[i].content = NoText
  PROVE  HistoryOK'
<1>1. \A j \in Stores : j = i
  BY DEF OneStore
<1> QED
  BY <1>1, SameVersions DEF HistoryOK

\* The last revision is the newest.
LEMMA LastRises ==
  ASSUME NEW revisions \in Seq(PlanRevision), revisions # <<>>, Rising(revisions),
         NEW k \in DOMAIN revisions
  PROVE  /\ Last(revisions) \in PlanRevision
         /\ revisions[k].index <= Last(revisions).index
         /\ revisions[k].timestamp <= Last(revisions).timestamp
         /\ revisions[k].index < NextPlanIndex(revisions)
<1> DEFINE last == Len(revisions)
<1>1. last \in DOMAIN revisions /\ k \in 1 .. last /\ last \in Nat /\ Last(revisions) = revisions[last]
  BY DEF Last
<1>2. revisions[k] \in PlanRevision /\ revisions[last] \in PlanRevision
  BY <1>1
<1>3. /\ revisions[k].index \in Nat /\ revisions[last].index \in Nat
      /\ revisions[k].timestamp \in Nat /\ revisions[last].timestamp \in Nat
  BY <1>2 DEF PlanRevision
<1>4. k = last \/ k < last
  BY <1>1
<1>5. revisions[k].index <= revisions[last].index /\ revisions[k].timestamp <= revisions[last].timestamp
  BY <1>1, <1>3, <1>4 DEF Rising
<1> QED
  BY <1>1, <1>2, <1>3, <1>5 DEF NextPlanIndex

LEMMA ChangeSetKeeps ==
  ASSUME PlanTypes, PlanInv, OneStore, NEW i \in Stores, session[i].isKnown, op[i].step = "idle",
         NEW s \in PlanSessions, s.isKnown,
         s.revisions = session[i].revisions, s.content = session[i].content,
         s.announced = session[i].announced, s.alterations = session[i].alterations,
         NEW text \in Text, NEW timestamp \in Nat, NEW by \in {"transcript", "planWatcher"},
         SetPlanContent(i, s, text, timestamp, by),
         UNCHANGED <<transcript, plan, disk>>, clock' \in Nat, clock <= clock',
         Dated(timestamp)', text # NoText => plan # NoText,
         offset' \in [Stores -> Nat], offset'[i] > 0,
         offset[i] = 0 /\ s.revisions # <<>> =>
           text # NoText /\ timestamp <= Last(s.revisions).timestamp,
         inHand'[i] # NoText => plan # NoText
  PROVE  PlanInv'
<1>1. /\ PlanLinesOK /\ VersionsOK /\ HistoryOK /\ MemoryOK(i) /\ ChangeOK(i)
      /\ s.revisions \in Seq(PlanRevision) /\ offset[i] \in Nat
      /\ session \in [Stores -> PlanSessions] /\ op \in [Stores -> PlanChanges]
  BY DEF PlanInv, PlanSessions, PlanTypes
<1>2. /\ versions' = versions /\ latest' = latest /\ torn' = torn
      /\ transcript' = transcript /\ plan' = plan
  BY DEF disk
<1>3. PlanLinesOK' /\ VersionsOK'
  BY <1>1, <1>2, FilesStay
<1>4. \A v \in PlanRevision : RevisionOK(v) => RevisionOK(v)'
  BY <1>2, RevisionStays
<1>5. PICK t \in PlanSessions, change \in PlanChanges :
        /\ session' = [session EXCEPT ![i] = t] /\ op' = [op EXCEPT ![i] = change]
        /\ t.revisions = s.revisions /\ t.announced = s.announced
        /\ t.alterations = s.alterations /\ t.isKnown /\ t.path = s.path
        /\ \/ t = s /\ text \in {NoText, s.content} /\ change = Idle
           \/ t.content = text /\ text # NoText /\ change = Idle /\ IsPlanReplay(s, timestamp)
           \/ /\ t = s /\ text \notin {NoText, s.content} /\ ~IsPlanReplay(s, timestamp)
              /\ change.step = "sync" /\ change.text = text /\ change.timestamp = timestamp
  BY SetPlanContentIs
<1>6. session'[i] = t /\ op'[i] = change
  BY <1>1, <1>5
<1>7. /\ t.revisions = s.revisions /\ t.announced = s.announced /\ t.alterations = s.alterations
      /\ t.isKnown /\ t.path = s.path
  BY <1>5
<1>8. Idle.step = "idle"
  BY NothingIsTyped
<1>9. HistoryOK'
  <2>1. IsPlanReplay(s, timestamp) => s.revisions # <<>>
    BY DEF IsPlanReplay
  <2>2. ~torn => s.revisions = ReadPlanVersions /\ (s.revisions = <<>> => s.content = NoText)
    BY <1>1 DEF HistoryOK
  <2>3. t.revisions = <<>> => t.content = s.content
    BY <1>5, <1>7, <2>1
  <2>4. op'[i].step # "latest"
    BY <1>5, <1>6, <1>8
  <2> QED
    BY <1>1, <1>2, <1>6, <1>7, <2>2, <2>3, <2>4, HistoryStays
<1>10. MemoryOK(i)'
  <2>1. t.content = NoText => t.revisions = <<>>
    <3>1. s.content = NoText => s.revisions = <<>> \/ offset[i] = 0
      BY <1>1 DEF MemoryOK
    <3>2. CASE t.content = text /\ text # NoText
      BY <3>2
    <3>3. CASE t = s /\ text \in {NoText, s.content}
      BY <3>1, <3>3, <1>7
    <3>4. CASE t = s /\ ~IsPlanReplay(s, timestamp)
      BY <3>1, <3>4, <1>7 DEF IsPlanReplay
    <3> QED
      BY <1>5, <3>2, <3>3, <3>4
  <2>2. Rising(t.revisions) /\ CountsOK(t)
    BY <1>1, <1>7 DEF MemoryOK, CountsOK
  <2>3. \A k \in DOMAIN t.revisions : RevisionOK(t.revisions[k])'
    <3>1. \A k \in DOMAIN s.revisions : RevisionOK(s.revisions[k]) /\ s.revisions[k] \in PlanRevision
      BY <1>1 DEF MemoryOK
    <3> QED
      BY <3>1, <1>4, <1>7
  <2>4. \A v \in versions' : \E k \in DOMAIN t.revisions : t.revisions[k] = v
    BY <1>1, <1>2, <1>7 DEF MemoryOK
  <2> QED
    BY <1>6, <2>1, <2>2, <2>3, <2>4 DEF MemoryOK
<1>11. ChangeOK(i)'
  <2>1. change.step = "idle" \/ change.step = "sync"
    BY <1>5, <1>8
  <2>2. ASSUME change.step = "sync"
        PROVE  /\ change.text # NoText /\ Dated(timestamp)' /\ plan' # NoText /\ change.timestamp = timestamp
               /\ \A k \in DOMAIN t.revisions : t.revisions[k].timestamp < timestamp
    <3>1. text \notin {NoText, s.content} /\ ~IsPlanReplay(s, timestamp) /\ change.text = text
          /\ change.timestamp = timestamp /\ t = s
      BY <1>5, <1>8, <2>2
    <3>2. \A k \in DOMAIN t.revisions : t.revisions[k].timestamp < timestamp
      <4> SUFFICES ASSUME NEW k \in DOMAIN s.revisions PROVE s.revisions[k].timestamp < timestamp
        BY <1>7
      <4>1. s.revisions # <<>>
        BY <1>1
      <4>2. ~(timestamp <= Last(s.revisions).timestamp)
        BY <3>1, <4>1 DEF IsPlanReplay
      <4>3. Last(s.revisions) \in PlanRevision /\ s.revisions[k].timestamp <= Last(s.revisions).timestamp
            /\ s.revisions[k] \in PlanRevision
        BY <1>1, <4>1, LastRises DEF MemoryOK
      <4> QED
        BY <4>2, <4>3 DEF PlanRevision
    <3> QED
      BY <1>2, <3>1, <3>2
  <2>3. (Dated(op[i].timestamp))' <=> transcript' # <<>> /\ transcript'[1].timestamp <= change.timestamp /\ change.timestamp <= clock'
    BY <1>6 DEF Dated
  <2>4. Dated(timestamp)' <=> transcript' # <<>> /\ transcript'[1].timestamp <= timestamp /\ timestamp <= clock'
    BY DEF Dated
  <2> QED
    BY <1>2, <1>6, <2>1, <2>2, <2>3, <2>4 DEF ChangeOK
<1> QED
  BY <1>3, <1>9, <1>10, <1>11, OnlyStore

-----------------------------------------------------------------------------
\* The parts of the invariant that a step of the only store starts from.
LEMMA HaveStore ==
  ASSUME PlanTypes, PlanInv, NEW i \in Stores
  PROVE  /\ PlanLinesOK /\ VersionsOK /\ HistoryOK /\ MemoryOK(i) /\ ChangeOK(i)
         /\ session[i] \in PlanSessions /\ session[i].revisions \in Seq(PlanRevision)
         /\ op[i] \in PlanChanges /\ offset[i] \in Nat /\ clock \in Nat
BY DEF PlanInv, PlanTypes, PlanFiles, PlanSessions

\* A step of the store that leaves the files and the clock, and no revision.
LEMMA StepKeeps ==
  ASSUME PlanTypes, PlanInv, NEW i \in Stores,
         NEW s \in PlanSessions, session' = [session EXCEPT ![i] = s],
         s.revisions = session[i].revisions, s.announced = session[i].announced,
         s.alterations = session[i].alterations, s.path = session[i].path,
         s.isKnown = session[i].isKnown,
         UNCHANGED <<agentFiles, versions, offset>>,
         s.content = NoText => s.revisions = <<>> \/ (offset[i] = 0 /\ op'[i].step \in {"idle", "hydrate"})
  PROVE  PlanLinesOK' /\ VersionsOK' /\ MemoryOK(i)'
<1>1. /\ PlanLinesOK /\ VersionsOK /\ MemoryOK(i) /\ clock \in Nat
      /\ session \in [Stores -> PlanSessions] /\ s.revisions \in Seq(PlanRevision)
  BY HaveStore DEF PlanTypes
<1>2. UNCHANGED <<plan, transcript, clock, versions, offset>>
  BY DEF agentFiles
<1>3. PlanLinesOK' /\ VersionsOK'
  BY <1>1, <1>2, FilesStay
<1>4. \A v \in PlanRevision : RevisionOK(v) => RevisionOK(v)'
  BY <1>1, <1>2, RevisionStays
<1>5. session'[i] = s
  BY <1>1
<1>6. CountsOK(s)
  BY <1>1 DEF MemoryOK, CountsOK
<1>7. \A k \in DOMAIN s.revisions : RevisionOK(s.revisions[k])'
  <2>1. \A k \in DOMAIN s.revisions : RevisionOK(s.revisions[k]) /\ s.revisions[k] \in PlanRevision
    BY <1>1 DEF MemoryOK
  <2> QED
    BY <2>1, <1>4
<1>8. MemoryOK(i)'
  BY <1>1, <1>2, <1>5, <1>6, <1>7 DEF MemoryOK
<1> QED
  BY <1>3, <1>8

LEMMA EditPlanKeeps == ASSUME PlanTypes, PlanInv, EditPlan PROVE PlanInv'
<1>1. /\ clock' = clock + 1 /\ clock \in Nat /\ plan' # NoText
      /\ UNCHANGED <<transcript, versions, latest, torn, session, offset, inHand, op>>
  BY PlanStoreAssumption DEF EditPlan, disk, PlanTypes, PlanFiles
<1>2. /\ \A t \in Nat : Dated(t) => Dated(t)'
      /\ \A v \in PlanRevision : RevisionOK(v) => RevisionOK(v)'
  BY <1>1, RevisionStays
<1>3. PlanLinesOK' /\ VersionsOK'
  BY <1>1, FilesStay DEF PlanInv
<1>4. HistoryOK'
  BY <1>1, SameVersions DEF PlanInv, HistoryOK
<1>5. ASSUME NEW i \in Stores PROVE MemoryOK(i)' /\ ChangeOK(i)'
  <2>1. MemoryOK(i) /\ ChangeOK(i) /\ op[i] \in PlanChanges /\ session[i].revisions \in Seq(PlanRevision)
    BY HaveStore
  <2>2. MemoryOK(i)'
    BY <1>1, <1>2, <2>1 DEF MemoryOK
  <2>3. op[i].timestamp \in Nat
    BY <2>1 DEF PlanChanges
  <2>4. Dated(op[i].timestamp) => Dated(op[i].timestamp)'
    BY <1>1, <1>2, <2>3
  <2>5. ChangeOK(i)'
    BY <1>1, <2>1, <2>4 DEF ChangeOK
  <2> QED
    BY <2>2, <2>5
<1> QED
  BY <1>3, <1>4, <1>5 DEF PlanInv

LEMMA WriteLineKeeps == ASSUME PlanTypes, PlanInv, WriteLine PROVE PlanInv'
<1>1. PICK text \in {NoText, plan}, isExit \in BOOLEAN :
        transcript' = Append(transcript, [text |-> text, isExit |-> isExit, timestamp |-> clock'])
  BY DEF WriteLine
<1> DEFINE line == [text |-> text, isExit |-> isExit, timestamp |-> clock']
<1>2. /\ clock' = clock + 1 /\ clock \in Nat /\ transcript \in Seq(PlanLines)
      /\ UNCHANGED <<plan, versions, latest, torn, session, offset, inHand, op>>
  BY DEF WriteLine, disk, reader, PlanTypes, PlanFiles
<1>3. line \in PlanLines
  BY <1>2 DEF PlanLines, PlanTypes, PlanFiles, Text
<1>4. /\ \A t \in Nat : Dated(t) => Dated(t)'
      /\ \A v \in PlanRevision : RevisionOK(v) => RevisionOK(v)'
  BY <1>1, <1>2, <1>3, RevisionStays
<1>5. VersionsOK'
  BY <1>2, <1>4 DEF PlanInv, VersionsOK, PlanTypes, PlanFiles
<1>6. PlanLinesOK'
  <2> SUFFICES ASSUME NEW n \in DOMAIN transcript'
               PROVE  /\ transcript' # <<>> /\ transcript'[1].timestamp <= transcript'[n].timestamp
                      /\ transcript'[n].timestamp <= clock'
                      /\ transcript'[n].text # NoText => plan' # NoText
    BY DEF PlanLinesOK, Dated
  <2>1. DOMAIN transcript' = 1 .. Len(transcript) + 1 /\ Len(transcript) \in Nat
    BY <1>1, <1>2
  <2>2. CASE n \in DOMAIN transcript
    <3>1. transcript'[n] = transcript[n] /\ transcript[n].timestamp \in Nat
      <4>1. transcript[n] \in PlanLines /\ transcript'[n] = transcript[n]
        BY <1>1, <1>2, <1>3, <2>2
      <4> QED
        BY <4>1 DEF PlanLines
    <3>2. Dated(transcript[n].timestamp) /\ (transcript[n].text # NoText => plan # NoText)
      BY <2>2 DEF PlanInv, PlanLinesOK
    <3> DEFINE t == transcript[n].timestamp
    <3>3. transcript' # <<>> /\ transcript'[1].timestamp <= t /\ t <= clock'
      BY <1>4, <3>1, <3>2 DEF Dated
    <3> QED
      BY <1>2, <3>1, <3>2, <3>3
  <2>3. CASE n = Len(transcript) + 1
    <3>1. transcript'[n].timestamp = clock' /\ transcript'[n].text = text /\ transcript' # <<>>
      BY <1>1, <1>2, <2>3
    <3>2. transcript'[1].timestamp <= clock'
      <4>1. CASE transcript = <<>>
        <5>1. n = 1
          BY <2>3, <4>1
        <5> QED
          BY <1>2, <3>1, <5>1
      <4>2. CASE transcript # <<>>
        <5>1. 1 \in DOMAIN transcript /\ transcript'[1] = transcript[1]
          BY <1>1, <1>2, <4>2
        <5>2. transcript[1].timestamp \in Nat /\ transcript[1].timestamp <= clock
          <6>1. transcript[1] \in PlanLines /\ transcript[1].timestamp <= clock
            BY <1>2, <5>1 DEF PlanInv, PlanLinesOK, Dated
          <6> QED
            BY <6>1 DEF PlanLines
        <5> QED
          BY <1>2, <5>1, <5>2
      <4> QED
        BY <4>1, <4>2
    <3>3. clock' <= clock'
      BY <1>2
    <3> QED
      BY <1>2, <3>1, <3>2, <3>3 DEF Dated
  <2> QED
    BY <1>2, <2>1, <2>2, <2>3
<1>7. HistoryOK'
  BY <1>2, SameVersions DEF PlanInv, HistoryOK
<1>8. ASSUME NEW i \in Stores PROVE MemoryOK(i)' /\ ChangeOK(i)'
  <2>1. MemoryOK(i) /\ ChangeOK(i) /\ op[i] \in PlanChanges /\ session[i].revisions \in Seq(PlanRevision)
    BY HaveStore
  <2>2. MemoryOK(i)'
    BY <1>2, <1>4, <2>1 DEF MemoryOK
  <2>3. op[i].timestamp \in Nat
    BY <2>1 DEF PlanChanges
  <2>4. Dated(op[i].timestamp) => Dated(op[i].timestamp)'
    BY <1>2, <1>4, <2>3
  <2>5. ChangeOK(i)'
    BY <1>2, <2>1, <2>4 DEF ChangeOK
  <2> QED
    BY <2>2, <2>5
<1> QED
  BY <1>5, <1>6, <1>7, <1>8 DEF PlanInv

LEMMA HydrateKeeps == ASSUME PlanTypes, PlanInv, OneStore, NEW i \in Stores, Hydrate(i) PROVE PlanInv'
<1>1. /\ PlanLinesOK /\ VersionsOK /\ HistoryOK /\ MemoryOK(i) /\ ChangeOK(i) /\ clock \in Nat
      /\ session \in [Stores -> PlanSessions] /\ op \in [Stores -> PlanChanges] /\ StoreOK(i) /\ PlanFiles
  BY HaveStore DEF PlanTypes
<1>2. UNCHANGED <<plan, transcript, clock, versions, latest, torn, offset, inHand>>
  BY DEF Hydrate, agentFiles, disk, reader
<1>3. session[i] = NoPlanSession /\ op[i] = Idle /\ offset[i] = 0
  BY <1>1 DEF Hydrate, StoreOK
<1>4. /\ session'[i].revisions = ReadPlanVersions /\ session'[i].alterations = Alterations(ReadPlanVersions)
      /\ session'[i].announced = <<>> /\ session'[i].content = NoText /\ session'[i].path = "none"
  BY <1>1, <1>3 DEF Hydrate, PlanSessions, NoPlanSession
<1>5. op'[i].step \in {"idle", "hydrate"}
  BY <1>1, <1>3, NothingIsTyped DEF Hydrate, PlanGoto, PlanChanges
<1>6. PlanLinesOK' /\ VersionsOK'
  BY <1>1, <1>2, FilesStay
<1>7. Rising(ReadPlanVersions) /\ Enumerates(ReadPlanVersions, versions)
  BY <1>1, VersionsRise, VersionsSorted
<1>8. MemoryOK(i)'
  <2>1. CountsOK(session'[i])
    BY <1>4, EmptyCounts DEF CountsOK
  <2>2. \A k \in DOMAIN session'[i].revisions : RevisionOK(session[i].revisions[k])'
    <3> SUFFICES ASSUME NEW k \in DOMAIN session'[i].revisions PROVE RevisionOK(session[i].revisions[k])'
      OBVIOUS
    <3>1. PICK v \in versions : v = session'[i].revisions[k]
      BY <1>4, <1>7 DEF Enumerates
    <3>2. RevisionOK(v)'
      BY <1>2, <1>6 DEF VersionsOK
    <3> QED
      BY <3>1, <3>2 DEF RevisionOK, Dated
  <2>3. \A v \in versions' : \E k \in DOMAIN ReadPlanVersions : ReadPlanVersions[k] = v
    BY <1>2, <1>7 DEF Enumerates
  <2> QED
    BY <1>2, <1>3, <1>4, <1>5, <1>7, <2>1, <2>2, <2>3 DEF MemoryOK
<1>9. ChangeOK(i)'
  BY <1>1, <1>2, <1>3, <1>5 DEF ChangeOK
<1>10. HistoryOK'
  <2>1. op[i].step # "latest" /\ op'[i].step # "latest"
    BY <1>3, <1>5, NothingIsTyped
  <2> QED
    BY <1>1, <1>2, <1>4, <2>1, HistoryStays
<1> QED
  BY <1>6, <1>8, <1>9, <1>10, OnlyStore

LEMMA HydrateLatestKeeps ==
  ASSUME PlanTypes, PlanInv, OneStore, NEW i \in Stores, HydrateLatest(i) PROVE PlanInv'
<1> DEFINE s == [session[i] EXCEPT !.content = latest]
<1>1. /\ PlanLinesOK /\ VersionsOK /\ HistoryOK /\ MemoryOK(i) /\ ChangeOK(i) /\ latest \in Text
      /\ session \in [Stores -> PlanSessions] /\ op \in [Stores -> PlanChanges] /\ PlanFiles
  BY HaveStore DEF PlanTypes, PlanFiles
<1>2. UNCHANGED <<agentFiles, versions, latest, torn, offset, inHand>> /\ op[i].step = "hydrate"
  BY DEF HydrateLatest, disk, reader
<1>3. session' = [session EXCEPT ![i] = s] /\ op' = [op EXCEPT ![i] = Idle]
  BY <1>1 DEF HydrateLatest
<1>4. /\ s \in PlanSessions /\ s.content = latest /\ s.revisions = session[i].revisions
      /\ s.announced = session[i].announced /\ s.alterations = session[i].alterations
      /\ s.path = session[i].path /\ s.isKnown = session[i].isKnown
  BY <1>1 DEF PlanSessions
<1> HIDE DEF s
<1>5. session'[i] = s /\ op'[i] = Idle /\ op'[i].step = "idle" /\ offset[i] = 0
  BY <1>1, <1>2, <1>3, NothingIsTyped DEF ChangeOK
<1>6. PlanLinesOK' /\ VersionsOK' /\ MemoryOK(i)'
  BY <1>2, <1>3, <1>4, <1>5, StepKeeps
<1>7. ChangeOK(i)'
  BY <1>1, <1>2, <1>5 DEF ChangeOK, agentFiles
<1>8. HistoryOK'
  <2>1. ASSUME ~torn, session[i].isKnown, session[i].revisions = <<>> PROVE latest = NoText
    <3>1. versions = {}
      BY <1>1, <2>1 DEF MemoryOK
    <3>2. \A j \in Stores : op[j].step # "latest"
      BY <1>2 DEF OneStore
    <3> QED
      BY <1>1, <2>1, <3>1, <3>2 DEF HistoryOK
  <2>2. ~torn /\ session[i].isKnown => session[i].revisions = ReadPlanVersions
    BY <1>1 DEF HistoryOK
  <2> QED
    BY <1>1, <1>2, <1>4, <1>5, <2>1, <2>2, HistoryStays
<1> QED
  BY <1>6, <1>7, <1>8, OnlyStore

LEMMA ReadLineKeeps ==
  ASSUME PlanTypes, PlanInv, OneStore, NEW i \in Stores, ReadLine(i) PROVE PlanInv'
<1>1. /\ PlanLinesOK /\ MemoryOK(i) /\ ChangeOK(i) /\ clock \in Nat /\ offset[i] \in Nat
      /\ session[i] \in PlanSessions /\ offset \in [Stores -> Nat] /\ plan \in Text
      /\ transcript \in Seq(PlanLines) /\ session[i].revisions \in Seq(PlanRevision)
  BY HaveStore DEF PlanTypes, PlanFiles
<1>2. offset[i] + 1 \in DOMAIN transcript
  BY <1>1 DEF ReadLine
<1>3. PICK line \in PlanLines : line = transcript[offset[i] + 1]
  BY <1>1, <1>2
<1>4. line.text \in Text /\ line.timestamp \in Nat /\ line.isExit \in BOOLEAN
  BY DEF PlanLines
<1>5. PICK s \in PlanSessions, text \in Text :
        /\ s.isKnown /\ s.revisions = session[i].revisions
        /\ s.content = session[i].content /\ s.announced = session[i].announced
        /\ s.alterations = session[i].alterations
        /\ text = IF line.text = NoText THEN plan ELSE line.text
        /\ SetPlanContent(i, s, text, line.timestamp, "transcript")
  <2> DEFINE isInWorktree == line.text = NoText /\ InWorktree /\ plan # NoText
             s == Follow(session[i], IF isInWorktree THEN "worktree" ELSE "reported", line.isExit)
             text == IF line.text = NoText THEN plan ELSE line.text
  <2>1. SetPlanContent(i, s, text, line.timestamp, "transcript") /\ session[i].isKnown
    BY <1>3 DEF ReadLine
  <2>2. /\ s \in PlanSessions /\ s.isKnown /\ s.revisions = session[i].revisions
        /\ s.content = session[i].content /\ s.announced = session[i].announced
        /\ s.alterations = session[i].alterations
    BY <1>1, <1>4, <2>1 DEF Follow, PlanSessions
  <2>3. text \in Text
    BY <1>1, <1>4
  <2> HIDE DEF s
  <2> QED
    BY <2>1, <2>2, <2>3
<1>6. /\ UNCHANGED <<plan, transcript, clock, disk, inHand>>
      /\ offset' = [offset EXCEPT ![i] = offset[i] + 1]
      /\ session[i].isKnown /\ op[i].step = "idle"
  BY <1>1 DEF ReadLine, agentFiles
<1>7. (text # NoText => plan # NoText) /\ Dated(line.timestamp)
  BY <1>1, <1>2, <1>3, <1>5 DEF PlanLinesOK
<1>8. clock' \in Nat /\ clock <= clock'
  BY <1>1, <1>6
<1>9. Dated(line.timestamp)'
  BY <1>4, <1>6, <1>7, <1>8, RevisionStays
<1>10. ASSUME offset[i] = 0, s.revisions # <<>>
       PROVE  text # NoText /\ line.timestamp <= Last(s.revisions).timestamp
  <2>1. PICK k \in DOMAIN s.revisions : k = 1
    <3>1. s.revisions \in Seq(PlanRevision) /\ s.revisions # <<>>
      BY <1>1, <1>5, <1>10
    <3> QED
      BY <3>1
  <2>2. RevisionOK(s.revisions[k]) /\ Rising(s.revisions)
    BY <1>1, <1>5 DEF MemoryOK
  <2>3. line = transcript[1]
    BY <1>3, <1>10
  <2>4. line.timestamp <= s.revisions[k].timestamp /\ plan # NoText
    BY <2>2, <2>3 DEF RevisionOK, Dated
  <2>5. s.revisions[k].timestamp <= Last(s.revisions).timestamp /\ Last(s.revisions) \in PlanRevision
        /\ s.revisions[k] \in PlanRevision
    BY <1>1, <1>5, <1>10, <2>2, LastRises
  <2> QED
    BY <1>4, <1>5, <2>4, <2>5 DEF PlanRevision
<1>11. offset' \in [Stores -> Nat] /\ offset'[i] > 0
  BY <1>1, <1>6
<1>12. inHand'[i] # NoText => plan # NoText
  BY <1>1, <1>6 DEF ChangeOK
<1>13. UNCHANGED <<transcript, plan, disk>>
  BY <1>6
<1> QED
  BY <1>4, <1>5, <1>6, <1>7, <1>8, <1>9, <1>10, <1>11, <1>12, <1>13, ChangeSetKeeps

LEMMA SyncKeeps == ASSUME PlanTypes, PlanInv, OneStore, NEW i \in Stores, Sync(i) PROVE PlanInv'
<1>1. /\ HistoryOK /\ MemoryOK(i) /\ ChangeOK(i) /\ session \in [Stores -> PlanSessions]
      /\ op \in [Stores -> PlanChanges] /\ op[i] \in PlanChanges /\ session[i] \in PlanSessions
  BY HaveStore DEF PlanTypes
<1>2. UNCHANGED <<agentFiles, versions, latest, torn, session, offset, inHand>> /\ op[i].step = "sync"
  BY DEF Sync, disk, reader
<1>3. \/ /\ latest \notin {NoText, session[i].content} /\ op'[i].step = "adopt" /\ op'[i].known = latest
         /\ op'[i].text = op[i].text /\ op'[i].timestamp = op[i].timestamp
      \/ /\ latest \in {NoText, session[i].content} /\ op'[i].step = "record"
         /\ op'[i].text = op[i].text /\ op'[i].timestamp = op[i].timestamp
  BY <1>1 DEF Sync, PlanGoto, IsOutdated, PlanChanges
<1>4. session' = [session EXCEPT ![i] = session[i]]
  BY <1>1, <1>2
<1>5. PlanLinesOK' /\ VersionsOK' /\ MemoryOK(i)'
  <2>1. session[i].content = NoText => session[i].revisions = <<>>
    BY <1>1, <1>2 DEF MemoryOK
  <2> QED
    BY <1>1, <1>2, <1>4, <2>1, StepKeeps
<1>6. ChangeOK(i)'
  BY <1>1, <1>2, <1>3 DEF ChangeOK, Dated, agentFiles
<1>7. HistoryOK'
  BY <1>1, <1>2, <1>3, HistoryStays DEF HistoryOK
<1> QED
  BY <1>5, <1>6, <1>7, OnlyStore

\* Nothing on the disk is new to the only store.
LEMMA NothingNew ==
  ASSUME PlanTypes, NEW i \in Stores, MemoryOK(i), session[i].isKnown
  PROVE  {v \in versions : IsNew(v, session[i].revisions)} = {}
<1> SUFFICES ASSUME NEW v \in versions, IsNew(v, session[i].revisions) PROVE FALSE
  OBVIOUS
<1>1. PICK k \in DOMAIN session[i].revisions : session[i].revisions[k] = v
  BY DEF MemoryOK
<1>2. session[i].revisions \in Seq(PlanRevision) /\ session[i].revisions # <<>> /\ Rising(session[i].revisions)
  BY <1>1, StoreTyped DEF MemoryOK
<1>3. v.index < NextPlanIndex(session[i].revisions)
  BY <1>1, <1>2, LastRises
<1>4. v.index \in Nat /\ NextPlanIndex(session[i].revisions) \in Nat
  <2>1. session[i] \in PlanSessions /\ NoText \in Text /\ 0 \in Nat
    BY StoreTyped, NothingIsTyped
  <2> QED
    BY <2>1, NewRevisionTyped DEF PlanTypes, PlanFiles, PlanRevision
<1> QED
  BY <1>3, <1>4 DEF IsNew

LEMMA AdoptKeeps == ASSUME PlanTypes, PlanInv, OneStore, NEW i \in Stores, Adopt(i) PROVE PlanInv'
<1> DEFINE new == {v \in versions : IsNew(v, session[i].revisions)}
           adopted == Sorted(new)
           names == Indexes(Sorted({v \in new : v.index > 0}))
           s == [session[i] EXCEPT
                   !.content = op[i].known,
                   !.revisions = @ \o adopted,
                   !.alterations = @ + Alterations(adopted),
                   !.announced = @ \o names]
<1>1. /\ HistoryOK /\ MemoryOK(i) /\ ChangeOK(i) /\ session \in [Stores -> PlanSessions]
      /\ op \in [Stores -> PlanChanges] /\ op[i] \in PlanChanges /\ session[i] \in PlanSessions
      /\ session[i].revisions \in Seq(PlanRevision) /\ session[i].announced \in Seq(Nat)
      /\ session[i].alterations \in Nat /\ PlanFiles
  BY HaveStore DEF PlanTypes, PlanSessions
<1>2. /\ UNCHANGED <<agentFiles, versions, latest, torn, offset, inHand>> /\ op[i].step = "adopt"
      /\ session' = [session EXCEPT ![i] = s]
  BY DEF Adopt, disk, reader
<1>3. session[i].isKnown
  BY <1>2, StoreTyped, NothingIsTyped DEF StoreOK
<1>4. adopted = <<>> /\ names = <<>>
  <2>1. new = {} /\ {v \in new : v.index > 0} = {}
    BY <1>1, <1>3, NothingNew
  <2>2. Sorted({}) = <<>>
    BY <1>1, SubsetSorted
  <2>3. Indexes(<<>>) = <<>>
    BY DEF Indexes
  <2> QED
    BY <2>1, <2>2, <2>3
<1> HIDE DEF adopted, names, new
<1>5. /\ s \in PlanSessions /\ s.content = latest /\ s.revisions = session[i].revisions
      /\ s.announced = session[i].announced /\ s.alterations = session[i].alterations
      /\ s.path = session[i].path /\ s.isKnown = session[i].isKnown
  <2>1. session[i].revisions \o adopted = session[i].revisions /\ session[i].announced \o names = session[i].announced
    BY <1>1, <1>4
  <2>2. session[i].alterations + Alterations(adopted) = session[i].alterations
    BY <1>1, <1>4, EmptyCounts
  <2>3. op[i].known = latest /\ latest \in Text
    BY <1>1, <1>2 DEF ChangeOK, PlanFiles
  <2> QED
    BY <1>1, <2>1, <2>2, <2>3 DEF PlanSessions
<1> HIDE DEF s
<1>6. latest # NoText
  BY <1>1, <1>2 DEF ChangeOK
<1>7. PlanLinesOK' /\ VersionsOK' /\ MemoryOK(i)'
  BY <1>2, <1>5, <1>6, StepKeeps
<1>8. session'[i] = s
  BY <1>1, <1>2
<1>9. op'[i].step \in {"idle", "record"}
      /\ (op'[i].step = "record" => op'[i].text = op[i].text /\ op'[i].timestamp = op[i].timestamp)
  BY <1>1, NothingIsTyped DEF Adopt, PlanGoto, PlanChanges
<1>10. ChangeOK(i)'
  BY <1>1, <1>2, <1>5, <1>8, <1>9 DEF ChangeOK, Dated, agentFiles
<1>11. HistoryOK'
  <2>1. ASSUME ~torn PROVE s.revisions = ReadPlanVersions /\ s.revisions # <<>>
    <3>1. s.revisions = ReadPlanVersions
      BY <1>1, <1>3, <1>5, <2>1 DEF HistoryOK
    <3>2. versions # {}
      <4>1. \A j \in Stores : op[j].step # "latest"
        BY <1>2 DEF OneStore
      <4> QED
        BY <1>1, <1>6, <2>1, <4>1 DEF HistoryOK
    <3> QED
      BY <1>1, <1>3, <1>5, <3>1, <3>2 DEF MemoryOK
  <2> QED
    BY <1>1, <1>2, <1>8, <1>9, <2>1, HistoryStays
<1> QED
  BY <1>7, <1>10, <1>11, OnlyStore

-----------------------------------------------------------------------------
\* A revision that is recorded comes after all there are.
LEMMA NewRevisionIsLast ==
  ASSUME PlanTypes, PlanInv, NEW i \in Stores, op[i].step = "record",
         NEW revision, revision = NewRevision(session[i], op[i].text, op[i].timestamp)
  PROVE  /\ revision \in PlanRevision /\ RevisionOK(revision)
         /\ revision.to = op[i].text /\ revision.timestamp = op[i].timestamp
         /\ \A k \in DOMAIN session[i].revisions :
              /\ session[i].revisions[k].index < revision.index
              /\ session[i].revisions[k].timestamp < revision.timestamp
         /\ session[i].content = NoText => session[i].revisions = <<>>
<1>1. /\ MemoryOK(i) /\ ChangeOK(i) /\ session[i] \in PlanSessions
      /\ session[i].revisions \in Seq(PlanRevision) /\ op[i].text \in Text /\ op[i].timestamp \in Nat
  BY HaveStore, StoreTyped
<1>2. revision \in PlanRevision /\ revision.to = op[i].text /\ revision.timestamp = op[i].timestamp
  BY <1>1, NewRevisionTyped
<1>3. RevisionOK(revision)
  BY <1>1, <1>2 DEF ChangeOK, RevisionOK
<1>4. session[i].content = NoText => session[i].revisions = <<>>
  BY <1>1 DEF MemoryOK
<1>5. ASSUME NEW k \in DOMAIN session[i].revisions
      PROVE  /\ session[i].revisions[k].index < revision.index
             /\ session[i].revisions[k].timestamp < revision.timestamp
  <2>1. session[i].revisions # <<>>
    BY <1>1
  <2>2. revision.index = NextPlanIndex(session[i].revisions)
    BY <1>4, <2>1 DEF NewRevision
  <2> QED
    BY <1>1, <1>2, <2>1, <2>2, LastRises DEF ChangeOK, MemoryOK
<1> QED
  BY <1>2, <1>3, <1>4, <1>5

\* Nothing is in its place on the disk.
LEMMA NewFile ==
  ASSUME PlanTypes, PlanInv, NEW i \in Stores, session[i].isKnown, op[i].step = "record",
         NEW revision, revision = NewRevision(session[i], op[i].text, op[i].timestamp),
         WritePlanVersion(revision)
  PROVE  /\ versions' = versions \cup {revision}
         /\ \A v \in versions : v.index < revision.index /\ v.timestamp < revision.timestamp
<1>1. \A v \in versions : \E k \in DOMAIN session[i].revisions : session[i].revisions[k] = v
  BY HaveStore DEF MemoryOK
<1>2. \A v \in versions : v.index < revision.index /\ v.timestamp < revision.timestamp
  BY <1>1, NewRevisionIsLast
<1>3. revision.index \in Nat /\ \A v \in versions : v.index \in Nat
  BY NewRevisionIsLast DEF PlanTypes, PlanFiles, PlanRevision
<1>4. \A v \in versions : ~IsSameFile(v, revision)
  BY <1>2, <1>3 DEF IsSameFile
<1> QED
  BY <1>2, <1>4 DEF WritePlanVersion

\* Where the list is below the cap, it counts what it lists.
LEMMA RecordedCounts ==
  ASSUME NEW s \in PlanSessions, CountsOK(s), NEW revision \in PlanRevision,
         \A k \in DOMAIN s.revisions : s.revisions[k].index < revision.index
  PROVE  CountsOK(Recorded(s, revision))
<1> DEFINE t == Recorded(s, revision)
           marked(list) == {k \in DOMAIN list : list[k].isAlteration}
<1>1. /\ s.revisions \in Seq(PlanRevision) /\ s.announced \in Seq(Nat) /\ s.alterations \in Nat
      /\ revision.index \in Nat /\ Len(s.revisions) \in Nat /\ maxRevisions \in Nat
      /\ revision.isAlteration \in BOOLEAN
  BY PlanStoreAssumption DEF PlanSessions, PlanRevision
<1>2. /\ t.revisions = IF IsKept(s) THEN Append(s.revisions, revision) ELSE s.revisions
      /\ t.alterations = s.alterations + IF revision.isAlteration THEN 1 ELSE 0
      /\ t.announced = IF s.content = NoText THEN s.announced ELSE Append(s.announced, revision.index)
  BY DEF Recorded, PlanSessions
<1> HIDE DEF t
<1> SUFFICES ASSUME Len(t.revisions) < maxRevisions
             PROVE  /\ t.alterations = Alterations(t.revisions) /\ IsInjective(t.announced)
                    /\ \A n \in DOMAIN t.announced : \E k \in DOMAIN t.revisions :
                         t.revisions[k].index = t.announced[n]
  BY DEF CountsOK, t
<1>3. IsKept(s) /\ Len(s.revisions) < maxRevisions
  BY <1>1, <1>2 DEF IsKept
<1> DEFINE n == Len(s.revisions)
<1>4. /\ t.revisions = Append(s.revisions, revision) /\ DOMAIN t.revisions = 1 .. n + 1
      /\ DOMAIN s.revisions = 1 .. n /\ n \in Nat /\ t.revisions[n + 1] = revision
      /\ \A k \in 1 .. n : t.revisions[k] = s.revisions[k]
  BY <1>1, <1>2, <1>3
<1>5. /\ s.alterations = Alterations(s.revisions) /\ IsInjective(s.announced)
      /\ \A m \in DOMAIN s.announced : \E k \in DOMAIN s.revisions :
           s.revisions[k].index = s.announced[m]
  BY <1>3 DEF CountsOK
<1>6. t.alterations = Alterations(t.revisions)
  <2>1. IsFiniteSet(marked(s.revisions)) /\ n + 1 \notin marked(s.revisions)
    <3>1. IsFiniteSet(1 .. n)
      BY <1>4, FS_Interval
    <3>2. marked(s.revisions) \in SUBSET (1 .. n) /\ n + 1 \notin 1 .. n
      BY <1>4
    <3> QED
      BY <3>1, <3>2, FS_Subset
  <2>2. marked(t.revisions) = IF revision.isAlteration THEN marked(s.revisions) \cup {n + 1}
                              ELSE marked(s.revisions)
    BY <1>4
  <2>3. Cardinality(marked(s.revisions)) \in Nat
    BY <2>1, FS_CardinalityType
  <2>4. Cardinality(marked(t.revisions)) =
          Cardinality(marked(s.revisions)) + IF revision.isAlteration THEN 1 ELSE 0
    <3>1. CASE revision.isAlteration
      <4>1. Cardinality(marked(s.revisions) \cup {n + 1}) = Cardinality(marked(s.revisions)) + 1
        BY <2>1, FS_AddElement
      <4> QED
        BY <2>2, <3>1, <4>1
    <3>2. CASE ~revision.isAlteration
      <4>1. marked(t.revisions) = marked(s.revisions)
        BY <2>2, <3>2
      <4> HIDE DEF marked
      <4> QED
        BY <2>3, <3>2, <4>1
    <3> QED
      BY <1>1, <3>1, <3>2
  <2> QED
    BY <1>2, <1>5, <2>4 DEF Alterations
<1>7. \A m \in DOMAIN t.announced : \E k \in DOMAIN t.revisions : t.revisions[k].index = t.announced[m]
  <2> SUFFICES ASSUME NEW m \in DOMAIN t.announced
               PROVE  \E k \in DOMAIN t.revisions : t.revisions[k].index = t.announced[m]
    OBVIOUS
  <2>1. CASE m \in DOMAIN s.announced
    <3>1. t.announced[m] = s.announced[m]
      BY <1>1, <1>2, <2>1
    <3>2. PICK k \in DOMAIN s.revisions : s.revisions[k].index = s.announced[m]
      BY <1>5, <2>1
    <3>3. k \in DOMAIN t.revisions /\ t.revisions[k] = s.revisions[k]
      BY <1>4
    <3> QED
      BY <3>1, <3>2, <3>3
  <2>2. CASE m \notin DOMAIN s.announced
    <3>1. t.announced[m] = revision.index
      BY <1>1, <1>2, <2>2
    <3>2. n + 1 \in DOMAIN t.revisions
      BY <1>4
    <3> QED
      BY <1>4, <3>1, <3>2
  <2> QED
    BY <2>1, <2>2
<1>8. IsInjective(t.announced)
  <2>1. CASE s.content = NoText
    BY <1>2, <1>5, <2>1
  <2>2. CASE s.content # NoText
    <3> DEFINE a == Len(s.announced)
    <3>1. /\ DOMAIN t.announced = 1 .. a + 1 /\ DOMAIN s.announced = 1 .. a /\ a \in Nat
          /\ t.announced[a + 1] = revision.index
          /\ \A m \in 1 .. a : t.announced[m] = s.announced[m]
      BY <1>1, <1>2, <2>2
    <3>2. \A m \in 1 .. a : s.announced[m] # revision.index
      <4> SUFFICES ASSUME NEW m \in 1 .. a, s.announced[m] = revision.index PROVE FALSE
        OBVIOUS
      <4>1. PICK k \in DOMAIN s.revisions : s.revisions[k].index = s.announced[m]
        BY <1>5, <3>1
      <4> QED
        BY <1>1, <4>1
    <3>3. \A l, m \in 1 .. a : s.announced[l] = s.announced[m] => l = m
      BY <1>5, <3>1 DEF IsInjective
    <3> HIDE DEF a
    <3>4. ASSUME NEW l \in 1 .. a + 1, NEW m \in 1 .. a + 1, t.announced[l] = t.announced[m] PROVE l = m
      <4>1. (l \in 1 .. a \/ l = a + 1) /\ (m \in 1 .. a \/ m = a + 1)
        BY <3>1
      <4> QED
        BY <3>1, <3>2, <3>3, <3>4, <4>1
    <3> QED
      BY <3>1, <3>4 DEF IsInjective
  <2> QED
    BY <2>1, <2>2
<1> QED
  BY <1>6, <1>7, <1>8

LEMMA RecordKeeps ==
  ASSUME PlanTypes, PlanInv, OneStore, NEW i \in Stores, Record(i) PROVE PlanInv'
<1>1. PICK revision \in PlanRevision : revision = NewRevision(session[i], op[i].text, op[i].timestamp)
  BY StoreTyped, NewRevisionTyped
<1> DEFINE s == session[i]
<1> PICK t \in PlanSessions : t = Recorded(session[i], revision)
  BY StoreTyped, RecordedTyped
<1>2. /\ op[i].step = "record" /\ s.isKnown /\ session' = [session EXCEPT ![i] = t]
      /\ \/ IsKept(s) /\ WritePlanVersion(revision) /\ PlanGoto(i, "latest") /\ torn' = torn
         \/ IsKept(s) /\ torn' = TRUE /\ PlanGoto(i, "latest") /\ versions' = versions
         \/ ~IsKept(s) /\ op' = [op EXCEPT ![i] = Idle] /\ versions' = versions /\ torn' = torn
      /\ UNCHANGED <<plan, transcript, clock, latest, offset, inHand>>
  BY <1>1, RecordIs DEF agentFiles, reader
<1>3. /\ PlanLinesOK /\ VersionsOK /\ HistoryOK /\ MemoryOK(i) /\ ChangeOK(i) /\ PlanFiles
      /\ s \in PlanSessions /\ s.revisions \in Seq(PlanRevision) /\ clock \in Nat /\ offset[i] \in Nat
      /\ session \in [Stores -> PlanSessions] /\ op \in [Stores -> PlanChanges] /\ Len(s.revisions) \in Nat
  BY HaveStore DEF PlanTypes
<1>4. /\ RevisionOK(revision) /\ revision.to = op[i].text /\ revision.to # NoText
      /\ revision.timestamp = op[i].timestamp
      /\ \A k \in DOMAIN s.revisions :
           s.revisions[k].index < revision.index /\ s.revisions[k].timestamp < revision.timestamp
      /\ s.content = NoText => s.revisions = <<>>
  BY <1>1, <1>2, NewRevisionIsLast DEF RevisionOK
<1>5. /\ t \in PlanSessions /\ t.content = revision.to /\ t.isKnown /\ t.path = s.path
      /\ t.revisions = IF IsKept(s) THEN Append(s.revisions, revision) ELSE s.revisions
      /\ CountsOK(t)
  <2>1. t \in PlanSessions /\ CountsOK(t)
    BY <1>3, <1>4, RecordedCounts DEF MemoryOK
  <2> QED
    BY <1>2, <1>3, <2>1 DEF Recorded, PlanSessions
<1>6. session'[i] = t
  BY <1>2, <1>3
<1>7. \A v \in PlanRevision : RevisionOK(v) => RevisionOK(v)'
  BY <1>2, <1>3, RevisionStays
<1>8. \/ versions' = versions
      \/ IsKept(s) /\ versions' = versions \cup {revision}
         /\ \A v \in versions : v.index < revision.index /\ v.timestamp < revision.timestamp
  BY <1>1, <1>2, NewFile
<1>9. PlanLinesOK' /\ VersionsOK'
  <2>1. PlanLinesOK'
    BY <1>2, <1>3 DEF PlanLinesOK, Dated
  <2>2. \A v \in versions' : RevisionOK(v)'
    BY <1>3, <1>4, <1>7, <1>8 DEF VersionsOK, PlanFiles
  <2>3. \A v, w \in versions' : v.index <= w.index => v = w \/ v.timestamp < w.timestamp
    <3>1. \A v \in versions : v.index \in Nat
      BY <1>3 DEF PlanFiles, PlanRevision
    <3>2. revision.index \in Nat
      BY DEF PlanRevision
    <3> QED
      BY <1>3, <1>8, <3>1, <3>2 DEF VersionsOK
  <2> QED
    BY <2>1, <2>2, <2>3 DEF VersionsOK
<1> DEFINE n == Len(s.revisions)
<1>10. IsKept(s) =>
         /\ t.revisions \in Seq(PlanRevision) /\ t.revisions # <<>> /\ Len(t.revisions) = n + 1
         /\ DOMAIN t.revisions = 1 .. n + 1 /\ DOMAIN s.revisions = 1 .. n
         /\ t.revisions[n + 1] = revision /\ Last(t.revisions) = revision
         /\ \A k \in 1 .. n : t.revisions[k] = s.revisions[k]
  <2> SUFFICES ASSUME IsKept(s)
               PROVE  /\ t.revisions \in Seq(PlanRevision) /\ t.revisions # <<>> /\ Len(t.revisions) = n + 1
                      /\ DOMAIN t.revisions = 1 .. n + 1 /\ DOMAIN s.revisions = 1 .. n
                      /\ t.revisions[n + 1] = revision /\ Last(t.revisions) = revision
                      /\ \A k \in 1 .. n : t.revisions[k] = s.revisions[k]
    OBVIOUS
  <2>1. t.revisions = Append(s.revisions, revision)
    BY <1>5
  <2> HIDE DEF s
  <2>2. /\ t.revisions \in Seq(PlanRevision) /\ t.revisions # <<>> /\ Len(t.revisions) = n + 1
        /\ DOMAIN t.revisions = 1 .. n + 1 /\ DOMAIN s.revisions = 1 .. n
        /\ t.revisions[n + 1] = revision /\ \A k \in 1 .. n : t.revisions[k] = s.revisions[k]
    <3>1. s.revisions \in Seq(PlanRevision) /\ n \in Nat /\ DOMAIN s.revisions = 1 .. n
      BY <1>3
    <3>2. /\ Append(s.revisions, revision) \in Seq(PlanRevision)
          /\ Append(s.revisions, revision) # <<>> /\ Len(Append(s.revisions, revision)) = n + 1
          /\ \A k \in 1 .. n : Append(s.revisions, revision)[k] = s.revisions[k]
          /\ Append(s.revisions, revision)[n + 1] = revision
      BY <3>1, AppendProperties
    <3>3. DOMAIN t.revisions = 1 .. Len(t.revisions)
      BY <2>1, <3>2
    <3> QED
      BY <2>1, <3>1, <3>2, <3>3
  <2> QED
    BY <2>2 DEF Last
<1>11. Rising(t.revisions)
  <2>1. CASE ~IsKept(s)
    BY <1>3, <1>5, <2>1 DEF MemoryOK
  <2>2. CASE IsKept(s)
    <3>1. ASSUME NEW k \in 1 .. n + 1, NEW l \in 1 .. n + 1, k < l
          PROVE  /\ t.revisions[k].index < t.revisions[l].index
                 /\ t.revisions[k].timestamp < t.revisions[l].timestamp
      <4>1. k \in 1 .. n
        BY <1>3, <3>1
      <4>2. CASE l \in 1 .. n
        BY <1>3, <1>10, <2>2, <3>1, <4>1, <4>2 DEF MemoryOK, Rising
      <4>3. CASE l = n + 1
        BY <1>4, <1>10, <2>2, <4>1, <4>3
      <4> QED
        BY <1>3, <4>2, <4>3
    <3> QED
      BY <1>10, <2>2, <3>1 DEF Rising
  <2> QED
    BY <2>1, <2>2
<1>12. \A v \in versions' : \E k \in DOMAIN t.revisions : t.revisions[k] = v
  <2>1. \A v \in versions : \E k \in DOMAIN t.revisions : t.revisions[k] = v
    <3> SUFFICES ASSUME NEW v \in versions PROVE \E k \in DOMAIN t.revisions : t.revisions[k] = v
      OBVIOUS
    <3>1. PICK k \in DOMAIN s.revisions : s.revisions[k] = v
      BY <1>2, <1>3 DEF MemoryOK
    <3>2. k \in DOMAIN t.revisions /\ t.revisions[k] = v
      BY <1>3, <1>5, <1>10, <3>1
    <3> QED
      BY <3>2
  <2>2. IsKept(s) => n + 1 \in DOMAIN t.revisions /\ t.revisions[n + 1] = revision
    BY <1>3, <1>10
  <2> QED
    BY <1>8, <2>1, <2>2
<1>13. MemoryOK(i)'
  <2>1. \A k \in DOMAIN t.revisions : RevisionOK(t.revisions[k])'
    <3>1. \A k \in DOMAIN s.revisions : RevisionOK(s.revisions[k]) /\ s.revisions[k] \in PlanRevision
      BY <1>3 DEF MemoryOK
    <3>2. \A k \in DOMAIN t.revisions : t.revisions[k] = revision \/ \E l \in DOMAIN s.revisions : t.revisions[k] = s.revisions[l]
      BY <1>3, <1>5, <1>10
    <3>3. \A k \in DOMAIN t.revisions : t.revisions[k] \in PlanRevision /\ RevisionOK(t.revisions[k])
      BY <1>4, <3>1, <3>2
    <3> QED
      BY <1>7, <3>3
  <2>2. t.path # "none" => offset'[i] > 0
    BY <1>2, <1>3, <1>5 DEF MemoryOK
  <2> QED
    BY <1>4, <1>5, <1>6, <1>11, <1>12, <2>1, <2>2 DEF MemoryOK
<1>14. /\ op'[i].step \in {"idle", "latest"}
       /\ op'[i].step = "latest" => op'[i].text = op[i].text /\ op'[i].timestamp = op[i].timestamp
       /\ IsKept(s) <=> op'[i].step = "latest"
  BY <1>2, <1>3, NothingIsTyped DEF PlanGoto, PlanChanges
<1>15. ChangeOK(i)'
  BY <1>2, <1>3, <1>14 DEF ChangeOK, Dated
<1>16. HistoryOK'
  <2> SUFFICES ASSUME ~torn' PROVE HistoryOK'
    BY DEF HistoryOK
  <2>2. \A j \in Stores : op[j].step # "latest"
    BY <1>2 DEF OneStore
  <2>3. ~torn
    BY <1>2, <1>3 DEF PlanFiles
  <2>4. /\ IsHistory(ReadPlanVersions) /\ s.revisions = ReadPlanVersions
        /\ s.revisions = <<>> => s.content = NoText
        /\ latest = IF versions = {} THEN NoText ELSE Last(ReadPlanVersions).to
    BY <1>2, <1>3, <2>2, <2>3 DEF HistoryOK
  <2> DEFINE Same ==
        /\ IsHistory(ReadPlanVersions') /\ t.revisions = ReadPlanVersions'
        /\ IsKept(s) => versions' # {} /\ op'[i].text = Last(ReadPlanVersions').to
        /\ ~IsKept(s) => latest' = IF versions' = {} THEN NoText ELSE Last(ReadPlanVersions').to
  <2>5. ASSUME ~IsKept(s) PROVE Same
    BY <1>2, <1>5, <2>4, <2>5, SameVersions
  <2>6. ASSUME IsKept(s) PROVE Same
    <3>1. versions' = versions \cup {revision}
      BY <1>1, <1>2, <2>6, NewFile
    <3>2. t.revisions = ReadPlanVersions'
      <4>1. PlanFiles'
        BY RecordTyped DEF PlanTypes
      <4>2. \A k \in DOMAIN t.revisions : t.revisions[k] \in versions'
        <5>1. \A k \in DOMAIN s.revisions : s.revisions[k] \in versions
          BY <1>3, <2>4, VersionsSorted DEF Enumerates
        <5>2. \A k \in DOMAIN t.revisions : k \in DOMAIN s.revisions \/ k = n + 1
          BY <1>3, <1>10, <2>6
        <5> QED
          BY <1>10, <2>6, <3>1, <5>1, <5>2
      <4>3. versions' \in SUBSET PlanRevision /\ IsFiniteSet(versions') /\ Apart(versions')
        BY <4>1 DEF PlanFiles, Apart
      <4>4. Enumerates(t.revisions, versions')
        BY <1>11, <1>12, <4>2 DEF Enumerates, Rising, IsBefore
      <4> QED
        BY <1>10, <2>6, <4>3, <4>4, SortedUnique DEF ReadPlanVersions
    <3>3. IsHistory(t.revisions)
      <4>1. \A k \in 1 .. n : /\ s.revisions[k].index = k - 1
                              /\ s.revisions[k].from = IF k = 1 THEN NoText ELSE s.revisions[k - 1].to
        BY <1>10, <2>4, <2>6 DEF IsHistory
      <4>2. revision.index = n /\ revision.from = IF n = 0 THEN NoText ELSE s.revisions[n].to
        <5>1. CASE s.revisions = <<>>
          <6>1. revision.index = 0 /\ revision.from = NoText
            BY <1>1, <2>4, <5>1 DEF NewRevision
          <6> QED
            BY <5>1, <6>1
        <5>2. CASE s.revisions # <<>>
          <6>1. n \in 1 .. n /\ Last(s.revisions) = s.revisions[n] /\ n # 0
            BY <1>3, <5>2 DEF Last
          <6>2. s.content # NoText
            BY <1>4, <5>2
          <6>3. revision.index = n - 1 + 1 /\ revision.from = s.content
            BY <1>1, <4>1, <5>2, <6>1, <6>2 DEF NewRevision, NextPlanIndex
          <6>4. versions # {}
            BY <1>3, <2>4, <5>2, NoVersions
          <6>5. s.content = s.revisions[n].to
            <7>1. latest = s.revisions[n].to
              BY <2>4, <6>1, <6>4
            <7>2. RevisionOK(s.revisions[n])
              BY <1>3, <1>10, <2>6, <6>1 DEF MemoryOK
            <7> QED
              BY <1>2, <1>3, <7>1, <7>2 DEF ChangeOK, RevisionOK
          <6> QED
            BY <1>3, <6>1, <6>3, <6>5
        <5> QED
          BY <5>1, <5>2
      <4>3. ASSUME NEW k \in 1 .. n + 1
            PROVE  /\ t.revisions[k].index = k - 1
                   /\ t.revisions[k].from = IF k = 1 THEN NoText ELSE t.revisions[k - 1].to
        <5>1. CASE k \in 1 .. n
          <6>1. k # 1 => k - 1 \in 1 .. n
            BY <1>3, <5>1
          <6> QED
            BY <1>10, <2>6, <4>1, <5>1, <6>1
        <5>2. CASE k = n + 1
          <6>1. n # 0 => n \in 1 .. n
            BY <1>3
          <6>2. k - 1 = n /\ (k = 1 <=> n = 0)
            BY <1>3, <5>2
          <6> QED
            BY <1>10, <2>6, <4>2, <5>2, <6>1, <6>2
        <5> QED
          BY <1>3, <5>1, <5>2
      <4> QED
        BY <1>10, <2>6, <4>3 DEF IsHistory
    <3> QED
      BY <1>4, <1>10, <1>14, <2>6, <3>1, <3>2, <3>3
  <2>7. \A j \in Stores : session'[j] = t /\ op'[j] = op'[i]
    <3>1. \A j \in Stores : j = i
      BY DEF OneStore
    <3> QED
      BY <1>6, <3>1
  <2>8. Same
    BY <2>5, <2>6
  <2>9. \A j \in Stores : session'[j].isKnown =>
          /\ session'[j].revisions = ReadPlanVersions'
          /\ session'[j].revisions = <<>> => session'[j].content = NoText
    <3>1. t.revisions # <<>>
      <4>1. CASE IsKept(s)
        BY <1>10, <4>1
      <4>2. CASE ~IsKept(s)
        BY <1>5, <2>4, <4>2 DEF IsKept
      <4> QED
        BY <4>1, <4>2
    <3> QED
      BY <2>7, <2>8, <3>1
  <2>10. \A j \in Stores : op'[j].step = "latest" =>
           versions' # {} /\ op'[j].text = Last(ReadPlanVersions').to
    BY <1>14, <2>7, <2>8
  <2>11. (\A j \in Stores : op'[j].step # "latest") =>
           latest' = IF versions' = {} THEN NoText ELSE Last(ReadPlanVersions').to
    BY <1>14, <2>7, <2>8
  <2> QED
    BY <2>8, <2>9, <2>10, <2>11 DEF HistoryOK
<1> QED
  BY <1>9, <1>13, <1>15, <1>16, OnlyStore

LEMMA WritePlanLatestKeeps ==
  ASSUME PlanTypes, PlanInv, OneStore, NEW i \in Stores, WritePlanLatest(i) PROVE PlanInv'
<1>1. /\ HistoryOK /\ MemoryOK(i) /\ ChangeOK(i) /\ session[i] \in PlanSessions
      /\ session \in [Stores -> PlanSessions] /\ op \in [Stores -> PlanChanges]
  BY HaveStore DEF PlanTypes
<1>2. /\ UNCHANGED <<agentFiles, versions, session, offset, inHand>> /\ op[i].step = "latest"
      /\ op' = [op EXCEPT ![i] = Idle]
  BY DEF WritePlanLatest, reader
<1>3. op'[i].step = "idle"
  BY <1>1, <1>2, NothingIsTyped
<1>4. session' = [session EXCEPT ![i] = session[i]]
  BY <1>1, <1>2
<1>5. PlanLinesOK' /\ VersionsOK' /\ MemoryOK(i)'
  <2>1. session[i].content = NoText => session[i].revisions = <<>>
    BY <1>1, <1>2 DEF MemoryOK
  <2> QED
    BY <1>1, <1>2, <1>4, <2>1, StepKeeps
<1>6. ChangeOK(i)'
  BY <1>1, <1>2, <1>3 DEF ChangeOK, agentFiles
<1>7. HistoryOK'
  <2> SUFFICES ASSUME ~torn' PROVE HistoryOK'
    BY DEF HistoryOK
  <2>1. latest' = op[i].text /\ ~torn
    BY DEF WritePlanLatest
  <2>2. ReadPlanVersions' = ReadPlanVersions /\ versions' = versions /\ session' = session
    BY <1>2, SameVersions
  <2>3. \A j \in Stores : op'[j].step # "latest"
    BY <1>3 DEF OneStore
  <2> QED
    BY <1>1, <1>2, <2>1, <2>2, <2>3 DEF HistoryOK
<1> QED
  BY <1>5, <1>6, <1>7, OnlyStore

LEMMA LoadPlanKeeps == ASSUME PlanTypes, PlanInv, OneStore, NEW i \in Stores, LoadPlan(i) PROVE PlanInv'
<1>1. /\ PlanLinesOK /\ VersionsOK /\ HistoryOK /\ MemoryOK(i) /\ ChangeOK(i)
      /\ inHand \in [Stores -> Text]
  BY HaveStore DEF PlanTypes
<1>2. /\ UNCHANGED <<plan, transcript, clock, versions, latest, torn, session, offset, op>>
      /\ inHand' = [inHand EXCEPT ![i] = plan]
  BY DEF LoadPlan, agentFiles, disk
<1>3. PlanLinesOK' /\ VersionsOK' /\ MemoryOK(i)'
  BY <1>1, <1>2 DEF PlanLinesOK, VersionsOK, MemoryOK, RevisionOK, Dated
<1>4. HistoryOK'
  BY <1>1, <1>2, SameVersions DEF HistoryOK
<1>5. ChangeOK(i)'
  BY <1>1, <1>2 DEF ChangeOK, Dated
<1> QED
  BY <1>3, <1>4, <1>5, OnlyStore

LEMMA UpdatePlanForPathKeeps ==
  ASSUME PlanTypes, PlanInv, OneStore, NEW i \in Stores, UpdatePlanForPath(i) PROVE PlanInv'
<1>1. /\ PlanLinesOK /\ VersionsOK /\ HistoryOK /\ MemoryOK(i) /\ ChangeOK(i) /\ clock \in Nat
      /\ session[i] \in PlanSessions /\ offset \in [Stores -> Nat] /\ StoreOK(i)
      /\ inHand \in [Stores -> Text] /\ transcript \in Seq(PlanLines) /\ offset[i] \in Nat
  BY HaveStore, StoreTyped DEF PlanTypes, PlanFiles
<1>2. /\ UNCHANGED <<plan, transcript, disk, offset>> /\ inHand' = [inHand EXCEPT ![i] = NoText]
      /\ inHand[i] # NoText /\ op[i].step = "idle"
  BY DEF UpdatePlanForPath
<1>3. inHand'[i] = NoText /\ UNCHANGED <<versions, latest, torn>>
  BY <1>1, <1>2 DEF disk
<1>4. CASE session[i].path = "reported"
  <2>1. PICK time \in Nat, text \in Text : time = clock + 1 /\ text = inHand[i]
    BY <1>1
  <2>2. clock' = time /\ SetPlanContent(i, session[i], text, time, "planWatcher")
    BY <1>4, <2>1 DEF UpdatePlanForPath
  <2>3. session[i].isKnown /\ offset[i] > 0
    BY <1>1, <1>4 DEF StoreOK, NoPlanSession, MemoryOK
  <2>4. Dated(time)'
    <3>1. transcript # <<>> /\ 1 \in DOMAIN transcript
      BY <1>1, <2>3 DEF StoreOK
    <3>2. transcript[1].timestamp <= clock /\ transcript[1].timestamp \in Nat
      <4>1. transcript[1] \in PlanLines /\ transcript[1].timestamp <= clock
        BY <1>1, <3>1 DEF PlanLinesOK, Dated
      <4> QED
        BY <4>1 DEF PlanLines
    <3>3. transcript[1].timestamp <= time /\ time <= time
      BY <1>1, <2>1, <3>2
    <3> QED
      BY <1>2, <2>2, <3>1, <3>3 DEF Dated
  <2>5. text # NoText => plan # NoText
    BY <1>1, <2>1 DEF ChangeOK
  <2>6. clock' \in Nat /\ clock <= clock'
    BY <1>1, <2>1, <2>2
  <2>7. offset' \in [Stores -> Nat] /\ offset'[i] > 0
    BY <1>1, <1>2, <2>3
  <2>8. PICK s \in PlanSessions : s = session[i]
    BY <1>1
  <2>9. SetPlanContent(i, s, text, time, "planWatcher")
    BY <2>2, <2>8
  <2>10. ~(offset[i] = 0)
    BY <1>1, <2>3
  <2> QED
    BY <1>2, <1>3, <2>3, <2>4, <2>5, <2>6, <2>7, <2>8, <2>9, <2>10, ChangeSetKeeps
<1>5. CASE session[i].path # "reported"
  <2>1. UNCHANGED <<plan, transcript, clock, versions, latest, torn, session, offset, op>>
    BY <1>2, <1>3, <1>5 DEF UpdatePlanForPath
  <2>2. PlanLinesOK' /\ VersionsOK' /\ MemoryOK(i)'
    BY <1>1, <2>1 DEF PlanLinesOK, VersionsOK, MemoryOK, RevisionOK, Dated
  <2>3. HistoryOK'
    BY <1>1, <2>1, SameVersions DEF HistoryOK
  <2>4. ChangeOK(i)'
    BY <1>1, <1>3, <2>1 DEF ChangeOK, Dated
  <2> QED
    BY <2>2, <2>3, <2>4, OnlyStore
<1> QED
  BY <1>4, <1>5

LEMMA RewarmKeeps == ASSUME PlanTypes, PlanInv, OneStore, NEW i \in Stores, Rewarm(i) PROVE PlanInv'
<1>1. /\ PlanLinesOK /\ VersionsOK /\ HistoryOK /\ MemoryOK(i) /\ ChangeOK(i)
  BY HaveStore
<1>2. UNCHANGED <<plan, transcript, clock, versions, latest, torn, session, offset, op, inHand>>
  BY DEF Rewarm, agentFiles, disk
<1>3. PlanLinesOK' /\ VersionsOK' /\ MemoryOK(i)'
  BY <1>1, <1>2 DEF PlanLinesOK, VersionsOK, MemoryOK, RevisionOK, Dated
<1>4. HistoryOK'
  BY <1>1, <1>2, SameVersions DEF HistoryOK
<1>5. ChangeOK(i)'
  BY <1>1, <1>2 DEF ChangeOK, Dated
<1> QED
  BY <1>3, <1>4, <1>5, OnlyStore

LEMMA RestartKeeps == ASSUME PlanTypes, PlanInv, OneStore, NEW i \in Stores, PlanRestart(i) PROVE PlanInv'
<1>1. /\ PlanLinesOK /\ VersionsOK /\ HistoryOK /\ MemoryOK(i) /\ ChangeOK(i) /\ torn \in BOOLEAN
      /\ session \in [Stores -> PlanSessions] /\ op \in [Stores -> PlanChanges]
      /\ offset \in [Stores -> Nat] /\ inHand \in [Stores -> Text]
  BY HaveStore DEF PlanTypes, PlanFiles
<1>2. /\ UNCHANGED <<plan, transcript, clock, versions, latest>> /\ torn' = (torn \/ op[i].step = "latest")
      /\ session'[i] = NoPlanSession /\ op'[i] = Idle /\ inHand'[i] = NoText
  BY <1>1 DEF PlanRestart, agentFiles
<1>3. PlanLinesOK' /\ VersionsOK'
  BY <1>1, <1>2 DEF PlanLinesOK, VersionsOK, RevisionOK, Dated
<1>4. MemoryOK(i)'
  BY <1>2, EmptyCounts DEF MemoryOK, CountsOK, NoPlanSession
<1>5. ChangeOK(i)'
  BY <1>2, NothingIsTyped DEF ChangeOK
<1>6. HistoryOK'
  <2>1. CASE op[i].step = "latest"
    BY <1>2, <2>1 DEF HistoryOK
  <2>2. CASE op[i].step # "latest"
    BY <1>1, <1>2, <2>2, NothingIsTyped, HistoryStays
  <2> QED
    BY <2>1, <2>2
<1> QED
  BY <1>3, <1>4, <1>5, <1>6, OnlyStore

LEMMA NextPlanInv ==
  ASSUME PlanTypes, PlanInv, OneStore, [PlanNext]_planVars PROVE PlanInv'
<1>1. CASE EditPlan
  BY <1>1, EditPlanKeeps
<1>2. CASE WriteLine
  BY <1>2, WriteLineKeeps
<1>3. ASSUME NEW i \in Stores, StoreStep(i) PROVE PlanInv'
  BY <1>3, HydrateKeeps, HydrateLatestKeeps, ReadLineKeeps, SyncKeeps, AdoptKeeps, RecordKeeps,
     WritePlanLatestKeeps DEF StoreStep
<1>4. ASSUME NEW i \in Stores, WatcherStep(i) \/ Rewarm(i) \/ PlanRestart(i) PROVE PlanInv'
  BY <1>4, LoadPlanKeeps, UpdatePlanForPathKeeps, RewarmKeeps, RestartKeeps DEF WatcherStep
<1>5. CASE UNCHANGED planVars
  <2>1. UNCHANGED <<plan, transcript, clock, versions, latest, torn, session, offset, op, inHand>>
    BY <1>5 DEF planVars, agentFiles, disk, reader
  <2>2. PlanLinesOK' /\ VersionsOK' /\ \A i \in Stores : MemoryOK(i)' /\ ChangeOK(i)'
    BY <2>1 DEF PlanInv, PlanLinesOK, VersionsOK, MemoryOK, ChangeOK, RevisionOK, Dated
  <2>3. HistoryOK'
    BY <2>1, SameVersions DEF PlanInv, HistoryOK
  <2> QED
    BY <2>2, <2>3 DEF PlanInv
<1> QED
  BY <1>1, <1>2, <1>3, <1>4, <1>5 DEF PlanNext

\* For one instance, any texts, any cap, whatever writes fail and wherever it restarts:
\* the revision files are in the order of their changes, each change once, and while no
\* write of a pair was lost they are one history that ends in latest.md and that memory
\* shares (recordPlanRevision, syncPlanFromDisk, hydratePlanState, isPlanReplay).
THEOREM OneHistoryCorrect == ASSUME OneStore PROVE PlanSpec => []OneHistory
<1>1. PlanInit => PlanTypes /\ PlanInv
  BY InitPlanTypes, InitPlanInv
<1>2. PlanTypes /\ PlanInv /\ [PlanNext]_planVars => (PlanTypes /\ PlanInv)'
  BY NextPlanTypes, NextPlanInv
<1>3. PlanTypes /\ PlanInv => OneHistory
  BY PlanInvIs
<1>4. QED BY <1>1, <1>2, <1>3, PTL DEF PlanSpec

\* Where it is alone, no change of plan is written over another (WritePlanVersion): the
\* number it takes is free on the disk, though some of its own writes were lost.
THEOREM NoneOverwrittenAlone == ASSUME OneStore PROVE PlanSpec => NoneOverwritten
<1>1. PlanInit => PlanTypes /\ PlanInv
  BY InitPlanTypes, InitPlanInv
<1>2. PlanTypes /\ PlanInv /\ [PlanNext]_planVars => (PlanTypes /\ PlanInv)'
  BY NextPlanTypes, NextPlanInv
<1>3. PlanTypes /\ PlanInv /\ [PlanNext]_planVars => [versions \subseteq versions']_planVars
  <2> SUFFICES ASSUME PlanTypes, PlanInv, PlanNext PROVE versions \subseteq versions'
    OBVIOUS
  <2>1. ASSUME NEW i \in Stores, Record(i) PROVE versions \subseteq versions'
    BY <2>1, RecordIs, NewFile
  <2>2. ASSUME NEW i \in Stores, StoreStep(i), ~Record(i) PROVE versions' = versions
    BY <2>2 DEF StoreStep, Hydrate, HydrateLatest, ReadLine, Sync, Adopt, WritePlanLatest, disk
  <2>3. ASSUME NEW i \in Stores, WatcherStep(i) \/ Rewarm(i) \/ PlanRestart(i) PROVE versions' = versions
    BY <2>3 DEF WatcherStep, LoadPlan, UpdatePlanForPath, Rewarm, PlanRestart, disk
  <2>4. CASE EditPlan \/ WriteLine
    BY <2>4 DEF EditPlan, WriteLine, disk
  <2> QED
    BY <2>1, <2>2, <2>3, <2>4 DEF PlanNext
<1>4. QED BY <1>1, <1>2, <1>3, PTL DEF PlanSpec, NoneOverwritten

=============================================================================

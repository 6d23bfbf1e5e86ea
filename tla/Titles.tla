-------------------------------- MODULE Titles --------------------------------
(***************************************************************************)
(* The titles of the sessions, and finding a session by one: the title        *)
(* branch of AddTurnBySessionId, setTitle and GetByTitle (session/store.go),  *)
(* the watcher of Codex's index (watcher/codex_index_watcher.go), and what a  *)
(* cold phase keeps.                                                          *)
(*                                                                         *)
(* A Claude session is titled by the lines of its transcript, a Codex session *)
(* by the index; either by its first prompt until then.  The watchers of the  *)
(* transcripts and of the index run beside each other.                        *)
(***************************************************************************)
EXTENDS Integers, Sequences

CONSTANTS
  Claude, Codex,      \* the sessions of each agent
  Titles, NoTitle,
  Plain,              \* Plain[t] is title t trimmed and in lower case
  IsIn,               \* the pairs of plain titles of which the first is part of the second
  MaxWrites, MaxStops \* bounds: lines the agents write, cold phases

Sessions == Claude \cup Codex

ASSUME TitlesAssumption ==
  /\ Claude \cap Codex = {} /\ NoTitle \notin Titles /\ Plain \in [Titles -> Titles]
  /\ IsIn \subseteq Titles \X Titles /\ \A t \in Titles : <<t, t>> \in IsIn
  /\ MaxWrites \in Nat /\ MaxStops \in Nat

VARIABLES
  lines,     \* the titles in each transcript: prompts, and the titles set by hand
  index,     \* the entries of session_index.jsonl
  torn,      \* whether the last of them is half written
  clock,     \* counts the lines
  \* Store
  title, titleSource, plain, activeAt,   \* Title, TitleSource, plainTitleById, LastActive
  read,      \* the transcript watchers' positions
  \* CodexIndexWatcher
  due,       \* the index is to be loaded: at the start, or the debounce timer runs
  loading,   \* the entries loadIndex has read and not yet passed to the store
  \* a cold phase
  cold,      \* whether the store is empty, its sessions in the snapshot
  saved,     \* the snapshot
  stops

disk         == <<lines, index, torn, clock>>
store        == <<title, titleSource, plain, activeAt, read>>
titleWatcher == <<due, loading>>
cooling      == <<cold, saved, stops>>
titleVars    == <<disk, store, titleWatcher, cooling>>

Line       == [kind : {"prompt", "custom"}, title : Titles \cup {NoTitle}, at : Nat]
IndexEntry == [session : Codex, title : Titles, at : Nat]
Rank(s) == CASE s = "custom" -> 2 [] s = "index" -> 1 [] s \in {"derived", "none"} -> 0

Untitled == [s \in Sessions |-> NoTitle]
NoStore  == [title |-> Untitled, source |-> [s \in Sessions |-> "none"], plain |-> Untitled,
             active |-> [s \in Sessions |-> 0], read |-> [s \in Sessions |-> 0]]

Becomes(st) ==
  /\ title' = st.title /\ titleSource' = st.source /\ plain' = st.plain
  /\ activeAt' = st.active /\ read' = st.read

TitleTypeOK ==
  /\ \A s \in Sessions : \A n \in DOMAIN lines[s] : lines[s][n] \in Line
  /\ \A n \in DOMAIN index : index[n] \in IndexEntry
  /\ torn \in BOOLEAN /\ clock \in Nat /\ due \in BOOLEAN /\ cold \in BOOLEAN
  /\ title \in [Sessions -> Titles \cup {NoTitle}] /\ plain \in [Sessions -> Titles \cup {NoTitle}]
  /\ titleSource \in [Sessions -> {"none", "derived", "index", "custom"}]
  /\ \A s \in Sessions : read[s] \in 0 .. Len(lines[s]) /\ activeAt[s] \in 0 .. clock
  /\ loading \subseteq IndexEntry /\ stops \in 0 .. MaxStops
  /\ DOMAIN saved = DOMAIN NoStore /\ (~cold => saved = NoStore)

TitleInit ==
  /\ lines = [s \in Sessions |-> <<>>] /\ index = <<>> /\ torn = FALSE /\ clock = 0
  /\ title = NoStore.title /\ titleSource = NoStore.source /\ plain = NoStore.plain
  /\ activeAt = NoStore.active /\ read = NoStore.read
  /\ due = TRUE /\ loading = {} /\ cold = FALSE /\ saved = NoStore /\ stops = 0

-----------------------------------------------------------------------------
(* The agents.                                                               *)

\* A prompt, whose first line makes a title or does not, or a title set by hand.
WriteLine(s) ==
  /\ clock < MaxWrites /\ clock' = clock + 1
  /\ \E kind \in {"prompt"} \cup (IF s \in Claude THEN {"custom"} ELSE {}) :
     \E t \in Titles \cup (IF kind = "prompt" THEN {NoTitle} ELSE {}) :
       lines' = [lines EXCEPT ![s] = Append(@, [kind |-> kind, title |-> t, at |-> clock'])]
  /\ UNCHANGED <<index, torn, store, titleWatcher, cooling>>

\* Codex names a thread, or names it anew: first half a line, then the rest.
Name(s, t) ==
  /\ clock < MaxWrites /\ clock' = clock + 1 /\ ~torn /\ torn' = TRUE /\ due' = ~cold
  /\ index' = Append(index, [session |-> s, title |-> t, at |-> clock'])
  /\ UNCHANGED <<lines, store, loading, cooling>>

FinishName ==
  /\ torn /\ torn' = FALSE /\ due' = ~cold
  /\ UNCHANGED <<lines, index, clock, store, loading, cooling>>

-----------------------------------------------------------------------------
(* The store.                                                                *)

\* HasNewTitle: a title of a lower rank does not replace one of a higher.
HasNewTitle(s, t, from) == Rank(from) >= Rank(titleSource[s]) /\ title[s] # t

SetTitle(s, t, from) ==
  /\ title' = [title EXCEPT ![s] = t] /\ titleSource' = [titleSource EXCEPT ![s] = from]
  /\ plain' = [plain EXCEPT ![s] = Plain[t]]

KeepTitle == UNCHANGED <<title, titleSource, plain>>

\* A turn that carries only a title.
TitleTurn(s, t, from, at) ==
  /\ activeAt' = [activeAt EXCEPT ![s] = IF @ = 0 THEN at ELSE @]
  /\ IF HasNewTitle(s, t, from) THEN SetTitle(s, t, from) ELSE KeepTitle

\* A prompt titles a session that has no title yet.
PromptTurn(s, t, at) ==
  /\ activeAt' = [activeAt EXCEPT ![s] = at]
  /\ IF title[s] = NoTitle /\ t # NoTitle THEN SetTitle(s, t, "derived") ELSE KeepTitle

\* The transcript watcher reads a line; the title lines of a transcript have no time.
ReadLine(s) ==
  /\ ~cold /\ read[s] < Len(lines[s]) /\ read' = [read EXCEPT ![s] = @ + 1]
  /\ LET line == lines[s][read'[s]] IN
       \/ line.kind = "prompt" /\ PromptTurn(s, line.title, line.at)
       \/ line.kind = "custom" /\ TitleTurn(s, line.title, "custom", 0)
  /\ UNCHANGED <<disk, titleWatcher, cooling>>

\* Mutant: each session's first entry is kept.
WinnersFirst(whole) ==
  {whole[n] : n \in {n \in DOMAIN whole : \A k \in 1 .. n - 1 : whole[k].session # whole[n].session}}

\* The last entry of each session wins.
Winners(whole) ==
  {whole[n] : n \in {n \in DOMAIN whole :
     \A k \in n + 1 .. Len(whole) : whole[k].session # whole[n].session}}

\* loadIndex reads the file and skips a line it cannot parse.
LoadIndex ==
  /\ ~cold /\ due /\ loading = {} /\ due' = FALSE
  /\ loading' = Winners(IF torn THEN SubSeq(index, 1, Len(index) - 1) ELSE index)
  /\ UNCHANGED <<disk, store, cooling>>

\* loadIndex passes the entries on, in the order of a Go map.
ApplyEntry(entry) ==
  /\ entry \in loading /\ loading' = loading \ {entry}
  /\ TitleTurn(entry.session, entry.title, "index", entry.at)
  /\ UNCHANGED <<disk, read, due, cooling>>

-----------------------------------------------------------------------------
(* Cold phases.                                                              *)

\* stop waits for the watchers to return, writes the snapshot and resets the store.
Cool ==
  /\ ~cold /\ loading = {} /\ stops < MaxStops /\ stops' = stops + 1
  /\ cold' = TRUE /\ due' = FALSE
  /\ saved' = [title |-> title, source |-> titleSource, plain |-> plain, active |-> activeAt,
               read |-> read]
  /\ Becomes(NoStore)
  /\ UNCHANGED <<disk, loading>>

\* Mutant: the lower-case titles are not restored.
RestoredTitles == [saved EXCEPT !.plain = Untitled]

\* Restore.
Restored == saved

\* The next warm period reads the snapshot, or all transcripts when there is none to
\* read, and loads the index.
Warm ==
  /\ cold /\ cold' = FALSE /\ due' = TRUE
  /\ Becomes(Restored) \/ Becomes(NoStore)
  /\ saved' = NoStore
  /\ UNCHANGED <<disk, loading, stops>>

TitleNext ==
  \/ \E s \in Sessions : WriteLine(s) \/ ReadLine(s)
  \/ \E s \in Codex, t \in Titles : Name(s, t)
  \/ \E entry \in loading : ApplyEntry(entry)
  \/ FinishName \/ LoadIndex \/ Cool \/ Warm

TitleSpec == TitleInit /\ [][TitleNext]_titleVars

-----------------------------------------------------------------------------
(* GetByTitle and Last.                                                      *)

\* The sessions of an agent whose plain title is, or contains, the needle.
Exact(needle, agents) == {s \in agents : plain[s] = needle}
Containing(needle, agents) ==
  {s \in agents : plain[s] # needle /\ <<needle, plain[s]>> \in IsIn}

LastActive(found) == {s \in found : \A k \in found : activeAt[k] <= activeAt[s]}

\* The sessions GetByTitle may return; none when it returns an error.
GetByTitle(t, agents) ==
  LET exact == Exact(Plain[t], agents)
      parts == Containing(Plain[t], agents)
  IN  CASE exact # {}                             -> LastActive(exact)
        [] exact = {} /\ \E s \in parts : parts = {s} -> parts
        [] OTHER                                  -> {}

-----------------------------------------------------------------------------
(* Properties.                                                               *)

\* Places in a transcript or in the index.
ByHand(s)         == {n \in DOMAIN lines[s] : lines[s][n].kind = "custom"}
TitlingPrompts(s) ==
  {n \in DOMAIN lines[s] : lines[s][n].kind = "prompt" /\ lines[s][n].title # NoTitle}
Names(s)          == {n \in DOMAIN index : index[n].session = s}

LastOf(places)  == CHOOSE n \in places : \A m \in places : m <= n
FirstOf(places) == CHOOSE n \in places : \A m \in places : n <= m

\* The title the files give a session: the last one set by hand, else the last name in
\* the index, else the first prompt that makes one.
TitleOnDisk(s) ==
  CASE ByHand(s) # {} -> lines[s][LastOf(ByHand(s))].title
    [] ByHand(s) = {} /\ Names(s) # {} -> index[LastOf(Names(s))].title
    [] ByHand(s) = {} /\ Names(s) = {} /\ TitlingPrompts(s) # {} ->
         lines[s][FirstOf(TitlingPrompts(s))].title
    [] ByHand(s) = {} /\ Names(s) = {} /\ TitlingPrompts(s) = {} -> NoTitle

\* The watchers have read what there is.
AllRead ==
  /\ ~cold /\ ~torn /\ ~due /\ loading = {}
  /\ \A s \in Sessions : read[s] = Len(lines[s])

\* Once everything is read a session has the title the files give it, in whatever order
\* its rollout, the index and its entries were read, half-written lines and cold phases
\* included (AddTurnBySessionId, loadIndex, Restore; docs/tools.md:9, "for Codex, titles
\* come from Codex's session index").
TitleSettles == AllRead => \A s \in Sessions : title[s] = TitleOnDisk(s)

\* A session is found by the title it shows: by that very title comes the session, or one
\* of the same title that was active as late, also after a cold phase (setTitle and
\* Restore keep plainTitleById in step; docs/tools.md:9, "matched exact-first
\* (case-insensitive)").
FoundByTitle ==
  \A agents \in {Claude, Codex, Sessions} : \A s \in agents :
    title[s] # NoTitle =>
      LET found == GetByTitle(title[s], agents) IN
        /\ found # {}
        /\ \A k \in found : Plain[title[k]] = Plain[title[s]] /\ activeAt[k] >= activeAt[s]

=============================================================================

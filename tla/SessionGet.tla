------------------------------ MODULE SessionGet ------------------------------
(***************************************************************************)
(* The tools session_get and session_events (tools/tools.go): how a call puts *)
(* its answer together beside the watchers that go on changing the session,   *)
(* and how the client gets it page by page.                                   *)
(*                                                                         *)
(* A section of the session is the number of its last change; TextOf says     *)
(* what it looks like.  Every event is of a kind that has a counter.  One call is *)
(* made.  It reads turns and header under the store's lock, the diff with its *)
(* target likewise, and every other section, and the counters, off the session *)
(* it found, without a lock.  A call that finds no session, or no such        *)
(* subagent, ends in an error and changes nothing.                            *)
(***************************************************************************)
EXTENDS Paging, PageStore

CONSTANTS
  Requests,     \* what clients ask for: tool, client, json, and the sections
  TextOf,       \* TextOf[section][n] is the section's text after its n-th change
  MaxChanges    \* bounds: changes of each section; they end, like the calls, with an answer

AllSections == {"turns", "events", "plan", "revisions", "diff", "uncommitted", "memory"}

ASSUME SessionGetAssumption ==
  /\ MaxChanges \in [AllSections -> Nat]
  /\ \A s \in AllSections : TextOf[s] \in [0 .. MaxChanges[s] -> Seq(Chars)]
  /\ \A request \in Requests :
       \/ request.tool = "session_get" /\ request.sections \subseteq AllSections \ {"revisions"}
       \/ request.tool = "session_events" /\ request.sections \subseteq {"events", "revisions"}

VARIABLES
  live,         \* the session: the number of each section's last change
  counted,      \* the events that its counters count
  adding,       \* a turn is being added, under the store's lock
  call,         \* the call that reads it
  answer        \* its answer; its id is "" when it was a single page

sessionVars == <<live, counted, adding>>
getVars == <<sessionVars, call, answer, storeVars>>

Order(request) == IF request.tool = "session_get" THEN GetSections ELSE EventsSections

NoRequest == [tool |-> "none", client |-> "none", json |-> FALSE, sections |-> {}]
NoCall    == [request |-> NoRequest, todo |-> <<>>, seen |-> [s \in AllSections |-> 0],
              header |-> 0, target |-> 0]
NoAnswer  == [call |-> NoCall, id |-> "", texts |-> <<>>, first |-> <<>>]

GetTypeOK ==
  /\ StoreTypeOK
  /\ DOMAIN live = AllSections /\ DOMAIN call.seen = AllSections
  /\ \A s \in AllSections : live[s] \in 0 .. MaxChanges[s] /\ call.seen[s] \in 0 .. live[s]
  /\ counted \in 0 .. live["events"] /\ adding \in BOOLEAN
  /\ call.request \in Requests \cup {NoRequest}
  /\ answer.call.request \in Requests \cup {NoRequest} /\ answer.id \in Ids \cup {""}

GetInit ==
  /\ StoreInit
  /\ live = [s \in AllSections |-> 0] /\ counted = 0 /\ adding = FALSE
  /\ call = NoCall /\ answer = NoAnswer

-----------------------------------------------------------------------------
(* The watchers.  Whoever changes the session holds the store's lock, but the  *)
(* calls read most of it without.                                            *)

\* Changes of some sections, until there is an answer.
Change(sections) ==
  /\ answer = NoAnswer
  /\ \A s \in sections : live[s] < MaxChanges[s]
  /\ live' = [s \in AllSections |-> IF s \in sections THEN live[s] + 1 ELSE live[s]]
  /\ UNCHANGED <<call, answer, storeVars>>

\* AddTurnBySessionId and addSubagentTurn: each event of the turn is pushed and then
\* counted (Session.AddEvent), and the turn comes last, if the line is more than a signal.
PushEvent ==
  /\ adding => counted = live["events"]
  /\ adding' = TRUE /\ Change({"events"}) /\ UNCHANGED counted

CountEvent ==
  /\ answer = NoAnswer /\ adding /\ counted < live["events"] /\ counted' = live["events"]
  /\ UNCHANGED <<live, adding, call, answer, storeVars>>

FinishTurn ==
  /\ adding /\ counted = live["events"] /\ adding' = FALSE /\ UNCHANGED counted
  /\ \E sections \in {{}, {"turns"}} : Change(sections)

\* A turn without events; the plan; UpdateDiff; UpdateUncommittedDiff; and the agent's
\* memory files, which are no part of the store.
Watch ==
  /\ UNCHANGED <<counted, adding>>
  /\ \/ ~adding /\ \E sections \in {{"turns"}, {"plan", "revisions"}, {"diff"}, {"uncommitted"}} :
                     Change(sections)
     \/ Change({"memory"})

-----------------------------------------------------------------------------
(* The call.                                                                 *)

\* GetById takes the lock to find the session.
Call(request) ==
  /\ call = NoCall /\ answer = NoAnswer /\ ~adding
  /\ call' = [NoCall EXCEPT !.request = request,
       !.todo = SelectSeq(Order(request), LAMBDA s : s \in request.sections)]
  /\ UNCHANGED <<sessionVars, answer, storeVars>>

\* WithSession reads the turns and their totals in one critical section.
HeaderRead(section) == IF section = "turns" THEN live["turns"] ELSE call.header

\* Structured answers take the target that LoadDiff returns with the diff.
TargetRead(section) ==
  IF section = "diff" /\ call.request.json THEN live["diff"] ELSE call.target

\* WithSession and LoadDiff take the lock, the other sections are read without.
Locked == {"turns", "diff"}

ReadSection ==
  /\ call.todo # <<>> /\ (Head(call.todo) \in Locked => ~adding)
  /\ LET section == Head(call.todo) IN
       call' = [call EXCEPT !.todo = Tail(@), !.seen[section] = live[section],
                            !.header = HeaderRead(section), !.target = TargetRead(section)]
  /\ UNCHANGED <<sessionVars, answer, storeVars>>

\* session_events reads the counters after the events.
FinalHeader == IF call.request.tool = "session_events" THEN counted ELSE call.header

\* Mutant: structured answers too name the target of now.
FinalTargetNow == live["diff"]

\* Paged answers name the target the session has when the pages are built.
FinalTarget == IF call.request.json THEN call.target ELSE live["diff"]

\* maxResponseBytes; structured answers are not split.
PageSize == IF call.request.client = "claude" /\ ~call.request.json THEN Size ELSE 0

Answer ==
  /\ call # NoCall /\ call.todo = <<>> /\ call' = NoCall /\ UNCHANGED sessionVars
  /\ LET order == Order(call.request)
         texts == [s \in {order[n] : n \in DOMAIN order} |->
                     IF s \in call.request.sections THEN TextOf[s][call.seen[s]] ELSE <<>>]
         pages == Build(order, PageSize, texts)
         given == [call  |-> [call EXCEPT !.header = FinalHeader, !.target = FinalTarget],
                   id    |-> "", texts |-> texts, first |-> Head(pages)]
     IN  \/ /\ Tail(pages) = <<>> /\ answer' = given /\ UNCHANGED storeVars
         \/ \E i \in Ids : AddPages(i, Tail(pages)) /\ answer' = [given EXCEPT !.id = i]

NextPage(c) == PageStep(c) /\ UNCHANGED <<sessionVars, call, answer>>

GetNext ==
  \/ PushEvent \/ CountEvent \/ FinishTurn \/ Watch
  \/ ReadSection \/ Answer
  \/ \E request \in Requests : Call(request)
  \/ \E c \in Callers : NextPage(c)

GetSpec == GetInit /\ [][GetNext]_getVars

-----------------------------------------------------------------------------
(* Properties.                                                               *)

Asked == answer.call.request

\* The totals of an answer are those of its turns, the counters of session_events count
\* all the events it lists but at most the one that was being added, and a structured
\* answer names the target of the very diff it carries, whatever the watchers change while
\* the call reads (tools.go:275, 465-496, 318; AddEvent pushes before it counts).
PartsAgree ==
  /\ "turns" \in Asked.sections => answer.call.header = answer.call.seen["turns"]
  /\ Asked.tool = "session_events" => answer.call.header + 1 >= answer.call.seen["events"]
  /\ Asked.json /\ "diff" \in Asked.sections => answer.call.target = answer.call.seen["diff"]

\* The pages of the answer that its client has by now, and whether it was told
\* that there are no more.
HasPages == <<answer.first>> \o (IF answer.id = "" THEN <<>> ELSE handed[answer.id])
HasAll   == answer.id = "" \/ answer.id \in ended

IsPlain(text) == \A n \in DOMAIN text : Width[text[n]] = 1

\* A page is no longer than the client takes, the chunks of a section join to a prefix
\* of what the call read, and to all of it once the client is told that there is no more,
\* when every character is one byte (build, UTF8SafeSlice).
ChunksJoin ==
  LET pages == HasPages IN
    answer # NoAnswer =>
      /\ Asked.client = "claude" /\ ~Asked.json =>
           \A n \in DOMAIN pages : ContentSize(Order(Asked), pages[n]) <= Size
      /\ \A s \in DOMAIN answer.texts : IsPrefix(Joined(pages, s), answer.texts[s])
      /\ HasAll /\ (\A s \in DOMAIN answer.texts : IsPlain(answer.texts[s])) =>
           \A s \in DOMAIN answer.texts : Joined(pages, s) = answer.texts[s]

\* docs/tools.md:10: "concatenate the chunks across pages, then parse the result": the
\* chunks a client has been given when has_more is false are the whole section.
AnswerIsWhole ==
  answer # NoAnswer /\ HasAll =>
    \A s \in DOMAIN answer.texts : Joined(HasPages, s) = answer.texts[s]

=============================================================================

------------------------------- MODULE PageStore -------------------------------
(***************************************************************************)
(* The pages of the answers that did not fit into one (tools/pages.go,        *)
(* PageStore, and the request_id branch of the handlers in tools/tools.go).   *)
(* A handler queues what is left of an answer under a new request id.  A call *)
(* with that id takes a page, asks whether there is another, drops the entry  *)
(* when there is none, and asks once more for has_more: four critical         *)
(* sections, between which the calls of other clients come.                   *)
(***************************************************************************)
EXTENDS Naturals, Sequences

CONSTANTS
  Callers,   \* the calls that may be under way at a time
  Ids,       \* request ids; "" is none
  Pages      \* what a page may be

ASSUME PageStoreAssumption == "" \notin Ids

VARIABLES
  open,      \* the ids PagesByRequestId has an entry for
  queue,     \* the pages in each one's channel, which was closed when it was filled
  at,        \* where each call is
  asked,     \* its request id
  \* history
  built,     \* the pages that were queued under each id
  handed,    \* those that calls have taken, in this order
  ended,     \* the ids of which an answer said has_more = false
  shared,    \* the ids two calls were under way with at the same time
  empty      \* the ids of which a call took nothing from the drained channel

entries   == <<open, queue>>
calls     == <<at, asked>>
told      == <<built, handed, ended, shared, empty>>
storeVars == <<entries, calls, told>>

StoreTypeOK ==
  /\ open \subseteq Ids /\ queue \in [Ids -> Seq(Pages)]
  /\ at \in [Callers -> {"idle", "took", "drained", "more"}] /\ asked \in [Callers -> Ids \cup {""}]
  /\ built \in [Ids -> Seq(Pages)] /\ handed \in [Ids -> Seq(Pages)]
  /\ ended \subseteq Ids /\ shared \subseteq Ids /\ empty \subseteq Ids

StoreInit ==
  /\ open = {} /\ queue = [i \in Ids |-> <<>>]
  /\ at = [c \in Callers |-> "idle"] /\ asked = [c \in Callers |-> ""]
  /\ built = [i \in Ids |-> <<>>] /\ handed = [i \in Ids |-> <<>>]
  /\ ended = {} /\ shared = {} /\ empty = {}

Issued == {i \in Ids : built[i] # <<>>}

\* add: the ids are new (uuid.NewString), and there is at least one page.
AddPages(i, pages) ==
  /\ i \notin Issued /\ pages # <<>>
  /\ open' = open \cup {i} /\ queue' = [queue EXCEPT ![i] = pages]
  /\ built' = [built EXCEPT ![i] = pages]
  /\ UNCHANGED <<calls, handed, ended, shared, empty>>

Goto(c, label) == at' = [at EXCEPT ![c] = label]

Return(c) == Goto(c, "idle") /\ asked' = [asked EXCEPT ![c] = ""]

Busy(i) == {c \in Callers : at[c] # "idle" /\ asked[c] = i}

\* next: a closed channel that is drained yields the zero value, with ok = true.  A
\* call whose id has no entry fails and changes nothing.
TakePage(c, i) ==
  /\ at[c] = "idle" /\ i \in open /\ Goto(c, "took")
  /\ asked' = [asked EXCEPT ![c] = i]
  /\ shared' = IF Busy(i) # {} THEN shared \cup {i} ELSE shared
  /\ \/ /\ queue[i] # <<>>
        /\ queue' = [queue EXCEPT ![i] = Tail(@)]
        /\ handed' = [handed EXCEPT ![i] = Append(@, Head(queue[i]))]
        /\ UNCHANGED empty
     \/ /\ queue[i] = <<>> /\ empty' = empty \cup {i}
        /\ UNCHANGED <<queue, handed>>
  /\ UNCHANGED <<open, built, ended>>

\* Mutant: one page more is not another.
HasNextButOne(i) == i \in open /\ Len(queue[i]) > 1

HasNext(i) == i \in open /\ queue[i] # <<>>

AskNext(c) ==
  /\ at[c] = "took" /\ Goto(c, IF HasNext(asked[c]) THEN "more" ELSE "drained")
  /\ UNCHANGED <<entries, asked, told>>

\* Mutant: the entry of a drained channel stays.
RemoveNothing(c) ==
  /\ at[c] = "drained" /\ Return(c) /\ ended' = ended \cup {asked[c]}
  /\ UNCHANGED <<entries, built, handed, shared, empty>>

\* remove; the answer carries no request id and has_more = false.
RemoveEntry(c) ==
  /\ at[c] = "drained" /\ Return(c)
  /\ open' = open \ {asked[c]} /\ queue' = [queue EXCEPT ![asked[c]] = <<>>]
  /\ ended' = ended \cup {asked[c]}
  /\ UNCHANGED <<built, handed, shared, empty>>

\* The answer with the request id: has_more is asked for again.
AskMore(c) ==
  /\ at[c] = "more" /\ Return(c)
  /\ ended' = IF HasNext(asked[c]) THEN ended ELSE ended \cup {asked[c]}
  /\ UNCHANGED <<entries, built, handed, shared, empty>>

PageStep(c) == AskNext(c) \/ RemoveEntry(c) \/ AskMore(c) \/ \E i \in Ids : TakePage(c, i)

StoreNext ==
  \/ \E i \in Ids : \E pages \in Seq(Pages) : AddPages(i, pages)
  \/ \E c \in Callers : PageStep(c)

StoreSpec == StoreInit /\ [][StoreNext]_storeVars

-----------------------------------------------------------------------------
(* Properties.                                                               *)

\* Whatever calls run at once, each page of an answer is handed out once and in order,
\* none is dropped with its entry, and has_more = false is not said before the last one
\* was taken (next, hasNext and remove are three critical sections; docs/tools.md:10,
\* "concatenate the chunks across pages").
EachPageOnce ==
  /\ \A i \in Ids : handed[i] \o queue[i] = built[i]
  /\ \A i \in ended : handed[i] = built[i]

\* A client that is alone with its request id never gets an empty answer in place of a
\* page or of an error: only calls that overlap reach the drained channel (next,
\* tools/pages.go:50).
EmptyOnlyIfShared == empty \subseteq shared

\* Both: a client that follows has_more gets the answer whole.
PagesOnce == EachPageOnce /\ EmptyOnlyIfShared

=============================================================================

-------------------------------- MODULE Paging --------------------------------
(***************************************************************************)
(* How an answer is split into pages (tools/pages.go, PageBuilder).  A text   *)
(* is a sequence of characters, each of which takes Width bytes in UTF-8.     *)
(***************************************************************************)
EXTENDS Integers, SequencesExt

CONSTANTS
  Chars, Width,   \* Width[c] is the number of bytes of character c
  Size            \* MaxResponseBytesClaude, the bytes of a page

ASSUME PagingAssumption == Width \in [Chars -> 1 .. 4] /\ Size \in Nat \ (0 .. 3)

\* The sections of session_get's answer by priority, and those of session_events'.
GetSections    == <<"turns", "events", "plan", "diff", "uncommitted", "memory">>
EventsSections == <<"events", "revisions">>

Bytes(text) == FoldLeft(LAMBDA n, c : n + Width[c], 0, text)

\* UTF8SafeSlice: the longest prefix of whole characters that fits.
Slice(text, room) ==
  SubSeq(text, 1, Max({0} \cup {n \in 1 .. Len(text) : Bytes(SubSeq(text, 1, n)) <= room}))

\* What the next section leaves of a page that has room bytes left.
Drain(filled, section) ==
  LET chunk == Slice(filled.rest[section], filled.room) IN
    [page |-> [filled.page EXCEPT ![section] = chunk],
     rest |-> [filled.rest EXCEPT ![section] = SubSeq(@, Len(chunk) + 1, Len(@))],
     room |-> filled.room - Bytes(chunk)]

Blank(order) == [section \in {order[n] : n \in DOMAIN order} |-> <<>>]

\* Adds a page with what fits of each section, in this order.
AddPage(order, size, built) ==
  LET filled == FoldLeft(Drain, [page |-> Blank(order), rest |-> built.rest, room |-> size], order)
  IN  [pages |-> Append(built.pages, filled.page), rest |-> filled.rest]

ContentSize(order, texts) == FoldLeft(LAMBDA n, section : n + Bytes(texts[section]), 0, order)

\* Mutant: the last page, which is not full, is not counted.
PageCountDown(content, size) == content \div size

PageCount(content, size) == (content + size - 1) \div size

\* build and buildEvents: the pages of an answer, the first one included.  Size 0 asks
\* for one page (maxResponseBytes: clients other than Claude's).
Build(order, size, texts) ==
  LET content == ContentSize(order, texts) IN
    IF size = 0 \/ content <= size THEN <<texts>>
    ELSE FoldLeft(LAMBDA built, n : AddPage(order, size, built),
                  [pages |-> <<>>, rest |-> texts],
                  [n \in 1 .. PageCount(content, size) |-> n]).pages

\* What a client has of a section that concatenates its chunks.
Joined(pages, section) == FlattenSeq([n \in DOMAIN pages |-> pages[n][section]])

=============================================================================

---------------------------- MODULE PartsProofs ----------------------------
(***************************************************************************)
(* What holds of the tool panel and of the caches of Parts, for any        *)
(* constants.  A behaviour is that of one part: each has one invariant.    *)
(***************************************************************************)
EXTENDS Parts, SequenceLemmas, FiniteSetTheorems

-----------------------------------------------------------------------------
(* ToolPanel: what the panel marks, lists and asks for *)

Entry == [file : PanelFiles, name : Nat]

Fields == {"open", "tool", "entries", "picked", "text", "marks", "source", "active", "page", "job",
           "added", "listed", "held", "drawn", "typed", "offered"}
IsPanel(w) == DOMAIN w = Fields /\ w = [f \in Fields |-> w[f]]

\* No name is given twice, so what is listed has one place.
IsList(entries, added) ==
  /\ entries \in Seq(Entry) /\ added \in Nat
  /\ \A i \in DOMAIN entries : entries[i].name <= added
  /\ \A i, j \in DOMAIN entries : entries[i].name = entries[j].name => i = j

IsHeld(entries, picked, held) ==
  IF held = None THEN picked = 0 ELSE picked \in DOMAIN entries /\ entries[picked] = held

ListIsGood(w) ==
  /\ IsList(w.entries, w.added) /\ w.listed = {w.entries[i] : i \in DOMAIN w.entries}
  /\ IsHeld(w.entries, w.picked, w.held)

MarksAreGood(w) ==
  ~ w.typed /\ w.active # None => \A page \in w.drawn :
    page \in w.marks <=> page \in Panel!SelectedPages(w.text, Panel!Count(w))

\* What a request could be for was given to this tool, or to the one that is at work.
OffersAreKept(w) ==
  /\ w.active # None => w.active \in w.offered
  /\ w.source # None => w.source \in w.offered

IsJob(job) ==
  job # None =>
    job = [tool |-> job.tool, sources |-> job.sources, pages |-> job.pages,
           makes |-> job.makes, current |-> job.current]

JobIsGood(w) ==
  /\ IsJob(w.job)
  /\ w.job # None /\ w.job.tool # Panel!Merge =>
       {w.job.sources[i] : i \in DOMAIN w.job.sources} \subseteq w.offered

RequestIsGood(w) == (w.tool # -1 \/ w.job # None => OffersAreKept(w)) /\ JobIsGood(w)

PanelIsGood(w) == IsPanel(w) /\ ListIsGood(w) /\ MarksAreGood(w) /\ RequestIsGood(w)

SameList(v, w) ==
  /\ v.entries = w.entries /\ v.added = w.added /\ v.listed = w.listed
  /\ v.picked = w.picked /\ v.held = w.held
SameMarks(v, w) ==
  v.typed = w.typed /\ v.active = w.active /\ v.drawn = w.drawn /\ v.marks = w.marks /\ v.text = w.text
SameRequest(v, w) ==
  v.active = w.active /\ v.source = w.source /\ v.offered = w.offered /\ v.job = w.job

LEMMA SameKeepIt ==
  ASSUME NEW v, NEW w
  PROVE  /\ SameList(v, w) /\ ListIsGood(w) => ListIsGood(v)
         /\ SameMarks(v, w) /\ MarksAreGood(w) => MarksAreGood(v)
         /\ SameRequest(v, w) => /\ OffersAreKept(w) <=> OffersAreKept(v)
                                 /\ JobIsGood(w) => JobIsGood(v)
<1>1. SameMarks(v, w) => Panel!Count(v) = Panel!Count(w)
  BY DEF SameMarks, Panel!Count
<1>2. SameMarks(v, w) /\ MarksAreGood(w) => MarksAreGood(v)
  BY <1>1 DEF SameMarks, MarksAreGood
<1>3. SameList(v, w) /\ ListIsGood(w) => ListIsGood(v)
  BY DEF SameList, ListIsGood
<1>4. SameRequest(v, w) => (OffersAreKept(w) <=> OffersAreKept(v)) /\ (JobIsGood(w) => JobIsGood(v))
  BY DEF SameRequest, OffersAreKept, JobIsGood
<1>. QED BY <1>2, <1>3, <1>4

LEMMA ToolIs ==
  ASSUME NEW w, IsPanel(w), NEW tool
  PROVE  LET v == [w EXCEPT !.tool = tool]
         IN  /\ IsPanel(v) /\ v.open = w.open /\ v.tool = tool
             /\ SameList(v, w) /\ SameMarks(v, w) /\ SameRequest(v, w)
BY DEF IsPanel, Fields, SameList, SameMarks, SameRequest

LEMMA OpenIs ==
  ASSUME NEW w, IsPanel(w), NEW open
  PROVE  LET v == [w EXCEPT !.open = open]
         IN  /\ IsPanel(v) /\ v.open = open /\ v.tool = w.tool
             /\ SameList(v, w) /\ SameMarks(v, w) /\ SameRequest(v, w)
BY DEF IsPanel, Fields, SameList, SameMarks, SameRequest

\* The rows are the sidebar's again.
LEMMA SidebarIs ==
  ASSUME NEW w, IsPanel(w)
  PROVE  LET v == Panel!Sidebar(w)
         IN  /\ IsPanel(v) /\ v.open = w.open /\ v.tool = w.tool
             /\ SameList(v, w) /\ SameRequest(v, w) /\ MarksAreGood(v)
<1> DEFINE m == {w.page} \cap 1..Panel!Count(w)
           v == [w EXCEPT !.marks = m, !.drawn = {}]
<1>1. Panel!Sidebar(w) = v
  BY DEF Panel!Sidebar
<1> HIDE DEF m
<1>2. /\ IsPanel(v) /\ v.open = w.open /\ v.tool = w.tool
      /\ SameList(v, w) /\ SameRequest(v, w) /\ v.drawn = {}
  BY DEF IsPanel, Fields, SameList, SameRequest
<1>. QED BY <1>1, <1>2 DEF MarksAreGood

LEMMA MarkedIs ==
  ASSUME NEW w, IsPanel(w), NEW text
  PROVE  LET v == Panel!Marked(w, text)
         IN  /\ IsPanel(v) /\ v.open = w.open /\ v.tool = w.tool
             /\ SameList(v, w) /\ SameRequest(v, w) /\ MarksAreGood(v)
<1> DEFINE m == Panel!SelectedPages(text, Panel!Count(w))
           d == 1..Panel!Count(w)
           v == [w EXCEPT !.text = text, !.marks = m, !.drawn = d, !.typed = FALSE]
<1>1. Panel!Marked(w, text) = v
  BY DEF Panel!Marked
<1> HIDE DEF m, d
<1>2. /\ IsPanel(v) /\ v.open = w.open /\ v.tool = w.tool
      /\ SameList(v, w) /\ SameRequest(v, w) /\ v.text = text /\ v.marks = m
  BY DEF IsPanel, Fields, SameList, SameRequest
<1> HIDE DEF v
<1>3. Panel!Count(v) = Panel!Count(w)
  BY <1>2 DEF Panel!Count, SameRequest
<1>4. MarksAreGood(v)
  BY <1>2, <1>3 DEF MarksAreGood, m
<1>. QED BY <1>1, <1>2, <1>4

LEMMA FreedIs ==
  ASSUME NEW w, IsPanel(w), JobIsGood(w), w.job # None => OffersAreKept(w)
  PROVE  LET v == Panel!Freed(w)
         IN  /\ IsPanel(v) /\ v.open = w.open /\ v.tool = w.tool /\ v.active = w.active
             /\ SameList(v, w) /\ SameMarks(v, w) /\ OffersAreKept(v) /\ JobIsGood(v)
<1>1. CASE w.job # None
  <2>1. Panel!Freed(w) = w
    BY <1>1 DEF Panel!Freed
  <2>. QED BY <1>1, <2>1 DEF SameList, SameMarks
<1>2. CASE w.job = None
  <2> DEFINE o == Panel!Offered(w)
             v == [w EXCEPT !.source = None, !.offered = o]
  <2>1. Panel!Freed(w) = v
    BY <1>2 DEF Panel!Freed
  <2>2. w.active # None => w.active \in o
    BY DEF Panel!Offered
  <2> HIDE DEF o
  <2>3. /\ IsPanel(v) /\ v.open = w.open /\ v.tool = w.tool /\ v.active = w.active
        /\ v.source = None /\ v.offered = o /\ v.job = w.job
        /\ SameList(v, w) /\ SameMarks(v, w)
    BY DEF IsPanel, Fields, SameList, SameMarks
  <2> HIDE DEF v
  <2>. QED BY <1>2, <2>1, <2>2, <2>3 DEF OffersAreKept, JobIsGood
<1>. QED BY <1>1, <1>2

LEMMA OutdatedIs ==
  ASSUME NEW w, IsPanel(w), JobIsGood(w)
  PROVE  LET v == Panel!Outdated(w)
         IN  /\ IsPanel(v) /\ v.open = w.open /\ v.tool = w.tool /\ v.active = w.active
             /\ v.source = w.source /\ v.offered = w.offered /\ v.page = w.page
             /\ v.job # None => w.job # None
             /\ SameList(v, w) /\ SameMarks(v, w) /\ JobIsGood(v)
<1> DEFINE j == IF w.job = None THEN None ELSE [w.job EXCEPT !.current = FALSE]
           v == [w EXCEPT !.job = j]
<1>1. Panel!Outdated(w) = v
  BY DEF Panel!Outdated, IsPanel, Fields
<1>2. /\ w.job = None => j = None
      /\ w.job # None => IsJob(j) /\ j.tool = w.job.tool /\ j.sources = w.job.sources
  BY DEF JobIsGood, IsJob
<1> HIDE DEF j
<1>3. /\ IsPanel(v) /\ v.open = w.open /\ v.tool = w.tool /\ v.active = w.active
      /\ v.source = w.source /\ v.offered = w.offered /\ v.page = w.page /\ v.job = j
      /\ SameList(v, w) /\ SameMarks(v, w)
  BY DEF IsPanel, Fields, SameList, SameMarks
<1> HIDE DEF v
<1>4. JobIsGood(v)
  BY <1>2, <1>3 DEF JobIsGood, IsJob
<1>. QED BY <1>1, <1>2, <1>3, <1>4

LEMMA RedrawnIs ==
  ASSUME NEW w, IsPanel(w), MarksAreGood(w), NEW page
  PROVE  LET v == Panel!Redrawn(w, page)
         IN  /\ IsPanel(v) /\ v.open = w.open /\ v.tool = w.tool
             /\ SameList(v, w) /\ SameRequest(v, w) /\ MarksAreGood(v)
<1> DEFINE m == IF page = w.page THEN w.marks \cup {page} ELSE w.marks \ {page}
           v == [w EXCEPT !.marks = m, !.drawn = w.drawn \ {page}]
<1>1. Panel!Redrawn(w, page) = v
  BY DEF Panel!Redrawn, IsPanel, Fields
<1>2. \A other : other # page => (other \in m <=> other \in w.marks)
  OBVIOUS
<1> HIDE DEF m
<1>3. /\ IsPanel(v) /\ v.open = w.open /\ v.tool = w.tool
      /\ SameList(v, w) /\ SameRequest(v, w) /\ v.marks = m /\ v.drawn = w.drawn \ {page}
      /\ v.text = w.text /\ v.typed = w.typed /\ v.active = w.active
  BY DEF IsPanel, Fields, SameList, SameRequest
<1> HIDE DEF v
<1>4. Panel!Count(v) = Panel!Count(w)
  BY <1>3 DEF Panel!Count
<1>5. MarksAreGood(v)
  BY <1>2, <1>3, <1>4 DEF MarksAreGood
<1>. QED BY <1>1, <1>3, <1>5

\* What does not touch the list, nor the request, nor choose a tool.
LEMMA GoodFrom ==
  ASSUME NEW w, PanelIsGood(w), NEW v, IsPanel(v), SameList(v, w), SameRequest(v, w),
         MarksAreGood(v), v.tool \in {-1, w.tool}
  PROVE  PanelIsGood(v)
<1>1. ListIsGood(v) /\ JobIsGood(v) /\ (OffersAreKept(w) <=> OffersAreKept(v))
  BY SameKeepIt DEF PanelIsGood, RequestIsGood
<1>2. v.job = w.job
  BY DEF SameRequest
<1>. QED BY <1>1, <1>2 DEF PanelIsGood, RequestIsGood

LEMMA SidebarGood ==
  ASSUME NEW w, PanelIsGood(w)
  PROVE  PanelIsGood(Panel!Sidebar(w))
<1> DEFINE v == Panel!Sidebar(w)
<1>1. IsPanel(v) /\ v.tool = w.tool /\ SameList(v, w) /\ SameRequest(v, w) /\ MarksAreGood(v)
  BY SidebarIs DEF PanelIsGood
<1> HIDE DEF v
<1>2. PanelIsGood(v)
  BY <1>1, GoodFrom
<1>. QED BY <1>2 DEF v

LEMMA OpenGood ==
  ASSUME NEW w, NEW open, NEW tool, PanelIsGood(w), tool \in {-1, w.tool}
  PROVE  /\ PanelIsGood([w EXCEPT !.tool = tool])
         /\ PanelIsGood([w EXCEPT !.open = open]) /\ [w EXCEPT !.open = open].tool = w.tool
<1> DEFINE a == [w EXCEPT !.tool = tool]
           b == [w EXCEPT !.open = open]
<1>0. IsPanel(w) /\ MarksAreGood(w)
  BY DEF PanelIsGood
<1>1. IsPanel(a) /\ a.tool = tool /\ SameList(a, w) /\ SameMarks(a, w) /\ SameRequest(a, w)
  BY <1>0, ToolIs
<1>2. IsPanel(b) /\ b.tool = w.tool /\ SameList(b, w) /\ SameMarks(b, w) /\ SameRequest(b, w)
  BY <1>0, OpenIs
<1> HIDE DEF a, b
<1>3. MarksAreGood(a) /\ MarksAreGood(b)
  BY <1>0, <1>1, <1>2, SameKeepIt
<1>4. PanelIsGood(a) /\ PanelIsGood(b)
  BY <1>1, <1>2, <1>3, GoodFrom
<1>. QED BY <1>2, <1>4 DEF a, b

LEMMA ClosedGood ==
  ASSUME NEW w, PanelIsGood(w)
  PROVE  PanelIsGood([Panel!Sidebar(w) EXCEPT !.open = FALSE, !.tool = -1])
<1> DEFINE s == Panel!Sidebar(w)
           closed == [s EXCEPT !.open = FALSE]
<1>1. PanelIsGood(s)
  BY SidebarGood
<1> HIDE DEF s
<1>2. PanelIsGood(closed)
  BY <1>1, OpenGood
<1>3. [s EXCEPT !.open = FALSE, !.tool = -1] = [closed EXCEPT !.tool = -1]
  OBVIOUS
<1> HIDE DEF closed
<1>4. PanelIsGood([closed EXCEPT !.tool = -1])
  BY <1>2, OpenGood
<1>. QED BY <1>3, <1>4 DEF s

\* A tool is shown.
LEMMA ShownGood ==
  ASSUME NEW w, PanelIsGood(w), NEW tool
  PROVE  LET v == [Panel!Freed(w) EXCEPT !.tool = tool]
         IN  PanelIsGood(v) /\ v.tool = tool
<1> DEFINE f == Panel!Freed(w)
           v == [f EXCEPT !.tool = tool]
<1>0. IsPanel(w) /\ ListIsGood(w) /\ MarksAreGood(w) /\ JobIsGood(w) /\ (w.job # None => OffersAreKept(w))
  BY DEF PanelIsGood, RequestIsGood
<1>1. IsPanel(f) /\ SameList(f, w) /\ SameMarks(f, w) /\ OffersAreKept(f) /\ JobIsGood(f)
  BY <1>0, FreedIs
<1> HIDE DEF f
<1>2. IsPanel(v) /\ v.tool = tool /\ SameList(v, f) /\ SameMarks(v, f) /\ SameRequest(v, f)
  BY <1>1, ToolIs
<1>3. ListIsGood(f) /\ MarksAreGood(f)
  BY <1>0, <1>1, SameKeepIt
<1> HIDE DEF v
<1>4. ListIsGood(v) /\ MarksAreGood(v) /\ OffersAreKept(v) /\ JobIsGood(v)
  BY <1>1, <1>2, <1>3, SameKeepIt
<1>5. PanelIsGood(v)
  BY <1>2, <1>4 DEF PanelIsGood, RequestIsGood
<1>. QED BY <1>2, <1>5 DEF f, v

LEMMA WindowSteps ==
  ASSUME PanelIsGood(world)
  PROVE  /\ Panel!Toggle => PanelIsGood(world')
         /\ Panel!Close => PanelIsGood(world')
         /\ Panel!Escape => PanelIsGood(world')
         /\ Panel!Back => PanelIsGood(world')
<1> DEFINE s == Panel!Sidebar(world)
<1>0. IsPanel(world) /\ MarksAreGood(world) /\ PanelIsGood(s)
  BY SidebarGood DEF PanelIsGood
<1>1. \A w, open, tool : PanelIsGood(w) /\ tool \in {-1, w.tool} =>
        /\ PanelIsGood([w EXCEPT !.tool = tool])
        /\ PanelIsGood([w EXCEPT !.open = open]) /\ [w EXCEPT !.open = open].tool = w.tool
  BY OpenGood
<1>2. ASSUME Panel!Toggle PROVE PanelIsGood(world')
  <2> DEFINE w == IF world.open THEN s ELSE [world EXCEPT !.tool = -1]
  <2>1. PanelIsGood(w)
    BY <1>0, <1>1
  <2>2. world' = [w EXCEPT !.open = ~ w.open]
    <3>1. world' = [w EXCEPT !.open = ~ @]
      BY <1>2 DEF Panel!Toggle
    <3> HIDE DEF w
    <3>. QED BY <2>1, <3>1 DEF PanelIsGood, IsPanel, Fields
  <2> HIDE DEF w
  <2>. QED BY <1>1, <2>1, <2>2
<1>3. ASSUME Panel!Close PROVE PanelIsGood(world')
  <2>1. world' = [Panel!Sidebar(world) EXCEPT !.open = FALSE, !.tool = -1]
    BY <1>3 DEF Panel!Close
  <2>. QED BY <2>1, ClosedGood
<1>4. ASSUME Panel!Escape PROVE PanelIsGood(world')
  BY <1>1, <1>4 DEF Panel!Escape
<1>5. ASSUME Panel!Back PROVE PanelIsGood(world')
  <2> DEFINE f == [Panel!Freed(world) EXCEPT !.tool = -1]
  <2>1. world' = Panel!Sidebar(f)
    BY <1>5 DEF Panel!Back
  <2>2. PanelIsGood(f)
    BY ShownGood
  <2>. QED BY <2>1, <2>2, SidebarGood
<1>. QED BY <1>2, <1>3, <1>4, <1>5

\* The list changes and nothing else does.
LEMMA ListGood ==
  ASSUME NEW w, PanelIsGood(w), NEW v, IsPanel(v), SameMarks(v, w), SameRequest(v, w),
         v.tool = w.tool, ListIsGood(v)
  PROVE  PanelIsGood(v)
<1>1. MarksAreGood(v) /\ JobIsGood(v) /\ (OffersAreKept(w) <=> OffersAreKept(v))
  BY SameKeepIt DEF PanelIsGood, RequestIsGood
<1>2. v.job = w.job
  BY DEF SameRequest
<1>. QED BY <1>1, <1>2 DEF PanelIsGood, RequestIsGood

LEMMA MarkedGood ==
  ASSUME NEW w, PanelIsGood(w), NEW text
  PROVE  PanelIsGood(Panel!Marked(w, text))
<1> DEFINE v == Panel!Marked(w, text)
<1>1. IsPanel(v) /\ v.tool = w.tool /\ SameList(v, w) /\ SameRequest(v, w) /\ MarksAreGood(v)
  BY MarkedIs DEF PanelIsGood
<1> HIDE DEF v
<1>2. PanelIsGood(v)
  BY <1>1, GoodFrom
<1>. QED BY <1>2 DEF v

\* What is selected is none, or in its place.
LEMMA PickedGood ==
  ASSUME NEW w, PanelIsGood(w), NEW picked, NEW held, IsHeld(w.entries, picked, held)
  PROVE  PanelIsGood([w EXCEPT !.picked = picked, !.held = held])
<1> DEFINE v == [w EXCEPT !.picked = picked, !.held = held]
<1>1. /\ IsPanel(v) /\ SameMarks(v, w) /\ SameRequest(v, w) /\ v.tool = w.tool
      /\ v.entries = w.entries /\ v.added = w.added /\ v.listed = w.listed
      /\ v.picked = picked /\ v.held = held
  BY DEF PanelIsGood, IsPanel, Fields, SameMarks, SameRequest
<1> HIDE DEF v
<1>2. ListIsGood(v)
  BY <1>1 DEF PanelIsGood, ListIsGood
<1>3. PanelIsGood(v)
  BY <1>1, <1>2, ListGood
<1>. QED BY <1>3 DEF v

LEMMA EntriesAre ==
  ASSUME NEW entries \in Seq(Entry)
  PROVE  /\ DOMAIN entries = 1..Len(entries) /\ Len(entries) \in Nat
         /\ \A i \in DOMAIN entries : entries[i] \in Entry /\ entries[i] # None
<1>1. None \notin Entry
  BY PanelAssumption DEF PanelAssumption, Entry
<1>2. DOMAIN entries = 1..Len(entries) /\ Len(entries) \in Nat
  OBVIOUS
<1>3. \A i \in DOMAIN entries : entries[i] \in Entry
  OBVIOUS
<1>. QED BY <1>1, <1>2, <1>3

LEMMA HeldGood ==
  ASSUME NEW w, PanelIsGood(w), NEW i \in Nat, i = 0 \/ i \in DOMAIN w.entries
  PROVE  PanelIsGood(Panel!Held(w, i))
<1> DEFINE held == IF i = 0 THEN None ELSE w.entries[i]
<1>1. w.entries \in Seq(Entry)
  BY DEF PanelIsGood, ListIsGood, IsList
<1>2. IsHeld(w.entries, i, held)
  BY <1>1, EntriesAre DEF IsHeld
<1>3. Panel!Held(w, i) = [w EXCEPT !.picked = i, !.held = held]
  BY DEF Panel!Held
<1> HIDE DEF held
<1>4. PanelIsGood([w EXCEPT !.picked = i, !.held = held])
  BY <1>2, PickedGood
<1>. QED BY <1>3, <1>4

LEMMA OpenToolStep ==
  ASSUME PanelIsGood(world), NEW tool, Panel!OpenTool(tool)
  PROVE  PanelIsGood(world')
<1> DEFINE shown == [Panel!Freed(world) EXCEPT !.tool = tool]
<1>1. PanelIsGood(shown)
  BY ShownGood
<1>2. world' \in {[shown EXCEPT !.picked = 0, !.held = None], shown}
        \/ \E text : world' = Panel!Marked(shown, text)
  BY DEF Panel!OpenTool
<1> HIDE DEF shown
<1>3. PanelIsGood([shown EXCEPT !.picked = 0, !.held = None])
  BY <1>1, PickedGood DEF IsHeld
<1>. QED BY <1>1, <1>2, <1>3, MarkedGood

LEMMA ExtendedGood ==
  ASSUME NEW w, PanelIsGood(w), NEW paths \in Seq(PanelFiles)
  PROVE  PanelIsGood(Panel!Extended(w, paths))
<1> DEFINE new == [i \in DOMAIN paths |-> [file |-> paths[i], name |-> w.added + i]]
           entries == w.entries \o new
           added == w.added + Len(new)
           listed == w.listed \cup {new[i] : i \in DOMAIN new}
           v == [w EXCEPT !.entries = entries, !.added = added, !.listed = listed]
<1>0. /\ IsPanel(w) /\ w.entries \in Seq(Entry) /\ w.added \in Nat
      /\ \A i \in DOMAIN w.entries : w.entries[i].name <= w.added
      /\ \A i, j \in DOMAIN w.entries : w.entries[i].name = w.entries[j].name => i = j
      /\ w.listed = {w.entries[i] : i \in DOMAIN w.entries}
      /\ IsHeld(w.entries, w.picked, w.held)
  BY DEF PanelIsGood, ListIsGood, IsList
<1>1. Panel!Extended(w, paths) = v
  BY <1>0 DEF Panel!Extended, Panel!Range, IsPanel, Fields
<1>2. /\ new \in Seq(Entry) /\ Len(new) = Len(paths) /\ Len(new) \in Nat
      /\ DOMAIN new = 1..Len(new) /\ \A i \in 1..Len(new) : new[i].name = w.added + i
  <2>1. DOMAIN paths = 1..Len(paths) /\ Len(paths) \in Nat
        /\ \A i \in 1..Len(paths) : paths[i] \in PanelFiles
    OBVIOUS
  <2>2. \A i \in 1..Len(paths) : [file |-> paths[i], name |-> w.added + i] \in Entry
    BY <1>0, <2>1 DEF Entry
  <2>3. new \in [1..Len(paths) -> Entry]
    BY <2>1, <2>2
  <2>4. new \in Seq(Entry) /\ Len(new) = Len(paths)
    <3> HIDE DEF new
    <3>. QED BY <2>1, <2>3
  <2>5. \A i \in 1..Len(paths) : new[i].name = w.added + i
    BY <2>1
  <2>. QED BY <2>1, <2>3, <2>4, <2>5
<1> HIDE DEF new
<1>3. /\ entries \in Seq(Entry) /\ Len(entries) = Len(w.entries) + Len(new)
      /\ DOMAIN entries = 1..Len(entries)
      /\ \A i \in 1..Len(w.entries) + Len(new) :
           entries[i] = IF i <= Len(w.entries) THEN w.entries[i] ELSE new[i - Len(w.entries)]
  <2>1. w.entries \in Seq(Entry) /\ new \in Seq(Entry)
    BY <1>0, <1>2
  <2> DEFINE old == w.entries
  <2>2. old \in Seq(Entry)
    BY <2>1
  <2> HIDE DEF old
  <2>3. /\ old \o new \in Seq(Entry) /\ Len(old \o new) = Len(old) + Len(new)
        /\ \A i \in 1..Len(old) + Len(new) :
             (old \o new)[i] = IF i <= Len(old) THEN old[i] ELSE new[i - Len(old)]
    BY <2>1, <2>2, ConcatProperties
  <2>4. DOMAIN entries = 1..Len(entries)
    BY <2>3 DEF old
  <2>. QED BY <2>3, <2>4 DEF old
<1> HIDE DEF entries
<1> DEFINE n == Len(w.entries)
<1>4. /\ n \in Nat /\ DOMAIN w.entries = 1..n
      /\ \A i \in 1..n : w.entries[i].name \in Nat /\ w.entries[i].name <= w.added
  BY <1>0, EntriesAre DEF Entry
<1>5. /\ \A i \in 1..n : entries[i] = w.entries[i] /\ i \in DOMAIN entries
      /\ \A i \in 1..Len(new) : entries[n + i] = new[i] /\ n + i \in DOMAIN entries
  <2>1. \A i \in 1..Len(new) : n + i \in 1..n + Len(new) /\ ~ n + i <= n /\ (n + i) - n = i
    BY <1>2, <1>4
  <2>2. \A i \in 1..n : i \in 1..n + Len(new) /\ i <= n
    BY <1>2, <1>4
  <2>. QED BY <1>3, <2>1, <2>2
<1>6. \A i \in DOMAIN entries : i \in 1..n \/ \E k \in 1..Len(new) : i = n + k
  <2> SUFFICES ASSUME NEW i \in DOMAIN entries, i \notin 1..n PROVE \E k \in 1..Len(new) : i = n + k
    OBVIOUS
  <2>1. i - n \in 1..Len(new) /\ i = n + (i - n)
    BY <1>2, <1>3, <1>4
  <2>. QED BY <2>1
<1>7. IsList(entries, added)
  <2>1. added \in Nat
    BY <1>0, <1>2
  <2>2. \A i \in DOMAIN entries : entries[i].name <= added
    <3>1. \A i \in 1..n : entries[i].name <= added
      BY <1>0, <1>2, <1>4, <1>5
    <3>2. \A i \in 1..Len(new) : entries[n + i].name <= added
      BY <1>0, <1>2, <1>5
    <3>. QED BY <1>6, <3>1, <3>2
  <2>3. ASSUME NEW i \in DOMAIN entries, NEW j \in DOMAIN entries, entries[i].name = entries[j].name
        PROVE  i = j
    <3>1. CASE i \in 1..n /\ j \in 1..n
      BY <1>0, <1>4, <1>5, <2>3, <3>1
    <3>2. ASSUME NEW k \in 1..Len(new), i = n + k, NEW l \in 1..Len(new), j = n + l
          PROVE  i = j
      <4>1. entries[n + k].name = w.added + k /\ entries[n + l].name = w.added + l
        BY <1>2, <1>5
      <4>2. w.added + k = w.added + l /\ k \in Int /\ l \in Int /\ w.added \in Int
        BY <1>0, <1>2, <2>3, <3>2, <4>1
      <4>3. k = l
        BY <4>2
      <4>. QED BY <3>2, <4>3
    <3>3. ASSUME NEW a \in 1..n, NEW k \in 1..Len(new) PROVE entries[a].name # entries[n + k].name
      <4>1. entries[a].name <= w.added /\ entries[a].name \in Nat
        BY <1>4, <1>5
      <4>2. entries[n + k].name = w.added + k /\ w.added + k > w.added
        BY <1>0, <1>2, <1>5
      <4>. QED BY <1>0, <1>2, <4>1, <4>2
    <3>. QED BY <1>6, <2>3, <3>1, <3>2, <3>3
  <2>. QED BY <1>3, <2>1, <2>2, <2>3 DEF IsList
<1>8. listed = {entries[i] : i \in DOMAIN entries}
  <2>1. \A e \in listed : \E i \in DOMAIN entries : e = entries[i]
    BY <1>0, <1>2, <1>4, <1>5
  <2>2. \A i \in DOMAIN entries : entries[i] \in listed
    <3>1. \A i \in 1..n : entries[i] \in listed
      BY <1>0, <1>4, <1>5
    <3>2. \A k \in 1..Len(new) : entries[n + k] \in listed
      BY <1>2, <1>5
    <3> HIDE DEF listed
    <3>. QED BY <1>6, <3>1, <3>2
  <2>. QED BY <2>1, <2>2
<1>9. IsHeld(entries, w.picked, w.held)
  BY <1>0, <1>4, <1>5 DEF IsHeld
<1> HIDE DEF listed, added, n
<1>10. /\ IsPanel(v) /\ SameMarks(v, w) /\ SameRequest(v, w) /\ v.tool = w.tool
       /\ v.entries = entries /\ v.added = added /\ v.listed = listed
       /\ v.picked = w.picked /\ v.held = w.held
  BY <1>0 DEF IsPanel, Fields, SameMarks, SameRequest
<1> HIDE DEF v
<1>11. ListIsGood(v)
  BY <1>7, <1>8, <1>9, <1>10 DEF ListIsGood
<1>. QED BY <1>1, <1>10, <1>11, ListGood

LEMMA MovedGood ==
  ASSUME PanelIsGood(world), NEW t \in Seq(Entry), NEW from, NEW to \in DOMAIN world.entries,
         t[to] = world.entries[from], NEW p, Permutes(t, world.entries, p)
  PROVE  PanelIsGood(Panel!Moved(t, from, to))
<1> DEFINE e == world.entries
           n == Len(e)
           v == [world EXCEPT !.entries = t, !.picked = to, !.held = t[to]]
<1>0. /\ IsPanel(world) /\ e \in Seq(Entry) /\ world.added \in Nat
      /\ \A i \in DOMAIN e : e[i].name <= world.added
      /\ \A i, j \in DOMAIN e : e[i].name = e[j].name => i = j
      /\ world.listed = {e[i] : i \in DOMAIN e}
  BY DEF PanelIsGood, ListIsGood, IsList
<1>1. Panel!Moved(t, from, to) = v
  BY DEF Panel!Moved, Panel!Entries
<1>2. DOMAIN e = 1..n /\ DOMAIN t = 1..n /\ \A i \in 1..n : t[i] # None
  <2>1. Len(t) = n
    BY DEF Permutes
  <2>. QED BY <1>0, <2>1, EntriesAre
<1>3. /\ \A k \in 1..n : p[k] \in 1..n /\ t[k] = e[p[k]]
      /\ \A k, l \in 1..n : p[k] = p[l] => k = l
      /\ \A k \in 1..n : \E l \in 1..n : p[l] = k
  BY DEF Permutes
<1> HIDE DEF e, n
<1>4. IsList(t, world.added)
  <2>1. \A i \in 1..n : t[i].name <= world.added
    BY <1>0, <1>2, <1>3
  <2>2. ASSUME NEW i \in 1..n, NEW j \in 1..n, t[i].name = t[j].name PROVE i = j
    <3>1. p[i] \in DOMAIN e /\ p[j] \in DOMAIN e /\ e[p[i]].name = e[p[j]].name
      BY <1>2, <1>3, <2>2
    <3>2. p[i] = p[j]
      BY <1>0, <3>1
    <3>. QED BY <1>3, <3>2
  <2>. QED BY <1>0, <1>2, <2>1, <2>2 DEF IsList
<1>5. world.listed = {t[i] : i \in DOMAIN t}
  <2>1. \A i \in 1..n : \E k \in 1..n : e[i] = t[k]
    BY <1>3
  <2>2. \A i \in 1..n : \E k \in 1..n : t[i] = e[k]
    BY <1>3
  <2>3. \A x : x \in world.listed <=> \E i \in 1..n : x = e[i]
    BY <1>0, <1>2
  <2>4. \A x : x \in {t[i] : i \in DOMAIN t} <=> \E i \in 1..n : x = t[i]
    BY <1>2
  <2> DEFINE T == {t[i] : i \in DOMAIN t}
  <2> HIDE DEF T
  <2>5. ASSUME NEW x PROVE x \in world.listed <=> x \in T
    <3>1. x \in world.listed => x \in T
      BY <2>1, <2>3, <2>4 DEF T
    <3>2. x \in T => x \in world.listed
      BY <2>2, <2>3, <2>4 DEF T
    <3>. QED BY <3>1, <3>2
  <2>6. world.listed = T
    BY <2>5
  <2>. QED BY <2>6 DEF T
<1>6. IsHeld(t, to, t[to])
  BY <1>2 DEF IsHeld, e
<1>7. /\ IsPanel(v) /\ SameMarks(v, world) /\ SameRequest(v, world) /\ v.tool = world.tool
      /\ v.entries = t /\ v.added = world.added /\ v.listed = world.listed
      /\ v.picked = to /\ v.held = t[to]
  BY <1>0 DEF IsPanel, Fields, SameMarks, SameRequest
<1> HIDE DEF v
<1>8. ListIsGood(v)
  BY <1>4, <1>5, <1>6, <1>7 DEF ListIsGood
<1>. QED BY <1>1, <1>7, <1>8, ListGood

LEMMA MoveSteps ==
  ASSUME PanelIsGood(world), NEW i \in DOMAIN world.entries
  PROVE  /\ Panel!SelectFile(i) => PanelIsGood(world')
         /\ Panel!MoveUp(i) => PanelIsGood(world')
         /\ Panel!MoveDown(i) => PanelIsGood(world')
         /\ \A j \in DOMAIN world.entries : Panel!DragTo(i, j) => PanelIsGood(world')
<1> DEFINE e == world.entries
<1>0. e \in Seq(Entry) /\ DOMAIN e = 1..Len(e) /\ Len(e) \in Nat
  BY EntriesAre DEF PanelIsGood, ListIsGood, IsList
<1>1. ASSUME Panel!SelectFile(i) PROVE PanelIsGood(world')
  <2>1. i \in Nat /\ world' = Panel!Held(world, i)
    BY <1>0, <1>1 DEF Panel!SelectFile
  <2>. QED BY <2>1, HeldGood
<1>2. ASSUME NEW j \in DOMAIN e, i # j,
             world' = Panel!Moved([e EXCEPT ![i] = e[j], ![j] = e[i]], i, j)
      PROVE  PanelIsGood(world')
  <2> DEFINE t == [e EXCEPT ![i] = e[j], ![j] = e[i]]
  <2>1. i \in 1..Len(e) /\ j \in 1..Len(e)
    BY <1>0
  <2>2. t \in Seq(Entry) /\ t[j] = e[i] /\ \E p : Permutes(t, e, p)
    <3> HIDE DEF e
    <3>. QED BY <1>0, <1>2, <2>1, SwapPermutes
  <2> HIDE DEF t
  <2>. QED BY <1>2, <2>2, MovedGood DEF t
<1>3. ASSUME Panel!MoveUp(i) PROVE PanelIsGood(world')
  <2>1. i - 1 \in DOMAIN e /\ i # i - 1
    BY <1>0, <1>3 DEF Panel!MoveUp
  <2>. QED BY <1>2, <1>3, <2>1 DEF Panel!MoveUp, Panel!Entries
<1>4. ASSUME Panel!MoveDown(i) PROVE PanelIsGood(world')
  <2>1. i + 1 \in DOMAIN e /\ i # i + 1
    BY <1>0, <1>4 DEF Panel!MoveDown, Panel!Entries
  <2>. QED BY <1>2, <1>4, <2>1 DEF Panel!MoveDown, Panel!Entries
<1>5. ASSUME NEW j \in DOMAIN e, Panel!DragTo(i, j) PROVE PanelIsGood(world')
  <2> DEFINE t == InsertAt(RemoveAt(e, i), j, e[i])
  <2>1. t \in Seq(Entry) /\ t[j] = e[i] /\ \E p : Permutes(t, e, p)
    <3>1. i \in 1..Len(e) /\ j \in 1..Len(e)
      BY <1>0
    <3> HIDE DEF e
    <3>. QED BY <1>0, <3>1, MovePermutes
  <2>2. world' = Panel!Moved(t, i, j)
    BY <1>5 DEF Panel!DragTo, Panel!Entries, Panel!InsertAt, Panel!RemoveAt, InsertAt, RemoveAt
  <2> HIDE DEF t
  <2>. QED BY <1>5, <2>1, <2>2, MovedGood
<1>. QED BY <1>1, <1>3, <1>4, <1>5

LEMMA RemoveFileStep ==
  ASSUME PanelIsGood(world), Panel!RemoveFile
  PROVE  PanelIsGood(world')
<1> DEFINE e == world.entries
           k == world.picked
           left == RemoveAt(e, k)
           next == IF k > Len(left) THEN Len(left) ELSE k
           listed == world.listed \ {world.held}
           w == [world EXCEPT !.entries = left, !.listed = listed]
<1>0. /\ IsPanel(world) /\ e \in Seq(Entry) /\ world.added \in Nat
      /\ \A i \in DOMAIN e : e[i].name <= world.added
      /\ \A i, j \in DOMAIN e : e[i].name = e[j].name => i = j
      /\ world.listed = {e[i] : i \in DOMAIN e}
      /\ IsHeld(e, k, world.held)
  BY DEF PanelIsGood, ListIsGood, IsList
<1>1. k > 0
  BY DEF Panel!RemoveFile
<1>2. k \in DOMAIN e /\ e[k] = world.held
  BY <1>0, <1>1 DEF IsHeld
<1>3. DOMAIN e = 1..Len(e) /\ Len(e) \in Nat /\ k \in 1..Len(e)
  BY <1>0, <1>2, EntriesAre
<1>4. world' = Panel!Held(w, next)
  <2>1. Panel!RemoveAt(e, k) = left
    BY DEF Panel!RemoveAt, RemoveAt
  <2>2. w = [world EXCEPT !.entries = left, !.listed = @ \ {world.held}]
    BY <1>0 DEF IsPanel, Fields
  <2>. QED BY <2>1, <2>2 DEF Panel!RemoveFile, Panel!Entries
<1>5. /\ left \in Seq(Entry) /\ Len(left) = Len(e) - 1 /\ DOMAIN left = 1..Len(e) - 1
      /\ \A i \in 1..Len(e) - 1 : left[i] = IF i < k THEN e[i] ELSE e[i + 1]
  <2>1. /\ left \in Seq(Entry) /\ Len(left) = Len(e) - 1
        /\ \A i \in 1..Len(e) - 1 : left[i] = IF i < k THEN e[i] ELSE e[i + 1]
    <3> HIDE DEF e, k
    <3>. QED BY <1>0, <1>3, RemoveAtIs
  <2> HIDE DEF left
  <2>2. DOMAIN left = 1..Len(left)
    BY <2>1
  <2>. QED BY <2>1, <2>2
<1> HIDE DEF e, k, left
<1>6. /\ \A i \in 1..Len(e) - 1 : (IF i < k THEN i ELSE i + 1) \in DOMAIN e \ {k}
      /\ \A i \in DOMAIN e : i # k => (IF i < k THEN i ELSE i - 1) \in 1..Len(e) - 1
  BY <1>3
<1>7. \A i \in 1..Len(e) - 1 : \E j \in DOMAIN e :
        j # k /\ left[i] = e[j] /\ j = IF i < k THEN i ELSE i + 1
  BY <1>5, <1>6
<1>8. IsList(left, world.added)
  <2>1. \A i \in DOMAIN left : left[i].name <= world.added
    BY <1>0, <1>5, <1>7
  <2>2. ASSUME NEW i \in DOMAIN left, NEW j \in DOMAIN left, left[i].name = left[j].name PROVE i = j
    <3>1. (IF i < k THEN i ELSE i + 1) = (IF j < k THEN j ELSE j + 1)
      BY <1>0, <1>5, <1>7, <2>2
    <3>2. i \in Int /\ j \in Int /\ k \in Int
      BY <1>3, <1>5
    <3>. QED BY <3>1, <3>2
  <2>. QED BY <1>0, <1>5, <2>1, <2>2 DEF IsList
<1>9. listed = {left[i] : i \in DOMAIN left}
  <2>1. \A i \in DOMAIN left : left[i] \in listed
    BY <1>0, <1>2, <1>5, <1>7
  <2>2. ASSUME NEW x \in listed PROVE \E i \in DOMAIN left : x = left[i]
    <3>1. PICK i \in DOMAIN e : x = e[i] /\ i # k
      BY <1>0, <1>2, <2>2
    <3>2. CASE i < k
      BY <1>3, <1>5, <3>1, <3>2
    <3>3. CASE i > k
      <4>1. i - 1 \in DOMAIN left /\ ~ i - 1 < k /\ i - 1 + 1 = i
        BY <1>3, <1>5, <3>3
      <4>. QED BY <1>5, <3>1, <4>1
    <3>4. i < k \/ i > k
      BY <1>3, <3>1
    <3>. QED BY <3>2, <3>3, <3>4
  <2> HIDE DEF listed
  <2>. QED BY <2>1, <2>2
<1>10. next \in Nat /\ (next = 0 \/ next \in DOMAIN left)
  BY <1>3, <1>5
<1> DEFINE v == [w EXCEPT !.picked = 0, !.held = None]
<1> HIDE DEF listed, next
<1>11. /\ IsPanel(v) /\ SameMarks(v, world) /\ SameRequest(v, world) /\ v.tool = world.tool
       /\ v.entries = left /\ v.added = world.added /\ v.listed = listed
       /\ v.picked = 0 /\ v.held = None
  BY <1>0 DEF IsPanel, Fields, SameMarks, SameRequest
<1>12. Panel!Held(w, next) = Panel!Held(v, next)
  <2> DEFINE h == IF next = 0 THEN None ELSE left[next]
  <2>1. /\ Panel!Held(w, next) = [w EXCEPT !.picked = next, !.held = h]
        /\ Panel!Held(v, next) = [v EXCEPT !.picked = next, !.held = h]
    BY <1>0 DEF Panel!Held, IsPanel, Fields
  <2> HIDE DEF h
  <2>. QED BY <1>0, <2>1 DEF IsPanel, Fields
<1> HIDE DEF v, w
<1>13. PanelIsGood(v)
  <2>1. ListIsGood(v)
    BY <1>8, <1>9, <1>11 DEF ListIsGood, IsHeld
  <2>. QED BY <1>11, <2>1, ListGood
<1>14. PanelIsGood(Panel!Held(v, next))
  BY <1>10, <1>11, <1>13, HeldGood
<1>. QED BY <1>4, <1>12, <1>14

LEMMA ClearFilesStep ==
  ASSUME PanelIsGood(world), Panel!ClearFiles
  PROVE  PanelIsGood(world')
<1> DEFINE v == [world EXCEPT !.entries = <<>>, !.listed = {}, !.picked = 0, !.held = None]
<1>1. world' = v /\ world.added \in Nat
  BY DEF Panel!ClearFiles, PanelIsGood, ListIsGood, IsList
<1>2. /\ IsPanel(v) /\ SameMarks(v, world) /\ SameRequest(v, world) /\ v.tool = world.tool
      /\ v.entries = <<>> /\ v.added = world.added /\ v.listed = {} /\ v.picked = 0 /\ v.held = None
  BY DEF PanelIsGood, IsPanel, Fields, SameMarks, SameRequest
<1> HIDE DEF v
<1>3. ListIsGood(v)
  BY <1>1, <1>2, EmptySeq DEF ListIsGood, IsList, IsHeld
<1>. QED BY <1>1, <1>2, <1>3, ListGood

LEMMA OutdatedGood ==
  ASSUME NEW w, PanelIsGood(w)
  PROVE  LET v == Panel!Outdated(w)
         IN  /\ PanelIsGood(v) /\ v.tool = w.tool /\ v.source = w.source /\ v.offered = w.offered
             /\ v.active = w.active
<1> DEFINE v == Panel!Outdated(w)
<1>1. /\ IsPanel(v) /\ v.tool = w.tool /\ v.active = w.active
      /\ v.source = w.source /\ v.offered = w.offered /\ (v.job # None => w.job # None)
      /\ SameList(v, w) /\ SameMarks(v, w) /\ JobIsGood(v)
  BY OutdatedIs DEF PanelIsGood, RequestIsGood
<1> HIDE DEF v
<1>2. ListIsGood(v) /\ MarksAreGood(v)
  BY <1>1, SameKeepIt DEF PanelIsGood
<1>3. RequestIsGood(v)
  BY <1>1 DEF PanelIsGood, RequestIsGood, OffersAreKept
<1>. QED BY <1>1, <1>2, <1>3 DEF PanelIsGood, v

LEMMA PageGood ==
  ASSUME NEW w, PanelIsGood(w), NEW page
  PROVE  PanelIsGood([w EXCEPT !.page = page])
<1> DEFINE v == [w EXCEPT !.page = page]
<1>1. IsPanel(v) /\ SameList(v, w) /\ SameMarks(v, w) /\ SameRequest(v, w) /\ v.tool = w.tool
  BY DEF PanelIsGood, IsPanel, Fields, SameList, SameMarks, SameRequest
<1> HIDE DEF v
<1>2. MarksAreGood(v)
  BY <1>1, SameKeepIt DEF PanelIsGood
<1>3. PanelIsGood(v)
  BY <1>1, <1>2, GoodFrom
<1>. QED BY <1>3 DEF v

LEMMA RedrawnGood ==
  ASSUME NEW w, PanelIsGood(w), NEW page
  PROVE  PanelIsGood(Panel!Redrawn(w, page))
<1> DEFINE v == Panel!Redrawn(w, page)
<1>1. IsPanel(v) /\ v.tool = w.tool /\ SameList(v, w) /\ SameRequest(v, w) /\ MarksAreGood(v)
  BY RedrawnIs DEF PanelIsGood
<1> HIDE DEF v
<1>2. PanelIsGood(v)
  BY <1>1, GoodFrom
<1>. QED BY <1>2 DEF v

LEMMA BeginOpenGood ==
  ASSUME NEW w, PanelIsGood(w)
  PROVE  PanelIsGood(Panel!BeginOpen(w))
<1> DEFINE u == Panel!Outdated(w)
           v == [u EXCEPT !.active = None]
<1>1. PanelIsGood(u) /\ Panel!BeginOpen(w) = v
  BY OutdatedGood DEF Panel!BeginOpen
<1> HIDE DEF u
<1>2. /\ IsPanel(v) /\ SameList(v, u) /\ v.tool = u.tool /\ v.active = None
      /\ v.job = u.job /\ v.source = u.source /\ v.offered = u.offered
  BY <1>1 DEF PanelIsGood, IsPanel, Fields, SameList
<1> HIDE DEF v
<1>3. ListIsGood(v)
  BY <1>1, <1>2, SameKeepIt DEF PanelIsGood
<1>4. MarksAreGood(v)
  BY <1>2 DEF MarksAreGood
<1>5. RequestIsGood(v)
  BY <1>1, <1>2 DEF PanelIsGood, RequestIsGood, OffersAreKept, JobIsGood
<1>. QED BY <1>1, <1>2, <1>3, <1>4, <1>5 DEF PanelIsGood

LEMMA PageSteps ==
  ASSUME PanelIsGood(world), Panel!PageActs
  PROVE  PanelIsGood(world')
<1>1. ASSUME NEW page, Panel!GoTo(page) PROVE PanelIsGood(world')
  <2> DEFINE there == [Panel!Outdated(world) EXCEPT !.page = page]
  <2>1. PanelIsGood(there)
    BY OutdatedGood, PageGood
  <2>2. world' = Panel!Redrawn(Panel!Redrawn(there, world.page), page)
    BY <1>1 DEF Panel!GoTo
  <2> HIDE DEF there
  <2>. QED BY <2>1, <2>2, RedrawnGood
<1>2. ASSUME NEW text, Panel!Type(text) PROVE PanelIsGood(world')
  <2> DEFINE v == [world EXCEPT !.text = text, !.typed = TRUE]
  <2>1. world' = v
    BY <1>2 DEF Panel!Type
  <2>2. IsPanel(v) /\ SameList(v, world) /\ SameRequest(v, world) /\ v.tool = world.tool /\ v.typed
    BY DEF PanelIsGood, IsPanel, Fields, SameList, SameRequest
  <2> HIDE DEF v
  <2>3. MarksAreGood(v)
    BY <2>2 DEF MarksAreGood
  <2>. QED BY <2>1, <2>2, <2>3, GoodFrom
<1>3. ASSUME NEW page, Panel!ThumbnailArrives(page) PROVE PanelIsGood(world')
  BY <1>3, RedrawnGood DEF Panel!ThumbnailArrives
<1>4. ASSUME NEW text, world' = Panel!Marked(world, text) PROVE PanelIsGood(world')
  BY <1>4, MarkedGood
<1>5. ASSUME NEW page, NEW shift, Panel!SelectPage(page, shift) PROVE PanelIsGood(world')
  BY <1>4, <1>5 DEF Panel!SelectPage
<1>6. ASSUME Panel!SelectAllPages \/ Panel!ClearPages PROVE PanelIsGood(world')
  BY <1>4, <1>6 DEF Panel!SelectAllPages, Panel!ClearPages
<1>. QED BY <1>1, <1>2, <1>3, <1>5, <1>6 DEF Panel!PageActs

LEMMA ShowStep ==
  ASSUME PanelIsGood(world), NEW doc, NEW page, Panel!Show(doc, page)
  PROVE  PanelIsGood(world')
<1> DEFINE u == Panel!Outdated(world)
           a == [u EXCEPT !.active = doc, !.page = page]
           b == Panel!Sidebar(a)
           c == [b EXCEPT !.offered = b.offered \cup {doc}]
<1>1. PanelIsGood(u)
  BY OutdatedGood
<1>2. world' = [b EXCEPT !.offered = @ \cup {doc}]
  BY DEF Panel!Show
<1> HIDE DEF u
<1>3. /\ IsPanel(a) /\ SameList(a, u) /\ a.tool = u.tool /\ a.active = doc
      /\ a.job = u.job /\ a.source = u.source /\ a.offered = u.offered
  BY <1>1 DEF PanelIsGood, IsPanel, Fields, SameList
<1> HIDE DEF a
<1>4. IsPanel(b) /\ b.tool = a.tool /\ SameList(b, a) /\ SameRequest(b, a) /\ MarksAreGood(b)
  BY <1>3, SidebarIs
<1> HIDE DEF b
<1>5. /\ world' = c /\ IsPanel(c) /\ SameList(c, b) /\ SameMarks(c, b) /\ c.tool = b.tool
      /\ c.active = b.active /\ c.job = b.job /\ c.source = b.source
      /\ c.offered = b.offered \cup {doc}
  BY <1>2, <1>4 DEF IsPanel, Fields, SameList, SameMarks
<1> HIDE DEF c
<1>6. ListIsGood(c) /\ MarksAreGood(c)
  BY <1>1, <1>3, <1>4, <1>5, SameKeepIt DEF PanelIsGood
<1>7. RequestIsGood(c)
  BY <1>1, <1>3, <1>4, <1>5 DEF PanelIsGood, RequestIsGood, OffersAreKept, JobIsGood, SameRequest
<1>. QED BY <1>5, <1>6, <1>7 DEF PanelIsGood

\* Another file or document is offered.
LEMMA OfferedGood ==
  ASSUME NEW w, PanelIsGood(w), NEW source
  PROVE  LET v == [w EXCEPT !.offered = @ \cup {source}]
         IN  PanelIsGood(v) /\ v.tool = w.tool /\ source \in v.offered
<1> DEFINE o == w.offered \cup {source}
           v == [w EXCEPT !.offered = o]
<1>1. [w EXCEPT !.offered = @ \cup {source}] = v
  BY DEF PanelIsGood, IsPanel, Fields
<1>2. w.offered \subseteq o /\ source \in o
  OBVIOUS
<1> HIDE DEF o
<1>3. /\ IsPanel(v) /\ SameList(v, w) /\ SameMarks(v, w) /\ v.tool = w.tool /\ v.active = w.active
      /\ v.job = w.job /\ v.source = w.source /\ v.offered = o
  BY DEF PanelIsGood, IsPanel, Fields, SameList, SameMarks
<1> HIDE DEF v
<1>4. ListIsGood(v) /\ MarksAreGood(v)
  BY <1>3, SameKeepIt DEF PanelIsGood
<1>5. RequestIsGood(v)
  BY <1>2, <1>3 DEF PanelIsGood, RequestIsGood, OffersAreKept, JobIsGood
<1>6. PanelIsGood(v)
  BY <1>3, <1>4, <1>5 DEF PanelIsGood
<1>. QED BY <1>1, <1>2, <1>3, <1>6

LEMMA FromGood ==
  ASSUME NEW w, PanelIsGood(w), NEW source, source \in w.offered
  PROVE  LET v == Panel!From(w, source)
         IN  PanelIsGood(v) /\ v.tool = w.tool /\ v.offered = w.offered
<1>1. CASE w.source = source
  BY <1>1 DEF Panel!From
<1>2. CASE w.source # source
  <2> DEFINE u == Panel!Outdated(w)
             v == [u EXCEPT !.source = source]
  <2>1. PanelIsGood(u) /\ u.tool = w.tool /\ u.offered = w.offered
    BY OutdatedGood
  <2>2. Panel!From(w, source) = v
    BY <1>2 DEF Panel!From
  <2> HIDE DEF u
  <2>3. /\ IsPanel(v) /\ SameList(v, u) /\ SameMarks(v, u) /\ v.tool = u.tool /\ v.active = u.active
        /\ v.job = u.job /\ v.source = source /\ v.offered = u.offered
    BY <2>1 DEF PanelIsGood, IsPanel, Fields, SameList, SameMarks
  <2> HIDE DEF v
  <2>4. ListIsGood(v) /\ MarksAreGood(v)
    BY <2>1, <2>3, SameKeepIt DEF PanelIsGood
  <2>5. RequestIsGood(v)
    BY <2>1, <2>3 DEF PanelIsGood, RequestIsGood, OffersAreKept, JobIsGood
  <2>. QED BY <2>1, <2>2, <2>3, <2>4, <2>5 DEF PanelIsGood
<1>. QED BY <1>1, <1>2

\* A request is queued, for what was offered to this tool.
LEMMA QueuedGood ==
  ASSUME NEW w, PanelIsGood(w), w.tool # -1, NEW sources, NEW pages, NEW makes,
         w.tool # Panel!Merge => {sources[i] : i \in DOMAIN sources} \subseteq w.offered
  PROVE  PanelIsGood(Panel!Queued(w, sources, pages, makes))
<1>1. CASE w.job # None
  BY <1>1 DEF Panel!Queued
<1>2. CASE w.job = None
  <2> DEFINE j == [tool |-> w.tool, sources |-> sources, pages |-> pages, makes |-> makes,
                   current |-> TRUE]
             v == [w EXCEPT !.job = j]
  <2>1. Panel!Queued(w, sources, pages, makes) = v
    BY <1>2 DEF Panel!Queued
  <2>2. IsJob(j) /\ j.tool = w.tool /\ j.sources = sources
    BY DEF IsJob
  <2> HIDE DEF j
  <2>3. /\ IsPanel(v) /\ SameList(v, w) /\ SameMarks(v, w) /\ v.tool = w.tool /\ v.active = w.active
        /\ v.job = j /\ v.source = w.source /\ v.offered = w.offered
    BY DEF PanelIsGood, IsPanel, Fields, SameList, SameMarks
  <2> HIDE DEF v
  <2>4. ListIsGood(v) /\ MarksAreGood(v)
    BY <2>3, SameKeepIt DEF PanelIsGood
  <2>5. RequestIsGood(v)
    BY <2>2, <2>3 DEF PanelIsGood, RequestIsGood, OffersAreKept, JobIsGood
  <2>. QED BY <2>1, <2>3, <2>4, <2>5 DEF PanelIsGood
<1>. QED BY <1>1, <1>2

LEMMA OnSourceStep ==
  ASSUME PanelIsGood(world), world.tool # -1, NEW pages, NEW makes, Panel!OnSource(pages, makes)
  PROVE  PanelIsGood(world')
<1> DEFINE source == Panel!CurrentSource
           w == Panel!From(world, source)
           sources == <<source>>
<1>1. source \in world.offered
  BY DEF PanelIsGood, RequestIsGood, OffersAreKept, Panel!OnSource, Panel!CurrentSource
<1>2. world' = Panel!Queued(w, sources, pages, makes)
  BY DEF Panel!OnSource
<1> HIDE DEF source
<1>3. PanelIsGood(w) /\ w.tool = world.tool /\ w.offered = world.offered
  BY <1>1, FromGood
<1> HIDE DEF w
<1>4. {sources[i] : i \in DOMAIN sources} \subseteq w.offered
  BY <1>1, <1>3
<1> HIDE DEF sources
<1>. QED BY <1>2, <1>3, <1>4, QueuedGood

\* What a drop does, where it does anything.
Drops(paths) == world' = Panel!Extended(world, paths) \/ world' = Panel!Dropped(paths[1])

LEMMA DropStep ==
  ASSUME PanelIsGood(world), NEW paths \in Seq(PanelFiles), Drops(paths)
  PROVE  PanelIsGood(world')
<1>1. CASE world' = Panel!Extended(world, paths)
  BY <1>1, ExtendedGood
<1>2. CASE world' = Panel!Dropped(paths[1])
  <2> DEFINE w == [world EXCEPT !.offered = @ \cup {paths[1]}]
  <2>1. PanelIsGood(w) /\ paths[1] \in w.offered
    BY OfferedGood
  <2>2. world' = Panel!From(w, paths[1])
    BY <1>2 DEF Panel!Dropped
  <2> HIDE DEF w
  <2>. QED BY <2>1, <2>2, FromGood
<1>. QED BY <1>1, <1>2 DEF Drops

LEMMA EndJobStep ==
  ASSUME PanelIsGood(world), NEW completed, Panel!EndJob(completed)
  PROVE  PanelIsGood(world')
<1> DEFINE ended == [world EXCEPT !.job = None]
           out == [ended EXCEPT !.open = FALSE, !.tool = -1]
           closed == Panel!Sidebar(out)
<1>1. world' \in {ended, closed, Panel!BeginOpen(closed)}
  BY DEF Panel!EndJob
<1>2. PanelIsGood(ended)
  <2>1. /\ IsPanel(ended) /\ SameList(ended, world) /\ SameMarks(ended, world)
        /\ ended.tool = world.tool /\ ended.active = world.active
        /\ ended.job = None /\ ended.source = world.source /\ ended.offered = world.offered
    BY DEF PanelIsGood, IsPanel, Fields, SameList, SameMarks
  <2> HIDE DEF ended
  <2>2. ListIsGood(ended) /\ MarksAreGood(ended)
    BY <2>1, SameKeepIt DEF PanelIsGood
  <2>3. RequestIsGood(ended)
    BY <2>1 DEF PanelIsGood, RequestIsGood, OffersAreKept, JobIsGood, IsJob
  <2>. QED BY <2>1, <2>2, <2>3 DEF PanelIsGood
<1> HIDE DEF ended
<1>3. PanelIsGood(closed)
  <2> DEFINE o == [ended EXCEPT !.open = FALSE]
  <2>1. PanelIsGood(o)
    BY <1>2, OpenGood
  <2>2. out = [o EXCEPT !.tool = -1]
    OBVIOUS
  <2> HIDE DEF o, out
  <2>3. PanelIsGood(out)
    BY <2>1, <2>2, OpenGood
  <2>. QED BY <2>3, SidebarGood
<1> HIDE DEF closed
<1>. QED BY <1>1, <1>2, <1>3, BeginOpenGood

LEMMA FileSteps ==
  ASSUME PanelIsGood(world), Panel!FileActs
  PROVE  PanelIsGood(world')
<1>1. ASSUME NEW file \in PanelFiles, Panel!AddFiles(<<file>>) PROVE PanelIsGood(world')
  <2>1. <<file>> \in Seq(PanelFiles) /\ world' = Panel!Extended(world, <<file>>)
    BY <1>1 DEF Panel!AddFiles
  <2>. QED BY <2>1, ExtendedGood
<1>3. ASSUME Panel!ExecuteMerge PROVE PanelIsGood(world')
  <2> DEFINE sources == [i \in DOMAIN Panel!Entries |-> Panel!Entries[i].file]
  <2>1. world.tool = Panel!Merge /\ world' = Panel!Queued(world, sources, {}, "pdf")
    BY <1>3 DEF Panel!ExecuteMerge, Panel!In
  <2> HIDE DEF sources
  <2>2. world.tool # -1
    BY <2>1 DEF Panel!Merge
  <2>. QED BY <2>1, <2>2, QueuedGood
<1>4. ASSUME NEW paths \in {<<f, g>> : f, g \in PanelFiles}, Drops(paths)
      PROVE  PanelIsGood(world')
  <2>1. paths \in Seq(PanelFiles)
    <3>1. PICK f \in PanelFiles, g \in PanelFiles : paths = <<f, g>>
      OBVIOUS
    <3>2. <<f, g>> \in Seq(PanelFiles)
      OBVIOUS
    <3>. QED BY <3>1, <3>2
  <2>. QED BY <1>4, <2>1, DropStep
<1>5. ASSUME NEW i \in Panel!Places, Panel!SelectFile(i) \/ Panel!MoveUp(i) \/ Panel!MoveDown(i)
      PROVE  PanelIsGood(world')
  BY <1>5, MoveSteps DEF Panel!Places, Panel!Entries
<1>6. ASSUME NEW i \in Panel!Places, NEW j \in Panel!Places, Panel!DragTo(i, j)
      PROVE  PanelIsGood(world')
  BY <1>6, MoveSteps DEF Panel!Places, Panel!Entries
<1>7. CASE \E file \in PanelFiles : Panel!AddFiles(<<file>>)
  BY <1>1, <1>7
<1>8. CASE \E paths \in {<<f, g>> : f, g \in PanelFiles} : Drops(paths)
  BY <1>4, <1>8
<1>9. CASE \E i \in Panel!Places : Panel!SelectFile(i) \/ Panel!MoveUp(i) \/ Panel!MoveDown(i)
  BY <1>5, <1>9
<1>10. CASE \E from, to \in Panel!Places : Panel!DragTo(from, to)
  BY <1>6, <1>10
<1>. QED BY <1>3, <1>7, <1>8, <1>9, <1>10, RemoveFileStep, ClearFilesStep
     DEF Panel!FileActs, Panel!Drop, Drops

LEMMA RequestSteps ==
  ASSUME PanelIsGood(world), Panel!RequestActs
  PROVE  PanelIsGood(world')
<1>1. ASSUME NEW file \in PanelFiles, NEW native \in BOOLEAN, Panel!Drop(<<file>>, native)
      PROVE  PanelIsGood(world')
  <2>1. <<file>> \in Seq(PanelFiles)
    OBVIOUS
  <2>2. Drops(<<file>>)
    BY <1>1 DEF Panel!Drop, Drops
  <2>. QED BY <2>1, <2>2, DropStep
<1>2. ASSUME Panel!ExecuteRange PROVE PanelIsGood(world')
  BY <1>2, OnSourceStep DEF Panel!ExecuteRange, Panel!OfRanges, Panel!Split, Panel!Convert
<1>3. ASSUME Panel!ExecuteCrop PROVE PanelIsGood(world')
  BY <1>3, OnSourceStep DEF Panel!ExecuteCrop, Panel!Crop
<1>4. ASSUME NEW order, Panel!ExecuteReorder(order) PROVE PanelIsGood(world')
  BY <1>4, OnSourceStep DEF Panel!ExecuteReorder, Panel!Reorder
<1>5. ASSUME world' = Panel!BeginOpen(world) PROVE PanelIsGood(world')
  BY <1>5, BeginOpenGood
<1>. QED BY <1>1, <1>2, <1>3, <1>4, <1>5, ShowStep, EndJobStep DEF Panel!RequestActs

LEMMA PanelStep ==
  ASSUME PanelIsGood(world), Panel!Next
  PROVE  PanelIsGood(world')
BY WindowSteps, OpenToolStep, FileSteps, PageSteps, RequestSteps DEF Panel!Next, Panel!WindowActs

LEMMA PanelInit ==
  ASSUME Panel!Init
  PROVE  PanelIsGood(world)
<1>1. /\ IsPanel(world) /\ world.entries = <<>> /\ world.added = 0 /\ world.listed = {}
      /\ world.held = None /\ world.picked = 0 /\ world.drawn = {}
      /\ world.tool = -1 /\ world.job = None
  BY DEF Panel!Init, IsPanel, Fields
<1>2. ListIsGood(world)
  BY <1>1, EmptySeq DEF ListIsGood, IsList, IsHeld
<1>3. MarksAreGood(world) /\ RequestIsGood(world)
  BY <1>1 DEF MarksAreGood, RequestIsGood, JobIsGood, IsJob
<1>. QED BY <1>1, <1>2, <1>3 DEF PanelIsGood

\* The panel marks, lists and asks for what the user chose in it, through every
\* change of tool, list and document.
THEOREM PanelStaysRight == Spec => []PanelIsRight
<1> DEFINE Inv == owner = "panel" => PanelIsGood(world)
<1>1. Init => Inv
  BY PanelInit DEF Init
<1>2. Inv /\ [Next]_vars => Inv'
  <2> SUFFICES ASSUME Inv, [Next]_vars, owner' = "panel" PROVE PanelIsGood(world')
    OBVIOUS
  <2>1. CASE UNCHANGED vars
    <3>1. UNCHANGED <<owner, work, world>>
      BY <2>1 DEF vars, working
    <3>. QED BY <3>1
  <2>2. CASE Next
    <3>1. owner = "panel" /\ Panel!Next
      BY <2>2 DEF Next
    <3>. QED BY <3>1, PanelStep
  <2>. QED BY <2>1, <2>2
<1>3. Inv => PanelIsRight
  <2> SUFFICES ASSUME PanelIsGood(world) PROVE Panel!PanelIsRight
    BY DEF PanelIsRight
  <2>1. /\ world.entries \in Seq(Entry) /\ DOMAIN world.entries = 1..Len(world.entries)
        /\ world.listed = {world.entries[i] : i \in 1..Len(world.entries)}
        /\ \A i, j \in 1..Len(world.entries) : world.entries[i] = world.entries[j] => i = j
    BY EntriesAre DEF PanelIsGood, ListIsGood, IsList
  <2>2. Cardinality(world.listed) = Len(world.entries)
    BY <2>1, DistinctCardinality
  <2>3. Panel!ListIsTheUsers
    <3>1. Panel!Cardinality(world.listed) = Cardinality(world.listed)
      BY DEF Panel!Cardinality, Cardinality
    <3>. QED BY <2>1, <2>2, <3>1 DEF Panel!ListIsTheUsers, Panel!Entries, Panel!ToSet, Panel!Places, PanelIsGood,
                      ListIsGood, IsHeld
  <2>4. Panel!MarksAreTheRange
    BY DEF PanelIsGood, MarksAreGood, Panel!MarksAreTheRange
  <2>5. Panel!RequestIsOfThisTool
    BY DEF PanelIsGood, RequestIsGood, JobIsGood, Panel!RequestIsOfThisTool, Panel!ToSet
  <2>. QED BY <2>3, <2>4, <2>5 DEF Panel!PanelIsRight
<1>. QED BY <1>1, <1>2, <1>3, PTL DEF Spec

(* The byte-bounded caches: what is cached fits the budget, the counter never *)
(* falls behind it, and an insertion costs no more of the others than it needs  *)
(* the room of.                                                               *)

-----------------------------------------------------------------------------
(* The bytes of a sequence of entries *)

Sized(E) == \A e \in E : e.bytes \in Nat

IsSum(sum, entries) ==
  sum = [n \in 0..Len(entries) |-> IF n = 0 THEN 0 ELSE sum[n - 1] + entries[n].bytes]

LEMMA SumExists ==
  ASSUME NEW E, Sized(E), NEW s \in Seq(E)
  PROVE  \E sum \in [0..Len(s) -> Nat] : IsSum(sum, s)
<1> DEFINE m == Len(s)
           F == [p \in (0..m) \X Nat |-> IF p[1] = 0 THEN 0 ELSE p[2] + s[p[1]].bytes]
<1>1. m \in Nat /\ 0 \in Nat /\ 0 <= m
  OBVIOUS
<1>2. \A i \in 1..m : s[i].bytes \in Nat
  BY DEF Sized
<1>3. \A n \in 0..m, v \in Nat : F[<<n, v>>] = IF n = 0 THEN 0 ELSE v + s[n].bytes
  OBVIOUS
<1> HIDE DEF F, m
<1>4. StepsIn(Nat, 0, m, F)
  <2>1. ASSUME NEW n \in 0..m, n # 0, NEW v \in Nat PROVE F[<<n, v>>] \in Nat
    <3>1. n \in 1..m
      BY <1>1, <2>1
    <3>. QED BY <1>2, <1>3, <2>1, <3>1
  <2>. QED BY <2>1 DEF StepsIn
<1>5. PICK f \in [0..m -> Nat] : Begins(f, 0, m, 0, F)
  BY <1>1, <1>4, RecursionExists
<1>6. ASSUME NEW n \in 0..m PROVE f[n] = IF n = 0 THEN 0 ELSE f[n - 1] + s[n].bytes
  <2>1. CASE n = 0
    BY <1>5, <2>1 DEF Begins
  <2>2. CASE n # 0
    <3>1. n - 1 \in 0..m
      BY <1>1, <2>2
    <3>2. f[n] = F[<<n, f[n - 1]>>] /\ f[n - 1] \in Nat
      BY <1>5, <2>2, <3>1 DEF Begins
    <3>. QED BY <1>3, <2>2, <3>2
  <2>. QED BY <2>1, <2>2
<1>7. IsSum(f, s)
  BY <1>6 DEF IsSum, m
<1>. QED BY <1>7 DEF m

\* The total is what any such function has at the end.
LEMMA TotalIs ==
  ASSUME NEW E, Sized(E), NEW s \in Seq(E), NEW f, IsSum(f, s)
  PROVE  Total(s) = f[Len(s)] /\ Total(s) \in Nat
<1> DEFINE g == CHOOSE g : IsSum(g, s)
           m == Len(s)
           T == {n \in Nat : n <= m => f[n] = g[n] /\ f[n] \in Nat}
<1>1. IsSum(g, s)
  OBVIOUS
<1>2. Total(s) = g[m]
  BY DEF Total, IsSum
<1>3. m \in Nat /\ \A i \in 1..m : s[i].bytes \in Nat
  BY DEF Sized
<1> HIDE DEF g
<1>4. \A n \in 0..m : f[n] = (IF n = 0 THEN 0 ELSE f[n - 1] + s[n].bytes)
                      /\ g[n] = (IF n = 0 THEN 0 ELSE g[n - 1] + s[n].bytes)
  <2>1. f = [n \in 0..m |-> IF n = 0 THEN 0 ELSE f[n - 1] + s[n].bytes]
    BY DEF IsSum
  <2>2. g = [n \in 0..m |-> IF n = 0 THEN 0 ELSE g[n - 1] + s[n].bytes]
    BY <1>1 DEF IsSum
  <2> HIDE DEF m
  <2>. QED BY <2>1, <2>2
<1> HIDE DEF m
<1>5. 0 \in T
  <2>1. 0 \in 0..m
    BY <1>3
  <2>2. f[0] = 0 /\ g[0] = 0
    BY <1>4, <2>1
  <2>. QED BY <2>2
<1>6. \A n \in Nat : n \in T => n + 1 \in T
  <2>1. SUFFICES ASSUME NEW n \in Nat, n \in T, n + 1 <= m
                 PROVE  f[n + 1] = g[n + 1] /\ f[n + 1] \in Nat
    OBVIOUS
  <2>2. n + 1 \in 0..m /\ n + 1 \in 1..m /\ n + 1 # 0 /\ (n + 1) - 1 = n /\ n <= m
    BY <1>3, <2>1
  <2>3. f[n] = g[n] /\ f[n] \in Nat
    BY <2>1, <2>2
  <2> HIDE DEF T
  <2>4. f[n + 1] = f[n] + s[n + 1].bytes /\ g[n + 1] = g[n] + s[n + 1].bytes
    BY <1>4, <2>2
  <2>. QED BY <1>3, <2>2, <2>3, <2>4
<1> HIDE DEF T
<1>7. m \in T
  BY <1>3, <1>5, <1>6, Induction
<1>. QED BY <1>2, <1>3, <1>7 DEF T, m

LEMMA TotalType ==
  ASSUME NEW E, Sized(E), NEW s \in Seq(E)
  PROVE  Total(s) \in Nat
  BY SumExists, TotalIs

LEMMA TotalEmpty == Total(<<>>) = 0
<1>1. <<>> \in Seq({}) /\ Sized({}) /\ Len(<<>>) = 0
  BY EmptySeq DEF Sized
<1>2. PICK f \in [0..Len(<<>>) -> Nat] : IsSum(f, <<>>)
  BY <1>1, SumExists
<1>3. f[0] = 0
  BY <1>1, <1>2 DEF IsSum
<1>. QED BY <1>1, <1>2, <1>3, TotalIs

LEMMA TotalAppend ==
  ASSUME NEW E, Sized(E), NEW s \in Seq(E), NEW e \in E
  PROVE  Total(Append(s, e)) = Total(s) + e.bytes
<1> DEFINE t == Append(s, e)
           m == Len(s)
<1>1. /\ t \in Seq(E) /\ Len(t) = m + 1 /\ m \in Nat
      /\ \A i \in 1..m : t[i] = s[i]
      /\ t[m + 1] = e
  BY AppendProperties
<1> HIDE DEF t
<1>2. PICK f \in [0..m + 1 -> Nat] : IsSum(f, t)
  BY <1>1, SumExists
<1>3. Total(t) = f[m + 1]
  BY <1>1, <1>2, TotalIs
<1> DEFINE g == [n \in 0..m |-> f[n]]
<1>4. \A n \in 0..m + 1 : f[n] = IF n = 0 THEN 0 ELSE f[n - 1] + t[n].bytes
  <2>1. f = [n \in 0..m + 1 |-> IF n = 0 THEN 0 ELSE f[n - 1] + t[n].bytes]
    BY <1>1, <1>2 DEF IsSum
  <2> HIDE DEF m
  <2>. QED BY <2>1
<1>5. ASSUME NEW n \in 0..m PROVE g[n] = IF n = 0 THEN 0 ELSE g[n - 1] + s[n].bytes
  <2>1. n \in 0..m + 1 /\ g[n] = f[n]
    BY <1>1
  <2>2. n # 0 => n \in 1..m /\ n - 1 \in 0..m /\ g[n - 1] = f[n - 1]
    BY <1>1
  <2> HIDE DEF g, m
  <2>. QED BY <1>1, <1>4, <2>1, <2>2
<1>6. IsSum(g, s)
  <2>1. g = [n \in 0..m |-> g[n]]
    OBVIOUS
  <2> HIDE DEF g
  <2>2. g = [n \in 0..m |-> IF n = 0 THEN 0 ELSE g[n - 1] + s[n].bytes]
    BY <1>5, <2>1
  <2>. QED BY <2>2 DEF IsSum
<1>7. Total(s) = f[m]
  <2>1. g[m] = f[m]
    BY <1>1
  <2> HIDE DEF g
  <2>. QED BY <1>6, <2>1, TotalIs
<1>8. m + 1 \in 0..m + 1 /\ m + 1 # 0 /\ (m + 1) - 1 = m
  BY <1>1
<1>9. f[m + 1] = f[m] + t[m + 1].bytes
  BY <1>4, <1>8
<1>. QED BY <1>1, <1>3, <1>7, <1>9 DEF t

LEMMA TotalOfOne ==
  ASSUME NEW E, Sized(E), NEW e \in E
  PROVE  Total(<<e>>) = e.bytes
<1>1. <<e>> = Append(<<>>, e) /\ <<>> \in Seq(E)
  BY EmptySeq
<1>2. Total(<<e>>) = Total(<<>>) + e.bytes
  BY <1>1, TotalAppend
<1>. QED BY <1>2, TotalEmpty DEF Sized

LEMMA TotalConcat ==
  ASSUME NEW E, Sized(E), NEW s \in Seq(E), NEW t \in Seq(E)
  PROVE  Total(s \o t) = Total(s) + Total(t)
<1> DEFINE P == {u \in Seq(E) : Total(s \o u) = Total(s) + Total(u)}
<1>0. Total(s) \in Nat
  BY TotalType
<1>1. <<>> \in P
  <2>1. <<>> \in Seq(E) /\ s \o <<>> = s
    BY EmptySeq, ConcatEmptySeq
  <2>. QED BY <1>0, <2>1, TotalEmpty
<1>2. ASSUME NEW u \in Seq(E), NEW e \in E, u \in P PROVE Append(u, e) \in P
  <2>1. Append(u, e) \in Seq(E) /\ s \o u \in Seq(E) /\ e.bytes \in Nat
    BY AppendProperties, ConcatProperties DEF Sized
  <2>2. s \o Append(u, e) = Append(s \o u, e)
    <3>1. Append(u, e) = u \o <<e>> /\ Append(s \o u, e) = (s \o u) \o <<e>> /\ <<e>> \in Seq(E)
      BY <2>1, AppendIsConcat
    <3>2. (s \o u) \o <<e>> = s \o (u \o <<e>>)
      BY <3>1, ConcatAssociative
    <3>. QED BY <3>1, <3>2
  <2>3. Total(Append(u, e)) = Total(u) + e.bytes /\ Total(Append(s \o u, e)) = Total(s \o u) + e.bytes
    BY <2>1, TotalAppend
  <2>4. Total(u) \in Nat /\ Total(s \o u) = Total(s) + Total(u)
    BY <1>2, TotalType
  <2>5. Total(s \o Append(u, e)) = Total(s) + Total(Append(u, e))
    <3> DEFINE a == Total(s \o u)
               b == Total(u)
               c == e.bytes
               d == Total(s)
    <3>1. {b, c, d} \subseteq Nat /\ a = d + b
      BY <1>0, <2>1, <2>4
    <3>2. Total(s \o Append(u, e)) = a + c /\ Total(Append(u, e)) = b + c
      BY <2>2, <2>3
    <3> HIDE DEF a, b, c, d, P
    <3>3. a + c = d + (b + c)
      BY <3>1
    <3>. QED BY <3>2, <3>3 DEF d
  <2>. QED BY <2>1, <2>5
<1> HIDE DEF P
<1>3. \A u \in Seq(E) : u \in P
  BY <1>1, <1>2, SequenceInduction
<1>. QED BY <1>3 DEF P

\* What is before an entry and what is after it.
LEMMA TotalSplit ==
  ASSUME NEW E, Sized(E), NEW s \in Seq(E), NEW k \in 0..Len(s)
  PROVE  /\ SubSeq(s, 1, k) \in Seq(E) /\ Len(SubSeq(s, 1, k)) = k
         /\ SubSeq(s, k + 1, Len(s)) \in Seq(E)
         /\ Total(s) = Total(SubSeq(s, 1, k)) + Total(SubSeq(s, k + 1, Len(s)))
         /\ {Total(s), Total(SubSeq(s, 1, k)), Total(SubSeq(s, k + 1, Len(s)))} \subseteq Nat
<1> DEFINE m == Len(s)
           a == SubSeq(s, 1, k)
           b == SubSeq(s, k + 1, m)
<1>1. m \in Nat /\ k \in Nat /\ k <= m /\ \A i \in 1..m : s[i] \in E
  OBVIOUS
<1>2. a \in Seq(E) /\ Len(a) = k
  BY <1>1, SubSeqProperties
<1>3. b \in Seq(E)
  BY <1>1, SubSeqProperties
<1>4. a \o b = s
  <2>1. 1 \in 1..m + 1 /\ k \in 1 - 1..m /\ m \in k..m
    BY <1>1
  <2>2. SubSeq(s, 1, k) \o SubSeq(s, k + 1, m) = SubSeq(s, 1, m)
    BY <2>1, ConcatAdjacentSubSeq
  <2>. QED BY <2>2, SubSeqFull
<1> HIDE DEF a, b
<1>5. Total(s) = Total(a) + Total(b)
  BY <1>2, <1>3, <1>4, TotalConcat
<1>. QED BY <1>2, <1>3, <1>5, TotalType DEF a, b

-----------------------------------------------------------------------------
(* The keys of a sequence of entries, and the entries with some of them *)

Different(s) == \A i, j \in 1..Len(s) : s[i].key = s[j].key => i = j

LEMMA KeysOfEmpty == KeysOf(<<>>) = {} /\ Different(<<>>)
  BY DEF KeysOf, Different

LEMMA KeysOfOne ==
  ASSUME NEW e
  PROVE  KeysOf(<<e>>) = {e.key} /\ Different(<<e>>)
<1>1. DOMAIN <<e>> = {1} /\ <<e>>[1] = e /\ Len(<<e>>) = 1
  OBVIOUS
<1> DEFINE s == <<e>>
<1>2. DOMAIN s = {1} /\ s[1] = e /\ 1..Len(s) = {1}
  BY <1>1
<1> HIDE DEF s
<1>3. KeysOf(s) = {e.key} /\ Different(s)
  BY <1>2 DEF KeysOf, Different
<1>. QED BY <1>3 DEF s

LEMMA KeysOfConcat ==
  ASSUME NEW E, NEW s \in Seq(E), NEW t \in Seq(E)
  PROVE  /\ KeysOf(s \o t) = KeysOf(s) \cup KeysOf(t)
         /\ Different(s) /\ Different(t) /\ KeysOf(s) \cap KeysOf(t) = {} => Different(s \o t)
<1> DEFINE u == s \o t
           m == Len(s)
           n == Len(t)
<1>1. /\ u \in Seq(E) /\ Len(u) = m + n /\ m \in Nat /\ n \in Nat
      /\ \A i \in 1..m + n : u[i] = IF i <= m THEN s[i] ELSE t[i - m]
      /\ DOMAIN u = 1..m + n /\ DOMAIN s = 1..m /\ DOMAIN t = 1..n
  BY ConcatProperties, LenProperties
<1>2. \A i \in 1..m : i \in 1..m + n /\ u[i] = s[i]
  <2> HIDE DEF u
  <2>. QED BY <1>1
<1>3. \A i \in 1..n : m + i \in 1..m + n /\ u[m + i] = t[i]
  <2>1. ASSUME NEW i \in 1..n PROVE m + i \in 1..m + n /\ u[m + i] = t[i]
    <3>1. m + i \in 1..m + n /\ ~ (m + i <= m) /\ (m + i) - m = i
      BY <1>1
    <3> HIDE DEF u, m
    <3>. QED BY <1>1, <3>1
  <2>. QED BY <2>1
<1>4. \A i \in 1..m + n : i \in 1..m \/ \E j \in 1..n : i = m + j
  <2>1. ASSUME NEW i \in 1..m + n, ~ (i \in 1..m) PROVE i - m \in 1..n /\ i = m + (i - m)
    BY <1>1, <2>1
  <2>. QED BY <2>1
<1> HIDE DEF u, m, n
<1>5. KeysOf(u) = KeysOf(s) \cup KeysOf(t)
  <2>1. ASSUME NEW k \in KeysOf(u) PROVE k \in KeysOf(s) \cup KeysOf(t)
    <3>1. PICK i \in 1..m + n : k = u[i].key
      BY <1>1 DEF KeysOf
    <3>2. CASE i \in 1..m
      BY <1>1, <1>2, <3>1, <3>2 DEF KeysOf
    <3>3. CASE ~ (i \in 1..m)
      <4>1. PICK j \in 1..n : i = m + j
        BY <1>4, <3>3
      <4>2. k = t[j].key
        BY <1>3, <3>1, <4>1
      <4>. QED BY <1>1, <4>2 DEF KeysOf
    <3>. QED BY <3>2, <3>3
  <2>2. ASSUME NEW k \in KeysOf(s) PROVE k \in KeysOf(u)
    <3>1. PICK i \in 1..m : k = s[i].key
      BY <1>1 DEF KeysOf
    <3>. QED BY <1>1, <1>2, <3>1 DEF KeysOf
  <2>3. ASSUME NEW k \in KeysOf(t) PROVE k \in KeysOf(u)
    <3>1. PICK i \in 1..n : k = t[i].key
      BY <1>1 DEF KeysOf
    <3>. QED BY <1>1, <1>3, <3>1 DEF KeysOf
  <2>. QED BY <2>1, <2>2, <2>3
<1>6. ASSUME Different(s), Different(t), KeysOf(s) \cap KeysOf(t) = {} PROVE Different(u)
  <2>0. /\ \A i, j \in 1..m : s[i].key = s[j].key => i = j
        /\ \A i, j \in 1..n : t[i].key = t[j].key => i = j
        /\ \A i \in 1..m, j \in 1..n : s[i].key # t[j].key
    <3>1. ASSUME NEW i \in 1..m, NEW j \in 1..n PROVE s[i].key # t[j].key
      <4>1. s[i].key \in KeysOf(s) /\ t[j].key \in KeysOf(t)
        BY <1>1 DEF KeysOf
      <4>. QED BY <1>6, <4>1
    <3>. QED BY <1>6, <3>1 DEF Different, m, n
  <2>1. ASSUME NEW i \in 1..m + n, NEW j \in 1..m + n, u[i].key = u[j].key PROVE i = j
    <3>1. CASE i \in 1..m /\ j \in 1..m
      BY <1>2, <2>0, <2>1, <3>1
    <3>2. CASE i \in 1..m /\ ~ (j \in 1..m)
      <4>1. PICK b \in 1..n : j = m + b
        BY <1>4, <3>2
      <4>. QED BY <1>2, <1>3, <2>0, <2>1, <3>2, <4>1
    <3>3. CASE ~ (i \in 1..m) /\ j \in 1..m
      <4>1. PICK a \in 1..n : i = m + a
        BY <1>4, <3>3
      <4>2. s[j].key = t[a].key
        BY <1>2, <1>3, <2>1, <3>3, <4>1
      <4>. QED BY <2>0, <3>3, <4>2
    <3>4. CASE ~ (i \in 1..m) /\ ~ (j \in 1..m)
      <4>1. PICK a \in 1..n : i = m + a
        BY <1>4, <3>4
      <4>2. PICK b \in 1..n : j = m + b
        BY <1>4, <3>4
      <4>. QED BY <1>3, <2>0, <2>1, <4>1, <4>2
    <3>. QED BY <3>1, <3>2, <3>3, <3>4
  <2>. QED BY <1>1, <2>1 DEF Different
<1>. QED BY <1>5, <1>6 DEF u

\* The first ones of different entries are different.
LEMMA DifferentPrefix ==
  ASSUME NEW E, NEW s \in Seq(E), NEW k \in 0..Len(s), Different(s)
  PROVE  Different(SubSeq(s, 1, k))
<1> DEFINE t == SubSeq(s, 1, k)
<1>1. Len(s) \in Nat /\ \A i \in 1..k : i \in 1..Len(s) /\ s[i] \in E
  OBVIOUS
<1>2. Len(t) = k /\ \A i \in 1..k : t[i] = s[i]
  <2>1. 1 \in Int /\ k \in Int /\ k \in Nat /\ \A i \in 1..k : s[i] \in E
    BY <1>1
  <2>2. /\ Len(SubSeq(s, 1, k)) = IF 1 <= k THEN k - 1 + 1 ELSE 0
        /\ \A i \in 1..k - 1 + 1 : SubSeq(s, 1, k)[i] = s[1 + i - 1]
    BY <2>1, SubSeqProperties
  <2>. QED BY <2>1, <2>2
<1> HIDE DEF t
<1>3. Different(t)
  BY <1>1, <1>2 DEF Different
<1>. QED BY <1>3 DEF t

LEMMA KeysOfPrefix ==
  ASSUME NEW E, NEW s \in Seq(E), NEW k \in 0..Len(s)
  PROVE  KeysOf(SubSeq(s, 1, k)) \subseteq KeysOf(s)
<1> DEFINE t == SubSeq(s, 1, k)
<1>1. Len(s) \in Nat /\ DOMAIN s = 1..Len(s) /\ \A i \in 1..k : i \in 1..Len(s) /\ s[i] \in E
  BY LenProperties
<1>2. t \in Seq(E) /\ Len(t) = k /\ \A i \in 1..k : t[i] = s[i]
  <2>1. 1 \in Int /\ k \in Int /\ k \in Nat /\ \A i \in 1..k : s[i] \in E
    BY <1>1
  <2>2. /\ t \in Seq(E) /\ Len(t) = IF 1 <= k THEN k - 1 + 1 ELSE 0
        /\ \A i \in 1..k - 1 + 1 : t[i] = s[1 + i - 1]
    BY <2>1, SubSeqProperties
  <2>. QED BY <2>1, <2>2
<1> HIDE DEF t
<1>3. DOMAIN t = 1..k
  BY <1>2, LenProperties
<1>4. KeysOf(t) \subseteq KeysOf(s)
  BY <1>1, <1>2, <1>3 DEF KeysOf
<1>. QED BY <1>4 DEF t

Chosen(e, keys) == IF e.key \in keys THEN <<e>> ELSE <<>>

LEMMA AmongEmpty ==
  ASSUME NEW keys
  PROVE  Among(<<>>, keys) = <<>>
<1>1. [i \in DOMAIN <<>> |-> IF <<>>[i].key \in keys THEN <<<<>>[i]>> ELSE <<>>] = <<>>
  OBVIOUS
<1>. QED BY <1>1, FlattenEmpty DEF Among

LEMMA AmongAppend ==
  ASSUME NEW E, NEW s \in Seq(E), NEW e \in E, NEW keys
  PROVE  Among(Append(s, e), keys) = Among(s, keys) \o Chosen(e, keys)
<1> DEFINE t == Append(s, e)
           m == Len(s)
           cs == [i \in 1..m |-> Chosen(s[i], keys)]
           ct == [i \in 1..m + 1 |-> Chosen(t[i], keys)]
           V == Seq(E)
<1>1. /\ t \in Seq(E) /\ Len(t) = m + 1 /\ m \in Nat
      /\ \A i \in 1..m : t[i] = s[i]
      /\ t[m + 1] = e
      /\ DOMAIN t = 1..m + 1 /\ DOMAIN s = 1..m
  BY AppendProperties, LenProperties
<1>2. \A x \in E : Chosen(x, keys) \in V
  BY EmptySeq DEF Chosen
<1>3. \A i \in 1..m : s[i] \in E
  OBVIOUS
<1>4. Among(s, keys) = FlattenSeq(cs)
  BY <1>1 DEF Among, Chosen
<1>5. Among(t, keys) = FlattenSeq(ct)
  <2> HIDE DEF t
  <2>. QED BY <1>1 DEF Among, Chosen
<1>6. cs \in Seq(V) /\ Chosen(e, keys) \in V /\ Len(cs) = m
  <2> HIDE DEF V
  <2>. QED BY <1>1, <1>2, <1>3
<1>7. ct = Append(cs, Chosen(e, keys))
  <2> DEFINE d == Append(cs, Chosen(e, keys))
  <2> HIDE DEF cs, t
  <2>1. /\ d \in Seq(V) /\ Len(d) = m + 1 /\ \A i \in 1..m : d[i] = cs[i]
        /\ d[m + 1] = Chosen(e, keys)
    <3> HIDE DEF V
    <3>. QED BY <1>6, AppendProperties
  <2>2. \A i \in 1..m : cs[i] = Chosen(t[i], keys)
    BY <1>1 DEF cs
  <2>3. d = [i \in 1..m + 1 |-> d[i]]
    <3> HIDE DEF d, V
    <3>1. d \in [1..m + 1 -> V]
      BY <2>1, LenProperties
    <3>. QED BY <3>1
  <2> HIDE DEF d, V
  <2>4. ASSUME NEW i \in 1..m + 1 PROVE d[i] = Chosen(t[i], keys)
    <3>1. i \in 1..m \/ i = m + 1
      BY <1>1
    <3>. QED BY <1>1, <2>1, <2>2, <3>1
  <2>. QED BY <2>3, <2>4 DEF d
<1>8. FlattenSeq(Append(cs, Chosen(e, keys))) = FlattenSeq(cs) \o Chosen(e, keys)
  <2> HIDE DEF cs
  <2>. QED BY <1>6, FlattenAppend
<1>. QED BY <1>4, <1>5, <1>7, <1>8

\* Some of the entries, as different as they were.
LEMMA AmongIs ==
  ASSUME NEW E, NEW s \in Seq(E), NEW keys
  PROVE  /\ Among(s, keys) \in Seq(E)
         /\ Len(Among(s, keys)) <= Len(s)
         /\ KeysOf(Among(s, keys)) = KeysOf(s) \cap keys
         /\ Different(s) => Different(Among(s, keys))
<1> DEFINE P == {u \in Seq(E) : /\ Among(u, keys) \in Seq(E)
                                /\ Len(Among(u, keys)) <= Len(u)
                                /\ KeysOf(Among(u, keys)) = KeysOf(u) \cap keys
                                /\ Different(u) => Different(Among(u, keys))}
<1>1. <<>> \in P
  <2>1. <<>> \in Seq(E) /\ Len(<<>>) <= Len(<<>>) /\ KeysOf(<<>>) = {} /\ Different(<<>>)
    BY EmptySeq, KeysOfEmpty
  <2>. QED BY <2>1, AmongEmpty
<1>2. ASSUME NEW u \in Seq(E), NEW e \in E, u \in P PROVE Append(u, e) \in P
  <2> DEFINE a == Among(u, keys)
             c == Chosen(e, keys)
             v == Append(u, e)
             b == Among(v, keys)
  <2>1. /\ a \in Seq(E) /\ Len(a) <= Len(u) /\ KeysOf(a) = KeysOf(u) \cap keys
        /\ Different(u) => Different(a)
    BY <1>2
  <2>2. v \in Seq(E) /\ v = u \o <<e>> /\ <<e>> \in Seq(E) /\ Len(v) = Len(u) + 1
    BY AppendProperties, AppendIsConcat
  <2>3. /\ c \in Seq(E) /\ Len(c) <= 1 /\ Len(c) \in Nat /\ Different(c)
        /\ KeysOf(c) = {e.key} \cap keys
    <3>1. CASE e.key \in keys
      <4>1. c = <<e>>
        BY <3>1 DEF Chosen
      <4>. QED BY <2>2, <3>1, <4>1, KeysOfOne
    <3>2. CASE e.key \notin keys
      <4>1. c = <<>>
        BY <3>2 DEF Chosen
      <4>. QED BY <3>2, <4>1, KeysOfEmpty, EmptySeq
    <3>. QED BY <3>1, <3>2
  <2>4. b = a \o c
    BY AmongAppend
  <2>5. KeysOf(v) = KeysOf(u) \cup {e.key}
    <3>1. KeysOf(u \o <<e>>) = KeysOf(u) \cup KeysOf(<<e>>)
      BY <2>2, KeysOfConcat
    <3>. QED BY <2>2, <3>1, KeysOfOne
  <2>6. Different(v) => Different(u) /\ e.key \notin KeysOf(u)
    <3>1. SUFFICES ASSUME Different(v) PROVE Different(u) /\ e.key \notin KeysOf(u)
      OBVIOUS
    <3> DEFINE m == Len(u)
    <3>2. /\ m \in Nat /\ Len(v) = m + 1 /\ \A i \in 1..m : v[i] = u[i]
          /\ v[m + 1] = e /\ DOMAIN u = 1..m
      BY AppendProperties, LenProperties
    <3> HIDE DEF v, m
    <3>3. \A i, j \in 1..m + 1 : v[i].key = v[j].key => i = j
      BY <3>1, <3>2 DEF Different
    <3>4. \A i \in 1..m : i \in 1..m + 1 /\ m + 1 \in 1..m + 1 /\ i # m + 1
      BY <3>2
    <3>5. \A i, j \in 1..m : u[i].key = u[j].key => i = j
      BY <3>2, <3>3, <3>4
    <3>6. \A i \in 1..m : u[i].key # e.key
      BY <3>2, <3>3, <3>4
    <3>. QED BY <3>2, <3>5, <3>6 DEF Different, KeysOf, m
  <2> HIDE DEF a, b, c, v, P
  <2>7. b \in Seq(E) /\ Len(b) = Len(a) + Len(c) /\ KeysOf(b) = KeysOf(a) \cup KeysOf(c)
    BY <2>1, <2>3, <2>4, ConcatProperties, KeysOfConcat
  <2>8. Len(b) <= Len(v)
    <3>1. Len(a) \in Nat /\ Len(u) \in Nat
      BY <2>1
    <3>. QED BY <2>1, <2>2, <2>3, <2>7, <3>1
  <2>9. KeysOf(b) = KeysOf(v) \cap keys
    BY <2>1, <2>3, <2>5, <2>7
  <2>10. Different(v) => Different(b)
    <3>1. SUFFICES ASSUME Different(v) PROVE Different(b)
      OBVIOUS
    <3>2. KeysOf(a) \cap KeysOf(c) = {}
      BY <2>1, <2>3, <2>6, <3>1
    <3>. QED BY <2>1, <2>3, <2>4, <2>6, <3>1, <3>2, KeysOfConcat
  <2>. QED BY <2>2, <2>7, <2>8, <2>9, <2>10 DEF P, b, v
<1> HIDE DEF P
<1>3. \A u \in Seq(E) : u \in P
  BY <1>1, <1>2, SequenceInduction
<1>. QED BY <1>3 DEF P

\* Every entry is among one of the two sets, so their numbers add up, and so do
\* their bytes.
LEMMA AmongDivides ==
  ASSUME NEW E, Sized(E), NEW s \in Seq(E), NEW k1, NEW k2, k1 \cap k2 = {},
         KeysOf(s) \subseteq k1 \cup k2
  PROVE  /\ Total(Among(s, k1)) + Total(Among(s, k2)) = Total(s)
         /\ Len(Among(s, k1)) + Len(Among(s, k2)) = Len(s)
<1> DEFINE P == {u \in Seq(E) : KeysOf(u) \subseteq k1 \cup k2 =>
                                /\ Total(Among(u, k1)) + Total(Among(u, k2)) = Total(u)
                                /\ Len(Among(u, k1)) + Len(Among(u, k2)) = Len(u)}
<1>1. <<>> \in P
  <2>1. <<>> \in Seq(E) /\ 0 + 0 = 0 /\ Len(<<>>) = 0
    BY EmptySeq
  <2>. QED BY <2>1, AmongEmpty, TotalEmpty
<1>2. ASSUME NEW u \in Seq(E), NEW e \in E, u \in P PROVE Append(u, e) \in P
  <2> DEFINE v == Append(u, e)
  <2>1. SUFFICES ASSUME KeysOf(v) \subseteq k1 \cup k2
                 PROVE  /\ Total(Among(v, k1)) + Total(Among(v, k2)) = Total(v)
                        /\ Len(Among(v, k1)) + Len(Among(v, k2)) = Len(v)
    BY AppendProperties
  <2>2. KeysOf(v) = KeysOf(u) \cup {e.key}
    <3>1. v = u \o <<e>> /\ <<e>> \in Seq(E)
      BY AppendIsConcat
    <3> HIDE DEF P, v
    <3>2. KeysOf(u \o <<e>>) = KeysOf(u) \cup KeysOf(<<e>>)
      BY <3>1, KeysOfConcat
    <3>. QED BY <3>1, <3>2, KeysOfOne
  <2>3. /\ Total(Among(u, k1)) + Total(Among(u, k2)) = Total(u)
        /\ Len(Among(u, k1)) + Len(Among(u, k2)) = Len(u)
    BY <1>2, <2>1, <2>2
  <2>4. Total(v) = Total(u) + e.bytes /\ e.bytes \in Nat /\ Len(v) = Len(u) + 1
    BY TotalAppend, AppendProperties DEF Sized
  <2>5. ASSUME NEW k
        PROVE  /\ Total(Among(v, k)) = Total(Among(u, k)) + (IF e.key \in k THEN e.bytes ELSE 0)
               /\ Total(Among(u, k)) \in Nat
               /\ Len(Among(v, k)) = Len(Among(u, k)) + (IF e.key \in k THEN 1 ELSE 0)
               /\ Len(Among(u, k)) \in Nat
    <3> DEFINE a == Among(u, k)
               c == Chosen(e, k)
    <3>1. a \in Seq(E)
      BY AmongIs
    <3>2. /\ c \in Seq(E) /\ Total(c) = IF e.key \in k THEN e.bytes ELSE 0
          /\ Len(c) = IF e.key \in k THEN 1 ELSE 0
      BY EmptySeq, TotalEmpty, TotalOfOne DEF Chosen
    <3>3. Among(v, k) = a \o c
      BY AmongAppend
    <3> HIDE DEF a, c, P
    <3>4. Total(a \o c) = Total(a) + Total(c) /\ Total(a) \in Nat
      BY <3>1, <3>2, TotalConcat, TotalType
    <3>5. Len(a \o c) = Len(a) + Len(c) /\ Len(a) \in Nat
      BY <3>1, <3>2, ConcatProperties, LenProperties
    <3>. QED BY <3>2, <3>3, <3>4, <3>5 DEF a
  <2>6. \/ e.key \in k1 /\ e.key \notin k2
        \/ e.key \in k2 /\ e.key \notin k1
    BY <2>1, <2>2
  <2> DEFINE x == Total(Among(u, k1))
             y == Total(Among(u, k2))
             l == Len(Among(u, k1))
             m == Len(Among(u, k2))
  <2>7. {x, y, l, m, e.bytes} \subseteq Nat /\ Total(v) = (x + y) + e.bytes /\ Len(v) = (l + m) + 1
    BY <2>3, <2>4, <2>5
  <2>8. /\ Total(Among(v, k1)) = x + (IF e.key \in k1 THEN e.bytes ELSE 0)
        /\ Total(Among(v, k2)) = y + (IF e.key \in k2 THEN e.bytes ELSE 0)
        /\ Len(Among(v, k1)) = l + (IF e.key \in k1 THEN 1 ELSE 0)
        /\ Len(Among(v, k2)) = m + (IF e.key \in k2 THEN 1 ELSE 0)
    BY <2>5
  <2> HIDE DEF x, y, l, m, v, P
  <2>. QED BY <2>6, <2>7, <2>8
<1> HIDE DEF P
<1>3. \A u \in Seq(E) : u \in P
  BY <1>1, <1>2, SequenceInduction
<1>. QED BY <1>3 DEF P

-----------------------------------------------------------------------------
(* What the operations of the map do *)

\* A map with entries of E, each key once, whose counter is not behind.
Lru(E, c) ==
  /\ c.entries \in Seq(E) /\ c.bytes \in Nat /\ c = [entries |-> c.entries, bytes |-> c.bytes]
  /\ Different(c.entries) /\ Total(c.entries) <= c.bytes

\* Its counter is right, too.
Exact(c) == c.bytes = Total(c.entries)

LEMMA MinusIs ==
  ASSUME NEW a \in Nat, NEW b \in Nat, b <= a
  PROVE  Minus(a, b) = a - b /\ a - b \in Nat
  BY DEF Minus

LEMMA WithoutIs ==
  ASSUME NEW E, Sized(E), NEW s \in Seq(E), NEW gone
  PROVE  /\ Without(s, gone) \in Seq(E) /\ Among(s, gone) \in Seq(E)
         /\ KeysOf(Without(s, gone)) = KeysOf(s) \ gone
         /\ KeysOf(Among(s, gone)) = KeysOf(s) \cap gone
         /\ Different(s) => Different(Without(s, gone)) /\ Different(Among(s, gone))
         /\ Total(Among(s, gone)) + Total(Without(s, gone)) = Total(s)
         /\ Len(Among(s, gone)) + Len(Without(s, gone)) = Len(s)
         /\ {Total(s), Total(Among(s, gone)), Total(Without(s, gone))} \subseteq Nat
         /\ {Len(s), Len(Among(s, gone)), Len(Without(s, gone))} \subseteq Nat
<1> DEFINE others == KeysOf(s) \ gone
           a == Among(s, gone)
           w == Among(s, others)
<1>1. w = Without(s, gone)
  BY DEF Without
<1>2. a \in Seq(E) /\ KeysOf(a) = KeysOf(s) \cap gone /\ (Different(s) => Different(a))
  BY AmongIs
<1>3. w \in Seq(E) /\ KeysOf(w) = KeysOf(s) \cap others /\ (Different(s) => Different(w))
  <2> HIDE DEF others
  <2>. QED BY AmongIs
<1>4. KeysOf(s) \cap others = KeysOf(s) \ gone /\ gone \cap others = {}
      /\ KeysOf(s) \subseteq gone \cup others
  OBVIOUS
<1>5. Total(a) + Total(w) = Total(s) /\ Len(a) + Len(w) = Len(s)
  <2> HIDE DEF others
  <2>. QED BY <1>4, AmongDivides
<1> HIDE DEF a, w
<1>6. {Total(s), Total(a), Total(w)} \subseteq Nat /\ {Len(s), Len(a), Len(w)} \subseteq Nat
  BY <1>2, <1>3, TotalType, LenProperties
<1>. QED BY <1>1, <1>2, <1>3, <1>4, <1>5, <1>6 DEF a

LEMMA TouchedIs ==
  ASSUME NEW E, Sized(E), NEW s \in Seq(E), Different(s), NEW key
  PROVE  /\ Touched(s, key) \in Seq(E) /\ Different(Touched(s, key))
         /\ Total(Touched(s, key)) = Total(s) /\ Len(Touched(s, key)) = Len(s)
<1> DEFINE a == Among(s, {key})
           w == Without(s, {key})
<1>1. /\ a \in Seq(E) /\ w \in Seq(E) /\ Different(a) /\ Different(w)
      /\ KeysOf(a) \cap KeysOf(w) = {}
      /\ Total(a) + Total(w) = Total(s) /\ Len(a) + Len(w) = Len(s)
  BY WithoutIs
<1>2. Touched(s, key) = a \o w
  BY DEF Touched
<1> HIDE DEF a, w
<1>3. a \o w \in Seq(E) /\ Different(a \o w) /\ Total(a \o w) = Total(a) + Total(w)
      /\ Len(a \o w) = Len(a) + Len(w)
  BY <1>1, ConcatProperties, KeysOfConcat, TotalConcat
<1>. QED BY <1>1, <1>2, <1>3

LEMMA PoppingIs ==
  ASSUME NEW E, Sized(E), NEW c, Lru(E, c), NEW gone
  PROVE  /\ Lru(E, Popping(c, gone))
         /\ Exact(c) => Exact(Popping(c, gone))
         /\ Popping(c, gone).entries = Without(c.entries, gone)
         /\ KeysOf(Popping(c, gone).entries) = KeysOf(c.entries) \ gone
         /\ Len(Popping(c, gone).entries) <= Len(c.entries)
         /\ Total(Popping(c, gone).entries) <= Total(c.entries)
<1> DEFINE s == c.entries
           w == Without(s, gone)
           a == Among(s, gone)
           left == Minus(c.bytes, Total(a))
           d == Popping(c, gone)
<1>1. s \in Seq(E) /\ c.bytes \in Nat /\ Different(s) /\ Total(s) <= c.bytes
  BY DEF Lru
<1>2. d = [entries |-> w, bytes |-> left]
  BY DEF Popping
<1> HIDE DEF d, s
<1>3. /\ w \in Seq(E) /\ KeysOf(w) = KeysOf(s) \ gone /\ Different(w)
      /\ Total(a) + Total(w) = Total(s) /\ Len(a) + Len(w) = Len(s)
      /\ {Total(s), Total(a), Total(w)} \subseteq Nat
      /\ {Len(s), Len(a), Len(w)} \subseteq Nat
  BY <1>1, WithoutIs
<1> HIDE DEF w, a
<1>4. Total(a) <= c.bytes
  BY <1>1, <1>3
<1>5. left = c.bytes - Total(a) /\ left \in Nat
  BY <1>1, <1>3, <1>4, MinusIs
<1> HIDE DEF left
<1>6. Total(w) <= left /\ (c.bytes = Total(s) => left = Total(w))
  BY <1>1, <1>3, <1>5
<1>7. Len(w) <= Len(s) /\ Total(w) <= Total(s)
  BY <1>3
<1>8. d.entries = w /\ d.bytes = left
  BY <1>2
<1>9. Lru(E, d)
  BY <1>2, <1>3, <1>5, <1>6, <1>8 DEF Lru
<1>10. Exact(c) => Exact(d)
  BY <1>6, <1>8 DEF Exact, s
<1>. QED BY <1>3, <1>7, <1>8, <1>9, <1>10 DEF d, s, w

LEMMA DroppingIs ==
  ASSUME NEW E, Sized(E), NEW c, Lru(E, c), NEW n \in 0..Len(c.entries)
  PROVE  /\ Lru(E, Dropping(c, n))
         /\ Exact(c) => Exact(Dropping(c, n))
         /\ Dropping(c, n).entries = SubSeq(c.entries, 1, Len(c.entries) - n)
         /\ Len(Dropping(c, n).entries) = Len(c.entries) - n
         /\ Total(Dropping(c, n).entries) <= Total(c.entries)
<1> DEFINE s == c.entries
           k == Len(s) - n
           w == SubSeq(s, 1, k)
           a == SubSeq(s, k + 1, Len(s))
           left == Minus(c.bytes, Total(a))
           d == Dropping(c, n)
<1>1. s \in Seq(E) /\ c.bytes \in Nat /\ Different(s) /\ Total(s) <= c.bytes
  BY DEF Lru
<1>2. d = [entries |-> w, bytes |-> left]
  BY DEF Dropping
<1>3. k \in 0..Len(s)
  BY <1>1
<1> HIDE DEF d, s, k
<1>4. /\ w \in Seq(E) /\ Len(w) = k /\ Different(w)
      /\ Total(s) = Total(w) + Total(a)
      /\ {Total(s), Total(a), Total(w)} \subseteq Nat
  BY <1>1, <1>3, TotalSplit, DifferentPrefix
<1> HIDE DEF w, a
<1>5. Total(a) <= c.bytes
  BY <1>1, <1>4
<1>6. left = c.bytes - Total(a) /\ left \in Nat
  BY <1>1, <1>4, <1>5, MinusIs
<1> HIDE DEF left
<1>7. Total(w) <= left /\ (c.bytes = Total(s) => left = Total(w)) /\ Total(w) <= Total(s)
  BY <1>1, <1>4, <1>6
<1>8. d.entries = w /\ d.bytes = left
  BY <1>2
<1>9. Lru(E, d)
  BY <1>2, <1>4, <1>6, <1>7, <1>8 DEF Lru
<1>10. Exact(c) => Exact(d)
  BY <1>7, <1>8 DEF Exact, s
<1>. QED BY <1>4, <1>7, <1>8, <1>9, <1>10 DEF d, s, w, k

PutFirst(c, e) == [entries |-> <<e>> \o c.entries, bytes |-> c.bytes + e.bytes]

LEMMA PutFirstIs ==
  ASSUME NEW E, Sized(E), NEW c, Lru(E, c), NEW e \in E, e.key \notin KeysOf(c.entries)
  PROVE  /\ Lru(E, PutFirst(c, e))
         /\ Exact(c) => Exact(PutFirst(c, e))
         /\ Len(PutFirst(c, e).entries) = Len(c.entries) + 1
         /\ Total(PutFirst(c, e).entries) = e.bytes + Total(c.entries)
<1> DEFINE s == c.entries
           t == <<e>> \o s
           d == PutFirst(c, e)
<1>1. /\ s \in Seq(E) /\ <<e>> \in Seq(E) /\ c.bytes \in Nat /\ Different(s)
      /\ Total(s) <= c.bytes /\ e.bytes \in Nat /\ Len(<<e>>) = 1
  BY DEF Lru, Sized
<1>2. d.entries = t /\ d.bytes = c.bytes + e.bytes
      /\ d = [entries |-> d.entries, bytes |-> d.bytes]
  BY DEF PutFirst
<1> HIDE DEF d
<1>3. KeysOf(<<e>>) \cap KeysOf(s) = {} /\ Different(<<e>>)
  BY KeysOfOne
<1> HIDE DEF s
<1>4. t \in Seq(E) /\ Len(t) = Len(<<e>>) + Len(s) /\ Different(t)
      /\ Total(t) = Total(<<e>>) + Total(s)
  BY <1>1, <1>3, ConcatProperties, KeysOfConcat, TotalConcat
<1>5. Total(<<e>>) = e.bytes /\ Total(s) \in Nat /\ Len(s) \in Nat
  BY <1>1, TotalOfOne, TotalType, LenProperties
<1> HIDE DEF t
<1>6. Len(t) = Len(s) + 1 /\ Total(t) = e.bytes + Total(s) /\ d.bytes \in Nat
      /\ Total(t) <= d.bytes /\ (c.bytes = Total(s) => d.bytes = Total(t))
  <2> DEFINE x == Total(s)
             y == Total(t)
             a == c.bytes
             b == e.bytes
             z == d.bytes
  <2>1. x \in Nat /\ a \in Nat /\ b \in Nat /\ x <= a /\ y = b + x /\ z = a + b
    BY <1>1, <1>2, <1>4, <1>5
  <2>2. Len(t) = Len(s) + 1
    BY <1>1, <1>4, <1>5
  <2> HIDE DEF x, y, a, b, z
  <2>3. z \in Nat /\ y <= z /\ (a = x => z = y)
    BY <2>1
  <2>. QED BY <2>1, <2>2, <2>3 DEF x, y, a, b, z
<1>7. Lru(E, d)
  BY <1>2, <1>4, <1>6 DEF Lru
<1>8. Exact(c) => Exact(d)
  BY <1>2, <1>6 DEF Exact, s
<1>. QED BY <1>2, <1>6, <1>7, <1>8 DEF s, d

-----------------------------------------------------------------------------
(* What an eviction keeps *)

\* t is what is newest in s: the longest beginning with room for it.
IsNewest(t, s, room, b) ==
  /\ Len(t) \in 0..Len(s) /\ t = SubSeq(s, 1, Len(t)) /\ Len(t) <= room /\ Total(t) <= b
  /\ \A j \in Len(t) + 1..Len(s) : ~ (j <= room /\ Total(SubSeq(s, 1, j)) <= b)

LEMMA NewestIs ==
  ASSUME NEW E, NEW s \in Seq(E), NEW room, NEW b, NEW t, IsNewest(t, s, room, b)
  PROVE  t = Newest(s, room, b)
<1> DEFINE fits == {n \in 0..Len(s) : n <= room /\ Total(SubSeq(s, 1, n)) <= b}
           k == Len(t)
<1>1. Len(s) \in Nat /\ k \in 0..Len(s) /\ t = SubSeq(s, 1, k)
  BY DEF IsNewest
<1>2. k \in fits
  BY <1>1 DEF IsNewest
<1>3. \A j \in fits : j <= k
  <2>1. SUFFICES ASSUME NEW j \in fits, ~ (j <= k) PROVE FALSE
    OBVIOUS
  <2>2. j \in 0..Len(s) /\ j <= room /\ Total(SubSeq(s, 1, j)) <= b
    OBVIOUS
  <2> HIDE DEF fits
  <2>3. j \in k + 1..Len(s)
    BY <1>1, <2>1, <2>2
  <2>. QED BY <2>2, <2>3 DEF IsNewest
<1>4. fits \subseteq Nat
  OBVIOUS
<1>5. Newest(s, room, b) = SubSeq(s, 1, Max(fits))
  BY DEF Newest
<1> HIDE DEF fits
<1>6. k \in Nat /\ k \in fits /\ \A j \in fits : k >= j
  BY <1>2, <1>3, <1>4
<1>7. Max(fits) = k
  <2>1. \E x \in fits : \A y \in fits : x >= y
    BY <1>6
  <2>2. Max(fits) \in fits /\ \A y \in fits : Max(fits) >= y
    BY <2>1 DEF Max
  <2> DEFINE most == Max(fits)
  <2> HIDE DEF most, k
  <2>3. most \in Nat /\ most >= k /\ k >= most
    BY <1>4, <1>6, <2>2 DEF most
  <2>4. most = k
    BY <1>6, <2>3
  <2>. QED BY <2>4 DEF most
<1>. QED BY <1>1, <1>5, <1>7

LEMMA DroppingToIs ==
  ASSUME NEW E, Sized(E), NEW c, Lru(E, c), NEW b \in Nat, NEW room \in Nat,
         NEW d, d = DroppingTo(c, b, room)
  PROVE  /\ Lru(E, d)
         /\ Exact(c) => Exact(d)
         /\ Len(d.entries) <= room /\ Len(d.entries) <= Len(c.entries)
         /\ Total(d.entries) <= b
         /\ d.entries = SubSeq(c.entries, 1, Len(d.entries))
         /\ Exact(c) => IsNewest(d.entries, c.entries, room, b)
<1> DEFINE s == c.entries
           m == Len(s)
           Fits(x) == x.bytes <= b /\ Len(x.entries) <= room
           enough == {n \in 0..m : n = m \/ Fits(Dropping(c, n))}
<1>1. s \in Seq(E) /\ m \in Nat /\ Exact(c) = (c.bytes = Total(s))
  BY DEF Lru, Exact
<1>2. m \in enough /\ enough \subseteq Nat
  BY <1>1
<1>3. PICK n \in enough : \A y \in enough : n <= y
  <2> HIDE DEF enough
  <2>. QED BY <1>2, LeastExists
<1>4. Min(enough) = n
  <2> HIDE DEF enough
  <2>1. n \in Nat /\ \A y \in enough : n =< y
    BY <1>2, <1>3
  <2>2. \E x \in enough : \A y \in enough : x =< y
    BY <2>1
  <2>3. Min(enough) \in enough /\ \A y \in enough : Min(enough) =< y
    BY <2>2 DEF Min
  <2> DEFINE least == Min(enough)
  <2> HIDE DEF least, m
  <2>4. least \in Nat /\ least <= n /\ n <= least
    BY <1>2, <2>1, <2>3 DEF least
  <2>5. least = n
    BY <2>1, <2>4
  <2>. QED BY <2>5 DEF least
<1>5. d = Dropping(c, n)
  BY <1>4 DEF DroppingTo
<1>6. n \in 0..m /\ (n = m \/ Fits(Dropping(c, n)))
  OBVIOUS
<1>7. \A k \in 0..m : k < n => ~ Fits(Dropping(c, k))
  <2>1. SUFFICES ASSUME NEW k \in 0..m, k < n, Fits(Dropping(c, k)) PROVE FALSE
    OBVIOUS
  <2>2. k \in enough
    BY <2>1
  <2> HIDE DEF enough
  <2>3. n <= k /\ k \in Nat /\ n \in Nat
    BY <1>2, <1>3, <2>2
  <2>. QED BY <2>1, <2>3
<1> HIDE DEF enough, s, m
<1>8. ASSUME NEW k \in 0..m
      PROVE  /\ Lru(E, Dropping(c, k)) /\ (Exact(c) => Exact(Dropping(c, k)))
             /\ Dropping(c, k).entries = SubSeq(s, 1, m - k)
             /\ Len(Dropping(c, k).entries) = m - k
  BY DroppingIs DEF s, m
<1>9. /\ Lru(E, d) /\ (Exact(c) => Exact(d)) /\ d.entries = SubSeq(s, 1, m - n)
      /\ Len(d.entries) = m - n
  BY <1>5, <1>6, <1>8
<1>10. m - n \in 0..m
  BY <1>1, <1>6
<1>11. Len(d.entries) <= room /\ Total(d.entries) <= b
  <2>1. CASE n = m
    <3>1. d.entries \in Seq(E) /\ Len(d.entries) = 0
      BY <1>1, <1>9, <2>1 DEF Lru
    <3>2. d.entries = <<>>
      BY <3>1, EmptySeq
    <3>. QED BY <3>1, <3>2, TotalEmpty
  <2>2. CASE n # m
    <3>1. d.bytes <= b /\ Len(d.entries) <= room
      BY <1>5, <1>6, <2>2
    <3>2. d.entries \in Seq(E) /\ d.bytes \in Nat /\ Total(d.entries) <= d.bytes
      BY <1>9 DEF Lru
    <3>3. Total(d.entries) \in Nat
      BY <3>2, TotalType
    <3>. QED BY <3>1, <3>2, <3>3
  <2>. QED BY <2>1, <2>2
<1>12. ASSUME Exact(c) PROVE IsNewest(d.entries, s, room, b)
  <2>1. ASSUME NEW j \in (m - n) + 1..m PROVE ~ (j <= room /\ Total(SubSeq(s, 1, j)) <= b)
    <3> DEFINE k == m - j
    <3>1. k \in 0..m /\ k < n /\ m - k = j
      BY <1>1, <1>6, <2>1
    <3> HIDE DEF k
    <3>2. ~ Fits(Dropping(c, k))
      BY <1>7, <3>1
    <3>3. Dropping(c, k).bytes = Total(SubSeq(s, 1, j)) /\ Len(Dropping(c, k).entries) = j
      BY <1>8, <1>12, <3>1 DEF Exact
    <3>. QED BY <3>2, <3>3
  <2>. QED BY <1>9, <1>10, <1>11, <2>1 DEF IsNewest, m
<1>. QED BY <1>1, <1>9, <1>10, <1>11, <1>12 DEF s, m

LEMMA PrefixOfPrefix ==
  ASSUME NEW E, NEW s \in Seq(E), NEW j \in 0..Len(s), NEW k \in 0..j
  PROVE  SubSeq(SubSeq(s, 1, j), 1, k) = SubSeq(s, 1, k)
<1> DEFINE t == SubSeq(s, 1, j)
<1>1. Len(s) \in Nat /\ j \in Nat /\ k \in Nat /\ k <= j /\ j <= Len(s)
      /\ \A i \in 1..Len(s) : s[i] \in E
  OBVIOUS
<1>2. t \in Seq(E) /\ Len(t) = j /\ \A i \in 1..j : t[i] = s[i]
  <2>1. \A i \in 1..j : s[i] \in E /\ 1 + i - 1 = i
    BY <1>1
  <2>2. /\ t \in Seq(E) /\ Len(t) = IF 1 <= j THEN j - 1 + 1 ELSE 0
        /\ \A i \in 1..j - 1 + 1 : t[i] = s[1 + i - 1]
    BY <1>1, <2>1, SubSeqProperties
  <2>. QED BY <1>1, <2>1, <2>2
<1> HIDE DEF t
<1>3. ASSUME NEW u \in Seq(E), k <= Len(u)
      PROVE  /\ SubSeq(u, 1, k) \in Seq(E) /\ Len(SubSeq(u, 1, k)) = k
             /\ \A i \in 1..k : SubSeq(u, 1, k)[i] = u[i]
  <2>1. \A i \in 1..k : u[i] \in E /\ 1 + i - 1 = i
    BY <1>1, <1>3
  <2>2. /\ SubSeq(u, 1, k) \in Seq(E) /\ Len(SubSeq(u, 1, k)) = IF 1 <= k THEN k - 1 + 1 ELSE 0
        /\ \A i \in 1..k - 1 + 1 : SubSeq(u, 1, k)[i] = u[1 + i - 1]
    BY <1>1, <2>1, SubSeqProperties
  <2>. QED BY <1>1, <2>1, <2>2
<1> DEFINE a == SubSeq(t, 1, k)
           b == SubSeq(s, 1, k)
<1>4. a \in Seq(E) /\ b \in Seq(E) /\ Len(a) = k /\ Len(b) = k
      /\ \A i \in 1..k : a[i] = t[i] /\ b[i] = s[i]
  BY <1>1, <1>2, <1>3
<1>5. \A i \in 1..k : a[i] = b[i]
  BY <1>1, <1>2, <1>4
<1> HIDE DEF a, b
<1>6. a = b
  BY <1>4, <1>5, SeqEqual
<1>. QED BY <1>6 DEF a, b, t

\* The beginnings of a sequence with an entry put first.
LEMMA PrefixOfPut ==
  ASSUME NEW E, Sized(E), NEW s \in Seq(E), NEW e \in E, NEW k \in 0..Len(s)
  PROVE  /\ SubSeq(<<e>> \o s, 1, k + 1) = <<e>> \o SubSeq(s, 1, k)
         /\ Total(SubSeq(<<e>> \o s, 1, k + 1)) = e.bytes + Total(SubSeq(s, 1, k))
<1> DEFINE t == <<e>> \o s
           a == SubSeq(t, 1, k + 1)
           p == SubSeq(s, 1, k)
           b == <<e>> \o p
           m == Len(s)
<1>1. m \in Nat /\ k \in Nat /\ k <= m /\ <<e>> \in Seq(E) /\ Len(<<e>>) = 1 /\ <<e>>[1] = e
      /\ \A i \in 1..k : s[i] \in E
  OBVIOUS
<1>2. /\ t \in Seq(E) /\ Len(t) = 1 + m
      /\ \A i \in 1..1 + m : t[i] = IF i <= 1 THEN <<e>>[i] ELSE s[i - 1]
  BY <1>1, ConcatProperties
<1>3. p \in Seq(E) /\ Len(p) = k /\ \A i \in 1..k : p[i] = s[i]
  <2>1. \A i \in 1..k : 1 + i - 1 = i
    BY <1>1
  <2>2. /\ p \in Seq(E) /\ Len(p) = IF 1 <= k THEN k - 1 + 1 ELSE 0
        /\ \A i \in 1..k - 1 + 1 : p[i] = s[1 + i - 1]
    BY <1>1, SubSeqProperties
  <2>. QED BY <1>1, <2>1, <2>2
<1> HIDE DEF p, t, m
<1>4. /\ b \in Seq(E) /\ Len(b) = 1 + k
      /\ \A i \in 1..1 + k : b[i] = IF i <= 1 THEN <<e>>[i] ELSE p[i - 1]
  BY <1>1, <1>3, ConcatProperties
<1>5. a \in Seq(E) /\ Len(a) = 1 + k /\ \A i \in 1..1 + k : a[i] = t[i]
  <2>1. \A i \in 1..k + 1 : t[i] \in E /\ 1 + i - 1 = i
    <3>1. \A i \in 1..k + 1 : i \in 1..Len(t) /\ 1 + i - 1 = i
      BY <1>1, <1>2
    <3>. QED BY <1>2, <3>1, ElementOfSeq
  <2>2. /\ a \in Seq(E) /\ Len(a) = IF 1 <= k + 1 THEN k + 1 - 1 + 1 ELSE 0
        /\ \A i \in 1..k + 1 - 1 + 1 : a[i] = t[1 + i - 1]
    <3>1. 1 \in Int /\ k + 1 \in Int
      BY <1>1
    <3>. QED BY <3>1, <2>1, SubSeqProperties
  <2>3. k + 1 - 1 + 1 = 1 + k /\ 1 <= k + 1 /\ k + 1 = 1 + k
    BY <1>1
  <2> HIDE DEF a
  <2>. QED BY <2>1, <2>2, <2>3
<1> HIDE DEF a, b
<1>6. \A i \in 1..1 + k : a[i] = b[i]
  <2>1. ASSUME NEW i \in 1..1 + k PROVE a[i] = b[i]
    <3>1. i \in 1..1 + m
      BY <1>1
    <3>2. ~ (i <= 1) => i - 1 \in 1..k
      BY <1>1
    <3>. QED BY <1>2, <1>3, <1>4, <1>5, <3>1, <3>2
  <2>. QED BY <2>1
<1>7. a = b
  BY <1>4, <1>5, <1>6, SeqEqual
<1>8. Total(b) = Total(<<e>>) + Total(p)
  BY <1>1, <1>3, TotalConcat DEF b
<1>9. Total(<<e>>) = e.bytes
  BY TotalOfOne
<1>. QED BY <1>7, <1>8, <1>9 DEF a, b, t, p

\* With one place less, the newest are the same or all but the last.
LEMMA NewestButOne ==
  ASSUME NEW E, Sized(E), NEW s \in Seq(E), NEW room \in Nat \ {0}, NEW b, NEW t,
         IsNewest(t, s, room, b)
  PROVE  Len(t) < room => IsNewest(t, s, room - 1, b)
<1>1. SUFFICES ASSUME Len(t) < room PROVE IsNewest(t, s, room - 1, b)
  OBVIOUS
<1>2. Len(t) \in Nat /\ Len(s) \in Nat /\ Len(t) <= room - 1
  BY <1>1 DEF IsNewest
<1>3. ASSUME NEW j \in Len(t) + 1..Len(s)
      PROVE  ~ (j <= room - 1 /\ Total(SubSeq(s, 1, j)) <= b)
  <2>1. ~ (j <= room /\ Total(SubSeq(s, 1, j)) <= b)
    BY DEF IsNewest
  <2>2. j \in Int /\ (j <= room - 1 => j <= room)
    BY <1>2
  <2>. QED BY <2>1, <2>2
<1>. QED BY <1>2, <1>3 DEF IsNewest

LEMMA NewestWithoutLast ==
  ASSUME NEW E, Sized(E), NEW s \in Seq(E), NEW room \in Nat \ {0}, NEW b \in Nat, NEW t,
         IsNewest(t, s, room, b), Len(t) = room,
         NEW u, u = SubSeq(t, 1, room - 1)
  PROVE  IsNewest(u, s, room - 1, b)
<1>1. /\ Len(s) \in Nat /\ room \in 0..Len(s) /\ t = SubSeq(s, 1, room) /\ Total(t) <= b
      /\ room - 1 \in 0..room /\ room - 1 \in Nat
  BY DEF IsNewest
<1>2. u = SubSeq(s, 1, room - 1)
  BY <1>1, PrefixOfPrefix
<1>3. t \in Seq(E) /\ room - 1 \in 0..Len(t)
  BY <1>1, TotalSplit
<1>4. Len(u) = room - 1 /\ Total(u) <= Total(t) /\ Total(u) \in Nat /\ Total(t) \in Nat
  <2>1. /\ Len(u) = room - 1
        /\ Total(t) = Total(u) + Total(SubSeq(t, room - 1 + 1, Len(t)))
        /\ {Total(t), Total(u), Total(SubSeq(t, room - 1 + 1, Len(t)))} \subseteq Nat
    BY <1>3, TotalSplit
  <2> DEFINE x == Total(SubSeq(t, room - 1 + 1, Len(t)))
  <2> HIDE DEF x
  <2>2. Total(t) = Total(u) + x /\ {Total(t), Total(u), x} \subseteq Nat
    BY <2>1 DEF x
  <2>. QED BY <2>1, <2>2
<1>5. Total(u) <= b /\ Len(u) \in 0..Len(s) /\ Len(u) <= room - 1
  BY <1>1, <1>4
<1>6. \A j \in Len(u) + 1..Len(s) : ~ (j <= room - 1)
  BY <1>1, <1>4
<1>. QED BY <1>2, <1>4, <1>5, <1>6 DEF IsNewest

\* The newest of a sequence with an entry put first that there is room for.
LEMMA NewestOfPut ==
  ASSUME NEW E, Sized(E), NEW s \in Seq(E), NEW e \in E, NEW room \in Nat \ {0},
         NEW b \in Nat, e.bytes <= b, NEW t, IsNewest(t, <<e>> \o s, room, b)
  PROVE  t = <<e>> \o Newest(s, room - 1, b - e.bytes)
<1> DEFINE u == <<e>> \o s
           m == Len(s)
           k == Len(t) - 1
           v == SubSeq(s, 1, k)
<1>1. /\ m \in Nat /\ <<e>> \in Seq(E) /\ Len(<<e>>) = 1 /\ e.bytes \in Nat
      /\ b - e.bytes \in Nat /\ room - 1 \in Nat
  BY DEF Sized
<1>2. u \in Seq(E) /\ Len(u) = 1 + m
  BY <1>1, ConcatProperties
<1>3. ASSUME NEW j \in 0..m
      PROVE  /\ SubSeq(u, 1, j + 1) = <<e>> \o SubSeq(s, 1, j)
             /\ Total(SubSeq(u, 1, j + 1)) = e.bytes + Total(SubSeq(s, 1, j))
             /\ Total(SubSeq(s, 1, j)) \in Nat
             /\ Len(SubSeq(s, 1, j)) = j
  BY PrefixOfPut, TotalSplit
<1> HIDE DEF u, m
<1>4. /\ Len(t) \in 0..1 + m /\ t = SubSeq(u, 1, Len(t)) /\ Len(t) <= room /\ Total(t) <= b
      /\ \A j \in Len(t) + 1..1 + m : ~ (j <= room /\ Total(SubSeq(u, 1, j)) <= b)
  BY <1>2 DEF IsNewest, u
<1>5. Len(t) # 0
  <2>1. SUFFICES ASSUME Len(t) = 0 PROVE FALSE
    OBVIOUS
  <2>2. 1 \in Len(t) + 1..1 + m /\ 0 \in 0..m /\ 0 + 1 = 1 /\ 1 <= room
    BY <1>1, <2>1
  <2>3. Total(SubSeq(u, 1, 1)) = e.bytes + Total(SubSeq(s, 1, 0)) /\ Len(SubSeq(s, 1, 0)) = 0
    BY <1>3, <2>2
  <2>4. SubSeq(s, 1, 0) = <<>>
    BY SubSeqEmpty
  <2>5. Total(SubSeq(u, 1, 1)) = e.bytes
    <3>1. Total(SubSeq(s, 1, 0)) = 0
      BY <2>4, TotalEmpty
    <3>2. e.bytes + 0 = e.bytes
      BY <1>1
    <3>. QED BY <2>3, <3>1, <3>2
  <2>. QED BY <1>4, <2>2, <2>5
<1>6. k \in 0..m /\ k + 1 = Len(t) /\ k <= room - 1 /\ k \in Nat
  BY <1>1, <1>4, <1>5
<1> HIDE DEF k
<1>7. t = <<e>> \o v /\ Total(t) = e.bytes + Total(v) /\ Total(v) \in Nat /\ Len(v) = k
  BY <1>3, <1>4, <1>6
<1>8. ASSUME NEW j \in k + 1..m
      PROVE  ~ (j <= room - 1 /\ Total(SubSeq(s, 1, j)) <= b - e.bytes)
  <2>1. j \in 0..m /\ j + 1 \in Len(t) + 1..1 + m
    BY <1>1, <1>6
  <2>2. ~ (j + 1 <= room /\ Total(SubSeq(u, 1, j + 1)) <= b)
    BY <1>4, <2>1
  <2> DEFINE x == Total(SubSeq(s, 1, j))
  <2>3. x \in Nat /\ Total(SubSeq(u, 1, j + 1)) = e.bytes + x
    BY <1>3, <2>1
  <2> HIDE DEF x
  <2>4. ~ (j <= room - 1 /\ x <= b - e.bytes)
    BY <1>1, <2>1, <2>2, <2>3
  <2>. QED BY <2>4 DEF x
<1>9. Total(v) <= b - e.bytes
  BY <1>1, <1>4, <1>7
<1>10. IsNewest(v, s, room - 1, b - e.bytes)
  <2>1. Len(v) \in 0..m /\ v = SubSeq(s, 1, Len(v)) /\ Len(v) <= room - 1
    BY <1>6, <1>7
  <2>2. \A j \in Len(v) + 1..m : ~ (j <= room - 1 /\ Total(SubSeq(s, 1, j)) <= b - e.bytes)
    BY <1>7, <1>8
  <2> HIDE DEF v
  <2>. QED BY <1>9, <2>1, <2>2 DEF IsNewest, m
<1>11. v = Newest(s, room - 1, b - e.bytes)
  <2> HIDE DEF v
  <2>. QED BY <1>10, NewestIs
<1>. QED BY <1>7, <1>11

-----------------------------------------------------------------------------
(* The caches *)

Cached == [key : Keys, bytes : Sizes]

LEMMA EntriesAreSized ==
  /\ Sized(Cached)
  /\ \A key \in Keys, size \in Sizes :
       LET e == [key |-> key, bytes |-> size] IN e \in Cached /\ e.key = key /\ e.bytes = size
  /\ Sizes \subseteq Nat /\ Budgets \subseteq Nat /\ Capacity \in Nat \ {0}
  BY CachesAssumption DEF Sized, Cached

\* What is in the cache is as CacheFitsItsBudget says.
MapOK ==
  /\ Lru(Cached, cache) /\ (owner # "images" => Exact(cache))
  /\ Len(cache.entries) <= Capacity /\ Total(cache.entries) <= budget /\ budget \in Nat

LEMMA EmptyIs == Lru(Cached, EmptyCache) /\ Exact(EmptyCache) /\ Total(EmptyCache.entries) = 0
                 /\ Len(EmptyCache.entries) = 0
<1>1. EmptyCache.entries = <<>> /\ EmptyCache.bytes = 0
      /\ EmptyCache = [entries |-> EmptyCache.entries, bytes |-> EmptyCache.bytes]
  BY DEF EmptyCache
<1>2. <<>> \in Seq(Cached) /\ Len(<<>>) = 0
  BY EmptySeq
<1>. QED BY <1>1, <1>2, TotalEmpty, KeysOfEmpty DEF Lru, Exact

\* The definitions that BitmapCache makes of ByteLru are these.
LEMMA BitmapsSame ==
  /\ \A s, k : Bitmaps!Touched(s, k) = Touched(s, k)
  /\ \A c, gone : Bitmaps!Popping(c, gone) = Popping(c, gone)
  /\ \A c, n : Bitmaps!Dropping(c, n) = Dropping(c, n)
  /\ \A c, b, room : Bitmaps!DroppingTo(c, b, room) = DroppingTo(c, b, room)
  /\ Bitmaps!EmptyCache = EmptyCache
  /\ Bitmaps!Keys = Keys
<1>1. \A s : Bitmaps!Total(s) = Total(s)
  BY DEF Bitmaps!Total, Total
<1>2. \A s, k : Bitmaps!Among(s, k) = Among(s, k)
  <2>1. \A s : Bitmaps!FlattenSeq(s) = FlattenSeq(s)
    BY DEF Bitmaps!FlattenSeq, FlattenSeq
  <2>. QED BY <2>1 DEF Bitmaps!Among, Among
<1>3. \A s, k : Bitmaps!Without(s, k) = Without(s, k)
  <2>1. \A s : Bitmaps!KeysOf(s) = KeysOf(s)
    BY DEF Bitmaps!KeysOf, KeysOf
  <2>. QED BY <1>2, <2>1 DEF Bitmaps!Without, Without
<1>4. \A a, b : Bitmaps!Minus(a, b) = Minus(a, b)
  BY DEF Bitmaps!Minus, Minus
<1>5. \A s, k : Bitmaps!Touched(s, k) = Touched(s, k)
  BY <1>2, <1>3 DEF Bitmaps!Touched, Touched
<1>6. \A c, gone : Bitmaps!Popping(c, gone) = Popping(c, gone)
  BY <1>1, <1>2, <1>3, <1>4 DEF Bitmaps!Popping, Popping
<1>7. \A c, n : Bitmaps!Dropping(c, n) = Dropping(c, n)
  BY <1>1, <1>4 DEF Bitmaps!Dropping, Dropping
<1>8. \A c, b, room : Bitmaps!DroppingTo(c, b, room) = DroppingTo(c, b, room)
  <2>1. \A S : Bitmaps!Min(S) = Min(S)
    BY DEF Bitmaps!Min, Min
  <2>. QED BY <1>7, <2>1 DEF Bitmaps!DroppingTo, DroppingTo
<1>9. Bitmaps!EmptyCache = EmptyCache /\ Bitmaps!Keys = Keys
  BY DEF Bitmaps!EmptyCache, EmptyCache, Bitmaps!Keys, Keys
<1>. QED BY <1>5, <1>6, <1>7, <1>8, <1>9

\* The definitions that UiImageCache makes of ByteLru are these.
LEMMA ImagesSame ==
  /\ \A s, k : Images!Touched(s, k) = Touched(s, k)
  /\ \A c, gone : Images!Popping(c, gone) = Popping(c, gone)
  /\ \A c, n : Images!Dropping(c, n) = Dropping(c, n)
  /\ \A c, b, room : Images!DroppingTo(c, b, room) = DroppingTo(c, b, room)
  /\ Images!EmptyCache = EmptyCache
  /\ Images!Keys = Keys
<1>1. \A s : Images!Total(s) = Total(s)
  BY DEF Images!Total, Total
<1>2. \A s, k : Images!Among(s, k) = Among(s, k)
  <2>1. \A s : Images!FlattenSeq(s) = FlattenSeq(s)
    BY DEF Images!FlattenSeq, FlattenSeq
  <2>. QED BY <2>1 DEF Images!Among, Among
<1>3. \A s, k : Images!Without(s, k) = Without(s, k)
  <2>1. \A s : Images!KeysOf(s) = KeysOf(s)
    BY DEF Images!KeysOf, KeysOf
  <2>. QED BY <1>2, <2>1 DEF Images!Without, Without
<1>4. \A a, b : Images!Minus(a, b) = Minus(a, b)
  BY DEF Images!Minus, Minus
<1>5. \A s, k : Images!Touched(s, k) = Touched(s, k)
  BY <1>2, <1>3 DEF Images!Touched, Touched
<1>6. \A c, gone : Images!Popping(c, gone) = Popping(c, gone)
  BY <1>1, <1>2, <1>3, <1>4 DEF Images!Popping, Popping
<1>7. \A c, n : Images!Dropping(c, n) = Dropping(c, n)
  BY <1>1, <1>4 DEF Images!Dropping, Dropping
<1>8. \A c, b, room : Images!DroppingTo(c, b, room) = DroppingTo(c, b, room)
  <2>1. \A S : Images!Min(S) = Min(S)
    BY DEF Images!Min, Min
  <2>. QED BY <1>7, <2>1 DEF Images!DroppingTo, DroppingTo
<1>9. Images!EmptyCache = EmptyCache /\ Images!Keys = Keys
  BY DEF Images!EmptyCache, EmptyCache, Images!Keys, Keys
<1>. QED BY <1>5, <1>6, <1>7, <1>8, <1>9

\* The definitions that TextGeometryCache makes of ByteLru are these.
LEMMA GeometrySame ==
  /\ \A s, k : Geometry!Touched(s, k) = Touched(s, k)
  /\ \A c, gone : Geometry!Popping(c, gone) = Popping(c, gone)
  /\ \A c, n : Geometry!Dropping(c, n) = Dropping(c, n)
  /\ \A c, b, room : Geometry!DroppingTo(c, b, room) = DroppingTo(c, b, room)
  /\ Geometry!EmptyCache = EmptyCache
  /\ Geometry!Keys = Keys
<1>1. \A s : Geometry!Total(s) = Total(s)
  BY DEF Geometry!Total, Total
<1>2. \A s, k : Geometry!Among(s, k) = Among(s, k)
  <2>1. \A s : Geometry!FlattenSeq(s) = FlattenSeq(s)
    BY DEF Geometry!FlattenSeq, FlattenSeq
  <2>. QED BY <2>1 DEF Geometry!Among, Among
<1>3. \A s, k : Geometry!Without(s, k) = Without(s, k)
  <2>1. \A s : Geometry!KeysOf(s) = KeysOf(s)
    BY DEF Geometry!KeysOf, KeysOf
  <2>. QED BY <1>2, <2>1 DEF Geometry!Without, Without
<1>4. \A a, b : Geometry!Minus(a, b) = Minus(a, b)
  BY DEF Geometry!Minus, Minus
<1>5. \A s, k : Geometry!Touched(s, k) = Touched(s, k)
  BY <1>2, <1>3 DEF Geometry!Touched, Touched
<1>6. \A c, gone : Geometry!Popping(c, gone) = Popping(c, gone)
  BY <1>1, <1>2, <1>3, <1>4 DEF Geometry!Popping, Popping
<1>7. \A c, n : Geometry!Dropping(c, n) = Dropping(c, n)
  BY <1>1, <1>4 DEF Geometry!Dropping, Dropping
<1>8. \A c, b, room : Geometry!DroppingTo(c, b, room) = DroppingTo(c, b, room)
  <2>1. \A S : Geometry!Min(S) = Min(S)
    BY DEF Geometry!Min, Min
  <2>. QED BY <1>7, <2>1 DEF Geometry!DroppingTo, DroppingTo
<1>9. Geometry!EmptyCache = EmptyCache /\ Geometry!Keys = Keys
  BY DEF Geometry!EmptyCache, EmptyCache, Geometry!Keys, Keys
<1>. QED BY <1>5, <1>6, <1>7, <1>8, <1>9

\* get
LEMMA GetStep ==
  ASSUME MapOK, NEW key, cache' = [cache EXCEPT !.entries = Touched(@, key)],
         UNCHANGED <<budget, owner>>
  PROVE  MapOK'
<1> DEFINE t == Touched(cache.entries, key)
<1>1. /\ cache.entries \in Seq(Cached) /\ cache.bytes \in Nat /\ Different(cache.entries)
      /\ cache = [entries |-> cache.entries, bytes |-> cache.bytes]
  BY DEF MapOK, Lru
<1>2. /\ t \in Seq(Cached) /\ Different(t) /\ Total(t) = Total(cache.entries)
      /\ Len(t) = Len(cache.entries)
  BY <1>1, EntriesAreSized, TouchedIs
<1> DEFINE d == [entries |-> t, bytes |-> cache.bytes]
<1>3. cache' = d
  <2> HIDE DEF t
  <2>1. cache' = [cache EXCEPT !.entries = t]
    BY DEF t
  <2>. QED BY <1>1, <2>1
<1> HIDE DEF t
<1>4. d.entries = t /\ d.bytes = cache.bytes /\ d = [entries |-> d.entries, bytes |-> d.bytes]
  OBVIOUS
<1> HIDE DEF d
<1>5. Lru(Cached, d)
  BY <1>1, <1>2, <1>4 DEF MapOK, Lru
<1>6. owner # "images" => Exact(d)
  BY <1>2, <1>4 DEF MapOK, Exact
<1>7. Len(d.entries) <= Capacity /\ Total(d.entries) <= budget
  BY <1>2, <1>4 DEF MapOK
<1>. QED BY <1>3, <1>5, <1>6, <1>7 DEF MapOK

\* A document or a page leaves the cache.
LEMMA PoppingStep ==
  ASSUME MapOK, NEW gone, cache' = Popping(cache, gone), UNCHANGED <<budget, owner>>
  PROVE  MapOK'
<1> DEFINE d == Popping(cache, gone)
<1>1. /\ Lru(Cached, d) /\ (Exact(cache) => Exact(d))
      /\ Len(d.entries) <= Len(cache.entries) /\ Total(d.entries) <= Total(cache.entries)
  BY EntriesAreSized, PoppingIs DEF MapOK
<1> HIDE DEF d
<1>2. cache' = d
  BY DEF d
<1>3. {Len(d.entries), Len(cache.entries), Total(d.entries), Total(cache.entries)} \subseteq Nat
  BY <1>1, EntriesAreSized, TotalType, LenProperties DEF MapOK, Lru
<1>4. Len(d.entries) <= Capacity /\ Total(d.entries) <= budget
  BY <1>1, <1>3, EntriesAreSized DEF MapOK
<1>. QED BY <1>1, <1>2, <1>4 DEF MapOK

\* set_budget, update_cache_budget_for_zoom
LEMMA BudgetStep ==
  ASSUME MapOK, NEW b \in Budgets, budget' = b, cache' = DroppingTo(cache, b, Capacity),
         UNCHANGED owner
  PROVE  MapOK'
<1> DEFINE d == DroppingTo(cache, b, Capacity)
<1>1. b \in Nat /\ Capacity \in Nat
  BY EntriesAreSized
<1>2. /\ Lru(Cached, d) /\ (Exact(cache) => Exact(d))
      /\ Len(d.entries) <= Capacity /\ Total(d.entries) <= b
  BY <1>1, EntriesAreSized, DroppingToIs DEF MapOK
<1> HIDE DEF d
<1>3. cache' = d
  BY DEF d
<1>. QED BY <1>1, <1>2, <1>3 DEF MapOK

\* What an insertion that keeps the entry leaves.
Kept(key, size) ==
  cache'.entries = <<[key |-> key, bytes |-> size]>>
                     \o Newest(Without(cache.entries, {key}), Capacity - 1, budget - size)

LEMMA BitmapsInsert ==
  ASSUME MapOK, owner = "bitmaps", NEW key \in Keys, NEW size \in Sizes,
         Bitmaps!Insert(key, size)
  PROVE  /\ UNCHANGED owner => MapOK'
         /\ size <= budget => Kept(key, size)
<1> DEFINE e == [key |-> key, bytes |-> size]
           others == Without(cache.entries, {key})
           b == budget - size
           p == Popping(cache, {key})
           r == DroppingTo(p, b, Capacity)
           q == IF Len(r.entries) < Capacity THEN r ELSE Dropping(r, 1)
           d == [entries |-> <<e>> \o q.entries, bytes |-> q.bytes + size]
<1>1. /\ cache' = IF size > budget THEN cache ELSE d
      /\ budget' = budget
  BY BitmapsSame DEF Bitmaps!Insert, Bitmaps!EvictingFor, Bitmaps!Pushing
<1>2. /\ Sized(Cached) /\ e \in Cached /\ e.key = key /\ e.bytes = size /\ size \in Nat
      /\ Capacity \in Nat \ {0} /\ Capacity \in Nat /\ budget \in Nat
  BY EntriesAreSized DEF MapOK
<1> HIDE DEF e
<1>3. CASE size > budget
  <2>1. cache' = cache /\ ~ (size <= budget)
    BY <1>1, <1>2, <1>3
  <2>. QED BY <1>1, <2>1 DEF MapOK
<1>4. CASE ~ (size > budget)
  <2>1. size <= budget /\ b \in Nat /\ cache' = d
    BY <1>1, <1>2, <1>4
  <2> HIDE DEF b
  <2>2. /\ Lru(Cached, p) /\ Exact(p) /\ p.entries = others
        /\ KeysOf(p.entries) = KeysOf(cache.entries) \ {key}
    <3>1. Lru(Cached, cache) /\ Exact(cache)
      BY DEF MapOK
    <3>2. Sized(Cached)
      BY <1>2
    <3> HIDE DEF p, r, q, d, others
    <3>3. /\ Lru(Cached, Popping(cache, {key})) /\ Exact(Popping(cache, {key}))
          /\ Popping(cache, {key}).entries = Without(cache.entries, {key})
          /\ KeysOf(Popping(cache, {key}).entries) = KeysOf(cache.entries) \ {key}
      BY <3>1, <3>2, PoppingIs
    <3>. QED BY <3>3 DEF p, others
  <2> HIDE DEF p, others
  <2>3. /\ Lru(Cached, r) /\ Exact(r) /\ Len(r.entries) <= Capacity
        /\ Total(r.entries) <= b /\ IsNewest(r.entries, others, Capacity, b)
        /\ r.entries = SubSeq(others, 1, Len(r.entries)) /\ Len(r.entries) <= Len(others)
    <3> HIDE DEF q, d
    <3>1. r = DroppingTo(p, b, Capacity) /\ b \in Nat /\ Capacity \in Nat
          /\ Sized(Cached) /\ Lru(Cached, p)
      BY <1>2, <2>1, <2>2
    <3> HIDE DEF r
    <3>2. /\ Lru(Cached, r) /\ (Exact(p) => Exact(r)) /\ Len(r.entries) <= Capacity
          /\ Len(r.entries) <= Len(p.entries)
          /\ Total(r.entries) <= b /\ (Exact(p) => IsNewest(r.entries, p.entries, Capacity, b))
          /\ r.entries = SubSeq(p.entries, 1, Len(r.entries))
      BY <3>1, DroppingToIs
    <3>. QED BY <2>2, <3>2
  <2>4. r.entries \in Seq(Cached) /\ Len(r.entries) \in Nat /\ others \in Seq(Cached)
    BY <2>2, <2>3, LenProperties DEF Lru
  <2> HIDE DEF r
  <2>5. /\ Lru(Cached, q) /\ Exact(q) /\ IsNewest(q.entries, others, Capacity - 1, b)
        /\ Len(q.entries) <= Capacity - 1 /\ Total(q.entries) <= b
    <3>1. CASE Len(r.entries) < Capacity
      <4>1. q = r
        BY <3>1
      <4>2. IsNewest(r.entries, others, Capacity - 1, b)
        BY <1>2, <2>3, <2>4, <3>1, NewestButOne
      <4>. QED BY <2>3, <4>1, <4>2 DEF IsNewest
    <3>2. CASE ~ (Len(r.entries) < Capacity)
      <4>1. q = Dropping(r, 1) /\ Len(r.entries) = Capacity /\ 1 \in 0..Len(r.entries)
        BY <1>2, <2>3, <2>4, <3>2
      <4> HIDE DEF q
      <4>2. /\ Lru(Cached, q) /\ (Exact(r) => Exact(q))
            /\ q.entries = SubSeq(r.entries, 1, Len(r.entries) - 1)
        BY <1>2, <2>3, <4>1, DroppingIs
      <4>3. IsNewest(q.entries, others, Capacity - 1, b)
        BY <1>2, <2>1, <2>3, <2>4, <4>1, <4>2, NewestWithoutLast
      <4>. QED BY <2>3, <4>2, <4>3 DEF IsNewest
    <3>. QED BY <3>1, <3>2
  <2> HIDE DEF q
  <2>6. e.key \notin KeysOf(q.entries)
    <3>1. q.entries = SubSeq(others, 1, Len(q.entries)) /\ Len(q.entries) \in 0..Len(others)
      BY <2>5 DEF IsNewest
    <3>2. KeysOf(q.entries) \subseteq KeysOf(others)
      BY <2>4, <3>1, KeysOfPrefix
    <3>. QED BY <1>2, <2>2, <3>2
  <2>7. d = PutFirst(q, e) /\ d.entries = <<e>> \o q.entries
    BY <1>2 DEF PutFirst
  <2> HIDE DEF d
  <2>8. /\ Lru(Cached, d) /\ (Exact(q) => Exact(d))
        /\ Len(d.entries) = Len(q.entries) + 1
        /\ Total(d.entries) = e.bytes + Total(q.entries)
    BY <1>2, <2>5, <2>6, <2>7, PutFirstIs
  <2>9. Len(d.entries) <= Capacity /\ Total(d.entries) <= budget
    <3>1. Len(q.entries) \in Nat /\ Total(q.entries) \in Nat
      BY <1>2, <2>5, TotalType, LenProperties DEF Lru
    <3> DEFINE x == Total(q.entries)
               l == Len(q.entries)
               y == Total(d.entries)
    <3>2. x \in Nat /\ l \in Nat /\ x <= budget - size /\ l <= Capacity - 1
          /\ Len(d.entries) = l + 1 /\ y = size + x
      BY <1>2, <2>5, <2>8, <3>1 DEF b
    <3> HIDE DEF x, l, y
    <3>3. Len(d.entries) <= Capacity /\ y <= budget
      BY <1>2, <3>2
    <3>. QED BY <3>3 DEF y
  <2>10. q.entries = Newest(others, Capacity - 1, b)
    BY <2>4, <2>5, NewestIs
  <2>11. d.entries = <<e>> \o Newest(others, Capacity - 1, b)
    BY <2>7, <2>10
  <2>. QED BY <1>1, <2>1, <2>5, <2>8, <2>9, <2>11 DEF MapOK, Kept, e, others, b
<1>. QED BY <1>3, <1>4

LEMMA ImagesInsert ==
  ASSUME MapOK, owner = "images", NEW key \in Keys, NEW size \in Sizes,
         Images!Insert(key, size)
  PROVE  /\ UNCHANGED owner => MapOK'
         /\ /\ size <= budget /\ Exact(cache)
            /\ Len(Without(cache.entries, {key})) < Capacity
            => Kept(key, size)
<1> DEFINE e == [key |-> key, bytes |-> size]
           others == Without(cache.entries, {key})
           p == Popping(cache, {key})
           kept == IF Len(p.entries) < Capacity THEN p.entries
                   ELSE SubSeq(p.entries, 1, Capacity - 1)
           q == [entries |-> kept, bytes |-> p.bytes]
           f == PutFirst(q, e)
           d == DroppingTo(f, budget, Capacity)
<1>1. /\ cache' = IF size > budget THEN cache ELSE d
      /\ budget' = budget
  BY ImagesSame DEF Images!Insert, Images!EvictedTo, Images!Putting, PutFirst
<1>2. /\ Sized(Cached) /\ e \in Cached /\ e.key = key /\ e.bytes = size /\ size \in Nat
      /\ Capacity \in Nat \ {0} /\ Capacity \in Nat /\ budget \in Nat
  BY EntriesAreSized DEF MapOK
<1> HIDE DEF e
<1>3. CASE size > budget
  <2>1. cache' = cache /\ ~ (size <= budget)
    BY <1>1, <1>2, <1>3
  <2>. QED BY <1>1, <2>1 DEF MapOK
<1>4. CASE ~ (size > budget)
  <2>1. size <= budget /\ cache' = d
    BY <1>1, <1>2, <1>4
  <2>2. /\ Lru(Cached, p) /\ (Exact(cache) => Exact(p)) /\ p.entries = others
        /\ KeysOf(p.entries) = KeysOf(cache.entries) \ {key}
    <3>1. Lru(Cached, cache)
      BY DEF MapOK
    <3>2. Sized(Cached)
      BY <1>2
    <3> HIDE DEF kept, q, f, d, p, others
    <3>3. /\ Lru(Cached, Popping(cache, {key})) /\ (Exact(cache) => Exact(Popping(cache, {key})))
          /\ Popping(cache, {key}).entries = Without(cache.entries, {key})
          /\ KeysOf(Popping(cache, {key}).entries) = KeysOf(cache.entries) \ {key}
      BY <3>1, <3>2, PoppingIs
    <3>. QED BY <3>3 DEF p, others
  <2> HIDE DEF p, others
  <2>3. p.entries \in Seq(Cached) /\ p.bytes \in Nat /\ Len(p.entries) \in Nat
        /\ Different(p.entries) /\ Total(p.entries) <= p.bytes
    BY <2>2, LenProperties DEF Lru
  <2>4. /\ kept \in Seq(Cached) /\ Different(kept) /\ Total(kept) <= p.bytes
        /\ KeysOf(kept) \subseteq KeysOf(p.entries)
    <3>1. CASE Len(p.entries) < Capacity
      BY <2>3, <3>1
    <3>2. CASE ~ (Len(p.entries) < Capacity)
      <4> DEFINE k == Capacity - 1
                 t == SubSeq(p.entries, 1, k)
      <4>1. kept = t /\ k \in 0..Len(p.entries)
        BY <1>2, <2>3, <3>2
      <4> HIDE DEF k
      <4>2. /\ t \in Seq(Cached) /\ Total(p.entries) = Total(t) + Total(SubSeq(p.entries, k + 1, Len(p.entries)))
            /\ {Total(p.entries), Total(t), Total(SubSeq(p.entries, k + 1, Len(p.entries)))} \subseteq Nat
            /\ Different(t) /\ KeysOf(t) \subseteq KeysOf(p.entries)
        BY <1>2, <2>3, <4>1, TotalSplit, DifferentPrefix, KeysOfPrefix
      <4> DEFINE x == Total(SubSeq(p.entries, k + 1, Len(p.entries)))
      <4>3. Total(p.entries) = Total(t) + x /\ {Total(p.entries), Total(t), x} \subseteq Nat
        BY <4>2
      <4> HIDE DEF t, x, kept
      <4>4. Total(t) <= p.bytes
        BY <2>3, <4>3
      <4>. QED BY <4>1, <4>2, <4>4
    <3>. QED BY <3>1, <3>2
  <2>5. Len(others) < Capacity => kept = others
    BY <2>2
  <2> HIDE DEF kept
  <2>6. q.entries = kept /\ q.bytes = p.bytes /\ q = [entries |-> q.entries, bytes |-> q.bytes]
    OBVIOUS
  <2> HIDE DEF q
  <2>7. Lru(Cached, q) /\ e.key \notin KeysOf(q.entries)
    BY <1>2, <2>2, <2>3, <2>4, <2>6 DEF Lru
  <2>8. Lru(Cached, f) /\ (Exact(q) => Exact(f))
    BY <1>2, <2>7, PutFirstIs
  <2>9. f.entries = <<e>> \o q.entries
    BY DEF PutFirst
  <2> HIDE DEF f
  <2>10. d = DroppingTo(f, budget, Capacity)
    OBVIOUS
  <2> HIDE DEF d
  <2>11. /\ Lru(Cached, d) /\ Len(d.entries) <= Capacity /\ Total(d.entries) <= budget
         /\ (Exact(f) => IsNewest(d.entries, f.entries, Capacity, budget))
    BY <1>2, <2>8, <2>10, DroppingToIs
  <2>12. UNCHANGED owner => MapOK'
    BY <1>1, <1>2, <2>1, <2>11 DEF MapOK
  <2>13. ASSUME Exact(cache), Len(others) < Capacity PROVE Kept(key, size)
    <3>1. q.entries = others /\ Exact(q)
      BY <2>2, <2>5, <2>6, <2>13 DEF Exact
    <3>2. IsNewest(d.entries, <<e>> \o others, Capacity, budget)
      BY <2>8, <2>9, <2>11, <3>1
    <3>3. others \in Seq(Cached) /\ e.bytes <= budget
      BY <1>2, <2>1, <2>2, <2>3
    <3>4. d.entries = <<e>> \o Newest(others, Capacity - 1, budget - e.bytes)
      BY <1>2, <3>2, <3>3, NewestOfPut
    <3>. QED BY <1>2, <2>1, <3>4 DEF Kept, e, others
  <2>. QED BY <2>12, <2>13 DEF others
<1>. QED BY <1>3, <1>4

LEMMA GeometryInsert ==
  ASSUME MapOK, owner = "geometry", NEW key \in Keys, NEW size \in Sizes,
         Geometry!Insert(key, size)
  PROVE  /\ UNCHANGED <<budget, owner>> => MapOK'
         /\ size <= budget => Kept(key, size)
<1> DEFINE e == [key |-> key, bytes |-> size]
           others == Without(cache.entries, {key})
           b == budget - size
           p == Popping(cache, {key})
           r == DroppingTo(p, b, Capacity - 1)
           d == [entries |-> <<e>> \o r.entries, bytes |-> r.bytes + size]
<1>1. cache' = IF size > budget THEN cache ELSE d
  BY GeometrySame DEF Geometry!Insert
<1>2. /\ Sized(Cached) /\ e \in Cached /\ e.key = key /\ e.bytes = size /\ size \in Nat
      /\ Capacity \in Nat \ {0} /\ Capacity - 1 \in Nat /\ budget \in Nat
  BY EntriesAreSized DEF MapOK
<1> HIDE DEF e
<1>3. CASE size > budget
  <2>1. cache' = cache /\ ~ (size <= budget)
    BY <1>1, <1>2, <1>3
  <2>. QED BY <2>1 DEF MapOK
<1>4. CASE ~ (size > budget)
  <2>1. size <= budget /\ b \in Nat /\ cache' = d
    BY <1>1, <1>2, <1>4
  <2>2. d = PutFirst(r, e) /\ d.entries = <<e>> \o r.entries /\ r = DroppingTo(p, b, Capacity - 1)
    BY <1>2 DEF PutFirst
  <2> HIDE DEF b, d
  <2>3. /\ Lru(Cached, p) /\ Exact(p) /\ p.entries = others
        /\ KeysOf(p.entries) = KeysOf(cache.entries) \ {key}
    <3> HIDE DEF r
    <3>1. Lru(Cached, cache) /\ Exact(cache)
      BY DEF MapOK
    <3>. QED BY <1>2, <3>1, PoppingIs
  <2> HIDE DEF p, others, r
  <2>4. /\ Lru(Cached, r) /\ (Exact(p) => Exact(r)) /\ Len(r.entries) <= Capacity - 1
        /\ Total(r.entries) <= b
        /\ (Exact(p) => IsNewest(r.entries, p.entries, Capacity - 1, b))
    BY <1>2, <2>1, <2>2, <2>3, DroppingToIs
  <2>5. others \in Seq(Cached) /\ IsNewest(r.entries, others, Capacity - 1, b)
    BY <2>3, <2>4 DEF Lru
  <2>6. e.key \notin KeysOf(r.entries)
    <3>1. r.entries = SubSeq(others, 1, Len(r.entries)) /\ Len(r.entries) \in 0..Len(others)
      BY <2>5 DEF IsNewest
    <3>2. KeysOf(r.entries) \subseteq KeysOf(others)
      BY <2>5, <3>1, KeysOfPrefix
    <3>. QED BY <1>2, <2>3, <3>2
  <2>7. /\ Lru(Cached, d) /\ (Exact(r) => Exact(d))
        /\ Len(d.entries) = Len(r.entries) + 1
        /\ Total(d.entries) = e.bytes + Total(r.entries)
    BY <1>2, <2>2, <2>4, <2>6, PutFirstIs
  <2>8. Len(d.entries) <= Capacity /\ Total(d.entries) <= budget
    <3>1. Len(r.entries) \in Nat /\ Total(r.entries) \in Nat
      BY <1>2, <2>4, TotalType, LenProperties DEF Lru
    <3> DEFINE x == Total(r.entries)
               l == Len(r.entries)
               y == Total(d.entries)
    <3>2. x \in Nat /\ l \in Nat /\ x <= budget - size /\ l <= Capacity - 1
          /\ Len(d.entries) = l + 1 /\ y = size + x
      BY <1>2, <2>4, <2>7, <3>1 DEF b
    <3> HIDE DEF x, l, y
    <3>3. Len(d.entries) <= Capacity /\ y <= budget
      BY <1>2, <3>2
    <3>. QED BY <3>3 DEF y
  <2>9. d.entries = <<e>> \o Newest(others, Capacity - 1, b)
    BY <2>2, <2>5, NewestIs
  <2>. QED BY <2>1, <2>3, <2>4, <2>7, <2>8, <2>9 DEF MapOK, Kept, e, others, b
<1>. QED BY <1>3, <1>4

CacheInv == IsCache => MapOK

LEMMA CacheInit ==
  ASSUME Init
  PROVE  CacheInv
<1>1. IsCache => cache = EmptyCache /\ budget \in Budgets
  <2>1. CASE owner = "bitmaps"
    BY <2>1, BitmapsSame DEF Init, Bitmaps!Init
  <2>2. CASE owner = "images"
    BY <2>2, ImagesSame DEF Init, Images!Init
  <2>3. CASE owner = "geometry"
    BY <2>3, GeometrySame DEF Init, Geometry!Init
  <2>. QED BY <2>1, <2>2, <2>3 DEF IsCache
<1>2. Capacity \in Nat /\ Budgets \subseteq Nat
  BY EntriesAreSized
<1>3. ASSUME IsCache PROVE MapOK
  <2>1. budget \in Nat /\ cache = EmptyCache
    BY <1>1, <1>2, <1>3
  <2>2. Lru(Cached, cache) /\ Exact(cache) /\ Total(cache.entries) = 0 /\ Len(cache.entries) = 0
    BY <2>1, EmptyIs
  <2>. QED BY <1>2, <2>1, <2>2 DEF MapOK
<1>. QED BY <1>3 DEF CacheInv

LEMMA CacheStep ==
  ASSUME CacheInv, [Next]_vars
  PROVE  CacheInv'
<1>1. CASE UNCHANGED vars
  BY <1>1 DEF CacheInv, MapOK, IsCache, vars, caching
<1>2. CASE Next
  <2>1. owner' = owner
    BY <1>2 DEF Next
  <2>2. SUFFICES ASSUME IsCache PROVE MapOK'
    BY <2>1 DEF CacheInv, IsCache
  <2>3. MapOK
    BY <2>2 DEF CacheInv
  <2>4. CASE owner = "bitmaps"
    <3>1. Bitmaps!Next
      BY <1>2, <2>4 DEF Next
    <3>2. CASE \E key \in Keys : Bitmaps!Get(key)
      <4>1. PICK key \in Keys : Bitmaps!Get(key)
        BY <3>2
      <4>. QED BY <2>1, <2>3, <4>1, BitmapsSame, GetStep DEF Bitmaps!Get
    <3>3. CASE \E key \in Keys, size \in Sizes : Bitmaps!Insert(key, size)
      BY <2>1, <2>3, <2>4, <3>3, BitmapsInsert
    <3>4. CASE \E b \in Budgets : Bitmaps!SetBudget(b)
      BY <2>1, <2>3, <3>4, BitmapsSame, BudgetStep DEF Bitmaps!SetBudget
    <3>5. CASE \E doc \in Docs : Bitmaps!EvictDocument(doc)
      <4>1. PICK doc \in Docs : Bitmaps!EvictDocument(doc)
        BY <3>5
      <4>. QED BY <2>1, <2>3, <4>1, BitmapsSame, PoppingStep DEF Bitmaps!EvictDocument
    <3>6. CASE Bitmaps!Clear
      <4>1. cache' = EmptyCache /\ budget' = budget /\ Capacity \in Nat
        BY <3>6, BitmapsSame, EntriesAreSized DEF Bitmaps!Clear
      <4>. QED BY <2>1, <2>3, <4>1, EmptyIs DEF MapOK
    <3>. QED BY <3>1, <3>2, <3>3, <3>4, <3>5, <3>6, BitmapsSame DEF Bitmaps!Next
  <2>5. CASE owner = "images"
    <3>1. Images!Next
      BY <1>2, <2>5 DEF Next
    <3>2. CASE \E key \in Keys : Images!Get(key)
      <4>1. PICK key \in Keys : Images!Get(key)
        BY <3>2
      <4>. QED BY <2>1, <2>3, <4>1, ImagesSame, GetStep DEF Images!Get
    <3>3. CASE \E key \in Keys : Images!RemovePage(key)
      <4>1. PICK key \in Keys : Images!RemovePage(key)
        BY <3>3
      <4>. QED BY <2>1, <2>3, <4>1, ImagesSame, PoppingStep DEF Images!RemovePage
    <3>4. CASE \E key \in Keys, size \in Sizes : Images!Insert(key, size)
      BY <2>1, <2>3, <2>5, <3>4, ImagesInsert
    <3>5. CASE \E b \in Budgets : Images!SetBudget(b)
      BY <2>1, <2>3, <3>5, ImagesSame, BudgetStep DEF Images!SetBudget, Images!EvictedTo
    <3>6. CASE \E doc \in Docs : Images!RemoveDocument(doc)
      <4>1. PICK doc \in Docs : Images!RemoveDocument(doc)
        BY <3>6
      <4>. QED BY <2>1, <2>3, <4>1, ImagesSame, PoppingStep DEF Images!RemoveDocument
    <3>. QED BY <3>1, <3>2, <3>3, <3>4, <3>5, <3>6, ImagesSame DEF Images!Next
  <2>6. CASE owner = "geometry"
    <3>1. Geometry!Next
      BY <1>2, <2>6 DEF Next
    <3>2. budget' = budget
      BY <3>1 DEF Geometry!Next
    <3>3. CASE \E key \in Keys : Geometry!Get(key)
      <4>1. PICK key \in Keys : Geometry!Get(key)
        BY <3>3
      <4>. QED BY <2>1, <2>3, <3>2, <4>1, GeometrySame, GetStep DEF Geometry!Get
    <3>4. CASE \E key \in Keys, size \in Sizes : Geometry!Insert(key, size)
      BY <2>1, <2>3, <2>6, <3>2, <3>4, GeometryInsert
    <3>5. CASE \E doc \in Docs : Geometry!RemoveDocument(doc)
      <4>1. PICK doc \in Docs : Geometry!RemoveDocument(doc)
        BY <3>5
      <4>. QED BY <2>1, <2>3, <3>2, <4>1, GeometrySame, PoppingStep DEF Geometry!RemoveDocument
    <3>. QED BY <3>1, <3>3, <3>4, <3>5, GeometrySame DEF Geometry!Next
  <2>. QED BY <2>2, <2>4, <2>5, <2>6 DEF IsCache
<1>. QED BY <1>1, <1>2

LEMMA CacheFits ==
  ASSUME CacheInv
  PROVE  CacheFitsItsBudget
<1>1. SUFFICES ASSUME IsCache
               PROVE  Total(cache.entries) <= budget /\ CacheTypeOK /\ BytesAreCounted
  BY DEF CacheFitsItsBudget
<1> DEFINE s == cache.entries
           ks == [i \in 1..Len(s) |-> s[i].key]
<1>2. /\ s \in Seq(Cached) /\ cache.bytes \in Nat /\ Different(s) /\ Total(s) <= cache.bytes
      /\ (owner # "images" => cache.bytes = Total(s))
      /\ Len(s) <= Capacity /\ Total(s) <= budget
  BY <1>1 DEF CacheInv, MapOK, Lru, Exact
<1> HIDE DEF s
<1>3. Cardinality(KeysOf(s)) = Len(s)
  <2>1. Len(s) \in Nat /\ DOMAIN s = 1..Len(s) /\ \A i \in 1..Len(s) : s[i].key \in Keys
    <3>1. \A i \in 1..Len(s) : s[i] \in Cached
      BY <1>2, ElementOfSeq
    <3>. QED BY <1>2, <3>1, LenProperties DEF Cached
  <2>2. ks \in Seq(Keys) /\ Len(ks) = Len(s) /\ \A i \in 1..Len(s) : ks[i] = s[i].key
    BY <2>1
  <2>3. KeysOf(s) = {ks[i] : i \in 1..Len(ks)}
    <3> HIDE DEF ks
    <3>. QED BY <2>1, <2>2 DEF KeysOf
  <2> HIDE DEF ks
  <2>4. \A i, j \in 1..Len(ks) : ks[i] = ks[j] => i = j
    BY <1>2, <2>2 DEF Different
  <2>. QED BY <2>2, <2>3, <2>4, DistinctCardinality
<1>. QED BY <1>2, <1>3 DEF CacheTypeOK, BytesAreCounted, Cached, s

-----------------------------------------------------------------------------
(* Theorems *)

\* What a cache holds fits its budget and its map, no key twice, and its counter
\* is not behind (bitmap_cache.rs, page_image_cache.rs, text_geometry_cache.rs).
THEOREM CachesFitTheirBudgets == Spec => []CacheFitsItsBudget
<1>1. Init => CacheInv
  BY CacheInit
<1>2. CacheInv /\ [Next]_vars => CacheInv'
  BY CacheStep
<1>3. CacheInv => CacheFitsItsBudget
  BY CacheFits
<1>. QED BY <1>1, <1>2, <1>3, PTL DEF Spec

\* An insertion puts the entry first, and after it as many of the most recent
\* others as there is room for (insert, evict_for, put and pop_lru).
THEOREM InsertionsKeepTheNewest == Spec => InsertKeepsTheNewest
<1>1. Init => CacheInv
  BY CacheInit
<1>2. CacheInv /\ [Next]_vars => CacheInv'
  BY CacheStep
<1>3. ASSUME CacheInv, IsCache, NEW key \in Keys, NEW size \in Sizes,
             Inserts(key, size), size <= budget,
             owner = "images" => /\ Len(Without(cache.entries, {key})) < Capacity
                                 /\ cache.bytes = Total(cache.entries)
      PROVE  Kept(key, size)
  <2>1. MapOK
    BY <1>3 DEF CacheInv
  <2>2. CASE owner = "bitmaps" /\ Bitmaps!Insert(key, size)
    BY <1>3, <2>1, <2>2, BitmapsInsert
  <2>3. CASE owner = "images" /\ Images!Insert(key, size)
    BY <1>3, <2>1, <2>3, ImagesInsert DEF Exact
  <2>4. CASE owner = "geometry" /\ Geometry!Insert(key, size)
    BY <1>3, <2>1, <2>4, GeometryInsert
  <2>. QED BY <1>3, <2>2, <2>3, <2>4 DEF Inserts
<1>4. CacheInv =>
        (IsCache => \A key \in Keys, size \in Sizes :
           LET others == Without(cache.entries, {key})
           IN  /\ Inserts(key, size) /\ size <= budget
               /\ owner = "images" => Len(others) < Capacity /\ cache.bytes = Total(cache.entries)
               => cache'.entries = <<[key |-> key, bytes |-> size]>>
                                     \o Newest(others, Capacity - 1, budget - size))
  BY <1>3 DEF Kept
<1>. QED BY <1>1, <1>2, <1>4, PTL DEF Spec, InsertKeepsTheNewest
=============================================================================

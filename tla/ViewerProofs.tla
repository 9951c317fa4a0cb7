----------------------------- MODULE ViewerProofs -----------------------------
(* What holds of tabs and their documents for any number of files, versions, *)
(* tabs and pages, and all capacities of the queues.                         *)
EXTENDS Viewer, OpenDocumentsProofs

(***************************************************************************)
(* The inductive invariant, in parts.  The first are about any state a     *)
(* handler may have in hand.                                               *)
(***************************************************************************)

Command == [type : {"open"}, doc : TabIds, path : Paths, password : Passwords]
             \cup [type : {"close"}, doc : TabIds]
Request == [type : {"dimensions"}, doc : TabIds, start : Nat]
Errors == {"unreadable", "password required", "incorrect password"}
Event == [type : {"opened"}, doc : TabIds, pages : Nat \ {0}]
           \cup [type : {"error"}, doc : TabIds, error : Errors]
           \cup [type : {"dimensions"}, doc : TabIds, start : Nat, count : Nat]
OpenDoc == [doc : TabIds, pages : Nat \ {0}]

State ==
  [tabs : Seq(Tab), active : 0..MaxTabId, nextId : 0..MaxTabId, shown : Layout,
   page : 0..MaxPages, asking : BOOLEAN, dialog : BOOLEAN, watched : Paths \cup {NoPath},
   control : Seq(Command), low : Seq(Request)]

HasVersion(path, pages) == \E v \in DOMAIN Pages[path] : Pages[path][v] = pages

\* A blank tab has no document, a ready one shows pages, and the pages are those
\* of a version of the tab's file.
GoodTab(tab) ==
  /\ tab.path = NoPath => tab.doc = NoDocument
  /\ tab.doc.state = "ready" => tab.doc.pages > 0
  /\ tab.doc.pages > 0 => HasVersion(tab.path, tab.doc.pages)

\* Ids that were given are distinct, and so are the paths; the active tab is one
\* of the tabs.
GoodStrip(s) ==
  /\ \A i, j \in DOMAIN s.tabs : s.tabs[i].id = s.tabs[j].id => i = j
  /\ \A i, j \in DOMAIN s.tabs : s.tabs[i].path = s.tabs[j].path => i = j \/ s.tabs[i].path = NoPath
  /\ \A i \in DOMAIN s.tabs : s.tabs[i].id <= s.nextId
  /\ IF s.tabs = <<>> THEN s.active = 0 ELSE HasTab(s, s.active)
  /\ Len(s.tabs) <= MaxTabs

\* A command to open is for a tab that was there, and if it still is it has the
\* command's path: the tab's id and path never part.
GoodQueues(s) ==
  /\ Len(s.control) <= ControlCap /\ Len(s.low) <= LowCap
  /\ \A k \in DOMAIN s.control : s.control[k].type = "open" =>
       /\ s.control[k].doc <= s.nextId
       /\ \A i \in DOMAIN s.tabs :
            s.tabs[i].id = s.control[k].doc => s.tabs[i].path = s.control[k].path

Good(s) ==
  /\ s \in State
  /\ \A i \in DOMAIN s.tabs : GoodTab(s.tabs[i])
  /\ GoodStrip(s) /\ GoodQueues(s)

\* The answer to an open is for a tab that was there, and fits the tab's file if
\* that is still there.
Fits(e, tab) ==
  /\ e.type = "opened" => tab.path \in Paths /\ HasVersion(tab.path, e.pages)
  /\ e.type = "error" => tab.path \in Protected

Due(e) == e.type = "opened" \/ (e.type = "error" /\ e.error = "incorrect password")

FitsIn(e, s) ==
  /\ e.doc <= s.nextId
  /\ \A i \in DOMAIN s.tabs : s.tabs[i].id = e.doc => Fits(e, s.tabs[i])

GoodEvents(s, queue) ==
  /\ queue \in Seq(Event) /\ Len(queue) <= EventCap
  /\ \A k \in DOMAIN queue : Due(queue[k]) => FitsIn(queue[k], s)

\* The worker's documents, the files, and what is left of the saved session.
GoodWorld ==
  /\ activeDocs \in Seq(OpenDoc) /\ Len(activeDocs) <= MaxOpenTabs
  /\ disk \in [Paths -> Nat] /\ \A p \in Paths : disk[p] <= Len(Pages[p])
  /\ changed \subseteq Paths /\ session \in Seq(Paths) /\ pumping \in BOOLEAN

ViewerInv == Good(app) /\ GoodEvents(app, events) /\ GoodWorld

(***************************************************************************)
(* What one handler may do to the state.                                   *)
(***************************************************************************)

Asked(s, id) == \E k \in DOMAIN s.control : Concerns(s.control[k], id)

\* Tabs keep their ids, and paths once they have one; new ids are new; commands
\* stay; a tab that opens has asked, or was opening before.
Follows(s, t) ==
  /\ s.nextId <= t.nextId
  /\ \A j \in DOMAIN t.tabs :
       \/ t.tabs[j].id > s.nextId
       \/ \E i \in DOMAIN s.tabs : /\ s.tabs[i].id = t.tabs[j].id
                                   /\ s.tabs[i].path \in {t.tabs[j].path, NoPath}
  /\ \A k \in DOMAIN s.control : k \in DOMAIN t.control /\ t.control[k] = s.control[k]
  /\ \A j \in DOMAIN t.tabs : t.tabs[j].doc.state = "opening" =>
       \/ Asked(t, t.tabs[j].id)
       \/ \E i \in DOMAIN s.tabs :
            /\ s.tabs[i].id = t.tabs[j].id /\ s.tabs[i].path = t.tabs[j].path
            /\ s.tabs[i].doc.state = "opening"

\* A document that is shown stays, except in one tab.
Carries(s, t, but) ==
  \A i \in DOMAIN s.tabs, j \in DOMAIN t.tabs :
    /\ s.tabs[i].id = t.tabs[j].id /\ s.tabs[i].id # but
    /\ s.tabs[i].doc.pages > 0
    => t.tabs[j].doc.pages > 0

Steps(s, t, but) == Good(t) /\ Follows(s, t) /\ Carries(s, t, but)

\* No tab of this id is opening.
Settled(s, id) ==
  \A i \in DOMAIN s.tabs : s.tabs[i].id = id => s.tabs[i].doc.state # "opening"

\* Only what the window shows has changed.
Window(s, t) ==
  /\ t \in State /\ Len(t.low) <= LowCap
  /\ t.tabs = s.tabs /\ t.active = s.active /\ t.nextId = s.nextId /\ t.control = s.control

-----------------------------------------------------------------------------
(* Tabs *)

LEMMA Constants ==
  ASSUME ViewerAssumption
  PROVE  /\ MaxTabs \in Nat \ {0} /\ MaxTabId \in Nat \ {0} /\ MaxOpenTabs \in Nat \ {0}
         /\ MaxPages \in Nat \ {0} /\ Batch \in Nat \ {0} /\ Lookahead \in Nat
         /\ ControlCap \in Nat \ {0} /\ LowCap \in Nat \ {0} /\ EventCap \in Nat \ {0}
         /\ NoPath \notin Paths
BY DEF ViewerAssumption

LEMMA StripType ==
  ASSUME NEW s \in State
  PROVE  /\ s.tabs \in Seq(Tab) /\ Len(s.tabs) \in Nat /\ DOMAIN s.tabs = 1..Len(s.tabs)
         /\ \A i \in DOMAIN s.tabs : s.tabs[i] \in Tab
         /\ s.control \in Seq(Command) /\ DOMAIN s.control = 1..Len(s.control)
         /\ s.low \in Seq(Request)
BY DEF State

\* What is found under an id is the tab of that id.
LEMMA TabFound ==
  ASSUME NEW s \in State, GoodStrip(s), NEW id, HasTab(s, id)
  PROVE  /\ PositionOf(s, id) \in DOMAIN s.tabs
         /\ TabOf(s, id) \in Tab /\ TabOf(s, id).id = id
         /\ \A i \in DOMAIN s.tabs : s.tabs[i].id = id <=> i = PositionOf(s, id)
         /\ \A i \in DOMAIN s.tabs : s.tabs[i].id = id => s.tabs[i] = TabOf(s, id)
<1>1. PositionOf(s, id) \in DOMAIN s.tabs /\ s.tabs[PositionOf(s, id)].id = id
  BY DEF HasTab, PositionOf
<1>. QED BY <1>1, StripType DEF TabOf, GoodStrip

\* The active tab, where there is one.
LEMMA ActiveFound ==
  ASSUME NEW s, Good(s), s.active # 0
  PROVE  /\ HasTab(s, s.active) /\ ActiveTab(s) \in Tab /\ ActiveTab(s).id = s.active
         /\ GoodTab(ActiveTab(s))
         /\ \A i \in DOMAIN s.tabs : s.tabs[i].id = s.active => s.tabs[i] = ActiveTab(s)
<1>1. HasTab(s, s.active)
  BY DEF Good, GoodStrip
<1>. QED BY <1>1, TabFound DEF Good, ActiveTab, TabOf

\* Where there is a tab, one is active.
LEMMA SomeActive ==
  ASSUME NEW s, Good(s), NEW id, HasTab(s, id)
  PROVE  s.active # 0
<1>1. s.tabs # <<>>
  BY DEF HasTab
<1>2. PICK i \in DOMAIN s.tabs : s.tabs[i].id = s.active
  BY <1>1 DEF Good, GoodStrip, HasTab
<1>3. s.tabs[i].id \in 1..MaxTabId
  BY StripType DEF Good, Tab, TabIds
<1>. QED BY <1>2, <1>3, Constants, ViewerAssumption

\* A tab is replaced, and everything else stays.
LEMMA Retabbed ==
  ASSUME NEW s \in State, NEW tab \in Tab
  PROVE  /\ WithTab(s, tab) \in State
         /\ WithTab(s, tab) = [s EXCEPT !.tabs = WithTab(s, tab).tabs]
         /\ Len(WithTab(s, tab).tabs) = Len(s.tabs)
         /\ DOMAIN WithTab(s, tab).tabs = DOMAIN s.tabs
         /\ \A i \in DOMAIN s.tabs :
              WithTab(s, tab).tabs[i] = IF s.tabs[i].id = tab.id THEN tab ELSE s.tabs[i]
<1> DEFINE f == [i \in DOMAIN s.tabs |-> IF s.tabs[i].id = tab.id THEN tab ELSE s.tabs[i]]
<1>1. f \in [1..Len(s.tabs) -> Tab]
  BY StripType
<1>2. f \in Seq(Tab) /\ Len(f) = Len(s.tabs)
  BY <1>1, StripType, FunctionIsSeq
<1>3. WithTab(s, tab) = [s EXCEPT !.tabs = f]
  BY DEF WithTab
<1>4. s = [s EXCEPT !.tabs = s.tabs]
  BY DEF State
<1> HIDE DEF f
<1>5. WithTab(s, tab) \in State /\ WithTab(s, tab).tabs = f
  BY <1>2, <1>3 DEF State
<1>. QED BY <1>2, <1>3, <1>5, StripType DEF f

-----------------------------------------------------------------------------
(* What handlers are made of *)

\* A step that changes nothing, and two steps in a row.
LEMMA StepsReflexive ==
  ASSUME NEW s, Good(s), NEW but
  PROVE  Steps(s, s, but)
<1>1. s.nextId \in Nat
  BY DEF Good, State
<1>2. Follows(s, s)
  BY <1>1 DEF Follows
<1>3. Carries(s, s, but)
  BY DEF Carries, Good, GoodStrip
<1>. QED BY <1>2, <1>3 DEF Steps

LEMMA StepsTransitive ==
  ASSUME NEW s, NEW t, NEW u, NEW but, Good(s), Steps(s, t, but), Steps(t, u, but)
  PROVE  Steps(s, u, but)
<1> USE DEF Steps
<1>1. \A i \in DOMAIN s.tabs : s.tabs[i].id <= s.nextId /\ s.tabs[i].id \in Nat
  BY StripType DEF Good, GoodStrip, Tab, TabIds
<1>2. \A i \in DOMAIN t.tabs : t.tabs[i].id \in Nat
  BY StripType DEF Good, Tab, TabIds
<1>3. \A i \in DOMAIN u.tabs : u.tabs[i].id \in Nat
  BY StripType DEF Good, Tab, TabIds
<1>4. s.nextId \in Nat /\ t.nextId \in Nat /\ u.nextId \in Nat
  BY DEF Good, State
<1>5. Follows(s, u)
  <2>1. s.nextId <= u.nextId
    BY <1>4 DEF Follows
  <2>2. ASSUME NEW j \in DOMAIN u.tabs
        PROVE  \/ u.tabs[j].id > s.nextId
               \/ \E i \in DOMAIN s.tabs : /\ s.tabs[i].id = u.tabs[j].id
                                           /\ s.tabs[i].path \in {u.tabs[j].path, NoPath}
    <3>1. CASE u.tabs[j].id > t.nextId
      BY <3>1, <1>3, <1>4 DEF Follows
    <3>2. ASSUME NEW i \in DOMAIN t.tabs, t.tabs[i].id = u.tabs[j].id,
                 t.tabs[i].path \in {u.tabs[j].path, NoPath}
          PROVE  \/ u.tabs[j].id > s.nextId
                 \/ \E h \in DOMAIN s.tabs : /\ s.tabs[h].id = u.tabs[j].id
                                             /\ s.tabs[h].path \in {u.tabs[j].path, NoPath}
      BY <3>2 DEF Follows
    <3>. QED BY <3>1, <3>2 DEF Follows
  <2>3. \A k \in DOMAIN s.control : k \in DOMAIN u.control /\ u.control[k] = s.control[k]
    BY DEF Follows
  <2>4. ASSUME NEW j \in DOMAIN u.tabs, u.tabs[j].doc.state = "opening", ~ Asked(u, u.tabs[j].id)
        PROVE  \E i \in DOMAIN s.tabs :
                 /\ s.tabs[i].id = u.tabs[j].id /\ s.tabs[i].path = u.tabs[j].path
                 /\ s.tabs[i].doc.state = "opening"
    <3>1. PICK i \in DOMAIN t.tabs : /\ t.tabs[i].id = u.tabs[j].id
                                     /\ t.tabs[i].path = u.tabs[j].path
                                     /\ t.tabs[i].doc.state = "opening"
      BY <2>4 DEF Follows
    <3>2. ~ Asked(t, t.tabs[i].id)
      BY <2>4, <3>1 DEF Follows, Asked
    <3>. QED BY <3>1, <3>2 DEF Follows
  <2>. QED BY <2>1, <2>2, <2>3, <2>4 DEF Follows
<1>6. Carries(s, u, but)
  <2> SUFFICES ASSUME NEW i \in DOMAIN s.tabs, NEW j \in DOMAIN u.tabs,
                      s.tabs[i].id = u.tabs[j].id, s.tabs[i].id # but, s.tabs[i].doc.pages > 0
               PROVE  u.tabs[j].doc.pages > 0
    BY DEF Carries
  <2>1. ~ (u.tabs[j].id > t.nextId)
    BY <1>1, <1>4 DEF Follows
  <2>2. PICK k \in DOMAIN t.tabs : t.tabs[k].id = u.tabs[j].id
    BY <2>1 DEF Follows
  <2>. QED BY <2>2 DEF Carries
<1>. QED BY <1>5, <1>6

\* What stays in every tab stays in all but one.
LEMMA CarriesAll ==
  ASSUME NEW s, Good(s), NEW t, NEW but, Steps(s, t, 0)
  PROVE  Steps(s, t, but)
<1>1. \A i \in DOMAIN s.tabs : s.tabs[i].id # 0
  BY StripType DEF Good, Tab, TabIds
<1>. QED BY <1>1 DEF Steps, Carries

LEMMA WindowSteps ==
  ASSUME NEW s, Good(s), NEW t, Window(s, t), NEW but
  PROVE  Steps(s, t, but)
<1>1. Good(t)
  BY DEF Good, GoodStrip, GoodQueues, HasTab, Window
<1>2. Follows(s, t) /\ Carries(s, t, but)
  BY DEF Follows, Carries, Asked, Window, Good, State, GoodStrip
<1>. QED BY <1>1, <1>2 DEF Steps

\* A tab gets another document, layout or page.
LEMMA RetabSteps ==
  ASSUME NEW s, Good(s), NEW tab \in Tab, HasTab(s, tab.id), GoodTab(tab),
         tab.path = TabOf(s, tab.id).path, NEW but,
         tab.doc.state # "opening" \/ TabOf(s, tab.id).doc.state = "opening",
         tab.id = but \/ tab.doc.pages > 0 \/ ~ (TabOf(s, tab.id).doc.pages > 0)
  PROVE  /\ Steps(s, WithTab(s, tab), but)
         /\ \A id : Settled(s, id) => Settled(WithTab(s, tab), id)
<1> DEFINE t == WithTab(s, tab)
<1>1. /\ t \in State /\ t = [s EXCEPT !.tabs = t.tabs] /\ DOMAIN t.tabs = DOMAIN s.tabs
      /\ Len(t.tabs) = Len(s.tabs)
      /\ \A i \in DOMAIN s.tabs : t.tabs[i] = IF s.tabs[i].id = tab.id THEN tab ELSE s.tabs[i]
  BY Retabbed DEF Good
<1>2. /\ t.active = s.active /\ t.nextId = s.nextId /\ t.control = s.control /\ t.low = s.low
  BY <1>1 DEF Good, State
<1>3. \A i \in DOMAIN s.tabs : s.tabs[i].id = tab.id => s.tabs[i] = TabOf(s, tab.id)
  BY TabFound DEF Good
<1> HIDE DEF t
<1>4. \A i \in DOMAIN s.tabs : t.tabs[i].id = s.tabs[i].id /\ t.tabs[i].path = s.tabs[i].path
  BY <1>1, <1>3
<1>5. Good(t)
  <2>1. \A i \in DOMAIN t.tabs : GoodTab(t.tabs[i])
    BY <1>1 DEF Good
  <2>2. (t.tabs = <<>>) <=> (s.tabs = <<>>)
    BY <1>1, StripType DEF Good
  <2>3. GoodStrip(t)
    BY <1>1, <1>2, <1>4, <2>2 DEF Good, GoodStrip, HasTab
  <2>4. GoodQueues(t)
    BY <1>1, <1>2, <1>4 DEF Good, GoodQueues
  <2>. QED BY <1>1, <2>1, <2>3, <2>4 DEF Good
<1>0. \A i \in DOMAIN s.tabs : t.tabs[i].doc.state = "opening" => s.tabs[i].doc.state = "opening"
  BY <1>1, <1>3
<1>6. Follows(s, t)
  <2>1. s.nextId \in Nat
    BY DEF Good, State
  <2>. QED BY <1>0, <1>1, <1>2, <1>4, <2>1 DEF Follows
<1>7. Carries(s, t, but)
  <2> SUFFICES ASSUME NEW i \in DOMAIN s.tabs, NEW j \in DOMAIN s.tabs,
                      s.tabs[i].id = t.tabs[j].id, s.tabs[i].id # but, s.tabs[i].doc.pages > 0
               PROVE  t.tabs[j].doc.pages > 0
    BY <1>1 DEF Carries
  <2>1. i = j
    BY <1>4 DEF Good, GoodStrip
  <2>. QED BY <1>1, <1>3, <2>1
<1>8. \A id : Settled(s, id) => Settled(t, id)
  BY <1>0, <1>1, <1>4 DEF Settled
<1>. QED BY <1>5, <1>6, <1>7, <1>8 DEF Steps, t

LEMMA SnapshotSteps ==
  ASSUME NEW s, Good(s)
  PROVE  Steps(s, Snapshot(s), 0) /\ Snapshot(s).active = s.active
<1>1. CASE s.active = 0
  BY <1>1, StepsReflexive DEF Snapshot
<1>2. CASE s.active # 0
  <2> DEFINE tab == [ActiveTab(s) EXCEPT !.layout = s.shown, !.page = s.page]
  <2>1. /\ ActiveTab(s) \in Tab /\ HasTab(s, s.active) /\ ActiveTab(s).id = s.active
        /\ GoodTab(ActiveTab(s)) /\ TabOf(s, s.active) = ActiveTab(s)
    BY <1>2, ActiveFound DEF ActiveTab
  <2>2. s.shown \in Layout /\ s.page \in 0..MaxPages
    BY DEF Good, State
  <2>3. /\ tab \in Tab /\ tab.id = s.active /\ tab.path = ActiveTab(s).path
        /\ tab.doc = ActiveTab(s).doc
    BY <2>1, <2>2 DEF Tab
  <2>4. Snapshot(s) = WithTab(s, tab)
    BY <1>2 DEF Snapshot
  <2> HIDE DEF tab
  <2>5. GoodTab(tab)
    BY <2>1, <2>3 DEF GoodTab
  <2>6. Steps(s, WithTab(s, tab), 0)
    BY <2>1, <2>3, <2>5, RetabSteps
  <2>7. WithTab(s, tab).active = s.active
    BY <2>3, Retabbed DEF Good, State
  <2>. QED BY <2>4, <2>6, <2>7
<1>. QED BY <1>1, <1>2

\* Taking the window's state into the tab changes no document.
LEMMA SnapshotKeeps ==
  ASSUME NEW s, Good(s)
  PROVE  \A i \in DOMAIN s.tabs :
           /\ i \in DOMAIN Snapshot(s).tabs /\ Snapshot(s).tabs[i].id = s.tabs[i].id
           /\ Snapshot(s).tabs[i].path = s.tabs[i].path /\ Snapshot(s).tabs[i].doc = s.tabs[i].doc
<1>1. CASE s.active = 0
  BY <1>1 DEF Snapshot
<1>2. CASE s.active # 0
  <2> DEFINE tab == [ActiveTab(s) EXCEPT !.layout = s.shown, !.page = s.page]
  <2>1. /\ ActiveTab(s) \in Tab /\ ActiveTab(s).id = s.active
        /\ \A i \in DOMAIN s.tabs : s.tabs[i].id = s.active => s.tabs[i] = ActiveTab(s)
    BY <1>2, ActiveFound
  <2>2. s.shown \in Layout /\ s.page \in 0..MaxPages
    BY DEF Good, State
  <2>3. /\ tab \in Tab /\ tab.id = s.active /\ tab.path = ActiveTab(s).path
        /\ tab.doc = ActiveTab(s).doc
    BY <2>1, <2>2 DEF Tab
  <2>4. Snapshot(s) = WithTab(s, tab)
    BY <1>2 DEF Snapshot
  <2> HIDE DEF tab
  <2>5. /\ DOMAIN WithTab(s, tab).tabs = DOMAIN s.tabs
        /\ \A i \in DOMAIN s.tabs :
             WithTab(s, tab).tabs[i] = IF s.tabs[i].id = tab.id THEN tab ELSE s.tabs[i]
    BY <2>3, Retabbed DEF Good
  <2>. QED BY <2>1, <2>3, <2>4, <2>5
<1>. QED BY <1>1, <1>2

LEMMA RestoreWindow ==
  ASSUME NEW s, Good(s)
  PROVE  Window(s, Restore(s))
<1>1. CASE s.active = 0
  BY <1>1 DEF Restore, Window, Good, GoodQueues
<1>2. CASE s.active # 0
  <2>1. ActiveTab(s).layout \in Layout /\ ActiveTab(s).page \in 0..MaxPages
    BY <1>2, ActiveFound DEF Tab
  <2>. QED BY <1>2, <2>1 DEF Restore, Window, Good, GoodQueues, State
<1>. QED BY <1>1, <1>2

LEMMA ClearWindow ==
  ASSUME NEW s, Good(s)
  PROVE  /\ Window(s, ClearTransients(s))
         /\ Window(s, [s EXCEPT !.dialog = FALSE]) /\ Window(s, [s EXCEPT !.dialog = TRUE])
BY DEF ClearTransients, Window, Good, GoodQueues, State

LEMMA ResetWindow ==
  ASSUME NEW s, Good(s)
  PROVE  Window(s, Reset(s))
<1>0. s.shown \in Layout
  BY DEF Good, State
<1>2. 0 \in 0..MaxPages /\ 0 \in 0..MaxTabId
  BY Constants, ViewerAssumption
<1>1. [s.shown EXCEPT !.doc = 0, !.pages = 0] \in Layout
  BY <1>0, <1>2 DEF Layout
<1>3. Reset(s) = [s EXCEPT !.watched = NoPath, !.page = 0, !.dialog = FALSE,
                           !.shown = [s.shown EXCEPT !.doc = 0, !.pages = 0]]
  BY DEF Reset, Good, State, Layout
<1>. QED BY <1>1, <1>2, <1>3 DEF Window, Good, GoodQueues, State

LEMMA WatchWindow ==
  ASSUME NEW s, Good(s), NEW path \in Paths
  PROVE  Window(s, Watch(s, path))
BY DEF Watch, Window, Good, GoodQueues, State

LEMMA PageCountType ==
  ASSUME NEW s, Good(s)
  PROVE  PageCount(s) \in 0..MaxPages
<1>1. 0 \in 0..MaxPages
  BY Constants, ViewerAssumption
<1>. QED BY <1>1, ActiveFound DEF PageCount, Tab

LEMMA BatchWindow ==
  ASSUME NEW s, Good(s), s.active # 0
  PROVE  Window(s, RequestBatch(s))
<1> DEFINE r == [type |-> "dimensions", doc |-> s.active, start |-> s.shown.next]
<1>0. s.active \in 0..MaxTabId /\ s.shown \in Layout /\ LowCap \in Nat /\ MaxTabId \in Nat
  BY Constants, ViewerAssumption DEF Good, State
<1>1. s.active \in TabIds /\ s.shown.next \in Nat
  BY <1>0 DEF Layout, TabIds
<1>2. r \in Request
  BY <1>1 DEF Request
<1>3. s.low \in Seq(Request) /\ Len(s.low) <= LowCap
  BY DEF Good, GoodQueues, State
<1>4. RequestBatch(s) \in {s, [s EXCEPT !.asking = TRUE, !.low = Append(s.low, r)]}
  BY DEF RequestBatch
<1>5. RequestBatch(s) # s => Len(s.low) < LowCap
  BY DEF RequestBatch
<1> HIDE DEF r
<1>6. /\ Append(s.low, r) \in Seq(Request)
      /\ Len(s.low) < LowCap => Len(Append(s.low, r)) <= LowCap
  <2>1. Append(s.low, r) \in Seq(Request) /\ Len(Append(s.low, r)) = Len(s.low) + 1
    BY <1>2, <1>3, AppendProperties
  <2>. QED BY <1>0, <1>3, <2>1
<1>7. Window(s, s)
  BY DEF Window, Good, GoodQueues
<1>8. Len(s.low) < LowCap => Window(s, [s EXCEPT !.asking = TRUE, !.low = Append(s.low, r)])
  BY <1>6 DEF Window, Good, State
<1>. QED BY <1>4, <1>5, <1>7, <1>8

LEMMA GoToWindow ==
  ASSUME NEW s, Good(s), NEW page \in Nat
  PROVE  Window(s, GoTo(s, page))
<1>1. CASE ~ (page < PageCount(s))
  BY <1>1 DEF GoTo, Window, Good, GoodQueues
<1>2. CASE page < PageCount(s)
  <2> DEFINE t == [s EXCEPT !.page = page]
  <2>1. PageCount(s) \in 0..MaxPages /\ MaxPages \in Nat
    BY PageCountType, Constants, ViewerAssumption
  <2>2. page \in 0..MaxPages
    BY <1>2, <2>1
  <2>3. s.active # 0
    BY <1>2 DEF PageCount
  <2>4. Window(s, t) /\ t.active = s.active
    BY <2>2 DEF Window, Good, GoodQueues, State
  <2>5. Good(t)
    BY <2>4, WindowSteps DEF Steps
  <2> HIDE DEF t
  <2>6. Window(t, RequestBatch(t))
    BY <2>3, <2>4, <2>5, BatchWindow
  <2>7. GoTo(s, page) = RequestBatch(t)
    BY <1>2 DEF GoTo, t
  <2>. QED BY <2>4, <2>6, <2>7 DEF Window
<1>. QED BY <1>1, <1>2

LEMMA NewTabIsGood ==
  ASSUME NEW id \in TabIds, NEW path \in Paths \cup {NoPath}, ViewerAssumption
  PROVE  /\ NewTab(id, path) \in Tab /\ GoodTab(NewTab(id, path))
         /\ NewTab(id, path).id = id /\ NewTab(id, path).path = path
         /\ NewTab(id, path).doc = NoDocument
<1>1. 0 \in 0..MaxPages /\ 0 \in 0..MaxTabId
  BY Constants
<1>2. NoLayout \in Layout
  BY <1>1 DEF NoLayout, Layout
<1>3. NoDocument \in [state : States, pages : 0..MaxPages] /\ NoDocument.pages = 0
      /\ NoDocument.state = "none"
  BY <1>1 DEF NoDocument, States
<1> HIDE DEF NoLayout, NoDocument
<1>4. NewTab(id, path) = [id |-> id, path |-> path, doc |-> NoDocument, layout |-> NoLayout,
                          page |-> 0]
  BY DEF NewTab
<1>5. NewTab(id, path) \in Tab
  BY <1>1, <1>2, <1>3, <1>4 DEF Tab
<1>. QED BY <1>3, <1>4, <1>5 DEF GoodTab

\* A new tab at the end of the strip, with a path no other has, becomes active.
LEMMA GrownSteps ==
  ASSUME NEW s, Good(s), CanGrow(s), NEW path \in Paths \cup {NoPath},
         path = NoPath \/ ~ HasPath(s, path)
  PROVE  /\ Steps(s, Grown(s, path), 0)
         /\ Grown(s, path).active # 0 /\ ActiveTab(Grown(s, path)).path = path
<1> DEFINE id == s.nextId + 1
           tab == NewTab(id, path)
           t == Grown(s, path)
<1>0. /\ s.nextId \in 0..MaxTabId /\ s.nextId < MaxTabId /\ MaxTabId \in Nat
      /\ Len(s.tabs) < MaxTabs /\ MaxTabs \in Nat
  BY Constants, ViewerAssumption DEF Good, State, CanGrow
<1>1. /\ s.nextId \in Nat /\ id \in TabIds /\ id # 0 /\ id \in 0..MaxTabId
      /\ Len(s.tabs) < MaxTabs /\ MaxTabs \in Nat
  BY <1>0 DEF TabIds
<1>2. /\ tab \in Tab /\ GoodTab(tab) /\ tab.id = id /\ tab.path = path /\ tab.doc = NoDocument
  BY <1>1, NewTabIsGood, ViewerAssumption
<1>3. t = [s EXCEPT !.tabs = Append(s.tabs, tab), !.nextId = id, !.active = id]
  BY DEF Grown, Good, State
<1> HIDE DEF tab, t
<1>4. /\ Append(s.tabs, tab) \in Seq(Tab) /\ Len(Append(s.tabs, tab)) = Len(s.tabs) + 1
      /\ \A i \in 1..Len(s.tabs) : Append(s.tabs, tab)[i] = s.tabs[i]
      /\ Append(s.tabs, tab)[Len(s.tabs) + 1] = tab
  BY <1>2, StripType, AppendProperties DEF Good
<1>5. /\ t \in State /\ t.tabs = Append(s.tabs, tab) /\ t.nextId = id /\ t.active = id
      /\ t.control = s.control /\ t.low = s.low
  BY <1>1, <1>3, <1>4 DEF Good, State
<1>6. DOMAIN s.tabs = 1..Len(s.tabs) /\ DOMAIN t.tabs = 1..(Len(s.tabs) + 1) /\ Len(s.tabs) \in Nat
  BY <1>4, <1>5, StripType DEF Good
<1>7. \A j \in DOMAIN t.tabs : \/ j \in DOMAIN s.tabs /\ t.tabs[j] = s.tabs[j]
                               \/ j = Len(s.tabs) + 1 /\ t.tabs[j] = tab
  BY <1>4, <1>5, <1>6
<1>8. \A i \in DOMAIN s.tabs : i \in DOMAIN t.tabs /\ t.tabs[i] = s.tabs[i] /\ s.tabs[i].id \in Nat
                               /\ s.tabs[i].id <= s.nextId /\ s.tabs[i].id # id
  <2>1. \A i \in DOMAIN s.tabs : i \in DOMAIN t.tabs /\ t.tabs[i] = s.tabs[i]
    BY <1>4, <1>5, <1>6
  <2>2. \A i \in DOMAIN s.tabs : s.tabs[i].id \in Nat /\ s.tabs[i].id <= s.nextId
    BY StripType DEF Good, GoodStrip, Tab, TabIds
  <2>. QED BY <1>1, <2>1, <2>2
<1>9. Len(s.tabs) + 1 \in DOMAIN t.tabs /\ t.tabs[Len(s.tabs) + 1] = tab
  BY <1>4, <1>5, <1>6
<1>10. Good(t)
  <2>1. \A i \in DOMAIN t.tabs : GoodTab(t.tabs[i])
    BY <1>2, <1>7 DEF Good
  <2>2. \A i, j \in DOMAIN t.tabs : t.tabs[i].id = t.tabs[j].id => i = j
    BY <1>2, <1>7, <1>8 DEF Good, GoodStrip
  <2>3. \A i, j \in DOMAIN t.tabs :
          t.tabs[i].path = t.tabs[j].path => i = j \/ t.tabs[i].path = NoPath
    BY <1>2, <1>7 DEF Good, GoodStrip, HasPath
  <2>4. \A i \in DOMAIN t.tabs : t.tabs[i].id <= t.nextId
    BY <1>1, <1>2, <1>5, <1>7, <1>8
  <2>5. t.tabs # <<>> /\ HasTab(t, t.active)
    BY <1>2, <1>5, <1>6, <1>9 DEF HasTab
  <2>6. Len(t.tabs) <= MaxTabs
    BY <1>1, <1>4, <1>5, <1>6
  <2>7. GoodStrip(t)
    BY <2>2, <2>3, <2>4, <2>5, <2>6 DEF GoodStrip
  <2>8. GoodQueues(t)
    <3> SUFFICES ASSUME NEW k \in DOMAIN t.control, t.control[k].type = "open"
                 PROVE  /\ t.control[k].doc <= t.nextId
                        /\ \A i \in DOMAIN t.tabs :
                             t.tabs[i].id = t.control[k].doc => t.tabs[i].path = t.control[k].path
      BY <1>5 DEF Good, GoodQueues
    <3>1. t.control[k].doc <= s.nextId /\ t.control[k].doc \in Nat
      BY <1>5, StripType DEF Good, GoodQueues, Command, TabIds
    <3>2. t.control[k].doc # id
      BY <1>1, <3>1
    <3>3. t.control[k].doc <= t.nextId
      BY <1>1, <1>5, <3>1
    <3>4. ASSUME NEW i \in DOMAIN t.tabs, t.tabs[i].id = t.control[k].doc
          PROVE  t.tabs[i].path = t.control[k].path
      <4>1. i \in DOMAIN s.tabs /\ t.tabs[i] = s.tabs[i]
        BY <1>2, <1>7, <3>2, <3>4
      <4>2. k \in DOMAIN s.control /\ t.control[k] = s.control[k]
        BY <1>5
      <4>. QED BY <3>4, <4>1, <4>2 DEF Good, GoodQueues
    <3>. QED BY <3>3, <3>4
  <2>. QED BY <1>5, <2>1, <2>7, <2>8 DEF Good
<1>11. Follows(s, t)
  <2>1. \A j \in DOMAIN t.tabs :
          t.tabs[j].doc.state = "opening" => j \in DOMAIN s.tabs /\ t.tabs[j] = s.tabs[j]
    BY <1>2, <1>7 DEF NoDocument
  <2>. QED BY <1>1, <1>2, <1>5, <1>7, <2>1 DEF Follows
<1>12. Carries(s, t, 0)
  BY <1>2, <1>7, <1>8 DEF Carries, Good, GoodStrip
<1>13. ActiveTab(t) = tab
  <2>1. t.active # 0
    BY <1>1, <1>5
  <2>. QED BY <1>2, <1>5, <1>9, <1>10, <2>1, ActiveFound
<1>. QED BY <1>1, <1>2, <1>5, <1>10, <1>11, <1>12, <1>13 DEF Steps, t

\* The blank active tab takes a path no other tab has.
LEMMA BlankSteps ==
  ASSUME NEW s, Good(s), s.active # 0, ActiveTab(s).path = NoPath,
         NEW path \in Paths, ~ HasPath(s, path)
  PROVE  /\ Steps(s, Open(s, path), 0)
         /\ Open(s, path).active = s.active /\ ActiveTab(Open(s, path)).path = path
<1> DEFINE tab == [ActiveTab(s) EXCEPT !.path = path, !.doc = NoDocument, !.layout = NoLayout]
           t == WithTab(s, tab)
<1>0. Open(s, path) = t
  BY DEF Open
<1>1. /\ ActiveTab(s) \in Tab /\ HasTab(s, s.active) /\ ActiveTab(s).id = s.active
      /\ ActiveTab(s).doc = NoDocument
      /\ \A i \in DOMAIN s.tabs : s.tabs[i].id = s.active => s.tabs[i] = ActiveTab(s)
  BY ActiveFound DEF GoodTab
<1>2. 0 \in 0..MaxPages /\ 0 \in 0..MaxTabId /\ NoPath \notin Paths
  BY Constants, ViewerAssumption
<1>3. NoLayout \in Layout
  BY <1>2 DEF NoLayout, Layout
<1>4. NoDocument \in [state : States, pages : 0..MaxPages] /\ NoDocument.pages = 0
      /\ NoDocument.state = "none"
  BY <1>2 DEF NoDocument, States
<1>5. tab \in Tab /\ tab.id = s.active /\ tab.path = path /\ tab.doc = NoDocument
  BY <1>1, <1>3, <1>4 DEF Tab
<1> HIDE DEF tab
<1>6. /\ t \in State /\ t = [s EXCEPT !.tabs = t.tabs] /\ DOMAIN t.tabs = DOMAIN s.tabs
      /\ Len(t.tabs) = Len(s.tabs)
      /\ \A i \in DOMAIN s.tabs : t.tabs[i] = IF s.tabs[i].id = tab.id THEN tab ELSE s.tabs[i]
  BY <1>5, Retabbed DEF Good
<1>7. /\ t.active = s.active /\ t.nextId = s.nextId /\ t.control = s.control /\ t.low = s.low
  BY <1>6 DEF Good, State
<1> HIDE DEF t
<1>8. PICK a \in DOMAIN s.tabs : s.tabs[a].id = s.active /\ s.tabs[a] = ActiveTab(s)
  BY <1>1 DEF HasTab
<1>9. \A i, j \in DOMAIN s.tabs : s.tabs[i].id = s.tabs[j].id => i = j
  BY DEF Good, GoodStrip
<1>10. \A i \in DOMAIN s.tabs : t.tabs[i] = IF i = a THEN tab ELSE s.tabs[i]
  BY <1>5, <1>6, <1>8, <1>9
<1>11. \A i \in DOMAIN s.tabs : t.tabs[i].id = s.tabs[i].id
  BY <1>5, <1>8, <1>10
<1>12. \A i \in DOMAIN s.tabs : t.tabs[i].path = IF i = a THEN path ELSE s.tabs[i].path
  BY <1>5, <1>10
<1>13. \A i \in DOMAIN s.tabs : t.tabs[i].doc = s.tabs[i].doc
  BY <1>1, <1>5, <1>8, <1>10
<1>14. Good(t)
  <2>1. \A i \in DOMAIN t.tabs : GoodTab(t.tabs[i])
    <3>1. GoodTab(tab)
      BY <1>2, <1>4, <1>5 DEF GoodTab
    <3>. QED BY <1>6, <1>10, <3>1 DEF Good
  <2>2. \A i, j \in DOMAIN t.tabs : t.tabs[i].id = t.tabs[j].id => i = j
    BY <1>6, <1>9, <1>11
  <2>3. \A i, j \in DOMAIN t.tabs :
          t.tabs[i].path = t.tabs[j].path => i = j \/ t.tabs[i].path = NoPath
    <3>1. \A i \in DOMAIN s.tabs : s.tabs[i].path # path
      BY DEF HasPath
    <3>2. \A i, j \in DOMAIN s.tabs :
            s.tabs[i].path = s.tabs[j].path => i = j \/ s.tabs[i].path = NoPath
      BY DEF Good, GoodStrip
    <3>. QED BY <1>6, <1>12, <3>1, <3>2
  <2>4. (t.tabs = <<>>) <=> (s.tabs = <<>>)
    BY <1>6, StripType DEF Good
  <2>5. \A i \in DOMAIN t.tabs : t.tabs[i].id <= t.nextId
    BY <1>6, <1>7, <1>11 DEF Good, GoodStrip
  <2>6. HasTab(t, t.active) /\ s.tabs # <<>>
    BY <1>6, <1>7, <1>8, <1>11, StripType DEF HasTab, Good, GoodStrip
  <2>7. Len(t.tabs) <= MaxTabs
    BY <1>6 DEF Good, GoodStrip
  <2>8. GoodStrip(t)
    BY <2>2, <2>3, <2>4, <2>5, <2>6, <2>7 DEF GoodStrip
  <2>9. GoodQueues(t)
    <3> SUFFICES ASSUME NEW k \in DOMAIN s.control, s.control[k].type = "open"
                 PROVE  /\ s.control[k].doc <= s.nextId
                        /\ \A i \in DOMAIN s.tabs :
                             s.tabs[i].id = s.control[k].doc => t.tabs[i].path = s.control[k].path
      BY <1>6, <1>7, <1>11 DEF Good, GoodQueues
    <3>1. /\ s.control[k].doc <= s.nextId
          /\ \A i \in DOMAIN s.tabs :
               s.tabs[i].id = s.control[k].doc => s.tabs[i].path = s.control[k].path
      BY DEF Good, GoodQueues
    <3>2. s.control[k].path \in Paths
      BY StripType DEF Good, Command
    <3>3. s.tabs[a].id # s.control[k].doc
      BY <1>2, <1>8, <3>1, <3>2
    <3>. QED BY <1>12, <3>1, <3>3
  <2>. QED BY <1>6, <2>1, <2>8, <2>9 DEF Good
<1>15. Follows(s, t)
  <2>1. s.nextId \in Nat
    BY DEF Good, State
  <2>2. s.tabs[a].path = NoPath
    BY <1>8
  <2>3. \A i \in DOMAIN s.tabs : s.tabs[i].path \in {t.tabs[i].path, NoPath}
    BY <1>12, <2>2
  <2>4. \A i \in DOMAIN s.tabs : t.tabs[i].doc.state = "opening" => i # a
    BY <1>4, <1>5, <1>10
  <2>. QED BY <1>6, <1>7, <1>11, <1>12, <1>13, <2>1, <2>3, <2>4 DEF Follows
<1>16. Carries(s, t, 0)
  BY <1>6, <1>9, <1>11, <1>13 DEF Carries
<1>17. ActiveTab(t) = tab
  <2>1. a \in DOMAIN t.tabs /\ t.tabs[a] = tab
    BY <1>6, <1>8, <1>10
  <2>. QED BY <1>5, <1>7, <1>14, <2>1, ActiveFound
<1>. QED BY <1>0, <1>5, <1>7, <1>14, <1>15, <1>16, <1>17 DEF Steps

\* Another tab is brought to the front.
LEMMA FrontSteps ==
  ASSUME NEW s, Good(s), NEW id, HasTab(s, id), NEW but
  PROVE  /\ Steps(s, [s EXCEPT !.active = id], but) /\ id # 0
         /\ ActiveTab([s EXCEPT !.active = id]) = TabOf(s, id)
<1> DEFINE t == [s EXCEPT !.active = id]
<1>1. id \in TabIds /\ id # 0 /\ id \in 0..MaxTabId
  <2>1. TabOf(s, id) \in Tab /\ TabOf(s, id).id = id
    BY TabFound DEF Good
  <2>. QED BY <2>1, Constants, ViewerAssumption DEF Tab, TabIds
<1>2. /\ t \in State /\ t.tabs = s.tabs /\ t.nextId = s.nextId /\ t.control = s.control
      /\ t.low = s.low /\ t.active = id
  BY <1>1 DEF Good, State
<1> HIDE DEF t
<1>3. Good(t)
  BY <1>2 DEF Good, GoodStrip, GoodQueues, HasTab
<1>4. Follows(s, t) /\ Carries(s, t, but)
  BY <1>2 DEF Follows, Carries, Good, State, GoodStrip
<1>5. ActiveTab(t) = TabOf(s, id)
  BY <1>2 DEF ActiveTab, TabOf, PositionOf
<1>. QED BY <1>1, <1>3, <1>4, <1>5 DEF Steps, t

LEMMA OpenSteps ==
  ASSUME NEW s, Good(s), NEW path \in Paths
  PROVE  /\ Steps(s, Open(s, path), 0)
         /\ HasPath(Open(s, path), path) =>
              Open(s, path).active # 0 /\ ActiveTab(Open(s, path)).path = path
<1>1. CASE HasPath(s, path)
  <2> DEFINE strip == {s.tabs[i] : i \in DOMAIN s.tabs}
             id == (CHOOSE t \in strip : t.path = path).id
  <2>1. \E t \in strip : t.path = path
    BY <1>1 DEF HasPath
  <2>2. (CHOOSE t \in strip : t.path = path) \in strip
        /\ (CHOOSE t \in strip : t.path = path).path = path
    BY <2>1
  <2>3. PICK i \in DOMAIN s.tabs : s.tabs[i].id = id /\ s.tabs[i].path = path
    BY <2>2
  <2>4. Open(s, path) = [s EXCEPT !.active = id]
    BY <1>1 DEF Open
  <2> HIDE DEF id
  <2>5. HasTab(s, id)
    BY <2>3 DEF HasTab
  <2>6. TabOf(s, id).path = path
    BY <2>3, <2>5, TabFound DEF Good
  <2>. QED BY <2>4, <2>5, <2>6, FrontSteps
<1>2. CASE ~ HasPath(s, path) /\ s.active # 0 /\ ActiveTab(s).path = NoPath
  BY <1>2, BlankSteps
<1>3. CASE ~ HasPath(s, path) /\ ~ (s.active # 0 /\ ActiveTab(s).path = NoPath)
  <2>1. CASE CanGrow(s)
    BY <1>3, <2>1, GrownSteps DEF Open
  <2>2. CASE ~ CanGrow(s)
    <3>1. Open(s, path) = s
      BY <1>3, <2>2 DEF Open
    <3>. QED BY <1>3, <3>1, StepsReflexive
  <2>. QED BY <2>1, <2>2
<1>. QED BY <1>1, <1>2, <1>3

\* A tab gets another document, or its document another state.
LEMMA DocumentSteps ==
  ASSUME NEW s, Good(s), NEW id, HasTab(s, id), TabOf(s, id).path # NoPath,
         NEW doc \in [state : States \ {"opening"}, pages : 0..MaxPages],
         doc.state = "ready" => doc.pages > 0,
         doc.pages > 0 => HasVersion(TabOf(s, id).path, doc.pages),
         NEW but, id = but \/ doc.pages > 0 \/ ~ (TabOf(s, id).doc.pages > 0)
  PROVE  /\ Steps(s, SetDocument(s, id, doc), but) /\ Settled(SetDocument(s, id, doc), id)
         /\ SetDocument(s, id, doc).active = s.active
<1> DEFINE tab == [TabOf(s, id) EXCEPT !.doc = doc]
           t == WithTab(s, tab)
<1>1. TabOf(s, id) \in Tab /\ TabOf(s, id).id = id
  BY TabFound DEF Good
<1>2. SetDocument(s, id, doc) = WithTab(s, tab)
  BY DEF SetDocument
<1>3. tab \in Tab /\ tab.id = id /\ tab.path = TabOf(s, id).path /\ tab.doc = doc
  BY <1>1 DEF Tab
<1> HIDE DEF tab
<1>4. GoodTab(tab)
  BY <1>3 DEF GoodTab
<1>5. Steps(s, t, but)
  BY <1>1, <1>3, <1>4, RetabSteps
<1>6. t.active = s.active
  BY <1>3, Retabbed DEF Good, State
<1>7. Settled(t, id)
  <2>1. /\ DOMAIN t.tabs = DOMAIN s.tabs
        /\ \A i \in DOMAIN s.tabs : t.tabs[i] = IF s.tabs[i].id = id THEN tab ELSE s.tabs[i]
    BY <1>3, Retabbed DEF Good
  <2>. QED BY <1>3, <2>1 DEF Settled
<1>. QED BY <1>2, <1>5, <1>6, <1>7

\* A document goes into another state, its pages stay.
LEMMA BecomesSteps ==
  ASSUME NEW s, Good(s), NEW id, HasTab(s, id), NEW state \in {"password", "failed"},
         TabOf(s, id).path # NoPath
  PROVE  Steps(s, Becomes(s, id, state), 0) /\ Settled(Becomes(s, id, state), id)
<1> DEFINE old == TabOf(s, id).doc
           doc == [old EXCEPT !.state = state]
<1>1. TabOf(s, id) \in Tab /\ GoodTab(TabOf(s, id))
  BY TabFound DEF Good, TabOf
<1>2. old \in [state : States, pages : 0..MaxPages]
  BY <1>1 DEF Tab
<1>3. /\ doc \in [state : States \ {"opening"}, pages : 0..MaxPages]
      /\ doc.pages = old.pages /\ doc.state = state
  BY <1>2 DEF States
<1>4. Becomes(s, id, state) = SetDocument(s, id, doc)
  BY DEF Becomes
<1>5. old.pages > 0 => HasVersion(TabOf(s, id).path, old.pages)
  BY <1>1 DEF GoodTab
<1>6. doc.pages > 0 \/ ~ (TabOf(s, id).doc.pages > 0)
  BY <1>3
<1>7. doc.state # "ready"
  BY <1>3
<1> HIDE DEF doc
<1>. QED BY <1>3, <1>4, <1>5, <1>6, <1>7, DocumentSteps

\* The active tab asks for its document and waits, or is back at what it showed.
LEMMA AskSteps ==
  ASSUME NEW s, Good(s), s.active # 0, NEW path \in Paths, ActiveTab(s).path = path,
         NEW password \in Passwords
  PROVE  Steps(s, AskWorker(Becomes(s, s.active, "opening"), path, password), 0)
<1> DEFINE tab == [TabOf(s, s.active) EXCEPT !.doc = [@ EXCEPT !.state = "opening"]]
           t == WithTab(s, tab)
           c == [type |-> "open", doc |-> s.active, path |-> path, password |-> password]
           u == [t EXCEPT !.control = Append(t.control, c)]
<1>1. /\ HasTab(s, s.active) /\ TabOf(s, s.active) \in Tab /\ TabOf(s, s.active).id = s.active
      /\ TabOf(s, s.active).path = path /\ GoodTab(TabOf(s, s.active))
  BY ActiveFound DEF ActiveTab
<1>2. NoPath \notin Paths /\ ControlCap \in Nat /\ MaxTabId \in Nat
  BY Constants, ViewerAssumption
<1>3. /\ tab \in Tab /\ tab.id = s.active /\ tab.path = path /\ tab.doc.state = "opening"
      /\ tab.doc.pages = TabOf(s, s.active).doc.pages
  BY <1>1 DEF Tab, States
<1>4. Becomes(s, s.active, "opening") = t
  BY DEF Becomes, SetDocument
<1>5. GoodTab(tab)
  BY <1>1, <1>2, <1>3 DEF GoodTab
<1> HIDE DEF tab
<1>6. /\ t \in State /\ t = [s EXCEPT !.tabs = t.tabs] /\ DOMAIN t.tabs = DOMAIN s.tabs
      /\ Len(t.tabs) = Len(s.tabs)
      /\ \A i \in DOMAIN s.tabs : t.tabs[i] = IF s.tabs[i].id = tab.id THEN tab ELSE s.tabs[i]
  BY <1>3, Retabbed DEF Good
<1>7. /\ t.active = s.active /\ t.nextId = s.nextId /\ t.control = s.control /\ t.low = s.low
  BY <1>6 DEF Good, State
<1> HIDE DEF t
<1>8. PICK a \in DOMAIN s.tabs : s.tabs[a].id = s.active /\ s.tabs[a] = TabOf(s, s.active)
  BY <1>1, TabFound DEF Good
<1>9. \A i, j \in DOMAIN s.tabs : s.tabs[i].id = s.tabs[j].id => i = j
  BY DEF Good, GoodStrip
<1>10. \A i \in DOMAIN s.tabs : t.tabs[i] = IF i = a THEN tab ELSE s.tabs[i]
  BY <1>3, <1>6, <1>8, <1>9
<1>11. \A i \in DOMAIN s.tabs : /\ t.tabs[i].id = s.tabs[i].id /\ t.tabs[i].path = s.tabs[i].path
                                /\ t.tabs[i].doc.pages = s.tabs[i].doc.pages
  BY <1>1, <1>3, <1>8, <1>10
<1>12. Good(t)
  <2>1. \A i \in DOMAIN t.tabs : GoodTab(t.tabs[i])
    BY <1>5, <1>6, <1>10 DEF Good
  <2>2. (t.tabs = <<>>) <=> (s.tabs = <<>>)
    BY <1>6, StripType DEF Good
  <2>3. GoodStrip(t)
    BY <1>6, <1>7, <1>11, <2>2 DEF Good, GoodStrip, HasTab
  <2>4. GoodQueues(t)
    BY <1>6, <1>7, <1>11 DEF Good, GoodQueues
  <2>. QED BY <1>6, <2>1, <2>3, <2>4 DEF Good
<1>13. CASE Len(t.control) < ControlCap
  <2>1. AskWorker(t, path, password) = u
    BY <1>7, <1>13 DEF AskWorker
  <2>2. s.active \in TabIds /\ s.active <= s.nextId
    BY <1>1, <1>8 DEF Tab, Good, GoodStrip
  <2>3. c \in Command /\ c.type = "open" /\ c.doc = s.active /\ c.path = path
    BY <2>2 DEF Command
  <2> HIDE DEF c
  <2>4. t.control \in Seq(Command) /\ DOMAIN t.control = 1..Len(t.control) /\ Len(t.control) \in Nat
    BY <1>6, StripType
  <2>5. /\ Append(t.control, c) \in Seq(Command)
        /\ Len(Append(t.control, c)) = Len(t.control) + 1
        /\ \A k \in 1..Len(t.control) : Append(t.control, c)[k] = t.control[k]
        /\ Append(t.control, c)[Len(t.control) + 1] = c
    BY <2>3, <2>4, AppendProperties
  <2>6. /\ u \in State /\ u.control = Append(t.control, c) /\ u.tabs = t.tabs
        /\ u.active = t.active /\ u.nextId = t.nextId /\ u.low = t.low
    BY <1>6, <2>5 DEF State
  <2> HIDE DEF u
  <2>7. /\ DOMAIN u.control = 1..(Len(t.control) + 1) /\ Len(u.control) = Len(t.control) + 1
        /\ \A k \in DOMAIN u.control : \/ k \in DOMAIN t.control /\ u.control[k] = t.control[k]
                                       \/ u.control[k] = c
        /\ \A k \in DOMAIN t.control : k \in DOMAIN u.control /\ u.control[k] = t.control[k]
        /\ Len(t.control) + 1 \in DOMAIN u.control /\ u.control[Len(t.control) + 1] = c
    <3>1. DOMAIN u.control = 1..(Len(t.control) + 1) /\ Len(u.control) = Len(t.control) + 1
      BY <2>4, <2>5, <2>6
    <3>2. \A k \in DOMAIN u.control : k \in DOMAIN t.control \/ k = Len(t.control) + 1
      BY <2>4, <3>1
    <3>3. \A k \in DOMAIN t.control : k \in DOMAIN u.control /\ u.control[k] = t.control[k]
      BY <2>4, <2>5, <2>6, <3>1
    <3>4. Len(t.control) + 1 \in DOMAIN u.control /\ u.control[Len(t.control) + 1] = c
      BY <2>4, <2>5, <2>6, <3>1
    <3>. QED BY <3>1, <3>2, <3>3, <3>4
  <2>8. Good(u)
    <3>1. GoodStrip(u)
      BY <1>12, <2>6 DEF Good, GoodStrip, HasTab
    <3>2. Len(u.control) <= ControlCap
      BY <1>2, <1>13, <2>4, <2>7
    <3>3. \A i \in DOMAIN u.tabs : u.tabs[i].id = s.active => u.tabs[i].path = path
      BY <1>3, <1>6, <1>8, <1>9, <1>10, <1>11, <2>6
    <3>4. GoodQueues(u)
      BY <1>7, <1>12, <2>2, <2>3, <2>6, <2>7, <3>2, <3>3 DEF Good, GoodQueues
    <3>. QED BY <1>12, <2>6, <3>1, <3>4 DEF Good
  <2>9. Follows(s, u)
    <3>1. s.nextId \in Nat
      BY DEF Good, State
    <3>2. Asked(u, s.active)
      BY <2>3, <2>7 DEF Asked, Concerns
    <3>. QED BY <1>6, <1>7, <1>8, <1>10, <1>11, <2>6, <2>7, <3>1, <3>2 DEF Follows
  <2>10. Carries(s, u, 0)
    BY <1>6, <1>9, <1>11, <2>6 DEF Carries
  <2>. QED BY <1>4, <2>1, <2>8, <2>9, <2>10 DEF Steps
<1>14. CASE ~ (Len(t.control) < ControlCap)
  <2> DEFINE doc == IF tab.doc.pages > 0 THEN [tab.doc EXCEPT !.state = "ready"] ELSE NoDocument
             back == [tab EXCEPT !.doc = doc]
  <2>1. HasTab(t, s.active) /\ TabOf(t, s.active) = tab
    <3>1. a \in DOMAIN t.tabs /\ t.tabs[a].id = s.active /\ t.tabs[a] = tab
      BY <1>3, <1>6, <1>8, <1>10
    <3>2. HasTab(t, s.active)
      BY <3>1 DEF HasTab
    <3>. QED BY <1>12, <3>1, <3>2, TabFound DEF Good
  <2>2. AskWorker(t, path, password) = WithTab(t, back)
    BY <1>7, <1>14, <2>1 DEF AskWorker, CancelOpen, Becomes, SetDocument
  <2>3. /\ doc \in [state : States, pages : 0..MaxPages]
        /\ doc.pages > 0 => doc.pages = tab.doc.pages
        /\ tab.doc.pages > 0 => doc.pages > 0
        /\ doc.state \in {"ready", "none"}
        /\ doc.state = "ready" => doc.pages > 0
    <3>1. 0 \in 0..MaxPages
      BY Constants, ViewerAssumption
    <3>. QED BY <1>3, <3>1 DEF Tab, NoDocument, States
  <2> HIDE DEF doc
  <2>4. back \in Tab /\ back.id = s.active /\ back.path = path /\ back.doc = doc
    BY <1>3, <2>3 DEF Tab
  <2> HIDE DEF back
  <2>5. GoodTab(back)
    BY <1>2, <1>3, <1>5, <2>3, <2>4 DEF GoodTab
  <2>6. Steps(t, WithTab(t, back), 0)
    BY <1>3, <1>12, <2>1, <2>3, <2>4, <2>5, RetabSteps
  <2> DEFINE w == WithTab(t, back)
  <2>7. /\ w \in State /\ w = [t EXCEPT !.tabs = w.tabs] /\ DOMAIN w.tabs = DOMAIN t.tabs
        /\ \A i \in DOMAIN t.tabs : w.tabs[i] = IF t.tabs[i].id = back.id THEN back ELSE t.tabs[i]
    BY <1>6, <2>4, Retabbed
  <2>8. w.nextId = t.nextId /\ w.control = t.control
    BY <1>6, <2>7 DEF State
  <2> HIDE DEF w
  <2>9. \A i \in DOMAIN s.tabs : w.tabs[i] = IF i = a THEN back ELSE s.tabs[i]
    BY <1>6, <1>8, <1>9, <1>10, <1>11, <2>4, <2>7
  <2>10. Follows(s, w)
    <3>1. s.nextId \in Nat
      BY DEF Good, State
    <3>2. \A i \in DOMAIN s.tabs : w.tabs[i].id = s.tabs[i].id /\ w.tabs[i].path = s.tabs[i].path
      BY <1>3, <1>8, <1>10, <1>11, <2>4, <2>9
    <3>3. \A i \in DOMAIN s.tabs :
            w.tabs[i].doc.state = "opening" => s.tabs[i].doc.state = "opening"
      <4>1. back.doc.state # "opening"
        BY <2>3, <2>4
      <4>. QED BY <2>9, <4>1
    <3>. QED BY <1>6, <1>7, <2>7, <2>8, <3>1, <3>2, <3>3 DEF Follows
  <2>11. Carries(s, w, 0)
    BY <1>3, <1>6, <1>8, <1>9, <1>10, <1>11, <2>3, <2>4, <2>7, <2>9 DEF Carries
  <2>. QED BY <1>4, <2>2, <2>6, <2>10, <2>11 DEF Steps, w
<1>. QED BY <1>4, <1>13, <1>14

LEMMA BeginOpenSteps ==
  ASSUME NEW s, Good(s), NEW path \in Paths, NEW password \in Passwords
  PROVE  Steps(s, BeginOpen(s, path, password), 0)
<1> DEFINE quiet == [s EXCEPT !.dialog = FALSE]
           kept == Snapshot(quiet)
           opened == Open(kept, path)
           shown == Restore(opened)
<1>1. Steps(s, quiet, 0)
  BY ClearWindow, WindowSteps
<1>2. Steps(quiet, kept, 0)
  BY <1>1, SnapshotSteps DEF Steps
<1>3. /\ Steps(kept, opened, 0)
      /\ HasPath(opened, path) => opened.active # 0 /\ ActiveTab(opened).path = path
  BY <1>2, OpenSteps DEF Steps
<1>4. BeginOpen(s, path, password) =
        IF HasPath(opened, path)
        THEN AskWorker(Becomes(shown, shown.active, "opening"), path, password) ELSE opened
  BY DEF BeginOpen
<1>5. Window(opened, shown) /\ Steps(opened, shown, 0)
  BY <1>3, RestoreWindow, WindowSteps DEF Steps
<1> HIDE DEF quiet, kept, opened, shown
<1>6. Steps(s, opened, 0)
  BY <1>1, <1>2, <1>3, StepsTransitive DEF Steps
<1>7. CASE HasPath(opened, path)
  <2>1. shown.active # 0 /\ ActiveTab(shown).path = path
    BY <1>3, <1>5, <1>7 DEF Window, ActiveTab, TabOf, PositionOf
  <2>2. Steps(shown, AskWorker(Becomes(shown, shown.active, "opening"), path, password), 0)
    BY <1>5, <2>1, AskSteps DEF Steps
  <2>3. Steps(s, shown, 0)
    BY <1>5, <1>6, StepsTransitive
  <2>. QED BY <1>4, <1>7, <2>2, <2>3, StepsTransitive
<1>8. CASE ~ HasPath(opened, path)
  BY <1>4, <1>6, <1>8
<1>. QED BY <1>7, <1>8

LEMMA NewEmptySteps ==
  ASSUME NEW s, Good(s)
  PROVE  Steps(s, NewEmpty(s), 0)
BY StepsReflexive, GrownSteps DEF NewEmpty

\* A tab leaves the strip, and a neighbour takes its place if it was active.
LEMMA CloseSteps ==
  ASSUME NEW s, Good(s), NEW id, HasTab(s, id)
  PROVE  Steps(s, Close(s, id), 0)
<1> DEFINE at == PositionOf(s, id)
           rest == SubSeq(s.tabs, 1, at - 1) \o SubSeq(s.tabs, at + 1, Len(s.tabs))
           heir == IF rest = <<>> THEN 0 ELSE rest[IF at <= Len(rest) THEN at ELSE Len(rest)].id
           t == Close(s, id)
<1>1. /\ at \in 1..Len(s.tabs) /\ s.tabs \in Seq(Tab) /\ DOMAIN s.tabs = 1..Len(s.tabs)
      /\ Len(s.tabs) \in Nat
      /\ \A i \in DOMAIN s.tabs : s.tabs[i].id = id <=> i = at
  BY StripType, TabFound DEF Good
<1>2. t = [s EXCEPT !.tabs = rest, !.active = IF s.active = id THEN heir ELSE s.active]
  BY DEF Close, Good, State
<1>0. rest = Removed(s.tabs, at)
  BY DEF Removed
<1> HIDE DEF at, rest, heir, t
<1>3. /\ rest \in Seq(Tab) /\ Len(rest) = Len(s.tabs) - 1
      /\ \A k \in 1..Len(rest) : rest[k] = IF k < at THEN s.tabs[k] ELSE s.tabs[k + 1]
  <2>1. s.tabs \in Seq(Tab) /\ at \in 1..Len(s.tabs)
    BY <1>1
  <2>. QED BY <2>1, <1>0, RemovalType, RemovalElements
<1>4. DOMAIN rest = 1..Len(rest) /\ Len(rest) \in Nat
  BY <1>3
<1> DEFINE was(k) == IF k < at THEN k ELSE k + 1
<1>5. /\ \A k \in DOMAIN rest : was(k) \in DOMAIN s.tabs /\ was(k) # at /\ rest[k] = s.tabs[was(k)]
      /\ \A j, k \in DOMAIN rest : was(j) = was(k) => j = k
  BY <1>1, <1>3, <1>4
<1>6. \A i \in DOMAIN s.tabs : i # at => \E k \in DOMAIN rest : was(k) = i
  <2> SUFFICES ASSUME NEW i \in DOMAIN s.tabs, i # at
               PROVE  \E k \in DOMAIN rest : was(k) = i
    OBVIOUS
  <2> DEFINE k == IF i < at THEN i ELSE i - 1
  <2>1. k \in DOMAIN rest /\ was(k) = i
    BY <1>1, <1>3, <1>4
  <2>. QED BY <2>1
<1> HIDE DEF was
<1>7. rest # <<>> => \E k \in DOMAIN rest : heir = rest[k].id
  <2> SUFFICES ASSUME rest # <<>> PROVE \E k \in DOMAIN rest : heir = rest[k].id
    OBVIOUS
  <2> DEFINE k == IF at <= Len(rest) THEN at ELSE Len(rest)
  <2>1. Len(rest) # 0
    BY <1>3
  <2>2. k \in DOMAIN rest
    BY <1>1, <1>4, <2>1
  <2>. QED BY <2>2 DEF heir
<1>8. rest = <<>> => heir = 0
  BY DEF heir
<1>9. heir \in 0..MaxTabId
  <2>1. 0 \in 0..MaxTabId /\ \A k \in DOMAIN rest : rest[k].id \in 0..MaxTabId
    <3>1. \A k \in DOMAIN rest : rest[k] \in Tab
      BY <1>3, <1>4
    <3>2. MaxTabId \in Nat
      BY Constants, ViewerAssumption
    <3>. QED BY <3>1, <3>2 DEF Tab, TabIds
  <2>. QED BY <1>7, <1>8, <2>1
<1>10. /\ t \in State /\ t.tabs = rest /\ t.nextId = s.nextId /\ t.control = s.control
       /\ t.low = s.low /\ t.active = IF s.active = id THEN heir ELSE s.active
  BY <1>2, <1>3, <1>9 DEF Good, State
<1>11. Good(t)
  <2>1. \A k \in DOMAIN rest : GoodTab(rest[k])
    BY <1>5 DEF Good
  <2>2. \A j, k \in DOMAIN rest : rest[j].id = rest[k].id => j = k
    BY <1>5 DEF Good, GoodStrip
  <2>3. \A j, k \in DOMAIN rest : rest[j].path = rest[k].path => j = k \/ rest[j].path = NoPath
    BY <1>5 DEF Good, GoodStrip
  <2>4. \A k \in DOMAIN rest : rest[k].id <= s.nextId
    BY <1>5 DEF Good, GoodStrip
  <2>5. IF rest = <<>> THEN t.active = 0 ELSE HasTab(t, t.active)
    <3>1. CASE rest = <<>>
      <4>1. at = 1 /\ Len(s.tabs) = 1
        BY <1>1, <1>3, <3>1
      <4>2. HasTab(s, s.active)
        BY <1>1, <4>1 DEF Good, GoodStrip
      <4>3. s.active = id
        BY <1>1, <4>1, <4>2 DEF HasTab
      <4>. QED BY <1>8, <1>10, <3>1, <4>3
    <3>2. CASE rest # <<>> /\ s.active = id
      BY <1>7, <1>10, <3>2 DEF HasTab
    <3>3. CASE rest # <<>> /\ s.active # id
      <4>1. s.tabs # <<>>
        BY <1>1
      <4>2. PICK i \in DOMAIN s.tabs : s.tabs[i].id = s.active
        BY <4>1 DEF Good, GoodStrip, HasTab
      <4>3. i # at
        BY <1>1, <3>3, <4>2
      <4>4. PICK k \in DOMAIN rest : was(k) = i
        BY <1>6, <4>3
      <4>5. rest[k].id = s.active
        BY <1>5, <4>2, <4>4
      <4>. QED BY <1>10, <3>3, <4>5 DEF HasTab
    <3>. QED BY <3>1, <3>2, <3>3
  <2>6. Len(rest) <= MaxTabs
    BY <1>1, <1>3, Constants, ViewerAssumption DEF Good, GoodStrip
  <2>7. GoodStrip(t)
    BY <1>10, <2>2, <2>3, <2>4, <2>5, <2>6 DEF GoodStrip
  <2>8. GoodQueues(t)
    BY <1>5, <1>10 DEF Good, GoodQueues
  <2>. QED BY <1>10, <2>1, <2>7, <2>8 DEF Good
<1>12. Follows(s, t)
  <2>1. s.nextId \in Nat
    BY DEF Good, State
  <2>. QED BY <1>5, <1>10, <2>1 DEF Follows
<1>13. Carries(s, t, 0)
  BY <1>5, <1>10 DEF Carries, Good, GoodStrip
<1>. QED BY <1>11, <1>12, <1>13 DEF Steps, t

\* The command that closes the document shown, or none.
LEMMA AskCloseSteps ==
  ASSUME NEW s, Good(s)
  PROVE  Steps(s, AskClose(s), 0) /\ AskClose(s).tabs = s.tabs /\ AskClose(s).active = s.active
<1>1. CASE ~ (Showing(s) /\ Len(s.control) < ControlCap)
  <2>1. AskClose(s) = s
    BY <1>1 DEF AskClose
  <2>. QED BY <2>1, StepsReflexive
<1>2. CASE Showing(s) /\ Len(s.control) < ControlCap
  <2> DEFINE c == [type |-> "close", doc |-> s.active]
             t == [s EXCEPT !.control = Append(s.control, c)]
  <2>1. AskClose(s) = t
    BY <1>2 DEF AskClose
  <2>2. ActiveTab(s) \in Tab /\ ActiveTab(s).id = s.active
    BY <1>2, ActiveFound DEF Showing
  <2>3. c \in Command /\ c.type = "close"
    BY <2>2 DEF Command, Tab
  <2> HIDE DEF c
  <2>4. s.control \in Seq(Command) /\ DOMAIN s.control = 1..Len(s.control) /\ Len(s.control) \in Nat
    BY StripType DEF Good
  <2>5. /\ Append(s.control, c) \in Seq(Command)
        /\ Len(Append(s.control, c)) = Len(s.control) + 1
        /\ \A k \in 1..Len(s.control) : Append(s.control, c)[k] = s.control[k]
        /\ Append(s.control, c)[Len(s.control) + 1] = c
    BY <2>3, <2>4, AppendProperties
  <2>6. /\ t \in State /\ t.control = Append(s.control, c) /\ t.tabs = s.tabs
        /\ t.active = s.active /\ t.nextId = s.nextId /\ t.low = s.low
    BY <2>5 DEF Good, State
  <2> HIDE DEF t
  <2>7. DOMAIN t.control = 1..(Len(s.control) + 1) /\ Len(t.control) = Len(s.control) + 1
    BY <2>4, <2>5, <2>6
  <2>8. \A k \in DOMAIN t.control :
          (k \in DOMAIN s.control /\ t.control[k] = s.control[k]) \/ t.control[k] = c
    BY <2>4, <2>5, <2>6, <2>7
  <2>9. \A k \in DOMAIN s.control : k \in DOMAIN t.control /\ t.control[k] = s.control[k]
    BY <2>4, <2>5, <2>6, <2>7
  <2>10. Good(t)
    <3>1. GoodStrip(t)
      BY <2>6 DEF Good, GoodStrip, HasTab
    <3>2. Len(t.control) <= ControlCap
      BY <1>2, <2>4, <2>7, Constants, ViewerAssumption
    <3>3. GoodQueues(t)
      BY <2>3, <2>6, <2>8, <3>2 DEF Good, GoodQueues
    <3>. QED BY <2>6, <3>1, <3>3 DEF Good
  <2>11. Follows(s, t)
    <3>1. s.nextId \in Nat
      BY DEF Good, State
    <3>. QED BY <2>6, <2>9, <3>1 DEF Follows
  <2>12. Carries(s, t, 0)
    BY <2>6 DEF Carries, Good, GoodStrip
  <2>. QED BY <2>1, <2>6, <2>10, <2>11, <2>12 DEF Steps
<1>. QED BY <1>1, <1>2

\* The open is answered: the tab is ready, and what it shows is laid out.
LEMMA ReadySteps ==
  ASSUME NEW s, Good(s), NEW id, HasTab(s, id), TabOf(s, id).path \in Paths,
         NEW pages \in 1..MaxPages, HasVersion(TabOf(s, id).path, pages)
  PROVE  Steps(s, Ready(s, id, pages), 0) /\ Settled(Ready(s, id, pages), id)
<1> DEFINE layout == [doc |-> id, pages |-> pages, next |-> 1]
           page == IF ActiveTab(s).page < pages THEN ActiveTab(s).page ELSE pages - 1
           doc == [state |-> "ready", pages |-> pages]
           d == SetDocument(s, id, doc)
           r == Watch(d, TabOf(s, id).path)
           m == [r EXCEPT !.page = page, !.shown = layout, !.asking = FALSE, !.dialog = FALSE]
           tab == [ActiveTab(r) EXCEPT !.layout = layout]
           w == WithTab(m, tab)
<1>1. /\ MaxPages \in Nat /\ MaxTabId \in Nat /\ NoPath \notin Paths
      /\ TabOf(s, id) \in Tab /\ TabOf(s, id).id = id
  BY Constants, ViewerAssumption, TabFound DEF Good
<1>2. s.active # 0
  BY SomeActive
<1>3. ActiveTab(s).page \in 0..MaxPages /\ id \in 0..MaxTabId
  BY <1>1, <1>2, ActiveFound DEF Tab, TabIds
<1>4. layout \in Layout /\ page \in 0..MaxPages /\ page \in Nat
  BY <1>1, <1>3 DEF Layout
<1>5. Ready(s, id, pages) = GoTo(w, page)
  BY DEF Ready
<1> HIDE DEF page, layout
<1>6. Steps(s, d, 0) /\ Settled(d, id) /\ d.active = s.active
  <2>1. doc \in [state : States \ {"opening"}, pages : 0..MaxPages] /\ doc.pages > 0
        /\ doc.pages = pages
    BY <1>1 DEF States
  <2> HIDE DEF doc
  <2>2. TabOf(s, id).path # NoPath
    BY <1>1
  <2>. QED BY <2>1, <2>2, DocumentSteps
<1> HIDE DEF d
<1>7. Window(d, r) /\ Steps(d, r, 0)
  BY <1>6, WatchWindow, WindowSteps DEF Steps
<1> HIDE DEF r
<1>8. Window(r, m)
  BY <1>4, <1>7 DEF Window, Steps, Good, GoodQueues, State
<1> HIDE DEF m
<1>9. Steps(r, m, 0)
  BY <1>7, <1>8, WindowSteps DEF Steps
<1>10. Steps(s, m, 0)
  BY <1>6, <1>7, <1>9, StepsTransitive
<1>11. Settled(m, id) /\ m.active = s.active /\ ActiveTab(m) = ActiveTab(r)
  BY <1>6, <1>7, <1>8 DEF Window, Settled, ActiveTab, TabOf, PositionOf
<1>12. /\ HasTab(m, m.active) /\ ActiveTab(m) \in Tab /\ ActiveTab(m).id = m.active
       /\ GoodTab(ActiveTab(m)) /\ ActiveTab(m) = TabOf(m, m.active)
  BY <1>2, <1>10, <1>11, ActiveFound DEF Steps, ActiveTab
<1>13. /\ tab \in Tab /\ tab.id = m.active /\ tab.path = ActiveTab(m).path
       /\ tab.doc = ActiveTab(m).doc
  BY <1>4, <1>11, <1>12 DEF Tab
<1> HIDE DEF tab
<1>14. GoodTab(tab)
  BY <1>12, <1>13 DEF GoodTab
<1>15. Steps(m, w, 0) /\ Settled(w, id)
  BY <1>10, <1>11, <1>12, <1>13, <1>14, RetabSteps DEF Steps
<1> HIDE DEF w
<1>16. Window(w, GoTo(w, page))
  BY <1>4, <1>15, GoToWindow DEF Steps
<1>17. Steps(w, GoTo(w, page), 0)
  BY <1>15, <1>16, WindowSteps DEF Steps
<1>18. Settled(GoTo(w, page), id)
  BY <1>15, <1>16 DEF Settled, Window
<1>. QED BY <1>5, <1>10, <1>15, <1>17, <1>18, StepsTransitive

\* A tab that does not wait for an answer is not opening.
LEMMA NotPending ==
  ASSUME NEW s, Good(s), NEW id, ~ IsPending(s, id)
  PROVE  Settled(s, id)
<1>1. CASE ~ HasTab(s, id)
  BY <1>1 DEF HasTab, Settled
<1>2. CASE HasTab(s, id)
  BY <1>2, TabFound DEF Good, Settled, IsPending
<1>. QED BY <1>1, <1>2

\* A tab that waits for an answer has a path.
LEMMA PendingPath ==
  ASSUME NEW s, Good(s), NEW id, IsPending(s, id)
  PROVE  HasTab(s, id) /\ TabOf(s, id).path \in Paths
<1>1. HasTab(s, id) /\ TabOf(s, id).doc.state \in {"opening", "password"}
  BY DEF IsPending
<1>2. TabOf(s, id) \in Tab /\ GoodTab(TabOf(s, id))
  BY <1>1, TabFound DEF Good, TabOf
<1>. QED BY <1>1, <1>2 DEF Tab, GoodTab, NoDocument

\* The answer of the worker that a document is open.
LEMMA OpenedSteps ==
  ASSUME NEW s, Good(s), NEW id, NEW pages \in Nat \ {0},
         HasTab(s, id) => HasVersion(TabOf(s, id).path, pages)
  PROVE  Steps(s, Opened(s, id, pages), 0) /\ Settled(Opened(s, id, pages), id)
<1>1. CASE ~ IsPending(s, id)
  BY <1>1, NotPending, StepsReflexive DEF Opened
<1>2. CASE IsPending(s, id)
  <2>1. HasTab(s, id) /\ TabOf(s, id).path \in Paths /\ NoPath \notin Paths /\ MaxPages \in Nat
    BY <1>2, PendingPath, Constants, ViewerAssumption
  <2>2. CASE pages > MaxPages
    <3>1. Opened(s, id, pages) = Becomes(s, id, "failed")
      BY <1>2, <2>2 DEF Opened
    <3>2. TabOf(s, id).path # NoPath
      BY <2>1
    <3>. QED BY <2>1, <3>1, <3>2, BecomesSteps
  <2>3. CASE ~ (pages > MaxPages)
    <3>1. Opened(s, id, pages) = Ready(s, id, pages) /\ pages \in 1..MaxPages
      BY <1>2, <2>1, <2>3 DEF Opened
    <3>. QED BY <2>1, <3>1, ReadySteps
  <2>. QED BY <2>2, <2>3
<1>. QED BY <1>1, <1>2

-----------------------------------------------------------------------------
(* What the user does, and the answers *)

LEMMA NewBlankTabSteps ==
  ASSUME Good(app), NewBlankTab
  PROVE  Steps(app, app', 0)
<1> DEFINE kept == Snapshot(app)
           asked == ClearTransients(kept)
           grown == NewEmpty(asked)
           back == Restore(grown)
<1>1. Steps(app, kept, 0)
  BY SnapshotSteps
<1>2. Steps(kept, asked, 0)
  BY <1>1, ClearWindow, WindowSteps DEF Steps
<1>3. Steps(asked, grown, 0)
  BY <1>2, NewEmptySteps DEF Steps
<1>4. Steps(grown, back, 0)
  BY <1>3, RestoreWindow, WindowSteps DEF Steps
<1>5. Steps(back, Reset(back), 0)
  BY <1>4, ResetWindow, WindowSteps DEF Steps
<1>6. app' = IF CanGrow(asked) THEN Reset(back) ELSE asked
  BY DEF NewBlankTab
<1> HIDE DEF kept, asked, grown, back
<1>7. Steps(app, asked, 0)
  BY <1>1, <1>2, StepsTransitive
<1>8. Steps(app, Reset(back), 0)
  <2>1. Steps(app, grown, 0)
    BY <1>3, <1>7, StepsTransitive
  <2>2. Steps(app, back, 0)
    BY <1>4, <2>1, StepsTransitive
  <2>. QED BY <1>5, <2>2, StepsTransitive
<1>. QED BY <1>6, <1>7, <1>8

\* Another tab comes to the front, and its document with it unless its file is gone.
LEMMA ActivateTabSteps ==
  ASSUME Good(app), NEW id, ActivateTab(id)
  PROVE  \/ Steps(app, app', 0)
         \/ /\ Steps(app, app', id) /\ app'.active = id /\ app.active # id
            /\ disk[TabOf(app, id).path] = 0
<1> DEFINE kept == Snapshot(app)
           clear == ClearTransients(kept)
           front == [clear EXCEPT !.active = id]
           s == Restore(front)
           tab == TabOf(app, id)
<1>1. Steps(app, kept, 0)
  BY SnapshotSteps
<1>2. Window(kept, clear)
  BY <1>1, ClearWindow DEF Steps
<1>3. Steps(kept, clear, 0)
  BY <1>1, <1>2, WindowSteps DEF Steps
<1>0. HasTab(app, id) /\ app.active # id
  BY DEF ActivateTab
<1>4. \A i \in DOMAIN app.tabs :
        i \in DOMAIN kept.tabs /\ kept.tabs[i].id = app.tabs[i].id
        /\ kept.tabs[i].path = app.tabs[i].path /\ kept.tabs[i].doc = app.tabs[i].doc
  BY SnapshotKeeps
<1>5. /\ HasTab(clear, id) /\ TabOf(clear, id).path = tab.path /\ TabOf(clear, id).doc = tab.doc
  <2>1. PICK i \in DOMAIN app.tabs : app.tabs[i].id = id /\ app.tabs[i] = tab
    BY <1>0, TabFound DEF Good
  <2> HIDE DEF kept, clear
  <2>2. i \in DOMAIN clear.tabs /\ clear.tabs[i].id = id /\ clear.tabs[i].path = tab.path
        /\ clear.tabs[i].doc = tab.doc
    BY <1>2, <1>4, <2>1 DEF Window
  <2>3. HasTab(clear, id)
    BY <2>2 DEF HasTab
  <2>. QED BY <1>3, <2>2, <2>3, TabFound DEF Steps, Good
<1>6. Activate(clear, id) = front
  BY <1>5 DEF Activate
<1>7. /\ Steps(clear, front, 0) /\ id # 0 /\ ActiveTab(front) = TabOf(clear, id)
  BY <1>3, <1>5, FrontSteps DEF Steps
<1>8. Window(front, s)
  BY <1>7, RestoreWindow DEF Steps
<1>9. Steps(front, s, 0)
  BY <1>7, <1>8, WindowSteps DEF Steps
<1>10. front.active = id
  BY <1>3 DEF Steps, Good, State
<1>11. app' = IF tab.doc.state = "ready" THEN RequestBatch(Watch(s, tab.path))
              ELSE IF tab.path = NoPath THEN Reset(s)
              ELSE IF disk[tab.path] # 0 THEN BeginOpen(s, tab.path, "none")
              ELSE Reset(SetDocument(s, id, [state |-> "failed", pages |-> 0]))
  BY <1>6 DEF ActivateTab
<1> HIDE DEF kept, clear, front, s
<1>12. /\ s.active = id /\ HasTab(s, id) /\ TabOf(s, id).path = tab.path
       /\ TabOf(s, id).doc = tab.doc
  BY <1>5, <1>7, <1>8, <1>10, ActiveFound DEF Steps, Window, ActiveTab, TabOf, PositionOf, HasTab
<1>13. Steps(app, s, 0)
  <2>1. Steps(app, clear, 0)
    BY <1>1, <1>3, StepsTransitive
  <2>2. Steps(app, front, 0)
    BY <1>7, <2>1, StepsTransitive
  <2>. QED BY <1>9, <2>2, StepsTransitive
<1>14. tab \in Tab /\ GoodTab(tab) /\ NoPath \notin Paths
  <2>1. tab \in Tab /\ GoodTab(tab)
    BY <1>0, TabFound DEF Good, TabOf
  <2>. QED BY <2>1, Constants, ViewerAssumption
<1>15. CASE tab.doc.state = "ready"
  <2>1. tab.path \in Paths
    BY <1>14, <1>15 DEF Tab, GoodTab, NoDocument
  <2>2. Window(s, Watch(s, tab.path)) /\ Steps(s, Watch(s, tab.path), 0)
    BY <1>13, <2>1, WatchWindow, WindowSteps DEF Steps
  <2> DEFINE w == Watch(s, tab.path)
  <2>3. w.active # 0
    BY <1>7, <1>12, <2>2 DEF Window
  <2>4. app' = RequestBatch(w)
    BY <1>11, <1>15
  <2> HIDE DEF w
  <2>5. Steps(s, w, 0)
    BY <2>2 DEF w
  <2>6. Steps(w, RequestBatch(w), 0)
    BY <2>3, <2>5, BatchWindow, WindowSteps DEF Steps
  <2>7. Steps(app, w, 0)
    BY <1>13, <2>5, StepsTransitive
  <2>. QED BY <2>4, <2>6, <2>7, StepsTransitive
<1>16. CASE tab.doc.state # "ready" /\ tab.path = NoPath
  <2>1. Steps(s, Reset(s), 0)
    BY <1>13, ResetWindow, WindowSteps DEF Steps
  <2>. QED BY <1>11, <1>13, <1>16, <2>1, StepsTransitive
<1>17. CASE tab.doc.state # "ready" /\ tab.path # NoPath /\ disk[tab.path] # 0
  <2>1. tab.path \in Paths
    BY <1>14, <1>17 DEF Tab
  <2>2. Steps(s, BeginOpen(s, tab.path, "none"), 0)
    BY <1>13, <2>1, BeginOpenSteps DEF Steps, Passwords
  <2>. QED BY <1>11, <1>13, <1>17, <2>2, StepsTransitive
<1>18. CASE tab.doc.state # "ready" /\ tab.path # NoPath /\ disk[tab.path] = 0
  <2> DEFINE doc == [state |-> "failed", pages |-> 0]
             t == SetDocument(s, id, doc)
  <2>1. doc \in [state : States \ {"opening"}, pages : 0..MaxPages] /\ doc.state # "ready"
        /\ ~ (doc.pages > 0)
    BY Constants, ViewerAssumption DEF States
  <2>2. app' = Reset(t)
    BY <1>11, <1>18
  <2> HIDE DEF doc
  <2>3. Steps(s, t, id) /\ t.active = id
    BY <1>12, <1>13, <1>18, <2>1, DocumentSteps DEF Steps
  <2> HIDE DEF t
  <2>4. Window(t, Reset(t)) /\ Steps(t, Reset(t), id)
    BY <2>3, ResetWindow, WindowSteps DEF Steps
  <2>5. Steps(app, s, id)
    BY <1>13, CarriesAll
  <2>6. Steps(app, Reset(t), id)
    BY <2>3, <2>4, <2>5, StepsTransitive
  <2>. QED BY <1>0, <1>18, <2>2, <2>3, <2>4, <2>6 DEF Window
<1>. QED BY <1>15, <1>16, <1>17, <1>18

\* The tab before the active one is gone, or the active one is and a neighbour's
\* document is opened again.
LEMMA CloseTabSteps ==
  ASSUME Good(app), NEW id, CloseTab(id)
  PROVE  Steps(app, app', 0)
<1> DEFINE kept == Snapshot(app)
           asked == AskClose(kept)
           clear == ClearTransients(asked)
           rest == Close(clear, id)
           closed == Restore(rest)
<1>0. HasTab(app, id)
  BY DEF CloseTab
<1>1. Steps(app, kept, 0)
  BY SnapshotSteps
<1>2. Steps(kept, asked, 0) /\ asked.tabs = kept.tabs
  BY <1>1, AskCloseSteps DEF Steps
<1>3. Window(asked, clear) /\ Steps(asked, clear, 0)
  BY <1>2, ClearWindow, WindowSteps DEF Steps
<1>4. HasTab(kept, id)
  BY <1>0, SnapshotKeeps DEF HasTab
<1>5. app' = IF app.active # id THEN Close(app, id)
             ELSE IF closed.active = 0 THEN Reset(closed)
             ELSE IF ActiveTab(closed).path = NoPath THEN closed
             ELSE BeginOpen(closed, ActiveTab(closed).path, "none")
  BY DEF CloseTab
<1> HIDE DEF kept, asked, clear
<1>6. HasTab(clear, id)
  BY <1>2, <1>3, <1>4 DEF Window, HasTab
<1>7. Steps(clear, rest, 0)
  BY <1>3, <1>6, CloseSteps DEF Steps
<1> HIDE DEF rest
<1>8. Steps(rest, closed, 0)
  BY <1>7, RestoreWindow, WindowSteps DEF Steps
<1> HIDE DEF closed
<1>9. Steps(app, closed, 0)
  <2>1. Steps(app, asked, 0)
    BY <1>1, <1>2, StepsTransitive
  <2>2. Steps(app, clear, 0)
    BY <1>3, <2>1, StepsTransitive
  <2>3. Steps(app, rest, 0)
    BY <1>7, <2>2, StepsTransitive
  <2>. QED BY <1>8, <2>3, StepsTransitive
<1>10. CASE app.active # id
  BY <1>0, <1>5, <1>10, CloseSteps
<1>11. CASE app.active = id /\ closed.active = 0
  <2>1. Steps(closed, Reset(closed), 0)
    BY <1>9, ResetWindow, WindowSteps DEF Steps
  <2>. QED BY <1>5, <1>9, <1>11, <2>1, StepsTransitive
<1>12. CASE app.active = id /\ closed.active # 0 /\ ActiveTab(closed).path = NoPath
  BY <1>5, <1>9, <1>12
<1>13. CASE app.active = id /\ closed.active # 0 /\ ActiveTab(closed).path # NoPath
  <2> DEFINE path == ActiveTab(closed).path
  <2>1. path \in Paths
    BY <1>9, <1>13, ActiveFound DEF Steps, Tab
  <2>2. app' = BeginOpen(closed, path, "none")
    BY <1>5, <1>13
  <2> HIDE DEF path
  <2>3. Steps(closed, BeginOpen(closed, path, "none"), 0)
    BY <1>9, <2>1, BeginOpenSteps DEF Steps, Passwords
  <2>. QED BY <1>9, <2>2, <2>3, StepsTransitive
<1>. QED BY <1>10, <1>11, <1>12, <1>13

\* The active tab's own document is opened again.
LEMMA UnlockSteps ==
  ASSUME Good(app), NEW password \in Passwords, Unlock(password)
  PROVE  Steps(app, app', 0)
<1>1. ActiveTab(app).path \in Paths
  BY PendingPath DEF Unlock, ActiveTab
<1>. QED BY <1>1, BeginOpenSteps DEF Unlock

LEMMA RetrySteps ==
  ASSUME Good(app), Retry
  PROVE  Steps(app, app', 0)
<1>1. ActiveTab(app) \in Tab /\ GoodTab(ActiveTab(app)) /\ ActiveTab(app).doc.state = "failed"
  BY ActiveFound DEF Retry
<1>2. ActiveTab(app).path \in Paths
  BY <1>1 DEF Tab, GoodTab, NoDocument
<1>. QED BY <1>2, BeginOpenSteps DEF Retry, Passwords

LEMMA FileChangeSteps ==
  ASSUME Good(app), NEW path \in Paths, FileChange(path)
  PROVE  Steps(app, app', 0)
<1>1. Steps(app, Snapshot(app), 0)
  BY SnapshotSteps
<1>2. Steps(Snapshot(app), BeginOpen(Snapshot(app), path, "none"), 0)
  BY <1>1, BeginOpenSteps DEF Steps, Passwords
<1>3. Steps(app, BeginOpen(Snapshot(app), path, "none"), 0)
  BY <1>1, <1>2, StepsTransitive
<1>. QED BY <1>3, StepsReflexive DEF FileChange

\* At the start the saved tabs are opened one by one, and one is activated.
LEMMA RestoreTabSteps ==
  ASSUME Good(app), GoodWorld, RestoreTab
  PROVE  Steps(app, app', 0)
<1>1. Head(session) \in Paths
  BY DEF RestoreTab, GoodWorld
<1>. QED BY <1>1, BeginOpenSteps, StepsReflexive DEF RestoreTab, Passwords

LEMMA StartPumpSteps ==
  ASSUME Good(app), StartPump
  PROVE  Steps(app, app', 0)
<1>1. CASE UNCHANGED app
  BY <1>1, StepsReflexive
<1>2. ASSUME NEW i \in DOMAIN app.tabs, app' = Activate(app, app.tabs[i].id)
      PROVE  Steps(app, app', 0)
  <2>1. HasTab(app, app.tabs[i].id)
    BY DEF HasTab
  <2>. QED BY <1>2, <2>1, FrontSteps DEF Activate
<1>. QED BY <1>1, <1>2 DEF StartPump

\* What every callback of the user may do.
LEMMA UserSteps ==
  ASSUME Good(app), User
  PROVE  /\ \/ Steps(app, app', 0)
            \/ \E id \in TabIds : /\ Steps(app, app', id) /\ app'.active = id /\ app.active # id
                                  /\ disk[TabOf(app, id).path] = 0
         /\ UNCHANGED <<events, activeDocs, disk, changed, session, pumping>>
<1>1. UNCHANGED <<events, activeDocs, disk, changed, session, pumping>>
  BY DEF User, OpenFile, ActivateTab, CloseTab, NewBlankTab, NavigateTo, Unlock, CancelUnlock,
         Retry, UiOnly
<1>2. ASSUME NEW path \in Paths, OpenFile(path) PROVE Steps(app, app', 0)
  BY <1>2, BeginOpenSteps DEF OpenFile, Passwords
<1>3. ASSUME NEW page \in 0..MaxPages - 1, NavigateTo(page) PROVE Steps(app, app', 0)
  <2>1. page \in Nat
    BY Constants, ViewerAssumption
  <2>. QED BY <1>3, <2>1, GoToWindow, WindowSteps DEF NavigateTo
<1>4. CASE CancelUnlock
  BY <1>1, <1>4, ClearWindow, WindowSteps DEF CancelUnlock
<1>5. \A id \in TabIds : ActivateTab(id) => \/ Steps(app, app', 0)
                                          \/ /\ Steps(app, app', id) /\ app'.active = id
                                             /\ app.active # id /\ disk[TabOf(app, id).path] = 0
  BY ActivateTabSteps
<1>6. CASE \E id \in 1..MaxTabId : CloseTab(id)
  BY <1>1, <1>6, CloseTabSteps
<1>7. CASE NewBlankTab
  BY <1>1, <1>7, NewBlankTabSteps
<1>8. ASSUME NEW password \in Passwords, Unlock(password) PROVE Steps(app, app', 0)
  BY <1>8, UnlockSteps
<1>9. CASE Retry
  BY <1>1, <1>9, RetrySteps
<1>. QED BY <1>1, <1>2, <1>3, <1>4, <1>5, <1>6, <1>7, <1>8, <1>9 DEF User, TabIds

\* No tab of this id waits for an answer, unless for a password.
Quiet(s, id) ==
  \A i \in DOMAIN s.tabs :
    s.tabs[i].id = id => s.tabs[i].doc.state # "opening" \/ s.tabs[i].path \in Protected

\* The event that the pump handles.
LEMMA EventTaken ==
  ASSUME NEW s, GoodEvents(s, events), NEW type, TakesEvent(type)
  PROVE  /\ Head(events) \in Event /\ Head(events).type = type
         /\ Head(events) = events[1] /\ 1 \in DOMAIN events
<1>1. events \in Seq(Event) /\ events # <<>> /\ Head(events).type = type
  BY DEF GoodEvents, TakesEvent
<1> HIDE DEF Event
<1>. QED BY <1>1

LEMMA DocumentOpenedSteps ==
  ASSUME Good(app), GoodEvents(app, events), DocumentOpened
  PROVE  Steps(app, app', 0) /\ Quiet(app', Head(events).doc)
<1> DEFINE e == Head(events)
<1>1. /\ e \in Event /\ e.type = "opened" /\ e = events[1] /\ 1 \in DOMAIN events
  BY EventTaken DEF DocumentOpened
<1>2. app' = Opened(app, e.doc, e.pages)
  BY DEF DocumentOpened
<1> HIDE DEF e
<1>3. e.pages \in Nat \ {0}
  BY <1>1 DEF Event
<1>4. HasTab(app, e.doc) => HasVersion(TabOf(app, e.doc).path, e.pages)
  <2> SUFFICES ASSUME HasTab(app, e.doc) PROVE HasVersion(TabOf(app, e.doc).path, e.pages)
    OBVIOUS
  <2>1. PICK i \in DOMAIN app.tabs : app.tabs[i].id = e.doc /\ app.tabs[i] = TabOf(app, e.doc)
    BY TabFound DEF Good
  <2>. QED BY <1>1, <2>1 DEF GoodEvents, Due, FitsIn, Fits
<1>5. Steps(app, app', 0) /\ Settled(app', e.doc)
  BY <1>2, <1>3, <1>4, OpenedSteps
<1>. QED BY <1>5 DEF Quiet, Settled, e

LEMMA DimensionsFetchedSteps ==
  ASSUME Good(app), GoodEvents(app, events), DimensionsFetched
  PROVE  Steps(app, app', 0)
<1> DEFINE e == Head(events)
           idle == [app EXCEPT !.asking = FALSE]
           fetched == [app EXCEPT !.asking = FALSE, !.shown.next = e.start + e.count]
<1>1. /\ e \in Event /\ e.type = "dimensions"
  BY EventTaken DEF DimensionsFetched
<1>2. /\ app' \in {app, idle, fetched, RequestBatch(fetched)}
      /\ app'= RequestBatch(fetched) /\ app' # app /\ app' # fetched => Showing(app)
  BY DEF DimensionsFetched
<1> HIDE DEF e
<1>3. e.start + e.count \in Nat
  BY <1>1 DEF Event
<1>4. [app.shown EXCEPT !.next = e.start + e.count] \in Layout
  BY <1>3 DEF Good, State, Layout
<1>5. fetched = [app EXCEPT !.asking = FALSE, !.shown = [app.shown EXCEPT !.next = e.start + e.count]]
  BY DEF Good, State
<1>6. Window(app, fetched)
  BY <1>4, <1>5 DEF Window, Good, GoodQueues, State
<1>7. Window(app, idle)
  BY DEF Window, Good, GoodQueues, State
<1> HIDE DEF idle, fetched
<1>8. Steps(app, app, 0) /\ Steps(app, idle, 0) /\ Steps(app, fetched, 0)
  BY <1>6, <1>7, WindowSteps, StepsReflexive
<1>9. CASE Showing(app)
  <2>1. fetched.active # 0
    BY <1>6, <1>9 DEF Showing, Window
  <2>2. Steps(fetched, RequestBatch(fetched), 0)
    BY <1>8, <2>1, BatchWindow, WindowSteps DEF Steps
  <2>3. Steps(app, RequestBatch(fetched), 0)
    BY <1>8, <2>2, StepsTransitive
  <2>. QED BY <1>2, <1>8, <2>3
<1>. QED BY <1>2, <1>8, <1>9

LEMMA ErrorReceivedSteps ==
  ASSUME Good(app), GoodEvents(app, events), ErrorReceived
  PROVE  Steps(app, app', 0) /\ Quiet(app', Head(events).doc)
<1> DEFINE e == Head(events)
           asked == RequirePassword(app, e.doc)
<1>1. /\ e \in Event /\ e.type = "error" /\ e = events[1] /\ 1 \in DOMAIN events
  BY EventTaken DEF ErrorReceived
<1>2. app' = IF ~ IsPending(app, e.doc) THEN app
             ELSE IF e.error = "password required" THEN [asked EXCEPT !.dialog = TRUE]
             ELSE IF e.error = "incorrect password" THEN [app EXCEPT !.dialog = TRUE]
             ELSE OpenFailed(app, e.doc)
  BY DEF ErrorReceived
<1> HIDE DEF e
<1>3. CASE ~ IsPending(app, e.doc)
  <2>1. Settled(app, e.doc)
    BY <1>3, NotPending
  <2>. QED BY <1>2, <1>3, <2>1, StepsReflexive DEF Quiet, Settled, e
<1>4. CASE IsPending(app, e.doc)
  <2>1. HasTab(app, e.doc) /\ TabOf(app, e.doc).path # NoPath
    BY <1>4, PendingPath, Constants, ViewerAssumption
  <2>2. CASE e.error = "password required"
    <3>1. Steps(app, asked, 0) /\ Settled(asked, e.doc)
      BY <2>1, BecomesSteps DEF RequirePassword
    <3>2. app' = [asked EXCEPT !.dialog = TRUE]
      BY <1>2, <1>4, <2>2
    <3> HIDE DEF asked
    <3>3. Window(asked, app') /\ Steps(asked, app', 0)
      BY <3>1, <3>2, ClearWindow, WindowSteps DEF Steps
    <3>4. Steps(app, app', 0)
      BY <3>1, <3>3, StepsTransitive
    <3>. QED BY <3>1, <3>3, <3>4 DEF Quiet, Settled, Window, e
  <2>3. CASE e.error = "incorrect password"
    <3>1. app' = [app EXCEPT !.dialog = TRUE]
      BY <1>2, <1>4, <2>3
    <3>2. Window(app, app') /\ Steps(app, app', 0)
      BY <3>1, ClearWindow, WindowSteps
    <3>3. \A i \in DOMAIN app.tabs : app.tabs[i].id = e.doc => app.tabs[i].path \in Protected
      BY <1>1, <2>3 DEF GoodEvents, Due, FitsIn, Fits
    <3>. QED BY <3>2, <3>3 DEF Quiet, Window, e
  <2>4. CASE e.error \notin {"password required", "incorrect password"}
    <3>1. app' = Becomes(app, e.doc, "failed")
      BY <1>2, <1>4, <2>4 DEF OpenFailed
    <3>2. Steps(app, app', 0) /\ Settled(app', e.doc)
      BY <2>1, <3>1, BecomesSteps
    <3>. QED BY <3>2 DEF Quiet, Settled, e
  <2>. QED BY <2>2, <2>3, <2>4
<1>. QED BY <1>3, <1>4

-----------------------------------------------------------------------------
(* The queues *)

Told(queue, id) == \E k \in DOMAIN queue : Concerns(queue[k], id)

\* OpeningIsAnswered, of any state and queue of events.
Answered(s, queue) ==
  \A i \in DOMAIN s.tabs : s.tabs[i].doc.state = "opening" /\ s.tabs[i].path \notin Protected =>
    Asked(s, s.tabs[i].id) \/ Told(queue, s.tabs[i].id)

\* The events that are on their way.
LEMMA QueueType ==
  ASSUME NEW s, NEW queue, GoodEvents(s, queue)
  PROVE  /\ queue \in Seq(Event) /\ Len(queue) \in Nat /\ DOMAIN queue = 1..Len(queue)
         /\ Len(queue) <= EventCap /\ EventCap \in Nat
         /\ \A k \in DOMAIN queue : queue[k] \in Event /\ queue[k].doc \in TabIds
<1>1. queue \in Seq(Event) /\ Len(queue) <= EventCap
  BY DEF GoodEvents
<1>2. \A e \in Event : e.doc \in TabIds
  BY DEF Event
<1>3. Len(queue) \in Nat /\ DOMAIN queue = 1..Len(queue) /\ \A k \in DOMAIN queue : queue[k] \in Event
  BY <1>1
<1>. QED BY <1>1, <1>2, <1>3, Constants, ViewerAssumption

\* What the answers on their way are for survives every handler.
LEMMA EventsFollow ==
  ASSUME NEW s, NEW t, NEW queue, Good(s), Good(t), Follows(s, t), GoodEvents(s, queue)
  PROVE  GoodEvents(t, queue)
<1> SUFFICES ASSUME NEW k \in DOMAIN queue, Due(queue[k]) PROVE FitsIn(queue[k], t)
  BY DEF GoodEvents
<1> DEFINE e == queue[k]
<1>1. FitsIn(e, s) /\ e.doc \in Nat /\ Due(e)
  <2>1. e.doc \in TabIds
    BY QueueType
  <2>2. FitsIn(e, s)
    BY DEF GoodEvents
  <2>. QED BY <2>1, <2>2 DEF TabIds
<1> HIDE DEF e
<1>2. s.nextId \in Nat /\ t.nextId \in Nat /\ s.nextId <= t.nextId
  BY DEF Good, State, Follows
<1>3. e.doc <= s.nextId /\ e.doc <= t.nextId
  BY <1>1, <1>2 DEF FitsIn
<1>4. ASSUME NEW j \in DOMAIN t.tabs, t.tabs[j].id = e.doc PROVE Fits(e, t.tabs[j])
  <2>1. ~ (t.tabs[j].id > s.nextId)
    BY <1>1, <1>2, <1>3, <1>4
  <2>2. PICK i \in DOMAIN s.tabs : /\ s.tabs[i].id = t.tabs[j].id
                                   /\ s.tabs[i].path \in {t.tabs[j].path, NoPath}
    BY <2>1 DEF Follows
  <2>3. Fits(e, s.tabs[i])
    BY <1>1, <1>4, <2>2 DEF FitsIn
  <2>4. s.tabs[i].path \in Paths
    BY <1>1, <2>3, ViewerAssumption DEF Fits, Due
  <2>5. s.tabs[i].path = t.tabs[j].path
    BY <2>2, <2>4, Constants, ViewerAssumption
  <2>. QED BY <2>3, <2>5 DEF Fits
<1>. QED BY <1>3, <1>4 DEF FitsIn, e

LEMMA EventsTail ==
  ASSUME NEW s, NEW queue, GoodEvents(s, queue), queue # <<>>
  PROVE  GoodEvents(s, Tail(queue))
<1>1. /\ queue \in Seq(Event) /\ Len(queue) \in Nat /\ Len(queue) <= EventCap
      /\ DOMAIN queue = 1..Len(queue)
  BY QueueType
<1> HIDE DEF Event
<1>2. /\ Tail(queue) \in Seq(Event) /\ Len(Tail(queue)) = Len(queue) - 1
      /\ DOMAIN Tail(queue) = 1..(Len(queue) - 1)
      /\ \A k \in 1..(Len(queue) - 1) : k + 1 \in DOMAIN queue /\ Tail(queue)[k] = queue[k + 1]
  BY <1>1
<1>3. Len(Tail(queue)) <= EventCap
  BY <1>1, <1>2, Constants, ViewerAssumption
<1>. QED BY <1>2, <1>3 DEF GoodEvents

LEMMA EventsAppend ==
  ASSUME NEW s, NEW queue, GoodEvents(s, queue), Len(queue) < EventCap, NEW e \in Event,
         Due(e) => FitsIn(e, s)
  PROVE  GoodEvents(s, Append(queue, e))
<1>1. queue \in Seq(Event) /\ Len(queue) \in Nat /\ DOMAIN queue = 1..Len(queue) /\ EventCap \in Nat
  BY QueueType
<1> DEFINE q == Append(queue, e)
<1>2. q \in Seq(Event)
  BY <1>1, AppendProperties
<1>3. Len(q) = Len(queue) + 1
  BY <1>1, AppendProperties
<1>4. \A k \in 1..Len(queue) : q[k] = queue[k]
  BY <1>1, AppendProperties
<1>5. q[Len(queue) + 1] = e
  BY <1>1, AppendProperties
<1> HIDE DEF q
<1>6. Len(q) <= EventCap
  BY <1>1, <1>3
<1>7. \A k \in DOMAIN q : k \in DOMAIN queue \/ k = Len(queue) + 1
  BY <1>1, <1>2, <1>3
<1>8. \A k \in DOMAIN q : (k \in DOMAIN queue /\ q[k] = queue[k]) \/ q[k] = e
  BY <1>1, <1>4, <1>5, <1>7
<1>. QED BY <1>2, <1>6, <1>8 DEF GoodEvents, q

\* A tab that is told stays told when more is said.
LEMMA ToldAppend ==
  ASSUME NEW queue \in Seq(Event), NEW e \in Event, NEW id
  PROVE  /\ Told(queue, id) => Told(Append(queue, e), id)
         /\ Concerns(e, id) => Told(Append(queue, e), id)
<1> HIDE DEF Event
<1>1. Len(queue) \in Nat /\ DOMAIN queue = 1..Len(queue)
  OBVIOUS
<1>2. /\ Append(queue, e) \in Seq(Event) /\ Len(Append(queue, e)) = Len(queue) + 1
      /\ \A k \in 1..Len(queue) : Append(queue, e)[k] = queue[k]
      /\ Append(queue, e)[Len(queue) + 1] = e
  BY <1>1, AppendProperties
<1>3. /\ \A k \in DOMAIN queue : k \in DOMAIN Append(queue, e) /\ Append(queue, e)[k] = queue[k]
      /\ Len(queue) + 1 \in DOMAIN Append(queue, e)
  BY <1>1, <1>2
<1>. QED BY <1>2, <1>3 DEF Told

LEMMA AnsweredFollows ==
  ASSUME NEW s, NEW t, NEW queue, Follows(s, t), Answered(s, queue)
  PROVE  Answered(t, queue)
<1> SUFFICES ASSUME NEW j \in DOMAIN t.tabs, t.tabs[j].doc.state = "opening",
                    t.tabs[j].path \notin Protected, ~ Asked(t, t.tabs[j].id)
             PROVE  Told(queue, t.tabs[j].id)
  BY DEF Answered
<1>1. PICK i \in DOMAIN s.tabs : /\ s.tabs[i].id = t.tabs[j].id /\ s.tabs[i].path = t.tabs[j].path
                                 /\ s.tabs[i].doc.state = "opening"
  BY DEF Follows
<1>2. ~ Asked(s, s.tabs[i].id)
  BY <1>1 DEF Asked, Follows
<1>. QED BY <1>1, <1>2 DEF Answered

\* The event at the head may go once its tab is quiet.
LEMMA AnsweredTail ==
  ASSUME NEW s, NEW queue \in Seq(Event), queue # <<>>, Answered(s, queue),
         Head(queue).type = "dimensions" \/ Quiet(s, Head(queue).doc)
  PROVE  Answered(s, Tail(queue))
<1> SUFFICES ASSUME NEW i \in DOMAIN s.tabs, s.tabs[i].doc.state = "opening",
                    s.tabs[i].path \notin Protected, ~ Asked(s, s.tabs[i].id)
             PROVE  Told(Tail(queue), s.tabs[i].id)
  BY DEF Answered
<1> HIDE DEF Event
<1>1. PICK k \in DOMAIN queue : Concerns(queue[k], s.tabs[i].id)
  BY DEF Answered, Told
<1>2. Head(queue) = queue[1]
  OBVIOUS
<1>3. k # 1
  BY <1>1, <1>2 DEF Concerns, Quiet
<1>4. k - 1 \in DOMAIN Tail(queue) /\ Tail(queue)[k - 1] = queue[k]
  BY <1>3
<1>. QED BY <1>1, <1>4 DEF Told

\* The worker takes a command.
LEMMA ControlTail ==
  ASSUME NEW s, Good(s), s.control # <<>>
  PROVE  LET t == [s EXCEPT !.control = Tail(@)]
         IN  /\ Good(t) /\ t.tabs = s.tabs /\ t.nextId = s.nextId
             /\ Head(s.control) \in Command /\ Head(s.control) = s.control[1]
             /\ 1 \in DOMAIN s.control
             /\ \A id : Asked(s, id) => Asked(t, id) \/ Concerns(Head(s.control), id)
<1> DEFINE t == [s EXCEPT !.control = Tail(s.control)]
<1>0. t = [s EXCEPT !.control = Tail(@)]
  OBVIOUS
<1>1. s.control \in Seq(Command) /\ Len(s.control) \in Nat /\ DOMAIN s.control = 1..Len(s.control)
  BY StripType DEF Good
<1> HIDE DEF Command
<1>2. Tail(s.control) \in Seq(Command)
  BY <1>1
<1>3. /\ t \in State /\ t.tabs = s.tabs /\ t.nextId = s.nextId /\ t.active = s.active
      /\ t.low = s.low /\ t.control = Tail(s.control)
  BY <1>2 DEF Good, State
<1> HIDE DEF t
<1>4. /\ Len(t.control) = Len(s.control) - 1 /\ DOMAIN t.control = 1..(Len(s.control) - 1)
      /\ \A k \in 1..(Len(s.control) - 1) : k + 1 \in DOMAIN s.control /\ t.control[k] = s.control[k + 1]
  BY <1>1, <1>3
<1>5. Head(s.control) = s.control[1] /\ 1 \in DOMAIN s.control /\ Head(s.control) \in Command
  BY <1>1
<1>6. Good(t)
  <2>1. GoodStrip(t)
    BY <1>3 DEF Good, GoodStrip, HasTab
  <2>2. Len(t.control) <= ControlCap
    BY <1>1, <1>4, Constants, ViewerAssumption DEF Good, GoodQueues
  <2>3. GoodQueues(t)
    BY <1>3, <1>4, <2>2 DEF Good, GoodQueues
  <2>. QED BY <1>3, <2>1, <2>3 DEF Good
<1>7. ASSUME NEW id, Asked(s, id), ~ Concerns(Head(s.control), id) PROVE Asked(t, id)
  <2>1. PICK k \in DOMAIN s.control : Concerns(s.control[k], id)
    BY <1>7 DEF Asked
  <2>2. k # 1
    BY <1>5, <1>7, <2>1
  <2>3. k - 1 \in DOMAIN t.control /\ t.control[k - 1] = s.control[k]
    BY <1>1, <1>4, <2>2
  <2>. QED BY <2>1, <2>3 DEF Asked
<1>. QED BY <1>0, <1>3, <1>5, <1>6, <1>7

LEMMA LowTail ==
  ASSUME NEW s, Good(s), s.low # <<>>
  PROVE  LET t == [s EXCEPT !.low = Tail(@)]
         IN  /\ Good(t) /\ t.tabs = s.tabs /\ t.nextId = s.nextId /\ t.control = s.control
             /\ Head(s.low) \in Request
<1> DEFINE t == [s EXCEPT !.low = Tail(s.low)]
<1>0. t = [s EXCEPT !.low = Tail(@)]
  OBVIOUS
<1>1. s.low \in Seq(Request) /\ Len(s.low) \in Nat
  BY StripType DEF Good
<1> HIDE DEF Request
<1>2. Tail(s.low) \in Seq(Request) /\ Len(Tail(s.low)) = Len(s.low) - 1 /\ Head(s.low) \in Request
  BY <1>1
<1>3. /\ t \in State /\ t.tabs = s.tabs /\ t.nextId = s.nextId /\ t.active = s.active
      /\ t.low = Tail(s.low) /\ t.control = s.control
  BY <1>2 DEF Good, State
<1> HIDE DEF t
<1>4. Window(s, t)
  BY <1>1, <1>2, <1>3, Constants, ViewerAssumption DEF Window, Good, GoodQueues
<1>5. Good(t)
  BY <1>4, WindowSteps DEF Steps
<1>. QED BY <1>0, <1>2, <1>3, <1>5

-----------------------------------------------------------------------------
(* The invariant *)

LEMMA InitIsGood ==
  ASSUME Init
  PROVE  ViewerInv /\ Answered(app, events)
<1>1. /\ 0 \in 0..MaxTabId /\ 0 \in 0..MaxPages /\ ControlCap \in Nat /\ LowCap \in Nat
      /\ EventCap \in Nat /\ MaxTabs \in Nat /\ MaxOpenTabs \in Nat
  BY Constants, ViewerAssumption
<1>2. NoLayout \in Layout
  BY <1>1 DEF NoLayout, Layout
<1>3. /\ app.tabs = <<>> /\ app.active = 0 /\ app.nextId = 0 /\ app.control = <<>>
      /\ app.low = <<>> /\ events = <<>>
  BY DEF Init
<1>4. app \in State
  BY <1>1, <1>2 DEF Init, State
<1>5. Good(app)
  BY <1>1, <1>3, <1>4 DEF Good, GoodStrip, GoodQueues
<1>6. GoodEvents(app, events)
  BY <1>1, <1>3 DEF GoodEvents
<1>7. GoodWorld
  <2>1. \A p \in Paths : 1 <= Len(Pages[p])
    <3> TAKE p \in Paths
    <3>1. Pages[p] \in Seq(Nat \ {0}) /\ Pages[p] # <<>>
      BY ViewerAssumption DEF ViewerAssumption
    <3>. QED BY <3>1
  <2>2. session \in Seq(Paths)
    BY ViewerAssumption DEF Init, ViewerAssumption
  <2>3. activeDocs = <<>> /\ disk = [p \in Paths |-> 1] /\ changed = {} /\ pumping = FALSE
    BY DEF Init
  <2>4. activeDocs \in Seq(OpenDoc) /\ Len(activeDocs) <= MaxOpenTabs
    BY <1>1, <2>3
  <2>5. disk \in [Paths -> Nat] /\ \A p \in Paths : disk[p] = 1
    BY <2>3
  <2>6. \A p \in Paths : disk[p] <= Len(Pages[p])
    BY <2>1, <2>5
  <2>. QED BY <2>2, <2>3, <2>4, <2>5, <2>6 DEF GoodWorld
<1>8. Answered(app, events)
  BY <1>3 DEF Answered
<1>. QED BY <1>5, <1>6, <1>7, <1>8 DEF ViewerInv

\* What the worker opens has pages.
LEMMA PagesOnDisk ==
  ASSUME GoodWorld, NEW path \in Paths, disk[path] # 0
  PROVE  /\ Pages[path][disk[path]] \in Nat \ {0}
         /\ HasVersion(path, Pages[path][disk[path]])
<1>1. disk[path] \in Nat /\ disk[path] <= Len(Pages[path])
  BY DEF GoodWorld
<1>2. Pages[path] \in Seq(Nat \ {0})
  BY ViewerAssumption DEF ViewerAssumption
<1>3. disk[path] \in DOMAIN Pages[path]
  BY <1>1, <1>2
<1>. QED BY <1>2, <1>3 DEF HasVersion

LEMMA WorkerOpensSteps ==
  ASSUME ViewerInv, Answered(app, events), WorkerOpens
  PROVE  ViewerInv' /\ Answered(app', events') /\ app'.tabs = app.tabs
<1> DEFINE c == Head(app.control)
<1>1. /\ app' = [app EXCEPT !.control = Tail(@)] /\ app.control # <<>> /\ c.type = "open"
      /\ Len(events) < EventCap /\ UNCHANGED <<disk, changed, session, pumping>>
  BY DEF WorkerOpens, HasRoom
<1>2. /\ Good(app') /\ app'.tabs = app.tabs /\ app'.nextId = app.nextId
      /\ c \in Command /\ c = app.control[1] /\ 1 \in DOMAIN app.control
      /\ \A id : Asked(app, id) => Asked(app', id) \/ Concerns(c, id)
  BY <1>1, ControlTail DEF ViewerInv
<1>3. c.path \in Paths /\ c.doc \in TabIds
  BY <1>1, <1>2 DEF Command
<1>4. /\ c.doc <= app.nextId
      /\ \A i \in DOMAIN app.tabs : app.tabs[i].id = c.doc => app.tabs[i].path = c.path
  BY <1>1, <1>2 DEF ViewerInv, Good, GoodQueues
<1>5. \E e \in Event :
        /\ events' = Append(events, e) /\ e.doc = c.doc /\ e.type \in {"opened", "error"}
        /\ e.type = "opened" => HasVersion(c.path, e.pages)
        /\ Due(e) /\ e.type = "error" => c.path \in Protected
        /\ activeDocs' \in Seq(OpenDoc) /\ Len(activeDocs') <= MaxOpenTabs
  <2>1. activeDocs \in Seq(OpenDoc) /\ Len(activeDocs) <= MaxOpenTabs /\ MaxOpenTabs \in Nat \ {0}
    BY Constants, ViewerAssumption DEF ViewerInv, GoodWorld
  <2>2. CASE /\ OpenError(c) = "none"
             /\ Answer([type |-> "opened", doc |-> c.doc, pages |-> Pages[c.path][disk[c.path]]])
             /\ activeDocs' = Put(activeDocs, [doc |-> c.doc, pages |-> Pages[c.path][disk[c.path]]])
    <3> DEFINE pages == Pages[c.path][disk[c.path]]
               e == [type |-> "opened", doc |-> c.doc, pages |-> pages]
               entry == [doc |-> c.doc, pages |-> pages]
    <3>1. disk[c.path] # 0
      BY <2>2 DEF OpenError
    <3>2. pages \in Nat \ {0} /\ HasVersion(c.path, pages)
      BY <1>3, <3>1, PagesOnDisk DEF ViewerInv
    <3>3. events' = Append(events, e) /\ activeDocs' = Put(activeDocs, entry)
      BY <2>2 DEF Answer
    <3> HIDE DEF pages
    <3>4. e \in Event /\ e.doc = c.doc /\ e.type = "opened" /\ e.pages = pages
      BY <1>3, <3>2 DEF Event
    <3>5. entry \in OpenDoc
      BY <1>3, <3>2 DEF OpenDoc
    <3> HIDE DEF e, entry
    <3>6. activeDocs' \in Seq(OpenDoc) /\ Len(activeDocs') <= MaxOpenTabs
      BY <2>1, <3>3, <3>5, PutType
    <3>. QED BY <3>2, <3>3, <3>4, <3>6
  <2>3. ASSUME NEW error \in Errors, Fails(c.doc, error),
               error = "incorrect password" => c.path \in Protected
        PROVE  \E e \in Event :
                 /\ events' = Append(events, e) /\ e.doc = c.doc /\ e.type \in {"opened", "error"}
                 /\ e.type = "opened" => HasVersion(c.path, e.pages)
                 /\ Due(e) /\ e.type = "error" => c.path \in Protected
                 /\ activeDocs' \in Seq(OpenDoc) /\ Len(activeDocs') <= MaxOpenTabs
    <3> DEFINE e == [type |-> "error", doc |-> c.doc, error |-> error]
    <3>1. events' = Append(events, e) /\ activeDocs' = activeDocs
      BY <2>3 DEF Fails, Answer
    <3>2. e \in Event /\ e.doc = c.doc /\ e.type = "error" /\ e.error = error
      BY <1>3 DEF Event
    <3> HIDE DEF e
    <3>. QED BY <2>1, <2>3, <3>1, <3>2 DEF Due
  <2>4. CASE OpenError(c) # "none" /\ Fails(c.doc, OpenError(c))
    <3>1. OpenError(c) \in Errors /\ (OpenError(c) = "incorrect password" => c.path \in Protected)
      BY <2>4 DEF OpenError, Errors
    <3>. QED BY <2>3, <2>4, <3>1
  <2>5. CASE Fails(c.doc, "unreadable")
    BY <2>3, <2>5 DEF Errors
  <2>. QED BY <2>2, <2>4, <2>5 DEF WorkerOpens
<1> HIDE DEF c
<1>6. PICK e \in Event :
        /\ events' = Append(events, e) /\ e.doc = c.doc /\ e.type \in {"opened", "error"}
        /\ e.type = "opened" => HasVersion(c.path, e.pages)
        /\ Due(e) /\ e.type = "error" => c.path \in Protected
        /\ activeDocs' \in Seq(OpenDoc) /\ Len(activeDocs') <= MaxOpenTabs
  BY <1>5
<1>7. GoodEvents(app', events')
  <2>1. Due(e) => FitsIn(e, app)
    BY <1>3, <1>4, <1>6 DEF FitsIn, Fits
  <2>2. GoodEvents(app, events')
    BY <1>1, <1>6, <2>1, EventsAppend DEF ViewerInv
  <2>. QED BY <1>2, <2>2 DEF GoodEvents, FitsIn
<1>8. Answered(app', events')
  <2>1. events \in Seq(Event)
    BY DEF ViewerInv, GoodEvents
  <2>2. \A id : Concerns(c, id) => Concerns(e, id)
    BY <1>6 DEF Concerns
  <2>3. \A id : Asked(app, id) \/ Told(events, id) => Asked(app', id) \/ Told(events', id)
    BY <1>2, <1>6, <2>1, <2>2, ToldAppend
  <2>. QED BY <1>2, <2>3 DEF Answered
<1>9. GoodWorld'
  BY <1>1, <1>6 DEF ViewerInv, GoodWorld
<1>. QED BY <1>2, <1>7, <1>8, <1>9 DEF ViewerInv

LEMMA WorkerClosesSteps ==
  ASSUME ViewerInv, Answered(app, events), WorkerCloses
  PROVE  ViewerInv' /\ Answered(app', events') /\ app'.tabs = app.tabs
<1>1. /\ app' = [app EXCEPT !.control = Tail(@)] /\ app.control # <<>>
      /\ Head(app.control).type = "close" /\ UNCHANGED <<events, disk, changed, session, pumping>>
      /\ activeDocs' = Without(activeDocs, Head(app.control).doc)
  BY DEF WorkerCloses
<1>2. /\ Good(app') /\ app'.tabs = app.tabs /\ app'.nextId = app.nextId
      /\ \A id : Asked(app, id) => Asked(app', id) \/ Concerns(Head(app.control), id)
  BY <1>1, ControlTail DEF ViewerInv
<1>3. GoodEvents(app', events')
  BY <1>1, <1>2 DEF ViewerInv, GoodEvents, FitsIn
<1>4. Answered(app', events')
  BY <1>1, <1>2 DEF Answered, Concerns
<1>5. GoodWorld'
  <2>1. /\ activeDocs \in Seq(OpenDoc) /\ Len(activeDocs) <= MaxOpenTabs
        /\ Len(activeDocs) \in Nat /\ MaxOpenTabs \in Nat
    BY Constants, ViewerAssumption DEF ViewerInv, GoodWorld
  <2>2. /\ activeDocs' \in Seq(OpenDoc)
        /\ Len(activeDocs') = Len(activeDocs) \/ Len(activeDocs') = Len(activeDocs) - 1
    BY <1>1, <2>1, WithoutType
  <2>3. Len(activeDocs') <= MaxOpenTabs
    BY <2>1, <2>2
  <2>. QED BY <1>1, <2>2, <2>3 DEF ViewerInv, GoodWorld
<1>. QED BY <1>2, <1>3, <1>4, <1>5 DEF ViewerInv

LEMMA WorkerMeasuresSteps ==
  ASSUME ViewerInv, Answered(app, events), WorkerMeasures
  PROVE  ViewerInv' /\ Answered(app', events') /\ app'.tabs = app.tabs
<1> DEFINE c == Head(app.low)
           pages == EntryOf(activeDocs, c.doc).pages
           end == IF c.start + Batch < pages THEN c.start + Batch ELSE pages
           count == IF end > c.start THEN end - c.start ELSE 0
           measured == [type |-> "dimensions", doc |-> c.doc, start |-> c.start, count |-> count]
           failed == [type |-> "error", doc |-> c.doc, error |-> "unreadable"]
<1>1. /\ app' = [app EXCEPT !.low = Tail(@)] /\ app.low # <<>> /\ Len(events) < EventCap
      /\ UNCHANGED <<disk, changed, session, pumping>>
  BY DEF WorkerMeasures, HasRoom
<1>2. /\ Good(app') /\ app'.tabs = app.tabs /\ app'.nextId = app.nextId
      /\ app'.control = app.control /\ c \in Request
  BY <1>1, LowTail DEF ViewerInv
<1>3. c.doc \in TabIds /\ c.start \in Nat
  BY <1>2 DEF Request
<1>4. activeDocs \in Seq(OpenDoc) /\ Len(activeDocs) <= MaxOpenTabs
  BY DEF ViewerInv, GoodWorld
<1>5. CASE ~ IsOpen(activeDocs, c.doc)
  <2>1. UNCHANGED <<events, activeDocs>>
    BY <1>5 DEF WorkerMeasures
  <2>2. GoodEvents(app', events')
    BY <1>2, <2>1 DEF ViewerInv, GoodEvents, FitsIn
  <2>3. Answered(app', events')
    BY <1>2, <2>1 DEF Answered, Asked
  <2>4. GoodWorld'
    BY <1>1, <2>1 DEF ViewerInv, GoodWorld
  <2>. QED BY <1>2, <2>2, <2>3, <2>4 DEF ViewerInv
<1>6. CASE IsOpen(activeDocs, c.doc)
  <2>1. activeDocs' = Touched(activeDocs, c.doc) /\ \E e \in {measured, failed} : events' = Append(events, e)
    BY <1>6 DEF WorkerMeasures, Answer
  <2>2. EntryOf(activeDocs, c.doc) \in OpenDoc
    BY <1>4, <1>6, PositionType
  <2>3. pages \in Nat /\ Batch \in Nat
    BY <2>2, Constants, ViewerAssumption DEF OpenDoc
  <2> HIDE DEF pages
  <2>4. count \in Nat
    BY <1>3, <2>3
  <2> HIDE DEF c, count
  <2>5. measured \in Event /\ failed \in Event /\ ~ Due(measured) /\ ~ Due(failed)
    BY <1>3, <2>4 DEF Event, Errors, Due
  <2> HIDE DEF measured, failed
  <2>6. PICK e \in Event : ~ Due(e) /\ events' = Append(events, e)
    BY <2>1, <2>5
  <2>7. GoodEvents(app', events')
    <3>1. GoodEvents(app, events')
      BY <1>1, <2>6, EventsAppend DEF ViewerInv
    <3>. QED BY <1>2, <3>1 DEF GoodEvents, FitsIn
  <2>8. Answered(app', events')
    <3>1. events \in Seq(Event)
      BY DEF ViewerInv, GoodEvents
    <3>2. \A id : Told(events, id) => Told(events', id)
      BY <2>6, <3>1, ToldAppend
    <3>. QED BY <1>2, <3>2 DEF Answered, Asked
  <2>9. GoodWorld'
    BY <1>1, <1>4, <2>1, TouchedType DEF ViewerInv, GoodWorld
  <2>. QED BY <1>2, <2>7, <2>8, <2>9 DEF ViewerInv
<1>. QED BY <1>5, <1>6

\* A handler of the UI thread, whatever it leaves of the events.
LEMMA HandlerKeeps ==
  ASSUME ViewerInv, Answered(app, events), NEW but, Steps(app, app', but),
         \/ events' = events
         \/ /\ events # <<>> /\ events' = Tail(events)
            /\ Head(events).type = "dimensions" \/ Quiet(app', Head(events).doc),
         GoodWorld'
  PROVE  ViewerInv' /\ Answered(app', events')
<1>1. Good(app') /\ Follows(app, app') /\ events \in Seq(Event)
  BY DEF Steps, ViewerInv, GoodEvents
<1>2. GoodEvents(app', events)
  BY <1>1, EventsFollow DEF ViewerInv
<1>3. Answered(app', events)
  BY <1>1, AnsweredFollows
<1>4. GoodEvents(app', events') /\ Answered(app', events')
  BY <1>1, <1>2, <1>3, EventsTail, AnsweredTail
<1>. QED BY <1>1, <1>4 DEF ViewerInv

\* Every step of a handler on the UI thread, and of another program.
LEMMA NextKeeps ==
  ASSUME ViewerInv, Answered(app, events), Next
  PROVE  ViewerInv' /\ Answered(app', events')
<1>1. Good(app) /\ GoodEvents(app, events) /\ GoodWorld
  BY DEF ViewerInv
<1>2. CASE RestoreTab
  <2>1. Steps(app, app', 0)
    BY <1>1, <1>2, RestoreTabSteps
  <2>2. GoodWorld'
    BY <1>1, <1>2 DEF RestoreTab, GoodWorld
  <2>. QED BY <1>2, <2>1, <2>2, HandlerKeeps DEF RestoreTab
<1>3. CASE StartPump
  <2>1. Steps(app, app', 0)
    BY <1>1, <1>3, StartPumpSteps
  <2>2. GoodWorld'
    BY <1>1, <1>3 DEF StartPump, GoodWorld
  <2>. QED BY <1>3, <2>1, <2>2, HandlerKeeps DEF StartPump
<1>4. CASE User
  <2>1. PICK but : Steps(app, app', but)
    BY <1>1, <1>4, UserSteps
  <2>2. UNCHANGED <<events, activeDocs, disk, changed, session, pumping>>
    BY <1>1, <1>4, UserSteps
  <2>3. GoodWorld'
    BY <1>1, <2>2 DEF GoodWorld
  <2>. QED BY <2>1, <2>2, <2>3, HandlerKeeps
<1>5. CASE DocumentOpened \/ DimensionsFetched \/ ErrorReceived
  <2>1. /\ events # <<>> /\ events' = Tail(events)
        /\ UNCHANGED <<activeDocs, disk, changed, session, pumping>>
    BY <1>5 DEF DocumentOpened, DimensionsFetched, ErrorReceived, TakesEvent
  <2>2. Steps(app, app', 0)
    BY <1>1, <1>5, DocumentOpenedSteps, DimensionsFetchedSteps, ErrorReceivedSteps
  <2>3. Head(events).type = "dimensions" \/ Quiet(app', Head(events).doc)
    <3>1. CASE DimensionsFetched
      BY <3>1 DEF DimensionsFetched, TakesEvent
    <3>. QED BY <1>1, <1>5, <3>1, DocumentOpenedSteps, ErrorReceivedSteps
  <2>4. GoodWorld'
    BY <1>1, <2>1 DEF GoodWorld
  <2>. QED BY <2>1, <2>2, <2>3, <2>4, HandlerKeeps
<1>6. ASSUME NEW path \in Paths, FileChange(path)
      PROVE  ViewerInv' /\ Answered(app', events')
  <2>1. Steps(app, app', 0)
    BY <1>1, <1>6, FileChangeSteps
  <2>2. /\ changed' = changed \ {path}
        /\ UNCHANGED <<events, activeDocs, disk, session, pumping>>
    BY <1>6 DEF FileChange
  <2>3. GoodWorld'
    BY <1>1, <2>2 DEF GoodWorld
  <2>. QED BY <2>1, <2>2, <2>3, HandlerKeeps
<1>7. CASE Worker
  BY <1>7, WorkerOpensSteps, WorkerClosesSteps, WorkerMeasuresSteps DEF Worker
<1>8. CASE WorkerDraws
  <2>1. /\ activeDocs' = Touched(activeDocs, app.active)
        /\ UNCHANGED <<app, events, disk, changed, session, pumping>>
    BY <1>8 DEF WorkerDraws
  <2>2. GoodWorld'
    BY <1>1, <2>1, TouchedType DEF GoodWorld
  <2>. QED BY <2>1, <2>2 DEF ViewerInv
<1>9. ASSUME NEW path \in Paths, FileWritten(path)
      PROVE  ViewerInv' /\ Answered(app', events')
  <2>1. PICK version \in 0..Len(Pages[path]) : disk' = [disk EXCEPT ![path] = version]
    BY <1>9 DEF FileWritten
  <2>2. /\ changed' \in {changed, changed \cup {path}}
        /\ UNCHANGED <<app, events, activeDocs, session, pumping>>
    BY <1>9 DEF FileWritten
  <2>3. Pages[path] \in Seq(Nat \ {0})
    BY ViewerAssumption DEF ViewerAssumption
  <2>4. version \in Nat /\ version <= Len(Pages[path])
    BY <2>3
  <2>5. disk' \in [Paths -> Nat] /\ \A p \in Paths : disk'[p] <= Len(Pages[p])
    BY <1>1, <2>1, <2>4 DEF GoodWorld
  <2>6. changed' \subseteq Paths
    BY <1>1, <2>2 DEF GoodWorld
  <2>7. GoodWorld'
    BY <1>1, <2>2, <2>5, <2>6 DEF GoodWorld
  <2>. QED BY <2>2, <2>7 DEF ViewerInv
<1>. QED BY <1>2, <1>3, <1>4, <1>5, <1>6, <1>7, <1>8, <1>9 DEF Next, Pump

LEMMA InvariantHolds == Spec => [](ViewerInv /\ Answered(app, events))
<1>1. Init => ViewerInv /\ Answered(app, events)
  BY InitIsGood
<1>2. ViewerInv /\ Answered(app, events) /\ [Next]_vars => (ViewerInv /\ Answered(app, events))'
  <2>1. CASE UNCHANGED vars
    BY <2>1 DEF vars, ViewerInv, GoodWorld, Answered, Asked, Told
  <2>. QED BY <2>1, NextKeeps
<1>. QED BY <1>1, <1>2, PTL DEF Spec

-----------------------------------------------------------------------------
(* The theorems *)

\* What a tab shows has as many pages as some version of its own file, whatever
\* was closed and opened between an open and its answer; every state is well
\* formed, the strip, the queues and the open documents within their limits.
THEOREM TabsShowTheirFiles == Spec => []TabShowsItsFile
<1>1. ViewerInv => TabShowsItsFile
  <2> SUFFICES ASSUME ViewerInv PROVE TabShowsItsFile
    OBVIOUS
  <2>1. app \in State /\ \A i \in Positions : app.tabs[i] \in Tab /\ GoodTab(app.tabs[i])
    BY StripType DEF ViewerInv, Good, Positions
  <2>2. ViewerTypeOK
    BY <2>1 DEF ViewerTypeOK, ViewerInv, Good, GoodStrip, GoodQueues, GoodEvents, GoodWorld,
                GoodTab, State
  <2>. QED BY <2>1, <2>2 DEF TabShowsItsFile, GoodTab, HasVersion
<1>. QED BY <1>1, InvariantHolds, PTL

\* A file has one tab, an id names one tab, and the active tab is one of them.
THEOREM FilesHaveOneTab == Spec => []OneTabPerFile
<1>1. ViewerInv => OneTabPerFile
  BY DEF ViewerInv, Good, GoodStrip, OneTabPerFile, Positions
<1>. QED BY <1>1, InvariantHolds, PTL

\* No tab is left opening: its command or its answer is still on the way.
THEOREM OpeningsAreAnswered == Spec => []OpeningIsAnswered
<1>1. Answered(app, events) => OpeningIsAnswered
  BY DEF Answered, Asked, Told, OpeningIsAnswered, Positions
<1>. QED BY <1>1, InvariantHolds, PTL

\* The tabs of which a step takes the document away.
LEMMA DocumentsStay ==
  ASSUME Good(app), Good(app'), NEW but, Carries(app, app', but), NEW id, id # but,
         HasTab(app, id), HasTab(app', id), TabOf(app, id).doc.pages > 0
  PROVE  TabOf(app', id).doc.pages > 0
<1>1. PICK i \in DOMAIN app.tabs : app.tabs[i].id = id /\ app.tabs[i] = TabOf(app, id)
  BY TabFound DEF Good
<1>2. PICK j \in DOMAIN app'.tabs : app'.tabs[j].id = id /\ app'.tabs[j] = TabOf(app', id)
  <2> DEFINE t == app'
  <2>1. Good(t) /\ HasTab(t, id)
    OBVIOUS
  <2> HIDE DEF t
  <2>2. \E j \in DOMAIN t.tabs : t.tabs[j].id = id /\ t.tabs[j] = TabOf(t, id)
    BY <2>1, TabFound DEF Good
  <2>. QED BY <2>2 DEF t
<1>. QED BY <1>1, <1>2 DEF Carries

\* Opening a file again never takes away the document that is shown; only the
\* activation of a tab whose file is gone does.
THEOREM ReloadsKeepDocuments == Spec => ReloadKeepsDocument
<1> DEFINE Keeps ==
      \A id \in TabIds :
        HasTab(app, id) /\ HasTab(app', id) /\ TabOf(app, id).doc.pages > 0
          => \/ TabOf(app', id).doc.pages > 0
             \/ app.active # id /\ app'.active = id /\ disk[TabOf(app, id).path] = 0
<1>1. ViewerInv /\ Answered(app, events) /\ [Next]_vars => [Keeps]_vars
  <2> SUFFICES ASSUME ViewerInv, Answered(app, events), Next PROVE Keeps
    OBVIOUS
  <2>1. Good(app) /\ Good(app') /\ GoodEvents(app, events) /\ GoodWorld
    BY NextKeeps DEF ViewerInv
  <2>2. ASSUME Steps(app, app', 0) PROVE Keeps
    <3>1. \A id \in TabIds : id # 0
      BY DEF TabIds
    <3>. QED BY <2>1, <2>2, <3>1, DocumentsStay DEF Steps
  <2>3. ASSUME app'.tabs = app.tabs PROVE Keeps
    BY <2>3 DEF TabOf, PositionOf
  <2>4. CASE RestoreTab
    BY <2>1, <2>2, <2>4, RestoreTabSteps
  <2>5. CASE StartPump
    BY <2>1, <2>2, <2>5, StartPumpSteps
  <2>6. CASE User
    <3>1. ASSUME NEW but \in TabIds, Steps(app, app', but), app'.active = but,
                 app.active # but, disk[TabOf(app, but).path] = 0
          PROVE  Keeps
      BY <2>1, <3>1, DocumentsStay DEF Steps
    <3>. QED BY <2>1, <2>2, <2>6, <3>1, UserSteps
  <2>7. CASE Pump
    BY <2>1, <2>2, <2>7, DocumentOpenedSteps, DimensionsFetchedSteps, ErrorReceivedSteps,
       FileChangeSteps DEF Pump
  <2>8. CASE Worker
    BY <2>3, <2>8, WorkerOpensSteps, WorkerClosesSteps, WorkerMeasuresSteps DEF Worker
  <2>9. CASE WorkerDraws \/ \E path \in Paths : FileWritten(path)
    BY <2>3, <2>9 DEF WorkerDraws, FileWritten
  <2>. QED BY <2>4, <2>5, <2>6, <2>7, <2>8, <2>9 DEF Next
<1>. QED BY <1>1, InvariantHolds, PTL DEF Spec, ReloadKeepsDocument
=============================================================================

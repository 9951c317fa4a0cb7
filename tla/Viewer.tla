------------------------------- MODULE Viewer -------------------------------
(***************************************************************************)
(* Tabs and their documents: the UI thread's AppState (apps/barepdf/src/   *)
(* application and presentation), the part of the render worker it opens   *)
(* documents with, and the files on disk.                                  *)
(*                                                                         *)
(* Every UI callback and every event the pump handles is one action, as    *)
(* they run on one thread; the worker serves its two queues meanwhile.     *)
(* How queues, renders and shutdown work inside is RenderPipeline's        *)
(* subject.  The worker polls control work first, yet the select it sleeps *)
(* in may wake with either, so here it may take either.                    *)
(***************************************************************************)
EXTENDS TabSet, OpenDocuments, Integers, FiniteSets, Functions

CONSTANTS
  Paths,        \* files
  Pages,        \* page count of each version of each file
  Protected,    \* the files that need a password
  MaxPages,     \* MAX_DOCUMENT_PAGES
  Sessions,     \* the saved tabs the program may start with
  Doings,       \* what happens in this instance besides opening and activating
  Batch,        \* pages a dimensions request asks for
  Lookahead,    \* pages ahead of the current one that are fetched at once
  ControlCap, LowCap, EventCap   \* capacities of the queues

ASSUME ViewerAssumption ==
  /\ NoPath \notin Paths /\ Protected \subseteq Paths
  /\ Pages \in [Paths -> Seq(Nat \ {0}) \ {<<>>}]
  /\ Sessions \subseteq Seq(Paths)
  /\ Doings \subseteq {"close", "blank", "navigate", "draw", "write"}
  /\ {MaxTabs, MaxTabId, MaxOpenTabs, MaxPages, Batch, ControlCap, LowCap, EventCap} \subseteq Nat \ {0}
  /\ Lookahead \in Nat

VARIABLES
  app,         \* AppState, with the command queues its handlers append to
  events,      \* the critical events on their way to the UI
  activeDocs,  \* the worker's open documents, most recent first
  disk,        \* version of each file, 0 when it is gone
  changed,     \* paths the file watcher has reported
  session,     \* saved tabs still to be reopened
  pumping      \* the event loop runs

vars == <<app, events, activeDocs, disk, changed, session, pumping>>

Passwords == {"none", "wrong", "right"}

\* The windows of the code that this state stands for: shown is page_dimensions
\* (whose they are and how many) with next_dimensions_start, asking is
\* in_flight.dimensions_request, dialog is the password dialog, watched is the
\* path of the file watcher.
Init ==
  /\ app = [tabs |-> <<>>, active |-> 0, nextId |-> 0, shown |-> NoLayout, page |-> 0,
            asking |-> FALSE, dialog |-> FALSE, watched |-> NoPath,
            control |-> <<>>, low |-> <<>>]
  /\ events = <<>> /\ activeDocs = <<>>
  /\ disk = [p \in Paths |-> 1] /\ changed = {}
  /\ session \in Sessions /\ pumping = FALSE

-----------------------------------------------------------------------------
(* What the handlers do to the state *)

\* ready_document: what the active tab shows.
Showing(s) == s.active # 0 /\ ActiveTab(s).doc.pages > 0
PageCount(s) == IF s.active = 0 THEN 0 ELSE ActiveTab(s).doc.pages

Snapshot(s) ==
  IF s.active = 0 THEN s
  ELSE WithTab(s, [ActiveTab(s) EXCEPT !.layout = s.shown, !.page = s.page])

Restore(s) ==
  IF s.active = 0 THEN s
  ELSE [s EXCEPT !.shown = ActiveTab(s).layout, !.page = ActiveTab(s).page]

ClearTransients(s) == [s EXCEPT !.dialog = FALSE]

\* reset_empty_document
Reset(s) ==
  [s EXCEPT !.watched = NoPath, !.page = 0, !.dialog = FALSE,
            !.shown.doc = 0, !.shown.pages = 0]

\* start_file_watcher: the old watcher stays when the file is gone.
Watch(s, path) == IF disk[path] = 0 THEN s ELSE [s EXCEPT !.watched = path]

SetDocument(s, id, doc) == WithTab(s, [TabOf(s, id) EXCEPT !.doc = doc])
Becomes(s, id, state) == SetDocument(s, id, [TabOf(s, id).doc EXCEPT !.state = state])

IsPending(s, id) == HasTab(s, id) /\ TabOf(s, id).doc.state \in {"opening", "password"}

\* cancel_open: back to the document that was shown, if any.
CancelOpen(s, id) ==
  IF TabOf(s, id).doc.pages > 0 THEN Becomes(s, id, "ready") ELSE SetDocument(s, id, NoDocument)

\* Mutant: the refused command leaves the tab opening.
AskWorkerRegardless(s, path, password) ==
  IF Len(s.control) < ControlCap
  THEN [s EXCEPT !.control = Append(@, [type |-> "open", doc |-> s.active, path |-> path,
                                        password |-> password])]
  ELSE s

\* Mutant: the queue takes one command more than its capacity.
AskWorkerOverCapacity(s, path, password) ==
  IF Len(s.control) <= ControlCap
  THEN [s EXCEPT !.control = Append(@, [type |-> "open", doc |-> s.active, path |-> path,
                                        password |-> password])]
  ELSE CancelOpen(s, s.active)

\* The command that opens the active tab's document; a full queue cancels it.
AskWorker(s, path, password) ==
  IF Len(s.control) < ControlCap
  THEN [s EXCEPT !.control = Append(@, [type |-> "open", doc |-> s.active, path |-> path,
                                        password |-> password])]
  ELSE CancelOpen(s, s.active)

\* begin_open
BeginOpen(s, path, password) ==
  LET opened == Open(Snapshot([s EXCEPT !.dialog = FALSE]), path)
      shown == Restore(opened)
  IN  IF HasPath(opened, path)
      THEN AskWorker(Becomes(shown, shown.active, "opening"), path, password)
      ELSE opened

\* request_next_dimensions_batch
RequestBatch(s) ==
  IF s.asking \/ s.shown.next >= PageCount(s) THEN s
  ELSE IF Len(s.low) < LowCap
  THEN [s EXCEPT !.asking = TRUE,
                 !.low = Append(@, [type |-> "dimensions", doc |-> s.active, start |-> s.shown.next])]
  ELSE s

\* navigate_to_page_inner
GoTo(s, page) == IF page < PageCount(s) THEN RequestBatch([s EXCEPT !.page = page]) ELSE s

-----------------------------------------------------------------------------
(* The program starts *)

RestoreTab ==
  /\ ~ pumping /\ session # <<>>
  /\ app' = IF disk[Head(session)] = 0 THEN app ELSE BeginOpen(app, Head(session), "none")
  /\ session' = Tail(session)
  /\ UNCHANGED <<events, activeDocs, disk, changed, pumping>>

\* The saved active tab is activated in the strip, and nothing else.
StartPump ==
  /\ ~ pumping /\ session = <<>>
  /\ pumping' = TRUE
  /\ \/ app.tabs = <<>> /\ UNCHANGED app
     \/ \E i \in DOMAIN app.tabs : app' = Activate(app, app.tabs[i].id)
  /\ UNCHANGED <<events, activeDocs, disk, changed, session>>

-----------------------------------------------------------------------------
(* What the user does *)

UiOnly == pumping /\ UNCHANGED <<events, activeDocs, disk, changed, session, pumping>>

\* A file dialog, a recent file, a dropped file.
OpenFile(path) == UiOnly /\ app' = BeginOpen(app, path, "none")

NewBlankTab ==
  LET asked == ClearTransients(Snapshot(app))
  IN  UiOnly /\ app' = IF CanGrow(asked) THEN Reset(Restore(NewEmpty(asked))) ELSE asked

ActivateTab(id) ==
  LET s == Restore(Activate(ClearTransients(Snapshot(app)), id))
      tab == TabOf(app, id)
  IN  /\ UiOnly
      /\ HasTab(app, id) /\ app.active # id
      /\ app' = IF tab.doc.state = "ready" THEN RequestBatch(Watch(s, tab.path))
                ELSE IF tab.path = NoPath THEN Reset(s)
                ELSE IF disk[tab.path] # 0 THEN BeginOpen(s, tab.path, "none")
                ELSE Reset(SetDocument(s, id, [state |-> "failed", pages |-> 0]))

\* CloseDocument for the document shown; a full queue loses it.
AskClose(s) ==
  IF Showing(s) /\ Len(s.control) < ControlCap
  THEN [s EXCEPT !.control = Append(@, [type |-> "close", doc |-> s.active])]
  ELSE s

\* close_tab_internal; what takes the closed tab's place is opened again.
CloseTab(id) ==
  LET closed == Restore(Close(ClearTransients(AskClose(Snapshot(app))), id))
  IN  /\ UiOnly
      /\ HasTab(app, id)
      /\ app' = IF app.active # id THEN Close(app, id)
                ELSE IF closed.active = 0 THEN Reset(closed)
                ELSE IF ActiveTab(closed).path = NoPath THEN closed
                ELSE BeginOpen(closed, ActiveTab(closed).path, "none")

\* The unlock button; the path is that of the active tab if it is pending.
Unlock(password) ==
  /\ UiOnly
  /\ app.dialog /\ app.active # 0 /\ IsPending(app, app.active)
  /\ app' = BeginOpen(app, ActiveTab(app).path, password)

CancelUnlock == UiOnly /\ app.dialog /\ app' = [app EXCEPT !.dialog = FALSE]

Retry ==
  /\ UiOnly
  /\ app.active # 0 /\ ActiveTab(app).doc.state = "failed"
  /\ app' = BeginOpen(app, ActiveTab(app).path, "none")

NavigateTo(page) == UiOnly /\ page < PageCount(app) /\ app' = GoTo(app, page)

-----------------------------------------------------------------------------
(* The event pump *)

TakesEvent(type) ==
  /\ pumping /\ events # <<>> /\ Head(events).type = type
  /\ events' = Tail(events)
  /\ UNCHANGED <<activeDocs, disk, changed, session, pumping>>

\* DocumentOpened: the tab it belongs to is ready; the layout is the active
\* tab's, whichever that is.
Ready(s, id, pages) ==
  LET layout == [doc |-> id, pages |-> pages, next |-> 1]
      page == IF ActiveTab(s).page < pages THEN ActiveTab(s).page ELSE pages - 1
      ready == Watch(SetDocument(s, id, [state |-> "ready", pages |-> pages]), TabOf(s, id).path)
  IN  GoTo(WithTab([ready EXCEPT !.page = page, !.shown = layout, !.asking = FALSE,
                                 !.dialog = FALSE],
                   [ActiveTab(ready) EXCEPT !.layout = layout]),
           page)

\* Mutant: the page count is not checked.
OpenedUnchecked(s, id, pages) == IF IsPending(s, id) THEN Ready(s, id, pages) ELSE s

\* opened: the answer to a tab that does not wait for one is stale.
Opened(s, id, pages) ==
  IF ~ IsPending(s, id) THEN s
  ELSE IF pages > MaxPages THEN Becomes(s, id, "failed")
  ELSE Ready(s, id, pages)

DocumentOpened ==
  TakesEvent("opened") /\ app' = Opened(app, Head(events).doc, Head(events).pages)

\* PageDimensionsFetched, accepted for the document shown.
DimensionsFetched ==
  LET e == Head(events)
      fetched == [app EXCEPT !.asking = FALSE, !.shown.next = e.start + e.count]
  IN  /\ TakesEvent("dimensions")
      /\ app' = IF ~ Showing(app) \/ e.doc # app.active THEN app
                ELSE IF e.count = 0 THEN [app EXCEPT !.asking = FALSE]
                ELSE IF app.page + Lookahead >= fetched.shown.next THEN RequestBatch(fetched)
                ELSE fetched

\* Mutant: the document that was shown is given up with the open that failed.
OpenFailedForgetting(s, id) == SetDocument(s, id, [state |-> "failed", pages |-> 0])

\* Mutant: a reload that fails leaves the tab opening.
OpenFailedSilently(s, id) == IF TabOf(s, id).doc.pages > 0 THEN s ELSE Becomes(s, id, "failed")

\* fail
OpenFailed(s, id) == Becomes(s, id, "failed")

\* Mutant: the document that was shown is given up for the password dialog.
RequirePasswordForgetting(s, id) == SetDocument(s, id, [state |-> "password", pages |-> 0])

\* require_password
RequirePassword(s, id) == Becomes(s, id, "password")

\* Error: one of a pending document is taken for the answer to its open.
ErrorReceived ==
  LET e == Head(events) IN
  /\ TakesEvent("error")
  /\ app' = IF ~ IsPending(app, e.doc) THEN app
            ELSE IF e.error = "password required"
            THEN [RequirePassword(app, e.doc) EXCEPT !.dialog = TRUE]
            ELSE IF e.error = "incorrect password" THEN [app EXCEPT !.dialog = TRUE]
            ELSE OpenFailed(app, e.doc)

FileChange(path) ==
  /\ pumping /\ path \in changed
  /\ changed' = changed \ {path}
  /\ app' = IF Showing(app) /\ ActiveTab(app).path = path
            THEN BeginOpen(Snapshot(app), path, "none") ELSE app
  /\ UNCHANGED <<events, activeDocs, disk, session, pumping>>

-----------------------------------------------------------------------------
(* The worker and the files *)

HasRoom == Len(events) < EventCap
Answer(e) == events' = Append(events, e)
Fails(d, error) == Answer([type |-> "error", doc |-> d, error |-> error]) /\ UNCHANGED activeDocs

\* What opening a file comes to: an error, or the document.
OpenError(c) ==
  IF disk[c.path] = 0 THEN "unreadable"
  ELSE IF c.path \notin Protected \/ c.password = "right" THEN "none"
  ELSE IF c.password = "wrong" THEN "incorrect password" ELSE "password required"

WorkerOpens ==
  LET c == Head(app.control) IN
  /\ app.control # <<>> /\ c.type = "open" /\ HasRoom
  /\ app' = [app EXCEPT !.control = Tail(@)]
  /\ \/ /\ OpenError(c) = "none"
        /\ Answer([type |-> "opened", doc |-> c.doc, pages |-> Pages[c.path][disk[c.path]]])
        /\ activeDocs' = Put(activeDocs, [doc |-> c.doc, pages |-> Pages[c.path][disk[c.path]]])
     \/ OpenError(c) # "none" /\ Fails(c.doc, OpenError(c))
     \/ Fails(c.doc, "unreadable")
  /\ UNCHANGED <<disk, changed, session, pumping>>

WorkerCloses ==
  /\ app.control # <<>> /\ Head(app.control).type = "close"
  /\ activeDocs' = Without(activeDocs, Head(app.control).doc)
  /\ app' = [app EXCEPT !.control = Tail(@)]
  /\ UNCHANGED <<events, disk, changed, session, pumping>>

WorkerMeasures ==
  LET c == Head(app.low)
      pages == EntryOf(activeDocs, c.doc).pages
      end == IF c.start + Batch < pages THEN c.start + Batch ELSE pages
  IN  /\ app.low # <<>> /\ HasRoom
      /\ app' = [app EXCEPT !.low = Tail(@)]
      /\ IF ~ IsOpen(activeDocs, c.doc) THEN UNCHANGED <<events, activeDocs>>
         ELSE /\ activeDocs' = Touched(activeDocs, c.doc)
              /\ \/ Answer([type |-> "dimensions", doc |-> c.doc, start |-> c.start,
                            count |-> IF end > c.start THEN end - c.start ELSE 0])
                 \/ Answer([type |-> "error", doc |-> c.doc, error |-> "unreadable"])
      /\ UNCHANGED <<disk, changed, session, pumping>>

\* A page of the document shown is drawn, which makes it the most recent.
WorkerDraws ==
  /\ Showing(app)
  /\ activeDocs' = Touched(activeDocs, app.active)
  /\ UNCHANGED <<app, events, disk, changed, session, pumping>>

\* Another program writes, removes or brings back a file.
FileWritten(path) ==
  /\ \E version \in 0..Len(Pages[path]) :
       version # disk[path] /\ disk' = [disk EXCEPT ![path] = version]
  /\ changed' = IF app.watched = path THEN changed \cup {path} ELSE changed
  /\ UNCHANGED <<app, events, activeDocs, session, pumping>>

-----------------------------------------------------------------------------
Worker == WorkerOpens \/ WorkerCloses \/ WorkerMeasures

Pump ==
  \/ DocumentOpened \/ DimensionsFetched \/ ErrorReceived
  \/ \E path \in Paths : FileChange(path)

User ==
  \/ \E path \in Paths : OpenFile(path)
  \/ \E id \in 1..MaxTabId : ActivateTab(id)
  \/ "close" \in Doings /\ \E id \in 1..MaxTabId : CloseTab(id)
  \/ "blank" \in Doings /\ NewBlankTab
  \/ "navigate" \in Doings /\ \E page \in 0..MaxPages - 1 : NavigateTo(page)
  \/ \E password \in Passwords \ {"none"} : Unlock(password)
  \/ CancelUnlock \/ Retry

Next ==
  \/ RestoreTab \/ StartPump \/ User \/ Pump \/ Worker
  \/ "draw" \in Doings /\ WorkerDraws
  \/ "write" \in Doings /\ \E path \in Paths : FileWritten(path)

Spec == Init /\ [][Next]_vars

\* The worker takes a command it has begun with to its answer, waiting for room
\* if it must, and polls control work first; the pump's timer keeps firing.
Fairness ==
  /\ WF_vars(RestoreTab) /\ WF_vars(StartPump)
  /\ SF_vars(WorkerOpens \/ WorkerCloses)
  /\ WF_vars(DocumentOpened \/ DimensionsFetched \/ ErrorReceived)

FairSpec == Spec /\ Fairness

-----------------------------------------------------------------------------
(* Properties *)

TabIds == 1..MaxTabId
States == {"none", "opening", "password", "ready", "failed"}
Layout == [doc : 0..MaxTabId, pages : 0..MaxPages, next : Nat]
Tab == [id : TabIds, path : Paths \cup {NoPath}, page : 0..MaxPages,
        doc : [state : States, pages : 0..MaxPages], layout : Layout]
Positions == DOMAIN app.tabs

\* A blank tab has no document, a ready one shows pages, the queues keep to
\* their capacities and the worker to its number of open documents.
ViewerTypeOK ==
  /\ \A i \in Positions : app.tabs[i] \in Tab
  /\ \A i \in Positions : app.tabs[i].path = NoPath => app.tabs[i].doc = NoDocument
  /\ \A i \in Positions : app.tabs[i].doc.state = "ready" => app.tabs[i].doc.pages > 0
  /\ Len(app.tabs) <= MaxTabs /\ app.nextId \in 0..MaxTabId /\ app.shown \in Layout
  /\ app.asking \in BOOLEAN /\ app.dialog \in BOOLEAN /\ app.watched \in Paths \cup {NoPath}
  /\ Len(app.control) <= ControlCap /\ Len(app.low) <= LowCap /\ Len(events) <= EventCap
  /\ Len(activeDocs) <= MaxOpenTabs

\* Whatever is opened, closed, dropped or restored in whatever order, a file
\* has one tab, an id names one tab and the active tab is one of them.
OneTabPerFile ==
  /\ \A i, j \in Positions :
       app.tabs[i].id = app.tabs[j].id \/ app.tabs[i].path = app.tabs[j].path
         => i = j \/ (app.tabs[i].path = NoPath /\ app.tabs[i].id # app.tabs[j].id)
  /\ IF app.tabs = <<>> THEN app.active = 0 ELSE HasTab(app, app.active)

Concerns(c, id) == c.type \in {"open", "opened", "error"} /\ c.doc = id

\* No tab is left on "Opening...": the worker still has the command or the UI
\* still has to handle the answer.  (An incorrect password is the exception,
\* which leaves the tab opening behind its dialog: for files without one.)
OpeningIsAnswered ==
  \A i \in Positions : app.tabs[i].doc.state = "opening" /\ app.tabs[i].path \notin Protected =>
    \/ \E k \in DOMAIN app.control : Concerns(app.control[k], app.tabs[i].id)
    \/ \E k \in DOMAIN events : Concerns(events[k], app.tabs[i].id)

\* An answer never reaches another tab than the one that asked, even when that
\* one was closed and others were opened meanwhile: what a tab shows has as many
\* pages as some version of its own file.
TabShowsItsFile ==
  /\ ViewerTypeOK
  /\ \A i \in Positions : app.tabs[i].doc.pages > 0 =>
       \E v \in DOMAIN Pages[app.tabs[i].path] : Pages[app.tabs[i].path][v] = app.tabs[i].doc.pages

\* A document that is shown stays while its file is opened again, whether that
\* succeeds, fails, is refused by a full queue or needs a password; it goes only
\* with its tab, or when its tab is activated and the file is gone.
ReloadKeepsDocument ==
  [][\A id \in TabIds :
       HasTab(app, id) /\ HasTab(app', id) /\ TabOf(app, id).doc.pages > 0
         => \/ TabOf(app', id).doc.pages > 0
            \/ app.active # id /\ app'.active = id /\ disk[TabOf(app, id).path] = 0]_vars

\* Every open (of a file without a password, as above) is answered in the end, and
\* the answer is taken.
OpensFinish ==
  \A id \in TabIds :
    (HasTab(app, id) /\ TabOf(app, id).doc.state = "opening" /\ TabOf(app, id).path \notin Protected)
      ~> (HasTab(app, id) => TabOf(app, id).doc.state # "opening")

\* Tabs keep their own layout: the pages that are laid out are those of the
\* active tab's document (apps/barepdf/src/presentation/state.rs:1515).
ShownLayoutIsItsOwn ==
  pumping /\ app.active # 0 /\ ActiveTab(app).doc.state = "ready"
    => app.shown.doc = app.active /\ app.shown.pages = PageCount(app)

\* As many documents as there may be tabs stay open in the worker and can be
\* rendered (crates/barepdf-render/src/worker.rs:1000).
ReadyTabsAreOpenInWorker ==
  \A i \in Positions :
    app.tabs[i].doc.state = "ready" => IsOpen(activeDocs, app.tabs[i].id)
=============================================================================

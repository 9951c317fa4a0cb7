------------------------------ MODULE Reading ------------------------------
(***************************************************************************)
(* Reading a document: which pages are in sight, what is asked of the      *)
(* render worker for them, and what its answers do to what is shown        *)
(* (apps/barepdf/src/presentation/ui.rs, callbacks/navigation.rs and       *)
(* print.rs).  Every callback and every event the pump handles is one      *)
(* action of the UI thread; the worker takes one command at a time.        *)
(*                                                                         *)
(* A size is a percentage: a page as wide as the first is 100 at a zoom of *)
(* one.  A scroll position of 2p shows page p, and one of 2p + 1 the pages *)
(* p and p + 1.                                                            *)
(***************************************************************************)
EXTENDS ByteLru, FiniteSets

CONSTANTS
  Docs, None,
  Widths,          \* how wide the pages are, next to the first one
  Broken,          \* pages that may fail to be drawn
  Zooms,           \* bound: zoom factors
  ZoomBudgets,     \* adaptive_cache_budget
  PresentSize, PreviewSize, ThumbSize,   \* sizes that do not follow the zoom
  Batch, Lookahead,                      \* FetchPageDimensions::count, and pages ahead
  LowCap,                                \* a lane's capacity
  Readings   \* bound: the pages, what is done and how often, in one behaviour

VARIABLES
  cache,   \* AppState::page_images
  budget,  \* its budget
  ui,      \* the rest of AppState and of the window
  lanes,   \* the visible and the low lane, and whether a request of this generation was refused
  worker,  \* the worker's bitmaps
  events   \* the critical and the normal event queue

Preview == INSTANCE PrintPreview

\* The length of the document
N == ui.session.pages
PageRange == 1..N

\* What the UI thread has in its hands while it runs a callback.
Now == [ui |-> ui, cache |-> cache, budget |-> budget, lanes |-> lanes]
Becomes(s) == ui' = s.ui /\ cache' = s.cache /\ budget' = s.budget /\ lanes' = s.lanes

View(s) == s.ui.views[s.ui.doc]

FreshView == [page |-> 1, at |-> 2, zoom |-> 1, turned |-> FALSE, sidebar |-> "none",
              next |-> 2, measured |-> {1}]

Init ==
  /\ \E session \in Readings, sidebar \in {"none", "thumbs", "outline"} :
       /\ "sidebar" \notin session.doing => sidebar = "none"
       /\ \E doc \in Docs, page \in 1..session.pages :
            ui = [session |-> session, doc |-> doc, opened |-> FALSE, generation |-> 1,
                  views |-> [d \in Docs |-> [FreshView EXCEPT !.page = page, !.at = 2 * page,
                                                              !.sidebar = sidebar]],
                  mode |-> "continuous", window |-> "normal", invert |-> FALSE,
                  ready |-> FALSE, visible |-> {}, failed |-> {}, asking |-> FALSE,
                  scrolled |-> FALSE, resized |-> FALSE, outline |-> "none",
                  texts |-> {}, thumbs |-> {}, preview |-> Preview!Closed, requests |-> 0, acts |-> 0]
  /\ cache = EmptyCache /\ budget = ZoomBudgets[1]
  /\ lanes = [visible |-> <<>>, low |-> <<>>, refused |-> FALSE]
  /\ worker = {}
  /\ events = [critical |-> <<[kind |-> "opened", doc |-> ui.doc]>>, normal |-> <<>>]

-----------------------------------------------------------------------------
(* What is in sight *)

\* ContinuousLayout::visible_pages
FirstAt(at) == at \div 2
LastAt(at) == (at + 1) \div 2

\* Facing pages: the first two together, or (a book) the first alone.
Spread(page) == {p \in PageRange : (p - 1) \div 2 = (page - 1) \div 2}
Facing(page) == {p \in PageRange : p \div 2 = page \div 2}

\* visible_page_indices
InSight(s) ==
  LET v == View(s)
      margin == IF v.zoom >= 3 THEN 0 ELSE 1
  IN  CASE s.ui.window = "presentation" \/ s.ui.mode = "single" -> {v.page}
        [] s.ui.mode = "spread" -> Spread(v.page)
        [] s.ui.mode = "book" -> Facing(v.page)
        [] OTHER -> {p \in PageRange : FirstAt(v.at) - margin <= p /\ p <= LastAt(v.at) + margin}

\* The width the layout gives a page: the first page's until its own is known.
WidthOf(s, p) == IF p \in View(s).measured THEN Widths[p] ELSE 1

FullSize(s, p) ==
  IF s.ui.window = "presentation" THEN PresentSize ELSE 100 * View(s).zoom * WidthOf(s, p)

\* The first bitmap is asked for at logical resolution.
SizeOf(s, p) == IF s.ui.ready THEN FullSize(s, p) ELSE (45 * FullSize(s, p)) \div 100

-----------------------------------------------------------------------------
(* What is asked of the worker *)

Key(c) == <<c.generation, c.doc, c.page, c.size, c.turned, c.kind>>

\* send_render_command: a render whose key is pending is dropped as done, a full
\* lane refuses.
Send(s, lane, c) ==
  LET waiting == ToSet(s.lanes.visible) \cup ToSet(s.lanes.low)
  IN  IF c.kind \in {"page", "thumbnail"}
         /\ \E w \in waiting : w.kind \in {"page", "thumbnail"} /\ Key(w) = Key(c) THEN s
      ELSE IF lane = "low" /\ Len(s.lanes.low) = LowCap THEN [s EXCEPT !.lanes.refused = TRUE]
      ELSE [s EXCEPT !.lanes[lane] = Append(@, c)]

Render(s, p, kind, size, turned, request) ==
  [kind |-> kind, doc |-> s.ui.doc, generation |-> s.ui.generation, page |-> p,
   size |-> size, turned |-> turned, request |-> request]

FetchText(s, p) ==
  Send(s, "low", [kind |-> "text", doc |-> s.ui.doc, generation |-> s.ui.generation, page |-> p])

OnEach(Op(_, _), s, pages) ==
  FoldLeft(Op, s, SetToSortSeq(pages, LAMBDA a, b : a < b))

\* refresh_page_model, where every page in sight is looked up
RefreshPageModel(s) ==
  LET Look(c, p) == [c EXCEPT !.entries = Touched(@, [doc |-> s.ui.doc, page |-> p])]
      seen == OnEach(Look, s.cache, InSight(s))
  IN  [s EXCEPT !.ui.visible = InSight(s), !.cache = Look(seen, View(s).page)]

\* render_visible_pages
RenderVisiblePages(s) ==
  LET Ask(t, p) ==
        Send(t, IF p = View(t).page THEN "visible" ELSE "low",
             Render(t, p, "page", SizeOf(t, p), View(t).turned, 0))
      Read(t, p) == IF <<t.ui.doc, p>> \in t.ui.texts THEN t ELSE FetchText(t, p)
      asked == OnEach(Ask, s, InSight(s))
  IN  RefreshPageModel(IF s.ui.ready THEN OnEach(Read, asked, InSight(s)) ELSE asked)

\* request_visible_thumbnails
RequestThumbnails(s) ==
  LET Ask(t, p) == Send(t, "low", Render(t, p, "thumbnail", ThumbSize * WidthOf(t, p),
                                         View(t).turned, 0))
      missing == {p \in PageRange : <<s.ui.doc, p>> \notin s.ui.thumbs}
  IN  IF s.ui.ready /\ View(s).sidebar = "thumbs" THEN OnEach(Ask, s, missing) ELSE s

\* request_next_dimensions_batch
RequestDimensions(s) ==
  LET ask == [kind |-> "dimensions", doc |-> s.ui.doc, start |-> View(s).next]
      sent == Send(s, "low", ask)
  IN  IF s.ui.asking \/ View(s).next > N THEN s
      ELSE [sent EXCEPT !.ui.asking = sent.lanes.low # s.lanes.low]

RequestOutline(s) ==
  LET sent == Send(s, "low", [kind |-> "outline", doc |-> s.ui.doc])
  IN  IF View(s).sidebar # "outline" \/ s.ui.outline # "none" THEN s
      ELSE [sent EXCEPT !.ui.outline = IF sent.lanes.low # s.lanes.low THEN "asked" ELSE "none"]

\* request_print_preview_render: the dialog is emptied before it is known whether
\* the request is taken.
RequestPreview(s) ==
  LET v == s.ui.preview
      turned == View(s).turned # v.landscape
      id == s.ui.requests + 1
      expecting == [s EXCEPT !.ui.preview = Preview!Expecting(@, id), !.ui.requests = id]
  IN  IF ~v.open \/ v.doc # s.ui.doc \/ v.generation # s.ui.generation THEN s
      ELSE Send(expecting, "visible", Render(s, v.page, "page", PreviewSize, turned, id))

\* requeue_print_preview_for_generation
RequeuePreview(s) ==
  LET v == s.ui.preview
  IN  IF v.open /\ v.doc # s.ui.doc THEN [s EXCEPT !.ui.preview = Preview!Close(@)]
      ELSE RequestPreview([s EXCEPT !.ui.preview.generation =
                                      IF v.open THEN s.ui.generation ELSE @,
                                    !.ui.preview.pending = IF v.open THEN 0 ELSE @])

\* bump_generation
Bump(s) == [s EXCEPT !.ui.generation = @ + 1, !.lanes.refused = FALSE]

\* Mutant: the thumbnails asked for in the generation before are relied on.
RefreshWithoutThumbnails(s) == RequeuePreview(RenderVisiblePages([s EXCEPT !.ui.failed = {}]))

\* refresh_generation_bound_views
RefreshViews(s) ==
  RequeuePreview(RequestThumbnails(RenderVisiblePages([s EXCEPT !.ui.failed = {}])))

\* navigate_to_page_inner
NavigateTo(s, page) ==
  LET there == [s EXCEPT !.ui.views[s.ui.doc].page = page,
                         !.ui.views[s.ui.doc].at =
                           IF s.ui.mode = "continuous" /\ s.ui.window # "presentation"
                           THEN 2 * page ELSE @]
  IN  RefreshViews(RequestDimensions(Bump(there)))

\* compute_anchor and restore_anchor: the page in the middle comes to the top.
Anchored(s) ==
  LET v == View(s)
      primary == IF FirstAt(v.at) = v.page THEN v.page ELSE LastAt(v.at)
  IN  IF s.ui.mode = "continuous" THEN {2 * primary, Min({2 * primary + 1, 2 * N})} ELSE {v.at}

ClearImages(s) ==
  [s EXCEPT !.cache = Popping(@, {k \in KeysOf(s.cache.entries) : k.doc = s.ui.doc})]

\* invalidate_layout_and_render
Invalidated(s, at, clear) ==
  LET there == [s EXCEPT !.ui.views[s.ui.doc].at = at]
  IN  RefreshViews(Bump(IF clear THEN ClearImages(there) ELSE there))

-----------------------------------------------------------------------------
(* The event pump *)

\* What is left of a queue once what is in front of it and of an old generation is
\* dropped: neither the worker nor the pump does anything else with it.
Current(queue) ==
  LET Counts(c) == "generation" \notin DOMAIN c \/ c.generation = ui.generation
      current == {i \in DOMAIN queue : Counts(queue[i])}
  IN  IF current = {} THEN <<>> ELSE SubSeq(queue, Min(current), Len(queue))

Accepts(s, e) == e.doc = s.ui.doc /\ e.generation = s.ui.generation

\* UiImageCache::insert, of an image that replaces one of the same size only in
\* the order of use
Insert(s, e) ==
  LET key == [doc |-> e.doc, page |-> e.page]
      Same(i) == i.key = key /\ i.bytes = e.size
      old == SelectSeq(s.cache.entries, Same)
      image == IF old # <<>> THEN old[1]
               ELSE [key |-> key, bytes |-> e.size, turned |-> e.turned, invert |-> e.invert]
      room == Popping(s.cache, {key})
      put == [entries |-> <<image>> \o room.entries, bytes |-> room.bytes + e.size]
  IN  IF e.size > s.budget THEN s
      ELSE [s EXCEPT !.cache = DroppingTo(put, s.budget, Len(put.entries))]

\* start_deferred_document_work
StartDeferredWork(s) ==
  FetchText(RequestOutline(RequestThumbnails(RequestDimensions(s))), View(s).page)

\* handle_render_event (PageRendered) of a page
ShowPage(s, e) ==
  LET shown == Insert([s EXCEPT !.ui.failed = @ \ {e.page}], e)
      ready == [shown EXCEPT !.ui.ready = TRUE]
  IN  RefreshPageModel(IF s.ui.ready THEN shown ELSE RenderVisiblePages(StartDeferredWork(ready)))

HandlePage(s, e) ==
  CASE e.request # 0 /\ Preview!Accepts(s.ui.preview, e) ->
         [s EXCEPT !.ui.preview = Preview!Showing(@, e)]
    [] ~Accepts(s, e) -> s
    [] e.kind = "page" -> ShowPage(s, e)
    [] OTHER -> [s EXCEPT !.ui.thumbs = @ \cup {<<e.doc, e.page>>}]

HandleText(s, e) ==
  IF Accepts(s, e) THEN RefreshPageModel([s EXCEPT !.ui.texts = @ \cup {<<e.doc, e.page>>}])
  ELSE s

\* handle_render_event (Error): which page it was of is not said.
HandleError(s, e) ==
  LET shown == {p \in PageRange : [doc |-> s.ui.doc, page |-> p] \in KeysOf(s.cache.entries)}
  IN  IF Accepts(s, e) THEN [s EXCEPT !.ui.failed = @ \cup (s.ui.visible \ shown)] ELSE s

\* handle_render_event (OutlineFetched)
HandleOutline(s, e) == IF e.doc = s.ui.doc THEN [s EXCEPT !.ui.outline = "there"] ELSE s

\* Where the view can be after a layout changed under it: it is held unless the
\* user has just scrolled, when pages move under a scroll position that stays.
Held(s) ==
  Anchored(s) \cup (IF s.ui.scrolled THEN {a \in 2..2 * N : a \in View(s).at - 1..View(s).at + 1}
                    ELSE {})

\* handle_render_event (PageDimensionsFetched)
HandleDimensions(s, e, at) ==
  LET last == e.start + e.count - 1
      answered == [s EXCEPT !.ui.asking = FALSE]
      changed == {p \in e.start..last : WidthOf(s, p) # Widths[p]}
      known == [answered EXCEPT
                  !.ui.views[e.doc].measured = @ \cup (e.start..last),
                  !.ui.views[e.doc].at = at,
                  !.ui.views[e.doc].next = last + 1,
                  !.ui.thumbs = @ \ {<<e.doc, p>> : p \in changed}]
      more == IF View(s).page + Lookahead >= last + 1 THEN RequestDimensions(known) ELSE known
  IN  IF e.doc # s.ui.doc THEN s ELSE RefreshViews(Bump(more))

\* handle_render_event (DocumentOpened), then navigate_to_page_inner and the
\* scroll position the tab had
HandleOpened(s) ==
  LET there == NavigateTo([s EXCEPT !.ui.opened = TRUE, !.ui.ready = FALSE, !.ui.visible = {}],
                          View(s).page)
  IN  [there EXCEPT !.ui.views[s.ui.doc].at = View(s).at]

TakeCritical ==
  /\ events.critical # <<>>
  /\ events' = [events EXCEPT !.critical = Tail(@)]
  /\ LET e == Head(events.critical)
     IN  \/ e.kind = "opened" /\ Becomes(HandleOpened(Now))
         \/ e.kind = "error" /\ Becomes(HandleError(Now, e))
         \/ e.kind = "outline" /\ Becomes(HandleOutline(Now, e))
         \/ /\ e.kind = "dimensions"
            /\ \E at \in Held(Now) : Becomes(HandleDimensions(Now, e, at))

\* Answers of an old generation are let go.
TakeEvent ==
  /\ events.critical = <<>> /\ events.normal # <<>>
  /\ LET current == Current(events.normal)
     IN  /\ events' = [events EXCEPT !.normal = IF current = <<>> THEN <<>> ELSE Tail(current)]
         /\ IF current = <<>> THEN UNCHANGED <<ui, cache, budget, lanes>>
            ELSE LET e == Head(current)
                 IN  Becomes(IF e.kind = "text" THEN HandleText(Now, e) ELSE HandlePage(Now, e))

Pump == (TakeCritical \/ TakeEvent) /\ UNCHANGED worker

-----------------------------------------------------------------------------
(* The worker (RenderPipeline has it in detail) *)

Answer(queue, e) == events' = [events EXCEPT ![queue] = Append(@, e)]

Bitmap(c) == [doc |-> c.doc, page |-> c.page, size |-> c.size, turned |-> c.turned,
              invert |-> ui.invert]

\* The bitmap itself, or any larger one of that page (get_larger_compatible)
Fitting(c) ==
  IF Bitmap(c) \in worker THEN {Bitmap(c)}
  ELSE {b \in worker : b.size >= c.size /\ [b EXCEPT !.size = c.size] = Bitmap(c)}

Rendered(c, b) ==
  Answer("normal", [kind |-> c.kind, doc |-> c.doc, generation |-> c.generation, page |-> c.page,
                    size |-> b.size, turned |-> b.turned, invert |-> b.invert,
                    request |-> c.request])

RenderPage(c) ==
  \/ \E b \in Fitting(c) : Rendered(c, b) /\ UNCHANGED worker
  \/ /\ Fitting(c) = {} /\ worker' = worker \cup {Bitmap(c)} /\ Rendered(c, Bitmap(c))
  \/ /\ Fitting(c) = {} /\ c.page \in Broken /\ "failure" \in ui.session.doing
     /\ Answer("critical", [kind |-> "error", doc |-> c.doc, generation |-> c.generation])
     /\ UNCHANGED worker

Serve(c) ==
  \/ c.kind \in {"page", "thumbnail"} /\ RenderPage(c)
  \/ c.kind = "text" /\ Answer("normal", c) /\ UNCHANGED worker
  \/ /\ c.kind = "dimensions"
     /\ Answer("critical", c @@ [count |-> Min({Batch, N - c.start + 1})]) /\ UNCHANGED worker
  \/ /\ c.kind = "outline" /\ Answer("critical", c) /\ UNCHANGED worker

Worker ==
  /\ UNCHANGED <<ui, cache, budget>>
  /\ LET visible == Current(lanes.visible)
         low == Current(lanes.low)
     IN  \/ /\ visible # <<>> /\ Serve(Head(visible))
            /\ lanes' = [lanes EXCEPT !.visible = Tail(visible)]
         \/ /\ visible = <<>> /\ low # <<>> /\ Serve(Head(low))
            /\ lanes' = [lanes EXCEPT !.visible = <<>>, !.low = Tail(low)]
         \/ /\ visible = <<>> /\ low = <<>> /\ lanes.visible \o lanes.low # <<>>
            /\ lanes' = [lanes EXCEPT !.visible = <<>>, !.low = <<>>] /\ UNCHANGED <<worker, events>>

-----------------------------------------------------------------------------
(* What the user does *)

\* The bound: so many things are done in a behaviour.
May(what) == what \in ui.session.doing /\ ui.opened /\ ui.acts < ui.session.acts
Act(s) == [s EXCEPT !.ui.acts = @ + 1]

\* The targets of connect_navigation_callbacks
Target(where) ==
  LET page == View(Now).page
      step == IF ui.mode \in {"spread", "book"} THEN 2 ELSE 1
  IN  CASE where = "first" -> 1
        [] where = "last" -> N
        [] where = "previous" ->
             IF ui.mode = "book" /\ page <= 3 THEN 1 ELSE Max({page - step, 1})
        [] where = "next" ->
             IF ui.mode = "book" /\ page = 1 THEN Min({2, N}) ELSE Min({page + step, N})

\* The four buttons; a thumbnail, a bookmark or a page number that was typed
Navigate ==
  /\ May("navigate")
  /\ \/ \E where \in {"first", "last", "previous", "next"} :
          Becomes(NavigateTo(Act(Now), Target(where)))
     \/ \E page \in PageRange : Becomes(NavigateTo(Act(Now), page))

\* process_view_changes, when the scroll position has moved
Scroll ==
  /\ May("scroll") /\ ui.ready /\ ui.mode = "continuous" /\ ui.window = "normal"
  /\ \E at \in 2..2 * N, page \in PageRange :
       /\ FirstAt(at) <= page /\ page <= LastAt(at)
       /\ <<at, page>> # <<View(Now).at, View(Now).page>>
       /\ LET there == RequestDimensions(
                         [Act(Now) EXCEPT !.ui.views[ui.doc].at = at, !.ui.views[ui.doc].page = page,
                                     !.ui.scrolled = TRUE])
          IN  Becomes(CASE InSight(there) # ui.visible -> RefreshViews(Bump(there))
                        [] page # View(Now).page /\ <<ui.doc, page>> \notin ui.texts ->
                             FetchText(there, page)
                        [] OTHER -> there)

\* The user has not scrolled for SCROLL_IDLE_DELAY.
ScrollRests ==
  ui.scrolled /\ Becomes([Now EXCEPT !.ui.scrolled = FALSE])

SetZoom ==
  /\ May("zoom")
  /\ \E zoom \in Zooms \ {View(Now).zoom} :
       LET zoomed == [Act(Now) EXCEPT !.ui.views[ui.doc].zoom = zoom, !.budget = ZoomBudgets[zoom],
                                 !.cache = DroppingTo(@, ZoomBudgets[zoom], Len(@.entries))]
       IN  \E at \in Anchored(Now) : Becomes(Invalidated(zoomed, at, FALSE))

\* Mutant: the images of the old rotation stay.
RotateKeepingImages ==
  /\ May("rotate")
  /\ \E at \in Anchored(Now) :
       Becomes(Invalidated([Act(Now) EXCEPT !.ui.views[ui.doc].turned = ~@], at, FALSE))

Rotate ==
  /\ May("rotate")
  /\ \E at \in Anchored(Now) :
       Becomes(Invalidated([Act(Now) EXCEPT !.ui.views[ui.doc].turned = ~@], at, TRUE))

ToggleInvert ==
  /\ May("invert")
  /\ \E at \in Anchored(Now) : Becomes(Invalidated([Act(Now) EXCEPT !.ui.invert = ~@], at, TRUE))

ToggleViewMode ==
  /\ May("mode")
  /\ LET mode == CASE ui.mode = "continuous" -> "single" [] ui.mode = "single" -> "spread"
                   [] ui.mode = "spread" -> "book" [] ui.mode = "book" -> "continuous"
     IN  Becomes(NavigateTo([Act(Now) EXCEPT !.ui.mode = mode], View(Now).page))

\* request_toggle_sidebar, request_sidebar_tab
SelectSidebar ==
  /\ May("sidebar")
  /\ \E tab \in {"none", "thumbs", "outline"} \ {View(Now).sidebar} :
       LET there == [Act(Now) EXCEPT !.ui.views[ui.doc].sidebar = tab]
       IN  Becomes(IF tab = "outline" THEN RequestOutline(there) ELSE RequestThumbnails(there))

\* Thumbnails and the preview are not asked for again.
Present ==
  /\ May("present") /\ ui.window = "normal"
  /\ Becomes(RenderVisiblePages(Bump([Act(Now) EXCEPT !.ui.window = "presentation",
                                                 !.ui.resized = TRUE])))

LeavePresentation ==
  /\ May("present") /\ ui.window = "presentation"
  /\ Becomes([Act(Now) EXCEPT !.ui.window = "normal", !.ui.resized = TRUE])

\* process_view_changes, 100 ms after the viewport last changed
ViewportRests ==
  /\ ui.resized
  /\ \E at \in Anchored(Now) :
       Becomes(Invalidated([Now EXCEPT !.ui.resized = FALSE], at, TRUE))

\* request_activate_tab, of a document that is ready: the search for an answer to
\* in_flight.dimensions_request is not given up.
Activate ==
  /\ May("tabs")
  /\ \E d \in Docs \ {ui.doc} :
       LET left == Bump([Act(Now) EXCEPT !.ui.visible = {}, !.ui.failed = {},
                                    !.ui.outline = "none", !.ui.preview = Preview!Close(@)])
           there == [left EXCEPT !.ui.doc = d]
       IN  Becomes(RequestDimensions(RefreshViews(RefreshPageModel(there))))

OpenPreview ==
  /\ May("preview") /\ ~ui.preview.open
  /\ Becomes(RequestPreview([Act(Now) EXCEPT !.ui.preview =
                               Preview!OpenAt(ui.doc, ui.generation, N, View(Now).page)]))

\* request_print_preview_page, request_print_preview_range,
\* request_print_preview_orientation
ChangePreview ==
  /\ May("preview") /\ ui.preview.open
  /\ \/ \E by \in {-1, 1} :
          /\ Preview!CanStep(ui.preview, by)
          /\ Becomes(RequestPreview([Act(Now) EXCEPT !.ui.preview = Preview!Stepped(@, by)]))
     \/ \E pages \in (SUBSET PageRange) \ {{}} :
          Becomes(RequestPreview([Act(Now) EXCEPT !.ui.preview =
                                    Preview!WithPages(@, Preview!InOrder(pages))]))
     \/ Becomes(RequestPreview([Act(Now) EXCEPT !.ui.preview.landscape = ~@]))

\* close_print_preview, and request_confirm_print, which closes it whether or not
\* the document is still the one it was opened for
ClosePreview ==
  ui.preview.open /\ Becomes([Now EXCEPT !.ui.preview = Preview!Close(@)])

User ==
  /\ \/ Navigate \/ Scroll \/ ScrollRests \/ SetZoom \/ Rotate \/ ToggleInvert
     \/ ToggleViewMode \/ SelectSidebar \/ Present \/ LeavePresentation \/ ViewportRests
     \/ Activate \/ OpenPreview \/ ChangePreview \/ ClosePreview
  /\ UNCHANGED <<worker, events>>

Next == Worker \/ Pump \/ User

-----------------------------------------------------------------------------
(* Properties *)

AtRest ==
  /\ lanes.visible = <<>> /\ lanes.low = <<>> /\ events.critical = <<>> /\ events.normal = <<>>
  /\ ~ui.resized /\ ~lanes.refused

Image(p) == SelectSeq(cache.entries, LAMBDA i : i.key = [doc |-> ui.doc, page |-> p])

\* The images of what is in sight have room together, also when the worker has
\* them larger than they are asked for.
SightFits ==
  LET Largest(p) == Max({FullSize(Now, p)} \cup
                        {b.size : b \in {b \in worker : b.doc = ui.doc /\ b.page = p}})
  IN  FoldSet(LAMBDA p, sum : sum + Largest(p), 0, InSight(Now)) <= budget

IsSharp(p) ==
  \E i \in ToSet(Image(p)) :
    i.bytes >= FullSize(Now, p) /\ i.turned = View(Now).turned /\ i.invert = ui.invert

\* When everything asked for has been answered, whatever was done meanwhile, each
\* page in sight is drawn at its size and rotation, or is marked as failed where it
\* may fail, and its text is there.  The print preview is left out: see
\* PreviewStaysInDialog.
ViewIsSharp ==
  AtRest /\ SightFits /\ "preview" \notin ui.session.doing =>
    /\ ui.visible = InSight(Now)
    /\ \A p \in InSight(Now) : Image(p) # <<>> \/ p \in ui.failed
    /\ ~InSight(Now) \subseteq Broken =>
         \A p \in InSight(Now) : (IsSharp(p) \/ p \in Broken) /\ <<ui.doc, p>> \in ui.texts

\* Then, too, the sidebar that is open has all its thumbnails, and nobody waits for
\* an outline.
SidebarIsComplete ==
  AtRest /\ ~InSight(Now) \subseteq Broken /\ ui.window = "normal" =>
    /\ View(Now).sidebar = "thumbs" =>
         \A p \in PageRange \ Broken : <<ui.doc, p>> \in ui.thumbs
    /\ ui.outline # "asked"

\* What the print dialog shows is the page it is on, the way the paper lies.
PreviewShowsItsPage ==
  \A shown \in ToSet(ui.preview.shown) :
    /\ shown.page = ui.preview.page
    /\ shown.turned = (View(Now).turned # ui.preview.landscape)

\* A render for the dialog is never taken for the page in the window.
PreviewStaysInDialog == \A i \in ToSet(cache.entries) : i.bytes # PreviewSize
=============================================================================

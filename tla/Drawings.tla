------------------------------ MODULE Drawings ------------------------------
(***************************************************************************)
(* Marks on the pages: the drawing session of the UI                       *)
(* (apps/barepdf/src/presentation/callbacks/drawing.rs), its undo history  *)
(* (AnnotationHistory, crates/barepdf-core/src/types.rs), the cached       *)
(* overlays (models.rs, state.rs), the save in the background              *)
(* (save_with_annotations, crates/barepdf-pdf/src/operations.rs) and the   *)
(* question before a tab with marks closes (callbacks/tabs.rs).            *)
(*                                                                         *)
(* A document is named by its tab, as in the code (DocumentId is the tab's *)
(* id), and every tab shows a file of its own.  A mark is an identity on a *)
(* page; colours, points and positions are left out.                       *)
(***************************************************************************)
EXTENDS Integers, Sequences, FiniteSets, SequencesExt, TLC

CONSTANTS
  Docs,         \* tabs there can be
  PageCount,    \* pages of every document
  MaxStack,     \* AnnotationHistory::MAX_STACK_SIZE
  MaxOverlays,  \* PageOverlayCache::MAX_ENTRIES
  MaxMarks,     \* bound: marks made in a behaviour
  Sights,       \* the sets of pages that can be in sight
  Sessions,     \* bound: sets of what is done together in one behaviour
  None

Pages == 1..PageCount

ASSUME DrawingsAssumption ==
  /\ None \notin Docs /\ Sights \subseteq SUBSET Pages
  /\ Sessions \subseteq SUBSET {"pen", "eraser", "text", "highlight", "sign",
                                "undo", "clear", "page", "save", "tabs"}
  /\ {PageCount, MaxStack, MaxOverlays, MaxMarks} \subseteq Nat \ {0}

VARIABLES
  session,   \* what is done in this behaviour
  tabs,      \* the tabs that are open, those with a document, the active one, those closed
  page,      \* AppState::current_page
  marks,     \* DrawingSession::annotations, where there is an entry
  history,   \* DrawingSession::annotation_history
  ui,        \* the drawing mode, the tool, the pointer, and the dialogs
  overlays,  \* PageOverlayCache and CommittedOverlayCache
  saving,    \* in_flight.annotation_save, and the background threads' work
  files,     \* what has been saved into every document's file
  made       \* marks made so far

vars == <<session, tabs, page, marks, history, ui, overlays, saving, files, made>>

Kinds == {"ink", "highlight", "signature", "text"}
Mark == [id : 1..MaxMarks, page : Pages, kind : Kinds]
NoStroke == [doc |-> None, page |-> 0]
NoHistory == [undo |-> <<>>, redo |-> <<>>]

\* Where f has no value at d, d gets one.
With(f, d, v) == [x \in DOMAIN f \cup {d} |-> IF x = d THEN v ELSE f[x]]
Without(f, S) == [x \in DOMAIN f \ S |-> f[x]]
MarksOf(d) == IF d \in DOMAIN marks THEN marks[d] ELSE {}

\* active_document
Active == tabs.active
HasDocument == Active \in tabs.ready

\* DocumentId is the tab's id, and ids are not used again.
Fresh == Docs \ (tabs.open \cup tabs.closed)

Init ==
  /\ session \in Sessions
  /\ \E open \in (SUBSET Docs) \ {{}} : \E d \in open :
       tabs = [open |-> open, ready |-> open, active |-> d, closed |-> {}]
  /\ page \in Pages
  /\ marks = [d \in {} |-> {}] /\ history = [d \in Docs |-> NoHistory]
  /\ ui = [drawing |-> FALSE, tool |-> "pan", pressed |-> 0, stroke |-> NoStroke,
           note |-> 0, placing |-> 0, closing |-> None]
  /\ overlays = [pages |-> [k \in {} |-> {}], stroke |-> [doc |-> None, page |-> 0, marks |-> {}]]
  /\ saving = [flag |-> FALSE, jobs |-> {}]
  /\ files = [d \in Docs |-> {}] /\ made = 0

-----------------------------------------------------------------------------
(* AnnotationHistory *)

\* Mutant: what was undone stays redoable behind a new edit.
PushKeepingRedo(h, current) ==
  [h EXCEPT !.undo = IF Len(@) = MaxStack THEN Append(Tail(@), current) ELSE Append(@, current)]

\* push_snapshot
PushSnapshot(h, current) ==
  [undo |-> IF Len(h.undo) = MaxStack THEN Append(Tail(h.undo), current)
            ELSE Append(h.undo, current),
   redo |-> <<>>]

\* undo and redo, where there is something to undo or to redo
UndoOf(h, current) == [undo |-> Front(h.undo), redo |-> Append(h.redo, current)]
RedoOf(h, current) == [undo |-> Append(h.undo, current), redo |-> Front(h.redo)]

-----------------------------------------------------------------------------
(* Overlays *)

\* What an overlay of page p shows: free text is drawn by the window itself.
Ink(ms, p) == {m \in ms : m.page = p /\ m.kind # "text"}

\* PageOverlayCache::insert: a full cache is emptied first.
Insert(cache, key, shown) ==
  IF key \notin DOMAIN cache /\ Cardinality(DOMAIN cache) >= MaxOverlays
  THEN [k \in {key} |-> shown] ELSE With(cache, key, shown)

\* remove_page and clear_document
RemovePage(ov, d, p) == [ov EXCEPT !.pages = Without(@, {<<d, p>>}), !.stroke.doc = None]
ClearDocument(ov, d) ==
  [ov EXCEPT !.pages = Without(@, {k \in DOMAIN @ : k[1] = d}), !.stroke.doc = None]

\* Under a stroke only its page is drawn again, on top of the overlay kept for it.
UnderStroke(ov, d, ms, stroke) ==
  IF ov.stroke.doc = d /\ ov.stroke.page = stroke.page THEN ov
  ELSE [ov EXCEPT !.stroke = [doc |-> d, page |-> stroke.page, marks |-> Ink(ms, stroke.page)]]

\* Else the pages in sight that have marks, the current one apart, get theirs
\* from the cache, one after the other.
InSight(ov, d, ms, visible) ==
  LET marked == {p \in visible \ {page} : Ink(ms, p) # {}}
      upTo[p \in 0..PageCount] ==
        IF p = 0 THEN ov.pages
        ELSE IF p \in marked /\ <<d, p>> \notin DOMAIN upTo[p - 1]
        THEN Insert(upTo[p - 1], <<d, p>>, Ink(ms, p))
        ELSE upTo[p - 1]
  IN  [ov EXCEPT !.pages = upTo[PageCount]]

\* refresh_annotation_overlays for document d with marks ms
Refresh(ov, d, ms, stroke, visible) ==
  IF stroke # NoStroke THEN UnderStroke(ov, d, ms, stroke) ELSE InSight(ov, d, ms, visible)

Refreshed(d, ms, stroke, ov) ==
  \E visible \in Sights : overlays' = Refresh(ov, d, ms, stroke, visible)

-----------------------------------------------------------------------------
(* The pointer *)

NewMark(p, kind) == [id |-> made + 1, page |-> p, kind |-> kind]

\* A mark is added to d: the snapshot before it goes on the history, and ov is
\* what is left of the overlays.
Add(d, m, ov) ==
  /\ made < MaxMarks /\ made' = made + 1
  /\ marks' = With(marks, d, MarksOf(d) \cup {m})
  /\ history' = [history EXCEPT ![d] = PushSnapshot(@, MarksOf(d))]
  /\ Refreshed(d, MarksOf(d) \cup {m}, NoStroke, ov)

\* Nothing of the document's marks or their overlays changes.
MarksStay == UNCHANGED <<marks, history, overlays, made>>

\* The window hands the pointer to the drawing session, and no dialog is before it.
Drawing == ui.drawing /\ ui.closing = None /\ ui.note = 0
CanPress == Drawing /\ ui.tool # "pan" /\ ui.pressed = 0 /\ HasDocument

\* on_drawing_pointer_down, with the pen
PenDown(p) ==
  /\ CanPress /\ ui.tool = "pen"
  /\ ui' = [ui EXCEPT !.pressed = p, !.stroke = [doc |-> Active, page |-> p]]
  /\ Refreshed(Active, MarksOf(Active), ui'.stroke, overlays)
  /\ UNCHANGED <<tabs, page, marks, history, saving, files, made>>

\* The same with the typewriter: a dialog asks for the text.
TypeDown(p) ==
  /\ CanPress /\ ui.tool = "text"
  /\ ui' = [ui EXCEPT !.note = p]
  /\ MarksStay /\ UNCHANGED <<tabs, page, saving, files>>

\* erase_ink_strokes_along_segment: a stroke under the eraser goes (what may be
\* left of one that is cut is left out).
Erased(ms, p) == {ms} \cup {ms \ {m} : m \in {m \in ms : m.page = p /\ m.kind = "ink"}}

\* Mutant: the overlay of an erased page is kept.
EraseKeepingOverlay(p, before) ==
  \E left \in Erased(MarksOf(Active), p) :
    /\ marks' = IF Active \in DOMAIN marks THEN [marks EXCEPT ![Active] = left] ELSE marks
    /\ history' = IF before /\ Active \in DOMAIN marks
                  THEN [history EXCEPT ![Active] = PushSnapshot(@, marks[Active])] ELSE history
    /\ IF left = MarksOf(Active) THEN UNCHANGED overlays
       ELSE Refreshed(Active, left, ui.stroke, overlays)

\* The eraser passes over page p; a snapshot is kept when it comes down, also
\* where it erases nothing.
Erase(p, before) ==
  \E left \in Erased(MarksOf(Active), p) :
    /\ marks' = IF Active \in DOMAIN marks THEN [marks EXCEPT ![Active] = left] ELSE marks
    /\ history' = IF before /\ Active \in DOMAIN marks
                  THEN [history EXCEPT ![Active] = PushSnapshot(@, marks[Active])] ELSE history
    /\ IF left = MarksOf(Active) THEN UNCHANGED overlays
       ELSE Refreshed(Active, left, ui.stroke, RemovePage(overlays, Active, p))

EraserDown(p) ==
  /\ CanPress /\ ui.tool = "eraser"
  /\ ui' = [ui EXCEPT !.pressed = p]
  /\ Erase(p, TRUE)
  /\ UNCHANGED <<tabs, page, saving, files, made>>

\* on_drawing_pointer_move, with the eraser; a pen's only adds points.
EraserMove ==
  /\ Drawing /\ ui.tool = "eraser" /\ ui.pressed # 0 /\ HasDocument
  /\ Erase(ui.pressed, FALSE)
  /\ UNCHANGED <<tabs, page, ui, saving, files, made>>

\* on_drawing_pointer_up, with the eraser: a snapshot that equals what there is
\* now is taken back.
EraserUp ==
  /\ Drawing /\ ui.tool = "eraser" /\ ui.pressed # 0 /\ HasDocument
  /\ ui' = [ui EXCEPT !.pressed = 0]
  /\ LET h == history[Active]
         same == Active \in DOMAIN marks /\ h.undo # <<>> /\ Last(h.undo) = marks[Active]
     IN  history' = IF same THEN [history EXCEPT ![Active].undo = Front(@)] ELSE history
  /\ UNCHANGED <<tabs, page, marks, overlays, saving, files, made>>

\* The same with the pen: a touch that is short and does not move is taken for
\* the palm; else the stroke is a mark of the active document.
PenUp ==
  /\ Drawing /\ ui.tool = "pen" /\ ui.pressed # 0 /\ HasDocument
  /\ ui' = [ui EXCEPT !.pressed = 0, !.stroke = NoStroke]
  /\ \/ Add(Active, NewMark(ui.stroke.page, "ink"), RemovePage(overlays, Active, ui.stroke.page))
     \/ /\ Refreshed(Active, MarksOf(Active), NoStroke, overlays)
        /\ UNCHANGED <<marks, history, made>>
  /\ UNCHANGED <<tabs, page, saving, files>>

\* The pointer goes up where the session is not told: the drawing mode has ended
\* or the document has gone under it.
ReleaseUnseen ==
  /\ ui.pressed # 0 /\ ~(Drawing /\ HasDocument)
  /\ ui' = [ui EXCEPT !.pressed = 0]
  /\ MarksStay /\ UNCHANGED <<tabs, page, saving, files>>

-----------------------------------------------------------------------------
(* The toolbar and the keys *)

\* on_toggle_drawing_mode, with the toolbar's button
ToggleDrawing ==
  /\ ui.pressed = 0 /\ ui.closing = None /\ ui.note = 0
  /\ ui' = [ui EXCEPT !.drawing = ~@, !.tool = IF ~ui.drawing /\ @ = "pan" THEN "pen" ELSE @]
  /\ MarksStay /\ UNCHANGED <<tabs, page, saving, files>>

\* Escape: the window leaves the drawing mode and then has it toggled, which
\* turns it on again.
Escape ==
  /\ Drawing /\ ui.placing = 0
  /\ ui' = [ui EXCEPT !.tool = IF @ = "pan" THEN "pen" ELSE @]
  /\ MarksStay /\ UNCHANGED <<tabs, page, saving, files>>

\* activate_drawing_tool
SelectTool(tool) ==
  /\ Drawing /\ ui.pressed = 0 /\ tool # ui.tool
  /\ ui' = [ui EXCEPT !.tool = tool]
  /\ MarksStay /\ UNCHANGED <<tabs, page, saving, files>>

\* on_request_add_free_text, or the dialog is closed: the text goes to the
\* document that is active when it is confirmed.
AddFreeText ==
  /\ ui.note # 0 /\ ui' = [ui EXCEPT !.note = 0, !.tool = "text"]
  /\ IF HasDocument THEN Add(Active, NewMark(ui.note, "text"), overlays) ELSE MarksStay
  /\ UNCHANGED <<tabs, page, saving, files>>

CancelFreeText ==
  /\ ui.note # 0 /\ ui' = [ui EXCEPT !.note = 0]
  /\ MarksStay /\ UNCHANGED <<tabs, page, saving, files>>

\* on_context_highlight_selection, of a selection on page p
Highlight(p) ==
  /\ HasDocument /\ ui.closing = None
  /\ Add(Active, NewMark(p, "highlight"), ClearDocument(overlays, Active))
  /\ UNCHANGED <<tabs, page, ui, saving, files>>

\* on_sign_start_placement, once a signature has been drawn or chosen
StartPlacement ==
  /\ ui.pressed = 0 /\ ui.closing = None /\ ui.note = 0
  /\ ui' = [ui EXCEPT !.placing = page]
  /\ MarksStay /\ UNCHANGED <<tabs, page, saving, files>>

\* on_signature_apply and on_signature_cancel
ApplySignature ==
  /\ ui.placing # 0 /\ ui.closing = None /\ HasDocument
  /\ ui' = [ui EXCEPT !.placing = 0]
  /\ Add(Active, NewMark(ui.placing, "signature"), RemovePage(overlays, Active, ui.placing))
  /\ UNCHANGED <<tabs, page, saving, files>>

CancelPlacement ==
  /\ ui.placing # 0 /\ ui.closing = None /\ ui' = [ui EXCEPT !.placing = 0]
  /\ MarksStay /\ UNCHANGED <<tabs, page, saving, files>>

\* on_drawing_undo and on_drawing_redo
Undo ==
  /\ HasDocument /\ history[Active].undo # <<>>
  /\ marks' = With(marks, Active, Last(history[Active].undo))
  /\ history' = [history EXCEPT ![Active] = UndoOf(@, MarksOf(Active))]
  /\ Refreshed(Active, marks'[Active], ui.stroke, ClearDocument(overlays, Active))
  /\ UNCHANGED <<tabs, page, ui, saving, files, made>>

Redo ==
  /\ HasDocument /\ history[Active].redo # <<>> /\ ui.pressed = 0
  /\ marks' = With(marks, Active, Last(history[Active].redo))
  /\ history' = [history EXCEPT ![Active] = RedoOf(@, MarksOf(Active))]
  /\ Refreshed(Active, marks'[Active], ui.stroke, ClearDocument(overlays, Active))
  /\ UNCHANGED <<tabs, page, ui, saving, files, made>>

\* on_drawing_clear_page
ClearPage ==
  /\ Drawing /\ ui.pressed = 0 /\ HasDocument
  /\ \E m \in MarksOf(Active) : m.page = page
  /\ LET left == {m \in MarksOf(Active) : m.page # page}
     IN  /\ marks' = [marks EXCEPT ![Active] = left]
         /\ history' = [history EXCEPT ![Active] = PushSnapshot(@, MarksOf(Active))]
         /\ Refreshed(Active, left, NoStroke, RemovePage(overlays, Active, page))
  /\ UNCHANGED <<tabs, page, ui, saving, files, made>>

\* on_discard_annotations
Discard ==
  /\ ui.pressed = 0 /\ ui.closing = None /\ HasDocument /\ Active \in DOMAIN marks
  /\ marks' = Without(marks, {Active})
  /\ history' = [history EXCEPT ![Active] = NoHistory]
  /\ ui' = [ui EXCEPT !.drawing = FALSE, !.stroke = NoStroke]
  /\ overlays' = ClearDocument(overlays, Active)
  /\ UNCHANGED <<tabs, page, saving, files, made>>

\* Another page is shown.
GoTo(p) ==
  /\ HasDocument /\ p # page /\ page' = p
  /\ \E visible \in Sights :
       overlays' = Refresh(overlays, Active, MarksOf(Active), ui.stroke, visible \ {p})
  /\ UNCHANGED <<tabs, marks, history, ui, saving, files, made>>

-----------------------------------------------------------------------------
(* Saving *)

\* Mutant: a second save starts while one is running.
SaveAgain(out) ==
  /\ HasDocument /\ MarksOf(Active) # {}
  /\ saving' = [flag |-> TRUE, jobs |-> saving.jobs \cup
                 {[doc |-> Active, marks |-> MarksOf(Active), out |-> out, at |-> "writing"]}]
  /\ UNCHANGED <<tabs, page, marks, history, ui, overlays, files, made>>

\* save_active_annotations: in place, or to a file that is chosen.
Save(out) ==
  /\ ~saving.flag /\ HasDocument /\ MarksOf(Active) # {}
  /\ saving' = [flag |-> TRUE, jobs |-> saving.jobs \cup
                 {[doc |-> Active, marks |-> MarksOf(Active), out |-> out, at |-> "writing"]}]
  /\ UNCHANGED <<tabs, page, marks, history, ui, overlays, files, made>>

\* save_with_annotations: what the source has, and the marks on top of it.
Flattened(job) == files[job.doc] \cup job.marks

\* A thread of its own flattens the marks; the result replaces the output at
\* once, or nothing changes.
Write(job) ==
  /\ job \in saving.jobs /\ job.at = "writing"
  /\ \/ /\ files' = [files EXCEPT ![job.out] = Flattened(job)]
        /\ saving' = [saving EXCEPT !.jobs = (@ \ {job}) \cup {[job EXCEPT !.at = "written"]}]
     \/ /\ saving' = [saving EXCEPT !.jobs = (@ \ {job}) \cup {[job EXCEPT !.at = "failed"]}]
        /\ UNCHANGED files
  /\ UNCHANGED <<tabs, page, marks, history, ui, overlays, made>>

\* begin_open of a file: its tab, or a new one whose document is still to be
\* opened, becomes active.
Shown(d) == [tabs EXCEPT !.open = @ \cup {d}, !.active = d]

\* Mutant: the marks of the document in front are taken for the saved ones.
SavedOfActive(job) ==
  /\ job \in saving.jobs /\ job.at = "written"
  /\ saving' = [flag |-> FALSE, jobs |-> saving.jobs \ {job}]
  /\ marks' = Without(marks, {Active})
  /\ ui' = [ui EXCEPT !.drawing = FALSE, !.stroke = NoStroke]
  /\ tabs' = IF job.out \in tabs.open \cup Fresh THEN Shown(job.out) ELSE tabs
  /\ IF HasDocument THEN Refreshed(Active, MarksOf(Active) \ job.marks, NoStroke, overlays)
     ELSE UNCHANGED overlays
  /\ UNCHANGED <<page, history, files, made>>

\* Mutant: the stroke that is being drawn outlives the save.
SavedKeepingStroke(job) ==
  /\ job \in saving.jobs /\ job.at = "written"
  /\ saving' = [flag |-> FALSE, jobs |-> saving.jobs \ {job}]
  /\ marks' = Without(marks, {job.doc})
  /\ ui' = [ui EXCEPT !.drawing = FALSE]
  /\ tabs' = IF job.out \in tabs.open \cup Fresh THEN Shown(job.out) ELSE tabs
  /\ UNCHANGED <<page, history, files, made, overlays>>

\* The pump takes AnnotationsSaved: all of the document's marks go, its history
\* and overlays stay, and the file that was written is opened.
Saved(job) ==
  /\ job \in saving.jobs /\ job.at = "written"
  /\ saving' = [flag |-> FALSE, jobs |-> saving.jobs \ {job}]
  /\ marks' = Without(marks, {job.doc})
  /\ ui' = [ui EXCEPT !.drawing = FALSE, !.stroke = NoStroke]
  /\ IF HasDocument
     THEN Refreshed(Active, IF Active = job.doc THEN {} ELSE MarksOf(Active), NoStroke, overlays)
     ELSE UNCHANGED overlays
  /\ tabs' = IF job.out \in tabs.open \cup Fresh THEN Shown(job.out) ELSE tabs
  /\ UNCHANGED <<page, history, files, made>>

SaveFailed(job) ==
  /\ job \in saving.jobs /\ job.at = "failed"
  /\ saving' = [flag |-> FALSE, jobs |-> saving.jobs \ {job}]
  /\ MarksStay /\ UNCHANGED <<tabs, page, ui, files>>

-----------------------------------------------------------------------------
(* Tabs *)

\* A tab's document has been opened, and is drawn.
Opened(d) ==
  /\ d \in tabs.open \ tabs.ready /\ tabs' = [tabs EXCEPT !.ready = @ \cup {d}]
  /\ IF d = Active THEN Refreshed(d, MarksOf(d), ui.stroke, overlays) ELSE UNCHANGED overlays
  /\ UNCHANGED <<page, marks, history, ui, saving, files, made>>

\* on_request_activate_tab
Activate(d) ==
  /\ d \in tabs.open \ {Active} /\ ui.pressed = 0 /\ ui.closing = None /\ ui.note = 0
  /\ tabs' = [tabs EXCEPT !.active = d] /\ page' \in Pages
  /\ IF d \in tabs.ready
     THEN \E visible \in Sights :
            overlays' = Refresh(overlays, d, MarksOf(d), NoStroke, visible \ {page'})
     ELSE UNCHANGED overlays
  /\ UNCHANGED <<marks, history, ui, saving, files, made>>

\* close_tab_internal: another tab takes the place of the active one.
Closed(d) ==
  LET left == tabs.open \ {d}
  IN  tabs' \in {[open |-> left, ready |-> tabs.ready \ {d}, closed |-> tabs.closed \cup {d},
                  active |-> a] : a \in IF d # Active THEN {Active}
                                        ELSE IF left = {} THEN {None} ELSE left}

\* Mutant: a tab is closed without looking at its marks.
RequestCloseUnasked(d) ==
  /\ d \in tabs.open /\ ui.pressed = 0 /\ ui.closing = None /\ ui.note = 0
  /\ Closed(d) /\ UNCHANGED <<page, marks, history, ui, overlays, saving, files, made>>

\* on_request_close_tab: where there are marks it asks first.
RequestClose(d) ==
  /\ d \in tabs.open /\ ui.pressed = 0 /\ ui.closing = None /\ ui.note = 0
  /\ IF d \in tabs.ready /\ MarksOf(d) # {}
     THEN ui' = [ui EXCEPT !.closing = d] /\ UNCHANGED tabs
     ELSE Closed(d) /\ UNCHANGED ui
  /\ UNCHANGED <<page, marks, history, overlays, saving, files, made>>

\* on_confirm_close_tab and on_cancel_close_tab
ConfirmClose ==
  /\ ui.closing # None /\ ui' = [ui EXCEPT !.closing = None]
  /\ marks' = Without(marks, {ui.closing})
  /\ Closed(ui.closing)
  /\ UNCHANGED <<page, history, overlays, saving, files, made>>

CancelClose ==
  /\ ui.closing # None /\ ui' = [ui EXCEPT !.closing = None]
  /\ MarksStay /\ UNCHANGED <<tabs, page, saving, files>>

-----------------------------------------------------------------------------

Pointer ==
  \/ "pen" \in session /\ (PenUp \/ \E p \in Pages : PenDown(p))
  \/ "text" \in session /\ \E p \in Pages : TypeDown(p)
  \/ "eraser" \in session /\ (EraserMove \/ EraserUp \/ \E p \in Pages : EraserDown(p))
  \/ ReleaseUnseen

Tools == {"pan"} \cup (session \cap {"pen", "eraser", "text"})

User ==
  \/ ToggleDrawing \/ Escape
  \/ \E tool \in Tools : SelectTool(tool)
  \/ AddFreeText \/ CancelFreeText
  \/ "highlight" \in session /\ \E p \in Pages : Highlight(p)
  \/ "sign" \in session /\ StartPlacement
  \/ ApplySignature \/ CancelPlacement
  \/ "undo" \in session /\ (Undo \/ Redo)
  \/ "clear" \in session /\ (ClearPage \/ Discard)
  \/ "page" \in session /\ \E p \in Pages : GoTo(p)
  \/ "save" \in session /\ \E out \in {Active} \cup Fresh : Save(out)
  \/ "tabs" \in session /\ \E d \in Docs : Activate(d) \/ RequestClose(d)
  \/ ConfirmClose \/ CancelClose

Thread == \E job \in saving.jobs : Write(job)

Pump == \E job \in saving.jobs : Saved(job) \/ SaveFailed(job)

Next ==
  /\ UNCHANGED session
  /\ Pointer \/ User \/ Thread \/ Pump \/ \E d \in Docs : Opened(d)

Spec == Init /\ [][Next]_vars

-----------------------------------------------------------------------------
(* Properties *)

\* Every variable keeps its type; the steps one can undo and redo are together
\* never more than the stack holds.
DrawingsTypeOK ==
  /\ tabs.ready \subseteq tabs.open /\ tabs.open \cap tabs.closed = {}
  /\ tabs.active \in tabs.open \cup {None} /\ tabs.active = None => tabs.open = {}
  /\ \A d \in DOMAIN marks : d \in Docs /\ marks[d] \subseteq Mark
  /\ \A d \in Docs : Len(history[d].undo) + Len(history[d].redo) <= MaxStack
  /\ Cardinality(DOMAIN overlays.pages) <= MaxOverlays
  /\ ui.stroke = NoStroke \/ ui.stroke.doc \in Docs

\* A page's cached overlay shows the marks that are on it now, whatever was
\* drawn, erased, undone or saved since it was made; and the one kept under a
\* stroke hides no mark.
OverlaysAreCurrent ==
  /\ DrawingsTypeOK
  /\ \A k \in DOMAIN overlays.pages :
       Ink(MarksOf(k[1]), k[2]) \in {{}, overlays.pages[k]}
  /\ overlays.stroke.doc # None =>
       Ink(MarksOf(overlays.stroke.doc), overlays.stroke.page) \subseteq overlays.stroke.marks

\* A stroke is begun and ended on one document, also when a save ends under the
\* pointer and brings another to the front.
StrokeIsUnderThePointer ==
  ui.stroke # NoStroke => ui.pressed # 0 /\ ui.stroke.doc = Active

\* The flag that refuses a second save is set as long as one is under way: no two
\* threads write at once, and a save that failed can be tried again.
OneSaveAtATime ==
  /\ Cardinality(saving.jobs) <= 1
  /\ saving.flag <=> saving.jobs # {}

\* Marks leave a document because the user took them away, or because they are in
\* the file that was saved (or were made while it was being written).
MarksLeaveForAReason ==
  [][\/ EraserMove \/ Undo \/ Redo \/ ClearPage \/ Discard \/ ConfirmClose
     \/ \E p \in Pages : EraserDown(p)
     \/ \A d \in Docs : \/ MarksOf(d) \subseteq MarksOf(d)'
                        \/ \E job \in saving.jobs :
                             job.doc = d /\ job.at = "written" /\ job.marks \subseteq files[job.out]
    ]_vars

\* A tab with marks closes only after the user was asked about this tab.
ClosingIsAsked ==
  [][\A d \in Docs : d \in tabs.open /\ d \notin tabs'.open
       => ui.closing = d \/ MarksOf(d) = {}]_vars

=============================================================================

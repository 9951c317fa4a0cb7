------------------------------ MODULE ToolPanel ------------------------------
(***************************************************************************)
(* The panel of the PDF tools, up to the request it hands to the tool      *)
(* worker: apps/barepdf/src/presentation/callbacks/tools.rs with the drops *)
(* of event_pump.rs and the thumbnails of models.rs.  The panel marks the  *)
(* selected pages in the model of the sidebar, which has other users.      *)
(*                                                                         *)
(* A session does a number of acts on one side of the panel.  Entries of   *)
(* the merge list have a name of their own, to tell those of one file      *)
(* apart.  A page range is a sequence of segments (first, last).           *)
(***************************************************************************)
EXTENDS SequencesExt, FiniteSets, Integers

CONSTANTS
  None,
  PanelFiles,   \* PDF files outside the window
  PageCounts,   \* the documents in the window and their numbers of pages
  Typed,        \* page ranges the user types
  Orders,       \* page orders the user types
  Panels,       \* sessions
  MaxEntries    \* of the merge list

VARIABLES work, world

Merge == 0
Split == 1
OfRanges == {Split, 2, 3}  \* and delete, rotate
Convert == 4
Crop == 5
Reorder == 6
Tools == {Merge, Convert, Crop, Reorder} \cup OfRanges

Init ==
  /\ work \in Panels
  /\ world = [open |-> FALSE, tool |-> -1, entries |-> <<>>, picked |-> 0, text |-> <<>>,
              marks |-> {1}, source |-> None, active |-> "one", page |-> 1, job |-> None,
              \* what the properties remember
              added |-> 0, listed |-> {}, held |-> None, drawn |-> {}, typed |-> FALSE,
              offered |-> {}]

Count(w) == IF w.active = None THEN 0 ELSE PageCounts[w.active]
Offered(w) == IF w.active = None THEN {} ELSE {w.active}
Single(page) == <<page, page>>

\* selected_tool_pages: a range that cannot be parsed selects nothing.
SelectedPages(text, count) ==
  IF \A i \in DOMAIN text : text[i][1] \in 1..text[i][2] /\ text[i][2] <= count
  THEN UNION {s[1]..s[2] : s \in Range(text)} ELSE {}

\* The panel shows one of these tools, or with -1 the choice of them.
In(tools) == world.open /\ world.tool \in tools

\* refresh_thumbnail_model: the sidebar marks the current page.
Sidebar(w) == [w EXCEPT !.marks = {w.page} \cap 1..Count(w), !.drawn = {}]

\* refresh_tool_thumbnails, always with the new text of the range.
Marked(w, text) ==
  [w EXCEPT !.text = text, !.marks = SelectedPages(text, Count(w)), !.drawn = 1..Count(w),
            !.typed = FALSE]

All(count) == IF count = 0 THEN <<>> ELSE << <<1, count>> >>

-----------------------------------------------------------------------------
(* The panel, open and closed *)

\* cancel_active_tool asks for the end of the job and waits for its last event.
Toggle ==
  world' = [IF world.open THEN Sidebar(world) ELSE [world EXCEPT !.tool = -1] EXCEPT !.open = ~@]

Close == world.open /\ world' = [Sidebar(world) EXCEPT !.open = FALSE, !.tool = -1]

Escape ==
  /\ world.open
  /\ world' = IF world.tool # -1 THEN [world EXCEPT !.tool = -1] ELSE [world EXCEPT !.open = FALSE]

\* Only where no job is active the source is taken back.
Freed(w) == IF w.job # None THEN w ELSE [w EXCEPT !.source = None, !.offered = Offered(w)]

OpenTool(tool) ==
  LET shown == [Freed(world) EXCEPT !.tool = tool]
  IN  /\ In({-1})
      /\ world' = CASE tool = Merge -> [shown EXCEPT !.picked = 0, !.held = None]
                    [] tool \in OfRanges ->
                         Marked(shown, IF world.active = None THEN <<>> ELSE <<Single(world.page)>>)
                    [] tool = Convert -> Marked(shown, All(Count(world)))
                    [] OTHER -> shown

Back == In(Tools) /\ world' = Sidebar([Freed(world) EXCEPT !.tool = -1])

-----------------------------------------------------------------------------
(* The list of files to merge *)

Entries == world.entries
Held(w, i) == [w EXCEPT !.picked = i, !.held = IF i = 0 THEN None ELSE w.entries[i]]

Extended(w, paths) ==
  LET new == [i \in DOMAIN paths |-> [file |-> paths[i], name |-> w.added + i]]
  IN  [w EXCEPT !.entries = @ \o new, !.added = @ + Len(new), !.listed = @ \cup Range(new)]

HasRoom(paths) == Len(Entries) + Len(paths) <= MaxEntries

AddFiles(paths) == In({Merge}) /\ HasRoom(paths) /\ world' = Extended(world, paths)

SelectFile(i) == In({Merge}) /\ world' = Held(world, i)

\* The user holds the entry that moves, whichever was selected.
Moved(entries, from, to) ==
  [world EXCEPT !.entries = entries, !.picked = to, !.held = Entries[from]]

MoveUp(i) ==
  /\ In({Merge}) /\ i > 1
  /\ world' = Moved([Entries EXCEPT ![i] = Entries[i - 1], ![i - 1] = Entries[i]], i, i - 1)

MoveDown(i) ==
  /\ In({Merge}) /\ i < Len(Entries)
  /\ world' = Moved([Entries EXCEPT ![i] = Entries[i + 1], ![i + 1] = Entries[i]], i, i + 1)

\* Mutant: the drop selects where the entry came from.
DragToFrom(from, to) ==
  /\ In({Merge}) /\ from # to
  /\ world' = [Moved(InsertAt(RemoveAt(Entries, from), to, Entries[from]), from, to)
                 EXCEPT !.picked = from]

DragTo(from, to) ==
  /\ In({Merge}) /\ from # to
  /\ world' = Moved(InsertAt(RemoveAt(Entries, from), to, Entries[from]), from, to)

\* The button removes what is selected, and selects what follows, or what is last.
RemoveFile ==
  /\ In({Merge}) /\ world.picked > 0
  /\ LET left == RemoveAt(Entries, world.picked)
         next == IF world.picked > Len(left) THEN Len(left) ELSE world.picked
     IN  world' = Held([world EXCEPT !.entries = left, !.listed = @ \ {world.held}], next)

ClearFiles ==
  /\ In({Merge}) /\ Entries # <<>>
  /\ world' = [world EXCEPT !.entries = <<>>, !.listed = {}, !.picked = 0, !.held = None]

-----------------------------------------------------------------------------
(* The pages *)

SelectsPages == In(OfRanges \cup {Convert, Crop})

\* toggle_tool_page_selection: with Shift from the first number of the text on.
Toggled(page, shift) ==
  LET anchor == IF world.text = <<>> THEN page ELSE world.text[1][1]
      before == SelectedPages(world.text, Count(world))
      after == IF page \in before THEN before \ {page} ELSE before \cup {page}
  IN  IF shift THEN << IF anchor < page THEN <<anchor, page>> ELSE <<page, anchor>> >>
      ELSE LET pages == SetToSortSeq(after, <) IN [i \in DOMAIN pages |-> Single(pages[i])]

SelectPage(page, shift) == SelectsPages /\ world' = Marked(world, Toggled(page, shift))
SelectAllPages == SelectsPages /\ Count(world) > 0 /\ world' = Marked(world, All(Count(world)))
ClearPages == SelectsPages /\ world' = Marked(world, <<>>)

\* The text field: nothing looks at what is typed before it is used.
Type(text) == SelectsPages /\ world' = [world EXCEPT !.text = text, !.typed = TRUE]

\* refresh_thumbnail_row, for an image that has come: the row is the sidebar's again.
Redrawn(w, page) ==
  [w EXCEPT !.marks = IF page = w.page THEN @ \cup {page} ELSE @ \ {page}, !.drawn = @ \ {page}]

ThumbnailArrives(page) == world' = Redrawn(world, page)

\* A job is current only in the generation and with the source it began with.
Outdated(w) == [w EXCEPT !.job = IF @ = None THEN None ELSE [@ EXCEPT !.current = FALSE]]

GoTo(page) ==
  /\ page # world.page
  /\ LET there == [Outdated(world) EXCEPT !.page = page]
     IN  world' = Redrawn(Redrawn(there, world.page), page)

\* A ready document comes to the front, by a tab or because it has been opened.
Show(doc, page) ==
  /\ doc # world.active
  /\ world' = [Sidebar([Outdated(world) EXCEPT !.active = doc, !.page = page])
                 EXCEPT !.offered = @ \cup {doc}]

\* One begins to open: the rows are still those of the document before.
BeginOpen(w) == [Outdated(w) EXCEPT !.active = None]

-----------------------------------------------------------------------------
(* The request *)

\* set_tool_source: another source makes the running job an outdated one.
From(w, source) ==
  IF w.source = source THEN w
  ELSE [Outdated(w) EXCEPT !.source = source]

CurrentSource == IF world.source # None THEN world.source ELSE world.active

Dropped(source) == From([world EXCEPT !.offered = @ \cup {source}], source)

\* request_tool_drop refuses while a job is active, the drop on the window does not.
Drop(paths, native) ==
  /\ In(Tools)
  /\ native \/ world.job = None
  /\ IF world.tool = Merge THEN HasRoom(paths) /\ world' = Extended(world, paths)
     ELSE Len(paths) = 1 /\ world' = Dropped(paths[1])

\* queue_tool_operation
Queued(w, sources, pages, makes) ==
  IF w.job # None THEN w
  ELSE [w EXCEPT !.job = [tool |-> w.tool, sources |-> sources, pages |-> pages,
                          makes |-> makes, current |-> TRUE]]

ExecuteMerge ==
  /\ In({Merge}) /\ Len(Entries) >= 2
  /\ world' = Queued(world, [i \in DOMAIN Entries |-> Entries[i].file], {}, "pdf")

OnSource(pages, makes) ==
  /\ world.open /\ CurrentSource # None
  /\ world' = Queued(From(world, CurrentSource), <<CurrentSource>>, pages, makes)

\* split_execute, delete_pages_execute, rotate_pages_execute, convert_execute: the
\* text as it is, parsed by the worker against the pages of the source.
ExecuteRange ==
  \/ world.tool \in OfRanges /\ OnSource(world.text, "pdf")
  \/ world.tool \in {Split, Convert} /\ OnSource(world.text, "directory")
  \/ world.tool = Convert /\ OnSource(<<>>, "directory")

\* The pages of the active document, all of them where none is selected.
ExecuteCrop ==
  LET pages == SelectedPages(world.text, Count(world))
  IN  world.tool = Crop /\ OnSource(IF pages = {} THEN 1..Count(world) ELSE pages, "pdf")

ExecuteReorder(order) ==
  /\ world.tool = Reorder
  /\ Len(order) = Count(world) /\ Range(order) = 1..Count(world)
  /\ OnSource(order, "pdf")

\* handle_tool_event, of a last event: a document that was made is opened.
EndJob(completed) ==
  /\ world.job # None
  /\ LET ended == [world EXCEPT !.job = None]
         closed == Sidebar([ended EXCEPT !.open = FALSE, !.tool = -1])
     IN  world' = IF ~(completed /\ world.job.current) THEN ended
                  ELSE IF world.job.makes = "pdf" THEN BeginOpen(closed) ELSE closed

-----------------------------------------------------------------------------

Places == DOMAIN Entries
ShownPages == 1..Count(world)

WindowActs ==
  \/ Toggle \/ Close \/ Escape \/ Back
  \/ \E tool \in Tools : OpenTool(tool)

FileActs ==
  \/ \E file \in PanelFiles : AddFiles(<<file>>)
  \/ \E paths \in {<<f, g>> : f, g \in PanelFiles} : Drop(paths, TRUE)
  \/ \E i \in Places : SelectFile(i) \/ MoveUp(i) \/ MoveDown(i)
  \/ \E from, to \in Places : DragTo(from, to)
  \/ RemoveFile \/ ClearFiles \/ ExecuteMerge

PageActs ==
  \/ \E page \in ShownPages, shift \in BOOLEAN : SelectPage(page, shift)
  \/ \E page \in ShownPages : ThumbnailArrives(page) \/ GoTo(page)
  \/ SelectAllPages \/ ClearPages
  \/ \E text \in Typed : Type(text)

RequestActs ==
  \/ \E file \in PanelFiles, native \in BOOLEAN : Drop(<<file>>, native)
  \/ \E doc \in DOMAIN PageCounts : \E page \in 1..PageCounts[doc] : Show(doc, page)
  \/ world.active # None /\ world' = BeginOpen(world)
  \/ ExecuteRange \/ ExecuteCrop
  \/ \E order \in Orders : ExecuteReorder(order)
  \/ \E completed \in BOOLEAN : EndJob(completed)

Next ==
  /\ work.acts > 0 /\ work' = [work EXCEPT !.acts = @ - 1]
  /\ \/ WindowActs
     \/ "files" \in work.doing /\ FileActs
     \/ "pages" \in work.doing /\ PageActs
     \/ "requests" \in work.doing /\ RequestActs

-----------------------------------------------------------------------------

\* The list holds what was added and not removed, in whatever order, and what is
\* selected, and so what Remove would remove, is what the user took last.
ListIsTheUsers ==
  /\ ToSet(Entries) = world.listed /\ Len(Entries) = Cardinality(world.listed)
  /\ IF world.held = None THEN world.picked = 0
     ELSE world.picked \in Places /\ Entries[world.picked] = world.held

\* The pages marked are those of the range, as long as it was not typed, for every
\* row that was not drawn again for the sidebar.
MarksAreTheRange ==
  ~world.typed /\ world.active # None => \A page \in world.drawn :
    page \in world.marks <=> page \in SelectedPages(world.text, Count(world))

\* A request is for files the user gave the tool or had in front of it, and none
\* that only an earlier tool was given.
RequestIsOfThisTool ==
  world.job # None /\ world.job.tool # Merge => ToSet(world.job.sources) \subseteq world.offered

PanelIsRight == ListIsTheUsers /\ MarksAreTheRange /\ RequestIsOfThisTool
=============================================================================

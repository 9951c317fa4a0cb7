-------------------------------- MODULE Find --------------------------------
(***************************************************************************)
(* Finding things in the documents that are open, and selecting text: the  *)
(* search bar, the selection, bookmarks and outline of the window          *)
(* (apps/barepdf/src/presentation/callbacks/features.rs and navigation.rs, *)
(* controllers/), with the algorithms of crates/barepdf-core (search.rs,   *)
(* selection.rs).                                                          *)
(*                                                                         *)
(* The text of a page comes and goes in `world', the cache of text         *)
(* geometry, at any time: Reading and TextGeometryCache say when.          *)
(* Positions count from zero, as in the code.                              *)
(***************************************************************************)
EXTENDS SequencesExt, FiniteSets, Integers

CONSTANTS
  None,
  Texts,       \* the characters of the pages, by document and page
  Queries,     \* what is searched for: text, case, whole
  Outlines,    \* the entries of the outlines in order, by document: path and page
  Finds,       \* sessions: what is done in one, and how many acts it has
  MaxIndex     \* u32::MAX

VARIABLES
  work,   \* the window
  world   \* the pages whose text is cached

Documents == DOMAIN Texts
PagesOf(doc) == DOMAIN Texts[doc]
Cached(doc) == {page \in PagesOf(doc) : <<doc, page>> \in world}

Does(what) == what = work.session.doing /\ work.acts < work.session.acts
Becomes(w) == work' = [w EXCEPT !.acts = @ + 1] /\ UNCHANGED world

Top(doc) == {e.path : e \in {e \in Range(Outlines[doc]) : Len(e.path) = 1}}
HasChildren(doc, path) == \E e \in Range(Outlines[doc]) : e.path # path /\ IsPrefix(path, e.path)
FirstExpanded(doc) == {path \in Top(doc) : HasChildren(doc, path)}

\* flatten_outline: into an entry only if it is expanded.
Flattened(doc, expanded) ==
  LET entries == Outlines[doc]
      step(flat, e) ==
        IF Len(e.path) = 1 \/ \E f \in Range(flat) : f.path = Front(e.path) /\ f.path \in expanded
        THEN Append(flat, e) ELSE flat
  IN  FoldLeft(step, <<>>, entries)

Init ==
  /\ \E session \in Finds, doc \in Documents :
       work = [session |-> session, acts |-> 0, front |-> doc, page |-> 1,
               selection |-> None, by |-> "nobody", selecting |-> FALSE, clicks |-> 0,
               query |-> None, matches |-> <<>>, active |-> 0, searched |-> {},
               marks |-> [d \in Documents |-> <<>>], listed |-> [doc |-> doc, pages |-> <<>>],
               expanded |-> FirstExpanded(doc), entries |-> Flattened(doc, FirstExpanded(doc))]
  /\ \E pages \in SUBSET {at \in Documents \X UNION {PagesOf(d) : d \in Documents} :
                            at[2] \in PagesOf(at[1])} : world = pages

\* navigate_to_page, which ignores a page the document does not have.
Page(w, page) == IF page \in PagesOf(w.front) THEN [w EXCEPT !.page = page] ELSE w

-----------------------------------------------------------------------------
(* Search *)

IsAlphanumeric(c) == c \notin {" ", "nl", "'"}
IsWordChar(c) == IsAlphanumeric(c) \/ c = "'"

\* push_lower_char: Turkish, so that I is not the capital of i.
Lower(c) ==
  CASE c = "I" -> "dotless i" [] c = "dotted I" -> "i" [] c = "A" -> "a" [] OTHER -> c
Folded(query, text) == IF query.case THEN text ELSE [i \in DOMAIN text |-> Lower(text[i])]

\* Mutant: the search goes on behind the match, not at its next character.
FindBehind(query, text) ==
  LET hay == Folded(query, text) needle == Folded(query, query.text) n == Len(needle)
      scan[from \in 1..Len(hay) + 1 + n] ==
        LET hits == {i \in from..Len(hay) - n + 1 : SubSeq(hay, i, i + n - 1) = needle}
            i == CHOOSE i \in hits : \A j \in hits : i <= j
        IN  IF hits = {} THEN <<>> ELSE <<[from |-> i - 1, to |-> i + n - 1]>> \o scan[i + n]
  IN  scan[1]

\* SearchQuery::find_in_geometry
Find(query, text) ==
  LET hay == Folded(query, text)
      needle == Folded(query, query.text)
      n == Len(needle)
      isWord(i) == /\ i > 1 => ~IsAlphanumeric(text[i - 1])
                   /\ i + n <= Len(text) => ~IsAlphanumeric(text[i + n])
      scan[from \in 1..Len(hay) + 1] ==
        LET hits == {i \in from..Len(hay) - n + 1 : SubSeq(hay, i, i + n - 1) = needle}
            i == CHOOSE i \in hits : \A j \in hits : i <= j
        IN  IF hits = {} THEN <<>>
            ELSE (IF query.whole /\ ~isWord(i) THEN <<>> ELSE <<[from |-> i - 1, to |-> i + n - 1]>>)
                 \o scan[i + 1]
  IN  scan[1]

\* execute_search_in_geometries, over the pages that are cached.
Matches(query, doc) ==
  FlattenSeq([i \in 1..Cardinality(Cached(doc)) |->
    LET page == SetToSortSeq(Cached(doc), <)[i]
        found == Find(query, Texts[doc][page])
    IN  [k \in DOMAIN found |-> [page |-> page, from |-> found[k].from, to |-> found[k].to]]])

Cleared(w) == [w EXCEPT !.query = None, !.matches = <<>>, !.active = 0]

\* An empty query clears the search; any other goes to its first match.
Search(query) ==
  /\ Does("search")
  /\ LET matches == Matches(query, work.front)
         found == [work EXCEPT !.query = query, !.matches = matches, !.active = 0,
                               !.searched = {<<work.front, p>> : p \in Cached(work.front)}]
     IN  IF query.text = <<>> THEN Becomes(Cleared(work))
         ELSE Becomes(IF matches = <<>> THEN found ELSE Page(found, matches[1].page))

\* next_match and prev_match
Step(by) ==
  LET total == Len(work.matches)
      active == (work.active + by + total) % total
  IN  /\ Does("search") /\ total > 0
      /\ Becomes(Page([work EXCEPT !.active = active], work.matches[active + 1].page))

-----------------------------------------------------------------------------
(* Selection *)

Position(page, char) == <<page, char>>
Before(a, b) == a[1] < b[1] \/ (a[1] = b[1] /\ a[2] <= b[2])
Selection(anchor, focus) == [anchor |-> anchor, focus |-> focus]
IsEmpty(selection) == IF selection = None THEN TRUE ELSE selection.anchor = selection.focus
Start(s) == IF Before(s.anchor, s.focus) THEN s.anchor ELSE s.focus
End(s) == IF Before(s.anchor, s.focus) THEN s.focus ELSE s.anchor

\* From a character on, backwards and forwards, as long as the characters are such.
Extent(text, char, IsSuch(_)) ==
  LET from == {s \in 0..char : \A i \in s + 1..char : IsSuch(text[i])}
      to == {e \in char..Len(text) : \A i \in char + 1..e : IsSuch(text[i])}
  IN  [from |-> CHOOSE s \in from : \A t \in from : s <= t,
       to |-> CHOOSE e \in to : \A t \in to : e >= t]

\* select_word; what is no word is selected by itself.
Word(text, char) ==
  LET extent == Extent(text, char, IsWordChar)
  IN  IF extent.from = extent.to /\ extent.to < Len(text) THEN [extent EXCEPT !.to = @ + 1] ELSE extent

\* select_line
Line(text, char) == Extent(text, char, LAMBDA c : c # "nl")

\* hit_test: the character under the pointer, or zero.
Hits(page) == IF Texts[work.front][page] = <<>> THEN {0} ELSE 0..Len(Texts[work.front][page]) - 1

\* request_pointer_down: once, twice or more in a short time; without the text of
\* the page, which is asked for, nothing changes.
PointerDown(page, char, again) ==
  LET text == Texts[work.front][page]
      clicks == IF again /\ work.clicks < 3 THEN work.clicks + 1 ELSE IF again THEN 3 ELSE 1
      extent == IF clicks = 2 THEN Word(text, char) ELSE Line(text, char)
      selection ==
        IF clicks = 1 THEN Selection(Position(page, char), Position(page, char))
        ELSE IF text = <<>> THEN Selection(Position(page, 0), Position(page, 0))
        ELSE Selection(Position(page, extent.from), Position(page, extent.to))
  IN  /\ Does("select")
      /\ Becomes(IF page \notin Cached(work.front) THEN [work EXCEPT !.clicks = clicks]
                 ELSE [work EXCEPT !.clicks = clicks, !.selection = selection,
                         !.selecting = @ \/ clicks = 1,
                         !.by = CASE clicks = 1 -> "drag" [] clicks = 2 -> "word" [] clicks = 3 -> "line"])

\* request_pointer_move
PointerMove(page, char) ==
  /\ Does("select") /\ work.selecting /\ work.selection # None
  /\ Becomes([work EXCEPT !.by = "drag", !.selection.focus =
       Position(page, IF page \in Cached(work.front) THEN char ELSE 0)])

\* request_pointer_up, where a click can be on a link to a page.
PointerUp ==
  /\ Does("select")
  /\ LET up == [work EXCEPT !.selecting = FALSE]
     IN  \/ Becomes(up)
         \/ /\ IsEmpty(work.selection) /\ work.clicks <= 1
            /\ \E page \in Cached(work.front), target \in PagesOf(work.front) :
                 target # work.page /\ Becomes(Page(up, target))

\* request_select_all
SelectAll ==
  LET last == Cardinality(PagesOf(work.front))
      char == IF last \in Cached(work.front) THEN Len(Texts[work.front][last]) ELSE MaxIndex
  IN  /\ Does("select")
      /\ Becomes([work EXCEPT !.by = "all", !.selection = Selection(Position(1, 0), Position(last, char))])

\* TextSelection::range_for_page and compute_selection_boxes: what is drawn over a
\* page, and what request_highlight_selection makes marks of.
Boxes(page) ==
  LET s == work.selection
      length == Len(Texts[work.front][page])
      cut(i) == IF i < length THEN i ELSE length
      from == IF page = Start(s)[1] THEN Start(s)[2] ELSE 0
      to == IF page = End(s)[1] THEN End(s)[2] ELSE MaxIndex
  IN  IF s = None \/ page \notin Cached(work.front) THEN {}
      ELSE IF page < Start(s)[1] \/ page > End(s)[1] THEN {}
      ELSE IF from <= to THEN {Position(page, i) : i \in cut(from)..cut(to) - 1}
      ELSE {Position(page, i) : i \in cut(to)..cut(from) - 1}

\* get_selected_text_in_page_order, for the clipboard: the pages one by one.
Copied ==
  LET s == work.selection
      pages == SetToSortSeq(Cached(work.front), <)
      slice(page) ==
        LET length == Len(Texts[work.front][page])
            to == IF page = End(s)[1] /\ End(s)[2] < length THEN End(s)[2] ELSE length
            from == IF page = Start(s)[1] THEN Start(s)[2] ELSE 0
        IN  IF page < Start(s)[1] \/ page > End(s)[1] \/ from >= to THEN <<>>
            ELSE [i \in 1..to - from |-> Position(page, from + i - 1)]
  IN  IF IsEmpty(s) THEN <<>> ELSE FlattenSeq([i \in DOMAIN pages |-> slice(pages[i])])

\* request_highlight_selection: the selection goes if it had any boxes.
Highlight ==
  /\ Does("select") /\ ~IsEmpty(work.selection)
  /\ \E page \in PagesOf(work.front) : Boxes(page) # {}
  /\ Becomes([work EXCEPT !.selection = None])

-----------------------------------------------------------------------------
(* Bookmarks, outline and tabs *)

\* toggle_bookmark, for the page that is read; then refresh_bookmark_model.
ToggleBookmark ==
  LET pages == work.marks[work.front]
      toggled == IF Contains(pages, work.page)
                 THEN SelectSeq(pages, LAMBDA page : page # work.page)
                 ELSE SetToSortSeq(Range(pages) \cup {work.page}, <)
  IN  /\ Does("sidebar")
      /\ Becomes([work EXCEPT !.marks[work.front] = toggled,
                              !.listed = [doc |-> work.front, pages |-> toggled]])

\* bookmark_selected: the list shows a number, the document's own bookmarks count.
SelectBookmark(index) ==
  /\ Does("sidebar") /\ index \in DOMAIN work.listed.pages
  /\ Becomes(IF index \in DOMAIN work.marks[work.front]
             THEN Page(work, work.marks[work.front][index]) ELSE work)

\* request_toggle_outline: an entry with others under it is opened or closed, and
\* its page shown.
SelectEntry(index) ==
  LET entry == work.entries[index]
      expanded == IF ~HasChildren(work.front, entry.path) THEN work.expanded
                  ELSE IF entry.path \in work.expanded THEN work.expanded \ {entry.path}
                  ELSE work.expanded \cup {entry.path}
  IN  /\ Does("sidebar") /\ index \in DOMAIN work.entries
      /\ Becomes(Page([work EXCEPT !.expanded = expanded,
                                   !.entries = Flattened(work.front, expanded)], entry.page))

\* clear_document_transients
Left(w) == [w EXCEPT !.selection = None, !.selecting = FALSE]

\* request_activate_tab: a document that is ready shows its own bookmarks and
\* outline again, which starts with its first level expanded.  The search stays.
Activate(doc) ==
  /\ doc # work.front /\ work.acts < work.session.acts
  /\ Becomes([Left(work) EXCEPT !.front = doc, !.page = 1,
                !.listed = [doc |-> doc, pages |-> work.marks[doc]],
                !.expanded = FirstExpanded(doc), !.entries = Flattened(doc, FirstExpanded(doc))])

\* DocumentOpened of a document that was opened again (its tab is closed and its
\* text gone): the list of bookmarks stays that of the one before.
Open(doc) ==
  /\ doc # work.front /\ work.acts < work.session.acts
  /\ work' = [Left(work) EXCEPT !.acts = @ + 1, !.front = doc, !.page = 1,
                !.expanded = FirstExpanded(doc), !.entries = Flattened(doc, FirstExpanded(doc))]
  /\ world' = {at \in world : at[1] # doc}

\* The worker's answers, and evictions.
TextArrives(doc, page) == world' = world \cup {<<doc, page>>} /\ UNCHANGED work
TextIsEvicted(at) == world' = world \ {at} /\ UNCHANGED work

Next ==
  \/ \E query \in Queries : Search(query)
  \/ \E by \in {1, -1} : Step(by)
  \/ \E page \in PagesOf(work.front) : \E char \in Hits(page) :
       \/ \E again \in BOOLEAN : PointerDown(page, char, again)
       \/ PointerMove(page, char)
  \/ PointerUp \/ SelectAll \/ Highlight
  \/ ToggleBookmark
  \/ \E index \in DOMAIN work.listed.pages : SelectBookmark(index)
  \/ \E index \in DOMAIN work.entries : SelectEntry(index)
  \/ \E doc \in Documents : Activate(doc) \/ Open(doc)
  \/ \E doc \in Documents : \E page \in PagesOf(doc) : <<doc, page>> \notin world /\ TextArrives(doc, page)
  \/ \E at \in world : TextIsEvicted(at)

-----------------------------------------------------------------------------
(* Properties *)

\* The matches are all the places of the pages that were searched, in their order,
\* overlapping ones too, and the active match is one of them.
MatchesAreAll ==
  LET same(a, b) == a = b \/ (~work.query.case /\ Lower(a) = Lower(b))
      here(text, from) ==
        LET n == Len(work.query.text)
        IN  /\ from + n <= Len(text)
            /\ \A k \in 1..n : same(text[from + k], work.query.text[k])
            /\ work.query.whole => \A i \in {from, from + n + 1} \cap DOMAIN text : ~IsAlphanumeric(text[i])
      places == {<<at[2], from>> : at \in work.searched, from \in 0..MaxIndex}
      found == {place \in places : \E at \in work.searched :
                  at[2] = place[1] /\ here(Texts[at[1]][at[2]], place[2])}
  IN  IF work.query = None THEN work.matches = <<>> /\ work.active = 0
      ELSE /\ {<<m.page, m.from>> : m \in Range(work.matches)} = found
           /\ \A i, j \in DOMAIN work.matches : i < j =>
                ~Before(<<work.matches[j].page, work.matches[j].from>>,
                        <<work.matches[i].page, work.matches[i].from>>)
           /\ work.matches = <<>> \/ work.active + 1 \in DOMAIN work.matches

\* What the clipboard gets is what is marked on the pages, in reading order, each
\* character once; after select all that is all the text there is by now, also
\* pages that were read in since; a double click takes whole words.
CopyIsWhatIsMarked ==
  LET pages == PagesOf(work.front)
      text(at) == Texts[work.front][at[1]][at[2] + 1]
  IN  /\ Range(Copied) = UNION {Boxes(page) : page \in pages}
      /\ \A i, j \in DOMAIN Copied : i < j => ~Before(Copied[j], Copied[i])
      /\ work.selection # None /\ work.by = "all" =>
           Len(Copied) = FoldSet(LAMBDA page, n : n + Len(Texts[work.front][page]), 0, Cached(work.front))
      /\ work.selection # None /\ work.by = "word" /\ Len(Copied) > 1 =>
           \A i \in DOMAIN Copied : IsWordChar(text(Copied[i]))

\* Bookmarks are in order, each page once; the list shows those of the document it
\* was made for, as they are; and the outline what is under expanded entries only.
SidebarLeadsThere ==
  /\ \A doc \in Documents : \A i, j \in DOMAIN work.marks[doc] :
       i < j => work.marks[doc][i] < work.marks[doc][j]
  /\ work.listed.doc = work.front => work.listed.pages = work.marks[work.front]
  /\ work.entries = SelectSeq(Outlines[work.front], LAMBDA e :
       \A n \in 1..Len(e.path) - 1 : SubSeq(e.path, 1, n) \in work.expanded)

FindIsRight == MatchesAreAll /\ CopyIsWhatIsMarked /\ SidebarLeadsThere
=============================================================================

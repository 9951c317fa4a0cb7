---------------------------- MODULE PrintPreview ----------------------------
(***************************************************************************)
(* The state of the print dialog's preview (PrintPreviewState in           *)
(* apps/barepdf/src/presentation/state.rs), as operators on it: Reading    *)
(* keeps it, asks for its renders and hands it what is drawn.              *)
(***************************************************************************)
EXTENDS Integers, Sequences, SequencesExt, FiniteSetsExt

CONSTANT None

Closed == [open |-> FALSE, doc |-> None, generation |-> 0, page |-> 1, pages |-> <<>>,
           index |-> 1, landscape |-> FALSE, pending |-> 0, shown |-> <<>>]

\* Pages in the order of a range, which is sorted and has each page once.
InOrder(pages) == SetToSortSeq(pages, LAMBDA a, b : a < b)

OpenAt(doc, generation, count, page) ==
  LET at == Min({page, count})
  IN  [Closed EXCEPT !.open = TRUE, !.doc = doc, !.generation = generation, !.page = at,
                     !.pages = InOrder(1..count), !.index = at]

\* expect_render, with what the dialog shows taken away
Expecting(v, request) == [v EXCEPT !.pending = request, !.shown = <<>>]

\* Mutant: any render for the dialog's document will do.
AcceptsAny(v, event) ==
  v.open /\ v.doc = event.doc /\ v.generation = event.generation /\ v.pending # 0

\* accept_render
Accepts(v, event) ==
  /\ v.open /\ v.doc = event.doc /\ v.generation = event.generation
  /\ v.pending # 0 /\ v.pending = event.request /\ v.page = event.page

Showing(v, event) ==
  [v EXCEPT !.pending = 0, !.shown = <<[page |-> event.page, turned |-> event.turned]>>]

\* close
Close(v) == [v EXCEPT !.open = FALSE, !.pending = 0, !.shown = <<>>]

\* set_preview_pages: the page that is shown stays if the range has it.
WithPages(v, pages) ==
  LET at == {i \in DOMAIN pages : pages[i] = v.page}
      index == IF at # {} THEN Min(at) ELSE Min({v.index, Len(pages)})
  IN  [v EXCEPT !.pages = pages, !.index = index, !.page = pages[index]]

CanStep(v, by) == v.index + by \in DOMAIN v.pages

\* step_previous_page, step_next_page
Stepped(v, by) == [v EXCEPT !.index = @ + by, !.page = v.pages[v.index + by]]
=============================================================================

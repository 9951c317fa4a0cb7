------------------------------- MODULE TabSet -------------------------------
(***************************************************************************)
(* The strip of tabs (apps/barepdf/src/application/tabs.rs): its           *)
(* operations on a record that has at least the fields tabs, active and    *)
(* nextId.  The active tab is named by its id, 0 is none.                  *)
(*                                                                         *)
(* A tab's document is the state it is in and the page count of the        *)
(* document it shows, 0 for none: the carried document of an Opening,      *)
(* PasswordRequired or Failed state, the document itself when it is Ready. *)
(* A document's id is its tab's id and its path is its tab's path.         *)
(***************************************************************************)
EXTENDS Naturals, Sequences

CONSTANTS
  MaxTabs,   \* MAX_OPEN_TABS
  MaxTabId   \* bound: the last id next_tab_id can give (u64::MAX)

NoPath == "no path"
NoDocument == [state |-> "none", pages |-> 0]
NoLayout == [doc |-> 0, pages |-> 0, next |-> 1]

NewTab(id, path) ==
  [id |-> id, path |-> path, doc |-> NoDocument, layout |-> NoLayout, page |-> 0]

HasTab(set, id) == \E i \in DOMAIN set.tabs : set.tabs[i].id = id
PositionOf(set, id) == CHOOSE i \in DOMAIN set.tabs : set.tabs[i].id = id
TabOf(set, id) == set.tabs[PositionOf(set, id)]
ActiveTab(set) == TabOf(set, set.active)
HasPath(set, path) == \E i \in DOMAIN set.tabs : set.tabs[i].path = path

\* A change of the tab with this id.
WithTab(set, tab) ==
  [set EXCEPT !.tabs = [i \in DOMAIN @ |-> IF @[i].id = tab.id THEN tab ELSE @[i]]]

\* new tabs are refused when the strip is full or the ids have run out.
CanGrow(set) == Len(set.tabs) < MaxTabs /\ set.nextId < MaxTabId

\* Mutant: an id is the number of tabs, so a closed tab's id comes back.
GrownReusingIds(set, path) ==
  [set EXCEPT !.tabs = Append(@, NewTab(Len(@) + 1, path)), !.active = Len(set.tabs) + 1]

Grown(set, path) ==
  [set EXCEPT !.tabs = Append(@, NewTab(set.nextId + 1, path)),
              !.nextId = @ + 1, !.active = set.nextId + 1]

NewEmpty(set) == IF CanGrow(set) THEN Grown(set, NoPath) ELSE set

\* Mutant: a blank active tab takes the path before the other tabs are searched.
OpenBlankFirst(set, path) ==
  IF set.active # 0 /\ ActiveTab(set).path = NoPath
  THEN WithTab(set, [ActiveTab(set) EXCEPT !.path = path, !.doc = NoDocument, !.layout = NoLayout])
  ELSE IF HasPath(set, path)
  THEN [set EXCEPT !.active = (CHOOSE t \in {set.tabs[i] : i \in DOMAIN set.tabs} : t.path = path).id]
  ELSE IF CanGrow(set) THEN Grown(set, path) ELSE set

\* open: the tab that has the path, else the blank active tab, else a new one;
\* unchanged when there is no room for it.
Open(set, path) ==
  IF HasPath(set, path)
  THEN [set EXCEPT !.active = (CHOOSE t \in {set.tabs[i] : i \in DOMAIN set.tabs} : t.path = path).id]
  ELSE IF set.active # 0 /\ ActiveTab(set).path = NoPath
  THEN WithTab(set, [ActiveTab(set) EXCEPT !.path = path, !.doc = NoDocument, !.layout = NoLayout])
  ELSE IF CanGrow(set) THEN Grown(set, path) ELSE set

Activate(set, id) == IF HasTab(set, id) THEN [set EXCEPT !.active = id] ELSE set

\* close: the right neighbour takes over, else the left one.
Close(set, id) ==
  LET at == PositionOf(set, id)
      rest == SubSeq(set.tabs, 1, at - 1) \o SubSeq(set.tabs, at + 1, Len(set.tabs))
      heir == IF rest = <<>> THEN 0
              ELSE rest[IF at <= Len(rest) THEN at ELSE Len(rest)].id
  IN  IF HasTab(set, id)
      THEN [set EXCEPT !.tabs = rest, !.active = IF @ = id THEN heir ELSE @]
      ELSE set
=============================================================================

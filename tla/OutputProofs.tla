---------------------------- MODULE OutputProofs ----------------------------
(***************************************************************************)
(* What the jobs of Parts leave, for any constants: what the spooler gets  *)
(* is what was ordered, and what the tools write is nothing or the whole   *)
(* result of the request.                                                  *)
(***************************************************************************)
EXTENDS Parts, SequenceLemmas, FiniteSetTheorems

-----------------------------------------------------------------------------
(* Spooler: what is printed *)

IsWork ==
  work = [print |-> work.print, tools |-> work.tools, pages |-> work.pages, at |-> work.at,
          cancelled |-> work.cancelled, owns |-> work.owns, given |-> work.given,
          active |-> work.active, files |-> work.files, done |-> work.done,
          result |-> work.result]

IsWorld ==
  world = [dc |-> world.dc, doc |-> world.doc, inPage |-> world.inPage, sheets |-> world.sheets,
           live |-> world.live, temp |-> world.temp, paper |-> world.paper,
           misused |-> world.misused]

Windows == work.print.platform = "windows"
Linux == work.print.platform = "linux"

\* The pages to print, and how many there are with all the copies.
PagesAreGood ==
  /\ work.print \in Prints
  /\ work.pages \in Seq(Nat) /\ work.pages # <<>>
  /\ work.done \in Nat

\* Before there is a sink.
NothingYet ==
  /\ work.done = 0 /\ work.files = <<>> /\ ~ work.active /\ work.result = "none"
  /\ world.doc = "none" /\ ~ world.inPage /\ world.sheets = <<>> /\ ~ world.temp
  /\ world.paper = <<>>

\* So many pages are drawn, into the spooler's document or into files.
Drawn ==
  /\ work.done <= Len(work.pages) * work.print.copies
  /\ work.result = "none" /\ world.live = {} /\ world.paper = <<>>
  /\ Windows => /\ work.owns = {"dc"} /\ work.active
                /\ world.dc = "open" /\ world.doc = "open" /\ ~ world.temp
                /\ world.sheets = Repeated(work.pages, work.done)
                /\ world.inPage <=> work.at = "draw"
  /\ Linux => /\ work.owns = {"temp"} /\ ~ work.active
              /\ world.dc = "none" /\ world.doc = "none" /\ world.temp
              /\ work.files = Repeated(work.pages, work.done)

AllPages == Repeated(work.pages, Len(work.pages) * work.print.copies)

SpoolIsGood ==
  /\ IsWork /\ IsWorld /\ PagesAreGood /\ ~ world.misused
  /\ \/ /\ work.at = "choose" /\ NothingYet /\ work.owns = {} /\ world.dc = "none"
        /\ world.live = {} /\ work.given = <<None, None>>
     \/ /\ work.at = "dialog" /\ NothingYet /\ work.owns = {} /\ world.dc = "none" /\ Windows
        /\ work.given = <<work.given[1], work.given[2]>>
     \/ /\ work.at = "begin" /\ NothingYet /\ world.live = {}
        /\ IF Windows THEN work.owns = {"dc"} /\ world.dc = "open"
           ELSE work.owns = {} /\ world.dc = "none"
     \/ work.at = "page" /\ Drawn
     \/ work.at = "draw" /\ Drawn /\ work.done < Len(work.pages) * work.print.copies
     \/ /\ work.at = "ended"
        /\ world.dc # "open" /\ world.doc # "open" /\ world.live = {} /\ ~ world.temp
        /\ IF work.result = "Finished" THEN world.paper = AllPages ELSE world.paper = <<>>

LEMMA PlatformIs ==
  ASSUME SpoolIsGood
  PROVE  Windows \/ Linux
BY SpoolerAssumption DEF SpoolerAssumption, SpoolIsGood, PagesAreGood, Windows, Linux

LEMMA AllPagesAre ==
  ASSUME PagesAreGood
  PROVE  /\ AllPages = FlattenSeq([copy \in 1..work.print.copies |-> work.pages])
         /\ AllPages \in Seq(Nat) /\ AllPages # <<>>
         /\ Len(work.pages) * work.print.copies \in Nat \ {0}
<1>1. Len(work.pages) \in Nat \ {0} /\ work.print.copies \in Nat \ {0}
  BY SpoolerAssumption, EmptySeq DEF SpoolerAssumption, PagesAreGood
<1>2. Len(work.pages) * work.print.copies \in Nat \ {0}
  BY <1>1
<1>3. AllPages = FlattenSeq([copy \in 1..work.print.copies |-> work.pages])
  BY <1>1, RepeatedIs DEF AllPages, PagesAreGood
<1>4. AllPages \in Seq(Nat) /\ Len(AllPages) = Len(work.pages) * work.print.copies
  BY <1>2, RepeatedType DEF AllPages, PagesAreGood
<1>. QED BY <1>2, <1>3, <1>4

LEMMA SpoolInit ==
  ASSUME Printer!Init
  PROVE  SpoolIsGood
<1>1. PICK print \in Prints, tools \in SUBSET {"lpstat", "lp", "lpr"} :
        work = [print |-> print, tools |-> tools, pages |-> print.pages, at |-> "choose",
                cancelled |-> FALSE, owns |-> {}, given |-> <<None, None>>,
                active |-> FALSE, files |-> <<>>, done |-> 0, result |-> "none"]
  BY DEF Printer!Init
<1>2. world = [dc |-> "none", doc |-> "none", inPage |-> FALSE, sheets |-> <<>>, live |-> {},
               temp |-> FALSE, paper |-> <<>>, misused |-> FALSE]
  BY DEF Printer!Init
<1>3. PagesAreGood
  BY <1>1, SpoolerAssumption DEF SpoolerAssumption, PagesAreGood
<1>4. IsWork /\ IsWorld
  BY <1>1, <1>2 DEF IsWork, IsWorld
<1>. QED BY <1>1, <1>2, <1>3, <1>4 DEF SpoolIsGood, NothingYet

\* What every owner's drop leaves, of a job that is under way.
LEMMA DropIs ==
  ASSUME SpoolIsGood, work.at \in {"choose", "begin", "page", "draw"}, NEW result,
         result # "Finished", Printer!End(result)
  PROVE  SpoolIsGood'
<1>1. /\ work' = [work EXCEPT !.at = "ended", !.result = result, !.owns = {}, !.active = FALSE]
      /\ world' = Printer!Drop(world, work.active)
  BY DEF Printer!End, Printer!Ended
<1>2. /\ IsWork' /\ PagesAreGood' /\ work'.at = "ended" /\ work'.result = result
  BY <1>1 DEF SpoolIsGood, IsWork, PagesAreGood
<1>3. CASE work.at = "choose" \/ (work.at = "begin" /\ ~ Windows)
  <2>1. world' = world
    BY <1>1, <1>3 DEF SpoolIsGood, NothingYet, Printer!Drop, Printer!Abort
  <2>. QED BY <1>2, <1>3, <2>1 DEF SpoolIsGood, NothingYet, IsWorld
<1>4. CASE work.at = "begin" /\ Windows
  <2>1. world' = [world EXCEPT !.dc = "deleted"]
    BY <1>1, <1>4 DEF SpoolIsGood, NothingYet, Printer!Drop, Printer!Abort, Printer!DeleteDC
  <2>. QED BY <1>2, <1>4, <2>1 DEF SpoolIsGood, NothingYet, IsWorld
<1>5. CASE work.at \in {"page", "draw"} /\ Windows
  <2> DEFINE w == [world EXCEPT !.doc = "aborted", !.inPage = FALSE]
  <2>1. Printer!Abort(world, work.active) = w /\ w.dc = "open" /\ w.doc = "aborted"
    BY <1>5 DEF SpoolIsGood, Drawn, Printer!Abort, Printer!AbortDoc, IsWorld
  <2> HIDE DEF w
  <2>2. world' = [w EXCEPT !.dc = "deleted"]
    BY <1>1, <1>5, <2>1 DEF SpoolIsGood, Drawn, Printer!Drop, Printer!DeleteDC
  <2>. QED BY <1>2, <1>5, <2>2 DEF SpoolIsGood, Drawn, IsWorld, w
<1>6. CASE work.at \in {"page", "draw"} /\ Linux
  <2>1. world' = [world EXCEPT !.temp = FALSE]
    BY <1>1, <1>6 DEF SpoolIsGood, Drawn, Printer!Drop, Printer!Abort
  <2>. QED BY <1>2, <1>6, <2>1 DEF SpoolIsGood, Drawn, IsWorld
<1>. QED BY <1>3, <1>4, <1>5, <1>6, PlatformIs

\* Both handles of the dialog are freed, once.
LEMMA FreeBothIs ==
  ASSUME IsWorld, ~ world.misused, NEW a, NEW b
  PROVE  Printer!FreeBoth([world EXCEPT !.live = {a, b} \ {None}], <<a, b>>) =
           [world EXCEPT !.live = {}]
<1> DEFINE L == {a, b} \ {None}
           W(l) == [world EXCEPT !.live = l]
           c == IF b = a THEN None ELSE b
<1>1. \A l : /\ W(l).live = l
             /\ \A h : h \in l => [W(l) EXCEPT !.live = @ \ {h}] = W(l \ {h})
  BY DEF IsWorld
<1> HIDE DEF W
<1>2. Printer!GlobalFree(W(L), a) = W(L \ {a})
  <2>1. CASE a = None
    <3>1. L \ {a} = L
      BY <2>1
    <3>. QED BY <2>1, <3>1 DEF Printer!GlobalFree
  <2>2. CASE a # None
    <3>1. a \in L
      BY <2>2
    <3>. QED BY <1>1, <2>2, <3>1 DEF Printer!GlobalFree
  <2>. QED BY <2>1, <2>2
<1>3. Printer!GlobalFree(W(L \ {a}), c) = W({})
  <2>1. CASE c = None
    <3>1. L \ {a} = {}
      BY <2>1
    <3>. QED BY <2>1, <3>1 DEF Printer!GlobalFree
  <2>2. CASE c # None
    <3>1. b # a /\ b # None /\ b \in L \ {a} /\ (L \ {a}) \ {b} = {}
      BY <2>2
    <3>. QED BY <1>1, <3>1 DEF Printer!GlobalFree
  <2>. QED BY <2>1, <2>2
<1>4. Printer!FreeBoth(W(L), <<a, b>>) = W({})
  BY <1>2, <1>3 DEF Printer!FreeBoth
<1>. QED BY <1>4 DEF W

\* What the user chose is pages, and not none.
LEMMA SelectedIs ==
  ASSUME PagesAreGood, NEW chosen \in Printer!Leaves, Printer!IsSelection(chosen)
  PROVE  Printer!Selected(chosen) \in Seq(Nat) /\ Printer!Selected(chosen) # <<>>
<1>1. work.print.count \in Nat \ {0} /\ MaxDialogPage \in Nat \ {0}
      /\ work.print.pages \in Seq(Nat) /\ work.print.pages # <<>>
  BY SpoolerAssumption DEF SpoolerAssumption, PagesAreGood
<1>2. /\ work.print.pages[1] \in Nat
      /\ work.print.pages[Len(work.print.pages)] \in Nat
  <2>1. 1 \in 1..Len(work.print.pages) /\ Len(work.print.pages) \in 1..Len(work.print.pages)
    BY <1>1, EmptySeq
  <2>. QED BY <1>1, <2>1
<1>3. chosen.numbers => chosen.from \in Nat /\ chosen.to \in Nat
  <2>1. CASE chosen = Printer!InitialPages
    <3> DEFINE maximum == IF work.print.count > MaxDialogPage THEN MaxDialogPage ELSE work.print.count
               Clamp(n, low) == IF n < low THEN low ELSE IF n > maximum THEN maximum ELSE n
               from == Clamp(Head(work.print.pages), 1)
               to == Clamp(Printer!Last(work.print.pages), from)
    <3>1. Head(work.print.pages) \in Nat /\ Printer!Last(work.print.pages) \in Nat
      BY <1>1, <1>2 DEF Printer!Last
    <3>2. \A n, low \in Nat : Clamp(n, low) \in Nat
      BY <1>1
    <3>3. Printer!InitialPages = [from |-> from, to |-> to, numbers |-> from # 1 \/ to # maximum]
      BY DEF Printer!InitialPages
    <3> HIDE DEF Clamp, maximum
    <3>4. from \in Nat /\ to \in Nat
      BY <3>1, <3>2
    <3> HIDE DEF from, to
    <3>. QED BY <2>1, <3>3, <3>4
  <2>2. CASE chosen # Printer!InitialPages
    BY <1>1, <2>2 DEF Printer!Leaves
  <2>. QED BY <2>1, <2>2
<1>4. CASE chosen.numbers
  <2> DEFINE n == chosen.to - chosen.from + 1
             s == [i \in 1..n |-> chosen.from + i - 1]
  <2>1. chosen.from <= chosen.to /\ n \in Nat \ {0}
    BY <1>3, <1>4 DEF Printer!IsSelection
  <2>2. \A i \in 1..n : chosen.from + i - 1 \in Nat
    BY <1>3, <1>4, <2>1
  <2>3. Printer!Selected(chosen) = s
    BY <1>4 DEF Printer!Selected
  <2> HIDE DEF n
  <2>4. s \in Seq(Nat) /\ Len(s) = n
    BY <2>1, <2>2
  <2>. QED BY <2>1, <2>3, <2>4
<1>5. CASE ~ chosen.numbers
  <2> DEFINE s == [n \in 1..work.print.count |-> n]
  <2>1. s \in Seq(Nat) /\ Len(s) = work.print.count
    BY <1>1
  <2>. QED BY <1>1, <1>5, <2>1 DEF Printer!Selected
<1>. QED BY <1>4, <1>5

LEMMA ChooseSteps ==
  ASSUME SpoolIsGood, Printer!ChooseDirectly \/ Printer!AskForDefaults \/ Printer!ChooseByCups
                        \/ Printer!ChooseFirst
  PROVE  SpoolIsGood'
<1>0. work.at = "choose"
  BY DEF Printer!ChooseDirectly, Printer!AskForDefaults, Printer!ChooseByCups, Printer!ChooseFirst
<1>1. CASE \E result \in {"Failed", "Cancelled"} : Printer!End(result)
  BY <1>0, <1>1, DropIs
<1>2. CASE /\ Windows /\ work' = [work EXCEPT !.at = "begin", !.owns = {"dc"}]
           /\ world' = [world EXCEPT !.dc = "open"]
  BY <1>0, <1>2 DEF SpoolIsGood, NothingYet, IsWork, IsWorld, PagesAreGood, Windows
<1>3. CASE Windows /\ work' = [work EXCEPT !.at = "dialog"] /\ UNCHANGED world
  BY <1>0, <1>3 DEF SpoolIsGood, NothingYet, IsWork, IsWorld, PagesAreGood, Windows
<1>4. ASSUME NEW handles \in {<<None, None>>, <<"mode", "names">>, <<"both", "both">>}, NEW live,
             Windows,
             work' = [work EXCEPT !.at = "dialog", !.given = handles],
             world' = [world EXCEPT !.live = live]
      PROVE  SpoolIsGood'
  <2>1. handles = <<handles[1], handles[2]>>
    OBVIOUS
  <2>2. work'.given = handles
    BY <1>4 DEF SpoolIsGood, IsWork
  <2>. QED BY <1>0, <1>4, <2>1, <2>2 DEF SpoolIsGood, NothingYet, IsWork, IsWorld, PagesAreGood, Windows
<1>5. CASE Linux /\ work' = [work EXCEPT !.at = "begin"] /\ UNCHANGED world
  BY <1>0, <1>5 DEF SpoolIsGood, NothingYet, IsWork, IsWorld, PagesAreGood, Windows, Linux
<1>. QED BY <1>1, <1>2, <1>3, <1>4, <1>5
         DEF Printer!ChooseDirectly, Printer!AskForDefaults, Printer!ChooseByCups, Printer!ChooseFirst,
             Printer!Windows, Printer!Linux, Windows, Linux

LEMMA DialogStep ==
  ASSUME SpoolIsGood, Printer!ShowDialog
  PROVE  SpoolIsGood'
<1>1. work.at = "dialog" /\ IsWork /\ IsWorld /\ PagesAreGood /\ ~ world.misused
  BY DEF Printer!ShowDialog, SpoolIsGood
<1>2. /\ NothingYet /\ work.owns = {} /\ world.dc = "none" /\ Windows
      /\ work.given = <<work.given[1], work.given[2]>>
  BY <1>1 DEF SpoolIsGood
<1> DEFINE Freed(h) == Printer!FreeBoth([world EXCEPT !.live = Range(h) \ {None}], h)
           free == [world EXCEPT !.live = {}]
           fails(result) == work' = [work EXCEPT !.at = "ended", !.result = result]
<1>3. PICK handles \in {work.given, <<"mode2", "names2">>, <<"both2", "both2">>} :
        \/ (fails("Cancelled") \/ fails("Failed")) /\ world' = Freed(handles)
        \/ \E chosen \in Printer!Leaves :
             IF Printer!IsSelection(chosen)
             THEN /\ work' = [work EXCEPT !.at = "begin", !.owns = {"dc"},
                                          !.pages = Printer!Selected(chosen)]
                  /\ world' = [Freed(handles) EXCEPT !.dc = "open"]
             ELSE /\ fails("Failed")
                  /\ world' = Printer!DeleteDC([Freed(handles) EXCEPT !.dc = "open"])
  BY DEF Printer!ShowDialog, Printer!Range, Range
<1>4. Freed(handles) = free
  <2>1. PICK a, b : handles = <<a, b>>
    BY <1>2, <1>3
  <2>2. Range(handles) = {a, b}
    <3>1. DOMAIN handles = {1, 2} /\ handles[1] = a /\ handles[2] = b
      BY <2>1
    <3>. QED BY <3>1 DEF Range
  <2>. QED BY <1>1, <2>1, <2>2, FreeBothIs
<1> HIDE DEF Freed
<1>5. CASE (fails("Cancelled") \/ fails("Failed")) /\ world' = free
  BY <1>1, <1>2, <1>5 DEF SpoolIsGood, NothingYet, IsWork, IsWorld, PagesAreGood
<1>6. ASSUME NEW chosen \in Printer!Leaves, Printer!IsSelection(chosen),
             work' = [work EXCEPT !.at = "begin", !.owns = {"dc"}, !.pages = Printer!Selected(chosen)],
             world' = [free EXCEPT !.dc = "open"]
      PROVE  SpoolIsGood'
  <2>1. Printer!Selected(chosen) \in Seq(Nat) /\ Printer!Selected(chosen) # <<>>
    BY <1>1, <1>6, SelectedIs
  <2> DEFINE pages == Printer!Selected(chosen)
  <2> HIDE DEF pages
  <2>2. IsWork' /\ PagesAreGood' /\ work'.print = work.print
    BY <1>1, <1>6, <2>1 DEF IsWork, PagesAreGood, pages
  <2>3. work'.at = "begin" /\ work'.owns = {"dc"} /\ Windows'
    BY <1>1, <1>2, <1>6 DEF IsWork, Windows
  <2>4. IsWorld' /\ ~ world'.misused /\ world'.live = {} /\ world'.dc = "open"
    BY <1>1, <1>6 DEF IsWorld
  <2>5. NothingYet'
    BY <1>1, <1>2, <1>6 DEF IsWork, IsWorld, NothingYet
  <2>. QED BY <2>2, <2>3, <2>4, <2>5 DEF SpoolIsGood
<1>7. CASE fails("Failed") /\ world' = Printer!DeleteDC([free EXCEPT !.dc = "open"])
  <2> DEFINE w == [free EXCEPT !.dc = "open"]
  <2>1. w.dc = "open" /\ w.doc # "open"
    BY <1>1, <1>2 DEF IsWorld, NothingYet
  <2> HIDE DEF w
  <2>2. world' = [w EXCEPT !.dc = "deleted"]
    BY <1>7, <2>1 DEF Printer!DeleteDC, w
  <2>. QED BY <1>1, <1>2, <1>7, <2>2 DEF SpoolIsGood, NothingYet, IsWork, IsWorld, PagesAreGood, w
<1>. QED BY <1>3, <1>4, <1>5, <1>6, <1>7

LEMMA BeginStep ==
  ASSUME SpoolIsGood, Printer!Begin
  PROVE  SpoolIsGood'
<1> DEFINE total == Len(work.pages) * work.print.copies
<1>1. /\ work.at = "begin" /\ IsWork /\ IsWorld /\ PagesAreGood /\ ~ world.misused
      /\ NothingYet /\ world.live = {}
      /\ IF Windows THEN work.owns = {"dc"} /\ world.dc = "open"
         ELSE work.owns = {} /\ world.dc = "none"
  BY DEF Printer!Begin, SpoolIsGood
<1>2. total \in Nat \ {0} /\ Repeated(work.pages, 0) = <<>>
  BY <1>1, AllPagesAre DEF Repeated
<1>3. CASE Printer!End("Failed") \/ Printer!End("Cancelled")
  BY <1>1, <1>3, DropIs
<1>4. CASE Printer!StartDocument
  <2>1. /\ Windows /\ work' = [work EXCEPT !.at = "page", !.active = TRUE]
        /\ world' = [world EXCEPT !.doc = "open"]
    BY <1>1, <1>4 DEF Printer!StartDocument, Printer!StartDoc, Printer!Call, Printer!Windows, Windows,
                      NothingYet
  <2>2. IsWork' /\ IsWorld' /\ PagesAreGood' /\ ~ world'.misused /\ work'.at = "page"
    BY <1>1, <2>1 DEF IsWork, IsWorld, PagesAreGood
  <2>3. Drawn'
    BY <1>1, <1>2, <2>1 DEF IsWork, IsWorld, NothingYet, Drawn, Windows, Linux
  <2>. QED BY <2>2, <2>3 DEF SpoolIsGood
<1>5. CASE Printer!MakeDirectory
  <2>1. /\ Linux /\ work' = [work EXCEPT !.at = "page", !.owns = {"temp"}]
        /\ world' = [world EXCEPT !.temp = TRUE]
    BY <1>5 DEF Printer!MakeDirectory, Printer!Linux, Linux
  <2>2. IsWork' /\ IsWorld' /\ PagesAreGood' /\ ~ world'.misused /\ work'.at = "page"
    BY <1>1, <2>1 DEF IsWork, IsWorld, PagesAreGood
  <2>3. Drawn'
    BY <1>1, <1>2, <2>1 DEF IsWork, IsWorld, NothingYet, Drawn, Windows, Linux
  <2>. QED BY <2>2, <2>3 DEF SpoolIsGood
<1>. QED BY <1>3, <1>4, <1>5 DEF Printer!Begin

LEMMA BeginPageStep ==
  ASSUME SpoolIsGood, Printer!BeginPage
  PROVE  SpoolIsGood'
<1>1. /\ work.at = "page" /\ IsWork /\ IsWorld /\ PagesAreGood /\ ~ world.misused /\ Drawn
      /\ work.done < Len(work.pages) * work.print.copies
  BY DEF Printer!BeginPage, Printer!Total, SpoolIsGood
<1>2. CASE Printer!End("Failed") \/ Printer!End("Cancelled")
  BY <1>1, <1>2, DropIs
<1>3. ASSUME work' = [work EXCEPT !.at = "draw"],
             world' = IF Windows THEN Printer!StartPage ELSE world
      PROVE  SpoolIsGood'
  <2>1. world' = IF Windows THEN [world EXCEPT !.inPage = TRUE] ELSE world
    BY <1>1, <1>3 DEF Printer!StartPage, Printer!Call, Drawn
  <2>2. IsWork' /\ IsWorld' /\ PagesAreGood' /\ ~ world'.misused /\ work'.at = "draw"
        /\ work'.done < Len(work'.pages) * work'.print.copies
    BY <1>1, <1>3, <2>1 DEF IsWork, IsWorld, PagesAreGood
  <2>3. Drawn'
    BY <1>1, <1>3, <2>1 DEF IsWork, IsWorld, Drawn, Windows, Linux
  <2>. QED BY <2>2, <2>3 DEF SpoolIsGood
<1>. QED BY <1>2, <1>3 DEF Printer!BeginPage, Printer!Windows, Windows

\* One page more.
LEMMA PageStep ==
  ASSUME SpoolIsGood, Printer!WritePage \/ Printer!WriteFile
  PROVE  SpoolIsGood'
<1> DEFINE total == Len(work.pages) * work.print.copies
<1>1. /\ work.at = "draw" /\ IsWork /\ IsWorld /\ PagesAreGood /\ ~ world.misused /\ Drawn
      /\ work.done < total
  BY DEF Printer!WritePage, Printer!WriteFile, SpoolIsGood
<1>2. work.done \in Nat /\ total \in Nat /\ work.done + 1 <= total
  BY <1>1, AllPagesAre DEF PagesAreGood
<1> HIDE DEF total
<1>3. Append(Repeated(work.pages, work.done), Printer!NextPage) = Repeated(work.pages, work.done + 1)
  BY <1>1, <1>2, RepeatedNext DEF PagesAreGood, Printer!NextPage
<1>4. CASE Printer!WritePage /\ Printer!Ended("Failed", Printer!Abort(world, work.active), FALSE)
  <2> DEFINE w == [world EXCEPT !.doc = "aborted", !.inPage = FALSE]
  <2>1. Windows
    BY <1>4 DEF Printer!WritePage, Printer!Windows, Windows
  <2>2. Printer!Abort(world, work.active) = w /\ w.dc = "open" /\ w.doc = "aborted"
    BY <1>1, <2>1 DEF Drawn, Printer!Abort, Printer!AbortDoc, IsWorld
  <2> HIDE DEF w
  <2>3. /\ work' = [work EXCEPT !.at = "ended", !.result = "Failed", !.owns = {}, !.active = FALSE]
        /\ world' = Printer!Drop(w, FALSE)
    BY <1>4, <2>2 DEF Printer!Ended
  <2>4. world' = [w EXCEPT !.dc = "deleted"]
    BY <1>1, <2>1, <2>2, <2>3 DEF Drawn, Printer!Drop, Printer!Abort, Printer!DeleteDC
  <2>5. IsWork' /\ PagesAreGood' /\ work'.at = "ended" /\ work'.result = "Failed"
    BY <1>1, <2>3 DEF IsWork, PagesAreGood
  <2>. QED BY <1>1, <2>1, <2>4, <2>5 DEF SpoolIsGood, Drawn, IsWorld, w
<1>5. CASE /\ Printer!WritePage /\ work' = [work EXCEPT !.at = "page", !.done = @ + 1]
           /\ world' = Printer!EndPage(Printer!NextPage)
  <2>1. Windows
    BY <1>5 DEF Printer!WritePage, Printer!Windows, Windows
  <2> DEFINE x == Printer!NextPage
  <2> HIDE DEF x
  <2>2. world' = [world EXCEPT !.inPage = FALSE, !.sheets = Append(@, x)]
    BY <1>1, <1>5, <2>1 DEF Printer!EndPage, Printer!Call, Drawn, x
  <2>3. IsWork' /\ IsWorld' /\ PagesAreGood' /\ ~ world'.misused /\ work'.at = "page"
    <3>1. work' = [work EXCEPT !.at = "page", !.done = @ + 1]
      BY <1>5
    <3>2. IsWork' /\ IsWorld' /\ ~ world'.misused /\ work'.at = "page"
      BY <1>1, <2>2, <3>1 DEF IsWork, IsWorld
    <3>3. work'.print = work.print /\ work'.pages = work.pages /\ work'.done = work.done + 1
      BY <1>1, <3>1 DEF IsWork
    <3>. QED BY <1>1, <1>2, <3>2, <3>3 DEF PagesAreGood
  <2>4. /\ world'.sheets = Repeated(work.pages, work.done + 1) /\ ~ world'.inPage
        /\ work'.done = work.done + 1 /\ work'.pages = work.pages /\ work'.print = work.print
    BY <1>1, <1>3, <1>5, <2>1, <2>2 DEF Drawn, IsWork, IsWorld, x
  <2>5. Drawn'
    BY <1>1, <1>2, <1>5, <2>1, <2>2, <2>4 DEF IsWork, IsWorld, Drawn, Windows, Linux, total
  <2>. QED BY <2>3, <2>5 DEF SpoolIsGood
<1>6. CASE Printer!WriteFile /\ Printer!End("Failed")
  BY <1>1, <1>6, DropIs
<1>7. CASE /\ Printer!WriteFile /\ UNCHANGED world
           /\ work' = [work EXCEPT !.at = "page", !.done = @ + 1, !.files = Append(@, Printer!NextPage)]
  <2>1. Linux
    BY <1>7 DEF Printer!WriteFile, Printer!Linux, Linux
  <2> DEFINE x == Printer!NextPage
  <2>2. work' = [work EXCEPT !.at = "page", !.done = @ + 1, !.files = Append(@, x)]
    BY <1>7
  <2> HIDE DEF x
  <2>3. IsWork' /\ IsWorld' /\ PagesAreGood' /\ ~ world'.misused /\ work'.at = "page"
    <3>1. UNCHANGED world
      BY <1>7
    <3>2. IsWork' /\ IsWorld' /\ ~ world'.misused /\ work'.at = "page"
      BY <1>1, <2>2, <3>1 DEF IsWork, IsWorld
    <3>3. work'.print = work.print /\ work'.pages = work.pages /\ work'.done = work.done + 1
      BY <1>1, <2>2 DEF IsWork
    <3>. QED BY <1>1, <1>2, <3>2, <3>3 DEF PagesAreGood
  <2>4. /\ work'.files = Repeated(work.pages, work.done + 1)
        /\ work'.done = work.done + 1 /\ work'.pages = work.pages /\ work'.print = work.print
    BY <1>1, <1>3, <1>7, <2>1, <2>2 DEF Drawn, IsWork, x
  <2>5. Drawn'
    BY <1>1, <1>2, <1>7, <2>1, <2>2, <2>4 DEF IsWork, IsWorld, Drawn, Windows, Linux, total
  <2>. QED BY <2>3, <2>5 DEF SpoolIsGood
<1>. QED BY <1>4, <1>5, <1>6, <1>7 DEF Printer!WritePage, Printer!WriteFile

LEMMA FinishStep ==
  ASSUME SpoolIsGood, Printer!Finish
  PROVE  SpoolIsGood'
<1> DEFINE total == Len(work.pages) * work.print.copies
<1>1. /\ work.at = "page" /\ IsWork /\ IsWorld /\ PagesAreGood /\ ~ world.misused /\ Drawn
      /\ work.done = total
  BY DEF Printer!Finish, Printer!Total, SpoolIsGood
<1>2. AllPages = Repeated(work.pages, work.done) /\ AllPages \in Seq(Nat) /\ AllPages # <<>>
  BY <1>1, AllPagesAre DEF AllPages
<1>3. <<>> \o AllPages = AllPages
  BY <1>2, ConcatEmptySeq
<1>4. CASE Printer!End("Failed") \/ Printer!End("Cancelled")
  BY <1>1, <1>4, DropIs
<1>5. CASE Windows /\ Printer!Ended("Finished", Printer!EndDoc, FALSE)
  <2> DEFINE w == [world EXCEPT !.doc = "ended", !.paper = AllPages]
  <2>1. Printer!EndDoc = w /\ w.dc = "open" /\ w.doc = "ended"
    BY <1>1, <1>2, <1>3, <1>5 DEF Drawn, Printer!EndDoc, Printer!Call, IsWorld
  <2> HIDE DEF w
  <2>2. /\ work' = [work EXCEPT !.at = "ended", !.result = "Finished", !.owns = {}, !.active = FALSE]
        /\ world' = Printer!Drop(w, FALSE)
    BY <1>5, <2>1 DEF Printer!Ended
  <2>3. world' = [w EXCEPT !.dc = "deleted"]
    BY <1>1, <1>5, <2>1, <2>2 DEF Drawn, Printer!Drop, Printer!Abort, Printer!DeleteDC
  <2>4. IsWork' /\ PagesAreGood' /\ work'.at = "ended" /\ work'.result = "Finished"
        /\ AllPages' = AllPages
    BY <1>1, <2>2 DEF IsWork, PagesAreGood, AllPages
  <2>. QED BY <1>1, <1>5, <2>3, <2>4 DEF SpoolIsGood, Drawn, IsWorld, w
<1>6. CASE Printer!SubmitFiles
  <2> DEFINE w == [world EXCEPT !.paper = AllPages]
  <2>1. Linux
    BY <1>6 DEF Printer!SubmitFiles, Printer!Linux, Linux
  <2>2. Printer!Call(world.temp, [world EXCEPT !.paper = @ \o work.files]) = w /\ w.temp
    BY <1>1, <1>2, <1>3, <2>1 DEF Drawn, Printer!Call, IsWorld
  <2> HIDE DEF w
  <2>3. /\ work' = [work EXCEPT !.at = "ended", !.result = "Finished", !.owns = {}, !.active = FALSE]
        /\ world' = Printer!Drop(w, FALSE)
    BY <1>6, <2>2 DEF Printer!SubmitFiles, Printer!Ended
  <2>4. world' = [w EXCEPT !.temp = FALSE]
    BY <1>1, <2>1, <2>3 DEF Drawn, Printer!Drop, Printer!Abort
  <2>5. IsWork' /\ PagesAreGood' /\ work'.at = "ended" /\ work'.result = "Finished"
        /\ AllPages' = AllPages
    BY <1>1, <2>3 DEF IsWork, PagesAreGood, AllPages
  <2>. QED BY <1>1, <2>1, <2>4, <2>5 DEF SpoolIsGood, Drawn, IsWorld, w
<1>. QED BY <1>4, <1>5, <1>6 DEF Printer!Finish, Printer!Windows, Windows

LEMMA CancelStep ==
  ASSUME SpoolIsGood, Printer!Cancel
  PROVE  SpoolIsGood'
<1>1. work' = [work EXCEPT !.cancelled = TRUE] /\ UNCHANGED world
  BY DEF Printer!Cancel
<1>2. IsWork /\ IsWork'
  BY <1>1 DEF SpoolIsGood, IsWork
<1>3. /\ work'.at = work.at /\ work'.owns = work.owns /\ work'.active = work.active
      /\ work'.done = work.done /\ work'.files = work.files /\ work'.given = work.given
      /\ work'.pages = work.pages /\ work'.print = work.print /\ work'.result = work.result
  BY <1>1, <1>2 DEF IsWork
<1>. QED BY <1>1, <1>2, <1>3 DEF SpoolIsGood, IsWorld, PagesAreGood, NothingYet, Drawn, AllPages,
                                 Windows, Linux

LEMMA SpoolStep ==
  ASSUME SpoolIsGood, Printer!Next
  PROVE  SpoolIsGood'
BY ChooseSteps, DialogStep, BeginStep, BeginPageStep, PageStep, FinishStep, CancelStep
   DEF Printer!Next

\* Printing is as ordered: no call to the system comes at the wrong time, the paper
\* is every copy of all the pages or nothing, and nothing outlives the job.
THEOREM PaperStaysAsOrdered == Spec => []PaperIsAsOrdered
<1> DEFINE Inv == owner = "spooler" => SpoolIsGood
<1>1. Init => Inv
  BY SpoolInit DEF Init
<1>2. Inv /\ [Next]_vars => Inv'
  <2> SUFFICES ASSUME Inv, [Next]_vars, owner' = "spooler" PROVE SpoolIsGood'
    OBVIOUS
  <2>1. CASE UNCHANGED vars
    <3>1. UNCHANGED <<owner, work, world>>
      BY <2>1 DEF vars, working
    <3>. QED BY <3>1 DEF SpoolIsGood, IsWork, IsWorld, PagesAreGood, NothingYet, Drawn, AllPages,
                         Windows, Linux
  <2>2. CASE Next
    <3>1. owner = "spooler" /\ Printer!Next
      BY <2>2 DEF Next
    <3>. QED BY <3>1, SpoolStep
  <2>. QED BY <2>1, <2>2
<1>3. Inv => PaperIsAsOrdered
  <2> SUFFICES ASSUME SpoolIsGood PROVE Printer!PaperIsAsOrdered
    BY DEF PaperIsAsOrdered
  <2>1. \A ss : Printer!FlattenSeq(ss) = FlattenSeq(ss)
    BY DEF Printer!FlattenSeq, FlattenSeq
  <2>2. PagesAreGood
    BY DEF SpoolIsGood
  <2>3. AllPages = Printer!FlattenSeq([copy \in 1..work.print.copies |-> work.pages]) /\ AllPages # <<>>
    BY <2>1, <2>2, AllPagesAre
  <2> DEFINE all == Printer!FlattenSeq([copy \in 1..work.print.copies |-> work.pages])
  <2> HIDE DEF all
  <2>4. /\ ~ world.misused /\ world.paper \in {<<>>, all}
        /\ world.paper # <<>> <=> work.result = "Finished"
        /\ work.at = "ended" =>
             world.dc # "open" /\ world.doc # "open" /\ world.live = {} /\ ~ world.temp
    BY <2>3 DEF SpoolIsGood, NothingYet, Drawn, all
  <2>. QED BY <2>4 DEF Printer!PaperIsAsOrdered, all
<1>. QED BY <1>1, <1>2, <1>3, PTL DEF Spec

(* FileTools: what a job leaves on the disk *)

-----------------------------------------------------------------------------
(* The pages of a range, and what is built of them *)

\* The numbers that Ascending takes, in order.
LEMMA AscendingIs ==
  ASSUME NEW numbers, NEW count \in Nat
  PROVE  /\ Files!Ascending(numbers, count) \in Seq(Nat)
         /\ {Files!Ascending(numbers, count)[i] : i \in DOMAIN Files!Ascending(numbers, count)}
              = numbers \cap (1..count)
         /\ \A i, j \in DOMAIN Files!Ascending(numbers, count) :
              i < j => Files!Ascending(numbers, count)[i] < Files!Ascending(numbers, count)[j]
<1> DEFINE One(n) == IF n \in numbers THEN <<n>> ELSE <<>>
           ones(k) == [n \in 1..k |-> One(n)]
           A(k) == FlattenSeq(ones(k))
           V == Seq(Nat)
           Good(a, k) == /\ a \in V
                         /\ {a[i] : i \in DOMAIN a} = numbers \cap (1..k)
                         /\ \A i, j \in DOMAIN a : i < j => a[i] < a[j]
           T == {k \in Nat : Good(A(k), k)}
<1>1. Files!Ascending(numbers, count) = A(count)
  <2>1. \A s : Files!FlattenSeq(s) = FlattenSeq(s)
    BY DEF Files!FlattenSeq, FlattenSeq
  <2>. QED BY <2>1 DEF Files!Ascending
<1>2. \A n \in Nat : One(n) \in V
  BY EmptySeq
<1>3. \A k \in Nat : ones(k) \in Seq(V)
  <2> HIDE DEF One, V
  <2>. QED BY <1>2
<1>4. ASSUME NEW k \in Nat PROVE A(k + 1) = A(k) \o One(k + 1)
  <2> DEFINE s == ones(k)
             e == One(k + 1)
             t == Append(s, e)
  <2>1. s \in Seq(V) /\ e \in V /\ Len(s) = k
    <3>1. Len(s) = k
      <4> HIDE DEF One
      <4>. QED OBVIOUS
    <3>. QED BY <1>2, <1>3, <3>1
  <2>2. t = ones(k + 1)
    <3> HIDE DEF V, One
    <3>1. t \in Seq(V) /\ Len(t) = k + 1 /\ t[k + 1] = e /\ \A i \in 1..k : t[i] = s[i]
      <4> HIDE DEF s, e
      <4>. QED BY <2>1, AppendProperties
    <3>2. \A i \in 1..k : t[i] = One(i)
      BY <3>1
    <3>3. t = [i \in 1..k + 1 |-> t[i]]
      <4> HIDE DEF t
      <4>1. t \in [1..k + 1 -> V]
        BY <3>1, LenProperties
      <4>. QED BY <4>1
    <3>4. \A i \in 1..k + 1 : t[i] = One(i)
      <4> HIDE DEF t, s
      <4>1. \A i \in 1..k + 1 : i \in 1..k \/ i = k + 1
        OBVIOUS
      <4>. QED BY <3>1, <3>2, <4>1
    <3> HIDE DEF t
    <3>. QED BY <3>3, <3>4
  <2>3. FlattenSeq(t) = FlattenSeq(s) \o e
    <3> HIDE DEF s, e, V
    <3>. QED BY <2>1, FlattenAppend DEF V
  <2>. QED BY <2>2, <2>3
<1> HIDE DEF A, One
<1>5. 0 \in T
  <2>1. ones(0) = <<>>
    OBVIOUS
  <2>2. A(0) = <<>>
    BY <2>1, FlattenEmpty DEF A
  <2>3. <<>> \in V /\ DOMAIN <<>> = {} /\ 1..0 = {}
    BY EmptySeq
  <2> HIDE DEF V
  <2>4. Good(<<>>, 0)
    BY <2>3
  <2>. QED BY <2>2, <2>4
<1>6. ASSUME NEW k \in Nat, k \in T PROVE k + 1 \in T
  <2> DEFINE a == A(k)
             b == A(k + 1)
  <2>1. /\ a \in V /\ {a[i] : i \in DOMAIN a} = numbers \cap (1..k)
        /\ \A i, j \in DOMAIN a : i < j => a[i] < a[j]
    BY <1>6
  <2>2. b = a \o One(k + 1)
    BY <1>4
  <2>3. CASE k + 1 \notin numbers
    <3>1. b = a
      BY <2>1, <2>2, <2>3, ConcatEmptySeq DEF One
    <3>2. numbers \cap (1..k) = numbers \cap (1..k + 1)
      BY <2>3
    <3> HIDE DEF a, b
    <3>3. Good(b, k + 1)
      BY <2>1, <3>1, <3>2
    <3>. QED BY <3>3 DEF b
  <2>4. CASE k + 1 \in numbers
    <3> DEFINE m == Len(a)
    <3> HIDE DEF a, b
    <3>1. b = Append(a, k + 1)
      BY <2>1, <2>2, <2>4, AppendIsConcat DEF One
    <3>2. /\ b \in V /\ Len(b) = m + 1 /\ m \in Nat /\ b[m + 1] = k + 1
          /\ \A i \in 1..m : b[i] = a[i]
      BY <2>1, <3>1, AppendProperties
    <3>3. DOMAIN a = 1..m /\ DOMAIN b = 1..m + 1
      BY <2>1, <3>2, LenProperties
    <3> HIDE DEF m
    <3>4. \A i \in 1..m : a[i] \in numbers /\ a[i] \in 1..k
      BY <2>1, <3>3
    <3>5. \A i, j \in 1..m + 1 : i < j => b[i] < b[j]
      <4>1. ASSUME NEW i \in 1..m + 1, NEW j \in 1..m + 1, i < j PROVE b[i] < b[j]
        <5>1. i \in 1..m
          BY <3>2, <4>1
        <5>2. CASE j = m + 1
          <6>1. b[i] \in 1..k
            BY <3>2, <3>4, <5>1
          <6>. QED BY <3>2, <5>2, <6>1
        <5>3. CASE j # m + 1
          <6>1. j \in 1..m
            BY <3>2, <5>3
          <6>. QED BY <2>1, <3>2, <3>3, <4>1, <5>1, <6>1
        <5>. QED BY <5>2, <5>3
      <4>. QED BY <4>1
    <3>6. {b[i] : i \in DOMAIN b} = numbers \cap (1..k + 1)
      <4>1. ASSUME NEW i \in 1..m + 1 PROVE b[i] \in numbers \cap (1..k + 1)
        <5>1. i \in 1..m \/ i = m + 1
          BY <3>2
        <5>. QED BY <2>4, <3>2, <3>4, <5>1
      <4>2. ASSUME NEW n \in numbers \cap (1..k + 1) PROVE \E i \in 1..m + 1 : b[i] = n
        <5>1. CASE n = k + 1
          BY <3>2, <5>1
        <5>2. CASE n # k + 1
          <6>1. n \in numbers \cap (1..k)
            BY <5>2
          <6>2. PICK i \in 1..m : a[i] = n
            BY <2>1, <3>3, <6>1
          <6>3. i \in 1..m + 1
            BY <3>2
          <6>. QED BY <3>2, <6>2, <6>3
        <5>. QED BY <5>1, <5>2
      <4>. QED BY <3>3, <4>1, <4>2
    <3>7. Good(b, k + 1)
      BY <3>2, <3>3, <3>5, <3>6
    <3>. QED BY <3>7 DEF b
  <2>. QED BY <2>3, <2>4
<1> HIDE DEF T
<1>7. count \in T
  BY <1>5, <1>6, Induction
<1>. QED BY <1>1, <1>7 DEF T

\* Pages of a document by their numbers, each number once and in order.
InOrder(pages, numbers) ==
  /\ pages \in Seq(Nat) /\ {pages[i] : i \in DOMAIN pages} = numbers
  /\ \A i, j \in DOMAIN pages : i < j => pages[i] < pages[j]

\* A document whose pages their numbers tell apart.
IsDocument(c) == c \in Seq(FilePage) /\ c # <<>> /\ \A n \in DOMAIN c : c[n].n = n

LEMMA ChosenIs ==
  ASSUME NEW c, IsDocument(c), NEW pages, NEW numbers, InOrder(pages, numbers),
         numbers \subseteq DOMAIN c
  PROVE  /\ Files!Chosen(c, pages) \in Seq(FilePage)
         /\ Len(Files!Chosen(c, pages)) = Len(pages)
         /\ Files!AreThe(Files!Chosen(c, pages), c, numbers)
<1> DEFINE ch == Files!Chosen(c, pages)
           m == Len(pages)
<1>1. /\ pages \in Seq(Nat) /\ m \in Nat /\ DOMAIN pages = 1..m
      /\ {pages[i] : i \in 1..m} = numbers
      /\ \A i, j \in 1..m : i < j => pages[i] < pages[j]
  BY LenProperties DEF InOrder
<1>2. \A i \in 1..m : pages[i] \in numbers /\ pages[i] \in DOMAIN c
  BY <1>1
<1>3. \A n \in DOMAIN c : c[n] \in FilePage /\ c[n].n = n
  BY ElementOfSeq, LenProperties DEF IsDocument
<1>4. ch = [i \in 1..m |-> c[pages[i]]]
  BY <1>1 DEF Files!Chosen
<1> HIDE DEF m, ch
<1>5. ch \in Seq(FilePage) /\ Len(ch) = m /\ DOMAIN ch = 1..m
      /\ \A i \in 1..m : ch[i] = c[pages[i]] /\ ch[i].n = pages[i]
  <2>1. \A i \in 1..m : c[pages[i]] \in FilePage
    BY <1>2, <1>3
  <2>2. [i \in 1..m |-> c[pages[i]]] \in Seq(FilePage)
    BY <1>1, <2>1
  <2>. QED BY <1>1, <1>2, <1>3, <1>4, <2>2
<1>6. {ch[i] : i \in 1..m} = {c[n] : n \in numbers}
  <2>1. ASSUME NEW n \in numbers PROVE \E i \in 1..m : ch[i] = c[n]
    BY <1>1, <1>5
  <2>. QED BY <1>2, <1>5, <2>1
<1>7. \A i, j \in 1..m : i < j => ch[i].n < ch[j].n
  BY <1>1, <1>5
<1>8. Files!AreThe(ch, c, numbers)
  <2>1. Files!Range(ch) = {ch[i] : i \in 1..m}
    BY <1>5 DEF Files!Range
  <2>. QED BY <1>5, <1>6, <1>7, <2>1 DEF Files!AreThe
<1>. QED BY <1>5, <1>8 DEF ch, m

\* All the numbers, for a selection that means all.
LEMMA AllInOrder ==
  ASSUME NEW count \in Nat
  PROVE  InOrder([n \in 1..count |-> n], 1..count)
<1> DEFINE p == [n \in 1..count |-> n]
<1>1. p \in Seq(Nat) /\ DOMAIN p = 1..count /\ \A i \in 1..count : p[i] = i
  OBVIOUS
<1> HIDE DEF p
<1>2. {p[i] : i \in 1..count} = 1..count
  BY <1>1
<1>3. InOrder(p, 1..count)
  BY <1>1, <1>2 DEF InOrder
<1>. QED BY <1>3 DEF p

LEMMA AscendingInOrder ==
  ASSUME NEW numbers, NEW count \in Nat, numbers \subseteq 1..count
  PROVE  InOrder(Files!Ascending(numbers, count), numbers)
<1> DEFINE a == Files!Ascending(numbers, count)
<1>1. /\ a \in Seq(Nat) /\ {a[i] : i \in DOMAIN a} = numbers \cap (1..count)
      /\ \A i, j \in DOMAIN a : i < j => a[i] < a[j]
  BY AscendingIs
<1> HIDE DEF a
<1>2. numbers \cap (1..count) = numbers
  OBVIOUS
<1>3. InOrder(a, numbers)
  BY <1>1, <1>2 DEF InOrder
<1>. QED BY <1>3 DEF a

\* One page in each part, flattened, are the pages.
LEMMA FlattenOnes ==
  ASSUME NEW S, NEW s \in Seq(S)
  PROVE  FlattenSeq([i \in DOMAIN s |-> <<s[i]>>]) = s
<1> DEFINE ones(t) == [i \in DOMAIN t |-> <<t[i]>>]
           P == {t \in Seq(S) : FlattenSeq(ones(t)) = t}
           V == Seq(S)
<1>0. \A t \in Seq(S) : ones(t) \in Seq(V) /\ Len(ones(t)) = Len(t)
  <2> SUFFICES ASSUME NEW t \in Seq(S) PROVE ones(t) \in Seq(V) /\ Len(ones(t)) = Len(t)
    OBVIOUS
  <2>1. Len(t) \in Nat /\ DOMAIN t = 1..Len(t) /\ \A i \in 1..Len(t) : <<t[i]>> \in V
    BY LenProperties
  <2> HIDE DEF V
  <2>. QED BY <2>1
<1>1. <<>> \in P
  <2>1. ones(<<>>) = <<>>
    OBVIOUS
  <2>. QED BY <2>1, FlattenEmpty, EmptySeq
<1>2. ASSUME NEW t \in Seq(S), NEW e \in S, t \in P PROVE Append(t, e) \in P
  <2> DEFINE u == Append(t, e)
             m == Len(t)
             o == ones(t)
  <2>1. /\ u \in Seq(S) /\ Len(u) = m + 1 /\ m \in Nat /\ u[m + 1] = e
        /\ DOMAIN t = 1..m /\ DOMAIN u = 1..m + 1 /\ \A i \in 1..m : u[i] = t[i]
    BY AppendProperties, LenProperties
  <2>2. o \in Seq(V) /\ Len(o) = m /\ \A i \in 1..m : o[i] = <<t[i]>>
    BY <1>0, <2>1
  <2>3. FlattenSeq(o) = t
    BY <1>2
  <2>4. <<e>> \in V
    OBVIOUS
  <2>5. ones(u) = Append(o, <<e>>)
    <3> DEFINE w == Append(o, <<e>>)
    <3> HIDE DEF V, o, u, m
    <3>1. w \in Seq(V) /\ Len(w) = m + 1 /\ w[m + 1] = <<e>> /\ \A i \in 1..m : w[i] = o[i]
      BY <2>2, <2>4, AppendProperties
    <3> HIDE DEF w
    <3>2. \A i \in 1..m + 1 : w[i] = <<u[i]>>
      <4>1. \A i \in 1..m + 1 : i \in 1..m \/ i = m + 1
        BY <2>1
      <4>. QED BY <2>1, <2>2, <3>1, <4>1
    <3>3. w = [i \in 1..m + 1 |-> w[i]]
      <4>1. w \in [1..m + 1 -> V]
        BY <3>1, LenProperties
      <4>. QED BY <4>1
    <3>. QED BY <2>1, <3>2, <3>3 DEF w
  <2>6. FlattenSeq(Append(o, <<e>>)) = FlattenSeq(o) \o <<e>>
    <3> HIDE DEF o
    <3>. QED BY <2>2, <2>4, FlattenAppend
  <2>7. t \o <<e>> = u
    BY AppendIsConcat
  <2>. QED BY <2>1, <2>3, <2>5, <2>6, <2>7
<1> HIDE DEF P
<1>3. s \in P
  BY <1>1, <1>2, SequenceInduction
<1>. QED BY <1>3 DEF P

\* What FileTools says of the job at work, said of a request.
MeansAllOf(j) == j.op \in {"rotate", "text", "images"} /\ j.range = <<>>
NumbersOf(j) == UNION {j.range[i][1]..j.range[i][2] : i \in DOMAIN j.range}
MeantOf(j, count) == IF MeansAllOf(j) THEN 1..count ELSE NumbersOf(j)
NamesPages(j) == j.op \in {"merge", "split", "crop", "reorder"}
UnderstoodOf(j, count) == MeansAllOf(j) \/ NamesPages(j) \/ Files!Parses(j.range, count)
SelectionOf(j, count) ==
  IF MeansAllOf(j) THEN [n \in 1..count |-> n]
  ELSE IF NamesPages(j) THEN [i \in DOMAIN j.range |-> j.range[i][1]]
  ELSE Files!Ascending(NumbersOf(j), count)

ResultOf(j, parts, contents, count) ==
  LET content == contents[Len(contents)]
      meant == MeantOf(j, count)
  IN  CASE j.op = "merge" -> parts = <<FlattenSeq(contents)>>
        [] j.op = "extract" -> Len(parts) = 1 /\ Files!AreThe(parts[1], content, meant)
        [] j.op = "delete" -> Len(parts) = 1 /\ Files!AreThe(parts[1], content, DOMAIN content \ meant)
        [] j.op \in {"rotate", "crop"} ->
             parts = <<[n \in DOMAIN content |->
                          [content[n] EXCEPT !.how = IF n \in meant THEN j.op ELSE @]]>>
        [] j.op = "reorder" ->
             /\ Len(parts) = 1 /\ Len(parts[1]) = Len(content)
             /\ Files!Range(parts[1]) = Files!Range(content)
             /\ \A i \in DOMAIN content : parts[1][i].n = j.range[i][1]
        [] j.op = "split" -> parts = [n \in DOMAIN content |-> <<content[n]>>]
        [] j.op = "text" -> Len(parts) = 1 /\ Files!AreThe(parts[1], content, meant)
        [] j.op = "images" -> /\ \A i \in DOMAIN parts : Len(parts[i]) = 1
                              /\ Files!AreThe(FlattenSeq(parts), content, meant)

LEMMA OfTheJob ==
  /\ \A count : Files!Understood(count) = UnderstoodOf(work.job, count)
  /\ \A count : Files!Selection(count) = SelectionOf(work.job, count)
  /\ \A count : Files!Meant(count) = MeantOf(work.job, count)
<1>1. Files!MeansAll <=> MeansAllOf(work.job)
  BY DEF Files!MeansAll, MeansAllOf, Files!Makes, Files!Op
<1>2. Files!Makes({"merge", "split", "crop", "reorder"}) <=> NamesPages(work.job)
  BY DEF Files!Makes, Files!Op, NamesPages
<1>3. \A count : Files!Parse(work.job.range, count) = Files!Ascending(NumbersOf(work.job), count)
  BY DEF Files!Parse, NumbersOf
<1>4. \A count : Files!Understood(count) <=> UnderstoodOf(work.job, count)
  BY <1>1, <1>2 DEF Files!Understood, UnderstoodOf
<1>5. \A count : Files!Selection(count) = SelectionOf(work.job, count)
  BY <1>1, <1>2, <1>3 DEF Files!Selection, SelectionOf
<1>6. \A count : Files!Meant(count) = MeantOf(work.job, count)
  BY <1>1 DEF Files!Meant, MeantOf, NumbersOf
<1>. QED BY <1>4, <1>5, <1>6

LEMMA ResultOfTheJob ==
  ASSUME NEW parts, NEW contents, NEW count
  PROVE  Files!IsResult(parts, contents, count) <=> ResultOf(work.job, parts, contents, count)
<1>1. Files!Meant(count) = MeantOf(work.job, count)
  BY OfTheJob
<1>2. \A s : Files!FlattenSeq(s) = FlattenSeq(s)
  BY DEF Files!FlattenSeq, FlattenSeq
<1>3. Files!Last(contents) = contents[Len(contents)]
  BY DEF Files!Last
<1>. QED BY <1>1, <1>2, <1>3 DEF Files!IsResult, ResultOf, Files!Op

LEMMA JobIs ==
  ASSUME NEW j \in FileJobs
  PROVE  /\ j.op \in {"merge", "extract", "split", "delete", "rotate", "reorder", "crop", "text", "images"}
         /\ j.sources \in Seq(DOMAIN Contents) /\ j.sources # <<>>
         /\ j.op = "merge" \/ Len(j.sources) = 1
         /\ j.output \in DOMAIN Contents \cup {"output"} /\ j.range \in Seq(Nat \X Nat)
         /\ j.op \in {"crop", "reorder"} =>
              \A i \in DOMAIN j.range : j.range[i][1] = j.range[i][2] /\ j.range[i][1] # 0
  BY FilesAssumption

\* The pages that are selected are those that are meant.
LEMMA SelectionIs ==
  ASSUME NEW j \in FileJobs, NEW count \in Nat, UnderstoodOf(j, count),
         NEW pages, pages = SelectionOf(j, count)
  PROVE  /\ pages \in Seq(Nat)
         /\ ~ NamesPages(j) => InOrder(pages, MeantOf(j, count)) /\ MeantOf(j, count) \subseteq 1..count
         /\ j.op \in {"crop", "reorder"} =>
              /\ Len(pages) = Len(j.range) /\ DOMAIN pages = DOMAIN j.range
              /\ \A i \in DOMAIN j.range : pages[i] = j.range[i][1] /\ pages[i] # 0
              /\ {pages[i] : i \in DOMAIN pages} = MeantOf(j, count)
<1>0. j.range \in Seq(Nat \X Nat)
  BY JobIs
<1>1. CASE MeansAllOf(j)
  <2>1. InOrder([n \in 1..count |-> n], 1..count) /\ MeantOf(j, count) = 1..count
    BY <1>1, AllInOrder DEF MeantOf
  <2>2. pages = [n \in 1..count |-> n]
    BY <1>1 DEF SelectionOf
  <2>3. InOrder(pages, 1..count)
    BY <2>1, <2>2
  <2>4. j.op \notin {"crop", "reorder"}
    BY <1>1 DEF MeansAllOf
  <2>. QED BY <2>1, <2>3, <2>4 DEF InOrder
<1>2. CASE ~ MeansAllOf(j) /\ NamesPages(j)
  <2> DEFINE m == Len(j.range)
  <2>1. pages = [i \in DOMAIN j.range |-> j.range[i][1]]
    BY <1>2 DEF SelectionOf
  <2>2. m \in Nat /\ DOMAIN j.range = 1..m /\ \A i \in 1..m : j.range[i] \in Nat \X Nat
    BY <1>0, LenProperties, ElementOfSeq
  <2>3. pages = [i \in 1..m |-> j.range[i][1]] /\ \A i \in 1..m : j.range[i][1] \in Nat
    BY <2>1, <2>2
  <2> HIDE DEF m
  <2>4. pages \in Seq(Nat) /\ Len(pages) = m /\ DOMAIN pages = 1..m
        /\ \A i \in 1..m : pages[i] = j.range[i][1]
    BY <2>2, <2>3
  <2>5. ASSUME j.op \in {"crop", "reorder"}
        PROVE  /\ \A i \in 1..m : pages[i] # 0
               /\ {pages[i] : i \in 1..m} = MeantOf(j, count)
    <3>1. \A i \in 1..m : j.range[i][1] = j.range[i][2] /\ j.range[i][1] # 0
      BY <2>2, <2>5, JobIs
    <3>2. \A i \in 1..m : j.range[i][1]..j.range[i][2] = {pages[i]}
      BY <2>3, <2>4, <3>1
    <3>3. NumbersOf(j) = {pages[i] : i \in 1..m}
      <4>1. \A n : n \in NumbersOf(j) <=> \E i \in 1..m : n \in j.range[i][1]..j.range[i][2]
        BY <2>2 DEF NumbersOf
      <4> HIDE DEF NumbersOf
      <4>2. \A n : n \in NumbersOf(j) <=> \E i \in 1..m : n \in {pages[i]}
        BY <3>2, <4>1
      <4>. QED BY <4>2
    <3>. QED BY <1>2, <2>4, <3>1, <3>3 DEF MeantOf
  <2>. QED BY <1>2, <2>2, <2>4, <2>5 DEF m
<1>3. CASE ~ MeansAllOf(j) /\ ~ NamesPages(j)
  <2>1. Files!Parses(j.range, count) /\ pages = Files!Ascending(NumbersOf(j), count)
        /\ MeantOf(j, count) = NumbersOf(j)
    BY <1>3 DEF UnderstoodOf, SelectionOf, MeantOf
  <2>2. NumbersOf(j) \subseteq 1..count
    <3>1. ASSUME NEW i \in DOMAIN j.range, NEW n \in j.range[i][1]..j.range[i][2]
          PROVE  n \in 1..count
      <4>1. j.range[i] \in Nat \X Nat
        BY <1>0, ElementOfSeq, LenProperties
      <4>2. j.range[i][1] \in 1..j.range[i][2] /\ j.range[i][2] <= count
        BY <2>1 DEF Files!Parses
      <4> DEFINE x == j.range[i][1]
                 y == j.range[i][2]
      <4>3. x \in Nat /\ y \in Nat /\ x \in 1..y /\ y <= count /\ n \in x..y
        BY <4>1, <4>2, <3>1
      <4> HIDE DEF x, y
      <4>. QED BY <4>3
    <3>. QED BY <3>1 DEF NumbersOf
  <2>3. InOrder(pages, NumbersOf(j))
    BY <2>1, <2>2, AscendingInOrder
  <2>4. j.op \notin {"crop", "reorder"}
    BY <1>3 DEF NamesPages
  <2>. QED BY <2>1, <2>2, <2>3, <2>4 DEF InOrder
<1>. QED BY <1>1, <1>2, <1>3

\* As many different numbers up to m as there are: all of them.
IntoAndApart(f, m) ==
  (\A i \in 1..m : f[i] \in 1..m) /\ (\A i, j \in 1..m : f[i] = f[j] => i = j)
IsOnto(f, m) == \A n \in 1..m : \E i \in 1..m : f[i] = n

LEMMA SameNumbers ==
  ASSUME NEW m \in Nat, NEW f, IntoAndApart(f, m)
  PROVE  IsOnto(f, m)
<1>0. (\A i \in 1..m : f[i] \in 1..m) /\ (\A i, j \in 1..m : f[i] = f[j] => i = j)
  BY DEF IntoAndApart
<1> DEFINE s == [i \in 1..m |-> f[i]]
           T == {f[i] : i \in 1..m}
<1>1. s \in Seq(Nat) /\ Len(s) = m /\ \A i \in 1..m : s[i] = f[i]
  BY <1>0
<1>2. T = {s[i] : i \in 1..Len(s)} /\ \A i, j \in 1..Len(s) : s[i] = s[j] => i = j
  BY <1>0, <1>1
<1> HIDE DEF s
<1>3. Cardinality(T) = m
  BY <1>1, <1>2, DistinctCardinality
<1>4. IsFiniteSet(1..m) /\ Cardinality(1..m) = m
  <2>1. 1 \in Int /\ m \in Int
    OBVIOUS
  <2> HIDE DEF T
  <2>2. IsFiniteSet(1..m) /\ Cardinality(1..m) = IF 1 > m THEN 0 ELSE m - 1 + 1
    BY <2>1, FS_Interval
  <2>. QED BY <2>2
<1>5. T \subseteq 1..m
  BY <1>0
<1> HIDE DEF T
<1>6. T = 1..m
  BY <1>3, <1>4, <1>5, FS_Subset
<1>. QED BY <1>6 DEF T, IsOnto

\* A function on 1..n is a sequence.
LEMMA MapIsSeq ==
  ASSUME NEW S, NEW n \in Nat, NEW f \in [1..n -> S]
  PROVE  f \in Seq(S)
OBVIOUS

\* What an operation checks makes what it builds the result of the request.
LEMMA BuildIsResult ==
  ASSUME NEW j \in FileJobs, work.job = j,
         NEW read \in Seq(Seq(FilePage)), read # <<>>, \A i \in DOMAIN read : IsDocument(read[i]),
         NEW count \in Nat, UnderstoodOf(j, count),
         NEW pages, pages = SelectionOf(j, count), Files!Valid(pages, Len(read[Len(read)]))
  PROVE  /\ Files!Build(read, pages) \in Seq(Seq(FilePage)) /\ Files!Build(read, pages) # <<>>
         /\ ResultOf(j, Files!Build(read, pages), read, count)
<1> DEFINE c == read[Len(read)]
           m == Len(c)
           b == Files!Build(read, pages)
           meant == MeantOf(j, count)
<1>1. /\ c \in Seq(FilePage) /\ c # <<>> /\ m \in Nat \ {0} /\ DOMAIN c = 1..m /\ IsDocument(c)
      /\ \A n \in 1..m : c[n] \in FilePage /\ c[n].n = n
  <2>1. Len(read) \in DOMAIN read
    BY EmptySeq, LenProperties
  <2>2. IsDocument(c)
    BY <2>1
  <2> HIDE DEF c
  <2>. QED BY <2>2, EmptySeq, LenProperties, ElementOfSeq DEF IsDocument
<1>2. Files!Last(read) = c
  BY DEF Files!Last
<1>3. Files!Valid(pages, m)
  OBVIOUS
<1>4. /\ pages \in Seq(Nat)
      /\ ~ NamesPages(j) => InOrder(pages, meant) /\ meant \subseteq 1..count
      /\ j.op \in {"crop", "reorder"} =>
           /\ Len(pages) = Len(j.range) /\ DOMAIN pages = DOMAIN j.range
           /\ \A i \in DOMAIN j.range : pages[i] = j.range[i][1] /\ pages[i] # 0
           /\ {pages[i] : i \in DOMAIN pages} = meant
  BY SelectionIs
<1>5. pages \in Seq(Nat) /\ Len(pages) \in Nat /\ DOMAIN pages = 1..Len(pages)
      /\ \A i \in 1..Len(pages) : pages[i] \in Nat
  BY <1>4, LenProperties, ElementOfSeq
<1>6. \A i \in DOMAIN pages : pages[i] <= m
  BY <1>3 DEF Files!Valid, Files!Within
<1> HIDE DEF c, m, meant
<1>7. ~ NamesPages(j) => InOrder(pages, meant) /\ meant \subseteq 1..m
  <2>1. SUFFICES ASSUME ~ NamesPages(j) PROVE meant \subseteq 1..m
    BY <1>4
  <2>2. {pages[i] : i \in DOMAIN pages} = meant /\ meant \subseteq 1..count
    BY <1>4, <2>1 DEF InOrder
  <2>3. \A n \in meant : n \in 1..count /\ n <= m
    BY <1>6, <2>2
  <2>. QED BY <1>1, <2>3
<1>8. ~ NamesPages(j) /\ j.op \in {"extract", "text", "images"} =>
        /\ Files!Chosen(c, pages) \in Seq(FilePage) /\ Len(Files!Chosen(c, pages)) = Len(pages)
        /\ Files!AreThe(Files!Chosen(c, pages), c, meant)
  BY <1>1, <1>7, ChosenIs
<1>9. \A s \in Seq(FilePage) : <<s>> \in Seq(Seq(FilePage)) /\ <<s>> # <<>> /\ Len(<<s>>) = 1
                             /\ <<s>>[1] = s
  OBVIOUS
<1>10. CASE j.op = "merge"
  <2>1. b = <<FlattenSeq(read)>>
    <3>1. \A s : Files!FlattenSeq(s) = FlattenSeq(s)
      BY DEF Files!FlattenSeq, FlattenSeq
    <3>. QED BY <1>10, <3>1 DEF Files!Build, Files!Op, Files!Merged
  <2>2. FlattenSeq(read) \in Seq(FilePage)
    BY FlattenType
  <2> HIDE DEF b
  <2>3. ResultOf(j, b, read, count)
    BY <1>10, <2>1 DEF ResultOf
  <2>. QED BY <1>9, <2>1, <2>2, <2>3 DEF b
<1>11. CASE j.op \in {"extract", "text"}
  <2>1. b = <<Files!Chosen(c, pages)>>
    BY <1>2, <1>11 DEF Files!Build, Files!Op, Files!Extracted, Files!Texted
  <2>2. Files!Chosen(c, pages) \in Seq(FilePage) /\ Files!AreThe(Files!Chosen(c, pages), c, meant)
    BY <1>8, <1>11 DEF NamesPages
  <2> HIDE DEF b
  <2>3. b \in Seq(Seq(FilePage)) /\ b # <<>> /\ Len(b) = 1 /\ b[1] = Files!Chosen(c, pages)
    BY <1>9, <2>1, <2>2
  <2>4. ResultOf(j, b, read, count)
    BY <1>11, <2>2, <2>3 DEF ResultOf, c, meant
  <2>. QED BY <2>3, <2>4 DEF b
<1>12. CASE j.op = "images"
  <2> DEFINE ch == Files!Chosen(c, pages)
  <2>1. b = [i \in DOMAIN pages |-> <<c[pages[i]]>>]
    BY <1>2, <1>12 DEF Files!Build, Files!Op, Files!Imaged
  <2>2. ch \in Seq(FilePage) /\ Len(ch) = Len(pages) /\ Files!AreThe(ch, c, meant)
    BY <1>8, <1>12 DEF NamesPages
  <2>3. ch = [i \in DOMAIN pages |-> c[pages[i]]]
    BY DEF Files!Chosen
  <2>4. pages # <<>>
    BY <1>3, <1>12 DEF Files!Valid, Files!ValidSelection, Files!Makes, Files!Op
  <2> HIDE DEF b, ch
  <2>5. b = [i \in DOMAIN ch |-> <<ch[i]>>] /\ DOMAIN ch = DOMAIN pages
    BY <2>1, <2>3
  <2>6. FlattenSeq(b) = ch
    BY <2>2, <2>5, FlattenOnes
  <2>7. b \in Seq(Seq(FilePage)) /\ Len(b) = Len(pages) /\ \A i \in DOMAIN b : Len(b[i]) = 1
    <3> DEFINE V == Seq(FilePage)
               k == Len(pages)
    <3>1. DOMAIN ch = 1..k /\ \A i \in 1..k : <<ch[i]>> \in V /\ Len(<<ch[i]>>) = 1
      BY <1>5, <2>2, <2>5, ElementOfSeq
    <3> HIDE DEF V, k
    <3>2. k \in Nat /\ b = [i \in 1..k |-> <<ch[i]>>]
      BY <1>5, <2>5, <3>1 DEF k
    <3>3. b \in Seq(V) /\ Len(b) = k /\ DOMAIN b = 1..k /\ \A i \in 1..k : b[i] = <<ch[i]>>
      BY <3>1, <3>2
    <3>. QED BY <3>1, <3>3 DEF V, k
  <2>8. b # <<>>
    BY <1>5, <2>4, <2>7, EmptySeq
  <2>9. ResultOf(j, b, read, count)
    BY <1>12, <2>2, <2>6, <2>7 DEF ResultOf, c, meant
  <2>. QED BY <2>7, <2>8, <2>9 DEF b
<1>13. CASE j.op = "delete"
  <2> DEFINE kept == DOMAIN c \ meant
             rest == Files!Retained(pages, m)
             ch == Files!Chosen(c, rest)
  <2>1. b = <<ch>>
    BY <1>2, <1>13 DEF Files!Build, Files!Op, Files!Shortened, m
  <2>2. meant = {pages[i] : i \in DOMAIN pages}
    BY <1>7, <1>13 DEF NamesPages, InOrder
  <2>3. {n \in 1..m : ~ Files!Contains(pages, n)} = kept
    <3>1. \A n : Files!Contains(pages, n) <=> n \in meant
      BY <1>5, <2>2 DEF Files!Contains
    <3>. QED BY <1>1, <3>1
  <2>4. rest = Files!Ascending(kept, m)
    BY <2>3 DEF Files!Retained
  <2>5. InOrder(rest, kept)
    BY <1>1, <2>4, AscendingInOrder
  <2> HIDE DEF rest
  <2>6. ch \in Seq(FilePage) /\ Files!AreThe(ch, c, kept)
    BY <1>1, <2>5, ChosenIs
  <2> HIDE DEF b, ch
  <2>7. b \in Seq(Seq(FilePage)) /\ b # <<>> /\ Len(b) = 1 /\ b[1] = ch
    BY <1>9, <2>1, <2>6
  <2>8. ResultOf(j, b, read, count)
    BY <1>13, <2>6, <2>7 DEF ResultOf, c, meant
  <2>. QED BY <2>7, <2>8 DEF b
<1>14. CASE j.op \in {"rotate", "crop"}
  <2> DEFINE t == Files!Treated(c, pages, j.op)
             u == [n \in DOMAIN c |-> [c[n] EXCEPT !.how = IF n \in meant THEN j.op ELSE @]]
  <2>1. b = <<t>>
    BY <1>2, <1>14 DEF Files!Build, Files!Op, Files!Rotated, Files!Cropped
  <2>2. meant = {pages[i] : i \in DOMAIN pages}
    BY <1>4, <1>7, <1>14 DEF NamesPages, InOrder
  <2>3. \A n : Files!Contains(pages, n) <=> n \in meant
    BY <1>5, <2>2 DEF Files!Contains
  <2>4. \A n \in 1..m : [c[n] EXCEPT !.how = c[n].how] = c[n]
    BY <1>1 DEF FilePage
  <2>5. t = u
    BY <1>1, <2>3, <2>4 DEF Files!Treated
  <2>6. \A n \in 1..m : u[n] \in FilePage
    <3>2. \A n \in 1..m : c[n] \in FilePage
      BY <1>1
    <3>3. \A page \in FilePage : [page EXCEPT !.how = j.op] \in FilePage
      BY <1>14 DEF FilePage
    <3>4. ASSUME NEW n \in 1..m, n \in meant PROVE u[n] \in FilePage
      <4>1. u[n] = [c[n] EXCEPT !.how = j.op]
        BY <1>1, <3>4
      <4> HIDE DEF u
      <4>. QED BY <3>2, <3>3, <4>1
    <3>5. ASSUME NEW n \in 1..m, n \notin meant PROVE u[n] \in FilePage
      <4>1. u[n] = c[n]
        BY <1>1, <2>4, <3>5
      <4> HIDE DEF u
      <4>. QED BY <3>2, <4>1
    <3>. QED BY <3>4, <3>5
  <2>7. u \in Seq(FilePage)
    <3>1. u = [n \in 1..m |-> u[n]] /\ m \in Nat
      BY <1>1
    <3> HIDE DEF u
    <3> DEFINE w == [n \in 1..m |-> u[n]]
    <3>2. w \in [1..m -> FilePage]
      BY <2>6
    <3>3. w \in Seq(FilePage)
      <4> HIDE DEF w
      <4>. QED BY <3>1, <3>2, MapIsSeq
    <3>. QED BY <3>1, <3>3
  <2>8. b = <<u>>
    BY <2>1, <2>5
  <2>9. ResultOf(j, <<u>>, read, count)
    <3> HIDE DEF b, t
    <3>. QED BY <1>14 DEF ResultOf, c, meant
  <2> HIDE DEF b, u, t
  <2>. QED BY <1>9, <2>7, <2>8, <2>9 DEF b
<1>15. CASE j.op = "split"
  <2> DEFINE s == [n \in DOMAIN c |-> <<c[n]>>]
  <2>1. b = s
    BY <1>2, <1>15 DEF Files!Build, Files!Op, Files!SplitUp
  <2>2. s \in Seq(Seq(FilePage)) /\ s # <<>>
    <3> DEFINE V == Seq(FilePage)
    <3>1. \A n \in 1..m : <<c[n]>> \in V
      BY <1>1
    <3> HIDE DEF V
    <3>2. s \in Seq(V) /\ Len(s) = m
      BY <1>1, <3>1
    <3> HIDE DEF s
    <3>. QED BY <1>1, <3>2, EmptySeq DEF V
  <2>3. ResultOf(j, s, read, count)
    BY <1>15 DEF ResultOf, c
  <2>. QED BY <2>1, <2>2, <2>3
<1>16. CASE j.op = "reorder"
  <2> DEFINE ch == Files!Chosen(c, pages)
             k == Len(pages)
  <2>1. b = <<ch>>
    BY <1>2, <1>16 DEF Files!Build, Files!Op, Files!Reordered
  <2>2. Len(pages) = m /\ \A a, e \in DOMAIN pages : pages[a] = pages[e] => a = e
    BY <1>3, <1>16 DEF Files!Valid, Files!Makes, Files!Op, Files!Apart
  <2>3. DOMAIN pages = 1..m /\ \A i \in 1..m : pages[i] \in 1..m /\ pages[i] = j.range[i][1]
    <3>1. DOMAIN pages = 1..m /\ DOMAIN j.range = 1..m
      BY <1>4, <1>5, <1>16, <2>2
    <3>2. \A i \in 1..m : pages[i] = j.range[i][1] /\ pages[i] # 0
      BY <1>4, <1>16, <3>1
    <3>3. \A i \in 1..m : pages[i] \in Nat /\ pages[i] <= m
      BY <1>5, <1>6, <2>2, <3>1
    <3>4. ASSUME NEW i \in 1..m PROVE pages[i] \in 1..m
      <4> DEFINE x == pages[i]
      <4>1. x \in Nat /\ x <= m /\ x # 0 /\ m \in Nat
        BY <1>1, <3>2, <3>3
      <4> HIDE DEF x
      <4>2. x \in 1..m
        BY <4>1
      <4>. QED BY <4>2 DEF x
    <3>. QED BY <3>1, <3>2, <3>4
  <2>4. \A n \in 1..m : \E i \in 1..m : pages[i] = n
    <3>1. m \in Nat /\ \A i \in 1..m : pages[i] \in 1..m
      BY <1>1, <2>3
    <3>2. \A a, e \in 1..m : pages[a] = pages[e] => a = e
      BY <2>2, <2>3
    <3>3. IntoAndApart(pages, m)
      BY <3>1, <3>2 DEF IntoAndApart
    <3>4. IsOnto(pages, m)
      BY <3>1, <3>3, SameNumbers
    <3>. QED BY <3>4 DEF IsOnto
  <2>5. ch = [i \in 1..m |-> c[pages[i]]]
    BY <2>3 DEF Files!Chosen
  <2> HIDE DEF ch
  <2>6. ch \in Seq(FilePage) /\ Len(ch) = m /\ DOMAIN ch = 1..m /\ \A i \in 1..m : ch[i] = c[pages[i]]
    <3>1. \A i \in 1..m : c[pages[i]] \in FilePage
      BY <1>1, <2>3
    <3>. QED BY <1>1, <2>5, <3>1
  <2>7. \A n \in 1..m : \E i \in 1..m : ch[i] = c[n]
    <3>1. SUFFICES ASSUME NEW n \in 1..m PROVE \E i \in 1..m : ch[i] = c[n]
      OBVIOUS
    <3>2. PICK i \in 1..m : pages[i] = n
      BY <2>4
    <3>. QED BY <2>6, <3>2
  <2>8. Files!Range(ch) = Files!Range(c)
    <3>1. \A x : x \in Files!Range(ch) <=> \E i \in 1..m : x = ch[i]
      BY <2>6 DEF Files!Range
    <3>2. \A x : x \in Files!Range(c) <=> \E i \in 1..m : x = c[i]
      BY <1>1 DEF Files!Range
    <3>3. \A i \in 1..m : \E n \in 1..m : ch[i] = c[n]
      BY <2>3, <2>6
    <3>4. \A x : x \in Files!Range(ch) <=> x \in Files!Range(c)
      BY <2>7, <3>1, <3>2, <3>3
    <3>. QED BY <3>4
  <2>9. \A i \in 1..m : ch[i].n = j.range[i][1]
    BY <1>1, <2>3, <2>6
  <2> HIDE DEF b
  <2>10. b \in Seq(Seq(FilePage)) /\ b # <<>> /\ Len(b) = 1 /\ b[1] = ch
    BY <1>9, <2>1, <2>6
  <2>11. ResultOf(j, b, read, count)
    <3>1. Len(b) = 1 /\ Len(b[1]) = Len(c) /\ Files!Range(b[1]) = Files!Range(c)
          /\ \A i \in DOMAIN c : b[1][i].n = j.range[i][1]
      BY <1>1, <2>6, <2>8, <2>9, <2>10 DEF m
    <3>. QED BY <1>16, <3>1 DEF ResultOf, c
  <2>. QED BY <2>10, <2>11 DEF b
<1>. QED BY <1>10, <1>11, <1>12, <1>13, <1>14, <1>15, <1>16, JobIs

-----------------------------------------------------------------------------
\* The pages a source had since the job began.
PdfsOf(d, s) == {c.parts[1] : c \in {c \in d.had[s] \ {None} : c.kind = "pages"}}

LastSource(w) == w.job.sources[Len(w.job.sources)]
Directory(w) == w.job.op \in {"split", "text", "images"}
Conversion(w) == w.job.op \in {"text", "images"}
Places(w) == IF Directory(w) THEN {"pages", "pages_2"} ELSE {w.job.output}
OutputOf(d) ==
  {name \in Files!Names \ Files!Temps : d.files[name] # None /\ d.theirs[name] = None}

\* The whole result of the request.
Whole(w, d, parts) ==
  \E contents \in Seq(Seq(FilePage)), counted \in PdfsOf(d, LastSource(w)) :
    /\ Len(contents) = Len(w.job.sources)
    /\ \A i \in 1..Len(contents) : contents[i] \in PdfsOf(d, w.job.sources[i])
    /\ ResultOf(w.job, parts, contents, Len(counted))

WorkFields == {"job", "at", "cancelled", "left", "pages", "read", "todo", "name", "result"}
WorkIsGood(w) == DOMAIN w = WorkFields /\ w.job \in FileJobs

\* Files of others are as they left them, and what they left in a source is known.
DiskIsGood(w, d) ==
  /\ DOMAIN d = {"files", "theirs", "meddled", "had"}
  /\ d.files \in [Files!Names -> FileContent \cup {None}]
  /\ d.theirs \in [Files!Names -> FileContent \cup {None}]
  /\ DOMAIN d.had = {w.job.sources[i] : i \in DOMAIN w.job.sources}
  /\ \A s \in DOMAIN d.had :
       d.theirs[s] \in d.had[s] /\ d.had[s] \subseteq Contents[s] \cup {None, Files!Theirs}
  /\ \A name \in Files!Names : d.theirs[name] # None => d.files[name] = d.theirs[name]
  /\ \A name \in Files!Temps : d.theirs[name] = None

Over == {"placed", "ended", "killed"}

OutputIsGood(w, d) ==
  /\ w.at \notin Over => OutputOf(d) = {}
  /\ \A name \in OutputOf(d) : name \in Places(w) /\ Whole(w, d, d.files[name].parts)
  /\ w.at = "placed" => \E name : OutputOf(d) = {name}
  /\ w.at = "ended" =>
       /\ \A name \in Files!Temps : d.files[name] = None
       /\ w.result = "Completed" => \E name : OutputOf(d) = {name}
       /\ w.result \in {"Failed", "PasswordRequired"} => OutputOf(d) = {}

\* Where the job is, and what of the result there is by then.
Looking(w) ==
  /\ w.left \in Seq(DOMAIN Contents) /\ w.left # <<>> /\ w.left[Len(w.left)] = LastSource(w)
  /\ w.read = <<>>

Selected(w, d) ==
  \E counted \in PdfsOf(d, LastSource(w)) :
    UnderstoodOf(w.job, Len(counted)) /\ w.pages = SelectionOf(w.job, Len(counted))

HasRead(w, d) ==
  /\ w.left \in Seq(DOMAIN Contents) /\ w.left # <<>>
  /\ w.read \in Seq(Seq(FilePage)) /\ Len(w.read) + Len(w.left) = Len(w.job.sources)
  /\ \A i \in 1..Len(w.left) : w.left[i] = w.job.sources[Len(w.read) + i]
  /\ \A i \in 1..Len(w.read) : w.read[i] \in PdfsOf(d, w.job.sources[i])

ToDo(w, d, done) ==
  /\ done \in Seq(Seq(FilePage)) /\ w.todo \in Seq(Seq(FilePage)) /\ w.todo # <<>>
  /\ Whole(w, d, done \o w.todo)

Staged(d) == d.files["staged"].parts
HasStaged(d) == d.files["staged"] # None /\ Staged(d) \in Seq(Seq(FilePage))

BeforeWork(w, d) ==
  /\ w.at \in {"begin", "preflight"} => Looking(w)
  /\ w.at = "load" \/ (w.at = "stage" /\ ~ Conversion(w)) => Selected(w, d) /\ HasRead(w, d)
  /\ w.at = "load" /\ ~ Conversion(w) => d.files["staged"] = Files!Parts(<<>>)
AtWork(w, d) ==
  /\ w.at = "stage" /\ Conversion(w) => ToDo(w, d, <<>>)
  /\ w.at \in {"create", "fill", "rename", "convert"} => HasStaged(d) /\ ToDo(w, d, Staged(d))
  /\ w.at = "rename" => d.files["written"] = Files!Parts(<<w.todo[1]>>)
AfterWork(w, d) ==
  /\ w.at \in {"check", "persist", "name", "move"} => HasStaged(d) /\ Whole(w, d, Staged(d))
  /\ w.at = "persist" => ~ Directory(w)
  /\ w.at \in {"name", "move"} => Directory(w)
  /\ w.at = "move" => w.name \in {"pages", "pages_2"}
  /\ w.at \notin {"name", "move"} \cup Over => w.name = w.job.output

FilesAreGood(w, d) ==
  /\ WorkIsGood(w) /\ DiskIsGood(w, d) /\ OutputIsGood(w, d)
  /\ BeforeWork(w, d) /\ AtWork(w, d) /\ AfterWork(w, d)

-----------------------------------------------------------------------------

LEMMA NamesAre ==
  /\ Files!Names = DOMAIN Contents \cup {"staged", "written", "output", "pages", "pages_2"}
  /\ Files!Temps = {"staged", "written"}
  /\ DOMAIN Contents \cap Files!Temps = {}
  /\ None \notin FileContent
<1>1. Files!Range(Files!Directories) = {"pages", "pages_2"}
  <2>1. DOMAIN Files!Directories = {1, 2} /\ Files!Directories[1] = "pages"
        /\ Files!Directories[2] = "pages_2"
    BY DEF Files!Directories
  <2>. QED BY <2>1 DEF Files!Range
<1>. QED BY <1>1, FilesAssumption DEF Files!Names, Files!Temps

\* The sources of a job are files with a name of their own.
LEMMA SourcesAre ==
  ASSUME NEW w, WorkIsGood(w)
  PROVE  /\ w.job.sources \in Seq(DOMAIN Contents) /\ Len(w.job.sources) \in Nat \ {0}
         /\ DOMAIN w.job.sources = 1..Len(w.job.sources)
         /\ \A i \in 1..Len(w.job.sources) : w.job.sources[i] \in DOMAIN Contents
         /\ Len(w.job.sources) \in DOMAIN w.job.sources
<1> DEFINE s == w.job.sources
<1>1. s \in Seq(DOMAIN Contents) /\ s # <<>>
  BY JobIs DEF WorkIsGood
<1> HIDE DEF s
<1>2. Len(s) \in Nat /\ DOMAIN s = 1..Len(s) /\ Len(s) # 0
  BY <1>1, EmptySeq, LenProperties
<1>3. \A i \in 1..Len(s) : s[i] \in DOMAIN Contents
  BY <1>1, <1>2, ElementOfSeq
<1>4. Len(s) \in Nat \ {0} /\ Len(s) \in 1..Len(s)
  BY <1>2
<1>. QED BY <1>1, <1>2, <1>3, <1>4 DEF s

\* What is read of a source is a document.
LEMMA PdfsAre ==
  ASSUME NEW w, NEW d, WorkIsGood(w), DiskIsGood(w, d), NEW s \in DOMAIN d.had
  PROVE  \A p \in PdfsOf(d, s) : IsDocument(p) /\ Len(p) \in Nat
<1>1. s \in DOMAIN Contents /\ d.had[s] \subseteq Contents[s] \cup {None, Files!Theirs}
  BY SourcesAre DEF DiskIsGood
<1>2. ASSUME NEW c \in d.had[s], c # None, c.kind = "pages"
      PROVE  IsDocument(c.parts[1]) /\ Len(c.parts[1]) \in Nat
  <2>1. c \in Contents[s]
    BY <1>1, <1>2 DEF Files!Theirs
  <2>2. /\ c \in FileContent /\ Len(c.parts) = 1 /\ c.parts[1] # <<>>
        /\ \A n \in DOMAIN c.parts[1] : c.parts[1][n].n = n
    BY <1>1, <1>2, <2>1, FilesAssumption
  <2>3. c.parts \in Seq(Seq(FilePage))
    BY <2>2 DEF FileContent
  <2> DEFINE parts == c.parts
  <2>4. 1 \in 1..Len(parts)
    BY <2>2
  <2>5. parts[1] \in Seq(FilePage)
    <3> HIDE DEF parts
    <3>. QED BY <2>3, <2>4, ElementOfSeq DEF parts
  <2>. QED BY <2>2, <2>5, LenProperties DEF IsDocument
<1>. QED BY <1>2 DEF PdfsOf

\* As long as there is no output of the job, what is in a source is what somebody
\* left there.
LEMMA SourceIs ==
  ASSUME NEW w, NEW d, WorkIsGood(w), DiskIsGood(w, d), OutputOf(d) = {},
         NEW s \in DOMAIN d.had, d.files[s] # None, d.files[s].kind = "pages"
  PROVE  d.files[s].parts[1] \in PdfsOf(d, s)
<1>1. s \in DOMAIN Contents
  BY SourcesAre DEF DiskIsGood
<1>2. s \in Files!Names \ Files!Temps
  BY <1>1, NamesAre
<1>3. d.theirs[s] # None
  BY <1>2 DEF OutputOf
<1>4. d.files[s] = d.theirs[s] /\ d.theirs[s] \in d.had[s]
  BY <1>2, <1>3 DEF DiskIsGood
<1>. QED BY <1>4 DEF PdfsOf

\* A source that had something had it whatever else comes.
LEMMA WholeStays ==
  ASSUME NEW w, NEW d, NEW v, NEW e, WorkIsGood(w), DiskIsGood(w, d), v.job = w.job,
         \A s \in DOMAIN d.had : d.had[s] \subseteq e.had[s]
  PROVE  /\ \A s \in DOMAIN d.had : PdfsOf(d, s) \subseteq PdfsOf(e, s)
         /\ \A i \in 1..Len(w.job.sources) : w.job.sources[i] \in DOMAIN d.had
         /\ LastSource(w) \in DOMAIN d.had /\ LastSource(v) = LastSource(w)
         /\ \A parts : Whole(w, d, parts) => Whole(v, e, parts)
<1>1. \A i \in 1..Len(w.job.sources) : w.job.sources[i] \in DOMAIN d.had
  BY SourcesAre DEF DiskIsGood
<1>2. LastSource(w) \in DOMAIN d.had /\ LastSource(v) = LastSource(w)
  BY <1>1, SourcesAre DEF LastSource
<1>3. \A s \in DOMAIN d.had : PdfsOf(d, s) \subseteq PdfsOf(e, s)
  BY DEF PdfsOf
<1>4. ASSUME NEW parts, Whole(w, d, parts) PROVE Whole(v, e, parts)
  <2>1. PICK contents \in Seq(Seq(FilePage)), counted \in PdfsOf(d, LastSource(w)) :
          /\ Len(contents) = Len(w.job.sources)
          /\ \A i \in 1..Len(contents) : contents[i] \in PdfsOf(d, w.job.sources[i])
          /\ ResultOf(w.job, parts, contents, Len(counted))
    BY <1>4 DEF Whole
  <2>2. counted \in PdfsOf(e, LastSource(v))
    BY <1>2, <1>3
  <2>3. \A i \in 1..Len(contents) : contents[i] \in PdfsOf(e, v.job.sources[i])
    BY <1>1, <1>3, <2>1
  <2>4. Len(contents) = Len(v.job.sources) /\ ResultOf(v.job, parts, contents, Len(counted))
    BY <2>1
  <2>. QED BY <2>2, <2>3, <2>4 DEF Whole
<1>. QED BY <1>1, <1>2, <1>3, <1>4

\* A state has the same sources whatever the rest of it is.
LEMMA DiskOfJob ==
  ASSUME NEW w, NEW d, NEW v, DiskIsGood(w, d), v.job = w.job
  PROVE  DiskIsGood(v, d)
BY DEF DiskIsGood

\* Before there is an output nothing is asked of it.
LEMMA NoOutput ==
  ASSUME NEW v, NEW e, OutputOf(e) = {}, v.at \notin Over
  PROVE  OutputIsGood(v, e)
BY DEF OutputIsGood, Over

\* What the job does to its hidden files.
LEMMA PutTemp ==
  ASSUME NEW w, NEW d, DiskIsGood(w, d), NEW t \in Files!Temps,
         NEW content \in FileContent \cup {None}, NEW e, e = [d EXCEPT !.files[t] = content]
  PROVE  /\ DiskIsGood(w, e) /\ OutputOf(e) = OutputOf(d) /\ e.had = d.had
         /\ e.files[t] = content
         /\ \A name \in Files!Names : name # t => e.files[name] = d.files[name]
<1>1. t \in Files!Names
  BY NamesAre
<1>2. /\ DOMAIN d = {"files", "theirs", "meddled", "had"}
      /\ d.files \in [Files!Names -> FileContent \cup {None}]
  BY DEF DiskIsGood
<1>3. /\ DOMAIN e = {"files", "theirs", "meddled", "had"} /\ e.theirs = d.theirs /\ e.had = d.had
      /\ e.files = [d.files EXCEPT ![t] = content]
  BY <1>2
<1>4. /\ e.files \in [Files!Names -> FileContent \cup {None}] /\ e.files[t] = content
      /\ \A name \in Files!Names : name # t => e.files[name] = d.files[name]
  BY <1>1, <1>2, <1>3
<1>5. OutputOf(e) = OutputOf(d)
  BY <1>3, <1>4 DEF OutputOf
<1>6. \A name \in Files!Names : e.theirs[name] # None => e.files[name] = e.theirs[name]
  BY <1>3, <1>4 DEF DiskIsGood
<1>7. DiskIsGood(w, e)
  BY <1>3, <1>4, <1>6 DEF DiskIsGood
<1>. QED BY <1>3, <1>4, <1>5, <1>7

\* The way out, from wherever the job is.
LEMMA EndGood ==
  ASSUME FilesAreGood(work, world), Files!Runs, NEW result, Files!End(result),
         result = "Completed" => work.at = "placed",
         result \in {"Failed", "PasswordRequired"} => work.at # "placed"
  PROVE  FilesAreGood(work', world')
<1> DEFINE w == work
           d == world
           v == work'
           e == world'
           cleared == [name \in Files!Names |-> IF name \in Files!Temps THEN None ELSE d.files[name]]
<1>1. WorkIsGood(w) /\ DiskIsGood(w, d) /\ OutputIsGood(w, d)
  BY DEF FilesAreGood
<1>2. /\ v = [w EXCEPT !.at = "ended", !.result = result]
      /\ e = [d EXCEPT !.files = cleared]
  BY DEF Files!End
<1>3. /\ DOMAIN v = WorkFields /\ v.at = "ended" /\ v.result = result /\ v.job = w.job
  BY <1>1, <1>2 DEF WorkIsGood, WorkFields
<1>4. DOMAIN e = {"files", "theirs", "meddled", "had"} /\ e.theirs = d.theirs /\ e.had = d.had
      /\ e.files = cleared
  BY <1>1, <1>2 DEF DiskIsGood
<1>5. /\ e.files \in [Files!Names -> FileContent \cup {None}]
      /\ \A name \in Files!Names : name \notin Files!Temps => e.files[name] = d.files[name]
      /\ \A name \in Files!Temps : e.files[name] = None
  BY <1>1, <1>4, NamesAre DEF DiskIsGood
<1> HIDE DEF w, d, v, e, cleared
<1>6. DiskIsGood(v, e)
  <2>1. \A name \in Files!Names : e.theirs[name] # None => e.files[name] = e.theirs[name]
    BY <1>1, <1>4, <1>5 DEF DiskIsGood
  <2>. QED BY <1>1, <1>3, <1>4, <1>5, <2>1 DEF DiskIsGood
<1>7. OutputOf(e) = OutputOf(d)
  BY <1>4, <1>5 DEF OutputOf
<1>8. OutputIsGood(v, e)
  <2>1. ASSUME NEW name \in OutputOf(e)
        PROVE  name \in Places(v) /\ Whole(v, e, e.files[name].parts)
    <3>1. name \in Places(w) /\ Whole(w, d, d.files[name].parts)
      BY <1>1, <1>7, <2>1 DEF OutputIsGood
    <3>2. e.files[name] = d.files[name]
      BY <1>5, <2>1 DEF OutputOf
    <3>3. Whole(v, e, d.files[name].parts)
      BY <1>1, <1>3, <1>4, <3>1, WholeStays
    <3>. QED BY <1>3, <3>1, <3>2, <3>3 DEF Places, Directory
  <2>2. result = "Completed" => \E name : OutputOf(e) = {name}
    BY <1>1, <1>7 DEF OutputIsGood, w
  <2>3. result \in {"Failed", "PasswordRequired"} => OutputOf(e) = {}
    BY <1>1, <1>7 DEF OutputIsGood, w, Over, Files!Runs
  <2>. QED BY <1>3, <1>5, <2>1, <2>2, <2>3 DEF OutputIsGood, Over
<1>9. WorkIsGood(v) /\ BeforeWork(v, e) /\ AtWork(v, e) /\ AfterWork(v, e)
  BY <1>1, <1>3 DEF WorkIsGood, BeforeWork, AtWork, AfterWork, Over
<1>. QED BY <1>6, <1>8, <1>9 DEF FilesAreGood, v, e

LEMMA FailedGood ==
  ASSUME FilesAreGood(work, world), Files!Runs, work.at # "placed", NEW result,
         result # "Completed", Files!End(result)
  PROVE  FilesAreGood(work', world')
BY EndGood

LEMMA RefuseGood ==
  ASSUME FilesAreGood(work, world), Files!Runs, work.at # "placed", NEW s, Files!Refuse(s)
  PROVE  FilesAreGood(work', world')
BY FailedGood DEF Files!Refuse

-----------------------------------------------------------------------------
(* The steps of the job *)

LEMMA BeginGood ==
  ASSUME FilesAreGood(work, world), Files!Begin
  PROVE  FilesAreGood(work', world')
<1>1. CASE work.cancelled
  BY <1>1, FailedGood DEF Files!Begin, Files!Runs
<1>2. CASE ~ work.cancelled
  <2> DEFINE w == work
             d == world
             v == work'
  <2>1. /\ w.at = "begin" /\ v = [w EXCEPT !.at = "preflight"] /\ world' = d
        /\ WorkIsGood(w) /\ DiskIsGood(w, d) /\ OutputIsGood(w, d) /\ Looking(w)
        /\ w.name = w.job.output
    BY <1>2 DEF Files!Begin, FilesAreGood, BeforeWork, AfterWork, Over
  <2>2. /\ DOMAIN v = WorkFields /\ v.at = "preflight" /\ v.job = w.job /\ v.left = w.left
        /\ v.read = w.read /\ v.name = w.name
    BY <2>1 DEF WorkIsGood, WorkFields
  <2> HIDE DEF w, d, v
  <2>3. DiskIsGood(v, d) /\ OutputIsGood(v, d)
    BY <2>1, <2>2, DiskOfJob, NoOutput DEF OutputIsGood, Over
  <2>4. WorkIsGood(v) /\ BeforeWork(v, d) /\ AtWork(v, d) /\ AfterWork(v, d)
    BY <2>1, <2>2 DEF WorkIsGood, BeforeWork, AtWork, AfterWork, Over, Looking, LastSource
  <2>. QED BY <2>1, <2>3, <2>4 DEF FilesAreGood, w, d, v
<1>. QED BY <1>1, <1>2

-----------------------------------------------------------------------------
\* What was read and selected, and what there is to do, stays so.
LEMMA ProgressStays ==
  ASSUME NEW w, NEW d, NEW v, NEW e, WorkIsGood(w), DiskIsGood(w, d), v.job = w.job,
         \A s \in DOMAIN d.had : d.had[s] \subseteq e.had[s]
  PROVE  /\ Selected(w, d) /\ v.pages = w.pages => Selected(v, e)
         /\ HasRead(w, d) /\ v.left = w.left /\ v.read = w.read => HasRead(v, e)
         /\ \A done : ToDo(w, d, done) /\ v.todo = w.todo => ToDo(v, e, done)
<1>1. /\ \A s \in DOMAIN d.had : PdfsOf(d, s) \subseteq PdfsOf(e, s)
      /\ \A i \in 1..Len(w.job.sources) : w.job.sources[i] \in DOMAIN d.had
      /\ LastSource(w) \in DOMAIN d.had /\ LastSource(v) = LastSource(w)
      /\ \A parts : Whole(w, d, parts) => Whole(v, e, parts)
  BY WholeStays
<1>2. Selected(w, d) /\ v.pages = w.pages => Selected(v, e)
  BY <1>1 DEF Selected
<1>3. HasRead(w, d) /\ v.left = w.left /\ v.read = w.read => HasRead(v, e)
  <2>1. SUFFICES ASSUME HasRead(w, d), v.left = w.left, v.read = w.read PROVE HasRead(v, e)
    OBVIOUS
  <2>2. Len(w.read) \in Nat /\ Len(w.left) \in Nat /\ Len(w.read) + Len(w.left) = Len(w.job.sources)
    BY <2>1, LenProperties DEF HasRead
  <2>3. \A i \in 1..Len(w.read) : i \in 1..Len(w.job.sources)
    <3> DEFINE a == Len(w.read)
               b == Len(w.left)
               c == Len(w.job.sources)
    <3>1. a \in Nat /\ b \in Nat /\ a + b = c
      BY <2>2
    <3> HIDE DEF a, b, c
    <3>2. \A i \in 1..a : i \in 1..c
      BY <3>1
    <3>. QED BY <3>2 DEF a, c
  <2>4. \A i \in 1..Len(v.read) : v.read[i] \in PdfsOf(e, v.job.sources[i])
    BY <1>1, <2>1, <2>3 DEF HasRead
  <2>. QED BY <2>1, <2>4 DEF HasRead
<1>4. \A done : ToDo(w, d, done) /\ v.todo = w.todo => ToDo(v, e, done)
  BY <1>1 DEF ToDo
<1>. QED BY <1>2, <1>3, <1>4

LEMMA OfThisJob ==
  /\ Files!Converts = Conversion(work) /\ Files!MakesDirectory = Directory(work)
  /\ Files!Mine = OutputOf(world) /\ Files!Op = work.job.op
  /\ \A s : Files!IsPdf(s) <=> world.files[s] # None /\ world.files[s].kind = "pages"
BY DEF Files!Converts, Conversion, Files!MakesDirectory, Directory, Files!Makes, Files!Op,
       Files!Mine, OutputOf, Files!Files, Files!IsPdf

\* The first of what is left, and the rest.
LEMMA LeftIs ==
  ASSUME NEW S, NEW s \in Seq(S), s # <<>>
  PROVE  /\ Head(s) = s[1] /\ s[1] \in S /\ Len(s) \in Nat \ {0}
         /\ Tail(s) \in Seq(S) /\ Len(Tail(s)) = Len(s) - 1
         /\ \A i \in 1..Len(s) - 1 : Tail(s)[i] = s[i + 1]
         /\ Len(s) > 1 => Tail(s) # <<>> /\ Tail(s)[Len(Tail(s))] = s[Len(s)]
<1>1. Len(s) \in Nat /\ Len(s) # 0
  BY EmptySeq, LenProperties
<1>2. Head(s) = s[1] /\ s[1] \in S
  <2>1. 1 \in 1..Len(s)
    BY <1>1
  <2>. QED BY <2>1, ElementOfSeq
<1> DEFINE t == Tail(s)
<1>3. t \in Seq(S) /\ Len(t) = Len(s) - 1 /\ \A i \in 1..Len(s) - 1 : t[i] = s[i + 1]
  BY HeadTailProperties
<1> HIDE DEF t
<1>4. ASSUME Len(s) > 1 PROVE t # <<>> /\ t[Len(t)] = s[Len(s)]
  <2>1. Len(t) \in 1..Len(s) - 1 /\ Len(t) + 1 = Len(s)
    BY <1>1, <1>3, <1>4
  <2>2. Len(t) # 0
    BY <2>1
  <2>. QED BY <1>3, <2>1, <2>2, EmptySeq
<1>. QED BY <1>1, <1>2, <1>3, <1>4 DEF t

LEMMA PreflightGood ==
  ASSUME FilesAreGood(work, world), Files!Preflight
  PROVE  FilesAreGood(work', world')
<1> DEFINE w == work
           d == world
           v == work'
           source == Head(work.left)
           count == Len(world.files[source].parts[1])
<1>0. Files!Runs /\ work.at # "placed"
  BY DEF Files!Preflight, Files!Runs
<1>1. CASE Files!End("Failed") \/ Files!End("Cancelled") \/ Files!Refuse(source)
  BY <1>0, <1>1, FailedGood, RefuseGood
<1>2. CASE /\ Files!IsPdf(source) /\ world' = world
           /\ \/ Len(work.left) > 1 /\ work' = [work EXCEPT !.left = Tail(@)]
              \/ /\ ~ Len(work.left) > 1 /\ Files!Understood(count)
                 /\ work' = [work EXCEPT !.at = IF Files!Converts THEN "load" ELSE "stage",
                                         !.left = work.job.sources, !.pages = Files!Selection(count)]
  <2>1. /\ w.at = "preflight" /\ WorkIsGood(w) /\ DiskIsGood(w, d) /\ OutputIsGood(w, d)
        /\ OutputOf(d) = {} /\ Looking(w) /\ w.name = w.job.output
    BY DEF Files!Preflight, FilesAreGood, BeforeWork, AfterWork, OutputIsGood, Over
  <2>2. /\ w.left \in Seq(DOMAIN Contents) /\ w.left # <<>> /\ w.left[Len(w.left)] = LastSource(w)
        /\ w.read = <<>>
    BY <2>1 DEF Looking
  <2> DEFINE left == work.left
  <2>3. /\ source = left[1] /\ Len(left) \in Nat \ {0} /\ Tail(left) \in Seq(DOMAIN Contents)
        /\ Len(left) > 1 => Tail(left) # <<>> /\ Tail(left)[Len(Tail(left))] = left[Len(left)]
    <3> HIDE DEF left
    <3>. QED BY <2>2, LeftIs DEF left
  <2>4. CASE Len(left) > 1 /\ v = [w EXCEPT !.left = Tail(left)]
    <3>1. /\ DOMAIN v = WorkFields /\ v.at = "preflight" /\ v.job = w.job /\ v.left = Tail(left)
          /\ v.read = w.read /\ v.name = w.name
      BY <2>1, <2>4 DEF WorkIsGood, WorkFields
    <3>2. Looking(v)
      BY <2>2, <2>3, <2>4, <3>1 DEF Looking, LastSource
    <3> HIDE DEF w, d, v
    <3>3. DiskIsGood(v, d) /\ OutputIsGood(v, d)
      BY <2>1, <3>1, DiskOfJob, NoOutput DEF Over
    <3>4. WorkIsGood(v) /\ BeforeWork(v, d) /\ AtWork(v, d) /\ AfterWork(v, d)
      BY <2>1, <3>1, <3>2 DEF WorkIsGood, BeforeWork, AtWork, AfterWork
    <3>. QED BY <1>2, <3>3, <3>4 DEF FilesAreGood, w, d, v
  <2>5. CASE /\ ~ Len(left) > 1 /\ Files!Understood(count)
             /\ v = [w EXCEPT !.at = IF Files!Converts THEN "load" ELSE "stage",
                              !.left = w.job.sources, !.pages = Files!Selection(count)]
    <3>1. source = LastSource(w)
      BY <2>2, <2>3, <2>5
    <3>2. /\ DOMAIN v = WorkFields /\ v.at = (IF Conversion(w) THEN "load" ELSE "stage")
          /\ v.job = w.job /\ v.left = w.job.sources /\ v.read = <<>> /\ v.name = w.name
          /\ v.pages = SelectionOf(w.job, count) /\ UnderstoodOf(w.job, count)
      BY <2>1, <2>2, <2>5, OfTheJob, OfThisJob DEF WorkIsGood, WorkFields
    <3>3. LastSource(w) \in DOMAIN d.had /\ LastSource(v) = LastSource(w)
      BY <2>1, <3>2, WholeStays
    <3>4. d.files[source].parts[1] \in PdfsOf(d, LastSource(w))
      <4>1. d.files[source] # None /\ d.files[source].kind = "pages"
        BY <1>2, OfThisJob
      <4> HIDE DEF w, d, source
      <4>. QED BY <2>1, <3>1, <3>3, <4>1, SourceIs
    <3>5. /\ w.job.sources \in Seq(DOMAIN Contents) /\ Len(w.job.sources) \in Nat \ {0}
      BY <2>1, SourcesAre
    <3>6. count = Len(d.files[source].parts[1])
      OBVIOUS
    <3> HIDE DEF w, d, v, source, count, left
    <3>7. Selected(v, d)
      BY <3>2, <3>3, <3>4, <3>6 DEF Selected
    <3>8. HasRead(v, d)
      <4>1. <<>> \in Seq(Seq(FilePage)) /\ Len(<<>>) = 0
        BY EmptySeq
      <4>2. v.left # <<>>
        <5> DEFINE s == w.job.sources
        <5>1. s \in Seq(DOMAIN Contents) /\ Len(s) # 0
          BY <3>5
        <5> HIDE DEF s
        <5>2. s # <<>>
          BY <5>1, EmptySeq
        <5>. QED BY <3>2, <5>2 DEF s
      <4>3. \A i \in 1..Len(w.job.sources) : 0 + i = i
        BY <3>5
      <4>4. 1..0 = {} /\ 0 + Len(w.job.sources) = Len(w.job.sources)
        BY <3>5
      <4>. QED BY <3>2, <3>5, <4>1, <4>2, <4>3, <4>4 DEF HasRead
    <3>9. DiskIsGood(v, d) /\ OutputIsGood(v, d)
      BY <2>1, <3>2, DiskOfJob, NoOutput DEF Over
    <3>10. Conversion(v) = Conversion(w)
      BY <3>2 DEF Conversion
    <3>11. WorkIsGood(v) /\ BeforeWork(v, d) /\ AtWork(v, d) /\ AfterWork(v, d)
      BY <2>1, <3>2, <3>7, <3>8, <3>10 DEF WorkIsGood, BeforeWork, AtWork, AfterWork
    <3>. QED BY <1>2, <3>9, <3>11 DEF FilesAreGood, w, d, v
  <2>. QED BY <1>2, <2>4, <2>5
<1>. QED BY <1>1, <1>2 DEF Files!Preflight, Files!Files

-----------------------------------------------------------------------------
LEMMA ContentIs ==
  ASSUME NEW parts \in Seq(Seq(FilePage))
  PROVE  /\ Files!Parts(parts) \in FileContent /\ Files!Parts(parts) # None
         /\ Files!Parts(parts).parts = parts
BY NamesAre DEF Files!Parts, FileContent

\* What a step has to keep before there is an output.
LEMMA StepGood ==
  ASSUME NEW w, NEW d, NEW v, NEW e, FilesAreGood(w, d), w.at \notin Over, v.at \notin Over,
         DOMAIN v = WorkFields, v.job = w.job, DiskIsGood(w, e), OutputOf(e) = OutputOf(d),
         BeforeWork(v, e), AtWork(v, e), AfterWork(v, e)
  PROVE  FilesAreGood(v, e)
<1>1. WorkIsGood(v)
  BY DEF FilesAreGood, WorkIsGood
<1>2. DiskIsGood(v, e)
  BY DiskOfJob
<1>3. OutputIsGood(v, e)
  BY NoOutput DEF FilesAreGood, OutputIsGood
<1>. QED BY <1>1, <1>2, <1>3 DEF FilesAreGood

\* After the next part.
LEMMA NextPart ==
  ASSUME NEW w, NEW d, NEW v, NEW done, ToDo(w, d, done), v.job = w.job, v.todo = Tail(w.todo)
  PROVE  /\ Append(done, w.todo[1]) \in Seq(Seq(FilePage)) /\ Head(w.todo) = w.todo[1]
         /\ w.todo[1] \in Seq(FilePage)
         /\ Len(w.todo) > 1 => ToDo(v, d, Append(done, w.todo[1]))
         /\ ~ Len(w.todo) > 1 => Whole(v, d, Append(done, w.todo[1]))
<1> DEFINE V == Seq(FilePage)
           t == w.todo
           x == w.todo[1]
           next == Append(done, x)
<1>1. done \in Seq(V) /\ t \in Seq(V) /\ t # <<>> /\ Whole(w, d, done \o t)
  BY DEF ToDo
<1>2. \A parts : Whole(w, d, parts) => Whole(v, d, parts)
  BY DEF Whole, LastSource
<1> HIDE DEF V
<1>3. /\ Head(t) = x /\ x \in V /\ Len(t) \in Nat \ {0} /\ Tail(t) \in Seq(V)
      /\ Len(Tail(t)) = Len(t) - 1 /\ \A i \in 1..Len(t) - 1 : Tail(t)[i] = t[i + 1]
      /\ Len(t) > 1 => Tail(t) # <<>>
  <2> HIDE DEF t
  <2>1. t[1] = x
    BY DEF t
  <2>. QED BY <1>1, <2>1, LeftIs
<1>4. next \in Seq(V) /\ next = done \o <<x>>
  <2> HIDE DEF t, x
  <2>. QED BY <1>1, <1>3, AppendProperties, AppendIsConcat
<1>5. <<x>> \o Tail(t) = t
  <2> DEFINE one == <<x>>
             rest == Tail(t)
             n == Len(t)
  <2>1. one \in Seq(V) /\ Len(one) = 1 /\ one[1] = x /\ x = t[1]
    BY <1>3
  <2>2. rest \in Seq(V) /\ Len(rest) = n - 1 /\ n \in Nat \ {0} /\ \A i \in 1..n - 1 : rest[i] = t[i + 1]
    BY <1>3
  <2> HIDE DEF one, rest, x, t
  <2>3. one \o rest \in Seq(V) /\ Len(one \o rest) = n
        /\ \A i \in 1..n : (one \o rest)[i] = IF i <= 1 THEN one[i] ELSE rest[i - 1]
    <3>1. Len(one) + Len(rest) = n
      BY <2>1, <2>2
    <3>2. /\ one \o rest \in Seq(V) /\ Len(one \o rest) = Len(one) + Len(rest)
          /\ \A i \in 1..Len(one) + Len(rest) :
               (one \o rest)[i] = IF i <= Len(one) THEN one[i] ELSE rest[i - Len(one)]
      <4>1. one \in Seq(V) /\ rest \in Seq(V)
        BY <2>1, <2>2
      <4>. QED BY <4>1, ConcatProperties
    <3>. QED BY <2>1, <3>1, <3>2
  <2>4. ASSUME NEW i \in 1..n PROVE (one \o rest)[i] = t[i]
    <3>1. CASE i = 1
      BY <2>1, <2>3, <3>1
    <3>2. CASE i # 1
      <4>1. i - 1 \in 1..n - 1 /\ ~ i <= 1 /\ (i - 1) + 1 = i
        BY <2>2, <3>2
      <4>. QED BY <2>2, <2>3, <4>1
    <3>. QED BY <3>1, <3>2
  <2>5. one \o rest = t
    BY <1>1, <2>3, <2>4, SeqEqual DEF n
  <2>. QED BY <2>5 DEF one, rest
<1>6. next \o Tail(t) = done \o t
  <2>1. <<x>> \in Seq(V)
    BY <1>3
  <2> HIDE DEF t, x
  <2>. QED BY <1>1, <1>3, <1>4, <1>5, <2>1, ConcatAssociative
<1>7. ASSUME Len(t) > 1 PROVE ToDo(v, d, next)
  <2>1. Whole(v, d, next \o Tail(t))
    BY <1>1, <1>2, <1>6
  <2>. QED BY <1>3, <1>4, <1>7, <2>1 DEF ToDo, V
<1>8. ASSUME ~ Len(t) > 1 PROVE Whole(v, d, next)
  <2>1. Tail(t) = <<>>
    <3> HIDE DEF t
    <3> DEFINE r == Tail(t)
    <3>1. Len(r) = 0 /\ r \in Seq(V)
      BY <1>3, <1>8
    <3> HIDE DEF r
    <3>2. r = <<>>
      BY <3>1, EmptySeq
    <3>. QED BY <3>2 DEF r
  <2>2. next \o <<>> = next
    <3> HIDE DEF next
    <3>. QED BY <1>4, ConcatEmptySeq
  <2>3. next = done \o t
    BY <1>6, <2>1, <2>2
  <2>. QED BY <1>1, <1>2, <2>3
<1>. QED BY <1>3, <1>4, <1>7, <1>8 DEF V

LEMMA StageGood ==
  ASSUME FilesAreGood(work, world), Files!Stage
  PROVE  FilesAreGood(work', world')
<1> DEFINE w == work
           d == world
           v == work'
           e == world'
           empty == Files!Parts(<<>>)
<1>0. Files!Runs /\ work.at # "placed" /\ w.at = "stage"
  BY DEF Files!Stage, Files!Runs
<1>1. CASE Files!End("Failed")
  BY <1>0, <1>1, FailedGood
<1>2. CASE /\ v = [w EXCEPT !.at = IF Files!Converts THEN "convert" ELSE "load"]
           /\ e = [d EXCEPT !.files["staged"] = empty]
  <2>1. FilesAreGood(w, d) /\ WorkIsGood(w) /\ DiskIsGood(w, d) /\ w.name = w.job.output
    BY <1>0 DEF FilesAreGood, AfterWork, Over
  <2>2. /\ DOMAIN v = WorkFields /\ v.at = (IF Conversion(w) THEN "convert" ELSE "load")
        /\ v.job = w.job /\ v.left = w.left /\ v.read = w.read /\ v.name = w.name
        /\ v.pages = w.pages /\ v.todo = w.todo
    BY <1>2, <2>1, OfThisJob DEF WorkIsGood, WorkFields
  <2>3. empty \in FileContent /\ empty # None /\ empty.parts = <<>> /\ <<>> \in Seq(Seq(FilePage))
    <3>1. <<>> \in Seq(Seq(FilePage))
      BY EmptySeq
    <3>. QED BY <3>1, ContentIs
  <2>4. "staged" \in Files!Temps
    BY NamesAre
  <2> HIDE DEF w, d, v, e, empty
  <2>5. DiskIsGood(w, e) /\ OutputOf(e) = OutputOf(d) /\ e.had = d.had /\ e.files["staged"] = empty
    BY <1>2, <2>1, <2>3, <2>4, PutTemp
  <2>6. Conversion(v) = Conversion(w)
    BY <2>2 DEF Conversion
  <2>7. /\ Selected(w, d) => Selected(v, e)
        /\ HasRead(w, d) => HasRead(v, e)
        /\ ToDo(w, d, <<>>) => ToDo(v, e, <<>>)
    BY <2>1, <2>2, <2>5, ProgressStays
  <2>8. BeforeWork(v, e) /\ AtWork(v, e) /\ AfterWork(v, e)
    <3>1. CASE Conversion(w)
      <4>1. v.at = "convert" /\ ToDo(v, e, <<>>)
        BY <1>0, <2>1, <2>2, <2>7, <3>1 DEF FilesAreGood, AtWork, w
      <4>2. HasStaged(e) /\ Staged(e) = <<>>
        BY <2>3, <2>5 DEF HasStaged, Staged
      <4>. QED BY <2>1, <2>2, <4>1, <4>2 DEF BeforeWork, AtWork, AfterWork
    <3>2. CASE ~ Conversion(w)
      <4>1. v.at = "load" /\ Selected(v, e) /\ HasRead(v, e)
        BY <1>0, <2>1, <2>2, <2>7, <3>2 DEF FilesAreGood, BeforeWork, w
      <4>. QED BY <2>1, <2>2, <2>5, <4>1 DEF BeforeWork, AtWork, AfterWork, empty
    <3>. QED BY <3>1, <3>2
  <2>9. w.at \notin Over /\ v.at \notin Over
    BY <1>0, <2>2 DEF Over, w
  <2>10. FilesAreGood(v, e)
    BY <2>1, <2>2, <2>5, <2>8, <2>9, StepGood
  <2>. QED BY <2>10 DEF v, e
<1>. QED BY <1>1, <1>2 DEF Files!Stage, Files!Put

LEMMA CreateGood ==
  ASSUME FilesAreGood(work, world), Files!Create
  PROVE  FilesAreGood(work', world')
<1> DEFINE w == work
           d == world
           v == work'
           e == world'
           empty == Files!Parts(<<>>)
<1>0. Files!Runs /\ work.at # "placed" /\ w.at = "create"
  BY DEF Files!Create, Files!Runs
<1>1. CASE Files!End("Failed")
  BY <1>0, <1>1, FailedGood
<1>2. CASE /\ v = [w EXCEPT !.at = "fill"] /\ e = [d EXCEPT !.files["written"] = empty]
  <2>1. FilesAreGood(w, d) /\ WorkIsGood(w) /\ DiskIsGood(w, d) /\ w.name = w.job.output
        /\ HasStaged(d) /\ ToDo(w, d, Staged(d))
    BY <1>0 DEF FilesAreGood, AtWork, AfterWork, Over
  <2>2. /\ DOMAIN v = WorkFields /\ v.at = "fill"
        /\ v.job = w.job /\ v.name = w.name /\ v.todo = w.todo
    BY <1>2, <2>1 DEF WorkIsGood, WorkFields
  <2>3. empty \in FileContent
    <3>1. <<>> \in Seq(Seq(FilePage))
      BY EmptySeq
    <3>. QED BY <3>1, ContentIs
  <2>4. "written" \in Files!Temps /\ "staged" \in Files!Names
    BY NamesAre
  <2> HIDE DEF w, d, v, e, empty
  <2>5. DiskIsGood(w, e) /\ OutputOf(e) = OutputOf(d) /\ e.had = d.had
        /\ e.files["staged"] = d.files["staged"]
    BY <1>2, <2>1, <2>3, <2>4, PutTemp
  <2>6. HasStaged(e) /\ Staged(e) = Staged(d)
    BY <2>1, <2>5 DEF HasStaged, Staged
  <2>7. ToDo(v, e, Staged(e))
    BY <2>1, <2>2, <2>5, <2>6, ProgressStays
  <2>8. BeforeWork(v, e) /\ AtWork(v, e) /\ AfterWork(v, e)
    BY <2>1, <2>2, <2>6, <2>7 DEF BeforeWork, AtWork, AfterWork
  <2>9. w.at \notin Over /\ v.at \notin Over
    BY <1>0, <2>2 DEF Over, w
  <2>10. FilesAreGood(v, e)
    BY <2>1, <2>2, <2>5, <2>8, <2>9, StepGood
  <2>. QED BY <2>10 DEF v, e
<1>. QED BY <1>1, <1>2 DEF Files!Create, Files!Put

LEMMA FillGood ==
  ASSUME FilesAreGood(work, world), Files!Fill
  PROVE  FilesAreGood(work', world')
<1> DEFINE w == work
           d == world
           v == work'
           e == world'
           part == Files!Parts(<<Head(work.todo)>>)
<1>0. Files!Runs /\ work.at # "placed" /\ w.at = "fill"
  BY DEF Files!Fill, Files!Runs
<1>1. CASE Files!End("Failed")
  BY <1>0, <1>1, FailedGood
<1>2. CASE /\ v = [w EXCEPT !.at = "rename"] /\ e = [d EXCEPT !.files["written"] = part]
  <2>1. FilesAreGood(w, d) /\ WorkIsGood(w) /\ DiskIsGood(w, d) /\ w.name = w.job.output
        /\ HasStaged(d) /\ ToDo(w, d, Staged(d))
    BY <1>0 DEF FilesAreGood, AtWork, AfterWork, Over
  <2>2. /\ DOMAIN v = WorkFields /\ v.at = "rename"
        /\ v.job = w.job /\ v.name = w.name /\ v.todo = w.todo
    BY <1>2, <2>1 DEF WorkIsGood, WorkFields
  <2>3. part \in FileContent /\ part = Files!Parts(<<w.todo[1]>>)
    <3>1. w.todo \in Seq(Seq(FilePage)) /\ w.todo # <<>>
      BY <2>1 DEF ToDo
    <3>2. Head(w.todo) = w.todo[1] /\ w.todo[1] \in Seq(FilePage)
      <4> DEFINE t == w.todo
                 V == Seq(FilePage)
      <4> HIDE DEF t, V
      <4>1. Head(t) = t[1] /\ t[1] \in V
        BY <3>1, LeftIs DEF t, V
      <4>. QED BY <4>1 DEF t, V
    <3>3. <<w.todo[1]>> \in Seq(Seq(FilePage))
      BY <3>2
    <3>. QED BY <3>2, <3>3, ContentIs
  <2>4. "written" \in Files!Temps /\ "staged" \in Files!Names
    BY NamesAre
  <2> HIDE DEF w, d, v, e, part
  <2>5. DiskIsGood(w, e) /\ OutputOf(e) = OutputOf(d) /\ e.had = d.had
        /\ e.files["staged"] = d.files["staged"] /\ e.files["written"] = part
    <3>1. DiskIsGood(w, d) /\ part \in FileContent \cup {None} /\ e = [d EXCEPT !.files["written"] = part]
      BY <1>2, <2>1, <2>3
    <3>2. DiskIsGood(w, e) /\ OutputOf(e) = OutputOf(d) /\ e.had = d.had
          /\ e.files["staged"] = d.files["staged"]
      BY <2>4, <3>1, PutTemp
    <3>3. e.files["written"] = part
      BY <2>4, <3>1, NamesAre DEF DiskIsGood
    <3>. QED BY <3>2, <3>3
  <2>6. HasStaged(e) /\ Staged(e) = Staged(d)
    BY <2>1, <2>5 DEF HasStaged, Staged
  <2>7. ToDo(v, e, Staged(e))
    BY <2>1, <2>2, <2>5, <2>6, ProgressStays
  <2>8. BeforeWork(v, e) /\ AtWork(v, e) /\ AfterWork(v, e)
    BY <2>1, <2>2, <2>3, <2>5, <2>6, <2>7 DEF BeforeWork, AtWork, AfterWork
  <2>9. w.at \notin Over /\ v.at \notin Over
    BY <1>0, <2>2 DEF Over, w
  <2>10. FilesAreGood(v, e)
    BY <2>1, <2>2, <2>5, <2>8, <2>9, StepGood
  <2>. QED BY <2>10 DEF v, e
<1>. QED BY <1>1, <1>2 DEF Files!Fill, Files!Put

-----------------------------------------------------------------------------
LEMMA LoadGood ==
  ASSUME FilesAreGood(work, world), Files!Load
  PROVE  FilesAreGood(work', world')
<1> DEFINE w == work
           d == world
           v == work'
           source == Head(work.left)
           p == world.files[source].parts[1]
           read == Append(work.read, p)
           last == Len(work.left) = 1
           b == Files!Build(read, work.pages)
           V == Seq(FilePage)
<1>0. Files!Runs /\ work.at # "placed" /\ w.at = "load"
  BY DEF Files!Load, Files!Runs
<1>1. CASE Files!End("Failed") \/ Files!End("Cancelled") \/ Files!Refuse(source)
  BY <1>0, <1>1, FailedGood, RefuseGood
<1>2. CASE /\ Files!IsPdf(source) /\ world' = d
           /\ last => Files!Valid(w.pages, Len(Files!Last(read)))
           /\ v = [w EXCEPT !.left = Tail(@), !.read = read,
                            !.at = IF ~last THEN @ ELSE IF Files!Converts THEN "stage" ELSE "create",
                            !.todo = IF last THEN b ELSE @]
  <2>1. /\ FilesAreGood(w, d) /\ WorkIsGood(w) /\ DiskIsGood(w, d) /\ OutputOf(d) = {}
        /\ w.name = w.job.output /\ Selected(w, d) /\ HasRead(w, d)
        /\ ~ Conversion(w) => d.files["staged"] = Files!Parts(<<>>)
    BY <1>0 DEF FilesAreGood, BeforeWork, AfterWork, OutputIsGood, Over
  <2>2. /\ DOMAIN v = WorkFields /\ v.job = w.job /\ v.name = w.name /\ v.pages = w.pages
        /\ v.left = Tail(w.left) /\ v.read = read
        /\ v.at = IF ~last THEN "load" ELSE IF Conversion(w) THEN "stage" ELSE "create"
        /\ last => v.todo = b
    BY <1>0, <1>2, <2>1, OfThisJob DEF WorkIsGood, WorkFields
  <2>3. /\ w.left \in Seq(DOMAIN Contents) /\ w.left # <<>>
        /\ w.read \in Seq(V) /\ Len(w.read) + Len(w.left) = Len(w.job.sources)
        /\ \A i \in 1..Len(w.left) : w.left[i] = w.job.sources[Len(w.read) + i]
        /\ \A i \in 1..Len(w.read) : w.read[i] \in PdfsOf(d, w.job.sources[i])
    BY <2>1 DEF HasRead
  <2> DEFINE r == Len(w.read)
             l == Len(w.left)
             n == Len(w.job.sources)
             rest == Tail(w.left)
  <2>4. /\ source = w.left[1] /\ l \in Nat \ {0} /\ rest \in Seq(DOMAIN Contents) /\ Len(rest) = l - 1
        /\ \A i \in 1..l - 1 : rest[i] = w.left[i + 1]
        /\ l > 1 => rest # <<>>
    <3> DEFINE left == w.left
    <3>1. left \in Seq(DOMAIN Contents) /\ left # <<>>
      BY <2>3
    <3> HIDE DEF left
    <3>2. /\ Head(left) = left[1] /\ Len(left) \in Nat \ {0} /\ Tail(left) \in Seq(DOMAIN Contents)
          /\ Len(Tail(left)) = Len(left) - 1
          /\ \A i \in 1..Len(left) - 1 : Tail(left)[i] = left[i + 1]
          /\ Len(left) > 1 => Tail(left) # <<>>
      BY <3>1, LeftIs
    <3>. QED BY <3>2 DEF left
  <2>5. r \in Nat /\ n \in Nat /\ r + l = n
    <3>1. r \in Nat
      <4> DEFINE s == w.read
      <4>1. s \in Seq(V)
        BY <2>3
      <4> HIDE DEF s, V
      <4>2. Len(s) \in Nat
        BY <4>1, LenProperties
      <4>. QED BY <4>2 DEF s
    <3>2. n \in Nat
      BY <2>1, SourcesAre
    <3>. QED BY <2>3, <3>1, <3>2
  <2> HIDE DEF r, l, n
  <2>6. r + 1 \in 1..n /\ \A i \in 1..r : i \in 1..n
    BY <2>4, <2>5
  <2>7. source = w.job.sources[r + 1]
    <3>1. 1 \in 1..l
      BY <2>4
    <3>. QED BY <2>3, <2>4, <3>1 DEF r, l
  <2>8. \A i \in 1..n : w.job.sources[i] \in DOMAIN d.had
    BY <2>1, WholeStays DEF n
  <2>9. p \in PdfsOf(d, w.job.sources[r + 1])
    <3>1. source \in DOMAIN d.had
      BY <2>6, <2>7, <2>8
    <3>2. d.files[source] # None /\ d.files[source].kind = "pages"
      BY <1>2, OfThisJob
    <3> HIDE DEF source
    <3>3. p \in PdfsOf(d, source)
      BY <2>1, <3>1, <3>2, SourceIs
    <3>. QED BY <2>7, <3>3
  <2>10. \A i \in 1..n : \A q \in PdfsOf(d, w.job.sources[i]) : IsDocument(q) /\ q \in V
    <3>1. \A i \in 1..n : \A q \in PdfsOf(d, w.job.sources[i]) : IsDocument(q)
      BY <2>1, <2>8, PdfsAre
    <3>. QED BY <3>1 DEF IsDocument
  <2>11. p \in V
    BY <2>6, <2>9, <2>10
  <2> HIDE DEF p, V, rest, w, d, v, source, b
  <2>12. /\ read \in Seq(V) /\ Len(read) = r + 1 /\ read[r + 1] = p
         /\ \A i \in 1..r : read[i] = w.read[i]
    BY <2>3, <2>11, AppendProperties DEF r, w
  <2> HIDE DEF read
  <2>13. \A i \in 1..r + 1 : read[i] \in PdfsOf(d, w.job.sources[i])
    <3>1. ASSUME NEW i \in 1..r + 1 PROVE read[i] \in PdfsOf(d, w.job.sources[i])
      <4>1. i \in 1..r \/ i = r + 1
        BY <2>5
      <4>2. CASE i \in 1..r
        BY <2>3, <2>12, <4>2 DEF r
      <4>3. CASE i = r + 1
        BY <2>9, <2>12, <4>3
      <4>. QED BY <4>1, <4>2, <4>3
    <3>. QED BY <3>1
  <2>14. DiskIsGood(w, d) /\ w.at \notin Over /\ v.at \notin Over
    BY <1>0, <2>1, <2>2 DEF Over, w
  <2>15. last <=> l = 1
    BY DEF l, w
  <2>16. CASE ~ last
    <3>1. l > 1 /\ Len(v.read) + Len(v.left) = n
      <4>1. l > 1
        BY <2>4, <2>15, <2>16
      <4>2. Len(v.read) = r + 1 /\ Len(v.left) = l - 1
        BY <2>2, <2>4, <2>12 DEF rest
      <4>3. (r + 1) + (l - 1) = n
        BY <2>4, <2>5
      <4>. QED BY <4>1, <4>2, <4>3
    <3>2. \A i \in 1..Len(v.left) : v.left[i] = v.job.sources[Len(v.read) + i]
      <4>1. SUFFICES ASSUME NEW i \in 1..l - 1 PROVE rest[i] = w.job.sources[(r + 1) + i]
        BY <2>2, <2>4, <2>12 DEF rest
      <4>2. i + 1 \in 1..l /\ r + (i + 1) = (r + 1) + i
        BY <2>4, <2>5
      <4>. QED BY <2>3, <2>4, <4>2 DEF r, l
    <3>3. \A i \in 1..Len(v.read) : v.read[i] \in PdfsOf(d, v.job.sources[i])
      BY <2>2, <2>12, <2>13
    <3>4. HasRead(v, d)
      <4>1. v.left \in Seq(DOMAIN Contents) /\ v.left # <<>> /\ v.read \in Seq(V)
        BY <2>2, <2>4, <2>12, <3>1 DEF rest
      <4>2. Len(v.read) + Len(v.left) = Len(v.job.sources)
        BY <2>2, <3>1 DEF n
      <4>. QED BY <3>2, <3>3, <4>1, <4>2 DEF HasRead, V
    <3>5. Selected(v, d)
      BY <2>1, <2>2 DEF Selected, LastSource
    <3>6. Conversion(v) = Conversion(w)
      BY <2>2 DEF Conversion
    <3>7. BeforeWork(v, d) /\ AtWork(v, d) /\ AfterWork(v, d)
      BY <2>1, <2>2, <2>16, <3>4, <3>5, <3>6 DEF BeforeWork, AtWork, AfterWork
    <3>8. FilesAreGood(v, d)
      BY <2>1, <2>2, <2>14, <3>7, StepGood
    <3>. QED BY <1>2, <3>8 DEF v, d
  <2>17. CASE last
    <3>1. r + 1 = n
      BY <2>5, <2>15, <2>17
    <3>2. PICK counted \in PdfsOf(d, LastSource(w)) :
            UnderstoodOf(w.job, Len(counted)) /\ w.pages = SelectionOf(w.job, Len(counted))
      BY <2>1 DEF Selected
    <3>3. Len(counted) \in Nat
      <4>1. LastSource(w) \in DOMAIN d.had
        BY <2>1, WholeStays
      <4>. QED BY <2>1, <4>1, PdfsAre
    <3>4. DOMAIN read = 1..Len(read) /\ read # <<>>
      <4>1. Len(read) # 0
        BY <2>5, <2>12
      <4>. QED BY <2>12, <4>1, EmptySeq, LenProperties
    <3>5. \A i \in DOMAIN read : IsDocument(read[i])
      BY <2>10, <2>12, <2>13, <3>1, <3>4
    <3>6. Files!Valid(w.pages, Len(read[Len(read)]))
      <4>1. Files!Last(read) = read[Len(read)]
        BY DEF Files!Last
      <4>. QED BY <1>2, <2>17, <4>1
    <3>7. w.job \in FileJobs /\ work.job = w.job /\ read \in Seq(Seq(FilePage))
      BY <2>1, <2>12 DEF WorkIsGood, w, V
    <3>8. /\ b \in Seq(Seq(FilePage)) /\ b # <<>> /\ ResultOf(w.job, b, read, Len(counted))
      <4>1. b = Files!Build(read, w.pages)
        BY DEF b, w
      <4>. QED BY <3>2, <3>3, <3>4, <3>5, <3>6, <3>7, <4>1, BuildIsResult
    <3>9. Whole(v, d, b)
      <4>1. LastSource(v) = LastSource(w)
        BY <2>2 DEF LastSource
      <4>2. Len(read) = Len(v.job.sources)
        BY <2>2, <2>12, <3>1 DEF n
      <4>3. \A i \in 1..Len(read) : read[i] \in PdfsOf(d, v.job.sources[i])
        BY <2>2, <2>12, <2>13
      <4>. QED BY <2>2, <3>7, <3>8, <4>1, <4>2, <4>3 DEF Whole
    <3>10. ToDo(v, d, <<>>)
      <4>1. <<>> \o b = b /\ <<>> \in Seq(Seq(FilePage))
        BY <3>8, ConcatEmptySeq, EmptySeq
      <4>. QED BY <2>2, <2>17, <3>8, <3>9, <4>1 DEF ToDo
    <3>11. v.at = "create" => HasStaged(d) /\ Staged(d) = <<>>
      <4>1. v.at = "create" => d.files["staged"] = Files!Parts(<<>>)
        BY <2>1, <2>2, <2>17
      <4>2. <<>> \in Seq(Seq(FilePage))
        BY EmptySeq
      <4>. QED BY <4>1, <4>2, ContentIs DEF HasStaged, Staged
    <3>12. Conversion(v) = Conversion(w)
      BY <2>2 DEF Conversion
    <3>13. BeforeWork(v, d) /\ AtWork(v, d) /\ AfterWork(v, d)
      BY <2>1, <2>2, <2>17, <3>10, <3>11, <3>12 DEF BeforeWork, AtWork, AfterWork
    <3>14. FilesAreGood(v, d)
      BY <2>1, <2>2, <2>14, <3>13, StepGood
    <3>. QED BY <1>2, <3>14 DEF v, d
  <2>. QED BY <2>16, <2>17
<1>. QED BY <1>1, <1>2 DEF Files!Load, Files!Files

-----------------------------------------------------------------------------
\* The next part is in the staged one.
LEMMA PartGood ==
  ASSUME NEW w, NEW d, NEW v, NEW e, FilesAreGood(w, d), w.at \in {"rename", "convert"},
         v.job = w.job, v.name = w.name, v.todo = Tail(w.todo), DOMAIN v = WorkFields,
         v.at = IF Len(w.todo) > 1 THEN (IF w.at = "rename" THEN "create" ELSE "convert") ELSE "check",
         DiskIsGood(w, e), OutputOf(e) = OutputOf(d), e.had = d.had,
         e.files["staged"] = Files!Parts(Append(Staged(d), w.todo[1]))
  PROVE  FilesAreGood(v, e)
<1> DEFINE next == Append(Staged(d), w.todo[1])
<1>1. WorkIsGood(w) /\ DiskIsGood(w, d) /\ w.name = w.job.output /\ HasStaged(d) /\ ToDo(w, d, Staged(d))
  BY DEF FilesAreGood, AtWork, AfterWork, Over
<1>2. /\ next \in Seq(Seq(FilePage))
      /\ Len(w.todo) > 1 => ToDo(v, d, next)
      /\ ~ Len(w.todo) > 1 => Whole(v, d, next)
  BY <1>1, NextPart
<1>3. WorkIsGood(v) /\ DiskIsGood(v, d)
  BY <1>1, DiskOfJob DEF WorkIsGood
<1>4. /\ e.files["staged"] = Files!Parts(next) /\ Files!Parts(next) # None
      /\ Files!Parts(next).parts = next
  <2> HIDE DEF next
  <2>1. Files!Parts(next) # None /\ Files!Parts(next).parts = next
    BY <1>2, ContentIs
  <2>. QED BY <2>1 DEF next
<1> HIDE DEF next
<1>5. HasStaged(e) /\ Staged(e) = next
  BY <1>2, <1>4 DEF HasStaged, Staged
<1>6. Len(w.todo) > 1 => ToDo(v, e, next)
  BY <1>2, <1>3, ProgressStays
<1>7. ~ Len(w.todo) > 1 => Whole(v, e, next)
  BY <1>2, <1>3, WholeStays
<1>8. w.at \notin Over /\ v.at \notin Over /\ v.at \in {"create", "convert", "check"}
  BY DEF Over
<1>9. BeforeWork(v, e) /\ AtWork(v, e) /\ AfterWork(v, e)
  BY <1>1, <1>5, <1>6, <1>7, <1>8 DEF BeforeWork, AtWork, AfterWork
<1>. QED BY <1>8, <1>9, StepGood

LEMMA RenameGood ==
  ASSUME FilesAreGood(work, world), Files!Rename
  PROVE  FilesAreGood(work', world')
<1> DEFINE w == work
           d == world
           v == work'
           e == world'
           part == Files!Parts(Append(d.files["staged"].parts, d.files["written"].parts[1]))
           f == [d EXCEPT !.files["staged"] = part]
<1>0. Files!Runs /\ work.at # "placed" /\ w.at = "rename"
  BY DEF Files!Rename, Files!Runs
<1>1. CASE Files!End("Failed")
  BY <1>0, <1>1, FailedGood
<1>2. CASE /\ v = [w EXCEPT !.todo = Tail(@), !.at = IF Len(w.todo) > 1 THEN "create" ELSE "check"]
           /\ e = [f EXCEPT !.files["written"] = None]
  <2>1. /\ FilesAreGood(w, d) /\ WorkIsGood(w) /\ DiskIsGood(w, d)
        /\ HasStaged(d) /\ ToDo(w, d, Staged(d)) /\ d.files["written"] = Files!Parts(<<w.todo[1]>>)
    BY <1>0 DEF FilesAreGood, AtWork
  <2>2. /\ DOMAIN v = WorkFields /\ v.at = IF Len(w.todo) > 1 THEN "create" ELSE "check"
        /\ v.job = w.job /\ v.name = w.name /\ v.todo = Tail(w.todo)
    BY <1>2, <2>1 DEF WorkIsGood, WorkFields
  <2>3. d.files["written"].parts[1] = w.todo[1]
    BY <2>1 DEF Files!Parts
  <2>4. part = Files!Parts(Append(Staged(d), w.todo[1])) /\ part \in FileContent
    <3>1. Append(Staged(d), w.todo[1]) \in Seq(Seq(FilePage))
      BY <2>1, <2>2, NextPart
    <3>. QED BY <2>3, <3>1, ContentIs DEF Staged
  <2>5. {"staged", "written"} \subseteq Files!Temps /\ {"staged", "written"} \subseteq Files!Names
    BY NamesAre
  <2> HIDE DEF w, d, v, e, f, part
  <2>6. DiskIsGood(w, f) /\ OutputOf(f) = OutputOf(d) /\ f.had = d.had
    <3>1. f = [d EXCEPT !.files["staged"] = part]
      BY DEF f
    <3>. QED BY <2>1, <2>4, <2>5, <3>1, PutTemp
  <2>7. f.files["staged"] = part
    BY <2>1, <2>5 DEF f, DiskIsGood
  <2>8. DiskIsGood(w, e) /\ OutputOf(e) = OutputOf(f) /\ e.had = f.had
        /\ e.files["staged"] = f.files["staged"]
    BY <1>2, <2>5, <2>6, PutTemp
  <2>9. w.at = "rename"
    BY <1>0 DEF w
  <2>10. FilesAreGood(v, e)
    BY <2>1, <2>2, <2>4, <2>6, <2>7, <2>8, <2>9, PartGood
  <2>. QED BY <2>10 DEF v, e
<1>. QED BY <1>1, <1>2 DEF Files!Rename, Files!Put, Files!Files

LEMMA ConvertGood ==
  ASSUME FilesAreGood(work, world), Files!Convert
  PROVE  FilesAreGood(work', world')
<1> DEFINE w == work
           d == world
           v == work'
           e == world'
           part == Files!Parts(Append(d.files["staged"].parts, Head(w.todo)))
<1>0. Files!Runs /\ work.at # "placed" /\ w.at = "convert"
  BY DEF Files!Convert, Files!Runs
<1>1. CASE Files!End("Failed") \/ Files!End("Cancelled")
  BY <1>0, <1>1, FailedGood
<1>2. CASE /\ v = [w EXCEPT !.todo = Tail(@), !.at = IF Len(w.todo) > 1 THEN @ ELSE "check"]
           /\ e = [d EXCEPT !.files["staged"] = part]
  <2>1. /\ FilesAreGood(w, d) /\ WorkIsGood(w) /\ DiskIsGood(w, d)
        /\ HasStaged(d) /\ ToDo(w, d, Staged(d))
    BY <1>0 DEF FilesAreGood, AtWork
  <2>2. /\ DOMAIN v = WorkFields /\ v.at = IF Len(w.todo) > 1 THEN "convert" ELSE "check"
        /\ v.job = w.job /\ v.name = w.name /\ v.todo = Tail(w.todo)
    BY <1>0, <1>2, <2>1 DEF WorkIsGood, WorkFields
  <2>4. part = Files!Parts(Append(Staged(d), w.todo[1])) /\ part \in FileContent
    <3>1. Append(Staged(d), w.todo[1]) \in Seq(Seq(FilePage)) /\ Head(w.todo) = w.todo[1]
      BY <2>1, <2>2, NextPart
    <3>. QED BY <3>1, ContentIs DEF Staged
  <2>5. "staged" \in Files!Temps /\ "staged" \in Files!Names
    BY NamesAre
  <2> HIDE DEF w, d, v, e, part
  <2>6. DiskIsGood(w, e) /\ OutputOf(e) = OutputOf(d) /\ e.had = d.had
    BY <1>2, <2>1, <2>4, <2>5, PutTemp
  <2>7. e.files["staged"] = part
    BY <1>2, <2>1, <2>5 DEF DiskIsGood
  <2>9. w.at = "convert"
    BY <1>0 DEF w
  <2>10. FilesAreGood(v, e)
    BY <2>1, <2>2, <2>4, <2>6, <2>7, <2>9, PartGood
  <2>. QED BY <2>10 DEF v, e
<1>. QED BY <1>1, <1>2 DEF Files!Convert, Files!Put, Files!Files

LEMMA CheckGood ==
  ASSUME FilesAreGood(work, world), Files!Check
  PROVE  FilesAreGood(work', world')
<1> DEFINE w == work
           d == world
           v == work'
<1>0. Files!Runs /\ work.at # "placed" /\ w.at = "check"
  BY DEF Files!Check, Files!Runs
<1>1. CASE Files!End("Cancelled")
  BY <1>0, <1>1, FailedGood
<1>2. CASE v = [w EXCEPT !.at = IF Files!MakesDirectory THEN "name" ELSE "persist"] /\ world' = d
  <2>1. /\ FilesAreGood(w, d) /\ WorkIsGood(w) /\ DiskIsGood(w, d) /\ w.name = w.job.output
        /\ HasStaged(d) /\ Whole(w, d, Staged(d))
    BY <1>0 DEF FilesAreGood, AfterWork, Over
  <2>2. /\ DOMAIN v = WorkFields /\ v.at = (IF Directory(w) THEN "name" ELSE "persist")
        /\ v.job = w.job /\ v.name = w.name
    BY <1>2, <2>1, OfThisJob DEF WorkIsGood, WorkFields
  <2> HIDE DEF w, d, v
  <2>3. Whole(v, d, Staged(d)) /\ Directory(v) = Directory(w)
    BY <2>1, <2>2 DEF Whole, LastSource, Directory
  <2>4. BeforeWork(v, d) /\ AtWork(v, d) /\ AfterWork(v, d)
    BY <2>1, <2>2, <2>3 DEF BeforeWork, AtWork, AfterWork
  <2>5. w.at \notin Over /\ v.at \notin Over
    BY <1>0, <2>2 DEF Over, w
  <2>6. FilesAreGood(v, d)
    BY <2>1, <2>2, <2>4, <2>5, StepGood
  <2>. QED BY <1>2, <2>6 DEF v, d
<1>. QED BY <1>1, <1>2 DEF Files!Check

-----------------------------------------------------------------------------
LEMMA PlacesAre ==
  ASSUME NEW w, WorkIsGood(w), NEW n \in Places(w)
  PROVE  n \in Files!Names \ Files!Temps
<1>1. w.job.output \in DOMAIN Contents \cup {"output"}
  BY JobIs DEF WorkIsGood
<1>2. n \in DOMAIN Contents \cup {"output", "pages", "pages_2"}
  BY <1>1 DEF Places
<1>. QED BY <1>2, NamesAre

\* What is staged becomes the output.
Moved(d, e, n) == e = [d EXCEPT !.files["staged"] = None, !.files[n] = d.files["staged"]]

LEMMA MoveGood ==
  ASSUME NEW w, NEW d, NEW v, NEW e, NEW n \in Places(w), FilesAreGood(w, d),
         w.at \in {"persist", "move"}, d.files[n] = None,
         DOMAIN v = WorkFields, v.job = w.job, v.at = "placed", Moved(d, e, n)
  PROVE  FilesAreGood(v, e)
<1>1. /\ WorkIsGood(w) /\ DiskIsGood(w, d) /\ OutputOf(d) = {}
      /\ HasStaged(d) /\ Whole(w, d, Staged(d))
  BY DEF FilesAreGood, OutputIsGood, AfterWork, Over
<1>2. n \in Files!Names /\ n \notin Files!Temps /\ n # "staged" /\ "staged" \in Files!Names
  BY <1>1, PlacesAre, NamesAre
<1>3. /\ DOMAIN d = {"files", "theirs", "meddled", "had"}
      /\ d.files \in [Files!Names -> FileContent \cup {None}]
  BY <1>1 DEF DiskIsGood
<1>4. /\ DOMAIN e = {"files", "theirs", "meddled", "had"} /\ e.theirs = d.theirs /\ e.had = d.had
      /\ e.files = [d.files EXCEPT !["staged"] = None, ![n] = d.files["staged"]]
  BY <1>3 DEF Moved
<1>5. /\ e.files \in [Files!Names -> FileContent \cup {None}]
      /\ e.files["staged"] = None /\ e.files[n] = d.files["staged"]
      /\ \A name \in Files!Names : name # "staged" /\ name # n => e.files[name] = d.files[name]
  BY <1>2, <1>3, <1>4
<1>6. d.theirs[n] = None /\ d.theirs["staged"] = None
  BY <1>1, <1>2, NamesAre DEF DiskIsGood
<1>7. OutputOf(e) = {n}
  <2>1. n \in OutputOf(e)
    BY <1>1, <1>2, <1>4, <1>5, <1>6 DEF OutputOf, HasStaged
  <2>2. ASSUME NEW name \in OutputOf(e) PROVE name = n
    <3>1. name \in Files!Names \ Files!Temps /\ e.files[name] # None /\ e.theirs[name] = None
      BY <2>2 DEF OutputOf
    <3>2. name \notin OutputOf(d)
      BY <1>1
    <3>3. name # "staged"
      BY <3>1, NamesAre
    <3>4. CASE name # n
      <4>1. e.files[name] = d.files[name] /\ e.theirs[name] = d.theirs[name]
        BY <1>4, <1>5, <3>1, <3>3, <3>4
      <4>2. name \in OutputOf(d)
        BY <3>1, <4>1 DEF OutputOf
      <4>. QED BY <3>2, <4>2
    <3>. QED BY <3>4
  <2>. QED BY <2>1, <2>2
<1>8. DiskIsGood(v, e)
  <2>1. \A name \in Files!Names : e.theirs[name] # None => e.files[name] = e.theirs[name]
    BY <1>1, <1>4, <1>5, <1>6 DEF DiskIsGood
  <2>. QED BY <1>1, <1>4, <1>5, <2>1 DEF DiskIsGood
<1>9. OutputIsGood(v, e)
  <2>1. Whole(v, e, Staged(d))
    <3>1. \A s \in DOMAIN d.had : d.had[s] \subseteq e.had[s]
      BY <1>4
    <3>2. WorkIsGood(w) /\ DiskIsGood(w, d) /\ v.job = w.job
      BY <1>1
    <3>3. \A parts : Whole(w, d, parts) => Whole(v, e, parts)
      BY <3>1, <3>2, WholeStays
    <3>. QED BY <1>1, <3>3
  <2>2. Whole(v, e, e.files[n].parts) /\ n \in Places(v)
    BY <1>5, <2>1 DEF Staged, Places, Directory
  <2>. QED BY <1>7, <2>2 DEF OutputIsGood, Over
<1>10. WorkIsGood(v) /\ BeforeWork(v, e) /\ AtWork(v, e) /\ AfterWork(v, e)
  BY <1>1 DEF WorkIsGood, BeforeWork, AtWork, AfterWork, Over
<1>. QED BY <1>8, <1>9, <1>10 DEF FilesAreGood

LEMMA PersistGood ==
  ASSUME FilesAreGood(work, world), Files!Persist
  PROVE  FilesAreGood(work', world')
<1> DEFINE w == work
           d == world
           v == work'
           e == world'
<1>0. Files!Runs /\ work.at # "placed" /\ w.at = "persist"
  BY DEF Files!Persist, Files!Runs
<1>1. CASE Files!End("Failed")
  BY <1>0, <1>1, FailedGood
<1>2. CASE /\ d.files[w.name] = None /\ v = [w EXCEPT !.at = "placed"]
           /\ e = [d EXCEPT !.files["staged"] = None, !.files[w.name] = d.files["staged"]]
  <2>1. FilesAreGood(w, d) /\ WorkIsGood(w) /\ w.name = w.job.output /\ ~ Directory(w)
    BY <1>0 DEF FilesAreGood, AfterWork, Over
  <2>2. DOMAIN v = WorkFields /\ v.at = "placed" /\ v.job = w.job
    BY <1>2, <2>1 DEF WorkIsGood, WorkFields
  <2> DEFINE n == w.name
  <2>3. n \in Places(w) /\ w.at \in {"persist", "move"}
    BY <1>0, <2>1 DEF Places
  <2> HIDE DEF w, d, v, e, n
  <2>4. d.files[n] = None /\ Moved(d, e, n)
    BY <1>2 DEF n, Moved
  <2>5. FilesAreGood(v, e)
    BY <2>1, <2>2, <2>3, <2>4, MoveGood
  <2>. QED BY <2>5 DEF v, e
<1>. QED BY <1>1, <1>2 DEF Files!Persist, Files!Move, Files!Files

LEMMA PublishGood ==
  ASSUME FilesAreGood(work, world), Files!Publish
  PROVE  FilesAreGood(work', world')
<1> DEFINE w == work
           d == world
           v == work'
           e == world'
<1>0. Files!Runs /\ work.at # "placed" /\ w.at = "move"
  BY DEF Files!Publish, Files!Runs
<1>1. CASE Files!End("Failed")
  BY <1>0, <1>1, FailedGood
<1>3. FilesAreGood(w, d) /\ WorkIsGood(w) /\ DiskIsGood(w, d) /\ Directory(w)
      /\ w.name \in {"pages", "pages_2"} /\ HasStaged(d) /\ Whole(w, d, Staged(d))
  BY <1>0 DEF FilesAreGood, AfterWork
<1>2. CASE /\ d.files[w.name] = None /\ v = [w EXCEPT !.at = "placed"]
           /\ e = [d EXCEPT !.files["staged"] = None, !.files[w.name] = d.files["staged"]]
  <2>2. DOMAIN v = WorkFields /\ v.at = "placed" /\ v.job = w.job
    BY <1>2, <1>3 DEF WorkIsGood, WorkFields
  <2> DEFINE n == w.name
  <2>3. n \in Places(w) /\ w.at \in {"persist", "move"}
    BY <1>0, <1>3 DEF Places
  <2> HIDE DEF w, d, v, e, n
  <2>4. d.files[n] = None /\ Moved(d, e, n)
    BY <1>2 DEF n, Moved
  <2>5. FilesAreGood(v, e)
    BY <1>3, <2>2, <2>3, <2>4, MoveGood
  <2>. QED BY <2>5 DEF v, e
<1>4. CASE v = [w EXCEPT !.at = "name"] /\ e = d
  <2>1. /\ DOMAIN v = WorkFields /\ v.at = "name" /\ v.job = w.job
    BY <1>3, <1>4 DEF WorkIsGood, WorkFields
  <2> HIDE DEF w, d, v
  <2>2. Whole(v, d, Staged(d)) /\ Directory(v)
    BY <1>3, <2>1 DEF Whole, LastSource, Directory
  <2>3. BeforeWork(v, d) /\ AtWork(v, d) /\ AfterWork(v, d)
    BY <1>3, <2>1, <2>2 DEF BeforeWork, AtWork, AfterWork
  <2>4. w.at \notin Over /\ v.at \notin Over
    BY <1>0, <2>1 DEF Over, w
  <2>5. FilesAreGood(v, d)
    BY <1>3, <2>1, <2>3, <2>4, StepGood
  <2>. QED BY <1>4, <2>5 DEF v, d
<1>. QED BY <1>1, <1>2, <1>4 DEF Files!Publish, Files!Move, Files!Files

LEMMA NameGood ==
  ASSUME FilesAreGood(work, world), Files!Name
  PROVE  FilesAreGood(work', world')
<1> DEFINE w == work
           d == world
           v == work'
           free == {i \in DOMAIN Files!Directories : d.files[Files!Directories[i]] = None}
           least == Files!Min(free)
<1>0. Files!Runs /\ work.at # "placed" /\ w.at = "name"
  BY DEF Files!Name, Files!Runs
<1>1. CASE Files!End("Failed")
  BY <1>0, <1>1, FailedGood
<1>2. CASE /\ free # {} /\ world' = d
           /\ v = [w EXCEPT !.at = "move", !.name = Files!Directories[least]]
  <2>1. FilesAreGood(w, d) /\ WorkIsGood(w) /\ DiskIsGood(w, d) /\ Directory(w)
        /\ HasStaged(d) /\ Whole(w, d, Staged(d))
    BY <1>0 DEF FilesAreGood, AfterWork
  <2>2. least \in free
    <3>1. DOMAIN Files!Directories = 1..2
      BY DEF Files!Directories
    <3>2. free \subseteq Nat
      BY <3>1
    <3> HIDE DEF free
    <3>3. \E x \in free : \A y \in free : x <= y
      BY <1>2, <3>2, LeastExists
    <3>. QED BY <3>3 DEF Files!Min
  <2>3. Files!Directories[least] \in {"pages", "pages_2"}
    <3>1. \A i \in DOMAIN Files!Directories : Files!Directories[i] \in {"pages", "pages_2"}
      <4>1. DOMAIN Files!Directories = {1, 2} /\ Files!Directories[1] = "pages"
            /\ Files!Directories[2] = "pages_2"
        BY DEF Files!Directories
      <4>. QED BY <4>1
    <3> HIDE DEF least
    <3>. QED BY <2>2, <3>1
  <2> HIDE DEF least
  <2>4. /\ DOMAIN v = WorkFields /\ v.at = "move" /\ v.job = w.job /\ v.name \in {"pages", "pages_2"}
    BY <1>2, <2>1, <2>3 DEF WorkIsGood, WorkFields
  <2> HIDE DEF w, d, v
  <2>5. Whole(v, d, Staged(d)) /\ Directory(v)
    BY <2>1, <2>4 DEF Whole, LastSource, Directory
  <2>6. BeforeWork(v, d) /\ AtWork(v, d) /\ AfterWork(v, d)
    BY <2>1, <2>4, <2>5 DEF BeforeWork, AtWork, AfterWork
  <2>7. w.at \notin Over /\ v.at \notin Over
    BY <1>0, <2>4 DEF Over, w
  <2>8. FilesAreGood(v, d)
    BY <2>1, <2>4, <2>6, <2>7, StepGood
  <2>. QED BY <1>2, <2>8 DEF v, d
<1>. QED BY <1>1, <1>2 DEF Files!Name, Files!Files

LEMMA DoneGood ==
  ASSUME FilesAreGood(work, world), Files!Done
  PROVE  FilesAreGood(work', world')
<1>1. Files!Runs /\ work.at = "placed"
  BY DEF Files!Done, Files!Runs
<1>2. Files!End("Cancelled") \/ Files!End("Completed")
  BY DEF Files!Done
<1>. QED BY <1>1, <1>2, EndGood

-----------------------------------------------------------------------------
(* Everybody else *)

\* What the job has of the result stays, whatever else changes.
LEMMA SameGood ==
  ASSUME NEW w, NEW d, NEW v, NEW e, FilesAreGood(w, d), w.at # "ended",
         DOMAIN v = WorkFields, v.job = w.job, v.at = w.at, v.left = w.left, v.pages = w.pages,
         v.read = w.read, v.todo = w.todo, v.name = w.name,
         DiskIsGood(w, e), OutputOf(e) = OutputOf(d),
         \A name \in Files!Temps \cup OutputOf(d) : e.files[name] = d.files[name],
         \A s \in DOMAIN d.had : d.had[s] \subseteq e.had[s]
  PROVE  FilesAreGood(v, e)
<1>1. WorkIsGood(w) /\ DiskIsGood(w, d)
  BY DEF FilesAreGood
<1>2. /\ Selected(w, d) => Selected(v, e)
      /\ HasRead(w, d) => HasRead(v, e)
      /\ \A done : ToDo(w, d, done) => ToDo(v, e, done)
  BY <1>1, ProgressStays
<1>3. \A parts : Whole(w, d, parts) => Whole(v, e, parts)
  BY <1>1, WholeStays
<1>4. e.files["staged"] = d.files["staged"] /\ e.files["written"] = d.files["written"]
  BY NamesAre
<1>5. Staged(e) = Staged(d) /\ (HasStaged(d) => HasStaged(e))
  BY <1>4 DEF HasStaged, Staged
<1>6. Conversion(v) = Conversion(w) /\ Directory(v) = Directory(w) /\ Places(v) = Places(w)
      /\ LastSource(v) = LastSource(w)
  BY DEF Conversion, Directory, Places, LastSource
<1>7. DiskIsGood(v, e) /\ WorkIsGood(v)
  BY <1>1, DiskOfJob DEF WorkIsGood
<1>8. OutputIsGood(v, e)
  BY <1>3, <1>6 DEF FilesAreGood, OutputIsGood, Over
<1>9. BeforeWork(v, e)
  BY <1>2, <1>4, <1>6 DEF FilesAreGood, BeforeWork, Looking
<1>10. AtWork(v, e)
  BY <1>2, <1>4, <1>5, <1>6 DEF FilesAreGood, AtWork
<1>11. AfterWork(v, e)
  BY <1>3, <1>5, <1>6 DEF FilesAreGood, AfterWork
<1>. QED BY <1>7, <1>8, <1>9, <1>10, <1>11 DEF FilesAreGood

LEMMA CancelGood ==
  ASSUME FilesAreGood(work, world), Files!Cancel
  PROVE  FilesAreGood(work', world')
<1> DEFINE w == work
           d == world
           v == work'
<1>1. /\ FilesAreGood(w, d) /\ WorkIsGood(w) /\ DiskIsGood(w, d) /\ w.at # "ended"
      /\ v = [w EXCEPT !.cancelled = TRUE] /\ world' = d
  BY DEF Files!Cancel, Files!Runs, FilesAreGood
<1>2. /\ DOMAIN v = WorkFields /\ v.job = w.job /\ v.at = w.at /\ v.left = w.left /\ v.pages = w.pages
      /\ v.read = w.read /\ v.todo = w.todo /\ v.name = w.name
  BY <1>1 DEF WorkIsGood, WorkFields
<1> HIDE DEF w, d, v
<1>3. FilesAreGood(v, d)
  BY <1>1, <1>2, SameGood
<1>. QED BY <1>1, <1>3 DEF v, d

LEMMA KillGood ==
  ASSUME FilesAreGood(work, world), Files!Kill
  PROVE  FilesAreGood(work', world')
<1> DEFINE w == work
           d == world
           v == work'
<1>1. /\ FilesAreGood(w, d) /\ WorkIsGood(w) /\ DiskIsGood(w, d)
      /\ v = [w EXCEPT !.at = "killed"] /\ world' = d
  BY DEF Files!Kill, FilesAreGood
<1>2. DOMAIN v = WorkFields /\ v.job = w.job /\ v.at = "killed"
  BY <1>1 DEF WorkIsGood, WorkFields
<1> HIDE DEF w, d, v
<1>3. \A parts : Whole(w, d, parts) => Whole(v, d, parts)
  BY <1>2 DEF Whole, LastSource
<1>4. OutputIsGood(v, d)
  <2>1. \A name \in OutputOf(d) : name \in Places(w) /\ Whole(w, d, d.files[name].parts)
    BY <1>1 DEF FilesAreGood, OutputIsGood
  <2>2. Places(v) = Places(w)
    BY <1>2 DEF Places, Directory
  <2>. QED BY <1>2, <1>3, <2>1, <2>2 DEF OutputIsGood, Over
<1>5. WorkIsGood(v) /\ DiskIsGood(v, d)
  BY <1>1, <1>2, DiskOfJob DEF WorkIsGood
<1>6. BeforeWork(v, d) /\ AtWork(v, d) /\ AfterWork(v, d)
  BY <1>2 DEF BeforeWork, AtWork, AfterWork, Over
<1>. QED BY <1>1, <1>4, <1>5, <1>6 DEF FilesAreGood, v, d

\* What another program does.
LEMMA MeddleGood ==
  ASSUME FilesAreGood(work, world), NEW name, NEW content, Files!Meddle(name, content),
         \/ name \in DOMAIN world.had /\ content \in Contents[name] \cup {None}
         \/ name \in {"output", "pages", "pages_2"} /\ content = Files!Theirs
  PROVE  FilesAreGood(work', world')
<1> DEFINE w == work
           d == world
           e == world'
           grown == [source \in DOMAIN d.had |->
                       IF source = name THEN d.had[source] \cup {content} ELSE d.had[source]]
<1>1. /\ FilesAreGood(w, d) /\ WorkIsGood(w) /\ DiskIsGood(w, d) /\ w.at # "ended" /\ work' = w
      /\ e = [d EXCEPT !.meddled = @ + 1, !.files[name] = content, !.theirs[name] = content,
                       !.had = grown]
      /\ name \notin OutputOf(d)
  BY OfThisJob DEF Files!Meddle, Files!Runs, FilesAreGood
<1>2. Files!Theirs \in FileContent
  BY EmptySeq DEF Files!Theirs, FileContent
<1>3. name \in Files!Names \ Files!Temps /\ content \in FileContent \cup {None}
  <2>1. CASE name \in DOMAIN d.had /\ content \in Contents[name] \cup {None}
    <3>1. name \in DOMAIN Contents
      BY <1>1, <2>1, SourcesAre DEF DiskIsGood
    <3>. QED BY <2>1, <3>1, NamesAre, FilesAssumption
  <2>2. CASE name \in {"output", "pages", "pages_2"} /\ content = Files!Theirs
    BY <1>2, <2>2, NamesAre
  <2>. QED BY <2>1, <2>2
<1>4. /\ DOMAIN d = {"files", "theirs", "meddled", "had"}
      /\ d.files \in [Files!Names -> FileContent \cup {None}]
      /\ d.theirs \in [Files!Names -> FileContent \cup {None}]
  BY <1>1 DEF DiskIsGood
<1>5. /\ DOMAIN e = {"files", "theirs", "meddled", "had"} /\ e.had = grown
      /\ e.files = [d.files EXCEPT ![name] = content]
      /\ e.theirs = [d.theirs EXCEPT ![name] = content]
  BY <1>1, <1>4
<1>6. /\ e.files \in [Files!Names -> FileContent \cup {None}]
      /\ e.theirs \in [Files!Names -> FileContent \cup {None}]
      /\ e.files[name] = content /\ e.theirs[name] = content
      /\ \A x \in Files!Names : x # name => e.files[x] = d.files[x] /\ e.theirs[x] = d.theirs[x]
  BY <1>3, <1>4, <1>5
<1>7. /\ DOMAIN e.had = DOMAIN d.had
      /\ \A s \in DOMAIN d.had : s # name => e.had[s] = d.had[s]
      /\ name \in DOMAIN d.had => e.had[name] = d.had[name] \cup {content}
  BY <1>5
<1>8. \A s \in DOMAIN d.had : s \in Files!Names
  BY <1>1, SourcesAre, NamesAre DEF DiskIsGood
<1> HIDE DEF w, d, e, grown
<1>9. OutputOf(e) = OutputOf(d)
  <2>1. \A x : x \in OutputOf(e) <=> x \in OutputOf(d)
    BY <1>1, <1>6 DEF OutputOf
  <2>. QED BY <2>1
<1>10. DiskIsGood(w, e)
  <2>1. \A x \in Files!Names : e.theirs[x] # None => e.files[x] = e.theirs[x]
    BY <1>1, <1>6 DEF DiskIsGood
  <2>2. \A x \in Files!Temps : e.theirs[x] = None
    BY <1>1, <1>3, <1>6, NamesAre DEF DiskIsGood
  <2>3. ASSUME NEW s \in DOMAIN d.had
        PROVE  e.theirs[s] \in e.had[s] /\ e.had[s] \subseteq Contents[s] \cup {None, Files!Theirs}
    <3>1. d.theirs[s] \in d.had[s] /\ d.had[s] \subseteq Contents[s] \cup {None, Files!Theirs}
      BY <1>1 DEF DiskIsGood
    <3>2. CASE s = name
      <4>1. content \in Contents[s] \cup {None, Files!Theirs}
        BY <3>2 DEF d
      <4>. QED BY <1>6, <1>7, <3>1, <3>2, <4>1
    <3>3. CASE s # name
      BY <1>6, <1>7, <1>8, <3>1, <3>3
    <3>. QED BY <3>2, <3>3
  <2>4. DOMAIN d.had = {w.job.sources[i] : i \in DOMAIN w.job.sources}
    BY <1>1 DEF DiskIsGood
  <2>. QED BY <1>5, <1>6, <1>7, <2>1, <2>2, <2>3, <2>4 DEF DiskIsGood
<1>11. \A x \in Files!Temps \cup OutputOf(d) : e.files[x] = d.files[x]
  <2>1. \A x \in Files!Temps \cup OutputOf(d) : x \in Files!Names /\ x # name
    BY <1>1, <1>3, NamesAre DEF OutputOf
  <2>. QED BY <1>6, <2>1
<1>12. \A s \in DOMAIN d.had : d.had[s] \subseteq e.had[s]
  BY <1>7
<1>13. DOMAIN w = WorkFields
  BY <1>1 DEF WorkIsGood
<1>14. FilesAreGood(w, e)
  BY <1>1, <1>9, <1>10, <1>11, <1>12, <1>13, SameGood
<1>. QED BY <1>1, <1>14 DEF w, e

-----------------------------------------------------------------------------
LEMMA FilesStart ==
  ASSUME Files!Init
  PROVE  FilesAreGood(work, world)
<1>1. PICK job \in FileJobs :
        work = [job |-> job, at |-> "begin", cancelled |-> FALSE, left |-> job.sources,
                pages |-> <<>>, read |-> <<>>, todo |-> <<>>, name |-> job.output, result |-> "none"]
  BY DEF Files!Init
<1> DEFINE w == work
           d == world
<1>2. /\ DOMAIN w = WorkFields /\ w.job = job /\ w.at = "begin" /\ w.left = job.sources
      /\ w.read = <<>> /\ w.name = job.output
  BY <1>1 DEF WorkFields
<1>3. WorkIsGood(w)
  BY <1>1, <1>2 DEF WorkIsGood
<1>4. PICK found \in [Files!Range(w.job.sources) -> UNION Files!Range(Contents)] :
        /\ \A source \in DOMAIN found : found[source] \in Contents[source]
        /\ LET files == [name \in Files!Names |-> IF name \in DOMAIN found THEN found[name] ELSE None]
           IN  d = [files |-> files, theirs |-> files, meddled |-> 0,
                    had |-> [source \in DOMAIN found |-> {found[source]}]]
  BY DEF Files!Init
<1> DEFINE files == [name \in Files!Names |-> IF name \in DOMAIN found THEN found[name] ELSE None]
           S == DOMAIN found
<1>5. /\ DOMAIN d = {"files", "theirs", "meddled", "had"} /\ d.files = files /\ d.theirs = files
      /\ d.had = [source \in S |-> {found[source]}]
  BY <1>4
<1>6. S = {w.job.sources[i] : i \in DOMAIN w.job.sources}
  <2>1. S = Files!Range(w.job.sources)
    BY <1>4
  <2>. QED BY <2>1 DEF Files!Range
<1>7. S \subseteq DOMAIN Contents /\ \A s \in S : found[s] \in Contents[s]
  <2>1. \A i \in DOMAIN w.job.sources : w.job.sources[i] \in DOMAIN Contents
    BY <1>3, SourcesAre
  <2>. QED BY <1>4, <1>6, <2>1
<1>8. \A s \in S : s \in Files!Names \ Files!Temps /\ found[s] \in FileContent
  BY <1>7, NamesAre, FilesAssumption
<1> HIDE DEF w, d, S
<1>9. /\ files \in [Files!Names -> FileContent \cup {None}]
      /\ \A name \in Files!Temps : files[name] = None
      /\ \A s \in S : files[s] = found[s]
  BY <1>8, NamesAre DEF S
<1> HIDE DEF files
<1>10. DiskIsGood(w, d)
  <2>1. DOMAIN d.had = S /\ \A s \in S : d.had[s] = {found[s]}
    BY <1>5
  <2>. QED BY <1>5, <1>6, <1>7, <1>9, <2>1 DEF DiskIsGood
<1>11. OutputOf(d) = {}
  BY <1>5 DEF OutputOf
<1>12. OutputIsGood(w, d)
  BY <1>2, <1>11, NoOutput DEF Over
<1>13. Looking(w)
  <2>1. w.left \in Seq(DOMAIN Contents) /\ w.left # <<>>
    BY <1>1, <1>2, JobIs
  <2>2. w.left[Len(w.left)] = LastSource(w)
    BY <1>2 DEF LastSource
  <2>. QED BY <1>2, <2>1, <2>2 DEF Looking
<1>14. BeforeWork(w, d) /\ AtWork(w, d) /\ AfterWork(w, d)
  BY <1>2, <1>13 DEF BeforeWork, AtWork, AfterWork
<1>. QED BY <1>3, <1>10, <1>12, <1>14 DEF FilesAreGood, w, d

LEMMA FilesStep ==
  ASSUME FilesAreGood(work, world), Files!Next
  PROVE  FilesAreGood(work', world')
<1>1. ASSUME NEW source \in DOMAIN world.had, NEW content \in Contents[source] \cup {None},
             Files!Meddle(source, content)
      PROVE  FilesAreGood(work', world')
  BY <1>1, MeddleGood
<1>2. ASSUME NEW name \in {"output", "pages", "pages_2"}, Files!Meddle(name, Files!Theirs)
      PROVE  FilesAreGood(work', world')
  BY <1>2, MeddleGood
<1>3. {"output"} \cup Files!Range(Files!Directories) = {"output", "pages", "pages_2"}
  <2>1. DOMAIN Files!Directories = {1, 2} /\ Files!Directories[1] = "pages"
        /\ Files!Directories[2] = "pages_2"
    BY DEF Files!Directories
  <2>. QED BY <2>1 DEF Files!Range
<1>. QED
  BY <1>1, <1>2, <1>3, BeginGood, PreflightGood, StageGood, LoadGood, CreateGood, FillGood, RenameGood,
     ConvertGood, CheckGood, PersistGood, NameGood, PublishGood, DoneGood, CancelGood, KillGood
     DEF Files!Next

\* The invariant says what the property does.
LEMMA FilesAreWhole ==
  ASSUME FilesAreGood(work, world)
  PROVE  Files!OutputIsAllOrNothing
<1> DEFINE w == work
           d == world
<1>1. WorkIsGood(w) /\ DiskIsGood(w, d) /\ OutputIsGood(w, d)
  BY DEF FilesAreGood
<1>2. \A s : Files!PdfsHad(s) = PdfsOf(d, s)
  BY DEF Files!PdfsHad, PdfsOf
<1>3. /\ Files!Mine = OutputOf(d) /\ (Files!MakesDirectory <=> Directory(w))
      /\ Files!Last(w.job.sources) = LastSource(w)
  BY OfThisJob DEF Files!Last, LastSource
<1>4. Places(w) = IF Files!MakesDirectory THEN Files!Range(Files!Directories) ELSE {w.job.output}
  <2>1. DOMAIN Files!Directories = {1, 2} /\ Files!Directories[1] = "pages"
        /\ Files!Directories[2] = "pages_2"
    BY DEF Files!Directories
  <2>2. Files!Range(Files!Directories) = {"pages", "pages_2"}
    BY <2>1 DEF Files!Range
  <2>. QED BY <1>3, <2>2 DEF Places
<1>5. \A name \in Files!Names : d.theirs[name] # None => d.files[name] = d.theirs[name]
  BY <1>1 DEF DiskIsGood
<1>6. ASSUME NEW name \in OutputOf(d)
      PROVE  /\ name \in Places(w)
             /\ \E contents \in [DOMAIN w.job.sources -> UNION {Files!PdfsHad(s) : s \in DOMAIN d.had}],
                   counted \in Files!PdfsHad(LastSource(w)) :
                  /\ \A i \in DOMAIN contents : contents[i] \in Files!PdfsHad(w.job.sources[i])
                  /\ Files!IsResult(d.files[name].parts, contents, Len(counted))
  <2>1. name \in Places(w) /\ Whole(w, d, d.files[name].parts)
    BY <1>1, <1>6 DEF OutputIsGood
  <2>2. PICK contents \in Seq(Seq(FilePage)), counted \in PdfsOf(d, LastSource(w)) :
          /\ Len(contents) = Len(w.job.sources)
          /\ \A i \in 1..Len(contents) : contents[i] \in PdfsOf(d, w.job.sources[i])
          /\ ResultOf(w.job, d.files[name].parts, contents, Len(counted))
    BY <2>1 DEF Whole
  <2>3. Files!IsResult(d.files[name].parts, contents, Len(counted))
    BY <2>2, ResultOfTheJob
  <2>4. /\ DOMAIN w.job.sources = 1..Len(w.job.sources)
        /\ \A i \in 1..Len(w.job.sources) : w.job.sources[i] \in DOMAIN d.had
    BY <1>1, SourcesAre DEF DiskIsGood
  <2>5. DOMAIN contents = 1..Len(contents) /\ contents \in [1..Len(contents) -> Seq(FilePage)]
    BY <2>2, LenProperties
  <2> HIDE DEF w, d
  <2>6. \A i \in DOMAIN contents : contents[i] \in Files!PdfsHad(w.job.sources[i])
    BY <1>2, <2>2, <2>5
  <2>7. contents \in [DOMAIN w.job.sources -> UNION {Files!PdfsHad(s) : s \in DOMAIN d.had}]
    BY <2>2, <2>4, <2>5, <2>6
  <2>. QED BY <1>2, <2>1, <2>2, <2>3, <2>6, <2>7
<1>7. w.at = "ended" =>
        /\ \A name \in Files!Temps : d.files[name] = None
        /\ w.result = "Completed" => \E name \in Files!Names : OutputOf(d) = {name}
        /\ w.result \in {"Failed", "PasswordRequired"} => OutputOf(d) = {}
  BY <1>1 DEF OutputIsGood, OutputOf
<1>. QED
  BY <1>3, <1>4, <1>5, <1>6, <1>7 DEF Files!OutputIsAllOrNothing, Files!Files

-----------------------------------------------------------------------------
\* Whatever is cancelled, fails or is killed, and whatever others do on the disk
\* meanwhile: what a job of the tool worker leaves is nothing or the whole result
\* of its request, and nobody else's file is touched.
THEOREM FilesStayWhole == Spec => []OutputIsAllOrNothing
<1> DEFINE Inv == owner = "files" => FilesAreGood(work, world)
<1>1. Init => Inv
  BY FilesStart DEF Init
<1>2. Inv /\ [Next]_vars => Inv'
  <2> SUFFICES ASSUME Inv, [Next]_vars, owner' = "files" PROVE FilesAreGood(work', world')
    OBVIOUS
  <2>1. CASE UNCHANGED vars
    <3>1. UNCHANGED <<owner, work, world>>
      BY <2>1 DEF vars, working
    <3>. QED BY <3>1
  <2>2. CASE Next
    <3>1. owner = "files" /\ Files!Next
      BY <2>2 DEF Next
    <3>. QED BY <3>1, FilesStep
  <2>. QED BY <2>1, <2>2
<1>3. Inv => OutputIsAllOrNothing
  BY FilesAreWhole DEF OutputIsAllOrNothing
<1>. QED BY <1>1, <1>2, <1>3, PTL DEF Spec
=============================================================================

--------------------------- MODULE DrawingsProofs ---------------------------
(* What holds of the marks for any number of documents, pages, marks and      *)
(* overlays, and whatever is drawn, saved and closed together.                *)
EXTENDS Drawings, SequenceLemmas, FiniteSetTheorems

(***************************************************************************)
(* The inductive invariant, in parts.                                      *)
(***************************************************************************)

WhatTools == {"pan", "pen", "eraser", "text"}
Strokes == [doc : Docs \cup {None}, page : Pages \cup {0}]

UiIsGood ==
  /\ page \in Pages
  /\ ui \in [drawing : BOOLEAN, tool : WhatTools, pressed : Pages \cup {0}, stroke : Strokes,
             note : Pages \cup {0}, placing : Pages \cup {0}, closing : Docs \cup {None}]

TabsAreGood ==
  /\ tabs \in [open : SUBSET Docs, ready : SUBSET Docs, active : Docs \cup {None},
               closed : SUBSET Docs]
  /\ tabs.ready \subseteq tabs.open /\ tabs.open \cap tabs.closed = {}

\* While there is a stroke the pen is down on the active document, and nothing is
\* open that would change the tool, the mode or the document behind its back.
StrokeIsGood ==
  ui.stroke # NoStroke =>
    /\ ui.pressed # 0 /\ ui.stroke.doc = Active /\ HasDocument
    /\ ui.drawing /\ ui.tool = "pen" /\ ui.closing = None /\ ui.note = 0

\* Only documents that are shown, or whose tab is closed, have marks.
MarksAreGood == DOMAIN marks \subseteq tabs.ready \cup tabs.closed

IsJob(job) ==
  /\ job = [doc |-> job.doc, marks |-> job.marks, out |-> job.out, at |-> job.at]
  /\ job.doc \in Docs /\ job.out \in Docs

\* There is one save at most, and one that is written is in its file.
SavingIsGood ==
  /\ DOMAIN files = Docs
  /\ saving = [flag |-> saving.flag, jobs |-> saving.jobs] /\ saving.flag \in BOOLEAN
  /\ \/ saving.jobs = {} /\ ~ saving.flag
     \/ /\ saving.flag
        /\ \E job : /\ saving.jobs = {job} /\ IsJob(job)
                    /\ job.at = "written" => job.marks \subseteq files[job.out]

DrawingsInv == UiIsGood /\ TabsAreGood /\ StrokeIsGood /\ MarksAreGood /\ SavingIsGood

-----------------------------------------------------------------------------
(* Every action keeps every part *)

LEMMA ConstantsAreGood ==
  /\ Pages \subseteq Nat \ {0} /\ None \notin Docs
  /\ \A p \in Pages : p # 0
BY DrawingsAssumption DEF DrawingsAssumption, Pages

LEMMA InitIsGood ==
  ASSUME Init
  PROVE  DrawingsInv
<1>1. Pages \subseteq Nat \ {0} /\ None \notin Docs
  BY ConstantsAreGood
<1>2. UiIsGood
  BY DEF Init, UiIsGood, WhatTools, Strokes, NoStroke
<1>3. TabsAreGood
  BY DEF Init, TabsAreGood
<1>4. StrokeIsGood
  BY DEF Init, StrokeIsGood
<1>5. MarksAreGood
  BY DEF Init, MarksAreGood
<1>6. SavingIsGood
  BY DEF Init, SavingIsGood
<1>. QED BY <1>2, <1>3, <1>4, <1>5, <1>6 DEF DrawingsInv


LEMMA UiStep ==
  ASSUME UiIsGood, TabsAreGood, Next
  PROVE  UiIsGood'
<1> USE DEF UiIsGood, Strokes, NoStroke
<1>1. CASE EraserMove \/ Undo \/ Redo \/ ClearPage
  BY <1>1 DEF EraserMove, Undo, Redo, ClearPage
<1>2. ASSUME NEW p \in Pages, PenDown(p) PROVE UiIsGood'
  <2>1. Active \in Docs
    BY <1>2 DEF PenDown, CanPress, HasDocument, TabsAreGood
  <2>. QED BY <1>2, <2>1 DEF PenDown
<1>3. ASSUME NEW p \in Pages, TypeDown(p) \/ EraserDown(p) \/ Highlight(p) \/ GoTo(p) PROVE UiIsGood'
  BY <1>3 DEF TypeDown, EraserDown, Highlight, GoTo
<1>4. CASE EraserUp
  BY <1>4 DEF EraserUp
<1>5. CASE PenUp
  BY <1>5 DEF PenUp
<1>6. CASE ReleaseUnseen
  BY <1>6 DEF ReleaseUnseen
<1>7. CASE ToggleDrawing \/ Escape
  BY <1>7 DEF ToggleDrawing, Escape, WhatTools
<1>8. ASSUME NEW tool \in Tools, SelectTool(tool) PROVE UiIsGood'
  BY <1>8 DEF SelectTool, Tools, WhatTools
<1>9. CASE AddFreeText \/ CancelFreeText
  BY <1>9 DEF AddFreeText, CancelFreeText, WhatTools
<1>10. CASE StartPlacement \/ ApplySignature \/ CancelPlacement
  BY <1>10 DEF StartPlacement, ApplySignature, CancelPlacement
<1>11. CASE Discard
  BY <1>11 DEF Discard
<1>12. ASSUME NEW out, Save(out) PROVE UiIsGood'
  BY <1>12 DEF Save
<1>13. ASSUME NEW d \in Docs, Activate(d) \/ RequestClose(d) \/ Opened(d) PROVE UiIsGood'
  BY <1>13 DEF Activate, RequestClose, Opened
<1>14. CASE ConfirmClose \/ CancelClose
  BY <1>14 DEF ConfirmClose, CancelClose
<1>15. ASSUME NEW job, Saved(job) PROVE UiIsGood'
  BY <1>15 DEF Saved
<1>16. ASSUME NEW job, Write(job) \/ SaveFailed(job) PROVE UiIsGood'
  BY <1>16 DEF Write, SaveFailed
<1>. QED BY <1>16, <1>1, <1>2, <1>3, <1>4, <1>5, <1>6, <1>7, <1>8, <1>9, <1>10, <1>11, <1>12, <1>13,
            <1>14, <1>15 DEF Next, Pointer, User, Thread, Pump

\* A tab that is closed, whatever takes its place.
LEMMA ClosedTabs ==
  ASSUME TabsAreGood, NEW d \in Docs, Closed(d)
  PROVE  /\ TabsAreGood' /\ tabs'.ready \cup tabs'.closed = tabs.ready \cup tabs.closed \cup {d}
         /\ tabs'.open = tabs.open \ {d}
<1> DEFINE left == tabs.open \ {d}
<1>1. PICK a \in Docs \cup {None} :
        tabs' = [open |-> left, ready |-> tabs.ready \ {d}, closed |-> tabs.closed \cup {d},
                 active |-> a]
  BY DEF TabsAreGood, Closed, Active
<1>. QED BY <1>1 DEF TabsAreGood

LEMMA TabsStep ==
  ASSUME UiIsGood, TabsAreGood, SavingIsGood, Next
  PROVE  /\ TabsAreGood'
         /\ tabs.ready \cup tabs.closed \subseteq tabs'.ready \cup tabs'.closed
<1>1. CASE UNCHANGED tabs
  BY <1>1 DEF TabsAreGood
<1>2. ASSUME NEW job \in saving.jobs, Saved(job)
      PROVE  /\ TabsAreGood'
             /\ tabs.ready \cup tabs.closed \subseteq tabs'.ready \cup tabs'.closed
  <2>1. job.out \in Docs
    BY <1>2 DEF SavingIsGood, IsJob
  <2>. QED BY <1>2, <2>1 DEF Saved, Shown, Fresh, TabsAreGood
<1>3. ASSUME NEW d \in Docs, Opened(d)
      PROVE  /\ TabsAreGood'
             /\ tabs.ready \cup tabs.closed \subseteq tabs'.ready \cup tabs'.closed
  BY <1>3 DEF Opened, TabsAreGood
<1>4. ASSUME NEW d \in Docs, Activate(d)
      PROVE  /\ TabsAreGood'
             /\ tabs.ready \cup tabs.closed \subseteq tabs'.ready \cup tabs'.closed
  BY <1>4 DEF Activate, TabsAreGood
<1>5. ASSUME NEW d \in Docs, RequestClose(d)
      PROVE  /\ TabsAreGood'
             /\ tabs.ready \cup tabs.closed \subseteq tabs'.ready \cup tabs'.closed
  BY <1>1, <1>5, ClosedTabs DEF RequestClose
<1>6. CASE ConfirmClose
  <2>1. ui.closing \in Docs
    BY <1>6 DEF ConfirmClose, UiIsGood
  <2>. QED BY <1>6, <2>1, ClosedTabs DEF ConfirmClose
<1>7. CASE \E p \in Pages : PenDown(p) \/ TypeDown(p) \/ EraserDown(p) \/ Highlight(p) \/ GoTo(p)
  BY <1>1, <1>7 DEF PenDown, TypeDown, EraserDown, Highlight, GoTo
<1>8. CASE EraserMove \/ EraserUp \/ PenUp \/ ReleaseUnseen \/ Undo \/ Redo \/ ClearPage \/ Discard
  BY <1>1, <1>8 DEF EraserMove, EraserUp, PenUp, ReleaseUnseen, Undo, Redo, ClearPage, Discard
<1>9. CASE \/ ToggleDrawing \/ Escape \/ AddFreeText \/ CancelFreeText \/ StartPlacement
           \/ ApplySignature \/ CancelPlacement \/ CancelClose \/ \E tool \in Tools : SelectTool(tool)
  BY <1>1, <1>9 DEF ToggleDrawing, Escape, AddFreeText, CancelFreeText, StartPlacement,
                    ApplySignature, CancelPlacement, CancelClose, SelectTool
<1>10. CASE \/ \E out : Save(out)
            \/ \E job : Write(job) \/ SaveFailed(job)
  BY <1>1, <1>10 DEF Save, Write, SaveFailed
<1>. QED BY <1>2, <1>3, <1>4, <1>5, <1>6, <1>7, <1>8, <1>9, <1>10
         DEF Next, Pointer, User, Thread, Pump

LEMMA StrokeStep ==
  ASSUME UiIsGood, TabsAreGood, StrokeIsGood, Next
  PROVE  StrokeIsGood'
<1> USE DEF StrokeIsGood, HasDocument, Active
<1>0. \A p \in Pages : p # 0
  BY ConstantsAreGood
<1>1. CASE UNCHANGED <<ui, tabs>>
  BY <1>1 DEF StrokeIsGood
<1>2. ASSUME NEW p \in Pages, PenDown(p) PROVE StrokeIsGood'
  BY <1>0, <1>2 DEF PenDown, CanPress, Drawing, UiIsGood
<1>3. ASSUME NEW p \in Pages, TypeDown(p) \/ EraserDown(p) PROVE StrokeIsGood'
  BY <1>3 DEF TypeDown, EraserDown, CanPress, UiIsGood
<1>4. CASE EraserUp
  BY <1>4 DEF EraserUp, UiIsGood
<1>5. CASE PenUp
  BY <1>5 DEF PenUp, UiIsGood
<1>6. CASE ReleaseUnseen
  BY <1>6 DEF ReleaseUnseen, Drawing, UiIsGood
<1>7. CASE ToggleDrawing \/ Escape \/ \E tool \in Tools : SelectTool(tool)
  BY <1>7 DEF ToggleDrawing, Escape, SelectTool, UiIsGood
<1>8. CASE AddFreeText \/ CancelFreeText
  BY <1>8 DEF AddFreeText, CancelFreeText, UiIsGood
<1>9. CASE StartPlacement \/ ApplySignature \/ CancelPlacement
  BY <1>9 DEF StartPlacement, ApplySignature, CancelPlacement, UiIsGood
<1>10. CASE Discard
  BY <1>10 DEF Discard, UiIsGood
<1>11. ASSUME NEW d \in Docs, Opened(d) PROVE StrokeIsGood'
  BY <1>11 DEF Opened, TabsAreGood
<1>12. ASSUME NEW d \in Docs, Activate(d) PROVE StrokeIsGood'
  BY <1>12 DEF Activate
<1>13. ASSUME NEW d \in Docs, RequestClose(d) PROVE StrokeIsGood'
  BY <1>13 DEF RequestClose, UiIsGood
<1>14. CASE ConfirmClose \/ CancelClose
  BY <1>14 DEF ConfirmClose, CancelClose, UiIsGood
<1>15. ASSUME NEW job, Saved(job) PROVE StrokeIsGood'
  BY <1>15 DEF Saved, UiIsGood
<1>16. CASE \E p \in Pages : Highlight(p) \/ GoTo(p)
  BY <1>1, <1>16 DEF Highlight, GoTo
<1>17. CASE EraserMove \/ Undo \/ Redo \/ ClearPage
  BY <1>1, <1>17 DEF EraserMove, Undo, Redo, ClearPage
<1>18. CASE \/ \E out : Save(out)
            \/ \E job : Write(job) \/ SaveFailed(job)
  BY <1>1, <1>18 DEF Save, Write, SaveFailed
<1>. QED BY <1>2, <1>3, <1>4, <1>5, <1>6, <1>7, <1>8, <1>9, <1>10, <1>11, <1>12, <1>13, <1>14,
            <1>15, <1>16, <1>17, <1>18 DEF Next, Pointer, User, Thread, Pump

-----------------------------------------------------------------------------
(* The marks *)

\* What an action may make of the marks: they stay, the active document gets other
\* ones, or a document loses its own.
Gains == HasDocument /\ \E ms : marks' = With(marks, Active, ms) /\ MarksOf(Active) \subseteq ms
Changes ==
  HasDocument /\ \E ms : marks' \in {With(marks, Active, ms), [marks EXCEPT ![Active] = ms]}

LEMMA AddGains ==
  ASSUME HasDocument, NEW m, NEW ov, Add(Active, m, ov)
  PROVE  Gains
BY DEF Add, Gains

\* The marks of each action, as far as which documents have any.
LEMMA MarksStep ==
  ASSUME UiIsGood, Next
  PROVE  \/ UNCHANGED marks
         \/ Gains
         \/ Changes /\ (EraserMove \/ Undo \/ Redo \/ ClearPage \/ \E p \in Pages : EraserDown(p))
         \/ marks' = Without(marks, {Active}) /\ Discard
         \/ marks' = Without(marks, {ui.closing}) /\ ConfirmClose
         \/ \E job \in saving.jobs : marks' = Without(marks, {job.doc}) /\ Saved(job)
<1> USE DEF MarksStay
<1>1. CASE EraserMove \/ \E p \in Pages : EraserDown(p)
  <2>1. HasDocument /\ \E p, before : Erase(p, before)
    BY <1>1 DEF EraserMove, EraserDown, CanPress
  <2>2. UNCHANGED marks \/ Changes
    BY <2>1 DEF Erase, Changes
  <2>. QED BY <1>1, <2>2
<1>2. CASE Undo \/ Redo
  BY <1>2 DEF Undo, Redo, Changes
<1>3. CASE ClearPage
  BY <1>3 DEF ClearPage, Changes
<1>4. CASE PenUp
  BY <1>4, AddGains DEF PenUp
<1>5. CASE AddFreeText
  BY <1>5, AddGains DEF AddFreeText
<1>6. CASE \E p \in Pages : Highlight(p)
  BY <1>6, AddGains DEF Highlight
<1>7. CASE ApplySignature
  BY <1>7, AddGains DEF ApplySignature
<1>8. CASE Discard \/ ConfirmClose
  BY <1>8 DEF Discard, ConfirmClose
<1>9. CASE \E job \in saving.jobs : Saved(job)
  BY <1>9 DEF Saved
<1>10. CASE \E p \in Pages : PenDown(p) \/ TypeDown(p) \/ GoTo(p)
  BY <1>10 DEF PenDown, TypeDown, GoTo
<1>11. CASE EraserUp \/ ReleaseUnseen \/ ToggleDrawing \/ Escape \/ \E tool \in Tools : SelectTool(tool)
  BY <1>11 DEF EraserUp, ReleaseUnseen, ToggleDrawing, Escape, SelectTool
<1>12. CASE CancelFreeText \/ StartPlacement \/ CancelPlacement \/ CancelClose
  BY <1>12 DEF CancelFreeText, StartPlacement, CancelPlacement, CancelClose
<1>13. CASE \/ \E out : Save(out)
            \/ \E job : Write(job) \/ SaveFailed(job)
  BY <1>13 DEF Save, Write, SaveFailed
<1>14. CASE \E d \in Docs : Activate(d) \/ RequestClose(d) \/ Opened(d)
  BY <1>14 DEF Activate, RequestClose, Opened
<1>. QED BY <1>1, <1>2, <1>3, <1>4, <1>5, <1>6, <1>7, <1>8, <1>9, <1>10, <1>11, <1>12, <1>13,
            <1>14 DEF Next, Pointer, User, Thread, Pump

LEMMA MarkedStep ==
  ASSUME UiIsGood, TabsAreGood, SavingIsGood, MarksAreGood, Next
  PROVE  MarksAreGood'
<1>1. tabs.ready \cup tabs.closed \subseteq tabs'.ready \cup tabs'.closed
  BY TabsStep
<1>2. DOMAIN marks' \subseteq DOMAIN marks \cup tabs.ready
  <2>1. CASE Gains \/ Changes
    BY <2>1 DEF Gains, Changes, With, HasDocument
  <2>2. ASSUME NEW d, marks' = Without(marks, {d}) PROVE DOMAIN marks' \subseteq DOMAIN marks
    BY <2>2 DEF Without
  <2>. QED BY <2>1, <2>2, MarksStep
<1>. QED BY <1>1, <1>2 DEF MarksAreGood

-----------------------------------------------------------------------------
(* Saving *)

LEMMA SavingStep ==
  ASSUME TabsAreGood, SavingIsGood, Next
  PROVE  SavingIsGood'
<1>1. CASE UNCHANGED <<saving, files>>
  BY <1>1 DEF SavingIsGood
<1>2. ASSUME NEW out \in {Active} \cup Fresh, Save(out) PROVE SavingIsGood'
  <2> DEFINE job == [doc |-> Active, marks |-> MarksOf(Active), out |-> out, at |-> "writing"]
  <2>1. Active \in Docs /\ out \in Docs
    BY <1>2 DEF Save, HasDocument, TabsAreGood, Fresh
  <2>2. saving.jobs = {} /\ saving'.flag /\ saving'.jobs = {job} /\ files' = files
        /\ saving' = [flag |-> TRUE, jobs |-> {job}]
    BY <1>2 DEF Save, SavingIsGood
  <2>3. IsJob(job) /\ job.at # "written"
    BY <2>1 DEF IsJob
  <2> HIDE DEF job
  <2>. QED BY <2>2, <2>3 DEF SavingIsGood
<1>3. ASSUME NEW job \in saving.jobs, Write(job) PROVE SavingIsGood'
  <2>1. saving.jobs = {job} /\ IsJob(job) /\ saving.flag /\ DOMAIN files = Docs
        /\ saving = [flag |-> TRUE, jobs |-> {job}]
    BY <1>3 DEF SavingIsGood
  <2> DEFINE written == [job EXCEPT !.at = "written"]
             failed == [job EXCEPT !.at = "failed"]
  <2>2. /\ IsJob(written) /\ written.marks = job.marks /\ written.out = job.out
        /\ IsJob(failed) /\ failed.at # "written"
    BY <2>1 DEF IsJob
  <2>3. CASE /\ files' = [files EXCEPT ![job.out] = Flattened(job)]
             /\ saving' = [saving EXCEPT !.jobs = (@ \ {job}) \cup {written}]
    <3> HIDE DEF written, failed
    <3>1. saving' = [flag |-> TRUE, jobs |-> {written}]
      BY <2>1, <2>3
    <3>2. DOMAIN files' = Docs /\ files'[job.out] = Flattened(job)
      BY <2>1, <2>3 DEF IsJob
    <3>3. written.marks \subseteq files'[written.out]
      BY <2>2, <3>2 DEF Flattened
    <3>. QED BY <2>2, <3>1, <3>2, <3>3 DEF SavingIsGood
  <2>4. CASE saving' = [saving EXCEPT !.jobs = (@ \ {job}) \cup {failed}] /\ files' = files
    <3> HIDE DEF written, failed
    <3>1. saving' = [flag |-> TRUE, jobs |-> {failed}]
      BY <2>1, <2>4
    <3>. QED BY <2>1, <2>2, <2>4, <3>1 DEF SavingIsGood
  <2>. QED BY <1>3, <2>3, <2>4 DEF Write
<1>4. ASSUME NEW job \in saving.jobs, Saved(job) \/ SaveFailed(job) PROVE SavingIsGood'
  <2>1. saving' = [flag |-> FALSE, jobs |-> saving.jobs \ {job}] /\ files' = files
    BY <1>4 DEF Saved, SaveFailed
  <2>2. saving.jobs \ {job} = {}
    BY DEF SavingIsGood
  <2>. QED BY <2>1, <2>2 DEF SavingIsGood
<1>5. CASE \E p \in Pages : PenDown(p) \/ TypeDown(p) \/ EraserDown(p) \/ Highlight(p) \/ GoTo(p)
  BY <1>1, <1>5 DEF PenDown, TypeDown, EraserDown, Highlight, GoTo
<1>6. CASE EraserMove \/ EraserUp \/ PenUp \/ ReleaseUnseen \/ Undo \/ Redo \/ ClearPage \/ Discard
  BY <1>1, <1>6 DEF EraserMove, EraserUp, PenUp, ReleaseUnseen, Undo, Redo, ClearPage, Discard
<1>7. CASE \/ ToggleDrawing \/ Escape \/ AddFreeText \/ CancelFreeText \/ StartPlacement
           \/ ApplySignature \/ CancelPlacement \/ CancelClose \/ ConfirmClose
           \/ \E tool \in Tools : SelectTool(tool)
  BY <1>1, <1>7 DEF ToggleDrawing, Escape, AddFreeText, CancelFreeText, StartPlacement,
                    ApplySignature, CancelPlacement, CancelClose, ConfirmClose, SelectTool
<1>8. CASE \E d \in Docs : Activate(d) \/ RequestClose(d) \/ Opened(d)
  BY <1>1, <1>8 DEF Activate, RequestClose, Opened
<1>. QED BY <1>2, <1>3, <1>4, <1>5, <1>6, <1>7, <1>8 DEF Next, Pointer, User, Thread, Pump

-----------------------------------------------------------------------------
(* The theorems *)

LEMMA DrawingsInvariant == Spec => []DrawingsInv
<1>1. DrawingsInv /\ [Next]_vars => DrawingsInv'
  <2> SUFFICES ASSUME DrawingsInv, [Next]_vars PROVE DrawingsInv'
    OBVIOUS
  <2>1. CASE UNCHANGED vars
    BY <2>1 DEF vars, DrawingsInv, UiIsGood, TabsAreGood, StrokeIsGood, MarksAreGood, SavingIsGood,
                HasDocument, Active
  <2>2. CASE Next
    BY <2>2, UiStep, TabsStep, StrokeStep, MarkedStep, SavingStep DEF DrawingsInv
  <2>. QED BY <2>1, <2>2
<1>. QED BY <1>1, InitIsGood, PTL DEF Spec

\* A stroke is begun and ended on one document, however the pointer, the dialogs
\* and the ends of saves come together.
THEOREM StrokesAreUnderThePointer == Spec => []StrokeIsUnderThePointer
<1>1. DrawingsInv => StrokeIsUnderThePointer
  BY DEF DrawingsInv, StrokeIsGood, StrokeIsUnderThePointer
<1>. QED BY <1>1, DrawingsInvariant, PTL

\* Two saves never write at once, and the flag that refuses the second is set as
\* long as the first is under way and no longer.
THEOREM SavesAreOneAtATime == Spec => []OneSaveAtATime
<1>1. DrawingsInv => OneSaveAtATime
  <2> SUFFICES ASSUME SavingIsGood PROVE OneSaveAtATime
    BY DEF DrawingsInv
  <2>1. CASE saving.jobs = {}
    BY <2>1, FS_EmptySet DEF SavingIsGood, OneSaveAtATime
  <2>2. ASSUME NEW job, saving.jobs = {job} PROVE OneSaveAtATime
    BY <2>2, FS_Singleton DEF SavingIsGood, OneSaveAtATime
  <2>. QED BY <2>1, <2>2 DEF SavingIsGood
<1>. QED BY <1>1, DrawingsInvariant, PTL

\* Marks leave a document because the user took them away or because they are in
\* the file that was saved.
THEOREM MarksLeaveForReasons == Spec => MarksLeaveForAReason
<1>1. DrawingsInv /\ [Next]_vars =>
        [\/ EraserMove \/ Undo \/ Redo \/ ClearPage \/ Discard \/ ConfirmClose
         \/ \E p \in Pages : EraserDown(p)
         \/ \A d \in Docs : \/ MarksOf(d) \subseteq MarksOf(d)'
                            \/ \E job \in saving.jobs :
                                 job.doc = d /\ job.at = "written" /\ job.marks \subseteq files[job.out]
        ]_vars
  <2> SUFFICES ASSUME DrawingsInv, Next, NEW d \in Docs, ~ (MarksOf(d) \subseteq MarksOf(d)'),
                      ~ (\/ EraserMove \/ Undo \/ Redo \/ ClearPage \/ Discard \/ ConfirmClose
                         \/ \E p \in Pages : EraserDown(p))
               PROVE  \E job \in saving.jobs :
                        job.doc = d /\ job.at = "written" /\ job.marks \subseteq files[job.out]
    OBVIOUS
  <2>1. ~ UNCHANGED marks
    BY DEF MarksOf
  <2>2. ~ Gains
    BY DEF Gains, MarksOf, With
  <2>3. PICK job \in saving.jobs : marks' = Without(marks, {job.doc}) /\ Saved(job)
    BY <2>1, <2>2, MarksStep DEF DrawingsInv
  <2>4. job.doc = d
    BY <2>3 DEF MarksOf, Without
  <2>5. job.at = "written" /\ job.marks \subseteq files[job.out]
    BY <2>3 DEF Saved, DrawingsInv, SavingIsGood
  <2>. QED BY <2>4, <2>5
<1>. QED BY <1>1, DrawingsInvariant, PTL DEF Spec, MarksLeaveForAReason

\* A tab with marks closes only after the user was asked about this tab.
THEOREM ClosingsAreAsked == Spec => ClosingIsAsked
<1>1. DrawingsInv /\ [Next]_vars =>
        [\A d \in Docs : d \in tabs.open /\ d \notin tabs'.open
           => ui.closing = d \/ MarksOf(d) = {}]_vars
  <2> SUFFICES ASSUME DrawingsInv, Next, NEW d \in Docs, d \in tabs.open, d \notin tabs'.open,
                      ui.closing # d
               PROVE  MarksOf(d) = {}
    OBVIOUS
  <2> USE DEF DrawingsInv
  <2>1. ASSUME d \notin tabs.ready PROVE MarksOf(d) = {}
    BY <2>1 DEF MarksAreGood, TabsAreGood, MarksOf
  <2>2. CASE ConfirmClose
    <3>1. ui.closing \in Docs /\ Closed(ui.closing)
      BY <2>2 DEF ConfirmClose, UiIsGood
    <3>. QED BY <3>1, ClosedTabs
  <2>3. ASSUME NEW e \in Docs, RequestClose(e) PROVE MarksOf(d) = {}
    <3>1. Closed(e) /\ ~ (e \in tabs.ready /\ MarksOf(e) # {})
      BY <2>3 DEF RequestClose
    <3>2. e = d
      BY <3>1, ClosedTabs
    <3>. QED BY <2>1, <3>1, <3>2
  <2>4. CASE \E e \in Docs : Activate(e) \/ Opened(e)
    BY <2>4 DEF Activate, Opened, TabsAreGood
  <2>9. CASE \E job : Saved(job)
    BY <2>9 DEF Saved, Shown, TabsAreGood
  <2>5. CASE \E p \in Pages : PenDown(p) \/ TypeDown(p) \/ EraserDown(p) \/ Highlight(p) \/ GoTo(p)
    BY <2>5 DEF PenDown, TypeDown, EraserDown, Highlight, GoTo
  <2>6. CASE EraserMove \/ EraserUp \/ PenUp \/ ReleaseUnseen \/ Undo \/ Redo \/ ClearPage \/ Discard
    BY <2>6 DEF EraserMove, EraserUp, PenUp, ReleaseUnseen, Undo, Redo, ClearPage, Discard
  <2>7. CASE \/ ToggleDrawing \/ Escape \/ AddFreeText \/ CancelFreeText \/ StartPlacement
             \/ ApplySignature \/ CancelPlacement \/ CancelClose \/ \E tool \in Tools : SelectTool(tool)
    BY <2>7 DEF ToggleDrawing, Escape, AddFreeText, CancelFreeText, StartPlacement,
                ApplySignature, CancelPlacement, CancelClose, SelectTool
  <2>8. CASE \/ \E out : Save(out)
             \/ \E job : Write(job) \/ SaveFailed(job)
    BY <2>8 DEF Save, Write, SaveFailed
  <2>. QED BY <2>2, <2>3, <2>4, <2>5, <2>6, <2>7, <2>8, <2>9 DEF Next, Pointer, User, Thread, Pump
<1>. QED BY <1>1, DrawingsInvariant, PTL DEF Spec, ClosingIsAsked

-----------------------------------------------------------------------------
(* The types of the marks and of their history *)

\* Where the pen is down in drawing mode there is a stroke, on a page.
PenIsGood ==
  /\ ui.pressed # 0 => ui.note = 0 /\ ui.tool # "pan"
  /\ ui.pressed # 0 /\ ui.drawing /\ ui.tool = "pen" => ui.stroke # NoStroke
  /\ ui.stroke # NoStroke => ui.stroke.page \in Pages

\* A history that never holds more than MaxStack steps.
Bounded(h) ==
  /\ h \in [undo : Seq(SUBSET Mark), redo : Seq(SUBSET Mark)]
  /\ Len(h.undo) + Len(h.redo) <= MaxStack

MarksHaveTypes == \A d \in DOMAIN marks : marks[d] \subseteq Mark

HistoryIsGood ==
  /\ made \in 0..MaxMarks
  /\ MarksHaveTypes
  /\ DOMAIN history = Docs /\ \A d \in Docs : Bounded(history[d])

TabIsInFront ==
  /\ tabs.active = None => tabs.open = {}
  /\ tabs.active \in tabs.open \cup {None}

LEMMA PenStep ==
  ASSUME UiIsGood, StrokeIsGood, PenIsGood, Next
  PROVE  PenIsGood'
<1> USE DEF PenIsGood, UiIsGood, Strokes, NoStroke
<1>0. \A p \in Pages : p # 0
  BY ConstantsAreGood
<1>1. CASE UNCHANGED ui
  BY <1>1 DEF PenIsGood
<1>2. ASSUME NEW p \in Pages, PenDown(p) PROVE PenIsGood'
  BY <1>0, <1>2 DEF PenDown, CanPress, Drawing
<1>3. ASSUME NEW p \in Pages, TypeDown(p) PROVE PenIsGood'
  BY <1>3 DEF TypeDown, CanPress, Drawing
<1>4. ASSUME NEW p \in Pages, EraserDown(p) PROVE PenIsGood'
  BY <1>4 DEF EraserDown, CanPress, Drawing
<1>5. CASE EraserUp
  BY <1>5 DEF EraserUp
<1>6. CASE PenUp
  BY <1>6 DEF PenUp
<1>7. CASE ReleaseUnseen
  BY <1>7 DEF ReleaseUnseen
<1>8. CASE ToggleDrawing
  BY <1>8 DEF ToggleDrawing
<1>9. CASE Escape
  BY <1>9 DEF Escape, Drawing
<1>10. ASSUME NEW tool \in Tools, SelectTool(tool) PROVE PenIsGood'
  BY <1>10 DEF SelectTool
<1>11. CASE AddFreeText \/ CancelFreeText
  BY <1>11 DEF AddFreeText, CancelFreeText
<1>12. CASE StartPlacement \/ ApplySignature \/ CancelPlacement
  BY <1>12 DEF StartPlacement, ApplySignature, CancelPlacement
<1>13. CASE Discard
  BY <1>13 DEF Discard
<1>14. ASSUME NEW job, Saved(job) PROVE PenIsGood'
  BY <1>14 DEF Saved
<1>15. ASSUME NEW d \in Docs, RequestClose(d) PROVE PenIsGood'
  BY <1>15 DEF RequestClose
<1>16. CASE ConfirmClose \/ CancelClose
  BY <1>16 DEF ConfirmClose, CancelClose
<1>17. CASE \E p \in Pages : Highlight(p) \/ GoTo(p)
  BY <1>1, <1>17 DEF Highlight, GoTo
<1>18. CASE EraserMove \/ Undo \/ Redo \/ ClearPage \/ \E d \in Docs : Activate(d) \/ Opened(d)
  BY <1>1, <1>18 DEF EraserMove, Undo, Redo, ClearPage, Activate, Opened
<1>19. CASE \/ \E out : Save(out)
            \/ \E job : Write(job) \/ SaveFailed(job)
  BY <1>1, <1>19 DEF Save, Write, SaveFailed
<1>. QED BY <1>2, <1>3, <1>4, <1>5, <1>6, <1>7, <1>8, <1>9, <1>10, <1>11, <1>12, <1>13, <1>14,
            <1>15, <1>16, <1>17, <1>18, <1>19 DEF Next, Pointer, User, Thread, Pump

LEMMA FrontStep ==
  ASSUME UiIsGood, TabsAreGood, SavingIsGood, TabIsInFront, Next
  PROVE  TabIsInFront'
<1> USE DEF TabIsInFront
<1>0. None \notin Docs
  BY ConstantsAreGood
<1>1. CASE UNCHANGED tabs
  BY <1>1
<1>2. ASSUME NEW job \in saving.jobs, Saved(job) PROVE TabIsInFront'
  <2>1. job.out \in Docs
    BY <1>2 DEF SavingIsGood, IsJob
  <2>. QED BY <1>0, <1>2, <2>1 DEF Saved, Shown, TabsAreGood
<1>3. ASSUME NEW d \in Docs, Opened(d) \/ Activate(d) PROVE TabIsInFront'
  BY <1>0, <1>3 DEF Opened, Activate, TabsAreGood
<1>4. ASSUME NEW d, Closed(d), d \in Docs PROVE TabIsInFront'
  <2> DEFINE left == tabs.open \ {d}
  <2>1. PICK a \in IF d # Active THEN {Active} ELSE IF left = {} THEN {None} ELSE left :
          tabs' = [open |-> left, ready |-> tabs.ready \ {d}, closed |-> tabs.closed \cup {d},
                   active |-> a]
    BY <1>4 DEF Closed
  <2>2. tabs'.open = left /\ tabs'.active = a
    BY <2>1
  <2>. QED BY <1>0, <2>1, <2>2 DEF TabsAreGood, Active
<1>5. ASSUME NEW d \in Docs, RequestClose(d) PROVE TabIsInFront'
  BY <1>1, <1>4, <1>5 DEF RequestClose
<1>6. CASE ConfirmClose
  BY <1>4, <1>6 DEF ConfirmClose, UiIsGood
<1>7. CASE \E p \in Pages : PenDown(p) \/ TypeDown(p) \/ EraserDown(p) \/ Highlight(p) \/ GoTo(p)
  BY <1>1, <1>7 DEF PenDown, TypeDown, EraserDown, Highlight, GoTo
<1>8. CASE EraserMove \/ EraserUp \/ PenUp \/ ReleaseUnseen \/ Undo \/ Redo \/ ClearPage \/ Discard
  BY <1>1, <1>8 DEF EraserMove, EraserUp, PenUp, ReleaseUnseen, Undo, Redo, ClearPage, Discard
<1>9. CASE \/ ToggleDrawing \/ Escape \/ AddFreeText \/ CancelFreeText \/ StartPlacement
           \/ ApplySignature \/ CancelPlacement \/ CancelClose \/ \E tool \in Tools : SelectTool(tool)
  BY <1>1, <1>9 DEF ToggleDrawing, Escape, AddFreeText, CancelFreeText, StartPlacement,
                    ApplySignature, CancelPlacement, CancelClose, SelectTool
<1>10. CASE \/ \E out : Save(out)
            \/ \E job : Write(job) \/ SaveFailed(job)
  BY <1>1, <1>10 DEF Save, Write, SaveFailed
<1>. QED BY <1>2, <1>3, <1>5, <1>6, <1>7, <1>8, <1>9, <1>10 DEF Next, Pointer, User, Thread, Pump

-----------------------------------------------------------------------------
(* AnnotationHistory *)

LEMMA FrontIs ==
  ASSUME NEW S, NEW s \in Seq(S), s # <<>>
  PROVE  /\ Front(s) \in Seq(S) /\ Len(Front(s)) = Len(s) - 1
         /\ Last(s) \in S /\ Len(s) >= 1
<1>1. Len(s) \in Nat \ {0}
  BY EmptySeq
<1>2. Front(s) \in Seq(S) /\ Len(Front(s)) = Len(s) - 1
  <2> DEFINE n == Len(s) - 1
  <2>1. n \in Nat /\ \A i \in 1..n : s[i] \in S
    BY <1>1
  <2> HIDE DEF n
  <2>3. SubSeq(s, 1, n) \in Seq(S) /\ Len(SubSeq(s, 1, n)) = n
    BY <2>1, SubSeqProperties
  <2>. QED BY <2>3 DEF Front, n
<1>3. Last(s) \in S
  BY <1>1 DEF Last
<1>. QED BY <1>1, <1>2, <1>3

LEMMA PushBounded ==
  ASSUME NEW h, Bounded(h), NEW c \in SUBSET Mark
  PROVE  Bounded(PushSnapshot(h, c))
<1> DEFINE V == SUBSET Mark
<1>0. MaxStack \in Nat \ {0}
  BY DrawingsAssumption DEF DrawingsAssumption
<1>1. /\ h.undo \in Seq(V) /\ h.redo \in Seq(V) /\ Len(h.undo) \in Nat /\ Len(h.redo) \in Nat
      /\ Len(h.undo) <= MaxStack
  BY <1>0 DEF Bounded
<1>2. c \in V
  OBVIOUS
<1> HIDE DEF V
<1>3. CASE Len(h.undo) = MaxStack
  <2> DEFINE u == Append(Tail(h.undo), c)
  <2>1. Tail(h.undo) \in Seq(V) /\ Len(Tail(h.undo)) = MaxStack - 1
    BY <1>0, <1>1, <1>3, HeadTailProperties
  <2>2. u \in Seq(V) /\ Len(u) = MaxStack
    BY <1>0, <1>2, <2>1, AppendProperties
  <2>3. PushSnapshot(h, c) = [undo |-> u, redo |-> <<>>]
    BY <1>3 DEF PushSnapshot
  <2> HIDE DEF u
  <2>. QED BY <1>0, <2>2, <2>3 DEF Bounded, V
<1>4. CASE Len(h.undo) # MaxStack
  <2> DEFINE u == Append(h.undo, c)
  <2>2. u \in Seq(V) /\ Len(u) = Len(h.undo) + 1
    BY <1>1, <1>2, AppendProperties
  <2>3. PushSnapshot(h, c) = [undo |-> u, redo |-> <<>>]
    BY <1>4 DEF PushSnapshot
  <2> HIDE DEF u
  <2>. QED BY <1>0, <1>1, <1>4, <2>2, <2>3 DEF Bounded, V
<1>. QED BY <1>3, <1>4

LEMMA UndoBounded ==
  ASSUME NEW h, Bounded(h), NEW c \in SUBSET Mark
  PROVE  /\ h.undo # <<>> => Bounded(UndoOf(h, c)) /\ Last(h.undo) \subseteq Mark
                               /\ Bounded([h EXCEPT !.undo = Front(@)])
         /\ h.redo # <<>> => Bounded(RedoOf(h, c)) /\ Last(h.redo) \subseteq Mark
<1> DEFINE V == SUBSET Mark
<1>0. MaxStack \in Nat \ {0}
  BY DrawingsAssumption DEF DrawingsAssumption
<1>1. /\ h = [undo |-> h.undo, redo |-> h.redo]
      /\ h.undo \in Seq(V) /\ h.redo \in Seq(V) /\ Len(h.undo) \in Nat /\ Len(h.redo) \in Nat
      /\ Len(h.undo) + Len(h.redo) <= MaxStack
  BY <1>0 DEF Bounded
<1>2. c \in V
  OBVIOUS
<1> HIDE DEF V
<1> DEFINE u == Append(h.undo, c)
           r == Append(h.redo, c)
<1>3. /\ u \in Seq(V) /\ Len(u) = Len(h.undo) + 1
      /\ r \in Seq(V) /\ Len(r) = Len(h.redo) + 1
  BY <1>1, <1>2, AppendProperties
<1> HIDE DEF u, r
<1>4. ASSUME h.undo # <<>>
      PROVE  /\ Bounded(UndoOf(h, c)) /\ Last(h.undo) \subseteq Mark
             /\ Bounded([h EXCEPT !.undo = Front(@)])
  <2> DEFINE f == Front(h.undo)
  <2>1. f \in Seq(V) /\ Len(f) = Len(h.undo) - 1 /\ Last(h.undo) \in V
    BY <1>1, <1>4, FrontIs
  <2>2. UndoOf(h, c) = [undo |-> f, redo |-> r]
    BY DEF UndoOf, r
  <2>3. [h EXCEPT !.undo = Front(@)] = [undo |-> f, redo |-> h.redo]
    BY <1>1
  <2> HIDE DEF f
  <2>. QED BY <1>0, <1>1, <1>3, <2>1, <2>2, <2>3 DEF Bounded, V
<1>5. ASSUME h.redo # <<>>
      PROVE  Bounded(RedoOf(h, c)) /\ Last(h.redo) \subseteq Mark
  <2> DEFINE f == Front(h.redo)
  <2>1. f \in Seq(V) /\ Len(f) = Len(h.redo) - 1 /\ Last(h.redo) \in V
    BY <1>1, <1>5, FrontIs
  <2>2. RedoOf(h, c) = [undo |-> u, redo |-> f]
    BY DEF RedoOf, u
  <2> HIDE DEF f
  <2>. QED BY <1>0, <1>1, <1>3, <2>1, <2>2 DEF Bounded, V
<1>. QED BY <1>4, <1>5

LEMMA MarksOfType ==
  ASSUME MarksHaveTypes, NEW d
  PROVE  MarksOf(d) \in SUBSET Mark
BY DEF MarksHaveTypes, MarksOf

LEMMA MarksTyped ==
  ASSUME MarksHaveTypes, NEW d, NEW ms \in SUBSET Mark,
         marks' \in {With(marks, d, ms), [marks EXCEPT ![d] = ms], marks}
  PROVE  MarksHaveTypes'
BY DEF MarksHaveTypes, With

LEMMA MarksLost ==
  ASSUME MarksHaveTypes, NEW S, marks' = Without(marks, S)
  PROVE  MarksHaveTypes'
BY DEF MarksHaveTypes, Without

LEMMA HistoryTyped ==
  ASSUME HistoryIsGood, NEW d, NEW h, Bounded(h), history' = [history EXCEPT ![d] = h]
  PROVE  DOMAIN history' = Docs /\ \A e \in Docs : Bounded(history'[e])
BY DEF HistoryIsGood

\* A new mark on a page, with the history of what was there before.
LEMMA AddTyped ==
  ASSUME HistoryIsGood, NEW d \in Docs, NEW p \in Pages, NEW kind \in Kinds, NEW ov,
         Add(d, NewMark(p, kind), ov)
  PROVE  HistoryIsGood'
<1> DEFINE m == NewMark(p, kind)
<1>0. MaxMarks \in Nat \ {0}
  BY DrawingsAssumption DEF DrawingsAssumption
<1>1. made' \in 0..MaxMarks
  BY <1>0 DEF Add, HistoryIsGood
<1>2. m \in Mark
  BY <1>0 DEF Add, HistoryIsGood, NewMark, Mark
<1> HIDE DEF m
<1>3. MarksOf(d) \cup {m} \in SUBSET Mark
  BY <1>2, MarksOfType DEF HistoryIsGood
<1>4. MarksHaveTypes'
  BY <1>3, MarksTyped DEF Add, HistoryIsGood, m
<1>5. Bounded(PushSnapshot(history[d], MarksOf(d)))
  BY PushBounded, MarksOfType DEF HistoryIsGood
<1>6. DOMAIN history' = Docs /\ \A e \in Docs : Bounded(history'[e])
  BY <1>5, HistoryTyped DEF Add
<1>. QED BY <1>1, <1>4, <1>6 DEF HistoryIsGood

LEMMA EraseTyped ==
  ASSUME HistoryIsGood, Active \in Docs, NEW p, NEW before, Erase(p, before), UNCHANGED made
  PROVE  HistoryIsGood'
<1>1. PICK left \in Erased(MarksOf(Active), p) :
        /\ marks' = IF Active \in DOMAIN marks THEN [marks EXCEPT ![Active] = left] ELSE marks
        /\ history' = IF before /\ Active \in DOMAIN marks
                      THEN [history EXCEPT ![Active] = PushSnapshot(@, marks[Active])] ELSE history
  BY DEF Erase
<1>2. left \in SUBSET Mark
  BY MarksOfType DEF Erased, HistoryIsGood
<1>3. MarksHaveTypes'
  BY <1>1, <1>2, MarksTyped DEF HistoryIsGood
<1>4. Active \in DOMAIN marks => Bounded(PushSnapshot(history[Active], marks[Active]))
  BY PushBounded DEF HistoryIsGood, MarksHaveTypes
<1>5. DOMAIN history' = Docs /\ \A e \in Docs : Bounded(history'[e])
  BY <1>1, <1>4, HistoryTyped DEF HistoryIsGood
<1>. QED BY <1>3, <1>5 DEF HistoryIsGood

LEMMA HistoryStep ==
  ASSUME UiIsGood, TabsAreGood, StrokeIsGood, PenIsGood, HistoryIsGood, Next
  PROVE  HistoryIsGood'
<1>0. /\ HasDocument => Active \in Docs
      /\ \A p \in Pages : p # 0
      /\ MarksHaveTypes /\ \A d \in Docs : Bounded(history[d])
  BY ConstantsAreGood DEF HasDocument, TabsAreGood, HistoryIsGood
<1>1. CASE UNCHANGED <<marks, history, made>>
  BY <1>1 DEF HistoryIsGood, MarksHaveTypes
<1>2. CASE EraserMove \/ \E p \in Pages : EraserDown(p)
  BY <1>0, <1>2, EraseTyped DEF EraserMove, EraserDown, CanPress
<1>3. CASE EraserUp
  <2> DEFINE h == history[Active]
             g == [h EXCEPT !.undo = Front(@)]
  <2>1. \/ UNCHANGED history
        \/ h.undo # <<>> /\ history' = [history EXCEPT ![Active].undo = Front(@)]
    BY <1>3 DEF EraserUp
  <2>2. Active \in Docs /\ UNCHANGED <<marks, made>>
    BY <1>0, <1>3 DEF EraserUp
  <2>3. CASE h.undo # <<>> /\ history' = [history EXCEPT ![Active].undo = Front(@)]
    <3>1. Bounded(g)
      BY <1>0, <2>2, <2>3, UndoBounded
    <3>2. history' = [history EXCEPT ![Active] = g]
      BY <2>3
    <3> HIDE DEF g
    <3>3. DOMAIN history' = Docs /\ \A e \in Docs : Bounded(history'[e])
      BY <3>1, <3>2, HistoryTyped
    <3>. QED BY <2>2, <3>3 DEF HistoryIsGood, MarksHaveTypes
  <2>. QED BY <1>1, <2>1, <2>2, <2>3
<1>4. CASE PenUp
  <2>1. Active \in Docs /\ ui.stroke.page \in Pages
    BY <1>0, <1>4 DEF PenUp, Drawing, PenIsGood
  <2>2. "ink" \in Kinds
    BY DEF Kinds
  <2>. QED BY <1>1, <1>4, <2>1, <2>2, AddTyped DEF PenUp
<1>5. CASE AddFreeText
  <2>1. ui.note \in Pages /\ "text" \in Kinds
    BY <1>5 DEF AddFreeText, UiIsGood, Kinds
  <2>. QED BY <1>0, <1>1, <1>5, <2>1, AddTyped DEF AddFreeText, MarksStay
<1>6. CASE \E p \in Pages : Highlight(p)
  <2>1. "highlight" \in Kinds
    BY DEF Kinds
  <2>. QED BY <1>0, <1>6, <2>1, AddTyped DEF Highlight
<1>7. CASE ApplySignature
  <2>1. ui.placing \in Pages /\ "signature" \in Kinds
    BY <1>7 DEF ApplySignature, UiIsGood, Kinds
  <2>. QED BY <1>0, <1>7, <2>1, AddTyped DEF ApplySignature
<1>8. CASE Undo
  <2>1. Active \in Docs /\ history[Active].undo # <<>> /\ UNCHANGED made
    BY <1>0, <1>8 DEF Undo
  <2>2. /\ Bounded(UndoOf(history[Active], MarksOf(Active)))
        /\ Last(history[Active].undo) \subseteq Mark
    BY <1>0, <2>1, UndoBounded, MarksOfType
  <2>3. MarksHaveTypes'
    BY <1>0, <1>8, <2>2, MarksTyped DEF Undo
  <2>4. DOMAIN history' = Docs /\ \A e \in Docs : Bounded(history'[e])
    BY <1>8, <2>2, HistoryTyped DEF Undo
  <2>. QED BY <2>1, <2>3, <2>4 DEF HistoryIsGood
<1>9. CASE Redo
  <2>1. Active \in Docs /\ history[Active].redo # <<>> /\ UNCHANGED made
    BY <1>0, <1>9 DEF Redo
  <2>2. /\ Bounded(RedoOf(history[Active], MarksOf(Active)))
        /\ Last(history[Active].redo) \subseteq Mark
    BY <1>0, <2>1, UndoBounded, MarksOfType
  <2>3. MarksHaveTypes'
    BY <1>0, <1>9, <2>2, MarksTyped DEF Redo
  <2>4. DOMAIN history' = Docs /\ \A e \in Docs : Bounded(history'[e])
    BY <1>9, <2>2, HistoryTyped DEF Redo
  <2>. QED BY <2>1, <2>3, <2>4 DEF HistoryIsGood
<1>10. CASE ClearPage
  <2> DEFINE left == {m \in MarksOf(Active) : m.page # page}
  <2>1. left \in SUBSET Mark /\ Active \in Docs /\ UNCHANGED made
    BY <1>0, <1>10, MarksOfType DEF ClearPage
  <2>2. Bounded(PushSnapshot(history[Active], MarksOf(Active)))
    BY <1>0, <2>1, PushBounded, MarksOfType
  <2>3. /\ marks' = [marks EXCEPT ![Active] = left]
        /\ history' = [history EXCEPT ![Active] = PushSnapshot(@, MarksOf(Active))]
    BY <1>10 DEF ClearPage
  <2> HIDE DEF left
  <2>4. MarksHaveTypes'
    BY <1>0, <2>1, <2>3, MarksTyped
  <2>5. DOMAIN history' = Docs /\ \A e \in Docs : Bounded(history'[e])
    BY <2>2, <2>3, HistoryTyped
  <2>. QED BY <2>1, <2>4, <2>5 DEF HistoryIsGood
<1>11. CASE Discard
  <2>1. Bounded(NoHistory)
    <3>1. MaxStack \in Nat
      BY DrawingsAssumption DEF DrawingsAssumption
    <3>. QED BY <3>1, EmptySeq DEF Bounded, NoHistory
  <2>2. DOMAIN history' = Docs /\ \A e \in Docs : Bounded(history'[e])
    BY <1>11, <2>1, HistoryTyped DEF Discard
  <2>. QED BY <1>0, <1>11, <2>2, MarksLost DEF Discard, HistoryIsGood
<1>12. CASE ConfirmClose \/ \E job : Saved(job)
  <2>1. MarksHaveTypes' /\ UNCHANGED <<history, made>>
    BY <1>0, <1>12, MarksLost DEF ConfirmClose, Saved
  <2>. QED BY <2>1 DEF HistoryIsGood
<1>13. CASE \E p \in Pages : PenDown(p) \/ TypeDown(p) \/ GoTo(p)
  BY <1>1, <1>13 DEF PenDown, TypeDown, GoTo, MarksStay
<1>14. CASE ReleaseUnseen \/ ToggleDrawing \/ Escape \/ \E tool \in Tools : SelectTool(tool)
  BY <1>1, <1>14 DEF ReleaseUnseen, ToggleDrawing, Escape, SelectTool, MarksStay
<1>15. CASE CancelFreeText \/ StartPlacement \/ CancelPlacement \/ CancelClose
  BY <1>1, <1>15 DEF CancelFreeText, StartPlacement, CancelPlacement, CancelClose, MarksStay
<1>16. CASE \/ \E out : Save(out)
            \/ \E job : Write(job) \/ SaveFailed(job)
  BY <1>1, <1>16 DEF Save, Write, SaveFailed, MarksStay
<1>17. CASE \E d \in Docs : Activate(d) \/ RequestClose(d) \/ Opened(d)
  BY <1>1, <1>17 DEF Activate, RequestClose, Opened
<1>. QED BY <1>2, <1>3, <1>4, <1>5, <1>6, <1>7, <1>8, <1>9, <1>10, <1>11, <1>12, <1>13, <1>14,
            <1>15, <1>16, <1>17 DEF Next, Pointer, User, Thread, Pump

-----------------------------------------------------------------------------
(* The overlays *)

MarksIn(m, d) == IF d \in DOMAIN m THEN m[d] ELSE {}

Fits(cache) ==
  /\ IsFiniteSet(DOMAIN cache) /\ Cardinality(DOMAIN cache) <= MaxOverlays
  /\ DOMAIN cache \subseteq Docs \X Pages

\* Every overlay shows the marks m, where the page has any.
Shows(cache, m) == \A k \in DOMAIN cache : Ink(MarksIn(m, k[1]), k[2]) \in {{}, cache[k]}

OverlayIs(ov, m) ==
  /\ ov = [pages |-> ov.pages,
           stroke |-> [doc |-> ov.stroke.doc, page |-> ov.stroke.page, marks |-> ov.stroke.marks]]
  /\ Fits(ov.pages) /\ Shows(ov.pages, m)
  /\ ov.stroke.doc # None =>
       Ink(MarksIn(m, ov.stroke.doc), ov.stroke.page) \subseteq ov.stroke.marks

OverlaysAreGood == OverlayIs(overlays, marks)

LEMMA InsertShows ==
  ASSUME NEW c, NEW m, NEW d \in Docs, NEW p \in Pages, Fits(c), Shows(c, m)
  PROVE  /\ Fits(Insert(c, <<d, p>>, Ink(MarksIn(m, d), p)))
         /\ Shows(Insert(c, <<d, p>>, Ink(MarksIn(m, d), p)), m)
<1> DEFINE key == <<d, p>>
           ink == Ink(MarksIn(m, d), p)
           one == [x \in {key} |-> ink]
           more == With(c, key, ink)
<1>0. MaxOverlays \in Nat \ {0}
  BY DrawingsAssumption DEF DrawingsAssumption
<1>1. key \in Docs \X Pages /\ key[1] = d /\ key[2] = p
  OBVIOUS
<1>2. CASE key \notin DOMAIN c /\ Cardinality(DOMAIN c) >= MaxOverlays
  <2>1. Insert(c, key, ink) = one
    BY <1>2 DEF Insert
  <2>2. DOMAIN one = {key} /\ one[key] = ink
    OBVIOUS
  <2>3. Shows(one, m)
    BY <1>1, <2>2 DEF Shows
  <2>4. Fits(one)
    <3> HIDE DEF one
    <3>1. IsFiniteSet({key}) /\ Cardinality({key}) = 1
      BY FS_Singleton
    <3>. QED BY <1>0, <1>1, <2>2, <3>1 DEF Fits
  <2>. QED BY <2>1, <2>3, <2>4
<1>3. CASE ~ (key \notin DOMAIN c /\ Cardinality(DOMAIN c) >= MaxOverlays)
  <2>1. Insert(c, key, ink) = more
    BY <1>3 DEF Insert
  <2>2. /\ DOMAIN more = DOMAIN c \cup {key}
        /\ \A k \in DOMAIN more : more[k] = IF k = key THEN ink ELSE c[k]
    BY DEF With
  <2> HIDE DEF more
  <2>3. Shows(more, m)
    <3> SUFFICES ASSUME NEW k \in DOMAIN more PROVE Ink(MarksIn(m, k[1]), k[2]) \in {{}, more[k]}
      BY DEF Shows
    <3>1. CASE k = key
      BY <1>1, <2>2, <3>1
    <3>2. CASE k # key
      BY <2>2, <3>2 DEF Shows
    <3>. QED BY <3>1, <3>2
  <2>4. /\ IsFiniteSet(DOMAIN c \cup {key})
        /\ Cardinality(DOMAIN c \cup {key}) <= MaxOverlays
    <3>1. Cardinality(DOMAIN c) \in Nat
      BY FS_CardinalityType DEF Fits
    <3>2. CASE key \in DOMAIN c
      <4>1. DOMAIN c \cup {key} = DOMAIN c
        BY <3>2
      <4>. QED BY <4>1 DEF Fits
    <3>3. CASE key \notin DOMAIN c
      <4>1. IsFiniteSet(DOMAIN c \cup {key})
            /\ Cardinality(DOMAIN c \cup {key}) = Cardinality(DOMAIN c) + 1
        BY <3>3, FS_AddElement DEF Fits
      <4>. QED BY <1>0, <1>3, <3>1, <3>3, <4>1
    <3>. QED BY <3>2, <3>3
  <2>5. Fits(more)
    BY <1>1, <2>2, <2>4 DEF Fits
  <2>. QED BY <2>1, <2>3, <2>5
<1>. QED BY <1>2, <1>3

\* The cache after the pages up to p, for every p, as InSight computes it.
LEMMA InSightShows ==
  ASSUME NEW ov, NEW m, OverlayIs(ov, m), NEW d \in Docs, NEW visible
  PROVE  OverlayIs(InSight(ov, d, MarksIn(m, d), visible), m)
<1> DEFINE ms == MarksIn(m, d)
           marked == {p \in visible \ {page} : Ink(ms, p) # {}}
           Step(c, p) == IF p \in marked /\ <<d, p>> \notin DOMAIN c
                         THEN Insert(c, <<d, p>>, Ink(ms, p)) ELSE c
           Is(f, n) == f = [p \in 0..n |-> IF p = 0 THEN ov.pages ELSE Step(f[p - 1], p)]
           OldIs(f) == f = [p \in 0..PageCount |->
                              IF p = 0 THEN ov.pages
                              ELSE IF p \in marked /\ <<d, p>> \notin DOMAIN f[p - 1]
                              THEN Insert(f[p - 1], <<d, p>>, Ink(ms, p)) ELSE f[p - 1]]
           up == CHOOSE f : OldIs(f)
           Good(c) == Fits(c) /\ Shows(c, m)
<1>0. PageCount \in Nat
  BY DrawingsAssumption DEF DrawingsAssumption
<1>1. InSight(ov, d, ms, visible) = [ov EXCEPT !.pages = up[PageCount]]
  BY DEF InSight
<1>2. \A f : OldIs(f) <=> Is(f, PageCount)
  OBVIOUS
<1>3. ASSUME NEW c, NEW p \in Pages, Good(c)
      PROVE  Good(Step(c, p))
  BY <1>3, InsertShows
<1>4. Good(ov.pages)
  BY DEF OverlayIs
<1> HIDE DEF Step, Good, OldIs
<1>5. \E f : Is(f, PageCount)
  <2> DEFINE T == {n \in Nat : \E f : Is(f, n)}
  <2>1. 0 \in T
    <3> DEFINE f == [p \in 0..0 |-> ov.pages]
    <3>1. f = [p \in 0..0 |-> IF p = 0 THEN ov.pages ELSE Step(f[p - 1], p)]
      OBVIOUS
    <3>. QED BY <3>1
  <2>2. ASSUME NEW n \in Nat, n \in T PROVE n + 1 \in T
    <3>1. PICK f : Is(f, n)
      BY <2>2
    <3> DEFINE g == [p \in 0..(n + 1) |-> IF p \in 0..n THEN f[p] ELSE Step(f[n], p)]
    <3>2. \A p \in 0..n : f[p] = IF p = 0 THEN ov.pages ELSE Step(f[p - 1], p)
      BY <3>1
    <3>3. \A p \in 0..(n + 1) : g[p] = IF p = 0 THEN ov.pages ELSE Step(g[p - 1], p)
      <4>1. \A p \in 0..n : g[p] = f[p] /\ p \in 0..(n + 1)
        OBVIOUS
      <4>2. g[n + 1] = Step(f[n], n + 1) /\ n + 1 # 0 /\ (n + 1) - 1 = n /\ n \in 0..n
        OBVIOUS
      <4>3. \A p \in 0..n : p # 0 => p - 1 \in 0..n
        OBVIOUS
      <4>4. \A p \in 0..(n + 1) : p \in 0..n \/ p = n + 1
        OBVIOUS
      <4> HIDE DEF g
      <4>5. ASSUME NEW p \in 0..n PROVE g[p] = IF p = 0 THEN ov.pages ELSE Step(g[p - 1], p)
        BY <3>2, <4>1, <4>3
      <4>6. g[n + 1] = IF n + 1 = 0 THEN ov.pages ELSE Step(g[(n + 1) - 1], n + 1)
        BY <4>1, <4>2
      <4>. QED BY <4>4, <4>5, <4>6
    <3>4. g = [p \in 0..(n + 1) |-> g[p]]
      OBVIOUS
    <3> HIDE DEF g
    <3>5. Is(g, n + 1)
      BY <3>3, <3>4
    <3>. QED BY <3>5
  <2> HIDE DEF T
  <2>3. PageCount \in T
    BY <1>0, <2>1, <2>2, Induction
  <2>. QED BY <2>3 DEF T
<1>6. Is(up, PageCount)
  <2>1. \E f : OldIs(f)
    BY <1>2, <1>5
  <2> HIDE DEF Is
  <2>2. OldIs(up)
    BY <2>1
  <2>. QED BY <1>2, <2>2
<1> HIDE DEF up
<1>7. \A p \in 0..PageCount : up[p] = IF p = 0 THEN ov.pages ELSE Step(up[p - 1], p)
  BY <1>6
<1>8. Good(up[PageCount])
  <2> DEFINE T == {n \in Nat : n \in 0..PageCount => Good(up[n])}
  <2>1. 0 \in T
    BY <1>0, <1>4, <1>7
  <2>2. ASSUME NEW n \in Nat, n \in T PROVE n + 1 \in T
    <3>1. SUFFICES ASSUME n + 1 \in 0..PageCount PROVE Good(up[n + 1])
      OBVIOUS
    <3>2. n \in 0..PageCount /\ n + 1 \in Pages /\ n + 1 # 0 /\ (n + 1) - 1 = n
      BY <1>0, <3>1 DEF Pages
    <3>3. up[n + 1] = Step(up[n], n + 1)
      BY <1>7, <3>1, <3>2
    <3>. QED BY <1>3, <2>2, <3>2, <3>3
  <2> HIDE DEF T
  <2>3. PageCount \in T
    BY <1>0, <2>1, <2>2, Induction
  <2>. QED BY <1>0, <2>3 DEF T
<1>9. [ov EXCEPT !.pages = up[PageCount]] = [pages |-> up[PageCount], stroke |-> ov.stroke]
  BY DEF OverlayIs
<1>. QED BY <1>1, <1>8, <1>9 DEF OverlayIs, Good

\* A cache that has lost entries still fits.
LEMMA LostFits ==
  ASSUME NEW c, Fits(c), NEW S
  PROVE  Fits(Without(c, S))
<1> DEFINE D == DOMAIN c
           E == D \ S
<1>1. IsFiniteSet(D) /\ E \subseteq D /\ DOMAIN Without(c, S) = E
  BY DEF Fits, Without
<1>2. D \subseteq Docs \X Pages /\ Cardinality(D) <= MaxOverlays
  BY DEF Fits
<1>3. MaxOverlays \in Nat
  BY DrawingsAssumption DEF DrawingsAssumption
<1> HIDE DEF D, E
<1>4. IsFiniteSet(E) /\ Cardinality(E) <= Cardinality(D)
  BY <1>1, FS_Subset
<1>5. Cardinality(E) \in Nat /\ Cardinality(D) \in Nat
  BY <1>1, <1>4, FS_CardinalityType
<1>6. Cardinality(E) <= MaxOverlays
  BY <1>2, <1>3, <1>4, <1>5
<1>. QED BY <1>1, <1>2, <1>4, <1>6 DEF Fits

\* On page q of e there is what there was, or nothing that an overlay shows.
Less(m, m2, e, q) == Ink(MarksIn(m2, e), q) \in {{}, Ink(MarksIn(m, e), q)}

LEMMA LessShows ==
  ASSUME NEW ov, NEW m, NEW m2, OverlayIs(ov, m), \A e, q : Less(m, m2, e, q)
  PROVE  OverlayIs(ov, m2)
<1>1. Shows(ov.pages, m2)
  BY DEF OverlayIs, Shows, Less
<1>2. ov.stroke.doc # None =>
        Ink(MarksIn(m2, ov.stroke.doc), ov.stroke.page) \subseteq ov.stroke.marks
  BY DEF OverlayIs, Less
<1>. QED BY <1>1, <1>2 DEF OverlayIs

\* Two parts of the overlays are replaced at once.
LEMMA StrokeForgotten ==
  ASSUME NEW ov, NEW c,
         ov = [pages |-> ov.pages,
               stroke |-> [doc |-> ov.stroke.doc, page |-> ov.stroke.page, marks |-> ov.stroke.marks]]
  PROVE  [ov EXCEPT !.pages = c, !.stroke.doc = None] =
           [pages |-> c, stroke |-> [doc |-> None, page |-> ov.stroke.page, marks |-> ov.stroke.marks]]
<1>1. [ov.stroke EXCEPT !.doc = None] =
        [doc |-> None, page |-> ov.stroke.page, marks |-> ov.stroke.marks]
  OBVIOUS
<1>2. [ov EXCEPT !.pages = c, !.stroke.doc = None] =
        [pages |-> c, stroke |-> [ov.stroke EXCEPT !.doc = None]]
  <2> DEFINE one == [ov EXCEPT !.pages = c]
  <2>1. one = [pages |-> c, stroke |-> ov.stroke]
    OBVIOUS
  <2>2. [ov EXCEPT !.pages = c, !.stroke.doc = None] = [one EXCEPT !.stroke.doc = None]
    OBVIOUS
  <2> HIDE DEF one
  <2>3. one.stroke = ov.stroke
    BY <2>1
  <2>4. [one EXCEPT !.stroke.doc = None] = [one EXCEPT !.stroke = [one.stroke EXCEPT !.doc = None]]
    OBVIOUS
  <2>5. \A x : [one EXCEPT !.stroke = x] = [pages |-> c, stroke |-> x]
    BY <2>1
  <2>. QED BY <2>2, <2>3, <2>4, <2>5
<1>. QED BY <1>1, <1>2

LEMMA RemoveShows ==
  ASSUME NEW ov, NEW m, NEW m2, OverlayIs(ov, m), NEW d, NEW p,
         \A e, q : <<e, q>> # <<d, p>> => Less(m, m2, e, q)
  PROVE  OverlayIs(RemovePage(ov, d, p), m2)
<1> DEFINE c == Without(ov.pages, {<<d, p>>})
<1>1. RemovePage(ov, d, p) =
        [pages |-> c, stroke |-> [doc |-> None, page |-> ov.stroke.page, marks |-> ov.stroke.marks]]
  BY StrokeForgotten DEF RemovePage, OverlayIs
<1>2. Fits(c) /\ DOMAIN ov.pages \subseteq Docs \X Pages
  BY LostFits DEF OverlayIs, Fits
<1>3. Shows(c, m2)
  <2> SUFFICES ASSUME NEW k \in DOMAIN c PROVE Ink(MarksIn(m2, k[1]), k[2]) \in {{}, c[k]}
    BY DEF Shows
  <2>1. k \in DOMAIN ov.pages /\ k # <<d, p>> /\ c[k] = ov.pages[k]
    BY DEF Without
  <2>2. k = <<k[1], k[2]>>
    BY <1>2, <2>1
  <2>3. Less(m, m2, k[1], k[2])
    BY <2>1, <2>2
  <2>. QED BY <2>1, <2>3 DEF Less, OverlayIs, Shows
<1> HIDE DEF c
<1>. QED BY <1>1, <1>2, <1>3 DEF OverlayIs

LEMMA ClearShows ==
  ASSUME NEW ov, NEW m, NEW m2, OverlayIs(ov, m), NEW d, \A e, q : e # d => Less(m, m2, e, q)
  PROVE  OverlayIs(ClearDocument(ov, d), m2)
<1> DEFINE c == Without(ov.pages, {k \in DOMAIN ov.pages : k[1] = d})
<1>1. ClearDocument(ov, d) =
        [pages |-> c, stroke |-> [doc |-> None, page |-> ov.stroke.page, marks |-> ov.stroke.marks]]
  BY StrokeForgotten DEF ClearDocument, OverlayIs
<1>2. Fits(c)
  BY LostFits DEF OverlayIs
<1>3. Shows(c, m2)
  <2> SUFFICES ASSUME NEW k \in DOMAIN c PROVE Ink(MarksIn(m2, k[1]), k[2]) \in {{}, c[k]}
    BY DEF Shows
  <2>1. k \in DOMAIN ov.pages /\ k[1] # d /\ c[k] = ov.pages[k]
    BY DEF Without
  <2>. QED BY <2>1 DEF Less, OverlayIs, Shows
<1> HIDE DEF c
<1>. QED BY <1>1, <1>2, <1>3 DEF OverlayIs

\* Whatever is drawn again, from the marks there are, the overlays show them.
LEMMA RefreshShows ==
  ASSUME NEW ov, NEW m, OverlayIs(ov, m), NEW d \in Docs, NEW stroke, NEW visible
  PROVE  OverlayIs(Refresh(ov, d, MarksIn(m, d), stroke, visible), m)
<1> DEFINE ms == MarksIn(m, d)
<1>1. OverlayIs(UnderStroke(ov, d, ms, stroke), m)
  <2>1. CASE ov.stroke.doc = d /\ ov.stroke.page = stroke.page
    BY <2>1 DEF UnderStroke
  <2>2. CASE ~ (ov.stroke.doc = d /\ ov.stroke.page = stroke.page)
    <3> DEFINE new == [doc |-> d, page |-> stroke.page, marks |-> Ink(ms, stroke.page)]
    <3>1. UnderStroke(ov, d, ms, stroke) = [pages |-> ov.pages, stroke |-> new]
      BY <2>2 DEF UnderStroke, OverlayIs
    <3>. QED BY <3>1 DEF OverlayIs
  <2>. QED BY <2>1, <2>2
<1>. QED BY <1>1, InSightShows DEF Refresh

LEMMA RefreshedShows ==
  ASSUME NEW ov, NEW d \in Docs, OverlayIs(ov, marks'), NEW ms, ms = MarksIn(marks', d), NEW stroke,
         Refreshed(d, ms, stroke, ov)
  PROVE  OverlaysAreGood'
BY RefreshShows DEF Refreshed, OverlaysAreGood

LEMMA MarksOfIs == \A d : MarksOf(d) = MarksIn(marks, d)
BY DEF MarksOf, MarksIn

\* What each way of changing the marks of d does to those of the others.
LEMMA MarksInChanged ==
  ASSUME NEW d, NEW ms,
         \/ marks' = With(marks, d, ms)
         \/ d \in DOMAIN marks /\ marks' = [marks EXCEPT ![d] = ms]
         \/ ms = {} /\ marks' = Without(marks, {d})
         \/ ms = MarksIn(marks, d) /\ UNCHANGED marks
  PROVE  /\ MarksIn(marks', d) = ms
         /\ \A e : e # d => MarksIn(marks', e) = MarksIn(marks, e)
BY DEF MarksIn, With, Without

LEMMA AddShows ==
  ASSUME OverlaysAreGood, NEW d \in Docs, NEW m, NEW ov, Add(d, m, ov),
         \/ ov = ClearDocument(overlays, d)
         \/ ov = RemovePage(overlays, d, m.page)
         \/ ov = overlays /\ m.kind = "text"
  PROVE  OverlaysAreGood'
<1> DEFINE ms == MarksOf(d) \cup {m}
<1>1. marks' = With(marks, d, ms) /\ Refreshed(d, ms, NoStroke, ov)
  BY DEF Add
<1>2. \A q : m.page # q \/ m.kind = "text" => Ink(ms, q) = Ink(MarksIn(marks, d), q)
  BY MarksOfIs DEF Ink
<1> HIDE DEF ms
<1>3. /\ MarksIn(marks', d) = ms
      /\ \A e : e # d => MarksIn(marks', e) = MarksIn(marks, e)
  BY <1>1, MarksInChanged
<1>4. \A e, q : e # d => Less(marks, marks', e, q)
  BY <1>3 DEF Less
<1>5. \A e, q : <<e, q>> # <<d, m.page>> => Less(marks, marks', e, q)
  BY <1>2, <1>3 DEF Less
<1>6. m.kind = "text" => \A e, q : Less(marks, marks', e, q)
  BY <1>2, <1>3 DEF Less
<1>7. OverlayIs(overlays, marks)
  BY DEF OverlaysAreGood
<1>8. OverlayIs(ov, marks')
  <2>1. CASE ov = ClearDocument(overlays, d)
    BY <1>4, <1>7, <2>1, ClearShows
  <2>2. CASE ov = RemovePage(overlays, d, m.page)
    BY <1>5, <1>7, <2>2, RemoveShows
  <2>3. CASE ov = overlays /\ m.kind = "text"
    BY <1>6, <1>7, <2>3, LessShows
  <2>. QED BY <2>1, <2>2, <2>3
<1>. QED BY <1>1, <1>3, <1>8, RefreshedShows

LEMMA EraseShows ==
  ASSUME OverlaysAreGood, Active \in Docs, NEW p, NEW before, Erase(p, before)
  PROVE  OverlaysAreGood'
<1>1. PICK left \in Erased(MarksOf(Active), p) :
        /\ marks' = IF Active \in DOMAIN marks THEN [marks EXCEPT ![Active] = left] ELSE marks
        /\ IF left = MarksOf(Active) THEN UNCHANGED overlays
           ELSE Refreshed(Active, left, ui.stroke, RemovePage(overlays, Active, p))
  BY DEF Erase
<1>2. \/ Active \in DOMAIN marks /\ marks' = [marks EXCEPT ![Active] = left]
      \/ left = MarksIn(marks, Active) /\ UNCHANGED marks
  <2>1. Active \notin DOMAIN marks => left = {} /\ MarksIn(marks, Active) = {}
    BY DEF Erased, MarksOf, MarksIn
  <2>. QED BY <1>1, <2>1
<1>3. /\ MarksIn(marks', Active) = left
      /\ \A e : e # Active => MarksIn(marks', e) = MarksIn(marks, e)
  BY <1>2, MarksInChanged
<1>4. \A q : q # p => Ink(left, q) = Ink(MarksIn(marks, Active), q)
  BY <1>1, MarksOfIs DEF Erased, Ink
<1>5. OverlayIs(overlays, marks)
  BY DEF OverlaysAreGood
<1>6. CASE left = MarksOf(Active)
  <2>1. \A e, q : Less(marks, marks', e, q)
    BY <1>3, <1>6, MarksOfIs DEF Less
  <2>2. OverlayIs(overlays, marks')
    BY <1>5, <2>1, LessShows
  <2>. QED BY <1>1, <1>6, <2>2 DEF OverlaysAreGood
<1>7. CASE left # MarksOf(Active)
  <2>1. \A e, q : <<e, q>> # <<Active, p>> => Less(marks, marks', e, q)
    BY <1>3, <1>4 DEF Less
  <2>2. OverlayIs(RemovePage(overlays, Active, p), marks')
    BY <1>5, <2>1, RemoveShows
  <2>. QED BY <1>1, <1>3, <1>7, <2>2, RefreshedShows
<1>. QED BY <1>6, <1>7

LEMMA OverlaysStep ==
  ASSUME UiIsGood, TabsAreGood, PenIsGood, OverlaysAreGood, Next
  PROVE  OverlaysAreGood'
<1>0. /\ HasDocument => Active \in Docs
      /\ OverlayIs(overlays, marks) /\ \A d : MarksOf(d) = MarksIn(marks, d)
  BY MarksOfIs DEF HasDocument, TabsAreGood, OverlaysAreGood
<1>1. CASE UNCHANGED <<marks, overlays>>
  BY <1>0, <1>1 DEF OverlaysAreGood
<1>2. CASE EraserMove \/ \E p \in Pages : EraserDown(p)
  BY <1>0, <1>2, EraseShows DEF EraserMove, EraserDown, CanPress
<1>3. ASSUME NEW d \in Docs, NEW stroke, UNCHANGED marks,
             \E visible : overlays' = Refresh(overlays, d, MarksOf(d), stroke, visible)
      PROVE  OverlaysAreGood'
  <2>1. PICK visible : overlays' = Refresh(overlays, d, MarksIn(marks, d), stroke, visible)
    BY <1>0, <1>3
  <2>2. OverlayIs(overlays', marks)
    BY <1>0, <2>1, RefreshShows
  <2>. QED BY <1>3, <2>2 DEF OverlaysAreGood
<1>4. ASSUME NEW p \in Pages, PenDown(p) PROVE OverlaysAreGood'
  <2>1. Active \in Docs /\ UNCHANGED marks
    BY <1>0, <1>4 DEF PenDown, CanPress
  <2>2. \E visible : overlays' = Refresh(overlays, Active, MarksOf(Active), ui'.stroke, visible)
    BY <1>4 DEF PenDown, Refreshed
  <2>. QED BY <1>3, <2>1, <2>2
<1>5. CASE PenUp
  <2> DEFINE m == NewMark(ui.stroke.page, "ink")
  <2>1. Active \in Docs
    BY <1>0, <1>5 DEF PenUp
  <2>2. CASE Add(Active, m, RemovePage(overlays, Active, ui.stroke.page))
    <3>1. m.page = ui.stroke.page
      BY DEF NewMark
    <3> HIDE DEF m
    <3>. QED BY <2>1, <2>2, <3>1, AddShows
  <2>3. CASE Refreshed(Active, MarksOf(Active), NoStroke, overlays) /\ UNCHANGED marks
    BY <1>3, <2>1, <2>3 DEF Refreshed
  <2>. QED BY <1>5, <2>2, <2>3 DEF PenUp
<1>6. CASE AddFreeText
  <2>1. ASSUME HasDocument, Add(Active, NewMark(ui.note, "text"), overlays) PROVE OverlaysAreGood'
    <3> DEFINE m == NewMark(ui.note, "text")
    <3>1. m.kind = "text"
      BY DEF NewMark
    <3> HIDE DEF m
    <3>. QED BY <1>0, <2>1, <3>1, AddShows DEF m
  <2>. QED BY <1>1, <1>6, <2>1 DEF AddFreeText, MarksStay
<1>7. ASSUME NEW p \in Pages, Highlight(p) PROVE OverlaysAreGood'
  BY <1>0, <1>7, AddShows DEF Highlight
<1>8. CASE ApplySignature
  <2> DEFINE m == NewMark(ui.placing, "signature")
  <2>1. m.page = ui.placing
    BY DEF NewMark
  <2>2. Active \in Docs /\ Add(Active, m, RemovePage(overlays, Active, ui.placing))
    BY <1>0, <1>8 DEF ApplySignature
  <2> HIDE DEF m
  <2>. QED BY <2>1, <2>2, AddShows
<1>9. CASE Undo \/ Redo
  <2>1. PICK ms : /\ marks' = With(marks, Active, ms)
                  /\ Refreshed(Active, marks'[Active], ui.stroke, ClearDocument(overlays, Active))
    BY <1>9 DEF Undo, Redo
  <2>2. Active \in Docs
    BY <1>0, <1>9 DEF Undo, Redo
  <2>3. /\ MarksIn(marks', Active) = ms
        /\ \A e : e # Active => MarksIn(marks', e) = MarksIn(marks, e)
    BY <2>1, MarksInChanged
  <2>4. marks'[Active] = ms
    BY <2>1 DEF With
  <2>5. \A e, q : e # Active => Less(marks, marks', e, q)
    BY <2>3 DEF Less
  <2>6. OverlayIs(ClearDocument(overlays, Active), marks')
    BY <1>0, <2>5, ClearShows
  <2>. QED BY <2>1, <2>2, <2>3, <2>4, <2>6, RefreshedShows
<1>10. CASE ClearPage
  <2> DEFINE left == {m \in MarksOf(Active) : m.page # page}
  <2>1. /\ marks' = [marks EXCEPT ![Active] = left]
        /\ Refreshed(Active, left, NoStroke, RemovePage(overlays, Active, page))
        /\ Active \in Docs /\ MarksOf(Active) # {}
    BY <1>0, <1>10 DEF ClearPage
  <2>2. Active \in DOMAIN marks
    BY <2>1 DEF MarksOf
  <2>3. \A q : q # page => Ink(left, q) = Ink(MarksIn(marks, Active), q)
    BY <1>0 DEF Ink
  <2> HIDE DEF left
  <2>4. /\ MarksIn(marks', Active) = left
        /\ \A e : e # Active => MarksIn(marks', e) = MarksIn(marks, e)
    BY <2>1, <2>2, MarksInChanged
  <2>5. \A e, q : <<e, q>> # <<Active, page>> => Less(marks, marks', e, q)
    BY <2>3, <2>4 DEF Less
  <2>6. OverlayIs(RemovePage(overlays, Active, page), marks')
    BY <1>0, <2>5, RemoveShows
  <2>. QED BY <2>1, <2>4, <2>6, RefreshedShows
<1>11. ASSUME NEW d, marks' = Without(marks, {d})
       PROVE  /\ MarksIn(marks', d) = {} /\ \A e : e # d => MarksIn(marks', e) = MarksIn(marks, e)
              /\ \A e, q : Less(marks, marks', e, q)
              /\ OverlayIs(overlays, marks')
  <2>1. MarksIn(marks', d) = {} /\ \A e : e # d => MarksIn(marks', e) = MarksIn(marks, e)
    BY <1>11, MarksInChanged
  <2>2. \A q : Ink({}, q) = {}
    BY DEF Ink
  <2>3. \A e, q : Less(marks, marks', e, q)
    BY <2>1, <2>2 DEF Less
  <2>. QED BY <1>0, <2>1, <2>3, LessShows
<1>12. CASE Discard
  <2>1. OverlayIs(ClearDocument(overlays, Active), marks')
    BY <1>0, <1>11, <1>12, ClearShows DEF Discard
  <2>. QED BY <1>12, <2>1 DEF Discard, OverlaysAreGood
<1>13. CASE ConfirmClose
  BY <1>11, <1>13 DEF ConfirmClose, OverlaysAreGood
<1>14. ASSUME NEW job, Saved(job) PROVE OverlaysAreGood'
  <2> DEFINE ms == IF Active = job.doc THEN {} ELSE MarksOf(Active)
  <2>1. OverlayIs(overlays, marks') /\ MarksIn(marks', Active) = ms
    <3>1. marks' = Without(marks, {job.doc})
      BY <1>14 DEF Saved
    <3>2. /\ MarksIn(marks', job.doc) = {}
          /\ \A e : e # job.doc => MarksIn(marks', e) = MarksIn(marks, e)
          /\ OverlayIs(overlays, marks')
      BY <1>11, <3>1
    <3>. QED BY <1>0, <3>2
  <2>2. HasDocument => Refreshed(Active, ms, NoStroke, overlays)
    BY <1>14 DEF Saved
  <2>3. ~ HasDocument => UNCHANGED overlays
    BY <1>14 DEF Saved
  <2> HIDE DEF ms
  <2>. QED BY <1>0, <2>1, <2>2, <2>3, RefreshedShows DEF OverlaysAreGood
<1>15. ASSUME NEW p \in Pages, GoTo(p) PROVE OverlaysAreGood'
  <2>1. /\ Active \in Docs /\ UNCHANGED marks
        /\ \E visible : overlays' = Refresh(overlays, Active, MarksOf(Active), ui.stroke, visible)
    BY <1>0, <1>15 DEF GoTo
  <2>. QED BY <1>3, <2>1
<1>16. ASSUME NEW d \in Docs, Opened(d) PROVE OverlaysAreGood'
  <2>1. UNCHANGED marks /\ (UNCHANGED overlays \/ Refreshed(d, MarksOf(d), ui.stroke, overlays))
    BY <1>16 DEF Opened
  <2>. QED BY <1>1, <1>3, <2>1 DEF Refreshed
<1>17. ASSUME NEW d \in Docs, Activate(d) PROVE OverlaysAreGood'
  <2>1. /\ UNCHANGED marks
        /\ \/ UNCHANGED overlays
           \/ \E visible : overlays' = Refresh(overlays, d, MarksOf(d), NoStroke, visible)
    BY <1>17 DEF Activate
  <2>. QED BY <1>1, <1>3, <2>1
<1>18. CASE \E p \in Pages : TypeDown(p)
  BY <1>1, <1>18 DEF TypeDown, MarksStay
<1>19. CASE EraserUp \/ ReleaseUnseen \/ ToggleDrawing \/ Escape \/ \E tool \in Tools : SelectTool(tool)
  BY <1>1, <1>19 DEF EraserUp, ReleaseUnseen, ToggleDrawing, Escape, SelectTool, MarksStay
<1>20. CASE CancelFreeText \/ StartPlacement \/ CancelPlacement \/ CancelClose
  BY <1>1, <1>20 DEF CancelFreeText, StartPlacement, CancelPlacement, CancelClose, MarksStay
<1>21. CASE \/ \E out : Save(out)
            \/ \E job : Write(job) \/ SaveFailed(job)
  BY <1>1, <1>21 DEF Save, Write, SaveFailed, MarksStay
<1>22. CASE \E d \in Docs : RequestClose(d)
  BY <1>1, <1>22 DEF RequestClose
<1>. QED BY <1>2, <1>4, <1>5, <1>6, <1>7, <1>8, <1>9, <1>10, <1>12, <1>13, <1>14, <1>15, <1>16,
            <1>17, <1>18, <1>19, <1>20, <1>21, <1>22 DEF Next, Pointer, User, Thread, Pump

OverlaysInv == DrawingsInv /\ PenIsGood /\ TabIsInFront /\ HistoryIsGood /\ OverlaysAreGood

LEMMA OverlaysInit ==
  ASSUME Init
  PROVE  OverlaysInv
<1> USE ConstantsAreGood
<1>0. /\ None \notin Docs /\ MaxStack \in Nat /\ MaxOverlays \in Nat /\ MaxMarks \in Nat
  BY DrawingsAssumption DEF DrawingsAssumption
<1>1. PenIsGood
  BY DEF Init, PenIsGood
<1>2. TabIsInFront
  BY <1>0 DEF Init, TabIsInFront
<1>3. HistoryIsGood
  <2>1. Bounded(NoHistory)
    BY <1>0, EmptySeq DEF Bounded, NoHistory
  <2>2. MarksHaveTypes /\ made \in 0..MaxMarks
    BY <1>0 DEF Init, MarksHaveTypes
  <2>3. DOMAIN history = Docs /\ \A d \in Docs : history[d] = NoHistory
    BY DEF Init
  <2>. QED BY <2>1, <2>2, <2>3 DEF HistoryIsGood
<1>4. OverlaysAreGood
  <2> DEFINE none == [k \in {} |-> {}]
  <2>1. overlays = [pages |-> none, stroke |-> [doc |-> None, page |-> 0, marks |-> {}]]
    BY DEF Init
  <2>2. DOMAIN none = {}
    OBVIOUS
  <2> HIDE DEF none
  <2>3. Fits(none)
    BY <1>0, <2>2, FS_EmptySet DEF Fits
  <2>4. Shows(none, marks)
    BY <2>2 DEF Shows
  <2>. QED BY <2>1, <2>3, <2>4 DEF OverlaysAreGood, OverlayIs
<1>. QED BY <1>1, <1>2, <1>3, <1>4, InitIsGood DEF OverlaysInv

LEMMA OverlaysInvariant == Spec => []OverlaysInv
<1>1. OverlaysInv /\ [Next]_vars => OverlaysInv'
  <2> SUFFICES ASSUME OverlaysInv, [Next]_vars PROVE OverlaysInv'
    OBVIOUS
  <2>1. CASE UNCHANGED vars
    <3>1. DrawingsInv'
      BY <2>1 DEF vars, OverlaysInv, DrawingsInv, UiIsGood, TabsAreGood, StrokeIsGood, MarksAreGood,
                  SavingIsGood, HasDocument, Active
    <3>2. PenIsGood' /\ TabIsInFront'
      BY <2>1 DEF vars, OverlaysInv, PenIsGood, TabIsInFront
    <3>3. HistoryIsGood' /\ OverlaysAreGood'
      BY <2>1 DEF vars, OverlaysInv, HistoryIsGood, MarksHaveTypes, OverlaysAreGood
    <3>. QED BY <3>1, <3>2, <3>3 DEF OverlaysInv
  <2>2. CASE Next
    <3>1. DrawingsInv'
      BY <2>2, UiStep, TabsStep, StrokeStep, MarkedStep, SavingStep DEF OverlaysInv, DrawingsInv
    <3>2. PenIsGood' /\ TabIsInFront'
      BY <2>2, PenStep, FrontStep DEF OverlaysInv, DrawingsInv
    <3>3. HistoryIsGood'
      BY <2>2, HistoryStep DEF OverlaysInv, DrawingsInv
    <3>4. OverlaysAreGood'
      BY <2>2, OverlaysStep DEF OverlaysInv, DrawingsInv
    <3>. QED BY <3>1, <3>2, <3>3, <3>4 DEF OverlaysInv
  <2>. QED BY <2>1, <2>2
<1>. QED BY <1>1, OverlaysInit, PTL DEF Spec

\* A page's cached overlay shows the marks that are on it now, or the page has none
\* left, and the one kept under a stroke hides no mark.
THEOREM OverlaysStayCurrent == Spec => []OverlaysAreCurrent
<1>1. OverlaysInv => OverlaysAreCurrent
  <2> SUFFICES ASSUME OverlaysInv PROVE OverlaysAreCurrent
    OBVIOUS
  <2> USE DEF OverlaysInv, DrawingsInv
  <2>1. OverlayIs(overlays, marks)
    BY DEF OverlaysAreGood
  <2>2. \A d \in DOMAIN marks : d \in Docs /\ marks[d] \subseteq Mark
    BY DEF HistoryIsGood, MarksHaveTypes, MarksAreGood, TabsAreGood
  <2>3. ui.stroke = NoStroke \/ ui.stroke.doc \in Docs
    BY DEF StrokeIsGood, HasDocument, TabsAreGood
  <2>4. DrawingsTypeOK
    <3>1. /\ tabs.ready \subseteq tabs.open /\ tabs.open \cap tabs.closed = {}
          /\ tabs.active = None => tabs.open = {}
      BY DEF TabsAreGood, TabIsInFront
    <3>2. tabs.active \in tabs.open \cup {None}
      BY DEF TabIsInFront
    <3>3. \A d \in Docs : Len(history[d].undo) + Len(history[d].redo) <= MaxStack
      BY DEF HistoryIsGood, Bounded
    <3>4. Cardinality(DOMAIN overlays.pages) <= MaxOverlays
      BY <2>1 DEF OverlayIs, Fits
    <3>. QED BY <2>2, <2>3, <3>1, <3>2, <3>3, <3>4 DEF DrawingsTypeOK
  <2>5. \A k \in DOMAIN overlays.pages : Ink(MarksOf(k[1]), k[2]) \in {{}, overlays.pages[k]}
    BY <2>1, MarksOfIs DEF OverlayIs, Shows
  <2>. QED BY <2>1, <2>4, <2>5, MarksOfIs DEF OverlayIs, OverlaysAreCurrent
<1>. QED BY <1>1, OverlaysInvariant, PTL
=============================================================================

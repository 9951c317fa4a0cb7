------------------------------- MODULE Spooler -------------------------------
(***************************************************************************)
(* One print job and the system's spooler: a printer is chosen, by name or *)
(* in the native dialog, which gives a sink; execute_job of                *)
(* apps/barepdf/src/infrastructure/print_worker.rs writes its pages to it. *)
(* The sinks are those of crates/barepdf-platform-windows (printing.rs,    *)
(* ffi/printing.rs: a GDI device context and global memory handles) and    *)
(* crates/barepdf-platform-linux (printing.rs: image files for lp or lpr). *)
(*                                                                         *)
(* Whatever the code owns it gives up itself, in the order of its drops;   *)
(* `world' is the system's side of it, which knows a call it does not      *)
(* allow.  How many copies the device makes itself is PrintJobs' subject.  *)
(***************************************************************************)
EXTENDS SequencesExt, Integers

CONSTANTS
  None,
  Prints,        \* what is printed: platform, route, pages, copies, options, count
  MaxDialogPage  \* u16::MAX

VARIABLES
  work,  \* the job
  world  \* device context, spool document, memory handles, temporary directory, paper

Init ==
  /\ \E print \in Prints, tools \in SUBSET {"lpstat", "lp", "lpr"} :
       /\ print.platform = "windows" => tools = {}
       /\ work = [print |-> print, tools |-> tools, pages |-> print.pages, at |-> "choose",
                  cancelled |-> FALSE, owns |-> {}, given |-> <<None, None>>,
                  active |-> FALSE, files |-> <<>>, done |-> 0, result |-> "none"]
  /\ world = [dc |-> "none", doc |-> "none", inPage |-> FALSE, sheets |-> <<>>, live |-> {},
              temp |-> FALSE, paper |-> <<>>, misused |-> FALSE]

-----------------------------------------------------------------------------
(* Calls to the system: each is only allowed in some states *)

Call(allowed, after) == IF allowed THEN after ELSE [world EXCEPT !.misused = TRUE]

StartDoc == Call(world.dc = "open" /\ world.doc = "none", [world EXCEPT !.doc = "open"])
StartPage == Call(world.doc = "open" /\ ~world.inPage, [world EXCEPT !.inPage = TRUE])
EndPage(page) == Call(world.inPage,
  [world EXCEPT !.inPage = FALSE, !.sheets = Append(@, page)])
EndDoc == Call(world.doc = "open" /\ ~world.inPage,
  [world EXCEPT !.doc = "ended", !.paper = @ \o world.sheets])

AbortDoc(w) ==
  IF w.dc = "open" /\ w.doc = "open" THEN [w EXCEPT !.doc = "aborted", !.inPage = FALSE]
  ELSE [w EXCEPT !.misused = TRUE]
DeleteDC(w) ==
  IF w.dc = "open" /\ w.doc # "open" THEN [w EXCEPT !.dc = "deleted"]
  ELSE [w EXCEPT !.misused = TRUE]
GlobalFree(w, handle) ==
  IF handle = None THEN w
  ELSE IF handle \in w.live THEN [w EXCEPT !.live = @ \ {handle}] ELSE [w EXCEPT !.misused = TRUE]

-----------------------------------------------------------------------------
(* Owners *)

Windows == work.print.platform = "windows"
Linux == work.print.platform = "linux"

\* PrinterJob::abort, at most once.
Abort(w, active) == IF active THEN AbortDoc(w) ELSE w

\* DialogAllocations, which are dropped at the end of show_print_dialog: the mode
\* and the names of a printer, of which the names are nothing if they are the same.
FreeBoth(w, handles) ==
  GlobalFree(GlobalFree(w, handles[1]), IF handles[2] = handles[1] THEN None ELSE handles[2])

\* All owners are dropped: PrinterJob and then its PrinterDevice, or the sink's
\* TempDir.
Drop(w, active) ==
  LET ended == Abort(w, active)
      left == IF "dc" \in work.owns THEN DeleteDC(ended) ELSE ended
  IN  IF "temp" \in work.owns THEN [left EXCEPT !.temp = FALSE] ELSE left

Ended(result, w, active) ==
  /\ work' = [work EXCEPT !.at = "ended", !.result = result, !.owns = {}, !.active = FALSE]
  /\ world' = Drop(w, active)

End(result) == Ended(result, world, work.active)

-----------------------------------------------------------------------------
(* Choosing a printer *)

\* create_direct_printer_device: without the printer's DEVMODE the device has none
\* of the options; OpenPrinterW and ClosePrinter are a pair in it.
ChooseDirectly ==
  /\ work.at = "choose" /\ Windows /\ work.print.route = "direct"
  /\ \/ End("Failed")
     \/ /\ work' = [work EXCEPT !.at = "begin", !.owns = {"dc"}]
        /\ world' = [world EXCEPT !.dc = "open"]

\* show_print_dialog, when the preview has chosen orientation or duplex: the
\* default printer's memory handles, changed and passed on, so that they are the
\* dialog's.  No default printer is no error.
AskForDefaults ==
  /\ work.at = "choose" /\ Windows /\ work.print.route = "dialog"
  /\ IF ~work.print.options THEN work' = [work EXCEPT !.at = "dialog"] /\ UNCHANGED world
     ELSE \/ End("Failed")
          \/ \E handles \in {<<None, None>>, <<"mode", "names">>, <<"both", "both">>} :
               /\ work' = [work EXCEPT !.at = "dialog", !.given = handles]
               /\ world' = [world EXCEPT !.live = Range(handles) \ {None}]

\* dialog_initial_values
InitialPages ==
  LET maximum == IF work.print.count > MaxDialogPage THEN MaxDialogPage ELSE work.print.count
      clamp(n, low) == IF n < low THEN low ELSE IF n > maximum THEN maximum ELSE n
      from == clamp(Head(work.print.pages), 1)
      to == clamp(Last(work.print.pages), from)
  IN  [from |-> from, to |-> to, numbers |-> from # 1 \/ to # maximum]

\* selection_from_dialog
Selected(chosen) ==
  IF chosen.numbers THEN [i \in 1..(chosen.to - chosen.from + 1) |-> chosen.from + i - 1]
  ELSE [n \in 1..work.print.count |-> n]
IsSelection(chosen) ==
  chosen.numbers => chosen.from \in 1..chosen.to /\ chosen.to <= work.print.count

\* What the user can leave the dialog with, also pages the document does not have.
Leaves == {InitialPages} \cup [from : {0, 2}, to : {1, 2, work.print.count + 1}, numbers : BOOLEAN]

\* PrintDlgW has its handles to itself: it returns them, or frees them and returns
\* others.  It may be cancelled, fail, give no device, or a selection that is none;
\* a device that no sink gets is deleted.
ShowDialog ==
  /\ work.at = "dialog" /\ Windows
  /\ \E handles \in {work.given, <<"mode2", "names2">>, <<"both2", "both2">>} :
       LET freed == FreeBoth([world EXCEPT !.live = Range(handles) \ {None}], handles)
           fails(result) == work' = [work EXCEPT !.at = "ended", !.result = result]
       IN  \/ (fails("Cancelled") \/ fails("Failed")) /\ world' = freed
           \/ \E chosen \in Leaves :
                IF IsSelection(chosen)
                THEN /\ work' = [work EXCEPT !.at = "begin", !.owns = {"dc"}, !.pages = Selected(chosen)]
                     /\ world' = [freed EXCEPT !.dc = "open"]
                ELSE fails("Failed") /\ world' = DeleteDC([freed EXCEPT !.dc = "open"])

IsCupsAvailable == work.tools # {}

\* enumerate_printers_with_runner: lpstat may not be there, fail, or know none.
PrintersCanBeFound == "lpstat" \in work.tools

\* LinuxPrinterSink::direct_with_runner: no name stands for the default printer.
ChooseByCups ==
  /\ work.at = "choose" /\ Linux /\ work.print.route \in {"direct", "anyPrinter"}
  /\ \/ End("Failed")
     \/ /\ IsCupsAvailable /\ (work.print.route = "direct" => PrintersCanBeFound)
        /\ work' = [work EXCEPT !.at = "begin"] /\ UNCHANGED world

\* LinuxPrinterDialog: the default printer or the first; none is no error.
ChooseFirst ==
  /\ work.at = "choose" /\ Linux /\ work.print.route = "dialog"
  /\ \/ End("Failed")
     \/ IsCupsAvailable /\ End("Cancelled")
     \/ /\ PrintersCanBeFound
        /\ work' = [work EXCEPT !.at = "begin"] /\ UNCHANGED world

-----------------------------------------------------------------------------
(* execute_job *)

Total == Len(work.pages) * work.print.copies
NextPage == work.pages[(work.done % Len(work.pages)) + 1]

\* PrinterDevice::start_document
StartDocument ==
  /\ Windows
  /\ work' = [work EXCEPT !.at = "page", !.active = TRUE] /\ world' = StartDoc

\* LinuxPrinterSink::begin
MakeDirectory ==
  /\ Linux /\ IsCupsAvailable
  /\ work' = [work EXCEPT !.at = "page", !.owns = {"temp"}]
  /\ world' = [world EXCEPT !.temp = TRUE]

\* check_cancel, the document opened and the range compared with its pages, then
\* sink.begin: StartDocW, or a temporary directory.
Begin ==
  /\ work.at = "begin"
  /\ \/ End("Failed")
     \/ work.cancelled /\ End("Cancelled")
     \/ /\ ~work.cancelled
        /\ StartDocument \/ MakeDirectory

\* check_cancel, the page rendered, and the beginning of write_page.
BeginPage ==
  /\ work.at = "page" /\ work.done < Total
  /\ \/ End("Failed")
     \/ work.cancelled /\ End("Cancelled")
     \/ /\ ~work.cancelled
        /\ work' = [work EXCEPT !.at = "draw"]
        /\ world' = IF Windows THEN StartPage ELSE world

\* PrinterJob::write_page, drawn and ended; what fails aborts the document at once.
\* Then progress, and check_cancel.
WritePage ==
  /\ work.at = "draw" /\ Windows
  /\ \/ Ended("Failed", Abort(world, work.active), FALSE)
     \/ /\ work' = [work EXCEPT !.at = "page", !.done = @ + 1]
        /\ world' = EndPage(NextPage)

\* LinuxPrinterSink::write_page, an image file.
WriteFile ==
  /\ work.at = "draw" /\ Linux
  /\ \/ End("Failed")
     \/ /\ work' = [work EXCEPT !.at = "page", !.done = @ + 1, !.files = Append(@, NextPage)]
        /\ UNCHANGED world

\* Mutant: the job stays active after EndDoc.
FinishStayingActive ==
  /\ work.at = "page" /\ work.done = Total /\ Windows /\ ~work.cancelled
  /\ Ended("Finished", EndDoc, TRUE)

\* LinuxPrinterSink::finish: lp with all the files, or lpr if there is no lp; then
\* the directory goes.
SubmitFiles ==
  /\ Linux /\ work.tools \cap {"lp", "lpr"} # {} /\ work.files # <<>>
  /\ Ended("Finished", Call(world.temp, [world EXCEPT !.paper = @ \o work.files]), FALSE)

\* check_cancel and sink.finish, which is PrinterJob::finish on Windows.
Finish ==
  /\ work.at = "page" /\ work.done = Total
  /\ \/ work.cancelled /\ End("Cancelled")
     \/ ~work.cancelled /\ End("Failed")
     \/ /\ ~work.cancelled
        /\ (Windows /\ Ended("Finished", EndDoc, FALSE)) \/ SubmitFiles

Cancel ==
  /\ work.at # "ended" /\ ~work.cancelled
  /\ work' = [work EXCEPT !.cancelled = TRUE] /\ UNCHANGED world

Next ==
  \/ ChooseDirectly \/ AskForDefaults \/ ShowDialog \/ ChooseByCups \/ ChooseFirst
  \/ Begin \/ BeginPage \/ WritePage \/ WriteFile \/ Finish \/ Cancel

-----------------------------------------------------------------------------
(* Properties *)

\* No call comes at the wrong time or twice; what is printed is all the pages in
\* their order, once for every copy, and nothing of a job that did not finish; and
\* no device, document, handle or directory outlives the job.
PaperIsAsOrdered ==
  /\ ~world.misused
  /\ world.paper \in {<<>>, FlattenSeq([copy \in 1..work.print.copies |-> work.pages])}
  /\ world.paper # <<>> <=> work.result = "Finished"
  /\ work.at = "ended" =>
       world.dc # "open" /\ world.doc # "open" /\ world.live = {} /\ ~world.temp
=============================================================================

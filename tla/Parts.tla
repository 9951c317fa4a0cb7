------------------------------- MODULE Parts -------------------------------
(***************************************************************************)
(* Parts of BarePDF that look at nothing but their own state, one at a     *)
(* time: the byte-bounded caches, each of one thread, the reading of a     *)
(* document, search and selection in it, the panel of the tools, one job's *)
(* work on files, and one job's work with the spooler.  A behaviour is     *)
(* that of one of them.                                                    *)
(***************************************************************************)
EXTENDS ByteLru, FiniteSets

CONSTANTS
  Docs, Pages, Sizes, Capacity, Budgets,  \* of the caches
  None, Widths, Broken, Zooms, ZoomBudgets, PresentSize, PreviewSize, ThumbSize, Batch, Lookahead,
  LowCap, Readings,                       \* of Reading
  Texts, Queries, Outlines, Finds, MaxIndex,  \* of Find
  PanelFiles, PageCounts, Typed, Orders, Panels, MaxEntries,  \* of ToolPanel
  FileJobs, Contents, BlankPages, Meddling,   \* of FileTools
  Prints, MaxDialogPage                       \* of Spooler

ASSUME CachesAssumption ==
  Sizes \subseteq Nat \ {0} /\ Budgets \subseteq Nat /\ Capacity \in Nat \ {0}

ASSUME ReadingAssumption ==
  /\ Widths \in Seq(Nat \ {0}) /\ Widths[1] = 1 /\ None \notin Docs
  /\ 1 \in Zooms /\ Zooms \subseteq Nat \ {0} /\ ZoomBudgets \in [Zooms -> Nat]
  /\ {PresentSize, PreviewSize, ThumbSize, Batch, LowCap} \subseteq Nat \ {0}
  /\ Lookahead \in Nat
  /\ \A r \in Readings : r.pages \in DOMAIN Widths /\ r.acts \in Nat

\* None is no entry of a list of files.
ASSUME PanelAssumption == None \notin [file : PanelFiles, name : Nat]

\* What a file or directory can be (see FileTools).
FilePage == [of : STRING, v : Nat, n : Nat, how : {"plain", "rotate", "crop"}]
FileContent == [kind : {"pages", "locked", "broken", "theirs"}, parts : Seq(Seq(FilePage))]

\* A PDF file has pages, which their numbers tell apart; one without any is refused
\* like a broken one.  Only merge has several sources; crop and reorder name pages,
\* the others ranges of them.
ASSUME FilesAssumption ==
  /\ DOMAIN Contents \cap {"staged", "written"} = {}
  /\ None \notin FileContent
  /\ \A name \in DOMAIN Contents : \A content \in Contents[name] :
       /\ content \in FileContent
       /\ content.kind = "pages" =>
            /\ Len(content.parts) = 1 /\ content.parts[1] # <<>>
            /\ \A n \in DOMAIN content.parts[1] : content.parts[1][n].n = n
  /\ \A job \in FileJobs :
       /\ job.op \in {"merge", "extract", "split", "delete", "rotate", "reorder", "crop", "text", "images"}
       /\ job.sources \in Seq(DOMAIN Contents) \ {<<>>} /\ (job.op = "merge" \/ Len(job.sources) = 1)
       /\ job.output \in DOMAIN Contents \cup {"output"} /\ job.range \in Seq(Nat \X Nat)
       /\ job.op \in {"crop", "reorder"} =>
            \A i \in DOMAIN job.range : job.range[i][1] = job.range[i][2] /\ job.range[i][1] # 0

ASSUME SpoolerAssumption ==
  /\ MaxDialogPage \in Nat \ {0}
  /\ \A print \in Prints :
       /\ print.platform \in {"windows", "linux"}
       /\ print.pages \in Seq(Nat) \ {<<>>} /\ {print.copies, print.count} \subseteq Nat \ {0}

VARIABLES
  owner,   \* which of the parts this is
  cache,   \* an LRU map and its byte counter
  budget,  \* its byte budget
  ui, lanes, worker, events,  \* of Reading
  work, world                 \* of Find, ToolPanel, FileTools and Spooler

caching == <<cache, budget>>
reading == <<ui, lanes, worker, events>>
working == <<work, world>>
vars == <<owner, caching, reading, working>>

Bitmaps == INSTANCE BitmapCache
Images == INSTANCE UiImageCache
Geometry == INSTANCE TextGeometryCache
Reader == INSTANCE Reading
Finder == INSTANCE Find
Panel == INSTANCE ToolPanel
Files == INSTANCE FileTools
Printer == INSTANCE Spooler

Init ==
  \/ /\ \/ owner = "bitmaps" /\ Bitmaps!Init
        \/ owner = "images" /\ Images!Init
        \/ owner = "geometry" /\ Geometry!Init
     /\ ui = None /\ lanes = None /\ worker = None /\ events = None
     /\ work = None /\ world = None
  \/ owner = "reading" /\ Reader!Init /\ work = None /\ world = None
  \/ /\ \/ owner = "find" /\ Finder!Init
        \/ owner = "panel" /\ Panel!Init
        \/ owner = "files" /\ Files!Init
        \/ owner = "spooler" /\ Printer!Init
     /\ cache = EmptyCache /\ budget = 0
     /\ ui = None /\ lanes = None /\ worker = None /\ events = None

Next ==
  /\ UNCHANGED owner
  /\ \/ /\ \/ owner = "bitmaps" /\ Bitmaps!Next
           \/ owner = "images" /\ Images!Next
           \/ owner = "geometry" /\ Geometry!Next
        /\ UNCHANGED <<reading, working>>
     \/ owner = "reading" /\ Reader!Next /\ UNCHANGED working
     \/ /\ \/ owner = "find" /\ Finder!Next
           \/ owner = "panel" /\ Panel!Next
           \/ owner = "files" /\ Files!Next
           \/ owner = "spooler" /\ Printer!Next
        /\ UNCHANGED <<caching, reading>>

Spec == Init /\ [][Next]_vars

Keys == [doc : Docs, page : Pages]
IsCache == owner \in {"bitmaps", "images", "geometry"}

Inserts(key, size) ==
  \/ owner = "bitmaps" /\ Bitmaps!Insert(key, size)
  \/ owner = "images" /\ Images!Insert(key, size)
  \/ owner = "geometry" /\ Geometry!Insert(key, size)

-----------------------------------------------------------------------------
(* Properties *)

\* Each key is there once, and a map holds no more than it can.
CacheTypeOK ==
  /\ cache.entries \in Seq([key : Keys, bytes : Sizes]) /\ cache.bytes \in Nat
  /\ Cardinality(KeysOf(cache.entries)) = Len(cache.entries)
  /\ Len(cache.entries) <= Capacity

\* Whatever path an entry left by (replaced, pushed out, evicted for room, closed
\* with its document), the counter is the sum of what is in the cache: one that
\* ran ahead would shrink the cache for good.  The image cache only promises not
\* to count too little.
BytesAreCounted ==
  IF owner = "images" THEN Total(cache.entries) <= cache.bytes
  ELSE cache.bytes = Total(cache.entries)

\* What is cached is within the budget, also right after the budget shrank and
\* where the counter is wrong; and the counter is not wrong.
CacheFitsItsBudget ==
  IsCache => Total(cache.entries) <= budget /\ CacheTypeOK /\ BytesAreCounted

\* What was just inserted is there to be used, and takes the room of no more than
\* the least recently used others it needs it of; what it replaces takes none.
\* For the image cache only as long as the map is not full and the counter right.
InsertKeepsTheNewest ==
  [][IsCache => \A key \in Keys, size \in Sizes :
       LET others == Without(cache.entries, {key})
       IN  /\ Inserts(key, size) /\ size <= budget
           /\ owner = "images" =>
                Len(others) < Capacity /\ cache.bytes = Total(cache.entries)
           => cache'.entries = <<[key |-> key, bytes |-> size]>>
                                 \o Newest(others, Capacity - 1, budget - size)]_vars

\* The page images fit a budget that follows the zoom of the document in front.
ImagesFitTheZoom == Total(cache.entries) <= budget

\* Once all that was asked of the worker is answered, what is in sight is drawn at
\* its size and rotation, or marked as failed, and can be selected.
\* The images fit their budget all the while.
ViewIsSharp == owner = "reading" => Reader!ViewIsSharp /\ ImagesFitTheZoom

\* By then the sidebar has all it shows, too, and the print dialog the page it is on.
SidebarAndPreviewAreComplete ==
  owner = "reading" => Reader!SidebarIsComplete /\ Reader!PreviewShowsItsPage

\* Matches are all there are where was searched, the clipboard gets what is marked,
\* and the sidebar leads where it says.
FindIsRight == owner = "find" => Finder!FindIsRight

\* The panel marks, lists and asks for what the user chose in it.
PanelIsRight == owner = "panel" => Panel!PanelIsRight

\* A job on files leaves its whole output or nothing, whoever else is at work.
OutputIsAllOrNothing == owner = "files" => Files!OutputIsAllOrNothing

\* The printer gets the pages asked for and the system back what it gave.
PaperIsAsOrdered == owner = "spooler" => Printer!PaperIsAsOrdered

\* A render that was for the print dialog is not taken for a page of the window
\* (callbacks/tests.rs: a closed preview rejects an in-flight render).
PreviewStaysInDialog == owner = "reading" => Reader!PreviewStaysInDialog
=============================================================================

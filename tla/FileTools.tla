------------------------------ MODULE FileTools ------------------------------
(***************************************************************************)
(* What one job of the tool worker does to the files on disk: the request  *)
(* as apps/barepdf/src/infrastructure/tool_worker.rs carries it out, with  *)
(* the operations of crates/barepdf-pdf (operations.rs, conversion.rs) and *)
(* the page ranges of crates/barepdf-core.  Meanwhile the user can cancel, *)
(* another program can write or create files, any step can fail, and the   *)
(* process can be killed.                                                  *)
(*                                                                         *)
(* A file or directory is a sequence of parts, each a sequence of pages; a *)
(* PDF file has one part.                                                  *)
(***************************************************************************)
EXTENDS SequencesExt, Integers

CONSTANTS
  None,
  FileJobs,    \* the requests
  Contents,    \* what the sources can be, by their names
  BlankPages,  \* numbers of pages without text
  Meddling     \* how often another program touches a file

VARIABLES
  work,   \* the request that runs
  world   \* the disk

Temps == {"staged", "written"}                    \* hidden files of the job
Directories == <<"pages", "pages_2">>             \* base_name_pages, base_name_pages_2, ...
Names == DOMAIN Contents \cup Temps \cup {"output"} \cup Range(Directories)
Parts(parts) == [kind |-> "pages", parts |-> parts]
Theirs == [kind |-> "theirs", parts |-> <<>>]

Init ==
  /\ \E job \in FileJobs :
       work = [job |-> job, at |-> "begin", cancelled |-> FALSE, left |-> job.sources,
               pages |-> <<>>, read |-> <<>>, todo |-> <<>>, name |-> job.output, result |-> "none"]
  /\ \E found \in [Range(work.job.sources) -> UNION Range(Contents)] :
       /\ \A source \in DOMAIN found : found[source] \in Contents[source]
       /\ LET files == [name \in Names |-> IF name \in DOMAIN found THEN found[name] ELSE None]
          IN  world = [files |-> files, theirs |-> files, meddled |-> 0,
                       had |-> [source \in DOMAIN found |-> {found[source]}]]

-----------------------------------------------------------------------------
(* The selection of pages *)

Op == work.job.op
Makes(ops) == Op \in ops
MakesDirectory == Makes({"split", "text", "images"})
Converts == Makes({"text", "images"})

Within(numbers, count) == \A i \in DOMAIN numbers : numbers[i] <= count
Apart(numbers) == \A i, j \in DOMAIN numbers : numbers[i] = numbers[j] => i = j

\* parse_pages_or_all takes nothing for all of the pages.
MeansAll == Makes({"rotate", "text", "images"}) /\ work.job.range = <<>>

\* The numbers up to count that are among these, in order.
Ascending(numbers, count) ==
  FlattenSeq([n \in 1..count |-> IF n \in numbers THEN <<n>> ELSE <<>>])

\* PageRangeSelection::parse, segments (first, last): sorted, each page once.
Parses(range, count) ==
  range # <<>> /\ \A i \in DOMAIN range : range[i][1] \in 1..range[i][2] /\ range[i][2] <= count
Parse(range, count) == Ascending(UNION {range[i][1]..range[i][2] : i \in DOMAIN range}, count)

Understood(count) ==
  MeansAll \/ Makes({"merge", "split", "crop", "reorder"}) \/ Parses(work.job.range, count)

Selection(count) ==
  IF MeansAll THEN [n \in 1..count |-> n]
  ELSE IF Makes({"merge", "split", "crop", "reorder"})
  THEN [i \in DOMAIN work.job.range |-> work.job.range[i][1]]
  ELSE Parse(work.job.range, count)

\* validate_page_selection
ValidSelection(pages, count) == pages # <<>> /\ Within(pages, count)

\* pages_to_remove_to_retained_pages
Retained(pages, count) == Ascending({n \in 1..count : ~Contains(pages, n)}, count)

\* What each operation checks before it builds anything.
Valid(pages, count) ==
  /\ Within(pages, count)
  /\ Makes({"extract", "text", "images", "reorder"}) => ValidSelection(pages, count)
  /\ Makes({"reorder", "text", "images"}) => Apart(pages)
  /\ Makes({"reorder"}) => Len(pages) = count
  /\ Makes({"delete"}) => Retained(pages, count) # <<>>

\* The new documents, by the functions of operations.rs and conversion.rs.
Chosen(content, pages) == [i \in DOMAIN pages |-> content[pages[i]]]
Treated(content, pages, how) ==
  [n \in DOMAIN content |-> IF Contains(pages, n) THEN [content[n] EXCEPT !.how = how] ELSE content[n]]

Merged(contents) == <<FlattenSeq(contents)>>
Extracted(content, pages) == <<Chosen(content, pages)>>
SplitUp(content) == [n \in DOMAIN content |-> <<content[n]>>]
Shortened(content, pages) == <<Chosen(content, Retained(pages, Len(content)))>>
Rotated(content, pages) == <<Treated(content, pages, "rotate")>>
Reordered(content, order) == <<Chosen(content, order)>>
Cropped(content, pages) == <<Treated(content, pages, "crop")>>
Texted(content, pages) == <<Chosen(content, pages)>>
Imaged(content, pages) == [i \in DOMAIN pages |-> <<content[pages[i]]>>]

Build(read, pages) ==
  LET content == Last(read)
  IN  CASE Op = "merge" -> Merged(read)
        [] Op = "extract" -> Extracted(content, pages)
        [] Op = "split" -> SplitUp(content)
        [] Op = "delete" -> Shortened(content, pages)
        [] Op = "rotate" -> Rotated(content, pages)
        [] Op = "reorder" -> Reordered(content, pages)
        [] Op = "crop" -> Cropped(content, pages)
        [] Op = "text" -> Texted(content, pages)
        [] Op = "images" -> Imaged(content, pages)

-----------------------------------------------------------------------------
(* The job *)

Files == world.files
IsPdf(name) == Files[name] # None /\ Files[name].kind = "pages"
Put(name, content) == [world EXCEPT !.files[name] = content]
Move(from, to) == [world EXCEPT !.files[from] = None, !.files[to] = Files[from]]

\* What was staged is dropped on every way out.
End(result) ==
  /\ work' = [work EXCEPT !.at = "ended", !.result = result]
  /\ world' = [world EXCEPT !.files = [name \in Names |-> IF name \in Temps THEN None ELSE @[name]]]

Refuse(name) ==
  End(IF Files[name] # None /\ Files[name].kind = "locked" THEN "PasswordRequired" ELSE "Failed")

\* execute_request
Begin ==
  /\ work.at = "begin"
  /\ IF work.cancelled THEN End("Cancelled")
     ELSE work' = [work EXCEPT !.at = "preflight"] /\ UNCHANGED world

\* preflight of the next source, and after the last one what its pages are; only
\* merge looks at the token here.
Preflight ==
  LET source == Head(work.left)
      count == Len(Files[source].parts[1])
  IN  /\ work.at = "preflight"
      /\ \/ End("Failed")
         \/ ~IsPdf(source) /\ Refuse(source)
         \/ IsPdf(source) /\ Op = "merge" /\ work.cancelled /\ End("Cancelled")
         \/ /\ IsPdf(source) /\ ~(Op = "merge" /\ work.cancelled)
            /\ IF Len(work.left) > 1
               THEN work' = [work EXCEPT !.left = Tail(@)] /\ UNCHANGED world
               ELSE /\ Understood(count)
                    /\ work' = [work EXCEPT !.at = IF Converts THEN "load" ELSE "stage",
                                            !.left = work.job.sources, !.pages = Selection(count)]
                    /\ UNCHANGED world

\* NamedTempFile::new_in, tempdir_in and StagingDirectory::create
Stage ==
  /\ work.at = "stage"
  /\ \/ End("Failed")
     \/ /\ work' = [work EXCEPT !.at = IF Converts THEN "convert" ELSE "load"]
        /\ world' = Put("staged", Parts(<<>>))

\* The operation opens its sources again, one after the other; they may have
\* changed since, so the pages are checked again, and the new documents built.
\* (merge_files attributes whichever password is missing to the first input.)
Load ==
  LET source == Head(work.left)
      read == Append(work.read, Files[source].parts[1])
      last == Len(work.left) = 1
  IN  /\ work.at = "load"
      /\ \/ End("Failed")
         \/ Converts /\ work.cancelled /\ End("Cancelled")
         \/ ~IsPdf(source) /\ Refuse(source)
         \/ /\ IsPdf(source) /\ ~(Converts /\ work.cancelled)
            /\ last => Valid(work.pages, Len(Last(read)))
            /\ work' = [work EXCEPT
                 !.left = Tail(@), !.read = read,
                 !.at = IF ~last THEN @ ELSE IF Converts THEN "stage" ELSE "create",
                 !.todo = IF last THEN Build(read, work.pages) ELSE @]
            /\ UNCHANGED world

\* atomic_write_file of the next part: a new file, which is filled and flushed and
\* then takes the place of the staged one.
Create ==
  /\ work.at = "create"
  /\ \/ End("Failed")
     \/ work' = [work EXCEPT !.at = "fill"] /\ world' = Put("written", Parts(<<>>))

Fill ==
  /\ work.at = "fill"
  /\ \/ End("Failed")
     \/ /\ work' = [work EXCEPT !.at = "rename"]
        /\ world' = Put("written", Parts(<<Head(work.todo)>>))

Rename ==
  /\ work.at = "rename"
  /\ \/ End("Failed")
     \/ /\ work' = [work EXCEPT !.todo = Tail(@), !.at = IF Len(work.todo) > 1 THEN "create" ELSE "check"]
        /\ world' = [Put("staged", Parts(Append(Files["staged"].parts, Files["written"].parts[1])))
                       EXCEPT !.files["written"] = None]

\* convert_text and convert_images, one file; text only if some page has any.
Convert ==
  /\ work.at = "convert"
  /\ \/ End("Failed")
     \/ work.cancelled /\ End("Cancelled")
     \/ /\ ~work.cancelled /\ (Op = "text" => ~(Range(work.pages) \subseteq BlankPages))
        /\ work' = [work EXCEPT !.todo = Tail(@), !.at = IF Len(work.todo) > 1 THEN @ ELSE "check"]
        /\ world' = Put("staged", Parts(Append(Files["staged"].parts, Head(work.todo))))

\* check_cancel
Check ==
  /\ work.at = "check"
  /\ IF work.cancelled THEN End("Cancelled")
     ELSE /\ work' = [work EXCEPT !.at = IF MakesDirectory THEN "name" ELSE "persist"]
          /\ UNCHANGED world

\* Mutant: an existing file is replaced.
PersistOver ==
  /\ work.at = "persist"
  /\ work' = [work EXCEPT !.at = "placed"] /\ world' = Move("staged", work.name)

\* persist_file, which never overwrites.
Persist ==
  /\ work.at = "persist"
  /\ \/ End("Failed")
     \/ /\ Files[work.name] = None
        /\ work' = [work EXCEPT !.at = "placed"] /\ world' = Move("staged", work.name)

\* unique_output_directory and StagingDirectory::publish: the first name that is free.
Name ==
  LET free == {i \in DOMAIN Directories : Files[Directories[i]] = None}
  IN  /\ work.at = "name"
      /\ IF free = {} THEN End("Failed")
         ELSE work' = [work EXCEPT !.at = "move", !.name = Directories[Min(free)]] /\ UNCHANGED world

\* The rename of the staged directory, which fails if somebody was faster; a
\* conversion can go on to the next name then.
Publish ==
  /\ work.at = "move"
  /\ \/ End("Failed")
     \/ /\ Files[work.name] = None
        /\ work' = [work EXCEPT !.at = "placed"] /\ world' = Move("staged", work.name)
     \/ /\ Files[work.name] # None /\ Converts
        /\ work' = [work EXCEPT !.at = "name"] /\ UNCHANGED world

\* execute_request, after the work: cancelled now, the output stays in place.
Done ==
  /\ work.at = "placed"
  /\ End(IF work.cancelled THEN "Cancelled" ELSE "Completed")

-----------------------------------------------------------------------------
(* Everybody else *)

Runs == work.at \notin {"ended", "killed"}

Cancel ==
  /\ Runs /\ ~work.cancelled
  /\ work' = [work EXCEPT !.cancelled = TRUE] /\ UNCHANGED world

\* The process ends in the middle.
Kill == Runs /\ work' = [work EXCEPT !.at = "killed"] /\ UNCHANGED world

\* The output of the job.
Mine == {name \in Names \ Temps : Files[name] # None /\ world.theirs[name] = None}

\* Another program writes a source, removes it, or takes a name.  (What it does to
\* the output is its affair.)
Meddle(name, content) ==
  /\ Runs /\ world.meddled < Meddling /\ name \notin Mine
  /\ world' = [world EXCEPT !.meddled = @ + 1, !.files[name] = content, !.theirs[name] = content,
       !.had = [s \in DOMAIN @ |-> IF s = name THEN @[s] \cup {content} ELSE @[s]]]
  /\ UNCHANGED work

Next ==
  \/ Begin \/ Preflight \/ Stage \/ Load \/ Create \/ Fill \/ Rename \/ Convert \/ Check
  \/ Persist \/ Name \/ Publish \/ Done
  \/ Cancel \/ Kill
  \/ \E source \in DOMAIN world.had : \E content \in Contents[source] \cup {None} :
       content # Files[source] /\ Meddle(source, content)
  \/ \E name \in {"output"} \cup Range(Directories) : Files[name] = None /\ Meddle(name, Theirs)

-----------------------------------------------------------------------------
(* Properties *)

\* The pages the request means in a document that has so many.
Meant(count) ==
  IF MeansAll THEN 1..count
  ELSE UNION {work.job.range[i][1]..work.job.range[i][2] : i \in DOMAIN work.job.range}

\* These are those pages of the document, each once, in the document's order.
AreThe(pages, content, numbers) ==
  /\ numbers \subseteq DOMAIN content
  /\ Range(pages) = {content[n] : n \in numbers}
  /\ \A i, j \in DOMAIN pages : i < j => pages[i].n < pages[j].n

\* What the request is for, of sources with these pages, counted then.
IsResult(parts, contents, count) ==
  LET content == Last(contents)
      meant == Meant(count)
  IN  CASE Op = "merge" -> parts = <<FlattenSeq(contents)>>
        [] Op = "extract" -> Len(parts) = 1 /\ AreThe(parts[1], content, meant)
        [] Op = "delete" -> Len(parts) = 1 /\ AreThe(parts[1], content, DOMAIN content \ meant)
        [] Op \in {"rotate", "crop"} ->
             parts = <<[n \in DOMAIN content |->
                          [content[n] EXCEPT !.how = IF n \in meant THEN Op ELSE @]]>>
        [] Op = "reorder" ->
             /\ Len(parts) = 1 /\ Len(parts[1]) = Len(content) /\ Range(parts[1]) = Range(content)
             /\ \A i \in DOMAIN content : parts[1][i].n = work.job.range[i][1]
        [] Op = "split" -> parts = [n \in DOMAIN content |-> <<content[n]>>]
        [] Op = "text" -> Len(parts) = 1 /\ AreThe(parts[1], content, meant)
        [] Op = "images" -> /\ \A i \in DOMAIN parts : Len(parts[i]) = 1
                            /\ AreThe(FlattenSeq(parts), content, meant)

PdfsHad(source) == {c.parts[1] : c \in {c \in world.had[source] \ {None} : c.kind = "pages"}}

\* Whenever the job ends or is killed, whatever else happens on the disk: files of
\* others are as they left them; the job's output is not there or whole, made of
\* contents its sources had since it began (the pages meant counted in one of
\* them), and there if the job says so; and unless killed it leaves nothing else.
OutputIsAllOrNothing ==
  /\ \A name \in Names : world.theirs[name] # None => Files[name] = world.theirs[name]
  /\ \A name \in Mine :
       /\ name \in IF MakesDirectory THEN Range(Directories) ELSE {work.job.output}
       /\ \E contents \in [DOMAIN work.job.sources -> UNION {PdfsHad(s) : s \in DOMAIN world.had}],
             counted \in PdfsHad(Last(work.job.sources)) :
            /\ \A i \in DOMAIN contents : contents[i] \in PdfsHad(work.job.sources[i])
            /\ IsResult(Files[name].parts, contents, Len(counted))
  /\ work.at = "ended" =>
       /\ \A name \in Temps : Files[name] = None
       /\ work.result = "Completed" => \E name \in Names : Mine = {name}
       /\ work.result \in {"Failed", "PasswordRequired"} => Mine = {}
=============================================================================

------------------------------- MODULE MCParts -------------------------------
(* Small documents, sessions and jobs for Parts. *)
EXTENDS Parts, TLC

\* The second page is twice as wide as the first: where it is, and how large, is
\* only known once its dimensions have been read.
SmallWidths == <<1, 2, 1>>

\* All the pages of a document have room at a zoom of one, two at a zoom of three.
SmallBudgets == (1 :> 400) @@ (3 :> 1000)

Does(doing, pages, acts) == [doing |-> doing, pages |-> pages, acts |-> acts]

SmallReadings ==
  {Does({"navigate", "scroll"}, 3, 1), Does({"navigate", "scroll"}, 2, 2),
   Does({"zoom", "rotate"}, 2, 2), Does({"mode", "failure"}, 2, 2), Does({"invert"}, 2, 1),
   Does({"present"}, 2, 2), Does({"sidebar"}, 2, 2), Does({"tabs"}, 2, 2),
   Does({"preview"}, 2, 2)}

-----------------------------------------------------------------------------
(* Find *)

SmallTexts ==
  ("d1" :> <<<<"a", "A", "a", " ", "I">>, <<"i", "'", "nl", "a">>>>) @@ ("d2" :> <<<<"a", "dotted I">>>>)

SmallQueries ==
  [text : {<<"a", "a">>, <<"i">>, <<"a">>}, case : BOOLEAN, whole : BOOLEAN]
    \cup {[text |-> <<>>, case |-> FALSE, whole |-> FALSE]}

SmallOutlines ==
  ("d1" :> <<[path |-> <<1>>, page |-> 1], [path |-> <<1, 1>>, page |-> 2],
             [path |-> <<1, 1, 1>>, page |-> None], [path |-> <<2>>, page |-> 2]>>)
  @@ ("d2" :> <<>>)

SmallFinds ==
  {[doing |-> "search", acts |-> 3], [doing |-> "select", acts |-> 4], [doing |-> "sidebar", acts |-> 4]}

-----------------------------------------------------------------------------
(* ToolPanel *)

SmallCounts == "one" :> 3 @@ "two" :> 1
SmallTyped == {<< <<2, 3>> >>, << <<1, 9>> >>, << <<0, 0>> >>}
SmallOrders == {<<3, 1, 2>>, <<1>>}
SmallPanels ==
  {[doing |-> {"files"}, acts |-> 7], [doing |-> {"pages"}, acts |-> 6],
   [doing |-> {"requests"}, acts |-> 7]}

-----------------------------------------------------------------------------
(* FileTools *)

Document(of, version, count) ==
  [kind |-> "pages",
   parts |-> <<[n \in 1..count |-> [of |-> of, v |-> version, n |-> n, how |-> "plain"]]>>]
LockedFile == [kind |-> "locked", parts |-> <<>>]
BrokenFile == [kind |-> "broken", parts |-> <<>>]

SmallContents ==
  ("a" :> {Document("a", 1, 3), Document("a", 2, 2), LockedFile})
  @@ ("b" :> {Document("b", 1, 1), BrokenFile})

Job(op, sources, output, range) == [op |-> op, sources |-> sources, output |-> output, range |-> range]

SmallJobs ==
  {Job("merge", <<"a", "b">>, "output", <<>>),
   Job("extract", <<"a">>, "output", << <<3, 3>>, <<1, 2>>, <<2, 2>> >>),
   Job("extract", <<"a">>, "a", << <<2, 2>> >>),
   Job("delete", <<"a">>, "output", << <<2, 3>> >>), Job("rotate", <<"a">>, "output", << <<1, 1>> >>),
   Job("rotate", <<"a">>, "output", <<>>), Job("crop", <<"a">>, "output", << <<2, 2>> >>),
   Job("reorder", <<"a">>, "output", << <<2, 2>>, <<1, 1>> >>), Job("split", <<"a">>, "output", <<>>),
   Job("text", <<"a">>, "output", << <<1, 2>> >>), Job("images", <<"a">>, "output", <<>>)}

-----------------------------------------------------------------------------
(* Spooler *)

SmallPrints ==
  [platform : {"windows"}, route : {"direct", "dialog"}, pages : {<<1>>, <<1, 3>>, <<2, 3>>},
   copies : {1, 2}, options : BOOLEAN, count : {3, 5}]
    \cup [platform : {"linux"}, route : {"direct", "dialog", "anyPrinter"}, pages : {<<1>>, <<1, 3>>},
          copies : {1, 2}, options : {FALSE}, count : {3}]

-----------------------------------------------------------------------------

Previews == {Does({"preview"}, 2, 2)}

DocSymmetry == Permutations(Docs)
=============================================================================

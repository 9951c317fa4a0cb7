------------------------------ MODULE MCViewer ------------------------------
(* Small files and sessions for Viewer. *)
EXTENDS Viewer

\* Files that are never rewritten; only removed and brought back.
SteadyFiles == [a |-> <<1>>, b |-> <<2>>]
ThreeFiles == [a |-> <<1>>, b |-> <<1>>, c |-> <<1>>]
TwoShortFiles == [a |-> <<1>>, b |-> <<1>>]

\* One file, rewritten with more pages than are allowed.
OneFile == [a |-> <<2, 3>>]

NoSession == {<<>>}
AnySession == {<<>>, <<"b">>, <<"a", "b">>}
=============================================================================

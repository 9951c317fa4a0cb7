-------------------------- MODULE AnsweredRequests --------------------------
(***************************************************************************)
(* What the render pipeline promises its client about OpenDocument: every  *)
(* request it accepts is answered once, in the order of the requests,      *)
(* until the service ends; then the answers already on their way are still *)
(* delivered and the requests behind them are lost together.               *)
(***************************************************************************)
EXTENDS Naturals, Sequences

CONSTANT Clients  \* who a request is for (a document id)

VARIABLES
  asked,  \* accepted and not yet answered, oldest first
  ended   \* the service takes no more requests

vars == <<asked, ended>>

Init == asked = <<>> /\ ended = FALSE

Ask(c) == ~ ended /\ asked' = Append(asked, c) /\ UNCHANGED ended

Answer == asked # <<>> /\ asked' = Tail(asked) /\ UNCHANGED ended

\* The service keeps only what it has already answered.
End ==
  /\ ~ ended /\ ended' = TRUE
  /\ \E kept \in 0..Len(asked) : asked' = SubSeq(asked, 1, kept)

Next == (\E c \in Clients : Ask(c)) \/ Answer \/ End

Spec == Init /\ [][Next]_vars
=============================================================================

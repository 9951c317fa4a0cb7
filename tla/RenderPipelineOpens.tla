------------------------ MODULE RenderPipelineOpens ------------------------
(* The pipeline answers OpenDocument the way AnsweredRequests says.          *)
EXTENDS RenderPipeline

\* The documents of the OpenDocument commands, and of the answers to them, in order.
RequestOf(c) == IF c.type = "open" THEN <<c.doc>> ELSE <<>>
AnswerOf(e) == IF e.of = "open" THEN <<e.doc>> ELSE <<>>
Requested(commands) ==
  LET upTo[n \in 0..Len(commands)] ==
        IF n = 0 THEN <<>> ELSE upTo[n - 1] \o RequestOf(commands[n])
  IN  upTo[Len(commands)]
Answered(messages) ==
  LET upTo[n \in 0..Len(messages)] ==
        IF n = 0 THEN <<>> ELSE upTo[n - 1] \o AnswerOf(messages[n])
  IN  upTo[Len(messages)]

\* An accepted OpenDocument is in the control queue, in the worker's hands, or
\* answered by an event in the critical queue.
OpensAsked ==
  Answered(events["critical"]) \o RequestOf(command)
    \o (IF Running THEN Requested(queue["control"]) ELSE <<>>)

Opens == INSTANCE AnsweredRequests WITH
           Clients <- Docs, asked <- OpensAsked, ended <- ~ Running

\* Each tab that waits for its document gets exactly one DocumentOpened or
\* Error, in the order in which the documents were asked for; in particular a
\* full event queue delays these answers and never drops one.
OpensAreAnswered == Opens!Spec

\* With a worker that runs and a UI that polls, no tab waits forever: as long as
\* requests wait, answers keep coming.
OpenIsAnswered ==
  UiPolls /\ <>[](OpensAsked # <<>> /\ uiPc # "gone") => []<><<Opens!Answer>>_OpensAsked

\* Neither a page nor a tab waits forever for the worker.
RequestsAreSettled == RenderIsSettled /\ OpenIsAnswered
=============================================================================

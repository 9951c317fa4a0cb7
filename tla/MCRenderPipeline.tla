-------------------------- MODULE MCRenderPipeline --------------------------
(* Instances of RenderPipeline for TLC. *)
EXTENDS RenderPipelineOpens, TLC

Target(page, size, kind, priority) ==
  [page |-> page, size |-> size, kind |-> kind, priority |-> priority]

\* The same page asked for as visible and as prefetch, and a thumbnail.
RenderTargets ==
  {Target(1, 1, "Page", "Visible"), Target(1, 1, "Page", "Low"),
   Target(1, 1, "Thumbnail", "Low")}

\* One page at one size.
OneTarget == {Target(1, 1, "Page", "Visible")}

\* No document is treated differently from another.
DocSymmetry == Permutations(Docs)
=============================================================================

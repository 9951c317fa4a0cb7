-------------------------- MODULE MCBackgroundJobs --------------------------
(* Small jobs for BackgroundJobs. *)
EXTENDS BackgroundJobs

\* Jobs on files without a password, on one protected file, and on two.
FewOperations == {<<>>, <<"a">>, <<"a", "b">>}
=============================================================================

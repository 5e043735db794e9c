------------------------ MODULE MCRepositoryPipeline ------------------------
(***************************************************************************)
(* Two repositories of the same name and the folder they both want first,  *)
(* with and without a second folder, owner-name, for each.                 *)
(***************************************************************************)
EXTENDS RepositoryPipeline

CONSTANTS u1, u2

MCCandidates == [u \in Urls |-> <<"base">>]
MCTwoCandidates == [u \in Urls |-> IF u = u1 THEN <<"base", "o1">> ELSE <<"base", "o2">>]

=============================================================================

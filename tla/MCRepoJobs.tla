----------------------------- MODULE MCRepoJobs -----------------------------
(* Instances of RepoJobs for TLC. *)
EXTENDS RepoJobs, TLC

CONSTANTS s1, s2, d1

\* One project ...
OneSite    == [s \in {s1} |-> s1]
OneDir     == [s \in {s1} |-> d1]
\* ... with a subdomain s2 served from the same checkout ...
WithSub    == [s \in {s1, s2} |-> s1]
\* ... and two site ids for one domain: s2 exists only after s1 is deleted.
TwoSites   == [s \in {s1, s2} |-> s]
SameDir    == [s \in {s1, s2} |-> d1]

Symmetry == Permutations(Worker) \cup Permutations(Handler) \cup Permutations(Branch) \cup Permutations(Repo)
=============================================================================

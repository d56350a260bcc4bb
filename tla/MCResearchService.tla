------------------------- MODULE MCResearchService -------------------------
(* Instance of ResearchService for TLC.                                    *)
EXTENDS ResearchService, TLC

Symmetry == Permutations(Jobs) \cup Permutations(Providers)
=============================================================================

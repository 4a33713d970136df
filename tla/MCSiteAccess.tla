---------------------------- MODULE MCSiteAccess ----------------------------
(* Instances of SiteAccess for TLC. *)
EXTENDS SiteAccess, TLC

CONSTANTS ann, ben

Symmetry == Permutations({ann, ben})

=============================================================================

---------------------------- MODULE MCAliasClaims ----------------------------
(* Workspaces v and w of one organization compete for the aliases a and b.  *)
EXTENDS AliasClaims, TLC

CONSTANTS v, w, a, b

\* Behaviours in which nothing fails, and ones in which anything may.
CalmOrFaulty == {{}, {"fail", "lost"}}

Symmetry == Permutations({v, w}) \union Permutations({a, b})
=============================================================================

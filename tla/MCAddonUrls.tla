----------------------------- MODULE MCAddonUrls -----------------------------
\* Two recipes, the newer with two revisions; the older can no longer be saved.
EXTENDS AddonUrls

CONSTANTS v1, v2, v3

MCRecipeOf == [v \in Revision |-> IF v = v1 THEN 1 ELSE 2]
=============================================================================

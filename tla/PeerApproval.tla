---------------------------- MODULE PeerApproval ----------------------------
(***************************************************************************)
(* What the server promises those who review recipes and those who fetch   *)
(* them: of a recipe clients are given only revisions that were approved,  *)
(* the revision in force changes only by being approved, and a recipe that *)
(* is on moves to its new revision in the step that approves it.  Nothing  *)
(* is said of drafts, requests, signatures or buckets: Recipes.tla has     *)
(* them and implements this.                                               *)
(***************************************************************************)
CONSTANTS Recipe, Revision, None

VARIABLES
  reviewed,   \* revisions that a peer approved, at any time
  inForce,    \* the revision in force of each recipe
  on,         \* the recipes that are on
  served      \* what clients are given for the recipe

vars == <<reviewed, inForce, on, served>>

Init ==
  /\ reviewed = {}
  /\ inForce = [r \in Recipe |-> None]
  /\ on = {}
  /\ served = [r \in Recipe |-> None]

\* Clients may fall behind, get ahead or lose a recipe, as publishing fails and
\* is repaired, but what they are given has been reviewed.
Serving == served' \in [Recipe -> reviewed' \cup {None}]

Approve(r, v) ==
  /\ reviewed' = reviewed \cup {v}
  /\ inForce' = [inForce EXCEPT ![r] = v]
  /\ r \in on => served'[r] = v
  /\ UNCHANGED on
  /\ Serving

SwitchOn(r) ==
  /\ inForce[r] # None
  /\ on' = on \cup {r}
  /\ UNCHANGED <<reviewed, inForce>>
  /\ Serving

SwitchOff(r) ==
  /\ on' = on \ {r}
  /\ UNCHANGED <<reviewed, inForce>>
  /\ Serving

Withdraw(r) ==
  /\ inForce' = [inForce EXCEPT ![r] = None]
  /\ on' = on \ {r}
  /\ UNCHANGED reviewed
  /\ Serving

Republish ==
  /\ UNCHANGED <<reviewed, inForce, on>>
  /\ Serving

Next ==
  \/ \E r \in Recipe :
       \/ \E v \in Revision : Approve(r, v)
       \/ SwitchOn(r) \/ SwitchOff(r) \/ Withdraw(r)
  \/ Republish

Spec == Init /\ [][Next]_vars
=============================================================================

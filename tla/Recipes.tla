------------------------------- MODULE Recipes -------------------------------
(***************************************************************************)
(* The life of recipes in the Normandy server: the rows of Recipe,         *)
(* RecipeRevision, EnabledState and ApprovalRequest                        *)
(* (normandy/recipes/models.py), the API handlers and management commands  *)
(* that change them, and the records they push to Remote Settings          *)
(* (normandy/recipes/exports.py).                                          *)
(*                                                                         *)
(* Handlers are taken one at a time: an action is a whole request, or a    *)
(* whole run of a command.  What makes them hard even so is that a request *)
(* calls two services in the middle of its work, Autograph and Remote      *)
(* Settings, and that only some handlers run in a transaction: a call that *)
(* fails ends the request there, and what had been committed stays.        *)
(* RemoteSettings.tla takes the calls apart and interleaves them.          *)
(***************************************************************************)
CONSTANTS
  Recipe,                \* ids that Recipe rows may take, none used twice
  Revision,              \* ids that RecipeRevision rows may take, none used twice
  User,                  \* accounts that may act on recipes
  Content,               \* what a revision holds: action, arguments, filters
  Conflicts,             \* pairs of a rollout and the rollback of its slug
  None,                  \* a null column, an absent row, an absent record
  PeerApprovalEnforced,  \* settings.PEER_APPROVAL_ENFORCED
  AutographConfigured,   \* whether Autographer() can be built
  ClosableStatus,        \* statuses of the approval requests that users close
  Faults                 \* the ways a call to a service may go wrong

Status == {"pending", "approved", "rejected"}

(***************************************************************************)
(* The ways a call goes wrong:                                             *)
(*   "sign"         Autograph does not sign                                *)
(*   "refused"      the call on a record of the workspace is refused       *)
(*   "reverted"     "to-sign" is refused and "to-rollback" goes through    *)
(*   "stranded"     "to-sign" is refused and so is "to-rollback", or       *)
(*                  "to-sign" fails with an error that is not Kinto's, or  *)
(*                  the process ends: the workspace keeps the change       *)
(*   "unanswered"   a PUT or "to-sign" is applied, its answer is lost, the *)
(*                  caller sees an error                                   *)
(*   "redelivered"  a DELETE is applied, its answer is lost, the retry of  *)
(*                  the client is answered 404; for good, what is left is  *)
(*                  the same                                               *)
(***************************************************************************)
Fault ==
  {"sign", "refused", "reverted", "stranded", "unanswered", "redelivered"}

Row     == [recipe : Recipe, parent : Revision \cup {None}, content : Content]
Request == [status : Status, creator : User]
Record  == [revision : Revision, signature : Revision \cup {None}]

ASSUME ConstantsAssumption ==
  /\ Conflicts \subseteq Content \X Content
  /\ \A c, d \in Content : <<c, d>> \in Conflicts => <<d, c>> \in Conflicts
  /\ PeerApprovalEnforced \in BOOLEAN
  /\ AutographConfigured \in BOOLEAN
  /\ ClosableStatus \subseteq Status
  /\ Faults \subseteq Fault

ASSUME NoneAssumption ==
  None \notin Recipe \cup Revision \cup Row \cup Request \cup Record

VARIABLES
  recipes,     \* ids of the Recipe rows
  latest,      \* Recipe.latest_revision
  approved,    \* Recipe.approved_revision
  signature,   \* Recipe.signature, as the revision that was signed
  revision,    \* RecipeRevision rows; a deleted recipe's stay, to keep ids unique
  enabled,     \* RecipeRevision.enabled_state.enabled, FALSE without a state
  request,     \* the ApprovalRequest of each revision
  rs,          \* records in the two Remote Settings buckets
  verdicts     \* history: the verdicts that reviewers other than the requester gave

vars == <<recipes, latest, approved, signature, revision, enabled, request,
          rs, verdicts>>

TypeOK ==
  /\ recipes \subseteq Recipe
  /\ latest \in [Recipe -> Revision \cup {None}]
  /\ approved \in [Recipe -> Revision \cup {None}]
  /\ signature \in [Recipe -> Revision \cup {None}]
  /\ revision \in [Revision -> Row \cup {None}]
  /\ enabled \in [Revision -> BOOLEAN]
  /\ request \in [Revision -> Request \cup {None}]
  /\ rs \in [workspace : [Recipe -> Record \cup {None}],
             main : [Recipe -> Record \cup {None}]]
  /\ verdicts \subseteq Revision \X {"approved", "rejected"}

Init ==
  /\ recipes = {}
  /\ latest = [r \in Recipe |-> None]
  /\ approved = [r \in Recipe |-> None]
  /\ signature = [r \in Recipe |-> None]
  /\ revision = [v \in Revision |-> None]
  /\ enabled = [v \in Revision |-> FALSE]
  /\ request = [v \in Revision |-> None]
  /\ rs = [workspace |-> [r \in Recipe |-> None], main |-> [r \in Recipe |-> None]]
  /\ verdicts = {}

-----------------------------------------------------------------------------
(* Queries.                                                                *)

\* The rows of the recipe's revisions, those of deleted recipes left out.
RevisionsOf(r) == {v \in Revision : revision[v] # None /\ revision[v].recipe = r}
Live(v) == revision[v] # None /\ revision[v].recipe \in recipes

\* RecipeQuerySet.only_enabled: the state of the approved revision decides.
Enabled(r) == r \in recipes /\ approved[r] # None /\ enabled[approved[r]]
EnabledRecipes == {r \in recipes : Enabled(r)}

StatusOf(v) == IF request[v] = None THEN "none" ELSE request[v].status

\* A slip: the drafts of the other enabled recipes are compared, not what they run.
NoConflictWithDrafts(r, v) ==
  \A s \in EnabledRecipes \ {r} :
    <<revision[v].content, revision[latest[s]].content>> \notin Conflicts

\* _validate_preference_rollout_rollback_enabled_invariance, once v is the
\* approved revision of r and not yet enabled.
NoConflict(r, v) ==
  \A s \in EnabledRecipes \ {r} :
    <<revision[v].content, revision[approved[s]].content>> \notin Conflicts

-----------------------------------------------------------------------------
(* Autograph.  update_signature signs the approved revision of an enabled  *)
(* recipe, leaves the signature of one that is not enabled as it is, and   *)
(* drops it when Autograph is not configured.                              *)

Sign(v) == IF AutographConfigured THEN v ELSE None

UpdatedSignature(r) ==
  IF AutographConfigured /\ ~Enabled(r) THEN signature[r] ELSE Sign(approved[r])

SigningFails == AutographConfigured /\ "sign" \in Faults

-----------------------------------------------------------------------------
(* Remote Settings: the workspace bucket is edited record by record, and   *)
(* "to-sign" copies the whole of it into the main bucket.                  *)

\* A slip: the signature goes where the revision belongs.
RecordOfSwapped(v, sig) == [revision |-> sig, signature |-> v]

RecordOf(v, sig) == [revision |-> v, signature |-> sig]

\* A slip: the changes are not reverted.
RollbackNothing(s) == s

PutRecord(s, r, record) == [s EXCEPT !.workspace[r] = record]
DeleteRecord(s, r)      == [s EXCEPT !.workspace[r] = None]
ApproveChanges(s)       == [s EXCEPT !.main = s.workspace]
RollbackChanges(s)      == [s EXCEPT !.workspace = s.main]

\* What approve_changes may leave behind when it raises.
FailedApproval(s) ==
  {RollbackChanges(s) : f \in Faults \cap {"reverted"}}
    \cup {s : f \in Faults \cap {"stranded"}}
    \cup {ApproveChanges(s) : f \in Faults \cap {"unanswered"}}

Publish(s, r, record) == ApproveChanges(PutRecord(s, r, record))

FailedPublish(s, r, record) ==
  {s : f \in Faults \cap {"refused"}}
    \cup {PutRecord(s, r, record) : f \in Faults \cap {"unanswered"}}
    \cup FailedApproval(PutRecord(s, r, record))

\* A record that is not in the workspace is skipped, and nothing is approved.
Unpublish(s, r) ==
  IF s.workspace[r] = None THEN s ELSE ApproveChanges(DeleteRecord(s, r))

\* A redelivered DELETE is answered 404, so that unpublish returns here too.
RetriedUnpublish(s, r) == {DeleteRecord(s, r) : f \in Faults \cap {"redelivered"}}

FailedUnpublish(s, r) ==
  {s : f \in Faults \cap {"refused"}}
    \cup (IF s.workspace[r] = None THEN {} ELSE FailedApproval(DeleteRecord(s, r)))

-----------------------------------------------------------------------------
(* Recipes and revisions.                                                  *)

\* POST recipe: the row and its first revision, in one transaction.
Create(r, v, c) ==
  /\ r \notin recipes
  /\ RevisionsOf(r) = {}
  /\ revision[v] = None
  /\ recipes' = recipes \cup {r}
  /\ revision' = [revision EXCEPT ![v] = [recipe |-> r, parent |-> None, content |-> c]]
  /\ latest' = [latest EXCEPT ![r] = v]
  /\ UNCHANGED <<approved, signature, enabled, request, rs, verdicts>>

\* A slip: the new revision is chained to the approved one, if there is one.
ReviseApproved(r, v, c) ==
  /\ r \in recipes
  /\ revision[v] = None
  /\ LET parent == IF approved[r] = None THEN latest[r] ELSE approved[r] IN
       revision' = [revision EXCEPT ![v] = [recipe |-> r, parent |-> parent, content |-> c]]
  /\ latest' = [latest EXCEPT ![r] = v]
  /\ request' = IF StatusOf(latest[r]) = "pending"
                THEN [request EXCEPT ![latest[r]] = None]
                ELSE request
  /\ signature' = [signature EXCEPT ![r] = UpdatedSignature(r)]
  /\ UNCHANGED <<recipes, approved, enabled, rs, verdicts>>

\* PATCH or PUT recipe.  A pending request on the revision that is revised is
\* deleted.  Signing comes last and in the transaction: when it fails nothing
\* has happened.  A revision that changes nothing makes no row, and no step.
Revise(r, v, c) ==
  /\ r \in recipes
  /\ revision[v] = None
  /\ revision' = [revision EXCEPT
                    ![v] = [recipe |-> r, parent |-> latest[r], content |-> c]]
  /\ latest' = [latest EXCEPT ![r] = v]
  /\ request' = IF StatusOf(latest[r]) = "pending"
                THEN [request EXCEPT ![latest[r]] = None]
                ELSE request
  /\ signature' = [signature EXCEPT ![r] = UpdatedSignature(r)]
  /\ UNCHANGED <<recipes, approved, enabled, rs, verdicts>>

\* DELETE recipe: the rows that refer to it go with it, its record stays.
Delete(r) ==
  /\ r \in recipes
  /\ recipes' = recipes \ {r}
  /\ latest' = [latest EXCEPT ![r] = None]
  /\ approved' = [approved EXCEPT ![r] = None]
  /\ signature' = [signature EXCEPT ![r] = None]
  /\ enabled' = [v \in Revision |-> enabled[v] /\ v \notin RevisionsOf(r)]
  /\ request' = [v \in Revision |-> IF v \in RevisionsOf(r) THEN None ELSE request[v]]
  /\ UNCHANGED <<revision, rs, verdicts>>

-----------------------------------------------------------------------------
(* Approval requests.                                                      *)

\* Not in a transaction: the request is there even when signing fails.
RequestApproval(v, u) ==
  /\ Live(v)
  /\ request[v] = None
  /\ request' = [request EXCEPT ![v] = [status |-> "pending", creator |-> u]]
  /\ LET r == revision[v].recipe IN
       \/ signature' = [signature EXCEPT ![r] = UpdatedSignature(r)]
       \/ SigningFails /\ Enabled(r) /\ UNCHANGED signature
  /\ UNCHANGED <<recipes, latest, approved, revision, enabled, rs, verdicts>>

\* A slip: the requester may review too.
MayReviewOwn(v, u) ==
  /\ Live(v)
  /\ StatusOf(v) = "pending"

\* A slip: a request that was decided is reviewed again.
MayReviewDecided(v, u) ==
  /\ Live(v)
  /\ StatusOf(v) # "none"
  /\ PeerApprovalEnforced => u # request[v].creator

\* The checks of approve and reject, and what they write on the request.
MayReview(v, u) ==
  /\ Live(v)
  /\ StatusOf(v) = "pending"
  /\ PeerApprovalEnforced => u # request[v].creator

Review(v, u, status) ==
  /\ MayReview(v, u)
  /\ request' = [request EXCEPT ![v].status = status]
  /\ verdicts' = IF u = request[v].creator THEN verdicts
                 ELSE verdicts \cup {<<v, status>>}

\* Approving for a recipe that is not enabled.  The revision is signed only if
\* its own enabled state, from an earlier life, is still on.
ApproveDisabled(v, u) ==
  /\ Review(v, u, "approved")
  /\ LET r == revision[v].recipe IN
       /\ ~Enabled(r)
       /\ approved' = [approved EXCEPT ![r] = v]
       /\ signature' = IF AutographConfigured /\ ~enabled[v] THEN signature
                       ELSE [signature EXCEPT ![r] = Sign(v)]
  /\ UNCHANGED <<recipes, latest, revision, enabled, rs>>

\* A slip: the enabled state is not carried over.
ApproveDropping(v, u) ==
  /\ Review(v, u, "approved")
  /\ ~enabled[v]
  /\ LET r == revision[v].recipe IN
       /\ Enabled(r)
       /\ approved' = [approved EXCEPT ![r] = v]
  /\ UNCHANGED <<recipes, latest, revision, enabled, signature, rs>>

\* A slip: what is published is signed, what is stored is not.
ApproveUnsigned(v, u) ==
  /\ Review(v, u, "approved")
  /\ ~enabled[v]
  /\ LET r == revision[v].recipe IN
       /\ Enabled(r)
       /\ NoConflict(r, v)
       /\ approved' = [approved EXCEPT ![r] = v]
       /\ enabled' = [enabled EXCEPT ![v] = TRUE]
       /\ rs' = Publish(rs, r, RecordOf(v, Sign(v)))
  /\ UNCHANGED <<recipes, latest, revision, signature>>

\* Approving for an enabled recipe carries the enabled state over: the
\* revision is enabled, signed and published inside the transaction.
ApproveEnabled(v, u) ==
  /\ Review(v, u, "approved")
  /\ ~enabled[v]
  /\ LET r == revision[v].recipe IN
       /\ Enabled(r)
       /\ NoConflict(r, v)
       /\ approved' = [approved EXCEPT ![r] = v]
       /\ enabled' = [enabled EXCEPT ![v] = TRUE]
       /\ signature' = [signature EXCEPT ![r] = Sign(v)]
       /\ rs' = Publish(rs, r, RecordOf(v, Sign(v)))
  /\ UNCHANGED <<recipes, latest, revision>>

\* The same transaction rolled back because publishing raised: the database
\* forgets, Remote Settings may not.
ApproveRolledBack(v, u) ==
  /\ MayReview(v, u)
  /\ ~enabled[v]
  /\ LET r == revision[v].recipe IN
       /\ Enabled(r)
       /\ NoConflict(r, v)
       /\ rs' \in FailedPublish(rs, r, RecordOf(v, Sign(v)))
  /\ UNCHANGED <<recipes, latest, approved, signature, revision, enabled, request,
                 verdicts>>

Approve(v, u) ==
  ApproveDisabled(v, u) \/ ApproveEnabled(v, u) \/ ApproveRolledBack(v, u)

Reject(v, u) ==
  /\ Review(v, u, "rejected")
  /\ LET r == revision[v].recipe IN
       signature' = [signature EXCEPT ![r] = UpdatedSignature(r)]
  /\ UNCHANGED <<recipes, latest, approved, revision, enabled, rs>>

\* Deletes the request, whatever its status.
Close(v) ==
  /\ Live(v)
  /\ StatusOf(v) \in ClosableStatus
  /\ request' = [request EXCEPT ![v] = None]
  /\ LET r == revision[v].recipe IN
       signature' = [signature EXCEPT ![r] = UpdatedSignature(r)]
  /\ UNCHANGED <<recipes, latest, approved, revision, enabled, rs, verdicts>>

-----------------------------------------------------------------------------
(* Enabling and disabling.  No transaction: the enabled state is committed *)
(* first, then the signature, and publishing comes after both.             *)

\* A slip: the record is published before it is signed.
EnablePublishingFirst(r) ==
  /\ r \in recipes
  /\ approved[r] # None
  /\ ~enabled[approved[r]]
  /\ NoConflict(r, approved[r])
  /\ enabled' = [enabled EXCEPT ![approved[r]] = TRUE]
  /\ LET record == RecordOf(approved[r], signature[r]) IN
       /\ signature' = [signature EXCEPT ![r] = Sign(approved[r])]
       /\ rs' \in {Publish(rs, r, record)} \cup FailedPublish(rs, r, record)
  /\ UNCHANGED <<recipes, latest, approved, revision, request, verdicts>>

Enable(r) ==
  /\ r \in recipes
  /\ approved[r] # None
  /\ ~enabled[approved[r]]
  /\ NoConflict(r, approved[r])
  /\ enabled' = [enabled EXCEPT ![approved[r]] = TRUE]
  /\ \/ SigningFails /\ UNCHANGED <<signature, rs>>
     \/ LET record == RecordOf(approved[r], Sign(approved[r])) IN
          /\ signature' = [signature EXCEPT ![r] = Sign(approved[r])]
          /\ rs' \in {Publish(rs, r, record)} \cup FailedPublish(rs, r, record)
  /\ UNCHANGED <<recipes, latest, approved, revision, request, verdicts>>

\* The signature of a disabled recipe is left as it is.
Disable(r) ==
  /\ Enabled(r)
  /\ enabled' = [enabled EXCEPT ![approved[r]] = FALSE]
  /\ signature' = IF AutographConfigured THEN signature
                  ELSE [signature EXCEPT ![r] = None]
  /\ rs' \in {Unpublish(rs, r)} \cup RetriedUnpublish(rs, r) \cup FailedUnpublish(rs, r)
  /\ UNCHANGED <<recipes, latest, approved, revision, request, verdicts>>

-----------------------------------------------------------------------------
(* Management commands.                                                    *)

\* The record each recipe would be published as.
LocalRecord(r) == RecordOf(approved[r], signature[r])

\* Signs the recipes in S, and edits the workspace for those in P.
SignedBy(S) == [r \in Recipe |-> IF r \in S THEN Sign(approved[r]) ELSE signature[r]]
Batch(P) ==
  [rs EXCEPT !.workspace =
     [r \in Recipe |-> IF r \in P THEN RecordOf(approved[r], Sign(approved[r]))
                       ELSE rs.workspace[r]]]

\* update_recipe_signatures [--force]: S is what get_outdated_recipes returns,
\* every enabled recipe without a signature and those whose signature is old.
\* The records are approved together, then disabled recipes lose theirs.
UpdateRecipeSignatures(S) ==
  /\ {r \in EnabledRecipes : signature[r] = None} \subseteq S
  /\ S \subseteq EnabledRecipes
  /\ signature' = [r \in Recipe |-> IF r \in recipes /\ ~Enabled(r) THEN None
                                    ELSE SignedBy(S)[r]]
  /\ rs' = IF S = {} THEN rs ELSE ApproveChanges(Batch(S))
  /\ UNCHANGED <<recipes, latest, approved, revision, enabled, request, verdicts>>

\* The command ends early: Autograph fails for the recipe after those in P, or
\* its record is refused once it is signed, or put without an answer, or the final
\* approval fails.
UpdateRecipeSignaturesFails(S, P) ==
  /\ {r \in EnabledRecipes : signature[r] = None} \subseteq S
  /\ S \subseteq EnabledRecipes
  /\ S # {}
  /\ P \subseteq S
  /\ \/ SigningFails /\ P # S /\ signature' = SignedBy(P) /\ rs' = Batch(P)
     \/ \E r \in S \ P :
          /\ signature' = SignedBy(P \cup {r})
          /\ \/ "refused" \in Faults /\ rs' = Batch(P)
             \/ Faults \cap {"stranded", "unanswered"} # {} /\ rs' = Batch(P \cup {r})
     \/ P = S /\ signature' = SignedBy(S) /\ rs' \in FailedApproval(Batch(S))
  /\ UNCHANGED <<recipes, latest, approved, revision, enabled, request, verdicts>>

\* A slip: the records of recipes the database does not know are left alone.
ToUnpublishKnown == {r \in recipes \ EnabledRecipes : rs.main[r] # None}

\* sync_remote_settings compares the enabled recipes with the main bucket.
ToPublish   == {r \in EnabledRecipes : rs.main[r] # LocalRecord(r)}
ToUnpublish == {r \in Recipe \ EnabledRecipes : rs.main[r] # None}

\* Remote Settings after the recipes in P were published and then those in D
\* unpublished, each with an approval of its own.
Synced(P, D) ==
  LET workspace == [r \in Recipe |-> IF r \in P THEN LocalRecord(r)
                                     ELSE IF r \in D THEN None
                                     ELSE rs.workspace[r]]
  IN [workspace |-> workspace,
      main |-> IF P # {} \/ \E r \in D : rs.workspace[r] # None
               THEN workspace ELSE rs.main]

\* A run to the end, or to the first record whose recipe is deleted: unpublish
\* raises for it once it is done, because it has no approved revision to name.
SyncRemoteSettings ==
  /\ ToPublish \cup ToUnpublish # {}
  /\ \/ /\ ToUnpublish \subseteq recipes
        /\ rs' = Synced(ToPublish, ToUnpublish)
     \/ \E D \in SUBSET (ToUnpublish \cap recipes), r \in ToUnpublish \ recipes :
          rs' = Synced(ToPublish, D \cup {r})
  /\ UNCHANGED <<recipes, latest, approved, signature, revision, enabled, request,
                 verdicts>>

\* A run that ends at a call that raises.  A redelivered DELETE does not end the
\* run, but what the run does after it the next run does too.
SyncRemoteSettingsFails ==
  /\ \/ \E P \in SUBSET ToPublish : \E r \in ToPublish \ P :
          rs' \in FailedPublish(Synced(P, {}), r, LocalRecord(r))
     \/ \E D \in SUBSET (ToUnpublish \cap recipes) : \E r \in ToUnpublish \ D :
          rs' \in FailedUnpublish(Synced(ToPublish, D), r)
                    \cup RetriedUnpublish(Synced(ToPublish, D), r)
  /\ UNCHANGED <<recipes, latest, approved, signature, revision, enabled, request,
                 verdicts>>

-----------------------------------------------------------------------------
Users ==
  \/ \E r \in Recipe, v \in Revision, c \in Content :
       Create(r, v, c) \/ Revise(r, v, c)
  \/ \E v \in Revision, u \in User :
       RequestApproval(v, u) \/ Approve(v, u) \/ Reject(v, u)
  \/ \E v \in Revision : Close(v)
  \/ \E r \in Recipe : Enable(r) \/ Disable(r) \/ Delete(r)

Commands ==
  \/ \E S \in SUBSET recipes : UpdateRecipeSignatures(S)
  \/ \E S \in SUBSET recipes : \E P \in SUBSET S : UpdateRecipeSignaturesFails(S, P)
  \/ SyncRemoteSettings
  \/ SyncRemoteSettingsFails

Next == Users \/ Commands

Spec == Init /\ [][Next]_vars

\* Cron runs sync_remote_settings again and again, and not every run fails.
FairSpec == Spec /\ WF_vars(SyncRemoteSettings)

-----------------------------------------------------------------------------
(* Safety.                                                                 *)

\* Peer approval: no revision is approved, enabled or signed for a recipe unless
\* a user other than the one who requested the approval approved it, through any
\* sequence of revising, closing, requesting again and failing on the way.
OnlyReviewedInDatabase ==
  PeerApprovalEnforced =>
    \A v \in Revision :
      (enabled[v] \/ \E r \in recipes : v \in {approved[r], signature[r]})
        => <<v, "approved">> \in verdicts

\* Peer approval, seen by the clients: every record in the main bucket is a
\* revision that was approved by a peer.
OnlyReviewedPublished ==
  PeerApprovalEnforced =>
    \A r \in Recipe :
      rs.main[r] # None => <<rs.main[r].revision, "approved">> \in verdicts

\* The revisions of a recipe form one chain that ends in latest_revision, and
\* what is approved or requested for a recipe is part of its own chain.
HistoryIsAChain ==
  \A r \in recipes :
    LET history == RevisionsOf(r)
        ParentOf(v) == revision[v].parent
    IN /\ latest[r] \in history
       /\ approved[r] \in history \cup {None}
       /\ \A v, w \in history : ParentOf(v) = ParentOf(w) => v = w
       /\ \A v \in history : ParentOf(v) \in history \cup {None}
       /\ \A v \in history : (\A w \in history : ParentOf(w) # v) <=> v = latest[r]

\* A rollout and the rollback of the same slug are never enabled together,
\* through enabling either, revising either and carrying a state over.
NoConflictEnabled ==
  \A r, s \in EnabledRecipes :
    r # s => <<revision[approved[r]].content, revision[approved[s]].content>>
               \notin Conflicts

\* What an enabled recipe is served with is signed: the signature of the row is
\* that of the revision it is served from.
SignatureMatches == \A r \in EnabledRecipes : signature[r] = Sign(approved[r])

\* The records of the main bucket are signed with their own signature.
PublishedSignatureMatches ==
  \A r \in Recipe :
    rs.main[r] # None => rs.main[r].signature = Sign(rs.main[r].revision)

\* Approving a revision of an enabled recipe changes what clients run in one
\* step: the recipe stays enabled and the main bucket has the new revision.
ApprovalCarriesOver ==
  [][\A r \in recipes \cap recipes' :
       Enabled(r) /\ approved'[r] # approved[r]
         => Enabled(r)' /\ rs'.main[r] = LocalRecord(r)']_vars

\* A recipe that is off is only switched on by enabling the revision approved
\* for it, never by approving another.
OnlyEnableSwitchesOn ==
  [][\A r \in Recipe : ~Enabled(r) /\ Enabled(r)' => approved'[r] = approved[r]]_vars

-----------------------------------------------------------------------------
(* Refinement.                                                             *)

\* The database and the main bucket, seen as PeerApproval sees them.
Promise == INSTANCE PeerApproval WITH
  reviewed <- {v \in Revision : <<v, "approved">> \in verdicts},
  inForce  <- approved,
  on       <- EnabledRecipes,
  served   <- [r \in Recipe |-> IF rs.main[r] = None THEN None
                                ELSE rs.main[r].revision]

\* Requests, signatures, buckets and commands together keep the promise: each
\* handler and each run of a command is one of its steps, or none.
ImplementsPeerApproval == Promise!Spec

-----------------------------------------------------------------------------
(* Liveness.                                                               *)

InSync ==
  rs.main = [r \in Recipe |-> IF Enabled(r) THEN LocalRecord(r) ELSE None]

\* Whatever went wrong before: once users and the other commands leave the
\* system alone and calls stop failing, the main bucket comes to hold exactly
\* the enabled recipes, as they are.
SyncConverges == <>[][SyncRemoteSettings]_vars => <>[]InSync
=============================================================================

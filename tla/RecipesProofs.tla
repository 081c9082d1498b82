---------------------------- MODULE RecipesProofs ----------------------------
(***************************************************************************)
(* Proofs about Recipes, for every value of its constants.                 *)
(***************************************************************************)
EXTENDS Recipes, TLAPS

-----------------------------------------------------------------------------
(* Type correctness.                                                       *)

\* The two buckets, holding records of G only.
BucketsOf(G) == [workspace : [Recipe -> G \cup {None}],
                 main : [Recipe -> G \cup {None}]]

\* What calls to Remote Settings may leave behind holds no other records than
\* there were, and the one that was put.
LEMMA ApprovalType ==
  ASSUME NEW G, NEW s \in BucketsOf(G)
  PROVE  ApproveChanges(s) \in BucketsOf(G) /\ FailedApproval(s) \subseteq BucketsOf(G)
<1>1. ApproveChanges(s) \in BucketsOf(G) /\ RollbackChanges(s) \in BucketsOf(G)
  BY DEF BucketsOf, ApproveChanges, RollbackChanges
<1>2. QED
  BY <1>1 DEF FailedApproval

LEMMA PublishType ==
  ASSUME NEW G, NEW s \in BucketsOf(G), NEW r \in Recipe, NEW record \in G
  PROVE  /\ Publish(s, r, record) \in BucketsOf(G)
         /\ FailedPublish(s, r, record) \subseteq BucketsOf(G)
<1>1. PutRecord(s, r, record) \in BucketsOf(G)
  BY DEF BucketsOf, PutRecord
<1>2. QED
  BY <1>1, ApprovalType DEF Publish, FailedPublish

LEMMA UnpublishType ==
  ASSUME NEW G, NEW s \in BucketsOf(G), NEW r \in Recipe
  PROVE  /\ Unpublish(s, r) \in BucketsOf(G)
         /\ RetriedUnpublish(s, r) \subseteq BucketsOf(G)
         /\ FailedUnpublish(s, r) \subseteq BucketsOf(G)
<1>1. DeleteRecord(s, r) \in BucketsOf(G)
  BY DEF BucketsOf, DeleteRecord
<1>2. QED
  BY <1>1, ApprovalType DEF Unpublish, RetriedUnpublish, FailedUnpublish

\* The same for the commands: a batch, and a run of sync_remote_settings.
LEMMA BatchType ==
  ASSUME NEW G, rs \in BucketsOf(G), NEW P,
         \A r \in P : RecordOf(approved[r], Sign(approved[r])) \in G
  PROVE  Batch(P) \in BucketsOf(G)
BY DEF Batch, BucketsOf

LEMMA SyncedType ==
  ASSUME NEW G, rs \in BucketsOf(G), NEW P, NEW D,
         \A r \in P : LocalRecord(r) \in G
  PROVE  Synced(P, D) \in BucketsOf(G)
BY DEF Synced, BucketsOf

LEMMA CommandsPublish ==
  ASSUME NEW G, rs \in BucketsOf(G), recipes \subseteq Recipe, Commands,
         \A r \in EnabledRecipes : /\ RecordOf(approved[r], Sign(approved[r])) \in G
                                   /\ LocalRecord(r) \in G
  PROVE  rs' \in BucketsOf(G)
<1>1. ToPublish \subseteq EnabledRecipes /\ EnabledRecipes \subseteq Recipe
      /\ ToUnpublish \subseteq Recipe
  BY DEF ToPublish, ToUnpublish, EnabledRecipes
<1>2. \A P \in SUBSET EnabledRecipes :
        /\ Batch(P) \in BucketsOf(G)
        /\ \A D : Synced(P, D) \in BucketsOf(G)
  BY BatchType, SyncedType
<1>3. ASSUME NEW S \in SUBSET recipes, UpdateRecipeSignatures(S)
      PROVE  rs' \in BucketsOf(G)
  BY <1>2, <1>3, ApprovalType DEF UpdateRecipeSignatures
<1>4. ASSUME NEW S \in SUBSET recipes, NEW P \in SUBSET S,
             UpdateRecipeSignaturesFails(S, P)
      PROVE  rs' \in BucketsOf(G)
  <2>1. P \in SUBSET EnabledRecipes
    BY <1>4 DEF UpdateRecipeSignaturesFails
  <2>2. Batch(P) \in BucketsOf(G) /\ FailedApproval(Batch(P)) \subseteq BucketsOf(G)
    BY <1>2, <2>1, ApprovalType
  <2>3. \A r \in S : Batch(P \cup {r}) \in BucketsOf(G)
    BY <1>2, <1>4, <2>1 DEF UpdateRecipeSignaturesFails
  <2>4. \/ rs' \in {Batch(P)} \cup FailedApproval(Batch(P))
        \/ \E r \in S : rs' = Batch(P \cup {r})
    BY <1>4 DEF UpdateRecipeSignaturesFails
  <2>5. QED
    BY <2>2, <2>3, <2>4
<1>5. ASSUME SyncRemoteSettings
      PROVE  rs' \in BucketsOf(G)
  <2>1. PICK D : rs' = Synced(ToPublish, D)
    BY <1>5 DEF SyncRemoteSettings
  <2>2. QED
    BY <1>1, <1>2, <2>1
<1>6. ASSUME SyncRemoteSettingsFails
      PROVE  rs' \in BucketsOf(G)
  <2>1. ASSUME NEW P \in SUBSET ToPublish, NEW r \in ToPublish,
               rs' \in FailedPublish(Synced(P, {}), r, LocalRecord(r))
        PROVE  rs' \in BucketsOf(G)
    BY <1>1, <1>2, <2>1, PublishType
  <2>2. ASSUME NEW D, NEW r \in ToUnpublish,
               rs' \in FailedUnpublish(Synced(ToPublish, D), r)
                         \cup RetriedUnpublish(Synced(ToPublish, D), r)
        PROVE  rs' \in BucketsOf(G)
    BY <1>1, <1>2, <2>2, UnpublishType
  <2>3. QED
    BY <1>6, <2>1, <2>2 DEF SyncRemoteSettingsFails
<1>7. QED
  BY <1>3, <1>4, <1>5, <1>6 DEF Commands

\* A recipe signed, or left as it was, has a revision or nothing in its column.
LEMMA SignatureType ==
  ASSUME TypeOK, NEW r \in Recipe
  PROVE  UpdatedSignature(r) \in Revision \cup {None}
BY DEF TypeOK, UpdatedSignature, Sign

\* The records the commands make are well formed.
LEMMA LocalRecordType ==
  ASSUME TypeOK, NEW r \in Recipe, Enabled(r)
  PROVE  LocalRecord(r) \in Record
BY DEF TypeOK, Enabled, LocalRecord, RecordOf, Record

\* Users' handlers keep every column in its type.
LEMMA UsersType == TypeOK /\ Users => TypeOK'
<1> SUFFICES ASSUME TypeOK, Users PROVE TypeOK'
  OBVIOUS
<1> USE NoneAssumption
<1>1. ASSUME NEW r \in Recipe, NEW v \in Revision, NEW c \in Content, Create(r, v, c)
      PROVE  TypeOK'
  BY <1>1 DEF TypeOK, Create, Row
<1>2. ASSUME NEW r \in Recipe, NEW v \in Revision, NEW c \in Content, Revise(r, v, c)
      PROVE  TypeOK'
  <2>1. UpdatedSignature(r) \in Revision \cup {None}
    BY SignatureType
  <2>2. request' \in [Revision -> Request \cup {None}]
    BY <1>2 DEF TypeOK, Revise
  <2>3. QED
    BY <1>2, <2>1, <2>2 DEF TypeOK, Revise, Row
<1>3. ASSUME NEW v \in Revision, NEW u \in User, RequestApproval(v, u)
      PROVE  TypeOK'
  <2>1. revision[v].recipe \in Recipe
    BY <1>3 DEF TypeOK, RequestApproval, Live, Row
  <2>2. UpdatedSignature(revision[v].recipe) \in Revision \cup {None}
    BY <2>1, SignatureType
  <2>3. QED
    BY <1>3, <2>1, <2>2 DEF TypeOK, RequestApproval, Request, Status
<1>4. ASSUME NEW v \in Revision, NEW u \in User, NEW status \in {"approved", "rejected"},
             Review(v, u, status)
      PROVE  /\ request' \in [Revision -> Request \cup {None}]
             /\ verdicts' \subseteq Revision \X {"approved", "rejected"}
             /\ revision[v].recipe \in Recipe
  <2>1. request[v] \in Request /\ revision[v] \in Row
    BY <1>4 DEF TypeOK, Review, MayReview, StatusOf, Live
  <2>2. [request[v] EXCEPT !.status = status] \in Request
    BY <2>1 DEF Request, Status
  <2>3. QED
    BY <1>4, <2>1, <2>2 DEF TypeOK, Review, Row
<1>5. ASSUME NEW v \in Revision, NEW u \in User, Approve(v, u)
      PROVE  TypeOK'
  <2>1. CASE ApproveDisabled(v, u)
    BY <2>1, <1>4 DEF TypeOK, ApproveDisabled, Sign
  <2>2. CASE ApproveEnabled(v, u)
    <3>1. revision[v].recipe \in Recipe
      BY <2>2, <1>4 DEF ApproveEnabled
    <3>2. RecordOf(v, Sign(v)) \in Record
      BY DEF RecordOf, Record, Sign
    <3>3. rs' \in BucketsOf(Record)
      BY <2>2, <3>1, <3>2, PublishType DEF TypeOK, ApproveEnabled, BucketsOf
    <3>4. QED
      BY <2>2, <1>4, <3>3 DEF TypeOK, ApproveEnabled, Sign, BucketsOf
  <2>3. CASE ApproveRolledBack(v, u)
    <3>1. revision[v].recipe \in Recipe
      BY <2>3 DEF ApproveRolledBack, MayReview, Live, TypeOK, Row
    <3>2. RecordOf(v, Sign(v)) \in Record
      BY DEF RecordOf, Record, Sign
    <3>3. rs' \in BucketsOf(Record)
      BY <2>3, <3>1, <3>2, PublishType DEF TypeOK, ApproveRolledBack, BucketsOf
    <3>4. QED
      BY <2>3, <3>3 DEF TypeOK, ApproveRolledBack, BucketsOf
  <2>4. QED
    BY <1>5, <2>1, <2>2, <2>3 DEF Approve
<1>6. ASSUME NEW v \in Revision, NEW u \in User, Reject(v, u)
      PROVE  TypeOK'
  <2>1. revision[v].recipe \in Recipe
    BY <1>6, <1>4 DEF Reject
  <2>2. UpdatedSignature(revision[v].recipe) \in Revision \cup {None}
    BY <2>1, SignatureType
  <2>3. QED
    BY <1>6, <1>4, <2>1, <2>2 DEF TypeOK, Reject
<1>7. ASSUME NEW v \in Revision, Close(v)
      PROVE  TypeOK'
  <2>1. revision[v].recipe \in Recipe
    BY <1>7 DEF TypeOK, Close, Live, Row
  <2>2. UpdatedSignature(revision[v].recipe) \in Revision \cup {None}
    BY <2>1, SignatureType
  <2>3. QED
    BY <1>7, <2>1, <2>2 DEF TypeOK, Close
<1>8. ASSUME NEW r \in Recipe, Enable(r)
      PROVE  TypeOK'
  <2>1. approved[r] \in Revision
    BY <1>8 DEF TypeOK, Enable
  <2>2. RecordOf(approved[r], Sign(approved[r])) \in Record
    BY <2>1 DEF RecordOf, Record, Sign
  <2>3. rs \in BucketsOf(Record)
    BY DEF TypeOK, BucketsOf
  <2>4. rs' \in BucketsOf(Record)
    BY <1>8, <2>2, <2>3, PublishType DEF Enable
  <2>5. QED
    BY <1>8, <2>1, <2>4 DEF TypeOK, Enable, Sign, BucketsOf
<1>9. ASSUME NEW r \in Recipe, Disable(r)
      PROVE  TypeOK'
  <2>1. rs' \in BucketsOf(Record)
    BY <1>9, UnpublishType DEF TypeOK, Disable, BucketsOf
  <2>2. QED
    BY <1>9, <2>1 DEF TypeOK, Disable, Enabled, BucketsOf
<1>10. ASSUME NEW r \in Recipe, Delete(r)
       PROVE  TypeOK'
  BY <1>10 DEF TypeOK, Delete
<1>11. QED
  BY <1>1, <1>2, <1>3, <1>5, <1>6, <1>7, <1>8, <1>9, <1>10 DEF Users

\* So do the management commands.
LEMMA CommandsType == TypeOK /\ Commands => TypeOK'
<1> SUFFICES ASSUME TypeOK, Commands PROVE TypeOK'
  OBVIOUS
<1>1. ASSUME NEW S \in SUBSET EnabledRecipes
      PROVE  SignedBy(S) \in [Recipe -> Revision \cup {None}]
  BY DEF TypeOK, SignedBy, Sign, EnabledRecipes
<1>2. rs' \in BucketsOf(Record)
  <2>1. \A r \in EnabledRecipes : /\ RecordOf(approved[r], Sign(approved[r])) \in Record
                                  /\ LocalRecord(r) \in Record
    BY LocalRecordType DEF TypeOK, EnabledRecipes, Enabled, RecordOf, Record, Sign
  <2>2. rs \in BucketsOf(Record)
    BY DEF TypeOK, BucketsOf
  <2>3. QED
    BY <2>1, <2>2, CommandsPublish DEF TypeOK
<1>3. ASSUME NEW S \in SUBSET recipes, UpdateRecipeSignatures(S)
      PROVE  TypeOK'
  <2>1. signature' \in [Recipe -> Revision \cup {None}]
    BY <1>3, <1>1 DEF UpdateRecipeSignatures
  <2>2. QED
    BY <1>2, <1>3, <2>1 DEF UpdateRecipeSignatures, TypeOK, BucketsOf
<1>4. ASSUME NEW S \in SUBSET recipes, NEW P \in SUBSET S,
             UpdateRecipeSignaturesFails(S, P)
      PROVE  TypeOK'
  <2>1. S \subseteq EnabledRecipes /\ P \subseteq EnabledRecipes
    BY <1>4 DEF UpdateRecipeSignaturesFails
  <2>2. \A r \in S : P \cup {r} \subseteq EnabledRecipes
    BY <2>1
  <2>3. signature' \in [Recipe -> Revision \cup {None}]
    BY <1>4, <1>1, <2>1, <2>2 DEF UpdateRecipeSignaturesFails
  <2>4. QED
    BY <1>2, <1>4, <2>3 DEF UpdateRecipeSignaturesFails, TypeOK, BucketsOf
<1>5. CASE SyncRemoteSettings \/ SyncRemoteSettingsFails
  BY <1>2, <1>5 DEF SyncRemoteSettings, SyncRemoteSettingsFails, TypeOK, BucketsOf
<1>6. QED
  BY <1>3, <1>4, <1>5 DEF Commands

\* Every column of every row, and every record in the buckets, keeps its type,
\* through every handler and command of recipes/models.py and exports.py.
THEOREM TypeCorrect == Spec => []TypeOK
<1>1. Init => TypeOK
  BY DEF Init, TypeOK
<1>2. TypeOK /\ [Next]_vars => TypeOK'
  <2>1. TypeOK /\ UNCHANGED vars => TypeOK'
    BY DEF TypeOK, vars
  <2>2. QED
    BY <2>1, UsersType, CommandsType DEF Next
<1>3. QED
  BY <1>1, <1>2, PTL DEF Spec

-----------------------------------------------------------------------------
(* Peer approval.                                                          *)

Reviewed(v) == <<v, "approved">> \in verdicts

\* The inductive form of OnlyReviewedInDatabase: it also speaks of the columns
\* of deleted recipes, which Delete clears.
DatabaseReviewed ==
  /\ \A v \in Revision : enabled[v] => Reviewed(v)
  /\ \A r \in Recipe : approved[r] # None => Reviewed(approved[r])
  /\ \A r \in Recipe : signature[r] # None => Reviewed(signature[r])

\* Signing never brings in a revision that is not approved or signed already.
LEMMA SignedIsReviewed ==
  ASSUME DatabaseReviewed, NEW r \in Recipe, UpdatedSignature(r) # None
  PROVE  Reviewed(UpdatedSignature(r))
BY DEF DatabaseReviewed, UpdatedSignature, Sign

\* A verdict that peer approval let through is one of a peer.
LEMMA ReviewByPeer ==
  ASSUME PeerApprovalEnforced, NEW v, NEW u, NEW status, Review(v, u, status)
  PROVE  verdicts' = verdicts \cup {<<v, status>>}
BY DEF Review, MayReview

LEMMA UsersReviewed ==
  ASSUME PeerApprovalEnforced, TypeOK, DatabaseReviewed, Users
  PROVE  DatabaseReviewed'
<1> USE NoneAssumption
<1>1. ASSUME NEW r \in Recipe, NEW v \in Revision, NEW c \in Content,
             Create(r, v, c) \/ Revise(r, v, c)
      PROVE  DatabaseReviewed'
  <2>1. UpdatedSignature(r) # None => Reviewed(UpdatedSignature(r))
    BY SignedIsReviewed
  <2>2. QED
    BY <1>1, <2>1 DEF TypeOK, Create, Revise, DatabaseReviewed, Reviewed
<1>2. ASSUME NEW v \in Revision, NEW u \in User, RequestApproval(v, u)
      PROVE  DatabaseReviewed'
  <2>1. revision[v].recipe \in Recipe
    BY <1>2 DEF TypeOK, RequestApproval, Live, Row
  <2>2. LET r == revision[v].recipe
        IN  UpdatedSignature(r) # None => Reviewed(UpdatedSignature(r))
    BY <2>1, SignedIsReviewed
  <2>3. QED
    BY <1>2, <2>1, <2>2 DEF TypeOK, RequestApproval, DatabaseReviewed, Reviewed
<1>3. ASSUME NEW v \in Revision, NEW u \in User, Approve(v, u)
      PROVE  DatabaseReviewed'
  <2>1. revision[v].recipe \in Recipe
    BY <1>3 DEF TypeOK, Approve, ApproveDisabled, ApproveEnabled, ApproveRolledBack,
                Review, MayReview, Live, Row
  <2>2. CASE ApproveDisabled(v, u)
    <3>1. verdicts' = verdicts \cup {<<v, "approved">>}
      BY <2>2, ReviewByPeer DEF ApproveDisabled
    <3>2. QED
      BY <2>1, <2>2, <3>1 DEF TypeOK, ApproveDisabled, DatabaseReviewed, Reviewed, Sign
  <2>3. CASE ApproveEnabled(v, u)
    <3>1. verdicts' = verdicts \cup {<<v, "approved">>}
      BY <2>3, ReviewByPeer DEF ApproveEnabled
    <3>2. QED
      BY <2>1, <2>3, <3>1 DEF TypeOK, ApproveEnabled, DatabaseReviewed, Reviewed, Sign
  <2>4. CASE ApproveRolledBack(v, u)
    BY <2>4 DEF ApproveRolledBack, DatabaseReviewed, Reviewed
  <2>5. QED
    BY <1>3, <2>2, <2>3, <2>4 DEF Approve
<1>4. ASSUME NEW v \in Revision, Close(v) \/ \E u \in User : Reject(v, u)
      PROVE  DatabaseReviewed'
  <2>1. revision[v].recipe \in Recipe
    BY <1>4 DEF TypeOK, Reject, Review, MayReview, Close, Live, Row
  <2>2. LET r == revision[v].recipe
        IN  UpdatedSignature(r) # None => Reviewed(UpdatedSignature(r))
    BY <2>1, SignedIsReviewed
  <2>3. verdicts \subseteq verdicts'
    BY <1>4 DEF Reject, Review, Close
  <2>4. QED
    BY <1>4, <2>1, <2>2, <2>3
       DEF TypeOK, Reject, Close, DatabaseReviewed, Reviewed
<1>5. ASSUME NEW r \in Recipe, Enable(r)
      PROVE  DatabaseReviewed'
  BY <1>5 DEF TypeOK, Enable, DatabaseReviewed, Reviewed, Sign
<1>6. ASSUME NEW r \in Recipe, Disable(r) \/ Delete(r)
      PROVE  DatabaseReviewed'
  BY <1>6 DEF TypeOK, Disable, Delete, Enabled, DatabaseReviewed, Reviewed
<1>7. QED
  BY <1>1, <1>2, <1>3, <1>4, <1>5, <1>6 DEF Users

LEMMA CommandsReviewed ==
  ASSUME TypeOK, DatabaseReviewed, Commands
  PROVE  DatabaseReviewed'
<1>1. ASSUME NEW S \in SUBSET EnabledRecipes, NEW r \in Recipe,
             SignedBy(S)[r] # None
      PROVE  Reviewed(SignedBy(S)[r])
  BY <1>1 DEF DatabaseReviewed, SignedBy, Sign
<1>2. ASSUME NEW S \in SUBSET recipes, UpdateRecipeSignatures(S)
      PROVE  DatabaseReviewed'
  <2>1. \A r \in Recipe : signature'[r] # None => Reviewed(signature'[r])
    BY <1>2, <1>1 DEF UpdateRecipeSignatures
  <2>2. QED
    BY <1>2, <2>1 DEF UpdateRecipeSignatures, DatabaseReviewed, Reviewed
<1>3. ASSUME NEW S \in SUBSET recipes, NEW P \in SUBSET S,
             UpdateRecipeSignaturesFails(S, P)
      PROVE  DatabaseReviewed'
  <2>1. /\ S \subseteq EnabledRecipes
        /\ P \subseteq EnabledRecipes
        /\ \A r \in S : P \cup {r} \subseteq EnabledRecipes
    BY <1>3 DEF UpdateRecipeSignaturesFails
  <2>2. PICK T \in SUBSET EnabledRecipes : signature' = SignedBy(T)
    BY <1>3, <2>1 DEF UpdateRecipeSignaturesFails
  <2>3. QED
    BY <1>3, <1>1, <2>2 DEF UpdateRecipeSignaturesFails, DatabaseReviewed, Reviewed
<1>4. CASE SyncRemoteSettings \/ SyncRemoteSettingsFails
  BY <1>4 DEF SyncRemoteSettings, SyncRemoteSettingsFails, DatabaseReviewed, Reviewed
<1>5. QED
  BY <1>2, <1>3, <1>4 DEF Commands

\* Peer approval holds in the database whatever fails: no revision is approved,
\* enabled or signed (models.py) that a user other than the requester of the
\* approval did not approve.
THEOREM PeerApproval == Spec => []OnlyReviewedInDatabase
<1> DEFINE Inv == PeerApprovalEnforced => DatabaseReviewed
<1>1. Init => Inv
  BY DEF Init, DatabaseReviewed
<1>2. TypeOK /\ Inv /\ [Next]_vars => Inv'
  <2>1. DatabaseReviewed /\ UNCHANGED vars => DatabaseReviewed'
    BY DEF DatabaseReviewed, Reviewed, vars
  <2>2. QED
    BY <2>1, UsersReviewed, CommandsReviewed DEF Next
<1>3. TypeOK /\ Inv => OnlyReviewedInDatabase
  BY NoneAssumption DEF TypeOK, DatabaseReviewed, OnlyReviewedInDatabase, Reviewed
<1>4. QED
  BY <1>1, <1>2, <1>3, TypeCorrect, PTL DEF Spec

-----------------------------------------------------------------------------
(* Peer approval in Remote Settings.  The main bucket is copied from the   *)
(* workspace, so that the inductive form speaks of both.                   *)

ReviewedRecord == {d \in Record : Reviewed(d.revision)}

\* What is in the database may be published.
LEMMA EnabledIsReviewed ==
  ASSUME TypeOK, DatabaseReviewed, NEW r \in EnabledRecipes
  PROVE  /\ RecordOf(approved[r], Sign(approved[r])) \in ReviewedRecord
         /\ LocalRecord(r) \in ReviewedRecord
<1>1. r \in Recipe /\ approved[r] \in Revision /\ Reviewed(approved[r])
  BY DEF TypeOK, DatabaseReviewed, EnabledRecipes, Enabled
<1>2. QED
  BY <1>1 DEF TypeOK, ReviewedRecord, LocalRecord, RecordOf, Record, Sign

\* A refused change that the rollback takes back leaves no trace, reviewed or not.
LEMMA RevertedPublish ==
  ASSUME NEW G, NEW s \in BucketsOf(G), NEW r \in Recipe, NEW record,
         Faults \cap {"stranded", "unanswered"} = {}
  PROVE  FailedPublish(s, r, record) \subseteq BucketsOf(G)
<1>1. FailedPublish(s, r, record) \subseteq {s, RollbackChanges(PutRecord(s, r, record))}
  BY DEF FailedPublish, FailedApproval
<1>2. RollbackChanges(PutRecord(s, r, record)) \in BucketsOf(G)
  BY DEF BucketsOf, RollbackChanges, PutRecord
<1>3. QED
  BY <1>1, <1>2

LEMMA UsersPublishReviewed ==
  ASSUME PeerApprovalEnforced, Faults \cap {"stranded", "unanswered"} = {},
         TypeOK, DatabaseReviewed, rs \in BucketsOf(ReviewedRecord), Users
  PROVE  (rs \in BucketsOf(ReviewedRecord))'
<1>1. rs \in BucketsOf(ReviewedRecord')
  <2>1. verdicts \subseteq verdicts'
    BY DEF Users, Create, Revise, Delete, RequestApproval, Approve, ApproveDisabled,
           ApproveEnabled, ApproveRolledBack, Reject, Review, Close, Enable, Disable
  <2>2. ReviewedRecord \subseteq ReviewedRecord'
    BY <2>1 DEF ReviewedRecord, Reviewed
  <2>3. QED
    BY <2>2 DEF BucketsOf
<1>2. ASSUME NEW v \in Revision, NEW u \in User, ApproveEnabled(v, u)
      PROVE  rs' \in BucketsOf(ReviewedRecord')
  <2>1. verdicts' = verdicts \cup {<<v, "approved">>}
    BY <1>2, ReviewByPeer DEF ApproveEnabled
  <2>2. revision[v].recipe \in Recipe
    BY <1>2 DEF TypeOK, ApproveEnabled, Review, MayReview, Live, Row
  <2>3. RecordOf(v, Sign(v)) \in ReviewedRecord'
    BY <2>1 DEF ReviewedRecord, Reviewed, RecordOf, Record, Sign
  <2>4. QED
    BY <1>1, <1>2, <2>2, <2>3, PublishType DEF ApproveEnabled
<1>3. ASSUME NEW v \in Revision, NEW u \in User, ApproveRolledBack(v, u)
      PROVE  rs' \in BucketsOf(ReviewedRecord')
  <2>1. revision[v].recipe \in Recipe
    BY <1>3 DEF TypeOK, ApproveRolledBack, MayReview, Live, Row
  <2>2. QED
    BY <1>1, <1>3, <2>1, RevertedPublish DEF ApproveRolledBack
<1>4. ASSUME NEW r \in Recipe, Enable(r)
      PROVE  rs' \in BucketsOf(ReviewedRecord')
  <2>1. verdicts' = verdicts /\ approved[r] \in Revision /\ Reviewed(approved[r])
    BY <1>4 DEF TypeOK, DatabaseReviewed, Enable
  <2>2. RecordOf(approved[r], Sign(approved[r])) \in ReviewedRecord'
    BY <2>1 DEF ReviewedRecord, Reviewed, RecordOf, Record, Sign
  <2>3. QED
    BY <1>1, <1>4, <2>2, PublishType DEF Enable
<1>5. ASSUME NEW r \in Recipe, Disable(r)
      PROVE  rs' \in BucketsOf(ReviewedRecord')
  BY <1>1, <1>5, UnpublishType DEF Disable
<1>6. QED
  BY <1>1, <1>2, <1>3, <1>4, <1>5
     DEF Users, Create, Revise, Delete, RequestApproval, Approve, ApproveDisabled,
         Reject, Close

LEMMA CommandsPublishReviewed ==
  ASSUME TypeOK, DatabaseReviewed, rs \in BucketsOf(ReviewedRecord), Commands
  PROVE  (rs \in BucketsOf(ReviewedRecord))'
<1>1. ReviewedRecord' = ReviewedRecord
  BY DEF Commands, UpdateRecipeSignatures, UpdateRecipeSignaturesFails,
         SyncRemoteSettings, SyncRemoteSettingsFails, ReviewedRecord, Reviewed
<1>2. rs' \in BucketsOf(ReviewedRecord)
  BY EnabledIsReviewed, CommandsPublish DEF TypeOK
<1>3. QED
  BY <1>1, <1>2

\* Peer approval holds for what clients run as long as no refused approval of
\* changes stays in the workspace and none is applied without an answer
\* (exports.py: approve_changes reverts, models.py: approve rolls back).
THEOREM PublishedPeerApproval ==
  ASSUME Faults \cap {"stranded", "unanswered"} = {}
  PROVE  Spec => []OnlyReviewedPublished
<1> DEFINE Inv == PeerApprovalEnforced
                    => DatabaseReviewed /\ rs \in BucketsOf(ReviewedRecord)
<1>1. Init => Inv
  BY DEF Init, DatabaseReviewed, BucketsOf
<1>2. TypeOK /\ Inv /\ [Next]_vars => Inv'
  <2>1. DatabaseReviewed /\ rs \in BucketsOf(ReviewedRecord) /\ UNCHANGED vars
          => DatabaseReviewed' /\ (rs \in BucketsOf(ReviewedRecord))'
    BY DEF DatabaseReviewed, ReviewedRecord, Reviewed, vars
  <2>2. QED
    BY <2>1, UsersReviewed, CommandsReviewed, UsersPublishReviewed,
       CommandsPublishReviewed DEF Next
<1>3. Inv => OnlyReviewedPublished
  BY DEF OnlyReviewedPublished, BucketsOf, ReviewedRecord, Reviewed
<1>4. QED
  BY <1>1, <1>2, <1>3, TypeCorrect, PTL DEF Spec

-----------------------------------------------------------------------------
(* Whose revision is approved.                                             *)

\* The approved revision of a recipe is one of its own.
Owned ==
  \A r \in Recipe :
    approved[r] # None => revision[approved[r]] # None /\ revision[approved[r]].recipe = r

\* Rows are never rewritten: a revision that exists is what it was.
LEMMA RowsStay ==
  ASSUME TypeOK, [Next]_vars, NEW v \in Revision, revision[v] # None
  PROVE  revision'[v] = revision[v]
<1>1. ASSUME NEW r \in Recipe, NEW w \in Revision, NEW c \in Content,
             Create(r, w, c) \/ Revise(r, w, c)
      PROVE  revision'[v] = revision[v]
  BY <1>1 DEF TypeOK, Create, Revise
<1>2. ASSUME \A r \in Recipe, w \in Revision, c \in Content :
               ~Create(r, w, c) /\ ~Revise(r, w, c)
      PROVE  UNCHANGED revision
  BY <1>2 DEF Next, Users, Commands, vars, Delete, RequestApproval, Approve,
              ApproveDisabled, ApproveEnabled, ApproveRolledBack, Reject, Review, Close,
              Enable, Disable, UpdateRecipeSignatures, UpdateRecipeSignaturesFails,
              SyncRemoteSettings, SyncRemoteSettingsFails
<1>3. QED
  BY <1>1, <1>2

\* Only approving and deleting write the column.
LEMMA ApprovedChanges ==
  ASSUME TypeOK, [Next]_vars, NEW r \in Recipe, approved'[r] # approved[r]
  PROVE  \/ Delete(r) /\ approved'[r] = None
         \/ \E v \in Revision, u \in User :
              /\ ApproveDisabled(v, u) \/ ApproveEnabled(v, u)
              /\ revision[v] # None /\ revision[v].recipe = r
              /\ approved' = [approved EXCEPT ![r] = v]
<1>1. ASSUME NEW s \in Recipe, Delete(s)
      PROVE  s = r /\ approved'[r] = None
  BY <1>1 DEF Delete, TypeOK
<1>2. ASSUME NEW v \in Revision, NEW u \in User,
             ApproveDisabled(v, u) \/ ApproveEnabled(v, u)
      PROVE  /\ revision[v] # None /\ revision[v].recipe = r
             /\ approved' = [approved EXCEPT ![r] = v]
  BY <1>2 DEF ApproveDisabled, ApproveEnabled, Review, MayReview, Live, TypeOK, Row
<1>3. ASSUME \A s \in Recipe : ~Delete(s),
             \A v \in Revision, u \in User :
               ~ApproveDisabled(v, u) /\ ~ApproveEnabled(v, u)
      PROVE  UNCHANGED approved
  BY <1>3 DEF Next, Users, Commands, vars, Create, Revise, RequestApproval, Approve,
              ApproveRolledBack, Reject, Close, Enable, Disable,
              UpdateRecipeSignatures, UpdateRecipeSignaturesFails,
              SyncRemoteSettings, SyncRemoteSettingsFails
<1>4. QED
  BY <1>1, <1>2, <1>3

LEMMA OwnedInvariant == Spec => []Owned
<1>1. Init => Owned
  BY DEF Init, Owned
<1>2. TypeOK /\ Owned /\ [Next]_vars => Owned'
  <2> SUFFICES ASSUME TypeOK, Owned, [Next]_vars, NEW r \in Recipe, approved'[r] # None
               PROVE  revision'[approved'[r]] # None /\ revision'[approved'[r]].recipe = r
    BY DEF Owned
  <2>1. /\ approved'[r] \in Revision
        /\ revision[approved'[r]] # None
        /\ revision[approved'[r]].recipe = r
    BY ApprovedChanges DEF Owned, TypeOK
  <2>2. QED
    BY <2>1, RowsStay
<1>3. QED
  BY <1>1, <1>2, TypeCorrect, PTL DEF Spec

-----------------------------------------------------------------------------
(* An approval of an enabled recipe takes effect at once.                  *)

\* The transaction of approve (models.py) leaves the recipe enabled on the new
\* revision, with its record in the main bucket, or leaves it as it was.
THEOREM CarryOver == Spec => ApprovalCarriesOver
<1>1. TypeOK /\ [Next]_vars
        => [\A r \in recipes \cap recipes' :
              Enabled(r) /\ approved'[r] # approved[r]
                => Enabled(r)' /\ rs'.main[r] = LocalRecord(r)']_vars
  <2> SUFFICES ASSUME TypeOK, [Next]_vars, NEW r \in recipes \cap recipes',
                      Enabled(r), approved'[r] # approved[r]
               PROVE  Enabled(r)' /\ rs'.main[r] = LocalRecord(r)'
    OBVIOUS
  <2>1. r \in Recipe /\ ~Delete(r)
    BY DEF TypeOK, Delete
  <2>2. PICK v \in Revision, u \in User :
          /\ ApproveDisabled(v, u) \/ ApproveEnabled(v, u)
          /\ revision[v] # None /\ revision[v].recipe = r
          /\ approved' = [approved EXCEPT ![r] = v]
    BY <2>1, ApprovedChanges
  <2>3. ApproveEnabled(v, u)
    BY <2>2 DEF ApproveDisabled
  <2>4. Enabled(r)'
    BY <2>1, <2>2, <2>3, NoneAssumption DEF ApproveEnabled, Enabled, TypeOK
  <2>5. /\ approved'[r] = v
        /\ signature'[r] = Sign(v)
        /\ rs'.main[r] = RecordOf(v, Sign(v))
    BY <2>1, <2>2, <2>3
       DEF ApproveEnabled, TypeOK, Publish, PutRecord, ApproveChanges
  <2>6. QED
    BY <2>4, <2>5 DEF LocalRecord, RecordOf
<1>2. QED
  BY <1>1, TypeCorrect, PTL DEF Spec, ApprovalCarriesOver

-----------------------------------------------------------------------------
(* Enabled recipes.                                                        *)

\* Once requests that were approved stay, what is approved or switched on has
\* its approved request to show for it.
ApprovedInvariant ==
  /\ \A v \in Revision : enabled[v] => StatusOf(v) = "approved"
  /\ \A r \in Recipe : approved[r] # None => StatusOf(approved[r]) = "approved"

LEMMA ApprovedStays ==
  ASSUME "approved" \notin ClosableStatus
  PROVE  Spec => []ApprovedInvariant
<1>1. Init => ApprovedInvariant
  BY DEF Init, ApprovedInvariant
<1>2. TypeOK /\ Owned /\ ApprovedInvariant /\ [Next]_vars => ApprovedInvariant'
  <2> SUFFICES ASSUME TypeOK, Owned, ApprovedInvariant, [Next]_vars
               PROVE  ApprovedInvariant'
    OBVIOUS
  <2> USE NoneAssumption DEF ApprovedInvariant, StatusOf
  <2>1. ASSUME NEW r \in Recipe, NEW v \in Revision, NEW c \in Content,
               Create(r, v, c) \/ Revise(r, v, c)
        PROVE  ApprovedInvariant'
    BY <2>1 DEF TypeOK, Create, Revise
  <2>2. ASSUME NEW v \in Revision, NEW u \in User, RequestApproval(v, u)
        PROVE  ApprovedInvariant'
    BY <2>2 DEF TypeOK, RequestApproval
  <2>3. ASSUME NEW v \in Revision, NEW u \in User,
               ApproveDisabled(v, u) \/ ApproveEnabled(v, u)
        PROVE  ApprovedInvariant'
    <3>1. request' = [request EXCEPT ![v].status = "approved"] /\ request[v] \in Request
      BY <2>3 DEF TypeOK, ApproveDisabled, ApproveEnabled, Review, MayReview
    <3>2. /\ request'[v].status = "approved" /\ request'[v] \in Request
          /\ \A w \in Revision : w # v => request'[w] = request[w]
      BY <3>1 DEF TypeOK, Request, Status
    <3>3. revision[v].recipe \in Recipe
      BY <2>3 DEF TypeOK, ApproveDisabled, ApproveEnabled, Review, MayReview, Live, Row
    <3>4. QED
      BY <2>3, <3>2, <3>3 DEF TypeOK, ApproveDisabled, ApproveEnabled
  <2>4. ASSUME NEW v \in Revision, NEW u \in User, Reject(v, u)
        PROVE  ApprovedInvariant'
    BY <2>4 DEF TypeOK, Reject, Review, MayReview
  <2>5. ASSUME NEW v \in Revision, Close(v)
        PROVE  ApprovedInvariant'
    BY <2>5 DEF TypeOK, Close
  <2>6. ASSUME NEW r \in Recipe, Enable(r) \/ Disable(r)
        PROVE  ApprovedInvariant'
    BY <2>6 DEF TypeOK, Enable, Disable
  <2>7. ASSUME NEW r \in Recipe, Delete(r)
        PROVE  ApprovedInvariant'
    <3>1. ASSUME NEW s \in Recipe, approved'[s] # None
          PROVE  s # r /\ approved'[s] = approved[s] /\ approved[s] \notin RevisionsOf(r)
      BY <2>7, <3>1 DEF TypeOK, Delete, Owned, RevisionsOf
    <3>2. \A v \in Revision : v \notin RevisionsOf(r) => request'[v] = request[v]
      BY <2>7 DEF Delete
    <3>3. \A v \in Revision : enabled'[v] => enabled[v] /\ v \notin RevisionsOf(r)
      BY <2>7 DEF Delete
    <3>4. ASSUME NEW s \in Recipe, approved'[s] # None
          PROVE  request'[approved'[s]] = request[approved[s]] /\ approved'[s] = approved[s]
      BY <3>1, <3>2, <3>4 DEF TypeOK
    <3>5. QED
      BY <3>1, <3>2, <3>3, <3>4
  <2>8. ASSUME UNCHANGED <<approved, enabled, request>>
        PROVE  ApprovedInvariant'
    BY <2>8
  <2>9. QED
    BY <2>1, <2>2, <2>3, <2>4, <2>5, <2>6, <2>7, <2>8
       DEF Next, Users, Commands, vars, Approve, ApproveRolledBack,
           UpdateRecipeSignatures, UpdateRecipeSignaturesFails, SyncRemoteSettings,
           SyncRemoteSettingsFails
<1>3. QED
  BY <1>1, <1>2, TypeCorrect, OwnedInvariant, PTL DEF Spec

\* Approving a revision never switches a recipe on (models.py: approve carries
\* the state of an enabled recipe over, and only that), so long as users do not
\* close requests that were approved.
THEOREM OnlyEnabling ==
  ASSUME "approved" \notin ClosableStatus
  PROVE  Spec => OnlyEnableSwitchesOn
<1>1. TypeOK /\ Owned /\ ApprovedInvariant /\ [Next]_vars
        => [\A r \in Recipe : ~Enabled(r) /\ Enabled(r)' => approved'[r] = approved[r]]_vars
  <2> SUFFICES ASSUME TypeOK, ApprovedInvariant, [Next]_vars, NEW r \in Recipe,
                      ~Enabled(r), Enabled(r)', approved'[r] # approved[r]
               PROVE  FALSE
    OBVIOUS
  <2>1. PICK v \in Revision, u \in User :
          /\ ApproveDisabled(v, u) \/ ApproveEnabled(v, u)
          /\ revision[v] # None /\ revision[v].recipe = r
          /\ approved' = [approved EXCEPT ![r] = v]
    BY ApprovedChanges DEF Enabled
  <2>2. ApproveDisabled(v, u) /\ enabled[v]
    BY <2>1 DEF ApproveDisabled, ApproveEnabled, Enabled, TypeOK
  <2>3. StatusOf(v) = "pending"
    BY <2>2 DEF ApproveDisabled, Review, MayReview
  <2>4. QED
    BY <2>2, <2>3 DEF ApprovedInvariant
<1>2. QED
  BY <1>1, TypeCorrect, OwnedInvariant, ApprovedStays, PTL DEF Spec, OnlyEnableSwitchesOn

\* An enabled recipe was enabled before, on the same revision, or was just
\* enabled or approved, and then no other recipe changed.
LEMMA EnabledChanges ==
  ASSUME TypeOK, Owned, [Next]_vars, NEW r \in Recipe, Enabled(r)',
         ~Enabled(r) => approved'[r] = approved[r]
  PROVE  \/ Enabled(r) /\ approved'[r] = approved[r]
         \/ /\ NoConflict(r, approved'[r])
            /\ \A s \in Recipe \ {r} : Enabled(s)' =>
                 Enabled(s) /\ approved'[s] = approved[s]
<1>1. CASE approved'[r] # approved[r]
  <2>1. PICK v \in Revision, u \in User :
          /\ ApproveDisabled(v, u) \/ ApproveEnabled(v, u)
          /\ revision[v] # None /\ revision[v].recipe = r
          /\ approved' = [approved EXCEPT ![r] = v]
    BY <1>1, ApprovedChanges DEF Enabled
  <2>2. ApproveEnabled(v, u)
    BY <1>1, <2>1 DEF ApproveDisabled
  <2>3. ASSUME NEW s \in Recipe \ {r}, Enabled(s)'
        PROVE  Enabled(s) /\ approved'[s] = approved[s]
    <3>1. approved'[s] = approved[s] /\ approved[s] # v
      BY <2>1, <2>3, NoneAssumption DEF Owned, TypeOK, Enabled
    <3>2. QED
      BY <2>2, <2>3, <3>1 DEF ApproveEnabled, Enabled, TypeOK
  <2>4. NoConflict(r, approved'[r])
    BY <2>1, <2>2 DEF ApproveEnabled, TypeOK
  <2>5. QED
    BY <2>3, <2>4
<1>2. CASE approved'[r] = approved[r] /\ ~Enabled(r)
  <2>1. approved[r] \in Revision /\ enabled'[approved[r]] /\ r \in recipes'
    BY <1>2 DEF Enabled, TypeOK
  <2>2. r \in recipes
    <3>1. ASSUME NEW s \in Recipe, NEW v \in Revision, NEW c \in Content,
                 Create(s, v, c)
          PROVE  s # r
      BY <2>1, <3>1, NoneAssumption DEF Owned, Create, RevisionsOf
    <3>2. QED
      BY <2>1, <3>1
         DEF Next, Users, Commands, vars, Create, Revise, Delete, RequestApproval,
             Approve, ApproveDisabled, ApproveEnabled, ApproveRolledBack, Reject, Close,
             Enable, Disable, UpdateRecipeSignatures, UpdateRecipeSignaturesFails,
             SyncRemoteSettings, SyncRemoteSettingsFails
  <2>3. ~enabled[approved[r]]
    BY <1>2, <2>1, <2>2, NoneAssumption DEF Enabled
  <2>4. Enable(r)
    <3>1. ASSUME NEW v \in Revision, NEW u \in User, ApproveEnabled(v, u)
          PROVE  approved'[r] = approved[r] => enabled'[approved[r]] = enabled[approved[r]]
      <4>1. revision[v].recipe # r
        BY <1>2, <3>1 DEF ApproveEnabled
      <4>2. v # approved[r]
        BY <2>1, <4>1, NoneAssumption DEF Owned
      <4>3. QED
        BY <2>1, <3>1, <4>2 DEF ApproveEnabled, TypeOK
    <3>2. ASSUME NEW s \in Recipe, Enable(s), s # r
          PROVE  enabled'[approved[r]] = enabled[approved[r]]
      <4>1. approved[s] # approved[r]
        BY <2>1, <3>2, NoneAssumption DEF Owned, Enable
      <4>2. QED
        BY <2>1, <3>2, <4>1 DEF Enable, TypeOK
    <3>3. ASSUME NEW s \in Recipe, Disable(s)
          PROVE  enabled'[approved[r]] => enabled[approved[r]]
      BY <2>1, <3>3 DEF Disable, TypeOK
    <3>4. QED
      BY <1>2, <2>1, <2>3, <3>1, <3>2, <3>3
         DEF Next, Users, Commands, vars, Create, Revise, Delete, RequestApproval,
             Approve, ApproveDisabled, ApproveRolledBack, Reject, Close,
             UpdateRecipeSignatures, UpdateRecipeSignaturesFails, SyncRemoteSettings,
             SyncRemoteSettingsFails
  <2>5. ASSUME NEW s \in Recipe \ {r}, Enabled(s)'
        PROVE  Enabled(s) /\ approved'[s] = approved[s]
    <3>1. approved' = approved /\ recipes' = recipes /\ approved[s] # approved[r]
      BY <2>1, <2>4, <2>5, NoneAssumption DEF Owned, Enable, Enabled
    <3>2. QED
      BY <2>4, <2>5, <3>1 DEF Enable, Enabled, TypeOK
  <2>6. NoConflict(r, approved'[r])
    BY <1>2, <2>4 DEF Enable
  <2>7. QED
    BY <2>5, <2>6
<1>3. QED
  BY <1>1, <1>2

\* The invariance of rollouts and rollbacks that the docstring of
\* _validate_preference_rollout_rollback_enabled_invariance (models.py) states
\* holds of every reachable state, so long as users do not close requests that
\* were approved.
THEOREM RolloutRollback ==
  ASSUME "approved" \notin ClosableStatus
  PROVE  Spec => []NoConflictEnabled
<1> DEFINE SwitchesOn ==
      \A r \in Recipe : ~Enabled(r) /\ Enabled(r)' => approved'[r] = approved[r]
<1>1. Init => NoConflictEnabled
  BY DEF Init, NoConflictEnabled, EnabledRecipes
<1>2. TypeOK /\ TypeOK' /\ Owned /\ NoConflictEnabled /\ [SwitchesOn]_vars /\ [Next]_vars
        => NoConflictEnabled'
  <2> SUFFICES ASSUME TypeOK, TypeOK', Owned, NoConflictEnabled, [SwitchesOn]_vars,
                      [Next]_vars, NEW r \in EnabledRecipes', NEW s \in EnabledRecipes',
                      r # s
               PROVE  <<revision'[approved'[r]].content, revision'[approved'[s]].content>>
                        \notin Conflicts
    BY DEF NoConflictEnabled
  <2>1. ASSUME NEW t \in EnabledRecipes'
        PROVE  /\ t \in Recipe /\ Enabled(t)'
               /\ ~Enabled(t) => approved'[t] = approved[t]
               /\ approved'[t] \in Revision
    <3>1. t \in Recipe /\ Enabled(t)' /\ approved'[t] \in Revision
      BY DEF EnabledRecipes, Enabled, TypeOK
    <3>2. QED
      BY <3>1 DEF vars
  <2>2. ASSUME NEW t \in EnabledRecipes'
        PROVE  /\ revision[approved'[t]] # None
               /\ revision'[approved'[t]] = revision[approved'[t]]
               /\ revision[approved'[t]].content \in Content
    <3>1. revision[approved'[t]] # None
      BY <2>1, ApprovedChanges, NoneAssumption DEF Owned, TypeOK, Enabled
    <3>2. QED
      BY <2>1, <3>1, RowsStay DEF TypeOK, Row
  <2>3. ASSUME NEW t \in EnabledRecipes'
        PROVE  \/ Enabled(t) /\ approved'[t] = approved[t]
               \/ /\ NoConflict(t, approved'[t])
                  /\ \A w \in Recipe \ {t} : Enabled(w)' =>
                       Enabled(w) /\ approved'[w] = approved[w]
    BY <2>1, EnabledChanges
  <2>4. CASE /\ Enabled(r) /\ approved'[r] = approved[r]
             /\ Enabled(s) /\ approved'[s] = approved[s]
    BY <2>2, <2>4 DEF NoConflictEnabled, EnabledRecipes, Enabled
  <2>5. ASSUME NEW t \in EnabledRecipes', NEW w \in EnabledRecipes', t # w,
               NoConflict(t, approved'[t]), Enabled(w), approved'[w] = approved[w]
        PROVE  <<revision'[approved'[t]].content, revision'[approved'[w]].content>>
                 \notin Conflicts
    BY <2>2, <2>5 DEF NoConflict, EnabledRecipes, Enabled
  <2>6. \A c, d \in Content : <<c, d>> \in Conflicts => <<d, c>> \in Conflicts
    BY ConstantsAssumption
  <2>7. QED
    BY <2>1, <2>2, <2>3, <2>4, <2>5, <2>6
<1>3. QED
  BY <1>1, <1>2, TypeCorrect, OwnedInvariant, OnlyEnabling, PTL
     DEF Spec, OnlyEnableSwitchesOn

-----------------------------------------------------------------------------
(* Signatures.                                                             *)

\* Signing an enabled recipe, or another one, leaves enabled recipes signed.
LEMMA ResignedMatches ==
  ASSUME TypeOK, SignatureMatches, NEW s \in Recipe,
         UNCHANGED <<recipes, approved, enabled>>,
         signature' = [signature EXCEPT ![s] = UpdatedSignature(s)]
  PROVE  SignatureMatches'
BY DEF TypeOK, SignatureMatches, EnabledRecipes, Enabled, UpdatedSignature, Sign

LEMMA UsersMatch ==
  ASSUME "sign" \notin Faults, TypeOK, Owned, SignatureMatches, Users
  PROVE  SignatureMatches'
<1> USE NoneAssumption
<1>1. ASSUME NEW r \in Recipe, NEW v \in Revision, NEW c \in Content, Create(r, v, c)
      PROVE  SignatureMatches'
  <2>1. approved[r] = None
    BY <1>1 DEF TypeOK, Owned, Create, RevisionsOf
  <2>2. QED
    BY <1>1, <2>1 DEF TypeOK, Create, SignatureMatches, EnabledRecipes, Enabled, Sign
<1>2. ASSUME NEW r \in Recipe, NEW v \in Revision, NEW c \in Content, Revise(r, v, c)
      PROVE  SignatureMatches'
  BY <1>2, ResignedMatches DEF Revise
<1>3. ASSUME NEW v \in Revision,
             \/ Close(v)
             \/ \E u \in User : Reject(v, u) \/ RequestApproval(v, u)
      PROVE  SignatureMatches'
  <2>1. revision[v].recipe \in Recipe
    BY <1>3 DEF TypeOK, Close, Reject, RequestApproval, Review, MayReview, Live, Row
  <2>2. UNCHANGED <<recipes, approved, enabled>>
    BY <1>3 DEF Close, Reject, RequestApproval
  <2>3. LET r == revision[v].recipe
        IN  signature' = [signature EXCEPT ![r] = UpdatedSignature(r)]
    BY <1>3 DEF Close, Reject, RequestApproval, SigningFails
  <2>4. QED
    BY <2>1, <2>2, <2>3, ResignedMatches
<1>4. ASSUME NEW v \in Revision, NEW u \in User, ApproveDisabled(v, u)
      PROVE  SignatureMatches'
  <2>1. revision[v].recipe \in Recipe
    BY <1>4 DEF TypeOK, ApproveDisabled, Review, MayReview, Live, Row
  <2>2. QED
    BY <1>4, <2>1
       DEF TypeOK, ApproveDisabled, SignatureMatches, EnabledRecipes, Enabled, Sign
<1>5. ASSUME NEW v \in Revision, NEW u \in User, ApproveEnabled(v, u)
      PROVE  SignatureMatches'
  <2>1. revision[v].recipe \in Recipe
    BY <1>5 DEF TypeOK, ApproveEnabled, Review, MayReview, Live, Row
  <2>2. \A s \in Recipe : s # revision[v].recipe => approved[s] # v
    BY DEF Owned
  <2>3. QED
    BY <1>5, <2>1, <2>2
       DEF TypeOK, ApproveEnabled, SignatureMatches, EnabledRecipes, Enabled
<1>6. ASSUME NEW r \in Recipe, Enable(r)
      PROVE  SignatureMatches'
  <2>1. \A s \in Recipe : s # r => approved[s] # approved[r]
    BY <1>6 DEF Owned, Enable
  <2>2. signature' = [signature EXCEPT ![r] = Sign(approved[r])]
    BY <1>6 DEF Enable, SigningFails
  <2>3. QED
    BY <1>6, <2>1, <2>2 DEF TypeOK, Enable, SignatureMatches, EnabledRecipes, Enabled
<1>7. ASSUME NEW r \in Recipe, Disable(r) \/ Delete(r)
      PROVE  SignatureMatches'
  BY <1>7 DEF TypeOK, Disable, Delete, SignatureMatches, EnabledRecipes, Enabled, Sign
<1>8. ASSUME NEW v \in Revision, NEW u \in User, ApproveRolledBack(v, u)
      PROVE  SignatureMatches'
  BY <1>8 DEF ApproveRolledBack, SignatureMatches, EnabledRecipes, Enabled
<1>9. QED
  BY <1>1, <1>2, <1>3, <1>4, <1>5, <1>6, <1>7, <1>8 DEF Users, Approve

LEMMA CommandsMatch ==
  ASSUME TypeOK, SignatureMatches, Commands
  PROVE  SignatureMatches'
<1>1. /\ EnabledRecipes' = EnabledRecipes
      /\ approved' = approved
  BY DEF Commands, UpdateRecipeSignatures, UpdateRecipeSignaturesFails,
         SyncRemoteSettings, SyncRemoteSettingsFails, EnabledRecipes, Enabled
<1>2. ASSUME NEW S
      PROVE  \A r \in EnabledRecipes : SignedBy(S)[r] = Sign(approved[r])
  BY DEF TypeOK, SignedBy, SignatureMatches, EnabledRecipes
<1>3. \A r \in EnabledRecipes : signature'[r] = Sign(approved[r])
  <2>1. ASSUME NEW S \in SUBSET recipes, UpdateRecipeSignatures(S)
        PROVE  \A r \in EnabledRecipes : signature'[r] = Sign(approved[r])
    BY <1>2, <2>1 DEF UpdateRecipeSignatures, TypeOK, EnabledRecipes
  <2>2. ASSUME NEW S \in SUBSET recipes, NEW P \in SUBSET S,
               UpdateRecipeSignaturesFails(S, P)
        PROVE  \A r \in EnabledRecipes : signature'[r] = Sign(approved[r])
    <3>1. PICK T : signature' = SignedBy(T)
      BY <2>2 DEF UpdateRecipeSignaturesFails
    <3>2. QED
      BY <1>2, <3>1
  <2>3. CASE SyncRemoteSettings \/ SyncRemoteSettingsFails
    BY <2>3 DEF SyncRemoteSettings, SyncRemoteSettingsFails, SignatureMatches
  <2>4. QED
    BY <2>1, <2>2, <2>3 DEF Commands
<1>4. QED
  BY <1>1, <1>3 DEF SignatureMatches, Sign

\* When Autograph always answers, every enabled recipe is signed, and with the
\* signature of the revision it is served from (models.py: update_signature).
THEOREM EnabledSigned ==
  ASSUME "sign" \notin Faults
  PROVE  Spec => []SignatureMatches
<1>1. Init => SignatureMatches
  BY DEF Init, SignatureMatches, EnabledRecipes
<1>2. TypeOK /\ Owned /\ SignatureMatches /\ [Next]_vars => SignatureMatches'
  <2>1. SignatureMatches /\ UNCHANGED vars => SignatureMatches'
    BY DEF SignatureMatches, EnabledRecipes, Enabled, vars, Sign
  <2>2. QED
    BY <2>1, UsersMatch, CommandsMatch DEF Next
<1>3. QED
  BY <1>1, <1>2, TypeCorrect, OwnedInvariant, PTL DEF Spec

SignedRecord == {d \in Record : d.signature = Sign(d.revision)}

\* When Autograph always answers, every record that clients fetch is signed with
\* the signature of the revision in it (exports.py: recipe_as_record), because
\* records are made from rows that are enabled, and hence signed.
THEOREM PublishedSigned ==
  ASSUME "sign" \notin Faults
  PROVE  Spec => []PublishedSignatureMatches
<1> DEFINE Inv == rs \in BucketsOf(SignedRecord)
<1>1. Init => Inv
  BY DEF Init, BucketsOf
<1>2. TypeOK /\ SignatureMatches /\ Inv /\ [Next]_vars => Inv'
  <2> SUFFICES ASSUME TypeOK, SignatureMatches, Inv, [Next]_vars PROVE Inv'
    OBVIOUS
  <2>1. \A v \in Revision : RecordOf(v, Sign(v)) \in SignedRecord
    BY DEF SignedRecord, RecordOf, Record, Sign
  <2>2. ASSUME NEW v \in Revision, NEW u \in User,
               ApproveEnabled(v, u) \/ ApproveRolledBack(v, u)
        PROVE  Inv'
    <3>1. revision[v].recipe \in Recipe
      BY <2>2 DEF TypeOK, ApproveEnabled, ApproveRolledBack, Review, MayReview, Live, Row
    <3>2. LET r == revision[v].recipe
              record == RecordOf(v, Sign(v))
          IN  rs' \in {Publish(rs, r, record)} \cup FailedPublish(rs, r, record)
      BY <2>2 DEF ApproveEnabled, ApproveRolledBack
    <3>3. QED
      BY <2>1, <3>1, <3>2, PublishType
  <2>3. ASSUME NEW r \in Recipe, Enable(r)
        PROVE  Inv'
    <3>1. approved[r] \in Revision
      BY <2>3 DEF TypeOK, Enable
    <3>2. QED
      BY <2>1, <2>3, <3>1, PublishType DEF Enable
  <2>4. ASSUME NEW r \in Recipe, Disable(r)
        PROVE  Inv'
    BY <2>4, UnpublishType DEF Disable
  <2>5. CASE Commands
    <3>1. \A r \in EnabledRecipes :
            /\ RecordOf(approved[r], Sign(approved[r])) \in SignedRecord
            /\ LocalRecord(r) \in SignedRecord
      BY <2>1 DEF TypeOK, SignatureMatches, LocalRecord, EnabledRecipes, Enabled
    <3>2. QED
      BY <2>5, <3>1, CommandsPublish DEF TypeOK
  <2>6. CASE UNCHANGED rs
    BY <2>6
  <2>7. QED
    BY <2>2, <2>3, <2>4, <2>5, <2>6
       DEF Next, Users, Create, Revise, Delete, RequestApproval, Approve, ApproveDisabled,
           Reject, Close, vars
<1>3. Inv => PublishedSignatureMatches
  BY DEF BucketsOf, SignedRecord, PublishedSignatureMatches
<1>4. QED
  BY <1>1, <1>2, <1>3, TypeCorrect, EnabledSigned, PTL DEF Spec

-----------------------------------------------------------------------------
(* The history of a recipe.                                                *)

\* Only a recipe's latest revision has no child, so that a new one, its child,
\* lengthens the chain at its end; requests and approvals stay on the chain
\* (models.py: revise, approve).
THEOREM OneChain == Spec => []HistoryIsAChain
<1>1. Init => HistoryIsAChain
  BY DEF Init, HistoryIsAChain
<1>2. TypeOK /\ Owned /\ HistoryIsAChain /\ [Next]_vars => HistoryIsAChain'
  <2> SUFFICES ASSUME TypeOK, Owned, HistoryIsAChain, [Next]_vars PROVE HistoryIsAChain'
    OBVIOUS
  <2> USE NoneAssumption
  <2>1. ASSUME UNCHANGED revision, recipes' \subseteq recipes,
               \A r \in recipes' :
                 /\ latest'[r] = latest[r]
                 /\ approved'[r] \in {approved[r]} \cup RevisionsOf(r)
        PROVE  HistoryIsAChain'
    BY <2>1 DEF HistoryIsAChain, RevisionsOf
  <2>2. ASSUME NEW r \in Recipe, NEW v \in Revision, NEW c \in Content, Create(r, v, c)
        PROVE  HistoryIsAChain'
    <3>1. /\ RevisionsOf(r)' = {v}
          /\ \A s \in Recipe \ {r} : RevisionsOf(s)' = RevisionsOf(s)
          /\ revision'[v].parent = None
          /\ \A w \in Revision \ {v} : revision'[w] = revision[w]
      <4> DEFINE row == [recipe |-> r, parent |-> None, content |-> c]
      <4>1. row \in Row /\ row # None
        BY <2>2 DEF TypeOK, Row
      <4>2. revision'[v] = row /\ \A w \in Revision \ {v} : revision'[w] = revision[w]
        BY <2>2 DEF TypeOK, Create
      <4>3. revision[v] = None /\ RevisionsOf(r) = {}
        BY <2>2 DEF Create
      <4>4. RevisionsOf(r)' = {v}
        BY <4>1, <4>2, <4>3 DEF RevisionsOf
      <4>5. ASSUME NEW s \in Recipe \ {r}
            PROVE  RevisionsOf(s)' = RevisionsOf(s)
        BY <4>1, <4>2, <4>3 DEF RevisionsOf
      <4>6. QED
        BY <4>2, <4>4, <4>5
    <3>2. approved'[r] = None
      BY <2>2 DEF TypeOK, Owned, Create, RevisionsOf
    <3>3. \A s \in Recipe \ {r} : v \notin RevisionsOf(s)
      BY <2>2 DEF Create, RevisionsOf
    <3>4. QED
      BY <2>2, <3>1, <3>2, <3>3 DEF TypeOK, Create, HistoryIsAChain
  <2>3. ASSUME NEW r \in Recipe, NEW v \in Revision, NEW c \in Content, Revise(r, v, c)
        PROVE  HistoryIsAChain'
    <3>1. /\ RevisionsOf(r)' = RevisionsOf(r) \cup {v}
          /\ \A s \in Recipe \ {r} : RevisionsOf(s)' = RevisionsOf(s)
          /\ revision'[v].parent = latest[r]
          /\ \A w \in Revision \ {v} : revision'[w] = revision[w]
      <4> DEFINE row == [recipe |-> r, parent |-> latest[r], content |-> c]
      <4>1. row \in Row /\ row # None
        BY <2>3 DEF TypeOK, Row
      <4>2. revision'[v] = row /\ \A w \in Revision \ {v} : revision'[w] = revision[w]
        BY <2>3 DEF TypeOK, Revise
      <4>3. revision[v] = None
        BY <2>3 DEF Revise
      <4>4. RevisionsOf(r)' = RevisionsOf(r) \cup {v}
        BY <4>1, <4>2, <4>3 DEF RevisionsOf
      <4>5. ASSUME NEW s \in Recipe \ {r}
            PROVE  RevisionsOf(s)' = RevisionsOf(s)
        BY <4>1, <4>2, <4>3 DEF RevisionsOf
      <4>6. QED
        BY <4>2, <4>4, <4>5
    <3>2. \A s \in Recipe : v \notin RevisionsOf(s)
      BY <2>3 DEF Revise, RevisionsOf
    <3>3. /\ recipes' = recipes /\ r \in recipes /\ approved' = approved
          /\ latest'[r] = v /\ \A s \in Recipe \ {r} : latest'[s] = latest[s]
      BY <2>3 DEF TypeOK, Revise
    <3> DEFINE Chain(s) ==
                 /\ latest[s] \in RevisionsOf(s)
                 /\ approved[s] \in RevisionsOf(s) \cup {None}
                 /\ \A w, x \in RevisionsOf(s) : revision[w].parent = revision[x].parent => w = x
                 /\ \A w \in RevisionsOf(s) : revision[w].parent \in RevisionsOf(s) \cup {None}
                 /\ \A w \in RevisionsOf(s) :
                      (\A x \in RevisionsOf(s) : revision[x].parent # w) <=> w = latest[s]
    <3>4. \A s \in recipes : Chain(s)
      BY DEF HistoryIsAChain
    <3>5. ASSUME NEW s \in recipes \ {r}
          PROVE  Chain(s)'
      <4>1. \A w \in RevisionsOf(s) : revision'[w] = revision[w]
        BY <3>1, <3>2, <3>5 DEF TypeOK, RevisionsOf
      <4>2. QED
        BY <3>1, <3>3, <3>4, <3>5, <4>1 DEF TypeOK
    <3>6. Chain(r)'
      <4>1. \A w \in RevisionsOf(r) : revision'[w] = revision[w] /\ w # v
        BY <3>1, <3>2 DEF RevisionsOf
      <4>2. v \notin RevisionsOf(r) /\ v # None
        BY <3>2
      <4>3. Chain(r)
        BY <3>3, <3>4
      <4>4. latest'[r] \in RevisionsOf(r)'
            /\ approved'[r] \in RevisionsOf(r)' \cup {None}
        BY <3>1, <3>3, <4>3
      <4>5. \A w, x \in RevisionsOf(r)' : revision'[w].parent = revision'[x].parent => w = x
        BY <3>1, <4>1, <4>3
      <4>6. \A w \in RevisionsOf(r)' : revision'[w].parent \in RevisionsOf(r)' \cup {None}
        BY <3>1, <4>1, <4>3
      <4>7. \A w \in RevisionsOf(r)' :
              (\A x \in RevisionsOf(r)' : revision'[x].parent # w) <=> w = latest'[r]
        BY <3>1, <3>3, <4>1, <4>2, <4>3
      <4>8. QED
        BY <4>4, <4>5, <4>6, <4>7
    <3>7. QED
      BY <3>3, <3>5, <3>6 DEF HistoryIsAChain
  <2>4. ASSUME NEW v \in Revision, NEW u \in User, ApproveDisabled(v, u) \/ ApproveEnabled(v, u)
        PROVE  HistoryIsAChain'
    <3>1. revision[v].recipe \in Recipe /\ v \in RevisionsOf(revision[v].recipe)
      BY <2>4 DEF TypeOK, ApproveDisabled, ApproveEnabled, Review, MayReview, Live, Row,
                  RevisionsOf
    <3>2. QED
      BY <2>1, <2>4, <3>1 DEF TypeOK, ApproveDisabled, ApproveEnabled
  <2>5. ASSUME NEW r \in Recipe, Delete(r)
        PROVE  HistoryIsAChain'
    BY <2>1, <2>5 DEF TypeOK, Delete
  <2>6. CASE UNCHANGED <<recipes, latest, approved, revision>>
    BY <2>1, <2>6
  <2>7. QED
    BY <2>2, <2>3, <2>4, <2>5, <2>6
       DEF Next, Users, RequestApproval, Approve, ApproveRolledBack, Reject, Close, Enable,
           Disable, Commands, UpdateRecipeSignatures, UpdateRecipeSignaturesFails,
           SyncRemoteSettings, SyncRemoteSettingsFails, vars
<1>3. QED
  BY <1>1, <1>2, TypeCorrect, OwnedInvariant, PTL DEF Spec

-----------------------------------------------------------------------------
(* Refinement.                                                             *)

\* What the promise speaks of, for one recipe.
ApprovedByPeer == {v \in Revision : Reviewed(v)}
Fetched == [r \in Recipe |-> IF rs.main[r] = None THEN None ELSE rs.main[r].revision]

\* Clients are only given what was reviewed, whatever the step.
LEMMA ServingImplemented ==
  ASSUME PeerApprovalEnforced, TypeOK', OnlyReviewedPublished'
  PROVE  Promise!Serving
<1>1. ASSUME NEW r \in Recipe, rs'.main[r] # None
      PROVE  rs'.main[r].revision \in ApprovedByPeer'
  BY <1>1 DEF TypeOK, Record, OnlyReviewedPublished, ApprovedByPeer, Reviewed
<1>2. QED
  BY <1>1 DEF Promise!Serving, ApprovedByPeer, Reviewed

\* A step that changes neither what is approved, nor what is on, nor what peers
\* approved is at most a new delivery.
LEMMA RepublishImplemented ==
  ASSUME PeerApprovalEnforced, TypeOK', OnlyReviewedPublished',
         UNCHANGED <<approved, ApprovedByPeer, EnabledRecipes>>
  PROVE  Promise!Next
BY ServingImplemented DEF Promise!Next, Promise!Republish, ApprovedByPeer, Reviewed

LEMMA UsersImplement ==
  ASSUME PeerApprovalEnforced, TypeOK, TypeOK', Owned, ApprovedInvariant,
         OnlyReviewedPublished', Users
  PROVE  Promise!Next
<1> USE NoneAssumption
<1>1. ASSUME NEW r \in Recipe, NEW v \in Revision, NEW c \in Content, Create(r, v, c)
      PROVE  Promise!Next
  <2>1. approved[r] = None
    BY <1>1 DEF TypeOK, Owned, Create, RevisionsOf
  <2>2. UNCHANGED <<approved, ApprovedByPeer, EnabledRecipes>>
    BY <1>1, <2>1 DEF Create, ApprovedByPeer, Reviewed, EnabledRecipes, Enabled
  <2>3. QED
    BY <2>2, RepublishImplemented
<1>2. ASSUME NEW v \in Revision, NEW u \in User,
             ApproveDisabled(v, u) \/ ApproveEnabled(v, u)
      PROVE  Promise!Next
  <2>1. PICK r \in Recipe : r = revision[v].recipe /\ StatusOf(v) = "pending"
    BY <1>2 DEF TypeOK, ApproveDisabled, ApproveEnabled, Review, MayReview, Live, Row
  <2>2. ~enabled[v] /\ \A s \in Recipe \ {r} : approved[s] # v
    BY <2>1 DEF ApprovedInvariant, Owned
  <2>3. verdicts' = verdicts \cup {<<v, "approved">>}
    BY <1>2, ReviewByPeer DEF ApproveDisabled, ApproveEnabled
  <2>4. ApprovedByPeer' = ApprovedByPeer \cup {v}
    BY <2>3 DEF ApprovedByPeer, Reviewed
  <2>5. approved' = [approved EXCEPT ![r] = v] /\ recipes' = recipes
    BY <2>1, <1>2 DEF ApproveDisabled, ApproveEnabled
  <2>6. EnabledRecipes' = EnabledRecipes
    <3>1. /\ ~Enabled(r) => enabled' = enabled
          /\ Enabled(r) => enabled' = [enabled EXCEPT ![v] = TRUE]
      BY <2>1, <1>2 DEF ApproveDisabled, ApproveEnabled
    <3>2. \A w \in Revision \ {v} : enabled'[w] = enabled[w]
      BY <3>1 DEF TypeOK
    <3>3. ASSUME NEW s \in Recipe \ {r}
          PROVE  Enabled(s)' <=> Enabled(s)
      <4>1. approved'[s] = approved[s] /\ approved[s] \in (Revision \ {v}) \cup {None}
        BY <2>2, <2>5 DEF TypeOK
      <4>2. QED
        BY <2>5, <3>2, <4>1 DEF Enabled
    <3>4. Enabled(r)' <=> Enabled(r)
      <4>1. approved'[r] = v /\ v # None
        BY <2>1, <2>5 DEF TypeOK
      <4>2. enabled'[v] <=> Enabled(r)
        BY <2>2, <3>1 DEF TypeOK
      <4>3. r \in recipes
        BY <2>1, <1>2 DEF ApproveDisabled, ApproveEnabled, Review, MayReview, Live
      <4>4. Enabled(r)' <=> enabled'[v]
        BY <2>5, <4>1, <4>3 DEF Enabled
      <4>5. QED
        BY <4>2, <4>4
    <3>5. \A s \in recipes : Enabled(s)' <=> Enabled(s)
      BY <2>1, <3>3, <3>4 DEF TypeOK
    <3>6. QED
      BY <2>5, <3>5 DEF EnabledRecipes
  <2>7. r \in EnabledRecipes => Fetched'[r] = v
    <3> SUFFICES ASSUME Enabled(r) PROVE Fetched'[r] = v
      BY <2>1 DEF EnabledRecipes
    <3>1. rs'.main[r] = RecordOf(v, Sign(v))
      <4>1. ApproveEnabled(v, u)
        BY <2>1, <1>2 DEF ApproveDisabled
      <4>2. rs' = Publish(rs, r, RecordOf(v, Sign(v)))
        BY <2>1, <4>1 DEF ApproveEnabled
      <4>3. QED
        BY <2>1, <4>2 DEF TypeOK, Publish, PutRecord, ApproveChanges
    <3>2. RecordOf(v, Sign(v)) \in Record
      BY DEF RecordOf, Record, Sign
    <3>3. QED
      BY <2>1, <3>1, <3>2 DEF Fetched, RecordOf
  <2>8. Promise!Approve(r, v)
    BY <2>4, <2>5, <2>6, <2>7, ServingImplemented
       DEF Promise!Approve, ApprovedByPeer, Reviewed, Fetched
  <2>9. QED
    BY <2>1, <2>8 DEF Promise!Next
<1>3. ASSUME NEW v \in Revision, NEW u \in User, Reject(v, u)
      PROVE  Promise!Next
  <2>1. verdicts' = verdicts \cup {<<v, "rejected">>}
    BY <1>3, ReviewByPeer DEF Reject
  <2>2. UNCHANGED <<approved, ApprovedByPeer, EnabledRecipes>>
    BY <1>3, <2>1 DEF Reject, ApprovedByPeer, Reviewed, EnabledRecipes, Enabled
  <2>3. QED
    BY <2>2, RepublishImplemented
<1>4. ASSUME NEW r \in Recipe, Enable(r) \/ Disable(r)
      PROVE  Promise!Next
  <2>1. /\ approved[r] \in Revision
        /\ enabled' = [enabled EXCEPT ![approved[r]] = Enable(r)]
        /\ UNCHANGED <<recipes, approved, verdicts>>
        /\ r \in recipes
        /\ ~(Enable(r) /\ Disable(r))
    BY <1>4 DEF Enable, Disable, Enabled, TypeOK
  <2>2. \A s \in Recipe \ {r} : approved[s] # approved[r]
    BY <2>1 DEF Owned
  <2>3. EnabledRecipes' = IF Enable(r) THEN EnabledRecipes \cup {r}
                          ELSE EnabledRecipes \ {r}
    <3>1. ASSUME NEW s \in Recipe \ {r}
          PROVE  Enabled(s)' <=> Enabled(s)
      <4>1. approved[s] # None => enabled'[approved[s]] = enabled[approved[s]]
        BY <2>1, <2>2 DEF TypeOK
      <4>2. QED
        BY <2>1, <4>1 DEF Enabled
    <3>2. Enabled(r)' <=> Enable(r)
      <4>1. enabled'[approved[r]] = Enable(r)
        BY <2>1 DEF TypeOK
      <4>2. QED
        BY <2>1, <4>1 DEF Enabled
    <3>3. QED
      BY <2>1, <3>1, <3>2 DEF EnabledRecipes, TypeOK
  <2>4. CASE Enable(r)
    <3>1. Promise!SwitchOn(r)
      BY <2>1, <2>3, <2>4, ServingImplemented
         DEF Promise!SwitchOn, ApprovedByPeer, Reviewed
    <3>2. QED
      BY <3>1 DEF Promise!Next
  <2>5. CASE ~Enable(r)
    <3>1. Promise!SwitchOff(r)
      BY <2>1, <2>3, <2>5, ServingImplemented
         DEF Promise!SwitchOff, ApprovedByPeer, Reviewed
    <3>2. QED
      BY <3>1 DEF Promise!Next
  <2>6. QED
    BY <2>4, <2>5
<1>5. ASSUME NEW r \in Recipe, Delete(r)
      PROVE  Promise!Next
  <2>1. ASSUME NEW s \in Recipe \ {r}
        PROVE  Enabled(s)' <=> Enabled(s)
    <3>1. approved[s] # None => approved[s] \in Revision \ RevisionsOf(r)
      BY <2>1 DEF Owned, RevisionsOf, TypeOK
    <3>2. approved[s] # None => (enabled'[approved[s]] <=> enabled[approved[s]])
      BY <1>5, <3>1 DEF Delete
    <3>3. approved'[s] = approved[s] /\ (s \in recipes' <=> s \in recipes)
      BY <1>5, <2>1 DEF Delete, TypeOK
    <3>4. QED
      BY <3>2, <3>3 DEF Enabled
  <2>2. ~Enabled(r)'
    BY <1>5 DEF Delete, Enabled, TypeOK
  <2>3. EnabledRecipes' = EnabledRecipes \ {r}
    BY <1>5, <2>1, <2>2 DEF EnabledRecipes, Delete, TypeOK
  <2>4. Promise!Withdraw(r)
    BY <1>5, <2>3, ServingImplemented
       DEF Delete, Promise!Withdraw, ApprovedByPeer, Reviewed
  <2>5. QED
    BY <2>4 DEF Promise!Next
<1>6. ASSUME UNCHANGED <<recipes, approved, enabled, verdicts>>
      PROVE  Promise!Next
  <2>1. UNCHANGED <<approved, ApprovedByPeer, EnabledRecipes>>
    BY <1>6 DEF ApprovedByPeer, Reviewed, EnabledRecipes, Enabled
  <2>2. QED
    BY <2>1, RepublishImplemented
<1>7. QED
  BY <1>1, <1>2, <1>3, <1>4, <1>5, <1>6
     DEF Users, Revise, RequestApproval, Approve, ApproveRolledBack, Close

\* With peer approval enforced, approved requests not closed and refused
\* approvals of changes taken back, the handlers of models.py and api/v3/views.py
\* and the commands implement PeerApproval.
THEOREM Refinement ==
  ASSUME PeerApprovalEnforced, "approved" \notin ClosableStatus,
         Faults \cap {"stranded", "unanswered"} = {}
  PROVE  Spec => ImplementsPeerApproval
<1>1. Init => Promise!Init
  <2> SUFFICES ASSUME Init PROVE Promise!Init
    OBVIOUS
  <2>1. ApprovedByPeer = {}
    BY DEF Init, ApprovedByPeer, Reviewed
  <2>2. EnabledRecipes = {}
    BY DEF Init, EnabledRecipes
  <2>3. Fetched = [r \in Recipe |-> None]
    BY DEF Init, Fetched
  <2>4. QED
    BY <2>1, <2>2, <2>3
       DEF Init, Promise!Init, ApprovedByPeer, Reviewed, Fetched
<1>2. /\ TypeOK /\ TypeOK' /\ Owned /\ ApprovedInvariant /\ OnlyReviewedPublished'
      /\ [Next]_vars
      => [Promise!Next]_(Promise!vars)
  <2> SUFFICES ASSUME TypeOK, TypeOK', Owned, ApprovedInvariant, OnlyReviewedPublished',
                      [Next]_vars
               PROVE  [Promise!Next]_(Promise!vars)
    OBVIOUS
  <2>1. CASE Users
    BY <2>1, UsersImplement
  <2>2. CASE Commands
    <3>1. UNCHANGED <<approved, ApprovedByPeer, EnabledRecipes>>
      BY <2>2 DEF Commands, UpdateRecipeSignatures, UpdateRecipeSignaturesFails,
                  SyncRemoteSettings, SyncRemoteSettingsFails, ApprovedByPeer, Reviewed,
                  EnabledRecipes, Enabled
    <3>2. QED
      BY <3>1, RepublishImplemented
  <2>3. CASE UNCHANGED vars
    BY <2>3 DEF vars, Promise!vars, EnabledRecipes, Enabled
  <2>4. QED
    BY <2>1, <2>2, <2>3 DEF Next
<1>3. QED
  BY <1>1, <1>2, TypeCorrect, OwnedInvariant, ApprovedStays, PublishedPeerApproval, PTL
     DEF Spec, ImplementsPeerApproval, Promise!Spec
=============================================================================

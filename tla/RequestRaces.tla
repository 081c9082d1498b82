---------------------------- MODULE RequestRaces ----------------------------
(***************************************************************************)
(* Requests of the recipe API taken apart.  A handler loads rows, decides  *)
(* by what it loaded, and writes whole rows back; no row is locked while   *)
(* it thinks, transactions are READ COMMITTED, and some handlers run in    *)
(* none.  Here the rows of a recipe are read at one moment and written at  *)
(* a later one, so that handlers on any recipes interleave.                *)
(*                                                                         *)
(* Recipes.tla takes a handler as one step and has what is left out here:  *)
(* users, signatures, Remote Settings, deletion.  Only pending requests    *)
(* are closed here.                                                        *)
(***************************************************************************)
EXTENDS Naturals

CONSTANTS
  Recipe,      \* ids that Recipe rows may take
  Revision,    \* ids that RecipeRevision rows may take, none used twice
  RequestId,   \* ids that ApprovalRequest rows may take
  Handler,     \* threads that serve requests
  Name,        \* slugs, survey ids, study names
  None,        \* a null column, an absent row, an idle handler
  Renames,     \* whether a revision may change what its recipe is called
  MaxOverlaps  \* bound: how often a handler begins while another is at work

\* A "rollout" stands for every action whose name must be unique, a "rollback"
\* for the one that must name a rollout.
Content == [action : {"rollout", "rollback"}, name : Name]
Row     == [recipe : Recipe, parent : Revision \cup {None}, content : Content]
Status  == {"pending", "approved", "rejected"}
Request == [id : RequestId, status : Status]
Op      == {"revise", "request", "approve", "reject", "close", "enable", "disable",
            "annotate"}

\* A handler at work: the rows it loaded and how far it is.
Job == [op : Op, pc : {"loaded", "checked", "written"}, recipe : Recipe,
        revision : Revision,              \* the revision it is about or makes
        request : RequestId \cup {None},  \* the request it loaded or makes
        content : Content,
        latest : Revision \cup {None},    \* the recipe as loaded
        approved : Revision \cup {None},
        on : BOOLEAN]  \* the enabled state as loaded; for approve, to carry over

ASSUME ConstantsAssumption ==
  /\ Renames \in BOOLEAN
  /\ MaxOverlaps \in Nat
  /\ None \notin Recipe \cup Revision \cup RequestId \cup Row \cup Request \cup Job

VARIABLES
  latest,     \* Recipe.latest_revision, None before the recipe is there
  approved,   \* Recipe.approved_revision
  revision,   \* RecipeRevision rows
  enabled,    \* RecipeRevision.enabled_state.enabled
  request,    \* the ApprovalRequest of each revision
  job,        \* what each handler is at
  met,        \* history: pairs of recipes whose handlers were at work at one time
  overlaps,   \* how often a handler began while another was at work
  decided     \* history: what was last decided for each recipe, and every approval

database == <<latest, approved, revision, enabled, request>>
vars == <<latest, approved, revision, enabled, request, job, met, overlaps,
          decided>>

TypeOK ==
  /\ latest \in [Recipe -> Revision \cup {None}]
  /\ approved \in [Recipe -> Revision \cup {None}]
  /\ revision \in [Revision -> Row \cup {None}]
  /\ enabled \in [Revision -> BOOLEAN]
  /\ request \in [Revision -> Request \cup {None}]
  /\ job \in [Handler -> Job \cup {None}]
  /\ met \subseteq Recipe \X Recipe
  /\ overlaps \in 0 .. MaxOverlaps
  /\ decided \in [inForce : [Recipe -> Revision \cup {None}],
                  on : [Recipe -> BOOLEAN], reviewed : SUBSET Revision]

Init ==
  /\ latest = [r \in Recipe |-> None]
  /\ approved = [r \in Recipe |-> None]
  /\ revision = [v \in Revision |-> None]
  /\ enabled = [v \in Revision |-> FALSE]
  /\ request = [v \in Revision |-> None]
  /\ job = [h \in Handler |-> None]
  /\ met = {}
  /\ overlaps = 0
  /\ decided = [inForce |-> [r \in Recipe |-> None], on |-> [r \in Recipe |-> FALSE],
                reviewed |-> {}]

-----------------------------------------------------------------------------
(* Queries.                                                                *)

On(r) == approved[r] # None /\ enabled[approved[r]]

Named(v, action, name) ==
  v # None /\ revision[v].content = [action |-> action, name |-> name]

\* A slip: what the other recipes run is compared, not what they hold.
ValidApproved(c, r) ==
  IF c.action = "rollout"
  THEN \A s \in Recipe \ {r} : ~Named(approved[s], "rollout", c.name)
  ELSE \E s \in Recipe : Named(approved[s], "rollout", c.name)

\* Action.validate_arguments, which runs whenever a revision is saved.
Valid(c, r) ==
  IF c.action = "rollout"
  THEN \A s \in Recipe \ {r} : ~Named(latest[s], "rollout", c.name)
  ELSE \E s \in Recipe : Named(latest[s], "rollout", c.name)

\* A slip: only the rollback looks for its rollout.
NoConflictOneWay(c, r) ==
  \A s \in Recipe \ {r} :
    On(s) => ~(c.action = "rollback" /\ Named(approved[s], "rollout", c.name))

\* _validate_preference_rollout_rollback_enabled_invariance.
NoConflict(c, r) ==
  \A s \in Recipe \ {r} :
    On(s) => \A a \in {"rollout", "rollback"} \ {c.action} : ~Named(approved[s], a, c.name)

\* A slip: the row instead of its id.
PendingRequestRow(v) ==
  IF v # None /\ request[v] # None /\ request[v].status = "pending"
  THEN request[v] ELSE None

PendingRequest(v) ==
  IF v # None /\ request[v] # None /\ request[v].status = "pending"
  THEN request[v].id ELSE None

AtWork == {h \in Handler : job[h] # None}

UnusedRevision(v) == revision[v] = None /\ \A h \in AtWork : job[h].revision # v
UnusedRequest(q) ==
  /\ \A v \in Revision : request[v] # None => request[v].id # q
  /\ \A h \in AtWork : job[h].request # q

\* approve() wrote the recipe's row in a transaction that is not over: others
\* that write it wait.
Locked(r) ==
  \E h \in AtWork : job[h].op = "approve" /\ job[h].pc = "checked" /\ job[h].recipe = r

-----------------------------------------------------------------------------
(* Loading.                                                                *)

Load(h, op, r, v, q, c) ==
  /\ job[h] = None
  /\ job' = [job EXCEPT ![h] =
       [op |-> op, pc |-> "loaded", recipe |-> r, revision |-> v, request |-> q,
        content |-> c, latest |-> latest[r], approved |-> approved[r],
        on |-> enabled[v]]]
  /\ overlaps' = IF AtWork = {} THEN overlaps ELSE overlaps + 1
  /\ overlaps' <= MaxOverlaps
  /\ met' = met \cup UNION {{<<r, job[g].recipe>>, <<job[g].recipe, r>>} : g \in AtWork}
  /\ UNCHANGED <<database, decided>>

\* POST recipe, which nobody sees before it is done.
LoadCreate(h, r, v, c) ==
  /\ latest[r] = None
  /\ \A g \in AtWork : job[g].recipe # r
  /\ UnusedRevision(v)
  /\ Load(h, "revise", r, v, None, c)

LoadRevise(h, r, v, c) ==
  /\ latest[r] # None
  /\ Renames \/ c = revision[latest[r]].content
  /\ UnusedRevision(v)
  /\ Load(h, "revise", r, v, PendingRequest(latest[r]), c)

LoadRequest(h, v, q) ==
  /\ revision[v] # None
  /\ request[v] = None
  /\ UnusedRequest(q)
  /\ Load(h, "request", revision[v].recipe, v, q, revision[v].content)

\* What approve and reject ask of the request is asked of the loaded row.
LoadReview(h, op, v) ==
  /\ revision[v] # None
  /\ PendingRequest(v) # None
  /\ Load(h, op, revision[v].recipe, v, request[v].id, revision[v].content)

LoadSwitch(h, op, r) ==
  /\ approved[r] # None
  /\ enabled[approved[r]] = (op = "disable")
  /\ Load(h, op, r, approved[r], None, revision[approved[r]].content)

\* PATCH of a revision's metadata.
LoadAnnotate(h, v) ==
  /\ revision[v] # None
  /\ Load(h, "annotate", revision[v].recipe, v, None, revision[v].content)

-----------------------------------------------------------------------------
(* Checking.                                                               *)

At(h, ops, pc) == job[h] # None /\ job[h].op \in ops /\ job[h].pc = pc

Abandon(h) ==
  /\ job' = [job EXCEPT ![h] = None]
  /\ UNCHANGED <<database, met, overlaps, decided>>

\* A slip: drafts are not validated.
CheckArgumentsOn(h) ==
  /\ At(h, {"revise", "annotate"}, "loaded")
  /\ IF On(job[h].recipe) => Valid(job[h].content, job[h].recipe)
     THEN /\ job' = [job EXCEPT ![h].pc = "checked"]
          /\ UNCHANGED <<database, met, overlaps, decided>>
     ELSE Abandon(h)

\* The arguments are validated against the other recipes of this moment.
CheckArguments(h) ==
  /\ At(h, {"revise", "annotate"}, "loaded")
  /\ IF Valid(job[h].content, job[h].recipe)
     THEN /\ job' = [job EXCEPT ![h].pc = "checked"]
          /\ UNCHANGED <<database, met, overlaps, decided>>
     ELSE Abandon(h)

\* The recipe is loaded again through the revision: whether the revision is
\* still approved is asked of that row, which is then written back.
CheckSwitch(h) ==
  /\ At(h, {"enable", "disable"}, "loaded")
  /\ LET j == job[h] IN
       IF /\ j.op = "enable" => NoConflict(j.content, j.recipe)
          /\ approved[j.recipe] = j.revision
          /\ Valid(j.content, j.recipe)
       THEN /\ job' = [job EXCEPT ![h] =
                 [j EXCEPT !.pc = "checked", !.latest = latest[j.recipe],
                           !.approved = approved[j.recipe]]]
            /\ UNCHANGED <<database, met, overlaps, decided>>
       ELSE Abandon(h)

\* Saving a request that was deleted inserts it again, unless the revision has
\* another by now.
CanStore(j) == request[j.revision] = None \/ request[j.revision].id = j.request

\* approve() in its transaction, up to the last thing it reads: whether what the
\* loaded recipe names as approved is enabled now.
CheckApprove(h) ==
  /\ At(h, {"approve"}, "loaded")
  /\ LET j == job[h]
         carry == j.approved # None /\ enabled[j.approved]
     IN /\ ~Locked(j.recipe)
        /\ IF CanStore(j) /\ (carry => /\ ~j.on
                                       /\ NoConflict(j.content, j.recipe)
                                       /\ Valid(j.content, j.recipe))
           THEN /\ job' = [job EXCEPT ![h] = [j EXCEPT !.pc = "checked", !.on = carry]]
                /\ UNCHANGED <<database, met, overlaps, decided>>
           ELSE Abandon(h)

-----------------------------------------------------------------------------
(* Writing.                                                                *)

Done(h) == job' = [job EXCEPT ![h] = None] /\ UNCHANGED <<met, overlaps>>

\* Recipe.save() writes the whole row, the columns the handler did not touch
\* as they were when it loaded them.
WriteRecipe(r, l, a) ==
  /\ latest' = [latest EXCEPT ![r] = l]
  /\ approved' = [approved EXCEPT ![r] = a]

Forget(q) ==
  request' = [v \in Revision |-> IF request[v] # None /\ request[v].id = q
                                 THEN None ELSE request[v]]

\* A slip: the revision is stored without looking at its parent's child.
WriteRevisionForked(h) ==
  /\ At(h, {"revise"}, "checked")
  /\ LET j == job[h] IN
       /\ ~Locked(j.recipe)
       /\ revision' = [revision EXCEPT ![j.revision] =
            [recipe |-> j.recipe, parent |-> j.latest, content |-> j.content]]
       /\ Forget(j.request)
       /\ WriteRecipe(j.recipe, j.revision, j.approved)
       /\ Done(h)
       /\ UNCHANGED <<enabled, decided>>

\* revise(), committed.  parent is unique: of two revisions of one revision the
\* later is an error.
WriteRevision(h) ==
  /\ At(h, {"revise"}, "checked")
  /\ LET j == job[h] IN
       /\ ~Locked(j.recipe)
       /\ IF \E v \in Revision : revision[v] # None /\ revision[v].parent = j.latest
                                   /\ j.latest # None
          THEN Abandon(h)
          ELSE /\ revision' = [revision EXCEPT ![j.revision] =
                    [recipe |-> j.recipe, parent |-> j.latest, content |-> j.content]]
               /\ Forget(j.request)
               /\ WriteRecipe(j.recipe, j.revision, j.approved)
               /\ Done(h)
               /\ UNCHANGED <<enabled, decided>>

\* The new request is committed, or is the revision's second and an error.
WriteRequest(h) ==
  /\ At(h, {"request"}, "loaded")
  /\ LET j == job[h] IN
       IF request[j.revision] = None
       THEN /\ request' = [request EXCEPT ![j.revision] =
                 [id |-> j.request, status |-> "pending"]]
            /\ job' = [job EXCEPT ![h].pc = "written"]
            /\ UNCHANGED <<latest, approved, revision, enabled, met, overlaps, decided>>
       ELSE Abandon(h)

\* A slip: the latest revision is switched, not the one that is approved.
WriteSwitchLatest(h) ==
  /\ At(h, {"enable", "disable"}, "checked")
  /\ LET j == job[h] IN
       /\ enabled' = [enabled EXCEPT ![j.latest] = (j.op = "enable")]
       /\ decided' = [decided EXCEPT !.on[j.recipe] = (j.op = "enable")]
       /\ job' = [job EXCEPT ![h].pc = "written"]
  /\ UNCHANGED <<latest, approved, revision, request, met, overlaps>>

\* The new enabled state is committed.
WriteSwitch(h) ==
  /\ At(h, {"enable", "disable"}, "checked")
  /\ LET j == job[h] IN
       /\ enabled' = [enabled EXCEPT ![j.revision] = (j.op = "enable")]
       /\ decided' = [decided EXCEPT !.on[j.recipe] = (j.op = "enable")]
       /\ job' = [job EXCEPT ![h].pc = "written"]
  /\ UNCHANGED <<latest, approved, revision, request, met, overlaps>>

\* request_approval, enable and disable end by saving the recipe they loaded.
WriteBack(h) ==
  /\ At(h, {"request", "enable", "disable"}, "written")
  /\ LET j == job[h] IN
       /\ ~Locked(j.recipe)
       /\ WriteRecipe(j.recipe, j.latest, j.approved)
  /\ Done(h)
  /\ UNCHANGED <<revision, enabled, request, decided>>

\* A slip: the enabled state of the revision that was approved stays behind.
WriteApprovalDropping(h) ==
  /\ At(h, {"approve"}, "checked")
  /\ LET j == job[h] IN
       /\ request' = [request EXCEPT ![j.revision] =
            [id |-> j.request, status |-> "approved"]]
       /\ WriteRecipe(j.recipe, j.latest, j.revision)
       /\ decided' = [decided EXCEPT !.inForce[j.recipe] = j.revision,
                                     !.reviewed = @ \cup {j.revision}]
  /\ Done(h)
  /\ UNCHANGED <<revision, enabled>>

\* approve(), committed.
WriteApproval(h) ==
  /\ At(h, {"approve"}, "checked")
  /\ LET j == job[h] IN
       /\ request' = [request EXCEPT ![j.revision] =
            [id |-> j.request, status |-> "approved"]]
       /\ WriteRecipe(j.recipe, j.latest, j.revision)
       /\ enabled' = [enabled EXCEPT ![j.revision] = @ \/ j.on]
       /\ decided' = [decided EXCEPT !.inForce[j.recipe] = j.revision,
                                     !.reviewed = @ \cup {j.revision}]
  /\ Done(h)
  /\ UNCHANGED revision

WriteRejection(h) ==
  /\ At(h, {"reject"}, "loaded")
  /\ LET j == job[h] IN
       /\ ~Locked(j.recipe)
       /\ IF CanStore(j)
          THEN /\ request' = [request EXCEPT ![j.revision] =
                    [id |-> j.request, status |-> "rejected"]]
               /\ WriteRecipe(j.recipe, j.latest, j.approved)
               /\ Done(h)
               /\ UNCHANGED <<revision, enabled, decided>>
          ELSE Abandon(h)

WriteClosing(h) ==
  /\ At(h, {"close"}, "loaded")
  /\ LET j == job[h] IN
       /\ ~Locked(j.recipe)
       /\ Forget(j.request)
       /\ WriteRecipe(j.recipe, j.latest, j.approved)
  /\ Done(h)
  /\ UNCHANGED <<revision, enabled, decided>>

\* The whole row of the revision, its enabled state included.
WriteAnnotation(h) ==
  /\ At(h, {"annotate"}, "checked")
  /\ enabled' = [enabled EXCEPT ![job[h].revision] = job[h].on]
  /\ Done(h)
  /\ UNCHANGED <<latest, approved, revision, request, decided>>

-----------------------------------------------------------------------------
Loads(h) ==
  \/ \E r \in Recipe, v \in Revision, c \in Content :
       LoadCreate(h, r, v, c) \/ LoadRevise(h, r, v, c)
  \/ \E v \in Revision, q \in RequestId : LoadRequest(h, v, q)
  \/ \E v \in Revision : \/ \E op \in {"approve", "reject", "close"} : LoadReview(h, op, v)
                         \/ LoadAnnotate(h, v)
  \/ \E r \in Recipe : \E op \in {"enable", "disable"} : LoadSwitch(h, op, r)

Checks(h) == CheckArguments(h) \/ CheckSwitch(h) \/ CheckApprove(h)

Writes(h) ==
  \/ WriteRevision(h) \/ WriteRequest(h) \/ WriteSwitch(h) \/ WriteBack(h)
  \/ WriteApproval(h) \/ WriteRejection(h) \/ WriteClosing(h) \/ WriteAnnotation(h)

Next == \E h \in Handler : Loads(h) \/ Checks(h) \/ Writes(h)

Spec == Init /\ [][Next]_vars

-----------------------------------------------------------------------------
(* Safety, under every interleaving.                                       *)

\* Whatever row is written back over whatever else: what is in force or enabled
\* was approved once.
OnlyReviewedInForce ==
  \A v \in Revision :
    (enabled[v] \/ \E r \in Recipe : approved[r] = v) => v \in decided.reviewed

\* The revisions of a recipe never fork, and its columns name its own revisions.
NoFork ==
  /\ \A v, w \in Revision :
       /\ revision[v] # None /\ revision[w] # None /\ v # w
       /\ revision[v].recipe = revision[w].recipe
       => revision[v].parent # revision[w].parent
  /\ \A r \in Recipe : \A v \in {latest[r], approved[r]} \ {None} :
       revision[v] # None /\ revision[v].recipe = r

\* If no recipe is renamed, two recipes of one name are never enabled together,
\* though both may come to hold it when they are stored at one time.
NamesUniqueOn ==
  ~Renames =>
    \A r, s \in Recipe :
      r # s /\ On(r) /\ On(s) =>
        ~ /\ revision[approved[r]].content.action = "rollout"
          /\ revision[approved[r]].content = revision[approved[s]].content

-----------------------------------------------------------------------------
(* Safety, where handlers keep out of each other's way.                    *)

Alone(r) == <<r, r>> \notin met

\* The revision of the recipe that no other follows.
IsNewest(v) == \A w \in Revision : revision[w] # None => revision[w].parent # v

\* A recipe that never had two handlers at once, however many others did, has
\* lost nothing: it holds its newest revision (so that it can be revised
\* again), what was last approved is in force and was not rejected since, and
\* it is on or off as was last asked for, a new approval carrying that over.
NothingLost ==
  \A r \in Recipe :
    Alone(r) /\ latest[r] # None =>
      /\ IsNewest(latest[r])
      /\ approved[r] = decided.inForce[r]
      /\ approved[r] # None => /\ request[approved[r]] # None
                               /\ request[approved[r]].status = "approved"
      /\ On(r) = decided.on[r]

\* A rollout and its rollback are not enabled together, unless handlers on the
\* two recipes, or on one of them, were at work at one time.
OnlyOneOfPair ==
  \A r, s \in Recipe :
    /\ r # s /\ On(r) /\ On(s)
    /\ Alone(r) /\ Alone(s) /\ <<r, s>> \notin met
    => ~ /\ revision[approved[r]].content.action # revision[approved[s]].content.action
         /\ revision[approved[r]].content.name = revision[approved[s]].content.name

\* What is on can be switched off: saving the revision, which validates its
\* arguments again, does not fail; unless recipes are renamed or were stored
\* at one time.
CanSwitchOff ==
  ~Renames =>
    \A r \in Recipe :
      On(r) /\ (\A s \in Recipe : <<r, s>> \notin met)
        => Valid(revision[approved[r]].content, r)
=============================================================================

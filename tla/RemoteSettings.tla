--------------------------- MODULE RemoteSettings ---------------------------
(***************************************************************************)
(* Publishing recipes to Remote Settings, call by call                     *)
(* (normandy/recipes/exports.py), by processes that run at the same time:  *)
(* the web workers that serve enable, disable and approve, and the         *)
(* sync_remote_settings command.  They share the workspace bucket, and     *)
(* each approves or rolls back all of it.                                  *)
(*                                                                         *)
(* Of the database this module keeps, for each recipe, the record that the *)
(* recipe would be published as, or None when it is not enabled; how it    *)
(* gets there is in Recipes.tla.                                           *)
(***************************************************************************)
CONSTANTS
  Recipe,    \* recipe ids
  Version,   \* contents a record may have
  Handler,   \* web workers
  Asked,     \* the requests each may get: a recipe and the record it is to have
  Syncer,    \* processes that run sync_remote_settings
  None,      \* no record
  Overlap,   \* whether requests for one recipe may overlap
  Faults     \* the ways a call may go wrong

Worker == Handler \cup Syncer

(***************************************************************************)
(* As in Recipes, at the call where each happens; "crash" ends a process   *)
(* between two calls, or with an error that is not a KintoException.       *)
(***************************************************************************)
Fault == {"refused", "reverted", "stranded", "unanswered", "redelivered", "crash"}

ASSUME ConstantsAssumption ==
  /\ Handler \cap Syncer = {}
  /\ None \notin Recipe \cup Version
  /\ Asked \in [Handler -> SUBSET (Recipe \X (Version \cup {None}))]
  /\ Overlap \in BOOLEAN
  /\ Faults \subseteq Fault

VARIABLES
  db,         \* the record of each enabled recipe
  workspace,  \* records of the workspace bucket
  main,       \* records of the main bucket, the one clients read
  job,        \* what each process is doing
  residue     \* history: recipes whose edit its process has left in the workspace

vars == <<db, workspace, main, job, residue>>

Records == [Recipe -> Version \cup {None}]

(***************************************************************************)
(* A job is a handler or a run of the command.  Its records are those it   *)
(* has read, at step "compare", and from then on those it still has to     *)
(* write, None for a record to delete.                                     *)
(***************************************************************************)
Idle == [kind |-> "idle", step |-> "none", recipe |-> None,
         records |-> [r \in {} |-> None]]

Job == [kind : {"enable", "disable", "approve", "sync"},
        step : {"compare", "edit", "sign", "rollback", "commit"},
        recipe : Recipe \cup {None},
        records : UNION {[S -> Version \cup {None}] : S \in SUBSET Recipe}]

TypeOK ==
  /\ db \in Records
  /\ workspace \in Records
  /\ main \in Records
  /\ job \in [Worker -> Job \cup {Idle}]
  /\ residue \subseteq Recipe

Init ==
  /\ db = [r \in Recipe |-> None]
  /\ workspace = [r \in Recipe |-> None]
  /\ main = [r \in Recipe |-> None]
  /\ job = [w \in Worker |-> Idle]
  /\ residue = {}

Busy(r) == \E w \in Handler : job[w].recipe = r
Approving(r) == \E w \in Handler : job[w].recipe = r /\ job[w].kind = "approve"

\* The row of a recipe is locked while an approval of it is not committed.  Enabling
\* and disabling lock nothing while they publish.
MayBegin(r) == IF Overlap THEN ~Approving(r) ELSE ~Busy(r)

\* A slip: what the process had to write is not forgotten.
FinishKeeping(w) == job' = [job EXCEPT ![w].step = "none"]

Finish(w) == job' = [job EXCEPT ![w] = Idle]

-----------------------------------------------------------------------------
(* Requests.  Enabling and disabling commit before they publish, approving *)
(* for an enabled recipe publishes before it commits.  Each publishes the  *)
(* record of the recipe as it loaded it.                                   *)

Begin(w, kind, r, record) ==
  /\ job[w] = Idle
  /\ job' = [job EXCEPT ![w] = [kind |-> kind, step |-> "edit", recipe |-> r,
                                records |-> [s \in {r} |-> record]]]

Commit(r, record) == db' = [db EXCEPT ![r] = record]

Enable(w, r, record) ==
  /\ db[r] = None
  /\ MayBegin(r)
  /\ Begin(w, "enable", r, record)
  /\ Commit(r, record)
  /\ UNCHANGED <<workspace, main, residue>>

Disable(w, r) ==
  /\ db[r] # None
  /\ MayBegin(r)
  /\ Begin(w, "disable", r, None)
  /\ Commit(r, None)
  /\ UNCHANGED <<workspace, main, residue>>

Approve(w, r, record) ==
  /\ db[r] \notin {None, record}
  /\ MayBegin(r)
  /\ Begin(w, "approve", r, record)
  /\ UNCHANGED <<db, workspace, main, residue>>

-----------------------------------------------------------------------------
(* sync_remote_settings: the remote records are read first, the enabled    *)
(* recipes after them.  Both stay in memory while the run goes through     *)
(* them, those to publish before those to unpublish.                       *)

SyncFetch(w) ==
  /\ job[w] = Idle
  /\ job' = [job EXCEPT ![w] = [kind |-> "sync", step |-> "compare", recipe |-> None,
                                records |-> main]]
  /\ UNCHANGED <<db, workspace, main, residue>>

\* A slip: only the published recipes are compared.
SyncCompareRemote(w) ==
  /\ job[w].step = "compare"
  /\ LET differing == {r \in Recipe : job[w].records[r] \notin {None, db[r]}} IN
       IF differing = {} THEN Finish(w)
       ELSE job' = [job EXCEPT ![w].step = "edit",
                               ![w].records = [r \in differing |-> db[r]]]
  /\ UNCHANGED <<db, workspace, main, residue>>

SyncCompare(w) ==
  /\ job[w].step = "compare"
  /\ LET differing == {r \in Recipe : job[w].records[r] # db[r]} IN
       IF differing = {} THEN Finish(w)
       ELSE job' = [job EXCEPT ![w].step = "edit",
                               ![w].records = [r \in differing |-> db[r]]]
  /\ UNCHANGED <<db, workspace, main, residue>>

-----------------------------------------------------------------------------
(* Calls.  Approving or reverting the workspace leaves no residue in it.   *)

\* The process turns to the record of r.
TurnsTo(w, r) ==
  LET todo == job[w].records IN
    /\ job[w].step = "edit"
    /\ r \in DOMAIN todo
    /\ todo[r] = None => \A s \in DOMAIN todo : todo[s] = None

\* The record of r is dealt with.
Advance(w, r) ==
  LET rest == DOMAIN job[w].records \ {r} IN
    IF rest = {} THEN Finish(w)
    ELSE job' = [job EXCEPT ![w].step = "edit",
                            ![w].records = [s \in rest |-> job[w].records[s]]]

\* update_record, or delete_record of a record that is there.
EditRecord(w, r) ==
  /\ TurnsTo(w, r)
  /\ job[w].records[r] = None => workspace[r] # None
  /\ workspace' = [workspace EXCEPT ![r] = job[w].records[r]]
  /\ job' = [job EXCEPT ![w].step = "sign", ![w].recipe = r]
  /\ residue' = residue \ {r}
  /\ UNCHANGED <<db, main>>

\* delete_record is answered 404: nothing is approved.
SkipMissing(w, r) ==
  /\ TurnsTo(w, r)
  /\ job[w].records[r] = None
  /\ workspace[r] = None
  /\ Advance(w, r)
  /\ UNCHANGED <<db, workspace, main, residue>>

\* A slip: the approval is not committed.
ToSignOnly(w) ==
  /\ job[w].step = "sign"
  /\ main' = workspace
  /\ Advance(w, job[w].recipe)
  /\ residue' = {}
  /\ UNCHANGED <<db, workspace>>

\* patch_collection with "to-sign".  An approval has then still to commit.
ToSign(w) ==
  /\ job[w].step = "sign"
  /\ main' = workspace
  /\ IF job[w].kind = "approve"
     THEN job' = [job EXCEPT ![w].step = "commit"]
     ELSE Advance(w, job[w].recipe)
  /\ residue' = {}
  /\ UNCHANGED <<db, workspace>>

CommitApproval(w) ==
  /\ job[w].step = "commit"
  /\ Commit(job[w].recipe, job[w].records[job[w].recipe])
  /\ Finish(w)
  /\ UNCHANGED <<workspace, main, residue>>

\* A slip: the changes are not reverted.
RaiseOnly(w) ==
  /\ job[w].step = "rollback"
  /\ Finish(w)
  /\ UNCHANGED <<db, workspace, main, residue>>

\* patch_collection with "to-rollback", and the error goes on to the caller.
ToRollback(w) ==
  /\ job[w].step = "rollback"
  /\ workspace' = main
  /\ Finish(w)
  /\ residue' = {}
  /\ UNCHANGED <<db, main>>

-----------------------------------------------------------------------------
(* Calls that go wrong.                                                    *)

\* Of the recipes whose edit nobody answers for any more, those ahead are a residue.
Leave(left) ==
  residue' = {r \in Recipe : r \in residue \cup left /\ workspace'[r] # main'[r]}

EditRefused(w) ==
  /\ "refused" \in Faults
  /\ job[w].step = "edit"
  /\ Finish(w)
  /\ UNCHANGED <<db, workspace, main, residue>>

PutUnanswered(w, r) ==
  /\ "unanswered" \in Faults
  /\ TurnsTo(w, r)
  /\ job[w].records[r] # None
  /\ workspace' = [workspace EXCEPT ![r] = job[w].records[r]]
  /\ Finish(w)
  /\ UNCHANGED <<db, main>>
  /\ Leave({r})

DeleteRedelivered(w, r) ==
  /\ "redelivered" \in Faults
  /\ TurnsTo(w, r)
  /\ job[w].records[r] = None
  /\ workspace' = [workspace EXCEPT ![r] = None]
  /\ Advance(w, r)
  /\ UNCHANGED <<db, main>>
  /\ Leave({r})

ToSignRefused(w) ==
  /\ Faults \cap {"reverted", "stranded"} # {}
  /\ job[w].step = "sign"
  /\ job' = [job EXCEPT ![w].step = "rollback"]
  /\ UNCHANGED <<db, workspace, main, residue>>

ToSignUnanswered(w) ==
  /\ "unanswered" \in Faults
  /\ job[w].step = "sign"
  /\ main' = workspace
  /\ Finish(w)
  /\ residue' = {}
  /\ UNCHANGED <<db, workspace>>

ToRollbackRefused(w) ==
  /\ "stranded" \in Faults
  /\ job[w].step = "rollback"
  /\ Finish(w)
  /\ UNCHANGED <<db, workspace, main>>
  /\ Leave({job[w].recipe})

Crash(w) ==
  /\ "crash" \in Faults
  /\ job[w] # Idle
  /\ Finish(w)
  /\ UNCHANGED <<db, workspace, main>>
  /\ Leave(IF job[w].step \in {"sign", "rollback"} THEN {job[w].recipe} ELSE {})

-----------------------------------------------------------------------------
Requests ==
  \E w \in Handler, r \in Recipe :
    \/ <<r, None>> \in Asked[w] /\ Disable(w, r)
    \/ \E record \in Version :
         <<r, record>> \in Asked[w] /\ (Enable(w, r, record) \/ Approve(w, r, record))

Progress(w) ==
  \/ SyncCompare(w)
  \/ \E r \in Recipe : EditRecord(w, r) \/ SkipMissing(w, r)
  \/ ToSign(w)
  \/ CommitApproval(w)
  \/ ToRollback(w)

Failures ==
  \E w \in Worker :
    \/ EditRefused(w)
    \/ \E r \in Recipe : PutUnanswered(w, r) \/ DeleteRedelivered(w, r)
    \/ ToSignRefused(w)
    \/ ToSignUnanswered(w)
    \/ ToRollbackRefused(w)
    \/ Crash(w)

\* What goes on when users leave the system alone and calls succeed.
Calm ==
  \/ \E w \in Syncer : SyncFetch(w)
  \/ \E w \in Worker : Progress(w)

Next == Requests \/ Calm \/ Failures

Spec == Init /\ [][Next]_vars

\* Cron starts the command again and again; processes that do not crash go on.
FairSpec ==
  /\ Spec
  /\ \A w \in Syncer : WF_vars(SyncFetch(w))
  /\ \A w \in Worker : WF_vars(Progress(w))

-----------------------------------------------------------------------------
(* Properties.                                                             *)

\* A request that is over, whatever others did meanwhile, left clients with what
\* the database says: the record of an enabled recipe, none of a disabled one.
Settled == \A r \in Recipe : ~Busy(r) => main[r] = db[r]

\* Where the workspace is ahead of the main bucket it holds the record of a process
\* that is in the middle of publishing just that record, and will approve or revert
\* it: no edit is taken over or left behind, however requests overlap.  Left behind
\* are only the edits of processes that crashed before their "to-sign", could not
\* roll back, or whose edit was answered by an error (a PUT) or by 404 (a DELETE);
\* and they last only until the next approval or rollback, of whatever recipe.
WorkspaceFollows ==
  \A r \in Recipe \ residue :
    workspace[r] # main[r] =>
      \E w \in Worker :
        /\ job[w].step \in {"sign", "rollback"}
        /\ job[w].recipe = r
        /\ job[w].records[r] = workspace[r]

InSync == main = db

\* Once users leave the system alone and calls stop failing, a residue in the
\* workspace is all that can keep the command from giving clients what the database
\* says: where none stays for good the main bucket converges, however requests had
\* overlapped and processes had ended.
OnlyResidueBlocks ==
  <>[][Calm]_vars /\ []<>(workspace = main) => <>[]InSync
=============================================================================

------------------------------ MODULE AddonUrls ------------------------------
(***************************************************************************)
(* update_addon_urls, after the storage of add-ons moved to another host:  *)
(* it rewrites the URL in every revision of an opt-out study, whatever its *)
(* age, and signs the recipe again.  Beside it, the migration that stored   *)
(* the extension's id in the same revisions, and signed nothing.           *)
(*                                                                         *)
(* The command reads all revisions first and saves them one by one, in no  *)
(* transaction, while users go on, and with each the recipe's row as it was *)
(* before; it publishes nothing.  That is left to sync_remote_settings, and *)
(* what an interrupted run did not sign to update_recipe_signatures, once   *)
(* the signature is old.  Modules Recipes and RemoteSettings have these two *)
(* and the users' requests in full: here each is one step, that succeeds.  *)
(***************************************************************************)
EXTENDS Integers, FiniteSets

CONSTANTS
  LastRecipe,  \* recipes are numbered in the order they were created in
  Revision,
  RecipeOf,
  Known,       \* revisions whose URL ends in the name of an extension's file
  Refused,     \* revisions whose study's name another recipe has taken since
  LastHost,    \* bound on the moves of the storage
  Beside,      \* whether migration 0014 is also applied, or taken back, during a run
  None

Recipe == 1 .. LastRecipe
Host == 0 .. LastHost

ASSUME RevisionsAssumption ==
  /\ LastRecipe \in Nat
  /\ LastHost \in Nat
  /\ Beside \in BOOLEAN
  /\ RecipeOf \in [Revision -> Recipe]
  /\ Known \subseteq Revision
  /\ Refused \subseteq Revision

\* What is signed, of a revision: what changes in its arguments is the host of
\* the URL and whether they have an extensionApiId.
ApiId == {"absent", "present"}
Content == [revision: Revision, host: Host, apiId: ApiId]
Record == [content: Content, signature: Content \cup {None}]

\* A run: the host in the URLs of its storage, the rows it has read and still has
\* to do (those enabled and those with an id), and the revision it is at, with the
\* row of its recipe.
Run == [host: Host, todo: SUBSET Revision, on: SUBSET Revision, ids: SUBSET Revision,
        pc: {"next", "save", "sign", "write"}, revision: Revision \cup {None},
        approved: Revision \cup {None}, signature: Content \cup {None}]

\* The migration at work: the rows it has read, and the ids they will have.
Migration == [url: [Revision -> Host], on: SUBSET Revision, ids: SUBSET Revision]

ASSUME NoneAssumption ==
  None \notin Content /\ None \notin Record /\ None \notin Run /\ None \notin Revision
  /\ None \notin Migration

VARIABLES
  host,       \* of the storage, in the settings
  url,        \* the host in each revision's addonUrl
  ids,        \* the revisions with an extensionApiId
  migrated,   \* whether migration 0014 is applied
  approved,   \* Recipe.approved_revision
  enabled,    \* the revisions whose enabled_state is enabled
  signature,  \* the content each recipe's signature is of
  published,  \* the record of each recipe in Remote Settings
  run,        \* the run under way
  migration,  \* and the migration
  decided,    \* history: the revisions users left enabled
  overtaken,  \* history: those that were switched after they had been read to be saved
  crossed,    \* history: the recipe whose row the run holds, if somebody else wrote it since
  torn        \* history: recipes rewritten by the command or the migration, or crossed,
              \* and not signed since

content == <<url, ids, migrated, migration>>
history == <<decided, overtaken, crossed, torn>>
vars == <<host, content, approved, enabled, signature, published, run, history>>

Init ==
  /\ host = 0
  /\ url = [v \in Revision |-> 0]
  /\ ids = {}
  /\ migrated = FALSE
  /\ approved = [r \in Recipe |-> None]
  /\ enabled = {}
  /\ signature = [r \in Recipe |-> None]
  /\ published = [r \in Recipe |-> None]
  /\ run = None
  /\ migration = None
  /\ decided = {}
  /\ overtaken = {}
  /\ crossed = {}
  /\ torn = {}

----------------------------------------------------------------------------
ContentOf(v) ==
  [revision |-> v, host |-> url[v], apiId |-> IF v \in ids THEN "present" ELSE "absent"]
On(r) == approved[r] # None /\ approved[r] \in enabled

\* recipe_as_record, of a revision just signed and as the database has it.
Signed(v) == [content |-> ContentOf(v), signature |-> ContentOf(v)]
RecordOf(r) == [content |-> ContentOf(approved[r]), signature |-> signature[r]]

\* The recipe whose row the run has read and will write back.
Held == IF run # None /\ run.pc # "next" THEN {RecipeOf[run.revision]} ELSE {}
Cross(R) == crossed' = crossed \cup (R \cap Held)

(* Users.                                                                  *)

\* A decision on v, which whoever has read v and not yet saved it undoes.
Decide(v, on) ==
  /\ decided' = IF on THEN decided \cup {v} ELSE decided \ {v}
  /\ overtaken' = IF (run # None /\ v \in run.todo) \/ migration # None
                  THEN overtaken \cup {v} ELSE overtaken \ {v}

\* Switching saves the revision, which validates its arguments.
SwitchOn(r, v) ==
  /\ v \notin Refused
  /\ enabled' = enabled \cup {v}
  /\ signature' = [signature EXCEPT ![r] = ContentOf(v)]
  /\ published' = [published EXCEPT ![r] = Signed(v)]
  /\ torn' = torn \ {r}
  /\ Decide(v, TRUE)

Enable(r) ==
  /\ approved[r] # None
  /\ ~On(r)
  /\ SwitchOn(r, approved[r])
  /\ Cross({r})
  /\ UNCHANGED <<host, content, approved, run>>

Disable(r) ==
  /\ On(r)
  /\ approved[r] \notin Refused
  /\ enabled' = enabled \ {approved[r]}
  /\ published' = [published EXCEPT ![r] = None]
  /\ Decide(approved[r], FALSE)
  /\ Cross({r})
  /\ UNCHANGED <<host, content, approved, signature, run, torn>>

\* A revision that was enabled before is not approved again: what that does is
\* in module Recipes.
Approve(r, v) ==
  /\ RecipeOf[v] = r
  /\ v \notin enabled
  /\ approved' = [approved EXCEPT ![r] = v]
  /\ Cross({r})
  /\ IF On(r) THEN SwitchOn(r, v)
              ELSE UNCHANGED <<enabled, signature, published, decided, overtaken, torn>>
  /\ UNCHANGED <<host, content, run>>

----------------------------------------------------------------------------
(* update_addon_urls.                                                      *)

\* Deploying the settings of another storage.
Move ==
  /\ host < LastHost
  /\ run = None
  /\ host' = host + 1
  /\ UNCHANGED <<content, approved, enabled, signature, published, run, history>>

Begin ==
  /\ run = None
  /\ migration = None \/ Beside
  /\ run' = [host |-> host, todo |-> Revision, on |-> enabled, ids |-> ids, pc |-> "next",
             revision |-> None, approved |-> None, signature |-> None]
  /\ UNCHANGED <<host, content, approved, enabled, signature, published, history>>

\* Revisions come in the order -created, which a new revision copies from the one
\* before it: the newest recipe's first, and a recipe's own in any order.
Reaches(v) ==
  /\ run # None
  /\ run.pc = "next"
  /\ v \in run.todo
  /\ \A u \in run.todo : RecipeOf[u] <= RecipeOf[v]

At(pc, v) == run # None /\ run.pc = pc /\ run.revision = v

NothingToDo(v) == v \notin Known \/ url[v] = run.host

Skip(v) ==
  /\ Reaches(v)
  /\ NothingToDo(v)
  /\ run' = [run EXCEPT !.todo = @ \ {v}, !.on = @ \ {v}, !.ids = @ \ {v}]
  /\ UNCHANGED <<host, content, approved, enabled, signature, published, history>>

\* rev.save() validates the arguments against other recipes than its own, whose row
\* it reads.
Load(v) ==
  /\ Reaches(v)
  /\ ~NothingToDo(v)
  /\ LET r == RecipeOf[v]
     IN  run' = [run EXCEPT !.pc = "save", !.revision = v,
                            !.approved = approved[r], !.signature = signature[r]]
  /\ UNCHANGED <<host, content, approved, enabled, signature, published, history>>

\* rev.save() writes the whole row, its other arguments as they were read.
Rewritten(v) ==
  /\ At("save", v)
  /\ v \notin Refused
  /\ url' = [url EXCEPT ![v] = run.host]
  /\ ids' = IF v \in run.ids THEN ids \cup {v} ELSE ids \ {v}
  /\ run' = [run EXCEPT !.pc = "sign", !.todo = @ \ {v}, !.on = @ \ {v}, !.ids = @ \ {v}]
  /\ torn' = torn \cup {RecipeOf[v]}
  /\ UNCHANGED <<host, migrated, migration, approved, signature, published,
                decided, overtaken, crossed>>

\* slip: the revision is written anew, without its enabled state.
RewriteReset(v) == Rewritten(v) /\ enabled' = enabled \ {v}

\* Its enabled state is saved as it was read too.
Rewrite(v) ==
  /\ Rewritten(v)
  /\ enabled' = IF v \in run.on THEN enabled \cup {v} ELSE enabled \ {v}

\* slip: the revision that was rewritten is signed.
SignRewritten(v) ==
  /\ At("sign", v)
  /\ run' = [run EXCEPT !.pc = "write",
               !.signature = IF run.approved \in enabled THEN ContentOf(v) ELSE @]
  /\ UNCHANGED <<host, content, approved, enabled, signature, published, history>>

\* update_signature: what the row names as approved is read and signed, and the
\* signature left as it was read if that is not enabled.
Sign(v) ==
  /\ At("sign", v)
  /\ run' = [run EXCEPT !.pc = "write",
               !.signature = IF run.approved \in enabled THEN ContentOf(run.approved) ELSE @]
  /\ UNCHANGED <<host, content, approved, enabled, signature, published, history>>

Released(r) ==
  /\ run' = [run EXCEPT !.pc = "next", !.revision = None, !.approved = None, !.signature = None]
  /\ crossed' = crossed \ {r}
  /\ torn' = IF r \in crossed THEN torn \cup {r} ELSE torn \ {r}

\* slip: the revision that was rewritten becomes the approved one.
WriteBackApproving(v) ==
  /\ At("write", v)
  /\ LET r == RecipeOf[v]
     IN  /\ approved' = [approved EXCEPT ![r] = v]
         /\ signature' = [signature EXCEPT ![r] = run.signature]
         /\ Released(r)
  /\ UNCHANGED <<host, content, enabled, published, decided, overtaken>>

\* recipe.save() writes the whole row.
WriteBack(v) ==
  /\ At("write", v)
  /\ LET r == RecipeOf[v]
     IN  /\ approved' = [approved EXCEPT ![r] = run.approved]
         /\ signature' = [signature EXCEPT ![r] = run.signature]
         /\ Released(r)
  /\ UNCHANGED <<host, content, enabled, published, decided, overtaken>>

\* The loop is over, or has met a revision whose save() is refused.
Over ==
  \/ run.pc = "next" /\ run.todo = {}
  \/ run.pc = "save" /\ run.revision \in Refused

Stop ==
  /\ run' = None
  /\ crossed' = {}
  /\ UNCHANGED <<host, content, approved, enabled, signature, published,
                decided, overtaken, torn>>

End == run # None /\ Over /\ Stop

\* Autograph fails, or the process is stopped, before its end.
Fail == run # None /\ ~Over /\ Stop

----------------------------------------------------------------------------
(* Migration 0014, in a transaction: a revision whose URL ends in the name  *)
(* of no extension's file makes it raise, and all is rolled back.          *)

BeginMigration(to) ==
  /\ migration = None
  /\ run = None \/ Beside
  /\ migration' = [url |-> url, on |-> enabled, ids |-> to]
  /\ UNCHANGED <<host, url, ids, migrated, approved, enabled, signature, published, run, history>>

add_extension_id == ~migrated /\ Known = Revision /\ BeginMigration(Revision)
remove_extension_id == migrated /\ BeginMigration({})

Migrated(on) ==
  /\ url' = migration.url
  /\ ids' = migration.ids
  /\ enabled' = on
  /\ migrated' = ~migrated
  /\ migration' = None
  /\ LET changed == {v \in Revision : \/ url'[v] # url[v]
                                      \/ (v \in ids') # (v \in ids)
                                      \/ (v \in enabled') # (v \in enabled)}
         recipes == {RecipeOf[v] : v \in changed}
     IN  torn' = torn \cup recipes /\ Cross(recipes)
  /\ UNCHANGED <<host, approved, signature, published, run, decided, overtaken>>

\* Every revision is saved as it was read, with the id set or removed; no recipe is
\* signed.
Migrate == migration # None /\ Migrated(migration.on)

\* The deployment fails, and the transaction is rolled back.
FailMigration ==
  /\ migration # None
  /\ migration' = None
  /\ UNCHANGED <<host, url, ids, migrated, approved, enabled, signature, published, run, history>>

EndMigration == Migrate \/ FailMigration

----------------------------------------------------------------------------
(* The other commands.                                                     *)

\* slip: only where there is none.
UpdateMissingSignature(r) ==
  /\ On(r) /\ signature[r] = None
  /\ signature' = [signature EXCEPT ![r] = ContentOf(approved[r])]
  /\ published' = [published EXCEPT ![r] = Signed(approved[r])]
  /\ Cross({r})
  /\ UNCHANGED <<host, content, approved, enabled, run, decided, overtaken, torn>>

\* update_recipe_signatures comes to r: its signature is old, or it has none,
\* or it is not enabled.
UpdateSignature(r) ==
  /\ IF On(r)
     THEN /\ signature' = [signature EXCEPT ![r] = ContentOf(approved[r])]
          /\ published' = [published EXCEPT ![r] = Signed(approved[r])]
          /\ torn' = torn \ {r}
     ELSE /\ signature' = [signature EXCEPT ![r] = None]
          /\ UNCHANGED <<published, torn>>
  /\ Cross({r})
  /\ UNCHANGED <<host, content, approved, enabled, run, decided, overtaken>>

SyncRemoteSettings ==
  /\ published' = [r \in Recipe |-> IF On(r) THEN RecordOf(r) ELSE None]
  /\ UNCHANGED <<host, content, approved, enabled, signature, run, history>>

Users == \E r \in Recipe : Enable(r) \/ Disable(r) \/ (\E v \in Revision : Approve(r, v))

Progress ==
  \/ Begin
  \/ \E v \in Revision : Skip(v) \/ Load(v) \/ Rewrite(v) \/ Sign(v) \/ WriteBack(v)
  \/ End

Next ==
  \/ Users
  \/ Move
  \/ Progress
  \/ Fail
  \/ \E r \in Recipe : UpdateSignature(r)
  \/ SyncRemoteSettings
  \/ add_extension_id
  \/ remove_extension_id
  \/ EndMigration

Spec == Init /\ [][Next]_vars

\* The command is run again, and neither a run nor a deployment hangs; signatures
\* grow old, so that update_recipe_signatures comes to every recipe again; cron
\* repeats sync_remote_settings.
FairSpec ==
  /\ Spec
  /\ WF_vars(Progress)
  /\ WF_vars(EndMigration)
  /\ \A r \in Recipe : WF_vars(UpdateSignature(r))
  /\ WF_vars(SyncRemoteSettings)

----------------------------------------------------------------------------
TypeOK ==
  /\ host \in Host
  /\ url \in [Revision -> Host]
  /\ ids \subseteq Revision
  /\ migrated \in BOOLEAN
  /\ approved \in [Recipe -> Revision \cup {None}]
  /\ enabled \subseteq Revision
  /\ signature \in [Recipe -> Content \cup {None}]
  /\ published \in [Recipe -> Record \cup {None}]
  /\ run \in Run \cup {None}
  /\ migration \in Migration \cup {None}
  /\ decided \subseteq Revision
  /\ overtaken \subseteq Revision
  /\ crossed \subseteq Held
  /\ torn \subseteq Recipe

\* An enabled recipe carries the signature of its content as it is, unless nothing
\* has signed it since the command or the migration rewrote one of its revisions, or
\* since the command wrote back a row that somebody else had signed, approved or
\* switched meanwhile (update_addon_urls.py, Recipe.update_signature, migration 0014).
SignedUnlessTorn ==
  \A r \in Recipe : On(r) /\ r \notin torn => signature[r] = ContentOf(approved[r])

\* The command and the migration switch nothing on or off that nobody switched
\* while they were at it, though they save the enabled state of every revision with
\* the revision (update_addon_urls.py, migration 0014, RecipeRevision.save).
OnlyUsersSwitch ==
  \A v \in Revision \ overtaken : v \in enabled <=> v \in decided

\* The approved revision changes by an approval and by nothing else, though the
\* command saves it with the signature: only where somebody else wrote the recipe
\* since the command read its row (update_addon_urls.py, Recipe.save).
OnlyUsersApprove ==
  [][\A r \in Recipe \ crossed :
       approved'[r] # approved[r] => \E v \in Revision : Approve(r, v)]_vars

\* When the storage has moved, runs fail no more and nobody deploys or takes back the
\* migration, clients come to be served the new URLs, in records whose signatures are
\* of them: of every recipe that is newer than all that have a revision the command
\* cannot save (update_addon_urls, update_recipe_signatures, sync_remote_settings).
UrlsMove ==
  <>[][~Fail /\ ~add_extension_id /\ ~remove_extension_id]_vars =>
    <>[](\A r \in Recipe :
           /\ On(r)
           /\ approved[r] \in Known
           /\ \A v \in Refused : RecipeOf[v] < r
           => LET new == [ContentOf(approved[r]) EXCEPT !.host = host]
              IN  published[r] = [content |-> new, signature |-> new])
=============================================================================

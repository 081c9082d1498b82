--------------------------- MODULE AddonUrlsProofs ---------------------------
(***************************************************************************)
(* The invariants of AddonUrls, for any recipes, revisions and moves.      *)
(***************************************************************************)
EXTENDS AddonUrls, TLAPS

\* Only a recipe's own revisions are approved, so that rewriting a revision
\* leaves the content of other recipes alone.
ApprovedOwn == \A r \in Recipe : approved[r] # None => RecipeOf[approved[r]] = r

\* A run is at a revision, and holds the row of its recipe, until it goes on.  What
\* it is about to save is still to do.
Placed ==
  run # None =>
    /\ run.pc = "next" <=> run.revision = None
    /\ run.pc = "next" => run.approved = None
    /\ run.approved # None => RecipeOf[run.approved] = RecipeOf[run.revision]
    /\ run.pc = "save" => run.revision \in run.todo

\* Whoever has read a revision that nobody switched since saves it as it is.
RunFollows ==
  run # None => \A v \in run.todo \ overtaken : v \in run.on <=> v \in decided
MigrationFollows ==
  migration # None => \A v \in Revision \ overtaken : v \in migration.on <=> v \in decided

\* The row a run holds is as it was, if nobody else wrote it, and what the run will
\* save with it is signed.
RowFollows ==
  \A r \in Held \ crossed :
    /\ run.approved = approved[r]
    /\ run.pc = "write" /\ On(r) => run.signature = ContentOf(approved[r])

Typed == TypeOK /\ ApprovedOwn /\ Placed
Switched == RunFollows /\ MigrationFollows /\ OnlyUsersSwitch
SignedInv == RowFollows /\ SignedUnlessTorn

----------------------------------------------------------------------------
LEMMA ContentType ==
  ASSUME TypeOK, NEW v \in Revision
  PROVE  ContentOf(v) \in Content /\ Signed(v) \in Record
<1>1. ContentOf(v) \in Content
  BY DEF ContentOf, Content, TypeOK, ApiId
<1> QED
  BY <1>1 DEF Signed, Record

LEMMA RecordType ==
  ASSUME TypeOK, NEW r \in Recipe, On(r)
  PROVE  RecordOf(r) \in Record /\ approved[r] \in Revision
<1>1. approved[r] \in Revision
  BY DEF On, TypeOK
<1>2. ContentOf(approved[r]) \in Content
  BY <1>1, ContentType
<1> QED
  BY <1>1, <1>2 DEF RecordOf, Record, TypeOK

LEMMA DecideType ==
  ASSUME TypeOK, NEW v \in Revision, NEW on \in BOOLEAN, Decide(v, on)
  PROVE  decided' \subseteq Revision /\ overtaken' \subseteq Revision
BY DEF Decide, TypeOK

\* The run under way, and the recipe it holds.
LEMMA RunType ==
  ASSUME Typed, run # None
  PROVE  /\ run \in Run
         /\ run.pc # "next" => /\ run.revision \in Revision
                               /\ RecipeOf[run.revision] \in Recipe
                               /\ Held = {RecipeOf[run.revision]}
         /\ run.pc = "next" => Held = {}
<1>1. run \in Run
  BY DEF Typed, TypeOK
<1>2. run.pc # "next" => run.revision \in Revision
  BY <1>1 DEF Typed, Placed, Run
<1> QED
  BY <1>1, <1>2, RevisionsAssumption DEF Held

LEMMA RunGoes ==
  ASSUME Typed, NEW v \in Revision, Skip(v) \/ Load(v) \/ Rewrite(v) \/ Sign(v) \/ WriteBack(v)
  PROVE  run # None /\ run \in Run /\ run' \in Run /\ run' # None
<1> USE RevisionsAssumption, NoneAssumption
<1>0. SUFFICES run # None /\ run \in Run /\ run' \in Run
  OBVIOUS
<1>1. run # None /\ run \in Run
  BY RunType DEF Skip, Load, Rewrite, Rewritten, Sign, WriteBack, Reaches, At
<1>2. CASE Skip(v)
  BY <1>1, <1>2 DEF Skip, Run
<1>3. CASE Rewrite(v)
  BY <1>1, <1>3 DEF Rewrite, Rewritten, Run
<1>4. CASE WriteBack(v)
  BY <1>1, <1>4 DEF WriteBack, Released, Run
<1>5. CASE Load(v)
  <2>1. /\ approved[RecipeOf[v]] \in Revision \cup {None}
        /\ signature[RecipeOf[v]] \in Content \cup {None}
    BY DEF Typed, TypeOK
  <2> QED
    BY <1>1, <1>5, <2>1 DEF Load, Run
<1>6. CASE Sign(v)
  <2>1. run.approved \in enabled => ContentOf(run.approved) \in Content
    BY ContentType DEF Typed, TypeOK
  <2> QED
    BY <1>1, <1>6, <2>1 DEF Sign, Run
<1> QED
  BY <1>1, <1>2, <1>3, <1>4, <1>5, <1>6

LEMMA HeldType ==
  ASSUME Typed
  PROVE  Held \subseteq Recipe
BY RunType DEF Held

LEMMA CrossType ==
  ASSUME Typed, NEW R, Cross(R), run' = run
  PROVE  crossed' \subseteq Held'
BY DEF Cross, Typed, TypeOK, Held

\* A decision is recorded with the new enabled state.
LEMMA DecideSwitches ==
  ASSUME TypeOK, Switched, NEW v \in Revision, NEW on \in BOOLEAN, Decide(v, on), run' = run,
         migration' = migration,
         enabled' = IF on THEN enabled \cup {v} ELSE enabled \ {v}
  PROVE  Switched'
<1>1. \A w \in Revision \ {v} : /\ w \in decided' <=> w \in decided
                                /\ w \in enabled' <=> w \in enabled
                                /\ w \in overtaken' <=> w \in overtaken
  BY DEF Decide
<1>2. v \in decided' <=> v \in enabled'
  BY DEF Decide
<1>3. (run # None /\ v \in run.todo) \/ migration # None => v \in overtaken'
  BY DEF Decide
<1>4. OnlyUsersSwitch'
  BY <1>1, <1>2 DEF Switched, OnlyUsersSwitch
<1>5. RunFollows'
  <2>1. run # None => run.todo \subseteq Revision
    BY DEF TypeOK, Run
  <2> QED
    BY <1>1, <1>3, <2>1 DEF Switched, RunFollows
<1>6. MigrationFollows'
  BY <1>1, <1>3 DEF Switched, MigrationFollows
<1> QED
  BY <1>4, <1>5, <1>6 DEF Switched

----------------------------------------------------------------------------
LEMMA TypedStep ==
  ASSUME Typed, [Next]_vars
  PROVE  Typed'
<1> USE RevisionsAssumption, NoneAssumption
<1>0. TypeOK /\ ApprovedOwn /\ Placed
  BY DEF Typed
<1>s. ASSUME NEW r \in Recipe, NEW v \in Revision, SwitchOn(r, v)
      PROVE  /\ enabled' \subseteq Revision
             /\ signature' \in [Recipe -> Content \cup {None}]
             /\ published' \in [Recipe -> Record \cup {None}]
             /\ torn' \subseteq Recipe
             /\ decided' \subseteq Revision /\ overtaken' \subseteq Revision
  <2>1. ContentOf(v) \in Content /\ Signed(v) \in Record
    BY <1>0, ContentType
  <2>2. decided' \subseteq Revision /\ overtaken' \subseteq Revision
    BY <1>0, <1>s, DecideType DEF SwitchOn
  <2> QED
    BY <1>0, <1>s, <2>1, <2>2 DEF SwitchOn, TypeOK
<1>1. ASSUME NEW r \in Recipe, Enable(r)
      PROVE  Typed'
  <2>1. approved[r] \in Revision
    BY <1>0, <1>1 DEF Enable, TypeOK
  <2>2. crossed' \subseteq Held'
    BY <1>1, CrossType DEF Enable
  <2> QED
    BY <1>0, <1>1, <1>s, <2>1, <2>2 DEF Enable, content, Typed, TypeOK, ApprovedOwn, Placed
<1>2. ASSUME NEW r \in Recipe, Disable(r)
      PROVE  Typed'
  <2>1. approved[r] \in Revision
    BY <1>0, <1>2 DEF Disable, On, TypeOK
  <2>2. decided' \subseteq Revision /\ overtaken' \subseteq Revision
    BY <1>0, <1>2, <2>1, DecideType DEF Disable
  <2>3. published' \in [Recipe -> Record \cup {None}] /\ enabled' \subseteq Revision
    BY <1>0, <1>2 DEF Disable, TypeOK
  <2>4. crossed' \subseteq Held'
    BY <1>2, CrossType DEF Disable
  <2> QED
    BY <1>0, <1>2, <2>2, <2>3, <2>4 DEF Disable, content, Typed, TypeOK, ApprovedOwn, Placed
<1>3. ASSUME NEW r \in Recipe, NEW v \in Revision, Approve(r, v)
      PROVE  Typed'
  <2>1. approved' \in [Recipe -> Revision \cup {None}] /\ ApprovedOwn'
    BY <1>0, <1>3 DEF Approve, TypeOK, ApprovedOwn
  <2>2. crossed' \subseteq Held'
    BY <1>3, CrossType DEF Approve
  <2> QED
    BY <1>0, <1>3, <1>s, <2>1, <2>2 DEF Approve, content, Typed, TypeOK, Placed
<1>4. CASE Move
  BY <1>0, <1>4 DEF Move, content, history, Typed, TypeOK, ApprovedOwn, Placed, Held, Host
<1>5. CASE Begin
  <2>1. run' \in Run
    BY <1>0, <1>5 DEF Begin, TypeOK, Run
  <2>2. Placed' /\ Held' = {} /\ Held = {}
    BY <1>5 DEF Begin, Placed, Held
  <2> QED
    BY <1>0, <1>5, <2>1, <2>2 DEF Begin, content, history, Typed, TypeOK, ApprovedOwn
<1>t. ASSUME run # None, run' \in Run, Placed', Held' = Held,
             UNCHANGED <<host, content, approved, enabled, signature, published, history>>
      PROVE  Typed'
  BY <1>0, <1>t DEF content, history, Typed, TypeOK, ApprovedOwn
<1>6. ASSUME NEW v \in Revision, Skip(v)
      PROVE  Typed'
  <2>1. run # None /\ run \in Run /\ run.pc = "next"
    BY <1>6, RunType DEF Skip, Reaches
  <2>2. run' \in Run /\ run'.pc = run.pc /\ run'.revision = run.revision /\ run'.approved = run.approved
    BY <1>6, <2>1 DEF Skip, Run
  <2>3. Placed' /\ Held' = Held
    BY <1>0, <2>1, <2>2 DEF Placed, Held
  <2> QED
    BY <1>6, <1>t, <2>1, <2>2, <2>3 DEF Skip
<1>7. ASSUME NEW v \in Revision, Load(v)
      PROVE  Typed'
  <2>1. run # None /\ run \in Run /\ run.pc = "next" /\ Held = {}
    BY <1>7, RunType DEF Load, Reaches
  <2>2. RecipeOf[v] \in Recipe
    OBVIOUS
  <2>3. /\ run' \in Run /\ run'.pc = "save" /\ run'.revision = v
        /\ run'.approved = approved[RecipeOf[v]] /\ v \in run'.todo
    BY <1>0, <1>7, <2>1, <2>2 DEF Load, Reaches, Run, TypeOK
  <2>4. Placed'
    BY <1>0, <2>2, <2>3 DEF Placed, ApprovedOwn
  <2>5. crossed = {}
    BY <1>0, <2>1 DEF TypeOK
  <2> QED
    BY <1>0, <1>7, <2>3, <2>4, <2>5 DEF Load, content, history, Typed, TypeOK, ApprovedOwn
<1>8. ASSUME NEW v \in Revision, Rewrite(v)
      PROVE  Typed'
  <2>1. run # None /\ run \in Run /\ run.pc = "save" /\ run.revision = v
    BY <1>8, RunType DEF Rewrite, Rewritten, At
  <2>2. /\ run' \in Run /\ run'.pc = "sign"
        /\ run'.revision = run.revision /\ run'.approved = run.approved
    BY <1>8, <2>1 DEF Rewrite, Rewritten, Run
  <2>3. Placed' /\ Held' = Held
    BY <1>0, <2>1, <2>2 DEF Placed, Held
  <2>4. run.host \in Host
    BY <2>1 DEF Run
  <2>5. url' \in [Revision -> Host] /\ ids' \subseteq Revision /\ enabled' \subseteq Revision
        /\ torn' \subseteq Recipe
    BY <1>0, <1>8, <2>4 DEF Rewrite, Rewritten, TypeOK
  <2> QED
    BY <1>0, <1>8, <2>2, <2>3, <2>5 DEF Rewrite, Rewritten, Typed, TypeOK, ApprovedOwn
<1>9. ASSUME NEW v \in Revision, Sign(v)
      PROVE  Typed'
  <2>1. run # None /\ run \in Run /\ run.pc = "sign"
    BY <1>9, RunType DEF Sign, At
  <2>2. run.approved \in enabled => ContentOf(run.approved) \in Content
    BY <1>0, ContentType DEF TypeOK
  <2>3. /\ run' \in Run /\ run'.pc = "write"
        /\ run'.revision = run.revision /\ run'.approved = run.approved
    BY <1>9, <2>1, <2>2 DEF Sign, Run
  <2>4. Placed' /\ Held' = Held
    BY <1>0, <2>1, <2>3 DEF Placed, Held
  <2> QED
    BY <1>9, <1>t, <2>1, <2>3, <2>4 DEF Sign
<1>10. ASSUME NEW v \in Revision, WriteBack(v)
       PROVE  Typed'
  <2>1. /\ run # None /\ run \in Run /\ run.pc = "write" /\ run.revision = v
        /\ RecipeOf[v] \in Recipe /\ Held = {RecipeOf[v]}
    BY <1>10, RunType DEF WriteBack, At
  <2>2. /\ run' \in Run /\ run'.pc = "next" /\ run'.revision = None /\ run'.approved = None
    BY <1>10, <2>1 DEF WriteBack, Released, Run
  <2>3. Placed' /\ Held' = {} /\ crossed' = {} /\ torn' \subseteq Recipe
    BY <1>0, <1>10, <2>1, <2>2 DEF WriteBack, Released, Placed, Held, TypeOK
  <2>4. run.approved \in Revision \cup {None} /\ run.signature \in Content \cup {None}
    BY <2>1 DEF Run
  <2>5. /\ approved' \in [Recipe -> Revision \cup {None}]
        /\ signature' \in [Recipe -> Content \cup {None}]
    BY <1>0, <1>10, <2>4 DEF WriteBack, TypeOK
  <2>6. ApprovedOwn'
    BY <1>0, <1>10, <2>1 DEF WriteBack, ApprovedOwn, Placed, TypeOK
  <2> QED
    BY <1>0, <1>10, <2>2, <2>3, <2>5, <2>6 DEF WriteBack, content, Typed, TypeOK
<1>11. CASE End \/ Fail
  <2>1. Stop
    BY <1>11 DEF End, Fail
  <2> QED
    BY <1>0, <2>1 DEF Stop, content, Typed, TypeOK, ApprovedOwn, Placed, Held
<1>12. ASSUME NEW r \in Recipe, UpdateSignature(r)
       PROVE  Typed'
  <2>1. On(r) => ContentOf(approved[r]) \in Content /\ Signed(approved[r]) \in Record
    BY <1>0, ContentType, RecordType
  <2>2. crossed' \subseteq Held'
    BY <1>12, CrossType DEF UpdateSignature
  <2>3. /\ signature' \in [Recipe -> Content \cup {None}]
        /\ published' \in [Recipe -> Record \cup {None}]
        /\ torn' \subseteq Recipe
    BY <1>0, <1>12, <2>1 DEF UpdateSignature, TypeOK
  <2> QED
    BY <1>0, <1>12, <2>2, <2>3 DEF UpdateSignature, content, Typed, TypeOK, ApprovedOwn, Placed
<1>13. CASE SyncRemoteSettings
  <2>1. \A r \in Recipe : On(r) => RecordOf(r) \in Record
    BY <1>0, RecordType
  <2>2. published' \in [Recipe -> Record \cup {None}]
    BY <1>13, <2>1 DEF SyncRemoteSettings
  <2> QED
    BY <1>0, <1>13, <2>2
    DEF SyncRemoteSettings, content, history, Typed, TypeOK, ApprovedOwn, Placed, Held
<1>m. ASSUME migration' \in Migration \cup {None},
             UNCHANGED <<host, url, ids, migrated, approved, enabled, signature, published, run,
                         history>>
      PROVE  Typed'
  BY <1>0, <1>m DEF history, Typed, TypeOK, ApprovedOwn, Placed, Held
<1>14. CASE add_extension_id \/ remove_extension_id
  <2>1. PICK to \in SUBSET Revision : BeginMigration(to)
    BY <1>14 DEF add_extension_id, remove_extension_id
  <2>2. migration' \in Migration
    BY <1>0, <2>1 DEF BeginMigration, Migration, TypeOK
  <2> QED
    BY <1>m, <2>1, <2>2 DEF BeginMigration
<1>15. CASE FailMigration
  BY <1>m, <1>15 DEF FailMigration
<1>16. CASE Migrate
  <2>1. PICK R \in SUBSET Recipe : torn' = torn \cup R /\ Cross(R)
    <3> DEFINE changed == {v \in Revision : \/ url'[v] # url[v]
                                            \/ (v \in ids') # (v \in ids)
                                            \/ (v \in enabled') # (v \in enabled)}
               R == {RecipeOf[v] : v \in changed}
    <3>1. torn' = torn \cup R /\ Cross(R)
      BY <1>16 DEF Migrate, Migrated
    <3>2. R \in SUBSET Recipe
      OBVIOUS
    <3> HIDE DEF R
    <3> QED
      BY <3>1, <3>2
  <2>2. run' = run
    BY <1>16 DEF Migrate, Migrated
  <2>3. crossed' \subseteq Held'
    BY <2>1, <2>2, CrossType
  <2>4. migration \in Migration
    BY <1>0, <1>16 DEF Migrate, TypeOK
  <2>5. /\ url' \in [Revision -> Host] /\ ids' \subseteq Revision /\ enabled' \subseteq Revision
        /\ migrated' \in BOOLEAN /\ migration' = None
    BY <1>0, <1>16, <2>4 DEF Migrate, Migrated, Migration
  <2> QED
    BY <1>0, <1>16, <2>1, <2>2, <2>3, <2>5
    DEF Migrate, Migrated, Typed, TypeOK, ApprovedOwn, Placed
<1>17. CASE UNCHANGED vars
  BY <1>0, <1>17 DEF vars, content, history, Typed, TypeOK, ApprovedOwn, Placed, Held
<1> QED
  BY <1>1, <1>2, <1>3, <1>4, <1>5, <1>6, <1>7, <1>8, <1>9, <1>10, <1>11, <1>12, <1>13, <1>14,
     <1>15, <1>16, <1>17
  DEF Next, EndMigration, Users, Progress

LEMMA InitTyped ==
  ASSUME Init
  PROVE  Typed
<1>1. host \in Host /\ url \in [Revision -> Host]
  BY RevisionsAssumption DEF Init, Host
<1>2. /\ approved \in [Recipe -> Revision \cup {None}]
      /\ signature \in [Recipe -> Content \cup {None}]
      /\ published \in [Recipe -> Record \cup {None}]
  BY DEF Init
<1>3. ApprovedOwn /\ Placed /\ crossed \subseteq Held
  BY DEF Init, ApprovedOwn, Placed
<1> QED
  BY <1>1, <1>2, <1>3 DEF Init, Typed, TypeOK

\* Revisions keep their URLs and ids, hosts, switches and signatures their types,
\* whatever interleaves (update_addon_urls.py, migration 0014).
THEOREM TypeCorrect == Spec => []TypeOK
<1>1. Init => Typed
  BY InitTyped
<1>2. Typed /\ [Next]_vars => Typed'
  BY TypedStep
<1>3. Typed => TypeOK
  BY DEF Typed
<1> QED
  BY <1>1, <1>2, <1>3, PTL DEF Spec

----------------------------------------------------------------------------
LEMMA SwitchedStep ==
  ASSUME Typed, Switched, [Next]_vars
  PROVE  Switched'
<1> USE RevisionsAssumption, NoneAssumption
<1>0. TypeOK /\ RunFollows /\ MigrationFollows /\ OnlyUsersSwitch
  BY DEF Typed, Switched
<1>1. ASSUME NEW r \in Recipe, Enable(r)
      PROVE  Switched'
  <2>1. approved[r] \in Revision
    BY <1>0, <1>1 DEF Enable, TypeOK
  <2> QED
    BY <1>0, <1>1, <2>1, DecideSwitches DEF Enable, SwitchOn, content
<1>2. ASSUME NEW r \in Recipe, Disable(r)
      PROVE  Switched'
  <2>1. approved[r] \in Revision
    BY <1>0, <1>2 DEF Disable, On, TypeOK
  <2> QED
    BY <1>0, <1>2, <2>1, DecideSwitches DEF Disable, content
<1>3. ASSUME UNCHANGED <<enabled, decided, overtaken>>, RunFollows', MigrationFollows'
      PROVE  Switched'
  BY <1>0, <1>3 DEF Switched, OnlyUsersSwitch
<1>4. ASSUME UNCHANGED <<run, decided, overtaken>>
      PROVE  RunFollows'
  BY <1>0, <1>4 DEF RunFollows
<1>5. ASSUME UNCHANGED <<migration, decided, overtaken>>
      PROVE  MigrationFollows'
  BY <1>0, <1>5 DEF MigrationFollows
<1>6. ASSUME UNCHANGED <<enabled, run, migration, decided, overtaken>>
      PROVE  Switched'
  BY <1>3, <1>4, <1>5, <1>6
<1>7. ASSUME NEW r \in Recipe, NEW v \in Revision, Approve(r, v)
      PROVE  Switched'
  <2>1. CASE On(r)
    BY <1>0, <1>7, <2>1, DecideSwitches DEF Approve, SwitchOn, content
  <2>2. CASE ~On(r)
    BY <1>6, <1>7, <2>2 DEF Approve, content
  <2> QED
    BY <2>1, <2>2
<1>8. CASE Begin
  <2>1. RunFollows'
    BY <1>0, <1>8 DEF Begin, history, RunFollows, OnlyUsersSwitch
  <2> QED
    BY <1>3, <1>5, <1>8, <2>1 DEF Begin, content, history
<1>9. ASSUME run # None, run' # None, run'.todo \subseteq run.todo,
             \A v \in run'.todo : v \in run'.on <=> v \in run.on,
             UNCHANGED <<decided, overtaken>>
      PROVE  RunFollows'
  BY <1>0, <1>9 DEF RunFollows
<1>10. ASSUME NEW v \in Revision, Skip(v)
       PROVE  Switched'
  <2>1. run # None /\ run \in Run /\ run' # None
    BY <1>10, RunGoes
  <2>2. run' # None /\ run'.todo = run.todo \ {v} /\ run'.on = run.on \ {v}
    BY <1>10, <2>1 DEF Skip, Run
  <2> QED
    BY <1>3, <1>5, <1>9, <1>10, <2>1, <2>2 DEF Skip, content, history
<1>11. ASSUME NEW v \in Revision, Load(v) \/ Sign(v) \/ WriteBack(v)
       PROVE  Switched'
  <2>1. run # None /\ run \in Run /\ run' # None
    BY <1>11, RunGoes
  <2>2. run' # None /\ run'.todo = run.todo /\ run'.on = run.on
    BY <1>11, <2>1 DEF Load, Sign, WriteBack, Released, Run
  <2>3. UNCHANGED <<content, enabled, decided, overtaken>>
    BY <1>11 DEF Load, Sign, WriteBack, content, history
  <2> QED
    BY <1>3, <1>5, <1>9, <2>1, <2>2, <2>3 DEF content
<1>12. ASSUME NEW v \in Revision, Rewrite(v)
       PROVE  Switched'
  <2>1. run # None /\ run \in Run /\ run' # None
    BY <1>12, RunGoes
  <2>2. run' # None /\ run'.todo = run.todo \ {v} /\ run'.on = run.on \ {v}
    BY <1>12, <2>1 DEF Rewrite, Rewritten, Run
  <2>3. RunFollows' /\ MigrationFollows'
    BY <1>5, <1>9, <1>12, <2>1, <2>2 DEF Rewrite, Rewritten
  <2>4. v \in run.todo \ overtaken => (v \in run.on <=> v \in decided)
    BY <1>0, <2>1 DEF RunFollows
  <2>5. v \in run.todo
    BY <1>12 DEF Rewrite, Rewritten, At, Typed, Placed
  <2> QED
    BY <1>0, <1>12, <2>3, <2>4, <2>5 DEF Rewrite, Rewritten, Switched, OnlyUsersSwitch
<1>13. CASE End \/ Fail
  <2>1. RunFollows' /\ UNCHANGED <<enabled, migration, decided, overtaken>>
    BY <1>13 DEF End, Fail, Stop, content, RunFollows
  <2> QED
    BY <1>3, <1>5, <2>1
<1>14. CASE Move
  BY <1>6, <1>14 DEF Move, content, history
<1>15. ASSUME NEW r \in Recipe, UpdateSignature(r)
       PROVE  Switched'
  BY <1>6, <1>15 DEF UpdateSignature, content
<1>16. CASE SyncRemoteSettings
  BY <1>6, <1>16 DEF SyncRemoteSettings, content, history
<1>17. CASE add_extension_id \/ remove_extension_id
  <2>1. PICK to \in SUBSET Revision : BeginMigration(to)
    BY <1>17 DEF add_extension_id, remove_extension_id
  <2>2. MigrationFollows'
    BY <1>0, <2>1 DEF BeginMigration, history, MigrationFollows, OnlyUsersSwitch
  <2> QED
    BY <1>3, <1>4, <2>1, <2>2 DEF BeginMigration, history
<1>18. CASE FailMigration
  BY <1>3, <1>4, <1>18 DEF FailMigration, history, MigrationFollows
<1>19. CASE Migrate
  <2>1. UNCHANGED <<run, decided, overtaken>> /\ migration' = None /\ enabled' = migration.on
    BY <1>19 DEF Migrate, Migrated
  <2>2. OnlyUsersSwitch'
    BY <1>0, <1>19, <2>1 DEF Migrate, MigrationFollows, OnlyUsersSwitch
  <2> QED
    BY <1>4, <2>1, <2>2 DEF Switched, MigrationFollows
<1>20. CASE UNCHANGED vars
  BY <1>6, <1>20 DEF vars, content, history
<1> QED
  BY <1>1, <1>2, <1>7, <1>8, <1>10, <1>11, <1>12, <1>13, <1>14, <1>15, <1>16, <1>17, <1>18,
     <1>19, <1>20
  DEF Next, EndMigration, Users, Progress

\* However many revisions the command and the migration rewrite, and wherever they
\* end, only users switch recipes: a revision's switch is undone only where a user
\* moved it behind their back (update_addon_urls.py, migration 0014,
\* RecipeRevision.save).
THEOREM UsersSwitch == Spec => []OnlyUsersSwitch
<1>1. Init => Typed /\ Switched
  BY InitTyped DEF Init, Switched, RunFollows, MigrationFollows, OnlyUsersSwitch
<1>2. Typed /\ Switched /\ [Next]_vars => Typed' /\ Switched'
  BY TypedStep, SwitchedStep
<1>3. Switched => OnlyUsersSwitch
  BY DEF Switched
<1> QED
  BY <1>1, <1>2, <1>3, PTL DEF Spec

----------------------------------------------------------------------------
\* What a step leaves of a recipe it is not about.
Kept(p) ==
  /\ approved'[p] = approved[p]
  /\ On(p)' => On(p) /\ ContentOf(approved[p])' = ContentOf(approved[p])

LEMMA KeptSame ==
  ASSUME UNCHANGED <<url, ids, approved, enabled>>, NEW p
  PROVE  Kept(p)
BY DEF Kept, On, ContentOf

LEMMA SwitchOnKeeps ==
  ASSUME Typed, NEW r \in Recipe, NEW v \in Revision, SwitchOn(r, v), RecipeOf[v] = r,
         NEW p \in Recipe \ {r}, approved'[p] = approved[p], UNCHANGED <<url, ids>>
  PROVE  Kept(p) /\ signature'[p] = signature[p] /\ (p \in torn' <=> p \in torn)
<1>1. approved[p] # None => approved[p] # v
  BY DEF Typed, ApprovedOwn
<1>2. On(p)' => On(p)
  BY <1>1 DEF SwitchOn, On
<1> QED
  BY <1>2 DEF SwitchOn, Kept, ContentOf, Typed, TypeOK

LEMMA OthersKept ==
  ASSUME Typed, NEW r \in Recipe, NEW p \in Recipe \ {r},
         \/ Enable(r) \/ Disable(r) \/ UpdateSignature(r)
         \/ \E v \in Revision : Approve(r, v)
  PROVE  Kept(p) /\ signature'[p] = signature[p] /\ (p \in torn' <=> p \in torn)
<1> USE NoneAssumption
<1>0. TypeOK /\ ApprovedOwn
  BY DEF Typed
<1>1. CASE Enable(r)
  <2>1. approved[r] \in Revision /\ RecipeOf[approved[r]] = r
    BY <1>0, <1>1 DEF Enable, TypeOK, ApprovedOwn
  <2> QED
    BY <1>1, <2>1, SwitchOnKeeps DEF Enable, content
<1>2. CASE Disable(r)
  BY <1>0, <1>2 DEF Disable, content, Kept, On, ContentOf
<1>3. CASE UpdateSignature(r)
  <2>1. Kept(p)
    BY <1>3, KeptSame DEF UpdateSignature, content
  <2> QED
    BY <1>0, <1>3, <2>1 DEF UpdateSignature, TypeOK
<1>4. ASSUME NEW v \in Revision, Approve(r, v)
      PROVE  Kept(p) /\ signature'[p] = signature[p] /\ (p \in torn' <=> p \in torn)
  <2>1. approved'[p] = approved[p] /\ RecipeOf[v] = r /\ UNCHANGED <<url, ids>>
    BY <1>0, <1>4 DEF Approve, content, TypeOK
  <2>2. CASE On(r)
    BY <1>4, <2>1, <2>2, SwitchOnKeeps DEF Approve
  <2>3. CASE ~On(r)
    BY <1>4, <2>1, <2>3 DEF Approve, Kept, On, ContentOf
  <2> QED
    BY <2>2, <2>3
<1> QED
  BY <1>1, <1>2, <1>3, <1>4

LEMMA RewriteKeeps ==
  ASSUME Typed, NEW v \in Revision, Rewrite(v), NEW p \in Recipe \ {RecipeOf[v]}
  PROVE  Kept(p)
<1>1. approved' = approved /\ (approved[p] # None => approved[p] \in Revision \ {v})
  BY DEF Rewrite, Rewritten, Typed, TypeOK, ApprovedOwn
<1>2. On(p)' => On(p)
  BY <1>1 DEF Rewrite, On
<1>3. approved[p] # None =>
        url'[approved[p]] = url[approved[p]] /\ (approved[p] \in ids' <=> approved[p] \in ids)
  BY <1>1 DEF Rewrite, Rewritten, Typed, TypeOK
<1> QED
  BY <1>1, <1>2, <1>3 DEF Kept, On, ContentOf

\* The recipes of the revisions that the migration changed are torn, and crossed.
LEMMA MigrateKeeps ==
  ASSUME Typed, Migrate
  PROVE  \E R \in SUBSET Recipe : /\ torn' = torn \cup R /\ Cross(R)
                                  /\ \A p \in Recipe \ R : Kept(p)
<1> DEFINE changed == {v \in Revision : \/ url'[v] # url[v]
                                        \/ (v \in ids') # (v \in ids)
                                        \/ (v \in enabled') # (v \in enabled)}
           recipes == {RecipeOf[v] : v \in changed}
<1>1. torn' = torn \cup recipes /\ Cross(recipes) /\ approved' = approved
  BY DEF Migrate, Migrated
<1>2. recipes \in SUBSET Recipe
  BY RevisionsAssumption
<1>3. ASSUME NEW p \in Recipe \ recipes
      PROVE  Kept(p)
  <2>1. CASE approved[p] = None
    BY <1>1, <2>1 DEF Kept, On
  <2>2. CASE approved[p] # None
    <3>1. approved[p] \in Revision /\ RecipeOf[approved[p]] = p
      BY <2>2 DEF Typed, TypeOK, ApprovedOwn
    <3>2. approved[p] \notin changed
      BY <1>3, <3>1
    <3>3. /\ url'[approved[p]] = url[approved[p]]
          /\ approved[p] \in ids' <=> approved[p] \in ids
          /\ approved[p] \in enabled' <=> approved[p] \in enabled
      BY <3>1, <3>2
    <3> HIDE DEF changed
    <3> QED
      BY <1>1, <3>3 DEF Kept, On, ContentOf
  <2> QED
    BY <2>1, <2>2
<1> HIDE DEF recipes
<1> QED
  BY <1>1, <1>2, <1>3

----------------------------------------------------------------------------
LEMMA RowStep ==
  ASSUME Typed, RowFollows, [Next]_vars
  PROVE  RowFollows'
<1> USE RevisionsAssumption, NoneAssumption
<1>0. TypeOK /\ ApprovedOwn /\ Held \subseteq Recipe
  BY HeldType DEF Typed
<1>1. ASSUME NEW R, \A p \in Recipe \ R : Kept(p), Cross(R), run' = run
      PROVE  RowFollows'
  <2>1. SUFFICES ASSUME NEW p \in Held' \ crossed'
        PROVE  /\ run'.approved = approved'[p]
               /\ run'.pc = "write" /\ On(p)' => run'.signature = ContentOf(approved[p])'
    BY DEF RowFollows
  <2>2. p \in Held \ crossed /\ p \in Recipe \ R
    BY <1>0, <1>1, <2>1 DEF Held, Cross
  <2>3. /\ run.approved = approved[p]
        /\ run.pc = "write" /\ On(p) => run.signature = ContentOf(approved[p])
    BY <2>2 DEF RowFollows
  <2>4. Kept(p)
    BY <1>1, <2>2
  <2> QED
    BY <1>1, <2>3, <2>4 DEF Kept
<1>2. ASSUME UNCHANGED <<url, ids, approved, enabled, run, crossed>>
      PROVE  RowFollows'
  BY <1>2 DEF RowFollows, Held, On, ContentOf
<1>3. ASSUME NEW r \in Recipe,
             Enable(r) \/ Disable(r) \/ UpdateSignature(r) \/ \E v \in Revision : Approve(r, v)
      PROVE  RowFollows'
  <2>1. \A p \in Recipe \ {r} : Kept(p)
    BY <1>3, OthersKept
  <2>2. Cross({r}) /\ run' = run
    BY <1>3 DEF Enable, Disable, UpdateSignature, Approve
  <2> QED
    BY <1>1, <2>1, <2>2
<1>4. CASE Move \/ SyncRemoteSettings \/ FailMigration \/ UNCHANGED vars
  BY <1>2, <1>4 DEF Move, SyncRemoteSettings, FailMigration, vars, content, history
<1>5. CASE add_extension_id \/ remove_extension_id
  BY <1>2, <1>5 DEF add_extension_id, remove_extension_id, BeginMigration, history
<1>6. CASE Migrate
  <2>1. run' = run
    BY <1>6 DEF Migrate, Migrated
  <2> QED
    BY <1>1, <1>6, <2>1, MigrateKeeps
<1>7. ASSUME Held' = {}
      PROVE  RowFollows'
  BY <1>7 DEF RowFollows
<1>8. CASE Begin \/ End \/ Fail
  <2>1. Held' = {}
    BY <1>8 DEF Begin, End, Fail, Stop, Held
  <2> QED
    BY <1>7, <2>1
<1>9. ASSUME NEW v \in Revision, Skip(v) \/ WriteBack(v)
      PROVE  RowFollows'
  <2>1. run # None /\ run \in Run
    BY <1>9, RunType DEF Skip, WriteBack, Reaches, At
  <2>2. run'.pc = "next"
    BY <1>9, <2>1 DEF Skip, WriteBack, Reaches, Released, Run
  <2> QED
    BY <1>7, <2>2 DEF Held
<1>10. ASSUME NEW v \in Revision, Load(v)
       PROVE  RowFollows'
  <2>1. run # None /\ run \in Run
    BY <1>10, RunType DEF Load, Reaches
  <2>2. run'.pc = "save" /\ run'.revision = v /\ run'.approved = approved[RecipeOf[v]]
    BY <1>10, <2>1 DEF Load, Run
  <2>3. approved' = approved
    BY <1>10 DEF Load
  <2> QED
    BY <2>2, <2>3 DEF RowFollows, Held
<1>11. ASSUME NEW v \in Revision, Rewrite(v)
       PROVE  RowFollows'
  <2>1. run # None /\ run \in Run /\ run' # None /\ run.pc = "save"
    BY <1>11, RunGoes DEF Rewrite, Rewritten, At
  <2>2. /\ run' # None /\ run'.pc = "sign"
        /\ run'.revision = run.revision /\ run'.approved = run.approved
    BY <1>11, <2>1 DEF Rewrite, Rewritten, Run
  <2>3. Held' = Held /\ UNCHANGED <<approved, crossed>>
    BY <1>11, <2>1, <2>2 DEF Rewrite, Rewritten, Held
  <2> QED
    BY <2>2, <2>3 DEF RowFollows
<1>12. ASSUME NEW v \in Revision, Sign(v)
       PROVE  RowFollows'
  <2>1. run # None /\ run \in Run /\ run' # None /\ run.pc = "sign"
    BY <1>12, RunGoes DEF Sign, At
  <2>2. /\ run' # None /\ run'.pc = "write"
        /\ run'.revision = run.revision /\ run'.approved = run.approved
        /\ run.approved \in enabled => run'.signature = ContentOf(run.approved)
    BY <1>12, <2>1 DEF Sign, Run
  <2>3. Held' = Held /\ UNCHANGED <<url, ids, enabled, approved, crossed>>
    BY <1>12, <2>1, <2>2 DEF Sign, Held, content, history
  <2> QED
    BY <2>2, <2>3 DEF RowFollows, On, ContentOf
<1> QED
  BY <1>3, <1>4, <1>5, <1>6, <1>8, <1>9, <1>10, <1>11, <1>12 DEF Next, EndMigration, Users, Progress

\* What leaves a recipe's approved revision, its switch and its content alone,
\* and its signature too, leaves it signed.
LEMMA SignedStep ==
  ASSUME Typed, RowFollows, SignedUnlessTorn, [Next]_vars
  PROVE  SignedUnlessTorn'
<1> USE RevisionsAssumption, NoneAssumption
<1>0. TypeOK /\ ApprovedOwn
  BY DEF Typed
<1>s. SUFFICES ASSUME NEW q \in Recipe, On(q)', q \notin torn'
      PROVE  signature'[q] = ContentOf(approved[q])'
  BY DEF SignedUnlessTorn
<1>b. ASSUME Kept(q), signature'[q] = signature[q], q \notin torn
      PROVE  signature'[q] = ContentOf(approved[q])'
  BY <1>s, <1>b DEF SignedUnlessTorn, Kept
<1>1. ASSUME UNCHANGED <<url, ids, approved, enabled, signature, torn>>
      PROVE  signature'[q] = ContentOf(approved[q])'
  BY <1>1, <1>s, <1>b, KeptSame
<1>2. ASSUME NEW r \in Recipe, NEW v \in Revision, SwitchOn(r, v), approved'[r] = v, q = r,
             UNCHANGED <<url, ids>>
      PROVE  signature'[q] = ContentOf(approved[q])'
  BY <1>0, <1>2 DEF SwitchOn, TypeOK, ContentOf
<1>3. ASSUME NEW r \in Recipe,
             Enable(r) \/ Disable(r) \/ UpdateSignature(r) \/ \E v \in Revision : Approve(r, v)
      PROVE  signature'[q] = ContentOf(approved[q])'
  <2>1. CASE q # r
    BY <1>3, <1>b, <1>s, <2>1, OthersKept
  <2>2. CASE q = r /\ Enable(r)
    <3>1. approved[r] \in Revision /\ approved' = approved
      BY <1>0, <2>2 DEF Enable, TypeOK
    <3> QED
      BY <1>2, <2>2, <3>1 DEF Enable, content
  <2>3. CASE q = r /\ Disable(r)
    BY <1>s, <2>3 DEF Disable, On
  <2>4. CASE q = r /\ UpdateSignature(r)
    <3>1. On(r)
      BY <1>s, <2>4 DEF UpdateSignature, On
    <3> QED
      BY <1>0, <2>4, <3>1 DEF UpdateSignature, TypeOK, content, ContentOf
  <2>5. CASE q = r /\ \E v \in Revision : Approve(r, v)
    <3>1. PICK v \in Revision : Approve(r, v)
      BY <2>5
    <3>2. approved'[r] = v
      BY <1>0, <3>1 DEF Approve, TypeOK
    <3>3. On(r)
      BY <1>s, <2>5, <3>1, <3>2 DEF Approve, On
    <3> QED
      BY <1>2, <2>5, <3>1, <3>2, <3>3 DEF Approve, content
  <2> QED
    BY <1>3, <2>1, <2>2, <2>3, <2>4, <2>5
<1>4. CASE Move \/ Begin \/ SyncRemoteSettings \/ FailMigration \/ UNCHANGED vars
  BY <1>1, <1>4 DEF Move, Begin, SyncRemoteSettings, FailMigration, vars, content, history
<1>5. CASE End \/ Fail
  BY <1>1, <1>5 DEF End, Fail, Stop, content
<1>6. CASE add_extension_id \/ remove_extension_id
  BY <1>1, <1>6 DEF add_extension_id, remove_extension_id, BeginMigration, history
<1>7. ASSUME NEW v \in Revision, Skip(v) \/ Load(v) \/ Sign(v)
      PROVE  signature'[q] = ContentOf(approved[q])'
  BY <1>1, <1>7 DEF Skip, Load, Sign, content, history
<1>8. ASSUME NEW v \in Revision, Rewrite(v)
      PROVE  signature'[q] = ContentOf(approved[q])'
  <2>1. q # RecipeOf[v] /\ q \notin torn /\ signature' = signature
    BY <1>8, <1>s DEF Rewrite, Rewritten
  <2> QED
    BY <1>8, <1>b, <2>1, RewriteKeeps
<1>9. ASSUME NEW v \in Revision, WriteBack(v)
      PROVE  signature'[q] = ContentOf(approved[q])'
  <2>1. /\ run # None /\ run.pc = "write" /\ run.revision = v
        /\ RecipeOf[v] \in Recipe /\ Held = {RecipeOf[v]}
    BY <1>9, RunType DEF WriteBack, At
  <2>2. UNCHANGED <<url, ids, enabled>>
    BY <1>9 DEF WriteBack, content
  <2>3. CASE q = RecipeOf[v]
    <3>1. q \notin crossed
      BY <1>9, <1>s, <2>3 DEF WriteBack, Released
    <3>2. /\ run.approved = approved[q]
          /\ On(q) => run.signature = ContentOf(approved[q])
      BY <2>1, <2>3, <3>1 DEF RowFollows
    <3>3. approved'[q] = approved[q] /\ signature'[q] = run.signature
      BY <1>0, <1>9, <2>3, <3>2 DEF WriteBack, TypeOK
    <3> QED
      BY <1>s, <2>2, <3>2, <3>3 DEF On, ContentOf
  <2>4. CASE q # RecipeOf[v]
    <3>1. approved'[q] = approved[q] /\ signature'[q] = signature[q] /\ q \notin torn
      BY <1>0, <1>9, <1>s, <2>4 DEF WriteBack, Released, TypeOK
    <3>2. Kept(q)
      BY <2>2, <3>1 DEF Kept, On, ContentOf
    <3> QED
      BY <1>b, <3>1, <3>2
  <2> QED
    BY <2>3, <2>4
<1>10. CASE Migrate
  <2>1. PICK R \in SUBSET Recipe : torn' = torn \cup R /\ \A p \in Recipe \ R : Kept(p)
    BY <1>10, MigrateKeeps
  <2>2. signature' = signature
    BY <1>10 DEF Migrate, Migrated
  <2> QED
    BY <1>b, <1>s, <2>1, <2>2
<1> QED
  BY <1>3, <1>4, <1>5, <1>6, <1>7, <1>8, <1>9, <1>10 DEF Next, EndMigration, Users, Progress

LEMMA InitSigned ==
  ASSUME Init
  PROVE  RowFollows /\ SignedUnlessTorn
BY DEF Init, RowFollows, SignedUnlessTorn, Held, On

\* Wherever runs end and whatever users do meanwhile, also between the run's reading
\* a recipe and its writing it back, an enabled recipe has the signature of its
\* content unless it was rewritten, or written back over somebody else's write, and
\* not signed since (update_addon_urls.py, Recipe.update_signature, migration 0014).
THEOREM SignedOrTorn == Spec => []SignedUnlessTorn
<1>1. Init => Typed /\ RowFollows /\ SignedUnlessTorn
  BY InitTyped, InitSigned
<1>2. Typed /\ RowFollows /\ SignedUnlessTorn /\ [Next]_vars
        => Typed' /\ RowFollows' /\ SignedUnlessTorn'
  BY TypedStep, RowStep, SignedStep
<1> QED
  BY <1>1, <1>2, PTL DEF Spec

\* The command takes back an approval only where it was given between the run's
\* reading the recipe and its writing it back (update_addon_urls.py, Recipe.save).
THEOREM UsersApprove == Spec => OnlyUsersApprove
<1>1. Init => Typed /\ RowFollows
  BY InitTyped, InitSigned
<1>2. Typed /\ RowFollows /\ [Next]_vars => Typed' /\ RowFollows'
  BY TypedStep, RowStep
<1>3. Typed /\ RowFollows /\ [Next]_vars =>
        [\A r \in Recipe \ crossed :
           approved'[r] # approved[r] => \E v \in Revision : Approve(r, v)]_vars
  <2>1. SUFFICES ASSUME Typed, RowFollows, [Next]_vars, NEW r \in Recipe \ crossed,
                        approved'[r] # approved[r]
        PROVE  \E v \in Revision : Approve(r, v)
    OBVIOUS
  <2>2. CASE \E p \in Recipe, v \in Revision : Approve(p, v)
    BY <2>1, <2>2 DEF Approve, Typed, TypeOK
  <2>3. CASE \E v \in Revision : WriteBack(v)
    <3>1. PICK v \in Revision : WriteBack(v)
      BY <2>3
    <3>2. run # None /\ run.pc = "write" /\ run.revision = v /\ Held = {RecipeOf[v]}
      BY <2>1, <3>1, RunType DEF WriteBack, At
    <3>3. r = RecipeOf[v]
      BY <2>1, <3>1 DEF WriteBack, Typed, TypeOK
    <3>4. run.approved = approved[r]
      BY <2>1, <3>2, <3>3 DEF RowFollows
    <3> QED
      BY <2>1, <3>1, <3>3, <3>4 DEF WriteBack, Typed, TypeOK
  <2>4. CASE approved' = approved
    BY <2>1, <2>4
  <2> QED
    BY <2>1, <2>2, <2>3, <2>4
    DEF Next, EndMigration, Users, Progress, Enable, Disable, Move, Begin, Skip, Load, Rewrite, Rewritten, Sign,
        End, Fail, Stop, UpdateSignature, SyncRemoteSettings, add_extension_id,
        remove_extension_id, BeginMigration, Migrate, Migrated, FailMigration, vars
<1> QED
  BY <1>1, <1>2, <1>3, PTL DEF Spec, OnlyUsersApprove
=============================================================================

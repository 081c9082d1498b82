------------------------ MODULE RemoteSettingsProofs ------------------------
(***************************************************************************)
(* Proofs about RemoteSettings: its types, that the workspace bucket is    *)
(* ahead of the main one only by records being published and by what       *)
(* processes that ended left there, and that handlers which all succeed    *)
(* leave clients with what the database says.                              *)
(***************************************************************************)
EXTENDS RemoteSettings, TLAPS

-----------------------------------------------------------------------------
(* Type correctness.                                                       *)

\* What a job still has to write.
Todo == UNION {[S -> Version \cup {None}] : S \in SUBSET Recipe}

LEMMA TodoIntro ==
  ASSUME NEW S \in SUBSET Recipe, NEW f \in [S -> Version \cup {None}]
  PROVE  f \in Todo
BY DEF Todo

LEMMA TodoElim ==
  ASSUME NEW f \in Todo
  PROVE  DOMAIN f \subseteq Recipe /\ f \in [DOMAIN f -> Version \cup {None}]
BY DEF Todo

\* A process that has a step to take has a job.
LEMMA AtWork ==
  ASSUME TypeOK, NEW w \in Worker, job[w].step # "none"
  PROVE  job[w] \in Job /\ job[w] # Idle
BY DEF TypeOK, Idle

\* A process that has edited a record knows which: what approve commits after
\* "to-sign" is one of the records it was to write.
Targets ==
  \A w \in Worker :
    job[w].step \in {"sign", "commit"} => job[w].recipe \in DOMAIN job[w].records

\* Handling a record leaves the process idle or at the next record.
LEMMA AdvanceType ==
  ASSUME TypeOK, NEW w \in Worker, job[w] \in Job, NEW r, Advance(w, r)
  PROVE  job' \in [Worker -> Job \cup {Idle}]
<1> DEFINE rest == DOMAIN job[w].records \ {r}
           left == [s \in rest |-> job[w].records[s]]
<1>1. left \in Todo
  <2>1. job[w].records \in Todo
    BY DEF Job, Todo
  <2>2. rest \in SUBSET Recipe /\ left \in [rest -> Version \cup {None}]
    BY <2>1, TodoElim
  <2> QED
    BY <2>2, TodoIntro
<1>2. [job[w] EXCEPT !.step = "edit", !.records = left] \in Job
  BY <1>1 DEF Job, Todo
<1>3. CASE rest = {}
  BY <1>3 DEF TypeOK, Advance, Finish
<1>4. CASE rest # {}
  BY <1>2, <1>4 DEF TypeOK, Advance
<1> QED
  BY <1>3, <1>4

LEMMA BeginType ==
  ASSUME TypeOK, NEW w \in Worker, NEW kind \in {"enable", "disable", "approve"},
         NEW r \in Recipe, NEW record \in Version \cup {None}, Begin(w, kind, r, record)
  PROVE  job' \in [Worker -> Job \cup {Idle}]
<1>1. [s \in {r} |-> record] \in Todo
  BY TodoIntro
<1>2. [kind |-> kind, step |-> "edit", recipe |-> r, records |-> [s \in {r} |-> record]] \in Job
  BY <1>1 DEF Job, Todo
<1> QED
  BY <1>2 DEF TypeOK, Begin

\* Every step keeps the state in its types.
LEMMA StepType == TypeOK /\ Targets /\ [Next]_vars => TypeOK'
<1> SUFFICES ASSUME TypeOK, Targets, [Next]_vars PROVE TypeOK'
  OBVIOUS
<1> USE DEF Worker
<1>1. ASSUME NEW w \in Handler, NEW r \in Recipe, Disable(w, r)
      PROVE  TypeOK'
  <2>1. job' \in [Worker -> Job \cup {Idle}]
    BY <1>1, BeginType DEF Disable
  <2> QED
    BY <1>1, <2>1 DEF TypeOK, Disable, Commit, Records
<1>2. ASSUME NEW w \in Handler, NEW r \in Recipe, NEW record \in Version,
             Enable(w, r, record)
      PROVE  TypeOK'
  <2>1. job' \in [Worker -> Job \cup {Idle}]
    BY <1>2, BeginType DEF Enable
  <2> QED
    BY <1>2, <2>1 DEF TypeOK, Enable, Commit, Records
<1>3. ASSUME NEW w \in Handler, NEW r \in Recipe, NEW record \in Version,
             Approve(w, r, record)
      PROVE  TypeOK'
  <2>1. job' \in [Worker -> Job \cup {Idle}]
    BY <1>3, BeginType DEF Approve
  <2> QED
    BY <1>3, <2>1 DEF TypeOK, Approve
<1>4. ASSUME NEW w \in Syncer, SyncFetch(w)
      PROVE  TypeOK'
  <2>1. main \in Todo
    BY TodoIntro DEF TypeOK, Records
  <2>2. [kind |-> "sync", step |-> "compare", recipe |-> None, records |-> main] \in Job
    BY <2>1 DEF Job, Todo
  <2> QED
    BY <1>4, <2>2 DEF TypeOK, SyncFetch
<1>5. ASSUME NEW w \in Worker, SyncCompare(w)
      PROVE  TypeOK'
  <2> DEFINE differing == {r \in Recipe : job[w].records[r] # db[r]}
             todo == [r \in differing |-> db[r]]
  <2>1. todo \in Todo
    BY TodoIntro DEF TypeOK, Records
  <2>2. job[w] \in Job
    BY <1>5, AtWork DEF SyncCompare
  <2>3. [job[w] EXCEPT !.step = "edit", !.records = todo] \in Job
    BY <2>1, <2>2 DEF Job, Todo
  <2>4. job' \in [Worker -> Job \cup {Idle}]
    <3>1. CASE differing = {}
      BY <1>5, <3>1 DEF TypeOK, SyncCompare, Finish
    <3>2. CASE differing # {}
      BY <1>5, <2>3, <3>2 DEF TypeOK, SyncCompare
    <3> QED
      BY <3>1, <3>2
  <2> QED
    BY <1>5, <2>4 DEF TypeOK, SyncCompare
<1>6. ASSUME NEW w \in Worker, NEW r \in Recipe, EditRecord(w, r)
      PROVE  TypeOK'
  <2>1. job[w] \in Job
    BY <1>6, AtWork DEF EditRecord, TurnsTo
  <2>2. job[w].records \in Todo /\ r \in DOMAIN job[w].records
    BY <1>6, <2>1 DEF EditRecord, TurnsTo, Job, Todo
  <2>3. job[w].records[r] \in Version \cup {None}
    BY <2>2, TodoElim
  <2>4. [job[w] EXCEPT !.step = "sign", !.recipe = r] \in Job
    BY <2>1 DEF Job
  <2> QED
    BY <1>6, <2>3, <2>4 DEF TypeOK, EditRecord, Records
<1>7. ASSUME NEW w \in Worker, NEW r \in Recipe, SkipMissing(w, r) \/ DeleteRedelivered(w, r)
      PROVE  TypeOK'
  <2>1. job[w] \in Job
    BY <1>7, AtWork DEF SkipMissing, DeleteRedelivered, TurnsTo
  <2>2. job' \in [Worker -> Job \cup {Idle}]
    BY <1>7, <2>1, AdvanceType DEF SkipMissing, DeleteRedelivered
  <2> QED
    BY <1>7, <2>2 DEF TypeOK, SkipMissing, DeleteRedelivered, Records, Leave
<1>8. ASSUME NEW w \in Worker, ToSign(w)
      PROVE  TypeOK'
  <2>1. job[w] \in Job
    BY <1>8, AtWork DEF ToSign
  <2>2. job' \in [Worker -> Job \cup {Idle}]
    <3>1. CASE job[w].kind = "approve"
      <4>1. [job[w] EXCEPT !.step = "commit"] \in Job
        BY <2>1 DEF Job
      <4> QED
        BY <1>8, <3>1, <4>1 DEF TypeOK, ToSign
    <3>2. CASE job[w].kind # "approve"
      BY <1>8, <2>1, <3>2, AdvanceType DEF ToSign
    <3> QED
      BY <3>1, <3>2
  <2> QED
    BY <1>8, <2>2 DEF TypeOK, ToSign
<1>12. ASSUME NEW w \in Worker, CommitApproval(w)
       PROVE  TypeOK'
  <2> DEFINE r == job[w].recipe
             record == job[w].records[r]
  <2>1. r \in Recipe /\ record \in Version \cup {None}
    <3>1. r \in DOMAIN job[w].records
      BY <1>12 DEF Targets, CommitApproval
    <3>2. job[w].records \in Todo
      BY <1>12, AtWork DEF CommitApproval, Job, Todo
    <3> QED
      BY <3>1, <3>2, TodoElim
  <2> QED
    BY <1>12, <2>1 DEF TypeOK, CommitApproval, Commit, Finish, Records
<1>13. ASSUME NEW w \in Worker, NEW r \in Recipe, PutUnanswered(w, r)
       PROVE  TypeOK'
  <2>1. job[w].records \in Todo /\ r \in DOMAIN job[w].records
    BY <1>13, AtWork DEF PutUnanswered, TurnsTo, Job, Todo
  <2>2. job[w].records[r] \in Version \cup {None}
    BY <2>1, TodoElim
  <2> QED
    BY <1>13, <2>2 DEF TypeOK, PutUnanswered, Finish, Records, Leave
<1>9. ASSUME NEW w \in Worker,
             \/ ToRollback(w) \/ EditRefused(w) \/ ToSignUnanswered(w)
             \/ ToRollbackRefused(w) \/ Crash(w)
      PROVE  TypeOK'
  BY <1>9 DEF TypeOK, ToRollback, EditRefused, ToSignUnanswered, ToRollbackRefused,
              Crash, Finish, Leave
<1>10. ASSUME NEW w \in Worker, ToSignRefused(w)
       PROVE  TypeOK'
  <2>1. job[w] \in Job
    BY <1>10, AtWork DEF ToSignRefused
  <2>2. [job[w] EXCEPT !.step = "rollback"] \in Job
    BY <2>1 DEF Job
  <2> QED
    BY <1>10, <2>2 DEF TypeOK, ToSignRefused
<1>11. ASSUME UNCHANGED vars
       PROVE  TypeOK'
  BY <1>11 DEF TypeOK, vars
<1> QED
  BY <1>1, <1>2, <1>3, <1>4, <1>5, <1>6, <1>7, <1>8, <1>9, <1>10, <1>11, <1>12, <1>13
     DEF Next, Requests, Calm, Progress, Failures

\* Only editing a record leads to "to-sign", and it names the record; only an
\* approval goes on from there.
LEMMA StepTargets == TypeOK /\ Targets /\ [Next]_vars => Targets'
<1> SUFFICES ASSUME TypeOK, Targets, [Next]_vars, NEW v \in Worker,
                    job'[v].step \in {"sign", "commit"}
             PROVE  job'[v].recipe \in DOMAIN job'[v].records
  BY DEF Targets
<1> USE DEF Worker
<1>1. ASSUME job'[v] = job[v]
      PROVE  job'[v].recipe \in DOMAIN job'[v].records
  BY <1>1 DEF Targets
<1>2. ASSUME NEW w \in Worker, NEW r \in Recipe, EditRecord(w, r)
      PROVE  job'[v].recipe \in DOMAIN job'[v].records
  <2>1. CASE v = w
    BY <1>2, <2>1, AtWork DEF TypeOK, EditRecord, TurnsTo, Job
  <2>2. CASE v # w
    BY <1>1, <1>2, <2>2 DEF TypeOK, EditRecord
  <2> QED
    BY <2>1, <2>2
<1>3. ASSUME NEW w \in Worker, NEW r, Advance(w, r), job[w] \in Job
      PROVE  job'[v] = job[v]
  BY <1>3 DEF TypeOK, Advance, Finish, Idle, Job
<1>4. ASSUME NEW w \in Worker, Finish(w)
      PROVE  job'[v] = job[v]
  BY <1>4 DEF TypeOK, Finish, Idle
<1>5. ASSUME NEW w \in Worker, NEW kind, NEW r, NEW record, Begin(w, kind, r, record)
      PROVE  job'[v] = job[v]
  BY <1>5 DEF TypeOK, Begin
<1>6. CASE Requests
  BY <1>1, <1>5, <1>6 DEF Requests, Disable, Enable, Approve
<1>7. ASSUME NEW w \in Worker, SyncFetch(w) \/ ToSignRefused(w)
      PROVE  job'[v] = job[v]
  <2>1. CASE SyncFetch(w)
    BY <1>7, <2>1 DEF TypeOK, SyncFetch
  <2>2. CASE ToSignRefused(w)
    BY <1>7, <2>2, AtWork DEF TypeOK, ToSignRefused, Job
  <2> QED
    BY <1>7, <2>1, <2>2
<1>8. ASSUME NEW w \in Worker, SyncCompare(w)
      PROVE  job'[v] = job[v]
  <2> DEFINE differing == {r \in Recipe : job[w].records[r] # db[r]}
  <2>1. CASE differing = {}
    BY <1>4, <1>8, <2>1 DEF SyncCompare
  <2>2. CASE differing # {}
    BY <1>8, <2>2, AtWork DEF TypeOK, SyncCompare, Job
  <2> QED
    BY <2>1, <2>2
<1>9. ASSUME NEW w \in Worker, NEW r \in Recipe,
             SkipMissing(w, r) \/ DeleteRedelivered(w, r)
      PROVE  job'[v] = job[v]
  BY <1>3, <1>9, AtWork DEF SkipMissing, DeleteRedelivered, TurnsTo
<1>10. ASSUME NEW w \in Worker,
              \/ ToRollback(w) \/ EditRefused(w) \/ ToSignUnanswered(w)
              \/ ToRollbackRefused(w) \/ Crash(w)
       PROVE  job'[v] = job[v]
  BY <1>4, <1>10 DEF ToRollback, EditRefused, ToSignUnanswered, ToRollbackRefused, Crash
<1>11. ASSUME NEW w \in Worker, ToSign(w)
       PROVE  job'[v].recipe \in DOMAIN job'[v].records
  <2>1. job[w] \in Job
    BY <1>11, AtWork DEF ToSign
  <2>2. CASE job[w].kind # "approve"
    BY <1>1, <1>3, <1>11, <2>1, <2>2 DEF ToSign
  <2>3. CASE job[w].kind = "approve" /\ v = w
    BY <1>11, <2>1, <2>3 DEF TypeOK, Targets, ToSign, Job
  <2>4. CASE job[w].kind = "approve" /\ v # w
    BY <1>1, <1>11, <2>4 DEF TypeOK, ToSign
  <2> QED
    BY <2>2, <2>3, <2>4
<1>12. ASSUME NEW w \in Worker, CommitApproval(w) \/ \E r \in Recipe : PutUnanswered(w, r)
       PROVE  job'[v] = job[v]
  BY <1>4, <1>12 DEF CommitApproval, PutUnanswered
<1> QED
  BY <1>1, <1>2, <1>6, <1>7, <1>8, <1>9, <1>10, <1>11, <1>12
     DEF Next, Calm, Progress, Failures, vars

\* The state keeps its types, whatever calls fail and whatever processes overlap.
THEOREM TypeCorrect == Spec => []TypeOK
<1>1. Init => TypeOK /\ Targets
  BY DEF Init, TypeOK, Records, Targets, Idle
<1>2. TypeOK /\ Targets /\ [Next]_vars => (TypeOK /\ Targets)'
  BY StepType, StepTargets
<1> QED
  BY <1>1, <1>2, PTL DEF Spec

-----------------------------------------------------------------------------
(* The workspace.                                                          *)

\* Whatever calls fail and whatever processes overlap or end, the workspace is ahead
\* of the main bucket only by the record its writer is still publishing, or by the
\* residue of a process that ended: an edit is never taken over by another process.
THEOREM NoResidue == Spec => []WorkspaceFollows
<1> DEFINE Publishes(w, r) == /\ job[w].step \in {"sign", "rollback"}
                              /\ job[w].recipe = r
                              /\ job[w].records[r] = workspace[r]
<1>1. Init => WorkspaceFollows
  BY DEF Init, WorkspaceFollows
<1>2. TypeOK /\ WorkspaceFollows /\ [Next]_vars => WorkspaceFollows'
  <2> SUFFICES ASSUME TypeOK, WorkspaceFollows, [Next]_vars PROVE WorkspaceFollows'
    OBVIOUS
  <2> USE DEF Worker
  <2>1. ASSUME workspace' = main'
        PROVE  WorkspaceFollows'
    BY <2>1 DEF WorkspaceFollows
  <2>2. ASSUME UNCHANGED <<workspace, main, residue>>, NEW v \in Worker,
               job[v].step \notin {"sign", "rollback"},
               \A w \in Worker \ {v} : job'[w] = job[w]
        PROVE  WorkspaceFollows'
    BY <2>2 DEF WorkspaceFollows
  <2>3. ASSUME NEW v \in Worker, NEW r \in Recipe, EditRecord(v, r)
        PROVE  WorkspaceFollows'
    <3>1. job[v] \in Job
      BY <2>3, AtWork DEF EditRecord, TurnsTo
    <3>2. Publishes(v, r)'
      BY <2>3, <3>1 DEF TypeOK, EditRecord, Records, Job
    <3>3. ASSUME NEW s \in Recipe \ {r}, s \notin residue', workspace'[s] # main'[s]
          PROVE  \E w \in Worker : Publishes(w, s)'
      <4>1. workspace'[s] = workspace[s] /\ workspace[s] # main[s] /\ s \notin residue
        BY <2>3, <3>3 DEF TypeOK, EditRecord, Records
      <4>2. PICK w \in Worker : Publishes(w, s)
        BY <4>1 DEF WorkspaceFollows
      <4>3. w # v
        BY <2>3, <4>2 DEF EditRecord, TurnsTo
      <4>4. Publishes(w, s)'
        BY <2>3, <4>1, <4>2, <4>3 DEF TypeOK, EditRecord
      <4> QED
        BY <4>4
    <3> QED
      BY <3>2, <3>3 DEF WorkspaceFollows
  <2>4. ASSUME NEW v \in Worker, ToSign(v) \/ ToSignUnanswered(v) \/ ToRollback(v)
        PROVE  WorkspaceFollows'
    BY <2>1, <2>4 DEF ToSign, ToSignUnanswered, ToRollback
  <2>5. CASE Requests
    <3>1. PICK w \in Handler : \E kind, r, record : Begin(w, kind, r, record)
      BY <2>5 DEF Requests, Disable, Enable, Approve
    <3>2. job[w].step = "none" /\ \A v \in Worker \ {w} : job'[v] = job[v]
      BY <3>1 DEF TypeOK, Begin, Idle
    <3> QED
      BY <2>2, <2>5, <3>2 DEF Requests, Disable, Enable, Approve
  <2>6. ASSUME NEW v \in Worker, SyncFetch(v)
        PROVE  WorkspaceFollows'
    BY <2>2, <2>6 DEF TypeOK, SyncFetch, Idle
  <2>7. ASSUME NEW v \in Worker, SyncCompare(v)
        PROVE  WorkspaceFollows'
    BY <2>2, <2>7 DEF TypeOK, SyncCompare, Finish
  <2>8. ASSUME NEW v \in Worker, NEW r \in Recipe, SkipMissing(v, r)
        PROVE  WorkspaceFollows'
    BY <2>2, <2>8 DEF TypeOK, SkipMissing, TurnsTo, Advance, Finish
  <2>9. ASSUME NEW v \in Worker, EditRefused(v) \/ CommitApproval(v)
        PROVE  WorkspaceFollows'
    BY <2>2, <2>9 DEF TypeOK, EditRefused, CommitApproval, Finish
  <2>10. ASSUME NEW v \in Worker, ToSignRefused(v)
         PROVE  WorkspaceFollows'
    <3>1. job[v] \in Job
      BY <2>10, AtWork DEF ToSignRefused
    <3>2. \A w \in Worker : \A r : Publishes(w, r) => Publishes(w, r)'
      BY <2>10, <3>1 DEF TypeOK, ToSignRefused, Job
    <3> QED
      BY <2>10, <3>2 DEF ToSignRefused, WorkspaceFollows
  \* A process that ends, or goes on, without answering for the records it edited.
  <2>11. ASSUME NEW v \in Worker, NEW left, Leave(left), UNCHANGED main,
                \A s \in Recipe \ left : workspace'[s] = workspace[s],
                \A w \in Worker \ {v} : job'[w] = job[w],
                \A s \in Recipe : Publishes(v, s) => s \in left
         PROVE  WorkspaceFollows'
    <3> SUFFICES ASSUME NEW s \in Recipe, s \notin residue', workspace'[s] # main'[s]
                 PROVE  \E w \in Worker : Publishes(w, s)'
      BY DEF WorkspaceFollows
    <3>1. s \notin residue \cup left
      BY <2>11 DEF Leave
    <3>2. workspace'[s] = workspace[s] /\ workspace[s] # main[s]
      BY <2>11, <3>1
    <3>3. PICK w \in Worker : Publishes(w, s)
      BY <3>1, <3>2 DEF WorkspaceFollows
    <3>4. w # v
      BY <2>11, <3>1, <3>3
    <3>5. Publishes(w, s)'
      BY <2>11, <3>2, <3>3, <3>4
    <3> QED
      BY <3>5
  <2>12. ASSUME NEW v \in Worker, NEW r \in Recipe, PutUnanswered(v, r)
         PROVE  WorkspaceFollows'
    BY <2>11, <2>12 DEF TypeOK, Records, PutUnanswered, TurnsTo, Finish
  <2>13. ASSUME NEW v \in Worker, NEW r \in Recipe, DeleteRedelivered(v, r)
         PROVE  WorkspaceFollows'
    BY <2>11, <2>13 DEF TypeOK, Records, DeleteRedelivered, TurnsTo, Advance, Finish
  <2>14. ASSUME NEW v \in Worker, ToRollbackRefused(v)
         PROVE  WorkspaceFollows'
    BY <2>11, <2>14 DEF TypeOK, ToRollbackRefused, Finish
  <2>15. ASSUME NEW v \in Worker, Crash(v)
         PROVE  WorkspaceFollows'
    <3> DEFINE left == IF job[v].step \in {"sign", "rollback"} THEN {job[v].recipe} ELSE {}
    <3>1. Leave(left) /\ UNCHANGED <<workspace, main>>
          /\ \A w \in Worker \ {v} : job'[w] = job[w]
      BY <2>15 DEF TypeOK, Crash, Finish
    <3>2. \A s \in Recipe : Publishes(v, s) => s \in left
      OBVIOUS
    <3> QED
      BY <2>11, <3>1, <3>2
  <2>16. CASE UNCHANGED vars
    BY <2>16 DEF vars, WorkspaceFollows
  <2> QED
    BY <2>3, <2>4, <2>5, <2>6, <2>7, <2>8, <2>9, <2>10, <2>12, <2>13, <2>14, <2>15, <2>16
       DEF Next, Calm, Progress, Failures
<1> QED
  BY <1>1, <1>2, TypeCorrect, PTL DEF Spec

-----------------------------------------------------------------------------
(* Handlers that succeed.                                                  *)

\* A handler writes one record, the one the database has unless it approves.
OwnRecord(w) ==
  job[w] # Idle =>
    /\ job[w].step \in {"edit", "sign", "commit"}
    /\ job[w].recipe \in Recipe
    /\ DOMAIN job[w].records = {job[w].recipe}
    /\ job[w].kind \in {"enable", "disable"}
         => job[w].records[job[w].recipe] = db[job[w].recipe]
    /\ job[w].kind # "sync"
    /\ job[w].kind = "approve" => job[w].records[job[w].recipe] # None
    /\ job[w].step = "commit" => job[w].kind = "approve"
    /\ job[w].step \in {"sign", "commit"}
         => workspace[job[w].recipe] = job[w].records[job[w].recipe]

\* Each recipe is some handler's or nobody's, and its record in the workspace is
\* the published one until its handler has edited it.
SettledInv ==
  /\ \A w \in Handler : OwnRecord(w)
  /\ \A v, w \in Handler : job[v].recipe = job[w].recipe /\ job[v] # Idle => v = w
  /\ \A r \in Recipe :
       workspace[r] # main[r] =>
         \E w \in Handler : job[w].recipe = r /\ job[w].step = "sign"
  /\ Settled

\* Approving all of the workspace publishes what the others have edited too, and
\* still no request that is over loses its effect: a handler's own record goes
\* out with its own approval, or before it.
THEOREM AllSettled ==
  ASSUME Faults = {}, Syncer = {}, Overlap = FALSE
  PROVE  Spec => []Settled
<1>1. Init => SettledInv
  BY DEF Init, SettledInv, OwnRecord, Settled, Worker, Idle, Busy
<1>2. TypeOK /\ SettledInv /\ [Next]_vars => SettledInv'
  <2> SUFFICES ASSUME TypeOK, SettledInv, [Next]_vars PROVE SettledInv'
    OBVIOUS
  <2> USE DEF Worker
  <2>1. ASSUME NEW w \in Handler, NEW r \in Recipe, NEW record \in Version \cup {None},
               NEW kind \in {"enable", "disable", "approve"},
               Begin(w, kind, r, record), ~Busy(r), UNCHANGED <<workspace, main>>,
               \A s \in Recipe \ {r} : db'[s] = db[s],
               IF kind = "approve" THEN record # None ELSE db'[r] = record
        PROVE  SettledInv'
    <3> DEFINE new == [kind |-> kind, step |-> "edit", recipe |-> r,
                       records |-> [s \in {r} |-> record]]
    <3>1. /\ job[w] = Idle
          /\ job'[w] = new
          /\ \A v \in Handler \ {w} : job'[v] = job[v]
      BY <2>1 DEF TypeOK, Begin
    <3>2. \A v \in Handler : job[v].recipe # r
      BY <2>1 DEF Busy
    <3>3. \A v \in Handler : OwnRecord(v)'
      <4>1. OwnRecord(w)'
        BY <2>1, <3>1 DEF OwnRecord
      <4>2. ASSUME NEW v \in Handler \ {w}, job[v] # Idle
            PROVE  job[v].recipe \in Recipe \ {r}
        BY <3>2, <4>2 DEF SettledInv, OwnRecord
      <4>3. ASSUME NEW v \in Handler \ {w}
            PROVE  OwnRecord(v)'
        BY <2>1, <3>1, <4>2 DEF SettledInv, OwnRecord
      <4> QED
        BY <4>1, <4>3
    <3>4. \A u, v \in Handler : job'[u].recipe = job'[v].recipe /\ job'[u] # Idle => u = v
      <4>1. r # Idle.recipe
        BY ConstantsAssumption DEF Idle
      <4> QED
        BY <3>1, <3>2, <4>1 DEF SettledInv
    <3>5. \A s \in Recipe : workspace'[s] # main'[s] =>
            \E v \in Handler : job'[v].recipe = s /\ job'[v].step = "sign"
      BY <2>1, <3>1 DEF SettledInv, Idle
    <3>6. Settled'
      <4>1. \A s \in Recipe \ {r} : Busy(s) => Busy(s)'
        BY <3>1, ConstantsAssumption DEF Busy, Idle
      <4>2. Busy(r)'
        BY <3>1 DEF Busy
      <4> QED
        BY <2>1, <4>1, <4>2 DEF SettledInv, Settled
    <3> QED
      BY <3>3, <3>4, <3>5, <3>6 DEF SettledInv
  <2>2. CASE Requests
    <3>1. ASSUME NEW w \in Handler, NEW r \in Recipe, Disable(w, r)
          PROVE  SettledInv'
      BY <2>1, <3>1 DEF Disable, MayBegin, Commit, TypeOK, Records
    <3>2. ASSUME NEW w \in Handler, NEW r \in Recipe, NEW record \in Version,
                 Enable(w, r, record)
          PROVE  SettledInv'
      BY <2>1, <3>2 DEF Enable, MayBegin, Commit, TypeOK, Records
    <3>3. ASSUME NEW w \in Handler, NEW r \in Recipe, NEW record \in Version,
                 Approve(w, r, record)
          PROVE  SettledInv'
      <4>1. record # None
        BY ConstantsAssumption
      <4> QED
        BY <2>1, <3>3, <4>1 DEF Approve, MayBegin
    <3> QED
      BY <2>2, <3>1, <3>2, <3>3 DEF Requests
  <2>3. ASSUME NEW w \in Handler, NEW r, Advance(w, r), job[w] # Idle, job[w].recipe = r
        PROVE  job' = [job EXCEPT ![w] = Idle]
    BY <2>3 DEF Advance, Finish, SettledInv, OwnRecord
  <2>4. ASSUME NEW w \in Handler, NEW r \in Recipe, EditRecord(w, r)
        PROVE  SettledInv'
    <3>1. /\ job[w] # Idle /\ job[w].recipe = r /\ r \in DOMAIN job[w].records
          /\ job'[w] = [job[w] EXCEPT !.step = "sign"]
          /\ \A v \in Handler \ {w} : job'[v] = job[v]
      <4>1. job[w] \in Job /\ job[w] # Idle /\ r \in DOMAIN job[w].records
        BY <2>4, AtWork DEF EditRecord, TurnsTo
      <4>2. job[w].recipe = r
        BY <4>1 DEF SettledInv, OwnRecord
      <4> QED
        BY <2>4, <4>1, <4>2 DEF TypeOK, EditRecord, Job
    <3>2. workspace'[r] = job[w].records[r] /\ UNCHANGED <<db, main>>
          /\ \A s \in Recipe \ {r} : workspace'[s] = workspace[s]
      BY <2>4 DEF EditRecord, TypeOK, Records
    <3>3. job[w] \in Job
      BY <3>1 DEF TypeOK
    <3>4. job'[w] # Idle /\ job'[w].step = "sign" /\ job'[w].recipe = r
          /\ job'[w].kind = job[w].kind /\ job'[w].records = job[w].records
      BY <3>1, <3>3 DEF Job, Idle
    <3>5. \A v \in Handler : OwnRecord(v)'
      <4>1. OwnRecord(w)'
        BY <3>1, <3>2, <3>4 DEF SettledInv, OwnRecord
      <4>2. ASSUME NEW v \in Handler \ {w}
            PROVE  OwnRecord(v)'
        BY <3>1, <3>2 DEF SettledInv, OwnRecord
      <4> QED
        BY <4>1, <4>2
    <3>6. \A v \in Handler : /\ job'[v].recipe = job[v].recipe
                             /\ job'[v] # Idle <=> job[v] # Idle
                             /\ job[v].step = "sign" => job'[v].step = "sign"
      <4>1. ASSUME NEW v \in Handler \ {w}
            PROVE  job'[v] = job[v]
        BY <3>1
      <4> QED
        BY <3>1, <3>4, <4>1
    <3>7. \A u, v \in Handler : job'[u].recipe = job'[v].recipe /\ job'[u] # Idle => u = v
      BY <3>6 DEF SettledInv
    <3>8. \A s \in Recipe : workspace'[s] # main'[s] =>
            \E v \in Handler : job'[v].recipe = s /\ job'[v].step = "sign"
      BY <3>2, <3>4, <3>6 DEF SettledInv
    <3>9. Settled'
      BY <3>2, <3>6 DEF SettledInv, Settled, Busy
    <3> QED
      BY <3>5, <3>7, <3>8, <3>9 DEF SettledInv
  <2>5. ASSUME NEW w \in Handler, NEW r \in Recipe, job[w] # Idle, job[w].recipe = r,
               job' = [job EXCEPT ![w] = Idle], UNCHANGED workspace,
               \A s \in Recipe \ {r} : db'[s] = db[s],
               main'[r] = db'[r],
               \/ UNCHANGED main /\ job[w].step \in {"edit", "commit"}
               \/ main' = workspace
        PROVE  SettledInv'
    <3>1. job'[w] = Idle /\ \A v \in Handler \ {w} : job'[v] = job[v]
      BY <2>5 DEF TypeOK
    <3>2. \A v \in Handler : OwnRecord(v)'
      <4>1. OwnRecord(w)'
        BY <3>1 DEF OwnRecord
      <4>2. ASSUME NEW v \in Handler \ {w}, job[v] # Idle
            PROVE  job[v].recipe \in Recipe \ {r}
        BY <2>5, <4>2 DEF SettledInv, OwnRecord
      <4>3. ASSUME NEW v \in Handler \ {w}
            PROVE  OwnRecord(v)'
        BY <2>5, <3>1, <4>2 DEF SettledInv, OwnRecord
      <4> QED
        BY <4>1, <4>3
    <3>3. \A u, v \in Handler : job'[u].recipe = job'[v].recipe /\ job'[u] # Idle => u = v
      <4>1. \A v \in Handler : job[v] # Idle => job[v].recipe # Idle.recipe
        BY ConstantsAssumption DEF SettledInv, OwnRecord, Idle
      <4> QED
        BY <3>1, <4>1 DEF SettledInv
    <3>4. \A s \in Recipe : workspace'[s] # main'[s] =>
            \E v \in Handler : job'[v].recipe = s /\ job'[v].step = "sign"
      BY <2>5, <3>1 DEF SettledInv
    <3>5. Settled'
      <4>1. ASSUME NEW s \in Recipe \ {r}, ~Busy(s)'
            PROVE  ~Busy(s)
        BY <2>5, <3>1, <4>1 DEF Busy
      <4>2. ASSUME NEW s \in Recipe \ {r}, ~Busy(s)
            PROVE  main[s] = db[s] /\ workspace[s] = main[s]
        BY <4>2 DEF SettledInv, Settled, Busy
      <4> QED
        BY <2>5, <4>1, <4>2 DEF Settled
    <3> QED
      BY <3>2, <3>3, <3>4, <3>5 DEF SettledInv
  <2>6. ASSUME NEW w \in Handler, job[w].step # "none"
        PROVE  /\ job[w] \in Job /\ job[w] # Idle /\ job[w].recipe \in Recipe
               /\ \A r : r \in DOMAIN job[w].records <=> r = job[w].recipe
    BY <2>6, AtWork DEF SettledInv, OwnRecord
  <2>10. ASSUME NEW w \in Handler, NEW r \in Recipe, SkipMissing(w, r)
         PROVE  SettledInv'
    <3>1. job[w] # Idle /\ job[w].recipe = r /\ job[w].step = "edit" /\ job[w] \in Job
      BY <2>6, <2>10 DEF SkipMissing, TurnsTo
    <3>2. db[r] = None
      BY <2>10, <3>1 DEF SettledInv, OwnRecord, SkipMissing, Job
    <3>3. main[r] = workspace[r]
      BY <3>1 DEF SettledInv
    <3> QED
      BY <2>3, <2>5, <2>10, <3>1, <3>2, <3>3 DEF SkipMissing
  <2>11. ASSUME NEW w \in Handler, ToSign(w), job[w].kind # "approve"
         PROVE  SettledInv'
    <3> DEFINE r == job[w].recipe
    <3>1. job[w] # Idle /\ r \in Recipe /\ job[w].step = "sign" /\ job[w] \in Job
      BY <2>6, <2>11 DEF ToSign
    <3>2. workspace[r] = job[w].records[r] /\ job[w].records[r] = db[r]
      BY <2>11, <3>1 DEF SettledInv, OwnRecord, Job
    <3> QED
      BY <2>3, <2>5, <2>11, <3>1, <3>2 DEF ToSign
  <2>12. ASSUME NEW w \in Handler, ToSign(w), job[w].kind = "approve"
         PROVE  SettledInv'
    <3>1. job[w] # Idle /\ job[w].step = "sign" /\ job[w] \in Job
      BY <2>6, <2>12 DEF ToSign
    <3>2. /\ job'[w] = [job[w] EXCEPT !.step = "commit"]
          /\ \A v \in Handler \ {w} : job'[v] = job[v]
          /\ main' = workspace /\ UNCHANGED <<db, workspace>>
      BY <2>12 DEF TypeOK, ToSign
    <3>3. job'[w] # Idle /\ job'[w].step = "commit" /\ job'[w].recipe = job[w].recipe
          /\ job'[w].kind = job[w].kind /\ job'[w].records = job[w].records
      BY <3>1, <3>2 DEF Job, Idle
    <3>4. \A v \in Handler : OwnRecord(v)'
      <4>1. OwnRecord(w)'
        BY <2>12, <3>1, <3>2, <3>3 DEF SettledInv, OwnRecord
      <4>2. ASSUME NEW v \in Handler \ {w}
            PROVE  OwnRecord(v)'
        BY <3>2 DEF SettledInv, OwnRecord
      <4> QED
        BY <4>1, <4>2
    <3>5. \A v \in Handler : job'[v].recipe = job[v].recipe /\ (job'[v] # Idle <=> job[v] # Idle)
      <4>1. ASSUME NEW v \in Handler \ {w}
            PROVE  job'[v] = job[v]
        BY <3>2
      <4> QED
        BY <3>1, <3>3, <4>1
    <3>6. \A u, v \in Handler : job'[u].recipe = job'[v].recipe /\ job'[u] # Idle => u = v
      BY <3>5 DEF SettledInv
    <3>7. Settled'
      <4>1. ASSUME NEW s \in Recipe, ~Busy(s)
            PROVE  workspace[s] = db[s]
        BY <4>1 DEF SettledInv, Settled, Busy
      <4> QED
        BY <3>2, <3>5, <4>1 DEF Settled, Busy
    <3> QED
      BY <3>2, <3>4, <3>6, <3>7 DEF SettledInv
  <2>13. ASSUME NEW w \in Handler, CommitApproval(w)
         PROVE  SettledInv'
    <3> DEFINE r == job[w].recipe
    <3>1. job[w] # Idle /\ r \in Recipe /\ job[w].step = "commit" /\ job[w] \in Job
      BY <2>6, <2>13 DEF CommitApproval
    <3>2. workspace[r] = job[w].records[r]
      BY <3>1 DEF SettledInv, OwnRecord
    <3>3. workspace[r] = main[r]
      BY <3>1 DEF SettledInv
    <3>4. db'[r] = job[w].records[r] /\ \A s \in Recipe \ {r} : db'[s] = db[s]
      BY <2>13, <3>1 DEF CommitApproval, Commit, TypeOK, Records
    <3> QED
      BY <2>5, <2>13, <3>1, <3>2, <3>3, <3>4 DEF CommitApproval, Finish
  <2>7. ASSUME NEW w \in Handler
        PROVE  ~SyncCompare(w) /\ ~ToRollback(w)
    BY DEF SettledInv, OwnRecord, SyncCompare, ToRollback, Idle
  <2>8. ~Failures
    <3>1. ASSUME NEW w \in Handler
          PROVE  ~ToRollbackRefused(w)
      BY DEF ToRollbackRefused
    <3> QED
      BY <3>1 DEF Failures, EditRefused, PutUnanswered, DeleteRedelivered, ToSignRefused,
                  ToSignUnanswered, ToRollbackRefused, Crash
  <2>9. CASE UNCHANGED vars
    BY <2>9 DEF vars, SettledInv, OwnRecord, Settled, Busy
  <2> QED
    BY <2>2, <2>4, <2>7, <2>8, <2>9, <2>10, <2>11, <2>12, <2>13 DEF Next, Calm, Progress
<1> QED
  BY <1>1, <1>2, TypeCorrect, PTL DEF Spec, SettledInv

=============================================================================

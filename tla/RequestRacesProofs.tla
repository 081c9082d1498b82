------------------------- MODULE RequestRacesProofs -------------------------
(***************************************************************************)
(* Theorems about RequestRaces: what holds under every interleaving of any *)
(* number of handlers on any number of recipes.                            *)
(***************************************************************************)
EXTENDS RequestRaces, TLAPS

-----------------------------------------------------------------------------
(* The inductive invariant.                                                *)

Own(r, v) == revision[v] # None /\ revision[v].recipe = r

\* Columns name the recipe's own revisions, and what is in force or enabled was
\* reviewed.
Rows ==
  /\ \A r \in Recipe : latest[r] # None => Own(r, latest[r])
  /\ \A r \in Recipe : approved[r] # None =>
       Own(r, approved[r]) /\ approved[r] \in decided.reviewed
  /\ \A v \in Revision : revision[v] # None => latest[revision[v].recipe] # None
  /\ \A v \in Revision : enabled[v] => v \in decided.reviewed
  /\ \A v \in decided.reviewed : revision[v] # None

\* What a handler carries is still true of rows that never change: the loaded
\* columns name the recipe's own revisions, and what it may enable was reviewed.
JobRight(j) ==
  /\ j.op \in {"request", "approve", "reject", "close"} => j.request # None
  /\ j.op = "revise" =>
       /\ revision[j.revision] = None
       /\ j.latest = None => latest[j.recipe] = None
       /\ ~Renames => \A v \in Revision :
                        Own(j.recipe, v) => revision[v].content = j.content
  /\ j.op # "revise" => /\ Own(j.recipe, j.revision)
                        /\ j.content = revision[j.revision].content
                        /\ j.latest # None
  /\ j.latest # None => Own(j.recipe, j.latest)
  /\ j.approved # None => Own(j.recipe, j.approved) /\ j.approved \in decided.reviewed
  /\ j.op \in {"enable", "disable"} \/ (j.op = "annotate" /\ j.on)
       => j.revision \in decided.reviewed

Jobs == \A h \in AtWork : JobRight(job[h])

\* Two handlers make different revisions, and not both the first of a recipe.
Apart ==
  \A g, h \in AtWork : g # h =>
    /\ job[g].op = "revise" /\ job[h].op = "revise" => job[g].revision # job[h].revision
    /\ job[g].recipe = job[h].recipe => latest[job[g].recipe] # None

OneChild ==
  \A v, w \in Revision :
    /\ revision[v] # None /\ revision[w] # None /\ v # w
    /\ revision[v].recipe = revision[w].recipe
    => revision[v].parent # revision[w].parent

SameName ==
  ~Renames => \A v, w \in Revision :
    revision[v] # None /\ Own(revision[v].recipe, w)
      => revision[v].content = revision[w].content

\* The recipe is on, was, or a handler is past the check that lets it be.
MaybeOn(r) ==
  \/ \E v \in Revision : Own(r, v) /\ enabled[v]
  \/ \E h \in AtWork :
       /\ job[h].recipe = r
       /\ \/ job[h].op = "annotate" /\ job[h].on
          \/ job[h].op = "enable" /\ job[h].pc = "checked"
          \/ job[h].op = "approve" /\ job[h].pc = "checked" /\ job[h].on

Namesakes(r, s) ==
  \E v, w \in Revision :
    /\ Own(r, v) /\ Own(s, w)
    /\ revision[v].content = revision[w].content
    /\ revision[v].content.action = "rollout"

\* Of two recipes of one name, the one stored last is not let past the check.
OneOfNamesakes ==
  ~Renames => \A r, s \in Recipe :
    r # s /\ Namesakes(r, s) => ~(MaybeOn(r) /\ MaybeOn(s))

IInv == TypeOK /\ Rows /\ Jobs /\ Apart /\ OneChild /\ SameName /\ OneOfNamesakes

-----------------------------------------------------------------------------
(* Types.                                                                  *)

LEMMA InitTyped == Init => TypeOK
  BY ConstantsAssumption DEF Init, TypeOK

\* A handler that gives up or ends keeps the types.
LEMMA LoadTyped ==
  ASSUME TypeOK, NEW h \in Handler, NEW op \in Op, NEW r \in Recipe, NEW v \in Revision,
         NEW q \in RequestId \cup {None}, NEW c \in Content, Load(h, op, r, v, q, c)
  PROVE  TypeOK'
<1>1. job'[h] \in Job /\ job' \in [Handler -> Job \cup {None}]
  <2>1. [op |-> op, pc |-> "loaded", recipe |-> r, revision |-> v, request |-> q,
         content |-> c, latest |-> latest[r], approved |-> approved[r],
         on |-> enabled[v]] \in Job
    BY DEF TypeOK, Job
  <2> QED BY <2>1 DEF Load, TypeOK
<1>2. met' \subseteq Recipe \X Recipe
  <2>1. \A g \in AtWork : job[g].recipe \in Recipe
    BY DEF AtWork, TypeOK, Job
  <2> QED BY <2>1, SMT DEF Load, TypeOK
<1>3. overlaps' \in 0 .. MaxOverlaps
  BY ConstantsAssumption DEF Load, TypeOK
<1> QED BY <1>1, <1>2, <1>3 DEF Load, TypeOK, database

LEMMA PendingTyped ==
  ASSUME TypeOK, NEW v \in Revision \cup {None}
  PROVE  PendingRequest(v) \in RequestId \cup {None}
BY DEF PendingRequest, TypeOK, Request

LEMMA LoadsTyped ==
  ASSUME TypeOK, Rows, NEW h \in Handler, Loads(h)
  PROVE  TypeOK'
<1>1. ASSUME NEW r \in Recipe, NEW v \in Revision, NEW c \in Content, LoadCreate(h, r, v, c)
      PROVE  TypeOK'
  BY <1>1, LoadTyped DEF LoadCreate, Op
<1>2. ASSUME NEW r \in Recipe, NEW v \in Revision, NEW c \in Content, LoadRevise(h, r, v, c)
      PROVE  TypeOK'
  <2>1. PendingRequest(latest[r]) \in RequestId \cup {None}
    BY PendingTyped DEF TypeOK
  <2> QED BY <1>2, <2>1, LoadTyped DEF LoadRevise, Op
<1>3. ASSUME NEW v \in Revision, NEW q \in RequestId, LoadRequest(h, v, q)
      PROVE  TypeOK'
  <2>1. revision[v].recipe \in Recipe /\ revision[v].content \in Content
    BY <1>3 DEF LoadRequest, TypeOK, Row
  <2> QED BY <1>3, <2>1, LoadTyped DEF LoadRequest, Op
<1>4. ASSUME NEW v \in Revision, NEW op \in {"approve", "reject", "close"},
             LoadReview(h, op, v)
      PROVE  TypeOK'
  <2>1. revision[v].recipe \in Recipe /\ revision[v].content \in Content
    BY <1>4 DEF LoadReview, TypeOK, Row
  <2>2. request[v].id \in RequestId
    BY <1>4 DEF LoadReview, PendingRequest, TypeOK, Request
  <2> QED BY <1>4, <2>1, <2>2, LoadTyped DEF LoadReview, Op
<1>5. ASSUME NEW v \in Revision, LoadAnnotate(h, v)
      PROVE  TypeOK'
  <2>1. revision[v].recipe \in Recipe /\ revision[v].content \in Content
    BY <1>5 DEF LoadAnnotate, TypeOK, Row
  <2> QED BY <1>5, <2>1, LoadTyped DEF LoadAnnotate, Op
<1>6. ASSUME NEW r \in Recipe, NEW op \in {"enable", "disable"}, LoadSwitch(h, op, r)
      PROVE  TypeOK'
  <2>1. approved[r] \in Revision /\ revision[approved[r]] # None
    BY <1>6 DEF LoadSwitch, TypeOK, Rows, Own
  <2>2. revision[approved[r]].content \in Content
    BY <2>1 DEF TypeOK, Row
  <2> QED BY <1>6, <2>1, <2>2, LoadTyped DEF LoadSwitch, Op
<1> QED BY <1>1, <1>2, <1>3, <1>4, <1>5, <1>6 DEF Loads

LEMMA ChecksTyped ==
  ASSUME TypeOK, NEW h \in Handler, Checks(h)
  PROVE  TypeOK'
<1>1. job[h] \in Job /\ job[h] # None
  BY DEF Checks, CheckArguments, CheckSwitch, CheckApprove, At, TypeOK
<1>2. job' \in [Handler -> Job \cup {None}] => TypeOK'
  BY DEF Checks, CheckArguments, CheckSwitch, CheckApprove, Abandon, database, TypeOK
<1>3. CASE CheckArguments(h)
  <2>1. [job[h] EXCEPT !.pc = "checked"] \in Job
    BY <1>1 DEF Job
  <2> QED BY <1>2, <1>3, <2>1 DEF CheckArguments, Abandon, TypeOK
<1>4. CASE CheckSwitch(h)
  <2>1. job[h].recipe \in Recipe
    BY <1>1 DEF Job
  <2>2. [job[h] EXCEPT !.pc = "checked", !.latest = latest[job[h].recipe],
                       !.approved = approved[job[h].recipe]] \in Job
    BY <1>1, <2>1 DEF Job, TypeOK
  <2> QED BY <1>2, <1>4, <2>2 DEF CheckSwitch, Abandon, TypeOK
<1>5. CASE CheckApprove(h)
  <2> DEFINE carry == job[h].approved # None /\ enabled[job[h].approved]
  <2>1. carry \in BOOLEAN
    BY <1>1 DEF Job, TypeOK
  <2>2. [job[h] EXCEPT !.pc = "checked", !.on = carry] \in Job
    BY <1>1, <2>1 DEF Job
  <2> QED BY <1>2, <1>5, <2>2 DEF CheckApprove, Abandon, TypeOK
<1> QED BY <1>3, <1>4, <1>5 DEF Checks

LEMMA WritesTyped ==
  ASSUME TypeOK, Jobs, NEW h \in Handler, Writes(h)
  PROVE  TypeOK'
<1>1. job[h] \in Job /\ job[h] # None
  BY DEF Writes, WriteRevision, WriteRequest, WriteSwitch, WriteBack, WriteApproval,
         WriteRejection, WriteClosing, WriteAnnotation, At, TypeOK
<1> DEFINE j == job[h]
<1>2. /\ j.recipe \in Recipe /\ j.revision \in Revision /\ j.content \in Content
      /\ j.request \in RequestId \cup {None} /\ j.latest \in Revision \cup {None}
      /\ j.approved \in Revision \cup {None} /\ j.on \in BOOLEAN
      /\ [j EXCEPT !.pc = "written"] \in Job
      /\ j.op \in {"request", "approve", "reject", "close"} => j.request # None
  BY <1>1 DEF Job, Jobs, JobRight, AtWork
<1>3. Abandon(h) => TypeOK'
  BY DEF Abandon, TypeOK, database
<1>4. Done(h) => /\ job' \in [Handler -> Job \cup {None}]
                 /\ met' = met /\ overlaps' = overlaps
  BY DEF Done, TypeOK
<1>5. ASSUME NEW l \in Revision \cup {None}, NEW a \in Revision \cup {None},
             WriteRecipe(j.recipe, l, a)
      PROVE  /\ latest' \in [Recipe -> Revision \cup {None}]
             /\ approved' \in [Recipe -> Revision \cup {None}]
  BY <1>5, <1>2 DEF WriteRecipe, TypeOK
<1>6. ASSUME Forget(j.request)
      PROVE  request' \in [Revision -> Request \cup {None}]
  BY <1>6 DEF Forget, TypeOK
<1>7. CASE WriteRevision(h)
  <2>1. [recipe |-> j.recipe, parent |-> j.latest, content |-> j.content] \in Row
    BY <1>2 DEF Row
  <2> QED BY <1>2, <1>3, <1>4, <1>5, <1>6, <1>7, <2>1 DEF WriteRevision, TypeOK
<1>8. CASE WriteRequest(h)
  <2> QED BY <1>2, <1>3, <1>8 DEF WriteRequest, At, TypeOK, Request, Status
<1>9. CASE WriteSwitch(h)
  <2>1. decided' \in [inForce : [Recipe -> Revision \cup {None}],
                      on : [Recipe -> BOOLEAN], reviewed : SUBSET Revision]
    BY <1>2, <1>9 DEF WriteSwitch, TypeOK
  <2> QED BY <1>2, <1>9, <2>1 DEF WriteSwitch, TypeOK
<1>10. CASE WriteBack(h)
  BY <1>2, <1>4, <1>5, <1>10 DEF WriteBack, TypeOK
<1>11. CASE WriteApproval(h)
  <2>1. decided' \in [inForce : [Recipe -> Revision \cup {None}],
                      on : [Recipe -> BOOLEAN], reviewed : SUBSET Revision]
    BY <1>2, <1>11 DEF WriteApproval, TypeOK
  <2>2. enabled' \in [Revision -> BOOLEAN]
    <3>1. (enabled[j.revision] \/ j.on) \in BOOLEAN
      OBVIOUS
    <3> QED BY <1>2, <1>11, <3>1 DEF WriteApproval, TypeOK
  <2>3. request' \in [Revision -> Request \cup {None}]
    BY <1>2, <1>11 DEF WriteApproval, At, TypeOK, Request, Status
  <2> QED BY <1>2, <1>4, <1>5, <1>11, <2>1, <2>2, <2>3 DEF WriteApproval, TypeOK
<1>12. CASE WriteRejection(h)
  <2>1. [id |-> j.request, status |-> "rejected"] \in Request
    BY <1>2, <1>12 DEF WriteRejection, At, Request, Status
  <2> QED BY <1>2, <1>3, <1>4, <1>5, <1>12, <2>1 DEF WriteRejection, TypeOK
<1>13. CASE WriteClosing(h)
  BY <1>2, <1>4, <1>5, <1>6, <1>13 DEF WriteClosing, TypeOK
<1>14. CASE WriteAnnotation(h)
  BY <1>2, <1>4, <1>14 DEF WriteAnnotation, TypeOK
<1> QED BY <1>7, <1>8, <1>9, <1>10, <1>11, <1>12, <1>13, <1>14 DEF Writes

-----------------------------------------------------------------------------
(* Steps that store no revision.                                           *)

\* What a handler carries stays right while others write.
LEMMA CarriedKept ==
  ASSUME TypeOK, NEW g \in Handler, job[g] # None, JobRight(job[g]),
         job'[g] = job[g], revision' = revision,
         decided.reviewed \subseteq decided'.reviewed,
         \A r \in Recipe : latest'[r] = None <=> latest[r] = None
  PROVE  JobRight(job[g])'
<1>1. job[g].recipe \in Recipe
  BY DEF TypeOK, Job
<1> QED BY <1>1 DEF JobRight, Own

LEMMA Frame ==
  ASSUME IInv, NEW h \in Handler, \A g \in Handler \ {h} : job'[g] = job[g],
         revision' = revision, decided.reviewed \subseteq decided'.reviewed,
         \A r \in Recipe : latest'[r] = None <=> latest[r] = None,
         job'[h] # None => JobRight(job[h])'
  PROVE  Jobs' /\ OneChild' /\ SameName'
<1>1. \A g \in Handler \ {h} : job[g] # None => JobRight(job[g])'
  BY CarriedKept DEF IInv, Jobs, AtWork
<1>2. Jobs'
  BY <1>1 DEF Jobs, AtWork
<1> QED BY <1>2 DEF IInv, OneChild, SameName, Own

\* A handler that keeps what it is about, or ends, leaves the others apart.
LEMMA ApartKept ==
  ASSUME IInv, NEW h \in Handler, \A g \in Handler \ {h} : job'[g] = job[g],
         job'[h] # None => /\ job[h] # None
                           /\ job'[h].op = job[h].op
                           /\ job'[h].recipe = job[h].recipe
                           /\ job'[h].revision = job[h].revision,
         \A r \in Recipe : latest[r] # None => latest'[r] # None
  PROVE  Apart'
<1>1. \A g \in AtWork : job[g].recipe \in Recipe
  BY DEF AtWork, IInv, TypeOK, Job
<1> QED BY <1>1, SMTT(30) DEF IInv, Apart, AtWork

LEMMA NamesakesKept ==
  ASSUME IInv, revision' = revision,
         ~Renames => \A r \in Recipe :
           MaybeOn(r)' => MaybeOn(r) \/ \A s \in Recipe \ {r} : ~Namesakes(r, s)
  PROVE  OneOfNamesakes'
<1>1. ASSUME ~Renames, NEW r \in Recipe, NEW s \in Recipe, r # s, Namesakes(r, s)',
             MaybeOn(r)', MaybeOn(s)'
      PROVE  FALSE
  <2>1. Namesakes(r, s) /\ Namesakes(s, r)
    <3>1. Namesakes(r, s)
      BY <1>1 DEF Namesakes, Own
    <3> QED BY <3>1 DEF Namesakes
  <2>2. MaybeOn(r) /\ MaybeOn(s)
    BY <1>1, <2>1
  <2> QED BY <1>1, <2>1, <2>2 DEF IInv, OneOfNamesakes
<1> QED BY <1>1 DEF OneOfNamesakes

\* What passes validation has no namesake: the names other recipes hold are the
\* names of all their revisions.
LEMMA ValidAlone ==
  ASSUME IInv, ~Renames, NEW r \in Recipe, NEW v \in Revision, Own(r, v),
         Valid(revision[v].content, r)
  PROVE  \A s \in Recipe \ {r} : ~Namesakes(r, s)
<1> SUFFICES ASSUME NEW s \in Recipe, s # r, NEW x \in Revision, NEW w \in Revision,
                    Own(r, x), Own(s, w), revision[x].content = revision[w].content,
                    revision[x].content.action = "rollout"
             PROVE  FALSE
  BY DEF Namesakes
<1>1. revision[v].content = revision[w].content
  BY DEF IInv, SameName, Own
<1>2. latest[s] \in Revision /\ latest[s] # None /\ Own(s, latest[s])
  BY DEF IInv, Rows, Own, TypeOK
<1>3. revision[latest[s]].content = revision[v].content
  BY <1>1, <1>2 DEF IInv, SameName, Own
<1>4. revision[v].content \in Content
  BY DEF Own, IInv, TypeOK, Row
<1>5. Named(latest[s], "rollout", revision[v].content.name)
  BY <1>1, <1>2, <1>3, <1>4 DEF Named, Content
<1> QED BY <1>1, <1>5 DEF Valid

\* Loading, given that what is loaded is right.
LEMMA LoadKeeps ==
  ASSUME IInv, NEW h \in Handler, NEW op \in Op, NEW r \in Recipe, NEW v \in Revision,
         NEW q \in RequestId \cup {None}, NEW c \in Content, Load(h, op, r, v, q, c),
         op # "revise" => Own(r, v) /\ c = revision[v].content,
         op = "revise" =>
           /\ UnusedRevision(v)
           /\ latest[r] = None => \A g \in AtWork : job[g].recipe # r
           /\ ~Renames /\ latest[r] # None => c = revision[latest[r]].content,
         op \in {"request", "approve", "reject", "close"} => q # None,
         op \in {"enable", "disable"} => v = approved[r]
  PROVE  IInv'
<1>1. TypeOK'
  BY LoadTyped DEF IInv
<1>2. job'[h] = [op |-> op, pc |-> "loaded", recipe |-> r, revision |-> v, request |-> q,
                 content |-> c, latest |-> latest[r], approved |-> approved[r],
                 on |-> enabled[v]]
      /\ job[h] = None /\ (\A g \in Handler \ {h} : job'[g] = job[g])
      /\ UNCHANGED <<latest, approved, revision, enabled, request, decided>>
  BY DEF Load, IInv, TypeOK, database
<1>3. op # "revise" => latest[r] # None
  BY DEF IInv, Rows, Own
<1>4. JobRight(job[h])'
  <2>3. /\ latest[r] # None => Own(r, latest[r])
        /\ approved[r] # None => Own(r, approved[r]) /\ approved[r] \in decided.reviewed
    BY DEF IInv, Rows
  <2>4. op \in {"enable", "disable"} => approved[r] # None
    BY ConstantsAssumption
  <2>1. CASE op = "revise"
    <3>1. ASSUME ~Renames, NEW w \in Revision, Own(r, w)
          PROVE  revision[w].content = c
      <4>1. latest[r] # None /\ Own(r, latest[r]) /\ latest[r] \in Revision
        BY <3>1 DEF IInv, Rows, Own, TypeOK
      <4> QED BY <2>1, <3>1, <4>1 DEF IInv, SameName, Own
    <3>2. revision[v] = None
      BY <2>1 DEF UnusedRevision
    <3> QED BY <1>2, <2>1, <2>3, <3>1, <3>2 DEF JobRight, Own
  <2>2. CASE op # "revise"
    <3>1. op \in {"enable", "disable"} \/ enabled[v] => v \in decided.reviewed
      <4>1. approved[r] # None => approved[r] \in decided.reviewed
        BY DEF IInv, Rows
      <4>2. enabled[v] => v \in decided.reviewed
        BY DEF IInv, Rows
      <4> QED BY <4>1, <4>2, <2>4
    <3> QED BY <1>2, <1>3, <2>2, <2>3, <3>1 DEF JobRight, Own
  <2> QED BY <2>1, <2>2
<1>6. Rows'
  BY <1>2 DEF IInv, Rows, Own
<1>7. Jobs' /\ OneChild' /\ SameName'
  BY <1>2, <1>4, Frame
<1>8. Apart'
  <2>1. ASSUME NEW g \in AtWork
        PROVE  /\ op = "revise" /\ job[g].op = "revise" => job[g].revision # v
               /\ job[g].recipe = r => latest[r] # None
    <3>1. CASE op = "revise"
      BY <3>1 DEF UnusedRevision
    <3>2. CASE op # "revise"
      BY <1>3, <3>2
    <3> QED BY <3>1, <3>2
  <2>2. AtWork' = AtWork \cup {h}
    <3>1. job'[h] \in Job
      BY <1>2 DEF Job, IInv, TypeOK
    <3> QED BY <1>2, <3>1, ConstantsAssumption DEF AtWork
  <2>3. ASSUME NEW f \in AtWork', NEW g \in AtWork', f # g
        PROVE  /\ job'[f].op = "revise" /\ job'[g].op = "revise"
                    => job'[f].revision # job'[g].revision
               /\ job'[f].recipe = job'[g].recipe => latest[job'[f].recipe] # None
    <3>1. CASE f = h
      BY <1>2, <2>1, <2>2, <2>3, <3>1 DEF AtWork
    <3>2. CASE g = h
      BY <1>2, <2>1, <2>2, <2>3, <3>2 DEF AtWork
    <3>3. CASE f # h /\ g # h
      BY <1>2, <2>2, <2>3, <3>3 DEF AtWork, IInv, Apart
    <3> QED BY <3>1, <3>2, <3>3
  <2> QED BY <1>2, <2>3 DEF Apart
<1>9. ASSUME NEW s \in Recipe, MaybeOn(s)'
      PROVE  MaybeOn(s)
  <2>1. CASE \E w \in Revision : Own(s, w)' /\ enabled'[w]
    BY <1>2, <2>1 DEF MaybeOn, Own
  <2>2. CASE ~ \E w \in Revision : Own(s, w)' /\ enabled'[w]
    <3>1. PICK g \in AtWork' :
            /\ job'[g].recipe = s
            /\ \/ job'[g].op = "annotate" /\ job'[g].on
               \/ job'[g].op = "enable" /\ job'[g].pc = "checked"
               \/ job'[g].op = "approve" /\ job'[g].pc = "checked" /\ job'[g].on
      BY <1>9, <2>2 DEF MaybeOn
    <3>2. CASE g = h
      BY <1>2, <3>1, <3>2 DEF MaybeOn
    <3>3. CASE g # h
      BY <1>2, <3>1, <3>3 DEF MaybeOn, AtWork
    <3> QED BY <3>2, <3>3
  <2> QED BY <2>1, <2>2
<1>10. OneOfNamesakes'
  BY <1>2, <1>9, NamesakesKept
<1> QED BY <1>1, <1>6, <1>7, <1>8, <1>10 DEF IInv

LEMMA LoadsKeep ==
  ASSUME IInv, NEW h \in Handler, Loads(h)
  PROVE  IInv'
<1>1. ASSUME NEW r \in Recipe, NEW v \in Revision, NEW c \in Content, LoadCreate(h, r, v, c)
      PROVE  IInv'
  BY <1>1, LoadKeeps DEF LoadCreate, Op
<1>2. ASSUME NEW r \in Recipe, NEW v \in Revision, NEW c \in Content, LoadRevise(h, r, v, c)
      PROVE  IInv'
  <2>1. PendingRequest(latest[r]) \in RequestId \cup {None}
    BY PendingTyped DEF IInv, TypeOK
  <2> QED BY <1>2, <2>1, LoadKeeps DEF LoadRevise, Op
<1>3. ASSUME NEW v \in Revision, NEW q \in RequestId, LoadRequest(h, v, q)
      PROVE  IInv'
  <2>1. revision[v].recipe \in Recipe /\ revision[v].content \in Content
    BY <1>3 DEF LoadRequest, IInv, TypeOK, Row
  <2>2. q # None
    BY ConstantsAssumption
  <2> QED BY <1>3, <2>1, <2>2, LoadKeeps DEF LoadRequest, Op, Own
<1>4. ASSUME NEW v \in Revision, NEW op \in {"approve", "reject", "close"},
             LoadReview(h, op, v)
      PROVE  IInv'
  <2>1. revision[v].recipe \in Recipe /\ revision[v].content \in Content
    BY <1>4 DEF LoadReview, IInv, TypeOK, Row
  <2>2. request[v].id \in RequestId /\ request[v].id # None
    BY <1>4, ConstantsAssumption DEF LoadReview, PendingRequest, IInv, TypeOK, Request
  <2> QED BY <1>4, <2>1, <2>2, LoadKeeps DEF LoadReview, Op, Own
<1>5. ASSUME NEW v \in Revision, LoadAnnotate(h, v)
      PROVE  IInv'
  <2>1. revision[v].recipe \in Recipe /\ revision[v].content \in Content
    BY <1>5 DEF LoadAnnotate, IInv, TypeOK, Row
  <2> QED BY <1>5, <2>1, LoadKeeps DEF LoadAnnotate, Op, Own
<1>6. ASSUME NEW r \in Recipe, NEW op \in {"enable", "disable"}, LoadSwitch(h, op, r)
      PROVE  IInv'
  <2>1. approved[r] \in Revision /\ revision[approved[r]] # None /\ Own(r, approved[r])
    BY <1>6 DEF LoadSwitch, IInv, TypeOK, Rows, Own
  <2>2. revision[approved[r]].content \in Content
    BY <2>1 DEF IInv, TypeOK, Row
  <2> QED BY <1>6, <2>1, <2>2, LoadKeeps DEF LoadSwitch, Op
<1> QED BY <1>1, <1>2, <1>3, <1>4, <1>5, <1>6 DEF Loads

\* A handler that goes away takes nothing with it.
LEMMA AbandonKeeps ==
  ASSUME IInv, NEW h \in Handler, Abandon(h), TypeOK'
  PROVE  IInv'
<1>1. job'[h] = None /\ (\A g \in Handler \ {h} : job'[g] = job[g])
      /\ UNCHANGED <<latest, approved, revision, enabled, request, decided>>
  BY DEF Abandon, database, IInv, TypeOK
<1>2. Rows'
  BY <1>1 DEF IInv, Rows, Own
<1>3. Jobs' /\ OneChild' /\ SameName' /\ Apart'
  BY <1>1, Frame, ApartKept
<1>4. \A s \in Recipe : MaybeOn(s)' => MaybeOn(s)
  BY <1>1, SMTT(30) DEF MaybeOn, AtWork, Own
<1> QED BY <1>1, <1>2, <1>3, <1>4, NamesakesKept DEF IInv

\* A handler that goes on past its check.
LEMMA PassKeeps ==
  ASSUME IInv, TypeOK', NEW h \in Handler, job[h] # None,
         \A g \in Handler \ {h} : job'[g] = job[g], UNCHANGED <<database, decided>>,
         JobRight(job[h])', job'[h].op = job[h].op, job'[h].recipe = job[h].recipe,
         job'[h].revision = job[h].revision,
         job[h].op = "annotate" => job'[h].on = job[h].on,
         ~Renames /\ (job[h].op = "enable" \/ (job[h].op = "approve" /\ job'[h].on))
           => \/ MaybeOn(job[h].recipe)
              \/ \A s \in Recipe \ {job[h].recipe} : ~Namesakes(job[h].recipe, s)
  PROVE  IInv'
<1>1. UNCHANGED <<latest, approved, revision, enabled, request, decided>>
  BY DEF database
<1>2. Rows'
  BY <1>1 DEF IInv, Rows, Own
<1>3. Jobs' /\ OneChild' /\ SameName' /\ Apart'
  BY <1>1, Frame, ApartKept
<1>4. ASSUME ~Renames, NEW r \in Recipe, MaybeOn(r)'
      PROVE  MaybeOn(r) \/ \A s \in Recipe \ {r} : ~Namesakes(r, s)
  <2>1. CASE \E w \in Revision : Own(r, w)' /\ enabled'[w]
    BY <1>1, <2>1 DEF MaybeOn, Own
  <2>2. CASE ~ \E w \in Revision : Own(r, w)' /\ enabled'[w]
    <3>1. PICK g \in AtWork' :
            /\ job'[g].recipe = r
            /\ \/ job'[g].op = "annotate" /\ job'[g].on
               \/ job'[g].op = "enable" /\ job'[g].pc = "checked"
               \/ job'[g].op = "approve" /\ job'[g].pc = "checked" /\ job'[g].on
      BY <1>4, <2>2 DEF MaybeOn
    <3>2. CASE g = h /\ job[h].op = "annotate"
      BY <3>1, <3>2 DEF MaybeOn, AtWork
    <3>3. CASE g = h /\ job[h].op # "annotate"
      BY <1>4, <3>1, <3>3
    <3>4. CASE g # h
      BY <3>1, <3>4 DEF MaybeOn, AtWork
    <3> QED BY <3>2, <3>3, <3>4
  <2> QED BY <2>1, <2>2
<1> QED BY <1>1, <1>2, <1>3, <1>4, NamesakesKept DEF IInv

LEMMA ChecksKeep ==
  ASSUME IInv, NEW h \in Handler, Checks(h)
  PROVE  IInv'
<1> DEFINE j == job[h]
<1>1. TypeOK'
  BY ChecksTyped DEF IInv
<1>2. j # None /\ j \in Job /\ JobRight(j)
  BY DEF Checks, CheckArguments, CheckSwitch, CheckApprove, At, IInv, TypeOK, Jobs, AtWork
<1>3. j.recipe \in Recipe /\ j.revision \in Revision
  BY <1>2 DEF Job
<1>4. Abandon(h) => IInv'
  BY <1>1, AbandonKeeps
<1>5. ASSUME CheckArguments(h), ~Abandon(h)
      PROVE  IInv'
  <2>1. /\ job' = [job EXCEPT ![h].pc = "checked"] /\ j.op \in {"revise", "annotate"}
        /\ UNCHANGED <<database, decided>>
    BY <1>5 DEF CheckArguments, At
  <2>2. /\ job'[h] = [j EXCEPT !.pc = "checked"]
        /\ \A g \in Handler \ {h} : job'[g] = job[g]
    BY <2>1 DEF IInv, TypeOK
  <2>3. JobRight(job[h])'
    BY <1>2, <2>1, <2>2 DEF JobRight, Own, database, Job
  <2> QED BY <1>1, <1>2, <2>1, <2>2, <2>3, PassKeeps DEF Job
<1>6. ASSUME CheckSwitch(h), ~Abandon(h)
      PROVE  IInv'
  <2>1. /\ job' = [job EXCEPT ![h] = [j EXCEPT !.pc = "checked",
                     !.latest = latest[j.recipe], !.approved = approved[j.recipe]]]
        /\ j.op \in {"enable", "disable"} /\ Valid(j.content, j.recipe)
        /\ approved[j.recipe] = j.revision
        /\ UNCHANGED <<database, decided>>
    BY <1>6 DEF CheckSwitch, At
  <2>2. /\ job'[h] = [j EXCEPT !.pc = "checked",
                        !.latest = latest[j.recipe], !.approved = approved[j.recipe]]
        /\ \A g \in Handler \ {h} : job'[g] = job[g]
    BY <2>1 DEF IInv, TypeOK
  <2>3. JobRight(job[h])'
    <3>1. /\ latest[j.recipe] # None /\ Own(j.recipe, latest[j.recipe])
          /\ approved[j.recipe] # None => /\ Own(j.recipe, approved[j.recipe])
                                          /\ approved[j.recipe] \in decided.reviewed
      BY <1>2, <1>3, <2>1 DEF JobRight, Own, IInv, Rows
    <3> QED BY <1>2, <2>1, <2>2, <3>1 DEF JobRight, Own, database, Job
  <2>4. ~Renames => \A s \in Recipe \ {j.recipe} : ~Namesakes(j.recipe, s)
    BY <1>2, <1>3, <2>1, ValidAlone DEF JobRight
  <2> QED BY <1>1, <1>2, <2>1, <2>2, <2>3, <2>4, PassKeeps DEF Job
<1>7. ASSUME CheckApprove(h), ~Abandon(h)
      PROVE  IInv'
  <2> DEFINE carry == j.approved # None /\ enabled[j.approved]
  <2>1. /\ job' = [job EXCEPT ![h] = [j EXCEPT !.pc = "checked", !.on = carry]]
        /\ j.op = "approve"
        /\ UNCHANGED <<database, decided>>
    BY <1>7 DEF CheckApprove, At
  <2>2. /\ job'[h] = [j EXCEPT !.pc = "checked", !.on = carry]
        /\ \A g \in Handler \ {h} : job'[g] = job[g]
    BY <2>1 DEF IInv, TypeOK
  <2>3. JobRight(job[h])'
    BY <1>2, <2>1, <2>2 DEF JobRight, Own, database, Job
  <2>4. carry => MaybeOn(j.recipe)
    BY <1>2 DEF JobRight, MaybeOn, Job
  <2>5. /\ job'[h].op = j.op /\ job'[h].recipe = j.recipe
        /\ job'[h].revision = j.revision /\ job'[h].on = carry
    BY <1>2, <2>2 DEF Job
  <2>6. ~Renames /\ (j.op = "enable" \/ (j.op = "approve" /\ job'[h].on))
          => MaybeOn(j.recipe)
    BY <2>1, <2>4, <2>5
  <2> HIDE DEF carry
  <2> QED BY <1>1, <1>2, <2>1, <2>2, <2>3, <2>5, <2>6, PassKeeps
<1> QED BY <1>4, <1>5, <1>6, <1>7 DEF Checks

-----------------------------------------------------------------------------
(* Steps that write.                                                       *)

\* A write that stores no revision: the recipe's columns become own revisions,
\* and what becomes enabled may be.
LEMMA WriteKeeps ==
  ASSUME IInv, TypeOK', NEW h \in Handler, job[h] # None,
         \A g \in Handler \ {h} : job'[g] = job[g],
         revision' = revision, decided.reviewed \subseteq decided'.reviewed,
         \A v \in decided'.reviewed : revision[v] # None,
         job'[h] # None => /\ job'[h] = [job[h] EXCEPT !.pc = "written"]
                           /\ job[h].op # "revise" /\ job[h].op # "annotate",
         \A r \in Recipe : latest'[r] # latest[r]
           => latest[r] # None /\ latest'[r] # None /\ Own(r, latest'[r]),
         \A r \in Recipe : approved'[r] # approved[r] /\ approved'[r] # None
           => Own(r, approved'[r]) /\ approved'[r] \in decided'.reviewed,
         \A v \in Revision : enabled'[v] /\ ~enabled[v]
           => v \in decided'.reviewed /\ (~Renames => MaybeOn(revision[v].recipe))
  PROVE  IInv'
<1>1. job[h] \in Job /\ JobRight(job[h])
  BY DEF IInv, TypeOK, Jobs, AtWork
<1>2. Rows'
  <2>1. \A r \in Recipe : latest'[r] # None => Own(r, latest'[r])
    BY DEF IInv, Rows
  <2>2. \A r \in Recipe : approved'[r] # None =>
          Own(r, approved'[r]) /\ approved'[r] \in decided'.reviewed
    BY DEF IInv, Rows
  <2>3. \A v \in Revision : revision[v] # None => latest'[revision[v].recipe] # None
    BY DEF IInv, Rows, TypeOK, Row
  <2>4. \A v \in Revision : enabled'[v] => v \in decided'.reviewed
    BY DEF IInv, Rows
  <2> QED BY <2>1, <2>2, <2>3, <2>4 DEF Rows, Own
<1>3. \A r \in Recipe : latest'[r] = None <=> latest[r] = None
  OBVIOUS
<1>4. job'[h] # None => JobRight(job[h])'
  <2> SUFFICES ASSUME job'[h] # None PROVE JobRight(job[h])'
    OBVIOUS
  <2>1. /\ job'[h].op = job[h].op /\ job'[h].recipe = job[h].recipe
        /\ job'[h].revision = job[h].revision /\ job'[h].request = job[h].request
        /\ job'[h].content = job[h].content /\ job'[h].latest = job[h].latest
        /\ job'[h].approved = job[h].approved /\ job'[h].on = job[h].on
    BY <1>1 DEF Job
  <2> QED BY <1>1, <2>1 DEF JobRight, Own
<1>5. job'[h] # None => /\ job'[h].op = job[h].op /\ job'[h].recipe = job[h].recipe
                        /\ job'[h].revision = job[h].revision
  BY <1>1 DEF Job
<1>6. Jobs' /\ OneChild' /\ SameName' /\ Apart'
  BY <1>3, <1>4, <1>5, Frame, ApartKept
<1>7. ASSUME ~Renames, NEW r \in Recipe, MaybeOn(r)'
      PROVE  MaybeOn(r)
  <2>1. CASE \E w \in Revision : Own(r, w)' /\ enabled'[w]
    <3>1. PICK w \in Revision : Own(r, w) /\ enabled'[w]
      BY <2>1 DEF Own
    <3>2. CASE enabled[w]
      BY <3>1, <3>2 DEF MaybeOn
    <3>3. CASE ~enabled[w]
      BY <1>7, <3>1, <3>3 DEF Own
    <3> QED BY <3>2, <3>3
  <2>2. CASE ~ \E w \in Revision : Own(r, w)' /\ enabled'[w]
    <3>1. PICK g \in AtWork' :
            /\ job'[g].recipe = r
            /\ \/ job'[g].op = "annotate" /\ job'[g].on
               \/ job'[g].op = "enable" /\ job'[g].pc = "checked"
               \/ job'[g].op = "approve" /\ job'[g].pc = "checked" /\ job'[g].on
      BY <1>7, <2>2 DEF MaybeOn
    <3>2. g # h
      BY <1>1, <1>5, <3>1 DEF Job, AtWork
    <3> QED BY <3>1, <3>2 DEF MaybeOn, AtWork
  <2> QED BY <2>1, <2>2
<1> QED BY <1>2, <1>6, <1>7, NamesakesKept DEF IInv

\* A new revision, the first of its recipe or the only child of its parent.
LEMMA StoreKeeps ==
  ASSUME IInv, TypeOK', NEW h \in Handler, WriteRevision(h), ~Abandon(h)
  PROVE  IInv'
<1> DEFINE j == job[h]
           new == [recipe |-> j.recipe, parent |-> j.latest, content |-> j.content]
<1>1. /\ j # None /\ j \in Job /\ JobRight(j) /\ j.op = "revise" /\ h \in AtWork
      /\ j.recipe \in Recipe /\ j.revision \in Revision
      /\ j.content \in Content /\ revision[j.revision] = None
  BY DEF WriteRevision, At, IInv, TypeOK, Jobs, AtWork, JobRight, Job
<1>2. /\ \A v \in Revision : revision[v] # None /\ j.latest # None
           => revision[v].parent # j.latest
      /\ revision' = [revision EXCEPT ![j.revision] = new]
      /\ latest' = [latest EXCEPT ![j.recipe] = j.revision]
      /\ approved' = [approved EXCEPT ![j.recipe] = j.approved]
      /\ job' = [job EXCEPT ![h] = None]
      /\ UNCHANGED <<enabled, decided>>
  BY DEF WriteRevision, WriteRecipe, Done
<1>3. /\ new # None /\ revision'[j.revision] = new /\ new.recipe = j.recipe
      /\ new.content = j.content /\ new.parent = j.latest
      /\ \A v \in Revision \ {j.revision} : revision'[v] = revision[v]
  <2>1. new \in Row
    BY <1>1 DEF Row, Job
  <2> QED BY <1>1, <1>2, <2>1, ConstantsAssumption DEF IInv, TypeOK
<1>4. /\ latest'[j.recipe] = j.revision /\ approved'[j.recipe] = j.approved
      /\ \A r \in Recipe \ {j.recipe} : latest'[r] = latest[r] /\ approved'[r] = approved[r]
  BY <1>1, <1>2 DEF IInv, TypeOK
<1>5. j.revision # None
  BY <1>1, ConstantsAssumption
<1>6. \A r \in Recipe, v \in Revision :
        Own(r, v)' <=> Own(r, v) \/ (v = j.revision /\ r = j.recipe)
  BY <1>1, <1>3 DEF Own
<1>8. \A v \in Revision : Own(j.recipe, v) =>
        latest[j.recipe] # None /\ (~Renames => revision[v].content = j.content)
  BY <1>1 DEF JobRight, Own, IInv, Rows
<1>9. Rows'
  <2>1. \A r \in Recipe, v \in Revision : v = latest'[r] /\ v # None => Own(r, v)'
    BY <1>4, <1>6 DEF IInv, Rows
  <2>2. \A r \in Recipe, v \in Revision : v = approved'[r] /\ v # None =>
          Own(r, v)' /\ v \in decided'.reviewed
    BY <1>1, <1>2, <1>4, <1>6 DEF IInv, Rows, JobRight
  <2>3. \A v \in Revision : revision'[v] # None => latest'[revision'[v].recipe] # None
    BY <1>1, <1>3, <1>4, <1>5 DEF IInv, Rows, TypeOK, Row
  <2>4. \A v \in decided'.reviewed : revision'[v] # None
    BY <1>1, <1>2, <1>3 DEF IInv, Rows, TypeOK
  <2>5. \A v \in Revision : enabled'[v] => v \in decided'.reviewed
    BY <1>2 DEF IInv, Rows
  <2> QED BY <2>1, <2>2, <2>3, <2>4, <2>5 DEF TypeOK, Rows
<1>10. AtWork' = AtWork \ {h} /\ \A g \in AtWork' : job'[g] = job[g]
  BY <1>2 DEF AtWork, IInv, TypeOK
<1>11. Jobs'
  <2>1. ASSUME NEW g \in AtWork'
        PROVE  JobRight(job[g])'
    <3>1. /\ g \in AtWork /\ g # h /\ job'[g] = job[g] /\ job[g] \in Job
          /\ job[g].recipe \in Recipe /\ job[g].revision \in Revision
          /\ job[g].latest \in Revision \cup {None}
          /\ job[g].approved \in Revision \cup {None} /\ JobRight(job[g])
      BY <1>10, <2>1 DEF AtWork, IInv, TypeOK, Job, Jobs
    <3>2. job[g].op = "revise" =>
            /\ job[g].revision # j.revision
            /\ job[g].recipe = j.recipe => latest[j.recipe] # None
      BY <1>1, <3>1 DEF IInv, Apart
    <3>3. CASE job[g].op = "revise"
      <4>1. revision'[job[g].revision] = None
        BY <1>3, <3>1, <3>2, <3>3 DEF JobRight
      <4>2. job[g].latest = None => latest'[job[g].recipe] = None
        BY <1>4, <3>1, <3>2, <3>3 DEF JobRight
      <4>3. ASSUME ~Renames, NEW v \in Revision, Own(job[g].recipe, v)'
            PROVE  revision'[v].content = job[g].content
        <5>1. CASE Own(job[g].recipe, v)
          BY <1>1, <1>3, <3>1, <3>3, <4>3, <5>1 DEF JobRight, Own
        <5>2. CASE v = j.revision /\ job[g].recipe = j.recipe
          <6>1. Own(j.recipe, latest[j.recipe]) /\ latest[j.recipe] \in Revision
            BY <1>1, <3>2, <3>3, <5>2 DEF IInv, Rows, TypeOK, Own
          <6>2. revision[latest[j.recipe]].content = j.content
            BY <1>8, <4>3, <6>1
          <6>3. revision[latest[j.recipe]].content = job[g].content
            BY <3>1, <3>3, <4>3, <5>2, <6>1 DEF JobRight
          <6> QED BY <1>3, <5>2, <6>2, <6>3
        <5> QED BY <1>6, <3>1, <4>3, <5>1, <5>2
      <4> QED BY <1>2, <1>6, <3>1, <3>3, <4>1, <4>2, <4>3 DEF JobRight
    <3>4. CASE job[g].op # "revise"
      <4>1. Own(job[g].recipe, job[g].revision)
            /\ revision'[job[g].revision] = revision[job[g].revision]
        BY <1>1, <1>3, <3>1, <3>4 DEF JobRight, Own
      <4> QED BY <1>2, <1>6, <3>1, <3>4, <4>1 DEF JobRight
    <3> QED BY <3>3, <3>4
  <2> QED BY <2>1 DEF Jobs
<1>12. Apart'
  <2>1. \A r \in Recipe : latest[r] # None => latest'[r] # None
    BY <1>4, <1>5
  <2> QED BY <1>2, <2>1, ApartKept DEF IInv, TypeOK
<1>13. OneChild'
  <2>1. ASSUME NEW v \in Revision, Own(j.recipe, v)
        PROVE  revision[v].parent # j.latest
    <3>1. j.latest # None
      BY <1>1, <1>8, <2>1 DEF JobRight
    <3> QED BY <1>2, <2>1, <3>1 DEF Own
  <2> QED BY <1>3, <2>1 DEF IInv, OneChild, Own
<1>14. SameName'
  BY <1>3, <1>8, SMTT(30) DEF IInv, SameName, Own
<1>15. \A r \in Recipe : MaybeOn(r)' => MaybeOn(r)
  <2>1. \A v \in Revision : enabled[v] => v # j.revision
    BY <1>1 DEF IInv, Rows
  <2> QED BY <1>2, <1>6, <1>10, <2>1, SMTT(30) DEF MaybeOn
<1>16. OneOfNamesakes'
  <2>1. ASSUME ~Renames, NEW r \in Recipe, NEW s \in Recipe, r # s, MaybeOn(r)', MaybeOn(s)',
               Namesakes(r, s)'
        PROVE  Namesakes(r, s)
    <3>1. MaybeOn(r) /\ MaybeOn(s)
      BY <1>15, <2>1
    <3>2. PICK v \in Revision, w \in Revision :
            /\ Own(r, v)' /\ Own(s, w)'
            /\ revision'[v].content = revision'[w].content
            /\ revision'[v].content.action = "rollout"
      BY <2>1 DEF Namesakes
    <3>3. ASSUME NEW t \in Recipe, t = j.recipe, MaybeOn(t)'
          PROVE  \E x \in Revision : Own(j.recipe, x) /\ revision[x].content = j.content
      <4>1. CASE \E x \in Revision : Own(j.recipe, x) /\ enabled[x]
        BY <1>8, <2>1, <4>1
      <4>2. CASE \E g \in AtWork' : job'[g].recipe = j.recipe
        <5>1. PICK g \in AtWork' : job[g].recipe = j.recipe /\ g # h /\ g \in AtWork
          BY <1>10, <4>2
        <5>2. latest[j.recipe] # None
          BY <1>1, <5>1 DEF IInv, Apart
        <5>3. Own(j.recipe, latest[j.recipe]) /\ latest[j.recipe] \in Revision
          BY <1>1, <5>2 DEF IInv, Rows, TypeOK
        <5> QED BY <1>8, <2>1, <5>3
      <4>3. \A x \in Revision : enabled'[x] => x # j.revision
        BY <1>1, <1>2 DEF IInv, Rows
      <4> QED BY <1>1, <1>2, <1>6, <3>3, <4>1, <4>2, <4>3 DEF MaybeOn
    <3>4. \E x \in Revision : Own(r, x) /\ revision[x].content = revision'[v].content
      <4>1. CASE v = j.revision /\ r = j.recipe
        BY <1>3, <2>1, <3>3, <4>1
      <4>2. CASE Own(r, v)
        BY <1>1, <1>3, <4>2 DEF Own
      <4> QED BY <1>6, <3>2, <4>1, <4>2
    <3>5. \E x \in Revision : Own(s, x) /\ revision[x].content = revision'[w].content
      <4>1. CASE w = j.revision /\ s = j.recipe
        BY <1>3, <2>1, <3>3, <4>1
      <4>2. CASE Own(s, w)
        BY <1>1, <1>3, <4>2 DEF Own
      <4> QED BY <1>6, <3>2, <4>1, <4>2
    <3> QED BY <3>2, <3>4, <3>5 DEF Namesakes
  <2> QED BY <1>15, <2>1 DEF IInv, OneOfNamesakes
<1> QED BY <1>9, <1>11, <1>12, <1>13, <1>14, <1>16 DEF IInv

LEMMA WritesKeep ==
  ASSUME IInv, NEW h \in Handler, Writes(h)
  PROVE  IInv'
<1> DEFINE j == job[h]
<1>1. TypeOK'
  BY WritesTyped DEF IInv
<1>2. Abandon(h) => IInv'
  BY <1>1, AbandonKeeps
<1>3. /\ j # None /\ j \in Job /\ JobRight(j)
      /\ j.recipe \in Recipe /\ j.revision \in Revision
  BY DEF Writes, WriteRevision, WriteRequest, WriteSwitch, WriteBack, WriteApproval,
         WriteRejection, WriteClosing, WriteAnnotation, At, IInv, TypeOK, Jobs, AtWork, Job
<1>4. Done(h) => job'[h] = None /\ \A g \in Handler \ {h} : job'[g] = job[g]
  BY DEF Done, IInv, TypeOK
<1>5. j.op # "revise" =>
        /\ Own(j.recipe, j.revision) /\ latest[j.recipe] # None /\ j.latest # None
        /\ Own(j.recipe, j.latest)
        /\ j.approved # None => Own(j.recipe, j.approved) /\ j.approved \in decided.reviewed
        /\ revision[j.revision] # None /\ revision[j.revision].recipe = j.recipe
  BY <1>3 DEF JobRight, Own, IInv, Rows
<1>6. ASSUME NEW a, WriteRecipe(j.recipe, j.latest, a), j.op # "revise",
             a # None => Own(j.recipe, a)
      PROVE  /\ \A r \in Recipe : latest'[r] # latest[r]
                  => latest[r] # None /\ latest'[r] # None /\ Own(r, latest'[r])
             /\ \A r \in Recipe : approved'[r] # approved[r] /\ approved'[r] # None
                  => Own(r, approved'[r]) /\ approved'[r] = a
  <2>1. \A r \in Recipe :
          /\ latest'[r] = IF r = j.recipe THEN j.latest ELSE latest[r]
          /\ approved'[r] = IF r = j.recipe THEN a ELSE approved[r]
    BY <1>6 DEF WriteRecipe, IInv, TypeOK
  <2> QED BY <1>5, <1>6, <2>1
<1>7. \A v \in decided.reviewed : revision[v] # None
  BY DEF IInv, Rows
<1>8. CASE WriteRevision(h)
  BY <1>1, <1>2, <1>8, StoreKeeps
<1>9. ASSUME WriteRequest(h), ~Abandon(h)
      PROVE  IInv'
  <2>1. /\ job' = [job EXCEPT ![h].pc = "written"] /\ j.op = "request"
        /\ UNCHANGED <<latest, approved, revision, enabled, decided>>
    BY <1>9 DEF WriteRequest, At
  <2>2. job'[h] = [j EXCEPT !.pc = "written"] /\ \A g \in Handler \ {h} : job'[g] = job[g]
    BY <2>1 DEF IInv, TypeOK
  <2> QED BY <1>1, <1>3, <1>7, <2>1, <2>2, WriteKeeps
<1>10. CASE WriteSwitch(h)
  <2>1. /\ job' = [job EXCEPT ![h].pc = "written"] /\ j.op \in {"enable", "disable"}
        /\ j.pc = "checked"
        /\ enabled' = [enabled EXCEPT ![j.revision] = (j.op = "enable")]
        /\ decided' = [decided EXCEPT !.on[j.recipe] = (j.op = "enable")]
        /\ UNCHANGED <<latest, approved, revision>>
    BY <1>10 DEF WriteSwitch, At
  <2>2. job'[h] = [j EXCEPT !.pc = "written"] /\ \A g \in Handler \ {h} : job'[g] = job[g]
    BY <2>1 DEF IInv, TypeOK
  <2>3. decided'.reviewed = decided.reviewed
    BY <2>1 DEF IInv, TypeOK
  <2>4. \A v \in Revision : enabled'[v] /\ ~enabled[v] => v = j.revision /\ j.op = "enable"
    BY <1>3, <2>1 DEF IInv, TypeOK
  <2>5. j.revision \in decided.reviewed
    BY <1>3, <2>1 DEF JobRight
  <2>6. j.op = "enable" => MaybeOn(j.recipe)
    BY <1>3, <2>1 DEF MaybeOn, AtWork
  <2> QED BY <1>1, <1>3, <1>5, <1>7, <2>1, <2>2, <2>3, <2>4, <2>5, <2>6, WriteKeeps
<1>11. CASE WriteBack(h)
  <2>1. /\ WriteRecipe(j.recipe, j.latest, j.approved) /\ Done(h)
        /\ j.op # "revise" /\ UNCHANGED <<revision, enabled, decided>>
    BY <1>11 DEF WriteBack, At
  <2>2. /\ \A r \in Recipe : latest'[r] # latest[r]
             => latest[r] # None /\ latest'[r] # None /\ Own(r, latest'[r])
        /\ \A r \in Recipe : approved'[r] # approved[r] /\ approved'[r] # None
             => Own(r, approved'[r]) /\ approved'[r] \in decided.reviewed
    BY <1>5, <1>6, <2>1
  <2> QED BY <1>1, <1>3, <1>4, <1>7, <2>1, <2>2, WriteKeeps
<1>12. CASE WriteApproval(h)
  <2>1. /\ WriteRecipe(j.recipe, j.latest, j.revision) /\ Done(h)
        /\ j.op = "approve" /\ j.pc = "checked" /\ UNCHANGED revision
        /\ enabled' = [enabled EXCEPT ![j.revision] = @ \/ j.on]
        /\ decided' = [decided EXCEPT !.inForce[j.recipe] = j.revision,
                                      !.reviewed = @ \cup {j.revision}]
    BY <1>12 DEF WriteApproval, At
  <2>2. decided'.reviewed = decided.reviewed \cup {j.revision}
    BY <2>1 DEF IInv, TypeOK
  <2>3. \A v \in Revision : enabled'[v] /\ ~enabled[v] => v = j.revision /\ j.on
    BY <1>3, <2>1 DEF IInv, TypeOK
  <2>4. j.on => MaybeOn(j.recipe)
    BY <1>3, <2>1 DEF MaybeOn, AtWork
  <2>5. \A v \in decided'.reviewed : revision[v] # None
    BY <1>5, <1>7, <2>1, <2>2
  <2>6. j.op # "revise"
    BY <2>1
  <2>7. /\ \A r \in Recipe : latest'[r] # latest[r]
             => latest[r] # None /\ latest'[r] # None /\ Own(r, latest'[r])
        /\ \A r \in Recipe : approved'[r] # approved[r] /\ approved'[r] # None
             => Own(r, approved'[r]) /\ approved'[r] = j.revision
    BY <1>5, <1>6, <2>1, <2>6
  <2>8. j.revision \in decided'.reviewed /\ decided.reviewed \subseteq decided'.reviewed
    BY <2>2
  <2>9. job'[h] = None /\ (\A g \in Handler \ {h} : job'[g] = job[g]) /\ revision' = revision
    BY <1>4, <2>1
  <2>10. \A v \in Revision : enabled'[v] /\ ~enabled[v]
           => v \in decided'.reviewed /\ (~Renames => MaybeOn(revision[v].recipe))
    BY <1>5, <2>3, <2>4, <2>6, <2>8
  <2> QED BY <1>1, <1>3, <2>5, <2>7, <2>8, <2>9, <2>10, WriteKeeps
<1>13. ASSUME WriteRejection(h), ~Abandon(h)
       PROVE  IInv'
  <2>1. /\ WriteRecipe(j.recipe, j.latest, j.approved) /\ Done(h)
        /\ j.op # "revise" /\ UNCHANGED <<revision, enabled, decided>>
    BY <1>13 DEF WriteRejection, At
  <2>2. /\ \A r \in Recipe : latest'[r] # latest[r]
             => latest[r] # None /\ latest'[r] # None /\ Own(r, latest'[r])
        /\ \A r \in Recipe : approved'[r] # approved[r] /\ approved'[r] # None
             => Own(r, approved'[r]) /\ approved'[r] \in decided.reviewed
    BY <1>5, <1>6, <2>1
  <2> QED BY <1>1, <1>3, <1>4, <1>7, <2>1, <2>2, WriteKeeps
<1>14. CASE WriteClosing(h)
  <2>1. /\ WriteRecipe(j.recipe, j.latest, j.approved) /\ Done(h)
        /\ j.op # "revise" /\ UNCHANGED <<revision, enabled, decided>>
    BY <1>14 DEF WriteClosing, At
  <2>2. /\ \A r \in Recipe : latest'[r] # latest[r]
             => latest[r] # None /\ latest'[r] # None /\ Own(r, latest'[r])
        /\ \A r \in Recipe : approved'[r] # approved[r] /\ approved'[r] # None
             => Own(r, approved'[r]) /\ approved'[r] \in decided.reviewed
    BY <1>5, <1>6, <2>1
  <2> QED BY <1>1, <1>3, <1>4, <1>7, <2>1, <2>2, WriteKeeps
<1>15. CASE WriteAnnotation(h)
  <2>1. /\ enabled' = [enabled EXCEPT ![j.revision] = j.on] /\ Done(h)
        /\ j.op = "annotate" /\ UNCHANGED <<latest, approved, revision, decided>>
    BY <1>15 DEF WriteAnnotation, At
  <2>2. \A v \in Revision : enabled'[v] /\ ~enabled[v] => v = j.revision /\ j.on
    BY <1>3, <2>1 DEF IInv, TypeOK
  <2>3. j.on => j.revision \in decided.reviewed /\ MaybeOn(j.recipe)
    BY <1>3, <2>1 DEF JobRight, MaybeOn, AtWork
  <2>4. job'[h] = None /\ (\A g \in Handler \ {h} : job'[g] = job[g]) /\ j.op # "revise"
    BY <1>4, <2>1
  <2>5. \A v \in Revision : enabled'[v] /\ ~enabled[v]
          => v \in decided'.reviewed /\ (~Renames => MaybeOn(revision[v].recipe))
    BY <1>5, <2>1, <2>2, <2>3, <2>4
  <2> QED BY <1>1, <1>3, <1>7, <2>1, <2>4, <2>5, WriteKeeps
<1> QED BY <1>2, <1>8, <1>9, <1>10, <1>11, <1>12, <1>13, <1>14, <1>15 DEF Writes

-----------------------------------------------------------------------------
LEMMA InitInvariant == Init => IInv
<1> SUFFICES ASSUME Init PROVE IInv
  OBVIOUS
<1>1. TypeOK
  BY InitTyped
<1>2. AtWork = {}
  BY DEF Init, AtWork
<1> QED BY <1>1, <1>2 DEF Init, IInv, Rows, Jobs, Apart, OneChild, SameName,
                          OneOfNamesakes, MaybeOn, Own

LEMMA StepInvariant == IInv /\ [Next]_vars => IInv'
<1> SUFFICES ASSUME IInv, [Next]_vars PROVE IInv'
  OBVIOUS
<1>1. ASSUME NEW h \in Handler, Loads(h) \/ Checks(h) \/ Writes(h)
      PROVE  IInv'
  BY <1>1, LoadsKeep, ChecksKeep, WritesKeep
<1>2. CASE UNCHANGED vars
  BY <1>2 DEF vars, IInv, TypeOK, Rows, Jobs, JobRight, Apart, OneChild, SameName,
              OneOfNamesakes, Namesakes, MaybeOn, AtWork, Own
<1> QED BY <1>1, <1>2 DEF Next

LEMMA Invariance == Spec => []IInv
BY InitInvariant, StepInvariant, PTL DEF Spec

\* Rows, requests and what handlers carry keep their types, under any number of
\* handlers: models.py writes no column with what it cannot hold.
THEOREM TypeCorrect == Spec => []TypeOK
<1>1. IInv => TypeOK
  BY DEF IInv
<1> QED BY <1>1, Invariance, PTL

\* Whatever handlers write back over each other, what is in force or enabled was
\* once approved.
THEOREM ReviewedInForce == Spec => []OnlyReviewedInForce
<1>1. IInv => OnlyReviewedInForce
  <2> SUFFICES ASSUME IInv PROVE OnlyReviewedInForce
    OBVIOUS
  <2>1. \A v \in Revision : v # None
    BY ConstantsAssumption
  <2> QED BY <2>1 DEF IInv, Rows, OnlyReviewedInForce
<1> QED BY <1>1, Invariance, PTL

\* The unique parent keeps the history of a recipe from forking, and no writing
\* back makes a recipe name the revision of another.
THEOREM NeverForks == Spec => []NoFork
<1>1. IInv => NoFork
  BY DEF IInv, OneChild, Rows, Own, NoFork
<1> QED BY <1>1, Invariance, PTL

\* If no recipe is renamed, two recipes of one name are never enabled together,
\* though validate_arguments and the saving it guards are not one step.
THEOREM UniqueNamesOn == Spec => []NamesUniqueOn
<1>1. IInv => NamesUniqueOn
  <2> SUFFICES ASSUME IInv, ~Renames, NEW r \in Recipe, NEW s \in Recipe, r # s,
                      On(r), On(s),
                      revision[approved[r]].content.action = "rollout",
                      revision[approved[r]].content = revision[approved[s]].content
               PROVE  FALSE
    BY DEF NamesUniqueOn
  <2>1. /\ approved[r] \in Revision /\ Own(r, approved[r]) /\ enabled[approved[r]]
        /\ approved[s] \in Revision /\ Own(s, approved[s]) /\ enabled[approved[s]]
    BY DEF On, IInv, Rows, TypeOK
  <2>2. MaybeOn(r) /\ MaybeOn(s) /\ Namesakes(r, s)
    BY <2>1 DEF MaybeOn, Namesakes
  <2> QED BY <2>2 DEF IInv, OneOfNamesakes
<1> QED BY <1>1, Invariance, PTL
=============================================================================

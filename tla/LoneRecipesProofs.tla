-------------------------- MODULE LoneRecipesProofs --------------------------
(***************************************************************************)
(* Theorems about RequestRaces where handlers keep out of each other's     *)
(* way: a recipe that never had two of them at once is as if its requests  *)
(* had been served one by one, however many served the other recipes.      *)
(***************************************************************************)
EXTENDS RequestRacesProofs

-----------------------------------------------------------------------------
(* The inductive invariant, beside IInv.                                   *)

\* The revision whose request a handler carries.
About(j) == IF j.op = "revise" THEN j.latest ELSE j.revision

Refers(q, v) ==
  \/ request[v] # None /\ request[v].id = q
  \/ \E h \in AtWork : job[h].request = q /\ About(job[h]) = v

\* The id of a request, in its row or carried by a handler, stands for one revision.
OneRevision ==
  /\ \A q \in RequestId, v, w \in Revision : Refers(q, v) /\ Refers(q, w) => v = w
  /\ \A h \in AtWork : job[h].request # None => About(job[h]) # None

\* met has the recipes of any two handlers at work.
Together ==
  /\ \A r, s \in Recipe : <<r, s>> \in met => <<s, r>> \in met
  /\ \A g, h \in AtWork : g # h => <<job[g].recipe, job[h].recipe>> \in met

Parents ==
  \A v \in Revision : revision[v] # None /\ revision[v].parent # None =>
    revision[revision[v].parent] # None

\* Nothing the only handler of a recipe has loaded has gone out of date.
Current(j) ==
  /\ j.latest = latest[j.recipe]
  /\ j.approved = approved[j.recipe]
  /\ j.op \in {"enable", "disable"} => j.revision = approved[j.recipe]
  /\ j.op = "annotate" => j.on = enabled[j.revision]
  /\ j.op = "approve" /\ j.pc = "checked" => (j.on <=> On(j.recipe))
  /\ j.op \in {"revise", "approve", "reject", "close"} /\ j.request # None
       => request[About(j)] = [id |-> j.request, status |-> "pending"]

AllCurrent == \A h \in AtWork : Alone(job[h].recipe) => Current(job[h])

\* What NothingLost says, of every revision that was ever approved.
Kept(r) ==
  /\ latest[r] # None => IsNewest(latest[r])
  /\ approved[r] = decided.inForce[r]
  /\ \A v \in decided.reviewed : Own(r, v) =>
       request[v] # None /\ request[v].status = "approved"
  /\ On(r) <=> decided.on[r]

AllKept == \A r \in Recipe : Alone(r) => Kept(r)

\* Rollout and rollback of one name.
Opposed(c, d) == c.action # d.action /\ c.name = d.name

Strangers(r, s) == r # s /\ Alone(r) /\ Alone(s) /\ <<r, s>> \notin met

\* Past the check that lets a recipe be on, the check still holds.
Screened ==
  \A h \in AtWork :
    /\ job[h].pc = "checked"
    /\ job[h].op = "enable" \/ (job[h].op = "approve" /\ job[h].on)
    => \A s \in Recipe : Strangers(job[h].recipe, s) /\ On(s)
         => ~Opposed(job[h].content, revision[approved[s]].content)

NoPairOn ==
  \A r, s \in Recipe : Strangers(r, s) /\ On(r) /\ On(s) =>
    ~Opposed(revision[approved[r]].content, revision[approved[s]].content)

\* The recipe has a revision of this content, or a handler past its check stores one.
Holds(r, c) ==
  \/ \E v \in Revision : Own(r, v) /\ revision[v].content = c
  \/ \E h \in AtWork : /\ job[h].op = "revise" /\ job[h].pc = "checked"
                       /\ job[h].recipe = r /\ job[h].content = c

Rollout(n) == [action |-> "rollout", name |-> n]
Rollback(n) == [action |-> "rollback", name |-> n]

HasRollout ==
  ~Renames => \A r \in Recipe, n \in Name : Holds(r, Rollback(n)) =>
    \E v \in Revision : revision[v] # None /\ revision[v].content = Rollout(n)

OneHolder ==
  ~Renames => \A r, s \in Recipe, n \in Name :
    r # s /\ <<r, s>> \notin met => ~(Holds(r, Rollout(n)) /\ Holds(s, Rollout(n)))

KInv == /\ OneRevision /\ Together /\ Parents /\ AllCurrent /\ AllKept
        /\ Screened /\ NoPairOn /\ HasRollout /\ OneHolder

-----------------------------------------------------------------------------
(* What the invariant says of a handler.                                   *)

LEMMA JobFacts ==
  ASSUME IInv, NEW h \in AtWork
  PROVE  /\ h \in Handler /\ job[h] \in Job /\ JobRight(job[h])
         /\ job[h].recipe \in Recipe /\ job[h].revision \in Revision
         /\ job[h].content \in Content /\ job[h].on \in BOOLEAN
         /\ job[h].latest \in Revision \cup {None}
         /\ job[h].approved \in Revision \cup {None}
         /\ job[h].request \in RequestId \cup {None}
BY DEF AtWork, IInv, TypeOK, Jobs, Job

LEMMA AboutOwn ==
  ASSUME IInv, OneRevision, NEW h \in AtWork, job[h].request # None
  PROVE  About(job[h]) \in Revision /\ Own(job[h].recipe, About(job[h]))
<1>1. About(job[h]) # None
  BY DEF OneRevision
<1>2. CASE job[h].op = "revise"
  BY <1>1, <1>2, JobFacts DEF About, JobRight
<1>3. CASE job[h].op # "revise"
  BY <1>1, <1>3, JobFacts DEF About, JobRight
<1> QED BY <1>2, <1>3

LEMMA OwnOnce ==
  ASSUME NEW r, NEW s, NEW v, Own(r, v), Own(s, v)
  PROVE  r = s
BY DEF Own

\* The columns of a recipe name its own revisions.
LEMMA Columns ==
  ASSUME IInv, NEW r \in Recipe
  PROVE  /\ latest[r] # None => latest[r] \in Revision /\ Own(r, latest[r])
         /\ approved[r] # None => /\ approved[r] \in Revision /\ Own(r, approved[r])
                                  /\ approved[r] \in decided.reviewed
         /\ On(r) => approved[r] # None /\ enabled[approved[r]]
         /\ latest[r] = None => approved[r] = None
BY DEF IInv, Rows, TypeOK, Own, On

\* Forgetting a request takes at most the one that the handler is about.
LEMMA Forgets ==
  ASSUME IInv, OneRevision, NEW h \in AtWork, Forget(job[h].request), NEW v \in Revision
  PROVE  /\ request'[v] # None => request'[v] = request[v]
         /\ request'[v] # request[v] =>
              /\ job[h].request # None
              /\ v = About(job[h])
              /\ request[v].id = job[h].request
<1>1. request'[v] = IF request[v] # None /\ request[v].id = job[h].request
                    THEN None ELSE request[v]
  BY DEF Forget
<1>2. ASSUME request[v] # None, request[v].id = job[h].request
      PROVE  job[h].request # None /\ v = About(job[h])
  <2>1. request[v].id \in RequestId /\ request[v].id # None
    BY <1>2, ConstantsAssumption DEF IInv, TypeOK, Request
  <2>2. About(job[h]) \in Revision
    BY <1>2, <2>1, AboutOwn
  <2>3. Refers(job[h].request, v) /\ Refers(job[h].request, About(job[h]))
    BY <1>2 DEF Refers
  <2> QED BY <1>2, <2>1, <2>2, <2>3 DEF OneRevision
<1> QED BY <1>1, <1>2
-----------------------------------------------------------------------------
(* Loading.                                                                *)

\* A handler that loads has seen rows of this moment, and carries a pending
\* request or one that nobody has heard of.
Loading(h, op, r, v, q, c) ==
  /\ Load(h, op, r, v, q, c)
  /\ op # "revise" => Own(r, v)
  /\ op \in {"enable", "disable"} => v = approved[r]
  /\ q # None =>
       \/ op = "request" /\ \A w \in Revision : ~Refers(q, w)
       \/ LET w == IF op = "revise" THEN latest[r] ELSE v
          IN /\ op # "request" /\ w \in Revision
             /\ request[w] = [id |-> q, status |-> "pending"]

LEMMA PendingIs ==
  ASSUME TypeOK, NEW v \in Revision \cup {None}, NEW q, q # None, PendingRequest(v) = q
  PROVE  v \in Revision /\ request[v] = [id |-> q, status |-> "pending"]
BY DEF PendingRequest, TypeOK, Request

LEMMA LoadsAre ==
  ASSUME IInv, NEW h \in Handler, Loads(h)
  PROVE  \E op \in Op, r \in Recipe, v \in Revision, q \in RequestId \cup {None},
            c \in Content : Loading(h, op, r, v, q, c)
<1> DEFINE Found == \E op \in Op, r \in Recipe, v \in Revision,
                       q \in RequestId \cup {None}, c \in Content : Loading(h, op, r, v, q, c)
<1>1. ASSUME NEW r \in Recipe, NEW v \in Revision, NEW c \in Content, LoadCreate(h, r, v, c)
      PROVE  Found
  <2>1. Loading(h, "revise", r, v, None, c)
    BY <1>1 DEF LoadCreate, Loading
  <2> QED BY <2>1 DEF Op
<1>2. ASSUME NEW r \in Recipe, NEW v \in Revision, NEW c \in Content, LoadRevise(h, r, v, c)
      PROVE  Found
  <2> DEFINE q == PendingRequest(latest[r])
  <2>1. latest[r] \in Revision \cup {None}
    BY DEF IInv, TypeOK
  <2>2. q \in RequestId \cup {None}
    BY <2>1, PendingTyped DEF IInv
  <2>3. q # None => /\ latest[r] \in Revision
                    /\ request[latest[r]] = [id |-> q, status |-> "pending"]
    BY <2>1, PendingIs DEF IInv
  <2>4. Loading(h, "revise", r, v, q, c)
    BY <1>2, <2>3 DEF LoadRevise, Loading
  <2> HIDE DEF q
  <2> QED BY <2>2, <2>4 DEF Op
<1>3. ASSUME NEW v \in Revision, NEW q \in RequestId, LoadRequest(h, v, q)
      PROVE  Found
  <2>1. revision[v].recipe \in Recipe /\ revision[v].content \in Content
    BY <1>3 DEF LoadRequest, IInv, TypeOK, Row
  <2>2. \A w \in Revision : ~Refers(q, w)
    BY <1>3 DEF LoadRequest, UnusedRequest, Refers
  <2>3. Loading(h, "request", revision[v].recipe, v, q, revision[v].content)
    BY <1>3, <2>2 DEF LoadRequest, Loading, Own
  <2> QED BY <2>1, <2>3 DEF Op
<1>4. ASSUME NEW v \in Revision, NEW op \in {"approve", "reject", "close"},
             LoadReview(h, op, v)
      PROVE  Found
  <2>1. revision[v].recipe \in Recipe /\ revision[v].content \in Content
    BY <1>4 DEF LoadReview, IInv, TypeOK, Row
  <2>2. PendingRequest(v) = request[v].id /\ request[v].id \in RequestId
    BY <1>4 DEF LoadReview, PendingRequest, IInv, TypeOK, Request
  <2>3. request[v] = [id |-> request[v].id, status |-> "pending"]
    BY <1>4, <2>2, PendingIs DEF LoadReview, IInv
  <2>4. Loading(h, op, revision[v].recipe, v, request[v].id, revision[v].content)
    BY <1>4, <2>3 DEF LoadReview, Loading, Own
  <2> QED BY <2>1, <2>2, <2>4 DEF Op
<1>5. ASSUME NEW v \in Revision, LoadAnnotate(h, v)
      PROVE  Found
  <2>1. revision[v].recipe \in Recipe /\ revision[v].content \in Content
    BY <1>5 DEF LoadAnnotate, IInv, TypeOK, Row
  <2>2. Loading(h, "annotate", revision[v].recipe, v, None, revision[v].content)
    BY <1>5 DEF LoadAnnotate, Loading, Own
  <2> QED BY <2>1, <2>2 DEF Op
<1>6. ASSUME NEW r \in Recipe, NEW op \in {"enable", "disable"}, LoadSwitch(h, op, r)
      PROVE  Found
  <2>1. approved[r] \in Revision /\ revision[approved[r]] # None /\ Own(r, approved[r])
    BY <1>6, Columns DEF LoadSwitch, Own
  <2>2. revision[approved[r]].content \in Content
    BY <2>1 DEF IInv, TypeOK, Row
  <2>3. Loading(h, op, r, approved[r], None, revision[approved[r]].content)
    BY <1>6, <2>1 DEF LoadSwitch, Loading
  <2> QED BY <2>1, <2>2, <2>3 DEF Op
<1> QED BY <1>1, <1>2, <1>3, <1>4, <1>5, <1>6 DEF Loads

LEMMA LoadsKeepLone ==
  ASSUME IInv, KInv, NEW h \in Handler, Loads(h)
  PROVE  KInv'
<1>1. PICK op \in Op, r \in Recipe, v \in Revision, q \in RequestId \cup {None},
           c \in Content : Loading(h, op, r, v, q, c)
  BY LoadsAre
<1> DEFINE new == [op |-> op, pc |-> "loaded", recipe |-> r, revision |-> v, request |-> q,
                   content |-> c, latest |-> latest[r], approved |-> approved[r],
                   on |-> enabled[v]]
<1>2. /\ new \in Job /\ new # None
      /\ job[h] = None /\ job'[h] = new
      /\ \A g \in Handler \ {h} : job'[g] = job[g]
      /\ UNCHANGED <<latest, approved, revision, enabled, request, decided>>
      /\ met' = met \cup UNION {{<<r, job[g].recipe>>, <<job[g].recipe, r>>} : g \in AtWork}
  <2>1. new \in Job
    BY DEF Job, IInv, TypeOK
  <2> QED BY <1>1, <2>1, ConstantsAssumption DEF Loading, Load, IInv, TypeOK, database
<1>3. /\ h \notin AtWork
      /\ AtWork' = AtWork \cup {h}
      /\ \A g \in AtWork : job'[g] = job[g]
  BY <1>2 DEF AtWork
<1>4. /\ met \subseteq met'
      /\ \A g \in AtWork : <<r, job[g].recipe>> \in met' /\ <<job[g].recipe, r>> \in met'
      /\ \A s, t : <<s, t>> \in met' =>
           \/ <<s, t>> \in met
           \/ \E g \in AtWork : (s = r /\ t = job[g].recipe) \/ (t = r /\ s = job[g].recipe)
  <2> DEFINE pairs == UNION {{<<r, job[g].recipe>>, <<job[g].recipe, r>>} : g \in AtWork}
  <2>1. \A p : p \in pairs <=>
          \E g \in AtWork : p = <<r, job[g].recipe>> \/ p = <<job[g].recipe, r>>
    OBVIOUS
  <2>2. met' = met \cup pairs
    BY <1>2
  <2> HIDE DEF pairs
  <2>3. \A s, t : <<s, t>> \in pairs =>
          \E g \in AtWork : (s = r /\ t = job[g].recipe) \/ (t = r /\ s = job[g].recipe)
    BY <2>1
  <2> QED BY <2>1, <2>2, <2>3
<1>5. /\ new.op = op /\ new.pc = "loaded" /\ new.recipe = r /\ new.revision = v
      /\ new.request = q /\ new.latest = latest[r] /\ new.approved = approved[r]
      /\ new.on = enabled[v]
  OBVIOUS
<1> HIDE DEF new
<1>6. \A s \in Recipe : Alone(s)' => Alone(s)
  BY <1>4 DEF Alone
<1>7. \A s, t \in Recipe : Strangers(s, t)' => Strangers(s, t)
  BY <1>4, <1>6 DEF Strangers
<1>8. OneRevision'
  <2>1. ASSUME NEW p \in RequestId, NEW w \in Revision, Refers(p, w)'
        PROVE  Refers(p, w) \/ (p = q /\ op = "request" /\ w = v)
    <3>1. CASE request[w] # None /\ request[w].id = p
      BY <3>1 DEF Refers
    <3>2. CASE \E g \in AtWork : job[g].request = p /\ About(job[g]) = w
      BY <3>2 DEF Refers
    <3>3. CASE new.request = p /\ About(new) = w
      <4>1. CASE op = "request"
        BY <1>5, <3>3, <4>1 DEF About
      <4>2. CASE op # "request"
        <5>1. q # None /\ p = q
          BY <1>5, <3>3, ConstantsAssumption
        <5>2. w = IF op = "revise" THEN latest[r] ELSE v
          BY <1>5, <3>3 DEF About
        <5>3. request[w] = [id |-> q, status |-> "pending"]
          BY <1>1, <4>2, <5>1, <5>2 DEF Loading
        <5>4. request[w] # None
          <6>1. request[w] \in Request
            BY <5>1, <5>3, <3>3 DEF Request, Status
          <6> QED BY <6>1, ConstantsAssumption
        <5> QED BY <5>1, <5>3, <5>4 DEF Refers
      <4> QED BY <4>1, <4>2
    <3> QED BY <1>2, <1>3, <2>1, <3>1, <3>2, <3>3 DEF Refers
  <2>2. op = "request" /\ q # None => \A w \in Revision : ~Refers(q, w)
    BY <1>1 DEF Loading
  <2>3. \A p \in RequestId : p # None
    BY ConstantsAssumption
  <2>4. ASSUME NEW p \in RequestId, NEW w \in Revision, NEW x \in Revision,
               Refers(p, w)', Refers(p, x)'
        PROVE  w = x
    BY <2>1, <2>2, <2>3, <2>4 DEF KInv, OneRevision
  <2>5. ASSUME NEW g \in AtWork', job'[g].request # None
        PROVE  About(job'[g]) # None
    <3>1. CASE g \in AtWork
      BY <1>3, <2>5, <3>1 DEF KInv, OneRevision
    <3>2. CASE g = h
      BY <1>1, <1>2, <1>5, <2>5, <3>2, ConstantsAssumption DEF Loading, About
    <3> QED BY <1>3, <3>1, <3>2
  <2> QED BY <2>4, <2>5 DEF OneRevision, About
<1>9. Together'
  <2>1. ASSUME NEW f \in AtWork', NEW g \in AtWork', f # g
        PROVE  <<job'[f].recipe, job'[g].recipe>> \in met'
    <3>1. CASE f = h
      BY <1>2, <1>3, <1>4, <1>5, <2>1, <3>1
    <3>2. CASE g = h
      BY <1>2, <1>3, <1>4, <1>5, <2>1, <3>2
    <3>3. CASE f \in AtWork /\ g \in AtWork
      BY <1>3, <1>4, <2>1, <3>3 DEF KInv, Together
    <3> QED BY <1>3, <3>1, <3>2, <3>3
  <2>2. ASSUME NEW s \in Recipe, NEW t \in Recipe, <<s, t>> \in met'
        PROVE  <<t, s>> \in met'
    BY <1>4, <2>2 DEF KInv, Together
  <2> QED BY <2>1, <2>2 DEF Together
<1>10. Parents'
  BY <1>2 DEF KInv, Parents
<1>11. AllCurrent'
  <2>1. ASSUME NEW g \in AtWork, Alone(job[g].recipe)'
        PROVE  Current(job[g])'
    <3>1. Alone(job[g].recipe)
      BY <1>3, <1>6, <2>1, JobFacts DEF Alone
    <3>2. Current(job[g])
      BY <3>1 DEF KInv, AllCurrent
    <3> QED BY <1>2, <1>3, <3>2 DEF Current, On, About
  <2>2. Current(job[h])'
    <3>1. q # None /\ op # "request" => request[About(new)] = [id |-> q, status |-> "pending"]
      BY <1>1, <1>5 DEF Loading, About
    <3>2. op \in {"enable", "disable"} => v = approved[r]
      BY <1>1 DEF Loading
    <3> QED BY <1>2, <1>5, <3>1, <3>2 DEF Current, On, About
  <2> QED BY <1>3, <2>1, <2>2 DEF AllCurrent
<1>12. AllKept'
  <2>1. ASSUME NEW s \in Recipe, Alone(s)'
        PROVE  Kept(s)'
    <3>1. Kept(s)
      BY <1>6, <2>1 DEF KInv, AllKept
    <3> QED BY <1>2, <3>1 DEF Kept, IsNewest, Own, On
  <2> QED BY <2>1 DEF AllKept
<1>13. Screened'
  <2>1. ASSUME NEW g \in AtWork', job'[g].pc = "checked",
               job'[g].op = "enable" \/ (job'[g].op = "approve" /\ job'[g].on),
               NEW s \in Recipe, Strangers(job[g].recipe, s)', On(s)'
        PROVE  ~Opposed(job'[g].content, revision'[approved'[s]].content)
    <3>1. g \in AtWork /\ job'[g] = job[g]
      BY <1>2, <1>3, <1>5, <2>1
    <3>2. Strangers(job[g].recipe, s) /\ On(s)
      BY <1>2, <1>7, <2>1, <3>1, JobFacts DEF On
    <3> QED BY <1>2, <2>1, <3>1, <3>2 DEF KInv, Screened, Opposed
  <2> QED BY <2>1 DEF Screened, Opposed
<1>14. NoPairOn'
  BY <1>2, <1>7 DEF KInv, NoPairOn, On, Opposed
<1>15. ASSUME NEW s \in Recipe, NEW d, Holds(s, d)'
       PROVE  Holds(s, d)
  BY <1>2, <1>3, <1>5, <1>15 DEF Holds, Own
<1>16. HasRollout'
  BY <1>2, <1>15 DEF KInv, HasRollout, Rollout, Rollback
<1>17. OneHolder'
  BY <1>4, <1>15 DEF KInv, OneHolder, Rollout
<1> QED BY <1>8, <1>9, <1>10, <1>11, <1>12, <1>13, <1>14, <1>16, <1>17 DEF KInv

-----------------------------------------------------------------------------
(* Checking.                                                               *)

\* A handler that goes away, or goes on: what it then is sure of.
LEMMA ChecksAre ==
  ASSUME IInv, NEW h \in Handler, Checks(h)
  PROVE  /\ h \in AtWork
         /\ UNCHANGED <<latest, approved, revision, enabled, request, decided, met>>
         /\ \A g \in Handler \ {h} : job'[g] = job[g]
         /\ job'[h] # None =>
              /\ job'[h].pc = "checked"
              /\ job'[h].op = job[h].op /\ job'[h].recipe = job[h].recipe
              /\ job'[h].revision = job[h].revision /\ job'[h].request = job[h].request
              /\ job'[h].content = job[h].content
              /\ job[h].op \in {"revise", "annotate"} =>
                   /\ job'[h].latest = job[h].latest /\ job'[h].approved = job[h].approved
                   /\ job'[h].on = job[h].on
                   /\ Valid(job[h].content, job[h].recipe)
              /\ job[h].op \in {"enable", "disable"} =>
                   /\ job'[h].latest = latest[job[h].recipe]
                   /\ job'[h].approved = approved[job[h].recipe]
                   /\ job[h].revision = approved[job[h].recipe]
                   /\ job[h].op = "enable" => NoConflict(job[h].content, job[h].recipe)
              /\ job[h].op \notin {"revise", "annotate", "enable", "disable"} =>
                   /\ job[h].op = "approve"
                   /\ job'[h].latest = job[h].latest /\ job'[h].approved = job[h].approved
                   /\ job'[h].on <=> job[h].approved # None /\ enabled[job[h].approved]
                   /\ job'[h].on => NoConflict(job[h].content, job[h].recipe)
<1> DEFINE j == job[h]
<1>1. h \in AtWork /\ j \in Job
  BY DEF Checks, CheckArguments, CheckSwitch, CheckApprove, At, AtWork, IInv, TypeOK
<1>2. Abandon(h) => job'[h] = None /\ (\A g \in Handler \ {h} : job'[g] = job[g])
                    /\ UNCHANGED <<latest, approved, revision, enabled, request, decided, met>>
  BY DEF Abandon, database, IInv, TypeOK
<1>3. ASSUME CheckArguments(h), ~Abandon(h)
      PROVE  /\ job'[h] = [j EXCEPT !.pc = "checked"] /\ j.op \in {"revise", "annotate"}
             /\ Valid(j.content, j.recipe)
             /\ \A g \in Handler \ {h} : job'[g] = job[g]
             /\ UNCHANGED <<latest, approved, revision, enabled, request, decided, met>>
  BY <1>3 DEF CheckArguments, At, database, IInv, TypeOK
<1>4. ASSUME CheckSwitch(h), ~Abandon(h)
      PROVE  /\ job'[h] = [j EXCEPT !.pc = "checked", !.latest = latest[j.recipe],
                                    !.approved = approved[j.recipe]]
             /\ j.op \in {"enable", "disable"}
             /\ j.op = "enable" => NoConflict(j.content, j.recipe)
             /\ approved[j.recipe] = j.revision
             /\ \A g \in Handler \ {h} : job'[g] = job[g]
             /\ UNCHANGED <<latest, approved, revision, enabled, request, decided, met>>
  BY <1>4 DEF CheckSwitch, At, database, IInv, TypeOK
<1> DEFINE carry == j.approved # None /\ enabled[j.approved]
<1>5. ASSUME CheckApprove(h), ~Abandon(h)
      PROVE  /\ job'[h] = [j EXCEPT !.pc = "checked", !.on = carry]
             /\ j.op = "approve"
             /\ carry => NoConflict(j.content, j.recipe)
             /\ \A g \in Handler \ {h} : job'[g] = job[g]
             /\ UNCHANGED <<latest, approved, revision, enabled, request, decided, met>>
  <2>1. /\ job' = [job EXCEPT ![h] = [j EXCEPT !.pc = "checked", !.on = carry]]
        /\ j.op = "approve"
        /\ carry => NoConflict(j.content, j.recipe)
        /\ UNCHANGED <<database, met, decided>>
    BY <1>5 DEF CheckApprove, At
  <2> HIDE DEF carry
  <2> QED BY <2>1 DEF database, IInv, TypeOK
<1>6. CASE Abandon(h)
  BY <1>1, <1>2, <1>6
<1>7. CASE CheckArguments(h) /\ ~Abandon(h)
  BY <1>1, <1>3, <1>7 DEF Job
<1>8. CASE CheckSwitch(h) /\ ~Abandon(h)
  BY <1>1, <1>4, <1>8 DEF Job
<1>9. CASE CheckApprove(h) /\ ~Abandon(h)
  <2>1. /\ job'[h].pc = "checked" /\ job'[h].on = carry
        /\ job'[h].op = j.op /\ job'[h].recipe = j.recipe
        /\ job'[h].revision = j.revision /\ job'[h].request = j.request
        /\ job'[h].content = j.content
        /\ job'[h].latest = j.latest /\ job'[h].approved = j.approved
    BY <1>1, <1>5, <1>9 DEF Job
  <2> QED BY <1>1, <1>5, <1>9, <2>1
<1> QED BY <1>6, <1>7, <1>8, <1>9 DEF Checks

\* What the check of a rollout and its rollback finds.
LEMMA ConflictFound ==
  ASSUME IInv, NEW r \in Recipe, NEW s \in Recipe, r # s, NEW c \in Content,
         NoConflict(c, r), On(s)
  PROVE  ~Opposed(c, revision[approved[s]].content)
<1> DEFINE d == revision[approved[s]].content
<1>1. approved[s] # None /\ d \in Content
  BY Columns DEF IInv, TypeOK, Row, Own
<1>2. d.action \in {"rollout", "rollback"} /\ d = [action |-> d.action, name |-> d.name]
  BY <1>1 DEF Content
<1>3. ASSUME Opposed(c, d)
      PROVE  FALSE
  <2>1. d = [action |-> d.action, name |-> c.name] /\ d.action # c.action
    BY <1>2, <1>3 DEF Opposed
  <2>2. Named(approved[s], d.action, c.name)
    BY <1>1, <2>1 DEF Named
  <2> QED BY <1>2, <2>1, <2>2 DEF NoConflict
<1> QED BY <1>3

\* What validation finds of contents that another recipe holds.
LEMMA HolderFound ==
  ASSUME IInv, ~Renames, NEW r \in Recipe, NEW s \in Recipe, r # s, NEW n \in Name,
         Valid(Rollout(n), r), NEW v \in Revision, Own(s, v),
         revision[v].content = Rollout(n)
  PROVE  FALSE
<1>1. latest[s] # None /\ latest[s] \in Revision /\ Own(s, latest[s])
  BY Columns DEF IInv, Rows, Own
<1>2. revision[latest[s]].content = Rollout(n)
  BY <1>1 DEF IInv, SameName, Own
<1>3. Named(latest[s], "rollout", n)
  BY <1>1, <1>2 DEF Named, Rollout
<1> QED BY <1>3 DEF Valid, Rollout

LEMMA RolloutFound ==
  ASSUME IInv, NEW r \in Recipe, NEW n \in Name, Valid(Rollback(n), r)
  PROVE  \E v \in Revision : revision[v] # None /\ revision[v].content = Rollout(n)
<1>1. PICK s \in Recipe : Named(latest[s], "rollout", n)
  BY DEF Valid, Rollback
<1>2. latest[s] \in Revision /\ Own(s, latest[s])
  BY <1>1, Columns DEF Named
<1> QED BY <1>1, <1>2 DEF Named, Own, Rollout

LEMMA ChecksKeepLone ==
  ASSUME IInv, KInv, NEW h \in Handler, Checks(h)
  PROVE  KInv'
<1> DEFINE j == job[h]
           k == job'[h]
<1>1. /\ h \in AtWork
      /\ UNCHANGED <<latest, approved, revision, enabled, request, decided, met>>
      /\ \A g \in Handler \ {h} : job'[g] = job[g]
      /\ k # None =>
           /\ k.pc = "checked"
           /\ k.op = j.op /\ k.recipe = j.recipe /\ k.revision = j.revision
           /\ k.request = j.request /\ k.content = j.content
           /\ j.op = "revise" => k.latest = j.latest
  BY ChecksAre
<1>2. /\ AtWork' \subseteq AtWork
      /\ \A g \in AtWork \ {h} : g \in AtWork' /\ job'[g] = job[g]
      /\ h \in AtWork' => k # None /\ About(k) = About(j)
  BY <1>1 DEF AtWork, About
<1>3. /\ \A s \in Recipe : Alone(s)' <=> Alone(s)
      /\ \A s, t \in Recipe : Strangers(s, t)' <=> Strangers(s, t)
      /\ \A s \in Recipe : On(s)' <=> On(s)
  BY <1>1 DEF Alone, Strangers, On
<1>4. OneRevision'
  <2>1. \A q \in RequestId, w \in Revision : Refers(q, w)' => Refers(q, w)
    BY <1>1, <1>2 DEF Refers, About
  <2>2. \A g \in AtWork' : job'[g].request # None => About(job'[g]) # None
    BY <1>1, <1>2 DEF KInv, OneRevision
  <2> QED BY <2>1, <2>2 DEF KInv, OneRevision, About
<1>5. Together' /\ Parents'
  BY <1>1, <1>2 DEF KInv, Together, Parents
<1>6. AllCurrent'
  <2>1. ASSUME NEW g \in AtWork', g # h, Alone(job[g].recipe)'
        PROVE  Current(job[g])'
    <3>1. Current(job[g])
      BY <1>1, <1>2, <2>1 DEF Alone, KInv, AllCurrent
    <3> QED BY <1>1, <1>2, <2>1, <3>1 DEF Current, On, About
  <2>2. ASSUME h \in AtWork', Alone(job[h].recipe)'
        PROVE  Current(job[h])'
    <3>1. k # None /\ Current(j)
      BY <1>1, <1>2, <2>2 DEF Alone, KInv, AllCurrent
    <3>2. /\ k.latest = latest[j.recipe] /\ k.approved = approved[j.recipe]
          /\ j.op = "annotate" => k.on = j.on
          /\ j.op = "approve" => (k.on <=> On(j.recipe))
          /\ j.op \in {"enable", "disable"} => k.revision = approved[j.recipe]
      BY <3>1, ChecksAre, JobFacts DEF Current, On
    <3> QED BY <1>1, <1>2, <3>1, <3>2 DEF Current, On, About
  <2> QED BY <2>1, <2>2 DEF AllCurrent
<1>7. AllKept'
  BY <1>1 DEF KInv, AllKept, Kept, Alone, IsNewest, Own, On
<1>8. Screened'
  <2>1. ASSUME NEW g \in AtWork', job'[g].pc = "checked",
               job'[g].op = "enable" \/ (job'[g].op = "approve" /\ job'[g].on),
               NEW s \in Recipe, Strangers(job[g].recipe, s)', On(s)'
        PROVE  ~Opposed(job'[g].content, revision'[approved'[s]].content)
    <3>1. CASE g # h
      <4>1. g \in AtWork /\ job'[g] = job[g] /\ Strangers(job[g].recipe, s) /\ On(s)
        BY <1>1, <1>2, <1>3, <2>1, <3>1, JobFacts DEF Strangers, Alone
      <4> QED BY <1>1, <2>1, <4>1 DEF KInv, Screened, Opposed
    <3>2. CASE g = h
      <4>1. /\ k # None /\ j.recipe # s /\ On(s)
            /\ j.recipe \in Recipe /\ j.content \in Content
        BY <1>1, <1>2, <1>3, <2>1, <3>2, JobFacts DEF Strangers
      <4>2. NoConflict(j.content, j.recipe)
        BY <1>1, <2>1, <3>2, <4>1, ChecksAre
      <4> QED BY <1>1, <3>2, <4>1, <4>2, ConflictFound DEF Opposed
    <3> QED BY <3>1, <3>2
  <2> QED BY <2>1 DEF Screened, Opposed
<1>9. NoPairOn'
  BY <1>1, <1>3 DEF KInv, NoPairOn, Opposed
<1>10. ASSUME NEW s \in Recipe, NEW d, Holds(s, d)'
       PROVE  Holds(s, d) \/ (s = j.recipe /\ d = j.content /\ j.op = "revise"
                                /\ Valid(j.content, j.recipe))
  <2>1. CASE \E v \in Revision : Own(s, v) /\ revision[v].content = d
    BY <2>1 DEF Holds
  <2>2. CASE \E g \in AtWork' : /\ job'[g].op = "revise" /\ job'[g].pc = "checked"
                                /\ job'[g].recipe = s /\ job'[g].content = d
    <3>1. PICK g \in AtWork' : /\ job'[g].op = "revise" /\ job'[g].pc = "checked"
                               /\ job'[g].recipe = s /\ job'[g].content = d
      BY <2>2
    <3>2. CASE g # h
      BY <1>1, <1>2, <3>1, <3>2 DEF Holds
    <3>3. CASE g = h
      BY <1>1, <1>2, <3>1, <3>3, ChecksAre
    <3> QED BY <3>2, <3>3
  <2> QED BY <1>1, <1>10, <2>1, <2>2 DEF Holds, Own
<1>11. HasRollout'
  <2>1. ASSUME ~Renames, NEW s \in Recipe, NEW n \in Name, Holds(s, Rollback(n))'
        PROVE  \E v \in Revision : revision[v] # None /\ revision[v].content = Rollout(n)
    <3>1. Holds(s, Rollback(n)) \/ Valid(Rollback(n), s)
      BY <1>10, <2>1
    <3> QED BY <2>1, <3>1, RolloutFound DEF KInv, HasRollout
  <2> QED BY <1>1, <2>1 DEF HasRollout, Rollback, Rollout
<1>12. OneHolder'
  <2>1. ASSUME ~Renames, NEW s \in Recipe, NEW t \in Recipe, NEW n \in Name, s # t,
               <<s, t>> \notin met, <<t, s>> \notin met,
               Holds(t, Rollout(n)), s = j.recipe, Valid(Rollout(n), s)
        PROVE  FALSE
    <3>1. CASE \E v \in Revision : Own(t, v) /\ revision[v].content = Rollout(n)
      BY <2>1, <3>1, HolderFound
    <3>2. CASE \E g \in AtWork : job[g].recipe = t
      BY <1>1, <2>1, <3>2 DEF KInv, Together
    <3> QED BY <2>1, <3>1, <3>2 DEF Holds
  <2>2. ASSUME ~Renames, NEW s \in Recipe, NEW t \in Recipe, NEW n \in Name, s # t,
               <<s, t>> \notin met, Holds(s, Rollout(n))', Holds(t, Rollout(n))'
        PROVE  FALSE
    <3>1. <<t, s>> \notin met
      BY <2>2 DEF KInv, Together
    <3>2. Holds(s, Rollout(n)) \/ (s = j.recipe /\ Valid(Rollout(n), s))
      BY <1>10, <2>2
    <3>3. Holds(t, Rollout(n)) \/ (t = j.recipe /\ Valid(Rollout(n), t))
      BY <1>10, <2>2
    <3> QED BY <2>1, <2>2, <3>1, <3>2, <3>3 DEF KInv, OneHolder
  <2> QED BY <1>1, <2>2 DEF OneHolder, Rollout
<1> QED BY <1>4, <1>5, <1>6, <1>7, <1>8, <1>9, <1>11, <1>12 DEF KInv

-----------------------------------------------------------------------------
(* Writing.                                                                *)

Unchanged(s) ==
  /\ latest'[s] = latest[s] /\ approved'[s] = approved[s]
  /\ decided'.inForce[s] = decided.inForce[s] /\ decided'.on[s] = decided.on[s]

Untouched(v) ==
  /\ enabled'[v] = enabled[v] /\ request'[v] = request[v]
  /\ v \in decided'.reviewed <=> v \in decided.reviewed

\* Whatever a handler writes, it writes no row of a recipe it is not about.
LEMMA WritesAre ==
  ASSUME IInv, OneRevision, NEW h \in Handler, Writes(h)
  PROVE  /\ h \in AtWork
         /\ met' = met
         /\ \A g \in Handler \ {h} : job'[g] = job[g]
         /\ job'[h] # None => /\ job'[h] = [job[h] EXCEPT !.pc = "written"]
                              /\ job[h].op \in {"request", "enable", "disable"}
         /\ \A s \in Recipe \ {job[h].recipe} : Unchanged(s)
         /\ \A v \in Revision : ~Own(job[h].recipe, v) => Untouched(v)
         /\ \A v \in Revision : revision'[v] # revision[v] =>
              /\ v = job[h].revision /\ revision[v] = None /\ revision'[v] # None
              /\ job[h].op = "revise" /\ job[h].pc = "checked"
              /\ revision'[v] = [recipe |-> job[h].recipe, parent |-> job[h].latest,
                                 content |-> job[h].content]
         /\ \A v \in Revision : request'[v] # None =>
              \/ request'[v] = request[v]
              \/ v = About(job[h]) /\ job[h].request # None /\ request'[v].id = job[h].request
<1> DEFINE j == job[h]
<1>1. h \in AtWork
  BY DEF Writes, WriteRevision, WriteRequest, WriteSwitch, WriteBack, WriteApproval,
         WriteRejection, WriteClosing, WriteAnnotation, At, AtWork
<1>2. /\ j \in Job /\ JobRight(j) /\ j.recipe \in Recipe /\ j.revision \in Revision
      /\ j # None /\ j.content \in Content /\ j.latest \in Revision \cup {None}
      /\ j.op # "revise" => Own(j.recipe, j.revision)
  BY <1>1, JobFacts DEF AtWork, JobRight
<1>3. Done(h) => /\ job'[h] = None /\ met' = met
                 /\ \A g \in Handler \ {h} : job'[g] = job[g]
  BY DEF Done, IInv, TypeOK
<1>4. ASSUME NEW l, NEW a, WriteRecipe(j.recipe, l, a)
      PROVE  \A s \in Recipe \ {j.recipe} : latest'[s] = latest[s] /\ approved'[s] = approved[s]
  BY <1>2, <1>4 DEF WriteRecipe, IInv, TypeOK
<1>5. ASSUME Forget(j.request)
      PROVE  \A v \in Revision : /\ ~Own(j.recipe, v) => request'[v] = request[v]
                                 /\ request'[v] # None => request'[v] = request[v]
  <2>1. \A v \in Revision : request'[v] # None => request'[v] = request[v]
    BY <1>1, <1>5, Forgets
  <2>2. \A v \in Revision : request'[v] # request[v] => Own(j.recipe, v)
    BY <1>1, <1>5, Forgets, AboutOwn
  <2> QED BY <2>1, <2>2
<1>6. CASE Abandon(h)
  BY <1>1, <1>6 DEF Abandon, database, Unchanged, Untouched, IInv, TypeOK
<1>7. CASE WriteRevision(h) /\ ~Abandon(h)
  <2> DEFINE new == [recipe |-> j.recipe, parent |-> j.latest, content |-> j.content]
  <2>1. /\ revision' = [revision EXCEPT ![j.revision] = new] /\ Forget(j.request)
        /\ WriteRecipe(j.recipe, j.revision, j.approved) /\ Done(h)
        /\ UNCHANGED <<enabled, decided>> /\ j.op = "revise" /\ j.pc = "checked"
    BY <1>7 DEF WriteRevision, At
  <2>2. new # None
    <3>1. new \in Row
      BY <1>2 DEF Row
    <3> QED BY <3>1, ConstantsAssumption
  <2>3. revision[j.revision] = None
    BY <1>2, <2>1 DEF JobRight
  <2>4. \A v \in Revision : revision'[v] = IF v = j.revision THEN new ELSE revision[v]
    BY <2>1 DEF IInv, TypeOK
  <2> HIDE DEF new
  <2>5. \A v \in Revision : revision'[v] # revision[v] =>
          v = j.revision /\ revision[v] = None /\ revision'[v] # None /\ revision'[v] = new
    BY <2>2, <2>3, <2>4
  <2> QED BY <1>1, <1>3, <1>4, <1>5, <2>1, <2>5 DEF Unchanged, Untouched, new
<1>8. CASE WriteRequest(h) /\ ~Abandon(h)
  <2>1. /\ request' = [request EXCEPT ![j.revision] = [id |-> j.request, status |-> "pending"]]
        /\ job' = [job EXCEPT ![h].pc = "written"] /\ j.op = "request"
        /\ UNCHANGED <<latest, approved, revision, enabled, met, decided>>
    BY <1>8 DEF WriteRequest, At
  <2>2. /\ \A v \in Revision \ {j.revision} : request'[v] = request[v]
        /\ request'[j.revision].id = j.request
        /\ job'[h] = [j EXCEPT !.pc = "written"]
        /\ \A g \in Handler \ {h} : job'[g] = job[g]
    BY <1>2, <2>1 DEF IInv, TypeOK
  <2>3. j.request # None /\ About(j) = j.revision
    BY <1>2, <2>1 DEF JobRight, About
  <2> QED BY <1>1, <1>2, <2>1, <2>2, <2>3 DEF Unchanged, Untouched
<1>9. CASE WriteSwitch(h)
  <2>1. /\ enabled' = [enabled EXCEPT ![j.revision] = (j.op = "enable")]
        /\ decided' = [decided EXCEPT !.on[j.recipe] = (j.op = "enable")]
        /\ job' = [job EXCEPT ![h].pc = "written"] /\ j.op \in {"enable", "disable"}
        /\ UNCHANGED <<latest, approved, revision, request, met>>
    BY <1>9 DEF WriteSwitch, At
  <2>2. /\ \A v \in Revision \ {j.revision} : enabled'[v] = enabled[v]
        /\ \A s \in Recipe \ {j.recipe} : decided'.on[s] = decided.on[s]
        /\ decided'.inForce = decided.inForce /\ decided'.reviewed = decided.reviewed
        /\ job'[h] = [j EXCEPT !.pc = "written"]
        /\ \A g \in Handler \ {h} : job'[g] = job[g]
    BY <1>2, <2>1 DEF IInv, TypeOK
  <2> QED BY <1>1, <1>2, <2>1, <2>2 DEF Unchanged, Untouched
<1>10. CASE WriteBack(h)
  BY <1>1, <1>3, <1>4, <1>10 DEF WriteBack, Unchanged, Untouched
<1>11. CASE WriteApproval(h)
  <2>1. /\ request' = [request EXCEPT ![j.revision] = [id |-> j.request, status |-> "approved"]]
        /\ WriteRecipe(j.recipe, j.latest, j.revision)
        /\ enabled' = [enabled EXCEPT ![j.revision] = @ \/ j.on]
        /\ decided' = [decided EXCEPT !.inForce[j.recipe] = j.revision,
                                      !.reviewed = @ \cup {j.revision}]
        /\ Done(h) /\ UNCHANGED revision /\ j.op = "approve"
    BY <1>11 DEF WriteApproval, At
  <2>2. /\ \A v \in Revision \ {j.revision} : enabled'[v] = enabled[v]
        /\ \A v \in Revision \ {j.revision} : request'[v] = request[v]
        /\ request'[j.revision].id = j.request
        /\ \A s \in Recipe \ {j.recipe} : decided'.inForce[s] = decided.inForce[s]
        /\ decided'.on = decided.on
        /\ decided'.reviewed = decided.reviewed \cup {j.revision}
    BY <1>2, <2>1 DEF IInv, TypeOK
  <2>3. j.request # None /\ About(j) = j.revision
    BY <1>2, <2>1 DEF JobRight, About
  <2> QED BY <1>1, <1>2, <1>3, <1>4, <2>1, <2>2, <2>3 DEF Unchanged, Untouched
<1>12. CASE WriteRejection(h) /\ ~Abandon(h)
  <2>1. /\ request' = [request EXCEPT ![j.revision] = [id |-> j.request, status |-> "rejected"]]
        /\ WriteRecipe(j.recipe, j.latest, j.approved) /\ Done(h)
        /\ UNCHANGED <<revision, enabled, decided>> /\ j.op = "reject"
    BY <1>12 DEF WriteRejection, At
  <2>2. /\ \A v \in Revision \ {j.revision} : request'[v] = request[v]
        /\ request'[j.revision].id = j.request
    BY <1>2, <2>1 DEF IInv, TypeOK
  <2>3. j.request # None /\ About(j) = j.revision
    BY <1>2, <2>1 DEF JobRight, About
  <2> QED BY <1>1, <1>2, <1>3, <1>4, <2>1, <2>2, <2>3 DEF Unchanged, Untouched
<1>13. CASE WriteClosing(h)
  BY <1>1, <1>3, <1>4, <1>5, <1>13 DEF WriteClosing, Unchanged, Untouched
<1>14. CASE WriteAnnotation(h)
  <2>1. /\ enabled' = [enabled EXCEPT ![j.revision] = j.on] /\ Done(h) /\ j.op = "annotate"
        /\ UNCHANGED <<latest, approved, revision, request, decided>>
    BY <1>14 DEF WriteAnnotation, At
  <2>2. \A v \in Revision \ {j.revision} : enabled'[v] = enabled[v]
    BY <1>2, <2>1 DEF IInv, TypeOK
  <2> QED BY <1>1, <1>2, <1>3, <2>1, <2>2 DEF Unchanged, Untouched
<1> QED BY <1>6, <1>7, <1>8, <1>9, <1>10, <1>11, <1>12, <1>13, <1>14 DEF Writes

\* A write that keeps a recipe's columns and its approved requests.
LEMMA StillKept ==
  ASSUME NEW r \in Recipe, Kept(r), revision' = revision,
         latest'[r] = latest[r], approved'[r] = approved[r],
         decided'.inForce[r] = decided.inForce[r], decided'.reviewed = decided.reviewed,
         On(r)' <=> decided'.on[r],
         \A v \in decided.reviewed : Own(r, v) => request'[v] = request[v]
  PROVE  Kept(r)'
BY DEF Kept, IsNewest, Own

\* What the recipe of a writing handler, or of another, has enabled.
StaysOn(r) == On(r) /\ revision'[approved'[r]].content = revision[approved[r]].content

\* A handler alone with its recipe leaves it as it should be, and puts on only
\* what passed the check.
LEMMA LoneWrite ==
  ASSUME IInv, KInv, NEW h \in Handler, Writes(h),
         NEW r \in Recipe, r = job[h].recipe, Alone(r)
  PROVE  /\ Kept(r)'
         /\ job'[h] # None => Current(job[h])'
         /\ On(r)' =>
              \/ StaysOn(r)
              \/ /\ job[h].pc = "checked"
                 /\ job[h].op = "enable" \/ (job[h].op = "approve" /\ job[h].on)
                 /\ revision'[approved'[r]].content = job[h].content
<1> DEFINE j == job[h]
<1>1. h \in AtWork /\ OneRevision
  BY WritesAre DEF KInv
<1>2. /\ j \in Job /\ JobRight(j) /\ j.recipe = r /\ j.revision \in Revision
      /\ j # None /\ j.content \in Content /\ j.on \in BOOLEAN
      /\ j.latest \in Revision \cup {None} /\ j.approved \in Revision \cup {None}
      /\ j.op # "revise" => Own(r, j.revision) /\ j.content = revision[j.revision].content
  BY <1>1, JobFacts DEF AtWork, JobRight
<1>3. Current(j) /\ Kept(r)
  BY <1>1, <1>2 DEF KInv, AllCurrent, AllKept
<1>4. /\ j.latest = latest[r] /\ j.approved = approved[r]
      /\ j.op \in {"enable", "disable"} => j.revision = approved[r]
      /\ j.op = "annotate" => j.on = enabled[j.revision]
      /\ j.op = "approve" /\ j.pc = "checked" => (j.on <=> On(r))
      /\ j.op \in {"revise", "approve", "reject", "close"} /\ j.request # None
           => request[About(j)] = [id |-> j.request, status |-> "pending"]
  BY <1>3 DEF Current
<1>5. \A v \in decided.reviewed : v \in Revision
  BY DEF IInv, TypeOK
<1>6. \A v \in decided.reviewed : Own(r, v) =>
        request[v] # None /\ request[v].status = "approved"
  BY <1>3 DEF Kept
<1>7. Done(h) => job'[h] = None
  BY DEF Done, IInv, TypeOK
<1>8. ASSUME NEW l, NEW a, WriteRecipe(r, l, a)
      PROVE  latest'[r] = l /\ approved'[r] = a
  BY <1>2, <1>8 DEF WriteRecipe, IInv, TypeOK
<1>9. ASSUME Forget(j.request), j.op \in {"revise", "close"}
      PROVE  \A v \in decided.reviewed : Own(r, v) => request'[v] = request[v]
  BY <1>1, <1>4, <1>5, <1>6, <1>9, Forgets
<1>10. On(r) <=> decided.on[r]
  BY <1>3 DEF Kept
<1>11. approved[r] # None => approved[r] \in Revision /\ Own(r, approved[r])
  BY <1>2, Columns
<1>12. CASE Abandon(h)
  <2>1. UNCHANGED <<latest, approved, revision, enabled, request, decided>> /\ job'[h] = None
    BY <1>12 DEF Abandon, database, IInv, TypeOK
  <2>2. (On(r)' <=> On(r)) /\ (On(r) => StaysOn(r))
    BY <2>1 DEF On, StaysOn
  <2> QED BY <1>2, <1>3, <1>10, <2>1, <2>2, StillKept DEF Own
<1>13. CASE WriteRevision(h) /\ ~Abandon(h)
  <2> DEFINE new == [recipe |-> r, parent |-> j.latest, content |-> j.content]
  <2>1. /\ revision' = [revision EXCEPT ![j.revision] = new] /\ Forget(j.request)
        /\ WriteRecipe(r, j.revision, j.approved) /\ Done(h)
        /\ UNCHANGED <<enabled, decided>> /\ j.op = "revise"
    BY <1>13 DEF WriteRevision, At
  <2>2. /\ revision[j.revision] = None
        /\ j.latest # None => Own(r, j.latest)
    BY <1>2, <2>1 DEF JobRight
  <2>3. \A v \in Revision : revision'[v] = IF v = j.revision THEN new ELSE revision[v]
    BY <2>1 DEF IInv, TypeOK
  <2>4. latest'[r] = j.revision /\ approved'[r] = approved[r]
    BY <1>4, <1>8, <2>1
  <2>5. IsNewest(latest[r])'
    <3>1. ASSUME NEW w \in Revision, revision[w] # None
          PROVE  revision[w].parent # j.revision
      BY <1>2, <2>2, <3>1, ConstantsAssumption DEF KInv, Parents
    <3>2. new.parent # j.revision
      BY <1>2, <2>2, ConstantsAssumption DEF Own
    <3> HIDE DEF new
    <3> QED BY <2>3, <2>4, <3>1, <3>2 DEF IsNewest
  <2>6. \A v \in decided.reviewed : Own(r, v)' => Own(r, v)
    <3>1. \A v \in decided.reviewed : revision[v] # None
      BY DEF IInv, Rows
    <3> QED BY <1>5, <2>2, <2>3, <3>1 DEF Own
  <2>7. \A v \in decided.reviewed : Own(r, v)' =>
          request'[v] # None /\ request'[v].status = "approved"
    BY <1>6, <1>9, <2>1, <2>6
  <2>8. On(r)' <=> On(r)
    BY <2>1, <2>4 DEF On
  <2>9. Kept(r)'
    BY <1>3, <1>10, <2>1, <2>4, <2>5, <2>7, <2>8 DEF Kept
  <2>10. On(r) => StaysOn(r)
    <3>1. On(r) => approved[r] # None /\ revision[approved[r]] # None
      BY <1>11 DEF On, Own
    <3> QED BY <1>11, <2>2, <2>3, <2>4, <3>1 DEF StaysOn
  <2> QED BY <1>7, <2>1, <2>8, <2>9, <2>10
<1>14. CASE WriteRequest(h) /\ ~Abandon(h)
  <2>1. /\ request' = [request EXCEPT ![j.revision] = [id |-> j.request, status |-> "pending"]]
        /\ job' = [job EXCEPT ![h].pc = "written"] /\ j.op = "request"
        /\ request[j.revision] = None
        /\ UNCHANGED <<latest, approved, revision, enabled, met, decided>>
    BY <1>14 DEF WriteRequest, At
  <2>2. \A v \in Revision \ {j.revision} : request'[v] = request[v]
    BY <2>1 DEF IInv, TypeOK
  <2>3. (On(r)' <=> On(r)) /\ (On(r) => StaysOn(r))
    BY <2>1 DEF On, StaysOn
  <2>4. \A v \in decided.reviewed : Own(r, v) => request'[v] = request[v]
    BY <1>5, <1>6, <2>1, <2>2
  <2>5. Kept(r)'
    BY <1>2, <1>3, <1>10, <2>1, <2>3, <2>4, StillKept
  <2>6. job'[h] = [j EXCEPT !.pc = "written"]
    BY <2>1 DEF IInv, TypeOK
  <2>7. Current(job[h])'
    <3>1. /\ job'[h].op = "request" /\ job'[h].recipe = r
          /\ job'[h].latest = j.latest /\ job'[h].approved = j.approved
      BY <1>2, <2>1, <2>6 DEF Job
    <3> QED BY <1>4, <2>1, <3>1 DEF Current
  <2> QED BY <2>3, <2>5, <2>7
<1>15. CASE WriteSwitch(h)
  <2>1. /\ enabled' = [enabled EXCEPT ![j.revision] = (j.op = "enable")]
        /\ decided' = [decided EXCEPT !.on[r] = (j.op = "enable")]
        /\ job' = [job EXCEPT ![h].pc = "written"] /\ j.op \in {"enable", "disable"}
        /\ j.pc = "checked"
        /\ UNCHANGED <<latest, approved, revision, request, met>>
    BY <1>15 DEF WriteSwitch, At
  <2>2. /\ enabled'[j.revision] = (j.op = "enable") /\ decided'.on[r] = (j.op = "enable")
        /\ decided'.inForce = decided.inForce /\ decided'.reviewed = decided.reviewed
        /\ job'[h] = [j EXCEPT !.pc = "written"]
    BY <1>2, <2>1 DEF IInv, TypeOK
  <2>3. approved'[r] = j.revision /\ j.revision # None
    BY <1>2, <1>4, <2>1, ConstantsAssumption
  <2>4. On(r)' <=> j.op = "enable"
    BY <2>2, <2>3 DEF On
  <2>5. Kept(r)'
    BY <1>2, <1>3, <2>1, <2>2, <2>4, StillKept
  <2>6. Current(job[h])'
    <3>1. /\ job'[h].op = j.op /\ job'[h].recipe = r /\ job'[h].revision = j.revision
          /\ job'[h].latest = j.latest /\ job'[h].approved = j.approved
      BY <1>2, <2>2 DEF Job
    <3> QED BY <1>4, <2>1, <3>1 DEF Current
  <2> QED BY <1>2, <2>1, <2>3, <2>4, <2>5, <2>6
<1>16. ASSUME latest'[r] = latest[r], approved'[r] = approved[r],
              UNCHANGED <<revision, enabled, decided>>, job'[h] = None,
              \A v \in decided.reviewed : Own(r, v) => request'[v] = request[v]
       PROVE  Kept(r)' /\ (On(r)' => StaysOn(r))
  <2>1. (On(r)' <=> On(r)) /\ (On(r) => StaysOn(r))
    BY <1>16 DEF On, StaysOn
  <2> QED BY <1>2, <1>3, <1>10, <1>16, <2>1, StillKept
<1>17. CASE WriteBack(h)
  BY <1>4, <1>7, <1>8, <1>16, <1>17 DEF WriteBack
<1>18. CASE WriteApproval(h)
  <2>1. /\ request' = [request EXCEPT ![j.revision] = [id |-> j.request, status |-> "approved"]]
        /\ WriteRecipe(r, j.latest, j.revision)
        /\ enabled' = [enabled EXCEPT ![j.revision] = @ \/ j.on]
        /\ decided' = [decided EXCEPT !.inForce[r] = j.revision,
                                      !.reviewed = @ \cup {j.revision}]
        /\ Done(h) /\ UNCHANGED revision /\ j.op = "approve" /\ j.pc = "checked"
    BY <1>18 DEF WriteApproval, At
  <2>2. /\ latest'[r] = latest[r] /\ approved'[r] = j.revision /\ j.revision # None
        /\ decided'.inForce[r] = j.revision /\ decided'.on = decided.on
        /\ decided'.reviewed = decided.reviewed \cup {j.revision}
        /\ enabled'[j.revision] <=> enabled[j.revision] \/ j.on
        /\ \A v \in Revision : request'[v] =
             IF v = j.revision THEN [id |-> j.request, status |-> "approved"] ELSE request[v]
    BY <1>2, <1>4, <1>8, <2>1, ConstantsAssumption DEF IInv, TypeOK
  <2>3. request'[j.revision] # None
    <3>1. [id |-> j.request, status |-> "approved"] \in Request
      BY <1>2, <2>1 DEF JobRight, Request, Status, Job
    <3> QED BY <1>2, <2>2, <3>1, ConstantsAssumption
  <2>4. ~enabled[j.revision]
    <3>1. j.request # None
      BY <1>2, <2>1 DEF JobRight
    <3>2. request[j.revision] = [id |-> j.request, status |-> "pending"]
      BY <1>4, <2>1, <3>1 DEF About
    <3>3. j.revision \notin decided.reviewed
      BY <1>2, <1>6, <2>1, <3>2
    <3> QED BY <1>2, <3>3 DEF IInv, Rows
  <2>5. On(r)' <=> j.on
    BY <2>2, <2>4 DEF On
  <2>6. \A v \in decided'.reviewed : Own(r, v)' =>
          request'[v] # None /\ request'[v].status = "approved"
    <3>1. request'[j.revision].status = "approved"
      BY <1>2, <2>2
    <3>2. \A v \in decided.reviewed \ {j.revision} : request'[v] = request[v]
      BY <1>5, <2>2
    <3> QED BY <1>6, <2>1, <2>2, <2>3, <3>1, <3>2 DEF Own
  <2>7. Kept(r)'
    BY <1>3, <1>4, <1>10, <2>1, <2>2, <2>5, <2>6 DEF Kept, IsNewest
  <2> QED BY <1>2, <1>7, <2>1, <2>2, <2>5, <2>7
<1>19. CASE WriteRejection(h) /\ ~Abandon(h)
  <2>1. /\ request' = [request EXCEPT ![j.revision] = [id |-> j.request, status |-> "rejected"]]
        /\ WriteRecipe(r, j.latest, j.approved) /\ Done(h)
        /\ UNCHANGED <<revision, enabled, decided>> /\ j.op = "reject"
    BY <1>19 DEF WriteRejection, At
  <2>2. \A v \in Revision \ {j.revision} : request'[v] = request[v]
    BY <2>1 DEF IInv, TypeOK
  <2>3. request[j.revision] = [id |-> j.request, status |-> "pending"]
    BY <1>2, <1>4, <2>1 DEF JobRight, About
  <2>4. \A v \in decided.reviewed : Own(r, v) => request'[v] = request[v]
    BY <1>5, <1>6, <2>2, <2>3
  <2> QED BY <1>4, <1>7, <1>8, <1>16, <2>1, <2>4
<1>20. CASE WriteClosing(h)
  <2>1. /\ Forget(j.request) /\ WriteRecipe(r, j.latest, j.approved) /\ Done(h)
        /\ UNCHANGED <<revision, enabled, decided>> /\ j.op = "close"
    BY <1>20 DEF WriteClosing, At
  <2> QED BY <1>4, <1>7, <1>8, <1>9, <1>16, <2>1
<1>21. CASE WriteAnnotation(h)
  <2>1. /\ enabled' = [enabled EXCEPT ![j.revision] = j.on] /\ Done(h) /\ j.op = "annotate"
        /\ UNCHANGED <<latest, approved, revision, request, decided>>
    BY <1>21 DEF WriteAnnotation, At
  <2>2. enabled' = enabled
    BY <1>4, <2>1 DEF IInv, TypeOK
  <2> QED BY <1>7, <1>16, <2>1, <2>2
<1> QED BY <1>12, <1>13, <1>14, <1>15, <1>17, <1>18, <1>19, <1>20, <1>21 DEF Writes

LEMMA WritesKeepLone ==
  ASSUME IInv, KInv, NEW h \in Handler, Writes(h)
  PROVE  KInv'
<1> DEFINE j == job[h]
<1>1. /\ h \in AtWork /\ OneRevision
      /\ met' = met
      /\ \A g \in Handler \ {h} : job'[g] = job[g]
      /\ job'[h] # None => /\ job'[h] = [j EXCEPT !.pc = "written"]
                           /\ j.op \in {"request", "enable", "disable"}
      /\ \A s \in Recipe \ {j.recipe} : Unchanged(s)
      /\ \A v \in Revision : ~Own(j.recipe, v) => Untouched(v)
      /\ \A v \in Revision : revision'[v] # revision[v] =>
           /\ v = j.revision /\ revision[v] = None /\ revision'[v] # None
           /\ j.op = "revise" /\ j.pc = "checked"
           /\ revision'[v] = [recipe |-> j.recipe, parent |-> j.latest,
                              content |-> j.content]
      /\ \A v \in Revision : request'[v] # None =>
           \/ request'[v] = request[v]
           \/ v = About(j) /\ j.request # None /\ request'[v].id = j.request
  BY WritesAre DEF KInv
<1>2. /\ j \in Job /\ JobRight(j) /\ j.recipe \in Recipe /\ j.revision \in Revision
      /\ j.content \in Content /\ j.latest \in Revision \cup {None}
  BY <1>1, JobFacts
<1>3. job'[h] # None =>
        /\ job'[h].op = j.op /\ job'[h].pc = "written" /\ job'[h].recipe = j.recipe
        /\ job'[h].revision = j.revision /\ job'[h].request = j.request
        /\ job'[h].content = j.content /\ job'[h].latest = j.latest
        /\ About(job'[h]) = About(j)
  BY <1>1, <1>2 DEF Job, About
<1>4. /\ AtWork' \subseteq AtWork
      /\ \A g \in AtWork \ {h} : g \in AtWork' /\ job'[g] = job[g]
      /\ h \in AtWork' => job'[h] # None
  BY <1>1 DEF AtWork
<1>5. /\ \A s \in Recipe : Alone(s)' <=> Alone(s)
      /\ \A s, t \in Recipe : Strangers(s, t)' <=> Strangers(s, t)
  BY <1>1 DEF Alone, Strangers
<1>6. \A v \in Revision : revision[v] # None => revision'[v] = revision[v]
  BY <1>1
<1>7. OneRevision'
  <2>1. ASSUME NEW q \in RequestId, NEW w \in Revision, Refers(q, w)'
        PROVE  Refers(q, w)
    <3>1. CASE request'[w] # None /\ request'[w].id = q
      BY <1>1, <3>1 DEF Refers
    <3>2. CASE \E g \in AtWork' : job'[g].request = q /\ About(job'[g]) = w
      BY <1>1, <1>3, <1>4, <3>2 DEF Refers
    <3> QED BY <2>1, <3>1, <3>2 DEF Refers, About
  <2>2. \A g \in AtWork' : job'[g].request # None => About(job'[g]) # None
    BY <1>1, <1>3, <1>4 DEF OneRevision
  <2> QED BY <1>1, <2>1, <2>2 DEF OneRevision, About
<1>8. Together'
  BY <1>1, <1>3, <1>4 DEF KInv, Together
<1>9. Parents'
  <2>1. ASSUME NEW v \in Revision, revision'[v] # None, revision'[v].parent # None
        PROVE  revision'[revision'[v].parent] # None
    <3>1. CASE revision'[v] = revision[v]
      <4>1. revision[v].parent \in Revision
        BY <2>1, <3>1 DEF IInv, TypeOK, Row
      <4> QED BY <1>6, <2>1, <3>1, <4>1 DEF KInv, Parents
    <3>2. CASE revision'[v] # revision[v]
      <4>1. revision'[v].parent = j.latest /\ j.latest \in Revision
        BY <1>1, <1>2, <2>1, <3>2
      <4>2. Own(j.recipe, j.latest)
        BY <1>2, <2>1, <4>1 DEF JobRight
      <4> QED BY <1>6, <4>1, <4>2 DEF Own
    <3> QED BY <3>1, <3>2
  <2> QED BY <2>1 DEF Parents
<1>10. ASSUME NEW s \in Recipe, s # j.recipe
       PROVE  /\ On(s)' <=> On(s)
              /\ On(s) => StaysOn(s)
  <2>1. approved'[s] = approved[s]
    BY <1>1, <1>10 DEF Unchanged
  <2>2. CASE approved[s] = None
    BY <2>1, <2>2 DEF On
  <2>3. CASE approved[s] # None
    <3>1. approved[s] \in Revision /\ Own(s, approved[s])
      BY <2>3, Columns
    <3>2. ~Own(j.recipe, approved[s])
      BY <1>10, <3>1, OwnOnce
    <3>3. enabled'[approved[s]] = enabled[approved[s]] /\ revision'[approved[s]] = revision[approved[s]]
      BY <1>1, <1>6, <3>1, <3>2 DEF Untouched, Own
    <3> QED BY <2>1, <3>3 DEF On, StaysOn
  <2> QED BY <2>2, <2>3
<1>11. ASSUME NEW s \in Recipe, s # j.recipe, Kept(s)
       PROVE  Kept(s)'
  <2>1. Unchanged(s) /\ (On(s)' <=> On(s))
    BY <1>1, <1>10, <1>11
  <2>2. \A v \in Revision : Own(s, v)' => Own(s, v)
    BY <1>1, <1>11 DEF Own
  <2>3. \A v \in decided'.reviewed : Own(s, v)' =>
          request'[v] # None /\ request'[v].status = "approved"
    <3>1. ASSUME NEW v \in decided'.reviewed, Own(s, v)'
          PROVE  request'[v] # None /\ request'[v].status = "approved"
      <4>1. v \in Revision
        BY WritesTyped DEF IInv, TypeOK
      <4>2. Own(s, v) /\ ~Own(j.recipe, v)
        BY <1>11, <2>2, <3>1, <4>1, OwnOnce
      <4> QED BY <1>1, <1>11, <3>1, <4>1, <4>2 DEF Untouched, Kept
    <3> QED BY <3>1
  <2>4. latest[s] # None => IsNewest(latest[s])'
    <3>1. ASSUME latest[s] # None, NEW w \in Revision, revision'[w] # None
          PROVE  revision'[w].parent # latest[s]
      <4>1. CASE revision'[w] = revision[w]
        BY <1>11, <3>1, <4>1 DEF Kept, IsNewest
      <4>2. CASE revision'[w] # revision[w]
        <5>1. revision'[w].parent = j.latest
          BY <1>1, <4>2
        <5>2. j.latest # None => Own(j.recipe, j.latest)
          BY <1>2 DEF JobRight
        <5>3. Own(s, latest[s])
          BY <3>1, Columns
        <5> QED BY <1>11, <3>1, <5>1, <5>2, <5>3, OwnOnce
      <4> QED BY <4>1, <4>2
    <3> QED BY <2>1, <3>1 DEF IsNewest, Unchanged
  <2> QED BY <1>11, <2>1, <2>3, <2>4 DEF Kept, Unchanged
<1>12. AllKept'
  <2>1. ASSUME NEW s \in Recipe, Alone(s)
        PROVE  Kept(s)'
    <3>1. CASE s = j.recipe
      BY <2>1, <3>1, LoneWrite
    <3>2. CASE s # j.recipe
      BY <1>11, <2>1, <3>2 DEF KInv, AllKept
    <3> QED BY <3>1, <3>2
  <2> QED BY <1>5, <2>1 DEF AllKept
<1>13. AllCurrent'
  <2>1. ASSUME NEW g \in AtWork', Alone(job[g].recipe)'
        PROVE  Current(job[g])'
    <3>1. CASE g = h
      <4>1. Alone(j.recipe) /\ job'[h] # None
        BY <1>1, <1>3, <1>4, <2>1, <3>1 DEF Alone
      <4> QED BY <1>2, <3>1, <4>1, LoneWrite
    <3>2. CASE g # h
      <4> DEFINE k == job[g]
      <4>1. g \in AtWork /\ job'[g] = k /\ Alone(k.recipe)
        BY <1>1, <1>4, <2>1, <3>2 DEF Alone
      <4>2. /\ k.recipe \in Recipe /\ k.revision \in Revision /\ JobRight(k)
            /\ k.op # "revise" => Own(k.recipe, k.revision)
            /\ k.request # None => About(k) \in Revision /\ Own(k.recipe, About(k))
        BY <1>1, <4>1, JobFacts, AboutOwn DEF JobRight
      <4>3. k.recipe # j.recipe
        BY <1>1, <3>2, <4>1 DEF KInv, Together, Alone
      <4>4. Current(k)
        BY <4>1 DEF KInv, AllCurrent
      <4>5. latest'[k.recipe] = latest[k.recipe] /\ approved'[k.recipe] = approved[k.recipe]
        BY <1>1, <4>2, <4>3 DEF Unchanged
      <4>6. approved[k.recipe] # None => enabled'[approved[k.recipe]] = enabled[approved[k.recipe]]
        <5>1. approved[k.recipe] # None =>
                approved[k.recipe] \in Revision /\ Own(k.recipe, approved[k.recipe])
          BY <4>2, Columns
        <5> QED BY <1>1, <4>2, <4>3, <5>1, OwnOnce DEF Untouched
      <4>7. /\ k.op = "annotate" => enabled'[k.revision] = enabled[k.revision]
            /\ k.request # None => request'[About(k)] = request[About(k)]
        BY <1>1, <4>2, <4>3, OwnOnce DEF Untouched
      <4> HIDE DEF k
      <4> QED BY <4>1, <4>4, <4>5, <4>6, <4>7 DEF Current, On, About
    <3> QED BY <3>1, <3>2
  <2> QED BY <2>1 DEF AllCurrent
<1>14. Screened'
  <2>1. ASSUME NEW g \in AtWork', job'[g].pc = "checked",
               job'[g].op = "enable" \/ (job'[g].op = "approve" /\ job'[g].on),
               NEW s \in Recipe, Strangers(job[g].recipe, s)', On(s)'
        PROVE  ~Opposed(job'[g].content, revision'[approved'[s]].content)
    <3>1. g # h
      BY <1>3, <1>4, <2>1
    <3>2. g \in AtWork /\ job'[g] = job[g] /\ Strangers(job[g].recipe, s)
      BY <1>1, <1>4, <2>1, <3>1 DEF Strangers, Alone
    <3>3. s # j.recipe
      BY <1>1, <3>1, <3>2 DEF KInv, Together, Strangers
    <3>4. On(s) /\ revision'[approved'[s]].content = revision[approved[s]].content
      BY <1>10, <2>1, <3>3 DEF StaysOn
    <3> QED BY <2>1, <3>2, <3>4 DEF KInv, Screened, Opposed
  <2> QED BY <2>1 DEF Screened, Opposed
<1>15. NoPairOn'
  <2>1. ASSUME NEW r \in Recipe, NEW s \in Recipe, r = j.recipe, Strangers(r, s),
               On(r)', On(s)'
        PROVE  ~Opposed(revision'[approved'[r]].content, revision'[approved'[s]].content)
    <3>1. On(s) /\ revision'[approved'[s]].content = revision[approved[s]].content
      BY <1>10, <2>1 DEF Strangers, StaysOn
    <3>2. CASE StaysOn(r)
      BY <2>1, <3>1, <3>2 DEF KInv, NoPairOn, StaysOn, Opposed
    <3>3. CASE /\ j.pc = "checked"
               /\ j.op = "enable" \/ (j.op = "approve" /\ j.on)
               /\ revision'[approved'[r]].content = j.content
      BY <1>1, <2>1, <3>1, <3>3 DEF KInv, Screened, Opposed
    <3> QED BY <2>1, <3>2, <3>3, LoneWrite DEF Strangers
  <2>2. ASSUME NEW r \in Recipe, NEW s \in Recipe, Strangers(r, s), On(r)', On(s)'
        PROVE  ~Opposed(revision'[approved'[r]].content, revision'[approved'[s]].content)
    <3>1. CASE r = j.recipe
      BY <2>1, <2>2, <3>1
    <3>2. CASE s = j.recipe
      <4>1. Strangers(s, r)
        BY <2>2 DEF KInv, Together, Strangers
      <4> QED BY <2>1, <2>2, <3>2, <4>1 DEF Opposed
    <3>3. CASE r # j.recipe /\ s # j.recipe
      <4>1. On(r) /\ On(s) /\ StaysOn(r) /\ StaysOn(s)
        BY <1>10, <2>2, <3>3
      <4> QED BY <2>2, <4>1 DEF KInv, NoPairOn, StaysOn, Opposed
    <3> QED BY <3>1, <3>2, <3>3
  <2> QED BY <1>5, <2>2 DEF NoPairOn, Opposed
<1>16. ASSUME NEW s \in Recipe, NEW d, Holds(s, d)'
       PROVE  Holds(s, d)
  <2>1. CASE \E v \in Revision : Own(s, v)' /\ revision'[v].content = d
    <3>1. PICK v \in Revision : Own(s, v)' /\ revision'[v].content = d
      BY <2>1
    <3>2. CASE revision'[v] = revision[v]
      BY <3>1, <3>2 DEF Holds, Own
    <3>3. CASE revision'[v] # revision[v]
      BY <1>1, <3>1, <3>3 DEF Holds, Own
    <3> QED BY <3>2, <3>3
  <2>2. CASE \E g \in AtWork' : /\ job'[g].op = "revise" /\ job'[g].pc = "checked"
                                /\ job'[g].recipe = s /\ job'[g].content = d
    BY <1>1, <1>3, <1>4, <2>2 DEF Holds
  <2> QED BY <1>16, <2>1, <2>2 DEF Holds
<1>17. HasRollout'
  <2>1. ASSUME ~Renames, NEW s \in Recipe, NEW n \in Name, Holds(s, Rollback(n))'
        PROVE  \E v \in Revision : revision'[v] # None /\ revision'[v].content = Rollout(n)
    <3>1. PICK v \in Revision : revision[v] # None /\ revision[v].content = Rollout(n)
      BY <1>16, <2>1 DEF KInv, HasRollout
    <3> QED BY <1>6, <3>1
  <2> QED BY <2>1 DEF HasRollout, Rollout, Rollback
<1>18. OneHolder'
  BY <1>1, <1>16 DEF KInv, OneHolder, Rollout
<1> QED BY <1>7, <1>8, <1>9, <1>12, <1>13, <1>14, <1>15, <1>17, <1>18 DEF KInv

-----------------------------------------------------------------------------
LEMMA InitLone == Init => KInv
<1> SUFFICES ASSUME Init PROVE KInv
  OBVIOUS
<1>1. /\ AtWork = {} /\ met = {}
      /\ \A v \in Revision : revision[v] = None /\ request[v] = None
      /\ \A r \in Recipe : latest[r] = None /\ approved[r] = None /\ ~decided.on[r]
                           /\ decided.inForce[r] = None
      /\ decided.reviewed = {}
  BY DEF Init, AtWork
<1>2. \A r \in Recipe : ~On(r)
  BY <1>1 DEF On
<1>3. OneRevision /\ Together /\ Parents /\ AllCurrent
  BY <1>1 DEF OneRevision, Refers, Together, Parents, AllCurrent
<1>4. AllKept /\ Screened /\ NoPairOn
  BY <1>1, <1>2 DEF AllKept, Kept, Screened, NoPairOn
<1>5. HasRollout /\ OneHolder
  BY <1>1 DEF HasRollout, OneHolder, Holds, Own
<1> QED BY <1>3, <1>4, <1>5 DEF KInv

LEMMA StepLone == IInv /\ KInv /\ [Next]_vars => KInv'
<1> SUFFICES ASSUME IInv, KInv, [Next]_vars PROVE KInv'
  OBVIOUS
<1>1. ASSUME NEW h \in Handler, Loads(h) \/ Checks(h) \/ Writes(h)
      PROVE  KInv'
  BY <1>1, LoadsKeepLone, ChecksKeepLone, WritesKeepLone
<1>2. CASE UNCHANGED vars
  <2>1. (OneRevision /\ Together /\ Parents)'
    BY <1>2 DEF vars, KInv, OneRevision, Refers, About, Together, Parents, AtWork
  <2>2. (AllCurrent /\ AllKept)'
    BY <1>2 DEF vars, KInv, AllCurrent, Current, AllKept, Kept, IsNewest, Alone, On, Own,
                About, AtWork
  <2>3. (Screened /\ NoPairOn)'
    BY <1>2 DEF vars, KInv, Screened, NoPairOn, Strangers, Opposed, Alone, On, AtWork
  <2>4. (HasRollout /\ OneHolder)'
    BY <1>2 DEF vars, KInv, HasRollout, OneHolder, Holds, Own, AtWork, Rollout, Rollback
  <2> QED BY <2>1, <2>2, <2>3, <2>4 DEF KInv
<1> QED BY <1>1, <1>2 DEF Next

LEMMA LoneInvariance == Spec => [](IInv /\ KInv)
BY InitInvariant, StepInvariant, InitLone, StepLone, PTL DEF Spec

\* A recipe whose handlers never met loses nothing to those of other recipes: its
\* newest revision is its latest, what was last approved is in force, its request
\* was not rejected or closed since, and it is on or off as was last asked for.
THEOREM LoneRecipesLoseNothing == Spec => []NothingLost
<1>1. IInv /\ KInv => NothingLost
  <2> SUFFICES ASSUME IInv, KInv, NEW r \in Recipe, Alone(r), latest[r] # None
               PROVE  /\ IsNewest(latest[r])
                      /\ approved[r] = decided.inForce[r]
                      /\ approved[r] # None => /\ request[approved[r]] # None
                                               /\ request[approved[r]].status = "approved"
                      /\ On(r) = decided.on[r]
    BY DEF NothingLost
  <2>1. Kept(r)
    BY DEF KInv, AllKept
  <2>2. approved[r] # None => Own(r, approved[r]) /\ approved[r] \in decided.reviewed
    BY Columns
  <2>3. On(r) \in BOOLEAN /\ decided.on[r] \in BOOLEAN
    BY DEF On, IInv, TypeOK
  <2> QED BY <2>1, <2>2, <2>3 DEF Kept
<1> QED BY <1>1, LoneInvariance, PTL

\* No rollout is enabled beside its rollback, if the handlers of the two recipes
\* never met: the check in enable() and approve() looks only at what is stored.
THEOREM PairsApart == Spec => []OnlyOneOfPair
<1>1. IInv /\ KInv => OnlyOneOfPair
  BY DEF KInv, NoPairOn, Strangers, Opposed, OnlyOneOfPair
<1> QED BY <1>1, LoneInvariance, PTL

\* A recipe that is on can be switched off: the arguments that were valid when its
\* content was stored, by whatever revision, are still valid.
THEOREM SwitchedOff == Spec => []CanSwitchOff
<1>1. IInv /\ KInv => CanSwitchOff
  <2> SUFFICES ASSUME IInv, KInv, ~Renames, NEW r \in Recipe, On(r),
                      \A s \in Recipe : <<r, s>> \notin met
               PROVE  Valid(revision[approved[r]].content, r)
    BY DEF CanSwitchOff
  <2> DEFINE c == revision[approved[r]].content
  <2>1. approved[r] \in Revision /\ Own(r, approved[r])
    BY Columns
  <2>2. c \in Content
    BY <2>1 DEF Own, IInv, TypeOK, Row
  <2>3. CASE c.action = "rollout"
    <3>1. ASSUME NEW s \in Recipe \ {r}, Named(latest[s], "rollout", c.name)
          PROVE  FALSE
      <4>1. latest[s] \in Revision /\ Own(s, latest[s])
        BY <3>1, Columns DEF Named
      <4>2. revision[latest[s]].content = Rollout(c.name) /\ c = Rollout(c.name)
        BY <2>2, <2>3, <3>1 DEF Named, Rollout, Content
      <4>3. Holds(s, Rollout(c.name)) /\ Holds(r, Rollout(c.name))
        BY <2>1, <4>1, <4>2 DEF Holds
      <4>4. c.name \in Name
        BY <2>2 DEF Content
      <4> QED BY <3>1, <4>3, <4>4 DEF KInv, OneHolder
    <3> QED BY <2>3, <3>1 DEF Valid
  <2>4. CASE c.action # "rollout"
    <3>1. c = Rollback(c.name) /\ c.name \in Name
      BY <2>2, <2>4 DEF Content, Rollback
    <3>2. Holds(r, Rollback(c.name))
      BY <2>1, <3>1 DEF Holds
    <3>3. PICK w \in Revision : revision[w] # None /\ revision[w].content = Rollout(c.name)
      BY <3>1, <3>2 DEF KInv, HasRollout
    <3> DEFINE s == revision[w].recipe
    <3>4. s \in Recipe /\ latest[s] # None
      BY <3>3 DEF IInv, TypeOK, Row, Rows
    <3>5. latest[s] \in Revision /\ Own(s, latest[s])
      BY <3>4, Columns
    <3>6. revision[latest[s]].content = Rollout(c.name)
      BY <3>3, <3>5 DEF IInv, SameName
    <3>7. Named(latest[s], "rollout", c.name)
      BY <3>4, <3>6 DEF Named, Rollout
    <3> QED BY <2>4, <3>4, <3>7 DEF Valid
  <2> QED BY <2>3, <2>4
<1> QED BY <1>1, LoneInvariance, PTL
=============================================================================

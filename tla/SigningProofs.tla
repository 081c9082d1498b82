---------------------------- MODULE SigningProofs ----------------------------
(***************************************************************************)
(* The invariants of Signing, for any actions, keys and ages.              *)
(***************************************************************************)
EXTENDS Signing, TLAPS

Hashed(row) ==
  row.implementation_hash = IF row.implementation = None THEN None
                            ELSE sri_hash(row.implementation)

\* A signature is of its row, and its key lives until the next is due.
Covered(a, row) ==
  row.signature # None =>
    /\ row.signature.data = canonical_json(a, row)
    /\ row.signature.timestamp <= day
    /\ Expiry[row.signature.x5u] >= row.signature.timestamp + MaxAge + Period

Rows == \A a \in Action : action[a] # None => Hashed(action[a]) /\ Covered(a, action[a])

RunRows == run # None => \A a \in DOMAIN run : Hashed(run[a])

\* What the run under way has no need to sign, or has signed, is young now;
\* everything was young when the last run ended.
Young ==
  /\ lastRun <= day
  /\ day <= lastRun + Period
  /\ \A a \in Action :
       action[a] # None /\ action[a].signature # None =>
         /\ action[a].signature.timestamp + MaxAge >= lastRun
         /\ (run # None /\ a \notin DOMAIN run)
              => action[a].signature.timestamp + MaxAge >= day

IInv == TypeOK /\ Rows /\ RunRows /\ ServedIsHashed /\ Young

----------------------------------------------------------------------------
LEMMA RunType ==
  ASSUME run \in Run \cup {None}, run # None
  PROVE  DOMAIN run \subseteq Action /\ \A a \in DOMAIN run : run[a] \in Row
BY DEF Run

LEMMA Canonical ==
  ASSUME NEW a \in Action, NEW row \in Row
  PROVE  canonical_json(a, row) \in Data
BY DEF canonical_json, implementation_url, Data, Row

\* Signing a row whose hash is computed.
LEMMA SignedRow ==
  ASSUME day \in Day, NEW a \in Action, NEW row \in Row, Hashed(row)
  PROVE  /\ update_signature(a, row) \in Row
         /\ Hashed(update_signature(a, row))
         /\ Covered(a, update_signature(a, row))
         /\ update_signature(a, row).signature # None
              => update_signature(a, row).signature.timestamp = day
<1> DEFINE sig == [data |-> canonical_json(a, row), x5u |-> KeyAt[day], timestamp |-> day]
           new == update_signature(a, row)
<1>1. sig \in Signature
  BY Canonical, KeysAssumption DEF Signature
<1>2. new = [row EXCEPT !.signature = IF AutographConfigured THEN sig ELSE None]
  BY DEF update_signature
<1>3. new \in Row
  BY <1>1, <1>2 DEF Row
<1>4. /\ new.implementation = row.implementation
      /\ new.implementation_hash = row.implementation_hash
      /\ new.arguments_schema = row.arguments_schema
      /\ new.signature = IF AutographConfigured THEN sig ELSE None
  BY <1>2 DEF Row
<1>5. Hashed(new)
  BY <1>4 DEF Hashed
<1>6. canonical_json(a, new) = canonical_json(a, row)
  BY <1>4 DEF canonical_json, implementation_url
<1>7. new.signature # None => new.signature = sig
  BY <1>4
<1>8. sig.timestamp <= day /\ Expiry[sig.x5u] >= sig.timestamp + MaxAge + Period
  BY KeysAssumption DEF Day
<1>9. Covered(a, new)
  BY <1>6, <1>7, <1>8 DEF Covered
<1> QED
  BY <1>3, <1>5, <1>7, <1>9

\* Saving a row, changed or not.
LEMMA SavedRow ==
  ASSUME day \in Day, NEW a \in Action, NEW old, NEW row \in Row,
         old = row => Hashed(row) /\ Covered(a, row),
         row.implementation = None => row.implementation_hash = None
  PROVE  /\ Saved(a, old, row) \in Row
         /\ Hashed(Saved(a, old, row))
         /\ Covered(a, Saved(a, old, row))
         /\ \/ Saved(a, old, row) = old
            \/ Saved(a, old, row).signature # None
                 => Saved(a, old, row).signature.timestamp = day
<1>1. CASE row = old
  BY <1>1 DEF Saved
<1>2. CASE row # old
  <2> DEFINE hashed == IF row.implementation = None THEN row
                       ELSE [row EXCEPT !.implementation_hash = sri_hash(row.implementation)]
  <2>1. hashed \in Row
    BY DEF Row, Hash
  <2>2. Hashed(hashed)
    BY DEF Row, Hashed
  <2>3. Saved(a, old, row) = update_signature(a, hashed)
    BY <1>2 DEF Saved
  <2> QED
    BY <2>1, <2>2, <2>3, SignedRow
<1> QED
  BY <1>1, <1>2

\* What update_actions stores.
LEMMA UpdatedRow ==
  ASSUME TypeOK, Rows, NEW a \in Action, NEW build \in Build
  PROVE  /\ Updated(a, build) \in Row
         /\ Hashed(Updated(a, build))
         /\ Covered(a, Updated(a, build))
         /\ \/ Updated(a, build) = action[a]
            \/ Updated(a, build).signature # None
                 => Updated(a, build).signature.timestamp = day
<1> USE DEF TypeOK
<1>1. CASE action[a] = None
  <2> DEFINE row == [implementation |-> build.implementation, implementation_hash |-> None,
                     arguments_schema |-> build.arguments_schema, signature |-> None]
  <2>1. row \in Row
    BY DEF Row, Build
  <2>2. Updated(a, build) = Saved(a, None, row)
    BY <1>1 DEF Updated
  <2>3. None # row
    BY <2>1, NoneAssumption
  <2> QED
    BY <2>1, <2>2, <2>3, <1>1, SavedRow
<1>2. CASE action[a] # None
  <2> DEFINE row == [action[a] EXCEPT !.arguments_schema = build.arguments_schema,
                                      !.implementation = IF build.implementation = None
                                                         THEN @ ELSE build.implementation]
  <2>1. action[a] \in Row /\ Hashed(action[a]) /\ Covered(a, action[a])
    BY <1>2 DEF Rows
  <2>2. row \in Row
    BY <2>1 DEF Row, Build
  <2>3. row.implementation = None => row.implementation_hash = None
    BY <2>1 DEF Row, Hashed
  <2>4. Updated(a, build) = Saved(a, action[a], row)
    BY <1>2 DEF Updated
  <2> HIDE DEF row
  <2>5. action[a] = row => Hashed(row) /\ Covered(a, row)
    BY <2>1
  <2> QED
    BY <2>2, <2>3, <2>4, <2>5, SavedRow
<1> QED
  BY <1>1, <1>2

----------------------------------------------------------------------------
LEMMA InitIInv == Init => IInv
<1> SUFFICES ASSUME Init PROVE IInv
  OBVIOUS
<1> USE DEF Init
<1>1. TypeOK
  <2>1. day \in Day /\ lastRun \in Day
    BY KeysAssumption DEF Day
  <2> QED
    BY <2>1 DEF TypeOK
<1>2. Rows /\ RunRows /\ ServedIsHashed
  BY DEF Rows, RunRows, ServedIsHashed
<1>3. Young
  BY KeysAssumption DEF Young
<1> QED
  BY <1>1, <1>2, <1>3 DEF IInv

LEMMA UpdateActionsIInv ==
  ASSUME IInv, UpdateActions PROVE IInv'
<1> USE DEF IInv
<1>0. PICK names \in SUBSET Action \ {{}} : \E build \in [names -> Build] :
        action' = [a \in Action |-> IF a \in names THEN Updated(a, build[a]) ELSE action[a]]
  BY DEF UpdateActions
<1>1. PICK build \in [names -> Build] :
        action' = [a \in Action |-> IF a \in names THEN Updated(a, build[a]) ELSE action[a]]
  BY <1>0
<1>2. UNCHANGED <<recipe, served, day, lastRun, run, reachable, cache, check>>
  BY DEF UpdateActions, web
<1>3. ASSUME NEW a \in Action
      PROVE  \/ action'[a] = action[a]
             \/ /\ action'[a] \in Row
                /\ Hashed(action'[a])
                /\ Covered(a, action'[a])
                /\ action'[a].signature # None => action'[a].signature.timestamp = day
  <2>1. CASE a \in names
    <3>1. build[a] \in Build /\ action'[a] = Updated(a, build[a])
      BY <1>1, <2>1
    <3> QED
      BY <3>1, UpdatedRow
  <2>2. CASE a \notin names
    BY <1>1, <2>2
  <2> QED
    BY <2>1, <2>2
<1>4. TypeOK'
  <2>1. action' \in [Action -> Row \cup {None}]
    <3>1. \A a \in Action : action'[a] \in Row \cup {None}
      BY <1>3 DEF TypeOK
    <3>2. action' = [a \in Action |-> action'[a]]
      BY <1>1
    <3> QED
      BY <3>1, <3>2
  <2> QED
    BY <2>1, <1>2 DEF TypeOK
<1>5. Rows'
  <2> SUFFICES ASSUME NEW a \in Action, action'[a] # None
               PROVE  Hashed(action'[a]) /\ Covered(a, action'[a])
    BY <1>2 DEF Rows, Covered
  <2> QED
    BY <1>3 DEF Rows
<1>6. RunRows' /\ ServedIsHashed'
  BY <1>2 DEF RunRows, ServedIsHashed
<1>7. Young'
  <2>1. \A a \in Action :
          action'[a] # None /\ action'[a].signature # None =>
            \/ action'[a] = action[a]
            \/ action'[a].signature.timestamp = day
    BY <1>3
  <2>2. day \in Nat /\ lastRun \in Nat /\ MaxAge \in Nat
    BY KeysAssumption DEF TypeOK, Day
  <2> QED
    BY <1>2, <2>1, <2>2 DEF Young
<1> QED
  BY <1>4, <1>5, <1>6, <1>7

LEMMA SignNextIInv ==
  ASSUME IInv, SignNext PROVE IInv'
<1> USE DEF IInv
<1>1. PICK a \in DOMAIN run : /\ action' = [action EXCEPT ![a] = update_signature(a, run[a])]
                              /\ run' = [b \in DOMAIN run \ {a} |-> run[b]]
  BY DEF SignNext
<1>2. run # None /\ UNCHANGED <<recipe, served, day, lastRun, reachable, cache, check>>
  BY DEF SignNext, web
<1>3. DOMAIN run \subseteq Action /\ \A b \in DOMAIN run : run[b] \in Row
  BY <1>2, RunType DEF TypeOK
<1> DEFINE new == update_signature(a, run[a])
<1>4. /\ new \in Row /\ Hashed(new) /\ Covered(a, new)
      /\ new.signature # None => new.signature.timestamp = day
  BY <1>1, <1>2, <1>3, SignedRow DEF TypeOK, RunRows
<1>5. action'[a] = new /\ \A b \in Action \ {a} : action'[b] = action[b]
  BY <1>1, <1>3 DEF TypeOK
<1>6. /\ DOMAIN run' = DOMAIN run \ {a}
      /\ \A b \in DOMAIN run' : run'[b] = run[b]
  BY <1>1
<1>7. TypeOK'
  <2>1. action' \in [Action -> Row \cup {None}]
    BY <1>1, <1>3, <1>4 DEF TypeOK
  <2>2. run' \in Run
    <3>1. run' \in [DOMAIN run \ {a} -> Row]
      BY <1>1, <1>3
    <3> QED
      BY <3>1, <1>3 DEF Run
  <2> QED
    BY <2>1, <2>2, <1>2 DEF TypeOK
<1>8. Rows'
  BY <1>2, <1>4, <1>5 DEF Rows, Covered
<1>9. RunRows'
  BY <1>2, <1>6 DEF RunRows
<1>10. Young'
  <2>1. day \in Nat /\ lastRun \in Nat /\ MaxAge \in Nat
    BY KeysAssumption DEF TypeOK, Day
  <2>2. ASSUME NEW b \in Action, action'[b] # None, action'[b].signature # None
        PROVE  /\ action'[b].signature.timestamp + MaxAge >= lastRun
               /\ b \notin DOMAIN run' => action'[b].signature.timestamp + MaxAge >= day
    BY <2>1, <2>2, <1>2, <1>4, <1>5, <1>6 DEF Young
  <2> QED
    BY <1>2, <2>2 DEF Young
<1> QED
  BY <1>2, <1>7, <1>8, <1>9, <1>10 DEF ServedIsHashed

LEMMA RunIInv ==
  ASSUME IInv, BeginSigning \/ EndSigning \/ SigningFails PROVE IInv'
<1> USE DEF IInv
<1>1. UNCHANGED <<action, recipe, served, day, reachable, cache, check>>
  BY DEF BeginSigning, EndSigning, SigningFails, web
<1>2. day \in Nat /\ lastRun \in Nat /\ MaxAge \in Nat /\ Period \in Nat
  BY KeysAssumption DEF TypeOK, Day
<1>3. Rows' /\ ServedIsHashed'
  BY <1>1 DEF Rows, Covered, ServedIsHashed
<1>4. CASE BeginSigning
  <2>1. run = None /\ lastRun' = lastRun
    BY <1>4 DEF BeginSigning
  <2>2. PICK force \in BOOLEAN : run' = [a \in Outdated(force) |-> action[a]]
    BY <1>4 DEF BeginSigning
  <2>3. Outdated(force) \subseteq Action /\ \A a \in Outdated(force) : action[a] # None
    BY DEF Outdated
  <2>4. run' \in Run
    <3>1. run' \in [Outdated(force) -> Row]
      BY <2>2, <2>3 DEF TypeOK
    <3> QED
      BY <3>1, <2>3 DEF Run
  <2>5. TypeOK'
    BY <2>1, <2>4, <1>1 DEF TypeOK
  <2>6. RunRows'
    BY <2>2, <2>3 DEF RunRows, Rows
  <2>7. ASSUME NEW a \in Action, action[a] # None, action[a].signature # None, a \notin Outdated(force)
        PROVE  action[a].signature.timestamp + MaxAge >= day
    <3>1. action[a].signature.timestamp \in Nat
      BY <2>7 DEF TypeOK, Row, Signature, Day
    <3>2. ~ (action[a].signature.timestamp < day - MaxAge)
      BY <2>7 DEF Outdated
    <3> QED
      BY <3>1, <3>2, <1>2
  <2>8. Young'
    <3>1. DOMAIN run' = Outdated(force)
      BY <2>2
    <3> QED
      BY <1>1, <2>1, <2>7, <3>1 DEF Young
  <2> QED
    BY <1>3, <2>5, <2>6, <2>8
<1>5. CASE EndSigning
  <2>1. run # None /\ DOMAIN run = {} /\ run' = None /\ lastRun' = day
    BY <1>5 DEF EndSigning
  <2>2. TypeOK'
    BY <2>1, <1>1 DEF TypeOK
  <2>3. RunRows'
    BY <2>1 DEF RunRows
  <2>4. \A a \in Action : action[a] # None /\ action[a].signature # None =>
          action[a].signature.timestamp + MaxAge >= day
    BY <2>1 DEF Young
  <2>5. Young'
    BY <1>1, <1>2, <2>1, <2>4 DEF Young
  <2> QED
    BY <1>3, <2>2, <2>3, <2>5
<1>6. CASE SigningFails
  <2>1. run' = None /\ lastRun' = lastRun
    BY <1>6 DEF SigningFails
  <2>2. TypeOK' /\ RunRows'
    BY <2>1, <1>1 DEF TypeOK, RunRows
  <2>3. Young'
    BY <2>1, <1>1 DEF Young
  <2> QED
    BY <1>3, <2>2, <2>3
<1> QED
  BY <1>4, <1>5, <1>6

LEMMA RetrieveIInv ==
  ASSUME IInv, NEW a \in Action, NEW hash \in Hash, Retrieve(a, hash) PROVE IInv'
<1> USE DEF IInv
<1>1. /\ action[a] # None
      /\ hash = action[a].implementation_hash
      /\ served' = served \cup {<<a, hash, action[a].implementation>>}
      /\ UNCHANGED <<action, recipe, day, lastRun, run, reachable, cache, check>>
  BY DEF Retrieve, web
<1>2. action[a] \in Row /\ Hashed(action[a])
  BY <1>1 DEF TypeOK, Rows
<1>3. action[a].implementation # None
  BY <1>1, <1>2, NoneAssumption DEF Hashed
<1>4. action[a].implementation \in Code /\ hash = sri_hash(action[a].implementation)
  BY <1>1, <1>2, <1>3 DEF Hashed, Row
<1>5. TypeOK'
  BY <1>1, <1>4 DEF TypeOK
<1>6. ServedIsHashed'
  BY <1>1, <1>4 DEF ServedIsHashed
<1>7. Rows' /\ RunRows' /\ Young'
  BY <1>1 DEF Rows, Covered, RunRows, Young
<1> QED
  BY <1>5, <1>6, <1>7

\* A check reads the tables and writes to the cache.
LEMMA VerifyType ==
  ASSUME TypeOK, NEW url \in Url, NEW early, NEW outcome, Verify(url, early, outcome)
  PROVE  cache' \in [Url -> {"pem", "error", None}]
BY DEF Verify, TypeOK

LEMMA WebIInv ==
  ASSUME IInv, UNCHANGED <<tables, day>>,
         reachable' \in BOOLEAN,
         cache' \in [Url -> {"pem", "error", None}],
         check' \in Check \cup {None}
  PROVE  IInv'
<1>1. UNCHANGED <<action, recipe, served, lastRun, run, day>>
  BY DEF tables
<1>2. TypeOK'
  BY <1>1 DEF IInv, TypeOK
<1>3. Rows' /\ RunRows' /\ ServedIsHashed' /\ Young'
  BY <1>1 DEF IInv, Rows, Covered, RunRows, ServedIsHashed, Young
<1> QED
  BY <1>2, <1>3 DEF IInv

LEMMA ChecksIInv ==
  ASSUME IInv, Checks PROVE IInv'
<1>1. TypeOK
  BY DEF IInv
<1>2. ASSUME NEW name \in CheckName, BeginCheck(name) PROVE IInv'
  <2>1. SignedRecipes \subseteq Url
    BY <1>1 DEF SignedRecipes, TypeOK
  <2>2. SignedActions \subseteq Url
    BY <1>1 DEF SignedActions, Signed, TypeOK, Row, Signature
  <2>3. BadActions \subseteq SignedActions
    BY DEF BadActions, SignedActions
  <2>4. check' \in Check
    BY <1>2, <2>1, <2>2, <2>3 DEF BeginCheck, Check
  <2> QED
    BY <1>1, <1>2, <2>4, WebIInv DEF BeginCheck, TypeOK
<1>3. ASSUME check \in Check, NEW url \in check.left, NEW outcome, NEW early,
             Verify(url, early, outcome), NEW left \in SUBSET Url, NEW raised \in BOOLEAN,
             NEW reported \in SUBSET Url, NEW gone \in SUBSET Url,
             check' = [check EXCEPT !.left = left, !.raised = raised, !.reported = reported,
                                    !.unavailable = gone],
             UNCHANGED <<tables, day, reachable>>
      PROVE  IInv'
  <2>1. url \in Url
    BY <1>3 DEF Check
  <2>2. cache' \in [Url -> {"pem", "error", None}]
    BY <1>1, <1>3, <2>1, VerifyType
  <2>3. check' \in Check
    BY <1>3 DEF Check
  <2> QED
    BY <1>1, <1>3, <2>2, <2>3, WebIInv DEF TypeOK
<1>4. CASE CheckSignature
  <2>1. check \in Check
    BY <1>1, <1>4 DEF CheckSignature, TypeOK
  <2>2. PICK url \in check.left, outcome \in Outcome :
          /\ VerifySignature(url, outcome)
          /\ \E raised \in BOOLEAN :
               /\ raised <=> outcome \in {"bad certificate", "recently failed"}
               /\ check' = [check EXCEPT
                    !.left = IF raised THEN {} ELSE @ \ {url},
                    !.raised = raised,
                    !.reported = IF outcome = "bad signature" THEN @ \cup {url} ELSE @,
                    !.unavailable = IF outcome \in {"network error", "recently failed"}
                                    THEN @ \cup {url} ELSE @]
    BY <1>4, Zenon DEF CheckSignature
  <2>3. PICK raised \in BOOLEAN :
          check' = [check EXCEPT
            !.left = IF raised THEN {} ELSE @ \ {url},
            !.raised = raised,
            !.reported = IF outcome = "bad signature" THEN @ \cup {url} ELSE @,
            !.unavailable = IF outcome \in {"network error", "recently failed"}
                            THEN @ \cup {url} ELSE @]
    BY <2>2, Zenon
  <2> DEFINE left == IF raised THEN {} ELSE check.left \ {url}
             reported == IF outcome = "bad signature" THEN check.reported \cup {url}
                         ELSE check.reported
             gone == IF outcome \in {"network error", "recently failed"}
                     THEN check.unavailable \cup {url} ELSE check.unavailable
  <2>4. left \in SUBSET Url /\ reported \in SUBSET Url /\ gone \in SUBSET Url
    BY <2>1, <2>2 DEF Check
  <2>5. check' = [check EXCEPT !.left = left, !.raised = raised, !.reported = reported,
                               !.unavailable = gone]
    BY <2>1, <2>3 DEF Check
  <2>6. PICK verdict \in Outcome : Verify(url, 0, verdict)
    BY <2>2 DEF VerifySignature, Outcome
  <2> HIDE DEF left, reported, gone
  <2> QED
    BY <1>3, <1>4, <2>1, <2>2, <2>4, <2>5, <2>6 DEF CheckSignature
<1>5. CASE CheckCertificate
  <2>1. check \in Check
    BY <1>1, <1>5 DEF CheckCertificate, TypeOK
  <2>2. PICK url \in check.left, outcome \in Outcome :
          /\ Verify(url, ExpireEarly, outcome)
          /\ check' = [check EXCEPT
               !.left = @ \ {url},
               !.unavailable = IF outcome \in {"network error", "recently failed"}
                               THEN @ \cup {url} ELSE @]
    BY <1>5 DEF CheckCertificate
  <2> DEFINE left == check.left \ {url}
             gone == IF outcome \in {"network error", "recently failed"}
                     THEN check.unavailable \cup {url} ELSE check.unavailable
             raised == check.raised
             reported == check.reported
  <2>3. /\ left \in SUBSET Url /\ gone \in SUBSET Url /\ raised \in BOOLEAN
        /\ reported \in SUBSET Url
    BY <2>1, <2>2 DEF Check
  <2>4. check' = [check EXCEPT !.left = left, !.raised = raised, !.reported = reported,
                               !.unavailable = gone]
    BY <2>1, <2>2 DEF Check
  <2>5. UNCHANGED <<tables, day, reachable>>
    BY <1>5 DEF CheckCertificate
  <2>6. raised \in BOOLEAN
    BY <2>3
  <2> HIDE DEF left, gone, raised, reported
  <2> QED
    BY <1>3, <2>1, <2>2, <2>3, <2>4, <2>5, <2>6, Zenon
<1>6. CASE EndCheck
  BY <1>1, <1>6, WebIInv DEF EndCheck, TypeOK
<1> QED
  BY <1>2, <1>4, <1>5, <1>6 DEF Checks

LEMMA NextDayIInv ==
  ASSUME IInv, NextDay PROVE IInv'
<1> USE DEF IInv
<1>1. /\ day < LastDay /\ run = None /\ day < lastRun + Period /\ day' = day + 1
      /\ UNCHANGED <<action, recipe, served, lastRun, run, reachable, cache, check>>
  BY DEF NextDay, tables, web
<1>2. day \in Nat /\ lastRun \in Nat /\ Period \in Nat /\ day' \in Day
  BY <1>1, KeysAssumption DEF TypeOK, Day
<1>3. TypeOK'
  BY <1>1, <1>2 DEF TypeOK
<1>4. Rows'
  <2> SUFFICES ASSUME NEW a \in Action, action[a] # None, action[a].signature # None
               PROVE  action[a].signature.timestamp <= day'
    BY <1>1 DEF Rows, Covered
  <2>1. action[a].signature.timestamp \in Nat /\ action[a].signature.timestamp <= day
    BY DEF Rows, Covered, TypeOK, Row, Signature, Day
  <2> QED
    BY <2>1, <1>1, <1>2
<1>5. RunRows' /\ ServedIsHashed'
  BY <1>1 DEF RunRows, ServedIsHashed
<1>6. Young'
  BY <1>1, <1>2 DEF Young
<1> QED
  BY <1>3, <1>4, <1>5, <1>6

LEMMA NextIInv ==
  ASSUME IInv, [Next]_vars PROVE IInv'
<1>1. TypeOK
  BY DEF IInv
<1>2. CASE UNCHANGED vars
  BY <1>1, <1>2, WebIInv DEF vars, tables, TypeOK
<1>3. CASE Signings
  BY <1>3, UpdateActionsIInv, SignNextIInv, RunIInv DEF Signings
<1>4. ASSUME NEW r \in Recipe, SignRecipe(r) PROVE IInv'
  <2>1. recipe' \in [Recipe -> Url \cup {None}]
    BY <1>1, <1>4, KeysAssumption DEF SignRecipe, TypeOK
  <2>2. UNCHANGED <<action, served, day, lastRun, run, reachable, cache, check>>
    BY <1>4 DEF SignRecipe, web
  <2>3. TypeOK'
    BY <1>1, <2>1, <2>2 DEF TypeOK
  <2> QED
    BY <2>2, <2>3 DEF IInv, Rows, Covered, RunRows, ServedIsHashed, Young
<1>5. ASSUME NEW a \in Action, NEW hash \in Hash, Retrieve(a, hash) PROVE IInv'
  BY <1>5, RetrieveIInv
<1>6. CASE Checks
  BY <1>6, ChecksIInv
<1>7. ASSUME NEW url \in Url, EntryEnds(url) PROVE IInv'
  BY <1>1, <1>7, WebIInv DEF EntryEnds, TypeOK
<1>8. CASE Network
  BY <1>1, <1>8, WebIInv DEF Network, TypeOK
<1>9. CASE NextDay
  BY <1>9, NextDayIInv
<1> QED
  BY <1>2, <1>3, <1>4, <1>5, <1>6, <1>7, <1>8, <1>9 DEF Next

LEMMA Invariance == Spec => []IInv
<1>1. Init => IInv
  BY InitIInv
<1>2. IInv /\ [Next]_vars => IInv'
  BY NextIInv
<1> QED
  BY <1>1, <1>2, PTL DEF Spec

----------------------------------------------------------------------------
\* Tables, caches and runs keep their types.
THEOREM TypeCorrect == Spec => []TypeOK
<1>1. IInv => TypeOK
  BY DEF IInv
<1> QED
  BY <1>1, Invariance, PTL

\* A check of actions has read rows with their own signatures.
Reports ==
  check # None /\ check.name = "action_signatures_are_correct"
    => check.bad = {} /\ check.reported = {}

LEMMA NoBadActions == ASSUME Rows PROVE BadActions = {}
BY DEF Rows, Covered, BadActions, Signed, verify_signature_pubkey

LEMMA ReportsStep ==
  ASSUME IInv, Reports, [Next]_vars PROVE Reports'
<1>0. TypeOK /\ Rows
  BY DEF IInv
<1>1. ASSUME NEW name \in CheckName, BeginCheck(name) PROVE Reports'
  BY <1>0, <1>1, NoBadActions DEF BeginCheck, Reports
<1>2. CASE CheckSignature
  <2>1. check \in Check /\ check # None
    BY <1>0, <1>2 DEF CheckSignature, TypeOK
  <2>2. PICK url, outcome, reported :
          /\ VerifySignature(url, outcome)
          /\ check'.name = check.name /\ check'.bad = check.bad
          /\ check'.reported = reported
          /\ reported # check.reported => outcome = "bad signature"
    BY <1>2, <2>1 DEF CheckSignature, Check
  <2>3. check.bad = {} => outcome # "bad signature"
    BY <2>2 DEF VerifySignature
  <2> QED
    BY <2>1, <2>2, <2>3 DEF Reports
<1>3. CASE CheckCertificate
  BY <1>0, <1>3 DEF CheckCertificate, Check, TypeOK, SignatureCheck, Reports
<1>4. CASE EndCheck
  BY <1>4 DEF EndCheck, Reports
<1>5. CASE UNCHANGED check
  BY <1>5 DEF Reports
<1>6. Signings => UNCHANGED check
  BY DEF Signings, UpdateActions, BeginSigning, SignNext, EndSigning, SigningFails, web
<1>7. ASSUME NEW r \in Recipe, SignRecipe(r) PROVE UNCHANGED check
  BY <1>7 DEF SignRecipe, web
<1>8. ASSUME NEW a \in Action, NEW hash \in Hash, Retrieve(a, hash) PROVE UNCHANGED check
  BY <1>8 DEF Retrieve, web
<1>9. ASSUME NEW url \in Url, EntryEnds(url) PROVE UNCHANGED check
  BY <1>9 DEF EntryEnds
<1>10. Network \/ NextDay \/ UNCHANGED vars => UNCHANGED check
  BY DEF Network, NextDay, web, vars
<1> QED
  BY <1>1, <1>2, <1>3, <1>4, <1>5, <1>6, <1>7, <1>8, <1>9, <1>10 DEF Next, Checks

\* Whatever commands interleave, a stored signature and hash are of the stored
\* row, and the checks that read them while rows change report none.
THEOREM SignaturesMatch == Spec => []SignedAsStored
<1>1. Init => Reports
  BY DEF Init, Reports
<1>2. IInv /\ Reports /\ [Next]_vars => Reports'
  BY ReportsStep
<1>3. IInv => actions_have_consistent_hashes
  BY DEF IInv, Rows, Hashed, actions_have_consistent_hashes
<1>4. IInv /\ Reports => SignedAsStored
  BY <1>3 DEF IInv, Rows, Covered, Reports, SignedAsStored
<1> QED
  BY <1>1, <1>2, <1>4, Invariance, PTL DEF Spec

\* No URL of an implementation ever answers with another one.
THEOREM ImmutableImplementations == Spec => []ServedIsHashed
<1>1. IInv => ServedIsHashed
  BY DEF IInv
<1> QED
  BY <1>1, Invariance, PTL

\* Where keys overlap for the age at which signatures are replaced and the
\* time between two runs, no signature outlives its key.
THEOREM NoneExpires == Spec => []ServedVerifies
<1>1. IInv => ServedVerifies
  <2> SUFFICES ASSUME IInv, NEW a \in Action, action[a] # None, action[a].signature # None
               PROVE  ~ Expired(action[a].signature.x5u, 0)
    BY DEF ServedVerifies
  <2>1. /\ action[a].signature.timestamp \in Nat
        /\ Expiry[action[a].signature.x5u] \in Nat
        /\ day \in Nat /\ lastRun \in Nat /\ MaxAge \in Nat /\ Period \in Nat
    BY KeysAssumption DEF IInv, TypeOK, Row, Signature, Day
  <2>2. /\ day <= lastRun + Period
        /\ action[a].signature.timestamp + MaxAge >= lastRun
        /\ Expiry[action[a].signature.x5u] >= action[a].signature.timestamp + MaxAge + Period
    BY DEF IInv, Young, Rows, Covered
  <2> QED
    BY <2>1, <2>2 DEF Expired
<1> QED
  BY <1>1, Invariance, PTL
=============================================================================

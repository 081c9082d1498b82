------------------------------ MODULE Signing ------------------------------
(***************************************************************************)
(* Actions, their content signatures, the certificates those lead to, and  *)
(* the system checks that verify both.                                     *)
(*                                                                         *)
(* update_actions stores the built actions and signs what changed, in one  *)
(* transaction; update_action_signatures signs again what is unsigned or   *)
(* old, action by action, from the rows it read at its start.  Clients get *)
(* an action's signed description, and then its implementation under a URL *)
(* that holds the hash and may be cached for a year.  Autograph signs with *)
(* a key that is replaced from time to time; the chain of a key is fetched *)
(* from the signature's x5u, through a cache that keeps failures too.      *)
(*                                                                         *)
(* Time is counted in days.  A call to Autograph that fails ends the       *)
(* command that made it: update_actions then leaves nothing behind, and is *)
(* no step here.                                                           *)
(***************************************************************************)
EXTENDS Integers, FiniteSets

CONSTANTS
  Action,              \* names of actions
  Recipe,              \* signed recipes: here only what their signatures lead to
  Code,                \* implementations
  Schema,              \* argument schemas
  Url,                 \* the x5u of each Autograph key
  None,
  AutographConfigured, \* settings.AUTOGRAPH_*
  KeyAt,               \* the key Autograph signs with on a day
  Expiry,              \* the last day of a key's chain
  MaxAge,              \* settings.AUTOGRAPH_SIGNATURE_MAX_AGE
  Period,              \* update_action_signatures ends at least this often
  ExpireEarly,         \* settings.CERTIFICATES_EXPIRE_EARLY_DAYS
  LastDay              \* bound on the days modelled

Day == 0 .. LastDay

\* docs/ops/config.rst, of AUTOGRAPH_SIGNATURE_MAX_AGE: a key outlives its
\* last signature by the time it takes to sign again.
ASSUME KeysAssumption ==
  /\ AutographConfigured \in BOOLEAN
  /\ {LastDay, MaxAge, Period, ExpireEarly} \subseteq Nat
  /\ KeyAt \in [Day -> Url]
  /\ Expiry \in [Url -> Nat]
  /\ \A d \in Day : Expiry[KeyAt[d]] >= d + MaxAge + Period

----------------------------------------------------------------------------
\* Equal hashes are equal implementations.
sri_hash(code) == <<"sha384", code>>

Hash == {sri_hash(code) : code \in Code}

\* What is signed of an action: of its implementation, the URL, which holds
\* the hash.
Data == [name: Action, implementation_url: Hash \cup {None}, arguments_schema: Schema]

Signature == [data: Data, x5u: Url, timestamp: Day]

Row == [implementation: Code \cup {None},
        implementation_hash: Hash \cup {None},
        arguments_schema: Schema,
        signature: Signature \cup {None}]

ASSUME NoneAssumption == None \notin Code /\ None \notin Url /\ None \notin Hash /\ None \notin Row

\* An action as built: those of the schemas package have no implementation.
Build == [implementation: Code \cup {None}, arguments_schema: Schema]

\* A run of update_action_signatures: the rows it read and has not saved.
Run == UNION {[A -> Row] : A \in SUBSET Action}

SignatureCheck == {"recipe_signatures_are_correct", "action_signatures_are_correct"}
CheckName == SignatureCheck \cup {"signatures_use_good_certificates"}

\* A system check under way: the chains it has yet to verify, those that signed
\* other data than the rows it read, those of them it has reported, those it
\* could not get, and whether it ended by an exception of its own.
Check == [name: CheckName, left: SUBSET Url, bad: SUBSET Url, reported: SUBSET Url,
          unavailable: SUBSET Url, raised: BOOLEAN]

VARIABLES
  action,     \* the table of actions
  recipe,     \* the x5u of each recipe's signature
  served,     \* the implementations clients and their caches hold
  day,
  lastRun,    \* the day update_action_signatures last ended
  run,        \* the run of it under way
  reachable,  \* whether x5u URLs can be fetched
  cache,      \* the entries fetch-x5u-pem::<url>
  check       \* the system check under way

vars == <<action, recipe, served, day, lastRun, run, reachable, cache, check>>
tables == <<action, recipe, served, lastRun, run>>
web    == <<reachable, cache, check>>

Init ==
  /\ action = [a \in Action |-> None]
  /\ recipe = [r \in Recipe |-> None]
  /\ served = {}
  /\ day = 0
  /\ lastRun = 0
  /\ run = None
  /\ reachable = TRUE
  /\ cache = [u \in Url |-> None]
  /\ check = None

----------------------------------------------------------------------------
(* Signing                                                                 *)

implementation_url(row) == IF row.implementation = None THEN None ELSE row.implementation_hash

canonical_json(a, row) ==
  [name |-> a,
   implementation_url |-> implementation_url(row),
   arguments_schema |-> row.arguments_schema]

update_signature(a, row) ==
  [row EXCEPT !.signature =
     IF AutographConfigured
     THEN [data |-> canonical_json(a, row), x5u |-> KeyAt[day], timestamp |-> day]
     ELSE None]

\* Action.save of a row whose content may have changed: an unchanged row is
\* stored as it is.
Saved(a, old, row) ==
  IF row = old THEN row
  ELSE update_signature(a,
         IF row.implementation = None THEN row
         ELSE [row EXCEPT !.implementation_hash = sri_hash(row.implementation)])

\* What update_actions makes of a row: an implementation is replaced and
\* never removed.
\* slip: the hash is left to a later save.
UpdatedKeepingHash(a, build) ==
  IF action[a] = None
  THEN Saved(a, None, [implementation |-> build.implementation,
                       implementation_hash |-> None,
                       arguments_schema |-> build.arguments_schema,
                       signature |-> None])
  ELSE LET row == [action[a] EXCEPT !.arguments_schema = build.arguments_schema,
                                    !.implementation = IF build.implementation = None
                                                       THEN @ ELSE build.implementation]
       IN  IF row = action[a] THEN row ELSE update_signature(a, row)

Updated(a, build) ==
  IF action[a] = None
  THEN Saved(a, None, [implementation |-> build.implementation,
                       implementation_hash |-> None,
                       arguments_schema |-> build.arguments_schema,
                       signature |-> None])
  ELSE Saved(a, action[a],
             [action[a] EXCEPT !.arguments_schema = build.arguments_schema,
                               !.implementation = IF build.implementation = None
                                                  THEN @ ELSE build.implementation])

\* The command update_actions, for the actions it is asked to update.
UpdateActions ==
  /\ \E names \in SUBSET Action \ {{}} : \E build \in [names -> Build] :
       action' = [a \in Action |-> IF a \in names THEN Updated(a, build[a]) ELSE action[a]]
  /\ UNCHANGED <<recipe, served, day, lastRun, run, web>>

\* get_outdated_actions; with --force, every action.
\* slip: only actions without a signature.
OutdatedMissing(force) ==
  {a \in Action : /\ action[a] # None
                  /\ force \/ action[a].signature = None}

Outdated(force) ==
  {a \in Action :
     /\ action[a] # None
     /\ \/ force
        \/ action[a].signature = None
        \/ action[a].signature.timestamp < day - MaxAge}

BeginSigning ==
  /\ run = None
  /\ \E force \in BOOLEAN : run' = [a \in Outdated(force) |-> action[a]]
  /\ UNCHANGED <<action, recipe, served, day, lastRun, web>>

\* The whole row is saved, as it was read.
\* slip: only the signature is saved.
SignNextSignatureOnly ==
  /\ run # None
  /\ \E a \in DOMAIN run :
       /\ action' = [action EXCEPT ![a].signature = update_signature(a, run[a]).signature]
       /\ run' = [b \in DOMAIN run \ {a} |-> run[b]]
  /\ UNCHANGED <<recipe, served, day, lastRun, web>>

SignNext ==
  /\ run # None
  /\ \E a \in DOMAIN run :
       /\ action' = [action EXCEPT ![a] = update_signature(a, run[a])]
       /\ run' = [b \in DOMAIN run \ {a} |-> run[b]]
  /\ UNCHANGED <<recipe, served, day, lastRun, web>>

EndSigning ==
  /\ run # None
  /\ DOMAIN run = {}
  /\ run' = None
  /\ lastRun' = day
  /\ UNCHANGED <<action, recipe, served, day, web>>

\* Autograph fails: what is saved stays.
SigningFails ==
  /\ run # None
  /\ DOMAIN run # {}
  /\ run' = None
  /\ UNCHANGED <<action, recipe, served, day, lastRun, web>>

\* A recipe is signed; module Recipes says when.
SignRecipe(r) ==
  /\ AutographConfigured
  /\ recipe' = [recipe EXCEPT ![r] = KeyAt[day]]
  /\ UNCHANGED <<action, served, day, lastRun, run, web>>

\* ActionImplementationView.retrieve, for the URL of a description the client
\* may have got long ago; any other hash is answered 404.
Retrieve(a, hash) ==
  /\ action[a] # None
  /\ hash = action[a].implementation_hash
  /\ served' = served \cup {<<a, hash, action[a].implementation>>}
  /\ UNCHANGED <<action, recipe, day, lastRun, run, web>>

----------------------------------------------------------------------------
(* Certificates and system checks                                          *)

\* check_validity, for the dates that can go wrong.
Expired(url, early) == day + early > Expiry[url]

\* verify_x5u: an entry of the cache, or a fetch that leaves one.
Verify(url, early, outcome) ==
  \/ /\ cache[url] = "error"
     /\ outcome = "recently failed"
     /\ UNCHANGED cache
  \/ /\ cache[url] = None
     /\ ~reachable
     /\ outcome = "network error"
     /\ cache' = [cache EXCEPT ![url] = "error"]
  \/ /\ cache[url] # "error"
     /\ cache[url] = "pem" \/ reachable
     /\ outcome = IF Expired(url, early) THEN "bad certificate" ELSE "valid"
     /\ cache' = [cache EXCEPT ![url] = "pem"]

\* The key of a signature verifies the data it signed, and no other.
verify_signature_pubkey(data, signature) == data = signature.data

\* verify_signature_x5u, by a key whose chain comes first.
VerifySignature(url, outcome) ==
  \/ /\ Verify(url, 0, "valid")
     /\ outcome = IF url \in check.bad THEN "bad signature" ELSE "valid"
  \/ /\ outcome \in {"bad certificate", "network error", "recently failed"}
     /\ Verify(url, 0, outcome)

\* The check that needs no signature: whether it reports nothing.
actions_have_consistent_hashes ==
  \A a \in Action :
    action[a] # None /\ action[a].implementation # None
      => sri_hash(action[a].implementation) = action[a].implementation_hash

\* slip: unsigned ones too.
SignedRecipesAll == {recipe[r] : r \in Recipe}

SignedRecipes == {recipe[r] : r \in {s \in Recipe : recipe[s] # None}}

Signed == {a \in Action : action[a] # None /\ action[a].signature # None}
SignedActions == {action[a].signature.x5u : a \in Signed}
BadActions ==
  {action[a].signature.x5u :
     a \in {b \in Signed :
              ~ verify_signature_pubkey(canonical_json(b, action[b]), action[b].signature)}}

\* A check reads the signed rows first, each with its signature.  Which recipes
\* have the signature of other data is module Recipes': here, any.
BeginCheck(name) ==
  /\ check = None
  /\ \E recipes \in SUBSET SignedRecipes :
       check' = [name |-> name,
                 left |-> CASE name = "recipe_signatures_are_correct" -> SignedRecipes
                            [] name = "action_signatures_are_correct" -> SignedActions
                            [] OTHER -> SignedRecipes \cup SignedActions,
                 bad |-> CASE name = "recipe_signatures_are_correct" -> recipes
                           [] name = "action_signatures_are_correct" -> BadActions
                           [] OTHER -> {},
                 reported |-> {},
                 unavailable |-> {},
                 raised |-> FALSE]
  /\ UNCHANGED <<tables, day, reachable, cache>>

Outcome == {"valid", "bad signature", "bad certificate", "network error", "recently failed"}

\* The two checks of signatures report a bad signature and a network error; a
\* bad certificate, and a failure that is answered from the cache, leaves them
\* by an exception.
CheckSignature ==
  /\ check # None
  /\ check.name \in SignatureCheck
  /\ \E url \in check.left, outcome \in Outcome :
       /\ VerifySignature(url, outcome)
       /\ \E raised \in BOOLEAN :
            /\ raised <=> outcome \in {"bad certificate", "recently failed"}
            /\ check' = [check EXCEPT !.left = IF raised THEN {} ELSE @ \ {url},
                                      !.raised = raised,
                                      !.reported = IF outcome = "bad signature"
                                                   THEN @ \cup {url} ELSE @,
                                      !.unavailable = IF outcome \in {"network error", "recently failed"}
                                                      THEN @ \cup {url} ELSE @]
  /\ UNCHANGED <<tables, day, reachable>>

\* signatures_use_good_certificates catches both.
CheckCertificate ==
  /\ check # None
  /\ check.name = "signatures_use_good_certificates"
  /\ \E url \in check.left, outcome \in Outcome :
       /\ Verify(url, ExpireEarly, outcome)
       /\ check' = [check EXCEPT !.left = @ \ {url},
                                 !.unavailable = IF outcome \in {"network error", "recently failed"}
                                                 THEN @ \cup {url} ELSE @]
  /\ UNCHANGED <<tables, day, reachable>>

EndCheck ==
  /\ check # None
  /\ check.left = {}
  /\ check' = None
  /\ UNCHANGED <<tables, day, reachable, cache>>

\* X5U_CACHE_TIME or X5U_ERROR_CACHE_TIME has passed.
\* slip: errors stay.
EntryEndsOfChain(url) ==
  /\ cache[url] = "pem"
  /\ cache' = [cache EXCEPT ![url] = None]
  /\ UNCHANGED <<tables, day, reachable, check>>

EntryEnds(url) ==
  /\ cache[url] # None
  /\ cache' = [cache EXCEPT ![url] = None]
  /\ UNCHANGED <<tables, day, reachable, check>>

Network ==
  /\ reachable' = ~reachable
  /\ UNCHANGED <<tables, day, cache, check>>

\* A day passes: no run of the command takes that long, and its next is due.
NextDay ==
  /\ day < LastDay
  /\ run = None
  /\ check = None
  /\ day < lastRun + Period
  /\ day' = day + 1
  /\ UNCHANGED <<tables, web>>

Signings == UpdateActions \/ BeginSigning \/ SignNext \/ EndSigning \/ SigningFails

Checks ==
  \/ \E name \in CheckName : BeginCheck(name)
  \/ CheckSignature \/ CheckCertificate \/ EndCheck

Next ==
  \/ Signings
  \/ \E r \in Recipe : SignRecipe(r)
  \/ \E a \in Action, hash \in Hash : Retrieve(a, hash)
  \/ Checks
  \/ \E url \in Url : EntryEnds(url)
  \/ Network
  \/ NextDay

Spec == Init /\ [][Next]_vars

\* The cache drops its entries in time; the load balancer's health checks
\* never stop.
FairSpec ==
  /\ Spec
  /\ \A url \in Url : WF_vars(EntryEnds(url))
  /\ WF_vars(Checks)

----------------------------------------------------------------------------
TypeOK ==
  /\ action \in [Action -> Row \cup {None}]
  /\ recipe \in [Recipe -> Url \cup {None}]
  /\ served \subseteq Action \X Hash \X Code
  /\ day \in Day
  /\ lastRun \in Day
  /\ run \in Run \cup {None}
  /\ reachable \in BOOLEAN
  /\ cache \in [Url -> {"pem", "error", None}]
  /\ check \in Check \cup {None}

\* A stored signature is of the row it is stored with, whichever command
\* saved the row, from whenever it read it, and the checks of actions, whatever
\* changes while they run, report no row (Action.save, update_actions.py,
\* update_action_signatures.py, action_signatures_are_correct).
SignedAsStored ==
  /\ \A a \in Action :
       action[a] # None /\ action[a].signature # None
         => action[a].signature.data = canonical_json(a, action[a])
  /\ actions_have_consistent_hashes
  /\ check # None /\ check.name = "action_signatures_are_correct" => check.reported = {}

\* What was ever answered under an implementation's URL has the URL's hash,
\* so that a copy that is cached for a year is never the wrong one
\* (ActionImplementationView, Action.save).
ServedIsHashed ==
  \A s \in served : s[2] = sri_hash(s[3])

\* No client is given a signature by a key that has expired: a signature is
\* replaced while the old key overlaps the new (get_outdated_actions).
ServedVerifies ==
  \A a \in Action :
    action[a] # None /\ action[a].signature # None
      => ~ Expired(action[a].signature.x5u, 0)

\* When the network is back for good, checks come to an end of reporting that
\* chains are unavailable, although failures are cached (verify_x5u).
OutageEnds ==
  <>[]reachable => <>[](check # None => check.unavailable = {})
=============================================================================

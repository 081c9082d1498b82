------------------------------ MODULE Targeting ------------------------------
(***************************************************************************)
(* What clients a recipe is offered to: the filter objects, the columns    *)
(* older than those and a raw expression, joined to one filter expression, *)
(* and the capabilities the recipe asks for.  A request that creates or    *)
(* updates a recipe validates its filters and renders them in its          *)
(* response.  extra_capabilities, which only add, are left out.            *)
(***************************************************************************)
EXTENDS Filters

CONSTANTS
  Object,       \* the filter objects there are to submit, by their ids
  FilterLists,  \* the lists of them that requests may submit
  Raw,          \* the raw expressions that requests may submit, by their ids
  OldColumns,   \* lists of filter objects that say what old columns may hold
  Baseline      \* settings.BASELINE_CAPABILITIES

\* The columns of a stored recipe; listed has the locales, countries and channels
\* of recipes older than filter objects, extra is None when it is blank.
Recipe == [action : Action, listed : OldColumns, filters : FilterLists,
           extra : DOMAIN Raw \cup {None}]

ASSUME ConstantsAssumption ==
  /\ Object \in Seq(Filter)
  /\ Raw \in Seq(Seq(Token))
  /\ \A i \in DOMAIN Raw : Raw[i] # <<>>
  /\ \A l \in FilterLists \cup OldColumns : l \in Seq(DOMAIN Object)
  /\ <<>> \in FilterLists \cap OldColumns

VARIABLE recipe

-----------------------------------------------------------------------------
(* RecipeRevision.                                                         *)

Parts(r) ==
  LET objects == r.listed \o r.filters
      texts == [i \in DOMAIN objects |-> Object[objects[i]].text]
  IN IF r.extra = None THEN texts ELSE Append(texts, Raw[r.extra])

\* A slip: the parts joined without parentheses.
FilterExpressionBare(r) == Join("and", Parts(r))

FilterExpression(r) ==
  LET parts == Parts(r)
  IN IF Len(parts) > 1 THEN JoinOperands("and", [i \in DOMAIN parts |-> Value(parts[i])])
     ELSE IF parts = <<>> THEN <<>> ELSE parts[1]

FilterObjects(r) == [i \in DOMAIN r.filters |-> Object[r.filters[i]]]

Capabilities(r) ==
  LET filters == FilterObjects(r)
      caps == {r.action} \cup UNION {filters[i].caps : i \in DOMAIN filters}
  IN IF caps \ Baseline # {} THEN caps \cup {"capabilities-v1"} ELSE caps

UsesOnlyBaseline(r) == Capabilities(r) \subseteq Baseline

-----------------------------------------------------------------------------
(* Requests.                                                               *)

\* A recipe older than filter objects, or none yet.
Init ==
  \/ recipe = None
  \/ /\ recipe \in [action : Action, listed : OldColumns, filters : {<<>>},
                    extra : DOMAIN Raw \cup {None}]
     /\ Parts(recipe) # <<>>

\* The response renders the revision in the request's transaction.  A field
\* whose getter raises KeyError is left out of it.
Stores(r) ==
  /\ FirstOutcome(FilterObjects(r), r.action) # "error"
  /\ recipe' = r

Create(a, filters, extra) ==
  /\ recipe = None
  /\ filters # <<>> \/ extra # None
  /\ Stores([action |-> a, listed |-> <<>>, filters |-> filters, extra |-> extra])

\* A request may bring filters, a raw expression, both or neither: what it does
\* not bring is not in new.  A slip: only a request with both is looked at.
ValidUpdateOfBoth(new) ==
  DOMAIN new = {"filters", "extra"} => new.filters # <<>> \/ new.extra # None

\* If either is in the request, one of them says something.
ValidUpdate(new) ==
  DOMAIN new # {} =>
    \/ "filters" \in DOMAIN new /\ new.filters # <<>>
    \/ "extra" \in DOMAIN new /\ new.extra # None

\* A slip: every update puts the old columns before the filters as well.
UpdateConverting(a, new) ==
  /\ recipe # None
  /\ ValidUpdate(new)
  /\ Stores([action |-> a, listed |-> recipe.listed,
             filters |-> recipe.listed \o
               IF "filters" \in DOMAIN new THEN new.filters ELSE recipe.filters,
             extra |-> IF "extra" \in DOMAIN new THEN new.extra ELSE recipe.extra])

Update(a, new) ==
  /\ recipe # None
  /\ ValidUpdate(new)
  /\ Stores([action |-> a, listed |-> recipe.listed,
             filters |-> IF "filters" \in DOMAIN new THEN new.filters ELSE recipe.filters,
             extra |-> IF "extra" \in DOMAIN new THEN new.extra ELSE recipe.extra])

Extra == DOMAIN Raw \cup {None}

Next ==
  \E a \in Action :
    \/ \E fs \in FilterLists, x \in Extra : Create(a, fs, x)
    \/ \E new \in [filters : FilterLists, extra : Extra] \cup [filters : FilterLists]
                   \cup [extra : Extra] \cup {<<>>} : Update(a, new)

Spec == Init /\ [][Next]_recipe

-----------------------------------------------------------------------------
(* Properties.                                                             *)

Stored == recipe # None

\* The stored recipe is a recipe (RecipeRevision, models.py:263-300).
TypeOK == recipe \in Recipe \cup {None}

\* A recipe always says whom it is for: no order of updates, and no mix of the
\* two fields and the old columns, leaves an empty filter expression
\* (RecipeSerializer.validate).
NeverUnfiltered == Stored => Parts(recipe) # <<>>

\* "In order for a recipe to match a user, every part of a filter object must be
\* true" (filters.py): the joined expression is satisfied by exactly the clients
\* that satisfy every part by itself, whichever way an evaluator reads && and ||.
EveryPartRequired ==
  Stored => \A c \in Client :
    Satisfies(c, FilterExpression(recipe))
      <=> \A i \in DOMAIN Parts(recipe) : Satisfies(c, Parts(recipe)[i])

FilterAt(i) == Object[recipe.filters[i]]

\* Every filter object of a stored recipe is satisfied by the clients its
\* documentation names, lists of versions and nested filters included, apart from
\* what ClientsAsDocumented finds: repeated versions, other operators in nested
\* filters, strings for booleans, the preference of testers, and profiles made on the
\* day or without telemetry.
MatchesAsDocumented ==
  Stored => \A i \in DOMAIN recipe.filters :
    FilterAt(i).outcome[recipe.action] = "text" =>
      \A c \in FilterAt(i).sound : Satisfies(c, FilterAt(i).text) <=> c \in FilterAt(i).means

\* Every client satisfies the filter objects of a stored recipe as the docstrings of
\* their classes say (filters.py).
ClientsAsDocumented ==
  Stored => \A i \in DOMAIN recipe.filters :
    FilterAt(i).outcome[recipe.action] = "text" =>
      \A c \in Client : Satisfies(c, FilterAt(i).text) <=> c \in FilterAt(i).means

\* A recipe that is offered to clients with nothing but the baseline capabilities
\* renders to nothing that needs another one, however its filters are nested,
\* a negated filter apart (RecipeRevision.uses_only_baseline_capabilities).
OldClientsSpared ==
  Stored /\ UsesOnlyBaseline(recipe) =>
    \A i \in DOMAIN recipe.filters : Object[recipe.filters[i]].needs \subseteq Baseline
=============================================================================

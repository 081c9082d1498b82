------------------------------- MODULE Filters -------------------------------
(***************************************************************************)
(* Filter objects, which say what clients a recipe is for, and the JEXL    *)
(* text each of them renders to.                                           *)
(*                                                                         *)
(* Rendered text is what an evaluator of JEXL gets to see of it: operands, *)
(* each with the clients that satisfy it, between && and ||.  Whether &&   *)
(* binds tighter than || is up to the client's evaluator: clients of both  *)
(* kinds are there.                                                        *)
(***************************************************************************)
EXTENDS Integers, Sequences, FiniteSets, SequencesExt

CONSTANTS
  Client,       \* clients, as records of what filters look at
  Capability,   \* names of what an evaluator may be capable of
  None          \* an absent field, row or date

ASSUME ClientAssumption == \A c \in Client : c.version \in Nat
ASSUME CapabilityAssumption ==
  {"env.version", "versionCompare", "preferenceValue"} \subseteq Capability

\* "slugged" stands for the actions whose arguments name the recipe.
Action == {"slugged", "other"}

\* What rendering a filter does for a recipe: it ends in text, in an error that
\* ends the request, or in a KeyError.
Outcome == {"text", "error", "keyError"}

Token == [op : {"first", "and", "or"}, who : SUBSET Client]

\* A filter object: its text, the clients its documentation promises, what
\* get_capabilities() lists and what an evaluator of the text has to have, what
\* is negated left aside.  Sound are the clients for whom there is no known reason
\* to break the promise.
Filter == [type : {"simple", "negate", "and", "or"}, text : Seq(Token), means : SUBSET Client,
           outcome : [Action -> Outcome], caps : SUBSET Capability, needs : SUBSET Capability,
           sound : SUBSET Client]

-----------------------------------------------------------------------------
(* Text.                                                                   *)

OnlyAnd(t, i, j) == \A k \in i + 1 .. j : t[k].op = "and"

\* Client c satisfies text t: some operand that starts a disjunction holds, and so
\* do the operands && adds to it.  Read from left to right, every later && adds
\* to what stands before it; where && binds tighter, only those up to the next ||.
Satisfies(c, t) ==
  \E i \in DOMAIN t :
    /\ t[i].op # "and"
    /\ c \in t[i].who
    /\ \A j \in i + 1 .. Len(t) :
         t[j].op = "and" /\ (c.jexl = "andFirst" => OnlyAnd(t, i, j))
           => c \in t[j].who

Value(t) == {c \in Client : Satisfies(c, t)}

\* operator.join of operands.
JoinOperands(op, sets) ==
  [i \in 1 .. Len(sets) |-> [op |-> IF i = 1 THEN "first" ELSE op, who |-> sets[i]]]

Operand(S) == <<[op |-> "first", who |-> S]>>
Paren(t) == Operand(Value(t))

\* operator.join of texts, as they are.
Join(op, texts) ==
  FoldLeft(LAMBDA joined, t :
             IF joined = <<>> THEN t ELSE joined \o [t EXCEPT ![1].op = op],
           <<>>, texts)

Uniform(t) == Cardinality({t[i].op : i \in 2 .. Len(t)}) <= 1

-----------------------------------------------------------------------------
(* Filter classes: the module's text as to_jexl builds it.                 *)

Renders == [a \in Action |-> "text"]
Raises == [a \in Action |-> "error"]

Base(text, means, caps) ==
  [type |-> "simple", text |-> text, means |-> means, outcome |-> Renders,
   caps |-> caps, needs |-> caps, sound |-> Client]

\* A value is_valid() accepts and to_jexl() does not.
Unrecognized(caps) == [Base(Operand({}), {}, caps) EXCEPT !.outcome = Raises]

\* Channel, locale and country.
Listed(S) ==
  LET who == {c \in Client : c.channel \in S} IN Base(Operand(who), who, {})

Platform(ps) ==
  Base(JoinOperands("or", [i \in DOMAIN ps |-> {c \in Client : c.os = ps[i]}]),
       {c \in Client : \E i \in DOMAIN ps : c.os = ps[i]}, {})

\* Add-ons that are there or active.
Addons(anyOrAll, addons) ==
  LET with == [i \in DOMAIN addons |-> {c \in Client : addons[i] \in c.has}]
  IN IF anyOrAll = "any"
     THEN Base(JoinOperands("or", with), UNION {with[i] : i \in DOMAIN with}, {})
     ELSE Base(JoinOperands("and", with),
               {c \in Client : \A i \in DOMAIN with : c \in with[i]}, {})

Compares(x, comparison, y) ==
  CASE comparison = "equal" -> x = y
    [] comparison = "not_equal" -> x # y
    [] comparison = "greater_than" -> x > y
    [] comparison = "greater_than_equal" -> x >= y
    [] comparison = "less_than" -> x < y
    [] comparison = "less_than_equal" -> x <= y

PrefCompare(comparison, value) ==
  LET who == {c \in Client : Compares(c.number, comparison, value)}
  IN Base(Operand(who), who, {"preferenceValue"})

\* Values a BooleanField takes, the last of each a JSON string.  What is stored, and
\* tested for truth, is the value as it came.
SaysTrue == {"true", "1", "'true'"}
SaysFalse == {"false", "0", "'false'"}
Truthy(value) == value \notin {"false", "0"}

\* A preference that is there, or is not.
PrefIs(transform, pref, value) ==
  LET there(b) == {c \in Client : (pref \in c.has) = b}
  IN [Base(Operand(there(Truthy(value))), there(value \in SaysTrue), {transform}) EXCEPT
        !.sound = IF Truthy(value) = (value \in SaysTrue) THEN Client ELSE {}]

\* A bucket, stable or namespace sample: whom the hash picks is the client's business.
Sample(S, transform) == Base(Operand(S), S, {transform})

From(v) == {c \in Client : c.version >= v}
Before(v) == {c \in Client : c.version < v}

Repeats(versions) == \E i, j \in DOMAIN versions : i # j /\ versions[i] = versions[j]

\* A slip: the versions in the order they came in.
VersionUnsorted(versions) ==
  LET first == versions[1]
      last == versions[Len(versions)]
      among == {c \in Client : \E i \in DOMAIN versions : c.version = versions[i]}
      text == IF last - first + 1 # Len(versions)
              THEN Join("or", [i \in DOMAIN versions |->
                     JoinOperands("and", <<From(versions[i]), Before(versions[i] + 1)>>)])
              ELSE JoinOperands("and", <<From(first), Before(last + 1)>>)
  IN [Base(text, among, {"env.version", "versionCompare"}) EXCEPT
        !.sound = IF Repeats(versions) THEN {} ELSE Client]

\* list.sort(): the kth element is the one that k - 1 others come before.
Sorted(s) ==
  LET place(i) == Cardinality({j \in DOMAIN s : s[j] < s[i] \/ (s[j] = s[i] /\ j <= i)})
  IN [k \in DOMAIN s |-> s[CHOOSE i \in DOMAIN s : place(i) = k]]

\* Sorted versions are one range if there are as many of them as the range has;
\* a repeated version is counted twice.
Version(versions) ==
  LET vs == Sorted(versions)
      first == vs[1]
      last == vs[Len(vs)]
      among == {c \in Client : \E i \in DOMAIN vs : c.version = vs[i]}
      text == IF last - first + 1 # Len(vs)
              THEN Join("or", [i \in DOMAIN vs |->
                                 JoinOperands("and", <<From(vs[i]), Before(vs[i] + 1)>>)])
              ELSE JoinOperands("and", <<From(first), Before(last + 1)>>)
  IN [Base(text, among, {"env.version", "versionCompare"}) EXCEPT
        !.sound = IF Repeats(versions) THEN {} ELSE Client]

\* Half-open ranges of versions, and in the same way of dates.
VersionRange(low, high) ==
  Base(JoinOperands("and", <<From(low), Before(high)>>),
       {c \in Client : low <= c.version /\ c.version < high},
       {"env.version", "versionCompare"})

WindowsBuild(comparison, value) ==
  LET windows == {c \in Client : c.os = "windows"}
      compared == {c \in Client : Compares(c.number, comparison, value)}
  IN Base(Paren(JoinOperands("and", <<windows, compared>>)), windows \cap compared, {})

\* "Older than or newer than a given date": the text takes the day itself for older,
\* and clients without telemetry for newer.
ProfileCreateDate(direction, day) ==
  LET without == {c \in Client : c.created = None}
      before == {c \in Client \ without : c.created < day}
      onDay == {c \in Client \ without : c.created = day}
      after == {c \in Client \ without : c.created > day}
  IN IF direction = "olderThan"
     THEN [Base(Operand(before \cup onDay), before, {}) EXCEPT !.sound = Client \ onDay]
     ELSE [Base(JoinOperands("or", <<without, after>>), after, {}) EXCEPT
             !.sound = Client \ without]

Jexl(text, caps) == Base(Paren(text), Value(text), caps)
InvalidJexl(caps) == Unrecognized(caps)

\* Clients whose preference names the recipe, if its arguments do.  The preference
\* documented is another than the one the text asks for.
QaOnly(documented, rendered) ==
  LET naming(pref) == {c \in Client : pref \in c.has}
  IN [Base(Operand(naming(rendered)), naming(documented), {"preferenceValue"}) EXCEPT
        !.outcome = [a \in Action |-> IF a = "slugged" THEN "text" ELSE "error"],
        !.sound = {c \in Client : documented \in c.has <=> rendered \in c.has}]

\* A nested filter, never validated, that lacks a field.
Incomplete ==
  [Base(Operand({}), {}, {}) EXCEPT !.outcome = [a \in Action |-> "keyError"]]

\* What the negated filter needs is not asked for.
Negate(f) ==
  [f EXCEPT !.type = "negate", !.text = Operand(Client \ Value(f.text)),
            !.means = Client \ f.means, !.caps = {}, !.needs = {}]

\* The first filter that does not render says what happens.
FirstOutcome(filters, a) ==
  LET failed == {i \in DOMAIN filters : filters[i].outcome[a] # "text"}
  IN IF failed = {} THEN "text"
     ELSE filters[CHOOSE i \in failed : \A j \in failed : i <= j].outcome[a]

\* A slip: nested filters ask for nothing.
CompositeAskingNothing(type, means, filters) ==
  LET joined == Join(type, [i \in DOMAIN filters |-> filters[i].text])
  IN [type |-> type, text |-> Paren(joined), means |-> means,
      outcome |-> [a \in Action |-> FirstOutcome(filters, a)],
      caps |-> {}, needs |-> UNION {filters[i].needs : i \in DOMAIN filters},
      sound |-> IF Len(filters) = 1 \/ Uniform(joined)
                THEN {c \in Client : \A i \in DOMAIN filters : c \in filters[i].sound}
                ELSE {}]

\* The subfilters' texts are not put in parentheses of their own: what comes
\* out is sound if one operator is in it.
Composite(type, means, filters) ==
  LET joined == Join(type, [i \in DOMAIN filters |-> filters[i].text])
  IN [type |-> type, text |-> Paren(joined), means |-> means,
      outcome |-> [a \in Action |-> FirstOutcome(filters, a)],
      caps |-> UNION {filters[i].caps : i \in DOMAIN filters},
      needs |-> UNION {filters[i].needs : i \in DOMAIN filters},
      sound |-> IF Len(filters) = 1 \/ Uniform(joined)
                THEN {c \in Client : \A i \in DOMAIN filters : c \in filters[i].sound}
                ELSE {}]

AndFilter(filters) ==
  Composite("and", {c \in Client : \A i \in DOMAIN filters : c \in filters[i].means}, filters)
OrFilter(filters) ==
  Composite("or", UNION {filters[i].means : i \in DOMAIN filters}, filters)

\* The preset "pocket-1", whose last four preferences are alike.
Pocket1(newTab, homepage, other) ==
  LET notSet(pref) == PrefIs("preferenceIsUserSet", pref, "false")
  IN AndFilter(<<OrFilter(<<notSet(newTab), notSet(homepage)>>), notSet(other)>>)
=============================================================================

------------------------------ MODULE MCTargeting ----------------------------
EXTENDS Targeting

\* Every mix of what joined filters look at, for evaluators of both kinds.
Evaluator == {"leftToRight", "andFirst"}
SomeClients ==
  [jexl : Evaluator, os : {"windows", "mac"}, version : 71 .. 74,
   channel : {"release", "beta"}, has : SUBSET {"p", "q"}, number : {0}, created : {1}]
  \cup [jexl : Evaluator, os : {"windows", "mac", "linux"}, version : {72, 74},
        channel : {"release"}, has : {{}, {"p"}}, number : 0 .. 1, created : {None} \cup 0 .. 1]
Clients == SomeClients

Few ==
  <<Listed({"release"}), Platform(<<"mac", "windows">>), Addons("all", <<"p", "q">>),
    Version(<<74, 71, 72>>), VersionRange(72, 74), ProfileCreateDate("newerThan", 0),
    InvalidJexl({}), QaOnly("p", "q"), Incomplete>>
Simple == Few \o
  <<Unrecognized({}), Addons("any", <<"p", "q">>), PrefCompare("greater_than", 0),
    PrefCompare("not_equal", 0), PrefIs("preferenceExists", "p", "1"),
    PrefIs("preferenceIsUserSet", "q", "0"), PrefIs("preferenceExists", "q", "'true'"),
    PrefIs("preferenceExists", "p", "'false'"),
    Sample({c \in Client : c.channel = "beta"}, "bucketSample"),
    Version(<<74, 72>>), Version(<<73, 72>>), Version(<<72, 72, 74>>),
    VersionRange(74, 72), WindowsBuild("less_than_equal", 0),
    WindowsBuild("greater_than_equal", 1), ProfileCreateDate("olderThan", 0),
    Jexl(Platform(<<"mac", "linux">>).text, {"keys"}), Pocket1("p", "q", "p")>>
n == 9

\* The filters of a list, their negations, and pairs of the first n under and and or.
Nested(simple) ==
  LET First(k) == simple[((k - 1) \div n) + 1]
      Second(k) == simple[((k - 1) % n) + 1]
  IN simple
       \o [i \in DOMAIN simple |-> Negate(simple[i])]
       \o [k \in 1 .. n * n |-> AndFilter(<<First(k), Second(k)>>)]
       \o [k \in 1 .. n * n |-> OrFilter(<<First(k), Second(k)>>)]

Deeper ==
  <<Negate(AndFilter(<<Version(<<71, 73>>)>>)),
    OrFilter(<<AndFilter(<<Listed({"beta"}), QaOnly("q", "p")>>), Negate(VersionRange(71, 73))>>),
    AndFilter(<<OrFilter(<<Listed({"beta"}), PrefIs("preferenceExists", "p", "true")>>),
                Listed({"release"})>>)>>

AllObjects == Nested(Simple) \o Deeper
Objects == AllObjects

N == 27 + 27 + 2 * n * n + 3
ASSUME InstanceAssumption == n = Len(Few) /\ N = Len(Objects)

AllLists ==
  {<<>>} \cup {<<i>> : i \in 1 .. N} \cup {<<i, j>> : i, j \in 1 .. n}

Lists == AllLists

\* Listed({"release"}).
Columns == {<<>>, <<1>>}

\* With connectives of its own.
AnyAddon == <<Addons("any", <<"p", "q">>).text>>
RawTexts == AnyAddon

-----------------------------------------------------------------------------
(* qaOnly alone, which asks for another preference than is documented.     *)

Testers == <<QaOnly("p", "q")>>

OneFilter == {<<>>, <<1>>}
NoColumns == {<<>>}
=============================================================================

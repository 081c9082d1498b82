-------------------------- MODULE MCRemoteSettings --------------------------
(***************************************************************************)
(* Instances of RemoteSettings for TLC.                                    *)
(***************************************************************************)
EXTENDS RemoteSettings, TLC

CONSTANTS r1, r2, h1, h2, x1, x2

\* Any request may reach any web worker.
AskedAll == [w \in Handler |-> Recipe \X (Version \cup {None})]

\* Two requests for the first recipe overlap only when two workers have them: it is
\* enabled by either and approved or disabled meanwhile by the other.
AskedInTurn ==
  [w \in Handler |->
    IF w = h1 THEN {<<r1, x1>>, <<r1, None>>}
    ELSE {<<r1, x2>>, <<r2, x1>>, <<r2, None>>}]

\* Ids, versions and processes are only compared.
Symmetry ==
  Permutations(Recipe) \cup Permutations(Version) \cup Permutations(Handler)
=============================================================================

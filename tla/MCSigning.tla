------------------------------ MODULE MCSigning ------------------------------
(***************************************************************************)
(* An instance of Signing for TLC: Autograph's key is replaced on day 2,   *)
(* and the old one overlaps the new for as long as the assumption asks.    *)
(***************************************************************************)
EXTENDS Signing

CONSTANTS u1, u2

Keys == [d \in Day |-> IF d < 2 THEN u1 ELSE u2]
Ends == [u \in Url |-> IF u = u1 THEN 1 + MaxAge + Period ELSE LastDay + MaxAge + Period]
=============================================================================

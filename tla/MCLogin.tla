------------------------------ MODULE MCLogin ------------------------------
(***************************************************************************)
(* Login on a child, one that may be added, an id nobody has, two families *)
(* and one address.  A limiter tracks two keys of the three, and there is  *)
(* one slot for two requests.                                              *)
(***************************************************************************)
EXTENDS Login

CONSTANTS f1, f2, c1, c2, nobody, addr, pattern

MCFirstRow == [family |-> f1, hash |-> [version |-> 1, secret |-> pattern]]

Child(id, family, secret) ==
  [door |-> "child", key |-> id, family |-> family, secret |-> secret]

Parent(family, secret) ==
  [door |-> "parent", key |-> addr, family |-> family, secret |-> secret]

(* Three ids for two places; a child added between logins; parents.         *)
MCScenarios ==
  {{Child(c1, f1, pattern), Child(c2, f2, Dummy), Child(nobody, f1, Dummy)},
   {Child(c1, f1, pattern), Child(c1, f2, pattern), Child(c2, f2, pattern),
    [door |-> "panel", key |-> c2, family |-> f2, secret |-> pattern]},
   {Parent(f1, f1), Parent(nobody, Dummy), Child(c1, nobody, Dummy)}}
=============================================================================

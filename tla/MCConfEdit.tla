---------------------------- MODULE MCConfEdit ----------------------------
(* ConfEdit on small sets: two users of one server, and a second server. *)
EXTENDS ConfEdit, TLC

CONSTANTS c1, c2, c3, u1, u2, s1, s2, d1, d2, p1, m1

SomeRequests ==
  {[kind |-> "setAuto", db |-> d1], [kind |-> "removeAuto", db |-> d1],
   [kind |-> "rename", db |-> d1, new |-> d2], [kind |-> "haOff", db |-> d1],
   [kind |-> "forget", db |-> d1], [kind |-> "raw"],
   [kind |-> "appendPlan", plan |-> p1], [kind |-> "updatePlan", plan |-> p1],
   [kind |-> "removePlan", plan |-> p1]}

SomeLists == {{}, {[id |-> p1, last |-> NoCall]}}

SomeKeys == {s1, s2, u1, u2}
===========================================================================

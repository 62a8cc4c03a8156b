-------------------------- MODULE MCAccountStore --------------------------
(* AccountStore on small sets: an account with two hosts in a group. *)
EXTENDS AccountStore, TLC

CONSTANTS c1, c2, c3, h1, h2, g1, n1, n2, n3, a1, a2, a3, p1, p2, f1

Used ==
  [Fresh(p1) EXCEPT
     !.groups = {g1},
     !.members = (g1 :> {[uid |-> h1, conn |-> n1, alias |-> a1],
                         [uid |-> h2, conn |-> n2, alias |-> a2]}) @@ @,
     !.default = (g1 :> h1) @@ @]

\* As a body of updateUser may have it: both hosts with the same connection.
Twins ==
  [Used EXCEPT !.pw = p2,
     !.members[g1] = {[uid |-> h1, conn |-> n1, alias |-> a1],
                      [uid |-> h2, conn |-> n1, alias |-> a2]}]

SomeAccounts == {Absent, Used}

Crowd ==
  {[kind |-> "register", pw |-> p2], [kind |-> "delete", pw |-> p1],
   [kind |-> "password", old |-> p1, new |-> p2],
   [kind |-> "addHost", conn |-> n3, alias |-> a3, group |-> NoGroup],
   [kind |-> "deleteGroup", group |-> g1],
   [kind |-> "updateHost", host |-> h2, conn |-> n1, alias |-> a3],
   [kind |-> "moveHost", host |-> h1, group |-> Ungrouped],
   [kind |-> "deleteHost", host |-> h1]}

Rest ==
  {[kind |-> "login", pw |-> p1], [kind |-> "prefs", fields |-> {f1}], [kind |-> "createGroup"],
   [kind |-> "renameGroup", group |-> g1], [kind |-> "markGroupHa", host |-> h1],
   [kind |-> "setDefault", group |-> g1, host |-> h2],
   [kind |-> "addHost", conn |-> n1, alias |-> a1, group |-> g1],
   [kind |-> "updateUser", keys |-> {"password"}, with |-> Twins],
   [kind |-> "updateUser", keys |-> {"host_groups"}, with |-> Twins]}

Few ==
  {[kind |-> "register", pw |-> p2], [kind |-> "delete", pw |-> p1],
   [kind |-> "password", old |-> p1, new |-> p2]}

SomeRequests == (c1 :> Crowd \cup Rest) @@ (c2 :> Crowd) @@ (c3 :> Few)
===========================================================================

----------------------------- MODULE HostGroups -----------------------------
(***************************************************************************)
(* A user's account as its users see it: each operation is one step.       *)
(* AccountStore has the steps an operation really takes, and implements    *)
(* this specification.                                                     *)
(***************************************************************************)
EXTENDS Account

VARIABLE account

Init == account \in StartAccounts

\* createUser; a failure may leave a file that nothing can read.
Register(pw) == account = Absent /\ account' \in {Fresh(pw), Torn}

Update(c, r) ==
  /\ account \notin {Absent, Torn} /\ r.kind \in Updates
  /\ IsNew(c, account)
  /\ account' \in Effects(c, r, account)

Remove == account # Absent /\ account' = Absent

Next ==
  \/ \E pw \in Passwords : Register(pw)
  \/ \E c \in Calls : \E r \in Requests[c] : Update(c, r)
  \/ Remove

Spec == Init /\ [][Next]_account

-----------------------------------------------------------------------------
(* Properties *)

\* Whatever is added, changed, moved and deleted: a host is in one group, a
\* group's default host is a host of it, no two hosts of a user have the same
\* connection or alias, and there are no more than the limit.  Only POST
\* /user/account takes an account out of this order, by replacing its host_groups.
HostsInOrder ==
  [][InOrder(account) /\ ~InOrder(account') =>
       \E c \in Calls : \E r \in Requests[c] : ReplacesHosts(r) /\ Update(c, r)]_account

\* It would not, if "only allowed fields can be updated (currently only department)"
\* (user.controller.ts:149).
HostsAlwaysInOrder == InOrder(account)
=============================================================================

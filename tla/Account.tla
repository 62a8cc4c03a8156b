------------------------------ MODULE Account -------------------------------
(***************************************************************************)
(* What a user's account holds and what the operations do to it: the       *)
(* password, the preferences, and the CMS hosts in their groups            *)
(* (host.service.ts, host-group.util.ts, user.service.ts).                 *)
(*                                                                         *)
(* A call that adds a host or a group makes a uuid for it; the call itself *)
(* stands for that uuid.  Group names are labels: only whether a user gave *)
(* one is kept.  Requests that are malformed whatever the account holds (a *)
(* blank alias or name) are left out, and so are bodies of POST            *)
(* /user/account whose host_groups are not a map of groups with hosts in   *)
(* it, or list a uid twice.                                                *)
(***************************************************************************)
EXTENDS Integers, FiniteSets

CONSTANTS
  Calls,
  OldHosts, OldGroups,  \* uuids given out before
  Ungrouped,            \* UNGROUPED_GROUP_ID
  NoHost, NoGroup, Keep, \* undefined
  Conns,                \* address, port and CMS user of a host
  Aliases, Passwords, Fields,
  MaxHosts,             \* 400
  Requests,             \* what each call may ask
  Absent,               \* there is no file
  Torn,                 \* a file without a whole account in it
  StartAccounts

Uids   == Calls \cup OldHosts
Groups == Calls \cup OldGroups \cup {Ungrouped}

-----------------------------------------------------------------------------
(* What it holds *)

Host == [uid : Uids, conn : Conns, alias : Aliases]

Account ==
  [pw : Passwords,
   prefs : SUBSET Fields,          \* preferences the user has changed
   groups : SUBSET Groups,
   members : [Groups -> SUBSET Host],
   default : [Groups -> Uids \cup {NoHost}],
   named : SUBSET Groups]          \* groups given another name

Fresh(pw) ==
  [pw |-> pw, prefs |-> {}, groups |-> {}, members |-> [g \in Groups |-> {}],
   default |-> [g \in Groups |-> NoHost], named |-> {}]

Request ==
  [kind : {"register", "login", "delete"}, pw : Passwords]
    \cup [kind : {"password"}, old : Passwords, new : Passwords]
    \cup [kind : {"prefs"}, fields : SUBSET Fields]
    \cup [kind : {"addHost"}, conn : Conns, alias : Aliases, group : Groups \cup {NoGroup}]
    \cup [kind : {"createGroup"}]
    \cup [kind : {"renameGroup", "deleteGroup"}, group : Groups]
    \cup [kind : {"setDefault"}, group : Groups, host : Uids \cup {NoHost}]
    \cup [kind : {"updateHost"}, host : Uids, conn : Conns \cup {Keep}, alias : Aliases \cup {Keep}]
    \cup [kind : {"moveHost"}, host : Uids, group : Groups]
    \cup [kind : {"deleteHost", "markGroupHa"}, host : Uids]
    \* keys of the body besides department, and what it has under them
    \cup [kind : {"updateUser"}, keys : SUBSET {"password", "user_preference", "host_groups"},
           with : Account]

ASSUME IdsAssumption ==
  /\ Ungrouped \notin Calls \cup OldGroups
  /\ NoHost \notin Uids /\ NoGroup \notin Groups /\ Keep \notin Conns \cup Aliases
  /\ Calls \cap (OldHosts \cup OldGroups) = {}

ASSUME RequestsAssumption == Requests \in [Calls -> SUBSET Request]

ASSUME FilesAssumption == Absent \notin Account /\ Torn \notin Account

ASSUME LimitAssumption == MaxHosts \in Nat

-----------------------------------------------------------------------------
(* What the operations make of it *)

Hosts(a) == UNION {a.members[g] : g \in Groups}

\* Variant: aliases are not compared.
ClashesByConn(a, uid, conn, alias) ==
  \E x \in Hosts(a) : x.uid # uid /\ x.conn = conn

\* findDuplicateHost, findDuplicateAlias
Clashes(a, uid, conn, alias) ==
  \E x \in Hosts(a) : x.uid # uid /\ (x.conn = conn \/ x.alias = alias)

WithUngrouped(a) == [a EXCEPT !.groups = @ \cup {Ungrouped}]

\* The first host of a group is its default.
Placed(a, g, x) ==
  [a EXCEPT !.members[g] = @ \cup {x},
            !.default[g] = IF @ = NoHost THEN x.uid ELSE @]

\* Variant: the default stays when its host goes.
TakenKeeping(a, g, x) == {[a EXCEPT !.members[g] = @ \ {x}]}

\* The host goes; a default that goes is replaced by one that is left, if any.
Taken(a, g, x) ==
  LET left == a.members[g] \ {x}
      next == IF left = {} THEN {NoHost} ELSE {y.uid : y \in left}
  IN {[a EXCEPT !.members[g] = left,
                !.default[g] = IF @ = x.uid THEN d ELSE @] : d \in next}

\* moveHostToGroup
Moved(a, g, x, target) ==
  LET b == IF target = Ungrouped THEN WithUngrouped(a) ELSE a IN
  IF g = target THEN {a}
  ELSE IF target \notin b.groups THEN {}
  ELSE {Placed(e, target, x) : e \in Taken(b, g, x)}

\* updateHost
Changed(a, g, x, conn, alias) ==
  LET y == [x EXCEPT !.conn = IF conn = Keep THEN @ ELSE conn,
                     !.alias = IF alias = Keep THEN @ ELSE alias]
  IN IF Clashes(a, x.uid, y.conn, y.alias) THEN {}
     ELSE {[a EXCEPT !.members[g] = (@ \ {x}) \cup {y}]}

Added(c, r, a) ==
  LET x == [uid |-> c, conn |-> r.conn, alias |-> r.alias] IN
  IF \/ Cardinality(Hosts(a)) >= MaxHosts \/ Clashes(a, c, r.conn, r.alias)
     \/ r.group # NoGroup /\ r.group \notin a.groups
  THEN {}
  ELSE IF r.group = NoGroup THEN {Placed(WithUngrouped(a), Ungrouped, x)}
       ELSE {Placed(a, r.group, x)}

\* Requests about a host: nothing comes of them if the user has no such host.
OfHost(r, a) ==
  UNION {UNION {
    CASE r.kind = "updateHost" -> Changed(a, g, x, r.conn, r.alias)
      [] r.kind = "moveHost"   -> Moved(a, g, x, r.group)
      [] r.kind = "deleteHost" -> Taken(a, g, x)
      [] r.kind = "markGroupHa" -> {[a EXCEPT !.named = @ \cup {g}]}
    : x \in {h \in a.members[g] : h.uid = r.host}} : g \in a.groups}

\* updateGroup, deleteGroup
OfGroup(r, a) ==
  CASE r.kind = "renameGroup" ->
         IF r.group \in a.groups \ {Ungrouped}
         THEN {[a EXCEPT !.named = @ \cup {r.group}]} ELSE {}
    [] r.kind = "setDefault" ->
         IF r.group \in a.groups
              /\ (r.host = NoHost \/ \E x \in a.members[r.group] : x.uid = r.host)
         THEN {[a EXCEPT !.default[r.group] = r.host]} ELSE {}
    [] r.kind = "deleteGroup" ->
         IF r.group = Ungrouped THEN {}
         ELSE {[a EXCEPT !.groups = @ \ {r.group}, !.named = @ \ {r.group},
                         !.members[r.group] = {}, !.default[r.group] = NoHost]}

\* updateUser: whatever the body has replaces what the account has.
Replaced(a, b, keys) ==
  LET hosts == IF "host_groups" \in keys THEN b ELSE a IN
  [pw |-> IF "password" \in keys THEN b.pw ELSE a.pw,
   prefs |-> IF "user_preference" \in keys THEN b.prefs ELSE a.prefs,
   groups |-> hosts.groups, members |-> hosts.members,
   default |-> hosts.default, named |-> hosts.named]

ReplacesHosts(r) == r.kind = "updateUser" /\ "host_groups" \in r.keys

Updates == {"password", "prefs", "addHost", "createGroup", "renameGroup", "setDefault",
            "deleteGroup", "updateHost", "moveHost", "deleteHost", "markGroupHa", "updateUser"}

\* A uuid is one that the account does not hold.
IsNew(c, a) == c \notin a.groups /\ \A x \in Hosts(a) : x.uid # c

\* The accounts that request r of call c may make of account a: none if it is refused.
Effects(c, r, a) ==
  CASE r.kind = "password" -> IF a.pw = r.old THEN {[a EXCEPT !.pw = r.new]} ELSE {}
    [] r.kind = "prefs" -> {[a EXCEPT !.prefs = @ \cup r.fields]}
    [] r.kind = "addHost" -> Added(c, r, a)
    [] r.kind = "createGroup" -> {[a EXCEPT !.groups = @ \cup {c}]}
    [] r.kind \in {"renameGroup", "setDefault", "deleteGroup"} -> OfGroup(r, a)
    [] r.kind \in {"updateHost", "moveHost", "deleteHost", "markGroupHa"} -> OfHost(r, a)
    [] r.kind = "updateUser" -> {Replaced(a, r.with, r.keys)}

-----------------------------------------------------------------------------
(* Accounts in order *)

OneGroupEach(a) ==
  \A g, h \in Groups : \A x \in a.members[g], y \in a.members[h] :
    x.uid = y.uid => g = h /\ x = y

DefaultsAreMembers(a) ==
  \A g \in Groups : a.default[g] # NoHost => \E x \in a.members[g] : x.uid = a.default[g]

HostsDiffer(a) ==
  \A x, y \in Hosts(a) : x.conn = y.conn \/ x.alias = y.alias => x.uid = y.uid

OnlyInGroups(a) ==
  \A g \in Groups \ a.groups : a.members[g] = {} /\ a.default[g] = NoHost

WithinLimit(a) == Cardinality(Hosts(a)) <= MaxHosts

WellFormed(a) ==
  /\ OneGroupEach(a) /\ DefaultsAreMembers(a) /\ OnlyInGroups(a)
  /\ HostsDiffer(a) /\ WithinLimit(a)

\* What a file holds, if it is an account, is in order.
InOrder(f) == f \notin {Absent, Torn} => WellFormed(f)

\* A body holds no uuid that is yet to be made.
ASSUME BodiesAssumption ==
  \A c \in Calls : \A r \in Requests[c] :
    r.kind = "updateUser" =>
      /\ OneGroupEach(r.with) /\ OnlyInGroups(r.with) /\ IsFiniteSet(Hosts(r.with))
      /\ \A d \in Calls : IsNew(d, r.with)

ASSUME StartAssumption ==
  \A a \in StartAccounts \ {Absent} :
    a \in Account /\ WellFormed(a) /\ IsFiniteSet(Hosts(a))
      /\ \A c \in Calls : IsNew(c, a)
=============================================================================

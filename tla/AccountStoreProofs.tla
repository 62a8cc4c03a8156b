------------------------- MODULE AccountStoreProofs -------------------------
(***************************************************************************)
(* Proofs about accounts and their files, for any users, hosts, groups and *)
(* limit, any calls, requests, failures and crashes.                       *)
(*                                                                         *)
(* First what the operations on an account do: each but an updateUser that *)
(* replaces the hosts keeps an account in order (EffectsInOrder), and none *)
(* puts a uuid into it that another call is yet to make (EffectsSound).    *)
(* Each operation is first described by what it leaves in the fields of    *)
(* the account, and only then shown to keep it in order.                   *)
(*                                                                         *)
(* Then the file: AccountStore implements HostGroups, and its file stays   *)
(* in order but for such an updateUser.  The invariant that carries both   *)
(* (StoreInv): the call that holds the lock is the only one past it, so    *)
(* what it read is what the file still holds when it writes (DraftInv), a  *)
(* half-made file belongs to it (FillInv), and the uuids of calls that     *)
(* have not written are in no account yet (NewInv).                        *)
(***************************************************************************)
EXTENDS AccountStore, FiniteSetTheorems, TLAPS

\* Accounts with finitely many hosts, and those of them in order.
Sound(a) == a \in Account /\ IsFiniteSet(Hosts(a))
Good(a)  == a \in Account /\ WellFormed(a) /\ IsFiniteSet(Hosts(a))

USE IdsAssumption, LimitAssumption

\* An account with the same hosts in the same groups, whose defaults are in order.
LEMMA SameMembers ==
  ASSUME NEW a, Good(a), NEW b \in Account, b.members = a.members,
         DefaultsAreMembers(b), OnlyInGroups(b)
  PROVE  Good(b)
<1>1. Hosts(b) = Hosts(a)
  BY DEF Hosts
<1>2. HostsDiffer(b) /\ WithinLimit(b) /\ OneGroupEach(b)
  BY <1>1 DEF Good, WellFormed, HostsDiffer, WithinLimit, OneGroupEach
<1> QED
  BY <1>1, <1>2 DEF Good, WellFormed

\* What register makes is in order.
LEMMA FreshInOrder ==
  ASSUME NEW pw \in Passwords
  PROVE  Good(Fresh(pw)) /\ Hosts(Fresh(pw)) = {} /\ Fresh(pw).groups = {}
<1> DEFINE a == Fresh(pw)
<1>1. a \in Account /\ a.groups = {} /\ a.members = [g \in Groups |-> {}]
        /\ a.default = [g \in Groups |-> NoHost]
  BY DEF Fresh, Account
<1>2. Hosts(a) = {}
  BY <1>1 DEF Hosts
<1>3. IsFiniteSet(Hosts(a)) /\ WithinLimit(a)
  BY <1>2, FS_EmptySet DEF WithinLimit
<1>4. OneGroupEach(a) /\ DefaultsAreMembers(a) /\ OnlyInGroups(a) /\ HostsDiffer(a)
  BY <1>1, <1>2 DEF OneGroupEach, DefaultsAreMembers, OnlyInGroups, HostsDiffer
<1> QED
  BY <1>1, <1>2, <1>3, <1>4 DEF Good, WellFormed

-----------------------------------------------------------------------------
(* A host comes, goes, or changes *)

\* addHostToGroup, field by field.
LEMMA PlacedFields ==
  ASSUME NEW a \in Account, NEW g \in Groups, NEW x \in Host
  PROVE  LET b == Placed(a, g, x) IN
         /\ b \in Account /\ b.groups = a.groups
         /\ b.members = [a.members EXCEPT ![g] = @ \cup {x}]
         /\ b.default = [a.default EXCEPT ![g] = IF @ = NoHost THEN x.uid ELSE @]
<1> DEFINE b == Placed(a, g, x)
           m == [a.members EXCEPT ![g] = @ \cup {x}]
           d == [a.default EXCEPT ![g] = IF @ = NoHost THEN x.uid ELSE @]
<1>1. b.groups = a.groups /\ b.members = m /\ b.default = d /\ b.pw = a.pw
        /\ b.prefs = a.prefs /\ b.named = a.named
  BY DEF Placed, Account
<1>2. m \in [Groups -> SUBSET Host] /\ d \in [Groups -> Uids \cup {NoHost}]
  BY DEF Account, Host
<1>3. b \in Account
  BY <1>1, <1>2 DEF Placed, Account
<1> QED
  BY <1>1, <1>3

\* A host that differs from all others, put into a group with room for one more.
LEMMA PlacedInOrder ==
  ASSUME NEW a, Good(a), NEW g \in a.groups, NEW x \in Host,
         \A y \in Hosts(a) : y.uid # x.uid /\ y.conn # x.conn /\ y.alias # x.alias,
         Cardinality(Hosts(a)) < MaxHosts
  PROVE  Good(Placed(a, g, x)) /\ Hosts(Placed(a, g, x)) = Hosts(a) \cup {x}
<1> DEFINE b == Placed(a, g, x)
<1>0. a \in Account /\ g \in Groups
  BY DEF Good, Account
<1>1. /\ b \in Account /\ b.groups = a.groups
      /\ b.members = [a.members EXCEPT ![g] = @ \cup {x}]
      /\ b.default = [a.default EXCEPT ![g] = IF @ = NoHost THEN x.uid ELSE @]
  BY <1>0, PlacedFields
<1>2. a.members \in [Groups -> SUBSET Host] /\ a.default \in [Groups -> Uids \cup {NoHost}]
  BY <1>0 DEF Account
<1> HIDE DEF b
<1>3. Hosts(b) = Hosts(a) \cup {x}
  BY <1>0, <1>1, <1>2 DEF Hosts
<1>4. IsFiniteSet(Hosts(b)) /\ Cardinality(Hosts(b)) = Cardinality(Hosts(a)) + 1
  <2>1. x \notin Hosts(a)
    OBVIOUS
  <2> QED
    BY <2>1, <1>3, FS_AddElement DEF Good
<1>5. WithinLimit(b)
  BY <1>4, FS_CardinalityType DEF WithinLimit, Good
<1>6. HostsDiffer(b)
  BY <1>3 DEF HostsDiffer, Good, WellFormed
<1>7. OneGroupEach(b)
  <2> SUFFICES ASSUME NEW h \in Groups, NEW k \in Groups,
                      NEW y \in b.members[h], NEW z \in b.members[k], y.uid = z.uid
               PROVE  h = k /\ y = z
    BY DEF OneGroupEach
  <2>1. (y \in a.members[h] \/ (h = g /\ y = x)) /\ (z \in a.members[k] \/ (k = g /\ z = x))
    BY <1>1, <1>2
  <2>2. (y \in a.members[h] => y.uid # x.uid) /\ (z \in a.members[k] => z.uid # x.uid)
    BY DEF Hosts
  <2> QED
    BY <2>1, <2>2 DEF Good, WellFormed, OneGroupEach
<1>8. DefaultsAreMembers(b)
  <2> SUFFICES ASSUME NEW h \in Groups, b.default[h] # NoHost
               PROVE  \E y \in b.members[h] : y.uid = b.default[h]
    BY DEF DefaultsAreMembers
  <2>1. CASE b.default[h] = a.default[h]
    <3>1. PICK y \in a.members[h] : y.uid = a.default[h]
      BY <2>1 DEF Good, WellFormed, DefaultsAreMembers
    <3> QED
      BY <3>1, <2>1, <1>1, <1>2
  <2>2. CASE b.default[h] # a.default[h]
    BY <2>2, <1>1, <1>2
  <2> QED
    BY <2>1, <2>2
<1>9. OnlyInGroups(b)
  BY <1>1, <1>2 DEF OnlyInGroups, Good, WellFormed
<1> QED
  BY <1>1, <1>3, <1>4, <1>5, <1>6, <1>7, <1>8, <1>9 DEF Good, WellFormed, b

\* removeHostFromUser, field by field.
LEMMA TakenFields ==
  ASSUME NEW a \in Account, NEW g \in Groups, NEW x \in a.members[g], NEW e \in Taken(a, g, x)
  PROVE  /\ e \in Account /\ e.groups = a.groups
         /\ e.members = [a.members EXCEPT ![g] = @ \ {x}]
         /\ \E d \in Uids \cup {NoHost} :
              /\ e.default = [a.default EXCEPT ![g] = IF @ = x.uid THEN d ELSE @]
              /\ d # NoHost => \E y \in a.members[g] \ {x} : y.uid = d
<1> DEFINE left == a.members[g] \ {x}
           next == IF left = {} THEN {NoHost} ELSE {y.uid : y \in left}
<1>1. PICK d \in next :
        e = [a EXCEPT !.members[g] = left, !.default[g] = IF @ = x.uid THEN d ELSE @]
  BY DEF Taken
<1> DEFINE m == [a.members EXCEPT ![g] = left]
           f == [a.default EXCEPT ![g] = IF @ = x.uid THEN d ELSE @]
<1>2. a.members[g] \subseteq Host
  BY DEF Account
<1>3. d \in Uids \cup {NoHost} /\ (d # NoHost => \E y \in left : y.uid = d)
  BY <1>2 DEF Host
<1>4. e.groups = a.groups /\ e.members = m /\ e.default = f /\ e.pw = a.pw
        /\ e.prefs = a.prefs /\ e.named = a.named
  BY <1>1 DEF Account
<1>5. m \in [Groups -> SUBSET Host] /\ f \in [Groups -> Uids \cup {NoHost}]
  BY <1>2, <1>3 DEF Account
<1>6. e \in Account
  BY <1>1, <1>4, <1>5 DEF Account
<1> QED
  BY <1>3, <1>4, <1>6

\* A host that goes leaves the others in order, and there is one less.
LEMMA TakenInOrder ==
  ASSUME NEW a, Good(a), NEW g \in Groups, NEW x \in a.members[g], NEW e \in Taken(a, g, x)
  PROVE  /\ Good(e) /\ Hosts(e) = Hosts(a) \ {x} /\ e.groups = a.groups
         /\ \A y \in Hosts(e) : y.uid # x.uid /\ y.conn # x.conn /\ y.alias # x.alias
         /\ Cardinality(Hosts(e)) < MaxHosts
<1>0. a \in Account
  BY DEF Good
<1>1. /\ e \in Account /\ e.groups = a.groups
      /\ e.members = [a.members EXCEPT ![g] = @ \ {x}]
      /\ \E d \in Uids \cup {NoHost} :
           /\ e.default = [a.default EXCEPT ![g] = IF @ = x.uid THEN d ELSE @]
           /\ d # NoHost => \E y \in a.members[g] \ {x} : y.uid = d
  BY <1>0, TakenFields
<1>2. PICK d \in Uids \cup {NoHost} :
        /\ e.default = [a.default EXCEPT ![g] = IF @ = x.uid THEN d ELSE @]
        /\ d # NoHost => \E y \in a.members[g] \ {x} : y.uid = d
  BY <1>1
<1>3. a.members \in [Groups -> SUBSET Host] /\ a.default \in [Groups -> Uids \cup {NoHost}]
        /\ x \in Host /\ x \in Hosts(a)
  BY <1>0 DEF Account, Hosts
<1>4. Hosts(e) = Hosts(a) \ {x}
  <2>1. ASSUME NEW y \in Hosts(a), y # x
        PROVE  y \in Hosts(e)
    BY <2>1, <1>1, <1>3 DEF Hosts
  <2>2. ASSUME NEW y \in Hosts(e)
        PROVE  y \in Hosts(a)
    BY <2>2, <1>1, <1>3 DEF Hosts
  <2>3. ASSUME NEW h \in Groups, x \in e.members[h]
        PROVE  FALSE
    <3>1. x \in a.members[h] /\ h # g
      BY <2>3, <1>1, <1>3
    <3> QED
      BY <3>1 DEF Good, WellFormed, OneGroupEach
  <2> QED
    BY <2>1, <2>2, <2>3 DEF Hosts
<1>5. \A y \in Hosts(e) : y.uid # x.uid /\ y.conn # x.conn /\ y.alias # x.alias
  <2> SUFFICES ASSUME NEW y \in Hosts(a), y # x
               PROVE  y.uid # x.uid /\ y.conn # x.conn /\ y.alias # x.alias
    BY <1>4
  <2>1. y.uid # x.uid
    BY <1>3 DEF Good, WellFormed, OneGroupEach, Hosts
  <2> QED
    BY <2>1, <1>3 DEF Good, WellFormed, HostsDiffer
<1>6. IsFiniteSet(Hosts(e)) /\ Cardinality(Hosts(e)) = Cardinality(Hosts(a)) - 1
  BY <1>3, <1>4, FS_RemoveElement DEF Good
<1>7. Cardinality(Hosts(e)) < MaxHosts
  BY <1>6, FS_CardinalityType DEF Good, WellFormed, WithinLimit
<1>8. WithinLimit(e)
  BY <1>7, <1>6, FS_CardinalityType DEF WithinLimit
<1>9. HostsDiffer(e)
  BY <1>4 DEF HostsDiffer, Good, WellFormed
<1>10. OneGroupEach(e)
  BY <1>1, <1>3 DEF OneGroupEach, Good, WellFormed
<1>11. DefaultsAreMembers(e)
  <2> SUFFICES ASSUME NEW h \in Groups, e.default[h] # NoHost
               PROVE  \E y \in e.members[h] : y.uid = e.default[h]
    BY DEF DefaultsAreMembers
  <2>1. CASE h = g /\ a.default[g] = x.uid
    BY <2>1, <1>1, <1>2, <1>3
  <2>2. CASE ~(h = g /\ a.default[g] = x.uid)
    <3>1. e.default[h] = a.default[h]
      BY <2>2, <1>2, <1>3
    <3>2. PICK y \in a.members[h] : y.uid = a.default[h]
      BY <3>1 DEF Good, WellFormed, DefaultsAreMembers
    <3>3. y \in e.members[h]
      BY <3>2, <2>2, <1>1, <1>3
    <3> QED
      BY <3>1, <3>2, <3>3
  <2> QED
    BY <2>1, <2>2
<1>12. OnlyInGroups(e)
  <2> SUFFICES ASSUME NEW h \in Groups, h \notin a.groups
               PROVE  e.members[h] = {} /\ e.default[h] = NoHost
    BY <1>1 DEF OnlyInGroups
  <2>1. a.members[h] = {} /\ a.default[h] = NoHost /\ h # g
    BY DEF Good, WellFormed, OnlyInGroups
  <2> QED
    BY <2>1, <1>1, <1>2, <1>3
<1> QED
  BY <1>1, <1>4, <1>5, <1>6, <1>7, <1>8, <1>9, <1>10, <1>11, <1>12 DEF Good, WellFormed

\* The bucket for hosts without a group.
LEMMA WithUngroupedInOrder ==
  ASSUME NEW a, Good(a)
  PROVE  /\ Good(WithUngrouped(a)) /\ WithUngrouped(a).members = a.members
         /\ WithUngrouped(a).groups = a.groups \cup {Ungrouped}
<1> DEFINE b == WithUngrouped(a)
<1>1. /\ b \in Account /\ b.members = a.members /\ b.default = a.default
      /\ b.groups = a.groups \cup {Ungrouped}
  BY DEF WithUngrouped, Good, Account, Groups
<1>2. DefaultsAreMembers(b) /\ OnlyInGroups(b)
  BY <1>1 DEF DefaultsAreMembers, OnlyInGroups, Good, WellFormed
<1> QED
  BY <1>1, <1>2, SameMembers

-----------------------------------------------------------------------------
(* The operations *)

\* An account in order, with no uuid in it but c and those of a.
Kept(c, a, e) ==
  /\ Good(e)
  /\ \A y \in Hosts(e) : y.uid = c \/ \E z \in Hosts(a) : z.uid = y.uid
  /\ e.groups \subseteq a.groups \cup {c, Ungrouped}

\* moveHost keeps the account in order.
LEMMA MovedInOrder ==
  ASSUME NEW c, NEW a, Good(a), NEW g \in Groups, NEW x \in a.members[g],
         NEW target \in Groups, NEW e \in Moved(a, g, x, target)
  PROVE  Kept(c, a, e)
<1> DEFINE b == IF target = Ungrouped THEN WithUngrouped(a) ELSE a
<1>1. /\ Good(b) /\ b.members = a.members /\ a.groups \subseteq b.groups
      /\ b.groups \subseteq a.groups \cup {Ungrouped}
  BY WithUngroupedInOrder
<1>2. Hosts(b) = Hosts(a)
  BY <1>1 DEF Hosts
<1> HIDE DEF b
<1>3. CASE g = target
  <2>1. e = a
    BY <1>3 DEF Moved
  <2> QED
    BY <2>1 DEF Kept
<1>4. CASE g # target
  <2>1. target \in b.groups /\ \E f \in Taken(b, g, x) : e = Placed(f, target, x)
    BY <1>4 DEF Moved, b
  <2>2. PICK f \in Taken(b, g, x) : e = Placed(f, target, x)
    BY <2>1
  <2>3. x \in b.members[g] /\ x \in Host /\ x \in Hosts(a)
    BY <1>1 DEF Good, Account, Hosts
  <2>4. /\ Good(f) /\ Hosts(f) = Hosts(b) \ {x} /\ f.groups = b.groups
        /\ \A y \in Hosts(f) : y.uid # x.uid /\ y.conn # x.conn /\ y.alias # x.alias
        /\ Cardinality(Hosts(f)) < MaxHosts
    BY <1>1, <2>2, <2>3, TakenInOrder
  <2>5. Good(e) /\ Hosts(e) = Hosts(f) \cup {x}
    BY <2>1, <2>2, <2>3, <2>4, PlacedInOrder
  <2>6. f \in Account
    BY <2>4 DEF Good
  <2>7. e.groups = b.groups
    BY <2>2, <2>4, <2>6 DEF Placed, Account
  <2>8. Hosts(e) = Hosts(a)
    BY <2>5, <2>4, <2>3, <1>2
  <2> QED
    BY <2>5, <2>7, <2>8, <1>1 DEF Kept
<1> QED
  BY <1>3, <1>4

\* updateHost: a host changes its connection and its alias where it is.
LEMMA ChangedInOrder ==
  ASSUME NEW c, NEW a, Good(a), NEW g \in Groups, NEW x \in a.members[g],
         NEW conn \in Conns \cup {Keep}, NEW alias \in Aliases \cup {Keep},
         NEW e \in Changed(a, g, x, conn, alias)
  PROVE  Kept(c, a, e)
<1> DEFINE y == [x EXCEPT !.conn = IF conn = Keep THEN @ ELSE conn,
                          !.alias = IF alias = Keep THEN @ ELSE alias]
           m == [a.members EXCEPT ![g] = (@ \ {x}) \cup {y}]
<1>0. a \in Account /\ x \in Host /\ x \in Hosts(a)
  BY DEF Good, Account, Hosts
<1>1. y \in Host /\ y.uid = x.uid
  BY <1>0 DEF Host
<1>2. ~Clashes(a, x.uid, y.conn, y.alias) /\ e = [a EXCEPT !.members[g] = (@ \ {x}) \cup {y}]
  BY DEF Changed
<1>3. m \in [Groups -> SUBSET Host]
  BY <1>0, <1>1 DEF Account
<1>4. e.members = m /\ e.groups = a.groups /\ e.default = a.default
  BY <1>0, <1>2 DEF Account
<1>5. e \in Account
  BY <1>0, <1>2, <1>3 DEF Account
<1> HIDE DEF y
<1>6. a.members \in [Groups -> SUBSET Host]
  BY <1>0 DEF Account
<1>7. \A z \in Hosts(a) : z # x => z.uid # x.uid /\ z.conn # y.conn /\ z.alias # y.alias
  <2>1. \A z \in Hosts(a) : z # x => z.uid # x.uid
    BY <1>0 DEF Hosts, Good, WellFormed, OneGroupEach
  <2> QED
    BY <2>1, <1>2 DEF Clashes
<1>8. \A h \in Groups : x \in a.members[h] => h = g
  BY DEF Good, WellFormed, OneGroupEach
<1>9. Hosts(e) = (Hosts(a) \ {x}) \cup {y}
  <2>1. \A z : z \in Hosts(e) <=> \E h \in Groups : z \in m[h]
    BY <1>4 DEF Hosts
  <2>2. \A z : z \in Hosts(a) <=> \E h \in Groups : z \in a.members[h]
    BY DEF Hosts
  <2>3. \A h \in Groups : m[h] = IF h = g THEN (a.members[g] \ {x}) \cup {y} ELSE a.members[h]
    BY <1>6
  <2> HIDE DEF m
  <2>4. ASSUME NEW z \in Hosts(e)
        PROVE  z \in (Hosts(a) \ {x}) \cup {y}
    BY <2>1, <2>2, <2>3, <2>4, <1>8
  <2>5. ASSUME NEW z \in (Hosts(a) \ {x}) \cup {y}
        PROVE  z \in Hosts(e)
    BY <2>1, <2>2, <2>3, <2>5
  <2> QED
    BY <2>4, <2>5
<1>10. IsFiniteSet(Hosts(e)) /\ WithinLimit(e)
  <2>1. IsFiniteSet(Hosts(a) \ {x}) /\ Cardinality(Hosts(a) \ {x}) = Cardinality(Hosts(a)) - 1
    BY <1>0, FS_RemoveElement DEF Good
  <2>2. IsFiniteSet(Hosts(e)) /\ Cardinality(Hosts(e)) <= Cardinality(Hosts(a) \ {x}) + 1
    <3> DEFINE S == Hosts(a) \ {x}
    <3>1. IsFiniteSet(S \cup {y}) /\ Cardinality(S) \in Nat
            /\ Cardinality(S \cup {y}) = IF y \in S THEN Cardinality(S) ELSE Cardinality(S) + 1
      <4> HIDE DEF S
      <4> QED
        BY <2>1, FS_AddElement, FS_CardinalityType DEF S
    <3> QED
      BY <3>1, <1>9
  <2> QED
    BY <2>1, <2>2, FS_CardinalityType DEF Good, WellFormed, WithinLimit
<1>11. HostsDiffer(e)
  BY <1>9, <1>7 DEF HostsDiffer, Good, WellFormed
<1>12. OneGroupEach(e)
  <2> SUFFICES ASSUME NEW h \in Groups, NEW k \in Groups,
                      NEW p \in e.members[h], NEW q \in e.members[k], p.uid = q.uid
               PROVE  h = k /\ p = q
    BY DEF OneGroupEach
  <2>1. /\ (p \in a.members[h] /\ p # x) \/ (h = g /\ p = y)
        /\ (q \in a.members[k] /\ q # x) \/ (k = g /\ q = y)
    BY <1>4, <1>6, <1>8
  <2>2. (p \in a.members[h] => p \in Hosts(a)) /\ (q \in a.members[k] => q \in Hosts(a))
    BY DEF Hosts
  <2> QED
    BY <2>1, <2>2, <1>1, <1>7 DEF Good, WellFormed, OneGroupEach
<1>13. DefaultsAreMembers(e)
  <2> SUFFICES ASSUME NEW h \in Groups, a.default[h] # NoHost
               PROVE  \E z \in e.members[h] : z.uid = a.default[h]
    BY <1>4 DEF DefaultsAreMembers
  <2>1. PICK z \in a.members[h] : z.uid = a.default[h]
    BY DEF Good, WellFormed, DefaultsAreMembers
  <2>2. CASE z = x
    BY <2>1, <2>2, <1>1, <1>4, <1>6, <1>8
  <2>3. CASE z # x
    BY <2>1, <2>3, <1>4, <1>6
  <2> QED
    BY <2>2, <2>3
<1>14. OnlyInGroups(e)
  BY <1>4, <1>6 DEF OnlyInGroups, Good, WellFormed
<1> QED
  BY <1>0, <1>1, <1>4, <1>5, <1>9, <1>10, <1>11, <1>12, <1>13, <1>14 DEF Good, WellFormed, Kept

\* addHost, with a uuid that is new.
LEMMA AddedInOrder ==
  ASSUME NEW c \in Calls, NEW a, Good(a), IsNew(c, a),
         NEW r \in [kind : {"addHost"}, conn : Conns, alias : Aliases, group : Groups \cup {NoGroup}],
         NEW e \in Added(c, r, a)
  PROVE  Kept(c, a, e)
<1> DEFINE x == [uid |-> c, conn |-> r.conn, alias |-> r.alias]
<1>1. x \in Host
  BY DEF Host, Uids
<1>2. /\ ~(Cardinality(Hosts(a)) >= MaxHosts) /\ ~Clashes(a, c, r.conn, r.alias)
      /\ r.group # NoGroup => r.group \in a.groups
      /\ e \in IF r.group = NoGroup THEN {Placed(WithUngrouped(a), Ungrouped, x)}
               ELSE {Placed(a, r.group, x)}
  BY DEF Added
<1>3. Cardinality(Hosts(a)) < MaxHosts
  BY <1>2, FS_CardinalityType DEF Good
<1>4. \A y \in Hosts(a) : y.uid # x.uid /\ y.conn # x.conn /\ y.alias # x.alias
  BY <1>2 DEF Clashes, IsNew
<1> HIDE DEF x
<1>5. x.uid = c
  BY DEF x
<1>6. CASE r.group = NoGroup
  <2> DEFINE b == WithUngrouped(a)
  <2>1. Good(b) /\ b.members = a.members /\ b.groups = a.groups \cup {Ungrouped}
    BY WithUngroupedInOrder
  <2>2. Hosts(b) = Hosts(a) /\ e = Placed(b, Ungrouped, x) /\ b \in Account
    BY <1>2, <1>6, <2>1 DEF Hosts, Good
  <2> HIDE DEF b
  <2>3. Good(e) /\ Hosts(e) = Hosts(b) \cup {x}
    BY <1>1, <1>3, <1>4, <2>1, <2>2, PlacedInOrder
  <2>4. e.groups = b.groups
    BY <2>2 DEF Placed, Account
  <2> QED
    BY <1>5, <2>1, <2>2, <2>3, <2>4 DEF Kept
<1>7. CASE r.group # NoGroup
  <2>1. r.group \in a.groups /\ e = Placed(a, r.group, x) /\ a \in Account
    BY <1>2, <1>7 DEF Good
  <2>2. Good(e) /\ Hosts(e) = Hosts(a) \cup {x}
    BY <1>1, <1>3, <1>4, <2>1, PlacedInOrder
  <2>3. e.groups = a.groups
    BY <2>1 DEF Placed, Account
  <2> QED
    BY <1>5, <2>2, <2>3 DEF Kept
<1> QED
  BY <1>6, <1>7

\* Requests of one kind have that kind's fields.
LEMMA RequestFields ==
  ASSUME NEW r \in Request
  PROVE  /\ r.kind \in Updates \cup {"register", "login", "delete"}
         /\ r.kind \in {"register", "login", "delete"} => r.pw \in Passwords
         /\ r.kind = "password" => r.new \in Passwords
         /\ r.kind = "prefs" => r.fields \subseteq Fields
         /\ r.kind = "addHost" =>
              r \in [kind : {"addHost"}, conn : Conns, alias : Aliases, group : Groups \cup {NoGroup}]
         /\ r.kind \in {"renameGroup", "deleteGroup", "setDefault"} => r.group \in Groups
         /\ r.kind = "setDefault" => r.host \in Uids \cup {NoHost}
         /\ r.kind = "updateHost" => r.conn \in Conns \cup {Keep} /\ r.alias \in Aliases \cup {Keep}
         /\ r.kind = "moveHost" => r.group \in Groups
         /\ r.kind = "updateUser" => r.with \in Account
  BY DEF Request, Updates

\* Another name for a group.
LEMMA NamedInOrder ==
  ASSUME NEW c, NEW a, Good(a), NEW g \in Groups, NEW e, e = [a EXCEPT !.named = @ \cup {g}]
  PROVE  Kept(c, a, e)
<1>1. e \in Account /\ e.members = a.members /\ e.default = a.default /\ e.groups = a.groups
  BY DEF Good, Account
<1>2. DefaultsAreMembers(e) /\ OnlyInGroups(e)
  BY <1>1 DEF DefaultsAreMembers, OnlyInGroups, Good, WellFormed
<1>3. Good(e)
  BY <1>1, <1>2, SameMembers
<1>4. Hosts(e) = Hosts(a)
  BY <1>1 DEF Hosts
<1> QED
  BY <1>1, <1>3, <1>4 DEF Kept

\* Operations on the group of a host.
LEMMA OfHostInOrder ==
  ASSUME NEW c, NEW a, Good(a), NEW r \in Request,
         r.kind \in {"updateHost", "moveHost", "deleteHost", "markGroupHa"},
         NEW e \in OfHost(r, a)
  PROVE  Kept(c, a, e)
<1> DEFINE made(g, x) ==
             CASE r.kind = "updateHost" -> Changed(a, g, x, r.conn, r.alias)
               [] r.kind = "moveHost"   -> Moved(a, g, x, r.group)
               [] r.kind = "deleteHost" -> Taken(a, g, x)
               [] r.kind = "markGroupHa" -> {[a EXCEPT !.named = @ \cup {g}]}
<1>a. PICK g \in a.groups : \E x \in a.members[g] : e \in made(g, x)
  BY DEF OfHost
<1>1. PICK x \in a.members[g] : e \in made(g, x)
  BY <1>a
<1>2. g \in Groups /\ a \in Account
  BY DEF Good, Account
<1>3. CASE r.kind = "updateHost"
  <2>1. e \in Changed(a, g, x, r.conn, r.alias)
    BY <1>1, <1>3
  <2>2. r.conn \in Conns \cup {Keep} /\ r.alias \in Aliases \cup {Keep}
    BY <1>3, RequestFields
  <2> QED
    BY <1>2, <2>1, <2>2, ChangedInOrder
<1>4. CASE r.kind = "moveHost"
  <2>1. e \in Moved(a, g, x, r.group)
    BY <1>1, <1>4
  <2>2. r.group \in Groups
    BY <1>4, RequestFields
  <2> QED
    BY <1>2, <2>1, <2>2, MovedInOrder
<1>5. CASE r.kind = "deleteHost"
  <2>1. e \in Taken(a, g, x)
    BY <1>1, <1>5
  <2>2. Good(e) /\ Hosts(e) = Hosts(a) \ {x} /\ e.groups = a.groups
    BY <1>2, <2>1, TakenInOrder
  <2> QED
    BY <2>2 DEF Kept
<1>6. CASE r.kind = "markGroupHa"
  <2>1. e = [a EXCEPT !.named = @ \cup {g}]
    BY <1>1, <1>6
  <2> QED
    BY <1>2, <2>1, NamedInOrder
<1> QED
  BY <1>3, <1>4, <1>5, <1>6

\* A group goes, with the hosts in it.
LEMMA GroupDropped ==
  ASSUME NEW c, NEW a, Good(a), NEW g \in Groups, NEW e,
         e = [a EXCEPT !.groups = @ \ {g}, !.named = @ \ {g},
                       !.members[g] = {}, !.default[g] = NoHost]
  PROVE  Kept(c, a, e)
<1> DEFINE m == [a.members EXCEPT ![g] = {}]
           d == [a.default EXCEPT ![g] = NoHost]
<1>0. a \in Account /\ a.members \in [Groups -> SUBSET Host] /\ a.default \in [Groups -> Uids \cup {NoHost}]
  BY DEF Good, Account
<1>1. e.groups = a.groups \ {g} /\ e.members = m /\ e.default = d
  BY <1>0 DEF Account
<1>2. m \in [Groups -> SUBSET Host] /\ d \in [Groups -> Uids \cup {NoHost}]
  BY <1>0
<1>3. e \in Account
  BY <1>0, <1>2 DEF Account
<1>4. \A h \in Groups : e.members[h] = IF h = g THEN {} ELSE a.members[h]
  BY <1>0, <1>1
<1>5. \A h \in Groups : e.default[h] = IF h = g THEN NoHost ELSE a.default[h]
  BY <1>0, <1>1
<1> HIDE DEF m, d
<1>6. Hosts(e) \subseteq Hosts(a)
  BY <1>4 DEF Hosts
<1>7. IsFiniteSet(Hosts(e)) /\ WithinLimit(e)
  <2>1. IsFiniteSet(Hosts(e)) /\ Cardinality(Hosts(e)) <= Cardinality(Hosts(a))
    BY <1>6, FS_Subset DEF Good
  <2> QED
    BY <2>1, FS_CardinalityType DEF Good, WellFormed, WithinLimit
<1>8. HostsDiffer(e)
  BY <1>6 DEF HostsDiffer, Good, WellFormed
<1>9. OneGroupEach(e)
  BY <1>4 DEF OneGroupEach, Good, WellFormed
<1>10. DefaultsAreMembers(e)
  BY <1>4, <1>5 DEF DefaultsAreMembers, Good, WellFormed
<1>11. OnlyInGroups(e)
  BY <1>1, <1>4, <1>5 DEF OnlyInGroups, Good, WellFormed
<1> QED
  BY <1>1, <1>3, <1>6, <1>7, <1>8, <1>9, <1>10, <1>11 DEF Good, WellFormed, Kept

\* Operations on a group by its id.
LEMMA OfGroupInOrder ==
  ASSUME NEW c, NEW a, Good(a), NEW r \in Request,
         r.kind \in {"renameGroup", "setDefault", "deleteGroup"},
         NEW e \in OfGroup(r, a)
  PROVE  Kept(c, a, e)
<1>0. r.group \in Groups /\ a \in Account
  BY RequestFields DEF Good
<1>1. CASE r.kind = "renameGroup"
  <2>1. e = [a EXCEPT !.named = @ \cup {r.group}]
    BY <1>1 DEF OfGroup
  <2> QED
    BY <1>0, <2>1, NamedInOrder
<1>2. CASE r.kind = "setDefault"
  <2> DEFINE d == [a.default EXCEPT ![r.group] = r.host]
  <2>1. /\ e = [a EXCEPT !.default[r.group] = r.host] /\ r.group \in a.groups
        /\ r.host = NoHost \/ \E x \in a.members[r.group] : x.uid = r.host
    BY <1>2 DEF OfGroup
  <2>2. r.host \in Uids \cup {NoHost} /\ a.default \in [Groups -> Uids \cup {NoHost}]
    BY <1>0, <1>2, RequestFields DEF Account
  <2>3. d \in [Groups -> Uids \cup {NoHost}]
    BY <2>2
  <2>4. e \in Account /\ e.members = a.members /\ e.groups = a.groups /\ e.default = d
    BY <1>0, <2>1, <2>3 DEF Account
  <2>5. DefaultsAreMembers(e)
    BY <2>1, <2>2, <2>4 DEF DefaultsAreMembers, Good, WellFormed
  <2>6. OnlyInGroups(e)
    BY <2>1, <2>2, <2>4 DEF OnlyInGroups, Good, WellFormed
  <2>7. Good(e)
    BY <2>4, <2>5, <2>6, SameMembers
  <2>8. Hosts(e) = Hosts(a)
    BY <2>4 DEF Hosts
  <2> QED
    BY <2>4, <2>7, <2>8 DEF Kept
<1>3. CASE r.kind = "deleteGroup"
  <2>1. e = [a EXCEPT !.groups = @ \ {r.group}, !.named = @ \ {r.group},
                      !.members[r.group] = {}, !.default[r.group] = NoHost]
    BY <1>3 DEF OfGroup
  <2> QED
    BY <1>0, <2>1, GroupDropped
<1> QED
  BY <1>1, <1>2, <1>3

-----------------------------------------------------------------------------
(* Accounts in any order *)

\* An account with no uuid in it but c and those of a.
Adds(c, a, e) ==
  /\ Sound(e)
  /\ \A y \in Hosts(e) : y.uid = c \/ \E z \in Hosts(a) : z.uid = y.uid
  /\ e.groups \subseteq a.groups \cup {c, Ungrouped}

LEMMA AddsHosts ==
  ASSUME NEW c, NEW a, Sound(a), NEW e \in Account, NEW S, IsFiniteSet(S),
         \A g \in Groups : e.members[g] \subseteq Hosts(a) \cup S,
         \A y \in S : y.uid = c \/ \E z \in Hosts(a) : z.uid = y.uid,
         e.groups \subseteq a.groups \cup {c, Ungrouped}
  PROVE  Adds(c, a, e)
<1>1. Hosts(e) \subseteq Hosts(a) \cup S
  BY DEF Hosts
<1>2. IsFiniteSet(Hosts(a) \cup S)
  BY FS_Union DEF Sound
<1>3. IsFiniteSet(Hosts(e))
  BY <1>1, <1>2, FS_Subset
<1> QED
  BY <1>1, <1>3 DEF Adds, Sound

LEMMA AddsNone ==
  ASSUME NEW c, NEW a, Sound(a), NEW e \in Account,
         \A g \in Groups : e.members[g] \subseteq a.members[g],
         e.groups \subseteq a.groups \cup {c, Ungrouped}
  PROVE  Adds(c, a, e)
<1>1. IsFiniteSet({})
  BY FS_EmptySet
<1>2. \A g \in Groups : e.members[g] \subseteq Hosts(a) \cup {}
  BY DEF Hosts
<1> QED
  BY <1>1, <1>2, AddsHosts

LEMMA PlacedMembers ==
  ASSUME NEW a \in Account, NEW g \in Groups, NEW x \in Host
  PROVE  /\ Placed(a, g, x) \in Account /\ Placed(a, g, x).groups = a.groups
         /\ \A h \in Groups : Placed(a, g, x).members[h] \subseteq a.members[h] \cup {x}
<1> DEFINE e == Placed(a, g, x)
           m == [a.members EXCEPT ![g] = @ \cup {x}]
<1>1. /\ e \in Account /\ e.groups = a.groups
      /\ e.members = m
      /\ e.default = [a.default EXCEPT ![g] = IF @ = NoHost THEN x.uid ELSE @]
  BY PlacedFields
<1>2. a.members \in [Groups -> SUBSET Host]
  BY DEF Account
<1> HIDE DEF e
<1>3. \A h \in Groups : m[h] \subseteq a.members[h] \cup {x}
  BY <1>2
<1> QED
  BY <1>1, <1>3 DEF e

\* A host put into a group, that has a new uuid or one of the account's.
LEMMA PlacedAdds ==
  ASSUME NEW c, NEW a, Sound(a), NEW b \in Account, NEW g \in Groups, NEW x \in Host,
         x.uid = c \/ x \in Hosts(a),
         \A h \in Groups : b.members[h] \subseteq a.members[h],
         b.groups \subseteq a.groups \cup {c, Ungrouped}
  PROVE  Adds(c, a, Placed(b, g, x))
<1> DEFINE e == Placed(b, g, x)
<1>1. /\ e \in Account /\ e.groups = b.groups
      /\ \A h \in Groups : e.members[h] \subseteq b.members[h] \cup {x}
  BY PlacedMembers
<1> HIDE DEF e
<1>3. \A h \in Groups : e.members[h] \subseteq Hosts(a) \cup {x}
  BY <1>1 DEF Hosts
<1>4. IsFiniteSet({x})
  BY FS_Singleton
<1>5. Adds(c, a, e)
  BY <1>1, <1>3, <1>4, AddsHosts
<1> QED
  BY <1>5 DEF e

LEMMA UngroupedFields ==
  ASSUME NEW a \in Account
  PROVE  /\ WithUngrouped(a) \in Account /\ WithUngrouped(a).members = a.members
         /\ WithUngrouped(a).groups = a.groups \cup {Ungrouped}
  BY DEF WithUngrouped, Account, Groups

LEMMA AddedAdds ==
  ASSUME NEW c \in Calls, NEW a, Sound(a),
         NEW r \in [kind : {"addHost"}, conn : Conns, alias : Aliases, group : Groups \cup {NoGroup}],
         NEW e \in Added(c, r, a)
  PROVE  Adds(c, a, e)
<1> DEFINE x == [uid |-> c, conn |-> r.conn, alias |-> r.alias]
<1>1. x \in Host /\ x.uid = c
  BY DEF Host, Uids
<1>2. a \in Account /\ Ungrouped \in Groups
  BY DEF Sound, Groups
<1>3. e \in IF r.group = NoGroup THEN {Placed(WithUngrouped(a), Ungrouped, x)}
            ELSE {Placed(a, r.group, x)}
  BY DEF Added
<1> HIDE DEF x
<1>4. CASE r.group = NoGroup
  <2>1. e = Placed(WithUngrouped(a), Ungrouped, x)
    BY <1>3, <1>4
  <2> QED
    BY <1>1, <1>2, <2>1, UngroupedFields, PlacedAdds
<1>5. CASE r.group # NoGroup
  <2>1. e = Placed(a, r.group, x) /\ r.group \in Groups
    BY <1>3, <1>5
  <2> QED
    BY <1>1, <1>2, <2>1, PlacedAdds
<1> QED
  BY <1>4, <1>5

LEMMA MovedAdds ==
  ASSUME NEW c, NEW a, Sound(a), NEW g \in Groups, NEW x \in a.members[g],
         NEW target \in Groups, NEW e \in Moved(a, g, x, target)
  PROVE  Adds(c, a, e)
<1> DEFINE b == IF target = Ungrouped THEN WithUngrouped(a) ELSE a
<1>1. /\ b \in Account /\ b.members = a.members /\ b.groups \subseteq a.groups \cup {Ungrouped}
      /\ a \in Account /\ x \in Host /\ x \in Hosts(a)
  BY UngroupedFields DEF Sound, Account, Hosts
<1> HIDE DEF b
<1>2. CASE g = target
  <2>1. e = a
    BY <1>2 DEF Moved
  <2> QED
    BY <1>1, <2>1, AddsNone
<1>3. CASE g # target
  <2>1. \E f \in Taken(b, g, x) : e = Placed(f, target, x)
    BY <1>3 DEF Moved, b
  <2>2. PICK f \in Taken(b, g, x) : e = Placed(f, target, x)
    BY <2>1
  <2>3. f \in Account /\ f.groups = b.groups /\ f.members = [b.members EXCEPT ![g] = @ \ {x}]
    BY <1>1, TakenFields
  <2>4. \A h \in Groups : f.members[h] \subseteq a.members[h]
    BY <1>1, <2>3 DEF Account
  <2> QED
    BY <1>1, <2>2, <2>3, <2>4, PlacedAdds
<1> QED
  BY <1>2, <1>3

LEMMA ChangedAdds ==
  ASSUME NEW c, NEW a, Sound(a), NEW g \in Groups, NEW x \in a.members[g],
         NEW conn \in Conns \cup {Keep}, NEW alias \in Aliases \cup {Keep},
         NEW e \in Changed(a, g, x, conn, alias)
  PROVE  Adds(c, a, e)
<1> DEFINE y == [x EXCEPT !.conn = IF conn = Keep THEN @ ELSE conn,
                          !.alias = IF alias = Keep THEN @ ELSE alias]
           m == [a.members EXCEPT ![g] = (@ \ {x}) \cup {y}]
<1>0. a \in Account /\ x \in Host /\ x \in Hosts(a)
  BY DEF Sound, Account, Hosts
<1>1. y \in Host /\ y.uid = x.uid
  BY <1>0 DEF Host
<1>2. e = [a EXCEPT !.members[g] = (@ \ {x}) \cup {y}]
  BY DEF Changed
<1>3. m \in [Groups -> SUBSET Host]
  BY <1>0, <1>1 DEF Account
<1>4. e.members = m /\ e.groups = a.groups
  BY <1>0, <1>2 DEF Account
<1>5. e \in Account
  BY <1>0, <1>2, <1>3 DEF Account
<1> HIDE DEF y
<1>6. \A h \in Groups : e.members[h] \subseteq Hosts(a) \cup {y}
  BY <1>0, <1>4 DEF Account, Hosts
<1>7. IsFiniteSet({y})
  BY FS_Singleton
<1> QED
  BY <1>0, <1>1, <1>4, <1>5, <1>6, <1>7, AddsHosts

LEMMA NamedAdds ==
  ASSUME NEW c, NEW a, Sound(a), NEW g \in Groups, NEW e, e = [a EXCEPT !.named = @ \cup {g}]
  PROVE  Adds(c, a, e)
<1>1. e \in Account /\ e.members = a.members /\ e.groups = a.groups
  BY DEF Sound, Account
<1> QED
  BY <1>1, AddsNone

LEMMA OfHostAdds ==
  ASSUME NEW c, NEW a, Sound(a), NEW r \in Request,
         r.kind \in {"updateHost", "moveHost", "deleteHost", "markGroupHa"},
         NEW e \in OfHost(r, a)
  PROVE  Adds(c, a, e)
<1> DEFINE made(g, x) ==
             CASE r.kind = "updateHost" -> Changed(a, g, x, r.conn, r.alias)
               [] r.kind = "moveHost"   -> Moved(a, g, x, r.group)
               [] r.kind = "deleteHost" -> Taken(a, g, x)
               [] r.kind = "markGroupHa" -> {[a EXCEPT !.named = @ \cup {g}]}
<1>a. PICK g \in a.groups : \E x \in a.members[g] : e \in made(g, x)
  BY DEF OfHost
<1>1. PICK x \in a.members[g] : e \in made(g, x)
  BY <1>a
<1>2. g \in Groups /\ a \in Account
  BY DEF Sound, Account
<1>3. CASE r.kind = "updateHost"
  <2>1. e \in Changed(a, g, x, r.conn, r.alias)
    BY <1>1, <1>3
  <2>2. r.conn \in Conns \cup {Keep} /\ r.alias \in Aliases \cup {Keep}
    BY <1>3, RequestFields
  <2> QED
    BY <1>2, <2>1, <2>2, ChangedAdds
<1>4. CASE r.kind = "moveHost"
  <2>1. e \in Moved(a, g, x, r.group) /\ r.group \in Groups
    BY <1>1, <1>4, RequestFields
  <2> QED
    BY <1>2, <2>1, MovedAdds
<1>5. CASE r.kind = "deleteHost"
  <2>1. e \in Taken(a, g, x)
    BY <1>1, <1>5
  <2>2. e \in Account /\ e.groups = a.groups /\ e.members = [a.members EXCEPT ![g] = @ \ {x}]
    BY <1>2, <2>1, TakenFields
  <2>3. \A h \in Groups : e.members[h] \subseteq a.members[h]
    BY <1>2, <2>2 DEF Account
  <2> QED
    BY <2>2, <2>3, AddsNone
<1>6. CASE r.kind = "markGroupHa"
  <2>1. e = [a EXCEPT !.named = @ \cup {g}]
    BY <1>1, <1>6
  <2> QED
    BY <1>2, <2>1, NamedAdds
<1> QED
  BY <1>3, <1>4, <1>5, <1>6

LEMMA OfGroupAdds ==
  ASSUME NEW c, NEW a, Sound(a), NEW r \in Request,
         r.kind \in {"renameGroup", "setDefault", "deleteGroup"},
         NEW e \in OfGroup(r, a)
  PROVE  Adds(c, a, e)
<1>0. r.group \in Groups /\ a \in Account
  BY RequestFields DEF Sound
<1>1. CASE r.kind = "renameGroup"
  <2>1. e = [a EXCEPT !.named = @ \cup {r.group}]
    BY <1>1 DEF OfGroup
  <2> QED
    BY <1>0, <2>1, NamedAdds
<1>2. CASE r.kind = "setDefault"
  <2>1. e = [a EXCEPT !.default[r.group] = r.host]
    BY <1>2 DEF OfGroup
  <2>2. r.host \in Uids \cup {NoHost}
    BY <1>2, RequestFields
  <2>3. e \in Account /\ e.members = a.members /\ e.groups = a.groups
    BY <1>0, <2>1, <2>2 DEF Account
  <2> QED
    BY <2>3, AddsNone
<1>3. CASE r.kind = "deleteGroup"
  <2> DEFINE m == [a.members EXCEPT ![r.group] = {}]
             d == [a.default EXCEPT ![r.group] = NoHost]
  <2>1. e = [a EXCEPT !.groups = @ \ {r.group}, !.named = @ \ {r.group},
                      !.members[r.group] = {}, !.default[r.group] = NoHost]
    BY <1>3 DEF OfGroup
  <2>2. m \in [Groups -> SUBSET Host] /\ d \in [Groups -> Uids \cup {NoHost}]
    BY <1>0 DEF Account
  <2>3. e \in Account /\ e.members = m /\ e.groups \subseteq a.groups
    BY <1>0, <2>1, <2>2 DEF Account
  <2>4. \A h \in Groups : e.members[h] \subseteq a.members[h]
    BY <1>0, <2>3 DEF Account
  <2> QED
    BY <2>3, <2>4, AddsNone
<1> QED
  BY <1>1, <1>2, <1>3

\* updateUser, whatever the account and the body hold.
LEMMA ReplacedFields ==
  ASSUME NEW a, NEW b, NEW keys, NEW e,
         a \in Account, b \in Account, e = Replaced(a, b, keys)
  PROVE  /\ e \in Account
         /\ \E hosts \in {a, b} : e.groups = hosts.groups /\ e.members = hosts.members
         /\ "host_groups" \in keys \/ (/\ e.groups = a.groups /\ e.members = a.members
                                      /\ e.default = a.default)
<1>1. e \in Account
  BY DEF Replaced, Account
<1>2. CASE "host_groups" \in keys
  <2>1. e.groups = b.groups /\ e.members = b.members
    BY <1>2 DEF Replaced, Account
  <2> QED
    BY <1>1, <1>2, <2>1
<1>3. CASE "host_groups" \notin keys
  <2>1. e.groups = a.groups /\ e.members = a.members /\ e.default = a.default
    BY <1>3 DEF Replaced, Account
  <2> QED
    BY <1>1, <1>3, <2>1
<1> QED
  BY <1>2, <1>3

\* Whatever the account holds, an operation makes an account of it, without the
\* uuids that other calls are yet to make.
LEMMA EffectsSound ==
  ASSUME NEW c \in Calls, NEW a, Sound(a), NEW r \in Requests[c],
         r.kind \in Updates, NEW e \in Effects(c, r, a)
  PROVE  Sound(e) /\ \A d \in Calls \ {c} : IsNew(d, a) => IsNew(d, e)
<1>0. a \in Account /\ c \in Groups /\ r \in Request
  BY RequestsAssumption DEF Sound, Groups
<1>1. ASSUME r.kind # "updateUser"
      PROVE  Adds(c, a, e)
  <2>1. CASE r.kind \in {"password", "prefs"}
    <3>1. e \in Account /\ e.members = a.members /\ e.groups = a.groups
      BY <1>0, <2>1, RequestFields DEF Effects, Account
    <3> QED
      BY <3>1, AddsNone
  <2>2. CASE r.kind = "createGroup"
    <3>1. e \in Account /\ e.members = a.members /\ e.groups = a.groups \cup {c}
      BY <1>0, <2>2 DEF Effects, Account
    <3> QED
      BY <3>1, AddsNone
  <2>3. CASE r.kind = "addHost"
    <3>1. e \in Added(c, r, a)
      BY <2>3 DEF Effects
    <3> QED
      BY <1>0, <2>3, <3>1, RequestFields, AddedAdds
  <2>4. CASE r.kind \in {"renameGroup", "setDefault", "deleteGroup"}
    <3>1. e \in OfGroup(r, a)
      BY <2>4 DEF Effects
    <3> QED
      BY <1>0, <2>4, <3>1, OfGroupAdds
  <2>5. CASE r.kind \in {"updateHost", "moveHost", "deleteHost", "markGroupHa"}
    <3>1. e \in OfHost(r, a)
      BY <2>5 DEF Effects
    <3> QED
      BY <1>0, <2>5, <3>1, OfHostAdds
  <2> QED
    BY <1>1, <2>1, <2>2, <2>3, <2>4, <2>5 DEF Updates
<1>2. ASSUME Adds(c, a, e), NEW d \in Calls \ {c}, IsNew(d, a)
      PROVE  IsNew(d, e)
  <2>1. d # Ungrouped
    OBVIOUS
  <2> QED
    BY <1>2, <2>1 DEF Adds, IsNew
<1>3. CASE r.kind = "updateUser"
  <2>1. e = Replaced(a, r.with, r.keys) /\ r.with \in Account
    BY <1>0, <1>3, RequestFields DEF Effects
  <2>2. IsFiniteSet(Hosts(r.with)) /\ \A d \in Calls : IsNew(d, r.with)
    BY <1>3, BodiesAssumption
  <2>3. PICK hosts \in {a, r.with} :
          e \in Account /\ e.groups = hosts.groups /\ e.members = hosts.members
    BY <1>0, <2>1, ReplacedFields
  <2>4. Hosts(e) = Hosts(hosts)
    BY <2>3 DEF Hosts
  <2> QED
    BY <2>2, <2>3, <2>4 DEF Sound, IsNew
<1> QED
  BY <1>1, <1>2, <1>3 DEF Adds

-----------------------------------------------------------------------------
(* The order *)

\* Every operation of user.service.ts, host.service.ts and host-group.util.ts but
\* an updateUser that replaces host_groups keeps an account in order, and adds no
\* uuid but its own.
THEOREM EffectsInOrder ==
  ASSUME NEW c \in Calls, NEW a, Good(a), IsNew(c, a), NEW r \in Request,
         r.kind \in Updates, ~ReplacesHosts(r), NEW e \in Effects(c, r, a)
  PROVE  Kept(c, a, e)
<1>0. a \in Account /\ c \in Groups
  BY DEF Good, Groups
<1>1. CASE r.kind \in {"password", "prefs"}
  <2>1. e \in Account /\ e.members = a.members /\ e.groups = a.groups /\ e.default = a.default
    BY <1>0, <1>1, RequestFields DEF Effects, Account
  <2>2. DefaultsAreMembers(e) /\ OnlyInGroups(e)
    BY <2>1 DEF DefaultsAreMembers, OnlyInGroups, Good, WellFormed
  <2>3. Good(e)
    BY <2>1, <2>2, SameMembers
  <2>4. Hosts(e) = Hosts(a)
    BY <2>1 DEF Hosts
  <2> QED
    BY <2>1, <2>3, <2>4 DEF Kept
<1>2. CASE r.kind = "createGroup"
  <2>1. /\ e \in Account /\ e.members = a.members /\ e.default = a.default
        /\ e.groups = a.groups \cup {c}
    BY <1>0, <1>2 DEF Effects, Account
  <2>2. DefaultsAreMembers(e) /\ OnlyInGroups(e)
    BY <2>1 DEF DefaultsAreMembers, OnlyInGroups, Good, WellFormed
  <2>3. Good(e)
    BY <2>1, <2>2, SameMembers
  <2>4. Hosts(e) = Hosts(a)
    BY <2>1 DEF Hosts
  <2> QED
    BY <2>1, <2>3, <2>4 DEF Kept
<1>3. CASE r.kind = "addHost"
  <2>1. e \in Added(c, r, a)
    BY <1>3 DEF Effects
  <2> QED
    BY <1>3, <2>1, RequestFields, AddedInOrder
<1>4. CASE r.kind \in {"renameGroup", "setDefault", "deleteGroup"}
  <2>1. e \in OfGroup(r, a)
    BY <1>4 DEF Effects
  <2> QED
    BY <1>4, <2>1, OfGroupInOrder
<1>5. CASE r.kind \in {"updateHost", "moveHost", "deleteHost", "markGroupHa"}
  <2>1. e \in OfHost(r, a)
    BY <1>5 DEF Effects
  <2> QED
    BY <1>5, <2>1, OfHostInOrder
<1>6. CASE r.kind = "updateUser"
  <2>1. e = Replaced(a, r.with, r.keys) /\ r.with \in Account /\ "host_groups" \notin r.keys
    BY <1>6, RequestFields DEF Effects, ReplacesHosts
  <2>2. e \in Account /\ e.members = a.members /\ e.groups = a.groups /\ e.default = a.default
    BY <1>0, <2>1, ReplacedFields
  <2>3. DefaultsAreMembers(e) /\ OnlyInGroups(e)
    BY <2>2 DEF DefaultsAreMembers, OnlyInGroups, Good, WellFormed
  <2>4. Good(e)
    BY <2>2, <2>3, SameMembers
  <2>5. Hosts(e) = Hosts(a)
    BY <2>2 DEF Hosts
  <2> QED
    BY <2>2, <2>4, <2>5 DEF Kept
<1> QED
  BY <1>1, <1>2, <1>3, <1>4, <1>5, <1>6 DEF Updates

-----------------------------------------------------------------------------
(* The file and the calls that work on it *)

USE StoreAssumption, FilesAssumption, RequestsAssumption

AskInv == \A c \in Calls : step[c] # "new" => ask[c] \in Requests[c]

FileInv == IsAccount(file) => Sound(file)

DraftInv ==
  \A c \in Calls : step[c] = "save" =>
    /\ IsAccount(file) /\ ask[c].kind \in Updates
    /\ draft[c] \in Effects(c, ask[c], file)

FillInv == \A c \in Calls : step[c] = "fill" => file = Torn /\ ask[c].kind = "register"

NewInv == \A c \in Calls : answer[c] = "none" /\ IsAccount(file) => IsNew(c, file)

AnswerInv ==
  \A c \in Calls :
    /\ step[c] \in {"new", "fetch", "fill", "save"} => answer[c] = "none"
    /\ step[c] = "lock" => answer[c] \in {"none", "verified"}
    /\ step[c] = "unlock" => answer[c] # "none"
    /\ step[c] = "remove" => answer[c] = "verified"

StoreInv == TypeOK /\ AskInv /\ FileInv /\ DraftInv /\ FillInv /\ NewInv /\ AnswerInv

\* The operations of the two modules are the same.
LEMMA SameEffects == \A c, r, a : G!Effects(c, r, a) = Effects(c, r, a)
  BY DEF Effects, Added, OfHost, OfGroup, Changed, Moved, Taken, Placed, WithUngrouped,
         Clashes, Hosts, Groups, Replaced,
         G!Effects, G!Replaced, G!Added, G!OfHost, G!OfGroup, G!Changed, G!Moved, G!Taken, G!Placed,
         G!WithUngrouped, G!Clashes, G!Hosts, G!Groups

LEMMA SameNew == \A c, a : G!IsNew(c, a) = IsNew(c, a)
  BY DEF G!IsNew, IsNew, G!Hosts, Hosts, G!Groups, Groups

LEMMA SameFresh == \A pw : G!Fresh(pw) = Fresh(pw)
  BY DEF G!Fresh, Fresh, G!Groups, Groups

LEMMA SameOrder == \A a : WellFormed(a) <=> G!WellFormed(a)
<1>1. \A a : G!Hosts(a) = Hosts(a)
  BY DEF G!Hosts, Hosts, G!Groups, Groups
<1>2. \A a : G!WithinLimit(a) <=> WithinLimit(a)
  BY <1>1 DEF G!WithinLimit, WithinLimit, G!Cardinality, Cardinality
<1> QED
  BY <1>1, <1>2
     DEF WellFormed, OneGroupEach, DefaultsAreMembers, HostsDiffer, OnlyInGroups, Groups,
         G!WellFormed, G!OneGroupEach, G!DefaultsAreMembers, G!HostsDiffer, G!OnlyInGroups,
         G!Groups

-----------------------------------------------------------------------------
(* Whole operations, one at a time *)

\* What HostGroups keeps of the account that users see.
SoundInv == shown \notin {Absent, Torn} => Sound(shown)

\* Requests that replace the hosts, by the request that HostGroups takes.
Replacing == \E c \in Calls : \E r \in Requests[c] : G!ReplacesHosts(r) /\ G!Update(c, r)

LEMMA WholeStep ==
  SoundInv /\ [G!Next]_shown =>
    /\ SoundInv'
    /\ InOrder(shown) /\ ~InOrder(shown') => Replacing
<1> SUFFICES ASSUME SoundInv, [G!Next]_shown
             PROVE  SoundInv' /\ (InOrder(shown) /\ ~InOrder(shown') => Replacing)
  OBVIOUS
<1>1. ASSUME NEW pw \in Passwords, G!Register(pw)
      PROVE  SoundInv' /\ InOrder(shown')
  BY <1>1, FreshInOrder, SameFresh DEF G!Register, SoundInv, InOrder, Good, Sound
<1>2. ASSUME NEW c \in Calls, NEW r \in Requests[c], G!Update(c, r)
      PROVE  SoundInv' /\ (InOrder(shown) /\ ~InOrder(shown') => Replacing)
  <2>1. r \in Request
    BY RequestsAssumption
  <2>2. /\ Sound(shown) /\ IsNew(c, shown) /\ r.kind \in Updates
        /\ shown' \in Effects(c, r, shown) /\ shown \notin {Absent, Torn}
    BY <1>2, SameNew, SameEffects DEF G!Update, G!Updates, Updates, SoundInv
  <2>3. PICK b : b = shown'
    OBVIOUS
  <2>4. Sound(b)
    BY <2>2, <2>3, EffectsSound
  <2>5. ASSUME ~ReplacesHosts(r), WellFormed(shown)
        PROVE  WellFormed(b)
    <3>1. Good(shown)
      BY <2>2, <2>5 DEF Good, Sound
    <3>2. Kept(c, shown, b)
      BY <2>1, <2>2, <2>3, <2>5, <3>1, EffectsInOrder
    <3> QED
      BY <3>2 DEF Kept, Good
  <2>6. ReplacesHosts(r) => Replacing
    BY <1>2 DEF Replacing, ReplacesHosts, G!ReplacesHosts
  <2> QED
    BY <2>2, <2>3, <2>4, <2>5, <2>6 DEF SoundInv, InOrder
<1>3. CASE G!Remove
  BY <1>3 DEF G!Remove, SoundInv, InOrder
<1>4. CASE UNCHANGED shown
  BY <1>4 DEF SoundInv
<1> QED
  BY <1>1, <1>2, <1>3, <1>4 DEF G!Next

\* HostsInOrder: whatever users ask for, in whatever order, only an updateUser that
\* replaces host_groups takes the hosts of an account out of order (host.service.ts,
\* host-group.util.ts, user.service.ts), if the operations are whole.
THEOREM AlwaysInOrder == G!Spec => G!HostsInOrder
<1>1. G!Init => SoundInv
  BY StartAssumption DEF G!Init, SoundInv, Sound
<1>2. \A a : G!InOrder(a) <=> InOrder(a)
  BY SameOrder DEF InOrder, G!InOrder
<1>3. SoundInv /\ [G!Next]_shown =>
        [G!InOrder(shown) /\ ~G!InOrder(shown') =>
           \E c \in Calls : \E r \in Requests[c] : G!ReplacesHosts(r) /\ G!Update(c, r)]_shown
  BY <1>2, WholeStep DEF Replacing
<1>4. SoundInv /\ [G!Next]_shown => SoundInv'
  BY WholeStep
<1> QED
  BY <1>1, <1>3, <1>4, PTL DEF G!Spec, G!HostsInOrder

-----------------------------------------------------------------------------
(* The invariant *)

LEMMA StoreInit == Init => StoreInv
<1> SUFFICES ASSUME Init PROVE StoreInv
  OBVIOUS
<1>1. file = Absent \/ (Sound(file) /\ \A c \in Calls : IsNew(c, file))
  BY StartAssumption DEF Init, Sound
<1>2. TypeOK
  BY <1>1 DEF Init, TypeOK, Inside, Sound
<1>3. AskInv /\ DraftInv /\ FillInv /\ AnswerInv
  BY DEF Init, AskInv, DraftInv, FillInv, AnswerInv
<1>4. FileInv /\ NewInv
  BY <1>1 DEF FileInv, NewInv, IsAccount
<1> QED
  BY <1>2, <1>3, <1>4 DEF StoreInv

\* What a call is about to write is what its request makes of what the file holds.
LEMMA DraftFacts ==
  ASSUME StoreInv, NEW c \in Calls, step[c] = "save"
  PROVE  /\ IsAccount(file) /\ lock = c /\ ask[c] \in Requests[c] /\ ask[c].kind \in Updates
         /\ IsNew(c, file) /\ draft[c] \in Effects(c, ask[c], file)
         /\ Sound(draft[c]) /\ \A d \in Calls \ {c} : IsNew(d, file) => IsNew(d, draft[c])
         /\ WellFormed(file) /\ ~ReplacesHosts(ask[c]) => WellFormed(draft[c])
<1>1. /\ IsAccount(file) /\ lock = c /\ ask[c] \in Requests[c] /\ ask[c].kind \in Updates
      /\ Sound(file) /\ IsNew(c, file) /\ draft[c] \in Effects(c, ask[c], file)
  BY DEF StoreInv, DraftInv, AskInv, FileInv, NewInv, AnswerInv, TypeOK, Inside
<1>2. Sound(draft[c]) /\ \A d \in Calls \ {c} : IsNew(d, file) => IsNew(d, draft[c])
  BY <1>1, EffectsSound
<1>3. ASSUME WellFormed(file), ~ReplacesHosts(ask[c])
      PROVE  WellFormed(draft[c])
  <2>1. ask[c] \in Request /\ Good(file)
    BY <1>1, <1>3 DEF Sound, Good
  <2>2. Kept(c, file, draft[c])
    BY <1>1, <1>3, <2>1, EffectsInOrder
  <2> QED
    BY <2>2 DEF Kept, Good
<1> QED
  BY <1>1, <1>2, <1>3

LEMMA TypeCallStep ==
  ASSUME StoreInv, NEW c \in Calls, CallStep(c)
  PROVE  TypeOK'
<1> USE DEF StoreInv, TypeOK, Inside, Goto, Return
<1>1. CASE Acquire(c)
  BY <1>1 DEF Acquire, AnswerInv
<1>2. CASE GiveUp(c)
  BY <1>2 DEF GiveUp
<1>3. CASE Unlock(c)
  BY <1>3 DEF Unlock, AnswerInv
<1>4. CASE Check(c)
  BY <1>4 DEF Check
<1>5. CASE Create(c)
  BY <1>5 DEF Create
<1>6. CASE Fill(c)
  <2>1. ask[c] \in Request /\ ask[c].kind = "register"
    BY <1>6 DEF Fill, AskInv, FillInv
  <2>2. Fresh(ask[c].pw) \in Account
    BY <2>1, RequestFields, FreshInOrder DEF Good
  <2>3. file' \in Account \cup {Absent, Torn}
    BY <1>6, <2>2 DEF Fill
  <2>4. overtaken' \subseteq Calls
    BY <1>6 DEF Fill, Deleting
  <2> QED
    BY <1>6, <2>3, <2>4 DEF Fill
<1>7. CASE Modify(c)
  <2>1. ASSUME NEW b \in Effects(c, ask[c], file), IsAccount(file)
        PROVE  b \in Account
    <3>1. ask[c] \in Requests[c] /\ ask[c].kind \in Updates /\ Sound(file)
      BY <1>7, <2>1 DEF Modify, AskInv, FileInv
    <3> QED
      BY <2>1, <3>1, EffectsSound DEF Sound
  <2>2. draft' \in [Calls -> Account \cup {Absent}]
    BY <1>7, <2>1 DEF Modify
  <2>3. \/ /\ step' = [step EXCEPT ![c] = "save"] /\ answer' = answer
           /\ \E b \in Account : draft' = [draft EXCEPT ![c] = b]
        \/ /\ step' = [step EXCEPT ![c] = "unlock"] /\ draft' = draft
           /\ answer' = [answer EXCEPT ![c] = "refused"]
    BY <1>7, <2>1 DEF Modify
  <2>4. step[c] = "fetch" /\ UNCHANGED <<file, lock, ask, crashes, overtaken>>
    BY <1>7 DEF Modify
  <2> QED
    BY <2>2, <2>3, <2>4
<1>8. CASE Save(c)
  <2>1. draft[c] \in Account
    BY <1>8, DraftFacts DEF Save, Sound
  <2>2. file' \in Account \cup {Absent, Torn} /\ overtaken' \subseteq Calls
    BY <1>8, <2>1 DEF Save, Deleting
  <2>3. /\ step[c] = "save" /\ step' = [step EXCEPT ![c] = "unlock"]
        /\ answer' \in [Calls -> {"none", "verified", "done", "refused"}]
        /\ draft' = [draft EXCEPT ![c] = Absent] /\ UNCHANGED <<lock, ask, crashes>>
    BY <1>8 DEF Save
  <2> QED
    BY <2>2, <2>3
<1>9. CASE Delete(c)
  BY <1>9 DEF Delete
<1> QED
  BY <1>1, <1>2, <1>3, <1>4, <1>5, <1>6, <1>7, <1>8, <1>9 DEF CallStep

\* What else the invariant says, for the steps of a call that leave the file alone.
LEMMA KeepCallStep ==
  ASSUME StoreInv, NEW c \in Calls, CallStep(c), UNCHANGED file
  PROVE  AskInv' /\ FileInv' /\ NewInv'
<1>1. ask' = ask /\ \A d \in Calls : d # c => step'[d] = step[d]
  BY DEF CallStep, Acquire, GiveUp, Unlock, Check, Create, Fill, Modify, Save, Delete,
         Goto, Return, StoreInv, TypeOK
<1>2. step[c] # "new"
  BY DEF CallStep, Acquire, GiveUp, Unlock, Check, Create, Fill, Modify, Save, Delete
<1>3. \A d \in Calls : answer'[d] = "none" => answer[d] = "none"
  BY DEF CallStep, Acquire, GiveUp, Unlock, Check, Create, Fill, Modify, Save, Delete,
         Goto, Return, StoreInv, TypeOK
<1> QED
  BY <1>1, <1>2, <1>3 DEF StoreInv, AskInv, FileInv, NewInv, IsAccount

LEMMA AnswerCallStep ==
  ASSUME StoreInv, NEW c \in Calls, CallStep(c)
  PROVE  AnswerInv'
<1> USE DEF StoreInv, TypeOK, Inside, Goto, Return, AnswerInv
<1>1. CASE Acquire(c)
  BY <1>1 DEF Acquire
<1>2. CASE GiveUp(c)
  BY <1>2 DEF GiveUp
<1>3. CASE Unlock(c)
  BY <1>3 DEF Unlock
<1>4. CASE Check(c)
  BY <1>4 DEF Check
<1>5. CASE Create(c)
  BY <1>5 DEF Create
<1>6. CASE Fill(c)
  BY <1>6 DEF Fill
<1>7. CASE Modify(c)
  BY <1>7 DEF Modify
<1>8. CASE Save(c)
  BY <1>8 DEF Save
<1>9. CASE Delete(c)
  BY <1>9 DEF Delete
<1> QED
  BY <1>1, <1>2, <1>3, <1>4, <1>5, <1>6, <1>7, <1>8, <1>9 DEF CallStep

\* The holder of the lock is alone: nobody else has a draft or a file in the making.
LEMMA Alone ==
  ASSUME TypeOK, NEW c \in Calls, lock = c
  PROVE  \A d \in Calls \ {c} : step[d] \notin Inside
  BY DEF TypeOK

LEMMA CallStepInv ==
  ASSUME StoreInv, NEW c \in Calls, CallStep(c)
  PROVE  StoreInv'
<1>0. TypeOK' /\ AnswerInv'
  BY TypeCallStep, AnswerCallStep
<1> USE DEF Goto, Return
<1> TypeOK
  BY DEF StoreInv
<1>1. CASE Acquire(c) \/ GiveUp(c) \/ Unlock(c) \/ Check(c)
  <2>1. UNCHANGED <<file, draft>> /\ ask' = ask
    BY <1>1 DEF Acquire, GiveUp, Unlock, Check
  <2>2. AskInv' /\ FileInv' /\ NewInv'
    BY <2>1, KeepCallStep
  <2>3. \A d \in Calls : step'[d] \in {"save", "fill"} => step'[d] = step[d]
    BY <1>1 DEF Acquire, GiveUp, Unlock, Check, TypeOK, StoreInv, AnswerInv
  <2>4. DraftInv' /\ FillInv'
    BY <2>1, <2>3 DEF StoreInv, DraftInv, FillInv, IsAccount
  <2> QED
    BY <1>0, <2>2, <2>4 DEF StoreInv
<1>2. CASE Create(c)
  <2>1. step[c] = "fetch" /\ lock = c /\ lock' = c /\ ask' = ask
    BY <1>2 DEF Create, TypeOK, Inside
  <2>2. \A d \in Calls \ {c} : step'[d] \notin Inside
    BY <1>0, <2>1, Alone DEF TypeOK
  <2>3. \/ file' = Torn /\ step'[c] = "fill" /\ ask[c].kind = "register" /\ answer' = answer
        \/ file' = file /\ step'[c] = "unlock"
    BY <1>2 DEF Create, TypeOK
  <2>4. DraftInv' /\ FillInv'
    BY <2>1, <2>2, <2>3 DEF DraftInv, FillInv, Inside
  <2>5. AskInv' /\ FileInv' /\ NewInv'
    <3>1. CASE file' = file
      BY <3>1, KeepCallStep
    <3>2. CASE file' = Torn
      <4>1. AskInv'
        BY <1>2 DEF Create, TypeOK, StoreInv, AskInv
      <4> QED
        BY <3>2, <4>1 DEF FileInv, NewInv, IsAccount
    <3> QED
      BY <2>3, <3>1, <3>2
  <2> QED
    BY <1>0, <2>4, <2>5 DEF StoreInv
<1>3. CASE Fill(c)
  <2>1. step[c] = "fill" /\ lock = c /\ lock' = c /\ ask' = ask /\ step' = [step EXCEPT ![c] = "unlock"]
    BY <1>3 DEF Fill, TypeOK, Inside
  <2>2. \A d \in Calls : step'[d] \notin {"save", "fill"}
    BY <2>1, Alone DEF TypeOK, Inside
  <2>3. DraftInv' /\ FillInv'
    BY <2>2 DEF DraftInv, FillInv
  <2>4. AskInv' /\ FileInv' /\ NewInv'
    <3>1. CASE file' = file
      BY <3>1, KeepCallStep
    <3>2. CASE file' = Fresh(ask[c].pw)
      <4>1. ask[c] \in Request /\ ask[c].kind = "register"
        BY <2>1 DEF StoreInv, AskInv, FillInv
      <4>2. Sound(file') /\ Hosts(file') = {} /\ file'.groups = {}
        BY <3>2, <4>1, RequestFields, FreshInOrder DEF Sound, Good
      <4>3. AskInv'
        BY <2>1 DEF TypeOK, StoreInv, AskInv
      <4> QED
        BY <4>2, <4>3 DEF FileInv, NewInv, IsNew
    <3> QED
      BY <1>3, <3>1, <3>2 DEF Fill
  <2> QED
    BY <1>0, <2>3, <2>4 DEF StoreInv
<1>4. CASE Modify(c)
  <2>1. step[c] = "fetch" /\ lock = c /\ ask' = ask /\ file' = file /\ ask[c].kind \in Updates
    BY <1>4 DEF Modify, TypeOK, Inside
  <2>2. \A d \in Calls \ {c} : step'[d] \notin {"save", "fill"}
    BY <1>4, <2>1, Alone DEF Modify, TypeOK, Inside
  <2>3. \/ /\ step'[c] = "save" /\ IsAccount(file)
           /\ draft'[c] \in Effects(c, ask[c], file)
        \/ step'[c] = "unlock"
    BY <1>4 DEF Modify, TypeOK
  <2>4. DraftInv' /\ FillInv'
    BY <2>1, <2>2, <2>3 DEF DraftInv, FillInv, IsAccount
  <2>5. AskInv' /\ FileInv' /\ NewInv'
    BY <2>1, KeepCallStep
  <2> QED
    BY <1>0, <2>4, <2>5 DEF StoreInv
<1>5. CASE Save(c)
  <2>1. step[c] = "save" /\ lock = c /\ ask' = ask /\ step' = [step EXCEPT ![c] = "unlock"]
    BY <1>5 DEF Save, TypeOK, Inside
  <2>2. \A d \in Calls : step'[d] \notin {"save", "fill"}
    BY <2>1, Alone DEF TypeOK, Inside
  <2>3. DraftInv' /\ FillInv'
    BY <2>2 DEF DraftInv, FillInv
  <2>4. AskInv' /\ FileInv' /\ NewInv'
    <3>1. CASE file' = file
      BY <3>1, KeepCallStep
    <3>2. CASE file' = draft[c]
      <4>1. /\ IsAccount(file) /\ Sound(file')
            /\ \A d \in Calls \ {c} : IsNew(d, file) => IsNew(d, file')
        BY <2>1, <3>2, DraftFacts
      <4>2. answer'[c] # "none" /\ \A d \in Calls \ {c} : answer'[d] = answer[d]
        BY <1>5 DEF Save, TypeOK
      <4>3. NewInv'
        <5> SUFFICES ASSUME NEW d \in Calls, answer'[d] = "none"
                     PROVE  IsNew(d, file')
          BY DEF NewInv
        <5>1. d # c /\ IsNew(d, file)
          BY <4>1, <4>2 DEF StoreInv, NewInv
        <5> QED
          BY <4>1, <5>1
      <4>4. AskInv'
        BY <2>1 DEF TypeOK, StoreInv, AskInv
      <4> QED
        BY <4>1, <4>3, <4>4 DEF FileInv
    <3> QED
      BY <1>5, <3>1, <3>2 DEF Save
  <2> QED
    BY <1>0, <2>3, <2>4 DEF StoreInv
<1>6. CASE Delete(c)
  <2>1. step[c] = "remove" /\ lock = c /\ ask' = ask /\ step' = [step EXCEPT ![c] = "unlock"]
    BY <1>6 DEF Delete, TypeOK, Inside
  <2>2. \A d \in Calls : step'[d] \notin {"save", "fill"}
    BY <2>1, Alone DEF TypeOK, Inside
  <2>3. DraftInv' /\ FillInv'
    BY <2>2 DEF DraftInv, FillInv
  <2>4. AskInv' /\ FileInv' /\ NewInv'
    <3>1. CASE file' = file
      BY <3>1, KeepCallStep
    <3>2. CASE file' = Absent
      <4>1. AskInv'
        BY <2>1 DEF TypeOK, StoreInv, AskInv
      <4> QED
        BY <3>2, <4>1 DEF FileInv, NewInv, IsAccount
    <3> QED
      BY <1>6, <3>1, <3>2 DEF Delete
  <2> QED
    BY <1>0, <2>3, <2>4 DEF StoreInv
<1> QED
  BY <1>1, <1>2, <1>3, <1>4, <1>5, <1>6 DEF CallStep

\* The steps of requests, time and crashes.
LEMMA StoreStep == StoreInv /\ [Next]_vars => StoreInv'
<1> SUFFICES ASSUME StoreInv, [Next]_vars PROVE StoreInv'
  OBVIOUS
<1> USE DEF StoreInv, AskInv, FileInv, DraftInv, FillInv, NewInv, AnswerInv, IsAccount
<1>1. ASSUME NEW c \in Calls, CallStep(c)
      PROVE  StoreInv'
  BY <1>1, CallStepInv
<1>2. ASSUME NEW c \in Calls, NEW r \in Requests[c], Ask(c, r)
      PROVE  StoreInv'
  <2> USE <1>2 DEF Ask, Goto
  <2>1. r \in Request
    OBVIOUS
  <2>2. TypeOK'
    BY <2>1 DEF TypeOK, Inside
  <2>3. AskInv' /\ FileInv' /\ NewInv'
    BY DEF TypeOK
  <2>4. DraftInv' /\ FillInv' /\ AnswerInv'
    BY DEF TypeOK
  <2> QED
    BY <2>2, <2>3, <2>4
<1>3. CASE LockGoesStale
  <2>1. TypeOK'
    BY <1>3 DEF LockGoesStale, TypeOK, Inside
  <2> QED
    BY <1>3, <2>1 DEF LockGoesStale
<1>4. CASE Crash
  <2>1. \A c \in Calls : step'[c] \in {"new", "done", "refused", "lost"}
                          /\ (step'[c] = "new" <=> step[c] = "new")
    BY <1>4 DEF Crash, TypeOK, Inside, Active, Ended
  <2>2. step' \in [Calls -> {"new", "done", "refused", "lost"}]
    BY <1>4, <2>1 DEF Crash
  <2>3. lock' \notin Calls /\ lock' \in {NoCall, Orphan}
    BY <1>4 DEF Crash, TypeOK
  <2>4. TypeOK'
    BY <1>4, <2>1, <2>2, <2>3 DEF Crash, TypeOK, Inside
  <2> QED
    BY <1>4, <2>1, <2>4 DEF Crash
<1>5. CASE UNCHANGED vars
  BY <1>5 DEF vars, TypeOK
<1> QED
  BY <1>1, <1>2, <1>3, <1>4, <1>5 DEF Next

LEMMA StoreAlways == Spec => []StoreInv
  BY StoreInit, StoreStep, PTL DEF Spec

\* Type correctness of user-repository.service.ts over its locks: the holder of the
\* lock is the one call between reading and unlocking, a call has a draft exactly
\* while it writes, and the file holds an account, a half-made one or nothing.
THEOREM StoreTypeCorrect == Spec => []TypeOK
<1>1. StoreInv => TypeOK
  BY DEF StoreInv
<1> QED
  BY StoreAlways, <1>1, PTL

\* The steps of a call and the order of what its users see.
LEMMA CallStepOrder ==
  ASSUME StoreInv, NEW c \in Calls, CallStep(c), InOrder(shown), ~InOrder(shown')
  PROVE  step[c] = "save" /\ ReplacesHosts(ask[c])
<1> TypeOK /\ TypeOK'
  BY TypeCallStep DEF StoreInv
<1> USE DEF Goto, Return
<1>1. ASSUME Acquire(c) \/ GiveUp(c) \/ Unlock(c) \/ Check(c) \/ Modify(c)
      PROVE  FALSE
  <2>1. file' = file /\ \A d \in Calls : step'[d] = "fill" <=> step[d] = "fill"
    BY <1>1 DEF Acquire, GiveUp, Unlock, Check, Modify, TypeOK
  <2> QED
    BY <2>1 DEF shown
<1>2. ASSUME Create(c)
      PROVE  FALSE
  <2>1. \A d \in Calls : step[d] # "fill"
    BY <1>2, Alone DEF Create, TypeOK, Inside
  <2>2. \/ step'[c] = "fill"
        \/ file' = file /\ \A d \in Calls : step'[d] # "fill"
    BY <1>2, <2>1 DEF Create, TypeOK
  <2> QED
    BY <2>1, <2>2 DEF shown, InOrder
<1>3. ASSUME Fill(c)
      PROVE  FALSE
  <2>1. step[c] = "fill" /\ lock = c /\ step'[c] = "unlock"
    BY <1>3 DEF Fill, TypeOK, Inside
  <2>2. \A d \in Calls : step'[d] # "fill"
    BY <1>3, <2>1, Alone DEF Fill, TypeOK, Inside
  <2>3. file = Torn /\ ask[c] \in Request /\ ask[c].kind = "register"
    BY <2>1 DEF StoreInv, AskInv, FillInv
  <2>4. file' = Torn \/ WellFormed(file')
    BY <1>3, <2>3, RequestFields, FreshInOrder DEF Fill, Good
  <2> QED
    BY <2>2, <2>4 DEF shown, InOrder
<1>4. CASE Save(c)
  <2>1. step[c] = "save" /\ lock = c /\ step' = [step EXCEPT ![c] = "unlock"]
    BY <1>4 DEF Save, TypeOK, Inside
  <2>2. \A d \in Calls : step[d] # "fill" /\ step'[d] # "fill"
    BY <2>1, Alone DEF TypeOK, Inside
  <2>3. shown = file /\ shown' = file'
    BY <2>2 DEF shown
  <2>4. file' = draft[c] \/ file' = file
    BY <1>4 DEF Save
  <2>5. IsAccount(file) /\ (WellFormed(file) /\ ~ReplacesHosts(ask[c]) => WellFormed(draft[c]))
    BY <2>1, DraftFacts
  <2> QED
    BY <2>1, <2>3, <2>4, <2>5 DEF InOrder, IsAccount
<1>5. ASSUME Delete(c)
      PROVE  FALSE
  <2>1. step[c] = "remove" /\ lock = c /\ step' = [step EXCEPT ![c] = "unlock"]
    BY <1>5 DEF Delete, TypeOK, Inside
  <2>2. \A d \in Calls : step[d] # "fill" /\ step'[d] # "fill"
    BY <2>1, Alone DEF TypeOK, Inside
  <2>3. file' = Absent \/ file' = file
    BY <1>5 DEF Delete
  <2> QED
    BY <2>2, <2>3 DEF shown, InOrder
<1> QED
  BY <1>1, <1>2, <1>3, <1>4, <1>5 DEF CallStep

\* user.service.ts, host.service.ts and host-group.util.ts under calls at once,
\* failures and crashes: that a host is in one group, defaults are members, hosts
\* differ and the limit is kept is undone only where an updateUser that replaces
\* host_groups is written.
THEOREM StoredInOrder == Spec => StoredHostsInOrder
<1>1. StoreInv /\ [Next]_vars =>
        [InOrder(shown) /\ ~InOrder(shown') =>
           \E c \in Calls : step[c] = "save" /\ ReplacesHosts(ask[c])]_vars
  <2> SUFFICES ASSUME StoreInv, [Next]_vars, InOrder(shown), ~InOrder(shown')
               PROVE  \E c \in Calls : step[c] = "save" /\ ReplacesHosts(ask[c])
    OBVIOUS
  <2>1. ASSUME NEW c \in Calls, CallStep(c)
        PROVE  step[c] = "save" /\ ReplacesHosts(ask[c])
    BY <2>1, CallStepOrder
  <2>2. ASSUME NEW c \in Calls, NEW r \in Requests[c], Ask(c, r)
        PROVE  FALSE
    BY <2>2 DEF Ask, Goto, shown, StoreInv, TypeOK
  <2>3. ASSUME LockGoesStale
        PROVE  FALSE
    BY <2>3 DEF LockGoesStale, shown
  <2>4. ASSUME Crash
        PROVE  FALSE
    <3>1. \A c \in Calls : step'[c] # "fill"
      BY <2>4 DEF Crash, StoreInv, TypeOK, Active, Ended
    <3>2. shown' = file
      BY <2>4, <3>1 DEF shown, Crash
    <3>3. (\E c \in Calls : step[c] = "fill") => file = Torn
      BY DEF StoreInv, FillInv
    <3> QED
      BY <3>2, <3>3 DEF shown, InOrder
  <2>5. ASSUME UNCHANGED vars
        PROVE  FALSE
    BY <2>5 DEF vars, shown
  <2> QED
    BY <2>1, <2>2, <2>3, <2>4, <2>5 DEF Next
<1> QED
  BY StoreAlways, <1>1, PTL DEF Spec, StoredHostsInOrder

-----------------------------------------------------------------------------
(* Deletions *)

\* A deletion past its check knows the password, unless it was overtaken.
DeletionInv ==
  \A d \in Calls : Active(d) /\ answer[d] = "verified" /\ IsAccount(file) =>
    d \in overtaken \/ file.pw = ask[d].pw

LEMMA DeletionStep == StoreInv /\ DeletionInv /\ [Next]_vars => DeletionInv'
<1> SUFFICES ASSUME StoreInv, DeletionInv, [Next]_vars,
                    NEW d \in Calls,
                    Active(d)', answer'[d] = "verified", IsAccount(file')
             PROVE  d \in overtaken' \/ file'.pw = ask'[d].pw
  BY DEF DeletionInv, IsAccount
<1> TypeOK
  BY DEF StoreInv
<1> USE DEF Active, Ended
<1>1. ASSUME NEW c \in Calls, CallStep(c)
      PROVE  d \in overtaken' \/ file'.pw = ask'[d].pw
  <2> USE DEF Goto, Return
  <2>1. CASE Acquire(c) \/ GiveUp(c) \/ Unlock(c)
    <3>1. /\ UNCHANGED <<file, ask, answer, overtaken>> /\ step[c] \in {"lock", "unlock"}
          /\ \E label : step' = [step EXCEPT ![c] = label]
      BY <2>1 DEF Acquire, GiveUp, Unlock
    <3>2. Active(d)
      BY <3>1 DEF TypeOK
    <3> QED
      BY <3>1, <3>2 DEF DeletionInv
  <2>2. CASE Check(c)
    <3>1. UNCHANGED <<file, ask, overtaken>>
      BY <2>2 DEF Check
    <3>2. CASE d = c
      <4>1. IsAccount(file) /\ file.pw = ask[c].pw
        BY <2>2, <3>2 DEF Check, TypeOK
      <4> QED
        BY <3>1, <3>2, <4>1
    <3>3. CASE d # c
      BY <2>2, <3>1, <3>3 DEF Check, TypeOK, DeletionInv
    <3> QED
      BY <3>2, <3>3
  <2>3. CASE Create(c)
    <3>1. file' = file
      BY <2>3 DEF Create, IsAccount
    <3>2. Active(d) /\ answer[d] = "verified" /\ UNCHANGED <<ask, overtaken>>
      BY <2>3 DEF Create, TypeOK
    <3> QED
      BY <3>1, <3>2 DEF DeletionInv
  <2>4. CASE Fill(c) \/ Save(c) \/ Modify(c) \/ Delete(c)
    <3>1. Active(d) /\ answer[d] = "verified" /\ ask' = ask
      BY <2>4 DEF Fill, Save, Modify, Delete, TypeOK
    <3>2. d \in Deleting
      BY <3>1 DEF Deleting
    <3>3. \/ file' = file /\ overtaken' = overtaken
          \/ overtaken' = overtaken \cup Deleting
          \/ IsAccount(file) /\ file'.pw = file.pw /\ overtaken' = overtaken
      BY <2>4 DEF Fill, Save, Modify, Delete, IsAccount
    <3> QED
      BY <3>1, <3>2, <3>3 DEF DeletionInv
  <2> QED
    BY <1>1, <2>1, <2>2, <2>3, <2>4 DEF CallStep
<1>2. ASSUME NEW c \in Calls, NEW r \in Requests[c], Ask(c, r)
      PROVE  d \in overtaken' \/ file'.pw = ask'[d].pw
  <2>1. answer[c] = "none" /\ d # c
    BY <1>2 DEF Ask, StoreInv, AnswerInv
  <2>2. Active(d)
    BY <1>2, <2>1 DEF Ask, Goto, TypeOK
  <2> QED
    BY <1>2, <2>1, <2>2 DEF Ask, Goto, TypeOK, DeletionInv
<1>3. CASE LockGoesStale
  BY <1>3 DEF LockGoesStale, DeletionInv
<1>4. CASE Crash
  BY <1>4 DEF Crash
<1>5. CASE UNCHANGED vars
  BY <1>5 DEF vars, DeletionInv
<1> QED
  BY <1>1, <1>2, <1>3, <1>4, <1>5 DEF Next

\* user.service.ts, deleteUser: an account goes with its own password,
\* unless the password or the account was replaced between the two holds of the lock.
THEOREM DeletionSound == Spec => DeletedWithItsPassword
<1>1. Init => DeletionInv
  BY DEF Init, DeletionInv, Active, Ended
<1>2. StoreInv /\ DeletionInv /\ [Next]_vars =>
        [\A c \in Calls :
           step[c] = "remove" /\ IsAccount(file) /\ file' = Absent =>
             c \in overtaken \/ file.pw = ask[c].pw]_vars
  <2> SUFFICES ASSUME StoreInv, DeletionInv, NEW c \in Calls,
                      step[c] = "remove", IsAccount(file)
               PROVE  c \in overtaken \/ file.pw = ask[c].pw
    OBVIOUS
  <2>1. answer[c] = "verified"
    BY DEF StoreInv, AnswerInv
  <2> QED
    BY <2>1 DEF DeletionInv, Active, Ended
<1> QED
  BY <1>1, <1>2, StoreAlways, DeletionStep, PTL DEF Spec, DeletedWithItsPassword

-----------------------------------------------------------------------------
(* The refinement *)

LEMMA SameStart == Init => G!Init
  BY DEF Init, G!Init, shown

\* The steps of a call, as its users see them.
LEMMA CallStepSeen ==
  ASSUME StoreInv, NEW c \in Calls, CallStep(c)
  PROVE  G!Next \/ UNCHANGED shown
<1> TypeOK /\ TypeOK'
  BY TypeCallStep DEF StoreInv
<1> USE DEF Goto, Return
<1>1. CASE Acquire(c) \/ GiveUp(c) \/ Unlock(c) \/ Check(c) \/ Modify(c)
  <2>1. file' = file
        /\ \A d \in Calls : step'[d] = "fill" <=> step[d] = "fill"
    BY <1>1 DEF Acquire, GiveUp, Unlock, Check, Modify, TypeOK
  <2> QED
    BY <2>1 DEF shown
<1>2. CASE Create(c)
  <2>1. \A d \in Calls : step[d] # "fill"
    BY <1>2, Alone DEF Create, TypeOK, Inside
  <2>2. \/ file = Absent /\ step'[c] = "fill"
        \/ file' = file /\ \A d \in Calls : step'[d] # "fill"
    BY <1>2, <2>1 DEF Create, TypeOK
  <2> QED
    BY <2>1, <2>2 DEF shown
<1>3. CASE Fill(c)
  <2>1. step[c] = "fill" /\ lock = c /\ step'[c] = "unlock" /\ lock' = c
    BY <1>3 DEF Fill, TypeOK, Inside
  <2>2. shown = Absent
    BY <2>1 DEF shown
  <2>3. \A d \in Calls : step'[d] # "fill"
    BY <2>1, Alone DEF TypeOK, Inside
  <2>4. shown' = file'
    BY <2>3 DEF shown
  <2>5. file = Torn /\ ask[c] \in Request /\ ask[c].kind = "register"
    BY <2>1 DEF StoreInv, AskInv, FillInv
  <2>6. ask[c].pw \in Passwords
    BY <2>5, RequestFields
  <2>7. file' \in {Fresh(ask[c].pw), Torn}
    BY <1>3, <2>5 DEF Fill
  <2>8. G!Register(ask[c].pw)
    BY <2>2, <2>4, <2>7, SameFresh DEF G!Register
  <2> QED
    BY <2>6, <2>8 DEF G!Next
<1>4. CASE Save(c)
  <2>1. step[c] = "save" /\ lock = c /\ step' = [step EXCEPT ![c] = "unlock"]
    BY <1>4 DEF Save, TypeOK, Inside
  <2>2. \A d \in Calls : step[d] # "fill" /\ step'[d] # "fill"
    BY <2>1, Alone DEF TypeOK, Inside
  <2>3. shown = file /\ shown' = file'
    BY <2>2 DEF shown
  <2>4. CASE file' = draft[c]
    <3>1. /\ IsAccount(file) /\ ask[c] \in Requests[c] /\ ask[c].kind \in Updates
          /\ IsNew(c, file) /\ draft[c] \in Effects(c, ask[c], file)
      BY <2>1, DraftFacts
    <3>2. G!Update(c, ask[c])
      BY <2>3, <2>4, <3>1, SameEffects, SameNew DEF G!Update, IsAccount, G!Updates, Updates
    <3> QED
      BY <3>1, <3>2 DEF G!Next
  <2>5. CASE file' = file
    BY <2>3, <2>5
  <2> QED
    BY <1>4, <2>4, <2>5 DEF Save
<1>5. CASE Delete(c)
  <2>1. step[c] = "remove" /\ lock = c /\ step' = [step EXCEPT ![c] = "unlock"]
    BY <1>5 DEF Delete, TypeOK, Inside
  <2>2. \A d \in Calls : step[d] # "fill" /\ step'[d] # "fill"
    BY <2>1, Alone DEF TypeOK, Inside
  <2>3. shown = file /\ shown' = file'
    BY <2>2 DEF shown
  <2>4. file' = Absent \/ file' = file
    BY <1>5 DEF Delete
  <2> QED
    BY <2>3, <2>4 DEF G!Remove, G!Next
<1> QED
  BY <1>1, <1>2, <1>3, <1>4, <1>5 DEF CallStep

\* A crash while an account is being made leaves the name taken.
LEMMA CrashSeen ==
  ASSUME StoreInv, Crash
  PROVE  G!Next \/ UNCHANGED shown
<1>1. \A c \in Calls : step'[c] # "fill"
  BY DEF Crash, StoreInv, TypeOK, Active, Ended
<1>2. shown' = file
  BY <1>1 DEF shown, Crash
<1>3. CASE \E c \in Calls : step[c] = "fill"
  <2>1. PICK c \in Calls : step[c] = "fill"
    BY <1>3
  <2>2. file = Torn /\ ask[c] \in Request /\ ask[c].kind = "register"
    BY <2>1 DEF StoreInv, AskInv, FillInv
  <2>3. ask[c].pw \in Passwords
    BY <2>2, RequestFields
  <2>4. shown = Absent
    BY <1>3 DEF shown
  <2>5. G!Register(ask[c].pw)
    BY <1>2, <2>2, <2>4 DEF G!Register
  <2> QED
    BY <2>3, <2>5 DEF G!Next
<1>4. CASE ~ \E c \in Calls : step[c] = "fill"
  BY <1>2, <1>4 DEF shown
<1> QED
  BY <1>3, <1>4

LEMMA StepSeen == StoreInv /\ [Next]_vars => [G!Next]_shown
<1> SUFFICES ASSUME StoreInv, [Next]_vars PROVE G!Next \/ UNCHANGED shown
  OBVIOUS
<1>1. ASSUME NEW c \in Calls, CallStep(c)
      PROVE  G!Next \/ UNCHANGED shown
  BY <1>1, CallStepSeen
<1>2. ASSUME NEW c \in Calls, NEW r \in Requests[c], Ask(c, r)
      PROVE  UNCHANGED shown
  BY <1>2 DEF Ask, Goto, shown, StoreInv, TypeOK
<1>3. CASE LockGoesStale
  BY <1>3 DEF LockGoesStale, shown
<1>4. CASE Crash
  BY <1>4, CrashSeen
<1>5. CASE UNCHANGED vars
  BY <1>5 DEF vars, shown
<1> QED
  BY <1>1, <1>2, <1>3, <1>4, <1>5 DEF Next

\* atomicUpdateUser, createAndWrite and delete over storage.service.ts and
\* lock.service.ts: for any calls, failures and crashes, what users see of the file
\* changes by whole operations on what it then held (HostGroups).
THEOREM StoreRefines == Spec => AtomicUpdates
<1>1. Spec => G!Init /\ [][G!Next]_shown
  BY SameStart, StoreAlways, StepSeen, PTL DEF Spec
<1> QED
  BY <1>1 DEF AtomicUpdates, G!Spec
=============================================================================

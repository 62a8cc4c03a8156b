---------------------------- MODULE AccountStore ----------------------------
(***************************************************************************)
(* The file of one user's account and the calls that work on it: user-     *)
(* repository.service.ts over storage.service.ts over lock.service.ts.     *)
(*                                                                         *)
(* Every call holds the file's lock from before it reads to after it wrote *)
(* (atomicUpdateUser, createAndWrite, read, delete); deleting an account   *)
(* takes the lock twice, to read the password and to remove the file.  A   *)
(* file is replaced by a rename, but made in place.  A crash leaves the    *)
(* lock, as does a release that fails; proper-lockfile takes such a lock   *)
(* over once it is stale.                                                  *)
(*                                                                         *)
(* Files of other users have other locks.  Temporary files have a name of  *)
(* their own and are not read; a crash may leave one.                      *)
(***************************************************************************)
EXTENDS Account

CONSTANTS
  NoCall, Orphan,
  MaxCrashes  \* bound

ASSUME StoreAssumption ==
  NoCall \notin Calls /\ Orphan \notin Calls \cup {NoCall} /\ MaxCrashes \in Nat

VARIABLES
  file,
  lock,     \* its holder; Orphan: a lock that nobody refreshes any more
  step,     \* where a call stands
  ask,      \* what it asks
  draft,    \* the account it is about to write, if any
  answer,   \* what it will return once the lock is released
  crashes,
  overtaken \* history: deletions whose account got another password meanwhile

vars == <<file, lock, step, ask, draft, answer, crashes, overtaken>>

NoRequest == [kind |-> "none"]

\* What users see: a file in the making counts as soon as it is made.
shown == IF \E c \in Calls : step[c] = "fill" THEN Absent ELSE file

G == INSTANCE HostGroups WITH account <- shown

-----------------------------------------------------------------------------
Ended(c) == step[c] \in {"done", "refused", "lost"}
Active(c) == step[c] # "new" /\ ~Ended(c)
Inside == {"fetch", "fill", "save", "remove", "unlock"}

TypeOK ==
  /\ file \in Account \cup {Absent, Torn}
  /\ lock \in Calls \cup {NoCall, Orphan}
  /\ step \in [Calls -> {"new", "lock", "done", "refused", "lost"} \cup Inside]
  /\ \A c \in Calls : step[c] \in Inside <=> lock = c
  /\ ask \in [Calls -> Request \cup {NoRequest}]
  /\ draft \in [Calls -> Account \cup {Absent}]
  /\ \A c \in Calls : draft[c] # Absent <=> step[c] = "save"
  /\ answer \in [Calls -> {"none", "verified", "done", "refused"}]
  /\ crashes \in 0 .. MaxCrashes /\ overtaken \subseteq Calls

Init ==
  /\ file \in StartAccounts
  /\ lock = NoCall
  /\ step = [c \in Calls |-> "new"] /\ ask = [c \in Calls |-> NoRequest]
  /\ draft = [c \in Calls |-> Absent]
  /\ answer = [c \in Calls |-> "none"]
  /\ crashes = 0 /\ overtaken = {}

-----------------------------------------------------------------------------
(* The lock *)

Goto(c, label) == step' = [step EXCEPT ![c] = label]

Ask(c, r) ==
  /\ step[c] = "new"
  /\ ask' = [ask EXCEPT ![c] = r]
  /\ Goto(c, "lock")
  /\ UNCHANGED <<file, lock, draft, answer, crashes, overtaken>>

\* Variant: the lock is not looked at.
AcquireAnyway(c) ==
  /\ step[c] = "lock"
  /\ lock' = c
  /\ Goto(c, IF answer[c] = "verified" THEN "remove" ELSE "fetch")
  /\ UNCHANGED <<file, ask, draft, answer, crashes, overtaken>>

Acquire(c) ==
  /\ step[c] = "lock" /\ lock = NoCall
  /\ lock' = c
  /\ Goto(c, IF answer[c] = "verified" THEN "remove" ELSE "fetch")
  /\ UNCHANGED <<file, ask, draft, answer, crashes, overtaken>>

\* All retries found the lock taken.
GiveUp(c) ==
  /\ step[c] = "lock" /\ lock # NoCall
  /\ Goto(c, "refused")
  /\ UNCHANGED <<file, lock, ask, draft, answer, crashes, overtaken>>

\* Variant: the lock is not released after an error.
UnlockIfDone(c) ==
  /\ step[c] = "unlock"
  /\ lock' = IF answer[c] = "refused" THEN c ELSE NoCall
  /\ Goto(c, IF answer[c] = "verified" THEN "lock" ELSE answer[c])
  /\ UNCHANGED <<file, ask, draft, answer, crashes, overtaken>>

\* withLock's finally; a failure is only logged.
Unlock(c) ==
  /\ step[c] = "unlock"
  /\ lock' \in {NoCall, Orphan}
  /\ Goto(c, IF answer[c] = "verified" THEN "lock" ELSE answer[c])
  /\ UNCHANGED <<file, ask, draft, answer, crashes, overtaken>>

LockGoesStale ==
  /\ lock = Orphan /\ lock' = NoCall
  /\ UNCHANGED <<file, step, ask, draft, answer, crashes, overtaken>>

-----------------------------------------------------------------------------
(* Under the lock *)

IsAccount(f) == f \notin {Absent, Torn}

Return(c, result) == Goto(c, "unlock") /\ answer' = [answer EXCEPT ![c] = result]

\* Variant: the password is not compared.
CheckOnlyFile(c) ==
  /\ step[c] = "fetch" /\ ask[c].kind \in {"login", "delete"}
  /\ Return(c, IF IsAccount(file)
               THEN IF ask[c].kind = "delete" THEN "verified" ELSE "done"
               ELSE "refused")
  /\ UNCHANGED <<file, lock, ask, draft, crashes, overtaken>>

\* loadUserById, and the password compared with what it loaded.
Check(c) ==
  /\ step[c] = "fetch" /\ ask[c].kind \in {"login", "delete"}
  /\ Return(c, IF ~IsAccount(file) THEN "refused"
               ELSE IF file.pw # ask[c].pw THEN "refused"
               ELSE IF ask[c].kind = "delete" THEN "verified" ELSE "done")
  /\ UNCHANGED <<file, lock, ask, draft, crashes, overtaken>>

\* createAndWriteUnsafe: the 'wx' flag makes the file or fails.
Create(c) ==
  /\ step[c] = "fetch" /\ ask[c].kind = "register"
  /\ IF file = Absent THEN file' = Torn /\ Goto(c, "fill") /\ UNCHANGED answer
                      ELSE Return(c, "refused") /\ UNCHANGED file
  /\ UNCHANGED <<lock, ask, draft, crashes, overtaken>>

Deleting == {d \in Calls : Active(d) /\ answer[d] = "verified"}

Fill(c) ==
  /\ step[c] = "fill"
  /\ \/ /\ file' = Fresh(ask[c].pw) /\ overtaken' = overtaken \cup Deleting
        /\ Return(c, "done")
     \/ UNCHANGED <<file, overtaken>> /\ Return(c, "refused")
  /\ UNCHANGED <<lock, ask, draft, crashes>>

\* readUnsafe and the modifier, which throws if it refuses.
Modify(c) ==
  /\ step[c] = "fetch" /\ ask[c].kind \in Updates
  /\ IF IsAccount(file)
     THEN LET new == Effects(c, ask[c], file) IN
          \/ (\E b \in new : draft' = [draft EXCEPT ![c] = b]) /\ Goto(c, "save") /\ UNCHANGED answer
          \/ new = {} /\ Return(c, "refused") /\ UNCHANGED draft
     ELSE Return(c, "refused") /\ UNCHANGED draft
  /\ UNCHANGED <<file, lock, ask, crashes, overtaken>>

\* writeUnsafe: a failure to write or to rename leaves the file as it was; one to
\* remove the temporary file comes after the rename.
Save(c) ==
  /\ step[c] = "save"
  /\ \/ /\ file' = draft[c]
        /\ overtaken' = IF IsAccount(file) => draft[c].pw # file.pw
                        THEN overtaken \cup Deleting ELSE overtaken
        /\ \E result \in {"done", "refused"} : Return(c, result)
     \/ UNCHANGED <<file, overtaken>> /\ Return(c, "refused")
  /\ draft' = [draft EXCEPT ![c] = Absent]
  /\ UNCHANGED <<lock, ask, crashes>>

\* deleteUnsafe, which is content with no file.
Delete(c) ==
  /\ step[c] = "remove"
  /\ \/ file' = Absent /\ Return(c, "done")
     \/ UNCHANGED file /\ Return(c, "refused")
  /\ UNCHANGED <<lock, ask, draft, crashes, overtaken>>

Crash ==
  /\ crashes < MaxCrashes /\ crashes' = crashes + 1
  /\ step' = [c \in Calls |-> IF Active(c) THEN "lost" ELSE step[c]]
  /\ lock' = IF lock \in Calls THEN Orphan ELSE lock
  /\ draft' = [c \in Calls |-> Absent]
  /\ UNCHANGED <<file, ask, answer, overtaken>>

CallStep(c) ==
  \/ Acquire(c) \/ GiveUp(c) \/ Unlock(c)
  \/ Check(c) \/ Create(c) \/ Fill(c) \/ Modify(c) \/ Save(c) \/ Delete(c)

Next ==
  \/ \E c \in Calls : CallStep(c) \/ \E r \in Requests[c] : Ask(c, r)
  \/ LockGoesStale
  \/ Crash

Spec == Init /\ [][Next]_vars

\* The process runs what it has begun, and a lock left behind becomes stale.
FairSpec == Spec /\ WF_vars(LockGoesStale) /\ \A c \in Calls : WF_vars(CallStep(c))

-----------------------------------------------------------------------------
(* Properties *)

\* Each change users see is one whole operation on what the account held then: no
\* update is lost or half made, of two registrations of a name one wins, and an
\* account that is gone is not written back.
AtomicUpdates == G!Spec

\* Under calls at once, failures and crashes, the hosts of an account fall out of
\* order only when an updateUser that replaces its host_groups is written.
StoredHostsInOrder ==
  [][InOrder(shown) /\ ~InOrder(shown') =>
       \E c \in Calls : step[c] = "save" /\ ReplacesHosts(ask[c])]_vars

\* The same without the exception does not hold.
StoredHostsAlwaysInOrder == G!HostsAlwaysInOrder

\* An account is deleted with its password, unless the password (or the account)
\* was replaced after the deletion compared it.
DeletedWithItsPassword ==
  [][\A c \in Calls :
       step[c] = "remove" /\ IsAccount(file) /\ file' = Absent =>
         c \in overtaken \/ file.pw = ask[c].pw]_vars

\* The same without the exception does not hold: deleteUser compares the password
\* in one hold of the lock and removes the file in another.
DeletedWithPasswordItHas ==
  [][\A c \in Calls :
       step[c] = "remove" /\ IsAccount(file) /\ file' = Absent => file.pw = ask[c].pw]_vars

\* Whatever a call meets, a crash and a failing release included, the account can
\* be locked again.
LockComesFree == []<>(lock = NoCall)
=============================================================================

---------------------------- MODULE DatabaseView ----------------------------
(***************************************************************************)
(* What the web client shows of one host's databases (databaseCoreSlice):  *)
(* the lists of the dashboards, their mirror in the tree (which background *)
(* polls do not move), and the padlocks, while reads, actions, failures,   *)
(* changes made by others and a disconnect come in any order.              *)
(*                                                                         *)
(* Reads of the list are shared (SharedReads) and stamped when sent; the   *)
(* result of an action is stamped when it returns.  The server counts its  *)
(* changes, so that what is shown can be compared with what was.           *)
(*                                                                         *)
(* Which database is selected, and the names of the HA databases, are left *)
(* out.  All reads are of one login session of the web manager.            *)
(***************************************************************************)
EXTENDS SharedReads

CONSTANTS
  Acts, Dbs,
  None,        \* no list
  Emptied,     \* the list a failed read leaves
  NoAct, NoAnswer,
  MaxChanges,  \* bound: changes made by others
  MaxCloses    \* bound: disconnects

VARIABLES
  up, in, ver,   \* server: databases that are up, logged in to, and changes so far
  carried,       \* what the request in flight has read
  foreground,    \* reads that are no background poll
  pending,       \* pendingReadsByHost: reads of this connection not settled
  loading,       \* loadingByHost
  open,          \* the user is connected to the host
  live, tree,    \* databasesByHost and its mirror
  liveSeq, treeSeq, \* appliedLiveSeqByHost, appliedNavigatorSeqByHost
  padlock,       \* loggedInDatabases
  loggingIn,     \* loggingInDatabases
  changedSeq,    \* loginChangedSeq
  act, at, got,  \* an action, where it stands, and its answer
  padVer,        \* history: the change a padlock is from
  askedVer,      \* history: changes so far when a read was asked for
  late, changes, closes \* history: an answer came in while closed; bounds

serverVars == <<up, in, ver, carried>>
readState  == <<foreground, pending, loading>>
viewVars   == <<live, tree, liveSeq, treeSeq>>
loginVars  == <<padlock, loggingIn, changedSeq, padVer>>
actVars    == <<act, at, got>>
counts     == <<changes, closes>>
vars == <<readVars, serverVars, readState, open, viewVars, loginVars, actVars,
          askedVer, late, counts>>

-----------------------------------------------------------------------------
Snapshot == [up : SUBSET Dbs, in : SUBSET Dbs, ver : Nat]
Shown == [up : SUBSET Dbs, ver : Nat] \cup {None, Emptied}

Act == [kind : {"start", "stop", "login", "logout", "forget", "register", "bulk", "use"},
        db : Dbs]

TypeOK ==
  /\ ReadsTypeOK
  /\ up \subseteq Dbs /\ in \subseteq Dbs /\ ver \in Nat
  /\ carried \in Snapshot \cup {NoAnswer}
  /\ flight = 0 => carried = NoAnswer
  /\ foreground \subseteq Reads /\ pending \subseteq InFlight \cup Queued
  /\ loading = (pending \cap foreground # {})
  /\ open \in BOOLEAN
  /\ live \in Shown /\ tree \in Shown
  /\ liveSeq \in 0 .. lastSeq /\ treeSeq \in 0 .. liveSeq
  /\ padlock \subseteq Dbs /\ loggingIn \subseteq Dbs
  /\ changedSeq \in [Dbs -> 0 .. lastSeq]
  /\ act \in [Acts -> Act \cup {NoAct}]
  /\ at \in [Acts -> {"new", "sent", "ok", "missing", "refused", "lost",
                      "probe", "probeLost", "probed", "probedLost", "done"}]
  /\ got \in [Acts -> Snapshot \cup {NoAnswer}]

Init ==
  /\ ReadsInit
  /\ up \in SUBSET Dbs /\ in = {} /\ ver = 0 /\ carried = NoAnswer
  /\ foreground = {} /\ pending = {} /\ loading = FALSE
  /\ open = TRUE
  /\ live = None /\ tree = None /\ liveSeq = 0 /\ treeSeq = 0
  /\ padlock = {} /\ loggingIn = {} /\ changedSeq = [d \in Dbs |-> 0]
  /\ act = [a \in Acts |-> NoAct] /\ at = [a \in Acts |-> "new"]
  /\ got = [a \in Acts |-> NoAnswer]
  /\ padVer = [d \in Dbs |-> 0] /\ askedVer = [r \in Reads |-> 0]
  /\ late = FALSE /\ changes = 0 /\ closes = 0

-----------------------------------------------------------------------------
(* The server *)

Now == [up |-> up, in |-> in, ver |-> ver]

\* Others start and stop databases, and logins end.
Other(d) ==
  /\ changes < MaxChanges /\ changes' = changes + 1
  /\ ver' = ver + 1
  /\ \/ up' = (IF d \in up THEN up \ {d} ELSE up \cup {d}) /\ UNCHANGED in
     \/ d \in in /\ in' = in \ {d} /\ UNCHANGED up
  /\ UNCHANGED <<readVars, carried, readState, open, viewVars, loginVars, actVars,
                 askedVer, late, closes>>

\* The request in flight reaches the server.
ServeRead ==
  /\ flight # 0 /\ carried = NoAnswer
  /\ carried' = Now
  /\ UNCHANGED <<readVars, up, in, ver, readState, open, viewVars, loginVars, actVars,
                 askedVer, late, counts>>

\* What action x makes of the server's state.
Upped(x) ==
  IF x.kind = "start" THEN up \cup {x.db}
  ELSE IF x.kind = "stop" THEN up \ {x.db}
  ELSE IF x.kind = "bulk" /\ x.db \in in THEN up \ {x.db}
  ELSE up

LoggedIn(x) ==
  IF x.kind = "login" THEN in \cup {x.db}
  ELSE IF x.kind \in {"logout", "forget"} THEN in \ {x.db}
  ELSE in

NeedsLogin(x) == x.kind \in {"start", "stop", "use"}

\* An action reaches the server: it is done, or turned down for want of a login,
\* or fails; the answer may get lost.
Serve(a) ==
  LET x == act[a] IN
  /\ at[a] = "sent"
  /\ \/ /\ NeedsLogin(x) => x.db \in in
        /\ up' = Upped(x) /\ in' = LoggedIn(x)
        /\ ver' = IF up' = up /\ in' = in THEN ver ELSE ver + 1
        /\ got' = [got EXCEPT ![a] = [up |-> up', in |-> in', ver |-> ver']]
        /\ \E answer \in {"ok", "lost"} : at' = [at EXCEPT ![a] = answer]
     \/ /\ NeedsLogin(x) /\ x.db \notin in
        /\ at' = [at EXCEPT ![a] = "missing"]
        /\ got' = [got EXCEPT ![a] = Now]
        /\ UNCHANGED <<up, in, ver>>
     \/ /\ at' = [at EXCEPT ![a] = "refused"]
        /\ UNCHANGED <<up, in, ver, got>>
  /\ UNCHANGED <<readVars, carried, readState, open, viewVars, loginVars, act,
                 askedVer, late, counts>>

\* After a stop that failed, its start-info is read on the side.
ServeProbe(a) ==
  /\ at[a] \in {"probe", "probeLost"}
  /\ at' = [at EXCEPT ![a] = IF @ = "probe" THEN "probed" ELSE "probedLost"]
  /\ \E answer \in {Now, NoAnswer} : got' = [got EXCEPT ![a] = answer]
  /\ UNCHANGED <<readVars, serverVars, readState, open, viewVars, loginVars, act,
                 askedVer, late, counts>>

-----------------------------------------------------------------------------
(* What an answer changes *)

ListOf(s) == [up |-> s.up, ver |-> s.ver]

\* Variant: the stamp of the padlock's last change is not looked at.
KeepsPadlockNever(d, seq) == FALSE

\* Variant: a padlock that the client has moved once is its own for good.
KeepsPadlockOnceMoved(d, seq) == changedSeq[d] # 0

\* changedSinceRequest
KeepsPadlock(d, seq) == changedSeq[d] > seq

\* syncLoggedInFromStartInfo: a padlock opened meanwhile by a login stays open.
Synced(s, seq) ==
  {d \in Dbs : \/ d \in padlock /\ (d \in loggingIn \/ KeepsPadlock(d, seq))
               \/ d \in s.in /\ ~KeepsPadlock(d, seq)}

SyncedVer(s, seq) ==
  [d \in Dbs |-> IF \/ KeepsPadlock(d, seq)
                    \/ d \in padlock /\ d \in loggingIn /\ d \notin s.in
                 THEN padVer[d] ELSE s.ver]

\* Variant: whatever comes in is shown.
NewerAlways(seq, applied) == TRUE

Newer(seq, applied) == seq > applied

\* applyStartInfo, the lists
ApplyLists(s, seq, background) ==
  /\ IF Newer(seq, liveSeq) THEN live' = ListOf(s) /\ liveSeq' = seq
                            ELSE UNCHANGED <<live, liveSeq>>
  /\ IF ~background /\ Newer(seq, treeSeq) THEN tree' = ListOf(s) /\ treeSeq' = seq
                                           ELSE UNCHANGED <<tree, treeSeq>>

EmptyLists(seq) ==
  /\ IF Newer(seq, liveSeq) THEN live' = Emptied /\ liveSeq' = seq
                            ELSE UNCHANGED <<live, liveSeq>>
  /\ IF Newer(seq, treeSeq) THEN tree' = Emptied /\ treeSeq' = seq
                            ELSE UNCHANGED <<tree, treeSeq>>

\* Padlocks that the client itself opens or closes, stamped.
Padlock(open_, d, seq, v) ==
  /\ padlock' = IF open_ THEN padlock \cup {d} ELSE padlock \ {d}
  /\ changedSeq' = [changedSeq EXCEPT ![d] = seq]
  /\ padVer' = [padVer EXCEPT ![d] = v]

-----------------------------------------------------------------------------
(* Reads *)

\* startRead
StartRead(r, background) ==
  /\ AskRead(r, ~background)
  /\ foreground' = IF background THEN foreground ELSE foreground \cup {r}
  /\ pending' = pending \cup {r}
  /\ loading' = (loading \/ ~background)
  /\ askedVer' = [askedVer EXCEPT ![r] = ver]

Read(r, background) ==
  /\ open /\ StartRead(r, background)
  /\ UNCHANGED <<serverVars, open, viewVars, loginVars, actVars, late, counts>>

\* Variant: a read of an earlier connection counts as well.
SettledAll == InFlight

\* Variant: an answer is dropped if another is to follow.
SettledIfLast == IF Queued = {} THEN InFlight \cap pending ELSE {}

\* settleRead: reads of an earlier connection do not count.
Settled == InFlight \cap pending

\* The request in flight is answered, or fails: as reading changes nothing, an
\* answer that gets lost is the same as none.  A failed poll changes nothing.
Answered ==
  LET reads == Settled
      user  == reads \cap foreground
  IN /\ Settle
     /\ pending' = pending \ reads
     /\ loading' = (pending' \cap foreground # {})
     /\ carried' = NoAnswer
     /\ \/ /\ carried # NoAnswer /\ reads # {}
           /\ ApplyLists(carried, flight, user = {})
           /\ IF Newer(flight, liveSeq)
              THEN padlock' = Synced(carried, flight) /\ padVer' = SyncedVer(carried, flight)
              ELSE UNCHANGED <<padlock, padVer>>
        \/ /\ carried = NoAnswer /\ user # {}
           /\ EmptyLists(flight)
           /\ UNCHANGED <<padlock, padVer>>
        \/ /\ reads = {} \/ (user = {} /\ carried = NoAnswer)
           /\ UNCHANGED <<viewVars, padlock, padVer>>
     /\ UNCHANGED <<up, in, ver, foreground, open, loggingIn, changedSeq, actVars,
                    askedVer, late, counts>>

-----------------------------------------------------------------------------
(* Actions *)

DoAct(a, x) ==
  /\ open /\ at[a] = "new"
  /\ act' = [act EXCEPT ![a] = x] /\ at' = [at EXCEPT ![a] = "sent"]
  /\ loggingIn' = IF x.kind = "login" THEN loggingIn \cup {x.db} ELSE loggingIn
  /\ UNCHANGED <<readVars, serverVars, readState, open, viewVars, padlock, changedSeq,
                 padVer, got, askedVer, late, counts>>

Goto(a, label) == at' = [at EXCEPT ![a] = label]

\* An answer that is not the host's any more if it was closed.
Came == late' = (late \/ ~open)

unread == <<flight, stand, of, readState, askedVer>>

\* A start or stop that worked: its start-info is shown, and the database passed
\* the login check.
Worked(a) ==
  LET d == act[a].db
      seq == lastSeq + 1
  IN /\ Stamp /\ ApplyLists(got[a], seq, FALSE)
     /\ padlock' = Synced(got[a], seq) \cup {d}
     /\ padVer' = [SyncedVer(got[a], seq) EXCEPT ![d] = got[a].ver]
     /\ changedSeq' = [changedSeq EXCEPT ![d] = seq]
     /\ UNCHANGED <<unread, loggingIn>>

\* The result of action a.
Result(a) ==
  LET x == act[a]
      s == got[a]
      seq == lastSeq + 1
  IN /\ at[a] = "ok"
     /\ Goto(a, "done") /\ Came
     /\ CASE x.kind \in {"start", "stop"} -> Worked(a)
          [] x.kind = "login" ->
               /\ Stamp /\ Padlock(TRUE, x.db, seq, s.ver)
               /\ loggingIn' = loggingIn \ {x.db}
               /\ UNCHANGED <<unread, viewVars>>
          [] x.kind = "logout" ->
               /\ Stamp /\ Padlock(FALSE, x.db, seq, s.ver)
               /\ UNCHANGED <<unread, viewVars, loggingIn>>
          [] x.kind = "forget" ->
               /\ Stamp /\ ApplyLists(s, seq, FALSE)
               /\ padlock' = Synced(s, seq) \ {x.db}
               /\ padVer' = [SyncedVer(s, seq) EXCEPT ![x.db] = s.ver]
               /\ changedSeq' = [changedSeq EXCEPT ![x.db] = seq]
               /\ UNCHANGED <<unread, loggingIn>>
          [] x.kind = "register" ->
               /\ Stamp /\ ApplyLists(s, seq, FALSE)
               /\ padlock' = Synced(s, seq) /\ padVer' = SyncedVer(s, seq)
               /\ UNCHANGED <<unread, loggingIn, changedSeq>>
          [] x.kind = "bulk" ->
               /\ Stamp
               /\ IF x.db \in s.in THEN Padlock(TRUE, x.db, seq, s.ver)
                                    ELSE UNCHANGED <<padlock, changedSeq, padVer>>
               /\ UNCHANGED <<unread, viewVars, loggingIn>>
          [] x.kind = "use" -> UNCHANGED <<readVars, readState, askedVer, viewVars, loginVars>>
     /\ UNCHANGED <<serverVars, open, act, got, counts>>

\* MISSING_DB_CREDENTIALS: clearDatabaseLogin.
Missing(a) ==
  LET d == act[a].db IN
  /\ at[a] = "missing"
  /\ Goto(a, IF act[a].kind = "stop" THEN "probe" ELSE "done") /\ Came
  /\ Stamp /\ Padlock(FALSE, d, lastSeq + 1, got[a].ver)
  /\ loggingIn' = loggingIn \ {d}
  /\ UNCHANGED <<unread, viewVars, serverVars, open, act, got, counts>>

\* A read is asked for when there was no answer (isAmbiguousFailure).
ReadAfter(lost) ==
  IF lost /\ \E r \in Reads : stand[r] = "new"
  THEN LET r == CHOOSE r \in Reads : stand[r] = "new" IN StartRead(r, FALSE)
  ELSE UNCHANGED <<readVars, readState, askedVer>>

Failed(a) ==
  LET x == act[a] IN
  /\ at[a] \in {"refused", "lost"} /\ Came
  /\ IF x.kind = "stop"
     THEN Goto(a, IF at[a] = "lost" THEN "probeLost" ELSE "probe")
          /\ ReadAfter(FALSE)
     ELSE Goto(a, "done") /\ ReadAfter(at[a] = "lost" /\ x.kind = "start")
  /\ loggingIn' = IF x.kind = "login" THEN loggingIn \ {x.db} ELSE loggingIn
  /\ UNCHANGED <<serverVars, open, viewVars, padlock, changedSeq, padVer, act, got, counts>>

\* The database is down after all: the stop counts as done.
Probed(a) ==
  /\ at[a] \in {"probed", "probedLost"} /\ Goto(a, "done") /\ Came
  /\ IF got[a] # NoAnswer /\ act[a].db \notin got[a].up
     THEN Worked(a)
     ELSE ReadAfter(at[a] = "probedLost") /\ UNCHANGED <<viewVars, loginVars>>
  /\ UNCHANGED <<serverVars, open, act, got, counts>>

-----------------------------------------------------------------------------
(* The host *)

\* Another host is shown: resetDatabaseState.
Leave ==
  /\ open /\ live' = None /\ tree' = None
  /\ <<live, tree>> # <<None, None>>
  /\ UNCHANGED <<readVars, serverVars, readState, open, liveSeq, treeSeq, loginVars,
                 actVars, askedVer, late, counts>>

\* The host is disconnected or deleted: closeHostTabs, and, but for the tree's
\* own menu, clearDatabaseLoginsForHost.
Close(forgetting) ==
  /\ open /\ open' = FALSE
  /\ closes < MaxCloses /\ closes' = closes + 1
  /\ Stamp
  /\ live' = None /\ tree' = None
  /\ liveSeq' = lastSeq + 1 /\ treeSeq' = lastSeq + 1
  /\ pending' = {} /\ loading' = FALSE
  /\ IF forgetting THEN padlock' = {} /\ loggingIn' = {} ELSE UNCHANGED <<padlock, loggingIn>>
  /\ late' = FALSE
  /\ UNCHANGED <<flight, stand, of, serverVars, foreground, changedSeq, padVer, actVars,
                 askedVer, changes>>

\* The user connects again.
Open ==
  /\ ~open /\ open' = TRUE
  /\ UNCHANGED <<readVars, serverVars, readState, viewVars, loginVars, actVars,
                 askedVer, late, counts>>

ActStep(a) == Serve(a) \/ ServeProbe(a) \/ Result(a) \/ Missing(a) \/ Failed(a) \/ Probed(a)

Next ==
  \/ \E d \in Dbs : Other(d)
  \/ \E r \in Reads, background \in BOOLEAN : Read(r, background)
  \/ ServeRead \/ Answered
  \/ \E a \in Acts : ActStep(a) \/ \E x \in Act : DoAct(a, x)
  \/ Leave \/ Open \/ \E forgetting \in BOOLEAN : Close(forgetting)

Spec == Init /\ [][Next]_vars

\* Requests are answered, or time out.
FairSpec == Spec /\ WF_vars(Answered)

-----------------------------------------------------------------------------
(* Properties *)

Older(new, old) == new \notin {None, Emptied} /\ old \notin {None, Emptied} /\ new.ver < old.ver

Returned == \E a \in Acts : at'[a] # at[a] /\ at[a] \notin {"new", "sent", "probe", "probeLost"}

\* No answer to a read, however late, takes a list back to what was before: only
\* the answer of an action, stamped when it returns, can.
ReadsNeverGoBack ==
  [][Returned \/ ~(Older(live', live) \/ Older(tree', tree))]_vars

\* The same with actions does not hold: an action's answer may be older than a
\* read sent after the action was done, and settled before its answer came.
ListsNeverGoBack == [][~(Older(live', live) \/ Older(tree', tree))]_vars

\* Nor does an answer to a read take back a padlock that a login, a logout or a
\* refusal has moved since.
PadlocksNeverGoBack ==
  [][Returned \/ \A d \in Dbs : padVer'[d] >= padVer[d]]_vars

\* However often the client moved a padlock itself, and whatever it had shown: the
\* answer to a read that was sent after all that shows what was read, in the live list
\* and its padlocks (the tree goes by stamps of its own).
LatestReadShows ==
  [][flight = lastSeq /\ Settled # {} /\ carried # NoAnswer /\ flight' # flight =>
       /\ live' = ListOf(carried)
       /\ padlock' = carried.in \cup (padlock \cap loggingIn)]_vars

\* What the answer of an action opens was logged in to when the action was done.
\* It does not hold of a stop that was turned down for want of a login, with the
\* database down.
OpenedOnlyAfterLogin ==
  [][\A a \in Acts :
       at[a] \in {"ok", "probed", "probedLost"} /\ at'[a] = "done" /\ got[a] # NoAnswer =>
         padlock' \subseteq padlock \cup got[a].in]_vars

\* What a user asks for, or a refetch after an action, is read after it was asked.
FreshIsFresh ==
  [][\A r \in Reads \cap foreground :
       stand[r] = "flight" /\ stand'[r] = "done" /\ carried # NoAnswer =>
         carried.ver >= askedVer[r]]_vars

\* A host that was closed shows nothing until it is opened, unless an action that
\* was under way returns.
ClosedShowsNothing == ~open /\ ~late => live = None /\ tree = None /\ ~loading

\* Every spinner stops, also those of reads that fail, wait, or outlive a
\* connection.
SpinnerStops == loading ~> ~loading
=============================================================================

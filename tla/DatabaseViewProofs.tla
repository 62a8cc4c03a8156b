-------------------------- MODULE DatabaseViewProofs --------------------------
(***************************************************************************)
(* Proofs about DatabaseView, for any reads, actions, databases and        *)
(* bounds.                                                                 *)
(*                                                                         *)
(*  - ViewTypeCorrect, ClosedShows: the stored state keeps its shape, and  *)
(*    a closed host shows nothing and waits for nothing (ClosedInv);       *)
(*  - ReadsInOrder, PadlocksInOrder: nothing shown is newer than the       *)
(*    server (ShownInv), and what the request in flight has read is no     *)
(*    older than what it may still replace (OrderInv);                     *)
(*  - LatestShown: only its own answer makes a request's stamp that of     *)
(*    the list (AskedInv), so it is not dropped as old;                    *)
(*  - FreshReads: the request a user waits for is served after it was      *)
(*    asked for (OrderInv).                                                *)
(*                                                                         *)
(* For the client a step is of one of a few kinds (Kinds): the server      *)
(* moves, a read is asked for, served or answered, the answer of an action *)
(* is shown, the host is left, closed or opened.  The client's part of the *)
(* invariant is shown to hold kind by kind.                                *)
(***************************************************************************)
EXTENDS DatabaseView, TLAPS

IsList(x) == x \notin {None, Emptied}

\* TypeOK but for the actions.
ClientType ==
  /\ ReadsTypeOK
  /\ up \subseteq Dbs /\ in \subseteq Dbs /\ ver \in Nat
  /\ carried \in Snapshot \cup {NoAnswer} /\ (flight = 0 => carried = NoAnswer)
  /\ foreground \subseteq Reads /\ pending \subseteq InFlight \cup Queued
  /\ loading = (pending \cap foreground # {}) /\ open \in BOOLEAN
  /\ live \in Shown /\ tree \in Shown /\ liveSeq \in 0 .. lastSeq /\ treeSeq \in 0 .. liveSeq
  /\ padlock \subseteq Dbs /\ loggingIn \subseteq Dbs /\ changedSeq \in [Dbs -> 0 .. lastSeq]
  /\ askedVer \in [Reads -> Nat] /\ padVer \in [Dbs -> Nat]

\* The actions are known once asked for, and no answer is newer than the server.
ActsInv ==
  /\ act \in [Acts -> Act \cup {NoAct}] /\ got \in [Acts -> Snapshot \cup {NoAnswer}]
  /\ at \in [Acts -> {"new", "sent", "ok", "missing", "refused", "lost",
                      "probe", "probeLost", "probed", "probedLost", "done"}]
  /\ \A a \in Acts : at[a] # "new" => act[a] \in Act
  /\ \A a \in Acts : at[a] \in {"ok", "missing"} \/ got[a] # NoAnswer =>
       got[a] \in Snapshot /\ got[a].ver <= ver

\* Reads are known once asked for; the list shown is not yet that of the request
\* in flight.
AskedInv ==
  /\ \A r \in foreground : stand[r] # "new"
  /\ flight # 0 => liveSeq # flight

\* Nothing the client knows is newer than the server.
ShownInv ==
  /\ carried # NoAnswer => carried.ver <= ver
  /\ IsList(live) => live.ver <= ver
  /\ IsList(tree) => tree.ver <= ver
  /\ \A d \in Dbs : padVer[d] <= ver
  /\ \A r \in Reads : askedVer[r] <= ver

\* What the request in flight has read is no older than what it may replace, nor
\* than the user's reads that wait for it.
OrderInv ==
  carried # NoAnswer =>
    /\ liveSeq < flight /\ IsList(live) => live.ver <= carried.ver
    /\ treeSeq < flight /\ IsList(tree) => tree.ver <= carried.ver
    /\ \A d \in Dbs : liveSeq < flight /\ changedSeq[d] <= flight => padVer[d] <= carried.ver
    /\ \A r \in foreground : stand[r] = "flight" => askedVer[r] <= carried.ver

ClosedInv == ~open /\ ~late => live = None /\ tree = None /\ pending = {}

ClientInv == ClientType /\ AskedInv /\ ShownInv /\ OrderInv /\ ClosedInv
ViewInv == ClientInv /\ ActsInv

-----------------------------------------------------------------------------
(* The kinds of steps *)

\* Others, or an action, reach the server.
ServerMoves ==
  /\ UNCHANGED <<readVars, carried, readState, open, viewVars, loginVars, askedVer, late>>
  /\ up' \subseteq Dbs /\ in' \subseteq Dbs /\ ver' \in Nat /\ ver <= ver'

Reached ==
  /\ flight # 0 /\ carried = NoAnswer /\ carried' = Now
  /\ UNCHANGED <<readVars, up, in, ver, readState, open, viewVars, loginVars, askedVer, late>>

Asked(r, background) ==
  /\ StartRead(r, background)
  /\ loggingIn' \subseteq Dbs /\ open' = open /\ (open \/ late')
  /\ UNCHANGED <<serverVars, viewVars, padlock, changedSeq, padVer>>

\* The answer s of an action is shown.
Shows(s) ==
  /\ Stamp /\ UNCHANGED <<unread, serverVars>>
  /\ open' = open /\ (open \/ late')
  /\ \/ UNCHANGED viewVars
     \/ /\ live' = ListOf(s) /\ liveSeq' = lastSeq + 1
        /\ tree' = ListOf(s) /\ treeSeq' = lastSeq + 1
  /\ padlock' \subseteq Dbs /\ loggingIn' \subseteq Dbs
  /\ changedSeq' \in [Dbs -> Nat] /\ padVer' \in [Dbs -> Nat]
  /\ \A d \in Dbs : /\ changedSeq'[d] \in {changedSeq[d], lastSeq + 1}
                     /\ \/ padVer'[d] = padVer[d]
                        \/ padVer'[d] = s.ver /\ lastSeq + 1 \in {changedSeq'[d], liveSeq'}

Quiet ==
  /\ loggingIn' \subseteq Dbs
  /\ open' \in BOOLEAN /\ (open' \/ (~open /\ (late => late')))
  /\ UNCHANGED <<readVars, serverVars, readState, viewVars, padlock, changedSeq, padVer, askedVer>>

\* What a failed or doubtful action asks for.
LEMMA ReadsAfter ==
  ASSUME NEW lost, ReadAfter(lost)
  PROVE  \/ \E r \in Reads : StartRead(r, FALSE)
         \/ UNCHANGED <<readVars, readState, askedVer>>
BY DEF ReadAfter

LEMMA NewStamp ==
  ASSUME ClientType
  PROVE  /\ lastSeq + 1 \in Nat /\ Newer(lastSeq + 1, liveSeq) /\ Newer(lastSeq + 1, treeSeq)
         /\ \A d \in Dbs : ~KeepsPadlock(d, lastSeq + 1)
BY DEF ClientType, ReadsTypeOK, Newer, KeepsPadlock

\* The answer of a start or stop that worked.
LEMMA WorkedShows ==
  ASSUME ClientType, ActsInv, NEW a \in Acts, Worked(a), act[a] \in Act, got[a] \in Snapshot,
         UNCHANGED <<serverVars, open>>, Came
  PROVE  Shows(got[a])
<1>1. act[a].db \in Dbs /\ padlock \subseteq Dbs /\ loggingIn \subseteq Dbs
  BY DEF ClientType, Act
<1>2. got[a].in \subseteq Dbs /\ got[a].ver \in Nat
  BY DEF Snapshot
<1>3. /\ live' = ListOf(got[a]) /\ liveSeq' = lastSeq + 1
      /\ tree' = ListOf(got[a]) /\ treeSeq' = lastSeq + 1
  BY NewStamp DEF Worked, ApplyLists
<1>4. changedSeq' \in [Dbs -> Nat] /\ \A d \in Dbs : changedSeq'[d] \in {changedSeq[d], lastSeq + 1}
  <2>1. changedSeq \in [Dbs -> Nat] /\ changedSeq' = [changedSeq EXCEPT ![act[a].db] = lastSeq + 1]
    BY DEF Worked, ClientType, ReadsTypeOK
  <2> QED
    BY <1>1, <2>1, NewStamp
<1>5. padVer' \in [Dbs -> Nat] /\ \A d \in Dbs : padVer'[d] \in {padVer[d], got[a].ver}
  BY <1>2 DEF Worked, SyncedVer, ClientType
<1>6. padlock' \subseteq Dbs /\ loggingIn' \subseteq Dbs
  BY <1>1 DEF Worked, Synced
<1>7. Stamp /\ UNCHANGED <<unread, serverVars>> /\ open' = open /\ (open \/ late')
  BY DEF Worked, Came
<1> QED
  BY <1>3, <1>4, <1>5, <1>6, <1>7 DEF Shows

\* A padlock moved by the client itself.
LEMMA PadlockMoved ==
  ASSUME ClientType, ActsInv, NEW opened \in BOOLEAN, NEW d \in Dbs, NEW v \in Nat,
         Padlock(opened, d, lastSeq + 1, v)
  PROVE  /\ padlock' \subseteq Dbs /\ changedSeq' \in [Dbs -> Nat] /\ padVer' \in [Dbs -> Nat]
         /\ \A e \in Dbs : \/ changedSeq'[e] = changedSeq[e] /\ padVer'[e] = padVer[e]
                           \/ changedSeq'[e] = lastSeq + 1 /\ padVer'[e] = v
<1>1. padlock \subseteq Dbs /\ changedSeq \in [Dbs -> Nat] /\ lastSeq + 1 \in Nat /\ padVer \in [Dbs -> Nat]
  BY DEF ClientType, ReadsTypeOK
<1> QED
  BY <1>1 DEF Padlock

LEMMA ResultKind ==
  ASSUME ClientType, ActsInv, NEW a \in Acts, Result(a)
  PROVE  Quiet \/ Shows(got[a])
<1> DEFINE x == act[a]
           s == got[a]
<1>1. x \in Act /\ s \in Snapshot
  BY DEF Result, ActsInv
<1>2. x.db \in Dbs /\ s.in \subseteq Dbs /\ s.ver \in Nat /\ padlock \subseteq Dbs /\ loggingIn \subseteq Dbs
  BY <1>1 DEF Act, Snapshot, ClientType
<1>3. UNCHANGED serverVars /\ open' = open /\ Came
  BY DEF Result
<1>4. open' = open /\ (open \/ late')
  BY <1>3 DEF Came
<1>5. changedSeq \in [Dbs -> Nat] /\ padVer \in [Dbs -> Nat] /\ lastSeq + 1 \in Nat
  BY DEF ClientType, ReadsTypeOK
<1>6. CASE x.kind \in {"start", "stop"}
  <2>1. Worked(a)
    BY <1>6 DEF Result
  <2> QED
    BY <1>1, <1>3, <2>1, WorkedShows
<1>7. CASE x.kind = "login" \/ x.kind = "logout" \/ x.kind = "bulk"
  <2>1. /\ Stamp /\ UNCHANGED <<unread, viewVars>> /\ loggingIn' \subseteq Dbs
        /\ \/ UNCHANGED <<padlock, changedSeq, padVer>>
           \/ \E opened \in BOOLEAN : Padlock(opened, x.db, lastSeq + 1, s.ver)
    BY <1>2, <1>7 DEF Result
  <2>2. CASE UNCHANGED <<padlock, changedSeq, padVer>>
    BY <1>2, <1>3, <1>4, <1>5, <2>1, <2>2 DEF Shows
  <2>3. ASSUME NEW opened \in BOOLEAN, Padlock(opened, x.db, lastSeq + 1, s.ver)
        PROVE  Shows(s)
    <3> HIDE DEF x, s
    <3>1. /\ padlock' \subseteq Dbs /\ changedSeq' \in [Dbs -> Nat] /\ padVer' \in [Dbs -> Nat]
          /\ \A e \in Dbs : \/ changedSeq'[e] = changedSeq[e] /\ padVer'[e] = padVer[e]
                            \/ changedSeq'[e] = lastSeq + 1 /\ padVer'[e] = s.ver
      BY <1>2, <2>3, PadlockMoved
    <3> QED
      BY <1>3, <1>4, <2>1, <3>1 DEF Shows
  <2> QED
    BY <2>1, <2>2, <2>3
<1>8. CASE x.kind = "forget" \/ x.kind = "register"
  <2>1. /\ Stamp /\ UNCHANGED <<unread, loggingIn>> /\ ApplyLists(s, lastSeq + 1, FALSE)
        /\ padlock' \subseteq Synced(s, lastSeq + 1)
    BY <1>8 DEF Result
  <2>2. /\ live' = ListOf(s) /\ liveSeq' = lastSeq + 1
        /\ tree' = ListOf(s) /\ treeSeq' = lastSeq + 1
    BY <2>1, NewStamp DEF ApplyLists
  <2>3. padlock' \subseteq Dbs /\ loggingIn' \subseteq Dbs
    BY <1>2, <2>1 DEF Synced
  <2>4. /\ padVer' \in {SyncedVer(s, lastSeq + 1), [SyncedVer(s, lastSeq + 1) EXCEPT ![x.db] = s.ver]}
        /\ changedSeq' \in {changedSeq, [changedSeq EXCEPT ![x.db] = lastSeq + 1]}
    BY <1>8 DEF Result
  <2>5. padVer' \in [Dbs -> Nat] /\ \A d \in Dbs : padVer'[d] \in {padVer[d], s.ver}
    BY <1>2, <1>5, <2>4 DEF SyncedVer
  <2>6. changedSeq' \in [Dbs -> Nat] /\ \A d \in Dbs : changedSeq'[d] \in {changedSeq[d], lastSeq + 1}
    BY <1>2, <1>5, <2>4
  <2>7. Shows(s)
    <3> HIDE DEF x, s
    <3> QED
      BY <1>3, <1>4, <2>1, <2>2, <2>3, <2>5, <2>6 DEF Shows
  <2> QED
    BY <2>7
<1>9. CASE x.kind = "use"
  <2>1. UNCHANGED <<readVars, readState, askedVer, viewVars, loginVars>>
    BY <1>9 DEF Result
  <2> QED
    BY <1>2, <1>3, <2>1 DEF Quiet, loginVars, Came, ClientType
<1> QED
  BY <1>1, <1>6, <1>7, <1>8, <1>9 DEF Act

LEMMA MissingKind ==
  ASSUME ClientType, ActsInv, NEW a \in Acts, Missing(a)
  PROVE  Shows(got[a])
<1>1. act[a] \in Act /\ got[a] \in Snapshot
  BY DEF Missing, ActsInv
<1>2. act[a].db \in Dbs /\ got[a].ver \in Nat /\ loggingIn \subseteq Dbs
  BY <1>1 DEF Act, Snapshot, ClientType
<1>3. /\ Stamp /\ UNCHANGED <<unread, viewVars, serverVars>> /\ loggingIn' \subseteq Dbs
      /\ open' = open /\ (open \/ late')
      /\ Padlock(FALSE, act[a].db, lastSeq + 1, got[a].ver)
  BY <1>2 DEF Missing, Came
<1>4. /\ padlock' \subseteq Dbs /\ changedSeq' \in [Dbs -> Nat] /\ padVer' \in [Dbs -> Nat]
      /\ \A e \in Dbs : \/ changedSeq'[e] = changedSeq[e] /\ padVer'[e] = padVer[e]
                        \/ changedSeq'[e] = lastSeq + 1 /\ padVer'[e] = got[a].ver
  BY <1>2, <1>3, PadlockMoved
<1> QED
  BY <1>3, <1>4 DEF Shows

LEMMA FailedKind ==
  ASSUME ClientType, ActsInv, NEW a \in Acts, Failed(a)
  PROVE  Quiet \/ \E r \in Reads : Asked(r, FALSE)
<1>1. /\ UNCHANGED <<serverVars, open, viewVars, padlock, changedSeq, padVer>> /\ Came
      /\ \E lost \in BOOLEAN : ReadAfter(lost)
  BY DEF Failed
<1>2. loggingIn' \subseteq Dbs
  BY DEF Failed, ClientType
<1> QED
  BY <1>1, <1>2, ReadsAfter DEF Quiet, Asked, Came, ClientType

LEMMA ProbedKind ==
  ASSUME ClientType, ActsInv, NEW a \in Acts, Probed(a)
  PROVE  \/ Quiet \/ \E r \in Reads : Asked(r, FALSE)
         \/ got[a] \in Snapshot /\ got[a].ver <= ver /\ Shows(got[a])
<1>1. UNCHANGED <<serverVars, open>> /\ Came
  BY DEF Probed
<1>2. CASE Worked(a) /\ got[a] # NoAnswer
  <2>1. act[a] \in Act /\ got[a] \in Snapshot /\ got[a].ver <= ver
    BY <1>2 DEF Probed, ActsInv
  <2> QED
    BY <1>1, <1>2, <2>1, WorkedShows
<1>3. CASE UNCHANGED <<viewVars, loginVars>> /\ \E lost \in BOOLEAN : ReadAfter(lost)
  <2>1. loggingIn' \subseteq Dbs
    BY <1>3 DEF loginVars, ClientType
  <2> QED
    BY <1>1, <1>3, <2>1, ReadsAfter DEF Quiet, Asked, Came, loginVars, ClientType
<1> QED
  BY <1>2, <1>3 DEF Probed

LEMMA Kinds ==
  ASSUME ClientType, ActsInv, Next
  PROVE  \/ ServerMoves \/ Reached \/ Quiet
         \/ \E r \in Reads, background \in BOOLEAN : Asked(r, background)
         \/ Answered
         \/ \E s \in Snapshot : s.ver <= ver /\ Shows(s)
         \/ Leave \/ \E forgetting \in BOOLEAN : Close(forgetting)
<1> up \subseteq Dbs /\ in \subseteq Dbs /\ ver \in Nat /\ loggingIn \subseteq Dbs
  BY DEF ClientType
<1>1. ASSUME NEW d \in Dbs, Other(d)
      PROVE  ServerMoves
  BY <1>1 DEF Other, ServerMoves
<1>2. ASSUME NEW r \in Reads, NEW background \in BOOLEAN, Read(r, background)
      PROVE  Asked(r, background)
  BY <1>2 DEF Read, Asked, loginVars
<1>3. ServeRead => Reached
  BY DEF ServeRead, Reached
<1>4. ASSUME NEW a \in Acts, Serve(a)
      PROVE  ServerMoves
  <2>1. act[a] \in Act /\ act[a].db \in Dbs
    BY <1>4 DEF Serve, ActsInv, Act
  <2>2. Upped(act[a]) \subseteq Dbs /\ LoggedIn(act[a]) \subseteq Dbs
    BY <2>1 DEF Upped, LoggedIn
  <2>3. UNCHANGED <<readVars, carried, readState, open, viewVars, loginVars, askedVer, late>>
    BY <1>4 DEF Serve
  <2>4. /\ up' \in {up, Upped(act[a])} /\ in' \in {in, LoggedIn(act[a])}
        /\ ver' \in {ver, ver + 1}
    BY <1>4 DEF Serve
  <2> QED
    BY <2>2, <2>3, <2>4 DEF ServerMoves
<1>5. ASSUME NEW a \in Acts, ServeProbe(a)
      PROVE  ServerMoves
  BY <1>5 DEF ServeProbe, ServerMoves, serverVars
<1>6. ASSUME NEW a \in Acts, Result(a)
      PROVE  Quiet \/ \E s \in Snapshot : s.ver <= ver /\ Shows(s)
  <2>1. got[a] \in Snapshot /\ got[a].ver <= ver
    BY <1>6 DEF Result, ActsInv
  <2> QED
    BY <1>6, <2>1, ResultKind
<1>7. ASSUME NEW a \in Acts, Missing(a)
      PROVE  \E s \in Snapshot : s.ver <= ver /\ Shows(s)
  <2>1. got[a] \in Snapshot /\ got[a].ver <= ver
    BY <1>7 DEF Missing, ActsInv
  <2> QED
    BY <1>7, <2>1, MissingKind
<1>8. ASSUME NEW a \in Acts, NEW x \in Act, DoAct(a, x)
      PROVE  Quiet
  <2>1. x.db \in Dbs
    BY DEF Act
  <2> QED
    BY <1>8, <2>1 DEF DoAct, Quiet, ClientType
<1>9. Open => Quiet
  BY DEF Open, Quiet, loginVars
<1> QED
  BY <1>1, <1>2, <1>3, <1>4, <1>5, <1>6, <1>7, <1>8, <1>9, FailedKind, ProbedKind DEF Next, ActStep

\* Where the actions stand, and what they were answered.
LEMMA ActsStep ==
  ASSUME ClientType, ActsInv, Next
  PROVE  ActsInv'
<1> ver \in Nat /\ Now \in Snapshot /\ Now.ver = ver
  BY DEF ClientType, Now, Snapshot
<1> USE DEF ActsInv
<1>0. ASSUME UNCHANGED actVars, ver' = ver \/ ver' = ver + 1
      PROVE  ActsInv'
  <2>1. UNCHANGED <<act, at, got>> /\ ver <= ver'
    BY <1>0 DEF actVars
  <2>2. \A a \in Acts : got[a] \in Snapshot => got[a].ver \in Nat
    BY DEF Snapshot
  <2> QED
    BY <1>0, <2>1, <2>2 DEF ClientType
<1>1. ASSUME NEW d \in Dbs, Other(d)
      PROVE  ActsInv'
  <2>1. UNCHANGED actVars /\ ver' = ver + 1
    BY <1>1 DEF Other
  <2> QED
    BY <1>0, <2>1
<1>2. ASSUME \/ \E r \in Reads, background \in BOOLEAN : Read(r, background)
             \/ ServeRead \/ Answered \/ Leave \/ Open
             \/ \E forgetting \in BOOLEAN : Close(forgetting)
      PROVE  ActsInv'
  <2>1. UNCHANGED actVars /\ ver' = ver
    BY <1>2 DEF Read, ServeRead, Answered, Leave, Open, Close, serverVars
  <2> QED
    BY <1>0, <2>1
<1>3. ASSUME NEW a \in Acts, Serve(a)
      PROVE  ActsInv'
  <2>1. act[a] \in Act /\ act[a].db \in Dbs
    BY <1>3 DEF Serve, Act
  <2>2. Upped(act[a]) \subseteq Dbs /\ LoggedIn(act[a]) \subseteq Dbs
    BY <2>1 DEF Upped, LoggedIn, ClientType
  <2>3. /\ act' = act /\ ver' \in Nat /\ ver <= ver' /\ \A b \in Acts \ {a} : at'[b] = at[b] /\ got'[b] = got[b]
        /\ at' \in [Acts -> {"new", "sent", "ok", "missing", "refused", "lost",
                             "probe", "probeLost", "probed", "probedLost", "done"}]
    BY <1>3 DEF Serve, ClientType
  <2>4. CASE at'[a] = "refused"
    <3>1. got' = got /\ ver' = ver
      BY <1>3, <2>4 DEF Serve, ClientType
    <3> QED
      BY <2>1, <2>3, <2>4, <3>1 DEF ClientType
  <2>5. CASE at'[a] # "refused"
    <3>1. \E s \in Snapshot : s.ver = ver' /\ got' = [got EXCEPT ![a] = s]
      BY <1>3, <2>2, <2>3, <2>5 DEF Serve, ClientType, Snapshot
    <3>2. got'[a] \in Snapshot /\ got'[a].ver = ver' /\ got' \in [Acts -> Snapshot \cup {NoAnswer}]
      BY <3>1 DEF ClientType
    <3>3. \A b \in Acts : got[b] \in Snapshot => got[b].ver \in Nat
      BY DEF Snapshot
    <3>4. \A b \in Acts \ {a} : at'[b] \in {"ok", "missing"} \/ got'[b] # NoAnswer =>
            got'[b] \in Snapshot /\ got'[b].ver <= ver'
      BY <2>3, <3>3
    <3>5. \A b \in Acts : at'[b] # "new" => act'[b] \in Act
      BY <2>1, <2>3
    <3> QED
      BY <2>3, <3>2, <3>4, <3>5 DEF ClientType
  <2> QED
    BY <2>4, <2>5
<1>4. ASSUME NEW a \in Acts, ServeProbe(a)
      PROVE  ActsInv'
  <2>1. /\ act' = act /\ ver' = ver /\ at[a] \in {"probe", "probeLost"} /\ at'[a] \in {"probed", "probedLost"}
        /\ \A b \in Acts \ {a} : at'[b] = at[b] /\ got'[b] = got[b]
        /\ at' \in [Acts -> {"new", "sent", "ok", "missing", "refused", "lost",
                             "probe", "probeLost", "probed", "probedLost", "done"}]
    BY <1>4 DEF ServeProbe, ClientType, serverVars
  <2>2. got' \in [Acts -> Snapshot \cup {NoAnswer}] /\ got'[a] \in {Now, NoAnswer}
    BY <1>4 DEF ServeProbe, ClientType
  <2> QED
    BY <2>1, <2>2 DEF ClientType
<1>5. ASSUME NEW a \in Acts, Result(a) \/ Missing(a) \/ Failed(a) \/ Probed(a)
      PROVE  ActsInv'
  <2>1. /\ UNCHANGED <<act, got, ver>> /\ at[a] # "new" /\ at'[a] \in {"probe", "probeLost", "done"}
        /\ \A b \in Acts \ {a} : at'[b] = at[b]
        /\ at' \in [Acts -> {"new", "sent", "ok", "missing", "refused", "lost",
                             "probe", "probeLost", "probed", "probedLost", "done"}]
    BY <1>5 DEF Result, Missing, Failed, Probed, Goto, ClientType, serverVars
  <2> QED
    BY <2>1 DEF ClientType
<1>6. ASSUME NEW a \in Acts, NEW x \in Act, DoAct(a, x)
      PROVE  ActsInv'
  <2>1. /\ UNCHANGED <<got, ver>> /\ act'[a] = x /\ at'[a] = "sent"
        /\ act' \in [Acts -> Act \cup {NoAct}]
        /\ \A b \in Acts \ {a} : at'[b] = at[b] /\ act'[b] = act[b]
        /\ at' \in [Acts -> {"new", "sent", "ok", "missing", "refused", "lost",
                             "probe", "probeLost", "probed", "probedLost", "done"}]
    BY <1>6 DEF DoAct, ClientType, serverVars
  <2> QED
    BY <2>1 DEF ClientType
<1> QED
  BY <1>1, <1>2, <1>3, <1>4, <1>5, <1>6 DEF Next, ActStep

-----------------------------------------------------------------------------
(* The client, kind by kind *)

\* The numbers among the values, for the arithmetic.
LEMMA ClientNumbers ==
  ASSUME ClientType
  PROVE  /\ lastSeq \in Nat /\ flight \in Nat /\ flight <= lastSeq /\ ver \in Nat
         /\ liveSeq \in Nat /\ liveSeq <= lastSeq /\ treeSeq \in Nat /\ treeSeq <= liveSeq
         /\ \A d \in Dbs : changedSeq[d] \in Nat /\ changedSeq[d] <= lastSeq /\ padVer[d] \in Nat
         /\ \A r \in Reads : askedVer[r] \in Nat
         /\ carried # NoAnswer => carried \in Snapshot /\ carried.ver \in Nat
         /\ IsList(live) => live.ver \in Nat
         /\ IsList(tree) => tree.ver \in Nat
BY DEF ClientType, ReadsTypeOK, Snapshot, Shown, IsList

LEMMA MovesStep ==
  ASSUME ClientInv, ServerMoves
  PROVE  ClientInv'
<1> USE DEF ClientInv, ServerMoves, readVars, readState, viewVars, loginVars
<1>1. ClientType'
  BY DEF ClientType, ReadsTypeOK, InFlight, Queued
<1>2. AskedInv' /\ OrderInv' /\ ClosedInv'
  BY DEF AskedInv, OrderInv, ClosedInv, IsList
<1>3. ShownInv'
  BY ClientNumbers DEF ShownInv, IsList
<1> QED
  BY <1>1, <1>2, <1>3

LEMMA ReachedStep ==
  ASSUME ClientInv, Reached
  PROVE  ClientInv'
<1> USE DEF ClientInv, Reached, readVars, readState, viewVars, loginVars
<1>0. Now \in Snapshot /\ Now.ver = ver /\ carried' = Now
  BY DEF ClientType, Now, Snapshot
<1>1. ClientType'
  BY <1>0 DEF ClientType, ReadsTypeOK, InFlight, Queued
<1>2. AskedInv' /\ ClosedInv'
  BY DEF AskedInv, ClosedInv
<1>3. ShownInv' /\ OrderInv'
  BY <1>0, ClientNumbers DEF ShownInv, OrderInv, IsList, ClientType
<1> QED
  BY <1>1, <1>2, <1>3

\* What asking for a read does to the shared requests.
LEMMA AskedReads ==
  ASSUME ReadsTypeOK, NEW r \in Reads, NEW fresh, AskRead(r, fresh)
  PROVE  /\ ReadsTypeOK' /\ stand[r] = "new" /\ \A q \in Reads \ {r} : stand'[q] = stand[q]
         /\ \/ /\ flight = 0 /\ flight' = lastSeq + 1 /\ lastSeq' = lastSeq + 1 /\ stand'[r] = "flight"
            \/ /\ flight # 0 /\ flight' = flight /\ lastSeq' = lastSeq
               /\ stand'[r] = IF fresh THEN "queued" ELSE "flight"
<1> USE DEF ReadsTypeOK, AskRead, Stamp
<1>1. CASE flight = 0
  <2>1. /\ flight' = lastSeq + 1 /\ lastSeq' = lastSeq + 1
        /\ stand' = [stand EXCEPT ![r] = "flight"] /\ of' = [of EXCEPT ![r] = lastSeq + 1]
    BY <1>1
  <2>2. \A q \in Reads : stand[q] # "flight"
    BY <1>1
  <2>3. \A q \in Reads : of'[q] \in 0 .. lastSeq + 1
    BY <2>1
  <2>4. of' \in [Reads -> 0 .. lastSeq + 1]
    BY <2>1, <2>3
  <2> QED
    BY <1>1, <2>1, <2>2, <2>4
<1>2. CASE flight # 0
  <2>1. /\ flight' = flight /\ lastSeq' = lastSeq
        /\ stand' = [stand EXCEPT ![r] = IF fresh THEN "queued" ELSE "flight"]
        /\ of' = [of EXCEPT ![r] = IF fresh THEN 0 ELSE flight]
    BY <1>2
  <2> QED
    BY <1>2, <2>1
<1> QED
  BY <1>1, <1>2

LEMMA AskedStep ==
  ASSUME ClientInv, NEW r \in Reads, NEW background \in BOOLEAN, Asked(r, background)
  PROVE  ClientInv'
<1> USE DEF ClientInv
<1>0. ReadsTypeOK /\ AskRead(r, ~background)
  BY DEF ClientType, Asked, StartRead
<1>1. /\ foreground' = IF background THEN foreground ELSE foreground \cup {r}
      /\ pending' = pending \cup {r} /\ loading' = (loading \/ ~background)
      /\ askedVer' = [askedVer EXCEPT ![r] = ver]
      /\ loggingIn' \subseteq Dbs /\ open' = open /\ (open \/ late')
      /\ UNCHANGED <<up, in, ver, carried, live, tree, liveSeq, treeSeq, padlock, changedSeq, padVer>>
  BY DEF Asked, StartRead, serverVars, viewVars
<1>2. /\ ReadsTypeOK' /\ stand[r] = "new" /\ \A q \in Reads \ {r} : stand'[q] = stand[q]
      /\ \/ /\ flight = 0 /\ flight' = lastSeq + 1 /\ lastSeq' = lastSeq + 1 /\ stand'[r] = "flight"
         \/ /\ flight # 0 /\ flight' = flight /\ lastSeq' = lastSeq
            /\ stand'[r] = IF ~background THEN "queued" ELSE "flight"
  BY <1>0, AskedReads
<1>3. r \notin foreground
  BY <1>2 DEF AskedInv
<1>4. askedVer' \in [Reads -> Nat] /\ askedVer'[r] = ver /\ \A q \in Reads \ {r} : askedVer'[q] = askedVer[q]
  BY <1>1 DEF ClientType
<1>5. ClientType'
  <2>1. pending' \subseteq InFlight' \cup Queued'
    BY <1>1, <1>2 DEF ClientType, InFlight, Queued
  <2>2. loading' = (pending' \cap foreground' # {})
    BY <1>1, <1>3 DEF ClientType
  <2>3. foreground' \subseteq Reads /\ changedSeq' \in [Dbs -> 0 .. lastSeq']
    BY <1>1, <1>2, ClientNumbers DEF ClientType
  <2>4. liveSeq' \in 0 .. lastSeq' /\ treeSeq' \in 0 .. liveSeq'
    BY <1>1, <1>2, ClientNumbers
  <2>5. flight' # 0
    BY <1>2, ClientNumbers
  <2> QED
    BY <1>1, <1>2, <1>4, <2>1, <2>2, <2>3, <2>4, <2>5 DEF ClientType
<1>6. AskedInv'
  BY <1>1, <1>2, ClientNumbers DEF AskedInv, ClientType
<1>7. ShownInv'
  BY <1>1, <1>4, ClientNumbers DEF ShownInv, IsList
<1>8. OrderInv'
  <2>1. CASE flight = 0
    BY <1>1, <2>1 DEF OrderInv, ClientType
  <2>2. CASE flight # 0
    <3>1. flight' = flight /\ \A q \in foreground' : stand'[q] = "flight" => q \in foreground /\ q # r
      BY <1>1, <1>2, <1>3, <2>2
    <3> QED
      BY <1>1, <1>2, <1>4, <3>1 DEF OrderInv, IsList, ClientType
  <2> QED
    BY <2>1, <2>2
<1>9. ClosedInv'
  BY <1>1 DEF ClosedInv
<1> QED
  BY <1>5, <1>6, <1>7, <1>8, <1>9

LEMMA ShowsStep ==
  ASSUME ClientInv, NEW s \in Snapshot, s.ver <= ver, Shows(s)
  PROVE  ClientInv'
<1> USE DEF ClientInv
<1>0. s.ver \in Nat /\ ListOf(s) \in Shown /\ ListOf(s).ver = s.ver
  BY DEF Snapshot, ListOf, Shown
<1>1. /\ lastSeq' = lastSeq + 1
      /\ UNCHANGED <<flight, stand, of, foreground, pending, loading, askedVer, up, in, ver, carried>>
      /\ open' = open /\ (open \/ late')
      /\ padlock' \subseteq Dbs /\ loggingIn' \subseteq Dbs
      /\ changedSeq' \in [Dbs -> Nat] /\ padVer' \in [Dbs -> Nat]
  BY DEF Shows, Stamp, unread, readState, serverVars
<1>2. \/ UNCHANGED <<live, tree, liveSeq, treeSeq>>
      \/ /\ live' = ListOf(s) /\ liveSeq' = lastSeq + 1
         /\ tree' = ListOf(s) /\ treeSeq' = lastSeq + 1
  BY DEF Shows, viewVars
<1>3. \A d \in Dbs : /\ changedSeq'[d] \in {changedSeq[d], lastSeq + 1}
                     /\ \/ padVer'[d] = padVer[d]
                        \/ padVer'[d] = s.ver /\ lastSeq + 1 \in {changedSeq'[d], liveSeq'}
  BY DEF Shows
<1>4. ClientType'
  <2>1. ReadsTypeOK'
    BY <1>1, ClientNumbers DEF ClientType, ReadsTypeOK
  <2>2. changedSeq' \in [Dbs -> 0 .. lastSeq']
    BY <1>1, <1>3, ClientNumbers
  <2>3. liveSeq' \in 0 .. lastSeq' /\ treeSeq' \in 0 .. liveSeq' /\ live' \in Shown /\ tree' \in Shown
    BY <1>0, <1>1, <1>2, ClientNumbers DEF ClientType
  <2> QED
    BY <1>1, <2>1, <2>2, <2>3 DEF ClientType, InFlight, Queued
<1>5. AskedInv'
  BY <1>1, <1>2, ClientNumbers DEF AskedInv
<1>6. ShownInv'
  BY <1>0, <1>1, <1>2, <1>3, ClientNumbers DEF ShownInv, IsList
<1>7. OrderInv'
  BY <1>0, <1>1, <1>2, <1>3, ClientNumbers DEF OrderInv, IsList
<1>8. ClosedInv'
  BY <1>1 DEF ClosedInv
<1> QED
  BY <1>4, <1>5, <1>6, <1>7, <1>8

LEMMA QuietStep ==
  ASSUME ClientInv, Quiet
  PROVE  ClientInv'
<1> USE DEF ClientInv, Quiet, readVars, serverVars, readState, viewVars
<1>1. ClientType'
  BY DEF ClientType, ReadsTypeOK, InFlight, Queued
<1>2. AskedInv' /\ ShownInv' /\ OrderInv' /\ ClosedInv'
  BY DEF AskedInv, ShownInv, OrderInv, ClosedInv, IsList
<1> QED
  BY <1>1, <1>2

LEMMA HostStep ==
  ASSUME ClientInv, Leave \/ \E forgetting \in BOOLEAN : Close(forgetting)
  PROVE  ClientInv'
<1> USE DEF ClientInv, serverVars
<1> None \in Shown /\ ~IsList(None)
  BY DEF Shown, IsList
<1>1. CASE Leave
  <2>1. /\ UNCHANGED <<lastSeq, flight, stand, of, up, in, ver, carried, foreground, pending, loading, open,
                       liveSeq, treeSeq, padlock, loggingIn, changedSeq, padVer, askedVer, late>>
        /\ live' = None /\ tree' = None /\ open
    BY <1>1 DEF Leave, readVars, readState, loginVars
  <2>2. ClientType'
    BY <2>1 DEF ClientType, ReadsTypeOK, InFlight, Queued
  <2> QED
    BY <2>1, <2>2 DEF AskedInv, ShownInv, OrderInv, ClosedInv
<1>2. ASSUME NEW forgetting \in BOOLEAN, Close(forgetting)
      PROVE  ClientInv'
  <2>1. /\ lastSeq' = lastSeq + 1 /\ liveSeq' = lastSeq + 1 /\ treeSeq' = lastSeq + 1
        /\ UNCHANGED <<flight, stand, of, up, in, ver, carried, foreground, changedSeq, padVer, askedVer>>
        /\ live' = None /\ tree' = None /\ pending' = {} /\ loading' = FALSE /\ open' = FALSE
    BY <1>2 DEF Close, Stamp
  <2>2. padlock' \subseteq Dbs /\ loggingIn' \subseteq Dbs
    BY <1>2 DEF Close, ClientType
  <2>3. ClientType'
    <3>1. ReadsTypeOK'
      BY <2>1, ClientNumbers DEF ClientType, ReadsTypeOK
    <3>2. changedSeq' \in [Dbs -> 0 .. lastSeq'] /\ liveSeq' \in 0 .. lastSeq' /\ treeSeq' \in 0 .. liveSeq'
      BY <2>1, ClientNumbers DEF ClientType
    <3> QED
      BY <2>1, <2>2, <3>1, <3>2 DEF ClientType, InFlight, Queued
  <2>4. AskedInv' /\ ShownInv' /\ OrderInv' /\ ClosedInv'
    BY <2>1, ClientNumbers DEF AskedInv, ShownInv, OrderInv, ClosedInv
  <2> QED
    BY <2>3, <2>4
<1> QED
  BY <1>1, <1>2

\* The request in flight settles.
LEMMA SettledReads ==
  ASSUME ReadsTypeOK, Settle
  PROVE  /\ ReadsTypeOK' /\ flight # 0
         /\ \A r \in Reads : /\ stand[r] = "flight" => stand'[r] = "done"
                             /\ stand[r] = "queued" => stand'[r] = "flight"
                             /\ stand[r] \notin {"flight", "queued"} => stand'[r] = stand[r]
         /\ \/ flight' = 0 /\ lastSeq' = lastSeq
            \/ flight' = lastSeq + 1 /\ lastSeq' = lastSeq + 1
<1> USE DEF ReadsTypeOK, Settle, InFlight, Queued, Stamp
<1>1. /\ \A r \in Reads : /\ stand[r] = "flight" => stand'[r] = "done"
                          /\ stand[r] = "queued" => stand'[r] = "flight"
                          /\ stand[r] \notin {"flight", "queued"} => stand'[r] = stand[r]
      /\ stand' = [r \in Reads |-> stand'[r]]
  BY SMT
<1>2. stand' \in [Reads -> {"new", "flight", "queued", "done"}]
  <2>1. \A r \in Reads : stand'[r] \in {"new", "flight", "queued", "done"}
    BY <1>1
  <2> QED
    BY <1>1, <2>1
<1>3. CASE Queued = {}
  <2>1. flight' = 0 /\ UNCHANGED <<lastSeq, of>> /\ \A r \in Reads : stand[r] # "queued"
    BY <1>3
  <2>2. \A r \in Reads : stand'[r] # "flight"
    BY <1>1, <2>1
  <2> QED
    BY <1>1, <1>2, <2>1, <2>2
<1>4. CASE Queued # {}
  <2>1. /\ lastSeq' = lastSeq + 1 /\ flight' = lastSeq + 1
        /\ of' = [r \in Reads |-> IF r \in Queued THEN lastSeq + 1 ELSE of[r]]
    BY <1>4
  <2>2. of' \in [Reads -> 0 .. lastSeq + 1] /\ \A r \in Reads : stand[r] = "queued" => of'[r] = lastSeq + 1
    BY <2>1
  <2>3. \A r \in Reads : stand'[r] = "flight" => stand[r] = "queued"
    BY <1>1
  <2> QED
    BY <1>1, <1>2, <2>1, <2>2, <2>3
<1> QED
  BY <1>3, <1>4

\* What an answer to the request in flight leaves: nothing, or what it carried.
LEMMA AnsweredShows ==
  ASSUME ClientType, Answered
  PROVE  LET news == carried # NoAnswer /\ Settled # {} IN
         /\ \/ UNCHANGED <<live, liveSeq>>
            \/ flight > liveSeq /\ liveSeq' = flight /\ (live' = Emptied \/ (news /\ live' = ListOf(carried)))
         /\ \/ UNCHANGED <<tree, treeSeq>>
            \/ flight > treeSeq /\ treeSeq' = flight /\ (tree' = Emptied \/ (news /\ tree' = ListOf(carried)))
         /\ \/ UNCHANGED <<padlock, padVer>>
            \/ /\ news /\ flight > liveSeq /\ liveSeq' = flight
               /\ padlock' = Synced(carried, flight) /\ padVer' = SyncedVer(carried, flight)
         /\ treeSeq' = flight => liveSeq' >= flight
         /\ Settled = {} => UNCHANGED <<live, tree, padlock, padVer>>
<1> USE ClientNumbers DEF Newer
<1> DEFINE user == Settled \cap foreground
<1>1. CASE carried # NoAnswer /\ Settled # {}
  <2>1. /\ ApplyLists(carried, flight, user = {})
        /\ IF Newer(flight, liveSeq)
           THEN padlock' = Synced(carried, flight) /\ padVer' = SyncedVer(carried, flight)
           ELSE UNCHANGED <<padlock, padVer>>
    BY <1>1 DEF Answered
  <2> QED
    BY <1>1, <2>1 DEF ApplyLists
<1>2. CASE carried = NoAnswer /\ user # {}
  <2>1. EmptyLists(flight) /\ UNCHANGED <<padlock, padVer>> /\ Settled # {}
    BY <1>2 DEF Answered
  <2> QED
    BY <1>2, <2>1 DEF EmptyLists
<1>3. CASE Settled = {} \/ (user = {} /\ carried = NoAnswer)
  <2>1. UNCHANGED <<live, tree, liveSeq, treeSeq, padlock, padVer>>
    BY <1>3 DEF Answered, viewVars
  <2> QED
    BY <2>1
<1> QED
  BY <1>1, <1>2, <1>3

LEMMA AnsweredStep ==
  ASSUME ClientInv, Answered
  PROVE  ClientInv'
<1> USE DEF ClientInv
<1>1. /\ pending' = pending \ Settled /\ loading' = (pending' \cap foreground # {}) /\ carried' = NoAnswer
      /\ UNCHANGED <<up, in, ver, foreground, open, loggingIn, changedSeq, askedVer, late>>
      /\ Settle /\ ReadsTypeOK
  BY DEF Answered, ClientType
<1>2. /\ ReadsTypeOK' /\ flight # 0
      /\ \A r \in Reads : /\ stand[r] = "flight" => stand'[r] = "done"
                          /\ stand[r] = "queued" => stand'[r] = "flight"
                          /\ stand[r] \notin {"flight", "queued"} => stand'[r] = stand[r]
      /\ \/ flight' = 0 /\ lastSeq' = lastSeq
         \/ flight' = lastSeq + 1 /\ lastSeq' = lastSeq + 1
  BY <1>1, SettledReads
<1>3. /\ \/ UNCHANGED <<live, liveSeq>>
         \/ /\ flight > liveSeq /\ liveSeq' = flight
            /\ (live' = Emptied \/ (carried # NoAnswer /\ live' = ListOf(carried)))
      /\ \/ UNCHANGED <<tree, treeSeq>>
         \/ /\ flight > treeSeq /\ treeSeq' = flight
            /\ (tree' = Emptied \/ (carried # NoAnswer /\ tree' = ListOf(carried)))
      /\ \/ UNCHANGED <<padlock, padVer>>
         \/ carried # NoAnswer /\ padlock' = Synced(carried, flight) /\ padVer' = SyncedVer(carried, flight)
      /\ treeSeq' = flight => liveSeq' >= flight
      /\ Settled = {} => UNCHANGED <<live, tree>>
  BY AnsweredShows
<1>4. carried # NoAnswer => /\ carried.ver \in Nat /\ carried.ver <= ver /\ carried.in \subseteq Dbs
                            /\ ListOf(carried) \in Shown /\ ListOf(carried).ver = carried.ver
  BY DEF ClientType, Snapshot, ShownInv, ListOf, Shown
<1>5. /\ padlock' \subseteq Dbs /\ padVer' \in [Dbs -> Nat]
      /\ \A d \in Dbs : padVer'[d] = padVer[d] \/ (carried # NoAnswer /\ padVer'[d] = carried.ver)
  BY <1>3, <1>4 DEF Synced, SyncedVer, ClientType
<1>6. ClientType'
  <2>1. pending' \subseteq InFlight' \cup Queued'
    BY <1>1, <1>2 DEF ClientType, Settled, InFlight, Queued
  <2>2. live' \in Shown /\ tree' \in Shown
    BY <1>3, <1>4 DEF ClientType, Shown
  <2>3. /\ changedSeq' \in [Dbs -> 0 .. lastSeq'] /\ liveSeq' \in 0 .. lastSeq'
        /\ treeSeq' \in 0 .. liveSeq'
    BY <1>1, <1>2, <1>3, ClientNumbers DEF ClientType
  <2> QED
    BY <1>1, <1>2, <1>5, <2>1, <2>2, <2>3 DEF ClientType
<1>7. AskedInv'
  BY <1>1, <1>2, <1>3, ClientNumbers DEF AskedInv, ClientType
<1>8. ShownInv' /\ OrderInv'
  BY <1>1, <1>3, <1>4, <1>5, ClientNumbers DEF ShownInv, OrderInv, IsList
<1>9. ClosedInv'
  BY <1>1, <1>3 DEF ClosedInv, Settled
<1> QED
  BY <1>6, <1>7, <1>8, <1>9

-----------------------------------------------------------------------------
(* The view as a whole *)

LEMMA ViewInit == Init => ViewInv
<1> SUFFICES ASSUME Init PROVE ViewInv
  OBVIOUS
<1>1. ClientType
  <2>1. ReadsTypeOK
    BY DEF Init, ReadsInit, ReadsTypeOK
  <2>2. /\ changedSeq \in [Dbs -> 0 .. lastSeq] /\ liveSeq \in 0 .. lastSeq /\ treeSeq \in 0 .. liveSeq
        /\ askedVer \in [Reads -> Nat] /\ padVer \in [Dbs -> Nat]
    BY DEF Init, ReadsInit
  <2>3. live \in Shown /\ tree \in Shown /\ carried = NoAnswer /\ ver \in Nat
    BY DEF Init, Shown
  <2>4. pending = {} /\ foreground = {} /\ loading = FALSE /\ open = TRUE
    BY DEF Init
  <2>5. up \subseteq Dbs /\ in \subseteq Dbs /\ padlock \subseteq Dbs /\ loggingIn \subseteq Dbs
    BY DEF Init
  <2> QED
    BY <2>1, <2>2, <2>3, <2>4, <2>5 DEF ClientType
<1>3. ActsInv
  BY DEF Init, ActsInv
<1>2. AskedInv /\ ShownInv /\ OrderInv /\ ClosedInv
  BY DEF Init, ReadsInit, AskedInv, ShownInv, OrderInv, ClosedInv, IsList
<1> QED
  BY <1>1, <1>2, <1>3 DEF ViewInv, ClientInv

LEMMA ViewStep == ViewInv /\ [Next]_vars => ViewInv'
<1> SUFFICES ASSUME ViewInv, [Next]_vars PROVE ViewInv'
  OBVIOUS
<1> USE DEF ViewInv
<1>1. CASE Next
  <2>1. ActsInv'
    BY <1>1, ActsStep DEF ClientInv
  <2>2. ClientInv'
    <3>1. \/ ServerMoves \/ Reached \/ Quiet
          \/ \E r \in Reads, background \in BOOLEAN : Asked(r, background)
          \/ Answered
          \/ \E s \in Snapshot : s.ver <= ver /\ Shows(s)
          \/ Leave \/ \E forgetting \in BOOLEAN : Close(forgetting)
      BY <1>1, Kinds DEF ClientInv
    <3> QED
      BY <3>1, MovesStep, ReachedStep, QuietStep, AskedStep, AnsweredStep, ShowsStep, HostStep
  <2> QED
    BY <2>1, <2>2
<1>2. CASE UNCHANGED vars
  <2>1. /\ UNCHANGED <<lastSeq, flight, stand, of, up, in, ver, carried, foreground, pending, loading, open>>
        /\ UNCHANGED <<live, tree, liveSeq, treeSeq, padlock, loggingIn, changedSeq, padVer, askedVer, late>>
        /\ UNCHANGED <<act, at, got>>
    BY <1>2 DEF vars, readVars, serverVars, readState, viewVars, loginVars, actVars
  <2>2. ClientType' /\ ActsInv'
    BY <2>1 DEF ClientInv, ClientType, ReadsTypeOK, InFlight, Queued, ActsInv
  <2>3. AskedInv' /\ ShownInv' /\ OrderInv' /\ ClosedInv'
    BY <2>1 DEF ClientInv, AskedInv, ShownInv, OrderInv, ClosedInv, IsList
  <2> QED
    BY <2>2, <2>3 DEF ClientInv
<1> QED
  BY <1>1, <1>2

LEMMA ViewAlways == Spec => []ViewInv
BY ViewInit, ViewStep, PTL DEF Spec

-----------------------------------------------------------------------------
(* What a step may show *)

\* Only its answer ends the request in flight.
LEMMA FlightStays ==
  ASSUME ViewInv, Next
  PROVE  \/ Answered
         \/ /\ flight' = flight \/ flight = 0
            /\ \A r \in Reads : stand[r] = "flight" => stand'[r] = "flight"
<1> ClientType /\ ReadsTypeOK /\ ActsInv
  BY DEF ViewInv, ClientInv, ClientType
<1> DEFINE Stays == /\ flight' = flight \/ flight = 0
                    /\ \A r \in Reads : stand[r] = "flight" => stand'[r] = "flight"
<1>1. ServerMoves \/ Reached \/ Quiet => Stays
  BY DEF ServerMoves, Reached, Quiet, readVars
<1>2. ASSUME NEW r \in Reads, NEW background \in BOOLEAN, Asked(r, background)
      PROVE  Stays
  <2>1. AskRead(r, ~background)
    BY <1>2 DEF Asked, StartRead
  <2> QED
    BY <2>1, AskedReads
<1>3. ASSUME NEW s \in Snapshot, Shows(s)
      PROVE  Stays
  BY <1>3 DEF Shows, unread
<1>4. Leave \/ (\E forgetting \in BOOLEAN : Close(forgetting)) => Stays
  BY DEF Leave, Close, readVars
<1> QED
  BY <1>1, <1>2, <1>3, <1>4, Kinds

\* A step that shows something else or moves a padlock is the answer of the
\* request in flight, or of an action, or leaves the host.
LEMMA ChangedBy ==
  ASSUME ViewInv, Next
  PROVE  \/ Answered
         \/ Returned
         \/ live' \in {live, None} /\ tree' \in {tree, None} /\ padVer' = padVer
<1> USE DEF viewVars, loginVars
<1>1. ASSUME NEW a \in Acts, Result(a) \/ Missing(a) \/ Failed(a) \/ Probed(a)
      PROVE  Returned
  <2>1. at[a] \in {"ok", "missing", "refused", "lost", "probed", "probedLost"} /\ at'[a] # at[a]
    BY <1>1 DEF Result, Missing, Failed, Probed, Goto, ViewInv, ActsInv
  <2> QED
    BY <2>1 DEF Returned
<1>2. ASSUME \/ \E d \in Dbs : Other(d)
             \/ \E r \in Reads, background \in BOOLEAN : Read(r, background)
             \/ ServeRead \/ Leave \/ Open \/ \E forgetting \in BOOLEAN : Close(forgetting)
             \/ \E a \in Acts : Serve(a) \/ ServeProbe(a) \/ \E x \in Act : DoAct(a, x)
      PROVE  live' \in {live, None} /\ tree' \in {tree, None} /\ padVer' = padVer
  BY <1>2 DEF Other, Read, ServeRead, Leave, Open, Close, Serve, ServeProbe, DoAct
<1> QED
  BY <1>1, <1>2 DEF Next, ActStep

\* The stored state keeps its shape: every stamp is one nextSeq gave, the reads of
\* pendingReadsByHost are unsettled ones, and loadingByHost is set exactly while
\* one of them is the user's.
THEOREM ViewTypeCorrect == Spec => []TypeOK
<1>1. ViewInv => TypeOK
  BY DEF ViewInv, ClientInv, ClientType, ActsInv, TypeOK
<1> QED
  BY <1>1, ViewAlways, PTL

\* After closeHostTabs a host shows nothing and waits for nothing until it is
\* opened again, whatever reads are answered meanwhile; only the return of an
\* action that was under way can change that.
THEOREM ClosedShows == Spec => []ClosedShowsNothing
<1>1. ViewInv => ClosedShowsNothing
  BY DEF ViewInv, ClientInv, ClientType, ClosedInv, ClosedShowsNothing
<1> QED
  BY <1>1, ViewAlways, PTL

\* However late a read of the database list is answered, it does not take the
\* lists of the dashboards or the tree back to an earlier state of the server:
\* appliedLiveSeqByHost and appliedNavigatorSeqByHost let it pass only if it was
\* sent after what is shown.
THEOREM ReadsInOrder == Spec => ReadsNeverGoBack
<1>1. ASSUME ViewInv, Next
      PROVE  Returned \/ ~(Older(live', live) \/ Older(tree', tree))
  <2>1. ClientType /\ OrderInv
    BY <1>1 DEF ViewInv, ClientInv
  <2>2. CASE Answered
    <3>1. /\ \/ live' = live
             \/ flight > liveSeq /\ (live' = Emptied \/ (carried # NoAnswer /\ live' = ListOf(carried)))
          /\ \/ tree' = tree
             \/ flight > treeSeq /\ (tree' = Emptied \/ (carried # NoAnswer /\ tree' = ListOf(carried)))
      BY <2>1, <2>2, AnsweredShows
    <3>2. carried # NoAnswer => ListOf(carried).ver = carried.ver /\ carried.ver \in Nat
      BY <2>1, ClientNumbers DEF ListOf
    <3> QED
      BY <2>1, <3>1, <3>2, ClientNumbers DEF Older, OrderInv, IsList
  <2>3. CASE live' \in {live, None} /\ tree' \in {tree, None}
    BY <2>1, <2>3, ClientNumbers DEF Older, IsList
  <2> QED
    BY <1>1, <2>2, <2>3, ChangedBy
<1>2. ASSUME ViewInv, UNCHANGED vars
      PROVE  ~(Older(live', live) \/ Older(tree', tree))
  BY <1>2, ClientNumbers DEF vars, viewVars, Older, IsList, ViewInv, ClientInv
<1>3. ViewInv /\ [Next]_vars => [Returned \/ ~(Older(live', live) \/ Older(tree', tree))]_vars
  BY <1>1, <1>2
<1> QED
  BY <1>3, ViewAlways, PTL DEF Spec, ReadsNeverGoBack

\* Nor does it put back a padlock that a login, a logout or a refusal moved after
\* it was sent (changedSinceRequest).
THEOREM PadlocksInOrder == Spec => PadlocksNeverGoBack
<1>1. ASSUME ViewInv, Next
      PROVE  Returned \/ \A d \in Dbs : padVer'[d] >= padVer[d]
  <2>1. ClientType /\ OrderInv
    BY <1>1 DEF ViewInv, ClientInv
  <2>2. CASE Answered
    <3>1. \/ padVer' = padVer
          \/ carried # NoAnswer /\ flight > liveSeq /\ padVer' = SyncedVer(carried, flight)
      BY <2>1, <2>2, AnsweredShows
    <3>2. CASE carried # NoAnswer /\ flight > liveSeq /\ padVer' = SyncedVer(carried, flight)
      <4>1. ASSUME NEW d \in Dbs
            PROVE  \/ padVer'[d] = padVer[d]
                   \/ padVer'[d] = carried.ver /\ ~(changedSeq[d] > flight)
        BY <3>2 DEF SyncedVer, KeepsPadlock
      <4> QED
        BY <2>1, <3>2, <4>1, ClientNumbers DEF OrderInv
    <3> QED
      BY <2>1, <3>1, <3>2, ClientNumbers
  <2>3. CASE padVer' = padVer
    BY <2>1, <2>3, ClientNumbers
  <2> QED
    BY <1>1, <2>2, <2>3, ChangedBy
<1>2. ASSUME ViewInv, UNCHANGED vars
      PROVE  \A d \in Dbs : padVer'[d] >= padVer[d]
  BY <1>2, ClientNumbers DEF vars, loginVars, ViewInv, ClientInv
<1>3. ViewInv /\ [Next]_vars => [Returned \/ \A d \in Dbs : padVer'[d] >= padVer[d]]_vars
  BY <1>1, <1>2
<1> QED
  BY <1>3, ViewAlways, PTL DEF Spec, PadlocksNeverGoBack

\* The guards of nextSeq never shut the latest out: the answer to a read sent after
\* everything else that was stamped is shown, padlocks included.
THEOREM LatestShown == Spec => LatestReadShows
<1> DEFINE Latest == flight = lastSeq /\ Settled # {} /\ carried # NoAnswer /\ flight' # flight
           AsRead == /\ live' = ListOf(carried)
                     /\ padlock' = carried.in \cup (padlock \cap loggingIn)
<1>1. ASSUME ViewInv, Next, Latest
      PROVE  AsRead
  <2>1. ClientType /\ AskedInv
    BY <1>1 DEF ViewInv, ClientInv
  <2>2. flight # 0
    BY <1>1, <2>1 DEF ClientType, ReadsTypeOK, Settled, InFlight
  <2>3. Answered
    BY <1>1, <2>2, FlightStays
  <2>4. liveSeq < flight
    BY <1>1, <2>1, <2>2, ClientNumbers DEF AskedInv
  <2>5. ApplyLists(carried, flight, Settled \cap foreground = {}) /\ padlock' = Synced(carried, flight)
    BY <1>1, <2>1, <2>3, <2>4, ClientNumbers DEF Answered, Newer
  <2>6. live' = ListOf(carried)
    BY <2>1, <2>4, <2>5, ClientNumbers DEF ApplyLists, Newer
  <2>7. \A d \in Dbs : ~KeepsPadlock(d, flight)
    BY <1>1, <2>1, ClientNumbers DEF KeepsPadlock
  <2>8. carried.in \subseteq Dbs /\ padlock \subseteq Dbs
    BY <1>1, <2>1 DEF ClientType, Snapshot
  <2>9. padlock' = carried.in \cup (padlock \cap loggingIn)
    BY <2>5, <2>7, <2>8 DEF Synced
  <2> QED
    BY <2>6, <2>9
<1>2. ASSUME UNCHANGED vars
      PROVE  ~Latest
  BY <1>2 DEF vars, readVars
<1>3. ViewInv /\ [Next]_vars => [Latest => AsRead]_vars
  BY <1>1, <1>2
<1> QED
  BY <1>3, ViewAlways, PTL DEF Spec, LatestReadShows

\* What a user asks for is read after it was asked: createSharedReads lets a fresh
\* read join only a request that is still to be sent.
THEOREM FreshReads == Spec => FreshIsFresh
<1> DEFINE Fresh == \A r \in Reads \cap foreground :
                      stand[r] = "flight" /\ stand'[r] = "done" /\ carried # NoAnswer =>
                        carried.ver >= askedVer[r]
<1>1. ASSUME ViewInv
      PROVE  Fresh
  <2>1. ClientType /\ OrderInv
    BY <1>1 DEF ViewInv, ClientInv
  <2> QED
    BY <2>1, ClientNumbers DEF OrderInv
<1>2. ViewInv /\ [Next]_vars => [Fresh]_vars
  BY <1>1
<1> QED
  BY <1>2, ViewAlways, PTL DEF Spec, FreshIsFresh

=============================================================================

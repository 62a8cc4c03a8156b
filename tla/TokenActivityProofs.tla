------------------------- MODULE TokenActivityProofs -------------------------
(***************************************************************************)
(* Proofs about TokenActivity, for any calls, servers, durations and       *)
(* bounds.                                                                 *)
(*                                                                         *)
(*  - ClosedIsClosed: the record of a token the user disconnected knows of *)
(*    the disconnect for as long as a call issued before that is under way *)
(*    (ClosedInv), but for a sweep that drops it first;                    *)
(*  - ShownInTime: the host's login and its record are never later than    *)
(*    the last answer that said CMS accepted the token (UseInv);           *)
(*  - RejectedIsFinal: a token CMS called invalid keeps its mark while it  *)
(*    is the host's (RefusedInv), and no token is used before it is stored *)
(*    or stored twice (FreshInv).                                          *)
(*                                                                         *)
(* The order of the queues plays no part in these arguments.               *)
(***************************************************************************)
EXTENDS TokenActivity, TLAPS

\* The part of the types the arguments need.
Shape ==
  /\ now \in Time
  /\ host \in [server : Servers, token : Tokens \cup {NoToken}, issuedAt : Time,
               active : {0, CmsActive}]
  /\ activity \in [Tokens -> TokenRecord]
  /\ pc \in [Calls -> Pc]
  /\ req \in [Calls -> [token : Tokens \cup {NoToken}, issued : Time, server : Servers]]
  /\ lastUse \in [Tokens -> Time]
  /\ closed \in BOOLEAN /\ outlived \in BOOLEAN
  /\ before \subseteq Calls /\ late \in Time /\ refused \subseteq Tokens

\* Nothing bears a time to come.
TimeInv ==
  /\ now # 0 /\ host.issuedAt <= now
  /\ \A c \in Calls : req[c].issued <= now
  /\ \A t \in Tokens : lastUse[t] <= now /\ activity[t].acceptedAt <= now

\* A login whose token is not stored yet.
NotStored(l) == pc[l] \in {"new", "login", "loginOk", "loginFailed", "store"}

FreshInv ==
  /\ \A l \in Logins : NotStored(l) =>
       /\ l # host.token /\ l \notin refused
       /\ \A c \in Calls : req[c].token # l
  /\ \A c \in Calls : ReadUnderWay(c) => req[c].token # NoToken

\* Neither the login nor the record is later than the last answer that said CMS
\* accepted the host's token.
UseInv ==
  host.token # NoToken =>
    /\ activity[host.token].acceptedAt <= lastUse[host.token] + late
    /\ host.issuedAt <= lastUse[host.token] + late

\* While a call issued before the disconnect is under way, the record knows the
\* disconnect, unless a sweep took it.
ClosedInv ==
  /\ closed => host.issuedAt = 0
  /\ closed /\ ~outlived /\ host.token # NoToken /\ ~activity[host.token].rejected =>
       /\ activity[host.token].acceptedAt = 0
       /\ \A c \in before : ReadUnderWay(c) /\ req[c].token = host.token =>
            activity[host.token].closedAt # 0 /\ req[c].issued <= activity[host.token].closedAt
  /\ \A c \in before : pc[c] \in {"read", "accepted", "rejected", "remember", "done"}

RefusedInv == host.token \in refused => activity[host.token].rejected

ActivityInv == Shape /\ TimeInv /\ FreshInv /\ UseInv /\ ClosedInv /\ RefusedInv

-----------------------------------------------------------------------------
(* The records *)

\* The numbers among the values, for the arithmetic.
Numbers ==
  /\ host.token \in Tokens \cup {NoToken} /\ \A c \in Calls : req[c].token \in Tokens \cup {NoToken}
  /\ now \in Nat /\ host.issuedAt \in Nat /\ late \in Nat
  /\ \A c \in Calls : req[c].issued \in Nat
  /\ \A t \in Tokens : /\ lastUse[t] \in Nat /\ activity[t].acceptedAt \in Nat
                       /\ activity[t].closedAt \in Nat

LEMMA NumbersHere == Shape => Numbers
<1> Time \subseteq Nat
  BY ActivityBounds DEF Time
<1> QED
  BY DEF Shape, Numbers, TokenRecord

LEMMA NumbersNext == Shape' => Numbers'
  BY NumbersHere, PTL

LEMMA NotedRecord ==
  ASSUME Shape, NEW t \in Tokens, NEW rejected \in BOOLEAN, NEW issued \in Time
  PROVE  LET e == activity[t]
             n == Noted(t, rejected, issued)
         IN /\ n \in [Tokens -> TokenRecord]
            /\ \A u \in Tokens \ {t} : n[u] = activity[u]
            /\ n[t].touchedAt = now /\ n[t].closedAt = e.closedAt
            /\ n[t].rejected <=> e.rejected \/ rejected
            /\ n[t].acceptedAt =
                 IF ~rejected /\ ~e.rejected /\ (e.closedAt = 0 \/ issued > e.closedAt)
                   THEN now ELSE e.acceptedAt
<1> DEFINE e == activity[t]
           r == e.rejected \/ rejected
           a == IF ~rejected /\ ~e.rejected /\ (e.closedAt = 0 \/ issued > e.closedAt)
                  THEN now ELSE e.acceptedAt
           n == [e EXCEPT !.touchedAt = now, !.rejected = r, !.acceptedAt = a]
<1>1. e \in TokenRecord /\ e.rejected \in BOOLEAN /\ a \in Time /\ now \in Time
  BY DEF Shape, TokenRecord
<1>2. r \in BOOLEAN
  BY <1>1
<1>3. Noted(t, rejected, issued) = [activity EXCEPT ![t] = n]
  BY DEF Noted
<1>4. /\ n \in TokenRecord /\ n.touchedAt = now /\ n.closedAt = e.closedAt
      /\ n.rejected = r /\ n.acceptedAt = a
  <2> HIDE DEF r, a, e
  <2> QED
    BY <1>1, <1>2 DEF TokenRecord
<1> HIDE DEF n
<1> QED
  BY <1>1, <1>3, <1>4 DEF Shape

LEMMA ClosedRecord ==
  ASSUME Shape, NEW t
  PROVE  /\ Closed(t) \in [Tokens -> TokenRecord]
         /\ \A u \in Tokens \ {t} : Closed(t)[u] = activity[u]
         /\ t \in Tokens => /\ Closed(t)[t].acceptedAt = 0 /\ Closed(t)[t].closedAt = now
                             /\ Closed(t)[t].touchedAt = now
                             /\ Closed(t)[t].rejected = activity[t].rejected
<1>1. 0 \in Time
  BY ActivityBounds DEF Time
<1> QED
  BY <1>1 DEF Shape, Closed, TokenRecord

LEMMA ForgottenRecord ==
  ASSUME Shape, NEW t
  PROVE  /\ Forgotten(t) \in [Tokens -> TokenRecord]
         /\ \A u \in Tokens \ {t} : Forgotten(t)[u] = activity[u]
         /\ t \in Tokens => Forgotten(t)[t] = NoRecord
<1>1. 0 \in Time
  BY ActivityBounds DEF Time
<1> QED
  BY <1>1 DEF Shape, Forgotten, TokenRecord, NoRecord

-----------------------------------------------------------------------------
(* Types *)

LEMMA ActivityInit == Init => ActivityInv
<1> SUFFICES ASSUME Init PROVE ActivityInv
  OBVIOUS
<1> 0 \in Time /\ 1 \in Time
  BY ActivityBounds DEF Time
<1> USE ActivityNames DEF Init, Calls, Tokens
<1>1. Shape
  BY DEF Shape, TokenRecord, NoRecord, Pc
<1>2. TimeInv /\ FreshInv /\ RefusedInv
  BY DEF TimeInv, NoRecord, FreshInv, ReadUnderWay, RefusedInv
<1>3. UseInv /\ ClosedInv
  BY DEF UseInv, NoRecord, ClosedInv
<1> QED
  BY <1>1, <1>2, <1>3 DEF ActivityInv

\* How long an answer took.
LEMMA TimeSince ==
  ASSUME Shape, TimeInv, NEW t \in Tokens
  PROVE  now - lastUse[t] \in Time /\ lastUse[t] + (now - lastUse[t]) = now
<1>1. lastUse[t] \in 0..MaxTime /\ now \in 0..MaxTime /\ lastUse[t] <= now /\ MaxTime \in Nat
  BY ActivityBounds DEF Shape, TimeInv, Time
<1> QED
  BY <1>1 DEF Time

LEMMA ShapeStep ==
  ASSUME Shape, TimeInv, FreshInv, Next
  PROVE  Shape'
<1> USE DEF Shape, Pc, Goto, cmsVars, callVars, history
<1>1. ASSUME NEW c \in Calls, Issue(c, "new") \/ Issue(c, "conf")
      PROVE  Shape'
  BY <1>1 DEF Issue
<1>2. ASSUME NEW c \in Calls, CmsReads(c)
      PROVE  Shape'
  <2>1. lastUse' \in [Tokens -> Time] /\ pc' \in [Calls -> Pc]
    BY <1>2 DEF CmsReads
  <2> QED
    BY <1>2, <2>1 DEF CmsReads
<1>3. ASSUME NEW c \in Calls, ReadAnswer(c)
      PROVE  Shape'
  <2>1. req[c].token \in Tokens
    BY <1>3 DEF ReadAnswer, FreshInv, ReadUnderWay
  <2>2. activity' \in [Tokens -> TokenRecord]
    <3>1. PICK r \in BOOLEAN : activity' = Noted(req[c].token, r, req[c].issued)
      BY <1>3 DEF ReadAnswer
    <3> QED
      BY <2>1, <3>1, NotedRecord
  <2>3. pc' \in [Calls -> Pc] /\ refused' \subseteq Tokens
    BY <1>3, <2>1 DEF ReadAnswer
  <2>4. closed' \in BOOLEAN
    BY <1>3 DEF ReadAnswer
  <2>5. UNCHANGED <<now, host, req, lastUse, before, outlived>>
    BY <1>3 DEF ReadAnswer
  <2>6. late' \in Time
    BY <1>3, <2>1, TimeSince DEF ReadAnswer
  <2> QED
    BY <2>2, <2>3, <2>4, <2>5, <2>6
<1>4. ASSUME NEW c \in Calls, ReadFails(c)
      PROVE  Shape'
  BY <1>4 DEF ReadFails
<1>5. ASSUME NEW l \in Logins, LoginCall(l) \/ CmsLogin(l) \/ LoginAnswer(l) \/ LoginStore(l) \/ Remember(l)
      PROVE  Shape'
  <2> l \in Calls /\ l \in Tokens
    BY DEF Calls, Tokens
  <2>1. CASE LoginCall(l)
    BY <2>1 DEF LoginCall
  <2>2. CASE CmsLogin(l)
    BY <2>2 DEF CmsLogin
  <2>3. CASE LoginAnswer(l)
    BY <2>3 DEF LoginAnswer
  <2>4. CASE LoginStore(l)
    BY <2>4, ForgottenRecord, TimeSince DEF LoginStore
  <2>5. CASE Remember(l)
    BY <2>5 DEF Remember
  <2> QED
    BY <1>5, <2>1, <2>2, <2>3, <2>4, <2>5
<1>6. ASSUME NEW d \in Disconnects, Disconnect(d)
      PROVE  Shape'
  <2> 0 \in Time
    BY ActivityBounds DEF Time
  <2> QED
    BY <1>6, ClosedRecord DEF Disconnect
<1>7. ASSUME NEW m \in Moves, NEW s \in Servers, MoveHost(m, s)
      PROVE  Shape'
  <2> 0 \in Time
    BY ActivityBounds DEF Time
  <2> QED
    BY <1>7, ForgottenRecord DEF MoveHost
<1>8. ASSUME NEW t \in Tokens, Sweep(t)
      PROVE  Shape'
  BY <1>8, ForgottenRecord DEF Sweep
<1>9. CASE Tick
  BY <1>9, ActivityBounds DEF Tick, Time
<1>10. CASE Restart
  <2> 0 \in Time
    BY ActivityBounds DEF Time
  <2> QED
    BY <1>10 DEF Restart, NoRecord, TokenRecord
<1>11. CASE \E s \in Servers : TakenOver(s)
  BY <1>11 DEF TakenOver
<1> QED
  BY <1>1, <1>2, <1>3, <1>4, <1>5, <1>6, <1>7, <1>8, <1>9, <1>10, <1>11
  DEF Next, RequestStep, LoginStep, Calls

-----------------------------------------------------------------------------
(* Tokens before they are stored, and time *)

LEMMA FreshStep ==
  ASSUME Shape, FreshInv, Next
  PROVE  FreshInv'
<1> USE DEF Shape, FreshInv, NotStored, ReadUnderWay, Goto, cmsVars, callVars, history
<1>1. ASSUME NEW c \in Calls, Issue(c, "new") \/ Issue(c, "conf")
      PROVE  FreshInv'
  <2>1. /\ UNCHANGED <<host, refused>> /\ host.token # NoToken
        /\ pc'[c] = "read" /\ req'[c].token = host.token
        /\ \A d \in Calls \ {c} : pc'[d] = pc[d] /\ req'[d] = req[d]
    BY <1>1 DEF Issue
  <2> QED
    BY <2>1 DEF Calls
<1>2. ASSUME NEW c \in Calls, CmsReads(c)
      PROVE  FreshInv'
  BY <1>2 DEF CmsReads
<1>3. ASSUME NEW c \in Calls, ReadAnswer(c)
      PROVE  FreshInv'
  BY <1>3 DEF ReadAnswer
<1>4. ASSUME NEW c \in Calls, ReadFails(c)
      PROVE  FreshInv'
  BY <1>4 DEF ReadFails
<1>5. ASSUME NEW l \in Logins, LoginCall(l) \/ CmsLogin(l) \/ LoginAnswer(l) \/ LoginStore(l) \/ Remember(l)
      PROVE  FreshInv'
  <2> l \in Calls /\ NoToken \notin Logins
    BY ActivityNames DEF Calls
  <2>1. CASE LoginCall(l)
    BY <2>1 DEF LoginCall, Calls
  <2>2. CASE CmsLogin(l)
    <3>1. /\ UNCHANGED <<host, refused, req>> /\ pc[l] = "login"
          /\ pc'[l] \in {"loginOk", "loginFailed"} /\ \A d \in Calls \ {l} : pc'[d] = pc[d]
      BY <2>2 DEF CmsLogin
    <3> QED
      BY <3>1 DEF Calls
  <2>3. CASE LoginAnswer(l)
    BY <2>3 DEF LoginAnswer
  <2>4. CASE LoginStore(l)
    BY <2>4 DEF LoginStore
  <2>5. CASE Remember(l)
    BY <2>5 DEF Remember
  <2> QED
    BY <1>5, <2>1, <2>2, <2>3, <2>4, <2>5
<1>6. CASE \/ \E d \in Disconnects : Disconnect(d)
           \/ \E m \in Moves, s \in Servers : MoveHost(m, s)
           \/ \E t \in Tokens : Sweep(t)
           \/ \E s \in Servers : TakenOver(s)
           \/ Tick
  <2>1. UNCHANGED <<pc, req>> /\ host'.token = host.token /\ refused' \subseteq refused
    BY <1>6 DEF Disconnect, MoveHost, Sweep, TakenOver, Tick
  <2> QED
    BY <2>1
<1>7. CASE Restart
  BY <1>7 DEF Restart, Outstanding, Calls
<1> QED
  BY <1>1, <1>2, <1>3, <1>4, <1>5, <1>6, <1>7 DEF Next, RequestStep, LoginStep, Calls

\* What an answer leaves in the records.
LEMMA AnswerRecord ==
  ASSUME Shape, FreshInv, NEW c \in Calls, ReadAnswer(c)
  PROVE  /\ req[c].token \in Tokens
         /\ \A t \in Tokens \ {req[c].token} : activity'[t] = activity[t]
         /\ activity'[req[c].token].touchedAt = now
         /\ activity'[req[c].token].closedAt = activity[req[c].token].closedAt
         /\ activity'[req[c].token].rejected <=> activity[req[c].token].rejected \/ pc[c] # "accepted"
         /\ \/ activity'[req[c].token].acceptedAt = activity[req[c].token].acceptedAt
            \/ /\ pc[c] = "accepted" /\ activity'[req[c].token].acceptedAt = now
               /\ \/ activity[req[c].token].closedAt = 0
                  \/ req[c].issued > activity[req[c].token].closedAt
<1>1. PICK u \in Tokens, i \in Time : u = req[c].token /\ i = req[c].issued
  BY DEF ReadAnswer, FreshInv, ReadUnderWay, Shape
<1>2. PICK r \in BOOLEAN : activity' = Noted(u, r, i) /\ (r <=> pc[c] # "accepted")
  BY <1>1 DEF ReadAnswer
<1>3. /\ \A t \in Tokens \ {u} : Noted(u, r, i)[t] = activity[t]
      /\ Noted(u, r, i)[u].touchedAt = now /\ Noted(u, r, i)[u].closedAt = activity[u].closedAt
      /\ Noted(u, r, i)[u].rejected <=> activity[u].rejected \/ r
      /\ Noted(u, r, i)[u].acceptedAt =
           IF ~r /\ ~activity[u].rejected /\ (activity[u].closedAt = 0 \/ i > activity[u].closedAt)
             THEN now ELSE activity[u].acceptedAt
  BY NotedRecord
<1> QED
  BY <1>1, <1>2, <1>3

\* A step on the records that only drops or closes some.
LEMMA RecordsOnlyDropped ==
  ASSUME Shape, Next,
         \/ \E d \in Disconnects : Disconnect(d)
         \/ \E m \in Moves, s \in Servers : MoveHost(m, s)
         \/ \E t \in Tokens : Sweep(t)
         \/ \E s \in Servers : TakenOver(s)
         \/ Tick
         \/ Restart
  PROVE  /\ \A t \in Tokens : activity'[t].acceptedAt \in {activity[t].acceptedAt, 0}
         /\ UNCHANGED <<req, lastUse, late>>
         /\ host'.token = host.token /\ host'.issuedAt \in {host.issuedAt, 0}
<1>1. ASSUME NEW d \in Disconnects, Disconnect(d), NEW t \in Tokens
      PROVE  activity'[t].acceptedAt \in {activity[t].acceptedAt, 0}
  BY <1>1, ClosedRecord DEF Disconnect
<1>2. ASSUME NEW m \in Moves, NEW s \in Servers, MoveHost(m, s), NEW t \in Tokens
      PROVE  activity'[t].acceptedAt \in {activity[t].acceptedAt, 0}
  <2>1. activity' = Forgotten(host.token)
    BY <1>2 DEF MoveHost
  <2> QED
    BY <2>1, ForgottenRecord DEF NoRecord
<1>3. ASSUME NEW u \in Tokens, Sweep(u), NEW t \in Tokens
      PROVE  activity'[t].acceptedAt \in {activity[t].acceptedAt, 0}
  BY <1>3, ForgottenRecord DEF Sweep, NoRecord
<1>4. ASSUME Tick \/ \E s \in Servers : TakenOver(s)
      PROVE  UNCHANGED activity
  BY <1>4 DEF TakenOver, Tick
<1>5. ASSUME Restart, NEW t \in Tokens
      PROVE  activity'[t].acceptedAt = 0
  BY <1>5 DEF Restart, NoRecord
<1>6. UNCHANGED <<req, lastUse, late>> /\ host'.token = host.token /\ host'.issuedAt \in {host.issuedAt, 0}
  BY DEF Disconnect, MoveHost, Sweep, TakenOver, Tick, Restart, Shape, cmsVars, callVars, history
<1> QED
  BY <1>1, <1>2, <1>3, <1>4, <1>5, <1>6

LEMMA TimeStep ==
  ASSUME Shape, Shape', FreshInv, TimeInv, Next
  PROVE  TimeInv'
<1> Numbers /\ Numbers'
  BY NumbersHere, NumbersNext
<1> USE DEF TimeInv, Numbers
<1>1. ASSUME NEW c \in Calls, Issue(c, "new") \/ Issue(c, "conf")
      PROVE  TimeInv'
  <2>1. /\ UNCHANGED <<now, host, activity, lastUse>> /\ req'[c].issued = now
        /\ \A d \in Calls \ {c} : req'[d] = req[d]
    BY <1>1 DEF Issue, Shape, cmsVars
  <2> QED
    BY <2>1
<1>2. ASSUME NEW c \in Calls, CmsReads(c)
      PROVE  TimeInv'
  <2>1. UNCHANGED <<now, host, activity, req>>
    BY <1>2 DEF CmsReads
  <2>2. \A t \in Tokens : lastUse'[t] \in {lastUse[t], now}
    BY <1>2 DEF CmsReads, Shape
  <2> QED
    BY <2>1, <2>2
<1>3. ASSUME NEW c \in Calls, ReadAnswer(c)
      PROVE  TimeInv'
  <2>1. \A t \in Tokens : activity'[t].acceptedAt \in {activity[t].acceptedAt, now}
    BY <1>3, AnswerRecord
  <2>2. UNCHANGED <<now, host, req, lastUse>>
    BY <1>3 DEF ReadAnswer, cmsVars
  <2> QED
    BY <2>1, <2>2
<1>4. ASSUME NEW c \in Calls, ReadFails(c)
      PROVE  TimeInv'
  BY <1>4 DEF ReadFails, cmsVars
<1>5. ASSUME NEW l \in Logins, LoginCall(l) \/ CmsLogin(l) \/ LoginAnswer(l) \/ LoginStore(l) \/ Remember(l)
      PROVE  TimeInv'
  <2> l \in Calls /\ l \in Tokens
    BY DEF Calls, Tokens
  <2>1. CASE LoginCall(l)
    <3>1. /\ UNCHANGED <<now, host, activity, lastUse>> /\ req'[l].issued = now
          /\ \A d \in Calls \ {l} : req'[d] = req[d]
      BY <2>1 DEF LoginCall, Shape, cmsVars
    <3> QED
      BY <3>1
  <2>2. CASE CmsLogin(l)
    <3>1. /\ UNCHANGED <<now, host, activity, req>>
          /\ \A t \in Tokens : lastUse'[t] \in {lastUse[t], now}
      BY <2>2 DEF CmsLogin, Shape, cmsVars
    <3> QED
      BY <3>1
  <2>3. CASE LoginAnswer(l)
    BY <2>3 DEF LoginAnswer, cmsVars
  <2>4. CASE LoginStore(l)
    <3>1. \A t \in Tokens : activity'[t] \in {activity[t], NoRecord}
      BY <2>4, ForgottenRecord DEF LoginStore
    <3>2. UNCHANGED <<now, req, lastUse>> /\ host'.issuedAt = now
      BY <2>4 DEF LoginStore, Shape, cmsVars
    <3> QED
      BY <3>1, <3>2 DEF NoRecord
  <2>5. CASE Remember(l)
    <3>1. UNCHANGED <<now, activity, req, lastUse>> /\ host'.issuedAt = host.issuedAt
      BY <2>5 DEF Remember, Shape, cmsVars
    <3> QED
      BY <3>1
  <2> QED
    BY <1>5, <2>1, <2>2, <2>3, <2>4, <2>5
<1>6. CASE \/ \E d \in Disconnects : Disconnect(d)
           \/ \E m \in Moves, s \in Servers : MoveHost(m, s)
           \/ \E t \in Tokens : Sweep(t)
           \/ \E s \in Servers : TakenOver(s)
           \/ Tick
           \/ Restart
  <2>1. now' \in {now, now + 1}
    BY <1>6 DEF Disconnect, MoveHost, Sweep, TakenOver, Tick, Restart
  <2> QED
    BY <1>6, <2>1, RecordsOnlyDropped
<1> QED
  BY <1>1, <1>2, <1>3, <1>4, <1>5, <1>6 DEF Next, RequestStep, LoginStep, Calls

-----------------------------------------------------------------------------
(* The use CMS made of a token *)

LEMMA UseStep ==
  ASSUME Shape, Shape', FreshInv, TimeInv, UseInv, Next
  PROVE  UseInv'
<1> Numbers /\ Numbers'
  BY NumbersHere, NumbersNext
<1> host.token # NoToken => host.token \in Tokens
  BY DEF Shape
<1> USE DEF UseInv, Numbers
<1>1. ASSUME NEW c \in Calls, Issue(c, "new") \/ Issue(c, "conf") \/ ReadFails(c)
      PROVE  UseInv'
  BY <1>1 DEF Issue, ReadFails, cmsVars, history
<1>2. ASSUME NEW c \in Calls, CmsReads(c)
      PROVE  UseInv'
  <2>1. UNCHANGED <<host, activity, late>>
    BY <1>2 DEF CmsReads, history
  <2>2. \A t \in Tokens : lastUse'[t] \in {lastUse[t], now}
    BY <1>2 DEF CmsReads, Shape
  <2> QED
    BY <2>1, <2>2 DEF TimeInv
<1>3. ASSUME NEW c \in Calls, ReadAnswer(c)
      PROVE  UseInv'
  <2>1. UNCHANGED <<now, host, lastUse>>
    BY <1>3 DEF ReadAnswer, cmsVars
  <2>2. CASE pc[c] = "accepted" /\ req[c].token = host.token
    <3>1. host.token \in Tokens /\ late' = now - lastUse[host.token]
      BY <1>3, <2>2, AnswerRecord DEF ReadAnswer
    <3>2. lastUse'[host.token] + late' = now
      BY <2>1, <3>1, TimeSince
    <3> QED
      BY <1>3, <2>1, <3>2, TimeStep DEF TimeInv
  <2>3. CASE ~(pc[c] = "accepted" /\ req[c].token = host.token)
    <3>1. late' = late
      BY <1>3, <2>3 DEF ReadAnswer
    <3>2. host.token # NoToken => activity'[host.token].acceptedAt = activity[host.token].acceptedAt
      BY <1>3, <2>3, AnswerRecord
    <3> QED
      BY <2>1, <3>1, <3>2
  <2> QED
    BY <2>2, <2>3
<1>4. ASSUME NEW l \in Logins, LoginCall(l) \/ CmsLogin(l) \/ LoginAnswer(l) \/ LoginStore(l) \/ Remember(l)
      PROVE  UseInv'
  <2> l \in Calls /\ l \in Tokens
    BY DEF Calls, Tokens
  <2>1. CASE LoginCall(l)
    BY <2>1 DEF LoginCall, cmsVars, history
  <2>2. CASE CmsLogin(l)
    <3>1. /\ UNCHANGED <<host, activity, late>>
          /\ \A t \in Tokens : lastUse'[t] \in {lastUse[t], now}
      BY <2>2 DEF CmsLogin, Shape, cmsVars, history
    <3> QED
      BY <3>1 DEF TimeInv
  <2>3. CASE LoginAnswer(l)
    BY <2>3 DEF LoginAnswer, cmsVars, history
  <2>4. CASE LoginStore(l)
    <3>1. lastUse' = lastUse /\ now' = now /\ host'.token = l /\ late' = now - lastUse[l]
      BY <2>4 DEF LoginStore, Shape, cmsVars
    <3>2. lastUse'[l] + late' = now
      BY <3>1, TimeSince
    <3> QED
      BY <3>1, <3>2, TimeStep DEF TimeInv
  <2>5. CASE Remember(l)
    <3>1. /\ UNCHANGED <<activity, lastUse, late>>
          /\ host'.token = host.token /\ host'.issuedAt = host.issuedAt
      BY <2>5 DEF Remember, Shape, cmsVars, history
    <3> QED
      BY <3>1
  <2> QED
    BY <1>4, <2>1, <2>2, <2>3, <2>4, <2>5
<1>5. CASE \/ \E d \in Disconnects : Disconnect(d)
           \/ \E m \in Moves, s \in Servers : MoveHost(m, s)
           \/ \E t \in Tokens : Sweep(t)
           \/ \E s \in Servers : TakenOver(s)
           \/ Tick
           \/ Restart
  BY <1>5, RecordsOnlyDropped
<1> QED
  BY <1>1, <1>2, <1>3, <1>4, <1>5 DEF Next, RequestStep, LoginStep, Calls

-----------------------------------------------------------------------------
(* Closed and rejected tokens *)

LEMMA ClosedStep ==
  ASSUME Shape, Shape', FreshInv, TimeInv, ClosedInv, Next
  PROVE  ClosedInv'
<1> Numbers /\ Numbers'
  BY NumbersHere, NumbersNext
<1> USE DEF ClosedInv, Numbers, ReadUnderWay
<1>1. ASSUME NEW c \in Calls, Issue(c, "new") \/ Issue(c, "conf")
      PROVE  ClosedInv'
  <2>1. /\ UNCHANGED <<host, activity, closed, before, outlived>> /\ pc[c] \in {"new", "conf"}
        /\ \A d \in Calls \ {c} : pc'[d] = pc[d] /\ req'[d] = req[d]
    BY <1>1 DEF Issue, Shape, Goto, history
  <2> QED
    BY <2>1 DEF Shape
<1>2. ASSUME NEW c \in Calls, CmsReads(c)
      PROVE  ClosedInv'
  <2>1. /\ UNCHANGED <<host, activity, req, closed, before, outlived>>
        /\ pc[c] = "read" /\ pc'[c] \in {"accepted", "rejected"}
        /\ \A d \in Calls \ {c} : pc'[d] = pc[d]
    BY <1>2 DEF CmsReads, Shape, Goto, history
  <2> QED
    BY <2>1 DEF Shape
<1>3. ASSUME NEW c \in Calls, ReadAnswer(c)
      PROVE  ClosedInv'
  <2>1. /\ UNCHANGED <<host, req, before, outlived>> /\ pc'[c] \in {"remember", "done"}
        /\ \A d \in Calls \ {c} : pc'[d] = pc[d]
        /\ closed' => closed /\ (pc[c] # "accepted" \/ c \in before)
        /\ pc[c] \in {"accepted", "rejected"}
    BY <1>3 DEF ReadAnswer, Shape, Goto
  <2>2. host.token # req[c].token /\ host.token # NoToken => activity'[host.token] = activity[host.token]
    BY <1>3, AnswerRecord
  <2>3. CASE host.token = req[c].token /\ closed' /\ ~outlived /\ ~activity'[host.token].rejected
    <3>1. pc[c] = "accepted" /\ c \in before /\ ~activity[host.token].rejected
      BY <1>3, <2>1, <2>3, AnswerRecord
    <3> closed /\ host.token # NoToken
      BY <1>3, <2>1, <2>3, AnswerRecord, ActivityNames DEF Tokens
    <3>2. activity[host.token].closedAt # 0 /\ req[c].issued <= activity[host.token].closedAt
      BY <2>1, <2>3, <3>1
    <3>3. /\ activity'[host.token].acceptedAt = activity[host.token].acceptedAt
          /\ activity'[host.token].closedAt = activity[host.token].closedAt
      BY <1>3, <2>3, <3>2, AnswerRecord
    <3>4. activity[host.token].acceptedAt = 0
      BY <2>3, <3>1
    <3>5. ASSUME NEW d \in before, pc'[d] \in {"read", "accepted", "rejected"}, req'[d].token = host.token
          PROVE  activity[host.token].closedAt # 0 /\ req'[d].issued <= activity[host.token].closedAt
      <4>1. d \in Calls /\ d # c /\ pc[d] \in {"read", "accepted", "rejected"} /\ req[d] = req'[d]
        BY <2>1, <3>5 DEF Shape
      <4> QED
        BY <2>3, <3>1, <3>5, <4>1
    <3>6. \A d \in before : pc'[d] \in {"read", "accepted", "rejected", "remember", "done"}
      BY <2>1 DEF Shape
    <3> QED
      BY <2>1, <3>3, <3>4, <3>5, <3>6
  <2>4. CASE ~(host.token = req[c].token /\ closed' /\ ~outlived /\ ~activity'[host.token].rejected)
    <3>1. \A d \in before : /\ pc'[d] \in {"read", "accepted", "rejected", "remember", "done"}
                            /\ ReadUnderWay(d)' => ReadUnderWay(d)
      BY <2>1 DEF Shape
    <3> QED
      BY <2>1, <2>2, <2>4, <3>1
  <2> QED
    BY <2>3, <2>4
<1>4. ASSUME NEW c \in Calls, ReadFails(c)
      PROVE  ClosedInv'
  <2>1. /\ UNCHANGED <<host, activity, req, closed, before, outlived>> /\ pc'[c] = "done"
        /\ \A d \in Calls \ {c} : pc'[d] = pc[d]
    BY <1>4 DEF ReadFails, Shape, Goto, history
  <2> QED
    BY <2>1 DEF Shape
<1>5. ASSUME NEW l \in Logins, LoginCall(l) \/ CmsLogin(l) \/ LoginAnswer(l) \/ LoginStore(l) \/ Remember(l)
      PROVE  ClosedInv'
  <2>1. /\ before' = before /\ l \in Calls
        /\ \A d \in Calls \ {l} : pc'[d] = pc[d] /\ req'[d] = req[d]
        /\ pc[l] \notin {"read", "accepted", "rejected"} /\ pc'[l] \notin {"read", "accepted", "rejected"}
        /\ pc[l] = "remember" => pc'[l] = "done"
        /\ pc[l] # "done"
    BY <1>5 DEF LoginCall, CmsLogin, LoginAnswer, LoginStore, Remember, Shape, Goto, callVars, history, Calls
  <2>0. /\ \A d \in before : pc'[d] \in {"read", "accepted", "rejected", "remember", "done"}
        /\ \A d \in before : ReadUnderWay(d)' => ReadUnderWay(d) /\ req'[d] = req[d]
    BY <2>1 DEF Shape
  <2>2. CASE LoginStore(l)
    <3>1. ~closed'
      BY <2>2 DEF LoginStore
    <3> QED
      BY <2>0, <2>1, <3>1
  <2>3. CASE ~LoginStore(l)
    <3>1. /\ UNCHANGED <<activity, closed, outlived>>
          /\ host'.token = host.token /\ host'.issuedAt = host.issuedAt
      BY <1>5, <2>3 DEF LoginCall, CmsLogin, LoginAnswer, Remember, Shape, history
    <3> QED
      BY <2>0, <2>1, <3>1
  <2> QED
    BY <2>2, <2>3
<1>6. ASSUME NEW d \in Disconnects, Disconnect(d)
      PROVE  ClosedInv'
  <2>1. /\ UNCHANGED <<now, pc, req>> /\ host'.token = host.token /\ host'.issuedAt = 0
        /\ before' = {c \in Calls : ReadUnderWay(c)}
        /\ activity' = Closed(host.token)
    BY <1>6 DEF Disconnect, Shape, callVars
  <2>2. host.token # NoToken => activity'[host.token].acceptedAt = 0 /\ activity'[host.token].closedAt = now
    BY <2>1, ClosedRecord
  <2>3. now # 0
    BY DEF TimeInv
  <2> QED
    BY <2>1, <2>2, <2>3 DEF TimeInv
<1>7. ASSUME NEW m \in Moves, NEW s \in Servers, MoveHost(m, s)
      PROVE  ClosedInv'
  BY <1>7 DEF MoveHost, callVars
<1>8. ASSUME NEW t \in Tokens, Sweep(t)
      PROVE  ClosedInv'
  <2>1. UNCHANGED <<host, pc, req, closed, before>>
    BY <1>8 DEF Sweep, callVars
  <2>2. \A u \in Tokens \ {t} : activity'[u] = activity[u]
    BY <1>8, ForgottenRecord DEF Sweep
  <2>3. activity'[t].acceptedAt = 0
    BY <1>8, ForgottenRecord DEF Sweep, NoRecord
  <2>4. closed' /\ ~outlived' /\ t = host.token =>
          ~outlived /\ ~\E c \in before : ReadUnderWay(c) /\ req[c].token = t
    <3>1. outlived' = (outlived \/ DropsClosed(t))
      BY <1>8 DEF Sweep
    <3>2. ~outlived' => ~outlived /\ ~DropsClosed(t)
      BY <3>1
    <3>3. ASSUME ~DropsClosed(t), closed, t = host.token
          PROVE  ~\E c \in before : ReadUnderWay(c) /\ req[c].token = t
      BY <3>3 DEF DropsClosed
    <3> QED
      BY <2>1, <3>2, <3>3
  <2>5. outlived' \in BOOLEAN /\ outlived \in BOOLEAN /\ (outlived => outlived')
    BY <1>8 DEF Sweep, Shape
  <2> QED
    BY <2>1, <2>2, <2>3, <2>4, <2>5
<1>9. CASE Tick \/ \E s \in Servers : TakenOver(s)
  BY <1>9 DEF Tick, TakenOver, callVars, history
<1>10. CASE Restart
  <2>1. /\ UNCHANGED <<host, closed, before, outlived>> /\ \A t \in Tokens : activity'[t].acceptedAt = 0
        /\ \A c \in Calls : pc'[c] \in {"done", "new"} /\ (pc[c] # "new" => pc'[c] = "done")
    BY <1>10 DEF Restart, NoRecord, Outstanding, Shape
  <2> QED
    BY <2>1 DEF Shape
<1> QED
  BY <1>1, <1>2, <1>3, <1>4, <1>5, <1>6, <1>7, <1>8, <1>9, <1>10
  DEF Next, RequestStep, LoginStep, Calls

LEMMA RefusedStep ==
  ASSUME Shape, Shape', FreshInv, RefusedInv, Next
  PROVE  RefusedInv'
<1> Numbers /\ Numbers'
  BY NumbersHere, NumbersNext
<1> USE DEF RefusedInv, Numbers
<1>1. ASSUME NEW c \in Calls, Issue(c, "new") \/ Issue(c, "conf") \/ CmsReads(c) \/ ReadFails(c)
      PROVE  RefusedInv'
  BY <1>1 DEF Issue, CmsReads, ReadFails, history
<1>2. ASSUME NEW c \in Calls, ReadAnswer(c)
      PROVE  RefusedInv'
  <2>1. host' = host /\ refused' = refused \cup {u \in {req[c].token} : pc[c] # "accepted"}
    BY <1>2 DEF ReadAnswer
  <2>2. CASE host.token = req[c].token
    <3>1. host.token \in refused' => host.token \in refused \/ pc[c] # "accepted"
      BY <2>1
    <3> QED
      BY <1>2, <2>1, <2>2, <3>1, AnswerRecord
  <2>3. CASE host.token # req[c].token
    <3>1. host.token \in refused' => host.token \in refused /\ host.token \in Tokens
      BY <2>1, <2>3 DEF Shape
    <3>2. host.token \in Tokens => activity'[host.token] = activity[host.token]
      BY <1>2, <2>3, AnswerRecord
    <3> QED
      BY <2>1, <3>1, <3>2
  <2> QED
    BY <2>2, <2>3
<1>3. ASSUME NEW l \in Logins, LoginCall(l) \/ CmsLogin(l) \/ LoginAnswer(l) \/ LoginStore(l) \/ Remember(l)
      PROVE  RefusedInv'
  <2>1. CASE LoginStore(l)
    BY <2>1 DEF LoginStore, FreshInv, NotStored, Shape
  <2>2. CASE ~LoginStore(l)
    BY <1>3, <2>2 DEF LoginCall, CmsLogin, LoginAnswer, Remember, Shape, history
  <2> QED
    BY <2>1, <2>2
<1>4. ASSUME NEW d \in Disconnects, Disconnect(d)
      PROVE  RefusedInv'
  <2>1. host'.token = host.token /\ refused' = refused /\ activity' = Closed(host.token)
    BY <1>4 DEF Disconnect, Shape
  <2>2. host.token \in Tokens => activity'[host.token].rejected = activity[host.token].rejected
    BY <2>1, ClosedRecord
  <2> QED
    BY <2>1, <2>2 DEF Shape
<1>5. ASSUME NEW m \in Moves, NEW s \in Servers, MoveHost(m, s)
      PROVE  RefusedInv'
  BY <1>5 DEF MoveHost, Shape
<1>6. ASSUME NEW t \in Tokens, Sweep(t)
      PROVE  RefusedInv'
  <2>1. UNCHANGED <<host, refused>> /\ ~activity[t].rejected
        /\ \A u \in Tokens \ {t} : activity'[u] = activity[u]
    BY <1>6, ForgottenRecord DEF Sweep, history
  <2> QED
    BY <2>1 DEF Shape
<1>7. CASE Tick \/ \E s \in Servers : TakenOver(s)
  BY <1>7 DEF Tick, TakenOver, history
<1>8. CASE Restart
  BY <1>8 DEF Restart
<1> QED
  BY <1>1, <1>2, <1>3, <1>4, <1>5, <1>6, <1>7, <1>8 DEF Next, RequestStep, LoginStep, Calls

LEMMA ActivityStep == ActivityInv /\ [Next]_vars => ActivityInv'
<1> SUFFICES ASSUME ActivityInv, [Next]_vars PROVE ActivityInv'
  OBVIOUS
<1> USE DEF ActivityInv
<1>1. CASE Next
  <2>1. Shape'
    BY <1>1, ShapeStep
  <2> QED
    BY <1>1, <2>1, FreshStep, TimeStep, UseStep, ClosedStep, RefusedStep
<1>2. CASE UNCHANGED vars
  BY <1>2 DEF vars, callVars, cmsVars, history, Shape, TimeInv, FreshInv, UseInv, ClosedInv,
     RefusedInv, ReadUnderWay, NotStored
<1> QED
  BY <1>1, <1>2

LEMMA ActivityAlways == Spec => []ActivityInv
BY ActivityInit, ActivityStep, PTL DEF Spec

-----------------------------------------------------------------------------
(* What is shown *)

\* The session of a host, when it is shown: its token, and the later of its
\* record's last acceptance and the login.
LEMMA ShownSession ==
  ASSUME Shape, SessionExpiresAt # 0
  PROVE  /\ host.token \in Tokens /\ ~activity[host.token].rejected
         /\ \E since \in {activity[host.token].acceptedAt, host.issuedAt} :
              /\ since # 0
              /\ SessionExpiresAt = since + (IF host.active = 0 THEN DefaultActive ELSE CmsActive)
<1> DEFINE since == IF host.token = NoToken THEN 0
                    ELSE LaterOf(activity[host.token].acceptedAt, host.issuedAt)
<1>1. since # 0 /\ ~activity[host.token].rejected
  BY DEF SessionExpiresAt
<1>2. host.token \in Tokens /\ since \in {activity[host.token].acceptedAt, host.issuedAt}
  BY <1>1 DEF Shape, LaterOf
<1>3. SessionExpiresAt = since + (IF host.active = 0 THEN DefaultActive ELSE host.active)
  BY <1>1 DEF SessionExpiresAt
<1>4. host.active # 0 => host.active = CmsActive
  BY DEF Shape
<1> HIDE DEF since
<1> QED
  BY <1>1, <1>2, <1>3, <1>4

\* A session the user closed is not shown as open again by a request that was
\* waiting in withHostQueue or at CMS at that moment, however late it is answered,
\* except after a sweep of noteCmsTokenUse that took the closed record before the
\* last of these requests ended.
THEOREM ClosedIsClosed == Spec => []ClosedStaysClosed
<1>1. ActivityInv => ClosedStaysClosed
  <2> SUFFICES ASSUME ActivityInv, closed, ~outlived, SessionExpiresAt # 0
               PROVE  FALSE
    BY DEF ClosedStaysClosed
  <2>1. host.token # NoToken /\ ~activity[host.token].rejected
    BY ShownSession, ActivityNames DEF ActivityInv, Tokens
  <2>2. activity[host.token].acceptedAt = 0 /\ host.issuedAt = 0
    BY <2>1 DEF ActivityInv, ClosedInv
  <2> QED
    BY <2>2, ShownSession DEF ActivityInv
<1> QED
  BY <1>1, ActivityAlways, PTL

\* Where the server's active time is known, cmsSessionExpiresAt never says more than
\* CMS's own: its last use of the token and that time, and what the answer took that
\* told so; through restarts, sweeps and unanswered calls.
THEOREM ShownInTime == Spec => []NeverShownTooLong
<1>1. ActivityInv => NeverShownTooLong
  <2> SUFFICES ASSUME ActivityInv, SessionExpiresAt # 0, host.active # 0
               PROVE  SessionExpiresAt <= lastUse[host.token] + late + CmsActive
    BY DEF NeverShownTooLong
  <2>1. PICK since \in {activity[host.token].acceptedAt, host.issuedAt} :
          SessionExpiresAt = since + CmsActive
    BY ShownSession DEF ActivityInv
  <2>2. host.token \in Tokens /\ host.token # NoToken
    BY ShownSession, ActivityNames DEF ActivityInv, Tokens
  <2>3. since <= lastUse[host.token] + late
    BY <2>1, <2>2 DEF ActivityInv, UseInv
  <2>4. since \in Nat /\ lastUse[host.token] \in Nat /\ late \in Nat /\ CmsActive \in Nat
    BY <2>1, <2>2, NumbersHere, ActivityBounds DEF ActivityInv, Numbers
  <2> QED
    BY <2>1, <2>3, <2>4
<1> QED
  BY <1>1, ActivityAlways, PTL

\* Once an answer to this process called the host's token invalid, no answer that
\* comes later and no sweep makes it shown as good again.
THEOREM RejectedIsFinal == Spec => []RejectedStaysRejected
<1>1. ActivityInv => RejectedStaysRejected
  BY ShownSession DEF ActivityInv, RefusedInv, RejectedStaysRejected
<1> QED
  BY <1>1, ActivityAlways, PTL
=============================================================================

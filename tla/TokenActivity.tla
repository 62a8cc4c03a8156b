--------------------------- MODULE TokenActivity ---------------------------
(***************************************************************************)
(* How long a host is shown as connected: cms-token-activity, fed by the   *)
(* answers CmsHttpsClientService gets, by CmsAuthService's login and       *)
(* disconnect and by HostService's change of a host.                       *)
(*                                                                         *)
(* CMS drops a token that goes unused for token_active_time, and when the  *)
(* same CMS user logs in again.  The server only sees answers.  It notes   *)
(* in memory when CMS last accepted or rejected each token, and shows a    *)
(* host as connected until the last acceptance (or the login) plus the     *)
(* active time.  Calls to one server are queued, one at a time; a request  *)
(* that waited in the queue while the user disconnected is not a use.      *)
(*                                                                         *)
(* One host of one user.  A login is also the token CMS answers it with.   *)
(***************************************************************************)
EXTENDS Naturals, Sequences

CONSTANTS
  Logins, Requests, Disconnects, Moves,  \* the calls: each is made at most once
  Servers, FirstServer,                  \* CMS servers, and the host's at the start
  NoToken,
  CmsActive,      \* token_active_time of the servers
  DefaultActive,  \* CMS_DEFAULT_TOKEN_ACTIVE_TIME_SEC
  Retention,      \* CMS_TOKEN_ACTIVITY_RETENTION_MS
  MaxTime, MaxRestarts  \* bounds

ASSUME ActivityNames ==
  /\ NoToken \notin Logins /\ FirstServer \in Servers
  /\ Logins \cap Requests = {}
ASSUME ActivityBounds ==
  /\ {CmsActive, DefaultActive, Retention, MaxTime} \subseteq Nat \ {0}
  /\ MaxRestarts \in Nat

VARIABLES
  now,       \* from 1; 0 stands for no time
  host,      \* user file: server, token, cmsTokenIssuedAt, cmsTokenActiveTimeSec
  activity,  \* the records of cms-token-activity
  queue,     \* hostRequestQueue: the calls of each server, the first one at CMS
  pc, req,   \* a call: where it stands, and the token and time it was issued with
  live,      \* CMS: the token each server accepts
  lastUse,   \* CMS: when each token was last accepted
  home,      \* CMS: the server that gave each token
  spent,     \* disconnects and moves made
  closed, before,  \* history: the user disconnected, and the calls issued before that
  outlived,  \* history: a sweep dropped the closed record before the last of those calls ended
  late,      \* history: what the answer took that CMS last accepted the host's token with
  refused,   \* history: tokens an answer to this process said are invalid
  restarts

callVars == <<queue, pc, req>>
cmsVars  == <<live, lastUse, home>>
history  == <<closed, before, outlived, late, refused>>
vars == <<now, host, activity, callVars, cmsVars, spent, history, restarts>>

-----------------------------------------------------------------------------
Time   == 0..MaxTime
Calls  == Logins \cup Requests
Tokens == Logins

NoRecord == [acceptedAt |-> 0, rejected |-> FALSE, closedAt |-> 0, touchedAt |-> 0]
TokenRecord == [acceptedAt : Time, rejected : BOOLEAN, closedAt : Time, touchedAt : Time]

\* A login waits in the queue ("login"), stores its token, reads cm.conf like any
\* request ("read"), and remembers the active time.
Pc == {"new", "login", "loginOk", "loginFailed", "store", "conf",
       "read", "accepted", "rejected", "remember", "done"}

Range(q) == {q[i] : i \in DOMAIN q}
Outstanding(c)  == pc[c] \notin {"new", "done"}
ReadUnderWay(c) == pc[c] \in {"read", "accepted", "rejected"}

TypeOK ==
  /\ now \in Time
  /\ host \in [server : Servers, token : Tokens \cup {NoToken}, issuedAt : Time,
               active : {0, CmsActive}]
  \* only tokens CMS gave are stored, and a login time only with one
  /\ host.token # NoToken => lastUse[host.token] # 0
  /\ host.issuedAt # 0 => host.token # NoToken
  /\ activity \in [Tokens -> TokenRecord]
  /\ \A s \in Servers : Range(queue[s]) \subseteq Calls
  /\ pc \in [Calls -> Pc]
  /\ req \in [Calls -> [token : Tokens \cup {NoToken}, issued : Time, server : Servers]]
  /\ live \in [Servers -> Tokens \cup {NoToken}] /\ lastUse \in [Tokens -> Time]
  /\ home \in [Tokens -> Servers]
  /\ spent \subseteq Disconnects \cup Moves
  /\ closed \in BOOLEAN /\ before \subseteq Calls /\ outlived \in BOOLEAN /\ late \in Time
  /\ refused \subseteq Tokens
  /\ restarts \in 0..MaxRestarts

Init ==
  /\ now = 1
  /\ host = [server |-> FirstServer, token |-> NoToken, issuedAt |-> 0, active |-> 0]
  /\ activity = [t \in Tokens |-> NoRecord]
  /\ queue = [s \in Servers |-> <<>>]
  /\ pc = [c \in Calls |-> "new"]
  /\ req = [c \in Calls |-> [token |-> NoToken, issued |-> 0, server |-> FirstServer]]
  /\ live = [s \in Servers |-> NoToken] /\ lastUse = [t \in Tokens |-> 0]
  /\ home = [t \in Tokens |-> FirstServer]
  /\ spent = {} /\ closed = FALSE /\ before = {} /\ outlived = FALSE /\ late = 0
  /\ refused = {}
  /\ restarts = 0

-----------------------------------------------------------------------------
(* cms-token-activity *)

\* The record of a token no answer, disconnect or sweep left one for.
Known(t) == activity[t] # NoRecord

\* noteCmsTokenUse
Noted(t, rejected, issued) ==
  LET entry == activity[t] IN
  [activity EXCEPT ![t] =
     [entry EXCEPT
        !.touchedAt = now,
        !.rejected = @ \/ rejected,
        !.acceptedAt =
           IF ~rejected /\ ~entry.rejected /\ (entry.closedAt = 0 \/ issued > entry.closedAt)
             THEN now ELSE @]]

\* closeCmsToken; a host without a token has no record to close.
Closed(t) ==
  [u \in Tokens |->
     IF u = t THEN [activity[u] EXCEPT !.acceptedAt = 0, !.closedAt = now, !.touchedAt = now]
              ELSE activity[u]]

\* forgetCmsToken
Forgotten(t) == [u \in Tokens |-> IF u = t THEN NoRecord ELSE activity[u]]

LaterOf(a, b) == IF a > b THEN a ELSE b

\* cmsSessionExpiresAt; 0 for null.
SessionExpiresAt ==
  LET since == IF host.token = NoToken THEN 0
               ELSE LaterOf(activity[host.token].acceptedAt, host.issuedAt)
  IN IF since = 0 \/ activity[host.token].rejected THEN 0
     ELSE since + IF host.active = 0 THEN DefaultActive ELSE host.active

\* A sweep drops the record that says the user closed the session while a call
\* issued before that is still in the queue or at CMS.
DropsClosed(t) ==
  /\ closed /\ t = host.token
  /\ \E c \in before : ReadUnderWay(c) /\ req[c].token = t

\* Variant: the sweep takes rejected records as well.
SweepRejected(t) ==
  /\ Known(t)
  /\ now > activity[t].touchedAt + Retention
  /\ activity' = Forgotten(t)
  /\ outlived' = (outlived \/ DropsClosed(t))
  /\ UNCHANGED <<now, host, callVars, cmsVars, spent, closed, before, late, refused, restarts>>

\* At every 256th note, for a record idle for a day.
Sweep(t) ==
  /\ Known(t) /\ ~activity[t].rejected
  /\ now > activity[t].touchedAt + Retention
  /\ activity' = Forgotten(t)
  /\ outlived' = (outlived \/ DropsClosed(t))
  /\ UNCHANGED <<now, host, callVars, cmsVars, spent, closed, before, late, refused, restarts>>

-----------------------------------------------------------------------------
(* Calls to CMS *)

Goto(c, label) == pc' = [pc EXCEPT ![c] = label]
Enqueue(c, s)  == queue' = [queue EXCEPT ![s] = Append(@, c)]
\* The end of withHostQueue's function, whether it returned or threw.
Dequeue(c)     == queue' = [s \in Servers |-> SelectSeq(queue[s], LAMBDA d : d # c)]
AtCms(c)       == \E s \in Servers : queue[s] # <<>> /\ Head(queue[s]) = c

\* executeCmsRequest: the host is read, and the call issued, before the queue.
Issue(c, from) ==
  /\ pc[c] = from /\ host.token # NoToken
  /\ req' = [req EXCEPT ![c] = [token |-> host.token, issued |-> now, server |-> host.server]]
  /\ Enqueue(c, host.server)
  /\ Goto(c, "read")
  /\ UNCHANGED <<now, host, activity, cmsVars, spent, history, restarts>>

CmsReads(c) ==
  LET t == req[c].token
      accepts == live[req[c].server] = t /\ now <= lastUse[t] + CmsActive
  IN /\ pc[c] = "read" /\ AtCms(c)
     /\ Goto(c, IF accepts THEN "accepted" ELSE "rejected")
     /\ lastUse' = IF accepts THEN [lastUse EXCEPT ![t] = now] ELSE lastUse
     /\ UNCHANGED <<now, host, activity, queue, req, live, home, spent, history, restarts>>

\* The answer arrives.  A login then has its cm.conf, or goes without.
ReadAnswer(c) ==
  LET t == req[c].token
      accepted == pc[c] = "accepted"
  IN /\ pc[c] \in {"accepted", "rejected"}
     /\ activity' = Noted(t, ~accepted, req[c].issued)
     /\ Dequeue(c)
     /\ Goto(c, IF c \in Logins /\ accepted THEN "remember" ELSE "done")
     /\ closed' = (closed /\ (~accepted \/ c \in before))
     /\ refused' = refused \cup {u \in {t} : ~accepted}
     /\ late' = IF accepted /\ t = host.token THEN now - lastUse[t] ELSE late
     /\ UNCHANGED <<now, host, req, cmsVars, spent, before, outlived, restarts>>

\* Variant: an error without an answer is noted as a use.
ReadFailsNoted(c) ==
  /\ ReadUnderWay(c)
  /\ activity' = Noted(req[c].token, FALSE, req[c].issued)
  /\ Dequeue(c) /\ Goto(c, "done")
  /\ UNCHANGED <<now, host, req, cmsVars, spent, history, restarts>>

\* The connection breaks or, where the caller set one, the time limit passes, before
\* or after CMS got to the request: nothing is noted.
ReadFails(c) ==
  /\ ReadUnderWay(c)
  /\ Dequeue(c) /\ Goto(c, "done")
  /\ UNCHANGED <<now, host, activity, req, cmsVars, spent, history, restarts>>

-----------------------------------------------------------------------------
(* CmsAuthService and HostService *)

LoginCall(l) ==
  /\ pc[l] = "new"
  /\ req' = [req EXCEPT ![l] = [token |-> NoToken, issued |-> now, server |-> host.server]]
  /\ Enqueue(l, host.server)
  /\ Goto(l, "login")
  /\ UNCHANGED <<now, host, activity, cmsVars, spent, history, restarts>>

\* CMS gives a new token and drops the user's old one; the password may be wrong.
CmsLogin(l) ==
  /\ pc[l] = "login" /\ AtCms(l)
  /\ \/ /\ live' = [live EXCEPT ![req[l].server] = l]
        /\ lastUse' = [lastUse EXCEPT ![l] = now]
        /\ home' = [home EXCEPT ![l] = req[l].server]
        /\ Goto(l, "loginOk")
     \/ Goto(l, "loginFailed") /\ UNCHANGED cmsVars
  /\ UNCHANGED <<now, host, activity, queue, req, spent, history, restarts>>

\* Variant: the status of the answer is not looked at.
LoginAnswerUnchecked(l) ==
  /\ pc[l] \in {"loginOk", "loginFailed"}
  /\ Dequeue(l)
  /\ Goto(l, "store")
  /\ UNCHANGED <<now, host, activity, req, cmsVars, spent, history, restarts>>

LoginAnswer(l) ==
  /\ pc[l] \in {"loginOk", "loginFailed"}
  /\ Dequeue(l)
  /\ Goto(l, IF pc[l] = "loginOk" THEN "store" ELSE "done")
  /\ UNCHANGED <<now, host, activity, req, cmsVars, spent, history, restarts>>

LoginStore(l) ==
  /\ pc[l] = "store"
  /\ activity' = Forgotten(host.token)
  /\ host' = [host EXCEPT !.token = l, !.issuedAt = now, !.active = 0]
  /\ closed' = FALSE /\ outlived' = FALSE /\ late' = now - lastUse[l]
  /\ Goto(l, "conf")
  /\ UNCHANGED <<now, queue, req, cmsVars, spent, before, refused, restarts>>

\* rememberTokenActiveTime
Remember(l) ==
  /\ pc[l] = "remember"
  /\ host' = IF host.token = l THEN [host EXCEPT !.active = CmsActive] ELSE host
  /\ Goto(l, "done")
  /\ UNCHANGED <<now, activity, queue, req, cmsVars, spent, history, restarts>>

\* Variant: a disconnect forgets the token's record.
DisconnectForgets(d) ==
  /\ d \notin spent /\ host.token # NoToken
  /\ spent' = spent \cup {d}
  /\ activity' = Forgotten(host.token)
  /\ host' = [host EXCEPT !.issuedAt = 0]
  /\ closed' = TRUE /\ before' = {c \in Calls : ReadUnderWay(c)} /\ outlived' = FALSE
  /\ UNCHANGED <<now, callVars, cmsVars, late, refused, restarts>>

Disconnect(d) ==
  /\ d \notin spent
  /\ spent' = spent \cup {d}
  /\ activity' = Closed(host.token)
  /\ host' = [host EXCEPT !.issuedAt = 0]
  /\ closed' = TRUE /\ before' = {c \in Calls : ReadUnderWay(c)} /\ outlived' = FALSE
  /\ UNCHANGED <<now, callVars, cmsVars, late, refused, restarts>>

\* updateHost with another address: the stored token stays, its login time goes.
MoveHost(m, s) ==
  /\ m \notin spent /\ s # host.server
  /\ spent' = spent \cup {m}
  /\ activity' = Forgotten(host.token)
  /\ host' = [host EXCEPT !.server = s, !.issuedAt = 0, !.active = 0]
  /\ refused' = refused \ {host.token} /\ closed' = FALSE /\ outlived' = FALSE
  /\ UNCHANGED <<now, callVars, cmsVars, before, late, restarts>>

-----------------------------------------------------------------------------
(* Elsewhere, time and restarts *)

\* The same CMS user logs in from elsewhere, or CMS restarts.
TakenOver(s) ==
  /\ live[s] # NoToken
  /\ live' = [live EXCEPT ![s] = NoToken]
  /\ UNCHANGED <<now, host, activity, callVars, lastUse, home, spent, history, restarts>>

\* A call may wait in the queue and at CMS for any time: most have no time limit,
\* and none has one before its turn.
Tick ==
  /\ now < MaxTime
  /\ now' = now + 1
  /\ UNCHANGED <<host, activity, callVars, cmsVars, spent, history, restarts>>

\* The user file stays, the records and the calls under way do not.
Restart ==
  /\ restarts < MaxRestarts
  /\ restarts' = restarts + 1
  /\ activity' = [t \in Tokens |-> NoRecord]
  /\ queue' = [s \in Servers |-> <<>>]
  /\ pc' = [c \in Calls |-> IF Outstanding(c) THEN "done" ELSE pc[c]]
  /\ refused' = {}
  /\ UNCHANGED <<now, host, req, cmsVars, spent, closed, before, outlived, late>>

RequestStep(r) == Issue(r, "new")
LoginStep(l) ==
  \/ LoginCall(l) \/ CmsLogin(l) \/ LoginAnswer(l) \/ LoginStore(l)
  \/ Issue(l, "conf") \/ Remember(l)

Next ==
  \/ \E r \in Requests : RequestStep(r)
  \/ \E l \in Logins : LoginStep(l)
  \/ \E c \in Calls : CmsReads(c) \/ ReadAnswer(c) \/ ReadFails(c)
  \/ \E d \in Disconnects : Disconnect(d)
  \/ \E m \in Moves, s \in Servers : MoveHost(m, s)
  \/ \E t \in Tokens : Sweep(t)
  \/ \E s \in Servers : TakenOver(s)
  \/ Tick
  \/ Restart

Spec == Init /\ [][Next]_vars

-----------------------------------------------------------------------------
(* Properties *)

\* A session the user closed is not shown as open until the user logs in again
\* or CMS accepts a request issued after the disconnect.  Requests waiting in the
\* queue or at CMS at that moment do not count, however late they are answered,
\* unless a sweep has dropped the closed record before the last of them ended
\* (outlived).  A host moved to another server is out of this: its record is dropped.
ClosedStaysClosed == closed /\ ~outlived => SessionExpiresAt = 0

\* What cms-token-activity.ts:49-51 says without that exception: "A request issued
\* before the user disconnected does not reopen the session, even if it was sent or
\* answered afterwards".
ClosedWhateverIsSwept == closed => SessionExpiresAt = 0

\* Where the server's active time is known, a token is never shown as good for longer
\* than CMS keeps it, but for the time that answer took in which CMS last accepted
\* it: not after a restart, a sweep, or calls that got no answer.
NeverShownTooLong ==
  SessionExpiresAt # 0 /\ host.active # 0 =>
    SessionExpiresAt <= lastUse[host.token] + late + CmsActive

\* The same without knowing it: "never an expired one look live".  The default may be
\* longer than the time of the server.
NeverShownPastCms ==
  SessionExpiresAt # 0 => SessionExpiresAt <= lastUse[host.token] + late + CmsActive

\* Once CMS called a token invalid it is not shown as good again, however long
\* its record then lies idle and whatever else is answered, as long as the host is
\* not moved to another server, to which a token of another means nothing.
RejectedStaysRejected == host.token \in refused => SessionExpiresAt = 0

\* A record of a rejected token, which no sweep takes, goes with the token: "they
\* go when the host logs in again or is removed".
RejectedRecordsGo ==
  \A t \in Tokens : activity[t].rejected => t = host.token

\* A session is shown only for the server it was opened on: "a different server or
\* CMS account makes the stored session meaningless".
SessionOfThisServer ==
  SessionExpiresAt # 0 => home[host.token] = host.server
=============================================================================

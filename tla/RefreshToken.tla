---------------------------- MODULE RefreshToken ----------------------------
(***************************************************************************)
(* The sessions of the API server: RefreshTokenService and the requests of *)
(* AuthService that use it.                                                *)
(*                                                                         *)
(* A refresh token is a file.  A refresh takes the file by renaming it,    *)
(* writes a new token of the same family, records the old one as consumed  *)
(* and removes the renamed file; if a write fails it renames the file      *)
(* back.  A token that is only found among the consumed ones was used      *)
(* before: all files of its family are removed.  An hourly purge removes   *)
(* expired files, and both sweeps remove files that do not parse.  There   *)
(* is no lock; an action is what happens between two awaits.               *)
(***************************************************************************)
EXTENDS Naturals

CONSTANTS
  Tokens,      \* refresh tokens, a family is named by its first
  Early,       \* tokens of an earlier process, each given to a client by a login
  Requests,    \* calls of login, refresh and logout
  NoToken,
  Purge,       \* the purge, as a sweeper
  MaxFaults    \* bound: crashes, and file operations of requests and sweeps that fail

ASSUME EarlyAssumption == Early \subseteq Tokens
ASSUME NamesAssumption == NoToken \notin Tokens /\ Purge \notin Requests
ASSUME TokenBoundsAssumption == MaxFaults \in Nat

VARIABLES
  disk,      \* every file: absent, opened for writing and still empty, or whole
  family,    \* the familyId in a token's file; NoToken: the token is not made yet
  expired,   \* tokens past their expiresAt
  rpc,       \* where a request stands
  tok,       \* the token it was given
  new,       \* the token it makes
  ppc,       \* where the purge stands
  pnow,      \* the tokens expired when it took the time
  todo,      \* the files a sweep has listed and not yet read
  victim,    \* the file it is about to unlink
  given, succ,  \* history: tokens returned to clients, and what they were exchanged for
  loggedOut, \* history: tokens of logouts
  revoked,   \* history: families revoked (begun), and those whose sweep is done
  racing,    \* history: tokens whose rotation was under way while their family was swept
  swept,     \* history: good tokens a sweep took for broken files
  lost,      \* history: tokens held by a rotation that a crash, or a failed rename back, cut short
  faults

fileVars    == <<disk, family, expired>>
requestVars == <<rpc, tok, new>>
purgeVars   == <<ppc, pnow>>
sweepVars   == <<todo, victim>>
clientVars  == <<given, succ>>
history     == <<loggedOut, revoked, racing, swept, lost>>
bounds      == faults
vars == <<fileVars, requestVars, purgeVars, sweepVars, clientVars, history, bounds>>

-----------------------------------------------------------------------------
(* Values *)

\* <hash>.json, the consumed record of a token, and <hash>.consuming.<nonce>.json
\* of a refresh, whose nonce is its own.
RootFiles     == ({"active"} \X Tokens) \cup ({"consuming"} \X Requests)
ConsumedFiles == {"consumed"} \X Tokens
Files         == RootFiles \cup ConsumedFiles
NoFile        == <<"none", NoToken>>
Contents      == {"none", "empty", "whole"}

Sweepers == Requests \cup {Purge}

\* From the rename to the end: the refresh that holds the token's file.
Holding == {"read", "open", "fill", "commitOpen", "commitFill", "unlink", "rollback"}
Pc      == {"new", "loginOpen", "loginFill", "rename", "readConsumed", "list", "sweep",
            "logout", "ended"} \cup Holding

Holds(r, t)     == rpc[r] \in Holding /\ tok[r] = t
Present(f)      == disk[f] # "none"
Sweeping(r)     == rpc[r] = "sweep"
BeingSwept(fam) == \E r \in Requests : Sweeping(r) /\ family[tok[r]] = fam

\* The token a file is about.
Subject(f) == IF f[1] = "consuming" THEN tok[f[2]] ELSE f[2]

Goto(r, label) == rpc' = [rpc EXCEPT ![r] = label]

TypeOK ==
  /\ disk \in [Files -> Contents]
  /\ family \in [Tokens -> Tokens \cup {NoToken}]
  /\ expired \subseteq Tokens
  /\ rpc \in [Requests -> Pc]
  /\ tok \in [Requests -> Tokens \cup {NoToken}]
  /\ new \in [Requests -> Tokens \cup {NoToken}]
  /\ ppc \in {"off", "root", "consumed"} /\ pnow \subseteq Tokens
  /\ todo \in [Sweepers -> SUBSET Files]
  /\ victim \in [Sweepers -> Files \cup {NoFile}]
  /\ given \subseteq Tokens /\ succ \in [Tokens -> Tokens \cup {NoToken}]
  /\ loggedOut \subseteq Tokens /\ swept \subseteq Tokens /\ lost \subseteq Tokens
  /\ racing \subseteq Tokens
  /\ revoked \in [begun : SUBSET Tokens, done : SUBSET Tokens]
  /\ faults \in 0..MaxFaults

Init ==
  /\ disk = [f \in Files |-> IF f[1] = "active" /\ f[2] \in Early THEN "whole" ELSE "none"]
  /\ family = [t \in Tokens |-> IF t \in Early THEN t ELSE NoToken]
  /\ expired = {}
  /\ rpc = [r \in Requests |-> "new"]
  /\ tok = [r \in Requests |-> NoToken]
  /\ new = [r \in Requests |-> NoToken]
  /\ ppc = "off" /\ pnow = {}
  /\ todo = [s \in Sweepers |-> {}]
  /\ victim = [s \in Sweepers |-> NoFile]
  /\ given = Early
  /\ succ = [t \in Tokens |-> NoToken]
  /\ loggedOut = {} /\ racing = {} /\ swept = {} /\ lost = {}
  /\ revoked = [begun |-> {}, done |-> {}]
  /\ faults = 0

-----------------------------------------------------------------------------
(* fs.writeFile creates or truncates a file, then fills it; a file unlinked  *)
(* in between stays away.                                                    *)

Opened(f) == [disk EXCEPT ![f] = "empty"]
Filled(f) == [disk EXCEPT ![f] = IF @ = "empty" THEN "whole" ELSE @]

\* create: random bytes nobody has seen before.
OpenNew(r, u, fam) ==
  /\ family[u] = NoToken
  /\ family' = [family EXCEPT ![u] = fam]
  /\ new' = [new EXCEPT ![r] = u]
  /\ disk' = Opened(<<"active", u>>)

\* A write throws.
Fault == faults < MaxFaults /\ faults' = faults + 1

-----------------------------------------------------------------------------
(* login and logout *)

\* login, once the password was found right.
Login(r) ==
  /\ rpc[r] = "new"
  /\ Goto(r, "loginOpen")
  /\ UNCHANGED <<fileVars, tok, new, purgeVars, sweepVars, clientVars, history, bounds>>

LoginOpen(r) ==
  /\ rpc[r] = "loginOpen"
  /\ \E u \in Tokens : OpenNew(r, u, u)
  /\ Goto(r, "loginFill")
  /\ UNCHANGED <<expired, tok, purgeVars, sweepVars, clientVars, history, bounds>>

\* Variant: the answer takes the token from the request.
LoginFillOld(r) ==
  /\ rpc[r] = "loginFill"
  /\ disk' = Filled(<<"active", new[r]>>)
  /\ given' = given \cup {tok[r]}
  /\ Goto(r, "ended")
  /\ UNCHANGED <<family, expired, tok, new, purgeVars, sweepVars, succ, history, bounds>>

LoginFill(r) ==
  /\ rpc[r] = "loginFill"
  /\ disk' = Filled(<<"active", new[r]>>)
  /\ given' = given \cup {new[r]}
  /\ Goto(r, "ended")
  /\ UNCHANGED <<family, expired, tok, new, purgeVars, sweepVars, succ, history, bounds>>

\* An error that ends the request and leaves the files: in a login, before a
\* refresh has taken the token's file, in the readdir of a revocation, or in the
\* unlink of a logout, which is ignored.
RequestFails(r) ==
  /\ rpc[r] \in {"loginOpen", "loginFill", "rename", "readConsumed", "list", "logout"} /\ Fault
  /\ Goto(r, "ended")
  /\ UNCHANGED <<fileVars, tok, new, purgeVars, sweepVars, clientVars, history>>

\* Any holder of a token, its client or a thief, may present it at any time.
CallWith(r, t, label) ==
  /\ rpc[r] = "new" /\ t \in given
  /\ tok' = [tok EXCEPT ![r] = t]
  /\ Goto(r, label)
  /\ UNCHANGED <<fileVars, new, purgeVars, sweepVars, clientVars, history, bounds>>

LogoutCall(r, t)  == CallWith(r, t, "logout")
RefreshCall(r, t) == CallWith(r, t, "rename")

\* revoke: unlinks the active file, if it is there.
Logout(r) ==
  /\ rpc[r] = "logout"
  /\ disk' = [disk EXCEPT ![<<"active", tok[r]>>] = "none"]
  /\ loggedOut' = loggedOut \cup {tok[r]}
  /\ Goto(r, "ended")
  /\ UNCHANGED <<family, expired, tok, new, purgeVars, sweepVars, clientVars,
                 revoked, racing, swept, lost, bounds>>

-----------------------------------------------------------------------------
(* refresh *)

\* Variant: the file is copied, not renamed.
RenameCopies(r) ==
  /\ rpc[r] = "rename"
  /\ IF Present(<<"active", tok[r]>>)
       THEN /\ disk' = [disk EXCEPT ![<<"consuming", r>>] = disk[<<"active", tok[r]>>]]
            /\ Goto(r, "read")
       ELSE UNCHANGED disk /\ Goto(r, "readConsumed")
  /\ UNCHANGED <<family, expired, tok, new, purgeVars, sweepVars, clientVars, history, bounds>>

\* consumeForRotation takes the file by renaming it; of several only one can.
\* The others look for the consumed record.
Rename(r) ==
  /\ rpc[r] = "rename"
  /\ IF Present(<<"active", tok[r]>>)
       THEN /\ disk' = [disk EXCEPT ![<<"active", tok[r]>>] = "none",
                                    ![<<"consuming", r>>] = disk[<<"active", tok[r]>>]]
            /\ racing' = racing \cup {t \in {tok[r]} : BeingSwept(family[t])}
            /\ Goto(r, "read")
       ELSE UNCHANGED <<disk, racing>> /\ Goto(r, "readConsumed")
  /\ UNCHANGED <<family, expired, tok, new, purgeVars, sweepVars, clientVars,
                 loggedOut, revoked, swept, lost, bounds>>

\* An unexpired record: the token was used before, its family goes.  None, an
\* expired one or a half-written one: refused.
ReadConsumed(r) ==
  /\ rpc[r] = "readConsumed"
  /\ IF disk[<<"consumed", tok[r]>>] = "whole" /\ tok[r] \notin expired
       THEN Goto(r, "list")
       ELSE Goto(r, "ended")
  /\ UNCHANGED <<fileVars, tok, new, purgeVars, sweepVars, clientVars, history, bounds>>

\* The file it renamed: gone or broken (its family was revoked), expired or good.
ReadTaken(r) ==
  /\ rpc[r] = "read"
  /\ IF disk[<<"consuming", r>>] = "whole" /\ tok[r] \notin expired
       THEN Goto(r, "open") /\ UNCHANGED disk
       ELSE Goto(r, "ended") /\ disk' = [disk EXCEPT ![<<"consuming", r>>] = "none"]
  /\ UNCHANGED <<family, expired, tok, new, purgeVars, sweepVars, clientVars, history, bounds>>

\* An error of the read is taken for a broken file.
ReadTakenFails(r) ==
  /\ rpc[r] = "read" /\ Fault
  /\ disk' = [disk EXCEPT ![<<"consuming", r>>] = "none"]
  /\ lost' = lost \cup {tok[r]}
  /\ Goto(r, "ended")
  /\ UNCHANGED <<family, expired, tok, new, purgeVars, sweepVars, clientVars,
                 loggedOut, revoked, racing, swept>>

\* issueTokenPair with the family of the token.
Open(r) ==
  /\ rpc[r] = "open"
  /\ \E u \in Tokens :
       /\ OpenNew(r, u, family[tok[r]])
       /\ racing' = racing \cup {t \in {u} : tok[r] \in racing}
  /\ Goto(r, "fill")
  /\ UNCHANGED <<expired, tok, purgeVars, sweepVars, clientVars,
                 loggedOut, revoked, swept, lost, bounds>>

Fill(r) ==
  /\ rpc[r] = "fill"
  /\ disk' = Filled(<<"active", new[r]>>)
  /\ Goto(r, "commitOpen")
  /\ UNCHANGED <<family, expired, tok, new, purgeVars, sweepVars, clientVars, history, bounds>>

\* commitConsume
CommitOpen(r) ==
  /\ rpc[r] = "commitOpen"
  /\ disk' = Opened(<<"consumed", tok[r]>>)
  /\ Goto(r, "commitFill")
  /\ UNCHANGED <<family, expired, tok, new, purgeVars, sweepVars, clientVars, history, bounds>>

CommitFill(r) ==
  /\ rpc[r] = "commitFill"
  /\ disk' = Filled(<<"consumed", tok[r]>>)
  /\ Goto(r, "unlink")
  /\ UNCHANGED <<family, expired, tok, new, purgeVars, sweepVars, clientVars, history, bounds>>

\* The last step, and the answer with the new pair.
Unlink(r) ==
  /\ rpc[r] = "unlink"
  /\ disk' = [disk EXCEPT ![<<"consuming", r>>] = "none"]
  /\ given' = given \cup {new[r]}
  /\ succ' = [succ EXCEPT ![tok[r]] = new[r]]
  /\ Goto(r, "ended")
  /\ UNCHANGED <<family, expired, tok, new, purgeVars, sweepVars, history, bounds>>

\* The unlink may fail; the client gets its answer.
UnlinkFails(r) ==
  /\ rpc[r] = "unlink" /\ Fault
  /\ given' = given \cup {new[r]}
  /\ succ' = [succ EXCEPT ![tok[r]] = new[r]]
  /\ Goto(r, "ended")
  /\ UNCHANGED <<fileVars, tok, new, purgeVars, sweepVars, history>>

RefreshFails(r) ==
  /\ rpc[r] \in {"open", "fill", "commitOpen", "commitFill"} /\ Fault
  /\ Goto(r, "rollback")
  /\ UNCHANGED <<fileVars, tok, new, purgeVars, sweepVars, clientVars, history>>

\* Variant: a failed refresh drops the file it took.
RollbackDrops(r) ==
  /\ rpc[r] = "rollback"
  /\ disk' = [disk EXCEPT ![<<"consuming", r>>] = "none"]
  /\ Goto(r, "ended")
  /\ UNCHANGED <<family, expired, tok, new, purgeVars, sweepVars, clientVars, history, bounds>>

\* rollbackConsume renames the file back, if it is still there.  The new token's
\* file stays; nobody was given that token.
Rollback(r) ==
  /\ rpc[r] = "rollback"
  /\ IF Present(<<"consuming", r>>)
       THEN disk' = [disk EXCEPT ![<<"active", tok[r]>>] = disk[<<"consuming", r>>],
                                 ![<<"consuming", r>>] = "none"]
       ELSE UNCHANGED disk
  /\ Goto(r, "ended")
  /\ UNCHANGED <<family, expired, tok, new, purgeVars, sweepVars, clientVars, history, bounds>>

\* A rename back that throws is ignored.  What made the refresh fail may well be
\* the reason, so this takes no fault of its own.
RollbackFails(r) ==
  /\ rpc[r] = "rollback"
  /\ lost' = lost \cup {tok[r]}
  /\ Goto(r, "ended")
  /\ UNCHANGED <<fileVars, tok, new, purgeVars, sweepVars, clientVars,
                 loggedOut, revoked, racing, swept, bounds>>

-----------------------------------------------------------------------------
(* The sweeps: revokeFamily of a refresh, and purgeExpired *)

\* Variant: a reuse costs the token presented, not its family.
DoomedOne(s, f) ==
  \/ disk[f] # "whole"
  \/ Subject(f) \in IF s = Purge THEN pnow ELSE {tok[s]}

\* What a sweep removes, once it has read the file: its own kind, and whatever
\* does not parse or is not there.
Doomed(s, f) ==
  \/ disk[f] # "whole"
  \/ IF s = Purge THEN Subject(f) \in pnow ELSE family[Subject(f)] = family[tok[s]]

SweepRead(s) ==
  /\ victim[s] = NoFile
  /\ \E f \in todo[s] :
       /\ todo' = [todo EXCEPT ![s] = @ \ {f}]
       /\ victim' = [victim EXCEPT ![s] = IF Doomed(s, f) THEN f ELSE NoFile]
  /\ UNCHANGED <<fileVars, requestVars, purgeVars, clientVars, history, bounds>>

\* An error of the read is taken for a broken file here too.
SweepReadFails(s) ==
  /\ victim[s] = NoFile /\ Fault
  /\ \E f \in todo[s] :
       /\ todo' = [todo EXCEPT ![s] = @ \ {f}]
       /\ victim' = [victim EXCEPT ![s] = f]
  /\ UNCHANGED <<fileVars, requestVars, purgeVars, clientVars, history>>

\* By now the file may be another one than was read: filled, or renamed back.
SweepUnlink(s) ==
  /\ victim[s] # NoFile
  /\ disk' = [disk EXCEPT ![victim[s]] = "none"]
  /\ victim' = [victim EXCEPT ![s] = NoFile]
  /\ swept' = swept \cup
       {t \in {Subject(victim[s])} :
          /\ Present(victim[s])
          /\ IF s = Purge THEN t \notin pnow ELSE family[t] # family[tok[s]]}
  /\ UNCHANGED <<family, expired, requestVars, purgeVars, todo, clientVars,
                 loggedOut, revoked, racing, lost, bounds>>

SweepOver(s) == todo[s] = {} /\ victim[s] = NoFile

List(s, files) == todo' = [todo EXCEPT ![s] = {f \in files : Present(f)}]

\* Variant: the consumed records of the family are revoked with it.
RevokeListAll(r) ==
  /\ rpc[r] = "list"
  /\ List(r, Files)
  /\ revoked' = [revoked EXCEPT !.begun = @ \cup {family[tok[r]]}]
  /\ Goto(r, "sweep")
  /\ UNCHANGED <<fileVars, tok, new, purgeVars, victim, clientVars,
                 loggedOut, racing, swept, lost, bounds>>

\* revokeFamily lists the files once.
RevokeList(r) ==
  LET fam == family[tok[r]] IN
  /\ rpc[r] = "list"
  /\ List(r, RootFiles)
  /\ revoked' = [revoked EXCEPT !.begun = @ \cup {fam}]
  /\ racing' = racing \cup
       UNION {{tok[q], new[q]} \ {NoToken} :
                q \in {q \in Requests : rpc[q] \in Holding /\ family[tok[q]] = fam}}
  /\ Goto(r, "sweep")
  /\ UNCHANGED <<fileVars, tok, new, purgeVars, victim, clientVars,
                 loggedOut, swept, lost, bounds>>

RevokeDone(r) ==
  /\ rpc[r] = "sweep" /\ SweepOver(r)
  /\ revoked' = [revoked EXCEPT !.done = @ \cup {family[tok[r]]}]
  /\ Goto(r, "ended")
  /\ UNCHANGED <<fileVars, tok, new, purgeVars, sweepVars, clientVars,
                 loggedOut, racing, swept, lost, bounds>>

\* Variant: files named .consuming. are left to their refresh.
PurgeListActive ==
  /\ ppc = "off"
  /\ List(Purge, {"active"} \X Tokens)
  /\ pnow' = expired
  /\ ppc' = "root"
  /\ UNCHANGED <<fileVars, requestVars, victim, clientVars, history, bounds>>

\* purgeExpired, at the start and then hourly.
PurgeList ==
  /\ ppc = "off"
  /\ List(Purge, RootFiles)
  /\ pnow' = expired
  /\ ppc' = "root"
  /\ UNCHANGED <<fileVars, requestVars, victim, clientVars, history, bounds>>

PurgeListConsumed ==
  /\ ppc = "root" /\ SweepOver(Purge)
  /\ List(Purge, ConsumedFiles)
  /\ ppc' = "consumed"
  /\ UNCHANGED <<fileVars, requestVars, pnow, victim, clientVars, history, bounds>>

PurgeDone ==
  /\ ppc = "consumed" /\ SweepOver(Purge)
  /\ ppc' = "off" /\ pnow' = {}
  /\ UNCHANGED <<fileVars, requestVars, sweepVars, clientVars, history, bounds>>

-----------------------------------------------------------------------------
(* Time and crashes *)

\* Two weeks after a token was made.
Expire(t) ==
  /\ family[t] # NoToken /\ t \notin expired
  /\ expired' = expired \cup {t}
  /\ UNCHANGED <<disk, family, requestVars, purgeVars, sweepVars, clientVars, history, bounds>>

Crash ==
  /\ Fault
  /\ rpc' = [r \in Requests |-> IF rpc[r] = "new" THEN "new" ELSE "ended"]
  /\ lost' = lost \cup {t \in Tokens : \E r \in Requests : Holds(r, t)}
  /\ ppc' = "off" /\ pnow' = {}
  /\ todo' = [s \in Sweepers |-> {}]
  /\ victim' = [s \in Sweepers |-> NoFile]
  /\ UNCHANGED <<fileVars, tok, new, clientVars, loggedOut, revoked, racing, swept>>

RequestStep(r) ==
  \/ Login(r) \/ LoginOpen(r) \/ LoginFill(r) \/ RequestFails(r)
  \/ \E t \in Tokens : LogoutCall(r, t) \/ RefreshCall(r, t)
  \/ Logout(r)
  \/ Rename(r) \/ ReadConsumed(r) \/ ReadTaken(r) \/ ReadTakenFails(r)
  \/ Open(r) \/ Fill(r)
  \/ CommitOpen(r) \/ CommitFill(r) \/ Unlink(r) \/ UnlinkFails(r)
  \/ RefreshFails(r) \/ Rollback(r) \/ RollbackFails(r)
  \/ RevokeList(r) \/ RevokeDone(r)

SweepStep(s) == SweepRead(s) \/ SweepReadFails(s) \/ SweepUnlink(s)
PurgeStep    == PurgeList \/ PurgeListConsumed \/ PurgeDone

Next ==
  \/ \E r \in Requests : RequestStep(r)
  \/ \E s \in Sweepers : SweepStep(s)
  \/ PurgeStep
  \/ \E t \in Tokens : Expire(t)
  \/ Crash

Spec == Init /\ [][Next]_vars

\* Steps begun go on and the timer fires; nobody need call.
FairSpec ==
  /\ Spec
  /\ \A r \in Requests : WF_vars(RequestStep(r) /\ rpc[r] # "new")
  /\ \A s \in Sweepers : WF_vars(SweepStep(s))
  /\ WF_vars(PurgeStep)

-----------------------------------------------------------------------------
(* Properties *)

\* Sessions are chains: no token is exchanged twice, and only tokens a client was
\* given are, whatever refreshes, faults, sweeps and crashes come together.
Rotation == INSTANCE TokenRotation
ImplementsRotation == Rotation!Spec

\* A client that was given a token and has not used it up can go on with it: it is
\* gone only after it expired, after a logout, a detected reuse in its family, or
\* if a rotation of it was cut short by a crash or its file could not be read.
TokenStaysGood ==
  \A t \in given :
    \/ disk[<<"active", t>>] = "whole"
    \/ succ[t] # NoToken
    \/ \E r \in Requests : Holds(r, t)
    \/ t \in expired \cup loggedOut \cup swept \cup lost
    \/ family[t] \in revoked.begun

\* A token exchanged stays known as such until it expires, so that its second use
\* is noticed; unless a sweep took the record for a broken file.
ReuseIsNoticed ==
  \A t \in Tokens :
    succ[t] # NoToken /\ t \notin expired \cup swept =>
      disk[<<"active", t>>] = "none" /\ disk[<<"consumed", t>>] = "whole"

\* Once the sweep of a reuse is done, the family is out: what is left of it goes
\* back to a rotation that was under way during the sweep.
FamilyRevoked ==
  \A t \in Tokens :
    family[t] \in revoked.done /\ disk[<<"active", t>>] = "whole" => t \in racing

\* Nothing stays of expired tokens, whatever was cut short: the purge finds the
\* files of refreshes that a crash stopped.
ExpiredFilesGo ==
  []<>(\A f \in Files : Subject(f) \in expired => ~Present(f))
=============================================================================

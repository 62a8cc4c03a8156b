------------------------------ MODULE DbLogin ------------------------------
(***************************************************************************)
(* Logins to one database of one host of one user: DatabaseUserService,    *)
(* and the host login of CmsAuthService that ends them.                    *)
(*                                                                         *)
(* CMS keeps a database login per host token and says nothing when it      *)
(* ends.  The server remembers the last one in dbLoginCache and lets a     *)
(* request through (ensureDbLogin) while the host's token is still the one *)
(* it was made under.  A new host login starts a background re-login with  *)
(* the saved profile.  A logout removes the entry, raises a generation     *)
(* that logins under way compare, and marks the profile.                   *)
(*                                                                         *)
(* Reads and updates of the user file take its lock.  `busy` is the holder *)
(* of an update between its write and the code that follows its await; no  *)
(* other section of the lock comes in between.                             *)
(***************************************************************************)
EXTENDS Naturals

CONSTANTS
  Logins,      \* calls of loginDatabase
  HostLogins,  \* host logins; each is also the token CMS answers it with
  Logouts,     \* calls of logoutDatabase
  Forgets,     \* calls of deleteDbProfile
  Saves,       \* calls of saveDatabaseProfile
  Checks,      \* calls of ensureDbLogin
  DbUsers,     \* database user names
  FirstToken,  \* the host's token at the start
  None

ASSUME CallsAssumption ==
  /\ None \notin Logins \cup HostLogins \cup Logouts \cup Forgets \cup {FirstToken}
  /\ FirstToken \notin HostLogins
  /\ Logouts \cap Forgets = {} /\ HostLogins \cap (Logouts \cup Forgets) = {}

VARIABLES
  token,      \* user file: the host's token
  profile,    \* user file: the saved profile of the database
  busy,
  cache,      \* dbLoginCache
  old,        \* logins made longer ago than DBMT_LOGIN_TTL_MS
  gen,        \* logoutGenerations
  pending,    \* pendingRelogins: the host login whose re-login it holds
  cmsToken,   \* CMS: the token it accepts
  conlist,    \* CMS: the tokens a database login was made under
  lpc, login, \* a login: where it stands, and what it remembers
  hpc,        \* a host login
  rpc, relog, \* its re-login: where it stands, and what it remembers
  opc, fpc,   \* logouts and profile deletions
  cpc, cwait, \* a check, and the re-login it waits for
  saved,      \* calls of saveDatabaseProfile made
  resaved,    \* history: the profile was saved since the last logout
  overtaken   \* history: a logout came while a re-login was past its last look at gen

fileVars  == <<token, profile, busy>>
cacheVars == <<cache, old, gen, pending>>
cmsVars   == <<cmsToken, conlist>>
loginVars == <<lpc, login>>
hostVars  == <<hpc, rpc, relog>>
otherVars == <<opc, fpc, cpc, cwait, saved>>
history   == <<resaved, overtaken>>
vars == <<fileVars, cacheVars, cmsVars, loginVars, hostVars, otherVars, history>>

-----------------------------------------------------------------------------
Tokens == HostLogins \cup {FirstToken}

NoEntry == [made |-> None, token |-> None, user |-> None]
\* A cache entry: the login that made it, the token it is for, and its user.
\* The object a login puts and the one a re-login puts differ in the token.
Entry   == [made : Logins, token : Tokens, user : DbUsers]

NoProfile == [user |-> None, out |-> FALSE]
Profile   == [user : DbUsers, out : BOOLEAN] \cup {NoProfile}

\* What a login remembers: the generation and token it read first, the token
\* its request is sent with, its user, and whether it saw the logged-out mark.
LoginMemory == [gen : Nat, token : Tokens, sentWith : Tokens, user : DbUsers \cup {None},
                out : BOOLEAN]

\* What a re-login remembers: the entry it is to replace, the generation, the
\* re-login it comes after, and the token its request is sent with.
ReloginMemory == [entry : Entry \cup {NoEntry}, gen : Nat,
                  after : HostLogins \cup {None}, sentWith : Tokens]

LoginPc   == {"new", "host", "send", "sent", "ok", "unmark", "done", "refused"}
HostPc    == {"new", "answered", "stored", "done"}
ReloginPc == {"off", "wait", "host", "send", "sent", "ok", "recheck", "done"}

TypeOK ==
  /\ token \in Tokens /\ cmsToken \in Tokens /\ conlist \subseteq Tokens
  /\ profile \in Profile
  /\ busy \in HostLogins \cup Logouts \cup Forgets \cup {None}
  /\ cache \in Entry \cup {NoEntry}
  /\ old \subseteq Logins /\ gen \in Nat
  /\ pending \in HostLogins \cup {None}
  /\ lpc \in [Logins -> LoginPc] /\ login \in [Logins -> LoginMemory]
  /\ hpc \in [HostLogins -> HostPc]
  /\ rpc \in [HostLogins -> ReloginPc] /\ relog \in [HostLogins -> ReloginMemory]
  /\ opc \in [Logouts -> {"new", "marked", "done"}]
  /\ fpc \in [Forgets -> {"new", "dropped", "done"}]
  /\ cpc \in [Checks -> {"new", "wait", "passed", "refused"}]
  /\ cwait \in [Checks -> HostLogins \cup {None}]
  /\ saved \subseteq Saves
  /\ resaved \in BOOLEAN /\ overtaken \in BOOLEAN

Init ==
  /\ token = FirstToken /\ cmsToken = FirstToken /\ conlist = {}
  /\ profile \in Profile
  /\ busy = None
  /\ cache = NoEntry /\ old = {} /\ gen = 0 /\ pending = None
  /\ lpc = [l \in Logins |-> "new"]
  /\ login = [l \in Logins |-> [gen |-> 0, token |-> FirstToken, sentWith |-> FirstToken,
                                user |-> None, out |-> FALSE]]
  /\ hpc = [h \in HostLogins |-> "new"]
  /\ rpc = [h \in HostLogins |-> "off"]
  /\ relog = [h \in HostLogins |-> [entry |-> NoEntry, gen |-> 0, after |-> None,
                                    sentWith |-> FirstToken]]
  /\ opc = [o \in Logouts |-> "new"]
  /\ fpc = [f \in Forgets |-> "new"]
  /\ cpc = [c \in Checks |-> "new"] /\ cwait = [c \in Checks |-> None]
  /\ saved = {}
  /\ resaved = FALSE /\ overtaken = FALSE

Unlocked == busy = None

-----------------------------------------------------------------------------
(* loginDatabase *)

LoginGoto(l, label) == lpc' = [lpc EXCEPT ![l] = label]

LoginCall(l) ==
  /\ lpc[l] = "new"
  /\ login' = [login EXCEPT ![l].gen = gen]
  /\ LoginGoto(l, "host")
  /\ UNCHANGED <<fileVars, cacheVars, cmsVars, hostVars, otherVars, history>>

\* Variant: a profile that is not there is used as one with no user.
LoginReadHostAnyProfile(l) ==
  /\ lpc[l] = "host" /\ Unlocked
  /\ \E u \in DbUsers \cup {profile.user} :
       login' = [login EXCEPT ![l].token = token, ![l].user = u, ![l].out = profile.out]
  /\ LoginGoto(l, "send")
  /\ UNCHANGED <<fileVars, cacheVars, cmsVars, hostVars, otherVars, history>>

\* findHostInternal and DBAuthResolver: the client's credentials, else the
\* profile's, else refused.
LoginReadHost(l) ==
  /\ lpc[l] = "host" /\ Unlocked
  /\ \/ \E u \in DbUsers \cup ({profile.user} \ {None}) :
          /\ login' = [login EXCEPT ![l].token = token, ![l].user = u, ![l].out = profile.out]
          /\ LoginGoto(l, "send")
     \/ /\ profile = NoProfile
        /\ LoginGoto(l, "refused") /\ UNCHANGED login
  /\ UNCHANGED <<fileVars, cacheVars, cmsVars, hostVars, otherVars, history>>

\* executeCmsRequest reads the host once more.
LoginSend(l) ==
  /\ lpc[l] = "send" /\ Unlocked
  /\ login' = [login EXCEPT ![l].sentWith = token]
  /\ LoginGoto(l, "sent")
  /\ UNCHANGED <<fileVars, cacheVars, cmsVars, hostVars, otherVars, history>>

\* CMS: a token that is not the live one is turned away; a password may be wrong.
LoginCms(l) ==
  /\ lpc[l] = "sent"
  /\ \/ /\ login[l].sentWith = cmsToken
        /\ conlist' = conlist \cup {cmsToken}
        /\ LoginGoto(l, "ok")
     \/ LoginGoto(l, "refused") /\ UNCHANGED conlist
  /\ UNCHANGED <<fileVars, cacheVars, cmsToken, login, hostVars, otherVars, history>>

\* Variant: the generation is not compared.
LoginDoneAnyGeneration(l) ==
  /\ lpc[l] = "ok"
  /\ cache' = [made |-> l, token |-> login[l].token, user |-> login[l].user]
  /\ LoginGoto(l, IF login[l].out THEN "unmark" ELSE "done")
  /\ UNCHANGED <<fileVars, old, gen, pending, cmsVars, login, hostVars, otherVars, history>>

\* Variant: the entry takes the host's token of now, not the one read first.
LoginDoneTokenOfNow(l) ==
  /\ lpc[l] = "ok"
  /\ IF gen # login[l].gen
       THEN LoginGoto(l, "refused") /\ UNCHANGED cache
       ELSE /\ cache' = [made |-> l, token |-> token, user |-> login[l].user]
            /\ LoginGoto(l, IF login[l].out THEN "unmark" ELSE "done")
  /\ UNCHANGED <<fileVars, old, gen, pending, cmsVars, login, hostVars, otherVars, history>>

LoginDone(l) ==
  /\ lpc[l] = "ok"
  /\ IF gen # login[l].gen
       THEN LoginGoto(l, "refused") /\ UNCHANGED cache
       ELSE /\ cache' = [made |-> l, token |-> login[l].token, user |-> login[l].user]
            /\ LoginGoto(l, IF login[l].out THEN "unmark" ELSE "done")
  /\ UNCHANGED <<fileVars, old, gen, pending, cmsVars, login, hostVars, otherVars, history>>

\* Variant: the generation is not compared again under the lock.
LoginUnmarkAnyGeneration(l) ==
  /\ lpc[l] = "unmark" /\ Unlocked
  /\ profile' = [profile EXCEPT !.out = FALSE]
  /\ LoginGoto(l, "done")
  /\ UNCHANGED <<token, busy, cacheVars, cmsVars, login, hostVars, otherVars, history>>

\* setProfileLoggedOut(false, generation)
LoginUnmark(l) ==
  /\ lpc[l] = "unmark" /\ Unlocked
  /\ profile' = IF gen = login[l].gen THEN [profile EXCEPT !.out = FALSE] ELSE profile
  /\ LoginGoto(l, "done")
  /\ UNCHANGED <<token, busy, cacheVars, cmsVars, login, hostVars, otherVars, history>>

\* Two hours after the login.
Age(l) ==
  /\ lpc[l] \in {"unmark", "done"} /\ l \notin old
  /\ old' = old \cup {l}
  /\ UNCHANGED <<fileVars, cache, gen, pending, cmsVars, loginVars, hostVars, otherVars, history>>

-----------------------------------------------------------------------------
(* logoutDatabase, deleteDbProfile, saveDatabaseProfile *)

LogoutMark(o) ==
  /\ opc[o] = "new" /\ Unlocked
  /\ profile' = IF profile = NoProfile THEN profile ELSE [profile EXCEPT !.out = TRUE]
  /\ busy' = o
  /\ opc' = [opc EXCEPT ![o] = "marked"]
  /\ UNCHANGED <<token, cacheVars, cmsVars, loginVars, hostVars, fpc, cpc, cwait, saved, history>>

LogoutDone(o) ==
  /\ opc[o] = "marked"
  /\ busy' = None
  /\ gen' = gen + 1 /\ cache' = NoEntry /\ pending' = None
  /\ resaved' = FALSE
  /\ overtaken' = (overtaken \/ \E h \in HostLogins : rpc[h] = "recheck")
  /\ opc' = [opc EXCEPT ![o] = "done"]
  /\ UNCHANGED <<token, profile, old, cmsVars, loginVars, hostVars, fpc, cpc, cwait, saved>>

ForgetProfile(f) ==
  /\ fpc[f] = "new" /\ Unlocked
  /\ profile' = NoProfile
  /\ busy' = f
  /\ fpc' = [fpc EXCEPT ![f] = "dropped"]
  /\ UNCHANGED <<token, cacheVars, cmsVars, loginVars, hostVars, opc, cpc, cwait, saved, history>>

ForgetDone(f) ==
  /\ fpc[f] = "dropped"
  /\ busy' = None
  /\ cache' = NoEntry
  /\ fpc' = [fpc EXCEPT ![f] = "done"]
  /\ UNCHANGED <<token, profile, old, gen, pending, cmsVars, loginVars, hostVars,
                 opc, cpc, cwait, saved, history>>

SaveProfile(s, u) ==
  /\ s \notin saved /\ Unlocked
  /\ profile' = [user |-> u, out |-> FALSE]
  /\ resaved' = TRUE
  /\ saved' = saved \cup {s}
  /\ UNCHANGED <<token, busy, cacheVars, cmsVars, loginVars, hostVars, opc, fpc, cpc, cwait, overtaken>>

-----------------------------------------------------------------------------
(* CmsAuthService.login, restoreDbLoginsAfterHostLogin and relogin *)

\* CMS answers with a new token and forgets the one before.
HostAnswer(h) ==
  /\ hpc[h] = "new"
  /\ cmsToken' = h
  /\ hpc' = [hpc EXCEPT ![h] = "answered"]
  /\ UNCHANGED <<fileVars, cacheVars, conlist, loginVars, rpc, relog, otherVars, history>>

HostStore(h) ==
  /\ hpc[h] = "answered" /\ Unlocked
  /\ token' = h
  /\ busy' = h
  /\ hpc' = [hpc EXCEPT ![h] = "stored"]
  /\ UNCHANGED <<profile, cacheVars, cmsVars, loginVars, rpc, relog, otherVars, history>>

\* restoreDbLoginsAfterHostLogin
HostRestore(h) ==
  /\ hpc[h] = "stored"
  /\ busy' = None
  /\ hpc' = [hpc EXCEPT ![h] = "done"]
  /\ IF cache = NoEntry \/ cache.token = h
       THEN UNCHANGED <<cache, pending, rpc, relog>>
       ELSE IF cache.made \in old
       THEN cache' = NoEntry /\ UNCHANGED <<pending, rpc, relog>>
       ELSE /\ relog' = [relog EXCEPT ![h].entry = cache, ![h].gen = gen, ![h].after = pending]
            /\ pending' = h
            /\ rpc' = [rpc EXCEPT ![h] = "wait"]
            /\ UNCHANGED cache
  /\ UNCHANGED <<token, profile, old, gen, cmsVars, loginVars, otherVars, history>>

ReloginGoto(h, label) == rpc' = [rpc EXCEPT ![h] = label] /\ UNCHANGED pending
\* The promise settles and takes itself out of the map.
ReloginEnd(h) ==
  /\ rpc' = [rpc EXCEPT ![h] = "done"]
  /\ pending' = IF pending = h THEN None ELSE pending

Settled(h)  == h \in {None} \cup {g \in HostLogins : rpc[g] = "done"}
StillOld(h) == cache \in {NoEntry, relog[h].entry}
\* A re-login that fails drops the entry it was to replace, and no other.
DropOld(h)  == cache' = IF cache = relog[h].entry THEN NoEntry ELSE cache

ReloginBegin(h) ==
  /\ rpc[h] = "wait" /\ Settled(relog[h].after)
  /\ IF StillOld(h) THEN ReloginGoto(h, "host") ELSE ReloginEnd(h)
  /\ UNCHANGED <<fileVars, cache, old, gen, cmsVars, loginVars, hpc, relog, otherVars, history>>

ReloginReadHost(h) ==
  /\ rpc[h] = "host" /\ Unlocked
  /\ IF profile.user = relog[h].entry.user /\ ~profile.out /\ token = h
       THEN ReloginGoto(h, "send") /\ UNCHANGED cache
       ELSE ReloginEnd(h) /\ DropOld(h)
  /\ UNCHANGED <<fileVars, old, gen, cmsVars, loginVars, hpc, relog, otherVars, history>>

ReloginSend(h) ==
  /\ rpc[h] = "send" /\ Unlocked
  /\ relog' = [relog EXCEPT ![h].sentWith = token]
  /\ ReloginGoto(h, "sent")
  /\ UNCHANGED <<fileVars, cache, old, gen, cmsVars, loginVars, hpc, otherVars, history>>

\* Variant: a re-login CMS does not answer has no time limit.
ReloginCmsNoTimeout(h) ==
  /\ rpc[h] = "sent" /\ relog[h].sentWith = cmsToken
  /\ conlist' = conlist \cup {cmsToken}
  /\ ReloginGoto(h, "ok")
  /\ UNCHANGED <<fileVars, cache, old, gen, cmsToken, loginVars, hpc, relog, otherVars, history>>

ReloginCms(h) ==
  /\ rpc[h] = "sent"
  /\ \/ /\ relog[h].sentWith = cmsToken
        /\ conlist' = conlist \cup {cmsToken}
        /\ ReloginGoto(h, "ok") /\ UNCHANGED cache
     \/ ReloginEnd(h) /\ DropOld(h) /\ UNCHANGED conlist
  /\ UNCHANGED <<fileVars, old, gen, cmsToken, loginVars, hpc, relog, otherVars, history>>

ReloginOk(h) ==
  /\ rpc[h] = "ok"
  /\ IF gen # relog[h].gen THEN ReloginEnd(h) ELSE ReloginGoto(h, "recheck")
  /\ UNCHANGED <<fileVars, cache, old, gen, cmsVars, loginVars, hpc, relog, otherVars, history>>

\* The host is read again; what was compared before is not compared again.
ReloginCommit(h) ==
  /\ rpc[h] = "recheck" /\ Unlocked
  /\ cache' = IF token = h /\ StillOld(h) THEN [relog[h].entry EXCEPT !.token = h] ELSE cache
  /\ ReloginEnd(h)
  /\ UNCHANGED <<fileVars, old, gen, cmsVars, loginVars, hpc, relog, otherVars, history>>

-----------------------------------------------------------------------------
(* ensureDbLogin *)

IsDbLoginActive == cache # NoEntry /\ cache.token = token /\ cache.made \notin old

CheckCall(c) ==
  /\ cpc[c] = "new"
  /\ cwait' = [cwait EXCEPT ![c] = pending]
  /\ cpc' = [cpc EXCEPT ![c] = "wait"]
  /\ UNCHANGED <<fileVars, cacheVars, cmsVars, loginVars, hostVars, opc, fpc, saved, history>>

Check(c) ==
  /\ cpc[c] = "wait" /\ Settled(cwait[c]) /\ Unlocked
  /\ cpc' = [cpc EXCEPT ![c] = IF IsDbLoginActive THEN "passed" ELSE "refused"]
  /\ UNCHANGED <<fileVars, cacheVars, cmsVars, loginVars, hostVars, opc, fpc, cwait, saved, history>>

-----------------------------------------------------------------------------
LoginStep(l) ==
  \/ LoginReadHost(l) \/ LoginSend(l) \/ LoginCms(l) \/ LoginDone(l) \/ LoginUnmark(l)
ReloginStep(h) ==
  \/ ReloginBegin(h) \/ ReloginReadHost(h) \/ ReloginSend(h) \/ ReloginCms(h)
  \/ ReloginOk(h) \/ ReloginCommit(h)

Next ==
  \/ \E l \in Logins : LoginCall(l) \/ LoginStep(l) \/ Age(l)
  \/ \E o \in Logouts : LogoutMark(o) \/ LogoutDone(o)
  \/ \E f \in Forgets : ForgetProfile(f) \/ ForgetDone(f)
  \/ \E s \in Saves, u \in DbUsers : SaveProfile(s, u)
  \/ \E h \in HostLogins : HostAnswer(h) \/ HostStore(h) \/ HostRestore(h) \/ ReloginStep(h)
  \/ \E c \in Checks : CheckCall(c) \/ Check(c)

Spec == Init /\ [][Next]_vars

\* Calls once made go on; CMS answers a re-login, or its 30 seconds pass.  These start
\* at the head of the host's queue: that a request before it ends is assumed.
FairSpec ==
  /\ Spec
  /\ \A o \in Logouts : WF_vars(LogoutDone(o))
  /\ \A f \in Forgets : WF_vars(ForgetDone(f))
  /\ \A h \in HostLogins : WF_vars(HostRestore(h)) /\ WF_vars(ReloginStep(h))
  /\ \A c \in Checks : WF_vars(Check(c))

-----------------------------------------------------------------------------
(* Properties *)

\* A database is logged in only by a login that began after the last logout; but
\* a re-login past its last look at the generation is not held back.
LogoutWins == cache # NoEntry /\ ~overtaken => login[cache.made].gen = gen

\* A logout wins over every re-login under way as well.
LogoutAlwaysWins == cache # NoEntry => login[cache.made].gen = gen

\* The mark a logout leaves on the profile goes only with a login that began
\* after it, or with a new profile.
MarkKept ==
  profile # NoProfile /\ ~profile.out /\ gen > 0 /\ ~resaved =>
    \E l \in Logins : lpc[l] = "done" /\ login[l].gen = gen

\* What ensureDbLogin trusts is so: CMS has a database login under the token the
\* host has now, however host logins, logins and re-logins overlapped.
ActiveMeansLoggedIn == IsDbLoginActive => token \in conlist

\* Every request gets its answer: no re-login holds it for ever.
EveryCheckEnds == \A c \in Checks : cpc[c] = "wait" ~> cpc[c] \in {"passed", "refused"}
=============================================================================

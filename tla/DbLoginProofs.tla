---------------------------- MODULE DbLoginProofs ----------------------------
(***************************************************************************)
(* Proofs about DbLogin, for any calls and users.                          *)
(*                                                                         *)
(*  - LoginTypeCorrect: the type invariant;                                *)
(*  - ActiveIsSound: ensureDbLogin lets a request through only with a      *)
(*    login CMS has.  TokenInv carries it: the host never gets a token     *)
(*    again that it had before, so a login or re-login that was made for   *)
(*    the token of now was also sent with it;                              *)
(*  - LogoutIsFinal: a logout ends every login begun before it, except     *)
(*    through a re-login past its last look (GenInv);                      *)
(*  - MarkStays: the mark of a logout stays on the profile, because nobody *)
(*    writes the user file between a logout's write and its count          *)
(*    (SectionInv).                                                        *)
(***************************************************************************)
EXTENDS DbLogin, TLAPS

\* What a login remembers after it read the host.
LEMMA MemoryFields ==
  ASSUME NEW f \in [Logins -> LoginMemory], NEW l \in Logins,
         NEW t \in Tokens, NEW u \in DbUsers \cup {None}, NEW b \in BOOLEAN
  PROVE  [f EXCEPT ![l].token = t, ![l].user = u, ![l].out = b] \in [Logins -> LoginMemory]
<1>1. PICK e \in [Logins -> LoginMemory] : e = [f EXCEPT ![l].token = t, ![l].user = u]
  BY DEF LoginMemory
<1>2. [e EXCEPT ![l].out = b] \in [Logins -> LoginMemory]
  BY DEF LoginMemory
<1> QED
  BY <1>1, <1>2

LEMMA EntryFields ==
  ASSUME NEW e \in Entry, NEW h \in HostLogins
  PROVE  [e EXCEPT !.token = h].token = h /\ [e EXCEPT !.token = h].made = e.made
  BY DEF Entry

USE CallsAssumption

LoggedIn == {"unmark", "done"}

\* What the calls remember is there, and is of a login that CMS granted.
MemoryInv ==
  /\ \A l \in Logins : lpc[l] \in {"send", "sent", "ok"} \cup LoggedIn => login[l].user \in DbUsers
  /\ cache # NoEntry => lpc[cache.made] \in LoggedIn
  /\ \A h \in HostLogins : rpc[h] # "off" =>
       hpc[h] = "done" /\ relog[h].entry # NoEntry /\ lpc[relog[h].entry.made] \in LoggedIn

\* The section of the user file's lock that an update holds on to.
SectionInv ==
  /\ \A h \in HostLogins : hpc[h] = "stored" => busy = h
  /\ \A o \in Logouts : opc[o] = "marked" => busy = o /\ (profile = NoProfile \/ profile.out)
  /\ \A f \in Forgets : fpc[f] = "dropped" => busy = f

\* The tokens the host has had.
Had(t) == t = FirstToken \/ (t \in HostLogins /\ hpc[t] \in {"stored", "done"})

TokenInv ==
  /\ Had(token)
  /\ cache # NoEntry => Had(cache.token) /\ (cache.token = token => token \in conlist)
  /\ \A l \in Logins :
       /\ Had(login[l].token)
       /\ lpc[l] \in {"sent", "ok"} \cup LoggedIn /\ login[l].token = token => login[l].sentWith = token
       /\ lpc[l] \in {"ok"} \cup LoggedIn => login[l].sentWith \in conlist
  /\ \A h \in HostLogins :
       /\ rpc[h] \in {"sent", "ok", "recheck"} /\ token = h => relog[h].sentWith = h
       /\ rpc[h] \in {"ok", "recheck"} => relog[h].sentWith \in conlist

\* What a re-login is to replace was logged in when the re-login read the generation.
GenInv ==
  ~overtaken =>
    /\ cache # NoEntry => login[cache.made].gen = gen
    /\ \A h \in HostLogins :
         /\ rpc[h] # "off" => login[relog[h].entry.made].gen = relog[h].gen
         /\ rpc[h] = "recheck" => relog[h].gen = gen

LoginInv == TypeOK /\ MemoryInv /\ SectionInv /\ TokenInv /\ GenInv /\ MarkKept

Calling(l) == LoginCall(l) \/ LoginStep(l) \/ Age(l)
Hosting(h) == HostAnswer(h) \/ HostStore(h) \/ HostRestore(h) \/ ReloginStep(h)

-----------------------------------------------------------------------------
(* Types *)

LEMMA ProfileFields ==
  ASSUME NEW p \in Profile
  PROVE  /\ p.user \in DbUsers \cup {None} /\ p.out \in BOOLEAN
         /\ [p EXCEPT !.out = FALSE] \in Profile
         /\ p # NoProfile => [p EXCEPT !.out = TRUE] \in Profile /\ [p EXCEPT !.out = TRUE].out
<1>1. CASE p = NoProfile
  <2>1. [p EXCEPT !.out = FALSE] = p
    BY <1>1, p.out = FALSE DEF NoProfile
  <2> QED
    BY <1>1, <2>1 DEF Profile, NoProfile
<1>2. CASE p \in [user : DbUsers, out : BOOLEAN]
  BY <1>2 DEF Profile
<1> QED
  BY <1>1, <1>2 DEF Profile

LEMMA LoginInit == Init => LoginInv
<1> SUFFICES ASSUME Init PROVE LoginInv
  OBVIOUS
<1> USE DEF Init
<1>1. TypeOK
  BY DEF TypeOK, Tokens, LoginMemory, ReloginMemory, LoginPc, HostPc, ReloginPc, Profile
<1>2. MemoryInv /\ SectionInv
  BY DEF MemoryInv, SectionInv, LoggedIn
<1>3. TokenInv
  BY DEF TokenInv, Had, LoggedIn
<1>4. GenInv /\ MarkKept
  BY DEF GenInv, MarkKept
<1> QED
  BY <1>1, <1>2, <1>3, <1>4 DEF LoginInv

LEMMA TypeStep ==
  ASSUME TypeOK, MemoryInv, Next
  PROVE  TypeOK'
<1> USE DEF TypeOK, Tokens, LoginPc, HostPc, ReloginPc, LoginMemory, ReloginMemory,
        LoginGoto, ReloginGoto, ReloginEnd, DropOld, StillOld, Unlocked, fileVars, cacheVars, cmsVars,
        loginVars, hostVars, otherVars, history
<1>1. ASSUME NEW l \in Logins, Calling(l)
      PROVE  TypeOK'
  <2>1. CASE LoginCall(l)
    BY <2>1 DEF LoginCall
  <2>2. CASE LoginReadHost(l)
    <3>1. profile.user \in DbUsers \cup {None} /\ profile.out \in BOOLEAN
      BY ProfileFields
    <3>2. CASE UNCHANGED login
      BY <2>2, <3>2 DEF LoginReadHost
    <3>3. ASSUME NEW u \in DbUsers,
                 login' = [login EXCEPT ![l].token = token, ![l].user = u, ![l].out = profile.out]
          PROVE  TypeOK'
      <4>1. login' \in [Logins -> LoginMemory]
        BY <3>1, <3>3, MemoryFields
      <4> QED
        BY <2>2, <4>1 DEF LoginReadHost
    <3> QED
      BY <2>2, <3>1, <3>2, <3>3 DEF LoginReadHost
  <2>3. CASE LoginSend(l)
    BY <2>3 DEF LoginSend
  <2>4. CASE LoginCms(l)
    BY <2>4 DEF LoginCms
  <2>5. CASE LoginDone(l)
    BY <2>5 DEF LoginDone, MemoryInv, Entry, LoggedIn
  <2>6. CASE LoginUnmark(l)
    BY <2>6, ProfileFields DEF LoginUnmark
  <2>7. CASE Age(l)
    BY <2>7 DEF Age
  <2> QED
    BY <1>1, <2>1, <2>2, <2>3, <2>4, <2>5, <2>6, <2>7 DEF Calling, LoginStep
<1>2. ASSUME NEW h \in HostLogins, Hosting(h)
      PROVE  TypeOK'
  <2>1. CASE HostAnswer(h)
    BY <2>1 DEF HostAnswer
  <2>2. CASE HostStore(h)
    BY <2>2 DEF HostStore
  <2>3. CASE HostRestore(h)
    <3>1. CASE UNCHANGED relog
      BY <2>3, <3>1 DEF HostRestore
    <3>2. CASE relog' = [relog EXCEPT ![h].entry = cache, ![h].gen = gen, ![h].after = pending]
      <4> DEFINE one == [relog EXCEPT ![h].entry = cache]
                 two == [one EXCEPT ![h].gen = gen]
      <4>1. one \in [HostLogins -> ReloginMemory]
        OBVIOUS
      <4>2. two \in [HostLogins -> ReloginMemory]
        <5> HIDE DEF one
        <5> QED BY <4>1
      <4>3. relog' = [two EXCEPT ![h].after = pending]
        BY <3>2
      <4>4. relog' \in [HostLogins -> ReloginMemory]
        <5> HIDE DEF two
        <5> QED BY <4>2, <4>3
      <4> QED
        BY <2>3, <4>4 DEF HostRestore
    <3> QED
      BY <2>3, <3>1, <3>2 DEF HostRestore
  <2>4. CASE ReloginBegin(h)
    BY <2>4 DEF ReloginBegin
  <2>5. CASE ReloginReadHost(h)
    BY <2>5 DEF ReloginReadHost
  <2>6. CASE ReloginSend(h)
    BY <2>6 DEF ReloginSend
  <2>7. CASE ReloginCms(h)
    BY <2>7 DEF ReloginCms
  <2>8. CASE ReloginOk(h)
    BY <2>8 DEF ReloginOk
  <2>9. CASE ReloginCommit(h)
    BY <2>9 DEF ReloginCommit, MemoryInv, NoEntry, Entry
  <2> QED
    BY <1>2, <2>1, <2>2, <2>3, <2>4, <2>5, <2>6, <2>7, <2>8, <2>9 DEF Hosting, ReloginStep
<1>3. ASSUME NEW o \in Logouts, LogoutMark(o) \/ LogoutDone(o)
      PROVE  TypeOK'
  <2>1. CASE LogoutMark(o)
    BY <2>1, ProfileFields DEF LogoutMark
  <2>2. CASE LogoutDone(o)
    <3>1. overtaken' \in BOOLEAN
      BY <2>2 DEF LogoutDone
    <3>2. gen' \in Nat /\ opc' \in [Logouts -> {"new", "marked", "done"}]
      BY <2>2 DEF LogoutDone
    <3>3. /\ busy' = None /\ cache' = NoEntry /\ pending' = None /\ resaved' = FALSE
          /\ UNCHANGED <<token, profile, old, cmsVars, loginVars, hostVars, fpc, cpc, cwait, saved>>
      BY <2>2 DEF LogoutDone
    <3> QED
      BY <3>1, <3>2, <3>3
  <2> QED
    BY <1>3, <2>1, <2>2
<1>4. ASSUME NEW f \in Forgets, ForgetProfile(f) \/ ForgetDone(f)
      PROVE  TypeOK'
  BY <1>4 DEF ForgetProfile, ForgetDone, Profile
<1>5. ASSUME NEW t \in Saves, NEW u \in DbUsers, SaveProfile(t, u)
      PROVE  TypeOK'
  BY <1>5 DEF SaveProfile, Profile
<1>6. ASSUME NEW c \in Checks, CheckCall(c) \/ Check(c)
      PROVE  TypeOK'
  BY <1>6 DEF CheckCall, Check
<1> QED
  BY <1>1, <1>2, <1>3, <1>4, <1>5, <1>6 DEF Next, Calling, Hosting

-----------------------------------------------------------------------------
(* What the calls remember, and the lock's section *)

\* What a login's step does to what the invariants speak of.
LoginMove(l) ==
  \/ /\ lpc[l] = "new" /\ lpc'[l] = "host" /\ UNCHANGED <<cache, conlist, profile>>
     /\ login'[l].token = login[l].token
  \/ /\ lpc[l] = "host" /\ lpc'[l] = "send" /\ UNCHANGED <<cache, conlist, profile>>
     /\ login'[l].token = token /\ login'[l].user \in DbUsers
  \/ /\ lpc[l] = "send" /\ lpc'[l] = "sent" /\ UNCHANGED <<cache, conlist, profile>>
     /\ login'[l].token = login[l].token /\ login'[l].user = login[l].user
     /\ login'[l].sentWith = token
  \/ /\ lpc[l] = "sent" /\ lpc'[l] = "ok" /\ UNCHANGED <<login, cache, profile>>
     /\ conlist' = conlist \cup {login[l].sentWith}
  \/ /\ lpc[l] \notin LoggedIn /\ lpc'[l] = "refused" /\ UNCHANGED <<login, cache, conlist, profile>>
  \/ /\ lpc[l] = "ok" /\ lpc'[l] \in LoggedIn /\ UNCHANGED <<login, conlist, profile>>
     /\ cache' = [made |-> l, token |-> login[l].token, user |-> login[l].user]
     /\ login[l].gen = gen
  \/ /\ lpc[l] \in LoggedIn /\ lpc'[l] \in LoggedIn /\ UNCHANGED <<login, cache, conlist>>
     /\ \/ UNCHANGED <<profile, lpc>>
        \/ /\ busy = None /\ lpc'[l] = "done"
           /\ profile' = IF gen = login[l].gen THEN [profile EXCEPT !.out = FALSE] ELSE profile

LEMMA LoginFrame ==
  ASSUME TypeOK, NEW l \in Logins, Calling(l)
  PROVE  /\ UNCHANGED <<token, busy, gen, hostVars, opc, fpc, history>>
         /\ \A k \in Logins \ {l} : lpc'[k] = lpc[k] /\ login'[k] = login[k]
         /\ LoginMove(l)
<1> USE DEF TypeOK, LoginMove, LoggedIn, LoginGoto, Unlocked, fileVars, cacheVars, cmsVars,
            loginVars, hostVars, otherVars, history
<1>1. CASE LoginCall(l)
  BY <1>1 DEF LoginCall, LoginMemory
<1>2. CASE LoginReadHost(l)
  <2>1. /\ lpc[l] = "host" /\ UNCHANGED <<cache, conlist, profile>>
        /\ UNCHANGED <<token, busy, gen, hostVars, opc, fpc, history>>
    BY <1>2 DEF LoginReadHost
  <2>2. CASE LoginGoto(l, "refused") /\ UNCHANGED login
    BY <2>1, <2>2
  <2>3. ASSUME NEW u \in DbUsers,
               login' = [login EXCEPT ![l].token = token, ![l].user = u, ![l].out = profile.out],
               LoginGoto(l, "send")
        PROVE  /\ \A k \in Logins \ {l} : login'[k] = login[k] /\ lpc'[k] = lpc[k]
               /\ login'[l].token = token /\ login'[l].user = u /\ lpc'[l] = "send"
    BY <2>3 DEF LoginMemory
  <2>4. profile.user \in DbUsers \cup {None}
    BY ProfileFields
  <2> QED
    BY <1>2, <2>1, <2>2, <2>3, <2>4 DEF LoginReadHost
<1>3. CASE LoginSend(l)
  BY <1>3 DEF LoginSend, LoginMemory
<1>4. CASE LoginCms(l)
  BY <1>4 DEF LoginCms
<1>5. CASE LoginDone(l)
  BY <1>5 DEF LoginDone
<1>6. CASE LoginUnmark(l)
  BY <1>6 DEF LoginUnmark
<1>7. CASE Age(l)
  BY <1>7 DEF Age
<1> QED
  BY <1>1, <1>2, <1>3, <1>4, <1>5, <1>6, <1>7 DEF Calling, LoginStep

CommitOf(h) ==
  /\ rpc[h] = "recheck" /\ rpc'[h] = "done" /\ UNCHANGED <<relog, conlist>> /\ token = h
  /\ cache' = [relog[h].entry EXCEPT !.token = h]

\* What a host login's step, or its re-login's, does.
ReloginMove(h) ==
  \/ rpc'[h] = rpc[h] /\ UNCHANGED <<relog, cache, conlist>>
  \/ /\ hpc[h] = "stored" /\ hpc'[h] = "done" /\ rpc'[h] = "wait"
     /\ cache # NoEntry /\ relog'[h].entry = cache /\ relog'[h].gen = gen
     /\ UNCHANGED <<cache, conlist>>
  \/ /\ hpc[h] = "stored" /\ hpc'[h] = "done" /\ rpc'[h] = rpc[h] /\ cache' = NoEntry
     /\ UNCHANGED <<relog, conlist>>
  \/ rpc[h] = "wait" /\ rpc'[h] = "host" /\ UNCHANGED <<relog, cache, conlist>>
  \/ rpc[h] = "host" /\ rpc'[h] = "send" /\ token = h /\ UNCHANGED <<relog, cache, conlist>>
  \/ /\ rpc[h] = "send" /\ rpc'[h] = "sent" /\ UNCHANGED <<cache, conlist>>
     /\ relog'[h].sentWith = token /\ relog'[h].entry = relog[h].entry /\ relog'[h].gen = relog[h].gen
  \/ /\ rpc[h] = "sent" /\ rpc'[h] = "ok" /\ UNCHANGED <<relog, cache>>
     /\ conlist' = conlist \cup {relog[h].sentWith}
  \/ rpc[h] = "ok" /\ rpc'[h] = "recheck" /\ gen = relog[h].gen /\ UNCHANGED <<relog, cache, conlist>>
  \/ rpc[h] # "off" /\ rpc'[h] = "done" /\ UNCHANGED <<relog, conlist>> /\ cache' \in {cache, NoEntry}
  \/ CommitOf(h)

LEMMA HostFrame ==
  ASSUME TypeOK, NEW h \in HostLogins, Hosting(h)
  PROVE  /\ UNCHANGED <<profile, gen, loginVars, old, opc, fpc, history>>
         /\ \A g \in HostLogins \ {h} : hpc'[g] = hpc[g] /\ rpc'[g] = rpc[g] /\ relog'[g] = relog[g]
         /\ \/ token' = token
            \/ hpc[h] = "answered" /\ hpc'[h] = "stored" /\ token' = h
         /\ \/ hpc'[h] = hpc[h] /\ busy' = busy
            \/ hpc[h] = "new" /\ hpc'[h] = "answered" /\ busy' = busy
            \/ hpc[h] = "answered" /\ hpc'[h] = "stored" /\ busy = None /\ busy' = h
            \/ hpc[h] = "stored" /\ hpc'[h] = "done" /\ busy' = None
         /\ ReloginMove(h)
<1> USE DEF TypeOK, ReloginMove, CommitOf, ReloginGoto, ReloginEnd, DropOld, StillOld, Unlocked, fileVars,
            cacheVars, cmsVars, loginVars, otherVars, history
<1>1. CASE HostAnswer(h)
  BY <1>1 DEF HostAnswer
<1>2. CASE HostStore(h)
  BY <1>2 DEF HostStore
<1>3. CASE HostRestore(h)
  BY <1>3 DEF HostRestore, ReloginMemory
<1>4. CASE ReloginBegin(h)
  BY <1>4 DEF ReloginBegin
<1>5. CASE ReloginReadHost(h)
  BY <1>5 DEF ReloginReadHost
<1>6. CASE ReloginSend(h)
  BY <1>6 DEF ReloginSend, ReloginMemory
<1>7. CASE ReloginCms(h)
  BY <1>7 DEF ReloginCms
<1>8. CASE ReloginOk(h)
  BY <1>8 DEF ReloginOk
<1>9. CASE ReloginCommit(h)
  BY <1>9 DEF ReloginCommit
<1> QED
  BY <1>1, <1>2, <1>3, <1>4, <1>5, <1>6, <1>7, <1>8, <1>9 DEF Hosting, ReloginStep

LEMMA MemoryStep ==
  ASSUME TypeOK, MemoryInv, Next
  PROVE  MemoryInv'
<1> USE DEF MemoryInv, LoggedIn
<1>1. ASSUME NEW l \in Logins, Calling(l)
      PROVE  MemoryInv'
  <2>1. /\ \A k \in Logins : lpc[k] \in LoggedIn => lpc'[k] \in LoggedIn
        /\ \A k \in Logins : lpc'[k] \in {"send", "sent", "ok"} \cup LoggedIn => login'[k].user \in DbUsers
        /\ UNCHANGED hostVars
    BY <1>1, LoginFrame DEF LoginMove
  <2>2. cache' # NoEntry => lpc'[cache'.made] \in LoggedIn
    BY <1>1, <2>1, LoginFrame DEF LoginMove, TypeOK, Entry
  <2> QED
    BY <2>1, <2>2 DEF hostVars, TypeOK, ReloginMemory, Entry
<1>2. ASSUME NEW h \in HostLogins, Hosting(h)
      PROVE  MemoryInv'
  <2>1. UNCHANGED lpc /\ UNCHANGED login
    BY <1>2, HostFrame DEF loginVars
  <2>2. cache' # NoEntry => lpc[cache'.made] \in LoggedIn
    <3>1. CommitOf(h) => cache'.made = relog[h].entry.made /\ lpc[relog[h].entry.made] \in LoggedIn
      BY EntryFields DEF CommitOf, TypeOK, ReloginMemory
    <3> QED
      BY <1>2, <3>1, HostFrame DEF ReloginMove
  <2>3. rpc'[h] # "off" =>
          hpc'[h] = "done" /\ relog'[h].entry # NoEntry /\ lpc[relog'[h].entry.made] \in LoggedIn
    BY <1>2, HostFrame DEF ReloginMove, CommitOf
  <2>4. \A g \in HostLogins \ {h} : hpc'[g] = hpc[g] /\ rpc'[g] = rpc[g] /\ relog'[g] = relog[g]
    BY <1>2, HostFrame
  <2> QED
    BY <2>1, <2>2, <2>3, <2>4
<1>3. CASE \/ \E o \in Logouts : LogoutMark(o) \/ LogoutDone(o)
           \/ \E f \in Forgets : ForgetProfile(f) \/ ForgetDone(f)
           \/ \E t \in Saves, u \in DbUsers : SaveProfile(t, u)
           \/ \E c \in Checks : CheckCall(c) \/ Check(c)
  BY <1>3 DEF LogoutMark, LogoutDone, ForgetProfile, ForgetDone, SaveProfile, CheckCall, Check,
              cacheVars, loginVars, hostVars
<1> QED
  BY <1>1, <1>2, <1>3 DEF Next, Calling, Hosting

LEMMA SectionStep ==
  ASSUME TypeOK, SectionInv, Next
  PROVE  SectionInv'
<1> USE DEF TypeOK, SectionInv, LoginGoto, ReloginGoto, ReloginEnd, DropOld, StillOld, Unlocked,
            fileVars, cacheVars, cmsVars, loginVars, hostVars, otherVars, history
<1>1. ASSUME NEW l \in Logins, Calling(l)
      PROVE  SectionInv'
  BY <1>1 DEF Calling, LoginStep, LoginCall, LoginReadHost, LoginSend, LoginCms, LoginDone, LoginUnmark, Age
<1>2. ASSUME NEW h \in HostLogins, Hosting(h)
      PROVE  SectionInv'
  BY <1>2 DEF Hosting, HostAnswer, HostStore, HostRestore, ReloginStep, ReloginBegin, ReloginReadHost,
              ReloginSend, ReloginCms, ReloginOk, ReloginCommit
<1>3. ASSUME NEW o \in Logouts, LogoutMark(o)
      PROVE  SectionInv'
  BY <1>3, ProfileFields DEF LogoutMark
<1>4. ASSUME NEW o \in Logouts, LogoutDone(o)
      PROVE  SectionInv'
  BY <1>4 DEF LogoutDone
<1>5. ASSUME NEW f \in Forgets, ForgetProfile(f) \/ ForgetDone(f)
      PROVE  SectionInv'
  BY <1>5 DEF ForgetProfile, ForgetDone
<1>6. ASSUME NEW t \in Saves, NEW u \in DbUsers, SaveProfile(t, u)
      PROVE  SectionInv'
  BY <1>6 DEF SaveProfile
<1>7. ASSUME NEW c \in Checks, CheckCall(c) \/ Check(c)
      PROVE  SectionInv'
  BY <1>7 DEF CheckCall, Check
<1> QED
  BY <1>1, <1>2, <1>3, <1>4, <1>5, <1>6, <1>7 DEF Next, Calling, Hosting

-----------------------------------------------------------------------------
(* Tokens and generations *)

LEMMA TokenStep ==
  ASSUME TypeOK, MemoryInv, TokenInv, Next
  PROVE  TokenInv'
<1> USE DEF TokenInv, LoggedIn
<1>1. ASSUME NEW l \in Logins, Calling(l)
      PROVE  TokenInv'
  <2>1. /\ UNCHANGED <<token, hpc, rpc, relog>> /\ conlist \subseteq conlist'
        /\ \A t : Had(t) => Had(t)'
    BY <1>1, LoginFrame DEF LoginMove, hostVars, Had
  <2>2. \A k \in Logins \ {l} : lpc'[k] = lpc[k] /\ login'[k] = login[k]
    BY <1>1, LoginFrame
  <2>3. /\ Had(login'[l].token)
        /\ lpc'[l] \in {"sent", "ok"} \cup LoggedIn /\ login'[l].token = token => login'[l].sentWith = token
        /\ lpc'[l] \in {"ok"} \cup LoggedIn => login'[l].sentWith \in conlist'
    BY <1>1, LoginFrame DEF LoginMove
  <2>4. cache' # NoEntry => Had(cache'.token) /\ (cache'.token = token => token \in conlist')
    BY <1>1, LoginFrame DEF LoginMove
  <2> QED
    BY <2>1, <2>2, <2>3, <2>4
<1>2. ASSUME NEW h \in HostLogins, Hosting(h)
      PROVE  TokenInv'
  <2>1. /\ UNCHANGED <<lpc, login>> /\ conlist \subseteq conlist'
        /\ \A t : Had(t) => Had(t)'
    BY <1>2, HostFrame DEF ReloginMove, CommitOf, loginVars, Had
  <2>2. \/ token' = token
        \/ token' = h /\ Had(h)' /\ ~Had(h) /\ hpc[h] = "answered"
    BY <1>2, HostFrame DEF Had
  <2>3. \A g \in HostLogins \ {h} : hpc'[g] = hpc[g] /\ rpc'[g] = rpc[g] /\ relog'[g] = relog[g]
    BY <1>2, HostFrame
  <2>4. /\ rpc'[h] \in {"sent", "ok", "recheck"} /\ token' = h => relog'[h].sentWith = h
        /\ rpc'[h] \in {"ok", "recheck"} => relog'[h].sentWith \in conlist'
    BY <1>2, <2>2, HostFrame DEF ReloginMove, CommitOf, MemoryInv
  <2>5. CommitOf(h) => cache'.token = h /\ token' = h /\ hpc'[h] = "done" /\ h \in conlist
    BY <1>2, <2>2, HostFrame, EntryFields DEF CommitOf, MemoryInv, TypeOK, ReloginMemory
  <2>7. CommitOf(h) \/ cache' = NoEntry \/ cache' = cache
    BY <1>2, HostFrame DEF ReloginMove, CommitOf
  <2>6. \A g \in HostLogins \ {h} :
          rpc'[g] \in {"sent", "ok", "recheck"} /\ token' = g => relog'[g].sentWith = g
    BY <2>2, <2>3
  <2> QED
    <3>1. \A l \in Logins : lpc'[l] \in {"sent", "ok"} \cup LoggedIn /\ login'[l].token = token' =>
            login'[l].sentWith = token'
      BY <2>1, <2>2
    <3>2. CASE CommitOf(h)
      BY <2>1, <2>2, <2>3, <2>4, <2>5, <2>6, <3>1, <3>2 DEF Had
    <3>3. CASE cache' = NoEntry
      BY <2>1, <2>2, <2>3, <2>4, <2>6, <3>1, <3>3 DEF Had
    <3>4. CASE cache' = cache
      <4>1. cache # NoEntry /\ cache.token = token' => token' \in conlist'
        BY <2>1, <2>2, <3>4
      <4> QED
        BY <2>1, <2>2, <2>3, <2>4, <2>6, <3>1, <3>4, <4>1 DEF Had
    <3> QED
      BY <2>7, <3>2, <3>3, <3>4
<1>3. CASE \/ \E o \in Logouts : LogoutMark(o) \/ LogoutDone(o)
           \/ \E f \in Forgets : ForgetProfile(f) \/ ForgetDone(f)
           \/ \E t \in Saves, u \in DbUsers : SaveProfile(t, u)
           \/ \E c \in Checks : CheckCall(c) \/ Check(c)
  <2>1. UNCHANGED <<token, conlist, lpc, login, hpc, rpc, relog>> /\ cache' \in {cache, NoEntry}
    BY <1>3 DEF LogoutMark, LogoutDone, ForgetProfile, ForgetDone, SaveProfile, CheckCall, Check,
                fileVars, cacheVars, cmsVars, loginVars, hostVars
  <2> QED
    BY <2>1 DEF Had
<1> QED
  BY <1>1, <1>2, <1>3 DEF Next, Calling, Hosting

LEMMA GenStep ==
  ASSUME TypeOK, MemoryInv, GenInv, Next
  PROVE  GenInv'
<1> USE DEF GenInv, LoggedIn
<1>1. ASSUME NEW l \in Logins, Calling(l)
      PROVE  GenInv'
  <2>1. UNCHANGED <<gen, overtaken, rpc, relog>>
        /\ \A k \in Logins : lpc[k] \in LoggedIn => login'[k] = login[k]
    BY <1>1, LoginFrame DEF LoginMove, hostVars, history
  <2>2. ~overtaken /\ cache' # NoEntry => login'[cache'.made].gen = gen
    BY <1>1, <2>1, LoginFrame DEF LoginMove, MemoryInv, TypeOK, Entry
  <2>3. \A h \in HostLogins : rpc[h] # "off" =>
          login'[relog[h].entry.made] = login[relog[h].entry.made]
    BY <2>1 DEF MemoryInv, TypeOK, ReloginMemory, Entry
  <2> QED
    BY <2>1, <2>2, <2>3
<1>2. ASSUME NEW h \in HostLogins, Hosting(h)
      PROVE  GenInv'
  <2>1. UNCHANGED <<gen, overtaken, login>>
        /\ \A g \in HostLogins \ {h} : rpc'[g] = rpc[g] /\ relog'[g] = relog[g]
    BY <1>2, HostFrame DEF loginVars, history
  <2>2. ~overtaken =>
          /\ rpc'[h] # "off" => login[relog'[h].entry.made].gen = relog'[h].gen
          /\ rpc'[h] = "recheck" => relog'[h].gen = gen
    BY <1>2, HostFrame DEF ReloginMove, CommitOf
  <2>3. CommitOf(h) => cache'.made = relog[h].entry.made
    BY EntryFields DEF CommitOf, MemoryInv, TypeOK, ReloginMemory
  <2>4. ~overtaken /\ cache' # NoEntry => login[cache'.made].gen = gen
    BY <1>2, <2>3, HostFrame DEF ReloginMove, CommitOf
  <2> QED
    BY <2>1, <2>2, <2>4
<1>3. ASSUME NEW o \in Logouts, LogoutDone(o)
      PROVE  GenInv'
  BY <1>3 DEF LogoutDone, loginVars, hostVars
<1>4. CASE \/ \E o \in Logouts : LogoutMark(o)
           \/ \E f \in Forgets : ForgetProfile(f) \/ ForgetDone(f)
           \/ \E t \in Saves, u \in DbUsers : SaveProfile(t, u)
           \/ \E c \in Checks : CheckCall(c) \/ Check(c)
  <2>1. UNCHANGED <<gen, overtaken, login, rpc, relog>> /\ cache' \in {cache, NoEntry}
    BY <1>4 DEF LogoutMark, ForgetProfile, ForgetDone, SaveProfile, CheckCall, Check,
                cacheVars, loginVars, hostVars, history
  <2> QED
    BY <2>1
<1> QED
  BY <1>1, <1>2, <1>3, <1>4 DEF Next, Calling, Hosting

LEMMA MarkStep ==
  ASSUME TypeOK, SectionInv, MarkKept, Next
  PROVE  MarkKept'
<1> USE DEF MarkKept
<1>1. ASSUME NEW l \in Logins, Calling(l)
      PROVE  MarkKept'
  <2>1. UNCHANGED <<gen, resaved>>
        /\ \A k \in Logins : lpc[k] = "done" => lpc'[k] \in LoggedIn /\ login'[k] = login[k]
    BY <1>1, LoginFrame DEF LoginMove, LoggedIn, history
  <2>2. \A k \in Logins : lpc[k] = "done" => lpc'[k] = "done"
    BY <1>1, LoginFrame DEF LoginMove, LoggedIn
  <2>3. CASE UNCHANGED profile
    BY <2>1, <2>2, <2>3
  <2>4. CASE LoginUnmark(l)
    BY <1>1, <2>1, <2>2, <2>4 DEF LoginUnmark, LoginGoto, TypeOK, loginVars
  <2> QED
    BY <1>1, <2>3, <2>4 DEF Calling, LoginStep, LoginCall, LoginReadHost, LoginSend, LoginCms, LoginDone,
                            Age, fileVars
<1>2. ASSUME NEW h \in HostLogins, Hosting(h)
      PROVE  MarkKept'
  BY <1>2, HostFrame DEF loginVars, history
<1>3. ASSUME NEW o \in Logouts, LogoutMark(o)
      PROVE  MarkKept'
  <2>1. profile' = NoProfile \/ profile'.out
    BY <1>3, ProfileFields DEF LogoutMark, TypeOK
  <2> QED
    BY <2>1
<1>4. ASSUME NEW o \in Logouts, LogoutDone(o)
      PROVE  MarkKept'
  <2>1. profile' = NoProfile \/ profile'.out
    BY <1>4 DEF LogoutDone, SectionInv
  <2> QED
    BY <2>1
<1>5. ASSUME NEW f \in Forgets, ForgetProfile(f) \/ ForgetDone(f)
      PROVE  MarkKept'
  BY <1>5 DEF ForgetProfile, ForgetDone, cacheVars, loginVars, history
<1>6. ASSUME NEW t \in Saves, NEW u \in DbUsers, SaveProfile(t, u)
      PROVE  MarkKept'
  BY <1>6 DEF SaveProfile
<1>7. ASSUME NEW c \in Checks, CheckCall(c) \/ Check(c)
      PROVE  MarkKept'
  BY <1>7 DEF CheckCall, Check, fileVars, cacheVars, loginVars, history
<1> QED
  BY <1>1, <1>2, <1>3, <1>4, <1>5, <1>6, <1>7 DEF Next, Calling, Hosting

-----------------------------------------------------------------------------
(* The theorems *)

LEMMA LoginStepInv == LoginInv /\ [Next]_vars => LoginInv'
<1>1. LoginInv /\ Next => LoginInv'
  BY TypeStep, MemoryStep, SectionStep, TokenStep, GenStep, MarkStep DEF LoginInv
<1>2. LoginInv /\ UNCHANGED vars => LoginInv'
  <2> SUFFICES ASSUME LoginInv, UNCHANGED vars PROVE LoginInv'
    OBVIOUS
  <2> USE DEF LoginInv, vars, fileVars, cacheVars, cmsVars, loginVars, hostVars, otherVars, history
  <2>1. TypeOK'
    BY DEF TypeOK
  <2>2. MemoryInv' /\ SectionInv'
    BY DEF MemoryInv, SectionInv
  <2>3. TokenInv'
    BY DEF TokenInv, Had
  <2>4. GenInv' /\ MarkKept'
    BY DEF GenInv, MarkKept
  <2> QED
    BY <2>1, <2>2, <2>3, <2>4
<1> QED
  BY <1>1, <1>2

LEMMA LoginAlways == Spec => []LoginInv
  BY LoginInit, LoginStepInv, PTL DEF Spec

\* Every value of the module has its type.
THEOREM LoginTypeCorrect == Spec => []TypeOK
<1>1. LoginInv => TypeOK
  BY DEF LoginInv
<1> QED
  BY <1>1, LoginAlways, PTL

\* ensureDbLogin: a request goes through only if CMS has a database login under the
\* token the host has, however host logins, logins and re-logins overlapped.
THEOREM ActiveIsSound == Spec => []ActiveMeansLoggedIn
<1>1. LoginInv => ActiveMeansLoggedIn
  BY DEF LoginInv, TokenInv, ActiveMeansLoggedIn, IsDbLoginActive
<1> QED
  BY <1>1, LoginAlways, PTL

\* logoutDatabase raises the generation: no login begun before the last logout is
\* remembered after it, unless a re-login was past its last look when it came.
THEOREM LogoutIsFinal == Spec => []LogoutWins
<1>1. LoginInv => LogoutWins
  BY DEF LoginInv, GenInv, LogoutWins
<1> QED
  BY <1>1, LoginAlways, PTL

\* setProfileLoggedOut: the mark goes only with a login begun after the logout, or
\* with a new profile.
THEOREM MarkStays == Spec => []MarkKept
<1>1. LoginInv => MarkKept
  BY DEF LoginInv
<1> QED
  BY <1>1, LoginAlways, PTL
=============================================================================

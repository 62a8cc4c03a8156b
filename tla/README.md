# CUBRID Web Manager: a TLA+ model

CUBRID Web Manager is a browser and desktop client, an API server (NestJS, `apps/api-server`) and, outside
the repository, one CUBRID Manager Server (CMS) per database host, which the API server talks to over HTTPS.
The API server keeps its state in JSON files and in memory of one Node.js process. Its hard part is not data
but order: a request is many `await`s long, other requests, timers and workers run between any two of them,
the process may stop at each, and CMS goes on whatever happens to the server.

This directory models that. An action of a module is the code between two `await`s (or a write whose two
halves another program can come between); actions interleave freely.

    tlc -workers 2 -config MCCmsJob.cfg MCCmsJob      # model-check a configuration
    tlapm CmsJobProofs.tla                            # check the proofs of a module

## The system and its parts

| Part (under `apps/api-server/src` unless said) | State | Operations | What makes it correct | Status |
|---|---|---|---|---|
| `cms-job` | job files, `_global.json`, workers | createJob, runJob, recovery at start, hourly purge | one job at work per physical database; a job's status only moves forward, ends, and says what CMS did | `CmsJob`, `JobLifecycle` |
| `database/lifecycle` with `database-action-lock` | in-memory `running` map | start, stop, restart of one, selected or all databases and of the service | actions exclude each other and jobs; they report what is so; they always let go | `HostOperations` |
| `cms-job/cms-job-lock.service.ts` | none, reads `cms-job` files | hasActiveJobForHost | sees every job at work | `HostOperations` |
| `token`, `auth` | refresh-token, consuming and consumed files | login, refresh (rotation by rename), logout, family revocation, purge | one successor per token; a second use ends the family; nobody is thrown out for no reason | `RefreshToken`, `TokenRotation` |
| `database/user` | login cache, logout generations, pending re-logins, profiles | login, logout, ensureDbLogin, re-login after a host login | what is trusted CMS has; a logout that came last wins | `DbLogin` |
| `cms-auth`, `cms-https-client/cms-token-activity.ts` | host token in the user file, activity map | host login, disconnect, note use, sweep | a session never looks live after it ended | `TokenActivity`, `DbLogin` |
| `cms-https-client` (host queues), `withQueryPlanMutex` | promise chains | withHostQueue, withHostConfigQueue | one at a time, in order, nobody forgotten, nothing kept | `KeyedQueue` |
| `database/config`, `cms-config` raw save | a host's `cubrid.conf`, query plans | autostart, ha_mode, rename and forget edits, raw save, query plans | no edit lost; a raw save only over what its user saw | `ConfEdit` |
| `storage`, `repository`, `lock` | user files, lock directories | create, read, atomic update, delete | no update lost or half made; the lock comes free | `AccountStore` |
| `user`, `host` | accounts, hosts and groups in user files | register, password, preferences, hosts, groups | a host in one group, no two alike, a default host in its group | `Account`, `HostGroups` |
| `apps/web-manager`: `databaseCoreSlice`, `createSharedReads` | lists, padlocks and spinner of a host | reads (polls, user's), actions, disconnect | late answers do not take the view back; spinners stop | `SharedReads`, `DatabaseView` |
| `common` (CMS calls, polling), `util/concurrency` | none | submit, poll, deadline; bounded map | the outcome is CMS's | as steps of `CmsJob`, `HostOperations` |
| `cms-config` (statdump leases) | watchers and leases in memory | start, stop, sweep | no watcher runs on without a lease | not modelled |
| `monitoring`, `util/ha` | none | HA topology, statistics | roles and peers | not modelled |
| `database/management`, `database/backup`, `broker` | none | one CMS call each | | not modelled |
| `file`, `log`, `version`, `cms-user`, `security` | none | reads, conversions | | not modelled |
| `apps/web-manager`: `apiClient`, job tracking | tokens, tracked jobs | API calls, token refresh, job polls | one refresh at a time; a job's end is shown once | not modelled |
| `apps/desktop` (Electron), `libs`, scripts | settings | start the API, update check | | not modelled |

The parts meet in these places. `createJob` looks at the action lock's map, a lifecycle action at
`_global.json` and the job files; both drive CMS tasks on the same databases (`HostOperations` composes
them). Workers, recovery and purge rewrite the same files, only the first under the file lock. Every CMS
request of a host passes its queue, and edits of its files a second one (`ConfEdit` extends `KeyedQueue`).
Logins to databases depend on the host token, which a host login replaces (`DbLogin` has both). Accounts,
hosts and host tokens are in one file, under one lock (`AccountStore`). The web client sees all this through
answers that come late and out of order (`DatabaseView` over `SharedReads`).

## Modules

| Module | Models | Extends / implements |
|---|---|---|
| `CmsJob` | the job manager | implements `JobLifecycle` |
| `JobLifecycle` | what it promises a client of `GET /jobs` | |
| `HostOperations` | lifecycle actions, the action lock, jobs beside them | extends `CmsJob` |
| `RefreshToken` | sessions: token files, refreshes, sweeps | implements `TokenRotation` |
| `TokenRotation` | what token rotation promises | |
| `DbLogin` | database logins, re-logins and the gate before requests | |
| `TokenActivity` | how long a host is shown as connected | |
| `KeyedQueue` | the promise chain per key | |
| `ConfEdit` | edits of a host's configuration files | extends `KeyedQueue` |
| `Account` | the effects of account, host and group operations (no state) | |
| `HostGroups` | an account as its users see it: one step per operation | extends `Account` |
| `AccountStore` | the calls over a locked file | extends `Account`, implements `HostGroups` |
| `SharedReads` | requests shared by reads | |
| `DatabaseView` | lists, padlocks and spinner of a host in the web client | extends `SharedReads` |
| `MC...` | small instances for TLC | extend the module named |
| `...Proofs` | theorems | extend the module named; `HostOperationsProofs` also extends `CmsJobProofs`, `AccountStoreProofs` has those about `Account` and `HostGroups` too |

Definitions called a *variant* in their comment are plausible mistakes in the code (a check left out, a save
forgotten); nothing uses them. Put in the place of the definition that follows them, they show that each
property notices. Every module has a type invariant `TypeOK` (`HostTypeOK`); those of `CmsJob` and
`AccountStore` are checked by runs and proved, those of `HostOperations`, `RefreshToken`, `DbLogin` and
`DatabaseView` are proved.

### CmsJob and the code

`file` are the job files (status, and whether `cmsUuid` is in them), `ops` and `torn` are `_global.json`:
its last complete content, and whether its text parses. `pc` says where the request and then the worker of a
job stands: `new`, `waitLock`, `read`, `check`, `write`, `writing` are `createJob` up to its lock's release,
`entered` is the time before its record is saved, `queued` to `settling` is `runJob`, `release` and after its
`finally`. `mem` is the worker's record, `snap` the file's content a lock holder works on. `bpc`, `btodo`,
`bjob`, `bsnap` and `seen` are the same for the two background programs. `task` is CMS's task. `overtaken`,
`dropped` are history: whose entry was taken over, and whose a background rewrite left out.

* `writeGlobalOperations` is `fs.writeFile`: it truncates, then fills. In between, readers get an exception;
  a crash leaves the file unparsable; two overlapping writes may. `saveJob` writes aside and renames: one step.
* A saveJob that throws is `SaveThrows`, bounded by `MaxIoFaults`; reads that fail are the unparsable file.
* `Submit` covers both a CMS that returns a uuid and an older one that answers only when done.
* The status CMS reports is the task's own; a poll that throws, an answer that is an error, or a deadline passed
  is `CmsError` (worker) or `OrphanError` (recovery, which saves an answered error as a failed task and the
  others as interrupted, `cms-job.service.ts:168`).
* A crash frees the lock: `proper-lockfile` calls a lock stale after 30 s, and callers retry longer.
* `Age` marks a file past its limit (24 h finished, 13 h active) only when no worker of this process is at
  the job: a worker is done within its 12 h poll. That is the default; with `CMS_JOB_STALE_RUNNING_HOURS`
  set below the poll's deadline purge would remove files of running jobs.
* Left out: follow-ups of a finished job, warnings, the listing and its cache, per-user operations files, and
  what two saves of one job at once make of the temporary file they share (`cms-job.store.ts:72-76`).

### HostOperations and the code

`held` is the `running` map. `request`, `apc`, `want`, `entries`, `phase`, `todo`, `sent`, `good` are the local
variables of an action; `Steps` is the order in which each kind of action looks for jobs, lists databases and
holds. `up` and `tasks` are CMS: the databases that run, and its tasks. `Targets` is what a phase goes for,
given what `start-info` said or that it could not be read. `Send` to `Lost` are the commands: HA databases
first, one at a time, or in one command for the whole node; then the others together, which CMS turns away
on a busy database (`Busy`). An `ha_start` that fails takes its databases down, as the comments of
`runHaBulkAction` say of the engine. `stray` is history: tasks nobody waits for any more, because a poll
failed, the deadline passed, the process stopped, or their sender never held the database. `missed` is
history: the jobs not yet on record when an action looked for jobs, so that no look could find them, and, of an
action that looks before it holds, those of them past their busy check when it held.

Left out: brokers, login state (a refused login is `NotSent`), what operators do outside the API server, and
a configuration that changes while an action runs.

### RefreshToken and the code

`disk` are the files of `RefreshTokenService`: `<<"active", t>>` is `<hash>.json`, `<<"consuming", r>>` the
`<hash>.consuming.<nonce>.json` a refresh renames it to (the nonce is the refresh's own, so it is named by the
request), `<<"consumed", t>>` the record in `consumed/`. A file is absent, `empty` (`fs.writeFile` opened it)
or `whole`. `rpc` is where a request stands: `rename` to `unlink` is `consumeForRotation`, `issueTokenPair` and
`commitConsume`, `rollback` the catch, `readConsumed` to `sweep` the detection of a reuse and `revokeFamily`.
`todo` and `victim` are the listing a sweep works through and the file it has decided to unlink; `Doomed` is
its decision, which also takes files that do not parse: a file another request is writing, or one that a
refresh has renamed back since. `given`, `succ`, `loggedOut`, `revoked`, `racing`, `swept`, `lost` are history.

* Any given token may be presented at any time, also twice: by a client that repeats a call, or by a thief.
* `Expire` comes at any time after a token is made. The consumed record has the expiry of the token.
* A crash ends every call; a refresh cut short leaves its consuming file to the purge.
* Any file operation of a request may fail (`MaxFaults`): a write, which rolls the refresh back, or leaves a file
  half made; the rename or a listing, which end the request; the unlink of `commitConsume`, which changes no
  answer. A read that fails is taken for a file that does not parse, by `consumeForRotation` (`ReadTakenFails`)
  and by a sweep (`SweepReadFails`), and the file is unlinked.
* Left out: access tokens and their blacklist, `find` (which no caller uses), and an unlink of a sweep that fails,
  which is ignored and leaves the file to the next purge.

### DbLogin and the code

One database of one host. `token` and `profile` are in the user file; `busy` is a caller of `atomicUpdateUser`
between its write and the code after its `await`. `cache`, `gen`, `pending` are `dbLoginCache`,
`logoutGenerations` and `pendingRelogins`; `old` are logins longer ago than `DBMT_LOGIN_TTL_MS`. `cmsToken`
and `conlist` are CMS: the token it accepts, and the tokens a database login was made under. `lpc`, `hpc`,
`rpc`, `opc`, `fpc`, `cpc` are where each login, host login, its re-login, logout, profile deletion and
request stands; each compares the generation and the token where the code does, after which `await`. Whether
a password is right is CMS's choice. Left out: the database-user operations, which keep nothing.

### TokenActivity and the code

One host of one user, several CMS servers (the host's address may change). `activity` are the records of
`cms-token-activity`, `queue` is `hostRequestQueue` as a sequence (its own module is `KeyedQueue`), `host` the
fields of the user file `cmsSessionExpiresAt` computes from. `live`, `lastUse`, `home` are CMS. `now` is time in
units a few of which make up each of the code's durations. Time passes whatever waits: a call may be in the queue
and at CMS for any time, since most have no timeout and none has one before its turn. `Restart` empties what is
in memory. `refused`, `closed`, `before`, `outlived` (a sweep dropped the record of a disconnect before the last
call issued before it ended) and `late` (how long the answer took in which CMS last accepted the token) are
history. Left out: `getHaInfo` (reads), `testLogin` (keeps nothing), the one repeat of `getautoexecquery` (noted
twice), servers with different active times, and a change of `token_active_time` after the login.

### KeyedQueue, ConfEdit and the code

`tail` is the map from a key to the last call's promise, `after` the promise a call found, `line` the calls
of a key as they came (history). The code has this chain three times, word for word; `serializeStatdumpCall`
(`cms-config.service.ts:261`) keeps the same order, and the same check before it removes the entry, in another form.

`conf` and `plans` are the files CMS holds: which databases are in the autostart list, which have a section of
their own, and who wrote the rest; `Edited` is what each edit makes of what it read. `edit`, `by`, `read`,
`from`, `loaded`, `step` are the local variables of a call. A plan list is edited under a key made from the
user's entry of the host, `cubrid.conf` under one made from its address (`KeyOf`). `SetPlans` writes a whole
list outside the queue. `Move` gives a host another address while edits wait or run, since every request looks
the host up again; its old token means nothing there (`session`). `Fails` is any request that gets no answer:
it may have been done. Left out: broker and HA configuration files, which follow the raw save.

### Account, AccountStore and the code

`Account` gives each operation's effect as a set of results (`Effects`), with its refusals. `AccountStore` has
the calls: `Acquire` and `GiveUp` are `proper-lockfile` with its retries, `Check` to `Delete` the code under the
lock, `Unlock` the `finally` whose failure is only logged and leaves an `Orphan` lock until it is stale. A new
file is made in place (`Create` leaves it torn, `Fill` writes it), an update is written aside and renamed
(`Save`), which may fail before or after the rename. `overtaken` is history.

`updateUser` (POST /user/account) copies every key of its body into the account: `UpdateUserInfoRequest` is a
type alias, which nothing checks when the program runs. `Replaced` does that for the keys the model has,
`password`, `user_preference` and `host_groups`, and for any values that are accounts' own: a password is a hash
of one, `host_groups` a map of groups with hosts in it. Left out are bodies of other shapes, or with a uid listed
twice, and the other keys (`id` among them), with which `updateUser` makes files the other operations cannot work
with; further encryption, the value of the department, monitor lists, and the temporary files a crash leaves.

### SharedReads, DatabaseView and the code

`flight`, `stand`, `of`, `lastSeq` are `createSharedReads` and the counter of `nextSeq`. `live` and `tree` are
`databasesByHost` and its mirror in the navigator, with the sequence numbers applied to each; `padlock`,
`loggingIn`, `changedSeq`, `pending`, `loading` are the slice's fields of those names. `up`, `in` and `ver` are
the server: which databases are up and logged in to, and how often that changed, so that what is shown can be
compared in age. An answer carries what the server had when it served the request (`carried`, `got`), and
arrives later. `Close` is a disconnected or deleted host
(`closeHostTabs` and, but for the tree's own menu, `clearDatabaseLoginsForHost`), `Leave` another host
being shown (`resetDatabaseState`).
Left out: the selected database, the names of HA databases, reads across a change of the web manager's login.

## Runs

| Run (configuration) | Bounds | Shows |
|---|---|---|
| `jobs` (`MCCmsJob`) | 2 jobs on one database, recovery, 1 crash | `TypeOK`; `WorkingJobKeepsEntry`: a working job's entry is lost only to a stale check or a background rewrite, so the updates under the lock are right; `OneJobPerDatabaseUnlessLost`: and only then do two jobs meet; `SucceededMeansTaskOk` |
| `jobs_no_recovery` (`MCCmsJobNoRecovery`) | 2 jobs, no recovery, 1 crash, 1 failing save | `WorkingJobVisible`, which `hasActiveJobForHost` needs; `OvertakenOnlyUnsaved`: an entry is taken over only in the window before the first save; `ImplementsLifecycle` |
| `jobs_settle` (`MCCmsJobLive`) | 1 job, recovery, 1 crash, 1 failing save, fairness | `EveryJobSettles` |
| `jobs_window` (`MCCmsJobWindow`) | 2 jobs | violated: `OneJobPerDatabase` |
| `actions` (`MCHostOperations`) | 2 actions out of 6 kinds, 2 databases (1 HA, 1 not listed), no job, fairness | `OneActionPerDatabase`, `BulkHaStartOnlyStopped`, `SingleResultHolds`; `EveryHoldEnds`, if CMS ends every request |
| `actions_and_job` (`MCHostJobs`) | 1 action of 6 kinds, 1 job, 1 crash, no recovery | `JobBesideActionOnlyInWindow`: a look for jobs overlooks none that is on record, on whatever database |
| `refresh_tokens` (`MCRefreshToken`) | 3 tokens, one given before, 2 requests of any kind, the purge, 1 crash or failing file operation, fairness | `ImplementsRotation`, `TokenStaysGood`, `ReuseIsNoticed`, `FamilyRevoked`, `ExpiredFilesGo` |
| `db_login` (`MCDbLogin`) | 1 login, 2 host logins, 1 logout, 1 profile deletion and 1 save, 1 checked request, fairness | `ActiveMeansLoggedIn`: what the gate trusts CMS has; `LogoutWins`, `MarkKept`, `EveryCheckEnds` |
| `session_shown` (`MCTokenActivity`) | 1 host login, 2 requests, 1 disconnect, 1 change of address between 2 servers, 1 restart, time to 4: active times 2 and 3, retention 1, calls of any duration | `ClosedStaysClosed`, `NeverShownTooLong`, `RejectedStaysRejected` |
| `conf_edits` (`MCConfEdit`) | 2 edits of 9 kinds, 2 users, 2 servers, 2 databases, 1 plan, 1 change of address, fairness | `InOrder`, `EntryWhileBusy`, `EditsAreWhole`, `EveryEditEnds` |
| `accounts` (`MCAccountStore`) | 3 calls (17, 8 and 3 kinds), limit of 2 hosts, 1 crash, any failing write or release, fairness | `TypeOK`, `StoredHostsInOrder`, `AtomicUpdates` (refinement of `HostGroups`), `DeletedWithItsPassword`, `LockComesFree` |
| `database_view` (`MCDatabaseView`) | 2 reads, 1 action of any kind, 1 database, 1 change made elsewhere, 1 close, fairness | `ClosedShowsNothing`, `ReadsNeverGoBack`, `PadlocksNeverGoBack`, `LatestReadShows`, `FreshIsFresh`, `SpinnerStops` |

The bounds are small because the interesting things are pairwise.

* Jobs and actions: two jobs for one database meet in the stale check, the lock and every rewrite; the third
  party (recovery, purge) is always there. One crash puts any state before it beside any state after it. Two
  databases, one HA, one of them not listed or not autostarted, make every case of `Targets`. Jobs are
  interchangeable, hence the symmetry of `MCCmsJob`.
* Sessions: a token given before, the one a rotation makes and one more, so that a spent token, its successor
  and a token of another family are there at once; two requests race on one token, or a rotation, a
  detected reuse with its sweep, and the purge meet. The theorems below carry this to any number.
* Database logins: each kind of call once, since each compares with the one before it; host logins twice,
  since a re-login is overtaken by the next host login's.
* Activity: two requests, so that one is answered after a disconnect and after the other. The retention is as
  short as can be, so that a call outlives it, and the time bound lets a session expire and be swept with calls
  still waiting, and CMS forget a token that is shown for the default time.
* Edits: two calls with the same file of one server, from the same or different users, are all that can be
  lost to one another. A third only makes the line longer, which is the queue's matter.
* Accounts: two calls over one file race for its lock, the third creates or deletes between the two holds of
  the other's `deleteUser`. The third draws from the kinds that do that.
* View: a read that waits behind another, and an action or a close beside both. With two actions, one read and
  no change made elsewhere the properties hold too (1.03 million states, not kept as a run).

Deadlock is checked where purge always can go on (`CmsJob`); in the others all calls may be used up.

### What does not hold

`jobs_window` is a disagreement between the comments and the code:

1. **The window in createJob.** The entry is written under the lock, the record after it. A second
   `createJob` between the two finds an entry without a job, calls it stale and takes the database.
   The comments of `buildOperationKey` and `globalOperationsPath` promise that this cannot happen.

These formulas stay in the modules; TLC refutes each, in the instances above but where said:

2. `RemovalTouchesOnlyItsJob` (`CmsJob`), **a lost update**: `removeJobIdFromGlobalOperations` rewrites the
   file without the lock and can drop the entry of another job.
3. `ReconciledNotInterrupted` (`CmsJob`), **a success reported as interrupted**: when `_global.json` cannot be
   read while a re-attached job is finalized, the job, already saved as succeeded, is saved again as failed.
4. `NoJobBesideAction` (`HostOperations`), **a stop under a running job**: `createJob` checks the map before
   it waits for its lock; a stop that holds and looks for jobs in between sees none. Both go on.
5. `LogoutAlwaysWins` (`DbLogin`): a re-login past its last look at the generation puts the database back.
6. `RejectedRecordsGo` (`TokenActivity`, with two host logins): an answer to the old token's request comes
   after the next login and makes its record anew, marked as rejected, so that no sweep takes it.
   `SessionOfThisServer`: a login under way when the host's address changes stores the old server's token, and
   it is shown as live at the new one.
7. `ClosedWhateverIsSwept` (`TokenActivity`), **a closed session opened by an old request**: "A request issued
   before the user disconnected does not reopen the session, even if it was sent or answered afterwards"
   (`cms-token-activity.ts:49-51`), and a record swept is said to make a live session look expired, "never the
   reverse" (8-10). A request is issued before it waits for the host's queue (`cms-https-client.service.ts:141-144`),
   where nothing limits its wait, and most have no timeout at CMS (`cms-https-client.module.ts:15`). One accepted,
   or still waiting, when the user disconnects, and answered after the sweep has dropped the record of that, a day
   later, makes the record anew without `closedAt`.
8. `NeverShownPastCms` (`TokenActivity`): when `token_active_time` could not be read after a login, 7200 s are
   assumed (101). Of a server with less, an expired token is shown as live, also after a restart, which "can only
   make a live session look expired, never an expired one look live" (31-34).
9. `StoredHostsAlwaysInOrder` (`AccountStore`), `HostsAlwaysInOrder` (`HostGroups`): "Only allowed fields can be
   updated (currently only department)" (`user.controller.ts:148-149`), but `updateUser` copies every key of the
   body (`user.service.ts:271-277`), whose type is an alias that is gone when the program runs
   (`update-user-info-request.ts:11`): `host_groups` with two hosts of one address are stored.
10. `DeletedWithPasswordItHas` (`AccountStore`): `deleteUser` compares the password in one hold of the lock and
   removes the file in another.
11. `ListsNeverGoBack`, `OpenedOnlyAfterLogin` (`DatabaseView`): an action's answer is stamped when it returns,
   so data older than a newer read can replace it; a stop refused for want of a login of a database that is
   down counts as done and opens the padlock.

`EveryHoldEnds` and `EveryJobSettles` do not hold either without their assumption that CMS ends every request.

The properties that hold are stated so that they say exactly what is left once these are known: not "one job
per database" but "unless the entry was lost in one of these two ways", each of which has its own property
or variable (`overtaken`, `dropped`, `missed`, `swept`, `lost`, `racing`, `disturbed`, `outlived`, `late`, and
`ReplacesHosts` of a request). `EditsAreWhole` also leaves out a file read at one server and written at another
after the host's address changed, and `LatestReadShows` speaks of the live list and its padlocks, not of the tree.
`RejectedStaysRejected` ends where the host moves to another server.

Met while modelling, and kept in the models as the code has them:

* `AccountStore`: a crash or a full disk in `createAndWriteUnsafe` leaves a file nothing reads, and the name
  stays taken. An error after the rename is reported as a failure though the file changed. A release that
  fails leaves the lock until it is stale, 30 s later.
* `Account`: `markGroupHa` renames any group, also the one of ungrouped hosts, which `host-group.util.ts:13-16`
  says cannot be renamed. `deleteHostGroup` drops its hosts without `forgetCmsToken`.
* `ConfEdit`: the queue of a plan list has the key of a user's own entry of a host
  (`database-config.service.ts:802`), and `setAutoExecQuery` writes the whole list outside it; a host whose
  address changes while an edit waits is edited in another server's queue (`base.service.ts:33-36`). Two
  spellings of one address are two keys, which is not modelled.
* `DatabaseView`: an action that returns after `closeHostTabs` fills the slots of a closed host again; the
  tree's Disconnect (`Sidebar.jsx:1290`) does not clear the padlocks.

### Fairness

* `EveryJobSettles` assumes that steps of a worker once begun happen (file operations return, the lock is had
  or given up after its retries, each request to CMS ends), that recovery and purge go on, that
  the hourly timer fires and that files age. It does not assume that a CMS task ends, nor that a request is
  ever made. Purge is what guarantees the end when all else fails: a job whose worker died at its first save
  stays `queued` for 13 h and is then forgotten.
* That requests to CMS end is an assumption about CMS and the network, and the code does not see to it: polls
  (`poll-cms-async-job.ts:81-84`) and `start-info` have no timeout, and the 12 h deadline is read only between
  two polls (57). A poll left without an answer on an open connection stops its worker or action for good.
* `EveryHoldEnds` has it by name: `LocalFairness` says that the process goes on where it can, `CmsAnswers` that
  each request of an action ends, by an answer or a broken connection. CMS tasks may go on for ever.
* `ExpiredFilesGo`: steps of requests begun and of sweeps happen, and the purge's timer fires. Nobody need call.
* `EveryCheckEnds`: logouts, deletions and host logins begun go on, a re-login's CMS call is answered or times
  out, and a checked request goes on when nothing is pending. Logins of users need not end. The 30 s of a re-login
  start at the head of the host's queue: that the requests before it end is assumed.
* `EveryEditEnds`: a call whose turn has come takes it, and its requests are answered or fail, which is assumed
  of CMS as well.
* `LockComesFree`: steps of a call happen, and a lock nobody refreshes goes stale.
* `SpinnerStops`: a request to the API server is answered or times out (60 s, `apiClient.js:92-99`). Nothing else
  need happen. The refresh of the web manager's own session lies outside the module: its request has no timeout,
  and a waiter may be left after a refresh that failed (below).
* `TokenActivity` has no liveness property and no fairness.

## Proofs

All theorems hold for any sets of jobs, databases, actions, requests, tokens, calls, users, servers and hosts
and any bounds on crashes and faults. What is assumed of the constants are the named `ASSUME`s of the modules:
that marks (`NoJob`, `NoToken`, `Orphan`, ...) are none of what they stand beside, that the databases, the keys and
the tokens given before come from the sets they should, that bounds are natural numbers, that different calls of
`DbLogin` have different names, and that a body of `updateUser` lists each host once and no uuid that is yet to be
made (`BodiesAssumption`). Each invariant below was first checked by TLC on the run's instance.

* `CmsJobProofs!TypeCorrect` - `TypeOK` is inductive together with two shape facts: a sweep that is at a file
  has a job in hand (`SweepInv`), and a creator that checks an entry has read one (`CheckInv`).
* `CmsJobProofs!EntryKept`, `ExclusionUnlessLost` - `WorkingJobKeepsEntry` is not inductive: it needs that
  only the lock's holder is between reading and writing (`LockInv`), that a holder's copy still has the entry
  of every working job no background rewrite has dropped, that a creator about to write does so under a
  database no such job has, and that a finished job about to clear its entry finds its own there
  (`ReserveInv`). With that strengthening each action keeps it; exclusion follows since two jobs cannot both
  be named under one key.
* `CmsJobProofs!SuccessIsTrue` - `SucceededMeansTaskOk`. `TruthInv`: wherever a record says `succeeded` - in the
  file, in the worker's memory, in the copy a background program has read - the CMS task ended well, and a
  worker that has not submitted has no task. No crash, failing save or recovery makes one up.
* `CmsJobProofs!WorkingVisible`, `OvertakenInWindow`, `Refinement` - assuming
  `RecoverOnStartup = FALSE`. The invariant (`NoRecoveryInv`) ties each job's `pc` and `mem` to its file (a
  worker's file says what the worker last saved) and says that purge goes only for files of jobs that have
  ended. `Refinement` then maps each step to a step of `JobLifecycle` or to nothing. With recovery on, these
  three do not hold: recovery lists and finalizes jobs of its own process, as nothing awaits it.
* `HostOperationsProofs!JobsAsAlone` - a behaviour of `HostOperations` is one of `CmsJob`, so the theorems
  above hold beside lifecycle actions. `HostTypeCorrect` is the type invariant of the rest (`HostTypeOK`).
* `HostOperationsProofs!ActionsExclude` - `OneActionPerDatabase`. The invariant (`HoldInv`) says that an
  action holds what it wants, that what it wants is its hold set exactly between the hold and the release, and
  that all it goes for lies within, which fails only for `restartWholeService`: it starts the autostart list
  but holds what `start-info` listed.
* `HostOperationsProofs!BesideOnlyInWindow` - `JobBesideActionOnlyInWindow`, assuming `RecoverOnStartup = FALSE`.
  `BesideInv`: a job past its busy check on a database an action holds was not on record when the action looked
  (`missed`), lost its entry, or is in the copy of `_global.json` the action is about to look through; the same
  of an action that looks before it holds, on every database and of the jobs not asked for yet. That the look
  then finds the job is `WorkingVisible`, and that its entry is there `EntryKept`, both carried over by
  `JobsAsAlone`; with recovery a working job may be on record as failed, and the look passes over it.
* `HostOperationsProofs!HaStartOnlyStopped`, `ResultHolds` - `BulkHaStartOnlyStopped` and `SingleResultHolds`
  share `CommandInv`. A running task is waited for by the action that sent it, on databases that action
  holds, or is on record as stray, and no two that are waited for meet (`TasksInv`, which needs `HoldInv`);
  so what a task or an answer has settled at CMS stays settled until a stray undoes it (`DoneInv`); and a bulk
  start still has an HA database to do only while that is down (`StartInv`), since it has asked again.
  `AskedInv` says which request is in which phase.
* `RefreshTokenProofs!TypeCorrect` - `TypeOK` is inductive with the shape of calls (`CallInv`: what a request
  holds at each point of a rotation) and of new tokens (`MadeInv`: a token has one maker, and files only when made).
* `RefreshTokenProofs!SessionsAreChains` - the refinement of `TokenRotation`. `ChainInv`: a token's root file,
  its consuming file and its successor exclude each other, so the request whose rename took the file is the
  only one to replace the token, and its unlink is the `Rotate` step.
* `RefreshTokenProofs!GoodTokensStay` - `GoodInv`: what a sweep is about to unlink is expired, revoked or was
  unreadable (`SweepInv`), and a rotation under way still has its consuming file unless a sweep took it
  (`HeldInv`).
* `RefreshTokenProofs!SecondUseIsNoticed` - `RecordInv`: from `CommitFill` on the consumed record is there, and
  no sweep takes it before the token expires but one that read it half written.
* `RefreshTokenProofs!ReuseEndsTheFamily` - `FamilyInv`: while a sweep is at work, each usable token of the
  family is either still in its listing or belongs to a rotation that was under way when it listed.
* `DbLoginProofs!LoginTypeCorrect`, `ActiveIsSound`, `LogoutIsFinal`, `MarkStays` - one invariant (`LoginInv`).
  `ActiveMeansLoggedIn` needs `TokenInv`: the host never has a token again that it had before, so a call that
  finds the token it started with has also sent its login with it. `LogoutWins` needs `GenInv`: unless a
  re-login was overtaken, what is cached was logged in at this generation, and so was what a re-login past its
  last look is about to cache. `MarkKept` needs `SectionInv`: between a logout's write and its count nobody
  else writes the user file. `MemoryInv` says that what calls remember is there.
* `TokenActivityProofs!ClosedIsClosed`, `ShownInTime`, `RejectedIsFinal` - `ActivityInv`, with no bound on how
  long a call takes. Closing: while a call issued before the disconnect is under way, the record still says when
  it was closed, or a sweep has outlived the disconnect (`ClosedInv`), and no call bears a time to come
  (`TimeInv`). In time: the login and the record the host's end is computed from are at most `late` after the use
  CMS counted (`UseInv`). Rejected: the host's token keeps its mark (`RefusedInv`), and no token is in use before
  it is stored (`FreshInv`). The order of the queues plays
  no part, nor does the type of `queue`: `SelectSeq` is recursive, and what it keeps is out of the provers' reach.
* `DatabaseViewProofs!ViewTypeCorrect`, `ClosedShows`, `ReadsInOrder`, `PadlocksInOrder`, `LatestShown`,
  `FreshReads` - `ViewInv`. Nothing the client has is newer than the server (`ShownInv`), so what a request in
  flight reads is no older than what was shown when it was sent; and what came since has a larger stamp and is
  not replaced (`OrderInv`). `OrderInv` also says that a user's read is answered with what was so after it was asked.
  The list's stamp is never that of the request in flight (`AskedInv`), so an answer sent last is not taken for
  one already shown. A closed host has no pending reads (`ClosedInv`).
* `AccountStoreProofs!EffectsInOrder`, `AlwaysInOrder` - each operation leaves an account in order
  (a host in one group and once, addresses and aliases apart, a default host in its group, the limit kept)
  and adds no uuid but its own, but for an `updateUser` that replaces `host_groups`; so in any sequence of
  operations only such a one takes an account out of order. What every operation keeps is the invariant (`Sound`:
  an account with finitely many hosts).
* `AccountStoreProofs!StoreTypeCorrect`, `StoredInOrder`, `DeletionSound`, `StoreRefines` - the invariant says
  that at most one call is between reading and unlocking and has the lock, and that what it read is what the
  file holds. So each save is one step of `HostGroups`, and `StoredHostsInOrder` follows: the file falls out of
  order only at the save of an `updateUser` that replaces `host_groups`.
* `ConfEditProofs!OneAtATime`, `NothingKept` - `LineInv`: the calls in line for a key are each there once,
  each but the first waits for the one before it, and the map holds the last (`Linked`, `LastOf`). So only the
  first can run, whatever leaves while another comes.
* `ConfEditProofs!WholeEdits` - `EditInv`: while no host has moved all edits of `cubrid.conf` have one key
  (`KeyInv`); only edits of plan lists, or after a move, are disturbed by another queue's call
  (`DisturbedInv`); and what a call is about to write over is what it read, unless it was disturbed
  (`ReadInv`), since of one queue no two calls are at their file.

Model-checked only: `EveryJobSettles`, `EveryHoldEnds`, `ExpiredFilesGo`, `EveryCheckEnds`, `EveryEditEnds`,
`LockComesFree`, `SpinnerStops`: liveness under fairness is outside what TLAPS does. Every invariant, action
property and refinement a passing run checks is a theorem, four of them (`WorkingJobVisible`, `OvertakenOnlyUnsaved`,
`ImplementsLifecycle`, `JobBesideActionOnlyInWindow`) without recovery only, as in their runs.

## Not modelled

* Statdump watchers: leases renewed by the client and stopped by timers. The stop-against-renewal order
  (`cms-config.service.ts:286`) is listed as a hazard. CMS never ends a watcher by itself (57): one left without
  a lease runs until a later start gives it one again.
* Web client session (`apiClient.js`): one token refresh at a time with waiters, reconnection of hosts. Three
  orders are worth a model: a refresh that stores tokens after a logout; two browser tabs that refresh with
  one token and so set off the detection of a reuse (the server's side is in `RefreshToken`); a waiter pushed
  between the end of a failed refresh and the reset of its flag, which nobody answers (`apiClient.js:465-472`).
* Web client job tracking: polls of jobs and a list of ids; a list answered late replaces a newer one
  (`CmsJobContext.jsx:254`).
* Database management, backup, brokers, monitoring, files, logs, versions, CMS users: one CMS call each and a
  mapping of its answer; their edits of configuration files and their jobs are in `ConfEdit` and `CmsJob`.
* A copy locks its destination and a rename its old name only (`cms-job.types.ts:68`): jobs whose databases
  overlap in the other name are not kept apart, and `DbOf` gives each job just the one.
* Encryption, passwords, parsing: functions of strings. Desktop shell, shared types, generated catalogs,
  labels, scripts, pages and styles: no state of the kind modelled here. They are most of the repository's
  lines, which is why the share of lines the models stand for is small.

## Plan

1. `StatdumpWatcher`: leases against stops and sweeps.
2. `ApiClient`, `CmsJobTracking`: the web client's token refresh and job polls, the first composed with
   `RefreshToken`, the second against `JobLifecycle`.
3. HA topology and the lock summary as operators, against reference definitions.
4. Proofs: the type of the queue in `TokenActivity`; that the promise chain of `KeyedQueue` is the queue
   `TokenActivity` has as a sequence; what of `JobBesideActionOnlyInWindow` is left with recovery on.

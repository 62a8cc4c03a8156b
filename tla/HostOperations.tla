--------------------------- MODULE HostOperations ---------------------------
(***************************************************************************)
(* One CMS host: the start, stop and restart of its databases              *)
(* (DatabaseLifecycleService with the in-memory database-action-lock)      *)
(* beside the CMS jobs of the same host (module CmsJob, which this module  *)
(* composes with).                                                         *)
(*                                                                         *)
(* A lifecycle action and a job keep each other out by two checks on two   *)
(* different stores: createJob looks at the `running` map of the action    *)
(* lock, an action looks at _global.json and the job files.  An action     *)
(* holds its databases in the map while it reads which of them run, sends  *)
(* startdb/stopdb/ha_start/ha_stop and follows these CMS tasks to their    *)
(* end.  Databases change state only by these tasks: what happens outside  *)
(* the API server is left out.                                             *)
(***************************************************************************)
EXTENDS CmsJob

CONSTANTS
  Actions,    \* lifecycle requests, each used once
  NoAction,   \* no entry in the `running` map
  Requests,   \* what a client may ask for: a subset of Request
  HaDbs,      \* ha_db_list of cubrid_ha.conf
  HaModeOn,   \* ha_mode of cubrid.conf is not off
  Autostart,  \* `server=` of cubrid.conf, empty when `service=` has no server
  Listed      \* start-info's dblist: the databases.txt entries of this host's name

\* "service" is startWholeService and stopWholeService, "restart" restartWholeService.
Modes   == {"single", "selected", "all", "service", "restart"}
Phases  == {"start", "stop"}
Request == [mode : Modes, what : Phases \cup {"restart"}, dbs : SUBSET Dbs]
NoRequest == [mode |-> "single", what |-> "start", dbs |-> {}]

ActionPc == {"begin", "precheck", "prelook", "list", "check", "look", "hold",
             "plan", "reread", "act", "confirm", "done"}

ASSUME NoActionAssumption == NoAction \notin Actions
ASSUME HostAssumption ==
  /\ HaDbs \subseteq Dbs /\ Autostart \subseteq Dbs /\ Listed \subseteq Dbs
  /\ HaModeOn \in BOOLEAN
ASSUME RequestsAssumption ==
  /\ Requests \subseteq Request
  /\ Requests # {}
  /\ \A r \in Requests : /\ r.mode = "single"  => \E d \in Dbs : r.dbs = {d}
                         /\ r.mode \in {"all", "service"} => r.what # "restart"
                         /\ r.mode = "restart" => r.what = "restart"

VARIABLES
  held,      \* the `running` map of database-action-lock
  request,   \* what each action was asked, with the databases it goes for
  apc,       \* where an action stands
  want,      \* the databases an action holds
  entries,   \* its copy of _global.json, while it looks for active jobs
  phase,     \* what it is doing now: start or stop
  todo,      \* the databases it has still to send a command for
  sent,      \* those whose command it waits for
  good,      \* those whose command succeeded, or that a single start found running
  up,        \* the databases that run
  tasks,     \* CMS's tasks: [by, dbs, do, st]
  stray,     \* history: <<d, do>> for tasks no holder of d waits for
  missed     \* history: jobs not yet on record when an action looked, past their check when it held

actionVars == <<held, request, apc, want, entries, phase, todo, sent, good>>
cmsVars    == <<up, tasks>>
hostVars   == <<actionVars, cmsVars, stray, missed>>

-----------------------------------------------------------------------------
\* getServiceHaDbNames: an HA node's databases, for the whole-service actions;
\* getHaDbNames for the others.
Whole(a)   == request[a].mode \in {"service", "restart"}
HaNames(a) == IF Whole(a) /\ ~HaModeOn THEN {} ELSE HaDbs

\* The order of an action's steps: only a single one holds before it looks for jobs.
Steps ==
  [single   |-> [begin |-> "hold",     look |-> "plan", list |-> "done", hold |-> "check"],
   selected |-> [begin |-> "check",    look |-> "hold", list |-> "done", hold |-> "plan"],
   all      |-> [begin |-> "check",    look |-> "hold", list |-> "done", hold |-> "plan"],
   service  |-> [begin |-> "precheck", look |-> "hold", list |-> "check", hold |-> "plan"],
   restart  |-> [begin |-> "check",    look |-> "list", list |-> "hold", hold |-> "plan"]]

After(a, step) == Steps[request[a].mode][step]

\* Which of a set of databases a start or a stop applies to.
Needed(do, dbs) == IF do = "start" THEN dbs \ up ELSE dbs \cap up

ActionGoto(a, label) == apc' = [apc EXCEPT ![a] = label]

\* The `finally` of withDatabaseActionLock.
Release(a) ==
  /\ ActionGoto(a, "done")
  /\ held' = [d \in Dbs |-> IF d \in want[a] THEN NoAction ELSE held[d]]
  /\ want' = [want EXCEPT ![a] = {}]
  /\ todo' = [todo EXCEPT ![a] = {}]
  /\ sent' = [sent EXCEPT ![a] = {}]

-----------------------------------------------------------------------------
HostInit ==
  /\ Init
  /\ held = [d \in Dbs |-> NoAction]
  /\ request = [a \in Actions |-> NoRequest]
  /\ apc = [a \in Actions |-> "begin"]
  /\ want = [a \in Actions |-> {}]
  /\ entries = [a \in Actions |-> EmptyOps]
  /\ phase = [a \in Actions |-> "start"]
  /\ todo = [a \in Actions |-> {}]
  /\ sent = [a \in Actions |-> {}]
  /\ good = [a \in Actions |-> {}]
  /\ up \in SUBSET Dbs
  /\ tasks = {}
  /\ stray = {}
  /\ missed = [a \in Actions |-> {}]

-----------------------------------------------------------------------------
(* Before the commands: the hold, and the look for active jobs *)

\* Variant: what was asked is taken for the phase.
BeginVerbatim(a) ==
  /\ apc[a] = "begin"
  /\ \E r \in Requests :
       /\ request' = [request EXCEPT ![a] = r]
       /\ phase' = [phase EXCEPT ![a] = r.what]
       /\ ActionGoto(a, Steps[r.mode].begin)
  /\ UNCHANGED <<vars, held, want, entries, todo, sent, good, cmsVars, stray, missed>>

Begin(a) ==
  /\ apc[a] = "begin"
  /\ \E r \in Requests :
       /\ request' = [request EXCEPT ![a] = r]
       /\ phase' = [phase EXCEPT ![a] = IF r.what = "start" THEN "start" ELSE "stop"]
       /\ ActionGoto(a, Steps[r.mode].begin)
  /\ UNCHANGED <<vars, held, want, entries, todo, sent, good, cmsVars, stray, missed>>

\* What a look cannot find: a job whose record is not saved yet, also one not asked
\* for yet, unless the action holds its database already.
JobsNotOnRecord(a) ==
  {j \in Jobs : \/ pc[j] \in {"waitLock", "entered"} \cup Creating
                \/ pc[j] = "new" /\ held[DbOf[j]] # a}

JobsPastBusyCheck == {j \in Jobs : pc[j] \in {"waitLock"} \cup Creating \cup Working}

\* The databases an action holds: those it was asked for or listed, and the HA ones.
HoldSet(a) == request[a].dbs \cup IF request[a].mode \in {"single", "selected"} THEN {} ELSE HaNames(a)

\* Variant: the map is not looked at.
HoldAnyway(a) ==
  LET dbs == HoldSet(a) IN
  /\ apc[a] = "hold"
  /\ held' = [d \in Dbs |-> IF d \in dbs THEN a ELSE held[d]]
  /\ want' = [want EXCEPT ![a] = dbs]
  /\ missed' = [missed EXCEPT ![a] = @ \cap JobsPastBusyCheck]
  /\ ActionGoto(a, After(a, "hold"))
  /\ UNCHANGED <<vars, request, entries, phase, todo, sent, good, cmsVars, stray>>

\* holdingDatabases: all of them, or DatabaseActionInProgress.
Hold(a) ==
  LET dbs == HoldSet(a) IN
  /\ apc[a] = "hold"
  /\ IF \A d \in dbs : held[d] = NoAction
     THEN /\ held' = [d \in Dbs |-> IF d \in dbs THEN a ELSE held[d]]
          /\ want' = [want EXCEPT ![a] = dbs]
          /\ missed' = [missed EXCEPT ![a] = @ \cap JobsPastBusyCheck]
          /\ ActionGoto(a, After(a, "hold"))
     ELSE ActionGoto(a, "done") /\ UNCHANGED <<held, want, missed>>
  /\ UNCHANGED <<vars, request, entries, phase, todo, sent, good, cmsVars, stray>>

\* hasActiveJobForHost: the operations first ...
ReadOperations(a) ==
  /\ apc[a] \in {"precheck", "check"}
  /\ IF Readable
     THEN /\ entries' = [entries EXCEPT ![a] = ops]
          /\ missed' = [missed EXCEPT ![a] = JobsNotOnRecord(a)]
          /\ ActionGoto(a, IF apc[a] = "check" THEN "look" ELSE "prelook")
          /\ UNCHANGED <<held, want, todo, sent>>
     ELSE Release(a) /\ UNCHANGED <<entries, missed>>
  /\ UNCHANGED <<vars, request, phase, good, cmsVars, stray>>

\* Variant: only jobs on the databases asked for are looked at.
LookForItsJobs(a) ==
  /\ apc[a] \in {"prelook", "look"}
  /\ IF \E d \in request[a].dbs : entries[a][d] # NoJob /\ file[entries[a][d]].status \in Active
     THEN Release(a)
     ELSE /\ ActionGoto(a, IF apc[a] = "look" THEN After(a, "look") ELSE "list")
          /\ UNCHANGED <<held, want, todo, sent>>
  /\ entries' = [entries EXCEPT ![a] = EmptyOps]
  /\ UNCHANGED <<vars, request, phase, good, cmsVars, stray, missed>>

\* ... then the file of each job they name, on any database of the host.
LookForJobs(a) ==
  /\ apc[a] \in {"prelook", "look"}
  /\ IF \E d \in Dbs : entries[a][d] # NoJob /\ file[entries[a][d]].status \in Active
     THEN Release(a)            \* OperationInProgress
     ELSE /\ ActionGoto(a, IF apc[a] = "look" THEN After(a, "look") ELSE "list")
          /\ UNCHANGED <<held, want, todo, sent>>
  /\ entries' = [entries EXCEPT ![a] = EmptyOps]
  /\ UNCHANGED <<vars, request, phase, good, cmsVars, stray, missed>>

\* The databases a whole-service action goes for: start-info's, running ones
\* included, or for a start the autostart list.
ListDatabases(a) ==
  /\ apc[a] = "list"
  /\ request' = [request EXCEPT ![a].dbs = IF request[a].what = "start" THEN Autostart ELSE Listed \cup up]
  /\ ActionGoto(a, After(a, "list"))
  /\ UNCHANGED <<vars, held, want, entries, phase, todo, sent, good, cmsVars, stray, missed>>

\* Variant: an exception leaves the databases held.
ThrowsHolding(a) ==
  /\ \/ apc[a] \in {"precheck", "check", "list", "hold"}
     \/ apc[a] = "plan" /\ request[a].mode \in {"single", "selected", "restart"}
  /\ ActionGoto(a, "done")
  /\ UNCHANGED <<vars, held, request, want, entries, phase, todo, sent, good, cmsVars, stray, missed>>

\* CMS cannot be reached, or a reading that must succeed does not.
Throws(a) ==
  /\ \/ apc[a] \in {"precheck", "check", "list", "hold"}
     \/ apc[a] = "plan" /\ request[a].mode \in {"single", "selected", "restart"}
  /\ Release(a)
  /\ UNCHANGED <<vars, request, entries, phase, good, cmsVars, stray, missed>>

-----------------------------------------------------------------------------
(* The commands *)

\* What a phase goes for, by what start-info said of the running databases; an
\* unreadable list is no reason to stop, except for the selected.
Targets(a) ==
  LET r     == request[a]
      ha    == HaNames(a)
      plain == (CASE r.mode = "restart" -> IF phase[a] = "start" THEN Autostart ELSE Listed \cup up
                  [] OTHER -> r.dbs) \ ha IN
  CASE r.mode = "single"   -> IF r.what = "start" /\ r.dbs \subseteq ha
                              THEN {r.dbs, Needed("start", r.dbs)} ELSE {r.dbs}
    [] r.mode = "selected" -> {Needed(phase[a], r.dbs \cap (Listed \cup up))}
    [] r.mode = "all"      -> {plain, plain \cup Needed(phase[a], ha), Needed(phase[a], plain \cup ha)}
    [] OTHER               -> {ha \cup plain, ha \cup Needed(phase[a], plain)}
                                \cup IF r.mode = "restart" /\ phase[a] = "stop" THEN {{}} ELSE {}

Plan(a) ==
  /\ apc[a] = "plan"
  /\ \E dbs \in Targets(a) :
       /\ todo' = [todo EXCEPT ![a] = dbs]
       /\ good' = [good EXCEPT ![a] = IF request[a].mode = "single" THEN request[a].dbs \ dbs ELSE {}]
  /\ ActionGoto(a, IF request[a].mode = "selected" THEN "reread" ELSE "act")
  /\ UNCHANGED <<vars, held, request, want, entries, phase, sent, cmsVars, stray, missed>>

\* runHaBulkAction reads for itself which of its databases need the command; it
\* sends nothing to any when it cannot.
RereadHa(a) ==
  LET ha == todo[a] \cap HaDbs IN
  /\ apc[a] = "reread"
  /\ \E keep \in {{}, Needed(phase[a], ha)} : todo' = [todo EXCEPT ![a] = (todo[a] \ ha) \cup keep]
  /\ ActionGoto(a, "act")
  /\ UNCHANGED <<vars, held, request, want, entries, phase, sent, good, cmsVars, stray, missed>>

\* The HA databases go first: the node's in one command, others one at a time.
Unit(a, dbs) ==
  LET ha == todo[a] \cap HaNames(a) IN
  IF ha = {} THEN (\E d \in todo[a] : dbs = {d}) /\ sent[a] \cap HaNames(a) = {}
  ELSE IF Whole(a) THEN dbs = ha
  ELSE (\E d \in ha : dbs = {d}) /\ sent[a] = {}

\* CMS turns away startdb and stopdb on a busy database, not ha_start and ha_stop.
Busy(d) == \E t \in tasks : d \in t.dbs

Send(a) ==
  /\ apc[a] = "act"
  /\ \E dbs \in SUBSET todo[a] :
       /\ Unit(a, dbs)
       /\ dbs \subseteq HaNames(a) \/ \A d \in dbs : ~Busy(d)
       /\ todo' = [todo EXCEPT ![a] = @ \ dbs]
       /\ sent' = [sent EXCEPT ![a] = @ \cup dbs]
       /\ tasks' = tasks \cup {[by |-> a, dbs |-> dbs, do |-> phase[a], st |-> "running"]}
       /\ stray' = stray \cup ((dbs \ want[a]) \X {phase[a]})
  /\ UNCHANGED <<vars, held, request, apc, want, entries, phase, good, up, missed>>

\* No login for the database, or CMS does not take the command.
NotSent(a) ==
  /\ apc[a] = "act"
  /\ \E dbs \in SUBSET todo[a] : Unit(a, dbs) /\ todo' = [todo EXCEPT ![a] = @ \ dbs]
  /\ UNCHANGED <<vars, held, request, apc, want, entries, phase, sent, good, cmsVars, stray, missed>>

\* The tasks an action polls, those of the phase it is in.
Awaited(t) == t.dbs \subseteq sent[t.by] /\ t.do = phase[t.by]

\* Variant: the status in the answer is not checked.
AnsweredUnchecked(a) ==
  /\ apc[a] = "act"
  /\ \E t \in tasks :
       /\ t.by = a /\ Awaited(t) /\ t.st # "running"
       /\ tasks' = tasks \ {t}
       /\ sent' = [sent EXCEPT ![a] = @ \ t.dbs]
       /\ good' = [good EXCEPT ![a] = @ \cup t.dbs]
  /\ UNCHANGED <<vars, held, request, apc, want, entries, phase, todo, up, stray, missed>>

\* The answer of the last poll.
Answered(a) ==
  /\ apc[a] = "act"
  /\ \E t \in tasks :
       /\ t.by = a /\ Awaited(t) /\ t.st # "running"
       /\ tasks' = tasks \ {t}
       /\ sent' = [sent EXCEPT ![a] = @ \ t.dbs]
       /\ good' = [good EXCEPT ![a] = IF t.st = "ok" THEN @ \cup t.dbs ELSE @]
  /\ UNCHANGED <<vars, held, request, apc, want, entries, phase, todo, up, stray, missed>>

\* A poll errs or the 12h deadline passes: the command counts as failed and its
\* task goes on.  A single stop with an ambiguous error looks whether it worked.
Lost(a) ==
  /\ apc[a] = "act"
  /\ \E t \in tasks :
       /\ t.by = a /\ Awaited(t)
       /\ sent' = [sent EXCEPT ![a] = @ \ t.dbs]
       /\ tasks' = IF t.st = "running" THEN tasks ELSE tasks \ {t}
       /\ stray' = IF t.st = "running" THEN stray \cup (t.dbs \X {t.do}) ELSE stray
  /\ \/ UNCHANGED apc
     \/ /\ request[a].mode = "single" /\ request[a].what = "stop"
        /\ request[a].dbs \cap HaDbs = {}
        /\ ActionGoto(a, "confirm")
  /\ UNCHANGED <<vars, held, request, want, entries, phase, todo, good, up, missed>>

\* Up to six readings of the running list, then the stop's own error.
Confirm(a) ==
  /\ apc[a] = "confirm"
  /\ \/ /\ request[a].dbs \cap up = {}
        /\ good' = [good EXCEPT ![a] = request[a].dbs]
     \/ UNCHANGED good
  /\ Release(a)
  /\ UNCHANGED <<vars, request, entries, phase, cmsVars, stray, missed>>

\* Every command has its outcome.  A restart starts what it stopped, restartWholeService
\* what startWholeService would.
PhaseOver(a) ==
  LET r == request[a] IN
  /\ apc[a] = "act" /\ todo[a] = {} /\ sent[a] = {}
  /\ IF r.what = "restart" /\ phase[a] = "stop" /\ (r.mode = "restart" \/ good[a] # {})
     THEN /\ phase' = [phase EXCEPT ![a] = "start"]
          /\ todo' = [todo EXCEPT ![a] = IF r.mode = "restart" THEN {} ELSE good[a]]
          /\ good' = [good EXCEPT ![a] = {}]
          /\ ActionGoto(a, CASE r.mode = "restart"  -> "plan"
                             [] r.mode = "selected" -> "reread"
                             [] OTHER               -> "act")
          /\ UNCHANGED <<held, want, sent>>
     ELSE Release(a) /\ UNCHANGED <<phase, good>>
  /\ UNCHANGED <<vars, request, entries, cmsVars, stray, missed>>

\* CMS finishes a command.  An HA start that fails takes its databases down.
CommandEnds ==
  /\ \E t \in tasks, st \in {"ok", "failed"} :
       /\ t.st = "running"
       /\ tasks' = (tasks \ {t}) \cup IF Awaited(t) THEN {[t EXCEPT !.st = st]} ELSE {}
       /\ up' = CASE t.do = "start" /\ st = "ok" -> up \cup t.dbs
                  [] t.do = "stop" /\ st = "ok"  -> up \ t.dbs
                  [] t.do = "start" /\ st = "failed" /\ t.dbs \subseteq HaDbs -> up \ t.dbs
                  [] OTHER -> up
  /\ UNCHANGED <<vars, actionVars, stray, missed>>

-----------------------------------------------------------------------------
(* The jobs of the host, and the process *)

\* Variant: createJob does not look at the map.
BusyUnchecked(j) == pc[j] = "new" /\ pc'[j] # "new" => pc'[j] = "waitLock"

\* createJob's busyDatabase: refused when an action holds the database.
BusyChecked(j) ==
  pc[j] = "new" /\ pc'[j] # "new" => pc'[j] = IF held[DbOf[j]] = NoAction THEN "waitLock" ELSE "ended"

JobsMove ==
  /\ Next
  /\ \A j \in Jobs : BusyChecked(j)
  /\ UNCHANGED <<crashes, hostVars>>

\* The map and the actions are gone, CMS's tasks are not.
HostCrash ==
  /\ Crash
  /\ held' = [d \in Dbs |-> NoAction]
  /\ apc' = [a \in Actions |-> IF apc[a] = "begin" THEN "begin" ELSE "done"]
  /\ want' = [a \in Actions |-> {}]
  /\ entries' = [a \in Actions |-> EmptyOps]
  /\ todo' = [a \in Actions |-> {}]
  /\ sent' = [a \in Actions |-> {}]
  /\ good' = [a \in Actions |-> {}]
  /\ tasks' = {t \in tasks : t.st = "running"}
  /\ stray' = stray \cup UNION {t.dbs \X {t.do} : t \in tasks'}
  /\ UNCHANGED <<request, phase, up, missed>>

\* The steps the process takes by itself, and those that end a request to CMS.
LocalStep(a) == Hold(a) \/ ReadOperations(a) \/ LookForJobs(a) \/ PhaseOver(a)
CmsStep(a) ==
  \/ ListDatabases(a) \/ Throws(a) \/ Plan(a) \/ RereadHa(a) \/ Send(a) \/ NotSent(a)
  \/ Answered(a) \/ Lost(a) \/ Confirm(a)

ActionStep(a) == LocalStep(a) \/ CmsStep(a)

HostNext ==
  \/ \E a \in Actions : Begin(a) \/ ActionStep(a)
  \/ CommandEnds
  \/ JobsMove
  \/ HostCrash

hvars == <<vars, hostVars>>

HostSpec == HostInit /\ [][HostNext]_hvars

\* The process goes on when it can.
LocalFairness == \A a \in Actions : WF_hvars(LocalStep(a))

\* Assumed of the environment: every request to CMS ends, by an answer or a broken
\* connection.  The code does not see to that: of the requests of an action only a
\* command's submission has a timeout, which runs from the head of the host's queue;
\* polls and start-info have none, and the 12 h deadline is read between two polls.
CmsAnswers == \A a \in Actions : WF_hvars(CmsStep(a))

HostFairSpec == HostSpec /\ LocalFairness /\ CmsAnswers

-----------------------------------------------------------------------------
(* Properties *)

\* What the action lock's map, the actions and CMS's task list hold.
HostTypeOK ==
  /\ held \in [Dbs -> Actions \cup {NoAction}]
  /\ request \in [Actions -> Request]
  /\ apc \in [Actions -> ActionPc]
  /\ want \in [Actions -> SUBSET Dbs]
  /\ entries \in [Actions -> Ops]
  /\ phase \in [Actions -> Phases]
  /\ todo \in [Actions -> SUBSET Dbs]
  /\ sent \in [Actions -> SUBSET Dbs]
  /\ good \in [Actions -> SUBSET Dbs]
  /\ up \subseteq Dbs
  /\ tasks \subseteq [by : Actions, dbs : SUBSET Dbs, do : Phases, st : {"running", "ok", "failed"}]
  /\ stray \subseteq Dbs \X Phases
  /\ missed \in [Actions -> SUBSET Jobs]

Acting(a) == todo[a] \cup sent[a]

\* withDatabaseActionLock: two actions never work on one database at a time,
\* unless it is one that restartWholeService went for without holding it.
OneActionPerDatabase ==
  \A a, b \in Actions : \A d \in Acting(a) \cap Acting(b) :
    a = b \/ \E c \in {a, b} : request[c].mode = "restart" /\ d \notin want[c]

\* hasActiveJobForHost, holdingDatabases and createJob's busyDatabase: an action runs
\* beside a job on a database it holds only when the job was not yet on record when
\* the action looked and past its busy check when it held, or had lost its entry.  A
\* job on record when the action looked is never overlooked.
JobBesideActionOnlyInWindow ==
  \A a \in Actions, j \in Jobs :
    /\ apc[a] \in {"plan", "reread", "act", "confirm"}
    /\ held[DbOf[j]] = a
    /\ pc[j] \in Working
    => j \in missed[a] \cup overtaken \cup dropped

\* assertNoActiveJob's policy (database-lifecycle.service.ts:172-178) and what restartWholeService
\* says of the databases it holds (989-991): no command goes to a database while its job runs.
NoJobBesideAction ==
  \A a \in Actions, j \in Jobs : DbOf[j] \in sent[a] => pc[j] # "polling"

\* runHaBulkAction: ha_start never goes to a running database, which it could stop;
\* a task nobody waits for may have started it meanwhile.
BulkHaStartOnlyStopped ==
  [][\A t \in tasks' \ tasks :
       /\ t.st = "running" /\ t.do = "start" /\ t.dbs \subseteq HaDbs
       /\ request[t.by].mode \in {"selected", "all"}
       => \A d \in t.dbs : d \notin up \/ <<d, "start">> \in stray]_hvars

\* startDatabase, stopDatabase and restartDatabase: what they report done holds when they
\* let the database go, unless a task nobody waits for undid it.
SingleResultHolds ==
  [][\A a \in Actions :
       /\ request[a].mode = "single" /\ apc[a] \in {"act", "confirm"} /\ apc'[a] = "done"
       /\ good'[a] = request[a].dbs
       => \A d \in request[a].dbs :
            IF request[a].what = "stop" THEN d \notin up' \/ <<d, "start">> \in stray
                                        ELSE d \in up' \/ \E do \in Phases : <<d, do>> \in stray]_hvars

\* The `finally` of withDatabaseActionLock: whatever is refused, fails or is lost, no
\* action keeps a database for good, as long as CmsAnswers; a poll that CMS never
\* answers on an open connection keeps it.
EveryHoldEnds == \A d \in Dbs, a \in Actions : held[d] = a ~> held[d] # a
=============================================================================

------------------------------- MODULE CmsJob -------------------------------
(***************************************************************************)
(* The CMS job manager of the API server: CmsJobService and CmsJobStore.   *)
(*                                                                         *)
(* A job is a long CMS task (unload, load, backup, ...) on one database.   *)
(* createJob reserves the database in jobs/operations/_global.json, saves  *)
(* the job's own file and starts a worker (runJob) that submits the task   *)
(* to CMS, polls it to its end, saves the outcome and gives the database   *)
(* back.  Two more programs of the same process touch the same files: the  *)
(* start-up recovery of jobs a previous process left active, and the       *)
(* hourly purge.  Every `await` of the source is a point where another     *)
(* program may step in, so an action is the code between two of them.      *)
(***************************************************************************)
EXTENDS Naturals

CONSTANTS
  Jobs,              \* job ids (uuidv4), each used by one createJob
  Dbs,               \* operation keys: a physical host and a database name
  DbOf,              \* the operation key a job's request resolves to
  Composite,         \* the jobs of type 'create', which recovery never re-attaches
  NoJob,             \* no entry under an operation key
  RecoverOnStartup,  \* CMS_JOB_RECOVER_ON_STARTUP is not 'false'
  MaxCrashes,        \* bound: process crashes in a behaviour
  MaxIoFaults        \* bound: saveJob calls that throw in a behaviour

ASSUME DbOfAssumption == DbOf \in [Jobs -> Dbs]
ASSUME CompositeAssumption == Composite \subseteq Jobs
ASSUME NoJobAssumption == NoJob \notin Jobs
ASSUME BoundsAssumption ==
  /\ RecoverOnStartup \in BOOLEAN
  /\ MaxCrashes \in Nat
  /\ MaxIoFaults \in Nat

VARIABLES
  file,     \* the job files: status and whether cmsUuid is in it; "none" is no file
  ops,      \* what the last complete write left in _global.json
  torn,     \* _global.json does not parse: a write of it was cut short or overlapped
  lock,     \* holder of the file lock 'jobs-ops-global'
  pc,       \* where the request, then the worker, of a job stands
  mem,      \* the worker's own copy of its job record
  snap,     \* the copy of _global.json a lock holder works on
  bpc,      \* where the two background programs stand
  btodo,    \* the jobs they have still to look at
  bjob,     \* the job they are at
  bsnap,    \* the copy of _global.json they work on
  seen,     \* recovery's copies of the job records it listed
  task,     \* CMS's side: the task a job submitted
  aged,     \* the jobs whose file is past its age limit (24h finished, 13h active)
  overtaken,\* history: working jobs whose entry a later createJob judged stale
  dropped,  \* history: working jobs whose entry a background rewrite left out
  crashes, iofaults

diskVars  == <<file, ops, torn, aged>>
jobVars   == <<lock, pc, mem, snap>>
sweepVars == <<bpc, btodo, bjob, bsnap, seen>>
history   == <<overtaken, dropped>>
bounds    == <<crashes, iofaults>>
vars == <<diskVars, jobVars, sweepVars, task, history, bounds>>

-----------------------------------------------------------------------------
(* Values *)

Active   == {"queued", "running"}
\* "interrupted" is status 'failed' with error.code JOB_INTERRUPTED.
Terminal == {"succeeded", "failed", "interrupted"}
Record   == [status : Active \cup Terminal \cup {"none"}, uuid : BOOLEAN]
NoFile   == [status |-> "none", uuid |-> FALSE]

Ops      == [Dbs -> Jobs \cup {NoJob}]
EmptyOps == [d \in Dbs |-> NoJob]

Sweepers == {"recovery", "purge"}

\* createJob under the lock, and the tail of runJob under the lock.
Creating  == {"read", "check", "write", "writing"}
Releasing == {"relRead", "clear", "clearing"}
\* From the entry written to the outcome saved: the database must be the job's.
Working   == {"entered", "queued", "loaded", "running", "submitted", "polling", "settling"}
\* "ended": refused, finished, gone with an exception or with the process.
Pc        == {"new", "waitLock", "release", "ended"} \cup Creating \cup Releasing \cup Working

SweepPc == {"off", "list", "next", "ask", "giveUp", "save", "unlink", "relRead", "clear", "clearing"}

-----------------------------------------------------------------------------
(* Reading and writing the operations file *)

JobWriting(j)   == pc[j] \in {"writing", "clearing"}
SweepWriting(b) == bpc[b] = "clearing"
BeingWritten    == (\E j \in Jobs : JobWriting(j)) \/ (\E b \in Sweepers : SweepWriting(b))

\* readGlobalOperations throws on a file that JSON.parse rejects.
Readable == ~torn /\ ~BeingWritten

\* fs.writeFile first truncates the file ...
Truncate == torn' = (torn /\ BeingWritten)
\* ... and then fills it; of two writes under way the shorter text can end up
\* with the tail of the longer one.
Fill(content, overlapped) ==
  /\ ops' = content
  /\ torn' \in IF overlapped THEN BOOLEAN ELSE {torn}

\* A file beside it is written and renamed over it, here in one step: two saves of
\* one job at once, which share that file, are left out.
SaveJob(j, record) ==
  /\ file' = [file EXCEPT ![j] = record]
  /\ aged' = aged \ {j}

Goto(j, label) == pc' = [pc EXCEPT ![j] = label]

-----------------------------------------------------------------------------
Init ==
  /\ file = [j \in Jobs |-> NoFile]
  /\ ops = EmptyOps
  /\ torn = FALSE
  /\ lock = NoJob
  /\ pc = [j \in Jobs |-> "new"]
  /\ mem = [j \in Jobs |-> NoFile]
  /\ snap = [j \in Jobs |-> EmptyOps]
  /\ bpc = [b \in Sweepers |-> IF b = "recovery" /\ RecoverOnStartup THEN "list" ELSE "off"]
  /\ btodo = [b \in Sweepers |-> {}]
  /\ bjob = [b \in Sweepers |-> NoJob]
  /\ bsnap = [b \in Sweepers |-> EmptyOps]
  /\ seen = [j \in Jobs |-> NoFile]
  /\ task = [j \in Jobs |-> "none"]
  /\ aged = {}
  /\ overtaken = {} /\ dropped = {}
  /\ crashes = 0 /\ iofaults = 0

-----------------------------------------------------------------------------
(* createJob *)

\* The busy check, then the call of withLock.
RequestJob(j) ==
  /\ pc[j] = "new"
  /\ \/ Goto(j, "waitLock")
     \/ Goto(j, "ended")       \* DatabaseActionInProgress
  /\ UNCHANGED <<diskVars, lock, mem, snap, sweepVars, task, history, bounds>>

\* Variant: a lock that is had although another holds it.
AcquireLockHeld(j) ==
  /\ \/ pc[j] = "waitLock" /\ Goto(j, "read")
     \/ pc[j] = "release"  /\ Goto(j, "relRead")
  /\ lock' = j
  /\ UNCHANGED <<diskVars, mem, snap, sweepVars, task, history, bounds>>

\* proper-lockfile: taken when free, given up after 50 retries when not.
AcquireLock(j) ==
  /\ \/ pc[j] = "waitLock" /\ Goto(j, IF lock = NoJob THEN "read" ELSE "ended")
     \/ pc[j] = "release"  /\ Goto(j, IF lock = NoJob THEN "relRead" ELSE "ended")
  /\ lock' = IF lock = NoJob THEN j ELSE lock
  /\ UNCHANGED <<diskVars, mem, snap, sweepVars, task, history, bounds>>

ReadEntries(j) ==
  /\ pc[j] = "read"
  /\ IF Readable
     THEN /\ snap' = [snap EXCEPT ![j] = ops]
          /\ Goto(j, IF ops[DbOf[j]] = NoJob THEN "write" ELSE "check")
          /\ UNCHANGED lock
     ELSE /\ Goto(j, "ended")
          /\ lock' = NoJob
          /\ UNCHANGED snap
  /\ UNCHANGED <<diskVars, mem, sweepVars, task, history, bounds>>

\* Variant: only a running holder keeps its entry.
StaleUnlessRunning(holder) == file[holder].status # "running"

\* An entry is stale when the job it names has no file or a finished one.
StaleEntry(holder) == file[holder].status \notin Active

CheckEntry(j) ==
  LET holder == snap[j][DbOf[j]] IN
  /\ pc[j] = "check"
  /\ IF StaleEntry(holder)
     THEN /\ Goto(j, "write")
          /\ overtaken' = IF pc[holder] \in Working THEN overtaken \cup {holder} ELSE overtaken
          /\ UNCHANGED <<lock, snap>>
     ELSE /\ Goto(j, "ended")  \* OperationInProgress
          /\ lock' = NoJob
          /\ snap' = [snap EXCEPT ![j] = EmptyOps]
          /\ UNCHANGED overtaken
  /\ UNCHANGED <<diskVars, mem, sweepVars, task, dropped, bounds>>

\* writeGlobalOperations, in createJob and at the end of runJob.
BeginWrite(j) ==
  /\ \/ pc[j] = "write" /\ Goto(j, "writing")
     \/ pc[j] = "clear" /\ Goto(j, "clearing")
  /\ Truncate
  /\ UNCHANGED <<file, ops, aged, lock, mem, snap, sweepVars, task, history, bounds>>

\* ops[operationKey] = {jobId}; the lock is released with the write done.
WriteEntry(j) ==
  /\ pc[j] = "writing"
  /\ Fill([snap[j] EXCEPT ![DbOf[j]] = j], \E b \in Sweepers : SweepWriting(b))
  /\ Goto(j, "entered")
  /\ lock' = NoJob
  /\ snap' = [snap EXCEPT ![j] = EmptyOps]
  /\ UNCHANGED <<file, aged, mem, sweepVars, task, history, bounds>>

\* Outside the lock: the record, then setImmediate(runJob).
SaveQueued(j) ==
  /\ pc[j] = "entered"
  /\ SaveJob(j, [status |-> "queued", uuid |-> FALSE])
  /\ Goto(j, "queued")
  /\ UNCHANGED <<ops, torn, lock, mem, snap, sweepVars, task, history, bounds>>

-----------------------------------------------------------------------------
(* runJob *)

LoadJob(j) ==
  /\ pc[j] = "queued"
  /\ IF file[j].status = "none"
     THEN Goto(j, "ended") /\ UNCHANGED mem
     ELSE Goto(j, "loaded") /\ mem' = [mem EXCEPT ![j] = file[j]]
  /\ UNCHANGED <<diskVars, lock, snap, sweepVars, task, history, bounds>>

\* Variant: the worker starts without saving that it did.
StartJobUnsaved(j) ==
  /\ pc[j] = "loaded"
  /\ mem' = [mem EXCEPT ![j] = [@ EXCEPT !.status = "running"]]
  /\ Goto(j, "running")
  /\ UNCHANGED <<diskVars, lock, snap, sweepVars, task, history, bounds>>

\* The status read is not looked at: the worker sets it and saves.
StartJob(j) ==
  LET record == [mem[j] EXCEPT !.status = "running"] IN
  /\ pc[j] = "loaded"
  /\ mem' = [mem EXCEPT ![j] = record]
  /\ SaveJob(j, record)
  /\ Goto(j, "running")
  /\ UNCHANGED <<ops, torn, lock, snap, sweepVars, task, history, bounds>>

\* The request reaches CMS, and its answer the worker; a CMS that does not know
\* `async` gives no uuid and answers when the task has ended.
Submit(j) ==
  /\ pc[j] = "running"
  /\ task' = [task EXCEPT ![j] = "running"]
  /\ \E label \in {"submitted", "polling"} : Goto(j, label)
  /\ UNCHANGED <<diskVars, lock, mem, snap, sweepVars, history, bounds>>

\* onUuid
SaveUuid(j) ==
  LET record == [mem[j] EXCEPT !.uuid = TRUE] IN
  /\ pc[j] = "submitted"
  /\ mem' = [mem EXCEPT ![j] = record]
  /\ SaveJob(j, record)
  /\ Goto(j, "polling")
  /\ UNCHANGED <<ops, torn, lock, snap, sweepVars, task, history, bounds>>

\* Variant: CMS's own word is taken for the status.
OutcomeVerbatim(t) == t

\* applyCmsOutcome on the status CMS answers the poll with.
Outcome(t) == IF t = "ok" THEN "succeeded" ELSE "failed"

\* Variant: any answer to the poll ends the job, and an unknown one is a success.
PollAnyAnswer(j) ==
  /\ pc[j] = "polling"
  /\ mem' = [mem EXCEPT ![j].status = IF task[j] = "failed" THEN "failed" ELSE "succeeded"]
  /\ Goto(j, "settling")
  /\ UNCHANGED <<diskVars, lock, snap, sweepVars, task, history, bounds>>

\* Variant: the outcome is saved as soon as the poll has it, not only in the end.
PollOutcomeSaved(j) ==
  LET record == [mem[j] EXCEPT !.status = Outcome(task[j])] IN
  /\ pc[j] = "polling"
  /\ task[j] \in {"ok", "failed"}
  /\ mem' = [mem EXCEPT ![j] = record]
  /\ SaveJob(j, record)
  /\ Goto(j, "settling")
  /\ UNCHANGED <<ops, torn, lock, snap, sweepVars, task, history, bounds>>

PollOutcome(j) ==
  /\ pc[j] = "polling"
  /\ task[j] \in {"ok", "failed"}
  /\ mem' = [mem EXCEPT ![j].status = Outcome(task[j])]
  /\ Goto(j, "settling")
  /\ UNCHANGED <<diskVars, lock, snap, sweepVars, task, history, bounds>>

\* The catch of runJob: CMS not reached, its answer lost, a poll that errs, or
\* the 12h deadline.  A task CMS has taken goes on.
CmsError(j) ==
  /\ pc[j] \in {"running", "polling"}
  /\ task' \in {task, [task EXCEPT ![j] = IF @ = "none" THEN "running" ELSE @]}
  /\ mem' = [mem EXCEPT ![j].status = "failed"]
  /\ Goto(j, "settling")
  /\ UNCHANGED <<diskVars, lock, snap, sweepVars, history, bounds>>

SaveOutcome(j) ==
  /\ pc[j] = "settling"
  /\ SaveJob(j, mem[j])
  /\ mem' = [mem EXCEPT ![j] = NoFile]
  /\ Goto(j, "release")
  /\ UNCHANGED <<ops, torn, lock, snap, sweepVars, task, history, bounds>>

\* Variant: the entry of the database is removed, whoever's it is.
ReadAnyEntry(j) ==
  /\ pc[j] = "relRead"
  /\ IF Readable
     THEN snap' = [snap EXCEPT ![j] = ops] /\ Goto(j, "clear") /\ UNCHANGED lock
     ELSE Goto(j, "ended") /\ lock' = NoJob /\ UNCHANGED snap
  /\ UNCHANGED <<diskVars, mem, sweepVars, task, history, bounds>>

\* Only an entry that still names this job is removed.
ReadOwnEntry(j) ==
  /\ pc[j] = "relRead"
  /\ IF Readable /\ ops[DbOf[j]] = j
     THEN /\ snap' = [snap EXCEPT ![j] = ops]
          /\ Goto(j, "clear")
          /\ UNCHANGED lock
     ELSE /\ Goto(j, "ended")
          /\ lock' = NoJob
          /\ UNCHANGED snap
  /\ UNCHANGED <<diskVars, mem, sweepVars, task, history, bounds>>

ClearEntry(j) ==
  /\ pc[j] = "clearing"
  /\ Fill([snap[j] EXCEPT ![DbOf[j]] = NoJob], \E b \in Sweepers : SweepWriting(b))
  /\ Goto(j, "ended")
  /\ lock' = NoJob
  /\ snap' = [snap EXCEPT ![j] = EmptyOps]
  /\ UNCHANGED <<file, aged, mem, sweepVars, task, history, bounds>>

\* saveJob throws.  In createJob the request fails; before the try and in the
\* finally of runJob the worker is gone; in onUuid it is a failed job.
SaveThrows(j) ==
  /\ iofaults < MaxIoFaults
  /\ iofaults' = iofaults + 1
  /\ \/ pc[j] = "entered" /\ Goto(j, "ended") /\ UNCHANGED mem
     \/ pc[j] \in {"loaded", "settling"} /\ Goto(j, "ended") /\ mem' = [mem EXCEPT ![j] = NoFile]
     \/ /\ pc[j] = "submitted"
        /\ Goto(j, "settling")
        /\ mem' = [mem EXCEPT ![j] = [status |-> "failed", uuid |-> TRUE]]
  /\ UNCHANGED <<diskVars, lock, snap, sweepVars, task, history, crashes>>

-----------------------------------------------------------------------------
(* What recovery and purge share *)

SweepTo(b, label) == bpc' = [bpc EXCEPT ![b] = label]

SweepDone(b) == bjob' = [bjob EXCEPT ![b] = NoJob]

\* The loop of a background program ends, or an exception leaves it.
StopSweep(b) ==
  /\ SweepTo(b, "off")
  /\ btodo' = [btodo EXCEPT ![b] = {}]
  /\ SweepDone(b)
  /\ seen' = IF b = "recovery" THEN [j \in Jobs |-> NoFile] ELSE seen

\* removeJobIdFromGlobalOperations, without the lock.  When the file does not
\* parse it throws: purge ends; recovery gives the job up, or ends when it had.
ReadForRemoval(b) ==
  LET found == \E d \in Dbs : ops[d] = bjob[b]
      retry == b = "recovery" /\ seen[bjob[b]].status # "interrupted" IN
  /\ bpc[b] = "relRead"
  /\ \/ /\ Readable
        /\ SweepTo(b, IF found THEN "clear" ELSE "next")
        /\ IF found
           THEN bsnap' = [bsnap EXCEPT ![b] = ops] /\ UNCHANGED bjob
           ELSE SweepDone(b) /\ UNCHANGED bsnap
        /\ UNCHANGED <<btodo, seen>>
     \/ /\ ~Readable /\ retry
        /\ SweepTo(b, "giveUp")
        /\ UNCHANGED <<btodo, bjob, bsnap, seen>>
     \/ /\ ~Readable /\ ~retry
        /\ StopSweep(b)
        /\ UNCHANGED bsnap
  /\ UNCHANGED <<diskVars, jobVars, task, history, bounds>>

BeginRemoval(b) ==
  /\ bpc[b] = "clear"
  /\ SweepTo(b, "clearing")
  /\ Truncate
  /\ UNCHANGED <<file, ops, aged, jobVars, btodo, bjob, bsnap, seen, task, history, bounds>>

Without(j, entries) == [d \in Dbs |-> IF entries[d] = j THEN NoJob ELSE entries[d]]

EndRemoval(b) ==
  LET content == Without(bjob[b], bsnap[b]) IN
  /\ bpc[b] = "clearing"
  /\ Fill(content, (\E j \in Jobs : JobWriting(j)) \/ (\E c \in Sweepers \ {b} : SweepWriting(c)))
  /\ dropped' = dropped \cup {j \in Jobs : /\ pc[j] \in Working
                                           /\ ops[DbOf[j]] = j
                                           /\ content[DbOf[j]] # j}
  /\ SweepTo(b, "next")
  /\ SweepDone(b)
  /\ bsnap' = [bsnap EXCEPT ![b] = EmptyOps]
  /\ UNCHANGED <<file, aged, jobVars, btodo, seen, task, overtaken, bounds>>

EndOfList(b) ==
  /\ bpc[b] = "next"
  /\ btodo[b] = {}
  /\ StopSweep(b)
  /\ UNCHANGED <<diskVars, jobVars, bsnap, task, history, bounds>>

-----------------------------------------------------------------------------
(* recoverOrphanedJobsOnStartup, which nothing waits for *)

ListOrphans ==
  /\ bpc["recovery"] = "list"
  /\ seen' = [j \in Jobs |-> IF file[j].status \in Active THEN file[j] ELSE NoFile]
  /\ btodo' = [btodo EXCEPT !["recovery"] = {j \in Jobs : file[j].status \in Active}]
  /\ SweepTo("recovery", "next")
  /\ UNCHANGED <<diskVars, jobVars, bjob, bsnap, task, history, bounds>>

\* Without a cmsUuid, or of type 'create', a job is not re-attached to.
NextOrphan(j) ==
  /\ bpc["recovery"] = "next"
  /\ j \in btodo["recovery"]
  /\ btodo' = [btodo EXCEPT !["recovery"] = @ \ {j}]
  /\ bjob' = [bjob EXCEPT !["recovery"] = j]
  /\ SweepTo("recovery", IF seen[j].uuid /\ j \notin Composite THEN "ask" ELSE "giveUp")
  /\ UNCHANGED <<diskVars, jobVars, bsnap, seen, task, history, bounds>>

\* gettaskstatus, polled until CMS says how the task ended ...
OrphanOutcome ==
  LET j == bjob["recovery"] IN
  /\ bpc["recovery"] = "ask"
  /\ task[j] \in {"ok", "failed"}
  /\ seen' = [seen EXCEPT ![j].status = Outcome(task[j])]
  /\ SweepTo("recovery", "save")
  /\ UNCHANGED <<diskVars, jobVars, btodo, bjob, bsnap, task, history, bounds>>

\* ... or the poll throws or is past its own, new 12h deadline; an answer that is
\* itself an error is taken for a failed task.
OrphanError ==
  /\ bpc["recovery"] = "ask"
  /\ \/ SweepTo("recovery", "giveUp") /\ UNCHANGED seen
     \/ /\ SweepTo("recovery", "save")
        /\ seen' = [seen EXCEPT ![bjob["recovery"]].status = "failed"]
  /\ UNCHANGED <<diskVars, jobVars, btodo, bjob, bsnap, task, history, bounds>>

\* The saveJob of finalizeOrphanedJob, of a job reconciled or given up.
SaveOrphan ==
  LET j == bjob["recovery"]
      record == IF bpc["recovery"] = "giveUp"
                THEN [seen[j] EXCEPT !.status = "interrupted"] ELSE seen[j] IN
  /\ bpc["recovery"] \in {"save", "giveUp"}
  /\ seen' = [seen EXCEPT ![j] = record]
  /\ SaveJob(j, record)
  /\ SweepTo("recovery", "relRead")
  /\ UNCHANGED <<ops, torn, jobVars, btodo, bjob, bsnap, task, history, bounds>>

\* saveJob throws: caught in tryReconcileOrphanedJob, not in the loop.
OrphanSaveThrows ==
  /\ iofaults < MaxIoFaults
  /\ iofaults' = iofaults + 1
  /\ \/ /\ bpc["recovery"] = "save"
        /\ SweepTo("recovery", "giveUp")
        /\ UNCHANGED <<btodo, bjob, seen>>
     \/ /\ bpc["recovery"] = "giveUp"
        /\ StopSweep("recovery")
  /\ UNCHANGED <<diskVars, jobVars, bsnap, task, history, crashes>>

-----------------------------------------------------------------------------
(* purgeExpiredJobs, at start-up and every hour *)

\* `now` is taken once: what ages during a pass is left for the next one.
StartPurge ==
  /\ bpc["purge"] = "off"
  /\ SweepTo("purge", IF aged = {} THEN "off" ELSE "next")
  /\ btodo' = [btodo EXCEPT !["purge"] = aged]
  /\ UNCHANGED <<diskVars, jobVars, bjob, bsnap, seen, task, history, bounds>>

\* Variant: only finished jobs are purged.
ExamineFinished(j) ==
  /\ bpc["purge"] = "next"
  /\ j \in btodo["purge"]
  /\ btodo' = [btodo EXCEPT !["purge"] = @ \ {j}]
  /\ IF j \in aged /\ file[j].status \in Terminal
     THEN SweepTo("purge", "unlink") /\ bjob' = [bjob EXCEPT !["purge"] = j]
     ELSE UNCHANGED <<bpc, bjob>>
  /\ UNCHANGED <<diskVars, jobVars, bsnap, seen, task, history, bounds>>

ExamineFile(j) ==
  /\ bpc["purge"] = "next"
  /\ j \in btodo["purge"]
  /\ btodo' = [btodo EXCEPT !["purge"] = @ \ {j}]
  /\ IF j \in aged
     THEN SweepTo("purge", "unlink") /\ bjob' = [bjob EXCEPT !["purge"] = j]
     ELSE UNCHANGED <<bpc, bjob>>
  /\ UNCHANGED <<diskVars, jobVars, bsnap, seen, task, history, bounds>>

UnlinkFile ==
  /\ bpc["purge"] = "unlink"
  /\ SaveJob(bjob["purge"], NoFile)
  /\ SweepTo("purge", "relRead")
  /\ UNCHANGED <<ops, torn, jobVars, btodo, bjob, bsnap, seen, task, history, bounds>>

-----------------------------------------------------------------------------
(* The surroundings: CMS, time, and the process itself *)

TaskEnds(j) ==
  /\ task[j] = "running"
  /\ \E how \in {"ok", "failed"} : task' = [task EXCEPT ![j] = how]
  /\ UNCHANGED <<diskVars, jobVars, sweepVars, history, bounds>>

\* A worker of this process is done within the 12h of its CMS poll, so long as CMS
\* answers each request of it: that is short of the 13h after which an active job
\* counts as stale.  Recovery polls for 12h more, one orphan after the other.
Age(j) ==
  /\ file[j].status # "none"
  /\ pc[j] = "ended"
  /\ bjob["recovery"] = j => bpc["recovery"] = "ask"
  /\ aged' = aged \cup {j}
  /\ UNCHANGED <<file, ops, torn, jobVars, sweepVars, task, history, bounds>>

\* The process dies and starts again: memory is gone, the lock directory goes
\* stale within the retries of whoever wants it, a write under way is cut short.
Crash ==
  /\ crashes < MaxCrashes
  /\ crashes' = crashes + 1
  /\ torn' = (torn \/ BeingWritten)
  /\ lock' = NoJob
  /\ pc' = [j \in Jobs |-> IF pc[j] = "new" THEN "new" ELSE "ended"]
  /\ mem' = [j \in Jobs |-> NoFile]
  /\ snap' = [j \in Jobs |-> EmptyOps]
  /\ bpc' = [b \in Sweepers |-> IF b = "recovery" /\ RecoverOnStartup THEN "list" ELSE "off"]
  /\ btodo' = [b \in Sweepers |-> {}]
  /\ bjob' = [b \in Sweepers |-> NoJob]
  /\ bsnap' = [b \in Sweepers |-> EmptyOps]
  /\ seen' = [j \in Jobs |-> NoFile]
  /\ UNCHANGED <<file, ops, aged, task, history, iofaults>>

-----------------------------------------------------------------------------
CreateStep(j) ==
  \/ RequestJob(j) \/ ReadEntries(j) \/ CheckEntry(j) \/ WriteEntry(j) \/ SaveQueued(j)

WorkerStep(j) ==
  \/ LoadJob(j) \/ StartJob(j) \/ Submit(j) \/ SaveUuid(j) \/ PollOutcome(j)
  \/ CmsError(j) \/ SaveOutcome(j) \/ ReadOwnEntry(j) \/ ClearEntry(j)

JobStep(j) == CreateStep(j) \/ AcquireLock(j) \/ BeginWrite(j) \/ WorkerStep(j) \/ SaveThrows(j)

RemovalStep(b) == ReadForRemoval(b) \/ BeginRemoval(b) \/ EndRemoval(b) \/ EndOfList(b)

RecoveryStep ==
  \/ ListOrphans \/ OrphanOutcome \/ OrphanError \/ SaveOrphan
  \/ \E j \in Jobs : NextOrphan(j)

PurgeStep == StartPurge \/ UnlinkFile \/ \E j \in Jobs : ExamineFile(j)

Next ==
  \/ \E j \in Jobs : JobStep(j) \/ TaskEnds(j) \/ Age(j)
  \/ \E b \in Sweepers : RemovalStep(b)
  \/ RecoveryStep \/ OrphanSaveThrows
  \/ PurgeStep
  \/ Crash

Spec == Init /\ [][Next]_vars

\* File system calls return, the lock is had or given up, CMS answers or the
\* deadline passes, the hourly timer fires and time passes; no fairness for
\* new requests, faults, crashes or the end of a CMS task.
Fairness ==
  /\ \A j \in Jobs : /\ WF_vars(JobStep(j) /\ pc[j] # "new" /\ UNCHANGED iofaults)
                     /\ WF_vars(Age(j))
  /\ \A b \in Sweepers : WF_vars(RemovalStep(b))
  /\ WF_vars(RecoveryStep)
  /\ WF_vars(PurgeStep)

FairSpec == Spec /\ Fairness

-----------------------------------------------------------------------------
(* Properties *)

\* What the files hold: every saved status, by any of the three programs, is one
\* of CmsJobStatus, and an entry names a job.
TypeOK ==
  /\ file \in [Jobs -> Record]
  /\ ops \in Ops
  /\ torn \in BOOLEAN
  /\ lock \in Jobs \cup {NoJob}
  /\ pc \in [Jobs -> Pc]
  /\ mem \in [Jobs -> Record]
  /\ snap \in [Jobs -> Ops]
  /\ bpc \in [Sweepers -> SweepPc]
  /\ btodo \in [Sweepers -> SUBSET Jobs]
  /\ bjob \in [Sweepers -> Jobs \cup {NoJob}]
  /\ bsnap \in [Sweepers -> Ops]
  /\ seen \in [Jobs -> Record]
  /\ task \in [Jobs -> {"none", "running", "ok", "failed"}]
  /\ aged \subseteq Jobs
  /\ overtaken \subseteq Jobs
  /\ dropped \subseteq Jobs
  /\ crashes \in 0..MaxCrashes
  /\ iofaults \in 0..MaxIoFaults

\* createJob and runJob interleaved with recovery and purge: a working job's
\* database is reserved for it in a file they all rewrite whole, and it loses the
\* entry in two ways only: a createJob judged it stale, or a background program
\* rewrote the file without the lock.  No update made under the lock loses it.
WorkingJobKeepsEntry ==
  \A j \in Jobs : pc[j] \in Working => ops[DbOf[j]] = j \/ j \in overtaken \cup dropped

\* buildOperationKey's purpose (cms-job.types.ts:55-63): never two jobs at work
\* on one physical database.
OneJobPerDatabase ==
  \A j, k \in Jobs : /\ pc[j] \in Working /\ pc[k] \in Working
                     /\ DbOf[j] = DbOf[k]
                     => j = k

\* What is left of it: two jobs work on one database only when one of them lost
\* its entry, to a createJob's stale check or to a background rewrite.
OneJobPerDatabaseUnlessLost ==
  \A j, k \in Jobs : /\ pc[j] \in Working /\ pc[k] \in Working
                     /\ DbOf[j] = DbOf[k] /\ j # k
                     => {j, k} \cap (overtaken \cup dropped) # {}

\* createJob's stale-entry check, without start-up recovery: it takes the entry
\* of a working job only while that job's record is not saved yet.
OvertakenOnlyUnsaved ==
  [][\A j \in overtaken' \ overtaken : pc[j] = "entered"]_vars

\* What hasActiveJobForHost relies on, without start-up recovery: a worker's job
\* file says it is active, whatever purge does, until the outcome is saved.
WorkingJobVisible ==
  \A j \in Jobs : pc[j] \in Working \ {"entered"} => file[j].status \in Active

\* A job reported as succeeded, by its worker or by recovery after a restart, is
\* one whose CMS task succeeded.
SucceededMeansTaskOk ==
  \A j \in Jobs : file[j].status = "succeeded" => task[j] = "ok"

\* removeJobIdFromGlobalOperations takes out no other working job's entry ("exactly
\* like the tail end of a normal job run would", cms-job.store.ts:213-216).
RemovalTouchesOnlyItsJob ==
  [][\A j \in dropped' \ dropped : \E b \in Sweepers : bjob[b] = j]_vars

\* A job of a dead worker that recovery found finished on CMS is not reported as interrupted by
\* the restart (cms-job.service.ts:99-101), whatever happens while it is finalized.
ReconciledNotInterrupted ==
  [][\A j \in Jobs : pc[j] = "ended" /\ seen[j].status = "succeeded"
                      => seen'[j].status # "interrupted"]_vars

\* A client polling a job sees it end: through its worker, through recovery, or
\* at the latest through purge, no job file stays queued or running.
EveryJobSettles ==
  \A j \in Jobs : file[j].status \in Active ~> file[j].status \notin Active

\* Without start-up recovery the job files implement JobLifecycle.
lifecycle ==
  [j \in Jobs |-> IF file[j].status = "interrupted" THEN "failed"
                  ELSE IF file[j].status # "none"   THEN file[j].status
                  ELSE IF pc[j] = "ended"           THEN "gone"
                  ELSE "new"]

Life == INSTANCE JobLifecycle WITH status <- lifecycle

\* The status a client of GET /jobs is shown never goes back and never changes
\* its outcome, through crashes, failed saves and purges.
ImplementsLifecycle == Life!Spec
=============================================================================

---------------------------- MODULE CmsJobProofs ----------------------------
(***************************************************************************)
(* Proofs about CmsJob, for any set of jobs and databases and any bounds.  *)
(*                                                                         *)
(*  - TypeCorrect: the type invariant, which rests on two facts about the  *)
(*    programs' local variables (SweepInv, CheckInv);                      *)
(*  - EntryKept: a working job loses its entry only to a stale check or to *)
(*    an unlocked rewrite.  The invariant that carries it (ReserveInv)     *)
(*    speaks of the copies lock holders work on: while a lock holder has a *)
(*    copy, every working job that lost nothing is in that copy too;       *)
(*  - SuccessIsTrue: a job is recorded as done only when its CMS task      *)
(*    ended well;                                                          *)
(*  - with start-up recovery off, WorkingVisible and OvertakenInWindow:    *)
(*    where a working job can be seen; and Refinement: the job files       *)
(*    implement JobLifecycle.                                              *)
(***************************************************************************)
EXTENDS CmsJob, TLAPS

\* A background program that is at a job has one.
SweepInv ==
  \A b \in Sweepers : bpc[b] \notin {"off", "list", "next"} => bjob[b] \in Jobs

\* createJob checks an entry only when it read one.
CheckInv ==
  \A j \in Jobs : pc[j] = "check" => snap[j][DbOf[j]] \in Jobs

TypeInv == TypeOK /\ SweepInv /\ CheckInv

USE DbOfAssumption, CompositeAssumption, NoJobAssumption, BoundsAssumption

\* Job records: the ones the code builds are records of the declared type.
LEMMA RecordFacts ==
  /\ NoFile \in Record
  /\ \A s \in Active \cup Terminal, u \in BOOLEAN : [status |-> s, uuid |-> u] \in Record
  /\ \A r \in Record : [r EXCEPT !.uuid = TRUE] \in Record
  /\ \A r \in Record : \A s \in Active \cup Terminal : [r EXCEPT !.status = s] \in Record
  BY DEF NoFile, Record, Active, Terminal

\* Contents of the operations file: what reading and updating them gives.
LEMMA OpsFacts ==
  /\ EmptyOps \in Ops
  /\ \A o \in Ops : \A d \in Dbs : o[d] \in Jobs \cup {NoJob}
  /\ \A o \in Ops : \A d \in Dbs : \A x \in Jobs \cup {NoJob} : [o EXCEPT ![d] = x] \in Ops
  /\ \A o \in Ops : \A x \in Jobs : Without(x, o) \in Ops
  BY DEF EmptyOps, Ops, Without

LEMMA TypeInit == Init => TypeInv
<1> SUFFICES ASSUME Init PROVE TypeInv
  OBVIOUS
<1> USE DEF Init
<1>1. /\ file \in [Jobs -> Record] /\ mem \in [Jobs -> Record] /\ seen \in [Jobs -> Record]
  BY RecordFacts
<1>2. /\ ops \in Ops /\ snap \in [Jobs -> Ops] /\ bsnap \in [Sweepers -> Ops]
  BY OpsFacts
<1>3. bpc \in [Sweepers -> SweepPc] /\ SweepInv
  BY DEF SweepPc, SweepInv, Sweepers
<1>4. pc \in [Jobs -> Pc] /\ CheckInv
  BY DEF Pc, CheckInv
<1>5. crashes \in 0..MaxCrashes /\ iofaults \in 0..MaxIoFaults
  BY SMT DEF BoundsAssumption
<1>6. QED
  BY <1>1, <1>2, <1>3, <1>4, <1>5 DEF TypeInv, TypeOK

\* The steps of a job's request and worker keep the types.
LEMMA TypeJobStep ==
  ASSUME TypeInv, NEW j \in Jobs, JobStep(j)
  PROVE  TypeInv'
<1> USE DEF TypeInv, TypeOK, SweepInv, CheckInv, Pc, Creating, Releasing, Working, Goto,
            diskVars, jobVars, sweepVars, history, bounds
<1>1. CASE RequestJob(j)    BY <1>1 DEF RequestJob
<1>2. CASE AcquireLock(j)   BY <1>2 DEF AcquireLock
<1>3. CASE ReadEntries(j)
  <2>1. DbOf[j] \in Dbs /\ ops[DbOf[j]] \in Jobs \cup {NoJob}
    BY OpsFacts, DbOfAssumption
  <2>2. CASE Readable
    BY <1>3, <2>1, <2>2 DEF ReadEntries
  <2>3. CASE ~Readable
    BY <1>3, <2>3 DEF ReadEntries
  <2>4. QED BY <2>2, <2>3
<1>4. CASE CheckEntry(j)
  <2>1. snap[j][DbOf[j]] \in Jobs
    BY <1>4 DEF CheckEntry
  <2>2. CASE StaleEntry(snap[j][DbOf[j]])
    BY <1>4, <2>1, <2>2 DEF CheckEntry
  <2>3. CASE ~StaleEntry(snap[j][DbOf[j]])
    <3>1. EmptyOps \in Ops
      BY OpsFacts
    <3>2. /\ snap' = [snap EXCEPT ![j] = EmptyOps]
          /\ pc' = [pc EXCEPT ![j] = "ended"]
          /\ lock' = NoJob
          /\ UNCHANGED overtaken
      BY <1>4, <2>3 DEF CheckEntry, StaleEntry
    <3>3. QED BY <1>4, <3>1, <3>2 DEF CheckEntry
  <2>4. QED BY <2>2, <2>3
<1>5. CASE BeginWrite(j)    BY <1>5 DEF BeginWrite, Truncate
<1>6. CASE WriteEntry(j)    BY <1>6, OpsFacts DEF WriteEntry, Fill
<1>7. CASE SaveQueued(j)    BY <1>7, RecordFacts DEF SaveQueued, SaveJob, Active
<1>8. CASE LoadJob(j)       BY <1>8 DEF LoadJob
<1>9. CASE StartJob(j)      BY <1>9, RecordFacts DEF StartJob, SaveJob, Active
<1>10. CASE Submit(j)       BY <1>10 DEF Submit
<1>11. CASE SaveUuid(j)     BY <1>11, RecordFacts DEF SaveUuid, SaveJob
<1>12. CASE PollOutcome(j)  BY <1>12, RecordFacts DEF PollOutcome, Outcome, Terminal
<1>13. CASE CmsError(j)     BY <1>13, RecordFacts DEF CmsError, Terminal
<1>14. CASE SaveOutcome(j)  BY <1>14, RecordFacts DEF SaveOutcome, SaveJob
<1>15. CASE ReadOwnEntry(j) BY <1>15 DEF ReadOwnEntry
<1>16. CASE ClearEntry(j)   BY <1>16, OpsFacts DEF ClearEntry, Fill
<1>17. CASE SaveThrows(j)
  <2>1. iofaults' \in 0..MaxIoFaults
    BY <1>17 DEF SaveThrows, BoundsAssumption
  <2>2. CASE pc[j] = "entered"
    BY <1>17, <2>1, <2>2 DEF SaveThrows
  <2>3. CASE pc[j] \in {"loaded", "settling"}
    BY <1>17, <2>1, <2>3, RecordFacts DEF SaveThrows
  <2>4. CASE pc[j] = "submitted"
    <3>1. [status |-> "failed", uuid |-> TRUE] \in Record
      BY DEF Record, Terminal
    <3>2. /\ mem' = [mem EXCEPT ![j] = [status |-> "failed", uuid |-> TRUE]]
          /\ pc' = [pc EXCEPT ![j] = "settling"]
      BY <1>17, <2>4 DEF SaveThrows
    <3>3. QED BY <1>17, <2>1, <3>1, <3>2 DEF SaveThrows
  <2>5. QED BY <1>17, <2>2, <2>3, <2>4 DEF SaveThrows
<1>18. QED
  BY <1>1, <1>2, <1>3, <1>4, <1>5, <1>6, <1>7, <1>8, <1>9, <1>10, <1>11, <1>12,
     <1>13, <1>14, <1>15, <1>16, <1>17
  DEF JobStep, CreateStep, WorkerStep

\* The steps of recovery and purge keep the types.
LEMMA TypeSweepStep ==
  ASSUME TypeInv, (\E b \in Sweepers : RemovalStep(b)) \/ RecoveryStep \/ OrphanSaveThrows \/ PurgeStep
  PROVE  TypeInv'
<1> USE DEF TypeInv, TypeOK, SweepInv, CheckInv, SweepPc, Sweepers, SweepTo, SweepDone, StopSweep,
            diskVars, jobVars, sweepVars, history, bounds
<1>1. ASSUME NEW b \in Sweepers, ReadForRemoval(b) PROVE TypeInv'
  BY <1>1, RecordFacts DEF ReadForRemoval
<1>2. ASSUME NEW b \in Sweepers, BeginRemoval(b) PROVE TypeInv'
  BY <1>2 DEF BeginRemoval, Truncate
<1>3. ASSUME NEW b \in Sweepers, EndRemoval(b) PROVE TypeInv'
  BY <1>3, OpsFacts DEF EndRemoval, Fill
<1>4. ASSUME NEW b \in Sweepers, EndOfList(b) PROVE TypeInv'
  BY <1>4, RecordFacts DEF EndOfList
<1>5. CASE ListOrphans
  BY <1>5, RecordFacts DEF ListOrphans
<1>6. ASSUME NEW j \in Jobs, NextOrphan(j) PROVE TypeInv'
  BY <1>6 DEF NextOrphan
<1>7. CASE OrphanOutcome
  BY <1>7, RecordFacts DEF OrphanOutcome, Outcome, Terminal
<1>8. CASE OrphanError
  <2>1. CASE UNCHANGED seen
    BY <1>8, <2>1 DEF OrphanError
  <2>2. CASE seen' = [seen EXCEPT ![bjob["recovery"]].status = "failed"]
    <3>1. bjob["recovery"] \in Jobs
      BY <1>8 DEF OrphanError
    <3>2. seen' \in [Jobs -> Record]
      BY <2>2, <3>1 DEF Record, Terminal
    <3> QED
      BY <1>8, <3>2 DEF OrphanError
  <2> QED
    BY <1>8, <2>1, <2>2 DEF OrphanError
<1>9. CASE SaveOrphan
  BY <1>9, RecordFacts DEF SaveOrphan, SaveJob, Terminal
<1>10. CASE OrphanSaveThrows
  BY <1>10, RecordFacts DEF OrphanSaveThrows, BoundsAssumption
<1>11. CASE StartPurge
  BY <1>11 DEF StartPurge
<1>12. ASSUME NEW j \in Jobs, ExamineFile(j) PROVE TypeInv'
  BY <1>12 DEF ExamineFile
<1>13. CASE UnlinkFile
  BY <1>13, RecordFacts DEF UnlinkFile, SaveJob
<1>14. QED
  BY <1>1, <1>2, <1>3, <1>4, <1>5, <1>6, <1>7, <1>8, <1>9, <1>10, <1>11, <1>12, <1>13
  DEF RemovalStep, RecoveryStep, PurgeStep

\* CMS, time and crashes keep the types.
LEMMA TypeSurroundings ==
  ASSUME TypeInv, Crash \/ \E j \in Jobs : TaskEnds(j) \/ Age(j)
  PROVE  TypeInv'
<1> USE DEF TypeInv, TypeOK, SweepInv, CheckInv, diskVars, jobVars, sweepVars, history, bounds
<1>1. ASSUME NEW j \in Jobs, TaskEnds(j) PROVE TypeInv'
  BY <1>1 DEF TaskEnds
<1>2. ASSUME NEW j \in Jobs, Age(j) PROVE TypeInv'
  BY <1>2 DEF Age
<1>3. CASE Crash
  <2>1. crashes' \in 0..MaxCrashes
    BY <1>3 DEF Crash, BoundsAssumption
  <2>2. mem' \in [Jobs -> Record] /\ seen' \in [Jobs -> Record] /\ file' \in [Jobs -> Record]
    BY <1>3, RecordFacts DEF Crash
  <2>3. snap' \in [Jobs -> Ops] /\ bsnap' \in [Sweepers -> Ops]
    BY <1>3, OpsFacts DEF Crash
  <2>4. bpc' \in [Sweepers -> SweepPc] /\ SweepInv'
    BY <1>3 DEF Crash, SweepPc, Sweepers
  <2>5. pc' \in [Jobs -> Pc] /\ CheckInv'
    BY <1>3 DEF Crash, Pc
  <2>6. QED
    BY <1>3, <2>1, <2>2, <2>3, <2>4, <2>5 DEF Crash
<1>4. QED BY <1>1, <1>2, <1>3

LEMMA TypeInvariant == Spec => []TypeInv
<1>1. TypeInv /\ [Next]_vars => TypeInv'
  <2> SUFFICES ASSUME TypeInv, [Next]_vars PROVE TypeInv'
    OBVIOUS
  <2>1. CASE Next
    BY <2>1, TypeJobStep, TypeSweepStep, TypeSurroundings DEF Next
  <2>2. CASE UNCHANGED vars
    BY <2>2 DEF vars, diskVars, jobVars, sweepVars, history, bounds, TypeInv, TypeOK,
                SweepInv, CheckInv
  <2>3. QED BY <2>1, <2>2
<1>2. QED BY <1>1, TypeInit, PTL DEF Spec

\* The type invariant: every program of the job manager, through crashes, failed
\* saves and an operations file that does not parse, keeps its state well formed.
THEOREM TypeCorrect == Spec => []TypeOK
<1>1. TypeInv => TypeOK
  BY DEF TypeInv
<1>2. QED BY <1>1, TypeInvariant, PTL

-----------------------------------------------------------------------------
(* The entry of a working job *)

LostEntry(j) == j \in overtaken \cup dropped

\* The lock is held by whoever is inside withLock.
LockInv ==
  \A j \in Jobs : pc[j] \in Creating \cup Releasing => lock = j

\* The copy a lock holder works on still has every entry that must be kept: a
\* creator is about to write under a database no working job has, and a finished
\* job is about to clear its own.
ReserveInv ==
  \A k \in Jobs : pc[k] \in {"check", "write", "writing", "clear", "clearing"} =>
    /\ \A j \in Jobs : pc[j] \in Working /\ ~LostEntry(j) => snap[k][DbOf[j]] = j
    /\ pc[k] \in {"write", "writing"} =>
         \A j \in Jobs : pc[j] \in Working /\ ~LostEntry(j) => DbOf[j] # DbOf[k]
    /\ pc[k] \in {"clear", "clearing"} => snap[k][DbOf[k]] = k

KeepInv == LockInv /\ ReserveInv /\ WorkingJobKeepsEntry

\* Steps that touch neither the operations file nor a copy of it nor the lock,
\* and take no job into the locked section or out of it into work.
LEMMA QuietStep ==
  ASSUME TypeInv, KeepInv,
         UNCHANGED <<ops, snap, lock, overtaken, dropped>>,
         \A k \in Jobs : \/ pc'[k] = pc[k]
                         \/ pc[k] \in Working /\ pc'[k] \in Working
                         \/ pc'[k] \in {"waitLock", "release", "ended"}
  PROVE  KeepInv'
<1> USE DEF KeepInv, LostEntry, Creating, Releasing, Working
<1>1. LockInv'              BY DEF LockInv
<1>2. ReserveInv'           BY DEF ReserveInv
<1>3. WorkingJobKeepsEntry' BY DEF WorkingJobKeepsEntry
<1>4. QED BY <1>1, <1>2, <1>3

\* createJob and runJob, step by step.
LEMMA KeepJobStep ==
  ASSUME TypeInv, KeepInv, NEW j \in Jobs, JobStep(j)
  PROVE  KeepInv'
<1> USE DEF TypeInv, TypeOK, Goto, Working, Creating, Releasing,
            diskVars, jobVars, sweepVars, history, bounds
<1>1. CASE RequestJob(j)    BY <1>1, QuietStep DEF RequestJob
<1>2. CASE SaveQueued(j)    BY <1>2, QuietStep DEF SaveQueued, SaveJob
<1>3. CASE LoadJob(j)       BY <1>3, QuietStep DEF LoadJob
<1>4. CASE StartJob(j)      BY <1>4, QuietStep DEF StartJob, SaveJob
<1>5. CASE Submit(j)        BY <1>5, QuietStep DEF Submit
<1>6. CASE SaveUuid(j)      BY <1>6, QuietStep DEF SaveUuid, SaveJob
<1>7. CASE PollOutcome(j)   BY <1>7, QuietStep DEF PollOutcome
<1>8. CASE CmsError(j)      BY <1>8, QuietStep DEF CmsError
<1>9. CASE SaveOutcome(j)   BY <1>9, QuietStep DEF SaveOutcome, SaveJob
<1>10. CASE SaveThrows(j)   BY <1>10, QuietStep DEF SaveThrows
<1>11. CASE AcquireLock(j)
  <2>1. CASE lock = NoJob
    BY <1>11, <2>1, NoJobAssumption
    DEF AcquireLock, KeepInv, LockInv, ReserveInv, WorkingJobKeepsEntry, LostEntry
  <2>2. CASE lock # NoJob
    BY <1>11, <2>2, QuietStep DEF AcquireLock
  <2>3. QED BY <2>1, <2>2
<1>12. CASE ReadEntries(j)
  <2>1. LockInv'
    BY <1>12 DEF ReadEntries, KeepInv, LockInv
  <2>2. WorkingJobKeepsEntry'
    BY <1>12 DEF ReadEntries, KeepInv, WorkingJobKeepsEntry
  <2>3. ReserveInv'
    BY <1>12, NoJobAssumption, DbOfAssumption
    DEF ReadEntries, KeepInv, ReserveInv, WorkingJobKeepsEntry, LostEntry, LockInv
  <2>4. QED BY <2>1, <2>2, <2>3 DEF KeepInv
<1>13. CASE CheckEntry(j)
  <2>1. LockInv'
    BY <1>13 DEF CheckEntry, StaleEntry, KeepInv, LockInv
  <2>2. WorkingJobKeepsEntry'
    BY <1>13 DEF CheckEntry, StaleEntry, KeepInv, WorkingJobKeepsEntry
  <2>3. ReserveInv'
    BY <1>13, DbOfAssumption
    DEF CheckEntry, StaleEntry, KeepInv, ReserveInv, LostEntry, LockInv
  <2>4. QED BY <2>1, <2>2, <2>3 DEF KeepInv
<1>14. CASE BeginWrite(j)
  BY <1>14 DEF BeginWrite, KeepInv, LockInv, ReserveInv, WorkingJobKeepsEntry, LostEntry
<1>15. CASE WriteEntry(j)
  <2>1. LockInv'
    BY <1>15 DEF WriteEntry, KeepInv, LockInv
  <2>2. WorkingJobKeepsEntry'
    BY <1>15, DbOfAssumption
    DEF WriteEntry, Fill, KeepInv, WorkingJobKeepsEntry, ReserveInv, LostEntry, Ops
  <2>3. ReserveInv'
    BY <1>15 DEF WriteEntry, KeepInv, ReserveInv, LostEntry, LockInv
  <2>4. QED BY <2>1, <2>2, <2>3 DEF KeepInv
<1>16. CASE ReadOwnEntry(j)
  <2>1. LockInv'
    BY <1>16 DEF ReadOwnEntry, KeepInv, LockInv
  <2>2. WorkingJobKeepsEntry'
    BY <1>16 DEF ReadOwnEntry, KeepInv, WorkingJobKeepsEntry
  <2>3. ReserveInv'
    BY <1>16, DbOfAssumption
    DEF ReadOwnEntry, KeepInv, ReserveInv, WorkingJobKeepsEntry, LostEntry, LockInv
  <2>4. QED BY <2>1, <2>2, <2>3 DEF KeepInv
<1>17. CASE ClearEntry(j)
  <2>1. LockInv'
    BY <1>17 DEF ClearEntry, KeepInv, LockInv
  <2>2. WorkingJobKeepsEntry'
    BY <1>17, DbOfAssumption
    DEF ClearEntry, Fill, KeepInv, WorkingJobKeepsEntry, ReserveInv, LostEntry, Ops
  <2>3. ReserveInv'
    BY <1>17 DEF ClearEntry, KeepInv, ReserveInv, LostEntry, LockInv
  <2>4. QED BY <2>1, <2>2, <2>3 DEF KeepInv
<1>18. QED
  BY <1>1, <1>2, <1>3, <1>4, <1>5, <1>6, <1>7, <1>8, <1>9, <1>10, <1>11, <1>12,
     <1>13, <1>14, <1>15, <1>16, <1>17
  DEF JobStep, CreateStep, WorkerStep

\* Recovery and purge: only the rewrite of the operations file matters, and what
\* it leaves out is recorded as dropped.
LEMMA KeepSweepStep ==
  ASSUME TypeInv, KeepInv,
         (\E b \in Sweepers : RemovalStep(b)) \/ RecoveryStep \/ OrphanSaveThrows \/ PurgeStep
  PROVE  KeepInv'
<1> USE DEF diskVars, jobVars, sweepVars, history, bounds
<1>1. ASSUME NEW b \in Sweepers, EndRemoval(b) PROVE KeepInv'
  <2>1. /\ ops' = Without(bjob[b], bsnap[b])
        /\ dropped' = dropped \cup {j \in Jobs : /\ pc[j] \in Working
                                                 /\ ops[DbOf[j]] = j
                                                 /\ ops'[DbOf[j]] # j}
        /\ UNCHANGED <<pc, lock, snap, overtaken>>
    BY <1>1 DEF EndRemoval, Fill
  <2>2. WorkingJobKeepsEntry'
    BY <2>1 DEF KeepInv, WorkingJobKeepsEntry
  <2>3. LockInv' /\ ReserveInv'
    BY <2>1 DEF KeepInv, LockInv, ReserveInv, LostEntry
  <2>4. QED BY <2>2, <2>3 DEF KeepInv
<1>2. ASSUME NEW b \in Sweepers, RemovalStep(b), ~EndRemoval(b) PROVE KeepInv'
  BY <1>2, QuietStep DEF RemovalStep, ReadForRemoval, BeginRemoval, EndOfList
<1>3. CASE RecoveryStep
  BY <1>3, QuietStep DEF RecoveryStep, ListOrphans, NextOrphan, OrphanOutcome, OrphanError,
                         SaveOrphan, SaveJob
<1>4. CASE OrphanSaveThrows
  BY <1>4, QuietStep DEF OrphanSaveThrows
<1>5. CASE PurgeStep
  BY <1>5, QuietStep DEF PurgeStep, StartPurge, ExamineFile, UnlinkFile, SaveJob
<1>6. QED BY <1>1, <1>2, <1>3, <1>4, <1>5

LEMMA KeepSurroundings ==
  ASSUME TypeInv, KeepInv, Crash \/ \E j \in Jobs : TaskEnds(j) \/ Age(j)
  PROVE  KeepInv'
<1> USE DEF diskVars, jobVars, sweepVars, history, bounds
<1>1. ASSUME NEW j \in Jobs, TaskEnds(j) \/ Age(j) PROVE KeepInv'
  BY <1>1, QuietStep DEF TaskEnds, Age
<1>2. CASE Crash
  BY <1>2 DEF Crash, KeepInv, LockInv, ReserveInv, WorkingJobKeepsEntry, Working, Creating, Releasing
<1>3. QED BY <1>1, <1>2

LEMMA KeepInvariant == Spec => []KeepInv
<1>1. Init => KeepInv
  BY DEF Init, KeepInv, LockInv, ReserveInv, WorkingJobKeepsEntry, Working, Creating, Releasing
<1>2. TypeInv /\ KeepInv /\ [Next]_vars => KeepInv'
  <2> SUFFICES ASSUME TypeInv, KeepInv, [Next]_vars PROVE KeepInv'
    OBVIOUS
  <2>1. CASE Next
    BY <2>1, KeepJobStep, KeepSweepStep, KeepSurroundings DEF Next
  <2>2. CASE UNCHANGED vars
    BY <2>2, QuietStep DEF vars, diskVars, jobVars, sweepVars, history, bounds
  <2>3. QED BY <2>1, <2>2
<1>3. QED BY <1>1, <1>2, TypeInvariant, PTL DEF Spec

\* A working job loses its entry only to a createJob that judged it stale or to a
\* background rewrite: updates made under the lock never lose one.
THEOREM EntryKept == Spec => []WorkingJobKeepsEntry
<1>1. KeepInv => WorkingJobKeepsEntry
  BY DEF KeepInv
<1>2. QED BY <1>1, KeepInvariant, PTL

\* Two jobs at work on one database: one of them lost its entry in one of those
\* two ways.
THEOREM ExclusionUnlessLost == Spec => []OneJobPerDatabaseUnlessLost
<1>1. TypeInv /\ WorkingJobKeepsEntry => OneJobPerDatabaseUnlessLost
  BY DEF WorkingJobKeepsEntry, OneJobPerDatabaseUnlessLost
<1>2. QED BY <1>1, TypeInvariant, EntryKept, PTL

-----------------------------------------------------------------------------
(* What a job's status says of its CMS task *)

\* No copy of a job's record says more than its task: not its file, not its
\* worker's copy, not recovery's; and a job not yet submitted has no task, so
\* that none of them is left behind when it is submitted.
TruthInv ==
  \A j \in Jobs :
    /\ "succeeded" \in {file[j].status, mem[j].status, seen[j].status} => task[j] = "ok"
    /\ pc[j] \in {"new", "waitLock", "entered", "queued", "loaded", "running"} \cup Creating
         => task[j] = "none"

LEMMA TruthJobStep ==
  ASSUME TypeInv, TruthInv, NEW j \in Jobs, JobStep(j)
  PROVE  TruthInv'
<1> USE DEF TypeInv, TypeOK, Record, NoFile, Goto, SaveJob, Creating,
            diskVars, jobVars, sweepVars, history, bounds
<1>1. CASE CreateStep(j) \/ AcquireLock(j) \/ BeginWrite(j)
  <2>1. /\ UNCHANGED <<mem, seen, task>>
        /\ \A k \in Jobs : file'[k] = file[k] \/ file'[k].status = "queued"
        /\ \A k \in Jobs : \/ pc'[k] = pc[k]
                           \/ pc[k] \in {"new", "waitLock", "entered"} \cup Creating
                           \/ pc'[k] \in {"relRead", "clearing", "ended"}
    <3>1. CASE RequestJob(j)   BY <3>1 DEF RequestJob
    <3>2. CASE AcquireLock(j)  BY <3>2 DEF AcquireLock
    <3>3. CASE ReadEntries(j)  BY <3>3 DEF ReadEntries
    <3>4. CASE CheckEntry(j)   BY <3>4 DEF CheckEntry
    <3>5. CASE BeginWrite(j)   BY <3>5 DEF BeginWrite
    <3>6. CASE WriteEntry(j)   BY <3>6 DEF WriteEntry
    <3>7. CASE SaveQueued(j)   BY <3>7 DEF SaveQueued
    <3> QED
      BY <1>1, <3>1, <3>2, <3>3, <3>4, <3>5, <3>6, <3>7 DEF CreateStep
  <2> QED
    BY <2>1 DEF TruthInv
<1>2. CASE LoadJob(j)
  BY <1>2 DEF LoadJob, TruthInv
<1>3. CASE StartJob(j)
  BY <1>3 DEF StartJob, TruthInv
<1>4. CASE Submit(j)
  BY <1>4 DEF Submit, TruthInv
<1>5. CASE SaveUuid(j)
  BY <1>5 DEF SaveUuid, TruthInv
<1>6. CASE PollOutcome(j)
  BY <1>6 DEF PollOutcome, Outcome, TruthInv
<1>7. CASE CmsError(j)
  BY <1>7 DEF CmsError, TruthInv
<1>8. CASE SaveOutcome(j)
  BY <1>8 DEF SaveOutcome, TruthInv
<1>9. CASE ReadOwnEntry(j) \/ ClearEntry(j)
  BY <1>9 DEF ReadOwnEntry, ClearEntry, TruthInv
<1>10. CASE SaveThrows(j)
  BY <1>10 DEF SaveThrows, TruthInv
<1> QED
  BY <1>1, <1>2, <1>3, <1>4, <1>5, <1>6, <1>7, <1>8, <1>9, <1>10 DEF JobStep, WorkerStep

\* Recovery takes the outcome from the task itself, and a task that has ended stays
\* as it is.
LEMMA TruthOtherStep ==
  ASSUME TypeInv, TruthInv,
         \/ \E b \in Sweepers : RemovalStep(b)
         \/ RecoveryStep \/ OrphanSaveThrows \/ PurgeStep
         \/ Crash \/ \E j \in Jobs : TaskEnds(j) \/ Age(j)
  PROVE  TruthInv'
<1> USE DEF TypeInv, TypeOK, SweepInv, Record, NoFile, Sweepers, SaveJob,
            SweepTo, SweepDone, StopSweep,
            diskVars, jobVars, sweepVars, history, bounds
<1>1. ASSUME NEW b \in Sweepers, RemovalStep(b)
      PROVE  TruthInv'
  BY <1>1 DEF RemovalStep, ReadForRemoval, BeginRemoval, EndRemoval, EndOfList, TruthInv
<1>2. CASE ListOrphans
  BY <1>2 DEF ListOrphans, TruthInv
<1>3. CASE OrphanOutcome
  BY <1>3 DEF OrphanOutcome, Outcome, TruthInv
<1>4. CASE SaveOrphan
  BY <1>4 DEF SaveOrphan, TruthInv
<1>5. CASE OrphanSaveThrows \/ \E j \in Jobs : NextOrphan(j)
  BY <1>5 DEF OrphanSaveThrows, NextOrphan, TruthInv
<1>9. CASE OrphanError
  <2>1. UNCHANGED <<file, mem, pc, task>>
    BY <1>9 DEF OrphanError
  <2>2. \A j \in Jobs : seen'[j].status \in {seen[j].status, "failed"}
    BY <1>9 DEF OrphanError
  <2> QED
    BY <2>1, <2>2 DEF TruthInv
<1>6. CASE PurgeStep
  BY <1>6 DEF PurgeStep, StartPurge, ExamineFile, UnlinkFile, TruthInv
<1>7. CASE Crash
  BY <1>7 DEF Crash, TruthInv, Creating
<1>8. ASSUME NEW j \in Jobs, TaskEnds(j) \/ Age(j)
      PROVE  TruthInv'
  BY <1>8 DEF TaskEnds, Age, TruthInv
<1> QED
  BY <1>1, <1>2, <1>3, <1>4, <1>5, <1>6, <1>7, <1>8, <1>9 DEF RecoveryStep

LEMMA TruthInvariant == Spec => []TruthInv
<1>1. Init => TruthInv
  <2> SUFFICES ASSUME Init PROVE TruthInv
    OBVIOUS
  <2>1. \A j \in Jobs : /\ file[j].status = "none" /\ mem[j].status = "none" /\ seen[j].status = "none"
                        /\ task[j] = "none"
    BY DEF Init, NoFile
  <2> QED
    BY <2>1 DEF TruthInv
<1>2. TypeInv /\ TruthInv /\ [Next]_vars => TruthInv'
  <2> SUFFICES ASSUME TypeInv, TruthInv, [Next]_vars PROVE TruthInv'
    OBVIOUS
  <2>1. CASE Next
    BY <2>1, TruthJobStep, TruthOtherStep DEF Next
  <2>2. CASE UNCHANGED vars
    BY <2>2 DEF vars, diskVars, jobVars, sweepVars, TruthInv
  <2>3. QED BY <2>1, <2>2
<1>3. QED BY <1>1, <1>2, TypeInvariant, PTL DEF Spec

\* applyCmsOutcome, by the worker and by recovery after any crash: no job is shown
\* as succeeded whose CMS task did not succeed.
THEOREM SuccessIsTrue == Spec => []SucceededMeansTaskOk
<1>1. TruthInv => SucceededMeansTaskOk
  BY DEF TruthInv, SucceededMeansTaskOk
<1>2. QED BY <1>1, TruthInvariant, PTL

-----------------------------------------------------------------------------
(* With start-up recovery switched off (CMS_JOB_RECOVER_ON_STARTUP=false): the job *)
(* files implement JobLifecycle, a worker's job is always visible as active, and   *)
(* the stale check displaces a working job only while its record is unsaved.      *)

\* Where the worker stands tells what the file says.
FileMatches(j) ==
  /\ pc[j] \in {"new", "waitLock", "entered"} \cup Creating => file[j].status = "none"
  /\ pc[j] \in {"queued", "loaded"} => file[j].status = "queued"
  /\ pc[j] \in {"running", "submitted", "polling"} =>
       file[j].status = "running" /\ mem[j].status = "running"
  /\ pc[j] = "settling" =>
       file[j].status = "running" /\ mem[j].status \in {"succeeded", "failed"}
  /\ pc[j] \in {"release"} \cup Releasing => file[j].status \in {"succeeded", "failed"}
  /\ file[j].status # "interrupted"

\* Only jobs without a worker come of age, and only those are purged.
OldIsEnded ==
  /\ \A j \in aged : pc[j] = "ended"
  /\ \A j \in btodo["purge"] : pc[j] = "ended"
  /\ bjob["purge"] \in Jobs => pc[bjob["purge"]] = "ended"

NoRecoveryInv ==
  /\ bpc["recovery"] = "off"
  /\ OldIsEnded
  /\ \A j \in Jobs : FileMatches(j)

LEMMA NoRecoveryInit == ~RecoverOnStartup /\ Init => NoRecoveryInv
<1> SUFFICES ASSUME ~RecoverOnStartup, Init PROVE NoRecoveryInv
  OBVIOUS
<1>1. bpc["recovery"] = "off" /\ OldIsEnded
  BY NoJobAssumption DEF Init, OldIsEnded, Sweepers
<1>2. \A j \in Jobs : FileMatches(j)
  BY DEF Init, FileMatches, Creating, Releasing, NoFile
<1>3. QED BY <1>1, <1>2 DEF NoRecoveryInv

\* A step of one live job: it leaves the other jobs and the background programs
\* alone and lets no job come of age.
OwnStep(j) ==
  /\ pc[j] # "ended"
  /\ UNCHANGED <<bpc, btodo, bjob>>
  /\ aged' \subseteq aged
  /\ \A k \in Jobs \ {j} : pc'[k] = pc[k] /\ file'[k] = file[k] /\ mem'[k] = mem[k]

LEMMA OwnStepKeeps ==
  ASSUME TypeInv, NoRecoveryInv, NEW j \in Jobs, OwnStep(j), FileMatches(j)'
  PROVE  NoRecoveryInv'
<1>1. \A k \in Jobs \ {j} : FileMatches(k)'
  BY DEF OwnStep, NoRecoveryInv, FileMatches
<1>2. OldIsEnded'
  BY DEF OwnStep, NoRecoveryInv, OldIsEnded, TypeInv, TypeOK, Sweepers
<1>3. QED BY <1>1, <1>2 DEF OwnStep, NoRecoveryInv

LEMMA NoRecoveryJobStep ==
  ASSUME TypeInv, NoRecoveryInv, NEW j \in Jobs, JobStep(j)
  PROVE  NoRecoveryInv'
<1> USE DEF TypeInv, TypeOK, Record, NoFile, Goto, Creating, Releasing,
            diskVars, jobVars, sweepVars, history, bounds
<1>1. CASE RequestJob(j)
  <2>1. OwnStep(j)
    BY <1>1 DEF RequestJob, OwnStep
  <2>2. FileMatches(j)'
    BY <1>1 DEF RequestJob, FileMatches, NoRecoveryInv
  <2>3. QED BY <2>1, <2>2, OwnStepKeeps
<1>2. CASE AcquireLock(j)
  <2>1. OwnStep(j)
    BY <1>2 DEF AcquireLock, OwnStep
  <2>2. FileMatches(j)'
    BY <1>2 DEF AcquireLock, FileMatches, NoRecoveryInv
  <2>3. QED BY <2>1, <2>2, OwnStepKeeps
<1>3. CASE ReadEntries(j)
  <2>1. OwnStep(j)
    BY <1>3 DEF ReadEntries, OwnStep
  <2>2. FileMatches(j)'
    BY <1>3 DEF ReadEntries, FileMatches, NoRecoveryInv
  <2>3. QED BY <2>1, <2>2, OwnStepKeeps
<1>4. CASE CheckEntry(j)
  <2>1. OwnStep(j)
    BY <1>4 DEF CheckEntry, StaleEntry, OwnStep
  <2>2. FileMatches(j)'
    BY <1>4 DEF CheckEntry, StaleEntry, FileMatches, NoRecoveryInv
  <2>3. QED BY <2>1, <2>2, OwnStepKeeps
<1>5. CASE BeginWrite(j)
  <2>1. OwnStep(j)
    BY <1>5 DEF BeginWrite, OwnStep
  <2>2. FileMatches(j)'
    BY <1>5 DEF BeginWrite, FileMatches, NoRecoveryInv
  <2>3. QED BY <2>1, <2>2, OwnStepKeeps
<1>6. CASE WriteEntry(j)
  <2>1. OwnStep(j)
    BY <1>6 DEF WriteEntry, OwnStep
  <2>2. FileMatches(j)'
    BY <1>6 DEF WriteEntry, FileMatches, NoRecoveryInv
  <2>3. QED BY <2>1, <2>2, OwnStepKeeps
<1>7. CASE SaveQueued(j)
  <2>1. OwnStep(j)
    BY <1>7 DEF SaveQueued, SaveJob, OwnStep
  <2>2. FileMatches(j)'
    BY <1>7 DEF SaveQueued, SaveJob, FileMatches, NoRecoveryInv
  <2>3. QED BY <2>1, <2>2, OwnStepKeeps
<1>8. CASE LoadJob(j)
  <2>1. OwnStep(j)
    BY <1>8 DEF LoadJob, OwnStep
  <2>2. FileMatches(j)'
    BY <1>8 DEF LoadJob, FileMatches, NoRecoveryInv
  <2>3. QED BY <2>1, <2>2, OwnStepKeeps
<1>9. CASE StartJob(j)
  <2>1. OwnStep(j)
    BY <1>9 DEF StartJob, SaveJob, OwnStep
  <2>2. FileMatches(j)'
    BY <1>9 DEF StartJob, SaveJob, FileMatches, NoRecoveryInv
  <2>3. QED BY <2>1, <2>2, OwnStepKeeps
<1>10. CASE Submit(j)
  <2>1. OwnStep(j)
    BY <1>10 DEF Submit, OwnStep
  <2>2. FileMatches(j)'
    BY <1>10 DEF Submit, FileMatches, NoRecoveryInv
  <2>3. QED BY <2>1, <2>2, OwnStepKeeps
<1>11. CASE SaveUuid(j)
  <2>1. OwnStep(j)
    BY <1>11 DEF SaveUuid, SaveJob, OwnStep
  <2>2. FileMatches(j)'
    BY <1>11 DEF SaveUuid, SaveJob, FileMatches, NoRecoveryInv
  <2>3. QED BY <2>1, <2>2, OwnStepKeeps
<1>12. CASE PollOutcome(j)
  <2>1. OwnStep(j)
    BY <1>12 DEF PollOutcome, Outcome, OwnStep
  <2>2. FileMatches(j)'
    BY <1>12 DEF PollOutcome, Outcome, FileMatches, NoRecoveryInv
  <2>3. QED BY <2>1, <2>2, OwnStepKeeps
<1>13. CASE CmsError(j)
  <2>1. OwnStep(j)
    BY <1>13 DEF CmsError, OwnStep
  <2>2. FileMatches(j)'
    BY <1>13 DEF CmsError, FileMatches, NoRecoveryInv
  <2>3. QED BY <2>1, <2>2, OwnStepKeeps
<1>14. CASE SaveOutcome(j)
  <2>1. OwnStep(j)
    BY <1>14 DEF SaveOutcome, SaveJob, OwnStep
  <2>2. FileMatches(j)'
    BY <1>14 DEF SaveOutcome, SaveJob, FileMatches, NoRecoveryInv
  <2>3. QED BY <2>1, <2>2, OwnStepKeeps
<1>15. CASE ReadOwnEntry(j)
  <2>1. OwnStep(j)
    BY <1>15 DEF ReadOwnEntry, OwnStep
  <2>2. FileMatches(j)'
    BY <1>15 DEF ReadOwnEntry, FileMatches, NoRecoveryInv
  <2>3. QED BY <2>1, <2>2, OwnStepKeeps
<1>16. CASE ClearEntry(j)
  <2>1. OwnStep(j)
    BY <1>16 DEF ClearEntry, OwnStep
  <2>2. FileMatches(j)'
    BY <1>16 DEF ClearEntry, FileMatches, NoRecoveryInv
  <2>3. QED BY <2>1, <2>2, OwnStepKeeps
<1>17. CASE SaveThrows(j)
  <2>1. OwnStep(j)
    BY <1>17 DEF SaveThrows, OwnStep
  <2>2. FileMatches(j)'
    BY <1>17 DEF SaveThrows, FileMatches, NoRecoveryInv
  <2>3. QED BY <2>1, <2>2, OwnStepKeeps
<1>18. QED
  BY <1>1, <1>2, <1>3, <1>4, <1>5, <1>6, <1>7, <1>8, <1>9, <1>10, <1>11, <1>12,
     <1>13, <1>14, <1>15, <1>16, <1>17
  DEF JobStep, CreateStep, WorkerStep

\* Recovery is off; purge removes files of ended jobs only.
LEMMA NoRecoverySweepStep ==
  ASSUME TypeInv, NoRecoveryInv,
         (\E b \in Sweepers : RemovalStep(b)) \/ RecoveryStep \/ OrphanSaveThrows \/ PurgeStep
  PROVE  NoRecoveryInv'
<1> USE DEF TypeInv, TypeOK, Sweepers, SweepTo, SweepDone, StopSweep,
            diskVars, jobVars, sweepVars, history, bounds
<1>1. ASSUME RemovalStep("purge") PROVE NoRecoveryInv'
  <2>1. /\ UNCHANGED <<pc, file, mem, aged>>
        /\ bpc'["recovery"] = bpc["recovery"]
        /\ btodo'["purge"] \subseteq btodo["purge"]
        /\ bjob'["purge"] \in {bjob["purge"], NoJob}
    BY <1>1 DEF RemovalStep, ReadForRemoval, BeginRemoval, EndRemoval, EndOfList
  <2>2. QED
    BY <2>1, NoJobAssumption DEF NoRecoveryInv, OldIsEnded, FileMatches
<1>2. ASSUME RemovalStep("recovery") PROVE FALSE
  BY <1>2 DEF NoRecoveryInv, RemovalStep, ReadForRemoval, BeginRemoval, EndRemoval, EndOfList
<1>3. CASE RecoveryStep \/ OrphanSaveThrows
  BY <1>3 DEF NoRecoveryInv, RecoveryStep, ListOrphans, NextOrphan, OrphanOutcome, OrphanError,
              SaveOrphan, OrphanSaveThrows
<1>4. CASE StartPurge
  BY <1>4 DEF StartPurge, NoRecoveryInv, OldIsEnded, FileMatches
<1>5. ASSUME NEW j \in Jobs, ExamineFile(j) PROVE NoRecoveryInv'
  BY <1>5 DEF ExamineFile, NoRecoveryInv, OldIsEnded, FileMatches
<1>6. CASE UnlinkFile
  <2>1. bjob["purge"] \in Jobs /\ pc[bjob["purge"]] = "ended"
    BY <1>6 DEF UnlinkFile, NoRecoveryInv, OldIsEnded, SweepInv
  <2>2. \A k \in Jobs \ {bjob["purge"]} : FileMatches(k)'
    BY <1>6 DEF UnlinkFile, SaveJob, NoRecoveryInv, FileMatches
  <2>3. ASSUME NEW k \in Jobs, k = bjob["purge"] PROVE FileMatches(k)'
    BY <1>6, <2>1, <2>3 DEF UnlinkFile, SaveJob, NoFile, FileMatches, Creating, Releasing
  <2>4. OldIsEnded' /\ bpc'["recovery"] = "off"
    BY <1>6 DEF UnlinkFile, SaveJob, NoRecoveryInv, OldIsEnded
  <2>5. QED BY <2>2, <2>3, <2>4 DEF NoRecoveryInv
<1>7. QED BY <1>1, <1>2, <1>3, <1>4, <1>5, <1>6 DEF PurgeStep

LEMMA NoRecoverySurroundings ==
  ASSUME ~RecoverOnStartup, TypeInv, NoRecoveryInv, Crash \/ \E j \in Jobs : TaskEnds(j) \/ Age(j)
  PROVE  NoRecoveryInv'
<1> USE DEF TypeInv, TypeOK, diskVars, jobVars, sweepVars, history, bounds
<1>1. ASSUME NEW j \in Jobs, TaskEnds(j) PROVE NoRecoveryInv'
  BY <1>1 DEF TaskEnds, NoRecoveryInv, OldIsEnded, FileMatches
<1>2. ASSUME NEW j \in Jobs, Age(j) PROVE NoRecoveryInv'
  BY <1>2 DEF Age, NoRecoveryInv, OldIsEnded, FileMatches
<1>3. CASE Crash
  <2>1. OldIsEnded' /\ bpc'["recovery"] = "off"
    BY <1>3, NoJobAssumption DEF Crash, NoRecoveryInv, OldIsEnded, Sweepers
  <2>2. ASSUME NEW k \in Jobs PROVE FileMatches(k)'
    BY <1>3 DEF Crash, NoRecoveryInv, FileMatches, Creating, Releasing
  <2>3. QED BY <2>1, <2>2 DEF NoRecoveryInv
<1>4. QED BY <1>1, <1>2, <1>3

LEMMA NoRecoveryInvariant ==
  ASSUME ~RecoverOnStartup
  PROVE  Spec => []NoRecoveryInv
<1>1. Init => NoRecoveryInv
  BY NoRecoveryInit
<1>2. TypeInv /\ NoRecoveryInv /\ [Next]_vars => NoRecoveryInv'
  <2> SUFFICES ASSUME TypeInv, NoRecoveryInv, [Next]_vars PROVE NoRecoveryInv'
    OBVIOUS
  <2>1. CASE Next
    BY <2>1, NoRecoveryJobStep, NoRecoverySweepStep, NoRecoverySurroundings DEF Next
  <2>2. CASE UNCHANGED vars
    BY <2>2 DEF vars, diskVars, jobVars, sweepVars, NoRecoveryInv, OldIsEnded, FileMatches
  <2>3. QED BY <2>1, <2>2
<1>3. QED BY <1>1, <1>2, TypeInvariant, PTL DEF Spec

\* hasActiveJobForHost can rely on the job file: from the record saved to the
\* outcome saved it says queued or running, purge and crashes included.
THEOREM WorkingVisible ==
  ASSUME ~RecoverOnStartup
  PROVE  Spec => []WorkingJobVisible
<1>1. NoRecoveryInv => WorkingJobVisible
  BY DEF NoRecoveryInv, FileMatches, WorkingJobVisible, Working, Active
<1>2. QED BY <1>1, NoRecoveryInvariant, PTL

\* The stale check of createJob displaces a working job only in the window
\* between its entry and its record.
THEOREM OvertakenInWindow ==
  ASSUME ~RecoverOnStartup
  PROVE  Spec => OvertakenOnlyUnsaved
<1>1. TypeInv /\ NoRecoveryInv /\ [Next]_vars
        => [\A j \in overtaken' \ overtaken : pc[j] = "entered"]_vars
  <2> SUFFICES ASSUME TypeInv, NoRecoveryInv, Next, NEW j \in overtaken' \ overtaken
               PROVE  pc[j] = "entered"
    OBVIOUS
  <2>1. PICK k \in Jobs : CheckEntry(k) /\ pc[j] \in Working /\ StaleEntry(j)
    BY DEF Next, JobStep, CreateStep, WorkerStep, RemovalStep, RecoveryStep, PurgeStep,
           diskVars, jobVars, sweepVars, history, bounds,
           RequestJob, AcquireLock, ReadEntries, CheckEntry, BeginWrite, WriteEntry, SaveQueued,
           LoadJob, StartJob, Submit, SaveUuid, PollOutcome, CmsError, SaveOutcome,
           ReadOwnEntry, ClearEntry, SaveThrows, ReadForRemoval, BeginRemoval, EndRemoval,
           EndOfList, ListOrphans, NextOrphan, OrphanOutcome, OrphanError, SaveOrphan,
           OrphanSaveThrows, StartPurge, ExamineFile, UnlinkFile, TaskEnds, Age, Crash
  <2>2. j \in Jobs
    BY <2>1 DEF CheckEntry, TypeInv, CheckInv, StaleEntry
  <2>3. QED
    BY <2>1, <2>2 DEF NoRecoveryInv, FileMatches, StaleEntry, Working, Active
<1>2. QED BY <1>1, TypeInvariant, NoRecoveryInvariant, PTL DEF Spec, OvertakenOnlyUnsaved

-----------------------------------------------------------------------------
(* Refinement: the job files implement JobLifecycle *)

Moved(j) == lifecycle'[j] # lifecycle[j] => <<lifecycle[j], lifecycle'[j]>> \in Life!Moves

\* What any step may do to one job, in terms of its file and its worker.
StatusStep(j) ==
  \/ file'[j].status = file[j].status /\ (pc[j] = "ended" => pc'[j] = "ended")
  \/ file[j].status = "none" /\ file'[j].status = "queued" /\ pc[j] # "ended"
  \/ file[j].status = "queued" /\ file'[j].status = "running"
  \/ file[j].status = "running" /\ file'[j].status \in {"succeeded", "failed"}
  \/ file'[j].status = "none" /\ pc[j] = "ended" /\ pc'[j] = "ended"

\* Each of these is a move of the abstract lifecycle, or none.
LEMMA StatusStepMoves ==
  ASSUME TypeInv, TypeInv', NEW j \in Jobs, StatusStep(j)
  PROVE  Moved(j)
<1>1. /\ lifecycle[j] = IF file[j].status = "interrupted" THEN "failed"
                        ELSE IF file[j].status # "none" THEN file[j].status
                        ELSE IF pc[j] = "ended" THEN "gone" ELSE "new"
      /\ lifecycle'[j] = IF file'[j].status = "interrupted" THEN "failed"
                         ELSE IF file'[j].status # "none" THEN file'[j].status
                         ELSE IF pc'[j] = "ended" THEN "gone" ELSE "new"
  BY DEF lifecycle
<1>2. file[j].status \in Active \cup Terminal \cup {"none"}
  BY DEF TypeInv, TypeOK, Record
<1>3. QED
  BY <1>1, <1>2 DEF StatusStep, Moved, Life!Moves, Life!Status, Life!Outcomes, Active, Terminal

\* A worker writes the status its file goes to next; nobody else writes it.
LEMMA JobStepStatus ==
  ASSUME TypeInv, NoRecoveryInv, NEW j \in Jobs, JobStep(j)
  PROVE  \A k \in Jobs : StatusStep(k)
<1> USE DEF TypeInv, TypeOK, Goto, diskVars, jobVars
<1>1. FileMatches(j)
  BY DEF NoRecoveryInv
<1>2. CASE SaveQueued(j)
  BY <1>1, <1>2 DEF SaveQueued, SaveJob, StatusStep, FileMatches
<1>3. CASE StartJob(j)
  BY <1>1, <1>3 DEF StartJob, SaveJob, StatusStep, FileMatches, Record
<1>4. CASE SaveUuid(j)
  BY <1>1, <1>4 DEF SaveUuid, SaveJob, StatusStep, FileMatches, Record
<1>5. CASE SaveOutcome(j)
  BY <1>1, <1>5 DEF SaveOutcome, SaveJob, StatusStep, FileMatches
<1>6. CASE ~(SaveQueued(j) \/ StartJob(j) \/ SaveUuid(j) \/ SaveOutcome(j))
  <2>1. UNCHANGED file
    BY <1>6 DEF JobStep, CreateStep, WorkerStep, RequestJob, AcquireLock, ReadEntries, CheckEntry,
                BeginWrite, WriteEntry, LoadJob, Submit, PollOutcome, CmsError, ReadOwnEntry,
                ClearEntry, SaveThrows
  <2>2. pc[j] # "ended" /\ \A k \in Jobs \ {j} : pc'[k] = pc[k]
    BY <1>6 DEF JobStep, CreateStep, WorkerStep, RequestJob, AcquireLock, ReadEntries, CheckEntry,
                StaleEntry, BeginWrite, WriteEntry, LoadJob, Submit, PollOutcome, CmsError,
                ReadOwnEntry, ClearEntry, SaveThrows
  <2>3. QED BY <2>1, <2>2 DEF StatusStep
<1>7. QED BY <1>2, <1>3, <1>4, <1>5, <1>6

LEMMA OtherStepStatus ==
  ASSUME TypeInv, NoRecoveryInv, NEW k \in Jobs,
         \/ \E b \in Sweepers : RemovalStep(b)
         \/ RecoveryStep \/ OrphanSaveThrows \/ PurgeStep
         \/ Crash \/ \E j \in Jobs : TaskEnds(j) \/ Age(j)
  PROVE  StatusStep(k)
<1> USE DEF TypeInv, TypeOK, diskVars, jobVars
<1>1. CASE UnlinkFile
  <2>1. pc[bjob["purge"]] = "ended" /\ bjob["purge"] \in Jobs
    BY <1>1 DEF UnlinkFile, NoRecoveryInv, OldIsEnded, SweepInv, Sweepers
  <2>2. QED
    BY <1>1, <2>1 DEF UnlinkFile, SaveJob, NoFile, StatusStep
<1>2. CASE Crash
  BY <1>2 DEF Crash, StatusStep
<1>3. CASE ~UnlinkFile /\ ~Crash
  <2>1. UNCHANGED <<file, pc>>
    BY <1>3 DEF NoRecoveryInv, RemovalStep, ReadForRemoval, BeginRemoval, EndRemoval, EndOfList,
                RecoveryStep, ListOrphans, NextOrphan, OrphanOutcome, OrphanError, SaveOrphan,
                OrphanSaveThrows, PurgeStep, StartPurge, ExamineFile, TaskEnds, Age
  <2>2. QED BY <2>1 DEF StatusStep
<1>4. QED BY <1>1, <1>2, <1>3

\* With recovery off, the status a client is shown moves as JobLifecycle says: it
\* never goes back and never changes its outcome.
THEOREM Refinement ==
  ASSUME ~RecoverOnStartup
  PROVE  Spec => ImplementsLifecycle
<1>1. Init => Life!Init
  BY DEF Init, Life!Init, lifecycle, NoFile
<1>2. TypeInv /\ TypeInv' /\ NoRecoveryInv /\ [Next]_vars => [Life!Next]_lifecycle
  <2> SUFFICES ASSUME TypeInv, TypeInv', NoRecoveryInv, [Next]_vars
               PROVE  [Life!Next]_lifecycle
    OBVIOUS
  <2>1. CASE Next
    <3>1. \A k \in Jobs : StatusStep(k)
      BY <2>1, JobStepStatus, OtherStepStatus DEF Next
    <3>2. \A k \in Jobs : Moved(k)
      BY <3>1, StatusStepMoves
    <3>3. lifecycle' \in [Jobs -> Life!Status]
      BY DEF lifecycle, Life!Status, Life!Outcomes, TypeInv, TypeOK, Record, Active, Terminal
    <3>4. QED BY <3>2, <3>3 DEF Moved, Life!Next
  <2>2. CASE UNCHANGED vars
    BY <2>2 DEF vars, diskVars, jobVars, lifecycle
  <2>3. QED BY <2>1, <2>2
<1>3. QED
  BY <1>1, <1>2, TypeInvariant, NoRecoveryInvariant, PTL DEF Spec, ImplementsLifecycle, Life!Spec
=============================================================================

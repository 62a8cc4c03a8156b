------------------------------ MODULE ConfEdit ------------------------------
(***************************************************************************)
(* Edits of cubrid.conf and of the automatic query plans of a CMS host.    *)
(*                                                                         *)
(* CMS reads and writes whole files, so an edit is a read, a decision and  *)
(* a write, by three requests at most.  Edits of cubrid.conf run in a      *)
(* queue per server (withHostConfigMutex), edits of a plan list in one per *)
(* user's entry of the host (withQueryPlanMutex).  The raw editor saves    *)
(* only over the text it opened.  A user may give the host another address *)
(* at any time; every request looks it up again.                           *)
(*                                                                         *)
(* A user has one entry of a host.  Requests to one CMS come one at a      *)
(* time, in the order of their own queue, so a request is one step.        *)
(***************************************************************************)
EXTENDS KeyedQueue

CONSTANTS
  Users, Servers, FirstServer,  \* FirstServer: the one the users have at the start
  Dbs, Plans,
  Requests,   \* the edits asked for, members of Edit
  PlanLists,  \* the lists setAutoExecQuery is called with
  Moves       \* bound: changes of a host's address

ASSUME KeysAssumption == Keys = Servers \cup Users /\ FirstServer \in Servers

VARIABLES
  entry,      \* user file: the server of a user's host
  session,    \* the server that gave the token stored with it
  conf, plans, \* CMS: cubrid.conf and the plan list of each server
  step,       \* where an edit stands
  edit, by,   \* what is asked, and whose call it is
  read, from, \* the file an edit read, and the server it read it from
  loaded,     \* the text the raw editor opened
  moved,      \* changes of address made
  disturbed   \* history: edits whose file another queue's call wrote meanwhile

hostVars == <<entry, session>>
fileVars == <<conf, plans>>
callVars == <<step, edit, by, read, from, loaded>>
history  == <<moved, disturbed>>
vars == <<queueVars, hostVars, fileVars, callVars, history>>

-----------------------------------------------------------------------------
(* The files *)

\* cubrid.conf: the autostart list, the databases with a section of their own,
\* and who wrote the rest of the text.
ConfFile == [auto : SUBSET Dbs, own : SUBSET Dbs, text : Calls \cup {NoCall}]

\* A plan, and who wrote it last.
PlanList == SUBSET [id : Plans, last : Calls \cup {NoCall}]

Edit ==
  [kind : {"setAuto", "removeAuto", "haOff", "forget"}, db : Dbs]
    \cup [kind : {"rename"}, db : Dbs, new : Dbs]
    \cup [kind : {"raw"}]
    \cup [kind : {"appendPlan", "updatePlan", "removePlan"}, plan : Plans]

NoEdit == [kind |-> "none"]

OfPlans(e) == e.kind \in {"appendPlan", "updatePlan", "removePlan"}
File(e, s) == IF OfPlans(e) THEN plans[s] ELSE conf[s]

Autostarted(f, d) == [f EXCEPT !.auto = @ \cup {d}]
NotStarted(f, d)  == [f EXCEPT !.auto = @ \ {d}]
HaModeOff(f, d)   == [f EXCEPT !.own = @ \cup {d}]
Forgotten(f, d)   == [NotStarted(f, d) EXCEPT !.own = @ \ {d}]

\* A name is replaced where the old one is; a section of the new name stays, and
\* so does then the old one.
Renamed(f, old, new) ==
  [f EXCEPT
     !.auto = IF old \in @ THEN (@ \ {old}) \cup {new} ELSE @,
     !.own  = IF old \in @ /\ new \notin @ THEN (@ \ {old}) \cup {new} ELSE @]

PlansBut(f, id) == {p \in f : p.id # id}
HasPlan(f, id)  == \E p \in f : p.id = id

\* The text call c writes when asked for e, given the file as it read it.
Edited(c, e, f) ==
  CASE e.kind = "setAuto"    -> Autostarted(f, e.db)
    [] e.kind = "removeAuto" -> NotStarted(f, e.db)
    [] e.kind = "haOff"      -> HaModeOff(f, e.db)
    [] e.kind = "forget"     -> Forgotten(f, e.db)
    [] e.kind = "rename"     -> Renamed(f, e.db, e.new)
    [] e.kind = "raw"        -> [f EXCEPT !.text = c]
    [] e.kind = "removePlan" -> PlansBut(f, e.plan)
    [] e.kind \in {"appendPlan", "updatePlan"} ->
         PlansBut(f, e.plan) \cup {[id |-> e.plan, last |-> c]}

\* Variant: the raw editor's save does not look at the file.
RejectedUnlessRaw(c, e, f) ==
  \/ e.kind = "removeAuto" /\ e.db \notin f.auto
  \/ e.kind = "appendPlan" /\ HasPlan(f, e.plan)
  \/ e.kind \in {"updatePlan", "removePlan"} /\ ~HasPlan(f, e.plan)

\* The file read is not one the edit applies to.
Rejected(c, e, f) ==
  \/ e.kind = "removeAuto" /\ e.db \notin f.auto
  \/ e.kind = "raw" /\ f # loaded[c]
  \/ e.kind = "appendPlan" /\ HasPlan(f, e.plan)
  \/ e.kind \in {"updatePlan", "removePlan"} /\ ~HasPlan(f, e.plan)

\* Variant: the queue is one per user's entry.
KeyByEntry(e, u) == u

\* hostConfigKey; `${hostUid}:${dbname}`
KeyOf(e, u) == IF OfPlans(e) THEN u ELSE entry[u]

-----------------------------------------------------------------------------
Blank == [auto |-> {}, own |-> {}, text |-> NoCall]
PlaceAt(label) ==
  CASE label \in {"new", "open"}   -> "new"
    [] label = "waiting"           -> "waiting"
    [] label \in {"read", "write"} -> "running"
    [] label \in {"done", "refused"} -> "left"

TypeOK ==
  /\ QueueTypeOK
  /\ entry \in [Users -> Servers] /\ session \in [Users -> Servers]
  /\ conf \in [Servers -> ConfFile] /\ plans \in [Servers -> PlanList]
  /\ \A s \in Servers : \A p, q \in plans[s] : p.id = q.id => p = q
  /\ step \in [Calls -> {"new", "open", "waiting", "read", "write", "done", "refused"}]
  /\ \A c \in Calls : place[c] = PlaceAt(step[c])
  /\ edit \in [Calls -> Requests \cup {NoEdit}] /\ by \in [Calls -> Users \cup {NoCall}]
  /\ \A c \in Calls :
       step[c] = "write" => read[c] \in IF OfPlans(edit[c]) THEN PlanList ELSE ConfFile
  /\ from \in [Calls -> Servers \cup {NoCall}] /\ loaded \in [Calls -> ConfFile]
  /\ moved \subseteq Moves /\ disturbed \subseteq Calls

Init ==
  /\ QueueInit
  /\ entry = [u \in Users |-> FirstServer] /\ session = entry
  /\ conf = [s \in Servers |-> Blank] /\ plans = [s \in Servers |-> {}]
  /\ step = [c \in Calls |-> "new"]
  /\ edit = [c \in Calls |-> NoEdit] /\ by = [c \in Calls |-> NoCall]
  /\ read = [c \in Calls |-> NoCall] /\ from = [c \in Calls |-> NoCall]
  /\ loaded = [c \in Calls |-> Blank]
  /\ moved = {} /\ disturbed = {}

-----------------------------------------------------------------------------
(* Edits *)

Goto(c, label) == step' = [step EXCEPT ![c] = label]

\* CMS takes the request: the token is one of this server.
LoggedIn(c) == session[by[c]] = entry[by[c]]

\* The raw editor opens the file, in no queue.
Open(c, u) ==
  /\ step[c] = "new" /\ session[u] = entry[u]
  /\ edit' = [edit EXCEPT ![c] = [kind |-> "raw"]] /\ by' = [by EXCEPT ![c] = u]
  /\ loaded' = [loaded EXCEPT ![c] = conf[entry[u]]]
  /\ Goto(c, "open")
  /\ UNCHANGED <<queueVars, hostVars, fileVars, read, from, history>>

\* The host is looked up and the call takes its place.
Call(c, e, u) ==
  /\ IF e.kind = "raw" THEN step[c] = "open" /\ by[c] = u ELSE step[c] = "new"
  /\ edit' = [edit EXCEPT ![c] = e] /\ by' = [by EXCEPT ![c] = u]
  /\ Enter(c, KeyOf(e, u))
  /\ Goto(c, "waiting")
  /\ UNCHANGED <<hostVars, fileVars, read, from, loaded, history>>

Begin(c) ==
  /\ Start(c)
  /\ Goto(c, "read")
  /\ UNCHANGED <<hostVars, fileVars, edit, by, read, from, loaded, history>>

\* Variant: an edit that is turned away keeps its turn.
ReadOnly(c) ==
  LET f == File(edit[c], entry[by[c]]) IN
  /\ step[c] = "read" /\ LoggedIn(c)
  /\ read' = [read EXCEPT ![c] = f] /\ from' = [from EXCEPT ![c] = entry[by[c]]]
  /\ Goto(c, IF Rejected(c, edit[c], f) THEN "refused" ELSE "write")
  /\ UNCHANGED <<queueVars, hostVars, fileVars, edit, by, loaded, history>>

\* getAllSystemParam, getAutoExecQuery; nothing is written if the file is not one
\* the edit applies to, or already is as it should be.
Read(c) ==
  LET f == File(edit[c], entry[by[c]]) IN
  /\ step[c] = "read" /\ LoggedIn(c)
  /\ read' = [read EXCEPT ![c] = f] /\ from' = [from EXCEPT ![c] = entry[by[c]]]
  /\ IF Rejected(c, edit[c], f)      THEN Leave(c) /\ Goto(c, "refused")
     ELSE IF Edited(c, edit[c], f) = f THEN Leave(c) /\ Goto(c, "done")
     ELSE Goto(c, "write") /\ UNCHANGED queueVars
  /\ UNCHANGED <<hostVars, fileVars, edit, by, loaded, history>>

\* Edits that read the file at s before a call of another queue wrote it.
Disturbed(c, s) ==
  {d \in Calls : /\ step[d] = "write" /\ from[d] = s /\ key[d] # key[c]
                 /\ OfPlans(edit[d]) = OfPlans(edit[c])}

\* setSystemParam, setautoexecquery; the answer may get lost.
Write(c) ==
  LET s == entry[by[c]]
      f == Edited(c, edit[c], read[c])
  IN /\ step[c] = "write" /\ LoggedIn(c)
     /\ IF OfPlans(edit[c]) THEN plans' = [plans EXCEPT ![s] = f] /\ UNCHANGED conf
                            ELSE conf' = [conf EXCEPT ![s] = f] /\ UNCHANGED plans
     /\ disturbed' = disturbed \cup Disturbed(c, s)
     /\ Leave(c)
     /\ \E answer \in {"done", "refused"} : Goto(c, answer)
     /\ UNCHANGED <<hostVars, edit, by, read, from, loaded, moved>>

\* Variant: a failure does not end the call.
FailsStaying(c) ==
  /\ step[c] \in {"read", "write"} /\ ~LoggedIn(c)
  /\ UNCHANGED vars

\* The database login is missing, CMS turns the token away, or a request fails.
Fails(c) ==
  /\ step[c] \in {"read", "write"}
  /\ Leave(c) /\ Goto(c, "refused")
  /\ UNCHANGED <<hostVars, fileVars, edit, by, read, from, loaded, history>>

-----------------------------------------------------------------------------
(* What else writes *)

\* setAutoExecQuery writes the whole list, in no queue.
SetPlans(u, list) ==
  LET s == entry[u] IN
  /\ session[u] = s /\ plans[s] # list
  /\ plans' = [plans EXCEPT ![s] = list]
  /\ disturbed' = disturbed \cup {d \in Calls : step[d] = "write" /\ from[d] = s /\ OfPlans(edit[d])}
  /\ UNCHANGED <<queueVars, hostVars, conf, callVars, moved>>

\* A user gives the host another address; the token is still the old server's.
Move(m, u, s) ==
  /\ m \notin moved /\ s # entry[u]
  /\ moved' = moved \cup {m}
  /\ entry' = [entry EXCEPT ![u] = s]
  /\ UNCHANGED <<queueVars, session, fileVars, callVars, disturbed>>

HostLogin(u) ==
  /\ session[u] # entry[u]
  /\ session' = [session EXCEPT ![u] = entry[u]]
  /\ UNCHANGED <<queueVars, entry, fileVars, callVars, history>>

EditStep(c) == Begin(c) \/ Read(c) \/ Write(c) \/ Fails(c)

Next ==
  \/ \E c \in Calls, u \in Users : Open(c, u) \/ \E e \in Requests : Call(c, e, u)
  \/ \E c \in Calls : EditStep(c)
  \/ \E u \in Users, list \in PlanLists : SetPlans(u, list)
  \/ \E m \in Moves, u \in Users, s \in Servers : Move(m, u, s)
  \/ \E u \in Users : HostLogin(u)

Spec == Init /\ [][Next]_vars

\* A turn that comes is taken, and every request of an edit ends.
FairSpec == Spec /\ \A c \in Calls : WF_vars(EditStep(c))

-----------------------------------------------------------------------------
(* Properties *)

\* A call of another queue may write a plan list at any time, but cubrid.conf only
\* if a host got another address meanwhile: its edits are in one queue whoever's
\* they are.
Interfered(c) == c \in disturbed /\ (OfPlans(edit[c]) \/ moved # {})

\* A file changes only by whole edits of what it holds then: no edit is written
\* over another, and a raw save only over the text its user saw.  Left out are
\* the edits that a call of another queue, or a change of address, came into, and a
\* file read at one server that is written over the file of another after that change.
EditsAreWhole ==
  [][\A s \in Servers, c \in Calls :
       step[c] = "write" /\ place'[c] = "left" /\ File(edit[c], s) # File(edit[c], s)' =>
         \/ Interfered(c) \/ from[c] # s
         \/ /\ File(edit[c], s)' = Edited(c, edit[c], File(edit[c], s))
            /\ edit[c].kind = "raw" => conf[s] = loaded[c]]_vars

\* Every edit ends, whatever those before it in the queue met.
EveryEditEnds ==
  \A c \in Calls : step[c] = "waiting" ~> step[c] \in {"done", "refused"}
=============================================================================

------------------------ MODULE HostOperationsProofs ------------------------
(***************************************************************************)
(* Proofs about HostOperations, for any host, any requests and any jobs.   *)
(*                                                                         *)
(*  - JobsAsAlone: beside the lifecycle actions the jobs behave as CmsJob  *)
(*    says, so what is proved of CmsJob holds on the host;                 *)
(*  - ActionsExclude: two actions work on one database only when           *)
(*    restartWholeService went for one that it does not hold.  The         *)
(*    invariant that carries it (HoldInv) follows the databases an action  *)
(*    wants from the hold to the last command it waits for;                *)
(*  - BesideOnlyInWindow: a job and an action work on one database only    *)
(*    through the gap between the action's two looks (BesideInv), when no  *)
(*    start-up recovery empties the operations;                            *)
(*  - HaStartOnlyStopped and ResultHolds: what a command is sent for and   *)
(*    what an action reports is so at CMS.  CommandInv ties every task CMS *)
(*    runs to the action that waits for it, and a database an action is    *)
(*    done with to its state at CMS.                                       *)
(***************************************************************************)
EXTENDS HostOperations, CmsJobProofs

USE NoActionAssumption, HostAssumption, RequestsAssumption
USE DbOfAssumption, NoJobAssumption

\* CmsJob's theorems apply to a host: every step of the host is a step of the jobs or
\* leaves them alone.
THEOREM JobsAsAlone == HostSpec => Spec
<1>1. HostInit => Init
  BY DEF HostInit
<1>2. [HostNext]_hvars => [Next]_vars
  <2> SUFFICES ASSUME [HostNext]_hvars PROVE [Next]_vars
    OBVIOUS
  <2>1. CASE UNCHANGED hvars
    BY <2>1 DEF hvars
  <2>2. CASE \E a \in Actions : Begin(a) \/ ActionStep(a)
    BY <2>2 DEF Begin, ActionStep, LocalStep, CmsStep, Hold, ReadOperations, LookForJobs, ListDatabases,
                Throws, Plan, RereadHa, Send, NotSent, Answered, Lost, Confirm, PhaseOver
  <2>3. CASE CommandEnds
    BY <2>3 DEF CommandEnds
  <2>4. CASE JobsMove
    BY <2>4 DEF JobsMove
  <2>5. CASE HostCrash
    BY <2>5 DEF HostCrash, Next
  <2>6. QED BY <2>1, <2>2, <2>3, <2>4, <2>5 DEF HostNext
<1>3. QED BY <1>1, <1>2, PTL DEF HostSpec, Spec

-----------------------------------------------------------------------------
(* The action lock *)

\* From the hold on, where an action may have databases.
InHold(a) ==
  \/ apc[a] \in {"plan", "reread", "act", "confirm"}
  \/ apc[a] \in {"check", "look"} /\ request[a].mode = "single"

\* The part of the types the argument needs.
Shape ==
  /\ held \in [Dbs -> Actions \cup {NoAction}]
  /\ request \in [Actions -> Request]
  /\ apc \in [Actions -> ActionPc]
  /\ want \in [Actions -> SUBSET Dbs]
  /\ todo \in [Actions -> SUBSET Dbs]
  /\ sent \in [Actions -> SUBSET Dbs]
  /\ good \in [Actions -> SUBSET Dbs]
  /\ phase \in [Actions -> Phases]
  /\ up \subseteq Dbs

HoldsWanted == \A a \in Actions : \A d \in want[a] : held[d] = a

WantsHoldSet == \A a \in Actions : want[a] = IF InHold(a) THEN HoldSet(a) ELSE {}

WorksOnWanted ==
  \A a \in Actions : request[a].mode # "restart" =>
    /\ todo[a] \cup sent[a] \subseteq want[a]
    /\ apc[a] # "done" => good[a] \subseteq want[a]

ListsWhole == \A a \in Actions : apc[a] \in {"prelook", "precheck", "list"} => Whole(a)

BeginsEmpty == \A a \in Actions : apc[a] = "begin" => todo[a] = {} /\ sent[a] = {} /\ good[a] = {}

HoldInv == Shape /\ HoldsWanted /\ WantsHoldSet /\ WorksOnWanted /\ ListsWhole /\ BeginsEmpty

LEMMA ExcludeFollows == HoldInv => OneActionPerDatabase
  BY DEF HoldInv, HoldsWanted, WorksOnWanted, OneActionPerDatabase, Acting, Shape

\* Where the checks and the hold lead to.
LEMMA StepOrder ==
  ASSUME Shape, NEW a \in Actions
  PROVE  /\ After(a, "hold") = IF request[a].mode = "single" THEN "check" ELSE "plan"
         /\ After(a, "look") = CASE request[a].mode = "single"  -> "plan"
                                 [] request[a].mode = "restart" -> "list"
                                 [] OTHER                       -> "hold"
         /\ Whole(a) => After(a, "list") = IF request[a].mode = "restart" THEN "hold" ELSE "check"
  BY DEF After, Steps, Shape, Request, Modes, Whole

LEMMA FirstStep ==
  ASSUME NEW r \in Request
  PROVE  /\ Steps[r.mode].begin \in {"hold", "check", "precheck"}
         /\ Steps[r.mode].begin = "precheck" => r.mode \in {"service", "restart"}
         /\ Steps[r.mode].begin = "check" => r.mode # "single"
         /\ Steps[r.mode].begin = "hold" => r.mode = "single"
  BY DEF Steps, Request, Modes

\* What an action other than restartWholeService goes for is in what it holds.
LEMMA TargetsHeld ==
  ASSUME Shape, NEW a \in Actions, request[a].mode # "restart", NEW dbs \in Targets(a)
  PROVE  dbs \subseteq HoldSet(a)
<1>1. request[a].mode \in Modes
  BY DEF Shape, Request
<1>2. CASE request[a].mode = "single"
  BY <1>2 DEF Targets, HoldSet, Needed
<1>3. CASE request[a].mode = "selected"
  BY <1>3 DEF Targets, HoldSet, Needed
<1>4. CASE request[a].mode = "all"
  BY <1>4 DEF Targets, HoldSet, Needed
<1>5. CASE request[a].mode = "service"
  BY <1>5 DEF Targets, HoldSet, Needed
<1>6. QED BY <1>1, <1>2, <1>3, <1>4, <1>5 DEF Modes

\* Whatever a phase goes for is a set of databases.
LEMMA TargetsType ==
  ASSUME Shape, NEW a \in Actions, NEW dbs \in Targets(a)
  PROVE  dbs \subseteq Dbs
<1>1. /\ request[a].mode \in Modes /\ request[a].dbs \subseteq Dbs
      /\ HaNames(a) \subseteq Dbs
  BY DEF Shape, Request, HaNames
<1>2. CASE request[a].mode # "restart"
  BY <1>1, <1>2, TargetsHeld DEF HoldSet
<1>3. CASE request[a].mode = "restart"
  <2> DEFINE all == IF phase[a] = "start" THEN Autostart ELSE Listed \cup up
             plain == all \ HaNames(a)
  <2>1. all \subseteq Dbs
    BY DEF Shape
  <2>2. Targets(a) = {HaNames(a) \cup plain, HaNames(a) \cup Needed(phase[a], plain)}
                       \cup IF phase[a] = "stop" THEN {{}} ELSE {}
    BY <1>3 DEF Targets
  <2>3. Needed(phase[a], plain) \subseteq plain
    BY DEF Needed
  <2>4. QED BY <1>1, <2>1, <2>2, <2>3
<1>4. QED BY <1>2, <1>3

LEMMA HoldInit == HostInit => HoldInv
<1> SUFFICES ASSUME HostInit PROVE HoldInv
  OBVIOUS
<1>1. Shape
  <2>1. NoRequest \in Request
    BY DEF NoRequest, Request, Modes, Phases
  <2>2. QED BY <2>1 DEF HostInit, Shape, ActionPc, Phases
<1>2. \A a \in Actions : /\ apc[a] = "begin" /\ want[a] = {} /\ todo[a] = {}
                          /\ sent[a] = {} /\ good[a] = {}
  BY DEF HostInit
<1>3. QED
  BY <1>1, <1>2 DEF HoldInv, HoldsWanted, WantsHoldSet, WorksOnWanted, ListsWhole, BeginsEmpty, InHold

\* An action that ends, by whatever way, leaves the others' databases to them.
LEMMA HoldRelease ==
  ASSUME HoldInv, NEW a \in Actions, Release(a), UNCHANGED <<request, phase, up>>,
         good' \in [Actions -> SUBSET Dbs], \A b \in Actions \ {a} : good'[b] = good[b]
  PROVE  HoldInv'
<1> USE DEF HoldInv, Release, ActionGoto
<1>1. Shape'
  BY DEF Shape, ActionPc
<1>2. HoldsWanted'
  BY DEF Shape, HoldsWanted
<1>3. WantsHoldSet'
  <2>1. \A b \in Actions : HoldSet(b)' = HoldSet(b)
    BY DEF HoldSet, HaNames, Whole
  <2>2. QED BY <2>1 DEF Shape, WantsHoldSet, InHold
<1>4. WorksOnWanted' /\ ListsWhole' /\ BeginsEmpty'
  BY DEF Shape, WorksOnWanted, ListsWhole, BeginsEmpty, Whole
<1>5. QED BY <1>1, <1>2, <1>3, <1>4

\* A step that leaves the map alone and keeps what the action goes for among what
\* it holds.
LEMMA HoldUnchanged ==
  ASSUME HoldInv, Shape', NEW a \in Actions, UNCHANGED <<held, want, request>>,
         \A b \in Actions \ {a} : /\ apc'[b] = apc[b] /\ todo'[b] = todo[b]
                                  /\ sent'[b] = sent[b] /\ good'[b] = good[b],
         InHold(a)' <=> InHold(a), apc'[a] # "begin",
         apc'[a] \in {"prelook", "precheck", "list"} => Whole(a),
         request[a].mode # "restart" =>
           /\ todo'[a] \cup sent'[a] \subseteq want[a]
           /\ apc'[a] # "done" => good'[a] \subseteq want[a]
  PROVE  HoldInv'
<1> USE DEF HoldInv
<1>1. HoldsWanted'
  BY DEF HoldsWanted
<1>2. WantsHoldSet'
  <2>1. \A b \in Actions : HoldSet(b)' = HoldSet(b)
    BY DEF HoldSet, HaNames, Whole
  <2>2. \A b \in Actions : InHold(b)' <=> InHold(b)
    BY DEF InHold
  <2>3. QED BY <2>1, <2>2 DEF WantsHoldSet
<1>3. WorksOnWanted' /\ ListsWhole' /\ BeginsEmpty'
  BY DEF WorksOnWanted, ListsWhole, BeginsEmpty, Whole
<1>4. QED BY <1>1, <1>2, <1>3

LEMMA HoldBegin ==
  ASSUME HoldInv, NEW a \in Actions, Begin(a)
  PROVE  HoldInv'
<1> USE DEF HoldInv, Begin, ActionGoto, Shape
<1>1. PICK r \in Requests : /\ request' = [request EXCEPT ![a] = r]
                            /\ phase' = [phase EXCEPT ![a] = IF r.what = "start" THEN "start" ELSE "stop"]
                            /\ apc' = [apc EXCEPT ![a] = Steps[r.mode].begin]
  OBVIOUS
<1>2. /\ r \in Request
      /\ apc'[a] \in {"hold", "check", "precheck"}
      /\ apc'[a] = "precheck" => r.mode \in {"service", "restart"}
      /\ apc'[a] = "check" => r.mode # "single"
  BY <1>1, FirstStep
<1>3. Shape'
  <2>1. Steps[r.mode].begin \in ActionPc
    BY <1>2, FirstStep DEF ActionPc
  <2>2. (IF r.what = "start" THEN "start" ELSE "stop") \in Phases
    BY DEF Phases
  <2>3. QED BY <1>1, <1>2, <2>1, <2>2 DEF cmsVars
<1>4. want[a] = {} /\ todo[a] = {} /\ sent[a] = {} /\ good[a] = {}
  BY DEF WantsHoldSet, InHold, BeginsEmpty
<1>5. WantsHoldSet'
  <2>1. ~InHold(a)'
    BY <1>1, <1>2 DEF InHold
  <2>2. \A b \in Actions \ {a} : (InHold(b)' <=> InHold(b)) /\ HoldSet(b)' = HoldSet(b)
    BY <1>1 DEF InHold, HoldSet, HaNames, Whole
  <2>3. QED BY <1>4, <2>1, <2>2 DEF WantsHoldSet
<1>6. HoldsWanted' /\ WorksOnWanted' /\ ListsWhole' /\ BeginsEmpty'
  BY <1>1, <1>2, <1>4 DEF HoldsWanted, WorksOnWanted, ListsWhole, BeginsEmpty, Whole
<1>7. QED BY <1>3, <1>5, <1>6

LEMMA HoldHold ==
  ASSUME HoldInv, NEW a \in Actions, Hold(a)
  PROVE  HoldInv'
<1> USE DEF HoldInv, Shape, ActionGoto
<1>1. /\ want[a] = {} /\ apc[a] = "hold"
      /\ UNCHANGED <<request, phase, todo, sent, good, up>>
      /\ HoldSet(a) \subseteq Dbs
  BY DEF Hold, WantsHoldSet, InHold, HoldSet, HaNames, Request, cmsVars
<1>2. \A b \in Actions : HoldSet(b)' = HoldSet(b)
  BY <1>1 DEF HoldSet, HaNames, Whole
<1>3. CASE \A d \in HoldSet(a) : held[d] = NoAction
  <2>1. /\ held' = [d \in Dbs |-> IF d \in HoldSet(a) THEN a ELSE held[d]]
        /\ want' = [want EXCEPT ![a] = HoldSet(a)]
        /\ apc' = [apc EXCEPT ![a] = After(a, "hold")]
    BY <1>3 DEF Hold
  <2>2. /\ After(a, "hold") \in {"check", "plan"}
        /\ After(a, "hold") = "check" => request[a].mode = "single"
    BY StepOrder
  <2>3. Shape'
    BY <1>1, <2>1, <2>2 DEF ActionPc
  <2>4. HoldsWanted'
    BY <1>1, <1>3, <2>1 DEF HoldsWanted
  <2>5. WantsHoldSet'
    <3>1. InHold(a)' /\ \A b \in Actions \ {a} : InHold(b)' <=> InHold(b)
      BY <1>1, <2>1, <2>2 DEF InHold
    <3>2. QED BY <1>2, <2>1, <3>1 DEF WantsHoldSet
  <2>6. WorksOnWanted'
    BY <1>1, <2>1, <2>2 DEF WorksOnWanted
  <2>7. ListsWhole' /\ BeginsEmpty'
    BY <1>1, <2>1, <2>2 DEF ListsWhole, BeginsEmpty, Whole
  <2>8. QED BY <2>3, <2>4, <2>5, <2>6, <2>7
<1>4. CASE ~\A d \in HoldSet(a) : held[d] = NoAction
  <2>1. apc' = [apc EXCEPT ![a] = "done"] /\ UNCHANGED <<held, want>>
    BY <1>4 DEF Hold
  <2>2. Shape'
    BY <1>1, <2>1 DEF ActionPc
  <2>3. QED
    BY <1>1, <2>1, <2>2, HoldUnchanged DEF WorksOnWanted, InHold
<1>5. QED BY <1>3, <1>4

LEMMA HoldList ==
  ASSUME HoldInv, NEW a \in Actions, ListDatabases(a)
  PROVE  HoldInv'
<1> USE DEF HoldInv, Shape, ActionGoto
<1>1. /\ want[a] = {} /\ apc[a] = "list" /\ Whole(a)
      /\ UNCHANGED <<held, want, phase, todo, sent, good, up>>
      /\ apc' = [apc EXCEPT ![a] = After(a, "list")]
  BY DEF ListDatabases, WantsHoldSet, InHold, ListsWhole, cmsVars
<1>2. PICK dbs \in SUBSET Dbs : request' = [request EXCEPT ![a].dbs = dbs]
  BY DEF ListDatabases
<1>3. /\ request' \in [Actions -> Request]
      /\ request'[a].mode = request[a].mode
      /\ \A b \in Actions \ {a} : request'[b] = request[b]
  BY <1>2 DEF Request
<1>4. /\ After(a, "list") \in {"check", "hold"}
      /\ After(a, "list") = "check" => request[a].mode # "single"
  BY <1>1, StepOrder DEF Whole
<1>5. Shape'
  BY <1>1, <1>3, <1>4 DEF ActionPc
<1>6. WantsHoldSet'
  <2>1. ~InHold(a)'
    BY <1>1, <1>3, <1>4 DEF InHold
  <2>2. \A b \in Actions \ {a} : (InHold(b)' <=> InHold(b)) /\ HoldSet(b)' = HoldSet(b)
    BY <1>1, <1>3 DEF InHold, HoldSet, HaNames, Whole
  <2>3. QED BY <1>1, <2>1, <2>2 DEF WantsHoldSet
<1>7. HoldsWanted' /\ WorksOnWanted' /\ ListsWhole' /\ BeginsEmpty'
  BY <1>1, <1>3, <1>4 DEF HoldsWanted, WorksOnWanted, ListsWhole, BeginsEmpty, Whole
<1>8. QED BY <1>5, <1>6, <1>7

\* The look for active jobs, and what throws.
LEMMA HoldCheck ==
  ASSUME HoldInv, NEW a \in Actions, ReadOperations(a) \/ LookForJobs(a) \/ Throws(a)
  PROVE  HoldInv'
<1> USE DEF HoldInv, Shape
<1>1. UNCHANGED <<request, phase, good, up>>
  BY DEF ReadOperations, LookForJobs, Throws, cmsVars
<1>2. CASE Release(a)
  BY <1>1, <1>2, HoldRelease
<1>3. CASE ~Release(a)
  <2>1. UNCHANGED <<held, want, todo, sent>>
    BY <1>3 DEF ReadOperations, LookForJobs, Throws
  <2>2. \E label : /\ apc' = [apc EXCEPT ![a] = label]
                   /\ \/ apc[a] = "check" /\ label = "look"
                      \/ apc[a] = "precheck" /\ label = "prelook"
                      \/ apc[a] = "look" /\ label = After(a, "look")
                      \/ apc[a] = "prelook" /\ label = "list"
    BY <1>3 DEF ReadOperations, LookForJobs, Throws, ActionGoto
  <2>3. /\ After(a, "look") \in {"plan", "list", "hold"}
        /\ After(a, "look") = "plan" <=> request[a].mode = "single"
        /\ After(a, "look") = "list" => request[a].mode = "restart"
    BY StepOrder DEF Request, Modes
  <2>4. Shape'
    BY <1>1, <2>1, <2>2, <2>3 DEF ActionPc
  <2>5. InHold(a)' <=> InHold(a)
    BY <1>1, <2>2, <2>3 DEF InHold
  <2>6. /\ apc'[a] \notin {"begin", "done"}
        /\ apc'[a] \in {"prelook", "precheck", "list"} => Whole(a)
    BY <2>2, <2>3 DEF ListsWhole, Whole
  <2>7. request[a].mode # "restart" =>
          todo'[a] \cup sent'[a] \subseteq want[a] /\ good'[a] \subseteq want[a]
    BY <1>1, <2>1, <2>2 DEF WorksOnWanted
  <2>8. QED
    BY <1>1, <2>1, <2>2, <2>4, <2>5, <2>6, <2>7, HoldUnchanged
<1>4. QED BY <1>2, <1>3

\* From the plan to the last answer.
LEMMA HoldWork ==
  ASSUME HoldInv, NEW a \in Actions,
         Plan(a) \/ RereadHa(a) \/ Send(a) \/ NotSent(a) \/ Answered(a) \/ Lost(a)
  PROVE  HoldInv'
<1> USE DEF HoldInv, Shape, ActionGoto
<1>1. UNCHANGED <<held, want, request, phase, up>>
  BY DEF Plan, RereadHa, Send, NotSent, Answered, Lost, cmsVars
<1>2. CASE Plan(a)
  <2>1. PICK dbs \in Targets(a) :
          /\ todo' = [todo EXCEPT ![a] = dbs]
          /\ good' = [good EXCEPT ![a] = IF request[a].mode = "single" THEN request[a].dbs \ dbs ELSE {}]
    BY <1>2 DEF Plan
  <2>2. dbs \subseteq Dbs /\ (request[a].mode # "restart" => dbs \subseteq want[a])
    BY <1>2, TargetsType, TargetsHeld DEF Plan, WantsHoldSet, InHold
  <2>3. request[a].mode = "single" => request[a].dbs \subseteq want[a] /\ request[a].dbs \subseteq Dbs
    BY <1>2 DEF Plan, WantsHoldSet, InHold, HoldSet, Request
  <2>4. /\ apc[a] = "plan" /\ UNCHANGED sent
        /\ \E label \in {"reread", "act"} : apc' = [apc EXCEPT ![a] = label]
    BY <1>2 DEF Plan
  <2>5. Shape'
    BY <1>1, <2>1, <2>2, <2>3, <2>4 DEF ActionPc
  <2>6. InHold(a)' /\ InHold(a)
    BY <2>4 DEF InHold
  <2>7. request[a].mode # "restart" =>
          todo'[a] \cup sent'[a] \subseteq want[a] /\ good'[a] \subseteq want[a]
    BY <2>1, <2>2, <2>3, <2>4 DEF WorksOnWanted
  <2>8. QED BY <1>1, <2>1, <2>4, <2>5, <2>6, <2>7, HoldUnchanged
<1>3. CASE RereadHa(a)
  <2>1. PICK keep \in {{}, Needed(phase[a], todo[a] \cap HaDbs)} :
          todo' = [todo EXCEPT ![a] = (todo[a] \ (todo[a] \cap HaDbs)) \cup keep]
    BY <1>3 DEF RereadHa
  <2>2. keep \subseteq todo[a]
    BY DEF Needed
  <2>3. apc[a] = "reread" /\ apc' = [apc EXCEPT ![a] = "act"] /\ UNCHANGED <<sent, good>>
    BY <1>3 DEF RereadHa
  <2>4. Shape'
    BY <1>1, <2>1, <2>2, <2>3 DEF ActionPc
  <2>5. InHold(a)' /\ InHold(a)
    BY <2>3 DEF InHold
  <2>6. request[a].mode # "restart" =>
          todo'[a] \cup sent'[a] \subseteq want[a] /\ good'[a] \subseteq want[a]
    BY <2>1, <2>2, <2>3 DEF WorksOnWanted
  <2>7. QED BY <1>1, <2>1, <2>3, <2>4, <2>5, <2>6, HoldUnchanged
<1>4. CASE Send(a) \/ NotSent(a)
  <2>1. PICK dbs \in SUBSET todo[a] :
          /\ todo' = [todo EXCEPT ![a] = @ \ dbs]
          /\ sent' = sent \/ sent' = [sent EXCEPT ![a] = @ \cup dbs]
    BY <1>4 DEF Send, NotSent
  <2>2. apc[a] = "act" /\ UNCHANGED <<apc, good>>
    BY <1>4 DEF Send, NotSent
  <2>3. Shape'
    BY <1>1, <2>1, <2>2
  <2>4. request[a].mode # "restart" =>
          todo'[a] \cup sent'[a] \subseteq want[a] /\ good'[a] \subseteq want[a]
    BY <2>1, <2>2 DEF WorksOnWanted
  <2>5. InHold(a)' <=> InHold(a)
    BY <1>1, <2>2 DEF InHold
  <2>6. QED BY <1>1, <2>1, <2>2, <2>3, <2>4, <2>5, HoldUnchanged
<1>5. CASE Answered(a) \/ Lost(a)
  <2>1. PICK dbs \in SUBSET sent[a] :
          /\ sent' = [sent EXCEPT ![a] = @ \ dbs]
          /\ good' = good \/ good' = [good EXCEPT ![a] = @ \cup dbs]
    BY <1>5 DEF Answered, Lost, Awaited
  <2>2. /\ apc[a] = "act" /\ UNCHANGED todo
        /\ \E label \in {"act", "confirm"} : apc' = [apc EXCEPT ![a] = label]
    BY <1>5 DEF Answered, Lost
  <2>3. Shape'
    BY <1>1, <2>1, <2>2 DEF ActionPc
  <2>4. request[a].mode # "restart" =>
          todo'[a] \cup sent'[a] \subseteq want[a] /\ good'[a] \subseteq want[a]
    BY <2>1, <2>2 DEF WorksOnWanted
  <2>5. InHold(a)' <=> InHold(a)
    BY <1>1, <2>2 DEF InHold
  <2>6. QED BY <1>1, <2>1, <2>2, <2>3, <2>4, <2>5, HoldUnchanged
<1>6. QED BY <1>2, <1>3, <1>4, <1>5

LEMMA HoldEnd ==
  ASSUME HoldInv, NEW a \in Actions, Confirm(a) \/ PhaseOver(a)
  PROVE  HoldInv'
<1> USE DEF HoldInv, Shape
<1>1. UNCHANGED <<request, up>>
  BY DEF Confirm, PhaseOver, cmsVars
<1>2. CASE Confirm(a)
  <2>1. good' = good \/ good' = [good EXCEPT ![a] = request[a].dbs]
    BY <1>2 DEF Confirm
  <2>2. request[a].dbs \subseteq Dbs
    BY DEF Request
  <2>3. Release(a) /\ UNCHANGED phase
    BY <1>2 DEF Confirm
  <2>4. QED BY <1>1, <2>1, <2>2, <2>3, HoldRelease
<1>3. CASE PhaseOver(a) /\ Release(a) /\ UNCHANGED <<phase, good>>
  BY <1>1, <1>3, HoldRelease
<1>4. CASE PhaseOver(a) /\ ~(Release(a) /\ UNCHANGED <<phase, good>>)
  <2>1. /\ apc[a] = "act" /\ sent[a] = {}
        /\ phase' = [phase EXCEPT ![a] = "start"]
        /\ \E dbs \in SUBSET good[a] : todo' = [todo EXCEPT ![a] = dbs]
        /\ good' = [good EXCEPT ![a] = {}]
        /\ \E label \in {"plan", "reread", "act"} : apc' = [apc EXCEPT ![a] = label]
        /\ UNCHANGED <<held, want, sent>>
    BY <1>4 DEF PhaseOver, ActionGoto
  <2>2. Shape'
    BY <1>1, <2>1 DEF ActionPc, Phases
  <2>3. request[a].mode # "restart" =>
          todo'[a] \cup sent'[a] \subseteq want[a] /\ good'[a] \subseteq want[a]
    BY <2>1 DEF WorksOnWanted
  <2>4. InHold(a)' <=> InHold(a)
    BY <1>1, <2>1 DEF InHold
  <2>5. QED BY <1>1, <2>1, <2>2, <2>3, <2>4, HoldUnchanged
<1>5. QED BY <1>2, <1>3, <1>4

\* CMS's tasks are of the host's actions and databases, so what runs is on the host.
TasksOnHost ==
  tasks \subseteq [by : Actions, dbs : SUBSET Dbs, do : Phases, st : {"running", "ok", "failed"}]

LEMMA TasksStep ==
  ASSUME Shape, TasksOnHost, [HostNext]_hvars
  PROVE  TasksOnHost' /\ up' \subseteq Dbs
<1> USE DEF Shape, TasksOnHost
<1>1. CASE UNCHANGED cmsVars
  BY <1>1 DEF cmsVars
<1>2. ASSUME NEW a \in Actions, Send(a)
      PROVE  TasksOnHost' /\ UNCHANGED up
  <2>1. PICK dbs \in SUBSET todo[a] :
          tasks' = tasks \cup {[by |-> a, dbs |-> dbs, do |-> phase[a], st |-> "running"]}
    BY <1>2 DEF Send
  <2>2. dbs \subseteq Dbs /\ phase[a] \in Phases
    OBVIOUS
  <2>3. QED BY <1>2, <2>1, <2>2 DEF Send
<1>3. ASSUME NEW a \in Actions, Answered(a) \/ Lost(a)
      PROVE  TasksOnHost' /\ UNCHANGED up
  BY <1>3 DEF Answered, Lost
<1>4. CASE HostCrash
  BY <1>4 DEF HostCrash
<1>5. CASE CommandEnds
  <2>1. PICK t \in tasks, st \in {"ok", "failed"} :
          /\ tasks' = (tasks \ {t}) \cup IF Awaited(t) THEN {[t EXCEPT !.st = st]} ELSE {}
          /\ up' = CASE t.do = "start" /\ st = "ok" -> up \cup t.dbs
                     [] t.do = "stop" /\ st = "ok"  -> up \ t.dbs
                     [] t.do = "start" /\ st = "failed" /\ t.dbs \subseteq HaDbs -> up \ t.dbs
                     [] OTHER -> up
    BY <1>5 DEF CommandEnds
  <2>2. t.dbs \subseteq Dbs
    OBVIOUS
  <2>3. TasksOnHost'
    BY <2>1
  <2>4. up' \in {up, up \cup t.dbs, up \ t.dbs}
    BY <2>1
  <2>5. QED BY <2>2, <2>3, <2>4
<1>6. QED
  <2>1. CASE \E a \in Actions : Begin(a) \/ Hold(a) \/ ReadOperations(a) \/ LookForJobs(a)
                 \/ ListDatabases(a) \/ Throws(a) \/ Plan(a) \/ RereadHa(a) \/ NotSent(a)
                 \/ Confirm(a) \/ PhaseOver(a)
    BY <1>1, <2>1 DEF Begin, Hold, ReadOperations, LookForJobs, ListDatabases, Throws, Plan,
                      RereadHa, NotSent, Confirm, PhaseOver
  <2>2. CASE JobsMove \/ UNCHANGED hvars
    BY <1>1, <2>2 DEF JobsMove, hvars, hostVars
  <2>3. QED BY <1>2, <1>3, <1>4, <1>5, <2>1, <2>2 DEF HostNext, ActionStep, LocalStep, CmsStep

\* CMS, the jobs and a step of nobody do not touch the map or the actions.
LEMMA HoldElsewhere ==
  ASSUME HoldInv, up' \subseteq Dbs, CommandEnds \/ JobsMove \/ UNCHANGED hvars
  PROVE  HoldInv'
<1>1. UNCHANGED actionVars
  BY DEF CommandEnds, JobsMove, hvars, hostVars
<1>2. QED
  BY <1>1 DEF HoldInv, Shape, HoldsWanted, WantsHoldSet, WorksOnWanted, ListsWhole, BeginsEmpty,
              actionVars, InHold, HoldSet, HaNames, Whole

\* A crash lets every database go, and no action works on.
LEMMA HoldCrash ==
  ASSUME HoldInv, HostCrash
  PROVE  HoldInv'
<1> USE DEF HoldInv
<1>1. /\ held' = [d \in Dbs |-> NoAction]
      /\ apc' = [a \in Actions |-> IF apc[a] = "begin" THEN "begin" ELSE "done"]
      /\ want' = [a \in Actions |-> {}]
      /\ todo' = [a \in Actions |-> {}]
      /\ sent' = [a \in Actions |-> {}]
      /\ good' = [a \in Actions |-> {}]
      /\ UNCHANGED <<request, phase, up>>
  BY DEF HostCrash
<1>2. Shape'
  BY <1>1 DEF Shape, ActionPc
<1>3. \A a \in Actions : apc'[a] \in {"begin", "done"}
  BY <1>1
<1>4. HoldsWanted' /\ WorksOnWanted' /\ BeginsEmpty'
  BY <1>1 DEF HoldsWanted, WorksOnWanted, BeginsEmpty
<1>5. WantsHoldSet' /\ ListsWhole'
  BY <1>1, <1>3 DEF WantsHoldSet, ListsWhole, InHold
<1>6. QED BY <1>2, <1>4, <1>5

LEMMA HoldStep ==
  ASSUME HoldInv, TasksOnHost, [HostNext]_hvars
  PROVE  HoldInv' /\ TasksOnHost'
<1>1. TasksOnHost' /\ up' \subseteq Dbs
  BY TasksStep DEF HoldInv
<1>2. CASE \E a \in Actions : Begin(a) \/ ActionStep(a)
  BY <1>1, <1>2, HoldBegin, HoldHold, HoldList, HoldCheck, HoldWork, HoldEnd DEF ActionStep, LocalStep, CmsStep
<1>3. CASE CommandEnds \/ JobsMove \/ UNCHANGED hvars
  BY <1>1, <1>3, HoldElsewhere
<1>4. CASE HostCrash
  BY <1>1, <1>4, HoldCrash
<1>5. QED BY <1>2, <1>3, <1>4 DEF HostNext

\* withDatabaseActionLock keeps two lifecycle actions apart on every database but those
\* restartWholeService goes for and does not hold.
THEOREM ActionsExclude == HostSpec => []OneActionPerDatabase
<1>1. HostInit => HoldInv /\ TasksOnHost
  BY HoldInit DEF HostInit, TasksOnHost
<1>2. HoldInv /\ TasksOnHost /\ [HostNext]_hvars => (HoldInv /\ TasksOnHost)'
  BY HoldStep
<1>3. HoldInv => OneActionPerDatabase
  BY ExcludeFollows
<1>4. QED BY <1>1, <1>2, <1>3, PTL DEF HostSpec

\* Every value of the host's actions and of CMS has its type: what an action read of
\* the operations, the jobs it missed, and the tasks that outlived their waiting.
LEMMA TypeStep ==
  ASSUME Shape, TasksOnHost, TypeInv, HostTypeOK, [HostNext]_hvars
  PROVE  /\ entries' \in [Actions -> Ops] /\ missed' \in [Actions -> SUBSET Jobs]
         /\ stray' \subseteq Dbs \X Phases
<1> USE DEF Shape, TasksOnHost, HostTypeOK
<1>1. EmptyOps \in Ops /\ ops \in Ops
  BY DEF TypeInv, TypeOK, EmptyOps, Ops
<1>2. JobsPastBusyCheck \in SUBSET Jobs /\ \A a \in Actions : JobsNotOnRecord(a) \in SUBSET Jobs
  BY DEF JobsPastBusyCheck, JobsNotOnRecord
<1>3. ASSUME NEW a \in Actions, Begin(a) \/ ActionStep(a)
      PROVE  entries' \in [Actions -> Ops] /\ missed' \in [Actions -> SUBSET Jobs]
  BY <1>1, <1>2, <1>3
     DEF ActionStep, LocalStep, CmsStep, Begin, Hold, ReadOperations, LookForJobs, ListDatabases,
         Throws, Plan, RereadHa, Send, NotSent, Answered, Lost, Confirm, PhaseOver
<1>4. ASSUME NEW a \in Actions, Begin(a) \/ ActionStep(a)
      PROVE  stray' \subseteq Dbs \X Phases
  <2>1. CASE Send(a)
    BY <2>1 DEF Send
  <2>2. CASE Answered(a) \/ Lost(a)
    BY <2>2 DEF Answered, Lost
  <2>3. CASE UNCHANGED stray
    BY <2>3
  <2> QED
    BY <1>4, <2>1, <2>2, <2>3
       DEF ActionStep, LocalStep, CmsStep, Begin, Hold, ReadOperations, LookForJobs, ListDatabases,
           Throws, Plan, RereadHa, NotSent, Confirm, PhaseOver
<1>5. CASE CommandEnds \/ JobsMove \/ UNCHANGED hvars
  BY <1>5 DEF CommandEnds, JobsMove, hvars, hostVars, actionVars, cmsVars
<1>6. CASE HostCrash
  <2>1. entries' \in [Actions -> Ops] /\ missed' \in [Actions -> SUBSET Jobs]
    BY <1>1, <1>6 DEF HostCrash
  <2>2. TasksOnHost'
    BY TasksStep
  <2> QED
    BY <1>6, <2>1, <2>2 DEF HostCrash
<1> QED
  BY <1>3, <1>4, <1>5, <1>6 DEF HostNext

\* database/lifecycle and its lock: the calls' variables, CMS's tasks and the map keep
\* their shape.
THEOREM HostTypeCorrect == HostSpec => []HostTypeOK
<1>1. HostInit => HostTypeOK /\ HoldInv /\ TasksOnHost
  <2> SUFFICES ASSUME HostInit PROVE HostTypeOK /\ HoldInv /\ TasksOnHost
    OBVIOUS
  <2>1. HoldInv /\ TasksOnHost /\ EmptyOps \in Ops
    BY HoldInit DEF HostInit, TasksOnHost, EmptyOps, Ops
  <2> QED
    BY <2>1 DEF HostInit, HoldInv, Shape, HostTypeOK, TasksOnHost
<1>2. HostTypeOK /\ HoldInv /\ TasksOnHost /\ TypeInv /\ [HostNext]_hvars =>
        (HostTypeOK /\ HoldInv /\ TasksOnHost)'
  <2> SUFFICES ASSUME HostTypeOK, HoldInv, TasksOnHost, TypeInv, [HostNext]_hvars
               PROVE  (HostTypeOK /\ HoldInv /\ TasksOnHost)'
    OBVIOUS
  <2>1. HoldInv' /\ TasksOnHost'
    BY HoldStep
  <2>2. /\ entries' \in [Actions -> Ops] /\ missed' \in [Actions -> SUBSET Jobs]
        /\ stray' \subseteq Dbs \X Phases
    BY TypeStep DEF HoldInv
  <2> QED
    BY <2>1, <2>2 DEF HoldInv, Shape, TasksOnHost, HostTypeOK
<1> QED
  BY <1>1, <1>2, JobsAsAlone, TypeInvariant, PTL DEF HostSpec

-----------------------------------------------------------------------------
(* The jobs beside an action *)


\* Past createJob's busy check and not yet done.
PastCheck == {"waitLock"} \cup Creating \cup Working

\* A job on record: the file says what it does.
OnRecord == Working \ {"entered"}

\* The jobs an action could not see although they are at work: those not on record
\* when it looked, and those whose entry was gone.
Unseen(a) == missed[a] \cup overtaken \cup dropped

\* An action that looks first and has begun to, up to its hold.
Looked(a) == request[a].mode # "single" /\ apc[a] \in {"prelook", "look", "list", "hold"}

\* An action that holds its databases and has begun to look.
LookedHolding(a) ==
  \/ apc[a] \in {"plan", "reread", "act", "confirm"}
  \/ apc[a] = "look" /\ request[a].mode = "single"

\* The map names an action only for what it wants.
HeldIsWanted == \A a \in Actions, d \in Dbs : held[d] = a => d \in want[a]

\* An action between its two looks, at the operations and at the job files, has the job's entry.
AboutToSee(a, j) ==
  apc[a] \in {"prelook", "look"} /\ entries[a][DbOf[j]] = j /\ pc[j] \in OnRecord

\* Who has looked while it held a database has seen its jobs, or is about to; and an
\* action that looks first has seen, before it holds, the jobs of every database.
BesideInv ==
  /\ missed \in [Actions -> SUBSET Jobs] /\ entries \in [Actions -> Ops]
  /\ \A a \in Actions, j \in Jobs :
       LookedHolding(a) /\ held[DbOf[j]] = a /\ pc[j] \in PastCheck => j \in Unseen(a) \/ AboutToSee(a, j)
  /\ \A a \in Actions, j \in Jobs :
       Looked(a) /\ pc[j] \in PastCheck \cup {"new"} => j \in Unseen(a) \/ AboutToSee(a, j)

\* A job gets past the busy check from "new" only, to "waitLock"; a job whose record
\* is saved is not created again; and what has lost its entry stays on record.
LEMMA JobOrder ==
  ASSUME TypeInv, Next
  PROVE  /\ \A k \in Jobs : /\ pc'[k] \in PastCheck => pc[k] \in PastCheck \cup {"new"}
                            /\ pc'[k] = "new" => pc[k] = "new"
                            /\ pc[k] = "new" => pc'[k] \in {"new", "waitLock", "ended"}
                            /\ pc[k] \in OnRecord /\ pc'[k] \in PastCheck => pc'[k] \in OnRecord
         /\ overtaken \subseteq overtaken' /\ dropped \subseteq dropped'
<1> DEFINE Goal(k) == /\ pc'[k] \in PastCheck => pc[k] \in PastCheck \cup {"new"}
                      /\ pc'[k] = "new" => pc[k] = "new"
                      /\ pc[k] = "new" => pc'[k] \in {"new", "waitLock", "ended"}
                      /\ pc[k] \in OnRecord /\ pc'[k] \in PastCheck => pc'[k] \in OnRecord
           Monotone == overtaken \subseteq overtaken' /\ dropped \subseteq dropped'
<1> USE DEF TypeInv, TypeOK, Pc, PastCheck, OnRecord, Creating, Releasing, Working, Goto,
            jobVars, sweepVars, history, bounds
<1>1. ASSUME NEW j \in Jobs, JobStep(j)
      PROVE  Monotone /\ \A k \in Jobs : Goal(k)
  <2>1. CASE RequestJob(j)    BY <2>1 DEF RequestJob
  <2>2. CASE AcquireLock(j)   BY <2>2 DEF AcquireLock
  <2>3. CASE ReadEntries(j)   BY <2>3 DEF ReadEntries
  <2>4. CASE CheckEntry(j)    BY <2>4 DEF CheckEntry
  <2>5. CASE BeginWrite(j)    BY <2>5 DEF BeginWrite
  <2>6. CASE WriteEntry(j)    BY <2>6 DEF WriteEntry
  <2>7. CASE SaveQueued(j)    BY <2>7 DEF SaveQueued
  <2>8. CASE LoadJob(j)       BY <2>8 DEF LoadJob
  <2>9. CASE StartJob(j)      BY <2>9 DEF StartJob
  <2>10. CASE Submit(j)       BY <2>10 DEF Submit
  <2>11. CASE SaveUuid(j)     BY <2>11 DEF SaveUuid
  <2>12. CASE PollOutcome(j)  BY <2>12 DEF PollOutcome
  <2>13. CASE CmsError(j)     BY <2>13 DEF CmsError
  <2>14. CASE SaveOutcome(j)  BY <2>14 DEF SaveOutcome
  <2>15. CASE ReadOwnEntry(j) BY <2>15 DEF ReadOwnEntry
  <2>16. CASE ClearEntry(j)   BY <2>16 DEF ClearEntry
  <2>17. CASE SaveThrows(j)   BY <2>17 DEF SaveThrows
  <2> QED
    BY <1>1, <2>1, <2>2, <2>3, <2>4, <2>5, <2>6, <2>7, <2>8, <2>9, <2>10, <2>11, <2>12,
       <2>13, <2>14, <2>15, <2>16, <2>17
    DEF JobStep, CreateStep, WorkerStep
<1>2. CASE (\E b \in Sweepers : RemovalStep(b)) \/ RecoveryStep \/ OrphanSaveThrows \/ PurgeStep
             \/ \E j \in Jobs : TaskEnds(j) \/ Age(j)
  <2>1. UNCHANGED pc /\ Monotone
    BY <1>2 DEF RemovalStep, ReadForRemoval, BeginRemoval, EndRemoval, EndOfList, RecoveryStep,
                ListOrphans, NextOrphan, OrphanOutcome, OrphanError, SaveOrphan, OrphanSaveThrows,
                PurgeStep, StartPurge, ExamineFile, UnlinkFile, TaskEnds, Age
  <2> QED BY <2>1
<1>3. CASE Crash
  BY <1>3 DEF Crash
<1> QED
  BY <1>1, <1>2, <1>3 DEF Next

LEMMA BesideInit == HostInit => BesideInv
<1> SUFFICES ASSUME HostInit PROVE BesideInv
  OBVIOUS
<1>1. \A a \in Actions : ~LookedHolding(a) /\ ~Looked(a)
  BY DEF HostInit, LookedHolding, Looked
<1>2. missed \in [Actions -> SUBSET Jobs] /\ entries \in [Actions -> Ops]
  BY OpsFacts DEF HostInit
<1> QED
  BY <1>1, <1>2 DEF BesideInv

LEMMA HeldWanted ==
  ASSUME HoldInv, HeldIsWanted, [HostNext]_hvars
  PROVE  HeldIsWanted'
<1> USE DEF HoldInv, Shape
<1>1. ASSUME NEW a \in Actions, Release(a) PROVE HeldIsWanted'
  BY <1>1, NoActionAssumption DEF Release, HeldIsWanted
<1>2. CASE UNCHANGED <<held, want>>
  BY <1>2 DEF HeldIsWanted
<1>3. ASSUME NEW a \in Actions, Hold(a) PROVE HeldIsWanted'
  <2>1. CASE UNCHANGED <<held, want>>
    BY <2>1, <1>2
  <2>2. CASE /\ held' = [d \in Dbs |-> IF d \in HoldSet(a) THEN a ELSE held[d]]
             /\ want' = [want EXCEPT ![a] = HoldSet(a)]
    <3>1. want[a] = {}
      BY <1>3 DEF Hold, WantsHoldSet, InHold
    <3> QED
      BY <2>2, <3>1 DEF HeldIsWanted
  <2> QED
    BY <1>3, <2>1, <2>2 DEF Hold
<1>4. ASSUME NEW a \in Actions, Begin(a) \/ ActionStep(a) PROVE HeldIsWanted'
  <2>1. \/ UNCHANGED <<held, want>> \/ Release(a) \/ Hold(a)
    BY <1>4 DEF ActionStep, LocalStep, CmsStep, Begin, ReadOperations, LookForJobs, ListDatabases, Throws,
                Plan, RereadHa, Send, NotSent, Answered, Lost, Confirm, PhaseOver
  <2> QED
    BY <2>1, <1>1, <1>2, <1>3
<1>5. CASE CommandEnds \/ JobsMove \/ UNCHANGED hvars
  BY <1>2, <1>5 DEF CommandEnds, JobsMove, hvars, hostVars, actionVars
<1>6. CASE HostCrash
  BY <1>6, NoActionAssumption DEF HostCrash, HeldIsWanted
<1> QED
  BY <1>4, <1>5, <1>6 DEF HostNext

\* Steps of an action other than its hold and its looks: it comes to hold nothing more
\* and forgets no job.
LEMMA BesideQuiet ==
  ASSUME BesideInv, UNCHANGED <<vars, missed, entries>>,
         \A a \in Actions : /\ LookedHolding(a)' => LookedHolding(a)
                            /\ Looked(a)' => Looked(a)
                            /\ apc[a] \in {"prelook", "look"} /\ (LookedHolding(a)' \/ Looked(a)')
                                 => apc'[a] = apc[a],
         \A a \in Actions, d \in Dbs : held'[d] = a => held[d] = a
  PROVE  BesideInv'
BY DEF BesideInv, Unseen, AboutToSee, vars, jobVars, history

\* The jobs of the host: one that gets past the busy check finds its database free.
LEMMA BesideJobs ==
  ASSUME BesideInv, TypeInv, JobsMove
  PROVE  BesideInv'
<1>1. UNCHANGED <<held, apc, request, missed, entries>>
  BY DEF JobsMove, hostVars, actionVars
<1>2. \A a \in Actions : (LookedHolding(a)' <=> LookedHolding(a)) /\ (Looked(a)' <=> Looked(a))
  BY <1>1 DEF LookedHolding, Looked
<1>3. ASSUME NEW a \in Actions, NEW j \in Jobs, pc[j] \in PastCheck \cup {"new"},
             pc'[j] \in PastCheck \cup {"new"}, j \in Unseen(a) \/ AboutToSee(a, j)
      PROVE  j \in Unseen(a)' \/ AboutToSee(a, j)'
  <2>1. /\ pc[j] \in OnRecord => pc'[j] \in OnRecord
        /\ overtaken \subseteq overtaken' /\ dropped \subseteq dropped'
    <3>1. Next
      BY DEF JobsMove
    <3>2. pc[j] \in OnRecord => pc'[j] # "new"
      BY <3>1, JobOrder DEF OnRecord, Working
    <3> QED
      BY <1>3, <3>1, <3>2, JobOrder
  <2> QED
    BY <1>1, <1>3, <2>1 DEF Unseen, AboutToSee
<1>4. ASSUME NEW a \in Actions, NEW j \in Jobs, LookedHolding(a), held[DbOf[j]] = a, pc'[j] \in PastCheck
      PROVE  j \in Unseen(a)' \/ AboutToSee(a, j)'
  <2>1. pc[j] # "new"
    <3>1. SUFFICES ASSUME pc[j] = "new" PROVE FALSE
      OBVIOUS
    <3>2. pc'[j] # "new"
      BY <1>4 DEF PastCheck, Creating, Working
    <3>3. pc'[j] = IF held[DbOf[j]] = NoAction THEN "waitLock" ELSE "ended"
      BY <3>1, <3>2 DEF JobsMove, BusyChecked
    <3> QED
      BY <1>4, <3>3 DEF PastCheck, Creating, Working
  <2>2. pc[j] \in PastCheck
    BY <1>4, <2>1, JobOrder DEF JobsMove
  <2> QED
    BY <1>3, <1>4, <2>2 DEF BesideInv
<1>5. ASSUME NEW a \in Actions, NEW j \in Jobs, Looked(a), pc'[j] \in PastCheck \cup {"new"}
      PROVE  j \in Unseen(a)' \/ AboutToSee(a, j)'
  <2>1. pc[j] \in PastCheck \cup {"new"}
    BY <1>5, JobOrder DEF JobsMove
  <2> QED
    BY <1>3, <1>5, <2>1 DEF BesideInv
<1> QED
  BY <1>1, <1>2, <1>4, <1>5 DEF BesideInv

\* The looks of an action.  The one that has a job's entry finds the job's file active.
LEMMA BesideLook ==
  ASSUME BesideInv, HoldInv, HeldIsWanted, TypeInv, WorkingJobKeepsEntry, WorkingJobVisible,
         NEW a \in Actions, ReadOperations(a) \/ LookForJobs(a)
  PROVE  BesideInv'
<1> USE DEF HoldInv, Shape
<1>1. UNCHANGED <<request, pc, overtaken, dropped>>
  BY DEF ReadOperations, LookForJobs, vars, jobVars, history
<1>2. /\ \A b \in Actions \ {a} : /\ apc'[b] = apc[b] /\ missed'[b] = missed[b]
                                  /\ entries'[b] = entries[b]
      /\ \A b \in Actions, d \in Dbs : held'[d] = b => held[d] = b
      /\ missed' \in [Actions -> SUBSET Jobs] /\ entries' \in [Actions -> Ops]
  <2>1. ops \in Ops /\ EmptyOps \in Ops
    BY OpsFacts DEF TypeInv, TypeOK
  <2>2. JobsNotOnRecord(a) \in SUBSET Jobs
    BY DEF JobsNotOnRecord
  <2> QED
    BY <2>1, <2>2 DEF ReadOperations, LookForJobs, Release, ActionGoto, BesideInv
<1>3. \A b \in Actions \ {a} : (LookedHolding(b)' <=> LookedHolding(b)) /\ (Looked(b)' <=> Looked(b))
  BY <1>1, <1>2 DEF LookedHolding, Looked
<1>4. ASSUME NEW j \in Jobs,
             \/ LookedHolding(a)' /\ held'[DbOf[j]] = a /\ pc[j] \in PastCheck
             \/ Looked(a)' /\ pc[j] \in PastCheck \cup {"new"}
      PROVE  j \in Unseen(a)' \/ AboutToSee(a, j)'
  <2>0. DbOf[j] \in Dbs /\ apc'[a] # "done"
    BY <1>4 DEF LookedHolding, Looked
  <2>1. CASE ReadOperations(a)
    <3>1. /\ missed'[a] = JobsNotOnRecord(a) /\ entries'[a] = ops /\ apc'[a] \in {"prelook", "look"}
          /\ UNCHANGED held
      BY <2>0, <2>1 DEF ReadOperations, Release, ActionGoto, BesideInv
    <3>2. pc[j] = "new" => held[DbOf[j]] # a
      <4>1. SUFFICES ASSUME pc[j] = "new", held[DbOf[j]] = a PROVE FALSE
        OBVIOUS
      <4>2. Looked(a)'
        BY <1>4, <4>1 DEF PastCheck, Creating, Working
      <4>3. ~InHold(a)
        BY <1>1, <2>1, <4>2 DEF Looked, InHold, ReadOperations
      <4> QED
        BY <2>0, <4>1, <4>3 DEF HeldIsWanted, WantsHoldSet
    <3>3. j \in JobsNotOnRecord(a) \/ pc[j] \in OnRecord
      BY <1>4, <3>2 DEF JobsNotOnRecord, PastCheck, OnRecord
    <3>4. pc[j] \in OnRecord => ops[DbOf[j]] = j \/ j \in overtaken \cup dropped
      BY DEF WorkingJobKeepsEntry, OnRecord
    <3> QED
      BY <1>1, <3>1, <3>3, <3>4 DEF Unseen, AboutToSee
  <2>2. CASE LookForJobs(a)
    <3>1. /\ apc[a] \in {"prelook", "look"} /\ UNCHANGED <<missed, held>>
          /\ ~\E d \in Dbs : entries[a][d] # NoJob /\ file[entries[a][d]].status \in Active
          /\ apc'[a] = IF apc[a] = "look" THEN After(a, "look") ELSE "list"
      BY <2>0, <2>2 DEF LookForJobs, Release, ActionGoto
    <3>2. \/ LookedHolding(a) /\ held[DbOf[j]] = a /\ pc[j] \in PastCheck
          \/ Looked(a) /\ pc[j] \in PastCheck \cup {"new"}
      BY <1>1, <1>4, <3>1, StepOrder DEF LookedHolding, Looked, Request, Modes, ListsWhole, Whole
    <3>3. ~AboutToSee(a, j)
      BY <2>0, <3>1 DEF WorkingJobVisible, AboutToSee, OnRecord
    <3>4. j \in Unseen(a)
      BY <3>2, <3>3 DEF BesideInv
    <3> QED
      BY <1>1, <3>1, <3>4 DEF Unseen
  <2> QED
    BY <2>1, <2>2
<1> QED
  BY <1>1, <1>2, <1>3, <1>4 DEF BesideInv, Unseen, AboutToSee

\* The hold: who looked first has seen whatever is past the busy check now, and keeps
\* on record what it has not; who holds first has yet to look.
LEMMA BesideHold ==
  ASSUME BesideInv, HoldInv, NEW a \in Actions, Hold(a)
  PROVE  BesideInv'
<1> USE DEF HoldInv, Shape
<1>1. UNCHANGED <<request, pc, entries, overtaken, dropped>>
  BY DEF Hold, vars, jobVars, history
<1>2. CASE \A d \in HoldSet(a) : held[d] = NoAction
  <2>1. /\ held' = [d \in Dbs |-> IF d \in HoldSet(a) THEN a ELSE held[d]]
        /\ missed' = [missed EXCEPT ![a] = @ \cap JobsPastBusyCheck]
        /\ \A b \in Actions \ {a} : apc'[b] = apc[b]
        /\ apc[a] = "hold" /\ apc'[a] = After(a, "hold")
    BY <1>2 DEF Hold, ActionGoto
  <2>2. missed' \in [Actions -> SUBSET Jobs]
    BY <2>1 DEF BesideInv
  <2>3. /\ ~Looked(a)'
        /\ LookedHolding(a)' => Looked(a)
    BY <1>1, <2>1, StepOrder DEF Looked, LookedHolding, Request, Modes
  <2>4. ASSUME LookedHolding(a)', NEW j \in Jobs, pc[j] \in PastCheck, held'[DbOf[j]] = a
        PROVE  j \in Unseen(a)' \/ AboutToSee(a, j)'
    <3>1. j \in Unseen(a)
      BY <2>1, <2>3, <2>4 DEF BesideInv, AboutToSee
    <3>2. j \in JobsPastBusyCheck
      BY <2>4 DEF JobsPastBusyCheck, PastCheck
    <3> QED
      BY <1>1, <2>1, <3>1, <3>2 DEF BesideInv, Unseen
  <2>5. \A b \in Actions \ {a} : /\ (LookedHolding(b)' <=> LookedHolding(b)) /\ (Looked(b)' <=> Looked(b))
                                 /\ missed'[b] = missed[b]
                                 /\ \A d \in Dbs : held'[d] = b => held[d] = b
    BY <1>1, <2>1 DEF LookedHolding, Looked, BesideInv
  <2>6. \A b \in Actions \ {a}, j \in Jobs :
          j \in Unseen(b) \/ AboutToSee(b, j) => j \in Unseen(b)' \/ AboutToSee(b, j)'
    BY <1>1, <2>1, <2>5 DEF Unseen, AboutToSee
  <2>7. ASSUME NEW b \in Actions, NEW j \in Jobs, LookedHolding(b)', held'[DbOf[j]] = b, pc'[j] \in PastCheck
        PROVE  j \in Unseen(b)' \/ AboutToSee(b, j)'
    <3>1. CASE b = a
      BY <1>1, <2>4, <2>7, <3>1
    <3>2. CASE b # a
      BY <1>1, <2>5, <2>6, <2>7, <3>2 DEF BesideInv
    <3> QED
      BY <3>1, <3>2
  <2>8. ASSUME NEW b \in Actions, NEW j \in Jobs, Looked(b)', pc'[j] \in PastCheck \cup {"new"}
        PROVE  j \in Unseen(b)' \/ AboutToSee(b, j)'
    BY <1>1, <2>3, <2>5, <2>6, <2>8 DEF BesideInv
  <2> QED
    BY <1>1, <2>2, <2>7, <2>8 DEF BesideInv
<1>3. CASE ~\A d \in HoldSet(a) : held[d] = NoAction
  <2>1. apc' = [apc EXCEPT ![a] = "done"] /\ UNCHANGED <<vars, held, missed, entries, request>>
    BY <1>3 DEF Hold, ActionGoto
  <2>2. \A b \in Actions : /\ LookedHolding(b)' => LookedHolding(b)
                           /\ Looked(b)' => Looked(b)
                           /\ apc[b] \in {"prelook", "look"} /\ (LookedHolding(b)' \/ Looked(b)')
                                => apc'[b] = apc[b]
    BY <2>1 DEF LookedHolding, Looked
  <2> QED
    BY <2>1, <2>2, BesideQuiet
<1> QED
  BY <1>2, <1>3

LEMMA BesideStep ==
  ASSUME BesideInv, HoldInv, HeldIsWanted, TypeInv, WorkingJobKeepsEntry, WorkingJobVisible, [HostNext]_hvars
  PROVE  BesideInv'
<1> USE DEF HoldInv, Shape
<1>1. ASSUME NEW a \in Actions,
             \/ Begin(a) \/ ListDatabases(a) \/ Throws(a) \/ Plan(a) \/ RereadHa(a) \/ Send(a)
             \/ NotSent(a) \/ Answered(a) \/ Lost(a) \/ Confirm(a) \/ PhaseOver(a)
      PROVE  BesideInv'
  <2>1. UNCHANGED <<vars, missed, entries>>
    BY <1>1 DEF Begin, ListDatabases, Throws, Plan, RereadHa, Send, NotSent, Answered, Lost, Confirm,
                PhaseOver
  <2>2. \A b \in Actions, d \in Dbs : held'[d] = b => held[d] = b
    BY <1>1 DEF Begin, ListDatabases, Throws, Plan, RereadHa, Send, NotSent, Answered, Lost, Confirm,
                PhaseOver, Release
  <2>3. \A b \in Actions \ {a} : apc'[b] = apc[b] /\ request'[b] = request[b]
    BY <1>1 DEF Begin, ListDatabases, Throws, Plan, RereadHa, Send, NotSent, Answered, Lost, Confirm,
                PhaseOver, Release, ActionGoto
  <2>4. /\ LookedHolding(a)' => LookedHolding(a)
        /\ Looked(a)' => Looked(a)
        /\ LookedHolding(a)' \/ Looked(a)' => apc[a] \notin {"prelook", "look"}
    <3>1. CASE Begin(a)
      <4>1. PICK r \in Requests : request'[a] = r /\ apc'[a] = Steps[r.mode].begin
        BY <3>1 DEF Begin, ActionGoto
      <4>2. r \in Request
        OBVIOUS
      <4> QED
        BY <4>1, <4>2, FirstStep DEF LookedHolding, Looked
    <3>2. CASE ListDatabases(a)
      <4>1. /\ apc[a] = "list" /\ apc'[a] = After(a, "list")
            /\ request'[a].mode = request[a].mode /\ Whole(a)
        BY <3>2 DEF ListDatabases, ActionGoto, ListsWhole
      <4> QED
        BY <4>1, StepOrder DEF LookedHolding, Looked, Whole
    <3>3. CASE Throws(a) \/ Confirm(a)
      BY <3>3 DEF Throws, Confirm, Release, ActionGoto, LookedHolding, Looked
    <3>4. CASE \/ Plan(a) \/ RereadHa(a) \/ Send(a) \/ NotSent(a) \/ Answered(a) \/ Lost(a)
               \/ PhaseOver(a)
      BY <3>4 DEF Plan, RereadHa, Send, NotSent, Answered, Lost, PhaseOver, Release, ActionGoto, LookedHolding,
                  Looked
    <3> QED
      BY <1>1, <3>1, <3>2, <3>3, <3>4
  <2>5. \A b \in Actions \ {a} : (LookedHolding(b)' <=> LookedHolding(b)) /\ (Looked(b)' <=> Looked(b))
    BY <2>3 DEF LookedHolding, Looked
  <2>6. \A b \in Actions : /\ LookedHolding(b)' => LookedHolding(b)
                           /\ Looked(b)' => Looked(b)
                           /\ apc[b] \in {"prelook", "look"} /\ (LookedHolding(b)' \/ Looked(b)')
                                => apc'[b] = apc[b]
    BY <2>3, <2>4, <2>5
  <2> QED
    BY <2>1, <2>2, <2>6, BesideQuiet
<1>2. ASSUME NEW a \in Actions, Hold(a) PROVE BesideInv'
  BY <1>2, BesideHold
<1>3. ASSUME NEW a \in Actions, ReadOperations(a) \/ LookForJobs(a) PROVE BesideInv'
  BY <1>3, BesideLook
<1>4. CASE CommandEnds \/ UNCHANGED hvars
  <2>1. UNCHANGED <<vars, missed, entries, held, apc, request>>
    BY <1>4 DEF CommandEnds, actionVars, hvars, hostVars
  <2>2. \A b \in Actions : (LookedHolding(b)' <=> LookedHolding(b)) /\ (Looked(b)' <=> Looked(b))
    BY <2>1 DEF LookedHolding, Looked
  <2> QED
    BY <2>1, <2>2, BesideQuiet
<1>5. CASE JobsMove
  BY <1>5, BesideJobs
<1>6. CASE HostCrash
  <2>1. \A a \in Actions : ~LookedHolding(a)' /\ ~Looked(a)'
    BY <1>6 DEF HostCrash, LookedHolding, Looked
  <2>2. missed' \in [Actions -> SUBSET Jobs] /\ entries' \in [Actions -> Ops]
    BY <1>6, OpsFacts DEF HostCrash, BesideInv
  <2> QED
    BY <2>1, <2>2 DEF BesideInv
<1> QED
  BY <1>1, <1>2, <1>3, <1>4, <1>5, <1>6 DEF HostNext, ActionStep, LocalStep, CmsStep

\* holdingDatabases, hasActiveJobForHost and createJob's busyDatabase together, without
\* start-up recovery: the look finds every job on record, and an action works beside a
\* job on a database it holds only when the job was not on record when the action looked
\* and past its busy check when it held, or had lost its entry.
THEOREM BesideOnlyInWindow ==
  ASSUME ~RecoverOnStartup
  PROVE  HostSpec => []JobBesideActionOnlyInWindow
<1>1. HostInit => HoldInv /\ HeldIsWanted /\ TasksOnHost /\ BesideInv
  <2>1. HostInit => HeldIsWanted
    BY NoActionAssumption DEF HostInit, HeldIsWanted
  <2> QED
    BY <2>1, HoldInit, BesideInit DEF HostInit, TasksOnHost
<1>2. HoldInv /\ HeldIsWanted /\ TasksOnHost /\ BesideInv /\ TypeInv /\ WorkingJobKeepsEntry
        /\ WorkingJobVisible /\ [HostNext]_hvars => (HoldInv /\ HeldIsWanted /\ TasksOnHost /\ BesideInv)'
  BY HoldStep, HeldWanted, BesideStep
<1>3. BesideInv => JobBesideActionOnlyInWindow
  BY DEF BesideInv, JobBesideActionOnlyInWindow, LookedHolding, PastCheck, Unseen, AboutToSee
<1> QED
  BY <1>1, <1>2, <1>3, JobsAsAlone, TypeInvariant, EntryKept, WorkingVisible, PTL DEF HostSpec

-----------------------------------------------------------------------------
(* What the commands leave behind *)

\* d is as a command left it, or a task that nobody waits for has been at it.
Settled(d, do) ==
  \/ IF do = "start" THEN d \in up ELSE d \notin up
  \/ <<d, "start">> \in stray
  \/ do = "start" /\ <<d, "stop">> \in stray

\* What a request asks, from its beginning on.
AskedInv ==
  \A a \in Actions :
    /\ request[a].mode = "all" => request[a].what # "restart"
    /\ apc[a] # "begin" =>
         /\ request[a].mode = "single" => \E d \in Dbs : request[a].dbs = {d}
         /\ request[a].what \in Phases => phase[a] = request[a].what
    /\ apc[a] = "confirm" => request[a].mode = "single" /\ request[a].what = "stop"
    /\ apc[a] # "act" => sent[a] = {}

\* A task of an action: of its phase or of the one before, sent once it had a plan, on
\* databases it waits for and holds, or else on record as stray; it does not go for
\* them again in that phase.
TaskOk(t) ==
  /\ t.dbs # {}
  /\ t.do = phase[t.by] \/ phase[t.by] = "start"
  /\ \/ apc[t.by] \in {"act", "confirm", "done"}
     \/ apc[t.by] \in {"plan", "reread"} /\ t.do # phase[t.by]
  /\ t.st = "running" => \A d \in t.dbs : \/ <<d, t.do>> \in stray
                                          \/ d \in sent[t.by] \cap want[t.by] /\ t.do = phase[t.by]
  /\ t.do = phase[t.by] => t.dbs \cap todo[t.by] = {}

\* In a phase an action sends for a database once.
OneTaskEach == \A t, u \in tasks : t.by = u.by /\ t.do = u.do /\ t.dbs \cap u.dbs # {} => t = u

TasksInv == (\A t \in tasks : TaskOk(t)) /\ OneTaskEach

\* What is done: by an answer on its way, and by those an action has had.
DoneInv ==
  /\ \A t \in tasks : t.st = "ok" /\ Awaited(t) => \A d \in t.dbs \cap want[t.by] : Settled(d, t.do)
  /\ \A a \in Actions : apc[a] \in {"reread", "act", "confirm"} =>
       \A d \in good[a] \cap want[a] : Settled(d, phase[a]) /\ d \notin sent[a] \cup todo[a]

\* An HA database that ha_start is still to be sent for does not run.
StartInv ==
  \A a \in Actions :
    apc[a] = "act" /\ phase[a] = "start" /\ request[a].mode \in {"selected", "all"} =>
      \A d \in todo[a] \cap HaDbs : d \notin up \/ <<d, "start">> \in stray

CommandInv == AskedInv /\ TasksInv /\ DoneInv /\ StartInv

LEMMA CommandInit == HostInit => CommandInv
<1> SUFFICES ASSUME HostInit PROVE CommandInv
  OBVIOUS
<1>1. /\ tasks = {}
      /\ \A a \in Actions : apc[a] = "begin" /\ request[a].mode = "single" /\ sent[a] = {}
  BY DEF HostInit, NoRequest
<1> QED
  BY <1>1 DEF CommandInv, AskedInv, TasksInv, OneTaskEach, DoneInv, StartInv

\* Who has no command under way has no task, or only strays.
LEMMA NoneAwaited ==
  ASSUME CommandInv, TasksOnHost, NEW a \in Actions, sent[a] = {}, NEW t \in tasks, t.by = a
  PROVE  /\ t.st = "running" => \A d \in t.dbs : <<d, t.do>> \in stray
         /\ ~Awaited(t)
BY DEF CommandInv, TasksInv, TaskOk, Awaited

\* Steps of an action with no command under way, up to its plan or to its end.
LEMMA CommandIdle ==
  ASSUME CommandInv, TasksOnHost, NEW a \in Actions, UNCHANGED <<up, tasks, stray>>,
         sent[a] = {}, sent'[a] = {},
         \A b \in Actions \ {a} : /\ apc'[b] = apc[b] /\ request'[b] = request[b]
                                  /\ phase'[b] = phase[b] /\ sent'[b] = sent[b]
                                  /\ todo'[b] = todo[b] /\ good'[b] = good[b] /\ want'[b] = want[b],
         apc'[a] \notin {"begin", "reread", "act", "confirm"},
         request'[a].mode = "all" => request'[a].what # "restart",
         request'[a].mode = "single" => \E d \in Dbs : request'[a].dbs = {d},
         request'[a].what \in Phases => phase'[a] = request'[a].what,
         \/ \A t \in tasks : t.by # a
         \/ apc'[a] = "done" /\ phase'[a] = phase[a] /\ todo'[a] = {}
  PROVE  CommandInv'
<1>1. AskedInv'
  BY DEF CommandInv, AskedInv
<1>2. ASSUME NEW t \in tasks, t.by # a
      PROVE  /\ TaskOk(t)'
             /\ Awaited(t)' <=> Awaited(t)
             /\ t.by \in Actions /\ want'[t.by] = want[t.by]
  BY <1>2 DEF CommandInv, TasksInv, TaskOk, Awaited, TasksOnHost
<1>3. ASSUME NEW t \in tasks, t.by = a
      PROVE  TaskOk(t)' /\ ~Awaited(t)'
  <2>1. apc'[a] = "done" /\ phase'[a] = phase[a] /\ todo'[a] = {}
    BY <1>3
  <2>2. TaskOk(t)
    BY DEF CommandInv, TasksInv
  <2> QED
    BY <1>3, <2>1, <2>2, NoneAwaited DEF TaskOk, Awaited
<1>4. TasksInv'
  BY <1>2, <1>3 DEF CommandInv, TasksInv, OneTaskEach
<1>5. \A d, do : Settled(d, do)' <=> Settled(d, do)
  BY DEF Settled
<1>6. DoneInv'
  <2>1. \A t \in tasks : t.st = "ok" /\ Awaited(t)' => \A d \in t.dbs \cap want'[t.by] : Settled(d, t.do)'
    BY <1>2, <1>3, <1>5 DEF CommandInv, DoneInv
  <2>2. \A b \in Actions : apc'[b] \in {"reread", "act", "confirm"} =>
          \A d \in good'[b] \cap want'[b] : Settled(d, phase[b])' /\ d \notin sent'[b] \cup todo'[b]
    BY DEF CommandInv, DoneInv, Settled
  <2> QED
    BY <2>1, <2>2 DEF DoneInv
<1>7. StartInv'
  BY DEF CommandInv, StartInv
<1> QED
  BY <1>1, <1>4, <1>6, <1>7 DEF CommandInv

\* The looks, the hold, the list, what throws, and each way to end.
LEMMA CommandBefore ==
  ASSUME CommandInv, HoldInv, TasksOnHost, NEW a \in Actions,
         \/ Begin(a) \/ Hold(a) \/ ReadOperations(a) \/ LookForJobs(a) \/ ListDatabases(a) \/ Throws(a)
         \/ Confirm(a)
         \/ PhaseOver(a) /\ Release(a) /\ UNCHANGED phase
  PROVE  CommandInv'
<1> USE DEF HoldInv, Shape, Release, ActionGoto, cmsVars
<1>1. /\ UNCHANGED <<up, tasks, stray>>
      /\ \A b \in Actions \ {a} : /\ apc'[b] = apc[b] /\ request'[b] = request[b]
                                  /\ phase'[b] = phase[b] /\ sent'[b] = sent[b]
                                  /\ todo'[b] = todo[b] /\ good'[b] = good[b] /\ want'[b] = want[b]
  <2>1. CASE Begin(a)           BY <2>1 DEF Begin
  <2>2. CASE Hold(a)            BY <2>2 DEF Hold
  <2>3. CASE ReadOperations(a)  BY <2>3 DEF ReadOperations
  <2>4. CASE LookForJobs(a)     BY <2>4 DEF LookForJobs
  <2>5. CASE ListDatabases(a)   BY <2>5 DEF ListDatabases
  <2>6. CASE Throws(a)          BY <2>6 DEF Throws
  <2>7. CASE Confirm(a)         BY <2>7 DEF Confirm
  <2>8. CASE PhaseOver(a) /\ Release(a) /\ UNCHANGED phase
    BY <2>8 DEF PhaseOver
  <2> QED
    BY <2>1, <2>2, <2>3, <2>4, <2>5, <2>6, <2>7, <2>8
<1>2. sent[a] = {} /\ sent'[a] = {}
  <2>1. apc[a] = "act" => PhaseOver(a)
    BY DEF Begin, Hold, ReadOperations, LookForJobs, ListDatabases, Throws, Confirm
  <2>2. sent[a] = {}
    BY <2>1 DEF CommandInv, AskedInv, PhaseOver
  <2> QED
    BY <2>2 DEF Begin, Hold, ReadOperations, LookForJobs, ListDatabases, Throws, Confirm
<1>3. CASE Begin(a)
  <2>1. PICK r \in Requests : /\ request'[a] = r
                              /\ phase'[a] = IF r.what = "start" THEN "start" ELSE "stop"
                              /\ apc'[a] = Steps[r.mode].begin
    BY <1>3 DEF Begin
  <2>2. r \in Request
    OBVIOUS
  <2>3. apc'[a] \in {"hold", "check", "precheck"}
    BY <2>1, <2>2, FirstStep
  <2>4. \A t \in tasks : t.by # a
    BY <1>3 DEF Begin, CommandInv, TasksInv, TaskOk
  <2> QED
    BY <1>1, <1>2, <2>1, <2>3, <2>4, CommandIdle DEF Phases
<1>4. CASE ListDatabases(a)
  <2>1. /\ apc'[a] = After(a, "list") /\ UNCHANGED phase
        /\ request'[a].mode = request[a].mode /\ request'[a].what = request[a].what
        /\ Whole(a) /\ apc[a] = "list"
    BY <1>4 DEF ListDatabases, ListsWhole
  <2>2. apc'[a] \in {"hold", "check"} /\ request[a].mode \notin {"single", "all"}
    BY <2>1, StepOrder DEF Whole
  <2>3. \A t \in tasks : t.by # a
    BY <2>1 DEF CommandInv, TasksInv, TaskOk
  <2> QED
    BY <1>1, <1>2, <2>1, <2>2, <2>3, CommandIdle DEF CommandInv, AskedInv
<1>5. CASE \/ Hold(a) \/ ReadOperations(a) \/ LookForJobs(a) \/ Throws(a) \/ Confirm(a)
           \/ PhaseOver(a) /\ Release(a) /\ UNCHANGED phase
  <2>1. UNCHANGED <<request, phase>> /\ apc[a] # "begin"
    BY <1>5 DEF Hold, ReadOperations, LookForJobs, Throws, Confirm, PhaseOver
  <2>2. \/ apc'[a] = "done" /\ todo'[a] = {}
        \/ /\ apc[a] \in {"hold", "check", "precheck", "look", "prelook"}
           /\ apc'[a] \in {"done", "look", "prelook", "list", After(a, "hold"), After(a, "look")}
    BY <1>5 DEF Hold, ReadOperations, LookForJobs, Throws, Confirm, PhaseOver
  <2>3. /\ After(a, "hold") \in {"check", "plan"}
        /\ After(a, "look") \in {"plan", "list", "hold"}
    BY StepOrder
  <2>4. apc[a] \in {"hold", "check", "precheck", "look", "prelook"} => \A t \in tasks : t.by # a
    BY DEF CommandInv, TasksInv, TaskOk
  <2> QED
    BY <1>1, <1>2, <2>1, <2>2, <2>3, <2>4, CommandIdle DEF CommandInv, AskedInv
<1> QED
  BY <1>3, <1>4, <1>5

\* A new phase: what the last one sent for is over, or stray.
LEMMA CommandNextPhase ==
  ASSUME CommandInv, HoldInv, TasksOnHost, NEW a \in Actions,
         PhaseOver(a), ~(Release(a) /\ UNCHANGED phase)
  PROVE  CommandInv'
<1> USE DEF HoldInv, Shape, ActionGoto, cmsVars
<1>1. /\ apc[a] = "act" /\ sent[a] = {} /\ phase[a] = "stop" /\ request[a].what = "restart"
      /\ phase' = [phase EXCEPT ![a] = "start"] /\ good' = [good EXCEPT ![a] = {}]
      /\ UNCHANGED <<request, want, sent, up, tasks, stray>>
      /\ \A b \in Actions \ {a} : apc'[b] = apc[b] /\ todo'[b] = todo[b]
      /\ apc'[a] \in {"plan", "reread", "act"}
      /\ apc'[a] = "act" => request[a].mode \notin {"restart", "selected"}
  BY DEF PhaseOver
<1>2. AskedInv'
  BY <1>1 DEF CommandInv, AskedInv, Phases
<1>3. ASSUME NEW t \in tasks
      PROVE  /\ TaskOk(t)'
             /\ Awaited(t)' => Awaited(t) /\ t.by # a
  <2>1. TaskOk(t) /\ t.by \in Actions
    BY DEF CommandInv, TasksInv, TasksOnHost
  <2>2. CASE t.by # a
    BY <1>1, <2>1, <2>2 DEF TaskOk, Awaited
  <2>3. CASE t.by = a
    <3>1. t.do = "stop" /\ (t.st = "running" => \A d \in t.dbs : <<d, t.do>> \in stray)
      BY <1>1, <2>1, <2>3, NoneAwaited DEF TaskOk
    <3> QED
      BY <1>1, <2>1, <2>3, <3>1 DEF TaskOk, Awaited
  <2> QED
    BY <2>2, <2>3
<1>4. TasksInv'
  BY <1>1, <1>3 DEF CommandInv, TasksInv, OneTaskEach
<1>5. DoneInv'
  <2>1. \A d, do : Settled(d, do)' <=> Settled(d, do)
    BY <1>1 DEF Settled
  <2>2. \A t \in tasks : t.st = "ok" /\ Awaited(t)' => \A d \in t.dbs \cap want'[t.by] : Settled(d, t.do)'
    BY <1>1, <1>3, <2>1 DEF CommandInv, DoneInv
  <2>3. \A b \in Actions : apc'[b] \in {"reread", "act", "confirm"} =>
          \A d \in good'[b] \cap want'[b] : Settled(d, phase[b])' /\ d \notin sent'[b] \cup todo'[b]
    BY <1>1 DEF CommandInv, DoneInv, Settled
  <2> QED
    BY <1>1, <2>2, <2>3 DEF DoneInv
<1>6. StartInv'
  <2>1. request[a].mode # "all"
    BY <1>1 DEF CommandInv, AskedInv
  <2> QED
    BY <1>1, <2>1 DEF CommandInv, StartInv
<1> QED
  BY <1>2, <1>4, <1>5, <1>6 DEF CommandInv

\* The plan of a phase: nothing was sent for in it yet.
LEMMA CommandPlan ==
  ASSUME CommandInv, HoldInv, TasksOnHost, NEW a \in Actions, Plan(a)
  PROVE  CommandInv'
<1> USE DEF HoldInv, Shape, ActionGoto, cmsVars
<1>1. PICK dbs \in Targets(a) :
        /\ todo' = [todo EXCEPT ![a] = dbs]
        /\ good' = [good EXCEPT ![a] = IF request[a].mode = "single" THEN request[a].dbs \ dbs ELSE {}]
  BY DEF Plan
<1>2. /\ apc[a] = "plan" /\ apc' = [apc EXCEPT ![a] = IF request[a].mode = "selected" THEN "reread" ELSE "act"]
      /\ UNCHANGED <<request, want, phase, sent, up, tasks, stray>>
  BY DEF Plan
<1>3. sent[a] = {}
  BY <1>2 DEF CommandInv, AskedInv
<1>4. AskedInv'
  BY <1>2 DEF CommandInv, AskedInv
<1>5. \A t \in tasks : /\ TaskOk(t)'
                       /\ Awaited(t)' <=> Awaited(t)
  BY <1>1, <1>2 DEF CommandInv, TasksInv, TaskOk, TasksOnHost, Awaited
<1>6. TasksInv'
  BY <1>2, <1>5 DEF CommandInv, TasksInv, OneTaskEach
<1>7. good'[a] # {} => request[a].mode = "single" /\ phase[a] = "start" /\ good'[a] \subseteq up \ dbs
  <2>1. SUFFICES ASSUME request[a].mode = "single", request[a].dbs \ dbs # {}
                 PROVE  phase[a] = "start" /\ request[a].dbs \ dbs \subseteq up
    BY <1>1
  <2>2. request[a].what = "start" /\ dbs = Needed("start", request[a].dbs)
    BY <2>1 DEF Targets
  <2> QED
    BY <1>2, <2>2 DEF Needed, CommandInv, AskedInv, Phases
<1>8. DoneInv'
  <2>1. \A d, do : Settled(d, do)' <=> Settled(d, do)
    BY <1>2 DEF Settled
  <2>2. \A t \in tasks : t.st = "ok" /\ Awaited(t)' => \A d \in t.dbs \cap want'[t.by] : Settled(d, t.do)'
    BY <1>2, <1>5, <2>1 DEF CommandInv, DoneInv
  <2>3. \A b \in Actions \ {a} : apc'[b] \in {"reread", "act", "confirm"} =>
          \A d \in good'[b] \cap want'[b] : Settled(d, phase[b])' /\ d \notin sent'[b] \cup todo'[b]
    BY <1>1, <1>2 DEF CommandInv, DoneInv, Settled
  <2>4. \A d \in good'[a] \cap want'[a] : Settled(d, phase[a])' /\ d \notin sent'[a] \cup todo'[a]
    BY <1>1, <1>2, <1>3, <1>7 DEF Settled
  <2> QED
    BY <1>2, <2>2, <2>3, <2>4 DEF DoneInv
<1>9. StartInv'
  <2>1. CASE request[a].mode = "all" /\ phase[a] = "start"
    <3>1. HaNames(a) = HaDbs
      BY <2>1 DEF HaNames, Whole
    <3>2. dbs \cap HaDbs \cap up = {}
      BY <2>1, <3>1 DEF Targets, Needed
    <3> QED
      BY <1>1, <1>2, <3>2 DEF CommandInv, StartInv
  <2>2. CASE ~(request[a].mode = "all" /\ phase[a] = "start")
    BY <1>1, <1>2, <2>2 DEF CommandInv, StartInv
  <2> QED
    BY <2>1, <2>2
<1> QED
  BY <1>4, <1>6, <1>8, <1>9 DEF CommandInv

\* Databases that an action does not send for after all.
LEMMA CommandLess ==
  ASSUME CommandInv, HoldInv, TasksOnHost, NEW a \in Actions, RereadHa(a) \/ NotSent(a)
  PROVE  CommandInv'
<1> USE DEF HoldInv, Shape, ActionGoto, cmsVars
<1>1. /\ todo'[a] \subseteq todo[a]
      /\ \A b \in Actions \ {a} : todo'[b] = todo[b] /\ apc'[b] = apc[b]
      /\ UNCHANGED <<request, want, phase, sent, good, up, tasks, stray>>
      /\ apc[a] \in {"reread", "act"} /\ apc'[a] = "act"
  BY DEF RereadHa, NotSent, Needed
<1>2. apc[a] = "reread" => \A d \in todo'[a] \cap HaDbs : phase[a] = "start" => d \notin up
  BY DEF RereadHa, NotSent, Needed
<1>3. AskedInv'
  BY <1>1 DEF CommandInv, AskedInv
<1>4. \A t \in tasks : TaskOk(t)' /\ (Awaited(t)' <=> Awaited(t))
  BY <1>1 DEF CommandInv, TasksInv, TaskOk, TasksOnHost, Awaited
<1>5. TasksInv'
  BY <1>1, <1>4 DEF CommandInv, TasksInv, OneTaskEach
<1>6. DoneInv'
  <2>1. \A d, do : Settled(d, do)' <=> Settled(d, do)
    BY <1>1 DEF Settled
  <2>2. \A t \in tasks : t.st = "ok" /\ Awaited(t)' => \A d \in t.dbs \cap want'[t.by] : Settled(d, t.do)'
    BY <1>1, <1>4, <2>1 DEF CommandInv, DoneInv
  <2>3. \A b \in Actions : apc'[b] \in {"reread", "act", "confirm"} =>
          \A d \in good'[b] \cap want'[b] : Settled(d, phase[b])' /\ d \notin sent'[b] \cup todo'[b]
    BY <1>1 DEF CommandInv, DoneInv, Settled
  <2> QED
    BY <1>1, <2>2, <2>3 DEF DoneInv
<1>7. StartInv'
  BY <1>1, <1>2 DEF CommandInv, StartInv
<1> QED
  BY <1>3, <1>5, <1>6, <1>7 DEF CommandInv

\* A command goes to databases that none of the phase's went to before.
LEMMA CommandSend ==
  ASSUME CommandInv, HoldInv, TasksOnHost, NEW a \in Actions, Send(a)
  PROVE  CommandInv'
<1> USE DEF HoldInv, Shape
<1>1. PICK dbs \in SUBSET todo[a] :
        /\ dbs # {}
        /\ todo' = [todo EXCEPT ![a] = @ \ dbs]
        /\ sent' = [sent EXCEPT ![a] = @ \cup dbs]
        /\ tasks' = tasks \cup {[by |-> a, dbs |-> dbs, do |-> phase[a], st |-> "running"]}
        /\ stray' = stray \cup ((dbs \ want[a]) \X {phase[a]})
  BY DEF Send, Unit
<1>2. /\ apc[a] = "act" /\ UNCHANGED <<request, apc, want, phase, good, up>>
  BY DEF Send
<1>0. PICK new : new = [by |-> a, dbs |-> dbs, do |-> phase[a], st |-> "running"]
  OBVIOUS
<1>3. AskedInv'
  BY <1>1, <1>2 DEF CommandInv, AskedInv
<1>4. ASSUME NEW t \in tasks
      PROVE  /\ TaskOk(t)'
             /\ Awaited(t)' => Awaited(t)
             /\ t.by = a /\ t.do = phase[a] => t.dbs \cap dbs = {}
  <2>1. TaskOk(t) /\ t.by \in Actions
    BY DEF CommandInv, TasksInv, TasksOnHost
  <2> QED
    BY <1>1, <1>2, <2>1 DEF TaskOk, Awaited
<1>5. TaskOk(new)'
  BY <1>0, <1>1, <1>2 DEF TaskOk
<1>6. TasksInv'
  <2>1. tasks' = tasks \cup {new}
    BY <1>0, <1>1
  <2>2. new.by = a /\ new.do = phase[a] /\ new.dbs = dbs
    BY <1>0
  <2>3. ASSUME NEW t \in tasks', NEW u \in tasks', t.by = u.by, t.do = u.do, t.dbs \cap u.dbs # {}
        PROVE  t = u
    <3>1. CASE t \in tasks /\ u \in tasks
      BY <2>3, <3>1 DEF CommandInv, TasksInv, OneTaskEach
    <3>2. CASE t = new \/ u = new
      BY <1>4, <2>1, <2>2, <2>3, <3>2
    <3> QED
      BY <2>1, <3>1, <3>2
  <2> QED
    BY <1>4, <1>5, <2>1, <2>3 DEF TasksInv, OneTaskEach
<1>7. \A d, do : Settled(d, do) => Settled(d, do)'
  BY <1>1, <1>2 DEF Settled
<1>8. DoneInv'
  <2>1. \A t \in tasks' : t.st = "ok" /\ Awaited(t)' => \A d \in t.dbs \cap want'[t.by] : Settled(d, t.do)'
    BY <1>1, <1>2, <1>4, <1>7 DEF CommandInv, DoneInv
  <2>2. \A b \in Actions : apc'[b] \in {"reread", "act", "confirm"} =>
          \A d \in good'[b] \cap want'[b] : Settled(d, phase[b])' /\ d \notin sent'[b] \cup todo'[b]
    BY <1>1, <1>2 DEF CommandInv, DoneInv, Settled
  <2> QED
    BY <2>1, <2>2 DEF DoneInv
<1>9. StartInv'
  BY <1>1, <1>2 DEF CommandInv, StartInv
<1> QED
  BY <1>3, <1>6, <1>8, <1>9 DEF CommandInv

\* An answer, or the end of waiting for it: it concerns the databases of its command
\* alone.
LEMMA CommandOver ==
  ASSUME CommandInv, HoldInv, TasksOnHost, NEW a \in Actions, Answered(a) \/ Lost(a)
  PROVE  CommandInv'
<1> USE DEF HoldInv, Shape, ActionGoto
<1>1. PICK t \in tasks :
        /\ t.by = a /\ Awaited(t)
        /\ sent' = [sent EXCEPT ![a] = @ \ t.dbs]
        /\ tasks' \in {tasks, tasks \ {t}}
        /\ stray' \in {stray, stray \cup (t.dbs \X {t.do})}
        /\ t \in tasks' /\ t.st = "running" => \A d \in t.dbs : <<d, t.do>> \in stray'
        /\ good' = good \/ (good' = [good EXCEPT ![a] = @ \cup t.dbs] /\ t.st = "ok" /\ t \notin tasks')
        /\ t \in tasks' => t.st = "running"
  <2>1. CASE Answered(a)
    BY <2>1 DEF Answered
  <2>2. CASE Lost(a)
    BY <2>2 DEF Lost
  <2> QED BY <2>1, <2>2
<1>2. /\ apc[a] = "act" /\ UNCHANGED <<request, want, phase, todo, up>>
      /\ \A b \in Actions \ {a} : apc'[b] = apc[b]
      /\ \/ apc'[a] = "act"
         \/ /\ apc'[a] = "confirm" /\ request[a].mode = "single" /\ request[a].what = "stop"
            /\ UNCHANGED good
  BY DEF Answered, Lost
<1>3. t.dbs # {} /\ t.dbs \subseteq sent[a] /\ t.do = phase[a] /\ t.dbs \cap todo[a] = {}
  BY <1>1 DEF CommandInv, TasksInv, TaskOk, Awaited
<1>4. AskedInv'
  <2>1. apc'[a] = "confirm" => sent'[a] = {}
    <3>1. SUFFICES ASSUME apc'[a] = "confirm" PROVE sent'[a] = {}
      OBVIOUS
    <3>2. sent[a] \subseteq request[a].dbs
      BY <1>2, <3>1 DEF WorksOnWanted, WantsHoldSet, InHold, HoldSet
    <3>3. \E d \in Dbs : request[a].dbs = {d}
      BY <1>2, <3>1 DEF CommandInv, AskedInv
    <3> QED
      BY <1>1, <1>3, <3>2, <3>3
  <2> QED
    BY <1>1, <1>2, <2>1 DEF CommandInv, AskedInv
<1>5. ASSUME NEW u \in tasks', u # t
      PROVE  /\ TaskOk(u)'
             /\ Awaited(u)' => Awaited(u)
  <2>1. u \in tasks /\ TaskOk(u) /\ u.by \in Actions
    BY <1>1 DEF CommandInv, TasksInv, TasksOnHost
  <2>2. u.by = a /\ u.do = phase[a] => u.dbs \cap t.dbs = {}
    BY <1>1, <1>3, <1>5, <2>1 DEF CommandInv, TasksInv, OneTaskEach
  <2> QED
    BY <1>1, <1>2, <2>1, <2>2 DEF TaskOk, Awaited
<1>6. t \in tasks' => TaskOk(t)'
  BY <1>1, <1>2, <1>3 DEF CommandInv, TasksInv, TaskOk
<1>7. TasksInv'
  BY <1>1, <1>5, <1>6 DEF CommandInv, TasksInv, OneTaskEach
<1>8. \A d, do : Settled(d, do) => Settled(d, do)'
  BY <1>1, <1>2 DEF Settled
<1>9. DoneInv'
  <2>1. \A u \in tasks' : u.st = "ok" /\ Awaited(u)' => \A d \in u.dbs \cap want'[u.by] : Settled(d, u.do)'
    BY <1>1, <1>2, <1>5, <1>8 DEF CommandInv, DoneInv
  <2>2. \A b \in Actions \ {a} : apc'[b] \in {"reread", "act", "confirm"} =>
          \A d \in good'[b] \cap want'[b] : Settled(d, phase[b])' /\ d \notin sent'[b] \cup todo'[b]
    <3>1. \A b \in Actions \ {a} : good'[b] = good[b] /\ sent'[b] = sent[b]
      BY <1>1
    <3> QED
      BY <1>1, <1>2, <3>1 DEF CommandInv, DoneInv, Settled
  <2>3. \A d \in good'[a] \cap want'[a] : Settled(d, phase[a])' /\ d \notin sent'[a] \cup todo'[a]
    <3>1. \A d \in good[a] \cap want[a] : Settled(d, phase[a]) /\ d \notin sent[a] \cup todo[a]
      BY <1>2 DEF CommandInv, DoneInv
    <3>2. t.st = "ok" => \A d \in t.dbs \cap want[a] : Settled(d, phase[a])
      BY <1>1, <1>3 DEF CommandInv, DoneInv
    <3>3. \A d \in good'[a] \cap want[a] : Settled(d, phase[a]) /\ d \notin (sent[a] \ t.dbs) \cup todo[a]
      BY <1>1, <1>3, <3>1, <3>2
    <3> QED
      BY <1>1, <1>2, <3>3 DEF Settled
  <2> QED
    BY <1>2, <2>1, <2>2, <2>3 DEF DoneInv
<1>10. StartInv'
  BY <1>1, <1>2 DEF CommandInv, StartInv
<1> QED
  BY <1>4, <1>7, <1>9, <1>10 DEF CommandInv

\* CMS ends a command: no other command of the same database is awaited, by the
\* exclusion of actions; what strays do is on record.
LEMMA CommandEnded ==
  ASSUME CommandInv, HoldInv, TasksOnHost, CommandEnds
  PROVE  CommandInv'
<1> USE DEF HoldInv, Shape
<1>1. PICK t \in tasks, st \in {"ok", "failed"} :
        /\ t.st = "running"
        /\ tasks' = (tasks \ {t}) \cup IF Awaited(t) THEN {[t EXCEPT !.st = st]} ELSE {}
        /\ up' = CASE t.do = "start" /\ st = "ok" -> up \cup t.dbs
                   [] t.do = "stop" /\ st = "ok"  -> up \ t.dbs
                   [] t.do = "start" /\ st = "failed" /\ t.dbs \subseteq HaDbs -> up \ t.dbs
                   [] OTHER -> up
  BY DEF CommandEnds
<1>2. UNCHANGED <<request, apc, want, phase, todo, sent, good, stray>>
  BY DEF CommandEnds, actionVars
<1> DEFINE over == [t EXCEPT !.st = st]
<1>3. /\ over.by = t.by /\ over.do = t.do /\ over.dbs = t.dbs /\ over.st = st
      /\ t.by \in Actions /\ t.do \in Phases
  BY DEF TasksOnHost
<1>4. TaskOk(t) /\ tasks' \subseteq (tasks \ {t}) \cup {over}
  BY <1>1 DEF CommandInv, TasksInv
<1> HIDE DEF over
<1>5. AskedInv'
  BY <1>2 DEF CommandInv, AskedInv
<1>6. TasksInv'
  <2>1. ASSUME NEW u \in tasks' PROVE TaskOk(u)'
    <3>1. CASE u \in tasks
      BY <1>2, <3>1 DEF CommandInv, TasksInv, TaskOk
    <3>2. CASE u = over
      BY <1>2, <1>3, <1>4, <3>2 DEF TaskOk
    <3> QED BY <1>4, <3>1, <3>2
  <2>2. ASSUME NEW u \in tasks', NEW v \in tasks', u.by = v.by, u.do = v.do, u.dbs \cap v.dbs # {}
        PROVE  u = v
    BY <1>3, <1>4, <2>2 DEF CommandInv, TasksInv, OneTaskEach
  <2> QED
    BY <2>1, <2>2 DEF TasksInv, OneTaskEach
\* The databases of the command that somebody else holds: their tasks are strays.
<1>7. ASSUME NEW d \in t.dbs, NEW b \in Actions, d \in want[b]
      PROVE  <<d, t.do>> \in stray \/ (t.by = b /\ d \in sent[b] /\ t.do = phase[b])
  BY <1>1, <1>3, <1>4, <1>7 DEF TaskOk, HoldsWanted
<1>8. ASSUME NEW d, NEW do \in Phases, Settled(d, do), d \in t.dbs => <<d, t.do>> \in stray
      PROVE  Settled(d, do)'
  BY <1>1, <1>2, <1>3, <1>8 DEF Settled, Phases
<1>9. DoneInv'
  <2>1. ASSUME NEW u \in tasks', u.st = "ok", Awaited(u)', NEW d \in u.dbs \cap want'[u.by]
        PROVE  Settled(d, u.do)'
    <3>1. CASE u \in tasks /\ u # t
      <4>1. /\ Settled(d, u.do) /\ u.by \in Actions /\ u.do \in Phases
            /\ u.do = phase[u.by] /\ d \in want[u.by]
        BY <1>2, <2>1, <3>1 DEF CommandInv, DoneInv, Awaited, TasksOnHost
      <4>2. d \in t.dbs => <<d, t.do>> \in stray
        BY <1>7, <2>1, <3>1, <4>1 DEF CommandInv, TasksInv, OneTaskEach
      <4> QED
        BY <1>8, <4>1, <4>2
    <3>2. CASE u = over
      BY <1>1, <1>3, <2>1, <3>2 DEF Settled, Phases
    <3> QED
      BY <1>4, <3>1, <3>2
  <2>2. ASSUME NEW b \in Actions, apc'[b] \in {"reread", "act", "confirm"},
               NEW d \in good'[b] \cap want'[b]
        PROVE  Settled(d, phase[b])' /\ d \notin sent'[b] \cup todo'[b]
    <3>1. Settled(d, phase[b]) /\ d \notin sent[b] \cup todo[b] /\ d \in want[b]
      BY <1>2, <2>2 DEF CommandInv, DoneInv
    <3>2. d \in t.dbs => <<d, t.do>> \in stray
      BY <1>7, <3>1
    <3> QED
      BY <1>2, <1>8, <3>1, <3>2 DEF Settled
  <2> QED
    BY <2>1, <2>2 DEF DoneInv
<1>10. StartInv'
  <2>1. ASSUME NEW b \in Actions, apc[b] = "act", phase[b] = "start",
               request[b].mode \in {"selected", "all"}, NEW d \in todo[b] \cap HaDbs
        PROVE  d \notin up' \/ <<d, "start">> \in stray
    <3>1. (d \notin up \/ <<d, "start">> \in stray) /\ d \in want[b]
      BY <2>1 DEF CommandInv, StartInv, WorksOnWanted
    <3>2. CASE d \in t.dbs /\ t.do = "start"
      BY <1>4, <1>7, <2>1, <3>1, <3>2 DEF TaskOk
    <3>3. CASE ~(d \in t.dbs /\ t.do = "start")
      BY <1>1, <1>3, <3>1, <3>3 DEF Phases
    <3> QED
      BY <3>2, <3>3
  <2> QED
    BY <1>2, <2>1 DEF StartInv
<1> QED
  BY <1>5, <1>6, <1>9, <1>10 DEF CommandInv

\* A crash: nobody waits for any task.
LEMMA CommandCrash ==
  ASSUME CommandInv, TasksOnHost, Shape, HostCrash
  PROVE  CommandInv'
<1>1. /\ apc' = [a \in Actions |-> IF apc[a] = "begin" THEN "begin" ELSE "done"]
      /\ sent' = [a \in Actions |-> {}] /\ todo' = [a \in Actions |-> {}]
      /\ tasks' = {t \in tasks : t.st = "running"}
      /\ stray' = stray \cup UNION {t.dbs \X {t.do} : t \in tasks'}
      /\ UNCHANGED <<request, phase, up>>
  BY DEF HostCrash
<1>2. AskedInv'
  BY <1>1 DEF CommandInv, AskedInv
<1>3. ASSUME NEW t \in tasks'
      PROVE  TaskOk(t)' /\ ~Awaited(t)'
  <2>1. t \in tasks /\ t.by \in Actions /\ TaskOk(t)
    BY <1>1 DEF TasksOnHost, CommandInv, TasksInv
  <2>2. \A d \in t.dbs : <<d, t.do>> \in stray'
    BY <1>1
  <2> QED
    BY <1>1, <2>1, <2>2 DEF TaskOk, Awaited
<1>4. TasksInv'
  BY <1>1, <1>3 DEF CommandInv, TasksInv, OneTaskEach
<1>5. \A a \in Actions : apc'[a] \in {"begin", "done"}
  BY <1>1
<1>6. DoneInv' /\ StartInv'
  BY <1>3, <1>5 DEF DoneInv, StartInv
<1> QED
  BY <1>2, <1>4, <1>6 DEF CommandInv

LEMMA CommandStep ==
  ASSUME CommandInv, HoldInv, TasksOnHost, [HostNext]_hvars
  PROVE  CommandInv'
<1>1. ASSUME NEW a \in Actions, Begin(a) \/ ActionStep(a)
      PROVE  CommandInv'
  <2>1. CASE PhaseOver(a)
    <3>1. CASE Release(a) /\ UNCHANGED phase
      BY <2>1, <3>1, CommandBefore
    <3>2. CASE ~(Release(a) /\ UNCHANGED phase)
      BY <2>1, <3>2, CommandNextPhase
    <3> QED
      BY <3>1, <3>2
  <2>2. CASE \/ Begin(a) \/ Hold(a) \/ ReadOperations(a) \/ LookForJobs(a) \/ ListDatabases(a)
             \/ Throws(a) \/ Confirm(a)
    BY <2>2, CommandBefore
  <2>3. CASE Plan(a) \/ RereadHa(a)
    BY <2>3, CommandPlan, CommandLess
  <2>4. CASE Send(a) \/ NotSent(a)
    BY <2>4, CommandLess, CommandSend
  <2>5. CASE Answered(a) \/ Lost(a)
    BY <2>5, CommandSend, CommandOver
  <2> QED
    BY <1>1, <2>1, <2>2, <2>3, <2>4, <2>5 DEF ActionStep, LocalStep, CmsStep
<1>2. CASE CommandEnds
  BY <1>2, CommandEnded
<1>3. CASE HostCrash
  BY <1>3, CommandCrash DEF HoldInv
<1>4. CASE JobsMove \/ UNCHANGED hvars
  <2>1. UNCHANGED <<request, apc, want, phase, todo, sent, good, up, tasks, stray>>
    BY <1>4 DEF JobsMove, hvars, hostVars, actionVars, cmsVars
  <2> QED
    BY <2>1 DEF CommandInv, AskedInv, TasksInv, TaskOk, OneTaskEach, DoneInv, Settled, Awaited, StartInv
<1> QED
  BY <1>1, <1>2, <1>3, <1>4 DEF HostNext

LEMMA CommandInvariant == HostSpec => [](CommandInv /\ HoldInv /\ TasksOnHost)
<1>1. HostInit => CommandInv /\ HoldInv /\ TasksOnHost
  BY HoldInit, CommandInit DEF HostInit, TasksOnHost
<1>2. CommandInv /\ HoldInv /\ TasksOnHost /\ [HostNext]_hvars => (CommandInv /\ HoldInv /\ TasksOnHost)'
  BY HoldStep, CommandStep
<1> QED
  BY <1>1, <1>2, PTL DEF HostSpec

\* runHaBulkAction sends ha_start to no database that runs, unless a task that nobody
\* waits for any more has started it.
THEOREM HaStartOnlyStopped == HostSpec => BulkHaStartOnlyStopped
<1>1. CommandInv /\ HoldInv /\ TasksOnHost /\ [HostNext]_hvars =>
        [\A t \in tasks' \ tasks :
           /\ t.st = "running" /\ t.do = "start" /\ t.dbs \subseteq HaDbs
           /\ request[t.by].mode \in {"selected", "all"}
           => \A d \in t.dbs : d \notin up \/ <<d, "start">> \in stray]_hvars
  <2> SUFFICES ASSUME CommandInv, HoldInv, TasksOnHost, HostNext, NEW t \in tasks' \ tasks,
                      t.st = "running", t.do = "start", t.dbs \subseteq HaDbs,
                      request[t.by].mode \in {"selected", "all"}
               PROVE  \A d \in t.dbs : d \notin up \/ <<d, "start">> \in stray
    OBVIOUS
  <2>1. PICK a \in Actions : Send(a)
    <3>1. ~CommandEnds
      BY DEF CommandEnds, TasksOnHost
    <3>2. ~UNCHANGED tasks /\ ~(tasks' \subseteq tasks)
      OBVIOUS
    <3> QED
      BY <3>1, <3>2
         DEF HostNext, ActionStep, LocalStep, CmsStep, Begin, Hold, ReadOperations, LookForJobs, ListDatabases,
             Throws, Plan, RereadHa, NotSent, Answered, Lost, Confirm, PhaseOver, JobsMove, HostCrash,
             hostVars, cmsVars
  <2>2. apc[a] = "act" /\ t.by = a /\ t.do = phase[a] /\ t.dbs \subseteq todo[a]
    BY <2>1 DEF Send
  <2> QED
    BY <2>2 DEF CommandInv, StartInv
<1> QED
  BY <1>1, CommandInvariant, PTL DEF HostSpec, BulkHaStartOnlyStopped

\* startDatabase, stopDatabase and restartDatabase: what one of them reports done is so
\* when it lets the database go, unless a task nobody waits for undid it.
THEOREM ResultHolds == HostSpec => SingleResultHolds
<1>1. CommandInv /\ HoldInv /\ TasksOnHost /\ [HostNext]_hvars =>
        [\A a \in Actions :
           /\ request[a].mode = "single" /\ apc[a] \in {"act", "confirm"} /\ apc'[a] = "done"
           /\ good'[a] = request[a].dbs
           => \A d \in request[a].dbs :
                IF request[a].what = "stop" THEN d \notin up' \/ <<d, "start">> \in stray
                                            ELSE d \in up' \/ \E do \in Phases : <<d, do>> \in stray]_hvars
  <2> SUFFICES ASSUME CommandInv, HoldInv, TasksOnHost, HostNext, NEW a \in Actions,
                      request[a].mode = "single", apc[a] \in {"act", "confirm"}, apc'[a] = "done",
                      good'[a] = request[a].dbs, NEW d \in request[a].dbs
               PROVE  IF request[a].what = "stop" THEN d \notin up' \/ <<d, "start">> \in stray
                                                  ELSE d \in up' \/ \E do \in Phases : <<d, do>> \in stray
    OBVIOUS
  <2> USE DEF HoldInv, Shape
  <2>1. CASE Confirm(a)
    <3>1. /\ request[a].what = "stop" /\ UNCHANGED up
          /\ request[a].dbs \cap up = {} \/ UNCHANGED good
      BY <2>1 DEF Confirm, cmsVars, CommandInv, AskedInv
    <3>2. d \in want[a] /\ phase[a] = "stop"
      BY <3>1 DEF CommandInv, AskedInv, WantsHoldSet, InHold, HoldSet, Phases
    <3> QED
      BY <3>1, <3>2 DEF CommandInv, DoneInv, Settled
  <2>2. CASE PhaseOver(a)
    <3>1. Release(a) /\ UNCHANGED <<phase, good, up>> /\ apc[a] = "act"
      BY <2>2 DEF PhaseOver, ActionGoto, cmsVars
    <3>2. ~(request[a].what = "restart" /\ phase[a] = "stop")
      BY <2>2, <3>1 DEF PhaseOver, Release, ActionGoto
    <3>3. d \in want[a] /\ (request[a].what = "stop" <=> phase[a] = "stop")
      BY <3>1, <3>2 DEF CommandInv, AskedInv, WantsHoldSet, InHold, HoldSet, Phases, Request
    <3> QED
      BY <3>1, <3>3 DEF CommandInv, DoneInv, Settled, Phases
  <2>3. CASE HostCrash
    BY <2>3 DEF HostCrash
  <2>4. CASE ~Confirm(a) /\ ~PhaseOver(a) /\ ~HostCrash
    <3>1. CASE Begin(a) \/ ActionStep(a)
      BY <2>4, <3>1 DEF ActionStep, LocalStep, CmsStep, Begin, Hold, ReadOperations, LookForJobs, ListDatabases,
                        Throws, Plan, RereadHa, Send, NotSent, Answered, Lost, ActionGoto
    <3>2. ASSUME NEW b \in Actions \ {a}, Begin(b) \/ ActionStep(b)
          PROVE  apc'[a] = apc[a]
      BY <3>2 DEF ActionStep, LocalStep, CmsStep, Begin, Hold, ReadOperations, LookForJobs, ListDatabases,
                  Throws, Plan, RereadHa, Send, NotSent, Answered, Lost, Confirm, PhaseOver, ActionGoto, Release
    <3>3. CASE JobsMove \/ CommandEnds
      BY <3>3 DEF JobsMove, CommandEnds, hostVars, actionVars
    <3> QED
      BY <2>4, <3>1, <3>2, <3>3 DEF HostNext
  <2> QED
    BY <2>1, <2>2, <2>3, <2>4
<1> QED
  BY <1>1, CommandInvariant, PTL DEF HostSpec, SingleResultHolds
=============================================================================

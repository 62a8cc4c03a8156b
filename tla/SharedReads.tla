---------------------------- MODULE SharedReads ----------------------------
(***************************************************************************)
(* createSharedReads of the web client: reads of one key share requests,   *)
(* so that at most one is in flight and one is queued.  A plain read joins *)
(* the request in flight; a fresh one needs a request sent after it was    *)
(* asked for.  Every request is stamped with a number of nextSeq, which    *)
(* other modules stamp their changes with too.                             *)
(***************************************************************************)
EXTENDS Naturals

CONSTANT Reads

VARIABLES
  lastSeq,  \* the counter of nextSeq
  flight,   \* stamp of the request in flight; 0 if none
  stand,    \* where a read stands; those queued share the next request
  of        \* stamp of the request a read has joined

readVars == <<lastSeq, flight, stand, of>>

ReadsTypeOK ==
  /\ lastSeq \in Nat
  /\ flight \in 0 .. lastSeq
  /\ stand \in [Reads -> {"new", "flight", "queued", "done"}]
  /\ of \in [Reads -> 0 .. lastSeq]
  /\ \A r \in Reads : stand[r] = "flight" => flight # 0 /\ of[r] = flight

ReadsInit ==
  /\ lastSeq = 0 /\ flight = 0
  /\ stand = [r \in Reads |-> "new"]
  /\ of = [r \in Reads |-> 0]

-----------------------------------------------------------------------------
InFlight == {r \in Reads : stand[r] = "flight"}
Queued   == {r \in Reads : stand[r] = "queued"}

\* nextSeq, for anything else that reads or changes state.
Stamp == lastSeq' = lastSeq + 1

\* Variant: a fresh read joins the request in flight as well.
AskJoining(r, fresh) ==
  /\ stand[r] = "new"
  /\ IF flight = 0
     THEN /\ Stamp /\ flight' = lastSeq + 1
          /\ stand' = [stand EXCEPT ![r] = "flight"]
          /\ of' = [of EXCEPT ![r] = lastSeq + 1]
     ELSE /\ stand' = [stand EXCEPT ![r] = "flight"]
          /\ of' = [of EXCEPT ![r] = flight]
          /\ UNCHANGED <<lastSeq, flight>>

AskRead(r, fresh) ==
  /\ stand[r] = "new"
  /\ IF flight = 0
     THEN /\ Stamp /\ flight' = lastSeq + 1
          /\ stand' = [stand EXCEPT ![r] = "flight"]
          /\ of' = [of EXCEPT ![r] = lastSeq + 1]
     ELSE /\ stand' = [stand EXCEPT ![r] = IF fresh THEN "queued" ELSE "flight"]
          /\ of' = [of EXCEPT ![r] = IF fresh THEN 0 ELSE flight]
          /\ UNCHANGED <<lastSeq, flight>>

\* The request in flight settles: its reads have their answer, and the queued
\* request is sent.
Settle ==
  /\ flight # 0
  /\ stand' = [r \in Reads |-> CASE r \in InFlight -> "done"
                                  [] r \in Queued   -> "flight"
                                  [] OTHER          -> stand[r]]
  /\ IF Queued = {} THEN flight' = 0 /\ UNCHANGED <<lastSeq, of>>
     ELSE /\ Stamp /\ flight' = lastSeq + 1
          /\ of' = [r \in Reads |-> IF r \in Queued THEN lastSeq + 1 ELSE of[r]]
=============================================================================

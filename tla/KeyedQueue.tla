----------------------------- MODULE KeyedQueue -----------------------------
(***************************************************************************)
(* The chain of promises that runs the functions given for one key one at  *)
(* a time, in the order they came.  The code has it three times, written   *)
(* alike: withHostQueue (requests to one CMS), withHostConfigQueue (edits  *)
(* of a host's configuration files), withQueryPlanMutex (edits of a query  *)
(* plan list).  serializeStatdumpCall keeps the same order and the same    *)
(* check before it removes the entry, as a chain of catch and then.        *)
(*                                                                         *)
(* A map holds, for a key, the promise of the last call; a call takes its  *)
(* place, waits for the promise it found, runs, resolves its own promise,  *)
(* and removes the map's entry if that is still its own.                   *)
(***************************************************************************)
EXTENDS Naturals, Sequences

CONSTANTS Calls, Keys, NoCall

ASSUME NoCallAssumption == NoCall \notin Calls

VARIABLES
  tail,   \* the map: of each key, the call whose promise it holds
  after,  \* the call whose promise a call found and waits for
  place,  \* where a call stands
  key,
  line    \* history: the calls of a key that have not left, as they came

queueVars == <<tail, after, place, key, line>>

QueueTypeOK ==
  /\ tail \in [Keys -> Calls \cup {NoCall}]
  /\ after \in [Calls -> Calls \cup {NoCall}]
  /\ place \in [Calls -> {"new", "waiting", "running", "left"}]
  /\ key \in [Calls -> Keys \cup {NoCall}]
  /\ line \in [Keys -> Seq(Calls)]

QueueInit ==
  /\ tail = [k \in Keys |-> NoCall]
  /\ after = [c \in Calls |-> NoCall]
  /\ place = [c \in Calls |-> "new"]
  /\ key = [c \in Calls |-> NoCall]
  /\ line = [k \in Keys |-> <<>>]

-----------------------------------------------------------------------------
Enter(c, k) ==
  /\ place[c] = "new"
  /\ after' = [after EXCEPT ![c] = tail[k]]
  /\ tail' = [tail EXCEPT ![k] = c]
  /\ place' = [place EXCEPT ![c] = "waiting"]
  /\ key' = [key EXCEPT ![c] = k]
  /\ line' = [line EXCEPT ![k] = Append(@, c)]

\* The promise waited for is resolved.
Turn(c) == after[c] # NoCall => place[after[c]] = "left"

\* Variant: the promise is not waited for.
StartAtOnce(c) ==
  /\ place[c] = "waiting"
  /\ place' = [place EXCEPT ![c] = "running"]
  /\ UNCHANGED <<tail, after, key, line>>

Start(c) ==
  /\ place[c] = "waiting" /\ Turn(c)
  /\ place' = [place EXCEPT ![c] = "running"]
  /\ UNCHANGED <<tail, after, key, line>>

\* Variant: the entry is removed without a look at whose it is.
LeaveRemoves(c) ==
  /\ place[c] = "running"
  /\ place' = [place EXCEPT ![c] = "left"]
  /\ tail' = [tail EXCEPT ![key[c]] = NoCall]
  /\ line' = [line EXCEPT ![key[c]] = Tail(@)]
  /\ UNCHANGED <<after, key>>

\* The finally, whether the function returned or threw.
Leave(c) ==
  /\ place[c] = "running"
  /\ place' = [place EXCEPT ![c] = "left"]
  /\ tail' = [tail EXCEPT ![key[c]] = IF @ = c THEN NoCall ELSE @]
  /\ line' = [line EXCEPT ![key[c]] = Tail(@)]
  /\ UNCHANGED <<after, key>>

QueueNext ==
  \E c \in Calls : (\E k \in Keys : Enter(c, k)) \/ Start(c) \/ Leave(c)

QueueSpec == QueueInit /\ [][QueueNext]_queueVars

-----------------------------------------------------------------------------
(* Properties *)

\* Calls of one key run one at a time and in the order they came, also when one
\* comes just as the last one leaves.
InOrder ==
  \A c \in Calls :
    place[c] = "running" => line[key[c]] # <<>> /\ Head(line[key[c]]) = c

\* The map has an entry for a key exactly while calls of it are there: nothing is
\* kept for hosts no longer called, and no call comes in unnoticed.
EntryWhileBusy == \A k \in Keys : tail[k] = NoCall <=> line[k] = <<>>
=============================================================================

------------------------- MODULE RefreshTokenProofs -------------------------
(***************************************************************************)
(* Sessions are chains of tokens, good tokens stay good and a second use   *)
(* is noticed: for any tokens and requests, crashes and faults.            *)
(***************************************************************************)
EXTENDS RefreshToken, TLAPS

USE EarlyAssumption, NamesAssumption, TokenBoundsAssumption

\* From the new token's file to the answer.
Making == {"loginFill", "fill", "commitOpen", "commitFill", "unlink"}
\* A request that was given a token.
Asking == Holding \cup {"rename", "readConsumed", "list", "sweep", "logout"}

Active(t)    == <<"active", t>>
Consuming(r) == <<"consuming", r>>
Consumed(t)  == <<"consumed", t>>

\* What a request has at hand.
CallInv ==
  \A r \in Requests :
    /\ rpc[r] \in Asking => tok[r] \in given
    /\ Present(Consuming(r)) => tok[r] \in given
    /\ rpc[r] \in {"new", "loginOpen", "loginFill"} => ~Present(Consuming(r))
    /\ rpc[r] \in Making => new[r] \in Tokens \ given /\ family[new[r]] # NoToken
    /\ \A q \in Requests : rpc[q] \in Making /\ rpc[r] \in Making /\ new[q] = new[r] => q = r

\* A token that is not made yet has no file and no client.
MadeInv ==
  \A t \in Tokens : family[t] = NoToken =>
    t \notin given /\ ~Present(Active(t)) /\ succ[t] = NoToken

ShapeInv == TypeOK /\ CallInv /\ MadeInv

LEMMA FileNames ==
  /\ \A t \in Tokens : Active(t) \in Files /\ Active(t) \in RootFiles /\ Consumed(t) \in Files
  /\ \A r \in Requests : Consuming(r) \in Files /\ Consuming(r) \in RootFiles
  /\ \A t, u \in Tokens : (Active(t) = Active(u) <=> t = u) /\ (Consumed(t) = Consumed(u) <=> t = u)
  /\ \A q, r \in Requests : Consuming(q) = Consuming(r) <=> q = r
  /\ \A t, u \in Tokens : Active(t) # Consumed(u)
  /\ \A t \in Tokens, r \in Requests : Active(t) # Consuming(r) /\ Consumed(t) # Consuming(r)
  /\ \A f \in Files : \/ \E t \in Tokens : f = Active(t) \/ f = Consumed(t)
                      \/ \E r \in Requests : f = Consuming(r)
  /\ \A t \in Tokens : Consumed(t) \notin RootFiles
  /\ NoFile \notin Files /\ ConsumedFiles \subseteq Files /\ RootFiles \subseteq Files
  BY DEF Active, Consuming, Consumed, Files, RootFiles, ConsumedFiles, NoFile

-----------------------------------------------------------------------------
(* What the actions do to the files *)

Changed(f, c) ==
  /\ disk' \in [Files -> Contents] /\ disk'[f] = c
  /\ \A g \in Files : g # f => disk'[g] = disk[g]

Moved(f, h) ==
  /\ disk' \in [Files -> Contents] /\ disk'[f] = "none" /\ disk'[h] = disk[f]
  /\ \A g \in Files : g \notin {f, h} => disk'[g] = disk[g]

IfEmpty(f) == IF disk[f] = "empty" THEN "whole" ELSE disk[f]

LEMMA ChangedBy ==
  ASSUME disk \in [Files -> Contents], NEW f \in Files, NEW c \in Contents,
         disk' = [disk EXCEPT ![f] = c]
  PROVE  Changed(f, c)
  BY DEF Changed

LEMMA FilledBy ==
  ASSUME disk \in [Files -> Contents], NEW f \in Files, disk' = Filled(f)
  PROVE  Changed(f, IfEmpty(f))
  BY DEF Changed, Filled, IfEmpty, Contents

LEMMA MovedBy ==
  ASSUME disk \in [Files -> Contents], NEW f \in Files, NEW h \in Files, f # h,
         \/ disk' = [disk EXCEPT ![f] = "none", ![h] = disk[f]]
         \/ disk' = [disk EXCEPT ![h] = disk[f], ![f] = "none"]
  PROVE  Moved(f, h)
  BY DEF Moved, Contents

LEMMA FilesOfNew ==
  ASSUME ShapeInv, NEW r \in Requests
  PROVE  LoginOpen(r) \/ Open(r) => new'[r] \in Tokens /\ Changed(Active(new'[r]), "empty")
<1> SUFFICES ASSUME NEW u \in Tokens, NEW fam, OpenNew(r, u, fam)
             PROVE  new'[r] = u /\ Changed(Active(u), "empty")
  BY DEF LoginOpen, Open
<1>1. new'[r] = u  BY DEF OpenNew, ShapeInv, TypeOK
<1>2. disk' = [disk EXCEPT ![Active(u)] = "empty"]  BY DEF OpenNew, Opened, Active
<1> QED  BY <1>1, <1>2, ChangedBy, FileNames DEF ShapeInv, TypeOK, Contents

LEMMA FilesOfRequest ==
  ASSUME ShapeInv, NEW r \in Requests
  PROVE  /\ LoginFill(r) \/ Fill(r) => Changed(Active(new[r]), IfEmpty(Active(new[r])))
         /\ Logout(r) => Changed(Active(tok[r]), "none")
         /\ Rename(r) =>
              IF Present(Active(tok[r])) THEN Moved(Active(tok[r]), Consuming(r))
                                         ELSE UNCHANGED disk
         /\ ReadTaken(r) =>
              IF disk[Consuming(r)] = "whole" /\ tok[r] \notin expired
                THEN UNCHANGED disk ELSE Changed(Consuming(r), "none")
         /\ ReadTakenFails(r) => Changed(Consuming(r), "none")
         /\ CommitOpen(r) => Changed(Consumed(tok[r]), "empty")
         /\ CommitFill(r) => Changed(Consumed(tok[r]), IfEmpty(Consumed(tok[r])))
         /\ Unlink(r) => Changed(Consuming(r), "none")
         /\ Rollback(r) =>
              IF Present(Consuming(r)) THEN Moved(Consuming(r), Active(tok[r]))
                                       ELSE UNCHANGED disk
<1> USE FileNames DEF Asking, Holding, Contents
<1>0. disk \in [Files -> Contents] /\ given \subseteq Tokens  BY DEF ShapeInv, TypeOK
<1>1. ASSUME LoginFill(r) \/ Fill(r) PROVE Changed(Active(new[r]), IfEmpty(Active(new[r])))
  <2>1. disk' = Filled(Active(new[r]))  BY <1>1 DEF LoginFill, Fill, Active
  <2>2. new[r] \in Tokens  BY <1>1 DEF LoginFill, Fill, ShapeInv, CallInv, Making
  <2> QED  BY <1>0, <2>1, <2>2, FilledBy
<1>2. ASSUME rpc[r] \in Asking PROVE tok[r] \in Tokens
  BY <1>0, <1>2 DEF ShapeInv, CallInv
<1>3. ASSUME Logout(r) PROVE Changed(Active(tok[r]), "none")
  <2>1. disk' = [disk EXCEPT ![Active(tok[r])] = "none"]  BY <1>3 DEF Logout, Active
  <2> QED  BY <1>0, <1>2, <1>3, <2>1, ChangedBy DEF Logout
<1>4. ASSUME Rename(r)
      PROVE  IF Present(Active(tok[r])) THEN Moved(Active(tok[r]), Consuming(r))
                                        ELSE UNCHANGED disk
  <2>1. CASE Present(Active(tok[r]))
    <3>1. disk' = [disk EXCEPT ![Active(tok[r])] = "none", ![Consuming(r)] = disk[Active(tok[r])]]
      BY <1>4, <2>1 DEF Rename, Active, Consuming
    <3>2. tok[r] \in Tokens  BY <1>2, <1>4 DEF Rename
    <3>3. Moved(Active(tok[r]), Consuming(r))  BY ONLY <1>0, <3>1, <3>2, MovedBy, FileNames
    <3> QED  BY <2>1, <3>3
  <2>2. CASE ~Present(Active(tok[r]))
    <3>1. ~Present(<<"active", tok[r]>>)  BY <2>2 DEF Active
    <3>2. UNCHANGED disk  BY <1>4, <3>1 DEF Rename
    <3> QED  BY <2>2, <3>2
  <2> QED  BY <2>1, <2>2
<1>5. ASSUME ReadTaken(r)
      PROVE  IF disk[Consuming(r)] = "whole" /\ tok[r] \notin expired
               THEN UNCHANGED disk ELSE Changed(Consuming(r), "none")
  <2>1. CASE disk[Consuming(r)] = "whole" /\ tok[r] \notin expired
    BY <1>5, <2>1 DEF ReadTaken, Consuming
  <2>2. CASE ~(disk[Consuming(r)] = "whole" /\ tok[r] \notin expired)
    <3>1. disk' = [disk EXCEPT ![Consuming(r)] = "none"]  BY <1>5, <2>2 DEF ReadTaken, Consuming
    <3> QED  BY <1>0, <2>2, <3>1, ChangedBy
  <2> QED  BY <2>1, <2>2
<1>6. ASSUME CommitOpen(r) PROVE Changed(Consumed(tok[r]), "empty")
  <2>1. disk' = [disk EXCEPT ![Consumed(tok[r])] = "empty"]  BY <1>6 DEF CommitOpen, Opened, Consumed
  <2> QED  BY <1>0, <1>2, <1>6, <2>1, ChangedBy DEF CommitOpen
<1>7. ASSUME CommitFill(r) PROVE Changed(Consumed(tok[r]), IfEmpty(Consumed(tok[r])))
  <2>1. disk' = Filled(Consumed(tok[r]))  BY <1>7 DEF CommitFill, Consumed
  <2> QED  BY <1>0, <1>2, <1>7, <2>1, FilledBy DEF CommitFill
<1>8. ASSUME Unlink(r) PROVE Changed(Consuming(r), "none")
  <2>1. disk' = [disk EXCEPT ![Consuming(r)] = "none"]  BY <1>8 DEF Unlink, Consuming
  <2> QED  BY <1>0, <2>1, ChangedBy
<1>9. ASSUME Rollback(r)
      PROVE  IF Present(Consuming(r)) THEN Moved(Consuming(r), Active(tok[r]))
                                      ELSE UNCHANGED disk
  <2>1. CASE Present(Consuming(r))
    <3>1. disk' = [disk EXCEPT ![Active(tok[r])] = disk[Consuming(r)], ![Consuming(r)] = "none"]
      BY <1>9, <2>1 DEF Rollback, Active, Consuming
    <3> QED  BY <1>0, <1>2, <1>9, <2>1, <3>1, MovedBy DEF Rollback
  <2> QED  BY <1>9, <2>1 DEF Rollback, Consuming
<1>10. ASSUME ReadTakenFails(r) PROVE Changed(Consuming(r), "none")
  <2>1. disk' = [disk EXCEPT ![Consuming(r)] = "none"]  BY <1>10 DEF ReadTakenFails, Consuming
  <2> QED  BY <1>0, <2>1, ChangedBy
<1> QED  BY <1>1, <1>3, <1>4, <1>5, <1>6, <1>7, <1>8, <1>9, <1>10

LEMMA FilesOfSweep ==
  ASSUME ShapeInv, NEW s \in Sweepers
  PROVE  SweepUnlink(s) => Changed(victim[s], "none")
  BY ChangedBy DEF SweepUnlink, ShapeInv, TypeOK, Contents

-----------------------------------------------------------------------------
(* What becomes of each kind of file in a request's step *)

ActiveAfter(r, t) ==
  \/ disk'[Active(t)] = disk[Active(t)]
  \/ disk[Active(t)] = "empty" /\ disk'[Active(t)] = "whole"
  \/ disk'[Active(t)] = "empty" /\ (LoginOpen(r) \/ Open(r)) /\ t = new'[r]
  \/ disk'[Active(t)] = "none" /\ t = tok[r] /\ (Logout(r) \/ Rename(r))
  \/ disk'[Active(t)] = disk[Consuming(r)] /\ t = tok[r] /\ Rollback(r)

ConsumingAfter(r, q) ==
  \/ disk'[Consuming(q)] = disk[Consuming(q)]
  \/ q = r /\ Rename(r) /\ disk'[Consuming(r)] = disk[Active(tok[r])]
  \/ /\ q = r /\ (ReadTaken(r) \/ ReadTakenFails(r) \/ Unlink(r) \/ Rollback(r))
     /\ disk'[Consuming(q)] = "none" /\ rpc'[r] = "ended"

ConsumedAfter(r, t) ==
  \/ disk'[Consumed(t)] = disk[Consumed(t)]
  \/ t = tok[r] /\ CommitOpen(r) /\ disk'[Consumed(t)] = "empty"
  \/ t = tok[r] /\ CommitFill(r) /\ disk'[Consumed(t)] = IfEmpty(Consumed(t))

Others(r) ==
  ~(LoginOpen(r) \/ Open(r) \/ LoginFill(r) \/ Fill(r) \/ Logout(r) \/ Rename(r)
    \/ ReadTaken(r) \/ ReadTakenFails(r) \/ CommitOpen(r) \/ CommitFill(r) \/ Unlink(r)
    \/ Rollback(r))

LEMMA OthersKeepFiles ==
  ASSUME NEW r \in Requests, RequestStep(r), Others(r)
  PROVE  UNCHANGED disk
  BY Zenon DEF Others, RequestStep, Login, RequestFails, LogoutCall, RefreshCall, CallWith,
     ReadConsumed, UnlinkFails, RefreshFails, RollbackFails, RevokeList, RevokeDone, fileVars

LEMMA AskedFor ==
  ASSUME ShapeInv, NEW r \in Requests, rpc[r] \in Asking
  PROVE  tok[r] \in Tokens /\ tok[r] \in given /\ family[tok[r]] \in Tokens
  BY DEF ShapeInv, CallInv, TypeOK, MadeInv

LEMMA FilesAfter ==
  ASSUME ShapeInv, NEW r \in Requests, RequestStep(r)
  PROVE  /\ disk' \in [Files -> Contents]
         /\ \A t \in Tokens : ActiveAfter(r, t) /\ ConsumedAfter(r, t)
         /\ \A q \in Requests : ConsumingAfter(r, q)
<1> DEFINE Goal == /\ disk' \in [Files -> Contents]
                   /\ \A t \in Tokens : ActiveAfter(r, t) /\ ConsumedAfter(r, t)
                   /\ \A q \in Requests : ConsumingAfter(r, q)
<1> USE FileNames DEF Changed, Moved, IfEmpty, ActiveAfter, ConsumedAfter, ConsumingAfter
<1>0. rpc \in [Requests -> Pc]  BY DEF ShapeInv, TypeOK
<1>1. ASSUME UNCHANGED disk PROVE Goal
  BY <1>1 DEF ShapeInv, TypeOK
<1>2. CASE Others(r)
  BY <1>1, <1>2, OthersKeepFiles
<1>3. CASE LoginOpen(r) \/ Open(r)
  <2>1. new'[r] \in Tokens /\ Changed(Active(new'[r]), "empty")  BY <1>3, FilesOfNew
  <2> QED  BY <1>3, <2>1
<1>4. CASE LoginFill(r) \/ Fill(r)
  <2>1. new[r] \in Tokens  BY <1>4 DEF LoginFill, Fill, ShapeInv, CallInv, Making
  <2>2. Changed(Active(new[r]), IfEmpty(Active(new[r])))  BY <1>4, FilesOfRequest
  <2> QED  BY <2>1, <2>2
<1>5. CASE Logout(r)
  <2>1. tok[r] \in Tokens  BY <1>5, AskedFor DEF Logout, Asking
  <2>2. Changed(Active(tok[r]), "none")  BY <1>5, FilesOfRequest
  <2> QED  BY <1>5, <2>1, <2>2
<1>6. CASE Rename(r)
  <2>1. tok[r] \in Tokens  BY <1>6, AskedFor DEF Rename, Asking
  <2>2. UNCHANGED disk \/ Moved(Active(tok[r]), Consuming(r))  BY <1>6, FilesOfRequest
  <2> QED  BY <1>1, <1>6, <2>1, <2>2
<1>7. CASE ReadTaken(r)
  <2>1. UNCHANGED disk \/ (Changed(Consuming(r), "none") /\ rpc'[r] = "ended")
    <3>1. CASE disk[Consuming(r)] = "whole" /\ tok[r] \notin expired
      BY <1>7, <3>1, FilesOfRequest
    <3>2. CASE ~(disk[Consuming(r)] = "whole" /\ tok[r] \notin expired)
      <4>1. rpc'[r] = "ended"  BY <1>0, <1>7, <3>2 DEF ReadTaken, Consuming, Goto
      <4>2. Changed(Consuming(r), "none")  BY <1>7, <3>2, FilesOfRequest
      <4> QED  BY <4>1, <4>2
    <3> QED  BY <3>1, <3>2
  <2> QED  BY <1>1, <1>7, <2>1
<1>8. CASE CommitOpen(r) \/ CommitFill(r)
  <2>1. tok[r] \in Tokens  BY <1>8, AskedFor DEF CommitOpen, CommitFill, Asking, Holding
  <2>2. \/ CommitOpen(r) /\ Changed(Consumed(tok[r]), "empty")
        \/ CommitFill(r) /\ Changed(Consumed(tok[r]), IfEmpty(Consumed(tok[r])))
    BY <1>8, FilesOfRequest
  <2> QED  BY <2>1, <2>2
<1>9. CASE Unlink(r)
  <2>1. rpc'[r] = "ended"  BY <1>0, <1>9 DEF Unlink, Goto
  <2>2. Changed(Consuming(r), "none")  BY <1>9, FilesOfRequest
  <2> QED  BY <1>9, <2>1, <2>2
<1>10. CASE Rollback(r)
  <2>1. tok[r] \in Tokens  BY <1>10, AskedFor DEF Rollback, Asking, Holding
  <2>2. rpc'[r] = "ended"  BY <1>0, <1>10 DEF Rollback, Goto
  <2>3. UNCHANGED disk \/ Moved(Consuming(r), Active(tok[r]))  BY <1>10, FilesOfRequest
  <2> QED  BY <1>1, <1>10, <2>1, <2>2, <2>3
<1>11. CASE ReadTakenFails(r)
  <2>1. rpc'[r] = "ended"  BY <1>0, <1>11 DEF ReadTakenFails, Goto
  <2>2. Changed(Consuming(r), "none")  BY <1>11, FilesOfRequest
  <2> QED  BY <1>11, <2>1, <2>2
<1> QED  BY <1>2, <1>3, <1>4, <1>5, <1>6, <1>7, <1>8, <1>9, <1>10, <1>11 DEF Others

-----------------------------------------------------------------------------
(* The shape *)

\* Active files appear only for tokens that are made, consuming ones by a rename.
LEMMA FilesAppear ==
  ASSUME ShapeInv, NEW r \in Requests, RequestStep(r)
  PROVE  /\ disk' \in [Files -> Contents]
         /\ \A t \in Tokens : Present(Active(t))' => Present(Active(t)) \/ family'[t] # NoToken
         /\ \A q \in Requests :
              Present(Consuming(q))' => Present(Consuming(q)) \/ (q = r /\ rpc[q] = "rename")
<1>1. /\ disk' \in [Files -> Contents]
      /\ \A t \in Tokens : ActiveAfter(r, t)
      /\ \A q \in Requests : ConsumingAfter(r, q)
  BY FilesAfter
<1>2. ASSUME NEW t \in Tokens, Present(Active(t))' PROVE Present(Active(t)) \/ family'[t] # NoToken
  <2>1. CASE (LoginOpen(r) \/ Open(r)) /\ t = new'[r]
    <3>1. family[tok[r]] # NoToken \/ LoginOpen(r)
      BY <2>1, AskedFor, NamesAssumption DEF Open, Asking, Holding
    <3> QED  BY <2>1, <3>1 DEF LoginOpen, Open, OpenNew, ShapeInv, TypeOK
  <2>2. CASE Rollback(r) /\ t = tok[r]
    BY <2>2, AskedFor, NamesAssumption DEF Rollback, Asking, Holding
  <2> QED  BY <1>1, <1>2, <2>1, <2>2 DEF ActiveAfter, Present
<1>3. ASSUME NEW q \in Requests, Present(Consuming(q))'
      PROVE  Present(Consuming(q)) \/ (q = r /\ rpc[q] = "rename")
  BY <1>1, <1>3 DEF ConsumingAfter, Present, Rename
<1> QED  BY <1>1, <1>2, <1>3

LEMMA ShapeOfRequest ==
  ASSUME ShapeInv, NEW r \in Requests, RequestStep(r)
  PROVE  ShapeInv'
<1>0. /\ disk' \in [Files -> Contents]
      /\ \A t \in Tokens : Present(Active(t))' => Present(Active(t)) \/ family'[t] # NoToken
      /\ \A q \in Requests :
           Present(Consuming(q))' => Present(Consuming(q)) \/ (q = r /\ rpc[q] = "rename")
  BY FilesAppear
<1> USE DEF ShapeInv, TypeOK, CallInv, MadeInv, Goto, Pc, Holding, Asking, Making,
            fileVars, requestVars, purgeVars, sweepVars, clientVars, history, bounds
<1>1. CASE Login(r)
  BY <1>0, <1>1 DEF Login
<1>2. CASE LoginOpen(r)
  BY <1>0, <1>2 DEF LoginOpen, OpenNew
<1>3. CASE LoginFill(r)
  BY <1>0, <1>3 DEF LoginFill
<1>4. CASE RequestFails(r)
  BY <1>0, <1>4 DEF RequestFails, Fault
<1>5. CASE Logout(r)
  BY <1>0, <1>5 DEF Logout
<1>6. CASE Rename(r)
  BY <1>0, <1>6 DEF Rename
<1>7. CASE ReadConsumed(r)
  BY <1>0, <1>7 DEF ReadConsumed
<1>8. CASE ReadTaken(r)
  BY <1>0, <1>8 DEF ReadTaken
<1>9. CASE Open(r)
  BY <1>0, <1>9 DEF Open, OpenNew
<1>10. CASE Fill(r)
  BY <1>0, <1>10 DEF Fill
<1>11. CASE CommitOpen(r)
  BY <1>0, <1>11 DEF CommitOpen
<1>12. CASE CommitFill(r)
  BY <1>0, <1>12 DEF CommitFill
<1>13. CASE Unlink(r)
  BY <1>0, <1>13 DEF Unlink
<1>14. CASE RefreshFails(r)
  BY <1>0, <1>14 DEF RefreshFails, Fault
<1>15. CASE Rollback(r)
  BY <1>0, <1>15 DEF Rollback
<1>16. CASE RollbackFails(r)
  BY <1>0, <1>16 DEF RollbackFails
<1>17. CASE RevokeList(r)
  <2>1. family[tok[r]] \in Tokens  BY <1>17 DEF RevokeList
  <2>2. revoked' \in [begun : SUBSET Tokens, done : SUBSET Tokens]  BY <1>17, <2>1 DEF RevokeList
  <2>3. racing' \subseteq Tokens  BY <1>17 DEF RevokeList
  <2>4. todo' \in [Sweepers -> SUBSET Files]  BY <1>17, FileNames DEF RevokeList, List
  <2> QED  BY <1>0, <1>17, <2>2, <2>3, <2>4 DEF RevokeList
<1>18. CASE RevokeDone(r)
  BY <1>0, <1>18 DEF RevokeDone, SweepOver
<1>19. ASSUME NEW t \in Tokens, NEW label \in {"logout", "rename"}, CallWith(r, t, label)
       PROVE  ShapeInv'
  BY <1>0, <1>19 DEF CallWith
<1>20. CASE ReadTakenFails(r)
  BY <1>0, <1>20 DEF ReadTakenFails, Fault
<1>21. CASE UnlinkFails(r)
  BY <1>0, <1>21 DEF UnlinkFails, Fault
<1> QED
  BY <1>1, <1>2, <1>3, <1>4, <1>5, <1>6, <1>7, <1>8, <1>9, <1>10, <1>11, <1>12, <1>13, <1>14,
     <1>15, <1>16, <1>17, <1>18, <1>19, <1>20, <1>21 DEF RequestStep, LogoutCall, RefreshCall

LEMMA ShapeOfSweep ==
  ASSUME ShapeInv, NEW s \in Sweepers, SweepStep(s)
  PROVE  ShapeInv'
<1>0. SweepUnlink(s) => Changed(victim[s], "none")  BY FilesOfSweep
<1> USE DEF ShapeInv, CallInv, MadeInv, TypeOK
<1>1. CASE SweepRead(s) \/ SweepReadFails(s)
  BY <1>1 DEF SweepRead, SweepReadFails, Fault, fileVars, requestVars, purgeVars, clientVars,
     history, bounds, Present
<1>2. CASE SweepUnlink(s)
  <2>0. victim[s] \in Files  BY <1>2 DEF SweepUnlink
  <2>1. Changed(victim[s], "none") /\ victim[s] \in Files  BY <1>0, <1>2, <2>0
  <2>2. /\ disk' \in [Files -> Contents]
        /\ \A f \in Files : Present(f)' => Present(f)
    BY <2>1 DEF Changed, Present
  <2>3. ASSUME Present(victim[s]), \A r \in Requests : victim[s] = Consuming(r) => tok[r] \in given
        PROVE  Subject(victim[s]) \in Tokens
    BY <2>1, <2>3 DEF Subject, Files, RootFiles, ConsumedFiles, Consuming
  <2>4. swept' \subseteq Tokens
    BY <1>2, <2>3 DEF SweepUnlink
  <2>5. victim' \in [Sweepers -> Files \cup {NoFile}]
    BY <1>2 DEF SweepUnlink
  <2>6. TypeOK'
    BY <1>2, <2>2, <2>4, <2>5 DEF SweepUnlink, requestVars, purgeVars, clientVars, bounds
  <2>7. CallInv' /\ MadeInv'
    BY <1>2, <2>2, FileNames DEF SweepUnlink, requestVars, clientVars
  <2> QED  BY <2>6, <2>7
<1> QED  BY <1>1, <1>2 DEF SweepStep

LEMMA ShapeOfRest ==
  ASSUME ShapeInv, PurgeStep \/ (\E t \in Tokens : Expire(t)) \/ Crash \/ UNCHANGED vars
  PROVE  ShapeInv'
<1> USE DEF ShapeInv, CallInv, MadeInv, TypeOK, fileVars, requestVars, purgeVars, sweepVars,
            clientVars, history, bounds, Present
<1>1. CASE PurgeList
  <2>1. todo' \in [Sweepers -> SUBSET Files]  BY <1>1, FileNames DEF PurgeList, List
  <2> QED  BY <1>1, <2>1 DEF PurgeList
<1>2. CASE PurgeListConsumed
  <2>1. todo' \in [Sweepers -> SUBSET Files]  BY <1>2, FileNames DEF PurgeListConsumed, List
  <2> QED  BY <1>2, <2>1 DEF PurgeListConsumed
<1>3. CASE PurgeDone
  BY <1>3 DEF PurgeDone
<1>4. ASSUME NEW t \in Tokens, Expire(t) PROVE ShapeInv'
  BY <1>4 DEF Expire
<1>5. CASE Crash
  BY <1>5 DEF Crash, Fault, Asking, Holding, Making, Pc
<1>6. CASE UNCHANGED vars
  BY <1>6 DEF vars
<1> QED  BY <1>1, <1>2, <1>3, <1>4, <1>5, <1>6 DEF PurgeStep

LEMMA ShapeAtStart == Init => ShapeInv
<1> SUFFICES ASSUME Init PROVE ShapeInv
  OBVIOUS
<1> USE EarlyAssumption DEF Init
<1>1. \A t \in Tokens : disk[Active(t)] = IF t \in Early THEN "whole" ELSE "none"
  BY FileNames DEF Active
<1>2. \A r \in Requests : disk[Consuming(r)] = "none"
  BY FileNames DEF Consuming
<1>3. TypeOK
  BY TokenBoundsAssumption DEF TypeOK, Pc, Contents
<1>4. CallInv /\ MadeInv
  BY <1>1, <1>2, NamesAssumption DEF CallInv, MadeInv, Present, Asking, Holding, Making
<1> QED  BY <1>3, <1>4 DEF ShapeInv

LEMMA ShapeKept == ASSUME ShapeInv, [Next]_vars PROVE ShapeInv'
  BY ShapeOfRequest, ShapeOfSweep, ShapeOfRest DEF Next

\* TypeOK: what the files, requests and sweeps of RefreshTokenService can be.
THEOREM TypeCorrect == Spec => []TypeOK
<1>1. ShapeInv => TypeOK  BY DEF ShapeInv
<1> QED  BY ShapeAtStart, ShapeKept, <1>1, PTL DEF Spec

-----------------------------------------------------------------------------
(* Sessions are chains *)

\* A token's file is there only while nobody holds or has exchanged the token, and
\* one refresh at most holds it.
ChainInv ==
  /\ \A t \in Tokens : Present(Active(t)) => succ[t] = NoToken /\ \A r \in Requests : ~Holds(r, t)
  /\ \A q, r \in Requests : rpc[q] \in Holding /\ rpc[r] \in Holding /\ tok[q] = tok[r] => q = r
  /\ \A r \in Requests : rpc[r] \in Holding => succ[tok[r]] = NoToken

\* A step of a request that takes no token, puts none back and exchanges none.
LEMMA ChainOfQuietStep ==
  ASSUME ShapeInv, ChainInv, UNCHANGED succ,
         \A t \in Tokens : Present(Active(t))' => Present(Active(t)),
         \A r \in Requests : rpc'[r] \in Holding => rpc[r] \in Holding /\ tok'[r] = tok[r]
  PROVE  ChainInv'
  BY DEF ChainInv, Holds

LEMMA ChainOfRequest ==
  ASSUME ShapeInv, ChainInv, NEW r \in Requests, RequestStep(r)
  PROVE  ChainInv'
<1>0. \A t \in Tokens : ActiveAfter(r, t)  BY FilesAfter
<1>1. rpc \in [Requests -> Pc] /\ tok \in [Requests -> Tokens \cup {NoToken}]
      /\ succ \in [Tokens -> Tokens \cup {NoToken}]
  BY DEF ShapeInv, TypeOK
<1>2. CASE LoginOpen(r) \/ Open(r)
  <2>1. PICK u \in Tokens : family[u] = NoToken /\ new'[r] = u
    BY <1>2 DEF LoginOpen, Open, OpenNew, ShapeInv, TypeOK
  <2>2. u \notin given /\ succ[u] = NoToken  BY <2>1 DEF ShapeInv, MadeInv
  <2>3. \A q \in Requests : ~Holds(q, u)
    BY <2>2 DEF ShapeInv, CallInv, Holds, Asking
  <2>4. UNCHANGED <<tok, succ>> /\ \A q \in Requests : rpc'[q] \in Holding => rpc[q] \in Holding
    BY <1>1, <1>2 DEF LoginOpen, Open, Goto, Holding, clientVars
  <2>5. \A t \in Tokens : Present(Active(t))' => Present(Active(t)) \/ t = u
    BY <1>0, <1>2, <2>1 DEF ActiveAfter, Present, LoginOpen, Open, Rollback, Logout, Rename
  <2> QED  BY <2>2, <2>3, <2>4, <2>5 DEF ChainInv, Holds
<1>3. CASE Rename(r)
  <2>0. /\ rpc[r] = "rename" /\ UNCHANGED <<tok, succ>>
        /\ tok[r] \in Tokens
    BY <1>3, AskedFor DEF Rename, Asking, clientVars
  <2>1. \A t \in Tokens : Present(Active(t))' => Present(Active(t))
    BY <1>0, <1>3 DEF ActiveAfter, Present, LoginOpen, Open, Rollback, Rename
  <2>2. CASE ~Present(Active(tok[r]))
    <3>1. rpc' = [rpc EXCEPT ![r] = "readConsumed"]
      BY <1>3, <2>2 DEF Rename, Goto, Active
    <3> QED  BY <1>1, <2>0, <2>1, <3>1, ChainOfQuietStep DEF Holding
  <2>3. CASE Present(Active(tok[r]))
    <3>1. rpc' = [rpc EXCEPT ![r] = "read"]
      BY <1>3, <2>3 DEF Rename, Goto, Active
    <3>2. Moved(Active(tok[r]), Consuming(r))  BY <1>3, <2>3, FilesOfRequest
    <3>3. ~Present(Active(tok[r]))'  BY <2>0, <3>2 DEF Moved, Present
    <3>4. \A q \in Requests : rpc'[q] \in Holding => q = r \/ rpc[q] \in Holding
      BY <1>1, <3>1
    <3> QED  BY <2>0, <2>1, <2>3, <3>3, <3>4 DEF ChainInv, Holds
  <2> QED  BY <2>2, <2>3
<1>4. CASE Rollback(r)
  <2>1. /\ rpc[r] = "rollback" /\ UNCHANGED <<tok, succ>> /\ tok[r] \in Tokens
        /\ rpc' = [rpc EXCEPT ![r] = "ended"]
    BY <1>4, AskedFor DEF Rollback, Goto, Asking, Holding, clientVars
  <2>2. rpc[r] \in Holding /\ rpc'[r] \notin Holding
        /\ \A q \in Requests : rpc'[q] \in Holding => q # r /\ rpc[q] \in Holding
    BY <1>1, <2>1 DEF Holding
  <2>3. \A t \in Tokens : Present(Active(t))' => Present(Active(t)) \/ t = tok[r]
    BY <1>0, <1>4 DEF ActiveAfter, Present, LoginOpen, Open, Rollback
  <2> QED  BY <2>1, <2>2, <2>3 DEF ChainInv, Holds
<1>5. CASE Unlink(r) \/ UnlinkFails(r)
  <2>1. /\ rpc[r] = "unlink" /\ UNCHANGED tok /\ tok[r] \in Tokens
        /\ rpc' = [rpc EXCEPT ![r] = "ended"]
        /\ succ' = [succ EXCEPT ![tok[r]] = new[r]]
    BY <1>5, AskedFor DEF Unlink, UnlinkFails, Goto, Asking, Holding
  <2>2. rpc[r] \in Holding
        /\ \A q \in Requests : rpc'[q] \in Holding => q # r /\ rpc[q] \in Holding
    BY <1>1, <2>1 DEF Holding
  <2>3. \A t \in Tokens : Present(Active(t))' => Present(Active(t))
    BY <1>0, <1>5 DEF ActiveAfter, Present, LoginOpen, Open, Rollback, Unlink, UnlinkFails
  <2>4. \A t \in Tokens : t # tok[r] => succ'[t] = succ[t]  BY <1>1, <2>1
  <2>5. \A t \in Tokens : Present(Active(t))' => t # tok[r]
    BY <2>2, <2>3 DEF ChainInv, Holds
  <2>6. \A q \in Requests : rpc'[q] \in Holding => tok[q] # tok[r] /\ tok[q] \in Tokens
    BY <2>2, AskedFor DEF ChainInv, Asking
  <2> QED  BY <2>1, <2>2, <2>3, <2>4, <2>5, <2>6 DEF ChainInv, Holds
<1>6. CASE ~(LoginOpen(r) \/ Open(r) \/ Rename(r) \/ Rollback(r) \/ Unlink(r) \/ UnlinkFails(r))
  <2>1. \A t \in Tokens : Present(Active(t))' => Present(Active(t))
    BY <1>0, <1>6 DEF ActiveAfter, Present
  <2>2. /\ UNCHANGED succ
        /\ \A q \in Requests : rpc'[q] \in Holding => rpc[q] \in Holding /\ tok'[q] = tok[q]
    BY <1>1, <1>6 DEF RequestStep, Login, LoginFill, RequestFails, LogoutCall, RefreshCall,
       CallWith, Logout, ReadConsumed, ReadTaken, ReadTakenFails, Fill, CommitOpen, CommitFill,
       RefreshFails, RollbackFails, RevokeList, RevokeDone, Goto, Holding, clientVars
  <2> QED  BY <2>1, <2>2, ChainOfQuietStep
<1> QED  BY <1>2, <1>3, <1>4, <1>5, <1>6

LEMMA SweepShrinks ==
  ASSUME ShapeInv, NEW s \in Sweepers, SweepStep(s)
  PROVE  \A f \in Files : Present(f)' => Present(f) /\ disk'[f] = disk[f]
<1>1. SweepUnlink(s) => Changed(victim[s], "none")  BY FilesOfSweep
<1> QED  BY <1>1 DEF SweepStep, SweepRead, SweepReadFails, fileVars, Changed, Present

LEMMA ChainKept ==
  ASSUME ShapeInv, ChainInv, [Next]_vars
  PROVE  ChainInv'
<1>1. ASSUME NEW s \in Sweepers, SweepStep(s) PROVE ChainInv'
  <2>1. UNCHANGED <<rpc, tok, succ>>
    BY <1>1 DEF SweepStep, SweepRead, SweepReadFails, SweepUnlink, requestVars, clientVars
  <2> QED  BY <1>1, <2>1, SweepShrinks, ChainOfQuietStep, FileNames
<1>2. CASE PurgeStep \/ (\E t \in Tokens : Expire(t)) \/ Crash \/ UNCHANGED vars
  <2>1. UNCHANGED <<disk, succ, tok>> /\ \A r \in Requests : rpc'[r] \in Holding => rpc'[r] = rpc[r]
    BY <1>2 DEF PurgeStep, PurgeList, PurgeListConsumed, PurgeDone, Expire, Crash, vars,
       fileVars, requestVars, clientVars, Holding, ShapeInv, TypeOK
  <2> QED  BY <2>1, ChainOfQuietStep DEF Present
<1> QED  BY <1>1, <1>2, ChainOfRequest DEF Next

LEMMA ChainAtStart == Init => ChainInv
  BY FileNames DEF Init, ChainInv, Holds, Holding, Present

\* What becomes of the tokens given and exchanged: an Unlink exchanges one, the end
\* of a login gives one, nothing else changes them.
LEMMA RotationStep ==
  ASSUME ShapeInv, ChainInv, [Next]_vars
  PROVE  [Rotation!Next]_<<given, succ>>
<1>1. ASSUME NEW r \in Requests, Unlink(r) \/ UnlinkFails(r) PROVE Rotation!Rotate(tok[r], new[r])
  BY <1>1 DEF Rotation!Rotate, Unlink, UnlinkFails, ShapeInv, CallInv, ChainInv, Asking, Holding, Making
<1>2. ASSUME NEW r \in Requests, LoginFill(r) PROVE Rotation!Login(new[r])
  BY <1>2 DEF Rotation!Login, LoginFill, ShapeInv, CallInv, Making
<1>3. ASSUME NEW r \in Requests, RequestStep(r), ~Unlink(r), ~UnlinkFails(r), ~LoginFill(r)
      PROVE  UNCHANGED <<given, succ>>
  BY <1>3, Zenon DEF RequestStep, Login, LoginOpen, RequestFails, LogoutCall, RefreshCall,
     CallWith, Logout, Rename, ReadConsumed, ReadTaken, ReadTakenFails, Open, Fill, CommitOpen,
     CommitFill, RefreshFails, Rollback, RollbackFails, RevokeList, RevokeDone, clientVars
<1>4. CASE \/ \E s \in Sweepers : SweepStep(s)
           \/ PurgeStep \/ (\E t \in Tokens : Expire(t)) \/ Crash \/ UNCHANGED vars
  BY <1>4 DEF SweepStep, SweepRead, SweepReadFails, SweepUnlink, PurgeStep, PurgeList,
     PurgeListConsumed, PurgeDone, Expire, Crash, vars, clientVars
<1>5. ASSUME NEW r \in Requests, Unlink(r) \/ UnlinkFails(r) \/ LoginFill(r)
      PROVE  new[r] \in Tokens /\ (Unlink(r) \/ UnlinkFails(r) => tok[r] \in Tokens)
  BY <1>5, AskedFor DEF Unlink, UnlinkFails, LoginFill, ShapeInv, CallInv, Making, Asking, Holding
<1> QED  BY <1>1, <1>2, <1>3, <1>4, <1>5 DEF Next, Rotation!Next

\* ImplementsRotation: whatever refreshes, faults, sweeps and crashes of
\* RefreshTokenService come together, no token is exchanged twice, and only tokens
\* a client was given are.
THEOREM SessionsAreChains == Spec => ImplementsRotation
<1>1. Init => Rotation!Init  BY DEF Init, Rotation!Init
<1> QED
  BY ShapeAtStart, ShapeKept, ChainAtStart, ChainKept, RotationStep, <1>1, PTL
  DEF Spec, ImplementsRotation, Rotation!Spec

-----------------------------------------------------------------------------
(* Good tokens stay good *)

Whole(f)   == disk[f] = "whole"
Excused(t) == t \in expired \cup loggedOut \cup swept \cup lost \/ family[t] \in revoked.begun

\* A sweep of a reuse is of a family revoked; the purge looks for tokens expired.
SweepInv ==
  /\ \A r \in Requests :
       /\ rpc[r] = "sweep" => family[tok[r]] \in revoked.begun
       /\ todo[r] # {} \/ victim[r] # NoFile => rpc[r] = "sweep"
       /\ todo[r] \subseteq RootFiles /\ victim[r] \in RootFiles \cup {NoFile}
  /\ pnow \subseteq expired

\* The file a refresh holds, and the one a request makes.
HeldInv ==
  \A r \in Requests :
    /\ rpc[r] \in Holding => Whole(Consuming(r)) \/ Excused(tok[r])
    /\ rpc[r] \in {"loginFill", "fill"} => Present(Active(new[r])) \/ Excused(new[r])
    /\ rpc[r] \in {"commitOpen", "commitFill", "unlink"} =>
         Whole(Active(new[r])) \/ Excused(new[r])

GoodInv == SweepInv /\ HeldInv /\ TokenStaysGood

\* An excuse is for ever.
LEMMA ExcusesStay ==
  ASSUME ShapeInv, [Next]_vars
  PROVE  /\ \A t \in Tokens : family[t] # NoToken => family'[t] = family[t]
         /\ expired \subseteq expired' /\ loggedOut \subseteq loggedOut'
         /\ swept \subseteq swept' /\ lost \subseteq lost'
         /\ revoked.begun \subseteq revoked'.begun /\ revoked.done \subseteq revoked'.done
         /\ \A t \in Tokens : family[t] # NoToken /\ Excused(t) => Excused(t)'
<1> USE DEF ShapeInv, TypeOK
<1>1. ASSUME NEW r \in Requests, RequestStep(r)
      PROVE  /\ \A t \in Tokens : family[t] # NoToken => family'[t] = family[t]
             /\ UNCHANGED <<expired, swept>>
             /\ loggedOut \subseteq loggedOut' /\ lost \subseteq lost'
             /\ revoked.begun \subseteq revoked'.begun /\ revoked.done \subseteq revoked'.done
  <2>1. CASE LoginOpen(r) \/ Open(r)
    BY <2>1 DEF LoginOpen, Open, OpenNew, history
  <2>2. CASE Logout(r) \/ RollbackFails(r) \/ Rename(r)
    BY <2>2 DEF Logout, RollbackFails, Rename, fileVars
  <2>3. CASE RevokeList(r)
    BY <2>3 DEF RevokeList, fileVars
  <2>4. CASE RevokeDone(r)
    BY <2>4 DEF RevokeDone, fileVars
  <2>6. CASE ReadTakenFails(r)
    BY <2>6 DEF ReadTakenFails
  <2>5. CASE ~(LoginOpen(r) \/ Open(r) \/ Logout(r) \/ RollbackFails(r) \/ Rename(r) \/ ReadTakenFails(r)
               \/ RevokeList(r) \/ RevokeDone(r))
    BY <1>1, <2>5 DEF RequestStep, Login, LoginFill, RequestFails, LogoutCall, RefreshCall,
       CallWith, ReadConsumed, ReadTaken, ReadTakenFails, Fill, CommitOpen, CommitFill, Unlink,
       UnlinkFails, RefreshFails, Rollback, fileVars, history
  <2> QED  BY <2>1, <2>2, <2>3, <2>4, <2>5, <2>6
<1>2. ASSUME NEW s \in Sweepers, SweepStep(s)
      PROVE  UNCHANGED <<family, expired, loggedOut, revoked, lost>> /\ swept \subseteq swept'
  BY <1>2 DEF SweepStep, SweepRead, SweepReadFails, SweepUnlink, fileVars, history
<1>3. ASSUME PurgeStep \/ (\E t \in Tokens : Expire(t)) \/ Crash \/ UNCHANGED vars
      PROVE  /\ UNCHANGED <<family, loggedOut, revoked, swept>>
             /\ expired \subseteq expired' /\ lost \subseteq lost'
  BY <1>3 DEF PurgeStep, PurgeList, PurgeListConsumed, PurgeDone, Expire, Crash, vars, fileVars, history
<1>4. /\ \A t \in Tokens : family[t] # NoToken => family'[t] = family[t]
      /\ expired \subseteq expired' /\ loggedOut \subseteq loggedOut'
      /\ swept \subseteq swept' /\ lost \subseteq lost'
      /\ revoked.begun \subseteq revoked'.begun /\ revoked.done \subseteq revoked'.done
  <2>1. CASE \E r \in Requests : RequestStep(r)  BY <1>1, <2>1
  <2>2. CASE \E s \in Sweepers : SweepStep(s)  BY <1>2, <2>2
  <2>3. CASE PurgeStep \/ (\E t \in Tokens : Expire(t)) \/ Crash \/ UNCHANGED vars
    BY <1>3, <2>3
  <2> QED  BY <2>1, <2>2, <2>3 DEF Next
<1> QED  BY <1>4 DEF Excused

LEMMA SweepInvKept ==
  ASSUME ShapeInv, SweepInv, [Next]_vars
  PROVE  SweepInv'
<1>0. /\ \A t \in Tokens : family[t] # NoToken => family'[t] = family[t]
      /\ expired \subseteq expired' /\ revoked.begun \subseteq revoked'.begun
  BY ExcusesStay
<1>1. /\ rpc \in [Requests -> Pc] /\ tok \in [Requests -> Tokens \cup {NoToken}]
      /\ todo \in [Sweepers -> SUBSET Files] /\ victim \in [Sweepers -> Files \cup {NoFile}]
      /\ revoked \in [begun : SUBSET Tokens, done : SUBSET Tokens]
      /\ Requests \subseteq Sweepers /\ Purge \in Sweepers /\ Purge \notin Requests
  BY NamesAssumption DEF ShapeInv, TypeOK, Sweepers
<1>2. \A r \in Requests : rpc[r] = "sweep" => family[tok[r]] # NoToken /\ tok[r] \in Tokens
  BY AskedFor, NamesAssumption DEF Asking
<1>3. ASSUME NEW r \in Requests, RequestStep(r) PROVE SweepInv'
  <2>1. CASE RevokeList(r)
    <3>1. family[tok[r]] \in revoked'.begun /\ UNCHANGED <<family, tok, victim, pnow>>
      BY <1>1, <2>1 DEF RevokeList, fileVars, purgeVars
    <3>2. /\ rpc' = [rpc EXCEPT ![r] = "sweep"]
          /\ todo' = [todo EXCEPT ![r] = {f \in RootFiles : Present(f)}]
      BY <2>1 DEF RevokeList, List, Goto
    <3> QED  BY <1>0, <1>1, <3>1, <3>2 DEF SweepInv
  <2>2. CASE ~RevokeList(r)
    <3>1. UNCHANGED <<todo, victim, pnow>>
          /\ \A q \in Requests :
               rpc'[q] = "sweep" <=> rpc[q] = "sweep" /\ ~(RevokeDone(r) /\ q = r)
      BY <1>1, <1>3, <2>2 DEF RequestStep, Login, LoginOpen, LoginFill, RequestFails, LogoutCall,
         RefreshCall, CallWith, Logout, Rename, ReadConsumed, ReadTaken, ReadTakenFails, Open,
         Fill, CommitOpen, CommitFill, Unlink, UnlinkFails, RefreshFails, Rollback, RollbackFails,
         RevokeDone, Goto, sweepVars, purgeVars
    <3>2. \A q \in Requests : rpc'[q] = "sweep" => tok'[q] = tok[q]
      BY <1>1, <1>3, <2>2, <3>1 DEF RequestStep, Login, LoginOpen, LoginFill, RequestFails,
         LogoutCall, RefreshCall, CallWith, Logout, Rename, ReadConsumed, ReadTaken,
         ReadTakenFails, Open, Fill, CommitOpen, CommitFill, Unlink, UnlinkFails, RefreshFails,
         Rollback, RollbackFails, RevokeDone
    <3>3. RevokeDone(r) => todo[r] = {} /\ victim[r] = NoFile  BY DEF RevokeDone, SweepOver
    <3> QED  BY <1>0, <1>1, <1>2, <3>1, <3>2, <3>3 DEF SweepInv
  <2> QED  BY <2>1, <2>2
<1>4. ASSUME NEW s \in Sweepers, SweepStep(s) PROVE SweepInv'
  <2>1. UNCHANGED <<rpc, tok, pnow>>
    BY <1>4 DEF SweepStep, SweepRead, SweepReadFails, SweepUnlink, requestVars, purgeVars
  <2>2. \A q \in Requests :
          /\ todo'[q] # {} \/ victim'[q] # NoFile => todo[q] # {} \/ victim[q] # NoFile
          /\ todo'[q] \subseteq todo[q] /\ victim'[q] \in todo[q] \cup {victim[q], NoFile}
    BY <1>1, <1>4 DEF SweepStep, SweepRead, SweepReadFails, SweepUnlink
  <2> QED  BY <1>0, <1>2, <2>1, <2>2 DEF SweepInv
<1>5. CASE PurgeStep \/ (\E t \in Tokens : Expire(t)) \/ UNCHANGED vars
  <2>1. /\ UNCHANGED <<rpc, tok, victim>> /\ pnow' \in {pnow, expired, {}}
        /\ \A q \in Requests : todo'[q] = todo[q]
    BY <1>1, <1>5 DEF PurgeStep, PurgeList, PurgeListConsumed, PurgeDone, Expire, List, vars,
       requestVars, purgeVars, sweepVars
  <2> QED  BY <1>0, <1>2, <2>1 DEF SweepInv
<1>6. CASE Crash
  BY <1>0, <1>1, <1>6, FileNames DEF Crash, SweepInv
<1> QED  BY <1>3, <1>4, <1>5, <1>6 DEF Next

\* A file that a sweep removes excuses its token.
LEMMA SweptIsExcused ==
  ASSUME ShapeInv, SweepInv, NEW s \in Sweepers, SweepUnlink(s), Present(victim[s]),
         NEW t, t = Subject(victim[s])
  PROVE  /\ Excused(t)'
         /\ s \in Requests \/ t \in expired' \cup swept'
<1>3. UNCHANGED <<family, tok, expired, revoked>>
      /\ swept' = swept \cup
           {u \in {t} : /\ Present(victim[s])
                       /\ IF s = Purge THEN u \notin pnow ELSE family[u] # family[tok[s]]}
  BY DEF SweepUnlink, requestVars
<1>5. CASE s = Purge
  <2>1. t \in pnow \/ t \in swept'  BY <1>3, <1>5
  <2>2. t \in expired' \cup swept'  BY <1>3, <2>1 DEF SweepInv
  <2> QED  BY <2>2 DEF Excused
<1>6. CASE s # Purge
  <2>1. s \in Requests /\ rpc[s] = "sweep"  BY <1>6 DEF Sweepers, SweepInv, SweepUnlink
  <2>2. family[tok[s]] \in revoked.begun  BY <2>1 DEF SweepInv
  <2>3. t \in swept' \/ family'[t] \in revoked'.begun  BY <1>3, <1>6, <2>2
  <2> QED  BY <2>1, <2>3 DEF Excused
<1> QED  BY <1>5, <1>6

LEMMA GoodAfterSweep ==
  ASSUME ShapeInv, GoodInv, NEW s \in Sweepers, SweepStep(s)
  PROVE  HeldInv' /\ TokenStaysGood'
<1>0. /\ UNCHANGED <<rpc, tok, new, given, succ, family>>
      /\ \A t \in Tokens : family[t] # NoToken /\ Excused(t) => Excused(t)'
  <2>1. [Next]_vars  BY DEF Next
  <2> QED  BY <2>1, ExcusesStay DEF SweepStep, SweepRead, SweepReadFails, SweepUnlink,
     requestVars, clientVars, fileVars
<1>1. ASSUME NEW f \in Files, NEW t, t = Subject(f)
      PROVE  disk'[f] = disk[f] \/ Excused(t)'
  <2>1. CASE SweepRead(s) \/ SweepReadFails(s)  BY <2>1 DEF SweepRead, SweepReadFails, fileVars
  <2>2. CASE SweepUnlink(s)
    <3>1. Changed(victim[s], "none")  BY <2>2, FilesOfSweep
    <3>2. CASE f # victim[s]  BY <3>1, <3>2 DEF Changed
    <3>3. CASE f = victim[s] /\ Present(victim[s])
      BY <1>1, <2>2, <3>3, SweptIsExcused DEF GoodInv
    <3>4. CASE f = victim[s] /\ ~Present(victim[s])
      BY <3>1, <3>4 DEF Changed, Present
    <3> QED  BY <3>2, <3>3, <3>4
  <2> QED  BY <2>1, <2>2 DEF SweepStep
<1>2. /\ \A t \in Tokens : disk'[Active(t)] = disk[Active(t)] \/ Excused(t)'
      /\ \A r \in Requests : disk'[Consuming(r)] = disk[Consuming(r)] \/ Excused(tok[r])'
  <2>1. ASSUME NEW t \in Tokens PROVE disk'[Active(t)] = disk[Active(t)] \/ Excused(t)'
    <3>1. t = Subject(Active(t))  BY DEF Subject, Active
    <3> QED  BY <1>1, <3>1, FileNames
  <2>2. ASSUME NEW r \in Requests
        PROVE  disk'[Consuming(r)] = disk[Consuming(r)] \/ Excused(tok[r])'
    <3>1. tok[r] = Subject(Consuming(r))  BY DEF Subject, Consuming
    <3>2. ASSUME NEW t, t = tok[r] PROVE disk'[Consuming(r)] = disk[Consuming(r)] \/ Excused(t)'
      BY <1>1, <3>1, <3>2, FileNames
    <3> QED  BY <1>0, <3>2 DEF Excused
  <2> QED  BY <2>1, <2>2
<1>3. \A r \in Requests :
        /\ rpc[r] \in Holding => tok[r] \in Tokens /\ family[tok[r]] # NoToken
        /\ rpc[r] \in Making => new[r] \in Tokens /\ family[new[r]] # NoToken
  BY AskedFor, NamesAssumption DEF Asking, ShapeInv, CallInv
<1>4. HeldInv'
  BY <1>0, <1>2, <1>3 DEF GoodInv, HeldInv, Whole, Present, Making, Holding
<1>5. TokenStaysGood'
  BY <1>0, <1>2 DEF GoodInv, TokenStaysGood, Holds, Excused, Active, ShapeInv, TypeOK, MadeInv
<1> QED  BY <1>4, <1>5

\* What a step does to the request that takes it, and to no other.
LEMMA OneAtATime ==
  ASSUME ShapeInv, NEW r \in Requests, RequestStep(r), NEW q \in Requests, q # r
  PROVE  rpc'[q] = rpc[q] /\ tok'[q] = tok[q] /\ new'[q] = new[q]
  BY DEF ShapeInv, TypeOK, RequestStep, Login, LoginOpen, LoginFill, RequestFails, LogoutCall,
     RefreshCall, CallWith, Logout, Rename, ReadConsumed, ReadTaken, ReadTakenFails, Open,
     OpenNew, Fill, CommitOpen, CommitFill, Unlink, UnlinkFails, RefreshFails, Rollback,
     RollbackFails, RevokeList, RevokeDone, Goto

\* A refresh goes on holding its token, but for its last steps.
LEMMA HoldsOn ==
  ASSUME ShapeInv, NEW r \in Requests, RequestStep(r), rpc[r] \in Holding
  PROVE  \/ rpc'[r] \in Holding /\ tok'[r] = tok[r]
         \/ ReadTaken(r) /\ (disk[Consuming(r)] # "whole" \/ tok[r] \in expired)
         \/ ReadTakenFails(r) \/ Unlink(r) \/ UnlinkFails(r) \/ Rollback(r) \/ RollbackFails(r)
  BY DEF ShapeInv, TypeOK, RequestStep, Login, LoginOpen, LoginFill, RequestFails, LogoutCall,
     RefreshCall, CallWith, Logout, Rename, ReadConsumed, ReadTaken, ReadTakenFails, Open, Fill,
     CommitOpen, CommitFill, RefreshFails, RevokeList, RevokeDone, Goto, Holding, Consuming

LEMMA HeldAfterRequest ==
  ASSUME ShapeInv, ChainInv, GoodInv, NEW r \in Requests, RequestStep(r)
  PROVE  HeldInv'
<1>0. /\ \A t \in Tokens : family[t] # NoToken /\ Excused(t) => Excused(t)'
      /\ \A t \in Tokens : ActiveAfter(r, t)
      /\ \A q \in Requests : ConsumingAfter(r, q)
  <2>1. [Next]_vars  BY DEF Next
  <2> QED  BY <2>1, ExcusesStay, FilesAfter
<1>1. \A q \in Requests :
        /\ rpc[q] \in Asking => tok[q] \in Tokens /\ tok[q] \in given /\ family[tok[q]] # NoToken
        /\ rpc[q] \in Making => new[q] \in Tokens /\ new[q] \notin given /\ family[new[q]] # NoToken
  BY AskedFor, NamesAssumption DEF ShapeInv, CallInv
<1>2. /\ rpc \in [Requests -> Pc] /\ tok \in [Requests -> Tokens \cup {NoToken}]
      /\ new \in [Requests -> Tokens \cup {NoToken}]
  BY DEF ShapeInv, TypeOK
<1>3. ASSUME NEW q \in Requests, rpc'[q] \in Holding
      PROVE  disk'[Consuming(q)] = "whole" \/ Excused(tok[q])'
  <2>1. CASE q # r
    BY <1>0, <1>1, <1>3, <2>1, OneAtATime
    DEF ConsumingAfter, GoodInv, HeldInv, Asking, Excused, Whole
  <2>2. CASE q = r /\ rpc[r] \in Holding
    <3>1. tok'[r] = tok[r] /\ disk'[Consuming(r)] = disk[Consuming(r)]
      <4>1. ~Rename(r)  BY <2>2 DEF Rename, Holding
      <4>2. rpc'[r] # "ended"  BY <1>3, <2>2 DEF Holding
      <4>3. /\ ~ReadTakenFails(r) /\ ~Unlink(r) /\ ~UnlinkFails(r)
            /\ ~Rollback(r) /\ ~RollbackFails(r)
        BY <1>2, <4>2 DEF ReadTakenFails, Unlink, UnlinkFails, Rollback, RollbackFails, Goto
      <4>4. ReadTaken(r) => ~(disk[Consuming(r)] # "whole" \/ tok[r] \in expired)
        BY <1>2, <4>2 DEF ReadTaken, Goto, Consuming
      <4> QED  BY <1>0, <2>2, <4>1, <4>2, <4>3, <4>4, HoldsOn DEF ConsumingAfter
    <3> QED  BY <1>0, <1>1, <2>2, <3>1 DEF GoodInv, HeldInv, Asking, Excused, Whole
  <2>3. CASE q = r /\ rpc[r] \notin Holding
    <3>1. Rename(r)
      BY <1>2, <1>3, <2>3 DEF RequestStep, Login, LoginOpen, LoginFill, RequestFails, LogoutCall,
         RefreshCall, CallWith, Logout, ReadConsumed, ReadTaken, ReadTakenFails, Open, Fill,
         CommitOpen, CommitFill, Unlink, UnlinkFails, RefreshFails, Rollback, RollbackFails,
         RevokeList, RevokeDone, Goto, Holding
    <3>2. Present(Active(tok[r]))
      BY <1>2, <1>3, <2>3, <3>1 DEF Rename, Goto, Holding, Active
    <3>3. disk'[Consuming(r)] = disk[Active(tok[r])]
      BY <3>1, <3>2, FilesOfRequest DEF Moved
    <3>4. rpc[r] \in Asking /\ tok'[r] = tok[r]  BY <3>1 DEF Rename, Asking
    <3>5. Whole(Active(tok[r])) \/ Excused(tok[r])
      BY <1>1, <3>2, <3>4 DEF GoodInv, TokenStaysGood, ChainInv, Excused, Whole, Active
    <3> QED  BY <1>0, <1>1, <2>3, <3>3, <3>4, <3>5 DEF Excused, Whole
  <2> QED  BY <2>1, <2>2, <2>3
<1>4. ASSUME NEW q \in Requests, q # r, rpc[q] \in Making
      PROVE  \/ disk'[Active(new[q])] = disk[Active(new[q])]
             \/ disk[Active(new[q])] = "empty" /\ disk'[Active(new[q])] = "whole"
  <2>1. ASSUME LoginOpen(r) \/ Open(r) PROVE new[q] # new'[r]
    <3>1. PICK u \in Tokens : family[u] = NoToken /\ new'[r] = u
      BY <1>2, <2>1 DEF LoginOpen, Open, OpenNew
    <3> QED  BY <1>1, <1>4, <3>1
  <2>2. ASSUME Logout(r) \/ Rename(r) \/ Rollback(r) PROVE new[q] # tok[r]
    BY <1>1, <1>4, <2>2 DEF Logout, Rename, Rollback, Asking, Holding
  <2> QED  BY <1>0, <1>1, <1>4, <2>1, <2>2 DEF ActiveAfter
<1>5. ASSUME NEW q \in Requests, rpc'[q] \in {"loginFill", "fill"}
      PROVE  disk'[Active(new'[q])] # "none" \/ Excused(new[q])'
  <2>1. CASE q # r
    <3>1. rpc'[q] = rpc[q] /\ new'[q] = new[q]  BY <2>1, OneAtATime
    <3> QED  BY <1>0, <1>1, <1>4, <1>5, <2>1, <3>1 DEF GoodInv, HeldInv, Making, Excused, Present
  <2>2. CASE q = r
    <3>1. LoginOpen(r) \/ Open(r)
      BY <1>2, <1>5, <2>2 DEF RequestStep, Login, LoginFill, RequestFails, LogoutCall,
         RefreshCall, CallWith, Logout, Rename, ReadConsumed, ReadTaken, ReadTakenFails, Fill,
         CommitOpen, CommitFill, Unlink, UnlinkFails, RefreshFails, Rollback, RollbackFails,
         RevokeList, RevokeDone, Goto
    <3> QED  BY <2>2, <3>1, FilesOfNew DEF Changed
  <2> QED  BY <2>1, <2>2
<1>6. ASSUME NEW q \in Requests, rpc'[q] \in {"commitOpen", "commitFill", "unlink"}
      PROVE  disk'[Active(new'[q])] = "whole" \/ Excused(new[q])'
  <2>1. CASE q # r
    <3>1. rpc'[q] = rpc[q] /\ new'[q] = new[q]  BY <2>1, OneAtATime
    <3> QED  BY <1>0, <1>1, <1>4, <1>6, <2>1, <3>1 DEF GoodInv, HeldInv, Making, Excused, Whole
  <2>2. CASE q = r
    <3>1. Fill(r) \/ CommitOpen(r) \/ CommitFill(r)
      BY <1>2, <1>6, <2>2 DEF RequestStep, Login, LoginOpen, LoginFill, RequestFails, LogoutCall,
         RefreshCall, CallWith, Logout, Rename, ReadConsumed, ReadTaken, ReadTakenFails, Open,
         Unlink, UnlinkFails, RefreshFails, Rollback, RollbackFails, RevokeList, RevokeDone, Goto
    <3>2. rpc[r] \in Making /\ new'[r] = new[r]
      BY <3>1 DEF Fill, CommitOpen, CommitFill, Making
    <3>3. CASE Fill(r)
      <4>1. Changed(Active(new[r]), IfEmpty(Active(new[r])))  BY <3>3, FilesOfRequest
      <4>2. Present(Active(new[r])) => disk'[Active(new[r])] = "whole"
        BY <1>1, <3>2, <4>1, FileNames DEF Changed, IfEmpty, Present, Contents, ShapeInv, TypeOK
      <4>3. Present(Active(new[r])) \/ Excused(new[r])
        BY <3>3 DEF Fill, GoodInv, HeldInv
      <4> QED  BY <1>0, <1>1, <2>2, <3>2, <4>2, <4>3 DEF Excused
    <3>4. CASE CommitOpen(r) \/ CommitFill(r)
      <4>1. Whole(Active(new[r])) \/ Excused(new[r])
        BY <3>4 DEF CommitOpen, CommitFill, GoodInv, HeldInv
      <4>2. disk'[Active(new[r])] = disk[Active(new[r])] \/ disk'[Active(new[r])] = "whole"
        BY <1>0, <1>1, <3>2, <3>4 DEF ActiveAfter, CommitOpen, CommitFill, LoginOpen, Open, Logout,
           Rename, Rollback
      <4> QED  BY <1>0, <1>1, <2>2, <3>2, <4>1, <4>2 DEF Excused, Whole
    <3> QED  BY <3>1, <3>3, <3>4
  <2> QED  BY <2>1, <2>2
<1> QED  BY <1>3, <1>5, <1>6 DEF HeldInv, Whole, Present

LEMMA GoodAfterRequest ==
  ASSUME ShapeInv, ChainInv, GoodInv, NEW r \in Requests, RequestStep(r)
  PROVE  TokenStaysGood'
<1> DEFINE Good(t) == \/ disk[Active(t)] = "whole" \/ succ[t] # NoToken
                      \/ \E q \in Requests : Holds(q, t)
                      \/ Excused(t)
<1>0. /\ \A t \in Tokens : family[t] # NoToken /\ Excused(t) => Excused(t)'
      /\ \A t \in Tokens : ActiveAfter(r, t)
  <2>1. [Next]_vars  BY DEF Next
  <2> QED  BY <2>1, ExcusesStay, FilesAfter
<1>1. /\ rpc \in [Requests -> Pc] /\ succ \in [Tokens -> Tokens \cup {NoToken}]
      /\ given \subseteq Tokens /\ \A t \in given : family[t] # NoToken
  BY DEF ShapeInv, TypeOK, MadeInv
<1>2. \A t \in given : Good(t)
  BY DEF GoodInv, TokenStaysGood, Active, Excused
<1>3. given' = given \cup {t \in {new[r]} : Unlink(r) \/ UnlinkFails(r) \/ LoginFill(r)}
  BY DEF RequestStep, Login, LoginOpen, LoginFill, RequestFails, LogoutCall, RefreshCall,
     CallWith, Logout, Rename, ReadConsumed, ReadTaken, ReadTakenFails, Open, Fill, CommitOpen,
     CommitFill, Unlink, UnlinkFails, RefreshFails, Rollback, RollbackFails, RevokeList,
     RevokeDone, clientVars
<1>4. \A t \in Tokens : succ[t] # NoToken => succ'[t] # NoToken
  <2>1. CASE Unlink(r) \/ UnlinkFails(r)
    BY <1>1, <2>1, NamesAssumption DEF Unlink, UnlinkFails, ShapeInv, CallInv, Making
  <2>2. CASE ~(Unlink(r) \/ UnlinkFails(r))
    BY <2>2 DEF RequestStep, Login, LoginOpen, LoginFill, RequestFails, LogoutCall, RefreshCall,
       CallWith, Logout, Rename, ReadConsumed, ReadTaken, ReadTakenFails, Open, Fill, CommitOpen,
       CommitFill, RefreshFails, Rollback, RollbackFails, RevokeList, RevokeDone, clientVars
  <2> QED  BY <2>1, <2>2
<1>5. ASSUME Unlink(r) \/ UnlinkFails(r) \/ LoginFill(r)
      PROVE  disk'[Active(new[r])] = "whole" \/ Excused(new[r])'
  <2>1. new[r] \in Tokens /\ new[r] \notin given /\ family[new[r]] # NoToken
    BY <1>5 DEF Unlink, UnlinkFails, LoginFill, ShapeInv, CallInv, Making
  <2>2. UNCHANGED new  BY <1>5 DEF Unlink, UnlinkFails, LoginFill
  <2>3. CASE Unlink(r) \/ UnlinkFails(r)
    <3>1. Whole(Active(new[r])) \/ Excused(new[r])  BY <2>3 DEF Unlink, UnlinkFails, GoodInv, HeldInv
    <3>2. Whole(Active(new[r])) => disk'[Active(new[r])] = "whole"
      BY <1>0, <2>1, <2>3 DEF ActiveAfter, Whole, Unlink, UnlinkFails, LoginOpen, Open, Logout,
         Rename, Rollback
    <3> QED  BY <1>0, <2>1, <2>2, <3>1, <3>2 DEF Excused
  <2>4. CASE LoginFill(r)
    <3>1. Present(Active(new[r])) \/ Excused(new[r])  BY <2>4 DEF LoginFill, GoodInv, HeldInv
    <3>2. Changed(Active(new[r]), IfEmpty(Active(new[r])))  BY <2>4, FilesOfRequest
    <3>3. Present(Active(new[r])) => disk'[Active(new[r])] = "whole"
      BY <2>1, <3>2, FileNames DEF Changed, IfEmpty, Present, Contents, ShapeInv, TypeOK
    <3> QED  BY <1>0, <2>1, <2>2, <3>1, <3>3 DEF Excused
  <2> QED  BY <1>5, <2>3, <2>4
<1>6. ASSUME NEW t \in given, disk[Active(t)] = "whole" PROVE Good(t)'
  <2>1. t \in Tokens /\ Present(Active(t))  BY <1>1, <1>6 DEF Present
  <2>2. ASSUME LoginOpen(r) \/ Open(r) PROVE t # new'[r]
    <3>1. PICK u \in Tokens : family[u] = NoToken /\ new'[r] = u
      BY <2>2 DEF LoginOpen, Open, OpenNew, ShapeInv, TypeOK
    <3> QED  BY <1>1, <3>1
  <2>3. ASSUME Rollback(r) PROVE t # tok[r]
    BY <2>1, <2>3 DEF Rollback, ChainInv, Holds, Holding
  <2>4. CASE Logout(r) /\ t = tok[r]
    BY <2>4 DEF Logout, Excused
  <2>5. CASE Rename(r) /\ t = tok[r]
    <3>1. rpc'[r] = "read" /\ tok'[r] = t
      BY <1>1, <2>1, <2>5 DEF Rename, Goto, Active
    <3> QED  BY <3>1 DEF Holds, Holding
  <2> QED  BY <1>0, <1>6, <2>1, <2>2, <2>3, <2>4, <2>5 DEF ActiveAfter
<1>7. ASSUME NEW t \in given, NEW q \in Requests, Holds(q, t) PROVE Good(t)'
  <2>1. t \in Tokens /\ family[t] # NoToken /\ rpc[q] \in Holding /\ tok[q] = t
    BY <1>1, <1>7 DEF Holds
  <2>2. Whole(Consuming(q)) \/ Excused(t)  BY <2>1 DEF GoodInv, HeldInv
  <2>3. CASE q # r
    BY <2>1, <2>3, OneAtATime DEF Holds
  <2>4. CASE q = r /\ rpc'[r] \in Holding /\ tok'[r] = tok[r]
    BY <2>1, <2>4 DEF Holds
  <2>5. CASE q = r /\ ReadTaken(r) /\ (disk[Consuming(r)] # "whole" \/ tok[r] \in expired)
    BY <1>0, <2>1, <2>2, <2>5 DEF Whole, Excused
  <2>6. CASE q = r /\ (Unlink(r) \/ UnlinkFails(r))
    BY <1>1, <2>1, <2>6, NamesAssumption DEF Unlink, UnlinkFails, ShapeInv, CallInv, Making
  <2>7. CASE q = r /\ Rollback(r)
    <3>1. CASE Whole(Consuming(r))
      <4>1. Moved(Consuming(r), Active(tok[r]))
        BY <2>7, <3>1, FilesOfRequest DEF Whole, Present
      <4> QED  BY <2>1, <2>7, <3>1, <4>1 DEF Moved, Whole
    <3> QED  BY <1>0, <2>1, <2>2, <2>7, <3>1
  <2>8. CASE q = r /\ RollbackFails(r)
    BY <2>1, <2>8 DEF RollbackFails, Excused
  <2>9. CASE q = r /\ ReadTakenFails(r)
    BY <2>1, <2>9 DEF ReadTakenFails, Excused
  <2> QED  BY <2>1, <2>3, <2>4, <2>5, <2>6, <2>7, <2>8, <2>9, HoldsOn
<1>8. ASSUME NEW t \in given' PROVE Good(t)'
  <2>1. CASE t \in given
    <3>1. CASE succ[t] # NoToken  BY <1>1, <1>4, <2>1, <3>1
    <3>2. CASE Excused(t)  BY <1>0, <1>1, <2>1, <3>2
    <3> QED  BY <1>2, <1>6, <1>7, <2>1, <3>1, <3>2
  <2>2. CASE t \notin given
    <3>1. t = new[r] /\ (Unlink(r) \/ UnlinkFails(r) \/ LoginFill(r))  BY <1>3, <1>8, <2>2
    <3>2. UNCHANGED new  BY <3>1 DEF Unlink, UnlinkFails, LoginFill
    <3> QED  BY <1>5, <3>1, <3>2 DEF Excused
  <2> QED  BY <2>1, <2>2
<1> QED  BY <1>8 DEF TokenStaysGood, Excused, Active

LEMMA GoodKept ==
  ASSUME ShapeInv, ChainInv, GoodInv, [Next]_vars
  PROVE  GoodInv'
<1>1. SweepInv'  BY SweepInvKept DEF GoodInv
<1>2. CASE PurgeStep \/ (\E t \in Tokens : Expire(t)) \/ Crash \/ UNCHANGED vars
  <2>1. /\ UNCHANGED <<disk, tok, new, given, succ>>
        /\ \/ UNCHANGED rpc
           \/ /\ \A r \in Requests : rpc'[r] \in {"new", "ended"}
              /\ \A r \in Requests : rpc[r] \in Holding => tok[r] \in lost'
    <3>1. CASE Crash
      <4>1. \A r \in Requests : rpc[r] \in Holding => tok[r] \in Tokens
        BY AskedFor DEF Asking
      <4> QED  BY <3>1, <4>1 DEF Crash, Holds, fileVars, clientVars
    <3> QED  BY <1>2, <3>1 DEF PurgeStep, PurgeList, PurgeListConsumed, PurgeDone, Expire, vars,
       fileVars, requestVars, clientVars
  <2>2. \A t \in Tokens : family[t] # NoToken /\ Excused(t) => Excused(t)'  BY ExcusesStay
  <2>3. \A r \in Requests :
          /\ rpc[r] \in Holding => tok[r] \in Tokens /\ family[tok[r]] # NoToken
          /\ rpc[r] \in Making => new[r] \in Tokens /\ family[new[r]] # NoToken
    BY AskedFor, NamesAssumption DEF Asking, ShapeInv, CallInv
  <2>4. HeldInv'
    BY <2>1, <2>2, <2>3 DEF GoodInv, HeldInv, Whole, Present, Making, Holding, Excused
  <2>5. given \subseteq Tokens /\ \A t \in given : family[t] # NoToken
    BY DEF ShapeInv, TypeOK, MadeInv
  <2>6. ASSUME NEW t \in given, \E r \in Requests : Holds(r, t)
        PROVE  Excused(t)' \/ \E r \in Requests : Holds(r, t)'
    BY <2>1, <2>6 DEF Holds, Excused
  <2>7. TokenStaysGood'
    BY <2>1, <2>2, <2>5, <2>6 DEF GoodInv, TokenStaysGood, Excused
  <2> QED  BY <1>1, <2>4, <2>7 DEF GoodInv
<1>3. CASE \E r \in Requests : RequestStep(r)
  BY <1>1, <1>3, HeldAfterRequest, GoodAfterRequest DEF GoodInv
<1>4. CASE \E s \in Sweepers : SweepStep(s)
  BY <1>1, <1>4, GoodAfterSweep DEF GoodInv
<1> QED  BY <1>2, <1>3, <1>4 DEF Next

LEMMA GoodAtStart == Init => GoodInv
<1> SUFFICES ASSUME Init PROVE GoodInv
  OBVIOUS
<1>1. SweepInv  BY DEF Init, SweepInv, Sweepers
<1>2. HeldInv  BY DEF Init, HeldInv, Holding
<1>3. \A t \in Early : disk[<<"active", t>>] = "whole"
  BY EarlyAssumption DEF Init, Files, RootFiles
<1>4. TokenStaysGood  BY <1>3 DEF Init, TokenStaysGood
<1> QED  BY <1>1, <1>2, <1>4 DEF GoodInv

\* TokenStaysGood: no refresh, rollback, sweep or purge of RefreshTokenService loses
\* a client's token, but for a logout, an expiry, a detected reuse, a crash or
\* failed rename back in the middle of a rotation, or a sweep that reads a file
\* another request is writing.
THEOREM GoodTokensStay == Spec => []TokenStaysGood
<1>1. GoodInv => TokenStaysGood  BY DEF GoodInv
<1> QED
  BY ShapeAtStart, ShapeKept, ChainAtStart, ChainKept, GoodAtStart, GoodKept, <1>1, PTL DEF Spec

-----------------------------------------------------------------------------
(* A second use is noticed *)

Forgiven(t) == t \in expired \cup swept

RecordInv ==
  /\ \A t \in Tokens : succ[t] # NoToken => Whole(Consumed(t)) \/ Forgiven(t)
  /\ \A r \in Requests :
       /\ rpc[r] = "commitFill" => Present(Consumed(tok[r])) \/ Forgiven(tok[r])
       /\ rpc[r] = "unlink" => Whole(Consumed(tok[r])) \/ Forgiven(tok[r])

LEMMA RecordAfterRequest ==
  ASSUME ShapeInv, ChainInv, RecordInv, NEW r \in Requests, RequestStep(r)
  PROVE  RecordInv'
<1>0. /\ \A t \in Tokens : Forgiven(t) => Forgiven(t)'
      /\ \A t \in Tokens : ConsumedAfter(r, t)
      /\ \A q \in Requests : rpc[q] \in Asking => tok[q] \in Tokens
  <2>1. [Next]_vars  BY DEF Next
  <2> QED  BY <2>1, ExcusesStay, FilesAfter, AskedFor DEF Forgiven
<1>1. /\ rpc \in [Requests -> Pc] /\ succ \in [Tokens -> Tokens \cup {NoToken}]
      /\ disk \in [Files -> Contents]
  BY DEF ShapeInv, TypeOK
<1>2. ASSUME CommitOpen(r) \/ CommitFill(r)
      PROVE  /\ rpc[r] \in Holding /\ tok[r] \in Tokens /\ succ[tok[r]] = NoToken
             /\ \A q \in Requests : rpc[q] \in {"commitFill", "unlink"} /\ tok[q] = tok[r] => q = r
  BY <1>0, <1>2 DEF CommitOpen, CommitFill, ChainInv, Holding, Asking
<1>3. ASSUME NEW t \in Tokens, succ'[t] # NoToken
      PROVE  disk'[Consumed(t)] = "whole" \/ Forgiven(t)'
  <2>1. CASE succ[t] # NoToken
    BY <1>0, <1>2, <2>1 DEF RecordInv, ConsumedAfter, Whole
  <2>2. CASE succ[t] = NoToken
    <3>1. Unlink(r) \/ UnlinkFails(r)
      BY <1>3, <2>2 DEF RequestStep, Login, LoginOpen, LoginFill, RequestFails, LogoutCall,
         RefreshCall, CallWith, Logout, Rename, ReadConsumed, ReadTaken, ReadTakenFails, Open,
         Fill, CommitOpen, CommitFill, RefreshFails, Rollback, RollbackFails, RevokeList,
         RevokeDone, clientVars
    <3>2. t = tok[r] /\ rpc[r] = "unlink"  BY <1>1, <1>3, <2>2, <3>1 DEF Unlink, UnlinkFails
    <3>3. disk'[Consumed(t)] = disk[Consumed(t)]
      BY <1>0, <3>1 DEF ConsumedAfter, Unlink, UnlinkFails, CommitOpen, CommitFill
    <3> QED  BY <1>0, <3>2, <3>3 DEF RecordInv, Whole
  <2> QED  BY <2>1, <2>2
<1>4. ASSUME NEW q \in Requests, q # r, rpc[q] \in {"commitFill", "unlink"}
      PROVE  disk'[Consumed(tok[q])] = disk[Consumed(tok[q])] /\ tok[q] \in Tokens
  BY <1>0, <1>2, <1>4 DEF ConsumedAfter, Asking, Holding
<1>5. ASSUME NEW q \in Requests, rpc'[q] = "commitFill"
      PROVE  disk'[Consumed(tok'[q])] # "none" \/ Forgiven(tok[q])'
  <2>1. CASE q # r
    <3>1. rpc'[q] = rpc[q] /\ tok'[q] = tok[q]  BY <2>1, OneAtATime
    <3> QED  BY <1>0, <1>4, <1>5, <2>1, <3>1 DEF RecordInv, Present, Forgiven
  <2>2. CASE q = r
    <3>1. CommitOpen(r)
      BY <1>1, <1>5, <2>2 DEF RequestStep, Login, LoginOpen, LoginFill, RequestFails, LogoutCall,
         RefreshCall, CallWith, Logout, Rename, ReadConsumed, ReadTaken, ReadTakenFails, Open,
         Fill, CommitFill, Unlink, UnlinkFails, RefreshFails, Rollback, RollbackFails, RevokeList,
         RevokeDone, Goto
    <3>2. Changed(Consumed(tok[r]), "empty")  BY <3>1, FilesOfRequest
    <3> QED  BY <2>2, <3>1, <3>2 DEF Changed, CommitOpen
  <2> QED  BY <2>1, <2>2
<1>6. ASSUME NEW q \in Requests, rpc'[q] = "unlink"
      PROVE  disk'[Consumed(tok'[q])] = "whole" \/ Forgiven(tok[q])'
  <2>1. CASE q # r
    <3>1. rpc'[q] = rpc[q] /\ tok'[q] = tok[q]  BY <2>1, OneAtATime
    <3> QED  BY <1>0, <1>4, <1>6, <2>1, <3>1 DEF RecordInv, Whole, Forgiven
  <2>2. CASE q = r
    <3>1. CommitFill(r)
      BY <1>1, <1>6, <2>2 DEF RequestStep, Login, LoginOpen, LoginFill, RequestFails, LogoutCall,
         RefreshCall, CallWith, Logout, Rename, ReadConsumed, ReadTaken, ReadTakenFails, Open,
         Fill, CommitOpen, Unlink, UnlinkFails, RefreshFails, Rollback, RollbackFails, RevokeList,
         RevokeDone, Goto
    <3>2. Changed(Consumed(tok[r]), IfEmpty(Consumed(tok[r])))  BY <3>1, FilesOfRequest
    <3>3. rpc[r] = "commitFill" /\ tok'[r] = tok[r]  BY <3>1 DEF CommitFill
    <3>4. Present(Consumed(tok[r])) => disk'[Consumed(tok[r])] = "whole"
      BY <1>1, <1>2, <3>1, <3>2, FileNames DEF Changed, IfEmpty, Present, Contents
    <3> QED  BY <1>0, <1>2, <2>2, <3>1, <3>3, <3>4 DEF RecordInv, Forgiven
  <2> QED  BY <2>1, <2>2
<1> QED  BY <1>3, <1>5, <1>6 DEF RecordInv, Whole, Present

LEMMA RecordKept ==
  ASSUME ShapeInv, ChainInv, SweepInv, RecordInv, [Next]_vars
  PROVE  RecordInv'
<1>0. \A t \in Tokens : Forgiven(t) => Forgiven(t)'  BY ExcusesStay DEF Forgiven
<1>1. \A r \in Requests : rpc[r] \in {"commitFill", "unlink"} => tok[r] \in Tokens
  BY AskedFor DEF Asking, Holding
<1>2. ASSUME UNCHANGED <<tok, succ>>,
             \A r \in Requests : rpc'[r] \in {"commitFill", "unlink"} => rpc'[r] = rpc[r],
             \A t \in Tokens : disk'[Consumed(t)] = disk[Consumed(t)] \/ Forgiven(t)'
      PROVE  RecordInv'
  BY <1>0, <1>1, <1>2 DEF RecordInv, Whole, Present, Forgiven
<1>3. ASSUME NEW s \in Sweepers, SweepStep(s) PROVE RecordInv'
  <2>1. UNCHANGED <<rpc, tok, succ>>
    BY <1>3 DEF SweepStep, SweepRead, SweepReadFails, SweepUnlink, requestVars, clientVars
  <2>2. ASSUME NEW t \in Tokens PROVE disk'[Consumed(t)] = disk[Consumed(t)] \/ Forgiven(t)'
    <3>1. CASE SweepRead(s) \/ SweepReadFails(s)  BY <3>1 DEF SweepRead, SweepReadFails, fileVars
    <3>2. CASE SweepUnlink(s) /\ victim[s] = Consumed(t) /\ Present(victim[s])
      <4>1. s \notin Requests  BY <3>2, FileNames DEF SweepInv, SweepUnlink
      <4>2. t = Subject(victim[s])  BY <3>2 DEF Subject, Consumed
      <4> QED  BY <3>2, <4>1, <4>2, SweptIsExcused DEF Forgiven
    <3>3. CASE SweepUnlink(s) /\ ~(victim[s] = Consumed(t) /\ Present(victim[s]))
      <4>1. Changed(victim[s], "none")  BY <3>3, FilesOfSweep
      <4> QED  BY <3>3, <4>1, FileNames DEF Changed, Present
    <3> QED  BY <1>3, <3>1, <3>2, <3>3 DEF SweepStep
  <2> QED  BY <1>2, <2>1, <2>2
<1>4. CASE PurgeStep \/ (\E t \in Tokens : Expire(t)) \/ Crash \/ UNCHANGED vars
  <2>1. /\ UNCHANGED <<disk, tok, succ>>
        /\ \A r \in Requests : rpc'[r] \in {"commitFill", "unlink"} => rpc'[r] = rpc[r]
    BY <1>4 DEF PurgeStep, PurgeList, PurgeListConsumed, PurgeDone, Expire, Crash, vars,
       fileVars, requestVars, clientVars
  <2> QED  BY <1>2, <2>1
<1>5. CASE \E r \in Requests : RequestStep(r)
  BY <1>5, RecordAfterRequest
<1> QED  BY <1>3, <1>4, <1>5 DEF Next

\* ReuseIsNoticed: the consumed record that commitConsume writes is there before the
\* answer, and stays until the token expires.
THEOREM SecondUseIsNoticed == Spec => []ReuseIsNoticed
<1>1. Init => RecordInv  BY DEF Init, RecordInv
<1>2. ShapeInv /\ ChainInv /\ RecordInv => ReuseIsNoticed
  BY DEF ChainInv, RecordInv, ReuseIsNoticed, Whole, Present, Forgiven, Active, Consumed
<1>3. GoodInv => SweepInv  BY DEF GoodInv
<1> QED
  BY ShapeAtStart, ShapeKept, ChainAtStart, ChainKept, GoodAtStart, GoodKept, RecordKept,
     <1>1, <1>2, <1>3, PTL DEF Spec

-----------------------------------------------------------------------------
(* A revoked family is out *)

\* Condemned(fam): a sweep of the family is under way or done.
Condemned(fam) == BeingSwept(fam) \/ fam \in revoked.done

\* A sweep has yet to come to each active file of its family, except those of a
\* rotation that was under way.
FamilyInv ==
  /\ \A t \in Tokens : family[t] # NoToken => family[family[t]] # NoToken
  /\ \A fam \in revoked.done : family[fam] # NoToken
  /\ \A r \in Requests : rpc[r] \in Holding /\ Condemned(family[tok[r]]) => tok[r] \in racing
  /\ \A r \in Requests, t \in Tokens :
       Sweeping(r) /\ Present(Active(t)) /\ family[t] = family[tok[r]] =>
         t \in racing \/ Active(t) \in todo[r] \/ victim[r] = Active(t)
  /\ \A t \in Tokens : family[t] \in revoked.done /\ Present(Active(t)) => t \in racing

LEMMA FamilyOfQuietStep ==
  ASSUME ShapeInv, FamilyInv, UNCHANGED <<family, racing, todo, victim>>,
         revoked'.done = revoked.done,
         \A r \in Requests : rpc'[r] = "sweep" => rpc[r] = "sweep" /\ tok'[r] = tok[r],
         \A r \in Requests : rpc'[r] \in Holding => rpc[r] \in Holding /\ tok'[r] = tok[r],
         \A t \in Tokens : Present(Active(t))' =>
           Present(Active(t)) \/ \E r \in Requests : rpc[r] \in Holding /\ tok[r] = t
  PROVE  FamilyInv'
<1>1. \A fam : BeingSwept(fam)' => BeingSwept(fam)
  BY DEF BeingSwept, Sweeping
<1>2. \A t \in Tokens : Present(Active(t))' /\ Condemned(family[t]) => Present(Active(t)) \/ t \in racing
  BY DEF FamilyInv
<1>3. \A r \in Requests : Sweeping(r)' => Sweeping(r) /\ tok'[r] = tok[r] /\ BeingSwept(family[tok[r]])
  BY DEF BeingSwept, Sweeping
<1>4. \A r \in Requests : rpc'[r] \in Holding /\ Condemned(family[tok[r]])' => tok[r] \in racing
  BY <1>1 DEF FamilyInv, Condemned
<1>5. \A r \in Requests, t \in Tokens :
        Sweeping(r)' /\ Present(Active(t))' /\ family[t] = family[tok[r]] =>
          t \in racing \/ Active(t) \in todo[r] \/ victim[r] = Active(t)
  BY <1>2, <1>3 DEF FamilyInv, Condemned
<1>6. \A t \in Tokens : family[t] \in revoked.done /\ Present(Active(t))' => t \in racing
  BY <1>2 DEF FamilyInv, Condemned
<1> QED  BY <1>1, <1>3, <1>4, <1>5, <1>6 DEF FamilyInv, Condemned, BeingSwept, Sweeping, Active, Present

LEMMA FamilyAfterRequest ==
  ASSUME ShapeInv, ChainInv, FamilyInv, NEW r \in Requests, RequestStep(r)
  PROVE  FamilyInv'
<1>0. /\ \A t \in Tokens : ActiveAfter(r, t)
      /\ \A q \in Requests : rpc[q] \in Asking => tok[q] \in Tokens /\ family[tok[q]] \in Tokens
  BY FilesAfter, AskedFor
<1>1. /\ rpc \in [Requests -> Pc] /\ todo \in [Sweepers -> SUBSET Files]
      /\ family \in [Tokens -> Tokens \cup {NoToken}]
      /\ revoked \in [begun : SUBSET Tokens, done : SUBSET Tokens]
      /\ Requests \subseteq Sweepers
  BY DEF ShapeInv, TypeOK, Sweepers
<1>2. CASE RevokeList(r)
  <2>1. /\ rpc[r] = "list" /\ rpc' = [rpc EXCEPT ![r] = "sweep"]
        /\ UNCHANGED <<disk, family, tok, new, victim>> /\ revoked'.done = revoked.done
        /\ todo' = [todo EXCEPT ![r] = {f \in RootFiles : Present(f)}]
        /\ racing \subseteq racing'
        /\ \A q \in Requests : rpc[q] \in Holding /\ family[tok[q]] = family[tok[r]] =>
             tok[q] \in racing' \/ tok[q] = NoToken
    BY <1>1, <1>2 DEF RevokeList, List, Goto, fileVars
  <2>2. \A q \in Requests : rpc'[q] \in Holding => rpc[q] \in Holding /\ tok[q] \in Tokens
    BY <1>0, <1>1, <2>1 DEF Holding, Asking
  <2>3. \A fam : Condemned(fam)' => Condemned(fam) \/ fam = family[tok[r]]
    BY <1>1, <2>1 DEF Condemned, BeingSwept, Sweeping
  <2>4. \A q \in Requests : rpc'[q] \in Holding /\ Condemned(family[tok[q]])' => tok[q] \in racing'
    BY <2>1, <2>2, <2>3, NamesAssumption DEF FamilyInv
  <2>5. \A q \in Requests, t \in Tokens :
          Sweeping(q)' /\ Present(Active(t)) /\ family[t] = family[tok[q]] =>
            t \in racing' \/ Active(t) \in todo'[q] \/ victim[q] = Active(t)
    <3> SUFFICES ASSUME NEW q \in Requests, NEW t \in Tokens, Sweeping(q)', Present(Active(t)),
                        family[t] = family[tok[q]]
                 PROVE  t \in racing' \/ Active(t) \in todo'[q] \/ victim[q] = Active(t)
      OBVIOUS
    <3>1. CASE q = r  BY <1>1, <2>1, <3>1, FileNames
    <3>2. CASE q # r  BY <1>1, <2>1, <3>2 DEF FamilyInv, Sweeping
    <3> QED  BY <3>1, <3>2
  <2> QED  BY <2>1, <2>4, <2>5 DEF FamilyInv, Condemned, BeingSwept, Sweeping, Present, Active
<1>3. CASE RevokeDone(r)
  <2>1. /\ rpc[r] = "sweep" /\ rpc' = [rpc EXCEPT ![r] = "ended"]
        /\ UNCHANGED <<disk, family, tok, todo, victim, racing>>
        /\ revoked'.done = revoked.done \cup {family[tok[r]]}
        /\ todo[r] = {} /\ victim[r] = NoFile
    BY <1>1, <1>3 DEF RevokeDone, SweepOver, Goto, fileVars, sweepVars
  <2>2. \A q \in Requests : rpc'[q] \in Holding \cup {"sweep"} => rpc'[q] = rpc[q]
    BY <1>1, <2>1 DEF Holding
  <2>3. Sweeping(r) /\ tok[r] \in Tokens /\ family[tok[r]] \in Tokens
    BY <1>0, <2>1 DEF Sweeping, Asking
  <2>4. \A fam : Condemned(fam)' => Condemned(fam)
    BY <2>1, <2>2, <2>3 DEF Condemned, BeingSwept, Sweeping
  <2>5. \A t \in Tokens : family[t] = family[tok[r]] /\ Present(Active(t)) => t \in racing
    BY <2>1, <2>3, FileNames DEF FamilyInv
  <2>6. family[family[tok[r]]] # NoToken  BY <2>3, NamesAssumption DEF FamilyInv
  <2>7. \A q \in Requests : Sweeping(q)' => Sweeping(q)  BY <2>2 DEF Sweeping
  <2> QED  BY <2>1, <2>2, <2>4, <2>5, <2>6, <2>7 DEF FamilyInv, Present, Active, Condemned
<1>4. CASE LoginOpen(r) \/ Open(r)
  <2>1. PICK u \in Tokens, fam \in Tokens :
          /\ family[u] = NoToken /\ family' = [family EXCEPT ![u] = fam] /\ new'[r] = u
          /\ racing \subseteq racing' /\ UNCHANGED <<tok, todo, victim, revoked>>
          /\ \/ fam = u
             \/ family[fam] # NoToken /\ Open(r) /\ fam = family[tok[r]] /\
                (tok[r] \in racing => u \in racing')
    <3>1. CASE LoginOpen(r)
      BY <3>1 DEF LoginOpen, OpenNew, ShapeInv, TypeOK, sweepVars, history
    <3>2. CASE Open(r)
      <4>1. tok[r] \in Tokens /\ family[tok[r]] \in Tokens
        BY <1>0, <3>2 DEF Open, Asking, Holding
      <4>2. family[family[tok[r]]] # NoToken  BY <4>1, NamesAssumption DEF FamilyInv
      <4> QED  BY <3>2, <4>1, <4>2 DEF Open, OpenNew, ShapeInv, TypeOK, sweepVars
    <3> QED  BY <1>4, <3>1, <3>2
  <2>2. /\ \A q \in Requests : rpc'[q] = "sweep" => rpc[q] = "sweep"
        /\ \A q \in Requests : rpc'[q] \in Holding => rpc[q] \in Holding
    BY <1>1, <1>4 DEF LoginOpen, Open, Goto, Holding
  <2>3. \A t \in Tokens : family[t] # NoToken => family'[t] = family[t]  BY <1>1, <2>1
  <2>4. \A q \in Requests : rpc[q] \in Asking => family'[tok[q]] = family[tok[q]]
    BY <1>0, <2>3, NamesAssumption
  <2>5. \A f : Condemned(f)' => Condemned(f)
    BY <2>1, <2>2, <2>4 DEF Condemned, BeingSwept, Sweeping, Asking
  <2>6. ~Condemned(u)
    <3>1. \A q \in Requests : Sweeping(q) => family[tok[q]] # u
      <4>1. \A q \in Requests : Sweeping(q) => tok[q] \in Tokens /\ family[tok[q]] \in Tokens
        BY <1>0 DEF Sweeping, Asking
      <4> QED  BY <2>1, <4>1, NamesAssumption DEF FamilyInv
    <3> QED  BY <2>1, <3>1 DEF FamilyInv, Condemned, BeingSwept
  <2>7. Condemned(fam) => u \in racing'
    <3>1. Open(r) => rpc[r] \in Holding  BY DEF Open, Holding
    <3> QED  BY <2>1, <2>6, <3>1 DEF FamilyInv
  <2>8. \A t \in Tokens : Present(Active(t))' => Present(Active(t)) \/ t = u
    BY <1>0, <1>4, <2>1 DEF ActiveAfter, Present, LoginOpen, Open, Rollback
  <2>9. \A t \in Tokens : family'[t] # NoToken => family'[family'[t]] # NoToken
    BY <1>1, <2>1, NamesAssumption DEF FamilyInv
  <2>10. \A f \in revoked'.done : family'[f] # NoToken
    BY <1>1, <2>1, NamesAssumption DEF FamilyInv
  <2>11. ASSUME NEW q \in Requests, rpc'[q] \in Holding, Condemned(family[tok[q]])'
         PROVE  tok'[q] \in racing'
    <3>1. rpc[q] \in Holding /\ rpc[q] \in Asking  BY <2>2, <2>11 DEF Asking
    <3>2. family'[tok'[q]] = family[tok[q]]  BY <2>1, <2>4, <3>1
    <3>3. ASSUME NEW f, f = family[tok[q]] PROVE Condemned(f)'
      BY <2>11, <3>2, <3>3 DEF Condemned, BeingSwept
    <3>4. Condemned(family[tok[q]])  BY <2>5, <3>3
    <3> QED  BY <2>1, <3>1, <3>4 DEF FamilyInv
  <2>12. ASSUME NEW q \in Requests, NEW t \in Tokens, Sweeping(q)', Present(Active(t))',
                family'[t] = family'[tok'[q]]
         PROVE  t \in racing' \/ Active(t) \in todo'[q] \/ victim'[q] = Active(t)
    <3>1. Sweeping(q) /\ rpc[q] \in Asking  BY <2>2, <2>12 DEF Sweeping, Asking
    <3>2. family'[tok'[q]] = family[tok[q]]  BY <2>1, <2>4, <3>1
    <3>3. CASE t = u
      <4>1. Condemned(fam)  BY <1>1, <2>1, <2>12, <3>1, <3>2, <3>3 DEF Condemned, BeingSwept
      <4> QED  BY <2>7, <3>3, <4>1
    <3>4. CASE t # u
      BY <1>1, <2>1, <2>8, <2>12, <3>1, <3>2, <3>4 DEF FamilyInv
    <3> QED  BY <3>3, <3>4
  <2>13. ASSUME NEW t \in Tokens, family'[t] \in revoked'.done, Present(Active(t))'
         PROVE  t \in racing'
    <3>1. CASE t = u
      <4>1. Condemned(fam)  BY <1>1, <2>1, <2>13, <3>1 DEF Condemned
      <4> QED  BY <2>7, <3>1, <4>1
    <3>2. CASE t # u
      BY <1>1, <2>1, <2>8, <2>13, <3>2 DEF FamilyInv
    <3> QED  BY <3>1, <3>2
  <2> QED  BY <2>9, <2>10, <2>11, <2>12, <2>13 DEF FamilyInv, Active
<1>5. CASE Rename(r)
  <2>1. /\ rpc[r] = "rename" /\ tok[r] \in Tokens
        /\ UNCHANGED <<family, tok, todo, victim, revoked>>
        /\ \A t \in Tokens : Present(Active(t))' => Present(Active(t))
    BY <1>0, <1>5 DEF Rename, sweepVars, Asking, ActiveAfter, Present, LoginOpen, Open, Rollback
  <2>2. CASE ~Present(Active(tok[r]))
    <3>1. UNCHANGED racing /\ rpc' = [rpc EXCEPT ![r] = "readConsumed"]
      BY <1>5, <2>2 DEF Rename, Goto, Active
    <3> QED  BY <1>1, <2>1, <3>1, FamilyOfQuietStep DEF Holding
  <2>3. CASE Present(Active(tok[r]))
    <3>1. /\ racing' = racing \cup {t \in {tok[r]} : BeingSwept(family[t])}
          /\ rpc' = [rpc EXCEPT ![r] = "read"]
      BY <1>5, <2>3 DEF Rename, Goto, Active
    <3>2. \A q \in Requests : Sweeping(q)' => Sweeping(q)  BY <1>1, <2>1, <3>1 DEF Sweeping
    <3>4. Condemned(family[tok[r]]) => tok[r] \in racing'
      BY <2>1, <2>3, <3>1 DEF Condemned, FamilyInv
    <3>5. \A q \in Requests : rpc'[q] \in Holding => q = r \/ rpc[q] \in Holding
      BY <1>1, <3>1
    <3>6. \A q \in Requests : rpc'[q] \in Holding /\ Condemned(family[tok[q]])' => tok[q] \in racing'
      <4>1. \A q \in Requests : Condemned(family[tok[q]])' => Condemned(family[tok[q]])
        BY <2>1, <3>2 DEF Condemned, BeingSwept
      <4> QED  BY <3>1, <3>4, <3>5, <4>1 DEF FamilyInv
    <3> QED  BY <2>1, <3>1, <3>2, <3>6 DEF FamilyInv, Active, Present
  <2> QED  BY <2>2, <2>3
<1>6. CASE ~(RevokeList(r) \/ RevokeDone(r) \/ LoginOpen(r) \/ Open(r) \/ Rename(r))
  <2>1. \A t \in Tokens : Present(Active(t))' =>
          Present(Active(t)) \/ \E q \in Requests : rpc[q] \in Holding /\ tok[q] = t
    BY <1>0, <1>6 DEF ActiveAfter, Present, Rollback, Holding
  <2>2. UNCHANGED <<family, racing, todo, victim, revoked>>
    BY <1>6, Zenon DEF RequestStep, Login, LoginFill, RequestFails, LogoutCall, RefreshCall,
       CallWith, Logout, ReadConsumed, ReadTaken, ReadTakenFails, Fill, CommitOpen, CommitFill,
       Unlink, UnlinkFails, RefreshFails, Rollback, RollbackFails, fileVars, sweepVars, history
  <2>3. \A q \in Requests : rpc'[q] \in Holding \cup {"sweep"} =>
          /\ rpc[q] \in Holding \cup {"sweep"} /\ (rpc'[q] = "sweep" <=> rpc[q] = "sweep")
          /\ tok'[q] = tok[q]
    <3>1. \A q \in Requests : q # r => rpc'[q] = rpc[q] /\ tok'[q] = tok[q]  BY OneAtATime
    <3>2. rpc'[r] \in Holding \cup {"sweep"} =>
            /\ rpc[r] \in Holding \cup {"sweep"} /\ (rpc'[r] = "sweep" <=> rpc[r] = "sweep")
            /\ tok'[r] = tok[r]
      BY <1>1, <1>6 DEF RequestStep, Login, LoginFill, RequestFails, LogoutCall, RefreshCall,
         CallWith, Logout, ReadConsumed, ReadTaken, ReadTakenFails, Fill, CommitOpen, CommitFill,
         Unlink, UnlinkFails, RefreshFails, Rollback, RollbackFails, Goto, Holding
    <3> QED  BY <3>1, <3>2
  <2>4. "sweep" \notin Holding  BY DEF Holding
  <2> QED  BY <2>1, <2>2, <2>3, <2>4, FamilyOfQuietStep
<1> QED  BY <1>2, <1>3, <1>4, <1>5, <1>6

LEMMA FamilyKept ==
  ASSUME ShapeInv, ChainInv, FamilyInv, [Next]_vars
  PROVE  FamilyInv'
<1>1. ASSUME NEW s \in Sweepers, SweepRead(s) \/ SweepReadFails(s) PROVE FamilyInv'
  <2>1. UNCHANGED <<disk, family, rpc, tok, racing, revoked>>
    BY <1>1 DEF SweepRead, SweepReadFails, fileVars, requestVars, history
  <2>2. \A r \in Requests, t \in Tokens :
          Sweeping(r) /\ family[t] = family[tok[r]] /\
          (Active(t) \in todo[r] \/ victim[r] = Active(t)) =>
            Active(t) \in todo'[r] \/ victim'[r] = Active(t)
    <3> SUFFICES ASSUME NEW r \in Requests, NEW t \in Tokens, Sweeping(r), family[t] = family[tok[r]],
                        Active(t) \in todo[r] \/ victim[r] = Active(t)
                 PROVE  Active(t) \in todo'[r] \/ victim'[r] = Active(t)
      OBVIOUS
    <3>1. s = r => Doomed(s, Active(t))
      BY NamesAssumption DEF Doomed, Subject, Active
    <3>2. /\ todo \in [Sweepers -> SUBSET Files] /\ victim \in [Sweepers -> Files \cup {NoFile}]
          /\ r \in Sweepers /\ Active(t) # NoFile
      BY FileNames DEF ShapeInv, TypeOK, Sweepers
    <3> QED  BY <1>1, <3>1, <3>2 DEF SweepRead, SweepReadFails
  <2> QED  BY <2>1, <2>2 DEF FamilyInv, Condemned, BeingSwept, Sweeping, Present, Active
<1>2. ASSUME NEW s \in Sweepers, SweepUnlink(s) PROVE FamilyInv'
  <2>1. UNCHANGED <<family, rpc, tok, racing, revoked, todo>>
    BY <1>2 DEF SweepUnlink, requestVars
  <2>2. Changed(victim[s], "none")  BY <1>2, FilesOfSweep
  <2>3. \A t \in Tokens : Present(Active(t))' => Present(Active(t)) /\ Active(t) # victim[s]
    BY <2>2, FileNames DEF Changed, Present
  <2>4. \A r \in Requests : victim'[r] = victim[r] \/ (r = s)
    BY <1>2 DEF SweepUnlink, ShapeInv, TypeOK
  <2> QED  BY <2>1, <2>3, <2>4 DEF FamilyInv, Condemned, BeingSwept, Sweeping, Present, Active
<1>3. CASE PurgeStep \/ (\E t \in Tokens : Expire(t)) \/ UNCHANGED vars
  <2>1. /\ UNCHANGED <<disk, family, rpc, tok, racing, revoked, victim>>
        /\ \A r \in Requests : todo'[r] = todo[r]
    BY <1>3, NamesAssumption DEF PurgeStep, PurgeList, PurgeListConsumed, PurgeDone, Expire, List, vars,
       fileVars, requestVars, sweepVars, history, ShapeInv, TypeOK, Sweepers
  <2> QED  BY <2>1 DEF FamilyInv, Condemned, BeingSwept, Sweeping, Present, Active
<1>4. CASE Crash
  <2>1. /\ UNCHANGED <<disk, family, tok, racing, revoked>>
        /\ \A r \in Requests : rpc'[r] \in {"new", "ended"}
    BY <1>4 DEF Crash, fileVars
  <2> QED  BY <2>1 DEF FamilyInv, Sweeping, Holding, Present, Active
<1>5. CASE \E r \in Requests : RequestStep(r)
  BY <1>5, FamilyAfterRequest
<1> QED  BY <1>1, <1>2, <1>3, <1>4, <1>5 DEF Next, SweepStep

\* FamilyRevoked: after a detected reuse, revokeFamily leaves of the family only what
\* goes back to a rotation that was under way while it swept.
THEOREM ReuseEndsTheFamily == Spec => []FamilyRevoked
<1>1. Init => FamilyInv
  <2> SUFFICES ASSUME Init PROVE FamilyInv
    OBVIOUS
  <2>1. \A r \in Requests : rpc[r] \notin Holding /\ ~Sweeping(r)  BY DEF Init, Holding, Sweeping
  <2>2. revoked.done = {}  BY DEF Init
  <2>3. \A t \in Tokens : family[t] # NoToken => family[family[t]] # NoToken
    BY NamesAssumption, EarlyAssumption DEF Init
  <2> QED  BY <2>1, <2>2, <2>3 DEF FamilyInv
<1>2. FamilyInv => FamilyRevoked
  BY DEF FamilyInv, FamilyRevoked, Present, Active
<1> QED
  BY ShapeAtStart, ShapeKept, ChainAtStart, ChainKept, FamilyKept, <1>1, <1>2, PTL DEF Spec
=============================================================================

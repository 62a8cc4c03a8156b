--------------------------- MODULE TokenRotation ----------------------------
(***************************************************************************)
(* What refresh-token rotation promises: a client gets a token at a login, *)
(* or in exchange for one it was given, and no token is exchanged twice.   *)
(***************************************************************************)
CONSTANTS
  Tokens, NoToken,
  Early  \* the tokens given before

VARIABLES
  given,  \* the tokens clients were given
  succ    \* the token each was exchanged for

Init == given = Early /\ succ = [t \in Tokens |-> NoToken]

Login(u) ==
  /\ u \notin given
  /\ given' = given \cup {u}
  /\ UNCHANGED succ

Rotate(t, u) ==
  /\ t \in given /\ succ[t] = NoToken
  /\ u \notin given
  /\ given' = given \cup {u}
  /\ succ' = [succ EXCEPT ![t] = u]

Next == \E u \in Tokens : Login(u) \/ \E t \in Tokens : Rotate(t, u)

Spec == Init /\ [][Next]_<<given, succ>>
=============================================================================

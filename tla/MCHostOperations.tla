-------------------------- MODULE MCHostOperations --------------------------
(* Small instances of HostOperations for TLC. *)
EXTENDS HostOperations, TLC

CONSTANTS j1, a1, a2, d1, d2

NoDbOf == <<>>
DbOfD1 == (j1 :> d1)

Ask(mode, what, dbs) == [mode |-> mode, what |-> what, dbs |-> dbs]

\* Two databases, d2 an HA one: each way to act on them, as few requests as have
\* each mode, each order of the checks and each command.
SomeRequests ==
  {Ask("single", "stop", {d1}), Ask("single", "start", {d2}), Ask("selected", "restart", {d2}),
   Ask("all", "start", {d1}), Ask("service", "stop", {}), Ask("restart", "restart", {})}
=============================================================================

---------------------------- MODULE LoopRegistry ----------------------------
(***************************************************************************)
(* What the sync manager promises its callers, with no mutex, no callers   *)
(* and no joins: each account has at most one current loop; a loop ends    *)
(* only after it was retired; and the next loop of an account starts only  *)
(* when every earlier one is gone, or was given up on after StopTimeout.   *)
(* Module SyncManager implements it.                                       *)
(***************************************************************************)
CONSTANTS
  Account,   \* account ids
  Task,      \* identities of the loops ever started
  NoAccount  \* the owner of a loop not started yet

VARIABLES
  owner,     \* the account of each loop
  phase      \* its life: new, current, retiring, abandoned or gone

rvars == <<owner, phase>>

Phases == {"new", "current", "retiring", "abandoned", "gone"}

RInit ==
  /\ owner = [t \in Task |-> NoAccount]
  /\ phase = [t \in Task |-> "new"]

\* A loop starts for an account none of whose earlier loops is still expected
\* to be working.
Launch(a, t) ==
  /\ phase[t] = "new"
  /\ \A u \in Task : owner[u] = a => phase[u] \in {"abandoned", "gone"}
  /\ owner' = [owner EXCEPT ![t] = a]
  /\ phase' = [phase EXCEPT ![t] = "current"]

\* The loop is told to stop.
Retire(t) ==
  /\ phase[t] = "current"
  /\ phase' = [phase EXCEPT ![t] = "retiring"]
  /\ UNCHANGED owner

\* Its caller stops waiting for it.
Abandon(t) ==
  /\ phase[t] = "retiring"
  /\ phase' = [phase EXCEPT ![t] = "abandoned"]
  /\ UNCHANGED owner

\* It returns.  A loop nobody told to stop never does.
Leave(t) ==
  /\ phase[t] \in {"retiring", "abandoned"}
  /\ phase' = [phase EXCEPT ![t] = "gone"]
  /\ UNCHANGED owner

RNext ==
  \E t \in Task : (\E a \in Account : Launch(a, t)) \/ Retire(t) \/ Abandon(t) \/ Leave(t)

RSpec == RInit /\ [][RNext]_rvars

=============================================================================

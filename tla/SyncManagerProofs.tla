------------------------- MODULE SyncManagerProofs -------------------------
(***************************************************************************)
(* Proofs about SyncManager, for any accounts, callers and number of       *)
(* starts: the inductive invariant, the three safety invariants that       *)
(* follow from it, and the refinement of LoopRegistry.                     *)
(***************************************************************************)
EXTENDS SyncManager, TLAPS

\* What every step preserves.
Inductive == TypeOK /\ TrackedLoopIsLive /\ ManagerInv

USE DEF Task, NoTask, Inside, callVars, taskVars

\* The initial state satisfies the inductive invariant.
LEMMA InductiveInit == Init => Inductive
  BY SyncManagerAssumption
     DEF Init, Inductive, TypeOK, TrackedLoopIsLive, ManagerInv, MutexInv, CallInv,
         FreshInv, TaskInv

\* A caller entering one of the three methods preserves the invariant.
LEMMA CallPreserves ==
  ASSUME Inductive, NEW c \in Caller, NEW m, NEW a \in Account \union {NoAccount},
         NEW t, Call(c, m, a, t),
         \/ /\ m = "start" /\ a \in Account /\ t = starts + 1
            /\ starts < MaxStarts /\ starts' = starts + 1
         \/ m = "stop" /\ a \in Account /\ t = NoTask /\ starts' = starts
         \/ m = "stopAll" /\ t = NoTask /\ starts' = starts
  PROVE  Inductive'
  <1> USE SyncManagerAssumption DEF Call, Inductive, ManagerInv
  <1>1. t \in Task \union {NoTask} /\ starts' \in 0..MaxStarts /\ starts <= starts'
    BY DEF TypeOK
  <1>2. TypeOK'
    BY <1>1 DEF TypeOK
  <1>3. TrackedLoopIsLive'
    BY DEF TrackedLoopIsLive
  <1>4. MutexInv'
    BY DEF MutexInv, TypeOK
  <1>5. CallInv'
    BY <1>1 DEF CallInv, TypeOK
  <1>6. FreshInv'
    BY <1>1 DEF FreshInv, TypeOK
  <1>7. TaskInv'
    BY DEF TaskInv, TypeOK
  <1>8. QED
    BY <1>2, <1>3, <1>4, <1>5, <1>6, <1>7

\* opMu.Lock() returns.
LEMMA LockPreserves ==
  ASSUME Inductive, NEW c \in Caller, Lock(c)
  PROVE  Inductive'
  <1> USE SyncManagerAssumption DEF Lock, Unlocked, Inductive, ManagerInv
  <1>1. TypeOK'
    BY DEF TypeOK
  <1>2. TrackedLoopIsLive'
    BY DEF TrackedLoopIsLive
  <1>3. MutexInv'
    BY DEF MutexInv, TypeOK
  <1>4. CallInv'
    BY DEF CallInv, TypeOK
  <1>5. FreshInv'
    BY DEF FreshInv
  <1>6. TaskInv'
    BY DEF TaskInv, TypeOK
  <1>7. QED
    BY <1>1, <1>2, <1>3, <1>4, <1>5, <1>6

\* stopLocked takes a task out of the map and cancels it.  The entry belongs to
\* its account, so no other task of that account is tracked.
LEMMA StopTaskPreserves ==
  ASSUME Inductive, NEW c \in Caller, NEW a \in Account, StopTask(c, a)
  PROVE  Inductive'
  <1> USE SyncManagerAssumption DEF StopTask, Target, Inductive, ManagerInv
  <1>0. tasks[a] \in Task /\ tasks[a] \in running /\ owner[tasks[a]] = a
    BY DEF TypeOK, TrackedLoopIsLive
  <1>1. TypeOK'
    BY <1>0 DEF TypeOK
  <1>2. TrackedLoopIsLive'
    BY <1>0 DEF TrackedLoopIsLive, TypeOK
  <1>3. MutexInv'
    BY DEF MutexInv, TypeOK
  <1>4. CallInv'
    BY <1>0 DEF CallInv, TypeOK, MutexInv
  <1>5. FreshInv'
    BY DEF FreshInv
  <1>6. TaskInv'
    BY <1>0 DEF TaskInv, TypeOK, MutexInv
  <1>7. QED
    BY <1>1, <1>2, <1>3, <1>4, <1>5, <1>6

\* stopLocked finds no task to stop.
LEMMA StopNothingPreserves ==
  ASSUME Inductive, NEW c \in Caller, StopNothing(c)
  PROVE  Inductive'
  <1> USE SyncManagerAssumption DEF StopNothing, Inductive, ManagerInv
  <1>1. TypeOK'
    BY DEF TypeOK
  <1>2. TrackedLoopIsLive'
    BY DEF TrackedLoopIsLive
  <1>3. MutexInv'
    BY DEF MutexInv, TypeOK
  <1>4. CallInv'
    BY DEF CallInv, TypeOK, Target
  <1>5. FreshInv'
    BY DEF FreshInv
  <1>6. TaskInv'
    BY DEF TaskInv, TypeOK
  <1>7. QED
    BY <1>1, <1>2, <1>3, <1>4, <1>5, <1>6

\* The join ends because the goroutine returned, or because StopTimeout passed
\* and a goroutine still running is given up on.
LEMMA JoinPreserves ==
  ASSUME Inductive, NEW c \in Caller, Join(c) \/ JoinTimeout(c)
  PROVE  Inductive'
  <1> USE SyncManagerAssumption DEF LeaveJoin, IsDone, Inductive, ManagerInv
  <1>1. joining[c] \in Task /\ at[c] = "join" /\ LeaveJoin(c)
    BY DEF Join, JoinTimeout, CallInv, TypeOK
  <1>2. /\ abandoned \subseteq abandoned' /\ abandoned' \subseteq Task
        /\ abandoned' \subseteq cancelled
        /\ joining[c] \in running => joining[c] \in abandoned'
    BY <1>1 DEF Join, JoinTimeout, TypeOK, CallInv, TaskInv
  <1>3. TypeOK'
    BY <1>1, <1>2 DEF TypeOK, AfterStop
  <1>4. TrackedLoopIsLive'
    BY <1>1 DEF TrackedLoopIsLive
  <1>5. MutexInv'
    BY <1>1 DEF MutexInv, TypeOK, AfterStop
  <1>6. CallInv'
    BY <1>1 DEF CallInv, TypeOK, AfterStop
  <1>7. FreshInv'
    BY <1>1 DEF FreshInv
  <1>8. TaskInv'
    BY <1>1, <1>2 DEF TaskInv, TypeOK
  <1>9. QED
    BY <1>3, <1>4, <1>5, <1>6, <1>7, <1>8

\* Start registers and launches its task.  The account has no tracked task then,
\* and the new one is nobody else's.
LEMMA SpawnPreserves ==
  ASSUME Inductive, NEW c \in Caller, Spawn(c)
  PROVE  Inductive'
  <1> USE SyncManagerAssumption DEF Spawn, Return, Inductive, ManagerInv
  <1> DEFINE t == new[c]
             a == arg[c]
  <1>1. /\ t \in Task /\ a \in Account /\ op[c] = "start" /\ tasks[a] = NoTask
        /\ owner[t] = NoAccount /\ t \notin running /\ t \notin cancelled
    BY DEF CallInv, FreshInv, TaskInv, TypeOK
  <1>2. TypeOK'
    BY <1>1 DEF TypeOK
  <1>3. TrackedLoopIsLive'
    BY <1>1 DEF TrackedLoopIsLive, TypeOK
  <1>4. MutexInv'
    BY DEF MutexInv, TypeOK
  <1>5. CallInv'
    BY <1>1 DEF CallInv, TypeOK, MutexInv
  <1>6. FreshInv'
    BY <1>1 DEF FreshInv, TypeOK
  <1>7. TaskInv'
    BY <1>1 DEF TaskInv, TypeOK, MutexInv
  <1>8. QED
    BY <1>2, <1>3, <1>4, <1>5, <1>6, <1>7

\* Stop and StopAll return.
LEMMA UnlockPreserves ==
  ASSUME Inductive, NEW c \in Caller, Unlock(c)
  PROVE  Inductive'
  <1> USE SyncManagerAssumption DEF Unlock, Return, Inductive, ManagerInv
  <1>1. TypeOK'
    BY DEF TypeOK
  <1>2. TrackedLoopIsLive'
    BY DEF TrackedLoopIsLive
  <1>3. MutexInv'
    BY DEF MutexInv, TypeOK
  <1>4. CallInv'
    BY DEF CallInv, TypeOK
  <1>5. FreshInv'
    BY DEF FreshInv, TypeOK
  <1>6. TaskInv'
    BY DEF TaskInv, TypeOK
  <1>7. QED
    BY <1>1, <1>2, <1>3, <1>4, <1>5, <1>6

\* A cancelled goroutine returns.
LEMMA LoopExitsPreserves ==
  ASSUME Inductive, NEW t \in Task, LoopExits(t)
  PROVE  Inductive'
  <1> USE SyncManagerAssumption DEF LoopExits, MayReturn, Inductive, ManagerInv
  <1>1. TypeOK'
    BY DEF TypeOK
  <1>2. TrackedLoopIsLive'
    BY DEF TrackedLoopIsLive
  <1>3. MutexInv'
    BY DEF MutexInv
  <1>4. CallInv'
    BY DEF CallInv
  <1>5. FreshInv'
    BY DEF FreshInv
  <1>6. TaskInv'
    BY DEF TaskInv
  <1>7. QED
    BY <1>1, <1>2, <1>3, <1>4, <1>5, <1>6

\* Every step preserves the invariant.
LEMMA StepPreserves == Inductive /\ [Next]_vars => Inductive'
  <1> SUFFICES ASSUME Inductive, [Next]_vars PROVE Inductive'
    OBVIOUS
  <1>1. ASSUME NEW c \in Caller, NEW a \in Account, CallStart(c, a) \/ CallStop(c, a)
        PROVE  Inductive'
    BY <1>1, CallPreserves DEF CallStart, CallStop
  <1>2. ASSUME NEW c \in Caller, CallStopAll(c) PROVE Inductive'
    BY <1>2, CallPreserves DEF CallStopAll
  <1>3. ASSUME NEW c \in Caller, Proceed(c) PROVE Inductive'
    BY <1>3, LockPreserves, StopTaskPreserves, StopNothingPreserves, JoinPreserves,
       SpawnPreserves, UnlockPreserves DEF Proceed
  <1>4. ASSUME NEW t \in Task, LoopExits(t) PROVE Inductive'
    BY <1>4, LoopExitsPreserves
  <1>5. CASE UNCHANGED vars
    BY <1>5 DEF vars, Inductive, TypeOK, TrackedLoopIsLive, ManagerInv, MutexInv,
               CallInv, FreshInv, TaskInv
  <1>6. QED
    BY <1>1, <1>2, <1>3, <1>4, <1>5 DEF Next

\* The inductive invariant holds throughout.
THEOREM InductiveInvariance == Spec => []Inductive
  BY InductiveInit, StepPreserves, PTL DEF Spec

\* The manager's variables keep their types: a Start never registers task 0 nor
\* spawns for an account it was not given.
THEOREM TypeInvariance == Spec => []TypeOK
  BY InductiveInvariance, PTL DEF Inductive

\* A loop the map tracks runs, was never cancelled and belongs to the account it
\* is tracked for, however Start, Stop and StopAll overlap.
THEOREM TrackedLoops == Spec => []TrackedLoopIsLive
  BY InductiveInvariance, PTL DEF Inductive

\* No interleaving of the manager's methods leaves a loop running that is neither
\* tracked nor told to stop.
THEOREM UntrackedLoops == Spec => []UntrackedLoopIsCancelled
  <1>1. Inductive => UntrackedLoopIsCancelled
    BY SyncManagerAssumption
       DEF Inductive, ManagerInv, TaskInv, TypeOK, UntrackedLoopIsCancelled
  <1>2. QED
    BY <1>1, InductiveInvariance, PTL

\* Two loops of an account run at once only after a join of one timed out: of two
\* running loops neither given up on, both are tracked, or both joined by the one
\* holder of opMu, or one is joined and then nothing is tracked.
THEOREM Overlap == Spec => []OverlapOnlyAfterTimeout
  <1>1. Inductive => OverlapOnlyAfterTimeout
    <2> SUFFICES ASSUME Inductive, NEW t \in running, NEW u \in running,
                        owner[t] = owner[u], t \notin abandoned, u \notin abandoned
                 PROVE  t = u
      BY DEF OverlapOnlyAfterTimeout
    <2> USE DEF Inductive, ManagerInv
    <2>1. ASSUME NEW v \in running, v \notin abandoned
          PROVE  tasks[owner[v]] = v \/ \E c \in Caller : at[c] = "join" /\ joining[c] = v
      BY <2>1 DEF TaskInv
    <2>2. ASSUME NEW v \in running, NEW c \in Caller, at[c] = "join", joining[c] = v
          PROVE  opMu = c /\ tasks[owner[v]] = NoTask
      BY <2>2 DEF MutexInv, CallInv
    <2>3. t # NoTask /\ u # NoTask
      BY SyncManagerAssumption DEF TypeOK
    <2>4. QED
      BY <2>1, <2>2, <2>3
  <1>2. QED
    BY <1>1, InductiveInvariance, PTL

-----------------------------------------------------------------------------
(* The refinement of LoopRegistry *)

\* The registry's phase, as Registry sees it.
phases == [t \in Task |-> Phase(t)]

\* Nothing the registry knows of changes.
LEMMA Unnoticed == UNCHANGED taskVars => UNCHANGED Registry!rvars
  BY DEF Registry!rvars, Phase

\* Taking a task out of the map and cancelling it retires it.
LEMMA StopTaskRetires ==
  ASSUME Inductive, NEW c \in Caller, NEW a \in Account, StopTask(c, a)
  PROVE  Registry!RNext
  <1> USE SyncManagerAssumption DEF Inductive, ManagerInv, StopTask
  <1> DEFINE t == tasks[a]
  <1>1. t \in Task /\ t \in running /\ owner[t] = a /\ t \notin cancelled
    BY DEF TypeOK, TrackedLoopIsLive
  <1>2. t \notin abandoned
    BY <1>1 DEF TaskInv
  <1>3. phases[t] = "current" /\ phases'[t] = "retiring"
    BY <1>1, <1>2 DEF phases, Phase
  <1>4. \A u \in Task \ {t} : phases'[u] = phases[u]
    BY <1>1 DEF phases, Phase
  <1>5. Registry!Retire(t)
    BY <1>3, <1>4 DEF Registry!Retire, phases
  <1>6. QED
    BY <1>1, <1>5 DEF Registry!RNext

\* A join that times out abandons the task it waited for, if that still runs.
LEMMA JoinTimeoutAbandons ==
  ASSUME Inductive, NEW c \in Caller, JoinTimeout(c)
  PROVE  Registry!RNext \/ UNCHANGED Registry!rvars
  <1> USE SyncManagerAssumption DEF Inductive, ManagerInv, JoinTimeout, LeaveJoin
  <1> DEFINE t == joining[c]
  <1>1. t \in cancelled /\ owner[t] \in Account
    BY DEF CallInv, TaskInv
  <1>2. CASE t \in running /\ t \notin abandoned
    <2>1. phases[t] = "retiring" /\ phases'[t] = "abandoned"
      BY <1>1, <1>2 DEF phases, Phase, TypeOK
    <2>2. \A u \in Task \ {t} : phases'[u] = phases[u]
      BY <1>2 DEF phases, Phase
    <2>3. t \in Task
      BY <1>1 DEF TypeOK
    <2>4. Registry!Abandon(t)
      BY <2>1, <2>2, <2>3 DEF Registry!Abandon, phases
    <2>5. QED
      BY <2>3, <2>4 DEF Registry!RNext
  <1>3. CASE t \notin running \/ t \in abandoned
    <2>1. abandoned' = abandoned
      BY <1>3
    <2>2. QED
      BY <2>1, Unnoticed
  <1>4. QED
    BY <1>2, <1>3

\* Start launches a loop, when every earlier one of the account has returned or
\* was abandoned: nothing of the account is tracked, and only the caller that
\* holds opMu could be joining.
LEMMA SpawnLaunches ==
  ASSUME Inductive, NEW c \in Caller, Spawn(c)
  PROVE  Registry!RNext
  <1> USE SyncManagerAssumption DEF Inductive, ManagerInv, Spawn, Return
  <1> DEFINE t == new[c]
             a == arg[c]
  <1>1. /\ t \in Task /\ a \in Account /\ tasks[a] = NoTask /\ owner[t] = NoAccount
        /\ t \notin running /\ t \notin cancelled /\ t \notin abandoned
    BY DEF CallInv, FreshInv, TaskInv, TypeOK
  <1>2. phases[t] = "new" /\ phases'[t] = "current"
    BY <1>1 DEF phases, Phase, TypeOK
  <1>3. \A u \in Task \ {t} : phases'[u] = phases[u]
    BY <1>1 DEF phases, Phase, TypeOK
  <1>4. \A u \in Task : owner[u] = a => phases[u] \in {"abandoned", "gone"}
    <2> SUFFICES ASSUME NEW u \in running, owner[u] = a PROVE u \in abandoned
      BY <1>1 DEF phases, Phase
    <2>1. tasks[a] # u
      BY <1>1 DEF TypeOK
    <2>2. ~\E d \in Caller : at[d] = "join"
      BY DEF MutexInv
    <2>3. QED
      BY <2>1, <2>2 DEF TaskInv
  <1>5. Registry!Launch(a, t)
    BY <1>1, <1>2, <1>3, <1>4 DEF Registry!Launch, phases
  <1>6. QED
    BY <1>1, <1>5 DEF Registry!RNext

\* A goroutine that returns was retired or abandoned before.
LEMMA LoopExitsLeaves ==
  ASSUME Inductive, NEW t \in Task, LoopExits(t)
  PROVE  Registry!RNext
  <1> USE SyncManagerAssumption DEF Inductive, ManagerInv, LoopExits, MayReturn
  <1>1. owner[t] \in Account
    BY DEF TaskInv
  <1>2. phases[t] \in {"retiring", "abandoned"} /\ phases'[t] = "gone"
    BY <1>1 DEF phases, Phase
  <1>3. \A u \in Task \ {t} : phases'[u] = phases[u]
    BY DEF phases, Phase
  <1>4. Registry!Leave(t)
    BY <1>2, <1>3 DEF Registry!Leave, phases
  <1>5. QED
    BY <1>4 DEF Registry!RNext

\* The initial state is the registry's.
LEMMA InitRefines == Init => Registry!RInit
  BY DEF Init, Registry!RInit, Phase

\* A step of the manager is a step of the registry or changes nothing of it.
LEMMA StepRefines ==
  Inductive /\ [Next]_vars => [Registry!RNext]_(Registry!rvars)
  <1> SUFFICES ASSUME Inductive, [Next]_vars
               PROVE  Registry!RNext \/ UNCHANGED Registry!rvars
    OBVIOUS
  <1>1. ASSUME NEW c \in Caller, NEW a \in Account, CallStart(c, a) \/ CallStop(c, a)
        PROVE  UNCHANGED taskVars
    BY <1>1 DEF CallStart, CallStop, Call
  <1>2. ASSUME NEW c \in Caller, CallStopAll(c) PROVE UNCHANGED taskVars
    BY <1>2 DEF CallStopAll, Call
  <1>3. ASSUME NEW c \in Caller, Proceed(c)
        PROVE  Registry!RNext \/ UNCHANGED Registry!rvars
    <2>1. CASE Lock(c) \/ StopNothing(c) \/ Join(c) \/ Unlock(c)
      BY <2>1, Unnoticed DEF Lock, StopNothing, Join, LeaveJoin, Unlock
    <2>2. QED
      BY <1>3, <2>1, StopTaskRetires, JoinTimeoutAbandons, SpawnLaunches DEF Proceed
  <1>4. CASE UNCHANGED vars
    BY <1>4, Unnoticed DEF vars
  <1>5. QED
    BY <1>1, <1>2, <1>3, <1>4, Unnoticed, LoopExitsLeaves DEF Next

\* The manager implements the registry of LoopRegistry.
THEOREM Refinement == Spec => ImplementsRegistry
  <1>1. Init /\ [][Next]_vars => Registry!RInit /\ [][Registry!RNext]_(Registry!rvars)
    BY InitRefines, StepRefines, InductiveInit, StepPreserves, PTL
  <1>2. QED
    BY <1>1 DEF Spec, ImplementsRegistry, Registry!RSpec

=============================================================================

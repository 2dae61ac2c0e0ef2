----------------------------- MODULE SyncManager -----------------------------
(***************************************************************************)
(* The Manager of internal/sync/sync.go: Start, Stop and StopAll, called   *)
(* concurrently by the UI's commands, the tray and shutdown, over the      *)
(* registry `tasks' under opMu.  stopLocked joins the goroutine it cancels *)
(* while it holds the mutex, but only for StopTimeout.                     *)
(*                                                                         *)
(* A sync goroutine is reduced to whether it runs: it returns only once    *)
(* its context is cancelled (module IdleLoop has its insides), and it may  *)
(* never return when a system call is stuck.                               *)
(***************************************************************************)
EXTENDS Naturals

CONSTANTS
  Account,    \* account ids
  Caller,     \* threads that call the manager
  NoAccount,  \* no account
  Nobody,     \* opMu is free
  MaxStarts   \* bound: calls of Start

ASSUME SyncManagerAssumption ==
  /\ NoAccount \notin Account /\ Nobody \notin Caller /\ MaxStarts \in Nat

Task == 1..MaxStarts
NoTask == 0

VARIABLES
  opMu,       \* the holder of Manager.opMu
  tasks,      \* Manager.tasks, NoTask for an account without an entry
  op,         \* per caller: the method it runs
  arg,        \* its account argument
  new,        \* the task a Start will create
  at,         \* where the caller stands in it
  joining,    \* the task stopLocked waits for
  starts,     \* calls of Start so far
  owner,      \* per task: its account
  running,    \* tasks whose goroutine has not returned
  cancelled,  \* tasks whose cancel was called
  abandoned   \* tasks a join of which timed out

callVars == <<op, arg, new, at, joining>>
taskVars == <<owner, running, cancelled, abandoned>>
vars == <<opMu, tasks, callVars, starts, taskVars>>

Init ==
  /\ opMu = Nobody
  /\ tasks = [a \in Account |-> NoTask]
  /\ op = [c \in Caller |-> "none"]
  /\ arg = [c \in Caller |-> NoAccount]
  /\ new = [c \in Caller |-> NoTask]
  /\ at = [c \in Caller |-> "out"]
  /\ joining = [c \in Caller |-> NoTask]
  /\ starts = 0
  /\ owner = [t \in Task |-> NoAccount]
  /\ running = {} /\ cancelled = {} /\ abandoned = {}

-----------------------------------------------------------------------------
(* The callers *)

Call(c, method, a, t) ==
  /\ at[c] = "out"
  /\ at' = [at EXCEPT ![c] = "lock"]
  /\ op' = [op EXCEPT ![c] = method]
  /\ arg' = [arg EXCEPT ![c] = a]
  /\ new' = [new EXCEPT ![c] = t]
  /\ UNCHANGED <<opMu, tasks, joining, taskVars>>

CallStart(c, a) ==
  /\ starts < MaxStarts
  /\ starts' = starts + 1
  /\ Call(c, "start", a, starts + 1)

CallStop(c, a) == Call(c, "stop", a, NoTask) /\ UNCHANGED starts

CallStopAll(c) == Call(c, "stopAll", NoAccount, NoTask) /\ UNCHANGED starts

\* The account stopLocked is called with next: the argument, or for StopAll
\* any account still in the map.
Target(c, a) ==
  IF op[c] = "stopAll" THEN tasks[a] # NoTask ELSE a = arg[c]

\* The methods do not exclude each other.
NoMutex == TRUE

\* opMu is free.
Unlocked == opMu = Nobody

\* opMu.Lock() returns.
Lock(c) ==
  /\ at[c] = "lock" /\ Unlocked
  /\ opMu' = c
  /\ at' = [at EXCEPT ![c] = "stop"]
  /\ UNCHANGED <<tasks, op, arg, new, joining, starts, taskVars>>

\* Where the method goes on once stopLocked returns.
AfterStop(c) ==
  IF op[c] = "start" THEN "spawn" ELSE IF op[c] = "stop" THEN "unlock" ELSE "stop"

\* stopLocked: the entry leaves the map and its context is cancelled.
StopTask(c, a) ==
  /\ at[c] = "stop" /\ Target(c, a) /\ tasks[a] # NoTask
  /\ tasks' = [tasks EXCEPT ![a] = NoTask]
  /\ cancelled' = cancelled \union {tasks[a]}
  /\ joining' = [joining EXCEPT ![c] = tasks[a]]
  /\ at' = [at EXCEPT ![c] = "join"]
  /\ UNCHANGED <<opMu, op, arg, new, starts, owner, running, abandoned>>

\* stopLocked of an account without a task, or the end of StopAll's range.
StopNothing(c) ==
  /\ at[c] = "stop"
  /\ \A a \in Account : Target(c, a) => tasks[a] = NoTask
  /\ at' = [at EXCEPT ![c] = IF op[c] = "start" THEN "spawn" ELSE "unlock"]
  /\ UNCHANGED <<opMu, tasks, op, arg, new, joining, starts, taskVars>>

LeaveJoin(c) ==
  /\ at' = [at EXCEPT ![c] = AfterStop(c)]
  /\ joining' = [joining EXCEPT ![c] = NoTask]
  /\ UNCHANGED <<opMu, tasks, op, arg, new, starts, owner, running, cancelled>>

\* done is not waited for.
NotJoined(t) == TRUE

\* <-t.done returns.
IsDone(t) == t \notin running

Join(c) ==
  /\ at[c] = "join" /\ IsDone(joining[c])
  /\ LeaveJoin(c)
  /\ UNCHANGED abandoned

\* A join without a bound.
NoTimeout == FALSE

\* <-time.After(StopTimeout) returns in the end.
TimerFires == TRUE

JoinTimeout(c) ==
  /\ at[c] = "join" /\ TimerFires
  /\ LeaveJoin(c)
  /\ abandoned' = abandoned \union ({joining[c]} \intersect running)

Return(c) ==
  /\ opMu' = Nobody
  /\ at' = [at EXCEPT ![c] = "out"]
  /\ op' = [op EXCEPT ![c] = "none"]
  /\ arg' = [arg EXCEPT ![c] = NoAccount]
  /\ new' = [new EXCEPT ![c] = NoTask]

\* Start registers the task, launches its goroutine and returns.
Spawn(c) ==
  /\ at[c] = "spawn"
  /\ tasks' = [tasks EXCEPT ![arg[c]] = new[c]]
  /\ owner' = [owner EXCEPT ![new[c]] = arg[c]]
  /\ running' = running \union {new[c]}
  /\ Return(c)
  /\ UNCHANGED <<joining, starts, cancelled, abandoned>>

Unlock(c) ==
  /\ at[c] = "unlock"
  /\ Return(c)
  /\ UNCHANGED <<tasks, joining, starts, taskVars>>

\* accountLoop returns on the first error.
ReturnsAnyTime(t) == TRUE

\* accountLoop returns only through one of its ctx checks.
MayReturn(t) == t \in cancelled

\* A goroutine returns and closes done.
LoopExits(t) ==
  /\ t \in running /\ MayReturn(t)
  /\ running' = running \ {t}
  /\ UNCHANGED <<opMu, tasks, callVars, starts, owner, cancelled, abandoned>>

Proceed(c) ==
  \/ Lock(c) \/ (\E a \in Account : StopTask(c, a)) \/ StopNothing(c)
  \/ Join(c) \/ JoinTimeout(c) \/ Spawn(c) \/ Unlock(c)

Next ==
  \/ \E c \in Caller :
       \/ \E a \in Account : CallStart(c, a) \/ CallStop(c, a)
       \/ CallStopAll(c)
       \/ Proceed(c)
  \/ \E t \in Task : LoopExits(t)

\* opMu hands itself over to a waiter in the end (sync.Mutex starves nobody),
\* and timers fire.  Nothing obliges a goroutine to exit: its system call may
\* be stuck.
Fairness == \A c \in Caller : SF_vars(Lock(c)) /\ WF_vars(Proceed(c))

Spec == Init /\ [][Next]_vars /\ Fairness

-----------------------------------------------------------------------------
(* Properties *)

TypeOK ==
  /\ opMu \in Caller \union {Nobody}
  /\ tasks \in [Account -> Task \union {NoTask}]
  /\ op \in [Caller -> {"none", "start", "stop", "stopAll"}]
  /\ arg \in [Caller -> Account \union {NoAccount}]
  /\ new \in [Caller -> Task \union {NoTask}]
  /\ at \in [Caller -> {"out", "lock", "stop", "join", "spawn", "unlock"}]
  /\ joining \in [Caller -> Task \union {NoTask}]
  /\ starts \in 0..MaxStarts
  /\ owner \in [Task -> Account \union {NoAccount}]
  /\ running \subseteq Task /\ cancelled \subseteq Task /\ abandoned \subseteq Task

\* A goroutine the map does not track was cancelled, so it is on its way out:
\* however Start, Stop and StopAll overlap, none leaves an untracked loop that
\* nobody can stop (the promise of Manager's comment).
UntrackedLoopIsCancelled ==
  \A t \in running : (\A a \in Account : tasks[a] # t) => t \in cancelled

\* Two loops of one account run at once only after a join of one of them timed
\* out; otherwise Start has waited for the old one ("two loops never write the
\* same account's rows at once").
OverlapOnlyAfterTimeout ==
  \A t, u \in running :
    owner[t] = owner[u] /\ t # u => t \in abandoned \/ u \in abandoned

\* A loop the map tracks was not cancelled: a Stop that overtakes a Start
\* cancels the loop it joined and never the one registered after it.
TrackedLoopIsLive ==
  \A a \in Account :
    tasks[a] # NoTask =>
      tasks[a] \in running /\ tasks[a] \notin cancelled /\ owner[tasks[a]] = a

\* Every call returns although stopLocked joins under the mutex and a goroutine
\* may hang: StopTimeout bounds the hold.
CallsReturn == \A c \in Caller : (at[c] # "out") ~> (at[c] = "out")

-----------------------------------------------------------------------------
(* The inductive invariant behind the four invariants above *)

\* opMu is held exactly from Lock to the method's return.
Inside == {"stop", "join", "spawn", "unlock"}

MutexInv == \A c \in Caller : at[c] \in Inside <=> opMu = c

\* What a method's locals are while it runs.  From the moment stopLocked has
\* taken the entry of a task until the method is done with it, the account has
\* none.
CallInv ==
  \A c \in Caller :
    /\ at[c] = "out" <=> op[c] = "none"
    /\ op[c] \in {"start", "stop"} => arg[c] \in Account
    /\ op[c] = "start" => new[c] \in Task
    /\ at[c] = "spawn" => op[c] = "start" /\ tasks[arg[c]] = NoTask
    /\ at[c] = "join" =>
         /\ joining[c] \in cancelled
         /\ tasks[owner[joining[c]]] = NoTask
         /\ op[c] # "stopAll" => owner[joining[c]] = arg[c]

\* The task a Start is about to create is nobody else's.
FreshInv ==
  /\ \A c \in Caller : op[c] = "start" => new[c] <= starts /\ owner[new[c]] = NoAccount
  /\ \A c, d \in Caller :
       op[c] = "start" /\ op[d] = "start" /\ new[c] = new[d] => c = d
  /\ \A t \in Task : owner[t] # NoAccount => t <= starts

\* A goroutine runs for an account: tracked, or cancelled and then joined by
\* the holder of opMu or given up on.
TaskInv ==
  /\ \A t \in running \union cancelled : owner[t] \in Account
  /\ abandoned \subseteq cancelled
  /\ \A t \in running :
       \/ tasks[owner[t]] = t
       \/ /\ t \in cancelled
          /\ t \in abandoned \/ \E c \in Caller : at[c] = "join" /\ joining[c] = t

ManagerInv == MutexInv /\ CallInv /\ FreshInv /\ TaskInv

-----------------------------------------------------------------------------
\* The life of a task as its callers see it.
Phase(t) ==
  IF owner[t] = NoAccount THEN "new"
  ELSE IF t \notin running THEN "gone"
  ELSE IF t \in abandoned THEN "abandoned"
  ELSE IF t \in cancelled THEN "retiring"
  ELSE "current"

Registry == INSTANCE LoopRegistry WITH phase <- [t \in Task |-> Phase(t)]

\* The manager implements the registry: no interleaving of its methods shows
\* more than one current loop per account, ends a loop nobody stopped, or
\* starts one beside a loop that is still expected to exit.
ImplementsRegistry == Registry!RSpec

=============================================================================

-------------------------- MODULE AccountLifecycle --------------------------
(***************************************************************************)
(* Accounts come and go: the account commands (app.go: AddImapAccount,     *)
(* StartGmailOauth, ReauthGmailAccount, RemoveAccount, SyncAccount, the    *)
(* tray's syncAllAccounts, startConfiguredAccounts), over accounts.json    *)
(* (internal/accounts), the keyring (also internal/oauth), the rows of the *)
(* store, and the sync manager.                                            *)
(*                                                                         *)
(* Commands run on threads of their own and share no lock.  accounts.json  *)
(* is loaded, changed and saved whole; a command that looks an account up  *)
(* uses what it found after a consent of minutes, a connection attempt, a  *)
(* keyring that asks to be unlocked, or a wait for the manager's mutex.    *)
(*                                                                         *)
(* Abstractions.  The manager is what module LoopRegistry promises: one    *)
(* current loop per account, others joined or given up on.  The cache of   *)
(* access tokens follows the keyring entry and dies with the process.      *)
(* All Gmail ids of the model belong to one address.                       *)
(***************************************************************************)
EXTENDS Integers, FiniteSets

CONSTANTS
  Imap, Gmail,  \* account ids, each given out once; the Gmail ones of one address
  Caller,       \* threads that run commands
  MaxCalls,     \* bound: commands
  MaxFaults,    \* bound: failing statements, joins that time out, ends of the process
  NoAccount, NoCaller

ASSUME AccountLifecycleAssumption ==
  /\ Imap \intersect Gmail = {}
  /\ MaxCalls \in Nat /\ MaxFaults \in Nat
  /\ NoAccount \notin Imap \union Gmail /\ NoCaller \notin Caller

Account == Imap \union Gmail
Op == {"boot", "addImap", "gmail", "reauth", "remove", "sync", "all", "connect"}

VARIABLES
  file,       \* the accounts accounts.json lists
  keyring,    \* the accounts with a secret
  rows,       \* the accounts with folders or messages in the store
  loop,       \* the manager's loop of each account: none, current or retiring
  lingering,  \* the accounts with a loop that was given up on
  holder,     \* who holds the manager's mutex
  booted,     \* startConfiguredAccounts has returned
  at, op, id, \* each command: where it is, what it does, on which account
  list,       \* the accounts a command loaded
  (* history *)
  known,      \* ids given out
  stale,      \* accounts acted on by a command that had found them before
              \* their removal began
  raced,      \* accounts a Save dropped or brought back, the file having
              \* changed since its Load
  halted,     \* accounts whose addition, removal, join or start was cut short, or
              \* whose secret the keyring failed to delete
  removed,    \* accounts RemoveAccount reported removed
  calls, faults

dataVars    == <<file, keyring, rows>>
managerVars == <<loop, lingering, holder>>
commandVars == <<at, op, id, list>>
excuses     == <<stale, raced, halted>>
bounds      == <<calls, faults>>
vars == <<dataVars, managerVars, booted, commandVars, known, excuses, removed, bounds>>

\* Two starts before: what earlier commands left is consistent.
Init ==
  /\ file \in {A \in SUBSET Account : Cardinality(A \intersect Gmail) <= 1}
  /\ keyring = file /\ rows \in SUBSET file
  /\ loop = [a \in Account |-> "none"] /\ lingering = {} /\ holder = NoCaller
  /\ booted = FALSE
  /\ at = [c \in Caller |-> "out"] /\ op = [c \in Caller |-> "none"]
  /\ id = [c \in Caller |-> NoAccount] /\ list = [c \in Caller |-> {}]
  /\ known = file /\ stale = {} /\ raced = {} /\ halted = {} /\ removed = {}
  /\ calls = 0 /\ faults = 0

Goto(c, p) == at' = [at EXCEPT ![c] = p]

Return(c) ==
  /\ Goto(c, "out")
  /\ op' = [op EXCEPT ![c] = "none"] /\ id' = [id EXCEPT ![c] = NoAccount]
  /\ list' = [list EXCEPT ![c] = {}]

Fault == faults < MaxFaults /\ faults' = faults + 1

\* The command acts on an account it found before the account's removal began.
Late(c) ==
  \/ id[c] \notin file
  \/ \E d \in Caller : /\ op[d] = "remove" /\ id[d] = id[c]
                       /\ at[d] \in {"load", "save", "erase", "data"}

NoteLate(c) == stale' = IF Late(c) THEN stale \union {id[c]} ELSE stale

-----------------------------------------------------------------------------
(* Commands begin *)

\* startConfiguredAccounts, before the window and the tray exist.
Boot(c) ==
  /\ ~booted /\ \A d \in Caller : at[d] = "out"
  /\ op' = [op EXCEPT ![c] = "boot"] /\ Goto(c, "find")
  /\ UNCHANGED <<dataVars, managerVars, booted, id, list, known, excuses, removed, bounds>>

\* AddImapAccount with a new id; or a command on an account of the window's list.
Command(c, o, a) ==
  /\ booted /\ at[c] = "out" /\ calls < MaxCalls
  /\ CASE o = "addImap" -> a \in Imap \ known
       [] o \in {"reauth", "connect"} -> a \in file \intersect Gmail
       [] o \in {"remove", "sync"} -> a \in file
       [] o \in {"gmail", "all"} -> a = NoAccount
       [] OTHER -> FALSE
  /\ op' = [op EXCEPT ![c] = o] /\ id' = [id EXCEPT ![c] = a]
  /\ Goto(c, CASE o = "addImap" -> "secret" [] o = "gmail" -> "consent"
               [] o = "remove" -> "lock" [] OTHER -> "find")
  /\ known' = IF o = "addImap" THEN known \union {a} ELSE known
  /\ calls' = calls + 1
  /\ UNCHANGED <<dataVars, managerVars, booted, list, excuses, removed, faults>>

-----------------------------------------------------------------------------
(* Looking up, signing in *)

\* accounts.Find, or accounts.Load of the commands on all accounts.
Find(c) ==
  /\ at[c] = "find"
  /\ \/ /\ op[c] \in {"boot", "all"}
        /\ list' = [list EXCEPT ![c] = file]
        /\ Goto(c, "next")
        /\ UNCHANGED <<op, id>>
     \/ /\ op[c] \notin {"boot", "all"} /\ id[c] \in file
        /\ Goto(c, CASE op[c] = "sync" -> "lock" [] op[c] = "reauth" -> "consent"
                     [] OTHER -> "refresh")
        /\ UNCHANGED <<op, id, list>>
     \/ op[c] \notin {"boot", "all"} /\ id[c] \notin file /\ Return(c)
  /\ UNCHANGED <<dataVars, managerVars, booted, known, excuses, removed, bounds>>

\* oauth.RunFlow; it fails, times out, or answers for another address.
Consent(c) ==
  /\ at[c] = "consent"
  /\ \/ Goto(c, IF op[c] = "gmail" THEN "lookup" ELSE "secret") /\ UNCHANGED <<op, id, list>>
     \/ Return(c)
  /\ UNCHANGED <<dataVars, managerVars, booted, known, excuses, removed, bounds>>

\* StartGmailOauth: the account of that address, and from here on what
\* ReauthGmailAccount does; or a new one.
Lookup(c) ==
  /\ at[c] = "lookup"
  /\ \/ \E a \in file \intersect Gmail :
          /\ op' = [op EXCEPT ![c] = "reauth"] /\ id' = [id EXCEPT ![c] = a]
          /\ UNCHANGED known
     \/ \E a \in Gmail \ known :
          /\ file \intersect Gmail = {}
          /\ id' = [id EXCEPT ![c] = a] /\ known' = known \union {a}
          /\ UNCHANGED op
  /\ Goto(c, "secret")
  /\ UNCHANGED <<dataVars, managerVars, booted, list, excuses, removed, bounds>>

\* SetImapPassword, SetOAuthRefreshToken and CacheToken.
StoreSecret(c) ==
  /\ at[c] = "secret"
  /\ keyring' = keyring \union {id[c]}
  /\ IF op[c] = "reauth" THEN NoteLate(c) ELSE UNCHANGED stale
  /\ Goto(c, CASE op[c] = "addImap" -> "validate" [] op[c] = "gmail" -> "load"
               [] OTHER -> "lock")
  /\ UNCHANGED <<file, rows, managerVars, booted, op, id, list, known, raced, halted,
                 removed, bounds>>

\* AddImapAccount's rollback, when the keyring deletes.
RolledBack(c) == keyring \ {id[c]}

\* AddImapAccount connects; refused, it deletes the password it stored
\* (DeleteSecrets, whose error is ignored) and gives up.
Validate(c) ==
  /\ at[c] = "validate"
  /\ \/ Goto(c, "load") /\ UNCHANGED <<keyring, halted, faults, op, id, list>>
     \/ /\ keyring' = RolledBack(c) /\ Return(c)
        /\ UNCHANGED <<halted, faults>>
     \/ /\ Fault /\ halted' = halted \union {id[c]} /\ Return(c)
        /\ UNCHANGED keyring
  /\ UNCHANGED <<file, rows, managerVars, booted, known, stale, raced, removed, calls>>

\* AccessToken of a command's session: reads the refresh token, exchanges it, and
\* stores the one that came back if Google rotated it.
Refresh(c) ==
  /\ at[c] = "refresh"
  /\ IF id[c] \in keyring THEN Goto(c, "rotate") /\ UNCHANGED <<op, id, list>> ELSE Return(c)
  /\ UNCHANGED <<dataVars, managerVars, booted, known, excuses, removed, bounds>>

Rotate(c) ==
  /\ at[c] = "rotate"
  /\ \/ keyring' = keyring \union {id[c]} /\ NoteLate(c)
     \/ UNCHANGED <<keyring, stale>>
  /\ Return(c)
  /\ UNCHANGED <<file, rows, managerVars, booted, known, raced, halted, removed, bounds>>

-----------------------------------------------------------------------------
(* accounts.Add and accounts.Remove: Load, then Save of the whole list *)

\* A removal that deletes the secret and never saves the list.
SecretsOnly(c) == IF op[c] = "remove" THEN "erase" ELSE "save"

\* Remove of an id that is not in the list changes nothing.
AfterLoad(c) == IF op[c] = "remove" /\ id[c] \notin file THEN "data" ELSE "save"

Load(c) ==
  /\ at[c] = "load"
  /\ list' = [list EXCEPT ![c] = file]
  /\ Goto(c, AfterLoad(c))
  /\ UNCHANGED <<dataVars, managerVars, booted, op, id, known, excuses, removed, bounds>>

\* Accounts of the loaded list that are no longer in the file, and vice versa.
Changed(c) == (file \ list[c]) \union (list[c] \ file)

Save(c) ==
  /\ at[c] = "save"
  /\ file' = IF op[c] = "remove" THEN list[c] \ {id[c]} ELSE list[c] \union {id[c]}
  /\ raced' = raced \union Changed(c)
  /\ Goto(c, IF op[c] = "remove" THEN "erase" ELSE "lock")
  /\ UNCHANGED <<keyring, rows, managerVars, booted, op, id, list, known, stale, halted,
                 removed, bounds>>

-----------------------------------------------------------------------------
(* The rest of RemoveAccount *)

\* DeleteSecrets, whose error is ignored, and Forget.
Erase(c) ==
  /\ at[c] = "erase"
  /\ \/ keyring' = keyring \ {id[c]} /\ UNCHANGED <<halted, faults>>
     \/ Fault /\ halted' = halted \union {id[c]} /\ UNCHANGED keyring
  /\ Goto(c, "data")
  /\ UNCHANGED <<file, rows, managerVars, booted, op, id, list, known, stale, raced,
                 removed, calls>>

DeleteAccountData(c) ==
  /\ at[c] = "data"
  /\ rows' = rows \ {id[c]} /\ removed' = removed \union {id[c]}
  /\ Return(c)
  /\ UNCHANGED <<file, keyring, managerVars, booted, known, excuses, bounds>>

-----------------------------------------------------------------------------
(* The manager's Start and Stop *)

\* The next account of a command on all of them.
NextOne(c) ==
  /\ at[c] = "next"
  /\ \/ \E a \in list[c] :
          /\ id' = [id EXCEPT ![c] = a] /\ list' = [list EXCEPT ![c] = @ \ {a}]
          /\ Goto(c, "lock")
          /\ UNCHANGED <<op, booted>>
     \/ /\ list[c] = {}
        /\ booted' = TRUE
        /\ Return(c)
  /\ UNCHANGED <<dataVars, managerVars, known, excuses, removed, bounds>>

\* A Stop that forgets to unlock.
NeverReleased(c) == c

\* What follows the join: Start spawns and keeps the mutex for it; Stop is done.
Released(c) == IF op[c] = "remove" THEN NoCaller ELSE c

AfterStop(c) == Goto(c, IF op[c] = "remove" THEN "load" ELSE "spawn")

\* RemoveAccount that leaves the loop alone.
NotStopped(c) == loop

\* stopLocked cancels the loop.
Stopped(c) == IF loop[id[c]] = "current" THEN [loop EXCEPT ![id[c]] = "retiring"] ELSE loop

StopLoop(c) ==
  /\ at[c] = "lock" /\ holder = NoCaller
  /\ loop' = Stopped(c)
  /\ IF loop'[id[c]] = "retiring" THEN holder' = c /\ Goto(c, "join")
                                  ELSE holder' = Released(c) /\ AfterStop(c)
  /\ UNCHANGED <<dataVars, lingering, booted, op, id, list, known, excuses, removed, bounds>>

\* The loop has exited, or StopTimeout passes.
Join(c) ==
  /\ at[c] = "join"
  /\ \/ loop[id[c]] = "none" /\ UNCHANGED <<loop, lingering, halted, faults>>
     \/ /\ Fault
        /\ loop' = [loop EXCEPT ![id[c]] = "none"]
        /\ lingering' = lingering \union {id[c]} /\ halted' = halted \union {id[c]}
  /\ holder' = Released(c) /\ AfterStop(c)
  /\ UNCHANGED <<dataVars, booted, op, id, list, known, stale, raced, removed, calls>>

Spawn(c) ==
  /\ at[c] = "spawn"
  /\ loop' = [loop EXCEPT ![id[c]] = "current"] /\ holder' = NoCaller
  /\ NoteLate(c)
  /\ IF op[c] \in {"boot", "all"} THEN Goto(c, "next") /\ UNCHANGED <<op, id, list>>
                                  ELSE Return(c)
  /\ UNCHANGED <<dataVars, lingering, booted, known, raced, halted, removed, bounds>>

-----------------------------------------------------------------------------
(* The loops, failures *)

\* A loop stores what it fetched, or the refresh token Google rotated, also after it
\* was cancelled.
LoopWrites(a) ==
  /\ loop[a] # "none" \/ a \in lingering
  /\ \/ rows' = rows \union {a} /\ UNCHANGED keyring
     \/ a \in Gmail /\ keyring' = keyring \union {a} /\ UNCHANGED rows
  /\ UNCHANGED <<file, managerVars, booted, commandVars, known, excuses, removed, bounds>>

LoopExits(a) ==
  /\ loop[a] = "retiring"
  /\ loop' = [loop EXCEPT ![a] = "none"]
  /\ UNCHANGED <<dataVars, lingering, holder, booted, commandVars, known, excuses, removed,
                 bounds>>

LingererExits(a) ==
  /\ a \in lingering
  /\ lingering' = lingering \ {a}
  /\ UNCHANGED <<dataVars, loop, holder, booted, commandVars, known, excuses, removed, bounds>>

Changing == {"addImap", "gmail", "remove"}

\* A statement fails and the command returns its error; a start that cannot read
\* accounts.json goes on without loops.
Fail(c) ==
  /\ at[c] \in {"find", "lookup", "secret", "load", "save", "data"}
  /\ Fault
  /\ halted' = halted \union IF op[c] \in Changing THEN {id[c]}
                             ELSE IF op[c] = "boot" THEN file ELSE {}
  /\ booted' = TRUE
  /\ Return(c)
  /\ UNCHANGED <<dataVars, managerVars, known, stale, raced, removed, calls>>

\* The process ends, and is started again.
Restart ==
  /\ booted /\ Fault
  /\ halted' = halted \union {id[c] : c \in {d \in Caller : op[d] \in Changing}}
  /\ loop' = [a \in Account |-> "none"] /\ lingering' = {} /\ holder' = NoCaller
  /\ booted' = FALSE
  /\ at' = [c \in Caller |-> "out"] /\ op' = [c \in Caller |-> "none"]
  /\ id' = [c \in Caller |-> NoAccount] /\ list' = [c \in Caller |-> {}]
  /\ UNCHANGED <<dataVars, known, stale, raced, removed, calls>>

Proceed(c) ==
  \/ Find(c) \/ Consent(c) \/ Lookup(c) \/ StoreSecret(c) \/ Validate(c) \/ Refresh(c)
  \/ Rotate(c) \/ Load(c) \/ Save(c) \/ Erase(c) \/ DeleteAccountData(c)
  \/ NextOne(c) \/ StopLoop(c) \/ Join(c) \/ Spawn(c)

Next ==
  \/ Restart
  \/ \E a \in Account : LoopWrites(a) \/ LoopExits(a) \/ LingererExits(a)
  \/ \E c \in Caller :
       \/ Boot(c) \/ Proceed(c) \/ Fail(c)
       \/ \E o \in Op, a \in Account \union {NoAccount} : Command(c, o, a)

\* The process starts its loops; a command's calls return, consent within its five
\* minutes; the mutex reaches every waiter; a cancelled loop exits, or is given up on.
Fairness ==
  /\ WF_vars(\E c \in Caller : Boot(c))
  /\ \A c \in Caller : WF_vars(Proceed(c)) /\ SF_vars(StopLoop(c))
  /\ \A a \in Account : WF_vars(LoopExits(a))

Spec == Init /\ [][Next]_vars /\ Fairness

-----------------------------------------------------------------------------
(* Properties *)

TypeOK ==
  /\ file \subseteq Account /\ keyring \subseteq Account /\ rows \subseteq Account
  /\ loop \in [Account -> {"none", "current", "retiring"}] /\ lingering \subseteq Account
  /\ holder \in Caller \union {NoCaller} /\ booted \in BOOLEAN
  /\ at \in [Caller -> {"out", "find", "consent", "lookup", "secret", "validate", "refresh",
                        "rotate", "load", "save", "erase", "data", "next", "lock", "join",
                        "spawn"}]
  /\ op \in [Caller -> Op \union {"none"}] /\ id \in [Caller -> Account \union {NoAccount}]
  /\ list \in [Caller -> SUBSET Account]
  /\ known \subseteq Account /\ stale \subseteq Account /\ raced \subseteq Account
  /\ halted \subseteq Account \union {NoAccount} /\ removed \subseteq Account
  /\ calls \in 0..MaxCalls /\ faults \in 0..MaxFaults
  /\ \A c \in Caller : holder = c => at[c] \in {"join", "spawn"}

\* Every listed account can sign in: an addition stores the secret before it lists
\* the account, a removal unlists it before it deletes the secret, so that neither a
\* failure nor the end of the process leaves a listed account without one.  A Save of
\* an outdated list can bring a removed account back.
ListedHasSecret == file \ raced \subseteq keyring

\* A command is adding the account id[c], which is not listed yet.
Adding(c) ==
  op[c] \in {"addImap", "gmail"} /\ at[c] \in {"secret", "validate", "load", "save"}

\* Which commands can be where, and which of them have an account.
PlaceInv ==
  \A c \in Caller :
    /\ at[c] = "find" => op[c] \in {"boot", "reauth", "sync", "all", "connect"}
    /\ at[c] = "consent" => op[c] \in {"gmail", "reauth"}
    /\ at[c] = "lookup" => op[c] = "gmail"
    /\ at[c] = "secret" => op[c] \in {"addImap", "gmail", "reauth"}
    /\ at[c] = "validate" => op[c] = "addImap"
    /\ at[c] \in {"refresh", "rotate"} => op[c] = "connect"
    /\ at[c] \in {"load", "save"} => op[c] \in Changing
    /\ at[c] \in {"erase", "data"} => op[c] = "remove"
    /\ at[c] = "next" => op[c] \in {"boot", "all"}
    /\ at[c] \in {"lock", "join", "spawn"} => op[c] \in Op \ {"connect"}
    /\ \/ id[c] \in Account \/ at[c] = "out"
       \/ op[c] \in {"boot", "all"} /\ at[c] \in {"find", "next"}
       \/ op[c] = "gmail" /\ at[c] \in {"consent", "lookup"}

\* Every id in use was given out.
KnownInv ==
  /\ file \subseteq known
  /\ \A c \in Caller : id[c] \in known \union {NoAccount} /\ list[c] \subseteq known

\* An account being added is the adder's alone, and has its secret once stored.
AddingInv ==
  \A c \in Caller : Adding(c) =>
    /\ id[c] \notin file
    /\ \A d \in Caller : id[c] \notin list[d] /\ (d # c => id[d] # id[c])
    /\ at[c] # "secret" => id[c] \in keyring

\* A removal is about to delete the secret of an account it has unlisted.
ErasingInv ==
  \A c \in Caller : at[c] = "erase" => id[c] \notin file \ raced

\* Together with ListedHasSecret and TypeOK inductive: an addition owns its id until
\* it is listed, so nobody deletes the secret it has stored.
AccountInv == PlaceInv /\ KnownInv /\ AddingInv /\ ErasingInv

Excused == stale \union raced \union halted

\* A caller is between the points p of a command o on account a.
Doing(o, p, a) == \E c \in Caller : op[c] \in o /\ at[c] \in p /\ id[c] = a

\* An account that is not listed has no loop, no rows, and no secret, save while it
\* is added or removed, and unless a command that had found it before acts on it,
\* its list was overwritten, its addition or removal was cut short, or the keyring
\* failed to delete its secret, an error that the removal and the rollback of a
\* refused addition ignore.
UnlistedHasNothing ==
  \A a \in Account \ (file \union Excused) :
    /\ loop[a] = "none" /\ a \notin lingering
    /\ a \in rows => Doing({"remove"}, {"erase", "data"}, a)
    /\ a \in keyring => \/ Doing({"addImap", "gmail"}, {"validate", "load", "save"}, a)
                        \/ Doing({"remove"}, {"erase"}, a)

\* Every listed account is synced in the end, whatever was restarted, re-added or
\* re-authenticated, with the same exceptions.
ListedAccountsSync ==
  <>[](booted => \A a \in file \ (raced \union halted) : loop[a] = "current")

-----------------------------------------------------------------------------
(* What a comment says beyond these *)

\* RemoveAccount removes an account, its cached data, secrets, and running sync task.
RemovedIsGone ==
  \A a \in removed :
    \/ \E c \in Caller : a \in list[c] \union {id[c]}
    \/ a \notin file \union keyring \union rows /\ loop[a] = "none"

=============================================================================

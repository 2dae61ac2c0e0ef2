----------------------- MODULE AccountLifecycleProofs -----------------------
(***************************************************************************)
(* Proofs about AccountLifecycle, for any accounts, any number of threads, *)
(* commands and failures: types, that every listed account has its secret, *)
(* and that an unlisted one has nothing.  The inductive invariant adds     *)
(* what AccountInv says of the commands under way: where each can be, that *)
(* an account being added is the adder's alone until it is listed, and     *)
(* that a removal deletes only the secret of an account it has unlisted;   *)
(* and that a removal past its Stop has left no loop behind.               *)
(***************************************************************************)
EXTENDS AccountLifecycle, TLAPS

USE DEF vars, dataVars, managerVars, commandVars, excuses, bounds

\* A removal past its Stop has left no loop, unless another command started one
\* again, and a loop that was given up on is remembered.
RemovingInv ==
  /\ lingering \subseteq halted
  /\ \A c \in Caller :
       op[c] = "remove" /\ at[c] \in {"load", "save"} /\ id[c] \notin Excused
         => loop[id[c]] = "none"

IInv == TypeOK /\ ListedHasSecret /\ AccountInv
LoopIInv == IInv /\ RemovingInv /\ UnlistedHasNothing

-----------------------------------------------------------------------------
(* Types, places, ids *)

\* Every step keeps the types, given where the commands are.
LEMMA TypeStep == TypeOK /\ PlaceInv /\ [Next]_vars => TypeOK'
  <1> SUFFICES ASSUME TypeOK /\ PlaceInv, [Next]_vars PROVE TypeOK'
    OBVIOUS
  <1> USE AccountLifecycleAssumption DEF TypeOK, PlaceInv, Fault, NoteLate, Op, Account,
             Changing, Goto, Return
  <1>1. CASE UNCHANGED vars
    BY <1>1
  <1>2. CASE Restart
    <2>1. {id[c] : c \in {d \in Caller : op[d] \in Changing}}
            \subseteq Account \union {NoAccount}
      OBVIOUS
    <2>2. halted' \subseteq Account \union {NoAccount} /\ faults' \in 0..MaxFaults
      BY <1>2, <2>1 DEF Restart, Fault
    <2>3. \A c \in Caller : holder' # c
      BY <1>2 DEF Restart
    <2>4. QED
      BY <1>2, <2>2, <2>3 DEF Restart
  <1>3. ASSUME NEW a \in Account, LoopWrites(a) \/ LoopExits(a) \/ LingererExits(a)
        PROVE  TypeOK'
    BY <1>3 DEF LoopWrites, LoopExits, LingererExits
  <1>4. ASSUME NEW c \in Caller, NEW o \in Op, NEW a \in Account \union {NoAccount},
               Command(c, o, a)
        PROVE  TypeOK'
    BY <1>4 DEF Command
  <1>5. ASSUME NEW c \in Caller, Boot(c) PROVE TypeOK'
    BY <1>5 DEF Boot
  <1>6. ASSUME NEW c \in Caller, Find(c) PROVE TypeOK'
    BY <1>6 DEF Find
  <1>7. ASSUME NEW c \in Caller, Consent(c) PROVE TypeOK'
    BY <1>7 DEF Consent
  <1>8. ASSUME NEW c \in Caller, Lookup(c) PROVE TypeOK'
    BY <1>8 DEF Lookup
  <1>9. ASSUME NEW c \in Caller, StoreSecret(c) PROVE TypeOK'
    BY <1>9 DEF StoreSecret
  <1>10. ASSUME NEW c \in Caller, Validate(c) PROVE TypeOK'
    BY <1>10 DEF Validate, RolledBack
  <1>11. ASSUME NEW c \in Caller, Refresh(c) PROVE TypeOK'
    BY <1>11 DEF Refresh
  <1>12. ASSUME NEW c \in Caller, Rotate(c) PROVE TypeOK'
    BY <1>12 DEF Rotate
  <1>13. ASSUME NEW c \in Caller, Load(c) PROVE TypeOK'
    BY <1>13 DEF Load, AfterLoad
  <1>14. ASSUME NEW c \in Caller, Save(c) PROVE TypeOK'
    BY <1>14 DEF Save, Changed
  <1>15. ASSUME NEW c \in Caller, Erase(c) PROVE TypeOK'
    BY <1>15 DEF Erase
  <1>16. ASSUME NEW c \in Caller, DeleteAccountData(c) PROVE TypeOK'
    BY <1>16 DEF DeleteAccountData
  <1>17. ASSUME NEW c \in Caller, NextOne(c) PROVE TypeOK'
    <2>1. holder # c
      BY <1>17 DEF NextOne
    <2>2. id' \in [Caller -> Account \union {NoAccount}] /\ list' \in [Caller -> SUBSET Account]
      BY <1>17 DEF NextOne
    <2>3. QED
      BY <1>17, <2>1, <2>2, ZenonT(60) DEF NextOne
  <1>18. ASSUME NEW c \in Caller, StopLoop(c) PROVE TypeOK'
    BY <1>18 DEF StopLoop, Stopped, Released, AfterStop
  <1>19. ASSUME NEW c \in Caller, Join(c) PROVE TypeOK'
    BY <1>19 DEF Join, Released, AfterStop
  <1>20. ASSUME NEW c \in Caller, Spawn(c) PROVE TypeOK'
    BY <1>20 DEF Spawn
  <1>21. ASSUME NEW c \in Caller, Fail(c) PROVE TypeOK'
    BY <1>21 DEF Fail
  <1>22. QED
    BY <1>1, <1>2, <1>3, <1>4, <1>5, <1>6, <1>7, <1>8, <1>9, <1>10, <1>11, <1>12, <1>13, <1>14,
       <1>15, <1>16, <1>17, <1>18, <1>19, <1>20, <1>21 DEF Next, Proceed

\* Every step leaves each command where PlaceInv says.
LEMMA PlaceStep == TypeOK /\ PlaceInv /\ [Next]_vars => PlaceInv'
  <1> SUFFICES ASSUME TypeOK /\ PlaceInv, [Next]_vars PROVE PlaceInv'
    OBVIOUS
  <1> USE AccountLifecycleAssumption DEF TypeOK, PlaceInv, Op, Account, Changing, Goto,
             Return
  <1>1. CASE UNCHANGED vars
    BY <1>1
  <1>2. CASE Restart
    BY <1>2 DEF Restart
  <1>3. ASSUME NEW a \in Account, LoopWrites(a) \/ LoopExits(a) \/ LingererExits(a)
        PROVE  PlaceInv'
    BY <1>3 DEF LoopWrites, LoopExits, LingererExits
  <1>4. ASSUME NEW c \in Caller, NEW o \in Op, NEW a \in Account \union {NoAccount},
               Command(c, o, a)
        PROVE  PlaceInv'
    BY <1>4 DEF Command
  <1>5. ASSUME NEW c \in Caller, Boot(c) PROVE PlaceInv'
    BY <1>5 DEF Boot
  <1>6. ASSUME NEW c \in Caller, Find(c) PROVE PlaceInv'
    BY <1>6 DEF Find
  <1>7. ASSUME NEW c \in Caller, Consent(c) PROVE PlaceInv'
    BY <1>7 DEF Consent
  <1>8. ASSUME NEW c \in Caller, Lookup(c) PROVE PlaceInv'
    BY <1>8 DEF Lookup
  <1>9. ASSUME NEW c \in Caller, StoreSecret(c) PROVE PlaceInv'
    BY <1>9 DEF StoreSecret
  <1>10. ASSUME NEW c \in Caller, Validate(c) PROVE PlaceInv'
    BY <1>10 DEF Validate, RolledBack
  <1>11. ASSUME NEW c \in Caller, Refresh(c) PROVE PlaceInv'
    BY <1>11 DEF Refresh
  <1>12. ASSUME NEW c \in Caller, Rotate(c) PROVE PlaceInv'
    BY <1>12 DEF Rotate
  <1>13. ASSUME NEW c \in Caller, Load(c) PROVE PlaceInv'
    BY <1>13 DEF Load, AfterLoad
  <1>14. ASSUME NEW c \in Caller, Save(c) PROVE PlaceInv'
    BY <1>14 DEF Save, Changed
  <1>15. ASSUME NEW c \in Caller, Erase(c) PROVE PlaceInv'
    BY <1>15 DEF Erase
  <1>16. ASSUME NEW c \in Caller, DeleteAccountData(c) PROVE PlaceInv'
    BY <1>16 DEF DeleteAccountData
  <1>17. ASSUME NEW c \in Caller, NextOne(c) PROVE PlaceInv'
    BY <1>17 DEF NextOne
  <1>18. ASSUME NEW c \in Caller, StopLoop(c) PROVE PlaceInv'
    BY <1>18 DEF StopLoop, Stopped, Released, AfterStop
  <1>19. ASSUME NEW c \in Caller, Join(c) PROVE PlaceInv'
    BY <1>19 DEF Join, Released, AfterStop
  <1>20. ASSUME NEW c \in Caller, Spawn(c) PROVE PlaceInv'
    BY <1>20 DEF Spawn
  <1>21. ASSUME NEW c \in Caller, Fail(c) PROVE PlaceInv'
    BY <1>21 DEF Fail
  <1>22. QED
    BY <1>1, <1>2, <1>3, <1>4, <1>5, <1>6, <1>7, <1>8, <1>9, <1>10, <1>11, <1>12, <1>13, <1>14,
       <1>15, <1>16, <1>17, <1>18, <1>19, <1>20, <1>21 DEF Next, Proceed

\* Ids enter the file, the lists and the commands only when they are given out.
LEMMA KnownStep == TypeOK /\ PlaceInv /\ KnownInv /\ [Next]_vars => KnownInv'
  <1> SUFFICES ASSUME TypeOK /\ PlaceInv /\ KnownInv, [Next]_vars PROVE KnownInv'
    OBVIOUS
  <1> USE AccountLifecycleAssumption DEF TypeOK, PlaceInv, KnownInv, Op, Account,
             Changing, Goto, Return
  <1>1. CASE UNCHANGED vars
    BY <1>1
  <1>2. CASE Restart
    BY <1>2 DEF Restart
  <1>3. ASSUME NEW a \in Account, LoopWrites(a) \/ LoopExits(a) \/ LingererExits(a)
        PROVE  KnownInv'
    BY <1>3 DEF LoopWrites, LoopExits, LingererExits
  <1>4. ASSUME NEW c \in Caller, NEW o \in Op, NEW a \in Account \union {NoAccount},
               Command(c, o, a)
        PROVE  KnownInv'
    BY <1>4 DEF Command
  <1>5. ASSUME NEW c \in Caller, Boot(c) PROVE KnownInv'
    BY <1>5 DEF Boot
  <1>6. ASSUME NEW c \in Caller, Find(c) PROVE KnownInv'
    BY <1>6 DEF Find
  <1>7. ASSUME NEW c \in Caller, Consent(c) PROVE KnownInv'
    BY <1>7 DEF Consent
  <1>8. ASSUME NEW c \in Caller, Lookup(c) PROVE KnownInv'
    BY <1>8 DEF Lookup
  <1>9. ASSUME NEW c \in Caller, StoreSecret(c) PROVE KnownInv'
    BY <1>9 DEF StoreSecret
  <1>10. ASSUME NEW c \in Caller, Validate(c) PROVE KnownInv'
    BY <1>10 DEF Validate, RolledBack
  <1>11. ASSUME NEW c \in Caller, Refresh(c) PROVE KnownInv'
    BY <1>11 DEF Refresh
  <1>12. ASSUME NEW c \in Caller, Rotate(c) PROVE KnownInv'
    BY <1>12 DEF Rotate
  <1>13. ASSUME NEW c \in Caller, Load(c) PROVE KnownInv'
    BY <1>13 DEF Load, AfterLoad
  <1>14. ASSUME NEW c \in Caller, Save(c) PROVE KnownInv'
    BY <1>14 DEF Save, Changed
  <1>15. ASSUME NEW c \in Caller, Erase(c) PROVE KnownInv'
    BY <1>15 DEF Erase
  <1>16. ASSUME NEW c \in Caller, DeleteAccountData(c) PROVE KnownInv'
    BY <1>16 DEF DeleteAccountData
  <1>17. ASSUME NEW c \in Caller, NextOne(c) PROVE KnownInv'
    BY <1>17 DEF NextOne
  <1>18. ASSUME NEW c \in Caller, StopLoop(c) PROVE KnownInv'
    BY <1>18 DEF StopLoop, Stopped, Released, AfterStop
  <1>19. ASSUME NEW c \in Caller, Join(c) PROVE KnownInv'
    BY <1>19 DEF Join, Released, AfterStop
  <1>20. ASSUME NEW c \in Caller, Spawn(c) PROVE KnownInv'
    BY <1>20 DEF Spawn
  <1>21. ASSUME NEW c \in Caller, Fail(c) PROVE KnownInv'
    BY <1>21 DEF Fail
  <1>22. QED
    BY <1>1, <1>2, <1>3, <1>4, <1>5, <1>6, <1>7, <1>8, <1>9, <1>10, <1>11, <1>12, <1>13, <1>14,
       <1>15, <1>16, <1>17, <1>18, <1>19, <1>20, <1>21 DEF Next, Proceed

-----------------------------------------------------------------------------
(* Listed accounts and their secrets *)

\* An addition keeps its account to itself: a new id is in no list and no command's,
\* other commands find their ids in lists, and nobody else deletes its secret.
LEMMA AddingStep == IInv /\ [Next]_vars => AddingInv'
  <1> SUFFICES ASSUME IInv, [Next]_vars PROVE AddingInv'
    OBVIOUS
  <1> USE AccountLifecycleAssumption DEF IInv, TypeOK, PlaceInv, KnownInv, AddingInv,
             AccountInv, Adding, Op, Account, Changing, Goto, Return
  <1>1. CASE UNCHANGED vars
    BY <1>1
  <1>2. CASE Restart
    BY <1>2 DEF Restart
  <1>3. ASSUME NEW a \in Account, LoopWrites(a) \/ LoopExits(a) \/ LingererExits(a)
        PROVE  AddingInv'
    BY <1>3 DEF LoopWrites, LoopExits, LingererExits
  <1>4. ASSUME NEW c \in Caller, NEW o \in Op, NEW a \in Account \union {NoAccount},
               Command(c, o, a)
        PROVE  AddingInv'
    BY <1>4 DEF Command
  <1>5. ASSUME NEW c \in Caller, Boot(c) PROVE AddingInv'
    BY <1>5 DEF Boot
  <1>6. ASSUME NEW c \in Caller, Find(c) PROVE AddingInv'
    BY <1>6 DEF Find
  <1>7. ASSUME NEW c \in Caller, Consent(c) PROVE AddingInv'
    BY <1>7 DEF Consent
  <1>8. ASSUME NEW c \in Caller, Lookup(c) PROVE AddingInv'
    BY <1>8 DEF Lookup
  <1>9. ASSUME NEW c \in Caller, StoreSecret(c) PROVE AddingInv'
    BY <1>9 DEF StoreSecret
  <1>10. ASSUME NEW c \in Caller, Validate(c) PROVE AddingInv'
    BY <1>10 DEF Validate, RolledBack
  <1>11. ASSUME NEW c \in Caller, Refresh(c) PROVE AddingInv'
    BY <1>11 DEF Refresh
  <1>12. ASSUME NEW c \in Caller, Rotate(c) PROVE AddingInv'
    BY <1>12 DEF Rotate
  <1>13. ASSUME NEW c \in Caller, Load(c) PROVE AddingInv'
    BY <1>13 DEF Load, AfterLoad
  <1>14. ASSUME NEW c \in Caller, Save(c) PROVE AddingInv'
    BY <1>14 DEF Save, Changed
  <1>15. ASSUME NEW c \in Caller, Erase(c) PROVE AddingInv'
    BY <1>15 DEF Erase
  <1>16. ASSUME NEW c \in Caller, DeleteAccountData(c) PROVE AddingInv'
    BY <1>16 DEF DeleteAccountData
  <1>17. ASSUME NEW c \in Caller, NextOne(c) PROVE AddingInv'
    BY <1>17 DEF NextOne
  <1>18. ASSUME NEW c \in Caller, StopLoop(c) PROVE AddingInv'
    BY <1>18 DEF StopLoop, Stopped, Released, AfterStop
  <1>19. ASSUME NEW c \in Caller, Join(c) PROVE AddingInv'
    BY <1>19 DEF Join, Released, AfterStop
  <1>20. ASSUME NEW c \in Caller, Spawn(c) PROVE AddingInv'
    BY <1>20 DEF Spawn
  <1>21. ASSUME NEW c \in Caller, Fail(c) PROVE AddingInv'
    BY <1>21 DEF Fail
  <1>22. QED
    BY <1>1, <1>2, <1>3, <1>4, <1>5, <1>6, <1>7, <1>8, <1>9, <1>10, <1>11, <1>12, <1>13, <1>14,
       <1>15, <1>16, <1>17, <1>18, <1>19, <1>20, <1>21 DEF Next, Proceed

\* Only these steps write the file or the keyring.
LEMMA DataSteps ==
  [Next]_vars =>
    \/ UNCHANGED <<file, keyring, raced>>
    \/ \E a \in Account : LoopWrites(a)
    \/ \E c \in Caller : StoreSecret(c) \/ Validate(c) \/ Rotate(c) \/ Save(c) \/ Erase(c)
  BY DEF Next, Proceed, Restart, LoopWrites, LoopExits, LingererExits, Boot, Command, Find,
         Consent, Lookup, Refresh, Load, DeleteAccountData, NextOne, StopLoop, Join, Spawn,
         Fail

\* A Save keeps to the file as it is, except where it was changed since the Load.
LEMMA SaveKeeps ==
  ASSUME TypeOK, NEW c \in Caller, Save(c)
  PROVE  /\ op[c] = "remove" => file' \ raced' \subseteq (file \ raced) \ {id[c]}
         /\ op[c] # "remove" => file' \ raced' \subseteq (file \ raced) \union {id[c]}
  BY DEF TypeOK, Save, Changed

\* Every step keeps the secrets of the listed accounts.
LEMMA SecretStep == IInv /\ [Next]_vars => ListedHasSecret'
  <1> SUFFICES ASSUME IInv, [Next]_vars PROVE ListedHasSecret'
    OBVIOUS
  <1> USE DEF IInv, ListedHasSecret
  <1>1. CASE UNCHANGED <<file, keyring, raced>>
    BY <1>1
  <1>2. ASSUME NEW a \in Account, LoopWrites(a) PROVE ListedHasSecret'
    BY <1>2 DEF LoopWrites
  <1>3. ASSUME NEW c \in Caller, StoreSecret(c) \/ Rotate(c) PROVE ListedHasSecret'
    BY <1>3 DEF StoreSecret, Rotate
  <1>4. ASSUME NEW c \in Caller, Validate(c) PROVE ListedHasSecret'
    <2>1. id[c] \notin file
      BY <1>4 DEF Validate, AccountInv, PlaceInv, AddingInv, Adding
    <2>2. QED
      BY <1>4, <2>1 DEF Validate, RolledBack
  <1>5. ASSUME NEW c \in Caller, Save(c) PROVE ListedHasSecret'
    <2>1. op[c] # "remove" => id[c] \in keyring
      BY <1>5 DEF Save, AccountInv, PlaceInv, Changing, AddingInv, Adding
    <2>2. keyring' = keyring
      BY <1>5 DEF Save
    <2>3. QED
      BY <1>5, <2>1, <2>2, SaveKeeps
  <1>6. ASSUME NEW c \in Caller, Erase(c) PROVE ListedHasSecret'
    <2>1. id[c] \notin file \ raced
      BY <1>6 DEF Erase, AccountInv, ErasingInv
    <2>2. QED
      BY <1>6, <2>1 DEF Erase
  <1>7. QED
    BY <1>1, <1>2, <1>3, <1>4, <1>5, <1>6, DataSteps

\* A command comes to delete a secret only by its own Save; the account stays unlisted
\* because another command's Save lists only what was, or an account of its own.
LEMMA ErasingStep == IInv /\ [Next]_vars => ErasingInv'
  <1> SUFFICES ASSUME IInv, [Next]_vars, NEW d \in Caller, at'[d] = "erase"
               PROVE  id'[d] \notin file' \ raced'
    BY DEF ErasingInv
  <1> USE DEF IInv, AccountInv, ErasingInv
  <1>1. ASSUME NEW c \in Caller, Save(c) PROVE id'[d] \notin file' \ raced'
    <2>1. id' = id
      BY <1>1 DEF Save
    <2>2. CASE c = d
      BY <1>1, <2>1, <2>2, SaveKeeps DEF Save, Goto, TypeOK
    <2>3. CASE c # d
      <3>1. at[d] = "erase"
        BY <1>1, <2>3 DEF Save, Goto, TypeOK
      <3>2. op[c] # "remove" => id[c] # id[d]
        BY <1>1, <2>3 DEF Save, PlaceInv, Changing, AddingInv, Adding
      <3>3. QED
        BY <1>1, <2>1, <3>1, <3>2, SaveKeeps
    <2>4. QED
      BY <2>2, <2>3
  <1>2. CASE \A c \in Caller : ~Save(c)
    <2>1. file' = file /\ raced' = raced
      BY <1>2, DataSteps DEF LoopWrites, StoreSecret, Validate, Rotate, Erase
    <2>2. at[d] = "erase" /\ id'[d] = id[d]
      BY <1>2 DEF TypeOK, Next, Proceed, Restart, LoopWrites, LoopExits, LingererExits,
         Boot, Command, Find, Consent, Lookup, StoreSecret, Validate, Refresh, Rotate, Load,
         AfterLoad, Erase, DeleteAccountData, NextOne, StopLoop, Join, AfterStop, Spawn,
         Fail, Goto, Return
    <2>3. QED
      BY <2>1, <2>2
  <1>3. QED
    BY <1>1, <1>2

-----------------------------------------------------------------------------
(* Unlisted accounts *)

\* What was excused stays so.
LEMMA ExcusedStays == [Next]_vars => Excused \subseteq Excused'
  <1> SUFFICES ASSUME [Next]_vars PROVE Excused \subseteq Excused'
    OBVIOUS
  <1> USE DEF Excused
  <1>1. stale \subseteq stale' /\ raced \subseteq raced' /\ halted \subseteq halted'
    BY DEF Next, Proceed, Restart, LoopWrites, LoopExits, LingererExits, Boot, Command, Find,
       Consent, Lookup, StoreSecret, Validate, Refresh, Rotate, Load, Save, Erase,
       DeleteAccountData, NextOne, StopLoop, Join, Spawn, Fail, NoteLate
  <1>2. QED
    BY <1>1

\* Only these commands act on loops; the others leave them, and no command stops
\* being a removal at load or save but by its own step.
LEMMA RemovingStep == IInv /\ RemovingInv /\ [Next]_vars => RemovingInv'
  <1> SUFFICES ASSUME IInv, RemovingInv, [Next]_vars PROVE RemovingInv'
    OBVIOUS
  <1> USE DEF IInv, TypeOK, Goto, Return
  <1>1. lingering' \subseteq halted'
    BY DEF RemovingInv, Next, Proceed, Restart, LoopWrites, LoopExits, LingererExits, Boot,
       Command, Find, Consent, Lookup, StoreSecret, Validate, Refresh, Rotate, Load, Save,
       Erase, DeleteAccountData, NextOne, StopLoop, Join, Spawn, Fail
  <1>2. ASSUME NEW d \in Caller, op'[d] = "remove", at'[d] \in {"load", "save"},
               id'[d] \notin Excused'
        PROVE  loop'[id'[d]] = "none"
    <2>1. id'[d] \notin Excused
      BY <1>2, ExcusedStays
    <2>2. CASE StopLoop(d) \/ Join(d)
      <3>1. id[d] \in Account /\ id' = id
        BY <2>2 DEF StopLoop, Join, AccountInv, PlaceInv
      <3>2. CASE StopLoop(d)
        BY <1>2, <3>1, <3>2 DEF StopLoop, Stopped, AfterStop, Released
      <3>3. CASE Join(d)
        BY <1>2, <3>1, <3>3 DEF Join, Excused
      <3>4. QED
        BY <2>2, <3>2, <3>3
    <2>3. CASE ~(StopLoop(d) \/ Join(d))
      <3>1. op[d] = "remove" /\ at[d] \in {"load", "save"} /\ id'[d] = id[d]
        BY <1>2, <2>3 DEF AccountInv, PlaceInv, Next, Proceed, Restart, LoopWrites, LoopExits,
           LingererExits, Boot, Command, Find, Consent, Lookup, StoreSecret, Validate, Refresh,
           Rotate, Load, AfterLoad, Save, Erase, DeleteAccountData, NextOne, StopLoop, Join,
           AfterStop, Spawn, Fail
      <3>2. loop[id[d]] = "none" /\ id[d] \in Account
        BY <2>1, <3>1 DEF RemovingInv, AccountInv, PlaceInv
      <3>3. ASSUME NEW c \in Caller, Spawn(c) PROVE id[c] # id[d]
        BY <1>2, <3>1, <3>3 DEF Spawn, NoteLate, Late, Excused
      <3>4. loop'[id[d]] = "none"
        BY <3>2, <3>3 DEF AccountInv, PlaceInv, Next, Proceed, Restart, LoopWrites, LoopExits,
           LingererExits, Boot, Command, Find, Consent, Lookup, StoreSecret, Validate, Refresh,
           Rotate, Load, Save, Erase, DeleteAccountData, NextOne, StopLoop, Stopped, Join,
           Spawn, Fail
      <3>5. QED
        BY <3>1, <3>4
    <2>4. QED
      BY <2>2, <2>3
  <1>3. QED
    BY <1>1, <1>2 DEF RemovingInv

\* What UnlistedHasNothing says of an account.
HasNothing(a) ==
  /\ loop[a] = "none" /\ a \notin lingering
  /\ a \in rows => Doing({"remove"}, {"erase", "data"}, a)
  /\ a \in keyring => \/ Doing({"addImap", "gmail"}, {"validate", "load", "save"}, a)
                      \/ Doing({"remove"}, {"erase"}, a)

\* A Save that drops an account from the file without excuse is the removal's own:
\* no loop is left, and the rows and the secret go next.
LEMMA SaveUnlists ==
  ASSUME LoopIInv, NEW c \in Caller, Save(c), NEW a \in Account,
         a \notin file' \union Excused'
  PROVE  HasNothing(a)'
  <1> USE DEF LoopIInv, IInv, TypeOK, Save, Goto
  <1>1. a \notin Excused /\ a \notin raced' /\ a \notin halted
    BY ExcusedStays DEF Excused
  <1>2. CASE a \in file
    <2>1. op[c] = "remove" /\ id[c] = a
      BY <1>1, <1>2 DEF Changed, Excused
    <2>2. loop[a] = "none" /\ a \notin lingering
      BY <1>1, <2>1 DEF RemovingInv
    <2>3. op'[c] = "remove" /\ at'[c] = "erase" /\ id'[c] = a
      BY <2>1
    <2>4. QED
      BY <2>2, <2>3 DEF HasNothing, Doing
  <1>3. CASE a \notin file
    <2>1. HasNothing(a)
      BY <1>1, <1>3 DEF UnlistedHasNothing, HasNothing
    <2>2. op[c] \in {"addImap", "gmail"} => id[c] # a
      OBVIOUS
    <2>3. QED
      BY <2>1, <2>2 DEF HasNothing, Doing
  <1>4. QED
    BY <1>2, <1>3

\* Every other step leaves an unlisted account without a loop, rows and secret: what
\* starts a loop or stores a secret for it had found it before, or is adding it.
LEMMA UnlistedStep == LoopIInv /\ [Next]_vars => UnlistedHasNothing'
  <1> SUFFICES ASSUME LoopIInv, [Next]_vars, NEW a \in Account,
                      a \notin file' \union Excused'
               PROVE  HasNothing(a)'
    BY DEF UnlistedHasNothing, HasNothing
  <1>0. ASSUME NEW c \in Caller, Save(c) PROVE HasNothing(a)'
    BY <1>0, SaveUnlists
  <1>30. ASSUME \A c \in Caller : ~Save(c)
        PROVE  a \notin file /\ a \notin Excused /\ HasNothing(a)
    <2>1. file' = file
      BY <1>30, DataSteps DEF LoopWrites, StoreSecret, Validate, Rotate, Erase
    <2>2. a \notin file /\ a \notin Excused
      BY <2>1, ExcusedStays
    <2>3. QED
      BY <2>2 DEF LoopIInv, UnlistedHasNothing, HasNothing
  <1> USE DEF LoopIInv, IInv, TypeOK, Goto, Return, HasNothing, Doing, Excused
  <1>1. CASE (\A c \in Caller : ~Save(c)) /\ UNCHANGED vars
    BY <1>1, <1>30
  <1>2. CASE (\A c \in Caller : ~Save(c)) /\ Restart
    BY <1>2, <1>30 DEF Restart, Changing, AccountInv, PlaceInv
  <1>3. ASSUME \A c \in Caller : ~Save(c),
               NEW b \in Account, LoopWrites(b) \/ LoopExits(b) \/ LingererExits(b)
        PROVE  HasNothing(a)'
    BY <1>3, <1>30 DEF LoopWrites, LoopExits, LingererExits
  <1>4. ASSUME \A c \in Caller : ~Save(c), NEW c \in Caller, NEW o \in Op,
               NEW b \in Account \union {NoAccount}, Command(c, o, b)
        PROVE  HasNothing(a)'
    BY <1>4, <1>30 DEF Command, AccountInv, PlaceInv
  <1>5. ASSUME \A c \in Caller : ~Save(c), NEW c \in Caller, Boot(c) PROVE HasNothing(a)'
    BY <1>5, <1>30 DEF Boot
  <1>6. ASSUME \A d \in Caller : ~Save(d), NEW c \in Caller, Find(c) PROVE HasNothing(a)'
    BY <1>6, <1>30 DEF Find, AccountInv, PlaceInv
  <1>7. ASSUME \A d \in Caller : ~Save(d), NEW c \in Caller, Consent(c) PROVE HasNothing(a)'
    BY <1>7, <1>30 DEF Consent, AccountInv, PlaceInv
  <1>8. ASSUME \A d \in Caller : ~Save(d), NEW c \in Caller, Lookup(c) PROVE HasNothing(a)'
    BY <1>8, <1>30 DEF Lookup, AccountInv, PlaceInv
  <1>9. ASSUME \A d \in Caller : ~Save(d), NEW c \in Caller, StoreSecret(c) PROVE HasNothing(a)'
    BY <1>9, <1>30 DEF StoreSecret, NoteLate, Late, AccountInv, PlaceInv
  <1>10. ASSUME \A d \in Caller : ~Save(d), NEW c \in Caller, Validate(c) PROVE HasNothing(a)'
    BY <1>10, <1>30 DEF Validate, RolledBack, AccountInv, PlaceInv
  <1>11. ASSUME \A d \in Caller : ~Save(d), NEW c \in Caller, Refresh(c) PROVE HasNothing(a)'
    BY <1>11, <1>30 DEF Refresh, AccountInv, PlaceInv
  <1>12. ASSUME \A d \in Caller : ~Save(d), NEW c \in Caller, Rotate(c) PROVE HasNothing(a)'
    BY <1>12, <1>30 DEF Rotate, NoteLate, Late, AccountInv, PlaceInv
  <1>13. ASSUME \A d \in Caller : ~Save(d), NEW c \in Caller, Load(c) PROVE HasNothing(a)'
    BY <1>13, <1>30 DEF Load, AfterLoad, AccountInv, PlaceInv
  <1>14. ASSUME \A d \in Caller : ~Save(d), NEW c \in Caller, Erase(c) PROVE HasNothing(a)'
    BY <1>14, <1>30 DEF Erase, AccountInv, PlaceInv
  <1>15. ASSUME \A d \in Caller : ~Save(d), NEW c \in Caller, DeleteAccountData(c) PROVE HasNothing(a)'
    BY <1>15, <1>30 DEF DeleteAccountData, AccountInv, PlaceInv
  <1>16. ASSUME \A d \in Caller : ~Save(d), NEW c \in Caller, NextOne(c) PROVE HasNothing(a)'
    BY <1>16, <1>30 DEF NextOne, AccountInv, PlaceInv
  <1>17. ASSUME \A d \in Caller : ~Save(d), NEW c \in Caller, StopLoop(c) PROVE HasNothing(a)'
    BY <1>17, <1>30 DEF StopLoop, Stopped, Released, AfterStop, AccountInv, PlaceInv
  <1>18. ASSUME \A d \in Caller : ~Save(d), NEW c \in Caller, Join(c) PROVE HasNothing(a)'
    BY <1>18, <1>30 DEF Join, Released, AfterStop, AccountInv, PlaceInv
  <1>19. ASSUME \A d \in Caller : ~Save(d), NEW c \in Caller, Spawn(c) PROVE HasNothing(a)'
    BY <1>19, <1>30 DEF Spawn, NoteLate, Late, AccountInv, PlaceInv
  <1>20. ASSUME \A d \in Caller : ~Save(d), NEW c \in Caller, Fail(c) PROVE HasNothing(a)'
    BY <1>20, <1>30 DEF Fail, Changing, AccountInv, PlaceInv
  <1>21. QED
    BY <1>0, <1>1, <1>2, <1>3, <1>4, <1>5, <1>6, <1>7, <1>8, <1>9, <1>10, <1>11, <1>12, <1>13, <1>14, <1>15, <1>16, <1>17, <1>18, <1>19, <1>20 DEF Next, Proceed

-----------------------------------------------------------------------------
(* Theorems *)

\* What earlier processes left is consistent, and no command is under way.
LEMMA Initially == Init => IInv
  <1> SUFFICES ASSUME Init PROVE IInv
    OBVIOUS
  <1> USE AccountLifecycleAssumption DEF Init, Account
  <1>1. TypeOK
    <2>1. file \subseteq Account /\ keyring \subseteq Account /\ rows \subseteq Account
      OBVIOUS
    <2>2. /\ at = [c \in Caller |-> "out"] /\ op = [c \in Caller |-> "none"]
          /\ id = [c \in Caller |-> NoAccount] /\ list = [c \in Caller |-> {}]
          /\ loop = [a \in Account |-> "none"]
      OBVIOUS
    <2>3. \A c \in Caller : holder # c
      OBVIOUS
    <2>4. calls \in 0..MaxCalls /\ faults \in 0..MaxFaults
      OBVIOUS
    <2>5. /\ known \subseteq Account /\ stale = {} /\ raced = {} /\ halted = {} /\ removed = {}
          /\ lingering = {} /\ booted = FALSE /\ holder = NoCaller
      OBVIOUS
    <2>6. QED
      BY <2>1, <2>2, <2>3, <2>4, <2>5 DEF TypeOK
  <1>2. ListedHasSecret
    BY DEF ListedHasSecret
  <1>3. PlaceInv /\ KnownInv
    BY DEF PlaceInv, KnownInv
  <1>4. AddingInv /\ ErasingInv
    BY DEF AddingInv, ErasingInv, Adding
  <1>5. QED
    BY <1>1, <1>2, <1>3, <1>4 DEF IInv, AccountInv

\* Together the invariants of AccountLifecycle hold in every state.
THEOREM InductiveInvariance == Spec => []IInv
  <1>1. Init => IInv
    BY Initially
  <1>2. IInv /\ [Next]_vars => IInv'
    BY TypeStep, PlaceStep, KnownStep, AddingStep, SecretStep, ErasingStep
       DEF IInv, AccountInv
  <1>3. QED
    BY <1>1, <1>2, PTL DEF Spec

\* The file, the keyring, the store, the manager and the commands keep their types, and
\* the mutex is held only by a command that joins or starts a loop.
THEOREM TypeInvariance == Spec => []TypeOK
  <1>1. IInv => TypeOK
    BY DEF IInv
  <1>2. QED
    BY <1>1, InductiveInvariance, PTL

\* Where the commands are, which ids they know, whose an account being added is, and
\* what a removal may delete.
THEOREM Commands == Spec => []AccountInv
  <1>1. IInv => AccountInv
    BY DEF IInv
  <1>2. QED
    BY <1>1, InductiveInvariance, PTL

\* Every account accounts.json lists has its secret, however commands interleave, fail
\* or end with the process, except one that an outdated list brought back.
THEOREM ListedHaveSecrets == Spec => []ListedHasSecret
  <1>1. IInv => ListedHasSecret
    BY DEF IInv
  <1>2. QED
    BY <1>1, InductiveInvariance, PTL

\* An account that accounts.json does not list has no loop, no rows and no secret, save
\* while it is added or removed, and but for what Excused names: a command that had found
\* it before its removal, a list that was overwritten, a step that was cut short.
THEOREM UnlistedHaveNothing == Spec => []UnlistedHasNothing
  <1>1. Init => LoopIInv
    BY Initially DEF Init, LoopIInv, RemovingInv, UnlistedHasNothing, HasNothing
  <1>2. LoopIInv /\ [Next]_vars => LoopIInv'
    <2>1. IInv /\ [Next]_vars => IInv'
      BY TypeStep, PlaceStep, KnownStep, AddingStep, SecretStep, ErasingStep
         DEF IInv, AccountInv
    <2>2. QED
      BY <2>1, RemovingStep, UnlistedStep DEF LoopIInv
  <1>3. LoopIInv => UnlistedHasNothing
    BY DEF LoopIInv
  <1>4. QED
    BY <1>1, <1>2, <1>3, PTL DEF Spec

=============================================================================

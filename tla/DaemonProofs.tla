---------------------------- MODULE DaemonProofs ----------------------------
(***************************************************************************)
(* The lock file of a daemon's name, proved for any number of launches,    *)
(* names and process ids.                                                  *)
(*                                                                         *)
(* The three invariants need no further strengthening: a step that makes a *)
(* name's daemon reads the lock file before, and one that removes a lock   *)
(* file either ends its owner with it, or counts the name among torn.      *)
(***************************************************************************)
EXTENDS Daemon, TLAPS

(* The launches whose processes end are no longer holders; nobody becomes   *)
(* one.                                                                     *)
LEMMA EndsHolders ==
    ASSUME TypeOK, NEW gone, Ends(gone)
    PROVE  /\ \A n \in Name : Holders(n)' = Holders(n) \ gone
           /\ \A i \in Launch \ gone : pc'[i] = pc[i] /\ pid'[i] = pid[i]
BY DEF TypeOK, Ends, Holders, Holding

(* A launch that goes on holds its lock before and after.                   *)
LEMMA AdvanceHolders ==
    ASSUME TypeOK, NEW i \in Launch, NEW from, NEW to, Advance(i, from, to)
    PROVE  /\ pc[i] = from /\ pc'[i] = to
           /\ \A j \in Launch \ {i} : pc'[j] = pc[j]
           /\ \A n \in Name : Holders(n)' \ {i} = Holders(n) \ {i}
           /\ (from \in Holding <=> to \in Holding) =>
                  \A n \in Name : Holders(n)' = Holders(n)
BY DEF TypeOK, Advance, Holders

LEMMA IdleType == Idle \in [pc : {"idle"}, name : Name, pid : {0}]
BY LaunchAssumption DEF Idle

LEMMA InitTypeOK == Init => TypeOK
<1> SUFFICES ASSUME Init PROVE TypeOK
  OBVIOUS
<1>1. mgr \in [pc : {"idle", "stop", "kill", "remove"}, name : Name, pid : Pid \cup {0}]
  BY IdleType DEF Init
<1>2. torn \subseteq Name /\ faulty \subseteq Name
  BY DEF Init
<1> QED BY <1>1, <1>2 DEF Init, TypeOK

LEMMA EndsType ==
    ASSUME TypeOK, NEW gone, Ends(gone)
    PROVE  /\ pc' \in [Launch -> Holding \cup {"off", "orphan", "gone"}]
           /\ pid' \in [Launch -> Pid \cup {0}]
           /\ quit' \in [Launch -> BOOLEAN]
<1>1. pc' \in [Launch -> Holding \cup {"off", "orphan", "gone"}]
  BY DEF TypeOK, Ends
<1>2. pid' \in [Launch -> Pid \cup {0}]
  BY DEF TypeOK, Ends
<1>3. quit' \in [Launch -> BOOLEAN]
  BY DEF TypeOK, Ends
<1> QED BY <1>1, <1>2, <1>3

LEMMA RemovedType ==
    ASSUME TypeOK, NEW n \in Name, NEW own, Removed(n, own)
    PROVE  lock' \in [Name -> Pid \cup {Empty, NoFile}] /\ torn' \subseteq Name
BY DEF TypeOK, Removed

LEMMA LaunchTypeOK ==
    ASSUME TypeOK, NEW i \in Launch,
           \/ StartedByInit(i) \/ CreateLock(i) \/ LockExists(i)
           \/ Program(i) \/ Launcher(i) \/ CheckFails(i) \/ Exit(i) \/ Crash(i)
    PROVE  TypeOK'
<1> name[i] \in Name
  BY LaunchAssumption
<1> USE DEF TypeOK, Advance
<1>1. CASE StartedByInit(i)
  BY <1>1 DEF StartedByInit, Free
<1>2. CASE CreateLock(i)
  BY <1>2 DEF CreateLock, Holding
<1>3. CASE LockExists(i)
  BY <1>3 DEF LockExists
<1>4. CASE Fork(i)
  BY <1>4 DEF Fork, Holding, Waiting
<1>5. CASE ForkFails(i)
  BY <1>5 DEF ForkFails
<1>6. CASE SignalLauncher(i)
  BY <1>6 DEF SignalLauncher, Holding
<1>7. CASE ForkDaemon(i)
  BY <1>7 DEF ForkDaemon, Holding, Free
<1>8. CASE RedirectSignals(i)
  BY <1>8 DEF RedirectSignals, Holding
<1>9. CASE SetupFails(i)
  BY <1>9, EndsType, RemovedType DEF SetupFails
<1>10. CASE WriteId(i)
  BY <1>10 DEF WriteId, Holding, Empty
<1>11. CASE RedirectLogs(i)
  BY <1>11 DEF RedirectLogs, Holding
<1>12. CASE RedirectLogsFails(i)
  BY <1>12, EndsType DEF RedirectLogsFails
<1>13. CASE Close(i)
  BY <1>13, EndsType, RemovedType DEF Close
<1>14. CASE Launcher(i)
  BY <1>14 DEF Launcher, Pause, Alarm, Waiting
<1>15. CASE CheckFails(i)
  BY <1>15 DEF CheckFails
<1>16. CASE Exit(i)
  BY <1>16, EndsType, RemovedType DEF Exit
<1>17. CASE Crash(i)
  BY <1>17, EndsType DEF Crash
<1> QED
  BY <1>1, <1>2, <1>3, <1>4, <1>5, <1>6, <1>7, <1>8, <1>9, <1>10, <1>11, <1>12,
     <1>13, <1>14, <1>15, <1>16, <1>17 DEF Program

LEMMA ManagerTypeOK == TypeOK /\ Manager => TypeOK'
<1> SUFFICES ASSUME TypeOK, Manager PROVE TypeOK'
  OBVIOUS
<1> USE DEF TypeOK
<1>1. CASE \E op \in {"stop", "kill"}, n \in Name : ReadLock(op, n)
  BY <1>1 DEF ReadLock
<1>2. CASE Stop
  BY <1>2, IdleType DEF Stop
<1>3. CASE StopEnds
  <2>1. faulty' \subseteq Name
    BY <1>3, LaunchAssumption DEF StopEnds, Hit, Daemons
  <2> QED BY <1>3, <2>1, IdleType, EndsType DEF StopEnds
<1>4. CASE Kill
  <2>1. faulty' \subseteq Name
    BY <1>4, LaunchAssumption DEF Kill, Hit, Daemons
  <2> QED BY <1>4, <2>1, EndsType DEF Kill
<1>5. CASE RemoveLock
  BY <1>5, IdleType, RemovedType DEF RemoveLock
<1>6. CASE ManagerDies
  BY <1>6, IdleType DEF ManagerDies
<1> QED
  BY <1>1, <1>2, <1>3, <1>4, <1>5, <1>6 DEF Manager, Handler

LEMMA NextTypeOK == TypeOK /\ [Next]_vars => TypeOK'
<1> SUFFICES ASSUME TypeOK, [Next]_vars PROVE TypeOK'
  OBVIOUS
<1>1. CASE Next
  BY <1>1, LaunchTypeOK, ManagerTypeOK DEF Next
<1>2. CASE UNCHANGED vars
  BY <1>2 DEF vars, TypeOK
<1> QED BY <1>1, <1>2

(* The types of the processes, of the lock files' contents and of what the  *)
(* manager has read, for any launches, names and ids.                       *)
THEOREM TypeOKHolds == Spec => []TypeOK
BY InitTypeOK, NextTypeOK, PTL DEF Spec

-----------------------------------------------------------------------------
(* The lock file and its holder. *)

Guarded(n) ==
    /\ \A i, j \in Holders(n) : i = j
    /\ \A i \in Holders(n) :
          lock[n] = IF pc[i] \in {"logs", "up"} THEN pid[i] ELSE Empty

LEMMA GuardsByName == LockGuardsItsName <=> \A n \in Name \ torn : Guarded(n)
BY DEF LockGuardsItsName, OneDaemonPerName, LockNamesItsDaemon, Guarded

LEMMA GuardsByNameNext == LockGuardsItsName' <=> \A n \in Name \ torn' : Guarded(n)'
BY DEF LockGuardsItsName, OneDaemonPerName, LockNamesItsDaemon, Guarded

(* While a name has a holder, its lock file exists.                         *)
LEMMA HolderHasLock ==
    ASSUME TypeOK, NEW n \in Name, Guarded(n), NEW i \in Holders(n)
    PROVE  lock[n] # NoFile
<1>1. i \in Launch /\ pid[i] \in Pid \cup {0}
  BY DEF Holders, TypeOK
<1>2. NoFile \notin Pid \cup {0} /\ NoFile # Empty
  <2>1. 0 \in Nat /\ NoFile \notin Nat /\ Pid \subseteq Nat
    BY LaunchAssumption
  <2>2. NoFile # 0 /\ NoFile \notin Pid
    BY <2>1, Zenon
  <2> QED BY <2>2 DEF Empty
<1>3. lock[n] = pid[i] \/ lock[n] = Empty
  BY DEF Guarded
<1> QED
  BY <1>1, <1>2, <1>3

(* A process that ends leaves its lock file as it is, ...                   *)
LEMMA EndsGuarded ==
    ASSUME TypeOK, NEW gone, Ends(gone), NEW n \in Name, Guarded(n), lock'[n] = lock[n]
    PROVE  Guarded(n)'
<1>1. \A i \in Holders(n)' : i \in Holders(n) /\ i \notin gone /\ i \in Launch
  BY EndsHolders DEF Holders
<1>2. \A i \in Holders(n)' : pc'[i] = pc[i] /\ pid'[i] = pid[i]
  BY <1>1, EndsHolders
<1> QED
  BY <1>1, <1>2 DEF Guarded

(* ... unless it removes it.                                                *)
LEMMA RemovedGuarded ==
    ASSUME TypeOK, NEW i \in Launch, Ends({i}), Removed(name[i], {i}), LockGuardsItsName
    PROVE  LockGuardsItsName'
<1> SUFFICES ASSUME NEW n \in Name \ torn' PROVE Guarded(n)'
  BY GuardsByNameNext
<1>1. n \notin torn /\ Guarded(n)
  BY GuardsByName DEF Removed
<1>2. CASE n = name[i]
  <2>1. Holders(n) \subseteq {i}
    BY <1>2 DEF Removed
  <2>2. Holders(n)' = {}
    BY <2>1, EndsHolders
  <2> QED BY <2>2 DEF Guarded
<1>3. CASE n # name[i]
  <2>1. lock'[n] = lock[n]
    BY <1>3 DEF Removed, TypeOK
  <2>2. Holders(n)' = Holders(n) \ {i}
    BY EndsHolders
  <2> QED BY <1>1, <2>1, <2>2, EndsHolders DEF Guarded, Holders
<1> QED BY <1>2, <1>3

(* A step that moves one launch along its way with the lock.                *)
LEMMA AdvanceGuarded ==
    ASSUME TypeOK, NEW i \in Launch, NEW from \in Holding, NEW to \in Holding,
           Advance(i, from, to), torn' = torn,
           \A j \in Launch \ {i} : pid'[j] = pid[j],
           \A n \in Name \ {name[i]} : lock'[n] = lock[n],
           LockGuardsItsName,
           i \in Holders(name[i]) /\ Guarded(name[i]) =>
               lock'[name[i]] = IF to \in {"logs", "up"} THEN pid'[i] ELSE Empty
    PROVE  LockGuardsItsName'
<1> SUFFICES ASSUME NEW n \in Name \ torn PROVE Guarded(n)'
  BY GuardsByNameNext
<1>1. Guarded(n)
  BY GuardsByName
<1>2. /\ pc[i] = from /\ pc'[i] = to /\ Holders(n)' = Holders(n)
      /\ \A j \in Launch \ {i} : pc'[j] = pc[j]
  BY AdvanceHolders
<1>3. \A k, j \in Holders(n)' : k = j
  BY <1>1, <1>2 DEF Guarded
<1>4. ASSUME NEW j \in Holders(n)'
      PROVE  lock'[n] = IF pc'[j] \in {"logs", "up"} THEN pid'[j] ELSE Empty
  <2>1. j \in Holders(n) /\ j \in Launch /\ name[j] = n
    BY <1>2, <1>4 DEF Holders
  <2>2. CASE j = i
    BY <1>1, <1>2, <2>1, <2>2
  <2>3. CASE j # i
    <3>1. name[i] # n
      BY <1>1, <1>2, <2>1, <2>3 DEF Guarded, Holders
    <3> QED
      BY <1>1, <1>2, <2>1, <2>3, <3>1 DEF Guarded
  <2> QED BY <2>2, <2>3
<1> QED BY <1>3, <1>4 DEF Guarded

(* A step in which nobody takes or leaves a lock.                           *)
LEMMA OtherGuarded ==
    ASSUME TypeOK, torn' = torn, lock' = lock, LockGuardsItsName,
           \A n \in Name : Holders(n)' \subseteq Holders(n),
           \A n \in Name : \A i \in Holders(n)' : pc'[i] = pc[i] /\ pid'[i] = pid[i]
    PROVE  LockGuardsItsName'
<1> SUFFICES ASSUME NEW n \in Name \ torn PROVE Guarded(n)'
  BY GuardsByNameNext
<1>1. Guarded(n)
  BY GuardsByName
<1> QED BY <1>1 DEF Guarded

LEMMA EndsOnlyGuarded ==
    ASSUME TypeOK, NEW gone, Ends(gone), torn' = torn, lock' = lock, LockGuardsItsName
    PROVE  LockGuardsItsName'
<1> SUFFICES ASSUME NEW n \in Name \ torn PROVE Guarded(n)'
  BY GuardsByNameNext
<1> QED BY GuardsByName, EndsGuarded

LEMMA CreateGuarded ==
    ASSUME TypeOK, NEW i \in Launch, CreateLock(i), LockGuardsItsName
    PROVE  LockGuardsItsName'
<1> SUFFICES ASSUME NEW n \in Name \ torn PROVE Guarded(n)'
  BY GuardsByNameNext DEF CreateLock
<1>1. Guarded(n)
  BY GuardsByName
<1>2. Advance(i, "off", "fork1") /\ lock[name[i]] = NoFile /\ pid' = pid
  BY DEF CreateLock
<1>3. /\ pc'[i] = "fork1" /\ Holders(n)' \ {i} = Holders(n) \ {i}
      /\ \A j \in Launch \ {i} : pc'[j] = pc[j]
  BY <1>2, AdvanceHolders
<1>4. CASE n = name[i]
  <2>1. Holders(n) = {}
    BY <1>1, <1>2, <1>4, HolderHasLock
  <2>2. Holders(n)' \subseteq {i}
    BY <1>3, <2>1
  <2>3. lock'[n] = Empty
    BY <1>4 DEF CreateLock, TypeOK
  <2> QED BY <1>3, <2>2, <2>3 DEF Guarded
<1>5. CASE n # name[i]
  <2>1. i \notin Holders(n)' /\ i \notin Holders(n) /\ lock'[n] = lock[n]
    BY <1>5 DEF Holders, CreateLock, TypeOK
  <2>2. \A j \in Holders(n)' : j \in Holders(n) /\ j \in Launch \ {i}
    BY <1>3, <2>1 DEF Holders
  <2> QED BY <1>1, <1>2, <1>3, <2>1, <2>2 DEF Guarded
<1> QED BY <1>4, <1>5

(* What the lock says of a launch that goes on without touching it.         *)
LEMMA LockOfAdvancing ==
    ASSUME TypeOK, NEW i \in Launch, NEW from \in Holding, NEW to \in Holding,
           Advance(i, from, to), lock' = lock,
           from \in {"logs", "up"} <=> to \in {"logs", "up"},
           from \in {"logs", "up"} => pid' = pid
    PROVE  i \in Holders(name[i]) /\ Guarded(name[i]) =>
               lock'[name[i]] = IF to \in {"logs", "up"} THEN pid'[i] ELSE Empty
BY DEF Advance, Guarded

(* Every step of a launch, ...                                              *)
LEMMA LaunchGuarded ==
    ASSUME TypeOK, LockGuardsItsName, NEW i \in Launch,
           \/ StartedByInit(i) \/ CreateLock(i) \/ LockExists(i)
           \/ Program(i) \/ Launcher(i) \/ CheckFails(i) \/ Exit(i) \/ Crash(i)
    PROVE  LockGuardsItsName'
<1> name[i] \in Name
  BY LaunchAssumption
<1>1. CASE StartedByInit(i)
  <2>1. Advance(i, "off", "orphan") /\ \A j \in Launch \ {i} : pid'[j] = pid[j]
    BY <1>1 DEF StartedByInit, TypeOK
  <2>2. \A n \in Name : Holders(n)' = Holders(n) /\ i \notin Holders(n)
    BY <2>1, AdvanceHolders DEF Holding, Holders
  <2>3. \A n \in Name : \A j \in Holders(n)' : pc'[j] = pc[j] /\ pid'[j] = pid[j]
    BY <2>1, <2>2, AdvanceHolders DEF Holders
  <2> QED BY <1>1, <2>2, <2>3, OtherGuarded DEF StartedByInit
<1>2. CASE CreateLock(i)
  BY <1>2, CreateGuarded
<1>3. CASE LockExists(i)
  <2>1. Advance(i, "off", "gone") /\ pid' = pid
    BY <1>3 DEF LockExists
  <2>2. \A n \in Name : Holders(n)' = Holders(n) /\ i \notin Holders(n)
    BY <2>1, AdvanceHolders DEF Holding, Holders
  <2>3. \A n \in Name : \A j \in Holders(n)' : pc'[j] = pc[j] /\ pid'[j] = pid[j]
    BY <2>1, <2>2, AdvanceHolders DEF Holders
  <2> QED BY <1>3, <2>2, <2>3, OtherGuarded DEF LockExists
<1>4. CASE Fork(i)
  BY <1>4, AdvanceGuarded, LockOfAdvancing DEF Fork, Holding
<1>5. CASE ForkFails(i)
  <2>1. \A n \in Name : \A j \in Holders(n)' :
           j \in Holders(n) /\ pc'[j] = pc[j] /\ pid'[j] = pid[j]
    BY <1>5 DEF ForkFails, TypeOK, Holders, Holding
  <2> QED BY <1>5, <2>1, OtherGuarded DEF ForkFails
<1>6. CASE SignalLauncher(i)
  BY <1>6, AdvanceGuarded, LockOfAdvancing DEF SignalLauncher, Holding
<1>7. CASE ForkDaemon(i)
  <2>1. \A j \in Launch \ {i} : pid'[j] = pid[j]
    BY <1>7 DEF ForkDaemon, TypeOK
  <2> QED BY <1>7, <2>1, AdvanceGuarded, LockOfAdvancing DEF ForkDaemon, Holding
<1>8. CASE RedirectSignals(i)
  BY <1>8, AdvanceGuarded, LockOfAdvancing DEF RedirectSignals, Holding
<1>9. CASE SetupFails(i)
  BY <1>9, RemovedGuarded DEF SetupFails
<1>10. CASE WriteId(i)
  <2>1. lock'[name[i]] = pid'[i] /\ \A n \in Name \ {name[i]} : lock'[n] = lock[n]
    BY <1>10 DEF WriteId, TypeOK
  <2> QED BY <1>10, <2>1, AdvanceGuarded DEF WriteId, Holding
<1>11. CASE RedirectLogs(i)
  BY <1>11, AdvanceGuarded, LockOfAdvancing DEF RedirectLogs, Holding
<1>12. CASE RedirectLogsFails(i)
  BY <1>12, EndsOnlyGuarded DEF RedirectLogsFails
<1>13. CASE Close(i)
  BY <1>13, RemovedGuarded DEF Close
<1>14. CASE Launcher(i)
  <2>1. pc' = pc /\ pid' = pid /\ lock' = lock /\ torn' = torn
    BY <1>14 DEF Launcher, Pause, Alarm
  <2> QED BY <2>1, OtherGuarded DEF Holders
<1>15. CASE CheckFails(i)
  BY <1>15, OtherGuarded DEF CheckFails, Holders
<1>16. CASE Exit(i)
  BY <1>16, RemovedGuarded DEF Exit
<1>17. CASE Crash(i)
  BY <1>17, EndsOnlyGuarded DEF Crash
<1> QED
  BY <1>1, <1>2, <1>3, <1>4, <1>5, <1>6, <1>7, <1>8, <1>9, <1>10, <1>11, <1>12,
     <1>13, <1>14, <1>15, <1>16, <1>17 DEF Program

(* ... and of the manager.                                                  *)
LEMMA ManagerGuarded ==
    ASSUME TypeOK, LockGuardsItsName, Manager
    PROVE  LockGuardsItsName'
<1>1. CASE \E op \in {"stop", "kill"}, n \in Name : ReadLock(op, n)
  BY <1>1, OtherGuarded DEF ReadLock, Holders
<1>2. CASE Stop
  BY <1>2, OtherGuarded DEF Stop, Holders
<1>3. CASE StopEnds
  BY <1>3, EndsOnlyGuarded DEF StopEnds
<1>4. CASE Kill
  BY <1>4, EndsOnlyGuarded DEF Kill
<1>5. CASE RemoveLock
  <2> SUFFICES ASSUME NEW n \in Name \ torn' PROVE Guarded(n)'
    BY GuardsByNameNext
  <2>1. n \notin torn /\ Guarded(n) /\ pc' = pc /\ pid' = pid
    BY <1>5, GuardsByName DEF RemoveLock, Removed
  <2>2. CASE n = mgr.name
    <3>1. Holders(n)' = {}
      BY <1>5, <2>2 DEF RemoveLock, Removed, Holders
    <3> QED BY <3>1 DEF Guarded
  <2>3. CASE n # mgr.name
    <3>1. lock'[n] = lock[n] /\ Holders(n)' = Holders(n)
      BY <1>5, <2>1, <2>3 DEF RemoveLock, Removed, Holders, TypeOK
    <3> QED BY <2>1, <3>1 DEF Guarded
  <2> QED BY <2>2, <2>3
<1>6. CASE ManagerDies
  BY <1>6, OtherGuarded DEF ManagerDies, Holders
<1> QED
  BY <1>1, <1>2, <1>3, <1>4, <1>5, <1>6 DEF Manager, Handler

(* The lock file keeps a second daemon of its name out and leads the        *)
(* manager to the first (hubo_rt_daemonize, O_EXCL and the id it writes),   *)
(* unless somebody else has removed it: for any number of launches.         *)
THEOREM LockGuardsHolds == Spec => []LockGuardsItsName
<1>1. Init => LockGuardsItsName
  <2> SUFFICES ASSUME Init PROVE \A n \in Name \ torn : Guarded(n)
    BY GuardsByName
  <2>1. \A n \in Name : Holders(n) = {}
    BY DEF Init, Holders, Holding
  <2> QED BY <2>1 DEF Guarded
<1>2. TypeOK /\ LockGuardsItsName /\ [Next]_vars => LockGuardsItsName'
  <2> SUFFICES ASSUME TypeOK, LockGuardsItsName, [Next]_vars PROVE LockGuardsItsName'
    OBVIOUS
  <2>1. CASE Next
    BY <2>1, LaunchGuarded, ManagerGuarded DEF Next
  <2>2. CASE UNCHANGED vars
    BY <2>2, OtherGuarded DEF vars, Holders
  <2> QED BY <2>1, <2>2
<1> QED
  BY <1>1, <1>2, TypeOKHolds, PTL DEF Spec

-----------------------------------------------------------------------------
(* Lock files that nobody holds. *)

Stale(n) == lock[n] # NoFile /\ Holders(n) = {}

Excused(n) == n \in faulty \/ (mgr.pc = "remove" /\ mgr.name = n)

LEMMA StaleByName == StaleLockNeedsFault <=> \A n \in Name : Stale(n) => Excused(n)
BY DEF StaleLockNeedsFault, Stale, Excused

LEMMA StaleByNameNext ==
    StaleLockNeedsFault' <=> \A n \in Name : Stale(n)' => Excused(n)'
BY DEF StaleLockNeedsFault, Stale, Excused

(* A step that makes no lock file, and after which no holder is missing.    *)
LEMMA NoNewStale ==
    ASSUME StaleLockNeedsFault, faulty \subseteq faulty', mgr' = mgr,
           \A n \in Name : Stale(n)' => Stale(n)
    PROVE  StaleLockNeedsFault'
BY StaleByName, StaleByNameNext DEF Excused

(* One that ends with its lock file removed.                                *)
LEMMA RemovedNotStale ==
    ASSUME TypeOK, StaleLockNeedsFault, NEW i \in Launch, Ends({i}),
           Removed(name[i], {i}), faulty' = faulty, mgr' = mgr
    PROVE  StaleLockNeedsFault'
<1>1. ASSUME NEW n \in Name, Stale(n)' PROVE Stale(n)
  <2>1. n # name[i] /\ lock'[n] = lock[n]
    BY <1>1, LaunchAssumption DEF Stale, Removed, TypeOK
  <2>2. Holders(n)' = Holders(n)
    BY <2>1, EndsHolders DEF Holders
  <2> QED BY <1>1, <2>1, <2>2 DEF Stale
<1> QED BY <1>1, NoNewStale

(* One that goes on, with its lock file made or written.                    *)
LEMMA AdvanceNotStale ==
    ASSUME TypeOK, StaleLockNeedsFault, NEW i \in Launch, NEW from,
           NEW to \in Holding, Advance(i, from, to),
           \A n \in Name \ {name[i]} : lock'[n] = lock[n],
           faulty' = faulty, mgr' = mgr
    PROVE  StaleLockNeedsFault'
<1>1. pc'[i] = to /\ \A n \in Name : Holders(n)' \ {i} = Holders(n) \ {i}
  BY AdvanceHolders
<1>2. ASSUME NEW n \in Name, Stale(n)' PROVE Stale(n)
  <2>1. n # name[i]
    BY <1>1, <1>2 DEF Stale, Holders
  <2>2. i \notin Holders(n) /\ i \notin Holders(n)' /\ lock'[n] = lock[n]
    BY <2>1 DEF Holders
  <2> QED BY <1>1, <1>2, <2>2 DEF Stale
<1> QED BY <1>2, NoNewStale

LEMMA LaunchNotStale ==
    ASSUME TypeOK, StaleLockNeedsFault, NEW i \in Launch,
           \/ StartedByInit(i) \/ CreateLock(i) \/ LockExists(i)
           \/ Program(i) \/ Launcher(i) \/ CheckFails(i) \/ Exit(i) \/ Crash(i)
    PROVE  StaleLockNeedsFault'
<1>1. CASE ForkFails(i) \/ RedirectLogsFails(i) \/ Crash(i)
  <2>1. faulty' = faulty \cup {name[i]} /\ lock' = lock /\ mgr' = mgr
    BY <1>1 DEF ForkFails, RedirectLogsFails, Crash
  <2>2. \A n \in Name \ {name[i]} : Holders(n)' = Holders(n)
    <3>1. CASE ForkFails(i)
      BY <3>1 DEF ForkFails, TypeOK, Holders
    <3>2. CASE RedirectLogsFails(i) \/ Crash(i)
      BY <3>2, EndsHolders DEF RedirectLogsFails, Crash, Holders
    <3> QED BY <1>1, <3>1, <3>2
  <2> QED BY <2>1, <2>2, StaleByName, StaleByNameNext DEF Stale, Excused
<1>2. CASE StartedByInit(i) \/ LockExists(i)
  <2>1. \A n \in Name : Holders(n)' = Holders(n)
    BY <1>2, AdvanceHolders DEF StartedByInit, LockExists, Holding
  <2> QED BY <1>2, <2>1, NoNewStale DEF StartedByInit, LockExists, Stale
<1>3. CASE CreateLock(i) \/ WriteId(i)
  <2>1. \A n \in Name \ {name[i]} : lock'[n] = lock[n]
    BY <1>3 DEF CreateLock, WriteId, TypeOK
  <2> QED BY <1>3, <2>1, AdvanceNotStale DEF CreateLock, WriteId, Holding
<1>4. CASE \/ Fork(i) \/ SignalLauncher(i) \/ ForkDaemon(i) \/ RedirectSignals(i)
           \/ RedirectLogs(i)
  BY <1>4, AdvanceNotStale
  DEF Fork, SignalLauncher, ForkDaemon, RedirectSignals, RedirectLogs, Holding
<1>5. CASE SetupFails(i) \/ Close(i) \/ Exit(i)
  BY <1>5, RemovedNotStale DEF SetupFails, Close, Exit
<1>6. CASE Launcher(i) \/ CheckFails(i)
  BY <1>6, NoNewStale DEF Launcher, Pause, Alarm, CheckFails, Stale, Holders
<1> QED
  BY <1>1, <1>2, <1>3, <1>4, <1>5, <1>6 DEF Program

LEMMA ManagerNotStale ==
    ASSUME TypeOK, StaleLockNeedsFault, Manager
    PROVE  StaleLockNeedsFault'
<1> SUFFICES ASSUME NEW n \in Name, Stale(n)' PROVE Excused(n)'
  BY StaleByNameNext
<1> USE DEF Stale, Excused
<1>1. CASE \E op \in {"stop", "kill"}, k \in Name : ReadLock(op, k)
  BY <1>1, StaleByName DEF ReadLock, Holders
<1>2. CASE Stop
  BY <1>2, StaleByName DEF Stop, Holders
<1>3. CASE StopEnds
  <2>1. CASE Holders(n) = {}
    BY <1>3, <2>1, StaleByName DEF StopEnds
  <2>2. CASE Holders(n) # {}
    <3>1. PICK i \in Holders(n) : i \in Hit
      BY <1>3, <2>2, EndsHolders DEF StopEnds
    <3> QED BY <1>3, <3>1 DEF StopEnds, Holders
  <2> QED BY <2>1, <2>2
<1>6. CASE ManagerDies
  BY <1>6, StaleByName DEF ManagerDies, Holders
<1>4. CASE Kill
  <2>1. mgr'.pc = "remove" /\ mgr'.name = mgr.name /\ Ends(Hit) /\ lock' = lock
    BY <1>4 DEF Kill, TypeOK
  <2>2. CASE n = mgr.name
    BY <2>1, <2>2
  <2>3. CASE n # mgr.name /\ Holders(n) = {}
    BY <1>4, <2>1, <2>3, StaleByName DEF Kill
  <2>4. CASE n # mgr.name /\ Holders(n) # {}
    <3>1. PICK i \in Holders(n) : i \in Hit
      BY <2>1, <2>4, EndsHolders
    <3> QED BY <1>4, <2>4, <3>1 DEF Kill, Holders
  <2> QED BY <2>2, <2>3, <2>4
<1>5. CASE RemoveLock
  <2>1. n # mgr.name
    BY <1>5 DEF RemoveLock, Removed, TypeOK
  <2> QED BY <1>5, <2>1, StaleByName DEF RemoveLock, Removed, TypeOK, Holders
<1> QED
  BY <1>1, <1>2, <1>3, <1>4, <1>5, <1>6 DEF Manager, Handler

(* A lock file that stands for nobody needs a fault of a launch under its   *)
(* name: every way a program ends by itself removes its lock file (the      *)
(* destructor, and the errors of hubo_rt_daemonize that close it).          *)
THEOREM StaleLockHolds == Spec => []StaleLockNeedsFault
<1>1. Init => StaleLockNeedsFault
  BY DEF Init, StaleLockNeedsFault
<1>2. TypeOK /\ StaleLockNeedsFault /\ [Next]_vars => StaleLockNeedsFault'
  <2> SUFFICES ASSUME TypeOK, StaleLockNeedsFault, [Next]_vars
               PROVE  StaleLockNeedsFault'
    OBVIOUS
  <2>1. CASE Next
    BY <2>1, LaunchNotStale, ManagerNotStale DEF Next
  <2>2. CASE UNCHANGED vars
    BY <2>2, NoNewStale DEF vars, Stale, Holders
  <2> QED BY <2>1, <2>2
<1> QED
  BY <1>1, <1>2, TypeOKHolds, PTL DEF Spec
=============================================================================

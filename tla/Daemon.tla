------------------------------- MODULE Daemon -------------------------------
(***************************************************************************)
(* How a program of HuboCan becomes a daemon (HuboRT/Daemonizer_C.c), and  *)
(* how the manager stops or kills it by the lock file it leaves            *)
(* (HuboRT/Manager.cpp).                                                   *)
(*                                                                         *)
(* hubo_rt_daemonize creates the lock file of the daemon's name, forks     *)
(* twice, and writes the process id of the second child, the daemon, into  *)
(* the file.  Its destructor removes the file.  The manager knows of a     *)
(* daemon only what its lock file says.                                    *)
(*                                                                         *)
(* A launch is three processes: the launcher, which waits for a signal of  *)
(* its child; that child, which waits in the same way for the daemon but   *)
(* has nobody left to tell; and the daemon.  Ids are reused.               *)
(***************************************************************************)
EXTENDS Integers

CONSTANTS
    Launch,    \* launches of daemons
    Name,      \* names of daemons
    name,      \* the name a launch is made under: _daemon_name
    Pid,       \* process ids that daemons may get
    NoFile     \* the content of a lock file that does not exist

(* The manager takes an id of 0 for none: str >> id of an empty file.       *)
Empty == 0

ASSUME LaunchAssumption ==
    /\ Name # {} /\ name \in [Launch -> Name]
    /\ Pid \subseteq Nat \ {0} /\ NoFile \notin Nat

VARIABLES
    pc,        \* how far each launch has come
    pid,       \* the id of its daemon, 0 while there is none
    waiter,    \* what its launcher does
    quit,      \* hubo_rt_sig_quit of its daemon
    lock,      \* the lock file of each name
    mgr,       \* what the manager does, to which name, and the id it has read
    faulty,    \* history: names of the launches that something went wrong with
    torn       \* history: names whose lock somebody else removed from a live daemon

vars == <<pc, pid, waiter, quit, lock, mgr, faulty, torn>>

-----------------------------------------------------------------------------
(* Processes. *)

(* From creating the lock file to removing it.                              *)
Holding == {"fork1", "child", "fork2", "setup", "ready", "logs", "up"}
Holders(n) == {i \in Launch : name[i] = n /\ pc[i] \in Holding}

(* The daemon process exists.                                               *)
Daemons == {i \in Launch : pc[i] \in {"setup", "ready", "logs", "up", "orphan"}}
Free    == Pid \ {pid[i] : i \in Daemons}

Waiting == {"forked", "waiting"}

Idle == [pc |-> "idle", name |-> CHOOSE n \in Name : TRUE, pid |-> 0]

Init ==
    /\ pc = [i \in Launch |-> "off"]
    /\ pid = [i \in Launch |-> 0]
    /\ waiter = [i \in Launch |-> "none"]
    /\ quit = [i \in Launch |-> FALSE]
    /\ lock = [n \in Name |-> NoFile]
    /\ mgr = Idle
    /\ faulty = {} /\ torn = {}

Advance(i, from, to) == pc[i] = from /\ pc' = [pc EXCEPT ![i] = to]

(* The processes of some launches end, and their ids are free again.        *)
Ends(gone) ==
    /\ pc' = [i \in Launch |-> IF i \in gone THEN "gone" ELSE pc[i]]
    /\ pid' = [i \in Launch |-> IF i \in gone THEN 0 ELSE pid[i]]
    /\ quit' = [i \in Launch |-> i \notin gone /\ quit[i]]

(* remove(lockfile), whatever is in it and whoever, but for the launches    *)
(* given, it belongs to.                                                    *)
Removed(n, own) ==
    /\ lock' = [lock EXCEPT ![n] = NoFile]
    /\ torn' = IF Holders(n) \subseteq own THEN torn ELSE torn \cup {n}

-----------------------------------------------------------------------------
(* hubo_rt_daemonize. *)

(* A program that init started is taken for a daemon already, without lock. *)
StartedByInit(i) ==
    /\ Advance(i, "off", "orphan")
    /\ \E p \in Free : pid' = [pid EXCEPT ![i] = p]
    /\ UNCHANGED <<waiter, quit, lock, mgr, faulty, torn>>

(* open(O_CREAT | O_EXCL).                                                  *)
CreateLock(i) ==
    /\ lock[name[i]] = NoFile
    /\ Advance(i, "off", "fork1")
    /\ lock' = [lock EXCEPT ![name[i]] = Empty]
    /\ UNCHANGED <<pid, waiter, quit, mgr, faulty, torn>>

LockExistsIgnored(i) ==                       \* mutant: opened without O_EXCL
    /\ lock[name[i]] # NoFile
    /\ Advance(i, "off", "fork1")
    /\ UNCHANGED <<pid, waiter, quit, lock, mgr, faulty, torn>>

(* It fails when the file exists, and the program returns.                  *)
LockExists(i) ==
    /\ lock[name[i]] # NoFile
    /\ Advance(i, "off", "gone")
    /\ UNCHANGED <<pid, waiter, quit, lock, mgr, faulty, torn>>

(* The first fork.                                                          *)
Fork(i) ==
    /\ Advance(i, "fork1", "child")
    /\ waiter' = [waiter EXCEPT ![i] = "forked"]
    /\ UNCHANGED <<pid, quit, lock, mgr, faulty, torn>>

(* A fork fails, and its caller exits; the lock file stays.  The launcher   *)
(* has been signalled by then, if it is the second one.                     *)
ForkFails(i) ==
    /\ pc[i] \in {"fork1", "fork2"}
    /\ pc' = [pc EXCEPT ![i] = "gone"]
    /\ faulty' = faulty \cup {name[i]}
    /\ UNCHANGED <<pid, waiter, quit, lock, mgr, torn>>

(* The launcher installs its handlers, sets the alarm and pauses.           *)
Pause(i) ==
    /\ waiter[i] = "forked"
    /\ waiter' = [waiter EXCEPT ![i] = "waiting"]
    /\ UNCHANGED <<pc, pid, quit, lock, mgr, faulty, torn>>

AlarmNever(i) == FALSE /\ UNCHANGED vars      \* mutant: no alarm is set

(* The alarm, after two seconds.                                            *)
Alarm(i) ==
    /\ waiter[i] = "waiting"
    /\ waiter' = [waiter EXCEPT ![i] = "ended"]
    /\ UNCHANGED <<pc, pid, quit, lock, mgr, faulty, torn>>

(* The child's SIGUSR1 ends the launcher: its handler exits, and so does    *)
(* the default action if the handler is not installed yet.                  *)
SignalLauncher(i) ==
    /\ Advance(i, "child", "fork2")
    /\ waiter' = [waiter EXCEPT ![i] = "ended"]
    /\ UNCHANGED <<pid, quit, lock, mgr, faulty, torn>>

(* The second fork: the daemon.                                             *)
ForkDaemon(i) ==
    /\ Advance(i, "fork2", "setup")
    /\ \E p \in Free : pid' = [pid EXCEPT ![i] = p]
    /\ UNCHANGED <<waiter, quit, lock, mgr, faulty, torn>>

(* hubo_rt_redirect_signals: from here on SIGINT sets a flag.               *)
RedirectSignals(i) ==
    /\ Advance(i, "setup", "ready")
    /\ UNCHANGED <<pid, waiter, quit, lock, mgr, faulty, torn>>

SetupFailsKeepingLock(i) ==                   \* mutant: the lock file is kept
    /\ pc[i] = "ready" /\ Ends({i})
    /\ UNCHANGED <<waiter, lock, mgr, faulty, torn>>

(* setsid, chdir or fopen fails: the lock file is removed.                  *)
SetupFails(i) ==
    /\ pc[i] = "ready" /\ Ends({i})
    /\ Removed(name[i], {i})
    /\ UNCHANGED <<waiter, mgr, faulty>>

(* Mutant: the id is written without having looked whether setsid failed,   *)
(* when it is -1.                                                           *)
WriteIdUnchecked(i) ==
    /\ Advance(i, "ready", "logs")
    /\ lock' = [lock EXCEPT ![name[i]] = -1]
    /\ UNCHANGED <<pid, waiter, quit, mgr, faulty, torn>>

(* fopen("w") makes the file anew if it is gone; the id is written into it. *)
WriteId(i) ==
    /\ Advance(i, "ready", "logs")
    /\ lock' = [lock EXCEPT ![name[i]] = pid[i]]
    /\ UNCHANGED <<pid, waiter, quit, mgr, faulty, torn>>

(* hubo_rt_redirect_logs ...                                                *)
RedirectLogs(i) ==
    /\ Advance(i, "logs", "up")
    /\ UNCHANGED <<pid, waiter, quit, lock, mgr, faulty, torn>>

(* ... and when it fails the program returns; the lock file stays.          *)
RedirectLogsFails(i) ==
    /\ pc[i] = "logs" /\ Ends({i})
    /\ faulty' = faulty \cup {name[i]}
    /\ UNCHANGED <<waiter, lock, mgr, torn>>

-----------------------------------------------------------------------------
(* The running daemon. *)

Running(i) == pc[i] \in {"up", "orphan"}

(* check(false, ...): as if a signal had come.                              *)
CheckFails(i) ==
    /\ Running(i) /\ ~quit[i]
    /\ quit' = [quit EXCEPT ![i] = TRUE]
    /\ UNCHANGED <<pc, pid, waiter, lock, mgr, faulty, torn>>

CloseKeepingLock(i) ==                        \* mutant: the destructor does not close
    /\ Running(i) /\ quit[i] /\ Ends({i})
    /\ UNCHANGED <<waiter, lock, mgr, faulty, torn>>

(* Its main loop asks good(), ends, and the destructor closes the daemon.   *)
Close(i) ==
    /\ Running(i) /\ quit[i] /\ Ends({i})
    /\ Removed(name[i], {i})
    /\ UNCHANGED <<waiter, mgr, faulty>>

(* main() returns by itself, or check(false, ..., true) exits: both close.  *)
Exit(i) ==
    /\ Running(i) /\ ~quit[i] /\ Ends({i})
    /\ Removed(name[i], {i})
    /\ UNCHANGED <<waiter, mgr, faulty>>

(* The process that carries the launch dies.  A launcher that waits for it  *)
(* gets SIGCHLD, which does nothing before the handler is installed.        *)
Crash(i) ==
    /\ pc[i] \in Holding \cup {"orphan"} /\ Ends({i})
    /\ waiter' = [waiter EXCEPT ![i] =
                     IF pc[i] = "child" /\ @ = "waiting" THEN "ended" ELSE @]
    /\ faulty' = faulty \cup {name[i]}
    /\ UNCHANGED <<lock, mgr, torn>>

-----------------------------------------------------------------------------
(* The manager: _stop_process_raw and _kill_process_raw. *)

(* The id is read from the lock file; an empty one ends the request.        *)
ReadLock(op, n) ==
    /\ mgr.pc = "idle" /\ lock[n] \notin {NoFile, Empty}
    /\ mgr' = [pc |-> op, name |-> n, pid |-> lock[n]]
    /\ UNCHANGED <<pc, pid, waiter, quit, lock, faulty, torn>>

Hit == {i \in Daemons : pid[i] = mgr.pid}

(* Handlers are installed: not in a daemon that is still being set up, nor  *)
(* in one that init started.                                                *)
Catches(i) == pc[i] \in {"ready", "logs", "up"}

(* kill(id, SIGINT): a flag is set, if the signal is caught.                *)
Stop ==
    /\ mgr.pc = "stop" /\ \A i \in Hit : Catches(i)
    /\ mgr' = Idle
    /\ quit' = [i \in Launch |-> quit[i] \/ i \in Hit]
    /\ UNCHANGED <<pc, pid, waiter, lock, faulty, torn>>

(* Otherwise the signal, which was not meant for this process, ends it.     *)
StopEnds ==
    /\ mgr.pc = "stop" /\ \E i \in Hit : ~Catches(i)
    /\ mgr' = Idle
    /\ Ends(Hit)
    /\ faulty' = faulty \cup {name[i] : i \in Hit}
    /\ UNCHANGED <<waiter, lock, torn>>

(* kill(id, SIGKILL), which may hit another program that has the id now ... *)
Kill ==
    /\ mgr.pc = "kill"
    /\ mgr' = [mgr EXCEPT !.pc = "remove"]
    /\ Ends(Hit)
    /\ faulty' = faulty \cup ({name[i] : i \in Hit} \ {mgr.name})
    /\ UNCHANGED <<waiter, lock, torn>>

(* ... and remove() of the lock file, whosever it is by now.                *)
RemoveLock ==
    /\ mgr.pc = "remove"
    /\ mgr' = Idle
    /\ Removed(mgr.name, {})
    /\ UNCHANGED <<pc, pid, waiter, quit, faulty>>

ManagerDies ==
    /\ mgr.pc # "idle"
    /\ mgr' = Idle
    /\ faulty' = IF mgr.pc = "remove" THEN faulty \cup {mgr.name} ELSE faulty
    /\ UNCHANGED <<pc, pid, waiter, quit, lock, torn>>

-----------------------------------------------------------------------------
Program(i) ==
    \/ Fork(i) \/ ForkFails(i) \/ SignalLauncher(i) \/ ForkDaemon(i)
    \/ RedirectSignals(i) \/ SetupFails(i) \/ WriteId(i)
    \/ RedirectLogs(i) \/ RedirectLogsFails(i) \/ Close(i)

Launcher(i) == Pause(i) \/ Alarm(i)

Handler == Stop \/ StopEnds \/ Kill \/ RemoveLock

Manager ==
    \/ \E op \in {"stop", "kill"}, n \in Name : ReadLock(op, n)
    \/ Handler
    \/ ManagerDies

Next ==
    \/ \E i \in Launch :
          \/ StartedByInit(i) \/ CreateLock(i) \/ LockExists(i) \/ Program(i) \/ Launcher(i)
          \/ CheckFails(i) \/ Exit(i) \/ Crash(i)
    \/ Manager

Spec == Init /\ [][Next]_vars

(* The scheduler runs every process, the kernel delivers alarms, the main   *)
(* loops of the programs ask good() in every turn, and the manager carries  *)
(* on with a request it has begun.                                          *)
FairSpec ==
    /\ Spec
    /\ \A i \in Launch : WF_vars(Program(i)) /\ WF_vars(Launcher(i))
    /\ WF_vars(Handler)

-----------------------------------------------------------------------------
(* Properties. *)

(* Types of the processes, the lock files and the manager.                  *)
TypeOK ==
    /\ pc \in [Launch -> Holding \cup {"off", "orphan", "gone"}]
    /\ pid \in [Launch -> Pid \cup {0}]
    /\ waiter \in [Launch -> Waiting \cup {"none", "ended"}]
    /\ quit \in [Launch -> BOOLEAN]
    /\ lock \in [Name -> Pid \cup {Empty, NoFile}]
    /\ mgr \in [pc : {"idle", "stop", "kill", "remove"}, name : Name, pid : Pid \cup {0}]
    /\ faulty \subseteq Name /\ torn \subseteq Name

(* No name has two daemons, unless a lock file was removed while the daemon *)
(* it stood for lived: by one that init had started, by the manager after a *)
(* new daemon had taken the name over, or by one whose own was removed so.  *)
OneDaemonPerName ==
    \A n \in Name \ torn : \A i, j \in Holders(n) : i = j

(* With the same exception the manager, reading the lock file of a daemon   *)
(* that is up, finds the id of that daemon.                                 *)
LockNamesItsDaemon ==
    \A n \in Name \ torn : \A i \in Holders(n) :
        lock[n] = IF pc[i] \in {"logs", "up"} THEN pid[i] ELSE Empty

(* The lock file does what it is for: it keeps a second daemon of its name  *)
(* out, and leads the manager to the first.                                 *)
LockGuardsItsName == OneDaemonPerName /\ LockNamesItsDaemon

(* A lock file that stands for nobody, and makes every later launch under   *)
(* its name fail, is left behind only by a crash, a fork that failed, logs  *)
(* that could not be redirected, or a signal for another program, that a    *)
(* launch under this name met (or is about to be removed by the manager).   *)
StaleLockNeedsFault ==
    \A n \in Name : lock[n] # NoFile /\ Holders(n) = {} =>
        n \in faulty \/ (mgr.pc = "remove" /\ mgr.name = n)

(* The program that launched a daemon returns, whatever its child does and  *)
(* whichever signals it misses.                                             *)
LauncherReturns ==
    \A i \in Launch : waiter[i] \in Waiting ~> waiter[i] \notin Waiting

(* A daemon that is told to quit ends, and unless something went wrong with *)
(* a launch under its name, the name is free for the next one.              *)
QuitReleasesTheName ==
    \A i \in Launch :
        quit[i] ~> (pc[i] = "gone" /\ (lock[name[i]] = NoFile \/ name[i] \in faulty))
=============================================================================

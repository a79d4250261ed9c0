------------------------------ MODULE Session ------------------------------
(* Processes of newsbeuter that share a home directory, from main() to the   *)
(* end (newsbeuter.cpp, controller::setup_dirs, run, execute_commands,       *)
(* utils::try_fs_lock, remove_fs_lock, cache::cleanup_cache). The lock is an *)
(* advisory one on an inode; the file is made, and removed, by its name.     *)
(* Left out: --import-from-opml, which takes no lock and opens no cache, and *)
(* the options that only print something.                                    *)
EXTENDS Integers, FiniteSets

CONSTANTS
  Procs,   \* processes; each runs once
  Gone,    \* no file
  Modes,   \* what they are started for
  Configs, \* what the configuration file is: "plain", "cache-file" or "error"
  Signals  \* "hangup" and "kill", as far as they may come

Caches == {"cache.db", "configured"}
\* A lock file is known by who made it, and for which cache.
Inodes == Procs \X Caches

ASSUME SessionAssumption ==
  /\ Gone \notin Inodes
  /\ Modes \subseteq {"view", "export", "vacuum", "read-info", "execute"}
  /\ Configs \subseteq {"plain", "cache-file", "error"}
  /\ Signals \subseteq {"hangup", "kill"}

VARIABLES
  mode,      \* per process: what it was started for
  at,        \* and where it is
  lock_file, \* its lock_file: the cache that the name stands for
  fd,        \* the inode that it opened last
  held,      \* the inodes it has a lock on
  file,      \* the directory: per cache the inode that its lock file is, or none
  saver,     \* the process's background reload: storing a feed or not
  mtx,       \* the cache's mutex: free, or kept by cleanup_cache()
  foul       \* history: processes without a right to the lock: it was never
             \* taken, its file was gone when it was, or another process removed it

vars == <<mode, at, lock_file, fd, held, file, saver, mtx, foul>>

Live(p) == at[p] \notin {"new", "ended"}
LockFree(p, inode) == \A q \in Procs \ {p} : inode \notin held[q]
Opened(p) == at[p] \in {"urls", "load", "running", "quit", "work", "cleaned"}

Init ==
  /\ mode \in [Procs -> Modes] /\ at = [p \in Procs |-> "new"]
  /\ lock_file = [p \in Procs |-> "cache.db"] /\ fd = [p \in Procs |-> Gone]
  /\ held = [p \in Procs |-> {}] /\ file = [c \in Caches |-> Gone]
  /\ saver = [p \in Procs |-> "idle"] /\ mtx = [p \in Procs |-> "free"] /\ foul = {}

\* The process ends, and the system gives its locks back.
Ended(p) == /\ at' = [at EXCEPT ![p] = "ended"]
            /\ held' = [held EXCEPT ![p] = {}]
            /\ saver' = [saver EXCEPT ![p] = "idle"]
\* utils::remove_fs_lock goes by the name, whoever the file belongs to.
RemoveFsLock(p) ==
  /\ file' = [file EXCEPT ![lock_file[p]] = Gone]
  /\ foul' = foul \cup {q \in Procs \ {p} : file[lock_file[p]] \in held[q]}
\* One of the early returns of controller::run.
Leaves(p) == RemoveFsLock(p) /\ Ended(p)
Goes(p, place) == at' = [at EXCEPT ![p] = place] /\ UNCHANGED <<held, saver>>

-----------------------------------------------------------------------------
(* The lock.                                                                 *)
\* setup_dirs, the options; --export-to-opml goes on without a lock.
Start(p) ==
  /\ at[p] = "new"
  /\ Goes(p, IF mode[p] = "export" THEN "config" ELSE "open")
  /\ foul' = IF mode[p] = "export" THEN foul \cup {p} ELSE foul
  /\ UNCHANGED <<mode, lock_file, fd, file, mtx>>

\* try_fs_lock: open() makes the file if there is none.
OpenLock(p) ==
  /\ at[p] = "open"
  /\ LET inode == IF file[lock_file[p]] = Gone THEN <<p, lock_file[p]>> ELSE file[lock_file[p]]
     IN  fd' = [fd EXCEPT ![p] = inode] /\ file' = [file EXCEPT ![lock_file[p]] = inode]
  /\ Goes(p, "lock")
  /\ UNCHANGED <<mode, lock_file, mtx, foul>>

\* mutant: a process that finds no process id in the file takes it for stale
TakeLock_Steals(p) ==
  /\ at[p] = "lock"
  /\ held' = [held EXCEPT ![p] = @ \cup {fd[p]}]
  /\ at' = [at EXCEPT ![p] = IF lock_file[p] = "configured" THEN "cache" ELSE "config"]
  /\ foul' = IF file[lock_file[p]] = fd[p] THEN foul \ {p} ELSE foul \cup {p}
  /\ UNCHANGED <<mode, lock_file, fd, file, saver, mtx>>
\* lockf() with F_TLOCK on what was opened, which may have lost its name since.
TakeLock(p) ==
  /\ at[p] = "lock" /\ LockFree(p, fd[p])
  /\ held' = [held EXCEPT ![p] = @ \cup {fd[p]}]
  /\ at' = [at EXCEPT ![p] = IF lock_file[p] = "configured" THEN "cache" ELSE "config"]
  /\ foul' = IF file[lock_file[p]] = fd[p] THEN foul \ {p} ELSE foul \cup {p}
  /\ UNCHANGED <<mode, lock_file, fd, file, saver, mtx>>

\* "an instance is already running"; the file stays.
Refused(p) ==
  /\ at[p] = "lock" /\ ~LockFree(p, fd[p])
  /\ Ended(p) /\ UNCHANGED <<mode, lock_file, fd, file, mtx, foul>>

\* A configuration with a cache-file gives the lock file of the default one up.
ReadConfig(p) ==
  /\ at[p] = "config"
  /\ \E c \in Configs :
       \/ c = "error" /\ Leaves(p) /\ UNCHANGED lock_file
       \/ c = "plain" /\ Goes(p, "cache") /\ UNCHANGED <<lock_file, file, foul>>
       \/ /\ c = "cache-file" /\ RemoveFsLock(p) /\ Goes(p, "open")
          /\ lock_file' = [lock_file EXCEPT ![p] = "configured"]
  /\ UNCHANGED <<mode, fd, mtx>>

-----------------------------------------------------------------------------
(* The cache is open.                                                        *)
OpenCache(p) ==
  /\ at[p] = "cache"
  /\ \/ Goes(p, "urls") /\ UNCHANGED <<file, foul>>
     \/ Leaves(p)
  /\ UNCHANGED <<mode, lock_file, fd, mtx>>

\* The login fails, or there are no URLs: usage() exits and leaves the file.
ReadUrls(p) ==
  /\ at[p] = "urls"
  /\ \/ Leaves(p)
     \/ Ended(p) /\ UNCHANGED <<file, foul>>
     \/ Goes(p, IF mode[p] = "vacuum" THEN "work" ELSE "load") /\ UNCHANGED <<file, foul>>
  /\ UNCHANGED <<mode, lock_file, fd, mtx>>

\* A feed cannot be loaded; and what the process was started for.
Load(p) ==
  /\ at[p] = "load"
  /\ \/ Leaves(p)
     \/ Goes(p, IF mode[p] = "view" THEN "running" ELSE "work") /\ UNCHANGED <<file, foul>>
  /\ UNCHANGED <<mode, lock_file, fd, mtx>>

\* Importing or exporting a list of read articles does not remove the file.
Work(p) ==
  /\ at[p] = "work"
  /\ IF mode[p] = "read-info" THEN Ended(p) /\ UNCHANGED <<file, foul>> ELSE Leaves(p)
  /\ UNCHANGED <<mode, lock_file, fd, mtx>>

Quit(p) ==
  /\ at[p] = "running" /\ Goes(p, "quit")
  /\ UNCHANGED <<mode, lock_file, fd, file, mtx, foul>>

\* mutant: the cache's mutex is given back
CleanUp_Unlocks(p) ==
  /\ at[p] = "quit" /\ saver[p] # "storing" /\ Goes(p, "cleaned")
  /\ UNCHANGED <<mode, lock_file, fd, file, mtx, foul>>
\* cleanup_cache() with feeds_mutex, which it gives back, and the cache's mutex,
\* which it keeps.
CleanUp(p) ==
  /\ at[p] = "quit" /\ saver[p] # "storing" /\ Goes(p, "cleaned")
  /\ mtx' = [mtx EXCEPT ![p] = "kept"]
  /\ UNCHANGED <<mode, lock_file, fd, file, foul>>

Return(p) ==
  /\ at[p] = "cleaned" /\ RemoveFsLock(p) /\ Goes(p, "leaving")
  /\ UNCHANGED <<mode, lock_file, fd, mtx>>

\* ~controller wants feeds_mutex.
Destroy(p) ==
  /\ at[p] = "leaving" /\ saver[p] # "storing" /\ Ended(p)
  /\ UNCHANGED <<mode, lock_file, fd, file, mtx, foul>>

-----------------------------------------------------------------------------
(* A background reload in controller::reload: a feed has come, and is stored *)
(* with feeds_mutex and then the cache's mutex.                              *)
BeginStore(p) ==
  /\ at[p] \in {"running", "quit", "cleaned", "leaving"} /\ saver[p] = "idle"
  /\ saver' = [saver EXCEPT ![p] = "storing"]
  /\ UNCHANGED <<mode, at, lock_file, fd, held, file, mtx, foul>>

StoreFeed(p) ==
  /\ saver[p] = "storing" /\ mtx[p] = "free"
  /\ saver' = [saver EXCEPT ![p] = "idle"]
  /\ UNCHANGED <<mode, at, lock_file, fd, held, file, mtx, foul>>

-----------------------------------------------------------------------------
\* ctrl_c_action, from setup_dirs on; a process that is killed leaves the file.
Hangup(p) ==
  /\ "hangup" \in Signals /\ Live(p) /\ Leaves(p)
  /\ UNCHANGED <<mode, lock_file, fd, mtx>>

Kill(p) ==
  /\ "kill" \in Signals /\ Live(p) /\ Ended(p)
  /\ UNCHANGED <<mode, lock_file, fd, file, mtx, foul>>

Runs(p) == \/ Start(p) \/ OpenLock(p) \/ TakeLock(p) \/ Refused(p) \/ ReadConfig(p) \/ OpenCache(p)
           \/ ReadUrls(p) \/ Load(p) \/ Work(p) \/ CleanUp(p) \/ Return(p) \/ Destroy(p)
Next == \E p \in Procs : Runs(p) \/ Quit(p) \/ BeginStore(p) \/ StoreFeed(p) \/ Hangup(p) \/ Kill(p)

Spec == Init /\ [][Next]_vars
\* A process is scheduled, and so are its threads.
Fairness == \A p \in Procs : WF_vars(Runs(p)) /\ WF_vars(StoreFeed(p))
LiveSpec == Spec /\ Fairness

-----------------------------------------------------------------------------
(* The types of all variables.                                               *)
TypeOK ==
  /\ mode \in [Procs -> Modes] /\ lock_file \in [Procs -> Caches]
  /\ at \in [Procs -> {"new", "open", "lock", "config", "cache", "urls", "load", "work", "running",
                       "quit", "cleaned", "leaving", "ended"}]
  /\ fd \in [Procs -> Inodes \cup {Gone}] /\ held \in [Procs -> SUBSET Inodes]
  /\ file \in [Caches -> Inodes \cup {Gone}]
  /\ saver \in [Procs -> {"idle", "storing"}] /\ mtx \in [Procs -> {"free", "kept"}]
  /\ foul \subseteq Procs

(* Two processes have the same cache open only if one of them has no right   *)
(* to the lock: it never took one, it opened the file before its owner       *)
(* removed it, or somebody else removed the file (utils::try_fs_lock,        *)
(* controller::run).                                                         *)
OneProcessPerCache ==
  \A p, q \in Procs : p # q /\ Opened(p) /\ Opened(q) /\ lock_file[p] = lock_file[q] => {p, q} \cap foul # {}

(* Nothing is stored after the cache was cleaned up (cache.cpp:625).         *)
NothingStoredAfterCleanUp ==
  [][\A p \in Procs : at[p] \in {"cleaned", "leaving"} /\ saver[p] = "storing" /\ at'[p] # "ended" => saver'[p] = "storing"]_vars

(* Who quits gets the program to end. It does not when a feed has come since *)
(* the clean-up: the thread that stores it has feeds_mutex and waits for the  *)
(* cache's mutex, and ~controller waits for feeds_mutex, both for ever.       *)
QuitEnds == \A p \in Procs : at[p] = "quit" ~> at[p] = "ended"
=============================================================================

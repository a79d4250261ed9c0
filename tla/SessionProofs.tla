--------------------------- MODULE SessionProofs ---------------------------
(* Proofs about Session for any processes, configurations and signals: a     *)
(* process with a right to the lock is alone with its cache; and about Locks *)
(* for any downloadthreads: no threads wait for each other in a circle.      *)
EXTENDS Session, Locks, SequenceTheorems, TLAPS

\* From the lock on to the clean-up.
InsidePlaces == {"config", "cache", "urls", "load", "work", "running", "quit", "cleaned"}
Inside(p) == at[p] \in InsidePlaces
Places == InsidePlaces \cup {"new", "open", "lock", "leaving", "ended"}

\* What is to be locked was opened.
OpenedBeforeLock == \A p \in Procs : at[p] = "lock" => fd[p] \in Inodes
\* A lock is exclusive.
LocksDisjoint == \A p, q \in Procs : p # q => held[p] \cap held[q] = {}
\* Who has a right to the lock has a lock on the file of that name.
HasTheFile == \A p \in Procs : Inside(p) /\ p \notin foul => file[lock_file[p]] \in held[p]

LockInv == TypeOK /\ OpenedBeforeLock /\ LocksDisjoint /\ HasTheFile

LEMMA InitLock == Init => LockInv
<1>. SUFFICES ASSUME Init PROVE LockInv
  OBVIOUS
<1>1. TypeOK
  BY SessionAssumption DEF Init, TypeOK, Caches
<1>2. OpenedBeforeLock /\ LocksDisjoint /\ HasTheFile
  BY DEF Init, OpenedBeforeLock, LocksDisjoint, HasTheFile, Inside, InsidePlaces
<1>. QED
  BY <1>1, <1>2 DEF LockInv

\* Removing a file by its name, the remover being inside no longer.
LEMMA RemovalKeeps ==
  ASSUME LockInv, NEW p \in Procs, RemoveFsLock(p), fd' = fd,
         NEW place \in {"open", "leaving", "ended"}, at' = [at EXCEPT ![p] = place],
         held' = held \/ held' = [held EXCEPT ![p] = {}],
         saver' = saver \/ saver' = [saver EXCEPT ![p] = "idle"],
         mode' = mode, mtx' = mtx,
         lock_file' = lock_file \/ lock_file' = [lock_file EXCEPT ![p] = "configured"]
  PROVE  LockInv'
<1>. USE DEF LockInv, TypeOK
<1>1. TypeOK'
  <2>1. file' \in [Caches -> Inodes \cup {Gone}] /\ foul' \subseteq Procs
    BY DEF RemoveFsLock
  <2>2. at' \in [Procs -> {"new", "open", "lock", "config", "cache", "urls", "load", "work", "running",
                       "quit", "cleaned", "leaving", "ended"}]
    OBVIOUS
  <2>3. held' \in [Procs -> SUBSET Inodes] /\ saver' \in [Procs -> {"idle", "storing"}]
    OBVIOUS
  <2>4. lock_file' \in [Procs -> Caches]
    BY DEF Caches
  <2>. QED
    BY <2>1, <2>2, <2>3, <2>4
<1>2. \A q \in Procs : held'[q] \subseteq held[q] /\ (q # p => held'[q] = held[q])
  OBVIOUS
<1>3. \A q \in Procs \ {p} : at'[q] = at[q] /\ lock_file'[q] = lock_file[q]
  OBVIOUS
<1>4. ~Inside(p)' /\ at'[p] # "lock"
  BY DEF Inside, InsidePlaces
<1>5. OpenedBeforeLock'
  BY <1>3, <1>4 DEF OpenedBeforeLock
<1>6. LocksDisjoint'
  BY <1>2 DEF LocksDisjoint
<1>7. HasTheFile'
  <2>. SUFFICES ASSUME NEW q \in Procs, Inside(q)', q \notin foul'
                PROVE  file'[lock_file'[q]] \in held'[q]
    BY DEF HasTheFile
  <2>1. q # p
    BY <1>4
  <2>2. Inside(q) /\ q \notin foul
    BY <1>3, <2>1 DEF Inside, InsidePlaces, RemoveFsLock
  <2>3. file[lock_file[q]] \in held[q]
    BY <2>2 DEF HasTheFile
  <2>4. lock_file[q] # lock_file[p]
    BY <2>1, <2>3 DEF RemoveFsLock
  <2>. QED
    BY <1>2, <1>3, <2>1, <2>3, <2>4 DEF RemoveFsLock
<1>. QED
  BY <1>1, <1>5, <1>6, <1>7

\* A step that touches no file and no other process, and does not get its process
\* inside with a right that it did not have.
LEMMA MoveKeeps ==
  ASSUME LockInv, TypeOK', NEW p \in Procs, file' = file, fd' = fd, lock_file' = lock_file,
         foul \subseteq foul',
         \A q \in Procs \ {p} : at'[q] = at[q] /\ held'[q] = held[q],
         held'[p] \subseteq held[p], at'[p] # "lock",
         Inside(p)' => p \in foul' \/ (Inside(p) /\ held'[p] = held[p])
  PROVE  LockInv'
<1>1. OpenedBeforeLock'
  BY DEF LockInv, OpenedBeforeLock
<1>2. LocksDisjoint'
  BY DEF LockInv, LocksDisjoint
<1>3. HasTheFile'
  <2>. SUFFICES ASSUME NEW q \in Procs, Inside(q)', q \notin foul'
                PROVE  file[lock_file[q]] \in held'[q]
    BY DEF HasTheFile
  <2>1. q \notin foul /\ Inside(q) /\ held'[q] = held[q]
    BY DEF Inside, InsidePlaces
  <2>. QED
    BY <2>1 DEF LockInv, HasTheFile
<1>. QED
  BY <1>1, <1>2, <1>3 DEF LockInv

\* Likewise, as the actions of this kind say it.
LEMMA GoKeeps ==
  ASSUME LockInv, NEW p \in Procs, NEW place \in Places, place # "lock", Goes(p, place),
         UNCHANGED <<mode, lock_file, fd, file>>, foul \subseteq foul', foul' \subseteq Procs,
         mtx' \in [Procs -> {"free", "kept"}],
         place \in InsidePlaces => p \in foul' \/ Inside(p)
  PROVE  LockInv'
<1>1. at' = [at EXCEPT ![p] = place] /\ held' = held /\ saver' = saver
  BY DEF Goes
<1>2. at'[p] = place /\ \A q \in Procs \ {p} : at'[q] = at[q]
  BY <1>1 DEF LockInv, TypeOK
<1>3. TypeOK'
  BY <1>1 DEF LockInv, TypeOK, Places, InsidePlaces
<1>4. Inside(p)' => p \in foul' \/ (Inside(p) /\ held'[p] = held[p])
  BY <1>1, <1>2 DEF Inside, InsidePlaces
<1>. QED
  BY <1>1, <1>2, <1>3, <1>4, MoveKeeps

LEMMA EndKeeps ==
  ASSUME LockInv, NEW p \in Procs, Ended(p), UNCHANGED <<mode, lock_file, fd, file, mtx, foul>>
  PROVE  LockInv'
<1>1. TypeOK'
  <2>1. TypeOK /\ at' = [at EXCEPT ![p] = "ended"] /\ held' = [held EXCEPT ![p] = {}]
        /\ saver' = [saver EXCEPT ![p] = "idle"]
    BY DEF LockInv, Ended
  <2>2. held' \in [Procs -> SUBSET Inodes] /\ saver' \in [Procs -> {"idle", "storing"}]
    BY <2>1 DEF TypeOK
  <2>. QED
    BY <2>1, <2>2 DEF TypeOK
<1>2. at'[p] = "ended" /\ held'[p] = {} /\ \A q \in Procs \ {p} : at'[q] = at[q] /\ held'[q] = held[q]
  BY DEF LockInv, TypeOK, Ended
<1>3. ~Inside(p)'
  BY <1>2 DEF Inside, InsidePlaces
<1>. QED
  BY <1>1, <1>2, <1>3, MoveKeeps

\* Opening makes a file only where there is none, so nobody loses one.
LEMMA OpenKeeps == ASSUME LockInv, NEW p \in Procs, OpenLock(p) PROVE LockInv'
<1>. USE DEF LockInv, TypeOK
<1> DEFINE inode == IF file[lock_file[p]] = Gone THEN <<p, lock_file[p]>> ELSE file[lock_file[p]]
<1>1. inode \in Inodes
  BY DEF Inodes
<1>2. /\ fd' = [fd EXCEPT ![p] = inode] /\ file' = [file EXCEPT ![lock_file[p]] = inode]
      /\ at' = [at EXCEPT ![p] = "lock"]
      /\ UNCHANGED <<mode, lock_file, held, saver, mtx, foul>>
  BY DEF OpenLock, Goes
<1> HIDE DEF inode
<1>3. TypeOK'
  BY <1>1, <1>2
<1>4. OpenedBeforeLock' /\ LocksDisjoint'
  BY <1>1, <1>2 DEF OpenedBeforeLock, LocksDisjoint
<1>5. HasTheFile'
  <2>. SUFFICES ASSUME NEW q \in Procs, Inside(q)', q \notin foul
                PROVE  file'[lock_file[q]] \in held[q]
    BY <1>2 DEF HasTheFile
  <2>1. Inside(q)
    BY <1>2 DEF Inside, InsidePlaces
  <2>2. file[lock_file[q]] \in held[q]
    BY <2>1 DEF HasTheFile
  <2>3. file[lock_file[q]] # Gone
    BY <2>2, SessionAssumption
  <2>4. file'[lock_file[q]] = file[lock_file[q]]
    BY <1>2, <2>3 DEF inode
  <2>. QED
    BY <2>2, <2>4
<1>. QED
  BY <1>3, <1>4, <1>5

\* A lock is taken only where nobody has it, and counts only if the file is still
\* the one of that name.
LEMMA TakeKeeps == ASSUME LockInv, NEW p \in Procs, TakeLock(p) PROVE LockInv'
<1>. USE DEF LockInv, TypeOK
<1>1. fd[p] \in Inodes /\ \A q \in Procs \ {p} : fd[p] \notin held[q]
  BY DEF TakeLock, LockFree, OpenedBeforeLock
<1>2. /\ held' = [held EXCEPT ![p] = @ \cup {fd[p]}]
      /\ UNCHANGED <<mode, lock_file, fd, file, saver, mtx>>
  BY DEF TakeLock
<1>3. /\ \/ at' = [at EXCEPT ![p] = "cache"]
         \/ at' = [at EXCEPT ![p] = "config"]
      /\ foul' = IF file[lock_file[p]] = fd[p] THEN foul \ {p} ELSE foul \cup {p}
  BY DEF TakeLock
<1>4. TypeOK'
  <2>1. held' \in [Procs -> SUBSET Inodes]
    BY <1>1, <1>2
  <2>2. at' \in [Procs -> {"new", "open", "lock", "config", "cache", "urls", "load", "work", "running",
                       "quit", "cleaned", "leaving", "ended"}] /\ foul' \subseteq Procs
    BY <1>3
  <2>. QED
    BY <1>2, <2>1, <2>2
<1>5. OpenedBeforeLock'
  BY <1>2, <1>3 DEF OpenedBeforeLock
<1>6. LocksDisjoint'
  BY <1>1, <1>2 DEF LocksDisjoint
<1>7. HasTheFile'
  <2>. SUFFICES ASSUME NEW q \in Procs, Inside(q)', q \notin foul'
                PROVE  file[lock_file[q]] \in held'[q]
    BY <1>2 DEF HasTheFile
  <2>1. CASE q = p
    BY <1>2, <1>3, <2>1
  <2>2. CASE q # p
    <3>1. Inside(q) /\ q \notin foul /\ held'[q] = held[q]
      BY <1>2, <1>3, <2>2 DEF Inside, InsidePlaces
    <3>. QED
      BY <3>1 DEF HasTheFile
  <2>. QED
    BY <2>1, <2>2
<1>. QED
  BY <1>4, <1>5, <1>6, <1>7

LEMMA NextKeepsLock == LockInv /\ [Next]_vars => LockInv'
<1>. SUFFICES ASSUME LockInv, [Next]_vars PROVE LockInv'
  OBVIOUS
<1>0. foul \subseteq Procs
  BY DEF LockInv, TypeOK
<1>3. UNCHANGED mtx => mtx' \in [Procs -> {"free", "kept"}]
  BY DEF LockInv, TypeOK
<1>1. CASE UNCHANGED vars
  BY <1>1 DEF LockInv, TypeOK, OpenedBeforeLock, LocksDisjoint, HasTheFile, Inside, InsidePlaces, vars
<1>2. CASE Next
  <2>. PICK p \in Procs : Runs(p) \/ Quit(p) \/ BeginStore(p) \/ StoreFeed(p) \/ Hangup(p) \/ Kill(p)
    BY <1>2 DEF Next
  <2>1. CASE Start(p)
    <3>1. /\ foul \subseteq foul' /\ foul' \subseteq Procs
          /\ mode[p] = "export" => p \in foul'
      BY <1>0, <2>1 DEF Start
    <3>2. Goes(p, IF mode[p] = "export" THEN "config" ELSE "open")
      BY <2>1 DEF Start
    <3>3. UNCHANGED <<mode, lock_file, fd, file, mtx>>
      BY <2>1 DEF Start
    <3>4. CASE mode[p] = "export"
      <4>1. Goes(p, "config")
        BY <3>2, <3>4
      <4>. QED
        BY <3>1, <3>3, <3>4, <4>1, <1>3, GoKeeps DEF Places, InsidePlaces
    <3>5. CASE mode[p] # "export"
      <4>1. Goes(p, "open")
        BY <3>2, <3>5
      <4>. QED
        BY <3>1, <3>3, <4>1, <1>3, GoKeeps DEF Places, InsidePlaces
    <3>. QED
      BY <3>4, <3>5
  <2>2. CASE OpenLock(p)
    BY <2>2, OpenKeeps
  <2>3. CASE TakeLock(p)
    BY <2>3, TakeKeeps
  <2>4. CASE Refused(p)
    BY <2>4, EndKeeps DEF Refused
  <2>5. CASE ReadConfig(p)
    <3>0. UNCHANGED <<mode, fd, mtx>>
      BY <2>5 DEF ReadConfig
    <3>1. CASE Leaves(p) /\ UNCHANGED lock_file
      BY <3>0, <3>1, RemovalKeeps DEF Leaves, Ended
    <3>2. CASE Goes(p, "cache") /\ UNCHANGED <<lock_file, file, foul>>
      <4>1. Inside(p)
        BY <2>5 DEF ReadConfig, Inside, InsidePlaces
      <4>. QED
        BY <1>0, <1>3, <3>0, <3>2, <4>1, GoKeeps DEF Places, InsidePlaces
    <3>3. CASE /\ RemoveFsLock(p) /\ Goes(p, "open")
               /\ lock_file' = [lock_file EXCEPT ![p] = "configured"]
      BY <3>0, <3>3, RemovalKeeps DEF Goes
    <3>. QED
      BY <2>5, <3>1, <3>2, <3>3 DEF ReadConfig
  <2>6. CASE OpenCache(p)
    <3>0. UNCHANGED <<mode, lock_file, fd, mtx>> /\ Inside(p)
      BY <2>6 DEF OpenCache, Inside, InsidePlaces
    <3>1. CASE Leaves(p)
      BY <3>0, <3>1, RemovalKeeps DEF Leaves, Ended
    <3>2. CASE Goes(p, "urls") /\ UNCHANGED <<file, foul>>
      BY <1>0, <1>3, <3>0, <3>2, GoKeeps DEF Places, InsidePlaces
    <3>. QED
      BY <2>6, <3>1, <3>2 DEF OpenCache
  <2>7. CASE ReadUrls(p)
    <3>0. UNCHANGED <<mode, lock_file, fd, mtx>> /\ Inside(p)
      BY <2>7 DEF ReadUrls, Inside, InsidePlaces
    <3>1. CASE Leaves(p)
      BY <3>0, <3>1, RemovalKeeps DEF Leaves, Ended
    <3>2. CASE Ended(p) /\ UNCHANGED <<file, foul>>
      BY <3>0, <3>2, EndKeeps
    <3>3. CASE Goes(p, "work") /\ UNCHANGED <<file, foul>>
      BY <1>0, <1>3, <3>0, <3>3, GoKeeps DEF Places, InsidePlaces
    <3>4. CASE Goes(p, "load") /\ UNCHANGED <<file, foul>>
      BY <1>0, <1>3, <3>0, <3>4, GoKeeps DEF Places, InsidePlaces
    <3>. QED
      BY <2>7, <3>1, <3>2, <3>3, <3>4 DEF ReadUrls
  <2>8. CASE Load(p)
    <3>0. UNCHANGED <<mode, lock_file, fd, mtx>> /\ Inside(p)
      BY <2>8 DEF Load, Inside, InsidePlaces
    <3>1. CASE Leaves(p)
      BY <3>0, <3>1, RemovalKeeps DEF Leaves, Ended
    <3>2. CASE Goes(p, "running") /\ UNCHANGED <<file, foul>>
      BY <1>0, <1>3, <3>0, <3>2, GoKeeps DEF Places, InsidePlaces
    <3>3. CASE Goes(p, "work") /\ UNCHANGED <<file, foul>>
      BY <1>0, <1>3, <3>0, <3>3, GoKeeps DEF Places, InsidePlaces
    <3>. QED
      BY <2>8, <3>1, <3>2, <3>3 DEF Load
  <2>9. CASE Work(p)
    <3>0. UNCHANGED <<mode, lock_file, fd, mtx>> /\ Inside(p)
      BY <2>9 DEF Work, Inside, InsidePlaces
    <3>1. CASE Leaves(p)
      BY <3>0, <3>1, RemovalKeeps DEF Leaves, Ended
    <3>2. CASE Ended(p) /\ UNCHANGED <<file, foul>>
      BY <3>0, <3>2, EndKeeps
    <3>. QED
      BY <2>9, <3>1, <3>2 DEF Work
  <2>10. CASE CleanUp(p)
    <3>1. /\ Goes(p, "cleaned") /\ UNCHANGED <<mode, lock_file, fd, file, foul>>
          /\ mtx' = [mtx EXCEPT ![p] = "kept"]
      BY <2>10 DEF CleanUp
    <3>2. Inside(p) /\ mtx' \in [Procs -> {"free", "kept"}]
      BY <2>10, <3>1 DEF CleanUp, Inside, InsidePlaces, LockInv, TypeOK
    <3>. QED
      BY <1>0, <3>1, <3>2, GoKeeps DEF Places, InsidePlaces
  <2>11. CASE Return(p)
    BY <2>11, RemovalKeeps DEF Return, Goes
  <2>12. CASE Destroy(p)
    BY <2>12, EndKeeps DEF Destroy
  <2>13. CASE Quit(p)
    <3>1. Inside(p) /\ Goes(p, "quit") /\ UNCHANGED <<mode, lock_file, fd, file, mtx, foul>>
      BY <2>13 DEF Quit, Inside, InsidePlaces
    <3>. QED
      BY <1>0, <1>3, <3>1, GoKeeps DEF Places, InsidePlaces
  <2>14. CASE BeginStore(p) \/ StoreFeed(p)
    <3>1. /\ saver' \in [Procs -> {"idle", "storing"}]
          /\ UNCHANGED <<mode, at, lock_file, fd, held, file, mtx, foul>>
      BY <2>14 DEF BeginStore, StoreFeed, LockInv, TypeOK
    <3>. QED
      BY <3>1 DEF LockInv, TypeOK, OpenedBeforeLock, LocksDisjoint, HasTheFile, Inside, InsidePlaces
  <2>15. CASE Hangup(p)
    BY <2>15, RemovalKeeps DEF Hangup, Leaves, Ended
  <2>16. CASE Kill(p)
    BY <2>16, EndKeeps DEF Kill
  <2>. QED
    BY <2>1, <2>2, <2>3, <2>4, <2>5, <2>6, <2>7, <2>8, <2>9, <2>10, <2>11, <2>12, <2>13, <2>14,
       <2>15, <2>16 DEF Runs
<1>. QED
  BY <1>1, <1>2

THEOREM LockInvariant == Spec => []LockInv
<1>. QED
  BY InitLock, NextKeepsLock, PTL DEF Spec

-----------------------------------------------------------------------------
(* The types of all variables, for any processes, configurations, signals.   *)
THEOREM TypesHold == Spec => []TypeOK
<1>1. LockInv => TypeOK
  BY DEF LockInv
<1>. QED
  BY <1>1, LockInvariant, PTL

(* Of two processes that have the same cache open, one has no right to the   *)
(* lock (utils::try_fs_lock, controller::run).                               *)
THEOREM AloneWithTheCache == Spec => []OneProcessPerCache
<1>1. LockInv => OneProcessPerCache
  <2>. SUFFICES ASSUME LockInv, NEW p \in Procs, NEW q \in Procs, p # q, Opened(p), Opened(q),
                       lock_file[p] = lock_file[q], p \notin foul, q \notin foul
                PROVE  FALSE
    BY DEF OneProcessPerCache
  <2>1. Inside(p) /\ Inside(q)
    BY DEF Opened, Inside, InsidePlaces
  <2>2. file[lock_file[p]] \in held[p] \cap held[q]
    BY <2>1 DEF LockInv, HasTheFile
  <2>. QED
    BY <2>2 DEF LockInv, LocksDisjoint
<1>. QED
  BY <1>1, LockInvariant, PTL

-----------------------------------------------------------------------------
\* From the clean-up on the cache's mutex is kept.
KeptAfterCleanUp == \A p \in Procs : at[p] \in {"cleaned", "leaving"} => mtx[p] = "kept"
\* No process gets to the clean-up by this step.
NotReached == mtx' = mtx /\ \A p \in Procs : at'[p] \in {"cleaned", "leaving"} => at[p] \in {"cleaned", "leaving"}

LEMMA NextKeepsMutex == LockInv /\ KeptAfterCleanUp /\ [Next]_vars => KeptAfterCleanUp'
<1>. SUFFICES ASSUME LockInv, KeptAfterCleanUp, [Next]_vars PROVE KeptAfterCleanUp'
  OBVIOUS
<1>1. NotReached => KeptAfterCleanUp'
  BY DEF NotReached, KeptAfterCleanUp
<1>2. ASSUME NEW p \in Procs, NEW place, place \notin {"cleaned", "leaving"} \/ at[p] \in {"cleaned", "leaving"},
             at' = [at EXCEPT ![p] = place], mtx' = mtx
      PROVE  NotReached
  BY <1>2 DEF NotReached, LockInv, TypeOK
<1>3. CASE UNCHANGED vars
  BY <1>1, <1>3 DEF NotReached, vars
<1>4. ASSUME NEW p \in Procs, CleanUp(p) PROVE KeptAfterCleanUp'
  BY <1>4 DEF CleanUp, Goes, KeptAfterCleanUp, LockInv, TypeOK
<1>5. ASSUME NEW p \in Procs, Return(p) PROVE NotReached
  BY <1>5, <1>2 DEF Return, Goes
<1>6. CASE Next
  <2>. PICK p \in Procs : Runs(p) \/ Quit(p) \/ BeginStore(p) \/ StoreFeed(p) \/ Hangup(p) \/ Kill(p)
    BY <1>6 DEF Next
  <2>1. Start(p) => NotReached
    BY <1>2 DEF Start, Goes, Ended, Leaves, NotReached, LockInv, TypeOK
  <2>2. OpenLock(p) => NotReached
    BY <1>2 DEF OpenLock, Goes, Ended, Leaves, NotReached, LockInv, TypeOK
  <2>3. TakeLock(p) => NotReached
    BY <1>2 DEF TakeLock, Goes, Ended, Leaves, NotReached, LockInv, TypeOK
  <2>4. Refused(p) => NotReached
    BY <1>2 DEF Refused, Goes, Ended, Leaves, NotReached, LockInv, TypeOK
  <2>5. ReadConfig(p) => NotReached
    BY <1>2 DEF ReadConfig, Goes, Ended, Leaves, NotReached, LockInv, TypeOK
  <2>6. OpenCache(p) => NotReached
    BY <1>2 DEF OpenCache, Goes, Ended, Leaves, NotReached, LockInv, TypeOK
  <2>7. ReadUrls(p) => NotReached
    BY <1>2 DEF ReadUrls, Goes, Ended, Leaves, NotReached, LockInv, TypeOK
  <2>8. Load(p) => NotReached
    BY <1>2 DEF Load, Goes, Ended, Leaves, NotReached, LockInv, TypeOK
  <2>9. Work(p) => NotReached
    BY <1>2 DEF Work, Goes, Ended, Leaves, NotReached, LockInv, TypeOK
  <2>10. Destroy(p) => NotReached
    BY <1>2 DEF Destroy, Goes, Ended, Leaves, NotReached, LockInv, TypeOK
  <2>11. Quit(p) => NotReached
    BY <1>2 DEF Quit, Goes, Ended, Leaves, NotReached, LockInv, TypeOK
  <2>12. BeginStore(p) => NotReached
    BY <1>2 DEF BeginStore, Goes, Ended, Leaves, NotReached, LockInv, TypeOK
  <2>13. StoreFeed(p) => NotReached
    BY <1>2 DEF StoreFeed, Goes, Ended, Leaves, NotReached, LockInv, TypeOK
  <2>14. Hangup(p) => NotReached
    BY <1>2 DEF Hangup, Goes, Ended, Leaves, NotReached, LockInv, TypeOK
  <2>15. Kill(p) => NotReached
    BY <1>2 DEF Kill, Goes, Ended, Leaves, NotReached, LockInv, TypeOK
  <2>. QED
    BY <1>1, <1>4, <1>5, <2>1, <2>2, <2>3, <2>4, <2>5, <2>6, <2>7, <2>8, <2>9, <2>10, <2>11, <2>12, <2>13, <2>14, <2>15 DEF Runs
<1>. QED
  BY <1>3, <1>6

(* What a thread has begun to store after the clean-up it does not store     *)
(* (cache::cleanup_cache keeps the cache's mutex).                           *)
THEOREM MutexStaysKept == Spec => NothingStoredAfterCleanUp
<1> DEFINE Stays == \A p \in Procs :
             at[p] \in {"cleaned", "leaving"} /\ saver[p] = "storing" /\ at'[p] # "ended" => saver'[p] = "storing"
<1>1. Init => KeptAfterCleanUp
  BY DEF Init, KeptAfterCleanUp
<1>2. LockInv /\ KeptAfterCleanUp /\ [Next]_vars => [Stays]_vars
  <2>. SUFFICES ASSUME LockInv, KeptAfterCleanUp, [Next]_vars, NEW p \in Procs,
                       at[p] \in {"cleaned", "leaving"}, saver[p] = "storing", at'[p] # "ended", vars' # vars
                PROVE  saver'[p] = "storing"
    OBVIOUS
  <2>1. mtx[p] = "kept"
    BY DEF KeptAfterCleanUp
  <2>2. PICK q \in Procs : Runs(q) \/ Quit(q) \/ BeginStore(q) \/ StoreFeed(q) \/ Hangup(q) \/ Kill(q)
    BY DEF Next
  <2>3. CASE saver' = saver
    BY <2>3
  <2>4. CASE BeginStore(q)
    BY <2>4 DEF BeginStore, LockInv, TypeOK
  <2>5. CASE StoreFeed(q)
    BY <2>1, <2>5 DEF StoreFeed, LockInv, TypeOK
  <2>6. CASE Ended(q)
    BY <2>6 DEF Ended, LockInv, TypeOK
  <2>7. Runs(q) \/ Quit(q) \/ Hangup(q) \/ Kill(q) => saver' = saver \/ Ended(q)
    BY DEF Runs, Start, OpenLock, TakeLock, Refused, ReadConfig, OpenCache, ReadUrls, Load, Work,
           CleanUp, Return, Destroy, Quit, Hangup, Kill, Leaves, Goes
  <2>. QED
    BY <2>2, <2>3, <2>4, <2>5, <2>6, <2>7
<1>3. Spec => []KeptAfterCleanUp
  BY <1>1, LockInvariant, NextKeepsMutex, PTL DEF Spec
<1>4. Spec => [][Stays]_vars
  BY <1>2, <1>3, LockInvariant, PTL DEF Spec
<1>. QED
  BY <1>4 DEF NothingStoredAfterCleanUp

-----------------------------------------------------------------------------
(* Which mutex may be taken while which are held (Locks)                     *)

Steps == {"take", "give", "touch"} \X Mutexes

\* The order in which mutexes are taken, but for two exceptions.
Rank(m) == IF m = "redraw" THEN 0 ELSE IF m = "feeds" THEN 1 ELSE IF m = "view" THEN 2
           ELSE IF m = "query" THEN 3 ELSE IF m = "real" THEN 4 ELSE 5

\* What a thread is at: "main", the main thread; "reload", reloading feeds; "after",
\* in the part of a reload of all feeds that comes after.
Allowed(role, own, m) ==
  \/ /\ \A g \in own : Rank(g) < Rank(m)
     /\ "real" \in own => role \in {"main", "reload"}
     /\ "query" \in own => m = "real" /\ role \in {"main", "after"}
  \/ m = "query" /\ own \subseteq {"feeds", "cache"} /\ role = "main"
  \/ m = "real" /\ own = {"redraw", "real"}

\* A step leads from some held mutexes to others.
Leads(role, step, g, h) ==
  /\ step \in Steps /\ g \in SUBSET Mutexes /\ h \in SUBSET Mutexes
  /\ step[1] = "take" => Allowed(role, g, step[2]) /\ h = g \cup {step[2]}
  /\ step[1] = "give" => step[2] \in g /\ h = g \ {step[2]}
  /\ step[1] = "touch" => Allowed(role, g, step[2]) /\ h = g

\* Steps that lead from g to h.
Between(role, s, g, h) ==
  /\ s \in Seq(Steps)
  /\ \E own \in [1 .. Len(s) + 1 -> SUBSET Mutexes] :
       /\ own[1] = g /\ own[Len(s) + 1] = h
       /\ \A i \in 1 .. Len(s) : Leads(role, s[i], own[i], own[i + 1])

LEMMA NoSteps ==
  ASSUME NEW role, NEW g \in SUBSET Mutexes
  PROVE  Between(role, <<>>, g, g)
<1> DEFINE own == [i \in 1 .. 1 |-> g]
<1>1. own \in [1 .. Len(<<>>) + 1 -> SUBSET Mutexes] /\ own[1] = g /\ own[Len(<<>>) + 1] = g
  OBVIOUS
<1>2. \A i \in 1 .. Len(<<>>) : FALSE
  OBVIOUS
<1> HIDE DEF own
<1>3. <<>> \in Seq(Steps)
  OBVIOUS
<1>. QED
  BY <1>1, <1>2, <1>3 DEF Between

LEMMA OneStep ==
  ASSUME NEW role, NEW step, NEW g, NEW h, Leads(role, step, g, h)
  PROVE  Between(role, <<step>>, g, h)
<1> DEFINE own == [i \in 1 .. 2 |-> IF i = 1 THEN g ELSE h]
           s == <<step>>
<1>1. step \in Steps /\ g \in SUBSET Mutexes /\ h \in SUBSET Mutexes
  BY DEF Leads
<1>2. s \in Seq(Steps) /\ Len(s) = 1 /\ s[1] = step
  BY <1>1
<1>3. own \in [1 .. 2 -> SUBSET Mutexes] /\ own[1] = g /\ own[2] = h
  BY <1>1
<1> HIDE DEF own, s
<1>4. own \in [1 .. Len(s) + 1 -> SUBSET Mutexes] /\ own[Len(s) + 1] = h
  BY <1>2, <1>3
<1>5. \A i \in 1 .. Len(s) : Leads(role, s[i], own[i], own[i + 1])
  BY <1>2, <1>3
<1>6. Between(role, s, g, h)
  BY <1>2, <1>3, <1>4, <1>5 DEF Between
<1>. QED
  BY <1>6 DEF s

LEMMA Both ==
  ASSUME NEW role, NEW s, NEW u, NEW g, NEW h, NEW k, Between(role, s, g, h), Between(role, u, h, k)
  PROVE  Between(role, s \o u, g, k)
<1>1. s \in Seq(Steps) /\ u \in Seq(Steps)
  BY DEF Between
<1>2. PICK a \in [1 .. Len(s) + 1 -> SUBSET Mutexes] :
        /\ a[1] = g /\ a[Len(s) + 1] = h
        /\ \A i \in 1 .. Len(s) : Leads(role, s[i], a[i], a[i + 1])
  BY DEF Between
<1>3. PICK b \in [1 .. Len(u) + 1 -> SUBSET Mutexes] :
        /\ b[1] = h /\ b[Len(u) + 1] = k
        /\ \A i \in 1 .. Len(u) : Leads(role, u[i], b[i], b[i + 1])
  BY DEF Between
<1> DEFINE n == Len(s)
           m == Len(u)
           c == [i \in 1 .. (n + m) + 1 |-> IF i <= n THEN a[i] ELSE b[i - n]]
           w == s \o u
<1>4. n \in Nat /\ m \in Nat
  BY <1>1
<1>5. w \in Seq(Steps) /\ Len(w) = n + m
  BY <1>1
<1>6. \A i \in 1 .. n : w[i] = s[i]
  BY <1>1
<1>7. \A i \in n + 1 .. n + m : w[i] = u[i - n]
  BY <1>1
<1> HIDE DEF n, m, w
<1>8. a \in [1 .. n + 1 -> SUBSET Mutexes] /\ b \in [1 .. m + 1 -> SUBSET Mutexes]
  BY DEF n, m
<1>9. /\ a[1] = g /\ a[n + 1] = h /\ b[1] = h /\ b[m + 1] = k
      /\ \A i \in 1 .. n : Leads(role, s[i], a[i], a[i + 1])
      /\ \A i \in 1 .. m : Leads(role, u[i], b[i], b[i + 1])
  BY <1>2, <1>3 DEF n, m
<1>10. \A i \in 1 .. (n + m) + 1 : c[i] = IF i <= n THEN a[i] ELSE b[i - n]
  OBVIOUS
<1>11. c \in [1 .. (n + m) + 1 -> SUBSET Mutexes]
  <2>. SUFFICES ASSUME NEW i \in 1 .. (n + m) + 1
                PROVE  (IF i <= n THEN a[i] ELSE b[i - n]) \in SUBSET Mutexes
    OBVIOUS
  <2>1. CASE i <= n
    <3>1. i \in 1 .. n + 1
      BY <1>4, <2>1
    <3>. QED
      BY <1>8, <2>1, <3>1
  <2>2. CASE ~(i <= n)
    <3>1. i - n \in 1 .. m + 1
      BY <1>4, <2>2
    <3>. QED
      BY <1>8, <2>2, <3>1
  <2>. QED
    BY <2>1, <2>2
<1> HIDE DEF c
<1>12. c[1] = g
  <2>1. CASE n = 0
    <3>1. 1 \in 1 .. (n + m) + 1 /\ ~(1 <= n) /\ 1 - n = 1 /\ n + 1 = 1
      BY <1>4, <2>1
    <3>. QED
      BY <1>9, <1>10, <3>1
  <2>2. CASE n # 0
    <3>1. 1 \in 1 .. (n + m) + 1 /\ 1 <= n
      BY <1>4, <2>2
    <3>. QED
      BY <1>9, <1>10, <3>1
  <2>. QED
    BY <2>1, <2>2
<1>13. c[(n + m) + 1] = k
  <2>1. (n + m) + 1 \in 1 .. (n + m) + 1 /\ ~((n + m) + 1 <= n) /\ ((n + m) + 1) - n = m + 1
    BY <1>4
  <2>. QED
    BY <1>9, <1>10, <2>1
<1>14. ASSUME NEW i \in 1 .. n + m
       PROVE  Leads(role, w[i], c[i], c[i + 1])
  <2>1. i \in 1 .. (n + m) + 1 /\ i + 1 \in 1 .. (n + m) + 1
    BY <1>4
  <2>2. CASE i < n
    <3>1. i \in 1 .. n /\ i <= n /\ i + 1 <= n
      BY <1>4, <2>2
    <3>2. c[i] = a[i] /\ c[i + 1] = a[i + 1]
      BY <1>10, <2>1, <3>1
    <3>. QED
      BY <1>6, <1>9, <3>1, <3>2
  <2>3. CASE i = n
    <3>1. i \in 1 .. n /\ i <= n /\ ~(i + 1 <= n) /\ (i + 1) - n = 1
      BY <1>4, <2>3
    <3>2. c[i] = a[i] /\ c[i + 1] = b[1]
      BY <1>10, <2>1, <3>1
    <3>3. c[i + 1] = a[i + 1]
      BY <1>9, <2>3, <3>2
    <3>. QED
      BY <1>6, <1>9, <3>1, <3>2, <3>3
  <2>4. CASE i > n
    <3>1. i - n \in 1 .. m /\ ~(i <= n) /\ ~(i + 1 <= n) /\ (i + 1) - n = (i - n) + 1 /\ i \in n + 1 .. n + m
      BY <1>4, <2>4
    <3>2. c[i] = b[i - n] /\ c[i + 1] = b[(i - n) + 1]
      BY <1>10, <2>1, <3>1
    <3>. QED
      BY <1>7, <1>9, <3>1, <3>2
  <2>. QED
    BY <1>4, <2>2, <2>3, <2>4
<1>15. Between(role, w, g, k)
  BY <1>5, <1>11, <1>12, <1>13, <1>14 DEF Between
<1>. QED
  BY <1>15 DEF w

\* The first of the steps leads to where the others begin.
LEMMA FirstStep ==
  ASSUME NEW role, NEW s, NEW g, NEW h, Between(role, s, g, h), s # <<>>
  PROVE  /\ Head(s) \in Steps
         /\ \E k : Leads(role, Head(s), g, k) /\ Between(role, Tail(s), k, h)
<1>1. s \in Seq(Steps)
  BY DEF Between
<1>2. PICK a \in [1 .. Len(s) + 1 -> SUBSET Mutexes] :
        /\ a[1] = g /\ a[Len(s) + 1] = h
        /\ \A i \in 1 .. Len(s) : Leads(role, s[i], a[i], a[i + 1])
  BY DEF Between
<1> DEFINE n == Len(s)
           u == Tail(s)
           b == [i \in 1 .. (n - 1) + 1 |-> a[i + 1]]
<1>3. n \in Nat \ {0} /\ Head(s) = s[1]
  BY <1>1
<1>4. u \in Seq(Steps) /\ Len(u) = n - 1 /\ \A i \in 1 .. n - 1 : u[i] = s[i + 1]
  BY <1>1
<1> HIDE DEF n, u
<1>5. /\ a \in [1 .. n + 1 -> SUBSET Mutexes] /\ a[1] = g /\ a[n + 1] = h
      /\ \A i \in 1 .. n : Leads(role, s[i], a[i], a[i + 1])
  BY <1>2 DEF n
<1>6. \A i \in 1 .. (n - 1) + 1 : b[i] = a[i + 1]
  OBVIOUS
<1>7. b \in [1 .. (n - 1) + 1 -> SUBSET Mutexes]
  <2>. SUFFICES ASSUME NEW i \in 1 .. (n - 1) + 1
                PROVE  a[i + 1] \in SUBSET Mutexes
    OBVIOUS
  <2>1. i + 1 \in 1 .. n + 1
    BY <1>3
  <2>. QED
    BY <1>5, <2>1
<1> HIDE DEF b
<1>8. b[1] = a[2] /\ b[(n - 1) + 1] = h
  <2>1. 1 \in 1 .. (n - 1) + 1 /\ (n - 1) + 1 \in 1 .. (n - 1) + 1 /\ ((n - 1) + 1) + 1 = n + 1
    BY <1>3
  <2>. QED
    BY <1>5, <1>6, <2>1
<1>9. ASSUME NEW i \in 1 .. n - 1
      PROVE  Leads(role, u[i], b[i], b[i + 1])
  <2>1. i \in 1 .. (n - 1) + 1 /\ i + 1 \in 1 .. (n - 1) + 1 /\ i + 1 \in 1 .. n
    BY <1>3
  <2>2. b[i] = a[i + 1] /\ b[i + 1] = a[(i + 1) + 1] /\ u[i] = s[i + 1]
    BY <1>4, <1>6, <2>1
  <2>. QED
    BY <1>5, <2>1, <2>2
<1>10. Between(role, u, a[2], h)
  BY <1>4, <1>7, <1>8, <1>9 DEF Between
<1>11. Leads(role, s[1], g, a[2])
  <2>1. 1 \in 1 .. n /\ 1 + 1 = 2
    BY <1>3
  <2>. QED
    BY <1>5, <2>1
<1>. QED
  BY <1>3, <1>10, <1>11 DEF Leads, u

LEMMA TouchInOrder ==
  ASSUME NEW role, NEW m \in Mutexes, NEW g \in SUBSET Mutexes, Allowed(role, g, m)
  PROVE  Between(role, Touch(m), g, g)
<1>1. Leads(role, <<"touch", m>>, g, g)
  BY DEF Leads, Steps
<1>. QED
  BY <1>1, OneStep DEF Touch

LEMMA WithInOrder ==
  ASSUME NEW role, NEW m \in Mutexes, NEW g \in SUBSET Mutexes, NEW body,
         Allowed(role, g, m), m \notin g, Between(role, body, g \cup {m}, g \cup {m})
  PROVE  Between(role, With(m, body), g, g)
<1>1. Leads(role, <<"take", m>>, g, g \cup {m})
  BY DEF Leads, Steps
<1>2. Leads(role, <<"give", m>>, g \cup {m}, g)
  BY DEF Leads, Steps
<1>3. Between(role, <<<<"take", m>>>> \o body, g, g \cup {m})
  BY <1>1, OneStep, Both
<1>4. Between(role, (<<<<"take", m>>>> \o body) \o <<<<"give", m>>>>, g, g)
  BY <1>2, <1>3, OneStep, Both
<1>. QED
  BY <1>4 DEF With

LEMMA EachFeedInOrder ==
  ASSUME NEW role, NEW g \in SUBSET {"feeds", "view"}
  PROVE  Between(role, EachFeed, g, g)
<1>1. g \in SUBSET Mutexes
  BY DEF Mutexes
<1>2. Allowed(role, g, "real") /\ Allowed(role, g, "query")
  BY DEF Allowed, Rank
<1>3. "real" \in Mutexes /\ "query" \in Mutexes
  BY DEF Mutexes
<1>4. Between(role, Touch("real"), g, g) /\ Between(role, Touch("query"), g, g)
  BY <1>1, <1>2, <1>3, TouchInOrder
<1>. QED
  BY <1>4, Both DEF EachFeed

LEMMA FeedlistInOrder ==
  ASSUME NEW role
  PROVE  /\ Between(role, SortFeeds, {}, {})
         /\ Between(role, With("view", EachFeed), {"feeds"}, {"feeds"})
         /\ Between(role, UpdateFeedlist, {}, {})
<1>1. /\ {} \in SUBSET Mutexes /\ {"feeds"} \in SUBSET Mutexes
      /\ "feeds" \in Mutexes /\ "view" \in Mutexes
      /\ {} \cup {"feeds"} = {"feeds"} /\ {"feeds"} \cup {"view"} = {"feeds", "view"}
  BY DEF Mutexes
<1>2. Allowed(role, {}, "feeds") /\ Allowed(role, {"feeds"}, "view") /\ "view" \notin {"feeds"}
  BY DEF Allowed, Rank
<1>3. Between(role, EachFeed, {"feeds"}, {"feeds"}) /\ Between(role, EachFeed, {"feeds", "view"}, {"feeds", "view"})
  BY EachFeedInOrder
<1>4. Between(role, SortFeeds, {}, {})
  BY <1>1, <1>2, <1>3, WithInOrder DEF SortFeeds
<1>5. Between(role, With("view", EachFeed), {"feeds"}, {"feeds"})
  BY <1>1, <1>2, <1>3, WithInOrder
<1>6. Between(role, UpdateFeedlist, {}, {})
  BY <1>1, <1>2, <1>5, WithInOrder DEF UpdateFeedlist
<1>. QED
  BY <1>4, <1>5, <1>6

\* A mutex that may be taken by a thread that has none.
LEMMA FreeThread ==
  ASSUME NEW role, NEW m \in Mutexes
  PROVE  Allowed(role, {}, m) /\ Between(role, Touch(m), {}, {})
<1>1. Allowed(role, {}, m)
  BY DEF Allowed
<1>. QED
  BY <1>1, TouchInOrder

\* With the item_mutex of a query feed, the others' are taken, but not during downloads.
LEMMA QueryInOrder ==
  ASSUME NEW role \in {"main", "after"}, NEW g \in SUBSET {"feeds"},
         role = "main" \/ g = {}
  PROVE  Between(role, With("query", Touch("real")), g, g)
<1>1. /\ g \in SUBSET Mutexes /\ g \cup {"query"} \in SUBSET Mutexes
      /\ "query" \in Mutexes /\ "real" \in Mutexes /\ "query" \notin g
  BY DEF Mutexes
<1>2. Allowed(role, g, "query") /\ Allowed(role, g \cup {"query"}, "real")
  BY DEF Allowed, Rank
<1>3. Between(role, Touch("real"), g \cup {"query"}, g \cup {"query"})
  BY <1>1, <1>2, TouchInOrder
<1>. QED
  BY <1>1, <1>2, <1>3, WithInOrder

LEMMA PrepareQueryFeedInOrder ==
  ASSUME NEW role \in {"main", "after"}
  PROVE  Between(role, PrepareQueryFeed, {}, {})
<1>1. Between(role, SetStatus, {}, {}) /\ Between(role, Touch("feeds"), {}, {}) /\ Between(role, Touch("query"), {}, {})
  BY FreeThread DEF Mutexes, SetStatus
<1>2. Between(role, With("query", Touch("real")), {}, {})
  BY QueryInOrder
<1>3. Between(role, SetStatus \o Touch("feeds"), {}, {})
  BY <1>1, Both
<1>4. Between(role, (SetStatus \o Touch("feeds")) \o With("query", Touch("real")), {}, {})
  BY <1>2, <1>3, Both
<1>5. Between(role, ((SetStatus \o Touch("feeds")) \o With("query", Touch("real"))) \o Touch("query"), {}, {})
  BY <1>1, <1>4, Both
<1>6. Between(role, (((SetStatus \o Touch("feeds")) \o With("query", Touch("real"))) \o Touch("query")) \o SetStatus, {}, {})
  BY <1>1, <1>5, Both
<1>. QED
  BY <1>6 DEF PrepareQueryFeed

LEMMA ReloadInOrder ==
  ASSUME NEW role \in {"main", "reload"}
  PROVE  Between(role, Reload(TRUE), {}, {})
<1>1. /\ {} \in SUBSET Mutexes /\ {"feeds"} \in SUBSET Mutexes /\ {"feeds", "real"} \in SUBSET Mutexes
      /\ "feeds" \in Mutexes /\ "real" \in Mutexes /\ "cache" \in Mutexes
      /\ {} \cup {"feeds"} = {"feeds"} /\ {"feeds"} \cup {"real"} = {"feeds", "real"}
      /\ "real" \notin {"feeds"}
  BY DEF Mutexes
<1>2. Allowed(role, {"feeds"}, "real") /\ Allowed(role, {"feeds"}, "cache")
  BY DEF Allowed, Rank
<1>3. Allowed(role, {"feeds", "real"}, "cache")
  BY DEF Allowed, Rank
<1>4. Between(role, With("real", Touch("cache")), {"feeds"}, {"feeds"})
  <2>1. Between(role, Touch("cache"), {"feeds", "real"}, {"feeds", "real"})
    BY <1>1, <1>3, TouchInOrder
  <2>. QED
    BY <1>1, <1>2, <2>1, WithInOrder
<1>5. Between(role, Touch("cache"), {"feeds"}, {"feeds"}) /\ Between(role, Touch("real"), {"feeds"}, {"feeds"})
  BY <1>1, <1>2, TouchInOrder
<1> DEFINE stored == Touch("cache") \o Touch("real") \o Touch("cache") \o With("real", Touch("cache"))
<1>6. Between(role, stored, {"feeds"}, {"feeds"})
  <2>1. Between(role, Touch("cache") \o Touch("real"), {"feeds"}, {"feeds"})
    BY <1>5, Both
  <2>2. Between(role, (Touch("cache") \o Touch("real")) \o Touch("cache"), {"feeds"}, {"feeds"})
    BY <1>5, <2>1, Both
  <2>. QED
    BY <1>4, <2>2, Both
<1>7. Between(role, stored \o With("view", EachFeed), {"feeds"}, {"feeds"})
  BY <1>6, FeedlistInOrder, Both
<1>8. Between(role, SaveFeed(TRUE), {}, {})
  <2>1. Between(role, With("feeds", stored \o With("view", EachFeed)), {}, {})
    BY <1>1, <1>7, FreeThread, WithInOrder
  <2>. QED
    BY <2>1 DEF SaveFeed
<1>9. Between(role, SetStatus, {}, {}) /\ Between(role, Touch("cache"), {}, {})
  BY FreeThread DEF Mutexes, SetStatus
<1>10. Between(role, SetStatus \o Touch("cache"), {}, {})
  BY <1>9, Both
<1>11. Between(role, (SetStatus \o Touch("cache")) \o SaveFeed(TRUE), {}, {})
  BY <1>8, <1>10, Both
<1>12. Between(role, ((SetStatus \o Touch("cache")) \o SaveFeed(TRUE)) \o SetStatus, {}, {})
  BY <1>9, <1>11, Both
<1>. QED
  BY <1>12 DEF Reload

LEMMA SetUnreadInOrder ==
  ASSUME NEW role, NEW g \in SUBSET {"redraw"}
  PROVE  Between(role, SetUnread, g, g)
<1>1. g \in SUBSET Mutexes /\ "real" \in Mutexes /\ "cache" \in Mutexes
  BY DEF Mutexes
<1>2. Allowed(role, g, "real") /\ Allowed(role, g, "cache")
  BY DEF Allowed, Rank
<1>3. Between(role, Touch("real"), g, g) /\ Between(role, Touch("cache"), g, g)
  BY <1>1, <1>2, TouchInOrder
<1>. QED
  BY <1>3, Both DEF SetUnread

LEMMA PrepareInOrder ==
  ASSUME NEW role \in {"main", "after"}, NEW s \in {"feeds", "real", "query"}, NEW asks \in BOOLEAN
  PROVE  Between(role, Prepare(s, asks), {}, {})
<1>1. CASE s = "feeds"
  <2>1. Between(role, SortFeeds \o UpdateFeedlist, {}, {})
    BY FeedlistInOrder, Both
  <2>. QED
    BY <1>1, <2>1 DEF Prepare
<1>2. CASE s # "feeds"
  <2>1. /\ {"redraw"} \in SUBSET Mutexes /\ {"redraw", s} \in SUBSET Mutexes /\ {} \in SUBSET Mutexes
        /\ {"redraw"} \cup {s} = {"redraw", s} /\ {} \cup {"redraw"} = {"redraw"}
        /\ s \notin {"redraw"}
        /\ s \in Mutexes /\ "redraw" \in Mutexes /\ "real" \in Mutexes
    BY <1>2 DEF Mutexes
  <2>2. Allowed(role, {"redraw"}, s)
    BY <1>2 DEF Allowed, Rank
  <2>3. Allowed(role, {"redraw", s}, "real")
    BY <1>2 DEF Allowed, Rank
  <2>4. Between(role, IF asks THEN Touch("real") ELSE <<>>, {"redraw", s}, {"redraw", s})
    BY <2>1, <2>3, TouchInOrder, NoSteps
  <2>5. Between(role, With(s, IF asks THEN Touch("real") ELSE <<>>), {"redraw"}, {"redraw"})
    BY <2>1, <2>2, <2>4, WithInOrder
  <2>6. Between(role, With(s, IF asks THEN Touch("real") ELSE <<>>) \o SetUnread, {"redraw"}, {"redraw"})
    BY <2>5, SetUnreadInOrder, Both
  <2>7. Between(role, (With(s, IF asks THEN Touch("real") ELSE <<>>) \o SetUnread) \o Touch(s), {"redraw"}, {"redraw"})
    BY <2>1, <2>2, <2>6, TouchInOrder, Both
  <2>8. Allowed(role, {}, "redraw")
    BY FreeThread, <2>1
  <2>9. Between(role, With("redraw", (With(s, IF asks THEN Touch("real") ELSE <<>>) \o SetUnread) \o Touch(s)), {}, {})
    BY <2>1, <2>7, <2>8, WithInOrder
  <2>. QED
    BY <1>2, <2>9 DEF Prepare, PrepareItems
<1>. QED
  BY <1>1, <1>2

\* The operations that mark articles as read, which only the main thread has.
LEMMA MarkReadInOrder ==
  /\ Between("main", MarkReadAt, {}, {}) /\ Between("main", MarkQueryRead, {}, {})
  /\ Between("main", MarkResultsRead, {}, {}) /\ Between("main", MarkAllRead, {}, {})
  /\ Between("main", MarkPosition, {}, {})
<1>1. /\ {} \in SUBSET Mutexes /\ {"feeds"} \in SUBSET Mutexes /\ {"cache"} \in SUBSET Mutexes
      /\ {"feeds", "cache"} \in SUBSET Mutexes
      /\ "feeds" \in Mutexes /\ "cache" \in Mutexes /\ "real" \in Mutexes /\ "query" \in Mutexes
      /\ {} \cup {"feeds"} = {"feeds"} /\ {} \cup {"cache"} = {"cache"}
      /\ {"feeds"} \cup {"cache"} = {"feeds", "cache"} /\ "cache" \notin {"feeds"}
  BY DEF Mutexes
<1>2. Allowed("main", {"feeds"}, "cache") /\ Allowed("main", {"feeds"}, "real")
  BY DEF Allowed, Rank
<1>3. Allowed("main", {"cache"}, "query") /\ Allowed("main", {"feeds", "cache"}, "query")
  BY DEF Allowed
<1>4. Between("main", MarkReadAt, {}, {})
  <2>1. Between("main", Touch("cache"), {"feeds"}, {"feeds"}) /\ Between("main", Touch("real"), {"feeds"}, {"feeds"})
    BY <1>1, <1>2, TouchInOrder
  <2>2. Between("main", Touch("cache") \o Touch("real"), {"feeds"}, {"feeds"})
    BY <2>1, Both
  <2>. QED
    BY <1>1, <2>2, FreeThread, WithInOrder DEF MarkReadAt
<1>5. Between("main", MarkQueryRead, {}, {})
  <2>1. Between("main", Touch("query"), {"feeds", "cache"}, {"feeds", "cache"})
    BY <1>1, <1>3, TouchInOrder
  <2>2. Between("main", With("cache", Touch("query")), {"feeds"}, {"feeds"})
    BY <1>1, <1>2, <2>1, WithInOrder
  <2>3. Between("main", With("query", Touch("real")), {"feeds"}, {"feeds"})
    BY QueryInOrder
  <2>4. Between("main", With("cache", Touch("query")) \o With("query", Touch("real")), {"feeds"}, {"feeds"})
    BY <2>2, <2>3, Both
  <2>. QED
    BY <1>1, <2>4, FreeThread, WithInOrder DEF MarkQueryRead
<1>6. Between("main", MarkResultsRead, {}, {})
  <2>1. Between("main", Touch("query"), {"cache"}, {"cache"})
    BY <1>1, <1>3, TouchInOrder
  <2>2. Between("main", With("cache", Touch("query")), {}, {})
    BY <1>1, <2>1, FreeThread, WithInOrder
  <2>3. Between("main", With("query", Touch("real")), {}, {})
    BY QueryInOrder
  <2>. QED
    BY <2>2, <2>3, Both DEF MarkResultsRead
<1>7. Between("main", MarkAllRead, {}, {})
  <2>1. Between("main", Touch("cache"), {}, {})
    BY <1>1, FreeThread
  <2>2. Between("main", With("feeds", EachFeed), {}, {})
    BY FeedlistInOrder DEF SortFeeds
  <2>. QED
    BY <2>1, <2>2, Both DEF MarkAllRead
<1>8. Between("main", MarkPosition, {}, {})
  <2>1. Between("main", With("feeds", With("view", EachFeed)), {}, {})
    BY FeedlistInOrder DEF UpdateFeedlist
  <2>2. Between("main", With("feeds", EachFeed), {}, {})
    BY FeedlistInOrder DEF SortFeeds
  <2>. QED
    BY <2>1, <2>2, Both DEF MarkPosition
<1>. QED
  BY <1>4, <1>5, <1>6, <1>7, <1>8

LEMMA OperationsInOrder ==
  ASSUME NEW s \in {"feeds", "real", "query"}, NEW op \in Operations(s)
  PROVE  Between("main", op, {}, {})
<1>1. Between("main", SetUnread, {}, {})
  BY SetUnreadInOrder
<1>2. Between("main", PrepareQueryFeed, {}, {}) /\ Between("main", Reload(TRUE), {}, {})
  BY PrepareQueryFeedInOrder, ReloadInOrder
<1>3. CASE s = "feeds"
  <2>1. Operations(s) = {MarkReadAt, MarkQueryRead, MarkAllRead, PrepareQueryFeed, Reload(TRUE)}
    BY <1>3, Zenon DEF Operations
  <2>. QED
    BY <1>2, <2>1, MarkReadInOrder
<1>4. CASE s = "real"
  <2>1. Operations(s) = {MarkReadAt, SetUnread, MarkPosition, Reload(TRUE)}
    BY <1>4 DEF Operations
  <2>. QED
    BY <1>1, <1>2, <2>1, MarkReadInOrder
<1>5. CASE s = "query"
  <2>1. Operations(s) = {MarkQueryRead, MarkResultsRead, SetUnread, MarkPosition, PrepareQueryFeed}
    BY <1>5 DEF Operations
  <2>. QED
    BY <1>1, <1>2, <2>1, MarkReadInOrder
<1>. QED
  BY <1>3, <1>4, <1>5

-----------------------------------------------------------------------------
(* The invariant of Locks                                                    *)

Screens == {"feeds", "real", "query"}
Held(t) == {m \in Mutexes : holder[m] = t}
Role(t) ==
  IF t = UiThread THEN "main" ELSE IF t = Ranger \/ stage[t] = "range" THEN "reload" ELSE "after"

MutexTypes ==
  /\ screen \in Screens /\ filter \in BOOLEAN
  /\ reload_mutex \in Downloaders \cup {Nobody}
  /\ stage \in [Downloaders -> {"idle", "range", "query feeds", "redraw", "sort"}]
  /\ todo \in [AllThreads -> Seq(Steps)]
  /\ holder \in [Mutexes -> AllThreads \cup {Nobody}]
\* One thread reloads at a time, with the ranger while it is at the ranges.
OneReloads ==
  /\ \A d \in Downloaders : stage[d] # "idle" => reload_mutex = d
  /\ \A d \in Downloaders : stage[d] = "idle" => Idle(d)
  /\ ~Idle(Ranger) => \E d \in Downloaders : stage[d] = "range"
\* What a thread has left to do begins with the mutexes it has and ends with none.
InOrder == \A t \in AllThreads : Between(Role(t), todo[t], Held(t), {})
MutexInv == MutexTypes /\ OneReloads /\ InOrder

LEMMA NothingHeld ==
  ASSUME NEW role, NEW g, Between(role, <<>>, g, {})
  PROVE  g = {}
<1>1. PICK own \in [1 .. Len(<<>>) + 1 -> SUBSET Mutexes] : own[1] = g /\ own[Len(<<>>) + 1] = {}
  BY DEF Between
<1>2. Len(<<>>) + 1 = 1
  OBVIOUS
<1>. QED
  BY <1>1, <1>2

LEMMA StepsOfBetween ==
  ASSUME NEW role, NEW s, NEW g, NEW h, Between(role, s, g, h)
  PROVE  s \in Seq(Steps)
BY DEF Between

\* A thread with nothing to do has no mutex, and may begin what is in order.
LEMMA IdleHasNone ==
  ASSUME MutexInv, NEW t \in AllThreads, Idle(t)
  PROVE  Held(t) = {} /\ Between("after", <<>>, Held(t), {})
<1>1. Between(Role(t), <<>>, Held(t), {})
  BY DEF MutexInv, InOrder, Idle
<1>2. Held(t) = {}
  BY <1>1, NothingHeld
<1>. QED
  BY <1>2, NoSteps

LEMMA MutexInit ==
  ASSUME LocksInit  PROVE MutexInv
<1>1. MutexTypes
  BY DEF LocksInit, MutexTypes, Screens, Mutexes
<1>2. OneReloads
  BY DEF LocksInit, OneReloads, Idle, AllThreads
<1>3. ASSUME NEW t \in AllThreads
      PROVE  Between(Role(t), todo[t], Held(t), {})
  <2>1. Held(t) = {}
    BY <1>3, LocksAssumption DEF LocksInit, Held, AllThreads
  <2>2. todo[t] = <<>>
    BY DEF LocksInit
  <2>. QED
    BY <2>1, <2>2, NoSteps
<1>. QED
  BY <1>1, <1>2, <1>3 DEF MutexInv, InOrder

\* What a step of a thread leaves.
LEMMA StepKeeps ==
  ASSUME MutexInv, NEW t \in AllThreads, Step(t)
  PROVE  MutexInv'
<1> DEFINE s == todo[t]
           op == Head(s)[1]
           m == Head(s)[2]
<1>0. /\ MutexTypes /\ OneReloads /\ InOrder
      /\ s # <<>> /\ s \in Seq(Steps) /\ Tail(s) \in Seq(Steps)
  <2>1. MutexTypes /\ OneReloads /\ InOrder
    BY DEF MutexInv
  <2>2. s # <<>>
    BY DEF Step, Idle
  <2>3. s \in Seq(Steps)
    BY <2>1 DEF MutexTypes
  <2>. QED
    BY <2>1, <2>2, <2>3
<1>1. PICK k : Leads(Role(t), Head(s), Held(t), k) /\ Between(Role(t), Tail(s), k, {})
  BY <1>0, FirstStep DEF InOrder
<1>2. m \in Mutexes /\ op \in {"take", "give", "touch"}
  BY <1>1 DEF Leads, Steps
<1>3. /\ todo' = [todo EXCEPT ![t] = Tail(s)]
      /\ UNCHANGED <<screen, filter, reload_mutex, stage>>
      /\ \/ op = "take" /\ holder[m] = Nobody /\ holder' = [holder EXCEPT ![m] = t]
         \/ op = "give" /\ holder' = [holder EXCEPT ![m] = Nobody]
         \/ op = "touch" /\ holder[m] = Nobody /\ UNCHANGED holder
  BY DEF Step, Does
<1>4. /\ op = "take" => k = Held(t) \cup {m}
      /\ op = "give" => m \in Held(t) /\ k = Held(t) \ {m}
      /\ op = "touch" => k = Held(t)
  BY <1>1 DEF Leads
<1> HIDE DEF s, op, m
<1>5. holder \in [Mutexes -> AllThreads \cup {Nobody}] /\ Nobody \notin AllThreads
  BY <1>0, LocksAssumption DEF MutexTypes, AllThreads
<1>6. holder' \in [Mutexes -> AllThreads \cup {Nobody}]
  BY <1>2, <1>3, <1>5
<1>7. Held(t)' = k
  BY <1>2, <1>3, <1>4, <1>5 DEF Held
<1>8. ASSUME NEW u \in AllThreads, u # t
      PROVE  Held(u)' = Held(u)
  BY <1>2, <1>3, <1>4, <1>5, <1>8 DEF Held
<1>9. todo'[t] = Tail(s) /\ \A u \in AllThreads : u # t => todo'[u] = todo[u]
  BY <1>0, <1>3 DEF MutexTypes
<1>10. todo' \in [AllThreads -> Seq(Steps)]
  BY <1>0, <1>3 DEF MutexTypes
<1>11. MutexTypes'
  BY <1>0, <1>3, <1>6, <1>10 DEF MutexTypes
<1>12. OneReloads'
  <2>1. \A u \in AllThreads : Idle(u) => Idle(u)'
    BY <1>0, <1>9 DEF Idle, s
  <2>. QED
    BY <1>0, <1>3, <2>1 DEF OneReloads, AllThreads
<1>13. ASSUME NEW u \in AllThreads
       PROVE  Between(Role(u), todo[u], Held(u), {})'
  <2>1. Role(u)' = Role(u)
    BY <1>3 DEF Role
  <2>2. CASE u = t
    BY <1>1, <1>7, <1>9, <2>1, <2>2 DEF s
  <2>3. CASE u # t
    <3>1. Between(Role(u), todo[u], Held(u), {})
      BY <1>0 DEF InOrder
    <3>. QED
      BY <1>8, <1>9, <2>1, <2>3, <3>1
  <2>. QED
    BY <2>2, <2>3
<1>. QED
  BY <1>11, <1>12, <1>13 DEF MutexInv, InOrder

\* A thread that is not the ranger begins what is in order for the role it will have.
LEMMA BeginsInOrder ==
  ASSUME MutexInv, NEW t \in AllThreads \ {Ranger}, NEW steps, NEW st, Idle(t),
         \/ t = UiThread /\ stage' = stage
         \/ t \in Downloaders /\ stage' = [stage EXCEPT ![t] = st],
         Between(Role(t)', steps, {}, {}), Does(t, steps), UNCHANGED holder
  PROVE  InOrder' /\ todo' \in [AllThreads -> Seq(Steps)]
<1>1. todo \in [AllThreads -> Seq(Steps)] /\ stage \in [Downloaders -> {"idle", "range", "query feeds", "redraw", "sort"}]
  BY DEF MutexInv, MutexTypes
<1>2. steps \in Seq(Steps)
  BY StepsOfBetween
<1>3. todo' \in [AllThreads -> Seq(Steps)] /\ todo'[t] = steps /\ \A u \in AllThreads : u # t => todo'[u] = todo[u]
  BY <1>1, <1>2 DEF Does
<1>4. \A u \in AllThreads : Held(u)' = Held(u)
  BY DEF Held
<1>5. ASSUME NEW u \in AllThreads
      PROVE  Between(Role(u), todo[u], Held(u), {})'
  <2>1. CASE u = t
    BY <1>3, <1>4, <2>1, IdleHasNone
  <2>2. CASE u # t
    <3>1. Role(u)' = Role(u)
      BY <1>1, <2>2, LocksAssumption DEF Role, AllThreads
    <3>2. Between(Role(u), todo[u], Held(u), {})
      BY DEF MutexInv, InOrder
    <3>. QED
      BY <1>3, <1>4, <2>2, <3>1, <3>2
  <2>. QED
    BY <2>1, <2>2
<1>. QED
  BY <1>3, <1>5 DEF InOrder

LEMMA MutexNext ==
  ASSUME MutexInv, [LocksNext]_lockVars
  PROVE  MutexInv'
<1>1. /\ MutexTypes /\ OneReloads /\ InOrder
      /\ stage \in [Downloaders -> {"idle", "range", "query feeds", "redraw", "sort"}]
      /\ todo \in [AllThreads -> Seq(Steps)]
      /\ UiThread \in AllThreads /\ Ranger \in AllThreads /\ Downloaders \subseteq AllThreads
      /\ UiThread # Ranger /\ UiThread \notin Downloaders /\ Ranger \notin Downloaders
      /\ Nobody \notin Downloaders
  BY LocksAssumption DEF MutexInv, MutexTypes, AllThreads
<1>2. CASE UNCHANGED lockVars
  <2>1. MutexTypes' /\ OneReloads'
    BY <1>1, <1>2 DEF lockVars, MutexTypes, OneReloads, Idle
  <2>2. InOrder'
    BY <1>1, <1>2 DEF lockVars, InOrder, Role, Held
  <2>. QED
    BY <2>1, <2>2 DEF MutexInv
<1>3. CASE Press
  <2>1. PICK op \in Operations(screen) : Does(UiThread, Prepare(screen, filter) \o op)
    BY <1>3 DEF Press
  <2>2. Idle(UiThread) /\ UNCHANGED <<screen, filter, reload_mutex, stage, holder>>
    BY <1>3 DEF Press
  <2>3. screen \in {"feeds", "real", "query"} /\ filter \in BOOLEAN
    BY <1>1 DEF MutexTypes, Screens
  <2>4. Between("main", Prepare(screen, filter) \o op, {}, {})
    BY <2>3, PrepareInOrder, OperationsInOrder, Both
  <2>5. Role(UiThread)' = "main"
    BY DEF Role
  <2>6. InOrder' /\ todo' \in [AllThreads -> Seq(Steps)]
    BY <1>1, <2>1, <2>2, <2>4, <2>5, BeginsInOrder
  <2>7. MutexTypes'
    BY <1>1, <2>2, <2>6 DEF MutexTypes
  <2>8. OneReloads'
    <3>1. \A t \in AllThreads : t # UiThread => todo'[t] = todo[t]
      BY <1>1, <2>1 DEF Does
    <3>. QED
      BY <1>1, <2>2, <3>1 DEF OneReloads, Idle
  <2>. QED
    BY <2>6, <2>7, <2>8 DEF MutexInv
<1>4. CASE ChangeForm
  <2>1. MutexTypes' /\ OneReloads'
    BY <1>1, <1>4 DEF ChangeForm, MutexTypes, OneReloads, Idle, Screens
  <2>2. InOrder'
    BY <1>1, <1>4 DEF ChangeForm, InOrder, Role, Held
  <2>. QED
    BY <2>1, <2>2 DEF MutexInv
<1>5. CASE \E t \in AllThreads : Step(t)
  BY <1>5, StepKeeps
<1>6. ASSUME NEW d \in Downloaders, TryLock(d)
      PROVE  MutexInv'
  <2>1. /\ stage[d] = "idle" /\ reload_mutex = Nobody /\ reload_mutex' = d
        /\ stage' = [stage EXCEPT ![d] = "range"]
        /\ todo' = [todo EXCEPT ![d] = SortFeeds \o Reload(TRUE), ![Ranger] = Reload(TRUE)]
        /\ UNCHANGED <<screen, filter, holder>>
    BY <1>6 DEF TryLock
  <2>2. \A e \in Downloaders : stage[e] = "idle"
    BY <1>1, <2>1 DEF OneReloads
  <2>3. Idle(d) /\ Idle(Ranger)
    BY <1>1, <2>1, <2>2 DEF OneReloads
  <2>4. Between("reload", Reload(TRUE), {}, {}) /\ Between("reload", SortFeeds \o Reload(TRUE), {}, {})
    BY ReloadInOrder, FeedlistInOrder, Both
  <2>5. Reload(TRUE) \in Seq(Steps) /\ SortFeeds \o Reload(TRUE) \in Seq(Steps)
    BY <2>4, StepsOfBetween
  <2>6. /\ todo' \in [AllThreads -> Seq(Steps)]
        /\ todo'[d] = SortFeeds \o Reload(TRUE) /\ todo'[Ranger] = Reload(TRUE)
        /\ \A t \in AllThreads : t \notin {d, Ranger} => todo'[t] = todo[t]
    BY <1>1, <2>1, <2>5
  <2>7. /\ stage' \in [Downloaders -> {"idle", "range", "query feeds", "redraw", "sort"}]
        /\ stage'[d] = "range" /\ \A e \in Downloaders : e # d => stage'[e] = "idle"
    BY <1>1, <2>1, <2>2
  <2>8. MutexTypes'
    BY <1>1, <2>1, <2>6, <2>7 DEF MutexTypes
  <2>9. OneReloads'
    <3>1. \A e \in Downloaders : stage'[e] # "idle" => reload_mutex' = e
      BY <2>1, <2>7
    <3>2. \A e \in Downloaders : stage'[e] = "idle" => Idle(e)'
      BY <1>1, <2>2, <2>6, <2>7 DEF OneReloads, Idle
    <3>. QED
      BY <2>7, <3>1, <3>2 DEF OneReloads
  <2>10. ASSUME NEW t \in AllThreads
         PROVE  Between(Role(t), todo[t], Held(t), {})'
    <3>1. Held(t)' = Held(t)
      BY <2>1 DEF Held
    <3>2. CASE t \in {d, Ranger}
      <4>1. Held(t) = {}
        BY <2>3, <3>2, IdleHasNone
      <4>2. Role(t)' = "reload"
        BY <1>1, <2>7, <3>2 DEF Role
      <4>. QED
        BY <2>4, <2>6, <3>1, <3>2, <4>1, <4>2
    <3>3. CASE t = UiThread
      <4>1. Role(t)' = Role(t) /\ todo'[t] = todo[t]
        BY <1>1, <2>6, <3>3 DEF Role
      <4>. QED
        BY <1>1, <3>1, <4>1 DEF InOrder
    <3>4. CASE t \in Downloaders /\ t # d
      <4>1. todo'[t] = <<>> /\ Idle(t)
        BY <1>1, <2>2, <2>6, <3>4 DEF OneReloads, Idle
      <4>2. Held(t) = {}
        BY <4>1, IdleHasNone
      <4>. QED
        BY <3>1, <4>1, <4>2, NoSteps
    <3>. QED
      BY <3>2, <3>3, <3>4 DEF AllThreads
  <2>. QED
    BY <2>8, <2>9, <2>10 DEF MutexInv, InOrder
<1>7. ASSUME NEW d \in Downloaders, NEW from \in {"range", "query feeds", "redraw"},
             NEW to \in {"query feeds", "redraw", "sort"}, NEW steps,
             GoesOn(d, from, to, steps), from = "range" => Idle(Ranger),
             Between("after", steps, {}, {})
      PROVE  MutexInv'
  <2>1. /\ stage[d] = from /\ Idle(d) /\ stage' = [stage EXCEPT ![d] = to] /\ Does(d, steps)
        /\ UNCHANGED <<screen, filter, reload_mutex, holder>>
    BY <1>7 DEF GoesOn
  <2>2. /\ stage' \in [Downloaders -> {"idle", "range", "query feeds", "redraw", "sort"}]
        /\ stage'[d] = to /\ \A e \in Downloaders : e # d => stage'[e] = stage[e]
    BY <1>1, <2>1
  <2>3. Role(d)' = "after"
    BY <1>1, <2>2 DEF Role
  <2>4. InOrder' /\ todo' \in [AllThreads -> Seq(Steps)]
    BY <1>1, <1>7, <2>1, <2>3, BeginsInOrder
  <2>5. MutexTypes'
    BY <1>1, <2>1, <2>2, <2>4 DEF MutexTypes
  <2>6. \A t \in AllThreads : t # d => todo'[t] = todo[t]
    BY <1>1, <2>1 DEF Does
  <2>7. Idle(Ranger)
    <3>1. CASE from = "range"
      BY <1>7, <3>1
    <3>2. CASE from # "range"
      <4>1. \A e \in Downloaders : stage[e] = "range" => e = d
        BY <1>1, <2>1 DEF OneReloads
      <4>. QED
        BY <1>1, <2>1, <3>2, <4>1 DEF OneReloads
    <3>. QED
      BY <3>1, <3>2
  <2>8. OneReloads'
    BY <1>1, <2>1, <2>2, <2>6, <2>7 DEF OneReloads, Idle
  <2>. QED
    BY <2>4, <2>5, <2>8 DEF MutexInv
<1>8. ASSUME NEW d \in Downloaders, Join(d)
      PROVE  MutexInv'
  <2>1. Between("after", PrepareQueryFeed, {}, {})
    BY PrepareQueryFeedInOrder
  <2>. QED
    BY <1>7, <1>8, <2>1 DEF Join
<1>9. ASSUME NEW d \in Downloaders, ForceRedraw(d)
      PROVE  MutexInv'
  <2>1. Between("after", Prepare(screen, filter), {}, {})
    BY <1>1, PrepareInOrder DEF MutexTypes, Screens
  <2>. QED
    BY <1>7, <1>9, <2>1 DEF ForceRedraw
<1>10. ASSUME NEW d \in Downloaders, SortAfter(d)
       PROVE  MutexInv'
  <2>1. Between("after", SortFeeds, {}, {}) /\ Between("after", UpdateFeedlist, {}, {})
    BY FeedlistInOrder
  <2>2. Between("after", EachFeed, {}, {})
    BY EachFeedInOrder
  <2>3. Between("after", (SortFeeds \o UpdateFeedlist) \o EachFeed, {}, {})
    BY <2>1, <2>2, Both
  <2>. QED
    BY <1>7, <1>10, <2>3 DEF SortAfter
<1>11. ASSUME NEW d \in Downloaders, Unlock(d)
       PROVE  MutexInv'
  <2>1. /\ stage[d] = "sort" /\ Idle(d) /\ stage' = [stage EXCEPT ![d] = "idle"] /\ reload_mutex' = Nobody
        /\ UNCHANGED <<screen, filter, todo, holder>>
    BY <1>11 DEF Unlock
  <2>2. \A e \in Downloaders : e # d => stage[e] = "idle"
    BY <1>1, <2>1 DEF OneReloads
  <2>3. /\ stage' \in [Downloaders -> {"idle", "range", "query feeds", "redraw", "sort"}]
        /\ \A e \in Downloaders : stage'[e] = "idle"
    BY <1>1, <2>1, <2>2
  <2>4. MutexTypes'
    BY <1>1, <2>1, <2>3 DEF MutexTypes
  <2>5. OneReloads'
    BY <1>1, <2>1, <2>2, <2>3 DEF OneReloads, Idle
  <2>6. ASSUME NEW t \in AllThreads
        PROVE  Between(Role(t), todo[t], Held(t), {})'
    <3>1. Held(t)' = Held(t) /\ todo'[t] = todo[t]
      BY <2>1 DEF Held
    <3>2. CASE t \in Downloaders
      <4>1. Idle(t)
        BY <1>1, <2>1, <2>2, <3>2 DEF OneReloads
      <4>2. Held(t) = {} /\ todo[t] = <<>>
        BY <4>1, IdleHasNone DEF Idle
      <4>. QED
        BY <3>1, <4>2, NoSteps
    <3>3. CASE t \in {UiThread, Ranger}
      <4>1. Role(t)' = Role(t)
        BY <1>1, <3>3 DEF Role
      <4>. QED
        BY <1>1, <3>1, <4>1 DEF InOrder
    <3>. QED
      BY <3>2, <3>3 DEF AllThreads
  <2>. QED
    BY <2>4, <2>5, <2>6 DEF MutexInv, InOrder
<1>. QED
  BY <1>2, <1>3, <1>4, <1>5, <1>6, <1>8, <1>9, <1>10, <1>11 DEF LocksNext

Wants(t) == Head(todo[t])[2]

\* A thread that waits takes, or touches, what it may with what it has.
LEMMA WaitingInOrder ==
  ASSUME MutexInv, NEW t \in AllThreads, NEW u, WaitsFor(t, u)
  PROVE  /\ Wants(t) \in Mutexes /\ holder[Wants(t)] = u
         /\ Allowed(Role(t), Held(t), Wants(t))
<1>1. Between(Role(t), todo[t], Held(t), {}) /\ todo[t] # <<>>
  BY DEF MutexInv, InOrder, WaitsFor, Idle
<1>2. PICK k : Leads(Role(t), Head(todo[t]), Held(t), k) /\ Between(Role(t), Tail(todo[t]), k, {})
  BY <1>1, FirstStep
<1>3. Head(todo[t]) \in Steps /\ Head(todo[t])[1] # "give"
  BY <1>2 DEF Leads, WaitsFor
<1>. QED
  BY <1>2, <1>3 DEF Leads, Steps, Wants, WaitsFor

\* Of the mutexes that are waited for one is the last in the order.
LEMMA LastWanted ==
  ASSUME NEW waiting, waiting # {}, \A t \in waiting : Wants(t) \in Mutexes
  PROVE  \E t \in waiting : \A u \in waiting : Rank(Wants(u)) <= Rank(Wants(t))
<1> DEFINE r(t) == Rank(Wants(t))
<1>1. \A t \in waiting : r(t) \in 0 .. 5
  BY DEF Rank
<1> HIDE DEF r
<1>2. \E t \in waiting : \A u \in waiting : r(u) <= r(t)
  <2>1. CASE \E t \in waiting : r(t) = 5
    BY <1>1, <2>1
  <2>2. CASE (\A t \in waiting : r(t) < 5) /\ \E t \in waiting : r(t) = 4
    BY <1>1, <2>2
  <2>3. CASE (\A t \in waiting : r(t) < 4) /\ \E t \in waiting : r(t) = 3
    BY <1>1, <2>3
  <2>4. CASE (\A t \in waiting : r(t) < 3) /\ \E t \in waiting : r(t) = 2
    BY <1>1, <2>4
  <2>5. CASE (\A t \in waiting : r(t) < 2) /\ \E t \in waiting : r(t) = 1
    BY <1>1, <2>5
  <2>6. CASE \A t \in waiting : r(t) < 1
    BY <1>1, <2>6
  <2>7. \A t \in waiting : r(t) < 5 /\ r(t) # 4 => r(t) < 4
    BY <1>1
  <2>8. \A t \in waiting : /\ r(t) < 4 /\ r(t) # 3 => r(t) < 3
                           /\ r(t) < 3 /\ r(t) # 2 => r(t) < 2
                           /\ r(t) < 2 /\ r(t) # 1 => r(t) < 1
                           /\ r(t) # 5 => r(t) < 5
    BY <1>1
  <2>. QED
    BY <2>1, <2>2, <2>3, <2>4, <2>5, <2>6, <2>7, <2>8
<1>. QED
  BY <1>2 DEF r

LEMMA NoCircle ==
  ASSUME MutexInv
  PROVE  NobodyWaitsInACircle
<1> SUFFICES ASSUME NEW waiting \in SUBSET AllThreads, waiting # {},
                    \A t \in waiting : \E u \in waiting : WaitsFor(t, u)
             PROVE  \E t \in waiting : WaitsFor(t, t) /\ holder["redraw"] = t
  BY DEF NobodyWaitsInACircle
<1>1. ASSUME NEW t \in waiting
      PROVE  /\ t \in AllThreads /\ Wants(t) \in Mutexes /\ Allowed(Role(t), Held(t), Wants(t))
             /\ holder[Wants(t)] \in waiting /\ WaitsFor(t, holder[Wants(t)])
             /\ Wants(t) \in Held(holder[Wants(t)])
  <2>1. PICK u \in waiting : WaitsFor(t, u)
    OBVIOUS
  <2>2. Wants(t) \in Mutexes /\ holder[Wants(t)] = u /\ Allowed(Role(t), Held(t), Wants(t))
    BY <2>1, WaitingInOrder
  <2>. QED
    BY <2>1, <2>2 DEF Held
\* The two exceptions from the order.
<1>2. ASSUME NEW t \in waiting, Wants(t) = "real", Held(t) = {"redraw", "real"}
      PROVE  WaitsFor(t, t) /\ holder["redraw"] = t
  <2>1. holder["real"] = t /\ holder["redraw"] = t
    BY <1>2 DEF Held
  <2>. QED
    BY <1>1, <1>2, <2>1
<1>3. PICK t \in waiting : \A u \in waiting : Rank(Wants(u)) <= Rank(Wants(t))
  BY <1>1, LastWanted
<1> DEFINE m == Wants(t)
           u == holder[m]
<1>4. /\ u \in waiting /\ m \in Held(u) /\ m \in Mutexes /\ Wants(u) \in Mutexes
      /\ Allowed(Role(u), Held(u), Wants(u)) /\ Rank(Wants(u)) <= Rank(m)
  BY <1>1, <1>3
<1> HIDE DEF m, u
<1>5. ~(\A g \in Held(u) : Rank(g) < Rank(Wants(u)))
  <2>1. \A g : Rank(g) \in 0 .. 5
    BY DEF Rank
  <2>2. \A i, k \in 0 .. 5 : i <= k => ~(k < i)
    OBVIOUS
  <2>3. ~(Rank(m) < Rank(Wants(u)))
    BY <1>4, <2>1, <2>2
  <2>. QED
    BY <1>4, <2>3
<1>6. CASE Wants(u) = "real" /\ Held(u) = {"redraw", "real"}
  BY <1>2, <1>4, <1>6
<1>7. CASE Wants(u) = "query" /\ Held(u) \subseteq {"feeds", "cache"} /\ Role(u) = "main"
  <2>1. u = UiThread
    BY <1>7 DEF Role
  <2> DEFINE v == holder["query"]
             w == holder["real"]
  <2>2. v \in waiting /\ "query" \in Held(v) /\ Allowed(Role(v), Held(v), Wants(v))
    BY <1>1, <1>4, <1>7
  <2>3. v # u
    BY <1>7, <2>2
  <2>4. Role(v) # "main"
    BY <2>1, <2>3 DEF Role
  <2>5. CASE Held(v) = {"redraw", "real"}
    BY <2>2, <2>5
  <2>6. CASE Wants(v) = "real" /\ Role(v) = "after"
    <3>1. w \in waiting /\ "real" \in Held(w) /\ Allowed(Role(w), Held(w), Wants(w))
      BY <1>1, <2>2, <2>6
    <3>2. Role(w) # "main"
      BY <1>7, <2>1, <3>1 DEF Role
    <3>3. CASE Wants(w) = "real" /\ Held(w) = {"redraw", "real"}
      BY <1>2, <3>1, <3>3
    <3>4. CASE Role(w) = "reload"
      <4>1. v \in Downloaders /\ stage[v] # "range"
        BY <1>1, <2>2, <2>6 DEF Role, AllThreads
      <4>2. stage[v] # "idle"
        <5>1. ~Idle(v)
          BY <1>1, <2>2 DEF WaitsFor
        <5>. QED
          BY <4>1, <5>1 DEF MutexInv, OneReloads
      <4>3. \E d \in Downloaders : stage[d] = "range"
        <5>1. ~Idle(w)
          BY <1>1, <3>1 DEF WaitsFor
        <5>2. CASE w = Ranger
          BY <5>1, <5>2 DEF MutexInv, OneReloads
        <5>3. CASE w # Ranger
          <6>1. w # UiThread /\ w \in AllThreads /\ stage[w] = "range"
            BY <1>1, <3>1, <3>4, <5>3 DEF Role
          <6>. QED
            BY <5>3, <6>1 DEF AllThreads
        <5>. QED
          BY <5>2, <5>3
      <4>. QED
        BY <4>1, <4>2, <4>3 DEF MutexInv, OneReloads
    <3>. QED
      BY <3>1, <3>2, <3>3, <3>4 DEF Allowed
  <2>. QED
    BY <2>2, <2>4, <2>5, <2>6 DEF Allowed
<1>. QED
  BY <1>4, <1>5, <1>6, <1>7 DEF Allowed

\* However many threads reload in the background, no threads of newsbeuter wait for
\* each other's mutexes for ever, whatever the user does meanwhile: only a thread that
\* prepares an article list may wait for the item_mutex it has itself
\* (controller::reload_all, cache::mark_all_read, do_update_visible_items).
THEOREM NobodyEverWaitsInACircle == LocksSpec => []NobodyWaitsInACircle
<1>1. LocksInit => MutexInv
  BY MutexInit
<1>2. MutexInv /\ [LocksNext]_lockVars => MutexInv'
  BY MutexNext
<1>3. MutexInv => NobodyWaitsInACircle
  BY NoCircle
<1>. QED
  BY <1>1, <1>2, <1>3, PTL DEF LocksSpec
=============================================================================

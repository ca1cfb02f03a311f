------------------------- MODULE FileHandlerProofs -------------------------
(***************************************************************************)
(* What holds of FileHandler for all sets of paths, requests and workers,  *)
(* any cache size and any number of deploys.                               *)
(***************************************************************************)
EXTENDS FileHandler, FiniteSetTheorems, TLAPS

(***************************************************************************)
(* Why the invariants hold: IndInv is inductive, and with it TimerInv.     *)
(***************************************************************************)
\* A goroutine is inside fh.mu exactly while it holds it.
LockInv == \A t \in Procs : pc[t] \in Held <=> mu = t

\* What each goroutine knows at each point.
Local(t) ==
    /\ pc[t] # "idle" => at[t] \in Paths
    /\ pc[t] \in Held \cup {"check", "reload"} => ref[t] \in Entries
    /\ pc[t] \in {"check", "miss", "watch", "subscribe"} => t \in Requests
    /\ pc[t] \in {"armed", "fired", "lookup", "reload"} => t \in Workers

LocalInv == \A t \in Procs : Local(t)

\* No entry is published twice, and the one a request works on inside fh.mu
\* is its path's, or is not published at all.
PublishedInv ==
    /\ \A p, q \in Cached : files[p] = files[q] => p = q
    /\ mu \in Requests =>
         \/ files[at[mu]] = ref[mu]
         \/ files[at[mu]] = Nil /\ \A p \in Paths : files[p] # ref[mu]

\* Once Cleanup returned, no goroutine is past the check of closed.
CleanupInv == cleanup = "done" =>
    subscribed = {} /\ \A t \in Procs : pc[t] # "subscribe"

IndInv == LockInv /\ LocalInv /\ PublishedInv /\ EveryWatchHasAnEntry /\ CleanupInv

\* A pending timer is the one its path's debounce entry names, so that Cleanup
\* can stop it, and Cleanup has stopped them all.
TimerInv ==
    /\ \A w \in Workers : Pending(w) => debounce[at[w]] = w
    /\ cleanup \in {"drained", "done"} => \A w \in Workers : ~Pending(w)

\* A check starts at age 0, and ages count up to their bound.
LEMMA AgeFacts == 0 \in Ages /\ \A a \in Ages : a < MaxAge => a + 1 \in Ages
BY ConstantsAssumption DEF Ages

\* An address nothing refers to holds an entry, too.
LEMMA BlankType == Blank \in CachedFile
BY AgeFacts DEF Blank, CachedFile

\* Releasing the addresses of garbage keeps the heap well typed.
LEMMA CollectType ==
    ASSUME NEW en \in [Entries -> CachedFile], NEW fs, NEW rf
    PROVE  Collect(en, fs, rf) \in [Entries -> CachedFile]
BY BlankType DEF Collect

\* Neither does storing what a load returned.
LEMMA StoreType ==
    ASSUME NEW en \in [Entries -> CachedFile], NEW e,
           NEW d \in Nat \cup {Nil}, NEW l \in Nat \cup {Nil}
    PROVE  /\ [en EXCEPT ![e].data = d, ![e].lastErr = "", ![e].torn = TRUE]
                 \in [Entries -> CachedFile]
           /\ [en EXCEPT ![e].data = d, ![e].loaded = l, ![e].lastErr = "",
                         ![e].torn = FALSE] \in [Entries -> CachedFile]
<1>1. [en EXCEPT ![e].data = d, ![e].lastErr = "", ![e].torn = TRUE]
        \in [Entries -> CachedFile]
  BY ZenonT(60) DEF CachedFile
<1> DEFINE stored == [en EXCEPT ![e].data = d, ![e].loaded = l, ![e].lastErr = "",
                                ![e].torn = FALSE]
<1>2. ASSUME NEW x \in Entries, x = e PROVE stored[x] \in CachedFile
  <2>1. stored[x] = [data |-> d, loaded |-> l, lastErr |-> "",
                     watched |-> en[e].watched, age |-> en[e].age, torn |-> FALSE]
    BY ZenonT(60), <1>2 DEF CachedFile
  <2>2. en[e].watched \in BOOLEAN /\ en[e].age \in Ages
    BY <1>2 DEF CachedFile
  <2> QED
    BY ZenonT(60), <2>1, <2>2 DEF CachedFile
<1>3. \A x \in Entries : x # e => stored[x] = en[x]
  OBVIOUS
<1>4. stored = [x \in Entries |-> stored[x]]
  OBVIOUS
<1> QED
  BY <1>1, <1>2, <1>3, <1>4

\* No step breaks a type.
LEMMA TypeStep ==
    ASSUME TypeOK, LocalInv, [Next]_vars
    PROVE  TypeOK'
<1> USE DEF fsVars, hubVars, threadVars, Goto, Return, EndRefresh, LeaveWithNewEntry
<1>1. ASSUME NEW p \in Paths, NEW k \in Kinds, Deploy(p, k) PROVE TypeOK'
  <2>1. /\ file' \in [Paths -> FileVersion]
        /\ backup' \in [Paths -> FileVersion \cup {Nil}]
        /\ deploys' \in [Paths -> Nat]
    BY <1>1, ConstantsAssumption DEF TypeOK, Deploy, FileVersion, Kinds
  <2> QED
    BY <1>1, <2>1 DEF TypeOK, Deploy
<1>2. ASSUME NEW p \in Paths, QuietRewrite(p) PROVE TypeOK'
  <2>1. /\ file' \in [Paths -> FileVersion]
        /\ backup' \in [Paths -> FileVersion \cup {Nil}]
        /\ deploys' \in [Paths -> Nat]
    BY <1>2, ConstantsAssumption DEF TypeOK, QuietRewrite, FileVersion, Kinds
  <2> QED
    BY <1>2, <2>1 DEF TypeOK, QuietRewrite
<1>c. ASSUME NEW p \in Paths, Chmod(p) PROVE TypeOK'
  <2>1. /\ file' \in [Paths -> FileVersion]
        /\ backup' \in [Paths -> FileVersion \cup {Nil}]
        /\ deploys' \in [Paths -> Nat]
    BY <1>c, ConstantsAssumption DEF TypeOK, Chmod, FileVersion, Kinds
  <2> QED
    BY <1>c, <2>1 DEF TypeOK, Chmod
<1>3. ASSUME NEW p \in Paths, MoveAway(p) PROVE TypeOK'
  <2>1. /\ file' \in [Paths -> FileVersion]
        /\ backup' \in [Paths -> FileVersion \cup {Nil}]
        /\ deploys' \in [Paths -> Nat]
    BY <1>3, ConstantsAssumption DEF TypeOK, MoveAway, FileVersion, Kinds
  <2> QED
    BY <1>3, <2>1 DEF TypeOK, MoveAway
<1>4. ASSUME NEW p \in Paths, MoveBack(p) PROVE TypeOK'
  BY <1>4, CollectType, ConstantsAssumption DEF TypeOK, MoveBack, Procs, Labels, Held
<1>5. ASSUME Tick PROVE TypeOK'
  <2>1. entry' \in [Entries -> CachedFile]
    <3> SUFFICES ASSUME NEW e \in Entries PROVE entry'[e] \in CachedFile
      BY <1>5 DEF Tick
    <3>1. CASE Live(e, files, ref) /\ entry[e].age < MaxAge
      <4>1. entry'[e] = [entry[e] EXCEPT !.age = entry[e].age + 1] /\ entry[e] \in CachedFile
        BY <1>5, <3>1 DEF Tick, TypeOK
      <4>2. entry[e].age + 1 \in Ages
        BY <4>1, <3>1, AgeFacts DEF CachedFile
      <4> QED
        BY <4>1, <4>2 DEF CachedFile
    <3>2. CASE ~(Live(e, files, ref) /\ entry[e].age < MaxAge)
      BY <1>5, <3>2 DEF Tick, TypeOK
    <3> QED
      BY <3>1, <3>2
  <2> QED
    BY <1>5, <2>1, ConstantsAssumption DEF TypeOK, Tick, Procs, Labels, Held
<1>6. ASSUME NEW t \in Requests, NEW p \in Paths, LookupMiss(t, p) PROVE TypeOK'
  BY <1>6, CollectType, ConstantsAssumption DEF TypeOK, LookupMiss, Procs, Labels, Held
<1>7. ASSUME NEW t \in Requests, NEW p \in Paths, LookupDue(t, p) PROVE TypeOK'
  <2>1. entry' \in [Entries -> CachedFile]
    <3>1. /\ entry \in [Entries -> CachedFile]
          /\ entry' = [entry EXCEPT ![files[p]].age = 0]
      BY <1>7 DEF TypeOK, LookupDue
    <3> QED
      BY <3>1, AgeFacts DEF CachedFile
  <2> QED
    BY <1>7, <2>1, ConstantsAssumption DEF TypeOK, LookupDue, Procs, Labels, Held
<1>8. ASSUME NEW t \in Requests, LockForCheck(t) PROVE TypeOK'
  BY <1>8, CollectType, ConstantsAssumption DEF TypeOK, LockForCheck, Procs, Labels,
     Held
<1>9. ASSUME NEW t \in Requests, LockFindsEntry(t) PROVE TypeOK'
  BY <1>9, CollectType, ConstantsAssumption DEF TypeOK, LockFindsEntry, Procs, Labels,
     Held
<1>10. ASSUME NEW t \in Requests, LockForNewEntry(t) PROVE TypeOK'
  <2>1. entry' \in [Entries -> CachedFile]
    <3>1. \A a \in Ages : [Blank EXCEPT !.age = a] \in CachedFile
      BY BlankType DEF CachedFile
    <3> DEFINE new == CHOOSE e \in FreeEntries : TRUE
    <3>2. PICK a \in Ages : entry' = [entry EXCEPT ![new] = [Blank EXCEPT !.age = a]]
      BY <1>10 DEF LockForNewEntry
    <3> HIDE DEF new
    <3> QED
      BY <3>1, <3>2 DEF TypeOK
  <2> QED
    BY <1>10, <2>1, ConstantsAssumption DEF TypeOK, LockForNewEntry, Procs, Labels, Held
<1>11. ASSUME NEW t \in Requests, CheckClosed(t) PROVE TypeOK'
  BY <1>11, CollectType, ConstantsAssumption DEF TypeOK, CheckClosed, Procs, Labels,
     Held
<1>12. ASSUME NEW t \in Requests, Subscribe(t) PROVE TypeOK'
  <2>1. entry' \in [Entries -> CachedFile]
    <3>1. PICK ok \in BOOLEAN : entry' = [entry EXCEPT ![ref[t]].watched = ok]
      BY <1>12 DEF Subscribe
    <3>2. entry \in [Entries -> CachedFile]
      BY DEF TypeOK
    <3> QED
      BY <3>1, <3>2 DEF CachedFile
  <2> QED
    BY <1>12, <2>1 DEF TypeOK, Subscribe, LocalInv, Local, Held, Procs, Labels
<1>13. ASSUME NEW t \in Procs, StatMissing(t) PROVE TypeOK'
  <2>1. entry' \in [Entries -> CachedFile]
    <3>1. /\ entry \in [Entries -> CachedFile]
          /\ entry' = [entry EXCEPT ![ref[t]].data = Nil, ![ref[t]].lastErr = "",
                                  ![ref[t]].torn = FALSE]
      BY <1>13 DEF TypeOK, StatMissing
    <3> QED
      BY ZenonT(60), <3>1, AgeFacts DEF CachedFile
  <2> QED
    BY <1>13, <2>1, ConstantsAssumption DEF TypeOK, StatMissing, Procs, Labels, Held
<1>14. ASSUME NEW t \in Procs, StatFails(t) PROVE TypeOK'
  <2>1. entry' \in [Entries -> CachedFile]
    <3>1. /\ entry \in [Entries -> CachedFile]
          /\ entry' = [entry EXCEPT ![ref[t]].lastErr = "stat"]
      BY <1>14 DEF TypeOK, StatFails
    <3> QED
      BY <3>1, AgeFacts DEF CachedFile
  <2> QED
    BY <1>14, <2>1, ConstantsAssumption DEF TypeOK, StatFails, Procs, Labels, Held
<1>15. ASSUME NEW t \in Procs, StatUnchanged(t) PROVE TypeOK'
  BY <1>15, CollectType, ConstantsAssumption DEF TypeOK, StatUnchanged, Procs, Labels,
     Held
<1>16. ASSUME NEW t \in Procs, StatChanged(t) PROVE TypeOK'
  <2>1. file[at[t]].stamp \in Nat
    BY <1>16 DEF TypeOK, StatChanged, LocalInv, Local, Held, FileVersion
  <2> QED
    BY <1>16, <2>1 DEF TypeOK, StatChanged, Procs, Labels, Held
<1>17. ASSUME NEW t \in Procs, LoadFails(t) PROVE TypeOK'
  <2>1. entry' \in [Entries -> CachedFile]
    <3>1. /\ entry \in [Entries -> CachedFile]
          /\ entry' = [entry EXCEPT ![ref[t]].lastErr = "load"]
      BY <1>17 DEF TypeOK, LoadFails
    <3> QED
      BY <3>1, AgeFacts DEF CachedFile
  <2> QED
    BY <1>17, <2>1, ConstantsAssumption DEF TypeOK, LoadFails, Procs, Labels, Held
<1>18. ASSUME NEW t \in Procs, LoadFile(t) PROVE TypeOK'
  <2>1. file[at[t]].ver \in Nat
    BY <1>18 DEF TypeOK, LoadFile, LocalInv, Local, Held, FileVersion
  <2> QED
    BY <1>18, <2>1 DEF TypeOK, LoadFile, Procs, Labels, Held
<1>19. ASSUME NEW t \in Procs, RestatChanged(t) PROVE TypeOK'
  <2>1. entry' \in [Entries -> CachedFile]
    BY <1>19, StoreType DEF TypeOK, RestatChanged
  <2> QED
    BY <1>19, <2>1, ConstantsAssumption DEF TypeOK, RestatChanged, Procs, Labels, Held
<1>20. ASSUME NEW t \in Procs, RestatStable(t) PROVE TypeOK'
  <2>1. entry' \in [Entries -> CachedFile]
    BY ZenonT(60), <1>20, StoreType DEF TypeOK, RestatStable
  <2> QED
    BY <1>20, <2>1, ConstantsAssumption DEF TypeOK, RestatStable, Procs, Labels, Held
<1>21. ASSUME NEW t \in Procs, Unlock(t) PROVE TypeOK'
  BY <1>21, CollectType, ConstantsAssumption DEF TypeOK, Unlock, Procs, Labels, Held
<1>22. ASSUME NEW t \in Procs, Publish(t) PROVE TypeOK'
  BY <1>22, CollectType, ConstantsAssumption DEF TypeOK, Publish, Procs, Labels, Held
<1>23. ASSUME NEW t \in Procs, NEW v \in Paths, PublishEvicting(t, v) PROVE TypeOK'
  <2>1. [entry EXCEPT ![files[v]].watched = FALSE] \in [Entries -> CachedFile]
    BY ZenonT(60) DEF TypeOK, CachedFile
  <2>2. entry' \in [Entries -> CachedFile]
    BY <1>23, <2>1, CollectType DEF PublishEvicting
  <2> QED
    BY <1>23, <2>2 DEF TypeOK, PublishEvicting, Procs, Labels, Held
<1>24. ASSUME NEW p \in Paths, HubForgets(p) PROVE TypeOK'
  BY <1>24, CollectType, ConstantsAssumption DEF TypeOK, HubForgets, Procs, Labels, Held
<1>25. ASSUME NEW p \in Paths, TargetsFor(p) PROVE TypeOK'
  BY <1>25, CollectType, ConstantsAssumption DEF TypeOK, TargetsFor, Procs, Labels, Held
<1>26. ASSUME NEW p \in Paths, ScheduleReload(p) PROVE TypeOK'
  BY <1>26, CollectType, ConstantsAssumption DEF TypeOK, ScheduleReload, Procs, Labels,
     Held
<1>27. ASSUME NEW w \in Workers, TimerFires(w) PROVE TypeOK'
  BY <1>27, CollectType, ConstantsAssumption DEF TypeOK, TimerFires, Procs, Labels, Held
<1>28. ASSUME NEW w \in Workers, ForgetTimer(w) PROVE TypeOK'
  BY <1>28, CollectType, ConstantsAssumption DEF TypeOK, ForgetTimer, Procs, Labels,
     Held
<1>29. ASSUME NEW w \in Workers, LookupForReload(w) PROVE TypeOK'
  <2>1. files[at[w]] \in Entries \cup {Nil}
    BY <1>29 DEF TypeOK, LookupForReload, LocalInv, Local, Procs
  <2> QED
    BY <1>29, <2>1 DEF TypeOK, LookupForReload, Procs, Labels, Held
<1>30. ASSUME NEW w \in Workers, LockForReload(w) PROVE TypeOK'
  <2>1. entry' \in [Entries -> CachedFile]
    <3>1. /\ entry \in [Entries -> CachedFile]
          /\ entry' = [entry EXCEPT ![ref[w]].age = 0]
      BY <1>30 DEF TypeOK, LockForReload
    <3> QED
      BY <3>1, AgeFacts DEF CachedFile
  <2> QED
    BY <1>30, <2>1, ConstantsAssumption DEF TypeOK, LockForReload, Procs, Labels, Held
<1>31. ASSUME Close PROVE TypeOK'
  BY <1>31, CollectType, ConstantsAssumption DEF TypeOK, Close, Procs, Labels, Held
<1>32. ASSUME StopTimers PROVE TypeOK'
  BY <1>32, CollectType, ConstantsAssumption DEF TypeOK, StopTimers, Procs, Labels, Held
<1>33. ASSUME UnsubscribeAll PROVE TypeOK'
  <2>1. entry' \in [Entries -> CachedFile]
    <3>1. \A e \in Entries : [entry[e] EXCEPT !.watched = FALSE] \in CachedFile
      BY DEF TypeOK, CachedFile
    <3> QED
      BY <1>33, <3>1 DEF TypeOK, UnsubscribeAll
  <2> QED
    BY <1>33, <2>1, ConstantsAssumption DEF TypeOK, UnsubscribeAll, Procs, Labels, Held
<1>34. ASSUME UNCHANGED vars PROVE TypeOK'
  BY <1>34 DEF TypeOK, vars
<1> QED
  BY <1>1, <1>2, <1>c, <1>3, <1>4, <1>5, <1>6, <1>7, <1>8, <1>9, <1>10, <1>11, <1>12, <1>13,
     <1>14, <1>15, <1>16, <1>17, <1>18, <1>19, <1>20, <1>21, <1>22, <1>23, <1>24, <1>25,
     <1>26, <1>27, <1>28, <1>29, <1>30, <1>31, <1>32, <1>33, <1>34 DEF Next, FileSystem,
     Hub, Cleanup, Lookup, Lock, Watch, Refresh, Leave, Reload, Procs

\* No step loses what its goroutine needs to know.
LEMMA LocalStep ==
    ASSUME TypeOK, LocalInv, [Next]_vars
    PROVE  LocalInv'
<1> SUFFICES ASSUME NEW s \in Procs PROVE Local(s)'
  BY DEF LocalInv
<1>0. Local(s)
  BY DEF LocalInv
<1> USE <1>0 DEF fsVars, threadVars, Local, Held, Goto, Return, EndRefresh,
   LeaveWithNewEntry
<1>1. ASSUME NEW p \in Paths, NEW k \in Kinds, Deploy(p, k) PROVE Local(s)'
  BY <1>1 DEF TypeOK, Deploy, Procs
<1>2. ASSUME NEW p \in Paths, QuietRewrite(p) PROVE Local(s)'
  BY <1>2 DEF TypeOK, QuietRewrite, Procs
<1>c. ASSUME NEW p \in Paths, Chmod(p) PROVE Local(s)'
  BY <1>c DEF TypeOK, Chmod, Procs
<1>3. ASSUME NEW p \in Paths, MoveAway(p) PROVE Local(s)'
  BY <1>3 DEF TypeOK, MoveAway, Procs
<1>4. ASSUME NEW p \in Paths, MoveBack(p) PROVE Local(s)'
  BY <1>4 DEF TypeOK, MoveBack, Procs
<1>5. ASSUME Tick PROVE Local(s)'
  BY <1>5 DEF TypeOK, Tick, Procs
<1>6. ASSUME NEW t \in Requests, NEW p \in Paths, LookupMiss(t, p) PROVE Local(s)'
  BY <1>6 DEF TypeOK, LookupMiss, Procs
<1>7. ASSUME NEW t \in Requests, NEW p \in Paths, LookupDue(t, p) PROVE Local(s)'
  BY <1>7 DEF TypeOK, LookupDue, Procs
<1>8. ASSUME NEW t \in Requests, LockForCheck(t) PROVE Local(s)'
  BY <1>8 DEF TypeOK, LockForCheck, Procs
<1>9. ASSUME NEW t \in Requests, LockFindsEntry(t) PROVE Local(s)'
  BY <1>9 DEF TypeOK, LockFindsEntry, Procs
<1>10. ASSUME NEW t \in Requests, LockForNewEntry(t) PROVE Local(s)'
  <2>1. PICK e \in Entries : ref' = [ref EXCEPT ![t] = e]
    BY <1>10 DEF LockForNewEntry, FreeEntries
  <2> QED
    BY <1>10, <2>1 DEF TypeOK, LockForNewEntry, Procs
<1>11. ASSUME NEW t \in Requests, CheckClosed(t) PROVE Local(s)'
  BY <1>11 DEF TypeOK, CheckClosed, Procs
<1>12. ASSUME NEW t \in Requests, Subscribe(t) PROVE Local(s)'
  BY <1>12 DEF TypeOK, Subscribe, Procs
<1>13. ASSUME NEW t \in Procs, StatMissing(t) PROVE Local(s)'
  BY <1>13 DEF TypeOK, StatMissing, Procs
<1>14. ASSUME NEW t \in Procs, StatFails(t) PROVE Local(s)'
  BY <1>14 DEF TypeOK, StatFails, Procs
<1>15. ASSUME NEW t \in Procs, StatUnchanged(t) PROVE Local(s)'
  BY <1>15 DEF TypeOK, StatUnchanged, Procs
<1>16. ASSUME NEW t \in Procs, StatChanged(t) PROVE Local(s)'
  BY <1>16 DEF TypeOK, StatChanged, Procs
<1>17. ASSUME NEW t \in Procs, LoadFails(t) PROVE Local(s)'
  BY <1>17 DEF TypeOK, LoadFails, Procs
<1>18. ASSUME NEW t \in Procs, LoadFile(t) PROVE Local(s)'
  BY <1>18 DEF TypeOK, LoadFile, Procs
<1>19. ASSUME NEW t \in Procs, RestatChanged(t) PROVE Local(s)'
  BY <1>19 DEF TypeOK, RestatChanged, Procs
<1>20. ASSUME NEW t \in Procs, RestatStable(t) PROVE Local(s)'
  BY <1>20 DEF TypeOK, RestatStable, Procs
<1>21. ASSUME NEW t \in Procs, Unlock(t) PROVE Local(s)'
  BY <1>21 DEF TypeOK, Unlock, Procs
<1>22. ASSUME NEW t \in Procs, Publish(t) PROVE Local(s)'
  BY <1>22 DEF TypeOK, Publish, Procs
<1>23. ASSUME NEW t \in Procs, NEW v \in Paths, PublishEvicting(t, v) PROVE Local(s)'
  BY <1>23 DEF TypeOK, PublishEvicting, Procs
<1>24. ASSUME NEW p \in Paths, HubForgets(p) PROVE Local(s)'
  BY <1>24 DEF TypeOK, HubForgets, Procs
<1>25. ASSUME NEW p \in Paths, TargetsFor(p) PROVE Local(s)'
  BY <1>25 DEF TypeOK, TargetsFor, Procs
<1>26. ASSUME NEW p \in Paths, ScheduleReload(p) PROVE Local(s)'
  BY <1>26 DEF TypeOK, ScheduleReload, Procs
<1>27. ASSUME NEW w \in Workers, TimerFires(w) PROVE Local(s)'
  BY <1>27 DEF TypeOK, TimerFires, Procs
<1>28. ASSUME NEW w \in Workers, ForgetTimer(w) PROVE Local(s)'
  BY <1>28 DEF TypeOK, ForgetTimer, Procs
<1>29. ASSUME NEW w \in Workers, LookupForReload(w) PROVE Local(s)'
  BY <1>29 DEF TypeOK, LookupForReload, Procs
<1>30. ASSUME NEW w \in Workers, LockForReload(w) PROVE Local(s)'
  BY <1>30 DEF TypeOK, LockForReload, Procs
<1>31. ASSUME Close PROVE Local(s)'
  BY <1>31 DEF TypeOK, Close, Procs
<1>32. ASSUME StopTimers PROVE Local(s)'
  BY <1>32 DEF TypeOK, StopTimers, Procs
<1>33. ASSUME UnsubscribeAll PROVE Local(s)'
  BY <1>33 DEF TypeOK, UnsubscribeAll, Procs
<1>34. ASSUME UNCHANGED vars PROVE Local(s)'
  BY <1>34 DEF TypeOK, vars, Procs
<1> QED
  BY <1>1, <1>2, <1>c, <1>3, <1>4, <1>5, <1>6, <1>7, <1>8, <1>9, <1>10, <1>11, <1>12, <1>13,
     <1>14, <1>15, <1>16, <1>17, <1>18, <1>19, <1>20, <1>21, <1>22, <1>23, <1>24, <1>25,
     <1>26, <1>27, <1>28, <1>29, <1>30, <1>31, <1>32, <1>33, <1>34 DEF Next, FileSystem,
     Hub, Cleanup, Lookup, Lock, Watch, Refresh, Leave, Reload, Procs

\* Every variable keeps its type, and every goroutine in getCached or in a reload
\* has the path and the entry it works on: no step dereferences a missing one.
THEOREM Typing == Spec => [](TypeOK /\ LocalInv)
<1>1. Init => TypeOK /\ LocalInv
  <2> SUFFICES ASSUME Init PROVE TypeOK /\ LocalInv
    OBVIOUS
  <2>1. file \in [Paths -> FileVersion]
    BY DEF Init, FileVersion, Kinds
  <2>2. entry \in [Entries -> CachedFile]
    BY BlankType DEF Init
  <2> QED
    BY <2>1, <2>2 DEF Init, TypeOK, LocalInv, Local, Procs, Labels, Held
<1>2. TypeOK /\ LocalInv /\ [Next]_vars => TypeOK' /\ LocalInv'
  BY TypeStep, LocalStep
<1> QED
  BY <1>1, <1>2, PTL DEF Spec

\* Every step takes and releases fh.mu properly.
LEMMA LockStep ==
    ASSUME TypeOK, LocalInv, LockInv, [Next]_vars
    PROVE  LockInv'
<1> SUFFICES ASSUME NEW s \in Procs PROVE (pc[s] \in Held <=> mu = s)'
  BY DEF LockInv
<1>0. \A x \in Procs : pc[x] \in Held <=> mu = x
  BY DEF LockInv
<1> USE DEF fsVars, hubVars, threadVars, Held, Goto, Return, EndRefresh, LeaveWithNewEntry,
   Pending
<1>1. ASSUME NEW p \in Paths, NEW k \in Kinds, Deploy(p, k) PROVE (pc[s] \in Held <=> mu = s)'
  BY <1>0, ConstantsAssumption, <1>1 DEF Deploy, TypeOK, Procs
<1>2. ASSUME NEW p \in Paths, QuietRewrite(p) PROVE (pc[s] \in Held <=> mu = s)'
  BY <1>0, ConstantsAssumption, <1>2 DEF QuietRewrite, TypeOK, Procs
<1>c. ASSUME NEW p \in Paths, Chmod(p) PROVE (pc[s] \in Held <=> mu = s)'
  BY <1>0, ConstantsAssumption, <1>c DEF Chmod, TypeOK, Procs
<1>3. ASSUME NEW p \in Paths, MoveAway(p) PROVE (pc[s] \in Held <=> mu = s)'
  BY <1>0, ConstantsAssumption, <1>3 DEF MoveAway, TypeOK, Procs
<1>4. ASSUME NEW p \in Paths, MoveBack(p) PROVE (pc[s] \in Held <=> mu = s)'
  BY <1>0, ConstantsAssumption, <1>4 DEF MoveBack, TypeOK, Procs
<1>5. ASSUME Tick PROVE (pc[s] \in Held <=> mu = s)'
  BY <1>0, ConstantsAssumption, <1>5 DEF Tick, TypeOK, Procs
<1>6. ASSUME NEW t \in Requests, NEW p \in Paths, LookupMiss(t, p) PROVE (pc[s] \in Held <=> mu = s)'
  BY <1>0, ConstantsAssumption, <1>6 DEF LookupMiss, TypeOK, Procs
<1>7. ASSUME NEW t \in Requests, NEW p \in Paths, LookupDue(t, p) PROVE (pc[s] \in Held <=> mu = s)'
  BY <1>0, ConstantsAssumption, <1>7 DEF LookupDue, TypeOK, Procs
<1>8. ASSUME NEW t \in Requests, LockForCheck(t) PROVE (pc[s] \in Held <=> mu = s)'
  BY <1>0, ConstantsAssumption, <1>8 DEF LockForCheck, TypeOK, Procs
<1>9. ASSUME NEW t \in Requests, LockFindsEntry(t) PROVE (pc[s] \in Held <=> mu = s)'
  BY <1>0, ConstantsAssumption, <1>9 DEF LockFindsEntry, TypeOK, Procs
<1>10. ASSUME NEW t \in Requests, LockForNewEntry(t) PROVE (pc[s] \in Held <=> mu = s)'
  BY <1>0, ConstantsAssumption, <1>10 DEF LockForNewEntry, TypeOK, Procs
<1>11. ASSUME NEW t \in Requests, CheckClosed(t) PROVE (pc[s] \in Held <=> mu = s)'
  BY <1>0, ConstantsAssumption, <1>11 DEF CheckClosed, TypeOK, Procs
<1>12. ASSUME NEW t \in Requests, Subscribe(t) PROVE (pc[s] \in Held <=> mu = s)'
  BY <1>0, ConstantsAssumption, <1>12 DEF Subscribe, TypeOK, Procs
<1>13. ASSUME NEW t \in Procs, StatMissing(t) PROVE (pc[s] \in Held <=> mu = s)'
  BY <1>0, ConstantsAssumption, <1>13 DEF StatMissing, TypeOK, Procs
<1>14. ASSUME NEW t \in Procs, StatFails(t) PROVE (pc[s] \in Held <=> mu = s)'
  BY <1>0, ConstantsAssumption, <1>14 DEF StatFails, TypeOK, Procs
<1>15. ASSUME NEW t \in Procs, StatUnchanged(t) PROVE (pc[s] \in Held <=> mu = s)'
  BY <1>0, ConstantsAssumption, <1>15 DEF StatUnchanged, TypeOK, Procs
<1>16. ASSUME NEW t \in Procs, StatChanged(t) PROVE (pc[s] \in Held <=> mu = s)'
  BY <1>0, ConstantsAssumption, <1>16 DEF StatChanged, TypeOK, Procs
<1>17. ASSUME NEW t \in Procs, LoadFails(t) PROVE (pc[s] \in Held <=> mu = s)'
  BY <1>0, ConstantsAssumption, <1>17 DEF LoadFails, TypeOK, Procs
<1>18. ASSUME NEW t \in Procs, LoadFile(t) PROVE (pc[s] \in Held <=> mu = s)'
  BY <1>0, ConstantsAssumption, <1>18 DEF LoadFile, TypeOK, Procs
<1>19. ASSUME NEW t \in Procs, RestatChanged(t) PROVE (pc[s] \in Held <=> mu = s)'
  BY <1>0, ConstantsAssumption, <1>19 DEF RestatChanged, TypeOK, Procs
<1>20. ASSUME NEW t \in Procs, RestatStable(t) PROVE (pc[s] \in Held <=> mu = s)'
  BY <1>0, ConstantsAssumption, <1>20 DEF RestatStable, TypeOK, Procs
<1>21. ASSUME NEW t \in Procs, Unlock(t) PROVE (pc[s] \in Held <=> mu = s)'
  BY <1>0, ConstantsAssumption, <1>21 DEF Unlock, TypeOK, Procs
<1>22. ASSUME NEW t \in Procs, Publish(t) PROVE (pc[s] \in Held <=> mu = s)'
  BY <1>0, ConstantsAssumption, <1>22 DEF Publish, TypeOK, Procs
<1>23. ASSUME NEW t \in Procs, NEW v \in Paths, PublishEvicting(t, v) PROVE (pc[s] \in Held <=> mu = s)'
  BY <1>0, ConstantsAssumption, <1>23 DEF PublishEvicting, TypeOK, Procs
<1>24. ASSUME NEW p \in Paths, HubForgets(p) PROVE (pc[s] \in Held <=> mu = s)'
  BY <1>0, ConstantsAssumption, <1>24 DEF HubForgets, TypeOK, Procs
<1>25. ASSUME NEW p \in Paths, TargetsFor(p) PROVE (pc[s] \in Held <=> mu = s)'
  BY <1>0, ConstantsAssumption, <1>25 DEF TargetsFor, TypeOK, Procs
<1>26. ASSUME NEW p \in Paths, ScheduleReload(p) PROVE (pc[s] \in Held <=> mu = s)'
  BY <1>0, ConstantsAssumption, <1>26 DEF ScheduleReload, TypeOK, Procs
<1>27. ASSUME NEW w \in Workers, TimerFires(w) PROVE (pc[s] \in Held <=> mu = s)'
  BY <1>0, ConstantsAssumption, <1>27 DEF TimerFires, TypeOK, Procs
<1>28. ASSUME NEW w \in Workers, ForgetTimer(w) PROVE (pc[s] \in Held <=> mu = s)'
  BY <1>0, ConstantsAssumption, <1>28 DEF ForgetTimer, TypeOK, Procs
<1>29. ASSUME NEW w \in Workers, LookupForReload(w) PROVE (pc[s] \in Held <=> mu = s)'
  BY <1>0, ConstantsAssumption, <1>29 DEF LookupForReload, TypeOK, Procs
<1>30. ASSUME NEW w \in Workers, LockForReload(w) PROVE (pc[s] \in Held <=> mu = s)'
  BY <1>0, ConstantsAssumption, <1>30 DEF LockForReload, TypeOK, Procs
<1>31. ASSUME Close PROVE (pc[s] \in Held <=> mu = s)'
  BY <1>0, ConstantsAssumption, <1>31 DEF Close, TypeOK, Procs
<1>32. ASSUME StopTimers PROVE (pc[s] \in Held <=> mu = s)'
  BY <1>0, ConstantsAssumption, <1>32 DEF StopTimers, TypeOK, Procs
<1>33. ASSUME UnsubscribeAll PROVE (pc[s] \in Held <=> mu = s)'
  BY <1>0, ConstantsAssumption, <1>33 DEF UnsubscribeAll, TypeOK, Procs
<1>34. ASSUME UNCHANGED vars PROVE (pc[s] \in Held <=> mu = s)'
  BY <1>0, ConstantsAssumption, <1>34 DEF vars, TypeOK, Procs
<1> QED
  BY <1>1, <1>2, <1>c, <1>3, <1>4, <1>5, <1>6, <1>7, <1>8, <1>9, <1>10, <1>11, <1>12, <1>13,
     <1>14, <1>15, <1>16, <1>17, <1>18, <1>19, <1>20, <1>21, <1>22, <1>23, <1>24, <1>25,
     <1>26, <1>27, <1>28, <1>29, <1>30, <1>31, <1>32, <1>33, <1>34 DEF Next, FileSystem,
     Hub, Cleanup, Lookup, Lock, Watch, Refresh, Leave, Reload, Procs

\* Of the published entries: no step publishes one twice.
LEMMA PublishedStep ==
    ASSUME TypeOK, LocalInv, LockInv, PublishedInv, [Next]_vars
    PROVE  PublishedInv'
<1>0. \A x \in Procs : pc[x] \in Held <=> mu = x
  BY DEF LockInv
<1> USE DEF fsVars, hubVars, threadVars, Held, Goto, Return, EndRefresh, LeaveWithNewEntry,
   Pending
<1>1. ASSUME NEW p \in Paths, NEW k \in Kinds, Deploy(p, k) PROVE PublishedInv'
  BY <1>0, ConstantsAssumption, <1>1 DEF Deploy, TypeOK, Procs, Cached, New,
     PublishedInv
<1>2. ASSUME NEW p \in Paths, QuietRewrite(p) PROVE PublishedInv'
  BY <1>0, ConstantsAssumption, <1>2 DEF QuietRewrite, TypeOK, Procs, Cached, New,
     PublishedInv
<1>c. ASSUME NEW p \in Paths, Chmod(p) PROVE PublishedInv'
  BY <1>0, ConstantsAssumption, <1>c DEF Chmod, TypeOK, Procs, Cached, New,
     PublishedInv
<1>3. ASSUME NEW p \in Paths, MoveAway(p) PROVE PublishedInv'
  BY <1>0, ConstantsAssumption, <1>3 DEF MoveAway, TypeOK, Procs, Cached, New,
     PublishedInv
<1>4. ASSUME NEW p \in Paths, MoveBack(p) PROVE PublishedInv'
  BY <1>0, ConstantsAssumption, <1>4 DEF MoveBack, TypeOK, Procs, Cached, New,
     PublishedInv
<1>5. ASSUME Tick PROVE PublishedInv'
  BY <1>0, ConstantsAssumption, <1>5 DEF Tick, TypeOK, Procs, Cached, New, PublishedInv
<1>6. ASSUME NEW t \in Requests, NEW p \in Paths, LookupMiss(t, p) PROVE PublishedInv'
  BY <1>0, ConstantsAssumption, <1>6 DEF LookupMiss, TypeOK, Procs, Cached, New,
     PublishedInv
<1>7. ASSUME NEW t \in Requests, NEW p \in Paths, LookupDue(t, p) PROVE PublishedInv'
  BY <1>0, ConstantsAssumption, <1>7 DEF LookupDue, TypeOK, Procs, Cached, New,
     PublishedInv
<1>8. ASSUME NEW t \in Requests, LockForCheck(t) PROVE PublishedInv'
  BY <1>0, ConstantsAssumption, <1>8 DEF LockForCheck, TypeOK, Procs, Cached, New,
     PublishedInv
<1>9. ASSUME NEW t \in Requests, LockFindsEntry(t) PROVE PublishedInv'
  BY <1>0, ConstantsAssumption, <1>9 DEF LockFindsEntry, TypeOK, Procs, Cached, New,
     PublishedInv
<1>10. ASSUME NEW t \in Requests, LockForNewEntry(t) PROVE PublishedInv'
  <2>1. PICK e \in FreeEntries : ref' = [ref EXCEPT ![t] = e]
    BY <1>10 DEF LockForNewEntry
  <2>2. \A p \in Paths : files[p] # e
    BY <2>1 DEF FreeEntries, Live
  <2> QED
    BY ZenonT(60), <1>10, <2>1, <2>2 DEF LockForNewEntry, PublishedInv, TypeOK, Procs,
       Cached
<1>11. ASSUME NEW t \in Requests, CheckClosed(t) PROVE PublishedInv'
  BY <1>0, ConstantsAssumption, <1>11 DEF CheckClosed, TypeOK, Procs, Cached, New,
     PublishedInv
<1>12. ASSUME NEW t \in Requests, Subscribe(t) PROVE PublishedInv'
  BY <1>0, ConstantsAssumption, <1>12 DEF Subscribe, TypeOK, Procs, Cached, New,
     PublishedInv
<1>13. ASSUME NEW t \in Procs, StatMissing(t) PROVE PublishedInv'
  BY <1>0, ConstantsAssumption, <1>13 DEF StatMissing, TypeOK, Procs, Cached, New,
     PublishedInv
<1>14. ASSUME NEW t \in Procs, StatFails(t) PROVE PublishedInv'
  BY <1>0, ConstantsAssumption, <1>14 DEF StatFails, TypeOK, Procs, Cached, New,
     PublishedInv
<1>15. ASSUME NEW t \in Procs, StatUnchanged(t) PROVE PublishedInv'
  BY <1>0, ConstantsAssumption, <1>15 DEF StatUnchanged, TypeOK, Procs, Cached, New,
     PublishedInv
<1>16. ASSUME NEW t \in Procs, StatChanged(t) PROVE PublishedInv'
  BY <1>0, ConstantsAssumption, <1>16 DEF StatChanged, TypeOK, Procs, Cached, New,
     PublishedInv
<1>17. ASSUME NEW t \in Procs, LoadFails(t) PROVE PublishedInv'
  BY <1>0, ConstantsAssumption, <1>17 DEF LoadFails, TypeOK, Procs, Cached, New,
     PublishedInv
<1>18. ASSUME NEW t \in Procs, LoadFile(t) PROVE PublishedInv'
  BY <1>0, ConstantsAssumption, <1>18 DEF LoadFile, TypeOK, Procs, Cached, New,
     PublishedInv
<1>19. ASSUME NEW t \in Procs, RestatChanged(t) PROVE PublishedInv'
  BY <1>0, ConstantsAssumption, <1>19 DEF RestatChanged, TypeOK, Procs, Cached, New,
     PublishedInv
<1>20. ASSUME NEW t \in Procs, RestatStable(t) PROVE PublishedInv'
  BY <1>0, ConstantsAssumption, <1>20 DEF RestatStable, TypeOK, Procs, Cached, New,
     PublishedInv
<1>21. ASSUME NEW t \in Procs, Unlock(t) PROVE PublishedInv'
  BY <1>0, ConstantsAssumption, <1>21 DEF Unlock, TypeOK, Procs, Cached, New,
     PublishedInv
<1>22. ASSUME NEW t \in Procs, Publish(t) PROVE PublishedInv'
  BY <1>0, ConstantsAssumption, <1>22 DEF Publish, TypeOK, Procs, Cached, New,
     PublishedInv
<1>23. ASSUME NEW t \in Procs, NEW v \in Paths, PublishEvicting(t, v) PROVE PublishedInv'
  BY <1>0, ConstantsAssumption, <1>23 DEF PublishEvicting, TypeOK, Procs, Cached, New,
     PublishedInv
<1>24. ASSUME NEW p \in Paths, HubForgets(p) PROVE PublishedInv'
  BY <1>0, ConstantsAssumption, <1>24 DEF HubForgets, TypeOK, Procs, Cached, New,
     PublishedInv
<1>25. ASSUME NEW p \in Paths, TargetsFor(p) PROVE PublishedInv'
  BY <1>0, ConstantsAssumption, <1>25 DEF TargetsFor, TypeOK, Procs, Cached, New,
     PublishedInv
<1>26. ASSUME NEW p \in Paths, ScheduleReload(p) PROVE PublishedInv'
  BY <1>0, ConstantsAssumption, <1>26 DEF ScheduleReload, TypeOK, Procs, Cached, New,
     PublishedInv
<1>27. ASSUME NEW w \in Workers, TimerFires(w) PROVE PublishedInv'
  BY <1>0, ConstantsAssumption, <1>27 DEF TimerFires, TypeOK, Procs, Cached, New,
     PublishedInv
<1>28. ASSUME NEW w \in Workers, ForgetTimer(w) PROVE PublishedInv'
  BY <1>0, ConstantsAssumption, <1>28 DEF ForgetTimer, TypeOK, Procs, Cached, New,
     PublishedInv
<1>29. ASSUME NEW w \in Workers, LookupForReload(w) PROVE PublishedInv'
  BY <1>0, ConstantsAssumption, <1>29 DEF LookupForReload, TypeOK, Procs, Cached, New,
     PublishedInv
<1>30. ASSUME NEW w \in Workers, LockForReload(w) PROVE PublishedInv'
  BY <1>0, ConstantsAssumption, <1>30 DEF LockForReload, TypeOK, Procs, Cached, New,
     PublishedInv
<1>31. ASSUME Close PROVE PublishedInv'
  BY <1>0, ConstantsAssumption, <1>31 DEF Close, TypeOK, Procs, Cached, New,
     PublishedInv
<1>32. ASSUME StopTimers PROVE PublishedInv'
  BY <1>0, ConstantsAssumption, <1>32 DEF StopTimers, TypeOK, Procs, Cached, New,
     PublishedInv
<1>33. ASSUME UnsubscribeAll PROVE PublishedInv'
  BY <1>0, ConstantsAssumption, <1>33 DEF UnsubscribeAll, TypeOK, Procs, Cached, New,
     PublishedInv
<1>34. ASSUME UNCHANGED vars PROVE PublishedInv'
  BY <1>0, ConstantsAssumption, <1>34 DEF vars, TypeOK, Procs, Cached, New, PublishedInv
<1> QED
  BY <1>1, <1>2, <1>c, <1>3, <1>4, <1>5, <1>6, <1>7, <1>8, <1>9, <1>10, <1>11, <1>12, <1>13,
     <1>14, <1>15, <1>16, <1>17, <1>18, <1>19, <1>20, <1>21, <1>22, <1>23, <1>24, <1>25,
     <1>26, <1>27, <1>28, <1>29, <1>30, <1>31, <1>32, <1>33, <1>34 DEF Next, FileSystem,
     Hub, Cleanup, Lookup, Lock, Watch, Refresh, Leave, Reload, Procs

\* No step leaves a subscription that cannot be found.
LEMMA WatchStep ==
    ASSUME TypeOK, LocalInv, LockInv, PublishedInv, EveryWatchHasAnEntry, [Next]_vars
    PROVE  EveryWatchHasAnEntry'
<1> SUFFICES ASSUME NEW s \in subscribed' PROVE Findable(s)'
  BY DEF EveryWatchHasAnEntry
<1>0. \A x \in Procs : pc[x] \in Held <=> mu = x
  BY DEF LockInv
<1> USE DEF fsVars, hubVars, threadVars, Held, Goto, Return, EndRefresh, LeaveWithNewEntry,
   Pending, Findable, AboutToPublish
<1>1. ASSUME NEW p \in Paths, NEW k \in Kinds, Deploy(p, k) PROVE Findable(s)'
  BY <1>0, ConstantsAssumption, <1>1 DEF Deploy, TypeOK, Procs, Cached, New,
     PublishedInv, EveryWatchHasAnEntry
<1>2. ASSUME NEW p \in Paths, QuietRewrite(p) PROVE Findable(s)'
  BY <1>0, ConstantsAssumption, <1>2 DEF QuietRewrite, TypeOK, Procs, Cached, New,
     PublishedInv, EveryWatchHasAnEntry
<1>c. ASSUME NEW p \in Paths, Chmod(p) PROVE Findable(s)'
  BY <1>0, ConstantsAssumption, <1>c DEF Chmod, TypeOK, Procs, Cached, New,
     PublishedInv, EveryWatchHasAnEntry
<1>3. ASSUME NEW p \in Paths, MoveAway(p) PROVE Findable(s)'
  BY <1>0, ConstantsAssumption, <1>3 DEF MoveAway, TypeOK, Procs, Cached, New,
     PublishedInv, EveryWatchHasAnEntry
<1>4. ASSUME NEW p \in Paths, MoveBack(p) PROVE Findable(s)'
  BY <1>0, ConstantsAssumption, <1>4 DEF MoveBack, TypeOK, Procs, Cached, New,
     PublishedInv, EveryWatchHasAnEntry
<1>5. ASSUME Tick PROVE Findable(s)'
  <2>1. \A e \in Entries : entry'[e].watched = entry[e].watched
    BY <1>5 DEF TypeOK, CachedFile, Tick
  <2>2. UNCHANGED <<files, mu, subscribed, at, ref>>
    BY <1>5 DEF Tick
  <2>3. Findable(s)
    BY <2>2 DEF EveryWatchHasAnEntry
  <2> QED
    BY <1>0, <2>1, <2>2, <2>3 DEF TypeOK, LocalInv, Local, Procs
<1>6. ASSUME NEW t \in Requests, NEW p \in Paths, LookupMiss(t, p) PROVE Findable(s)'
  BY <1>0, ConstantsAssumption, <1>6 DEF LookupMiss, TypeOK, Procs, Cached, New,
     PublishedInv, EveryWatchHasAnEntry
<1>7. ASSUME NEW t \in Requests, NEW p \in Paths, LookupDue(t, p) PROVE Findable(s)'
  BY <1>0, ConstantsAssumption, <1>7 DEF LookupDue, TypeOK, Procs, Cached, New,
     PublishedInv, EveryWatchHasAnEntry
<1>8. ASSUME NEW t \in Requests, LockForCheck(t) PROVE Findable(s)'
  <2>1. files[s] # Nil /\ entry[files[s]].watched
    BY <1>8, ConstantsAssumption DEF LockForCheck, EveryWatchHasAnEntry, hubVars, Procs
  <2>2. entry' = entry \/ entry' = Collect(entry, files, ref')
    BY <1>8 DEF LockForCheck
  <2>3. files[s] \in Entries /\ Live(files[s], files, ref')
    BY <1>8, <2>1 DEF LockForCheck, TypeOK, Live
  <2>4. entry'[files[s]].watched
    BY <2>1, <2>2, <2>3 DEF Collect
  <2> QED
    BY <1>8, <2>1, <2>4 DEF LockForCheck
<1>9. ASSUME NEW t \in Requests, LockFindsEntry(t) PROVE Findable(s)'
  BY <1>0, ConstantsAssumption, <1>9 DEF LockFindsEntry, TypeOK, Procs, Cached, New,
     PublishedInv, EveryWatchHasAnEntry
<1>10. ASSUME NEW t \in Requests, LockForNewEntry(t) PROVE Findable(s)'
  <2>1. files[s] # Nil /\ entry[files[s]].watched
    BY <1>10, ConstantsAssumption DEF LockForNewEntry, EveryWatchHasAnEntry, hubVars,
       Procs
  <2>2. PICK e \in FreeEntries, a \in Ages : entry' = [entry EXCEPT ![e] = [Blank EXCEPT !.age = a]]
    BY <1>10 DEF LockForNewEntry
  <2>3. files[s] \in Entries /\ files[s] # e
    BY <1>10, <2>1, <2>2 DEF LockForNewEntry, TypeOK, FreeEntries, Live
  <2> QED
    BY <1>10, <2>1, <2>2, <2>3 DEF LockForNewEntry, TypeOK
<1>11. ASSUME NEW t \in Requests, CheckClosed(t) PROVE Findable(s)'
  BY <1>0, ConstantsAssumption, <1>11 DEF CheckClosed, TypeOK, Procs, Cached, New,
     PublishedInv, EveryWatchHasAnEntry
<1>12. ASSUME NEW t \in Requests, Subscribe(t) PROVE Findable(s)'
  <2>1. PICK ok \in BOOLEAN :
          /\ subscribed' = IF ok THEN subscribed \cup {at[t]} ELSE subscribed \ {at[t]}
          /\ entry' = [entry EXCEPT ![ref[t]].watched = ok]
    BY <1>12 DEF Subscribe
  <2>2. /\ mu = t /\ ref[t] \in Entries /\ at[t] \in Paths
        /\ UNCHANGED <<files, mu, at, ref>>
    BY <1>12, <1>0 DEF Subscribe, LocalInv, Local, Procs
  <2>3. CASE s = at[t]
    <3>1. ok = TRUE
      BY <2>1, <2>3
    <3>2. entry' = [entry EXCEPT ![ref[t]].watched = TRUE]
      BY <2>1, <3>1
    <3>3. entry \in [Entries -> CachedFile]
      BY DEF TypeOK
    <3>4. entry'[ref[t]] = [entry[ref[t]] EXCEPT !.watched = TRUE]
      BY ONLY <2>2, <3>2, <3>3
    <3>5. [entry[ref[t]] EXCEPT !.watched = TRUE].watched = TRUE
      BY ONLY <2>2, <3>3 DEF CachedFile
    <3>6. entry'[ref[t]].watched
      BY <3>4, <3>5
    <3> QED
      BY <2>2, <2>3, <3>6, ConstantsAssumption DEF PublishedInv
  <2>4. CASE s # at[t]
    <3>1. Findable(s) /\ files[s] # Nil /\ entry[files[s]].watched
      BY <2>1, <2>2, <2>4 DEF EveryWatchHasAnEntry
    <3>2. files[s] # ref[t] /\ files[s] \in Entries
      BY <2>1, <2>2, <2>4, <3>1 DEF PublishedInv, TypeOK, Cached
    <3> QED
      BY <2>1, <2>2, <3>1, <3>2 DEF TypeOK
  <2> QED
    BY <2>3, <2>4
<1>13. ASSUME NEW t \in Procs, StatMissing(t) PROVE Findable(s)'
  <2>1. \A e \in Entries : entry'[e].watched = entry[e].watched
    <3>1. entry' = [entry EXCEPT ![ref[t]].data = Nil, ![ref[t]].lastErr = "",
                                  ![ref[t]].torn = FALSE]
      BY <1>13 DEF StatMissing
    <3>2. /\ entry \in [Entries -> CachedFile]
          /\ buf[t] \in Nat \cup {Nil} /\ info[t] \in Nat \cup {Nil}
      BY <1>13 DEF TypeOK
    <3> QED
      BY ONLY <3>1, <3>2 DEF CachedFile
  <2>2. UNCHANGED <<files, mu, subscribed, at, ref>>
    BY <1>13 DEF StatMissing
  <2>3. Findable(s)
    BY <2>2 DEF EveryWatchHasAnEntry
  <2> QED
    BY <1>0, <2>1, <2>2, <2>3 DEF TypeOK, LocalInv, Local, Procs
<1>14. ASSUME NEW t \in Procs, StatFails(t) PROVE Findable(s)'
  BY <1>0, ConstantsAssumption, <1>14 DEF StatFails, TypeOK, Procs, Cached, New,
     PublishedInv, EveryWatchHasAnEntry
<1>15. ASSUME NEW t \in Procs, StatUnchanged(t) PROVE Findable(s)'
  BY <1>0, ConstantsAssumption, <1>15 DEF StatUnchanged, TypeOK, Procs, Cached, New,
     PublishedInv, EveryWatchHasAnEntry
<1>16. ASSUME NEW t \in Procs, StatChanged(t) PROVE Findable(s)'
  BY <1>0, ConstantsAssumption, <1>16 DEF StatChanged, TypeOK, Procs, Cached, New,
     PublishedInv, EveryWatchHasAnEntry
<1>17. ASSUME NEW t \in Procs, LoadFails(t) PROVE Findable(s)'
  BY <1>0, ConstantsAssumption, <1>17 DEF LoadFails, TypeOK, Procs, Cached, New,
     PublishedInv, EveryWatchHasAnEntry
<1>18. ASSUME NEW t \in Procs, LoadFile(t) PROVE Findable(s)'
  BY <1>0, ConstantsAssumption, <1>18 DEF LoadFile, TypeOK, Procs, Cached, New,
     PublishedInv, EveryWatchHasAnEntry
<1>19. ASSUME NEW t \in Procs, RestatChanged(t) PROVE Findable(s)'
  <2>1. \A e \in Entries : entry'[e].watched = entry[e].watched
    <3>1. \/ entry' = entry
          \/ entry' = [entry EXCEPT ![ref[t]].data = buf[t], ![ref[t]].lastErr = "",
                                    ![ref[t]].torn = TRUE]
      BY <1>19 DEF RestatChanged
    <3>2. /\ entry \in [Entries -> CachedFile]
          /\ buf[t] \in Nat \cup {Nil} /\ info[t] \in Nat \cup {Nil}
      BY <1>19 DEF TypeOK
    <3>3. CASE entry' = entry
      BY <3>3
    <3>4. CASE entry' = [entry EXCEPT ![ref[t]].data = buf[t], ![ref[t]].lastErr = "",
                                      ![ref[t]].torn = TRUE]
      BY ONLY <3>2, <3>4 DEF CachedFile
    <3> QED
      BY <3>1, <3>3, <3>4
  <2>2. UNCHANGED <<files, mu, subscribed, at, ref>>
    BY <1>19 DEF RestatChanged
  <2>3. Findable(s)
    BY <2>2 DEF EveryWatchHasAnEntry
  <2> QED
    BY <1>0, <2>1, <2>2, <2>3 DEF TypeOK, LocalInv, Local, Procs
<1>20. ASSUME NEW t \in Procs, RestatStable(t) PROVE Findable(s)'
  <2>1. \A e \in Entries : entry'[e].watched = entry[e].watched
    <3>1. entry' = [entry EXCEPT ![ref[t]].data = buf[t], ![ref[t]].loaded = info[t],
                                  ![ref[t]].lastErr = "", ![ref[t]].torn = FALSE]
      BY <1>20 DEF RestatStable
    <3>2. /\ entry \in [Entries -> CachedFile]
          /\ buf[t] \in Nat \cup {Nil} /\ info[t] \in Nat \cup {Nil}
      BY <1>20 DEF TypeOK
    <3>3. ASSUME NEW e \in Entries PROVE entry'[e].watched = entry[e].watched
      <4>1. [entry EXCEPT ![ref[t]].data = buf[t], ![ref[t]].loaded = info[t],
                          ![ref[t]].lastErr = "", ![ref[t]].torn = FALSE][e].watched
              = entry[e].watched
        BY ONLY ZenonT(60), <3>2, <3>3 DEF CachedFile
      <4> QED
        BY <3>1, <4>1
    <3> QED
      BY <3>3
  <2>2. UNCHANGED <<files, mu, subscribed, at, ref>>
    BY <1>20 DEF RestatStable
  <2>3. Findable(s)
    BY <2>2 DEF EveryWatchHasAnEntry
  <2> QED
    BY <1>0, <2>1, <2>2, <2>3 DEF TypeOK, LocalInv, Local, Procs
<1>21. ASSUME NEW t \in Procs, Unlock(t) PROVE Findable(s)'
  <2>1. mu = t /\ s \in subscribed /\ files' = files
    BY <1>21, <1>0 DEF Unlock
  <2>2. files[s] # Nil /\ entry[files[s]].watched
    BY <1>21, <2>1 DEF Unlock, New, EveryWatchHasAnEntry
  <2>3. files[s] \in Entries /\ Live(files[s], files, ref')
    BY <2>1, <2>2 DEF TypeOK, Live
  <2>4. entry'[files[s]] = entry[files[s]]
    BY <1>21, <2>3 DEF Unlock, Collect
  <2> QED
    BY <2>1, <2>2, <2>4
<1>22. ASSUME NEW t \in Procs, Publish(t) PROVE Findable(s)'
  <2>1. /\ mu = t /\ s \in subscribed /\ t \in Requests /\ files[at[t]] = Nil
        /\ at[t] \in Paths /\ ref[t] \in Entries
        /\ files' = [files EXCEPT ![at[t]] = ref[t]] /\ entry' = entry
    BY <1>22, <1>0 DEF Publish, New, LocalInv, Local
  <2>2. Findable(s)
    BY <2>1 DEF EveryWatchHasAnEntry
  <2> QED
    BY <2>1, <2>2, ConstantsAssumption DEF TypeOK
<1>23. ASSUME NEW t \in Procs, NEW v \in Paths, PublishEvicting(t, v) PROVE Findable(s)'
  <2>1. /\ mu = t /\ t \in Requests /\ files[at[t]] = Nil
        /\ at[t] \in Paths /\ ref[t] \in Entries /\ files[v] \in Entries /\ v # at[t]
        /\ files' = [files EXCEPT ![v] = Nil, ![at[t]] = ref[t]]
    BY <1>23, <1>0, ConstantsAssumption DEF PublishEvicting, New, LocalInv, Local,
       Cached, TypeOK
  <2>2. s \in subscribed /\ s # v /\ Findable(s)
    BY <1>23, <2>1 DEF PublishEvicting, EveryWatchHasAnEntry
  <2> DEFINE e == files'[s]
  <2>3. e \in Entries /\ e # files[v] /\ entry[e].watched
    BY <2>1, <2>2, ConstantsAssumption DEF TypeOK, PublishedInv, Cached
  <2>4. Live(e, files', ref')
    BY <2>2, <2>3 DEF TypeOK, Live
  <2>5. entry'[e] = entry[e]
    BY <1>23, <2>1, <2>3, <2>4 DEF PublishEvicting, Collect, TypeOK
  <2> QED
    BY <2>3, <2>5, ConstantsAssumption
<1>24. ASSUME NEW p \in Paths, HubForgets(p) PROVE Findable(s)'
  BY <1>0, ConstantsAssumption, <1>24 DEF HubForgets, TypeOK, Procs, Cached, New,
     PublishedInv, EveryWatchHasAnEntry
<1>25. ASSUME NEW p \in Paths, TargetsFor(p) PROVE Findable(s)'
  BY <1>0, ConstantsAssumption, <1>25 DEF TargetsFor, TypeOK, Procs, Cached, New,
     PublishedInv, EveryWatchHasAnEntry
<1>26. ASSUME NEW p \in Paths, ScheduleReload(p) PROVE Findable(s)'
  BY <1>0, ConstantsAssumption, <1>26 DEF ScheduleReload, TypeOK, Procs, Cached, New,
     PublishedInv, EveryWatchHasAnEntry
<1>27. ASSUME NEW w \in Workers, TimerFires(w) PROVE Findable(s)'
  BY <1>0, ConstantsAssumption, <1>27 DEF TimerFires, TypeOK, Procs, Cached, New,
     PublishedInv, EveryWatchHasAnEntry
<1>28. ASSUME NEW w \in Workers, ForgetTimer(w) PROVE Findable(s)'
  BY <1>0, ConstantsAssumption, <1>28 DEF ForgetTimer, TypeOK, Procs, Cached, New,
     PublishedInv, EveryWatchHasAnEntry
<1>29. ASSUME NEW w \in Workers, LookupForReload(w) PROVE Findable(s)'
  BY <1>0, ConstantsAssumption, <1>29 DEF LookupForReload, TypeOK, Procs, Cached, New,
     PublishedInv, EveryWatchHasAnEntry
<1>30. ASSUME NEW w \in Workers, LockForReload(w) PROVE Findable(s)'
  BY <1>0, ConstantsAssumption, <1>30 DEF LockForReload, TypeOK, Procs, Cached, New,
     PublishedInv, EveryWatchHasAnEntry
<1>31. ASSUME Close PROVE Findable(s)'
  BY <1>0, ConstantsAssumption, <1>31 DEF Close, TypeOK, Procs, Cached, New,
     PublishedInv, EveryWatchHasAnEntry
<1>32. ASSUME StopTimers PROVE Findable(s)'
  BY <1>0, ConstantsAssumption, <1>32 DEF StopTimers, TypeOK, Procs, Cached, New,
     PublishedInv, EveryWatchHasAnEntry
<1>33. ASSUME UnsubscribeAll PROVE Findable(s)'
  BY <1>0, ConstantsAssumption, <1>33 DEF UnsubscribeAll, TypeOK, Procs, Cached, New,
     PublishedInv, EveryWatchHasAnEntry
<1>34. ASSUME UNCHANGED vars PROVE Findable(s)'
  BY <1>0, ConstantsAssumption, <1>34 DEF vars, TypeOK, Procs, Cached, New,
     PublishedInv, EveryWatchHasAnEntry
<1> QED
  BY <1>1, <1>2, <1>c, <1>3, <1>4, <1>5, <1>6, <1>7, <1>8, <1>9, <1>10, <1>11, <1>12, <1>13,
     <1>14, <1>15, <1>16, <1>17, <1>18, <1>19, <1>20, <1>21, <1>22, <1>23, <1>24, <1>25,
     <1>26, <1>27, <1>28, <1>29, <1>30, <1>31, <1>32, <1>33, <1>34 DEF Next, FileSystem,
     Hub, Cleanup, Lookup, Lock, Watch, Refresh, Leave, Reload, Procs

\* No step undoes what Cleanup did.
LEMMA CleanupStep ==
    ASSUME TypeOK, LocalInv, LockInv, PublishedInv, EveryWatchHasAnEntry, CleanupInv, [Next]_vars
    PROVE  CleanupInv'
<1>0. \A x \in Procs : pc[x] \in Held <=> mu = x
  BY DEF LockInv
<1> USE DEF fsVars, hubVars, threadVars, Held, Goto, Return, EndRefresh, LeaveWithNewEntry,
   Pending
<1>1. ASSUME NEW p \in Paths, NEW k \in Kinds, Deploy(p, k) PROVE CleanupInv'
  BY <1>0, ConstantsAssumption, <1>1 DEF Deploy, TypeOK, Procs, CleanupInv, closed
<1>2. ASSUME NEW p \in Paths, QuietRewrite(p) PROVE CleanupInv'
  BY <1>0, ConstantsAssumption, <1>2 DEF QuietRewrite, TypeOK, Procs, CleanupInv, closed
<1>c. ASSUME NEW p \in Paths, Chmod(p) PROVE CleanupInv'
  BY <1>0, ConstantsAssumption, <1>c DEF Chmod, TypeOK, Procs, CleanupInv, closed
<1>3. ASSUME NEW p \in Paths, MoveAway(p) PROVE CleanupInv'
  BY <1>0, ConstantsAssumption, <1>3 DEF MoveAway, TypeOK, Procs, CleanupInv, closed
<1>4. ASSUME NEW p \in Paths, MoveBack(p) PROVE CleanupInv'
  BY <1>0, ConstantsAssumption, <1>4 DEF MoveBack, TypeOK, Procs, CleanupInv, closed
<1>5. ASSUME Tick PROVE CleanupInv'
  BY <1>0, ConstantsAssumption, <1>5 DEF Tick, TypeOK, Procs, CleanupInv, closed
<1>6. ASSUME NEW t \in Requests, NEW p \in Paths, LookupMiss(t, p) PROVE CleanupInv'
  BY <1>0, ConstantsAssumption, <1>6 DEF LookupMiss, TypeOK, Procs, CleanupInv, closed
<1>7. ASSUME NEW t \in Requests, NEW p \in Paths, LookupDue(t, p) PROVE CleanupInv'
  BY <1>0, ConstantsAssumption, <1>7 DEF LookupDue, TypeOK, Procs, CleanupInv, closed
<1>8. ASSUME NEW t \in Requests, LockForCheck(t) PROVE CleanupInv'
  BY <1>0, ConstantsAssumption, <1>8 DEF LockForCheck, TypeOK, Procs, CleanupInv, closed
<1>9. ASSUME NEW t \in Requests, LockFindsEntry(t) PROVE CleanupInv'
  BY <1>0, ConstantsAssumption, <1>9 DEF LockFindsEntry, TypeOK, Procs, CleanupInv,
     closed
<1>10. ASSUME NEW t \in Requests, LockForNewEntry(t) PROVE CleanupInv'
  BY <1>0, ConstantsAssumption, <1>10 DEF LockForNewEntry, TypeOK, Procs, CleanupInv,
     closed
<1>11. ASSUME NEW t \in Requests, CheckClosed(t) PROVE CleanupInv'
  BY <1>0, ConstantsAssumption, <1>11 DEF CheckClosed, TypeOK, Procs, CleanupInv, closed
<1>12. ASSUME NEW t \in Requests, Subscribe(t) PROVE CleanupInv'
  BY <1>0, ConstantsAssumption, <1>12 DEF Subscribe, TypeOK, Procs, CleanupInv, closed
<1>13. ASSUME NEW t \in Procs, StatMissing(t) PROVE CleanupInv'
  BY <1>0, ConstantsAssumption, <1>13 DEF StatMissing, TypeOK, Procs, CleanupInv, closed
<1>14. ASSUME NEW t \in Procs, StatFails(t) PROVE CleanupInv'
  BY <1>0, ConstantsAssumption, <1>14 DEF StatFails, TypeOK, Procs, CleanupInv, closed
<1>15. ASSUME NEW t \in Procs, StatUnchanged(t) PROVE CleanupInv'
  BY <1>0, ConstantsAssumption, <1>15 DEF StatUnchanged, TypeOK, Procs, CleanupInv,
     closed
<1>16. ASSUME NEW t \in Procs, StatChanged(t) PROVE CleanupInv'
  BY <1>0, ConstantsAssumption, <1>16 DEF StatChanged, TypeOK, Procs, CleanupInv, closed
<1>17. ASSUME NEW t \in Procs, LoadFails(t) PROVE CleanupInv'
  BY <1>0, ConstantsAssumption, <1>17 DEF LoadFails, TypeOK, Procs, CleanupInv, closed
<1>18. ASSUME NEW t \in Procs, LoadFile(t) PROVE CleanupInv'
  BY <1>0, ConstantsAssumption, <1>18 DEF LoadFile, TypeOK, Procs, CleanupInv, closed
<1>19. ASSUME NEW t \in Procs, RestatChanged(t) PROVE CleanupInv'
  BY <1>0, ConstantsAssumption, <1>19 DEF RestatChanged, TypeOK, Procs, CleanupInv,
     closed
<1>20. ASSUME NEW t \in Procs, RestatStable(t) PROVE CleanupInv'
  BY <1>0, ConstantsAssumption, <1>20 DEF RestatStable, TypeOK, Procs, CleanupInv,
     closed
<1>21. ASSUME NEW t \in Procs, Unlock(t) PROVE CleanupInv'
  BY <1>0, ConstantsAssumption, <1>21 DEF Unlock, TypeOK, Procs, CleanupInv, closed
<1>22. ASSUME NEW t \in Procs, Publish(t) PROVE CleanupInv'
  BY <1>0, ConstantsAssumption, <1>22 DEF Publish, TypeOK, Procs, CleanupInv, closed
<1>23. ASSUME NEW t \in Procs, NEW v \in Paths, PublishEvicting(t, v) PROVE CleanupInv'
  BY <1>0, ConstantsAssumption, <1>23 DEF PublishEvicting, TypeOK, Procs, CleanupInv,
     closed
<1>24. ASSUME NEW p \in Paths, HubForgets(p) PROVE CleanupInv'
  BY <1>0, ConstantsAssumption, <1>24 DEF HubForgets, TypeOK, Procs, CleanupInv, closed
<1>25. ASSUME NEW p \in Paths, TargetsFor(p) PROVE CleanupInv'
  BY <1>0, ConstantsAssumption, <1>25 DEF TargetsFor, TypeOK, Procs, CleanupInv, closed
<1>26. ASSUME NEW p \in Paths, ScheduleReload(p) PROVE CleanupInv'
  BY <1>0, ConstantsAssumption, <1>26 DEF ScheduleReload, TypeOK, Procs, CleanupInv,
     closed
<1>27. ASSUME NEW w \in Workers, TimerFires(w) PROVE CleanupInv'
  BY <1>0, ConstantsAssumption, <1>27 DEF TimerFires, TypeOK, Procs, CleanupInv, closed
<1>28. ASSUME NEW w \in Workers, ForgetTimer(w) PROVE CleanupInv'
  BY <1>0, ConstantsAssumption, <1>28 DEF ForgetTimer, TypeOK, Procs, CleanupInv, closed
<1>29. ASSUME NEW w \in Workers, LookupForReload(w) PROVE CleanupInv'
  BY <1>0, ConstantsAssumption, <1>29 DEF LookupForReload, TypeOK, Procs, CleanupInv,
     closed
<1>30. ASSUME NEW w \in Workers, LockForReload(w) PROVE CleanupInv'
  BY <1>0, ConstantsAssumption, <1>30 DEF LockForReload, TypeOK, Procs, CleanupInv,
     closed
<1>31. ASSUME Close PROVE CleanupInv'
  BY <1>0, ConstantsAssumption, <1>31 DEF Close, TypeOK, Procs, CleanupInv, closed
<1>32. ASSUME StopTimers PROVE CleanupInv'
  BY <1>0, ConstantsAssumption, <1>32 DEF StopTimers, TypeOK, Procs, CleanupInv, closed
<1>33. ASSUME UnsubscribeAll PROVE CleanupInv'
  <2>1. \A s \in subscribed : files[s] # Nil /\ entry[files[s]].watched
    BY <1>33, ConstantsAssumption
    DEF UnsubscribeAll, EveryWatchHasAnEntry, Findable, AboutToPublish, Procs
  <2>2. subscribed' = {}
    BY <1>33, <2>1 DEF UnsubscribeAll, TypeOK, Cached
  <2> QED
    BY <1>33, <1>0, <2>2, ConstantsAssumption DEF UnsubscribeAll, CleanupInv,
       threadVars, Procs
<1>34. ASSUME UNCHANGED vars PROVE CleanupInv'
  BY <1>0, ConstantsAssumption, <1>34 DEF vars, TypeOK, Procs, CleanupInv, closed
<1> QED
  BY <1>1, <1>2, <1>c, <1>3, <1>4, <1>5, <1>6, <1>7, <1>8, <1>9, <1>10, <1>11, <1>12, <1>13,
     <1>14, <1>15, <1>16, <1>17, <1>18, <1>19, <1>20, <1>21, <1>22, <1>23, <1>24, <1>25,
     <1>26, <1>27, <1>28, <1>29, <1>30, <1>31, <1>32, <1>33, <1>34 DEF Next, FileSystem,
     Hub, Cleanup, Lookup, Lock, Watch, Refresh, Leave, Reload, Procs

\* The invariant is inductive.
LEMMA Inductive == Spec => [](TypeOK /\ LocalInv /\ IndInv)
<1>1. Init => IndInv
  BY ConstantsAssumption
  DEF Init, IndInv, LockInv, LocalInv, Local, PublishedInv, EveryWatchHasAnEntry,
      CleanupInv, Cached, Held, Procs
<1>2. TypeOK /\ LocalInv /\ IndInv /\ [Next]_vars => IndInv'
  BY LockStep, LocalStep, PublishedStep, WatchStep, CleanupStep DEF IndInv
<1> QED
  BY <1>1, <1>2, Typing, PTL DEF Spec

\* Every subscription in the shared watcher can be found again, by eviction and by
\* Cleanup, whatever requests were waiting for fh.mu when its entry was evicted.
THEOREM WatchesHaveEntries == Spec => []EveryWatchHasAnEntry
<1>1. IndInv => EveryWatchHasAnEntry
  BY DEF IndInv
<1> QED
  BY <1>1, Inductive, PTL

\* A handler Cleanup has returned for is never subscribed again.
THEOREM CleanupIsFinal == Spec => []NoSubscriptionAfterCleanup
<1>1. IndInv => NoSubscriptionAfterCleanup
  BY DEF IndInv, CleanupInv, NoSubscriptionAfterCleanup
<1> QED
  BY <1>1, Inductive, PTL

\* Only the hub's loop arms a timer, and only Cleanup and the timer itself end it.
LEMMA TimerStep ==
    ASSUME TypeOK, LocalInv, TimerInv, [Next]_vars
    PROVE  TimerInv'
<1> USE DEF fsVars, hubVars, threadVars, Goto, Return, EndRefresh, LeaveWithNewEntry,
   Pending, TimerInv
<1>1. CASE FileSystem \/ Tick \/ UNCHANGED vars
  BY <1>1 DEF FileSystem, Deploy, QuietRewrite, Chmod, MoveAway, MoveBack, Tick, vars
<1>2. ASSUME NEW t \in Requests, (\E p \in Paths : Lookup(t, p)) \/ Lock(t) \/ Watch(t)
      PROVE  TimerInv'
  <2>1. UNCHANGED <<debounce, cleanup>> /\ pc[t] # "armed" /\ pc'[t] # "armed"
    BY <1>2 DEF TypeOK, Procs, Lookup, LookupMiss, LookupDue, Lock, LockForCheck,
       LockFindsEntry, LockForNewEntry, Watch, CheckClosed, Subscribe
  <2>2. \A w \in Workers : w # t => pc'[w] = pc[w] /\ at'[w] = at[w]
    BY <1>2 DEF TypeOK, Procs, Lookup, LookupMiss, LookupDue, Lock, LockForCheck,
       LockFindsEntry, LockForNewEntry, Watch, CheckClosed, Subscribe
  <2> QED
    BY <2>1, <2>2
<1>3. ASSUME NEW t \in Procs, Refresh(t) \/ Leave(t) PROVE TimerInv'
  <2>1. UNCHANGED <<debounce, cleanup>> /\ \E l \in {"load", "restat", "unlock", "idle"} : Goto(t, l)
    <3>1. CASE Refresh(t)
      BY <3>1 DEF Refresh, StatMissing, StatFails, StatUnchanged, StatChanged,
         LoadFails, LoadFile, RestatChanged, RestatStable
    <3>2. CASE Leave(t)
      BY <3>2 DEF Leave, Unlock, Publish, PublishEvicting
    <3> QED
      BY <1>3, <3>1, <3>2
  <2>2. \A w \in Workers : w # t => at'[w] = at[w]
    <3>1. CASE Refresh(t)
      BY <3>1 DEF TypeOK, Procs, Refresh, StatMissing, StatFails, StatUnchanged,
         StatChanged, LoadFails, LoadFile, RestatChanged, RestatStable
    <3>2. CASE Leave(t)
      BY <3>2 DEF TypeOK, Procs, Leave, Unlock, Publish, PublishEvicting
    <3> QED
      BY <1>3, <3>1, <3>2
  <2> QED
    BY <2>1, <2>2 DEF TypeOK, Procs
<1>4. ASSUME NEW w \in Workers, TimerFires(w) \/ LookupForReload(w) \/ LockForReload(w)
      PROVE  TimerInv'
  <2>1. UNCHANGED <<debounce, cleanup>> /\ pc'[w] # "armed"
    BY <1>4 DEF TypeOK, Procs, TimerFires, LookupForReload, LockForReload
  <2>2. \A x \in Workers : x # w => pc'[x] = pc[x] /\ at'[x] = at[x]
    BY <1>4 DEF TypeOK, Procs, TimerFires, LookupForReload, LockForReload
  <2> QED
    BY <2>1, <2>2
<1>5. ASSUME NEW w \in Workers, ForgetTimer(w) PROVE TimerInv'
  BY <1>5 DEF ForgetTimer, TypeOK, Procs, LocalInv, Local
<1>6. ASSUME NEW p \in Paths, HubForgets(p) \/ TargetsFor(p) PROVE TimerInv'
  BY <1>6 DEF HubForgets, TargetsFor
<1>7. ASSUME NEW p \in Paths, ScheduleReload(p) PROVE TimerInv'
  <2>1. CASE UNCHANGED <<debounce, pc, at>>
    BY <1>7, <2>1 DEF ScheduleReload
  <2>2. CASE ~ UNCHANGED <<debounce, pc, at>>
    <3>1. PICK w \in Workers :
            /\ pc[w] = "idle" /\ Goto(w, "armed")
            /\ at' = [at EXCEPT ![w] = p] /\ debounce' = [debounce EXCEPT ![p] = w]
      BY <1>7, <2>2 DEF ScheduleReload
    <3>2. /\ cleanup' = "running"
          /\ debounce[p] = Nil \/ ~Pending(debounce[p])
      BY <1>7, <2>2 DEF ScheduleReload, TypeOK, closed
    <3>3. \A x \in Workers : Pending(x) => at[x] # p
      BY <3>2, ConstantsAssumption DEF TypeOK
    <3> QED
      BY <3>1, <3>2, <3>3 DEF TypeOK, Procs
  <2> QED
    BY <2>1, <2>2
<1>8. CASE Close
  BY <1>8 DEF Close
<1>9. CASE StopTimers
  <2>1. \A w \in Workers : Pending(w) => at[w] \in Paths /\ debounce[at[w]] = w
    BY DEF LocalInv, Local, Procs
  <2>2. \A w \in Workers : ~Pending(w)'
    BY <1>9, <2>1 DEF StopTimers, TypeOK, Procs
  <2> QED
    BY <2>2
<1>10. CASE UnsubscribeAll
  BY <1>10 DEF UnsubscribeAll
<1> QED
  BY <1>1, <1>2, <1>3, <1>4, <1>5, <1>6, <1>7, <1>8, <1>9, <1>10 DEF Next, Hub, Cleanup,
     Reload

\* Once Cleanup has drained the handler no watcher event starts a reload of it: every
\* timer that was pending is stopped and none is armed after.
THEOREM NoReloadAfterCleanup == Spec => []NoTimerAfterCleanup
<1>1. Init => TimerInv
  BY DEF Init, TimerInv, Pending, Procs
<1>2. TypeOK /\ LocalInv /\ TimerInv /\ [Next]_vars => TimerInv'
  BY TimerStep
<1>3. TimerInv => NoTimerAfterCleanup
  BY DEF TimerInv, NoTimerAfterCleanup
<1> QED
  BY <1>1, <1>2, <1>3, Typing, PTL DEF Spec

\* Only publishing a new entry changes the map.
LEMMA FilesStep ==
    ASSUME [Next]_vars,
           ~ \E t \in Procs : Publish(t) \/ \E v \in Paths : PublishEvicting(t, v)
    PROVE  files' = files
<1> USE DEF fsVars, hubVars, threadVars, Return, EndRefresh
<1>1. CASE FileSystem \/ Tick \/ Hub \/ Cleanup
  BY <1>1 DEF FileSystem, Deploy, QuietRewrite, Chmod, MoveAway, MoveBack, Tick, Hub, HubForgets,
     TargetsFor, ScheduleReload, Cleanup, Close, StopTimers, UnsubscribeAll
<1>2. ASSUME NEW t \in Requests, (\E p \in Paths : Lookup(t, p)) \/ Lock(t) \/ Watch(t)
      PROVE  files' = files
  BY <1>2 DEF Lookup, LookupMiss, LookupDue, Lock, LockForCheck, LockFindsEntry,
     LockForNewEntry, Watch, CheckClosed, Subscribe
<1>3. ASSUME NEW w \in Workers, Reload(w) \/ LockForReload(w) PROVE files' = files
  BY <1>3 DEF Reload, TimerFires, ForgetTimer, LookupForReload, LockForReload
<1>4. ASSUME NEW t \in Procs, Refresh(t) \/ Unlock(t) PROVE files' = files
  BY <1>4 DEF Refresh, StatMissing, StatFails, StatUnchanged, StatChanged, LoadFails,
     LoadFile, RestatChanged, RestatStable, Unlock
<1>5. CASE UNCHANGED vars
  BY <1>5 DEF vars
<1> QED
  BY <1>1, <1>2, <1>3, <1>4, <1>5 DEF Next, Leave

\* Publishing keeps the cache within its limit.
LEMMA BoundStep ==
    ASSUME TypeOK, LocalInv, CacheBounded, [Next]_vars
    PROVE  CacheBounded'
<1>0. IsFiniteSet(Cached) /\ Cardinality(Cached) \in Nat /\ Cardinality(Cached) <= MaxCached
  BY ConstantsAssumption, FS_Subset, FS_CardinalityType DEF Cached, CacheBounded
<1>1. ASSUME NEW t \in Procs, Publish(t) PROVE CacheBounded'
  <2>1. Cached' = Cached \cup {at[t]}
    BY <1>1, ConstantsAssumption
    DEF Publish, Cached, New, TypeOK, LocalInv, Local, Held
  <2>2. Cardinality(Cached) < MaxCached
    BY <1>1 DEF Publish
  <2>3. Cardinality(Cached') \in {Cardinality(Cached), Cardinality(Cached) + 1}
    BY <1>0, <2>1, FS_AddElement
  <2> QED
    BY <1>0, <2>2, <2>3, ConstantsAssumption DEF CacheBounded
<1>2. ASSUME NEW t \in Procs, NEW v \in Paths, PublishEvicting(t, v) PROVE CacheBounded'
  <2>1. Cached' = (Cached \ {v}) \cup {at[t]} /\ v \in Cached
    BY <1>2, ConstantsAssumption
    DEF PublishEvicting, Cached, New, TypeOK, LocalInv, Local, Held
  <2>2. /\ IsFiniteSet(Cached \ {v})
        /\ Cardinality(Cached \ {v}) = Cardinality(Cached) - 1
    BY <1>0, <2>1, FS_RemoveElement
  <2>3. Cardinality(Cached') \in {Cardinality(Cached) - 1, Cardinality(Cached) - 1 + 1}
    BY <2>1, <2>2, FS_AddElement
  <2> QED
    BY <1>0, <2>3, ConstantsAssumption DEF CacheBounded
<1>3. CASE files' = files
  BY <1>3 DEF CacheBounded, Cached
<1> QED
  BY <1>1, <1>2, <1>3, FilesStep

\* However many requests race to add their paths, the cache never outgrows its limit.
THEOREM CacheStaysBounded == Spec => []CacheBounded
<1>1. Init => CacheBounded
  <2> SUFFICES ASSUME Init PROVE CacheBounded
    OBVIOUS
  <2>1. Cached = {}
    BY DEF Init, Cached
  <2> QED
    BY <2>1, FS_EmptySet, ConstantsAssumption DEF CacheBounded
<1>2. TypeOK /\ LocalInv /\ CacheBounded /\ [Next]_vars => CacheBounded'
  BY BoundStep
<1> QED
  BY <1>1, <1>2, Typing, PTL DEF Spec
=============================================================================

--------------------------- MODULE RuleCacheProofs ---------------------------
(***************************************************************************)
(* What FileHandler's entries hold, for all sets of paths, requests and    *)
(* workers, any cache size and any number of deploys: which steps replace  *)
(* the rules of an entry and by what.  And that FileHandler implements     *)
(* RuleCache: every step of a goroutine, of the hub, of Cleanup and of the *)
(* file system is a step of the abstract cache, or none that it sees.      *)
(***************************************************************************)
EXTENDS FileHandlerProofs

(***************************************************************************)
(* What more is invariant of the entries goroutines refer to.              *)
(***************************************************************************)
\* An entry serves one path for as long as anybody refers to it: an evicted one
\* is not published under another path while a goroutine still works on it.
OwnerInv == \A t \in Procs : ref[t] # Nil =>
    /\ pc[t] \in Held \cup {"check", "reload"}
    /\ \A p \in Paths : files[p] = ref[t] => at[t] = p
    /\ \A u \in Procs : ref[u] = ref[t] => at[u] = at[t]

\* Data is in a buffer only between the read and the second stat, and a new
\* entry has none before that.
BufferInv == \A t \in Procs :
    /\ buf[t] # Nil <=> pc[t] = "restat"
    /\ pc[t] \in Held \ {"unlock"} /\ New(t) => entry[ref[t]].data = Nil

\* Unless an old file can be put back, no version or stamp is ahead of the file's,
\* in an entry or in the hands of the goroutine that loads the file, and no rules
\* are older than the version recorded with them.
AtMost(a, b) == a # Nil /\ b # Nil => a <= b

Serves(e, p) == files[p] = e \/ \E t \in Procs : ref[t] = e /\ at[t] = p

FilesInv == \A p \in Paths :
    /\ file[p].stamp <= file[p].ver /\ file[p].ver <= deploys[p]
    /\ backup[p] = Nil

NotAhead(e, p) ==
    /\ AtMost(entry[e].data, file[p].ver)
    /\ AtMost(entry[e].loaded, file[p].stamp)
    /\ AtMost(entry[e].loaded, entry[e].data)

LoadInv(t) ==
    /\ pc[t] = "load" => info[t] <= file[at[t]].stamp
    /\ pc[t] = "restat" =>
         /\ info[t] <= buf[t] /\ buf[t] <= file[at[t]].ver
         /\ AtMost(entry[ref[t]].data, buf[t]) /\ AtMost(entry[ref[t]].loaded, buf[t])

VersionInv ==
    /\ FilesInv
    /\ \A p \in Paths, e \in Entries : Serves(e, p) => NotAhead(e, p)
    /\ \A t \in Procs : LoadInv(t)

\* The step leaves the rules of an entry, and the version recorded with them, alone.
Keeps(e) == entry'[e].data = entry[e].data /\ entry'[e].loaded = entry[e].loaded

\* The steps of refreshLocked that replace what an entry holds, and by what.
Clears(t, e) ==
    /\ StatMissing(t) /\ ref[t] = e
    /\ entry'[e].data = Nil /\ entry'[e].loaded = entry[e].loaded

StoresFirst(t, e) ==
    /\ RestatChanged(t) /\ ref[t] = e /\ entry[e].data = Nil
    /\ entry'[e].data = buf[t] /\ entry'[e].loaded = entry[e].loaded

Stores(t, e) ==
    /\ RestatStable(t) /\ ref[t] = e
    /\ entry'[e].data = buf[t] /\ entry'[e].loaded = info[t]

RulesStep(e) ==
    Keeps(e) \/ \E t \in Procs : Clears(t, e) \/ StoresFirst(t, e) \/ Stores(t, e)

\* The rules of an entry somebody refers to, before and after the step, are replaced by
\* a stat that finds the file gone, by a load with nothing to lose, and by a load the
\* file did not change during, of a goroutine that works on the entry: by nothing else.
LEMMA EntryStep ==
    ASSUME TypeOK, LocalInv, [Next]_vars,
           NEW e \in Entries, Live(e, files, ref), Live(e, files, ref)'
    PROVE  RulesStep(e)
<1>0. /\ entry \in [Entries -> CachedFile]
      /\ \A t \in Procs : buf[t] \in Nat \cup {Nil} /\ info[t] \in Nat \cup {Nil}
  BY DEF TypeOK
<1>k. ASSUME entry' = entry PROVE Keeps(e)
  BY <1>k DEF Keeps
<1>g. Keeps(e) => RulesStep(e)
  BY DEF RulesStep
<1>1. CASE FileSystem \/ Hub
  BY <1>1, <1>k, <1>g DEF FileSystem, Deploy, QuietRewrite, Chmod, MoveAway, MoveBack, Hub,
     HubForgets, TargetsFor, ScheduleReload
<1>2. CASE Tick
  <2>1. \/ entry'[e] = entry[e]
        \/ entry'[e] = [entry[e] EXCEPT !.age = @ + 1]
    BY <1>2 DEF Tick
  <2> QED
    BY <2>1, <1>0, <1>g DEF Keeps, CachedFile
<1>3. CASE Cleanup
  <2>1. \/ entry'[e] = entry[e]
        \/ entry'[e] = [entry[e] EXCEPT !.watched = FALSE]
    BY <1>3, <1>0 DEF Cleanup, Close, StopTimers, UnsubscribeAll
  <2> QED
    BY <2>1, <1>0, <1>g DEF Keeps, CachedFile
<1>4. ASSUME NEW t \in Requests, \E p \in Paths : Lookup(t, p) PROVE RulesStep(e)
  <2>1. \/ entry'[e] = entry[e]
        \/ entry'[e] = [entry[e] EXCEPT !.age = 0]
    BY <1>4, <1>0 DEF Lookup, LookupMiss, LookupDue
  <2> QED
    BY <2>1, <1>0, <1>g DEF Keeps, CachedFile
<1>5. ASSUME NEW t \in Requests, Lock(t) PROVE RulesStep(e)
  <2>1. CASE LockForCheck(t)
    BY <2>1, <1>k, <1>g DEF LockForCheck, Collect, Keeps, Live, Return
  <2>2. CASE LockFindsEntry(t)
    BY <2>2, <1>k, <1>g DEF LockFindsEntry
  <2>3. CASE LockForNewEntry(t)
    <3>1. PICK x \in FreeEntries, a \in Ages : entry' = [entry EXCEPT ![x] = [Blank EXCEPT !.age = a]]
      BY <2>3 DEF LockForNewEntry
    <3>2. x # e
      BY <3>1 DEF FreeEntries
    <3> QED
      BY <3>1, <3>2, <1>0, <1>g DEF Keeps
  <2> QED
    BY <1>5, <2>1, <2>2, <2>3 DEF Lock
<1>6. ASSUME NEW t \in Requests, Watch(t) PROVE RulesStep(e)
  <2>1. \/ entry'[e] = entry[e]
        \/ \E ok \in BOOLEAN : entry'[e] = [entry[e] EXCEPT !.watched = ok]
    BY <1>6, <1>0 DEF Watch, CheckClosed, Subscribe
  <2> QED
    BY <2>1, <1>0, <1>g DEF Keeps, CachedFile
<1>7. ASSUME NEW w \in Workers, Reload(w) PROVE RulesStep(e)
  BY <1>7, <1>k, <1>g DEF Reload, TimerFires, ForgetTimer, LookupForReload
<1>8. ASSUME NEW w \in Workers, LockForReload(w) PROVE RulesStep(e)
  <2>1. \/ entry'[e] = entry[e]
        \/ entry'[e] = [entry[e] EXCEPT !.age = 0]
    BY <1>8, <1>0 DEF LockForReload
  <2> QED
    BY <2>1, <1>0, <1>g DEF Keeps, CachedFile
<1>9. ASSUME NEW t \in Procs, StatMissing(t) PROVE RulesStep(e)
  <2>1. entry' = [entry EXCEPT ![ref[t]].data = Nil, ![ref[t]].lastErr = "",
                               ![ref[t]].torn = FALSE]
    BY <1>9 DEF StatMissing
  <2>2. e # ref[t] => Keeps(e)
    BY <2>1, <1>0 DEF Keeps
  <2>3. ASSUME e = ref[t] PROVE entry'[e].data = Nil /\ entry'[e].loaded = entry[e].loaded
    <3>1. entry' = [entry EXCEPT ![e].data = Nil, ![e].lastErr = "", ![e].torn = FALSE]
      BY <2>1, <2>3
    <3>2. buf[t] \in Nat \cup {Nil} /\ info[t] \in Nat \cup {Nil}
      BY <1>0
    <3> QED
      BY ONLY <1>0, <3>1, <3>2, e \in Entries, ZenonT(60) DEF CachedFile
  <2> QED
    BY <1>9, <2>2, <2>3, <1>g DEF RulesStep, Clears
<1>10. ASSUME NEW t \in Procs, StatFails(t) \/ LoadFails(t) PROVE RulesStep(e)
  <2>1. \/ entry'[e] = entry[e]
        \/ \E s \in {"stat", "load"} : entry'[e] = [entry[e] EXCEPT !.lastErr = s]
    BY <1>10, <1>0 DEF StatFails, LoadFails
  <2> QED
    BY <2>1, <1>0, <1>g DEF Keeps, CachedFile
<1>11. ASSUME NEW t \in Procs, StatUnchanged(t) \/ StatChanged(t) \/ LoadFile(t) PROVE RulesStep(e)
  BY <1>11, <1>k, <1>g DEF StatUnchanged, StatChanged, LoadFile
<1>12. ASSUME NEW t \in Procs, RestatChanged(t) PROVE RulesStep(e)
  <2>1. CASE entry[ref[t]].data # Nil
    BY <1>12, <2>1, <1>k, <1>g DEF RestatChanged
  <2>2. CASE entry[ref[t]].data = Nil
    <3>1. entry' = [entry EXCEPT ![ref[t]].data = buf[t], ![ref[t]].lastErr = "",
                                 ![ref[t]].torn = TRUE]
      BY <1>12, <2>2 DEF RestatChanged
    <3>2. e # ref[t] => Keeps(e)
      BY <3>1, <1>0 DEF Keeps
    <3>3. ASSUME e = ref[t] PROVE entry'[e].data = buf[t] /\ entry'[e].loaded = entry[e].loaded
      <4>1. entry' = [entry EXCEPT ![e].data = buf[t], ![e].lastErr = "", ![e].torn = TRUE]
        BY <3>1, <3>3
      <4>2. buf[t] \in Nat \cup {Nil} /\ info[t] \in Nat \cup {Nil}
        BY <1>0
      <4> QED
        BY ONLY <1>0, <4>1, <4>2, e \in Entries, ZenonT(60) DEF CachedFile
    <3> QED
      BY <1>12, <2>2, <3>2, <3>3, <1>g DEF RulesStep, StoresFirst
  <2> QED
    BY <2>1, <2>2
<1>13. ASSUME NEW t \in Procs, RestatStable(t) PROVE RulesStep(e)
  <2>1. entry' = [entry EXCEPT ![ref[t]].data = buf[t], ![ref[t]].loaded = info[t],
                               ![ref[t]].lastErr = "", ![ref[t]].torn = FALSE]
    BY <1>13 DEF RestatStable
  <2>2. e # ref[t] => Keeps(e)
    BY <2>1, <1>0 DEF Keeps
  <2>3. ASSUME e = ref[t] PROVE entry'[e].data = buf[t] /\ entry'[e].loaded = info[t]
    <3>1. entry' = [entry EXCEPT ![e].data = buf[t], ![e].loaded = info[t],
                           ![e].lastErr = "", ![e].torn = FALSE]
      BY <2>1, <2>3
    <3>2. buf[t] \in Nat \cup {Nil} /\ info[t] \in Nat \cup {Nil}
      BY <1>0
    <3> QED
      BY ONLY <1>0, <3>1, <3>2, e \in Entries, ZenonT(60) DEF CachedFile
  <2> QED
    BY <1>13, <2>2, <2>3, <1>g DEF RulesStep, Stores
<1>14. ASSUME NEW t \in Procs, Unlock(t) \/ Publish(t) PROVE RulesStep(e)
  BY <1>14, <1>k, <1>g DEF Unlock, Publish, Collect, Keeps, Live
<1>15. ASSUME NEW t \in Procs, NEW v \in Paths, PublishEvicting(t, v) PROVE RulesStep(e)
  <2>1. entry'[e] = [entry EXCEPT ![files[v]].watched = FALSE][e]
    BY <1>15 DEF PublishEvicting, Collect, Live
  <2>2. \/ entry'[e] = entry[e]
        \/ entry'[e] = [entry[e] EXCEPT !.watched = FALSE]
    BY <2>1, <1>0
  <2> QED
    BY <2>2, <1>0, <1>g DEF Keeps, CachedFile
<1>16. CASE UNCHANGED vars
  BY <1>16, <1>k, <1>g DEF vars
<1> QED
  <2>1. ASSUME NEW t \in Procs, Refresh(t) PROVE RulesStep(e)
    BY <2>1, <1>9, <1>10, <1>11, <1>12, <1>13 DEF Refresh
  <2>2. ASSUME NEW t \in Procs, Leave(t) PROVE RulesStep(e)
    BY <2>2, <1>14, <1>15 DEF Leave
  <2> QED
    BY <2>1, <2>2, <1>1, <1>2, <1>3, <1>4, <1>5, <1>6, <1>7, <1>8, <1>16 DEF Next

\* A goroutine takes an entry for one path, and no step gives the entry to another one.
LEMMA OwnerStep ==
    ASSUME TypeOK, LocalInv, PublishedInv, OwnerInv, [Next]_vars
    PROVE  OwnerInv'
<1> USE DEF fsVars, hubVars, threadVars, Held, Goto, Return, EndRefresh, LeaveWithNewEntry
<1>0. \A t \in Procs : pc[t] \in {"idle", "miss", "armed", "fired", "lookup"} => ref[t] = Nil
  BY DEF OwnerInv
<1>1. CASE UNCHANGED <<pc, at, ref, files>>
  BY <1>1 DEF OwnerInv
<1>2. CASE FileSystem \/ Tick \/ Close \/ UnsubscribeAll \/ UNCHANGED vars
  BY <1>1, <1>2 DEF FileSystem, Deploy, QuietRewrite, Chmod, MoveAway, MoveBack, Tick, Close,
     UnsubscribeAll, vars
<1>3. ASSUME NEW p \in Paths, HubForgets(p) \/ TargetsFor(p) PROVE OwnerInv'
  BY <1>1, <1>3 DEF HubForgets, TargetsFor
<1>4. ASSUME NEW p \in Paths, ScheduleReload(p) PROVE OwnerInv'
  BY <1>0, <1>4 DEF ScheduleReload, OwnerInv, TypeOK, Procs
<1>5. CASE StopTimers
  BY <1>0, <1>5 DEF StopTimers, Pending, OwnerInv, TypeOK
<1>6. ASSUME NEW t \in Requests, NEW p \in Paths, LookupMiss(t, p) PROVE OwnerInv'
  BY <1>0, <1>6 DEF LookupMiss, OwnerInv, TypeOK, Procs
<1>7. ASSUME NEW t \in Requests, NEW p \in Paths, LookupDue(t, p) PROVE OwnerInv'
  BY <1>0, <1>7 DEF LookupDue, OwnerInv, PublishedInv, Cached, TypeOK, Procs
<1>8. ASSUME NEW t \in Requests, LockForCheck(t) \/ LockFindsEntry(t) PROVE OwnerInv'
  BY <1>0, <1>8 DEF LockForCheck, LockFindsEntry, OwnerInv, TypeOK, Procs
<1>9. ASSUME NEW t \in Requests, LockForNewEntry(t) PROVE OwnerInv'
  <2>1. PICK e \in FreeEntries : ref' = [ref EXCEPT ![t] = e]
    BY <1>9 DEF LockForNewEntry
  <2>2. (\A p \in Paths : files[p] # e) /\ \A u \in Procs : ref[u] # e
    BY <2>1 DEF FreeEntries, Live
  <2>3. UNCHANGED <<files, at>> /\ pc' = [pc EXCEPT ![t] = "watch"]
    BY <1>9 DEF LockForNewEntry
  <2> QED
    BY <2>1, <2>2, <2>3 DEF OwnerInv, TypeOK, Procs
<1>10. ASSUME NEW t \in Requests, Watch(t) PROVE OwnerInv'
  BY <1>10 DEF Watch, CheckClosed, Subscribe, OwnerInv, TypeOK, Procs
<1>11. ASSUME NEW t \in Procs, Refresh(t) PROVE OwnerInv'
  <2>1. UNCHANGED <<files, at, ref>> /\ \E l \in Held : pc' = [pc EXCEPT ![t] = l]
    BY <1>11 DEF Refresh, StatMissing, StatFails, StatUnchanged, StatChanged, LoadFails,
       LoadFile, RestatChanged, RestatStable
  <2> QED
    BY <2>1 DEF OwnerInv, TypeOK
<1>12. ASSUME NEW t \in Procs, Unlock(t) PROVE OwnerInv'
  BY <1>12 DEF Unlock, OwnerInv, TypeOK
<1>13. ASSUME NEW t \in Procs, Publish(t) PROVE OwnerInv'
  BY <1>13 DEF Publish, LocalInv, Local, OwnerInv, TypeOK
<1>14. ASSUME NEW t \in Procs, NEW v \in Paths, PublishEvicting(t, v) PROVE OwnerInv'
  BY <1>14, ConstantsAssumption DEF PublishEvicting, LocalInv, Local, OwnerInv, TypeOK
<1>15. ASSUME NEW w \in Workers, TimerFires(w) \/ ForgetTimer(w) PROVE OwnerInv'
  BY <1>0, <1>15 DEF TimerFires, ForgetTimer, OwnerInv, TypeOK, Procs
<1>16. ASSUME NEW w \in Workers, LookupForReload(w) PROVE OwnerInv'
  BY <1>0, <1>16 DEF LookupForReload, LocalInv, Local, OwnerInv, PublishedInv, Cached,
     TypeOK, Procs
<1>17. ASSUME NEW w \in Workers, LockForReload(w) PROVE OwnerInv'
  BY <1>17 DEF LockForReload, OwnerInv, TypeOK, Procs
<1> QED
  BY <1>2, <1>3, <1>4, <1>5, <1>6, <1>7, <1>8, <1>9, <1>10, <1>11, <1>12, <1>13, <1>14,
     <1>15, <1>16, <1>17 DEF Next, Hub, Cleanup, Lookup, Lock, Leave, Reload

\* What has been read is in a buffer between the read and the second stat only.
LEMMA ReadStep ==
    ASSUME TypeOK, LocalInv, \A t \in Procs : buf[t] # Nil <=> pc[t] = "restat", [Next]_vars
    PROVE  \A t \in Procs : buf'[t] # Nil <=> pc'[t] = "restat"
<1> USE DEF fsVars, hubVars, threadVars, Goto, Return, EndRefresh, LeaveWithNewEntry
<1> DEFINE Read == \A t \in Procs : buf[t] # Nil <=> pc[t] = "restat"
<1>0. /\ buf \in [Procs -> Nat \cup {Nil}]
      /\ \A p \in Paths : file[p].ver \in Nat
      /\ pc \in [Procs -> Labels]
  BY DEF TypeOK, FileVersion
<1>1. CASE UNCHANGED <<pc, buf>>
  BY <1>1
<1>2. CASE FileSystem \/ Tick \/ Close \/ UnsubscribeAll \/ UNCHANGED vars
  BY <1>1, <1>2 DEF FileSystem, Deploy, QuietRewrite, Chmod, MoveAway, MoveBack, Tick, Close,
     UnsubscribeAll, vars
<1>3. CASE Hub
  BY <1>0, <1>3 DEF Hub, HubForgets, TargetsFor, ScheduleReload
<1>4. CASE StopTimers
  BY <1>0, <1>4 DEF StopTimers, Pending
<1>5. ASSUME NEW t \in Requests, (\E p \in Paths : Lookup(t, p)) \/ Lock(t) \/ Watch(t)
      PROVE  Read'
  BY <1>0, <1>5 DEF Lookup, LookupMiss, LookupDue, Lock, LockForCheck, LockFindsEntry,
     LockForNewEntry, Watch, CheckClosed, Subscribe, Procs
<1>6. ASSUME NEW t \in Procs, Refresh(t) PROVE Read'
  <2>1. CASE LoadFile(t)
    BY <1>0, <2>1, ConstantsAssumption DEF LoadFile, LocalInv, Local, Held
  <2>2. CASE StatChanged(t)
    BY <1>0, <2>2 DEF StatChanged
  <2>3. CASE ~LoadFile(t) /\ ~StatChanged(t)
    <3>1. EndRefresh(t)
      BY <1>6, <2>3 DEF Refresh, StatMissing, StatFails, StatUnchanged, LoadFails,
         RestatChanged, RestatStable
    <3> QED
      BY <1>0, <3>1
  <2> QED
    BY <2>1, <2>2, <2>3
<1>7. ASSUME NEW t \in Procs, Leave(t) PROVE Read'
  BY <1>0, <1>7 DEF Leave, Unlock, Publish, PublishEvicting
<1>8. ASSUME NEW w \in Workers, Reload(w) \/ LockForReload(w) PROVE Read'
  BY <1>0, <1>8 DEF Reload, TimerFires, ForgetTimer, LookupForReload, LockForReload, Procs
<1> QED
  BY <1>2, <1>3, <1>4, <1>5, <1>6, <1>7, <1>8 DEF Next, Cleanup

\* Nothing a goroutine inside fh.mu works on changes under its hands.
Stays(t) ==
    /\ pc[t] \in Held /\ pc'[t] = pc[t] /\ files' = files
    /\ at'[t] = at[t] /\ ref'[t] = ref[t] /\ info'[t] = info[t] /\ buf'[t] = buf[t]

\* A goroutine that is inside fh.mu after a step was there before, and took the step or
\* did not notice it; or it has just entered.
LEMMA InsideStep ==
    ASSUME TypeOK, LocalInv, LockInv, [Next]_vars,
           NEW t \in Procs, pc'[t] \in Held
    PROVE  \/ Stays(t)
           \/ Watch(t) \/ Refresh(t)
           \/ LockForCheck(t) \/ LockForNewEntry(t)
           \/ t \in Workers /\ LockForReload(t)
<1> USE DEF fsVars, hubVars, threadVars, Goto, Return, EndRefresh, LeaveWithNewEntry, Held
<1>0. /\ pc \in [Procs -> Labels] /\ at \in [Procs -> Paths \cup {Nil}]
      /\ ref \in [Procs -> Entries \cup {Nil}]
      /\ info \in [Procs -> Nat \cup {Nil}] /\ buf \in [Procs -> Nat \cup {Nil}]
      /\ \A u \in Procs : pc[u] \in Held <=> mu = u
  BY DEF TypeOK, LockInv
<1> DEFINE Goal == \/ Stays(t)
                   \/ Watch(t) \/ Refresh(t)
                   \/ LockForCheck(t) \/ LockForNewEntry(t)
                   \/ t \in Workers /\ LockForReload(t)
<1>2. CASE FileSystem \/ Tick \/ Close \/ UnsubscribeAll \/ UNCHANGED vars
  BY <1>2 DEF FileSystem, Deploy, QuietRewrite, Chmod, MoveAway, MoveBack, Tick, Close,
     UnsubscribeAll, vars, Stays
<1>3. CASE Hub
  BY <1>0, <1>3 DEF Hub, HubForgets, TargetsFor, ScheduleReload, Stays
<1>4. CASE StopTimers
  BY <1>0, <1>4 DEF StopTimers, Pending, Stays
<1>5. ASSUME NEW u \in Requests, (\E p \in Paths : Lookup(u, p)) PROVE Goal
  BY <1>0, <1>5 DEF Lookup, LookupMiss, LookupDue, Procs, Stays
<1>6. ASSUME NEW u \in Requests, Lock(u) PROVE Goal
  <2>1. CASE u = t
    <3>1. ~LockFindsEntry(t)
      BY <1>0 DEF LockFindsEntry
    <3> QED
      BY <1>6, <2>1, <3>1 DEF Lock
  <2>2. CASE u # t
    <3>1. CASE LockForCheck(u)
      BY <1>0, <2>2, <3>1 DEF LockForCheck, Procs, Stays
    <3>2. CASE LockFindsEntry(u)
      BY <1>0, <2>2, <3>2 DEF LockFindsEntry, Procs, Stays
    <3>3. CASE LockForNewEntry(u)
      <4>1. PICK e \in FreeEntries : ref' = [ref EXCEPT ![u] = e]
        BY <3>3 DEF LockForNewEntry
      <4>2. UNCHANGED <<files, at, info, buf>> /\ pc' = [pc EXCEPT ![u] = "watch"]
        BY <3>3 DEF LockForNewEntry
      <4> QED
        BY <1>0, <2>2, <4>1, <4>2 DEF Procs, Stays
    <3> QED
      BY <1>6, <3>1, <3>2, <3>3 DEF Lock
  <2> QED
    BY <2>1, <2>2
<1>7. ASSUME NEW u \in Requests, Watch(u) PROVE Goal
  <2>1. UNCHANGED <<files, at, ref, info, buf>> /\ \E l \in Held : pc' = [pc EXCEPT ![u] = l]
    BY <1>7 DEF Watch, CheckClosed, Subscribe
  <2> QED
    BY <1>0, <1>7, <2>1 DEF Procs, Stays
<1>8. ASSUME NEW u \in Procs, Refresh(u) PROVE Goal
  <2>1. /\ UNCHANGED <<files, at, ref>> /\ pc[u] \in Held
        /\ \E l \in Held : pc' = [pc EXCEPT ![u] = l]
        /\ \E x \in Nat \cup {Nil} : info' \in {info, [info EXCEPT ![u] = x]}
        /\ \E x \in Nat \cup {Nil} : buf' \in {buf, [buf EXCEPT ![u] = x]}
    <3>1. CASE StatChanged(u)
      BY <3>1 DEF StatChanged, TypeOK, FileVersion, LocalInv, Local
    <3>2. CASE LoadFile(u)
      BY <3>2 DEF LoadFile, TypeOK, FileVersion, LocalInv, Local
    <3>3. CASE ~StatChanged(u) /\ ~LoadFile(u)
      BY <1>8, <3>3 DEF Refresh, StatMissing, StatFails, StatUnchanged, LoadFails,
         RestatChanged, RestatStable
    <3> QED
      BY <3>1, <3>2, <3>3
  <2> QED
    BY <1>0, <1>8, <2>1 DEF Stays
<1>9. ASSUME NEW u \in Procs, Leave(u) PROVE Goal
  <2>1. mu = u /\ pc' = [pc EXCEPT ![u] = "idle"]
    BY <1>0, <1>9 DEF Leave, Unlock, Publish, PublishEvicting
  <2> QED
    BY <1>0, <2>1
<1>10. ASSUME NEW w \in Workers, Reload(w) PROVE Goal
  BY <1>0, <1>10 DEF Reload, TimerFires, ForgetTimer, LookupForReload, Procs, Stays
<1>11. ASSUME NEW w \in Workers, LockForReload(w) PROVE Goal
  BY <1>0, <1>11 DEF LockForReload, Procs, Stays
<1> QED
  BY <1>2, <1>3, <1>4, <1>5, <1>6, <1>7, <1>8, <1>9, <1>10, <1>11 DEF Next, Cleanup

\* Who is inside fh.mu and does not take the step keeps the rules of its entry.
LEMMA StaysKeeps ==
    ASSUME TypeOK, LocalInv, LockInv, [Next]_vars, NEW t \in Procs, Stays(t)
    PROVE  ref[t] \in Entries /\ Keeps(ref[t])
<1>1. PICK e \in Entries : e = ref[t]
  BY DEF LocalInv, Local, Stays
<1>2. Live(e, files, ref) /\ Live(e, files, ref)'
  BY <1>1 DEF Stays, Live
<1>3. RulesStep(e)
  BY <1>2, EntryStep
<1>4. ASSUME NEW u \in Procs, Clears(u, e) \/ StoresFirst(u, e) \/ Stores(u, e)
      PROVE  FALSE
  <2>1. /\ pc[u] \in {"stat", "restat"} /\ pc' = [pc EXCEPT ![u] = "unlock"]
    BY <1>4 DEF Clears, StoresFirst, Stores, StatMissing, RestatChanged, RestatStable,
       EndRefresh, Goto
  <2>2. u = t
    BY <2>1 DEF LockInv, Stays, Held
  <2> QED
    BY <2>1, <2>2 DEF Stays, TypeOK
<1> QED
  BY <1>1, <1>3, <1>4 DEF RulesStep, Keeps

\* A new entry has no rules until its first load stored some.
LEMMA BufferStep ==
    ASSUME TypeOK, LocalInv, LockInv, BufferInv, [Next]_vars
    PROVE  BufferInv'
<1>1. \A t \in Procs : buf'[t] # Nil <=> pc'[t] = "restat"
  BY ReadStep DEF BufferInv
<1>2. ASSUME NEW t \in Procs, pc'[t] \in Held \ {"unlock"}, New(t)'
      PROVE  entry'[ref'[t]].data = Nil
  <2> USE DEF Goto, Held
  <2>1. CASE Stays(t)
    <3>1. New(t) /\ pc[t] \in Held \ {"unlock"} /\ ref'[t] = ref[t]
      BY <1>2, <2>1 DEF Stays, New
    <3>2. entry[ref[t]].data = Nil
      BY <3>1 DEF BufferInv
    <3> QED
      BY <2>1, <3>1, <3>2, StaysKeeps DEF Keeps
  <2>2. CASE Watch(t)
    <3>1. \/ entry' = entry
          \/ \E ok \in BOOLEAN : entry' = [entry EXCEPT ![ref[t]].watched = ok]
      BY <2>2 DEF Watch, CheckClosed, Subscribe
    <3>2. /\ UNCHANGED <<files, at, ref>> /\ pc[t] \in {"watch", "subscribe"}
          /\ ref[t] \in Entries /\ entry \in [Entries -> CachedFile]
      BY <2>2 DEF Watch, CheckClosed, Subscribe, threadVars, TypeOK, LocalInv, Local
    <3>3. entry[ref[t]].data = Nil
      BY <1>2, <3>2 DEF BufferInv, New
    <3>4. entry'[ref[t]].data = entry[ref[t]].data
      BY ONLY <3>1, <3>2 DEF CachedFile
    <3> QED
      BY <3>2, <3>3, <3>4
  <2>3. CASE Refresh(t)
    <3>1. StatChanged(t) \/ LoadFile(t)
      BY <1>2, <2>3 DEF Refresh, StatMissing, StatFails, StatUnchanged, LoadFails,
         RestatChanged, RestatStable, EndRefresh, TypeOK
    <3>2. UNCHANGED <<files, entry, at, ref>> /\ pc[t] \in {"stat", "load"}
      BY <3>1 DEF StatChanged, LoadFile
    <3> QED
      BY <1>2, <3>2 DEF BufferInv, New
  <2>4. CASE LockForCheck(t)
    BY <1>2, <2>4, ConstantsAssumption DEF LockForCheck, Return, LocalInv, Local, New, TypeOK
  <2>5. CASE LockForNewEntry(t)
    <3>1. PICK e \in FreeEntries, a \in Ages : /\ entry' = [entry EXCEPT ![e] = [Blank EXCEPT !.age = a]]
                                               /\ ref' = [ref EXCEPT ![t] = e]
      BY <2>5 DEF LockForNewEntry
    <3> QED
      BY <3>1 DEF FreeEntries, TypeOK, Blank
  <2>6. CASE t \in Workers /\ LockForReload(t)
    BY <1>2, <2>6, ConstantsAssumption DEF New
  <2> QED
    BY <1>2, <2>1, <2>2, <2>3, <2>4, <2>5, <2>6, InsideStep
<1> QED
  BY <1>1, <1>2 DEF BufferInv

\* What holds of the entries, and of the goroutines that work on them.
EntriesInv == IndInv /\ OwnerInv /\ BufferInv

\* It holds of every behaviour.
LEMMA EntriesInductive == Spec => [](TypeOK /\ LocalInv /\ EntriesInv)
<1>1. Init => OwnerInv /\ BufferInv
  BY DEF Init, OwnerInv, BufferInv, Held
<1>2. TypeOK /\ LocalInv /\ IndInv /\ OwnerInv /\ BufferInv /\ [Next]_vars
        => OwnerInv' /\ BufferInv'
  BY OwnerStep, BufferStep DEF IndInv
<1> QED
  BY <1>1, <1>2, Inductive, PTL DEF Spec, EntriesInv

\* Published rules go only with their file: a failed, rejected or half-written deploy
\* keeps them, whatever checks and reloads of the path overlap with it.
THEOREM RulesSurvive == Spec => RulesOutliveBrokenDeploys
<1> DEFINE Step == \A p \in Paths :
      LET e == files[p] IN
      e # Nil /\ files'[p] = e /\ entry[e].data # Nil /\ entry'[e].data = Nil
        => file[p].kind = "missing"
<1>1. ASSUME TypeOK, LocalInv, EntriesInv, [Next]_vars PROVE Step
  <2> SUFFICES ASSUME NEW p \in Paths, NEW e, e = files[p],
                      e # Nil, files'[p] = e, entry[e].data # Nil, entry'[e].data = Nil
               PROVE  file[p].kind = "missing"
    OBVIOUS
  <2>1. e \in Entries /\ Live(e, files, ref) /\ Live(e, files, ref)'
    BY <1>1 DEF TypeOK, Live
  <2>2. RulesStep(e) /\ ~Keeps(e)
    BY <1>1, <2>1, EntryStep DEF Keeps
  <2>3. PICK t \in Procs : Clears(t, e) \/ StoresFirst(t, e) \/ Stores(t, e)
    BY <2>2 DEF RulesStep
  <2>4. ~StoresFirst(t, e) /\ ~Stores(t, e)
    BY <1>1 DEF EntriesInv, BufferInv, StoresFirst, Stores, RestatChanged, RestatStable
  <2>5. StatMissing(t) /\ ref[t] = e
    BY <2>3, <2>4 DEF Clears
  <2>6. file[at[t]].kind = "missing"
    BY <2>5 DEF StatMissing
  <2>7. at[t] = p
    <3>1. ref[t] # Nil /\ files[p] = ref[t]
      BY <2>5
    <3> QED
      BY <1>1, <3>1 DEF EntriesInv, OwnerInv
  <2> QED
    BY <2>6, <2>7
<1>2. TypeOK /\ LocalInv /\ EntriesInv /\ [Next]_vars => [Step]_vars
  BY <1>1
<1> QED
  BY <1>2, EntriesInductive, PTL DEF Spec, RulesOutliveBrokenDeploys

\* A full cache gives up loaded rules only when it holds nothing else: requests for
\* roots without a file cannot push them out.
THEOREM EmptyEntriesGoFirst == Spec => LoadedRulesEvictedLast
<1> DEFINE Step == \A p \in Cached :
      files'[p] = Nil /\ entry[files[p]].data # Nil
        => \A q \in Cached : entry[files[q]].data # Nil
<1>1. ASSUME TypeOK, LocalInv, [Next]_vars PROVE Step
  <2> SUFFICES ASSUME NEW p \in Cached, files'[p] = Nil, entry[files[p]].data # Nil,
                      NEW q \in Cached
               PROVE  entry[files[q]].data # Nil
    OBVIOUS
  <2>1. ASSUME NEW t \in Procs, Publish(t) PROVE FALSE
    BY <1>1, <2>1, ConstantsAssumption DEF Publish, Cached, TypeOK, LocalInv, Local, Held
  <2>2. ASSUME NEW t \in Procs, NEW v \in Paths, PublishEvicting(t, v)
        PROVE  p = v /\ ~EvictBefore(q, v)
    BY <1>1, <2>2, ConstantsAssumption
    DEF PublishEvicting, Cached, TypeOK, LocalInv, Local, Held
  <2>3. files' # files
    BY DEF Cached
  <2> QED
    BY <1>1, <2>1, <2>2, <2>3, FilesStep DEF EvictBefore
<1>2. TypeOK /\ LocalInv /\ [Next]_vars => [Step]_vars
  BY <1>1
<1> QED
  BY <1>2, Typing, PTL DEF Spec, LoadedRulesEvictedLast

\* Without old files that are put back, versions and stamps only grow.
LEMMA FileStep ==
    ASSUME TypeOK, FilesInv, ~Restores, [Next]_vars
    PROVE  /\ FilesInv'
           /\ \A p \in Paths : /\ file[p].ver <= file'[p].ver
                               /\ file[p].stamp <= file'[p].stamp
<1> DEFINE Grows == \A p \in Paths : /\ file[p].ver <= file'[p].ver
                                     /\ file[p].stamp <= file'[p].stamp
<1>0. /\ file \in [Paths -> FileVersion] /\ deploys \in [Paths -> Nat]
      /\ \A p \in Paths : file[p].ver \in Nat /\ file[p].stamp \in Nat
  BY DEF TypeOK, FileVersion
<1>1. CASE UNCHANGED fsVars
  BY <1>0, <1>1 DEF fsVars, FilesInv
<1>2. ASSUME NEW p \in Paths, NEW k \in Kinds, Deploy(p, k) PROVE FilesInv' /\ Grows
  BY <1>0, <1>2 DEF Deploy, FilesInv, TypeOK
<1>3. ASSUME NEW p \in Paths, QuietRewrite(p) PROVE FilesInv' /\ Grows
  <2>1. file'[p].ver = deploys[p] + 1 /\ file'[p].stamp = file[p].stamp
    BY <1>0, <1>3 DEF QuietRewrite, FileVersion
  <2> QED
    BY <1>0, <1>3, <2>1 DEF QuietRewrite, FilesInv, TypeOK
<1>c. ASSUME NEW p \in Paths, Chmod(p) PROVE FilesInv' /\ Grows
  <2>1. file'[p].ver = file[p].ver /\ file'[p].stamp = file[p].stamp
    BY <1>0, <1>c DEF Chmod, FileVersion
  <2> QED
    BY <1>0, <1>c, <2>1 DEF Chmod, FilesInv, TypeOK
<1>4. ASSUME NEW p \in Paths, MoveAway(p) \/ MoveBack(p) PROVE FALSE
  BY <1>4 DEF MoveAway, MoveBack, FilesInv
<1>5. FileSystem \/ UNCHANGED fsVars
  <2> USE DEF fsVars, EndRefresh, LeaveWithNewEntry
  <2>1. CASE Tick \/ Hub \/ Cleanup \/ UNCHANGED vars
    BY <2>1 DEF Tick, Hub, HubForgets, TargetsFor, ScheduleReload, Cleanup, Close,
       StopTimers, UnsubscribeAll, vars
  <2>2. ASSUME NEW t \in Requests, (\E p \in Paths : Lookup(t, p)) \/ Lock(t) \/ Watch(t)
        PROVE  UNCHANGED fsVars
    BY <2>2 DEF Lookup, LookupMiss, LookupDue, Lock, LockForCheck, LockFindsEntry,
       LockForNewEntry, Watch, CheckClosed, Subscribe
  <2>3. ASSUME NEW w \in Workers, Reload(w) \/ LockForReload(w) PROVE UNCHANGED fsVars
    BY <2>3 DEF Reload, TimerFires, ForgetTimer, LookupForReload, LockForReload
  <2>4. ASSUME NEW t \in Procs, Refresh(t) PROVE UNCHANGED fsVars
    BY <2>4 DEF Refresh, StatMissing, StatFails, StatUnchanged, StatChanged, LoadFails,
       LoadFile, RestatChanged, RestatStable
  <2>5. ASSUME NEW t \in Procs, Leave(t) PROVE UNCHANGED fsVars
    BY <2>5 DEF Leave, Unlock, Publish, PublishEvicting
  <2> QED
    BY <2>1, <2>2, <2>3, <2>4, <2>5 DEF Next
<1> QED
  BY <1>1, <1>2, <1>3, <1>c, <1>4, <1>5 DEF FileSystem

\* An entry comes to serve a path only when it is taken from the path or is new.
LEMMA ServesStep ==
    ASSUME TypeOK, LocalInv, OwnerInv, [Next]_vars,
           NEW e \in Entries, NEW p \in Paths, Serves(e, p)'
    PROVE  Serves(e, p) \/ (entry'[e].data = Nil /\ entry'[e].loaded = Nil)
<1> USE DEF fsVars, hubVars, threadVars, Held, Goto, Return, EndRefresh,
   LeaveWithNewEntry, Serves
<1>0. /\ \A t \in Procs : pc[t] \in {"idle", "miss", "armed", "fired", "lookup"} => ref[t] = Nil
      /\ Nil \notin Entries /\ Nil \notin Paths
      /\ at \in [Procs -> Paths \cup {Nil}] /\ ref \in [Procs -> Entries \cup {Nil}]
      /\ files \in [Paths -> Entries \cup {Nil}]
  BY ConstantsAssumption DEF OwnerInv, TypeOK
<1>1. CASE UNCHANGED <<files, at, ref>>
  BY <1>1
<1>2. CASE FileSystem \/ Tick \/ Close \/ UnsubscribeAll \/ UNCHANGED vars
  BY <1>1, <1>2 DEF FileSystem, Deploy, QuietRewrite, Chmod, MoveAway, MoveBack, Tick, Close,
     UnsubscribeAll, vars
<1>3. CASE Hub
  BY <1>0, <1>3 DEF Hub, HubForgets, TargetsFor, ScheduleReload, Procs
<1>4. CASE StopTimers
  BY <1>0, <1>4 DEF StopTimers
<1>5. ASSUME NEW t \in Requests, NEW q \in Paths, Lookup(t, q) PROVE Serves(e, p)
  BY <1>0, <1>5 DEF Lookup, LookupMiss, LookupDue, Procs
<1>6. ASSUME NEW t \in Requests, LockForCheck(t) \/ LockFindsEntry(t) \/ Watch(t)
      PROVE  Serves(e, p)
  BY <1>0, <1>6 DEF LockForCheck, LockFindsEntry, Watch, CheckClosed, Subscribe, Procs
<1>7. ASSUME NEW t \in Requests, LockForNewEntry(t)
      PROVE  Serves(e, p) \/ (entry'[e].data = Nil /\ entry'[e].loaded = Nil)
  <2>1. PICK x \in FreeEntries, a \in Ages : /\ entry' = [entry EXCEPT ![x] = [Blank EXCEPT !.age = a]]
                                             /\ ref' = [ref EXCEPT ![t] = x]
    BY <1>7 DEF LockForNewEntry
  <2>2. UNCHANGED <<files, at>>
    BY <1>7 DEF LockForNewEntry
  <2>3. CASE e = x
    BY <2>1, <2>3 DEF TypeOK, Blank
  <2>4. CASE e # x
    BY <1>0, <2>1, <2>2, <2>4 DEF Procs
  <2> QED
    BY <2>3, <2>4
<1>8. ASSUME NEW t \in Procs, Refresh(t) PROVE Serves(e, p)
  BY <1>1, <1>8 DEF Refresh, StatMissing, StatFails, StatUnchanged, StatChanged, LoadFails,
     LoadFile, RestatChanged, RestatStable
<1>9. ASSUME NEW t \in Procs, Leave(t) PROVE Serves(e, p)
  BY <1>0, <1>9 DEF Leave, Unlock, Publish, PublishEvicting
<1>10. ASSUME NEW w \in Workers, Reload(w) \/ LockForReload(w) PROVE Serves(e, p)
  BY <1>0, <1>10 DEF Reload, TimerFires, ForgetTimer, LookupForReload, LockForReload, Procs
<1> QED
  BY <1>2, <1>3, <1>4, <1>5, <1>6, <1>7, <1>8, <1>9, <1>10 DEF Next, Cleanup, Lock

\* info is set while a file is loaded.
InfoInv == \A t \in Procs : pc[t] \in {"load", "restat"} => info[t] \in Nat

\* Every step keeps it so: a load begins with a stat that found the file.
LEMMA InfoStep ==
    ASSUME TypeOK, LocalInv, LockInv, InfoInv, [Next]_vars
    PROVE  InfoInv'
<1> SUFFICES ASSUME NEW t \in Procs, pc'[t] \in {"load", "restat"} PROVE info'[t] \in Nat
  BY DEF InfoInv
<1>1. CASE Stays(t)
  BY <1>1 DEF Stays, InfoInv
<1>2. CASE Refresh(t)
  <2>1. StatChanged(t) \/ LoadFile(t)
    BY <1>2 DEF Refresh, StatMissing, StatFails, StatUnchanged, LoadFails, RestatChanged,
       RestatStable, EndRefresh, Goto, TypeOK
  <2> QED
    BY <2>1 DEF StatChanged, LoadFile, InfoInv, TypeOK, FileVersion, LocalInv, Local, Held
<1>3. ~Watch(t) /\ ~LockForCheck(t) /\ ~LockForNewEntry(t) /\ ~LockForReload(t)
  BY DEF Watch, CheckClosed, Subscribe, LockForCheck, LockForNewEntry, LockForReload,
     Goto, Return, TypeOK
<1> QED
  BY <1>1, <1>2, <1>3, InsideStep DEF Held

\* What a goroutine has read of its file stays behind the file and ahead of the entry.
LEMMA LoadStep ==
    ASSUME TypeOK, LocalInv, EntriesInv, InfoInv, VersionInv, ~Restores, [Next]_vars,
           NEW t \in Procs
    PROVE  LoadInv(t)'
<1> USE DEF AtMost
<1>0. /\ \A p \in Paths : file[p].ver \in Nat /\ file[p].stamp \in Nat
      /\ \A p \in Paths : file'[p].ver \in Nat /\ file'[p].stamp \in Nat
      /\ \A e \in Entries : entry[e].data \in Nat \cup {Nil} /\ entry[e].loaded \in Nat \cup {Nil}
      /\ buf \in [Procs -> Nat \cup {Nil}] /\ info \in [Procs -> Nat \cup {Nil}]
      /\ pc \in [Procs -> Labels]
      /\ Nil \notin Nat
  BY TypeStep, ConstantsAssumption DEF TypeOK, FileVersion, CachedFile
<1>f. \A p \in Paths : file[p].ver <= file'[p].ver /\ file[p].stamp <= file'[p].stamp
  BY FileStep DEF VersionInv
<1> SUFFICES ASSUME pc'[t] \in {"load", "restat"} PROVE LoadInv(t)'
  BY DEF LoadInv
<1>1. CASE Stays(t)
  <2>1. Keeps(ref[t]) /\ ref[t] \in Entries /\ at[t] \in Paths
    BY <1>1, StaysKeeps DEF EntriesInv, IndInv, LocalInv, Local, Stays, Held
  <2>2. pc[t] = "load" => info[t] \in Nat
    BY DEF InfoInv
  <2>3. pc[t] = "restat" => info[t] \in Nat /\ buf[t] \in Nat
    BY <1>0 DEF InfoInv, EntriesInv, BufferInv
  <2>4. LoadInv(t)
    BY DEF VersionInv
  <2> QED
    BY <1>0, <1>1, <1>f, <2>1, <2>2, <2>3, <2>4 DEF LoadInv, Stays, Keeps
<1>2. CASE StatChanged(t)
  BY <1>0, <1>2 DEF StatChanged, EndRefresh, Goto, fsVars, LoadInv, LocalInv, Local, Held
<1>3. CASE LoadFile(t)
  <2>1. /\ at[t] \in Paths /\ ref[t] \in Entries /\ info[t] \in Nat
        /\ info[t] <= file[at[t]].stamp
    BY <1>3 DEF LoadFile, LocalInv, Local, Held, InfoInv, VersionInv, LoadInv
  <2>2. NotAhead(ref[t], at[t])
    BY <2>1 DEF VersionInv, Serves
  <2>3. file[at[t]].stamp <= file[at[t]].ver
    BY <2>1 DEF VersionInv, FilesInv
  <2>4. /\ buf'[t] = file[at[t]].ver /\ pc'[t] = "restat"
        /\ UNCHANGED <<file, entry, at, ref, info>>
    BY <1>0, <1>3 DEF LoadFile, Goto, fsVars
  <2> QED
    BY <1>0, <2>1, <2>2, <2>3, <2>4 DEF LoadInv, NotAhead
<1>4. ~Watch(t) /\ ~LockForCheck(t) /\ ~LockForNewEntry(t) /\ ~LockForReload(t)
  BY DEF Watch, CheckClosed, Subscribe, LockForCheck, LockForNewEntry, LockForReload,
     Goto, Return, TypeOK
<1>5. Refresh(t) => StatChanged(t) \/ LoadFile(t)
  BY DEF Refresh, StatMissing, StatFails, StatUnchanged, LoadFails, RestatChanged,
     RestatStable, EndRefresh, Goto, TypeOK
<1> QED
  BY <1>1, <1>2, <1>3, <1>4, <1>5, InsideStep DEF EntriesInv, IndInv, Held

\* No step puts an entry ahead of the file it serves.
LEMMA NotAheadStep ==
    ASSUME TypeOK, LocalInv, EntriesInv, InfoInv, VersionInv, ~Restores, [Next]_vars,
           NEW p \in Paths, NEW e \in Entries, Serves(e, p)'
    PROVE  NotAhead(e, p)'
<1> USE DEF AtMost
<1>0. /\ file[p].ver \in Nat /\ file[p].stamp \in Nat
      /\ file'[p].ver \in Nat /\ file'[p].stamp \in Nat
      /\ entry[e].data \in Nat \cup {Nil} /\ entry[e].loaded \in Nat \cup {Nil}
      /\ Nil \notin Nat
  BY TypeStep, ConstantsAssumption DEF TypeOK, FileVersion, CachedFile
<1>f. file[p].ver <= file'[p].ver /\ file[p].stamp <= file'[p].stamp
  BY FileStep DEF VersionInv
<1>1. CASE entry'[e].data = Nil /\ entry'[e].loaded = Nil
  BY <1>1 DEF NotAhead
<1>2. CASE Serves(e, p)
  <2>1. NotAhead(e, p)
    BY <1>2 DEF VersionInv
  <2>2. Live(e, files, ref) /\ Live(e, files, ref)'
    BY <1>2 DEF Serves, Live
  <2>3. CASE Keeps(e)
    BY <1>0, <1>f, <2>1, <2>3 DEF NotAhead, Keeps
  <2>4. ASSUME NEW t \in Procs, Clears(t, e) PROVE NotAhead(e, p)'
    BY <1>0, <1>f, <2>1, <2>4 DEF NotAhead, Clears
  <2>5. ASSUME NEW t \in Procs, StoresFirst(t, e) \/ Stores(t, e)
        PROVE  /\ at[t] = p /\ buf[t] \in Nat /\ info[t] \in Nat /\ LoadInv(t)
               /\ pc[t] = "restat"
    <3>1. pc[t] = "restat" /\ ref[t] = e
      BY <2>5 DEF StoresFirst, Stores, RestatChanged, RestatStable
    <3>2. at[t] = p
      BY <1>2, <3>1, ConstantsAssumption DEF EntriesInv, OwnerInv, Serves
    <3>3. buf[t] \in Nat /\ info[t] \in Nat
      BY <3>1 DEF EntriesInv, BufferInv, InfoInv, TypeOK
    <3> QED
      BY <3>1, <3>2, <3>3 DEF VersionInv
  <2>6. ASSUME NEW t \in Procs, StoresFirst(t, e) PROVE NotAhead(e, p)'
    BY <1>0, <1>f, <2>1, <2>5, <2>6 DEF NotAhead, StoresFirst, LoadInv
  <2>7. ASSUME NEW t \in Procs, Stores(t, e) PROVE NotAhead(e, p)'
    <3>1. file[p].stamp = info[t]
      BY <2>5, <2>7 DEF Stores, RestatStable, ChangedWhileLoading
    <3> QED
      BY <1>0, <1>f, <2>5, <2>7, <3>1 DEF NotAhead, Stores, LoadInv
  <2> QED
    BY <2>2, <2>3, <2>4, <2>6, <2>7, EntryStep DEF RulesStep
<1> QED
  BY <1>1, <1>2, ServesStep DEF EntriesInv

\* Unless old files are put back, versions only move forward.
LEMMA VersionsInductive ==
    ASSUME ~Restores
    PROVE  Spec => [](TypeOK /\ LocalInv /\ EntriesInv /\ InfoInv /\ VersionInv)
<1>1. Init => InfoInv /\ VersionInv
  <2> SUFFICES ASSUME Init PROVE InfoInv /\ VersionInv
    OBVIOUS
  <2>1. InfoInv /\ \A t \in Procs : LoadInv(t)
    BY DEF Init, InfoInv, LoadInv
  <2>2. FilesInv
    <3> SUFFICES ASSUME NEW p \in Paths
                 PROVE  /\ file[p].stamp <= file[p].ver /\ file[p].ver <= deploys[p]
                        /\ backup[p] = Nil
      BY DEF FilesInv
    <3>1. PICK k \in {"rules", "missing"} : file[p] = [ver |-> 0, stamp |-> 0, kind |-> k]
      BY DEF Init
    <3> QED
      BY <3>1 DEF Init
  <2>3. \A p \in Paths, e \in Entries : NotAhead(e, p)
    BY DEF Init, NotAhead, AtMost, Blank
  <2> QED
    BY <2>1, <2>2, <2>3 DEF VersionInv
<1>2. ASSUME TypeOK, LocalInv, EntriesInv, InfoInv, VersionInv, [Next]_vars
      PROVE  InfoInv' /\ VersionInv'
  <2>1. InfoInv'
    BY <1>2, InfoStep DEF EntriesInv, IndInv
  <2>2. FilesInv'
    BY <1>2, FileStep DEF VersionInv
  <2>3. \A p \in Paths, e \in Entries : Serves(e, p)' => NotAhead(e, p)'
    BY <1>2, NotAheadStep
  <2>4. \A t \in Procs : LoadInv(t)'
    BY <1>2, LoadStep
  <2> QED
    BY <2>1, <2>2, <2>3, <2>4 DEF VersionInv
<1>3. TypeOK /\ LocalInv /\ EntriesInv /\ InfoInv /\ VersionInv /\ [Next]_vars
        => InfoInv' /\ VersionInv'
  BY <1>2
<1> QED
  BY <1>1, <1>3, EntriesInductive, PTL DEF Spec

\* Published rules are never replaced by older ones, whichever checks and reloads of
\* the file overlap, as long as no old file is put back.
THEOREM RulesMoveForward ==
    ASSUME ~Restores
    PROVE  Spec => RulesNeverGoBack
<1> DEFINE Step == \A p \in Paths :
      LET e == files[p] IN
      e # Nil /\ files'[p] = e /\ entry[e].data # Nil /\ entry'[e].data # Nil
        => entry'[e].data >= entry[e].data
<1>1. ASSUME TypeOK, LocalInv, EntriesInv, InfoInv, VersionInv, [Next]_vars PROVE Step
  <2> SUFFICES ASSUME NEW p \in Paths, NEW e, e = files[p],
                      e # Nil, files'[p] = e, entry[e].data # Nil, entry'[e].data # Nil
               PROVE  entry'[e].data >= entry[e].data
    OBVIOUS
  <2>1. /\ e \in Entries /\ Live(e, files, ref) /\ Live(e, files, ref)'
        /\ entry[e].data \in Nat
    BY <1>1 DEF TypeOK, Live, CachedFile
  <2>2. RulesStep(e)
    BY <1>1, <2>1, EntryStep
  <2>3. CASE Keeps(e)
    BY <2>1, <2>3 DEF Keeps
  <2>4. ASSUME NEW t \in Procs, Stores(t, e) PROVE entry'[e].data >= entry[e].data
    <3>1. pc[t] = "restat" /\ ref[t] = e /\ entry'[e].data = buf[t]
      BY <2>4 DEF Stores, RestatStable
    <3>2. buf[t] \in Nat /\ AtMost(entry[e].data, buf[t])
      BY <1>1, <3>1 DEF EntriesInv, BufferInv, TypeOK, VersionInv, LoadInv
    <3> QED
      BY <2>1, <3>1, <3>2, ConstantsAssumption DEF AtMost
  <2> QED
    BY <2>2, <2>3, <2>4 DEF RulesStep, Clears, StoresFirst
<1>2. TypeOK /\ LocalInv /\ EntriesInv /\ InfoInv /\ VersionInv /\ [Next]_vars => [Step]_vars
  BY <1>1
<1> QED
  BY <1>2, VersionsInductive, PTL DEF Spec, RulesNeverGoBack

\* A check that finds nothing to load serves rules read at or after the write that gave
\* the file its stamp, as long as no old file is put back.
THEOREM SkipsAreCurrent ==
    ASSUME ~Restores
    PROVE  Spec => SkipsOnlyCurrentRules
<1> DEFINE Step == \A t \in Procs :
      StatUnchanged(t) => entry[ref[t]].data \in file[at[t]].stamp .. file[at[t]].ver
<1>1. ASSUME TypeOK, LocalInv, EntriesInv, VersionInv PROVE Step
  <2> SUFFICES ASSUME NEW t \in Procs, StatUnchanged(t)
               PROVE  entry[ref[t]].data \in file[at[t]].stamp .. file[at[t]].ver
    OBVIOUS
  <2>1. /\ at[t] \in Paths /\ ref[t] \in Entries
        /\ entry[ref[t]].data # Nil /\ entry[ref[t]].loaded = file[at[t]].stamp
    BY <1>1 DEF StatUnchanged, NothingToLoad, LocalInv, Local, Held
  <2>2. /\ file[at[t]].stamp \in Nat /\ file[at[t]].ver \in Nat
        /\ entry[ref[t]].data \in Nat
    BY <1>1, <2>1 DEF TypeOK, FileVersion, CachedFile
  <2>3. NotAhead(ref[t], at[t])
    BY <1>1, <2>1 DEF VersionInv, Serves
  <2> QED
    BY <2>1, <2>2, <2>3, ConstantsAssumption DEF NotAhead, AtMost
<1>2. TypeOK /\ LocalInv /\ EntriesInv /\ VersionInv /\ [Next]_vars => [Step]_vars
  BY <1>1
<1> QED
  BY <1>2, VersionsInductive, PTL DEF Spec, SkipsOnlyCurrentRules

(***************************************************************************)
(* The refinement.                                                         *)
(***************************************************************************)
\* What the refinement rests on.
RefinementInv == TypeOK /\ LocalInv /\ EntriesInv /\ CacheBounded

\* The rules of the published entries change only when a refresh ends.
LEMMA RulesQuiet ==
    ASSUME RefinementInv, [Next]_vars, files' = files,
           \A t \in Procs : pc'[t] = "unlock" => pc[t] = "unlock"
    PROVE  Rules' = Rules /\ Cached' = Cached
<1>1. ASSUME NEW p \in Cached PROVE entry'[files[p]].data = entry[files[p]].data
  <2>1. PICK e \in Entries : e = files[p]
    BY DEF Cached, RefinementInv, TypeOK
  <2>2. Live(e, files, ref) /\ Live(e, files, ref)'
    BY <2>1 DEF Live, Cached
  <2>3. RulesStep(e)
    BY <2>2, EntryStep DEF RefinementInv
  <2>4. ASSUME NEW t \in Procs, Clears(t, e) \/ StoresFirst(t, e) \/ Stores(t, e) PROVE FALSE
    BY <2>4 DEF Clears, StoresFirst, Stores, StatMissing, RestatChanged, RestatStable,
       EndRefresh, Goto, RefinementInv, TypeOK
  <2> QED
    BY <2>1, <2>3, <2>4 DEF RulesStep, Keeps
<1> QED
  BY <1>1 DEF Rules, Cached

\* What a goroutine inside fh.mu has read and not stored in a published entry.
InHand(t) ==
    IF buf[t] # Nil THEN buf[t] ELSE IF New(t) THEN entry[ref[t]].data ELSE Nil

\* Who is inside fh.mu and does not take the step keeps what it has read.
LEMMA ReadingQuiet ==
    ASSUME RefinementInv, [Next]_vars, mu' = mu, mu # Nil => Stays(mu)
    PROVE  Reading' = Reading
<1>1. CASE mu = Nil
  BY <1>1 DEF Reading, Unpublished
<1>2. CASE mu # Nil
  <2>1. mu \in Procs /\ Stays(mu)
    BY <1>2 DEF RefinementInv, TypeOK
  <2>2. Keeps(ref[mu])
    BY <2>1, StaysKeeps DEF RefinementInv, EntriesInv, IndInv
  <2> QED
    BY <2>1, <2>2 DEF Reading, Unpublished, New, Stays, Keeps
<1> QED
  BY <1>1, <1>2

\* Nobody has read anything when fh.mu is taken.
LEMMA NothingRead ==
    ASSUME RefinementInv, NEW t \in Procs, pc[t] \in Held \ {"restat"},
           New(t) => entry[ref[t]].data = Nil
    PROVE  Reading = [p \in Paths |-> Nil]
<1>1. mu = t /\ buf[t] = Nil
  BY DEF RefinementInv, EntriesInv, IndInv, LockInv, BufferInv
<1> QED
  BY <1>1 DEF Reading, Unpublished

\* A change of one file is a Deploy.
LEMMA DeployStep ==
    ASSUME RefinementInv, FileSystem
    PROVE  \E p \in Paths : Cache!Deploy(p)
<1>1. PICK p \in Paths : \/ (\E k \in Kinds : Deploy(p, k)) \/ QuietRewrite(p) \/ Chmod(p)
                         \/ MoveAway(p) \/ MoveBack(p)
  BY DEF FileSystem
<1>2. /\ UNCHANGED <<files, entry, mu, subscribed, cleanup, at, ref, buf>>
      /\ \A q \in Paths \ {p} : file'[q] = file[q]
  BY <1>1 DEF Deploy, QuietRewrite, Chmod, MoveAway, MoveBack, hubVars, threadVars,
     RefinementInv, TypeOK
<1>3. UNCHANGED <<Reading, Cached, Rules, subscribed, Ended>>
  BY <1>2 DEF Reading, Unpublished, New, Cached, Rules, Ended
<1>4. DOMAIN Site' = Paths /\ \A q \in Paths \ {p} : Site'[q] = Site[q]
  BY <1>2 DEF Site
<1> QED
  BY <1>3, <1>4 DEF Cache!Deploy

\* The steps RuleCache does not see.
LEMMA HiddenStep ==
    ASSUME RefinementInv, [Next]_vars,
           UNCHANGED <<file, files, mu, subscribed>>, Ended' = Ended,
           mu # Nil => Stays(mu)
    PROVE  UNCHANGED Cache!vars
<1>1. Reading' = Reading
  BY ReadingQuiet
<1>2. \A t \in Procs : pc'[t] = "unlock" => pc[t] = "unlock"
  <2> SUFFICES ASSUME NEW t \in Procs, pc'[t] = "unlock" PROVE pc[t] = "unlock"
    OBVIOUS
  <2>1. mu' = t
    BY LockStep DEF RefinementInv, EntriesInv, IndInv, LockInv, Held
  <2> QED
    BY <2>1, ConstantsAssumption DEF Stays, Procs
<1>3. Rules' = Rules /\ Cached' = Cached
  BY <1>2, RulesQuiet
<1>4. Site' = Site
  BY DEF Site
<1> QED
  BY <1>1, <1>3, <1>4 DEF Cache!vars

\* Of the goroutines that are outside fh.mu, and of the timers.
LEMMA OutsideStep ==
    ASSUME RefinementInv, [Next]_vars,
           \/ Tick
           \/ \E p \in Paths : TargetsFor(p) \/ ScheduleReload(p)
           \/ Close \/ StopTimers \/ UNCHANGED vars
           \/ \E t \in Requests : \/ \E p \in Paths : Lookup(t, p)
                                  \/ LockFindsEntry(t)
                                  \/ LockForCheck(t) /\ files[at[t]] # ref[t]
           \/ \E w \in Workers : Reload(w)
    PROVE  UNCHANGED Cache!vars
<1> USE DEF fsVars, hubVars, threadVars, Goto, Return, Ended, Held
<1>0. /\ pc \in [Procs -> Labels] /\ at \in [Procs -> Paths \cup {Nil}]
      /\ ref \in [Procs -> Entries \cup {Nil}] /\ mu \in Procs \cup {Nil}
      /\ \A u \in Procs : pc[u] \in Held <=> mu = u
  BY DEF RefinementInv, TypeOK, EntriesInv, IndInv, LockInv
<1>1. CASE Tick \/ Close \/ UNCHANGED vars \/ \E p \in Paths : TargetsFor(p)
  BY <1>0, <1>1, HiddenStep DEF Tick, Close, vars, TargetsFor, Stays
<1>2. ASSUME NEW p \in Paths, ScheduleReload(p) PROVE UNCHANGED Cache!vars
  <2>1. mu # Nil => Stays(mu)
    BY <1>0, <1>2 DEF ScheduleReload, Stays
  <2> QED
    BY <1>2, <2>1, HiddenStep DEF ScheduleReload
<1>3. CASE StopTimers
  <2>1. mu # Nil => Stays(mu)
    BY <1>0, <1>3 DEF StopTimers, Stays, Pending
  <2> QED
    BY <1>3, <2>1, HiddenStep DEF StopTimers
<1>4. ASSUME NEW t \in Requests, NEW p \in Paths, Lookup(t, p) PROVE UNCHANGED Cache!vars
  <2>1. mu # Nil => Stays(mu)
    BY <1>0, <1>4 DEF Lookup, LookupMiss, LookupDue, Stays, Procs
  <2> QED
    BY <1>4, <2>1, HiddenStep DEF Lookup, LookupMiss, LookupDue
<1>5. ASSUME NEW t \in Requests, LockFindsEntry(t) PROVE UNCHANGED Cache!vars
  <2>1. mu = Nil /\ UNCHANGED <<file, files, mu, subscribed, cleanup>>
    BY <1>5 DEF LockFindsEntry
  <2> QED
    BY <2>1, HiddenStep
<1>6. ASSUME NEW t \in Requests, LockForCheck(t), files[at[t]] # ref[t]
      PROVE  UNCHANGED Cache!vars
  <2>1. mu = Nil /\ UNCHANGED <<file, files, mu, subscribed, cleanup>>
    BY <1>6 DEF LockForCheck
  <2> QED
    BY <2>1, HiddenStep
<1>7. ASSUME NEW w \in Workers, Reload(w) PROVE UNCHANGED Cache!vars
  <2>1. mu # Nil => Stays(mu)
    BY <1>0, <1>7 DEF Reload, TimerFires, ForgetTimer, LookupForReload, Stays, Procs
  <2> QED
    BY <1>7, <2>1, HiddenStep DEF Reload, TimerFires, ForgetTimer, LookupForReload
<1> QED
  BY <1>1, <1>2, <1>3, <1>4, <1>5, <1>6, <1>7

\* Taking fh.mu is not seen: nothing is read before it is held.
LEMMA EnterStep ==
    ASSUME RefinementInv, [Next]_vars, NEW t \in Procs,
           \/ t \in Requests /\ LockForCheck(t) /\ files[at[t]] = ref[t]
           \/ t \in Requests /\ LockForNewEntry(t)
           \/ t \in Workers /\ LockForReload(t)
    PROVE  UNCHANGED Cache!vars
<1> USE DEF fsVars, hubVars, threadVars, Goto, Held, Ended
<1>1. /\ UNCHANGED <<file, files, subscribed, cleanup>> /\ mu = Nil /\ mu' = t
      /\ pc' \in {[pc EXCEPT ![t] = "watch"], [pc EXCEPT ![t] = "stat"]}
  BY DEF LockForCheck, LockForNewEntry, LockForReload
<1>2. Rules' = Rules /\ Cached' = Cached
  BY <1>1, RulesQuiet DEF RefinementInv, TypeOK
<1>3. buf'[t] = Nil
  BY <1>1, BufferStep DEF RefinementInv, EntriesInv, IndInv, BufferInv, TypeOK
<1>4. New(t)' => entry'[ref'[t]].data = Nil
  BY <1>1, BufferStep DEF RefinementInv, EntriesInv, IndInv, BufferInv, TypeOK
<1>5. Reading' = Reading
  BY <1>1, <1>3, <1>4 DEF Reading, Unpublished
<1> QED
  BY <1>1, <1>2, <1>5 DEF Cache!vars, Site

\* ensureWatchingLocked watches the path or ends its watch, and never after Cleanup.
LEMMA WatchRefines ==
    ASSUME RefinementInv, [Next]_vars, NEW t \in Requests, Watch(t)
    PROVE  Cache!Next \/ UNCHANGED Cache!vars
<1> USE DEF fsVars, hubVars, threadVars, Goto, Held, Ended
<1>0. t \in Procs /\ at[t] \in Paths /\ pc[t] \in {"watch", "subscribe"} /\ mu = t
  BY DEF Procs, Watch, CheckClosed, Subscribe, RefinementInv, LocalInv, Local, EntriesInv,
     IndInv, LockInv
<1>1. /\ UNCHANGED <<file, files, mu, cleanup, at, ref>>
      /\ pc' \in {[pc EXCEPT ![t] = "stat"], [pc EXCEPT ![t] = "subscribe"]}
  BY DEF Watch, CheckClosed, Subscribe, closed
<1>2. Rules' = Rules /\ Cached' = Cached
  BY <1>0, <1>1, RulesQuiet DEF RefinementInv, TypeOK
<1>3. Reading = [p \in Paths |-> Nil]
  <2>1. New(t) => entry[ref[t]].data = Nil
    BY <1>0 DEF RefinementInv, EntriesInv, BufferInv
  <2> QED
    BY <1>0, <2>1, NothingRead
<1>4. Reading' = [p \in Paths |-> Nil]
  <2>1. pc'[t] \in {"stat", "subscribe"} /\ mu' = t
    BY <1>0, <1>1 DEF RefinementInv, TypeOK
  <2>2. BufferInv'
    BY BufferStep DEF RefinementInv, EntriesInv, IndInv
  <2>3. buf'[t] = Nil /\ (New(t)' => entry'[ref'[t]].data = Nil)
    BY <1>0, <2>1, <2>2 DEF BufferInv
  <2> QED
    BY <2>1, <2>3 DEF Reading, Unpublished
<1>5. UNCHANGED <<Site, Reading, Cached, Rules, Ended>>
  BY <1>1, <1>2, <1>3, <1>4 DEF Site
<1>6. CASE CheckClosed(t)
  BY <1>5, <1>6 DEF CheckClosed, Cache!vars
<1>7. CASE Subscribe(t)
  <2>1. ~Ended
    BY <1>0, <1>7 DEF Subscribe, RefinementInv, EntriesInv, IndInv, CleanupInv
  <2>2. Cache!Watch(at[t]) \/ Cache!Unwatch(at[t])
    BY <1>5, <1>7, <2>1 DEF Subscribe, Cache!Watch, Cache!Unwatch
  <2> QED
    BY <1>0, <2>2 DEF Cache!Next
<1> QED
  BY <1>6, <1>7 DEF Watch

\* What a step of refreshLocked changes of what RuleCache sees: the rules of its path, if
\* its entry is the published one, and what it has in hand.
LEMMA RefreshView ==
    ASSUME RefinementInv, [Next]_vars, NEW t \in Procs, Refresh(t)
    PROVE  /\ at[t] \in Paths /\ ref[t] \in Entries /\ mu = t
           /\ Site' = Site /\ Cached' = Cached /\ subscribed' = subscribed /\ Ended' = Ended
           /\ New(t)' = New(t)
           /\ Reading = [q \in Paths |-> IF q = at[t] THEN InHand(t) ELSE Nil]
           /\ Reading' = [q \in Paths |-> IF q = at[t] THEN InHand(t)' ELSE Nil]
           /\ Rules' = [Rules EXCEPT ![at[t]] =
                          IF files[at[t]] = ref[t] THEN entry'[ref[t]].data ELSE @]
<1> USE DEF fsVars, hubVars, threadVars, Goto, EndRefresh
<1>1. at[t] \in Paths /\ ref[t] \in Entries /\ mu = t /\ t # Nil
  BY ConstantsAssumption DEF Procs, RefinementInv, LocalInv, Local, EntriesInv, IndInv, LockInv,
     Refresh, StatMissing, StatFails, StatUnchanged, StatChanged, LoadFails, LoadFile,
     RestatChanged, RestatStable, Held
<1>2. UNCHANGED <<file, files, mu, subscribed, cleanup, at, ref>>
  BY DEF Refresh, StatMissing, StatFails, StatUnchanged, StatChanged, LoadFails, LoadFile,
     RestatChanged, RestatStable
<1>3. \A x \in Entries \ {ref[t]} : entry'[x] = entry[x]
  <2>0. entry \in [Entries -> CachedFile]
    BY DEF RefinementInv, TypeOK
  <2>1. CASE StatMissing(t)
    BY <2>0, <2>1 DEF StatMissing
  <2>2. CASE StatFails(t) \/ LoadFails(t)
    BY <2>0, <2>2 DEF StatFails, LoadFails
  <2>3. CASE StatUnchanged(t) \/ StatChanged(t) \/ LoadFile(t)
    BY <2>3 DEF StatUnchanged, StatChanged, LoadFile
  <2>4. CASE RestatChanged(t)
    BY <2>0, <2>4 DEF RestatChanged
  <2>5. CASE RestatStable(t)
    BY <2>0, <2>5 DEF RestatStable
  <2> QED
    BY <2>1, <2>2, <2>3, <2>4, <2>5 DEF Refresh
<1>4. New(t)' = New(t)
  BY <1>2 DEF New
<1>5. /\ Reading = [q \in Paths |-> IF q = at[t] THEN InHand(t) ELSE Nil]
      /\ Reading' = [q \in Paths |-> IF q = at[t] THEN InHand(t)' ELSE Nil]
  BY <1>1, <1>2 DEF Reading, Unpublished, InHand, New
<1>6. Rules' = [Rules EXCEPT ![at[t]] =
                  IF files[at[t]] = ref[t] THEN entry'[ref[t]].data ELSE @]
  <2>1. ASSUME NEW p \in Paths, files[p] # Nil, files[p] # ref[t]
        PROVE  entry'[files[p]].data = entry[files[p]].data
    BY <1>3, <2>1 DEF RefinementInv, TypeOK
  <2>2. \A p \in Paths : files[p] = ref[t] => p = at[t]
    BY <1>1, ConstantsAssumption DEF RefinementInv, EntriesInv, OwnerInv
  <2> QED
    BY <1>1, <1>2, <2>1, <2>2, ConstantsAssumption DEF Rules
<1> QED
  BY <1>1, <1>2, <1>4, <1>5, <1>6 DEF Site, Cached, Ended

\* refreshLocked reads a version of the file, and then stores it in the published entry or
\* drops it; it ends the rules of an entry only when the file is gone.
LEMMA RefreshRefines ==
    ASSUME RefinementInv, [Next]_vars, NEW t \in Procs, Refresh(t)
    PROVE  Cache!Next \/ UNCHANGED Cache!vars
<1> USE DEF Goto, EndRefresh
<1>0. /\ at[t] \in Paths /\ ref[t] \in Entries
      /\ Site' = Site /\ Cached' = Cached /\ subscribed' = subscribed /\ Ended' = Ended
      /\ New(t)' = New(t)
      /\ Reading = [q \in Paths |-> IF q = at[t] THEN InHand(t) ELSE Nil]
      /\ Reading' = [q \in Paths |-> IF q = at[t] THEN InHand(t)' ELSE Nil]
      /\ Rules' = [Rules EXCEPT ![at[t]] =
                     IF files[at[t]] = ref[t] THEN entry'[ref[t]].data ELSE @]
  BY RefreshView
<1>b. /\ buf \in [Procs -> Nat \cup {Nil}]
      /\ buf[t] # Nil <=> pc[t] = "restat"
      /\ pc[t] \in Held \ {"unlock"} /\ New(t) => entry[ref[t]].data = Nil
      /\ entry \in [Entries -> CachedFile]
      /\ Rules = [p \in Paths |-> IF files[p] = Nil THEN Nil ELSE entry[files[p]].data]
  BY DEF RefinementInv, EntriesInv, BufferInv, TypeOK, Rules
<1>n. /\ New(t) => files[at[t]] # ref[t]
      /\ files[at[t]] = ref[t] => files[at[t]] # Nil
      /\ Nil \notin Nat
  BY <1>0, ConstantsAssumption DEF New
<1>q. ASSUME entry'[ref[t]].data = entry[ref[t]].data, InHand(t)' = InHand(t)
      PROVE  UNCHANGED Cache!vars
  <2>1. Rules' = Rules
    BY <1>0, <1>b, <1>n, <1>q
  <2> QED
    BY <1>0, <1>q, <2>1 DEF Cache!vars
<1>1. CASE StatFails(t) \/ LoadFails(t)
  <2>1. entry'[ref[t]].data = entry[ref[t]].data
    <3>1. PICK s \in {"stat", "load"} : entry' = [entry EXCEPT ![ref[t]].lastErr = s]
      BY <1>1 DEF StatFails, LoadFails
    <3> QED
      BY <1>0, <1>b, <3>1 DEF CachedFile
  <2>2. buf'[t] = buf[t]
    BY <1>b, <1>1 DEF StatFails, LoadFails
  <2>3. UNCHANGED ref
    BY <1>1 DEF StatFails, LoadFails
  <2> QED
    BY <1>0, <1>q, <2>1, <2>2, <2>3 DEF InHand
<1>2. CASE StatUnchanged(t) \/ StatChanged(t)
  <2>1. buf'[t] = buf[t] /\ UNCHANGED <<entry, ref>>
    BY <1>b, <1>2 DEF StatUnchanged, StatChanged
  <2> QED
    BY <1>0, <1>q, <2>1 DEF InHand
<1>3. CASE StatMissing(t)
  <2>1. buf[t] = Nil /\ buf'[t] = Nil /\ UNCHANGED ref /\ Site[at[t]].gone
    BY <1>0, <1>b, <1>3 DEF StatMissing, Site
  <2>2. entry'[ref[t]].data = Nil
    <3>1. PICK e \in Entries : e = ref[t]
      BY <1>0
    <3>2. entry' = [entry EXCEPT ![e].data = Nil, ![e].lastErr = "", ![e].torn = FALSE]
      BY <1>3, <3>1 DEF StatMissing
    <3>3. entry'[e].data = Nil
      BY ONLY <1>b, <3>1, <3>2, ZenonT(60) DEF CachedFile
    <3> QED
      BY <3>1, <3>3
  <2>3. InHand(t) = Nil /\ InHand(t)' = Nil
    BY <1>0, <1>b, <1>3, <2>1, <2>2 DEF InHand, StatMissing, Held
  <2>4. CASE files[at[t]] = ref[t]
    <3>1. Cache!Drop(at[t])
      BY <1>0, <2>1, <2>2, <2>3, <2>4 DEF Cache!Drop
    <3> QED
      BY <1>0, <3>1 DEF Cache!Next
  <2>5. CASE files[at[t]] # ref[t]
    BY <1>0, <1>b, <2>3, <2>5 DEF Cache!vars
  <2> QED
    BY <2>4, <2>5
<1>4. CASE LoadFile(t)
  <2>1. /\ buf'[t] = file[at[t]].ver /\ file[at[t]].ver \in Nat
        /\ UNCHANGED <<entry, ref>>
    BY <1>0, <1>b, <1>4 DEF LoadFile, RefinementInv, TypeOK, FileVersion
  <2>2. Site[at[t]].version = file[at[t]].ver /\ InHand(t)' = file[at[t]].ver
    BY <1>0, <1>4, <1>n, <2>1 DEF LoadFile, Site, InHand
  <2>3. Rules' = Rules
    BY <1>0, <1>b, <1>n, <2>1
  <2>4. Cache!Read(at[t])
    BY <1>0, <1>n, <2>1, <2>2, <2>3 DEF Cache!Read
  <2> QED
    BY <1>0, <2>4 DEF Cache!Next
<1>5. ASSUME RestatChanged(t) \/ RestatStable(t)
      PROVE  Cache!Next \/ UNCHANGED Cache!vars
  <2>1. /\ pc[t] = "restat" /\ buf'[t] = Nil /\ UNCHANGED ref
        /\ InHand(t) = buf[t] /\ buf[t] # Nil
    BY <1>b, <1>5 DEF RestatChanged, RestatStable, InHand
  <2>2. \/ entry'[ref[t]].data = buf[t]
        \/ entry[ref[t]].data # Nil /\ entry' = entry
    <3>1. PICK e \in Entries : e = ref[t]
      BY <1>0
    <3>2. \/ entry' = entry /\ entry[ref[t]].data # Nil
          \/ entry' = [entry EXCEPT ![e].data = buf[t], ![e].lastErr = "", ![e].torn = TRUE]
          \/ entry' = [entry EXCEPT ![e].data = buf[t], ![e].loaded = info[t],
                                    ![e].lastErr = "", ![e].torn = FALSE]
      BY <1>5, <3>1 DEF RestatChanged, RestatStable
    <3>b. buf[t] \in Nat \cup {Nil} /\ info[t] \in Nat \cup {Nil}
      BY DEF RefinementInv, TypeOK
    <3>3. ASSUME entry' = [entry EXCEPT ![e].data = buf[t], ![e].lastErr = "", ![e].torn = TRUE]
          PROVE  entry'[e].data = buf[t]
      BY ONLY <1>b, <3>b, <3>3, e \in Entries, ZenonT(60) DEF CachedFile
    <3>4. ASSUME entry' = [entry EXCEPT ![e].data = buf[t], ![e].loaded = info[t],
                                        ![e].lastErr = "", ![e].torn = FALSE]
          PROVE  entry'[e].data = buf[t]
      BY ONLY <1>b, <3>b, <3>4, e \in Entries, ZenonT(60) DEF CachedFile
    <3> QED
      BY <3>1, <3>2, <3>3, <3>4
  <2>3. CASE New(t)
    <3>1. entry'[ref[t]].data = buf[t]
      BY <1>b, <2>1, <2>2, <2>3 DEF Held
    <3>2. InHand(t)' = buf[t]
      BY <1>0, <2>1, <2>3, <3>1 DEF InHand
    <3> QED
      BY <1>0, <1>n, <1>b, <2>1, <2>3, <3>2 DEF Cache!vars
  <2>4. CASE ~New(t)
    <3>1. InHand(t)' = Nil
      BY <1>0, <2>1, <2>4 DEF InHand
    <3>2. Reading' = [Reading EXCEPT ![at[t]] = Nil] /\ Reading[at[t]] = buf[t]
      BY <1>0, <2>1, <3>1
    <3>3. CASE files[at[t]] = ref[t] /\ entry'[ref[t]].data = buf[t]
      <4>1. at[t] \in Cached
        BY <1>0, <1>n, <3>3 DEF Cached
      <4>2. Cache!Load(at[t])
        BY <1>0, <2>1, <3>2, <3>3, <4>1 DEF Cache!Load
      <4> QED
        BY <1>0, <4>2 DEF Cache!Next
    <3>4. CASE files[at[t]] # ref[t] \/ entry' = entry
      <4>1. Rules' = Rules
        BY <1>0, <1>b, <1>n, <3>4
      <4>2. Cache!Discard(at[t])
        BY <1>0, <3>2, <4>1 DEF Cache!Discard
      <4> QED
        BY <1>0, <4>2 DEF Cache!Next
    <3> QED
      BY <2>2, <3>3, <3>4
  <2> QED
    BY <2>3, <2>4
<1> QED
  BY <1>1, <1>2, <1>3, <1>4, <1>5 DEF Refresh

\* RuleCache counts the cached paths as FileHandler does.
LEMMA SameCardinality == \A S : Cache!Cardinality(S) = Cardinality(S)
BY DEF Cardinality, Cache!Cardinality

\* Leaving fh.mu is not seen, publishes what was read, or also gives up the least
\* valuable path of a full cache.
LEMMA LeaveRefines ==
    ASSUME RefinementInv, [Next]_vars, NEW t \in Procs, Leave(t)
    PROVE  Cache!Next \/ UNCHANGED Cache!vars
<1> USE DEF fsVars, hubVars, threadVars, Goto, Return, LeaveWithNewEntry
<1>0. /\ pc[t] = "unlock" /\ at[t] \in Paths /\ ref[t] \in Entries /\ mu = t
      /\ t # Nil /\ Nil \notin Entries /\ buf[t] = Nil
  BY ConstantsAssumption DEF Procs, Leave, Unlock, Publish, PublishEvicting, RefinementInv,
     LocalInv, Local, EntriesInv, IndInv, LockInv, BufferInv, Held
<1>1. /\ UNCHANGED <<file, cleanup>> /\ mu' = Nil
      /\ ref' = [ref EXCEPT ![t] = Nil]
      /\ Site' = Site /\ Ended' = Ended
  BY DEF Leave, Unlock, Publish, PublishEvicting, Site, Ended
<1>2. /\ Reading = [q \in Paths |-> IF q = at[t] /\ New(t) THEN entry[ref[t]].data ELSE Nil]
      /\ Reading' = [q \in Paths |-> Nil]
  BY <1>0, <1>1 DEF Reading, Unpublished, New
<1>3. CASE Unlock(t)
  <2>1. \A p \in Paths : files[p] # Nil => entry'[files[p]] = entry[files[p]]
    BY <1>3 DEF Unlock, Collect, Live, RefinementInv, TypeOK
  <2>2. UNCHANGED <<Rules, Cached, subscribed>>
    BY <1>3, <2>1 DEF Unlock, Rules, Cached
  <2>3. Reading' = Reading
    BY <1>2, <1>3 DEF Unlock
  <2> QED
    BY <1>1, <2>2, <2>3 DEF Cache!vars
<1>4. New(t) => /\ at[t] \notin Cached
                /\ Reading[at[t]] = entry[ref[t]].data
                /\ Reading' = [Reading EXCEPT ![at[t]] = Nil]
  BY <1>0, <1>2 DEF New, Cached
<1>5. CASE Publish(t)
  <2>1. /\ files' = [files EXCEPT ![at[t]] = ref[t]] /\ UNCHANGED <<entry, subscribed>>
        /\ New(t) /\ Cardinality(Cached) < MaxCached
        /\ files \in [Paths -> Entries \cup {Nil}]
    BY <1>5 DEF Publish, RefinementInv, TypeOK
  <2>2. Cached' = Cached \cup {at[t]}
    BY <1>0, <2>1 DEF Cached
  <2>3. Rules' = [Rules EXCEPT ![at[t]] = Reading[at[t]]]
    BY <1>0, <1>4, <2>1 DEF Rules
  <2>4. Cache!Add(at[t])
    BY <1>0, <1>1, <1>4, <2>1, <2>2, <2>3, SameCardinality DEF Cache!Add
  <2> QED
    BY <1>0, <2>4 DEF Cache!Next
<1>6. ASSUME NEW v \in Paths, PublishEvicting(t, v)
      PROVE  Cache!Next
  <2>1. /\ files' = [files EXCEPT ![v] = Nil, ![at[t]] = ref[t]]
        /\ New(t) /\ Cardinality(Cached) >= MaxCached /\ v \in Cached
        /\ \A q \in Cached : ~EvictBefore(q, v)
        /\ subscribed' = IF entry[files[v]].watched THEN subscribed \ {v} ELSE subscribed
        /\ entry' = Collect([entry EXCEPT ![files[v]].watched = FALSE], files', ref')
        /\ files \in [Paths -> Entries \cup {Nil}] /\ entry \in [Entries -> CachedFile]
    BY <1>6 DEF PublishEvicting, RefinementInv, TypeOK
  <2>2. Cardinality(Cached) = MaxCached
    <3>1. IsFiniteSet(Cached) /\ Cardinality(Cached) \in Nat
      BY ConstantsAssumption, FS_Subset, FS_CardinalityType DEF Cached
    <3> QED
      BY <2>1, <3>1, ConstantsAssumption DEF RefinementInv, CacheBounded
  <2>3. at[t] # v /\ files[v] \in Entries
    BY <1>4, <2>1 DEF Cached
  <2>4. Cached' = (Cached \ {v}) \cup {at[t]}
    BY <1>0, <2>1, <2>3 DEF Cached
  <2>5. ASSUME NEW e \in Entries, Live(e, files', ref')
        PROVE  entry'[e].data = entry[e].data
    BY <2>1, <2>5 DEF Collect, CachedFile
  <2>6. \A p \in Paths : files'[p] # Nil => Live(files'[p], files', ref')
    BY DEF Live
  <2>7. Rules' = [Rules EXCEPT ![v] = Nil, ![at[t]] = Reading[at[t]]]
    BY <1>0, <1>4, <2>1, <2>3, <2>5, <2>6 DEF Rules
  <2>8. subscribed' = subscribed \ {v}
    <3>1. v \in subscribed => entry[files[v]].watched
      BY <2>1 DEF RefinementInv, EntriesInv, IndInv, EveryWatchHasAnEntry, Findable,
         AboutToPublish, Cached
    <3> QED
      BY <2>1, <3>1
  <2>9. Rules[v] # Nil => \A q \in Cached : Rules[q] # Nil
    BY <2>1 DEF Rules, EvictBefore, Cached
  <2>10. Cache!Replace(at[t], v)
    BY <1>0, <1>1, <1>4, <2>1, <2>2, <2>4, <2>7, <2>8, <2>9, SameCardinality
    DEF Cache!Replace
  <2> QED
    BY <1>0, <2>10 DEF Cache!Next
<1> QED
  BY <1>3, <1>5, <1>6 DEF Leave

\* The hub loses a watch, and Cleanup ends them all.
LEMMA WatchEnds ==
    ASSUME RefinementInv, [Next]_vars, UnsubscribeAll \/ \E p \in Paths : HubForgets(p)
    PROVE  Cache!Next
<1> USE DEF fsVars, hubVars, threadVars
<1>1. /\ UNCHANGED <<file, files, mu, at, ref, pc, info, buf>>
  BY DEF UnsubscribeAll, HubForgets
<1>2. UNCHANGED <<Site, Rules, Cached>>
  BY <1>1, RulesQuiet DEF Site
<1>3. ASSUME NEW p \in Paths, HubForgets(p) PROVE Cache!Next
  <2>1. entry' = entry /\ Ended' = Ended /\ subscribed' = subscribed \ {p}
    BY <1>3 DEF HubForgets, Ended
  <2>2. Reading' = Reading
    BY <1>1, <2>1 DEF Reading, Unpublished, New
  <2>3. Cache!Unwatch(p)
    BY <1>2, <2>1, <2>2 DEF Cache!Unwatch
  <2> QED
    BY <2>3 DEF Cache!Next
<1>4. CASE UnsubscribeAll
  <2>1. mu = Nil /\ cleanup' = "done"
    BY <1>4 DEF UnsubscribeAll
  <2>2. Reading' = Reading
    BY <1>1, <2>1 DEF Reading, Unpublished
  <2>3. subscribed' = {}
    <3>1. \A p \in subscribed : p \in Cached /\ entry[files[p]].watched
      BY <2>1, ConstantsAssumption DEF RefinementInv, TypeOK, EntriesInv, IndInv,
         EveryWatchHasAnEntry, Findable, AboutToPublish, Cached
    <3> QED
      BY <1>4, <3>1 DEF UnsubscribeAll
  <2>4. Cache!End
    BY <1>2, <2>1, <2>2, <2>3 DEF Cache!End, Ended
  <2> QED
    BY <2>4 DEF Cache!Next
<1> QED
  BY <1>3, <1>4

\* The handler keeps what RuleCache promises: stored rules were valid when they were
\* read, one path changes at a time, rules go only with their file or with the eviction
\* of the entry, and the watch goes with the entry or at the end.
THEOREM HandlerImplementsRuleCache == Spec => ImplementsRuleCache
<1>1. Init => Cache!Init
  BY DEF Init, Cache!Init, Site, Reading, Unpublished, Cached, Rules, Ended
<1>2. ASSUME RefinementInv, [Next]_vars
      PROVE  Cache!Next \/ UNCHANGED Cache!vars
  <2>1. CASE FileSystem
    BY <1>2, <2>1, DeployStep DEF Cache!Next
  <2>2. CASE Tick \/ Close \/ StopTimers \/ UNCHANGED vars
    BY <1>2, <2>2, OutsideStep
  <2>3. ASSUME NEW p \in Paths, TargetsFor(p) \/ ScheduleReload(p)
        PROVE  UNCHANGED Cache!vars
    BY <1>2, <2>3, OutsideStep
  <2>4. CASE UnsubscribeAll \/ \E p \in Paths : HubForgets(p)
    BY <1>2, <2>4, WatchEnds
  <2>5. ASSUME NEW t \in Requests, NEW p \in Paths, Lookup(t, p) PROVE UNCHANGED Cache!vars
    BY <1>2, <2>5, OutsideStep
  <2>6. ASSUME NEW t \in Requests, Lock(t) PROVE UNCHANGED Cache!vars
    <3>1. CASE LockFindsEntry(t) \/ (LockForCheck(t) /\ files[at[t]] # ref[t])
      BY <1>2, <3>1, OutsideStep
    <3>2. CASE LockForNewEntry(t) \/ (LockForCheck(t) /\ files[at[t]] = ref[t])
      BY <1>2, <3>2, EnterStep DEF Procs
    <3> QED
      BY <2>6, <3>1, <3>2 DEF Lock
  <2>7. ASSUME NEW t \in Requests, Watch(t) PROVE Cache!Next \/ UNCHANGED Cache!vars
    BY <1>2, <2>7, WatchRefines
  <2>8. ASSUME NEW w \in Workers, Reload(w) PROVE UNCHANGED Cache!vars
    BY <1>2, <2>8, OutsideStep
  <2>9. ASSUME NEW w \in Workers, LockForReload(w) PROVE UNCHANGED Cache!vars
    BY <1>2, <2>9, EnterStep DEF Procs
  <2>10. ASSUME NEW t \in Procs, Refresh(t) PROVE Cache!Next \/ UNCHANGED Cache!vars
    BY <1>2, <2>10, RefreshRefines
  <2>11. ASSUME NEW t \in Procs, Leave(t) PROVE Cache!Next \/ UNCHANGED Cache!vars
    BY <1>2, <2>11, LeaveRefines
  <2> QED
    BY <1>2, <2>1, <2>2, <2>3, <2>4, <2>5, <2>6, <2>7, <2>8, <2>9, <2>10, <2>11
    DEF Next, Hub, Cleanup
<1>3. TypeOK /\ LocalInv /\ EntriesInv /\ CacheBounded /\ [Next]_vars => [Cache!Next]_(Cache!vars)
  BY <1>2 DEF RefinementInv
<1> QED
  BY <1>1, <1>3, EntriesInductive, CacheStaysBounded, PTL
  DEF Spec, ImplementsRuleCache, Cache!Spec
=============================================================================

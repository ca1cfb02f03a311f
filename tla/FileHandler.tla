---------------------------- MODULE FileHandler ----------------------------
(***************************************************************************)
(* One fileHandler (src/filewatcher.go): the cache of compiled rules of a  *)
(* static_headers or static_redirects handler, the goroutines that check   *)
(* and reload its files, and its Cleanup.                                  *)
(*                                                                         *)
(* Actors: Requests are goroutines in getCached; Workers are the debounce  *)
(* timers of scheduleReload together with the goroutine each of them       *)
(* starts; the shared watcher's loop delivers events; Caddy calls Cleanup; *)
(* somebody deploys files.  A path names both the file and its directory:  *)
(* a handler watches one file name, so they determine each other.          *)
(*                                                                         *)
(* A file is a version number (its content), a stamp (what os.Stat shows   *)
(* of it: identity, size, mtime) and a kind.  Compiled rules are           *)
(* represented by the version they were read from.                         *)
(***************************************************************************)
EXTENDS Naturals, FiniteSets

CONSTANTS
    Paths,          \* file paths the root directive can lead to
    Entries,        \* addresses of cachedFile objects
    Requests,       \* request goroutines
    Workers,        \* debounce timers and their goroutines
    Nil,
    MaxCached,      \* maxCachedFiles
    Interval,       \* checkInterval, in ticks
    MaxAge,         \* ages are counted up to here; older is as old
    MaxDeploys,     \* bound on the changes of one file
    QuietWrites,    \* whether a rewrite may keep identity, size and mtime
    Restores        \* whether a file may be moved away and back

Kinds == {"rules", "rejected", "denied", "missing"}
Procs == Requests \cup Workers

ASSUME ConstantsAssumption ==
    /\ Nil \notin Paths \cup Entries \cup Requests \cup Workers \cup Nat
    /\ Requests \cap Workers = {}
    /\ IsFiniteSet(Paths)
    /\ MaxCached \in Nat \ {0}
    /\ Interval \in Nat \ {0}
    /\ MaxAge \in Nat /\ Interval <= MaxAge
    /\ MaxDeploys \in Nat
    /\ QuietWrites \in BOOLEAN /\ Restores \in BOOLEAN

VARIABLES
    file,       \* the file at each path
    deploys,    \* how often it changed, which also numbers the versions
    backup,     \* the file moved away from each path
    files,      \* fileHandler.files: the published entry of each path
    entry,      \* the cachedFile objects
    mu,         \* the holder of fileHandler.mu
    subscribed, \* directories whose hubDir lists this handler
    targets,    \* reload targets the hub's loop computed but not delivered
    debounce,   \* fileHandler.debounce: the timer of each path
    cleanup,    \* how far Cleanup got; closed is set unless "running"
    pc, at, ref,\* of each goroutine: where it is, its filePath and its entry
    info, buf   \* refreshLocked's info and data, of each goroutine

fsVars     == <<file, deploys, backup>>
hubVars    == <<subscribed, targets>>
threadVars == <<pc, at, ref>>
vars == <<fsVars, files, entry, mu, hubVars, debounce, cleanup, threadVars,
          info, buf>>

Blank == [data |-> Nil, loaded |-> Nil, lastErr |-> "", watched |-> FALSE,
          age |-> 0, torn |-> FALSE]

closed == cleanup # "running"

\* The control points of a goroutine inside fh.mu.
Held == {"watch", "subscribe", "stat", "load", "restat", "unlock"}

Labels == Held \cup {"idle", "check", "miss", "armed", "fired", "lookup", "reload"}

Ages == 0..MaxAge

FileVersion == [ver : Nat, stamp : Nat, kind : Kinds]

\* torn is history, read by no action: the data is from a load the file
\* changed during.
CachedFile == [data : Nat \cup {Nil}, loaded : Nat \cup {Nil},
               lastErr : {"", "stat", "load"}, watched : BOOLEAN,
               age : Ages, torn : BOOLEAN]

TypeOK ==
    /\ file \in [Paths -> FileVersion]
    /\ deploys \in [Paths -> Nat]
    /\ backup \in [Paths -> FileVersion \cup {Nil}]
    /\ files \in [Paths -> Entries \cup {Nil}]
    /\ entry \in [Entries -> CachedFile]
    /\ mu \in Procs \cup {Nil}
    /\ subscribed \subseteq Paths
    /\ targets \subseteq Paths
    /\ debounce \in [Paths -> Workers \cup {Nil}]
    /\ cleanup \in {"running", "closed", "drained", "done"}
    /\ pc \in [Procs -> Labels]
    /\ at \in [Procs -> Paths \cup {Nil}]
    /\ ref \in [Procs -> Entries \cup {Nil}]
    /\ info \in [Procs -> Nat \cup {Nil}]
    /\ buf \in [Procs -> Nat \cup {Nil}]

(***************************************************************************)
(* The heap.  An entry no goroutine and no path refers to is garbage, and  *)
(* its address may be used again.                                          *)
(***************************************************************************)
Live(e, fs, rf) == (\E p \in Paths : fs[p] = e) \/ (\E t \in Procs : rf[t] = e)

FreeEntries == {e \in Entries : ~Live(e, files, ref)}

Collect(en, fs, rf) == [e \in Entries |-> IF Live(e, fs, rf) THEN en[e] ELSE Blank]

Cached == {p \in Paths : files[p] # Nil}

Goto(t, label) == pc' = [pc EXCEPT ![t] = label]

Return(t) ==
    /\ Goto(t, "idle")
    /\ at' = [at EXCEPT ![t] = Nil]
    /\ ref' = [ref EXCEPT ![t] = Nil]

Init ==
    /\ file \in [Paths -> {[ver |-> 0, stamp |-> 0, kind |-> k] : k \in {"rules", "missing"}}]
    /\ deploys = [p \in Paths |-> 0]
    /\ backup = [p \in Paths |-> Nil]
    /\ files = [p \in Paths |-> Nil]
    /\ entry = [e \in Entries |-> Blank]
    /\ mu = Nil
    /\ subscribed = {} /\ targets = {}
    /\ debounce = [p \in Paths |-> Nil]
    /\ cleanup = "running"
    /\ pc = [t \in Procs |-> "idle"]
    /\ at = [t \in Procs |-> Nil]
    /\ ref = [t \in Procs |-> Nil]
    /\ info = [t \in Procs |-> Nil]
    /\ buf = [t \in Procs |-> Nil]

(***************************************************************************)
(* The file system.  A deploy may leave any kind of file; a quiet one      *)
(* rewrites the file in place without a visible change (cp -p).  A file    *)
(* is "rejected" if loading it fails, because it cannot be read or for     *)
(* what is in it, and "denied" if os.Stat fails with another error than    *)
(* that it is missing.  A change of permissions shows in no stat.          *)
(***************************************************************************)
Deploy(p, k) ==
    /\ deploys[p] < MaxDeploys
    /\ deploys' = [deploys EXCEPT ![p] = @ + 1]
    /\ file' = [file EXCEPT ![p] = [ver |-> deploys[p] + 1,
                                    stamp |-> deploys[p] + 1, kind |-> k]]
    /\ UNCHANGED <<backup, files, entry, mu, hubVars, debounce, cleanup,
                   threadVars, info, buf>>

QuietRewrite(p) ==
    /\ QuietWrites /\ file[p].kind = "rules" /\ deploys[p] < MaxDeploys
    /\ deploys' = [deploys EXCEPT ![p] = @ + 1]
    /\ file' = [file EXCEPT ![p].ver = deploys[p] + 1]
    /\ UNCHANGED <<backup, files, entry, mu, hubVars, debounce, cleanup,
                   threadVars, info, buf>>

\* What kept it from being loaded was not in the file.
Chmod(p) ==
    /\ file[p].kind \in {"rejected", "denied"}
    /\ file' = [file EXCEPT ![p].kind = "rules"]
    /\ UNCHANGED <<deploys, backup, files, entry, mu, hubVars, debounce, cleanup,
                   threadVars, info, buf>>

MoveAway(p) ==
    /\ Restores /\ backup[p] = Nil
    /\ file[p].kind = "rules" /\ deploys[p] < MaxDeploys
    /\ backup' = [backup EXCEPT ![p] = file[p]]
    /\ deploys' = [deploys EXCEPT ![p] = @ + 1]
    /\ file' = [file EXCEPT ![p] = [ver |-> deploys[p] + 1,
                                    stamp |-> deploys[p] + 1, kind |-> "missing"]]
    /\ UNCHANGED <<files, entry, mu, hubVars, debounce, cleanup, threadVars,
                   info, buf>>

MoveBack(p) ==
    /\ backup[p] # Nil
    /\ file' = [file EXCEPT ![p] = backup[p]]
    /\ backup' = [backup EXCEPT ![p] = Nil]
    /\ UNCHANGED <<deploys, files, entry, mu, hubVars, debounce, cleanup,
                   threadVars, info, buf>>

FileSystem == \E p \in Paths :
    \/ (\E k \in Kinds : Deploy(p, k)) \/ QuietRewrite(p) \/ Chmod(p)
    \/ MoveAway(p) \/ MoveBack(p)

\* Monotonic time: what lastCheck compares with now.
Tick ==
    /\ \E e \in Entries : Live(e, files, ref) /\ entry[e].age < MaxAge
    /\ entry' = [e \in Entries |->
                   IF Live(e, files, ref) /\ entry[e].age < MaxAge
                   THEN [entry[e] EXCEPT !.age = @ + 1] ELSE entry[e]]
    /\ UNCHANGED <<fsVars, files, mu, hubVars, debounce, cleanup, threadVars,
                   info, buf>>

(***************************************************************************)
(* getCached.  The lookup and the compare-and-swap on lastCheck take no    *)
(* lock: a request that wins the swap performs the check, one that finds   *)
(* no entry adds it.  Every other one answers from the entry it found,     *)
(* which changes nothing, and neither does the answer of the first two.    *)
(***************************************************************************)
LookupMiss(t, p) ==
    /\ pc[t] = "idle" /\ files[p] = Nil
    /\ Goto(t, "miss")
    /\ at' = [at EXCEPT ![t] = p]
    /\ UNCHANGED <<fsVars, files, entry, mu, hubVars, debounce, cleanup, ref,
                   info, buf>>

LookupDue(t, p) ==
    /\ pc[t] = "idle" /\ files[p] # Nil /\ entry[files[p]].age >= Interval
    /\ Goto(t, "check")
    /\ at' = [at EXCEPT ![t] = p]
    /\ ref' = [ref EXCEPT ![t] = files[p]]
    /\ entry' = [entry EXCEPT ![files[p]].age = 0]
    /\ UNCHANGED <<fsVars, files, mu, hubVars, debounce, cleanup, info, buf>>

LockWithoutLookup(t) ==      \* variant: the entry is not looked up again
    /\ pc[t] = "check" /\ mu = Nil
    /\ mu' = t /\ Goto(t, "watch")
    /\ UNCHANGED <<fsVars, files, entry, hubVars, debounce, cleanup, at, ref,
                   info, buf>>

\* The entry may have been evicted while the winner waited for fh.mu.
LockForCheck(t) ==
    /\ pc[t] = "check" /\ mu = Nil
    /\ IF files[at[t]] = ref[t]
       THEN /\ mu' = t
            /\ Goto(t, "watch")
            /\ UNCHANGED <<entry, at, ref>>
       ELSE /\ mu' = mu
            /\ Return(t)
            /\ entry' = Collect(entry, files, ref')
    /\ UNCHANGED <<fsVars, files, hubVars, debounce, cleanup, info, buf>>

\* Another request added the entry meanwhile; its data is returned under fh.mu.
LockFindsEntry(t) ==
    /\ pc[t] = "miss" /\ mu = Nil /\ files[at[t]] # Nil
    /\ Return(t)
    /\ UNCHANGED <<fsVars, files, entry, mu, hubVars, debounce, cleanup, info, buf>>

\* lastCheck is the time of the lookup, so the new entry is as old as the
\* wait for fh.mu was long.
LockForNewEntry(t) ==
    /\ pc[t] = "miss" /\ mu = Nil /\ files[at[t]] = Nil
    /\ FreeEntries # {}
    /\ LET e == CHOOSE e \in FreeEntries : TRUE IN
       /\ \E a \in Ages : entry' = [entry EXCEPT ![e] = [Blank EXCEPT !.age = a]]
       /\ ref' = [ref EXCEPT ![t] = e]
    /\ mu' = t
    /\ Goto(t, "watch")
    /\ UNCHANGED <<fsVars, files, hubVars, debounce, cleanup, at, info, buf>>

(***************************************************************************)
(* ensureWatchingLocked: closed is read first, and the hub called after.   *)
(* A failed subscribe drops the directory for every handler.               *)
(***************************************************************************)
WatchWhenClosed(t) ==        \* variant: the check of closed is dropped
    /\ pc[t] = "watch"
    /\ Goto(t, "subscribe")
    /\ UNCHANGED <<fsVars, files, entry, mu, hubVars, debounce, cleanup, at, ref,
                   info, buf>>

CheckClosed(t) ==
    /\ pc[t] = "watch"
    /\ Goto(t, IF closed THEN "stat" ELSE "subscribe")
    /\ UNCHANGED <<fsVars, files, entry, mu, hubVars, debounce, cleanup, at, ref,
                   info, buf>>

Subscribe(t) ==
    /\ pc[t] = "subscribe"
    /\ \E ok \in BOOLEAN :
       /\ subscribed' = IF ok THEN subscribed \cup {at[t]} ELSE subscribed \ {at[t]}
       /\ entry' = [entry EXCEPT ![ref[t]].watched = ok]
    /\ Goto(t, "stat")
    /\ UNCHANGED <<fsVars, files, mu, targets, debounce, cleanup, at, ref,
                   info, buf>>

(***************************************************************************)
(* refreshLocked: stat, load, stat again.  Workers force the load.         *)
(***************************************************************************)
EndRefresh(t) ==
    /\ Goto(t, "unlock")
    /\ info' = [info EXCEPT ![t] = Nil]
    /\ buf' = [buf EXCEPT ![t] = Nil]
    /\ UNCHANGED <<fsVars, files, mu, hubVars, debounce, cleanup, at, ref>>

Exists(p) == file[p].kind \in {"rules", "rejected"}

RecordMissing(t) ==          \* variant: a missing file is an error to remember
    /\ pc[t] = "stat" /\ file[at[t]].kind = "missing"
    /\ entry' = [entry EXCEPT ![ref[t]].lastErr = "missing"]
    /\ EndRefresh(t)

StatMissing(t) ==
    /\ pc[t] = "stat" /\ file[at[t]].kind = "missing"
    /\ entry' = [entry EXCEPT ![ref[t]].data = Nil, ![ref[t]].lastErr = "",
                              ![ref[t]].torn = FALSE]
    /\ EndRefresh(t)

StatFails(t) ==
    /\ pc[t] = "stat" /\ file[at[t]].kind = "denied"
    /\ entry' = [entry EXCEPT ![ref[t]].lastErr = "stat"]
    /\ EndRefresh(t)

LoadedSomething(t) ==        \* variant: a recorded error does not force a load
    t \notin Workers /\ entry[ref[t]].data # Nil

NothingToLoad(t) ==
    /\ t \notin Workers
    /\ entry[ref[t]].data # Nil /\ entry[ref[t]].lastErr = ""
    /\ entry[ref[t]].loaded = file[at[t]].stamp

StatUnchanged(t) ==
    /\ pc[t] = "stat" /\ Exists(at[t]) /\ NothingToLoad(t)
    /\ entry' = entry
    /\ EndRefresh(t)

StatChanged(t) ==
    /\ pc[t] = "stat" /\ Exists(at[t]) /\ ~NothingToLoad(t)
    /\ info' = [info EXCEPT ![t] = file[at[t]].stamp]
    /\ Goto(t, "load")
    /\ UNCHANGED <<fsVars, files, entry, mu, hubVars, debounce, cleanup, at, ref, buf>>

LoadFailsAndClears(t) ==     \* variant: a rejected file drops the rules
    /\ pc[t] = "load" /\ file[at[t]].kind # "rules"
    /\ entry' = [entry EXCEPT ![ref[t]].lastErr = "load", ![ref[t]].data = Nil]
    /\ EndRefresh(t)

LoadFailsOnce(t) ==          \* variant: a version that fails to load is not tried again
    /\ pc[t] = "load" /\ file[at[t]].kind # "rules"
    /\ entry' = [entry EXCEPT ![ref[t]].loaded = info[t]]
    /\ EndRefresh(t)

LoadFails(t) ==
    /\ pc[t] = "load" /\ file[at[t]].kind # "rules"
    /\ entry' = [entry EXCEPT ![ref[t]].lastErr = "load"]
    /\ EndRefresh(t)

LoadFile(t) ==
    /\ pc[t] = "load" /\ file[at[t]].kind = "rules"
    /\ buf' = [buf EXCEPT ![t] = file[at[t]].ver]
    /\ Goto(t, "restat")
    /\ UNCHANGED <<fsVars, files, entry, mu, hubVars, debounce, cleanup, at, ref, info>>

RestatStores(t) ==           \* variant: a torn load also records the file version
    /\ pc[t] = "restat" /\ ~(Exists(at[t]) /\ file[at[t]].stamp = info[t])
    /\ entry' = [entry EXCEPT ![ref[t]].data = IF @ = Nil THEN buf[t] ELSE @,
                              ![ref[t]].loaded = file[at[t]].stamp,
                              ![ref[t]].torn = @ \/ entry[ref[t]].data = Nil]
    /\ EndRefresh(t)

ChangedWhileLoading(t) == ~Exists(at[t]) \/ file[at[t]].stamp # info[t]

\* Previous rules stay; with none, those read are better than none.
RestatChanged(t) ==
    /\ pc[t] = "restat" /\ ChangedWhileLoading(t)
    /\ entry' = IF entry[ref[t]].data = Nil
                THEN [entry EXCEPT ![ref[t]].data = buf[t], ![ref[t]].lastErr = "",
                                   ![ref[t]].torn = TRUE]
                ELSE entry
    /\ EndRefresh(t)

RestatStable(t) ==
    /\ pc[t] = "restat" /\ ~ChangedWhileLoading(t)
    /\ entry' = [entry EXCEPT ![ref[t]].data = buf[t], ![ref[t]].loaded = info[t],
                              ![ref[t]].lastErr = "", ![ref[t]].torn = FALSE]
    /\ EndRefresh(t)

(***************************************************************************)
(* Leaving fh.mu.  A new entry is published first, in place of the least   *)
(* recently checked one when the cache is full; entries without rules go   *)
(* before all others.                                                      *)
(***************************************************************************)
LeastRecentFirst(p, q) ==    \* variant: entries without rules are not preferred
    entry[files[p]].age > entry[files[q]].age

EvictBefore(p, q) ==
    LET a == entry[files[p]]
        b == entry[files[q]]
    IN IF (a.data = Nil) # (b.data = Nil) THEN a.data = Nil ELSE a.age > b.age

New(t) == t \in Requests /\ files[at[t]] = Nil

ReturnLocked(t) ==           \* variant: a return without Unlock
    /\ pc[t] = "unlock" /\ ~New(t)
    /\ mu' = mu
    /\ Return(t)
    /\ entry' = Collect(entry, files, ref')
    /\ UNCHANGED <<fsVars, files, hubVars, debounce, cleanup, info, buf>>

Unlock(t) ==
    /\ pc[t] = "unlock" /\ ~New(t)
    /\ mu' = Nil
    /\ Return(t)
    /\ entry' = Collect(entry, files, ref')
    /\ UNCHANGED <<fsVars, files, hubVars, debounce, cleanup, info, buf>>

LeaveWithNewEntry(t) ==
    /\ mu' = Nil
    /\ Return(t)
    /\ UNCHANGED <<fsVars, targets, debounce, cleanup, info, buf>>

PublishOneMore(t) ==         \* variant: off by one at the limit
    /\ pc[t] = "unlock" /\ New(t)
    /\ Cardinality(Cached) <= MaxCached
    /\ files' = [files EXCEPT ![at[t]] = ref[t]]
    /\ UNCHANGED <<subscribed, entry>>
    /\ LeaveWithNewEntry(t)

Publish(t) ==
    /\ pc[t] = "unlock" /\ New(t)
    /\ Cardinality(Cached) < MaxCached
    /\ files' = [files EXCEPT ![at[t]] = ref[t]]
    /\ UNCHANGED <<subscribed, entry>>
    /\ LeaveWithNewEntry(t)

EvictKeepingWatch(t, v) ==   \* variant: the evicted path stays subscribed
    /\ pc[t] = "unlock" /\ New(t)
    /\ Cardinality(Cached) >= MaxCached
    /\ v \in Cached /\ \A q \in Cached : ~EvictBefore(q, v)
    /\ LeaveWithNewEntry(t)
    /\ files' = [files EXCEPT ![v] = Nil, ![at[t]] = ref[t]]
    /\ subscribed' = subscribed
    /\ entry' = Collect([entry EXCEPT ![files[v]].watched = FALSE], files', ref')

PublishEvicting(t, v) ==
    /\ pc[t] = "unlock" /\ New(t)
    /\ Cardinality(Cached) >= MaxCached
    /\ v \in Cached /\ \A q \in Cached : ~EvictBefore(q, v)
    /\ LeaveWithNewEntry(t)
    /\ files' = [files EXCEPT ![v] = Nil, ![at[t]] = ref[t]]
    /\ subscribed' = IF entry[files[v]].watched THEN subscribed \ {v} ELSE subscribed
    /\ entry' = Collect([entry EXCEPT ![files[v]].watched = FALSE], files', ref')

(***************************************************************************)
(* The hub's loop and the debounce timers.  Stopping a pending timer and   *)
(* starting another is the same pending timer.  A timer that fired is out  *)
(* of reach: its goroutine forgets it, if it is still the path's timer,    *)
(* looks the entry up and only then waits for fh.mu.                       *)
(***************************************************************************)
HubForgets(p) ==
    /\ p \in subscribed
    /\ subscribed' = subscribed \ {p}
    /\ UNCHANGED <<fsVars, files, entry, mu, targets, debounce, cleanup,
                   threadVars, info, buf>>

\* Bound: Workers is how many timers and reloads exist at once.
WorkerLeft == \E w \in Workers : pc[w] = "idle"

TargetsFor(p) ==
    /\ p \in subscribed /\ p \notin targets /\ WorkerLeft
    /\ targets' = targets \cup {p}
    /\ UNCHANGED <<fsVars, files, entry, mu, subscribed, debounce, cleanup,
                   threadVars, info, buf>>

Pending(w) == pc[w] = "armed"

ScheduleReload(p) ==
    /\ p \in targets
    /\ targets' = targets \ {p}
    /\ IF closed \/ (debounce[p] # Nil /\ Pending(debounce[p]))
       THEN UNCHANGED <<debounce, pc, at>>
       ELSE \E w \in Workers :
            /\ pc[w] = "idle"
            /\ Goto(w, "armed")
            /\ at' = [at EXCEPT ![w] = p]
            /\ debounce' = [debounce EXCEPT ![p] = w]
    /\ UNCHANGED <<fsVars, files, entry, mu, subscribed, cleanup, ref, info, buf>>

TimerFires(w) ==
    /\ pc[w] = "armed"
    /\ Goto(w, "fired")
    /\ UNCHANGED <<fsVars, files, entry, mu, hubVars, debounce, cleanup, at, ref,
                   info, buf>>

ForgetAnyTimer(w) ==         \* variant: deletes whatever timer the path has now
    /\ pc[w] = "fired"
    /\ debounce' = [debounce EXCEPT ![at[w]] = Nil]
    /\ Goto(w, "lookup")
    /\ UNCHANGED <<fsVars, files, entry, mu, hubVars, cleanup, at, ref, info, buf>>

ForgetTimer(w) ==
    /\ pc[w] = "fired"
    /\ debounce' = [debounce EXCEPT ![at[w]] = IF @ = w THEN Nil ELSE @]
    /\ Goto(w, "lookup")
    /\ UNCHANGED <<fsVars, files, entry, mu, hubVars, cleanup, at, ref, info, buf>>

LookupForReload(w) ==
    /\ pc[w] = "lookup"
    /\ IF files[at[w]] = Nil
       THEN Return(w)
       ELSE /\ Goto(w, "reload")
            /\ at' = at
            /\ ref' = [ref EXCEPT ![w] = files[at[w]]]
    /\ UNCHANGED <<fsVars, files, entry, mu, hubVars, debounce, cleanup, info, buf>>

ReloadWithoutLock(w) ==      \* variant: reloadInBackground does not take fh.mu
    /\ pc[w] = "reload"
    /\ mu' = w
    /\ entry' = [entry EXCEPT ![ref[w]].age = 0]
    /\ Goto(w, "stat")
    /\ UNCHANGED <<fsVars, files, hubVars, debounce, cleanup, at, ref, info, buf>>

LockForReload(w) ==
    /\ pc[w] = "reload" /\ mu = Nil
    /\ mu' = w
    /\ entry' = [entry EXCEPT ![ref[w]].age = 0]
    /\ Goto(w, "stat")
    /\ UNCHANGED <<fsVars, files, hubVars, debounce, cleanup, at, ref, info, buf>>

(***************************************************************************)
(* Cleanup.                                                                *)
(***************************************************************************)
Close ==
    /\ cleanup = "running"
    /\ cleanup' = "closed"
    /\ UNCHANGED <<fsVars, files, entry, mu, hubVars, debounce, threadVars, info, buf>>

StopTimers ==
    /\ cleanup = "closed"
    /\ cleanup' = "drained"
    /\ LET stopped == {w \in Workers : Pending(w) /\ \E p \in Paths : debounce[p] = w}
       IN /\ pc' = [t \in Procs |-> IF t \in stopped THEN "idle" ELSE pc[t]]
          /\ at' = [t \in Procs |-> IF t \in stopped THEN Nil ELSE at[t]]
    /\ debounce' = [p \in Paths |-> Nil]
    /\ UNCHANGED <<fsVars, files, entry, mu, hubVars, ref, info, buf>>

UnsubscribeWithoutLock ==    \* variant: Cleanup does not wait for fh.mu
    /\ cleanup = "drained"
    /\ cleanup' = "done"
    /\ LET watched == {p \in Cached : entry[files[p]].watched}
       IN subscribed' = subscribed \ watched
    /\ UNCHANGED <<fsVars, files, entry, mu, targets, debounce, threadVars, info, buf>>

UnsubscribeAll ==
    /\ cleanup = "drained" /\ mu = Nil
    /\ cleanup' = "done"
    /\ LET watched == {p \in Cached : entry[files[p]].watched}
       IN /\ subscribed' = subscribed \ watched
          /\ entry' = [e \in Entries |-> IF \E p \in watched : files[p] = e
                                        THEN [entry[e] EXCEPT !.watched = FALSE]
                                        ELSE entry[e]]
    /\ UNCHANGED <<fsVars, files, mu, targets, debounce, threadVars, info, buf>>

(***************************************************************************)
(* The specification.                                                      *)
(***************************************************************************)
Lookup(t, p)  == LookupMiss(t, p) \/ LookupDue(t, p)
Lock(t)       == LockForCheck(t) \/ LockFindsEntry(t) \/ LockForNewEntry(t)
Watch(t)      == CheckClosed(t) \/ Subscribe(t)
Refresh(t)    == \/ StatMissing(t) \/ StatFails(t) \/ StatUnchanged(t) \/ StatChanged(t)
                 \/ LoadFails(t) \/ LoadFile(t)
                 \/ RestatChanged(t) \/ RestatStable(t)
Leave(t)      == Unlock(t) \/ Publish(t) \/ (\E v \in Paths : PublishEvicting(t, v))
Reload(w)     == TimerFires(w) \/ ForgetTimer(w) \/ LookupForReload(w)
Hub           == \E p \in Paths : HubForgets(p) \/ TargetsFor(p) \/ ScheduleReload(p)
Cleanup       == Close \/ StopTimers \/ UnsubscribeAll

Next ==
    \/ FileSystem \/ Tick \/ Hub \/ Cleanup
    \/ \E t \in Requests : (\E p \in Paths : Lookup(t, p)) \/ Lock(t) \/ Watch(t)
    \/ \E w \in Workers : Reload(w) \/ LockForReload(w)
    \/ \E t \in Procs : Refresh(t) \/ Leave(t)

Spec == Init /\ [][Next]_vars

\* Goroutines run, time passes, fh.mu is granted to every waiter (sync.Mutex
\* hands over to the longest waiter), and requests for every path keep coming.
Fairness ==
    /\ WF_vars(Tick)
    /\ WF_vars(StopTimers) /\ SF_vars(UnsubscribeAll)
    /\ \A t \in Requests : SF_vars(Lock(t)) /\ WF_vars(Watch(t))
    /\ \A w \in Workers : SF_vars(LockForReload(w)) /\ WF_vars(Reload(w))
    /\ \A t \in Procs : WF_vars(Refresh(t) \/ Leave(t))
    /\ \A p \in Paths : SF_vars(\E t \in Requests : Lookup(t, p))
                       /\ WF_vars(ScheduleReload(p))

FairSpec == Spec /\ Fairness

(***************************************************************************)
(* Properties.                                                             *)
(***************************************************************************)
\* Cleanup leaves nothing behind: once it returned, the shared watcher no
\* longer knows the handler, whatever request was inside fh.mu or waiting for
\* it when Cleanup began (a config reload would leak the handler otherwise).
NoSubscriptionAfterCleanup == cleanup = "done" => subscribed = {}

\* Every subscription can be found again: it belongs to the published entry of
\* its path, or to the entry a request is about to publish, and that entry
\* says so.  Otherwise neither eviction nor Cleanup would ever end it.
AboutToPublish(p) ==
    /\ mu \in Requests /\ at[mu] = p /\ files[p] = Nil
    /\ entry[ref[mu]].watched

Findable(p) ==
    (files[p] # Nil /\ entry[files[p]].watched) \/ AboutToPublish(p)

EveryWatchHasAnEntry == \A p \in subscribed : Findable(p)

\* No watcher event starts a reload of a handler Cleanup has drained: every
\* timer that can still fire is one Cleanup could stop.
NoTimerAfterCleanup ==
    cleanup \in {"drained", "done"} => \A w \in Workers : ~Pending(w)

\* The cache does not outgrow maxCachedFiles, whichever requests race to add.
CacheBounded == Cardinality(Cached) <= MaxCached

\* Published rules are dropped only because the file is gone: a failed,
\* rejected or half-written deploy keeps them.
RulesOutliveBrokenDeploys == [][\A p \in Paths :
    LET e == files[p] IN
    e # Nil /\ files'[p] = e /\ entry[e].data # Nil /\ entry'[e].data = Nil
      => file[p].kind = "missing"]_vars

\* Published rules are never replaced by older ones, whichever checks and
\* reloads of the file overlap.
RulesNeverGoBack == [][\A p \in Paths :
    LET e == files[p] IN
    e # Nil /\ files'[p] = e /\ entry[e].data # Nil /\ entry'[e].data # Nil
      => entry'[e].data >= entry[e].data]_vars

\* A check that finds nothing to load serves rules read from the file as
\* os.Stat shows it: at or after the write that gave the file its stamp.
SkipsOnlyCurrentRules == [][\A t \in Procs :
    StatUnchanged(t) => entry[ref[t]].data \in file[at[t]].stamp .. file[at[t]].ver]_vars

\* Requests for roots that have no file cannot push out loaded rules.
LoadedRulesEvictedLast == [][\A p \in Cached :
    files'[p] = Nil /\ entry[files[p]].data # Nil
      => \A q \in Cached : entry[files[q]].data # Nil]_vars

\* Rules read from a file that changed meanwhile are loaded again "on the next
\* check", as the log message and the comment of refreshLocked say: no check
\* takes them for the current version of the file.
TornLoadIsRetried == [][\A t \in Procs :
    StatUnchanged(t) => ~entry[ref[t]].torn]_vars

\* The rules published are those of the file, if it can be read.
UpToDate(p) ==
    CASE file[p].kind = "rules"   -> entry[files[p]].data = file[p].ver
      [] file[p].kind = "missing" -> entry[files[p]].data = Nil
      [] OTHER -> TRUE

\* The file is an old one put back: what a load saw of it may be of the other.
MovedBack(p) == file[p].stamp # deploys[p]

\* Polling alone keeps the cache fresh: once the deploys stop, the published
\* rules are those of the file, with every watcher event lost and whatever
\* errors were met on the way.  An old file that was put back as it was is the
\* exception: os.Stat may show it as the one before and after another was read.
FreshEventually == \A p \in Paths :
    []<>(files[p] # Nil /\ (UpToDate(p) \/ MovedBack(p)))

\* What has been read is in a buffer, or in an entry that is not published yet.
Unpublished(p) ==
    IF mu = Nil \/ at[mu] # p THEN Nil
    ELSE IF buf[mu] # Nil THEN buf[mu]
    ELSE IF New(mu) THEN entry[ref[mu]].data ELSE Nil

\* What RuleCache sees of the state.
Site == [p \in Paths |->
    [version |-> IF file[p].kind = "rules" THEN file[p].ver ELSE Nil,
     gone    |-> file[p].kind = "missing"]]

Reading == [p \in Paths |-> Unpublished(p)]

Rules == [p \in Paths |-> IF files[p] = Nil THEN Nil ELSE entry[files[p]].data]

Ended == cleanup = "done"

Cache == INSTANCE RuleCache WITH
    site <- Site, read <- Reading, cached <- Cached, rules <- Rules,
    watching <- subscribed, ended <- Ended

\* The handler keeps what RuleCache promises: stored rules were valid when they
\* were read, one path changes at a time, rules go only with their file or with
\* the eviction of the entry, and the watch goes with the entry or at the end.
ImplementsRuleCache == Cache!Spec

\* No request waits for ever, and neither does Cleanup.
RequestsReturn == \A t \in Requests : pc[t] # "idle" ~> pc[t] = "idle"
CleanupCompletes == cleanup = "closed" ~> cleanup = "done"
=============================================================================

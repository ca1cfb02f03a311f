------------------------------ MODULE WatchHub ------------------------------
(***************************************************************************)
(* The shared watcher (src/watchhub.go): one fsnotify watcher multiplexed  *)
(* across handlers, with one watch per directory however many paths lead   *)
(* to it.                                                                  *)
(*                                                                         *)
(* Actors: handlers subscribe and unsubscribe, one call at a time each     *)
(* (they hold their own lock); the hub's loop takes fsnotify's events;     *)
(* somebody re-points symlinks and renames directories.  Everything under  *)
(* h.mu is one step; the stat in front of subscribe is not under it.       *)
(*                                                                         *)
(* A hubWatch is identified by its path, its key in h.watches, and a       *)
(* hubDir by its key in h.dirs.                                            *)
(***************************************************************************)
EXTENDS Naturals

CONSTANTS
    Dirs,         \* subscribed directory paths
    Inodes,       \* directories, as os.SameFile tells them apart
    Handlers,
    Nil,
    Leads,        \* the directories each path may lead to
    AddMayFail,   \* whether watcher.Add of an existing directory may fail
    StatRaces,    \* whether a path may be re-pointed during a subscribe of it
    MaxChanges    \* bound on the changes of the file system

ASSUME HubAssumption ==
    /\ Nil \notin Dirs \cup Inodes \cup Handlers
    /\ Leads \in [Dirs -> SUBSET Inodes]
    /\ AddMayFail \in BOOLEAN /\ StatRaces \in BOOLEAN
    /\ MaxChanges \in Nat

VARIABLES
    target,   \* the directory each path leads to now
    changes,  \* how often the file system changed
    fsn,      \* fsnotify: the directory each added path watches, and the path
              \* it names the events of each directory after
    events,   \* watches fsnotify dropped, not yet taken by the loop
    late,     \* such that the loop of a watcher closed meanwhile has taken
    dirs,     \* watchHub.dirs
    watches,  \* watchHub.watches
    open,     \* watchHub.watcher # nil
    call      \* the subscribe each handler is in, and what its stat returned

fsVars    == <<target, changes>>
eventVars == <<events, late>>
hubVars   == <<fsn, dirs, watches, open>>
vars      == <<fsVars, eventVars, hubVars, call>>

HubDir   == [watch : Dirs \cup {Nil}, handlers : SUBSET Handlers]
HubWatch == [info : Inodes, dirs : SUBSET Dirs]
Fsnotify == [on : [Dirs -> Inodes \cup {Nil}], name : [Inodes -> Dirs \cup {Nil}]]
Call     == [dir : Dirs, info : Inodes \cup {Nil}]

\* The nil pointer is no object.
ASSUME NilAssumption == Nil \notin HubDir \cup HubWatch \cup Call

TypeOK ==
    /\ target \in [Dirs -> Inodes \cup {Nil}]
    /\ changes \in Nat
    /\ fsn \in Fsnotify
    /\ events \subseteq Dirs /\ late \subseteq Dirs
    /\ dirs \in [Dirs -> HubDir \cup {Nil}]
    /\ watches \in [Dirs -> HubWatch \cup {Nil}]
    /\ open \in BOOLEAN
    /\ call \in [Handlers -> Call \cup {Nil}]

Closed == [on |-> [d \in Dirs |-> Nil], name |-> [i \in Inodes |-> Nil]]

Init ==
    /\ target \in {f \in [Dirs -> Inodes \cup {Nil}] : \A d \in Dirs : f[d] \in Leads[d] \cup {Nil}}
    /\ changes = 0
    /\ fsn = Closed
    /\ events = {} /\ late = {}
    /\ dirs = [d \in Dirs |-> Nil]
    /\ watches = [d \in Dirs |-> Nil]
    /\ open = FALSE
    /\ call = [h \in Handlers |-> Nil]

(***************************************************************************)
(* fsnotify, as the comments of watchhub.go describe it.  A directory has  *)
(* one watch; its events carry the first path it was added by, and         *)
(* removing any of its paths removes it.                                   *)
(***************************************************************************)
Listed(f, d) == f.on[d] # Nil

FsnAdd(f, ds) ==
    [on   |-> [d \in Dirs |-> IF d \in ds THEN target[d] ELSE f.on[d]],
     name |-> [i \in Inodes |->
                 IF f.name[i] = Nil /\ \E d \in ds : target[d] = i
                 THEN CHOOSE d \in ds : target[d] = i ELSE f.name[i]]]

FsnForget(f, i) ==
    [on   |-> [d \in Dirs |-> IF f.on[d] = i THEN Nil ELSE f.on[d]],
     name |-> [f.name EXCEPT ![i] = Nil]]

FsnRemove(f, d) == IF Listed(f, d) THEN FsnForget(f, f.on[d]) ELSE f

(***************************************************************************)
(* The state h.mu guards, and the functions called with it held.           *)
(***************************************************************************)
Hub == [dirs |-> dirs, watches |-> watches, open |-> open, fsn |-> fsn]

Detached(hub, ds) ==
    [d \in Dirs |-> IF d \in ds /\ hub.dirs[d] # Nil
                    THEN [hub.dirs[d] EXCEPT !.watch = Nil] ELSE hub.dirs[d]]

Watched(hub, i) == {w \in Dirs : hub.watches[w] # Nil /\ hub.watches[w].info = i}

\* closeIfIdleLocked.
CloseIfIdle(hub) ==
    IF hub.open /\ \A w \in Dirs : hub.watches[w] = Nil
    THEN [hub EXCEPT !.open = FALSE, !.fsn = Closed]
    ELSE hub

\* Attaching each path of lead to the watch lead gives it, which is added
\* first when it is the path's own.
Attach(hub, lead, info) ==
    LET joined == {d \in DOMAIN lead : lead[d] # Nil}
        added  == {d \in joined : lead[d] = d /\ hub.watches[d] = Nil}
    IN [dirs    |-> [d \in Dirs |-> IF d \in joined
                                    THEN [hub.dirs[d] EXCEPT !.watch = lead[d]]
                                    ELSE hub.dirs[d]],
        watches |-> [w \in Dirs |->
                       LET mine == {d \in joined : lead[d] = w}
                       IN IF w \in added THEN [info |-> info[w], dirs |-> mine]
                          ELSE IF mine # {}
                               THEN [hub.watches[w] EXCEPT !.dirs = @ \cup mine]
                               ELSE hub.watches[w]],
        open    |-> hub.open \/ added # {},
        fsn     |-> FsnAdd(hub.fsn, added)]

\* The watches detachLocked's loop can leave the paths ds on, in any order of
\* the map: one that exists already, a new one under the first of those that
\* lead to a directory whose Add succeeds, or none.
Leaders(hub, ds) == {lead \in [ds -> Dirs \cup {Nil}] : \A d \in ds :
    LET peers == {p \in ds : target[p] = target[d]}
    IN IF target[d] = Nil THEN lead[d] = Nil
       ELSE IF Watched(hub, target[d]) # {} THEN lead[d] \in Watched(hub, target[d])
       ELSE \/ lead[d] = Nil /\ AddMayFail
            \/ /\ lead[d] \in peers /\ lead[lead[d]] = lead[d]
               /\ \A p \in peers : lead[p] \in {lead[d], Nil}}

DetachAlone(hub, d) ==       \* variant: the other paths keep pointing to the old watch
    LET w == hub.dirs[d].watch IN
    IF w = Nil THEN {hub}
    ELSE IF w # d
         THEN {[hub EXCEPT !.dirs = Detached(hub, {d}), !.watches[w].dirs = @ \ {d}]}
         ELSE {[hub EXCEPT !.dirs = Detached(hub, {d}), !.watches[d] = Nil,
                           !.fsn = FsnRemove(@, d)]}

DetachWithoutRemove(hub, d) ==  \* variant: watcher.Remove is not called
    LET w == hub.dirs[d].watch
        others == hub.watches[d].dirs \ {d}
        gone == [hub EXCEPT !.dirs = Detached(hub, others \cup {d}), !.watches[d] = Nil]
    IN IF w = Nil THEN {hub}
       ELSE IF w # d
            THEN {[hub EXCEPT !.dirs = Detached(hub, {d}), !.watches[w].dirs = @ \ {d}]}
            ELSE {Attach(gone, lead, target) : lead \in Leaders(gone, others)}

DetachForgetting(hub, d) ==  \* variant: the other paths are dropped, not attached again
    LET w == hub.dirs[d].watch IN
    IF w = Nil THEN {hub}
    ELSE IF w # d
         THEN {[hub EXCEPT !.dirs = Detached(hub, {d}), !.watches[w].dirs = @ \ {d}]}
         ELSE LET others == hub.watches[d].dirs \ {d}
              IN {[hub EXCEPT !.dirs = [x \in Dirs |-> IF x \in others THEN Nil
                                                       ELSE Detached(hub, {d})[x]],
                              !.watches[d] = Nil,
                              !.fsn = FsnRemove(@, d)]}

\* detachLocked: what the hub may be afterwards.
Detach(hub, d) ==
    LET w == hub.dirs[d].watch IN
    IF w = Nil THEN {hub}
    ELSE IF w # d
         THEN {[hub EXCEPT !.dirs = Detached(hub, {d}), !.watches[w].dirs = @ \ {d}]}
         ELSE LET others == hub.watches[d].dirs \ {d}
                  gone == [hub EXCEPT !.dirs = Detached(hub, others \cup {d}),
                                      !.watches[d] = Nil,
                                      !.fsn = FsnRemove(@, d)]
              IN {Attach(gone, lead, target) : lead \in Leaders(gone, others)}

RemoveKeepsOpen(hub, d) ==   \* variant: the idle watcher is not closed
    {[h EXCEPT !.dirs[d] = Nil] : h \in Detach(hub, d)}

\* removeLocked.
Remove(hub, d) ==
    {CloseIfIdle([h EXCEPT !.dirs[d] = Nil]) : h \in Detach(hub, d)}

AttachOwn(hub, d, i) ==      \* variant: no look for a watch of the same directory
    (IF target[d] # Nil THEN {Attach(hub, [x \in {d} |-> d], [x \in {d} |-> i])} ELSE {})
    \cup (IF target[d] = Nil \/ AddMayFail
          THEN {CloseIfIdle([hub EXCEPT !.dirs[d] = Nil])} ELSE {})

AttachUnchecked(hub, d, i) ==   \* variant: the watch is recorded though Add failed
    IF Watched(hub, i) # {}
    THEN {Attach(hub, [x \in {d} |-> w], [x \in {d} |-> i]) : w \in Watched(hub, i)}
    ELSE {Attach(hub, [x \in {d} |-> d], target)}

\* attachLocked for the path d of subscribe, whose stat returned i.
AttachOutcomes(hub, d, i) ==
    IF Watched(hub, i) # {}
    THEN {Attach(hub, [x \in {d} |-> w], [x \in {d} |-> i]) : w \in Watched(hub, i)}
    ELSE (IF target[d] # Nil THEN {Attach(hub, [x \in {d} |-> d], [x \in {d} |-> i])} ELSE {})
         \cup (IF target[d] = Nil \/ AddMayFail
               THEN {CloseIfIdle([hub EXCEPT !.dirs[d] = Nil])} ELSE {})

\* The pending events of a closed watcher die with it, but for the one its loop
\* may have taken and waits for h.mu with.
Become(hub, pending) ==
    /\ dirs' = hub.dirs
    /\ watches' = hub.watches
    /\ open' = hub.open
    /\ fsn' = hub.fsn
    /\ events' = IF hub.open THEN pending ELSE {}
    /\ late' \in IF hub.open THEN {late} ELSE {late} \cup {late \cup {d} : d \in pending}

(***************************************************************************)
(* The handlers' calls.                                                    *)
(***************************************************************************)
Stat(h, d) ==
    /\ call[h] = Nil
    /\ call' = [call EXCEPT ![h] = [dir |-> d, info |-> target[d]]]
    /\ UNCHANGED <<fsVars, eventVars, hubVars>>

Return(h) == call' = [call EXCEPT ![h] = Nil] /\ UNCHANGED fsVars

\* The directory does not exist: its subscription ends for every handler.
SubscribeMissing(h) ==
    /\ call[h] # Nil /\ call[h].info = Nil
    /\ LET d == call[h].dir IN
       \E hub \in IF dirs[d] = Nil THEN {Hub} ELSE Remove(Hub, d) : Become(hub, events)
    /\ Return(h)

Current(d, i) ==
    dirs[d] # Nil /\ dirs[d].watch # Nil /\ watches[dirs[d].watch].info = i

SubscribeCurrent(h) ==
    /\ call[h] # Nil /\ call[h].info # Nil /\ Current(call[h].dir, call[h].info)
    /\ dirs' = [dirs EXCEPT ![call[h].dir].handlers = @ \cup {h}]
    /\ UNCHANGED <<fsn, watches, open, eventVars>>
    /\ Return(h)

SubscribeAfresh(h) ==
    /\ call[h] # Nil /\ call[h].info # Nil /\ ~Current(call[h].dir, call[h].info)
    /\ LET d == call[h].dir
           new == [watch |-> Nil, handlers |-> {}]
       IN \E hub \in IF dirs[d] = Nil THEN {[Hub EXCEPT !.dirs[d] = new]} ELSE Detach(Hub, d) :
          \E after \in AttachOutcomes(hub, d, call[h].info) :
             Become(IF after.dirs[d] = Nil THEN after
                    ELSE [after EXCEPT !.dirs[d].handlers = @ \cup {h}], events)
    /\ Return(h)

Unsubscribe(h, d) ==
    /\ call[h] = Nil /\ dirs[d] # Nil
    /\ LET left == dirs[d].handlers \ {h}
           hub == [Hub EXCEPT !.dirs[d].handlers = left]
       IN \E after \in IF left = {} THEN Remove(hub, d) ELSE {hub} : Become(after, events)
    /\ UNCHANGED <<fsVars, call>>

(***************************************************************************)
(* The loops: dropWatch, and what targetsFor answers for an event of the   *)
(* file in directory i.                                                    *)
(***************************************************************************)
DropAnyWatch(d) ==           \* variant: a newer watch of d is dropped as well
    /\ d \in events
    /\ LET hub == IF watches[d] = Nil THEN Hub
                  ELSE CloseIfIdle([Hub EXCEPT !.watches[d] = Nil,
                                               !.dirs = Detached(Hub, watches[d].dirs)])
       IN Become(hub, events \ {d})
    /\ UNCHANGED <<fsVars, call>>

IgnoreDrop(d) ==             \* variant: the loop has no dropWatch
    /\ d \in events
    /\ events' = events \ {d}
    /\ UNCHANGED <<fsVars, late, hubVars, call>>

DropWatch(d) ==
    /\ d \in events
    /\ LET hub == IF watches[d] = Nil \/ Listed(fsn, d) THEN Hub
                  ELSE CloseIfIdle([Hub EXCEPT !.watches[d] = Nil,
                                               !.dirs = Detached(Hub, watches[d].dirs)])
       IN Become(hub, events \ {d})
    /\ UNCHANGED <<fsVars, call>>

DropForAnyWatcher(d) ==      \* variant: which watcher the event is of is not asked
    /\ d \in late
    /\ LET hub == IF watches[d] = Nil THEN Hub
                  ELSE CloseIfIdle([Hub EXCEPT !.watches[d] = Nil,
                                               !.dirs = Detached(Hub, watches[d].dirs)])
       IN Become(hub, events)
    /\ UNCHANGED <<fsVars, call>>

\* dropWatch for a watcher that is not, or no longer, the hub's.
DropWatchLate(d) ==
    /\ d \in late
    /\ late' = late \ {d}
    /\ UNCHANGED <<fsVars, events, hubVars, call>>

TargetsFor(i) ==
    LET w == fsn.name[i] IN
    IF w = Nil \/ watches[w] = Nil THEN {}
    ELSE {s \in Handlers \X watches[w].dirs : s[1] \in dirs[s[2]].handlers}

(***************************************************************************)
(* The file system.  Nothing reports that a path was re-pointed; renaming  *)
(* or removing a directory makes fsnotify drop its watch and report it.    *)
(***************************************************************************)
Pending(d) == \E h \in Handlers : call[h] # Nil /\ call[h].dir = d

Change == changes < MaxChanges /\ changes' = changes + 1

Repoint(d, i) ==
    /\ Change /\ (StatRaces \/ ~Pending(d))
    /\ i \in Leads[d] \cup {Nil} /\ i # target[d]
    /\ target' = [target EXCEPT ![d] = i]
    /\ UNCHANGED <<eventVars, hubVars, call>>

MoveDirectory(i) ==
    /\ Change /\ \E d \in Dirs : target[d] = i
    /\ \A d \in Dirs : target[d] = i => StatRaces \/ ~Pending(d)
    /\ target' = [d \in Dirs |-> IF target[d] = i THEN Nil ELSE target[d]]
    /\ events' = IF fsn.name[i] = Nil THEN events ELSE events \cup {fsn.name[i]}
    /\ fsn' = FsnForget(fsn, i)
    /\ UNCHANGED <<late, dirs, watches, open, call>>

(***************************************************************************)
(* The specification.                                                      *)
(***************************************************************************)
Subscribe(h) == SubscribeMissing(h) \/ SubscribeCurrent(h) \/ SubscribeAfresh(h)

Next ==
    \/ \E h \in Handlers : Subscribe(h) \/ \E d \in Dirs : Stat(h, d) \/ Unsubscribe(h, d)
    \/ \E d \in Dirs : DropWatch(d) \/ DropWatchLate(d)
    \/ \E d \in Dirs, i \in Inodes \cup {Nil} : Repoint(d, i)
    \/ \E i \in Inodes : MoveDirectory(i)

Spec == Init /\ [][Next]_vars

\* Handlers check every directory again and again, and the loop runs.
Fairness ==
    /\ \A h \in Handlers : WF_vars(Subscribe(h)) /\ \A d \in Dirs : SF_vars(Stat(h, d))
    /\ \A d \in Dirs : WF_vars(DropWatch(d))

FairSpec == Spec /\ Fairness

(***************************************************************************)
(* Properties.                                                             *)
(***************************************************************************)
\* The two maps describe one structure: a path's watch lists the path, every
\* path a watch lists is on it, and a watch is kept for the path it is named
\* after.  detachLocked, dropWatch and a failing re-attach all edit both maps.
MapsAgree ==
    /\ \A d \in Dirs : dirs[d] # Nil =>
         /\ dirs[d].handlers # {}
         /\ dirs[d].watch # Nil =>
              watches[dirs[d].watch] # Nil /\ d \in watches[dirs[d].watch].dirs
    /\ \A w \in Dirs : watches[w] # Nil =>
         /\ w \in watches[w].dirs
         /\ \A d \in watches[w].dirs : dirs[d] # Nil /\ dirs[d].watch = w

\* The watcher is open exactly while something is watched: it is never nil when
\* detachLocked calls Remove, and an idle one is never left open.
OpenIffWatching == open <=> \E w \in Dirs : watches[w] # Nil

\* The hub's maps as a set of subscriptions.
Subscribed == {s \in Handlers \X Dirs : dirs[s[2]] # Nil /\ s[1] \in dirs[s[2]].handlers}

Promise == INSTANCE Subscriptions WITH subscriptions <- Subscribed

\* However paths share watches and watches move, a handler's subscription to a
\* path ends only by its own unsubscribe or by a failing subscribe to that path.
ImplementsSubscriptions == Promise!Spec

\* fsnotify watches nothing the hub has forgotten, and no path is added twice.
NoOrphanWatch == \A d \in Dirs : Listed(fsn, d) => watches[d] # Nil

\* Every change in a directory the hub believes it watches reaches every handler
\* subscribed to any path of it, or the drop of that watch is still to be taken.
EveryChangeIsHeard == \A d \in Dirs :
    (/\ dirs[d] # Nil /\ dirs[d].watch # Nil
     /\ watches[dirs[d].watch].info = target[d]
     /\ dirs[d].watch \notin events)
    => \A h \in dirs[d].handlers : <<h, d>> \in TargetsFor(target[d])

\* A handler that keeps subscribing to a path is, again and again, told of the
\* changes in the directory the path leads to: whatever was renamed, replaced or
\* re-pointed, the watch is moved there.
WatchRecovers == \A h \in Handlers, d \in Dirs :
    []<>(target[d] # Nil => <<h, d>> \in TargetsFor(target[d]))
=============================================================================

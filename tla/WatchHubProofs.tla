--------------------------- MODULE WatchHubProofs ---------------------------
(***************************************************************************)
(* Theorems about WatchHub, for all sets of paths, directories and         *)
(* handlers.  The functions called with h.mu held map one hub record to    *)
(* others; each lemma says what one of them preserves of a sound record.   *)
(***************************************************************************)
EXTENDS WatchHub, TLAPS

\* Why every change is heard, as long as no path is re-pointed during a subscribe of it: fsnotify
\* watches the directory the hub recorded and names its events after the hub's watch,
\* and the drop of a watch it no longer has is still to be taken.
FsnInv ==
    /\ \A w \in Dirs : Listed(fsn, w) =>
         /\ watches[w] # Nil /\ watches[w].info = fsn.on[w]
         /\ fsn.name[fsn.on[w]] = w
    /\ \A i \in Inodes : fsn.name[i] # Nil => fsn.on[fsn.name[i]] = i
    /\ \A w \in Dirs : watches[w] # Nil /\ ~Listed(fsn, w) => w \in events

\* A subscribe acts on what the path leads to.
CallInv == \A h \in Handlers : call[h] # Nil => call[h].info = target[call[h].dir]

HubType == [dirs : [Dirs -> HubDir \cup {Nil}], watches : [Dirs -> HubWatch \cup {Nil}],
            open : BOOLEAN, fsn : Fsnotify]

\* The maps agree, the watcher is open while something is watched, and fsnotify watches
\* nothing else.
Sound(hub) ==
    /\ hub \in HubType
    /\ \A d \in Dirs : hub.dirs[d] # Nil /\ hub.dirs[d].watch # Nil =>
         /\ hub.watches[hub.dirs[d].watch] # Nil
         /\ d \in hub.watches[hub.dirs[d].watch].dirs
    /\ \A w \in Dirs : hub.watches[w] # Nil =>
         /\ hub.open /\ w \in hub.watches[w].dirs
         /\ \A d \in hub.watches[w].dirs : hub.dirs[d] # Nil /\ hub.dirs[d].watch = w
    /\ \A d \in Dirs : Listed(hub.fsn, d) => hub.watches[d] # Nil

\* The directories known, and who is subscribed to each, are the same.
SameHandlers(hub, after) == \A d \in Dirs :
    /\ after.dirs[d] = Nil <=> hub.dirs[d] = Nil
    /\ hub.dirs[d] # Nil => after.dirs[d].handlers = hub.dirs[d].handlers

\* fsnotify watches the directories the hub recorded, and names their events after the
\* hub's watches.
Faithful(hub) ==
    /\ \A w \in Dirs : Listed(hub.fsn, w) =>
         /\ hub.watches[w] # Nil /\ hub.watches[w].info = hub.fsn.on[w]
         /\ hub.fsn.name[hub.fsn.on[w]] = w
    /\ \A i \in Inodes : hub.fsn.name[i] # Nil => hub.fsn.on[hub.fsn.name[i]] = i

\* The watches fsnotify no longer has.
Dropped(hub) == {w \in Dirs : hub.watches[w] # Nil /\ ~Listed(hub.fsn, w)}

\* The paths Attach adds to fsnotify: each leads to its own watch, which is new.
Added(hub, lead) == {d \in DOMAIN lead : lead[d] = d /\ hub.watches[d] = Nil}

\* Detached paths may be attached to watches that exist or are added.
MayAttach(hub, ds, lead, inf) ==
    /\ ds \subseteq Dirs /\ lead \in [ds -> Dirs \cup {Nil}]
    /\ \A d \in ds : hub.dirs[d] # Nil /\ hub.dirs[d].watch = Nil
    /\ \A d \in ds : lead[d] # Nil =>
         \/ hub.watches[lead[d]] # Nil
         \/ lead[d] \in ds /\ lead[lead[d]] = lead[d] /\ inf[lead[d]] \in Inodes

\* What attaching them does.
Attached(hub, ds, lead, inf, after) ==
    /\ \A d \in ds : after.dirs[d].watch = lead[d]
    /\ after.fsn = FsnAdd(hub.fsn, Added(hub, lead))
    /\ \A w \in Added(hub, lead) : after.watches[w] # Nil /\ after.watches[w].info = inf[w]
    /\ \A w \in Dirs \ Added(hub, lead) :
         /\ after.watches[w] = Nil <=> hub.watches[w] = Nil
         /\ hub.watches[w] # Nil => after.watches[w].info = hub.watches[w].info

\* A path that is attached is on the watch it was given, which exists or is added.
LEMMA AttachSound ==
    ASSUME TypeOK, NEW hub, Sound(hub), NEW ds, NEW lead, NEW inf,
           MayAttach(hub, ds, lead, inf)
    PROVE  /\ Sound(Attach(hub, lead, inf))
           /\ SameHandlers(hub, Attach(hub, lead, inf))
           /\ Attached(hub, ds, lead, inf, Attach(hub, lead, inf))
<1> DEFINE joined == {d \in ds : lead[d] # Nil}
           added == {d \in joined : lead[d] = d /\ hub.watches[d] = Nil}
           mine(w) == {d \in joined : lead[d] = w}
           after == Attach(hub, lead, inf)
<1>h. /\ ds \subseteq Dirs /\ lead \in [ds -> Dirs \cup {Nil}]
      /\ \A d \in ds : hub.dirs[d] # Nil /\ hub.dirs[d].watch = Nil
      /\ \A d \in ds : lead[d] # Nil =>
           \/ hub.watches[lead[d]] # Nil
           \/ lead[d] \in ds /\ lead[lead[d]] = lead[d] /\ inf[lead[d]] \in Inodes
  BY DEF MayAttach
<1> USE <1>h
<1>0. /\ hub.dirs \in [Dirs -> HubDir \cup {Nil}] /\ hub.open \in BOOLEAN
      /\ hub.watches \in [Dirs -> HubWatch \cup {Nil}] /\ hub.fsn \in Fsnotify
      /\ target \in [Dirs -> Inodes \cup {Nil}]
      /\ Nil \notin Dirs /\ Nil \notin HubDir /\ Nil \notin HubWatch
      /\ DOMAIN lead = ds
  BY HubAssumption, NilAssumption DEF Sound, HubType, TypeOK
<1>1. after = [dirs    |-> [d \in Dirs |-> IF d \in joined
                                    THEN [hub.dirs[d] EXCEPT !.watch = lead[d]]
                                    ELSE hub.dirs[d]],
        watches |-> [w \in Dirs |->
                          IF w \in added THEN [info |-> inf[w], dirs |-> mine(w)]
                          ELSE IF mine(w) # {}
                               THEN [hub.watches[w] EXCEPT !.dirs = @ \cup mine(w)]
                               ELSE hub.watches[w]],
        open    |-> hub.open \/ added # {},
        fsn     |-> FsnAdd(hub.fsn, added)]
  BY <1>0 DEF Attach
<1> HIDE DEF after
<1>2. \A d \in Dirs : after.dirs[d] = IF d \in joined
                                       THEN [hub.dirs[d] EXCEPT !.watch = lead[d]]
                                       ELSE hub.dirs[d]
  BY <1>1
<1>3. ASSUME NEW d \in Dirs
      PROVE  /\ after.dirs[d] \in HubDir \cup {Nil}
             /\ after.dirs[d] = Nil <=> hub.dirs[d] = Nil
             /\ hub.dirs[d] # Nil => after.dirs[d].handlers = hub.dirs[d].handlers
             /\ d \in joined => after.dirs[d].watch = lead[d]
             /\ d \notin joined => after.dirs[d] = hub.dirs[d]
  <2>1. CASE d \in joined
    <3>1. /\ hub.dirs[d] \in HubDir /\ lead[d] \in Dirs \cup {Nil}
          /\ after.dirs[d] = [hub.dirs[d] EXCEPT !.watch = lead[d]]
      BY <1>0, <1>2, <2>1
    <3> QED
      BY <1>0, <2>1, <3>1 DEF HubDir
  <2>2. CASE d \notin joined
    BY <1>0, <1>2, <2>2
  <2> QED
    BY <2>1, <2>2
<1>4. ASSUME NEW w \in Dirs
      PROVE  /\ w \in added => after.watches[w] = [info |-> inf[w], dirs |-> mine(w)]
             /\ w \notin added /\ mine(w) # {} =>
                  /\ hub.watches[w] # Nil
                  /\ after.watches[w] = [hub.watches[w] EXCEPT !.dirs = @ \cup mine(w)]
             /\ w \notin added /\ mine(w) = {} => after.watches[w] = hub.watches[w]
  <2>1. after.watches[w] = IF w \in added THEN [info |-> inf[w], dirs |-> mine(w)]
                           ELSE IF mine(w) # {}
                                THEN [hub.watches[w] EXCEPT !.dirs = @ \cup mine(w)]
                                ELSE hub.watches[w]
    BY <1>1
  <2>2. ASSUME NEW d \in mine(w), hub.watches[w] = Nil PROVE w \in added
    BY <1>0, <2>2
  <2> HIDE DEF mine, added
  <2> QED
    BY <2>1, <2>2
<1>5. ASSUME NEW w \in Dirs
      PROVE  /\ after.watches[w] \in HubWatch \cup {Nil}
             /\ w \in added \/ mine(w) # {} => after.watches[w] # Nil
             /\ w \in added => after.watches[w].dirs = mine(w) /\ w \in mine(w)
             /\ w \notin added /\ hub.watches[w] # Nil =>
                  after.watches[w].dirs = hub.watches[w].dirs \cup mine(w)
             /\ w \notin added /\ mine(w) = {} => after.watches[w] = hub.watches[w]
  <2>1. mine(w) \subseteq Dirs
    OBVIOUS
  <2>2. CASE w \in added
    <3>1. inf[w] \in Inodes
      BY <2>2
    <3>2. after.watches[w] = [info |-> inf[w], dirs |-> mine(w)] /\ w \in mine(w)
      BY <1>4, <2>2
    <3> QED
      BY <1>0, <2>1, <2>2, <3>1, <3>2 DEF HubWatch
  <2>3. CASE w \notin added
    <3>1. CASE mine(w) = {}
      BY <1>0, <1>4, <2>3, <3>1 DEF HubWatch
    <3>2. CASE mine(w) # {}
      <4>1. /\ hub.watches[w] \in HubWatch
            /\ after.watches[w] = [hub.watches[w] EXCEPT !.dirs = @ \cup mine(w)]
        <5>1. hub.watches[w] # Nil
          BY <1>4, <2>3, <3>2
        <5>2. after.watches[w] = [hub.watches[w] EXCEPT !.dirs = @ \cup mine(w)]
          BY <1>4, <2>3, <3>2
        <5> QED
          BY <1>0, <5>1, <5>2
      <4> HIDE DEF mine, added
      <4> QED
        BY <1>0, <2>1, <2>3, <3>2, <4>1 DEF HubWatch
    <3> QED
      BY <3>1, <3>2
  <2> QED
    BY <2>2, <2>3
<1>6. FsnAdd(hub.fsn, added) \in Fsnotify
  BY <1>0 DEF FsnAdd, Fsnotify
<1>7. after \in HubType
  BY <1>0, <1>1, <1>3, <1>5, <1>6 DEF HubType
<1>8. ASSUME NEW d \in Dirs, after.dirs[d] # Nil, after.dirs[d].watch # Nil
      PROVE  after.watches[after.dirs[d].watch] # Nil /\ d \in after.watches[after.dirs[d].watch].dirs
  <2>1. CASE d \in joined
    <3>1. lead[d] \in Dirs /\ d \in mine(lead[d]) /\ after.dirs[d].watch = lead[d]
      BY <1>3, <2>1
    <3>2. lead[d] \in added \/ hub.watches[lead[d]] # Nil
      BY <2>1, <3>1
    <3> QED
      BY <1>5, <3>1, <3>2
  <2>2. CASE d \notin joined
    <3>1. after.dirs[d] = hub.dirs[d] /\ hub.dirs[d].watch \in Dirs
      BY <1>0, <1>3, <1>8, <2>2 DEF HubDir
    <3>2. hub.watches[hub.dirs[d].watch] # Nil /\ d \in hub.watches[hub.dirs[d].watch].dirs
      BY <1>8, <3>1 DEF Sound
    <3> QED
      BY <1>5, <3>1, <3>2
  <2> QED
    BY <2>1, <2>2
<1>9. ASSUME NEW w \in Dirs, after.watches[w] # Nil
      PROVE  /\ after.open /\ w \in after.watches[w].dirs
             /\ \A d \in after.watches[w].dirs : after.dirs[d] # Nil /\ after.dirs[d].watch = w
  <2>1. CASE w \in added
    BY ZenonT(60), <1>1, <1>3, <1>5, <2>1
  <2>2. CASE w \notin added
    <3>1. hub.watches[w] # Nil
      BY <1>4, <1>9, <2>2
    <3>2. /\ hub.open /\ w \in hub.watches[w].dirs /\ hub.watches[w].dirs \subseteq Dirs
          /\ \A d \in hub.watches[w].dirs : hub.dirs[d] # Nil /\ hub.dirs[d].watch = w
      BY <1>0, <3>1 DEF Sound, HubWatch
    <3>3. \A d \in hub.watches[w].dirs : d \notin joined
      BY <1>0, <3>2
    <3>4. after.watches[w].dirs = hub.watches[w].dirs \cup mine(w) /\ after.open
      BY <1>1, <1>5, <2>2, <3>1, <3>2
    <3>5. \A d \in mine(w) : after.dirs[d] # Nil /\ after.dirs[d].watch = w
      BY <1>3
    <3>6. \A d \in hub.watches[w].dirs : after.dirs[d] # Nil /\ after.dirs[d].watch = w
      BY <1>3, <3>2, <3>3
    <3> QED
      BY <3>2, <3>4, <3>5, <3>6
  <2> QED
    BY <2>1, <2>2
<1>10. ASSUME NEW d \in Dirs, Listed(after.fsn, d) PROVE after.watches[d] # Nil
  <2>1. CASE d \in added
    BY <1>5, <2>1
  <2>2. CASE d \notin added
    <3>1. hub.watches[d] # Nil
      BY <1>1, <1>10, <2>2 DEF Sound, Listed, FsnAdd
    <3> QED
      BY <1>0, <1>5, <2>2, <3>1 DEF HubWatch
  <2> QED
    BY <2>1, <2>2
<1>11. Sound(after)
  BY <1>7, <1>8, <1>9, <1>10 DEF Sound
<1>12. SameHandlers(hub, after)
  BY <1>3 DEF SameHandlers
<1>13. \A d \in ds : after.dirs[d].watch = lead[d]
  <2> SUFFICES ASSUME NEW d \in ds PROVE after.dirs[d].watch = lead[d]
    OBVIOUS
  <2>1. CASE d \in joined
    BY <1>3, <2>1
  <2>2. CASE d \notin joined
    BY <1>3, <2>2
  <2> QED
    BY <2>1, <2>2
<1>14. Added(hub, lead) = added
  BY <1>0 DEF Added
<1>15. after.fsn = FsnAdd(hub.fsn, Added(hub, lead))
  BY <1>1, <1>14
<1>16. \A w \in Added(hub, lead) : after.watches[w] # Nil /\ after.watches[w].info = inf[w]
  <2> SUFFICES ASSUME NEW w \in added
               PROVE  after.watches[w] # Nil /\ after.watches[w].info = inf[w]
    BY <1>14
  <2>1. w \in Dirs
    OBVIOUS
  <2>2. after.watches[w] # Nil /\ after.watches[w] = [info |-> inf[w], dirs |-> mine(w)]
    BY <1>4, <1>5, <2>1
  <2> HIDE DEF mine
  <2> QED
    BY <2>2
<1>17. ASSUME NEW w \in Dirs \ Added(hub, lead)
       PROVE  /\ after.watches[w] = Nil <=> hub.watches[w] = Nil
              /\ hub.watches[w] # Nil => after.watches[w].info = hub.watches[w].info
  <2>1. w \notin added /\ w \in Dirs
    BY <1>14
  <2>2. CASE mine(w) = {}
    BY <1>4, <2>1, <2>2
  <2>3. CASE mine(w) # {}
    <3>1. /\ hub.watches[w] # Nil /\ after.watches[w] # Nil
          /\ after.watches[w] = [hub.watches[w] EXCEPT !.dirs = @ \cup mine(w)]
      BY <1>4, <1>5, <2>1, <2>3
    <3>2. hub.watches[w] \in HubWatch
      BY <1>0, <2>1, <3>1
    <3> HIDE DEF mine
    <3> QED
      BY <3>1, <3>2 DEF HubWatch
  <2> QED
    BY <2>2, <2>3
<1>18. /\ Sound(after) /\ SameHandlers(hub, after)
       /\ \A w \in Dirs \ Added(hub, lead) :
             /\ after.watches[w] = Nil <=> hub.watches[w] = Nil
             /\ hub.watches[w] # Nil => after.watches[w].info = hub.watches[w].info
  BY <1>11, <1>12, <1>17
<1> HIDE DEF joined, added, mine
<1> QED
  BY <1>13, <1>15, <1>16, <1>18 DEF after, Attached

\* What Attach adds, fsnotify watches as the hub records it, if each new watch is of the
\* directory its path leads to and no directory gets two.
LEMMA AttachFaithful ==
    ASSUME TypeOK, NEW hub, Sound(hub), Faithful(hub), NEW ds, NEW lead, NEW inf,
           MayAttach(hub, ds, lead, inf),
           \A w \in Added(hub, lead) : /\ inf[w] = target[w] /\ target[w] # Nil
                                       /\ Watched(hub, target[w]) = {},
           \A w, x \in Added(hub, lead) : target[w] = target[x] => w = x
    PROVE  /\ Faithful(Attach(hub, lead, inf))
           /\ Dropped(Attach(hub, lead, inf)) \subseteq Dropped(hub)
<1> DEFINE added == Added(hub, lead)
           after == Attach(hub, lead, inf)
<1>0. /\ hub.fsn \in Fsnotify /\ target \in [Dirs -> Inodes \cup {Nil}] /\ added \subseteq Dirs
      /\ Nil \notin Dirs /\ Nil \notin Inodes
  BY HubAssumption DEF Sound, HubType, TypeOK, Added, MayAttach
<1>1. /\ after.fsn = FsnAdd(hub.fsn, added)
      /\ \A w \in added : after.watches[w] # Nil /\ after.watches[w].info = inf[w]
      /\ \A w \in Dirs \ added :
           /\ after.watches[w] = Nil <=> hub.watches[w] = Nil
           /\ hub.watches[w] # Nil => after.watches[w].info = hub.watches[w].info
  BY AttachSound DEF Attached
<1>2. /\ \A w \in added : inf[w] = target[w] /\ target[w] \in Inodes /\ hub.watches[w] = Nil
                           /\ Watched(hub, target[w]) = {}
      /\ \A w, x \in added : target[w] = target[x] => w = x
  BY <1>0 DEF Added
<1> HIDE DEF added, after
<1>3. /\ \A d \in added : after.fsn.on[d] = target[d]
      /\ \A d \in Dirs \ added : after.fsn.on[d] = hub.fsn.on[d]
      /\ \A i \in Inodes : after.fsn.name[i] =
            IF hub.fsn.name[i] = Nil /\ \E d \in added : target[d] = i
            THEN CHOOSE d \in added : target[d] = i ELSE hub.fsn.name[i]
  <2>1. /\ after.fsn.on = [d \in Dirs |-> IF d \in added THEN target[d] ELSE hub.fsn.on[d]]
        /\ after.fsn.name = [i \in Inodes |->
               IF hub.fsn.name[i] = Nil /\ \E d \in added : target[d] = i
               THEN CHOOSE d \in added : target[d] = i ELSE hub.fsn.name[i]]
    BY <1>1 DEF FsnAdd
  <2> QED
    BY <1>0, <2>1
<1>4. /\ \A i \in Inodes : hub.fsn.name[i] \in Dirs \cup {Nil}
      /\ \A d \in Dirs : hub.fsn.on[d] \in Inodes \cup {Nil}
  BY <1>0 DEF Fsnotify
<1>5. \A i \in Inodes : hub.fsn.name[i] # Nil =>
        /\ hub.fsn.name[i] \in Dirs /\ hub.fsn.on[hub.fsn.name[i]] = i
        /\ hub.watches[hub.fsn.name[i]] # Nil /\ hub.watches[hub.fsn.name[i]].info = i
  BY <1>0, <1>4 DEF Faithful, Listed
<1>6. ASSUME NEW w \in added
      PROVE  /\ Listed(after.fsn, w) /\ after.watches[w] # Nil
             /\ after.watches[w].info = after.fsn.on[w]
             /\ after.fsn.name[after.fsn.on[w]] = w
  <2>1. hub.fsn.name[target[w]] = Nil
    BY <1>2, <1>5 DEF Watched
  <2>2. (CHOOSE d \in added : target[d] = target[w]) = w
    BY <1>2
  <2>3. after.fsn.on[w] = target[w] /\ target[w] \in Inodes /\ target[w] # Nil
    BY <1>0, <1>2, <1>3
  <2>4. after.fsn.name[target[w]] = CHOOSE d \in added : target[d] = target[w]
    BY <1>3, <2>1, <2>3
  <2> QED
    BY <1>1, <1>2, <2>2, <2>3, <2>4 DEF Listed
<1>7. ASSUME NEW w \in Dirs \ added, Listed(after.fsn, w)
      PROVE  /\ after.watches[w] # Nil
             /\ after.watches[w].info = after.fsn.on[w]
             /\ after.fsn.name[after.fsn.on[w]] = w
  <2>1. Listed(hub.fsn, w) /\ after.fsn.on[w] = hub.fsn.on[w]
    BY <1>3, <1>7 DEF Listed
  <2>2. /\ hub.watches[w] # Nil /\ hub.watches[w].info = hub.fsn.on[w]
        /\ hub.fsn.name[hub.fsn.on[w]] = w /\ hub.fsn.on[w] \in Inodes
    BY <1>4, <2>1 DEF Faithful, Listed
  <2>3. after.fsn.name[hub.fsn.on[w]] = hub.fsn.name[hub.fsn.on[w]]
    BY <1>0, <1>3, <2>2
  <2>4. after.watches[w] # Nil /\ after.watches[w].info = hub.watches[w].info
    BY <1>1, <2>2
  <2> QED
    BY <2>1, <2>2, <2>3, <2>4
<1>8. ASSUME NEW i \in Inodes, after.fsn.name[i] # Nil
      PROVE  after.fsn.on[after.fsn.name[i]] = i
  <2>1. CASE hub.fsn.name[i] # Nil
    BY <1>2, <1>3, <1>5, <2>1
  <2>2. CASE hub.fsn.name[i] = Nil
    <3>1. PICK d \in added : target[d] = i
      BY <1>3, <1>8, <2>2
    <3>2. after.fsn.name[i] \in added /\ target[after.fsn.name[i]] = i
      BY <1>3, <2>2, <3>1
    <3> QED
      BY <1>3, <3>2
  <2> QED
    BY <2>1, <2>2
<1>9. Dropped(after) \subseteq Dropped(hub)
  BY <1>1, <1>3, <1>6 DEF Dropped, Listed
<1>10. Faithful(after)
  BY <1>6, <1>7, <1>8 DEF Faithful
<1> QED
  BY <1>9, <1>10 DEF after

\* Closing the idle watcher changes no map, and leaves it open exactly while something
\* is watched.
LEMMA CloseSound ==
    ASSUME NEW hub, Sound(hub)
    PROVE  /\ Sound(CloseIfIdle(hub))
           /\ CloseIfIdle(hub).dirs = hub.dirs
           /\ CloseIfIdle(hub).watches = hub.watches
           /\ CloseIfIdle(hub).open <=> \E w \in Dirs : hub.watches[w] # Nil
           /\ Faithful(hub) => /\ Faithful(CloseIfIdle(hub))
                               /\ Dropped(CloseIfIdle(hub)) \subseteq Dropped(hub)
<1>1. CASE hub.open /\ \A w \in Dirs : hub.watches[w] = Nil
  <2> DEFINE after == [hub EXCEPT !.open = FALSE, !.fsn = Closed]
  <2>1. Closed \in Fsnotify
    BY DEF Closed, Fsnotify
  <2>2. /\ after \in HubType /\ after.dirs = hub.dirs /\ after.watches = hub.watches
        /\ after.open = FALSE /\ after.fsn = Closed
    BY <2>1 DEF Sound, HubType
  <2>3. Sound(after)
    BY <1>1, <2>2 DEF Sound, Listed, Closed
  <2>4. Faithful(after) /\ Dropped(after) = {}
    BY <1>1, <2>2 DEF Faithful, Dropped, Listed, Closed
  <2>5. CloseIfIdle(hub) = after
    BY <1>1 DEF CloseIfIdle
  <2> HIDE DEF after
  <2> QED
    BY <1>1, <2>2, <2>3, <2>4, <2>5
<1>2. CASE ~(hub.open /\ \A w \in Dirs : hub.watches[w] = Nil)
  BY <1>2 DEF CloseIfIdle, Sound
<1> QED
  BY <1>1, <1>2

\* A watch is removed, and its paths are on none.
Gone(hub, d, ds) ==
    [hub EXCEPT !.dirs = Detached(hub, ds), !.watches[d] = Nil, !.fsn = FsnRemove(@, d)]

\* Removing a watch that none of its paths is on any more.
LEMMA GoneSound ==
    ASSUME TypeOK, NEW hub, Sound(hub), NEW d \in Dirs, hub.watches[d] # Nil,
           NEW ds, ds = hub.watches[d].dirs, NEW gone, gone = Gone(hub, d, ds)
    PROVE  /\ Sound(gone) /\ SameHandlers(hub, gone) /\ gone.watches[d] = Nil
           /\ \A x \in ds : gone.dirs[x] # Nil /\ gone.dirs[x].watch = Nil
           /\ Faithful(hub) => Faithful(gone) /\ Dropped(gone) \subseteq Dropped(hub)
<1>0. /\ hub.dirs \in [Dirs -> HubDir \cup {Nil}]
      /\ hub.watches \in [Dirs -> HubWatch \cup {Nil}] /\ hub.fsn \in Fsnotify
      /\ Nil \notin Dirs /\ Nil \notin Inodes /\ Nil \notin HubDir /\ Nil \notin HubWatch
      /\ ds \subseteq Dirs
      /\ \A x \in ds : hub.dirs[x] # Nil /\ hub.dirs[x].watch = d
  BY HubAssumption, NilAssumption DEF Sound, HubType, HubWatch
<1>1. /\ gone.dirs = Detached(hub, ds) /\ gone.watches = [hub.watches EXCEPT ![d] = Nil]
      /\ gone.open = hub.open /\ gone.fsn = FsnRemove(hub.fsn, d)
      /\ gone = [dirs |-> gone.dirs, watches |-> gone.watches, open |-> gone.open, fsn |-> gone.fsn]
  BY DEF Sound, HubType, Gone
<1>2. ASSUME NEW x \in Dirs
      PROVE  /\ gone.dirs[x] \in HubDir \cup {Nil}
             /\ gone.dirs[x] = Nil <=> hub.dirs[x] = Nil
             /\ hub.dirs[x] # Nil => gone.dirs[x].handlers = hub.dirs[x].handlers
             /\ x \in ds => gone.dirs[x].watch = Nil
             /\ x \notin ds => gone.dirs[x] = hub.dirs[x]
  <2>1. gone.dirs[x] = IF x \in ds /\ hub.dirs[x] # Nil
                       THEN [hub.dirs[x] EXCEPT !.watch = Nil] ELSE hub.dirs[x]
    BY <1>1 DEF Detached
  <2> QED
    BY <1>0, <2>1 DEF HubDir
<1>3. /\ gone.watches \in [Dirs -> HubWatch \cup {Nil}] /\ gone.watches[d] = Nil
      /\ \A w \in Dirs \ {d} : gone.watches[w] = hub.watches[w]
  BY <1>0, <1>1
<1>4. gone.fsn \in Fsnotify
  <2>1. CASE ~Listed(hub.fsn, d)
    BY <1>0, <1>1, <2>1 DEF FsnRemove
  <2>2. CASE Listed(hub.fsn, d)
    <3>1. gone.fsn = FsnForget(hub.fsn, hub.fsn.on[d])
      BY <1>1, <2>2 DEF FsnRemove
    <3>2. [x \in Dirs |-> IF hub.fsn.on[x] = hub.fsn.on[d] THEN Nil ELSE hub.fsn.on[x]]
            \in [Dirs -> Inodes \cup {Nil}]
      BY <1>0 DEF Fsnotify
    <3>3. [hub.fsn.name EXCEPT ![hub.fsn.on[d]] = Nil] \in [Inodes -> Dirs \cup {Nil}]
      BY <1>0 DEF Fsnotify
    <3> QED
      BY <3>1, <3>2, <3>3 DEF FsnForget, Fsnotify
  <2> QED
    BY <2>1, <2>2
<1>5. gone.dirs \in [Dirs -> HubDir \cup {Nil}]
  BY <1>1, <1>2 DEF Detached
<1>6. gone \in HubType
  BY <1>1, <1>3, <1>4, <1>5 DEF Sound, HubType
<1>7. \A x \in Dirs : Listed(gone.fsn, x) => Listed(hub.fsn, x) /\ gone.fsn.on[x] = hub.fsn.on[x] /\ x # d
  BY <1>0, <1>1 DEF FsnRemove, FsnForget, Listed, Fsnotify
<1>8. ASSUME NEW x \in Dirs, gone.dirs[x] # Nil, gone.dirs[x].watch # Nil
      PROVE  gone.watches[gone.dirs[x].watch] # Nil /\ x \in gone.watches[gone.dirs[x].watch].dirs
  <2>1. /\ x \notin ds /\ gone.dirs[x] = hub.dirs[x] /\ hub.dirs[x].watch \in Dirs
    BY <1>0, <1>2, <1>8 DEF HubDir
  <2>2. hub.watches[hub.dirs[x].watch] # Nil /\ x \in hub.watches[hub.dirs[x].watch].dirs
    BY <1>8, <2>1 DEF Sound
  <2> QED
    BY <1>3, <2>1, <2>2
<1>9. ASSUME NEW w \in Dirs, gone.watches[w] # Nil
      PROVE  /\ gone.open /\ w \in gone.watches[w].dirs
             /\ \A x \in gone.watches[w].dirs : gone.dirs[x] # Nil /\ gone.dirs[x].watch = w
  <2>1. /\ w # d /\ gone.watches[w] = hub.watches[w] /\ hub.open
        /\ w \in hub.watches[w].dirs /\ hub.watches[w].dirs \subseteq Dirs
        /\ \A x \in hub.watches[w].dirs : hub.dirs[x] # Nil /\ hub.dirs[x].watch = w
    BY <1>0, <1>3, <1>9 DEF Sound, HubWatch
  <2>2. \A x \in hub.watches[w].dirs : x \notin ds
    BY <1>0, <2>1
  <2> QED
    BY <1>1, <1>2, <2>1, <2>2
<1>s. \A x \in Dirs : Listed(gone.fsn, x) => gone.watches[x] # Nil
  BY <1>3, <1>7 DEF Sound
<1>10. Sound(gone)
  BY <1>6, <1>8, <1>9, <1>s DEF Sound
<1>11. SameHandlers(hub, gone)
  BY <1>2 DEF SameHandlers
<1>12. ASSUME Faithful(hub) PROVE Faithful(gone) /\ Dropped(gone) \subseteq Dropped(hub)
  <2>1. CASE Listed(hub.fsn, d)
    <3>1. /\ hub.fsn.on[d] \in Inodes /\ hub.fsn.name[hub.fsn.on[d]] = d
      BY <1>0, <1>12, <2>1 DEF Faithful, Listed, Fsnotify
    <3>2. /\ \A x \in Dirs : gone.fsn.on[x] = IF hub.fsn.on[x] = hub.fsn.on[d] THEN Nil
                                              ELSE hub.fsn.on[x]
          /\ gone.fsn.name = [hub.fsn.name EXCEPT ![hub.fsn.on[d]] = Nil]
      BY <1>1, <2>1 DEF FsnRemove, FsnForget
    <3>3. \A x \in Dirs \ {d} : Listed(hub.fsn, x) =>
            /\ hub.fsn.on[x] # hub.fsn.on[d] /\ hub.fsn.on[x] \in Inodes
            /\ gone.fsn.on[x] = hub.fsn.on[x]
            /\ gone.fsn.name[hub.fsn.on[x]] = x
            /\ hub.watches[x] # Nil /\ hub.watches[x].info = hub.fsn.on[x]
      BY <1>0, <1>12, <3>1, <3>2 DEF Faithful, Listed, Fsnotify
    <3>4. \A i \in Inodes : gone.fsn.name[i] # Nil => gone.fsn.on[gone.fsn.name[i]] = i
      <4> SUFFICES ASSUME NEW i \in Inodes, gone.fsn.name[i] # Nil
                   PROVE  gone.fsn.on[gone.fsn.name[i]] = i
        OBVIOUS
      <4>1. i # hub.fsn.on[d] /\ gone.fsn.name[i] = hub.fsn.name[i] /\ hub.fsn.name[i] \in Dirs
        BY <1>0, <3>1, <3>2 DEF Fsnotify
      <4>2. hub.fsn.on[hub.fsn.name[i]] = i
        BY <1>12, <4>1 DEF Faithful
      <4> QED
        BY <3>2, <4>1, <4>2
    <3>5. Faithful(gone)
      BY <1>3, <1>7, <3>3, <3>4 DEF Faithful
    <3>6. Dropped(gone) \subseteq Dropped(hub)
      BY <1>0, <1>3, <3>3 DEF Dropped, Listed
    <3> QED
      BY <3>5, <3>6
  <2>2. CASE ~Listed(hub.fsn, d)
    <3>1. gone.fsn = hub.fsn
      BY <1>1, <2>2 DEF FsnRemove
    <3>2. Faithful(gone)
      BY <1>3, <1>12, <2>2, <3>1 DEF Faithful
    <3>3. Dropped(gone) \subseteq Dropped(hub)
      BY <1>3, <3>1 DEF Dropped
    <3> QED
      BY <3>2, <3>3
  <2> QED
    BY <2>1, <2>2
<1> QED
  BY <1>2, <1>3, <1>10, <1>11, <1>12, <1>0

\* detachLocked takes the path off its watch, and leaves the other paths of the watch,
\* if the watch goes, on watches that exist, on a new one of theirs, or on none.
LEMMA DetachSound ==
    ASSUME TypeOK, NEW hub, Sound(hub), NEW d \in Dirs, hub.dirs[d] # Nil,
           NEW after \in Detach(hub, d)
    PROVE  /\ Sound(after) /\ SameHandlers(hub, after)
           /\ after.dirs[d].watch = Nil
           /\ Faithful(hub) => Faithful(after) /\ Dropped(after) \subseteq Dropped(hub)
<1> DEFINE w == hub.dirs[d].watch
<1>0. /\ hub.dirs \in [Dirs -> HubDir \cup {Nil}] /\ hub.fsn \in Fsnotify
      /\ hub.watches \in [Dirs -> HubWatch \cup {Nil}]
      /\ Nil \notin Dirs /\ Nil \notin Inodes /\ Nil \notin HubDir /\ Nil \notin HubWatch
      /\ target \in [Dirs -> Inodes \cup {Nil}]
  BY HubAssumption, NilAssumption DEF Sound, HubType, TypeOK
<1>1. CASE w = Nil
  BY <1>1 DEF Detach, SameHandlers
<1>2. CASE w # Nil /\ w # d
  <2>1. /\ w \in Dirs /\ hub.watches[w] \in HubWatch /\ d \in hub.watches[w].dirs
    BY <1>0, <1>2 DEF Sound, HubDir
  <2>2. after = [hub EXCEPT !.dirs = Detached(hub, {d}), !.watches[w].dirs = @ \ {d}]
    BY <1>2 DEF Detach
  <2>3. /\ after.dirs = Detached(hub, {d})
        /\ after.watches = [hub.watches EXCEPT ![w].dirs = @ \ {d}]
        /\ after.open = hub.open /\ after.fsn = hub.fsn
        /\ after = [dirs |-> after.dirs, watches |-> after.watches, open |-> after.open,
                    fsn |-> after.fsn]
    BY <2>2 DEF Sound, HubType
  <2>4. /\ after.dirs \in [Dirs -> HubDir \cup {Nil}]
        /\ after.dirs[d] # Nil /\ after.dirs[d].watch = Nil
        /\ after.dirs[d].handlers = hub.dirs[d].handlers
        /\ \A x \in Dirs \ {d} : after.dirs[x] = hub.dirs[x]
    <3>1. after.dirs = [x \in Dirs |-> IF x \in {d} /\ hub.dirs[x] # Nil
                                       THEN [hub.dirs[x] EXCEPT !.watch = Nil] ELSE hub.dirs[x]]
      BY <2>3 DEF Detached
    <3>2. PICK r : r = [hub.dirs[d] EXCEPT !.watch = Nil]
      OBVIOUS
    <3>3. r \in HubDir /\ r.watch = Nil /\ r.handlers = hub.dirs[d].handlers
      BY <1>0, <3>2 DEF HubDir
    <3>4. after.dirs[d] = r /\ \A x \in Dirs \ {d} : after.dirs[x] = hub.dirs[x]
      BY <3>1, <3>2
    <3>5. after.dirs \in [Dirs -> HubDir \cup {Nil}]
      <4>1. after.dirs = [hub.dirs EXCEPT ![d] = r]
        BY <1>0, <3>1, <3>2
      <4> QED
        BY <1>0, <3>3, <4>1
    <3> QED
      BY <1>0, <3>3, <3>4, <3>5
  <2>5. /\ after.watches \in [Dirs -> HubWatch \cup {Nil}]
        /\ after.watches[w] # Nil /\ after.watches[w].dirs = hub.watches[w].dirs \ {d}
        /\ after.watches[w].info = hub.watches[w].info
        /\ \A x \in Dirs \ {w} : after.watches[x] = hub.watches[x]
    <3>1. after.watches = [hub.watches EXCEPT ![w] = [hub.watches[w] EXCEPT !.dirs = @ \ {d}]]
      BY <2>3
    <3>2. [hub.watches[w] EXCEPT !.dirs = @ \ {d}] \in HubWatch
      BY <2>1 DEF HubWatch
    <3>3. /\ [hub.watches[w] EXCEPT !.dirs = @ \ {d}].dirs = hub.watches[w].dirs \ {d}
          /\ [hub.watches[w] EXCEPT !.dirs = @ \ {d}].info = hub.watches[w].info
      BY <2>1 DEF HubWatch
    <3> QED
      BY <1>0, <2>1, <3>1, <3>2, <3>3
  <2>6. after \in HubType
    BY <2>3, <2>4, <2>5 DEF HubType, Sound
  <2>7. Sound(after)
    <3>1. ASSUME NEW x \in Dirs, after.dirs[x] # Nil, after.dirs[x].watch # Nil
          PROVE  /\ after.watches[after.dirs[x].watch] # Nil
                 /\ x \in after.watches[after.dirs[x].watch].dirs
      <4>1. /\ x # d /\ after.dirs[x] = hub.dirs[x] /\ hub.dirs[x].watch \in Dirs
            /\ hub.watches[hub.dirs[x].watch] # Nil
            /\ x \in hub.watches[hub.dirs[x].watch].dirs
        BY <1>0, <2>4, <3>1 DEF Sound, HubDir
      <4> QED
        BY <2>5, <4>1
    <3>2. ASSUME NEW x \in Dirs, after.watches[x] # Nil
          PROVE  /\ after.open /\ x \in after.watches[x].dirs
                 /\ \A y \in after.watches[x].dirs : after.dirs[y] # Nil /\ after.dirs[y].watch = x
      <4>1. hub.watches[x] # Nil
        BY <2>1, <2>5, <3>2, <1>0
      <4>2. /\ hub.open /\ x \in hub.watches[x].dirs /\ hub.watches[x].dirs \subseteq Dirs
            /\ \A y \in hub.watches[x].dirs : hub.dirs[y] # Nil /\ hub.dirs[y].watch = x
        BY <1>0, <4>1 DEF Sound, HubWatch
      <4>3. after.watches[x].dirs = hub.watches[x].dirs \ {d}
        BY <2>5, <4>2
      <4>4. x # d
        BY <1>2, <4>2
      <4> QED
        BY <2>3, <2>4, <4>2, <4>3, <4>4
    <3>3. ASSUME NEW x \in Dirs, Listed(after.fsn, x) PROVE after.watches[x] # Nil
      <4>1. hub.watches[x] # Nil
        BY <2>3, <3>3 DEF Sound
      <4> QED
        BY <2>5, <4>1
    <3> QED
      BY <2>6, <3>1, <3>2, <3>3 DEF Sound
  <2>8. SameHandlers(hub, after)
    <3> SUFFICES ASSUME NEW x \in Dirs
                 PROVE  /\ after.dirs[x] = Nil <=> hub.dirs[x] = Nil
                        /\ hub.dirs[x] # Nil => after.dirs[x].handlers = hub.dirs[x].handlers
      BY DEF SameHandlers
    <3>1. CASE x = d
      BY <2>4, <3>1
    <3>2. CASE x # d
      BY <2>4, <3>2
    <3> QED
      BY <3>1, <3>2
  <2>9. Faithful(hub) => Faithful(after) /\ Dropped(after) \subseteq Dropped(hub)
    <3>1. \A x \in Dirs : /\ after.watches[x] = Nil <=> hub.watches[x] = Nil
                          /\ hub.watches[x] # Nil => after.watches[x].info = hub.watches[x].info
      <4> SUFFICES ASSUME NEW x \in Dirs
                   PROVE  /\ after.watches[x] = Nil <=> hub.watches[x] = Nil
                          /\ hub.watches[x] # Nil => after.watches[x].info = hub.watches[x].info
        OBVIOUS
      <4>1. CASE x = w
        BY <1>0, <2>1, <2>5, <4>1
      <4>2. CASE x # w
        BY <2>5, <4>2
      <4> QED
        BY <4>1, <4>2
    <3>2. after.fsn = hub.fsn
      BY <2>3
    <3> QED
      BY <3>1, <3>2 DEF Faithful, Dropped
  <2> QED
    BY <2>4, <2>7, <2>8, <2>9
<1>3. CASE w # Nil /\ w = d
  <2> DEFINE others == hub.watches[d].dirs \ {d}
             gone == [hub EXCEPT !.dirs = Detached(hub, others \cup {d}), !.watches[d] = Nil,
                                 !.fsn = FsnRemove(@, d)]
  <2>1. /\ hub.watches[d] # Nil /\ others \cup {d} = hub.watches[d].dirs
        /\ hub.watches[d].dirs \subseteq Dirs
    BY <1>0, <1>3 DEF Sound, HubWatch
  <2>2. PICK lead \in Leaders(gone, others) : after = Attach(gone, lead, target)
    BY <1>3 DEF Detach
  <2>3. /\ Sound(gone) /\ SameHandlers(hub, gone) /\ gone.watches[d] = Nil
        /\ \A x \in others \cup {d} : gone.dirs[x] # Nil /\ gone.dirs[x].watch = Nil
        /\ Faithful(hub) => Faithful(gone) /\ Dropped(gone) \subseteq Dropped(hub)
    BY <2>1, GoneSound DEF Gone
  <2> HIDE DEF others, gone
  <2>4. /\ lead \in [others -> Dirs \cup {Nil}]
        /\ \A x \in others :
             LET peers == {p \in others : target[p] = target[x]}
             IN IF target[x] = Nil THEN lead[x] = Nil
                ELSE IF Watched(gone, target[x]) # {} THEN lead[x] \in Watched(gone, target[x])
                ELSE \/ lead[x] = Nil /\ AddMayFail
                     \/ /\ lead[x] \in peers /\ lead[lead[x]] = lead[x]
                        /\ \A p \in peers : lead[p] \in {lead[x], Nil}
    BY <2>2 DEF Leaders
  <2>5. MayAttach(gone, others, lead, target)
    <3>1. others \subseteq Dirs
      BY <2>1
    <3>2. ASSUME NEW x \in others, lead[x] # Nil
          PROVE  \/ gone.watches[lead[x]] # Nil
                 \/ lead[x] \in others /\ lead[lead[x]] = lead[x] /\ target[lead[x]] \in Inodes
      BY <1>0, <2>4, <3>1, <3>2 DEF Watched
    <3> QED
      BY <2>3, <2>4, <3>1, <3>2 DEF MayAttach
  <2>6. /\ Sound(after) /\ SameHandlers(gone, after)
        /\ Attached(gone, others, lead, target, after)
    BY <2>2, <2>3, <2>5, AttachSound
  <2>7. after.dirs[d].watch = Nil
    <3>1. d \notin others
      BY DEF others
    <3>2. after.dirs[d] = gone.dirs[d]
      BY <1>0, <2>2, <2>4, <3>1 DEF Attach
    <3> QED
      BY <2>3, <3>2
  <2>8. SameHandlers(hub, after)
    BY <2>3, <2>6 DEF SameHandlers
  <2>9. ASSUME Faithful(hub) PROVE Faithful(after) /\ Dropped(after) \subseteq Dropped(hub)
    <3>1. ASSUME NEW x \in Added(gone, lead)
          PROVE  /\ x \in others /\ target[x] # Nil /\ Watched(gone, target[x]) = {}
                 /\ \A p \in others : target[p] = target[x] => lead[p] \in {x, Nil}
      <4>1. x \in others /\ lead[x] = x /\ gone.watches[x] = Nil /\ x # Nil
        BY <1>0, <2>1, <2>4, <3>1 DEF Added
      <4>2. target[x] # Nil /\ Watched(gone, target[x]) = {}
        BY <2>4, <4>1 DEF Watched
      <4> QED
        BY <2>4, <4>1, <4>2
    <3>2. \A x, y \in Added(gone, lead) : target[x] = target[y] => x = y
      BY <1>0, <2>1, <3>1 DEF Added
    <3>3. Faithful(after) /\ Dropped(after) \subseteq Dropped(gone)
      BY <2>2, <2>3, <2>5, <2>9, <3>1, <3>2, AttachFaithful
    <3> QED
      BY <2>3, <2>9, <3>3
  <2> QED
    BY <2>6, <2>7, <2>8, <2>9
<1> QED
  BY <1>1, <1>2, <1>3

\* The hub with one path's directory replaced, or its handlers.
With(hub, d, v) == [hub EXCEPT !.dirs[d] = v]

WithHandlers(hub, d, hs) == [hub EXCEPT !.dirs[d].handlers = hs]

\* The watches and fsnotify are left alone, and so is what they have to agree on.
SameWatches(hub, after) ==
    /\ after.watches = hub.watches /\ after.fsn = hub.fsn /\ after.open = hub.open
    /\ Faithful(hub) => Faithful(after)
    /\ Dropped(after) = Dropped(hub)

\* A path without a watch may come, go or be replaced by another without a watch.
LEMMA UnwatchedSound ==
    ASSUME NEW hub, Sound(hub), NEW d \in Dirs, hub.dirs[d] # Nil => hub.dirs[d].watch = Nil,
           NEW v \in HubDir \cup {Nil}, v # Nil => v.watch = Nil,
           NEW after, after = With(hub, d, v)
    PROVE  /\ Sound(after) /\ SameWatches(hub, after)
           /\ after.dirs[d] = v /\ \A x \in Dirs \ {d} : after.dirs[x] = hub.dirs[x]
<1>0. /\ hub.dirs \in [Dirs -> HubDir \cup {Nil}] /\ hub.watches \in [Dirs -> HubWatch \cup {Nil}]
      /\ Nil \notin HubDir
  BY NilAssumption DEF Sound, HubType
<1>1. /\ after.dirs = [hub.dirs EXCEPT ![d] = v]
      /\ after.watches = hub.watches /\ after.fsn = hub.fsn /\ after.open = hub.open
      /\ after \in HubType
  BY DEF Sound, HubType, With
<1>2. after.dirs[d] = v /\ \A x \in Dirs \ {d} : after.dirs[x] = hub.dirs[x]
  BY <1>0, <1>1
<1>3. \A w \in Dirs : hub.watches[w] # Nil => d \notin hub.watches[w].dirs
  BY HubAssumption DEF Sound
<1>4. ASSUME NEW x \in Dirs, after.dirs[x] # Nil, after.dirs[x].watch # Nil
      PROVE  after.watches[after.dirs[x].watch] # Nil /\ x \in after.watches[after.dirs[x].watch].dirs
  BY <1>1, <1>2, <1>4 DEF Sound
<1>5. ASSUME NEW w \in Dirs, after.watches[w] # Nil
      PROVE  /\ after.open /\ w \in after.watches[w].dirs
             /\ \A x \in after.watches[w].dirs : after.dirs[x] # Nil /\ after.dirs[x].watch = w
  <2>1. /\ hub.watches[w] # Nil /\ hub.watches[w].dirs \subseteq Dirs \ {d}
    BY <1>0, <1>1, <1>3, <1>5 DEF HubWatch
  <2> QED
    BY <1>1, <1>2, <2>1 DEF Sound
<1>6. Sound(after)
  BY <1>1, <1>4, <1>5 DEF Sound
<1> QED
  BY <1>1, <1>2, <1>6 DEF Faithful, Dropped, SameWatches

\* Who is subscribed matters to no watch.
LEMMA HandlersSound ==
    ASSUME NEW hub, Sound(hub), NEW d \in Dirs, hub.dirs[d] # Nil,
           NEW hs \in SUBSET Handlers,
           NEW after, after = WithHandlers(hub, d, hs)
    PROVE  /\ Sound(after)
           /\ after.dirs[d] # Nil /\ after.dirs[d].handlers = hs
           /\ after.dirs[d].watch = hub.dirs[d].watch
           /\ \A x \in Dirs \ {d} : after.dirs[x] = hub.dirs[x]
           /\ SameWatches(hub, after)
<1>0. /\ hub.dirs \in [Dirs -> HubDir \cup {Nil}] /\ hub.watches \in [Dirs -> HubWatch \cup {Nil}]
      /\ Nil \notin HubDir
  BY NilAssumption DEF Sound, HubType
<1>1. PICK r : r = [hub.dirs[d] EXCEPT !.handlers = hs]
  OBVIOUS
<1>2. r \in HubDir /\ r.watch = hub.dirs[d].watch /\ r.handlers = hs
  BY <1>0, <1>1 DEF HubDir
<1>3. after = [hub EXCEPT !.dirs[d] = r]
  BY <1>1 DEF WithHandlers
<1>4. /\ after.dirs = [hub.dirs EXCEPT ![d] = r]
      /\ after.watches = hub.watches /\ after.fsn = hub.fsn /\ after.open = hub.open
      /\ after \in HubType
  BY <1>2, <1>3 DEF Sound, HubType
<1>5. /\ after.dirs[d] = r /\ after.dirs[d] # Nil
      /\ \A x \in Dirs \ {d} : after.dirs[x] = hub.dirs[x]
  BY <1>0, <1>2, <1>4
<1>6. \A x \in Dirs :
        /\ after.dirs[x] = Nil <=> hub.dirs[x] = Nil
        /\ hub.dirs[x] # Nil => after.dirs[x].watch = hub.dirs[x].watch
  BY <1>2, <1>5
<1>7. ASSUME NEW w \in Dirs, after.watches[w] # Nil
      PROVE  /\ after.open /\ w \in after.watches[w].dirs
             /\ \A x \in after.watches[w].dirs : after.dirs[x] # Nil /\ after.dirs[x].watch = w
  <2>1. hub.watches[w] # Nil /\ hub.watches[w].dirs \subseteq Dirs
    BY <1>0, <1>4, <1>7 DEF HubWatch
  <2>2. /\ hub.open /\ w \in hub.watches[w].dirs
        /\ \A x \in hub.watches[w].dirs : hub.dirs[x] # Nil /\ hub.dirs[x].watch = w
    BY <2>1 DEF Sound
  <2> QED
    BY <1>4, <1>6, <2>1, <2>2
<1>8. Sound(after)
  BY <1>4, <1>6, <1>7 DEF Sound
<1> QED
  BY <1>2, <1>4, <1>5, <1>8 DEF Faithful, Dropped, SameWatches

\* The watcher is open exactly while something is watched.
ClosedWhenIdle(hub) == hub.open <=> \E w \in Dirs : hub.watches[w] # Nil

\* removeLocked ends a path, and with it nobody else's subscription.
LEMMA RemoveSound ==
    ASSUME TypeOK, NEW hub, Sound(hub), NEW d \in Dirs, hub.dirs[d] # Nil,
           NEW after \in Remove(hub, d)
    PROVE  /\ Sound(after) /\ ClosedWhenIdle(after) /\ after.dirs[d] = Nil
           /\ \A x \in Dirs \ {d} :
                /\ after.dirs[x] = Nil <=> hub.dirs[x] = Nil
                /\ hub.dirs[x] # Nil => after.dirs[x].handlers = hub.dirs[x].handlers
           /\ Faithful(hub) => Faithful(after) /\ Dropped(after) \subseteq Dropped(hub)
<1>1. PICK off \in Detach(hub, d) : after = CloseIfIdle([off EXCEPT !.dirs[d] = Nil])
  BY DEF Remove
<1>2. /\ Sound(off) /\ SameHandlers(hub, off) /\ off.dirs[d].watch = Nil
      /\ Faithful(hub) => Faithful(off) /\ Dropped(off) \subseteq Dropped(hub)
  BY DetachSound
<1>3. PICK gone : gone = With(off, d, Nil)
  OBVIOUS
<1>4. /\ Sound(gone) /\ SameWatches(off, gone) /\ gone.dirs[d] = Nil
      /\ \A x \in Dirs \ {d} : gone.dirs[x] = off.dirs[x]
  BY <1>2, <1>3, UnwatchedSound
<1>5. after = CloseIfIdle(gone)
  BY <1>1, <1>3 DEF With
<1>6. /\ Sound(after) /\ ClosedWhenIdle(after) /\ after.dirs = gone.dirs
      /\ Faithful(gone) => Faithful(after) /\ Dropped(after) \subseteq Dropped(gone)
  BY <1>4, <1>5, CloseSound DEF ClosedWhenIdle
<1> QED
  BY <1>2, <1>4, <1>6 DEF SameHandlers, SameWatches

\* attachLocked puts the path of a subscribe on a watch of the directory its stat
\* returned, or ends the path.
LEMMA AttachOutcomesSound ==
    ASSUME TypeOK, NEW hub, Sound(hub), NEW d \in Dirs, hub.dirs[d] # Nil,
           hub.dirs[d].watch = Nil, NEW i \in Inodes,
           NEW after \in AttachOutcomes(hub, d, i)
    PROVE  /\ Sound(after) /\ ClosedWhenIdle(after)
           /\ after.dirs[d] # Nil => after.dirs[d].handlers = hub.dirs[d].handlers
           /\ \A x \in Dirs \ {d} :
                /\ after.dirs[x] = Nil <=> hub.dirs[x] = Nil
                /\ hub.dirs[x] # Nil => after.dirs[x].handlers = hub.dirs[x].handlers
           /\ Faithful(hub) /\ i = target[d] =>
                Faithful(after) /\ Dropped(after) \subseteq Dropped(hub)
<1> DEFINE inf == [x \in {d} |-> i]
<1>0. Nil \notin Dirs /\ Nil \notin Inodes
  BY HubAssumption
<1>1. ASSUME NEW w \in Dirs, after = Attach(hub, [x \in {d} |-> w], inf),
             \/ w \in Watched(hub, i)
             \/ w = d /\ Watched(hub, i) = {} /\ target[d] # Nil
      PROVE  /\ Sound(after) /\ ClosedWhenIdle(after) /\ SameHandlers(hub, after)
             /\ Faithful(hub) /\ i = target[d] =>
                  Faithful(after) /\ Dropped(after) \subseteq Dropped(hub)
  <2> DEFINE lead == [x \in {d} |-> w]
  <2>1. MayAttach(hub, {d}, lead, inf)
    BY <1>0, <1>1 DEF MayAttach, Watched
  <2>2. /\ Sound(after) /\ SameHandlers(hub, after)
        /\ Attached(hub, {d}, lead, inf, after)
    BY <1>1, <2>1, AttachSound
  <2>3. after.dirs[d] # Nil /\ after.dirs[d].watch = w
    BY <2>2 DEF Attached, SameHandlers
  <2>4. ClosedWhenIdle(after)
    BY <1>0, <2>2, <2>3 DEF Sound, ClosedWhenIdle
  <2>5. ASSUME Faithful(hub), i = target[d]
        PROVE  Faithful(after) /\ Dropped(after) \subseteq Dropped(hub)
    <3>1. \A x \in Added(hub, lead) : x = d /\ w = d /\ w \notin Watched(hub, i)
      BY DEF Added, Watched
    <3>2. \A x \in Added(hub, lead) : /\ inf[x] = target[x] /\ target[x] # Nil
                                      /\ Watched(hub, target[x]) = {}
      BY <1>1, <2>5, <3>1
    <3>3. \A x, y \in Added(hub, lead) : target[x] = target[y] => x = y
      BY <3>1
    <3> HIDE DEF lead, inf
    <3> QED
      BY <1>1, <2>1, <2>5, <3>2, <3>3, AttachFaithful DEF lead
  <2> QED
    BY <2>2, <2>4, <2>5
<1>2. ASSUME after = CloseIfIdle([hub EXCEPT !.dirs[d] = Nil])
      PROVE  /\ Sound(after) /\ ClosedWhenIdle(after) /\ after.dirs[d] = Nil
             /\ \A x \in Dirs \ {d} : after.dirs[x] = hub.dirs[x]
             /\ Faithful(hub) => Faithful(after) /\ Dropped(after) \subseteq Dropped(hub)
  <2>1. PICK gone : gone = With(hub, d, Nil)
    OBVIOUS
  <2>c. after = CloseIfIdle(gone)
    BY <1>2, <2>1 DEF With
  <2>2. /\ Sound(gone) /\ SameWatches(hub, gone) /\ gone.dirs[d] = Nil
        /\ \A x \in Dirs \ {d} : gone.dirs[x] = hub.dirs[x]
    BY <2>1, UnwatchedSound
  <2>3. /\ Sound(after) /\ ClosedWhenIdle(after) /\ after.dirs = gone.dirs
        /\ Faithful(gone) => Faithful(after) /\ Dropped(after) \subseteq Dropped(gone)
    BY <2>c, <2>2, CloseSound DEF ClosedWhenIdle
  <2> QED
    BY <2>2, <2>3 DEF SameWatches
<1>3. \/ \E w \in Watched(hub, i) : after = Attach(hub, [x \in {d} |-> w], inf)
      \/ /\ Watched(hub, i) = {} /\ target[d] # Nil
         /\ after = Attach(hub, [x \in {d} |-> d], inf)
      \/ after = CloseIfIdle([hub EXCEPT !.dirs[d] = Nil])
  BY DEF AttachOutcomes
<1>4. Watched(hub, i) \subseteq Dirs
  BY DEF Watched
<1> HIDE DEF inf
<1> QED
  BY <1>1, <1>2, <1>3, <1>4 DEF SameHandlers

(***************************************************************************)
(* The state, and what a step makes of it.                                 *)
(***************************************************************************)
\* The inductive invariant behind MapsAgree: the parts are inductive only together.
StructInv == TypeOK /\ MapsAgree /\ OpenIffWatching /\ NoOrphanWatch

\* What a step under h.mu for the path d leaves: a sound hub, in which d, if it is still
\* known, has the subscribers hs, and every other path the subscribers it had.
Outcome(hub, d, hs, pending) ==
    /\ Sound(hub) /\ ClosedWhenIdle(hub) /\ Become(hub, pending) /\ pending \subseteq Dirs
    /\ hub.dirs[d] # Nil => hub.dirs[d].handlers = hs /\ hs # {}
    /\ \A x \in Dirs \ {d} :
         /\ hub.dirs[x] = Nil <=> dirs[x] = Nil
         /\ dirs[x] # Nil => hub.dirs[x].handlers = dirs[x].handlers
    /\ FsnInv /\ CallInv => Faithful(hub) /\ Dropped(hub) \subseteq pending

\* The invariant makes the state a sound hub record.
LEMMA HubIsSound ==
    ASSUME StructInv
    PROVE  /\ Sound(Hub) /\ ClosedWhenIdle(Hub)
           /\ Hub.dirs = dirs /\ Hub.watches = watches /\ Hub.fsn = fsn /\ Hub.open = open
           /\ FsnInv => Faithful(Hub) /\ Dropped(Hub) \subseteq events
<1>1. Hub.dirs = dirs /\ Hub.watches = watches /\ Hub.fsn = fsn /\ Hub.open = open
  BY DEF Hub
<1>2. Hub \in HubType
  BY DEF Hub, HubType, StructInv, TypeOK
<1> HIDE DEF Hub
<1>3. ClosedWhenIdle(Hub)
  BY <1>1 DEF ClosedWhenIdle, StructInv, OpenIffWatching
<1>4. Sound(Hub)
  BY <1>1, <1>2 DEF Sound, StructInv, MapsAgree, OpenIffWatching, NoOrphanWatch
<1>5. FsnInv => Faithful(Hub) /\ Dropped(Hub) \subseteq events
  BY <1>1 DEF FsnInv, Faithful, Dropped
<1> QED
  BY <1>1, <1>3, <1>4, <1>5

\* A sound hub record is a state of the invariant.
LEMMA OutcomeSound ==
    ASSUME StructInv, NEW d \in Dirs, NEW hs, NEW pending, NEW hub,
           Outcome(hub, d, hs, pending),
           target' \in [Dirs -> Inodes \cup {Nil}], changes' \in Nat,
           call' \in [Handlers -> Call \cup {Nil}]
    PROVE  /\ StructInv'
           /\ FsnInv /\ CallInv => FsnInv'
<1>1. /\ dirs' = hub.dirs /\ watches' = hub.watches /\ open' = hub.open /\ fsn' = hub.fsn
      /\ events' = IF hub.open THEN pending ELSE {}
      /\ pending \subseteq Dirs /\ Sound(hub) /\ hub \in HubType /\ ClosedWhenIdle(hub)
  BY DEF Outcome, Become, Sound
<1>2. TypeOK'
  <2>1. late' \subseteq Dirs
    BY DEF Outcome, Become, StructInv, TypeOK
  <2>2. events' \subseteq Dirs
    BY <1>1
  <2> QED
    BY <1>1, <2>1, <2>2 DEF HubType, TypeOK
<1>3. \A x \in Dirs : hub.dirs[x] # Nil => hub.dirs[x].handlers # {}
  <2> SUFFICES ASSUME NEW x \in Dirs, hub.dirs[x] # Nil PROVE hub.dirs[x].handlers # {}
    OBVIOUS
  <2>1. CASE x = d
    BY <2>1 DEF Outcome
  <2>2. CASE x # d
    BY <2>2 DEF Outcome, StructInv, MapsAgree
  <2> QED
    BY <2>1, <2>2
<1>4. MapsAgree'
  BY <1>1, <1>3 DEF Sound, MapsAgree
<1>5. OpenIffWatching' /\ NoOrphanWatch'
  BY <1>1 DEF Sound, ClosedWhenIdle, OpenIffWatching, NoOrphanWatch
<1>6. ASSUME FsnInv, CallInv PROVE FsnInv'
  <2>1. Faithful(hub) /\ Dropped(hub) \subseteq pending
    BY <1>6 DEF Outcome
  <2>2. \A w \in Dirs : hub.watches[w] # Nil => hub.open
    BY <1>1 DEF Sound
  <2> QED
    BY <1>1, <2>1, <2>2 DEF Faithful, Dropped, FsnInv
<1> QED
  BY <1>2, <1>4, <1>5, <1>6 DEF StructInv

\* A subscribe of a directory that does not exist ends it.
LEMMA MissingOutcome ==
    ASSUME StructInv, NEW h \in Handlers, SubscribeMissing(h)
    PROVE  /\ call[h].dir \in Dirs
           /\ \E hub : Outcome(hub, call[h].dir, {}, events) /\ hub.dirs[call[h].dir] = Nil
<1> DEFINE d == call[h].dir
<1>1. d \in Dirs /\ events \subseteq Dirs
  BY DEF SubscribeMissing, StructInv, TypeOK, Call
<1>2. PICK hub \in IF dirs[d] = Nil THEN {Hub} ELSE Remove(Hub, d) : Become(hub, events)
  BY DEF SubscribeMissing
<1> HIDE DEF d
<1>3. CASE dirs[d] = Nil
  BY <1>1, <1>2, <1>3, HubIsSound DEF Outcome, d
<1>4. CASE dirs[d] # Nil
  <2>1. hub \in Remove(Hub, d)
    BY <1>2, <1>4
  <2>2. /\ Sound(hub) /\ ClosedWhenIdle(hub) /\ hub.dirs[d] = Nil
        /\ \A x \in Dirs \ {d} :
             /\ hub.dirs[x] = Nil <=> Hub.dirs[x] = Nil
             /\ Hub.dirs[x] # Nil => hub.dirs[x].handlers = Hub.dirs[x].handlers
        /\ Faithful(Hub) => Faithful(hub) /\ Dropped(hub) \subseteq Dropped(Hub)
    BY <1>1, <1>4, <2>1, RemoveSound, HubIsSound DEF StructInv
  <2> QED
    BY <1>1, <1>2, <2>2, HubIsSound DEF Outcome, d
<1> QED
  BY <1>3, <1>4

\* A subscribe to a directory that is watched already adds its handler.
LEMMA CurrentOutcome ==
    ASSUME StructInv, NEW h \in Handlers, SubscribeCurrent(h)
    PROVE  /\ call[h].dir \in Dirs /\ dirs[call[h].dir] # Nil
           /\ \E hub : /\ Outcome(hub, call[h].dir, dirs[call[h].dir].handlers \cup {h}, events)
                       /\ hub.dirs[call[h].dir] # Nil
<1> DEFINE d == call[h].dir
           hs == dirs[d].handlers \cup {h}
<1>1. d \in Dirs /\ events \subseteq Dirs /\ dirs \in [Dirs -> HubDir \cup {Nil}]
  BY DEF SubscribeCurrent, StructInv, TypeOK, Call
<1>2. /\ dirs[d] # Nil /\ dirs[d].watch # Nil /\ dirs' = [dirs EXCEPT ![d].handlers = hs]
      /\ UNCHANGED <<fsn, watches, open, events, late>>
  BY DEF SubscribeCurrent, Current, eventVars
<1>3. hs \in SUBSET Handlers
  BY <1>1, <1>2 DEF HubDir
<1>4. PICK hub : hub = WithHandlers(Hub, d, hs)
  OBVIOUS
<1> HIDE DEF d, hs
<1>5. /\ Sound(hub) /\ hub.dirs[d] # Nil /\ hub.dirs[d].handlers = hs
      /\ \A x \in Dirs \ {d} : hub.dirs[x] = Hub.dirs[x]
      /\ SameWatches(Hub, hub)
  BY <1>1, <1>2, <1>3, <1>4, HubIsSound, HandlersSound
<1>6. hub.dirs = [dirs EXCEPT ![d].handlers = hs]
  BY <1>4 DEF WithHandlers, Hub
<1>7. open /\ watches[dirs[d].watch] # Nil /\ dirs[d].watch \in Dirs
  BY <1>1, <1>2 DEF StructInv, MapsAgree, OpenIffWatching, HubDir
<1>8. Become(hub, events)
  BY <1>2, <1>5, <1>6, <1>7, HubIsSound DEF Become, SameWatches
<1>9. ClosedWhenIdle(hub) /\ hs # {}
  BY <1>5, HubIsSound DEF ClosedWhenIdle, SameWatches, hs
<1>10. Outcome(hub, d, hs, events)
  BY <1>1, <1>5, <1>8, <1>9, HubIsSound DEF Outcome, SameWatches
<1> QED
  BY <1>1, <1>2, <1>5, <1>10 DEF d, hs

\* A subscribe that finds another directory, or none watched, moves the path to a watch
\* of that directory and adds its handler, or ends the path.
LEMMA AfreshOutcome ==
    ASSUME StructInv, NEW h \in Handlers, SubscribeAfresh(h)
    PROVE  /\ call[h].dir \in Dirs
           /\ \E hub : Outcome(hub, call[h].dir,
                               (IF dirs[call[h].dir] = Nil THEN {}
                                ELSE dirs[call[h].dir].handlers) \cup {h}, events)
<1> DEFINE d == call[h].dir
           i == call[h].info
           new == [watch |-> Nil, handlers |-> {}]
           had == IF dirs[d] = Nil THEN {} ELSE dirs[d].handlers
           hs == had \cup {h}
<1>1. /\ d \in Dirs /\ i \in Inodes /\ call[h] # Nil /\ events \subseteq Dirs
      /\ dirs \in [Dirs -> HubDir \cup {Nil}] /\ Nil \notin HubDir
  BY NilAssumption DEF SubscribeAfresh, StructInv, TypeOK, Call
<1>2. /\ \E hub \in IF dirs[d] = Nil THEN {[Hub EXCEPT !.dirs[d] = new]} ELSE Detach(Hub, d) :
         \E after \in AttachOutcomes(hub, d, i) :
            Become(IF after.dirs[d] = Nil THEN after
                   ELSE [after EXCEPT !.dirs[d].handlers = @ \cup {h}], events)
  BY DEF SubscribeAfresh
<1>h. PICK hub \in IF dirs[d] = Nil THEN {[Hub EXCEPT !.dirs[d] = new]} ELSE Detach(Hub, d) :
         \E after \in AttachOutcomes(hub, d, i) :
            Become(IF after.dirs[d] = Nil THEN after
                   ELSE [after EXCEPT !.dirs[d].handlers = @ \cup {h}], events)
  BY <1>2
<1>3. PICK after \in AttachOutcomes(hub, d, i) :
            Become(IF after.dirs[d] = Nil THEN after
                   ELSE [after EXCEPT !.dirs[d].handlers = @ \cup {h}], events)
  BY <1>h
<1>4. /\ new \in HubDir /\ new.watch = Nil /\ new.handlers = {} /\ had \subseteq Handlers
      /\ h \in Handlers
  BY <1>1 DEF HubDir
<1>i. CallInv => i = target[d]
  BY <1>1 DEF CallInv
<1> HIDE DEF d, i, new, had, hs
<1>5. /\ Sound(hub) /\ hub.dirs[d] # Nil /\ hub.dirs[d].watch = Nil /\ hub.dirs[d].handlers = had
      /\ \A x \in Dirs \ {d} :
           /\ hub.dirs[x] = Nil <=> dirs[x] = Nil
           /\ dirs[x] # Nil => hub.dirs[x].handlers = dirs[x].handlers
      /\ Faithful(Hub) => Faithful(hub) /\ Dropped(hub) \subseteq Dropped(Hub)
  <2>1. CASE dirs[d] = Nil
    <3>1. hub = With(Hub, d, new)
      BY <1>h, <2>1 DEF With
    <3>2. /\ Sound(hub) /\ SameWatches(Hub, hub) /\ hub.dirs[d] = new
          /\ \A x \in Dirs \ {d} : hub.dirs[x] = Hub.dirs[x]
      BY <1>1, <1>4, <2>1, <3>1, HubIsSound, UnwatchedSound
    <3> QED
      BY <1>1, <1>4, <2>1, <3>2, HubIsSound DEF SameWatches, had
  <2>2. CASE dirs[d] # Nil
    <3>1. /\ Sound(hub) /\ SameHandlers(Hub, hub) /\ hub.dirs[d].watch = Nil
          /\ Faithful(Hub) => Faithful(hub) /\ Dropped(hub) \subseteq Dropped(Hub)
      BY <1>1, <1>h, <2>2, HubIsSound, DetachSound DEF StructInv
    <3> QED
      BY <1>1, <2>2, <3>1, HubIsSound DEF SameHandlers, had
  <2> QED
    BY <2>1, <2>2
<1>6. /\ Sound(after) /\ ClosedWhenIdle(after)
      /\ after.dirs[d] # Nil => after.dirs[d].handlers = had
      /\ \A x \in Dirs \ {d} :
           /\ after.dirs[x] = Nil <=> hub.dirs[x] = Nil
           /\ hub.dirs[x] # Nil => after.dirs[x].handlers = hub.dirs[x].handlers
      /\ Faithful(hub) /\ i = target[d] =>
           Faithful(after) /\ Dropped(after) \subseteq Dropped(hub)
  BY <1>1, <1>3, <1>5, AttachOutcomesSound DEF StructInv
<1>7. /\ FsnInv /\ CallInv => Faithful(after) /\ Dropped(after) \subseteq events
      /\ \A x \in Dirs \ {d} :
           /\ after.dirs[x] = Nil <=> dirs[x] = Nil
           /\ dirs[x] # Nil => after.dirs[x].handlers = dirs[x].handlers
  BY <1>i, <1>5, <1>6, HubIsSound
<1>8. PICK last : last = IF after.dirs[d] = Nil THEN after ELSE WithHandlers(after, d, hs)
  OBVIOUS
<1>9. hs \in SUBSET Handlers /\ hs # {}
  BY <1>4 DEF hs
<1>10. /\ Sound(last) /\ last.open = after.open /\ ClosedWhenIdle(last)
       /\ last.dirs[d] # Nil => last.dirs[d].handlers = hs /\ hs # {}
       /\ \A x \in Dirs \ {d} :
            /\ last.dirs[x] = Nil <=> dirs[x] = Nil
            /\ dirs[x] # Nil => last.dirs[x].handlers = dirs[x].handlers
       /\ FsnInv /\ CallInv => Faithful(last) /\ Dropped(last) \subseteq events
  <2>1. CASE after.dirs[d] = Nil
    BY <1>6, <1>7, <1>8, <2>1
  <2>2. CASE after.dirs[d] # Nil
    <3>1. /\ Sound(last) /\ last.dirs[d].handlers = hs
          /\ \A x \in Dirs \ {d} : last.dirs[x] = after.dirs[x]
          /\ SameWatches(after, last)
      BY <1>1, <1>6, <1>8, <1>9, <2>2, HandlersSound
    <3> QED
      BY <1>6, <1>7, <1>9, <3>1 DEF SameWatches, ClosedWhenIdle
  <2> QED
    BY <2>1, <2>2
<1>11. Become(last, events)
  <2>1. CASE after.dirs[d] = Nil
    BY <1>3, <1>8, <2>1
  <2>2. CASE after.dirs[d] # Nil
    <3>1. hs = after.dirs[d].handlers \cup {h}
      BY <1>6, <2>2 DEF hs
    <3>2. last = [after EXCEPT !.dirs[d].handlers = @ \cup {h}]
      BY <1>8, <2>2, <3>1 DEF WithHandlers
    <3> QED
      BY <1>3, <2>2, <3>2
  <2> QED
    BY <2>1, <2>2
<1>12. Outcome(last, d, hs, events)
  BY <1>1, <1>10, <1>11 DEF Outcome
<1> QED
  BY <1>1, <1>12 DEF d, hs, had

\* An unsubscribe takes its handler off the path, and ends the path with its last one.
LEMMA UnsubscribeOutcome ==
    ASSUME StructInv, NEW h \in Handlers, NEW d \in Dirs, Unsubscribe(h, d)
    PROVE  \E hub : /\ Outcome(hub, d, dirs[d].handlers \ {h}, events)
                    /\ hub.dirs[d] = Nil => dirs[d].handlers \ {h} = {}
<1> DEFINE left == dirs[d].handlers \ {h}
<1>1. /\ dirs[d] # Nil /\ dirs \in [Dirs -> HubDir \cup {Nil}] /\ events \subseteq Dirs
  BY DEF Unsubscribe, StructInv, TypeOK
<1>2. left \in SUBSET Handlers
  BY <1>1 DEF HubDir
<1>3. PICK hub : hub = WithHandlers(Hub, d, left)
  OBVIOUS
<1>4. PICK after \in IF left = {} THEN Remove(hub, d) ELSE {hub} : Become(after, events)
  BY <1>3 DEF Unsubscribe, WithHandlers
<1> HIDE DEF left
<1>5. /\ Sound(hub) /\ hub.dirs[d] # Nil /\ hub.dirs[d].handlers = left
      /\ \A x \in Dirs \ {d} : hub.dirs[x] = dirs[x]
      /\ SameWatches(Hub, hub)
  BY <1>1, <1>2, <1>3, HubIsSound, HandlersSound
<1>6. /\ ClosedWhenIdle(hub)
      /\ FsnInv => Faithful(hub) /\ Dropped(hub) \subseteq events
  BY <1>5, HubIsSound DEF ClosedWhenIdle, SameWatches
<1>7. CASE left = {}
  <2>1. /\ Sound(after) /\ ClosedWhenIdle(after) /\ after.dirs[d] = Nil
        /\ \A x \in Dirs \ {d} :
             /\ after.dirs[x] = Nil <=> hub.dirs[x] = Nil
             /\ hub.dirs[x] # Nil => after.dirs[x].handlers = hub.dirs[x].handlers
        /\ Faithful(hub) => Faithful(after) /\ Dropped(after) \subseteq Dropped(hub)
    BY <1>4, <1>5, <1>7, RemoveSound DEF StructInv
  <2>2. Outcome(after, d, left, events)
    BY <1>1, <1>4, <1>5, <1>6, <2>1 DEF Outcome
  <2> QED
    BY <1>7, <2>2 DEF left
<1>8. CASE left # {}
  <2>1. after = hub
    BY <1>4, <1>8
  <2>2. Outcome(after, d, left, events)
    BY <1>1, <1>4, <1>5, <1>6, <1>8, <2>1 DEF Outcome
  <2> QED
    BY <1>5, <1>8, <2>1, <2>2 DEF left
<1> QED
  BY <1>7, <1>8

\* Taking the drop of a watch detaches the watch's paths, and no handler from any path.
LEMMA DropOutcome ==
    ASSUME StructInv, NEW d \in Dirs, DropWatch(d)
    PROVE  \E hub : /\ Outcome(hub, d, dirs[d].handlers, events \ {d})
                    /\ SameHandlers(Hub, hub)
<1>1. /\ events \subseteq Dirs /\ dirs \in [Dirs -> HubDir \cup {Nil}] /\ fsn \in Fsnotify
  BY DEF StructInv, TypeOK
<1>2. PICK hub : /\ hub = IF watches[d] = Nil \/ Listed(fsn, d) THEN Hub
                          ELSE CloseIfIdle([Hub EXCEPT !.watches[d] = Nil,
                                                       !.dirs = Detached(Hub, watches[d].dirs)])
                 /\ Become(hub, events \ {d})
  BY DEF DropWatch
<1>3. /\ Sound(hub) /\ ClosedWhenIdle(hub) /\ SameHandlers(Hub, hub)
      /\ FsnInv => Faithful(hub) /\ Dropped(hub) \subseteq events \ {d}
  <2>1. CASE watches[d] = Nil \/ Listed(fsn, d)
    <3>1. hub = Hub /\ d \notin Dropped(Hub)
      BY <1>2, <2>1, HubIsSound DEF Dropped
    <3>2. SameHandlers(Hub, Hub)
      BY DEF SameHandlers
    <3> QED
      BY <3>1, <3>2, HubIsSound
  <2>2. CASE watches[d] # Nil /\ ~Listed(fsn, d)
    <3>1. PICK gone : gone = Gone(Hub, d, watches[d].dirs)
      OBVIOUS
    <3>2. gone = [Hub EXCEPT !.watches[d] = Nil, !.dirs = Detached(Hub, watches[d].dirs)]
      <4>1. FsnRemove(Hub.fsn, d) = Hub.fsn
        BY <2>2, HubIsSound DEF FsnRemove
      <4>2. PICK f : f = Detached(Hub, watches[d].dirs)
        OBVIOUS
      <4>3. gone = [dirs |-> f, watches |-> [watches EXCEPT ![d] = Nil], open |-> open,
                    fsn |-> fsn]
        BY <3>1, <4>1, <4>2 DEF Hub, Gone
      <4>4. [Hub EXCEPT !.watches[d] = Nil, !.dirs = f]
            = [dirs |-> f, watches |-> [watches EXCEPT ![d] = Nil], open |-> open, fsn |-> fsn]
        <5>1. PICK m : m = [Hub.watches EXCEPT ![d] = Nil]
          OBVIOUS
        <5>2. [Hub EXCEPT !.watches = m, !.dirs = f]
              = [dirs |-> f, watches |-> m, open |-> open, fsn |-> fsn]
          <6>1. [Hub EXCEPT !.watches = m]
                = [dirs |-> dirs, watches |-> m, open |-> open, fsn |-> fsn]
            BY DEF Hub
          <6>2. [[dirs |-> dirs, watches |-> m, open |-> open, fsn |-> fsn] EXCEPT !.dirs = f]
                = [dirs |-> f, watches |-> m, open |-> open, fsn |-> fsn]
            OBVIOUS
          <6> QED
            BY <6>1, <6>2
        <5>3. [Hub EXCEPT !.watches[d] = Nil, !.dirs = f] = [Hub EXCEPT !.watches = m, !.dirs = f]
          BY <5>1
        <5> QED
          BY <5>1, <5>2, <5>3, HubIsSound
      <4> QED
        BY <4>2, <4>3, <4>4
    <3>3. /\ Sound(gone) /\ SameHandlers(Hub, gone) /\ gone.watches[d] = Nil
          /\ Faithful(Hub) => Faithful(gone) /\ Dropped(gone) \subseteq Dropped(Hub)
      BY <2>2, <3>1, HubIsSound, GoneSound DEF StructInv
    <3>4. hub = CloseIfIdle(gone)
      BY <1>2, <2>2, <3>2
    <3>5. /\ Sound(hub) /\ ClosedWhenIdle(hub) /\ hub.dirs = gone.dirs
          /\ hub.watches = gone.watches
          /\ Faithful(gone) => Faithful(hub) /\ Dropped(hub) \subseteq Dropped(gone)
      BY <3>3, <3>4, CloseSound DEF ClosedWhenIdle
    <3>6. SameHandlers(Hub, hub)
      BY <3>3, <3>5 DEF SameHandlers
    <3>7. FsnInv => Faithful(hub) /\ Dropped(hub) \subseteq events \ {d}
      BY <3>3, <3>5, HubIsSound DEF Dropped
    <3> QED
      BY <3>5, <3>6, <3>7
  <2> QED
    BY <2>1, <2>2
<1>4. hub.dirs[d] # Nil => dirs[d].handlers # {} /\ hub.dirs[d].handlers = dirs[d].handlers
  BY <1>3, HubIsSound DEF SameHandlers, StructInv, MapsAgree
<1>5. Outcome(hub, d, dirs[d].handlers, events \ {d})
  BY <1>1, <1>2, <1>3, <1>4, HubIsSound DEF Outcome, SameHandlers
<1> QED
  BY <1>3, <1>5

(***************************************************************************)
(* The theorems.                                                           *)
(***************************************************************************)
\* A subscribe's stat and return leave the hub alone, and record what they should.
LEMMA CallTypes ==
    ASSUME TypeOK, NEW h \in Handlers
    PROVE  /\ \A d \in Dirs : Stat(h, d) => call' \in [Handlers -> Call \cup {Nil}]
           /\ Return(h) => /\ call' \in [Handlers -> Call \cup {Nil}]
                           /\ target' = target /\ changes' = changes
<1>1. ASSUME NEW d \in Dirs, Stat(h, d) PROVE call' \in [Handlers -> Call \cup {Nil}]
  <2>1. [dir |-> d, info |-> target[d]] \in Call
    BY DEF TypeOK, Call
  <2> QED
    BY <1>1, <2>1 DEF Stat, TypeOK
<1>2. Return(h) => /\ call' \in [Handlers -> Call \cup {Nil}]
                   /\ target' = target /\ changes' = changes
  BY DEF Return, TypeOK, fsVars
<1> QED
  BY <1>1, <1>2

\* Whatever a handler or the loop does to one path, the result is sound.
LEMMA HubStep ==
    ASSUME StructInv,
           \/ \E h \in Handlers : Subscribe(h) \/ \E d \in Dirs : Unsubscribe(h, d)
           \/ \E d \in Dirs : DropWatch(d)
    PROVE  /\ StructInv' /\ (FsnInv /\ CallInv => FsnInv')
<1>0. /\ target \in [Dirs -> Inodes \cup {Nil}] /\ changes \in Nat
      /\ call \in [Handlers -> Call \cup {Nil}] /\ TypeOK
  BY DEF StructInv, TypeOK
<1>1. ASSUME NEW h \in Handlers, Subscribe(h)
      PROVE  StructInv' /\ (FsnInv /\ CallInv => FsnInv')
  <2>1. Return(h)
    BY <1>1 DEF Subscribe, SubscribeMissing, SubscribeCurrent, SubscribeAfresh
  <2>2. /\ target' \in [Dirs -> Inodes \cup {Nil}] /\ changes' \in Nat
        /\ call' \in [Handlers -> Call \cup {Nil}]
    BY <1>0, <2>1, CallTypes
  <2>3. \E d \in Dirs : \E hs, hub : Outcome(hub, d, hs, events)
    BY <1>1, MissingOutcome, CurrentOutcome, AfreshOutcome DEF Subscribe
  <2> QED
    BY <2>2, <2>3, OutcomeSound
<1>2. ASSUME NEW h \in Handlers, NEW d \in Dirs, Unsubscribe(h, d)
      PROVE  StructInv' /\ (FsnInv /\ CallInv => FsnInv')
  <2>1. target' = target /\ changes' = changes /\ call' = call
    BY <1>2 DEF Unsubscribe, fsVars
  <2>2. PICK hub : Outcome(hub, d, dirs[d].handlers \ {h}, events)
    BY <1>2, UnsubscribeOutcome
  <2> QED
    BY <1>0, <2>1, <2>2, OutcomeSound
<1>3. ASSUME NEW d \in Dirs, DropWatch(d)
      PROVE  StructInv' /\ (FsnInv /\ CallInv => FsnInv')
  <2>1. target' = target /\ changes' = changes /\ call' = call
    BY <1>3 DEF DropWatch, fsVars
  <2>2. PICK hub : Outcome(hub, d, dirs[d].handlers, events \ {d})
    BY <1>3, DropOutcome
  <2> QED
    BY <1>0, <2>1, <2>2, OutcomeSound
<1> QED
  BY <1>1, <1>2, <1>3

\* Renaming a directory makes fsnotify forget its watch, and report it.
LEMMA MoveStep ==
    ASSUME StructInv, NEW i \in Inodes, MoveDirectory(i)
    PROVE  StructInv' /\ (FsnInv => FsnInv')
<1>0. /\ target \in [Dirs -> Inodes \cup {Nil}] /\ changes \in Nat /\ Nil \notin Inodes
      /\ Nil \notin Dirs /\ fsn \in Fsnotify /\ events \subseteq Dirs /\ late \subseteq Dirs
  BY HubAssumption DEF StructInv, TypeOK
<1>1. /\ target' = [d \in Dirs |-> IF target[d] = i THEN Nil ELSE target[d]]
      /\ changes' = changes + 1
      /\ events' = IF fsn.name[i] = Nil THEN events ELSE events \cup {fsn.name[i]}
      /\ fsn' = FsnForget(fsn, i)
      /\ dirs' = dirs /\ watches' = watches /\ open' = open /\ call' = call /\ late' = late
  BY DEF MoveDirectory, Change
<1>2. /\ \A d \in Dirs : fsn'.on[d] = IF fsn.on[d] = i THEN Nil ELSE fsn.on[d]
      /\ \A j \in Inodes : fsn'.name[j] = IF j = i THEN Nil ELSE fsn.name[j]
      /\ fsn' \in Fsnotify
  BY <1>0, <1>1 DEF FsnForget, Fsnotify
<1>3. TypeOK'
  <2>1. target' \in [Dirs -> Inodes \cup {Nil}] /\ changes' \in Nat
    BY <1>0, <1>1
  <2>2. events' \subseteq Dirs
    BY <1>0, <1>1 DEF Fsnotify
  <2> QED
    BY <1>1, <1>2, <2>1, <2>2 DEF StructInv, TypeOK
<1>4. MapsAgree' /\ OpenIffWatching'
  BY <1>1 DEF StructInv, MapsAgree, OpenIffWatching
<1>5. NoOrphanWatch'
  BY <1>0, <1>1, <1>2 DEF StructInv, NoOrphanWatch, Listed
<1>6. ASSUME FsnInv PROVE FsnInv'
  <2>1. ASSUME NEW w \in Dirs, Listed(fsn, w)'
        PROVE  /\ watches'[w] # Nil /\ watches'[w].info = fsn'.on[w]
               /\ fsn'.name[fsn'.on[w]] = w
    <3>1. fsn.on[w] # i /\ fsn.on[w] \in Inodes /\ fsn'.on[w] = fsn.on[w]
      BY <1>0, <1>2, <2>1 DEF Listed, Fsnotify
    <3> QED
      BY <1>0, <1>1, <1>2, <1>6, <3>1 DEF FsnInv, Listed
  <2>2. ASSUME NEW j \in Inodes, fsn'.name[j] # Nil PROVE fsn'.on[fsn'.name[j]] = j
    <3>1. j # i /\ fsn'.name[j] = fsn.name[j] /\ fsn.name[j] \in Dirs
      BY <1>0, <1>2, <2>2 DEF Fsnotify
    <3> QED
      BY <1>2, <1>6, <2>2, <3>1 DEF FsnInv
  <2>3. ASSUME NEW w \in Dirs, watches'[w] # Nil, ~Listed(fsn, w)' PROVE w \in events'
    <3>1. CASE Listed(fsn, w)
      <4>1. fsn.on[w] = i /\ fsn.name[i] = w
        BY <1>0, <1>2, <1>6, <2>3, <3>1 DEF Listed, FsnInv
      <4> QED
        BY <1>0, <1>1, <4>1
    <3>2. CASE ~Listed(fsn, w)
      BY <1>1, <1>6, <2>3, <3>2 DEF FsnInv
    <3> QED
      BY <3>1, <3>2
  <2> QED
    BY <2>1, <2>2, <2>3 DEF FsnInv
<1> QED
  BY <1>3, <1>4, <1>5, <1>6 DEF StructInv

\* A stat, a re-pointed path and the late event of a closed watcher leave the hub and
\* fsnotify alone.
LEMMA OutsideStep ==
    ASSUME StructInv,
           \/ \E h \in Handlers, d \in Dirs : Stat(h, d)
           \/ \E d \in Dirs : DropWatchLate(d)
           \/ \E d \in Dirs, i \in Inodes \cup {Nil} : Repoint(d, i)
           \/ UNCHANGED vars
    PROVE  StructInv' /\ (FsnInv => FsnInv')
<1>1. /\ dirs' = dirs /\ watches' = watches /\ open' = open /\ fsn' = fsn /\ events' = events
  BY DEF Stat, DropWatchLate, Repoint, eventVars, hubVars, vars
<1>2. TypeOK'
  <2>0. TypeOK
    BY DEF StructInv
  <2>1. ASSUME NEW h \in Handlers, NEW d \in Dirs, Stat(h, d) PROVE TypeOK'
    BY <1>1, <2>0, <2>1, CallTypes DEF Stat, fsVars, eventVars, TypeOK
  <2>2. ASSUME NEW d \in Dirs, NEW i \in Inodes \cup {Nil}, Repoint(d, i) PROVE TypeOK'
    BY <1>1, <2>0, <2>2 DEF Repoint, Change, eventVars, TypeOK
  <2>3. ASSUME UNCHANGED vars PROVE TypeOK'
    BY <2>0, <2>3 DEF vars, fsVars, eventVars, hubVars, TypeOK
  <2>4. ASSUME NEW d \in Dirs, DropWatchLate(d) PROVE TypeOK'
    BY <1>1, <2>0, <2>4 DEF DropWatchLate, fsVars, TypeOK
  <2> QED
    BY <2>1, <2>2, <2>3, <2>4
<1>3. MapsAgree' /\ OpenIffWatching' /\ NoOrphanWatch'
  BY <1>1 DEF StructInv, MapsAgree, OpenIffWatching, NoOrphanWatch, Listed
<1>4. FsnInv => FsnInv'
  BY <1>1 DEF FsnInv, Listed
<1> QED
  BY <1>2, <1>3, <1>4 DEF StructInv

\* Every step preserves the structure, and what fsnotify watches.
LEMMA HubInductive ==
    ASSUME StructInv, [Next]_vars
    PROVE  StructInv' /\ (FsnInv /\ CallInv => FsnInv')
<1>1. CASE \E h \in Handlers : Subscribe(h) \/ \E d \in Dirs : Unsubscribe(h, d)
  BY <1>1, HubStep
<1>2. CASE \E h \in Handlers, d \in Dirs : Stat(h, d)
  BY <1>2, OutsideStep
<1>3. CASE \E d \in Dirs : DropWatch(d)
  BY <1>3, HubStep
<1>4. CASE \E d \in Dirs, i \in Inodes \cup {Nil} : Repoint(d, i)
  BY <1>4, OutsideStep
<1>5. CASE \E i \in Inodes : MoveDirectory(i)
  BY <1>5, MoveStep
<1>6. CASE UNCHANGED vars
  BY <1>6, OutsideStep
<1>7. CASE \E d \in Dirs : DropWatchLate(d)
  BY <1>7, OutsideStep
<1> QED
  BY <1>1, <1>2, <1>3, <1>4, <1>5, <1>6, <1>7 DEF Next

\* The hub starts with no watcher.
LEMMA HubInit == Init => StructInv /\ FsnInv /\ CallInv
<1> SUFFICES ASSUME Init PROVE StructInv /\ FsnInv /\ CallInv
  OBVIOUS
<1>1. TypeOK
  <2>1. fsn \in Fsnotify
    BY DEF Init, Closed, Fsnotify
  <2> QED
    BY <2>1, HubAssumption DEF Init, TypeOK
<1>2. /\ \A d \in Dirs : dirs[d] = Nil /\ watches[d] = Nil /\ ~Listed(fsn, d)
      /\ \A i \in Inodes : fsn.name[i] = Nil
      /\ open = FALSE /\ \A h \in Handlers : call[h] = Nil
  BY DEF Init, Closed, Listed
<1> QED
  BY <1>1, <1>2 DEF StructInv, MapsAgree, OpenIffWatching, NoOrphanWatch, FsnInv, CallInv

\* The inductive invariant holds of every behaviour.
LEMMA StructInvariant == Spec => []StructInv
<1>1. StructInv /\ [Next]_vars => StructInv'
  BY HubInductive
<1> QED
  BY <1>1, HubInit, PTL DEF Spec

\* Every variable of the hub keeps its type.
THEOREM HubTypes == Spec => []TypeOK
<1>1. StructInv => TypeOK
  BY DEF StructInv
<1> QED
  BY <1>1, StructInvariant, PTL

\* MapsAgree: whatever is subscribed, detached, dropped and attached again in whatever
\* order, the hub's two maps describe one structure.
THEOREM HubMapsAgree == Spec => []MapsAgree
<1>1. StructInv => MapsAgree
  BY DEF StructInv
<1> QED
  BY <1>1, StructInvariant, PTL

\* OpenIffWatching: the watcher is never nil where Remove is called on it, and an idle
\* one is closed.
THEOREM WatcherOpenIffWatching == Spec => []OpenIffWatching
<1>1. StructInv => OpenIffWatching
  BY DEF StructInv
<1> QED
  BY <1>1, StructInvariant, PTL

\* NoOrphanWatch: fsnotify watches nothing the hub has forgotten.
THEOREM NothingWatchedIsForgotten == Spec => []NoOrphanWatch
<1>1. StructInv => NoOrphanWatch
  BY DEF StructInv
<1> QED
  BY <1>1, StructInvariant, PTL

\* The loop's event of a change in a directory is for every subscriber of every path the
\* hub has on a watch of it.
LEMMA HeardWhenFaithful == StructInv /\ FsnInv => EveryChangeIsHeard
<1> SUFFICES ASSUME StructInv, FsnInv, NEW d \in Dirs,
                    dirs[d] # Nil, dirs[d].watch # Nil,
                    watches[dirs[d].watch].info = target[d], dirs[d].watch \notin events,
                    NEW h \in dirs[d].handlers
             PROVE  <<h, d>> \in TargetsFor(target[d])
  BY DEF EveryChangeIsHeard
<1> DEFINE w == dirs[d].watch
<1>1. /\ w \in Dirs /\ h \in Handlers /\ dirs[d] \in HubDir
      /\ watches \in [Dirs -> HubWatch \cup {Nil}] /\ fsn \in Fsnotify
  BY DEF StructInv, TypeOK, HubDir
<1>2. watches[w] # Nil /\ d \in watches[w].dirs
  BY DEF StructInv, MapsAgree
<1>3. Listed(fsn, w)
  BY <1>1, <1>2 DEF FsnInv
<1>4. fsn.on[w] = target[d] /\ fsn.name[target[d]] = w
  BY <1>1, <1>3 DEF FsnInv
<1>5. w # Nil
  OBVIOUS
<1> HIDE DEF w
<1>6. <<h, d>> \in Handlers \X watches[w].dirs
  BY <1>1, <1>2
<1> QED
  BY <1>2, <1>4, <1>5, <1>6 DEF TargetsFor

\* While no path is re-pointed under a subscribe, a subscribe acts on what it stat'ed.
LEMMA CallStep ==
    ASSUME StructInv, ~StatRaces, CallInv, [Next]_vars
    PROVE  CallInv'
<1>0. TypeOK /\ Nil \notin Call
  BY NilAssumption DEF StructInv
<1>1. ASSUME NEW h \in Handlers, Subscribe(h) PROVE CallInv'
  <2>1. Return(h)
    BY <1>1 DEF Subscribe, SubscribeMissing, SubscribeCurrent, SubscribeAfresh
  <2> QED
    BY <1>0, <2>1 DEF Return, fsVars, CallInv, TypeOK
<1>2. ASSUME NEW h \in Handlers, NEW d \in Dirs, Stat(h, d) PROVE CallInv'
  BY <1>0, <1>2 DEF Stat, fsVars, CallInv, TypeOK
<1>3. ASSUME target' = target, call' = call PROVE CallInv'
  BY <1>3 DEF CallInv
<1>4. ASSUME NEW d \in Dirs, NEW i \in Inodes \cup {Nil}, Repoint(d, i) PROVE CallInv'
  <2>1. /\ \A h \in Handlers : call[h] # Nil => call[h].dir # d
        /\ target' = [target EXCEPT ![d] = i] /\ call' = call
    BY <1>4 DEF Repoint, Pending
  <2>2. \A h \in Handlers : call[h] # Nil => call[h].dir \in Dirs
    BY <1>0 DEF TypeOK, Call
  <2> QED
    BY <1>0, <2>1, <2>2 DEF CallInv, TypeOK
<1>5. ASSUME NEW i \in Inodes, MoveDirectory(i) PROVE CallInv'
  <2>1. /\ \A d \in Dirs : target[d] = i => \A h \in Handlers : call[h] # Nil => call[h].dir # d
        /\ target' = [d \in Dirs |-> IF target[d] = i THEN Nil ELSE target[d]] /\ call' = call
    BY <1>5 DEF MoveDirectory, Pending
  <2>2. \A h \in Handlers : call[h] # Nil => call[h].dir \in Dirs
    BY <1>0 DEF TypeOK, Call
  <2> QED
    BY <1>0, <2>1, <2>2 DEF CallInv
<1>6. ASSUME NEW h \in Handlers, NEW d \in Dirs, Unsubscribe(h, d) PROVE CallInv'
  BY <1>3, <1>6 DEF Unsubscribe, fsVars
<1>7. ASSUME NEW d \in Dirs, DropWatch(d) PROVE CallInv'
  BY <1>3, <1>7 DEF DropWatch, fsVars
<1>8. ASSUME UNCHANGED vars PROVE CallInv'
  BY <1>3, <1>8 DEF vars, fsVars
<1>9. ASSUME NEW d \in Dirs, DropWatchLate(d) PROVE CallInv'
  BY <1>3, <1>9 DEF DropWatchLate, fsVars
<1> QED
  BY <1>1, <1>2, <1>4, <1>5, <1>6, <1>7, <1>8, <1>9 DEF Next

\* EveryChangeIsHeard: as long as no path is re-pointed between a subscribe's stat and
\* its lock, a change in a directory the hub has a watch of reaches every handler
\* subscribed to any path of that watch, or the drop of the watch is still to be taken.
THEOREM ChangesAreHeard == ASSUME ~StatRaces PROVE Spec => []EveryChangeIsHeard
<1>1. StructInv /\ FsnInv /\ CallInv /\ [Next]_vars => (StructInv /\ FsnInv /\ CallInv)'
  BY HubInductive, CallStep
<1>2. StructInv /\ FsnInv /\ CallInv => EveryChangeIsHeard
  BY HeardWhenFaithful
<1> QED
  BY <1>1, <1>2, HubInit, PTL DEF Spec

(***************************************************************************)
(* The hub implements Subscriptions.                                       *)
(***************************************************************************)
\* The subscriptions a step on the path d leaves.
LEMMA OutcomeSubscribed ==
    ASSUME StructInv, NEW d \in Dirs, NEW hs \in SUBSET Handlers, NEW pending, NEW hub,
           Outcome(hub, d, hs, pending)
    PROVE  Subscribed' = (Subscribed \ (Handlers \X {d}))
                           \cup (IF hub.dirs[d] = Nil THEN {} ELSE hs \X {d})
<1> DEFINE now == IF hub.dirs[d] = Nil THEN {} ELSE hs \X {d}
<1>1. Subscribed' = {s \in Handlers \X Dirs : hub.dirs[s[2]] # Nil /\ s[1] \in hub.dirs[s[2]].handlers}
  BY DEF Outcome, Become, Subscribed
<1>2. ASSUME NEW h \in Handlers, NEW x \in Dirs
      PROVE  <<h, x>> \in Subscribed' <=> <<h, x>> \in (Subscribed \ (Handlers \X {d})) \cup now
  <2>1. <<h, x>> \in Subscribed' <=> hub.dirs[x] # Nil /\ h \in hub.dirs[x].handlers
    BY <1>1
  <2>2. <<h, x>> \in Subscribed <=> dirs[x] # Nil /\ h \in dirs[x].handlers
    BY DEF Subscribed
  <2>3. CASE x = d
    <3>1. <<h, x>> \in now <=> hub.dirs[x] # Nil /\ h \in hub.dirs[x].handlers
      BY <2>3 DEF Outcome
    <3> QED
      BY <2>1, <2>3, <3>1
  <2>4. CASE x # d
    <3>1. <<h, x>> \notin now
      BY <2>4
    <3>2. <<h, x>> \in Subscribed' <=> <<h, x>> \in Subscribed
      BY <2>1, <2>2, <2>4 DEF Outcome
    <3> QED
      BY <2>4, <3>1, <3>2
  <2> QED
    BY <2>3, <2>4
<1>3. Subscribed' \subseteq Handlers \X Dirs
  BY DEF Subscribed
<1>4. (Subscribed \ (Handlers \X {d})) \cup now \subseteq Handlers \X Dirs
  BY DEF Subscribed
<1> HIDE DEF now
<1>5. Subscribed' = (Subscribed \ (Handlers \X {d})) \cup now
  BY <1>2, <1>3, <1>4
<1> QED
  BY <1>5 DEF now

\* Each call of a handler is a call of the abstract hub, and nothing else ends a
\* subscription.
LEMMA HubStepRefines ==
    ASSUME StructInv, [Next]_vars
    PROVE  [Promise!Next]_(Promise!vars)
<1>0. /\ dirs \in [Dirs -> HubDir \cup {Nil}] /\ Promise!vars = Subscribed
  BY DEF StructInv, TypeOK, Promise!vars
<1>h. ASSUME NEW d \in Dirs, NEW h \in Handlers
      PROVE  /\ dirs[d] # Nil => dirs[d].handlers \subseteq Handlers
             /\ <<h, d>> \in Subscribed <=> dirs[d] # Nil /\ h \in dirs[d].handlers
  BY <1>0 DEF HubDir, Subscribed
<1>1. ASSUME NEW h \in Handlers, SubscribeMissing(h) PROVE [Promise!Next]_(Promise!vars)
  <2> DEFINE d == call[h].dir
  <2>1. d \in Dirs /\ \E hub : Outcome(hub, d, {}, events) /\ hub.dirs[d] = Nil
    BY <1>1, MissingOutcome
  <2> HIDE DEF d
  <2>2. Subscribed' = Subscribed \ (Handlers \X {d})
    BY <2>1, OutcomeSubscribed
  <2> QED
    BY <2>1, <2>2 DEF Promise!Next, Promise!SubscribeFails
<1>2. ASSUME NEW h \in Handlers, NEW d \in Dirs, NEW hub, NEW had \in SUBSET Handlers,
             had = IF dirs[d] = Nil THEN {} ELSE dirs[d].handlers,
             Outcome(hub, d, had \cup {h}, events)
      PROVE  [Promise!Next]_(Promise!vars)
  <2>1. Subscribed' = (Subscribed \ (Handlers \X {d}))
                        \cup (IF hub.dirs[d] = Nil THEN {} ELSE (had \cup {h}) \X {d})
    <3>1. PICK hs : hs = had \cup {h}
      OBVIOUS
    <3>2. hs \in SUBSET Handlers /\ Outcome(hub, d, hs, events)
      BY <1>2, <3>1
    <3>3. Subscribed' = (Subscribed \ (Handlers \X {d}))
                          \cup (IF hub.dirs[d] = Nil THEN {} ELSE hs \X {d})
      BY <3>2, OutcomeSubscribed
    <3> QED
      BY <3>1, <3>3
  <2>2. CASE hub.dirs[d] = Nil
    BY <2>1, <2>2 DEF Promise!Next, Promise!SubscribeFails
  <2>3. CASE hub.dirs[d] # Nil
    <3>1. Subscribed \cap (Handlers \X {d}) = had \X {d}
      BY <1>2 DEF Subscribed
    <3>2. Subscribed' = Subscribed \cup {<<h, d>>}
      BY <2>1, <2>3, <3>1
    <3> QED
      BY <3>2 DEF Promise!Next, Promise!Subscribe
  <2> QED
    BY <2>2, <2>3
<1>3. ASSUME NEW h \in Handlers, SubscribeCurrent(h) \/ SubscribeAfresh(h)
      PROVE  [Promise!Next]_(Promise!vars)
  <2> DEFINE d == call[h].dir
             had == IF dirs[d] = Nil THEN {} ELSE dirs[d].handlers
  <2>1. d \in Dirs /\ \E hub : Outcome(hub, d, had \cup {h}, events)
    <3>1. CASE SubscribeCurrent(h)
      <4>1. d \in Dirs /\ had = dirs[d].handlers
        BY <3>1, CurrentOutcome
      <4>2. \E hub : Outcome(hub, d, dirs[d].handlers \cup {h}, events)
        BY <3>1, CurrentOutcome
      <4> QED
        BY <4>1, <4>2
    <3>2. CASE SubscribeAfresh(h)
      BY <3>2, AfreshOutcome
    <3> QED
      BY <1>3, <3>1, <3>2
  <2>2. had \in SUBSET Handlers
    BY <1>h, <2>1
  <2>3. PICK hub : Outcome(hub, d, had \cup {h}, events)
    BY <2>1
  <2>4. had = IF dirs[d] = Nil THEN {} ELSE dirs[d].handlers
    OBVIOUS
  <2> HIDE DEF d, had
  <2> QED
    BY <1>2, <2>1, <2>2, <2>3, <2>4
<1>4. ASSUME NEW h \in Handlers, NEW d \in Dirs, Unsubscribe(h, d)
      PROVE  [Promise!Next]_(Promise!vars)
  <2> DEFINE left == dirs[d].handlers \ {h}
  <2>1. dirs[d] # Nil /\ dirs[d].handlers \subseteq Handlers
    BY <1>h, <1>4 DEF Unsubscribe
  <2>2. PICK hub : Outcome(hub, d, left, events) /\ (hub.dirs[d] = Nil => left = {})
    BY <1>4, UnsubscribeOutcome
  <2>3. Subscribed' = (Subscribed \ (Handlers \X {d})) \cup (left \X {d})
    BY <2>1, <2>2, OutcomeSubscribed
  <2>4. Subscribed \cap (Handlers \X {d}) = dirs[d].handlers \X {d}
    BY <2>1 DEF Subscribed
  <2>5. Subscribed' = Subscribed \ {<<h, d>>}
    BY <2>3, <2>4
  <2> QED
    BY <2>5 DEF Promise!Next, Promise!Unsubscribe
<1>5. ASSUME NEW d \in Dirs, DropWatch(d) PROVE Subscribed' = Subscribed
  <2>1. PICK hub : Outcome(hub, d, dirs[d].handlers, events \ {d}) /\ SameHandlers(Hub, hub)
    BY <1>5, DropOutcome
  <2>2. dirs' = hub.dirs
    BY <2>1 DEF Outcome, Become
  <2>3. \A x \in Dirs : /\ dirs'[x] = Nil <=> dirs[x] = Nil
                        /\ dirs[x] # Nil => dirs'[x].handlers = dirs[x].handlers
    BY <2>1, <2>2, HubIsSound DEF SameHandlers
  <2> QED
    BY <2>3 DEF Subscribed
<1>6. ASSUME dirs' = dirs PROVE Subscribed' = Subscribed
  BY <1>6 DEF Subscribed
<1>7. ASSUME \/ \E h \in Handlers, d \in Dirs : Stat(h, d)
             \/ \E d \in Dirs : DropWatchLate(d)
             \/ \E d \in Dirs, i \in Inodes \cup {Nil} : Repoint(d, i)
             \/ \E i \in Inodes : MoveDirectory(i)
             \/ UNCHANGED vars
      PROVE  Subscribed' = Subscribed
  BY <1>6, <1>7 DEF Stat, DropWatchLate, Repoint, MoveDirectory, hubVars, vars
<1> QED
  <2>1. Subscribed' = Subscribed => [Promise!Next]_(Promise!vars)
    BY <1>0 DEF Promise!vars
  <2> QED
    BY <1>1, <1>3, <1>4, <1>5, <1>7, <2>1 DEF Next, Subscribe

\* ImplementsSubscriptions: however paths share watches and watches move, a subscription
\* ends only by its handler's own unsubscribe or by a failing subscribe to its path.
THEOREM HubImplementsSubscriptions == Spec => ImplementsSubscriptions
<1>1. Init => Promise!Init
  BY DEF Init, Promise!Init, Subscribed
<1>2. StructInv /\ [Next]_vars => [Promise!Next]_(Promise!vars)
  BY HubStepRefines
<1> QED
  BY <1>1, <1>2, StructInvariant, PTL DEF Spec, ImplementsSubscriptions, Promise!Spec
=============================================================================

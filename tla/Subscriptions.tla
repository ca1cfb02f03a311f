---------------------------- MODULE Subscriptions ----------------------------
(***************************************************************************)
(* What the shared watcher promises its handlers: which of them are to be  *)
(* told of the changes in which directories.  WatchHub implements it; the  *)
(* subscribed variable of FileHandler is one handler's part of it.         *)
(***************************************************************************)
CONSTANTS Handlers, Dirs

VARIABLE subscriptions

vars == subscriptions

Init == subscriptions = {}

Subscribe(h, d) == subscriptions' = subscriptions \cup {<<h, d>>}

\* A subscribe that fails ends the directory's subscriptions, of every handler.
SubscribeFails(d) == subscriptions' = subscriptions \ (Handlers \X {d})

Unsubscribe(h, d) == subscriptions' = subscriptions \ {<<h, d>>}

Next == \E d \in Dirs :
    SubscribeFails(d) \/ \E h \in Handlers : Subscribe(h, d) \/ Unsubscribe(h, d)

Spec == Init /\ [][Next]_vars
=============================================================================

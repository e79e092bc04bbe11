-------------------------------- MODULE Feed --------------------------------
(* The dashboard's events: events.go, and handleEvents of handlers.go.       *)
(*                                                                           *)
(* Whoever changes the state broadcasts it: a snapshot in one section, which *)
(* a second one puts on the queue of each subscriber, or drops.  Snapshots   *)
(* of two goroutines may arrive in either order.  The monitor broadcasts on  *)
(* every round.  The state is the number of its last change.                 *)
EXTENDS Integers, Sequences

CONSTANTS
    Changer,     \* goroutines that change the state and broadcast it
    Ticker,      \* the monitor
    Subscriber,  \* open dashboards
    QueueLen,    \* room in a subscriber's channel (8 in the code)
    MaxChanges   \* bound: changes of the state

ASSUME FeedAssumption ==
    /\ QueueLen \in Nat \ {0} /\ MaxChanges \in Nat
    /\ Ticker \notin Changer

Broadcaster == Changer \cup {Ticker}
Nothing == -1

VARIABLES
    version,   \* the state of the Manager
    taken,     \* the snapshot a goroutine has taken and not sent
    dirty,     \* changers that have still to broadcast
    subs,      \* m.subs
    queue,     \* the channel of each subscriber
    shown,     \* what its browser shows
    greeted    \* subscribers that were sent the initial state

feedVars == <<version, taken, dirty, subs, queue, shown, greeted>>

-----------------------------------------------------------------------------
(* Broadcasting *)

Change(g) ==
    /\ version < MaxChanges /\ g \notin dirty
    /\ version' = version + 1
    /\ dirty' = dirty \cup {g}
    /\ UNCHANGED <<taken, subs, queue, shown, greeted>>

(* Mutant: the monitor leaves it to those who change something. *)
MayBroadcastChanges(g) == g \in dirty

MayBroadcast(g) == g = Ticker \/ g \in dirty

Snapshot(g) ==
    /\ MayBroadcast(g) /\ taken[g] = Nothing
    /\ taken' = [taken EXCEPT ![g] = version]
    /\ UNCHANGED <<version, dirty, subs, queue, shown, greeted>>

(* A queue that is full loses this state.                                    *)
Offer(q, v) == IF Len(q) < QueueLen THEN Append(q, v) ELSE q

Broadcast(g) ==
    /\ taken[g] # Nothing
    /\ queue' = [s \in Subscriber |-> IF s \in subs THEN Offer(queue[s], taken[g]) ELSE queue[s]]
    /\ taken' = [taken EXCEPT ![g] = Nothing]
    /\ dirty' = dirty \ {g}
    /\ UNCHANGED <<version, subs, shown, greeted>>

-----------------------------------------------------------------------------
(* GET /api/events *)

Subscribe(s) ==
    /\ s \notin subs
    /\ subs' = subs \cup {s}
    /\ UNCHANGED <<version, taken, dirty, queue, shown, greeted>>

(* The initial state, after the channel is registered.                       *)
Greet(s) ==
    /\ s \in subs \ greeted
    /\ greeted' = greeted \cup {s}
    /\ shown' = [shown EXCEPT ![s] = version]
    /\ UNCHANGED <<version, taken, dirty, subs, queue>>

Receive(s) ==
    /\ s \in subs \cap greeted /\ queue[s] # <<>>
    /\ shown' = [shown EXCEPT ![s] = Head(queue[s])]
    /\ queue' = [queue EXCEPT ![s] = Tail(@)]
    /\ UNCHANGED <<version, taken, dirty, subs, greeted>>

Leave_(s) ==
    /\ s \in subs
    /\ subs' = subs \ {s} /\ greeted' = greeted \ {s}
    /\ queue' = [queue EXCEPT ![s] = <<>>]
    /\ shown' = [shown EXCEPT ![s] = Nothing]
    /\ UNCHANGED <<version, taken, dirty>>

-----------------------------------------------------------------------------
FeedInit ==
    /\ version = 0 /\ dirty = {} /\ subs = {} /\ greeted = {}
    /\ taken = [g \in Broadcaster |-> Nothing]
    /\ queue = [s \in Subscriber |-> <<>>]
    /\ shown = [s \in Subscriber |-> Nothing]

Broadcasts(g) == Snapshot(g) \/ Broadcast(g)
Listens(s) == Greet(s) \/ Receive(s)

FeedNext ==
    \/ \E g \in Changer : Change(g)
    \/ \E g \in Broadcaster : Broadcasts(g)
    \/ \E s \in Subscriber : Subscribe(s) \/ Listens(s) \/ Leave_(s)

(* Goroutines run on, the monitor goes round for ever, and a dashboard that  *)
(* stays open reads what it is sent.                                         *)
FeedFairness ==
    /\ \A g \in Broadcaster : WF_feedVars(Broadcasts(g))
    /\ \A s \in Subscriber : WF_feedVars(Listens(s))

-----------------------------------------------------------------------------
FeedTypeOK ==
    /\ version \in 0..MaxChanges
    /\ dirty \subseteq Changer /\ greeted \subseteq subs /\ subs \subseteq Subscriber
    /\ taken \in [Broadcaster -> {Nothing} \cup 0..MaxChanges]
    /\ shown \in [Subscriber -> {Nothing} \cup 0..MaxChanges]
    /\ queue \in [Subscriber -> Seq(0..MaxChanges)]
    /\ \A s \in Subscriber : Len(queue[s]) <= QueueLen

(* A dashboard that stays open shows the state there is in the end, although *)
(* its queue drops states when it is full and old ones may come late.        *)
LastShown ==
    \A s \in Subscriber : \A v \in 0..MaxChanges :
        <>[](version = v /\ s \in subs) => <>[](shown[s] = v)
=============================================================================

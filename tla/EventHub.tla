------------------------------ MODULE EventHub ------------------------------
(***************************************************************************)
(* Events from the worker to the browser: realtime/events.py publishes     *)
(* them with pg_notify, realtime/hub.py listens on one connection per API  *)
(* process and fans them out to bounded queues, api/routes/events.py       *)
(* drains a queue into each socket.                                        *)
(*                                                                         *)
(* An event is a hint to fetch again, so an event is its serial number:    *)
(* the order in which the publishing transactions committed.  A socket's   *)
(* owner is fixed; time is the listener's wait before it reconnects.       *)
(***************************************************************************)
EXTENDS Integers, SequencesExt

CONSTANTS
    HubUsers,
    HubSockets,
    HubOwner,       \* [HubSockets -> HubUsers]: whose token the socket sends
    QueueSize,      \* QUEUE_SIZE
    FirstDelay,     \* RECONNECT_DELAY_SECONDS
    MaxDelay,       \* MAX_RECONNECT_DELAY_SECONDS
    MaxEvents,      \* bound: events published
    MaxDrops        \* bound: times the listening connection is lost or refused

ASSUME HubAssumption ==
    /\ HubOwner \in [HubSockets -> HubUsers]
    /\ QueueSize \in Nat \ {0}
    /\ FirstDelay \in Nat /\ MaxDelay \in Nat /\ FirstDelay <= MaxDelay
    /\ MaxEvents \in Nat /\ MaxDrops \in Nat

VARIABLES
    published,      \* events committed so far
    channel,        \* notifications sent to the listener and not yet read
    listener,       \* what the hub's task is doing
    delay,          \* its next wait
    waiting,        \* what is left of the present wait
    blocked,        \* users who may not sign in any more
    socket,         \* the socket's connection
    queue,          \* its queue in the hub, while it is subscribed
    told,           \* the newest event its client has received
    newest,         \* the newest event the hub has routed to it since it subscribed
    drops

hubVars == <<published, channel, listener, delay, waiting, blocked, socket, queue, told, newest, drops>>
listenerVars == <<channel, listener, delay, waiting, drops>>
socketVars == <<blocked, socket, queue, told, newest>>

Notices == [serial : 1..MaxEvents, to : HubUsers]

HubInit ==
    /\ published = 0 /\ channel = <<>>
    /\ listener = "off" /\ delay = FirstDelay /\ waiting = 0 /\ drops = 0
    /\ blocked = {}
    /\ socket = [s \in HubSockets |-> "closed"]
    /\ queue = [s \in HubSockets |-> <<>>]
    /\ told = [s \in HubSockets |-> 0]
    /\ newest = [s \in HubSockets |-> 0]

-----------------------------------------------------------------------------
(* Publishing *)

(* A transaction that called publish commits: the notification goes to the *)
(* connections that listen at that moment, and to no other.  A rollback,   *)
(* an oversized payload and a failed pg_notify publish nothing.            *)
Publish(u) ==
    /\ published < MaxEvents /\ published' = published + 1
    /\ channel' = IF listener = "listening"
                  THEN Append(channel, [serial |-> published + 1, to |-> u]) ELSE channel
    /\ UNCHANGED <<listener, delay, waiting, drops, socketVars>>

-----------------------------------------------------------------------------
(* The listener's task *)

StartHub ==
    /\ listener = "off" /\ listener' = "connecting"
    /\ delay' = FirstDelay
    /\ UNCHANGED <<published, channel, waiting, drops, socketVars>>

Listen ==
    /\ listener = "connecting" /\ listener' = "listening"
    /\ UNCHANGED <<published, channel, delay, waiting, drops, socketVars>>

(* Lost, closed or refused alike: what was in flight is gone, and the task *)
(* sleeps.                                                                 *)
LoseListener ==
    /\ listener \in {"connecting", "listening"} /\ listener' = "sleeping"
    /\ drops < MaxDrops /\ drops' = drops + 1
    /\ channel' = <<>> /\ waiting' = delay
    /\ UNCHANGED <<published, delay, socketVars>>

Sleep ==
    /\ listener = "sleeping" /\ waiting > 0 /\ waiting' = waiting - 1
    /\ UNCHANGED <<published, channel, listener, delay, drops, socketVars>>

(* Mutant: a refused reconnection is the last one tried. *)
ReconnectOnce ==
    /\ listener = "sleeping" /\ waiting = 0 /\ delay = FirstDelay /\ listener' = "connecting"
    /\ delay' = IF 2 * delay < MaxDelay THEN 2 * delay ELSE MaxDelay
    /\ UNCHANGED <<published, channel, waiting, drops, socketVars>>

(* The delay doubles for the life of the task: nothing resets it.          *)
Reconnect ==
    /\ listener = "sleeping" /\ waiting = 0 /\ listener' = "connecting"
    /\ delay' = IF 2 * delay < MaxDelay THEN 2 * delay ELSE MaxDelay
    /\ UNCHANGED <<published, channel, waiting, drops, socketVars>>

(* The process ends: the task is cancelled wherever it is. *)
StopHub ==
    /\ listener \notin {"off", "stopped"} /\ listener' = "stopped"
    /\ channel' = <<>> /\ waiting' = 0
    /\ UNCHANGED <<published, delay, drops, socketVars>>

-----------------------------------------------------------------------------
(* Fan-out *)

(* Mutant: a full queue refuses the event. *)
PutIfRoom(q, e) == IF Len(q) = QueueSize THEN q ELSE Append(q, e)

(* A full queue loses its oldest event. *)
Put(q, e) == Append(IF Len(q) = QueueSize THEN Tail(q) ELSE q, e)

Subscribed(s, u) == socket[s] = "open" /\ HubOwner[s] = u

Deliver ==
    /\ listener = "listening" /\ channel # <<>>
    /\ LET n == Head(channel) IN
       /\ queue' = [s \in HubSockets |->
                      IF Subscribed(s, n.to) THEN Put(queue[s], n.serial) ELSE queue[s]]
       /\ newest' = [s \in HubSockets |-> IF Subscribed(s, n.to) THEN n.serial ELSE newest[s]]
    /\ channel' = Tail(channel)
    /\ UNCHANGED <<published, listener, delay, waiting, drops, blocked, socket, told>>

-----------------------------------------------------------------------------
(* Sockets *)

Accept(s) ==
    /\ socket[s] = "closed" /\ socket' = [socket EXCEPT ![s] = "unauthenticated"]
    /\ UNCHANGED <<published, listenerVars, blocked, queue, told, newest>>

(* The first frame carries a usable token of an account that may sign in.  *)
(* What the client fetches from here on includes every event so far.       *)
Authenticate(s) ==
    /\ socket[s] = "unauthenticated" /\ HubOwner[s] \notin blocked
    /\ socket' = [socket EXCEPT ![s] = "open"]
    /\ UNCHANGED <<published, listenerVars, blocked, queue, told, newest>>

(* No frame in time, one that is no token, or a blocked account.           *)
Refuse(s) ==
    /\ socket[s] = "unauthenticated" /\ socket' = [socket EXCEPT ![s] = "closed"]
    /\ UNCHANGED <<published, listenerVars, blocked, queue, told, newest>>

Send(s) ==
    /\ socket[s] = "open" /\ queue[s] # <<>>
    /\ told' = [told EXCEPT ![s] = Head(queue[s])]
    /\ queue' = [queue EXCEPT ![s] = Tail(@)]
    /\ UNCHANGED <<published, listenerVars, blocked, socket, newest>>

(* The peer is gone: unsubscribe drops the queue with what it holds.       *)
Disconnect(s) ==
    /\ socket[s] = "open" /\ socket' = [socket EXCEPT ![s] = "closed"]
    /\ queue' = [queue EXCEPT ![s] = <<>>]
    /\ told' = [told EXCEPT ![s] = 0]
    /\ newest' = [newest EXCEPT ![s] = 0]
    /\ UNCHANGED <<published, listenerVars, blocked>>

(* An administrator blocks an account; its open sockets stay open.         *)
Block(u) ==
    /\ u \notin blocked /\ blocked' = blocked \cup {u}
    /\ UNCHANGED <<published, listenerVars, socket, queue, told, newest>>

HubNext ==
    \/ StartHub \/ Listen \/ LoseListener \/ Sleep \/ Reconnect \/ StopHub \/ Deliver
    \/ \E u \in HubUsers : Publish(u) \/ Block(u)
    \/ \E s \in HubSockets : Accept(s) \/ Authenticate(s) \/ Refuse(s) \/ Send(s) \/ Disconnect(s)

(* The event loop runs the task and the sockets that are still read.       *)
HubLoop == Listen \/ Sleep \/ Reconnect \/ Deliver

HubFairness == WF_hubVars(HubLoop) /\ \A s \in HubSockets : WF_hubVars(Send(s))

HubSpec == HubInit /\ [][HubNext]_hubVars /\ HubFairness

-----------------------------------------------------------------------------
(* Properties *)

HubTypeOK ==
    /\ published \in 0..MaxEvents /\ drops \in 0..MaxDrops
    /\ channel \in Seq(Notices)
    /\ listener \in {"off", "connecting", "listening", "sleeping", "stopped"}
    /\ delay \in FirstDelay..MaxDelay /\ waiting \in 0..MaxDelay
    /\ blocked \subseteq HubUsers
    /\ socket \in [HubSockets -> {"closed", "unauthenticated", "open"}]
    /\ queue \in [HubSockets -> Seq(1..MaxEvents)]
    /\ told \in [HubSockets -> 0..MaxEvents] /\ newest \in [HubSockets -> 0..MaxEvents]

(* Whatever a slow client loses, the newest event routed to it is not      *)
(* among it: it has it or it is the last in its queue, which never         *)
(* outgrows its bound and keeps commit order ("the newest one is the only  *)
(* one that matters").                                                     *)
NewestSurvives ==
    \A s \in HubSockets : socket[s] = "open" =>
        /\ Len(queue[s]) <= QueueSize
        /\ newest[s] = IF queue[s] = <<>> THEN told[s] ELSE Last(queue[s])
        /\ \A i \in 1..Len(queue[s]) : told[s] < queue[s][i]
        /\ \A i, j \in 1..Len(queue[s]) : i < j => queue[s][i] < queue[s][j]

(* A listener that is lost listens again, and a client that stays          *)
(* connected is told of the newest event routed to it ("a dropped listener *)
(* must not silently stop the feature").                                   *)
EventsFlow ==
    /\ listener = "sleeping" ~> listener \in {"listening", "stopped"}
    /\ \A s \in HubSockets : queue[s] # <<>> ~> queue[s] = <<>>
=============================================================================

--------------------------- MODULE Providers_proofs ---------------------------
(***************************************************************************)
(* Proofs about EventHub for every set of sockets, length of queue and     *)
(* number of events, about LlmGateway for every set of providers,          *)
(* threshold, rest and number of attempts, and about FeedReader for any    *)
(* sources, readers, schedules and edits.                                  *)
(***************************************************************************)
EXTENDS EventHub, LlmGateway, FeedReader, SequenceTheorems, WellFoundedInduction, TLAPS

USE DEF listenerVars, socketVars

-----------------------------------------------------------------------------
(* Queues of serials *)

Serials == 1..MaxEvents

(* What a queue holds is in commit order and newer than what was told. *)
InOrder(q, t) ==
    /\ \A i \in 1..Len(q) : t < q[i]
    /\ \A i, j \in 1..Len(q) : i < j => q[i] < q[j]

LEMMA HubNumbers == {QueueSize, FirstDelay, MaxDelay, MaxEvents, MaxDrops} \subseteq Nat
  BY HubAssumption

(* The tail of a queue in order is in order. *)
LEMMA TailInOrder ==
  ASSUME NEW q \in Seq(Serials), NEW t \in Nat, q # <<>>, InOrder(q, t)
  PROVE  /\ Tail(q) \in Seq(Serials) /\ Len(Tail(q)) = Len(q) - 1
         /\ Head(q) = q[1] /\ Len(q) \in Nat \ {0}
         /\ \A i \in 1..Len(Tail(q)) : Tail(q)[i] = q[i + 1]
         /\ InOrder(Tail(q), t) /\ InOrder(Tail(q), Head(q))
  <1>1. Len(q) \in Nat \ {0}
    BY EmptySeq
  <1>2. /\ Tail(q) \in Seq(Serials) /\ Len(Tail(q)) = Len(q) - 1
        /\ \A i \in 1..Len(Tail(q)) : Tail(q)[i] = q[i + 1]
    BY HeadTailProperties
  <1>3. Head(q) = q[1]
    BY <1>1
  <1>4. \A i \in 1..Len(Tail(q)) : i + 1 \in 1..Len(q)
    BY <1>1, <1>2
  <1>5. InOrder(Tail(q), t)
    BY <1>1, <1>2, <1>4 DEF InOrder
  <1>6. InOrder(Tail(q), Head(q))
    BY <1>1, <1>2, <1>3, <1>4 DEF InOrder
  <1> QED
    BY <1>1, <1>2, <1>3, <1>5, <1>6

(* A queue that takes an event newer than all it holds keeps its bound and *)
(* its order, and the event is its last.                                   *)
LEMMA PutInOrder ==
  ASSUME NEW q \in Seq(Serials), NEW t \in Nat, NEW n \in Serials,
         Len(q) <= QueueSize, InOrder(q, t), \A i \in 1..Len(q) : q[i] < n, t < n
  PROVE  /\ Put(q, n) \in Seq(Serials) /\ Put(q, n) # <<>> /\ Len(Put(q, n)) <= QueueSize
         /\ Last(Put(q, n)) = n /\ InOrder(Put(q, n), t)
  <1> DEFINE kept == IF Len(q) = QueueSize THEN Tail(q) ELSE q
  <1>1. /\ kept \in Seq(Serials) /\ Len(kept) \in Nat /\ Len(kept) + 1 <= QueueSize
        /\ InOrder(kept, t) /\ \A i \in 1..Len(kept) : kept[i] < n
    <2>1. CASE Len(q) = QueueSize
      <3>1. q # <<>>
        BY <2>1, HubAssumption, EmptySeq
      <3>2. \A i \in 1..Len(Tail(q)) : i + 1 \in 1..Len(q)
        BY <3>1, TailInOrder
      <3> QED
        BY <2>1, <3>1, <3>2, TailInOrder
    <2>2. CASE Len(q) # QueueSize
      BY <2>2, LenProperties, HubNumbers
    <2> QED
      BY <2>1, <2>2
  <1>2. Put(q, n) = Append(kept, n)
    BY DEF Put
  <1> HIDE DEF kept
  <1>3. /\ Append(kept, n) \in Seq(Serials) /\ Append(kept, n) # <<>>
        /\ Len(Append(kept, n)) = Len(kept) + 1
        /\ \A i \in 1..Len(kept) : Append(kept, n)[i] = kept[i]
        /\ Append(kept, n)[Len(kept) + 1] = n
    BY <1>1, AppendProperties
  <1>4. Last(Append(kept, n)) = n
    BY <1>3 DEF Last
  <1>5. InOrder(Append(kept, n), t)
    <2>1. \A i \in 1..(Len(kept) + 1) : i \in 1..Len(kept) \/ i = Len(kept) + 1
      BY <1>1
    <2>2. \A i \in 1..Len(kept) : kept[i] \in Serials
      BY <1>1, ElementOfSeq
    <2> QED
      BY <1>1, <1>3, <2>1, <2>2 DEF InOrder
  <1> QED
    BY <1>1, <1>2, <1>3, <1>4, <1>5

-----------------------------------------------------------------------------
(* The hub *)

(* What the listener has not read was committed in the order it will read. *)
ChannelInOrder ==
    /\ \A i \in 1..Len(channel) : channel[i].serial <= published
    /\ \A i, j \in 1..Len(channel) : i < j => channel[i].serial < channel[j].serial

(* It is newer than what any socket was routed. *)
RoutedIsOlder ==
    \A s \in HubSockets :
        /\ newest[s] <= published
        /\ \A i \in 1..Len(channel) : newest[s] < channel[i].serial

(* A socket that is not subscribed has nothing. *)
OnlyOpenIsRouted ==
    \A s \in HubSockets : socket[s] # "open" =>
        queue[s] = <<>> /\ told[s] = 0 /\ newest[s] = 0

HubInv == HubTypeOK /\ ChannelInOrder /\ RoutedIsOlder /\ OnlyOpenIsRouted /\ NewestSurvives

LEMMA ChannelTypes ==
  ASSUME HubTypeOK
  PROVE  /\ channel \in Seq(Notices) /\ Len(channel) \in Nat
         /\ \A i \in 1..Len(channel) : channel[i] \in Notices /\ channel[i].serial \in Serials
  <1>1. channel \in Seq(Notices)
    BY DEF HubTypeOK
  <1>2. \A i \in 1..Len(channel) : channel[i] \in Notices
    BY <1>1, ElementOfSeq
  <1>3. \A n \in Notices : n.serial \in Serials
    BY DEF Notices, Serials
  <1> QED
    BY <1>1, <1>2, <1>3, LenProperties

LEMMA HubInvInit == HubInit => HubInv
  BY HubAssumption DEF HubInit, HubInv, HubTypeOK, ChannelInOrder, RoutedIsOlder,
     OnlyOpenIsRouted, NewestSurvives

(* A published event is the newest of the channel. *)
LEMMA PublishKeepsHub ==
  ASSUME HubInv, NEW u \in HubUsers, Publish(u)
  PROVE  HubInv'
  <1> DEFINE n == [serial |-> published + 1, to |-> u]
  <1>0. /\ published \in Nat /\ published < MaxEvents /\ MaxEvents \in Nat
        /\ published' = published + 1
        /\ UNCHANGED <<listener, delay, waiting, drops, blocked, socket, queue, told, newest>>
    BY HubNumbers DEF Publish, HubInv, HubTypeOK
  <1>1. n \in Notices /\ n.serial = published + 1
    BY <1>0 DEF Notices
  <1>2. channel \in Seq(Notices) /\ Len(channel) \in Nat
        /\ \A i \in 1..Len(channel) : channel[i].serial \in Nat
    BY ChannelTypes DEF HubInv, Serials
  <1>3. CASE channel' = channel
    <2>1. HubTypeOK'
      BY <1>0, <1>3 DEF HubInv, HubTypeOK
    <2>2. ChannelInOrder' /\ RoutedIsOlder'
      <3>1. \A s \in HubSockets : newest[s] \in Nat
        BY <1>0 DEF HubInv, HubTypeOK
      <3> QED
        BY <1>0, <1>2, <1>3, <3>1 DEF HubInv, ChannelInOrder, RoutedIsOlder
    <2> QED
      BY <1>0, <2>1, <2>2 DEF HubInv, OnlyOpenIsRouted, NewestSurvives
  <1>4. CASE channel' = Append(channel, n)
    <2>1. /\ channel' \in Seq(Notices) /\ Len(channel') = Len(channel) + 1
          /\ \A i \in 1..Len(channel) : channel'[i] = channel[i]
          /\ channel'[Len(channel) + 1] = n
      BY <1>1, <1>2, <1>4, AppendProperties
    <2>2. \A i \in 1..Len(channel') : i \in 1..Len(channel) \/ i = Len(channel) + 1
      BY <1>2, <2>1
    <2>3. HubTypeOK'
      BY <1>0, <2>1 DEF HubInv, HubTypeOK
    <2>4. ChannelInOrder'
      <3>1. \A i \in 1..Len(channel) : channel'[i].serial = channel[i].serial
                                       /\ channel[i].serial <= published
        BY <2>1 DEF HubInv, ChannelInOrder
      <3>2. channel'[Len(channel) + 1].serial = published'
        BY <1>0, <1>1, <2>1
      <3>3. \A i \in 1..Len(channel') : channel'[i].serial <= published'
        BY <1>0, <1>2, <2>1, <2>2, <3>1, <3>2
      <3>4. ASSUME NEW i \in 1..Len(channel'), NEW j \in 1..Len(channel'), i < j
            PROVE  channel'[i].serial < channel'[j].serial
        <4>1. i \in 1..Len(channel)
          BY <1>2, <2>1, <3>4
        <4>2. CASE j \in 1..Len(channel)
          BY <3>1, <3>4, <4>1, <4>2 DEF HubInv, ChannelInOrder
        <4>3. CASE j = Len(channel) + 1
          BY <1>0, <1>2, <3>1, <3>2, <4>1, <4>3
        <4> QED
          BY <2>2, <4>2, <4>3
      <3> QED
        BY <3>3, <3>4 DEF ChannelInOrder
    <2>5. RoutedIsOlder'
      <3>1. \A s \in HubSockets : newest[s] \in Nat
        BY <1>0 DEF HubInv, HubTypeOK
      <3> QED
        BY <1>0, <1>1, <1>2, <2>1, <2>2, <3>1 DEF HubInv, RoutedIsOlder
    <2> QED
      BY <1>0, <2>3, <2>4, <2>5 DEF HubInv, OnlyOpenIsRouted, NewestSurvives
  <1> QED
    BY <1>3, <1>4 DEF Publish

(* The notification at the head is routed to the sockets of its user.      *)
LEMMA DeliverKeepsHub ==
  ASSUME HubInv, Deliver
  PROVE  HubInv'
  <1> DEFINE n == Head(channel)
  <1>0. /\ channel \in Seq(Notices) /\ channel # <<>>
        /\ channel' = Tail(channel)
        /\ UNCHANGED <<published, listener, delay, waiting, drops, blocked, socket, told>>
    BY DEF Deliver, HubInv, HubTypeOK
  <1>1. /\ Tail(channel) \in Seq(Notices) /\ Len(Tail(channel)) = Len(channel) - 1
        /\ \A i \in 1..Len(Tail(channel)) : Tail(channel)[i] = channel[i + 1]
    BY <1>0, HeadTailProperties
  <1>2. /\ Len(channel) \in Nat \ {0} /\ n = channel[1]
        /\ \A i \in 1..Len(channel) : channel[i].serial \in Serials
    BY <1>0, EmptySeq, ChannelTypes DEF HubInv
  <1>3. n.serial \in Serials /\ n.serial <= published
    BY <1>2 DEF HubInv, ChannelInOrder
  <1>4. \A i \in 1..Len(channel') : i + 1 \in 1..Len(channel) /\ channel'[i] = channel[i + 1]
    BY <1>0, <1>1, <1>2
  <1>5. \A i \in 1..Len(channel') : n.serial < channel'[i].serial
    BY <1>2, <1>4 DEF HubInv, ChannelInOrder
  <1>6. ChannelInOrder'
    BY <1>0, <1>2, <1>4 DEF HubInv, ChannelInOrder
  <1> HIDE DEF n
  <1>7. ASSUME NEW s \in HubSockets
        PROVE  /\ queue'[s] \in Seq(Serials) /\ newest'[s] \in 0..MaxEvents
               /\ newest'[s] <= published
               /\ \A i \in 1..Len(channel') : newest'[s] < channel'[i].serial
               /\ socket[s] # "open" => queue'[s] = <<>> /\ newest'[s] = 0
               /\ socket[s] = "open" =>
                    /\ Len(queue'[s]) <= QueueSize
                    /\ newest'[s] = IF queue'[s] = <<>> THEN told[s] ELSE Last(queue'[s])
                    /\ InOrder(queue'[s], told[s])
    <2>0. /\ queue[s] \in Seq(Serials) /\ newest[s] \in 0..MaxEvents /\ told[s] \in Nat
          /\ published \in 0..MaxEvents
      BY HubNumbers DEF HubInv, HubTypeOK, Serials
    <2>1. CASE ~Subscribed(s, n.to)
      <3>1. queue'[s] = queue[s] /\ newest'[s] = newest[s]
        BY <2>1 DEF Deliver, n
      <3> QED
        BY <1>4, <2>0, <3>1 DEF HubInv, RoutedIsOlder, OnlyOpenIsRouted, NewestSurvives, InOrder
    <2>2. CASE Subscribed(s, n.to)
      <3>1. queue'[s] = Put(queue[s], n.serial) /\ newest'[s] = n.serial /\ socket[s] = "open"
        BY <2>2 DEF Deliver, n, Subscribed
      <3>2. newest[s] < n.serial
        BY <1>2 DEF HubInv, RoutedIsOlder, n
      <3>3. /\ Len(queue[s]) <= QueueSize
            /\ newest[s] = IF queue[s] = <<>> THEN told[s] ELSE Last(queue[s])
            /\ InOrder(queue[s], told[s])
        BY <3>1 DEF HubInv, NewestSurvives, InOrder
      <3>4. told[s] < n.serial /\ \A i \in 1..Len(queue[s]) : queue[s][i] < n.serial
        <4>1. CASE queue[s] = <<>>
          BY <3>2, <3>3, <4>1
        <4>2. CASE queue[s] # <<>>
          <5>1. Len(queue[s]) \in 1..Len(queue[s])
            BY <2>0, <4>2, EmptySeq
          <5>2. \A i \in 1..Len(queue[s]) : queue[s][i] \in Serials
            BY <2>0, ElementOfSeq
          <5>3. newest[s] = queue[s][Len(queue[s])]
            BY <3>3, <4>2 DEF Last
          <5>4. told[s] < newest[s] /\ \A i \in 1..Len(queue[s]) : queue[s][i] <= newest[s]
            BY <2>0, <3>3, <5>1, <5>2, <5>3 DEF InOrder, Serials
          <5> QED
            BY <1>3, <2>0, <3>2, <5>2, <5>4 DEF Serials
        <4> QED
          BY <4>1, <4>2
      <3>5. /\ queue'[s] \in Seq(Serials) /\ queue'[s] # <<>> /\ Len(queue'[s]) <= QueueSize
            /\ Last(queue'[s]) = n.serial /\ InOrder(queue'[s], told[s])
        BY <1>3, <2>0, <3>1, <3>3, <3>4, PutInOrder
      <3> QED
        BY <1>3, <1>5, <3>1, <3>5 DEF Serials
    <2> QED
      BY <2>1, <2>2
  <1>8. HubTypeOK'
    <2>1. queue' = [s \in HubSockets |-> queue'[s]] /\ newest' = [s \in HubSockets |-> newest'[s]]
      BY DEF Deliver
    <2>2. queue' \in [HubSockets -> Seq(1..MaxEvents)] /\ newest' \in [HubSockets -> 0..MaxEvents]
      BY <1>7, <2>1 DEF Serials
    <2> QED
      BY <1>0, <1>1, <2>2 DEF HubInv, HubTypeOK
  <1>9. RoutedIsOlder' /\ OnlyOpenIsRouted' /\ NewestSurvives'
    BY <1>0, <1>7 DEF HubInv, RoutedIsOlder, OnlyOpenIsRouted, NewestSurvives, InOrder
  <1> QED
    BY <1>6, <1>8, <1>9 DEF HubInv

(* A client is told the oldest event of its queue.                         *)
LEMMA SendKeepsHub ==
  ASSUME HubInv, NEW s \in HubSockets, Send(s)
  PROVE  HubInv'
  <1> DEFINE q == queue[s]
  <1>0. /\ q \in Seq(Serials) /\ q # <<>> /\ socket[s] = "open" /\ told[s] \in Nat
        /\ told' = [told EXCEPT ![s] = Head(q)] /\ queue' = [queue EXCEPT ![s] = Tail(q)]
        /\ UNCHANGED <<published, channel, listener, delay, waiting, drops, blocked, socket, newest>>
    BY HubNumbers DEF Send, HubInv, HubTypeOK, Serials
  <1>1. /\ Len(q) <= QueueSize /\ newest[s] = Last(q) /\ InOrder(q, told[s])
    BY <1>0 DEF HubInv, NewestSurvives, InOrder
  <1>2. /\ Tail(q) \in Seq(Serials) /\ Len(Tail(q)) = Len(q) - 1
        /\ Head(q) = q[1] /\ Len(q) \in Nat \ {0}
        /\ \A i \in 1..Len(Tail(q)) : Tail(q)[i] = q[i + 1]
        /\ InOrder(Tail(q), Head(q))
    BY <1>0, <1>1, TailInOrder
  <1>3. Head(q) \in Serials
    BY <1>0, HeadTailProperties
  <1>4. newest[s] = IF Tail(q) = <<>> THEN Head(q) ELSE Last(Tail(q))
    <2>1. CASE Tail(q) = <<>>
      <3>1. Len(Tail(q)) = 0
        BY <1>2, <2>1, EmptySeq
      <3>2. Len(q) = 1
        BY <1>2, <3>1
      <3> QED
        BY <1>1, <1>2, <2>1, <3>2 DEF Last
    <2>2. CASE Tail(q) # <<>>
      <3>1. Len(Tail(q)) \in Nat \ {0}
        BY <1>2, <2>2, EmptySeq
      <3> QED
        BY <1>1, <1>2, <2>2, <3>1 DEF Last
    <2> QED
      BY <2>1, <2>2
  <1>5. HubTypeOK'
    BY <1>0, <1>2, <1>3 DEF HubInv, HubTypeOK, Serials
  <1>6. ChannelInOrder' /\ RoutedIsOlder' /\ OnlyOpenIsRouted'
    BY <1>0 DEF HubInv, HubTypeOK, ChannelInOrder, RoutedIsOlder, OnlyOpenIsRouted
  <1>7. ASSUME NEW r \in HubSockets, socket'[r] = "open"
        PROVE  /\ Len(queue'[r]) <= QueueSize
               /\ newest'[r] = IF queue'[r] = <<>> THEN told'[r] ELSE Last(queue'[r])
               /\ InOrder(queue'[r], told'[r])
    <2>1. CASE r = s
      <3>1. queue'[r] = Tail(q) /\ told'[r] = Head(q) /\ newest'[r] = newest[s]
        BY <1>0, <2>1 DEF HubInv, HubTypeOK
      <3> QED
        BY <1>1, <1>2, <1>4, <3>1, HubNumbers
    <2>2. CASE r # s
      <3>1. queue'[r] = queue[r] /\ told'[r] = told[r] /\ newest'[r] = newest[r]
            /\ socket[r] = "open"
        BY <1>0, <1>7, <2>2
      <3> QED
        BY <3>1 DEF HubInv, NewestSurvives, InOrder
    <2> QED
      BY <2>1, <2>2
  <1>8. NewestSurvives'
    BY <1>7 DEF NewestSurvives, InOrder
  <1> QED
    BY <1>5, <1>6, <1>8 DEF HubInv

LEMMA HubInvStep == HubInv /\ [HubNext]_hubVars => HubInv'
  <1> SUFFICES ASSUME HubInv, [HubNext]_hubVars PROVE HubInv'
    OBVIOUS
  <1> USE DEF HubInv, HubTypeOK, ChannelInOrder, RoutedIsOlder, OnlyOpenIsRouted
  <1>1. CASE StartHub \/ Listen \/ Sleep
    <2>1. UNCHANGED <<published, channel, blocked, socket, queue, told, newest>>
      BY <1>1 DEF StartHub, Listen, Sleep
    <2>2. delay' \in FirstDelay..MaxDelay /\ waiting' \in 0..MaxDelay /\ drops' = drops
      BY <1>1, HubAssumption DEF StartHub, Listen, Sleep
    <2>3. listener' \in {"off", "connecting", "listening", "sleeping", "stopped"}
      BY <1>1 DEF StartHub, Listen, Sleep
    <2> QED
      BY <2>1, <2>2, <2>3 DEF NewestSurvives
  <1>2. CASE LoseListener \/ StopHub
    <2>1. channel' = <<>> /\ UNCHANGED <<published, blocked, socket, queue, told, newest>>
      BY <1>2 DEF LoseListener, StopHub
    <2>2. HubTypeOK'
      BY <1>2, <2>1, HubAssumption DEF LoseListener, StopHub
    <2> QED
      BY <2>1, <2>2 DEF NewestSurvives
  <1>3. CASE Reconnect
    BY <1>3, HubAssumption DEF Reconnect, NewestSurvives
  <1>4. CASE Deliver
    BY <1>4, DeliverKeepsHub
  <1>5. ASSUME NEW u \in HubUsers, Publish(u) PROVE HubInv'
    BY <1>5, PublishKeepsHub
  <1>6. ASSUME NEW u \in HubUsers, Block(u) PROVE HubInv'
    BY <1>6 DEF Block, NewestSurvives
  <1>7. ASSUME NEW s \in HubSockets, Accept(s) \/ Refuse(s) PROVE HubInv'
    BY <1>7 DEF Accept, Refuse, NewestSurvives
  <1>8. ASSUME NEW s \in HubSockets, Authenticate(s) PROVE HubInv'
    <2>1. UNCHANGED <<published, channel, listener, delay, waiting, drops, blocked, queue, told, newest>>
      BY <1>8 DEF Authenticate
    <2>2. socket' = [socket EXCEPT ![s] = "open"] /\ socket[s] = "unauthenticated"
      BY <1>8 DEF Authenticate
    <2>3. HubTypeOK' /\ OnlyOpenIsRouted'
      BY <2>1, <2>2
    <2>4. Len(queue[s]) = 0 /\ queue[s] = <<>> /\ told[s] = newest[s]
      BY <2>2
    <2>5. NewestSurvives'
      <3> SUFFICES ASSUME NEW r \in HubSockets, socket'[r] = "open"
                   PROVE  /\ Len(queue[r]) <= QueueSize
                          /\ newest[r] = IF queue[r] = <<>> THEN told[r] ELSE Last(queue[r])
                          /\ \A i \in 1..Len(queue[r]) : told[r] < queue[r][i]
                          /\ \A i, j \in 1..Len(queue[r]) : i < j => queue[r][i] < queue[r][j]
        BY <2>1 DEF NewestSurvives
      <3>1. CASE r = s
        BY <2>4, <3>1, HubNumbers
      <3>2. CASE r # s
        BY <2>2, <3>2 DEF NewestSurvives
      <3> QED
        BY <3>1, <3>2
    <2> QED
      BY <2>1, <2>3, <2>5
  <1>9. ASSUME NEW s \in HubSockets, Send(s) PROVE HubInv'
    BY <1>9, SendKeepsHub
  <1>10. ASSUME NEW s \in HubSockets, Disconnect(s) PROVE HubInv'
    <2>1. /\ \A r \in HubSockets \ {s} : /\ queue'[r] = queue[r] /\ told'[r] = told[r]
                                         /\ newest'[r] = newest[r] /\ socket'[r] = socket[r]
          /\ queue'[s] = <<>> /\ told'[s] = 0 /\ newest'[s] = 0 /\ socket'[s] = "closed"
      BY <1>10 DEF Disconnect
    <2>2. HubTypeOK'
      BY <1>10, HubNumbers DEF Disconnect
    <2>3. RoutedIsOlder'
      <3>1. \A i \in 1..Len(channel) : channel[i].serial \in Serials
        BY ChannelTypes
      <3> QED
        BY <1>10, <2>1, <3>1 DEF Disconnect, Serials
    <2> QED
      BY <1>10, <2>1, <2>2, <2>3 DEF Disconnect, NewestSurvives
  <1>11. CASE UNCHANGED hubVars
    BY <1>11 DEF hubVars, NewestSurvives
  <1> QED
    BY <1>1, <1>2, <1>3, <1>4, <1>5, <1>6, <1>7, <1>8, <1>9, <1>10, <1>11 DEF HubNext

(* The hub's state keeps its shape: no serial beyond those published and   *)
(* no wait beyond the longest.                                             *)
THEOREM HubTypeCorrect == HubSpec => []HubTypeOK
  <1>1. HubInv => HubTypeOK
    BY DEF HubInv
  <1> QED
    BY <1>1, HubInvInit, HubInvStep, PTL DEF HubSpec

(* Whatever a slow client loses, however short its queue, the newest event *)
(* routed to it is told or last in the queue, in commit order.             *)
THEOREM NewestIsKept == HubSpec => []NewestSurvives
  <1>1. HubInit => HubInv
    BY HubInvInit
  <1>2. HubInv /\ [HubNext]_hubVars => HubInv'
    BY HubInvStep
  <1>3. HubInv => NewestSurvives
    BY DEF HubInv
  <1> QED
    BY <1>1, <1>2, <1>3, PTL DEF HubSpec

-----------------------------------------------------------------------------
(* The gateway *)

(* A set of natural numbers that is not empty has a least element.         *)
LEMMA MinimalElement ==
  ASSUME NEW T \in SUBSET Nat, T # {}, NEW R, IsWellFoundedOn(R, Nat)
  PROVE  \E r \in T : \A m \in T : ~(<<m, r>> \in R)
  <1>1. T \subseteq Nat /\ T # {} /\ IsWellFoundedOn(R, Nat)
    OBVIOUS
  <1> QED
    BY <1>1, WFMin, Zenon

LEMMA LeastIn ==
  ASSUME NEW T \in SUBSET Nat, T # {}, NEW R, IsWellFoundedOn(R, Nat),
         \A m, r \in Nat : m < r => <<m, r>> \in R
  PROVE  \E r \in T : \A m \in T : r <= m
  <1>1. PICK r \in T : \A m \in T : ~(<<m, r>> \in R)
    BY MinimalElement
  <1>2. ASSUME NEW m \in T PROVE r <= m
    <2>1. m \in Nat /\ r \in Nat /\ ~(<<m, r>> \in R)
      BY <1>1
    <2>2. ~(m < r)
      BY <2>1, Zenon
    <2> QED
      BY <2>1, <2>2
  <1> QED
    BY <1>2

LEMMA LessIsRelation == \A m, r \in Nat : m < r => <<m, r>> \in OpToRel(<, Nat)
  BY DEF OpToRel

LEMMA LeastNatural ==
  ASSUME NEW T \in SUBSET Nat, T # {}
  PROVE  \E r \in T : \A m \in T : r <= m
  BY LeastIn, LessIsRelation, NatLessThanWellFounded, Zenon

(* The walk is at a provider of the chain as long as one is left.          *)
LEMMA CurrentInChain ==
  ASSUME call.chain \in SUBSET Providers, call.chain # {}
  PROVE  Current \in call.chain
  <1> DEFINE ranks == {Priority[p] : p \in call.chain}
  <1>1. ranks # {} /\ ranks \in SUBSET Nat
    BY GatewayAssumption
  <1>2. PICK r \in ranks : \A m \in ranks : r <= m
    BY <1>1, LeastNatural
  <1>3. PICK p \in call.chain : Priority[p] = r
    BY <1>2
  <1>4. \A q \in call.chain : Priority[p] <= Priority[q]
    BY <1>1, <1>2, <1>3
  <1> QED
    BY <1>3, <1>4 DEF Current

CallType == [phase : {"idle", "routing", "acquiring", "calling", "backoff", "served"},
             chain : SUBSET Providers, sensitive : BOOLEAN, complexity : Complexities,
             attempt : 0..MaxAttempts, wait : 0..BackoffCap, asks : 0..MaxAsks]

Breakers == [state : {"closed", "open", "half"}, failures : 0..Threshold, age : 0..ResetTime]
Failures == [times : 0..Threshold, age : 0..ResetTime]

(* A breaker counts what really failed: closed it has counted the calls    *)
(* that failed in a row; open it is as old as the last of them; half open  *)
(* it has rested.                                                          *)
BreakersCount ==
    \A p \in Providers :
        /\ circuit[p].state = "closed" =>
             circuit[p].failures = lastFailed[p].times /\ lastFailed[p].times < Threshold
        /\ circuit[p].state = "open" =>
             lastFailed[p].times = Threshold /\ lastFailed[p].age = circuit[p].age
        /\ circuit[p].state = "half" =>
             lastFailed[p].times = Threshold /\ lastFailed[p].age = ResetTime

(* A call is with a provider that the breaker let through, and one that    *)
(* waits has an attempt left.                                              *)
Admitted ==
    /\ call.phase \in {"acquiring", "calling", "backoff"} =>
         call.chain # {} /\ circuit[Current].state # "open"
    /\ call.phase = "backoff" => call.attempt < MaxAttempts

(* The chain never holds a provider the question may not be sent to.       *)
ChainServes == \A p \in call.chain : CanServe(p, call.complexity, call.sensitive)

GatewayInv ==
    /\ call \in CallType
    /\ circuit \in [Providers -> Breakers] /\ lastFailed \in [Providers -> Failures]
    /\ BreakersCount /\ Admitted /\ ChainServes

LEMMA GatewayNumbers ==
  /\ {PerWindow, Window, Threshold, ResetTime, MaxAttempts, BackoffCap, MaxAsks} \subseteq Nat
  /\ Threshold > 0 /\ MaxAttempts > 0 /\ MaxAsks > 0
  BY GatewayAssumption

LEMMA Counters ==
  /\ {0, 1} \subseteq 0..MaxAttempts /\ {0, 1} \subseteq 0..MaxAsks /\ 0 \in 0..BackoffCap
  /\ \A n \in 0..MaxAttempts : n < MaxAttempts => n + 1 \in 0..MaxAttempts
  /\ \A n \in 0..MaxAsks : n < MaxAsks => n + 1 \in 0..MaxAsks
  /\ \A n \in 0..BackoffCap : n > 0 => n - 1 \in 0..BackoffCap
  /\ 0 \in 0..ResetTime /\ Threshold \in 0..Threshold
  BY GatewayNumbers

(* The question is the same after the gateway's side of it ended.          *)
LEMMA RestartType ==
  ASSUME call \in CallType, NEW phase \in {"routing", "served"}
  PROVE  /\ Restart(phase) \in CallType
         /\ Restart(phase).phase = phase /\ Restart(phase).chain = call.chain
         /\ Restart(phase).complexity = call.complexity
         /\ Restart(phase).sensitive = call.sensitive
         /\ Restart(phase).asks = call.asks
  BY Counters DEF Restart, CallType

LEMMA NewBreaker == Closed \in Breakers /\ [times |-> 0, age |-> 0] \in Failures
                    /\ NoCall \in CallType
  BY GatewayNumbers DEF Closed, Breakers, Failures, NoCall, CallType, Complexities

LEMMA BackoffType == \A n : Backoff(n) \in 0..BackoffCap
  <1> SUFFICES ASSUME NEW n PROVE Backoff(n) \in 0..BackoffCap
    OBVIOUS
  <1> DEFINE grown == 2^(n - 1)
  <1>1. Backoff(n) = IF grown \in 0..BackoffCap THEN grown ELSE BackoffCap
    BY DEF Backoff
  <1> HIDE DEF grown
  <1> QED
    BY <1>1, GatewayNumbers

LEMMA GatewayInvInit == GatewayInit => GatewayInv
  BY NewBreaker, GatewayNumbers
     DEF GatewayInit, GatewayInv, BreakersCount, Admitted, ChainServes, Closed, NoCall

(* A step that leaves the breakers alone keeps what they count.            *)
LEMMA BreakersUntouched ==
  ASSUME GatewayInv, UNCHANGED <<circuit, lastFailed>>
  PROVE  /\ circuit' \in [Providers -> Breakers] /\ lastFailed' \in [Providers -> Failures]
         /\ BreakersCount'
  BY DEF GatewayInv, BreakersCount

(* An outcome at a provider that was let through keeps what they count.    *)
LEMMA OutcomeCounts ==
  ASSUME GatewayInv, NEW p \in Providers, circuit[p].state # "open",
         RecordSuccess(p) \/ RecordFailure(p)
  PROVE  /\ circuit' \in [Providers -> Breakers] /\ lastFailed' \in [Providers -> Failures]
         /\ BreakersCount'
  <1>1. circuit[p] \in Breakers /\ lastFailed[p] \in Failures
    BY DEF GatewayInv
  <1>2. \A q \in Providers \ {p} : circuit'[q] = circuit[q] /\ lastFailed'[q] = lastFailed[q]
    BY DEF RecordSuccess, RecordFailure, GatewayInv
  <1>3. CASE RecordSuccess(p)
    <2>1. circuit'[p] = Closed /\ lastFailed'[p] = [times |-> 0, age |-> 0]
      BY <1>3 DEF RecordSuccess, GatewayInv
    <2>2. circuit' \in [Providers -> Breakers] /\ lastFailed' \in [Providers -> Failures]
      BY <1>3, NewBreaker DEF RecordSuccess, GatewayInv
    <2> QED
      BY <1>2, <2>1, <2>2, GatewayNumbers DEF GatewayInv, BreakersCount, Closed
  <1>4. CASE RecordFailure(p)
    <2> DEFINE c == AfterFailure(circuit[p])
               f == [times |-> IF lastFailed[p].times < Threshold THEN lastFailed[p].times + 1
                               ELSE lastFailed[p].times, age |-> 0]
               good == /\ c \in Breakers /\ c.state \in {"closed", "open"}
                       /\ c.state = "closed" => c.failures = f.times /\ f.times < Threshold
                       /\ c.state = "open" => f.times = Threshold /\ f.age = c.age
    <2>1. circuit'[p] = c /\ lastFailed'[p] = f
      BY <1>4 DEF RecordFailure, GatewayInv
    <2>2. /\ circuit[p].state = "closed" =>
               circuit[p].failures = lastFailed[p].times /\ lastFailed[p].times < Threshold
          /\ circuit[p].state = "half" => lastFailed[p].times = Threshold
          /\ circuit[p].state \in {"closed", "half"}
      BY <1>1 DEF GatewayInv, BreakersCount, Breakers
    <2>3. f \in Failures /\ f.age = 0
      BY <1>1, GatewayNumbers DEF Failures
    <2>4. ASSUME circuit[p].state = "half" PROVE good
      <3>1. c = [circuit[p] EXCEPT !.state = "open", !.age = 0]
        BY <2>4 DEF AfterFailure
      <3>2. c \in Breakers /\ c.state = "open" /\ c.age = 0
        BY <1>1, <3>1, Counters DEF Breakers
      <3>3. f.times = Threshold
        BY <2>2, <2>4, GatewayNumbers
      <3> QED
        BY <2>3, <3>2, <3>3
    <2>5. ASSUME circuit[p].state = "closed", circuit[p].failures + 1 < Threshold PROVE good
      <3>1. c = [circuit[p] EXCEPT !.failures = @ + 1]
        BY <1>1, <2>5, GatewayNumbers DEF Breakers, AfterFailure
      <3>2. /\ c \in Breakers /\ c.state = "closed" /\ c.failures = circuit[p].failures + 1
            /\ c.failures < Threshold
        BY <1>1, <2>5, <3>1, GatewayNumbers DEF Breakers
      <3>3. f.times = circuit[p].failures + 1
        BY <2>2, <2>5
      <3> QED
        BY <2>3, <3>2, <3>3
    <2>6. ASSUME circuit[p].state = "closed", ~(circuit[p].failures + 1 < Threshold) PROVE good
      <3>1. c = [state |-> "open", failures |-> circuit[p].failures + 1, age |-> 0]
        BY <1>1, <2>6, GatewayNumbers DEF Breakers, AfterFailure
      <3>2. circuit[p].failures + 1 = Threshold
        BY <1>1, <2>2, <2>6, GatewayNumbers DEF Breakers
      <3>3. c \in Breakers /\ c.state = "open" /\ c.age = 0
        BY <3>1, <3>2, Counters DEF Breakers
      <3>4. f.times = Threshold
        BY <2>2, <2>6, <3>2
      <3> QED
        BY <2>3, <3>3, <3>4
    <2>7. good
      BY <2>2, <2>4, <2>5, <2>6
    <2> HIDE DEF c, f
    <2>8. circuit' \in [Providers -> Breakers] /\ lastFailed' \in [Providers -> Failures]
      BY <1>4, <2>1, <2>3, <2>7 DEF RecordFailure, GatewayInv
    <2> QED
      BY <1>2, <2>1, <2>7, <2>8 DEF GatewayInv, BreakersCount
  <1> QED
    BY <1>3, <1>4

LEMMA TickKeepsGateway ==
  ASSUME GatewayInv, GatewayTick
  PROVE  GatewayInv'
  <1>1. /\ call' \in CallType
        /\ call'.phase = call.phase /\ call'.chain = call.chain /\ call'.attempt = call.attempt
        /\ call'.complexity = call.complexity /\ call'.sensitive = call.sensitive
    BY Counters DEF GatewayTick, GatewayInv, CallType
  <1>2. ASSUME NEW p \in Providers
        PROVE  /\ circuit'[p] \in Breakers /\ lastFailed'[p] \in Failures
               /\ circuit'[p].state = circuit[p].state
               /\ circuit'[p].failures = circuit[p].failures
               /\ lastFailed'[p].times = lastFailed[p].times
               /\ lastFailed'[p].age = UpTo(ResetTime, lastFailed[p].age)
               /\ circuit[p].state = "open" => circuit'[p].age = UpTo(ResetTime, circuit[p].age)
    <2>1. circuit[p] \in Breakers /\ lastFailed[p] \in Failures
      BY DEF GatewayInv
    <2>2. /\ circuit'[p] = IF circuit[p].state = "open"
                           THEN [circuit[p] EXCEPT !.age = UpTo(ResetTime, @)] ELSE circuit[p]
          /\ lastFailed'[p] = [lastFailed[p] EXCEPT !.age = UpTo(ResetTime, @)]
      BY DEF GatewayTick
    <2>3. \A n \in 0..ResetTime : UpTo(ResetTime, n) \in 0..ResetTime
      BY GatewayNumbers DEF UpTo
    <2> QED
      BY <2>1, <2>2, <2>3 DEF Breakers, Failures
  <1>3. circuit' \in [Providers -> Breakers] /\ lastFailed' \in [Providers -> Failures]
    <2>1. /\ circuit' = [p \in Providers |-> circuit'[p]]
          /\ lastFailed' = [p \in Providers |-> lastFailed'[p]]
      BY DEF GatewayTick
    <2> QED
      BY <1>2, <2>1
  <1>4. BreakersCount'
    <2>1. UpTo(ResetTime, ResetTime) = ResetTime
      BY GatewayNumbers DEF UpTo
    <2> QED
      BY <1>2, <2>1 DEF GatewayInv, BreakersCount
  <1>5. Current' = Current
    BY <1>1 DEF Current
  <1>6. Admitted' /\ ChainServes'
    <2>1. call.chain # {} => Current \in Providers
      BY CurrentInChain DEF GatewayInv, CallType
    <2> QED
      BY <1>1, <1>2, <1>5, <2>1 DEF GatewayInv, Admitted, ChainServes, CanServe
  <1> QED
    BY <1>1, <1>3, <1>4, <1>6 DEF GatewayInv

LEMMA GatewayInvStep == GatewayInv /\ [GatewayNext]_gatewayVars => GatewayInv'
  <1> SUFFICES ASSUME GatewayInv, [GatewayNext]_gatewayVars PROVE GatewayInv'
    OBVIOUS
  <1>0. /\ call.chain # {} => Current \in call.chain /\ Current \in Providers
        /\ call \in CallType /\ call.chain \in SUBSET Providers
        /\ ChainServes
    BY CurrentInChain DEF GatewayInv, CallType
  <1>1. CASE NewGateway
    <2>1. circuit' \in [Providers -> Breakers] /\ lastFailed' \in [Providers -> Failures]
      BY <1>1, NewBreaker DEF NewGateway
    <2>2. BreakersCount'
      BY <1>1, GatewayNumbers DEF NewGateway, BreakersCount, Closed
    <2>3. call' = call /\ call.phase = "idle"
      BY <1>1 DEF NewGateway
    <2> QED
      BY <1>0, <2>1, <2>2, <2>3 DEF GatewayInv, Admitted, ChainServes, CanServe
  <1>2. CASE Ask
    <2>1. PICK c \in Complexities, cap \in Caps, s \in BOOLEAN :
            /\ Chain(Tier(c, cap), s) # {}
            /\ call' = [NoCall EXCEPT !.phase = "routing", !.chain = Chain(Tier(c, cap), s),
                                      !.asks = 1, !.sensitive = s, !.complexity = Tier(c, cap)]
      BY <1>2 DEF Ask
    <2>2. Tier(c, cap) \in Complexities
      BY <2>1 DEF Tier, Caps, Cap, Complexities
    <2>3. Chain(Tier(c, cap), s) \in SUBSET Providers
      BY DEF Chain
    <2>4. /\ call' \in CallType /\ call'.phase = "routing" /\ call'.sensitive = s
          /\ call'.chain = Chain(Tier(c, cap), s) /\ call'.complexity = Tier(c, cap)
      BY <2>1, <2>2, <2>3, Counters, NewBreaker DEF CallType, NoCall
    <2>5. ChainServes'
      BY <2>4 DEF ChainServes, Chain, CanServe
    <2>6. UNCHANGED <<circuit, lastFailed>>
      BY <1>2 DEF Ask
    <2> QED
      BY <2>4, <2>5, <2>6, BreakersUntouched DEF GatewayInv, Admitted
  <1>3. CASE Accepted \/ AllFailed \/ Escape
    <2>1. call' = NoCall /\ UNCHANGED <<circuit, lastFailed>>
      BY <1>3 DEF Accepted, AllFailed, Escape
    <2> QED
      BY <2>1, BreakersUntouched, NewBreaker DEF GatewayInv, Admitted, ChainServes, NoCall
  <1>4. CASE Correct
    <2>1. UNCHANGED <<circuit, lastFailed>>
      BY <1>4 DEF Correct
    <2>2. CASE call' = NoCall
      BY <2>1, <2>2, BreakersUntouched, NewBreaker DEF GatewayInv, Admitted, ChainServes, NoCall
    <2>3. CASE /\ call.asks < MaxAsks
               /\ call' = [Restart("routing") EXCEPT !.asks = @ + 1,
                             !.chain = Chain(call.complexity, call.sensitive)]
      <3>1. /\ call'.phase = "routing" /\ call'.chain = Chain(call.complexity, call.sensitive)
            /\ call'.complexity = call.complexity /\ call'.sensitive = call.sensitive
            /\ call' \in CallType
        <4>1. Chain(call.complexity, call.sensitive) \in SUBSET Providers
          BY DEF Chain
        <4>2. call.asks + 1 \in 0..MaxAsks
          BY <1>0, <2>3, Counters DEF CallType
        <4> QED
          BY <1>0, <2>3, <4>1, <4>2, RestartType DEF CallType
      <3>2. ChainServes'
        BY <3>1 DEF ChainServes, Chain, CanServe
      <3> QED
        BY <2>1, <3>1, <3>2, BreakersUntouched DEF GatewayInv, Admitted
    <2> QED
      BY <1>4, <2>2, <2>3 DEF Correct
  <1>5. ASSUME MoveOn
        PROVE  /\ call' \in CallType /\ call'.phase = "routing" /\ ChainServes'
    <2>1. /\ call'.phase = "routing" /\ call'.chain = call.chain \ {Current}
          /\ call'.complexity = call.complexity /\ call'.sensitive = call.sensitive
          /\ call' \in CallType
      BY <1>0, <1>5, RestartType DEF MoveOn, CallType
    <2> QED
      BY <1>0, <2>1 DEF ChainServes, CanServe
  <1>6. CASE Skip
    BY <1>5, <1>6, BreakersUntouched DEF Skip, GatewayInv, Admitted
  <1>7. CASE Admit
    <2> DEFINE p == Current
    <2>1. /\ p \in Providers /\ call.chain # {} /\ ~StillOpen(p)
          /\ call' = [call EXCEPT !.phase = "acquiring"] /\ lastFailed' = lastFailed
          /\ circuit' = [circuit EXCEPT ![p].state = IF @ = "open" THEN "half" ELSE @]
      BY <1>0, <1>7 DEF Admit
    <2>2. circuit[p] \in Breakers /\ lastFailed[p] \in Failures
      BY <2>1 DEF GatewayInv
    <2>3. /\ circuit'[p] = [circuit[p] EXCEPT !.state = IF @ = "open" THEN "half" ELSE @]
          /\ \A q \in Providers \ {p} : circuit'[q] = circuit[q]
      BY <2>1 DEF GatewayInv
    <2>4. /\ circuit'[p] \in Breakers /\ circuit'[p].failures = circuit[p].failures
          /\ circuit'[p].state = IF circuit[p].state = "open" THEN "half" ELSE circuit[p].state
      BY <2>2, <2>3 DEF Breakers
    <2>5. circuit' \in [Providers -> Breakers]
      BY <2>1, <2>3, <2>4 DEF GatewayInv
    <2>6. BreakersCount'
      <3>1. circuit[p].state = "open" => circuit[p].age = ResetTime
        BY <2>1, <2>2, GatewayNumbers DEF StillOpen, Breakers
      <3> QED
        BY <2>1, <2>3, <2>4, <3>1 DEF GatewayInv, BreakersCount
    <2>7. /\ call' \in CallType /\ call'.chain = call.chain
          /\ call'.complexity = call.complexity /\ call'.sensitive = call.sensitive
      BY <1>0, <2>1 DEF CallType
    <2>8. Current' = p
      BY <2>7 DEF Current
    <2> HIDE DEF p
    <2>9. Admitted'
      BY <2>1, <2>4, <2>7, <2>8 DEF Admitted
    <2> QED
      BY <1>0, <2>1, <2>5, <2>6, <2>7, <2>9 DEF GatewayInv, ChainServes, CanServe
  <1>8. CASE Acquire \/ Retry \/ Again
    <2>1. /\ UNCHANGED <<circuit, lastFailed>>
          /\ call.phase \in {"acquiring", "calling", "backoff"}
      BY <1>8 DEF Acquire, Retry, Again
    <2>2. /\ call' \in CallType /\ call'.chain = call.chain
          /\ call'.complexity = call.complexity /\ call'.sensitive = call.sensitive
          /\ call'.phase = "backoff" => call'.attempt < MaxAttempts
      <3>1. CASE Acquire
        BY <1>0, <3>1, Counters DEF Acquire, CallType
      <3>2. CASE Retry
        BY <1>0, <3>2, BackoffType DEF Retry, CallType
      <3>3. CASE Again
        BY <1>0, <3>3, Counters DEF Again, CallType, GatewayInv, Admitted
      <3> QED
        BY <1>8, <3>1, <3>2, <3>3
    <2>3. Current' = Current
      BY <2>2 DEF Current
    <2> QED
      BY <1>0, <2>1, <2>2, <2>3, BreakersUntouched DEF GatewayInv, Admitted, ChainServes, CanServe
  <1>9. CASE Answered
    <2>1. call.phase = "calling" /\ call' = Restart("served") /\ RecordSuccess(Current)
      BY <1>9 DEF Answered
    <2>2. Current \in Providers /\ circuit[Current].state # "open"
      BY <1>0, <2>1 DEF GatewayInv, Admitted
    <2>3. /\ call' \in CallType /\ call'.phase = "served" /\ call'.chain = call.chain
          /\ call'.complexity = call.complexity /\ call'.sensitive = call.sensitive
      BY <1>0, <2>1, RestartType
    <2> QED
      BY <1>0, <2>1, <2>2, <2>3, OutcomeCounts DEF GatewayInv, Admitted, ChainServes, CanServe
  <1>10. CASE GiveUp
    <2>1. call.phase = "calling" /\ MoveOn /\ RecordFailure(Current)
      BY <1>10 DEF GiveUp
    <2>2. Current \in Providers /\ circuit[Current].state # "open"
      BY <1>0, <2>1 DEF GatewayInv, Admitted
    <2> QED
      BY <1>5, <2>1, <2>2, OutcomeCounts DEF GatewayInv, Admitted
  <1>11. CASE GatewayTick
    BY <1>11, TickKeepsGateway
  <1>12. CASE UNCHANGED gatewayVars
    <2>1. Current' = Current
      BY <1>12 DEF gatewayVars, Current
    <2> QED
      BY <1>0, <1>12, <2>1, BreakersUntouched
         DEF gatewayVars, GatewayInv, Admitted, ChainServes, CanServe
  <1> QED
    BY <1>1, <1>2, <1>3, <1>4, <1>6, <1>7, <1>8, <1>9, <1>10, <1>11, <1>12
       DEF GatewayNext, GatewayStep

(* No call goes to a provider whose last Threshold calls failed less than  *)
(* ResetTime ago, nor a sensitive question to one that is not self-hosted: *)
(* whatever the chain, the threshold and the order of answers.             *)
THEOREM DownProvidersAreRested == GatewaySpec => []DownProvidersRest
  <1>1. GatewayInv => DownProvidersRest
    <2> SUFFICES ASSUME GatewayInv, call.phase = "calling"
                 PROVE  /\ ~(lastFailed[Current].times = Threshold /\ lastFailed[Current].age < ResetTime)
                        /\ call.sensitive => Current \in SelfHosted
      BY DEF DownProvidersRest
    <2>1. Current \in call.chain /\ Current \in Providers /\ circuit[Current].state # "open"
      BY CurrentInChain DEF GatewayInv, CallType, Admitted
    <2>2. circuit[Current] \in Breakers
      BY <2>1 DEF GatewayInv
    <2>3. CanServe(Current, call.complexity, call.sensitive)
      BY <2>1 DEF GatewayInv, ChainServes
    <2>4. /\ circuit[Current].state \in {"closed", "half"}
          /\ circuit[Current].state = "closed" => lastFailed[Current].times < Threshold
          /\ circuit[Current].state = "half" => lastFailed[Current].age = ResetTime
      BY <2>1, <2>2 DEF GatewayInv, BreakersCount, Breakers
    <2> QED
      BY <2>3, <2>4, GatewayNumbers DEF CanServe
  <1>2. GatewayInit => GatewayInv
    BY GatewayInvInit
  <1>3. GatewayInv /\ [GatewayNext]_gatewayVars => GatewayInv'
    BY GatewayInvStep
  <1> QED
    BY <1>1, <1>2, <1>3, PTL DEF GatewaySpec

(* An action of a question brings it nearer its end, or is the end.        *)
LEMMA StepAdvances ==
  ASSUME GatewayInv, GatewayNext, call.phase # "idle", call' # call
  PROVE  call' = NoCall \/ NearerTheEnd(call, call')
  <1>0. /\ call \in CallType /\ call.attempt \in Nat /\ call.asks \in Nat /\ call.wait \in Nat
        /\ call.attempt <= MaxAttempts
        /\ call.chain # {} => Current \in call.chain
    BY CurrentInChain, GatewayNumbers DEF GatewayInv, CallType
  <1>1. ~NewGateway /\ ~Ask
    BY DEF NewGateway, Ask
  <1>2. CASE Accepted \/ AllFailed \/ Escape
    BY <1>2 DEF Accepted, AllFailed, Escape
  <1>3. CASE Correct
    <2> SUFFICES ASSUME call' # NoCall
                 PROVE  NearerTheEnd(call, call')
      OBVIOUS
    <2>1. call' = [Restart("routing") EXCEPT !.asks = @ + 1,
                     !.chain = Chain(call.complexity, call.sensitive)]
      BY <1>3 DEF Correct
    <2>2. call'.asks = call.asks + 1
      BY <1>0, <2>1, RestartType DEF CallType
    <2> QED
      BY <1>0, <2>2 DEF NearerTheEnd
  <1>4. CASE Skip \/ GiveUp
    <2>1. call.chain # {} /\ MoveOn
      BY <1>4 DEF Skip, GiveUp, GatewayInv, Admitted
    <2>2. call'.asks = call.asks /\ call'.chain = call.chain \ {Current}
      BY <1>0, <2>1, RestartType DEF MoveOn, CallType
    <2> QED
      BY <1>0, <2>1, <2>2 DEF NearerTheEnd
  <1>5. CASE Admit \/ Acquire \/ Answered \/ Retry \/ Again
    <2>1. call'.asks = call.asks /\ call'.chain = call.chain
      BY <1>0, <1>5, RestartType DEF Admit, Acquire, Answered, Retry, Again, CallType
    <2>2. Progress(call') > Progress(call)
      <3>1. CASE Admit
        BY <1>0, <3>1 DEF Admit, CallType, Progress
      <3>2. CASE Acquire
        BY <1>0, <3>2 DEF Acquire, CallType, Progress
      <3>3. CASE Answered
        BY <1>0, <3>3, GatewayNumbers, RestartType DEF Answered, Progress
      <3>4. CASE Retry
        BY <1>0, <3>4 DEF Retry, CallType, Progress
      <3>5. CASE Again
        BY <1>0, <3>5 DEF Again, CallType, Progress
      <3> QED
        BY <1>5, <3>1, <3>2, <3>3, <3>4, <3>5
    <2> QED
      BY <2>1, <2>2 DEF NearerTheEnd
  <1>6. CASE GatewayTick
    <2>1. call.wait > 0 /\ call' = [call EXCEPT !.wait = @ - 1]
      BY <1>6 DEF GatewayTick
    <2>2. /\ call'.asks = call.asks /\ call'.chain = call.chain /\ call'.phase = call.phase
          /\ call'.attempt = call.attempt /\ call'.wait < call.wait
      BY <1>0, <2>1 DEF CallType
    <2> QED
      BY <2>2 DEF NearerTheEnd, Progress
  <1> QED
    BY <1>1, <1>2, <1>3, <1>4, <1>5, <1>6 DEF GatewayNext, GatewayStep

(* Retries, fallbacks and corrections together take no question back: each *)
(* of its steps asks for the last time but fewer, has fewer providers left *)
(* or is further with one, for any providers and any bounds.               *)
THEOREM EveryQuestionAdvances == GatewaySpec => QuestionsAdvance
  <1>1. ASSUME GatewayInv, [GatewayNext]_gatewayVars
        PROVE  [call.phase # "idle" => call' = NoCall \/ NearerTheEnd(call, call')]_call
    BY <1>1, StepAdvances DEF gatewayVars
  <1>2. GatewayInit => GatewayInv
    BY GatewayInvInit
  <1>3. GatewayInv /\ [GatewayNext]_gatewayVars => GatewayInv'
    BY GatewayInvStep
  <1> QED
    BY <1>1, <1>2, <1>3, PTL DEF GatewaySpec, QuestionsAdvance

-----------------------------------------------------------------------------
(* FeedReader: streaks                                                     *)

(* What a job loaded was earned when it loaded it, and reads that failed   *)
(* are only ever added.                                                    *)
StreaksInv ==
    /\ DOMAIN sources = Sources /\ DOMAIN reading = Readers
    /\ misses \in [Sources -> Nat]
    /\ \A s \in Sources : DOMAIN sources[s] = {"url", "asset", "active", "failures"}
    /\ \A s \in Sources : sources[s].failures \in Nat /\ sources[s].failures <= misses[s]
    /\ \A r \in Readers : reading[r] # NotReading =>
          /\ DOMAIN reading[r].rows \subseteq Sources
          /\ \A s \in DOMAIN reading[r].rows :
                /\ reading[r].rows[s].failures \in Nat
                /\ reading[r].rows[s].failures <= misses[s]

LEMMA StreaksInitially == FeedsInit => StreaksInv
  <1> SUFFICES ASSUME FeedsInit PROVE StreaksInv
    OBVIOUS
  <1>1. \A s \in Sources : /\ DOMAIN sources[s] = {"url", "asset", "active", "failures"}
                           /\ sources[s].failures = 0
    BY DEF FeedsInit, Absent
  <1> QED
    BY <1>1 DEF FeedsInit, StreaksInv, NotReading

(* A step of the administrator: the rows of sources only.                  *)
LEMMA EditKeepsStreaks ==
  ASSUME StreaksInv, NEW s \in Sources, NEW row, sources' = [sources EXCEPT ![s] = row],
         DOMAIN row = {"url", "asset", "active", "failures"},
         row.failures = 0 \/ row.failures = sources[s].failures,
         UNCHANGED <<misses, reading>>
  PROVE  StreaksInv'
  <1>1. \A t \in Sources : sources'[t] = IF t = s THEN row ELSE sources[t]
    BY DEF StreaksInv
  <1>2. row.failures \in Nat /\ row.failures <= misses[s]
    BY DEF StreaksInv
  <1> QED
    BY <1>1, <1>2 DEF StreaksInv

LEMMA LoadKeepsStreaks ==
  ASSUME StreaksInv, NEW r \in Readers, NEW what, Load(r, what)
  PROVE  StreaksInv'
  <1>1. PICK read \in SUBSET Existing :
          reading' = [reading EXCEPT ![r] =
              [job |-> what, at |-> minute, known |-> newsItems,
               since |-> IF what = "sweep" THEN 0 ELSE window[what],
               rows |-> [s \in read |-> sources[s]]]]
    BY DEF Load
  <1>2. \A q \in Readers \ {r} : reading'[q] = reading[q]
    BY <1>1 DEF StreaksInv
  <1>3. /\ DOMAIN reading'[r].rows = read
        /\ \A s \in read : reading'[r].rows[s] = sources[s]
    BY <1>1 DEF StreaksInv
  <1>4. read \subseteq Sources
    BY DEF Existing
  <1>5. UNCHANGED <<sources, misses>>
    BY DEF Load
  <1>6. DOMAIN reading' = Readers
    BY <1>1 DEF StreaksInv
  <1> QED
    BY <1>2, <1>3, <1>4, <1>5, <1>6 DEF StreaksInv

(* A row of what a job recorded: a read that failed adds one to the streak *)
(* and one to the misses.                                                  *)
LEMMA RecordedStreak ==
  ASSUME StreaksInv, NEW s \in Sources, NEW loaded, NEW ok \in BOOLEAN,
         loaded.failures \in Nat, loaded.failures <= misses[s]
  PROVE  /\ DOMAIN Recorded(sources[s], loaded, ok) = {"url", "asset", "active", "failures"}
         /\ Recorded(sources[s], loaded, ok).failures \in Nat
         /\ Recorded(sources[s], loaded, ok).failures <= misses[s] + (IF ok THEN 0 ELSE 1)
  <1> DEFINE row == sources[s]
  <1>1. DOMAIN row = {"url", "asset", "active", "failures"} /\ row.failures \in Nat /\ row.failures <= misses[s]
        /\ misses[s] \in Nat
    BY DEF StreaksInv
  <1> HIDE DEF row
  <1>2. CASE ok
    <2>1. Recorded(row, loaded, ok) = [row EXCEPT !.failures = IF loaded.failures = 0 THEN @ ELSE 0]
      BY <1>2 DEF Recorded
    <2>2. DOMAIN Recorded(row, loaded, ok) = DOMAIN row
      BY <2>1
    <2>3. Recorded(row, loaded, ok).failures \in {0, row.failures}
      BY <1>1, <2>1
    <2>4. Recorded(row, loaded, ok).failures \in Nat /\ Recorded(row, loaded, ok).failures <= misses[s]
      BY <1>1, <2>3
    <2>5. misses[s] + (IF ok THEN 0 ELSE 1) = misses[s]
      BY <1>1, <1>2
    <2> QED
      BY <1>1, <2>2, <2>4, <2>5 DEF row
  <1>3. CASE ~ok
    <2>1. Recorded(row, loaded, ok) =
            [row EXCEPT !.failures = loaded.failures + 1,
                        !.active = @ /\ loaded.failures + 1 < DeactivateThreshold]
      BY <1>3 DEF Recorded
    <2>2. /\ DOMAIN Recorded(row, loaded, ok) = DOMAIN row
          /\ Recorded(row, loaded, ok).failures = loaded.failures + 1
      BY <1>1, <2>1
    <2> QED
      BY <1>1, <1>3, <2>2 DEF row
  <1> QED
    BY <1>2, <1>3

LEMMA FinishKeepsStreaks ==
  ASSUME StreaksInv, NEW r \in Readers, Finish(r)
  PROVE  StreaksInv'
  <1> DEFINE rows == reading[r].rows
             failed == {s \in DOMAIN rows : ~Answers(rows[s].url)}
  <1>1. /\ DOMAIN rows \subseteq Sources
        /\ \A s \in DOMAIN rows : rows[s].failures \in Nat /\ rows[s].failures <= misses[s]
    BY DEF Finish, StreaksInv
  <1>2. /\ DOMAIN reading' = Readers
        /\ \A q \in Readers : reading'[q] = NotReading \/ reading'[q] = reading[q]
    BY DEF Finish, StreaksInv
  <1>3. CASE UNCHANGED <<sources, misses>>
    BY <1>2, <1>3 DEF StreaksInv
  <1>4. CASE /\ sources' = [s \in Sources |-> IF s \in DOMAIN rows
                              THEN Recorded(sources[s], rows[s], s \notin failed) ELSE sources[s]]
             /\ misses' = [s \in Sources |-> IF s \in failed THEN misses[s] + 1 ELSE misses[s]]
    <2>1. \A s \in Sources : misses[s] \in Nat /\ misses'[s] \in Nat /\ misses'[s] >= misses[s]
      BY <1>4 DEF StreaksInv
    <2>2. ASSUME NEW s \in Sources
          PROVE  /\ DOMAIN sources'[s] = {"url", "asset", "active", "failures"}
                 /\ sources'[s].failures \in Nat /\ sources'[s].failures <= misses'[s]
      <3>1. CASE s \in DOMAIN rows
        <4>1. sources'[s] = Recorded(sources[s], rows[s], s \notin failed)
          BY <1>4, <3>1
        <4>2. misses'[s] = misses[s] + (IF s \notin failed THEN 0 ELSE 1)
          BY <1>4, <2>1
        <4> QED
          BY <1>1, <3>1, <4>1, <4>2, RecordedStreak
      <3>2. CASE s \notin DOMAIN rows
        BY <1>4, <2>1, <3>2 DEF StreaksInv
      <3> QED
        BY <3>1, <3>2
    <2>3. \A q \in Readers : reading'[q] # NotReading =>
             /\ DOMAIN reading'[q].rows \subseteq Sources
             /\ \A s \in DOMAIN reading'[q].rows :
                   /\ reading'[q].rows[s].failures \in Nat
                   /\ reading'[q].rows[s].failures <= misses'[s]
      <3> SUFFICES ASSUME NEW q \in Readers, reading'[q] # NotReading
                   PROVE  /\ DOMAIN reading[q].rows \subseteq Sources
                          /\ \A s \in DOMAIN reading[q].rows :
                                /\ reading[q].rows[s].failures \in Nat
                                /\ reading[q].rows[s].failures <= misses'[s]
        BY <1>2
      <3>1. reading[q] # NotReading
        BY <1>2
      <3> QED
        BY <2>1, <3>1 DEF StreaksInv
    <2> QED
      BY <1>2, <1>4, <2>1, <2>2, <2>3 DEF StreaksInv
  <1> QED
    BY <1>3, <1>4 DEF Finish

LEMMA StreaksStep == StreaksInv /\ [FeedsNext]_feedVars => StreaksInv'
  <1> SUFFICES ASSUME StreaksInv, [FeedsNext]_feedVars PROVE StreaksInv'
    OBVIOUS
  <1>1. CASE UNCHANGED <<sources, misses, reading>>
    BY <1>1 DEF StreaksInv
  <1>2. CASE MinutePasses \/ (\E u \in Urls : FallSilent(u) \/ Recover(u)) \/ UNCHANGED feedVars
    BY <1>1, <1>2 DEF MinutePasses, FallSilent, Recover, feedVars
  <1>3. ASSUME NEW r \in Readers, (\E job \in Tickers \cup {"sweep"} : Load(r, job)) \/ Finish(r)
        PROVE  StreaksInv'
    BY <1>3, LoadKeepsStreaks, FinishKeepsStreaks
  <1>4. ASSUME NEW r \in Readers, Die(r) PROVE StreaksInv'
    <2>1. /\ DOMAIN reading' = Readers /\ UNCHANGED <<sources, misses>>
          /\ \A q \in Readers : reading'[q] = NotReading \/ reading'[q] = reading[q]
      BY <1>4 DEF Die, StreaksInv
    <2> QED
      BY <2>1 DEF StreaksInv
  <1>5. ASSUME NEW s \in Sources, NEW u \in Urls, NEW asset, NEW active \in BOOLEAN,
               create_news_source(s, u, asset, active) \/ RedirectSource(s, u)
        PROVE  StreaksInv'
    <2>1. DOMAIN sources[s] = {"url", "asset", "active", "failures"}
      BY DEF StreaksInv
    <2>2. CASE RedirectSource(s, u)
      <3>1. sources' = [sources EXCEPT ![s] = [sources[s] EXCEPT !.url = u]]
        BY <2>2 DEF RedirectSource
      <3> QED
        BY <2>1, <2>2, <3>1, EditKeepsStreaks DEF RedirectSource
    <2>3. CASE create_news_source(s, u, asset, active)
      BY <2>3, EditKeepsStreaks DEF create_news_source
    <2> QED
      BY <1>5, <2>2, <2>3
  <1>6. ASSUME NEW s \in Sources, NEW on \in BOOLEAN,
               SwitchSource(s, on) \/ test_news_source(s, on)
        PROVE  StreaksInv'
    <2>1. /\ DOMAIN sources[s] = {"url", "asset", "active", "failures"} /\ DOMAIN sources = Sources
          /\ sources[s].failures \in Nat /\ sources[s].failures <= misses[s]
      BY DEF StreaksInv
    <2>2. CASE SwitchSource(s, on)
      <3> DEFINE row == [sources[s] EXCEPT !.active = on, !.failures = IF on THEN 0 ELSE @]
      <3>1. sources' = [sources EXCEPT ![s] = row]
        BY <2>1, <2>2 DEF SwitchSource
      <3>2. /\ DOMAIN row = {"url", "asset", "active", "failures"}
            /\ row.failures = 0 \/ row.failures = sources[s].failures
        BY <2>1
      <3> HIDE DEF row
      <3> QED
        BY <2>2, <3>1, <3>2, EditKeepsStreaks DEF SwitchSource
    <2>3. CASE test_news_source(s, on)
      <3>1. CASE on
        <4> DEFINE row == Recorded(sources[s], sources[s], TRUE)
        <4>1. sources' = [sources EXCEPT ![s] = row]
          BY <2>3, <3>1 DEF test_news_source
        <4>2. /\ DOMAIN row = {"url", "asset", "active", "failures"}
              /\ row.failures = 0 \/ row.failures = sources[s].failures
          BY <2>1 DEF Recorded
        <4> HIDE DEF row
        <4> QED
          BY <2>3, <4>1, <4>2, EditKeepsStreaks DEF test_news_source
      <3>2. CASE ~on
        BY <1>1, <2>3, <3>2 DEF test_news_source
      <3> QED
        BY <3>1, <3>2
    <2> QED
      BY <1>6, <2>2, <2>3
  <1>7. ASSUME NEW s \in Sources, delete_news_source(s) PROVE StreaksInv'
    BY <1>7, EditKeepsStreaks DEF delete_news_source, Deleted
  <1>8. ASSUME NEW s \in Sources, NEW asset, BindSource(s, asset) PROVE StreaksInv'
    <2>1. DOMAIN sources[s] = {"url", "asset", "active", "failures"}
      BY DEF StreaksInv
    <2>2. sources' = [sources EXCEPT ![s] = [sources[s] EXCEPT !.asset = asset]]
      BY <1>8 DEF BindSource
    <2> QED
      BY <1>8, <2>1, <2>2, EditKeepsStreaks DEF BindSource
  <1> QED
    BY <1>2, <1>3, <1>4, <1>5, <1>6, <1>7, <1>8 DEF FeedsNext

(* However many workers read the feeds from rows they loaded a while ago,  *)
(* and whatever the administrator probes, redirects or switches meanwhile, *)
(* a source's streak is made of reads that failed                          *)
(* (plugins/adapters/news_rss.py record).                                  *)
THEOREM StreaksAreEarned == FeedsSpec => []StreakEarned
  <1>1. StreaksInv => StreakEarned
    BY DEF StreaksInv, StreakEarned, Existing
  <1> QED
    BY <1>1, StreaksInitially, StreaksStep, PTL DEF FeedsSpec

-----------------------------------------------------------------------------
(* FeedReader: what a window moves past                                    *)

FeedTimes ==
    /\ minute \in Nat
    /\ cache \in [Urls -> Int]
    /\ DOMAIN reading = Readers
    /\ \A r \in Readers : reading[r] # NotReading => reading[r].at \in Nat

SkipsInv == FeedTimes /\ OnlyOutagesSkip

(* An article of a feed that answered from a copy that has it was kept.    *)
LEMMA FoundWhenRead ==
  ASSUME ArticlesAreDated, FeedTimes, NEW ticker, NEW since, NEW now \in Nat, NEW us, NEW good, NEW targeted,
         \A u \in us : Answers(u) => u \in good,
         NEW p \in LeftBehind(ticker, since, now, us, Kept(ticker, since, now, good, targeted))
  PROVE  p.why # "lost"
  <1>1. PICK a \in Articles :
          /\ a \notin Kept(ticker, since, now, good, targeted)
          /\ FeedOf[a] \in us /\ About[a] = ticker
          /\ since <= PublishedAt[a] /\ PublishedAt[a] < now
          /\ p = [article |-> a, why |-> IF ~Answers(FeedOf[a]) THEN "down"
                                         ELSE IF PublishedAt[a] > ReadAt(FeedOf[a]) THEN "cached"
                                         ELSE "lost"]
    BY DEF LeftBehind
  <1>2. PublishedAt[a] \in Nat /\ FeedOf[a] \in Urls
    BY DEF ArticlesAreDated
  <1>3. ReadAt(FeedOf[a]) \in Int
    BY <1>2 DEF ReadAt, FeedTimes
  <1> SUFFICES ASSUME Answers(FeedOf[a]), ~(PublishedAt[a] > ReadAt(FeedOf[a])) PROVE FALSE
    BY <1>1
  <1>4. a \in Entries(FeedOf[a]) /\ FeedOf[a] \in good
    BY <1>1, <1>2, <1>3 DEF Entries
  <1> QED
    BY <1>1, <1>2, <1>4 DEF Kept

LEMMA FinishSkips ==
  ASSUME ArticlesAreDated, SkipsInv, NEW r \in Readers, Finish(r)
  PROVE  SkipsInv'
  <1> DEFINE rows == reading[r].rows
             us == {rows[s].url : s \in DOMAIN rows}
             failed == {s \in DOMAIN rows : ~Answers(rows[s].url)}
             good == us \ {rows[s].url : s \in failed}
             job == reading[r].job
             since == reading[r].since
             targeted == Templated \cup {rows[s].url : s \in {x \in DOMAIN rows : rows[x].asset # General}}
  <1>1. FeedTimes'
    <2>1. \A u \in Urls : ReadAt(u) \in Int
      BY DEF SkipsInv, FeedTimes, ReadAt
    <2>2. cache' \in [Urls -> Int]
      <3>1. cache' = [u \in Urls |-> IF u \in good THEN ReadAt(u) ELSE cache[u]]
        BY DEF Finish
      <3> HIDE DEF good
      <3> QED
        BY <2>1, <3>1 DEF SkipsInv, FeedTimes
    <2>3. /\ DOMAIN reading' = Readers
          /\ \A q \in Readers : reading'[q] = NotReading \/ reading'[q] = reading[q]
      BY DEF Finish, SkipsInv, FeedTimes
    <2> QED
      BY <2>2, <2>3 DEF Finish, SkipsInv, FeedTimes
  <1>2. \/ passed' = passed
        \/ passed' = passed \cup LeftBehind(job, since, reading[r].at, us, Kept(job, since, reading[r].at, good, targeted))
    BY DEF Finish
  <1>3. \A u \in us : Answers(u) => u \in good
    OBVIOUS
  <1>4. FeedTimes /\ reading[r].at \in Nat
    BY DEF SkipsInv, FeedTimes, Finish
  <1> HIDE DEF us, good, job, since, targeted
  <1>5. \A p \in LeftBehind(job, since, reading[r].at, us, Kept(job, since, reading[r].at, good, targeted)) : p.why # "lost"
    BY <1>3, <1>4, FoundWhenRead
  <1> QED
    BY <1>1, <1>2, <1>5 DEF SkipsInv, OnlyOutagesSkip

LEMMA SkipsStep ==
  ASSUME ArticlesAreDated, SkipsInv, [FeedsNext]_feedVars
  PROVE  SkipsInv'
  <1>1. CASE UNCHANGED <<minute, cache, reading, passed>>
    BY <1>1 DEF SkipsInv, FeedTimes, OnlyOutagesSkip
  <1>2. CASE UNCHANGED feedVars \/ \E u \in Urls : FallSilent(u) \/ Recover(u)
    BY <1>1, <1>2 DEF feedVars, FallSilent, Recover
  <1>3. CASE MinutePasses
    BY <1>3 DEF MinutePasses, SkipsInv, FeedTimes, OnlyOutagesSkip
  <1>4. ASSUME NEW r \in Readers, NEW job, Load(r, job) PROVE SkipsInv'
    <2>1. PICK known, since, rows :
            reading' = [reading EXCEPT ![r] = [job |-> job, at |-> minute, known |-> known,
                                               since |-> since, rows |-> rows]]
      BY <1>4 DEF Load
    <2> QED
      BY <1>4, <2>1 DEF Load, SkipsInv, FeedTimes, OnlyOutagesSkip
  <1>5. ASSUME NEW r \in Readers, Die(r) PROVE SkipsInv'
    <2>1. Never \in Int
      BY DEF Never
    <2> QED
      BY <1>5, <2>1 DEF Die, SkipsInv, FeedTimes, OnlyOutagesSkip
  <1>6. CASE \E s \in Sources :
               \/ \E u \in Urls, asset \in Bindings, active \in BOOLEAN :
                     create_news_source(s, u, asset, active)
               \/ \E u \in Urls : RedirectSource(s, u)
               \/ \E asset \in Bindings : BindSource(s, asset)
               \/ \E on \in BOOLEAN : SwitchSource(s, on) \/ test_news_source(s, on)
               \/ delete_news_source(s)
    BY <1>1, <1>6 DEF create_news_source, RedirectSource, BindSource, SwitchSource, test_news_source,
                      delete_news_source
  <1> QED
    BY <1>2, <1>3, <1>4, <1>5, <1>6, FinishSkips DEF FeedsNext

(* A schedule's window moves past an article it did not keep only when its *)
(* feed was down or the copy in the worker's cache older than the article, *)
(* for any feeds, readers and lifetimes of the cache (news_rss.py fetch,   *)
(* news/collector.py).                                                     *)
THEOREM WindowsSkipOutagesOnly ==
  ASSUME ArticlesAreDated
  PROVE  FeedsSpec => []OnlyOutagesSkip
  <1>1. FeedsInit => SkipsInv
    BY DEF FeedsInit, SkipsInv, FeedTimes, OnlyOutagesSkip, Never, NotReading
  <1>2. SkipsInv => OnlyOutagesSkip
    BY DEF SkipsInv
  <1>3. SkipsInv /\ [FeedsNext]_feedVars => SkipsInv'
    BY SkipsStep
  <1> QED
    BY <1>1, <1>2, <1>3, PTL DEF FeedsSpec

(* Both together: for any feeds, readers, schedules and edits, a streak is *)
(* made of reads that failed, and a gap has an outage or an older copy for *)
(* its cause.                                                              *)
THEOREM GapsAndStreaksAreEarned ==
  ASSUME ArticlesAreDated
  PROVE  FeedsSpec => []GapsAndStreaksEarned
  <1>1. StreakEarned /\ OnlyOutagesSkip => GapsAndStreaksEarned
    BY DEF GapsAndStreaksEarned
  <1> QED
    BY <1>1, StreaksAreEarned, WindowsSkipOutagesOnly, PTL
=============================================================================

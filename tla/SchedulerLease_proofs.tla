------------------------ MODULE SchedulerLease_proofs ------------------------
(***************************************************************************)
(* Proofs about SchedulerLease for any set of schedulers, any lease time   *)
(* and any length of a pass against it.                                    *)
(***************************************************************************)
EXTENDS SchedulerLease, TLAPS

USE DEF tables, counters

(* The part of the type invariant that is about one scheduler's pass. *)
PassTypes ==
    /\ pc \in [Schedulers -> Locations]
    /\ lag \in [Schedulers -> 0..MaxLag]
    /\ wrote \in [Schedulers -> BOOLEAN] /\ queued \in [Schedulers -> BOOLEAN]
    /\ \A s \in Schedulers : wrote[s] <=> pc[s] \in {"leading", "queued"}
    /\ leader \in [Schedulers -> BOOLEAN] /\ stopping \in [Schedulers -> BOOLEAN]

(* A job waits for its commit only in a pass that has come that far, and   *)
(* only while the due times are not used up.                               *)
QueuedPasses ==
    \A s \in Schedulers : queued[s] => pc[s] = "queued" /\ due.number < MaxDue

(* A pass that wrote the lease was entitled to it and still is. *)
WriterEntitled ==
    \A s \in Schedulers :
        wrote[s] => leader[s] /\ (lease.holder \in {NoOne, s} \/ lease.left + lag[s] <= 0)

Inv == TypeOK /\ QueuedPasses /\ OneTick /\ WriterEntitled /\ QueuedExactlyWhenPast

LEMMA InvInit == Init => Inv
  <1> SUFFICES ASSUME Init PROVE Inv
    OBVIOUS
  <1>1. TypeOK
    BY NumbersAssumption DEF Init, TypeOK, NoLease, Locations, InPass
  <1>2. QueuedPasses /\ OneTick /\ WriterEntitled
    BY DEF Init, QueuedPasses, OneTick, WriterEntitled
  <1>3. QueuedExactlyWhenPast
    BY DEF Init, QueuedExactlyWhenPast
  <1> QED
    BY <1>1, <1>2, <1>3 DEF Inv

LEMMA CloseTypes ==
  ASSUME TypeOK, NEW s \in Schedulers, NEW l \in {"asleep", "down"}, Close(s, l)
  PROVE  /\ pc' \in [Schedulers -> Locations] /\ lag' \in [Schedulers -> 0..MaxLag]
         /\ wrote' \in [Schedulers -> BOOLEAN] /\ queued' \in [Schedulers -> BOOLEAN]
         /\ \A t \in Schedulers : wrote'[t] <=> pc'[t] \in {"leading", "queued"}
         /\ ~wrote'[s] /\ ~queued'[s] /\ pc'[s] = l
         /\ \A t \in Schedulers \ {s} :
               /\ pc'[t] = pc[t] /\ lag'[t] = lag[t]
               /\ wrote'[t] = wrote[t] /\ queued'[t] = queued[t]
  <1>1. 0 \in 0..MaxLag
    BY NumbersAssumption
  <1>2. /\ pc' \in [Schedulers -> Locations] /\ pc'[s] = l
        /\ \A t \in Schedulers \ {s} : pc'[t] = pc[t]
    BY DEF Close, Goto, TypeOK, Locations
  <1>3. lag' \in [Schedulers -> 0..MaxLag] /\ \A t \in Schedulers \ {s} : lag'[t] = lag[t]
    BY <1>1 DEF Close, TypeOK
  <1>4. /\ wrote' \in [Schedulers -> BOOLEAN] /\ wrote'[s] = FALSE
        /\ \A t \in Schedulers \ {s} : wrote'[t] = wrote[t]
    BY DEF Close, TypeOK
  <1>5. /\ queued' \in [Schedulers -> BOOLEAN] /\ queued'[s] = FALSE
        /\ \A t \in Schedulers \ {s} : queued'[t] = queued[t]
    BY DEF Close, TypeOK
  <1>6. \A t \in Schedulers : wrote'[t] <=> pc'[t] \in {"leading", "queued"}
    BY <1>2, <1>4 DEF TypeOK
  <1> QED
    BY <1>2, <1>3, <1>4, <1>5, <1>6

(* A pass that ends without touching the tables. *)
LEMMA Closed ==
  ASSUME Inv, NEW s \in Schedulers, NEW l \in {"asleep", "down"}, Close(s, l),
         UNCHANGED <<lease, due, keys>>,
         leader' \in [Schedulers -> BOOLEAN], stopping' \in [Schedulers -> BOOLEAN],
         \A t \in Schedulers \ {s} : leader'[t] = leader[t],
         faults' \in 0..MaxFaults, stops' = stops, collisions' = collisions
  PROVE  Inv'
  <1>1. TypeOK'
    BY CloseTypes DEF Inv, TypeOK
  <1>2. QueuedPasses'
    BY CloseTypes DEF Inv, QueuedPasses
  <1>3. OneTick'
    BY CloseTypes DEF Inv, OneTick
  <1>4. WriterEntitled'
    BY CloseTypes DEF Inv, WriterEntitled
  <1> QED
    BY <1>1, <1>2, <1>3, <1>4 DEF Inv, QueuedExactlyWhenPast

(* A step of a pass, or of the loop around it, before it writes anything. *)
LEMMA Moved ==
  ASSUME Inv, NEW s \in Schedulers, NEW l \in Locations \ {"leading", "queued"}, Goto(s, l),
         ~wrote[s], ~queued[s], UNCHANGED <<tables, lag, wrote, queued, leader, stopping, counters>>
  PROVE  Inv'
  <1>1. pc' \in [Schedulers -> Locations] /\ \A t \in Schedulers : pc'[t] = IF t = s THEN l ELSE pc[t]
    BY DEF Goto, Inv, TypeOK
  <1>2. TypeOK'
    <2>1. \A t \in Schedulers : wrote'[t] <=> pc'[t] \in {"leading", "queued"}
      BY <1>1 DEF Inv, TypeOK
    <2> QED
      BY <1>1, <2>1 DEF Inv, TypeOK
  <1>3. QueuedPasses' /\ OneTick' /\ WriterEntitled'
    BY <1>1 DEF Inv, QueuedPasses, OneTick, WriterEntitled
  <1> QED
    BY <1>2, <1>3 DEF Inv, QueuedExactlyWhenPast

(* The statement that takes the lease, the row being free. *)
LEMMA Elected ==
  ASSUME Inv, NEW s \in Schedulers, pc[s] \in {"begin", "insert"}, ~LeaseLocked,
         lease.holder \in {NoOne, s} \/ lease.left + lag[s] <= 0,
         wrote' = [wrote EXCEPT ![s] = TRUE], leader' = [leader EXCEPT ![s] = TRUE],
         Goto(s, "leading"), UNCHANGED <<tables, lag, queued, stopping, counters>>
  PROVE  Inv'
  <1>1. /\ pc' \in [Schedulers -> Locations]
        /\ \A t \in Schedulers : pc'[t] = IF t = s THEN "leading" ELSE pc[t]
    BY DEF Goto, Inv, TypeOK, Locations, InPass
  <1>2. /\ wrote' \in [Schedulers -> BOOLEAN] /\ wrote'[s] = TRUE
        /\ \A t \in Schedulers \ {s} : wrote'[t] = wrote[t]
    BY DEF Inv, TypeOK
  <1>3. /\ leader' \in [Schedulers -> BOOLEAN] /\ leader'[s] = TRUE
        /\ \A t \in Schedulers \ {s} : leader'[t] = leader[t]
    BY DEF Inv, TypeOK
  <1>4. \A t \in Schedulers : wrote'[t] <=> pc'[t] \in {"leading", "queued"}
    BY <1>1, <1>2 DEF Inv, TypeOK
  <1>5. TypeOK'
    BY <1>1, <1>2, <1>3, <1>4 DEF Inv, TypeOK
  <1>6. \A t \in Schedulers : wrote'[t] <=> t = s
    BY <1>2 DEF LeaseLocked
  <1>7. OneTick'
    BY <1>4, <1>6 DEF OneTick
  <1>8. QueuedPasses'
    BY <1>1 DEF Inv, QueuedPasses
  <1>9. WriterEntitled'
    BY <1>3, <1>6 DEF WriterEntitled
  <1> QED
    BY <1>5, <1>7, <1>8, <1>9 DEF Inv, QueuedExactlyWhenPast

LEMMA QueuingKeeps == ASSUME Inv, NEW s \in Schedulers, EnqueueDue(s) PROVE Inv'
  <1>1. /\ pc' \in [Schedulers -> Locations] /\ pc[s] = "leading"
        /\ \A t \in Schedulers : pc'[t] = IF t = s THEN "queued" ELSE pc[t]
    BY DEF EnqueueDue, Goto, Inv, TypeOK, Locations, InPass
  <1>2. /\ queued' \in [Schedulers -> BOOLEAN]
        /\ queued'[s] => due.number < MaxDue
        /\ \A t \in Schedulers \ {s} : queued'[t] = queued[t]
    BY DEF EnqueueDue, IsDue, Inv, TypeOK
  <1>3. UNCHANGED <<tables, lag, wrote, leader, stopping, counters>>
    BY DEF EnqueueDue
  <1>4. TypeOK'
    <2>1. \A t \in Schedulers : wrote'[t] <=> pc'[t] \in {"leading", "queued"}
      BY <1>1, <1>3 DEF Inv, TypeOK
    <2> QED
      BY <1>1, <1>2, <1>3, <2>1 DEF Inv, TypeOK
  <1>5. QueuedPasses'
    BY <1>1, <1>2, <1>3 DEF Inv, QueuedPasses
  <1>6. OneTick'
    BY <1>1 DEF Inv, OneTick
  <1> QED
    BY <1>3, <1>4, <1>5, <1>6 DEF Inv, WriterEntitled, QueuedExactlyWhenPast

LEMMA CollidingKeeps == ASSUME Inv, NEW s \in Schedulers, Collide(s) PROVE Inv'
  <1>1. /\ pc' \in [Schedulers -> Locations]
        /\ \A t \in Schedulers : pc'[t] = IF t = s THEN "closing" ELSE pc[t]
    BY DEF Collide, Goto, Inv, TypeOK, Locations, InPass
  <1>2. /\ wrote' \in [Schedulers -> BOOLEAN] /\ wrote'[s] = FALSE
        /\ \A t \in Schedulers \ {s} : wrote'[t] = wrote[t]
    BY DEF Collide, Inv, TypeOK
  <1>3. /\ queued' \in [Schedulers -> BOOLEAN] /\ queued'[s] = FALSE
        /\ \A t \in Schedulers \ {s} : queued'[t] = queued[t]
    BY DEF Collide, Inv, TypeOK
  <1>4. /\ UNCHANGED <<tables, lag, leader, stopping, faults, stops>>
        /\ collisions' \in 0..MaxCollisions
    BY NumbersAssumption DEF Collide, Inv, TypeOK
  <1>5. TypeOK'
    <2>1. \A t \in Schedulers : wrote'[t] <=> pc'[t] \in {"leading", "queued"}
      BY <1>1, <1>2 DEF Inv, TypeOK
    <2> QED
      BY <1>1, <1>2, <1>3, <1>4, <2>1 DEF Inv, TypeOK
  <1>6. QueuedPasses' /\ OneTick'
    BY <1>1, <1>3, <1>4 DEF Inv, QueuedPasses, OneTick
  <1>7. WriterEntitled'
    BY <1>2, <1>4 DEF Inv, WriterEntitled
  <1> QED
    BY <1>4, <1>5, <1>6, <1>7 DEF Inv, QueuedExactlyWhenPast

(* A writer is alone, so what it commits disturbs no other pass. *)
LEMMA CommittingKeeps == ASSUME Inv, NEW s \in Schedulers, CommitPass(s) PROVE Inv'
  <1>1. Close(s, "asleep") /\ UNCHANGED <<leader, stopping, counters>> /\ TypeOK
    BY DEF CommitPass, Inv
  <1>2. queued[s] => wrote[s] /\ due.number < MaxDue
    BY DEF Inv, QueuedPasses, TypeOK
  <1>3. wrote[s] => \A t \in Schedulers \ {s} : ~wrote[t]
    BY DEF Inv, OneTick, TypeOK
  <1>4. \A t \in Schedulers \ {s} : queued[t] => wrote[t]
    BY DEF Inv, QueuedPasses, TypeOK
  <1>5. lease' \in [holder : Schedulers \cup {NoOne}, left : -MaxLag..LeaseTime]
    <2>1. LeaseTime - lag[s] \in -MaxLag..LeaseTime
      BY <1>1, NumbersAssumption DEF TypeOK
    <2> QED
      BY <1>1, <2>1 DEF CommitPass, TypeOK
  <1>6. CASE queued[s]
    <2>1. PICK w \in 1..Period : due' = [number |-> due.number + 1, wait |-> w - lag[s]]
      BY <1>6 DEF CommitPass
    <2>2. keys' = keys \cup {due.number}
      BY <1>6 DEF CommitPass
    <2>3. /\ due.number \in 0..MaxDue /\ due.number < MaxDue /\ lag[s] \in 0..MaxLag
          /\ w - lag[s] \in -MaxLag..Period
      BY <1>1, <1>2, <1>6, NumbersAssumption DEF TypeOK
    <2>4. /\ due' \in [number : 0..MaxDue, wait : -MaxLag..Period]
          /\ due'.number = due.number + 1
      BY <2>1, <2>3, NumbersAssumption
    <2>5. keys' = 0..due'.number - 1
      BY <2>2, <2>3, <2>4 DEF Inv, QueuedExactlyWhenPast
    <2>6. keys' \subseteq 0..MaxDue
      BY <2>3, <2>4, <2>5, NumbersAssumption
    <2>7. TypeOK'
      BY <1>1, <1>5, <2>4, <2>6, CloseTypes DEF TypeOK
    <2>8. \A t \in Schedulers : ~wrote'[t] /\ ~queued'[t]
      BY <1>1, <1>2, <1>3, <1>4, <1>6, CloseTypes
    <2> QED
      BY <2>5, <2>7, <2>8 DEF Inv, QueuedPasses, WriterEntitled, QueuedExactlyWhenPast, OneTick, TypeOK
  <1>7. CASE ~queued[s] /\ wrote[s]
    <2>1. UNCHANGED <<due, keys>>
      BY <1>7 DEF CommitPass
    <2>2. TypeOK'
      BY <1>1, <1>5, <2>1, CloseTypes DEF TypeOK
    <2>3. \A t \in Schedulers : ~wrote'[t] /\ ~queued'[t]
      BY <1>1, <1>3, <1>4, <1>7, CloseTypes
    <2> QED
      BY <2>1, <2>2, <2>3 DEF Inv, QueuedPasses, WriterEntitled, QueuedExactlyWhenPast, OneTick, TypeOK
  <1>8. CASE ~queued[s] /\ ~wrote[s]
    <2>1. UNCHANGED <<lease, due, keys>>
      BY <1>8 DEF CommitPass
    <2>2. /\ leader' \in [Schedulers -> BOOLEAN] /\ stopping' \in [Schedulers -> BOOLEAN]
          /\ faults' \in 0..MaxFaults
      BY <1>1 DEF TypeOK
    <2> QED
      BY <1>1, <2>1, <2>2, Closed
  <1> QED
    BY <1>6, <1>7, <1>8

LEMMA ReleasingKeeps == ASSUME Inv, NEW s \in Schedulers, Release(s) PROVE Inv'
  <1>1. /\ Close(s, "down") /\ UNCHANGED <<due, keys, counters>>
        /\ leader' \in [Schedulers -> BOOLEAN] /\ stopping' \in [Schedulers -> BOOLEAN]
        /\ \A t \in Schedulers \ {s} : leader'[t] = leader[t]
    BY DEF Release, Reset, Inv, TypeOK
  <1>2. CASE lease' = lease
    <2>1. faults' \in 0..MaxFaults
      BY <1>1 DEF Inv, TypeOK
    <2> QED
      BY <1>1, <1>2, <2>1, Closed
  <1>3. CASE lease' = NoLease /\ ~LeaseLocked
    <2>1. TypeOK'
      BY <1>1, <1>3, CloseTypes, NumbersAssumption DEF Inv, TypeOK, NoLease
    <2>2. \A t \in Schedulers : ~wrote'[t] /\ ~queued'[t]
      BY <1>1, <1>3, CloseTypes DEF LeaseLocked, Inv, QueuedPasses, TypeOK
    <2> QED
      BY <1>1, <2>1, <2>2 DEF Inv, QueuedPasses, WriterEntitled, QueuedExactlyWhenPast, OneTick, TypeOK
  <1> QED
    BY <1>2, <1>3 DEF Release

LEMMA TickingKeeps == ASSUME Inv, Tick PROVE Inv'
  <1>1. /\ lease'.holder = lease.holder
        /\ lease'.left = IF lease.left > -MaxLag THEN lease.left - 1 ELSE lease.left
        /\ due'.number = due.number
        /\ due'.wait = IF due.wait > -MaxLag THEN due.wait - 1 ELSE due.wait
        /\ lease' \in [holder : Schedulers \cup {NoOne}, left : -MaxLag..LeaseTime]
        /\ due' \in [number : 0..MaxDue, wait : -MaxLag..Period]
    BY NumbersAssumption DEF Tick, Inv, TypeOK
  <1>2. /\ lag' \in [Schedulers -> 0..MaxLag]
        /\ \A s \in Schedulers : pc[s] \in InPass => lag'[s] = lag[s] + 1
    BY NumbersAssumption DEF Tick, Inv, TypeOK
  <1>3. UNCHANGED <<keys, pc, wrote, queued, leader, stopping, counters>>
    BY DEF Tick
  <1>4. TypeOK'
    BY <1>1, <1>2, <1>3 DEF Inv, TypeOK
  <1>5. WriterEntitled'
    <2> SUFFICES ASSUME NEW s \in Schedulers, wrote[s]
                 PROVE  leader[s] /\ (lease.holder \in {NoOne, s} \/ lease'.left + lag'[s] <= 0)
      BY <1>1, <1>3 DEF WriterEntitled
    <2>1. leader[s] /\ (lease.holder \in {NoOne, s} \/ lease.left + lag[s] <= 0)
      BY DEF Inv, WriterEntitled
    <2>2. pc[s] \in InPass /\ lag'[s] = lag[s] + 1 /\ lag'[s] \in 0..MaxLag
      BY <1>2 DEF Inv, TypeOK, InPass
    <2>3. lease.left + lag[s] <= 0 => lease'.left + lag'[s] <= 0
      BY <1>1, <2>2, NumbersAssumption DEF Inv, TypeOK
    <2> QED
      BY <2>1, <2>3
  <1>6. QueuedPasses' /\ OneTick' /\ QueuedExactlyWhenPast'
    BY <1>1, <1>3 DEF Inv, QueuedPasses, OneTick, QueuedExactlyWhenPast
  <1> QED
    BY <1>4, <1>5, <1>6 DEF Inv

LEMMA StoppingKeeps == ASSUME Inv, NEW s \in Schedulers, Stop(s) PROVE Inv'
  <1>1. stopping' \in [Schedulers -> BOOLEAN] /\ stops' \in 0..MaxStops
    BY NumbersAssumption DEF Stop, Inv, TypeOK
  <1>2. UNCHANGED <<tables, pc, lag, wrote, queued, leader, faults, collisions>>
    BY DEF Stop
  <1>3. TypeOK'
    BY <1>1, <1>2 DEF Inv, TypeOK
  <1> QED
    BY <1>2, <1>3 DEF Inv, QueuedPasses, OneTick, WriterEntitled, QueuedExactlyWhenPast

LEMMA InvStep == Inv /\ [Next]_vars => Inv'
  <1> SUFFICES ASSUME Inv, [Next]_vars PROVE Inv'
    OBVIOUS
  <1>1. TypeOK
    BY DEF Inv
  <1>2. \A s \in Schedulers : pc[s] \notin {"leading", "queued"} => ~wrote[s] /\ ~queued[s]
    BY DEF Inv, TypeOK, QueuedPasses
  <1>3. ASSUME NEW s \in Schedulers, Wake(s) PROVE Inv'
    BY <1>2, <1>3, Moved DEF Wake, Locations, InPass
  <1>4. ASSUME NEW s \in Schedulers, Renew(s) PROVE Inv'
    BY <1>4, Elected DEF Renew, Matches
  <1>5. ASSUME NEW s \in Schedulers, Miss(s) PROVE Inv'
    BY <1>2, <1>5, Moved DEF Miss, Locations, InPass
  <1>6. ASSUME NEW s \in Schedulers, Follow(s) PROVE Inv'
    <2>1. /\ leader' \in [Schedulers -> BOOLEAN] /\ stopping' \in [Schedulers -> BOOLEAN]
          /\ \A t \in Schedulers \ {s} : leader'[t] = leader[t]
          /\ faults' \in 0..MaxFaults
      BY <1>1, <1>6 DEF Follow, TypeOK
    <2> QED
      BY <1>6, <2>1, Closed DEF Follow
  <1>7. ASSUME NEW s \in Schedulers, Probe(s) PROVE Inv'
    <2>1. CASE Follow(s)
      BY <1>6, <2>1
    <2>2. CASE Goto(s, "insert") /\ UNCHANGED <<tables, lag, wrote, queued, leader, stopping, counters>>
      BY <1>2, <1>7, <2>2, Moved DEF Probe, Locations, InPass
    <2> QED
      BY <1>7, <2>1, <2>2 DEF Probe
  <1>8. ASSUME NEW s \in Schedulers, Insert(s) PROVE Inv'
    <2>1. CASE Follow(s)
      BY <1>6, <2>1
    <2>2. CASE ~Follow(s)
      <3>1. /\ pc[s] = "insert" /\ lease.holder = NoOne /\ ~LeaseLocked
            /\ wrote' = [wrote EXCEPT ![s] = TRUE] /\ leader' = [leader EXCEPT ![s] = TRUE]
            /\ Goto(s, "leading") /\ UNCHANGED <<tables, lag, queued, stopping, counters>>
        BY <1>8, <2>2 DEF Insert
      <3>2. /\ pc[s] \in {"begin", "insert"}
            /\ lease.holder \in {NoOne, s} \/ lease.left + lag[s] <= 0
        BY <3>1
      <3> QED
        BY <3>1, <3>2, Elected
    <2> QED
      BY <2>1, <2>2
  <1>9. ASSUME NEW s \in Schedulers, FailPass(s) PROVE Inv'
    <2>1. /\ leader' \in [Schedulers -> BOOLEAN] /\ stopping' \in [Schedulers -> BOOLEAN]
          /\ \A t \in Schedulers \ {s} : leader'[t] = leader[t]
          /\ faults' \in 0..MaxFaults
      BY <1>1, <1>9, NumbersAssumption DEF FailPass, TypeOK
    <2> QED
      BY <1>9, <2>1, Closed DEF FailPass
  <1>10. ASSUME NEW s \in Schedulers, Crash(s) \/ EndDaemon(s) PROVE Inv'
    <2>1. Reset(s) /\ UNCHANGED <<lease, due, keys, stops, collisions>>
      BY <1>10 DEF Crash, EndDaemon
    <2>2. faults' \in 0..MaxFaults
      BY <1>1, <1>10, NumbersAssumption DEF Crash, EndDaemon, TypeOK
    <2>3. /\ leader' \in [Schedulers -> BOOLEAN] /\ stopping' \in [Schedulers -> BOOLEAN]
          /\ \A t \in Schedulers \ {s} : leader'[t] = leader[t]
      BY <1>1, <2>1 DEF Reset, TypeOK
    <2> QED
      BY <2>1, <2>2, <2>3, Closed DEF Reset
  <1>11. ASSUME NEW s \in Schedulers, Leave(s) PROVE Inv'
    BY <1>2, <1>11, Moved DEF Leave, Locations
  <1>12. ASSUME NEW s \in Schedulers, Start(s) PROVE Inv'
    BY <1>2, <1>12, Moved DEF Start, Locations
  <1>13. CASE UNCHANGED vars
    BY <1>13 DEF vars, Inv, TypeOK, QueuedPasses, OneTick, WriterEntitled, QueuedExactlyWhenPast
  <1> QED
    BY <1>3, <1>4, <1>5, <1>7, <1>8, <1>9, <1>10, <1>11, <1>12, <1>13, QueuingKeeps,
       CollidingKeeps, CommittingKeeps, ReleasingKeeps, TickingKeeps, StoppingKeeps DEF Next, Step

LEMMA Invariance == Spec => []Inv
  BY InvInit, InvStep, PTL DEF Spec

-----------------------------------------------------------------------------

(* Types are kept by every interleaving of passes. *)
THEOREM TypeCorrect == Spec => []TypeOK
  <1>1. Inv => TypeOK
    BY DEF Inv
  <1> QED
    BY <1>1, Invariance, PTL

(* Two schedulers are never past the election together, even when a pass   *)
(* outlasts its lease.                                                     *)
THEOREM SingleTick == Spec => []OneTick
  <1>1. Inv => OneTick
    BY DEF Inv
  <1> QED
    BY <1>1, Invariance, PTL

(* No due time is skipped and none is queued twice, across handovers,      *)
(* failed passes and lost keys.                                            *)
THEOREM DueTimesQueued == Spec => []QueuedExactlyWhenPast
  <1>1. Inv => QueuedExactlyWhenPast
    BY DEF Inv
  <1> QED
    BY <1>1, Invariance, PTL

(* A live lease changes hands only when its holder releases it. *)
THEOREM LeaseKept == Spec => LeaseRespected
  <1>1. Inv /\ [Next]_vars =>
          [\A s \in Schedulers :
              lease.holder = s /\ lease.left > 0 => lease'.holder = s \/ pc[s] = "releasing"]_vars
    <2> SUFFICES ASSUME Inv, [Next]_vars, NEW s \in Schedulers, lease.holder = s, lease.left > 0
                 PROVE  lease'.holder = s \/ pc[s] = "releasing"
      OBVIOUS
    <2>1. CASE lease' = lease
      BY <2>1
    <2>2. CASE Tick
      BY <2>2 DEF Tick, Inv, TypeOK
    <2>3. ASSUME NEW t \in Schedulers, CommitPass(t) PROVE lease'.holder = s
      <3>1. CASE wrote[t]
        <4>1. lease.holder \in {NoOne, t} \/ lease.left + lag[t] <= 0
          BY <3>1 DEF Inv, WriterEntitled
        <4>2. lag[t] \in Nat /\ lease.left \in Int
          BY NumbersAssumption DEF Inv, TypeOK
        <4>3. t = s
          BY <4>1, <4>2, NamesAssumption
        <4> QED
          BY <2>3, <3>1, <4>3 DEF CommitPass
      <3> QED
        BY <2>3, <3>1 DEF CommitPass
    <2>4. ASSUME NEW t \in Schedulers, Release(t)
          PROVE  lease'.holder = s \/ pc[s] = "releasing"
      BY <2>4 DEF Release
    <2>5. ASSUME NEW t \in Schedulers,
                 \/ Wake(t) \/ Renew(t) \/ Miss(t) \/ Probe(t) \/ Insert(t)
                 \/ EnqueueDue(t) \/ Leave(t) \/ Collide(t) \/ FailPass(t)
                 \/ Stop(t) \/ EndDaemon(t) \/ Crash(t) \/ Start(t)
          PROVE  lease' = lease
      BY <2>5 DEF Wake, Renew, Miss, Probe, Insert, Follow, EnqueueDue, Leave, Collide,
                  FailPass, Stop, EndDaemon, Crash, Start
    <2> QED
      BY <2>1, <2>2, <2>3, <2>4, <2>5 DEF Next, Step, vars
  <1> QED
    BY <1>1, Invariance, PTL DEF Spec, LeaseRespected

-----------------------------------------------------------------------------
(* The scheduler that never fails *)

(* What an open pass has queued was due by its clock, and still is. *)
QueuedIsDue == \A s \in Schedulers : queued[s] => due.wait + lag[s] <= 0

LEMMA QueuedIsDueInit == Init => QueuedIsDue
  BY DEF Init, QueuedIsDue

LEMMA QueuedIsDueStep ==
  ASSUME Inv, QueuedIsDue, [Next]_vars
  PROVE  QueuedIsDue'
  <1>1. TypeOK /\ QueuedPasses
    BY DEF Inv
  <1>2. ASSUME NEW s \in Schedulers, EnqueueDue(s) PROVE QueuedIsDue'
    <2>1. /\ UNCHANGED <<due, lag>>
          /\ queued'[s] => due.wait + lag[s] <= 0
          /\ \A t \in Schedulers \ {s} : queued'[t] = queued[t]
      BY <1>1, <1>2 DEF EnqueueDue, IsDue, TypeOK
    <2> QED
      BY <2>1 DEF QueuedIsDue
  <1>3. ASSUME NEW s \in Schedulers, CommitPass(s) PROVE QueuedIsDue'
    <2>1. ~queued'[s] /\ \A t \in Schedulers \ {s} : queued'[t] = queued[t] /\ lag'[t] = lag[t]
      BY <1>1, <1>3, CloseTypes DEF CommitPass
    <2>2. CASE queued[s]
      <3>1. \A t \in Schedulers \ {s} : ~queued[t]
        BY <1>1, <2>2 DEF Inv, OneTick, QueuedPasses
      <3> QED
        BY <2>1, <3>1 DEF QueuedIsDue
    <2>3. CASE ~queued[s]
      <3>1. due' = due
        BY <1>3, <2>3 DEF CommitPass
      <3> QED
        BY <2>1, <3>1 DEF QueuedIsDue
    <2> QED
      BY <2>2, <2>3
  <1>4. ASSUME NEW s \in Schedulers, NEW l \in {"asleep", "down"}, Close(s, l), due' = due
        PROVE  QueuedIsDue'
    <2>1. ~queued'[s] /\ \A t \in Schedulers \ {s} : queued'[t] = queued[t] /\ lag'[t] = lag[t]
      BY <1>1, <1>4, CloseTypes
    <2> QED
      BY <1>4, <2>1 DEF QueuedIsDue
  <1>5. ASSUME NEW s \in Schedulers, Follow(s) \/ FailPass(s) PROVE QueuedIsDue'
    BY <1>4, <1>5 DEF Follow, FailPass
  <1>6. ASSUME NEW s \in Schedulers, Release(s) \/ Crash(s) \/ EndDaemon(s) PROVE QueuedIsDue'
    BY <1>4, <1>6 DEF Release, Crash, EndDaemon, Reset
  <1>7. ASSUME UNCHANGED <<due, lag, queued>> PROVE QueuedIsDue'
    BY <1>7 DEF QueuedIsDue
  <1>8. ASSUME NEW s \in Schedulers, Probe(s) \/ Insert(s) PROVE QueuedIsDue'
    BY <1>5, <1>7, <1>8 DEF Probe, Insert
  <1>9. ASSUME NEW s \in Schedulers,
               Wake(s) \/ Renew(s) \/ Miss(s) \/ Leave(s) \/ Stop(s) \/ Start(s)
        PROVE  QueuedIsDue'
    BY <1>7, <1>9 DEF Wake, Renew, Miss, Leave, Stop, Start
  <1>10. ASSUME NEW s \in Schedulers, Collide(s) PROVE QueuedIsDue'
    <2>1. /\ UNCHANGED <<due, lag>> /\ ~queued'[s]
          /\ \A t \in Schedulers \ {s} : queued'[t] = queued[t]
      BY <1>1, <1>10 DEF Collide, TypeOK
    <2> QED
      BY <2>1 DEF QueuedIsDue
  <1>11. CASE Tick
    <2> SUFFICES ASSUME NEW s \in Schedulers, queued'[s]
                 PROVE  due'.wait + lag'[s] <= 0
      BY DEF QueuedIsDue
    <2>1. queued[s] /\ pc[s] \in InPass
      BY <1>1, <1>11 DEF Tick, QueuedPasses, InPass
    <2>2. due.wait + lag[s] <= 0 /\ due.wait \in Int /\ lag[s] \in 0..MaxLag
      BY <1>1, <2>1, NumbersAssumption DEF QueuedIsDue, TypeOK
    <2>3. lag[s] < MaxLag /\ lag'[s] = lag[s] + 1
      BY <1>1, <1>11, <2>1 DEF Tick
    <2>4. due'.wait = IF due.wait > -MaxLag THEN due.wait - 1 ELSE due.wait
      BY <1>1, <1>11 DEF Tick, TypeOK
    <2> QED
      BY <2>2, <2>3, <2>4, NumbersAssumption
  <1>12. CASE UNCHANGED vars
    BY <1>7, <1>12 DEF vars
  <1> QED
    BY <1>2, <1>3, <1>5, <1>6, <1>8, <1>9, <1>10, <1>11, <1>12 DEF Next, Step

LEMMA LoneInit == Init => Lone!Init
  BY DEF Init, Lone!Init

(* The commit of a pass that has queued serves the due time. *)
LEMMA CommitServes ==
  ASSUME Inv, QueuedIsDue, NEW s \in Schedulers, CommitPass(s), queued[s]
  PROVE  Lone!Next
  <1>1. lag[s] \in 0..MaxLag /\ due.number \in 0..MaxDue /\ due.number < MaxDue
    BY DEF Inv, TypeOK, QueuedPasses
  <1>2. due.number \notin keys
    BY <1>1, NumbersAssumption DEF Inv, QueuedExactlyWhenPast
  <1>3. due.wait + lag[s] <= 0
    BY DEF QueuedIsDue
  <1>4. PICK w \in 1..Period : due' = [number |-> due.number + 1, wait |-> w - lag[s]]
    BY DEF CommitPass
  <1>5. keys' = keys \cup {due.number}
    BY DEF CommitPass
  <1>6. Lone!Serve(lag[s], w)
    BY <1>1, <1>2, <1>3, <1>4, <1>5 DEF Lone!Serve
  <1> QED
    BY <1>1, <1>6 DEF Lone!Next

LEMMA LoneStep ==
  ASSUME Inv, QueuedIsDue, [Next]_vars
  PROVE  [Lone!Next]_(Lone!vars)
  <1>1. ASSUME NEW s \in Schedulers, CommitPass(s) PROVE [Lone!Next]_(Lone!vars)
    <2>1. CASE queued[s]
      BY <1>1, <2>1, CommitServes
    <2>2. CASE ~queued[s]
      BY <1>1, <2>2 DEF CommitPass, Lone!vars
    <2> QED
      BY <2>1, <2>2
  <1>2. CASE Tick
    BY <1>2 DEF Tick, Lone!Next, Lone!TimePasses
  <1>3. ASSUME NEW s \in Schedulers,
               \/ Wake(s) \/ Renew(s) \/ Miss(s) \/ Probe(s) \/ Insert(s)
               \/ EnqueueDue(s) \/ Leave(s) \/ Release(s) \/ Collide(s) \/ FailPass(s)
               \/ Stop(s) \/ EndDaemon(s) \/ Crash(s) \/ Start(s)
        PROVE  UNCHANGED Lone!vars
    BY <1>3 DEF Wake, Renew, Miss, Probe, Insert, Follow, EnqueueDue, Leave, Release, Collide,
                FailPass, Stop, EndDaemon, Crash, Start, Lone!vars
  <1>4. CASE UNCHANGED vars
    BY <1>4 DEF vars, Lone!vars
  <1> QED
    BY <1>1, <1>2, <1>3, <1>4 DEF Next, Step

(* Any number of schedulers, failing, stopping and handing over as they    *)
(* may, implement the one of LoneScheduler: every due time is queued once, *)
(* in turn, and not before it is due by the clock of the pass.             *)
THEOREM LoneRefinement == Spec => ImplementsLoneScheduler
  <1>1. Init => Lone!Init
    BY LoneInit
  <1>2. Inv /\ QueuedIsDue /\ [Next]_vars => QueuedIsDue'
    BY QueuedIsDueStep
  <1>3. Inv /\ QueuedIsDue /\ [Next]_vars => [Lone!Next]_(Lone!vars)
    BY LoneStep
  <1> QED
    BY <1>1, <1>2, <1>3, QueuedIsDueInit, Invariance, PTL
       DEF Spec, ImplementsLoneScheduler, Lone!Spec

-----------------------------------------------------------------------------

(* While nothing has failed, a holder of the lease that shares its process *)
(* with no worker is up, knows that it leads, and is not in the middle of  *)
(* finding out that it does not.                                           *)
HolderKnows ==
    faults = 0 =>
        \A s \in Schedulers \ Daemons :
            lease.holder = s => leader[s] /\ pc[s] \notin {"down", "probe", "insert"}

LEMMA HolderInit == Init => HolderKnows
  BY NamesAssumption DEF Init, HolderKnows, NoLease

LEMMA HolderStep ==
  ASSUME Inv, HolderKnows, [Next]_vars
  PROVE  HolderKnows'
  <1>1. TypeOK /\ WriterEntitled
    BY DEF Inv
  <1>2. ASSUME NEW s \in Schedulers,
               Wake(s) \/ Renew(s) \/ EnqueueDue(s) \/ Leave(s) \/ Start(s) \/ Collide(s) \/ Stop(s)
        PROVE  HolderKnows'
    <2>1. lease' = lease /\ faults' = faults
      BY <1>2 DEF Wake, Renew, EnqueueDue, Leave, Start, Collide, Stop
    <2>2. \A t \in Schedulers : leader[t] => leader'[t]
      BY <1>1, <1>2 DEF Wake, Renew, EnqueueDue, Leave, Start, Collide, Stop, TypeOK
    <2>3. \A t \in Schedulers : pc[t] \notin {"down", "probe", "insert"}
                                  => pc'[t] \notin {"down", "probe", "insert"}
      BY <1>1, <1>2 DEF Wake, Renew, EnqueueDue, Leave, Start, Collide, Stop, Goto, TypeOK
    <2> QED
      BY <2>1, <2>2, <2>3 DEF HolderKnows
  <1>3. ASSUME NEW s \in Schedulers, Miss(s) PROVE HolderKnows'
    <2>1. lease' = lease /\ faults' = faults /\ leader' = leader /\ lease.holder # s
      BY <1>3, NamesAssumption DEF Miss, Matches
    <2>2. \A t \in Schedulers \ {s} : pc'[t] = pc[t]
      BY <1>1, <1>3 DEF Miss, Goto, TypeOK
    <2> QED
      BY <2>1, <2>2 DEF HolderKnows
  <1>4. ASSUME NEW s \in Schedulers, Follow(s), pc[s] \in {"probe", "insert"} PROVE HolderKnows'
    <2>1. lease' = lease /\ faults' = faults
      BY <1>4 DEF Follow
    <2>2. \A t \in Schedulers \ {s} : pc'[t] = pc[t] /\ leader'[t] = leader[t]
      BY <1>1, <1>4 DEF Follow, Close, Goto, TypeOK
    <2> QED
      BY <1>4, <2>1, <2>2 DEF HolderKnows
  <1>5. ASSUME NEW s \in Schedulers, Probe(s) \/ Insert(s) PROVE HolderKnows'
    <2>1. pc[s] \in {"probe", "insert"}
      BY <1>5 DEF Probe, Insert
    <2>2. CASE Follow(s)
      BY <1>4, <2>1, <2>2
    <2>3. CASE ~Follow(s)
      <3>1. lease' = lease /\ faults' = faults /\ lease.holder = NoOne
        BY <1>5, <2>3 DEF Probe, Insert
      <3> QED
        BY <3>1, NamesAssumption DEF HolderKnows
    <2> QED
      BY <2>2, <2>3
  <1>6. ASSUME NEW s \in Schedulers, CommitPass(s) PROVE HolderKnows'
    <2>1. faults' = faults /\ leader' = leader
      BY <1>6 DEF CommitPass
    <2>2. pc'[s] = "asleep" /\ \A t \in Schedulers \ {s} : pc'[t] = pc[t]
      BY <1>1, <1>6 DEF CommitPass, Close, Goto, TypeOK
    <2>3. CASE wrote[s]
      <3>1. lease'.holder = s /\ leader[s]
        BY <1>1, <1>6, <2>3 DEF CommitPass, WriterEntitled
      <3> QED
        BY <2>1, <2>2, <3>1 DEF HolderKnows
    <2>4. CASE ~wrote[s]
      <3>1. lease' = lease
        BY <1>6, <2>4 DEF CommitPass
      <3> QED
        BY <2>1, <2>2, <3>1 DEF HolderKnows
    <2> QED
      BY <2>3, <2>4
  <1>7. ASSUME NEW s \in Schedulers, Release(s) PROVE HolderKnows'
    <2>1. /\ faults' = faults
          /\ \A t \in Schedulers \ {s} : pc'[t] = pc[t] /\ leader'[t] = leader[t]
      BY <1>1, <1>7 DEF Release, Reset, Close, Goto, TypeOK
    <2>2. CASE leader[s] /\ lease.holder = s
      <3>1. lease'.holder = NoOne
        BY <1>7, <2>2 DEF Release, NoLease
      <3> QED
        BY <3>1, NamesAssumption DEF HolderKnows
    <2>3. CASE ~(leader[s] /\ lease.holder = s)
      <3>1. lease' = lease
        BY <1>7, <2>3 DEF Release
      <3>2. s \notin Daemons /\ faults = 0 => lease.holder # s
        BY <2>3 DEF HolderKnows
      <3> QED
        BY <2>1, <3>1, <3>2 DEF HolderKnows
    <2> QED
      BY <2>2, <2>3
  <1>8. ASSUME NEW s \in Schedulers, FailPass(s) \/ Crash(s) PROVE HolderKnows'
    <2>1. faults' # 0
      BY <1>1, <1>8 DEF FailPass, Crash, TypeOK
    <2> QED
      BY <2>1 DEF HolderKnows
  <1>9. ASSUME NEW s \in Schedulers, EndDaemon(s) PROVE HolderKnows'
    <2>1. lease' = lease /\ faults' = faults /\ s \in Daemons
      BY <1>9 DEF EndDaemon
    <2>2. \A t \in Schedulers \ {s} : pc'[t] = pc[t] /\ leader'[t] = leader[t]
      BY <1>1, <1>9 DEF EndDaemon, Reset, Close, Goto, TypeOK
    <2> QED
      BY <2>1, <2>2 DEF HolderKnows
  <1>10. CASE Tick
    <2>1. lease'.holder = lease.holder /\ UNCHANGED <<faults, leader, pc>>
      BY <1>1, <1>10 DEF Tick, TypeOK
    <2> QED
      BY <2>1 DEF HolderKnows
  <1>11. CASE UNCHANGED vars
    BY <1>11 DEF vars, HolderKnows
  <1> QED
    BY <1>2, <1>3, <1>5, <1>6, <1>7, <1>8, <1>9, <1>10, <1>11 DEF Next, Step

(* A scheduler that has a process to itself hands its lease back whenever  *)
(* it is told to stop.                                                     *)
THEOREM CleanHandover == Spec => []CleanExitReleases
  <1>1. HolderKnows => CleanExitReleases
    BY DEF HolderKnows, CleanExitReleases
  <1>2. Inv /\ HolderKnows /\ [Next]_vars => HolderKnows'
    BY HolderStep
  <1> QED
    BY <1>1, <1>2, HolderInit, Invariance, PTL DEF Spec
=============================================================================

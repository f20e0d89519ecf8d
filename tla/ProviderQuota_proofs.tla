------------------------- MODULE ProviderQuota_proofs -------------------------
(***************************************************************************)
(* Proofs about ProviderQuota for any set of jobs, any limit, any length   *)
(* of day and any hour at which the provider's own day starts.             *)
(***************************************************************************)
EXTENDS ProviderQuota, FiniteSetTheorems, TLAPS

(* Quotients grow with the dividend. *)
LEMMA DivMonotone ==
  ASSUME NEW n \in Nat \ {0}, NEW a \in Nat, NEW b \in Nat, a <= b
  PROVE  a \div n \in 0..(b \div n)
  <1> DEFINE p == a \div n
             q == b \div n
  <1>1. p \in Nat /\ q \in Nat
    OBVIOUS
  <1>2. n * p <= a /\ b < n * (q + 1)
    OBVIOUS
  <1> HIDE DEF p, q
  <1>3. SUFFICES ASSUME q + 1 <= p PROVE FALSE
    BY <1>1 DEF p, q
  <1>4. n * (q + 1) <= n * p
    BY <1>1, <1>3
  <1> QED
    BY <1>1, <1>2, <1>4

(* Every instant falls on a day that has a place in the tables. *)
LEMMA DayTypes ==
  ASSUME NEW t \in 0..MaxNow
  PROVE  /\ Day(t) \in Days
         /\ NextReset(t) \in Nat
  <1>1. /\ DayLength \in Nat \ {0}
        /\ MaxNow \in Nat /\ t \in Nat /\ t <= MaxNow
    BY NumbersAssumption
  <1>2. Day(t) \in Days
    BY <1>1, DivMonotone DEF Day, Days
  <1>3. NextReset(t) \in Nat
    BY <1>1, <1>2 DEF NextReset, Days
  <1> QED
    BY <1>2, <1>3

LEMMA TypeInit == Init => TypeOK
  <1> SUFFICES ASSUME Init PROVE TypeOK
    OBVIOUS
  <1>1. 0 \in 0..MaxNow /\ 0 \in Days /\ 0 \in 0..MaxMishaps
    <2>1. 0 \in 0..MaxNow /\ 0 \in 0..MaxMishaps
      BY NumbersAssumption
    <2>2. Day(0) = 0
      BY NumbersAssumption DEF Day
    <2> QED
      BY <2>1, <2>2, DayTypes
  <1> QED
    BY <1>1 DEF Init, TypeOK, Busy, Reserving

LEMMA TypeStep == TypeOK /\ [Next]_vars => TypeOK'
  <1> SUFFICES ASSUME TypeOK, [Next]_vars PROVE TypeOK'
    OBVIOUS
  <1> USE DEF TypeOK, Busy, Reserving
  <1>1. ASSUME NEW j \in Jobs, Begin(j) PROVE TypeOK'
    BY <1>1, DayTypes DEF Begin, Goto
  <1>2. ASSUME NEW j \in Jobs, Update(j) PROVE TypeOK'
    BY <1>2 DEF Update, Increment, Goto
  <1>3. ASSUME NEW j \in Jobs, Get(j) PROVE TypeOK'
    BY <1>3 DEF Get, Goto
  <1>4. ASSUME NEW j \in Jobs, Insert(j) PROVE TypeOK'
    BY <1>4 DEF Insert, Goto
  <1>5. ASSUME NEW j \in Jobs, Retry(j) PROVE TypeOK'
    BY <1>5 DEF Retry, Increment, Goto
  <1>6. ASSUME NEW j \in Jobs, Commit(j) PROVE TypeOK'
    BY <1>6 DEF Commit, Goto
  <1>7. ASSUME NEW j \in Jobs, Request(j) PROVE TypeOK'
    <2>1. now \in Nat
      OBVIOUS
    <2>2. mishaps' \in 0..MaxMishaps
      BY <1>7, NumbersAssumption DEF Request
    <2>3. calls' \in [Days -> Nat]
      BY <1>7 DEF Request
    <2>4. due' \in [Jobs -> Nat] /\ UNCHANGED <<now, used, day, pending>>
      BY <1>7, <2>1 DEF Request
    <2>5. /\ pc' \in [Jobs -> Busy \cup {"waiting", "done"}]
          /\ \A k \in Jobs : pc'[k] = "commit" <=> pc[k] = "commit"
      BY <1>7 DEF Request, Goto
    <2> QED
      BY <2>2, <2>3, <2>4, <2>5
  <1>8. ASSUME NEW j \in Jobs, Defer(j) PROVE TypeOK'
    BY <1>8, DayTypes DEF Defer, Goto
  <1>9. ASSUME NEW j \in Jobs, Abort(j) PROVE TypeOK'
    BY <1>9, NumbersAssumption DEF Abort, Goto
  <1>10. CASE Tick
    BY <1>10, NumbersAssumption DEF Tick
  <1>11. CASE UNCHANGED vars
    BY <1>11 DEF vars
  <1> QED
    BY <1>1, <1>2, <1>3, <1>4, <1>5, <1>6, <1>7, <1>8, <1>9, <1>10, <1>11 DEF Next

(* Types are kept, whatever the order of the statements. *)
THEOREM TypeCorrect == Spec => []TypeOK
  BY TypeInit, TypeStep, PTL DEF Spec

-----------------------------------------------------------------------------
(* The allowance *)

(* An open transaction still has the room it checked for, and is the only  *)
(* one to have written to its day's row.                                   *)
Guarded ==
    /\ \A j \in Jobs :
        /\ pending[j] = "increment" => used[day[j]] > 0 /\ (Limit > 0 => used[day[j]] <= Limit - 1)
        /\ pending[j] = "insert" => used[day[j]] = 0
    /\ \A j, k \in Jobs :
        pending[j] # "none" /\ pending[k] # "none" /\ day[j] = day[k] => j = k

AllowanceInv == TypeOK /\ WithinAllowance /\ Guarded

LEMMA AllowanceInit == Init => AllowanceInv
  BY TypeInit, NumbersAssumption DEF AllowanceInv, Init, WithinAllowance, Guarded

(* A job that touches neither the table nor its own transaction. *)
LEMMA GuardedKept ==
  ASSUME Guarded, NEW j \in Jobs, used' = used, TypeOK, TypeOK',
         pending'[j] = "none",
         \A k \in Jobs \ {j} : pending'[k] = pending[k] /\ day'[k] = day[k]
  PROVE  Guarded'
  BY DEF Guarded

(* A job whose statement has just written, the row being free. *)
LEMMA GuardedOpened ==
  ASSUME Guarded, NEW j \in Jobs, TypeOK, UNCHANGED <<used, day>>,
         NEW p \in {"increment", "insert"}, pending' = [pending EXCEPT ![j] = p],
         ~Locked(day[j]),
         p = "increment" => used[day[j]] > 0 /\ (Limit > 0 => used[day[j]] <= Limit - 1),
         p = "insert" => used[day[j]] = 0
  PROVE  Guarded'
  <1>1. \A k \in Jobs : pending'[k] = IF k = j THEN p ELSE pending[k]
    BY DEF TypeOK
  <1> QED
    BY <1>1 DEF Guarded, Locked

LEMMA AllowanceStep == AllowanceInv /\ [Next]_vars => AllowanceInv'
  <1> SUFFICES ASSUME AllowanceInv, [Next]_vars PROVE AllowanceInv'
    OBVIOUS
  <1>1. TypeOK /\ TypeOK' /\ WithinAllowance /\ Guarded
    BY TypeStep DEF AllowanceInv
  <1>2. SUFFICES WithinAllowance' /\ Guarded'
    BY <1>1 DEF AllowanceInv
  <1>3. ASSUME NEW j \in Jobs, Begin(j) \/ Get(j) \/ Request(j) \/ Defer(j) \/ Abort(j)
        PROVE  WithinAllowance' /\ Guarded'
    <2>1. used' = used
      BY <1>3 DEF Begin, Get, Request, Defer, Abort
    <2>2. pending'[j] = "none"
      BY <1>1, <1>3 DEF Begin, Get, Request, Defer, Abort, TypeOK
    <2>3. \A k \in Jobs \ {j} : pending'[k] = pending[k] /\ day'[k] = day[k]
      BY <1>1, <1>3 DEF Begin, Get, Request, Defer, Abort, TypeOK
    <2> QED
      BY <1>1, <2>1, <2>2, <2>3, GuardedKept DEF WithinAllowance
  <1>4. ASSUME NEW j \in Jobs, Increment(j), UNCHANGED <<used, day>>
        PROVE  Guarded'
    <2>1. /\ pending' = [pending EXCEPT ![j] = "increment"] /\ ~Locked(day[j])
          /\ used[day[j]] > 0 /\ (Limit > 0 => used[day[j]] <= Limit - 1)
      BY <1>4 DEF Increment, Fits, Unlimited
    <2> QED
      BY <1>1, <1>4, <2>1, GuardedOpened
  <1>5. ASSUME NEW j \in Jobs, Update(j) \/ Insert(j) \/ Retry(j)
        PROVE  WithinAllowance' /\ Guarded'
    <2>1. UNCHANGED <<used, day>>
      BY <1>5 DEF Update, Insert, Retry
    <2>2. SUFFICES Guarded'
      BY <1>1, <2>1 DEF WithinAllowance
    <2>3. CASE pending' = pending
      BY <1>1, <2>1, <2>3 DEF Guarded
    <2>4. CASE Increment(j)
      BY <1>4, <2>1, <2>4
    <2>5. CASE pending' = [pending EXCEPT ![j] = "insert"] /\ ~Locked(day[j]) /\ used[day[j]] = 0
      BY <1>1, <2>1, <2>5, GuardedOpened
    <2> QED
      BY <1>5, <2>3, <2>4, <2>5 DEF Update, Insert, Retry
  <1>6. ASSUME NEW j \in Jobs, Commit(j)
        PROVE  WithinAllowance' /\ Guarded'
    <2>1. pending[j] # "none" /\ pending[j] \in {"increment", "insert"} /\ day[j] \in Days
      BY <1>1, <1>6 DEF TypeOK, Commit
    <2>2. \A d \in Days : used'[d] = IF d = day[j] THEN used[d] + 1 ELSE used[d]
      BY <1>1, <1>6, <2>1 DEF TypeOK, Commit
    <2>3. day' = day /\ \A k \in Jobs : pending'[k] = IF k = j THEN "none" ELSE pending[k]
      BY <1>1, <1>6 DEF TypeOK, Commit
    <2>4. Limit > 0 => used[day[j]] + 1 <= Limit
      BY <1>1, <2>1, NumbersAssumption DEF Guarded, TypeOK
    <2>5. WithinAllowance'
      BY <1>1, <2>2, <2>4 DEF WithinAllowance
    <2>6. \A k \in Jobs : pending'[k] # "none" => k # j /\ day[k] # day[j] /\ day[k] \in Days
      BY <1>1, <2>1, <2>3 DEF Guarded, TypeOK
    <2>7. \A k \in Jobs : pending'[k] # "none" => used'[day[k]] = used[day[k]]
      BY <2>2, <2>6
    <2> QED
      BY <1>1, <2>3, <2>5, <2>6, <2>7 DEF Guarded
  <1>7. CASE Tick \/ UNCHANGED vars
    BY <1>1, <1>7 DEF Tick, vars, WithinAllowance, Guarded
  <1> QED
    BY <1>3, <1>5, <1>6, <1>7 DEF Next

(* No interleaving of reservations exceeds a day's allowance: the room a   *)
(* statement found is still there when its transaction commits.            *)
THEOREM AllowanceRespected == Spec => []WithinAllowance
  <1>1. AllowanceInv => WithinAllowance
    BY DEF AllowanceInv
  <1> QED
    BY <1>1, AllowanceInit, AllowanceStep, PTL DEF Spec

-----------------------------------------------------------------------------
(* The record *)

LEMMA RecordStep == TypeOK /\ SpendOnRecord /\ [Next]_vars => SpendOnRecord'
  <1> SUFFICES ASSUME TypeOK, SpendOnRecord, [Next]_vars, NEW d \in Days
               PROVE  calls'[d] + Cardinality(Calling(d)') <= used'[d]
    BY DEF SpendOnRecord
  <1>1. /\ calls[d] + Cardinality(Calling(d)) <= used[d]
        /\ calls[d] \in Nat /\ used[d] \in Nat
    BY DEF SpendOnRecord, TypeOK
  <1>2. IsFiniteSet(Calling(d)) /\ Cardinality(Calling(d)) \in Nat
    BY JobsAssumption, FS_Subset, FS_CardinalityType DEF Calling
  <1>3. ASSUME NEW j \in Jobs, Commit(j)
        PROVE  calls'[d] + Cardinality(Calling(d)') <= used'[d]
    <2>1. calls' = calls /\ pending[j] # "none" /\ pc[j] = "commit"
      BY <1>3 DEF Commit, TypeOK
    <2>2. CASE day[j] = d
      <3>1. Calling(d)' = Calling(d) \cup {j} /\ j \notin Calling(d)
        BY <1>3, <2>2 DEF Commit, Goto, Calling, TypeOK
      <3>2. Cardinality(Calling(d)') = Cardinality(Calling(d)) + 1
        BY <1>2, <3>1, FS_AddElement
      <3>3. used'[d] = used[d] + 1
        BY <1>3, <2>1, <2>2 DEF Commit, TypeOK
      <3> QED
        BY <1>1, <1>2, <2>1, <3>2, <3>3
    <2>3. CASE day[j] # d
      <3>1. Calling(d)' = Calling(d)
        BY <1>3, <2>3 DEF Commit, Goto, Calling, TypeOK
      <3>2. used'[d] = used[d]
        BY <1>3, <2>3 DEF Commit, TypeOK
      <3> QED
        BY <1>1, <2>1, <3>1, <3>2
    <2> QED
      BY <2>2, <2>3
  <1>4. ASSUME NEW j \in Jobs, Request(j) \/ Abort(j), j \in Calling(d)
        PROVE  calls'[d] + Cardinality(Calling(d)') <= used'[d]
    <2>1. Calling(d)' = Calling(d) \ {j}
      BY <1>4 DEF Request, Abort, Goto, Calling, TypeOK
    <2>2. Cardinality(Calling(d)') = Cardinality(Calling(d)) - 1
      BY <1>2, <1>4, <2>1, FS_RemoveElement
    <2>3. used' = used /\ calls'[d] \in Nat /\ calls'[d] <= calls[d] + 1
      BY <1>1, <1>4 DEF Request, Abort, Calling, TypeOK
    <2> QED
      BY <1>1, <1>2, <2>2, <2>3
  <1>5. ASSUME NEW j \in Jobs, Request(j) \/ Abort(j), j \notin Calling(d)
        PROVE  calls'[d] + Cardinality(Calling(d)') <= used'[d]
    <2>1. Calling(d)' = Calling(d)
      BY <1>5 DEF Request, Abort, Goto, Calling, TypeOK
    <2>2. used' = used /\ calls'[d] = calls[d]
      BY <1>5 DEF Request, Abort, Calling, TypeOK
    <2> QED
      BY <1>1, <2>1, <2>2
  <1>6. ASSUME NEW j \in Jobs,
               Begin(j) \/ Update(j) \/ Get(j) \/ Insert(j) \/ Retry(j) \/ Defer(j)
        PROVE  calls'[d] + Cardinality(Calling(d)') <= used'[d]
    <2>1. UNCHANGED <<used, calls>>
      BY <1>6 DEF Begin, Update, Get, Insert, Retry, Defer
    <2>2. /\ pc[j] # "calling" /\ pc'[j] # "calling"
          /\ \A k \in Jobs \ {j} : pc'[k] = pc[k] /\ day'[k] = day[k]
      BY <1>6 DEF Begin, Update, Get, Insert, Retry, Defer, Increment, Goto, TypeOK
    <2>3. Calling(d)' = Calling(d)
      BY <2>2 DEF Calling
    <2> QED
      BY <1>1, <2>1, <2>3
  <1>7. CASE Tick \/ UNCHANGED vars
    BY <1>1, <1>7 DEF Tick, vars, Calling
  <1> QED
    BY <1>3, <1>4, <1>5, <1>6, <1>7 DEF Next

LEMMA RecordInit == Init => SpendOnRecord
  <1> SUFFICES ASSUME Init, NEW d \in Days PROVE calls[d] + Cardinality(Calling(d)) <= used[d]
    BY DEF SpendOnRecord
  <1>1. Calling(d) = {}
    BY DEF Init, Calling
  <1>2. Cardinality(Calling(d)) = 0
    BY <1>1, FS_EmptySet
  <1> QED
    BY <1>2 DEF Init

(* No request goes out that the table does not already hold, crashes,      *)
(* retries and lost races included.                                        *)
THEOREM SpendRecorded == Spec => []SpendOnRecord
  BY TypeCorrect, RecordInit, RecordStep, PTL DEF Spec

-----------------------------------------------------------------------------
(* The allowance that is checked and counted in one step *)

LEMMA AllowanceRefinedInit == Init => Allowance!Init
  BY DEF Init, Allowance!Init, Holding

(* A step that grants, calls or wastes nothing is invisible. *)
LEMMA AllowanceStutter ==
  ASSUME UNCHANGED <<used, calls>>, \A j \in Jobs : Holding(j)' = Holding(j)
  PROVE  UNCHANGED Allowance!vars
  BY DEF Allowance!vars

(* A commit grants: the room its statement found is still there. *)
LEMMA CommitGrants ==
  ASSUME AllowanceInv, NEW j \in Jobs, Commit(j)
  PROVE  Allowance!Grant(j, day[j])
  <1>1. TypeOK /\ Guarded
    BY DEF AllowanceInv
  <1>2. Holding(j) = -1
    BY DEF Commit, Holding
  <1>3. Limit = 0 \/ used[day[j]] < Limit
    <2>1. pending[j] \in {"increment", "insert"} /\ day[j] \in Days
      BY <1>1 DEF TypeOK, Commit
    <2> QED
      BY <1>1, <2>1, NumbersAssumption DEF Guarded, TypeOK
  <1>4. \A k \in Jobs : Holding(k)' = IF k = j THEN day[j] ELSE Holding(k)
    BY <1>1 DEF Commit, Goto, Holding, TypeOK
  <1>5. [k \in Jobs |-> Holding(k)]' = [[k \in Jobs |-> Holding(k)] EXCEPT ![j] = day[j]]
    BY <1>4
  <1>6. used' = [used EXCEPT ![day[j]] = @ + 1] /\ calls' = calls
    BY DEF Commit
  <1> QED
    BY <1>2, <1>3, <1>5, <1>6 DEF Allowance!Grant

(* A request spends the grant of its own job, on the day of the grant. *)
LEMMA RequestCalls ==
  ASSUME TypeOK, NEW j \in Jobs, Request(j)
  PROVE  Allowance!Call(j)
  <1>1. Holding(j) = day[j] /\ day[j] \in Days
    BY DEF Request, Holding, TypeOK
  <1>2. \A k \in Jobs : Holding(k)' = IF k = j THEN -1 ELSE Holding(k)
    BY DEF Request, Goto, Holding, TypeOK
  <1>3. [k \in Jobs |-> Holding(k)]' = [[k \in Jobs |-> Holding(k)] EXCEPT ![j] = -1]
    BY <1>2
  <1>4. calls' = [calls EXCEPT ![day[j]] = @ + 1] /\ used' = used
    BY DEF Request
  <1> QED
    BY <1>1, <1>3, <1>4 DEF Allowance!Call

LEMMA AbortWastes ==
  ASSUME TypeOK, NEW j \in Jobs, Abort(j)
  PROVE  Allowance!Waste(j) \/ UNCHANGED Allowance!vars
  <1>1. /\ UNCHANGED <<used, calls>>
        /\ \A k \in Jobs : Holding(k)' = IF k = j THEN -1 ELSE Holding(k)
    BY DEF Abort, Goto, Holding, TypeOK
  <1>2. CASE pc[j] = "calling"
    <2>1. Holding(j) = day[j] /\ day[j] \in Days
      BY <1>2 DEF Holding, TypeOK
    <2>2. [k \in Jobs |-> Holding(k)]' = [[k \in Jobs |-> Holding(k)] EXCEPT ![j] = -1]
      BY <1>1
    <2> QED
      BY <1>1, <2>1, <2>2 DEF Allowance!Waste
  <1>3. CASE pc[j] # "calling"
    <2>1. \A k \in Jobs : Holding(k)' = Holding(k)
      BY <1>1, <1>3 DEF Holding
    <2> QED
      BY <1>1, <2>1, AllowanceStutter
  <1> QED
    BY <1>2, <1>3

LEMMA AllowanceRefinedStep ==
  AllowanceInv /\ [Next]_vars => [Allowance!Next]_(Allowance!vars)
  <1> SUFFICES ASSUME AllowanceInv, [Next]_vars
               PROVE  [Allowance!Next]_(Allowance!vars)
    OBVIOUS
  <1>1. TypeOK
    BY DEF AllowanceInv
  <1>2. ASSUME NEW j \in Jobs, Commit(j) PROVE Allowance!Next
    <2>1. day[j] \in Days
      BY <1>1 DEF TypeOK
    <2> QED
      BY <1>2, <2>1, CommitGrants DEF Allowance!Next
  <1>3. ASSUME NEW j \in Jobs, Request(j) PROVE Allowance!Next
    BY <1>1, <1>3, RequestCalls DEF Allowance!Next
  <1>4. ASSUME NEW j \in Jobs, Abort(j) PROVE [Allowance!Next]_(Allowance!vars)
    BY <1>1, <1>4, AbortWastes DEF Allowance!Next
  <1>5. ASSUME NEW j \in Jobs,
               Begin(j) \/ Update(j) \/ Get(j) \/ Insert(j) \/ Retry(j) \/ Defer(j)
        PROVE  UNCHANGED Allowance!vars
    <2>1. UNCHANGED <<used, calls>>
      BY <1>5 DEF Begin, Update, Get, Insert, Retry, Defer
    <2>2. /\ pc[j] # "calling" /\ pc'[j] # "calling"
          /\ \A k \in Jobs \ {j} : pc'[k] = pc[k] /\ day'[k] = day[k]
      BY <1>1, <1>5 DEF Begin, Update, Get, Insert, Retry, Defer, Increment, Goto, TypeOK
    <2>3. \A k \in Jobs : Holding(k)' = Holding(k)
      BY <2>2 DEF Holding
    <2> QED
      BY <2>1, <2>3, AllowanceStutter
  <1>6. CASE Tick \/ UNCHANGED vars
    <2>1. UNCHANGED <<used, calls, pc, day>>
      BY <1>6 DEF Tick, vars
    <2>2. \A k \in Jobs : Holding(k)' = Holding(k)
      BY <2>1 DEF Holding
    <2> QED
      BY <2>1, <2>2, AllowanceStutter
  <1> QED
    BY <1>2, <1>3, <1>4, <1>5, <1>6 DEF Next

(* The statements of all the reservations, with their lost races, crashes  *)
(* and failures, implement the allowance of DailyAllowance, whose grant is *)
(* one step: each request the provider sees has a grant of its own, made   *)
(* on a day that still had room.                                           *)
THEOREM AllowanceRefinement == Spec => ImplementsAllowance
  <1>1. Init => Allowance!Init
    BY AllowanceRefinedInit
  <1>2. AllowanceInv /\ [Next]_vars => [Allowance!Next]_(Allowance!vars)
    BY AllowanceRefinedStep
  <1> QED
    BY <1>1, <1>2, AllowanceInit, AllowanceStep, PTL DEF Spec, ImplementsAllowance, Allowance!Spec
=============================================================================

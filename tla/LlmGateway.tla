----------------------------- MODULE LlmGateway -----------------------------
(***************************************************************************)
(* One question to a language model: AgentRunner.run (agents/base.py) asks *)
(* the gateway (llm/gateway.py), which walks the router's fallback chain   *)
(* (llm/router.py) under a circuit breaker, a rate limiter and a retry     *)
(* policy (llm/resilience.py), and asks once more, with the correction,    *)
(* when the answer does not validate.  In an analysis a triage of what was  *)
(* last scanned (agents/triage.py) caps the tier the agents ask.           *)
(*                                                                         *)
(* A gateway is built anew by every job and every request (build_gateway), *)
(* so its limiters and breakers die with it; NewGateway is that.  Within   *)
(* one gateway calls are sequential.  Moments are kept as ages, counted up *)
(* to the interval that matters, so that time needs no bound.              *)
(***************************************************************************)
EXTENDS Integers, Sequences

CONSTANTS
    Providers,
    Priority,       \* [Providers -> Nat], distinct: configuration order breaks ties
    SelfHosted,     \* providers on infrastructure the operator controls
    Handles,        \* [Providers -> SUBSET Complexities]
    PerWindow,      \* requests_per_minute
    Window,         \* window_seconds
    Threshold,      \* circuit_failure_threshold
    ResetTime,      \* circuit_reset_timeout
    MaxAttempts,    \* RetryPolicy.max_attempts
    BackoffCap,     \* RetryPolicy.max_delay, its base delay being 1
    MaxAsks         \* AgentRunner's max_validation_retries + 1

Complexities == {"light", "standard", "complex"}

ASSUME GatewayAssumption ==
    /\ Priority \in [Providers -> Nat]
    /\ \A p, q \in Providers : Priority[p] = Priority[q] => p = q
    /\ SelfHosted \subseteq Providers /\ Handles \in [Providers -> SUBSET Complexities]
    /\ PerWindow \in Nat \ {0} /\ Window \in Nat
    /\ Threshold \in Nat \ {0} /\ ResetTime \in Nat
    /\ MaxAttempts \in Nat \ {0} /\ BackoffCap \in Nat /\ MaxAsks \in Nat \ {0}

Rank == [light |-> 1, standard |-> 2, complex |-> 3]

VARIABLES
    hits,       \* per provider, the ages of the limiter's hits, oldest first
    circuit,    \* per provider: the breaker
    call,       \* the question being asked
    requests,   \* per provider, the ages of the last requests sent, by any gateway
    lastFailed  \* per provider: calls failed in a row, and the age of the last

gatewayVars == <<hits, circuit, call, requests, lastFailed>>

Closed == [state |-> "closed", failures |-> 0, age |-> 0]
NoCall == [phase |-> "idle", chain |-> {}, sensitive |-> FALSE, complexity |-> "light",
           attempt |-> 0, wait |-> 0, asks |-> 0]

GatewayInit ==
    /\ hits = [p \in Providers |-> <<>>]
    /\ circuit = [p \in Providers |-> Closed]
    /\ call = NoCall
    /\ requests = [p \in Providers |-> <<>>]
    /\ lastFailed = [p \in Providers |-> [times |-> 0, age |-> 0]]

-----------------------------------------------------------------------------
(* Routing *)

CanServe(p, complexity, sensitive) ==
    complexity \in Handles[p] /\ (sensitive => p \in SelfHosted)

(* The eligible bindings; the chain is walked in the order of priority, so *)
(* what is left of it says where the walk is.                              *)
Chain(complexity, sensitive) == {p \in Providers : CanServe(p, complexity, sensitive)}

(* What the newest scan of an issuer says, if there is one: how many       *)
(* criteria matched (three are as good as more), and two readings of the   *)
(* last session, false when they could not be taken.                       *)
BusyCriteria == 3
Unscanned == [scanned |-> FALSE, matched |-> 0, wideRange |-> FALSE, highVolume |-> FALSE]
Scans == {Unscanned} \cup [scanned : {TRUE}, matched : 0..BusyCriteria,
                           wideRange : BOOLEAN, highVolume : BOOLEAN]

(* In tenths. *)
Score(scan) ==
    (IF scan.matched >= BusyCriteria THEN 5 ELSE 2 * scan.matched)
    + (IF scan.wideRange THEN 3 ELSE 0) + (IF scan.highVolume THEN 2 ELSE 0)

(* triage_for: of an issuer nobody scanned nothing is known, which is not  *)
(* to say that nothing happens.                                            *)
Depth(requested, scan) ==
    IF requested \/ Score(scan) >= 5 THEN "full"
    ELSE IF ~scan.scanned \/ Score(scan) > 0 THEN "standard" ELSE "light"

Cap(depth) == IF depth = "light" THEN "light" ELSE "complex"
Caps == {Cap(Depth(requested, scan)) : requested \in BOOLEAN, scan \in Scans}

(* AgentRunner._tier: the cap only ever lowers. *)
Tier(complexity, cap) == IF Rank[cap] < Rank[complexity] THEN cap ELSE complexity

Current == CHOOSE p \in call.chain : \A q \in call.chain : Priority[p] <= Priority[q]

(* The gateway's side of one question ends: "served" or "unserved". *)
Restart(phase) == [call EXCEPT !.phase = phase, !.attempt = 0, !.wait = 0]

(* The next provider of the chain, or AllProvidersFailedError. *)
MoveOn == call' = [Restart("routing") EXCEPT !.chain = @ \ {Current}]

-----------------------------------------------------------------------------
(* The runner *)

(* A job or a request builds its own gateway. *)
NewGateway ==
    /\ call.phase = "idle"
    /\ hits' = [p \in Providers |-> <<>>]
    /\ circuit' = [p \in Providers |-> Closed]
    /\ lastFailed' = [p \in Providers |-> [times |-> 0, age |-> 0]]
    /\ UNCHANGED <<call, requests>>

(* An agent of some tier runs, under triage's cap and the user's privacy.  *)
(* With no eligible provider the question is refused (NoEligible).         *)
Ask ==
    /\ call.phase = "idle"
    /\ \E c \in Complexities, cap \in Caps, s \in BOOLEAN :
         LET chain == Chain(Tier(c, cap), s) IN
         /\ chain # {}
         /\ call' = [NoCall EXCEPT !.phase = "routing", !.chain = chain, !.asks = 1,
                                   !.sensitive = s, !.complexity = Tier(c, cap)]
    /\ UNCHANGED <<hits, circuit, requests, lastFailed>>

(* The answer validates. *)
Accepted ==
    /\ call.phase = "served" /\ call' = NoCall
    /\ UNCHANGED <<hits, circuit, requests, lastFailed>>

(* It does not: the question is asked again with what was wrong, from the  *)
(* head of the chain, until the asks are used up.                          *)
Correct ==
    /\ call.phase = "served"
    /\ call' = IF call.asks < MaxAsks
               THEN [Restart("routing") EXCEPT !.asks = @ + 1,
                                               !.chain = Chain(call.complexity, call.sensitive)]
               ELSE NoCall
    /\ UNCHANGED <<hits, circuit, requests, lastFailed>>

-----------------------------------------------------------------------------
(* The gateway *)

AllFailed ==
    /\ call.phase = "routing" /\ call.chain = {}
    /\ call' = NoCall
    /\ UNCHANGED <<hits, circuit, requests, lastFailed>>

StillOpen(p) == circuit[p].state = "open" /\ circuit[p].age < ResetTime

Skip ==
    /\ call.phase = "routing" /\ call.chain # {} /\ StillOpen(Current)
    /\ MoveOn
    /\ UNCHANGED <<hits, circuit, requests, lastFailed>>

(* An open circuit whose time is up is half open from here on. *)
Admit ==
    /\ call.phase = "routing" /\ call.chain # {} /\ ~StillOpen(Current)
    /\ call' = [call EXCEPT !.phase = "acquiring"]
    /\ circuit' = [circuit EXCEPT ![Current].state = IF @ = "open" THEN "half" ELSE @]
    /\ UNCHANGED <<hits, requests, lastFailed>>

(* A slot of the window, taken once for all attempts of the call.          *)
Acquire ==
    /\ call.phase = "acquiring" /\ Len(hits[Current]) < PerWindow
    /\ hits' = [hits EXCEPT ![Current] = Append(@, 0)]
    /\ call' = [call EXCEPT !.phase = "calling", !.attempt = 1]
    /\ UNCHANGED <<circuit, requests, lastFailed>>

(* One more than the window holds is kept: enough to see it exceeded. *)
Sent(p) == [requests EXCEPT ![p] =
              IF Len(@) > PerWindow THEN Append(Tail(@), 0) ELSE Append(@, 0)]

RecordSuccess(p) ==
    /\ circuit' = [circuit EXCEPT ![p] = Closed]
    /\ lastFailed' = [lastFailed EXCEPT ![p] = [times |-> 0, age |-> 0]]

(* Mutant: a failed trial leaves the circuit half open. *)
RecordFailureHalf(p) ==
    /\ circuit' = [circuit EXCEPT ![p] =
         IF @.state = "half" THEN @
         ELSE IF @.failures + 1 >= Threshold
              THEN [state |-> "open", failures |-> @.failures + 1, age |-> 0]
              ELSE [@ EXCEPT !.failures = @ + 1]]
    /\ lastFailed' = [lastFailed EXCEPT ![p] =
         [times |-> IF @.times < Threshold THEN @.times + 1 ELSE @.times, age |-> 0]]

(* A failed trial opens the circuit again at once.                         *)
AfterFailure(breaker) ==
    IF breaker.state = "half" THEN [breaker EXCEPT !.state = "open", !.age = 0]
    ELSE IF breaker.failures + 1 >= Threshold
         THEN [state |-> "open", failures |-> breaker.failures + 1, age |-> 0]
         ELSE [breaker EXCEPT !.failures = @ + 1]

RecordFailure(p) ==
    /\ circuit' = [circuit EXCEPT ![p] = AfterFailure(@)]
    /\ lastFailed' = [lastFailed EXCEPT ![p] =
         [times |-> IF @.times < Threshold THEN @.times + 1 ELSE @.times, age |-> 0]]

Answered ==
    /\ call.phase = "calling"
    /\ requests' = Sent(Current)
    /\ RecordSuccess(Current)
    /\ call' = Restart("served")
    /\ UNCHANGED hits

(* RetryPolicy.delay_for, without its jitter. *)
Backoff(attempt) == IF 2^(attempt - 1) \in 0..BackoffCap THEN 2^(attempt - 1) ELSE BackoffCap

(* A transient failure with attempts left: the call sleeps. *)
Retry ==
    /\ call.phase = "calling" /\ call.attempt < MaxAttempts
    /\ requests' = Sent(Current)
    /\ call' = [call EXCEPT !.phase = "backoff", !.wait = Backoff(call.attempt)]
    /\ UNCHANGED <<hits, circuit, lastFailed>>

(* Mutant: the attempt is not counted. *)
AgainUncounted ==
    /\ call.phase = "backoff" /\ call.wait = 0
    /\ call' = [call EXCEPT !.phase = "calling"]
    /\ UNCHANGED <<hits, circuit, requests, lastFailed>>

Again ==
    /\ call.phase = "backoff" /\ call.wait = 0
    /\ call' = [call EXCEPT !.phase = "calling", !.attempt = @ + 1]
    /\ UNCHANGED <<hits, circuit, requests, lastFailed>>

(* A permanent failure, or the last transient one: the next provider.      *)
GiveUp ==
    /\ call.phase = "calling"
    /\ requests' = Sent(Current)
    /\ RecordFailure(Current)
    /\ MoveOn
    /\ UNCHANGED hits

(* A body that is no JSON raises past the gateway: no breaker hears of it. *)
Escape ==
    /\ call.phase = "calling"
    /\ requests' = Sent(Current)
    /\ call' = NoCall
    /\ UNCHANGED <<hits, circuit, lastFailed>>

-----------------------------------------------------------------------------
(* Time *)

(* Mutant: hits are never pruned. *)
OlderUnpruned(ages) == [i \in 1..Len(ages) |-> IF ages[i] < Window THEN ages[i] + 1 ELSE Window]

(* RateLimiter._prune at every unit: an age of Window is out of it.        *)
Older(ages) == SelectSeq([i \in 1..Len(ages) |-> ages[i] + 1], LAMBDA a : a < Window)

UpTo(bound, n) == IF n < bound THEN n + 1 ELSE n

GatewayTick ==
    /\ hits' = [p \in Providers |-> Older(hits[p])]
    /\ requests' = [p \in Providers |->
                      SelectSeq([i \in 1..Len(requests[p]) |-> requests[p][i] + 1],
                                LAMBDA a : a < Window)]
    /\ circuit' = [p \in Providers |->
                     IF circuit[p].state = "open"
                     THEN [circuit[p] EXCEPT !.age = UpTo(ResetTime, @)] ELSE circuit[p]]
    /\ lastFailed' = [p \in Providers |-> [lastFailed[p] EXCEPT !.age = UpTo(ResetTime, @)]]
    /\ call' = IF call.wait > 0 THEN [call EXCEPT !.wait = @ - 1] ELSE call

GatewayStep ==
    \/ Accepted \/ Correct \/ AllFailed \/ Skip \/ Admit \/ Acquire
    \/ Answered \/ Retry \/ Again \/ GiveUp \/ Escape

GatewayNext == NewGateway \/ Ask \/ GatewayTick \/ GatewayStep

(* The caller is a running thread, a request ends by its timeout, and time *)
(* passes.                                                                 *)
GatewayFairness == WF_gatewayVars(GatewayStep) /\ WF_gatewayVars(GatewayTick)

GatewaySpec == GatewayInit /\ [][GatewayNext]_gatewayVars /\ GatewayFairness

-----------------------------------------------------------------------------
(* Properties *)

GatewayTypeOK ==
    /\ hits \in [Providers -> Seq(0..Window)] /\ requests \in [Providers -> Seq(0..Window)]
    /\ circuit \in [Providers -> [state : {"closed", "open", "half"},
                                  failures : 0..Threshold, age : 0..ResetTime]]
    /\ call \in [phase : {"idle", "routing", "acquiring", "calling", "backoff", "served"},
                 chain : SUBSET Providers, sensitive : BOOLEAN, complexity : Complexities,
                 attempt : 0..MaxAttempts, wait : 0..BackoffCap, asks : 0..MaxAsks]
    /\ lastFailed \in [Providers -> [times : 0..Threshold, age : 0..ResetTime]]

(* A provider whose last Threshold calls through this gateway failed is    *)
(* left alone for ResetTime after the last of them, trials included, and   *)
(* a sensitive question is only ever sent to a self-hosted provider,       *)
(* however far down the chain it falls.                                    *)
DownProvidersRest ==
    call.phase = "calling" =>
        /\ ~(lastFailed[Current].times = Threshold /\ lastFailed[Current].age < ResetTime)
        /\ call.sensitive => Current \in SelfHosted

(* Every question ends, whatever the providers do: no wait for a slot, a   *)
(* backoff or a closed circuit lasts for ever.                             *)
QuestionsEnd == call.phase # "idle" ~> call.phase = "idle"

(* How far the walk has come with one provider of the chain. *)
Progress(c) ==
    CASE c.phase = "acquiring" -> 1
      [] c.phase = "calling" -> 2 * c.attempt
      [] c.phase = "backoff" -> 2 * c.attempt + 1
      [] c.phase = "served" -> 2 * MaxAttempts + 2
      [] OTHER -> 0

(* d is nearer the end of its question than c: a later ask, or a shorter   *)
(* chain, or further with this provider, or less of a backoff left.        *)
NearerTheEnd(c, d) ==
    \/ d.asks > c.asks
    \/ d.asks = c.asks /\ d.chain \subseteq c.chain /\ d.chain # c.chain
    \/ /\ d.asks = c.asks /\ d.chain = c.chain
       /\ \/ Progress(d) > Progress(c)
          \/ Progress(d) = Progress(c) /\ d.wait < c.wait

(* However the retries of the policy, the fallback of the chain and the    *)
(* corrections of the runner, which know nothing of each other, are nested *)
(* and fail: no step takes a question back.  As asks, chain, attempts and  *)
(* backoff are bounded, what a question can cost is.                       *)
QuestionsAdvance ==
    [][call.phase # "idle" => call' = NoCall \/ NearerTheEnd(call, call')]_call

(* "Sliding-window limiter, one window per provider", "this state lives in *)
(* process memory, which is correct for a single worker": within any       *)
(* window a provider receives at most its published number of requests.    *)
WithinWindow == \A p \in Providers : Len(requests[p]) <= PerWindow
=============================================================================

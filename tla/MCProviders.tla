----------------------------- MODULE MCProviders -----------------------------
(* What reaches the providers and the clients, each by itself: a behaviour *)
(* is one of an LLM gateway, of the pacing of the fundamentals, of the     *)
(* import of the exchange's session record, or of the event hub.  A part   *)
(* that a behaviour does not move keeps its initial state, of which every  *)
(* property holds.                                                         *)
EXTENDS LlmGateway, FundamentalsPacing, CronJob, EventHub

(* Values of constants, for the configuration. *)
HostedFirst == [hosted |-> 1, own |-> 2]
BothStandard == [hosted |-> {"standard", "complex"}, own |-> {"light", "standard"}]
OneSocketEach == [s1 |-> "u1", s2 |-> "u2"]

VARIABLE part

allVars == <<part, gatewayVars, pacingVars, cronVars, hubVars>>

OnGateway == part = "gateway" /\ UNCHANGED <<part, pacingVars, cronVars, hubVars>>
OnPacing == part = "pacing" /\ UNCHANGED <<part, gatewayVars, cronVars, hubVars>>
OnSession == part = "session" /\ UNCHANGED <<part, gatewayVars, pacingVars, hubVars>>
OnHub == part = "hub" /\ UNCHANGED <<part, gatewayVars, pacingVars, cronVars>>

ProvidersInit ==
    /\ part \in {"gateway", "pacing", "session", "hub"}
    /\ GatewayInit /\ PacingInit /\ CronInit /\ HubInit
    /\ part # "session" => cron = Off
    /\ part # "pacing" => \A a \in Assets : age[a] = 0

ProvidersNext ==
    \/ OnGateway /\ GatewayNext
    \/ OnPacing /\ PacingNext
    \/ OnSession /\ CronNext
    \/ OnHub /\ HubNext

(* Each part's own fairness; as a behaviour belongs to one part, weak      *)
(* fairness of a disjunction over the parts is that of each.               *)
ProvidersFairness ==
    /\ WF_allVars(\/ OnGateway /\ GatewayStep
                  \/ OnPacing /\ EnqueueDue
                  \/ OnHub /\ HubLoop)
    /\ WF_allVars(\/ OnGateway /\ GatewayTick
                  \/ OnPacing /\ NextDay)
    /\ \A a \in Assets : SF_allVars(OnPacing /\ Refresh(a))
    /\ \A a \in Assets : WF_allVars(OnPacing /\ PutOff(a))
    /\ \A s \in HubSockets : WF_allVars(OnHub /\ Send(s))

ProvidersSpec == ProvidersInit /\ [][ProvidersNext]_allVars /\ ProvidersFairness

(* FundamentalsPacing: no asset starves behind others (asked of the        *)
(* behaviours in which its days pass).                                     *)
NoAssetStarves == part = "pacing" => EveryAssetReached
=============================================================================

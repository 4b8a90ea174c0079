----------------------------- MODULE MCPlatform -----------------------------
(***************************************************************************)
(* Model-checking instance of the components every request passes through  *)
(* or draws on.  They share no state, so a behaviour is one of one         *)
(* component: the states are the sum, not the product, of theirs.          *)
(***************************************************************************)
EXTENDS Accounts, RateLimiter, RequestGate, Settings, AIAssist, DemoWorkspace

VARIABLE part  \* the component this behaviour is about

platformVars ==
    <<accountVars, rateVars, gateVars, settingsVars, aiVars, demoVars, part>>

\* The components a behaviour is not about start in one state.
Init ==
    /\ part \in {"accounts", "rates", "gate", "settings", "ai", "demo"}
    /\ AccountInit /\ (part # "accounts" => \A u \in Users : ~Known(u))
    /\ GateInit /\ (part # "gate" => \A u \in SignedIn : role[u] = "ANALYST")
    /\ RateInit /\ SettingsInit /\ AIInit /\ DemoInit

Next ==
    /\ \/ /\ part = "accounts" /\ AccountNext
          /\ UNCHANGED <<rateVars, gateVars, settingsVars, aiVars, demoVars>>
       \/ /\ part = "rates" /\ RateNext
          /\ UNCHANGED <<accountVars, gateVars, settingsVars, aiVars, demoVars>>
       \/ /\ part = "gate" /\ GateNext
          /\ UNCHANGED <<accountVars, rateVars, settingsVars, aiVars, demoVars>>
       \/ /\ part = "settings" /\ SettingsNext
          /\ UNCHANGED <<accountVars, rateVars, gateVars, aiVars, demoVars>>
       \/ /\ part = "ai" /\ AINext
          /\ UNCHANGED <<accountVars, rateVars, gateVars, settingsVars, demoVars>>
       \/ /\ part = "demo" /\ DemoNext
          /\ UNCHANGED <<accountVars, rateVars, gateVars, settingsVars, aiVars>>
    /\ UNCHANGED part

Spec == Init /\ [][Next]_platformVars

(***************************************************************************)
(* Values                                                                  *)
(***************************************************************************)
mcDefault == [f \in Fields |-> "x"]

ProviderRow(b, u, c) == [backend |-> b, url |-> u, ceiling |-> c, complete |-> TRUE]
mcTried == {ProviderRow("openai", "elsewhere", 1),
           ProviderRow("compatible", "gateway", 0), ProviderRow("openai", "", -1)}
=============================================================================

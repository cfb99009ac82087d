------------------------------ MODULE MCGuards ------------------------------
(* The small machines of the server share no state with each other.  One   *)
(* run explores them side by side: scenario picks the machine that moves   *)
(* in a behaviour, and the others stay where they start.                   *)
EXTENDS ParallelSandboxes, SandboxCleaner, SandboxLimiter, SandboxStreams,
        LLMClient, RateLimiter, Accounts, Billing, SpecStore

CONSTANTS
    Scenarios,   \* the machines to explore
    MaxTracked,  \* bound: sandboxes the cleaner is explored with
    MaxPlanChanges  \* bound: events of Stripe while projects are created

VARIABLE scenario

managers == <<managerVars, parallelVars, cleanerVars>>
server   == <<llmVars, rateVars, accountVars, billingVars, specVars>>
guardVars == <<managers, limiterVars, streamVars, server, scenario>>

Off(machine) == scenario # machine

GuardsInit ==
    /\ scenario \in Scenarios
    /\ ParallelInit /\ CleanerInit /\ LimiterInit
    /\ RateInit /\ LLMInit /\ AccountsInit /\ BillingInit /\ SpecInit
    /\ IF Off("streams") THEN StreamOver ELSE StreamInit
    /\ Off("parallel") /\ Off("cleaner") => provider = "local"
    /\ Off("calls") => ill = {}
    /\ Off("logins") => loginNullable = (TRUE \in LoginNullables)
    /\ Off("specs") => hasColumns = (TRUE \in SpecSchemas)

Moves1 ==
    \/ /\ scenario = "parallel" /\ ParallelNext
       /\ UNCHANGED <<cleanerVars, limiterVars, streamVars, server>>
    \/ /\ scenario = "cleaner" /\ CleanerNext /\ Cardinality(boxes') <= MaxTracked
       /\ UNCHANGED <<parallelVars, limiterVars, streamVars, server>>
    \/ /\ scenario = "limiter" /\ LimiterNext
       /\ UNCHANGED <<managers, streamVars, server>>
    \/ /\ scenario = "streams" /\ StreamNext
       /\ UNCHANGED <<managers, limiterVars, server>>

Moves2 ==
    \/ /\ scenario = "calls" /\ LLMNext
       /\ UNCHANGED <<rateVars, accountVars, billingVars, specVars>>
    \/ /\ scenario = "rates" /\ RateNext
       /\ UNCHANGED <<llmVars, accountVars, billingVars, specVars>>
    \/ /\ scenario = "logins" /\ AccountsNext
       /\ UNCHANGED <<llmVars, rateVars, billingVars, specVars>>
    \/ /\ scenario = "billing" /\ StripeNext
       /\ UNCHANGED <<llmVars, rateVars, accountVars, specVars>>
    \/ /\ scenario = "projects" /\ BillingNext
       /\ disorder' = 0 /\ emitted' <= MaxPlanChanges
       /\ UNCHANGED <<llmVars, rateVars, accountVars, specVars>>
    \/ /\ scenario = "specs" /\ SpecNext
       /\ UNCHANGED <<llmVars, rateVars, accountVars, billingVars>>

GuardsNext ==
    /\ UNCHANGED scenario
    /\ \/ Moves1
       \/ Moves2 /\ UNCHANGED <<managers, limiterVars, streamVars>>

(* Where their machines do not run, no action of the first two fairness    *)
(* conditions is enabled: nothing is tracked, and the stream is over.  The *)
(* third is stated here: every request ends (30 s timeout), the cooldown   *)
(* passes, and there is always another call for one of the providers.      *)
GuardsSpec ==
    /\ GuardsInit /\ [][GuardsNext]_guardVars
    /\ CleanerFairness
    /\ StreamFairness
    /\ \A k \in Callers : WF_llmVars(scenario = "calls" /\ (Succeeds(k) \/ FailsFor(k)))
    /\ WF_llmVars(scenario = "calls" /\ CooldownPasses)
    /\ WF_llmVars(scenario = "calls" /\ \E k \in Callers, p \in LLMProviders : Begin(k, p))

(* What the middlewares of a route do, in order, with the tokens of one    *)
(* organisation: in units of one request per tick.                         *)
OneTier   == [t \in {"default"} |-> 3]
OneRate   == [t \in {"default"} |-> 1]
OneRoute  == {<<"default">>}
TwoTiers  == [t \in {"default", "generation"} |-> IF t = "default" THEN 3 ELSE 1]
TwoRates  == [t \in {"default", "generation"} |-> 1]
TwoRoutes == {<<"default">>, <<"default", "generation">>}

PlanLimits == [t \in {"free", "starter", "builder"} |->
                  CASE t = "free" -> 1 [] t = "starter" -> 2 [] t = "builder" -> 3]

-----------------------------------------------------------------------------
(* SandboxesAccounted of the machine in which only the runner makes        *)
(* sandboxes (those of the cleaner have other owners): every sandbox of    *)
(* the runner belongs to a goroutine that still has to destroy it.         *)
RunnerAccounted == scenario = "parallel" => SandboxesAccounted
=============================================================================

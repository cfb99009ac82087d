----------------------------- MODULE LLMClient ------------------------------
(***************************************************************************)
(* The calls of LLMClient: doAnthropic and doOpenAI ask the same circuit   *)
(* breaker, then doWithRetry repeats a request that got a 429.  A provider *)
(* that is ill answers 429, another error, or not within the 30 seconds.   *)
(***************************************************************************)
EXTENDS Naturals

CONSTANTS
    Callers,           \* goroutines that call the client
    LLMProviders,      \* "anthropic", "openai"
    FailureThreshold,  \* of newCircuitBreaker (5 in the code)
    MaxLLMRetries      \* maxRetries (5 in the code)

ASSUME LLMAssumption ==
    FailureThreshold \in Nat \ {0} /\ MaxLLMRetries \in Nat

VARIABLES
    circuit,           \* "closed", "open" or "half-open"
    consecutiveFails,  \* counted up to the threshold: only that is compared
    cooled,            \* the cooldown has passed since lastFailure
    request,           \* per caller: provider, attempt, and whether it was sent to an ill one
    ill                \* the providers that do not answer

llmVars == <<circuit, consecutiveFails, cooled, request, ill>>

NoRequest == [to |-> "none", attempt |-> 0, doomed |-> FALSE]
Requests == [to : LLMProviders, attempt : 0..MaxLLMRetries, doomed : BOOLEAN] \cup {NoRequest}

LLMTypeOK ==
    /\ circuit \in {"closed", "open", "half-open"}
    /\ consecutiveFails \in 0..FailureThreshold
    /\ cooled \in BOOLEAN
    /\ request \in [Callers -> Requests]
    /\ ill \in SUBSET LLMProviders

LLMInit ==
    /\ circuit = "closed" /\ consecutiveFails = 0 /\ cooled = TRUE
    /\ request = [k \in Callers |-> NoRequest]
    /\ ill \in SUBSET LLMProviders

-----------------------------------------------------------------------------
(* allow() returned true: an open circuit whose cooldown has passed turns  *)
(* half-open; half-open lets every caller through.                         *)
allow ==
    \/ circuit \in {"closed", "half-open"} /\ UNCHANGED circuit
    \/ circuit = "open" /\ cooled /\ circuit' = "half-open"

(* A success that clears the count and leaves the state as it is.          *)
recordSuccessOfCount ==
    consecutiveFails' = 0 /\ UNCHANGED <<circuit, cooled>>

recordSuccess ==
    consecutiveFails' = 0 /\ circuit' = "closed" /\ UNCHANGED cooled

recordFailure ==
    /\ consecutiveFails' = IF consecutiveFails < FailureThreshold
                           THEN consecutiveFails + 1 ELSE FailureThreshold
    /\ cooled' = FALSE
    /\ circuit' = IF consecutiveFails' = FailureThreshold THEN "open" ELSE circuit

(* doAnthropic, doOpenAI: a call refused with ErrCircuitOpen changes       *)
(* nothing.                                                                *)
Begin(k, p) ==
    /\ request[k] = NoRequest
    /\ allow
    /\ request' = [request EXCEPT ![k] = [to |-> p, attempt |-> 0, doomed |-> p \in ill]]
    /\ UNCHANGED <<consecutiveFails, cooled, ill>>

Pending(k) == request[k] # NoRequest
Unlucky(k) == request[k].doomed \/ request[k].to \in ill
Ends(k) == request' = [request EXCEPT ![k] = NoRequest]

Succeeds(k) ==
    /\ Pending(k) /\ request[k].to \notin ill
    /\ recordSuccess
    /\ Ends(k) /\ UNCHANGED ill

(* 429: after the back-off the next attempt.                               *)
Again(k) ==
    /\ Pending(k) /\ Unlucky(k)
    /\ request[k].attempt < MaxLLMRetries
    /\ request' = [request EXCEPT ![k].attempt = @ + 1, ![k].doomed = request[k].to \in ill]
    /\ UNCHANGED <<circuit, consecutiveFails, cooled, ill>>

(* A network error, another status, the timeout, the last 429: also long   *)
(* after the provider has recovered.                                       *)
FailsFor(k) ==
    /\ Pending(k) /\ Unlucky(k)
    /\ recordFailure
    /\ Ends(k) /\ UNCHANGED ill

CooldownPasses ==
    /\ ~cooled /\ cooled' = TRUE
    /\ UNCHANGED <<circuit, consecutiveFails, request, ill>>

(* External: a provider falls ill or recovers.                             *)
ProviderTurns(p) ==
    /\ ill' = IF p \in ill THEN ill \ {p} ELSE ill \cup {p}
    /\ UNCHANGED <<circuit, consecutiveFails, cooled, request>>

LLMNext ==
    \/ \E k \in Callers :
         \/ Succeeds(k) \/ Again(k) \/ FailsFor(k)
         \/ \E p \in LLMProviders : Begin(k, p)
    \/ CooldownPasses
    \/ \E p \in LLMProviders : ProviderTurns(p)

LLMSpec == LLMInit /\ [][LLMNext]_llmVars

-----------------------------------------------------------------------------
(* The circuit is closed exactly while fewer failures than the threshold   *)
(* followed the last success, however the calls overlap.                   *)
BreakerCoherent == circuit = "closed" <=> consecutiveFails < FailureThreshold

(* Once both providers stay well the circuit that all callers share closes *)
(* and stays closed: neither late failures of calls sent before, nor       *)
(* half-open's letting every caller through, can keep it open.             *)
BreakerRecovers == <>[](ill = {}) => <>[](circuit = "closed")
=============================================================================

------------------------------- MODULE Billing ------------------------------
(***************************************************************************)
(* One organisation: the subscription row, written by the handlers of the  *)
(* Stripe webhook, and the project limit, which usageLimitMiddleware       *)
(* derives from it before the handler of the request inserts.              *)
(*                                                                         *)
(* The middleware checks the organisation of the caller's token, the       *)
(* handler inserts into the one of the route, and nothing compares the two:*)
(* the plan of this organisation does not bind a request with the token of *)
(* another, and a request with its token may insert elsewhere.             *)
(***************************************************************************)
EXTENDS Naturals, Sequences, FiniteSets, SequencesExt

CONSTANTS
    Plans,          \* "starter", "builder"
    MaxProjects,    \* [Plans \cup {"free"} -> Nat]: LimitsForTier, FreeTierLimits
    Deliveries,     \* webhook requests served at a time
    Creators,       \* requests that create a project, served at a time
    MaxEvents,      \* bound: events Stripe emits
    MaxDisorder,    \* bound: deliveries out of order, twice, overlapping or failing
    MaxStrangers    \* bound: requests whose token names another organisation

ASSUME BillingAssumption ==
    /\ MaxProjects \in [Plans \cup {"free"} -> Nat] /\ "free" \notin Plans
    /\ IsFiniteSet(Creators) /\ {MaxEvents, MaxDisorder, MaxStrangers} \subseteq Nat

VARIABLES
    account,    \* at Stripe: status and plan of the subscription
    inbox,      \* events not yet delivered
    emitted,    \* how many there have been
    delivery,   \* per webhook request: its event and the row it has read
    row,        \* the subscription row: status and plan
    disorder,   \* how many deliveries were irregular
    trialOver,  \* 14 days have passed since the organisation was created
    creator,    \* per request: its step and the limit it read
    projects,   \* rows of projects
    highest,    \* history: the highest limit a request has read
    strangers   \* history: requests let through on another organisation's plan

stripeVars == <<account, inbox, emitted, delivery, row, disorder>>
projectVars == <<trialOver, creator, projects, highest, strangers>>
billingVars == <<stripeVars, projectVars>>

NoRow == [status |-> "none", plan |-> "free"]
NoEvent == [type |-> "none", status |-> "none", plan |-> "free"]
Unread == [status |-> "unread", plan |-> "free"]

BillingInit ==
    /\ account = NoRow /\ inbox = <<>> /\ emitted = 0
    /\ delivery = [d \in Deliveries |-> [event |-> NoEvent, read |-> Unread]]
    /\ row = NoRow /\ disorder = 0
    /\ trialOver = FALSE
    /\ creator = [k \in Creators |-> [at |-> "idle", limit |-> 0]]
    /\ projects = 0 /\ highest = 0 /\ strangers = 0

-----------------------------------------------------------------------------
(* External: Stripe.                                                       *)
Emits(e) ==
    /\ emitted < MaxEvents /\ emitted' = emitted + 1
    /\ inbox' = Append(inbox, e)
    /\ UNCHANGED <<delivery, row, disorder, projectVars>>

Checkout(plan) ==
    /\ account.status \in {"none", "canceled"}
    /\ account' = [status |-> "active", plan |-> plan]
    /\ Emits([type |-> "completed", status |-> "active", plan |-> plan])

StatusChanges(status) ==
    /\ account.status \notin {"none", "canceled", status}
    /\ account' = [account EXCEPT !.status = status]
    /\ Emits([type |-> "updated", status |-> status, plan |-> account.plan])

SubscriptionEnds ==
    /\ account.status \notin {"none", "canceled"}
    /\ account' = [account EXCEPT !.status = "canceled"]
    /\ Emits([type |-> "deleted", status |-> "canceled", plan |-> account.plan])

-----------------------------------------------------------------------------
mapStripeStatus(s) ==
    IF s \in {"active", "past_due", "canceled", "trialing"} THEN s ELSE "incomplete"

Busy(d) == delivery[d].event # NoEvent

Irregular(is) ==
    IF is THEN disorder < MaxDisorder /\ disorder' = disorder + 1 ELSE UNCHANGED disorder

(* StripeWebhook gets an event: the next one or not, the last time or not. *)
Delivered(d, i, again) ==
    /\ ~Busy(d) /\ i \in DOMAIN inbox
    /\ delivery' = [delivery EXCEPT ![d] = [event |-> inbox[i], read |-> Unread]]
    /\ inbox' = IF again THEN inbox ELSE RemoveAt(inbox, i)
    /\ Irregular(i > 1 \/ again \/ \E o \in Deliveries : Busy(o))
    /\ UNCHANGED <<account, emitted, row, projectVars>>

Answered(d) == delivery' = [delivery EXCEPT ![d] = [event |-> NoEvent, read |-> Unread]]

handleCheckoutCompleted(d) ==
    /\ delivery[d].event.type = "completed"
    /\ row' = [status |-> "active", plan |-> delivery[d].event.plan]
    /\ Answered(d)
    /\ UNCHANGED <<account, inbox, emitted, disorder, projectVars>>

(* GetSubscriptionByStripeCustomerID; without a row the event is dropped.  *)
ReadByCustomer(d) ==
    /\ delivery[d].event.type \in {"updated", "deleted"} /\ delivery[d].read = Unread
    /\ IF row = NoRow THEN Answered(d) ELSE delivery' = [delivery EXCEPT ![d].read = row]
    /\ UNCHANGED <<account, inbox, emitted, row, disorder, projectVars>>

(* UpsertSubscription of the whole row read, with the new status.          *)
UpsertStatus(d, status) ==
    /\ delivery[d].read # Unread
    /\ row' = [delivery[d].read EXCEPT !.status = status]
    /\ Answered(d)
    /\ UNCHANGED <<account, inbox, emitted, disorder, projectVars>>

(* An update that only ever confirms a subscription.                       *)
handleUpdatedAsActive(d) ==
    /\ delivery[d].event.type = "updated"
    /\ UpsertStatus(d, "active")

handleSubscriptionUpdated(d) ==
    /\ delivery[d].event.type = "updated"
    /\ UpsertStatus(d, mapStripeStatus(delivery[d].event.status))

handleSubscriptionDeleted(d) ==
    /\ delivery[d].event.type = "deleted"
    /\ UpsertStatus(d, "canceled")

(* A statement fails: it is logged, and Stripe is told 200 all the same.   *)
HandlerFails(d) ==
    /\ Busy(d) /\ Answered(d) /\ Irregular(TRUE)
    /\ UNCHANGED <<account, inbox, emitted, row, projectVars>>

StripeNext ==
    \/ \E plan \in Plans : Checkout(plan)
    \/ \E status \in {"active", "past_due", "trialing", "unpaid"} : StatusChanges(status)
    \/ SubscriptionEnds
    \/ \E d \in Deliveries :
         \/ \E i \in 1..MaxEvents, again \in BOOLEAN : Delivered(d, i, again)
         \/ handleCheckoutCompleted(d) \/ ReadByCustomer(d)
         \/ handleSubscriptionUpdated(d) \/ handleSubscriptionDeleted(d)
         \/ HandlerFails(d)

-----------------------------------------------------------------------------
(* usageLimitMiddleware: the limits of the plan while the subscription is  *)
(* active or trialing, else those of the free tier: during the trial, or   *)
(* for ever while GetOrgCreatedAt fails (dated is FALSE).                  *)
Entitled == row.status \in {"active", "trialing"}
Limit == IF Entitled THEN MaxProjects[row.plan] ELSE MaxProjects["free"]

ReadsLimits(k, dated) ==
    /\ creator[k].at = "idle"
    /\ Entitled \/ ~dated \/ ~trialOver
    /\ creator' = [creator EXCEPT ![k] = [at |-> "limited", limit |-> Limit]]
    /\ highest' = IF Limit > highest THEN Limit ELSE highest
    /\ UNCHANGED <<stripeVars, trialOver, projects, strangers>>

(* The same middleware for the token of another organisation, on whose     *)
(* plan, trial and projects it depends alone.                              *)
AdmittedElsewhere(k) ==
    /\ creator[k].at = "idle"
    /\ strangers < MaxStrangers /\ strangers' = strangers + 1
    /\ creator' = [creator EXCEPT ![k] = [at |-> "admitted", limit |-> 0]]
    /\ UNCHANGED <<stripeVars, trialOver, projects, highest>>

(* CheckProjectLimit one project too late.                                 *)
CheckBeyondLimit(k) ==
    /\ creator[k].at = "limited"
    /\ creator' = [creator EXCEPT ![k].at =
                      IF projects > creator[k].limit THEN "idle" ELSE "admitted"]
    /\ UNCHANGED <<stripeVars, trialOver, projects, highest, strangers>>

(* CountOrgProjects, then 429 or on to the handler.                        *)
CheckProjectLimit(k) ==
    /\ creator[k].at = "limited"
    /\ creator' = [creator EXCEPT ![k].at =
                      IF projects >= creator[k].limit THEN "idle" ELSE "admitted"]
    /\ UNCHANGED <<stripeVars, trialOver, projects, highest, strangers>>

(* The row belongs to the organisation of the route: for this one it is a  *)
(* new row or none, if the insertion fails or goes to another.             *)
CreateProject(k, here) ==
    /\ creator[k].at = "admitted"
    /\ creator' = [creator EXCEPT ![k].at = "idle"]
    /\ projects' = IF here THEN projects + 1 ELSE projects
    /\ UNCHANGED <<stripeVars, trialOver, highest, strangers>>

DeleteProject ==
    /\ projects > 0 /\ projects' = projects - 1
    /\ UNCHANGED <<stripeVars, trialOver, creator, highest, strangers>>

TrialEnds ==
    /\ ~trialOver /\ trialOver' = TRUE
    /\ UNCHANGED <<stripeVars, creator, projects, highest, strangers>>

ProjectsNext ==
    \/ \E k \in Creators :
         \/ \E dated \in BOOLEAN : ReadsLimits(k, dated)
         \/ AdmittedElsewhere(k) \/ CheckProjectLimit(k)
         \/ \E here \in BOOLEAN : CreateProject(k, here)
    \/ DeleteProject \/ TrialEnds

BillingNext == StripeNext \/ ProjectsNext

BillingSpec == BillingInit /\ [][BillingNext]_billingVars

-----------------------------------------------------------------------------
(* While events arrive one at a time, in order and once, and no statement  *)
(* fails, the row says what Stripe says whenever nothing is under way: the *)
(* handlers' reading and writing back of a whole row loses nothing.        *)
SubscriptionFollowsStripe ==
    disorder = 0 /\ inbox = <<>> /\ ~(\E d \in Deliveries : Busy(d))
        => row = [account EXCEPT !.status = IF @ = "none" THEN @ ELSE mapStripeStatus(@)]

(* The count is read in the middleware and the project inserted later: the *)
(* highest limit the organisation had is passed by no more than all but    *)
(* one of the requests in flight and one project for each request that was *)
(* let through on the plan of another organisation, whatever happens to    *)
(* the plan meanwhile.                                                     *)
ProjectsWithinPlan ==
    projects > 0 => projects < highest + Cardinality(Creators) + strangers
=============================================================================

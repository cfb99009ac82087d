---------------------------- MODULE ServerProofs ----------------------------
(***************************************************************************)
(* The guards of the server: the project limit under concurrent requests   *)
(* and the subscription row it is derived from, the workspaces of          *)
(* overlapping first logins, and the rate limit, for any plans, limits,    *)
(* numbers of requests, persons, faults and disorder of Stripe's events.   *)
(***************************************************************************)
EXTENDS Billing, Accounts, RateLimiter, FiniteSetTheorems, SequenceTheorems, TLAPS

(***************************************************************************)
(* The project limit (Billing).                                            *)
(***************************************************************************)
PlanTiers == Plans \cup {"free"}
Statuses == {"none", "unread", "active", "past_due", "canceled", "trialing", "unpaid",
             "incomplete"}
Rows == [status : Statuses, plan : PlanTiers]
Events == [type : {"none", "completed", "updated", "deleted"}, status : Statuses, plan : PlanTiers]

(* Whatever is read, delivered or written back names a known plan.         *)
PlansKnown ==
    /\ row \in Rows /\ account \in Rows /\ inbox \in Seq(Events)
    /\ delivery \in [Deliveries -> [event : Events, read : Rows]]

CountsTyped ==
    /\ projects \in Nat /\ highest \in Nat /\ strangers \in Nat
    /\ creator \in [Creators -> [at : {"idle", "limited", "admitted"}, limit : Nat]]

(* A request was let through when the projects were fewer than its limit,  *)
(* so projects and requests let through never reach, together, the highest *)
(* limit and the number of requests: those that wait to insert count as    *)
(* projects already.  A request let through on another organisation's plan *)
(* makes room for itself.                                                  *)
Admitted == {k \in Creators : creator[k].at = "admitted"}
LimitsSeen == \A k \in Creators : creator[k].limit <= highest
RoomLeft ==
    \/ projects = 0 /\ Admitted = {}
    \/ projects + Cardinality(Admitted) < highest + Cardinality(Creators) + strangers

BillingInv == PlansKnown /\ CountsTyped /\ LimitsSeen /\ RoomLeft

LEMMA LimitIsNat == ASSUME PlansKnown PROVE Limit \in Nat
BY BillingAssumption DEF PlansKnown, Rows, PlanTiers, Limit, Entitled

LEMMA RemovedFromSeq ==
    ASSUME NEW S, NEW s \in Seq(S), NEW i \in DOMAIN s
    PROVE  RemoveAt(s, i) \in Seq(S)
<1>1. i \in 1..Len(s) /\ Len(s) \in Nat
  BY LenProperties
<1>2. SubSeq(s, 1, i - 1) \in Seq(S)
  BY <1>1, SubSeqProperties
<1>3. SubSeq(s, i + 1, Len(s)) \in Seq(S)
  BY <1>1, SubSeqProperties
<1> QED
  BY <1>2, <1>3, ConcatProperties DEF RemoveAt

LEMMA AdmittedFinite ==
    /\ IsFiniteSet(Admitted) /\ Cardinality(Admitted) \in Nat
    /\ Cardinality(Creators) \in Nat /\ Cardinality(Admitted) <= Cardinality(Creators)
<1>1. IsFiniteSet(Creators) /\ Admitted \subseteq Creators
  BY BillingAssumption DEF Admitted
<1> QED
  BY <1>1, FS_Subset, FS_CardinalityType
-----------------------------------------------------------------------------
(* Stripe and the webhook touch no project.                                *)
LEMMA StripeKeepsPlans ==
    ASSUME PlansKnown, StripeNext
    PROVE  PlansKnown' /\ UNCHANGED projectVars
<1> USE DEF PlansKnown, Rows, Events, PlanTiers, Statuses, projectVars
<1>1. ASSUME NEW plan \in Plans, Checkout(plan)
      PROVE  PlansKnown' /\ UNCHANGED projectVars
  <2>1. [type |-> "completed", status |-> "active", plan |-> plan] \in Events
    OBVIOUS
  <2> QED
    BY <1>1, <2>1 DEF Checkout, Emits
<1>2. ASSUME NEW status \in Statuses, StatusChanges(status)
      PROVE  PlansKnown' /\ UNCHANGED projectVars
  <2>1. [type |-> "updated", status |-> status, plan |-> account.plan] \in Events
    OBVIOUS
  <2> QED
    BY <1>2, <2>1 DEF StatusChanges, Emits
<1>3. CASE SubscriptionEnds
  <2>1. [type |-> "deleted", status |-> "canceled", plan |-> account.plan] \in Events
    OBVIOUS
  <2> QED
    BY <1>3, <2>1 DEF SubscriptionEnds, Emits
<1>4. ASSUME NEW d \in Deliveries, NEW i \in 1..MaxEvents, NEW again \in BOOLEAN,
             Delivered(d, i, again)
      PROVE  PlansKnown' /\ UNCHANGED projectVars
  <2>1. inbox[i] \in Events /\ RemoveAt(inbox, i) \in Seq(Events)
    <3> HIDE DEF Events
    <3>1. i \in DOMAIN inbox /\ inbox \in Seq(Events)
      BY <1>4 DEF Delivered
    <3>2. RemoveAt(inbox, i) \in Seq(Events)
      BY <3>1, RemovedFromSeq
    <3>3. i \in 1..Len(inbox)
      BY <3>1, LenProperties
    <3> QED
      BY <3>1, <3>2, <3>3, ElementOfSeq
  <2>2. inbox' \in Seq(Events)
    BY <1>4, <2>1 DEF Delivered
  <2> QED
    BY <1>4, <2>1, <2>2 DEF Delivered, Unread
<1>5. ASSUME NEW d \in Deliveries, handleCheckoutCompleted(d)
      PROVE  PlansKnown' /\ UNCHANGED projectVars
  BY <1>5 DEF handleCheckoutCompleted, Answered, NoEvent, Unread
<1>6. ASSUME NEW d \in Deliveries, ReadByCustomer(d)
      PROVE  PlansKnown' /\ UNCHANGED projectVars
  BY <1>6 DEF ReadByCustomer, Answered, NoEvent, Unread
<1>7. ASSUME NEW d \in Deliveries, NEW status \in Statuses, UpsertStatus(d, status)
      PROVE  PlansKnown' /\ UNCHANGED projectVars
  BY <1>7 DEF UpsertStatus, Answered, NoEvent, Unread
<1>8. ASSUME NEW d \in Deliveries, handleSubscriptionUpdated(d) \/ handleSubscriptionDeleted(d)
      PROVE  PlansKnown' /\ UNCHANGED projectVars
  <2>1. mapStripeStatus(delivery[d].event.status) \in Statuses
    BY DEF mapStripeStatus
  <2> QED
    BY <1>7, <1>8, <2>1 DEF handleSubscriptionUpdated, handleSubscriptionDeleted
<1>9. ASSUME NEW d \in Deliveries, HandlerFails(d)
      PROVE  PlansKnown' /\ UNCHANGED projectVars
  BY <1>9 DEF HandlerFails, Answered, NoEvent, Unread
<1> QED
  <2>1. ASSUME NEW status \in {"active", "past_due", "trialing", "unpaid"}, StatusChanges(status)
        PROVE  PlansKnown' /\ UNCHANGED projectVars
    BY <1>2, <2>1
  <2> HIDE DEF PlansKnown, projectVars
  <2> QED
    BY <1>1, <1>3, <1>4, <1>5, <1>6, <1>8, <1>9, <2>1 DEF StripeNext
-----------------------------------------------------------------------------
(* The plans are the business of the other half.                           *)
LEMMA ProjectsLeavePlans ==
    ASSUME PlansKnown, ProjectsNext PROVE PlansKnown'
<1>1. UNCHANGED stripeVars
  BY DEF ProjectsNext, ReadsLimits, AdmittedElsewhere, CheckProjectLimit, CreateProject,
         DeleteProject, TrialEnds
<1> QED
  BY <1>1 DEF PlansKnown, stripeVars

LEMMA ReadsLimitsKeepsRoom ==
    ASSUME BillingInv, NEW k \in Creators, NEW dated \in BOOLEAN, ReadsLimits(k, dated)
    PROVE  CountsTyped' /\ LimitsSeen' /\ RoomLeft'
<1>1. Limit \in Nat
  BY LimitIsNat DEF BillingInv
<1>2. CountsTyped' /\ LimitsSeen' /\ highest' >= highest
  BY <1>1 DEF BillingInv, CountsTyped, LimitsSeen, ReadsLimits
<1>3. Admitted' = Admitted
  BY DEF BillingInv, CountsTyped, ReadsLimits, Admitted
<1> QED
  BY <1>2, <1>3, AdmittedFinite DEF BillingInv, CountsTyped, RoomLeft, ReadsLimits

LEMMA ElsewhereKeepsRoom ==
    ASSUME BillingInv, NEW k \in Creators, AdmittedElsewhere(k)
    PROVE  CountsTyped' /\ LimitsSeen' /\ RoomLeft'
<1>1. CountsTyped' /\ LimitsSeen'
  BY DEF BillingInv, CountsTyped, LimitsSeen, AdmittedElsewhere
<1>2. Admitted' = Admitted \cup {k} /\ k \notin Admitted
  BY DEF BillingInv, CountsTyped, AdmittedElsewhere, Admitted
<1>3. /\ Cardinality(Admitted') = Cardinality(Admitted) + 1
      /\ Cardinality(Admitted') <= Cardinality(Creators)
  <2>1. IsFiniteSet(Creators) /\ Admitted' \subseteq Creators
    BY BillingAssumption DEF Admitted
  <2> QED
    BY <1>2, <2>1, AdmittedFinite, FS_AddElement, FS_Subset
<1>4. projects' + Cardinality(Admitted') < highest' + Cardinality(Creators) + strangers'
  <2>1. CASE projects = 0 /\ Admitted = {}
    <3>1. Cardinality(Admitted) = 0
      BY <2>1, FS_EmptySet
    <3> QED
      BY <1>3, <2>1, <3>1, AdmittedFinite DEF BillingInv, CountsTyped, AdmittedElsewhere
  <2>2. CASE projects + Cardinality(Admitted) < highest + Cardinality(Creators) + strangers
    BY <1>3, <2>2, AdmittedFinite DEF BillingInv, CountsTyped, AdmittedElsewhere
  <2> QED
    BY <2>1, <2>2 DEF BillingInv, RoomLeft
<1> QED
  BY <1>1, <1>4 DEF RoomLeft

LEMMA CheckKeepsRoom ==
    ASSUME BillingInv, NEW k \in Creators, CheckProjectLimit(k)
    PROVE  CountsTyped' /\ LimitsSeen' /\ RoomLeft'
<1>1. CountsTyped' /\ LimitsSeen'
  BY DEF BillingInv, CountsTyped, LimitsSeen, CheckProjectLimit
<1>2. CASE projects >= creator[k].limit
  <2>1. Admitted' = Admitted
    BY <1>2 DEF BillingInv, CountsTyped, CheckProjectLimit, Admitted
  <2> QED
    BY <1>1, <2>1 DEF BillingInv, RoomLeft, CheckProjectLimit
<1>3. CASE projects < creator[k].limit
  <2>1. Admitted' = Admitted \cup {k} /\ k \notin Admitted
    BY <1>3 DEF BillingInv, CountsTyped, CheckProjectLimit, Admitted
  <2>2. Cardinality(Admitted') <= Cardinality(Creators)
    <3>1. IsFiniteSet(Creators) /\ Admitted' \subseteq Creators
      BY BillingAssumption DEF Admitted
    <3> QED
      BY <3>1, FS_Subset
  <2>3. Cardinality(Admitted') \in Nat
    BY <2>1, AdmittedFinite, FS_AddElement, FS_CardinalityType
  <2>4. projects < highest
    BY <1>3 DEF BillingInv, CountsTyped, LimitsSeen
  <2>5. projects + Cardinality(Admitted') < highest + Cardinality(Creators) + strangers
    BY <2>2, <2>3, <2>4, AdmittedFinite DEF BillingInv, CountsTyped
  <2> QED
    BY <1>1, <2>5 DEF RoomLeft, CheckProjectLimit
<1> QED
  BY <1>2, <1>3 DEF BillingInv, CountsTyped

(* The row takes the place that the request has kept.                      *)
LEMMA CreateKeepsRoom ==
    ASSUME BillingInv, NEW k \in Creators, NEW here \in BOOLEAN, CreateProject(k, here)
    PROVE  CountsTyped' /\ LimitsSeen' /\ RoomLeft'
<1>1. CountsTyped' /\ LimitsSeen'
  BY DEF BillingInv, CountsTyped, LimitsSeen, CreateProject
<1>2. Admitted' = Admitted \ {k} /\ k \in Admitted
  BY DEF BillingInv, CountsTyped, CreateProject, Admitted
<1>3. Cardinality(Admitted') = Cardinality(Admitted) - 1
  BY <1>2, AdmittedFinite, FS_RemoveElement
<1> QED
  BY <1>1, <1>2, <1>3, AdmittedFinite DEF BillingInv, CountsTyped, RoomLeft, CreateProject

LEMMA ProjectsKeepRoom ==
    ASSUME BillingInv, ProjectsNext
    PROVE  CountsTyped' /\ LimitsSeen' /\ RoomLeft'
<1>1. CASE DeleteProject
  <2>1. Admitted' = Admitted
    BY <1>1 DEF DeleteProject, Admitted
  <2> QED
    BY <1>1, <2>1, AdmittedFinite DEF BillingInv, CountsTyped, LimitsSeen, RoomLeft, DeleteProject
<1>2. CASE TrialEnds
  BY <1>2 DEF BillingInv, CountsTyped, LimitsSeen, RoomLeft, TrialEnds, Admitted
<1> QED
  BY <1>1, <1>2, ReadsLimitsKeepsRoom, ElsewhereKeepsRoom, CheckKeepsRoom, CreateKeepsRoom
     DEF ProjectsNext
-----------------------------------------------------------------------------
LEMMA BillingInductive ==
    ASSUME BillingInv, [BillingNext]_billingVars PROVE BillingInv'
<1>1. CASE StripeNext
  <2>1. PlansKnown' /\ UNCHANGED projectVars
    BY <1>1, StripeKeepsPlans DEF BillingInv
  <2> QED
    BY <2>1 DEF projectVars, BillingInv, CountsTyped, LimitsSeen, RoomLeft, Admitted
<1>2. CASE ProjectsNext
  BY <1>2, ProjectsLeavePlans, ProjectsKeepRoom DEF BillingInv
<1>3. CASE UNCHANGED billingVars
  BY <1>3 DEF billingVars, stripeVars, projectVars, BillingInv, PlansKnown, CountsTyped,
              LimitsSeen, RoomLeft, Admitted
<1> QED
  BY <1>1, <1>2, <1>3 DEF BillingNext

(* Requests that overlap, while the plan goes up and down and Stripe's     *)
(* events arrive in any order, pass the highest limit by fewer projects    *)
(* than there are requests; beyond that an organisation grows by one       *)
(* project at most for every request let through on the plan of another    *)
(* (usageLimitMiddleware in billing.go, CreateProject in projects.go).     *)
THEOREM ProjectsStayWithinPlan == BillingSpec => []ProjectsWithinPlan
<1>1. BillingInit => BillingInv
  <2> SUFFICES ASSUME BillingInit PROVE BillingInv
    OBVIOUS
  <2>1. PlansKnown
    BY DEF BillingInit, PlansKnown, Rows, Events, PlanTiers, Statuses, NoRow, NoEvent, Unread
  <2>2. CountsTyped /\ LimitsSeen /\ RoomLeft
    BY DEF BillingInit, CountsTyped, LimitsSeen, RoomLeft, Admitted
  <2> QED
    BY <2>1, <2>2 DEF BillingInv
<1>2. BillingInv => ProjectsWithinPlan
  BY AdmittedFinite DEF BillingInv, CountsTyped, RoomLeft, ProjectsWithinPlan
<1> QED
  BY <1>1, <1>2, BillingInductive, PTL DEF BillingSpec

-----------------------------------------------------------------------------
(***************************************************************************)
(* First logins (Accounts).                                                *)
(***************************************************************************)
CallbackRecords ==
    [at : {"idle", "upserting", "looking", "linking", "inserting", "listing", "creating",
           "joining", "signedIn", "failed"},
     person : Persons \cup {Nobody}, via : {"none", "github", "google"},
     user : UserIDs \cup {Nobody}]

LoginsTyped ==
    /\ callback \in [Callbacks -> CallbackRecords]
    /\ DOMAIN users \subseteq UserIDs
    /\ loginFaults \in Nat

(* Who is about to join a workspace has made it, and nobody removes one.   *)
JoinsOwn == \A r \in Callbacks : In(r, "joining") => Slug(r) \in DOMAIN orgs

SignedInBelong == \A r \in Callbacks : In(r, "signedIn") => Memberships(callback[r].user) # {}
FewStranded == IsFiniteSet(Stranded) /\ Cardinality(Stranded) <= loginFaults

AccountsInv == LoginsTyped /\ JoinsOwn /\ SignedInBelong /\ FewStranded

(* A step of a callback that makes no workspace and neither starts nor     *)
(* stops to join one: it may sign in only whom it knows to be a member.    *)
LEMMA CallbackMoves ==
    ASSUME AccountsInv, NEW r \in Callbacks, NEW c \in CallbackRecords,
           callback' = [callback EXCEPT ![r] = c], orgs' = orgs,
           DOMAIN users' \subseteq UserIDs, loginFaults' \in {loginFaults, loginFaults + 1},
           ~In(r, "joining"), c.at # "joining",
           c.at = "signedIn" => Memberships(c.user) # {}
    PROVE  AccountsInv'
<1> USE DEF AccountsInv
<1>1. LoginsTyped' /\ loginFaults' >= loginFaults
  <2>1. loginFaults \in Nat /\ loginFaults' \in Nat /\ loginFaults' >= loginFaults
    BY DEF LoginsTyped
  <2>2. callback' \in [Callbacks -> CallbackRecords]
    BY DEF LoginsTyped
  <2> QED
    BY <2>1, <2>2 DEF LoginsTyped
<1>2. callback'[r] = c /\ \A q \in Callbacks \ {r} : callback'[q] = callback[q]
  BY DEF LoginsTyped
<1>3. \A q \in Callbacks : /\ In(q, "joining")' <=> In(q, "joining")
                           /\ In(q, "joining") => Slug(q)' = Slug(q)
  <2>1. ASSUME NEW q \in Callbacks \ {r}
        PROVE  (In(q, "joining")' <=> In(q, "joining")) /\ Slug(q)' = Slug(q)
    <3>1. callback'[q] = callback[q]
      BY <1>2, <2>1
    <3> QED
      BY <3>1 DEF In, Slug, Person
  <2>2. ~In(r, "joining")'
    BY <1>2 DEF In
  <2> QED
    BY <2>1, <2>2
<1>4. JoinsOwn'
  BY <1>3 DEF JoinsOwn
<1>5. SignedInBelong'
  <2>1. ASSUME NEW q \in Callbacks, In(q, "signedIn")'
        PROVE  \E s \in DOMAIN orgs : callback'[q].user \in orgs[s]
    BY <1>2, <2>1 DEF SignedInBelong, In, Memberships
  <2> QED
    BY <2>1 DEF SignedInBelong, Memberships
<1>6. Joining' = Joining
  BY <1>3 DEF Joining
<1>7. FewStranded'
  <2>1. Stranded' = Stranded
    BY <1>6 DEF Stranded
  <2>2. Cardinality(Stranded) \in Nat
    BY FS_CardinalityType DEF FewStranded
  <2> QED
    <3>1. Cardinality(Stranded) <= loginFaults /\ loginFaults \in Nat /\ loginFaults' \in Nat
      BY <1>1 DEF FewStranded, LoginsTyped
    <3>2. Cardinality(Stranded) <= loginFaults'
      BY <1>1, <2>2, <3>1
    <3> QED
      BY <2>1, <3>2 DEF FewStranded
<1> QED
  BY <1>1, <1>4, <1>5, <1>7

(* One callback is about to join, or no longer is.                         *)
LEMMA OthersJoining ==
    ASSUME LoginsTyped, NEW r \in Callbacks, NEW step, Steps(r, step)
    PROVE  /\ \A q \in Callbacks : Slug(q)' = Slug(q) /\ callback'[q].user = callback[q].user
           /\ \A q \in Callbacks \ {r} : callback'[q].at = callback[q].at
           /\ callback'[r].at = step
BY DEF LoginsTyped, CallbackRecords, Steps, Slug, Person

LEMMA StepsTyped ==
    ASSUME LoginsTyped, NEW r \in Callbacks,
           NEW step \in {"idle", "upserting", "looking", "linking", "inserting", "listing",
                         "creating", "joining", "signedIn", "failed"}
    PROVE  /\ [callback[r] EXCEPT !.at = step] \in CallbackRecords
           /\ [callback[r] EXCEPT !.at = step].at = step
           /\ [callback[r] EXCEPT !.at = step].user = callback[r].user
           /\ Steps(r, step) =>
                /\ callback' = [callback EXCEPT ![r] = [callback[r] EXCEPT !.at = step]]
                /\ callback' \in [Callbacks -> CallbackRecords]
<1> DEFINE c == [callback[r] EXCEPT !.at = step]
<1>1. c \in CallbackRecords /\ c.at = step /\ c.user = callback[r].user
  BY DEF LoginsTyped, CallbackRecords
<1>2. Steps(r, step) => callback' = [callback EXCEPT ![r] = c]
  BY DEF Steps
<1>3. Steps(r, step) => callback' \in [Callbacks -> CallbackRecords]
  <2> HIDE DEF c
  <2> QED
    BY <1>1, <1>2 DEF LoginsTyped
<1> QED
  BY <1>1, <1>2, <1>3

LEMMA FindsTyped ==
    ASSUME LoginsTyped, NEW r \in Callbacks, NEW u \in UserIDs, NEW step \in {"linking", "listing"},
           Finds(r, u, step)
    PROVE  \E c \in CallbackRecords : /\ callback' = [callback EXCEPT ![r] = c]
                                      /\ c.at = step
<1> DEFINE c == [callback[r] EXCEPT !.at = step, !.user = u]
<1>1. c \in CallbackRecords /\ c.at = step
  BY DEF LoginsTyped, CallbackRecords
<1>2. callback' = [callback EXCEPT ![r] = c]
  BY DEF Finds, LoginsTyped, CallbackRecords
<1> QED
  BY <1>1, <1>2

LEMMA StepMoves ==
    ASSUME AccountsInv, NEW r \in Callbacks,
           NEW step \in {"inserting", "listing", "creating", "signedIn", "failed"},
           Steps(r, step), orgs' = orgs, DOMAIN users' = DOMAIN users,
           loginFaults' \in {loginFaults, loginFaults + 1}, ~In(r, "joining"),
           step = "signedIn" => Memberships(callback[r].user) # {}
    PROVE  AccountsInv'
<1> DEFINE c == [callback[r] EXCEPT !.at = step]
<1>1. /\ c \in CallbackRecords /\ c.at = step /\ c.user = callback[r].user
      /\ callback' = [callback EXCEPT ![r] = c]
  <2>1. c \in CallbackRecords /\ c.at = step /\ c.user = callback[r].user
    BY DEF AccountsInv, LoginsTyped, CallbackRecords
  <2>2. callback' = [callback EXCEPT ![r] = c]
    BY DEF Steps
  <2> QED
    BY <2>1, <2>2
<1>2. DOMAIN users' \subseteq UserIDs
  BY DEF AccountsInv, LoginsTyped
<1> HIDE DEF c
<1> QED
  BY <1>1, <1>2, CallbackMoves

LEMMA FindMoves ==
    ASSUME AccountsInv, NEW r \in Callbacks, NEW u \in UserIDs, NEW step \in {"linking", "listing"},
           Finds(r, u, step), UNCHANGED <<orgs, loginFaults>>, DOMAIN users' \subseteq UserIDs,
           ~In(r, "joining")
    PROVE  AccountsInv'
<1>1. PICK c \in CallbackRecords : callback' = [callback EXCEPT ![r] = c] /\ c.at = step
  BY FindsTyped DEF AccountsInv
<1> QED
  BY <1>1, CallbackMoves

LEMMA UpsertStep ==
    ASSUME AccountsInv, NEW r \in Callbacks, NEW account_ \in {"github", "google"},
           Upserts(r, account_), ~In(r, "joining"), UNCHANGED <<orgs, loginFaults>>
    PROVE  AccountsInv'
<1> USE DEF AccountsInv
<1>1. PICK u \in UserIDs : Finds(r, u, "listing") /\ DOMAIN users' \subseteq UserIDs
  BY DEF Upserts, Linked, ThePersons, Inserted, LoginsTyped
<1> QED
  BY <1>1, FindMoves

LEMMA BeginsStep ==
    ASSUME AccountsInv, NEW r \in Callbacks, NEW p \in Persons, NEW via \in {"github", "google"},
           Begins(r, p, via)
    PROVE  AccountsInv'
<1> DEFINE c == [at |-> IF via = "github" THEN "upserting" ELSE "looking",
                 person |-> p, via |-> via, user |-> Nobody]
<1>1. c \in CallbackRecords /\ c.at \notin {"joining", "signedIn"}
  BY DEF CallbackRecords
<1>2. callback' = [callback EXCEPT ![r] = c] /\ UNCHANGED <<users, orgs, loginFaults>>
      /\ ~In(r, "joining")
  BY DEF Begins, In
<1>3. DOMAIN users' \subseteq UserIDs
  BY <1>2 DEF AccountsInv, LoginsTyped
<1> HIDE DEF c
<1> QED
  BY <1>1, <1>2, <1>3, CallbackMoves

LEMMA LookStep ==
    ASSUME AccountsInv, NEW r \in Callbacks, GetUserByEmail(r) \/ LinkGoogleToExistingUser(r)
    PROVE  AccountsInv'
<1> USE DEF AccountsInv
<1>1. /\ UNCHANGED <<orgs, loginFaults>> /\ DOMAIN users' = DOMAIN users /\ ~In(r, "joining")
      /\ \/ \E u \in UserIDs, step \in {"linking", "listing"} : Finds(r, u, step)
         \/ \E step \in {"inserting", "listing"} : Steps(r, step)
  BY DEF GetUserByEmail, LinkGoogleToExistingUser, In, LoginsTyped, ThePersons
<1>2. CASE \E u \in UserIDs, step \in {"linking", "listing"} : Finds(r, u, step)
  <2>1. PICK u \in UserIDs, step \in {"linking", "listing"} : Finds(r, u, step)
    BY <1>2
  <2> QED
    BY <1>1, <2>1, FindMoves DEF LoginsTyped
<1>3. CASE \E step \in {"inserting", "listing"} : Steps(r, step)
  BY <1>1, <1>3, StepMoves
<1> QED
  BY <1>1, <1>2, <1>3

LEMMA ListStep ==
    ASSUME AccountsInv, NEW r \in Callbacks, ListUserOrgs(r)
    PROVE  AccountsInv'
<1> USE DEF AccountsInv
<1> DEFINE step == IF Memberships(callback[r].user) = {} THEN "creating" ELSE "signedIn"
<1>1. Steps(r, step) /\ UNCHANGED <<users, orgs, loginFaults>> /\ ~In(r, "joining")
  BY DEF ListUserOrgs, In
<1>2. step = "signedIn" => Memberships(callback[r].user) # {}
  OBVIOUS
<1>3. step \in {"creating", "signedIn"}
  OBVIOUS
<1> HIDE DEF step
<1> QED
  BY <1>1, <1>2, <1>3, StepMoves
-----------------------------------------------------------------------------
(* The new workspace has no member yet, and its maker is about to join.    *)
LEMMA CreateOrgStep ==
    ASSUME AccountsInv, NEW r \in Callbacks, CreateOrg(r)
    PROVE  AccountsInv'
<1> USE DEF AccountsInv
<1>1. CASE Steps(r, "failed") /\ UNCHANGED <<orgs, users, loginFaults>>
  <2>1. ~In(r, "joining")
    BY DEF CreateOrg, In
  <2> QED
    BY <1>1, <2>1, StepMoves
<1>2. CASE /\ Slug(r) \notin DOMAIN orgs /\ WithOrg(Slug(r), {}) /\ Steps(r, "joining")
           /\ UNCHANGED <<users, loginFaults>>
  <2>1. /\ \A q \in Callbacks : Slug(q)' = Slug(q) /\ callback'[q].user = callback[q].user
        /\ \A q \in Callbacks \ {r} : callback'[q].at = callback[q].at
        /\ callback'[r].at = "joining"
    BY <1>2, OthersJoining
  <2>2. /\ DOMAIN orgs' = DOMAIN orgs \cup {Slug(r)}
        /\ \A s \in DOMAIN orgs : orgs'[s] = orgs[s]
    BY <1>2 DEF WithOrg
  <2>3. LoginsTyped'
    <3>1. callback' \in [Callbacks -> CallbackRecords]
      BY <1>2, StepsTyped
    <3> QED
      BY <1>2, <3>1 DEF LoginsTyped
  <2>4. JoinsOwn'
    BY <2>1, <2>2 DEF JoinsOwn, In
  <2>5. SignedInBelong'
    <3>1. ASSUME NEW q \in Callbacks, In(q, "signedIn")'
          PROVE  \E s \in DOMAIN orgs' : callback'[q].user \in orgs'[s]
      <4>1. In(q, "signedIn")
        BY <2>1, <3>1 DEF In
      <4>2. PICK s \in DOMAIN orgs : callback[q].user \in orgs[s]
        BY <4>1 DEF SignedInBelong, Memberships
      <4> QED
        BY <2>1, <2>2, <4>2
    <3> QED
      BY <3>1 DEF SignedInBelong, Memberships
  <2>6. Joining \cup {Slug(r)} \subseteq Joining'
    BY <2>1 DEF Joining, In
  <2>7. Stranded' \subseteq Stranded
    BY <2>2, <2>6 DEF Stranded
  <2>8. FewStranded'
    <3>1. IsFiniteSet(Stranded') /\ Cardinality(Stranded') <= Cardinality(Stranded)
      BY <2>7, FS_Subset DEF FewStranded
    <3>2. Cardinality(Stranded') \in Nat /\ Cardinality(Stranded) \in Nat
      BY <3>1, FS_CardinalityType DEF FewStranded
    <3> QED
      BY <1>2, <3>1, <3>2 DEF FewStranded, LoginsTyped
  <2> QED
    BY <2>3, <2>4, <2>5, <2>8
<1> QED
  BY <1>1, <1>2 DEF CreateOrg

LEMMA AddMemberStep ==
    ASSUME AccountsInv, NEW r \in Callbacks, AddMember(r)
    PROVE  AccountsInv'
<1> USE DEF AccountsInv
<1>1. /\ In(r, "joining") /\ Steps(r, "signedIn") /\ UNCHANGED <<users, loginFaults>>
      /\ WithOrg(Slug(r), orgs[Slug(r)] \cup {callback[r].user})
  BY DEF AddMember
<1>2. /\ \A q \in Callbacks : Slug(q)' = Slug(q) /\ callback'[q].user = callback[q].user
      /\ \A q \in Callbacks \ {r} : callback'[q].at = callback[q].at
      /\ callback'[r].at = "signedIn"
  BY <1>1, OthersJoining
<1>3. /\ DOMAIN orgs' = DOMAIN orgs /\ Slug(r) \in DOMAIN orgs
      /\ \A s \in DOMAIN orgs : orgs[s] \subseteq orgs'[s]
      /\ \A s \in DOMAIN orgs \ {Slug(r)} : orgs'[s] = orgs[s]
      /\ callback[r].user \in orgs'[Slug(r)]
  BY <1>1 DEF WithOrg, JoinsOwn
<1>4. LoginsTyped'
  <2>1. callback' \in [Callbacks -> CallbackRecords]
    BY <1>1, StepsTyped
  <2> QED
    BY <1>1, <2>1 DEF LoginsTyped
<1>5. JoinsOwn'
  BY <1>2, <1>3 DEF JoinsOwn, In
<1>6. SignedInBelong'
  <2>1. ASSUME NEW q \in Callbacks, In(q, "signedIn")'
        PROVE  \E s \in DOMAIN orgs' : callback'[q].user \in orgs'[s]
    <3>1. CASE q = r
      BY <1>2, <1>3, <3>1
    <3>2. CASE q # r
      <4>1. In(q, "signedIn")
        BY <1>2, <2>1, <3>2 DEF In
      <4>2. PICK s \in DOMAIN orgs : callback[q].user \in orgs[s]
        BY <4>1 DEF SignedInBelong, Memberships
      <4> QED
        BY <1>2, <1>3, <4>2
    <3> QED
      BY <3>1, <3>2
  <2> QED
    BY <2>1 DEF SignedInBelong, Memberships
<1>7. Joining \subseteq Joining' \cup {Slug(r)}
  BY <1>2 DEF Joining, In
<1>8. Stranded' \subseteq Stranded
  <2>1. ASSUME NEW s \in Stranded' PROVE s \in Stranded
    <3>1. s \in DOMAIN orgs /\ orgs'[s] = {} /\ s \notin Joining'
      BY <1>3, <2>1 DEF Stranded
    <3>2. s # Slug(r)
      BY <1>3, <3>1
    <3> QED
      BY <1>3, <1>7, <3>1, <3>2 DEF Stranded
  <2> QED
    BY <2>1
<1>9. FewStranded'
  <2>1. IsFiniteSet(Stranded') /\ Cardinality(Stranded') <= Cardinality(Stranded)
    BY <1>8, FS_Subset DEF FewStranded
  <2>2. Cardinality(Stranded') \in Nat /\ Cardinality(Stranded) \in Nat
    BY <2>1, FS_CardinalityType DEF FewStranded
  <2>3. Cardinality(Stranded) <= loginFaults /\ loginFaults \in Nat /\ loginFaults' = loginFaults
    BY <1>1 DEF FewStranded, LoginsTyped
  <2>4. Cardinality(Stranded') <= loginFaults'
    BY <2>1, <2>2, <2>3
  <2> QED
    BY <2>1, <2>4 DEF FewStranded
<1> QED
  BY <1>4, <1>5, <1>6, <1>9

(* Only the failure of the statement that would make the owner a member    *)
(* leaves a workspace without one.                                         *)
LEMMA LoginFailsStep ==
    ASSUME AccountsInv, NEW r \in Callbacks, StatementFails(r)
    PROVE  AccountsInv'
<1> USE DEF AccountsInv
<1>1. /\ loginFaults' = loginFaults + 1 /\ UNCHANGED <<users, orgs>>
      /\ \E step \in {"inserting", "listing", "failed"} : Steps(r, step)
  BY DEF StatementFails
<1>2. PICK step \in {"inserting", "listing", "failed"} : Steps(r, step)
  BY <1>1
<1>3. CASE ~In(r, "joining")
  BY <1>1, <1>2, <1>3, StepMoves
<1>4. CASE In(r, "joining")
  <2>1. /\ \A q \in Callbacks : Slug(q)' = Slug(q) /\ callback'[q].user = callback[q].user
        /\ \A q \in Callbacks \ {r} : callback'[q].at = callback[q].at
        /\ callback'[r].at = step
    <3>1. LoginsTyped /\ Steps(r, step)
      BY <1>2
    <3> HIDE DEF AccountsInv
    <3> QED
      BY <3>1, OthersJoining, ZenonT(40)
  <2>2. LoginsTyped'
    <3>1. callback' \in [Callbacks -> CallbackRecords]
      BY <1>2, StepsTyped, ZenonT(40) DEF LoginsTyped
    <3>2. loginFaults' \in Nat
      BY <1>1 DEF LoginsTyped
    <3> QED
      BY <1>1, <3>1, <3>2 DEF LoginsTyped
  <2>3. JoinsOwn'
    BY <1>1, <1>2, <2>1 DEF JoinsOwn, In
  <2>4. SignedInBelong'
    <3>1. ASSUME NEW q \in Callbacks, In(q, "signedIn")'
          PROVE  \E s \in DOMAIN orgs : callback'[q].user \in orgs[s]
      BY <2>1, <3>1 DEF In, SignedInBelong, Memberships
    <3> QED
      BY <1>1, <3>1 DEF SignedInBelong, Memberships
  <2>5. Joining \subseteq Joining' \cup {Slug(r)}
    BY <2>1 DEF Joining, In
  <2>6. Stranded' \subseteq Stranded \cup {Slug(r)}
    BY <1>1, <2>5 DEF Stranded
  <2>7. FewStranded'
    <3> DEFINE S == Stranded
    <3>1. IsFiniteSet(S \cup {Slug(r)}) /\ Cardinality(S) \in Nat
      BY FS_AddElement, FS_CardinalityType DEF FewStranded
    <3>2. Cardinality(S \cup {Slug(r)}) =
              IF Slug(r) \in S THEN Cardinality(S) ELSE Cardinality(S) + 1
      BY FS_AddElement DEF FewStranded
    <3>3. /\ IsFiniteSet(Stranded')
          /\ Cardinality(Stranded') <= Cardinality(S \cup {Slug(r)})
      BY <2>6, <3>1, FS_Subset
    <3>4. Cardinality(Stranded') \in Nat
      BY <3>3, FS_CardinalityType
    <3>5. Cardinality(S) <= loginFaults
      BY DEF FewStranded
    <3> HIDE DEF S
    <3> QED
      BY <1>1, <3>1, <3>2, <3>3, <3>4, <3>5 DEF FewStranded, LoginsTyped
  <2> QED
    BY <2>2, <2>3, <2>4, <2>7
<1> QED
  BY <1>3, <1>4

LEMMA AccountsInductive ==
    ASSUME AccountsInv, [AccountsNext]_accountVars PROVE AccountsInv'
<1>1. CASE UNCHANGED accountVars
  BY <1>1 DEF accountVars, AccountsInv, LoginsTyped, JoinsOwn, SignedInBelong, FewStranded,
              Stranded, Joining, In, Slug, Person, Memberships
<1>2. ASSUME NEW r \in Callbacks, UpsertUser(r) PROVE AccountsInv'
  BY <1>2, UpsertStep DEF UpsertUser, In
<1>3. ASSUME NEW r \in Callbacks, UpsertUserByGoogle(r) PROVE AccountsInv'
  <2>1. CASE Upserts(r, "google")
    <3>1. ~In(r, "joining") /\ UNCHANGED <<orgs, loginFaults>>
      BY <1>3 DEF UpsertUserByGoogle, In
    <3> QED
      BY <2>1, <3>1, UpsertStep
  <2>2. CASE Steps(r, "failed") /\ UNCHANGED users
    <3>1. ~In(r, "joining") /\ UNCHANGED <<users, orgs, loginFaults>>
      BY <1>3, <2>2 DEF UpsertUserByGoogle, In
    <3> QED
      BY <2>2, <3>1, StepMoves
  <2> QED
    BY <1>3, <2>1, <2>2 DEF UpsertUserByGoogle
<1>4. ASSUME NEW r \in Callbacks, Replies(r) PROVE AccountsInv'
  <2>1. NoCallback \in CallbackRecords /\ NoCallback.at = "idle"
    BY DEF NoCallback, CallbackRecords
  <2> QED
    <3>1. /\ callback' = [callback EXCEPT ![r] = NoCallback] /\ ~In(r, "joining")
          /\ UNCHANGED <<users, orgs, loginFaults>>
      BY <1>4 DEF Replies, In
    <3>2. DOMAIN users' \subseteq UserIDs
      BY <3>1 DEF AccountsInv, LoginsTyped
    <3> QED
      BY <2>1, <3>1, <3>2, CallbackMoves
<1> QED
  BY <1>1, <1>2, <1>3, <1>4, BeginsStep, LookStep, ListStep, CreateOrgStep, AddMemberStep,
     LoginFailsStep DEF AccountsNext

(* However first logins of one person, by either provider, overlap and     *)
(* fail: nobody is signed in without a workspace, and no more workspaces   *)
(* are left without a member than statements failed (GitHubCallback,       *)
(* GoogleCallback).                                                        *)
THEOREM WorkspacesAreAccounted == AccountsSpec => []WorkspacesAccounted
<1>1. AccountsInit => AccountsInv
  <2> SUFFICES ASSUME AccountsInit PROVE AccountsInv
    OBVIOUS
  <2>1. NoCallback \in CallbackRecords /\ NoCallback.at = "idle"
    BY DEF NoCallback, CallbackRecords
  <2>2. LoginsTyped /\ JoinsOwn /\ SignedInBelong
    BY <2>1 DEF AccountsInit, LoginsTyped, JoinsOwn, SignedInBelong, In
  <2>3. Stranded = {}
    BY DEF AccountsInit, Stranded
  <2> QED
    BY <2>2, <2>3, FS_EmptySet DEF AccountsInv, FewStranded, AccountsInit
<1>2. AccountsInv => WorkspacesAccounted
  BY DEF AccountsInv, SignedInBelong, FewStranded, WorkspacesAccounted
<1> QED
  BY <1>1, <1>2, AccountsInductive, PTL DEF AccountsSpec

-----------------------------------------------------------------------------
(***************************************************************************)
(* The rate limit of a key that one tier uses (RateLimiter): keys that     *)
(* several tiers share do not keep it.                                     *)
(***************************************************************************)
OneTier(t) == Tiers = {t}

BucketRecords(t) == [tokens : 0..Capacity[t], since : Nat, tier : {t}]

RateTyped(t) ==
    /\ \A b \in DOMAIN bucket : bucket[b] \in BucketRecords(t)
    /\ stored # NoBucket => stored \in DOMAIN bucket
    /\ fetched \in [Clients -> Buckets \cup {NoBucket}]
    /\ \A r \in Clients : fetched[r] # NoBucket => fetched[r] \in DOMAIN bucket
    /\ DOMAIN bucket \subseteq Buckets
    /\ route \in [Clients -> Seq({t})]
    /\ \A r \in Clients : fetched[r] # NoBucket => route[r] # <<>>
    /\ budget \in [{t} -> Int] /\ budget[t] <= Capacity[t] /\ spare \in Nat

(* The requests whose bucket was dropped under them and that have still to *)
(* ask it for a token: each may get one that the ideal bucket does not     *)
(* have, but no more than one.                                             *)
Strays == {r \in Clients : fetched[r] \notin {NoBucket, stored}}

(* What is in the stored bucket, or will be in the next one, is covered by *)
(* the ideal bucket and the strays that are done.                          *)
Covered(t) ==
    /\ Cardinality(Strays) <= spare
    /\ stored # NoBucket => Tokens(stored) <= budget[t] + spare - Cardinality(Strays)
    /\ stored = NoBucket => Capacity[t] <= budget[t] + spare - Cardinality(Strays)

RateInv(t) == RateTyped(t) /\ Covered(t)

LEMMA OneCapacity ==
    ASSUME NEW t, OneTier(t)
    PROVE  /\ Capacity \in [{t} -> Nat \ {0}] /\ RefillPS \in [{t} -> Nat \ {0}]
           /\ Capacity[t] \in Nat /\ RefillPS[t] \in Nat /\ Capacity[t] > 0
           /\ Horizon \in Nat
<1>1. /\ Capacity \in [{t} -> Nat \ {0}] /\ RefillPS \in [{t} -> Nat \ {0}] /\ IdleLimit \in Nat
  BY RateAssumption DEF OneTier
<1>2. {Capacity[s] : s \in Tiers} = {Capacity[t]}
  BY DEF OneTier
<1>3. Max({Capacity[t]}) = Capacity[t]
  BY <1>1 DEF Max
<1>4. Capacity[t] \in Nat /\ RefillPS[t] \in Nat /\ Capacity[t] > 0
  BY <1>1
<1>5. Horizon \in Nat
  BY <1>1, <1>2, <1>3, <1>4 DEF Horizon
<1> QED
  BY <1>1, <1>4, <1>5

LEMMA StraysFinite ==
    /\ IsFiniteSet(Strays) /\ Cardinality(Strays) \in Nat
BY RateAssumption, FS_Subset, FS_CardinalityType DEF Strays

(* Tokens never leave 0 to the burst size.                                 *)
LEMMA TokensInRange ==
    ASSUME NEW t, OneTier(t), RateTyped(t), NEW b \in DOMAIN bucket
    PROVE  /\ bucket[b].tokens \in Nat /\ bucket[b].since \in Nat /\ bucket[b].tier = t
           /\ bucket[b].since * RefillPS[t] \in Nat
           /\ Tokens(b) = AtMost(bucket[b].tokens + bucket[b].since * RefillPS[t], Capacity[t])
           /\ Tokens(b) \in 0..Capacity[t]
<1>1. bucket[b].tokens \in 0..Capacity[t] /\ bucket[b].since \in Nat /\ bucket[b].tier = t
  BY DEF RateTyped, BucketRecords
<1>2. Capacity[t] \in Nat /\ RefillPS[t] \in Nat
  BY OneCapacity
<1>3. bucket[b].since * RefillPS[t] \in Nat
  BY <1>1, <1>2
<1>4. Tokens(b) = AtMost(bucket[b].tokens + bucket[b].since * RefillPS[t], Capacity[t])
  BY <1>1 DEF Tokens
<1>5. AtMost(bucket[b].tokens + bucket[b].since * RefillPS[t], Capacity[t]) \in 0..Capacity[t]
  BY <1>1, <1>2, <1>3 DEF AtMost
<1> QED
  BY <1>1, <1>3, <1>4, <1>5
-----------------------------------------------------------------------------
(* What the invariant says depends on these alone.                         *)
LEMMA CoverKept ==
    ASSUME NEW t, Covered(t), UNCHANGED <<stored, budget, spare>>, Strays' = Strays,
           stored # NoBucket => Tokens(stored)' = Tokens(stored)
    PROVE  Covered(t)'
BY DEF Covered

LEMMA ArrivesStep ==
    ASSUME NEW t, OneTier(t), RateInv(t), NEW r \in Clients, NEW path \in Routes, Arrives(r, path)
    PROVE  RateInv(t)'
<1>1. path \in Seq({t})
  BY RateAssumption DEF OneTier
<1>2. RateTyped(t)'
  BY <1>1 DEF Arrives, RateInv, RateTyped
<1>3. Strays' = Strays /\ (stored # NoBucket => Tokens(stored)' = Tokens(stored))
  BY DEF Arrives, Strays, Tokens
<1> QED
  BY <1>2, <1>3, CoverKept DEF Arrives, RateInv

LEMMA GetStep ==
    ASSUME NEW t, OneTier(t), RateInv(t), NEW r \in Clients, get(r)
    PROVE  RateInv(t)'
<1> USE DEF RateInv
<1>0. route[r] # <<>> /\ fetched[r] = NoBucket /\ UNCHANGED <<route, budget, spare>>
  BY DEF get
<1>1. CASE stored # NoBucket
  <2>1. fetched' = [fetched EXCEPT ![r] = stored] /\ UNCHANGED <<stored, bucket>>
    BY <1>1 DEF get
  <2>2. RateTyped(t)'
    BY <1>0, <1>1, <2>1 DEF RateTyped
  <2>3. Strays' = Strays
    BY <1>0, <2>1 DEF Strays, RateTyped
  <2>4. Tokens(stored)' = Tokens(stored)
    BY <2>1 DEF Tokens
  <2> QED
    BY <1>0, <2>1, <2>2, <2>3, <2>4, CoverKept
<1>2. CASE stored = NoBucket
  <2>1. PICK b \in Buckets : /\ b \notin DOMAIN bucket
                             /\ stored' = b /\ fetched' = [fetched EXCEPT ![r] = b]
                             /\ bucket' = [c \in DOMAIN bucket \cup {b} |->
                                  IF c = b THEN newTokenBucket(Head(route[r])) ELSE bucket[c]]
    <3> DEFINE b == CHOOSE c \in Buckets : c \notin DOMAIN bucket
    <3>1. b \in Buckets /\ b \notin DOMAIN bucket
      BY <1>2 DEF get
    <3>2. /\ stored' = b /\ fetched' = [fetched EXCEPT ![r] = b]
          /\ bucket' = [c \in DOMAIN bucket \cup {b} |->
                           IF c = b THEN newTokenBucket(Head(route[r])) ELSE bucket[c]]
      BY <1>2 DEF get
    <3> HIDE DEF b
    <3> QED
      BY <3>1, <3>2
  <2>2. Head(route[r]) = t
    <3>1. route[r] \in Seq({t}) /\ route[r] # <<>>
      BY <1>0 DEF RateTyped
    <3>2. Head(route[r]) \in {t}
      BY <3>1, HeadTailProperties
    <3> QED
      BY <3>2
  <2>3. b # NoBucket
    BY <2>1, RateAssumption
  <2>4. /\ bucket'[b] = [tokens |-> Capacity[t], since |-> 0, tier |-> t]
        /\ \A c \in DOMAIN bucket : bucket'[c] = bucket[c]
        /\ DOMAIN bucket' = DOMAIN bucket \cup {b}
    BY <2>1, <2>2 DEF newTokenBucket
  <2>5. Capacity[t] \in Nat /\ RefillPS[t] \in Nat
    BY OneCapacity
  <2>6. bucket'[b] \in BucketRecords(t)
    <3>1. Capacity[t] \in 0..Capacity[t]
      BY <2>5
    <3> QED
      BY <2>4, <3>1 DEF BucketRecords
  <2>7. RateTyped(t)'
    <3>1. \A c \in DOMAIN bucket' : bucket'[c] \in BucketRecords(t)
      BY <2>4, <2>6 DEF RateTyped
    <3>2. /\ fetched' \in [Clients -> Buckets \cup {NoBucket}]
          /\ \A q \in Clients : fetched'[q] # NoBucket => fetched'[q] \in DOMAIN bucket'
          /\ \A q \in Clients : fetched'[q] # NoBucket => route[q] # <<>>
      BY <1>0, <2>1, <2>4 DEF RateTyped
    <3>3. stored' \in DOMAIN bucket' /\ DOMAIN bucket' \subseteq Buckets
      BY <2>1, <2>4 DEF RateTyped
    <3> QED
      BY <1>0, <3>1, <3>2, <3>3 DEF RateTyped, BucketRecords
  <2>8. Strays' = Strays
    BY <1>0, <1>2, <2>1, <2>3 DEF Strays, RateTyped
  <2>9. Tokens(stored)' = Capacity[t]
    <3>1. Tokens(stored)' = AtMost(Capacity[t] + 0 * RefillPS[t], Capacity[t])
      BY <2>1, <2>4 DEF Tokens
    <3>2. AtMost(Capacity[t] + 0 * RefillPS[t], Capacity[t]) = Capacity[t]
      BY <2>5 DEF AtMost
    <3> QED
      BY <3>1, <3>2
  <2>10. Covered(t)'
    BY <1>0, <1>2, <2>1, <2>3, <2>8, <2>9 DEF Covered
  <2> QED
    BY <2>7, <2>10
<1> QED
  BY <1>1, <1>2

(* Who asks a stored bucket leaves it with one token less, or as it was.   *)
LEMMA AllowStep ==
    ASSUME NEW t, OneTier(t), RateInv(t), NEW r \in Clients, allowOne(r)
    PROVE  RateInv(t)'
<1> USE DEF RateInv
<1>1. PICK b : b = fetched[r]
  OBVIOUS
<1>2. b # NoBucket /\ b \in DOMAIN bucket /\ b \in Buckets
  BY <1>1 DEF allowOne, RateTyped
<1>3. Tokens(b) \in 0..Capacity[t] /\ Capacity[t] \in Nat /\ RefillPS[t] \in Nat
  BY <1>2, TokensInRange, OneCapacity
<1>4. PICK n \in 0..Capacity[t], k \in 0..1 :
        /\ n + k = Tokens(b)
        /\ bucket' = InUse([bucket EXCEPT ![b].tokens = n, ![b].since = 0], stored)
        /\ k = 1 => route' = [route EXCEPT ![r] = Tail(@)]
        /\ k = 0 => route' = [route EXCEPT ![r] = <<>>]
        /\ k = 1 => budget' = [budget EXCEPT ![Head(route[r])] = @ - 1]
        /\ k = 0 => budget' = budget
  <2>1. CASE Tokens(b) >= 1
    <3>1. Tokens(b) - 1 \in 0..Capacity[t] /\ Tokens(b) - 1 + 1 = Tokens(b)
      BY <1>3, <2>1
    <3>2. /\ bucket' = InUse([bucket EXCEPT ![b].tokens = Tokens(b) - 1, ![b].since = 0], stored)
          /\ route' = [route EXCEPT ![r] = Tail(@)]
          /\ budget' = [budget EXCEPT ![Head(route[r])] = @ - 1]
      BY <1>1, <2>1 DEF allowOne
    <3>3. 1 \in 0..1 /\ 1 # 0
      OBVIOUS
    <3> QED
      BY <3>1, <3>2, <3>3, Zenon
  <2>2. CASE ~(Tokens(b) >= 1)
    <3>1. Tokens(b) + 0 = Tokens(b) /\ 0 \in 0..1 /\ 0 # 1
      BY <1>3
    <3>2. /\ bucket' = InUse([bucket EXCEPT ![b].tokens = Tokens(b), ![b].since = 0], stored)
          /\ route' = [route EXCEPT ![r] = <<>>] /\ budget' = budget
      BY <1>1, <2>2 DEF allowOne
    <3> QED
      BY <1>3, <3>1, <3>2, Zenon
  <2> QED
    BY <2>1, <2>2
<1>5. fetched' = [fetched EXCEPT ![r] = NoBucket] /\ UNCHANGED <<stored, spare>>
  BY DEF allowOne
<1>6. route[r] \in Seq({t}) /\ route[r] # <<>>
  BY <1>1, <1>2 DEF RateTyped
<1>7. Head(route[r]) = t /\ Tail(route[r]) \in Seq({t})
  <2>1. Head(route[r]) \in {t} /\ Tail(route[r]) \in Seq({t})
    BY <1>6, HeadTailProperties
  <2> QED
    BY <2>1
<1>8. budget' \in [{t} -> Int] /\ budget'[t] = budget[t] - k /\ budget'[t] <= Capacity[t]
  BY <1>3, <1>4, <1>7 DEF RateTyped
<1>9. route' \in [Clients -> Seq({t})] /\ \A q \in Clients \ {r} : route'[q] = route[q]
  <2>1. <<>> \in Seq({t})
    BY EmptySeq
  <2>2. CASE k = 1
    <3>1. route' = [route EXCEPT ![r] = Tail(route[r])] /\ Tail(route[r]) \in Seq({t})
      BY <1>4, <1>7, <2>2
    <3> QED
      BY <3>1 DEF RateTyped
  <2>3. CASE k = 0
    <3>1. route' = [route EXCEPT ![r] = <<>>]
      BY <1>4, <2>3
    <3> QED
      BY <2>1, <3>1 DEF RateTyped
  <2> QED
    BY <2>2, <2>3
<1>10. /\ DOMAIN bucket' = {c \in DOMAIN bucket : c = stored \/ \E q \in Clients : fetched'[q] = c}
       /\ \A c \in DOMAIN bucket' : bucket'[c] =
             IF c = b THEN [tokens |-> n, since |-> 0, tier |-> t] ELSE bucket[c]
  <2> DEFINE f == [bucket EXCEPT ![b].tokens = n, ![b].since = 0]
  <2>1. bucket[b] \in BucketRecords(t)
    BY <1>2 DEF RateTyped
  <2>2. /\ DOMAIN f = DOMAIN bucket
        /\ \A c \in DOMAIN f \ {b} : f[c] = bucket[c]
        /\ f[b] = [tokens |-> n, since |-> 0, tier |-> t]
    BY <1>2, <2>1 DEF BucketRecords
  <2>3. bucket' = InUse(f, stored)
    BY <1>4
  <2> HIDE DEF f
  <2>4. /\ DOMAIN bucket' = {c \in DOMAIN f : c = stored \/ \E q \in Clients : fetched'[q] = c}
        /\ \A c \in DOMAIN bucket' : bucket'[c] = f[c]
    BY <2>3 DEF InUse
  <2> QED
    BY <2>2, <2>4
<1>11. /\ \A c \in DOMAIN bucket' : bucket'[c] \in BucketRecords(t)
       /\ stored # NoBucket => stored \in DOMAIN bucket'
       /\ fetched' \in [Clients -> Buckets \cup {NoBucket}]
       /\ \A q \in Clients : fetched'[q] # NoBucket =>
                                /\ fetched'[q] \in DOMAIN bucket' /\ fetched[q] # NoBucket
                                /\ q # r
       /\ DOMAIN bucket' \subseteq Buckets
  <2>1. [tokens |-> n, since |-> 0, tier |-> t] \in BucketRecords(t)
    BY <1>4 DEF BucketRecords
  <2>2. \A c \in DOMAIN bucket' : bucket'[c] \in BucketRecords(t)
    <3>1. \A c \in DOMAIN bucket : bucket[c] \in BucketRecords(t)
      BY DEF RateTyped
    <3> QED
      BY <1>10, <2>1, <3>1
  <2>3. \A q \in Clients : fetched'[q] # NoBucket => q # r /\ fetched'[q] = fetched[q]
    BY <1>5 DEF RateTyped
  <2>4. fetched' \in [Clients -> Buckets \cup {NoBucket}]
    BY <1>5 DEF RateTyped
  <2>5. \A q \in Clients : fetched'[q] # NoBucket =>
                               /\ fetched'[q] \in DOMAIN bucket' /\ fetched[q] # NoBucket
                               /\ q # r
    BY <1>10, <2>3 DEF RateTyped
  <2>6. (stored # NoBucket => stored \in DOMAIN bucket') /\ DOMAIN bucket' \subseteq Buckets
    BY <1>10 DEF RateTyped
  <2> QED
    BY <2>2, <2>4, <2>5, <2>6
<1>12. RateTyped(t)'
  <2>1. \A q \in Clients : fetched'[q] # NoBucket => route'[q] # <<>>
    BY <1>9, <1>11 DEF RateTyped
  <2> QED
    BY <1>5, <1>8, <1>9, <1>11, <2>1 DEF RateTyped, BucketRecords
<1>13. Cardinality(Strays) \in Nat /\ IsFiniteSet(Strays)
  BY StraysFinite
<1>14. CASE b = stored
  <2>1. Strays' = Strays
    BY <1>1, <1>5, <1>14 DEF Strays, RateTyped
  <2>2. Tokens(stored)' = n
    <3>1. Tokens(stored)' = AtMost(n + 0 * RefillPS[t], Capacity[t])
      BY <1>2, <1>5, <1>10, <1>14, <1>11 DEF Tokens
    <3>2. AtMost(n + 0 * RefillPS[t], Capacity[t]) = n
      BY <1>3, <1>4 DEF AtMost
    <3> QED
      BY <3>1, <3>2
  <2>3. Tokens(stored) <= budget[t] + spare - Cardinality(Strays) /\ Cardinality(Strays) <= spare
    BY <1>2, <1>14 DEF Covered
  <2>4. n <= budget'[t] + spare - Cardinality(Strays)
    BY <1>3, <1>4, <1>8, <1>13, <1>14, <2>3 DEF RateTyped
  <2> QED
    BY <1>2, <1>5, <1>12, <1>14, <2>1, <2>2, <2>3, <2>4 DEF Covered
<1>15. CASE b # stored
  <2>1. Strays' = Strays \ {r} /\ r \in Strays
    BY <1>1, <1>2, <1>5, <1>15 DEF Strays, RateTyped
  <2>2. Cardinality(Strays') = Cardinality(Strays) - 1
    BY <1>13, <2>1, FS_RemoveElement
  <2>3. stored # NoBucket => Tokens(stored)' = Tokens(stored)
    <3>1. stored # NoBucket => bucket'[stored] = bucket[stored]
      BY <1>10, <1>15, <1>11
    <3> QED
      BY <1>5, <3>1 DEF Tokens
  <2>4. stored # NoBucket => Tokens(stored) \in Int
    BY TokensInRange, OneCapacity DEF RateTyped
  <2>5. /\ budget[t] \in Int /\ spare \in Nat /\ Capacity[t] \in Nat /\ Cardinality(Strays) \in Nat
        /\ budget'[t] + spare - Cardinality(Strays')
             >= budget[t] + spare - Cardinality(Strays)
        /\ budget'[t] + spare - Cardinality(Strays') \in Int
    <3>1. budget[t] \in Int /\ spare \in Nat /\ k \in Int /\ k <= 1
      BY <1>4 DEF RateTyped
    <3>2. budget'[t] = budget[t] - k
      BY <1>8
    <3> QED
      BY <1>3, <1>13, <2>2, <3>1, <3>2
  <2>6. Cardinality(Strays') <= spare
    BY <1>13, <2>2, <2>5 DEF Covered
  <2>7. stored # NoBucket => Tokens(stored)' <= budget'[t] + spare - Cardinality(Strays')
    <3> SUFFICES ASSUME stored # NoBucket
                 PROVE  Tokens(stored)' <= budget'[t] + spare - Cardinality(Strays')
      OBVIOUS
    <3>1. Tokens(stored) <= budget[t] + spare - Cardinality(Strays)
      BY DEF Covered
    <3> QED
      BY <2>3, <2>4, <2>5, <3>1
  <2>8. stored = NoBucket => Capacity[t] <= budget'[t] + spare - Cardinality(Strays')
    <3> SUFFICES ASSUME stored = NoBucket
                 PROVE  Capacity[t] <= budget'[t] + spare - Cardinality(Strays')
      OBVIOUS
    <3>1. Capacity[t] <= budget[t] + spare - Cardinality(Strays)
      BY DEF Covered
    <3> QED
      BY <2>5, <3>1
  <2> QED
    BY <1>5, <1>12, <2>6, <2>7, <2>8 DEF Covered
<1> QED
  BY <1>14, <1>15

(* Only a full bucket is dropped, so the next one holds no more; who held  *)
(* it becomes a stray, and is counted as one that may pass besides.        *)
LEMMA CleanupStep ==
    ASSUME NEW t, OneTier(t), RateInv(t), cleanupLoop
    PROVE  RateInv(t)'
<1> USE DEF RateInv
<1> DEFINE H == {r \in Clients : fetched[r] = stored}
<1>1. /\ stored # NoBucket /\ Tokens(stored) = Capacity[bucket[stored].tier]
      /\ stored' = NoBucket /\ spare' = spare + Cardinality(H)
      /\ UNCHANGED <<route, fetched, budget>> /\ bucket' = InUse(bucket, NoBucket)
  BY DEF cleanupLoop
<1>2. stored \in DOMAIN bucket
  BY <1>1 DEF RateTyped
<1>3. Tokens(stored) = Capacity[t] /\ Capacity[t] \in Nat
  BY <1>1, <1>2, TokensInRange, OneCapacity
<1>4. IsFiniteSet(H) /\ Cardinality(H) \in Nat
  BY RateAssumption, FS_Subset, FS_CardinalityType
<1>5. IsFiniteSet(Strays) /\ Cardinality(Strays) \in Nat
  BY StraysFinite
<1>6. Strays' = Strays \cup H /\ Strays \cap H = {}
  BY <1>1 DEF Strays
<1>7. Cardinality(Strays') = Cardinality(Strays) + Cardinality(H)
  <2> HIDE DEF H
  <2>1. Cardinality(Strays \cap H) = 0
    BY <1>6, FS_EmptySet
  <2>2. Cardinality(Strays \cup H)
            = Cardinality(Strays) + Cardinality(H) - Cardinality(Strays \cap H)
    BY <1>4, <1>5, FS_Union
  <2>3. Cardinality(Strays') = Cardinality(Strays \cup H)
    BY <1>6, Zenon
  <2> QED
    BY <1>4, <1>5, <2>1, <2>2, <2>3
<1>8. spare' \in Nat
  <2> HIDE DEF H
  <2> QED
    BY <1>1, <1>4 DEF RateTyped
<1>9. /\ DOMAIN bucket' = {c \in DOMAIN bucket : c = NoBucket \/ \E r \in Clients : fetched[r] = c}
      /\ \A c \in DOMAIN bucket' : bucket'[c] = bucket[c]
  BY <1>1 DEF InUse
<1>10. RateTyped(t)'
  BY <1>1, <1>8, <1>9 DEF RateTyped, BucketRecords
<1>11. /\ Cardinality(Strays) <= spare
       /\ Capacity[t] <= budget[t] + spare - Cardinality(Strays)
       /\ budget[t] \in Int /\ spare \in Nat
  BY <1>1, <1>3 DEF Covered, RateTyped
<1> HIDE DEF H
<1>12. /\ Cardinality(Strays') <= spare'
       /\ Capacity[t] <= budget[t] + spare' - Cardinality(Strays')
  BY <1>1, <1>3, <1>4, <1>5, <1>7, <1>11
<1> QED
  BY <1>1, <1>10, <1>12 DEF Covered

(* One tick refills a bucket by at most the rate.                          *)
LEMMA RefillsByRate ==
    ASSUME NEW n \in Nat, NEW m \in Nat, NEW k \in Nat, NEW rate \in Nat, NEW top \in Nat,
           k <= m + 1
    PROVE  /\ AtMost(n + k * rate, top) \in Nat
           /\ AtMost(n + k * rate, top) <= AtMost(n + m * rate, top) + rate
           /\ AtMost(n + k * rate, top) <= top
<1>1. k * rate \in Nat /\ m * rate \in Nat /\ (m + 1) * rate = m * rate + rate
  OBVIOUS
<1>2. k * rate <= (m + 1) * rate
  OBVIOUS
<1> QED
  BY <1>1, <1>2 DEF AtMost

LEMMA TickStep ==
    ASSUME NEW t, OneTier(t), RateInv(t), RateTick
    PROVE  RateInv(t)'
<1> USE DEF RateInv
<1>1. /\ bucket' = [b \in DOMAIN bucket |-> [bucket[b] EXCEPT !.since = AtMost(@ + 1, Horizon)]]
      /\ budget' = [s \in Tiers |-> AtMost(budget[s] + RefillPS[s], Capacity[s])]
      /\ UNCHANGED <<stored, route, fetched, spare>>
  BY DEF RateTick
<1>2. Capacity[t] \in Nat /\ RefillPS[t] \in Nat /\ Horizon \in Nat /\ budget[t] \in Int
      /\ budget[t] <= Capacity[t] /\ spare \in Nat
  BY OneCapacity DEF RateTyped
<1>3. budget' \in [{t} -> Int] /\ budget'[t] = AtMost(budget[t] + RefillPS[t], Capacity[t])
      /\ budget'[t] <= Capacity[t]
  BY <1>1, <1>2 DEF OneTier, AtMost
<1>4. ASSUME NEW b \in DOMAIN bucket
      PROVE  /\ bucket[b] \in BucketRecords(t) /\ bucket'[b] \in BucketRecords(t)
             /\ bucket'[b].tokens = bucket[b].tokens /\ bucket'[b].tier = t
             /\ bucket'[b].since \in Nat /\ bucket'[b].since <= bucket[b].since + 1
  <2>1. bucket[b] \in BucketRecords(t)
    BY DEF RateTyped
  <2>2. bucket'[b] = [bucket[b] EXCEPT !.since = AtMost(@ + 1, Horizon)]
    BY <1>1
  <2>3. bucket[b].since \in Nat
    BY <2>1 DEF BucketRecords
  <2>4. AtMost(bucket[b].since + 1, Horizon) \in Nat
        /\ AtMost(bucket[b].since + 1, Horizon) <= bucket[b].since + 1
    BY <1>2, <2>3 DEF AtMost
  <2> QED
    BY <2>1, <2>2, <2>3, <2>4 DEF BucketRecords
<1>5. RateTyped(t)'
  <2>1. DOMAIN bucket' = DOMAIN bucket
    BY <1>1
  <2> QED
    BY <1>1, <1>3, <1>4, <2>1 DEF RateTyped, BucketRecords
<1>6. Strays' = Strays
  BY <1>1 DEF Strays
<1>7. Cardinality(Strays) \in Nat /\ Cardinality(Strays) <= spare
  BY StraysFinite DEF Covered
<1>8. stored = NoBucket => Capacity[t] <= budget'[t] + spare - Cardinality(Strays)
  <2> SUFFICES ASSUME stored = NoBucket
               PROVE  Capacity[t] <= budget'[t] + spare - Cardinality(Strays)
    OBVIOUS
  <2>1. Capacity[t] <= budget[t] + spare - Cardinality(Strays)
    BY DEF Covered
  <2> QED
    BY <1>2, <1>3, <1>7, <2>1 DEF AtMost
<1>9. stored # NoBucket => Tokens(stored)' <= budget'[t] + spare - Cardinality(Strays)
  <2> SUFFICES ASSUME stored # NoBucket
               PROVE  Tokens(stored)' <= budget'[t] + spare - Cardinality(Strays)
    OBVIOUS
  <2>1. stored \in DOMAIN bucket /\ stored' = stored
    BY <1>1 DEF RateTyped
  <2>2. PICK n \in Nat, m \in Nat, k \in Nat :
          /\ n = bucket[stored].tokens /\ m = bucket[stored].since /\ k = bucket'[stored].since
          /\ k <= m + 1
    BY <1>4, <2>1, TokensInRange
  <2>3. Tokens(stored) = AtMost(n + m * RefillPS[t], Capacity[t])
    BY <2>1, <2>2, TokensInRange
  <2>4. Tokens(stored)' = AtMost(n + k * RefillPS[t], Capacity[t])
    BY <1>4, <2>1, <2>2 DEF Tokens
  <2>5. /\ AtMost(n + k * RefillPS[t], Capacity[t]) \in Nat
        /\ AtMost(n + k * RefillPS[t], Capacity[t])
             <= AtMost(n + m * RefillPS[t], Capacity[t]) + RefillPS[t]
        /\ AtMost(n + k * RefillPS[t], Capacity[t]) <= Capacity[t]
    BY <1>2, <2>2, RefillsByRate
  <2>6. Tokens(stored) <= budget[t] + spare - Cardinality(Strays) /\ Tokens(stored) \in Nat
    BY <2>1, TokensInRange, OneCapacity DEF Covered
  <2>7. Tokens(stored)' <= Tokens(stored) + RefillPS[t] /\ Tokens(stored)' <= Capacity[t]
        /\ Tokens(stored)' \in Nat
    BY <2>3, <2>4, <2>5
  <2> QED
    BY <1>2, <1>3, <1>7, <2>6, <2>7 DEF AtMost
<1> QED
  BY <1>1, <1>5, <1>6, <1>7, <1>8, <1>9 DEF Covered

LEMMA RateInductive ==
    ASSUME NEW t, OneTier(t), RateInv(t), [RateNext]_rateVars
    PROVE  RateInv(t)'
<1>1. CASE UNCHANGED rateVars
  <2>1. UNCHANGED <<stored, bucket, route, fetched, budget, spare>>
    BY <1>1 DEF rateVars
  <2>2. Strays' = Strays /\ Tokens(stored)' = Tokens(stored)
    BY <2>1 DEF Strays, Tokens
  <2>3. RateTyped(t)'
    BY <2>1 DEF RateInv, RateTyped, BucketRecords
  <2> QED
    BY <2>1, <2>2, <2>3, CoverKept DEF RateInv
<1> QED
  BY <1>1, ArrivesStep, GetStep, AllowStep, CleanupStep, TickStep DEF RateNext

LEMMA RateInitially == ASSUME NEW t, OneTier(t), RateInit PROVE RateInv(t)
<1>1. Strays = {}
  BY DEF RateInit, Strays
<1>2. Cardinality(Strays) = 0
  BY <1>1, FS_EmptySet
<1>3. <<>> \in Seq({t})
  BY EmptySeq
<1>4. Capacity \in [{t} -> Nat \ {0}] /\ Capacity[t] \in Nat
  BY OneCapacity
<1>5. RateTyped(t)
  BY <1>3, <1>4 DEF RateInit, RateTyped
<1> QED
  BY <1>2, <1>4, <1>5 DEF RateInit, RateInv, Covered

(* However get, allow and the cleanup interleave, no more requests pass    *)
(* than an ideal bucket allows, but for one per request that held a bucket *)
(* when it was dropped (MemoryStore, tokenBucket.allow): for a key that    *)
(* one tier uses, with any burst size, rate, idle time and requests.       *)
THEOREM LimitIsKept ==
    ASSUME NEW t, OneTier(t) PROVE RateSpec => []NeverOverLimit
<1>1. RateInit => RateInv(t)
  BY RateInitially
<1>2. RateInv(t) /\ [RateNext]_rateVars => RateInv(t)'
  BY RateInductive
<1>3. RateInv(t) => NeverOverLimit
  <2> SUFFICES ASSUME RateInv(t) PROVE budget[t] + spare >= 0
    BY DEF NeverOverLimit, OneTier
  <2>1. Cardinality(Strays) \in Nat /\ budget[t] \in Int /\ spare \in Nat /\ Capacity[t] \in Nat
    BY StraysFinite, OneCapacity DEF RateInv, RateTyped
  <2>2. CASE stored = NoBucket
    BY <2>1, <2>2 DEF RateInv, Covered
  <2>3. CASE stored # NoBucket
    <3>1. stored \in DOMAIN bucket
      BY <2>3 DEF RateInv, RateTyped
    <3>2. Tokens(stored) \in 0..Capacity[t]
      BY <3>1, TokensInRange DEF RateInv
    <3>3. Tokens(stored) <= budget[t] + spare - Cardinality(Strays)
      BY <2>3 DEF RateInv, Covered
    <3> QED
      BY <2>1, <3>2, <3>3
  <2> QED
    BY <2>2, <2>3
<1> QED
  BY <1>1, <1>2, <1>3, PTL DEF RateSpec

-----------------------------------------------------------------------------
(***************************************************************************)
(* The subscription row (Billing).                                         *)
(***************************************************************************)
(* What the row says once event e has been handled, and what it has to say *)
(* in the end.                                                             *)
RowOf(e) == [status |-> mapStripeStatus(e.status), plan |-> e.plan]
Stated == [account EXCEPT !.status = IF @ = "none" THEN @ ELSE mapStripeStatus(@)]

GoodEvent(e) ==
    /\ e.type \in {"completed", "updated", "deleted"}
    /\ e.type = "completed" => e.status = "active"
    /\ e.type = "deleted" => e.status = "canceled"

(* The handler of e makes RowOf(e) of row r: a checkout of any row, the    *)
(* others of a row with the plan they name.                                *)
Leads(r, e) == e.type = "completed" \/ (r.status # "none" /\ r.plan = e.plan)

OneBusy == \A c, d \in Deliveries : Busy(c) /\ Busy(d) => c = d
ReadsRow ==
    \A d \in Deliveries : Busy(d) => /\ GoodEvent(delivery[d].event)
                                     /\ Leads(row, delivery[d].event)
                                     /\ delivery[d].read \in {Unread, row}
InboxChained ==
    /\ \A i \in 1..Len(inbox) : GoodEvent(inbox[i])
    /\ \A i \in 1..Len(inbox) : i > 1 => Leads(RowOf(inbox[i - 1]), inbox[i])

(* a is the row as it is, or as it will be once the delivery under way is  *)
(* done: the events still to come lead from it to what Stripe says.        *)
Follows(a) ==
    /\ OneBusy /\ ReadsRow /\ InboxChained
    /\ \A d \in Deliveries : Busy(d) => a = RowOf(delivery[d].event)
    /\ (\A d \in Deliveries : ~Busy(d)) => a = row
    /\ inbox = <<>> => a = Stated
    /\ inbox # <<>> => Leads(a, inbox[1]) /\ RowOf(inbox[Len(inbox)]) = Stated

FollowInv ==
    /\ PlansKnown /\ disorder \in Nat
    /\ disorder = 0 => \E a \in Rows : Follows(a)

LEMMA StatedStatus ==
    ASSUME PlansKnown, account.status # "none"
    PROVE  Stated.status = mapStripeStatus(account.status) /\ Stated.plan = account.plan
           /\ Stated.status # "none"
BY DEF PlansKnown, Rows, Stated, mapStripeStatus

LEMMA EmitsFollows ==
    ASSUME PlansKnown, NEW a \in Rows, Follows(a), NEW e, Emits(e),
           GoodEvent(e), Leads(Stated, e), RowOf(e) = Stated'
    PROVE  Follows(a)'
<1>1. inbox' = Append(inbox, e) /\ UNCHANGED <<delivery, row>>
  BY DEF Emits
<1>2. inbox \in Seq(Events) /\ Len(inbox) \in Nat
  BY LenProperties DEF PlansKnown
<1>3. /\ inbox' # <<>> /\ Len(inbox') = Len(inbox) + 1
      /\ \A i \in 1..Len(inbox) : inbox'[i] = inbox[i]
      /\ inbox'[Len(inbox) + 1] = e
  <2>1. inbox \in Seq(Events \cup {e}) /\ e \in Events \cup {e}
    BY <1>2
  <2> QED
    BY <1>1, <2>1, AppendProperties
<1>4. OneBusy' /\ ReadsRow'
  BY <1>1 DEF Follows, OneBusy, ReadsRow, Busy
<1>5. /\ \A d \in Deliveries : Busy(d)' => a = RowOf(delivery'[d].event)
      /\ (\A d \in Deliveries : ~Busy(d)') => a = row'
  BY <1>1 DEF Follows, Busy
<1>6. inbox # <<>> => Len(inbox) >= 1 /\ RowOf(inbox[Len(inbox)]) = Stated /\ Leads(a, inbox[1])
  BY <1>2, EmptySeq DEF Follows
<1>7. Len(inbox) = 0 => inbox = <<>>
  BY <1>2, EmptySeq
<1>8. InboxChained'
  <2>1. ASSUME NEW i \in 1..Len(inbox') PROVE GoodEvent(inbox'[i])
    <3>1. CASE i = Len(inbox) + 1
      BY <1>3, <3>1
    <3>2. CASE i # Len(inbox) + 1
      <4>1. i \in 1..Len(inbox)
        BY <1>2, <1>3, <3>2
      <4> QED
        BY <1>3, <4>1 DEF Follows, InboxChained
    <3> QED
      BY <3>1, <3>2
  <2>2. ASSUME NEW i \in 1..Len(inbox'), i > 1 PROVE Leads(RowOf(inbox'[i - 1]), inbox'[i])
    <3>1. CASE i = Len(inbox) + 1
      <4>1. Len(inbox) >= 1 /\ i - 1 = Len(inbox) /\ Len(inbox) \in 1..Len(inbox)
        BY <1>2, <2>2, <3>1
      <4>2. inbox # <<>>
        BY <4>1, EmptySeq
      <4>3. RowOf(inbox'[i - 1]) = Stated
        BY <1>3, <1>6, <4>1, <4>2
      <4> QED
        BY <1>3, <3>1, <4>3
    <3>2. CASE i # Len(inbox) + 1
      <4>1. i \in 1..Len(inbox) /\ i - 1 \in 1..Len(inbox)
        BY <1>2, <1>3, <2>2, <3>2
      <4> QED
        BY <1>3, <2>2, <4>1 DEF Follows, InboxChained
    <3> QED
      BY <3>1, <3>2
  <2> QED
    BY <2>1, <2>2 DEF InboxChained
<1>9. Leads(a, inbox'[1])
  <2>1. CASE inbox = <<>>
    <3>1. inbox'[1] = e /\ a = Stated
      BY <1>3, <2>1, EmptySeq DEF Follows
    <3> QED
      BY <3>1
  <2>2. CASE inbox # <<>>
    <3>1. 1 \in 1..Len(inbox)
      BY <1>2, <1>6, <2>2
    <3> QED
      BY <1>3, <1>6, <2>2, <3>1
  <2> QED
    BY <2>1, <2>2
<1>10. RowOf(inbox'[Len(inbox')]) = Stated'
  BY <1>3
<1> QED
  BY <1>3, <1>4, <1>5, <1>8, <1>9, <1>10 DEF Follows

(* External: whatever Stripe does next, its event leads on from what it    *)
(* has said so far.                                                        *)
LEMMA StripeFollows ==
    ASSUME PlansKnown, NEW a \in Rows, Follows(a),
           \/ \E plan \in Plans : Checkout(plan)
           \/ \E status \in {"active", "past_due", "trialing", "unpaid"} : StatusChanges(status)
           \/ SubscriptionEnds
    PROVE  Follows(a)'
<1>0. account \in Rows
  BY DEF PlansKnown
<1>1. ASSUME NEW plan \in Plans, Checkout(plan)
      PROVE  Follows(a)'
  <2> DEFINE e == [type |-> "completed", status |-> "active", plan |-> plan]
  <2>1. Emits(e) /\ GoodEvent(e) /\ Leads(Stated, e)
    BY <1>1 DEF Checkout, GoodEvent, Leads
  <2>2. RowOf(e) = Stated'
    BY <1>1 DEF Checkout, RowOf, Stated, mapStripeStatus
  <2> HIDE DEF e
  <2> QED
    BY <2>1, <2>2, EmitsFollows
<1>2. ASSUME NEW status \in {"active", "past_due", "trialing", "unpaid"}, StatusChanges(status)
      PROVE  Follows(a)'
  <2> DEFINE e == [type |-> "updated", status |-> status, plan |-> account.plan]
  <2>1. Stated.plan = account.plan /\ Stated.status # "none"
    BY <1>2, StatedStatus DEF StatusChanges
  <2>2. Emits(e) /\ GoodEvent(e) /\ Leads(Stated, e)
    BY <1>2, <2>1 DEF StatusChanges, GoodEvent, Leads
  <2>3. account' = [status |-> status, plan |-> account.plan]
    BY <1>0, <1>2 DEF StatusChanges, Rows
  <2>4. Stated' = [status |-> mapStripeStatus(status), plan |-> account.plan]
    BY <2>3 DEF Stated
  <2>5. RowOf(e) = Stated'
    BY <2>4 DEF RowOf
  <2> HIDE DEF e
  <2> QED
    BY <2>2, <2>5, EmitsFollows
<1>3. CASE SubscriptionEnds
  <2> DEFINE e == [type |-> "deleted", status |-> "canceled", plan |-> account.plan]
  <2>1. Stated.plan = account.plan /\ Stated.status # "none"
    BY <1>3, StatedStatus DEF SubscriptionEnds
  <2>2. Emits(e) /\ GoodEvent(e) /\ Leads(Stated, e)
    BY <1>3, <2>1 DEF SubscriptionEnds, GoodEvent, Leads
  <2>3. account' = [status |-> "canceled", plan |-> account.plan]
    BY <1>0, <1>3 DEF SubscriptionEnds, Rows
  <2>4. RowOf(e) = Stated'
    BY <2>3 DEF RowOf, Stated, mapStripeStatus
  <2> HIDE DEF e
  <2> QED
    BY <2>2, <2>4, EmitsFollows
<1> QED
  BY <1>1, <1>2, <1>3

LEMMA FirstRemoved ==
    ASSUME NEW S, NEW s \in Seq(S), s # <<>>
    PROVE  /\ Len(s) \in Nat /\ Len(s) >= 1
           /\ Len(RemoveAt(s, 1)) = Len(s) - 1
           /\ \A i \in 1..Len(s) - 1 : RemoveAt(s, 1)[i] = s[i + 1]
<1>1. Len(s) \in Nat /\ Len(s) >= 1
  BY EmptySeq, LenProperties
<1>2. \A i \in 2..Len(s) : s[i] \in S
  BY <1>1, ElementOfSeq
<1>3. SubSeq(s, 1, 0) = <<>>
  BY SubSeqEmpty
<1> DEFINE rest == SubSeq(s, 2, Len(s))
<1>4. /\ rest \in Seq(S) /\ Len(rest) = Len(s) - 1
      /\ \A i \in 1..Len(s) - 1 : rest[i] = s[i + 1]
  <2>1. /\ rest \in Seq(S) /\ Len(rest) = IF 2 <= Len(s) THEN Len(s) - 2 + 1 ELSE 0
        /\ \A i \in 1..Len(s) - 2 + 1 : rest[i] = s[2 + i - 1]
    BY <1>1, <1>2, SubSeqProperties
  <2> HIDE DEF rest
  <2>2. ASSUME NEW i \in 1..Len(s) - 1 PROVE rest[i] = s[i + 1]
    <3>1. i \in 1..Len(s) - 2 + 1 /\ 2 + i - 1 = i + 1
      BY <1>1
    <3>2. rest[i] = s[2 + i - 1]
      BY <2>1, <3>1
    <3> QED
      BY <3>1, <3>2
  <2>3. Len(rest) = Len(s) - 1
    <3>1. Len(rest) = IF 2 <= Len(s) THEN Len(s) - 2 + 1 ELSE 0
      BY <2>1
    <3>2. PICK n \in Nat : n = Len(s)
      BY <1>1
    <3> QED
      BY <1>1, <3>1, <3>2
  <2> QED
    BY <2>1, <2>2, <2>3
<1>5. RemoveAt(s, 1) = SubSeq(s, 1, 0) \o rest
  BY DEF RemoveAt
<1>6. RemoveAt(s, 1) = rest
  <2> HIDE DEF rest
  <2> QED
    BY <1>3, <1>4, <1>5, ConcatEmptySeq
<1> HIDE DEF rest
<1> QED
  BY <1>1, <1>4, <1>6

(* The next event, alone: the row becomes what the event says.             *)
LEMMA DeliveredFollows ==
    ASSUME PlansKnown, NEW a \in Rows, Follows(a), NEW d \in Deliveries, NEW again \in BOOLEAN,
           NEW i \in 1..MaxEvents, Delivered(d, i, again), disorder' = 0, disorder \in Nat
    PROVE  \E b \in Rows : Follows(b)'
<1>1. /\ ~Busy(d) /\ i \in DOMAIN inbox /\ UNCHANGED <<account, row>>
      /\ delivery' = [delivery EXCEPT ![d] = [event |-> inbox[i], read |-> Unread]]
      /\ inbox' = IF again THEN inbox ELSE RemoveAt(inbox, i)
      /\ Irregular(i > 1 \/ again \/ \E o \in Deliveries : Busy(o))
  BY DEF Delivered
<1>2. ~(i > 1) /\ ~again /\ \A o \in Deliveries : ~Busy(o)
  BY <1>1 DEF Irregular
<1>3. inbox \in Seq(Events) /\ i \in 1..Len(inbox) /\ Len(inbox) \in Nat
  BY <1>1, LenProperties DEF PlansKnown
<1>4. i = 1 /\ Len(inbox) >= 1 /\ inbox # <<>>
  BY <1>2, <1>3, EmptySeq
<1>5. PICK e \in Events : e = inbox[1]
  BY <1>3, <1>4, ElementOfSeq
<1>6. /\ delivery' = [delivery EXCEPT ![d] = [event |-> e, read |-> Unread]]
      /\ inbox' = RemoveAt(inbox, 1)
  BY <1>1, <1>2, <1>4, <1>5
<1>7. /\ Len(inbox') = Len(inbox) - 1
      /\ \A j \in 1..Len(inbox) - 1 : inbox'[j] = inbox[j + 1]
  BY <1>3, <1>4, <1>6, FirstRemoved
<1>8. a = row /\ GoodEvent(e) /\ Leads(row, e)
  BY <1>2, <1>3, <1>4, <1>5 DEF Follows, InboxChained
<1>9. PICK b \in Rows : b = RowOf(e)
  BY <1>5 DEF RowOf, Rows, Events, mapStripeStatus, Statuses
<1>10. e # NoEvent
  BY <1>8 DEF GoodEvent, NoEvent
<1>11. /\ delivery'[d] = [event |-> e, read |-> Unread]
       /\ \A o \in Deliveries \ {d} : delivery'[o] = delivery[o]
  BY <1>6 DEF PlansKnown
<1>12. \A o \in Deliveries : Busy(o)' <=> o = d
  BY <1>2, <1>10, <1>11 DEF Busy
<1>13. OneBusy' /\ ReadsRow'
  BY <1>1, <1>8, <1>11, <1>12 DEF OneBusy, ReadsRow
<1>14. InboxChained'
  <2>1. \A j \in 1..Len(inbox') : /\ j \in 1..Len(inbox) - 1 /\ j + 1 \in 1..Len(inbox)
                                  /\ j > 1 => j - 1 \in 1..Len(inbox) - 1 /\ (j - 1) + 1 = j
                                  /\ j + 1 > 1 /\ (j + 1) - 1 = j
    BY <1>3, <1>4, <1>7
  <2>2. ASSUME NEW j \in 1..Len(inbox') PROVE GoodEvent(inbox'[j])
    BY <1>7, <2>1 DEF Follows, InboxChained
  <2>3. ASSUME NEW j \in 1..Len(inbox'), j > 1 PROVE Leads(RowOf(inbox'[j - 1]), inbox'[j])
    <3>1. inbox'[j - 1] = inbox[j] /\ inbox'[j] = inbox[j + 1]
      BY <1>7, <2>1, <2>3
    <3>2. Leads(RowOf(inbox[(j + 1) - 1]), inbox[j + 1])
      BY <2>1 DEF Follows, InboxChained
    <3> QED
      BY <2>1, <3>1, <3>2
  <2> QED
    BY <2>2, <2>3 DEF InboxChained
<1>15. Stated' = Stated /\ RowOf(inbox[Len(inbox)]) = Stated
  BY <1>1, <1>4 DEF Stated, Follows
<1>16. CASE Len(inbox) = 1
  <2>1. inbox' = <<>>
    <3>1. inbox' \in Seq(Events)
      BY <1>3, <1>4, <1>6, RemovedFromSeq, LenProperties
    <3> QED
      BY <1>7, <1>16, <3>1, EmptySeq
  <2>2. b = Stated'
    BY <1>5, <1>9, <1>15, <1>16
  <2>3. /\ \A o \in Deliveries : Busy(o)' => b = RowOf(delivery'[o].event)
        /\ ~(\A o \in Deliveries : ~Busy(o)')
    BY <1>9, <1>11, <1>12
  <2>4. Follows(b)'
    BY <1>13, <1>14, <2>1, <2>2, <2>3 DEF Follows
  <2> QED
    BY <1>9, <2>4
<1>17. CASE Len(inbox) # 1
  <2>1. /\ inbox'[1] = inbox[2] /\ inbox'[Len(inbox')] = inbox[Len(inbox)] /\ inbox' # <<>>
    <3>1. /\ 1 \in 1..Len(inbox) - 1 /\ 1 + 1 = 2 /\ Len(inbox) - 1 \in 1..Len(inbox) - 1
          /\ (Len(inbox) - 1) + 1 = Len(inbox) /\ Len(inbox') # 0
      <4>1. Len(inbox) \in Nat /\ Len(inbox) >= 1 /\ Len(inbox) # 1 /\ Len(inbox') = Len(inbox) - 1
        BY <1>3, <1>4, <1>7, <1>17
      <4> QED
        BY <4>1
    <3> QED
      BY <1>7, <3>1, EmptySeq
  <2>2. Leads(RowOf(inbox[1]), inbox[2])
    <3>1. 2 \in 1..Len(inbox) /\ 2 > 1 /\ 2 - 1 = 1
      <4>1. PICK n \in Nat : n = Len(inbox)
        BY <1>3
      <4>2. n >= 1 /\ n # 1
        BY <1>4, <1>17, <4>1
      <4>3. 2 \in 1..n
        BY <4>2
      <4> QED
        BY <4>1, <4>3
    <3>2. Leads(RowOf(inbox[2 - 1]), inbox[2])
      BY <3>1 DEF Follows, InboxChained
    <3> QED
      BY <3>1, <3>2
  <2>3. Leads(b, inbox'[1]) /\ RowOf(inbox'[Len(inbox')]) = Stated'
    BY <1>5, <1>9, <1>15, <2>1, <2>2
  <2>4. /\ \A o \in Deliveries : Busy(o)' => b = RowOf(delivery'[o].event)
        /\ ~(\A o \in Deliveries : ~Busy(o)')
    BY <1>9, <1>11, <1>12
  <2>5. Follows(b)'
    BY <1>13, <1>14, <2>1, <2>3, <2>4 DEF Follows
  <2> QED
    BY <1>9, <2>5
<1> QED
  BY <1>16, <1>17

(* A handler that is done leaves the row its event leads to.               *)
LEMMA WritesFollow ==
    ASSUME PlansKnown, NEW a \in Rows, Follows(a), NEW d \in Deliveries, Busy(d), Answered(d),
           row' = RowOf(delivery[d].event), UNCHANGED <<account, inbox>>
    PROVE  Follows(a)'
<1>1. a = row'
  BY DEF Follows
<1>2. \A o \in Deliveries : ~Busy(o)'
  <2>1. \A o \in Deliveries : Busy(o) => o = d
    BY DEF Follows, OneBusy
  <2>2. /\ delivery'[d] = [event |-> NoEvent, read |-> Unread]
        /\ \A o \in Deliveries \ {d} : delivery'[o] = delivery[o]
    BY DEF Answered, PlansKnown
  <2> QED
    BY <2>1, <2>2 DEF Busy
<1>3. OneBusy' /\ ReadsRow' /\ InboxChained'
  BY <1>2 DEF OneBusy, ReadsRow, InboxChained, Follows
<1>4. Stated' = Stated
  BY DEF Stated
<1> QED
  BY <1>1, <1>2, <1>3, <1>4 DEF Follows

LEMMA HandlersFollow ==
    ASSUME PlansKnown, NEW a \in Rows, Follows(a), NEW d \in Deliveries,
           \/ handleCheckoutCompleted(d) \/ ReadByCustomer(d)
           \/ handleSubscriptionUpdated(d) \/ handleSubscriptionDeleted(d)
    PROVE  Follows(a)'
<1>1. Busy(d)
  BY DEF handleCheckoutCompleted, ReadByCustomer, handleSubscriptionUpdated,
         handleSubscriptionDeleted, Busy, NoEvent
<1>2. /\ GoodEvent(delivery[d].event) /\ Leads(row, delivery[d].event)
      /\ delivery[d].read \in {Unread, row} /\ row \in Rows
      /\ delivery[d] \in [event : Events, read : Rows]
  BY <1>1 DEF Follows, ReadsRow, PlansKnown
<1>3. CASE handleCheckoutCompleted(d)
  <2>1. row' = RowOf(delivery[d].event)
    BY <1>2, <1>3 DEF handleCheckoutCompleted, RowOf, GoodEvent, mapStripeStatus
  <2> QED
    BY <1>1, <1>3, <2>1, WritesFollow DEF handleCheckoutCompleted
<1>4. ASSUME NEW status, UpsertStatus(d, status), delivery[d].event.type # "completed",
             status = mapStripeStatus(delivery[d].event.status)
      PROVE  Follows(a)'
  <2>1. row' = [row EXCEPT !.status = status]
    BY <1>2, <1>4 DEF UpsertStatus
  <2>2. row.plan = delivery[d].event.plan
    BY <1>2, <1>4 DEF Leads
  <2>3. row' = RowOf(delivery[d].event)
    BY <1>2, <1>4, <2>1, <2>2 DEF RowOf, Rows
  <2> QED
    BY <1>1, <1>4, <2>3, WritesFollow DEF UpsertStatus
<1>5. CASE handleSubscriptionUpdated(d)
  BY <1>4, <1>5 DEF handleSubscriptionUpdated
<1>6. CASE handleSubscriptionDeleted(d)
  <2>1. mapStripeStatus(delivery[d].event.status) = "canceled"
    BY <1>2, <1>6 DEF handleSubscriptionDeleted, GoodEvent, mapStripeStatus
  <2> QED
    BY <1>4, <1>6, <2>1 DEF handleSubscriptionDeleted
<1>7. CASE ReadByCustomer(d)
  <2>1. row # NoRow
    BY <1>2, <1>7 DEF ReadByCustomer, Leads, NoRow
  <2>2. delivery' = [delivery EXCEPT ![d].read = row] /\ UNCHANGED <<account, inbox, row>>
    BY <1>7, <2>1 DEF ReadByCustomer
  <2>3. /\ delivery'[d].event = delivery[d].event /\ delivery'[d].read = row
        /\ \A o \in Deliveries \ {d} : delivery'[o] = delivery[o]
    BY <1>2, <2>2 DEF PlansKnown
  <2>4. \A o \in Deliveries : /\ delivery'[o].event = delivery[o].event
                              /\ Busy(o)' <=> Busy(o)
                              /\ delivery'[o].read \in {delivery[o].read, row}
    BY <2>3 DEF Busy
  <2>5. OneBusy' /\ ReadsRow' /\ InboxChained' /\ Stated' = Stated
    BY <2>2, <2>4 DEF Follows, OneBusy, ReadsRow, InboxChained, Stated
  <2> QED
    BY <2>2, <2>4, <2>5 DEF Follows
<1> QED
  BY <1>3, <1>5, <1>6, <1>7

LEMMA FollowInductive ==
    ASSUME FollowInv, [BillingNext]_billingVars PROVE FollowInv'
<1>1. CASE UNCHANGED stripeVars
  <2>1. \A a \in Rows : Follows(a) => Follows(a)'
    BY <1>1 DEF stripeVars, Follows, OneBusy, ReadsRow, InboxChained, Busy, Stated
  <2> QED
    BY <1>1, <2>1 DEF stripeVars, FollowInv, PlansKnown
<1>2. CASE StripeNext
  <2>1. PlansKnown'
    BY <1>2, StripeKeepsPlans DEF FollowInv
  <2>2. disorder' \in Nat /\ (disorder' = 0 => disorder = 0)
    <3>1. disorder \in Nat
      BY DEF FollowInv
    <3>2. ASSUME NEW is, Irregular(is) PROVE disorder' = disorder \/ disorder' = disorder + 1
      BY <3>2 DEF Irregular
    <3>3. disorder' = disorder \/ disorder' = disorder + 1
      BY <1>2, <3>2, ZenonT(40)
      DEF StripeNext, Checkout, StatusChanges, SubscriptionEnds, Emits, Delivered,
          handleCheckoutCompleted, ReadByCustomer, handleSubscriptionUpdated,
          handleSubscriptionDeleted, UpsertStatus, HandlerFails
    <3> QED
      BY <3>1, <3>3
  <2>3. ASSUME disorder' = 0 PROVE \E b \in Rows : Follows(b)'
    <3>1. PICK a \in Rows : Follows(a)
      BY <2>2, <2>3 DEF FollowInv
    <3>2. ASSUME NEW d \in Deliveries, HandlerFails(d) PROVE FALSE
      BY <2>3, <3>2 DEF HandlerFails, Irregular, FollowInv
    <3> QED
      BY <1>2, <2>3, <3>1, <3>2, StripeFollows, DeliveredFollows, HandlersFollow
      DEF StripeNext, FollowInv
  <2> QED
    BY <2>1, <2>2, <2>3 DEF FollowInv
<1>3. CASE ProjectsNext
  BY <1>1, <1>3 DEF ProjectsNext, ReadsLimits, AdmittedElsewhere, CheckProjectLimit,
                    CreateProject, DeleteProject, TrialEnds
<1>4. CASE UNCHANGED billingVars
  BY <1>1, <1>4 DEF billingVars
<1> QED
  BY <1>2, <1>3, <1>4 DEF BillingNext

(* As long as no event comes out of order, twice, beside another or to a   *)
(* handler that fails, the row in the end says what Stripe says, whatever  *)
(* the subscription went through: each handler writes back a whole row,    *)
(* and reads the one that its event was made of (billing.go).              *)
THEOREM SubscriptionKeepsUp == BillingSpec => []SubscriptionFollowsStripe
<1>1. BillingInit => FollowInv
  <2> SUFFICES ASSUME BillingInit PROVE FollowInv
    OBVIOUS
  <2>1. PlansKnown
    BY DEF BillingInit, PlansKnown, Rows, Events, PlanTiers, Statuses, NoRow, NoEvent, Unread
  <2>2. Len(inbox) = 0 /\ inbox = <<>>
    BY EmptySeq DEF BillingInit
  <2>3. \A d \in Deliveries : ~Busy(d)
    BY DEF BillingInit, Busy
  <2>4. Stated = NoRow /\ row = NoRow /\ NoRow \in Rows
    BY <2>1 DEF BillingInit, Stated, NoRow, PlansKnown
  <2>5. Follows(NoRow)
    BY <2>2, <2>3, <2>4 DEF Follows, OneBusy, ReadsRow, InboxChained
  <2> QED
    BY <2>1, <2>4, <2>5 DEF FollowInv, BillingInit
<1>2. FollowInv => SubscriptionFollowsStripe
  BY DEF FollowInv, Follows, SubscriptionFollowsStripe, Stated
<1> QED
  BY <1>1, <1>2, FollowInductive, PTL DEF BillingSpec
=============================================================================

------------------------------ MODULE Accounts ------------------------------
(***************************************************************************)
(* Signing in: GitHubCallback and GoogleCallback find or make the user,    *)
(* and on a first login make a personal workspace and its owner.  Each     *)
(* statement commits by itself; callbacks of the same person interleave.   *)
(* A person has one email address, the same at both providers.             *)
(***************************************************************************)
EXTENDS Naturals, FiniteSets

CONSTANTS
    Persons,         \* who signs in
    Callbacks,       \* callbacks served at a time
    UserIDs,         \* bound: rows of users
    LoginNullables,  \* may users.github_login be NULL?  (schema: {FALSE})
    MaxLoginFaults   \* bound: statements that fail

ASSUME AccountsAssumption ==
    /\ IsFiniteSet(UserIDs) /\ LoginNullables \subseteq BOOLEAN /\ MaxLoginFaults \in Nat

Nobody == "nobody"

VARIABLES
    loginNullable,  \* the schema
    users,          \* the rows: the person, and which accounts are linked to it
    orgs,           \* slug of a personal workspace -> its members
    callback,       \* per callback: its step, person, provider and the user it found
    loginFaults     \* statements that failed so far

accountVars == <<loginNullable, users, orgs, callback, loginFaults>>

NoCallback == [at |-> "idle", person |-> Nobody, via |-> "none", user |-> Nobody]

AccountsInit ==
    /\ loginNullable \in LoginNullables
    /\ users = [u \in {} |-> Nobody]
    /\ orgs = [s \in {} |-> {}]
    /\ callback = [r \in Callbacks |-> NoCallback]
    /\ loginFaults = 0

In(r, step) == callback[r].at = step
Steps(r, step) == callback' = [callback EXCEPT ![r].at = step]
Finds(r, u, step) == callback' = [callback EXCEPT ![r].at = step, ![r].user = u]
Person(r) == callback[r].person

-----------------------------------------------------------------------------
(* The code was exchanged and the profile fetched.                         *)
Begins(r, p, via) ==
    /\ In(r, "idle")
    /\ callback' = [callback EXCEPT ![r] =
           [at |-> IF via = "github" THEN "upserting" ELSE "looking",
            person |-> p, via |-> via, user |-> Nobody]]
    /\ UNCHANGED <<loginNullable, users, orgs, loginFaults>>

ThePersons(p) == {u \in DOMAIN users : users[u].person = p}
Linked(account, p) == {u \in ThePersons(p) : account \in users[u].accounts}

Inserted(u, p, account) ==
    users' = [v \in DOMAIN users \cup {u} |->
                 IF v = u THEN [person |-> p, accounts |-> {account}] ELSE users[v]]

(* INSERT ... ON CONFLICT on the unique id of the account.                 *)
Upserts(r, account) ==
    \/ \E u \in Linked(account, Person(r)) : Finds(r, u, "listing") /\ UNCHANGED users
    \/ /\ Linked(account, Person(r)) = {}
       /\ \E u \in UserIDs \ DOMAIN users :
             /\ Inserted(u, Person(r), account)
             /\ Finds(r, u, "listing")

UpsertUser(r) ==
    /\ In(r, "upserting")
    /\ Upserts(r, "github")
    /\ UNCHANGED <<loginNullable, orgs, loginFaults>>

(* GetUserByEmail returns one row of several; no row and a failure are the *)
(* same to the caller.                                                     *)
GetUserByEmail(r) ==
    /\ In(r, "looking")
    /\ \/ \E u \in ThePersons(Person(r)) : Finds(r, u, "linking")
       \/ ThePersons(Person(r)) = {} /\ Steps(r, "inserting")
    /\ UNCHANGED <<loginNullable, users, orgs, loginFaults>>

(* UPDATE of every row with the address and no other Google account: two   *)
(* rows would share the account, which the unique index refuses, and the   *)
(* callback goes on with the row it had found.                             *)
LinkGoogleToExistingUser(r) ==
    /\ In(r, "linking")
    /\ LET rows == ThePersons(Person(r)) IN
       IF Cardinality(rows) = 1
       THEN /\ users' = [u \in DOMAIN users |->
                            IF u \in rows THEN [users[u] EXCEPT !.accounts = @ \cup {"google"}]
                                          ELSE users[u]]
            /\ \E u \in rows : Finds(r, u, "listing")
       ELSE UNCHANGED users /\ Steps(r, "listing")
    /\ UNCHANGED <<loginNullable, orgs, loginFaults>>

(* The insertion names no github_login.                                    *)
UpsertUserByGoogle(r) ==
    /\ In(r, "inserting")
    /\ \/ loginNullable /\ Upserts(r, "google")
       \/ ~loginNullable /\ Steps(r, "failed") /\ UNCHANGED users
    /\ UNCHANGED <<loginNullable, orgs, loginFaults>>

-----------------------------------------------------------------------------
Memberships(u) == {s \in DOMAIN orgs : u \in orgs[s]}

ListUserOrgs(r) ==
    /\ In(r, "listing")
    /\ Steps(r, IF Memberships(callback[r].user) = {} THEN "creating" ELSE "signedIn")
    /\ UNCHANGED <<loginNullable, users, orgs, loginFaults>>

(* "<login>-personal", or the first digits of the user's ID.               *)
Slug(r) == IF callback[r].via = "github" THEN <<"login", Person(r)>>
                                         ELSE <<"user", callback[r].user>>

WithOrg(s, members) ==
    orgs' = [t \in DOMAIN orgs \cup {s} |-> IF t = s THEN members ELSE orgs[t]]

CreateOrg(r) ==
    /\ In(r, "creating")
    /\ \/ Slug(r) \notin DOMAIN orgs /\ WithOrg(Slug(r), {}) /\ Steps(r, "joining")
       \/ Slug(r) \in DOMAIN orgs /\ Steps(r, "failed") /\ UNCHANGED orgs
    /\ UNCHANGED <<loginNullable, users, loginFaults>>

AddMember(r) ==
    /\ In(r, "joining")
    /\ WithOrg(Slug(r), orgs[Slug(r)] \cup {callback[r].user})
    /\ Steps(r, "signedIn")
    /\ UNCHANGED <<loginNullable, users, loginFaults>>

(* The membership treated as best effort.                                  *)
StatementFailsSoftly(r) ==
    /\ In(r, "joining") /\ loginFaults < MaxLoginFaults /\ loginFaults' = loginFaults + 1
    /\ Steps(r, "signedIn")
    /\ UNCHANGED <<loginNullable, users, orgs>>

(* A statement fails, the request is cancelled, or the process stops: what *)
(* was committed stays.  A failure to look up or link by address leads on. *)
StatementFails(r) ==
    /\ ~In(r, "idle") /\ ~In(r, "signedIn") /\ ~In(r, "failed")
    /\ loginFaults < MaxLoginFaults /\ loginFaults' = loginFaults + 1
    /\ Steps(r, CASE In(r, "looking") -> "inserting"
                  [] In(r, "linking") -> "listing"
                  [] OTHER -> "failed")
    /\ UNCHANGED <<loginNullable, users, orgs>>

(* The reply; the person may sign in again.                                *)
Replies(r) ==
    /\ In(r, "signedIn") \/ In(r, "failed")
    /\ callback' = [callback EXCEPT ![r] = NoCallback]
    /\ UNCHANGED <<loginNullable, users, orgs, loginFaults>>

AccountsNext ==
    \E r \in Callbacks :
        \/ \E p \in Persons, via \in {"github", "google"} : Begins(r, p, via)
        \/ UpsertUser(r)
        \/ GetUserByEmail(r) \/ LinkGoogleToExistingUser(r) \/ UpsertUserByGoogle(r)
        \/ ListUserOrgs(r) \/ CreateOrg(r) \/ AddMember(r)
        \/ StatementFails(r) \/ Replies(r)

AccountsSpec == AccountsInit /\ [][AccountsNext]_accountVars

-----------------------------------------------------------------------------
(* Overlapping first logins of one person, by either provider, sign nobody *)
(* in without a workspace, and strand none: a workspace without a member   *)
(* is about to get its owner, or is due to a failed statement (and then    *)
(* its slug keeps that person out).                                        *)
Joining == {Slug(r) : r \in {q \in Callbacks : In(q, "joining")}}
Stranded == {s \in DOMAIN orgs : orgs[s] = {}} \ Joining
WorkspacesAccounted ==
    /\ \A r \in Callbacks : In(r, "signedIn") => Memberships(callback[r].user) # {}
    /\ Cardinality(Stranded) <= loginFaults
=============================================================================

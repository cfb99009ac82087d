--------------------------- MODULE SandboxManagers --------------------------
(***************************************************************************)
(* The three implementations of the SandboxManager interface: local (a     *)
(* directory on this machine), docker (a container) and e2b (a remote      *)
(* sandbox behind an HTTP API).  Only what decides whether a sandbox comes *)
(* into being, can be worked in, and goes away is kept; live says whether  *)
(* the context of the call is not yet cancelled, fault that the file       *)
(* system, the docker CLI or the remote API fails in it.                   *)
(***************************************************************************)
EXTENDS Naturals, FiniteSets

CONSTANTS
    Boxes,            \* bound: sandboxes ever created
    SandboxProviders  \* what SANDBOX_PROVIDER may be set to

None == 0

ASSUME ManagersAssumption ==
    /\ Boxes \subseteq Nat \ {None}
    /\ SandboxProviders \subseteq {"local", "docker", "e2b"}

VARIABLES
    provider,  \* the configured provider
    boxes,     \* the sandboxes there have been
    exists,    \* those whose directory, container or remote sandbox exists
    known      \* those in the map of the manager

managerVars == <<provider, boxes, exists, known>>

ManagersTypeOK ==
    /\ provider \in SandboxProviders
    /\ boxes \in SUBSET Boxes
    /\ exists \in SUBSET boxes
    /\ known \in SUBSET boxes

ManagersInit ==
    /\ provider \in SandboxProviders
    /\ boxes = {} /\ exists = {} /\ known = {}

-----------------------------------------------------------------------------
(* Provision, first half: the root directory, docker create, POST          *)
(* /sandboxes.  The directory is made or not; the reply of the other two   *)
(* may be lost after the sandbox was made, and then nobody has its id.     *)
FreshBox(b) == b \in Boxes \ boxes /\ \A c \in Boxes : c < b => c \in boxes
Comes(b) == boxes' = boxes \cup {b} /\ exists' = exists \cup {b} /\ UNCHANGED <<provider, known>>

LocalCreate(b, fault)  == ~fault /\ Comes(b)
DockerCreate(b, fault) == Comes(b)
E2BCreate(b, fault)    == Comes(b)

Create(b, fault) ==
    /\ FreshBox(b)
    /\ \/ provider = "local" /\ LocalCreate(b, fault)
       \/ provider = "docker" /\ DockerCreate(b, fault)
       \/ provider = "e2b" /\ E2BCreate(b, fault)

(* Destroy.  local forgets the sandbox and removes the directory, whatever *)
(* the context; docker forgets it once docker rm has run, even if that     *)
(* failed; e2b forgets it only after the API has confirmed.                *)
LocalDestroy(b, live, fault) ==
    /\ known' = known \ {b}
    /\ exists' = IF fault THEN exists ELSE exists \ {b}

DockerDestroy(b, live, fault) ==
    \/ /\ ~live \/ fault
       /\ UNCHANGED <<exists, known>>
    \/ /\ live
       /\ known' = known \ {b}
       /\ exists' = IF fault THEN exists ELSE exists \ {b}

E2BDestroy(b, live, fault) ==
    /\ known' = IF live /\ ~fault /\ b \in exists THEN known \ {b} ELSE known
    /\ exists' = IF live /\ ~fault THEN exists \ {b} ELSE exists

Destroy(b, live, fault) ==
    /\ \/ provider = "local" /\ LocalDestroy(b, live, fault)
       \/ provider = "docker" /\ DockerDestroy(b, live, fault)
       \/ provider = "e2b" /\ E2BDestroy(b, live, fault)
    /\ UNCHANGED <<provider, boxes>>

(* Whether Destroy reports an error: docker stop and DELETE fail for a     *)
(* sandbox that is gone, RemoveAll does not.                               *)
DestroyErrs(b, live, fault) == fault \/ (provider # "local" /\ (~live \/ b \notin exists))

(* Provision, second half: clone, .neuco and the working directory, then   *)
(* the entry in the map.  Any error removes what was created, with         *)
(* context.Background(), and ignores an error of that removal.             *)
LocalProvisioned(b)  == known' = known \cup {b}
DockerProvisioned(b) == known' = known \cup {b}
E2BProvisioned(b)    == known' = known \cup {b}

Provisioned(b) ==
    /\ \/ provider = "local" /\ LocalProvisioned(b)
       \/ provider = "docker" /\ DockerProvisioned(b)
       \/ provider = "e2b" /\ E2BProvisioned(b)
    /\ UNCHANGED <<provider, boxes, exists>>

(* The sandbox of a Provision that failed is forgotten, not removed.       *)
CleanupForgotten(b, fault) == known' = known \ {b} /\ UNCHANGED <<provider, boxes, exists>>

CleanupOnError(b, fault) == Destroy(b, TRUE, fault)

-----------------------------------------------------------------------------
(* Whether a manager can run anything in sandbox id: a process on this     *)
(* machine, docker exec, POST /sandboxes/{id}/commands.  The workers of    *)
(* AgentSession hand on a Sandbox with a WorkDir and no ID (id = None),    *)
(* which only local accepts.                                               *)
runCommand(id, live)      == live
execInContainer(id, live) == live /\ id \in exists
executeCommand(id, live)  == live /\ id \in exists

LocalWriteFiles(id, live)  == live
DockerWriteFiles(id, live) == execInContainer(id, live)
E2BWriteFiles(id, live)    == executeCommand(id, live)

WriteFiles(id, live) ==
    /\ provider = "local" => LocalWriteFiles(id, live)
    /\ provider = "docker" => DockerWriteFiles(id, live)
    /\ provider = "e2b" => E2BWriteFiles(id, live)

(* What a command may come to when its exit code is zero iff passes:       *)
(* an error is a command that could not be run.  A command killed by its   *)
(* context has a non-zero exit code, one not yet started is an error.      *)
Ran(passes) == {IF passes THEN "zero" ELSE "nonzero", "error"}
Interrupted == {"nonzero", "error"}
LocalExecute(id, live, passes)  == IF runCommand(id, live) THEN Ran(passes) ELSE Interrupted
DockerExecute(id, live, passes) == IF execInContainer(id, live) THEN Ran(passes) ELSE Interrupted
E2BExecute(id, live, passes)    == IF executeCommand(id, live) THEN Ran(passes) ELSE {"error"}

Execute(id, live, passes) ==
    CASE provider = "local"  -> LocalExecute(id, live, passes)
      [] provider = "docker" -> DockerExecute(id, live, passes)
      [] provider = "e2b"    -> E2BExecute(id, live, passes)

LocalCollectDiff(id, live)  == runCommand(id, live)
DockerCollectDiff(id, live) == execInContainer(id, live)
E2BCollectDiff(id, live)    == executeCommand(id, live)

CollectDiff(id, live) ==
    /\ provider = "local" => LocalCollectDiff(id, live)
    /\ provider = "docker" => DockerCollectDiff(id, live)
    /\ provider = "e2b" => E2BCollectDiff(id, live)
=============================================================================

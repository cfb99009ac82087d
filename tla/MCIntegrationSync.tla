------------------------- MODULE MCIntegrationSync -------------------------
(* One item whose text and title are near-duplicates of each other.        *)
EXTENDS IntegrationSync

TwoContents == {1, 2}
AreNear == {<<1, 2>>, <<2, 1>>}
OneItem == {1}
FullText == [i \in OneItem |-> i]
TitleText == [i \in OneItem |-> 2]

(* Bound: uploads and Make.com webhooks are explored without an            *)
(* integration, syncs together with the event webhooks.                    *)
Apart ==
    (\E r \in Runs : work[r].kind \in Kinds \ {"none", "sync", "event"})
        => integration.id = 0 /\ clock = 1 /\ updated = [i \in OneItem |-> 0]

(* Bound: the schema that refuses the runs of syncs is explored without    *)
(* troubles (what happens there may happen on the other as well).          *)
RefusedApart == ~syncRunsAdmitted => troubles = 0

(* Bound: so are the connections of Intercom and Linear (for whatever they *)
(* fetch, Jira may fetch it too; the rest of the three is the same).       *)
TwinsApart == integration.provider \in {"intercom", "linear"} => troubles = 0

(* Bound: and two syncs of Gong side by side, whose calls come with their  *)
(* transcripts or titles (one sync of it has its trouble, and so do two of *)
(* Slack or Jira).                                                         *)
GongApart == (\A r \in Runs : work[r].provider = "gong") => troubles = 0
=============================================================================

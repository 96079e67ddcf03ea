---------------------------- MODULE ElchiClient ----------------------------
(***************************************************************************)
(* client.go: the requests of the plugin and what it makes of the HTTP     *)
(* responses.  The records of a payload are those of the version its hash  *)
(* names.                                                                  *)
(***************************************************************************)
EXTENDS Integers

CONSTANTS Versions,  \* the contents the zone can have, each named by its hash
          Zone,
    Secret

NoHash == ""
NoZone == ""
NoSecret == ""

\* setup.go refuses an empty zone and an empty secret.
ASSUME VersionsAssumption == NoHash \notin Versions /\ Zone # NoZone /\ Secret # NoSecret

\* Without node_ip and regions, which say who asks and for which records.
SnapshotRequest == [path |-> "snapshot", secret |-> Secret, zone |-> Zone, since |-> NoHash]
ChangesRequest(hash) == [path |-> "changes", secret |-> Secret, zone |-> Zone, since |-> hash]

\* body: "payload" is JSON of the expected shape, "garbled" any other bytes,
\* "broken" a connection that fails or times out before the body is read.
Responses == [status : {200, 304, 400, 401, 404, 500}, body : {"payload", "garbled", "broken"},
              zone : {NoZone, Zone}, hash : Versions \cup {NoHash},
              unchanged : BOOLEAN]

Response(status, body, zone, hash, unchanged) ==
    [status |-> status, body |-> body, zone |-> zone, hash |-> hash,
     unchanged |-> unchanged]

\* What the two calls return: an error, "nothing changed" or a snapshot.
Failed == [kind |-> "failed", hash |-> NoHash]
Unchanged == [kind |-> "unchanged", hash |-> NoHash]
Snapshot(hash) == [kind |-> "snapshot", hash |-> hash]
Results == {Failed, Unchanged} \cup {Snapshot(v) : v \in Versions}

Decoded(resp) == resp.body = "payload" /\ resp.status = 200
Complete(resp) == resp.zone # NoZone /\ resp.hash # NoHash

\* Mutant: the response is not validated.
FetchUnvalidated(resp) == IF Decoded(resp) THEN Snapshot(resp.hash) ELSE Failed

FetchSnapshot(resp) ==
    IF Decoded(resp) /\ Complete(resp) THEN Snapshot(resp.hash) ELSE Failed

\* Mutant: the response is not validated.
CheckUnvalidated(resp) ==
    CASE resp.status = 304 -> Unchanged
      [] resp.status # 304 /\ Decoded(resp) /\ resp.unchanged -> Unchanged
      [] Decoded(resp) /\ ~resp.unchanged -> Snapshot(resp.hash)
      [] OTHER -> Failed

\* Mutant: every answer that decodes is taken for "unchanged".
CheckNothing(resp) ==
    IF resp.status = 304 \/ Decoded(resp) THEN Unchanged ELSE Failed

\* A 304 counts before its body is read; "unchanged" needs no zone and no hash.
CheckChanges(resp) ==
    CASE resp.status = 304 -> Unchanged
      [] resp.status # 304 /\ Decoded(resp) /\ resp.unchanged -> Unchanged
      [] Decoded(resp) /\ ~resp.unchanged /\ Complete(resp) -> Snapshot(resp.hash)
      [] OTHER -> Failed
=============================================================================

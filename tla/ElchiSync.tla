----------------------------- MODULE ElchiSync -----------------------------
(***************************************************************************)
(* The plugin keeping its cache in step with the controller: the initial   *)
(* fetch of InitClient, the periodic performSync of the one backgroundSync *)
(* goroutine, and the webhook handlers, which run beside both; and a new   *)
(* instance of the plugin taking over, at a reload or after a crash.       *)
(*                                                                         *)
(* The controller and the network are external.  A version of the zone is  *)
(* named by its hash, so the same content has the same hash again.  The    *)
(* cache is the store of RecordStore, which RecordCache implements.        *)
(***************************************************************************)
EXTENDS DnsData, MockController, SequencesExt

CONSTANTS
    Content,       \* Content[v]: the records of version v
    Successors,    \* Successors[v]: the versions the controller may go to from v
    Notice,        \* Notice[v][w]: the notification of the change from v to w
    Handlers,      \* goroutines of the webhook server; {} without "webhook"
    NoticeFaults,  \* what may happen to notifications
    MaxChanges,    \* bound: changes of the zone
    MaxFaults,     \* bound: requests that fail
    MaxRestarts    \* bound: instances that take over

\* "unbound": the listener cannot bind its address.
FaultKinds == {"lost", "duplicated", "reordered", "rejected", "unbound"}

ASSUME SyncAssumption ==
    /\ Content \in [Versions -> Seq(Records)]
    /\ Successors \in [Versions -> SUBSET Versions]
    /\ Notice \in [Versions -> [Versions -> [records : Seq(Records), deletes : Seq(Deletes)]]]
    /\ NoticeFaults \subseteq FaultKinds
    /\ MaxChanges \in Nat /\ MaxFaults \in Nat /\ MaxRestarts \in Nat

VARIABLES
    (* the controller and the network *)
    current,      \* the version the controller holds
    changes,      \* how often it has changed
    faults,       \* how many requests have failed
    notices,      \* notifications under way, oldest first
    recent,       \* history: the versions held since the cache took a snapshot
    (* the cache *)
    store,
    versionHash,
    (* InitClient, then backgroundSync *)
    phase,        \* "initial", "idle", "fetching" or "checking"
    since,        \* the hash the request carries
    reply,        \* the answer of the controller, or NoReply
    syncStatus,   \* SyncStatus.lastSyncStatus
    (* handleNotify *)
    handler,      \* "idle", or "deletes" between its two steps
    deletes,      \* the deletes it still has to apply
    (* the instance *)
    listening,    \* its webhook server has its address
    restarts,     \* the instances before it
    quiet         \* history: the zone has not changed since its last sync began

controller == <<current, changes, faults, notices, recent>>
goroutine == <<phase, since, reply, syncStatus>>
webhook == <<handler, deletes>>
instance == <<listening, restarts, quiet>>
vars == <<controller, store, versionHash, goroutine, webhook, instance>>

NoReply == [status |-> 0]

\* ListenAndServe fails in a goroutine of its own, which only logs it.
ListenOutcomes == IF "unbound" \in NoticeFaults THEN BOOLEAN ELSE {TRUE}

\* InitClient up to its FetchSnapshot: an empty cache, the webhook server
\* already started, the request under way.
Init ==
    /\ current \in Versions
    /\ changes = 0 /\ faults = 0
    /\ notices = <<>>
    /\ recent = {current}
    /\ store = EmptyStore
    /\ versionHash = NoHash
    /\ phase = "initial"
    /\ since = NoHash
    /\ reply = NoReply
    /\ syncStatus = "initial"
    /\ handler = [h \in Handlers |-> "idle"]
    /\ deletes = [h \in Handlers |-> <<>>]
    /\ listening \in ListenOutcomes /\ restarts = 0 /\ quiet = TRUE

-----------------------------------------------------------------------------
(* The controller and the network                                          *)

\* The records change; with the webhook on, the plugin is notified.
Publish(v) ==
    /\ changes < MaxChanges
    /\ v \in Successors[current]
    /\ current' = v
    /\ changes' = changes + 1
    /\ recent' = recent \cup {v}
    /\ notices' = IF Handlers = {} THEN notices ELSE Append(notices, Notice[current][v])
    /\ quiet' = FALSE
    /\ UNCHANGED <<faults, store, versionHash, goroutine, webhook, listening, restarts>>

Waiting == phase # "idle" /\ reply = NoReply

Answer(resp) ==
    /\ reply' = resp
    /\ UNCHANGED <<current, changes, notices, recent, store, versionHash, phase,
                   since, syncStatus, webhook, instance>>

Request == IF phase = "checking" THEN ChangesRequest(since) ELSE SnapshotRequest
Controller == [secret |-> Secret, zone |-> Zone, version |-> current]

\* "Nothing changed" may also come as a 200 that says so.
Serve ==
    /\ Waiting
    /\ \/ Answer(Respond(Controller, Request))
       \/ /\ UpToDate(Controller, Request)
          /\ Answer(Response(200, "payload", NoZone, NoHash, TRUE))
    /\ UNCHANGED faults

\* No connection or no answer within the timeout, a body that is cut short, no
\* JSON, or one without the fields that are needed; an error page, and a controller
\* that does not know the secret or the zone.
FaultyAnswers ==
    LET full == Full(Controller)
    IN  {[full EXCEPT !.body = "broken"], [full EXCEPT !.body = "garbled"],
         [full EXCEPT !.zone = NoZone], [full EXCEPT !.hash = NoHash], ErrorPage(500),
         Respond([Controller EXCEPT !.secret = NoSecret], Request),
         Respond([Controller EXCEPT !.zone = NoZone], Request)}

Misbehave ==
    /\ Waiting
    /\ faults < MaxFaults
    /\ faults' = faults + 1
    /\ \E resp \in FaultyAnswers : Answer(resp)

\* The network loses a notification, nobody listens, or the instance that is being
\* replaced still takes it.
Lose(i) ==
    /\ \/ "lost" \in NoticeFaults \/ ~listening
       \/ phase = "initial" /\ restarts > 0 /\ i = 1
    /\ notices' = RemoveAt(notices, i)
    /\ UNCHANGED <<current, changes, faults, recent, store, versionHash, goroutine,
                   webhook, instance>>

-----------------------------------------------------------------------------
(* InitClient and performSync                                              *)

\* A payload without a hash has no records either.
RecordsOf(hash) == IF hash \in Versions THEN Content[hash] ELSE <<>>

\* What both do with the outcome of their request.
Settle(result) ==
    /\ CASE result.kind = "failed" ->
              syncStatus' = "failed" /\ UNCHANGED <<store, versionHash, recent>>
         [] result.kind = "unchanged" ->
              syncStatus' = "success" /\ UNCHANGED <<store, versionHash, recent>>
         [] result.kind = "snapshot" ->
              /\ store' = LoadSnapshot(RecordsOf(result.hash))
              /\ versionHash' = result.hash
              /\ syncStatus' = "success"
              /\ recent' = {current}
    /\ phase' = "idle"
    /\ since' = NoHash
    /\ reply' = NoReply
    /\ UNCHANGED <<current, changes, faults, notices, webhook, instance>>

\* The rest of InitClient; backgroundSync starts.
InitialFetchDone == phase = "initial" /\ reply # NoReply /\ Settle(FetchSnapshot(reply))

\* Mutant: always a check, even without a snapshot.
AlwaysCheck ==
    /\ phase = "idle"
    /\ phase' = "checking"
    /\ since' = versionHash
    /\ quiet' = TRUE
    /\ UNCHANGED <<controller, store, versionHash, reply, syncStatus, webhook, listening,
                   restarts>>

\* The ticker fires and performSync begins: the hash decides what it asks for.
PerformSync ==
    /\ phase = "idle"
    /\ phase' = IF versionHash = NoHash THEN "fetching" ELSE "checking"
    /\ since' = versionHash
    /\ quiet' = TRUE
    /\ UNCHANGED <<controller, store, versionHash, reply, syncStatus, webhook, listening,
                   restarts>>

FetchDone == phase = "fetching" /\ reply # NoReply /\ Settle(FetchSnapshot(reply))
CheckDone == phase = "checking" /\ reply # NoReply /\ Settle(CheckChanges(reply))

-----------------------------------------------------------------------------
(* handleNotify: Update and then Delete, each under a lock of its own.     *)

\* Mutant: the records replace the cache instead of being merged into it.
NotifyReplace(h, i) ==
    /\ listening /\ handler[h] = "idle"
    /\ notices' = RemoveAt(notices, i)
    /\ store' = LoadSnapshot(notices[i].records)
    /\ handler' = [handler EXCEPT ![h] = "deletes"]
    /\ deletes' = [deletes EXCEPT ![h] = notices[i].deletes]
    /\ UNCHANGED <<current, changes, faults, recent, versionHash, goroutine, instance>>


\* A wrong secret or method, or a body that does not decode: nothing is touched.
Reject(i) ==
    /\ listening /\ "rejected" \in NoticeFaults
    /\ notices' = RemoveAt(notices, i)
    /\ UNCHANGED <<current, changes, faults, recent, store, versionHash, goroutine,
                   webhook, instance>>

NotifyUpdate(h, i) ==
    /\ listening /\ handler[h] = "idle"
    /\ i = 1 \/ "reordered" \in NoticeFaults
    /\ \/ notices' = RemoveAt(notices, i)
       \/ "duplicated" \in NoticeFaults /\ UNCHANGED notices
    /\ store' = ApplyUpdate(store, notices[i].records)
    /\ handler' = [handler EXCEPT ![h] = "deletes"]
    /\ deletes' = [deletes EXCEPT ![h] = notices[i].deletes]
    /\ UNCHANGED <<current, changes, faults, recent, versionHash, goroutine, instance>>

NotifyDelete(h) ==
    /\ handler[h] = "deletes"
    /\ store' = ApplyDelete(store, deletes[h])
    /\ handler' = [handler EXCEPT ![h] = "idle"]
    /\ deletes' = [deletes EXCEPT ![h] = <<>>]
    /\ UNCHANGED <<controller, versionHash, goroutine, instance>>

Deliver == \E h \in Handlers, i \in DOMAIN notices : NotifyUpdate(h, i)
Finish == \E h \in Handlers : NotifyDelete(h)

-----------------------------------------------------------------------------
\* A new instance with a cache of its own takes over.  What the old one still has
\* under way, a request or half a notification, touches only the old cache.
Restart ==
    /\ restarts < MaxRestarts
    /\ restarts' = restarts + 1 /\ quiet' = TRUE
    /\ listening' \in ListenOutcomes
    /\ store' = EmptyStore /\ versionHash' = NoHash
    /\ recent' = {current}
    /\ phase' = "initial" /\ since' = NoHash /\ reply' = NoReply /\ syncStatus' = "initial"
    /\ handler' = [h \in Handlers |-> "idle"]
    /\ deletes' = [h \in Handlers |-> <<>>]
    /\ UNCHANGED <<current, changes, faults, notices>>

Done == InitialFetchDone \/ FetchDone \/ CheckDone

Next ==
    \/ \E v \in Versions : Publish(v)
    \/ Serve
    \/ Misbehave
    \/ \E i \in DOMAIN notices : Lose(i) \/ Reject(i)
    \/ PerformSync
    \/ Done
    \/ Deliver
    \/ Finish
    \/ Restart

\* The ticker keeps firing; a request is answered or times out; what is handed to
\* a goroutine gets done.
Fairness ==
    /\ WF_vars(PerformSync)
    /\ WF_vars(Serve \/ Misbehave)
    /\ WF_vars(Done)
    /\ WF_vars(Deliver)
    /\ \A h \in Handlers : WF_vars(NotifyDelete(h))

Spec == Init /\ [][Next]_vars
FairSpec == Spec /\ Fairness

-----------------------------------------------------------------------------
Notices == UNION {{Notice[v][w] : w \in Successors[v]} : v \in Versions}

TypeOK ==
    /\ current \in Versions
    /\ changes \in 0 .. MaxChanges
    /\ faults \in 0 .. MaxFaults
    /\ notices \in Seq(Notices)
    /\ recent \subseteq Versions
    /\ IsStore(store)
    /\ {versionHash, since} \subseteq Versions \cup {NoHash}
    /\ phase \in {"initial", "idle", "fetching", "checking"}
    /\ reply \in Responses \cup {NoReply}
    /\ syncStatus \in {"initial", "success", "failed"}
    /\ handler \in [Handlers -> {"idle", "deletes"}]
    /\ deletes \in [Handlers -> Seq(Deletes)]
    /\ listening \in BOOLEAN
    /\ restarts \in 0 .. MaxRestarts /\ quiet \in BOOLEAN

\* The hash a check was asked with is still the hash of the cache when its answer
\* is used, so that "nothing changed" speaks of what the cache holds.
SinceIsCacheHash == phase = "checking" => since = versionHash /\ since # NoHash

\* A sync is reported successful only once a snapshot was loaded, and only a
\* plugin that has loaded one calls itself ready.
SuccessMeansLoaded == syncStatus = "success" => versionHash # NoHash

\* A sync that says "success" is right: unless the zone has changed since it began,
\* the hash of the cache is that of the zone, although the answer was given and the
\* hash compared at different times (elchi.go:206-275).
SuccessMeansCurrent == phase = "idle" /\ syncStatus = "success" /\ quiet => versionHash = current

\* The RRs the snapshot of the hash has at a key, and what a notification leaves there:
\* the RRs it brings, or none.
Loaded(k) ==
    IF versionHash = NoHash THEN {} ELSE LookupKey(LoadSnapshot(Content[versionHash]), k)

Leaves(n, k, rrs) ==
    \/ k \in WrittenKeys(n.records) /\ rrs = LookupKey(ApplyUpdate(EmptyStore, n.records), k)
    \/ k \in DeletedKeys(n.deletes) /\ rrs = {}

\* What stands at a key is what one snapshot or one notification put there, never a
\* mixture of two, though syncs and handlers write in any order.  Without the webhook
\* it is what the hash stands for, so that comparing hashes is enough
\* (docs/adr/002-hash-based-sync.md).
RecordsHaveOneSource ==
    \A k \in Keys :
        \/ LookupKey(store, k) = Loaded(k)
        \/ Handlers # {} /\ \E n \in Notices : Leaves(n, k, LookupKey(store, k))

Mirror == INSTANCE ZoneMirror WITH
    hash <- versionHash, Patches <- IF Handlers = {} THEN {} ELSE Notices

\* The cache goes through contents the zone had, never back behind the last one
\* it took, and a failed sync leaves it alone (elchi.go:244-249).
ImplementsZoneMirror == Mirror!Spec

\* Once the zone no longer changes, the hash of the cache becomes and stays that
\* of the zone, whatever the webhook does beside the sync.
HashCatchesUp == <>[](versionHash = current)

\* The claim of docs/diagrams/05-error-recovery.md:137, "Never fail closed: Always
\* serve DNS, even with stale data": once the plugin had a zone to serve, every
\* instance that serves has one.
NeverFailsClosed ==
    [](versionHash # NoHash => [](phase # "initial" => versionHash # NoHash))

\* The claim of docs/adr/003-webhook-architecture.md:119, "Periodic polling
\* ensures eventual consistency": once the zone no longer changes, the cache
\* becomes and stays what a fresh load of the zone would make it.
EventuallyConsistent == <>[](store = LoadSnapshot(Content[current]))


\* ServeDNS answers a query for an address with the CNAME of the name, if any.
Answer4Or6(s, d, q) ==
    IF <<d, "CNAME">> \in DOMAIN s THEN s[<<d, "CNAME">>] ELSE LookupKey(s, <<d, q>>)

\* The claim of docs/adr/003-webhook-architecture.md:152, "DNS queries return new
\* IPs within seconds": once every notification is delivered, clients are answered
\* as they would be from a fresh load of the zone.
NewAnswersServed ==
    <>[](\A d \in Domains, q \in {"A", "AAAA"} :
            Answer4Or6(store, d, q) = Answer4Or6(LoadSnapshot(Content[current]), d, q))
=============================================================================

----------------------------- MODULE ElchiServe -----------------------------
(***************************************************************************)
(* Those who read the cache while others write it: ServeDNS, which may     *)
(* look twice, and the webhook server's GET handlers, which read the       *)
(* records, the hash and the sync status one after the other.  Each single *)
(* read and write is atomic (RecordStore).                                 *)
(***************************************************************************)
EXTENDS DnsData

CONSTANTS
    ZoneDomains,  \* the domains that are, by labels, in the zone
    Fallthrough,  \* the domains the "fallthrough" directive covers
    Resolvers,    \* goroutines of DNS queries
    Monitors,     \* goroutines of GET /health and GET /records
    Snapshots, Batches, DeleteLists,
    MaxWrites     \* bound: writes to the cache

NoHash == ""

\* FetchSnapshot and CheckChanges return no snapshot without a hash.
ASSUME ServeAssumption ==
    /\ ZoneDomains \subseteq ZoneSuffixed
    /\ \A s \in Snapshots : s.hash # NoHash /\ s.records \in Seq(Records)
    /\ Batches \subseteq Seq(Records) /\ DeleteLists \subseteq Seq(Deletes)
    /\ MaxWrites \in Nat

VARIABLES
    store, hash,  \* the cache
    loaded,       \* history: the hashes of the snapshots loaded so far
    writes,       \* writes so far
    syncStatus,
    syncing,      \* a sync has loaded its snapshot and not yet reported it
    query,        \* the query of each resolver: [at, name, qtype, rcode, rrs]
    seen,         \* history: the stores there were since it began
    report        \* the response each monitor gathers: [at, status, records, loads, hash],
                  \* with, as history, how many loads its records have seen

cache == <<store, hash, loaded, writes>>
vars == <<cache, syncStatus, syncing, query, seen, report>>

NoQuery == [at |-> "idle", name |-> NoName, qtype |-> "", rcode |-> "", rrs |-> {}]
NoReport == [at |-> "idle", status |-> "", records |-> {}, loads |-> 0, hash |-> NoHash]

Init ==
    /\ store = EmptyStore /\ hash = NoHash /\ loaded = <<>> /\ writes = 0
    /\ syncStatus = "initial" /\ syncing = FALSE
    /\ query = [c \in Resolvers |-> NoQuery]
    /\ seen = [c \in Resolvers |-> {}]
    /\ report = [m \in Monitors |-> NoReport]

-----------------------------------------------------------------------------
(* The writers                                                             *)

Write(new) ==
    /\ writes < MaxWrites
    /\ writes' = writes + 1
    /\ store' = new
    /\ seen' = [c \in Resolvers |-> IF query[c].at = "idle" THEN {} ELSE seen[c] \cup {new}]
    /\ UNCHANGED <<query, report>>

\* The last steps of a sync: the cache first, then the status.
SyncLoad(s) ==
    /\ ~syncing
    /\ syncing' = TRUE
    /\ hash' = s.hash
    /\ loaded' = Append(loaded, s.hash)
    /\ Write(LoadSnapshot(s.records))
    /\ UNCHANGED syncStatus

SyncReport ==
    /\ syncing
    /\ syncing' = FALSE
    /\ syncStatus' = "success"
    /\ UNCHANGED <<cache, query, seen, report>>

\* A check answered "unchanged" is a success that loads nothing; only a cache with
\* a hash is checked.
SyncUnchanged ==
    /\ ~syncing /\ hash # NoHash
    /\ syncStatus' = "success"
    /\ UNCHANGED <<cache, syncing, query, seen, report>>

SyncFail ==
    /\ ~syncing
    /\ syncStatus' = "failed"
    /\ UNCHANGED <<cache, syncing, query, seen, report>>

Notify ==
    /\ \/ \E recs \in Batches : Write(ApplyUpdate(store, recs))
       \/ \E dels \in DeleteLists : Write(ApplyDelete(store, dels))
    /\ UNCHANGED <<hash, loaded, syncStatus, syncing>>

-----------------------------------------------------------------------------
(* ServeDNS                                                                *)

Step(c, q) ==
    /\ query' = [query EXCEPT ![c] = q]
    /\ UNCHANGED <<cache, syncStatus, syncing, report>>

Ours(name, qtype) == Normalize[name] \in ZoneDomains /\ qtype \in QTypes

Begin(c, q) ==
    /\ query[c].at = "idle"
    /\ Step(c, q)
    /\ seen' = [seen EXCEPT ![c] = {store}]

Ask(c, name, qtype) ==
    /\ Ours(name, qtype)
    /\ Begin(c, [NoQuery EXCEPT !.at = "cname", !.name = name, !.qtype = qtype])

\* A query outside the zone or for another type goes to the next plugin.
PassOn(c, name, qtype) ==
    /\ ~Ours(name, qtype)
    /\ Begin(c, [NoQuery EXCEPT !.at = "done", !.name = name, !.qtype = qtype,
                                !.rcode = "next"])

\* Without RRs the answer is NXDOMAIN, unless the name falls through.
Rcode(name, rrs) ==
    CASE rrs # {} -> "NOERROR"
      [] rrs = {} /\ Normalize[name] \in Fallthrough -> "next"
      [] OTHER -> "NXDOMAIN"

Answered(q, rrs) == [q EXCEPT !.at = "done", !.rcode = Rcode(q.name, rrs), !.rrs = rrs]

\* Mutant: addresses before the CNAME.
LookupNoCNAME(c) ==
    /\ query[c].at = "cname"
    /\ Step(c, IF query[c].qtype # "CNAME" THEN [query[c] EXCEPT !.at = "address"]
               ELSE Answered(query[c], Lookup(store, query[c].name, "CNAME")))
    /\ UNCHANGED seen

\* The first Get; a CNAME answers a query for an address too.
LookupCNAME(c) ==
    LET q == query[c]
        rrs == Lookup(store, q.name, "CNAME")
    IN  /\ q.at = "cname"
        /\ Step(c, IF q.qtype # "CNAME" /\ rrs = {} THEN [q EXCEPT !.at = "address"]
                   ELSE Answered(q, rrs))
        /\ UNCHANGED seen

\* Mutant: the addresses of both families.
LookupAddresses(c) ==
    /\ query[c].at = "address"
    /\ Step(c, Answered(query[c], Lookup(store, query[c].name, "A")
                                  \cup Lookup(store, query[c].name, "AAAA")))
    /\ UNCHANGED seen

\* The second Get, under a read lock of its own.
LookupAddress(c) ==
    /\ query[c].at = "address"
    /\ Step(c, Answered(query[c], Lookup(store, query[c].name, query[c].qtype)))
    /\ UNCHANGED seen

Close(c) ==
    /\ query[c].at = "done"
    /\ Step(c, NoQuery)
    /\ seen' = [seen EXCEPT ![c] = {}]

-----------------------------------------------------------------------------
(* handleHealth and handleRecords                                          *)

Gather(m, r) ==
    /\ report' = [report EXCEPT ![m] = r]
    /\ UNCHANGED <<cache, syncStatus, syncing, query, seen>>

\* Mutant: the hash before the records.
HashFirst == [idle |-> "hash", hash |-> "records", records |-> "done"]

\* What a handler reads next; each read takes a lock of its own.
NextRead == [idle |-> "records", records |-> "hash", hash |-> "done"]

\* syncStatus.Get comes first; handleRecords does without.
ReadStatus(m) ==
    /\ report[m].at = "idle"
    /\ Gather(m, [NoReport EXCEPT !.at = NextRead.idle, !.status = syncStatus])

\* RRCount or GetAllRecords.
ReadRecords(m) ==
    /\ report[m].at = "records"
    /\ Gather(m, [report[m] EXCEPT !.at = NextRead.records, !.loads = Len(loaded),
                                   !.records = GetAllRecords(store)])

ReadHash(m) ==
    /\ report[m].at = "hash"
    /\ Gather(m, [report[m] EXCEPT !.at = NextRead.hash, !.hash = hash])

Respond(m) == report[m].at = "done" /\ Gather(m, NoReport)

Next ==
    \/ \E s \in Snapshots : SyncLoad(s)
    \/ SyncReport
    \/ SyncUnchanged
    \/ SyncFail
    \/ Notify
    \/ \E c \in Resolvers, name \in Names, qtype \in QTypes \cup {"TXT"} :
          Ask(c, name, qtype) \/ PassOn(c, name, qtype)
    \/ \E c \in Resolvers : LookupCNAME(c) \/ LookupAddress(c) \/ Close(c)
    \/ \E m \in Monitors : ReadStatus(m) \/ ReadRecords(m) \/ ReadHash(m) \/ Respond(m)

Spec == Init /\ [][Next]_vars

-----------------------------------------------------------------------------
Queries == [at : {"idle", "cname", "address", "done"}, name : Names \cup {NoName},
            qtype : QTypes \cup {"", "TXT"},
            rcode : {"", "NOERROR", "NXDOMAIN", "next"}, rrs : SUBSET RRs]

Hashes == {s.hash : s \in Snapshots} \cup {NoHash}
Listed == [name : Domains, type : QTypes \cup {""}, ips : SUBSET (Addresses4 \cup Addresses6)]
Reports == [at : {"idle", "records", "hash", "done"},
            status : {"", "initial", "success", "failed"},
            records : SUBSET Listed, loads : Nat, hash : Hashes]

TypeOK ==
    /\ IsStore(store)
    /\ hash \in Hashes
    /\ loaded \in Seq(Hashes) /\ Len(loaded) <= writes /\ writes \in 0 .. MaxWrites
    /\ syncStatus \in {"initial", "success", "failed"} /\ syncing \in BOOLEAN
    /\ query \in [Resolvers -> Queries]
    /\ \A c \in Resolvers : query[c].rrs # {} <=> query[c].rcode = "NOERROR"
    /\ seen = [c \in Resolvers |-> seen[c]]
    /\ report \in [Monitors -> Reports]

\* What ServeDNS would answer if it looked at one store only.
Resolve(s, q) ==
    LET cname == Lookup(s, q.name, "CNAME")
        rrs == IF cname # {} THEN cname ELSE Lookup(s, q.name, q.qtype)
    IN  [rcode |-> Rcode(q.name, rrs), rrs |-> rrs]

FromCache(c) == query[c].at = "done" /\ Ours(query[c].name, query[c].qtype)
AnsweredBy(c, s) == Resolve(s, query[c]) = [rcode |-> query[c].rcode, rrs |-> query[c].rrs]

\* The RRs of an answer stood together, at one name and under one type, at some
\* moment of the query: no answer mixes two versions of the zone.
UnmixedAnswer ==
    \A c \in Resolvers : FromCache(c) /\ query[c].rrs # {} =>
        \E s \in seen[c], qtype \in {query[c].qtype, "CNAME"} :
            query[c].rrs = Lookup(s, query[c].name, qtype)

\* An answer is that of one moment of the query, although ServeDNS looks twice
\* (elchi.go:72-80), unless the name got or lost its CNAME between the looks.
AtomicUnlessFailoverSwitch ==
    \A c \in Resolvers :
        LET failedOver(s) == Lookup(s, query[c].name, "CNAME") # {}
        IN  FromCache(c) /\ (\A s, t \in seen[c] : failedOver(s) <=> failedOver(t))
              => \E s \in seen[c] : AnsweredBy(c, s)

HashAfter(n) == IF n = 0 THEN NoHash ELSE loaded[n]

\* Between the reads of a GET handler (webhook.go:208-213, 253-276) a sync may load
\* a snapshot, so a response may show records of one beside the hash of another.
\* It never errs the other way: the hash is that of the snapshot its records stem
\* from, or of one loaded before the hash was read, not of an earlier one; and a
\* response that says success shows the records and the hash of a snapshot.
ReportNotBehind ==
    \A m \in Monitors : report[m].at = "done" =>
        /\ \E n \in report[m].loads .. Len(loaded) : report[m].hash = HashAfter(n)
        /\ report[m].status = "success" => report[m].loads > 0 /\ report[m].hash # NoHash

\* The claim of docs/diagrams/02-periodic-sync.md:79, "Cache replaced atomically,
\* no partial state", as a client sees it: every answer is that of one moment.
AtomicAnswer ==
    \A c \in Resolvers : FromCache(c) => \E s \in seen[c] : AnsweredBy(c, s)

\* The claim of docs/diagrams/04-query-flow.md:45: on NXDOMAIN the "Name does not
\* exist", at some moment of the query.
NameErrorMeansNoName ==
    \A c \in Resolvers : FromCache(c) /\ query[c].rcode = "NXDOMAIN" =>
        \E s \in seen[c] : \A k \in DOMAIN s : k[1] # Normalize[query[c].name]
=============================================================================

---------------------------- MODULE RecordCache ----------------------------
(***************************************************************************)
(* cache.go as it runs: the nested map domain -> qtype -> RRs, the mutex,  *)
(* and the loops of the three operations that write, one step per record.  *)
(*                                                                         *)
(* The Syncer (InitClient and later the one backgroundSync goroutine) is   *)
(* the only caller of ReplaceFromSnapshot; it builds the new map outside   *)
(* the lock.  The Handlers (goroutines of the webhook server) call Update  *)
(* and Delete, which hold the lock while they loop.  Readers hold the read *)
(* lock for the whole of their one step.                                   *)
(***************************************************************************)
EXTENDS DnsData

CONSTANTS Snapshots, Batches, DeleteLists,
          Syncer, Handlers, NoOne

NoHash == ""
Callers == {Syncer} \cup Handlers

ASSUME CacheAssumption ==
    /\ Syncer \notin Handlers
    /\ NoOne \notin Callers
    /\ \A s \in Snapshots : s.records \in Seq(Records)
    /\ Batches \subseteq Seq(Records)
    /\ DeleteLists \subseteq Seq(Deletes)

VARIABLES
    records,      \* domain -> qtype -> RRs
    versionHash,
    cacheSize,    \* the gauge of metrics.go for this zone
    mu,           \* the caller holding the write lock, or NoOne
    pc,           \* what each caller is in the middle of
    todo,         \* the records or deletes its loop has not looked at yet
    newRecords,   \* the map the Syncer builds
    newHash,      \* the hash of the snapshot it builds from
    got           \* the last answer of Get: [key, rrs]

vars == <<records, versionHash, cacheSize, mu, pc, todo, newRecords, newHash, got>>

EmptyMap == [d \in {} |-> EmptyStore]

Flatten(map) ==
    [k \in UNION {{d} \X DOMAIN map[d] : d \in DOMAIN map} |-> map[k[1]][k[2]]]

InnerMap(map, d) == IF d \in DOMAIN map THEN map[d] ELSE EmptyStore

\* map[d][qtype] = rrs, making the inner map if there is none.
Put(map, d, qtype, rrs) ==
    [e \in DOMAIN map \cup {d} |->
        IF e = d
        THEN [q \in DOMAIN InnerMap(map, d) \cup {qtype} |->
                IF q = qtype THEN rrs ELSE map[d][q]]
        ELSE map[e]]

\* Mutant: the inner map is emptied but stays.
RemoveTypeOnly(map, d, qtype) ==
    [map EXCEPT ![d] = [q \in DOMAIN map[d] \ {qtype} |-> map[d][q]]]

\* delete(map[d], qtype), and delete(map, d) once nothing is left at d.
Remove(map, d, qtype) ==
    LET left == DOMAIN InnerMap(map, d) \ {qtype}
        kept == IF left = {} THEN DOMAIN map \ {d} ELSE DOMAIN map
    IN  [e \in kept |-> IF e = d THEN [q \in left |-> map[d][q]] ELSE map[e]]

NoAnswer == [key |-> <<>>, rrs |-> {}]

Init ==
    /\ records = EmptyMap
    /\ versionHash = NoHash
    /\ cacheSize = 0
    /\ mu = NoOne
    /\ pc = [c \in Callers |-> "idle"]
    /\ todo = [c \in Callers |-> <<>>]
    /\ newRecords = EmptyMap
    /\ newHash = NoHash
    /\ got = NoAnswer

-----------------------------------------------------------------------------
(* ReplaceFromSnapshot                                                     *)

ReplaceCall(s) ==
    /\ pc[Syncer] = "idle"
    /\ pc' = [pc EXCEPT ![Syncer] = "build"]
    /\ todo' = [todo EXCEPT ![Syncer] = s.records]
    /\ newRecords' = EmptyMap
    /\ newHash' = s.hash
    /\ UNCHANGED <<records, versionHash, cacheSize, mu, got>>

\* append(newRecords[domain][qtype], rrs...)
Append1(map, r) ==
    LET d == Normalize[r.name]
        q == BuiltType(r)
    IN  IF Loadable(r)
        THEN Put(map, d, q, LookupKey(InnerMap(map, d), q) \cup BuildDNSRecords(r))
        ELSE map

ReplaceBuild ==
    /\ pc[Syncer] = "build"
    /\ todo[Syncer] # <<>>
    /\ newRecords' = Append1(newRecords, Head(todo[Syncer]))
    /\ todo' = [todo EXCEPT ![Syncer] = Tail(@)]
    /\ UNCHANGED <<records, versionHash, cacheSize, mu, pc, newHash, got>>

ReplaceCommit ==
    /\ pc[Syncer] = "build"
    /\ todo[Syncer] = <<>>
    /\ mu = NoOne
    /\ records' = newRecords
    /\ versionHash' = newHash
    /\ cacheSize' = RRCount(Flatten(newRecords))
    /\ pc' = [pc EXCEPT ![Syncer] = "idle"]
    /\ newRecords' = EmptyMap
    /\ newHash' = NoHash
    /\ UNCHANGED <<mu, todo, got>>

-----------------------------------------------------------------------------
(* Update and Delete: an empty list returns before the lock is taken.      *)

Lock(h, op, list) ==
    /\ pc[h] = "idle"
    /\ list # <<>>
    /\ mu = NoOne
    /\ mu' = h
    /\ pc' = [pc EXCEPT ![h] = op]
    /\ todo' = [todo EXCEPT ![h] = list]
    /\ UNCHANGED <<records, versionHash, cacheSize, newRecords, newHash, got>>

UpdateCall(h, recs) == Lock(h, "update", recs)
DeleteCall(h, dels) == Lock(h, "delete", dels)

\* c.records[domain][qtype] = rrs
Set1(map, r) ==
    IF Loadable(r)
    THEN Put(map, Normalize[r.name], BuiltType(r), BuildDNSRecords(r))
    ELSE map

Delete1(map, del) ==
    IF /\ ToUpper(del.type) \in {"A", "AAAA"}
       /\ Normalize[del.name] \in DOMAIN map
    THEN Remove(map, Normalize[del.name], ToUpper(del.type))
    ELSE map

Loop(h, op, result) ==
    /\ pc[h] = op
    /\ todo[h] # <<>>
    /\ records' = result
    /\ todo' = [todo EXCEPT ![h] = Tail(@)]
    /\ UNCHANGED <<versionHash, cacheSize, mu, pc, newRecords, newHash, got>>

UpdateRecord(h) == Loop(h, "update", Set1(records, Head(todo[h])))
DeleteRecord(h) == Loop(h, "delete", Delete1(records, Head(todo[h])))

\* Mutant: the metric is left for the next sync to set.
UnlockOnly(h) ==
    /\ pc[h] \in {"update", "delete"}
    /\ todo[h] = <<>>
    /\ mu' = NoOne
    /\ pc' = [pc EXCEPT ![h] = "idle"]
    /\ UNCHANGED <<records, versionHash, cacheSize, todo, newRecords, newHash, got>>

\* updateCacheSizeMetric and the deferred unlock.
Unlock(h) ==
    /\ pc[h] \in {"update", "delete"}
    /\ todo[h] = <<>>
    /\ cacheSize' = RRCount(Flatten(records))
    /\ mu' = NoOne
    /\ pc' = [pc EXCEPT ![h] = "idle"]
    /\ UNCHANGED <<records, versionHash, todo, newRecords, newHash, got>>

-----------------------------------------------------------------------------
\* Mutant: no read lock.
GetUnlocked(name, qtype) ==
    /\ got' = [key |-> <<Normalize[name], qtype>>,
               rrs |-> LookupKey(InnerMap(records, Normalize[name]), qtype)]
    /\ UNCHANGED <<records, versionHash, cacheSize, mu, pc, todo, newRecords, newHash>>

Get(name, qtype) ==
    /\ mu = NoOne
    /\ got' = [key |-> <<Normalize[name], qtype>>,
               rrs |-> LookupKey(InnerMap(records, Normalize[name]), qtype)]
    /\ UNCHANGED <<records, versionHash, cacheSize, mu, pc, todo, newRecords, newHash>>

Next ==
    \/ \E s \in Snapshots : ReplaceCall(s)
    \/ ReplaceBuild
    \/ ReplaceCommit
    \/ \E h \in Handlers, recs \in Batches : UpdateCall(h, recs)
    \/ \E h \in Handlers, dels \in DeleteLists : DeleteCall(h, dels)
    \/ \E h \in Handlers : UpdateRecord(h) \/ DeleteRecord(h) \/ Unlock(h)
    \/ \E name \in Names, qtype \in QTypes : Get(name, qtype)

Spec == Init /\ [][Next]_vars

-----------------------------------------------------------------------------
Hashes == {s.hash : s \in Snapshots} \cup {NoHash}

\* The shape of the state (of cacheSize, see GaugeExact): what Get can find at a
\* key are RRs of that owner and type, with a ttl and an address of the right
\* family, as buildDNSRecords makes them.
TypeOK ==
    /\ IsStore(Flatten(records))
    /\ IsStore(Flatten(newRecords))
    /\ {versionHash, newHash} \subseteq Hashes
    /\ mu \in Handlers \cup {NoOne}
    /\ pc \in [Callers -> {"idle", "build", "update", "delete"}]
    /\ todo \in [Callers -> Seq(Records) \cup Seq(Deletes)]
    /\ \A c \in Callers :
          todo[c] \in IF pc[c] = "delete" THEN Seq(Deletes) ELSE Seq(Records)

\* No domain stays in the map once its last type is deleted: Delete at
\* cache.go:236-239, which the count of domains relies on.
NoHollowDomain == \A d \in DOMAIN records : DOMAIN records[d] # {}

\* Whoever can read the cache sees a gauge that counts exactly its RRs:
\* updateCacheSizeMetric runs before every unlock.
GaugeExact == mu = NoOne => cacheSize = RRCount(Flatten(records))

\* What the map will hold when the caller inside the lock has finished.
Outcome ==
    IF mu = NoOne THEN Flatten(records)
    ELSE IF pc[mu] = "update" THEN ApplyUpdate(Flatten(records), todo[mu])
    ELSE ApplyDelete(Flatten(records), todo[mu])

Abstract == INSTANCE RecordStore WITH
    store <- Outcome, hash <- versionHash, got <- got

\* The three write operations and Get take effect at one instant each, the
\* snapshot together with its hash, whatever runs beside them: the mutex of
\* cache.go and the build outside it.
ImplementsRecordStore == Abstract!Spec
=============================================================================

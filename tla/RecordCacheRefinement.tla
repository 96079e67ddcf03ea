----------------------- MODULE RecordCacheRefinement -----------------------
(***************************************************************************)
(* RecordCache implements RecordStore: whatever the interleaving, record   *)
(* by record, each operation takes effect at one instant.  Update and      *)
(* Delete take effect when they get the lock, as nobody looks before they  *)
(* give it back; ReplaceFromSnapshot takes effect at its assignment.       *)
(***************************************************************************)
EXTENDS RecordCacheProofs

-----------------------------------------------------------------------------
(* One turn of each loop moves a record from the list into the map and     *)
(* leaves what the whole loop gives as it was.                             *)

\* Update: the head replaces what is at its key unless a later record does.
LEMMA UpdateStep ==
    ASSUME NEW map, NEW list \in Seq(Records), list # <<>>
    PROVE  ApplyUpdate(Flatten(Set1(map, Head(list))), Tail(list))
             = ApplyUpdate(Flatten(map), list)
<1> DEFINE r == Head(list)
           before == Flatten(map)
           after == Flatten(Set1(map, r))
           f == ApplyUpdate(after, Tail(list))
           g == ApplyUpdate(before, list)
<1>1. /\ \A k : k \in DOMAIN after
                  <=> k \in DOMAIN before \/ (Loadable(r) /\ Key(r) = k)
      /\ \A k \in DOMAIN after :
            after[k] = IF Loadable(r) /\ Key(r) = k THEN BuildDNSRecords(r) ELSE before[k]
  <2>1. CASE Loadable(r)
    BY <2>1, FlattenPut DEF Set1, Key
  <2>2. CASE ~Loadable(r)
    BY <2>2 DEF Set1
  <2>3. QED
    BY <2>1, <2>2
<1>2. f = [k \in DOMAIN f |-> f[k]] /\ g = [k \in DOMAIN g |-> g[k]]
  BY DEF ApplyUpdate
<1> HIDE DEF before, after
<1>3. ASSUME NEW k PROVE k \in DOMAIN f <=> k \in DOMAIN g
  BY <1>1, ApplyUpdateAt, WrittenKeysOfTail
<1>4. ASSUME NEW k \in DOMAIN f PROVE f[k] = g[k]
  <2>1. CASE k \in WrittenKeys(Tail(list))
    <3>1. f[k] = BuildDNSRecords(Tail(list)[LastWriter(Tail(list), k)])
      BY <2>1, ApplyUpdateAt
    <3>2. k \in WrittenKeys(list)
      BY <2>1, WrittenKeysOfTail
    <3>3. g[k] = BuildDNSRecords(list[LastWriter(list, k)])
      BY <3>2, ApplyUpdateAt
    <3>4. list[LastWriter(list, k)] = Tail(list)[LastWriter(Tail(list), k)]
      BY <2>1, <3>2, LastWriterOfTail
    <3>5. QED
      BY <3>1, <3>3, <3>4
  <2>2. CASE k \notin WrittenKeys(Tail(list)) /\ Loadable(r) /\ Key(r) = k
    <3>1. f[k] = BuildDNSRecords(r)
      BY <1>1, <2>2, ApplyUpdateAt
    <3>2. g[k] = BuildDNSRecords(r)
      BY <2>2, ApplyUpdateAt, WrittenKeysOfTail, LastWriterOfTail
    <3>3. QED
      BY <3>1, <3>2
  <2>3. CASE k \notin WrittenKeys(Tail(list)) /\ ~(Loadable(r) /\ Key(r) = k)
    <3>1. k \notin WrittenKeys(list) /\ k \in DOMAIN after /\ k \in DOMAIN before
      BY <1>1, <2>3, ApplyUpdateAt, WrittenKeysOfTail
    <3>2. QED
      BY <1>1, <2>3, <3>1, ApplyUpdateAt
  <2>4. QED
    BY <2>1, <2>2, <2>3
<1> HIDE DEF f, g
<1>5. f = g
  BY <1>2, <1>3, <1>4, FunctionsEqual
<1>6. QED
  BY <1>5 DEF f, g, before, after

\* ReplaceFromSnapshot: the head is appended to what is at its key.
LEMMA AppendStep ==
    ASSUME NEW map, NEW list \in Seq(Records), list # <<>>
    PROVE  AppendAll(Flatten(Append1(map, Head(list))), Tail(list))
             = AppendAll(Flatten(map), list)
<1> DEFINE r == Head(list)
           before == Flatten(map)
           after == Flatten(Append1(map, r))
           f == AppendAll(after, Tail(list))
           g == AppendAll(before, list)
<1>1. /\ \A k : k \in DOMAIN after
                  <=> k \in DOMAIN before \/ (Loadable(r) /\ Key(r) = k)
      /\ \A k, rr : rr \in LookupKey(after, k)
                      <=> \/ rr \in LookupKey(before, k)
                          \/ Loadable(r) /\ Key(r) = k /\ rr \in BuildDNSRecords(r)
  <2>1. CASE Loadable(r)
    <3> DEFINE d == Normalize[r.name]
               q == BuiltType(r)
               old == LookupKey(InnerMap(map, d), q)
    <3>1. Append1(map, r) = Put(map, d, q, old \cup BuildDNSRecords(r)) /\ Key(r) = <<d, q>>
      BY <2>1 DEF Append1, Key
    <3>2. old = LookupKey(before, <<d, q>>)
      BY FlattenAt DEF LookupKey, InnerMap, EmptyStore
    <3> HIDE DEF d, q, old, before, after
    <3>3. /\ \A k : k \in DOMAIN after <=> k \in DOMAIN before \/ k = <<d, q>>
          /\ \A k \in DOMAIN after :
                after[k] = IF k = <<d, q>> THEN old \cup BuildDNSRecords(r) ELSE before[k]
      BY <3>1, FlattenPut DEF before, after
    <3>4. QED
      BY <2>1, <3>1, <3>2, <3>3 DEF LookupKey
  <2>2. CASE ~Loadable(r)
    BY <2>2 DEF Append1
  <2>3. QED
    BY <2>1, <2>2
<1>2. f = [k \in DOMAIN f |-> f[k]] /\ g = [k \in DOMAIN g |-> g[k]]
  BY DEF AppendAll
<1> HIDE DEF before, after
<1>3. ASSUME NEW k PROVE k \in DOMAIN f <=> k \in DOMAIN g
  BY <1>1, AppendAllAt, WrittenKeysOfTail
<1>4. ASSUME NEW k, NEW rr
      PROVE  (\E i \in WritersOf(list, k) : rr \in BuildDNSRecords(list[i]))
               <=> \/ \E i \in WritersOf(Tail(list), k) : rr \in BuildDNSRecords(Tail(list)[i])
                   \/ Loadable(r) /\ Key(r) = k /\ rr \in BuildDNSRecords(r)
  <2>1. /\ list[1] = r
        /\ \A i \in WritersOf(Tail(list), k) : list[i + 1] = Tail(list)[i]
        /\ \A i \in WritersOf(list, k) \ {1} : list[i] = Tail(list)[i - 1]
    BY Positions DEF WritersOf, LoadableAt
  <2>2. QED
    BY <2>1, WritersOfTail
<1>5. ASSUME NEW k \in DOMAIN f PROVE f[k] = g[k]
  <2>1. ASSUME NEW rr PROVE rr \in f[k] <=> rr \in g[k]
    BY <1>1, <1>3, <1>4, AppendAllAt
  <2>2. QED
    BY <2>1
<1> HIDE DEF f, g
<1>6. f = g
  BY <1>2, <1>3, <1>5, FunctionsEqual
<1>7. QED
  BY <1>6 DEF f, g, before, after

LEMMA DeleteStep ==
    ASSUME NEW map, NEW list \in Seq(Deletes), list # <<>>
    PROVE  ApplyDelete(Flatten(Delete1(map, Head(list))), Tail(list))
             = ApplyDelete(Flatten(map), list)
<1> DEFINE del == Head(list)
           key == <<Normalize[del.name], ToUpper(del.type)>>
           before == Flatten(map)
           after == Flatten(Delete1(map, del))
           f == ApplyDelete(after, Tail(list))
           g == ApplyDelete(before, list)
<1>1. /\ \A k : k \in DOMAIN after
                  <=> /\ k \in DOMAIN before
                      /\ ~(ToUpper(del.type) \in {"A", "AAAA"} /\ k = key)
      /\ \A k \in DOMAIN after : after[k] = before[k]
  <2>1. CASE ToUpper(del.type) \in {"A", "AAAA"} /\ Normalize[del.name] \in DOMAIN map
    BY <2>1, FlattenRemove DEF Delete1
  <2>2. CASE ToUpper(del.type) \notin {"A", "AAAA"}
    BY <2>2 DEF Delete1
  <2>3. CASE Normalize[del.name] \notin DOMAIN map
    BY <2>3, FlattenAt DEF Delete1
  <2>4. QED
    BY <2>1, <2>2, <2>3
<1>2. f = [k \in DOMAIN f |-> f[k]] /\ g = [k \in DOMAIN g |-> g[k]]
  BY DEF ApplyDelete
<1> HIDE DEF before, after
<1>3. /\ \A k : k \in DOMAIN f <=> k \in DOMAIN g
      /\ \A k \in DOMAIN f : f[k] = g[k]
  BY <1>1, DeletedKeysOfTail DEF ApplyDelete
<1> HIDE DEF f, g
<1>4. f = g
  BY <1>2, <1>3, FunctionsEqual
<1>5. QED
  BY <1>4 DEF f, g, before, after
-----------------------------------------------------------------------------
(* What the Syncer builds                                                  *)

\* The map built so far and the records left give what the snapshot gives, and
\* the hash is that of the same snapshot.
BuildInv ==
    pc[Syncer] = "build" =>
        \E s \in Snapshots :
            /\ newHash = s.hash
            /\ AppendAll(Flatten(newRecords), todo[Syncer]) = LoadSnapshot(s.records)

LEMMA InitBuildInv == Init => BuildInv
BY DEF Init, BuildInv, Callers

LEMMA NextBuildInv == IInv /\ BuildInv /\ [Next]_vars => BuildInv'
<1> SUFFICES ASSUME IInv, BuildInv, [Next]_vars PROVE BuildInv'
  OBVIOUS
<1> USE DEF BuildInv, Callers
<1>0. pc \in [Callers -> {"idle", "build", "update", "delete"}]
      /\ DOMAIN todo = Callers
  BY DEF IInv, TypeOK
<1>1. ASSUME NEW s \in Snapshots, ReplaceCall(s)
      PROVE  BuildInv'
  BY <1>0, <1>1, FlattenEmptyMap DEF ReplaceCall, LoadSnapshot
<1>2. ASSUME ReplaceBuild
      PROVE  BuildInv'
  <2>1. todo[Syncer] \in Seq(Records)
    BY <1>2 DEF IInv, TypeOK, ReplaceBuild
  <2>2. AppendAll(Flatten(newRecords'), todo'[Syncer])
          = AppendAll(Flatten(newRecords), todo[Syncer])
    BY <1>0, <1>2, <2>1, AppendStep DEF ReplaceBuild
  <2>3. QED
    BY <1>2, <2>2 DEF ReplaceBuild
<1>3. ASSUME ReplaceCommit
      PROVE  BuildInv'
  BY <1>0, <1>3 DEF ReplaceCommit
<1>4. ASSUME NEW h \in Handlers, UNCHANGED <<newRecords, newHash>>,
             pc'[Syncer] = pc[Syncer], todo'[Syncer] = todo[Syncer]
      PROVE  BuildInv'
  BY <1>4
<1>5. ASSUME NEW h \in Handlers, NEW op, NEW list, Lock(h, op, list)
      PROVE  BuildInv'
  BY <1>0, <1>4, <1>5, CacheAssumption DEF Lock
<1>6. ASSUME NEW h \in Handlers, UpdateRecord(h) \/ DeleteRecord(h)
      PROVE  BuildInv'
  BY <1>0, <1>4, <1>6, CacheAssumption DEF UpdateRecord, DeleteRecord, Loop
<1>7. ASSUME NEW h \in Handlers, Unlock(h)
      PROVE  BuildInv'
  BY <1>0, <1>4, <1>7, CacheAssumption DEF Unlock
<1>8. ASSUME NEW name \in Names, NEW qtype \in QTypes, Get(name, qtype)
      PROVE  BuildInv'
  BY <1>8 DEF Get
<1>9. CASE UNCHANGED vars
  BY <1>9 DEF vars
<1>10. QED
  BY <1>1, <1>2, <1>3, <1>5, <1>6, <1>7, <1>8, <1>9 DEF Next, UpdateCall, DeleteCall

-----------------------------------------------------------------------------
(* The operators of the instance are those of the module.                  *)

LEMMA SameOperators ==
    /\ Abstract!EmptyStore = EmptyStore
    /\ \A recs : Abstract!LoadSnapshot(recs) = LoadSnapshot(recs)
    /\ \A s, recs : Abstract!ApplyUpdate(s, recs) = ApplyUpdate(s, recs)
    /\ \A s, dels : Abstract!ApplyDelete(s, dels) = ApplyDelete(s, dels)
    /\ \A s, n, q : Abstract!Lookup(s, n, q) = Lookup(s, n, q)
<1>1. \A r : Abstract!BuildDNSRecords(r) = BuildDNSRecords(r)
    BY DEF Abstract!BuildDNSRecords, BuildDNSRecords, Abstract!RR, RR,
     Abstract!EffectiveTTL, EffectiveTTL, Abstract!ToUpper, ToUpper,
     Abstract!ParsedIn, ParsedIn, Abstract!NoName, NoName
<1>2. \A r : Abstract!Key(r) = Key(r)
    BY DEF Abstract!Key, Key, Abstract!BuiltType, BuiltType, Abstract!ToUpper,
     ToUpper
<1>3. \A recs : Abstract!LoadableAt(recs) = LoadableAt(recs)
    BY <1>1 DEF Abstract!LoadableAt, LoadableAt, Abstract!Loadable, Loadable
<1>4. \A recs, k : Abstract!WritersOf(recs, k) = WritersOf(recs, k)
    BY <1>2, <1>3 DEF Abstract!WritersOf, WritersOf
<1>5. \A recs : Abstract!WrittenKeys(recs) = WrittenKeys(recs)
    BY <1>2, <1>3 DEF Abstract!WrittenKeys, WrittenKeys
<1>6. \A s, k : Abstract!LookupKey(s, k) = LookupKey(s, k)
    BY DEF Abstract!LookupKey, LookupKey
<1>7. \A s, n, q : Abstract!Lookup(s, n, q) = Lookup(s, n, q)
    BY <1>6 DEF Abstract!Lookup, Lookup
<1>8. Abstract!EmptyStore = EmptyStore
    BY DEF Abstract!EmptyStore, EmptyStore
<1>9. \A recs : Abstract!LoadSnapshot(recs) = LoadSnapshot(recs)
    BY <1>1, <1>4, <1>5, <1>6, <1>8 DEF Abstract!LoadSnapshot, LoadSnapshot,
     Abstract!AppendAll, AppendAll
<1>10. \A s, recs : Abstract!ApplyUpdate(s, recs) = ApplyUpdate(s, recs)
  <2>1. ASSUME NEW recs, NEW k
        PROVE  Abstract!LastWriter(recs, k) = LastWriter(recs, k)
    <3>1. Abstract!WritersOf(recs, k) = WritersOf(recs, k)
      BY <1>4
    <3>2. QED
      BY <3>1, Zenon DEF Abstract!LastWriter, LastWriter
  <2>2. QED
    BY <1>1, <1>5, <2>1 DEF Abstract!ApplyUpdate, ApplyUpdate
<1>11. \A s, dels : Abstract!ApplyDelete(s, dels) = ApplyDelete(s, dels)
    BY DEF Abstract!ApplyDelete, ApplyDelete, Abstract!DeletedKeys, DeletedKeys,
     Abstract!DeletableAt, DeletableAt, Abstract!ToUpper, ToUpper
<1>12. QED
  BY <1>7, <1>8, <1>9, <1>10, <1>11
-----------------------------------------------------------------------------
(* Every step of RecordCache is a step of RecordStore or none.             *)

LEMMA InitRefines == Init => Abstract!Init
BY FlattenEmptyMap, SameOperators
   DEF Init, Outcome, Abstract!Init, NoHash, Abstract!NoHash, NoAnswer, Abstract!NoAnswer

\* A Get that nobody shuts out finds in the nested map what the flat store holds.
LEMMA GetReadsStore ==
    ASSUME NEW map, NEW name, NEW qtype
    PROVE  LookupKey(InnerMap(map, Normalize[name]), qtype)
             = Lookup(Flatten(map), name, qtype)
BY FlattenAt DEF Lookup, LookupKey, InnerMap, EmptyStore

LEMMA NextRefines ==
    IInv /\ BuildInv /\ [Next]_vars => [Abstract!Next]_(Abstract!svars)
<1> SUFFICES ASSUME IInv, BuildInv, [Next]_vars
             PROVE  Abstract!Next \/ UNCHANGED <<Outcome, versionHash, got>>
  BY DEF Abstract!svars
<1>1. /\ pc \in [Callers -> {"idle", "build", "update", "delete"}]
      /\ DOMAIN todo = Callers
      /\ Syncer \in Callers /\ Handlers \subseteq Callers
      /\ Syncer \notin Handlers /\ NoOne \notin Handlers
      /\ mu \in Handlers \cup {NoOne}
      /\ IsStore(Flatten(records)) /\ IsStore(Flatten(newRecords))
      /\ \A h \in Handlers : mu = h <=> pc[h] # "idle"
  BY CacheAssumption DEF IInv, TypeOK, MutexInv, Callers
<1>2. ASSUME NEW s \in Snapshots, ReplaceCall(s)
      PROVE  UNCHANGED <<Outcome, versionHash, got>>
  BY <1>1, <1>2 DEF ReplaceCall, Outcome
<1>3. ASSUME ReplaceBuild
      PROVE  UNCHANGED <<Outcome, versionHash, got>>
  BY <1>1, <1>3 DEF ReplaceBuild, Outcome
<1>4. ASSUME ReplaceCommit
      PROVE  Abstract!Next
  <2>1. PICK s \in Snapshots :
             /\ newHash = s.hash
             /\ AppendAll(Flatten(newRecords), <<>>) = LoadSnapshot(s.records)
    BY <1>4 DEF BuildInv, ReplaceCommit
  <2>2. Outcome' = LoadSnapshot(s.records) /\ versionHash' = s.hash /\ got' = got
    BY <1>1, <1>4, <2>1, NothingLeft DEF ReplaceCommit, Outcome
  <2>3. Abstract!Replace(s)
    BY <2>2, SameOperators DEF Abstract!Replace
  <2>4. QED
    BY <2>3 DEF Abstract!Next
<1>5. ASSUME NEW h \in Handlers, NEW recs \in Batches, UpdateCall(h, recs)
      PROVE  Abstract!Next
  <2> USE <1>5 DEF UpdateCall, Lock
  <2>1. Outcome = Flatten(records)
    BY DEF Outcome
  <2>2. /\ mu' = h /\ mu' # NoOne
        /\ pc'[h] = "update" /\ todo'[h] = recs /\ records' = records
    BY <1>1
  <2>3. Outcome' = ApplyUpdate(Outcome, recs)
    BY <2>1, <2>2 DEF Outcome
  <2>4. Abstract!Update(recs)
    BY <2>3, SameOperators DEF Abstract!Update
  <2>5. QED
    BY <2>4 DEF Abstract!Next
<1>6. ASSUME NEW h \in Handlers, NEW dels \in DeleteLists, DeleteCall(h, dels)
      PROVE  Abstract!Next
  <2> USE <1>6 DEF DeleteCall, Lock
  <2>1. Outcome = Flatten(records)
    BY DEF Outcome
  <2>2. /\ mu' = h /\ mu' # NoOne
        /\ pc'[h] = "delete" /\ todo'[h] = dels /\ records' = records
    BY <1>1
  <2>3. Outcome' = ApplyDelete(Outcome, dels)
    BY <2>1, <2>2 DEF Outcome
  <2>4. Abstract!Delete(dels)
    BY <2>3, SameOperators DEF Abstract!Delete
  <2>5. QED
    BY <2>4 DEF Abstract!Next
<1>7. ASSUME NEW h \in Handlers, UpdateRecord(h)
      PROVE  UNCHANGED <<Outcome, versionHash, got>>
  <2> USE <1>7 DEF UpdateRecord, Loop
  <2>1. mu = h /\ mu # NoOne /\ pc[h] = "update" /\ todo[h] \in Seq(Records)
    BY <1>1 DEF IInv, TypeOK
  <2>2. Outcome = ApplyUpdate(Flatten(records), todo[h])
    BY <2>1 DEF Outcome
  <2>3. Outcome' = ApplyUpdate(Flatten(Set1(records, Head(todo[h]))), Tail(todo[h]))
    BY <1>1, <2>1 DEF Outcome
  <2>4. QED
    BY <2>1, <2>2, <2>3, UpdateStep
<1>8. ASSUME NEW h \in Handlers, DeleteRecord(h)
      PROVE  UNCHANGED <<Outcome, versionHash, got>>
  <2> USE <1>8 DEF DeleteRecord, Loop
  <2>1. mu = h /\ mu # NoOne /\ pc[h] = "delete" /\ todo[h] \in Seq(Deletes)
    BY <1>1 DEF IInv, TypeOK
  <2>2. Outcome = ApplyDelete(Flatten(records), todo[h])
    BY <2>1 DEF Outcome
  <2>3. Outcome' = ApplyDelete(Flatten(Delete1(records, Head(todo[h]))), Tail(todo[h]))
    BY <1>1, <2>1 DEF Outcome
  <2>4. QED
    BY <2>1, <2>2, <2>3, DeleteStep
<1>9. ASSUME NEW h \in Handlers, Unlock(h)
      PROVE  UNCHANGED <<Outcome, versionHash, got>>
  <2> USE <1>9 DEF Unlock
  <2>1. mu = h /\ mu # NoOne /\ todo[h] = <<>>
    BY <1>1
  <2>2. Outcome = Flatten(records)
    BY <1>1, <2>1, NothingLeft DEF Outcome
  <2>3. Outcome' = Flatten(records)
    BY DEF Outcome
  <2>4. QED
    BY <2>2, <2>3
<1>10. ASSUME NEW name \in Names, NEW qtype \in QTypes, Get(name, qtype)
       PROVE  Abstract!Next
  <2>1. Outcome = Flatten(records) /\ Outcome' = Outcome
    BY <1>10 DEF Get, Outcome
  <2>2. Abstract!Get(name, qtype)
    BY <1>10, <2>1, GetReadsStore, SameOperators DEF Get, Abstract!Get
  <2>3. qtype \in Abstract!QTypes
    BY DEF QTypes, Abstract!QTypes
  <2>4. QED
    BY <2>2, <2>3 DEF Abstract!Next
<1>11. CASE UNCHANGED vars
  BY <1>11 DEF vars, Outcome
<1>12. QED
  BY <1>2, <1>3, <1>4, <1>5, <1>6, <1>7, <1>8, <1>9, <1>10, <1>11 DEF Next

\* The cache is atomic: with any number of webhook handlers, any lists and any
\* snapshots, ReplaceFromSnapshot, Update, Delete and Get of cache.go behave as
\* if each happened at one instant.
THEOREM CacheIsAtomic == Spec => ImplementsRecordStore
<1>1. Init => Abstract!Init
  BY InitRefines
<1>2. IInv /\ BuildInv /\ [Next]_vars => [Abstract!Next]_(Abstract!svars)
  BY NextRefines
<1>3. Spec => []BuildInv
  <2>1. Spec => []IInv
    BY Invariance
  <2>2. QED
    BY <2>1, InitBuildInv, NextBuildInv, PTL DEF Spec
<1>4. QED
  BY <1>1, <1>2, <1>3, Invariance, PTL DEF Spec, ImplementsRecordStore, Abstract!Spec
=============================================================================

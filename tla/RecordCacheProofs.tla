------------------------- MODULE RecordCacheProofs -------------------------
(***************************************************************************)
(* What holds of RecordCache for all names, records, snapshots and         *)
(* handlers.                                                               *)
(***************************************************************************)
EXTENDS RecordCache, DnsDataProofs

-----------------------------------------------------------------------------
(* The nested map seen flat.                                               *)

\* The keys of the flat view are the pairs of the nested map.
LEMMA FlattenKeys ==
    ASSUME NEW map, NEW k
    PROVE  k \in DOMAIN Flatten(map)
             <=> \E d \in DOMAIN map : \E q \in DOMAIN map[d] : k = <<d, q>>
BY DEF Flatten

LEMMA FlattenAt ==
    ASSUME NEW map, NEW d, NEW q
    PROVE  /\ <<d, q>> \in DOMAIN Flatten(map) <=> d \in DOMAIN map /\ q \in DOMAIN map[d]
           /\ <<d, q>> \in DOMAIN Flatten(map) => Flatten(map)[<<d, q>>] = map[d][q]
<1>1. ASSUME <<d, q>> \in DOMAIN Flatten(map)
      PROVE  d \in DOMAIN map /\ q \in DOMAIN map[d]
  BY <1>1, FlattenKeys
<1>2. ASSUME d \in DOMAIN map, q \in DOMAIN map[d]
      PROVE  <<d, q>> \in DOMAIN Flatten(map)
  BY <1>2, FlattenKeys
<1>3. ASSUME <<d, q>> \in DOMAIN Flatten(map)
      PROVE  Flatten(map)[<<d, q>>] = map[d][q]
  BY <1>3 DEF Flatten
<1>4. QED
  BY <1>1, <1>2, <1>3

\* Put sets one key of the flat view and leaves the others alone.
LEMMA FlattenPut ==
    ASSUME NEW map, NEW d, NEW q, NEW rrs
    PROVE  /\ \A k : k \in DOMAIN Flatten(Put(map, d, q, rrs))
                     <=> k \in DOMAIN Flatten(map) \/ k = <<d, q>>
           /\ \A k \in DOMAIN Flatten(Put(map, d, q, rrs)) :
                 Flatten(Put(map, d, q, rrs))[k] =
                   IF k = <<d, q>> THEN rrs ELSE Flatten(map)[k]
<1> DEFINE after == Put(map, d, q, rrs)
<1>1. /\ DOMAIN after = DOMAIN map \cup {d}
      /\ DOMAIN after[d] = DOMAIN InnerMap(map, d) \cup {q}
      /\ after[d][q] = rrs
      /\ \A p \in DOMAIN InnerMap(map, d) : p # q => after[d][p] = map[d][p]
      /\ \A e \in DOMAIN map : e # d => after[e] = map[e]
  BY DEF Put
<1>2. DOMAIN InnerMap(map, d) = IF d \in DOMAIN map THEN DOMAIN map[d] ELSE {}
  BY DEF InnerMap, EmptyStore
<1> HIDE DEF after
<1>3. ASSUME NEW e, NEW p
      PROVE  <<e, p>> \in DOMAIN Flatten(after)
               <=> <<e, p>> \in DOMAIN Flatten(map) \cup {<<d, q>>}
  BY <1>1, <1>2, FlattenAt
<1>4. DOMAIN Flatten(after) = DOMAIN Flatten(map) \cup {<<d, q>>}
  <2>1. ASSUME NEW k \in DOMAIN Flatten(after)
        PROVE  k \in DOMAIN Flatten(map) \cup {<<d, q>>}
    BY <1>3, FlattenKeys
  <2>2. ASSUME NEW k \in DOMAIN Flatten(map) \cup {<<d, q>>}
        PROVE  k \in DOMAIN Flatten(after)
    BY <1>3, FlattenKeys
  <2>3. QED
    BY <2>1, <2>2
<1>5. ASSUME NEW e, NEW p, <<e, p>> \in DOMAIN Flatten(after)
      PROVE  Flatten(after)[<<e, p>>] =
               IF <<e, p>> = <<d, q>> THEN rrs ELSE Flatten(map)[<<e, p>>]
  BY <1>1, <1>2, <1>3, <1>5, FlattenAt
<1>6. ASSUME NEW k \in DOMAIN Flatten(after)
      PROVE  Flatten(after)[k] = IF k = <<d, q>> THEN rrs ELSE Flatten(map)[k]
  BY <1>5, FlattenKeys
<1>7. QED
  BY <1>4, <1>6 DEF after

\* Remove drops one key of the flat view and leaves the others alone, whether or
\* not the domain goes with it.
LEMMA FlattenRemove ==
    ASSUME NEW map, NEW d, NEW q
    PROVE  /\ \A k : k \in DOMAIN Flatten(Remove(map, d, q))
                     <=> k \in DOMAIN Flatten(map) /\ k # <<d, q>>
           /\ \A k \in DOMAIN Flatten(Remove(map, d, q)) :
                 Flatten(Remove(map, d, q))[k] = Flatten(map)[k]
<1> DEFINE after == Remove(map, d, q)
           left == DOMAIN InnerMap(map, d) \ {q}
<1>1. DOMAIN InnerMap(map, d) = IF d \in DOMAIN map THEN DOMAIN map[d] ELSE {}
  BY DEF InnerMap, EmptyStore
<1>2. /\ DOMAIN after = IF left = {} THEN DOMAIN map \ {d} ELSE DOMAIN map
      /\ d \in DOMAIN after => DOMAIN after[d] = left
      /\ d \in DOMAIN after => \A p \in left : after[d][p] = map[d][p]
      /\ \A e \in DOMAIN after : e # d => after[e] = map[e]
  BY DEF Remove
<1> HIDE DEF after
<1>3. ASSUME NEW e, NEW p
      PROVE  <<e, p>> \in DOMAIN Flatten(after)
               <=> <<e, p>> \in DOMAIN Flatten(map) \ {<<d, q>>}
  BY <1>1, <1>2, FlattenAt
<1>4. DOMAIN Flatten(after) = DOMAIN Flatten(map) \ {<<d, q>>}
  BY <1>3, FlattenKeys
<1>5. ASSUME NEW e, NEW p, <<e, p>> \in DOMAIN Flatten(after)
      PROVE  Flatten(after)[<<e, p>>] = Flatten(map)[<<e, p>>]
  BY <1>1, <1>2, <1>3, <1>5, FlattenAt
<1>6. ASSUME NEW k \in DOMAIN Flatten(after)
      PROVE  Flatten(after)[k] = Flatten(map)[k]
  BY <1>5, FlattenKeys
<1>7. QED
  BY <1>4, <1>6 DEF after

LEMMA FlattenEmptyMap == Flatten(EmptyMap) = EmptyStore
BY DEF Flatten, EmptyMap, EmptyStore

LEMMA PutKeepsStore ==
    ASSUME NEW map, IsStore(Flatten(map)), NEW d, NEW q, <<d, q>> \in Keys,
           NEW rrs, rrs # {}, rrs \subseteq RRsAt(<<d, q>>)
    PROVE  IsStore(Flatten(Put(map, d, q, rrs)))
<1> DEFINE before == Flatten(map)
           after == Flatten(Put(map, d, q, rrs))
<1>1. /\ \A k : k \in DOMAIN after <=> k \in DOMAIN before \/ k = <<d, q>>
      /\ \A k \in DOMAIN after : after[k] = IF k = <<d, q>> THEN rrs ELSE before[k]
  BY FlattenPut
<1>2. after = [k \in DOMAIN after |-> after[k]]
  BY DEF Flatten
<1> HIDE DEF before, after
<1>3. IsStore(before) => IsStore(after)
  BY <1>1, <1>2 DEF IsStore
<1>4. QED
  BY <1>3 DEF before, after

LEMMA RemoveKeepsStore ==
    ASSUME NEW map, IsStore(Flatten(map)), NEW d, NEW q
    PROVE  IsStore(Flatten(Remove(map, d, q)))
<1> DEFINE before == Flatten(map)
           after == Flatten(Remove(map, d, q))
<1>1. /\ DOMAIN after \subseteq DOMAIN before
      /\ \A k \in DOMAIN after : after[k] = before[k]
  BY FlattenRemove
<1>2. after = [k \in DOMAIN after |-> after[k]]
  BY DEF Flatten
<1> HIDE DEF before, after
<1>3. IsStore(before) => IsStore(after)
  BY <1>1, <1>2 DEF IsStore
<1>4. QED
  BY <1>3 DEF before, after

\* No domain is without a type.
NoHollow(map) == \A d \in DOMAIN map : DOMAIN map[d] # {}

\* One turn of each of the three loops keeps a well-formed map well-formed.
LEMMA AppendKeepsMap ==
    ASSUME NEW map, NEW r \in Records, IsStore(Flatten(map)), NoHollow(map)
    PROVE  IsStore(Flatten(Append1(map, r))) /\ NoHollow(Append1(map, r))
<1>1. CASE ~Loadable(r)
  BY <1>1 DEF Append1
<1>2. CASE Loadable(r)
  <2> DEFINE d == Normalize[r.name]
             q == BuiltType(r)
             old == LookupKey(InnerMap(map, d), q)
             rrs == old \cup BuildDNSRecords(r)
  <2>1. Append1(map, r) = Put(map, d, q, rrs)
    BY <1>2 DEF Append1
  <2>2. /\ <<d, q>> \in Keys
        /\ BuildDNSRecords(r) # {}
        /\ BuildDNSRecords(r) \subseteq RRsAt(<<d, q>>)
    BY <1>2, BuildFitsKey DEF Key
  <2>3. old \subseteq RRsAt(<<d, q>>)
    BY FlattenAt DEF LookupKey, InnerMap, EmptyStore, IsStore
  <2>4. rrs # {} /\ rrs \subseteq RRsAt(<<d, q>>)
    BY <2>2, <2>3
  <2> HIDE DEF d, q, rrs
  <2>5. IsStore(Flatten(Put(map, d, q, rrs)))
    BY <2>2, <2>4, PutKeepsStore
  <2>6. NoHollow(Put(map, d, q, rrs))
    BY DEF NoHollow, Put
  <2>7. QED
    BY <2>1, <2>5, <2>6
<1>3. QED
  BY <1>1, <1>2

LEMMA SetKeepsMap ==
    ASSUME NEW map, NEW r \in Records, IsStore(Flatten(map)), NoHollow(map)
    PROVE  IsStore(Flatten(Set1(map, r))) /\ NoHollow(Set1(map, r))
<1>1. CASE ~Loadable(r)
  BY <1>1 DEF Set1
<1>2. CASE Loadable(r)
  <2> DEFINE d == Normalize[r.name]
             q == BuiltType(r)
             rrs == BuildDNSRecords(r)
  <2>1. Set1(map, r) = Put(map, d, q, rrs)
    BY <1>2 DEF Set1
  <2>2. <<d, q>> \in Keys /\ rrs # {} /\ rrs \subseteq RRsAt(<<d, q>>)
    BY <1>2, BuildFitsKey DEF Key
  <2> HIDE DEF d, q, rrs
  <2>3. IsStore(Flatten(Put(map, d, q, rrs)))
    BY <2>2, PutKeepsStore
  <2>4. NoHollow(Put(map, d, q, rrs))
    BY DEF NoHollow, Put
  <2>5. QED
    BY <2>1, <2>3, <2>4
<1>3. QED
  BY <1>1, <1>2

LEMMA DeleteKeepsMap ==
    ASSUME NEW map, NEW del, IsStore(Flatten(map)), NoHollow(map)
    PROVE  IsStore(Flatten(Delete1(map, del))) /\ NoHollow(Delete1(map, del))
<1>1. ASSUME NEW d, NEW q
      PROVE  IsStore(Flatten(Remove(map, d, q))) /\ NoHollow(Remove(map, d, q))
  <2>1. IsStore(Flatten(Remove(map, d, q)))
    BY RemoveKeepsStore
  <2>2. NoHollow(Remove(map, d, q))
    BY DEF NoHollow, Remove
  <2>3. QED
    BY <2>1, <2>2
<1>2. QED
  BY <1>1 DEF Delete1

-----------------------------------------------------------------------------
(* The inductive invariant                                                 *)

\* Only a handler holds the lock, and only while it is in Update or Delete; only
\* the Syncer builds.
MutexInv ==
    /\ \A h \in Handlers : pc[h] # "build" /\ (mu = h <=> pc[h] # "idle")
    /\ pc[Syncer] \in {"idle", "build"}

IInv ==
    /\ TypeOK
    /\ MutexInv
    /\ GaugeExact
    /\ NoHollow(records)
    /\ NoHollow(newRecords)

LEMMA InitIInv == Init => IInv
<1> SUFFICES ASSUME Init PROVE IInv
  OBVIOUS
<1>1. TypeOK
  <2>1. IsStore(Flatten(records)) /\ IsStore(Flatten(newRecords))
    BY FlattenEmptyMap, EmptyStoreIsStore DEF Init
  <2>2. \A c \in Callers : pc[c] = "idle" /\ todo[c] \in Seq(Records)
    BY DEF Init
  <2>3. todo \in [Callers -> Seq(Records) \cup Seq(Deletes)]
    BY DEF Init
  <2>4. QED
    BY <2>1, <2>2, <2>3 DEF Init, TypeOK, Hashes
<1>2. MutexInv
  BY CacheAssumption DEF Init, MutexInv, Callers
<1>3. GaugeExact
  BY FlattenEmptyMap, RRCountEmpty DEF Init, GaugeExact
<1>4. NoHollow(records) /\ NoHollow(newRecords)
  BY DEF Init, NoHollow, EmptyMap
<1>5. QED
  BY <1>1, <1>2, <1>3, <1>4 DEF IInv

LEMMA NextIInv == IInv /\ [Next]_vars => IInv'
<1> SUFFICES ASSUME IInv, [Next]_vars PROVE IInv'
  OBVIOUS
<1> USE DEF IInv
<1>1. ASSUME NEW s \in Snapshots, ReplaceCall(s)
      PROVE  IInv'
  <2> USE <1>1 DEF ReplaceCall
  <2>1. TypeOK'
    BY FlattenEmptyMap, EmptyStoreIsStore, CacheAssumption DEF TypeOK, Hashes, Callers
  <2>2. MutexInv'
    BY CacheAssumption DEF MutexInv, TypeOK, Callers
  <2>3. GaugeExact' /\ NoHollow(records)' /\ NoHollow(newRecords)'
    BY DEF GaugeExact, NoHollow, EmptyMap
  <2>4. QED
    BY <2>1, <2>2, <2>3
<1>2. ASSUME ReplaceBuild
      PROVE  IInv'
  <2> USE <1>2 DEF ReplaceBuild
  <2>1. /\ todo[Syncer] \in Seq(Records)
        /\ Head(todo[Syncer]) \in Records
        /\ Tail(todo[Syncer]) \in Seq(Records)
    BY DEF TypeOK, Callers
  <2>2. IsStore(Flatten(newRecords)') /\ NoHollow(newRecords)'
    BY <2>1, AppendKeepsMap DEF TypeOK
  <2>3. TypeOK'
    BY <2>1, <2>2 DEF TypeOK, Hashes, Callers
  <2>4. MutexInv' /\ GaugeExact' /\ NoHollow(records)'
    BY DEF MutexInv, GaugeExact, NoHollow
  <2>5. QED
    BY <2>2, <2>3, <2>4
<1>3. ASSUME ReplaceCommit
      PROVE  IInv'
  <2> USE <1>3 DEF ReplaceCommit
  <2>1. TypeOK'
    BY FlattenEmptyMap, EmptyStoreIsStore DEF TypeOK, Hashes, Callers
  <2>2. MutexInv'
    BY CacheAssumption DEF MutexInv, TypeOK, Callers
  <2>3. GaugeExact' /\ NoHollow(records)' /\ NoHollow(newRecords)'
    BY DEF GaugeExact, NoHollow, EmptyMap
  <2>4. QED
    BY <2>1, <2>2, <2>3
<1>4. ASSUME NEW h \in Handlers, NEW op \in {"update", "delete"}, NEW list,
             list \in IF op = "delete" THEN Seq(Deletes) ELSE Seq(Records),
             Lock(h, op, list)
      PROVE  IInv'
  <2> USE <1>4 DEF Lock
  <2>1. TypeOK'
    BY DEF TypeOK, Hashes, Callers
  <2>2. MutexInv'
    BY CacheAssumption DEF MutexInv, TypeOK, Callers
  <2>3. GaugeExact' /\ NoHollow(records)' /\ NoHollow(newRecords)'
    BY CacheAssumption DEF GaugeExact, NoHollow, Callers
  <2>4. QED
    BY <2>1, <2>2, <2>3
<1>5. ASSUME NEW h \in Handlers, UpdateRecord(h)
      PROVE  IInv'
  <2> USE <1>5 DEF UpdateRecord, Loop
  <2>1. /\ todo[h] \in Seq(Records)
        /\ Head(todo[h]) \in Records
        /\ Tail(todo[h]) \in Seq(Records)
    BY DEF TypeOK, Callers
  <2>2. IsStore(Flatten(records)') /\ NoHollow(records)'
    BY <2>1, SetKeepsMap DEF TypeOK
  <2>3. TypeOK'
    BY <2>1, <2>2 DEF TypeOK, Hashes, Callers
  <2>4. MutexInv' /\ GaugeExact' /\ NoHollow(newRecords)'
    BY CacheAssumption DEF MutexInv, GaugeExact, NoHollow, Callers
  <2>5. QED
    BY <2>2, <2>3, <2>4
<1>6. ASSUME NEW h \in Handlers, DeleteRecord(h)
      PROVE  IInv'
  <2> USE <1>6 DEF DeleteRecord, Loop
  <2>1. todo[h] \in Seq(Deletes) /\ Tail(todo[h]) \in Seq(Deletes)
    BY DEF TypeOK, Callers
  <2>2. IsStore(Flatten(records)') /\ NoHollow(records)'
    BY DeleteKeepsMap DEF TypeOK
  <2>3. TypeOK'
    BY <2>1, <2>2 DEF TypeOK, Hashes, Callers
  <2>4. MutexInv' /\ GaugeExact' /\ NoHollow(newRecords)'
    BY CacheAssumption DEF MutexInv, GaugeExact, NoHollow, Callers
  <2>5. QED
    BY <2>2, <2>3, <2>4
<1>7. ASSUME NEW h \in Handlers, Unlock(h)
      PROVE  IInv'
  <2> USE <1>7 DEF Unlock
  <2>1. TypeOK'
    BY DEF TypeOK, Hashes, Callers
  <2>2. MutexInv'
    BY CacheAssumption DEF MutexInv, TypeOK, Callers
  <2>3. GaugeExact' /\ NoHollow(records)' /\ NoHollow(newRecords)'
    BY DEF GaugeExact, NoHollow
  <2>4. QED
    BY <2>1, <2>2, <2>3
<1>8. ASSUME NEW name \in Names, NEW qtype \in QTypes, Get(name, qtype)
      PROVE  IInv'
  BY <1>8 DEF Get, TypeOK, Hashes, Callers, MutexInv, GaugeExact, NoHollow
<1>9. CASE UNCHANGED vars
  BY <1>9 DEF vars, TypeOK, Hashes, Callers, MutexInv, GaugeExact, NoHollow
<1>10. QED
  <2>1. ASSUME NEW h \in Handlers, NEW recs \in Batches, UpdateCall(h, recs)
        PROVE  IInv'
    BY <2>1, <1>4, CacheAssumption DEF UpdateCall
  <2>2. ASSUME NEW h \in Handlers, NEW dels \in DeleteLists, DeleteCall(h, dels)
        PROVE  IInv'
    BY <2>2, <1>4, CacheAssumption DEF DeleteCall
  <2>3. QED
    BY <1>1, <1>2, <1>3, <1>5, <1>6, <1>7, <1>8, <1>9, <2>1, <2>2 DEF Next

LEMMA Invariance == Spec => []IInv
BY InitIInv, NextIInv, PTL DEF Spec

\* At every instant the cache, and the map a sync is building, file only RRs of
\* the right owner, type, family and a positive ttl: buildDNSRecords and the
\* loops around it, for any records the controller can send.
THEOREM TypeCorrect == Spec => []TypeOK
<1>1. IInv => TypeOK
  BY DEF IInv
<1>2. QED
  BY <1>1, Invariance, PTL

\* Deleting the last type of a domain always removes the domain.
THEOREM NoHollowDomainInvariant == Spec => []NoHollowDomain
<1>1. IInv => NoHollowDomain
  BY DEF IInv, NoHollow, NoHollowDomain
<1>2. QED
  BY <1>1, Invariance, PTL

\* The gauge is exact whenever the lock is free.
THEOREM GaugeExactInvariant == Spec => []GaugeExact
<1>1. IInv => GaugeExact
  BY DEF IInv
<1>2. QED
  BY <1>1, Invariance, PTL
=============================================================================

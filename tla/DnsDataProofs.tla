--------------------------- MODULE DnsDataProofs ---------------------------
(***************************************************************************)
(* What the operators of DnsData guarantee for all records and all lists.  *)
(***************************************************************************)
EXTENDS DnsData, FiniteSetTheorems, SequenceTheorems, WellFoundedInduction, TLAPS

-----------------------------------------------------------------------------
\* What buildDNSRecords makes of a record fits the key it is filed under.
LEMMA BuildFitsKey ==
    ASSUME NEW r \in Records, Loadable(r)
    PROVE  /\ Key(r) \in Keys
           /\ BuildDNSRecords(r) # {}
           /\ BuildDNSRecords(r) \subseteq RRsAt(Key(r))
<1>1. /\ Normalize[r.name] \in Domains
      /\ EffectiveTTL(r) \in Nat \ {0}
  BY NamesAssumption, AddressesAssumption DEF Records, EffectiveTTL
<1>2. BuildDNSRecords(r) # {}
  BY DEF Loadable
<1>3. CASE r.ips = {}
  <2>1. /\ r.failover \in Names
        /\ BuildDNSRecords(r) = {RR(r, "CNAME", Normalize[r.failover])}
    BY <1>2, <1>3 DEF BuildDNSRecords, Records
  <2>2. Key(r) = <<Normalize[r.name], "CNAME">>
    BY <1>3 DEF Key, BuiltType
  <2>3. Normalize[r.failover] \in Domains
    BY <2>1, NamesAssumption
  <2>4. QED
    BY <1>1, <2>1, <2>2, <2>3 DEF RR, RRsAt, Rdata, Keys, QTypes
<1>4. CASE r.ips # {} /\ ToUpper(r.type) = "A"
  <2>1. BuildDNSRecords(r) = {RR(r, "A", ip) : ip \in ParsedIn(r, Addresses4)}
    BY <1>4 DEF BuildDNSRecords
  <2>2. Key(r) = <<Normalize[r.name], "A">>
    BY <1>4 DEF Key, BuiltType
  <2>3. QED
    BY <1>1, <1>2, <2>1, <2>2 DEF RR, RRsAt, Rdata, Keys, QTypes, ParsedIn
<1>5. CASE r.ips # {} /\ ToUpper(r.type) = "AAAA"
  <2>1. BuildDNSRecords(r) = {RR(r, "AAAA", ip) : ip \in ParsedIn(r, Addresses6)}
    BY <1>5 DEF BuildDNSRecords
  <2>2. Key(r) = <<Normalize[r.name], "AAAA">>
    BY <1>5 DEF Key, BuiltType
  <2>3. QED
    BY <1>1, <1>2, <2>1, <2>2 DEF RR, RRsAt, Rdata, Keys, QTypes, ParsedIn
<1>6. QED
  BY <1>2, <1>3, <1>4, <1>5 DEF BuildDNSRecords

-----------------------------------------------------------------------------
(* Lists of records, one at a time from the front.                         *)

LEMMA FunctionsEqual ==
    ASSUME NEW f, NEW g, f = [x \in DOMAIN f |-> f[x]], g = [x \in DOMAIN g |-> g[x]],
           \A x : x \in DOMAIN f <=> x \in DOMAIN g,
           \A x \in DOMAIN f : f[x] = g[x]
    PROVE  f = g
<1>1. DOMAIN f = DOMAIN g
  OBVIOUS
<1>2. QED
  BY <1>1

\* The positions of a list are its head and, one further, those of its tail.
LEMMA Positions ==
    ASSUME NEW S, NEW list \in Seq(S), list # <<>>
    PROVE  /\ Head(list) \in S /\ Tail(list) \in Seq(S)
           /\ 1 \in DOMAIN list /\ list[1] = Head(list)
           /\ \A i \in DOMAIN Tail(list) :
                 i + 1 \in DOMAIN list /\ list[i + 1] = Tail(list)[i]
           /\ \A i \in DOMAIN list \ {1} :
                 i - 1 \in DOMAIN Tail(list) /\ list[i] = Tail(list)[i - 1]
           /\ DOMAIN list \subseteq Nat \ {0} /\ DOMAIN Tail(list) \subseteq Nat \ {0}
<1>1. /\ Head(list) \in S /\ Tail(list) \in Seq(S)
      /\ Len(list) \in Nat \ {0} /\ Len(Tail(list)) = Len(list) - 1
      /\ \A i \in 1 .. Len(Tail(list)) : Tail(list)[i] = list[i + 1]
      /\ list[1] = Head(list)
  BY EmptySeq, HeadTailProperties
<1>2. DOMAIN list = 1 .. Len(list) /\ DOMAIN Tail(list) = 1 .. Len(Tail(list))
  BY <1>1, LenProperties
<1>3. QED
  BY <1>1, <1>2

\* What a list writes at a key: its head may, its tail may.
LEMMA WritersOfTail ==
    ASSUME NEW list \in Seq(Records), list # <<>>, NEW k
    PROVE  /\ 1 \in WritersOf(list, k) <=> Loadable(Head(list)) /\ Key(Head(list)) = k
           /\ \A i \in WritersOf(Tail(list), k) : i + 1 \in WritersOf(list, k)
           /\ \A i \in WritersOf(list, k) \ {1} : i - 1 \in WritersOf(Tail(list), k)
BY Positions DEF WritersOf, LoadableAt

LEMMA WrittenIffWriter ==
    ASSUME NEW list, NEW k
    PROVE  k \in WrittenKeys(list) <=> WritersOf(list, k) # {}
BY DEF WrittenKeys, WritersOf

LEMMA WrittenKeysOfTail ==
    ASSUME NEW list \in Seq(Records), list # <<>>, NEW k
    PROVE  k \in WrittenKeys(list)
             <=> \/ k \in WrittenKeys(Tail(list))
                 \/ Loadable(Head(list)) /\ Key(Head(list)) = k
BY WritersOfTail, WrittenIffWriter

\* Some record of a list is the last to write a key, if any does.
LEMMA LastWriterIsLast ==
    ASSUME NEW list \in Seq(Records), NEW k, k \in WrittenKeys(list)
    PROVE  /\ LastWriter(list, k) \in WritersOf(list, k)
           /\ \A j \in WritersOf(list, k) : j <= LastWriter(list, k)
<1> DEFINE fromEnd == {Len(list) - i : i \in WritersOf(list, k)}
<1>1. Len(list) \in Nat /\ WritersOf(list, k) \subseteq 1 .. Len(list)
  BY LenProperties DEF WritersOf, LoadableAt
<1>2. fromEnd \subseteq Nat /\ fromEnd # {}
  BY <1>1, WrittenIffWriter
<1>3. \A j \in WritersOf(list, k) : Len(list) - j \in fromEnd
  OBVIOUS
<1>4. \A n \in fromEnd : \E i \in WritersOf(list, k) : n = Len(list) - i
  OBVIOUS
<1> HIDE DEF fromEnd
<1>5. PICK n \in fromEnd : \A m \in fromEnd : <<m, n>> \notin OpToRel(<, Nat)
  BY <1>2, NatLessThanWellFounded, WFMin
<1>6. \A m \in fromEnd : n <= m
  <2>1. \A m \in fromEnd : ~ (m < n)
    BY <1>2, <1>5 DEF OpToRel
  <2>2. QED
    BY <1>2, <2>1
<1>7. PICK i \in WritersOf(list, k) : n = Len(list) - i
  BY <1>4
<1>8. ASSUME NEW j \in WritersOf(list, k)
      PROVE  j <= i
  <2>1. /\ Len(list) - i <= Len(list) - j
        /\ i \in Nat /\ j \in Nat
    BY <1>1, <1>3, <1>6, <1>7
  <2>2. QED
    BY <1>1, <2>1
<1>9. QED
  BY <1>8 DEF LastWriter
\* The last record that writes a key is the last of the tail that does or, if the
\* tail does not write it, the head.
LEMMA LastWriterOfTail ==
    ASSUME NEW list \in Seq(Records), list # <<>>, NEW k, k \in WrittenKeys(list)
    PROVE  list[LastWriter(list, k)] =
             IF k \in WrittenKeys(Tail(list))
             THEN Tail(list)[LastWriter(Tail(list), k)]
             ELSE Head(list)
<1> DEFINE last == LastWriter(list, k)
           lastOfTail == LastWriter(Tail(list), k)
<1>1. /\ Tail(list) \in Seq(Records)
      /\ DOMAIN list \subseteq Nat \ {0}
      /\ DOMAIN Tail(list) \subseteq Nat \ {0}
      /\ list[1] = Head(list)
      /\ \A i \in DOMAIN Tail(list) : list[i + 1] = Tail(list)[i]
  BY Positions
<1>2. /\ last \in WritersOf(list, k)
      /\ \A j \in WritersOf(list, k) : j <= last
      /\ last \in Nat \ {0}
  BY <1>1, LastWriterIsLast DEF WritersOf, LoadableAt
<1>3. CASE k \in WrittenKeys(Tail(list))
  <2>1. /\ lastOfTail \in WritersOf(Tail(list), k)
        /\ \A j \in WritersOf(Tail(list), k) : j <= lastOfTail
        /\ lastOfTail \in DOMAIN Tail(list)
    BY <1>1, <1>3, LastWriterIsLast DEF WritersOf, LoadableAt
  <2> HIDE DEF last, lastOfTail
  <2>2. lastOfTail \in Nat \ {0}
    BY <1>1, <2>1
  <2>3. lastOfTail + 1 \in WritersOf(list, k)
    BY <2>1, WritersOfTail
  <2>4. last # 1
    BY <1>2, <2>2, <2>3
  <2>5. last - 1 \in WritersOf(Tail(list), k)
    BY <1>2, <2>4, WritersOfTail
  <2>6. last = lastOfTail + 1
    BY <1>2, <2>1, <2>2, <2>3, <2>5
  <2>7. list[last] = Tail(list)[lastOfTail]
    BY <1>1, <2>1, <2>6
  <2>8. QED
    BY <1>3, <2>7 DEF last, lastOfTail
<1>4. CASE k \notin WrittenKeys(Tail(list))
  <2>1. WritersOf(Tail(list), k) = {}
    BY <1>4, WrittenIffWriter
  <2> HIDE DEF last
  <2>2. last = 1
    BY <1>2, <2>1, WritersOfTail
  <2>3. QED
    BY <1>1, <1>4, <2>2 DEF last
<1>5. QED
  BY <1>3, <1>4

\* A list deletes what its head and what its tail deletes.
LEMMA DeletedKeysOfTail ==
    ASSUME NEW list \in Seq(Deletes), list # <<>>, NEW k
    PROVE  k \in DeletedKeys(list)
             <=> \/ k \in DeletedKeys(Tail(list))
                 \/ /\ ToUpper(Head(list).type) \in {"A", "AAAA"}
                    /\ k = <<Normalize[Head(list).name], ToUpper(Head(list).type)>>
<1> DEFINE Deletes1(del) == /\ ToUpper(del.type) \in {"A", "AAAA"}
                            /\ k = <<Normalize[del.name], ToUpper(del.type)>>
<1>1. ASSUME NEW dels
      PROVE  k \in DeletedKeys(dels) <=> \E i \in DOMAIN dels : Deletes1(dels[i])
  BY DEF DeletedKeys, DeletableAt
<1> HIDE DEF Deletes1
<1>2. (\E i \in DOMAIN list : Deletes1(list[i]))
        <=> Deletes1(Head(list)) \/ \E i \in DOMAIN Tail(list) : Deletes1(Tail(list)[i])
  <2>1. ASSUME NEW i \in DOMAIN list, Deletes1(list[i]), i # 1
        PROVE  \E j \in DOMAIN Tail(list) : Deletes1(Tail(list)[j])
    <3>1. i - 1 \in DOMAIN Tail(list) /\ list[i] = Tail(list)[i - 1]
      BY <2>1, Positions
    <3>2. Deletes1(Tail(list)[i - 1])
      BY <2>1, <3>1 DEF Deletes1
    <3>3. QED
      BY <3>1, <3>2
  <2>2. QED
    BY <2>1, Positions
<1>3. QED
  BY <1>1, <1>2 DEF Deletes1

-----------------------------------------------------------------------------
(* Stores, key by key.                                                     *)

LEMMA EmptyStoreIsStore == IsStore(EmptyStore)
BY DEF IsStore, EmptyStore

LEMMA RRCountEmpty == RRCount(EmptyStore) = 0
<1>1. UNION {{k} \X EmptyStore[k] : k \in DOMAIN EmptyStore} = {}
  BY DEF EmptyStore
<1>2. QED
  BY <1>1, FS_EmptySet DEF RRCount

LEMMA AppendAllAt ==
    ASSUME NEW store, NEW recs, NEW k
    PROVE  /\ k \in DOMAIN AppendAll(store, recs)
                <=> k \in DOMAIN store \/ k \in WrittenKeys(recs)
           /\ k \in DOMAIN AppendAll(store, recs) =>
                \A rr : rr \in AppendAll(store, recs)[k]
                          <=> \/ rr \in LookupKey(store, k)
                              \/ \E i \in WritersOf(recs, k) : rr \in BuildDNSRecords(recs[i])
BY DEF AppendAll

LEMMA ApplyUpdateAt ==
    ASSUME NEW store, NEW recs, NEW k
    PROVE  /\ k \in DOMAIN ApplyUpdate(store, recs)
                <=> k \in DOMAIN store \/ k \in WrittenKeys(recs)
           /\ k \in WrittenKeys(recs) =>
                ApplyUpdate(store, recs)[k] = BuildDNSRecords(recs[LastWriter(recs, k)])
           /\ k \in DOMAIN store /\ k \notin WrittenKeys(recs) =>
                ApplyUpdate(store, recs)[k] = store[k]
BY DEF ApplyUpdate

LEMMA ApplyDeleteAt ==
    ASSUME NEW store, NEW dels, NEW k
    PROVE  /\ k \in DOMAIN ApplyDelete(store, dels)
                <=> k \in DOMAIN store /\ k \notin DeletedKeys(dels)
           /\ k \in DOMAIN ApplyDelete(store, dels) =>
                ApplyDelete(store, dels)[k] = store[k]
BY DEF ApplyDelete

\* A store is known by what can be looked up in it.
LEMMA StoresEqual ==
    ASSUME NEW s, NEW t, IsStore(s), IsStore(t),
           \A k \in Keys : LookupKey(s, k) = LookupKey(t, k)
    PROVE  s = t
<1>1. \A k : k \in DOMAIN s <=> k \in DOMAIN t
  BY DEF IsStore, LookupKey
<1>2. \A k \in DOMAIN s : s[k] = t[k]
  BY <1>1 DEF IsStore, LookupKey
<1>3. QED
  BY <1>1, <1>2, FunctionsEqual DEF IsStore

\* An empty list changes nothing.
LEMMA NothingLeft ==
    ASSUME NEW store, IsStore(store)
    PROVE  /\ AppendAll(store, <<>>) = store
           /\ ApplyUpdate(store, <<>>) = store
           /\ ApplyDelete(store, <<>>) = store
<1>1. \A k : k \notin WrittenKeys(<<>>) /\ k \notin DeletedKeys(<<>>)
  BY DEF WrittenKeys, LoadableAt, DeletedKeys, DeletableAt
<1>2. store = [k \in DOMAIN store |-> store[k]]
  BY DEF IsStore
<1>3. AppendAll(store, <<>>) = store
  <2> DEFINE f == AppendAll(store, <<>>)
  <2>1. f = [k \in DOMAIN f |-> f[k]]
    BY DEF AppendAll
  <2>2. \A k : k \in DOMAIN f <=> k \in DOMAIN store
    BY <1>1, AppendAllAt
  <2>3. ASSUME NEW k \in DOMAIN f PROVE f[k] = store[k]
    <3>1. ASSUME NEW rr PROVE rr \in f[k] <=> rr \in store[k]
      BY <1>1, <2>2, AppendAllAt, WrittenIffWriter DEF LookupKey
    <3>2. QED
      BY <3>1, <2>2 DEF AppendAll
  <2> HIDE DEF f
  <2>4. f = store
    BY <1>2, <2>1, <2>2, <2>3, FunctionsEqual
  <2>5. QED
    BY <2>4 DEF f
<1>4. ApplyUpdate(store, <<>>) = store
  <2> DEFINE f == ApplyUpdate(store, <<>>)
  <2>1. f = [k \in DOMAIN f |-> f[k]]
    BY DEF ApplyUpdate
  <2>2. /\ \A k : k \in DOMAIN f <=> k \in DOMAIN store
        /\ \A k \in DOMAIN f : f[k] = store[k]
    BY <1>1, ApplyUpdateAt
  <2> HIDE DEF f
  <2>3. f = store
    BY <1>2, <2>1, <2>2, FunctionsEqual
  <2>4. QED
    BY <2>3 DEF f
<1>5. ApplyDelete(store, <<>>) = store
  <2> DEFINE f == ApplyDelete(store, <<>>)
  <2>1. f = [k \in DOMAIN f |-> f[k]]
    BY DEF ApplyDelete
  <2>2. /\ \A k : k \in DOMAIN f <=> k \in DOMAIN store
        /\ \A k \in DOMAIN f : f[k] = store[k]
    BY <1>1 DEF ApplyDelete
  <2> HIDE DEF f
  <2>3. f = store
    BY <1>2, <2>1, <2>2, FunctionsEqual
  <2>4. QED
    BY <2>3 DEF f
<1>6. QED
  BY <1>3, <1>4, <1>5

\* Whatever lists come in, a store stays a store: no empty key, and RRs only
\* under their own name and type.
LEMMA LoadSnapshotIsStore ==
    ASSUME NEW recs \in Seq(Records)
    PROVE  IsStore(LoadSnapshot(recs))
<1> DEFINE f == AppendAll(EmptyStore, recs)
<1>1. f = [k \in DOMAIN f |-> f[k]]
  BY DEF AppendAll
<1>2. ASSUME NEW k \in DOMAIN f
      PROVE  k \in Keys /\ f[k] # {} /\ f[k] \subseteq RRsAt(k)
  <2>1. k \in WrittenKeys(recs)
    BY AppendAllAt DEF EmptyStore
  <2>2. ASSUME NEW i \in WritersOf(recs, k)
        PROVE  /\ k \in Keys
               /\ BuildDNSRecords(recs[i]) # {}
               /\ BuildDNSRecords(recs[i]) \subseteq RRsAt(k)
    BY ElementOfSeq, LenProperties, BuildFitsKey DEF WritersOf, LoadableAt
  <2>3. PICK i \in WritersOf(recs, k) : TRUE
    BY <2>1, WrittenIffWriter
  <2>4. ASSUME NEW rr
        PROVE  rr \in f[k] <=> \E j \in WritersOf(recs, k) : rr \in BuildDNSRecords(recs[j])
    BY AppendAllAt DEF LookupKey, EmptyStore
  <2> HIDE DEF f
  <2>5. QED
    BY <2>2, <2>3, <2>4
<1> HIDE DEF f
<1>3. IsStore(f)
  BY <1>1, <1>2 DEF IsStore
<1>4. QED
  BY <1>3 DEF f, LoadSnapshot

LEMMA ApplyUpdateKeepsStore ==
    ASSUME NEW store, IsStore(store), NEW recs \in Seq(Records)
    PROVE  IsStore(ApplyUpdate(store, recs))
<1> DEFINE f == ApplyUpdate(store, recs)
<1>1. f = [k \in DOMAIN f |-> f[k]]
  BY DEF ApplyUpdate
<1>2. ASSUME NEW k \in DOMAIN f
      PROVE  k \in Keys /\ f[k] # {} /\ f[k] \subseteq RRsAt(k)
  <2>1. CASE k \in WrittenKeys(recs)
    <3> DEFINE last == LastWriter(recs, k)
    <3>1. last \in WritersOf(recs, k) /\ f[k] = BuildDNSRecords(recs[last])
      BY <2>1, LastWriterIsLast, ApplyUpdateAt
    <3> HIDE DEF last
    <3>2. recs[last] \in Records /\ Loadable(recs[last]) /\ Key(recs[last]) = k
      BY <3>1, ElementOfSeq, LenProperties DEF WritersOf, LoadableAt
    <3>3. QED
      BY <3>1, <3>2, BuildFitsKey
  <2>2. CASE k \notin WrittenKeys(recs)
    BY <2>2, ApplyUpdateAt DEF IsStore
  <2>3. QED
    BY <2>1, <2>2
<1> HIDE DEF f
<1>3. IsStore(f)
  BY <1>1, <1>2 DEF IsStore
<1>4. QED
  BY <1>3 DEF f

LEMMA ApplyDeleteKeepsStore ==
    ASSUME NEW store, IsStore(store), NEW dels
    PROVE  IsStore(ApplyDelete(store, dels))
<1> DEFINE f == ApplyDelete(store, dels)
<1>1. /\ f = [k \in DOMAIN f |-> f[k]]
      /\ \A k \in DOMAIN f : k \in DOMAIN store /\ f[k] = store[k]
  BY DEF ApplyDelete
<1> HIDE DEF f
<1>2. IsStore(f)
  BY <1>1 DEF IsStore
<1>3. QED
  BY <1>2 DEF f

\* A notification that arrives twice does no more than once, with nothing in
\* between: the webhook's answer to duplicated calls.
THEOREM RepeatedNotice ==
    ASSUME NEW store, NEW recs, NEW dels
    PROVE  LET handled(s) == ApplyDelete(ApplyUpdate(s, recs), dels)
           IN  handled(handled(store)) = handled(store)
<1> DEFINE once == ApplyDelete(ApplyUpdate(store, recs), dels)
           again == ApplyUpdate(once, recs)
           twice == ApplyDelete(again, dels)
<1>1. /\ once = [k \in DOMAIN once |-> once[k]]
      /\ twice = [k \in DOMAIN twice |-> twice[k]]
  BY DEF ApplyDelete
<1>2. \A k : k \in DOMAIN once
               <=> (k \in DOMAIN store \/ k \in WrittenKeys(recs)) /\ k \notin DeletedKeys(dels)
  BY ApplyUpdateAt DEF ApplyDelete
<1>3. \A k \in DOMAIN once :
          k \in WrittenKeys(recs) => once[k] = BuildDNSRecords(recs[LastWriter(recs, k)])
  BY ApplyUpdateAt DEF ApplyDelete
<1> HIDE DEF once
<1>4. \A k : k \in DOMAIN twice
               <=> (k \in DOMAIN once \/ k \in WrittenKeys(recs)) /\ k \notin DeletedKeys(dels)
  BY ApplyUpdateAt DEF ApplyDelete
<1>5. \A k \in DOMAIN twice : twice[k] = again[k]
  BY DEF ApplyDelete
<1>6. \A k \in DOMAIN twice : twice[k] = once[k]
  BY <1>2, <1>3, <1>4, <1>5, ApplyUpdateAt
<1> HIDE DEF twice
<1>7. twice = once
  BY <1>1, <1>2, <1>4, <1>6, FunctionsEqual
<1>8. QED
  BY <1>7 DEF once, twice, again

\* Two handlers may interleave their Updates and Deletes (webhook.go:161-179): as long
\* as their notifications write no key in common, the cache ends up the same.
THEOREM DisjointNoticesCommute ==
    ASSUME NEW s,
           NEW recs, NEW dels, NEW recs2, NEW dels2,
           (WrittenKeys(recs) \cup DeletedKeys(dels))
               \cap (WrittenKeys(recs2) \cup DeletedKeys(dels2)) = {}
    PROVE  /\ ApplyUpdate(ApplyUpdate(s, recs), recs2)
                = ApplyUpdate(ApplyUpdate(s, recs2), recs)
           /\ ApplyDelete(ApplyUpdate(s, recs), dels2)
                = ApplyUpdate(ApplyDelete(s, dels2), recs)
           /\ ApplyDelete(ApplyDelete(s, dels), dels2)
                = ApplyDelete(ApplyDelete(s, dels2), dels)
<1> DEFINE written == WrittenKeys(recs)
           deleted == DeletedKeys(dels2)
<1>1. /\ written \cap WrittenKeys(recs2) = {}
      /\ written \cap deleted = {}
  OBVIOUS
<1>2. \A t, list : /\ ApplyUpdate(t, list) = [k \in DOMAIN ApplyUpdate(t, list) |->
                                                ApplyUpdate(t, list)[k]]
                   /\ ApplyDelete(t, list) = [k \in DOMAIN ApplyDelete(t, list) |->
                                                ApplyDelete(t, list)[k]]
  BY DEF ApplyUpdate, ApplyDelete
<1>3. ApplyUpdate(ApplyUpdate(s, recs), recs2) = ApplyUpdate(ApplyUpdate(s, recs2), recs)
  <2> DEFINE f == ApplyUpdate(ApplyUpdate(s, recs), recs2)
             g == ApplyUpdate(ApplyUpdate(s, recs2), recs)
  <2>1. \A k : k \in DOMAIN f <=> k \in DOMAIN g
    BY ApplyUpdateAt
  <2>2. ASSUME NEW k \in DOMAIN f
        PROVE  f[k] = g[k]
    <3>1. CASE k \in written
      BY <1>1, <3>1, ApplyUpdateAt
    <3>2. CASE k \in WrittenKeys(recs2)
      BY <1>1, <3>2, ApplyUpdateAt
    <3>3. CASE k \notin written /\ k \notin WrittenKeys(recs2)
      BY <2>2, <3>3, ApplyUpdateAt
    <3>4. QED
      BY <3>1, <3>2, <3>3
  <2>3. f = [k \in DOMAIN f |-> f[k]] /\ g = [k \in DOMAIN g |-> g[k]]
    BY <1>2
  <2> HIDE DEF f, g
  <2>4. f = g
    BY <2>1, <2>2, <2>3, FunctionsEqual
  <2>5. QED
    BY <2>4 DEF f, g
<1>4. ApplyDelete(ApplyUpdate(s, recs), dels2) = ApplyUpdate(ApplyDelete(s, dels2), recs)
  <2> DEFINE f == ApplyDelete(ApplyUpdate(s, recs), dels2)
             g == ApplyUpdate(ApplyDelete(s, dels2), recs)
  <2>1. \A k : k \in DOMAIN f <=> k \in DOMAIN g
    BY <1>1, ApplyUpdateAt, ApplyDeleteAt
  <2>2. ASSUME NEW k \in DOMAIN f
        PROVE  f[k] = g[k]
    <3>1. CASE k \in written
      BY <1>1, <2>2, <3>1, ApplyUpdateAt, ApplyDeleteAt
    <3>2. CASE k \notin written
      BY <2>2, <3>2, ApplyUpdateAt, ApplyDeleteAt
    <3>3. QED
      BY <3>1, <3>2
  <2>3. f = [k \in DOMAIN f |-> f[k]] /\ g = [k \in DOMAIN g |-> g[k]]
    BY <1>2
  <2> HIDE DEF f, g
  <2>4. f = g
    BY <2>1, <2>2, <2>3, FunctionsEqual
  <2>5. QED
    BY <2>4 DEF f, g
<1>5. ApplyDelete(ApplyDelete(s, dels), dels2) = ApplyDelete(ApplyDelete(s, dels2), dels)
  <2> DEFINE f == ApplyDelete(ApplyDelete(s, dels), dels2)
             g == ApplyDelete(ApplyDelete(s, dels2), dels)
  <2>1. \A k : k \in DOMAIN f <=> k \in DOMAIN g
    BY ApplyDeleteAt
  <2>2. \A k \in DOMAIN f : f[k] = g[k]
    BY <2>1, ApplyDeleteAt
  <2>3. f = [k \in DOMAIN f |-> f[k]] /\ g = [k \in DOMAIN g |-> g[k]]
    BY <1>2
  <2> HIDE DEF f, g
  <2>4. f = g
    BY <2>1, <2>2, <2>3, FunctionsEqual
  <2>5. QED
    BY <2>4 DEF f, g
<1>6. QED
  BY <1>3, <1>4, <1>5
=============================================================================

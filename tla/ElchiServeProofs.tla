-------------------------- MODULE ElchiServeProofs --------------------------
(***************************************************************************)
(* What clients and monitors may rely on, for every zone and any number of *)
(* queries, requests and writes.                                           *)
(***************************************************************************)
EXTENDS ElchiServe, DnsDataProofs

-----------------------------------------------------------------------------
(* What the cache hands out                                                *)

LEMMA LookupType ==
    ASSUME IsStore(store), NEW name, NEW qtype
    PROVE  Lookup(store, name, qtype) \subseteq RRs
<1>1. \A k \in Keys : RRsAt(k) \subseteq RRs
  <2> SUFFICES ASSUME NEW k \in Keys, NEW rr \in RRsAt(k)
               PROVE  rr \in RRs
    OBVIOUS
  <2>1. k[1] \in Domains /\ k[2] \in QTypes
    BY DEF Keys
  <2>2. Rdata(k[2]) \subseteq Domains \cup Addresses4 \cup Addresses6
    BY DEF Rdata
  <2> QED
    BY <2>1, <2>2 DEF RRsAt, RRs
<1>2. \A k \in DOMAIN store : store[k] \subseteq RRs
  BY <1>1 DEF IsStore
<1> QED
  BY <1>2 DEF Lookup, LookupKey

LEMMA ListedType ==
    ASSUME IsStore(store)
    PROVE  GetAllRecords(store) \subseteq Listed
<1> SUFFICES ASSUME NEW k \in DOMAIN store
             PROVE  [name |-> k[1], type |-> IF k[2] = "CNAME" THEN "" ELSE k[2],
                     ips |-> IF k[2] = "CNAME" THEN {} ELSE {rr.rdata : rr \in store[k]}]
                      \in Listed
  BY DEF GetAllRecords
<1>1. k[1] \in Domains /\ k[2] \in QTypes /\ store[k] \subseteq RRsAt(k)
  BY DEF IsStore, Keys
<1>2. k[2] # "CNAME" => \A rr \in store[k] : rr.rdata \in Addresses4 \cup Addresses6
  BY <1>1 DEF RRsAt, Rdata, QTypes
<1>3. (IF k[2] = "CNAME" THEN "" ELSE k[2]) \in QTypes \cup {""}
  BY <1>1
<1>4. (IF k[2] = "CNAME" THEN {} ELSE {rr.rdata : rr \in store[k]})
        \in SUBSET (Addresses4 \cup Addresses6)
  BY <1>2
<1> QED
  BY <1>1, <1>3, <1>4 DEF Listed

\* NOERROR is answered with RRs and never without.
LEMMA RcodeType ==
    ASSUME NEW name, NEW rrs
    PROVE  /\ Rcode(name, rrs) \in {"NOERROR", "NXDOMAIN", "next"}
           /\ rrs # {} <=> Rcode(name, rrs) = "NOERROR"
BY DEF Rcode

-----------------------------------------------------------------------------
(* The inductive invariant                                                 *)

\* What a query has found out: that some store of its time had no CNAME for the
\* name, and in the end what one of them, or a later one, has for it.
Progress(q, sn) ==
    LET cname(s) == Lookup(s, q.name, "CNAME")
        asked(s) == Lookup(s, q.name, q.qtype)
    IN  /\ q.at \in {"cname", "address"} => Ours(q.name, q.qtype)
        /\ q.at = "address" => \E s \in sn : cname(s) = {}
        /\ q.at = "done" /\ Ours(q.name, q.qtype) =>
              /\ q.rcode = Rcode(q.name, q.rrs)
              /\ \/ \E s \in sn : q.rrs = cname(s) /\ (q.rrs # {} \/ q.qtype = "CNAME")
                 \/ \E s, t \in sn : cname(s) = {} /\ q.rrs = asked(t)

QueryInv ==
    \A c \in Resolvers :
        /\ query[c].at # "idle" => store \in seen[c]
        /\ Progress(query[c], seen[c])

\* The hash of the cache is that of the last load, a sync says success after a load,
\* and a report has read no records of a load to come.
ReportInv ==
    /\ hash = HashAfter(Len(loaded))
    /\ \A n \in 1 .. Len(loaded) : loaded[n] # NoHash
    /\ syncing \/ syncStatus = "success" => Len(loaded) > 0
    /\ \A m \in Monitors :
          /\ report[m].loads <= Len(loaded)
          /\ report[m].status = "success" => Len(loaded) > 0
          /\ report[m].status = "success" /\ report[m].at \in {"hash", "done"} =>
                report[m].loads > 0

IInv == TypeOK /\ QueryInv /\ ReportInv /\ ReportNotBehind

LEMMA InitIInv == Init => IInv
<1> SUFFICES ASSUME Init
             PROVE  IInv
  OBVIOUS
<1>1. NoQuery \in Queries /\ NoQuery.rrs = {} /\ NoQuery.rcode = "" /\ NoQuery.at = "idle"
  BY DEF NoQuery, Queries
<1>2. /\ NoReport \in Reports /\ NoReport.at = "idle" /\ NoReport.status = ""
      /\ NoReport.loads = 0
  BY DEF NoReport, Reports, Hashes
<1>0. /\ store = EmptyStore /\ hash = NoHash /\ loaded = <<>> /\ Len(loaded) = 0 /\ writes = 0
      /\ syncStatus = "initial" /\ syncing = FALSE
      /\ \A c \in Resolvers : query[c] = NoQuery
      /\ \A m \in Monitors : report[m] = NoReport
  BY DEF Init
<1>3. TypeOK
  <2>1. query \in [Resolvers -> Queries] /\ report \in [Monitors -> Reports]
    BY <1>1, <1>2 DEF Init
  <2>4. loaded \in Seq(Hashes)
    BY <1>0
  <2>2. seen = [c \in Resolvers |-> seen[c]]
    BY DEF Init
  <2>3. Len(loaded) <= writes /\ writes \in 0 .. MaxWrites
    BY <1>0, ServeAssumption
  <2> QED
    BY <1>0, <1>1, <2>1, <2>2, <2>3, <2>4, EmptyStoreIsStore DEF TypeOK, Hashes
<1>4. QueryInv
  BY <1>1 DEF Init, QueryInv, Progress
<1>5. ReportInv
  <2>1. ~syncing /\ syncStatus # "success"
    BY <1>0
  <2>2. ASSUME NEW m \in Monitors
        PROVE  report[m].loads <= Len(loaded) /\ report[m].status # "success"
    <3>1. report[m].loads = 0 /\ report[m].status = "" /\ Len(loaded) = 0
      BY <1>0, <1>2
    <3>2. report[m].status # "success"
      BY <3>1, Zenon
    <3>3. 0 <= 0
      OBVIOUS
    <3> QED
      BY <3>1, <3>2, <3>3, Zenon
  <2>3. hash = HashAfter(Len(loaded)) /\ \A n \in 1 .. Len(loaded) : loaded[n] # NoHash
    BY <1>0 DEF HashAfter
  <2>4. syncing \/ syncStatus = "success" => Len(loaded) > 0
    BY <2>1, Zenon
  <2>5. \A m \in Monitors :
           /\ report[m].loads <= Len(loaded)
           /\ report[m].status = "success" => Len(loaded) > 0
           /\ report[m].status = "success" /\ report[m].at \in {"hash", "done"} =>
                 report[m].loads > 0
    BY <2>2, Zenon
  <2> QED
    BY <2>3, <2>4, <2>5 DEF ReportInv
<1>6. ReportNotBehind
  BY <1>0, <1>2 DEF ReportNotBehind
<1> QED
  BY <1>6, <1>3, <1>4, <1>5 DEF IInv

-----------------------------------------------------------------------------
(* The writers                                                             *)

\* A longer history proves no less.
LEMMA ProgressGrows ==
    ASSUME NEW q, NEW sn, NEW tn, Progress(q, sn), sn \subseteq tn
    PROVE  Progress(q, tn)
BY DEF Progress

LEMMA WriteKeepsQueryInv ==
    ASSUME IInv, NEW new, Write(new)
    PROVE  QueryInv'
<1> SUFFICES ASSUME NEW c \in Resolvers
             PROVE  /\ query'[c].at # "idle" => store' \in seen'[c]
                    /\ Progress(query[c], seen[c])'
  BY DEF QueryInv
<1>1. /\ query' = query /\ store' = new
      /\ seen'[c] = IF query[c].at = "idle" THEN {} ELSE seen[c] \cup {new}
  BY DEF Write
<1>2. Progress(query[c], seen[c])
  BY DEF IInv, QueryInv
<1>3. CASE query[c].at = "idle"
  BY <1>1, <1>3 DEF Progress
<1>4. CASE query[c].at # "idle"
  <2>1. seen'[c] = seen[c] \cup {new}
    BY <1>1, <1>4
  <2>2. Progress(query[c], seen'[c])
    BY <1>2, <2>1, ProgressGrows
  <2> QED
    BY <1>1, <2>1, <2>2 DEF Progress, Ours
<1> QED
  BY <1>3, <1>4

LEMMA WriteKeepsTypes ==
    ASSUME IInv, NEW new, Write(new), IsStore(new)
    PROVE  /\ writes' \in 0 .. MaxWrites /\ writes' = writes + 1
           /\ IsStore(store')
           /\ query' = query /\ report' = report
           /\ seen' = [c \in Resolvers |-> seen'[c]]
BY ServeAssumption DEF IInv, TypeOK, Write

-----------------------------------------------------------------------------
(* The readers                                                             *)

\* A resolver goes on to q with the history sn.
LEMMA QueryStep ==
    ASSUME IInv, NEW c \in Resolvers, NEW q \in Queries, NEW sn, Step(c, q),
           seen' = [seen EXCEPT ![c] = sn],
           q.rrs # {} <=> q.rcode = "NOERROR",
           q.at # "idle" => store \in sn,
           Progress(q, sn)
    PROVE  IInv'
<1>1. /\ query' = [query EXCEPT ![c] = q]
      /\ UNCHANGED <<store, hash, loaded, writes, syncStatus, syncing, report>>
  BY DEF Step, cache
<1>2. /\ query'[c] = q /\ seen'[c] = sn
      /\ \A d \in Resolvers \ {c} : query'[d] = query[d] /\ seen'[d] = seen[d]
      /\ query' \in [Resolvers -> Queries] /\ seen' = [d \in Resolvers |-> seen'[d]]
  BY <1>1 DEF IInv, TypeOK
<1>3. TypeOK'
  BY <1>1, <1>2 DEF IInv, TypeOK
<1>4. ASSUME NEW d \in Resolvers
      PROVE  /\ query'[d].at # "idle" => store' \in seen'[d]
             /\ Progress(query[d], seen[d])'
  <2>1. CASE d = c
    BY <1>1, <1>2, <2>1 DEF Progress, Ours
  <2>2. CASE d # c
    <3>1. /\ query[d].at # "idle" => store \in seen[d]
          /\ Progress(query[d], seen[d])
      BY DEF IInv, QueryInv
    <3> QED
      BY <1>1, <1>2, <2>2, <3>1 DEF Progress, Ours
  <2> QED
    BY <2>1, <2>2
<1>5. QueryInv'
  BY <1>4 DEF QueryInv
<1>6. ReportInv' /\ ReportNotBehind'
  BY <1>1 DEF IInv, ReportInv, ReportNotBehind, HashAfter
<1> QED
  BY <1>3, <1>5, <1>6 DEF IInv

\* A monitor goes on to r.
LEMMA ReportStep ==
    ASSUME IInv, NEW m \in Monitors, NEW r \in Reports, Gather(m, r),
           r.loads <= Len(loaded), r.status = "success" => Len(loaded) > 0,
           r.status = "success" /\ r.at \in {"hash", "done"} => r.loads > 0,
           r.at = "done" => r.hash = hash
    PROVE  IInv'
<1>1. /\ report' = [report EXCEPT ![m] = r]
      /\ UNCHANGED <<store, hash, loaded, writes, syncStatus, syncing, query, seen>>
  BY DEF Gather, cache
<1>2. /\ report'[m] = r /\ report' \in [Monitors -> Reports]
      /\ \A n \in Monitors \ {m} : report'[n] = report[n]
  BY <1>1 DEF IInv, TypeOK
<1>3. TypeOK'
  BY <1>1, <1>2 DEF IInv, TypeOK
<1>4. QueryInv'
  BY <1>1 DEF IInv, QueryInv, Progress, Ours
<1>5. ReportInv'
  BY <1>1, <1>2 DEF IInv, ReportInv, HashAfter
<1>6. ASSUME r.at = "done"
      PROVE  /\ \E n \in r.loads .. Len(loaded) : r.hash = HashAfter(n)
             /\ r.status = "success" => r.loads > 0 /\ r.hash # NoHash
  <2>1. Len(loaded) \in Nat /\ r.loads \in Nat
    <3>1. loaded \in Seq(Hashes)
      BY DEF IInv, TypeOK
    <3>2. r.loads \in Nat
      BY DEF Reports
    <3> QED
      BY <3>1, <3>2
  <2>2. Len(loaded) \in r.loads .. Len(loaded)
    BY <2>1
  <2>3. r.hash = HashAfter(Len(loaded))
    BY <1>6 DEF IInv, ReportInv
  <2>4. Len(loaded) > 0 => HashAfter(Len(loaded)) # NoHash
    BY <2>1 DEF HashAfter, IInv, ReportInv
  <2>5. r.status = "success" => r.loads > 0 /\ Len(loaded) > 0
    BY <1>6
  <2> QED
    BY <2>2, <2>3, <2>4, <2>5
<1>7. ReportNotBehind'
  <2> SUFFICES ASSUME NEW n \in Monitors, report'[n].at = "done"
               PROVE  /\ \E k \in report'[n].loads .. Len(loaded) :
                            report'[n].hash = HashAfter(k)
                      /\ report'[n].status = "success" =>
                            report'[n].loads > 0 /\ report'[n].hash # NoHash
    BY <1>1 DEF ReportNotBehind, HashAfter
  <2>1. CASE n = m
    BY <1>2, <1>6, <2>1
  <2>2. CASE n # m
    BY <1>2, <2>2 DEF IInv, ReportNotBehind
  <2> QED
    BY <2>1, <2>2
<1> QED
  BY <1>3, <1>4, <1>5, <1>7 DEF IInv

\* The first Get: a CNAME, no CNAME for one who asked for that, or on to the second.
LEMMA LookupCNAMEStep ==
    ASSUME IInv, NEW c \in Resolvers, LookupCNAME(c)
    PROVE  IInv'
<1> DEFINE q == query[c]
           rrs == Lookup(store, q.name, "CNAME")
           next == IF q.qtype # "CNAME" /\ rrs = {} THEN [q EXCEPT !.at = "address"]
                   ELSE Answered(q, rrs)
<1>1. q.at = "cname" /\ Step(c, next) /\ seen' = seen
  BY DEF LookupCNAME
<1>2. /\ q \in Queries /\ (q.rrs # {} <=> q.rcode = "NOERROR")
      /\ Ours(q.name, q.qtype) /\ store \in seen[c]
  BY <1>1 DEF IInv, TypeOK, QueryInv, Progress
<1>3. rrs \subseteq RRs
  BY LookupType DEF IInv, TypeOK
<1>4. seen' = [seen EXCEPT ![c] = seen[c]]
  BY <1>1 DEF IInv, TypeOK
<1> HIDE DEF rrs
<1>5. CASE q.qtype # "CNAME" /\ rrs = {}
  <2>1. /\ next = [q EXCEPT !.at = "address"]
        /\ next \in Queries /\ next.at = "address"
        /\ next.name = q.name /\ next.qtype = q.qtype
        /\ next.rrs = q.rrs /\ next.rcode = q.rcode
    BY <1>2, <1>5 DEF Queries
  <2> HIDE DEF next
  <2>2. Progress(next, seen[c])
    BY <1>2, <1>5, <2>1 DEF Progress, rrs
  <2> QED
    BY <1>1, <1>2, <1>4, <2>1, <2>2, QueryStep
<1>6. CASE ~(q.qtype # "CNAME" /\ rrs = {})
  <2>1. /\ next = Answered(q, rrs)
        /\ next \in Queries /\ next.at = "done"
        /\ next.name = q.name /\ next.qtype = q.qtype
        /\ next.rrs = rrs /\ next.rcode = Rcode(q.name, rrs)
    BY <1>2, <1>3, <1>6, RcodeType DEF Answered, Queries
  <2> HIDE DEF next
  <2>2. Progress(next, seen[c])
    BY <1>2, <1>6, <2>1 DEF Progress, rrs
  <2>3. next.rrs # {} <=> next.rcode = "NOERROR"
    BY <2>1, RcodeType
  <2>4. next.at # "idle" => store \in seen[c]
    BY <1>2
  <2> QED
    BY <1>1, <1>4, <2>1, <2>2, <2>3, <2>4, QueryStep
<1> QED
  BY <1>5, <1>6

\* The second Get.
LEMMA LookupAddressStep ==
    ASSUME IInv, NEW c \in Resolvers, LookupAddress(c)
    PROVE  IInv'
<1> DEFINE q == query[c]
           rrs == Lookup(store, q.name, q.qtype)
           next == Answered(q, rrs)
<1>1. q.at = "address" /\ Step(c, next) /\ seen' = seen
  BY DEF LookupAddress
<1>2. /\ q \in Queries /\ store \in seen[c]
      /\ \E s \in seen[c] : Lookup(s, q.name, "CNAME") = {}
  BY <1>1 DEF IInv, TypeOK, QueryInv, Progress
<1>3. rrs \subseteq RRs
  BY LookupType DEF IInv, TypeOK
<1>4. seen' = [seen EXCEPT ![c] = seen[c]]
  BY <1>1 DEF IInv, TypeOK
<1> HIDE DEF rrs
<1>5. /\ next \in Queries /\ next.at = "done"
      /\ next.name = q.name /\ next.qtype = q.qtype
      /\ next.rrs = rrs /\ next.rcode = Rcode(q.name, rrs)
  <2>1. Rcode(q.name, rrs) \in {"NOERROR", "NXDOMAIN", "next"}
    BY RcodeType
  <2>2. next = [q EXCEPT !.at = "done", !.rcode = Rcode(q.name, rrs), !.rrs = rrs]
    BY DEF Answered
  <2> HIDE DEF next
  <2> QED
    BY <1>2, <1>3, <2>1, <2>2 DEF Queries
<1> HIDE DEF next
<1>6. Progress(next, seen[c])
  BY <1>2, <1>5 DEF Progress, rrs
<1>7. next.rrs # {} <=> next.rcode = "NOERROR"
  BY <1>5, RcodeType
<1>8. next.at # "idle" => store \in seen[c]
  BY <1>2
<1> QED
  BY <1>1, <1>4, <1>5, <1>6, <1>7, <1>8, QueryStep

LEMMA NextIInv == IInv /\ [Next]_vars => IInv'
<1> SUFFICES ASSUME IInv, [Next]_vars
             PROVE  IInv'
  OBVIOUS
<1>1. ASSUME NEW s \in Snapshots, SyncLoad(s)
      PROVE  IInv'
  <2>1. /\ Write(LoadSnapshot(s.records)) /\ IsStore(LoadSnapshot(s.records))
        /\ hash' = s.hash /\ s.hash # NoHash /\ s.hash \in Hashes
        /\ loaded' = Append(loaded, s.hash)
        /\ syncing' = TRUE /\ syncStatus' = syncStatus
    BY <1>1, ServeAssumption, LoadSnapshotIsStore DEF SyncLoad, Hashes
  <2>2. /\ loaded \in Seq(Hashes) /\ Len(loaded) \in Nat /\ loaded' \in Seq(Hashes)
        /\ Len(loaded') = Len(loaded) + 1 /\ loaded'[Len(loaded) + 1] = s.hash
        /\ \A n \in 1 .. Len(loaded) : loaded'[n] = loaded[n]
    BY <2>1 DEF IInv, TypeOK
  <2>3. TypeOK'
    <3>1. Len(loaded') <= writes'
      BY <2>1, <2>2, WriteKeepsTypes DEF IInv, TypeOK
    <3> QED
      BY <2>1, <2>2, <3>1, WriteKeepsTypes DEF IInv, TypeOK
  <2>4. QueryInv'
    BY <2>1, WriteKeepsQueryInv
  <2>5. report' = report
    BY <2>1, WriteKeepsTypes
  <2>6. ASSUME NEW m \in Monitors
        PROVE  report'[m].loads <= Len(loaded')
    <3>1. report[m].loads \in Nat
      BY DEF IInv, TypeOK, Reports
    <3>2. report[m].loads <= Len(loaded)
      BY DEF IInv, ReportInv
    <3> QED
      BY <2>2, <2>5, <3>1, <3>2
  <2>7. ReportInv'
    <3>1. hash' = HashAfter(Len(loaded))'
      BY <2>1, <2>2 DEF HashAfter
    <3>2. \A n \in 1 .. Len(loaded') : loaded'[n] # NoHash
      BY <2>1, <2>2 DEF IInv, ReportInv
    <3>3. Len(loaded') > 0
      BY <2>2
    <3>4. \A m \in Monitors :
             report[m].status = "success" /\ report[m].at \in {"hash", "done"} =>
                report[m].loads > 0
      BY DEF IInv, ReportInv
    <3> QED
      BY <2>5, <2>6, <3>1, <3>2, <3>3, <3>4 DEF ReportInv
  <2>8. ReportNotBehind'
    <3> SUFFICES ASSUME NEW m \in Monitors, report[m].at = "done"
                 PROVE  /\ \E n \in report[m].loads .. Len(loaded') :
                              report[m].hash = HashAfter(n)'
                        /\ report[m].status = "success" =>
                              report[m].loads > 0 /\ report[m].hash # NoHash
      BY <2>5 DEF ReportNotBehind
    <3>1. PICK n \in report[m].loads .. Len(loaded) : report[m].hash = HashAfter(n)
      BY DEF IInv, ReportNotBehind
    <3>2. report[m].loads \in Nat
      BY DEF IInv, TypeOK, Reports
    <3>3. n \in report[m].loads .. Len(loaded') /\ HashAfter(n)' = HashAfter(n)
      BY <2>2, <3>1, <3>2 DEF HashAfter
    <3> QED
      BY <3>1, <3>3 DEF IInv, ReportNotBehind
  <2> QED
    BY <2>3, <2>4, <2>7, <2>8 DEF IInv
<1>2. ASSUME SyncReport \/ SyncUnchanged \/ SyncFail
      PROVE  IInv'
  <2>1. /\ syncStatus' \in {"success", "failed"} /\ syncing' = FALSE
        /\ UNCHANGED <<store, hash, loaded, writes, query, seen, report>>
    BY <1>2 DEF SyncReport, SyncUnchanged, SyncFail, cache, IInv, TypeOK
  <2>2. TypeOK'
    BY <2>1 DEF IInv, TypeOK
  <2>3. QueryInv'
    BY <2>1 DEF IInv, QueryInv, Progress, Ours
  <2>4. syncStatus' = "success" => Len(loaded) > 0
    <3>1. hash # NoHash => Len(loaded) > 0
      BY DEF IInv, TypeOK, ReportInv, HashAfter
    <3>2. syncStatus' = "success" => syncing \/ hash # NoHash
      BY <1>2 DEF SyncReport, SyncUnchanged, SyncFail
    <3>3. syncing => Len(loaded) > 0
      BY DEF IInv, ReportInv
    <3> QED
      BY <3>1, <3>2, <3>3
  <2>5. ReportInv' /\ ReportNotBehind'
    BY <2>1, <2>4 DEF IInv, ReportInv, ReportNotBehind, HashAfter
  <2> QED
    BY <2>2, <2>3, <2>5 DEF IInv
<1>3. ASSUME Notify
      PROVE  IInv'
  <2>1. PICK new : Write(new) /\ IsStore(new)
    BY <1>3, ServeAssumption, ApplyUpdateKeepsStore, ApplyDeleteKeepsStore
       DEF Notify, IInv, TypeOK
  <2>2. UNCHANGED <<hash, loaded, syncStatus, syncing>>
    BY <1>3 DEF Notify
  <2>3. Len(loaded') <= writes'
    BY <2>1, <2>2, WriteKeepsTypes DEF IInv, TypeOK
  <2>4. TypeOK'
    BY <2>1, <2>2, <2>3, WriteKeepsTypes DEF IInv, TypeOK
  <2>5. QueryInv'
    BY <2>1, WriteKeepsQueryInv
  <2>6. ReportInv' /\ ReportNotBehind'
    BY <2>1, <2>2, WriteKeepsTypes DEF IInv, ReportInv, ReportNotBehind, HashAfter
  <2> QED
    BY <2>4, <2>5, <2>6 DEF IInv
<1>4. ASSUME NEW c \in Resolvers, NEW name \in Names, NEW qtype \in QTypes \cup {"TXT"},
             Ask(c, name, qtype) \/ PassOn(c, name, qtype)
      PROVE  IInv'
  <2>1. PICK q \in Queries :
           /\ Begin(c, q) /\ q.rrs = {} /\ q.rcode # "NOERROR"
           /\ \/ q.at = "cname" /\ Ours(q.name, q.qtype)
              \/ q.at = "done" /\ ~Ours(q.name, q.qtype)
    <3>1. CASE Ask(c, name, qtype)
      <4> DEFINE q == [NoQuery EXCEPT !.at = "cname", !.name = name, !.qtype = qtype]
      <4>1. /\ q \in Queries /\ q.rrs = {} /\ q.rcode = ""
            /\ q.at = "cname" /\ q.name = name /\ q.qtype = qtype
        BY DEF NoQuery, Queries
      <4>2. Begin(c, q) /\ Ours(name, qtype)
        BY <3>1 DEF Ask
      <4> HIDE DEF q
      <4> QED
        BY <4>1, <4>2
    <3>2. CASE PassOn(c, name, qtype)
      <4> DEFINE q == [NoQuery EXCEPT !.at = "done", !.name = name, !.qtype = qtype,
                                      !.rcode = "next"]
      <4>1. /\ q \in Queries /\ q.rrs = {} /\ q.rcode = "next"
            /\ q.at = "done" /\ q.name = name /\ q.qtype = qtype
        BY DEF NoQuery, Queries
      <4>2. Begin(c, q) /\ ~Ours(name, qtype)
        BY <3>2 DEF PassOn
      <4> HIDE DEF q
      <4> QED
        BY <4>1, <4>2
    <3> QED
      BY <1>4, <3>1, <3>2
  <2>2. Progress(q, {store})
    BY <2>1 DEF Progress
  <2>3. q.rrs # {} <=> q.rcode = "NOERROR"
    BY <2>1
  <2> QED
    BY <2>1, <2>2, <2>3, QueryStep DEF Begin
<1>5. ASSUME NEW c \in Resolvers, Close(c)
      PROVE  IInv'
  <2>1. /\ NoQuery \in Queries /\ NoQuery.at = "idle"
        /\ NoQuery.rrs = {} /\ NoQuery.rcode = "" /\ Progress(NoQuery, {})
    BY DEF NoQuery, Queries, Progress
  <2> QED
    BY <1>5, <2>1, QueryStep DEF Close
<1>6. ASSUME NEW m \in Monitors, ReadStatus(m)
      PROVE  IInv'
  <2> DEFINE r == [NoReport EXCEPT !.at = "records", !.status = syncStatus]
  <2>1. /\ r \in Reports /\ r.at = "records" /\ r.loads = 0 /\ r.status = syncStatus
    BY DEF NoReport, Reports, Hashes, IInv, TypeOK
  <2>2. Gather(m, r)
    BY <1>6 DEF ReadStatus, NextRead
  <2>3. 0 <= Len(loaded) /\ (syncStatus = "success" => Len(loaded) > 0)
    BY DEF IInv, TypeOK, ReportInv
  <2> HIDE DEF r
  <2> QED
    BY <2>1, <2>2, <2>3, ReportStep
<1>7. ASSUME NEW m \in Monitors, ReadRecords(m)
      PROVE  IInv'
  <2> DEFINE r == [report[m] EXCEPT !.at = "hash", !.loads = Len(loaded),
                                    !.records = GetAllRecords(store)]
  <2>1. GetAllRecords(store) \subseteq Listed /\ Len(loaded) \in Nat /\ report[m] \in Reports
    BY ListedType DEF IInv, TypeOK
  <2>2. /\ r \in Reports /\ r.at = "hash" /\ r.loads = Len(loaded)
        /\ r.status = report[m].status
    BY <2>1 DEF Reports
  <2>3. Gather(m, r)
    BY <1>7 DEF ReadRecords, NextRead
  <2>4. report[m].status = "success" => Len(loaded) > 0
    BY DEF IInv, ReportInv
  <2> HIDE DEF r
  <2> QED
    BY <2>1, <2>2, <2>3, <2>4, ReportStep
<1>8. ASSUME NEW m \in Monitors, ReadHash(m)
      PROVE  IInv'
  <2> DEFINE r == [report[m] EXCEPT !.at = "done", !.hash = hash]
  <2>1. report[m] \in Reports /\ hash \in Hashes
    BY DEF IInv, TypeOK
  <2>2. /\ r \in Reports /\ r.at = "done" /\ r.hash = hash
        /\ r.loads = report[m].loads /\ r.status = report[m].status
    BY <2>1 DEF Reports
  <2>3. Gather(m, r) /\ report[m].at = "hash"
    BY <1>8 DEF ReadHash, NextRead
  <2>4. /\ report[m].loads <= Len(loaded)
        /\ report[m].status = "success" => Len(loaded) > 0 /\ report[m].loads > 0
    BY <2>3 DEF IInv, ReportInv
  <2> HIDE DEF r
  <2> QED
    BY <2>2, <2>3, <2>4, ReportStep
<1>9. ASSUME NEW m \in Monitors, Respond(m)
      PROVE  IInv'
  <2>1. /\ NoReport \in Reports /\ NoReport.at = "idle" /\ NoReport.loads = 0
        /\ NoReport.status = ""
    BY DEF NoReport, Reports, Hashes
  <2>2. NoReport.status # "success" /\ NoReport.at # "done"
    BY <2>1, Zenon
  <2>3. NoReport.loads <= Len(loaded)
    <3>1. loaded \in Seq(Hashes)
      BY DEF IInv, TypeOK
    <3>2. 0 <= Len(loaded)
      BY <3>1
    <3> QED
      BY <2>1, <3>2, Zenon
  <2>4. Gather(m, NoReport)
    BY <1>9 DEF Respond
  <2>5. /\ NoReport.status = "success" => Len(loaded) > 0
        /\ NoReport.status = "success" /\ NoReport.at \in {"hash", "done"} => NoReport.loads > 0
        /\ NoReport.at = "done" => NoReport.hash = hash
    BY <2>2, Zenon
  <2> QED
    BY <2>1, <2>3, <2>4, <2>5, ReportStep
<1>10. CASE UNCHANGED vars
  <2>1. UNCHANGED <<store, hash, loaded, writes, syncStatus, syncing, query, seen, report>>
    BY <1>10 DEF vars, cache
  <2>2. TypeOK'
    BY <2>1 DEF IInv, TypeOK
  <2>3. QueryInv'
    BY <2>1 DEF IInv, QueryInv, Progress, Ours
  <2>4. ReportInv' /\ ReportNotBehind'
    BY <2>1 DEF IInv, ReportInv, ReportNotBehind, HashAfter
  <2> QED
    BY <2>2, <2>3, <2>4 DEF IInv
<1> QED
  BY <1>1, <1>2, <1>3, <1>4, <1>5, <1>6, <1>7, <1>8, <1>9, <1>10,
     LookupCNAMEStep, LookupAddressStep DEF Next

LEMMA Invariance == Spec => []IInv
BY InitIInv, NextIInv, PTL DEF Spec

\* The cache and what is read from it keep their shape; an answer is NOERROR if and
\* only if it has RRs.
THEOREM ServeTypeCorrect == Spec => []TypeOK
BY Invariance, PTL DEF IInv

\* However many writes fall between its two lookups, an answer of ServeDNS never
\* mixes RRs of two versions of a name (elchi.go:69-84).
THEOREM UnmixedAnswerInvariant == Spec => []UnmixedAnswer
<1>1. IInv => UnmixedAnswer
  <2> SUFFICES ASSUME IInv, NEW c \in Resolvers, FromCache(c), query[c].rrs # {}
               PROVE  \E s \in seen[c], qtype \in {query[c].qtype, "CNAME"} :
                         query[c].rrs = Lookup(s, query[c].name, qtype)
    BY DEF UnmixedAnswer
  <2> QED
    BY DEF IInv, QueryInv, Progress, FromCache
<1> QED
  BY <1>1, Invariance, PTL

\* An answer that is not that of one moment needs a name that fails over or back
\* between the two lookups (elchi.go:72-80): no other write can cause one.
THEOREM AtomicUnlessFailoverSwitchInvariant == Spec => []AtomicUnlessFailoverSwitch
<1>1. IInv => AtomicUnlessFailoverSwitch
  <2> SUFFICES ASSUME IInv, NEW c \in Resolvers, FromCache(c),
                      \A s, t \in seen[c] : Lookup(s, query[c].name, "CNAME") # {}
                                           <=> Lookup(t, query[c].name, "CNAME") # {}
               PROVE  \E s \in seen[c] : AnsweredBy(c, s)
    BY DEF AtomicUnlessFailoverSwitch
  <2>1. /\ query[c].rcode = Rcode(query[c].name, query[c].rrs)
        /\ \/ \E s \in seen[c] : /\ query[c].rrs = Lookup(s, query[c].name, "CNAME")
                                 /\ query[c].rrs # {} \/ query[c].qtype = "CNAME"
           \/ \E s, t \in seen[c] : /\ Lookup(s, query[c].name, "CNAME") = {}
                                    /\ query[c].rrs = Lookup(t, query[c].name, query[c].qtype)
    BY DEF IInv, QueryInv, Progress, FromCache
  <2>2. PICK s \in seen[c] :
           query[c].rrs = IF Lookup(s, query[c].name, "CNAME") # {}
                          THEN Lookup(s, query[c].name, "CNAME")
                          ELSE Lookup(s, query[c].name, query[c].qtype)
    BY <2>1
  <2>3. AnsweredBy(c, s)
    BY <2>1, <2>2 DEF AnsweredBy, Resolve
  <2> QED
    BY <2>3
<1> QED
  BY <1>1, Invariance, PTL

\* The hash of a response of /health or /records is never that of an earlier
\* snapshot than its records, however many syncs and notifications fall between the
\* reads of the handler (webhook.go:208-213, 253-276), and one that says success
\* shows the records and the hash of a snapshot.
THEOREM ReportNotBehindInvariant == Spec => []ReportNotBehind
BY Invariance, PTL DEF IInv
=============================================================================

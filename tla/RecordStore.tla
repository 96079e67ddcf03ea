---------------------------- MODULE RecordStore ----------------------------
(***************************************************************************)
(* What the record cache promises its callers: every operation takes       *)
(* effect at one instant.                                                  *)
(***************************************************************************)
EXTENDS DnsData

CONSTANTS Snapshots,  \* snapshots a sync may load: [hash, records]
          Batches,    \* record lists a notification may carry
          DeleteLists \* delete lists a notification may carry

NoHash == ""

VARIABLES store,  \* <<domain, qtype>> -> RRs
          hash,   \* the version hash of the last snapshot loaded
          got     \* the last answer of Get: [key, rrs]

svars == <<store, hash, got>>

NoAnswer == [key |-> <<>>, rrs |-> {}]

Init == store = EmptyStore /\ hash = NoHash /\ got = NoAnswer

Replace(s) ==
    /\ store' = LoadSnapshot(s.records)
    /\ hash' = s.hash
    /\ UNCHANGED got

Update(recs) == store' = ApplyUpdate(store, recs) /\ UNCHANGED <<hash, got>>

Delete(dels) == store' = ApplyDelete(store, dels) /\ UNCHANGED <<hash, got>>

Get(name, qtype) ==
    /\ got' = [key |-> <<Normalize[name], qtype>>, rrs |-> Lookup(store, name, qtype)]
    /\ UNCHANGED <<store, hash>>

Next ==
    \/ \E s \in Snapshots : Replace(s)
    \/ \E recs \in Batches : Update(recs)
    \/ \E dels \in DeleteLists : Delete(dels)
    \/ \E name \in Names, qtype \in QTypes : Get(name, qtype)

Spec == Init /\ [][Next]_svars
=============================================================================

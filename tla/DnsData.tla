------------------------------ MODULE DnsData ------------------------------
(***************************************************************************)
(* The data the elchi plugin works on: records as the controller sends     *)
(* them, resource records (RRs) as the cache stores them, and what the     *)
(* operations of cache.go compute from them.                               *)
(*                                                                         *)
(* A store is the cache's nested map seen flat: a partial function from    *)
(* <<domain, qtype>> to the RRs of that pair.  A list of RRs is the set of *)
(* its members: their order and exact repetitions are abstracted.          *)
(***************************************************************************)
EXTENDS Integers, Sequences, FiniteSets

CONSTANTS
    Domains,       \* normalized domain names
    Names,         \* domain names as they are spelled in requests and payloads
    Normalize,     \* Normalize[n]: the normalized form of the name n
    ZoneSuffixed,  \* the domains whose text ends with the text of the zone
    Addresses4,    \* IPv4 addresses
    Addresses6,    \* IPv6 addresses
    ParseIP,       \* ParseIP[t]: the address the text t denotes, or NoAddress
    NoAddress,     \* what parsing a text that is no IP address gives
    DefaultTTL     \* the configured ttl

NoName == ""
IPTexts == DOMAIN ParseIP

ASSUME NamesAssumption ==
    /\ Domains \subseteq Names
    /\ NoName \notin Names
    /\ Normalize \in [Names -> Domains]
    /\ \A d \in Domains : Normalize[d] = d
    /\ ZoneSuffixed \subseteq Domains

\* net.IP.To4 tells the two families apart; setup.go rejects a ttl of 0.
ASSUME AddressesAssumption ==
    /\ Addresses4 \cap Addresses6 = {}
    /\ NoAddress \notin Addresses4 \cup Addresses6
    /\ ParseIP \in [IPTexts -> Addresses4 \cup Addresses6 \cup {NoAddress}]
    /\ DefaultTTL \in Nat \ {0}

QTypes == {"A", "AAAA", "CNAME"}
TypeTexts == {"A", "a", "AAAA", "aaaa", "CNAME", "TXT"}
ToUpper(text) ==
    CASE text = "a" -> "A"
      [] text = "aaaa" -> "AAAA"
      [] OTHER -> text

\* DNSRecord of client.go and DeleteRecord of cache.go.
Records == [name : Names, type : TypeTexts, ttl : Nat,
            ips : SUBSET IPTexts, failover : Names \cup {NoName}]
Deletes == [name : Names, type : TypeTexts]

Keys == Domains \X QTypes
RRs == [name : Domains, rrtype : QTypes, ttl : Nat \ {0},
        rdata : Domains \cup Addresses4 \cup Addresses6]

-----------------------------------------------------------------------------
(* buildDNSRecords                                                         *)

\* Mutant: the default is not applied.
RecordTTL(r) == r.ttl

EffectiveTTL(r) == IF r.ttl = 0 THEN DefaultTTL ELSE r.ttl

RR(r, qtype, rdata) == [name |-> Normalize[r.name], rrtype |-> qtype,
                        ttl |-> EffectiveTTL(r), rdata |-> rdata]

ParsedIn(r, family) == {ParseIP[t] : t \in r.ips} \cap family

\* The RRs of a record; none when the code skips the record (nil) or fails.
\* Without IPs the type of the record is not looked at.
BuildDNSRecords(r) ==
    CASE r.ips = {} /\ r.failover # NoName ->
            {RR(r, "CNAME", Normalize[r.failover])}
      [] r.ips # {} /\ ToUpper(r.type) = "A" ->
            {RR(r, "A", ip) : ip \in ParsedIn(r, Addresses4)}
      [] r.ips # {} /\ ToUpper(r.type) = "AAAA" ->
            {RR(r, "AAAA", ip) : ip \in ParsedIn(r, Addresses6)}
      [] OTHER -> {}

\* The type in the header of the first RR built.
BuiltType(r) == IF r.ips = {} THEN "CNAME" ELSE ToUpper(r.type)

\* A record is filed only if the text of its domain ends with that of the
\* zone and an RR could be built from it.
Loadable(r) == Normalize[r.name] \in ZoneSuffixed /\ BuildDNSRecords(r) # {}

Key(r) == <<Normalize[r.name], BuiltType(r)>>

-----------------------------------------------------------------------------
(* The store and what the cache operations make of it.                     *)

EmptyStore == [k \in {} |-> {}]
LookupKey(store, k) == IF k \in DOMAIN store THEN store[k] ELSE {}
Lookup(store, name, qtype) == LookupKey(store, <<Normalize[name], qtype>>)

LoadableAt(recs) == {i \in DOMAIN recs : Loadable(recs[i])}
WrittenKeys(recs) == {Key(recs[i]) : i \in LoadableAt(recs)}
WritersOf(recs, k) == {i \in LoadableAt(recs) : Key(recs[i]) = k}

\* The loop of ReplaceFromSnapshot appends the RRs of each record to what the
\* records before it gave for the same key.
AppendAll(store, recs) ==
    [k \in DOMAIN store \cup WrittenKeys(recs) |->
        LookupKey(store, k)
          \cup UNION {BuildDNSRecords(recs[i]) : i \in WritersOf(recs, k)}]

LoadSnapshot(recs) == AppendAll(EmptyStore, recs)

\* The loop of Update lets each record replace the RRs of its key, so that the
\* last record of a key wins.
LastWriter(recs, k) ==
    CHOOSE i \in WritersOf(recs, k) : \A j \in WritersOf(recs, k) : j <= i

ApplyUpdate(store, recs) ==
    [k \in DOMAIN store \cup WrittenKeys(recs) |->
        IF k \in WrittenKeys(recs)
        THEN BuildDNSRecords(recs[LastWriter(recs, k)])
        ELSE store[k]]

\* Delete knows the types A and AAAA only and does not look at the zone.
DeletableAt(dels) == {i \in DOMAIN dels : ToUpper(dels[i].type) \in {"A", "AAAA"}}
DeletedKeys(dels) ==
    {<<Normalize[dels[i].name], ToUpper(dels[i].type)>> : i \in DeletableAt(dels)}

ApplyDelete(store, dels) ==
    [k \in DOMAIN store \ DeletedKeys(dels) |-> store[k]]

RRCount(store) == Cardinality(UNION {{k} \X store[k] : k \in DOMAIN store})

\* GetAllRecords prints neither the type nor the target of a CNAME.
GetAllRecords(store) ==
    {[name |-> k[1], type |-> IF k[2] = "CNAME" THEN "" ELSE k[2],
      ips |-> IF k[2] = "CNAME" THEN {} ELSE {rr.rdata : rr \in store[k]}]
        : k \in DOMAIN store}

\* The RRs that may stand at a key: their owner and type are those of the key,
\* their address is of the type's family.
Rdata(qtype) == CASE qtype = "A" -> Addresses4
                  [] qtype = "AAAA" -> Addresses6
                  [] OTHER -> Domains
RRsAt(k) == [name : {k[1]}, rrtype : {k[2]}, ttl : Nat \ {0}, rdata : Rdata(k[2])]

\* No key is empty and each holds RRs of its own.
IsStore(store) ==
    /\ store = [k \in DOMAIN store |-> store[k]]
    /\ DOMAIN store \subseteq Keys
    /\ \A k \in DOMAIN store : store[k] # {} /\ store[k] \subseteq RRsAt(k)
=============================================================================

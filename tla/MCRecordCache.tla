--------------------------- MODULE MCRecordCache ---------------------------
(* A small instance: one name in two spellings, a second name of the zone   *)
(* and a name outside it; records of every kind buildDNSRecords tells apart.*)
EXTENDS RecordCache

MCDomains == {"app.", "api.", "out."}
MCNames == MCDomains \cup {"APP"}
MCNormalize == [n \in MCNames |-> IF n = "APP" THEN "app." ELSE n]
MCZoneSuffixed == {"app.", "api."}
MCAddresses4 == {"v4a", "v4b"}
MCAddresses6 == {"v6"}
MCParseIP == [t \in {"v4a", "v4b", "v6", "junk"} |-> IF t = "junk" THEN "none" ELSE t]

Rec(name, type, ttl, ips, failover) ==
    [name |-> name, type |-> type, ttl |-> ttl, ips |-> ips, failover |-> failover]

AppA == Rec("app.", "A", 0, {"v4a", "v6"}, "")
AppB == Rec("APP", "a", 60, {"v4b"}, "")
AppSix == Rec("app.", "AAAA", 0, {"v6", "v4a", "junk"}, "")
AppFailover == Rec("app.", "A", 0, {}, "out.")
ApiJunk == Rec("api.", "A", 0, {"junk"}, "")
ApiNone == Rec("api.", "A", 0, {}, "")
ApiTxt == Rec("api.", "TXT", 0, {"v4a"}, "")
OutA == Rec("out.", "A", 0, {"v4a"}, "")

MCSnapshots ==
    {[hash |-> "h1", records |-> <<AppA, AppB, OutA>>],
     [hash |-> "h2", records |-> <<AppFailover, ApiJunk, ApiTxt>>]}

MCBatches == {<<AppB, AppA>>, <<AppSix, ApiNone, AppFailover>>, <<>>}

Del(name, type) == [name |-> name, type |-> type]
MCDeleteLists ==
    {<<Del("APP", "a"), Del("api.", "A")>>, <<Del("app.", "aaaa"), Del("app.", "CNAME")>>}
=============================================================================

---------------------------- MODULE MCElchiServe ----------------------------
(* app in two spellings, api which falls through, and a name that ends like *)
(* the zone without being in it.                                            *)
EXTENDS ElchiServe

MCDomains == {"app.", "api.", "asya-gslb.", "dr."}
MCNames == MCDomains \cup {"APP"}
MCNormalize == [n \in MCNames |-> IF n = "APP" THEN "app." ELSE n]
MCZoneSuffixed == {"app.", "api.", "asya-gslb."}
MCZoneDomains == {"app.", "api."}
MCFallthrough == {"api."}
MCAddresses4 == {"v4a", "v4b"}
MCAddresses6 == {"v6"}
MCParseIP == [t \in MCAddresses4 \cup MCAddresses6 |-> t]

Rec(name, type, ips, failover) ==
    [name |-> name, type |-> type, ttl |-> 0, ips |-> ips, failover |-> failover]

AppA == Rec("app.", "A", {"v4a"}, "")
AppMoved == Rec("app.", "A", {"v4b"}, "")
AppSix == Rec("APP", "AAAA", {"v6"}, "")
AppFailover == Rec("app.", "A", {}, "dr.")
Asya == Rec("asya-gslb.", "A", {"v4a"}, "")
ApiA == Rec("api.", "A", {"v4a"}, "")

MCSnapshots == {[hash |-> "h1", records |-> <<AppA, AppSix, Asya>>],
                [hash |-> "h2", records |-> <<AppFailover, ApiA>>]}
MCBatches == {<<AppMoved>>}
MCDeleteLists == {<<[name |-> "app.", type |-> "A"]>>}
=============================================================================

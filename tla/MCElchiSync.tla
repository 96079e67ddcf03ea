---------------------------- MODULE MCElchiSync ----------------------------
(* A zone with two names.  Notices are those of docs/diagrams/03-webhook-   *)
(* flow.md: the records that are new or changed, and deletes for the name   *)
(* and type of records that are gone.                                       *)
EXTENDS ElchiSync

MCDomains == {"app.", "api.", "dr."}
MCNormalize == [n \in MCDomains |-> n]
MCZoneSuffixed == {"app.", "api."}
MCAddresses4 == {"v4a", "v4b"}
MCAddresses6 == {"v6"}
MCParseIP == [t \in MCAddresses4 \cup MCAddresses6 |-> t]

Rec(name, type, ips, failover) ==
    [name |-> name, type |-> type, ttl |-> 0, ips |-> ips, failover |-> failover]

AppA == Rec("app.", "A", {"v4a"}, "")
AppMoved == Rec("app.", "A", {"v4b"}, "")
AppFailover == Rec("app.", "A", {}, "dr.")
ApiSix == Rec("api.", "AAAA", {"v6"}, "")

\* v1 and v2 differ in an address, v2 and v3 in the records they have.
MCVersions == {"v1", "v2", "v3"}
MCContent == [v \in MCVersions |->
    CASE v = "v1" -> <<AppA>> [] v = "v2" -> <<AppMoved>> [] v = "v3" -> <<ApiSix>>]

\* Two versions without a record in common.
PairVersions == {"v1", "v3"}
PairContent == [v \in PairVersions |-> MCContent[v]]

\* The region of app is taken out and put back.
FailoverVersions == {"up", "down"}
FailoverContent == [v \in FailoverVersions |->
    IF v = "up" THEN <<AppA>> ELSE <<AppFailover>>]

\* A name moves, fails over, is back, goes and returns: no content comes back.
FreshVersions == {"first", "moved", "down", "up", "gone", "back"}
FreshContent == [v \in FreshVersions |->
    CASE v = "first" -> <<AppA>>
      [] v = "moved" -> <<AppMoved, ApiSix>>
      [] v = "down" -> <<AppFailover, ApiSix>>
      [] v = "up" -> <<AppA, ApiSix>>
      [] v = "gone" -> <<ApiSix>>
      [] v = "back" -> <<AppMoved>>]
FreshSuccessor == [v \in FreshVersions |->
    CASE v = "first" -> {"moved"} [] v = "moved" -> {"down"} [] v = "down" -> {"up"}
      [] v = "up" -> {"gone"} [] v = "gone" -> {"back"} [] v = "back" -> {}]

NoticeOf(old, new) ==
    LET gone == {r \in Range(old) : \A s \in Range(new) : <<s.name, s.type>> # <<r.name, r.type>>}
    IN  [records |-> SelectSeq(new, LAMBDA r : r \notin Range(old)),
         deletes |-> SetToSeq({[name |-> r.name, type |-> r.type] : r \in gone})]
NoticesOf(content) ==
    [v \in DOMAIN content |-> [w \in DOMAIN content |-> NoticeOf(content[v], content[w])]]

MCNotice == NoticesOf(MCContent)
PairNotice == NoticesOf(PairContent)
FailoverNotice == NoticesOf(FailoverContent)
FreshNotice == NoticesOf(FreshContent)

AnySuccessor == [v \in Versions |-> Versions \ {v}]

NoFaults == {}
LostOnly == {"lost"}
=============================================================================

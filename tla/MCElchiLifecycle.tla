-------------------------- MODULE MCElchiLifecycle --------------------------
(* The numbers of setup.go:14-23 scaled down, their order kept.  Blocks: one *)
(* per way through parseElchi, and every kind of interval and timeout.       *)
EXTENDS ElchiLifecycle

D(key, arg) == [key |-> key, args |-> <<arg>>]
Bare(key) == [key |-> key, args |-> <<>>]

Required == <<D("endpoint", 9), D("secret", 8), D("node_ip", 9)>>

Options == {
    <<>>,
    <<D("sync_interval", 3)>>,
    <<D("sync_interval", 3), D("timeout", 1)>>,
    <<D("timeout", 3), D("ttl", 5), Bare("webhook")>>,
    <<D("timeout", 9), D("webhook", 7), Bare("webhook"), D("timeout", 1)>>,  \* the later one counts
    <<D("sync_interval", 3), D("timeout", 3)>>,  \* interval not above timeout
    <<D("sync_interval", 3), D("timeout", 8)>>,
    <<D("sync_interval", 2)>>,
    <<D("sync_interval", 5)>>,
    <<D("timeout", 0)>>, <<D("timeout", -1)>>,
    <<D("ttl", 0)>>, <<D("ttl", 99)>>,
    <<Bare("timeout")>>, <<Bare("regions")>>,
    <<Bare("fallthrough"), D("regions", 4), Bare("tls_skip_verify")>>,
    <<D("enabled", 1)>>,
    <<D("secret", 7)>>, <<D("node_ip", 0)>>}

MCBlocks ==
    {[zone |-> TRUE, directives |-> Required \o option] : option \in Options}
    \cup {[zone |-> FALSE, directives |-> Required],
          [zone |-> TRUE, directives |-> Tail(Required)]}

Seqs == INSTANCE SequencesExt

\* On these blocks the configuration is what the loop of parseElchi assigns.
ASSUME LoopAssumption ==
    \A block \in MCBlocks :
        (\A i \in DOMAIN block.directives : Valid(block.directives[i])) =>
            Config(block.directives) = Seqs!FoldLeft(Assign, Defaults, block.directives)
=============================================================================

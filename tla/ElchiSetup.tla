----------------------------- MODULE ElchiSetup -----------------------------
(***************************************************************************)
(* setup.go: from the directives of a server block to a configuration, or  *)
(* to an error.  Later directives override earlier ones.                   *)
(*                                                                         *)
(* A directive is its key and its arguments.  An argument is a number: the *)
(* duration or ttl it denotes, -1 if it does not parse; for the address of *)
(* the webhook a name of it; for every other text its length.  A word left *)
(* over on a line is read as the next directive, so it is one here too.    *)
(***************************************************************************)
EXTENDS Integers, Sequences, FiniteSetsExt

CONSTANTS DefaultTTL, MaxTTL, DefaultWebhookAddr, MinSecretLength,
          DefaultSyncInterval, MinSyncInterval, MaxSyncInterval,
          DefaultTimeout, MinTimeout

\* The order of the constants of setup.go:14-23.
ASSUME SetupAssumption ==
    /\ DefaultTTL \in Nat /\ MaxTTL \in Nat /\ 1 <= DefaultTTL /\ DefaultTTL <= MaxTTL
    /\ DefaultWebhookAddr \in Nat /\ MinSecretLength \in Nat
    /\ MinTimeout \in Nat /\ DefaultTimeout \in Nat /\ MinSyncInterval \in Nat
    /\ DefaultSyncInterval \in Nat /\ MaxSyncInterval \in Nat
    /\ 1 <= MinTimeout /\ MinTimeout <= DefaultTimeout
    /\ DefaultTimeout < MinSyncInterval
    /\ MinSyncInterval <= DefaultSyncInterval
    /\ DefaultSyncInterval <= MaxSyncInterval

NeedArgument == {"endpoint", "secret", "ttl", "sync_interval", "timeout", "node_ip", "regions"}
Optional == {"webhook", "fallthrough", "tls_skip_verify"}

Directives == [key : STRING, args : Seq(Int)]

\* Mutant: any timeout will do.
ValidButTimeout(d) ==
    /\ d.key \in NeedArgument => d.args # <<>>
    /\ d.key = "sync_interval" => Head(d.args) \in MinSyncInterval .. MaxSyncInterval

\* The checks made as the directive is read.
Valid(d) ==
    /\ d.key \in NeedArgument \cup Optional
    /\ d.key \in NeedArgument => d.args # <<>>
    /\ d.key = "ttl" => Head(d.args) \in 1 .. MaxTTL
    /\ d.key = "sync_interval" => Head(d.args) \in MinSyncInterval .. MaxSyncInterval
    /\ d.key = "timeout" => Head(d.args) >= MinTimeout

Given(directives, key) ==
    {i \in DOMAIN directives : directives[i].key = key /\ directives[i].args # <<>>}

Setting(directives, key, default) ==
    LET given == Given(directives, key)
    IN  IF given = {} THEN default ELSE Head(directives[Max(given)].args)

\* The fields of Elchi before parseElchi reads the block, and what reading a
\* directive assigns: the loop as it is written.
Defaults ==
    [endpoint |-> 0, secret |-> 0, nodeIP |-> 0, ttl |-> DefaultTTL,
     interval |-> DefaultSyncInterval, timeout |-> DefaultTimeout,
     webhook |-> FALSE, addr |-> DefaultWebhookAddr]

Assign(conf, d) ==
    CASE d.key = "endpoint"      -> [conf EXCEPT !.endpoint = Head(d.args)]
      [] d.key = "secret"        -> [conf EXCEPT !.secret = Head(d.args)]
      [] d.key = "node_ip"       -> [conf EXCEPT !.nodeIP = Head(d.args)]
      [] d.key = "ttl"           -> [conf EXCEPT !.ttl = Head(d.args)]
      [] d.key = "sync_interval" -> [conf EXCEPT !.interval = Head(d.args)]
      [] d.key = "timeout"       -> [conf EXCEPT !.timeout = Head(d.args)]
      [] d.key = "webhook"       -> [conf EXCEPT !.webhook = TRUE,
                                                 !.addr = IF d.args = <<>> THEN @ ELSE Head(d.args)]
      [] OTHER -> conf

\* The fields that parseElchi leaves when it is through the block, without the loop.
Config(directives) ==
    [endpoint |-> Setting(directives, "endpoint", 0),
     secret   |-> Setting(directives, "secret", 0),
     nodeIP   |-> Setting(directives, "node_ip", 0),
     ttl      |-> Setting(directives, "ttl", DefaultTTL),
     interval |-> Setting(directives, "sync_interval", DefaultSyncInterval),
     timeout  |-> Setting(directives, "timeout", DefaultTimeout),
     webhook  |-> \E i \in DOMAIN directives : directives[i].key = "webhook",
     addr     |-> Setting(directives, "webhook", DefaultWebhookAddr)]

Complete(conf) ==
    /\ conf.endpoint # 0 /\ conf.secret # 0 /\ conf.nodeIP # 0
    /\ conf.secret >= MinSecretLength

\* Mutant: the interval is not compared with the timeout.
AcceptedUncompared(block) ==
    /\ block.zone
    /\ \A i \in DOMAIN block.directives : Valid(block.directives[i])
    /\ Complete(Config(block.directives))

\* The plugin starts; otherwise CoreDNS gets an error and nothing was started.
Accepted(block) ==
    /\ block.zone
    /\ \A i \in DOMAIN block.directives : Valid(block.directives[i])
    /\ Complete(Config(block.directives))
    /\ Config(block.directives).interval > Config(block.directives).timeout

ServerBlocks == [zone : BOOLEAN, directives : Seq(Directives)]
=============================================================================

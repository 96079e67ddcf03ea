------------------------ MODULE ElchiLifecycleProofs ------------------------
(***************************************************************************)
(* For every server block, every value of the constants that               *)
(* SetupAssumption allows and every behaviour of the controller.           *)
(***************************************************************************)
EXTENDS ElchiLifecycle, SequenceTheorems, WellFoundedInduction, TLAPS

-----------------------------------------------------------------------------
(* setup.go *)

\* The last directive that gives a value is one of the block's.
LEMMA LastGiven ==
    ASSUME NEW directives \in Seq(Directives), NEW key, Given(directives, key) # {}
    PROVE  Max(Given(directives, key)) \in Given(directives, key)
<1> DEFINE given == Given(directives, key)
           fromEnd == {Len(directives) - i : i \in given}
<1>1. given \subseteq 1 .. Len(directives) /\ Len(directives) \in Nat
  BY LenProperties DEF Given
<1>2. fromEnd \subseteq Nat /\ fromEnd # {}
  BY <1>1
<1>3. \A i \in given : Len(directives) - i \in fromEnd
  OBVIOUS
<1>4. \A n \in fromEnd : \E i \in given : n = Len(directives) - i
  OBVIOUS
<1> HIDE DEF fromEnd
<1>5. PICK n \in fromEnd : \A m \in fromEnd : <<m, n>> \notin OpToRel(<, Nat)
  BY <1>2, NatLessThanWellFounded, WFMin
<1>6. \A m \in fromEnd : n <= m
  <2>1. \A m \in fromEnd : ~ (m < n)
    BY <1>2, <1>5 DEF OpToRel
  <2> QED
    BY <1>2, <2>1
<1>7. PICK x \in given : n = Len(directives) - x
  BY <1>4
<1> HIDE DEF given
<1>8. \A y \in given : x >= y
  BY <1>1, <1>3, <1>6, <1>7
<1>9. Max(given) \in given
  BY <1>8 DEF Max
<1> QED
  BY <1>9 DEF given

\* The value of a setting is the default or one of the block's.
LEMMA SettingChecked ==
    ASSUME NEW directives \in Seq(Directives), NEW key, NEW default, NEW S,
           default \in S,
           \A i \in Given(directives, key) : Head(directives[i].args) \in S
    PROVE  Setting(directives, key, default) \in S
<1>1. CASE Given(directives, key) = {}
  BY <1>1 DEF Setting
<1>2. CASE Given(directives, key) # {}
  BY <1>2, LastGiven DEF Setting
<1> QED
  BY <1>1, <1>2

\* An argument is a number.
LEMMA ArgumentIsInt ==
    ASSUME NEW directives \in Seq(Directives), NEW i \in DOMAIN directives,
           directives[i].args # <<>>
    PROVE  Head(directives[i].args) \in Int
<1>1. directives[i] \in Directives
  BY LenProperties, ElementOfSeq
<1>2. directives[i].args \in Seq(Int)
  BY <1>1 DEF Directives
<1> QED
  BY <1>2, HeadTailProperties

\* So is a setting.
LEMMA SettingIsInt ==
    ASSUME NEW directives \in Seq(Directives), NEW key, NEW default \in Int
    PROVE  Setting(directives, key, default) \in Int
<1>1. \A i \in Given(directives, key) : Head(directives[i].args) \in Int
  BY ArgumentIsInt DEF Given
<1> QED
  BY <1>1, SettingChecked

\* A configuration has the fields of Elchi.
LEMMA ConfigType ==
    ASSUME NEW directives \in Seq(Directives)
    PROVE  Config(directives) \in
              [endpoint : Int, secret : Int, nodeIP : Int, ttl : Int, interval : Int,
               timeout : Int, webhook : BOOLEAN, addr : Int]
BY SettingIsInt, SetupAssumption DEF Config, SetupAssumption

\* What setup lets through: a ttl that fits, an interval within the limits, a timeout
\* that is shorter and a secret that is long enough (setup.go:94-126, 185-192).
THEOREM AcceptedConfig ==
    ASSUME NEW block \in ServerBlocks, Accepted(block)
    PROVE  /\ Config(block.directives).ttl \in 1 .. MaxTTL
           /\ Config(block.directives).interval \in MinSyncInterval .. MaxSyncInterval
           /\ Config(block.directives).timeout
                 \in MinTimeout .. Config(block.directives).interval - 1
           /\ Config(block.directives).secret >= MinSecretLength
<1> DEFINE ds == block.directives
<1>1. ds \in Seq(Directives) /\ \A i \in DOMAIN ds : Valid(ds[i])
  BY DEF ServerBlocks, Accepted
<1>2. Config(ds).interval > Config(ds).timeout /\ Config(ds).secret >= MinSecretLength
  BY DEF Accepted, Complete
<1> HIDE DEF ds
<1>3. Setting(ds, "ttl", DefaultTTL) \in 1 .. MaxTTL
  <2>1. \A i \in Given(ds, "ttl") : Head(ds[i].args) \in 1 .. MaxTTL
    BY <1>1 DEF Given, Valid
  <2>2. DefaultTTL \in 1 .. MaxTTL
    BY SetupAssumption DEF SetupAssumption
  <2> QED
    BY <1>1, <2>1, <2>2, SettingChecked
<1>4. Setting(ds, "sync_interval", DefaultSyncInterval) \in MinSyncInterval .. MaxSyncInterval
  <2>1. \A i \in Given(ds, "sync_interval") :
           Head(ds[i].args) \in MinSyncInterval .. MaxSyncInterval
    BY <1>1 DEF Given, Valid
  <2>2. DefaultSyncInterval \in MinSyncInterval .. MaxSyncInterval
    BY SetupAssumption DEF SetupAssumption
  <2> QED
    BY <1>1, <2>1, <2>2, SettingChecked
<1>5. Setting(ds, "timeout", DefaultTimeout) \in {n \in Int : n >= MinTimeout}
  <2>1. \A i \in Given(ds, "timeout") : Head(ds[i].args) \in Int
    BY <1>1, ArgumentIsInt DEF Given
  <2>2. \A i \in Given(ds, "timeout") : Head(ds[i].args) >= MinTimeout
    BY <1>1 DEF Given, Valid
  <2>3. \A i \in Given(ds, "timeout") : Head(ds[i].args) \in {n \in Int : n >= MinTimeout}
    BY <2>1, <2>2
  <2>4. DefaultTimeout \in {n \in Int : n >= MinTimeout}
    BY SetupAssumption DEF SetupAssumption
  <2> QED
    BY <1>1, <2>3, <2>4, SettingChecked
<1>6. /\ Config(ds).ttl \in 1 .. MaxTTL
      /\ Config(ds).interval \in MinSyncInterval .. MaxSyncInterval
      /\ Config(ds).timeout \in MinTimeout .. Config(ds).interval - 1
  BY <1>2, <1>3, <1>4, <1>5, SetupAssumption DEF Config, SetupAssumption
<1> QED
  BY <1>2, <1>6 DEF ds

\* A directive with an argument sets its own setting and no other.
LEMMA SettingAppend ==
    ASSUME NEW ds \in Seq(Directives), NEW d \in Directives, NEW key, NEW default
    PROVE  Setting(Append(ds, d), key, default) =
             IF d.key = key /\ d.args # <<>> THEN Head(d.args) ELSE Setting(ds, key, default)
<1> DEFINE new == Append(ds, d)
           n == Len(ds) + 1
<1>1. /\ Len(ds) \in Nat /\ DOMAIN ds = 1 .. Len(ds) /\ DOMAIN new = 1 .. n
      /\ new[n] = d
      /\ \A i \in DOMAIN ds : new[i] = ds[i]
  BY AppendProperties, LenProperties
<1> SUFFICES Setting(new, key, default) =
               IF d.key = key /\ d.args # <<>> THEN Head(d.args) ELSE Setting(ds, key, default)
  OBVIOUS
<1> HIDE DEF new
<1>2. Given(ds, key) \subseteq 1 .. Len(ds)
  BY <1>1 DEF Given
<1>3. \A i \in DOMAIN ds : i \in Given(new, key) <=> i \in Given(ds, key)
  BY <1>1 DEF Given
<1>4. n \in Given(new, key) <=> d.key = key /\ d.args # <<>>
  BY <1>1 DEF Given
<1>5. Given(new, key) \subseteq DOMAIN ds \cup {n}
  BY <1>1 DEF Given
<1>6. CASE d.key = key /\ d.args # <<>>
  <2>1. n \in Given(new, key) /\ \A i \in Given(new, key) : n >= i
    BY <1>1, <1>4, <1>5, <1>6
  <2>2. Given(new, key) \subseteq Int
    BY <1>1, <1>5
  <2>3. Max(Given(new, key)) \in Given(new, key) /\ Max(Given(new, key)) >= n
    BY <2>1 DEF Max
  <2>4. Max(Given(new, key)) = n
    BY <1>1, <2>1, <2>2, <2>3
  <2> QED
    BY <1>1, <1>6, <2>1, <2>4 DEF Setting
<1>7. CASE ~(d.key = key /\ d.args # <<>>)
  <2>1. Given(new, key) = Given(ds, key)
    BY <1>1, <1>2, <1>3, <1>4, <1>5, <1>7
  <2>2. CASE Given(ds, key) = {}
    BY <1>7, <2>1, <2>2 DEF Setting
  <2>3. CASE Given(ds, key) # {}
    <3>1. new[Max(Given(ds, key))] = ds[Max(Given(ds, key))]
      BY <1>1, <1>2, <2>3, LastGiven
    <3> QED
      BY <1>7, <2>1, <2>3, <3>1 DEF Setting
  <2> QED
    BY <2>2, <2>3
<1> QED
  BY <1>6, <1>7

\* The webhook is on once a directive asks for it.
LEMMA WebhookAppend ==
    ASSUME NEW ds \in Seq(Directives), NEW d \in Directives
    PROVE  Config(Append(ds, d)).webhook = (Config(ds).webhook \/ d.key = "webhook")
<1> DEFINE new == Append(ds, d)
           n == Len(ds) + 1
<1>1. /\ Len(ds) \in Nat /\ DOMAIN ds = 1 .. Len(ds) /\ DOMAIN new = 1 .. n
      /\ new[n] = d
      /\ \A i \in DOMAIN ds : new[i] = ds[i]
  BY AppendProperties, LenProperties
<1> HIDE DEF new
<1>2. (\E i \in DOMAIN new : new[i].key = "webhook")
        <=> (\E i \in DOMAIN ds : ds[i].key = "webhook") \/ d.key = "webhook"
  BY <1>1
<1>3. /\ Config(new).webhook = (\E i \in DOMAIN new : new[i].key = "webhook")
      /\ Config(ds).webhook = (\E i \in DOMAIN ds : ds[i].key = "webhook")
  BY Zenon DEF Config
<1> QED
  BY <1>2, <1>3, Zenon DEF new

\* The configuration is that of the loop of parseElchi: the defaults before the first
\* directive, and with each one more what reading it assigns (setup.go:54-165).
THEOREM ConfigIsLoop ==
    /\ Config(<<>>) = Defaults
    /\ \A ds \in Seq(Directives), d \in Directives :
          Valid(d) => Config(Append(ds, d)) = Assign(Config(ds), d)
<1>1. Config(<<>>) = Defaults
  <2>1. \A key : Given(<<>>, key) = {}
    BY DEF Given
  <2>2. \A key, default : Setting(<<>>, key, default) = default
    BY <2>1 DEF Setting
  <2>3. (\E i \in DOMAIN <<>> : <<>>[i].key = "webhook") = FALSE
    OBVIOUS
  <2> QED
    BY <2>2, <2>3 DEF Config, Defaults
<1>2. ASSUME NEW ds \in Seq(Directives), NEW d \in Directives, Valid(d)
      PROVE  Config(Append(ds, d)) = Assign(Config(ds), d)
  <2> DEFINE before == Config(ds)
             after == Config(Append(ds, d))
             Has(key) == d.key = key /\ d.args # <<>>
  <2>1. /\ after.endpoint = IF Has("endpoint") THEN Head(d.args) ELSE before.endpoint
        /\ after.secret = IF Has("secret") THEN Head(d.args) ELSE before.secret
        /\ after.nodeIP = IF Has("node_ip") THEN Head(d.args) ELSE before.nodeIP
        /\ after.ttl = IF Has("ttl") THEN Head(d.args) ELSE before.ttl
        /\ after.interval = IF Has("sync_interval") THEN Head(d.args) ELSE before.interval
        /\ after.timeout = IF Has("timeout") THEN Head(d.args) ELSE before.timeout
        /\ after.addr = IF Has("webhook") THEN Head(d.args) ELSE before.addr
    BY SettingAppend DEF Config
  <2>2. after.webhook = (before.webhook \/ d.key = "webhook")
    BY WebhookAppend
  <2>3. d.key \in NeedArgument => d.args # <<>>
    BY <1>2 DEF Valid
  <2>4. \A c \in {before, after} :
           c = [endpoint |-> c.endpoint, secret |-> c.secret, nodeIP |-> c.nodeIP,
                ttl |-> c.ttl, interval |-> c.interval, timeout |-> c.timeout,
                webhook |-> c.webhook, addr |-> c.addr]
    BY DEF Config
  <2>5. before.webhook \in BOOLEAN
    BY ConfigType
  <2> SUFFICES after = Assign(before, d)
    OBVIOUS
  <2> HIDE DEF before, after
  <2>6. CASE d.key = "webhook"
    <3>1. /\ after.endpoint = before.endpoint /\ after.secret = before.secret
          /\ after.nodeIP = before.nodeIP /\ after.ttl = before.ttl
          /\ after.interval = before.interval /\ after.timeout = before.timeout
          /\ after.addr = IF d.args = <<>> THEN before.addr ELSE Head(d.args)
      BY <2>1, <2>6
    <3>2. after.webhook = TRUE
      BY <2>2, <2>6, Zenon
    <3>3. after = [before EXCEPT !.webhook = TRUE,
                                 !.addr = IF d.args = <<>> THEN @ ELSE Head(d.args)]
      BY <2>4, <3>1, <3>2
    <3> QED
      BY <2>6, <3>3 DEF Assign
  <2>7. CASE d.key # "webhook"
    <3>1. after.webhook = before.webhook
      BY <2>2, <2>5, <2>7, Zenon
    <3>2. d.key \in NeedArgument => Has(d.key)
      BY <2>3
    <3> QED
      BY <2>1, <2>4, <2>7, <3>1, <3>2 DEF Assign, NeedArgument
  <2> QED
    BY <2>6, <2>7
<1> QED
  BY <1>1, <1>2

-----------------------------------------------------------------------------
(* elchi.go, webhook.go *)

\* Why the invariants hold.  A sync begins at the very tick that asks for it, ...
OnTheTick ==
    /\ phase = "idle" =>
          untilTick \in 1 .. conf.interval /\ (tick => untilTick = conf.interval)
    /\ phase = "syncing" =>
          ~tick /\ elapsed <= conf.timeout /\ elapsed + untilTick = conf.interval

SinceTick == IF tick THEN conf.interval ELSE conf.interval - untilTick

\* ... so that the time of the last sync is at most one cycle and one request ago, ...
AgeInv ==
    /\ phase = "initial" => age <= elapsed
    /\ phase = "idle" => age <= SinceTick
    /\ phase = "syncing" => age <= conf.interval + elapsed

\* ... the last failure is one that touched an outage, ...
RecoveryInv ==
    /\ phase = "initial" => elapsed <= conf.timeout
    /\ phase = "initial" /\ up => steadyFor <= elapsed
    /\ phase = "idle" /\ status # "success" /\ up => steadyFor <= SinceTick + conf.timeout
    /\ phase = "syncing" /\ status # "success" /\ up =>
          steadyFor <= elapsed + conf.interval + conf.timeout

\* ... and a sync that runs after Shutdown began no later than at that instant.
ShutdownInv ==
    /\ phase \in {"rejected", "initial"} => ~cancelled
    /\ phase \in {"rejected", "initial"} => status = "initial"
    /\ phase = "ended" => cancelled
    /\ ~cancelled => sinceShutdown = 0
    /\ phase = "idle" => sinceShutdown <= conf.timeout /\ (tick => sinceShutdown = 0)
    /\ phase = "syncing" => sinceShutdown <= elapsed

IInv == TypeOK /\ OnTheTick /\ AgeInv /\ RecoveryInv /\ ShutdownInv

\* The configuration an instance runs with, as arithmetic needs it.
LEMMA RunningConfig ==
    ASSUME TypeOK, phase # "rejected"
    PROVE  /\ conf.interval \in Nat /\ conf.timeout \in Nat
           /\ 1 <= conf.timeout /\ conf.timeout < conf.interval
BY SetupAssumption DEF TypeOK, SetupAssumption

LEMMA InitIInv == Init => IInv
<1> SUFFICES ASSUME Init
             PROVE  IInv
  OBVIOUS
<1>1. PICK block \in Blocks :
         /\ conf = Config(block.directives)
         /\ phase = IF Accepted(block) THEN "initial" ELSE "rejected"
  BY DEF Init
<1>2. block \in ServerBlocks /\ block.directives \in Seq(Directives)
  BY LifecycleAssumption DEF LifecycleAssumption, ServerBlocks
<1>3. TypeOK
  BY <1>1, <1>2, ConfigType, AcceptedConfig DEF Init, TypeOK
<1>4. phase # "rejected" => conf.timeout >= 1
  BY <1>3, RunningConfig
<1> QED
  BY <1>1, <1>3, <1>4, RunningConfig
     DEF Init, IInv, OnTheTick, AgeInv, RecoveryInv, ShutdownInv

LEMMA NextIInv == IInv /\ [Next]_vars => IInv'
<1> SUFFICES ASSUME IInv, [Next]_vars
             PROVE  IInv'
  OBVIOUS
<1> USE DEF IInv, request, ticker, syncStatus, controller, shutdown
<1>0. phase # "rejected" => /\ conf.interval \in Nat /\ conf.timeout \in Nat
                            /\ 1 <= conf.timeout /\ conf.timeout < conf.interval
  BY RunningConfig
<1>1. CASE TimePasses
  <2>1. TypeOK'
    <3>1. tick' \in BOOLEAN
      BY <1>1 DEF TimePasses, TypeOK
    <3>2. untilTick' \in Nat
      BY <1>0, <1>1 DEF TimePasses, TypeOK, Ticking, OnTheTick
    <3>3. /\ elapsed' \in Nat /\ age' \in Nat /\ steadyFor' \in Nat
          /\ sinceSuccess' \in Nat \cup {Never} /\ sinceShutdown' \in Nat
      BY <1>1 DEF TimePasses, TypeOK, Later
    <3> QED
      BY <1>1, <3>1, <3>2, <3>3 DEF TimePasses, TypeOK
  <2>2. OnTheTick'
    BY <1>0, <1>1 DEF TimePasses, TypeOK, Requesting, Ticking, OnTheTick
  <2>3. AgeInv'
    <3>1. age' <= age + 1 /\ age \in Nat /\ age' \in Nat /\ phase' = phase /\ conf' = conf
      BY <1>1, <2>1 DEF TimePasses, TypeOK, Later
    <3>2. CASE phase = "idle"
      <4>1. SinceTick' = SinceTick + 1
        <5>1. /\ tick = FALSE
              /\ tick' = (untilTick = 1)
              /\ untilTick' = IF untilTick = 1 THEN conf.interval ELSE untilTick - 1
          BY <1>1, <3>2 DEF TimePasses, TypeOK, Ticking
        <5>2. conf.interval \in Nat /\ untilTick \in Nat
          BY <1>0, <3>2 DEF TypeOK
        <5>3. CASE untilTick = 1
          <6>1. tick' = TRUE
            BY <5>1, <5>3
          <6>2. SinceTick' = conf.interval /\ SinceTick = conf.interval - 1
            BY <3>1, <5>1, <5>3, <6>1 DEF SinceTick
          <6> QED
            BY <5>2, <6>2
        <5>4. CASE untilTick # 1
          <6>1. tick' = FALSE
            BY <5>1, <5>4
          <6>2. /\ SinceTick' = conf.interval - (untilTick - 1)
                /\ SinceTick = conf.interval - untilTick
            BY <3>1, <5>1, <5>4, <6>1 DEF SinceTick
          <6> QED
            BY <5>2, <6>2
        <5> QED
          BY <5>3, <5>4
      <4>2. SinceTick \in Int
        BY <1>0, <3>2 DEF TypeOK, OnTheTick, SinceTick
      <4> QED
        BY <3>1, <3>2, <4>1, <4>2 DEF AgeInv
    <3>3. CASE phase = "syncing"
      BY <1>0, <1>1, <3>1, <3>3 DEF TimePasses, TypeOK, Requesting, AgeInv
    <3>4. CASE phase = "initial"
      <4>1. elapsed' = elapsed + 1 /\ elapsed \in Nat /\ age <= elapsed
        BY <1>1, <3>4 DEF TimePasses, TypeOK, Requesting, AgeInv
      <4> QED
        BY <3>1, <3>4, <4>1 DEF AgeInv
    <3> QED
      BY <3>1, <3>2, <3>3, <3>4 DEF AgeInv
  <2>5. RecoveryInv'
    BY <1>0, <1>1 DEF TimePasses, TypeOK, Requesting, Ticking, Later, SinceTick, OnTheTick,
                      RecoveryInv
  <2>4. ShutdownInv'
    BY <1>0, <1>1 DEF TimePasses, TypeOK, Requesting, Later, ShutdownInv
  <2> QED
    BY <2>1, <2>2, <2>3, <2>4, <2>5
<1>2. CASE GoDownOrUp
  BY <1>0, <1>2
     DEF GoDownOrUp, TypeOK, SinceTick, OnTheTick, AgeInv, RecoveryInv, ShutdownInv
<1>3. CASE InitialFetchDone
  <2>1. /\ age' = 0 /\ status' \in {"success", "failed"}
        /\ status' = "failed" => ~up \/ steadyFor <= elapsed
        /\ sinceSuccess' \in Nat \cup {Never}
    BY <1>3 DEF InitialFetchDone, Outcome, Update, TypeOK
  <2>2. /\ phase = "initial" /\ phase' = "idle" /\ elapsed' = 0
        /\ untilTick' = conf.interval /\ tick' = FALSE
        /\ UNCHANGED <<conf, up, steadyFor, cancelled, sinceShutdown>>
    BY <1>3 DEF InitialFetchDone
  <2>3. TypeOK'
    <3>1. untilTick' \in Nat
      BY <1>0, <2>2
    <3> QED
      BY <2>1, <2>2, <3>1 DEF TypeOK
  <2>5. OnTheTick'
    BY <1>0, <2>2 DEF OnTheTick
  <2>4. AgeInv' /\ RecoveryInv' /\ ShutdownInv'
    BY <1>0, <2>1, <2>2 DEF TypeOK, SinceTick, AgeInv, RecoveryInv, ShutdownInv
  <2> QED
    BY <2>3, <2>4, <2>5
<1>4. CASE PerformSync
  <2>1. /\ phase = "idle" /\ tick = TRUE /\ phase' = "syncing" /\ elapsed' = 0 /\ tick' = FALSE
        /\ UNCHANGED <<conf, untilTick, status, age, sinceSuccess, up, steadyFor, cancelled,
                       sinceShutdown>>
    BY <1>4 DEF PerformSync, TypeOK
  <2>2. TypeOK'
    BY <2>1 DEF TypeOK
  <2>3. OnTheTick'
    BY <1>0, <2>1 DEF TypeOK, OnTheTick
  <2>4. AgeInv'
    BY <1>0, <2>1 DEF TypeOK, SinceTick, AgeInv
  <2>5. RecoveryInv'
    BY <1>0, <2>1 DEF TypeOK, SinceTick, RecoveryInv
  <2>6. ShutdownInv'
    BY <1>0, <2>1 DEF TypeOK, ShutdownInv
  <2> QED
    BY <2>2, <2>3, <2>4, <2>5, <2>6
<1>5. CASE SyncDone
  <2>1. /\ age' = 0 /\ status' \in {"success", "failed"}
        /\ status' = "failed" => ~up \/ steadyFor <= elapsed
        /\ sinceSuccess' \in Nat \cup {Never}
    BY <1>5 DEF SyncDone, Outcome, Update, TypeOK
  <2>2. /\ phase = "syncing" /\ phase' = "idle" /\ elapsed' = 0
        /\ UNCHANGED <<conf, untilTick, tick, up, steadyFor, cancelled, sinceShutdown>>
    BY <1>5 DEF SyncDone
  <2> QED
    BY <1>0, <2>1, <2>2 DEF TypeOK, SinceTick, OnTheTick, AgeInv, RecoveryInv, ShutdownInv
<1>6. CASE LoopReturns
  BY <1>6 DEF LoopReturns, TypeOK, OnTheTick, AgeInv, RecoveryInv, ShutdownInv
<1>7. CASE Shutdown
  BY <1>7, RunningConfig
     DEF Shutdown, TypeOK, SinceTick, OnTheTick, AgeInv, RecoveryInv, ShutdownInv
<1>8. CASE UNCHANGED vars
  BY <1>8 DEF vars, TypeOK, SinceTick, OnTheTick, AgeInv, RecoveryInv, ShutdownInv
<1> QED
  BY <1>1, <1>2, <1>3, <1>4, <1>5, <1>6, <1>7, <1>8 DEF Next, Loop

LEMMA IInvAlways == Spec => []IInv
BY InitIInv, NextIInv, PTL DEF Spec

\* An instance runs with a configuration that setup accepted, and its clocks,
\* status and phases are what they should be.
THEOREM LifecycleTypeCorrect == Spec => []TypeOK
BY IInvAlways, PTL DEF IInv

\* Every sync is over before the next tick (setup.go:190).
THEOREM NoOverrunInvariant == Spec => []NoOverrun
<1>1. IInv => NoOverrun
  BY RunningConfig DEF IInv, TypeOK, OnTheTick, NoOverrun
<1> QED
  BY <1>1, IInvAlways, PTL

\* The degraded branch of handleHealth is not reached before Shutdown (webhook.go:219).
THEOREM NeverDegradedInvariant == Spec => []NeverDegraded
<1>1. IInv => NeverDegraded
  <2> SUFFICES ASSUME IInv, ~cancelled, status = "failed"
               PROVE  ~(age > 2 * conf.interval)
    BY DEF NeverDegraded, Health
  <2>1. phase \in {"rejected", "idle", "syncing"}
    BY DEF IInv, TypeOK, ShutdownInv
  <2> QED
    BY <2>1, RunningConfig DEF IInv, TypeOK, OnTheTick, AgeInv, SinceTick, ShutdownInv
<1> QED
  BY <1>1, IInvAlways, PTL

\* The loop does not stall: before Shutdown the last outcome is at most one cycle and
\* one request old (elchi.go:183-203).
THEOREM KeepsSyncingInvariant == Spec => []KeepsSyncing
<1>1. IInv => KeepsSyncing
  <2> SUFFICES ASSUME IInv, phase # "rejected", ~cancelled
               PROVE  age <= conf.interval + conf.timeout
    BY DEF KeepsSyncing
  <2>1. phase \in {"initial", "idle", "syncing"}
    BY DEF IInv, TypeOK, ShutdownInv
  <2>2. CASE phase = "initial"
    BY <2>2, RunningConfig DEF IInv, TypeOK, AgeInv, RecoveryInv
  <2>3. CASE phase = "idle"
    BY <2>3, RunningConfig DEF IInv, TypeOK, OnTheTick, AgeInv, SinceTick
  <2>4. CASE phase = "syncing"
    BY <2>4, RunningConfig DEF IInv, TypeOK, OnTheTick, AgeInv
  <2> QED
    BY <2>1, <2>2, <2>3, <2>4
<1> QED
  BY <1>1, IInvAlways, PTL

\* A controller that is back is used within an interval and two timeouts.
THEOREM RecoversInTimeInvariant == Spec => []RecoversInTime
<1>1. IInv => RecoversInTime
  BY RunningConfig
     DEF IInv, TypeOK, OnTheTick, RecoveryInv, ShutdownInv, SinceTick, RecoversInTime, RecoveryTime
<1> QED
  BY <1>1, IInvAlways, PTL

\* Nothing of the goroutine is left a timeout after Shutdown (elchi.go:188-201).
THEOREM EndsInTimeInvariant == Spec => []EndsInTime
<1>1. IInv => EndsInTime
  BY RunningConfig DEF IInv, TypeOK, OnTheTick, ShutdownInv, EndsInTime
<1> QED
  BY <1>1, IInvAlways, PTL
=============================================================================

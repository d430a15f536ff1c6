-------------------------- MODULE Lifecycle_proofs --------------------------
(***************************************************************************)
(* Proofs about the life of the process: what has been set up before       *)
(* anything is consumed, and the order in which it is closed.              *)
(***************************************************************************)
EXTENDS Lifecycle, SequenceTheorems, TLAPS

\* The stages behind each of those that set something up.
PastHealth == {"consume", "scanning", "shutdown", "defers"}
PastCancelConsumer == {"health"} \cup PastHealth
PastScanConsumer == {"cancelConsumer"} \cup PastCancelConsumer
PastSigner == {"scanConsumer"} \cup PastScanConsumer
PastPrefix == {"signer"} \cup PastSigner
PastPublisher == {"redis", "prefix"} \cup PastPrefix
PastSettings == {"connection", "publisher"} \cup PastPublisher

-----------------------------------------------------------------------------
(***************************************************************************)
(* The deferred calls.                                                     *)
(***************************************************************************)
Held(calls) == {calls[i] : i \in DOMAIN calls}

\* What has a channel on the connection.
Channels == {"publisher", "scanConsumer", "cancelConsumer"}

\* The connection is closed after its channels, the publisher after the consumer
\* whose handler publishes.
InOrder(calls) ==
  \A i, j \in DOMAIN calls :
    i < j => /\ calls[i] = "connection" => calls[j] \notin Channels
             /\ calls[i] = "publisher" => calls[j] # "scanConsumer"

\* The elements of a sequence with one more in front.
LEMMA PushedCall ==
  ASSUME NEW calls \in Seq(Resources), NEW r \in Resources
  PROVE  /\ <<r>> \o calls \in Seq(Resources)
         /\ Held(<<r>> \o calls) = {r} \cup Held(calls)
         /\ /\ InOrder(calls)
            /\ r = "connection" => Held(calls) \cap Channels = {}
            /\ r = "publisher" => "scanConsumer" \notin Held(calls)
            => InOrder(<<r>> \o calls)
<1> DEFINE t == <<r>> \o calls
           l == Len(calls)
<1>1. /\ t \in Seq(Resources) /\ l \in Nat
      /\ DOMAIN calls = 1 .. l /\ DOMAIN t = 1 .. l + 1
      /\ t[1] = r
      /\ \A i \in 2 .. l + 1 : t[i] = calls[i - 1]
  <2> DEFINE f == <<r>>
  <2>1. f \in Seq(Resources) /\ Len(f) = 1 /\ f[1] = r
    OBVIOUS
  <2>2. l \in Nat /\ DOMAIN calls = 1 .. l
    OBVIOUS
  <2> HIDE DEF f, l
  <2>3. /\ f \o calls \in Seq(Resources) /\ Len(f \o calls) = Len(f) + l
        /\ \A i \in 1 .. Len(f) + l :
             (f \o calls)[i] = IF i <= Len(f) THEN f[i] ELSE calls[i - Len(f)]
    BY <2>1, ConcatProperties DEF l
  <2>4. t = f \o calls
    BY DEF f
  <2> HIDE DEF t
  <2>5. DOMAIN t = 1 .. Len(t)
    BY <2>3, <2>4
  <2> QED
    BY <2>1, <2>2, <2>3, <2>4, <2>5
<1> HIDE DEF t, l
<1>2. \A i \in 1 .. l : i + 1 \in 2 .. l + 1 /\ (i + 1) - 1 = i
  BY <1>1
<1>3. \A i \in 1 .. l + 1 : i = 1 \/ (i \in 2 .. l + 1 /\ i - 1 \in 1 .. l)
  BY <1>1
<1>4. ASSUME NEW i \in 1 .. l + 1 PROVE t[i] \in {r} \cup Held(calls)
  <2>1. CASE i = 1
    BY <1>1, <2>1
  <2>2. CASE i # 1
    <3>1. i - 1 \in DOMAIN calls /\ t[i] = calls[i - 1]
      BY <1>1, <1>3, <2>2
    <3> QED
      BY <3>1 DEF Held
  <2> QED
    BY <2>1, <2>2
<1>5. ASSUME NEW i \in 1 .. l PROVE calls[i] \in Held(t)
  <2>1. t[i + 1] = calls[i] /\ i + 1 \in 1 .. l + 1
    BY <1>1, <1>2
  <2> QED
    BY <1>1, <2>1 DEF Held
<1>6. r \in Held(t)
  BY <1>1 DEF Held
<1>7. Held(t) = {r} \cup Held(calls)
  BY <1>1, <1>4, <1>5, <1>6 DEF Held
<1>8. ASSUME InOrder(calls),
             r = "connection" => Held(calls) \cap Channels = {},
             r = "publisher" => "scanConsumer" \notin Held(calls)
      PROVE  InOrder(t)
  <2> SUFFICES ASSUME NEW i \in 1 .. l + 1, NEW j \in 1 .. l + 1, i < j
               PROVE  /\ t[i] = "connection" => t[j] \notin Channels
                      /\ t[i] = "publisher" => t[j] # "scanConsumer"
    BY <1>1 DEF InOrder
  <2>1. j - 1 \in 1 .. l /\ t[j] = calls[j - 1]
    BY <1>1
  <2>2. CASE i = 1
    <3>1. calls[j - 1] \in Held(calls)
      BY <1>1, <2>1 DEF Held
    <3> QED
      BY <1>1, <1>8, <2>1, <2>2, <3>1
  <2>3. CASE i # 1
    <3>1. i - 1 \in 1 .. l /\ t[i] = calls[i - 1] /\ i - 1 < j - 1
      BY <1>1, <2>3
    <3> QED
      BY <1>1, <1>8, <2>1, <3>1 DEF InOrder
  <2> QED
    BY <2>2, <2>3
<1> QED
  BY <1>1, <1>7, <1>8 DEF t

\* The first of the deferred calls and the others.
LEMMA PoppedCall ==
  ASSUME NEW calls \in Seq(Resources), calls # <<>>, InOrder(calls)
  PROVE  /\ Head(calls) \in Resources /\ Tail(calls) \in Seq(Resources)
         /\ Held(calls) = {Head(calls)} \cup Held(Tail(calls))
         /\ InOrder(Tail(calls))
         /\ Head(calls) = "connection" => Held(Tail(calls)) \cap Channels = {}
         /\ Head(calls) = "publisher" => "scanConsumer" \notin Held(Tail(calls))
<1> DEFINE t == Tail(calls)
           l == Len(calls)
           h == Head(calls)
<1>1. /\ h \in Resources /\ t \in Seq(Resources)
      /\ l \in Nat \ {0} /\ h = calls[1]
      /\ DOMAIN calls = 1 .. l /\ DOMAIN t = 1 .. l - 1
      /\ \A i \in 1 .. l - 1 : t[i] = calls[i + 1]
  <2>1. l \in Nat \ {0} /\ h = calls[1] /\ DOMAIN calls = 1 .. l
    OBVIOUS
  <2>2. /\ h \in Resources /\ t \in Seq(Resources) /\ Len(t) = l - 1
        /\ \A i \in 1 .. Len(t) : t[i] = calls[i + 1]
    BY HeadTailProperties
  <2> HIDE DEF t, l, h
  <2>3. DOMAIN t = 1 .. Len(t)
    BY <2>2
  <2> QED
    BY <2>1, <2>2, <2>3
<1> HIDE DEF t, l, h
<1>2. \A i \in 1 .. l - 1 : i + 1 \in 1 .. l /\ 1 < i + 1
  BY <1>1
<1>3. \A i \in 1 .. l : i = 1 \/ (i - 1 \in 1 .. l - 1 /\ (i - 1) + 1 = i)
  BY <1>1
<1>4. /\ h \in Held(calls)
      /\ \A i \in 1 .. l - 1 : t[i] \in Held(calls)
  <2>1. 1 \in DOMAIN calls
    BY <1>1
  <2>2. ASSUME NEW i \in 1 .. l - 1 PROVE t[i] \in Held(calls)
    <3>1. i + 1 \in DOMAIN calls /\ t[i] = calls[i + 1]
      BY <1>1, <1>2
    <3> QED
      BY <3>1 DEF Held
  <2> QED
    BY <1>1, <2>1, <2>2 DEF Held
<1>5. ASSUME NEW i \in 1 .. l PROVE calls[i] \in {h} \cup Held(t)
  <2>1. CASE i = 1
    BY <1>1, <2>1
  <2>2. CASE i # 1
    <3>1. i - 1 \in DOMAIN t /\ t[i - 1] = calls[i]
      BY <1>1, <1>3, <2>2
    <3> QED
      BY <3>1 DEF Held
  <2> QED
    BY <2>1, <2>2
<1>6. Held(calls) = {h} \cup Held(t)
  BY <1>1, <1>4, <1>5 DEF Held
<1>7. InOrder(t)
  <2> SUFFICES ASSUME NEW i \in 1 .. l - 1, NEW j \in 1 .. l - 1, i < j
               PROVE  /\ t[i] = "connection" => t[j] \notin Channels
                      /\ t[i] = "publisher" => t[j] # "scanConsumer"
    BY <1>1 DEF InOrder
  <2>1. i + 1 \in 1 .. l /\ j + 1 \in 1 .. l /\ i + 1 < j + 1
    BY <1>2
  <2>2. /\ calls[i + 1] = "connection" => calls[j + 1] \notin Channels
        /\ calls[i + 1] = "publisher" => calls[j + 1] # "scanConsumer"
    BY <1>1, <2>1 DEF InOrder
  <2> QED
    BY <1>1, <2>2
<1>8. ASSUME NEW i \in 1 .. l - 1
      PROVE  /\ h = "connection" => t[i] \notin Channels
             /\ h = "publisher" => t[i] # "scanConsumer"
  <2>1. 1 \in 1 .. l /\ i + 1 \in 1 .. l /\ 1 < i + 1
    BY <1>1, <1>2
  <2>2. /\ calls[1] = "connection" => calls[i + 1] \notin Channels
        /\ calls[1] = "publisher" => calls[i + 1] # "scanConsumer"
    BY <1>1, <2>1 DEF InOrder
  <2> QED
    BY <1>1, <2>2
<1> QED
  BY <1>1, <1>6, <1>7, <1>8 DEF t, h, Held

-----------------------------------------------------------------------------
(***************************************************************************)
(* The inductive invariant.  The properties speak of a consumer that runs  *)
(* and of what is closed; what they need is known at each earlier stage,   *)
(* for main may end at any of them, and the cancel consumer may still run  *)
(* when the process is over.                                               *)
(***************************************************************************)

\* What the stages passed have set up.
SetUp ==
  /\ pc \in PastSettings => SettingsValid
  /\ pc \in PastPrefix => prefix = "absolute/"
  /\ pc \in PastSigner => (signer <=> config.key # "none")
  /\ pc \in PastHealth => health # "off"
  /\ redis => config.redis = "configured"

\* Where main is while its consumers run.
Consuming ==
  /\ scan = "running" => pc = "scanning"
  /\ cancel = "running" => pc \in {"scanning", "shutdown", "defers", "exited"}

\* What is deferred, what has been closed, and what neither forgets.
Deferred ==
  /\ InOrder(deferred)
  /\ pc \in {"settings", "connection"} => Held(deferred) \subseteq {"context"}
  /\ pc = "publisher" => Held(deferred) \subseteq {"context", "connection"}
  /\ pc \in PastPublisher => "publisher" \in Held(deferred) \cup closed
  /\ pc \in PastScanConsumer => "scanConsumer" \in Held(deferred) \cup closed
  /\ pc \in PastCancelConsumer => "cancelConsumer" \in Held(deferred) \cup closed
  /\ pc \notin {"defers", "exited"} => closed = {}

LifeInv ==
  TypeOK /\ SetUp /\ Consuming /\ ReadyToConsume /\ Deferred /\ UsedIsOpen

\* The first state.
LEMMA LifeInit == Init => LifeInv
<1> SUFFICES ASSUME Init PROVE LifeInv
  OBVIOUS
<1>1. /\ deferred = <<"context">> /\ pc = "settings" /\ closed = {}
      /\ scan = "off" /\ cancel = "off" /\ redis = FALSE
  BY DEF Init
<1>2. deferred \in Seq(Resources) /\ Held(deferred) = {"context"} /\ InOrder(deferred)
  BY <1>1 DEF Resources, Held, InOrder
<1>3. TypeOK
  BY <1>1, <1>2 DEF Init, TypeOK, Stages
<1>4. SetUp /\ Consuming /\ ReadyToConsume /\ UsedIsOpen
  BY <1>1 DEF SetUp, Consuming, ReadyToConsume, UsedIsOpen, PastSettings,
     PastPublisher, PastPrefix, PastSigner, PastScanConsumer,
     PastCancelConsumer, PastHealth
<1>5. Deferred
  BY <1>1, <1>2 DEF Deferred, PastPublisher, PastPrefix, PastSigner,
     PastScanConsumer, PastCancelConsumer, PastHealth
<1> QED
  BY <1>3, <1>4, <1>5 DEF LifeInv

USE DEF PastSettings, PastPublisher, PastPrefix, PastSigner, PastScanConsumer,
        PastCancelConsumer, PastHealth

\* The process ends during the start-up, and nothing that was deferred runs.
LEMMA LifeFatal ==
  ASSUME LifeInv, NEW stage \in Stages \ {"scanning", "shutdown", "defers", "exited"},
         Fatal(stage),
         UNCHANGED <<config, ctx, closed, scanner, consumers, health>>
  PROVE  LifeInv'
<1>1. /\ pc = stage /\ pc' = "exited" /\ code' = 1
      /\ UNCHANGED <<config, ctx, deferred, closed, prefix, redis, signer, scan,
                     cancel, health>>
  BY DEF Fatal, Exit, scanner, consumers
<1>2. TypeOK'
  BY <1>1 DEF LifeInv, TypeOK, Stages
<1>3. Consuming' /\ ReadyToConsume' /\ SetUp'
  BY <1>1 DEF LifeInv, Consuming, ReadyToConsume, SettingsValid, SetUp
<1>4. Deferred' /\ UsedIsOpen'
  BY <1>1 DEF LifeInv, Deferred, UsedIsOpen
<1> QED
  BY <1>2, <1>3, <1>4 DEF LifeInv

\* The settings are checked before anything is opened.
LEMMA LifeSettings ==
  ASSUME LifeInv, CheckSettings
  PROVE  LifeInv'
<1>1. CASE Fatal("settings")
  BY <1>1, LifeFatal DEF CheckSettings, Stages
<1>2. CASE SettingsValid /\ Proceed("settings", "connection") /\ UNCHANGED deferred
  <2>1. /\ pc = "settings" /\ pc' = "connection" /\ SettingsValid
        /\ UNCHANGED <<config, ctx, deferred, closed, prefix, redis, signer, scan,
                       cancel, health, code>>
    BY <1>2 DEF CheckSettings, Proceed, scanner, consumers
  <2>2. TypeOK'
    BY <2>1 DEF LifeInv, TypeOK, Stages
  <2>3. SetUp' /\ Consuming' /\ ReadyToConsume'
    BY <2>1 DEF LifeInv, SetUp, Consuming, ReadyToConsume, SettingsValid
  <2>4. Deferred' /\ UsedIsOpen'
    BY <2>1 DEF LifeInv, Deferred, UsedIsOpen
  <2> QED
    BY <2>2, <2>3, <2>4 DEF LifeInv
<1> QED
  BY <1>1, <1>2 DEF CheckSettings

\* A constructor defers the closing of what it has opened: the connection first,
\* and what has a channel on it later.
LEMMA LifeConstruct ==
  ASSUME LifeInv, NEW resource, NEW next,
         <<resource, next>> \in
           {<<"connection", "publisher">>, <<"publisher", "redis">>,
            <<"scanConsumer", "cancelConsumer">>, <<"cancelConsumer", "health">>},
         Construct(resource, next)
  PROVE  LifeInv'
<1>1. \/ resource = "connection" /\ next = "publisher"
      \/ resource = "publisher" /\ next = "redis"
      \/ resource = "scanConsumer" /\ next = "cancelConsumer"
      \/ resource = "cancelConsumer" /\ next = "health"
  OBVIOUS
<1>2. CASE Fatal(resource)
  BY <1>1, <1>2, LifeFatal DEF Construct, Stages
<1>3. CASE Proceed(resource, next) /\ Defer(resource)
  <2>1. /\ pc = resource /\ pc' = next /\ deferred' = <<resource>> \o deferred
        /\ UNCHANGED <<config, ctx, closed, prefix, redis, signer, scan,
                       cancel, health, code>>
    BY <1>3 DEF Construct, Proceed, Defer, scanner, consumers
  <2>2. /\ resource \in Resources /\ deferred \in Seq(Resources) /\ InOrder(deferred)
        /\ resource = "connection" => Held(deferred) \subseteq {"context"}
        /\ resource = "publisher" => Held(deferred) \subseteq {"context", "connection"}
    BY <1>1, <2>1 DEF LifeInv, TypeOK, Resources, Deferred
  <2>3. /\ deferred' \in Seq(Resources)
        /\ Held(deferred') = {resource} \cup Held(deferred)
        /\ InOrder(deferred')
    <3>1. /\ resource = "connection" => Held(deferred) \cap Channels = {}
          /\ resource = "publisher" => "scanConsumer" \notin Held(deferred)
      BY <2>2 DEF Channels
    <3> QED
      BY <2>1, <2>2, <3>1, PushedCall
  <2>4. TypeOK'
    BY <1>1, <2>1, <2>3 DEF LifeInv, TypeOK, Stages
  <2>5. SetUp' /\ Consuming' /\ ReadyToConsume'
    BY <1>1, <2>1 DEF LifeInv, SetUp, Consuming, ReadyToConsume, SettingsValid
  <2>6. Deferred'
    <3>1. closed' = closed /\ closed = {}
      BY <1>1, <2>1 DEF LifeInv, Deferred
    <3>2. InOrder(deferred)' /\ Held(deferred)' = {resource} \cup Held(deferred)
      BY <2>3
    <3> QED
      BY <1>1, <2>1, <3>1, <3>2 DEF LifeInv, Deferred
  <2>7. UsedIsOpen'
    BY <2>1 DEF LifeInv, UsedIsOpen
  <2> QED
    BY <2>4, <2>5, <2>6, <2>7 DEF LifeInv
<1> QED
  BY <1>2, <1>3 DEF Construct

\* A Redis client comes with a configured address only.
LEMMA LifeRedis ==
  ASSUME LifeInv, ConnectRedis
  PROVE  LifeInv'
<1>1. /\ pc = "redis" /\ pc' = "prefix" /\ redis' \in BOOLEAN
      /\ redis' => config.redis = "configured"
      /\ deferred' \in {deferred, <<"redis">> \o deferred}
      /\ UNCHANGED <<config, ctx, closed, prefix, signer, scan, cancel, health, code>>
  BY DEF ConnectRedis, Proceed, Defer, consumers
<1>2. "redis" \in Resources /\ deferred \in Seq(Resources) /\ InOrder(deferred)
  BY DEF LifeInv, TypeOK, Resources, Deferred
<1>3. /\ deferred' \in Seq(Resources) /\ InOrder(deferred)'
      /\ Held(deferred) \subseteq Held(deferred)'
  BY <1>1, <1>2, PushedCall
<1>4. TypeOK'
  BY <1>1, <1>3 DEF LifeInv, TypeOK, Stages
<1>5. SetUp' /\ Consuming' /\ ReadyToConsume'
  BY <1>1 DEF LifeInv, SetUp, Consuming, ReadyToConsume, SettingsValid
<1>6. Deferred' /\ UsedIsOpen'
  BY <1>1, <1>3 DEF LifeInv, Deferred, UsedIsOpen
<1> QED
  BY <1>4, <1>5, <1>6 DEF LifeInv

\* The prefix the scanner gets ends in a separator.
LEMMA LifePrefix ==
  ASSUME LifeInv, ValidatePrefix
  PROVE  LifeInv'
<1>1. CASE Fatal("prefix")
  <2>1. UNCHANGED <<config, ctx, closed, scanner, consumers, health>>
    BY <1>1 DEF ValidatePrefix, Fatal, Exit, Proceed, scanner
  <2> QED
    BY <1>1, <2>1, LifeFatal DEF Stages
<1>2. CASE Proceed("prefix", "signer")
  <2>1. /\ pc = "prefix" /\ pc' = "signer" /\ prefix' = "absolute/"
        /\ UNCHANGED <<config, ctx, deferred, closed, redis, signer, scan, cancel,
                       health, code>>
    BY <1>2 DEF ValidatePrefix, Fatal, Exit, Proceed, Separated, consumers
  <2>2. TypeOK'
    BY <2>1 DEF LifeInv, TypeOK, Stages
  <2>3. SetUp' /\ Consuming' /\ ReadyToConsume'
    BY <2>1 DEF LifeInv, SetUp, Consuming, ReadyToConsume, SettingsValid
  <2>4. Deferred' /\ UsedIsOpen'
    BY <2>1 DEF LifeInv, Deferred, UsedIsOpen
  <2> QED
    BY <2>2, <2>3, <2>4 DEF LifeInv
<1> QED
  BY <1>1, <1>2 DEF ValidatePrefix

\* A key that is set gives a signer or ends the process.
LEMMA LifeSigner ==
  ASSUME LifeInv, InitSigner
  PROVE  LifeInv'
<1>1. CASE Fatal("signer")
  <2>1. UNCHANGED <<config, ctx, closed, scanner, consumers, health>>
    BY <1>1 DEF InitSigner, Fatal, Exit, Proceed, scanner
  <2> QED
    BY <1>1, <2>1, LifeFatal DEF Stages
<1>2. CASE Proceed("signer", "scanConsumer")
  <2>1. /\ pc = "signer" /\ pc' = "scanConsumer"
        /\ config.key \in {"none", "good"} /\ signer' = (config.key = "good")
        /\ UNCHANGED <<config, ctx, deferred, closed, prefix, redis, scan, cancel,
                       health, code>>
    BY <1>2 DEF InitSigner, BadKey, Fatal, Exit, Proceed, consumers
  <2>2. signer' \in BOOLEAN /\ (signer' <=> config.key # "none")
    BY <2>1
  <2>3. TypeOK'
    BY <2>1, <2>2 DEF LifeInv, TypeOK, Stages
  <2>4. SetUp'
    BY <2>1, <2>2 DEF LifeInv, SetUp, SettingsValid
  <2>5. scan # "running" /\ cancel # "running"
    BY <2>1 DEF LifeInv, Consuming
  <2>6. Consuming' /\ ReadyToConsume'
    BY <2>1, <2>5 DEF Consuming, ReadyToConsume
  <2>7. Deferred' /\ UsedIsOpen'
    BY <2>1 DEF LifeInv, Deferred, UsedIsOpen
  <2> QED
    BY <2>3, <2>4, <2>6, <2>7 DEF LifeInv
<1> QED
  BY <1>1, <1>2 DEF InitSigner, BadKey

\* The port is bound, or the process ends.
LEMMA LifeHealth ==
  ASSUME LifeInv, BindHealth
  PROVE  LifeInv'
<1>1. CASE Fatal("health")
  <2>1. UNCHANGED <<config, ctx, closed, scanner, consumers, health>>
    BY <1>1 DEF BindHealth, Fatal, Exit, Proceed
  <2> QED
    BY <1>1, <2>1, LifeFatal DEF Stages
<1>2. CASE Proceed("health", "consume")
  <2>1. /\ pc = "health" /\ pc' = "consume" /\ health' = "serving"
        /\ UNCHANGED <<config, ctx, deferred, closed, prefix, redis, signer, scan,
                       cancel, code>>
    BY <1>2 DEF BindHealth, Fatal, Exit, Proceed, scanner, consumers
  <2>2. TypeOK'
    BY <2>1 DEF LifeInv, TypeOK, Stages
  <2>3. SetUp' /\ Consuming' /\ ReadyToConsume'
    BY <2>1 DEF LifeInv, SetUp, Consuming, ReadyToConsume, SettingsValid
  <2>4. Deferred' /\ UsedIsOpen'
    BY <2>1 DEF LifeInv, Deferred, UsedIsOpen
  <2> QED
    BY <2>2, <2>3, <2>4 DEF LifeInv
<1> QED
  BY <1>1, <1>2 DEF BindHealth

\* The consumers start in a process that is set up.
LEMMA LifeConsume ==
  ASSUME LifeInv, Consume
  PROVE  LifeInv'
<1>1. /\ pc = "consume" /\ pc' = "scanning"
      /\ scan' = "running" /\ cancel' = "running"
      /\ UNCHANGED <<config, ctx, deferred, closed, prefix, redis, signer, health,
                     code>>
  BY DEF Consume, Proceed, scanner
<1>2. TypeOK'
  BY <1>1 DEF LifeInv, TypeOK, Stages
<1>3. SetUp' /\ Consuming'
  BY <1>1 DEF LifeInv, SetUp, Consuming, SettingsValid
<1>4. signer' = (config.key # "none")
  <2>1. signer \in BOOLEAN /\ (signer <=> config.key # "none")
    BY <1>1 DEF LifeInv, TypeOK, SetUp
  <2> QED
    BY <1>1, <2>1
<1>5. ReadyToConsume'
  BY <1>1, <1>4 DEF LifeInv, SetUp, ReadyToConsume, SettingsValid
<1>6. Deferred' /\ UsedIsOpen'
  BY <1>1 DEF LifeInv, Deferred, UsedIsOpen
<1> QED
  BY <1>2, <1>3, <1>5, <1>6 DEF LifeInv

\* Subscribe of the scan consumer returns, and with an error the process ends.
LEMMA LifeScanReturns ==
  ASSUME LifeInv, NEW err, ScanReturns(err)
  PROVE  LifeInv'
<1>1. /\ pc = "scanning" /\ pc' \in {"exited", "shutdown"} /\ scan' = "returned"
      /\ code' \in {1, code}
      /\ UNCHANGED <<config, ctx, deferred, closed, prefix, redis, signer, cancel,
                     health>>
  BY DEF ScanReturns, Exit, Proceed, scanner
<1>2. TypeOK'
  BY <1>1 DEF LifeInv, TypeOK, Stages
<1>3. SetUp' /\ Consuming'
  BY <1>1 DEF LifeInv, SetUp, Consuming, SettingsValid
<1>4. ReadyToConsume'
  BY <1>1 DEF LifeInv, ReadyToConsume, SettingsValid
<1>5. Deferred' /\ UsedIsOpen'
  BY <1>1 DEF LifeInv, Deferred, UsedIsOpen
<1> QED
  BY <1>2, <1>3, <1>4, <1>5 DEF LifeInv

\* What goes on beside main leaves what is set up alone.
LEMMA LifeBeside ==
  ASSUME LifeInv, CancelReturns \/ ServeFails \/ Signal \/ ShutdownHealth
  PROVE  LifeInv'
<1>1. /\ UNCHANGED <<config, deferred, closed, prefix, redis, signer, scan, code>>
      /\ pc' = pc \/ (pc = "shutdown" /\ pc' = "defers")
      /\ ctx' \in {ctx, TRUE}
      /\ cancel' \in {cancel, "returned"}
      /\ health' \in {health, "failed", "shut"}
  BY DEF CancelReturns, ServeFails, Signal, ShutdownHealth, Proceed, scanner, consumers
<1>2. TypeOK'
  <2>1. ctx' \in BOOLEAN
    BY <1>1 DEF LifeInv, TypeOK
  <2> QED
    BY <1>1, <2>1 DEF LifeInv, TypeOK, Stages
<1>3. SetUp' /\ Consuming'
  BY <1>1 DEF LifeInv, SetUp, Consuming, SettingsValid
<1>4. ReadyToConsume'
  BY <1>1 DEF LifeInv, ReadyToConsume, SettingsValid
<1>5. Deferred' /\ UsedIsOpen'
  BY <1>1 DEF LifeInv, Deferred, UsedIsOpen
<1> QED
  BY <1>2, <1>3, <1>4, <1>5 DEF LifeInv

\* The deferred calls run in the order that keeps the connection for the last.
LEMMA LifeDeferred ==
  ASSUME LifeInv, RunDeferred
  PROVE  LifeInv'
<1>1. /\ pc = "defers"
      /\ UNCHANGED <<config, prefix, redis, signer, scan, cancel, health>>
  BY DEF RunDeferred, scanner, consumers
<1>2. scan # "running"
  BY <1>1 DEF LifeInv, Consuming
<1>3. /\ deferred \in Seq(Resources) /\ InOrder(deferred)
      /\ Channels \subseteq Held(deferred) \cup closed
  BY <1>1 DEF LifeInv, TypeOK, Deferred, Channels
<1>4. CASE deferred = <<>>
  <2>1. pc' = "exited" /\ code' = 0 /\ UNCHANGED <<deferred, closed, ctx>>
    BY <1>4 DEF RunDeferred, Exit
  <2>2. TypeOK'
    BY <1>1, <2>1 DEF LifeInv, TypeOK, Stages
  <2>3. SetUp' /\ Consuming' /\ ReadyToConsume'
    BY <1>1, <2>1 DEF LifeInv, SetUp, Consuming, ReadyToConsume, SettingsValid
  <2>4. Deferred' /\ UsedIsOpen'
    BY <1>1, <2>1 DEF LifeInv, Deferred, UsedIsOpen
  <2> QED
    BY <2>2, <2>3, <2>4 DEF LifeInv
<1>5. CASE deferred # <<>>
  <2> DEFINE h == Head(deferred)
  <2>1. /\ closed' = closed \cup {h} /\ deferred' = Tail(deferred)
        /\ ctx' = (ctx \/ h = "context") /\ UNCHANGED <<pc, code>>
    BY <1>5 DEF RunDeferred
  <2>2. /\ h \in Resources /\ Tail(deferred) \in Seq(Resources)
        /\ Held(deferred) = {h} \cup Held(Tail(deferred))
        /\ InOrder(Tail(deferred))
        /\ h = "connection" => Held(Tail(deferred)) \cap Channels = {}
        /\ h = "publisher" => "scanConsumer" \notin Held(Tail(deferred))
    BY <1>3, <1>5, PoppedCall
  <2> HIDE DEF h
  <2>3. /\ deferred' \in Seq(Resources) /\ InOrder(deferred)'
        /\ Held(deferred) = {h} \cup Held(deferred)'
        /\ h = "connection" => Held(deferred)' \cap Channels = {}
        /\ h = "publisher" => "scanConsumer" \notin Held(deferred)'
    BY <2>1, <2>2
  <2>4. ctx' \in BOOLEAN
    BY <2>1
  <2>5. TypeOK'
    BY <1>1, <2>1, <2>2, <2>3, <2>4 DEF LifeInv, TypeOK
  <2>6. SetUp' /\ Consuming' /\ ReadyToConsume'
    BY <1>1, <2>1 DEF LifeInv, SetUp, Consuming, ReadyToConsume, SettingsValid
  <2>7. Deferred'
    BY <1>1, <2>1, <2>3 DEF LifeInv, Deferred
  <2>8. UsedIsOpen'
    <3>1. h = "connection" => Channels \subseteq closed'
      BY <1>3, <2>1, <2>3 DEF Channels
    <3>2. h = "publisher" => "scanConsumer" \in closed'
      BY <1>3, <2>1, <2>3 DEF Channels
    <3>3. closed \subseteq closed' /\ closed' \subseteq closed \cup {h}
      BY <2>1
    <3> QED
      BY <1>1, <1>2, <3>1, <3>2, <3>3 DEF LifeInv, UsedIsOpen, Channels
  <2> QED
    BY <2>5, <2>6, <2>7, <2>8 DEF LifeInv
<1> QED
  BY <1>4, <1>5

\* One step keeps the invariant.
LEMMA LifeStep == LifeInv /\ [Next]_vars => LifeInv'
<1> SUFFICES ASSUME LifeInv, [Next]_vars PROVE LifeInv'
  OBVIOUS
<1>1. ASSUME NewConnectionManager \/ NewPublisher \/ NewScanConsumer \/ NewCancelConsumer
      PROVE  LifeInv'
  BY <1>1, LifeConstruct
     DEF NewConnectionManager, NewPublisher, NewScanConsumer, NewCancelConsumer
<1>2. CASE ScanStops \/ ScanFails
  BY <1>2, LifeScanReturns DEF ScanStops, ScanFails
<1>3. CASE UNCHANGED vars
  BY <1>3 DEF vars, scanner, consumers, LifeInv, TypeOK, SetUp, Consuming,
     ReadyToConsume, SettingsValid, Deferred, UsedIsOpen
<1> QED
  BY <1>1, <1>2, <1>3, LifeSettings, LifeRedis, LifePrefix, LifeSigner, LifeHealth,
     LifeConsume, LifeBeside, LifeDeferred
     DEF Next, Main

\* The invariant holds in every reachable state.
LEMMA LifeInvariant == Spec => []LifeInv
BY LifeInit, LifeStep, PTL DEF Spec

-----------------------------------------------------------------------------
(***************************************************************************)
(* The properties.                                                         *)
(***************************************************************************)

\* Every variable of main has a value of its type: only resources are deferred
\* and closed, and the scanner's prefix is never one without its separator.
THEOREM TypeCorrect == Spec => []TypeOK
<1>1. LifeInv => TypeOK
  BY DEF LifeInv
<1> QED
  BY <1>1, LifeInvariant, PTL

\* No consumer runs before the process is set up as configured, not even one that
\* outlives main.
THEOREM ReadyToConsumeHolds == Spec => []ReadyToConsume
<1>1. LifeInv => ReadyToConsume
  BY DEF LifeInv
<1> QED
  BY <1>1, LifeInvariant, PTL

\* Nothing is closed while the scan consumer runs, the connection only after
\* everything that has a channel on it, and the publisher after the scan consumer.
THEOREM UsedIsOpenHolds == Spec => []UsedIsOpen
<1>1. LifeInv => UsedIsOpen
  BY DEF LifeInv
<1> QED
  BY <1>1, LifeInvariant, PTL

=============================================================================

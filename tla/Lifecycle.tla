----------------------------- MODULE Lifecycle -----------------------------
(***************************************************************************)
(* The process around the scanner: main in src/main.go, from the           *)
(* configuration through the start-up, stage by stage, to the two          *)
(* consumers, the signal and the way out.  log.Fatal and os.Exit end the   *)
(* process without running what was deferred.                              *)
(*                                                                         *)
(* What Subscribe, Listen, Serve and the connections do is external: each  *)
(* may fail at any time, and Subscribe returns when its context ends.      *)
(*                                                                         *)
(* A definition X_Y is X with the bug Y: no specification uses it, the     *)
(* mutation checks put it in the place of X.                               *)
(***************************************************************************)
EXTENDS Integers, Sequences

VARIABLES
  config,    \* what viper returns, as far as main tells it apart
  pc,        \* the stage main is at
  ctx,       \* the signal context is cancelled
  deferred,  \* the deferred calls, the last one first
  closed,    \* those that have run
  prefix,    \* the scanner's TempNFSPrefix
  redis,     \* it has a Redis client
  signer,    \* it has a signer
  scan,      \* the scan consumer's Subscribe
  cancel,    \* the cancel consumer's
  health,    \* the health server
  code       \* the exit status

scanner == <<prefix, redis, signer>>
consumers == <<scan, cancel>>
vars == <<config, pc, ctx, deferred, closed, scanner, consumers, health, code>>

Configs ==
  [password : BOOLEAN,
   scheme : {"amqp", "amqps", "other"},
   caFile : {"none", "unreadable", "empty", "valid"},
   redis : {"disabled", "no address", "configured"},
   prefix : {"empty", "relative", "absolute", "absolute/"},
   key : {"none", "garbled", "refused", "good"}]

Stages ==
  {"settings", "connection", "publisher", "redis", "prefix", "signer",
   "scanConsumer", "cancelConsumer", "health", "consume", "scanning",
   "shutdown", "defers", "exited"}

Resources ==
  {"context", "connection", "publisher", "redis", "scanConsumer",
   "cancelConsumer"}

TypeOK ==
  /\ config \in Configs
  /\ pc \in Stages
  /\ ctx \in BOOLEAN /\ redis \in BOOLEAN /\ signer \in BOOLEAN
  /\ deferred \in Seq(Resources) /\ closed \subseteq Resources
  /\ prefix \in {"none", "absolute/"}
  /\ scan \in {"off", "running", "returned"}
  /\ cancel \in {"off", "running", "returned"}
  /\ health \in {"off", "serving", "failed", "shut"}
  /\ code \in {-1, 0, 1}

Init ==
  /\ config \in Configs
  /\ pc = "settings"
  /\ ctx = FALSE /\ deferred = <<"context">> /\ closed = {}
  /\ prefix = "none" /\ redis = FALSE /\ signer = FALSE
  /\ scan = "off" /\ cancel = "off" /\ health = "off"
  /\ code = -1

-----------------------------------------------------------------------------
(* Start-up *)

Exit(status) == pc' = "exited" /\ code' = status /\ UNCHANGED deferred

Fatal(stage) == pc = stage /\ Exit(1)

Proceed(stage, next) == pc = stage /\ pc' = next /\ UNCHANGED code

Defer_Queue(resource) == deferred' = Append(deferred, resource)

Defer(resource) == deferred' = <<resource>> \o deferred

\* Password, scheme and CA file, which only amqps reads.
SettingsValid ==
  /\ config.password
  /\ config.scheme \in {"amqp", "amqps"}
  /\ config.scheme = "amqps" => config.caFile \in {"none", "valid"}

CheckSettings ==
  /\ \/ SettingsValid /\ Proceed("settings", "connection") /\ UNCHANGED deferred
     \/ ~SettingsValid /\ Fatal("settings")
  /\ UNCHANGED <<config, ctx, closed, scanner, consumers, health>>

\* A constructor that may fail: the connection, the publisher, a consumer.
Construct(resource, next) ==
  /\ \/ Proceed(resource, next) /\ Defer(resource)
     \/ Fatal(resource)
  /\ UNCHANGED <<config, ctx, closed, scanner, consumers, health>>

NewConnectionManager == Construct("connection", "publisher")
NewPublisher == Construct("publisher", "redis")
NewScanConsumer == Construct("scanConsumer", "cancelConsumer")
NewCancelConsumer == Construct("cancelConsumer", "health")

\* Redis is optional: no address or no answer to the Ping, whose context is the
\* signal's, means no client.
ConnectRedis ==
  /\ Proceed("redis", "prefix")
  /\ \/ redis' = FALSE /\ UNCHANGED deferred
     \/ /\ config.redis = "configured" /\ ~ctx
        /\ redis' = TRUE
        /\ Defer("redis")
  /\ UNCHANGED <<config, ctx, closed, prefix, signer, consumers, health>>

Separated_Missing == config.prefix

\* With its separator, which is added before the prefix is tested.
Separated == "absolute/"

ValidatePrefix ==
  /\ \/ /\ config.prefix \in {"absolute", "absolute/"}
        /\ Proceed("prefix", "signer")
        /\ prefix' = Separated
        /\ UNCHANGED deferred
     \/ /\ config.prefix \in {"empty", "relative"}
        /\ Fatal("prefix")
        /\ UNCHANGED prefix
  /\ UNCHANGED <<config, ctx, closed, redis, signer, consumers, health>>

BadKey_Ignored == Proceed("signer", "scanConsumer") /\ UNCHANGED deferred

\* A key that is not base64 or that NewSigner refuses: not 32 bytes, or no id.
BadKey == Fatal("signer")

\* A key that is set must be good; without one results go out unsigned.
\* StartCleanup follows.
InitSigner ==
  /\ \/ /\ config.key \in {"none", "good"}
        /\ Proceed("signer", "scanConsumer")
        /\ signer' = (config.key = "good")
        /\ UNCHANGED deferred
     \/ /\ config.key \in {"garbled", "refused"}
        /\ BadKey
        /\ UNCHANGED signer
  /\ UNCHANGED <<config, ctx, closed, prefix, redis, consumers, health>>

\* The port is bound before anything is consumed.
BindHealth ==
  /\ \/ Proceed("health", "consume") /\ health' = "serving" /\ UNCHANGED deferred
     \/ Fatal("health") /\ UNCHANGED health
  /\ UNCHANGED <<config, ctx, closed, scanner, consumers>>

-----------------------------------------------------------------------------
(* Consuming and stopping *)

\* The cancel consumer in a goroutine of its own, the scan consumer in main's.
Consume ==
  /\ Proceed("consume", "scanning")
  /\ scan' = "running" /\ cancel' = "running"
  /\ UNCHANGED <<config, ctx, deferred, closed, scanner, health>>

\* Subscribe of the cancel consumer returns, for the context, for an error or
\* because the consumer was closed.  That is logged at most: the process goes on.
CancelReturns ==
  /\ cancel = "running" /\ pc # "exited"
  /\ cancel' = "returned"
  /\ UNCHANGED <<config, pc, ctx, deferred, closed, scanner, scan, health, code>>

Unexpected_Always(err) == err

\* err != nil && ctx.Err() == nil
Unexpected(err) == err /\ ~ctx

\* Subscribe of the scan consumer returns.
ScanReturns(err) ==
  /\ pc = "scanning"
  /\ scan' = "returned"
  /\ \/ Unexpected(err) /\ Exit(1)
     \/ ~Unexpected(err) /\ Proceed("scanning", "shutdown") /\ UNCHANGED deferred
  /\ UNCHANGED <<config, ctx, closed, scanner, cancel, health>>

\* Both consumers get the context of the signal.
Subscribed_Background == FALSE
Subscribed == ctx

ScanStops == Subscribed /\ \E err \in BOOLEAN : ScanReturns(err)

ScanFails == ~Subscribed /\ \E err \in BOOLEAN : ScanReturns(err)

\* Serve ends for any other reason than Shutdown: logged.
ServeFails ==
  /\ health = "serving" /\ pc # "exited"
  /\ health' = "failed"
  /\ UNCHANGED <<config, pc, ctx, deferred, closed, scanner, consumers, code>>

\* It waits for nothing but open probes, five seconds at most.
ShutdownHealth ==
  /\ Proceed("shutdown", "defers")
  /\ health' = "shut"
  /\ UNCHANGED <<config, ctx, deferred, closed, scanner, consumers>>

\* main returns: the deferred calls run, and then the process is over.
RunDeferred ==
  /\ pc = "defers"
  /\ \/ /\ deferred # <<>>
        /\ closed' = closed \cup {Head(deferred)}
        /\ deferred' = Tail(deferred)
        /\ ctx' = (ctx \/ Head(deferred) = "context")
        /\ UNCHANGED <<pc, code>>
     \/ /\ deferred = <<>>
        /\ Exit(0)
        /\ UNCHANGED <<closed, ctx>>
  /\ UNCHANGED <<config, scanner, consumers, health>>

\* SIGINT, SIGTERM or SIGQUIT.
Signal ==
  /\ ~ctx /\ pc # "exited"
  /\ ctx' = TRUE
  /\ UNCHANGED <<config, pc, deferred, closed, scanner, consumers, health, code>>

-----------------------------------------------------------------------------

Main ==
  \/ CheckSettings \/ NewConnectionManager \/ NewPublisher \/ ConnectRedis
  \/ ValidatePrefix \/ InitSigner \/ NewScanConsumer \/ NewCancelConsumer
  \/ BindHealth \/ Consume \/ ShutdownHealth \/ RunDeferred

Next == Main \/ ScanStops \/ ScanFails \/ CancelReturns \/ ServeFails \/ Signal

Spec == Init /\ [][Next]_vars

\* main runs on, and Subscribe returns once its context is cancelled.
FairSpec == Spec /\ WF_vars(Main) /\ WF_vars(ScanStops)

-----------------------------------------------------------------------------
(* Properties *)

\* A consumer runs only in a process that is set up as configured: it signs if a
\* key is set, guards an absolute prefix with its separator, and answers probes
\* or has tried to.
ReadyToConsume ==
  "running" \in {scan, cancel} =>
    /\ SettingsValid
    /\ signer = (config.key # "none")
    /\ prefix = "absolute/"
    /\ redis => config.redis = "configured"
    /\ health # "off"

\* What a handler uses is not closed under it: nothing while the scan consumer
\* runs, and the connection after everything that has a channel on it.
UsedIsOpen ==
  /\ scan = "running" => closed = {}
  /\ "connection" \in closed =>
       {"publisher", "scanConsumer", "cancelConsumer"} \subseteq closed
  /\ "publisher" \in closed => "scanConsumer" \in closed

\* A signal ends the process in every stage of its life.
SignalEndsProcess == ctx ~> (pc = "exited")

\* A signal while scanning ends it in order: status zero, everything closed and
\* the health server gone.
SignalEndsInOrder ==
  (pc = "scanning" /\ ctx)
    ~> /\ code = 0
       /\ health = "shut"
       /\ Resources \ closed = {r \in {"redis"} : ~redis}

=============================================================================

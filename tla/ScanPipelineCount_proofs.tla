---------------------- MODULE ScanPipelineCount_proofs ----------------------
(***************************************************************************)
(* Duplicates are paid for by faults.  Everything that can still lead to a *)
(* terminal message about a file (a queued copy, a delayed copy, a running *)
(* handler) and every terminal message already published is a token in one *)
(* set.  A step of the code trades one token for another or gives one up;  *)
(* only a fault adds one.  So the set never has more than 1 + faults       *)
(* members, whatever the number of replicas.  ScanStarted events are       *)
(* counted the same way, among deliveries without retries.                 *)
(***************************************************************************)
EXTENDS ScanPipeline_proofs, FiniteSetTheorems

-----------------------------------------------------------------------------
(* Budgets *)

Budget(T, n) == IsFiniteSet(T) /\ Cardinality(T) <= n

\* A part of a set is within the set's budget.
LEMMA BudgetShrink ==
  ASSUME NEW T, NEW n \in Nat, NEW m \in Nat, n <= m, Budget(T, n),
         NEW S, S \subseteq T
  PROVE  Budget(S, m)
<1>1. IsFiniteSet(S) /\ Cardinality(S) <= Cardinality(T)
  BY FS_Subset DEF Budget
<1>2. Cardinality(S) \in Nat /\ Cardinality(T) \in Nat
  BY <1>1, FS_CardinalityType DEF Budget
<1> QED
  BY <1>1, <1>2 DEF Budget

\* One more member needs one more in the budget.
LEMMA BudgetGrow ==
  ASSUME NEW T, NEW n \in Nat, Budget(T, n), NEW b, NEW S, S \subseteq T \cup {b}
  PROVE  Budget(S, n + 1)
<1>1. IsFiniteSet(T \cup {b}) /\ Cardinality(T \cup {b}) <= Cardinality(T) + 1
  <2>1. /\ IsFiniteSet(T \cup {b})
        /\ Cardinality(T \cup {b}) =
             IF b \in T THEN Cardinality(T) ELSE Cardinality(T) + 1
    BY FS_AddElement DEF Budget
  <2>2. Cardinality(T) \in Nat
    BY FS_CardinalityType DEF Budget
  <2> QED
    BY <2>1, <2>2
<1>2. Cardinality(T) \in Nat /\ Cardinality(T \cup {b}) \in Nat
  BY <1>1, FS_CardinalityType DEF Budget
<1>3. Budget(T \cup {b}, n + 1)
  BY <1>1, <1>2 DEF Budget
<1> QED
  BY <1>3, BudgetShrink

\* Trading one member for another needs nothing.
LEMMA BudgetSwap ==
  ASSUME NEW T, NEW n \in Nat, NEW m \in Nat, n <= m, Budget(T, n),
         NEW a \in T, NEW b, NEW S, S \subseteq (T \ {a}) \cup {b}
  PROVE  Budget(S, m)
<1>1. IsFiniteSet(T \ {a}) /\ Cardinality(T \ {a}) = Cardinality(T) - 1
  BY FS_RemoveElement DEF Budget
<1>2. Cardinality(T) \in Nat /\ Cardinality(T \ {a}) \in Nat
  BY <1>1, FS_CardinalityType DEF Budget
<1>3. n - 1 \in Nat /\ Budget(T \ {a}, n - 1)
  BY <1>1, <1>2 DEF Budget
<1>4. Budget((T \ {a}) \cup {b}, (n - 1) + 1)
  BY <1>3, BudgetGrow
<1>5. Budget((T \ {a}) \cup {b}, n)
  BY <1>4
<1> QED
  BY <1>5, BudgetShrink

\* S has at most one member that T has not, in exchange for one it lost; or, for
\* a gain, at no exchange.
Trade(T, S) == S \subseteq T \/ \E a \in T : \E b : S \subseteq (T \ {a}) \cup {b}
Gain(T, S) == \E b : S \subseteq T \cup {b}

\* A trade stays within the budget.
LEMMA BudgetTrade ==
  ASSUME NEW T, NEW S, NEW n \in Nat, NEW m \in Nat, n <= m, Budget(T, n),
         Trade(T, S)
  PROVE  Budget(S, m)
<1>1. CASE S \subseteq T
  BY <1>1, BudgetShrink
<1>2. CASE \E a \in T : \E b : S \subseteq (T \ {a}) \cup {b}
  <2>0. PICK a \in T : \E b : S \subseteq (T \ {a}) \cup {b}
    BY <1>2
  <2>1. PICK b : S \subseteq (T \ {a}) \cup {b}
    BY <2>0
  <2> QED
    BY <2>1, BudgetSwap
<1> QED
  BY <1>1, <1>2 DEF Trade

\* A gain costs one.
LEMMA BudgetGain ==
  ASSUME NEW T, NEW S, NEW n \in Nat, Budget(T, n), Gain(T, S)
  PROVE  Budget(S, n + 1)
<1>1. PICK b : S \subseteq T \cup {b}
  BY DEF Gain
<1> QED
  BY <1>1, BudgetGrow

\* What is true of a part is true of the whole, if the rest does not grow and no
\* member is in both.
LEMMA TradeWithin ==
  ASSUME NEW T, NEW S, Trade(T, S), NEW P, NEW R, R \subseteq P,
         \A t \in T : t \notin P
  PROVE  Trade(T \cup P, S \cup R)
<1>1. CASE S \subseteq T
  BY <1>1 DEF Trade
<1>2. CASE \E a \in T : \E b : S \subseteq (T \ {a}) \cup {b}
  <2>0. PICK a \in T : \E b : S \subseteq (T \ {a}) \cup {b}
    BY <1>2
  <2>1. PICK b : S \subseteq (T \ {a}) \cup {b}
    BY <2>0
  <2>2. S \cup R \subseteq ((T \cup P) \ {a}) \cup {b}
    BY <2>1
  <2> QED
    BY <2>2 DEF Trade
<1> QED
  BY <1>1, <1>2 DEF Trade

\* The same for a gain.
LEMMA GainWithin ==
  ASSUME NEW T, NEW S, Gain(T, S), NEW P, NEW R, R \subseteq P
  PROVE  Gain(T \cup P, S \cup R)
  BY DEF Gain

\* A member of one part traded for one of the other.
LEMMA TradeAcross ==
  ASSUME NEW T, NEW a \in T, NEW S, S \subseteq T \ {a}, NEW P, a \notin P,
         NEW R, Gain(P, R)
  PROVE  Trade(T \cup P, S \cup R)
<1>1. PICK b : R \subseteq P \cup {b}
  BY DEF Gain
<1>2. S \cup R \subseteq ((T \cup P) \ {a}) \cup {b}
  BY <1>1
<1> QED
  BY <1>2 DEF Trade

-----------------------------------------------------------------------------
(* Tokens *)

\* g[d] tokens of a kind for every d.
Stock(kind, D, g) == {t \in {kind} \X D \X Nat : t[3] < g[t[2]]}

\* One more at d adds a token.
LEMMA StockUp ==
  ASSUME NEW kind, NEW D, NEW g, NEW h, NEW d \in D,
         \A e \in D : g[e] \in Nat /\ h[e] \in Nat,
         \A e \in D \ {d} : h[e] = g[e], h[d] = g[d] + 1
  PROVE  Stock(kind, D, h) \subseteq Stock(kind, D, g) \cup {<<kind, d, g[d]>>}
<1> SUFFICES ASSUME NEW t \in Stock(kind, D, h), t \notin Stock(kind, D, g)
             PROVE  t = <<kind, d, g[d]>>
  OBVIOUS
<1>1. PICK e \in D, i \in Nat : t = <<kind, e, i>> /\ i < h[e] /\ ~(i < g[e])
  BY DEF Stock
<1>2. e = d
  BY <1>1
<1> QED
  BY <1>1, <1>2

\* One less takes one away.
LEMMA StockDown ==
  ASSUME NEW kind, NEW D, NEW g, NEW h, NEW d \in D,
         \A e \in D : g[e] \in Nat /\ h[e] \in Nat,
         \A e \in D \ {d} : h[e] = g[e], h[d] = g[d] - 1
  PROVE  /\ <<kind, d, g[d] - 1>> \in Stock(kind, D, g)
         /\ Stock(kind, D, h) \subseteq Stock(kind, D, g) \ {<<kind, d, g[d] - 1>>}
<1>1. g[d] - 1 \in Nat /\ g[d] - 1 < g[d]
  BY DEF Stock
<1>2. <<kind, d, g[d] - 1>> \in Stock(kind, D, g)
  BY <1>1 DEF Stock
<1>3. ASSUME NEW t \in Stock(kind, D, h)
      PROVE  t \in Stock(kind, D, g) /\ t # <<kind, d, g[d] - 1>>
  <2>1. PICK e \in D, i \in Nat : t = <<kind, e, i>> /\ i < h[e]
    BY <1>3 DEF Stock
  <2>2. h[e] <= g[e]
    BY <2>1
  <2>3. i < g[e]
    BY <2>1, <2>2
  <2>4. t \in Stock(kind, D, g)
    BY <2>1, <2>3 DEF Stock
  <2> QED
    BY <2>1, <2>4
<1> QED
  BY <1>2, <1>3

\* Stocks are the same when the numbers are.
LEMMA StockSame ==
  ASSUME NEW kind, NEW D, NEW g, NEW h, \A e \in D : h[e] = g[e]
  PROVE  Stock(kind, D, h) = Stock(kind, D, g)
  BY DEF Stock

\* The token of a running handler.
Mark(w) == <<"handler", w, 0>>

\* Handlers of the file at these stages, for deliveries with these counts.
Handlers(f, Lvs, Sts) ==
  {Mark(w) : w \in {v \in Replicas :
                     file[v] = f /\ level[v] \in Lvs /\ pc[v] \in Sts}}

\* What may still publish: copies with the broker, and handlers.
Pending(f, Lvs, Sts) ==
  Stock("queue", Lvs, queue[f]) \cup Stock("delayed", Lvs, delayed[f])
    \cup Handlers(f, Lvs, Sts)

\* A token is published or pending, not both.
LEMMA PendingApart ==
  ASSUME NEW f, NEW Lvs, NEW Sts, NEW t \in Pending(f, Lvs, Sts), NEW K, NEW g
  PROVE  t \notin Stock("published", K, g)
  BY DEF Pending, Stock, Handlers, Mark

\* A replica's move from one stage to another.
LEMMA HandlersGoto ==
  ASSUME TypeOK, NEW w \in Replicas, NEW stage \in Stages, Goto(w, stage),
         UNCHANGED <<file, level>>, NEW f \in Files, NEW Lvs, NEW Sts
  PROVE  /\ Handlers(f, Lvs, Sts)' \subseteq Handlers(f, Lvs, Sts) \cup {Mark(w)}
         /\ stage \notin Sts =>
              Handlers(f, Lvs, Sts)' \subseteq Handlers(f, Lvs, Sts) \ {Mark(w)}
         /\ (stage \in Sts => pc[w] \in Sts) =>
              Handlers(f, Lvs, Sts)' \subseteq Handlers(f, Lvs, Sts)
<1>1. \A v \in Replicas : pc'[v] = IF v = w THEN stage ELSE pc[v]
  BY GotoType
<1> QED
  BY <1>1 DEF Handlers, Mark

\* A replica becomes idle.
LEMMA HandlersIdle ==
  ASSUME TypeOK, NEW w \in Replicas, Idle(w), NEW f \in Files, NEW Lvs, NEW Sts,
         "idle" \notin Sts
  PROVE  Handlers(f, Lvs, Sts)' \subseteq Handlers(f, Lvs, Sts) \ {Mark(w)}
<1>1. /\ \A v \in Replicas : pc'[v] = IF v = w THEN "idle" ELSE pc[v]
      /\ \A v \in Replicas \ {w} : file'[v] = file[v] /\ level'[v] = level[v]
  BY IdleElsewhere
<1> QED
  BY <1>1 DEF Handlers, Mark

\* An idle replica takes a delivery.
LEMMA HandlersReceive ==
  ASSUME TypeOK, NEW w \in Replicas, NEW f \in Files, NEW n \in Levels,
         Receive(w, f, n), NEW g \in Files, NEW Lvs, NEW Sts, "idle" \notin Sts
  PROVE  /\ Handlers(g, Lvs, Sts)' \subseteq Handlers(g, Lvs, Sts) \cup {Mark(w)}
         /\ g # f \/ n \notin Lvs =>
              Handlers(g, Lvs, Sts)' \subseteq Handlers(g, Lvs, Sts)
<1>1. PICK stage \in {"ack", "precheck"} : Goto(w, stage)
  BY DEF Receive
<1>2. \A v \in Replicas : pc'[v] = IF v = w THEN stage ELSE pc[v]
  BY <1>1, GotoType DEF Stages
<1>3. /\ \A v \in Replicas \ {w} : file'[v] = file[v] /\ level'[v] = level[v]
      /\ file'[w] = f /\ level'[w] = n
  <2>1. /\ file' = [file EXCEPT ![w] = f] /\ level' = [level EXCEPT ![w] = n]
        /\ file \in [Replicas -> Files] /\ level \in [Replicas -> Levels]
    BY DEF Receive, TypeOK
  <2> QED
    BY <2>1
<1> QED
  BY <1>2, <1>3 DEF Handlers, Mark

\* The same for all that is pending.
LEMMA PendingGoto ==
  ASSUME TypeOK, NEW w \in Replicas, NEW stage \in Stages, Goto(w, stage),
         UNCHANGED <<queue, delayed, file, level>>, NEW f \in Files,
         NEW Lvs, NEW Sts
  PROVE  /\ Gain(Pending(f, Lvs, Sts), Pending(f, Lvs, Sts)')
         /\ stage \notin Sts =>
              Pending(f, Lvs, Sts)' \subseteq Pending(f, Lvs, Sts) \ {Mark(w)}
         /\ (stage \in Sts => pc[w] \in Sts) =>
              Pending(f, Lvs, Sts)' \subseteq Pending(f, Lvs, Sts)
<1>1. /\ Handlers(f, Lvs, Sts)' \subseteq Handlers(f, Lvs, Sts) \cup {Mark(w)}
      /\ stage \notin Sts =>
           Handlers(f, Lvs, Sts)' \subseteq Handlers(f, Lvs, Sts) \ {Mark(w)}
      /\ (stage \in Sts => pc[w] \in Sts) =>
           Handlers(f, Lvs, Sts)' \subseteq Handlers(f, Lvs, Sts)
  BY HandlersGoto
<1>2. /\ Stock("queue", Lvs, queue[f])' = Stock("queue", Lvs, queue[f])
      /\ Stock("delayed", Lvs, delayed[f])' = Stock("delayed", Lvs, delayed[f])
  BY DEF Stock
<1>3. Mark(w) \notin Stock("queue", Lvs, queue[f]) \cup Stock("delayed", Lvs, delayed[f])
  BY DEF Mark, Stock
<1> QED
  BY <1>1, <1>2, <1>3 DEF Pending, Gain

\* A delivery is a queued copy traded for a handler.
LEMMA PendingReceive ==
  ASSUME TypeOK, TypeOK', NEW w \in Replicas, NEW f \in Files, NEW n \in Levels,
         Receive(w, f, n), NEW g \in Files, NEW Lvs \in SUBSET Levels, NEW Sts,
         "idle" \notin Sts
  PROVE  Trade(Pending(g, Lvs, Sts), Pending(g, Lvs, Sts)')
<1>1. /\ UNCHANGED delayed
      /\ queue' = [queue EXCEPT ![f][n] = queue[f][n] - 1]
  BY DEF Receive
<1>2. /\ queue \in [Files -> [Levels -> Nat]]
      /\ queue' \in [Files -> [Levels -> Nat]]
  BY DEF TypeOK
<1>3. Stock("delayed", Lvs, delayed[g])' = Stock("delayed", Lvs, delayed[g])
  BY <1>1 DEF Stock
<1>4. CASE g # f \/ n \notin Lvs
  <2>1. \A m \in Lvs : queue'[g][m] = queue[g][m]
    BY <1>1, <1>2, <1>4
  <2>2. Stock("queue", Lvs, queue'[g]) = Stock("queue", Lvs, queue[g])
    BY <2>1, StockSame
  <2>3. Handlers(g, Lvs, Sts)' \subseteq Handlers(g, Lvs, Sts)
    BY <1>4, HandlersReceive
  <2> QED
    BY <1>3, <2>2, <2>3 DEF Pending, Trade
<1>5. CASE g = f /\ n \in Lvs
  <2> DEFINE q == <<"queue", n, queue[f][n] - 1>>
  <2>1. /\ q \in Stock("queue", Lvs, queue[f])
        /\ Stock("queue", Lvs, queue'[f]) \subseteq Stock("queue", Lvs, queue[f]) \ {q}
    <3>1. /\ \A m \in Lvs : queue[f][m] \in Nat /\ queue'[f][m] \in Nat
          /\ \A m \in Lvs \ {n} : queue'[f][m] = queue[f][m]
          /\ queue'[f][n] = queue[f][n] - 1
      BY <1>1, <1>2, <1>5
    <3> QED
      BY <1>5, <3>1, StockDown
  <2>2. Handlers(f, Lvs, Sts)' \subseteq Handlers(f, Lvs, Sts) \cup {Mark(w)}
    BY HandlersReceive
  <2>3. q \notin Stock("delayed", Lvs, delayed[f]) \cup Handlers(f, Lvs, Sts)
    BY DEF Stock, Handlers, Mark
  <2>4. q \in Pending(f, Lvs, Sts)
    BY <2>1 DEF Pending
  <2>5. Pending(f, Lvs, Sts)' \subseteq (Pending(f, Lvs, Sts) \ {q}) \cup {Mark(w)}
    BY <1>3, <1>5, <2>1, <2>2, <2>3 DEF Pending
  <2> QED
    BY <1>5, <2>4, <2>5 DEF Trade
<1> QED
  BY <1>4, <1>5

\* What the broker puts back is one queued copy.
LEMMA QueueReturn ==
  ASSUME TypeOK, TypeOK', NEW w \in Replicas, Requeue(w), NEW f \in Files,
         NEW Lvs \in SUBSET Levels
  PROVE  /\ Gain(Stock("queue", Lvs, queue[f]), Stock("queue", Lvs, queue[f])')
         /\ f # file[w] \/ level[w] \notin Lvs \/ ~held[w] =>
              Stock("queue", Lvs, queue[f])' = Stock("queue", Lvs, queue[f])
<1>1. /\ queue \in [Files -> [Levels -> Nat]]
      /\ queue' \in [Files -> [Levels -> Nat]]
      /\ file[w] \in Files /\ level[w] \in Levels
  BY DEF TypeOK
<1>2. CASE f # file[w] \/ level[w] \notin Lvs \/ ~held[w]
  <2>1. \A m \in Lvs : queue'[f][m] = queue[f][m]
    BY <1>1, <1>2 DEF Requeue
  <2>2. Stock("queue", Lvs, queue'[f]) = Stock("queue", Lvs, queue[f])
    BY <2>1, StockSame
  <2> QED
    BY <2>2 DEF Gain
<1>3. CASE f = file[w] /\ level[w] \in Lvs /\ held[w]
  <2>1. /\ \A m \in Lvs : queue[f][m] \in Nat /\ queue'[f][m] \in Nat
        /\ \A m \in Lvs \ {level[w]} : queue'[f][m] = queue[f][m]
        /\ queue'[f][level[w]] = queue[f][level[w]] + 1
    BY <1>1, <1>3 DEF Requeue
  <2>2. Stock("queue", Lvs, queue'[f]) \subseteq
          Stock("queue", Lvs, queue[f])
            \cup {<<"queue", level[w], queue[f][level[w]]>>}
    BY <1>3, <2>1, StockUp
  <2> QED
    BY <1>3, <2>2 DEF Gain
<1> QED
  BY <1>2, <1>3

\* A requeue settles the delivery: the handler is traded for the copy.
LEMMA PendingNack ==
  ASSUME TypeOK, TypeOK', NEW w \in Replicas, Requeue(w), Idle(w),
         UNCHANGED delayed, NEW f \in Files, NEW Lvs \in SUBSET Levels, NEW Sts,
         "idle" \notin Sts, pc[w] \in Sts
  PROVE  Trade(Pending(f, Lvs, Sts), Pending(f, Lvs, Sts)')
<1>1. Handlers(f, Lvs, Sts)' \subseteq Handlers(f, Lvs, Sts) \ {Mark(w)}
  BY HandlersIdle
<1>2. Stock("delayed", Lvs, delayed[f])' = Stock("delayed", Lvs, delayed[f])
  BY DEF Stock
<1>3. CASE f # file[w] \/ level[w] \notin Lvs
  <2>1. Stock("queue", Lvs, queue[f])' = Stock("queue", Lvs, queue[f])
    BY <1>3, QueueReturn
  <2> QED
    BY <1>1, <1>2, <2>1 DEF Pending, Trade
<1>4. CASE f = file[w] /\ level[w] \in Lvs
  <2>1. PICK b : Stock("queue", Lvs, queue[f])' \subseteq
                   Stock("queue", Lvs, queue[f]) \cup {b}
    BY QueueReturn DEF Gain
  <2>2. Mark(w) \in Pending(f, Lvs, Sts)
    BY <1>4 DEF Pending, Handlers
  <2>3. Mark(w) \notin Stock("queue", Lvs, queue[f]) \cup Stock("delayed", Lvs, delayed[f])
    BY DEF Mark, Stock
  <2>4. Pending(f, Lvs, Sts)' \subseteq (Pending(f, Lvs, Sts) \ {Mark(w)}) \cup {b}
    BY <1>1, <1>2, <2>1, <2>3 DEF Pending
  <2> QED
    BY <2>2, <2>4 DEF Trade
<1> QED
  BY <1>3, <1>4

\* A crash or a lost connection may add a copy.
LEMMA PendingLost ==
  ASSUME TypeOK, TypeOK', NEW w \in Replicas, Requeue(w), UNCHANGED delayed,
         NEW f \in Files, NEW Lvs \in SUBSET Levels, NEW Sts,
         Handlers(f, Lvs, Sts)' \subseteq Handlers(f, Lvs, Sts)
  PROVE  Gain(Pending(f, Lvs, Sts), Pending(f, Lvs, Sts)')
<1>1. PICK b : Stock("queue", Lvs, queue[f])' \subseteq
                 Stock("queue", Lvs, queue[f]) \cup {b}
  BY QueueReturn DEF Gain
<1>2. Stock("delayed", Lvs, delayed[f])' = Stock("delayed", Lvs, delayed[f])
  BY DEF Stock
<1>3. Pending(f, Lvs, Sts)' \subseteq Pending(f, Lvs, Sts) \cup {b}
  BY <1>1, <1>2 DEF Pending
<1> QED
  BY <1>3 DEF Gain

\* The end of a retry delay trades a delayed copy for a queued one.
LEMMA PendingDue ==
  ASSUME TypeOK, TypeOK', NEW f \in Files, NEW n \in Levels, RetryDue(f, n),
         NEW g \in Files, NEW Lvs \in SUBSET Levels, NEW Sts
  PROVE  Trade(Pending(g, Lvs, Sts), Pending(g, Lvs, Sts)')
<1>1. /\ UNCHANGED <<pc, file, level>>
      /\ delayed' = [delayed EXCEPT ![f][n] = delayed[f][n] - 1]
      /\ queue' = [queue EXCEPT ![f][n] = queue[f][n] + 1]
  BY DEF RetryDue, delivery
<1>2. /\ queue \in [Files -> [Levels -> Nat]]
      /\ queue' \in [Files -> [Levels -> Nat]]
      /\ delayed \in [Files -> [Levels -> Nat]]
      /\ delayed' \in [Files -> [Levels -> Nat]]
  BY DEF TypeOK
<1>3. Handlers(g, Lvs, Sts)' = Handlers(g, Lvs, Sts)
  BY <1>1 DEF Handlers
<1>4. CASE g # f \/ n \notin Lvs
  <2>1. \A m \in Lvs : queue'[g][m] = queue[g][m] /\ delayed'[g][m] = delayed[g][m]
    BY <1>1, <1>2, <1>4
  <2>2. /\ Stock("queue", Lvs, queue'[g]) = Stock("queue", Lvs, queue[g])
        /\ Stock("delayed", Lvs, delayed'[g]) = Stock("delayed", Lvs, delayed[g])
    BY <2>1, StockSame
  <2> QED
    BY <1>3, <2>2 DEF Pending, Trade
<1>5. CASE g = f /\ n \in Lvs
  <2> DEFINE d == <<"delayed", n, delayed[f][n] - 1>>
             q == <<"queue", n, queue[f][n]>>
  <2>1. /\ \A m \in Lvs : queue[f][m] \in Nat /\ queue'[f][m] \in Nat
        /\ \A m \in Lvs : delayed[f][m] \in Nat /\ delayed'[f][m] \in Nat
        /\ \A m \in Lvs \ {n} : queue'[f][m] = queue[f][m]
        /\ \A m \in Lvs \ {n} : delayed'[f][m] = delayed[f][m]
        /\ queue'[f][n] = queue[f][n] + 1 /\ delayed'[f][n] = delayed[f][n] - 1
    BY <1>1, <1>2, <1>5
  <2>2. Stock("queue", Lvs, queue'[f]) \subseteq Stock("queue", Lvs, queue[f]) \cup {q}
    BY <1>5, <2>1, StockUp
  <2>3. /\ d \in Stock("delayed", Lvs, delayed[f])
        /\ Stock("delayed", Lvs, delayed'[f]) \subseteq
             Stock("delayed", Lvs, delayed[f]) \ {d}
    BY <1>5, <2>1, StockDown
  <2>4. d \notin Stock("queue", Lvs, queue[f]) \cup Handlers(f, Lvs, Sts)
    BY DEF Stock, Handlers, Mark
  <2>5. d \in Pending(f, Lvs, Sts)
    BY <2>3 DEF Pending
  <2>6. Pending(f, Lvs, Sts)' \subseteq (Pending(f, Lvs, Sts) \ {d}) \cup {q}
    BY <1>3, <1>5, <2>2, <2>3, <2>4 DEF Pending
  <2> QED
    BY <1>5, <2>5, <2>6 DEF Trade
<1> QED
  BY <1>4, <1>5

-----------------------------------------------------------------------------
(* Terminal messages *)

Running == Stages \ {"idle", "ack", "notify"}

Reported(f) == Stock("published", Outcomes, results[f])

ResultTokens(f) == Pending(f, Levels, Running) \cup Reported(f)

ResultsPaid == \A f \in Files : Budget(ResultTokens(f), 1 + faults)

\* The budget is a number, and a fault adds one to it.
LEMMA FaultBudget ==
  ASSUME TypeOK, TypeOK', Fault \/ UNCHANGED faults
  PROVE  /\ 1 + faults \in Nat /\ 1 + faults' \in Nat
         /\ 1 + faults <= 1 + faults'
         /\ Fault => 1 + faults' = (1 + faults) + 1
<1>1. faults \in Nat /\ faults' \in Nat
  BY ScanPipelineAssumption DEF TypeOK
<1>2. CASE Fault
  <2>1. faults' = faults + 1
    BY <1>2 DEF Fault
  <2> QED
    BY <1>1, <2>1
<1>3. CASE ~Fault
  <2>1. faults' = faults
    BY <1>3
  <2> QED
    BY <1>1, <1>3, <2>1 DEF Fault
<1> QED
  BY <1>2, <1>3

\* Trades keep the count of terminal messages within its budget.
LEMMA ResultsTraded ==
  ASSUME TypeOK, TypeOK', ResultsPaid, Fault \/ UNCHANGED faults,
         \A f \in Files : Trade(ResultTokens(f), ResultTokens(f)')
  PROVE  ResultsPaid'
<1>1. /\ 1 + faults \in Nat /\ 1 + faults' \in Nat
      /\ 1 + faults <= 1 + faults'
  BY FaultBudget
<1>2. ASSUME NEW f \in Files PROVE Budget(ResultTokens(f)', 1 + faults')
  BY <1>1, BudgetTrade DEF ResultsPaid
<1> QED
  BY <1>2 DEF ResultsPaid, Budget

\* A gain per file is paid for by the fault that comes with it.
LEMMA ResultsGained ==
  ASSUME TypeOK, TypeOK', ResultsPaid, Fault,
         \A f \in Files : Gain(ResultTokens(f), ResultTokens(f)')
  PROVE  ResultsPaid'
<1>1. 1 + faults \in Nat /\ 1 + faults' = (1 + faults) + 1
  BY FaultBudget
<1>2. ASSUME NEW f \in Files PROVE Budget(ResultTokens(f)', 1 + faults')
  BY <1>1, BudgetGain DEF ResultsPaid
<1> QED
  BY <1>2 DEF ResultsPaid, Budget

\* With nothing reported, what happens to the pending tokens is all there is.
LEMMA PendingTraded ==
  ASSUME TypeOK, TypeOK', ResultsPaid, Fault \/ UNCHANGED faults,
         UNCHANGED results,
         \A f \in Files : Trade(Pending(f, Levels, Running),
                                Pending(f, Levels, Running)')
  PROVE  ResultsPaid'
<1>1. ASSUME NEW f \in Files PROVE Trade(ResultTokens(f), ResultTokens(f)')
  <2>1. Reported(f)' = Reported(f)
    BY DEF Reported, Stock
  <2>2. \A t \in Pending(f, Levels, Running) : t \notin Reported(f)
    BY PendingApart DEF Reported
  <2>3. Trade(Pending(f, Levels, Running) \cup Reported(f),
              Pending(f, Levels, Running)' \cup Reported(f)')
    BY <2>1, <2>2, TradeWithin
  <2> QED
    BY <2>3 DEF ResultTokens
<1> QED
  BY <1>1, ResultsTraded

\* The same for a gain.
LEMMA PendingGained ==
  ASSUME TypeOK, TypeOK', ResultsPaid, Fault, UNCHANGED results,
         \A f \in Files : Gain(Pending(f, Levels, Running),
                               Pending(f, Levels, Running)')
  PROVE  ResultsPaid'
<1>1. ASSUME NEW f \in Files PROVE Gain(ResultTokens(f), ResultTokens(f)')
  <2>1. Reported(f)' = Reported(f)
    BY DEF Reported, Stock
  <2>2. Gain(Pending(f, Levels, Running) \cup Reported(f),
             Pending(f, Levels, Running)' \cup Reported(f)')
    BY <2>1, GainWithin
  <2> QED
    BY <2>2 DEF ResultTokens
<1> QED
  BY <1>1, ResultsGained

\* A report is at most one more terminal message, about its file.
LEMMA ReportGain ==
  ASSUME TypeOK, NEW f \in Files, NEW o \in Outcomes, NEW accepted \in BOOLEAN,
         Report(f, o, accepted), NEW g \in Files
  PROVE  /\ Gain(Reported(g), Reported(g)')
         /\ g # f => Reported(g)' = Reported(g)
<1>1. /\ results \in [Files -> [Outcomes -> Nat]]
      /\ results' \in [Files -> [Outcomes -> Nat]]
  BY ReportType DEF TypeOK
<1>2. CASE g # f \/ ~accepted
  <2>1. results'[g] = results[g]
    BY <1>1, <1>2 DEF Report
  <2> QED
    BY <2>1 DEF Reported, Gain, Stock
<1>3. CASE g = f /\ accepted
  <2>1. /\ \A e \in Outcomes : results[f][e] \in Nat /\ results'[f][e] \in Nat
        /\ \A e \in Outcomes \ {o} : results'[f][e] = results[f][e]
        /\ results'[f][o] = results[f][o] + 1
    BY <1>1, <1>3 DEF Report
  <2>2. Stock("published", Outcomes, results'[f]) \subseteq
          Stock("published", Outcomes, results[f])
            \cup {<<"published", o, results[f][o]>>}
    BY <2>1, StockUp
  <2> QED
    BY <1>3, <2>2 DEF Reported, Gain
<1> QED
  BY <1>2, <1>3

\* The publish of a retry is at most one more delayed copy, with the next count.
LEMMA RetryGain ==
  ASSUME TypeOK, TypeOK', NEW w \in Replicas, ScheduleRetry(w), NEW f \in Files,
         NEW Lvs \in SUBSET Levels
  PROVE  /\ Gain(Stock("delayed", Lvs, delayed[f]), Stock("delayed", Lvs, delayed[f])')
         /\ f # file[w] \/ level[w] + 1 \notin Lvs =>
              Stock("delayed", Lvs, delayed[f])' = Stock("delayed", Lvs, delayed[f])
<1>1. /\ delayed \in [Files -> [Levels -> Nat]]
      /\ delayed' \in [Files -> [Levels -> Nat]]
      /\ file[w] \in Files
  BY DEF TypeOK
<1>2. CASE UNCHANGED delayed
  BY <1>2 DEF Stock, Gain
<1>3. CASE delayed' = [delayed EXCEPT ![file[w]][level[w] + 1] =
                         delayed[file[w]][level[w] + 1] + 1]
  <2>1. CASE f # file[w] \/ level[w] + 1 \notin Lvs
    <3>1. \A m \in Lvs : delayed'[f][m] = delayed[f][m]
      BY <1>1, <1>3, <2>1
    <3>2. Stock("delayed", Lvs, delayed'[f]) = Stock("delayed", Lvs, delayed[f])
      BY <3>1, StockSame
    <3> QED
      BY <3>2 DEF Gain
  <2>2. CASE f = file[w] /\ level[w] + 1 \in Lvs
    <3> DEFINE n == level[w] + 1
    <3>1. /\ \A m \in Lvs : delayed[f][m] \in Nat /\ delayed'[f][m] \in Nat
          /\ \A m \in Lvs \ {n} : delayed'[f][m] = delayed[f][m]
          /\ delayed'[f][n] = delayed[f][n] + 1
      BY <1>1, <1>3, <2>2
    <3>2. Stock("delayed", Lvs, delayed'[f]) \subseteq
            Stock("delayed", Lvs, delayed[f]) \cup {<<"delayed", n, delayed[f][n]>>}
      <4>1. n \in Lvs
        BY <2>2
      <4> HIDE DEF n
      <4> QED
        BY <3>1, <4>1, StockUp
    <3> QED
      BY <2>2, <3>2 DEF Gain
  <2> QED
    BY <2>1, <2>2
<1> QED
  BY <1>2, <1>3 DEF ScheduleRetry

\* One step keeps the terminal messages paid for.
LEMMA ResultsStep == TypeInv /\ ResultsPaid /\ [Next]_vars => ResultsPaid'
<1> SUFFICES ASSUME TypeInv, ResultsPaid, [Next]_vars PROVE ResultsPaid'
  OBVIOUS
<1>t. TypeOK /\ TypeOK'
  BY TypeStep DEF TypeInv
<1> USE DEF broker, cancelling, storage, delivery, sets, memory,
           history, checks
<1>s. /\ {"precheck", "lstat", "open", "reject", "started", "hash", "recheck",
          "clamd", "postcheck", "discard", "remove", "publish", "failed", "nack"}
           \subseteq Running
      /\ {"idle", "ack", "notify"} \cap Running = {}
      /\ Running \subseteq Stages /\ {"idle", "ack", "notify"} \subseteq Stages
  BY DEF Running, Stages
<1>l. Levels \in SUBSET Levels
  OBVIOUS
<1>1. ASSUME NEW w \in Replicas, NEW f \in Files, NEW n \in Levels,
             Receive(w, f, n)
      PROVE  ResultsPaid'
  <2>1. UNCHANGED <<results, faults>>
    BY <1>1 DEF Receive
  <2>2. \A g \in Files : Trade(Pending(g, Levels, Running),
                               Pending(g, Levels, Running)')
    BY <1>1, <1>l, <1>s, <1>t, PendingReceive
  <2> QED
    BY <1>t, <2>1, <2>2, PendingTraded
<1>2. ASSUME NEW w \in Replicas,
             \/ PreCheck(w) \/ Lstat(w) \/ Open(w) \/ Start(w) \/ Hash(w)
             \/ Recheck(w) \/ ScanStream(w) \/ PostCheck(w) \/ Discard(w)
             \/ RemoveInfected(w) \/ NotifyRetry(w)
      PROVE  ResultsPaid'
  <2>1. UNCHANGED <<queue, delayed, results, file, level>>
    BY <1>2 DEF PreCheck, Lstat, Open, Start, Hash, Recheck, ScanStream, PostCheck,
                Discard, RemoveInfected, NotifyRetry
  <2>2. Fault \/ UNCHANGED faults
    BY <1>2 DEF PreCheck, Lstat, Open, Start, Hash, Recheck, ScanStream, PostCheck,
                Discard, RemoveInfected, NotifyRetry, IsCancelled, Unreadable,
                Publishes, RemoveFile
  <2>3. PICK stage \in Stages :
          Goto(w, stage) /\ (stage \in Running => pc[w] \in Running)
    <3>1. CASE PreCheck(w) \/ Lstat(w) \/ Open(w)
      <4>1. pc[w] \in {"precheck", "lstat", "open"}
        BY <3>1 DEF PreCheck, Lstat, Open, At
      <4>2. \E stage \in {"ack", "lstat", "reject", "open", "started", "hash"} :
              Goto(w, stage)
        BY <3>1 DEF PreCheck, Lstat, Open, Unreadable, Drop
      <4> QED
        BY <1>s, <4>1, <4>2
    <3>2. CASE Start(w) \/ Hash(w) \/ Recheck(w) \/ ScanStream(w)
      <4>1. pc[w] \in {"started", "hash", "recheck", "clamd"}
        BY <3>2 DEF Start, Hash, Recheck, ScanStream, At
      <4>2. \E stage \in {"hash", "failed", "recheck", "discard", "clamd",
                          "postcheck"} : Goto(w, stage)
        BY <3>2 DEF Start, Hash, Recheck, ScanStream, Fail
      <4> QED
        BY <1>s, <4>1, <4>2
    <3>3. CASE PostCheck(w) \/ Discard(w) \/ RemoveInfected(w)
      <4>1. pc[w] \in {"postcheck", "discard", "remove"}
        BY <3>3 DEF PostCheck, Discard, RemoveInfected, At
      <4>2. \E stage \in {"discard", "remove", "publish", "ack"} : Goto(w, stage)
        BY <3>3 DEF PostCheck, Discard, RemoveInfected, Drop
      <4> QED
        BY <1>s, <4>1, <4>2
    <3>4. CASE NotifyRetry(w)
      BY <1>s, <3>4 DEF NotifyRetry
    <3> QED
      BY <1>2, <3>1, <3>2, <3>3, <3>4
  <2>4. \A f \in Files : Pending(f, Levels, Running)' \subseteq
                           Pending(f, Levels, Running)
    BY <1>t, <2>1, <2>3, PendingGoto
  <2> QED
    BY <1>t, <2>1, <2>2, <2>4, PendingTraded DEF Trade
<1>3. ASSUME NEW w \in Replicas, Reject(w) \/ PublishVerdict(w) \/ DeadLetter(w)
      PROVE  ResultsPaid'
  <2>1. /\ UNCHANGED <<queue, delayed, file, level>>
        /\ pc[w] \in {"reject", "publish", "failed"}
    BY <1>3 DEF Reject, PublishVerdict, DeadLetter, At
  <2>2. PICK o \in Outcomes, accepted \in BOOLEAN, failed \in BOOLEAN,
             stage \in {"ack", "nack"} :
          /\ Publishes(accepted, failed) /\ Report(file[w], o, accepted)
          /\ Goto(w, stage) /\ (stage = "nack" => failed)
    <3>1. CASE Reject(w)
      <4>1. PICK accepted \in BOOLEAN, failed \in BOOLEAN :
              /\ Publishes(accepted, failed) /\ Report(file[w], "ERROR", accepted)
              /\ Goto(w, "ack")
        BY <3>1 DEF Reject, Drop
      <4> QED
        BY <4>1 DEF Outcomes
    <3>2. CASE PublishVerdict(w)
      <4>1. PICK accepted \in BOOLEAN, failed \in BOOLEAN :
              /\ Publishes(accepted, failed)
              /\ Report(file[w], IF opened[w] = "infected" THEN "INFECTED" ELSE "CLEAN",
                        accepted)
              /\ Goto(w, IF failed THEN "nack" ELSE "ack")
        BY <3>2 DEF PublishVerdict
      <4> QED
        BY <4>1 DEF Outcomes
    <3>3. CASE DeadLetter(w)
      <4>1. PICK accepted \in BOOLEAN, failed \in BOOLEAN :
              /\ Publishes(accepted, failed) /\ Report(file[w], "FAILED", accepted)
              /\ Goto(w, IF failed THEN "nack" ELSE "ack")
        BY <3>3 DEF DeadLetter
      <4> QED
        BY <4>1 DEF Outcomes
    <3> QED
      BY <1>3, <3>1, <3>2, <3>3
  <2>3. file[w] \in Files /\ level[w] \in Levels /\ pc[w] \in Running
    BY <1>s, <1>t, <2>1 DEF TypeOK
  <2>4. ASSUME NEW f \in Files
        PROVE  /\ Gain(Reported(f), Reported(f)')
               /\ f # file[w] => Reported(f)' = Reported(f)
    BY <1>t, <2>2, <2>3, ReportGain
  <2>5. ASSUME NEW f \in Files
        PROVE  Pending(f, Levels, Running)' \subseteq Pending(f, Levels, Running)
    BY <1>s, <1>t, <2>1, <2>2, <2>3, PendingGoto
  <2>6. CASE stage = "nack"
    <3>1. Fault
      BY <2>2, <2>6 DEF Publishes
    <3>2. \A f \in Files : Gain(ResultTokens(f), ResultTokens(f)')
      BY <2>4, <2>5 DEF ResultTokens, Gain
    <3> QED
      BY <1>t, <3>1, <3>2, ResultsGained
  <2>7. CASE stage = "ack"
    <3>1. Fault \/ UNCHANGED faults
      BY <2>2 DEF Publishes
    <3>2. ASSUME NEW f \in Files PROVE Trade(ResultTokens(f), ResultTokens(f)')
      <4>1. CASE f # file[w]
        BY <2>4, <2>5, <4>1 DEF ResultTokens, Trade
      <4>2. CASE f = file[w]
        <5>1. Mark(w) \in Pending(f, Levels, Running)
          BY <2>3, <4>2 DEF Pending, Handlers
        <5>2. Pending(f, Levels, Running)' \subseteq
                Pending(f, Levels, Running) \ {Mark(w)}
          BY <1>s, <1>t, <2>1, <2>2, <2>7, PendingGoto
        <5>3. Mark(w) \notin Reported(f)
          BY <5>1, PendingApart DEF Reported
        <5>4. Trade(Pending(f, Levels, Running) \cup Reported(f),
                    Pending(f, Levels, Running)' \cup Reported(f)')
          BY <2>4, <5>1, <5>2, <5>3, TradeAcross
        <5> QED
          BY <5>4 DEF ResultTokens
      <4> QED
        BY <4>1, <4>2
    <3> QED
      BY <1>t, <3>1, <3>2, ResultsTraded
  <2> QED
    BY <2>2, <2>6, <2>7
<1>4. ASSUME NEW w \in Replicas, ScheduleRetry(w) PROVE ResultsPaid'
  <2>1. UNCHANGED <<queue, results, file, level>> /\ pc[w] = "failed"
    BY <1>4 DEF ScheduleRetry, At
  <2>2. PICK stage \in {"nack", "notify"} :
          Goto(w, stage) /\ (stage = "nack" => Fault) /\ (Fault \/ UNCHANGED faults)
    BY <1>4 DEF ScheduleRetry, Publishes
  <2>3. file[w] \in Files /\ level[w] \in Levels /\ pc[w] \in Running
    BY <1>s, <1>t, <2>1 DEF TypeOK
  <2> DEFINE D(f) == Stock("delayed", Levels, delayed[f])
             Q(f) == Stock("queue", Levels, queue[f])
             H(f) == Handlers(f, Levels, Running)
  <2>4. ASSUME NEW f \in Files
        PROVE  Gain(D(f), D(f)') /\ (f # file[w] => D(f)' = D(f))
    BY <1>4, <1>l, <1>t, RetryGain
  <2>5. ASSUME NEW f \in Files
        PROVE  /\ H(f)' \subseteq H(f)
               /\ stage = "notify" => H(f)' \subseteq H(f) \ {Mark(w)}
    BY <1>s, <1>t, <2>1, <2>2, <2>3, HandlersGoto
  <2>6. ASSUME NEW f \in Files PROVE Q(f)' = Q(f)
    BY <2>1 DEF Stock
  <2>7. CASE stage = "nack"
    <3>1. \A f \in Files : Gain(Pending(f, Levels, Running),
                                Pending(f, Levels, Running)')
      BY <2>4, <2>5, <2>6 DEF Pending, Gain
    <3> QED
      BY <1>t, <2>1, <2>2, <2>7, <3>1, PendingGained
  <2>8. CASE stage = "notify"
    <3>1. ASSUME NEW f \in Files
          PROVE  Trade(Pending(f, Levels, Running), Pending(f, Levels, Running)')
      <4>1. CASE f # file[w]
        BY <2>4, <2>5, <2>6, <4>1 DEF Pending, Trade
      <4>2. CASE f = file[w]
        <5>1. Mark(w) \in H(f)
          BY <2>3, <4>2 DEF Handlers
        <5>2. Mark(w) \notin Q(f) \cup D(f)
          BY DEF Mark, Stock
        <5>3. Trade(H(f) \cup (Q(f) \cup D(f)), H(f)' \cup (Q(f) \cup D(f))')
          <6>1. Gain(Q(f) \cup D(f), (Q(f) \cup D(f))')
            BY <2>4, <2>6 DEF Gain
          <6> QED
            BY <2>5, <2>8, <5>1, <5>2, <6>1, TradeAcross
        <5>4. /\ H(f) \cup (Q(f) \cup D(f)) = Pending(f, Levels, Running)
              /\ H(f)' \cup (Q(f) \cup D(f))' = Pending(f, Levels, Running)'
          BY DEF Pending
        <5> QED
          BY <5>3, <5>4
      <4> QED
        BY <4>1, <4>2
    <3> QED
      BY <1>t, <2>1, <2>2, <3>1, PendingTraded
  <2> QED
    BY <2>2, <2>7, <2>8
<1>5. ASSUME NEW w \in Replicas, Ack(w) PROVE ResultsPaid'
  <2>1. Idle(w) /\ UNCHANGED <<queue, delayed, results, faults>>
    BY <1>5 DEF Ack
  <2>2. \A f \in Files : Handlers(f, Levels, Running)' \subseteq
                           Handlers(f, Levels, Running)
    BY <1>s, <1>t, <2>1, HandlersIdle
  <2>3. \A f \in Files : Trade(Pending(f, Levels, Running),
                               Pending(f, Levels, Running)')
    BY <2>1, <2>2 DEF Pending, Trade, Stock
  <2> QED
    BY <1>t, <2>1, <2>3, PendingTraded
<1>6. ASSUME NEW w \in Replicas, Nack(w) PROVE ResultsPaid'
  <2>1. /\ Idle(w) /\ Requeue(w) /\ pc[w] \in Running
        /\ UNCHANGED <<delayed, results, faults>>
    BY <1>6, <1>s DEF Nack, At
  <2>2. \A f \in Files : Trade(Pending(f, Levels, Running),
                               Pending(f, Levels, Running)')
    BY <1>l, <1>s, <1>t, <2>1, PendingNack
  <2> QED
    BY <1>t, <2>1, <2>2, PendingTraded
<1>7. ASSUME NEW w \in Replicas, Crash(w) \/ ConnectionLost(w) PROVE ResultsPaid'
  <2>1. Fault /\ Requeue(w) /\ UNCHANGED <<delayed, results>>
    BY <1>7 DEF Crash, ConnectionLost
  <2>2. \A f \in Files : Handlers(f, Levels, Running)' \subseteq
                           Handlers(f, Levels, Running)
    <3>1. CASE Crash(w)
      BY <1>s, <1>t, <3>1, HandlersIdle DEF Crash
    <3>2. CASE ConnectionLost(w)
      BY <3>2 DEF ConnectionLost, Handlers
    <3> QED
      BY <1>7, <3>1, <3>2
  <2>3. \A f \in Files : Gain(Pending(f, Levels, Running),
                              Pending(f, Levels, Running)')
    BY <1>l, <1>t, <2>1, <2>2, PendingLost
  <2> QED
    BY <1>t, <2>1, <2>3, PendingGained
<1>8. ASSUME NEW f \in Files, NEW n \in Levels, RetryDue(f, n) PROVE ResultsPaid'
  <2>1. UNCHANGED <<results, faults>>
    BY <1>8 DEF RetryDue
  <2>2. \A g \in Files : Trade(Pending(g, Levels, Running),
                               Pending(g, Levels, Running)')
    BY <1>8, <1>l, <1>t, PendingDue
  <2> QED
    BY <1>t, <2>1, <2>2, PendingTraded
<1>9. ASSUME UNCHANGED <<queue, delayed, results, pc, file, level>>,
             Fault \/ UNCHANGED faults
      PROVE  ResultsPaid'
  <2>1. \A f \in Files : Pending(f, Levels, Running)' = Pending(f, Levels, Running)
    BY <1>9 DEF Pending, Handlers, Stock
  <2> QED
    BY <1>9, <1>t, <2>1, PendingTraded DEF Trade
<1>10. ASSUME NEW w \in Replicas,
              HandlerTimeout(w) \/ ReadSet(w) \/ OtherCaseCancelled(w)
       PROVE  ResultsPaid'
  BY <1>9, <1>10 DEF HandlerTimeout, ReadSet, OtherCaseCancelled
<1>11. ASSUME NEW c \in Cases,
              \/ CancelCase(c) \/ SetRedisKey(c)
              \/ \E w \in Replicas : HandleCancelMessage(w, c) \/ Lapse(w, c)
       PROVE  ResultsPaid'
  BY <1>9, <1>11 DEF CancelCase, SetRedisKey, HandleCancelMessage, Lapse
<1>12. ASSUME NEW f \in Files, NEW d \in Contents \cup {"gone", "symlink"},
              TempPathChanges(f, d)
       PROVE  ResultsPaid'
  BY <1>9, <1>12 DEF TempPathChanges
<1>13. CASE UNCHANGED vars
  BY <1>9, <1>13 DEF vars
<1> QED
  BY <1>1, <1>2, <1>3, <1>4, <1>5, <1>6, <1>7, <1>8, <1>10, <1>11, <1>12, <1>13
     DEF Next, Work

-----------------------------------------------------------------------------
(* ScanStarted events *)

\* Stages of a delivery that may still lead to the event: before it, and on the
\* way back into the queue.
Fresh == {"precheck", "lstat", "open", "started", "nack"}

Announced(f) == Stock("published", {0}, [n \in {0} |-> started[f]])

StartTokens(f) == Pending(f, {0}, Fresh) \cup Announced(f)

StartsPaid == \A f \in Files : Budget(StartTokens(f), 1 + faults)

\* The event belongs to deliveries without retries.
StartsFirst == \A w \in Replicas : pc[w] = "started" => level[w] = 0

\* Only Open leads to the event, and only for a delivery without retries.
LEMMA StartsFirstStep == TypeInv /\ StartsFirst /\ [Next]_vars => StartsFirst'
<1> SUFFICES ASSUME TypeInv, StartsFirst, [Next]_vars PROVE StartsFirst'
  OBVIOUS
<1>t. TypeOK
  BY DEF TypeInv
<1> USE DEF broker, cancelling, storage, delivery, sets, memory,
           history, checks
<1>s. {"precheck", "lstat", "open", "reject", "hash", "recheck", "clamd",
       "postcheck", "discard", "remove", "publish", "failed", "notify", "ack",
       "nack", "idle"} \subseteq Stages \ {"started"}
  BY DEF Stages
<1>m. ASSUME NEW w \in Replicas, NEW stage \in Stages \ {"started"},
             Goto(w, stage), \A v \in Replicas \ {w} : level'[v] = level[v]
      PROVE  StartsFirst'
  <2>1. \A v \in Replicas : pc'[v] = IF v = w THEN stage ELSE pc[v]
    BY <1>m, <1>t, GotoType
  <2> QED
    BY <1>m, <2>1 DEF StartsFirst
<1>1. ASSUME NEW w \in Replicas, NEW f \in Files, NEW n \in Levels,
             Receive(w, f, n)
      PROVE  StartsFirst'
  <2>1. PICK stage \in {"ack", "precheck"} : Goto(w, stage)
    BY <1>1 DEF Receive
  <2>2. level' = [level EXCEPT ![w] = n] /\ level \in [Replicas -> Levels]
    BY <1>1, <1>t DEF Receive, TypeOK
  <2>3. \A v \in Replicas \ {w} : level'[v] = level[v]
    BY <2>2
  <2> QED
    BY <1>m, <1>s, <2>1, <2>3
<1>2. ASSUME NEW w \in Replicas, Open(w) PROVE StartsFirst'
  <2>1. UNCHANGED level
    BY <1>2 DEF Open
  <2>2. CASE Goto(w, "started") /\ level[w] = 0
    <3>1. \A v \in Replicas : pc'[v] = IF v = w THEN "started" ELSE pc[v]
      BY <1>t, <2>2, GotoType DEF Stages
    <3> QED
      BY <2>1, <2>2, <3>1 DEF StartsFirst
  <2>3. CASE \E stage \in {"ack", "reject", "hash"} : Goto(w, stage)
    BY <1>m, <1>s, <2>1, <2>3
  <2> QED
    BY <1>2, <2>2, <2>3 DEF Open, Unreadable, Drop
<1>3. ASSUME NEW w \in Replicas,
             \/ PreCheck(w) \/ Lstat(w) \/ Reject(w) \/ Start(w) \/ Hash(w)
             \/ Recheck(w) \/ ScanStream(w) \/ PostCheck(w) \/ Discard(w)
             \/ RemoveInfected(w) \/ PublishVerdict(w) \/ ScheduleRetry(w)
             \/ NotifyRetry(w) \/ DeadLetter(w)
      PROVE  StartsFirst'
  <2>1. UNCHANGED level
    BY <1>3 DEF PreCheck, Lstat, Reject, Start, Hash, Recheck, ScanStream,
                PostCheck, Discard, RemoveInfected, PublishVerdict, ScheduleRetry,
                NotifyRetry, DeadLetter
  <2>2. CASE PreCheck(w) \/ Lstat(w) \/ Reject(w) \/ Start(w) \/ Hash(w)
    <3>1. \E stage \in {"ack", "lstat", "reject", "open", "hash", "failed",
                        "recheck"} : Goto(w, stage)
      BY <2>2 DEF PreCheck, Lstat, Unreadable, Reject, Start, Hash, Fail, Drop
    <3> QED
      BY <1>m, <1>s, <2>1, <3>1
  <2>3. CASE Recheck(w) \/ ScanStream(w) \/ PostCheck(w) \/ Discard(w)
             \/ RemoveInfected(w)
    <3>1. \E stage \in {"discard", "clamd", "failed", "postcheck", "remove",
                        "publish", "ack"} : Goto(w, stage)
      BY <2>3 DEF Recheck, ScanStream, PostCheck, Discard, RemoveInfected, Fail, Drop
    <3> QED
      BY <1>m, <1>s, <2>1, <3>1
  <2>4. CASE PublishVerdict(w) \/ ScheduleRetry(w) \/ NotifyRetry(w) \/ DeadLetter(w)
    <3>1. \E stage \in {"ack", "nack", "notify"} : Goto(w, stage)
      BY <2>4 DEF PublishVerdict, ScheduleRetry, NotifyRetry, DeadLetter
    <3> QED
      BY <1>m, <1>s, <2>1, <3>1
  <2> QED
    BY <1>3, <2>2, <2>3, <2>4
<1>4. ASSUME NEW w \in Replicas, Ack(w) \/ Nack(w) \/ Crash(w) PROVE StartsFirst'
  <2>1. Idle(w)
    BY <1>4 DEF Ack, Nack, Crash
  <2>2. \A v \in Replicas \ {w} : level'[v] = level[v]
    BY <1>t, <2>1, IdleElsewhere
  <2> QED
    BY <1>m, <1>s, <2>1, <2>2 DEF Idle
<1>5. ASSUME UNCHANGED <<pc, level>> PROVE StartsFirst'
  BY <1>5 DEF StartsFirst
<1>6. ASSUME NEW w \in Replicas,
             \/ ConnectionLost(w) \/ HandlerTimeout(w)
             \/ ReadSet(w) \/ OtherCaseCancelled(w)
      PROVE  StartsFirst'
  BY <1>5, <1>6 DEF ConnectionLost, HandlerTimeout, ReadSet, OtherCaseCancelled
<1>7. ASSUME NEW c \in Cases,
             \/ CancelCase(c) \/ SetRedisKey(c)
             \/ \E w \in Replicas : HandleCancelMessage(w, c) \/ Lapse(w, c)
      PROVE  StartsFirst'
  BY <1>5, <1>7 DEF CancelCase, SetRedisKey, HandleCancelMessage, Lapse
<1>8. ASSUME NEW f \in Files, NEW n \in Levels, RetryDue(f, n) PROVE StartsFirst'
  BY <1>5, <1>8 DEF RetryDue
<1>9. ASSUME NEW f \in Files, NEW d \in Contents \cup {"gone", "symlink"},
             TempPathChanges(f, d)
      PROVE  StartsFirst'
  BY <1>5, <1>9 DEF TempPathChanges
<1>10. CASE UNCHANGED vars
  BY <1>5, <1>10 DEF vars
<1> QED
  BY <1>1, <1>2, <1>3, <1>4, <1>6, <1>7, <1>8, <1>9, <1>10 DEF Next, Work

\* Trades keep the count of events within its budget.
LEMMA StartsTraded ==
  ASSUME TypeOK, TypeOK', StartsPaid, Fault \/ UNCHANGED faults,
         \A f \in Files : Trade(StartTokens(f), StartTokens(f)')
  PROVE  StartsPaid'
<1>1. /\ 1 + faults \in Nat /\ 1 + faults' \in Nat
      /\ 1 + faults <= 1 + faults'
  BY FaultBudget
<1>2. ASSUME NEW f \in Files PROVE Budget(StartTokens(f)', 1 + faults')
  BY <1>1, BudgetTrade DEF StartsPaid
<1> QED
  BY <1>2 DEF StartsPaid, Budget

\* With no event published, trades of the pending tokens are all there is.
LEMMA FreshTraded ==
  ASSUME TypeOK, TypeOK', StartsPaid, Fault \/ UNCHANGED faults, UNCHANGED started,
         \A f \in Files : Trade(Pending(f, {0}, Fresh), Pending(f, {0}, Fresh)')
  PROVE  StartsPaid'
<1>1. ASSUME NEW f \in Files PROVE Trade(StartTokens(f), StartTokens(f)')
  <2>1. Announced(f)' = Announced(f)
    BY DEF Announced, Stock
  <2>2. \A t \in Pending(f, {0}, Fresh) : t \notin Announced(f)
    BY PendingApart DEF Announced
  <2>3. Trade(Pending(f, {0}, Fresh) \cup Announced(f),
              Pending(f, {0}, Fresh)' \cup Announced(f)')
    BY <2>1, <2>2, TradeWithin
  <2> QED
    BY <2>3 DEF StartTokens
<1> QED
  BY <1>1, StartsTraded

\* A gain is paid for by the fault that comes with it.
LEMMA FreshGained ==
  ASSUME TypeOK, TypeOK', StartsPaid, Fault, UNCHANGED started,
         \A f \in Files : Gain(Pending(f, {0}, Fresh), Pending(f, {0}, Fresh)')
  PROVE  StartsPaid'
<1>1. 1 + faults \in Nat /\ 1 + faults' = (1 + faults) + 1
  BY FaultBudget
<1>2. ASSUME NEW f \in Files PROVE Budget(StartTokens(f)', 1 + faults')
  <2>1. Announced(f)' = Announced(f)
    BY DEF Announced, Stock
  <2>2. Gain(Pending(f, {0}, Fresh) \cup Announced(f),
             Pending(f, {0}, Fresh)' \cup Announced(f)')
    BY <2>1, GainWithin
  <2>3. Gain(StartTokens(f), StartTokens(f)')
    BY <2>2 DEF StartTokens
  <2> QED
    BY <1>1, <2>3, BudgetGain DEF StartsPaid
<1> QED
  BY <1>2 DEF StartsPaid, Budget

\* One step keeps the ScanStarted events paid for.
LEMMA StartsStep ==
  TypeInv /\ StartsPaid /\ StartsFirst /\ [Next]_vars => StartsPaid'
<1> SUFFICES ASSUME TypeInv, StartsPaid, StartsFirst, [Next]_vars
             PROVE  StartsPaid'
  OBVIOUS
<1>t. TypeOK /\ TypeOK'
  BY TypeStep DEF TypeInv
<1> USE DEF broker, cancelling, storage, delivery, sets, memory,
           history, checks
<1>s. /\ "idle" \notin Fresh /\ "nack" \in Fresh /\ "nack" \in Stages
      /\ {"reject", "hash", "recheck", "clamd", "postcheck", "discard", "remove",
          "publish", "failed", "notify", "ack"} \subseteq Stages \ Fresh
  BY DEF Fresh, Stages
<1>l. {0} \in SUBSET Levels
  BY ScanPipelineAssumption DEF Levels
<1>1. ASSUME NEW w \in Replicas, NEW f \in Files, NEW n \in Levels,
             Receive(w, f, n)
      PROVE  StartsPaid'
  <2>1. UNCHANGED <<started, faults>>
    BY <1>1 DEF Receive
  <2>2. \A g \in Files : Trade(Pending(g, {0}, Fresh), Pending(g, {0}, Fresh)')
    BY <1>1, <1>l, <1>s, <1>t, PendingReceive
  <2> QED
    BY <1>t, <2>1, <2>2, FreshTraded
<1>2. ASSUME NEW w \in Replicas,
             \/ PreCheck(w) \/ Lstat(w) \/ Open(w) \/ Reject(w) \/ Hash(w)
             \/ Recheck(w) \/ ScanStream(w) \/ PostCheck(w) \/ Discard(w)
             \/ RemoveInfected(w) \/ NotifyRetry(w)
      PROVE  StartsPaid'
  <2>1. UNCHANGED <<queue, delayed, started, file, level>>
    BY <1>2 DEF PreCheck, Lstat, Open, Reject, Hash, Recheck, ScanStream, PostCheck,
                Discard, RemoveInfected, NotifyRetry
  <2>2. Fault \/ UNCHANGED faults
    BY <1>2 DEF PreCheck, Lstat, Open, Reject, Hash, Recheck, ScanStream, PostCheck,
                Discard, RemoveInfected, NotifyRetry, IsCancelled, Unreadable,
                Publishes, RemoveFile
  <2>3. PICK stage \in Stages :
          Goto(w, stage) /\ (stage \in Fresh => pc[w] \in Fresh)
    <3>1. CASE PreCheck(w) \/ Lstat(w) \/ Open(w)
      <4>1. pc[w] \in Fresh
        BY <3>1 DEF PreCheck, Lstat, Open, At, Fresh
      <4>2. \E stage \in Stages : Goto(w, stage)
        BY <3>1 DEF PreCheck, Lstat, Open, Unreadable, Drop, Stages
      <4> QED
        BY <4>1, <4>2
    <3>2. CASE Reject(w) \/ Hash(w) \/ Recheck(w) \/ ScanStream(w)
      <4>1. \E stage \in {"ack", "failed", "recheck", "discard", "clamd",
                          "postcheck"} : Goto(w, stage)
        BY <3>2 DEF Reject, Hash, Recheck, ScanStream, Fail, Drop
      <4> QED
        BY <1>s, <4>1
    <3>3. CASE PostCheck(w) \/ Discard(w) \/ RemoveInfected(w) \/ NotifyRetry(w)
      <4>1. \E stage \in {"discard", "remove", "publish", "ack"} : Goto(w, stage)
        BY <3>3 DEF PostCheck, Discard, RemoveInfected, NotifyRetry, Drop
      <4> QED
        BY <1>s, <4>1
    <3> QED
      BY <1>2, <3>1, <3>2, <3>3
  <2>4. \A f \in Files : Pending(f, {0}, Fresh)' \subseteq Pending(f, {0}, Fresh)
    BY <1>t, <2>1, <2>3, PendingGoto
  <2> QED
    BY <1>t, <2>1, <2>2, <2>4, FreshTraded DEF Trade
<1>3. ASSUME NEW w \in Replicas, Start(w) PROVE StartsPaid'
  <2>1. /\ UNCHANGED <<queue, delayed, file, level>> /\ Goto(w, "hash")
        /\ pc[w] = "started" /\ (Fault \/ UNCHANGED faults)
        /\ \/ UNCHANGED started
           \/ started' = [started EXCEPT ![file[w]] = started[file[w]] + 1]
    BY <1>3 DEF Start, At, Publishes
  <2>2. file[w] \in Files /\ level[w] \in {0} /\ pc[w] \in Fresh
    BY <1>t, <2>1 DEF TypeOK, StartsFirst, Fresh
  <2>3. started \in [Files -> Nat] /\ started' \in [Files -> Nat]
    BY <1>t DEF TypeOK
  <2>4. ASSUME NEW f \in Files PROVE Trade(StartTokens(f), StartTokens(f)')
    <3>1. Pending(f, {0}, Fresh)' \subseteq Pending(f, {0}, Fresh) \ {Mark(w)}
      BY <1>s, <1>t, <2>1, PendingGoto
    <3>2. CASE started'[f] = started[f]
      <4>1. Announced(f)' = Announced(f)
        BY <3>2 DEF Announced, Stock
      <4> QED
        BY <3>1, <4>1 DEF StartTokens, Trade
    <3>3. CASE f = file[w] /\ started'[f] = started[f] + 1
      <4>1. Mark(w) \in Pending(f, {0}, Fresh)
        BY <2>2, <3>3 DEF Pending, Handlers
      <4>2. Mark(w) \notin Announced(f)
        BY <4>1, PendingApart DEF Announced
      <4>3. Gain(Announced(f), Announced(f)')
        <5> DEFINE g == [n \in {0} |-> started[f]]
                   h == [n \in {0} |-> started'[f]]
        <5>1. /\ \A e \in {0} : g[e] \in Nat /\ h[e] \in Nat
              /\ \A e \in {0} \ {0} : h[e] = g[e]
              /\ h[0] = g[0] + 1 /\ 0 \in {0}
          BY <2>3, <3>3
        <5>2. Stock("published", {0}, h) \subseteq
                Stock("published", {0}, g) \cup {<<"published", 0, g[0]>>}
          <6> HIDE DEF g, h
          <6> QED
            BY <5>1, StockUp
        <5> QED
          BY <5>2 DEF Announced, Gain
      <4>4. Trade(Pending(f, {0}, Fresh) \cup Announced(f),
                  Pending(f, {0}, Fresh)' \cup Announced(f)')
        BY <3>1, <4>1, <4>2, <4>3, TradeAcross
      <4> QED
        BY <4>4 DEF StartTokens
    <3> QED
      BY <2>1, <2>2, <2>3, <3>2, <3>3
  <2> QED
    BY <1>t, <2>1, <2>4, StartsTraded
<1>4. ASSUME NEW w \in Replicas, PublishVerdict(w) \/ DeadLetter(w) PROVE StartsPaid'
  <2>1. UNCHANGED <<queue, delayed, started, file, level>>
    BY <1>4 DEF PublishVerdict, DeadLetter
  <2>2. PICK stage \in {"ack", "nack"} :
          Goto(w, stage) /\ (stage = "nack" => Fault) /\ (Fault \/ UNCHANGED faults)
    BY <1>4 DEF PublishVerdict, DeadLetter, Publishes
  <2>3. CASE stage = "nack"
    <3>1. \A f \in Files : Gain(Pending(f, {0}, Fresh), Pending(f, {0}, Fresh)')
      BY <1>s, <1>t, <2>1, <2>2, <2>3, PendingGoto
    <3> QED
      BY <1>t, <2>1, <2>2, <2>3, <3>1, FreshGained
  <2>4. CASE stage = "ack"
    <3>1. \A f \in Files : Pending(f, {0}, Fresh)' \subseteq Pending(f, {0}, Fresh)
      BY <1>s, <1>t, <2>1, <2>2, <2>4, PendingGoto
    <3> QED
      BY <1>t, <2>1, <2>2, <3>1, FreshTraded DEF Trade
  <2> QED
    BY <2>2, <2>3, <2>4
<1>5. ASSUME NEW w \in Replicas, ScheduleRetry(w) PROVE StartsPaid'
  <2>1. UNCHANGED <<queue, started, file, level>>
    BY <1>5 DEF ScheduleRetry
  <2>2. PICK stage \in {"nack", "notify"} :
          Goto(w, stage) /\ (stage = "nack" => Fault) /\ (Fault \/ UNCHANGED faults)
    BY <1>5 DEF ScheduleRetry, Publishes
  <2>3. level[w] + 1 \notin {0}
    BY <1>t, ScanPipelineAssumption DEF TypeOK, Levels
  <2>4. ASSUME NEW f \in Files
        PROVE  /\ Stock("delayed", {0}, delayed[f])' = Stock("delayed", {0}, delayed[f])
               /\ Stock("queue", {0}, queue[f])' = Stock("queue", {0}, queue[f])
    <3>1. Stock("delayed", {0}, delayed[f])' = Stock("delayed", {0}, delayed[f])
      BY <1>5, <1>l, <1>t, <2>3, RetryGain
    <3>2. Stock("queue", {0}, queue[f])' = Stock("queue", {0}, queue[f])
      BY <2>1 DEF Stock
    <3> QED
      BY <3>1, <3>2
  <2>5. ASSUME NEW f \in Files
        PROVE  /\ Handlers(f, {0}, Fresh)' \subseteq Handlers(f, {0}, Fresh) \cup {Mark(w)}
               /\ stage = "notify" =>
                    Handlers(f, {0}, Fresh)' \subseteq Handlers(f, {0}, Fresh)
    BY <1>s, <1>t, <2>1, <2>2, HandlersGoto
  <2>6. CASE stage = "nack"
    <3>1. ASSUME NEW f \in Files
          PROVE  Gain(Pending(f, {0}, Fresh), Pending(f, {0}, Fresh)')
      BY <2>4, <2>5 DEF Pending, Gain
    <3> QED
      BY <1>t, <2>1, <2>2, <2>6, <3>1, FreshGained
  <2>7. CASE stage = "notify"
    <3>1. ASSUME NEW f \in Files
          PROVE  Trade(Pending(f, {0}, Fresh), Pending(f, {0}, Fresh)')
      BY <2>4, <2>5, <2>7 DEF Pending, Trade
    <3> QED
      BY <1>t, <2>1, <2>2, <3>1, FreshTraded
  <2> QED
    BY <2>2, <2>6, <2>7
<1>6. ASSUME NEW w \in Replicas, Ack(w) PROVE StartsPaid'
  <2>1. Idle(w) /\ UNCHANGED <<queue, delayed, started, faults>>
    BY <1>6 DEF Ack
  <2>2. ASSUME NEW f \in Files
        PROVE  Trade(Pending(f, {0}, Fresh), Pending(f, {0}, Fresh)')
    <3>1. Handlers(f, {0}, Fresh)' \subseteq Handlers(f, {0}, Fresh)
      BY <1>s, <1>t, <2>1, HandlersIdle
    <3> QED
      BY <2>1, <3>1 DEF Pending, Trade, Stock
  <2> QED
    BY <1>t, <2>1, <2>2, FreshTraded
<1>7. ASSUME NEW w \in Replicas, Nack(w) PROVE StartsPaid'
  <2>1. /\ Idle(w) /\ Requeue(w) /\ pc[w] \in Fresh
        /\ UNCHANGED <<delayed, started, faults>>
    BY <1>7, <1>s DEF Nack, At
  <2>2. \A f \in Files : Trade(Pending(f, {0}, Fresh), Pending(f, {0}, Fresh)')
    BY <1>l, <1>s, <1>t, <2>1, PendingNack
  <2> QED
    BY <1>t, <2>1, <2>2, FreshTraded
<1>8. ASSUME NEW w \in Replicas, Crash(w) \/ ConnectionLost(w) PROVE StartsPaid'
  <2>1. Fault /\ Requeue(w) /\ UNCHANGED <<delayed, started>>
    BY <1>8 DEF Crash, ConnectionLost
  <2>2. ASSUME NEW f \in Files
        PROVE  Gain(Pending(f, {0}, Fresh), Pending(f, {0}, Fresh)')
    <3>1. CASE Crash(w)
      BY <1>l, <1>s, <1>t, <2>1, <3>1, HandlersIdle, PendingLost DEF Crash
    <3>2. CASE ConnectionLost(w)
      <4>1. Handlers(f, {0}, Fresh)' \subseteq Handlers(f, {0}, Fresh)
        BY <3>2 DEF ConnectionLost, Handlers
      <4> QED
        BY <1>l, <1>t, <2>1, <4>1, PendingLost
    <3> QED
      BY <1>8, <3>1, <3>2
  <2> QED
    BY <1>t, <2>1, <2>2, FreshGained
<1>9. ASSUME NEW f \in Files, NEW n \in Levels, RetryDue(f, n) PROVE StartsPaid'
  <2>1. UNCHANGED <<started, faults>>
    BY <1>9 DEF RetryDue
  <2>2. \A g \in Files : Trade(Pending(g, {0}, Fresh), Pending(g, {0}, Fresh)')
    BY <1>9, <1>l, <1>t, PendingDue
  <2> QED
    BY <1>t, <2>1, <2>2, FreshTraded
<1>10. ASSUME UNCHANGED <<queue, delayed, started, pc, file, level>>,
              Fault \/ UNCHANGED faults
       PROVE  StartsPaid'
  <2>1. \A f \in Files : Pending(f, {0}, Fresh)' = Pending(f, {0}, Fresh)
    BY <1>10 DEF Pending, Handlers, Stock
  <2> QED
    BY <1>10, <1>t, <2>1, FreshTraded DEF Trade
<1>11. ASSUME NEW w \in Replicas,
              HandlerTimeout(w) \/ ReadSet(w) \/ OtherCaseCancelled(w)
       PROVE  StartsPaid'
  BY <1>10, <1>11 DEF HandlerTimeout, ReadSet, OtherCaseCancelled
<1>12. ASSUME NEW c \in Cases,
              \/ CancelCase(c) \/ SetRedisKey(c)
              \/ \E w \in Replicas : HandleCancelMessage(w, c) \/ Lapse(w, c)
       PROVE  StartsPaid'
  BY <1>10, <1>12 DEF CancelCase, SetRedisKey, HandleCancelMessage, Lapse
<1>13. ASSUME NEW f \in Files, NEW d \in Contents \cup {"gone", "symlink"},
             TempPathChanges(f, d)
       PROVE  StartsPaid'
  BY <1>10, <1>13 DEF TempPathChanges
<1>14. CASE UNCHANGED vars
  BY <1>10, <1>14 DEF vars
<1> QED
  BY <1>1, <1>2, <1>3, <1>4, <1>5, <1>6, <1>7, <1>8, <1>9, <1>11, <1>12, <1>13,
     <1>14 DEF Next, Work

-----------------------------------------------------------------------------
(* The bound *)

\* Tokens stand for the numbers they count: there are at least as many tokens of
\* a file's terminal messages as the four counters add up to.
LEMMA ReportedCount ==
  ASSUME TypeOK, NEW f \in Files, NEW n \in Nat, Budget(Reported(f), n)
  PROVE  results[f]["CLEAN"] + results[f]["INFECTED"] + results[f]["ERROR"]
           + results[f]["FAILED"] <= n
<1> DEFINE a == results[f]["CLEAN"]
           b == results[f]["INFECTED"]
           c == results[f]["ERROR"]
           d == results[f]["FAILED"]
           I == 1 .. a + b + c + d
           Token(o, i) == <<"published", o, i>>
           e == [i \in I |->
                  IF i <= a THEN Token("CLEAN", i - 1)
                  ELSE IF i <= a + b THEN Token("INFECTED", i - 1 - a)
                  ELSE IF i <= a + b + c THEN Token("ERROR", i - 1 - a - b)
                  ELSE Token("FAILED", i - 1 - a - b - c)]
<1>1. a \in Nat /\ b \in Nat /\ c \in Nat /\ d \in Nat
  BY DEF TypeOK, Outcomes
<1>2. /\ \A k \in Nat : k < a => Token("CLEAN", k) \in Reported(f)
      /\ \A k \in Nat : k < b => Token("INFECTED", k) \in Reported(f)
      /\ \A k \in Nat : k < c => Token("ERROR", k) \in Reported(f)
      /\ \A k \in Nat : k < d => Token("FAILED", k) \in Reported(f)
  BY DEF Reported, Stock, Outcomes
<1> HIDE DEF a, b, c, d
<1>k. \A i \in I : i \in Int /\ 1 <= i /\ i <= a + b + c + d
  BY <1>1
<1>v. ASSUME NEW i \in I
      PROVE  \/ i <= a /\ e[i] = Token("CLEAN", i - 1)
             \/ a < i /\ i <= a + b /\ e[i] = Token("INFECTED", i - 1 - a)
             \/ /\ a + b < i /\ i <= a + b + c
                /\ e[i] = Token("ERROR", i - 1 - a - b)
             \/ a + b + c < i /\ e[i] = Token("FAILED", i - 1 - a - b - c)
  <2>1. i \in Int
    BY <1>k
  <2>2. CASE i <= a
    BY <2>2
  <2>3. CASE ~(i <= a) /\ i <= a + b
    BY <1>1, <2>1, <2>3
  <2>4. CASE ~(i <= a) /\ ~(i <= a + b) /\ i <= a + b + c
    BY <1>1, <2>1, <2>4
  <2>5. CASE ~(i <= a) /\ ~(i <= a + b) /\ ~(i <= a + b + c)
    BY <1>1, <2>1, <2>5
  <2> QED
    BY <2>2, <2>3, <2>4, <2>5
<1>d. e \in [I -> {e[i] : i \in I}]
  OBVIOUS
<1> HIDE DEF e, I
<1>3. ASSUME NEW i \in I PROVE e[i] \in Reported(f)
  <2>1. CASE i <= a /\ e[i] = Token("CLEAN", i - 1)
    BY <1>1, <1>2, <1>k, <2>1
  <2>2. CASE a < i /\ i <= a + b /\ e[i] = Token("INFECTED", i - 1 - a)
    BY <1>1, <1>2, <1>k, <2>2
  <2>3. CASE /\ a + b < i /\ i <= a + b + c
             /\ e[i] = Token("ERROR", i - 1 - a - b)
    BY <1>1, <1>2, <1>k, <2>3
  <2>4. CASE a + b + c < i /\ e[i] = Token("FAILED", i - 1 - a - b - c)
    BY <1>1, <1>2, <1>k, <2>4
  <2> QED
    BY <1>v, <2>1, <2>2, <2>3, <2>4
<1>w. ASSUME NEW i \in I
      PROVE  \/ e[i][2] = "CLEAN" /\ e[i][3] = i - 1
             \/ e[i][2] = "INFECTED" /\ e[i][3] = i - 1 - a
             \/ e[i][2] = "ERROR" /\ e[i][3] = i - 1 - a - b
             \/ e[i][2] = "FAILED" /\ e[i][3] = i - 1 - a - b - c
  BY <1>v
<1>i. ASSUME NEW i \in I, NEW j \in I, e[i] = e[j] PROVE i = j
  <2>1. i \in Int /\ j \in Int
    BY <1>k
  <2>2. e[i][2] = e[j][2] /\ e[i][3] = e[j][3]
    BY <1>i
  <2>3. \/ i - 1 = j - 1 \/ i - 1 - a = j - 1 - a
        \/ i - 1 - a - b = j - 1 - a - b
        \/ i - 1 - a - b - c = j - 1 - a - b - c
    BY <1>w, <2>2
  <2> QED
    BY <1>1, <2>1, <2>3
<1>4. e \in Injection(I, Reported(f))
  <2>1. e \in [I -> Reported(f)]
    BY <1>3, <1>d
  <2> QED
    BY <1>i, <2>1 DEF Injection, IsInjective
<1>5. Cardinality(I) <= Cardinality(Reported(f))
  BY <1>4, FS_Injection DEF Budget
<1>6. Cardinality(I) = a + b + c + d
  <2>1. a + b + c + d \in Nat
    BY <1>1
  <2> QED
    BY <2>1, FS_Interval DEF I
<1>7. Cardinality(Reported(f)) \in Nat /\ Cardinality(Reported(f)) <= n
  BY FS_CardinalityType DEF Budget
<1> QED
  BY <1>1, <1>5, <1>6, <1>7 DEF a, b, c, d

\* The same for its ScanStarted events.
LEMMA AnnouncedCount ==
  ASSUME TypeOK, NEW f \in Files, NEW n \in Nat, Budget(Announced(f), n)
  PROVE  started[f] <= n
<1> DEFINE I == 1 .. started[f]
           e == [i \in I |-> <<"published", 0, i - 1>>]
<1>1. started[f] \in Nat
  BY DEF TypeOK
<1>2. \A i \in I : e[i] \in Announced(f)
  BY <1>1 DEF Announced, Stock
<1>3. \A i, j \in I : e[i] = e[j] => i = j
  BY <1>1
<1>4. e \in Injection(I, Announced(f))
  <2>1. e \in [I -> Announced(f)]
    BY <1>2
  <2> HIDE DEF e
  <2> QED
    BY <1>3, <2>1 DEF Injection, IsInjective
<1>5. Cardinality(I) <= Cardinality(Announced(f))
  BY <1>4, FS_Injection DEF Budget
<1>6. Cardinality(I) = started[f]
  BY <1>1, FS_Interval
<1>7. Cardinality(Announced(f)) \in Nat /\ Cardinality(Announced(f)) <= n
  BY FS_CardinalityType DEF Budget
<1> QED
  BY <1>1, <1>5, <1>6, <1>7

\* Initially a file is one queued copy, without retries.
LEMMA InitPaid == Init => ResultsPaid /\ StartsPaid /\ StartsFirst
<1> SUFFICES ASSUME Init PROVE ResultsPaid /\ StartsPaid /\ StartsFirst
  OBVIOUS
<1>1. 1 + faults = 1
  BY DEF Init
<1>2. ASSUME NEW S, NEW x, S \subseteq {x} PROVE Budget(S, 1)
  <2>1. IsFiniteSet({x}) /\ Cardinality({x}) = 1
    BY FS_Singleton
  <2>2. Budget({x}, 1)
    BY <2>1 DEF Budget
  <2> QED
    BY <1>2, <2>2, BudgetShrink
<1>3. ASSUME NEW f \in Files, NEW Lvs \in SUBSET Levels, NEW Sts, "idle" \notin Sts
      PROVE  Pending(f, Lvs, Sts) \subseteq {<<"queue", 0, 0>>}
  <2>1. Handlers(f, Lvs, Sts) = {}
    BY <1>3 DEF Init, Handlers
  <2>2. Stock("delayed", Lvs, delayed[f]) = {}
    BY <1>3 DEF Init, Stock
  <2>3. Stock("queue", Lvs, queue[f]) \subseteq {<<"queue", 0, 0>>}
    <3>1. \A n \in Lvs : queue[f][n] = IF n = 0 THEN 1 ELSE 0
      BY <1>3 DEF Init
    <3> QED
      BY <3>1 DEF Stock
  <2> QED
    BY <2>1, <2>2, <2>3 DEF Pending
<1>4. ASSUME NEW f \in Files PROVE Reported(f) = {} /\ Announced(f) = {}
  BY DEF Init, Reported, Announced, Stock
<1>5. {0} \in SUBSET Levels /\ Levels \in SUBSET Levels
  BY ScanPipelineAssumption DEF Levels
<1>6. ASSUME NEW f \in Files PROVE Budget(ResultTokens(f), 1)
  <2>1. "idle" \notin Running
    BY DEF Running
  <2>2. ResultTokens(f) \subseteq {<<"queue", 0, 0>>}
    BY <1>3, <1>4, <1>5, <2>1 DEF ResultTokens
  <2> QED
    BY <1>2, <2>2
<1>7. ASSUME NEW f \in Files PROVE Budget(StartTokens(f), 1)
  <2>1. "idle" \notin Fresh
    BY DEF Fresh
  <2>2. StartTokens(f) \subseteq {<<"queue", 0, 0>>}
    BY <1>3, <1>4, <1>5, <2>1 DEF StartTokens
  <2> QED
    BY <1>2, <2>2
<1>8. StartsFirst
  BY DEF Init, StartsFirst
<1> QED
  BY <1>1, <1>6, <1>7, <1>8 DEF ResultsPaid, StartsPaid

\* However many replicas, retries and redeliveries there are, a file has at most
\* one terminal message and one ScanStarted event more than there were faults:
\* without a fault the pipeline never publishes twice (HandleScanMessage settles
\* each delivery once, and a retry replaces the delivery it follows).
THEOREM DuplicatesNeedFaultsHolds == Spec => []DuplicatesNeedFaults
<1> DEFINE Inv == TypeInv /\ ResultsPaid /\ StartsPaid /\ StartsFirst
<1>1. Init => Inv
  BY InitTyped, InitPaid
<1>2. Inv /\ [Next]_vars => Inv'
  BY TypeStep, ResultsStep, StartsStep, StartsFirstStep
<1>3. Inv => DuplicatesNeedFaults
  <2> SUFFICES ASSUME Inv, NEW f \in Files
               PROVE  /\ results[f]["CLEAN"] + results[f]["INFECTED"]
                           + results[f]["ERROR"] + results[f]["FAILED"] <= 1 + faults
                      /\ started[f] <= 1 + faults
    BY DEF DuplicatesNeedFaults
  <2>1. TypeOK
    BY DEF TypeInv
  <2>2. 1 + faults \in Nat
    BY <2>1, ScanPipelineAssumption DEF TypeOK
  <2>3. Reported(f) \subseteq ResultTokens(f) /\ Announced(f) \subseteq StartTokens(f)
    BY DEF ResultTokens, StartTokens
  <2>4. Budget(Reported(f), 1 + faults) /\ Budget(Announced(f), 1 + faults)
    BY <2>2, <2>3, BudgetShrink DEF ResultsPaid, StartsPaid
  <2> QED
    BY <2>1, <2>2, <2>4, ReportedCount, AnnouncedCount
<1> QED
  BY <1>1, <1>2, <1>3, PTL DEF Spec

=============================================================================

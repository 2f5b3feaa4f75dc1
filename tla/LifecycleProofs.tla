--------------------------- MODULE LifecycleProofs ---------------------------
(***************************************************************************)
(* Theorems about Lifecycle and Metrics, for any number of handlers, calls *)
(* and collectors and any number of faults: the type invariant, and the    *)
(* safety properties of the metrics and of the probes.  All of them follow *)
(* from one inductive invariant, TypeOK /\ ProcessInv.                     *)
(***************************************************************************)
EXTENDS Lifecycle, SequenceTheorems, FiniteSetTheorems, TLAPS

\* What a step of the process is for the metrics.
Asks(g) ==
  /\ stage[g] = "none"
  /\ Ask(g)
  /\ UNCHANGED <<instance, got, registry, raced, recording>>

Records(h) == got["main"] # None /\ (CallReturns(h) \/ WriteMetric(h))

-----------------------------------------------------------------------------
(* The creation of the instance.                                           *)

LEMMA TwoGoroutines ==
  \A e, f, g \in Goroutine : e # f /\ g # f => e = g
  BY DEF Goroutine

LEMMA AsksKeepsCreation ==
  ASSUME MetricsTypeOK, CreationInv, NEW a \in Goroutine, Asks(a)
  PROVE  MetricsTypeOK' /\ CreationInv'
  <1>1. /\ stage' = [stage EXCEPT ![a] = "check"] /\ stage[a] = "none"
        /\ stage \in [Goroutine -> {"none", "check", "create", "register", "done"}]
        /\ UNCHANGED <<instance, got, registry, raced, call, finished, counted, gauges, overlap>>
    BY DEF Asks, Ask, MetricsTypeOK, recording
  <1>2. MetricsTypeOK'
    BY <1>1 DEF MetricsTypeOK
  <1>3. CreationInv'
    BY <1>1 DEF CreationInv
  <1>4. QED  BY <1>2, <1>3

LEMMA CheckKeepsCreation ==
  ASSUME MetricsTypeOK, CreationInv, NEW a \in Goroutine, Check(a)
  PROVE  MetricsTypeOK' /\ CreationInv'
  <1>1. /\ stage[a] = "check"
        /\ stage \in [Goroutine -> {"none", "check", "create", "register", "done"}]
        /\ got \in [Goroutine -> Goroutine \cup {None}]
        /\ UNCHANGED <<instance, registry, call, finished, counted, gauges, overlap>>
    BY DEF Check, MetricsTypeOK, recording
  <1>2. CASE instance = None
    <2>1. /\ stage' = [stage EXCEPT ![a] = "create"]
          /\ raced' = (raced \/ \E f \in Goroutine \ {a} : stage[f] = "create")
          /\ UNCHANGED got
      BY <1>2 DEF Check, MustCreate
    <2>2. ~raced' => ~raced /\ \A f \in Goroutine \ {a} : stage[f] # "create"
      BY <2>1, Zenon
    <2>3. /\ stage'[a] = "create" /\ \A g \in Goroutine \ {a} : stage'[g] = stage[g]
          /\ UNCHANGED <<got, registry, instance>>
      BY <1>1, <2>1
    <2>4. MetricsTypeOK'
      BY <1>1, <2>1 DEF MetricsTypeOK
    <2>5. CreationInv'
      BY <1>1, <1>2, <2>2, <2>3 DEF CreationInv
    <2>6. QED  BY <2>4, <2>5
  <1>3. CASE instance # None
    <2>1. /\ stage' = [stage EXCEPT ![a] = "done"]
          /\ got' = [got EXCEPT ![a] = instance]
          /\ UNCHANGED raced
      BY <1>3 DEF Check, MustCreate
    <2>2. MetricsTypeOK'
      BY <1>1, <1>3, <2>1 DEF MetricsTypeOK
    <2>3. /\ stage'[a] = "done" /\ \A g \in Goroutine \ {a} : stage'[g] = stage[g]
          /\ got'[a] = instance /\ \A g \in Goroutine \ {a} : got'[g] = got[g]
          /\ UNCHANGED <<raced, registry, instance>>
          /\ instance # a
      BY <1>1, <2>1 DEF CreationInv
    <2>4. CreationInv'
      BY <1>1, <1>3, <2>3, TwoGoroutines DEF CreationInv
    <2>5. QED  BY <2>2, <2>4
  <1>4. QED  BY <1>2, <1>3

LEMMA CreateKeepsCreation ==
  ASSUME MetricsTypeOK, CreationInv, NEW a \in Goroutine, Create(a)
  PROVE  MetricsTypeOK' /\ CreationInv'
  <1>1. /\ stage[a] = "create" /\ instance' = a
        /\ stage' = [stage EXCEPT ![a] = "register"]
        /\ stage \in [Goroutine -> {"none", "check", "create", "register", "done"}]
        /\ got \in [Goroutine -> Goroutine \cup {None}]
        /\ UNCHANGED <<got, registry, raced, call, finished, counted, gauges, overlap>>
    BY DEF Create, MetricsTypeOK, recording
  <1>2. MetricsTypeOK'
    BY <1>1 DEF MetricsTypeOK
  <1>3. CreationInv'
    BY <1>1, TwoGoroutines, MetricsAssumption DEF CreationInv
  <1>4. QED  BY <1>2, <1>3

LEMMA RegisterKeepsCreation ==
  ASSUME MetricsTypeOK, CreationInv, NEW a \in Goroutine, Register(a)
  PROVE  MetricsTypeOK' /\ CreationInv'
  <1>1. /\ stage[a] = "register" /\ instance \in Goroutine
        /\ stage \in [Goroutine -> {"none", "check", "create", "register", "done"}]
        /\ got \in [Goroutine -> Goroutine \cup {None}]
        /\ registry \in [Goroutine -> Seq(Goroutine)]
        /\ \A g \in Goroutine : Len(registry[g]) <= Collectors
        /\ UNCHANGED <<instance, raced, call, finished, counted, gauges, overlap>>
        /\ Collectors \in Nat
    BY MetricsAssumption DEF Register, MetricsTypeOK, recording, CreationInv
  <1>2. CASE Len(registry[a]) < Collectors
    <2>1. registry' = [registry EXCEPT ![a] = Append(@, instance)] /\ UNCHANGED <<stage, got>>
      BY <1>2 DEF Register
    <2>2. /\ registry'[a] \in Seq(Goroutine) /\ Len(registry'[a]) = Len(registry[a]) + 1
          /\ \A i \in 1..Len(registry[a]) : registry'[a][i] = registry[a][i]
          /\ registry'[a][Len(registry[a]) + 1] = instance
          /\ \A g \in Goroutine \ {a} : registry'[g] = registry[g]
      BY <1>1, <2>1
    <2>3. MetricsTypeOK'
      BY <1>1, <1>2, <2>1, <2>2 DEF MetricsTypeOK
    <2>4. CreationInv'
      BY <1>1, <2>1, <2>2, TwoGoroutines, MetricsAssumption DEF CreationInv
    <2>5. QED  BY <2>3, <2>4
  <1>3. CASE Len(registry[a]) >= Collectors
    <2>1. /\ stage' = [stage EXCEPT ![a] = "done"] /\ got' = [got EXCEPT ![a] = instance]
          /\ UNCHANGED registry
      BY <1>1, <1>3 DEF Register, Current
    <2>2. MetricsTypeOK'
      BY <1>1, <2>1 DEF MetricsTypeOK
    <2>3. Len(registry[a]) = Collectors
      BY <1>1, <1>3
    <2>4. CreationInv'
      BY <1>1, <2>1, <2>3, TwoGoroutines, MetricsAssumption DEF CreationInv
    <2>5. QED  BY <2>2, <2>4
  <1>4. QED  BY <1>1, <1>2, <1>3

-----------------------------------------------------------------------------
(* The steps of writeMetrics.                                              *)

\* Who has yet to count has a todo that begins with it.
LEMMA CountComesFirst ==
  /\ "count" \notin ToSet(<<>>)
  /\ \A t \in Todo : "count" \in ToSet(t) <=> Head(t) = "count"
  <1>1. "count" \notin ToSet(<<>>)
    BY DEF ToSet
  <1>2. ASSUME NEW t \in Todo
        PROVE  "count" \in ToSet(t) <=> Head(t) = "count"
    <2>1. CASE t = <<"count">> \/ t = <<"count", "limit", "remaining", "reset">>
      <3>1. 1 \in DOMAIN t /\ t[1] = "count" /\ Head(t) = "count"
        BY <2>1
      <3>2. QED  BY <3>1 DEF ToSet
    <2>2. CASE t = <<"limit", "remaining", "reset">>
      <3>1. DOMAIN t = 1..3 /\ Head(t) # "count" /\ \A i \in 1..3 : t[i] # "count"
        BY <2>2
      <3>2. QED  BY <3>1 DEF ToSet
    <2>3. CASE t = <<"remaining", "reset">>
      <3>1. DOMAIN t = 1..2 /\ Head(t) # "count" /\ \A i \in 1..2 : t[i] # "count"
        BY <2>3
      <3>2. QED  BY <3>1 DEF ToSet
    <2>4. CASE t = <<"reset">>
      <3>1. DOMAIN t = 1..1 /\ Head(t) # "count" /\ \A i \in 1..1 : t[i] # "count"
        BY <2>4
      <3>2. QED  BY <3>1 DEF ToSet
    <2>5. QED  BY <2>1, <2>2, <2>3, <2>4 DEF Todo
  <1>3. QED  BY <1>1, <1>2

\* What follows each step of writeMetrics.
LEMMA TodoSteps ==
  \A t \in Todo :
    /\ t # <<>> /\ t \in Seq(Header \cup {"count"})
    /\ \/ Len(t) = 1 /\ Head(t) \in {"count", "reset"}
       \/ /\ Len(t) # 1 /\ Tail(t) \in Todo
          /\ \/ Head(t) = "count" /\ Head(Tail(t)) = "limit"
             \/ Head(t) = "limit" /\ Head(Tail(t)) = "remaining"
             \/ Head(t) = "remaining" /\ Head(Tail(t)) = "reset"
  <1> SUFFICES ASSUME NEW t \in Todo
               PROVE  /\ t # <<>> /\ t \in Seq(Header \cup {"count"})
                      /\ \/ Len(t) = 1 /\ Head(t) \in {"count", "reset"}
                         \/ /\ Len(t) # 1 /\ Tail(t) \in Todo
                            /\ \/ Head(t) = "count" /\ Head(Tail(t)) = "limit"
                               \/ Head(t) = "limit" /\ Head(Tail(t)) = "remaining"
                               \/ Head(t) = "remaining" /\ Head(Tail(t)) = "reset"
    OBVIOUS
  <1>1. CASE t = <<"count">>
    BY <1>1 DEF Header
  <1>6. CASE t = <<"reset">>
    BY <1>6 DEF Header
  <1>2. CASE t = <<"count", "limit", "remaining", "reset">>
    <2>1. Tail(t) = <<"limit", "remaining", "reset">>
      BY <1>2
    <2>2. QED  BY <1>2, <2>1 DEF Todo, Header
  <1>3. CASE t = <<"limit", "remaining", "reset">>
    <2>1. Tail(t) = <<"remaining", "reset">>
      BY <1>3
    <2>2. QED  BY <1>3, <2>1 DEF Todo, Header
  <1>4. CASE t = <<"remaining", "reset">>
    <2>1. Tail(t) = <<"reset">>
      BY <1>4
    <2>2. QED  BY <1>4, <2>1 DEF Todo, Header
  <1>5. QED  BY <1>1, <1>2, <1>3, <1>4, <1>6 DEF Todo

\* A call that returns is counted, and its rate limit shown or not.
LEMMA WritesTodo ==
  ASSUME NEW headers
  PROVE  writeMetrics(headers) \in Todo /\ Head(writeMetrics(headers)) = "count"
  <1>1. CASE headers = Header
    <2>1. writeMetrics(headers) = <<"count">> \o <<"limit", "remaining", "reset">>
      BY <1>1 DEF writeMetrics, parseRateLimit
    <2>2. <<"count">> \o <<"limit", "remaining", "reset">> =
            <<"count", "limit", "remaining", "reset">>
      <3> DEFINE s == <<"count">>
                 t == <<"limit", "remaining", "reset">>
      <3>1. /\ s \in Seq({"count"} \cup Header) /\ Len(s) = 1 /\ s[1] = "count"
            /\ t \in Seq({"count"} \cup Header) /\ Len(t) = 3
            /\ t[1] = "limit" /\ t[2] = "remaining" /\ t[3] = "reset"
        BY DEF Header
      <3> HIDE DEF s, t
      <3>2. /\ s \o t \in Seq({"count"} \cup Header) /\ Len(s \o t) = 4
            /\ (s \o t)[1] = "count" /\ (s \o t)[2] = "limit"
            /\ (s \o t)[3] = "remaining" /\ (s \o t)[4] = "reset"
        <4>1. /\ s \o t \in Seq({"count"} \cup Header) /\ Len(s \o t) = Len(s) + Len(t)
              /\ \A i \in 1..Len(s) + Len(t) :
                   (s \o t)[i] = IF i <= Len(s) THEN s[i] ELSE t[i - Len(s)]
          BY <3>1, ConcatProperties
        <4>2. /\ (s \o t)[1] = s[1] /\ (s \o t)[2] = t[2 - 1]
              /\ (s \o t)[3] = t[3 - 1] /\ (s \o t)[4] = t[4 - 1]
          BY <3>1, <4>1
        <4>3. 2 - 1 = 1 /\ 3 - 1 = 2 /\ 4 - 1 = 3
          OBVIOUS
        <4>4. QED  BY <3>1, <4>1, <4>2, <4>3
      <3>3. s \o t = <<"count", "limit", "remaining", "reset">>
        <4> DEFINE u == <<"count", "limit", "remaining", "reset">>
        <4>1. u \in Seq({"count"} \cup Header) /\ Len(u) = Len(s \o t)
          BY <3>2 DEF Header
        <4>2. \A i \in 1..Len(s \o t) : u[i] = (s \o t)[i]
          BY <3>2
        <4>3. QED  BY <3>2, <4>1, <4>2, SeqEqual
      <3>4. QED  BY <3>3 DEF s, t
    <2>3. QED  BY <2>1, <2>2 DEF Todo
  <1>2. CASE headers # Header
    <2>1. writeMetrics(headers) = <<"count">> \o <<>>
      BY <1>2 DEF writeMetrics, parseRateLimit
    <2>2. writeMetrics(headers) = <<"count">>
      BY <2>1
    <2>3. QED  BY <2>2 DEF Todo
  <1>3. QED  BY <1>1, <1>2

LEMMA ReturnKeepsRecording ==
  ASSUME MetricsTypeOK, RecordingInv, GaugesInv, got["main"] # None,
         NEW h \in Handler, CallReturns(h)
  PROVE  MetricsTypeOK' /\ RecordingInv' /\ GaugesInv'
  <1>1. PICK headers : call' = [call EXCEPT ![h] = [id |-> finished + 1,
                                                  todo |-> writeMetrics(headers)]]
    BY DEF CallReturns
  <1>2. /\ call[h].todo = <<>> /\ finished < MaxCalls /\ finished' = finished + 1
        /\ UNCHANGED <<instance, stage, got, registry, raced, counted, gauges, overlap>>
        /\ finished \in Nat /\ MaxCalls \in Nat
    BY MetricsAssumption DEF CallReturns, creation, MetricsTypeOK
  <1>3. DEFINE t == writeMetrics(headers)
  <1>4. t \in Todo /\ Head(t) = "count" /\ t \in Seq(Header \cup {"count"}) /\ t # <<>>
    BY WritesTodo, TodoSteps
  <1> HIDE DEF t
  <1>5. /\ call'[h] = [id |-> finished + 1, todo |-> t]
        /\ call'[h].id = finished + 1 /\ call'[h].todo = t
        /\ \A k \in Handler \ {h} : call'[k] = call[k]
    BY <1>1 DEF MetricsTypeOK, t
  <1>6. MetricsTypeOK'
    BY <1>1, <1>2, <1>4, <1>5 DEF MetricsTypeOK, t
  <1>7. Setting' = Setting
    <2>1. h \notin Setting
      BY <1>2 DEF Setting
    <2>2. h \notin Setting'
      BY <1>4, <1>5 DEF Setting, Header
    <2>3. QED  BY <1>5, <2>1, <2>2 DEF Setting
  <1>8. RecordingInv'
    <2>1. h \notin Counting
      BY <1>2, CountComesFirst DEF Counting
    <2>2. h \in Counting'
      BY <1>4, <1>5, CountComesFirst DEF Counting
    <2>3. Counting' = Counting \cup {h}
      BY <1>5, <2>1, <2>2 DEF Counting
    <2>4. /\ IsFiniteSet(Counting')
          /\ Cardinality(Counting') = Cardinality(Counting) + 1
          /\ Cardinality(Counting) \in Nat
      BY <2>1, <2>3, FS_AddElement, FS_CardinalityType DEF RecordingInv
    <2>5. counted[got["main"]] \in Nat
      BY DEF MetricsTypeOK, Goroutine
    <2>6. QED  BY <1>2, <2>4, <2>5 DEF RecordingInv
  <1>9. GaugesInv'
    <2>1. \A k \in Handler : call'[k] # NoCall => call'[k].id > 0 /\ call'[k].todo \in Todo
      BY <1>2, <1>4, <1>5 DEF GaugesInv
    <2>2. \A k \in Setting : k # h
      BY <1>2 DEF Setting
    <2>3. QED  BY <1>2, <1>5, <1>7, <2>1, <2>2 DEF GaugesInv, Setting
  <1>10. QED  BY <1>6, <1>8, <1>9

LEMMA NoCallTyped ==
  NoCall \in [id : 0..MaxCalls, todo : Seq(Header \cup {"count"})]
  BY MetricsAssumption DEF NoCall

\* What a step of writeMetrics leaves to be done.
LEMMA WriteLeaves ==
  ASSUME MetricsTypeOK, GaugesInv, NEW h \in Handler, WriteMetric(h)
  PROVE  /\ call[h] # NoCall /\ call[h].todo \in Todo /\ call[h].id \in 1..MaxCalls
         /\ \A k \in Handler \ {h} : call'[k] = call[k]
         /\ \/ /\ Head(call[h].todo) \in {"count", "reset"}
               /\ call'[h] = NoCall
            \/ /\ call'[h].id = call[h].id /\ call'[h].todo \in Todo
               /\ call'[h] \in [id : 0..MaxCalls, todo : Seq(Header \cup {"count"})]
               /\ \/ Head(call[h].todo) = "count" /\ Head(call'[h].todo) = "limit"
                  \/ Head(call[h].todo) = "limit" /\ Head(call'[h].todo) = "remaining"
                  \/ Head(call[h].todo) = "remaining" /\ Head(call'[h].todo) = "reset"
  <1>1. call[h].todo # <<>> /\ call[h] # NoCall
    BY DEF WriteMetric, NoCall
  <1>2. /\ call[h].todo \in Todo /\ call[h].id > 0
        /\ call[h] \in [id : 0..MaxCalls, todo : Seq(Header \cup {"count"})]
    BY <1>1 DEF GaugesInv, MetricsTypeOK
  <1>3. call[h].id \in 1..MaxCalls
    BY <1>2, MetricsAssumption
  <1>4. \A k \in Handler \ {h} : call'[k] = call[k]
    BY DEF WriteMetric, MetricsTypeOK
  <1>5. CASE Len(call[h].todo) = 1
    <2>1. call'[h] = NoCall
      BY <1>5 DEF WriteMetric, Rest, MetricsTypeOK
    <2>2. Head(call[h].todo) \in {"count", "reset"}
      BY <1>2, <1>5, TodoSteps
    <2>3. QED  BY <1>1, <1>2, <1>3, <1>4, <2>1, <2>2
  <1>6. CASE Len(call[h].todo) # 1
    <2>1. call'[h] = [call[h] EXCEPT !.todo = Tail(call[h].todo)]
      <3>1. call' = [call EXCEPT ![h] = [call[h] EXCEPT !.todo = Tail(call[h].todo)]]
        BY <1>6 DEF WriteMetric, Rest
      <3>2. QED  BY <3>1 DEF MetricsTypeOK
    <2>2. call'[h].id = call[h].id /\ call'[h].todo = Tail(call[h].todo)
      BY <1>2, <2>1
    <2>3. /\ Tail(call[h].todo) \in Todo
          /\ \/ Head(call[h].todo) = "count" /\ Head(Tail(call[h].todo)) = "limit"
             \/ Head(call[h].todo) = "limit" /\ Head(Tail(call[h].todo)) = "remaining"
             \/ Head(call[h].todo) = "remaining" /\ Head(Tail(call[h].todo)) = "reset"
      BY <1>2, <1>6, TodoSteps
    <2>4. call'[h] \in [id : 0..MaxCalls, todo : Seq(Header \cup {"count"})]
      BY <1>2, <2>1, <2>3, TodoSteps
    <2>5. QED  BY <1>1, <1>2, <1>3, <1>4, <2>2, <2>3, <2>4
  <1>7. QED  BY <1>5, <1>6

\* Counting a call.
LEMMA CountKeepsRecording ==
  ASSUME MetricsTypeOK, RecordingInv, GaugesInv, got["main"] # None,
         NEW h \in Handler, WriteMetric(h), Head(call[h].todo) = "count"
  PROVE  MetricsTypeOK' /\ RecordingInv' /\ GaugesInv'
  <1> DEFINE m == got["main"]
  <1>1. /\ counted' = [counted EXCEPT ![m] = @ + 1]
        /\ UNCHANGED <<instance, stage, got, registry, raced, finished, gauges, overlap>>
        /\ m \in Goroutine /\ MaxCalls \in Nat
        /\ finished \in 0..MaxCalls /\ counted \in [Goroutine -> 0..MaxCalls]
    BY MetricsAssumption DEF WriteMetric, creation, MetricsTypeOK, Goroutine
  <1>2. /\ call[h].todo \in Todo
        /\ \A k \in Handler \ {h} : call'[k] = call[k]
        /\ \/ call'[h] = NoCall
           \/ /\ call'[h].id = call[h].id /\ call'[h].todo \in Todo /\ call[h].id > 0
              /\ Head(call'[h].todo) = "limit"
        /\ call'[h] \in [id : 0..MaxCalls, todo : Seq(Header \cup {"count"})]
    <2>1. NoCall \in [id : 0..MaxCalls, todo : Seq(Header \cup {"count"})]
      BY <1>1, NoCallTyped
    <2>2. QED  BY <1>1, <2>1, WriteLeaves
  <1>3. h \in Counting /\ h \notin Counting' /\ h \notin Setting /\ h \notin Setting'
    BY <1>2, CountComesFirst DEF Counting, Setting, Header, NoCall
  <1>4. Counting' = Counting \ {h} /\ Setting' = Setting
    BY <1>2, <1>3 DEF Counting, Setting
  <1>5. /\ IsFiniteSet(Counting')
        /\ Cardinality(Counting') = Cardinality(Counting) - 1
        /\ Cardinality(Counting) \in Nat /\ Cardinality(Counting') \in Nat
    BY <1>3, <1>4, FS_RemoveElement, FS_CardinalityType DEF RecordingInv
  <1>6. counted[m] + Cardinality(Counting) = finished
    BY DEF RecordingInv
  <1>7. /\ counted'[m] = counted[m] + 1 /\ counted[m] \in Nat
        /\ \A g \in Goroutine \ {m} : counted'[g] = counted[g]
    BY <1>1
  <1>8. counted[m] + 1 \in 0..MaxCalls
    BY <1>1, <1>5, <1>6, <1>7
  <1>9. call' \in [Handler -> [id : 0..MaxCalls, todo : Seq(Header \cup {"count"})]]
    BY <1>2 DEF WriteMetric, MetricsTypeOK
  <1>10. MetricsTypeOK'
    BY <1>1, <1>8, <1>9 DEF MetricsTypeOK
  <1>11. RecordingInv'
    BY <1>1, <1>5, <1>6, <1>7 DEF RecordingInv
  <1>12. GaugesInv'
    <2>1. \A k \in Handler : call'[k] # NoCall => call'[k].id > 0 /\ call'[k].todo \in Todo
      BY <1>2 DEF GaugesInv
    <2>2. QED  BY <1>1, <1>2, <1>3, <1>4, <2>1 DEF GaugesInv, Setting
  <1>13. QED  BY <1>10, <1>11, <1>12

\* Setting a gauge.
LEMMA GaugeKeepsRecording ==
  ASSUME MetricsTypeOK, RecordingInv, GaugesInv, got["main"] # None,
         NEW h \in Handler, WriteMetric(h), Head(call[h].todo) # "count"
  PROVE  MetricsTypeOK' /\ RecordingInv' /\ GaugesInv'
  <1> DEFINE m == got["main"]
             x == Head(call[h].todo)
  <1>1. /\ gauges' = [gauges EXCEPT ![m][x] = call[h].id]
        /\ overlap' = IF x = "limit" THEN Setting # {} ELSE overlap
        /\ UNCHANGED <<instance, stage, got, registry, raced, finished, counted>>
    BY DEF WriteMetric, creation
  <1>2. /\ m \in Goroutine /\ MaxCalls \in Nat
        /\ gauges \in [Goroutine -> [Header -> 0..MaxCalls]] /\ overlap \in BOOLEAN
    BY MetricsAssumption DEF MetricsTypeOK, Goroutine
  <1>3. /\ call[h].todo \in Todo /\ call[h].todo # <<>> /\ call[h].id \in 1..MaxCalls
        /\ x \in Header
        /\ \A k \in Handler \ {h} : call'[k] = call[k]
        /\ \/ x = "reset" /\ call'[h] = NoCall
           \/ /\ call'[h].id = call[h].id /\ call'[h].todo \in Todo /\ call'[h].todo # <<>>
              /\ \/ x = "limit" /\ Head(call'[h].todo) = "remaining"
                 \/ x = "remaining" /\ Head(call'[h].todo) = "reset"
        /\ call'[h] \in [id : 0..MaxCalls, todo : Seq(Header \cup {"count"})]
    <2>1. NoCall \in [id : 0..MaxCalls, todo : Seq(Header \cup {"count"})]
      BY <1>2, NoCallTyped
    <2>2. x \in Header
      BY WriteLeaves, TodoSteps DEF Header
    <2>3. QED  BY <1>2, <2>1, <2>2, WriteLeaves, TodoSteps
  <1>4. h \notin Counting /\ h \notin Counting'
    BY <1>3, CountComesFirst DEF Counting, NoCall
  <1>5. Counting' = Counting
    BY <1>3, <1>4 DEF Counting
  <1>6. /\ gauges'[m][x] = call[h].id
        /\ \A y \in Header \ {x} : gauges'[m][y] = gauges[m][y]
        /\ \A g \in Goroutine \ {m} : gauges'[g] = gauges[g]
        /\ gauges' \in [Goroutine -> [Header -> 0..MaxCalls]]
    BY <1>1, <1>2, <1>3
  <1>7. call' \in [Handler -> [id : 0..MaxCalls, todo : Seq(Header \cup {"count"})]]
    BY <1>3 DEF WriteMetric, MetricsTypeOK
  <1>8. MetricsTypeOK'
    <2>1. overlap' \in BOOLEAN
      BY <1>1, <1>2, Zenon
    <2>2. QED  BY <1>1, <1>6, <1>7, <2>1 DEF MetricsTypeOK
  <1>9. RecordingInv'
    BY <1>1, <1>5, <1>6 DEF RecordingInv
  <1>10. GaugesInv'
    <2>1. \A k \in Handler : call'[k] # NoCall => call'[k].id > 0 /\ call'[k].todo \in Todo
      BY <1>3 DEF GaugesInv
    <2>2. ASSUME ~overlap'
          PROVE  /\ \A k \in Setting' :
                      /\ Setting' = {k}
                      /\ gauges'[m]["limit"] = call'[k].id
                      /\ Head(call'[k].todo) = "reset" => gauges'[m]["remaining"] = call'[k].id
                 /\ Setting' = {} => \A y, z \in Header : gauges'[m][y] = gauges'[m][z]
      <3>1. CASE x = "limit"
        <4>1. Setting = {}
          BY <1>1, <2>2, <3>1
        <4>2. Setting' = {h} /\ Head(call'[h].todo) = "remaining" /\ call'[h].id = call[h].id
          BY <1>3, <3>1, <4>1 DEF Setting, Header
        <4>3. gauges'[m]["limit"] = call[h].id
          BY <1>6, <3>1
        <4>4. QED  BY <4>2, <4>3
      <3>2. CASE x \in {"remaining", "reset"}
        <4>1. ~overlap
          BY <1>1, <2>2, <3>2
        <4>2. h \in Setting
          BY <1>3, <3>2 DEF Setting, Header
        <4>3. /\ Setting = {h} /\ gauges[m]["limit"] = call[h].id
              /\ x = "reset" => gauges[m]["remaining"] = call[h].id
          BY <4>1, <4>2 DEF GaugesInv
        <4>4. Setting' \subseteq {h}
          BY <1>3, <4>3 DEF Setting
        <4>5. gauges'[m]["limit"] = call[h].id
          BY <1>6, <3>2, <4>3 DEF Header
        <4>6. CASE x = "remaining"
          <5>1. /\ Setting' = {h} /\ call'[h].id = call[h].id
                /\ gauges'[m]["remaining"] = call[h].id
            BY <1>3, <1>6, <4>4, <4>6 DEF Setting, Header
          <5>2. QED  BY <4>5, <5>1
        <4>7. CASE x = "reset"
          <5>1. Setting' = {}
            BY <1>3, <4>4, <4>7 DEF Setting, NoCall
          <5>2. gauges'[m]["remaining"] = call[h].id /\ gauges'[m]["reset"] = call[h].id
            BY <1>6, <4>3, <4>7 DEF Header
          <5>3. QED  BY <4>5, <5>1, <5>2 DEF Header
        <4>8. QED  BY <3>2, <4>6, <4>7
      <3>3. QED  BY <1>3, <3>1, <3>2 DEF Header
    <2>3. QED  BY <1>1, <2>1, <2>2 DEF GaugesInv
  <1>11. QED  BY <1>8, <1>9, <1>10

-----------------------------------------------------------------------------
(* The metrics as a whole.                                                 *)

MetricsInv == MetricsTypeOK /\ CreationInv /\ RecordingInv /\ GaugesInv

MetricsStep ==
  \/ \E g \in Goroutine : Asks(g) \/ GetOpenMetricsInstance(g)
  \/ \E h \in Handler : Records(h)
  \/ MetricsLost
  \/ UNCHANGED package

\* Nothing is recorded before main has its instance.
LEMMA NothingRecorded ==
  ASSUME GaugesInv, RecordingInv, got["main"] = None
  PROVE  Counting = {} /\ Setting = {}
  BY CountComesFirst DEF RecordingInv, Counting, Setting, NoCall

LEMMA NothingAtFirst ==
  ASSUME instance = None,
         stage = [g \in Goroutine |-> "none"], got = [g \in Goroutine |-> None],
         registry = [g \in Goroutine |-> <<>>], raced = FALSE,
         call = [h \in Handler |-> NoCall], finished = 0,
         counted = [g \in Goroutine |-> 0],
         gauges = [g \in Goroutine |-> [x \in Header |-> 0]], overlap = FALSE
  PROVE  MetricsInv
  <1>1. MetricsTypeOK
    <2>1. registry \in [Goroutine -> Seq(Goroutine)] /\ \A g \in Goroutine : Len(registry[g]) = 0
      OBVIOUS
    <2>2. call \in [Handler -> [id : 0..MaxCalls, todo : Seq(Header \cup {"count"})]]
      BY NoCallTyped
    <2>3. 0 \in 0..MaxCalls /\ \A g \in Goroutine : Len(registry[g]) <= Collectors
      BY MetricsAssumption, <2>1
    <2>4. /\ counted \in [Goroutine -> 0..MaxCalls]
          /\ gauges \in [Goroutine -> [Header -> 0..MaxCalls]]
      BY <2>3
    <2>5. QED  BY <2>1, <2>2, <2>3, <2>4 DEF MetricsTypeOK
  <1>2. CreationInv
    BY MetricsAssumption DEF CreationInv
  <1>3. RecordingInv
    <2>1. Counting = {}
      BY CountComesFirst DEF Counting, NoCall
    <2>2. got["main"] = None
      BY DEF Goroutine
    <2>3. IsFiniteSet(Counting)
      BY <2>1, FS_EmptySet
    <2>4. \A g \in Goroutine : counted[g] = 0 /\ \A x \in Header : gauges[g][x] = 0
      OBVIOUS
    <2>5. QED  BY <2>2, <2>3, <2>4 DEF RecordingInv
  <1>4. GaugesInv
    BY DEF GaugesInv, Goroutine
  <1>5. QED  BY <1>1, <1>2, <1>3, <1>4 DEF MetricsInv

LEMMA LostKeepsMetrics ==
  ASSUME MetricsLost
  PROVE  MetricsInv'
  <1>1. MetricsTypeOK'
    <2>1. /\ registry' \in [Goroutine -> Seq(Goroutine)]
          /\ \A g \in Goroutine : Len(registry'[g]) = 0
      BY DEF MetricsLost
    <2>2. call' \in [Handler -> [id : 0..MaxCalls, todo : Seq(Header \cup {"count"})]]
      BY NoCallTyped DEF MetricsLost
    <2>3. 0 \in 0..MaxCalls /\ \A g \in Goroutine : Len(registry'[g]) <= Collectors
      BY MetricsAssumption, <2>1
    <2>4. /\ counted' \in [Goroutine -> 0..MaxCalls]
          /\ gauges' \in [Goroutine -> [Header -> 0..MaxCalls]]
      BY <2>3 DEF MetricsLost
    <2>5. QED  BY <2>1, <2>2, <2>3, <2>4 DEF MetricsTypeOK, MetricsLost
  <1>2. CreationInv'
    BY MetricsAssumption DEF CreationInv, MetricsLost
  <1>3. RecordingInv'
    <2>1. Counting' = {}
      BY CountComesFirst DEF Counting, NoCall, MetricsLost
    <2>2. got'["main"] = None
      BY DEF Goroutine, MetricsLost
    <2>3. IsFiniteSet(Counting')
      BY <2>1, FS_EmptySet
    <2>4. \A g \in Goroutine : counted'[g] = 0 /\ \A x \in Header : gauges'[g][x] = 0
      BY DEF MetricsLost
    <2>5. finished' = 0 /\ \A h \in Handler : call'[h] = NoCall
      BY DEF MetricsLost
    <2>6. QED  BY <2>2, <2>3, <2>4, <2>5 DEF RecordingInv
  <1>4. GaugesInv'
    BY DEF GaugesInv, Goroutine, MetricsLost
  <1>5. QED  BY <1>1, <1>2, <1>3, <1>4 DEF MetricsInv

\* While the instance is created, what is recorded stays, or begins with nothing.
LEMMA CreationKeepsRecording ==
  ASSUME MetricsInv, UNCHANGED recording, MetricsTypeOK',
         got["main"] # None => got'["main"] = got["main"]
  PROVE  RecordingInv' /\ GaugesInv'
  <1>1. /\ UNCHANGED <<call, finished, counted, gauges, overlap>>
        /\ Counting' = Counting /\ Setting' = Setting
    BY DEF recording, Counting, Setting
  <1>2. CASE got["main"] # None
    BY <1>1, <1>2 DEF MetricsInv, RecordingInv, GaugesInv
  <1>3. CASE got["main"] = None
    <2>1. Counting = {} /\ Setting = {}
      BY <1>3, NothingRecorded DEF MetricsInv
    <2>2. /\ finished = 0 /\ \A h \in Handler : call[h] = NoCall
          /\ \A g \in Goroutine : counted[g] = 0 /\ \A x \in Header : gauges[g][x] = 0
      BY <1>3, MetricsAssumption DEF MetricsInv, RecordingInv
    <2>3. RecordingInv'
      <3>1. Counting' = {}
        BY <1>1, <2>1
      <3>2. IsFiniteSet(Counting') /\ Cardinality(Counting') = 0
        BY <3>1, FS_EmptySet
      <3>3. got'["main"] # None => counted'[got'["main"]] = 0
        BY <1>1, <2>2 DEF MetricsTypeOK, Goroutine
      <3>4. QED  BY <1>1, <2>2, <3>2, <3>3 DEF RecordingInv
    <2>4. GaugesInv'
      <3>1. got'["main"] # None =>
              \A x, y \in Header : gauges'[got'["main"]][x] = gauges'[got'["main"]][y]
        BY <1>1, <2>2 DEF MetricsTypeOK, Goroutine
      <3>2. QED  BY <1>1, <2>1, <2>2, <3>1 DEF GaugesInv
    <2>5. QED  BY <2>3, <2>4
  <1>4. QED  BY <1>2, <1>3

LEMMA MetricsStepKeeps ==
  ASSUME MetricsInv, MetricsStep
  PROVE  MetricsInv'
  <1>1. ASSUME NEW g \in Goroutine, Asks(g) \/ GetOpenMetricsInstance(g)
        PROVE  MetricsInv'
    <2>1. MetricsTypeOK' /\ CreationInv'
      BY <1>1, AsksKeepsCreation, CheckKeepsCreation, CreateKeepsCreation,
         RegisterKeepsCreation
      DEF MetricsInv, GetOpenMetricsInstance
    <2>2. UNCHANGED recording
      BY <1>1 DEF Asks, GetOpenMetricsInstance, Check, Create, Register
    <2>3. got["main"] # None => got'["main"] = got["main"]
      <3>1. CASE stage[g] = "done"
        BY <1>1, <3>1 DEF Asks, GetOpenMetricsInstance, Check, Create, Register
      <3>2. CASE stage[g] # "done" /\ g = "main"
        <4>1. stage[g] = "done" <=> got[g] # None
          BY DEF MetricsInv, CreationInv
        <4>2. QED  BY <3>2, <4>1
      <3>3. CASE g # "main"
        <4>1. got' = got \/ got' = [got EXCEPT ![g] = instance]
          BY <1>1 DEF Asks, GetOpenMetricsInstance, Check, Create, Register, Current
        <4>2. got \in [Goroutine -> Goroutine \cup {None}] /\ "main" \in Goroutine
          BY DEF MetricsInv, MetricsTypeOK, Goroutine
        <4>3. QED  BY <3>3, <4>1, <4>2
      <3>4. QED  BY <3>1, <3>2, <3>3
    <2>4. RecordingInv' /\ GaugesInv'
      BY <2>1, <2>2, <2>3, CreationKeepsRecording
    <2>5. QED  BY <2>1, <2>4 DEF MetricsInv
  <1>2. ASSUME NEW h \in Handler, Records(h)
        PROVE  MetricsInv'
    <2>1. UNCHANGED <<instance, stage, got, registry, raced>>
      BY <1>2 DEF Records, CallReturns, WriteMetric, creation
    <2>2. CreationInv'
      BY <2>1 DEF MetricsInv, CreationInv
    <2>3. MetricsTypeOK' /\ RecordingInv' /\ GaugesInv'
      BY <1>2, ReturnKeepsRecording, CountKeepsRecording, GaugeKeepsRecording
      DEF MetricsInv, Records
    <2>4. QED  BY <2>2, <2>3 DEF MetricsInv
  <1>3. CASE MetricsLost
    BY <1>3, LostKeepsMetrics
  <1>4. CASE UNCHANGED package
    <2>1. /\ UNCHANGED <<instance, stage, got, registry, raced>>
          /\ UNCHANGED <<call, finished, counted, gauges, overlap>>
          /\ Counting' = Counting /\ Setting' = Setting
      BY <1>4 DEF package, creation, recording, Counting, Setting
    <2>2. QED
      BY <2>1 DEF MetricsInv, MetricsTypeOK, CreationInv, RecordingInv, GaugesInv
  <1>5. QED  BY <1>1, <1>2, <1>3, <1>4 DEF MetricsStep

-----------------------------------------------------------------------------
(* The process: where main is, and what that says.                         *)

ProcessTypeOK ==
  /\ up \in BOOLEAN
  /\ main \in {"options", "config", "client", "spawn", "started", "ready", "notify",
               "wait", "unready", "exit", "fatal"}
  /\ socket \in {"none", "instance", "listen", "announce", "serve"}
  /\ webhook \in {"none", "listen", "announce", "serve"}
  /\ healthy \in BOOLEAN /\ ready \in BOOLEAN
  /\ notified \in BOOLEAN /\ exitSignal \in 0..1 /\ terminating \in BOOLEAN
  /\ probe \in [path : Path, step : {"none", "asked", "halfway", "OK"}]
  /\ faults \in 0..MaxFaults

\* What the probes need to know of a step of the process: whoever was healthy and
\* not ready stays healthy or is lost, and whoever is lost stays so.
Steady ==
  /\ healthy /\ ~ready => healthy' \/ main' = "fatal"
  /\ main = "fatal" => main' = "fatal"

LEMMA FaultTyped ==
  ASSUME faults \in 0..MaxFaults, Fault
  PROVE  faults' \in 0..MaxFaults
  BY LifecycleAssumption DEF Fault

LEMMA EndKeepsProcess ==
  ASSUME ProcessTypeOK, End, faults' = faults \/ Fault
  PROVE  /\ ProcessTypeOK' /\ MainInv' /\ MetricsStep /\ probe'.step = "none"
  <1>1. faults' \in 0..MaxFaults
    BY FaultTyped DEF ProcessTypeOK
  <1>2. stage'["socket"] = "none" /\ stage'["main"] = "none"
    BY DEF End, MetricsLost, Goroutine
  <1>3. ProcessTypeOK'
    <2>1. NoProbe \in [path : Path, step : {"none", "asked", "halfway", "OK"}]
      BY DEF NoProbe, Path
    <2>2. /\ up' \in BOOLEAN /\ healthy' \in BOOLEAN /\ ready' \in BOOLEAN
          /\ notified' \in BOOLEAN /\ terminating' \in BOOLEAN
      BY DEF End
    <2>3. /\ main' = "options" /\ socket' = "none" /\ webhook' = "none"
          /\ exitSignal' \in 0..1 /\ probe' = NoProbe
      BY DEF End
    <2>4. QED  BY <1>1, <2>1, <2>2, <2>3 DEF ProcessTypeOK
  <1>4. MainInv'
    BY <1>2 DEF End, MainInv
  <1>5. QED  BY <1>3, <1>4 DEF End, MetricsStep, NoProbe


\* The steps of main.
MainStep ==
  \/ StartSocket \/ Configure \/ ConfigureFails \/ ClientMade \/ StartWebhook \/ Await
  \/ SetReady \/ Notify \/ ReceiveSignal \/ SetUnready

LEMMA MainIsMetricsStep ==
  ASSUME MainInv, MetricsTypeOK, MainStep
  PROVE  MetricsStep /\ UNCHANGED probe
  <1>1. CASE StartSocket
    <2>1. Asks("socket")
      BY <1>1 DEF StartSocket, Asks, MainInv
    <2>2. QED  BY <1>1, <2>1 DEF StartSocket, MetricsStep, Goroutine
  <1>2. CASE Configure
    <2>1. Asks("main")
      BY <1>2 DEF Configure, Asks, MainInv
    <2>2. QED  BY <1>2, <2>1 DEF Configure, MetricsStep, Goroutine
  <1>3. CASE ~StartSocket /\ ~Configure
    <2>1. UNCHANGED package /\ UNCHANGED probe
      BY <1>3 DEF MainStep, ConfigureFails, ClientMade, StartWebhook, Await, SetReady, Notify,
                  ReceiveSignal, SetUnready
    <2>2. QED  BY <2>1 DEF MetricsStep
  <1>4. QED  BY <1>1, <1>2, <1>3

LEMMA MainKeepsProcess ==
  ASSUME MetricsTypeOK, ProcessTypeOK, MainInv, MainStep
  PROVE  ProcessTypeOK' /\ MainInv' /\ Steady
  <1>1. CASE StartSocket
    <2>1. stage'["socket"] = "check" /\ stage'["main"] = stage["main"]
      BY <1>1 DEF StartSocket, Ask, MetricsTypeOK, Goroutine
    <2>2. QED  BY <1>1, <2>1 DEF StartSocket, ProcessTypeOK, MainInv, Steady
  <1>2. CASE Configure
    <2>1. stage'["main"] = "check" /\ stage'["socket"] = stage["socket"]
      BY <1>2 DEF Configure, Ask, MetricsTypeOK, Goroutine
    <2>2. QED  BY <1>2, <2>1 DEF Configure, ProcessTypeOK, MainInv, Steady
  <1>3. CASE ConfigureFails
    <2>1. faults' \in 0..MaxFaults
      BY <1>3, FaultTyped DEF ConfigureFails, ProcessTypeOK
    <2>2. stage' = stage
      BY <1>3 DEF ConfigureFails, package, creation
    <2>3. QED  BY <1>3, <2>1, <2>2 DEF ConfigureFails, ProcessTypeOK, MainInv, Steady
  <1>4. CASE ClientMade
    <2>1. stage' = stage
      BY <1>4 DEF ClientMade, package, creation
    <2>2. QED  BY <1>4, <2>1 DEF ClientMade, ProcessTypeOK, MainInv, Steady
  <1>5. CASE StartWebhook
    <2>1. stage' = stage
      BY <1>5 DEF StartWebhook, package, creation
    <2>2. QED  BY <1>5, <2>1 DEF StartWebhook, ProcessTypeOK, MainInv, Steady
  <1>6. CASE Await
    <2>1. stage' = stage
      BY <1>6 DEF Await, package, creation
    <2>2. webhook = "announce" /\ webhook' = "serve" /\ socket' = socket
      BY <1>6 DEF Await, MainInv
    <2>3. QED  BY <1>6, <2>1, <2>2 DEF Await, ProcessTypeOK, MainInv, Steady
  <1>7. CASE SetReady
    <2>1. stage' = stage
      BY <1>7 DEF SetReady, package, creation
    <2>2. QED  BY <1>7, <2>1 DEF SetReady, ProcessTypeOK, MainInv, Steady
  <1>8. CASE Notify
    <2>1. stage' = stage
      BY <1>8 DEF Notify, package, creation
    <2>2. main' \in {"notify", "wait"}
      BY <1>8 DEF Notify
    <2>3. QED  BY <1>8, <2>1, <2>2 DEF Notify, ProcessTypeOK, MainInv, Steady
  <1>9. CASE ReceiveSignal
    <2>1. stage' = stage
      BY <1>9 DEF ReceiveSignal, package, creation
    <2>2. exitSignal' \in 0..1
      BY <1>9 DEF ReceiveSignal, ProcessTypeOK
    <2>3. QED  BY <1>9, <2>1, <2>2 DEF ReceiveSignal, ProcessTypeOK, MainInv, Steady
  <1>10. CASE SetUnready
    <2>1. stage' = stage
      BY <1>10 DEF SetUnready, package, creation
    <2>2. QED  BY <1>10, <2>1 DEF SetUnready, ProcessTypeOK, MainInv, Steady
  <1>11. QED
    BY <1>1, <1>2, <1>3, <1>4, <1>5, <1>6, <1>7, <1>8, <1>9, <1>10 DEF MainStep

\* The steps of the others, of the container, and of main in GetOpenMetricsInstance.
OtherStep ==
  \/ \E g \in Goroutine : GetOpenMetricsInstance(g) /\ UNCHANGED <<up, process, probe, faults>>
  \/ SocketReady \/ SocketListens \/ WebhookListens
  \/ \E h \in Handler : Call(h)
  \/ Signal /\ notified
  \/ Start

LEMMA OthersKeepProcess ==
  ASSUME MetricsTypeOK, CreationInv, ProcessTypeOK, MainInv, OtherStep
  PROVE  ProcessTypeOK' /\ MainInv' /\ Steady /\ MetricsStep /\ UNCHANGED probe
  <1>1. ASSUME NEW g \in Goroutine, GetOpenMetricsInstance(g),
               UNCHANGED <<up, process, probe, faults>>
        PROVE  ProcessTypeOK' /\ MainInv' /\ Steady /\ MetricsStep /\ UNCHANGED probe
    <2>1. UNCHANGED <<up, main, socket, webhook, healthy, ready, notified, exitSignal,
                      terminating, probe, faults>>
      BY <1>1 DEF process
    <2>2. /\ stage[g] \notin {"none", "done"}
          /\ \A f \in Goroutine \ {g} : stage'[f] = stage[f]
      BY <1>1 DEF GetOpenMetricsInstance, Check, Create, Register, MetricsTypeOK
    <2>3. MainInv'
      BY <2>1, <2>2 DEF MainInv, Goroutine
    <2>4. ProcessTypeOK' /\ Steady
      BY <2>1 DEF ProcessTypeOK, Steady
    <2>5. QED  BY <1>1, <2>1, <2>3, <2>4 DEF MetricsStep
  <1>2. CASE SocketReady \/ SocketListens \/ WebhookListens
    <2>1. UNCHANGED package /\ stage' = stage
      BY <1>2 DEF SocketReady, SocketListens, WebhookListens, package, creation
    <2>2. ProcessTypeOK' /\ MainInv' /\ Steady /\ UNCHANGED probe
      BY <1>2, <2>1
      DEF SocketReady, SocketListens, Announced, WebhookListens, ProcessTypeOK, MainInv, Steady
    <2>3. QED  BY <2>1, <2>2 DEF MetricsStep
  <1>3. ASSUME NEW h \in Handler, Call(h)
        PROVE  ProcessTypeOK' /\ MainInv' /\ Steady /\ MetricsStep /\ UNCHANGED probe
    <2>1. /\ webhook = "serve"
          /\ UNCHANGED <<up, main, socket, webhook, healthy, ready, notified, exitSignal,
                         terminating, probe, faults, stage>>
      BY <1>3 DEF Call, process, CallReturns, WriteMetric, creation
    <2>2. got["main"] # None
      BY <2>1 DEF MainInv, CreationInv, Goroutine
    <2>3. MetricsStep
      BY <1>3, <2>2 DEF Call, Records, MetricsStep
    <2>4. QED  BY <2>1, <2>3 DEF ProcessTypeOK, MainInv, Steady
  <1>4. CASE Signal /\ notified
    <2>1. /\ UNCHANGED <<up, main, socket, webhook, healthy, ready, notified, probe, package>>
          /\ exitSignal' = IF Buffered THEN exitSignal + 1 ELSE exitSignal
          /\ terminating' = TRUE
      BY <1>4 DEF Signal
    <2>2. exitSignal' \in 0..1 /\ faults' \in 0..MaxFaults /\ stage' = stage
      BY <1>4, <2>1, FaultTyped DEF Signal, Buffered, ProcessTypeOK, package, creation
    <2>3. QED  BY <2>1, <2>2 DEF ProcessTypeOK, MainInv, Steady, MetricsStep
  <1>5. CASE Start
    <2>1. /\ up' = TRUE
          /\ UNCHANGED <<main, socket, webhook, healthy, ready, notified, exitSignal,
                         terminating, probe, faults, stage, package>>
      BY <1>5 DEF Start, process, package, creation
    <2>2. QED  BY <2>1 DEF ProcessTypeOK, MainInv, Steady, MetricsStep
  <1>6. QED  BY <1>1, <1>2, <1>3, <1>4, <1>5 DEF OtherStep

-----------------------------------------------------------------------------
(* The probes.                                                             *)

ProbesInv == ProbeInv /\ HealthzTellsTruth /\ ReadyMeansOpen

LEMMA WatchTyped ==
  ASSUME witnessed \subseteq {"both", "open"}, Watch
  PROVE  witnessed' \subseteq {"both", "open"}
  BY DEF Watch, Now

\* A request that is gone, or refused, claims nothing.
LEMMA NoProbeClaims ==
  ASSUME probe'.step = "none"
  PROVE  ProbesInv'
  BY DEF ProbesInv, ProbeInv, HealthzTellsTruth, ReadyMeansOpen, Pending

\* A step of the process, while a request is pending or not.
LEMMA StepKeepsProbe ==
  ASSUME ProcessTypeOK, ProbesInv, Steady, Watch, UNCHANGED probe
  PROVE  ProbesInv'
  <1>1. CASE probe.step = "none"
    BY <1>1, NoProbeClaims
  <1>2. CASE Pending
    <2>1. witnessed' = witnessed \cup Now' /\ probe' = probe
      BY <1>2 DEF Watch, Pending
    <2>2. healthy /\ ready => "both" \in witnessed
      BY <1>2 DEF ProbesInv, ProbeInv, Now
    <2>3. probe.step = "halfway" => "both" \in witnessed' \/ healthy' \/ main' = "fatal"
      BY <2>1, <2>2 DEF ProbesInv, ProbeInv, Steady
    <2>4. QED
      BY <1>2, <2>1, <2>3 DEF ProbesInv, ProbeInv, HealthzTellsTruth, ReadyMeansOpen, Pending
  <1>3. CASE probe.step = "OK"
    <2>1. witnessed' = witnessed /\ probe' = probe
      BY <1>3 DEF Watch, Pending
    <2>2. QED
      BY <1>3, <2>1 DEF ProbesInv, ProbeInv, HealthzTellsTruth, ReadyMeansOpen, Pending
  <1>4. QED  BY <1>1, <1>2, <1>3 DEF ProcessTypeOK, Pending

LEMMA ComesKeepsProbe ==
  ASSUME ProcessTypeOK, MainInv, ProbesInv, Watch, ProbeComes
  PROVE  ProbesInv' /\ ProcessTypeOK' /\ MainInv' /\ MetricsStep
  <1>1. UNCHANGED <<up, main, socket, webhook, healthy, ready, notified, exitSignal,
                    terminating, stage, faults, package>>
    BY DEF ProbeComes, process, package, creation
  <1>2. PICK path \in Path : probe' = [path |-> path, step |-> "asked"]
    BY DEF ProbeComes
  <1>3. witnessed' = Now'
    BY <1>2 DEF Watch, ProbeComes
  <1>4. ProbesInv'
    BY <1>2, <1>3 DEF ProbesInv, ProbeInv, HealthzTellsTruth, ReadyMeansOpen, Pending
  <1>5. ProcessTypeOK' /\ MainInv' /\ MetricsStep
    BY <1>1, <1>2 DEF ProcessTypeOK, MainInv, MetricsStep
  <1>6. QED  BY <1>4, <1>5

LEMMA AnswerKeepsProbe ==
  ASSUME ProcessTypeOK, MainInv, ProbesInv, Watch, AnswerProbe
  PROVE  ProbesInv' /\ ProcessTypeOK' /\ MainInv' /\ MetricsStep
  <1>1. UNCHANGED <<up, main, socket, webhook, healthy, ready, notified, exitSignal,
                    terminating, stage, faults, package>>
    BY DEF AnswerProbe, process, package, creation
  <1>2. /\ probe \in [path : Path, step : {"none", "asked", "halfway", "OK"}]
        /\ Pending
    BY DEF ProcessTypeOK, AnswerProbe, Pending
  <1>3. \/ probe' = NoProbe
        \/ /\ probe' = [probe EXCEPT !.step = "OK"]
           /\ (probe.path = "/health" /\ probe.step = "asked") \/ ready
           /\ probe.path = "/healthz" => probe.step = "halfway"
        \/ probe' = [probe EXCEPT !.step = "halfway"] /\ healthy
    BY DEF AnswerProbe, Answer, livenessHandler, readinessHandler, healthzHandler, healthzFirst
  <1>4. probe' \in [path : Path, step : {"none", "asked", "halfway", "OK"}]
    BY <1>2, <1>3 DEF NoProbe, Path
  <1>5. ProbesInv'
    <2>1. CASE probe' = NoProbe
      BY <2>1, NoProbeClaims DEF NoProbe
    <2>2. CASE /\ probe' = [probe EXCEPT !.step = "OK"]
               /\ (probe.path = "/health" /\ probe.step = "asked") \/ ready
               /\ probe.path = "/healthz" => probe.step = "halfway"
      <3>1. probe'.path = probe.path /\ probe'.step = "OK"
        BY <1>2, <2>2
      <3>2. witnessed' = witnessed \cup Now'
        BY <1>2, <3>1 DEF Watch
      <3>3. ready => "open" \in Now'
        BY <1>1 DEF MainInv, Now
      <3>4. ready /\ probe.step = "halfway" => "both" \in witnessed'
        BY <1>1, <3>2 DEF ProbesInv, ProbeInv, MainInv, Now
      <3>5. QED
        BY <2>2, <3>1, <3>2, <3>3, <3>4
        DEF ProbesInv, ProbeInv, HealthzTellsTruth, ReadyMeansOpen, Pending
    <2>3. CASE probe' = [probe EXCEPT !.step = "halfway"] /\ healthy
      <3>1. probe'.path = probe.path /\ probe'.step = "halfway"
        BY <1>2, <2>3
      <3>2. witnessed' = witnessed \cup Now'
        BY <1>2, <3>1 DEF Watch
      <3>3. QED
        BY <1>1, <2>3, <3>1, <3>2
        DEF ProbesInv, ProbeInv, HealthzTellsTruth, ReadyMeansOpen, Pending
    <2>4. QED  BY <1>3, <2>1, <2>2, <2>3
  <1>6. ProcessTypeOK' /\ MainInv' /\ MetricsStep
    BY <1>1, <1>4 DEF ProcessTypeOK, MainInv, MetricsStep
  <1>7. QED  BY <1>5, <1>6

-----------------------------------------------------------------------------
(* The theorems.                                                           *)

\* What the run checks, sorted as the proofs use it.
LEMMA InvSorted ==
  TypeOK /\ ProcessInv <=>
    MetricsInv /\ ProcessTypeOK /\ MainInv /\ ProbesInv /\ witnessed \subseteq {"both", "open"}
  BY DEF TypeOK, ProcessInv, MetricsInv, ProcessTypeOK, ProbesInv

LEMMA InvInit ==
  ASSUME Init
  PROVE  TypeOK /\ ProcessInv
  <1>1. MetricsInv
    BY NothingAtFirst DEF Init, MetricsInit
  <1>2. NoProbe \in [path : Path, step : {"none", "asked", "halfway", "OK"}]
    BY DEF NoProbe, Path
  <1>3. ProcessTypeOK
    <2>1. /\ up \in BOOLEAN /\ healthy \in BOOLEAN /\ ready \in BOOLEAN
          /\ notified \in BOOLEAN /\ terminating \in BOOLEAN
      BY DEF Init
    <2>2. /\ main = "options" /\ socket = "none" /\ webhook = "none"
          /\ exitSignal \in 0..1 /\ probe = NoProbe /\ faults \in 0..MaxFaults
      BY LifecycleAssumption DEF Init
    <2>3. QED  BY <1>2, <2>1, <2>2 DEF ProcessTypeOK
  <1>4. stage["main"] = "none" /\ stage["socket"] = "none"
    BY DEF Init, MetricsInit, Goroutine
  <1>5. MainInv
    BY <1>4 DEF Init, MainInv
  <1>6. ProbesInv /\ witnessed \subseteq {"both", "open"}
    BY DEF Init, NoProbe, ProbesInv, ProbeInv, HealthzTellsTruth, ReadyMeansOpen, Pending
  <1>7. QED  BY <1>1, <1>3, <1>5, <1>6, InvSorted

\* The ends of the process.
Ends == End /\ (faults' = faults \/ Fault)

LEMMA NextSorted ==
  ASSUME Next
  PROVE  Watch /\ (Ends \/ MainStep \/ OtherStep \/ ProbeComes \/ AnswerProbe)
  <1> SUFFICES ASSUME Goroutines \/ Start
               PROVE  Ends \/ MainStep \/ OtherStep \/ ProbeComes \/ AnswerProbe
    BY DEF Next
  <1>1. CASE Main
    BY <1>1 DEF Main, Exit, Ends, MainStep, OtherStep, Goroutine
  <1>2. CASE Socket
    BY <1>2 DEF Socket, OtherStep, Goroutine
  <1>3. CASE Signal
    BY <1>3 DEF Signal, Ends, OtherStep
  <1>4. CASE \/ OptionsUnreadable \/ FilterPanics \/ ServerFails \/ FailCountReached \/ Crash
    BY <1>4 DEF OptionsUnreadable, FilterPanics, ServerFails, FailCountReached, Crash, Ends
  <1>5. CASE \/ ConfigureFails \/ WebhookListens \/ ProbeComes \/ AnswerProbe \/ Start
            \/ \E h \in Handler : Call(h)
    BY <1>5 DEF MainStep, OtherStep
  <1>6. QED  BY <1>1, <1>2, <1>3, <1>4, <1>5 DEF Goroutines

LEMMA InvStep ==
  ASSUME TypeOK, ProcessInv, [Next]_vars
  PROVE  TypeOK' /\ ProcessInv'
  <1>1. /\ MetricsInv /\ MetricsTypeOK /\ CreationInv /\ ProcessTypeOK /\ MainInv /\ ProbesInv
        /\ witnessed \subseteq {"both", "open"}
    BY InvSorted DEF MetricsInv
  <1>2. CASE Next
    <2>1. witnessed' \subseteq {"both", "open"}
      BY <1>1, <1>2, NextSorted, WatchTyped
    <2>2. ProcessTypeOK' /\ MainInv' /\ ProbesInv' /\ MetricsStep
      <3>1. CASE Ends
        BY <1>1, <3>1, EndKeepsProcess, NoProbeClaims DEF Ends
      <3>2. CASE MainStep
        BY <1>1, <1>2, <3>2, NextSorted, MainKeepsProcess, MainIsMetricsStep, StepKeepsProbe
      <3>3. CASE OtherStep
        BY <1>1, <1>2, <3>3, NextSorted, OthersKeepProcess, StepKeepsProbe
      <3>4. CASE ProbeComes \/ AnswerProbe
        BY <1>1, <1>2, <3>4, NextSorted, ComesKeepsProbe, AnswerKeepsProbe
      <3>5. QED  BY <1>2, <3>1, <3>2, <3>3, <3>4, NextSorted
    <2>3. MetricsInv'
      BY <1>1, <2>2, MetricsStepKeeps
    <2>4. QED
      BY <2>1, <2>2, <2>3
      DEF TypeOK, ProcessInv, MetricsInv, ProcessTypeOK, ProbesInv
  <1>3. CASE UNCHANGED vars
    <2>1. /\ UNCHANGED <<up, main, socket, webhook, healthy, ready, notified, exitSignal,
                         terminating, probe, witnessed, faults, stage, package>>
          /\ Now' = Now
      BY <1>3 DEF vars, process, package, creation, Now
    <2>2. MetricsInv'
      BY <1>1, <2>1, MetricsStepKeeps DEF MetricsStep
    <2>3. ProcessTypeOK' /\ MainInv' /\ witnessed' \subseteq {"both", "open"}
      BY <1>1, <2>1 DEF ProcessTypeOK, MainInv
    <2>4. ProbesInv'
      BY <1>1, <2>1 DEF ProbesInv, ProbeInv, HealthzTellsTruth, ReadyMeansOpen, Pending
    <2>5. QED
      BY <2>2, <2>3, <2>4
      DEF TypeOK, ProcessInv, MetricsInv, ProcessTypeOK, ProbesInv
  <1>4. QED  BY <1>2, <1>3

\* The inductive invariant: where main is, what the goroutines hold of the metrics,
\* and what a pending probe has seen go together at every step.
THEOREM Inductive == Spec => [](TypeOK /\ ProcessInv)
  BY InvInit, InvStep, PTL DEF Spec

\* For any number of handlers, calls, collectors and faults, the state of the
\* process, of its metrics and of its probes stays of its type.
THEOREM TypeCorrect == Spec => []TypeOK
  BY Inductive, PTL

\* However the two goroutines of GetOpenMetricsInstance interleave, the registry
\* that the socket serves has every collector of its instance.
THEOREM RegistriesComplete == Spec => []RegistryComplete
  <1>1. TypeOK /\ ProcessInv => RegistryComplete
    <2> SUFFICES ASSUME MetricsTypeOK, CreationInv, Shown # None,
                        \A g \in Goroutine : stage[g] \in {"none", "done"}
                 PROVE  registry[Shown] = [i \in 1..Collectors |-> Shown]
      BY DEF TypeOK, ProcessInv, RegistryComplete
    <2> DEFINE s == got["socket"]
    <2>1. s \in Goroutine /\ s # None /\ "socket" \in Goroutine
      BY DEF MetricsTypeOK, Goroutine, Shown
    <2>2. Len(registry[s]) = Collectors
      BY <2>1 DEF CreationInv
    <2>3. \A i \in 1..Len(registry[s]) : registry[s][i] = s
      BY <2>1 DEF CreationInv
    <2>4. registry[s] \in Seq(Goroutine)
      BY <2>1 DEF MetricsTypeOK
    <2>5. registry[s] = [i \in 1..Collectors |-> s]
      BY <2>2, <2>3, <2>4
    <2>6. QED  BY <2>5 DEF Shown
  <1>2. QED  BY <1>1, Inductive, PTL

\* Unless both goroutines found no instance, every call that any handler has made
\* is counted where the socket shows it, or about to be.
THEOREM EveryCallIsShown == Spec => []EveryCallShown
  <1>1. TypeOK /\ ProcessInv => EveryCallShown
    <2> SUFFICES ASSUME MetricsTypeOK, CreationInv, RecordingInv, MainInv, Shown # None, ~raced
                 PROVE  counted[Shown] + Cardinality(Counting) = finished
      BY DEF TypeOK, ProcessInv, EveryCallShown, Counting
    <2>1. CASE got["main"] # None
      <3>1. got["main"] = Shown
        BY <2>1 DEF CreationInv, Shown, Goroutine
      <3>2. QED  BY <2>1, <3>1 DEF RecordingInv
    <2>2. CASE got["main"] = None
      <3>1. finished = 0 /\ \A h \in Handler : call[h] = NoCall
        BY <2>2 DEF RecordingInv
      <3>2. Counting = {}
        BY <3>1, CountComesFirst DEF Counting, NoCall
      <3>3. counted[Shown] = 0
        BY <2>2 DEF RecordingInv, MetricsTypeOK, Shown, Goroutine
      <3>4. QED  BY <3>1, <3>2, <3>3, FS_EmptySet
    <2>3. QED  BY <2>1, <2>2
  <1>2. QED  BY <1>1, Inductive, PTL

\* Between the calls of any number of handlers, the rate limit gauges are of one
\* response, unless two of them set the gauges at once.
THEOREM RateLimitsOfOneCall == Spec => []RateLimitOfOneCall
  <1>1. TypeOK /\ ProcessInv => RateLimitOfOneCall
    <2> SUFFICES ASSUME RecordingInv, GaugesInv, Setting = {}, ~overlap,
                        NEW g \in Goroutine, NEW x \in Header, NEW y \in Header
                 PROVE  gauges[g][x] = gauges[g][y]
      BY DEF TypeOK, ProcessInv, RateLimitOfOneCall
    <2>1. CASE g # got["main"]
      BY <2>1 DEF RecordingInv
    <2>2. CASE g = got["main"]
      <3>1. got["main"] # None
        BY <2>2, MetricsAssumption
      <3>2. QED  BY <2>2, <3>1 DEF GaugesInv
    <2>3. QED  BY <2>1, <2>2
  <1>2. QED  BY <1>1, Inductive, PTL

\* An OK of /healthz is never a lie of two halves: there was a moment of the request
\* at which the process was healthy and ready.
THEOREM HealthzIsTrue == Spec => []HealthzTellsTruth
  BY Inductive, PTL DEF ProcessInv

\* An OK of /ready or /healthz means that the webhook's port was open at a moment of
\* the request, whichever server announced itself.
THEOREM ReadyIsOpen == Spec => []ReadyMeansOpen
  BY Inductive, PTL DEF ProcessInv
=============================================================================

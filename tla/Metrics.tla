------------------------------ MODULE Metrics ------------------------------
(***************************************************************************)
(* The metrics package (metrics.go, rate_limit.go) and its use by the API  *)
(* client (hetznercloud.go).                                               *)
(*                                                                         *)
(* The one instance of the metrics is created by the goroutine that asks   *)
(* for it first, without a lock: main asks for it when it makes the        *)
(* client, the goroutine of the metrics socket when it starts.  An         *)
(* instance bears the name of its creator.  Afterwards the handlers of     *)
(* the webhook write into the client's instance after every call to        *)
(* Hetzner, and the socket shows what is in the registry of its own.       *)
(***************************************************************************)
EXTENDS Naturals, FiniteSets, SequencesExt

CONSTANTS
  Handler,     \* the handlers of the webhook
  Collectors,  \* how many collectors an instance has (8 in the code)
  MaxCalls,    \* the bound on calls to Hetzner in the life of a process
  None         \* no instance

Goroutine == {"main", "socket"}

ASSUME MetricsAssumption ==
  Collectors \in Nat \ {0} /\ MaxCalls \in Nat /\ None \notin Goroutine

Header == {"limit", "remaining", "reset"}

VARIABLES
  instance,  \* the global variable
  stage,     \* where each goroutine is in GetOpenMetricsInstance
  got,       \* the instance that it returned to each goroutine
  registry,  \* of each instance: whose collectors are registered, in order
  raced,     \* history: both goroutines found no instance
  call,      \* what is left of writeMetrics in each handler, and for which call
  finished,  \* how many calls have returned
  counted,   \* of each instance: the calls it has counted, in one of its two counters
             \* and in its histogram
  gauges,    \* of each instance: the call that each rate limit gauge is of, or 0
  overlap    \* history: the gauges were set last by two handlers at once

creation  == <<instance, stage, got, registry, raced>>
recording == <<call, finished, counted, gauges, overlap>>

NoCall == [id |-> 0, todo |-> <<>>]

MetricsTypeOK ==
  /\ instance \in Goroutine \cup {None}
  /\ stage \in [Goroutine -> {"none", "check", "create", "register", "done"}]
  /\ got \in [Goroutine -> Goroutine \cup {None}]
  /\ registry \in [Goroutine -> Seq(Goroutine)]
  /\ \A g \in Goroutine : Len(registry[g]) <= Collectors
  /\ raced \in BOOLEAN
  /\ call \in [Handler -> [id : 0..MaxCalls, todo : Seq(Header \cup {"count"})]]
  /\ finished \in 0..MaxCalls
  /\ counted \in [Goroutine -> 0..MaxCalls]
  /\ gauges \in [Goroutine -> [Header -> 0..MaxCalls]]
  /\ overlap \in BOOLEAN

MetricsInit ==
  /\ instance = None
  /\ stage = [g \in Goroutine |-> "none"] /\ got = [g \in Goroutine |-> None]
  /\ registry = [g \in Goroutine |-> <<>>]
  /\ raced = FALSE
  /\ call = [h \in Handler |-> NoCall] /\ finished = 0
  /\ counted = [g \in Goroutine |-> 0]
  /\ gauges = [g \in Goroutine |-> [x \in Header |-> 0]]
  /\ overlap = FALSE

\* The process ends.
MetricsLost ==
  /\ instance' = None
  /\ stage' = [g \in Goroutine |-> "none"] /\ got' = [g \in Goroutine |-> None]
  /\ registry' = [g \in Goroutine |-> <<>>]
  /\ raced' = FALSE
  /\ call' = [h \in Handler |-> NoCall] /\ finished' = 0
  /\ counted' = [g \in Goroutine |-> 0]
  /\ gauges' = [g \in Goroutine |-> [x \in Header |-> 0]]
  /\ overlap' = FALSE

-----------------------------------------------------------------------------
(* GetOpenMetricsInstance.                                                 *)

Ask(g) == stage' = [stage EXCEPT ![g] = "check"]

\* A slip: an instance is created by everybody who asks.
MustCreateAlways == TRUE

MustCreate == instance = None

Check(g) ==
  /\ stage[g] = "check"
  /\ IF MustCreate
     THEN /\ stage' = [stage EXCEPT ![g] = "create"]
          /\ raced' = (raced \/ \E f \in Goroutine \ {g} : stage[f] = "create")
          /\ UNCHANGED got
     ELSE /\ stage' = [stage EXCEPT ![g] = "done"]
          /\ got' = [got EXCEPT ![g] = instance]
          /\ UNCHANGED raced
  /\ UNCHANGED <<instance, registry, recording>>

Create(g) ==
  /\ stage[g] = "create"
  /\ instance' = g
  /\ stage' = [stage EXCEPT ![g] = "register"]
  /\ UNCHANGED <<got, registry, raced, recording>>

\* A slip: the creator goes on with the instance it has made.
CurrentOwn(g) == g

\* The global variable is read again for every collector, and at the end.
Current(g) == instance

Register(g) ==
  /\ stage[g] = "register"
  /\ IF Len(registry[g]) < Collectors
     THEN /\ registry' = [registry EXCEPT ![g] = Append(@, instance)]
          /\ UNCHANGED <<stage, got>>
     ELSE /\ stage' = [stage EXCEPT ![g] = "done"]
          /\ got' = [got EXCEPT ![g] = Current(g)]
          /\ UNCHANGED registry
  /\ UNCHANGED <<instance, raced, recording>>

GetOpenMetricsInstance(g) == Check(g) \/ Create(g) \/ Register(g)

\* Nothing orders the fields of an instance before the global variable for
\* another goroutine: it may find them unset, and dies of it.
FindsUnset(g) ==
  \/ g = "socket" /\ stage[g] = "check" /\ instance \notin {None, g}
  \/ stage[g] = "register" /\ instance # g

-----------------------------------------------------------------------------
(* Calls to Hetzner: every method of hetznerCloud ends with writeMetrics.  *)

\* A slip: the first gauge is set when its header can be read.
parseRateLimitPartly(headers) ==
  IF headers = Header THEN <<"limit", "remaining", "reset">>
  ELSE IF "limit" \in headers THEN <<"limit">> ELSE <<>>

\* The gauges to be set: none if a header is missing or malformed.
parseRateLimit(headers) ==
  IF headers = Header THEN <<"limit", "remaining", "reset">> ELSE <<>>

\* The steps of writeMetrics: the counter and the histogram, then each gauge.
writeMetrics(headers) == <<"count">> \o parseRateLimit(headers)

\* A call succeeds or fails, with or without the headers of a response.
CallReturns(h) ==
  /\ call[h].todo = <<>>
  /\ finished < MaxCalls
  /\ finished' = finished + 1
  /\ \E headers \in {{}, {"limit"}, Header} :
       call' = [call EXCEPT ![h] = [id |-> finished + 1, todo |-> writeMetrics(headers)]]
  /\ UNCHANGED <<creation, counted, gauges, overlap>>

Setting == {h \in Handler : call[h].todo # <<>> /\ Head(call[h].todo) \in Header \ {"limit"}}

\* What is left of a call after its next step.
Rest(c) == IF Len(c.todo) = 1 THEN NoCall ELSE [c EXCEPT !.todo = Tail(c.todo)]

WriteMetric(h) ==
  LET m    == got["main"]
      step == Head(call[h].todo)
  IN
  /\ call[h].todo # <<>>
  /\ call' = [call EXCEPT ![h] = Rest(call[h])]
  /\ IF step = "count"
     THEN counted' = [counted EXCEPT ![m] = @ + 1] /\ UNCHANGED <<gauges, overlap>>
     ELSE /\ gauges' = [gauges EXCEPT ![m][step] = call[h].id]
          /\ overlap' = IF step = "limit" THEN Setting # {} ELSE overlap
          /\ UNCHANGED counted
  /\ UNCHANGED <<creation, finished>>

-----------------------------------------------------------------------------
(* Properties.                                                             *)

\* What the socket shows: the instance whose registry it serves.
Shown == got["socket"]

\* However the two goroutines interleave, the registry that is served has every
\* collector of its instance once the creations are over.
RegistryComplete ==
  Shown # None /\ (\A g \in Goroutine : stage[g] \in {"none", "done"}) =>
    registry[Shown] = [i \in 1..Collectors |-> Shown]

\* Unless both goroutines found no instance, every call that returned is counted
\* where the socket shows it, or about to be, whichever handlers overlap.
EveryCallShown ==
  Shown # None /\ ~raced =>
    counted[Shown] + Cardinality({h \in Handler : "count" \in ToSet(call[h].todo)}) = finished

\* Between the calls the three rate limit gauges are of one response, unless two
\* handlers set them at once.
RateLimitOfOneCall ==
  Setting = {} /\ ~overlap =>
    \A g \in Goroutine, x, y \in Header : gauges[g][x] = gauges[g][y]

\* The instances: whoever holds one has created it or waited for it, and its
\* registry has no collector of another one unless it was given up for that one.
CreationInv ==
  /\ \A g \in Goroutine :
       /\ stage[g] = "done" <=> got[g] # None
       /\ stage[g] = "register" => instance # None
       /\ stage[g] \in {"none", "check", "create"} => registry[g] = <<>>
       /\ instance = g => \/ stage[g] = "register"
                          \/ stage[g] = "done" /\ Len(registry[g]) = Collectors
       /\ g \in {instance} \cup {got[f] : f \in Goroutine} =>
            \A i \in 1..Len(registry[g]) : registry[g][i] = g
       /\ got[g] \notin {None, instance} =>
            stage[got[g]] = "done" /\ Len(registry[got[g]]) = Collectors
  /\ ~raced => \A f, g \in Goroutine :
       /\ stage[g] = "create" => instance = None /\ (stage[f] = "create" => f = g)
       /\ got[g] \in {None, instance}

\* The handlers that have yet to count their call.
Counting == {h \in Handler : "count" \in ToSet(call[h].todo)}

\* The calls: they are counted and shown by the instance of the client, no other.
RecordingInv ==
  /\ \A g \in Goroutine \ {got["main"]} :
       counted[g] = 0 /\ \A x \in Header : gauges[g][x] = 0
  /\ got["main"] = None => finished = 0 /\ \A h \in Handler : call[h] = NoCall
  /\ IsFiniteSet(Counting)
  /\ got["main"] # None => counted[got["main"]] + Cardinality(Counting) = finished

\* What can be left to do in writeMetrics.
Todo == {<<"count">>, <<"count", "limit", "remaining", "reset">>,
         <<"limit", "remaining", "reset">>, <<"remaining", "reset">>, <<"reset">>}

\* The gauges: unless two handlers set them at once, those that the one in the
\* middle of it has set are of its call, and without one all are of one call.
GaugesInv ==
  /\ \A h \in Handler : call[h] # NoCall =>
       /\ call[h].id > 0
       /\ call[h].todo \in Todo
  /\ ~overlap /\ got["main"] # None =>
       LET shown == gauges[got["main"]] IN
       /\ \A h \in Setting :
            /\ Setting = {h}
            /\ shown["limit"] = call[h].id
            /\ Head(call[h].todo) = "reset" => shown["remaining"] = call[h].id
       /\ Setting = {} => \A x, y \in Header : shown[x] = shown[y]
=============================================================================

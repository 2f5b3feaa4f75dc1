----------------------------- MODULE Lifecycle -----------------------------
(***************************************************************************)
(* The life of a webhook process (main.go), its metrics socket with the    *)
(* probes (metrics_socket.go, status.go), the server of the webhook        *)
(* (ExternalDNS' api package, external code) and the container around it   *)
(* (external).  The metrics are in module Metrics.                         *)
(*                                                                         *)
(* Three goroutines start the process: main, the metrics socket and the    *)
(* webhook.  What goes wrong is chosen by the environment, at most         *)
(* MaxFaults times: a configuration that cannot be read, a port that is    *)
(* taken, a signal, a failure count that reached its maximum.  A process   *)
(* that ends is started again.                                             *)
(***************************************************************************)
EXTENDS Metrics

CONSTANT MaxFaults  \* the bound on faults and signals

ASSUME LifecycleAssumption == MaxFaults \in Nat

VARIABLES
  up,           \* a process is running
  main,         \* what main does next
  socket,       \* what the goroutine of the metrics socket does next
  webhook,      \* what the goroutine of the webhook does next
  healthy,      \* the two flags of Status
  ready,
  notified,     \* signals go to the channel of waitForSignal
  exitSignal,   \* how many signals are in this channel
  terminating,  \* history: a signal came and did not end the process at once
  probe,        \* the request that the socket is answering, or answered last
  witnessed,    \* history: what was so at some moment since it came
  faults        \* how many faults and signals there were

process == <<main, socket, webhook, healthy, ready, notified, exitSignal, terminating>>
package == <<creation, recording>>
vars == <<up, process, package, probe, witnessed, faults>>

Path == {"/health", "/ready", "/healthz"}
NoProbe == [path |-> "/health", step |-> "none"]

TypeOK ==
  /\ MetricsTypeOK
  /\ up \in BOOLEAN
  /\ main \in {"options", "config", "client", "spawn", "started", "ready", "notify",
               "wait", "unready", "exit", "fatal"}
  /\ socket \in {"none", "instance", "listen", "announce", "serve"}
  /\ webhook \in {"none", "listen", "announce", "serve"}
  /\ healthy \in BOOLEAN /\ ready \in BOOLEAN
  /\ notified \in BOOLEAN /\ exitSignal \in 0..1 /\ terminating \in BOOLEAN
  /\ probe \in [path : Path, step : {"none", "asked", "halfway", "OK"}]
  /\ witnessed \subseteq {"both", "open"}
  /\ faults \in 0..MaxFaults

Init ==
  /\ MetricsInit
  /\ up = TRUE
  /\ main = "options" /\ socket = "none" /\ webhook = "none"
  /\ healthy = FALSE /\ ready = FALSE
  /\ notified = FALSE /\ exitSignal = 0 /\ terminating = FALSE
  /\ probe = NoProbe /\ witnessed = {}
  /\ faults = 0

\* The process ends, and nothing outlives it.
End ==
  /\ MetricsLost
  /\ up' = FALSE
  /\ main' = "options" /\ socket' = "none" /\ webhook' = "none"
  /\ healthy' = FALSE /\ ready' = FALSE
  /\ notified' = FALSE /\ exitSignal' = 0 /\ terminating' = FALSE
  /\ probe' = NoProbe

\* A fault happens.
Fault == faults < MaxFaults /\ faults' = faults + 1

-----------------------------------------------------------------------------
(* main.                                                                   *)

\* NewSocketOptions, the healthy flag and the goroutine of the socket.
StartSocket ==
  /\ main = "options"
  /\ healthy' = TRUE
  /\ socket' = "instance" /\ Ask("socket")
  /\ main' = "config"
  /\ UNCHANGED <<up, webhook, ready, notified, exitSignal, terminating, probe, faults,
                 instance, got, registry, raced, recording>>

OptionsUnreadable == main = "options" /\ Fault /\ End

\* NewConfiguration, and NewHetznerCloud up to the instance of the metrics.
Configure ==
  /\ main = "config"
  /\ main' = "client" /\ Ask("main")
  /\ UNCHANGED <<up, socket, webhook, healthy, ready, notified, exitSignal, terminating,
                 probe, faults, instance, got, registry, raced, recording>>

\* The configuration is unreadable or has no API key.
ConfigureFails ==
  /\ main = "config"
  /\ Fault
  /\ healthy' = FALSE
  /\ main' = "fatal"
  /\ UNCHANGED <<up, socket, webhook, ready, notified, exitSignal, terminating, probe,
                 package>>

\* The client is made; an expression of the domain filter that does not compile
\* is a panic.
ClientMade ==
  /\ main = "client" /\ stage["main"] = "done"
  /\ main' = "spawn"
  /\ UNCHANGED <<up, socket, webhook, healthy, ready, notified, exitSignal, terminating,
                 probe, faults, package>>
FilterPanics == main = "client" /\ stage["main"] = "done" /\ Fault /\ End

StartWebhook ==
  /\ main = "spawn"
  /\ webhook' = "listen"
  /\ main' = "started"
  /\ UNCHANGED <<up, socket, healthy, ready, notified, exitSignal, terminating, probe,
                 faults, package>>

\* A slip: main does not wait.
AwaitNobody ==
  /\ main = "started"
  /\ main' = "ready"
  /\ UNCHANGED <<up, socket, webhook, healthy, ready, notified, exitSignal, terminating,
                 probe, faults, package>>

\* startedChan has no buffer: main meets the goroutine that announces itself.
Await ==
  /\ main = "started"
  /\ "announce" \in {webhook, socket}
  /\ main' = "ready"
  /\ webhook' = IF webhook = "announce" THEN "serve" ELSE webhook
  /\ socket' = IF webhook # "announce" THEN "serve" ELSE socket
  /\ UNCHANGED <<up, healthy, ready, notified, exitSignal, terminating, probe, faults,
                 package>>

SetReady ==
  /\ main = "ready"
  /\ ready' = TRUE
  /\ main' = "notify"
  /\ UNCHANGED <<up, socket, webhook, healthy, notified, exitSignal, terminating, probe,
                 faults, package>>

\* The channel gets the signals from here on; main waits for one a line later.
Notify ==
  /\ main = "notify"
  /\ main' = IF notified THEN "wait" ELSE "notify"
  /\ notified' = TRUE
  /\ UNCHANGED <<up, socket, webhook, healthy, ready, exitSignal, terminating, probe,
                 faults, package>>

\* The signal is received and the healthy flag cleared, then the ready flag.
ReceiveSignal ==
  /\ main = "wait" /\ exitSignal > 0
  /\ exitSignal' = exitSignal - 1
  /\ healthy' = FALSE
  /\ main' = "unready"
  /\ UNCHANGED <<up, socket, webhook, ready, notified, terminating, probe, faults,
                 package>>

SetUnready ==
  /\ main = "unready"
  /\ ready' = FALSE
  /\ main' = "exit"
  /\ UNCHANGED <<up, socket, webhook, healthy, notified, exitSignal, terminating, probe,
                 faults, package>>

Exit == main \in {"exit", "fatal"} /\ End /\ UNCHANGED faults

Main ==
  \/ StartSocket \/ Configure \/ ClientMade \/ StartWebhook \/ Await \/ SetReady
  \/ Notify \/ ReceiveSignal \/ SetUnready \/ Exit
  \/ GetOpenMetricsInstance("main") /\ UNCHANGED <<up, process, probe, faults>>

-----------------------------------------------------------------------------
(* The goroutine of the metrics socket, and that of the webhook.           *)

\* A slip: the socket is given the channel of the webhook.
AnnouncedAlways == "announce"

\* main gives MetricsSocket.Start no channel.
Announced == "serve"

SocketReady ==
  /\ socket = "instance" /\ stage["socket"] = "done"
  /\ socket' = "listen"
  /\ UNCHANGED <<up, main, webhook, healthy, ready, notified, exitSignal, terminating,
                 probe, faults, package>>

SocketListens ==
  /\ socket = "listen"
  /\ socket' = Announced
  /\ UNCHANGED <<up, main, webhook, healthy, ready, notified, exitSignal, terminating,
                 probe, faults, package>>

Socket ==
  \/ SocketReady \/ SocketListens
  \/ GetOpenMetricsInstance("socket") /\ UNCHANGED <<up, process, probe, faults>>

\* StartHTTPApi.
WebhookListens ==
  /\ webhook = "listen"
  /\ webhook' = "announce"
  /\ UNCHANGED <<up, main, socket, healthy, ready, notified, exitSignal, terminating,
                 probe, faults, package>>

\* The address is taken, or the server fails.
ServerFails == (socket \in {"listen", "serve"} \/ webhook \in {"listen", "serve"}) /\ Fault /\ End

-----------------------------------------------------------------------------
(* The handlers of the webhook.                                            *)

Call(h) ==
  /\ webhook = "serve"
  /\ CallReturns(h) \/ WriteMetric(h)
  /\ UNCHANGED <<up, process, probe, faults>>

\* logFatalf in incFailCount.
FailCountReached == webhook = "serve" /\ Fault /\ End

\* A goroutine finds fields of the instance unset.
Crash == (\E g \in Goroutine : FindsUnset(g)) /\ Fault /\ End

-----------------------------------------------------------------------------
(* Probes.                                                                 *)

Pending == probe.step \in {"asked", "halfway"}

ProbeComes ==
  /\ socket = "serve"
  /\ ~Pending
  /\ \E path \in Path : probe' = [path |-> path, step |-> "asked"]
  /\ UNCHANGED <<up, process, package, faults>>

\* An OK is kept until the next request, a refusal is not.
Answer(ok) == probe' = IF ok THEN [probe EXCEPT !.step = "OK"] ELSE NoProbe

livenessHandler  == probe.path = "/health" /\ Answer(healthy)
readinessHandler == probe.path = "/ready" /\ Answer(ready)

\* A slip: one of the flags is enough.
healthzFirstEither == IF healthy THEN Answer(TRUE) ELSE probe' = [probe EXCEPT !.step = "halfway"]

\* The two flags are read one after the other.
healthzFirst   == IF healthy THEN probe' = [probe EXCEPT !.step = "halfway"] ELSE Answer(FALSE)
healthzHandler == probe.path = "/healthz" /\ healthzFirst

AnswerProbe ==
  /\ \/ probe.step = "asked" /\ (livenessHandler \/ readinessHandler \/ healthzHandler)
     \/ probe.step = "halfway" /\ Answer(ready)
  /\ UNCHANGED <<up, process, package, faults>>

-----------------------------------------------------------------------------
(* The container.                                                          *)

\* A slip: the channel has no buffer, a signal needs somebody who waits.
BufferedNever == main = "wait"

\* A slip: the channel has room for another signal, which nobody receives.
BufferedTwice == exitSignal < 2

\* The channel of the signals has room for one.
Buffered == exitSignal = 0

\* SIGTERM: it ends a process that does not ask for it, and is dropped when the
\* channel has no room.
Signal ==
  /\ Fault
  /\ IF notified
     THEN /\ exitSignal' = IF Buffered THEN exitSignal + 1 ELSE exitSignal
          /\ terminating' = TRUE
          /\ UNCHANGED <<up, main, socket, webhook, healthy, ready, notified, probe, package>>
     ELSE End

Start == ~up /\ up' = TRUE /\ UNCHANGED <<process, package, probe, faults>>

-----------------------------------------------------------------------------
Goroutines ==
  \/ Main \/ OptionsUnreadable \/ ConfigureFails \/ FilterPanics
  \/ Socket \/ WebhookListens \/ ServerFails
  \/ \E h \in Handler : Call(h)
  \/ FailCountReached \/ Crash
  \/ ProbeComes \/ AnswerProbe
  \/ Signal

\* What is so: both flags are set; the webhook's port is open.
Now == {x \in {"both", "open"} :
          IF x = "both" THEN healthy /\ ready ELSE webhook \in {"announce", "serve"}}

\* What is so is remembered as long as a request is pending.
Watch == witnessed' = IF probe'.step = "none" THEN {}
                      ELSE IF Pending THEN witnessed \cup Now'
                      ELSE IF probe'.step = "asked" THEN Now'
                      ELSE witnessed

Next == ((up /\ Goroutines) \/ Start) /\ Watch

Spec == Init /\ [][Next]_vars

\* The scheduler runs every goroutine that can go on, handlers return, and the
\* container is started again.
FairSpec ==
  /\ Spec
  /\ WF_vars(up /\ Main /\ Watch)
  /\ WF_vars(up /\ Socket /\ Watch)
  /\ WF_vars(up /\ WebhookListens /\ Watch)
  /\ WF_vars(Start /\ Watch)

-----------------------------------------------------------------------------
(* Properties.                                                             *)

\* An OK of /healthz means that the process was healthy and ready at one moment
\* of the request, though the flags are read one after the other while main
\* changes them one after the other.
HealthzTellsTruth == probe.path = "/healthz" /\ probe.step = "OK" => "both" \in witnessed

\* An OK of /ready or /healthz means that the webhook's port was open at a moment
\* of the request.
ReadyMeansOpen ==
  probe.path \in {"/ready", "/healthz"} /\ probe.step = "OK" => "open" \in witnessed

\* Where main is tells what the flags, the other goroutines and the metrics are
\* at: the client holds its instance before the webhook starts, and the webhook's
\* port is open before main is ready.
MainInv ==
  /\ healthy <=> main \in {"config", "client", "spawn", "started", "ready", "notify", "wait"}
  /\ ready <=> main \in {"notify", "wait", "unready"}
  /\ main = "options" => stage["socket"] = "none"
  /\ main \in {"options", "config"} => stage["main"] = "none"
  /\ main \in {"spawn", "started", "ready", "notify", "wait", "unready", "exit"} =>
       stage["main"] = "done"
  /\ webhook # "none" =>
       main \in {"started", "ready", "notify", "wait", "unready", "exit"}
  /\ main \in {"ready", "notify", "wait", "unready", "exit"} => webhook = "serve"
  /\ socket # "announce"

\* What is so now was seen by a pending request; one that found the process healthy
\* has seen both flags set, unless it still may or never will.
ProbeInv ==
  /\ Pending => Now \subseteq witnessed
  /\ probe.step = "halfway" => "both" \in witnessed \/ healthy \/ main = "fatal"

\* All of this holds together: the invariant that the safety properties rest on.
ProcessInv ==
  /\ CreationInv /\ RecordingInv /\ GaugesInv
  /\ MainInv /\ ProbeInv
  /\ HealthzTellsTruth /\ ReadyMeansOpen

\* A signal ends the process, whenever it comes.
SignalEnds == terminating ~> ~up

\* After the last fault the process serves and says so.
ComesBack ==
  <>[](faults = MaxFaults) => <>[](webhook = "serve" /\ socket = "serve" /\ ready /\ healthy)
=============================================================================

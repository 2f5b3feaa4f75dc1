# external-dns-hetzner-webhook in TLA+

The webhook stands between ExternalDNS and the Hetzner Cloud API. ExternalDNS
reads the DNS records through it, compares them with what the cluster wants and
posts a plan; the webhook turns the plan into calls to the API. Nothing is
persisted by the webhook: what must come out right comes out right because the
next cycle reads again.

This directory holds the specifications of that behaviour, the models that TLC
checks and the proofs that TLAPS checks. Source paths below are relative to the
repository; `cloud/` is short for `internal/hetzner/cloud/`.

## Inventory

| Component | State it keeps | Operations | What is hard | What makes it correct |
| --- | --- | --- | --- | --- |
| Planning of changes: `cloud/change_processors.go`, `cloud/endpoints.go`, `cloud/labels.go` | none | `endpointsByZoneID`, `processCreateActions`, `processUpdateActions`, `processDeleteActions` and the conversions of names, targets and labels | what was read may be old when it is used | the queued calls make what was read as wanted, no more and no less; a name, a target or a label means the same after the way to Hetzner and back |
| Regular mode: `cloud/changes.go`, `cloud/changes_internals.go` | queues of one request | `applyDeletes`, `applyCreates`, `applyUpdates`, the first error ends the request | partial failure, lost answers, orphaned handlers, recordsets that exclude each other | one undisturbed cycle repairs everything; no write that nobody wished for |
| Provider: `cloud/provider.go`, `cloud/connector.go`, `cloud/zoneidmap.go` | zone cache, its expiry, the map of the zones, the fail count: all unprotected and shared by the requests | `Zones`, `Records`, `ApplyChanges`, `AdjustEndpoints`, `incFailCount`, `resetFailCount` | stale cache, requests that interleave, deleted and nested zones, outages | the cache expires, each change meets its own zone, a listing in pages misses nothing, a lasting outage shuts the webhook down |
| Bulk mode: `cloud/bulk_changes.go` | queues by zone of one request | export, edit, import per zone; errors are logged | edits between export and import, swallowed errors | the import changes nothing else; the zones converge |
| Zonefile: `internal/zonefile/` | one parsed file | `NewZonefile`, `AddRecord`, `UpdateRecord`, `DeleteRecord`, `Export`; the serial number | what cannot be parsed, 100 versions a day, midnight | the serial number rises with every import |
| API client: `cloud/hetznercloud.go` | none | one wrapper per call, with metrics | handlers overlap | every call is counted once |
| Metrics: `internal/metrics/` | counters and gauges | increments, `GetOpenMetricsInstance` | the singleton is made without a lock, by two goroutines; gauges are set one by one | the registry that is served is complete and of the instance that counts |
| Probes: `internal/server/metrics_socket.go`, `status.go`, `mutexed_bool.go` | two flags, each behind a mutex | `livenessHandler`, `readinessHandler`, `healthzHandler` | two flags are not one, and main changes them meanwhile | an OK was true at a moment of the request |
| Process: `cmd/webhook/main.go` | - | start, signal, end | a signal may come at any moment of the start; it ends handlers that are applying a plan | every signal ends the process; it comes back |
| Configuration: `internal/hetzner/configuration.go`, `internal/server/options.go` | none after the start | reading the environment, `GetDomainFilter` | an expression that does not compile is a panic | the filter that counts is the documented one |

How they interact: the webhook API server (ExternalDNS' library) serves each
request in a goroutine of its own and calls the one provider of the process.
`Records` and `ApplyChanges` call `Zones`, then fetch the recordsets zone by
zone. `ApplyChanges` groups the endpoints by zone with the provider's map, fills
the runner chosen by `BULK_MODE`, and runs it. `Records` counts failed listings
and ends the process at `MAX_FAIL_COUNT`. Kubernetes restarts the process and
reads the probes.

## Modules

| Module | Models | Uses |
| --- | --- | --- |
| `RRSets` | recordsets, endpoints, and the pure functions from a plan to queued changes | |
| `DesiredState` | what the webhook promises, as an abstract specification | `RRSets` |
| `Reconcile` | ExternalDNS' loop, the requests, the regular mode, Hetzner's recordsets, disturbances | `RRSets`, an instance of `DesiredState` |
| `RRSetsProofs` | lemmas about the functions of `RRSets` | `RRSets` |
| `ReconcileProofs`, `CycleProofs` | the theorems about `Reconcile` | `Reconcile`, `RRSetsProofs` |
| `Names` | names, targets and label keys on their way between ExternalDNS and Hetzner | |
| `Journey` | the listing page by page, `AdjustEndpoints`, the plan and the calls, name by name | `Names` |
| `JourneyProofs` | the theorems about `Journey` and `Names`: types, listings, names, conversions | `Journey` |
| `WishProofs` | the theorems about what a cycle of `Journey` leaves behind | `JourneyProofs` |
| `ZoneCache` | the provider's shared state and the requests that read and write it | |
| `ZoneCacheProofs` | the theorems about `ZoneCache` | `ZoneCache` |
| `BulkChanges` | the bulk mode with the zonefile and its serial number | `RRSets` |
| `BulkProofs` | the theorems about `BulkChanges` | `BulkChanges`, `RRSetsProofs` |
| `Metrics` | the creation of the metrics instance, and what each API call writes into it | |
| `Lifecycle` | `main`, the metrics socket with the probes, the webhook's server, signals and restarts | `Metrics` |
| `LifecycleProofs` | the theorems about `Lifecycle` and `Metrics` | `Lifecycle` |
| `MCReconcile`, `MCZoneCache`, `MCBulkChanges`, `MCJourney` | the instances that TLC checks (`Lifecycle` needs none) | |

### RRSets

A `Key` is a recordset's identity (name and type); the list of its values is one
abstract value, and two lists that `sameZoneRRSetRecords` takes for equal are the
same value. `ZoneOf` is the zone that `FindZone` selects. `None` stands for nil.
A nil and an empty map of labels are the same value (`equalStringMaps`).
`PlanFor` and `Differs` are ExternalDNS' side (external code): what it creates,
updates and deletes when it is shown some records. Endpoints may have no TTL and
may have labels that do not parse.

### Reconcile

One `req[h]` per handler holds what a request has in its local variables: the
plan it was posted, the zones still to be read, the recordsets read (`seen`), the
three queues of `hetznerChanges`, and the update whose calls have begun. Each
call to the API is one step (`FetchZone`, `applyDeletes`, `applyCreates`,
`UpdateRecords`, `UpdateTTL`, `UpdateLabels`); the code between two calls belongs
to the step before or after it. The queues are sets, for their order comes from
Go maps and from ExternalDNS; the order deletions, creations, updates, and within
an update records, TTL, labels, is kept.

A call has the outcomes the code can meet: it takes effect; it reports success
and does not take effect (the returned action fails later; `changes.go` discards
it); it is refused; it fails; it takes effect and its answer is lost. Outside
steps are `GiveUp` (a client or server timeout: the handler runs on, because the
API server does not hand the request's context to the provider), `Crash` (of the
process; `logFatalf` of another request is one), `ForeignEdit`, and `ChangeWant`.
All but a refusal are *disturbances*; `quiet` says that there was none since the
cycle began, and `wished` remembers what was ever wanted. Both are history.

Abstractions: the zones do not change here (they do in `ZoneCache`); the pages of
one listing are one step (they are steps in `Journey`); the labels of one recordset are one value;
ExternalDNS runs once; recordsets that ExternalDNS does not own exclude none of
the others.

### DesiredState

The webhook without its requests, listings, plans, queues and handlers. A
recordset moves one `Write` at a time towards some past or present wish; a cycle
that was quiet succeeds only when the wish is fulfilled (`Succeed`) and does not
fail (`Fail`); with `DryRun` there is no `Write`. `Reconcile` implements it under
the mapping `outcome <- last` (the answer of the last request), everything else
by its name: `ImplementsDesiredState`. `Orderly` is the condition on the
environment that the promise of success needs: Hetzner refuses a CNAME beside
other recordsets of its name, so these must be the webhook's own, in the same
zone, and never wanted together.

### Names and Journey

A name is the sequence of its parts, most specific first, so that `HasSuffix` and
`TrimSuffix` with a dot are operations on sequences; a target is a name with or
without a final dot, behind a priority in an MX record; a label key is a sequence
of words, slashes and escape sequences. `AdjustEndpoints` converts a target as a
whole, so that the priority of an MX target is part of the first label that
`idna.ToASCII` gets (`makeEndpointTarget`, `FirstLabel`); what it makes of such a
label is the constant `BehindPriority`: the label as it was, or one whose priority
is no number any more (`KeepsOrSpoils`). `CanParse` says which values are records of
their type: an address ends with no dot, a priority is a number. `Names` has the conversions of `cloud/endpoints.go`,
`cloud/change_processors.go`, `cloud/labels.go` and `FindZone`, one operator each
under the name of the function.

`Journey` puts them where the code does. A cycle is `StartRecords`, one
`FetchPage` per page of `fetchRecords`, `ReturnRecords`, `AdjustEndpoints` with
ExternalDNS' plan, `StartApply` and the pages again, `Queue`, one `DoCall` per
call, `ReturnApplied`. Between any two of these somebody else may create a
recordset anywhere in the pages (`ForeignCreate`) or delete one
(`ForeignDelete`), the wish may change, and the webhook may restart, which
empties the map of the zones (`mapper`): a restart between `Records` and
`AdjustEndpoints` is why `AdjustEndpoint` meets no zone. `settled`, `quiet`,
`lasting` and `shrunk` are history. One request is served at a time, and the
three calls of an update are one step: `Reconcile` has them apart.

Either mode may be on (`bulk`, chosen at the start). In the bulk mode the calls of
a zone go through its zonefile at once (`applyZoneChanges`): a value is parsed and
completed with the zone as `internal/zonefile` does it (`parseRecord`,
`expandTarget`), of two creations of one name and type the second is refused
(`OneOfEachName`), an import that Hetzner refuses changes nothing and is no error,
and labels are not written. What may come between export and import is in
`BulkChanges`.

The properties carve out, by name, what the code cannot do (`Plain` is an owned
name to which none of it applies):

- `RepeatsZone`: a name like `top.top` in the zone `top` is created as the apex;
  `TakesApex` is the apex that is taken that way.
- `Shadowed`: a recordset left in the zone above a nested one is shown by `Records`,
  and `ApplyChanges` does not find it. If the nested zone has the name as well and
  the two differ (`ShownAlike` is false), ExternalDNS may see now this one and now
  that, and the webhook is not quiet even when a cycle has succeeded.
- `Unsayable`: in the bulk mode an MX record of the zone itself (see "What is
  checked"), asked for in Unicode or in ASCII, or an endpoint with a value that does
  not parse, as it was asked for or as it was adjusted (`Formless`): an MX priority
  that is no number, or that was one before its host in Unicode was converted. The
  error is logged, and the rest of the zone is imported.
- `Blocked`: a wish with a target that `idna.ToASCII` refuses, or that Hetzner refuses
  as it comes out of the conversion, or whose name, in one of the zones, a foreign
  recordset has taken: no cycle of the regular mode succeeds while it lasts, and one
  of the bulk mode that does may have changed nothing. What the bulk mode only leaves
  out, a value that does not parse, does not block it.
- a name that the filters match, in a zone that they do not: it is created again in
  each cycle, since the recordsets of its zone are not read.

"What the cycle relies on" (`Orderly`) says what `Journey` takes from outside for
given: owned names are in Unicode form, wishes are hosts, with a priority in MX
records only, and do not conflict, and Hetzner holds nothing it would refuse.

### ZoneCache

Every access to `zoneCache`, `zoneCacheUpdate`, `zoneIDNameMapper` and
`failCount` is a step, so that requests interleave between any two. The check of
the cache at the beginning of `Zones` is one step (clock, expiry and slice read
together). A slice or a map is read and written whole. Time is relative:
`cacheLeft` is what is left of the validity, and `Tick` is one unit. Zones are
born and deleted once each; a zone that is recreated has a new ID. `FindZone` is
the longest suffix among the mapped zones. `elapsed`, `age`, `cacheAge`,
`failedListings` and `failedRecords` are history.

### BulkChanges

A cycle is planned, queued, and then each zone with changes (`getZoneChanges`; with
a creation also one that the filter keeps out, whose recordsets were not read) is
exported, edited
(`ExportZone`) and imported (`ImportZone`), with anything in between. An exported
zonefile has all recordsets of the zone with their TTLs and without labels.
Values in `Unparsable` are refused by `parseRecord`; a recordset in `Unreadable`
stops the reading of the file, in an order of the export that is unknown, so that
any part of the others may have come before it (the SOA, which stands first in a
zonefile, has). A serial number is an age in days and a
version; `MaxVersion` stands for 99, `Unsupported` for what
`NewSOASerialNumber` rejects. At most one midnight passes between an export and
its import. `DryRun` is a constant that no action reads: nor does the code. (`DryRunsWriteNothing` is about the regular mode.)
Assumed of Hetzner: an import replaces all recordsets of the zone, and a
recordset that stays keeps its labels. One handler works at a time, and the
zones are read in one step: `Reconcile` is about the rest.

### Metrics and Lifecycle

The three goroutines of a process have a program counter each: `main`, `socket`
(the metrics socket) and `webhook`. `main` steps through `main.go` line by line
where a line is visible to another goroutine: the flags, the channel without
buffer on which it meets the server that announces itself, the channel of the
signals with room for one. `GetOpenMetricsInstance` is asked for by `main` and by
`socket`, without a lock: the test for nil, the assignment of the global
variable, each `MustRegister` (which reads the variable again) and the final read
are steps. The instance bears the name of its creator; each registry holds whose
collectors were registered in it. Because nothing orders the fields of an
instance before the variable, a goroutine that finds the other's instance may
find them unset and die (`Crash`). Afterwards each call to Hetzner ends with
`writeMetrics`, whose steps overlap with those of other handlers.

A probe is asked, answered, and in `healthzHandler` read halfway; `witnessed`
remembers what was so at some moment since it came. `End` is every end of the
process; `Start` is the container's restart. Faults (`OptionsUnreadable`,
`ConfigureFails`, `FilterPanics`, `ServerFails`, `FailCountReached`, `Crash`,
`Signal`) are the environment's choice.

## What is checked

`tlc -config X.cfg M` for each row; every run finishes within about three minutes.
`OrderlyInv`, `OneHandlerInv`, `ProcessInv`, `BulkInv` and `WishInv` are the inductive
invariants of "What is proved".

| Configuration | Module | Properties | Shows |
| --- | --- | --- | --- |
| `Reconcile` | `MCReconcile` | `TypeOK`, `CleanCycleSyncs`, `CleanCycleSucceeds`, `OrderlyInv`, `WritesOnlyWishes`, `ImplementsDesiredState`, `Convergence` | an undisturbed cycle neither fails nor leaves anything unsynced, from any half-applied state; overlapping handlers write only what some wish asked for; every step is one of `DesiredState`; the zones become as wanted when disturbances end |
| `Journey` | `MCJourney` | `TypeOK`, `ListingComplete`, `CycleMeansWished`, `WishInv`, `SettledIsQuiet`, `WritesMeetTheirName`, `Settles` | a listing in pages misses nothing that stayed; after a cycle that succeeded the zones say exactly what was asked, in the deepest zone of each name; nothing is written again afterwards, not even after a restart; and such a cycle comes |
| `Lifecycle` | `Lifecycle` | `TypeOK`, `RegistryComplete`, `EveryCallShown`, `RateLimitOfOneCall`, `HealthzTellsTruth`, `ReadyMeansOpen`, `ProcessInv`, `SignalEnds`, `ComesBack` | however the goroutines interleave, the registry that is served is whole, an OK of a probe was true at a moment of its request, a signal ends the process, and it serves again |
| `OneHandler` | `MCZoneCache` | `TypeOK`, `CacheExpires`, `ChangesMeetTheirZone`, `ShutsDownInTime`, `OneHandlerInv` | with one request at a time cache and map are right, and the fail count is the one that `provider.go` keeps: of calls of `Records` in a row that got no zones |
| `Outages` | `MCZoneCache` | `Heals`, `OutageShutsDown` | with two requests, what they tear is repaired, and lost counts do not keep the webhook alive for ever |
| `BulkChanges` | `MCBulkChanges` | `TypeOK`, `BulkCycleSyncs`, `BulkInv`, `FilteredZonesOnlyGrow`, `ImportKeepsTheRest`, `ImportRaisesSerial`, `BulkConverges` | the bulk mode syncs what it can, destroys no more than documented, not in a filtered zone either that a creation falls into, raises the serial number, and converges although it swallows errors and has 100 versions a day |

`OneHandler` is about one request at a time because its properties need it:
with two handlers an old list may be stored under a new expiry (`StoreCache` and
`StoreExpiry` of different requests), the map may be replaced between the reading
of the recordsets and the grouping, and a count may be lost. `Outages` says what
still holds then.

Six configurations end in a counterexample, each to a sentence of the
repository:

| Configuration | Property | The code | The sentence |
| --- | --- | --- | --- |
| `FilteredZone` | `OnlyManagedZones` | `cloud/provider.go:175` maps all zones, so a change may go to a filtered one | `docs/environment-variables.md:59-60` |
| `FailedRecords` | `FailedRecordsShutDown` | `cloud/provider.go:222-225` does not count a failed `fetchRecords` | `docs/upgrading.md:43-46` |
| `UnicodeMX` | `TargetsConform` | `cloud/endpoints.go:87` converts the priority together with the host, and what is sent for an MX target in Unicode has no numeric priority | `cloud/endpoints.go:81-82` |
| `BulkDryRun` | `BulkDryRunWritesNothing` | `cloud/bulk_changes.go` never reads `dryRun` | `internal/hetzner/configuration.go:35` |
| `BulkLabels` | `LabelsAreNoReason` | `cloud/bulk_changes.go:70-72` says that labels are supported | `docs/advanced-features.md:17` |
| `BulkUnreadable` | `ImportKeepsTheRest` | `zonefile/database.go:77-89` does not ask for the parser's error | `zonefile/database.go:46-48` |

`ShutsDownInTime` states what the code does, and the comment of its option says
something else (`internal/hetzner/configuration.go:51-53`): "Failed reads count
before shutting down the container. It gets reset for every successful API access."
`Records` resets the count as soon as it has the zones (`cloud/provider.go:218`), and
nothing else does: an `ApplyChanges` that lists the zones and reads all their
recordsets leaves it as it was, and zones from the cache reset it without any access.

Read in the code, and outside of the models: `internal/server/options.go:75` writes
the deprecated `HEALTH_PORT` to `MetricsHost`, although
`docs/environment-variables.md:53` calls it the metrics port.

What `UnicodeMX` leads to: in the regular mode each cycle is refused (`Blocked`), and in
the bulk mode the error of `parseMXRecord` is logged and the cycle succeeds without
the record (`Unsayable`).

Met in `Journey`, and carved out there (`Unsayable`): for an MX record whose host is
the zone itself `cloud/change_processors.go:75-76` writes `@`, which
`internal/zonefile/database.go:196-201` completes like a host of the zone, although
its comment promises the FQDN of the target: the bulk mode stores `@.` and the zone.

### Bounds

- `Reconcile`: two handlers (an orphan and the current one), two managed zones
  and a filtered one, an A and a CNAME recordset of the same name, one in another
  zone, one not owned; two values, TTLs and label maps; three wishes that move
  each recordset between all its states; `MaxDisturbances` = 2, enough for an
  orphaned handler plus a second mishap. `DryRun` is off: what a dry run
  does is proved (`DryRunsWriteNothing`, `Implements`).
- `Journey`: both modes; a zone, one nested in it and one that the filter keeps out; pages of
  one recordset (`BatchSize` = 1), so that every insertion and deletion shifts a
  page; eleven wishes that write local, foreign, apex and Unicode targets with and
  without dots, among them MX hosts with a Unicode part in first and in second
  place, or cannot be fulfilled; a recordset left behind in the wrong
  zone, with another value than the one in the right zone; `MaxRestarts` = 1 and `MaxDisturbances` = 1: the properties are about what one
  mishap does to a listing or a cycle, and every later cycle begins anew.
- `Lifecycle`: two handlers, two collectors per instance (a registry can be whole,
  half or wrong), two calls, so that two handlers set the gauges at once;
  `MaxFaults` = 2: a fault in the start or the shutdown that another one caused,
  or two signals.
- `ZoneCache`: a zone, one nested in it and one filtered out; names in each;
  `ZoneCacheTTL` = 2 lets a call take longer than the cache lives and a list be
  used at half its age; `MaxFailCount` = 2 tells the first failure from the last.
  `Outages` has two handlers, one zone and a cache of one unit: a torn cache and
  map differ in that zone already.
- `BulkChanges`: a managed zone with three recordsets, one of them not owned, and a
  filtered zone with one that is wished, so that both are imported, in either order,
  and one may be given up; one value that does not parse, beside others of its zone;
  `MaxVersion` = 1 (the first and the last version of a day), serial numbers of today,
  of another day and unsupported ones; two disturbances. The counterexamples have two
  managed zones instead.

Symmetry is not used: the instances give the model values different roles.
Deadlock is checked in every run.

### Fairness

- `Reconcile`: weak fairness of ExternalDNS' loop (`RunOnce` in a ticker) and of
  each handler's next step: every API call returns, with an answer or an error,
  within the HTTP client's timeouts.
- `ZoneCache`: weak fairness of each handler, of the clock and of the restart of
  the container; strong fairness of "some handler begins `Records`", for
  ExternalDNS asks again and again although all handlers may be busy in between.
  Nothing is assumed of Hetzner: both properties say what follows if it stays
  reachable, or unreachable.
- `BulkChanges`: weak fairness of the cycle and of midnight.
- `Journey`: `[]<><<Cycle>>_vars`, which is weak fairness of `Cycle`, because some step
  of `Cycle` is possible in every state: ExternalDNS loops, and every call returns.
- `Lifecycle`: weak fairness of `main`, of the goroutine of the socket, of the start
  of the webhook's server (Go's scheduler runs what can run) and of the restart
  of the container. Nothing is assumed of probes, handlers, signals and faults.

Disturbances are bounded by `MaxDisturbances` (`MaxRestarts`, `MaxFaults`), so that
"once they are over" is part of every behaviour; no fairness is assumed of them.

## What is proved

Every theorem is for all values of the constants that its module's assumptions
admit: any zones, recordsets, values, handlers and wishes, and any number of
disturbances. The assumptions type the constants, keep `None` apart from the data,
and say what the code's environment guarantees; TLC evaluates each on a run.

### The regular mode

About `Reconcile`. Assumed: `DataAssumption`,
`NilIsNoRecord` and `ReconcileAssumption`, which type the constants, say that
`None` is none of the data, that wishes name only owned recordsets, that the zones
hold nothing outside of themselves at the beginning, and that no recordset
excludes itself.

| Theorem | Statement |
| --- | --- |
| `ReconcileProofs!TypeCorrect` | `Spec => []TypeOK` |
| `ReconcileProofs!OnlyWishesAreWritten` | `Spec => WritesOnlyWishes` |
| `CycleProofs!Inductive` | `Spec => []IndInv` |
| `CycleProofs!CleanCyclesSync` | `Spec => []CleanCycleSyncs` |
| `CycleProofs!DryRunsWriteNothing` | `Spec => DryRunWritesNothing` |
| `CycleProofs!OrderlyInductive` | `Spec => []OrderlyInv` |
| `CycleProofs!CleanCyclesSucceed` | if `DS!Orderly` holds, `Spec => []CleanCycleSucceeds` |
| `CycleProofs!Implements` | `Spec => ImplementsDesiredState` |

The invariant `IndInv` has four parts. `TypeOK`. `WishInv`: every plan, and every
call in the queues of every handler, goes back to a wish in `wished`; that is
enough for `WritesOnlyWishes`, for a handler writes only from its queues.
`LoopInv`: ExternalDNS and the handler it waits for agree on where they are.
`CycleInv`: while a cycle is quiet no other handler is busy, what was read is what
is there (`Reading`), the plan is the one for the present wish (`Applying`), and
what is still wrong with a recordset is in the queues (`Pending`); when the
request ends without an error the queues are empty, and so nothing is wrong.
`CleanCycleSyncs` alone is not inductive: it says nothing about a cycle on its
way. `ReconcileProofs` has one lemma per kind of step on types and queues, and
the preservation of `TypeOK` and `WishInv` action by action,
and `CycleProofs` that of `LoopInv` and `CycleInv`.

`OrderlyInv` adds `FitInv`: what a quiet cycle has queued fits what is there, the
deletions what will make room for the creations (`Fitting`). With `DS!Orderly` it
makes every call of a quiet cycle one that Hetzner accepts, so that the cycle
cannot fail by itself; that is `CleanCyclesSucceed`, and the case `Fail` of the
refinement. `Implements` maps each action of `Reconcile` under `OrderlyInv` to an
action of `DesiredState` or to a stutter: calls that take effect to `Write`,
answers to `Succeed`, `Fail` or `Upset`, reading and queueing to stutters.

### The provider's state

About `ZoneCache`. Assumed: `ZoneCacheAssumption`. `TypeCorrect` holds for any
number of handlers; the rest is about one (`OneHandler`), for the reasons given
with the run `OneHandler`: with two, TLC finds counterexamples.

| Theorem of `ZoneCacheProofs` | Statement |
| --- | --- |
| `TypeCorrect` | `Spec => []TypeOK` |
| `OneHandlerInductive` | with one handler, `Spec => []OneHandlerInv` |
| `CachesExpire` | with one handler, `Spec => []CacheExpires` |
| `EveryChangeMeetsItsZone` | with one handler, `Spec => []ChangesMeetTheirZone` |
| `ShutsDownOnTime` | with one handler, `Spec => []ShutsDownInTime`: the count of `provider.go`, not the one its option's comment promises |

`OneHandlerInv` says for each step of a request which of the fields it has
already brought in line: `StoredInTime` (while a request lists and stores, the
cache is over, and the listing is no older than the request), `OfOneListing` (map,
cache and what the request has read are of one listing) and `CountsFailures` (the
fail count is the number of failures in a row, but for the steps of
`incFailCount`). None of the three properties is inductive: a cache that is not
used yet may already be too old.
`EveryChangeMeetsItsZone` needs one fact about `FindZone`, that the longest match
among some zones is also the longest among fewer of them that hold it; that a
longest match exists is proved by well-founded induction over the lengths.

### The process and its metrics

About `Lifecycle`, which includes `Metrics`. Assumed: `MetricsAssumption` and
`LifecycleAssumption`.

| Theorem of `LifecycleProofs` | Statement |
| --- | --- |
| `TypeCorrect` | `Spec => []TypeOK` |
| `Inductive` | `Spec => [](TypeOK /\ ProcessInv)` |
| `RegistriesComplete` | `Spec => []RegistryComplete` |
| `EveryCallIsShown` | `Spec => []EveryCallShown` |
| `RateLimitsOfOneCall` | `Spec => []RateLimitOfOneCall` |
| `HealthzIsTrue`, `ReadyIsOpen` | `Spec => []HealthzTellsTruth`, `Spec => []ReadyMeansOpen` |

`ProcessInv` has five parts. `CreationInv`: who holds an instance of the metrics
has made it or found it made, and the registry of an instance that counts has no
collector of another. `RecordingInv`: calls are counted by the instance of the
client alone, and none is lost between the counter and the handlers that have yet
to count. `GaugesInv`: unless two handlers set the gauges at once, what is set so
far is of one call. `MainInv`: where `main` is tells the flags, the webhook's server
and the metrics apart. `ProbeInv`: a pending probe has seen all that was so since
it came; from there, the two flags that `healthzHandler` reads one by one were
set together once.

### The bulk mode

About `BulkChanges`. Assumed: `DataAssumption`, `NilIsNoRecord` and
`BulkAssumption`. The first two theorems hold in any case; the other four where no
recordset stops the parser of zonefiles (`Readable`), for otherwise they are false
(`BulkUnreadable`).

| Theorem of `BulkProofs` | Statement |
| --- | --- |
| `TypeCorrect` | `Spec => []TypeOK` |
| `ImportsRaiseSerials` | `Spec => ImportRaisesSerial` |
| `ImportsKeepTheRest` | if `Readable`, `Spec => ImportKeepsTheRest` |
| `BulkInductive` | if `Readable`, `Spec => []BulkInv` |
| `BulkCyclesSync` | if `Readable`, `Spec => []BulkCycleSyncs` |
| `FilteredZonesKeep` | if `Readable`, `Spec => FilteredZonesOnlyGrow` |

`BulkInv` follows a zone through a cycle. `FileIsLater`: the serial number of the
file is later than the exported one, and still is after midnight, because the
date of the new one is of today. `FileKeepsTheRest`: entries differ from the export
in queued recordsets only. `CycleInv`: while a cycle is quiet, the zones to come are
as they were read, the file is as wanted, and so are the zones that are done with.
The step that carries it is `EditMeetsWish`: what the plan queues, computed from the
zone as it was read, makes the zone as it is exported the wanted one. What `CycleInv`
says is about managed zones; of the others, which were not read, nothing is updated
or deleted, and `AddRecord` refuses a name that is there: that is
`FilteredZonesKeep`.

### Names and pages

About `Journey` and `Names`. Assumed: `NamesAssumption` and `JourneyAssumption`:
zones, wishes and edits are of their types, there are finitely many zones and
wished endpoints, a part of a name is neither `@` nor the mark of a part
without an ASCII form, the ASCII form of an ASCII form is itself, and a label with a
priority in it is kept or loses its number.

| Theorem of `JourneyProofs` | Statement |
| --- | --- |
| `TypeCorrect` | `Spec => []TypeOK` |
| `ListingsAreComplete` | `Spec => []ListingComplete` |
| `WritesMeetTheirNames` | if `OwnedInUnicode`, `Spec => WritesMeetTheirName` |
| `TargetsReadBack` | a target that is stored and read is the one that was asked for |
| `LabelsReadBack` | labels that are shown to ExternalDNS and come back are the same |
| `CreatedReadsBack` | a recordset that is created for an endpoint is shown as that endpoint |

`TypeCorrect` needs `Finite` with it, for a zonefile lists a finite set. It says more than types:
a name is never cut to nothing, a target for which the conversion failed does not
reach the plan, and `getMatchingDomainRRSet` finds what it is asked for.
`ListingInv` carries `ListingsAreComplete`: between two pages of a zone, what lasts
is in the recordsets seen or lies at a position after the pages read (`Ahead`). A
creation can only move it further on (`InsertKeepsAhead`); only a deletion can move it
back, over the edge of a page.
`NamesInv` carries `WritesMeetTheirNames`: what is planned is owned, and what is queued
meets its name. Its core is `CutAndJoin`: what `strings.TrimSuffix` cuts off is
what `EndpointName` puts back. The hypothesis `OwnedInUnicode` is needed because
`FindZone` compares the Unicode form of a name, while the name itself is cut: a name
in its ASCII form keeps the name of a zone that is written in Unicode.
`TargetsReadBack` is about what is stored and read, after the conversion; it asks for
targets without `@` and for numeric priorities, and
`LabelsReadBack` for labels without an escape sequence of their own; without
these the targets and labels do change. `CreatedReadsBack` puts the two together
with `CutAndJoin`: a created recordset leaves the next cycle nothing to update. It
leaves out a name that is its zone written twice, which `Records` shows as the zone
itself.

### What a cycle leaves behind

About `Journey`, in the regular and in the bulk mode. Assumed besides: `Orderly`,
which TLC evaluates on the instance of `MCJourney`. `OwnedInUnicode` is the
hypothesis of `WritesMeetTheirNames`. `WishesOrderly`: a target is a host, with a priority in MX records
only, none is asked for twice by one endpoint, no id twice by one wish, and an alias is asked for alone, as
ExternalDNS' conflict resolution leaves it. `HetznerOrderly`: at the beginning no
zone holds what Hetzner would refuse, and what others store has no value twice
and no escape sequence in its labels. Each is used: with an alias asked for
beside an address, for instance, a zonefile is refused without an error, and a value
stored twice can pass for two different ones (`sameZoneRRSetRecords`).

| Theorem of `WishProofs` | Statement |
| --- | --- |
| `CyclesWorkOnWishes` | if `Orderly`, `Spec => []WishInv` |
| `CyclesMeanWhatIsWished` | if `Orderly`, `Spec => []CycleMeansWished` |

Two invariants carry this. `KeepInv` holds in every state, disturbed or not: what
Hetzner holds stays `Decent` and `Valid`, and whatever is planned or queued comes
from some wish, in its own form or in the adjusted one. `WishInv` follows a cycle
while it is undisturbed (`quiet`), and has a part for each of its phases:

- `ReadInv`: what was read is what the zones hold, up to the page that comes next
  (`PageFollows`);
- `PlanInv`: each owned id that is not as wished is in the plan, under the
  operation that its recordset calls for, and each unwished one among the deletions
  (`PlanIsDue`). That nothing else needs to be there is `SameIsMeant`: a recordset
  that ExternalDNS is shown and finds no difference in means what was asked, in
  whatever form it is stored;
- `CallsInv`: each call that is left makes its id mean what was asked (`Grants`), and
  an id that no call is about is as wished already (`QueueIsDue`). A call with a value
  that does not parse, such as a spoiled priority, makes nothing so: it is refused, or
  left out of the zonefile, and its id is not plain. A call of the
  regular mode fulfils its own id and touches no other (`CallBearers`). A zonefile
  fulfils all ids of its zone at once (`FileFulfils`), and it is taken, because what it
  keeps and what it adds exclude each other only where a wish is `Blocked`
  (`FileIsValid`); that a blocked wish stays so until somebody else moves is
  `BlockedStays`.

When the request ends no call is left, and so every plain id is as wished: that is
`settled`. A restart in the middle only ends the cycle; one between `Records` and
`AdjustEndpoints` does not, and leaves targets in the form in which they were asked
for, which `AdjustedFrom` allows.
`AdjustedTarget` is the way through `AdjustEndpoints`: with a numeric priority left, a
target still says what was asked. `WrittenRecords`, `WrittenTells` and `MadeGrants` are the way of the values: what is
stored for a wish, in a call or in a zonefile, is heard as the hosts and priorities
that were asked for, each once. `MeetsZone` ties a recordset to the deepest zone
of its name, so that two zones never claim the same id.

The proof corrected the model in five places, which the instance had not told
apart: `Plain` leaves out an apex taken by a name that repeats its zone, and names
whose zone the filters do not match; `Unsayable` includes the ASCII form of the
zone; `Blocked` is about zones there are; what is said of bulk calls is said
of managed zones; and `SettledIsQuiet` asks for `ShownAlike`, and for targets
in ASCII, or values in the webhook's own form.

### Only model-checked

- `SettledIsQuiet` of `Journey`. It is about the form of values rather than their
  meaning, and needs in addition what a cycle would plan from zones that already
  mean what was asked, also where Hetzner refuses a zonefile again and again.
- The six counterexamples.
- All liveness (`Convergence`, `Settles`, `SignalEnds`, `ComesBack`, `Heals`,
  `OutageShutsDown`, `BulkConverges`), which is out of the prover's reach.

## What is not modelled

- The reading of environment variables, log messages, and the text of a
  zonefile's records beyond whether it parses and how the hosts of CNAME and MX
  records are completed.
- Record types other than A, CNAME and MX in `Journey` (in `Reconcile` and
  `BulkChanges` a type is part of a key). In particular what Hetzner makes of an NS
  or SRV target without the final dot that `makeEndpointTarget` trimmed.
- The values of labels, checked like the keys, and zones with a name that is not
  ASCII.
- The pages of the list of zones (the loop is that of the recordsets), and the
  gauges `filtered_out_zones` and `skipped_records`, which nothing reads.
- Comments of records, which the code does not compare.

## Plan

1. `RRSets`, `Reconcile`, its proofs; `ZoneCache`; `BulkChanges`; `DesiredState` and
   the proof of the refinement; `Names`, `Journey`; `Metrics`, `Lifecycle` (done).
2. Proofs about `ZoneCache`, `Lifecycle` with `Metrics`, and `BulkChanges` (done).
3. Proofs about `Journey` and `Names`: types, listings, names, conversions,
   `CycleMeansWished` (done). Left: `SettledIsQuiet`, from an invariant on the form
   of the values beside the one on their meaning.

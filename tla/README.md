# OSKO in TLA+

A model of [OSKO](../src/README.md), the operator that turns OpenSLO objects in
a Kubernetes cluster into recording and alerting rules in Grafana Mimir. The
modules are translated from the Go code at this commit; TLC checks them on small
instances, TLAPS proves some of their properties for every value of the
constants.

## 1. The system

One operator process (`cmd/main.go`) starts nine controllers in one manager.
They share an informer cache of the API server and nothing else but the objects
themselves: each controller reads the cache, writes to the API server, and is
woken by the watch events that come back. Every controller has one worker, so
that it runs one reconcile at a time; different controllers interleave freely.

```
 user -> SLO --------> SLO controller --creates--> PrometheusRule, MimirRule,
          |  \                                     inline SLI, AlertManagerConfig
 user -> SLI  \------> PrometheusRule controller --rebuilds--> PrometheusRule
 user -> Datasource                                                |
                       MimirRule controller <----reads-------------+
                          |  --rebuilds--> MimirRule, --pushes--> Mimir ruler
 user -> Secret -----> AlertManagerConfig controller --pushes--> Mimir Alertmanager
```

### Inventory

| component | state it keeps | operations | what makes it correct |
|---|---|---|---|
| SLO controller (`controller/openslo/slo_controller.go`) | the SLO's finalizer and status; creates the children | find Datasource and SLI, make the inline SLI, create PrometheusRule, MimirRule, AlertManagerConfig and give each a second owner reference, report readiness, release on deletion | never undoes a user's edit; ready only when the children exist; a deleted SLO disappears |
| PrometheusRule controller (`controller/monitoring.coreos.com/`) | the rules in the PrometheusRule | rebuild the rules from SLO and SLI, store them over whatever is there | never goes back to older rules; rebuilds after every edit; a deleted PrometheusRule comes back right |
| MimirRule controller (`controller/osko/mimirrule_controller.go`) | the MimirRule, finalizers on MimirRule and PrometheusRule, rule groups in Mimir | push or delete the groups one by one, set and remove the finalizers, mirror the rules, repeat after a period | Mimir ends with the last rules; finalizers are given up only on a clean Mimir; nothing orphaned |
| AlertManagerConfig controller (`controller/osko/alertmanagerconfig_controller.go`) | the finalizer and status of the AlertManagerConfig, one Mimir client kept between reconciles, the Alertmanager configuration of each tenant | push the text of a Secret, clean up on deletion, map Secret events to requests | pushes only what is sure to be cleaned up; the last text arrives; deletion ends; cleans up its own configuration |
| rule generation (`helpers/prometheus_helper.go`) | none | validate the target, make the recording rules of each window, the error budget, burn rates and multi-window alerts | the rules of a window are made once and refer to each other by the right names and labels |
| Mimir conversion (`helpers/mimirtool_helper.go`, `createMimirRuleGroupAPI`) | none | PrometheusRule groups to MimirRule groups, and to the ruler's | each rule arrives, of its kind and with its fields |
| error classes (`errors/errors.go`) | none | wrap an error with a delay | every class is an error, so the request is queued again |
| status helper (`utils/common_utils.go`) | Ready field and Ready condition | set both, send the status | field and condition agree |
| Datasource, SLI controllers | none | log, events | no state is changed |
| alert policy, condition, notification target controllers | none | empty scaffolds | none |
| configuration (`config/`) | read from the environment | requeue period, base window, thresholds, severities | each alert gets its own threshold and severity, or the default |
| API types, generated deep copies (`api/`) | the objects | | |

### What is hard

* **Interleaving.** Three controllers write the same objects: the SLO's status
  (SLO and PrometheusRule controllers), the PrometheusRule (all three), the
  MimirRule (SLO and MimirRule controllers). Two of them undo each other's work
  on purpose or not: every rebuild of the PrometheusRule drops the finalizer the
  MimirRule controller puts back.
* **Stale state.** All reads come from a cache that lags behind, separately for
  each kind. Rebuilt objects are stored with `retry.RetryOnConflict`, which
  renews the resourceVersion but not the content.
* **Crashes and partial failure.** A child is created in one call and given its
  owner in the next; groups are pushed and deleted one call at a time; a
  conflict on the status of an SLO without indicator kills the process, because
  `cmd/main.go:112` gives the PrometheusRule controller no Recorder.
* **Sharing.** The rule groups of all SLOs of a tenant go to one Mimir namespace
  under the name of the SLO alone: SLOs of one name in two Kubernetes namespaces
  overwrite and delete each other's.
* **Lost answers.** A request to Mimir may have its effect without the operator
  knowing; it repeats the whole reconcile.
* **Timers and retries.** The periodic push exists only as long as each
  reconcile asks for the next.
* **Deletion.** The garbage collector deletes the children in any order, and
  each waits for finalizers that other controllers drop and restore.

The list with the lines where each bites is in `PROJECT.json` under `hazards`.

## 2. The modules

| module | models |
|---|---|
| `Cluster` | what the controllers run in, as they use it: API server with optimistic concurrency, finalizers, owner references and garbage collector; the informer cache; event handlers and work queues; Mimir's ruler; the users |
| `SLOController`, `PrometheusRuleController`, `MimirRuleController` | the three `Reconcile` methods and `createOrUpdateInlineSLI`, each on the variables of `Cluster` |
| `Osko` | the process: the three controllers, crashes, the panic, restarts, fairness; the properties |
| `RuleFlow` | abstract specification: versions of the SLO and of the SLI it refers to flow to PrometheusRule, MimirRule and Mimir and never back. `Osko!Flow` is the refinement mapping |
| `Namesakes` | two SLOs of one name in two Kubernetes namespaces: two instances of `Osko`, with its proofs, that share Mimir and the worker of the MimirRule controller |
| `NamesakesProofs` | proofs of their composition |
| `OskoInvariants` | the inductive invariants of `Osko` |
| `OskoProofs` | proofs of what holds whatever the users do and whatever fails |
| `RuleFlowProofs` | proofs of what holds as long as nothing is deleted, the refinement of `RuleFlow` first |
| `NoticedProofs` | proofs that no change is forgotten |
| `AlertManagerConfigController` | the fourth controller with its objects, Secrets, Datasources and Mimir's Alertmanager, for several objects and tenants |
| `AmcProofs`, `AmcConfigProofs` | its proofs: of types and finalizers; of the configurations in Mimir and of what is still to come |
| `OperatorConfig` | the configuration as a function of the environment, and the severities of the alerting tools |
| `MimirRuleGroups` | the two conversions of a rule, to the MimirRule and to the ruler |
| `MonitoringRuleSet` | rule generation: from one SLO and one SLI to the rule groups that `Cluster` treats as a `Content`, and on to Mimir; extends the two before |
| `RuleSetProofs` | its proofs |
| `MCOsko`, `MCNamesakes`, `MCAlertManagerConfig`, `MCRuleSet` | values for the constants of the runs |

### How state and actions correspond to the code

A reconcile is a record (`sloR`, `prR`, `mrR`, `amcR`) whose `pc` names the next
call that may change something outside the process, and whose other fields hold
the local variables still needed. An action runs from one such call to the
next: the call with its outcome, then the branches and cache reads up to the
next call, in the order of the code. Every call has a successful action and a
failing one (`CallFails`, `PrCallFails`, `MrCallFails`, ...), and what the code
does after the failure is part of the latter: a returned error is queued again
(`Requeue`), a swallowed one is not.

* `store[k]` is the object of kind `k` in the API server and `cache[k]` what
  `Get` returns. `behind` holds the kinds for which the two may differ;
  `Deliver(k)` closes the gap and enqueues what `For`, `Owns` and `Watches`
  say (`Watchers`).
* resourceVersions are represented by who holds the newest: `k \in fresh[c]`
  says that controller `c` holds a copy of `k` that an `Update` would accept.
  Every effective write by anyone else takes it away (`Write`).
* rules are their origin: `Content` says from which write of the SLO and of the
  SLI they were generated, whether alert groups belong to them, and whether the
  inline SLI had its name. Users' writes are numbered by `clock`.
* an SLO's spec is reduced to what the code branches on: the magicAlerting
  annotation, the kind of indicator, and whether the target is usable.
* `RetryOnConflict` (with the cache read inside) succeeds in one step when the
  cache is up to date, and fails when its attempts are used up.
* in `AlertManagerConfigController` there is one kind of object, so `newest`
  says whether the reconcile's copy is the newest; `client` is the
  `r.MimirClient` that outlives the reconcile.

* `MonitoringRuleSet` is sequential: `Setup` stands for the checks, from any of
  which `SetupRules` returns an error, `UniqueString` for one round of
  `uniqueStrings`, `SetupRules` for the rest; `NewMimirRule` and `PushGroups` are
  the two conversions that the SLO and MimirRule controllers make of the result,
  in `spec` and `pushed`. An expression is reduced to the series it selects
  (`refs`: metric name and label matchers), a base label to its name, and
  windows are strings as in the code. `env` is the environment of the process:
  `Floats` and `Durations` say which texts parse and as what.
* `Namesakes` writes `Leaving` and `Staying` for the SLO that is deleted and the
  one that stays. Each has its own objects, cache, queue and timer; `mimir`,
  `clock` and the bounds are shared, `LeavingMr` and `StayingMr` exclude each
  other because the controller has one worker, and a crash takes both. The SLO
  and PrometheusRule controllers of the SLO that stays rest: it starts settled,
  and neither of the two calls Mimir.

Definitions whose name begins with another and ends in a phrase, such as
`UpdatePrFinalizerKept`, `GoesOnce` or `CleanUpNeedsClient`, are variants of that definition
with a plausible bug: a property is expected to fail when the variant takes its
place.

### Abstractions

* The cache moves to the newest version of a kind at once, not through every
  one between. A reconcile that would have met a version in between is one that
  was taken earlier.
* Cache reads that follow each other without a call in between are one step.
* A call to Mimir fails without effect, or has its effect and loses its answer
  (`MrReplyLost`, `PushReplyLost`). A failed call to the API server has no effect;
  an answer lost there is covered in so far as a crash after the call is.
* The status write that changes nothing, at the end of the PrometheusRule
  reconcile, is part of `UpdatePr`, which may therefore return an error.
* The resync of informers, leader election and events are left out.
* One SLO with its objects in `Osko`, two in `Namesakes`, in different Kubernetes
  namespaces. What two SLOs of one namespace share (an SLI) is not modelled.
* In `AlertManagerConfigController`, Datasources and Secrets appear only as the
  cache shows them, and the SLO controller as the two writes it makes.
* In `MonitoringRuleSet`, target and error budget, the text of the queries, the
  annotations and the alerts' labels `slo_name` and `sli_name` are left out, and
  a target is one of the five cases that parsing and validation tell apart.
  Thresholds are hundredths, printed as tenths like `%.1f`. Of the alerts' order
  nothing is said. `SourceTenants`, which both conversions copy, is left out.
* The creation branches of the PrometheusRule and MimirRule controllers are
  unreachable, since both return earlier when the object is not found.

## 3. The runs

`tlc -config X.cfg M`, with `M` = `MCOsko` for `Osko*`, `MCNamesakes`,
`MCAlertManagerConfig` for `Amc*` and `MCRuleSet` for `RuleSet*`.
`CHECK_DEADLOCK FALSE` everywhere: an operator with empty queues has nothing to
do until somebody edits an object, and the edits are bounded; rule generation
ends.

| run | question | bounds | distinct states |
|---|---|---|---|
| `OskoStart` | SLO, SLI and Datasource appear in any order and are edited while the children are made: is a ready SLO really ready (`ReadyIsEarned`), is an SLO without children forgotten (`CreationNoticed`), is an edit lost (`NoLostEdit`)? | three starts, each lacking some of the three objects; 2 writes | 1.3 million |
| `OskoSync` | a working SLO is edited into one of any shape, with one failed call or crash anywhere: types (`TypeOK`), no edit is forgotten (`EditNoticed`), the periodic push goes on (`PushesGoOn`), and rules never go back (`FlowSpec`) | 1 edit, 1 fault, four shapes | 580 thousand |
| `OskoConverge` | after edits of SLO and SLI in any order and at any time: do the last rules arrive (`Converges`), and are the rules on their way never replaced by rules of an older write of either (`FlowSpec`)? | 2 edits | 300 thousand |
| `OskoLifecycle` | any one object is deleted, with one fault: `CleanRelease`, `DeletionNoticed`, `DeletionCompletes`, `RulesComeBack` | 1 deletion, 1 fault | 130 thousand |
| `AmcLifecycle` | two AlertManagerConfigs of one tenant or two, Secrets and Datasources there or not: `AmcTypeOK`, `PushIsCovered`, is a configuration ever found at another's tenant (`ConfigAtHome`), is a deletion or a text forgotten (`AmcDeletionNoticed`, `ConfigNoticed`), `DeletionEnds`, `ConfigArrives` | 2 edits, 1 deletion, 1 fault | 270 thousand |
| `Namesakes` | one of two SLOs of one name is deleted: does its cleanup finish before it gives up a finalizer, although the other pushes the same groups (`CleanLeave`), does the other's push go on (`StayingPushes`), are its rules there again, for good (`Restored`)? | 1 deletion, 1 crash | 230 thousand |
| `RuleSet` | the rules of every SLO, in Kubernetes and in Mimir: `RuleSetTypeOK`, `RecordedOnce`, `SelectorsResolve`, `AlertsPaired`, `Mirrored` | 8 base windows, 5 time windows, 4 labelings, 3 alerting tools, 4 environments | 340 thousand |
| `OskoCascade`, `OskoOrphan`, `OskoDatasource`, `AmcOrphan`, `RuleSetBad` | the five promises of the documents that the code does not keep, section 5 | 0 to 4 edits, 0 or 1 deletion | until violated |

Why the bounds are enough. The hazards are races of one user action with the
reconciles it triggers and with those already under way, and a second one that
catches the system in the middle: two edits make three versions, so that a
stale copy, the version it overwrites and a newer one can all be in play. One
fault or crash at every point of every reconcile covers recovery; a second fault
would hit the recovery itself, which the controllers do by the same code from
the start. `OskoSync` edits into an SLO without indicator, whose status update
panics; panics are not bounded by `MaxFaults`. Two
groups per SLO let a push or a cleanup stop half-way. Two AlertManagerConfigs,
one with the Secret naming of the samples and one made by the SLO controller,
are the fewest that can leave each other a client; since Secrets and Datasources
may be there from the start, two edits can make both objects, make one anew
after its deletion, or change a text or a tenant under one. Each run keeps to the users'
actions its question needs, because all of them together are out of reach. The
inputs of `RuleSet` have a base and a time window that coincide with each other,
with the default, with a fixed window, or with none; `1d` and `24h` are
different strings. The labelings add a label, replace one that all rules share,
replace the window, or are hidden from selectors. The environments are empty,
choose another tool and base window, hold an empty tool, a severity and a
duration that does not parse, or a threshold that does not parse beside one that
does and is printed as zero. Two starts of `OskoStart` lack the SLO and
let it arrive at a running operator; the third has it waiting for the others.
In `Namesakes` the last push before the deletion may be either SLO's, and the
two have different kinds of indicator, so that their rules are told apart. A
lost answer counts as a fault; it adds no states to the runs of `Osko`, because
success followed by the failure of the next call looks the same from outside.

### Fairness

`FairSpec` states weak fairness of each controller's worker (a goroutine whose
calls return: client-go and the Mimir client have timeouts), of the delivery of
each kind's watch events, of the garbage collector and of the RequeueAfter
timer. In the AlertManagerConfig module, where the queue holds requests for
several objects, each request is taken under strong fairness, since the work
queue is first in, first out; so are the two MimirRules in `Namesakes`, which
for the rest needs only the events of the two MimirRules and of the deleted
SLO, and the timer. Users, faults and crashes are under no obligation. The nil Recorder's panic is a step of the PrometheusRule worker and
so is fair with it. Retries that run out of attempts for ever need not be
excluded by hand: a retry fails only on a cache that is behind, and delivery is
fair.

## 4. The proofs

`tlapm` checks them from the first line to the last; every constant is
arbitrary within the named assumptions (`Cluster`, `AlertManagerConfigController`,
`OperatorConfig`, `MonitoringRuleSet`).

| theorem | says |
|---|---|
| `OskoProofs!TypeCorrect` | `Spec => []TypeOK` |
| `OskoProofs!ReleasesClean` | `Spec => []CleanRelease` |
| `OskoProofs!EditsAreKept` | `Spec => NoLostEdit` |
| `RuleFlowProofs!ReadyOnlyIfEarned` | `Spec => []ReadyIsEarned` |
| `RuleFlowProofs!RulesFlow` | `Spec /\ [](deletes = 0) => FlowSpec` |
| `RuleFlowProofs!FlowUntilDeleted` | `Spec => [][deletes' = 0 => FlowStep]_vars`: until the first deletion every step is one of `RuleFlow` or a stutter |
| `NoticedProofs!EditsAreNoticed` | `Spec => []EditNoticed` |
| `NoticedProofs!DeletionsAreNoticed` | `Spec => []DeletionNoticed` |
| `NoticedProofs!PushesNeverStop` | `Spec => []PushesGoOn` |
| `NoticedProofs!CreationsAreNoticed` | `Spec => []CreationNoticed` |
| `NamesakesProofs!LeavesClean` | `Spec => []CleanLeave` |
| `NamesakesProofs!StayingIsPushed` | `Spec => []StayingPushes` |
| `AmcProofs!AmcTypeCorrect` | `Spec => []AmcTypeOK` |
| `AmcProofs!PushesAreCovered` | `Spec => []PushIsCovered` |
| `AmcConfigProofs!ConfigsAreAtHome` | `Spec => []ConfigAtHome` |
| `AmcConfigProofs!AmcDeletionsAreNoticed` | `Spec => []AmcDeletionNoticed` |
| `AmcConfigProofs!ConfigsAreNoticed` | `Spec => []ConfigNoticed` |
| `RuleSetProofs!NoSeriesTwice` | `Spec => []RecordedOnce` |
| `RuleSetProofs!SelectorsAlwaysResolve` | `Spec => []SelectorsResolve` |
| `RuleSetProofs!RuleSetTypeCorrect` | `Spec => []RuleSetTypeOK` |
| `RuleSetProofs!RulesMirrored` | `Spec => []Mirrored` |
| `RuleSetProofs!AlertsAlwaysPaired` | `Spec => []AlertsPaired` |

**Osko.** None of the three theorems of `OskoProofs` is inductive by itself. `Sound` is their common
strengthening: `TypeInv` adds what the reconciles in progress hold at each
call; `Coherent` says that a cache that is not behind equals the store, that no
terminating object lacks a finalizer, and that a copy in `fresh` agrees with
what is stored (so that an accepted `Update` meets an object that exists, has
the spec that was read, and is not terminating); `Cleaned` says that of the
groups a cleanup set out to delete, those not left in `todo` are gone, which
gives `CleanRelease` when `todo` is empty. `EditsAreKept` follows from
`Coherent`: the `Update` of the whole SLO is accepted only when the copy is
`fresh`, whose spec is the stored one. One lemma per action proves that it
keeps `Sound`; lemmas on `Write` and `Settle` are shared.

**As long as nothing is deleted.** `ReadyIsEarned` and the refinement both need
to know that every copy is at most as new as what it was taken from. `IInv` adds
to `Sound`, for as long as `deletes = 0`: `Alive`, that no object is terminating
or disappears and all belong to the one SLO; `Ordered`, the order of the
versions in the users' writes, SLO and SLI stored and cached, the PrometheusRule
stored and cached, the MimirRule and Mimir; and `SloLive`, `PrLive` and
`MrLive`, the same for what each reconcile in progress holds. `PrLive` and
`MrLive` carry the argument of `RetryOnConflict`: what is about to be stored is
no older than what it replaces, although it was made earlier, because only its
own controller changes the rules in it and has one worker. `SloLive` says that the
SLO controller, past the point where it found or made a child, is right to
report it (`AfterPr`, `AfterMr`). `WriteFits` is the step all writes share: an
object that fits (`Fits`) keeps the order, loses nothing (`Later`) and is a step
or a stutter of `RuleFlow`; one lemma per action shows that what it writes
fits. Crashes and deliveries move the cache forward only (`CacheMoves`).
A version is the write of the SLO and that of the SLI, the SLO's first
(`NoNewer`): an edit of the SLO may choose another indicator, and then nothing
is to be said of the SLI's. The caches of the two advance independently, so that
rules may be made of an old SLO and a new SLI; `UpTo` says that they are
nevertheless no newer than what can be made of the objects in the cache, and
`UpToMoves` that this stays true as the cache advances, which is why the next
rules to be built are no older. `RulesFlow` is a theorem about behaviours without
deletions: a deletion takes versions back, to none. `FlowUntilDeleted` says the
same of the steps before the first one.

**Nothing is forgotten.** The hypotheses of the liveness properties, as
invariants: work that remains is announced by an event to come (`behind`), a
request (`queued`), the timer, or a reconcile at the right place.
`EditNoticed` needs `HeldNoticed`, that a PrometheusRule reconcile which holds
rules of another write knows of an event or a request behind it;
`DeletionNoticed` that a reconcile takes the request of a terminating SLO only
to release it. Both hold through deletions and crashes. `Marks` is what all
writes have in common: what changes is `behind`. `PushesGoOn` and
`CreationNoticed` need `IInv`, because after a deletion they fail: a MimirRule
reconcile without PrometheusRule or SLO asks for nothing more. `CreationNoticed` also
needs `StatusIsNews`: the reconcile that makes the PrometheusRule ends without
error and without a MimirRule, and comes back only because the status it writes
changes the SLO; `ReadyIsEarned` is what makes it news.

**Two SLOs of one name.** `NInv` says that each of the two is `Sound` by itself,
and that of the one that stays the rules stand (`RulesStand`:
API server and cache have its PrometheusRule and MimirRule, and no reconcile
takes them for deleted) and the push goes on. A
step of one SLO is a step of its instance, for which the lemmas of the proofs
before are cited; for the other it is at most a change of `mimir`. `Sound`
speaks of `mimir` in `Cleaned`, about a cleanup in progress, and that is why
`LeavingMr` and `StayingMr` must exclude each other: the groups change under an
SLO only while it has no MimirRule reconcile (`ElsewhereSound`).
`StayingIsPushed` needs no `IInv`, because nobody edits the SLO that stays: its
MimirRule reconcile finds what it looks for, so it ends with the timer or with
a request (`StandingGoesOn`).

**AlertManagerConfig.** `PushIsCovered` needs an argument through the cache.
Only this controller touches the finalizer, but it decides on a copy that may
be old, and an object can be deleted and created anew under it. `SeenFits`
says that an object seen settled (finalizer, not terminating) still has its
finalizer, and that an object seen terminating is not settled now, even if it is
a new one; `CleaningUp` that an object being cleaned up is settled neither in
the cache nor in the store. Together: the reconcile that removes a finalizer
cannot invalidate what any later reconcile sees. `AmcConfigProofs` adds
`ConfigInv`: `PushAtHome`, that the client kept in the reconciler, whoever left
it, is by the time of a push the one of the pushed object's Datasource; and, as
long as nothing is deleted, `PushIsCurrent`, that the text about to be pushed is
the Secret's unless an event or a request will bring the object back, and
`AwaitsDatasource`, that an object whose Datasource is missing is still to come.

**Rule generation.** All theorems but `RulesMirrored` rest on `RuleSetInv`: `uniqueStrings` repeats
no window (`NoRepeats`), and the recording groups are what `RuleGroups` makes of
its result. `RulesDiffer` concludes that the record and the label `window` tell
where a rule is, because no two groups share a record and no two rules of a
group a window; `SelectorFinds` that a selector made of a rule finds that rule
alone, since `window` is not among the hidden labels (`KeysAssumption`).
`MirrorInv` says that every rule can be told from its empty fields (`Told`), which
`SetupRules` sees to and both conversions need, and that MimirRule and Mimir hold
the rules as they were made. `PairInv` says that each of the fixed windows is
still to be looked at or among the results of `uniqueStrings`, although base and
time window come first and may take their place: so `getBurnRateWindows` finds
all of them, `BurnRateFound` the rule, and `AlertLooks` that its selector finds
it, and nothing else, among what Mimir got. All but `RuleSetTypeCorrect` and
`RulesMirrored` need that the user has not replaced the label `window`
(`KeepsWindow`), and the properties say so.

Model-checked only: everything under fairness (`Converges`,
`DeletionCompletes`, `RulesComeBack`, `Restored`, `DeletionEnds`,
`ConfigArrives`), which is out of the prover's reach. What can be proved of
them is the safety half: that as long as the goal is not reached, something that
fairness applies to is still to come (`EditNoticed`, `CreationNoticed` and
`PushesGoOn` for `Converges`, `StayingPushes` for `Restored`, `DeletionNoticed` for
`DeletionCompletes`, `AmcDeletionNoticed` and `ConfigNoticed` for the last two).
TLC found the inductive invariants to hold before they were proved: `IInv`,
`Noticed`, `StatusIsNews` and `ConfigInv` on instances of the passing runs
(`Sound` not on `OskoSync`, where TLC cannot evaluate the type of the field
`made` for a mixture of kinds).

## 5. Where documents and code disagree

1. `OskoCascade`: docs/OWNERSHIP-MODEL.md:80 has the MimirRule deleted with its
   SLO. If the PrometheusRule disappears first, the MimirRule controller returns
   before it looks at the MimirRule, whose finalizer then stays for good.
2. `OskoOrphan`: DESIGN.md:133-134 relies on the MimirRule's finalizer for the
   cleanup in Mimir. Each rebuild of the MimirRule drops it until the next
   reconcile.
3. `OskoDatasource`: DESIGN.md:68 has the SLO controller watch the Datasource.
   It does not, and the connection details are copied only once.
4. `AmcOrphan`: DESIGN.md:136-137 relies on the AlertManagerConfig's finalizer.
   The cleanup uses the client of whichever object was reconciled last, so the
   wrong tenant's configuration may be deleted and the right one stays.
5. `RuleSetBad`: prometheus_helper_test.go:459 and adr/0001:28 expect good to be
   calculated from total and bad. The rule for the bad series is made and put
   in no rule group, so an SLI with a bad query has no values.

Two more that no run states: adr/0002:98 promises accurate conditions, while a
missing Datasource sets the field Ready of an SLO and leaves the condition
(slo_controller.go:100); docs/labels-and-annotations.md:9-11 has user labels on
alerting rules, which carry none (prometheus_helper.go:520).

## 6. Plan

Done, in this order: `Cluster`, `SLOController`, `PrometheusRuleController`,
`MimirRuleController`, `Osko` with its runs, `RuleFlow` and the refinement,
`OskoInvariants`, `OskoProofs`, `AlertManagerConfigController`, `AmcProofs`,
`MonitoringRuleSet`, `RuleSetProofs`; then lost answers, the starts of
`OskoStart`, `Namesakes`, `OperatorConfig`, `MimirRuleGroups`; then
`RuleFlowProofs`, `NoticedProofs`, `AmcConfigProofs` with the properties they
are about; then `NamesakesProofs`.

To come:

* What a deletion leaves true of `Ordered`: which versions Mimir may still
  serve after objects were deleted and made again. `RulesComeBack` holds on
  `OskoLifecycle`, where nobody edits; with an edit of the SLI while the
  PrometheusRule is deleted and made again, TLC finds that the periodic push can
  stop (the MimirRule reconcile that finds no PrometheusRule asks for nothing
  more, mimirrule_controller.go:67) and the edit not arrive.

### Not modelled

* The Datasource and SLI controllers: they read, query and emit events, and
  change no state that anything else reads. The alert policy, condition and
  notification target controllers are empty.
* The rule generator of `utils/common_utils.go` (everything but `UpdateStatus`
  and `updateCondition`), `GetMimirRuleGroup`, `UpdateMimirRuleGroup`,
  `DeleteMimirRuleGroup` and `GetEnvAsInt`: nobody calls them.
* Two SLOs of one Kubernetes namespace, with an SLI in common: each reconcile
  builds its rules from its own indicator, but owner references, events and
  deletion of the shared SLI would need a cluster with several objects of each
  kind, at a multiple of states that are in the millions already.
* Target and error budget as numbers, PromQL texts, metrics, events, logging,
  the manager's flags, leader election, generated code, the Helm charts and
  manifests.

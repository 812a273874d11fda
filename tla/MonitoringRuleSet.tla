------------------------- MODULE MonitoringRuleSet -------------------------
(***************************************************************************)
(* Rule generation: CreatePrometheusRule and MonitoringRuleSet.SetupRules  *)
(* of internal/helpers/prometheus_helper.go, for one SLO and one SLI, and  *)
(* what becomes of the rules on their way to Mimir.                        *)
(*                                                                         *)
(* An expression is reduced to the series it selects: metric name and      *)
(* label matchers. Windows are strings, as they are in the code.           *)
(***************************************************************************)
EXTENDS OperatorConfig, MimirRuleGroups, Sequences, FiniteSets

CONSTANTS
    Windows,       \* the texts of all windows
    BaseWindows,   \* the osko.dev/baseWindow annotation, "" if there is none
    TimeWindows,   \* spec.timeWindow[0].duration, "" if there is none
    Tools,         \* the osko.dev/alertingTool annotation, "" if there is none
    Labelings,     \* the label.osko.dev/ labels of an SLO: key -> value
    Hidden         \* label keys that contain "__...__"

FixedWindows == <<"5m", "30m", "1h", "2h", "6h", "24h", "3d">>
AlertingWindows == {FixedWindows[k] : k \in 1..Len(FixedWindows)}
DefaultTimeWindow == "28d"

BaseKeys == {"namespace", "service", "sli_name", "slo_name", "window"}

ASSUME WindowsAssumption ==
    /\ AlertingWindows \cup {DefaultTimeWindow} \subseteq Windows /\ NoText \notin Windows
    /\ BaseWindows \cup TimeWindows \subseteq Windows \cup {NoText}
    /\ "5m" \in Windows /\ \A t \in DOMAIN Durations : Durations[t] \in Windows
ASSUME KeysAssumption == Hidden \cap BaseKeys = {}

(* What SetupRules reads. source: the metric source is a Prometheus;       *)
(* target: whether strconv.ParseFloat accepts it, and where it lies; good: *)
(* the SLI has a good query, not a bad one.                                *)
Targets == {"garbage", "NaN", "low", "inside", "high"}
Slo == [base : BaseWindows, time : TimeWindows, source : BOOLEAN, target : Targets,
        good : BOOLEAN, magic : BOOLEAN, tool : Tools, labels : Labelings]

VARIABLES
    slo,      \* the input
    pc,
    todo,     \* windows that uniqueStrings has not looked at yet
    windows,  \* its result so far
    groups,   \* the rule groups of the PrometheusRule
    spec,     \* those of the MimirRule
    pushed    \* those Mimir evaluates

vars == <<env, slo, pc, todo, windows, groups, spec, pushed>>

Init ==
    /\ env \in Envs /\ slo \in Slo
    /\ pc = "setup" /\ todo = <<>> /\ windows = <<>>
    /\ groups = <<>> /\ spec = <<>> /\ pushed = <<>>
----------------------------------------------------------------------------
(* Labels and selectors.                                                   *)

(* All base labels but the window are the same in every rule of the SLO:   *)
(* each stands for its value.                                              *)
createBaseRuleLabels(window) ==
    [k \in BaseKeys |-> IF k = "window" THEN window ELSE k]

(* Of equal keys the last map wins.                                        *)
mergeLabels(base, user) ==
    [k \in DOMAIN base \cup DOMAIN user |->
        IF k \in DOMAIN user THEN user[k] ELSE base[k]]

LabelsFor(window) == mergeLabels(createBaseRuleLabels(window), slo.labels)

(* record{labels}, without the labels that mapToColonSeparatedString skips.*)
Selector(record, labels) ==
    [record |-> record, labels |-> [k \in DOMAIN labels \ Hidden |-> labels[k]]]

Matches(rule, s) ==
    /\ rule.record = s.record
    /\ \A k \in DOMAIN s.labels : k \in DOMAIN rule.labels /\ rule.labels[k] = s.labels[k]
----------------------------------------------------------------------------
(* The annotation comes before the configuration.                          *)
baseWindow == IF slo.base = NoText THEN Cfg.DefaultBaseWindow ELSE slo.base

(* The recording rules. range: the window the rule was made for, which is  *)
(* the range of the query in sli_total, sli_good and sli_bad; refs: the    *)
(* series its expression selects.                                          *)
Rule(record, window, refs) ==
    [record |-> record, alert |-> NoText, expr |-> [range |-> window, refs |-> refs],
     for |-> NoText, labels |-> LabelsFor(window)]

Of(rule) == Selector(rule.record, rule.labels)

createRecordingRule(record, window) == Rule(record, window, {})

(* The good series of an SLI with a bad query: total - bad, with no label  *)
(* matchers. The rule for the bad series is made, and put in no group.     *)
createAntecedentRule(window) ==
    Rule("sli_good", window, {Selector("sli_total", <<>>), Selector("sli_bad", <<>>)})

TotalRule(window) == createRecordingRule("sli_total", window)

GoodRule(window) ==
    IF slo.good THEN createRecordingRule("sli_good", window)
    ELSE createAntecedentRule(window)

createSliMeasurementRecordingRule(window) ==
    Rule("sli_measurement", window, {Of(GoodRule(window)), Of(TotalRule(window))})

createErrorBudgetRatioRecordingRule(window) ==
    Rule("error_budget_ratio", window, {Of(createSliMeasurementRecordingRule(window))})

(* Variant of createBurnRateRecordingRule: the budget of the base window.  *)
createBurnRateOfBase(window) ==
    Rule("error_budget_burn_rate", window,
         {Of(createErrorBudgetRatioRecordingRule(baseWindow))})

createBurnRateRecordingRule(window) ==
    Rule("error_budget_burn_rate", window,
         {Of(createErrorBudgetRatioRecordingRule(window))})

TargetRule == Rule("slo_target", baseWindow, {})
----------------------------------------------------------------------------
(* The alerts. getBurnRateWindows keys the burn rates by their window      *)
(* label; of equal keys the last one wins.                                 *)
Keyed(key) ==
    {j \in 1..Len(windows) : /\ windows[j] \in AlertingWindows
                             /\ LabelsFor(windows[j])["window"] = key}

hasWindows(short, long) == Keyed(short) # {} /\ Keyed(long) # {}

BurnRate(key) ==
    createBurnRateRecordingRule(
        windows[CHOOSE j \in Keyed(key) : \A k \in Keyed(key) : k <= j])

(* Variant of ShortWindow: an alert that looks twice at a long window.     *)
ShortWindowSwapped(severity) ==
    CASE severity = "page_critical" -> "5m"
      [] severity = "page_high"     -> "30m"
      [] severity = "ticket_high"   -> "6h"
      [] severity = "ticket_medium" -> "2h"

ShortWindow(severity) ==
    CASE severity = "page_critical" -> "5m"
      [] severity = "page_high"     -> "30m"
      [] severity = "ticket_high"   -> "2h"
      [] severity = "ticket_medium" -> "6h"

LongWindow(severity) ==
    CASE severity = "page_critical" -> "1h"
      [] severity = "page_high"     -> "6h"
      [] severity = "ticket_high"   -> "24h"
      [] severity = "ticket_medium" -> "3d"

(* The same for the short and the long window.                             *)
Threshold(severity) ==
    CASE severity = "page_critical" -> Cfg.PageShortWindow
      [] severity = "page_high"     -> Cfg.PageLongWindow
      [] severity = "ticket_high"   -> Cfg.TicketShortWindow
      [] severity = "ticket_medium" -> Cfg.TicketLongWindow

(* Hundredths with one decimal, %.1f; ties are not among the inputs.       *)
Tenths(hundredths) == (hundredths + 5) \div 10

alertingTool == IF slo.tool = NoText THEN Cfg.AlertingTool ELSE slo.tool

(* The two burn rates are compared with the thresholds.                    *)
createMultiBurnRateAlert(severity) ==
    LET short == BurnRate(ShortWindow(severity))
        long  == BurnRate(LongWindow(severity))
    IN  [record |-> NoText, alert |-> severity,
         expr   |-> [short |-> Of(short), long |-> Of(long),
                     above |-> Tenths(Threshold(severity))],
         for    |-> "5m",
         labels |-> [severity     |-> AlertSeveritiesByTool(alertingTool)[severity],
                     short_window |-> short.labels["window"],
                     long_window  |-> long.labels["window"]]]

(* The order of the alerts in their group is left out.                     *)
Alerts ==
    [severity \in {s \in Severities : hasWindows(ShortWindow(s), LongWindow(s))} |->
        createMultiBurnRateAlert(severity)]
----------------------------------------------------------------------------
(* NaN compares false with everything.                                     *)
validateTarget(target) == target \notin {"low", "high"}

(* Variant of ExtendedWindow: no default.                                  *)
ExtendedWindowAsGiven == slo.time

ExtendedWindow == IF slo.time = NoText THEN DefaultTimeWindow ELSE slo.time

(* The checks, in any of which the reconcile ends with an error.           *)
Setup ==
    /\ pc = "setup"
    /\ IF slo.source /\ slo.target # "garbage" /\ validateTarget(slo.target)
       THEN pc' = "unique" /\ todo' = <<baseWindow, ExtendedWindow>> \o FixedWindows
       ELSE pc' = "rejected" /\ UNCHANGED todo
    /\ UNCHANGED <<env, slo, windows, groups, spec, pushed>>

(* Variant of UniqueString: every window is kept.                          *)
AnyString ==
    /\ pc = "unique" /\ todo # <<>>
    /\ todo' = Tail(todo)
    /\ windows' = Append(windows, Head(todo))
    /\ UNCHANGED <<env, slo, pc, groups, spec, pushed>>

(* One round of uniqueStrings.                                             *)
UniqueString ==
    /\ pc = "unique" /\ todo # <<>>
    /\ todo' = Tail(todo)
    /\ windows' = IF \E j \in 1..Len(windows) : windows[j] = Head(todo)
                  THEN windows ELSE Append(windows, Head(todo))
    /\ UNCHANGED <<env, slo, pc, groups, spec, pushed>>

(* rulesByType: one rule for each window, in the order of the windows.     *)
goodRules         == [j \in 1..Len(windows) |-> GoodRule(windows[j])]
totalRules        == [j \in 1..Len(windows) |-> TotalRule(windows[j])]
sliMeasurements   == [j \in 1..Len(windows) |-> createSliMeasurementRecordingRule(windows[j])]
errorBudgetRatios == [j \in 1..Len(windows) |-> createErrorBudgetRatioRecordingRule(windows[j])]
burnRates         == [j \in 1..Len(windows) |-> createBurnRateRecordingRule(windows[j])]

RuleGroups ==
    [slo_target         |-> <<TargetRule>>,
     sli_good           |-> goodRules,
     sli_total          |-> totalRules,
     sli_measurement    |-> sliMeasurements,
     error_budget_ratio |-> errorBudgetRatios,
     burn_rate          |-> burnRates,
     slo_alert          |-> IF slo.magic THEN Alerts ELSE <<>>]

SetupRules ==
    /\ pc = "unique" /\ todo = <<>>
    /\ groups' = RuleGroups
    /\ pc' = "done"
    /\ UNCHANGED <<env, slo, todo, windows, spec, pushed>>

NewMimirRule ==
    /\ pc = "done"
    /\ spec' = NewMimirRuleGroups(groups)
    /\ pc' = "mirrored"
    /\ UNCHANGED <<env, slo, todo, windows, groups, pushed>>

(* What is pushed is converted from the PrometheusRule once more.          *)
PushGroups ==
    /\ pc = "mirrored"
    /\ pushed' = [g \in DOMAIN groups |->
                     createMimirRuleGroupAPI(NewMimirRuleGroups(groups)[g])]
    /\ pc' = "pushed"
    /\ UNCHANGED <<env, slo, todo, windows, groups, spec>>

Next == Setup \/ UniqueString \/ SetupRules \/ NewMimirRule \/ PushGroups

Spec == Init /\ [][Next]_vars
----------------------------------------------------------------------------
RecordingGroups == {"slo_target", "sli_good", "sli_total", "sli_measurement",
                    "error_budget_ratio", "burn_rate"}

(* The places of the recording rules in the groups.                        *)
Places == {p \in RecordingGroups \X (1..(Len(windows) + 1)) : p[2] \in DOMAIN groups[p[1]]}

At(p) == groups[p[1]][p[2]]

(* What the variables hold.                                                *)
RuleSetTypeOK ==
    /\ env \in Envs /\ slo \in Slo
    /\ pc \in {"setup", "rejected", "unique", "done", "mirrored", "pushed"}
    /\ todo \in Seq(Windows) /\ windows \in Seq(Windows)
    /\ pc = "done" => \A p \in Places :
          /\ At(p).expr.range \in Windows
          /\ DOMAIN At(p).labels = BaseKeys \cup DOMAIN slo.labels

(* The user's labels may replace base labels, service in the samples, but  *)
(* not the window, by which the rules tell their series apart.             *)
KeepsWindow == "window" \notin DOMAIN slo.labels

(* No series is recorded by two rules: Mimir would get two values for one  *)
(* timestamp. Base and time windows may coincide with the fixed ones.      *)
RecordedOnce ==
    pc = "done" /\ KeepsWindow =>
        \A p, q \in Places :
            At(p).record = At(q).record /\ At(p).labels = At(q).labels => p = q

(* Exactly one rule records s, and for the window of the rule at p.        *)
Finds(p, s) ==
    \E q \in Places : /\ Matches(At(q), s)
                      /\ At(q).expr.range = At(p).expr.range
                      /\ \A r \in Places : Matches(At(r), s) => r = q

(* The expressions of recording rules find what they select: one series,   *)
(* recorded by a rule of the set that was made for the same window.        *)
SelectorsResolve ==
    pc = "done" /\ KeepsWindow /\ slo.good =>
        \A p \in Places : \A s \in At(p).expr.refs : Finds(p, s)

(* The alerts of adr/0007_slo_calculation_fixes.md and of                  *)
(* MagicAlerting_WindowPairs in prometheus_helper_test.go: short and long  *)
(* window, default threshold in tenths, and the variable that replaces it. *)
Alerting ==
    [page_critical |-> <<"5m", "1h", 144, "ABR_PAGE_SHORT_WINDOW">>,
     page_high     |-> <<"30m", "6h", 60, "ABR_PAGE_LONG_WINDOW">>,
     ticket_high   |-> <<"2h", "24h", 30, "ABR_TICKET_SHORT_WINDOW">>,
     ticket_medium |-> <<"6h", "3d", 10, "ABR_TICKET_LONG_WINDOW">>]

(* s is the burn rate of the window and of nothing else that Mimir records.*)
LooksAt(s, window) ==
    \E j \in DOMAIN pushed["burn_rate"] :
        LET r == pushed["burn_rate"][j]
        IN  /\ Matches(r, s) /\ r.expr.range = window
            /\ \A g \in RecordingGroups : \A k \in DOMAIN pushed[g] :
                  Matches(pushed[g][k], s) => g = "burn_rate" /\ k = j

(* Magic alerting brings one alert of every severity to Mimir. Each looks  *)
(* at the burn rates of its own two windows, which Mimir records, compares *)
(* them with its own threshold, and is reported with a severity of the     *)
(* tool that no other alert has, unless the tool is a custom one.          *)
AlertsPaired ==
    pc = "pushed" /\ KeepsWindow /\ slo.magic =>
        \A severity \in DOMAIN Alerting :
            LET alerts == {s \in DOMAIN pushed["slo_alert"] :
                              pushed["slo_alert"][s].alert = severity}
                given  == /\ Alerting[severity][4] \in DOMAIN env
                          /\ env[Alerting[severity][4]] \in DOMAIN Floats
            IN  /\ Cardinality(alerts) = 1
                /\ \A s \in alerts :
                      LET a == pushed["slo_alert"][s]
                      IN  /\ LooksAt(a.expr.short, Alerting[severity][1])
                          /\ LooksAt(a.expr.long, Alerting[severity][2])
                          /\ ~given => a.expr.above = Alerting[severity][3]
                          /\ alertingTool \in {"opsgenie", "pagerduty"} =>
                                \A t \in DOMAIN pushed["slo_alert"] \ {s} :
                                   pushed["slo_alert"][t].labels.severity # a.labels.severity

(* The MimirRule and Mimir have the rules of the PrometheusRule, each at   *)
(* its place and of its kind: with its labels, its expression and, for an  *)
(* alert, the time it must last.                                           *)
Kept(r) == [record |-> r.record, alert |-> r.alert, expr |-> r.expr, for |-> r.for,
            labels |-> r.labels]

Mirrored ==
    pc = "pushed" =>
        /\ pushed = spec
        /\ DOMAIN pushed = DOMAIN groups
        /\ \A g \in DOMAIN groups : pushed[g] = [j \in DOMAIN groups[g] |-> Kept(groups[g][j])]

(* With a bad query, too, the good series is calculated from series that   *)
(* exist: total - bad (prometheus_helper_test.go).                         *)
GoodFromBad ==
    pc = "done" /\ ~slo.good =>
        \A p \in Places : \A s \in At(p).expr.refs :
            \E q \in Places : Matches(At(q), s)
=============================================================================

--------------------------- MODULE RuleSetProofs ----------------------------
(***************************************************************************)
(* Proofs about MonitoringRuleSet, for any windows, labels, alerting tools *)
(* and environments.                                                       *)
(***************************************************************************)
EXTENDS MonitoringRuleSet, FiniteSetTheorems, SequenceTheorems, TLAPS

(* The inductive invariant: uniqueStrings repeats no window, and the       *)
(* groups are made from the windows it has returned. Once made, they stay. *)
NoRepeats == \A i, j \in 1..Len(windows) : windows[i] = windows[j] => i = j

Made == pc \in {"done", "mirrored", "pushed"}

RuleSetInv ==
    /\ slo \in Slo
    /\ env \in Envs
    /\ pc \in {"setup", "rejected", "unique", "done", "mirrored", "pushed"}
    /\ todo \in Seq(Windows)
    /\ windows \in Seq(Windows)
    /\ NoRepeats
    /\ Made => /\ DOMAIN groups = RecordingGroups \cup {"slo_alert"}
               /\ \A g \in RecordingGroups : groups[g] = RuleGroups[g]

(* Base and time window are windows, whatever SLO and environment say.     *)
LEMMA WindowsOfSlo ==
    ASSUME RuleSetInv
    PROVE  baseWindow \in Windows /\ ExtendedWindow \in Windows
<1>1. Cfg.DefaultBaseWindow \in Windows
  BY WindowsAssumption DEF Cfg, GetEnvAsDuration, Parsed
<1> QED BY <1>1, WindowsAssumption DEF RuleSetInv, Slo, baseWindow, ExtendedWindow

(* What SetupRules puts on the list are windows.                           *)
LEMMA SetupTodo ==
    ASSUME RuleSetInv
    PROVE  <<baseWindow, ExtendedWindow>> \o FixedWindows \in Seq(Windows)
<1>1. FixedWindows \in Seq(AlertingWindows)
  BY DEF FixedWindows, AlertingWindows
<1>2. AlertingWindows \subseteq Windows
  BY WindowsAssumption
<1> QED BY <1>1, <1>2, WindowsOfSlo

(* The recording rules depend on nothing but the SLO and the windows.      *)
LEMMA GroupsKept ==
    ASSUME slo' = slo, windows' = windows, env' = env
    PROVE  \A g \in RecordingGroups : RuleGroups'[g] = RuleGroups[g]
<1> USE DEF Rule, LabelsFor, Of, createRecordingRule, createAntecedentRule, TotalRule, GoodRule
<1>0. baseWindow' = baseWindow
  BY DEF baseWindow, Cfg, GetEnv, GetEnvAsDuration, GetEnvAsFloat64, Parsed
<1>1. TargetRule' = TargetRule
  BY <1>0 DEF TargetRule
<1>2. goodRules' = goodRules
  BY DEF goodRules
<1>3. totalRules' = totalRules
  BY DEF totalRules
<1>4. sliMeasurements' = sliMeasurements
  BY DEF sliMeasurements, createSliMeasurementRecordingRule
<1>5. errorBudgetRatios' = errorBudgetRatios
  BY DEF errorBudgetRatios, createSliMeasurementRecordingRule, createErrorBudgetRatioRecordingRule
<1>6. burnRates' = burnRates
  BY DEF burnRates, createSliMeasurementRecordingRule, createErrorBudgetRatioRecordingRule, createBurnRateRecordingRule
<1> HIDE DEF Rule, LabelsFor, Of, createRecordingRule, createAntecedentRule, TotalRule, GoodRule
<1> QED
  BY <1>1, <1>2, <1>3, <1>4, <1>5, <1>6 DEF RuleGroups, RecordingGroups

(* Every step keeps the invariant.                                         *)
LEMMA RuleSetStep == RuleSetInv /\ [Next]_vars => RuleSetInv'
<1> USE DEF Made
<1> SUFFICES ASSUME RuleSetInv, [Next]_vars PROVE RuleSetInv'
  OBVIOUS
<1>1. CASE Setup
  BY <1>1, SetupTodo DEF RuleSetInv, Setup, NoRepeats
<1>2. CASE UniqueString
  <2> USE <1>2 DEF UniqueString
  <2>1. todo' \in Seq(Windows) /\ Head(todo) \in Windows
    BY DEF RuleSetInv
  <2>2. windows' \in Seq(Windows)
    BY <2>1 DEF RuleSetInv
  <2>3. NoRepeats'
    <3>1. CASE windows' = windows
      BY <3>1 DEF RuleSetInv, NoRepeats
    <3>2. CASE /\ windows' = Append(windows, Head(todo))
               /\ \A j \in 1..Len(windows) : windows[j] # Head(todo)
      <4>1. /\ Len(windows') = Len(windows) + 1
            /\ \A j \in 1..Len(windows) : windows'[j] = windows[j]
            /\ windows'[Len(windows) + 1] = Head(todo)
        BY <3>2, <2>1 DEF RuleSetInv
      <4>2. Len(windows) \in Nat
        BY DEF RuleSetInv
      <4> QED BY <4>1, <4>2, <3>2 DEF RuleSetInv, NoRepeats
    <3> QED BY <3>1, <3>2
  <2> QED BY <2>1, <2>2, <2>3 DEF RuleSetInv
<1>3. CASE SetupRules
  <2>1. \A g \in RecordingGroups : groups'[g] = RuleGroups'[g]
    BY <1>3, GroupsKept DEF SetupRules
  <2>2. DOMAIN groups' = RecordingGroups \cup {"slo_alert"}
    BY <1>3 DEF SetupRules, RuleGroups, RecordingGroups
  <2> QED BY <1>3, <2>1, <2>2 DEF SetupRules, RuleSetInv, NoRepeats
<1>4. CASE UNCHANGED vars
  <2>1. \A g \in RecordingGroups : RuleGroups'[g] = RuleGroups[g]
    BY <1>4, GroupsKept DEF vars
  <2> QED BY <1>4, <2>1 DEF vars, RuleSetInv, NoRepeats
<1>5. CASE NewMimirRule \/ PushGroups
  <2>1. \A g \in RecordingGroups : RuleGroups'[g] = RuleGroups[g]
    BY <1>5, GroupsKept DEF NewMimirRule, PushGroups
  <2> QED BY <1>5, <2>1 DEF NewMimirRule, PushGroups, RuleSetInv, NoRepeats
<1> QED BY <1>1, <1>2, <1>3, <1>4, <1>5 DEF Next

(* The invariant holds of every behaviour.                                 *)
LEMMA RuleSetInvariant == Spec => []RuleSetInv
<1>1. Init => RuleSetInv
  BY DEF Init, RuleSetInv, NoRepeats, Made
<1> QED BY <1>1, RuleSetStep, PTL DEF Spec
----------------------------------------------------------------------------
(* The name of the series that the rules of a group record: no two groups  *)
(* share one.                                                              *)
RecordOf ==
    [slo_target |-> "slo_target", sli_good |-> "sli_good", sli_total |-> "sli_total",
     sli_measurement |-> "sli_measurement", error_budget_ratio |-> "error_budget_ratio",
     burn_rate |-> "error_budget_burn_rate"]

Windowed == RecordingGroups \ {"slo_target"}

LEMMA RecordsDiffer == \A g, h \in RecordingGroups : RecordOf[g] = RecordOf[h] => g = h
BY DEF RecordOf, RecordingGroups

(* A group other than the target's has, for every window, a rule of its    *)
(* record with the labels of that window.                                  *)
LEMMA WindowedRules ==
    ASSUME RuleSetInv, Made, NEW g \in Windowed
    PROVE  /\ DOMAIN groups[g] = 1..Len(windows)
           /\ \A j \in 1..Len(windows) : /\ groups[g][j].record = RecordOf[g]
                                         /\ groups[g][j].labels = LabelsFor(windows[j])
                                         /\ groups[g][j].expr.range = windows[j]
<1> USE DEF Rule, RecordOf
<1>1. groups[g] = RuleGroups[g] /\ g \in RecordingGroups
  BY DEF RuleSetInv, Windowed
<1>2. CASE g = "sli_good"
  BY <1>1, <1>2 DEF RuleGroups, goodRules, GoodRule, createRecordingRule, createAntecedentRule
<1>3. CASE g = "sli_total"
  BY <1>1, <1>3 DEF RuleGroups, totalRules, TotalRule, createRecordingRule
<1>4. CASE g = "sli_measurement"
  BY <1>1, <1>4 DEF RuleGroups, sliMeasurements, createSliMeasurementRecordingRule
<1>5. CASE g = "error_budget_ratio"
  BY <1>1, <1>5 DEF RuleGroups, errorBudgetRatios, createErrorBudgetRatioRecordingRule
<1>6. CASE g = "burn_rate"
  BY <1>1, <1>6 DEF RuleGroups, burnRates, createBurnRateRecordingRule
<1> QED BY <1>2, <1>3, <1>4, <1>5, <1>6 DEF Windowed, RecordingGroups

(* The target's group has one rule.                                        *)
LEMMA TargetRules ==
    ASSUME RuleSetInv, Made
    PROVE  groups["slo_target"] = <<TargetRule>>
BY DEF RuleSetInv, RecordingGroups, RuleGroups

(* The labels of a rule hold the window it was made for, unless the user   *)
(* has a label "window".                                                   *)
LEMMA WindowLabel ==
    ASSUME KeepsWindow, NEW w
    PROVE  "window" \in DOMAIN LabelsFor(w) /\ LabelsFor(w)["window"] = w
BY DEF KeepsWindow, LabelsFor, mergeLabels, createBaseRuleLabels, BaseKeys

(* Record and window tell where a rule is.                                 *)
LEMMA RulesDiffer ==
    ASSUME RuleSetInv, Made, KeepsWindow, NEW p \in Places, NEW q \in Places,
           At(p).record = At(q).record, At(p).labels["window"] = At(q).labels["window"]
    PROVE  p = q
<1>1. \A r \in Places : /\ r = <<r[1], r[2]>> /\ r[1] \in RecordingGroups
                        /\ At(r).record = RecordOf[r[1]]
  <2> SUFFICES ASSUME NEW r \in Places
               PROVE  /\ r = <<r[1], r[2]>> /\ r[1] \in RecordingGroups
                      /\ At(r).record = RecordOf[r[1]]
    OBVIOUS
  <2>1. /\ r = <<r[1], r[2]>> /\ r[1] \in RecordingGroups
        /\ r[2] \in DOMAIN groups[r[1]]
    BY DEF Places
  <2>2. CASE r[1] = "slo_target"
    BY <2>1, <2>2, TargetRules DEF At, TargetRule, Rule, RecordOf
  <2>3. CASE r[1] \in Windowed
    BY <2>1, <2>3, WindowedRules DEF At
  <2> QED BY <2>1, <2>2, <2>3 DEF Windowed
<1>2. p[1] = q[1]
  BY <1>1, RecordsDiffer
<1>3. p[2] \in DOMAIN groups[p[1]] /\ q[2] \in DOMAIN groups[p[1]]
  BY <1>2 DEF Places
<1>4. CASE p[1] = "slo_target"
  <2>1. DOMAIN groups["slo_target"] = {1}
    BY TargetRules
  <2>2. p[2] = 1 /\ q[2] = 1
    BY <2>1, <1>3, <1>4
  <2>3. p = <<p[1], p[2]>> /\ q = <<q[1], q[2]>>
    BY <1>1
  <2> QED BY <1>2, <2>2, <2>3
<1>5. CASE p[1] \in Windowed
  <2>1. p[2] \in 1..Len(windows) /\ q[2] \in 1..Len(windows)
    BY <1>3, <1>5, WindowedRules
  <2>2. /\ At(p).labels = LabelsFor(windows[p[2]])
        /\ At(q).labels = LabelsFor(windows[q[2]])
    BY <2>1, <1>2, <1>5, WindowedRules DEF At
  <2>3. windows[p[2]] = windows[q[2]]
    BY <2>2, WindowLabel
  <2>4. p[2] = q[2]
    BY <2>1, <2>3 DEF RuleSetInv, NoRepeats
  <2>5. p = <<p[1], p[2]>> /\ q = <<q[1], q[2]>>
    BY <1>1
  <2> QED BY <1>2, <2>4, <2>5
<1> QED BY <1>1, <1>4, <1>5 DEF Windowed

(* No series is recorded by two rules, however the base and the time       *)
(* window of the SLO coincide with the windows of the alerts.              *)
THEOREM NoSeriesTwice == Spec => []RecordedOnce
<1> USE DEF Made
<1>1. RuleSetInv => RecordedOnce
  <2> SUFFICES ASSUME RuleSetInv, pc = "done", KeepsWindow, NEW p \in Places, NEW q \in Places,
                      At(p).record = At(q).record, At(p).labels = At(q).labels
               PROVE  p = q
    BY DEF RecordedOnce
  <2> QED BY RulesDiffer
<1> QED BY <1>1, RuleSetInvariant, PTL
----------------------------------------------------------------------------
(* A selector made of a rule of the set finds that rule and no other:      *)
(* leaving out hidden labels does not make it ambiguous.                   *)
LEMMA SelectorFinds ==
    ASSUME RuleSetInv, Made, KeepsWindow, NEW q \in Places
    PROVE  /\ Matches(At(q), Of(At(q)))
           /\ \A r \in Places : Matches(At(r), Of(At(q))) => r = q
<1>1. Matches(At(q), Of(At(q)))
  BY DEF Matches, Of, Selector
<1>2. "window" \in DOMAIN At(q).labels
  <2>1. q[1] \in RecordingGroups /\ q[2] \in DOMAIN groups[q[1]]
    BY DEF Places
  <2>2. CASE q[1] = "slo_target"
    BY <2>1, <2>2, TargetRules, WindowLabel DEF At, TargetRule, Rule
  <2>3. CASE q[1] \in Windowed
    BY <2>1, <2>3, WindowedRules, WindowLabel DEF At
  <2> QED BY <2>1, <2>2, <2>3 DEF Windowed
<1>3. ASSUME NEW r \in Places, Matches(At(r), Of(At(q))) PROVE r = q
  <2>1. "window" \in DOMAIN Of(At(q)).labels
        /\ Of(At(q)).labels["window"] = At(q).labels["window"]
        /\ Of(At(q)).record = At(q).record
    BY <1>2, KeysAssumption DEF Of, Selector, BaseKeys
  <2>2. /\ At(r).record = At(q).record
        /\ At(r).labels["window"] = At(q).labels["window"]
    BY <1>3, <2>1 DEF Matches
  <2> QED BY <2>2, RulesDiffer
<1> QED BY <1>1, <1>3

(* The rule of the next group back, made for the same window, is the one   *)
(* an expression selects.                                                  *)
LEMMA EarlierRule ==
    ASSUME RuleSetInv, Made, KeepsWindow, NEW p \in Places, NEW g \in Windowed,
           p[1] \in Windowed, NEW s, s = Of(groups[g][p[2]])
    PROVE  Finds(p, s)
<1> DEFINE q == <<g, p[2]>>
<1>1. p[2] \in 1..Len(windows) /\ Len(windows) \in Nat
  BY WindowedRules DEF Places, RuleSetInv
<1>2. q \in Places
  BY <1>1, WindowedRules DEF Places, Windowed
<1>3. At(q).expr.range = At(p).expr.range /\ At(q) = groups[g][p[2]]
  BY <1>1, WindowedRules DEF At
<1>4. Matches(At(q), s) /\ \A r \in Places : Matches(At(r), s) => r = q
  BY <1>2, <1>3, SelectorFinds
<1> QED BY <1>2, <1>3, <1>4 DEF Finds

(* With a good query, every recording rule selects exactly the series it   *)
(* is meant to, which another rule of the set records.                     *)
THEOREM SelectorsAlwaysResolve == Spec => []SelectorsResolve
<1> USE DEF Made
<1>1. RuleSetInv => SelectorsResolve
  <2> SUFFICES ASSUME RuleSetInv, pc = "done", KeepsWindow, slo.good,
                      NEW p \in Places, NEW s \in At(p).expr.refs
               PROVE  Finds(p, s)
    BY DEF SelectorsResolve
  <2> DEFINE j == p[2]
  <2>1. p[1] \in RecordingGroups /\ j \in DOMAIN groups[p[1]]
    BY DEF Places
  <2>2. CASE p[1] = "slo_target"
    BY <2>1, <2>2, TargetRules DEF At, TargetRule, Rule
  <2>3. CASE p[1] \in Windowed
    <3>1. j \in 1..Len(windows)
      BY <2>1, <2>3, WindowedRules
    <3>2. \A g \in RecordingGroups : groups[g] = RuleGroups[g]
      BY DEF RuleSetInv
    <3>3. {"sli_good", "sli_total", "sli_measurement", "error_budget_ratio", "burn_rate"}
            = Windowed
      BY DEF Windowed, RecordingGroups
    <3>4. groups["sli_good"][j] = GoodRule(windows[j])
      BY <3>1, <3>2 DEF RecordingGroups, RuleGroups, goodRules
    <3>5. groups["sli_total"][j] = TotalRule(windows[j])
      BY <3>1, <3>2 DEF RecordingGroups, RuleGroups, totalRules
    <3>6. groups["sli_measurement"][j] = createSliMeasurementRecordingRule(windows[j])
      BY <3>1, <3>2 DEF RecordingGroups, RuleGroups, sliMeasurements
    <3>7. groups["error_budget_ratio"][j] = createErrorBudgetRatioRecordingRule(windows[j])
      BY <3>1, <3>2 DEF RecordingGroups, RuleGroups, errorBudgetRatios
    <3>8. groups["burn_rate"][j] = createBurnRateRecordingRule(windows[j])
      BY <3>1, <3>2 DEF RecordingGroups, RuleGroups, burnRates
    <3>9. CASE p[1] \in {"sli_good", "sli_total"}
      BY <3>9, <3>4, <3>5 DEF At, GoodRule, TotalRule, createRecordingRule, Rule
    <3>10. CASE p[1] = "sli_measurement"
      <4>1. s = Of(groups["sli_good"][j]) \/ s = Of(groups["sli_total"][j])
        BY <3>10, <3>4, <3>5, <3>6 DEF At, createSliMeasurementRecordingRule, Rule
      <4> QED BY <4>1, <2>3, <3>3, EarlierRule
    <3>11. CASE p[1] = "error_budget_ratio"
      <4>1. s = Of(groups["sli_measurement"][j])
        BY <3>11, <3>6, <3>7 DEF At, createErrorBudgetRatioRecordingRule, Rule
      <4> QED BY <4>1, <2>3, <3>3, EarlierRule
    <3>12. CASE p[1] = "burn_rate"
      <4>1. s = Of(groups["error_budget_ratio"][j])
        BY <3>12, <3>7, <3>8 DEF At, createBurnRateRecordingRule, Rule
      <4> QED BY <4>1, <2>3, <3>3, EarlierRule
    <3> QED BY <2>3, <3>3, <3>9, <3>10, <3>11, <3>12
  <2> QED BY <2>1, <2>2, <2>3 DEF Windowed
<1> QED BY <1>1, RuleSetInvariant, PTL
----------------------------------------------------------------------------
(* The variables hold what they are meant to hold: whatever the SLO and    *)
(* the environment say, every rule is made for a window, with all base     *)
(* labels and those of the user.                                           *)
THEOREM RuleSetTypeCorrect == Spec => []RuleSetTypeOK
<1> USE DEF Made
<1>1. RuleSetInv => RuleSetTypeOK
  <2> SUFFICES ASSUME RuleSetInv, pc = "done", NEW p \in Places
               PROVE  /\ At(p).expr.range \in Windows
                      /\ DOMAIN At(p).labels = BaseKeys \cup DOMAIN slo.labels
    BY DEF RuleSetTypeOK, RuleSetInv
  <2>1. p[1] \in RecordingGroups /\ p[2] \in DOMAIN groups[p[1]]
    BY DEF Places
  <2>2. \A w : DOMAIN LabelsFor(w) = BaseKeys \cup DOMAIN slo.labels
    BY DEF LabelsFor, mergeLabels, createBaseRuleLabels
  <2>3. CASE p[1] = "slo_target"
    BY <2>1, <2>2, <2>3, TargetRules, WindowsOfSlo DEF At, TargetRule, Rule
  <2>4. CASE p[1] \in Windowed
    BY <2>1, <2>2, <2>4, WindowedRules DEF At, RuleSetInv
  <2> QED BY <2>1, <2>3, <2>4 DEF Windowed
<1> QED BY <1>1, RuleSetInvariant, PTL
----------------------------------------------------------------------------
(* Whether a rule records or alerts can be told from its empty fields.     *)
Told(r) ==
    \/ r.alert = NoText /\ r.for = NoText
    \/ r.record = NoText /\ r.alert # NoText

(* An alert's name is not empty.                                           *)
LEMMA AlertsHaveNames == NoText \notin Severities
BY Zenon DEF NoText, Severities

(* Both conversions keep such a rule, and can tell it again afterwards.    *)
LEMMA ConversionKeeps ==
    ASSUME NEW r, Told(r)
    PROVE  MimirRuleNode(r) = Kept(r) /\ RulerNode(Kept(r)) = Kept(r)
BY DEF Told, MimirRuleNode, RulerNode, AlertNode, RecordNode, Kept

(* All rules that SetupRules makes are of that sort.                       *)
LEMMA RulesTold ==
    ASSUME NEW g \in DOMAIN RuleGroups, NEW j \in DOMAIN RuleGroups[g]
    PROVE  Told(RuleGroups[g][j])
<1>1. \A record, window, refs : Told(Rule(record, window, refs))
  BY DEF Rule, Told
<1>2. g \in RecordingGroups \cup {"slo_alert"}
  BY DEF RuleGroups, RecordingGroups
<1>3. CASE g = "slo_alert"
  <2>1. RuleGroups[g] = IF slo.magic THEN Alerts ELSE <<>>
    BY <1>3 DEF RuleGroups
  <2>2. slo.magic /\ RuleGroups[g] = Alerts
    BY <2>1
  <2>3. j \in Severities /\ RuleGroups[g][j] = createMultiBurnRateAlert(j)
    BY <2>2 DEF Alerts
  <2>4. /\ createMultiBurnRateAlert(j).record = NoText
        /\ createMultiBurnRateAlert(j).alert = j
    BY DEF createMultiBurnRateAlert
  <2> QED BY <2>3, <2>4, AlertsHaveNames DEF Told
<1>4. CASE g = "slo_target"
  BY <1>4, <1>1 DEF RuleGroups, TargetRule
<1>5. CASE g = "sli_good"
  BY <1>5, <1>1 DEF RuleGroups, goodRules, GoodRule, createRecordingRule, createAntecedentRule
<1>6. CASE g = "sli_total"
  BY <1>6, <1>1 DEF RuleGroups, totalRules, TotalRule, createRecordingRule
<1>7. CASE g = "sli_measurement"
  BY <1>7, <1>1 DEF RuleGroups, sliMeasurements, createSliMeasurementRecordingRule
<1>8. CASE g = "error_budget_ratio"
  BY <1>8, <1>1 DEF RuleGroups, errorBudgetRatios, createErrorBudgetRatioRecordingRule
<1>9. CASE g = "burn_rate"
  BY <1>9, <1>1 DEF RuleGroups, burnRates, createBurnRateRecordingRule
<1> QED BY <1>2, <1>3, <1>4, <1>5, <1>6, <1>7, <1>8, <1>9 DEF RecordingGroups

(* What the rules become on their way.                                     *)
KeptGroups == [g \in DOMAIN groups |-> [j \in DOMAIN groups[g] |-> Kept(groups[g][j])]]

MirrorInv ==
    /\ pc \in {"done", "mirrored", "pushed"} =>
          \A g \in DOMAIN groups : \A j \in DOMAIN groups[g] : Told(groups[g][j])
    /\ pc \in {"mirrored", "pushed"} => spec = KeptGroups
    /\ pc = "pushed" => pushed = KeptGroups

(* Rules that can be told apart are kept by both conversions.              *)
LEMMA Converted ==
    ASSUME \A g \in DOMAIN groups : \A j \in DOMAIN groups[g] : Told(groups[g][j])
    PROVE  /\ NewMimirRuleGroups(groups) = KeptGroups
           /\ \A g \in DOMAIN groups :
                 createMimirRuleGroupAPI(KeptGroups[g]) = KeptGroups[g]
<1>1. \A g \in DOMAIN groups : \A j \in DOMAIN groups[g] :
        /\ MimirRuleNode(groups[g][j]) = Kept(groups[g][j])
        /\ RulerNode(Kept(groups[g][j])) = Kept(groups[g][j])
  BY ConversionKeeps
<1>2. NewMimirRuleGroups(groups) = KeptGroups
  BY <1>1 DEF NewMimirRuleGroups, KeptGroups
<1>3. ASSUME NEW g \in DOMAIN groups
      PROVE  createMimirRuleGroupAPI(KeptGroups[g]) = KeptGroups[g]
  BY <1>1, <1>3 DEF createMimirRuleGroupAPI, KeptGroups
<1> QED BY <1>2, <1>3

(* Every step keeps the rules told apart and the copies equal.             *)
LEMMA MirrorStep == MirrorInv /\ [Next]_vars => MirrorInv'
<1> SUFFICES ASSUME MirrorInv, [Next]_vars PROVE MirrorInv'
  OBVIOUS
<1> USE DEF MirrorInv
<1>1. CASE Setup \/ UniqueString
  BY <1>1 DEF Setup, UniqueString
<1>2. CASE SetupRules
  BY <1>2, RulesTold DEF SetupRules
<1>3. CASE NewMimirRule
  BY <1>3, Converted DEF NewMimirRule, KeptGroups
<1>4. CASE PushGroups
  <2>1. /\ pushed' = [g \in DOMAIN groups |->
                        createMimirRuleGroupAPI(NewMimirRuleGroups(groups)[g])]
        /\ UNCHANGED <<groups, spec>> /\ pc = "mirrored" /\ pc' = "pushed"
    BY <1>4 DEF PushGroups
  <2>2. pushed' = [g \in DOMAIN groups |-> KeptGroups[g]]
    BY <2>1, Converted
  <2>3. pushed' = KeptGroups /\ KeptGroups' = KeptGroups
    BY <2>1, <2>2 DEF KeptGroups
  <2> QED BY <2>1, <2>3
<1>5. CASE UNCHANGED vars
  BY <1>5 DEF vars, KeptGroups
<1> QED BY <1>1, <1>2, <1>3, <1>4, <1>5 DEF Next

(* So it holds of every behaviour.                                         *)
LEMMA MirrorInvariant == Spec => []MirrorInv
<1>1. Init => MirrorInv
  BY DEF Init, MirrorInv
<1> QED BY <1>1, MirrorStep, PTL DEF Spec

(* The MimirRule and Mimir have the rules of the PrometheusRule, whatever  *)
(* rules were made: each keeps its kind through two conversions that tell  *)
(* it from empty fields, by different conditions.                          *)
THEOREM RulesMirrored == Spec => []Mirrored
<1>1. MirrorInv => Mirrored
  BY DEF MirrorInv, Mirrored, KeptGroups
<1> QED BY <1>1, MirrorInvariant, PTL
----------------------------------------------------------------------------
(* The fixed windows, of which the alerts are made, come through           *)
(* uniqueStrings, and the alerts in their group are those of the result.   *)
Within(w, list) == \E j \in 1..Len(list) : list[j] = w

PairInv ==
    /\ pc = "unique" => \A w \in AlertingWindows : Within(w, todo) \/ Within(w, windows)
    /\ Made => \A w \in AlertingWindows : Within(w, windows)
    /\ Made /\ slo.magic => groups["slo_alert"] = Alerts

(* The alerts, too, depend on the input and the windows only.              *)
LEMMA AlertsKept ==
    ASSUME slo' = slo, windows' = windows, env' = env
    PROVE  Alerts' = Alerts
<1>1. alertingTool' = alertingTool
  BY DEF alertingTool, Cfg, GetEnv, GetEnvAsDuration, GetEnvAsFloat64, Parsed
<1>2. \A tool : AlertSeveritiesByTool(tool)' = AlertSeveritiesByTool(tool)
  BY DEF AlertSeveritiesByTool, Custom, GetEnv
<1>3. \A severity : Threshold(severity)' = Threshold(severity)
  BY DEF Threshold, Cfg, GetEnv, GetEnvAsDuration, GetEnvAsFloat64, Parsed
<1>4. \A key : Keyed(key)' = Keyed(key)
  BY DEF Keyed, LabelsFor
<1>5. \A w : createBurnRateRecordingRule(w)' = createBurnRateRecordingRule(w)
  BY DEF Of, createBurnRateRecordingRule, createErrorBudgetRatioRecordingRule,
     createSliMeasurementRecordingRule, Rule, LabelsFor, GoodRule, TotalRule,
     createRecordingRule, createAntecedentRule
<1>6. \A key : BurnRate(key)' = BurnRate(key)
  BY <1>4, <1>5 DEF BurnRate
<1>7. \A severity : createMultiBurnRateAlert(severity)' = createMultiBurnRateAlert(severity)
  BY <1>1, <1>2, <1>3, <1>6 DEF createMultiBurnRateAlert
<1> QED
  BY <1>4, <1>7 DEF Alerts, hasWindows

(* Every step keeps them: what uniqueStrings drops is in its result.      *)
LEMMA PairStep == RuleSetInv /\ PairInv /\ [Next]_vars => PairInv'
<1> SUFFICES ASSUME RuleSetInv, PairInv, [Next]_vars PROVE PairInv'
  OBVIOUS
<1> USE DEF PairInv, Made
<1>1. CASE Setup
  <2> DEFINE first == <<baseWindow, ExtendedWindow>>
  <2>1. first \in Seq(Windows) /\ Len(first) = 2
    BY WindowsOfSlo
  <2>2. FixedWindows \in Seq(Windows) /\ Len(FixedWindows) = 7
    <3>1. FixedWindows \in Seq(AlertingWindows)
      BY DEF FixedWindows, AlertingWindows
    <3>2. Len(FixedWindows) = 7
      BY DEF FixedWindows
    <3> QED BY <3>1, <3>2, WindowsAssumption
  <2>3. pc' = "unique" => todo' = <<baseWindow, ExtendedWindow>> \o FixedWindows
    BY <1>1 DEF Setup
  <2>4. ASSUME pc' = "unique", NEW w \in AlertingWindows
        PROVE  Within(w, todo)'
    <3>1. PICK k \in 1..7 : FixedWindows[k] = w
      BY <2>2 DEF AlertingWindows
    <3> HIDE DEF first
    <3>2. Len(first \o FixedWindows) = 9 /\ (first \o FixedWindows)[k + 2] = w
      <4> DEFINE both == first \o FixedWindows
      <4>1. /\ Len(both) = Len(first) + Len(FixedWindows)
            /\ \A i \in 1..(Len(first) + Len(FixedWindows)) :
                  both[i] = IF i <= Len(first) THEN first[i] ELSE FixedWindows[i - Len(first)]
        BY <2>1, <2>2, ConcatProperties, Zenon
      <4> HIDE DEF both
      <4>2. Len(both) = 9 /\ both[k + 2] = FixedWindows[(k + 2) - 2]
        BY <4>1, <2>1, <2>2, <3>1
      <4>3. (k + 2) - 2 = k
        BY <3>1
      <4> QED BY <4>2, <4>3, <3>1 DEF both
    <3>3. todo' = first \o FixedWindows
      BY <2>3, <2>4 DEF first
    <3> QED BY <3>2, <3>3 DEF Within
  <2> QED BY <1>1, <2>4 DEF Setup
<1>2. CASE UniqueString
  <2> USE <1>2 DEF UniqueString
  <2>1. todo \in Seq(Windows) /\ windows \in Seq(Windows) /\ todo # <<>>
    BY DEF RuleSetInv
  <2>2. ASSUME NEW w \in AlertingWindows PROVE (Within(w, todo) \/ Within(w, windows))'
    <3>1. ASSUME NEW v, Within(v, windows) PROVE Within(v, windows)'
      BY <2>1, <3>1 DEF Within
    <3>2. Within(Head(todo), windows')
      <4>1. CASE Within(Head(todo), windows)
        BY <4>1, <2>1 DEF Within
      <4>2. CASE ~Within(Head(todo), windows)
        <5>1. /\ Len(windows') = Len(windows) + 1 /\ Len(windows) \in Nat
              /\ windows'[Len(windows) + 1] = Head(todo)
          BY <4>2, <2>1 DEF Within
        <5> QED BY <5>1 DEF Within
      <4> QED BY <4>1, <4>2
    <3>3. ASSUME Within(w, todo), w # Head(todo) PROVE Within(w, todo)'
      <4>1. PICK k \in 1..Len(todo) : todo[k] = w
        BY <3>3 DEF Within
      <4>2. k # 1
        BY <4>1, <3>3, <2>1
      <4>3. k - 1 \in 1..Len(todo') /\ todo'[k - 1] = w
        BY <4>1, <4>2, <2>1
      <4> QED BY <4>3 DEF Within
    <3>4. CASE w = Head(todo)
      BY <3>2, <3>4 DEF Within
    <3> QED BY <3>1, <3>3, <3>4
  <2> QED BY <2>2
<1>3. CASE SetupRules
  <2>1. \A w : Within(w, <<>>) => FALSE
    BY DEF Within
  <2>2. Alerts' = Alerts
    BY <1>3, AlertsKept DEF SetupRules
  <2>3. slo'.magic => groups'["slo_alert"] = Alerts'
    BY <1>3, <2>2 DEF SetupRules, RuleGroups
  <2>4. \A w \in AlertingWindows : Within(w, windows)'
    BY <1>3, <2>1 DEF SetupRules, Within
  <2> QED BY <1>3, <2>3, <2>4 DEF SetupRules
<1>4. CASE NewMimirRule \/ PushGroups \/ UNCHANGED vars
  <2>1. Alerts' = Alerts
    BY <1>4, AlertsKept DEF NewMimirRule, PushGroups, vars
  <2> QED BY <1>4, <2>1 DEF NewMimirRule, PushGroups, vars, Within
<1> QED BY <1>1, <1>2, <1>3, <1>4 DEF Next

(* So it holds of every behaviour.                                         *)
LEMMA PairInvariant == Spec => []PairInv
<1>1. Init => PairInv
  BY DEF Init, PairInv, Made
<1> QED BY <1>1, PairStep, RuleSetInvariant, PTL DEF Spec

(* getBurnRateWindows finds, for each window of an alert, the one burn     *)
(* rate that was recorded for it.                                          *)
LEMMA BurnRateFound ==
    ASSUME RuleSetInv, PairInv, Made, KeepsWindow, NEW w \in AlertingWindows
    PROVE  /\ Keyed(w) # {}
           /\ \E j \in 1..Len(windows) :
                 windows[j] = w /\ BurnRate(w) = groups["burn_rate"][j]
<1>1. PICK j \in 1..Len(windows) : windows[j] = w
  BY DEF PairInv, Within
<1>2. Keyed(w) = {j}
  <2>1. \A k \in 1..Len(windows) : LabelsFor(windows[k])["window"] = windows[k]
    BY WindowLabel
  <2>2. \A k \in 1..Len(windows) : windows[k] = w => k = j
    BY <1>1 DEF RuleSetInv, NoRepeats
  <2> QED BY <1>1, <2>1, <2>2 DEF Keyed
<1>3. (CHOOSE i \in Keyed(w) : \A k \in Keyed(w) : k <= i) = j
  <2>1. j <= j
    BY DEF RuleSetInv
  <2> QED BY <1>2, <2>1
<1>4. BurnRate(w) = createBurnRateRecordingRule(windows[j])
  BY <1>3 DEF BurnRate
<1>5. groups["burn_rate"] = burnRates
  BY DEF RuleSetInv, RecordingGroups, RuleGroups
<1> QED BY <1>1, <1>2, <1>4, <1>5 DEF burnRates

(* In Mimir its selector finds it and nothing else.                        *)
LEMMA AlertLooks ==
    ASSUME RuleSetInv, PairInv, MirrorInv, pc = "pushed", KeepsWindow,
           NEW w \in AlertingWindows
    PROVE  LooksAt(Of(BurnRate(w)), w)
<1> USE DEF Made
<1>1. PICK j \in 1..Len(windows) : windows[j] = w /\ BurnRate(w) = groups["burn_rate"][j]
  BY BurnRateFound
<1> DEFINE q == <<"burn_rate", j>>
<1>2. "burn_rate" \in Windowed /\ "burn_rate" \in RecordingGroups
  BY DEF Windowed, RecordingGroups
<1>3. DOMAIN groups["burn_rate"] = 1..Len(windows) /\ Len(windows) \in Nat
  BY <1>2, WindowedRules DEF RuleSetInv
<1>4. q \in Places /\ At(q) = BurnRate(w)
  BY <1>1, <1>2, <1>3 DEF Places, At
<1>5. /\ Matches(At(q), Of(At(q)))
      /\ \A r \in Places : Matches(At(r), Of(At(q))) => r = q
  BY <1>4, SelectorFinds
<1>6. At(q).expr.range = w
  BY <1>1, <1>2, WindowedRules DEF At
<1>7. \A g \in RecordingGroups : g \in DOMAIN groups
  BY DEF RuleSetInv
<1>8. \A g \in RecordingGroups : /\ DOMAIN pushed[g] = DOMAIN groups[g]
                                 /\ \A k \in DOMAIN groups[g] :
                                       pushed[g][k] = Kept(groups[g][k])
  BY <1>7 DEF MirrorInv, KeptGroups
<1>9. \A r, s : Matches(Kept(r), s) <=> Matches(r, s)
  BY DEF Matches, Kept
<1>10. \A g \in RecordingGroups : \A k \in DOMAIN groups[g] :
         <<g, k>> \in Places /\ At(<<g, k>>) = groups[g][k]
  <2> SUFFICES ASSUME NEW g \in RecordingGroups, NEW k \in DOMAIN groups[g]
               PROVE  k \in 1..(Len(windows) + 1)
    BY DEF Places, At
  <2>1. CASE g = "slo_target"
    BY <2>1, <1>3, TargetRules
  <2>2. CASE g \in Windowed
    BY <2>2, <1>3, WindowedRules
  <2> QED BY <2>1, <2>2 DEF Windowed
<1>11. ASSUME NEW g \in RecordingGroups, NEW k \in DOMAIN pushed[g],
              Matches(pushed[g][k], Of(BurnRate(w)))
       PROVE  g = "burn_rate" /\ k = j
  <2>1. <<g, k>> \in Places /\ Matches(At(<<g, k>>), Of(At(q)))
    BY <1>4, <1>8, <1>9, <1>10, <1>11
  <2>2. <<g, k>> = q
    BY <1>5, <2>1
  <2> QED BY <2>2
<1>12. /\ j \in DOMAIN pushed["burn_rate"]
       /\ Matches(pushed["burn_rate"][j], Of(BurnRate(w)))
       /\ pushed["burn_rate"][j].expr.range = w
  <2>1. groups["burn_rate"][j] = At(q) /\ j \in DOMAIN groups["burn_rate"]
    BY <1>3 DEF At
  <2>2. pushed["burn_rate"][j] = Kept(At(q)) /\ j \in DOMAIN pushed["burn_rate"]
    BY <2>1, <1>2, <1>8
  <2>3. Kept(At(q)).expr.range = w
    BY <1>6 DEF Kept
  <2> QED BY <2>2, <2>3, <1>4, <1>5, <1>9
<1> QED BY <1>11, <1>12 DEF LooksAt

(* The two windows of every severity are among the fixed ones.             *)
LEMMA Severity ==
    ASSUME NEW s \in Severities
    PROVE  /\ ShortWindow(s) = Alerting[s][1] /\ LongWindow(s) = Alerting[s][2]
           /\ ShortWindow(s) \in AlertingWindows /\ LongWindow(s) \in AlertingWindows
BY DEF Severities, ShortWindow, LongWindow, Alerting, AlertingWindows, FixedWindows

(* An alert's threshold, unless the environment replaces it.               *)
LEMMA ThresholdOf ==
    ASSUME NEW s \in Severities,
           ~(Alerting[s][4] \in DOMAIN env /\ env[Alerting[s][4]] \in DOMAIN Floats)
    PROVE  Tenths(Threshold(s)) = Alerting[s][3]
BY DEF Severities, Alerting, Threshold, Tenths, Cfg, GetEnvAsFloat64, Parsed

(* The known tools have a severity for each of the four.                   *)
LEMMA SeverityOfTool ==
    ASSUME NEW tool \in {"opsgenie", "pagerduty"}, NEW s \in Severities, NEW t \in Severities,
           AlertSeveritiesByTool(tool)[s] = AlertSeveritiesByTool(tool)[t]
    PROVE  s = t
BY DEF Severities, AlertSeveritiesByTool, Opsgenie, Pagerduty

(* Magic alerting brings one alert of every severity to Mimir, whatever    *)
(* windows the SLO adds: with its own windows, threshold and severity.     *)
THEOREM AlertsAlwaysPaired == Spec => []AlertsPaired
<1>1. RuleSetInv /\ PairInv /\ MirrorInv => AlertsPaired
  <2> SUFFICES ASSUME RuleSetInv, PairInv, MirrorInv, pc = "pushed", KeepsWindow, slo.magic
               PROVE  AlertsPaired
    BY DEF AlertsPaired
  <2> DEFINE alert == pushed["slo_alert"]
  <2>1. DOMAIN Alerts = Severities
    BY BurnRateFound, Severity DEF Alerts, hasWindows, Made
  <2>2. groups["slo_alert"] = Alerts /\ "slo_alert" \in DOMAIN groups
    BY DEF PairInv, Made, RuleSetInv
  <2>3. DOMAIN alert = Severities
    BY <2>1, <2>2 DEF MirrorInv, KeptGroups
  <2>4. \A s \in Severities : alert[s] = Kept(createMultiBurnRateAlert(s))
    BY <2>1, <2>2 DEF MirrorInv, KeptGroups, Alerts
  <2>5. ASSUME NEW s \in Severities
        PROVE  /\ alert[s].alert = s
               /\ alert[s].expr.short = Of(BurnRate(ShortWindow(s)))
               /\ alert[s].expr.long = Of(BurnRate(LongWindow(s)))
               /\ alert[s].expr.above = Tenths(Threshold(s))
               /\ alert[s].labels.severity = AlertSeveritiesByTool(alertingTool)[s]
    <3>1. /\ createMultiBurnRateAlert(s).alert = s
          /\ createMultiBurnRateAlert(s).expr.short = Of(BurnRate(ShortWindow(s)))
          /\ createMultiBurnRateAlert(s).expr.long = Of(BurnRate(LongWindow(s)))
          /\ createMultiBurnRateAlert(s).expr.above = Tenths(Threshold(s))
          /\ createMultiBurnRateAlert(s).labels.severity
                = AlertSeveritiesByTool(alertingTool)[s]
      BY DEF createMultiBurnRateAlert
    <3>2. \A r : Kept(r).alert = r.alert /\ Kept(r).expr = r.expr /\ Kept(r).labels = r.labels
      BY DEF Kept
    <3>3. alert[s] = Kept(createMultiBurnRateAlert(s))
      BY <2>4
    <3> HIDE DEF alert
    <3> QED BY <3>1, <3>2, <3>3
  <2>6. ASSUME NEW s \in Severities
        PROVE  LooksAt(alert[s].expr.short, Alerting[s][1])
               /\ LooksAt(alert[s].expr.long, Alerting[s][2])
    BY <2>5, Severity, AlertLooks
  <2>7. ASSUME NEW s \in Severities
        PROVE  Cardinality({t \in DOMAIN alert : alert[t].alert = s}) = 1
    <3>1. {t \in DOMAIN alert : alert[t].alert = s} = {s}
      BY <2>3, <2>5
    <3> QED BY <3>1, FS_Singleton
  <2>8. ASSUME NEW s \in Severities, alertingTool \in {"opsgenie", "pagerduty"},
               NEW t \in Severities \ {s}
        PROVE  alert[t].labels.severity # alert[s].labels.severity
    BY <2>5, <2>8, SeverityOfTool
  <2>9. DOMAIN Alerting = Severities
    BY DEF Alerting, Severities
  <2>10. ASSUME NEW severity \in Severities, NEW s \in DOMAIN alert, alert[s].alert = severity
         PROVE  s = severity /\ s \in Severities
    BY <2>3, <2>5, <2>10
  <2> QED
    BY <2>3, <2>5, <2>6, <2>7, <2>8, <2>9, <2>10, ThresholdOf DEF AlertsPaired
<1> QED BY <1>1, RuleSetInvariant, PairInvariant, MirrorInvariant, PTL
=============================================================================

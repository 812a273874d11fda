-------------------------- MODULE MimirRuleGroups --------------------------
(***************************************************************************)
(* The way of the rules from a PrometheusRule over the MimirRule to Mimir: *)
(* NewMimirRuleGroups of internal/helpers/mimirtool_helper.go and          *)
(* createMimirRuleGroupAPI of the MimirRule controller.                    *)
(*                                                                         *)
(* Groups are named by the last part of their name; a group is a function  *)
(* from the places of its rules to the rules. Fields a rule does not have  *)
(* are empty.                                                              *)
(***************************************************************************)
NoText == ""

(* Variant of AlertNode: the alert fires at once.                          *)
AlertNodeAtOnce(r) == [record |-> NoText, alert |-> r.alert, expr |-> r.expr, for |-> NoText,
                       labels |-> r.labels]

(* The annotations of an alert are not kept.                               *)
AlertNode(r) == [record |-> NoText, alert |-> r.alert, expr |-> r.expr, for |-> r.for,
                 labels |-> r.labels]

RecordNode(r) == [record |-> r.record, alert |-> NoText, expr |-> r.expr, for |-> NoText,
                  labels |-> r.labels]

MimirRuleNode(r) ==
    IF r.record = NoText /\ r.alert # NoText THEN AlertNode(r) ELSE RecordNode(r)

NewMimirRuleGroups(groups) ==
    [g \in DOMAIN groups |-> [j \in DOMAIN groups[g] |-> MimirRuleNode(groups[g][j])]]

(* What the ruler evaluates.                                               *)
RulerNode(r) == IF r.alert = NoText THEN RecordNode(r) ELSE AlertNode(r)

(* A duration that does not parse ends the call without an error, and the  *)
(* group is not sent; SetupRules writes a constant that does.              *)
createMimirRuleGroupAPI(group) == [j \in DOMAIN group |-> RulerNode(group[j])]
=============================================================================

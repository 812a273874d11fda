----------------------------- MODULE MCRuleSet -----------------------------
EXTENDS MonitoringRuleSet, TLC
MCLabelings == {[team |-> "infra"], [window |-> "w"], [__meta__ |-> "m"],
                [service |-> "mimir", team |-> "infra"]}
MCEnvs == {<<>>,
           "OSKO_ALERTING_TOOL" :> "pagerduty" @@ "DEFAULT_BASE_WINDOW" :> "24h",
           "OSKO_ALERTING_TOOL" :> "" @@ "OSKO_ALERTING_SEVERITY_HIGH" :> "sev"
               @@ "DEFAULT_BASE_WINDOW" :> "often",
           "ABR_PAGE_LONG_WINDOW" :> "five" @@ "ABR_TICKET_LONG_WINDOW" :> "0.04"}
MCFloats == "0.04" :> 4
MCDurations == "24h" :> "1d"
=============================================================================

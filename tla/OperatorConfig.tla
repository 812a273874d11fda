--------------------------- MODULE OperatorConfig ---------------------------
(***************************************************************************)
(* The configuration of the operator: internal/config. Environment         *)
(* variables are read when the process starts, and those of a custom       *)
(* alerting tool whenever an alert is made; they do not change meanwhile.  *)
(***************************************************************************)
EXTENDS Naturals

CONSTANTS
    Envs,        \* environments: functions from the variables that exist
    Floats,      \* the texts that ParseFloat accepts -> hundredths
    Durations    \* the texts that ParseDuration accepts -> as model.Duration prints it

VARIABLE env

ASSUME EnvAssumption ==
    /\ \A t \in DOMAIN Floats : Floats[t] \in Nat
    /\ \A e \in Envs : DOMAIN e \subseteq STRING
----------------------------------------------------------------------------
(* A variable that is set to the empty text exists.                        *)
GetEnv(key, default) == IF key \in DOMAIN env THEN env[key] ELSE default

(* A text that does not parse counts as none.                              *)
Parsed(key, parse, default) ==
    IF key \in DOMAIN env
    THEN IF env[key] \in DOMAIN parse THEN parse[env[key]] ELSE default
    ELSE default

GetEnvAsFloat64(key, default) == Parsed(key, Floats, default)
GetEnvAsDuration(key, default) == Parsed(key, Durations, default)

(* Config; the burn rates in hundredths.                                   *)
Cfg ==
    [AlertingTool       |-> GetEnv("OSKO_ALERTING_TOOL", "opsgenie"),
     DefaultBaseWindow  |-> GetEnvAsDuration("DEFAULT_BASE_WINDOW", "5m"),
     PageShortWindow    |-> GetEnvAsFloat64("ABR_PAGE_SHORT_WINDOW", 1440),
     PageLongWindow     |-> GetEnvAsFloat64("ABR_PAGE_LONG_WINDOW", 600),
     TicketShortWindow  |-> GetEnvAsFloat64("ABR_TICKET_SHORT_WINDOW", 300),
     TicketLongWindow   |-> GetEnvAsFloat64("ABR_TICKET_LONG_WINDOW", 100)]
----------------------------------------------------------------------------
Severities == {"page_critical", "page_high", "ticket_high", "ticket_medium"}

Opsgenie == [page_critical |-> "P1", page_high |-> "P2",
             ticket_high |-> "P3", ticket_medium |-> "P4"]

Pagerduty == [page_critical |-> "SEV_1", page_high |-> "SEV_2",
              ticket_high |-> "SEV_3", ticket_medium |-> "SEV_4"]

(* Both high severities are set by one variable.                           *)
Custom == [page_critical |-> GetEnv("OSKO_ALERTING_SEVERITY_CRITICAL", "critical"),
           page_high     |-> GetEnv("OSKO_ALERTING_SEVERITY_HIGH", "high"),
           ticket_high   |-> GetEnv("OSKO_ALERTING_SEVERITY_HIGH", "medium"),
           ticket_medium |-> GetEnv("OSKO_ALERTING_SEVERITY_LOW", "low")]

(* A tool that is not known is a custom one.                               *)
AlertSeveritiesByTool(tool) ==
    CASE tool = "opsgenie" -> Opsgenie
      [] tool = "pagerduty" -> Pagerduty
      [] OTHER -> Custom
=============================================================================

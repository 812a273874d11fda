---------------------- MODULE PrometheusRuleController ----------------------
(***************************************************************************)
(* The PrometheusRule controller: PrometheusRuleReconciler.Reconcile of    *)
(* internal/controller/monitoring.coreos.com/prometheusrule_controller.go. *)
(***************************************************************************)
EXTENDS Cluster

VARIABLE prR   \* the reconcile in progress

(* pc: the next call; made: the PrometheusRule built from the SLO and the  *)
(* SLI that were read, whose resourceVersion is replaced before Update.    *)
PrIdle == [pc |-> "idle", made |-> Absent]

PrInit == prR = PrIdle

PrReturn == prR' = PrIdle /\ UNCHANGED queued
PrReturnError == prR' = PrIdle /\ Requeue("pr")

PrUnchanged == UNCHANGED <<store, behind, missed>> /\ UNCHANGED External
----------------------------------------------------------------------------
(* The rules generated from the cached SLO and SLI. The SLI of an inline   *)
(* indicator is built in memory and is not given its generated name.       *)
RulesFor(slo) ==
    [slo |-> slo.spec.gen,
     sli |-> IF slo.spec.ind = "ref" THEN cache["sli"].spec ELSE 0,
     magic |-> slo.spec.magic,
     named |-> slo.spec.ind = "ref"]

NoSli(slo) == slo.spec.ind = "ref" /\ cache["sli"] = Absent

(* The PrometheusRule is gone: nothing to do.                              *)
PrGone ==
    /\ prR.pc = "idle" /\ cache["pr"] = Absent
    /\ Dequeue("pr")
    /\ PrUnchanged /\ UNCHANGED <<prR, fresh, faults>>

(* The owner, looked up by name, is gone or its target is unusable: error, *)
(* with nothing written.                                                   *)
PrNoRules ==
    /\ prR.pc = "idle" /\ cache["pr"] # Absent /\ "pr" \in queued
    /\ IF cache["slo"] = Absent THEN TRUE
       ELSE /\ cache["slo"].spec.ind # "none" /\ ~NoSli(cache["slo"])
            /\ ~cache["slo"].spec.valid
    /\ PrUnchanged /\ UNCHANGED <<prR, fresh, queued, faults>>

PrBegin ==
    /\ prR.pc = "idle" /\ cache["pr"] # Absent /\ cache["slo"] # Absent
    /\ Dequeue("pr")
    /\ LET slo == cache["slo"]
       IN  \/ /\ slo.spec.ind = "none" \/ NoSli(slo)
              /\ prR' = [prR EXCEPT !.pc = IF NoSli(slo) THEN "noSli" ELSE "noInd"]
              /\ fresh' = ReadBy("pr", {"slo"})
           \/ /\ slo.spec.ind # "none" /\ ~NoSli(slo) /\ slo.spec.valid
              /\ prR' = [pc |-> "update", made |-> Child(RulesFor(slo), slo)]
              /\ UNCHANGED fresh
    /\ PrUnchanged /\ UNCHANGED faults

(* UpdateStatus on the SLO; its nil error is then returned, so that the    *)
(* request is not queued again.                                            *)
PrReportFailure ==
    /\ prR.pc \in {"noInd", "noSli"}
    /\ "slo" \in fresh["pr"]
    /\ Write("pr", "slo", [store["slo"] EXCEPT !.ready = "False", !.cond = "False"], {})
    /\ PrReturn
    /\ UNCHANGED faults /\ UNCHANGED External

(* Variant of UpdatePr: the finalizers of the stored object are copied.    *)
UpdatePrFinalizerKept ==
    /\ prR.pc = "update"
    /\ cache["pr"] # Absent /\ "pr" \notin behind
    /\ Write("pr", "pr", Updated("pr", [prR.made EXCEPT !.fin = store["pr"].fin]), {})
    /\ PrReturn \/ PrReturnError
    /\ UNCHANGED faults /\ UNCHANGED External

(* One attempt of RetryOnConflict: Get takes the resourceVersion, and the  *)
(* object built at the start of the reconcile is stored over whatever is   *)
(* there. Succeeds only when the cache is up to date. The SLO's status is  *)
(* then sent back as it was read: no change, but possibly an error.        *)
UpdatePr ==
    /\ prR.pc = "update"
    /\ cache["pr"] # Absent /\ "pr" \notin behind
    /\ Write("pr", "pr", Updated("pr", prR.made), {})
    /\ PrReturn \/ PrReturnError
    /\ UNCHANGED faults /\ UNCHANGED External

PrFault == faults < MaxFaults /\ faults' = faults + 1

(* The attempts are used up, the object is gone, or the call fails.        *)
PrCallFails ==
    /\ \/ /\ prR.pc = "noSli"
          /\ ("slo" \notin fresh["pr"] /\ UNCHANGED faults) \/ PrFault
       \/ /\ prR.pc = "update"
          /\ ((cache["pr"] = Absent \/ "pr" \in behind) /\ UNCHANGED faults) \/ PrFault
    /\ PrReturnError
    /\ fresh' = Forgets("pr")
    /\ PrUnchanged

(* With no SLI named at all, a failing status update is reported through a *)
(* Recorder that main never sets: the operator dies of a nil dereference.  *)
PrPanics ==
    /\ prR.pc = "noInd"
    /\ ("slo" \notin fresh["pr"] /\ UNCHANGED faults) \/ PrFault

PrStep ==
    \/ PrGone \/ PrNoRules \/ PrBegin
    \/ PrReportFailure \/ UpdatePr \/ PrCallFails
============================================================================

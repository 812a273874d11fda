------------------------ MODULE MimirRuleController ------------------------
(***************************************************************************)
(* The MimirRule controller: MimirRuleReconciler.Reconcile of              *)
(* internal/controller/osko/mimirrule_controller.go.                       *)
(***************************************************************************)
EXTENDS Cluster

VARIABLE mrR   \* the reconcile in progress

(* pc: the next call; rules, prFin: of the PrometheusRule held; spec,      *)
(* mrFin: of the MimirRule held; uid: of the owner read; todo: the rule    *)
(* groups still to push or delete.                                         *)
MrIdle == [pc |-> "idle", rules |-> Absent, prFin |-> FALSE, spec |-> Absent,
           mrFin |-> FALSE, uid |-> 0, todo |-> <<>>]

MrInit == mrR = MrIdle

MrReturnError == mrR' = MrIdle /\ Requeue("mr") /\ UNCHANGED timer

MrUnchanged == UNCHANGED <<cache, clock, deletes>>
----------------------------------------------------------------------------
(* Variant of WantedSpec: the connection details are not copied.           *)
WantedSpecNoTenant(r) == [pr |-> r.rules, ds |-> Absent]

(* Where a reconcile stands after a call, the steps that need no call      *)
(* being skipped. "done" returns with RequeueAfter, "end" without.         *)
WantedSpec(r) == [pr |-> r.rules, ds |-> r.spec.ds]

AfterFinalizers(r) ==
    [r EXCEPT !.pc = IF r.spec = WantedSpec(r) THEN "done" ELSE "update"]

AfterMrFinalizer(r) ==
    IF r.prFin THEN AfterFinalizers(r) ELSE [r EXCEPT !.pc = "addPrFin"]

AfterPush(r) ==
    IF r.mrFin THEN AfterMrFinalizer(r) ELSE [r EXCEPT !.pc = "addMrFin"]

AfterMrRelease(r) == [r EXCEPT !.pc = IF r.prFin THEN "dropPrFin" ELSE "end"]

AfterCleanup(r) ==
    IF r.mrFin THEN [r EXCEPT !.pc = "dropMrFin"] ELSE AfterMrRelease(r)

(* Variant of Goes: the next reconcile is not asked for.                   *)
GoesOnce(r) ==
    /\ mrR' = IF r.pc \in {"done", "end"} THEN MrIdle ELSE r
    /\ UNCHANGED <<timer, queued>>

Goes(r) ==
    /\ mrR' = IF r.pc \in {"done", "end"} THEN MrIdle ELSE r
    /\ timer' = (timer \/ r.pc = "done")
    /\ UNCHANGED queued
----------------------------------------------------------------------------
(* Without a PrometheusRule or a MimirRule there is nothing to do, not     *)
(* even for a MimirRule that waits for its finalizer.                      *)
MrIgnored ==
    /\ mrR.pc = "idle"
    /\ cache["pr"] = Absent \/ cache["mr"] = Absent
    /\ Dequeue("mr")
    /\ MrUnchanged /\ UNCHANGED <<mrR, store, behind, missed, fresh, timer, mimir, faults>>

(* The owner is read only if the MimirRule is not being deleted.           *)
MrNoOwner ==
    /\ mrR.pc = "idle" /\ "mr" \in queued
    /\ cache["pr"] # Absent /\ cache["mr"] # Absent
    /\ ~cache["mr"].deleting /\ cache["slo"] = Absent
    /\ MrUnchanged
    /\ UNCHANGED <<mrR, store, behind, missed, fresh, queued, timer, mimir, faults>>

MrBegin ==
    /\ mrR.pc = "idle"
    /\ cache["pr"] # Absent /\ cache["mr"] # Absent
    /\ Dequeue("mr")
    /\ LET pr == cache["pr"]  mr == cache["mr"]
           read == [pc |-> "delete", rules |-> pr.spec, prFin |-> pr.fin,
                    spec |-> mr.spec, mrFin |-> mr.fin, uid |-> 0,
                    todo |-> RuleGroups(pr.spec)]
       IN  \/ /\ mr.deleting
              /\ mrR' = read
           \/ /\ ~mr.deleting /\ cache["slo"] # Absent
              /\ mrR' = [read EXCEPT !.pc = "push", !.uid = cache["slo"].uid]
    /\ MrUnchanged /\ UNCHANGED <<store, behind, missed, fresh, timer, mimir, faults>>

(* The tenant's rule group is created or replaced.                         *)
Push ==
    /\ mrR.pc = "push"
    /\ mimir' = [mimir EXCEPT ![mrR.spec.ds][Head(mrR.todo)] = mrR.rules]
    /\ LET r == [mrR EXCEPT !.todo = Tail(@)]
       IN  Goes(IF r.todo = <<>> THEN AfterPush(r) ELSE r)
    /\ MrUnchanged /\ UNCHANGED <<store, behind, missed, fresh, faults>>

(* Variant of DeleteGroup: the request goes to a namespace that is not the *)
(* one the groups were pushed to.                                          *)
DeleteGroupElsewhere ==
    /\ mrR.pc = "delete"
    /\ mimir' = mimir
    /\ LET r == [mrR EXCEPT !.todo = Tail(@)]
       IN  Goes(IF r.todo = <<>> THEN AfterCleanup(r) ELSE r)
    /\ MrUnchanged /\ UNCHANGED <<store, behind, missed, fresh, faults>>

(* Mimir answers 404 for a group it does not have: see MrCallFails.        *)
DeleteGroup ==
    /\ mrR.pc = "delete"
    /\ mimir[mrR.spec.ds][Head(mrR.todo)] # Absent
    /\ mimir' = [mimir EXCEPT ![mrR.spec.ds][Head(mrR.todo)] = Absent]
    /\ LET r == [mrR EXCEPT !.todo = Tail(@)]
       IN  Goes(IF r.todo = <<>> THEN AfterCleanup(r) ELSE r)
    /\ MrUnchanged /\ UNCHANGED <<store, behind, missed, fresh, faults>>
----------------------------------------------------------------------------
(* Variant of Attempt: an old copy is stored, whatever was stored since.   *)
AttemptAnyVersion(pc, k) == mrR.pc = pc /\ cache[k] # Absent /\ store[k] # Absent

(* RetryOnConflict: each attempt reads the object from the cache and       *)
(* updates it; it succeeds only when the cache is up to date.              *)
Attempt(pc, k) == mrR.pc = pc /\ cache[k] # Absent /\ k \notin behind

Stores(k, o) == Write("mr", k, o, {}) /\ MrUnchanged /\ UNCHANGED <<mimir, faults>>

AddMrFinalizer ==
    /\ Attempt("addMrFin", "mr")
    /\ Stores("mr", [cache["mr"] EXCEPT !.fin = TRUE])
    /\ Goes(AfterMrFinalizer([mrR EXCEPT !.spec = cache["mr"].spec]))

AddPrFinalizer ==
    /\ Attempt("addPrFin", "pr")
    /\ Stores("pr", [cache["pr"] EXCEPT !.fin = TRUE])
    /\ Goes(AfterFinalizers([mrR EXCEPT !.rules = cache["pr"].spec]))

(* The attempt finds the finalizer in the cache and sends nothing.         *)
FinalizerThere ==
    /\ \/ /\ mrR.pc = "addMrFin" /\ cache["mr"] # Absent
          /\ cache["mr"].fin
          /\ Goes(AfterMrFinalizer([mrR EXCEPT !.spec = cache["mr"].spec]))
       \/ /\ mrR.pc = "addPrFin" /\ cache["pr"] # Absent
          /\ cache["pr"].fin
          /\ Goes(AfterFinalizers([mrR EXCEPT !.rules = cache["pr"].spec]))
    /\ MrUnchanged /\ UNCHANGED <<store, behind, missed, fresh, mimir, faults>>

DropMrFinalizer ==
    /\ Attempt("dropMrFin", "mr")
    /\ Stores("mr", [cache["mr"] EXCEPT !.fin = FALSE])
    /\ Goes(AfterMrRelease(mrR))

DropPrFinalizer ==
    /\ Attempt("dropPrFin", "pr")
    /\ Stores("pr", [cache["pr"] EXCEPT !.fin = FALSE])
    /\ Goes([mrR EXCEPT !.pc = "end"])

(* The new MimirRule carries no finalizer, and replaces the stored one.    *)
UpdateMr ==
    /\ Attempt("update", "mr")
    /\ Stores("mr", Updated("mr", Child(WantedSpec(mrR), [uid |-> mrR.uid])))
    /\ Goes([MrIdle EXCEPT !.pc = "ready"])

MarkMrReady ==
    /\ Attempt("ready", "mr")
    /\ Stores("mr", [cache["mr"] EXCEPT !.ready = "True"])
    /\ Goes([MrIdle EXCEPT !.pc = "done"])
----------------------------------------------------------------------------
MrFault == faults < MaxFaults /\ faults' = faults + 1

Retried == [addMrFin |-> "mr", addPrFin |-> "pr", dropMrFin |-> "mr",
            dropPrFin |-> "pr", update |-> "mr", ready |-> "mr"]

(* The attempts are used up or the object is gone; a group to delete is    *)
(* not in Mimir; or the call fails for another reason.                     *)
MrRefused ==
    \/ /\ mrR.pc \in DOMAIN Retried
       /\ cache[Retried[mrR.pc]] = Absent \/ Retried[mrR.pc] \in behind
    \/ /\ mrR.pc = "delete"
       /\ mimir[mrR.spec.ds][Head(mrR.todo)] = Absent

MrCallFails ==
    /\ mrR.pc # "idle"
    /\ (MrRefused /\ UNCHANGED faults) \/ MrFault
    /\ MrReturnError
    /\ MrUnchanged /\ UNCHANGED <<store, behind, missed, fresh, mimir>>

(* A call to Mimir takes effect and its reply is lost: the reconcile takes *)
(* it for failed, and will repeat a push and find a group already gone.    *)
MrReplyLost ==
    /\ mrR.pc \in {"push", "delete"}
    /\ MrFault
    /\ mimir' = [mimir EXCEPT ![mrR.spec.ds][Head(mrR.todo)] =
                   IF mrR.pc = "push" THEN mrR.rules ELSE Absent]
    /\ MrReturnError
    /\ MrUnchanged /\ UNCHANGED <<store, behind, missed, fresh>>

(* When Update failed for another reason than a conflict, the Ready field  *)
(* of the copy read last is set to "False" before the error is returned.   *)
MrUpdateFails ==
    /\ Attempt("update", "mr")
    /\ MrFault
    /\ Write("mr", "mr", [cache["mr"] EXCEPT !.ready = "False"], {})
    /\ MrReturnError
    /\ MrUnchanged /\ UNCHANGED mimir

MrStep ==
    \/ MrIgnored \/ MrNoOwner \/ MrBegin
    \/ Push \/ DeleteGroup
    \/ AddMrFinalizer \/ AddPrFinalizer \/ FinalizerThere
    \/ DropMrFinalizer \/ DropPrFinalizer
    \/ UpdateMr \/ MarkMrReady
    \/ MrCallFails \/ MrReplyLost \/ MrUpdateFails
============================================================================

--------------------------- MODULE SLOController ---------------------------
(***************************************************************************)
(* The SLO controller: SLOReconciler.Reconcile of                          *)
(* internal/controller/openslo/slo_controller.go.                          *)
(*                                                                         *)
(* Every call to the API server is a step. Reads that follow each other    *)
(* with no write in between are one step: they come from caches that lag   *)
(* independently.                                                          *)
(***************************************************************************)
EXTENDS Cluster

VARIABLE sloR   \* the reconcile in progress

(* pc: the next call; spec, uid: of the SLO read; sli: the text of its     *)
(* indicator; ds: the tenant of its Datasource; made: the child object     *)
(* held between Create and Update.                                         *)
SloIdle == [pc |-> "idle", spec |-> Absent, uid |-> 0, sli |-> 0,
            ds |-> Absent, made |-> Absent]

SloInit == sloR = SloIdle
----------------------------------------------------------------------------
(* What Reconcile does once the SLI is known: create the first missing     *)
(* child, or report success. A target that CreatePrometheusRule rejects is *)
(* noticed only while there is no PrometheusRule.                          *)
ChildrenStep(r) ==
    LET rules == [slo |-> r.spec.gen, sli |-> r.sli, magic |-> r.spec.magic,
                  named |-> TRUE]
        make(pc, o) == [r EXCEPT !.pc = pc, !.made = o]
    IN  IF cache["pr"] = Absent
        THEN IF r.spec.valid THEN make("createPr", Child(rules, r))
             ELSE [r EXCEPT !.pc = "fail"]
        ELSE IF cache["mr"] = Absent
        THEN make("createMr", Child([pr |-> cache["pr"].spec, ds |-> r.ds], r))
        ELSE IF r.spec.magic /\ cache["amc"] = Absent THEN make("createAmc", New(0, 0))
        ELSE [r EXCEPT !.pc = "markReady"]

(* The Datasource, then the SLI: referenced, or made from the indicator.   *)
DependenciesStep(r) ==
    LET d == [r EXCEPT !.ds = cache["ds"].spec]
    IN  IF cache["ds"] = Absent THEN [r EXCEPT !.pc = "noDs"]
        ELSE IF r.spec.ind = "ref" /\ cache["sli"] # Absent
        THEN ChildrenStep([d EXCEPT !.sli = cache["sli"].spec])
        ELSE IF r.spec.ind = "inline"
        THEN IF cache["inl"] = Absent THEN [d EXCEPT !.pc = "createInl"]
             ELSE IF cache["inl"].spec # r.spec.gen THEN [d EXCEPT !.pc = "updateInl"]
             ELSE ChildrenStep(d)
        ELSE [r EXCEPT !.pc = "fail"]

SloBegin ==
    /\ sloR.pc = "idle"
    /\ Dequeue("slo")
    /\ LET s == cache["slo"]
           read == [SloIdle EXCEPT !.spec = s.spec, !.uid = s.uid]
       IN  IF s = Absent \/ (s.deleting /\ ~s.fin)
           THEN UNCHANGED <<sloR, fresh>>
           ELSE /\ fresh' = ReadBy("slo", {"slo", "inl"})
                /\ sloR' = IF s.deleting THEN [read EXCEPT !.pc = "release"]
                           ELSE IF ~s.fin THEN [read EXCEPT !.pc = "adopt"]
                           ELSE DependenciesStep(read)
    /\ UNCHANGED <<store, behind, missed, faults>>
    /\ UNCHANGED External
----------------------------------------------------------------------------
Return == sloR' = SloIdle /\ UNCHANGED queued
ReturnError == sloR' = SloIdle /\ Requeue("slo")
Goto(pc) == sloR' = [sloR EXCEPT !.pc = pc, !.made = Absent] /\ UNCHANGED queued

(* Variant of At: an Update that carries no resourceVersion.               *)
AtAnyVersion(pc, k) == sloR.pc = pc /\ store[k] # Absent

(* The reconcile is at pc, and an Update of kind k it is about to send     *)
(* carries the newest resourceVersion.                                     *)
At(pc, k) == sloR.pc = pc /\ k \in fresh["slo"]

(* Variant of HeldSlo: the changed list of finalizers is not stored.       *)
HeldSloFinalizerKept(fin) == Updated("slo", [store["slo"] EXCEPT !.spec = sloR.spec])

(* The whole SLO that was read is sent back, with finalizer or without.    *)
HeldSlo(fin) == Updated("slo", [store["slo"] EXCEPT !.spec = sloR.spec, !.fin = fin])

Sends(k, o, holds) ==
    /\ Write("slo", k, o, holds)
    /\ UNCHANGED faults
    /\ UNCHANGED External

Release ==
    /\ At("release", "slo")
    /\ Sends("slo", HeldSlo(FALSE), {})
    /\ Return

Adopt ==
    /\ At("adopt", "slo")
    /\ Sends("slo", HeldSlo(TRUE), {})
    /\ ReturnError     \* Requeue: true

(* Variant of NoDatasource: a missing Datasource is not held against the   *)
(* SLO.                                                                    *)
NoDatasourceReady ==
    /\ At("noDs", "slo")
    /\ Sends("slo", [store["slo"] EXCEPT !.ready = "True"], {})
    /\ ReturnError

(* Variant of NoDatasource: the reconcile ends without an error.           *)
NoDatasourceNoRetry ==
    /\ At("noDs", "slo")
    /\ Sends("slo", [store["slo"] EXCEPT !.ready = "False"], {})
    /\ Return

(* A missing Datasource changes the Ready field and not the condition.     *)
NoDatasource ==
    /\ At("noDs", "slo")
    /\ Sends("slo", [store["slo"] EXCEPT !.ready = "False"], {})
    /\ ReturnError

(* No SLI, or a child could not be built or created.                       *)
ReportFailure ==
    /\ At("fail", "slo")
    /\ Sends("slo", [store["slo"] EXCEPT !.ready = "False", !.cond = "False"], {})
    /\ ReturnError

ReportSuccess ==
    /\ At("markReady", "slo")
    /\ Sends("slo", [store["slo"] EXCEPT !.ready = "True", !.cond = "True"], {})
    /\ Return
----------------------------------------------------------------------------
(* createOrUpdateInlineSLI; the owner reference is set before Create and   *)
(* is not a controller reference.                                          *)
CreateInline ==
    /\ sloR.pc = "createInl"
    /\ store["inl"] = Absent
    /\ Sends("inl", [New(sloR.spec.gen, 0) EXCEPT !.owner = sloR.uid],
             fresh["slo"])
    /\ Goto("children")

UpdateInline ==
    /\ At("updateInl", "inl")
    /\ Sends("inl", [store["inl"] EXCEPT !.spec = sloR.spec.gen], fresh["slo"])
    /\ Goto("children")

LookAtChildren ==
    /\ sloR.pc = "children"
    /\ sloR' = ChildrenStep(sloR)
    /\ UNCHANGED <<store, behind, missed, fresh, queued, faults>>
    /\ UNCHANGED External

Create(pc, k, next) ==
    /\ sloR.pc = pc
    /\ store[k] = Absent
    /\ Sends(k, sloR.made, fresh["slo"] \cup {k})
    /\ sloR' = [sloR EXCEPT !.pc = next]
    /\ UNCHANGED queued

(* SetOwnerReference turns the controller reference of the object that was *)
(* created into a plain one.                                               *)
Own(pc, k, next) ==
    /\ At(pc, k)
    /\ Sends(k, Updated(k, [sloR.made EXCEPT !.owner = sloR.uid, !.ctrl = FALSE]),
             fresh["slo"])
    /\ Goto(next)

CreatePr  == Create("createPr", "pr", "ownPr")
OwnPr     == Own("ownPr", "pr", "prDone")
CreateMr  == Create("createMr", "mr", "ownMr")
OwnMr     == Own("ownMr", "mr", "mrDone")
CreateAmc == Create("createAmc", "amc", "ownAmc")
OwnAmc    == Own("ownAmc", "amc", "markReady")

(* The Ready field after a child was created; not the condition.           *)
PrDone ==
    /\ At("prDone", "slo")
    /\ Sends("slo", [store["slo"] EXCEPT !.ready = "True"], {})
    /\ Return

MrDone ==
    /\ At("mrDone", "slo")
    /\ Sends("slo", [store["slo"] EXCEPT !.ready = "True"], fresh["slo"])
    /\ Goto("mrReady")

MrReady ==
    /\ At("mrReady", "mr")
    /\ Sends("mr", [store["mr"] EXCEPT !.ready = "True"], {})
    /\ Return
----------------------------------------------------------------------------
(* A call that fails: by conflict, because the held copy is not the newest *)
(* version or the object exists already; or for any other reason.          *)
WritesTo ==
    [release |-> "slo", adopt |-> "slo", noDs |-> "slo", fail |-> "slo",
     markReady |-> "slo", createInl |-> "inl", updateInl |-> "inl",
     createPr |-> "pr", ownPr |-> "pr", prDone |-> "slo",
     createMr |-> "mr", ownMr |-> "mr", mrDone |-> "slo", mrReady |-> "mr",
     mrFailed |-> "slo", createAmc |-> "amc", ownAmc |-> "amc"]

Creating == {"createInl", "createPr", "createMr", "createAmc"}

Conflict ==
    LET k == WritesTo[sloR.pc]
    IN  /\ IF sloR.pc \in Creating THEN store[k] # Absent ELSE k \notin fresh["slo"]
        /\ UNCHANGED faults

Fault == faults < MaxFaults /\ faults' = faults + 1

(* Variant of AfterFailure: the error of an Update that removes the        *)
(* finalizer is dropped.                                                   *)
AfterFailureReleaseDropped ==
    \/ /\ sloR.pc \in {"createInl", "updateInl", "createPr", "mrFailed"}
       /\ Goto("fail") /\ UNCHANGED fresh
    \/ /\ sloR.pc = "createMr"
       /\ Goto("mrFailed") /\ UNCHANGED fresh
    \/ /\ sloR.pc = "release"
       /\ Return /\ fresh' = Forgets("slo")
    \/ /\ sloR.pc \notin {"release", "createInl", "updateInl", "createPr", "createMr", "mrFailed"}
       /\ ReturnError /\ fresh' = Forgets("slo")

(* Where the reconcile goes on after a failed call: the error handlers of  *)
(* the creation calls write a status, the others return the error.         *)
AfterFailure ==
    \/ /\ sloR.pc \in {"createInl", "updateInl", "createPr", "mrFailed"}
       /\ Goto("fail") /\ UNCHANGED fresh
    \/ /\ sloR.pc = "createMr"
       /\ Goto("mrFailed") /\ UNCHANGED fresh
    \/ /\ sloR.pc \notin {"createInl", "updateInl", "createPr", "createMr", "mrFailed"}
       /\ ReturnError /\ fresh' = Forgets("slo")

CallFails ==
    /\ sloR.pc \in DOMAIN WritesTo
    /\ Conflict \/ Fault
    /\ AfterFailure
    /\ UNCHANGED <<store, behind, missed, cache, timer, mimir, clock, deletes>>

(* A MimirRule could not be created: the unchanged status is sent, and the *)
(* failure is reported only if that fails too.                             *)
MrFailed ==
    /\ At("mrFailed", "slo")
    /\ ReturnError
    /\ fresh' = Forgets("slo")
    /\ UNCHANGED <<store, behind, missed, faults>>
    /\ UNCHANGED External

SloStep ==
    \/ SloBegin
    \/ Release \/ Adopt \/ NoDatasource \/ ReportFailure \/ ReportSuccess
    \/ CreateInline \/ UpdateInline \/ LookAtChildren
    \/ CreatePr \/ OwnPr \/ PrDone
    \/ CreateMr \/ OwnMr \/ MrDone \/ MrReady \/ MrFailed
    \/ CreateAmc \/ OwnAmc
    \/ CallFails
============================================================================

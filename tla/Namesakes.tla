----------------------------- MODULE Namesakes -----------------------------
(***************************************************************************)
(* Two SLOs of one name in two Kubernetes namespaces, whose Datasources    *)
(* name the same Mimir tenant: two instances of Osko. Their objects,       *)
(* caches, events and requests are apart. But the rule groups of both go   *)
(* to one Mimir namespace, "osko", under names made of the SLO's name      *)
(* alone: mimir is one variable. The MimirRule controller has one worker   *)
(* for both. One SLO is deleted, and its cleanup deletes what the other    *)
(* has pushed.                                                             *)
(***************************************************************************)
EXTENDS Naturals, Sequences

CONSTANTS
    Absent, Tenants, MaxDeletes,  \* as in Cluster
    MaxCrashes,                   \* bound on the operator's restarts
    LeavingShape, StayingShape    \* the specs of the two SLOs

VARIABLES
    mimir,     \* as in Cluster, for both
    deletes,   \* as in Cluster; the users delete objects of one of them only
    crashes,   \* number of the operator's restarts
    storeL, cacheL, behindL, missedL, freshL, queuedL, timerL, sloL, prL, mrL,
    storeS, cacheS, behindS, missedS, freshS, queuedS, timerS, sloS, prS, mrS

Everything == {"slo", "sli", "ds", "pr", "mr"}

(* The SLO that the users delete, and the one that stays: Osko, with what  *)
(* is proved of it. Nobody edits either, and of what may fail only the     *)
(* process does.                                                           *)
Leaving == INSTANCE NoticedProofs WITH
    Shapes <- {LeavingShape}, Starts <- {Everything}, Editable <- {},
    Deletable <- {"slo"}, MaxEdits <- 0, MaxFaults <- 0,
    clock <- 0, faults <- 0,
    store <- storeL, cache <- cacheL, behind <- behindL, missed <- missedL,
    fresh <- freshL, queued <- queuedL, timer <- timerL,
    sloR <- sloL, prR <- prL, mrR <- mrL

Staying == INSTANCE NoticedProofs WITH
    Shapes <- {StayingShape}, Starts <- {Everything}, Editable <- {},
    Deletable <- {}, MaxEdits <- 0, MaxDeletes <- 0, MaxFaults <- 0,
    clock <- 0, deletes <- 0, faults <- 0,
    store <- storeS, cache <- cacheS, behind <- behindS, missed <- missedS,
    fresh <- freshS, queued <- queuedS, timer <- timerS,
    sloR <- sloS, prR <- prS, mrR <- mrS

ASSUME NamesakesTenants == Tenants # {}
ASSUME NamesakesShapes == {LeavingShape, StayingShape} \subseteq Leaving!Shape
ASSUME NamesakesAbsent ==
    /\ Absent \notin Leaving!Content \cup Tenants
    /\ \A k \in Leaving!Kinds : Absent \notin Leaving!Object(k)
ASSUME NamesakesBounds == MaxDeletes \in Nat /\ MaxCrashes \in Nat

ofLeaving == <<storeL, cacheL, behindL, missedL, freshL, queuedL, timerL, sloL, prL, mrL>>
ofStaying == <<storeS, cacheS, behindS, missedS, freshS, queuedS, timerS, sloS, prS, mrS>>
vars == <<mimir, deletes, crashes, ofLeaving, ofStaying>>

(* Both have been served, and one of them pushed last.                     *)
Init ==
    /\ \E t \in Tenants :
          /\ Leaving!ObjectsInit(Everything, LeavingShape, t, TRUE)
          /\ Staying!ObjectsInit(Everything, StayingShape, t, TRUE)
          /\ mimir \in {Leaving!ServedAtStart(Everything, LeavingShape, t),
                        Staying!ServedAtStart(Everything, StayingShape, t)}
    /\ queuedL = {} /\ timerL = TRUE /\ queuedS = {} /\ timerS = TRUE
    /\ deletes = 0 /\ crashes = 0
    /\ Leaving!SloInit /\ Leaving!PrInit /\ Leaving!MrInit
    /\ Staying!SloInit /\ Staying!PrInit /\ Staying!MrInit
----------------------------------------------------------------------------
LeavingSlo == Leaving!SloCtl /\ UNCHANGED <<ofStaying, crashes>>
LeavingPr  == Leaving!PrCtl /\ UNCHANGED <<ofStaying, crashes>>

(* Variant of StayingMr: a second worker.                                  *)
StayingMrAtOnce == Staying!MrCtl /\ UNCHANGED <<ofLeaving, deletes, crashes>>

(* The one worker of the MimirRule controller.                             *)
LeavingMr == mrS.pc = "idle" /\ UNCHANGED <<ofStaying, crashes>> /\ Leaving!MrCtl
StayingMr == mrL.pc = "idle" /\ UNCHANGED <<ofLeaving, deletes, crashes>> /\ Staying!MrCtl

LeavingEnvironment == Leaving!Environment /\ UNCHANGED <<ofStaying, crashes>>

(* The objects of the SLO that stays change by its MimirRule reconciles    *)
(* only; its other two controllers, which never touch Mimir, rest.         *)
StayingEnvironment ==
    /\ UNCHANGED <<ofLeaving, sloS, prS, mrS, deletes, crashes>>
    /\ Staying!TimerFires \/ \E k \in {"pr", "mr"} : Staying!Deliver(k)

(* The process dies with the reconciles of both.                           *)
Crash ==
    /\ crashes < MaxCrashes /\ crashes' = crashes + 1
    /\ Leaving!Reboot /\ Staying!Reboot

Next ==
    \/ LeavingSlo \/ LeavingPr \/ LeavingMr \/ LeavingEnvironment
    \/ StayingMr \/ StayingEnvironment
    \/ Crash

Spec == Init /\ [][Next]_vars

(* The MimirRule controller takes each request in its turn, and the events *)
(* that it waits for arrive. The other controllers need not do anything.   *)
Fairness ==
    /\ SF_vars(LeavingMr) /\ SF_vars(StayingMr)
    /\ WF_vars(/\ UNCHANGED <<ofStaying, crashes, sloL, prL, mrL>>
               /\ \E k \in {"slo", "mr"} : Leaving!Deliver(k))
    /\ WF_vars(StayingEnvironment)

FairSpec == Spec /\ Fairness
----------------------------------------------------------------------------
(* When the SLO that the users deleted is gone, the other one is served    *)
(* again and stays so: whatever rule groups the cleanup took away or the   *)
(* last reconciles of the deleted SLO overwrote, the periodic reconcile of *)
(* the other's MimirRule pushes them once more.                            *)
Restored == <>[](storeL["slo"] = Absent => Staying!Served)

(* The safety half of it: the push that brings them back is always still   *)
(* to come, however often the process dies in the middle of one.           *)
StayingPushes == Staying!PushesGoOn

(* A finalizer of the deleted SLO's objects is given up only on a Mimir    *)
(* without the groups, although the other SLO pushes the same ones.        *)
CleanLeave == Leaving!CleanRelease
=============================================================================

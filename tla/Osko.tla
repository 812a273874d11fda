-------------------------------- MODULE Osko --------------------------------
(***************************************************************************)
(* The operator process: the SLO, PrometheusRule and MimirRule controllers *)
(* that cmd/main.go starts in one manager, on one cluster. Each has one    *)
(* worker, so that for one SLO each has at most one reconcile in progress. *)
(***************************************************************************)
EXTENDS SLOController, PrometheusRuleController, MimirRuleController

vars == <<clusterVars, sloR, prR, mrR>>

Init == ClusterInit /\ SloInit /\ PrInit /\ MrInit

Environment ==
    /\ Users \/ (\E k \in Kinds : Deliver(k) \/ Collect(k)) \/ TimerFires
    /\ UNCHANGED <<sloR, prR, mrR>>

SloCtl == SloStep /\ UNCHANGED <<prR, mrR>>
PrCtl  == PrStep /\ UNCHANGED <<sloR, mrR>>
MrCtl  == MrStep /\ UNCHANGED <<sloR, prR>>

(* The operator process dies, at any point of any reconcile, and is        *)
(* started again; so it is when the PrometheusRule controller panics.      *)
Reboot ==
    /\ Restart
    /\ sloR' = SloIdle /\ prR' = PrIdle /\ mrR' = MrIdle

Crash == Fault /\ Reboot
Panic == PrPanics /\ Reboot

Next == SloCtl \/ PrCtl \/ MrCtl \/ Environment \/ Crash \/ Panic

(* Workers take what is queued and their calls return, watch events and    *)
(* timers arrive, the garbage collector runs. The users and crashes are    *)
(* under no obligation.                                                    *)
Fairness ==
    /\ WF_vars(SloCtl) /\ WF_vars(PrCtl \/ Panic) /\ WF_vars(MrCtl)
    /\ \A k \in Kinds : WF_vars(Deliver(k) /\ UNCHANGED <<sloR, prR, mrR>>)
    /\ WF_vars((\E k \in Kinds : Collect(k)) /\ UNCHANGED <<sloR, prR, mrR>>)
    /\ WF_vars(TimerFires /\ UNCHANGED <<sloR, prR, mrR>>)

Spec == Init /\ [][Next]_vars

FairSpec == Spec /\ Fairness
----------------------------------------------------------------------------
ObjectsOK(objects) ==
    /\ objects = [k \in Kinds |-> objects[k]]
    /\ \A k \in Kinds : objects[k] \in Object(k) \cup {Absent}

(* What the variables of the cluster hold.                                 *)
TypeOK ==
    /\ ObjectsOK(store) /\ ObjectsOK(cache)
    /\ behind \subseteq Kinds /\ missed \subseteq behind
    /\ fresh \in [Controllers -> SUBSET Kinds]
    /\ queued \subseteq Controllers /\ timer \in BOOLEAN
    /\ mimir \in [Tenants -> [Groups -> Content \cup {Absent}]]
    /\ clock \in 0..MaxEdits /\ deletes \in 0..MaxDeletes /\ faults \in 0..MaxFaults

(* A user's edit of an SLO is never undone by the operator: the SLO's spec *)
(* changes only by a write of the users, however old the copy is that the  *)
(* SLO controller sends back to set or remove its finalizer.               *)
NoLostEdit ==
    [][store["slo"] # Absent /\ store'["slo"] # Absent
       /\ store'["slo"].spec # store["slo"].spec
         => clock' = clock + 1]_vars

(* The abstract specification that the operator implements as long as      *)
(* nobody deletes an object: RuleFlow, with the SLO's versions numbered    *)
(* from 1, and the SLI's from 0, which is also that of an inline one.      *)
Version(c) == IF c = Absent THEN <<0, 0>> ELSE <<c.slo + 1, c.sli>>

RulesIn(o) == IF o = Absent THEN Absent ELSE o.spec

MirroredIn(o) == IF o = Absent THEN Absent ELSE o.spec.pr

Written ==
    IF store["slo"] = Absent THEN <<0, 0>>
    ELSE <<store["slo"].spec.gen + 1,
           IF store["slo"].spec.ind = "ref" /\ store["sli"] # Absent
           THEN store["sli"].spec ELSE 0>>

Flow == INSTANCE RuleFlow WITH
    Places   <- Tenants \X Groups,
    written  <- Written,
    built    <- Version(RulesIn(store["pr"])),
    mirrored <- Version(MirroredIn(store["mr"])),
    served   <- [p \in Tenants \X Groups |-> Version(mimir[p[1]][p[2]])]

FlowSpec == Flow!Spec

(* The MimirRule controller gives its finalizer up only when Mimir has     *)
(* none of the rule groups of the PrometheusRule it read.                  *)
CleanRelease ==
    mrR.pc \in {"dropMrFin", "dropPrFin"} =>
        \A g \in GroupsOf(mrR.rules) : mimir[mrR.spec.ds][g] = Absent

(* The rules the users asked for.                                          *)
Serviceable ==
    /\ store["slo"] # Absent
    /\ store["slo"].spec.valid /\ store["slo"].spec.ind # "none"
    /\ store["slo"].spec.ind = "ref" => store["sli"] # Absent
    /\ store["ds"] # Absent

WantedRules(c) ==
    /\ c.slo = store["slo"].spec.gen
    /\ c.magic = store["slo"].spec.magic
    /\ store["slo"].spec.ind = "ref" => c.sli = store["sli"].spec

Served ==
    /\ store["pr"] # Absent /\ store["mr"] # Absent
    /\ WantedRules(store["pr"].spec)
    /\ store["mr"].spec.pr = store["pr"].spec
    /\ \A g \in GroupsOf(store["pr"].spec) :
          mimir[store["mr"].spec.ds][g] = store["pr"].spec
    /\ store["slo"].ready = "True"

(* Once the users stop editing, and if they deleted nothing, Mimir ends up *)
(* with the rules of the last edit of the SLO and of its SLI, and the SLO  *)
(* says it is ready. Edits of the SLI arrive although no controller        *)
(* watches it for the PrometheusRule.                                      *)
Converges == <>[](Serviceable => Served)

Terminating(k) == IF store[k] = Absent THEN FALSE ELSE store[k].deleting

(* An SLO whose deletion was asked for disappears.                         *)
DeletionCompletes ==
    Terminating("slo") ~> ~Terminating("slo")

(* A PrometheusRule that a user deletes comes back with the right rules.   *)
RulesComeBack ==
    <>[](Serviceable => store["pr"] # Absent /\ WantedRules(store["pr"].spec))

(* The SLO says it is ready only when the objects that make it so exist.   *)
ReadyIsEarned ==
    deletes = 0 /\ store["slo"] # Absent =>
        /\ store["slo"].ready = "True" => store["pr"] # Absent
        /\ store["slo"].cond = "True" => store["pr"] # Absent /\ store["mr"] # Absent

(* No edit of an SLO is forgotten: as long as the PrometheusRule has the   *)
(* rules of another write, an event is on its way, the PrometheusRule is   *)
(* queued or being reconciled, or the SLO says that it is not ready.       *)
EditNoticed ==
    store["slo"] # Absent /\ store["pr"] # Absent
    /\ store["pr"].spec.slo # store["slo"].spec.gen =>
        \/ "slo" \in behind \/ "pr" \in behind
        \/ "pr" \in queued \/ prR.pc # "idle"
        \/ store["slo"].ready = "False"

(* Nor is the deletion of an SLO, which waits for its finalizer.           *)
DeletionNoticed ==
    Terminating("slo") => "slo" \in behind \cup queued \/ sloR.pc = "release"

(* Nor are the objects that an SLO still lacks, as long as nothing is      *)
(* deleted: nobody watches the Datasource, and the SLI only by its name.   *)
CreationNoticed ==
    deletes = 0 /\ store["slo"] # Absent
    /\ (store["pr"] = Absent \/ store["mr"] = Absent) =>
        "slo" \in behind \cup queued \/ sloR.pc # "idle"

(* The periodic push of the rules never stops, as long as nothing is       *)
(* deleted: the next one is queued or the timer is set.                    *)
PushesGoOn ==
    deletes = 0 /\ store["mr"] # Absent =>
        timer \/ "mr" \in behind \cup queued \/ mrR.pc # "idle"
----------------------------------------------------------------------------
(* Deleting an SLO deletes its MimirRule (docs/OWNERSHIP-MODEL.md).        *)
CascadeCompletes ==
    store["slo"] = Absent ~> (store["mr"] = Absent \/ store["slo"] # Absent)

(* The MimirRule's finalizer sees to it that no rule group outlives the    *)
(* MimirRule in Mimir (DESIGN.md).                                         *)
NoOrphanedGroups ==
    store["mr"] = Absent /\ mrR.pc = "idle" =>
        \A t \in Tenants, g \in Groups : mimir[t][g] = Absent

(* The SLO controller watches the Datasource (DESIGN.md): the rules end up *)
(* with the tenant it names.                                               *)
FollowsDatasource ==
    <>[](Serviceable /\ store["mr"] # Absent => store["mr"].spec.ds = store["ds"].spec)
=============================================================================

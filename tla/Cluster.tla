------------------------------ MODULE Cluster ------------------------------
(***************************************************************************)
(* The world the osko controllers run in, seen from one SLO: the objects   *)
(* the Kubernetes API server stores for it, the informer cache all         *)
(* controllers of the operator share, their work queues, the rule groups   *)
(* held by Mimir, the people who edit objects, and the garbage collector.  *)
(*                                                                         *)
(* Kubernetes, controller-runtime and Mimir are not part of the            *)
(* repository: they are modelled from how its controllers use them.        *)
(***************************************************************************)
EXTENDS Naturals, Sequences

CONSTANTS
    Absent,        \* "there is no such object / no such rule group"
    Tenants,       \* Mimir tenants a Datasource may point to
    Shapes,        \* the SLO specs the users write, see Shape
    Starts,        \* what may exist when the operator starts, see ClusterInit
    Editable,      \* kinds the users create and edit
    Deletable,     \* kinds the users delete by hand
    MaxEdits,      \* bound on the users' creations and edits
    MaxDeletes,    \* bound on the users' deletions
    MaxFaults      \* bound on failed calls and operator restarts

(* One object per kind: the SLO, the three objects generated for it, the   *)
(* shared SLI it may reference, the SLI made from its inline indicator,    *)
(* and the Datasource its annotation names.                                *)
Kinds == {"slo", "pr", "mr", "amc", "sli", "inl", "ds"}

(* Written by the users, and generated for a plain SLO by the operator.    *)
Authored == {"slo", "sli", "ds"}
Generated == {"pr", "mr"}

Controllers == {"slo", "pr", "mr"}

(* The rule groups of one SLO, in the order SetupRules lists them: the     *)
(* recording groups, here one, then the alert group.                       *)
Groups == {"rec", "alert"}

(* What the users choose when they write an SLO: whether the magicAlerting *)
(* annotation is "true", where the indicator comes from, and whether the   *)
(* objective target can be turned into rules.                              *)
Shape == [magic : BOOLEAN, ind : {"ref", "inline", "none"}, valid : BOOLEAN]

(* gen numbers the users' writes; it identifies the text they wrote.       *)
SloSpec == [gen : Nat, magic : BOOLEAN, ind : {"ref", "inline", "none"}, valid : BOOLEAN]

(* Rules generated from write `slo` of the SLO and write `sli` of the      *)
(* shared SLI (0: inline). `named` is FALSE when the inline SLI had lost   *)
(* its generated name.                                                     *)
Content == [slo : Nat, sli : Nat, magic : BOOLEAN, named : BOOLEAN]

MimirRuleSpec == [pr : Content, ds : Tenants]

SpecOfKind == [slo |-> SloSpec, pr |-> Content, mr |-> MimirRuleSpec, amc |-> Nat,
               sli |-> Nat, inl |-> Nat, ds |-> Tenants]

Status == {"", "True", "False"}

(* uid: identity of an SLO; owner, ctrl: the uid in the owner reference,   *)
(* and whether that is a controller reference; deleting: DeletionTimestamp *)
(* is set; fin: has osko's finalizer; ready, cond: the status.             *)
Object(k) == [spec : SpecOfKind[k], uid : Nat, owner : Nat, ctrl : BOOLEAN,
              deleting : BOOLEAN, fin : BOOLEAN, ready : Status, cond : Status]

ASSUME TenantsAssumption == Tenants # {}
ASSUME ShapesAssumption == Shapes \subseteq Shape /\ Shapes # {}
ASSUME AbsentAssumption ==
    /\ Absent \notin Content \cup Tenants
    /\ \A k \in Kinds : Absent \notin Object(k)
ASSUME BoundsAssumption == MaxEdits \in Nat /\ MaxDeletes \in Nat /\ MaxFaults \in Nat
ASSUME StartsAssumption ==
    /\ Starts # {}
    /\ \A present \in Starts :
          present \subseteq Authored \/ present = Authored \cup Generated
ASSUME EditableAssumption == Editable \subseteq Authored
ASSUME DeletableAssumption == Deletable \subseteq Kinds

VARIABLES
    store,     \* the API server: the object of each kind, or Absent
    cache,     \* the informer cache: what the controllers' Get returns
    behind,    \* kinds whose newest version the cache has not received
    missed,    \* of those, the kinds whose events will enqueue the owner
    fresh,     \* per controller, the kinds of which it holds the newest version
    queued,    \* controllers with a request in their work queue
    timer,     \* the MimirRule controller asked for RequeueAfter
    mimir,     \* per tenant and rule group, the rules Mimir evaluates
    clock,     \* number of writes by the users
    deletes,   \* number of deletions by the users
    faults     \* number of failed calls and restarts

clusterVars == <<store, cache, behind, missed, fresh, queued, timer, mimir,
                 clock, deletes, faults>>

External == <<cache, timer, mimir, clock, deletes>>
----------------------------------------------------------------------------
New(spec, uid) ==
    [spec |-> spec, uid |-> uid, owner |-> 0, ctrl |-> FALSE,
     deleting |-> FALSE, fin |-> FALSE, ready |-> "", cond |-> ""]

(* A child object as the helpers build it: no finalizer, no status, and a  *)
(* controller reference to the SLO.                                        *)
Child(spec, slo) == [New(spec, 0) EXCEPT !.owner = slo.uid, !.ctrl = TRUE]

RuleGroups(content) == IF content.magic THEN <<"rec", "alert">> ELSE <<"rec">>

GroupsOf(content) == IF content.magic THEN Groups ELSE {"rec"}

Controlled(o) == IF o = Absent THEN FALSE ELSE o.ctrl

LiveUid == IF store["slo"] = Absent THEN 0 ELSE store["slo"].uid

(* A terminating object disappears with its last finalizer.                *)
Settle(o) ==
    IF o = Absent THEN Absent ELSE IF o.deleting /\ ~o.fin THEN Absent ELSE o

(* The API server stores o as the object of kind k at the request of c,    *)
(* after which c holds the newest version of the kinds in `holds`. A write *)
(* that changes nothing makes no new version and no event.                 *)
Write(c, k, o, holds) ==
    LET n == Settle(o)
    IN  /\ store' = [store EXCEPT ![k] = n]
        /\ behind' = IF n = store[k] THEN behind ELSE behind \cup {k}
        /\ missed' = IF n # store[k] /\ (Controlled(n) \/ Controlled(store[k]))
                     THEN missed \cup {k} ELSE missed
        /\ fresh' = [x \in Controllers |->
                       IF x = c THEN holds
                       ELSE IF n = store[k] THEN fresh[x] ELSE fresh[x] \ {k}]

(* An Update of the main resource: the identity, the deletion mark and the *)
(* status stay those of the stored object.                                 *)
Updated(k, o) ==
    [o EXCEPT !.uid = store[k].uid, !.deleting = store[k].deleting,
              !.ready = store[k].ready, !.cond = store[k].cond]

(* A client that has read the kinds ks from the cache holds the newest     *)
(* version of those the cache is up to date on.                            *)
ReadBy(c, ks) == [fresh EXCEPT ![c] = ks \ behind]

Forgets(c) == [fresh EXCEPT ![c] = {}]

Dequeue(c) == c \in queued /\ queued' = queued \ {c}

(* A reconcile that returns an error is queued again.                      *)
Requeue(c) == queued' = queued \cup {c}
----------------------------------------------------------------------------
(* findObjectsForSli looks for the SLI's name in the listed SLOs.          *)
ReferencesSli(slo) == IF slo = Absent THEN FALSE ELSE slo.spec.ind = "ref"

(* Variant of Watchers: without Owns(&PrometheusRule{}).                   *)
WatchersNotOfPr(k, notified) ==
    {c \in Controllers :
        \/ c = k
        \/ c = "pr" /\ k = "slo"
        \/ c = "slo" /\ k \in {"mr", "amc"} /\ notified
        \/ c = "slo" /\ k = "sli" /\ ReferencesSli(cache["slo"])}

(* Variant of Watchers: without the PrometheusRule manager's Watches.      *)
WatchersNotOfSlo(k, notified) ==
    {c \in Controllers :
        \/ c = k
        \/ c = "slo" /\ k \in {"pr", "mr", "amc"} /\ notified
        \/ c = "slo" /\ k = "sli" /\ ReferencesSli(cache["slo"])}

(* The controllers that the events on kind k enqueue: For, Owns (only      *)
(* through a controller reference) and Watches of the three managers.      *)
Watchers(k, notified) ==
    {c \in Controllers :
        \/ c = k
        \/ c = "pr" /\ k = "slo"
        \/ c = "slo" /\ k \in {"pr", "mr", "amc"} /\ notified
        \/ c = "slo" /\ k = "sli" /\ ReferencesSli(cache["slo"])}

(* The watch stream brings the newest version of kind k to the cache.      *)
Deliver(k) ==
    /\ k \in behind
    /\ cache' = [cache EXCEPT ![k] = store[k]]
    /\ behind' = behind \ {k}
    /\ missed' = missed \ {k}
    /\ queued' = queued \cup Watchers(k, k \in missed)
    /\ UNCHANGED <<store, fresh, timer, mimir, clock, deletes, faults>>

(* The RequeueAfter period of the MimirRule controller elapses; a request  *)
(* that is in the queue already absorbs it.                                *)
TimerFires ==
    /\ timer /\ "mr" \notin queued
    /\ timer' = FALSE
    /\ queued' = queued \cup {"mr"}
    /\ UNCHANGED <<store, cache, behind, missed, fresh, mimir, clock, deletes, faults>>

(* A deletion request: an object with a finalizer is only marked.          *)
Marked(o) == [o EXCEPT !.deleting = TRUE]

(* The garbage collector deletes a dependent whose owner is gone.          *)
Collect(k) ==
    /\ store[k] # Absent
    /\ store[k].owner # 0
    /\ store[k].owner # LiveUid
    /\ ~store[k].deleting
    /\ Write("gc", k, Marked(store[k]), {})
    /\ UNCHANGED <<queued, faults>>
    /\ UNCHANGED External
----------------------------------------------------------------------------
(* The users.                                                              *)
UserWrites(k, o) ==
    /\ clock < MaxEdits
    /\ clock' = clock + 1
    /\ Write("user", k, o, {})
    /\ UNCHANGED <<cache, queued, timer, mimir, deletes, faults>>

SpecOf(shape, gen) ==
    [gen |-> gen, magic |-> shape.magic, ind |-> shape.ind, valid |-> shape.valid]

NewSlo(shape, gen) == New(SpecOf(shape, gen), gen + 1)

CreateSlo ==
    /\ "slo" \in Editable
    /\ store["slo"] = Absent
    /\ \E shape \in Shapes :
          UserWrites("slo", NewSlo(shape, clock + 1))

EditSlo ==
    /\ "slo" \in Editable
    /\ store["slo"] # Absent
    /\ \E shape \in Shapes :
          UserWrites("slo", [store["slo"] EXCEPT !.spec = SpecOf(shape, clock + 1)])

(* Creates or edits the shared SLI.                                        *)
WriteSli ==
    /\ "sli" \in Editable
    /\ UserWrites("sli", New(clock + 1, 0))

(* Creates the Datasource or moves it to another tenant.                   *)
WriteDs ==
    /\ "ds" \in Editable
    /\ \E t \in Tenants :
          /\ New(t, 0) # store["ds"]
          /\ UserWrites("ds", New(t, 0))

UserDeletes(k) ==
    /\ k \in Deletable
    /\ deletes < MaxDeletes
    /\ store[k] # Absent
    /\ ~store[k].deleting
    /\ deletes' = deletes + 1
    /\ Write("user", k, Marked(store[k]), {})
    /\ UNCHANGED <<cache, queued, timer, mimir, clock, faults>>

Users ==
    \/ CreateSlo
    \/ EditSlo
    \/ WriteSli
    \/ WriteDs
    \/ \E k \in Kinds : UserDeletes(k)
----------------------------------------------------------------------------
(* The operator starts on an empty cluster, on one where the users have    *)
(* written some of their objects already, or, restarted after an upgrade,  *)
(* on one that its predecessor had brought up to date.                     *)
InitialRules(shape) == [slo |-> 0, sli |-> 0, magic |-> shape.magic,
                        named |-> shape.ind = "ref"]

InitialSlo(shape, made) ==
    IF made THEN [NewSlo(shape, 0) EXCEPT !.fin = TRUE, !.ready = "True", !.cond = "True"]
    ELSE NewSlo(shape, 0)

InitialObjects(shape, t, ctrl, made) ==
    [slo |-> InitialSlo(shape, made),
     sli |-> New(0, 0),
     ds  |-> New(t, 0),
     pr  |-> Child(InitialRules(shape), NewSlo(shape, 0)),
     mr  |-> [Child([pr |-> InitialRules(shape), ds |-> t], NewSlo(shape, 0))
                EXCEPT !.fin = TRUE, !.ready = "True", !.ctrl = ctrl],
     inl |-> [New(0, 0) EXCEPT !.owner = NewSlo(shape, 0).uid],
     amc |-> New(0, 0)]

(* What exists at the start: an inline indicator has its SLI by then.      *)
Initially(shape, present) ==
    present \cup (IF "pr" \in present /\ shape.ind = "inline" THEN {"inl"} ELSE {})

(* The objects that exist, and the caches, which have just listed them.    *)
ObjectsInit(present, shape, t, ctrl) ==
    /\ "pr" \in present => shape.valid /\ shape.ind # "none" /\ ~shape.magic
    /\ store = [k \in Kinds |-> IF k \in Initially(shape, present)
                                THEN InitialObjects(shape, t, ctrl, "pr" \in present)[k]
                                ELSE Absent]
    /\ cache = store
    /\ behind = {} /\ missed = {}
    /\ fresh = [c \in Controllers |-> {}]

(* The rule groups Mimir has from the predecessor.                         *)
ServedAtStart(present, shape, t) ==
    [u \in Tenants |-> [g \in Groups |->
        IF "mr" \in present /\ u = t /\ g \in GroupsOf(shape)
        THEN InitialRules(shape) ELSE Absent]]

(* Listing the objects enqueues them.                                      *)
ClusterInit ==
    /\ \E present \in Starts, shape \in Shapes, t \in Tenants, ctrl \in BOOLEAN :
          /\ ObjectsInit(present, shape, t, ctrl)
          /\ mimir = ServedAtStart(present, shape, t)
          /\ queued = (IF "slo" \in present THEN {"slo", "pr"} ELSE {})
                       \cup (present \cap {"pr", "mr"})
    /\ timer = FALSE
    /\ clock = 0 /\ deletes = 0 /\ faults = 0

(* The operator starts again: the caches are listed afresh, every listed   *)
(* object is enqueued, timers are lost. The controllers' own state is      *)
(* reset by the module that composes them.                                 *)
Restart ==
    /\ cache' = store
    /\ behind' = {} /\ missed' = {}
    /\ fresh' = [c \in Controllers |-> {}]
    /\ timer' = FALSE
    /\ queued' = UNION {Watchers(k, Controlled(store[k])) :
                         k \in {x \in Kinds \ {"sli"} : store[x] # Absent}}
    /\ UNCHANGED <<store, mimir, clock, deletes>>
============================================================================

-------------------- MODULE AlertManagerConfigController --------------------
(***************************************************************************)
(* The AlertManagerConfig controller, with what it works on:               *)
(* AlertManagerConfigReconciler.Reconcile and findObjectsForSecret of      *)
(* internal/controller/osko/alertmanagerconfig_controller.go.              *)
(*                                                                         *)
(* It shares nothing with the other controllers but the AlertManagerConfig *)
(* that the SLO controller creates, so it is modelled on its own. It is    *)
(* the only reader of Secrets and, here, of Datasources: `secret` and      *)
(* `tenantOf` are what its cache shows of them.                            *)
(***************************************************************************)
EXTENDS Naturals

CONSTANTS
    Absent,        \* "there is no such object / no such configuration"
    Amcs,          \* names of AlertManagerConfigs
    ByOperator,    \* those that the SLO controller creates
    Secrets,       \* names of Secrets
    SecretOf,      \* the name in spec.secretRef
    Datasources,
    DatasourceOf,  \* the name in the annotation osko.dev/datasourceRef
    Tenants,
    Movable,       \* Datasources that are moved or deleted once they exist
    MaxEdits,      \* bound on the users' edits
    MaxDeletes,    \* bound on deletions of AlertManagerConfigs
    MaxFaults      \* bound on failed calls and operator restarts

(* ready: status; owned: has the owner reference to its SLO.               *)
Amc == [fin : BOOLEAN, deleting : BOOLEAN, owned : BOOLEAN,
        ready : {"", "True", "False"}]

(* The texts of alertmanager.yaml are numbered from 1; 0 stands for a      *)
(* Secret without that key.                                                *)
Text == Nat \ {0}

(* A configuration in Mimir: the text that the Secret of an                *)
(* AlertManagerConfig held when it was pushed.                             *)
Config == [of : Amcs, text : Text]

ASSUME NamesAssumption ==
    /\ Amcs # {} /\ ByOperator \subseteq Amcs
    /\ SecretOf \in [Amcs -> Secrets]
    /\ DatasourceOf \in [Amcs -> Datasources]
    /\ Movable \subseteq Datasources
ASSUME AmcAbsentAssumption == Absent \notin Amc \cup Tenants \cup Config \cup Nat
ASSUME AmcBoundsAssumption ==
    MaxEdits \in Nat /\ MaxDeletes \in Nat /\ MaxFaults \in Nat

VARIABLES
    amcs,      \* the API server: each AlertManagerConfig, or Absent
    seen,      \* the informer cache of them
    behind,    \* those of which the cache has not received the newest version
    owning,    \* those just created, to be updated by the SLO controller
    tenantOf,  \* the tenant each Datasource points to, or Absent
    secret,    \* the content of each Secret, or Absent
    queue,     \* AlertManagerConfigs to reconcile
    amcR,      \* the reconcile in progress: next call, object, text to push
    newest,    \* its copy of the object is the newest version
    client,    \* r.MimirClient: the tenant it speaks for, or Absent
    config,    \* the Alertmanager configuration of each tenant in Mimir
    edits, deletes, faults

bounds == <<edits, deletes, faults>>
written == <<tenantOf, secret>>
vars == <<amcs, seen, behind, owning, written, queue, amcR, newest, client, config, bounds>>

Idle == [pc |-> "idle", amc |-> CHOOSE a \in Amcs : TRUE, text |-> 0]

(* Datasources and Secrets may be there when the operator starts.          *)
Init ==
    /\ amcs = [a \in Amcs |-> Absent] /\ seen = amcs
    /\ behind = {} /\ owning = {} /\ queue = {}
    /\ tenantOf \in [Datasources -> Tenants \cup {Absent}]
    /\ secret \in [Secrets -> {Absent, 1}]
    /\ amcR = Idle /\ newest = FALSE /\ client = Absent
    /\ config = [t \in Tenants |-> Absent]
    /\ edits = 0 /\ deletes = 0 /\ faults = 0
----------------------------------------------------------------------------
(* A terminating object disappears with its finalizer.                     *)
Settle(o) == IF o.deleting /\ ~o.fin THEN Absent ELSE o

(* The API server stores o as a. A write that changes nothing makes no new *)
(* version.                                                                *)
Write(a, o) ==
    LET n == Settle(o)
        changed == n # amcs[a]
    IN  /\ amcs' = [amcs EXCEPT ![a] = n]
        /\ behind' = IF changed THEN behind \cup {a} ELSE behind
        /\ owning' = IF changed THEN owning \ {a} ELSE owning

NoWrite == UNCHANGED <<amcs, behind, owning>>

(* What somebody else's write of a does to the copy the reconcile holds.   *)
Outdates(a) == newest' = (newest /\ amcR.amc # a)

Calls(pc, a, text) == [pc |-> pc, amc |-> a, text |-> text]

(* An Update, of the object or of its status, that carries the newest      *)
(* resourceVersion.                                                        *)
At(pc) == amcR.pc = pc /\ newest
----------------------------------------------------------------------------
(* Variant of CleanUp: without a client there is no way on.                *)
CleanUpNeedsClient(a, waiting) ==
    LET c == IF client = Absent THEN tenantOf[DatasourceOf[a]] ELSE client
    IN  /\ c # Absent
        /\ client' = c
        /\ amcR' = Calls("clean", a, 0)
        /\ queue' = waiting

(* The client left behind by an earlier reconcile serves to clean up; one  *)
(* for the object's own Datasource is made only if there is none. Without  *)
(* either, Mimir is left as it is.                                         *)
CleanUp(a, waiting) ==
    LET c == IF client = Absent THEN tenantOf[DatasourceOf[a]] ELSE client
    IN  /\ client' = c
        /\ amcR' = Calls(IF c = Absent THEN "dropFin" ELSE "clean", a, 0)
        /\ queue' = waiting

(* Variant of Configure: the text is pushed without a look at the key.     *)
ConfigureWithoutKey(a, waiting) ==
    LET t == tenantOf[DatasourceOf[a]]
        text == secret[SecretOf[a]]
    IN  \/ /\ t = Absent
           /\ amcR' = Idle /\ queue' = waiting \cup {a} /\ UNCHANGED client
        \/ /\ t # Absent /\ text # Absent
           /\ client' = t
           /\ amcR' = Calls("push", a, text) /\ queue' = waiting

(* Variant of Configure: a client that is there already serves again.      *)
ConfigureKeepingClient(a, waiting) ==
    LET t == tenantOf[DatasourceOf[a]]
        text == secret[SecretOf[a]]
    IN  \/ /\ t = Absent
           /\ amcR' = Idle /\ queue' = waiting \cup {a} /\ UNCHANGED client
        \/ /\ t # Absent /\ text \in {Absent, 0}
           /\ amcR' = Calls("reject", a, 0) /\ queue' = waiting /\ UNCHANGED client
        \/ /\ t # Absent /\ text \notin {Absent, 0}
           /\ client' = IF client = Absent THEN t ELSE client
           /\ amcR' = Calls("push", a, text) /\ queue' = waiting

(* A missing Datasource is an error, after a status update that changes    *)
(* nothing. A missing Secret or key is reported. Otherwise the client is   *)
(* made anew and the text is pushed.                                       *)
Configure(a, waiting) ==
    LET t == tenantOf[DatasourceOf[a]]
        text == secret[SecretOf[a]]
    IN  \/ /\ t = Absent
           /\ amcR' = Idle /\ queue' = waiting \cup {a} /\ UNCHANGED client
        \/ /\ t # Absent /\ text \in {Absent, 0}
           /\ amcR' = Calls("reject", a, 0) /\ queue' = waiting /\ UNCHANGED client
        \/ /\ t # Absent /\ text \notin {Absent, 0}
           /\ client' = t
           /\ amcR' = Calls("push", a, text) /\ queue' = waiting

(* The request's object is gone.                                           *)
Gone(a) ==
    /\ amcR.pc = "idle" /\ a \in queue /\ seen[a] = Absent
    /\ queue' = queue \ {a}
    /\ NoWrite /\ UNCHANGED <<seen, written, amcR, newest, client, config, bounds>>

Begin(a) ==
    /\ amcR.pc = "idle" /\ a \in queue /\ seen[a] # Absent
    /\ newest' = (a \notin behind)
    /\ \/ /\ ~seen[a].fin
          /\ amcR' = Calls("addFin", a, 0)
          /\ queue' = queue \ {a} /\ UNCHANGED client
       \/ /\ seen[a].fin /\ seen[a].deleting
          /\ CleanUp(a, queue \ {a})
       \/ /\ seen[a].fin /\ ~seen[a].deleting
          /\ Configure(a, queue \ {a})
    /\ NoWrite /\ UNCHANGED <<seen, written, config, bounds>>

(* Variant of AddFinalizer: the finalizer is added to the copy only.       *)
AddFinalizerToCopy ==
    /\ At("addFin")
    /\ Configure(amcR.amc, queue)
    /\ NoWrite /\ UNCHANGED <<seen, written, newest, config, bounds>>

(* An object without finalizer is not being deleted.                       *)
AddFinalizer ==
    /\ At("addFin")
    /\ Write(amcR.amc, [amcs[amcR.amc] EXCEPT !.fin = TRUE])
    /\ Configure(amcR.amc, queue)
    /\ UNCHANGED <<seen, written, newest, config, bounds>>

(* The client's tenant loses its configuration; a failure is ignored, and  *)
(* so a lost reply makes no difference.                                    *)
Clean ==
    /\ amcR.pc = "clean"
    /\ \/ config' = [config EXCEPT ![client] = Absent] /\ UNCHANGED faults
       \/ UNCHANGED config /\ faults < MaxFaults /\ faults' = faults + 1
    /\ amcR' = Calls("dropFin", amcR.amc, 0)
    /\ NoWrite /\ UNCHANGED <<seen, written, queue, newest, client, edits, deletes>>

DropFinalizer ==
    /\ At("dropFin")
    /\ Write(amcR.amc, [amcs[amcR.amc] EXCEPT !.fin = FALSE])
    /\ amcR' = Idle
    /\ UNCHANGED <<seen, written, queue, newest, client, config, bounds>>

Push ==
    /\ amcR.pc = "push"
    /\ config' = [config EXCEPT ![client] = [of |-> amcR.amc, text |-> amcR.text]]
    /\ amcR' = Calls("accept", amcR.amc, 0)
    /\ NoWrite /\ UNCHANGED <<seen, written, queue, newest, client, bounds>>

(* UpdateStatus; a rejected Secret is not an error.                        *)
Report ==
    /\ At("accept") \/ At("reject")
    /\ Write(amcR.amc, [amcs[amcR.amc] EXCEPT
                           !.ready = IF amcR.pc = "accept" THEN "True" ELSE "False"])
    /\ amcR' = Idle
    /\ UNCHANGED <<seen, written, queue, newest, client, config, bounds>>

(* Mimir takes the configuration and its reply is lost: the request is     *)
(* queued again and the push repeated with what there is by then.          *)
PushReplyLost ==
    /\ amcR.pc = "push"
    /\ faults < MaxFaults /\ faults' = faults + 1
    /\ config' = [config EXCEPT ![client] = [of |-> amcR.amc, text |-> amcR.text]]
    /\ amcR' = Idle
    /\ queue' = queue \cup {amcR.amc}
    /\ NoWrite /\ UNCHANGED <<seen, written, newest, client, edits, deletes>>

(* Variant of CallFails: an error while the finalizer is removed is only   *)
(* logged.                                                                 *)
CallFailsUnnoticed ==
    /\ \/ amcR.pc \in {"addFin", "dropFin", "accept", "reject"} /\ ~newest /\ UNCHANGED faults
       \/ amcR.pc \notin {"idle", "clean"} /\ faults < MaxFaults /\ faults' = faults + 1
    /\ amcR' = Idle
    /\ queue' = IF amcR.pc = "dropFin" THEN queue ELSE queue \cup {amcR.amc}
    /\ NoWrite /\ UNCHANGED <<seen, written, newest, client, config, edits, deletes>>

(* A conflict, or a call that fails for another reason.                    *)
CallFails ==
    /\ \/ amcR.pc \in {"addFin", "dropFin", "accept", "reject"} /\ ~newest /\ UNCHANGED faults
       \/ amcR.pc \notin {"idle", "clean"} /\ faults < MaxFaults /\ faults' = faults + 1
    /\ amcR' = Idle
    /\ queue' = queue \cup {amcR.amc}
    /\ NoWrite /\ UNCHANGED <<seen, written, newest, client, config, edits, deletes>>

Reconcile ==
    \/ \E a \in Amcs : Gone(a) \/ Begin(a)
    \/ AddFinalizer \/ Clean \/ DropFinalizer \/ Push \/ Report
    \/ PushReplyLost \/ CallFails
----------------------------------------------------------------------------
Edit == edits < MaxEdits /\ edits' = edits + 1 /\ UNCHANGED <<deletes, faults>>

(* A user, or the SLO controller, creates a.                               *)
CreateAmc(a) ==
    /\ amcs[a] = Absent
    /\ Edit
    /\ amcs' = [amcs EXCEPT ![a] = [fin |-> FALSE, deleting |-> FALSE,
                                    owned |-> FALSE, ready |-> ""]]
    /\ behind' = behind \cup {a}
    /\ owning' = IF a \in ByOperator THEN owning \cup {a} ELSE owning
    /\ Outdates(a)
    /\ UNCHANGED <<seen, written, queue, amcR, client, config>>

(* The SLO controller's second write, of the copy it has created.          *)
OwnAmc(a) ==
    /\ a \in owning
    /\ Write(a, [amcs[a] EXCEPT !.owned = TRUE])
    /\ Outdates(a)
    /\ UNCHANGED <<seen, written, queue, amcR, client, config, bounds>>

(* A user deletes it, or the garbage collector does with its SLO.          *)
DeleteAmc(a) ==
    /\ amcs[a] # Absent
    /\ ~amcs[a].deleting
    /\ deletes < MaxDeletes
    /\ deletes' = deletes + 1
    /\ Write(a, [amcs[a] EXCEPT !.deleting = TRUE])
    /\ Outdates(a)
    /\ UNCHANGED <<seen, written, queue, amcR, client, config, edits, faults>>

Deliver(a) ==
    /\ a \in behind
    /\ seen' = [seen EXCEPT ![a] = amcs[a]]
    /\ behind' = behind \ {a}
    /\ queue' = queue \cup {a}
    /\ UNCHANGED <<amcs, owning, written, amcR, newest, client, config, bounds>>

(* The Datasource appears; no controller that matters here watches it.     *)
WriteDs(d) ==
    /\ Edit
    /\ \E t \in Tenants \cup {Absent} :
          /\ t # tenantOf[d]
          /\ tenantOf[d] = Absent \/ d \in Movable
          /\ tenantOf' = [tenantOf EXCEPT ![d] = t]
    /\ NoWrite /\ UNCHANGED <<seen, secret, queue, amcR, newest, client, config>>

(* Variant of findObjectsForSecret: no such watch.                         *)
noObjectsForSecret(s) == {}

(* The AlertManagerConfig of the Secret's name is looked up, and a request *)
(* made with the name of the Secret it refers to.                          *)
findObjectsForSecret(s) ==
    {a \in Amcs : s \in Amcs /\ seen[s] # Absent /\ SecretOf[s] = a}

WriteSecret(s) ==
    /\ Edit
    /\ \E text \in {Absent, 0, edits + 2} :
          /\ text # secret[s]
          /\ secret' = [secret EXCEPT ![s] = text]
    /\ queue' = queue \cup findObjectsForSecret(s)
    /\ NoWrite /\ UNCHANGED <<seen, tenantOf, amcR, newest, client, config>>

(* The operator dies and is started again: the client is lost.             *)
Crash ==
    /\ faults < MaxFaults /\ faults' = faults + 1
    /\ seen' = amcs /\ behind' = {} /\ owning' = {}
    /\ queue' = {a \in Amcs : amcs[a] # Absent}
    /\ amcR' = Idle /\ newest' = FALSE /\ client' = Absent
    /\ UNCHANGED <<amcs, written, config, edits, deletes>>

Environment ==
    \/ \E a \in Amcs : CreateAmc(a) \/ OwnAmc(a) \/ DeleteAmc(a) \/ Deliver(a)
    \/ \E d \in Datasources : WriteDs(d)
    \/ \E s \in Secrets : WriteSecret(s)
    \/ Crash

Next == Reconcile \/ Environment

(* Workers take what is queued and their calls return; the watch stream    *)
(* arrives. Of several requests each is taken in its turn.                 *)
Fairness ==
    /\ WF_vars(Reconcile)
    /\ \A a \in Amcs : WF_vars(Deliver(a)) /\ SF_vars(Gone(a) \/ Begin(a))

Spec == Init /\ [][Next]_vars

FairSpec == Spec /\ Fairness
----------------------------------------------------------------------------
(* What the variables hold.                                                *)
AmcTypeOK ==
    /\ amcs \in [Amcs -> Amc \cup {Absent}] /\ seen \in [Amcs -> Amc \cup {Absent}]
    /\ behind \subseteq Amcs /\ owning \subseteq Amcs /\ queue \subseteq Amcs
    /\ tenantOf \in [Datasources -> Tenants \cup {Absent}]
    /\ secret \in [Secrets -> Nat \cup {Absent}]
    /\ amcR \in [pc : {"idle", "addFin", "clean", "dropFin", "push", "accept", "reject"},
                 amc : Amcs, text : Nat]
    /\ newest \in BOOLEAN
    /\ client \in Tenants \cup {Absent}
    /\ amcR.pc \in {"clean", "push"} => client # Absent
    /\ amcR.pc = "push" => amcR.text \in Text
    /\ config \in [Tenants -> Config \cup {Absent}]
    /\ edits \in Nat /\ deletes \in Nat /\ faults \in Nat

(* A configuration is pushed only for an object that holds the finalizer:  *)
(* whenever it is deleted, even during the push, a cleanup is to come.     *)
PushIsCovered ==
    amcR.pc = "push" => amcs[amcR.amc] # Absent /\ amcs[amcR.amc].fin

(* A configuration is only ever found at the tenant of the Datasource that *)
(* its object names, unless that Datasource moves: the one client that all *)
(* reconciles share never speaks for the tenant of another.                *)
ConfigAtHome ==
    \A t \in Tenants :
        config[t] # Absent /\ DatasourceOf[config[t].of] \notin Movable =>
            tenantOf[DatasourceOf[config[t].of]] = t

IsTerminating(a) == IF amcs[a] = Absent THEN FALSE ELSE amcs[a].deleting

Pending(a) == a \in behind \cup queue

(* The deletion of an AlertManagerConfig is never forgotten: until its     *)
(* finalizer is removed an event, a request or a cleanup is under way.     *)
AmcDeletionNoticed ==
    \A a \in Amcs : IsTerminating(a) =>
        Pending(a) \/ (amcR.amc = a /\ amcR.pc \in {"clean", "dropFin"})

(* A deleted AlertManagerConfig disappears, whether or not its Datasource  *)
(* is still there and Mimir answers.                                       *)
DeletionEnds == \A a \in Amcs : IsTerminating(a) ~> ~IsTerminating(a)

(* The Secret has the name of the AlertManagerConfig, as in the samples.   *)
Configurable(a) ==
    /\ amcs[a] # Absent
    /\ SecretOf[a] = a
    /\ DatasourceOf[a] \notin Movable /\ tenantOf[DatasourceOf[a]] # Absent
    /\ secret[SecretOf[a]] \notin {Absent, 0}

(* Its tenant has the text of the Secret, unless another object of the     *)
(* same tenant had the last word.                                          *)
Configured(a) ==
    LET c == config[tenantOf[DatasourceOf[a]]]
    IN  c # Absent /\ (c.of = a => c.text = secret[SecretOf[a]])

(* Whatever is created or edited, in whatever order, as long as nothing is *)
(* deleted: what the tenant is still to get is on its way, although nobody *)
(* watches the Datasource, and the Secret only by its name.                *)
ConfigNoticed ==
    deletes = 0 => \A a \in Amcs : Configurable(a) =>
        \/ Configured(a) \/ Pending(a)
        \/ amcR.amc = a /\ amcR.pc \in {"addFin", "push"}

(* As long as nothing is deleted, the tenant of a Datasource that stays    *)
(* gets the last text of the Secret, in whatever order the three objects   *)
(* are created.                                                            *)
ConfigArrives ==
    <>[](deletes = 0 => \A a \in Amcs : Configurable(a) => Configured(a))

(* The finalizer of the AlertManagerConfig sees to it that its             *)
(* configuration is cleaned up in the Alertmanager (DESIGN.md).            *)
NoOrphanedConfig ==
    \A a \in Amcs, t \in Tenants :
        amcs[a] = Absent /\ config[t] # Absent => config[t].of # a
=============================================================================

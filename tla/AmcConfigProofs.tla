--------------------------- MODULE AmcConfigProofs ---------------------------
(***************************************************************************)
(* What the AlertManagerConfig controller brings about, for any number of  *)
(* objects, Secrets, Datasources and tenants: a configuration is only ever *)
(* at home, and neither a deletion nor a configuration still to be pushed  *)
(* is forgotten.                                                           *)
(***************************************************************************)
EXTENDS AmcProofs

(* The client of a push is the one of the object's own Datasource.         *)
PushAtHome ==
    amcR.pc = "push" /\ DatasourceOf[amcR.amc] \notin Movable =>
        client = tenantOf[DatasourceOf[amcR.amc]]

(* Before the first deletion nothing terminates, or is cleaned up.         *)
Undeleted ==
    /\ \A a \in Amcs : /\ amcs[a] # Absent => ~amcs[a].deleting
                       /\ seen[a] # Absent => ~seen[a].deleting
    /\ amcR.pc \notin {"clean", "dropFin"}

(* Nobody watches the Datasource: an object whose Datasource is not there  *)
(* yet is tried again and again.                                           *)
AwaitsDatasource ==
    \A a \in Amcs :
        amcs[a] # Absent /\ DatasourceOf[a] \notin Movable
        /\ tenantOf[DatasourceOf[a]] = Absent =>
            Pending(a) \/ (amcR.amc = a /\ amcR.pc = "addFin")

(* A text that is no longer the Secret's is pushed only if the new one is  *)
(* to come.                                                                *)
PushIsCurrent ==
    amcR.pc = "push" /\ SecretOf[amcR.amc] = amcR.amc =>
        Pending(amcR.amc) \/ amcR.text = secret[SecretOf[amcR.amc]]

Undisturbed == Undeleted /\ AwaitsDatasource /\ PushIsCurrent /\ ConfigNoticed

AtHome == PushAtHome /\ ConfigAtHome

(* Inductive, together with AmcInv.                                        *)
ConfigInv == AtHome /\ AmcDeletionNoticed /\ (deletes = 0 => Undisturbed)
----------------------------------------------------------------------------
LEMMA ConfigureEffect ==
    ASSUME AmcTypeOK, NEW a \in Amcs, NEW waiting, Configure(a, waiting)
    PROVE  \/ amcR' = Idle /\ queue' = waiting \cup {a}
           \/ /\ amcR' = Calls("reject", a, 0) /\ queue' = waiting
              /\ tenantOf[DatasourceOf[a]] # Absent /\ secret[SecretOf[a]] \in {Absent, 0}
           \/ /\ amcR' = Calls("push", a, secret[SecretOf[a]]) /\ queue' = waiting
              /\ tenantOf[DatasourceOf[a]] # Absent /\ client' = tenantOf[DatasourceOf[a]]
BY DEF Configure

(* A Datasource that does not move keeps its tenant.                       *)
TenantsStay ==
    \A d \in Datasources \ Movable : tenantOf[d] # Absent => tenantOf'[d] = tenantOf[d]

LEMMA WriteDsKeepsTenants ==
    ASSUME AmcTypeOK, NEW d \in Datasources, WriteDs(d)
    PROVE  TenantsStay
<1>1. PICK t \in Tenants \cup {Absent} :
        /\ tenantOf[d] = Absent \/ d \in Movable
        /\ tenantOf' = [tenantOf EXCEPT ![d] = t]
  BY DEF WriteDs
<1> QED BY <1>1 DEF TenantsStay, AmcTypeOK

(* The steps that make neither a configuration nor a client.               *)
LEMMA HomeStays ==
    ASSUME AmcInv, AtHome, UNCHANGED config, TenantsStay,
           amcR'.pc = "push" => UNCHANGED <<amcR, client>>
    PROVE  AtHome'
<1>1. AmcTypeOK
  BY DEF AmcInv
<1>2. PushAtHome'
  <2> SUFFICES ASSUME amcR'.pc = "push", DatasourceOf[amcR.amc] \notin Movable
               PROVE  client = tenantOf'[DatasourceOf[amcR.amc]]
    BY DEF PushAtHome
  <2>1. client = tenantOf[DatasourceOf[amcR.amc]] /\ client # Absent
    BY <1>1 DEF AtHome, PushAtHome, AmcTypeOK
  <2>2. DatasourceOf[amcR.amc] \in Datasources
    BY <1>1, NamesAssumption DEF AmcTypeOK
  <2> QED BY <2>1, <2>2 DEF TenantsStay
<1>3. ConfigAtHome'
  <2> SUFFICES ASSUME NEW t \in Tenants, config[t] # Absent,
                      DatasourceOf[config[t].of] \notin Movable
               PROVE  tenantOf'[DatasourceOf[config[t].of]] = t
    BY DEF ConfigAtHome
  <2>1. config[t].of \in Amcs /\ t # Absent
    BY <1>1, AmcAbsentAssumption DEF AmcTypeOK, Config
  <2>2. DatasourceOf[config[t].of] \in Datasources
    BY <2>1, NamesAssumption
  <2> QED BY <2>1, <2>2 DEF AtHome, ConfigAtHome, TenantsStay
<1> QED BY <1>2, <1>3 DEF AtHome

(* Those that make a client for the push to come.                          *)
LEMMA ConfigureAtHome ==
    ASSUME AmcInv, AtHome, NEW a \in Amcs, NEW waiting, Configure(a, waiting),
           UNCHANGED <<tenantOf, config>>
    PROVE  AtHome'
<1>1. PushAtHome'
  BY ConfigureEffect DEF AmcInv, PushAtHome, Calls, Idle
<1> QED BY <1>1 DEF AtHome, ConfigAtHome

LEMMA PushStaysHome ==
    ASSUME AmcInv, AtHome, Push \/ PushReplyLost
    PROVE  AtHome'
<1> DEFINE c == [of |-> amcR.amc, text |-> amcR.text]
<1>1. /\ amcR.pc = "push" /\ amcR'.pc \in {"accept", "idle"} /\ UNCHANGED tenantOf
      /\ config' = [config EXCEPT ![client] = c]
  BY DEF Push, PushReplyLost, Calls, Idle, written
<1>2. client \in Tenants /\ config \in [Tenants -> Config \cup {Absent}]
  BY <1>1 DEF AmcInv, AmcTypeOK
<1>3. c.of = amcR.amc
  OBVIOUS
<1> HIDE DEF c
<1>4. ConfigAtHome'
  <2> SUFFICES ASSUME NEW t \in Tenants, config'[t] # Absent,
                      DatasourceOf[config'[t].of] \notin Movable
               PROVE  tenantOf[DatasourceOf[config'[t].of]] = t
    BY <1>1 DEF ConfigAtHome
  <2>1. CASE t = client
    BY <1>1, <1>2, <1>3, <2>1 DEF AtHome, PushAtHome
  <2>2. CASE t # client
    BY <1>1, <1>2, <2>2 DEF AtHome, ConfigAtHome
  <2> QED BY <2>1, <2>2
<1> QED BY <1>1, <1>4 DEF AtHome, PushAtHome

LEMMA CleanStaysHome ==
    ASSUME AmcInv, AtHome, Clean
    PROVE  AtHome'
<1>1. /\ amcR.pc = "clean" /\ amcR'.pc = "dropFin" /\ UNCHANGED tenantOf
      /\ config' = [config EXCEPT ![client] = Absent] \/ UNCHANGED config
  BY DEF Clean, Calls, written
<1>2. client \in Tenants /\ config \in [Tenants -> Config \cup {Absent}]
  BY <1>1 DEF AmcInv, AmcTypeOK
<1>3. \A t \in Tenants : config'[t] # Absent => config'[t] = config[t]
  BY <1>1, <1>2
<1> QED BY <1>1, <1>3 DEF AtHome, PushAtHome, ConfigAtHome

LEMMA NextAtHome ==
    ASSUME AmcInv, AtHome, [Next]_vars
    PROVE  AtHome'
<1>1. AmcTypeOK
  BY DEF AmcInv
<1>2. CASE UNCHANGED vars
  BY <1>2 DEF vars, written, AtHome, PushAtHome, ConfigAtHome
<1>3. CASE \E a \in Amcs : Gone(a)
  BY <1>3, HomeStays DEF Gone, written, TenantsStay
<1>4. ASSUME NEW a \in Amcs, Begin(a) PROVE AtHome'
  <2>1. UNCHANGED <<tenantOf, config>>
    BY <1>4 DEF Begin, written
  <2>2. CASE Configure(a, queue \ {a})
    BY <2>1, <2>2, ConfigureAtHome
  <2>3. CASE amcR' = Calls("addFin", a, 0) \/ CleanUp(a, queue \ {a})
    BY <2>1, <2>3, HomeStays DEF CleanUp, Calls, TenantsStay
  <2> QED BY <1>4, <2>2, <2>3 DEF Begin
<1>5. CASE AddFinalizer
  BY <1>1, <1>5, ConfigureAtHome DEF AddFinalizer, At, written, AmcTypeOK
<1>6. CASE DropFinalizer \/ Report \/ CallFails
  BY <1>6, HomeStays DEF DropFinalizer, Report, CallFails, written, TenantsStay, Idle
<1>7. CASE \E a \in Amcs : CreateAmc(a) \/ OwnAmc(a) \/ DeleteAmc(a) \/ Deliver(a)
  BY <1>7, HomeStays DEF CreateAmc, OwnAmc, DeleteAmc, Deliver, written, TenantsStay
<1>8. ASSUME NEW d \in Datasources, WriteDs(d) PROVE AtHome'
  BY <1>1, <1>8, WriteDsKeepsTenants, HomeStays DEF WriteDs
<1>9. CASE \E s \in Secrets : WriteSecret(s)
  BY <1>9, HomeStays DEF WriteSecret, TenantsStay
<1>10. CASE Crash
  BY <1>10, HomeStays DEF Crash, written, TenantsStay, Idle
<1> QED BY <1>2, <1>3, <1>4, <1>5, <1>6, <1>7, <1>8, <1>9, <1>10, PushStaysHome, CleanStaysHome
        DEF Next, Reconcile, Environment
----------------------------------------------------------------------------
(* What a step leaves for later: every object that it changes, and every   *)
(* one of which something was to come, is behind or queued afterwards.     *)
NothingLost ==
    \A a \in Amcs : Pending(a)' \/ amcs'[a] = Absent \/ (amcs'[a] = amcs[a] /\ ~Pending(a))

LEMMA NoWriteLosesNothing ==
    ASSUME NoWrite, queue \subseteq queue'
    PROVE  NothingLost
BY DEF NoWrite, NothingLost, Pending

LEMMA WriteLosesNothing ==
    ASSUME AmcTypeOK, NEW a \in Amcs, NEW o \in Amc, Write(a, o), queue \subseteq queue'
    PROVE  NothingLost
<1>1. /\ \A b \in Amcs \ {a} : amcs'[b] = amcs[b] /\ (b \in behind <=> b \in behind')
      /\ a \in behind' \/ (amcs'[a] = amcs[a] /\ (a \in behind <=> a \in behind'))
  BY WriteFacts
<1> QED BY <1>1 DEF NothingLost, Pending

(* The reconcile's own writes.                                             *)
LEMMA OwnWritesLoseNothing ==
    ASSUME AmcInv, AddFinalizer \/ DropFinalizer \/ Report
    PROVE  NothingLost
<1>1. /\ amcR.pc # "idle" /\ newest /\ queue \subseteq queue'
      /\ \/ Write(amcR.amc, [amcs[amcR.amc] EXCEPT !.fin = TRUE])
         \/ Write(amcR.amc, [amcs[amcR.amc] EXCEPT !.fin = FALSE])
         \/ Write(amcR.amc, [amcs[amcR.amc] EXCEPT
                               !.ready = IF amcR.pc = "accept" THEN "True" ELSE "False"])
  BY DEF AddFinalizer, DropFinalizer, Report, At, Configure
<1>2. amcR.amc \in Amcs /\ amcs[amcR.amc] \in Amc /\ AmcTypeOK
  BY <1>1 DEF AmcInv, AmcTypeOK, CopiesExist
<1>3. /\ [amcs[amcR.amc] EXCEPT !.fin = TRUE] \in Amc
      /\ [amcs[amcR.amc] EXCEPT !.fin = FALSE] \in Amc
      /\ [amcs[amcR.amc] EXCEPT
            !.ready = IF amcR.pc = "accept" THEN "True" ELSE "False"] \in Amc
  BY <1>2 DEF Amc
<1> QED BY <1>1, <1>2, <1>3, WriteLosesNothing

LEMMA GoneLosesNothing ==
    ASSUME AmcInv, NEW a \in Amcs, Gone(a)
    PROVE  NothingLost
<1>1. NoWrite /\ queue' = queue \ {a} /\ seen[a] = Absent
  BY DEF Gone
<1>2. a \in behind \/ amcs[a] = Absent
  BY <1>1 DEF AmcInv, CacheFits
<1> QED BY <1>1, <1>2 DEF NoWrite, NothingLost, Pending

(* Everything else that happens, around the reconcile.                     *)
LEMMA EnvironmentLosesNothing ==
    ASSUME AmcInv, Environment
    PROVE  NothingLost
<1>1. AmcTypeOK
  BY DEF AmcInv
<1>2. ASSUME NEW a \in Amcs, CreateAmc(a) PROVE NothingLost
  <2>1. /\ \A b \in Amcs \ {a} : amcs'[b] = amcs[b]
        /\ behind' = behind \cup {a} /\ queue' = queue
    BY <1>1, <1>2 DEF CreateAmc, AmcTypeOK
  <2> QED BY <2>1 DEF NothingLost, Pending
<1>3. ASSUME NEW a \in Amcs, OwnAmc(a) PROVE NothingLost
  <2>1. Write(a, [amcs[a] EXCEPT !.owned = TRUE]) /\ queue' = queue /\ a \in owning
    BY <1>3 DEF OwnAmc
  <2>2. amcs[a] \in Amc
    BY <1>1, <2>1 DEF AmcInv, AmcTypeOK, CopiesExist
  <2>3. [amcs[a] EXCEPT !.owned = TRUE] \in Amc
    BY <2>2 DEF Amc
  <2> QED BY <1>1, <2>1, <2>3, WriteLosesNothing
<1>4. ASSUME NEW a \in Amcs, DeleteAmc(a) PROVE NothingLost
  <2>1. Write(a, [amcs[a] EXCEPT !.deleting = TRUE]) /\ queue' = queue
    BY <1>4 DEF DeleteAmc
  <2>2. amcs[a] \in Amc
    BY <1>1, <1>4 DEF DeleteAmc, AmcTypeOK
  <2>3. [amcs[a] EXCEPT !.deleting = TRUE] \in Amc
    BY <2>2 DEF Amc
  <2> QED BY <1>1, <2>1, <2>3, WriteLosesNothing
<1>5. ASSUME NEW a \in Amcs, Deliver(a) PROVE NothingLost
  BY <1>5 DEF Deliver, NothingLost, Pending
<1>6. CASE (\E d \in Datasources : WriteDs(d)) \/ (\E s \in Secrets : WriteSecret(s))
  BY <1>6, NoWriteLosesNothing DEF WriteDs, WriteSecret
<1>7. CASE Crash
  BY <1>7 DEF Crash, NothingLost, Pending
<1> QED BY <1>2, <1>3, <1>4, <1>5, <1>6, <1>7 DEF Environment
----------------------------------------------------------------------------
(* A reconcile of a terminating object does not end before its finalizer   *)
(* is removed or it is queued again.                                       *)
LEMMA DeletionStays ==
    ASSUME AmcDeletionNoticed, NothingLost,
           \A a \in Amcs :
               a = amcR.amc /\ amcR.pc \in {"clean", "dropFin"} /\ IsTerminating(a)' =>
                   Pending(a)' \/ (a = amcR'.amc /\ amcR'.pc \in {"clean", "dropFin"})
    PROVE  AmcDeletionNoticed'
BY DEF AmcDeletionNoticed, NothingLost, IsTerminating

LEMMA BeginDeletionNoticed ==
    ASSUME AmcInv, AmcDeletionNoticed, NEW a \in Amcs, Begin(a)
    PROVE  AmcDeletionNoticed'
<1>1. /\ amcR.pc = "idle" /\ UNCHANGED <<amcs, behind>> /\ queue \ {a} \subseteq queue'
      /\ seen[a] # Absent
  BY DEF Begin, NoWrite, CleanUp, Configure
<1>2. ASSUME IsTerminating(a), a \notin behind
      PROVE  amcR'.amc = a /\ amcR'.pc \in {"clean", "dropFin"}
  <2>1. seen[a] = amcs[a] /\ seen[a].fin /\ seen[a].deleting
    BY <1>2 DEF AmcInv, CacheFits, IsTerminating
  <2>2. CleanUp(a, queue \ {a})
    BY <2>1 DEF Begin
  <2> QED BY <2>2 DEF CleanUp, Calls
<1> QED BY <1>1, <1>2 DEF AmcDeletionNoticed, IsTerminating, Pending

LEMMA DropFinalizerReleases ==
    ASSUME AmcInv, DropFinalizer, NEW a \in Amcs, a = amcR.amc
    PROVE  ~IsTerminating(a)'
<1> DEFINE o == [amcs[a] EXCEPT !.fin = FALSE]
<1>1. amcR.pc = "dropFin" /\ newest /\ Write(a, o) /\ AmcTypeOK
  BY DEF DropFinalizer, At, AmcInv
<1>2. amcs[a] \in Amc
  BY <1>1 DEF AmcInv, AmcTypeOK, CopiesExist
<1>3. o \in Amc /\ ~o.fin
  BY <1>2 DEF Amc
<1> HIDE DEF o
<1>4. amcs'[a] = Settle(o)
  BY <1>1, <1>3, WriteFacts
<1> QED BY <1>3, <1>4 DEF Settle, IsTerminating

LEMMA NextDeletionNoticed ==
    ASSUME AmcInv, AmcDeletionNoticed, [Next]_vars
    PROVE  AmcDeletionNoticed'
<1>1. CASE UNCHANGED vars
  BY <1>1 DEF vars, AmcDeletionNoticed, IsTerminating, Pending
<1>2. ASSUME NEW a \in Amcs, Gone(a) PROVE AmcDeletionNoticed'
  BY <1>2, GoneLosesNothing, DeletionStays DEF Gone
<1>3. CASE AddFinalizer \/ Report
  BY <1>3, OwnWritesLoseNothing, DeletionStays DEF AddFinalizer, Report, At
<1>4. CASE DropFinalizer
  BY <1>4, OwnWritesLoseNothing, DropFinalizerReleases, DeletionStays
<1>5. CASE Clean
  BY <1>5, NoWriteLosesNothing, DeletionStays DEF Clean, Calls
<1>6. CASE Push
  BY <1>6, NoWriteLosesNothing, DeletionStays DEF Push
<1>7. CASE PushReplyLost \/ CallFails
  BY <1>7, NoWriteLosesNothing, DeletionStays DEF PushReplyLost, CallFails, Pending
<1>8. CASE Environment
  <2>1. NothingLost
    BY <1>8, EnvironmentLosesNothing
  <2>2. amcR' = amcR \/ Crash
    BY <1>8 DEF Environment, CreateAmc, OwnAmc, DeleteAmc, Deliver, WriteDs, WriteSecret
  <2>3. CASE Crash
    BY <2>3 DEF Crash, AmcDeletionNoticed, IsTerminating, Pending
  <2> QED BY <2>1, <2>2, <2>3, DeletionStays
<1> QED BY <1>1, <1>2, <1>3, <1>4, <1>5, <1>6, <1>7, <1>8, BeginDeletionNoticed
        DEF Next, Reconcile
----------------------------------------------------------------------------
(* Before the first deletion. Nothing terminates.                          *)
LEMMA AmcDeletesGrow ==
    ASSUME AmcTypeOK, [Next]_vars, deletes' = 0
    PROVE  deletes = 0 /\ \A a \in Amcs : ~DeleteAmc(a)
<1>1. deletes \in Nat
  BY DEF AmcTypeOK
<1>2. \A a \in Amcs : ~DeleteAmc(a)
  BY <1>1 DEF DeleteAmc
<1>3. CASE Reconcile
  BY <1>2, <1>3 DEF Reconcile, Gone, Begin, AddFinalizer, Clean, DropFinalizer, Push, Report,
                    PushReplyLost, CallFails, bounds
<1>4. CASE Environment \/ UNCHANGED vars
  BY <1>2, <1>4 DEF Environment, CreateAmc, OwnAmc, Deliver, WriteDs, WriteSecret, Crash, Edit,
                    vars, bounds
<1> QED BY <1>2, <1>3, <1>4 DEF Next

LEMMA WriteStaysUndeleted ==
    ASSUME AmcTypeOK, Undeleted, NEW a \in Amcs, NEW o \in Amc, ~o.deleting, Write(a, o),
           UNCHANGED seen, amcR'.pc \notin {"clean", "dropFin"}
    PROVE  Undeleted'
<1>1. amcs'[a] = Settle(o) /\ \A b \in Amcs \ {a} : amcs'[b] = amcs[b]
  BY WriteFacts
<1> QED BY <1>1 DEF Undeleted, Settle

LEMMA NextUndeleted ==
    ASSUME AmcInv, Undeleted, [Next]_vars, \A a \in Amcs : ~DeleteAmc(a)
    PROVE  Undeleted'
<1>1. AmcTypeOK
  BY DEF AmcInv
<1>2. CASE UNCHANGED vars
  BY <1>2 DEF vars, Undeleted
<1>3. ASSUME NEW a \in Amcs, Gone(a) PROVE Undeleted'
  BY <1>3 DEF Gone, NoWrite, Undeleted
<1>4. ASSUME NEW a \in Amcs, Begin(a) PROVE Undeleted'
  <2>1. NoWrite /\ UNCHANGED seen /\ seen[a] # Absent
    BY <1>4 DEF Begin
  <2>2. amcR' = Calls("addFin", a, 0) \/ Configure(a, queue \ {a})
    BY <1>4, <2>1 DEF Begin, Undeleted
  <2>3. amcR'.pc \notin {"clean", "dropFin"}
    BY <1>1, <2>2, ConfigureEffect DEF Calls, Idle
  <2> QED BY <2>1, <2>3 DEF NoWrite, Undeleted
<1>5. CASE AddFinalizer
  <2> DEFINE o == [amcs[amcR.amc] EXCEPT !.fin = TRUE]
  <2>1. /\ amcR.pc = "addFin" /\ newest /\ Write(amcR.amc, o) /\ UNCHANGED seen
        /\ Configure(amcR.amc, queue)
    BY <1>5 DEF AddFinalizer, At
  <2>2. amcR.amc \in Amcs /\ amcs[amcR.amc] \in Amc /\ ~amcs[amcR.amc].deleting
    BY <2>1 DEF AmcInv, AmcTypeOK, CopiesExist, Undeleted
  <2>3. o \in Amc /\ ~o.deleting
    BY <2>2 DEF Amc
  <2>4. amcR'.pc \notin {"clean", "dropFin"}
    BY <1>1, <2>1, <2>2, ConfigureEffect DEF Calls, Idle
  <2> QED BY <1>1, <2>1, <2>2, <2>3, <2>4, WriteStaysUndeleted
<1>6. CASE Report
  <2> DEFINE o == [amcs[amcR.amc] EXCEPT
                     !.ready = IF amcR.pc = "accept" THEN "True" ELSE "False"]
  <2>1. /\ amcR.pc # "idle" /\ newest /\ Write(amcR.amc, o) /\ UNCHANGED seen /\ amcR' = Idle
    BY <1>6 DEF Report, At
  <2>2. amcR.amc \in Amcs /\ amcs[amcR.amc] \in Amc /\ ~amcs[amcR.amc].deleting
    BY <2>1 DEF AmcInv, AmcTypeOK, CopiesExist, Undeleted
  <2>3. o \in Amc /\ ~o.deleting
    BY <2>2 DEF Amc
  <2> QED BY <1>1, <2>1, <2>2, <2>3, WriteStaysUndeleted DEF Idle
<1>7. CASE Push \/ PushReplyLost \/ CallFails
  BY <1>7 DEF Push, PushReplyLost, CallFails, NoWrite, Calls, Idle, Undeleted
<1>8. CASE Clean \/ DropFinalizer
  BY <1>8 DEF Clean, DropFinalizer, At, Undeleted
<1>9. ASSUME NEW a \in Amcs, CreateAmc(a) PROVE Undeleted'
  <2> DEFINE o == [fin |-> FALSE, deleting |-> FALSE, owned |-> FALSE, ready |-> ""]
  <2>1. amcs' = [amcs EXCEPT ![a] = o] /\ UNCHANGED <<seen, amcR>>
    BY <1>9 DEF CreateAmc
  <2>2. ~o.deleting
    OBVIOUS
  <2> HIDE DEF o
  <2> QED BY <1>1, <2>1, <2>2 DEF AmcTypeOK, Undeleted
<1>10. ASSUME NEW a \in Amcs, OwnAmc(a) PROVE Undeleted'
  <2> DEFINE o == [amcs[a] EXCEPT !.owned = TRUE]
  <2>1. a \in owning /\ Write(a, o) /\ UNCHANGED <<seen, amcR>>
    BY <1>10 DEF OwnAmc
  <2>2. amcs[a] \in Amc /\ ~amcs[a].deleting
    BY <1>1, <2>1 DEF AmcInv, AmcTypeOK, CopiesExist, Undeleted
  <2>3. o \in Amc /\ ~o.deleting
    BY <2>2 DEF Amc
  <2> QED BY <1>1, <2>1, <2>3, WriteStaysUndeleted DEF Undeleted
<1>11. ASSUME NEW a \in Amcs, Deliver(a) PROVE Undeleted'
  BY <1>1, <1>11 DEF Deliver, AmcTypeOK, Undeleted
<1>12. CASE (\E d \in Datasources : WriteDs(d)) \/ (\E s \in Secrets : WriteSecret(s))
  BY <1>12 DEF WriteDs, WriteSecret, NoWrite, Undeleted
<1>13. CASE Crash
  BY <1>13 DEF Crash, Undeleted, Idle
<1> QED BY <1>2, <1>3, <1>4, <1>5, <1>6, <1>7, <1>8, <1>9, <1>10, <1>11, <1>12, <1>13
        DEF Next, Reconcile, Environment
----------------------------------------------------------------------------
(* Nor is a configuration forgotten. A step that makes none and changes    *)
(* neither what is to be configured nor what a push holds, unless the      *)
(* object is queued again.                                                 *)
LEMMA NoticedStays ==
    ASSUME AmcTypeOK, PushIsCovered', Undisturbed, deletes = 0, NothingLost,
           UNCHANGED <<tenantOf, secret, config>>,
           \/ UNCHANGED amcR
           \/ /\ amcR'.pc \notin {"addFin", "push"}
              /\ \A a \in Amcs : a = amcR.amc /\ amcR.pc \in {"addFin", "push"} /\ amcs'[a] # Absent
                                  => Pending(a)'
    PROVE  AwaitsDatasource' /\ PushIsCurrent' /\ ConfigNoticed'
<1>1. \A a \in Amcs : /\ Pending(a) /\ amcs'[a] # Absent => Pending(a)'
                      /\ amcs'[a] # Absent => amcs[a] # Absent \/ Pending(a)'
  BY DEF NothingLost
<1>2. AwaitsDatasource'
  BY <1>1 DEF Undisturbed, AwaitsDatasource
<1>3. PushIsCurrent'
  <2>1. CASE UNCHANGED amcR
    <3>1. amcR.pc = "push" /\ SecretOf[amcR.amc] = amcR.amc =>
            Pending(amcR.amc) \/ amcR.text = secret[SecretOf[amcR.amc]]
      BY DEF Undisturbed, PushIsCurrent
    <3>2. amcR.amc \in Amcs /\ (amcR.pc = "push" => amcs'[amcR.amc] # Absent)
      BY <2>1 DEF AmcTypeOK, PushIsCovered
    <3> QED BY <1>1, <2>1, <3>1, <3>2 DEF PushIsCurrent
  <2>2. CASE amcR'.pc \notin {"addFin", "push"}
    BY <2>2 DEF PushIsCurrent
  <2> QED BY <2>1, <2>2
<1>4. ConfigNoticed'
  <2> SUFFICES ASSUME NEW a \in Amcs, Configurable(a)',
                      ~Pending(a)', ~Configured(a)'
               PROVE  amcR'.amc = a /\ amcR'.pc \in {"addFin", "push"}
    BY DEF ConfigNoticed
  <2>1. Configurable(a) /\ ~Configured(a) /\ ~Pending(a) /\ amcs'[a] # Absent
    BY <1>1 DEF Configurable, Configured
  <2>2. amcR.amc = a /\ amcR.pc \in {"addFin", "push"}
    BY <2>1 DEF Undisturbed, ConfigNoticed
  <2> QED BY <2>1, <2>2
<1> QED BY <1>2, <1>3, <1>4

(* A reconcile that begins, or goes on, looks up what there is to push.    *)
LEMMA ConfigureNoticed ==
    ASSUME AmcTypeOK, Undisturbed, deletes = 0, NEW a \in Amcs, NEW waiting, Configure(a, waiting),
           UNCHANGED <<tenantOf, secret, config>>, queue \ {a} \subseteq waiting,
           amcR.pc = "idle" \/ amcR.amc = a, amcR.pc # "push",
           \A b \in Amcs \ {a} : amcs'[b] = amcs[b] /\ (b \in behind <=> b \in behind')
    PROVE  AwaitsDatasource' /\ PushIsCurrent' /\ ConfigNoticed'
<1>1. waiting \subseteq queue'
  BY DEF Configure
<1>2. \A b \in Amcs \ {a} : Pending(b) => Pending(b)'
  BY <1>1 DEF Pending
<1>3. \A b \in Amcs \ {a} :
         /\ Configurable(b)' => Configurable(b)
         /\ Configured(b) => Configured(b)'
         /\ amcR.amc = b => amcR.pc \notin {"addFin", "push"}
  BY DEF Configurable, Configured
<1>4. \/ a \in queue'
      \/ amcR'.pc = "reject" /\ ~Configurable(a)' /\ tenantOf'[DatasourceOf[a]] # Absent
      \/ /\ amcR'.pc = "push" /\ amcR'.amc = a /\ amcR'.text = secret'[SecretOf[a]]
         /\ tenantOf'[DatasourceOf[a]] # Absent
  BY ConfigureEffect DEF Calls, Configurable
<1>5. AwaitsDatasource'
  <2>1. ASSUME NEW b \in Amcs, amcs'[b] # Absent, DatasourceOf[b] \notin Movable,
               tenantOf'[DatasourceOf[b]] = Absent
        PROVE  Pending(b)'
    <3>1. CASE b = a
      BY <1>4, <2>1, <3>1 DEF Pending
    <3>2. CASE b # a
      BY <1>2, <1>3, <2>1, <3>2 DEF Undisturbed, AwaitsDatasource
    <3> QED BY <3>1, <3>2
  <2> QED BY <2>1 DEF AwaitsDatasource
<1>6. PushIsCurrent'
  <2>1. amcR'.pc # "push" \/ (amcR'.amc = a /\ amcR'.text = secret'[SecretOf[a]])
    BY ConfigureEffect DEF Calls, Idle
  <2> QED BY <2>1 DEF PushIsCurrent
<1>7. ConfigNoticed'
  <2>1. ASSUME NEW b \in Amcs, Configurable(b)'
        PROVE  Configured(b)' \/ Pending(b)' \/ (amcR'.amc = b /\ amcR'.pc \in {"addFin", "push"})
    <3>1. CASE b = a
      BY <1>4, <2>1, <3>1 DEF Pending
    <3>2. CASE b # a
      BY <1>2, <1>3, <2>1, <3>2 DEF Undisturbed, ConfigNoticed
    <3> QED BY <3>1, <3>2
  <2> QED BY <2>1 DEF ConfigNoticed
<1> QED BY <1>5, <1>6, <1>7

LEMMA BeginNoticed ==
    ASSUME AmcInv, Undisturbed, deletes = 0, NEW a \in Amcs, Begin(a)
    PROVE  AwaitsDatasource' /\ PushIsCurrent' /\ ConfigNoticed'
<1>1. /\ amcR.pc = "idle" /\ NoWrite /\ seen[a] # Absent
      /\ UNCHANGED <<tenantOf, secret, config>> /\ AmcTypeOK
  BY DEF Begin, written, AmcInv
<1>2. CASE Configure(a, queue \ {a})
  BY <1>1, <1>2, ConfigureNoticed DEF NoWrite
<1>3. CASE amcR' = Calls("addFin", a, 0) /\ queue' = queue \ {a}
  <2>1. amcR'.pc = "addFin" /\ amcR'.amc = a
    BY <1>3 DEF Calls
  <2>2. \A b \in Amcs \ {a} : Pending(b) => Pending(b)'
    BY <1>1, <1>3 DEF NoWrite, Pending
  <2>3. \A b \in Amcs : /\ Configurable(b)' => Configurable(b)
                        /\ Configured(b) => Configured(b)'
    BY <1>1 DEF NoWrite, Configurable, Configured
  <2>4. AwaitsDatasource'
    BY <1>1, <2>1, <2>2 DEF NoWrite, Undisturbed, AwaitsDatasource
  <2>5. PushIsCurrent'
    BY <2>1 DEF PushIsCurrent
  <2>6. ConfigNoticed'
    BY <1>1, <2>1, <2>2, <2>3 DEF Undisturbed, ConfigNoticed
  <2> QED BY <2>4, <2>5, <2>6
<1> QED BY <1>1, <1>2, <1>3 DEF Begin, Undisturbed, Undeleted

LEMMA AddFinalizerNoticed ==
    ASSUME AmcInv, Undisturbed, deletes = 0, AddFinalizer
    PROVE  AwaitsDatasource' /\ PushIsCurrent' /\ ConfigNoticed'
<1> DEFINE a == amcR.amc
           o == [amcs[a] EXCEPT !.fin = TRUE]
<1>1. /\ amcR.pc = "addFin" /\ newest /\ Write(a, o) /\ Configure(a, queue)
      /\ UNCHANGED <<tenantOf, secret, config>> /\ AmcTypeOK
  BY DEF AddFinalizer, At, written, AmcInv
<1>2. a \in Amcs /\ amcs[a] \in Amc
  BY <1>1 DEF AmcInv, AmcTypeOK, CopiesExist
<1>3. o \in Amc
  BY <1>2 DEF Amc
<1>4. \A b \in Amcs \ {a} : amcs'[b] = amcs[b] /\ (b \in behind <=> b \in behind')
  BY <1>1, <1>2, <1>3, WriteFacts
<1> QED BY <1>1, <1>2, <1>4, ConfigureNoticed

(* The push gives the tenant the text that was looked up: that of the      *)
(* Secret, unless a newer one is to come.                                  *)
LEMMA PushNoticed ==
    ASSUME AmcInv, AtHome, Undisturbed, deletes = 0, Push \/ PushReplyLost
    PROVE  AwaitsDatasource' /\ PushIsCurrent' /\ ConfigNoticed'
<1> DEFINE a == amcR.amc
           c == [of |-> a, text |-> amcR.text]
<1>1. /\ amcR.pc = "push" /\ amcR'.pc \in {"accept", "idle"} /\ NoWrite
      /\ UNCHANGED <<tenantOf, secret>> /\ queue \subseteq queue'
      /\ config' = [config EXCEPT ![client] = c]
  BY DEF Push, PushReplyLost, Calls, Idle, written
<1>2. /\ client \in Tenants /\ config \in [Tenants -> Config \cup {Absent}] /\ c \in Config
      /\ tenantOf \in [Datasources -> Tenants \cup {Absent}] /\ a \in Amcs
  BY <1>1 DEF AmcInv, AmcTypeOK, Config
<1>3. c.of = a /\ c.text = amcR.text /\ c # Absent
  BY <1>2, AmcAbsentAssumption
<1> HIDE DEF c
<1>4. \A b \in Amcs : Pending(b) => Pending(b)'
  BY <1>1 DEF NoWrite, Pending
<1>5. AwaitsDatasource'
  BY <1>1, <1>4 DEF NoWrite, Undisturbed, AwaitsDatasource
<1>6. PushIsCurrent'
  BY <1>1 DEF PushIsCurrent
<1>7. ConfigNoticed'
  <2>1. ASSUME NEW b \in Amcs, Configurable(b)'
        PROVE  Configured(b)' \/ Pending(b)'
    <3>1. /\ Configurable(b) /\ SecretOf[b] = b /\ DatasourceOf[b] \in Datasources
          /\ DatasourceOf[b] \notin Movable /\ tenantOf[DatasourceOf[b]] \in Tenants
      BY <1>1, <1>2, <2>1, NamesAssumption DEF NoWrite, Configurable
    <3>2. CASE tenantOf[DatasourceOf[b]] = client /\ a = b
      <4>1. config'[tenantOf[DatasourceOf[b]]] = c
        BY <1>1, <1>2, <3>2
      <4>2. Pending(b) \/ amcR.text = secret[SecretOf[b]]
        BY <1>1, <3>1, <3>2 DEF Undisturbed, PushIsCurrent
      <4> QED BY <1>1, <1>3, <1>4, <4>1, <4>2 DEF Configured
    <3>3. CASE tenantOf[DatasourceOf[b]] = client /\ a # b
      <4>1. config'[tenantOf[DatasourceOf[b]]] = c
        BY <1>1, <1>2, <3>3
      <4> QED BY <1>1, <1>3, <3>3, <4>1 DEF Configured
    <3>4. CASE tenantOf[DatasourceOf[b]] # client
      <4>1. a # b
        BY <1>1, <3>1, <3>4 DEF AtHome, PushAtHome
      <4>2. config'[tenantOf[DatasourceOf[b]]] = config[tenantOf[DatasourceOf[b]]]
        BY <1>1, <1>2, <3>1, <3>4
      <4>3. Configured(b) => Configured(b)'
        BY <1>1, <4>2 DEF Configured
      <4>4. Configured(b) \/ Pending(b)
        BY <3>1, <4>1 DEF Undisturbed, ConfigNoticed
      <4> QED BY <1>4, <4>3, <4>4
    <3> QED BY <3>2, <3>3, <3>4
  <2> QED BY <2>1 DEF ConfigNoticed
<1> QED BY <1>5, <1>6, <1>7

(* A Datasource appears, for which its objects are waiting.                *)
LEMMA WriteDsNoticed ==
    ASSUME AmcInv, Undisturbed, deletes = 0, NEW d \in Datasources, WriteDs(d)
    PROVE  AwaitsDatasource' /\ PushIsCurrent' /\ ConfigNoticed'
<1>1. NoWrite /\ UNCHANGED <<secret, queue, amcR, config>> /\ TenantsStay
  BY WriteDsKeepsTenants DEF WriteDs, AmcInv
<1>2. \A a \in Amcs : (Pending(a) <=> Pending(a)') /\ DatasourceOf[a] \in Datasources
  BY <1>1, NamesAssumption DEF NoWrite, Pending
<1>3. AwaitsDatasource'
  BY <1>1, <1>2 DEF NoWrite, TenantsStay, Undisturbed, AwaitsDatasource
<1>4. PushIsCurrent'
  BY <1>1, <1>2 DEF Undisturbed, PushIsCurrent, AmcInv, AmcTypeOK
<1>5. ConfigNoticed'
  <2>1. ASSUME NEW a \in Amcs, Configurable(a)'
        PROVE  Configured(a)' \/ Pending(a)' \/ (amcR'.amc = a /\ amcR'.pc \in {"addFin", "push"})
    <3>1. CASE tenantOf[DatasourceOf[a]] = Absent
      BY <1>1, <1>2, <2>1, <3>1 DEF NoWrite, Configurable, Undisturbed, AwaitsDatasource
    <3>2. CASE tenantOf[DatasourceOf[a]] # Absent
      <4>1. /\ tenantOf'[DatasourceOf[a]] = tenantOf[DatasourceOf[a]] /\ Configurable(a)
            /\ Configured(a) => Configured(a)'
        BY <1>1, <1>2, <2>1, <3>2 DEF NoWrite, TenantsStay, Configurable, Configured
      <4> QED BY <1>1, <1>2, <4>1 DEF Undisturbed, ConfigNoticed
    <3> QED BY <3>1, <3>2
  <2> QED BY <2>1 DEF ConfigNoticed
<1> QED BY <1>3, <1>4, <1>5

(* A Secret changes, for which its namesake is queued, once it is seen.    *)
LEMMA WriteSecretNoticed ==
    ASSUME AmcInv, Undisturbed, deletes = 0, NEW s \in Secrets, WriteSecret(s)
    PROVE  AwaitsDatasource' /\ PushIsCurrent' /\ ConfigNoticed'
<1>1. /\ NoWrite /\ UNCHANGED <<seen, tenantOf, amcR, config>>
      /\ queue' = queue \cup findObjectsForSecret(s)
  BY DEF WriteSecret
<1>2. \A a \in Amcs : Pending(a) => Pending(a)'
  BY <1>1 DEF NoWrite, Pending
<1>3. ASSUME NEW a \in Amcs, SecretOf[a] = a, a = s, amcs[a] # Absent
      PROVE  Pending(a)'
  <2>1. a \in behind \/ seen[a] # Absent
    BY <1>3 DEF AmcInv, CacheFits
  <2>2. seen[a] # Absent => a \in queue'
    BY <1>1, <1>3 DEF findObjectsForSecret
  <2> QED BY <1>1, <2>1, <2>2 DEF NoWrite, Pending
<1>4. \A x \in Secrets \ {s} : secret'[x] = secret[x]
  BY DEF WriteSecret, AmcInv, AmcTypeOK
<1>5. AwaitsDatasource'
  BY <1>1, <1>2 DEF NoWrite, Undisturbed, AwaitsDatasource
<1>6. PushIsCurrent'
  <2>1. ASSUME amcR.pc = "push", SecretOf[amcR.amc] = amcR.amc, NEW a \in Amcs, a = amcR.amc
        PROVE  Pending(a)' \/ amcR.text = secret'[SecretOf[a]]
    <3>1. SecretOf[a] \in Secrets /\ amcs[a] # Absent
      BY <2>1, NamesAssumption DEF AmcInv, PushIsCovered
    <3>2. Pending(a) \/ amcR.text = secret[SecretOf[a]]
      BY <2>1 DEF Undisturbed, PushIsCurrent
    <3> QED BY <1>2, <1>3, <1>4, <2>1, <3>1, <3>2
  <2> QED BY <1>1, <2>1 DEF PushIsCurrent, AmcInv, AmcTypeOK
<1>7. ConfigNoticed'
  <2>1. ASSUME NEW a \in Amcs, Configurable(a)', ~Pending(a)'
        PROVE  Configured(a)' \/ (amcR'.amc = a /\ amcR'.pc \in {"addFin", "push"})
    <3>1. a # s /\ SecretOf[a] = a /\ SecretOf[a] \in Secrets
      BY <1>1, <1>3, <2>1, NamesAssumption DEF NoWrite, Configurable
    <3>2. Configurable(a) /\ (Configured(a) => Configured(a)')
      BY <1>1, <1>4, <2>1, <3>1 DEF NoWrite, Configurable, Configured
    <3> QED BY <1>1, <1>2, <2>1, <3>2 DEF Undisturbed, ConfigNoticed
  <2> QED BY <2>1 DEF ConfigNoticed
<1> QED BY <1>5, <1>6, <1>7

LEMMA NextUndisturbed ==
    ASSUME AmcInv, AmcInv', AtHome, deletes = 0 => Undisturbed, [Next]_vars
    PROVE  (deletes = 0 => Undisturbed)'
<1> SUFFICES ASSUME deletes' = 0
             PROVE  Undisturbed'
  OBVIOUS
<1>1. AmcTypeOK /\ PushIsCovered'
  BY DEF AmcInv
<1>2. deletes = 0 /\ Undisturbed /\ \A a \in Amcs : ~DeleteAmc(a)
  BY <1>1, AmcDeletesGrow
<1>3. Undeleted'
  BY <1>2, NextUndeleted DEF Undisturbed
<1> SUFFICES AwaitsDatasource' /\ PushIsCurrent' /\ ConfigNoticed'
  BY <1>3 DEF Undisturbed
<1>4. CASE UNCHANGED vars
  <2>1. NothingLost /\ UNCHANGED <<tenantOf, secret, config, amcR>>
    BY <1>4 DEF vars, written, NothingLost, Pending
  <2> QED BY <1>1, <1>2, <2>1, NoticedStays
<1>5. ASSUME NEW a \in Amcs, Gone(a) PROVE AwaitsDatasource' /\ PushIsCurrent' /\ ConfigNoticed'
  BY <1>1, <1>2, <1>5, GoneLosesNothing, NoticedStays DEF Gone, written
<1>6. CASE Report
  <2>1. amcR.pc \in {"accept", "reject"} /\ amcR'.pc = "idle"
        /\ UNCHANGED <<tenantOf, secret, config>>
    BY <1>6 DEF Report, At, Idle, written
  <2> QED BY <1>1, <1>2, <1>6, <2>1, OwnWritesLoseNothing, NoticedStays
<1>7. CASE CallFails
  <2>1. amcR'.pc = "idle" /\ NoWrite /\ queue' = queue \cup {amcR.amc}
        /\ UNCHANGED <<tenantOf, secret, config>>
    BY <1>7 DEF CallFails, Idle, written
  <2>2. NothingLost /\ \A a \in Amcs : a = amcR.amc => Pending(a)'
    BY <2>1, NoWriteLosesNothing DEF Pending
  <2> QED BY <1>1, <1>2, <2>1, <2>2, NoticedStays
<1>8. CASE Clean \/ DropFinalizer
  BY <1>2, <1>8 DEF Clean, DropFinalizer, At, Undisturbed, Undeleted
<1>9. CASE \E a \in Amcs : CreateAmc(a) \/ OwnAmc(a) \/ Deliver(a)
  <2>1. NothingLost
    BY <1>9, EnvironmentLosesNothing DEF Environment
  <2>2. UNCHANGED <<tenantOf, secret, config, amcR>>
    BY <1>9 DEF CreateAmc, OwnAmc, Deliver, written
  <2> QED BY <1>1, <1>2, <2>1, <2>2, NoticedStays
<1>10. CASE Crash
  <2>1. NothingLost
    BY <1>10, EnvironmentLosesNothing DEF Environment
  <2>2. /\ UNCHANGED <<tenantOf, secret, config, amcs>> /\ amcR'.pc = "idle"
        /\ \A a \in Amcs : amcs[a] # Absent => Pending(a)'
    BY <1>10 DEF Crash, Idle, written, Pending
  <2> QED BY <1>1, <1>2, <2>1, <2>2, NoticedStays
<1>11. CASE AddFinalizer \/ Push \/ PushReplyLost
  BY <1>2, <1>11, AddFinalizerNoticed, PushNoticed
<1> QED BY <1>2, <1>4, <1>5, <1>6, <1>7, <1>8, <1>9, <1>10, <1>11, BeginNoticed, WriteDsNoticed,
           WriteSecretNoticed DEF Next, Reconcile, Environment

LEMMA InitConfig == Init => ConfigInv
<1> SUFFICES ASSUME Init PROVE ConfigInv
  OBVIOUS
<1>1. amcR.pc = "idle" /\ (\A a \in Amcs : amcs[a] = Absent /\ seen[a] = Absent)
      /\ \A t \in Tenants : config[t] = Absent
  BY DEF Init, Idle
<1> QED BY <1>1 DEF ConfigInv, AtHome, PushAtHome, ConfigAtHome, AmcDeletionNoticed, IsTerminating,
                    Undisturbed, Undeleted, AwaitsDatasource, PushIsCurrent, ConfigNoticed,
                    Configurable

LEMMA ConfigInvHolds == Spec => []ConfigInv
<1>1. AmcInv /\ AmcInv' /\ ConfigInv /\ [Next]_vars => ConfigInv'
  BY NextAtHome, NextDeletionNoticed, NextUndisturbed DEF ConfigInv
<1> QED BY <1>1, InitConfig, AlwaysSound, PTL DEF Spec

(* The tenants of Datasources that stay where they are never get each      *)
(* other's configuration, although all reconciles share one client and the *)
(* cleanup of one object uses the client that another left behind.         *)
THEOREM ConfigsAreAtHome == Spec => []ConfigAtHome
<1>1. ConfigInv => ConfigAtHome
  BY DEF ConfigInv, AtHome
<1> QED BY <1>1, ConfigInvHolds, PTL

(* The deletion of an AlertManagerConfig is never forgotten, whatever      *)
(* fails and wherever the operator dies: there is always an event, a       *)
(* request or a cleanup by which it will be released.                      *)
THEOREM AmcDeletionsAreNoticed == Spec => []AmcDeletionNoticed
<1>1. ConfigInv => AmcDeletionNoticed
  BY DEF ConfigInv
<1> QED BY <1>1, ConfigInvHolds, PTL

(* Nor is, as long as nothing is deleted, a configuration that a tenant is *)
(* still to get: in whatever order the AlertManagerConfig, the Datasource  *)
(* and the Secret of its name are created and edited.                      *)
THEOREM ConfigsAreNoticed == Spec => []ConfigNoticed
<1>1. ConfigInv => ConfigNoticed
  BY DEF ConfigInv, Undisturbed, ConfigNoticed
<1> QED BY <1>1, ConfigInvHolds, PTL
=============================================================================

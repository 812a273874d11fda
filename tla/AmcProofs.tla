----------------------------- MODULE AmcProofs -----------------------------
(***************************************************************************)
(* The AlertManagerConfig controller never pushes a configuration whose    *)
(* cleanup is not assured, for any number of objects, Secrets, Datasources *)
(* and tenants. The argument: only this controller adds and removes the    *)
(* finalizer; what it reads in the cache is old, but an object seen with a *)
(* finalizer and not terminating has lost neither, because the reconcile   *)
(* that removes a finalizer has seen the object terminating, and the cache *)
(* never goes back.                                                        *)
(***************************************************************************)
EXTENDS AlertManagerConfigController, TLAPS

(* Configured objects: finalizer set, deletion not asked for.              *)
Settled(o) == o # Absent /\ o.fin /\ ~o.deleting

(* Of the cache: a stored object that terminates has its finalizer, and a  *)
(* cache that is not behind is equal to the store.                         *)
CacheFits ==
    \A a \in Amcs :
        /\ amcs[a] # Absent /\ amcs[a].deleting => amcs[a].fin
        /\ a \notin behind => seen[a] = amcs[a]

(* What is seen settled still has its finalizer; what is seen terminating  *)
(* is not settled, not even after it was created anew.                     *)
SeenFits ==
    \A a \in Amcs :
        /\ Settled(seen[a]) => amcs[a] # Absent /\ amcs[a].fin
        /\ seen[a] # Absent /\ seen[a].deleting => ~Settled(amcs[a])

(* The copies that somebody is about to send: the newest version exists.   *)
CopiesExist ==
    /\ amcR.pc # "idle" /\ newest => amcs[amcR.amc] # Absent
    /\ \A a \in owning : amcs[a] # Absent
    /\ amcR.pc = "addFin" /\ newest =>
          /\ amcR.amc \notin behind
          /\ ~amcs[amcR.amc].fin

(* An object that is cleaned up is settled nowhere.                        *)
CleaningUp ==
    amcR.pc \in {"clean", "dropFin"} =>
        ~Settled(seen[amcR.amc]) /\ ~Settled(amcs[amcR.amc])

AmcInv == AmcTypeOK /\ CacheFits /\ SeenFits /\ CopiesExist /\ CleaningUp /\ PushIsCovered
----------------------------------------------------------------------------
(* What the API server holds after a write of a.                           *)
LEMMA WriteFacts ==
    ASSUME AmcTypeOK, NEW a \in Amcs, NEW o \in Amc, Write(a, o)
    PROVE  /\ amcs' \in [Amcs -> Amc \cup {Absent}]
           /\ behind' \subseteq Amcs /\ owning' \subseteq owning
           /\ amcs'[a] = Settle(o)
           /\ \A b \in Amcs \ {a} :
                 amcs'[b] = amcs[b] /\ (b \in behind <=> b \in behind')
           /\ a \in behind' \/ (amcs'[a] = amcs[a] /\ (a \in behind <=> a \in behind'))
           /\ a \notin owning' \/ amcs'[a] = amcs[a]
  <1>1. Settle(o) \in Amc \cup {Absent}
    BY DEF Settle
  <1>2. amcs \in [Amcs -> Amc \cup {Absent}] /\ behind \subseteq Amcs
    BY DEF AmcTypeOK
  <1>3. amcs' = [amcs EXCEPT ![a] = Settle(o)]
    BY DEF Write
  <1>4. amcs'[a] = Settle(o) /\ \A b \in Amcs \ {a} : amcs'[b] = amcs[b]
    BY <1>2, <1>3
  <1>5. CASE Settle(o) # amcs[a]
    <2>1. behind' = behind \cup {a} /\ owning' = owning \ {a}
      BY <1>5 DEF Write
    <2>2. behind' \subseteq Amcs /\ a \in behind'
          /\ \A b \in Amcs \ {a} : b \in behind <=> b \in behind'
      BY <1>2, <2>1
    <2>3. owning' \subseteq owning /\ a \notin owning'
      BY <2>1
    <2>4. amcs' \in [Amcs -> Amc \cup {Absent}]
      BY <1>1, <1>2, <1>3
    <2> QED
      BY <1>4, <2>2, <2>3, <2>4
  <1>6. CASE Settle(o) = amcs[a]
    <2>1. behind' = behind /\ owning' = owning
      BY <1>6 DEF Write
    <2> QED
      BY <1>1, <1>2, <1>3, <1>4, <1>6, <2>1
  <1> QED
    BY <1>5, <1>6

(* A configuration that is looked up leaves typed state behind, and pushes *)
(* or reports for the object it was called for.                            *)
LEMMA ConfigureFacts ==
    ASSUME AmcTypeOK, NEW a \in Amcs, NEW w \in SUBSET Amcs, Configure(a, w)
    PROVE  /\ amcR'.pc \in {"idle", "push", "reject"}
           /\ amcR' \in [pc : {"idle", "push", "reject"}, amc : Amcs, text : Nat]
           /\ amcR'.pc # "idle" => amcR'.amc = a
           /\ amcR'.pc = "push" => client' # Absent /\ amcR'.text \in Text
           /\ client' \in Tenants \cup {Absent}
           /\ queue' \subseteq Amcs
  <1>1. DatasourceOf[a] \in Datasources /\ SecretOf[a] \in Secrets /\ Idle.amc \in Amcs
    BY NamesAssumption DEF Idle
  <1>2. tenantOf[DatasourceOf[a]] \in Tenants \cup {Absent}
        /\ secret[SecretOf[a]] \in Nat \cup {Absent}
        /\ client \in Tenants \cup {Absent}
    BY <1>1 DEF AmcTypeOK
  <1> QED
    BY <1>1, <1>2 DEF Configure, Calls, Idle, Text

LEMMA InitSound == Init => AmcInv
  <1> SUFFICES ASSUME Init PROVE AmcInv
    OBVIOUS
  <1>1. Idle.amc \in Amcs /\ Idle.pc = "idle" /\ Idle.text = 0
    BY NamesAssumption DEF Idle
  <1>2. secret \in [Secrets -> Nat \cup {Absent}]
    BY DEF Init
  <1>3. AmcTypeOK
    BY <1>1, <1>2 DEF Init, AmcTypeOK, Idle
  <1> QED
    BY <1>1, <1>3 DEF Init, AmcInv, CacheFits, SeenFits, Settled, CopiesExist,
                      CleaningUp, PushIsCovered
----------------------------------------------------------------------------
(* Steps that write no object: the parts of the invariant about store and  *)
(* cache are as before.                                                    *)
LEMMA NoWriteKeeps ==
    ASSUME AmcInv, NoWrite, UNCHANGED seen
    PROVE  CacheFits' /\ SeenFits' /\ (\A a \in owning' : amcs'[a] # Absent)
  BY DEF AmcInv, NoWrite, CacheFits, SeenFits, Settled, CopiesExist

LEMMA GoneSound ==
    ASSUME AmcInv, NEW a \in Amcs, Gone(a)
    PROVE  AmcInv'
  <1>1. AmcTypeOK'
    BY DEF AmcInv, AmcTypeOK, Gone, NoWrite, written, bounds
  <1> QED
    BY <1>1, NoWriteKeeps
    DEF AmcInv, Gone, NoWrite, CopiesExist, CleaningUp, PushIsCovered, Settled

LEMMA BeginSound ==
    ASSUME AmcInv, NEW a \in Amcs, Begin(a)
    PROVE  AmcInv'
  <1> USE DEF AmcInv
  <1>1. /\ seen[a] # Absent /\ newest' = (a \notin behind)
        /\ NoWrite /\ UNCHANGED <<seen, tenantOf, secret, config, edits, deletes, faults>>
    BY DEF Begin, written, bounds
  <1>2. seen[a] \in Amc /\ queue \ {a} \in SUBSET Amcs
    BY <1>1 DEF AmcTypeOK
  <1>3. newest' => amcs'[a] # Absent /\ seen[a] = amcs[a]
    BY <1>1 DEF CacheFits, NoWrite
  <1>4. CacheFits' /\ SeenFits' /\ (\A b \in owning' : amcs'[b] # Absent)
    BY <1>1, NoWriteKeeps
  <1>5. CASE /\ ~seen[a].fin
             /\ amcR' = Calls("addFin", a, 0)
             /\ queue' = queue \ {a} /\ UNCHANGED client
    <2>1. AmcTypeOK'
      BY <1>1, <1>5 DEF AmcTypeOK, Calls, NoWrite
    <2>2. amcR'.pc = "addFin" /\ amcR'.amc = a
      BY <1>5 DEF Calls
    <2> QED
      BY <1>1, <1>3, <1>4, <1>5, <2>1, <2>2
      DEF CopiesExist, CleaningUp, PushIsCovered, NoWrite
  <1>6. CASE seen[a].fin /\ seen[a].deleting /\ CleanUp(a, queue \ {a})
    <2>1. DatasourceOf[a] \in Datasources
      BY NamesAssumption
    <2>2. /\ amcR'.pc \in {"dropFin", "clean"} /\ amcR'.amc = a
          /\ amcR' \in [pc : {"dropFin", "clean"}, amc : Amcs, text : Nat]
          /\ amcR'.pc = "clean" => client' # Absent
          /\ client' \in Tenants \cup {Absent}
          /\ queue' \subseteq Amcs
      BY <1>2, <1>6, <2>1 DEF CleanUp, Calls, AmcTypeOK
    <2>3. AmcTypeOK'
      BY <1>1, <2>2 DEF AmcTypeOK, NoWrite
    <2>4. CleaningUp'
      BY <1>1, <1>6, <2>2 DEF CleaningUp, Settled, SeenFits, NoWrite
    <2> QED
      BY <1>3, <1>4, <2>2, <2>3, <2>4 DEF CopiesExist, PushIsCovered
  <1>7. CASE seen[a].fin /\ ~seen[a].deleting /\ Configure(a, queue \ {a})
    <2>1. /\ amcR'.pc \in {"idle", "push", "reject"}
          /\ amcR' \in [pc : {"idle", "push", "reject"}, amc : Amcs, text : Nat]
          /\ amcR'.pc # "idle" => amcR'.amc = a
          /\ amcR'.pc = "push" => client' # Absent /\ amcR'.text \in Text
          /\ client' \in Tenants \cup {Absent}
          /\ queue' \subseteq Amcs
      BY <1>2, <1>7, ConfigureFacts
    <2>2. AmcTypeOK'
      BY <1>1, <2>1 DEF AmcTypeOK, NoWrite
    <2>3. PushIsCovered'
      BY <1>1, <1>7, <2>1 DEF PushIsCovered, SeenFits, Settled, NoWrite
    <2> QED
      BY <1>3, <1>4, <2>1, <2>2, <2>3 DEF CopiesExist, CleaningUp
  <1> QED
    BY <1>5, <1>6, <1>7 DEF Begin

LEMMA AddFinalizerSound ==
    ASSUME AmcInv, AddFinalizer
    PROVE  AmcInv'
  <1> USE DEF AmcInv
  <1> DEFINE a == amcR.amc
             o == [amcs[a] EXCEPT !.fin = TRUE]
  <1>1. /\ amcR.pc = "addFin" /\ newest /\ newest' = newest
        /\ Write(a, o) /\ Configure(a, queue)
        /\ UNCHANGED <<seen, tenantOf, secret, config, edits, deletes, faults>>
    BY DEF AddFinalizer, At, written, bounds
  <1>2. a \in Amcs /\ queue \in SUBSET Amcs
    BY DEF AmcTypeOK
  <1>3. amcs[a] \in Amc /\ ~amcs[a].fin /\ ~amcs[a].deleting /\ seen[a] = amcs[a]
    BY <1>1, <1>2 DEF AmcTypeOK, CopiesExist, CacheFits
  <1>4. o \in Amc /\ o.fin /\ ~o.deleting /\ Settle(o) = o /\ o # Absent
    BY <1>3, AmcAbsentAssumption DEF Amc, Settle
  <1>5. /\ amcs' \in [Amcs -> Amc \cup {Absent}]
        /\ behind' \subseteq Amcs /\ owning' \subseteq owning
        /\ amcs'[a] = o
        /\ \A b \in Amcs \ {a} : amcs'[b] = amcs[b] /\ (b \in behind <=> b \in behind')
        /\ a \in behind' \/ amcs'[a] = amcs[a]
        /\ a \notin owning' \/ amcs'[a] = amcs[a]
    BY <1>1, <1>2, <1>4, WriteFacts
  <1>6. /\ amcR'.pc \in {"idle", "push", "reject"}
        /\ amcR' \in [pc : {"idle", "push", "reject"}, amc : Amcs, text : Nat]
        /\ amcR'.pc # "idle" => amcR'.amc = a
        /\ amcR'.pc = "push" => client' # Absent /\ amcR'.text \in Text
        /\ client' \in Tenants \cup {Absent}
        /\ queue' \subseteq Amcs
    BY <1>1, <1>2, ConfigureFacts
  <1>7. AmcTypeOK'
    BY <1>1, <1>5, <1>6 DEF AmcTypeOK
  <1>8. CacheFits'
    BY <1>1, <1>3, <1>4, <1>5 DEF CacheFits
  <1>9. SeenFits'
    <2>1. ~Settled(seen[a]) /\ ~seen[a].deleting
      BY <1>3 DEF Settled
    <2> QED
      BY <1>1, <1>5, <2>1 DEF SeenFits, Settled
  <1>10. CopiesExist'
    BY <1>4, <1>5, <1>6 DEF CopiesExist, AmcTypeOK
  <1>11. CleaningUp' /\ PushIsCovered'
    BY <1>4, <1>5, <1>6 DEF CleaningUp, PushIsCovered
  <1> QED
    BY <1>7, <1>8, <1>9, <1>10, <1>11

LEMMA DropFinalizerSound ==
    ASSUME AmcInv, DropFinalizer
    PROVE  AmcInv'
  <1> USE DEF AmcInv
  <1> DEFINE a == amcR.amc
             o == [amcs[a] EXCEPT !.fin = FALSE]
  <1>1. /\ amcR.pc = "dropFin" /\ newest /\ newest' = newest
        /\ Write(a, o) /\ amcR' = Idle /\ UNCHANGED <<queue, client>>
        /\ UNCHANGED <<seen, tenantOf, secret, config, edits, deletes, faults>>
    BY DEF DropFinalizer, At, written, bounds
  <1>2. a \in Amcs /\ amcs[a] \in Amc
    BY <1>1 DEF AmcTypeOK, CopiesExist
  <1>3. o \in Amc /\ ~o.fin
    BY <1>2 DEF Amc
  <1>4. /\ amcs' \in [Amcs -> Amc \cup {Absent}]
        /\ behind' \subseteq Amcs /\ owning' \subseteq owning
        /\ amcs'[a] = Settle(o)
        /\ \A b \in Amcs \ {a} : amcs'[b] = amcs[b] /\ (b \in behind <=> b \in behind')
        /\ a \in behind' \/ (amcs'[a] = amcs[a] /\ (a \in behind <=> a \in behind'))
        /\ a \notin owning' \/ amcs'[a] = amcs[a]
    BY <1>1, <1>2, <1>3, WriteFacts
  <1> HIDE DEF o
  <1>5. amcs'[a] = Absent \/ (~amcs'[a].fin /\ ~amcs'[a].deleting)
    BY <1>3, <1>4 DEF Settle, Amc
  <1>6. amcR'.pc = "idle" /\ Idle \in [pc : {"idle"}, amc : Amcs, text : Nat]
    BY <1>1, NamesAssumption DEF Idle
  <1>7. AmcTypeOK'
    BY <1>1, <1>4, <1>6 DEF AmcTypeOK
  <1>8. CacheFits'
    BY <1>1, <1>4, <1>5 DEF CacheFits
  <1>9. SeenFits'
    BY <1>1, <1>4, <1>5 DEF SeenFits, CleaningUp, Settled
  <1>10. CopiesExist' /\ CleaningUp' /\ PushIsCovered'
    BY <1>2, <1>4, <1>6 DEF CopiesExist, CleaningUp, PushIsCovered, AmcTypeOK
  <1> QED
    BY <1>7, <1>8, <1>9, <1>10

LEMMA ReportSound ==
    ASSUME AmcInv, Report
    PROVE  AmcInv'
  <1> USE DEF AmcInv
  <1> DEFINE a == amcR.amc
             o == [amcs[a] EXCEPT !.ready = IF amcR.pc = "accept" THEN "True" ELSE "False"]
  <1>1. /\ amcR.pc \in {"accept", "reject"} /\ newest /\ newest' = newest
        /\ Write(a, o) /\ amcR' = Idle /\ UNCHANGED <<queue, client>>
        /\ UNCHANGED <<seen, tenantOf, secret, config, edits, deletes, faults>>
    BY DEF Report, At, written, bounds
  <1>2. a \in Amcs /\ amcs[a] \in Amc
    BY <1>1 DEF AmcTypeOK, CopiesExist
  <1>3. o \in Amc /\ o.fin = amcs[a].fin /\ o.deleting = amcs[a].deleting
    BY <1>2 DEF Amc
  <1> HIDE DEF o
  <1>4. Settle(o) = o /\ o # Absent
    BY <1>2, <1>3, AmcAbsentAssumption DEF Settle, CacheFits
  <1>5. /\ amcs' \in [Amcs -> Amc \cup {Absent}]
        /\ behind' \subseteq Amcs /\ owning' \subseteq owning
        /\ amcs'[a] = o
        /\ \A b \in Amcs \ {a} : amcs'[b] = amcs[b] /\ (b \in behind <=> b \in behind')
        /\ a \in behind' \/ (amcs'[a] = amcs[a] /\ (a \in behind <=> a \in behind'))
        /\ a \notin owning' \/ amcs'[a] = amcs[a]
    BY <1>1, <1>2, <1>3, <1>4, WriteFacts
  <1>6. amcR'.pc = "idle" /\ Idle \in [pc : {"idle"}, amc : Amcs, text : Nat]
    BY <1>1, NamesAssumption DEF Idle
  <1>7. AmcTypeOK'
    BY <1>1, <1>5, <1>6 DEF AmcTypeOK
  <1>8. CacheFits'
    <2>1. amcs[a] # Absent /\ amcs'[a].fin = amcs[a].fin
          /\ amcs'[a].deleting = amcs[a].deleting
      BY <1>2, <1>3, <1>5, AmcAbsentAssumption
    <2> SUFFICES ASSUME NEW b \in Amcs
                 PROVE  /\ amcs'[b] # Absent /\ amcs'[b].deleting => amcs'[b].fin
                        /\ b \notin behind' => seen'[b] = amcs'[b]
      BY DEF CacheFits
    <2>2. CASE b = a
      BY <1>1, <1>5, <2>1, <2>2 DEF CacheFits
    <2>3. CASE b # a
      BY <1>1, <1>5, <2>3 DEF CacheFits
    <2> QED
      BY <2>2, <2>3
  <1>9. SeenFits'
    <2>1. amcs[a] # Absent /\ amcs'[a] # Absent /\ amcs'[a].fin = amcs[a].fin
          /\ amcs'[a].deleting = amcs[a].deleting
      BY <1>2, <1>3, <1>4, <1>5, AmcAbsentAssumption
    <2>2. \A b \in Amcs : Settled(amcs'[b]) <=> Settled(amcs[b])
      BY <1>5, <2>1 DEF Settled
    <2> QED
      BY <1>1, <1>5, <2>1, <2>2 DEF SeenFits
  <1>10. CopiesExist' /\ CleaningUp' /\ PushIsCovered'
    BY <1>2, <1>5, <1>6 DEF CopiesExist, CleaningUp, PushIsCovered, AmcTypeOK
  <1> QED
    BY <1>7, <1>8, <1>9, <1>10

(* The calls to Mimir and the failing calls change no object.              *)
LEMMA CallsSound ==
    ASSUME AmcInv, Clean \/ Push \/ PushReplyLost \/ CallFails
    PROVE  AmcInv'
  <1> USE DEF AmcInv
  <1>1. NoWrite /\ UNCHANGED <<seen, tenantOf, secret, newest, client, edits, deletes>>
    BY DEF Clean, Push, PushReplyLost, CallFails, written, bounds
  <1>2. CacheFits' /\ SeenFits' /\ (\A a \in owning' : amcs'[a] # Absent)
    BY <1>1, NoWriteKeeps
  <1>3. amcR.amc \in Amcs /\ queue \subseteq Amcs
        /\ Idle \in [pc : {"idle"}, amc : Amcs, text : Nat]
        /\ faults \in Nat
    BY NamesAssumption DEF AmcTypeOK, Idle
  <1>4. CASE Clean
    <2>1. amcR.pc = "clean" /\ amcR' = Calls("dropFin", amcR.amc, 0) /\ UNCHANGED queue
      BY <1>4 DEF Clean
    <2>2. client \in Tenants
      BY <2>1 DEF AmcTypeOK
    <2>3. config' \in [Tenants -> Config \cup {Absent}] /\ faults' \in Nat
      BY <1>3, <1>4, <2>2 DEF Clean, AmcTypeOK
    <2>4. AmcTypeOK'
      BY <1>1, <1>3, <2>1, <2>3 DEF AmcTypeOK, NoWrite, Calls
    <2> QED
      BY <1>1, <1>2, <2>1, <2>4
      DEF NoWrite, Calls, CopiesExist, CleaningUp, PushIsCovered, Settled
  <1>5. CASE Push
    <2>1. amcR.pc = "push" /\ amcR' = Calls("accept", amcR.amc, 0)
          /\ UNCHANGED <<queue, faults>>
      BY <1>5 DEF Push, bounds
    <2>2. client \in Tenants /\ [of |-> amcR.amc, text |-> amcR.text] \in Config
      BY <1>3, <2>1 DEF AmcTypeOK, Config
    <2>3. config' \in [Tenants -> Config \cup {Absent}]
      BY <1>5, <2>2 DEF Push, AmcTypeOK
    <2>4. AmcTypeOK'
      BY <1>1, <1>3, <2>1, <2>3 DEF AmcTypeOK, NoWrite, Calls
    <2> QED
      BY <1>1, <1>2, <2>1, <2>4
      DEF NoWrite, Calls, CopiesExist, CleaningUp, PushIsCovered
  <1>6. CASE CallFails
    <2>1. amcR' = Idle /\ queue' \subseteq Amcs /\ UNCHANGED config /\ faults' \in Nat
      BY <1>3, <1>6 DEF CallFails
    <2>2. AmcTypeOK'
      BY <1>1, <1>3, <2>1 DEF AmcTypeOK, NoWrite
    <2> QED
      BY <1>2, <1>3, <2>1, <2>2 DEF CopiesExist, CleaningUp, PushIsCovered
  <1>7. CASE PushReplyLost
    <2>1. amcR.pc = "push" /\ amcR' = Idle /\ queue' \subseteq Amcs /\ faults' \in Nat
      BY <1>3, <1>7 DEF PushReplyLost
    <2>2. client \in Tenants /\ [of |-> amcR.amc, text |-> amcR.text] \in Config
      BY <1>3, <2>1 DEF AmcTypeOK, Config
    <2>3. config' \in [Tenants -> Config \cup {Absent}]
      BY <1>7, <2>2 DEF PushReplyLost, AmcTypeOK
    <2>4. AmcTypeOK'
      BY <1>1, <1>3, <2>1, <2>3 DEF AmcTypeOK, NoWrite
    <2> QED
      BY <1>2, <1>3, <2>1, <2>4 DEF CopiesExist, CleaningUp, PushIsCovered
  <1> QED
    BY <1>4, <1>5, <1>6, <1>7
----------------------------------------------------------------------------
(* A write by somebody else that leaves the finalizer as it is, of an      *)
(* object that exists.                                                     *)
LEMMA OthersSound ==
    ASSUME AmcInv, NEW a \in Amcs, NEW o \in Amc,
           amcs[a] # Absent, o.fin = amcs[a].fin, amcs[a].deleting => o.deleting,
           Write(a, o), Outdates(a), deletes' \in Nat,
           UNCHANGED <<seen, tenantOf, secret, queue, amcR, client, config, edits, faults>>
    PROVE  AmcInv'
  <1> USE DEF AmcInv
  <1>1. /\ amcs' \in [Amcs -> Amc \cup {Absent}]
        /\ behind' \subseteq Amcs /\ owning' \subseteq owning
        /\ amcs'[a] = Settle(o)
        /\ \A b \in Amcs \ {a} : amcs'[b] = amcs[b] /\ (b \in behind <=> b \in behind')
        /\ a \in behind' \/ (amcs'[a] = amcs[a] /\ (a \in behind <=> a \in behind'))
        /\ a \notin owning' \/ amcs'[a] = amcs[a]
    BY WriteFacts
  <1>2. /\ amcs'[a] # Absent => amcs'[a] = o
        /\ amcs'[a] # Absent /\ o.deleting => o.fin
        /\ o.fin => amcs'[a] = o /\ o # Absent
    BY <1>1, AmcAbsentAssumption DEF Settle
  <1>3. newest' = (newest /\ amcR.amc # a) /\ amcR.amc \in Amcs
    BY DEF Outdates, AmcTypeOK
  <1>4. AmcTypeOK'
    BY <1>1, <1>3 DEF AmcTypeOK
  <1>5. CacheFits'
    BY <1>1, <1>2 DEF CacheFits
  <1>6. Settled(amcs'[a]) => Settled(amcs[a])
    BY <1>2 DEF Settled
  <1>7. SeenFits'
    BY <1>1, <1>2, <1>6 DEF SeenFits, Settled
  <1>8. CopiesExist'
    <2>1. /\ amcR'.pc # "idle" /\ newest' => amcs'[amcR'.amc] # Absent
          /\ amcR'.pc = "addFin" /\ newest' =>
                amcR'.amc \notin behind' /\ ~amcs'[amcR'.amc].fin
      BY <1>1, <1>3 DEF CopiesExist
    <2>2. \A b \in owning' : amcs'[b] # Absent
      BY <1>1 DEF CopiesExist, AmcTypeOK
    <2> QED
      BY <2>1, <2>2 DEF CopiesExist
  <1>9. CleaningUp'
    BY <1>1, <1>3, <1>6 DEF CleaningUp, Settled
  <1>10. PushIsCovered'
    BY <1>1, <1>2, <1>3 DEF PushIsCovered
  <1> QED
    BY <1>4, <1>5, <1>7, <1>8, <1>9, <1>10

LEMMA CreateAmcSound ==
    ASSUME AmcInv, NEW a \in Amcs, CreateAmc(a)
    PROVE  AmcInv'
  <1> USE DEF AmcInv
  <1> DEFINE o == [fin |-> FALSE, deleting |-> FALSE, owned |-> FALSE, ready |-> ""]
  <1>1. /\ amcs[a] = Absent /\ o \in Amc
        /\ amcs' = [amcs EXCEPT ![a] = o]
        /\ behind' = behind \cup {a} /\ owning' \subseteq owning \cup {a}
        /\ newest' = (newest /\ amcR.amc # a)
        /\ edits' \in Nat /\ deletes' = deletes /\ faults' = faults
        /\ UNCHANGED <<seen, tenantOf, secret, queue, amcR, client, config>>
    <2>0. edits \in Nat
      BY DEF AmcTypeOK
    <2>1. edits' \in Nat /\ deletes' = deletes /\ faults' = faults
      <3>1. Edit
        BY DEF CreateAmc
      <3> QED
        BY <2>0, <3>1 DEF Edit
    <2>2. o \in Amc
      BY DEF Amc
    <2>3. owning' \subseteq owning \cup {a}
      BY DEF CreateAmc
    <2>4. /\ amcs[a] = Absent /\ amcs' = [amcs EXCEPT ![a] = o]
          /\ behind' = behind \cup {a}
          /\ UNCHANGED <<seen, tenantOf, secret, queue, amcR, client, config>>
      BY DEF CreateAmc, written
    <2>5. newest' = (newest /\ amcR.amc # a)
      BY DEF CreateAmc, Outdates
    <2> QED
      BY <2>1, <2>2, <2>3, <2>4, <2>5
  <1>2. o # Absent
    BY <1>1, AmcAbsentAssumption
  <1>3. amcs' \in [Amcs -> Amc \cup {Absent}] /\ amcs'[a] = o
        /\ \A b \in Amcs \ {a} : amcs'[b] = amcs[b]
    BY <1>1 DEF AmcTypeOK
  <1>4. amcR.amc \in Amcs
    BY DEF AmcTypeOK
  <1>5. AmcTypeOK'
    BY <1>1, <1>3 DEF AmcTypeOK
  <1>6. CacheFits' /\ SeenFits'
    BY <1>1, <1>3 DEF CacheFits, SeenFits, Settled
  <1>7. CopiesExist'
    BY <1>1, <1>2, <1>3, <1>4 DEF CopiesExist, AmcTypeOK
  <1>8. CleaningUp' /\ PushIsCovered'
    BY <1>1, <1>3, <1>4 DEF CleaningUp, PushIsCovered, Settled
  <1> QED
    BY <1>5, <1>6, <1>7, <1>8

LEMMA OwnAmcSound ==
    ASSUME AmcInv, NEW a \in Amcs, OwnAmc(a)
    PROVE  AmcInv'
  <1> DEFINE o == [amcs[a] EXCEPT !.owned = TRUE]
  <1>1. /\ a \in owning /\ Write(a, o) /\ Outdates(a)
        /\ UNCHANGED <<seen, tenantOf, secret, queue, amcR, client, config>>
        /\ UNCHANGED <<edits, deletes, faults>>
    BY DEF OwnAmc, written, bounds
  <1>2. amcs[a] \in Amc /\ amcs[a] # Absent /\ deletes \in Nat
    BY <1>1 DEF AmcInv, CopiesExist, AmcTypeOK
  <1>3. o \in Amc /\ o.fin = amcs[a].fin /\ o.deleting = amcs[a].deleting
    BY <1>2 DEF Amc
  <1> QED
    BY <1>1, <1>2, <1>3, OthersSound

LEMMA DeleteAmcSound ==
    ASSUME AmcInv, NEW a \in Amcs, DeleteAmc(a)
    PROVE  AmcInv'
  <1> DEFINE o == [amcs[a] EXCEPT !.deleting = TRUE]
  <1>1. /\ amcs[a] # Absent /\ Write(a, o) /\ Outdates(a)
        /\ deletes' = deletes + 1
        /\ UNCHANGED <<seen, tenantOf, secret, queue, amcR, client, config, edits, faults>>
    BY DEF DeleteAmc, written
  <1>2. amcs[a] \in Amc /\ deletes' \in Nat
    BY <1>1 DEF AmcInv, AmcTypeOK
  <1>3. o \in Amc /\ o.fin = amcs[a].fin /\ o.deleting
    BY <1>2 DEF Amc
  <1> QED
    BY <1>1, <1>2, <1>3, OthersSound

LEMMA DeliverSound ==
    ASSUME AmcInv, NEW a \in Amcs, Deliver(a)
    PROVE  AmcInv'
  <1> USE DEF AmcInv
  <1>1. /\ seen' = [seen EXCEPT ![a] = amcs[a]]
        /\ behind' = behind \ {a} /\ queue' = queue \cup {a}
        /\ UNCHANGED <<amcs, owning, tenantOf, secret, amcR, newest, client, config>>
        /\ UNCHANGED <<edits, deletes, faults>>
    BY DEF Deliver, written, bounds
  <1>2. seen' \in [Amcs -> Amc \cup {Absent}] /\ seen'[a] = amcs[a]
        /\ \A b \in Amcs \ {a} : seen'[b] = seen[b]
    BY <1>1 DEF AmcTypeOK
  <1>3. AmcTypeOK'
    BY <1>1, <1>2 DEF AmcTypeOK
  <1>4. CacheFits'
    BY <1>1, <1>2 DEF CacheFits
  <1>5. SeenFits'
    BY <1>1, <1>2 DEF SeenFits, Settled
  <1>6. CopiesExist' /\ PushIsCovered'
    BY <1>1 DEF CopiesExist, PushIsCovered
  <1>7. CleaningUp'
    BY <1>1, <1>2 DEF CleaningUp, Settled, AmcTypeOK
  <1> QED
    BY <1>3, <1>4, <1>5, <1>6, <1>7

(* Edits of Datasources and Secrets.                                       *)
LEMMA UsersSound ==
    ASSUME AmcInv, (\E d \in Datasources : WriteDs(d)) \/ (\E s \in Secrets : WriteSecret(s))
    PROVE  AmcInv'
  <1> USE DEF AmcInv
  <1>1. /\ NoWrite /\ UNCHANGED <<seen, amcR, newest, client, config>>
        /\ edits' \in Nat /\ deletes' = deletes /\ faults' = faults
    BY DEF WriteDs, WriteSecret, Edit, AmcTypeOK
  <1>2. /\ tenantOf' \in [Datasources -> Tenants \cup {Absent}]
        /\ secret' \in [Secrets -> Nat \cup {Absent}]
        /\ queue' \subseteq Amcs
    BY DEF WriteDs, WriteSecret, findObjectsForSecret, AmcTypeOK
  <1>3. AmcTypeOK'
    BY <1>1, <1>2 DEF AmcTypeOK, NoWrite
  <1> QED
    BY <1>1, <1>3, NoWriteKeeps
    DEF NoWrite, CopiesExist, CleaningUp, PushIsCovered, Settled

LEMMA CrashSound ==
    ASSUME AmcInv, Crash
    PROVE  AmcInv'
  <1> USE DEF AmcInv
  <1>1. /\ seen' = amcs /\ behind' = {} /\ owning' = {} /\ amcR' = Idle
        /\ newest' = FALSE /\ client' = Absent /\ queue' \subseteq Amcs
        /\ faults' \in Nat
        /\ UNCHANGED <<amcs, tenantOf, secret, config, edits, deletes>>
    BY DEF Crash, written, AmcTypeOK
  <1>2. Idle \in [pc : {"idle"}, amc : Amcs, text : Nat]
    BY NamesAssumption DEF Idle
  <1>3. AmcTypeOK'
    BY <1>1, <1>2 DEF AmcTypeOK
  <1>4. CacheFits' /\ SeenFits'
    BY <1>1 DEF CacheFits, SeenFits, Settled
  <1> QED
    BY <1>1, <1>2, <1>3, <1>4 DEF CopiesExist, CleaningUp, PushIsCovered
----------------------------------------------------------------------------
LEMMA StepSound == AmcInv /\ [Next]_vars => AmcInv'
  <1> SUFFICES ASSUME AmcInv, [Next]_vars PROVE AmcInv'
    OBVIOUS
  <1>1. CASE Reconcile
    BY <1>1, GoneSound, BeginSound, AddFinalizerSound, DropFinalizerSound, ReportSound,
       CallsSound DEF Reconcile
  <1>2. CASE Environment
    BY <1>2, CreateAmcSound, OwnAmcSound, DeleteAmcSound, DeliverSound, UsersSound,
       CrashSound DEF Environment
  <1>3. CASE UNCHANGED vars
    BY <1>3 DEF vars, written, bounds, AmcInv, AmcTypeOK, CacheFits, SeenFits, Settled,
                CopiesExist, CleaningUp, PushIsCovered
  <1> QED
    BY <1>1, <1>2, <1>3 DEF Next

LEMMA AlwaysSound == Spec => []AmcInv
  BY InitSound, StepSound, PTL DEF Spec

(* Every variable keeps its type; in particular what is pushed to Mimir is *)
(* always a text of the Secret, under a client for some tenant.            *)
THEOREM AmcTypeCorrect == Spec => []AmcTypeOK
  <1>1. AmcInv => AmcTypeOK
    BY DEF AmcInv
  <1> QED
    BY <1>1, AlwaysSound, PTL

(* The controller pushes a configuration only while the stored object has  *)
(* its finalizer, however old the object it has read.                      *)
THEOREM PushesAreCovered == Spec => []PushIsCovered
  <1>1. AmcInv => PushIsCovered
    BY DEF AmcInv
  <1> QED
    BY <1>1, AlwaysSound, PTL
=============================================================================

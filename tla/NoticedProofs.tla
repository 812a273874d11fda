--------------------------- MODULE NoticedProofs ---------------------------
(***************************************************************************)
(* Proofs that nothing is forgotten: whatever has changed in the store,    *)
(* some event, request, timer or reconcile will still react to it.         *)
(***************************************************************************)
EXTENDS RuleFlowProofs

(* A step after which the cache is known to be behind on all that changed. *)
Marks == \A x \in Kinds : x \notin behind' => x \notin behind /\ store'[x] = store[x]

LEMMA WriteMarks ==
    ASSUME Sound, NEW c, NEW k \in Kinds, NEW o, NEW holds, Write(c, k, o, holds)
    PROVE  Marks
BY DEF Write, Marks, Sound, TypeInv, TypeOK, ObjectsOK

LEMMA QuietMarks ==
    ASSUME UNCHANGED <<store, behind>>
    PROVE  Marks
BY DEF Marks

LEMMA SloMarks ==
    ASSUME Sound, SloStep
    PROVE  Marks /\ queued \ {"slo"} \subseteq queued'
<1>1. {"slo", "pr", "mr", "amc", "inl"} \subseteq Kinds
  BY DEF Kinds
<1>2. ASSUME NEW k \in Kinds, NEW o, NEW holds, Sends(k, o, holds)
      PROVE  Marks
  BY <1>2, WriteMarks DEF Sends
<1>3. CASE Release \/ Adopt \/ NoDatasource \/ ReportFailure \/ ReportSuccess
  BY <1>1, <1>2, <1>3 DEF Release, Adopt, NoDatasource, ReportFailure, ReportSuccess, Return,
                          ReturnError, Requeue
<1>4. CASE CreateInline \/ UpdateInline \/ PrDone \/ MrDone \/ MrReady
  BY <1>1, <1>2, <1>4 DEF CreateInline, UpdateInline, PrDone, MrDone, MrReady, Goto, Return
<1>5. CASE CreatePr \/ OwnPr \/ CreateMr \/ OwnMr \/ CreateAmc \/ OwnAmc
  BY <1>1, <1>2, <1>5 DEF CreatePr, OwnPr, CreateMr, OwnMr, CreateAmc, OwnAmc, Create, Own, Goto
<1>6. CASE SloBegin \/ LookAtChildren \/ MrFailed
  BY <1>6, QuietMarks DEF SloBegin, LookAtChildren, MrFailed, Dequeue, ReturnError, Requeue
<1>7. CASE CallFails
  BY <1>7, QuietMarks DEF CallFails, AfterFailure, Goto, ReturnError, Requeue
<1> QED BY <1>3, <1>4, <1>5, <1>6, <1>7 DEF SloStep

LEMMA PrMarks ==
    ASSUME Sound, PrStep
    PROVE  Marks /\ queued \ {"pr"} \subseteq queued'
<1>1. "slo" \in Kinds /\ "pr" \in Kinds
  BY DEF Kinds
<1>2. CASE PrReportFailure \/ UpdatePr
  BY <1>1, <1>2, WriteMarks
     DEF PrReportFailure, UpdatePr, PrReturn, PrReturnError, Requeue
<1>3. CASE PrGone \/ PrNoRules \/ PrBegin \/ PrCallFails
  BY <1>3, QuietMarks DEF PrGone, PrNoRules, PrBegin, PrCallFails, PrUnchanged, PrReturnError,
                          Requeue, Dequeue
<1> QED BY <1>2, <1>3 DEF PrStep

LEMMA MrMarks ==
    ASSUME Sound, MrStep
    PROVE  Marks /\ queued \ {"mr"} \subseteq queued'
<1>1. "pr" \in Kinds /\ "mr" \in Kinds
  BY DEF Kinds
<1>2. CASE \/ AddMrFinalizer \/ AddPrFinalizer \/ DropMrFinalizer \/ DropPrFinalizer
           \/ UpdateMr \/ MarkMrReady \/ MrUpdateFails
  BY <1>1, <1>2, WriteMarks
     DEF AddMrFinalizer, AddPrFinalizer, DropMrFinalizer, DropPrFinalizer, UpdateMr,
         MarkMrReady, MrUpdateFails, Stores, Goes, MrReturnError, Requeue
<1>3. CASE \/ MrIgnored \/ MrNoOwner \/ MrBegin \/ Push \/ DeleteGroup \/ FinalizerThere
           \/ MrCallFails \/ MrReplyLost
  BY <1>3, QuietMarks
     DEF MrIgnored, MrNoOwner, MrBegin, Push, DeleteGroup, FinalizerThere, MrCallFails,
         MrReplyLost, Goes, MrReturnError, Requeue, Dequeue
<1> QED BY <1>2, <1>3 DEF MrStep

LEMMA OthersMark ==
    ASSUME Sound, Users \/ (\E k \in Kinds : Collect(k)) \/ TimerFires
    PROVE  Marks /\ queued \subseteq queued'
<1>1. "slo" \in Kinds /\ "sli" \in Kinds /\ "ds" \in Kinds
  BY DEF Kinds
<1>2. CASE TimerFires
  BY <1>2, QuietMarks DEF TimerFires
<1>3. CASE Users \/ \E k \in Kinds : Collect(k)
  BY <1>1, <1>3, WriteMarks
     DEF Users, CreateSlo, EditSlo, WriteSli, WriteDs, UserWrites, UserDeletes, Collect
<1> QED BY <1>2, <1>3

(* An event enqueues the object's own controller, and one of the SLO the   *)
(* PrometheusRule's too.                                                   *)
LEMMA DeliverQueues ==
    ASSUME NEW k \in Kinds, Deliver(k)
    PROVE  /\ UNCHANGED store /\ behind' = behind \ {k} /\ queued \subseteq queued'
           /\ k \in Controllers => k \in queued'
           /\ k = "slo" => "pr" \in queued'
BY DEF Deliver, Watchers, Controllers

LEMMA RestartQueues ==
    ASSUME Sound, Restart
    PROVE  /\ UNCHANGED store /\ behind' = {}
           /\ \A k \in Controllers : store[k] # Absent => k \in queued'
<1>1. Controllers \subseteq Kinds \ {"sli"}
  BY DEF Controllers, Kinds
<1>2. ASSUME NEW k \in Controllers, store[k] # Absent
      PROVE  k \in queued'
  <2>1. k \in Watchers(k, Controlled(store[k]))
    BY DEF Watchers
  <2> QED BY <1>1, <1>2, <2>1 DEF Restart
<1> QED BY <1>2 DEF Restart
----------------------------------------------------------------------------
(* A step that the PrometheusRule controller takes no part in.             *)
LEMMA EditStaysNoticed ==
    ASSUME HeldNoticed, EditNoticed, Marks, prR' = prR, "pr" \in queued => "pr" \in queued'
    PROVE  HeldNoticed' /\ EditNoticed'
<1>1. "slo" \in Kinds /\ "pr" \in Kinds
  BY DEF Kinds
<1>2. CASE "slo" \in behind'
  BY <1>2 DEF HeldNoticed, EditNoticed
<1>3. CASE "slo" \notin behind'
  <2>1. "slo" \notin behind /\ store'["slo"] = store["slo"]
    BY <1>1, <1>3 DEF Marks
  <2>2. "pr" \in behind' \/ ("pr" \notin behind /\ store'["pr"] = store["pr"])
    BY <1>1 DEF Marks
  <2>3. HeldNoticed'
    BY <2>1 DEF HeldNoticed
  <2>4. EditNoticed'
    BY <2>1, <2>2 DEF EditNoticed
  <2> QED BY <2>3, <2>4
<1> QED BY <1>2, <1>3

(* One that the SLO controller takes no part in.                           *)
LEMMA DeletionStaysNoticed ==
    ASSUME DeletionNoticed, Marks, sloR' = sloR, "slo" \in queued => "slo" \in queued'
    PROVE  DeletionNoticed'
<1>1. "slo" \in Kinds
  BY DEF Kinds
<1> QED BY <1>1 DEF DeletionNoticed, Terminating, Marks

(* Deliveries and restarts, after which the queues have what was behind.   *)
LEMMA QueuedNoticed ==
    ASSUME Noticed, UNCHANGED store, NEW k \in Kinds, Deliver(k), UNCHANGED <<sloR, prR>>
    PROVE  Noticed'
<1>1. /\ behind' = behind \ {k} /\ queued \subseteq queued'
      /\ k \in Controllers => k \in queued'
      /\ k = "slo" => "pr" \in queued'
  BY DeliverQueues
<1>2. "slo" \in Controllers /\ "pr" \in Controllers
  BY DEF Controllers
<1>3. HeldNoticed'
  BY <1>1 DEF Noticed, HeldNoticed
<1>4. EditNoticed'
  BY <1>1, <1>2 DEF Noticed, EditNoticed
<1>5. DeletionNoticed'
  BY <1>1, <1>2 DEF Noticed, DeletionNoticed, Terminating
<1> QED BY <1>3, <1>4, <1>5 DEF Noticed

LEMMA RebootNoticed ==
    ASSUME Sound, Reboot
    PROVE  Noticed'
<1>1. /\ UNCHANGED store /\ prR' = PrIdle
      /\ \A k \in Controllers : store[k] # Absent => k \in queued'
  BY RestartQueues DEF Reboot
<1>2. "slo" \in Controllers /\ "pr" \in Controllers
  BY DEF Controllers
<1>3. HeldNoticed' /\ EditNoticed'
  BY <1>1, <1>2 DEF HeldNoticed, EditNoticed, PrIdle
<1>4. DeletionNoticed'
  BY <1>1, <1>2 DEF DeletionNoticed, Terminating
<1> QED BY <1>3, <1>4 DEF Noticed

(* The PrometheusRule controller: it either stores the rules of the write  *)
(* that it read, asks for another reconcile, or reports that the SLO is    *)
(* not ready.                                                              *)
LEMMA PrNoticed ==
    ASSUME Sound, HeldNoticed, EditNoticed, PrStep
    PROVE  HeldNoticed' /\ EditNoticed'
<1>1. "slo" \in Kinds /\ "pr" \in Kinds
  BY DEF Kinds
<1>2. CASE PrGone
  <2>1. UNCHANGED <<store, behind, prR>> /\ queued' = queued \ {"pr"} /\ cache["pr"] = Absent
        /\ prR.pc = "idle"
    BY <1>2 DEF PrGone, PrUnchanged, Dequeue
  <2>2. store["pr"] # Absent => "pr" \in behind
    BY <1>1, <2>1 DEF Sound, Coherent, CacheCoherent
  <2> QED BY <2>1, <2>2 DEF HeldNoticed, EditNoticed
<1>3. CASE PrNoRules
  BY <1>3 DEF PrNoRules, PrUnchanged, HeldNoticed, EditNoticed
<1>4. CASE PrBegin
  <2> DEFINE slo == cache["slo"]
             made == Child(RulesFor(slo), slo)
  <2>1. UNCHANGED <<store, behind>> /\ slo # Absent
    BY <1>4 DEF PrBegin, PrUnchanged
  <2>2. prR'.pc # "idle"
    <3>1. \/ prR' \in {[prR EXCEPT !.pc = "noSli"], [prR EXCEPT !.pc = "noInd"]}
          \/ prR' = [pc |-> "update", made |-> made]
      BY <1>4 DEF PrBegin
    <3>2. prR \in [pc : PrPcs, made : Object("pr") \cup {Absent}]
      BY DEF Sound, TypeInv, PrHoldsOK
    <3> HIDE DEF made
    <3> QED BY <3>1, <3>2
  <2>3. prR'.pc = "update" => prR'.made.spec.slo = slo.spec.gen
    <3>1. CASE prR' \in {[prR EXCEPT !.pc = "noSli"], [prR EXCEPT !.pc = "noInd"]}
      BY <3>1 DEF Sound, TypeInv, PrHoldsOK
    <3>2. CASE prR' = [pc |-> "update", made |-> made]
      <4>1. slo.uid \in Nat
        BY <2>1, HeldNumbers, Fields
      <4>2. made.spec = RulesFor(slo)
        BY <4>1, ChildTypes
      <4>3. RulesFor(slo).slo = slo.spec.gen
        BY DEF RulesFor
      <4> HIDE DEF made
      <4> QED BY <3>2, <4>2, <4>3
    <3> QED BY <1>4, <3>1, <3>2 DEF PrBegin
  <2>4. "slo" \notin behind => slo = store["slo"]
    BY <1>1 DEF Sound, Coherent, CacheCoherent
  <2>5. HeldNoticed'
    BY <2>1, <2>3, <2>4 DEF HeldNoticed
  <2>6. EditNoticed'
    BY <2>2 DEF EditNoticed
  <2> QED BY <2>5, <2>6
<1>5. CASE PrReportFailure
  <2> DEFINE o == [store["slo"] EXCEPT !.ready = "False", !.cond = "False"]
  <2>1. prR'.pc = "idle" /\ Write("pr", "slo", o, {}) /\ store["slo"] # Absent
    BY <1>5 DEF PrReportFailure, PrReturn, PrIdle, Sound, Coherent, PrCoherent
  <2>2. o.ready = "False"
    <3>1. store["slo"] \in ObjectWith(SloSpec)
      BY <2>1, HeldNumbers, Fields
    <3> QED BY <3>1 DEF ObjectWith
  <2> HIDE DEF o
  <2>3. "slo" \in behind' \/ store'["slo"] = Settle(o)
    BY <1>1, <2>1 DEF Write, Sound, TypeInv, TypeOK, ObjectsOK
  <2>4. store'["slo"] # Absent /\ "slo" \notin behind' => store'["slo"].ready = "False"
    BY <2>2, <2>3 DEF Settle
  <2> QED BY <2>1, <2>4 DEF HeldNoticed, EditNoticed
<1>6. CASE UpdatePr
  <2> DEFINE o == Updated("pr", prR.made)
  <2>1. /\ prR.pc = "update" /\ prR'.pc = "idle" /\ Write("pr", "pr", o, {})
        /\ queued \subseteq queued' /\ cache["pr"] # Absent /\ "pr" \notin behind
    BY <1>6 DEF UpdatePr, PrReturn, PrReturnError, PrIdle, Requeue
  <2>2. o.spec = prR.made.spec
    <3>1. store["pr"] # Absent
      BY <1>1, <2>1 DEF Sound, Coherent, CacheCoherent
    <3>2. store["pr"] \in ObjectWith(Content) /\ prR.made \in ObjectWith(Content)
      BY <2>1, <3>1, HeldNumbers, Fields
    <3> QED BY <1>1, <3>2, UpdatedTypes
  <2> HIDE DEF o
  <2>3. /\ store'["slo"] = store["slo"] /\ behind \subseteq behind'
        /\ store'["pr"] # Absent => store'["pr"].spec = prR.made.spec
    BY <1>1, <2>1, <2>2 DEF Write, Settle, Sound, TypeInv, TypeOK, ObjectsOK
  <2> QED BY <2>1, <2>3 DEF HeldNoticed, EditNoticed
<1>7. CASE PrCallFails
  BY <1>7 DEF PrCallFails, PrUnchanged, PrReturnError, PrIdle, Requeue, HeldNoticed, EditNoticed
<1> QED BY <1>2, <1>3, <1>4, <1>5, <1>6, <1>7 DEF PrStep
----------------------------------------------------------------------------
(* The SLO controller: it takes the request of a terminating SLO only to   *)
(* release it, and queues it again if that fails.                          *)
LEMMA ReleaseNoticed ==
    ASSUME Sound, DeletionNoticed, Release
    PROVE  DeletionNoticed'
<1> DEFINE o == HeldSlo(FALSE)
           u == [store["slo"] EXCEPT !.spec = sloR.spec, !.fin = FALSE]
<1>1. sloR.pc # "idle" /\ "slo" \in fresh["slo"] /\ Write("slo", "slo", o, {}) /\ "slo" \in Kinds
  BY DEF Release, At, Sends, Kinds
<1>2. ~o.fin /\ o.deleting = store["slo"].deleting
  <2>1. store["slo"] \in ObjectWith(SloSpec) /\ sloR.spec \in SloSpec
    BY <1>1, SloHeld
  <2>2. u \in ObjectWith(SloSpec) /\ ~u.fin
    BY <2>1 DEF ObjectWith
  <2>3. o = Updated("slo", u)
    BY DEF HeldSlo
  <2> HIDE DEF o, u
  <2> QED BY <1>1, <2>1, <2>2, <2>3, UpdatedTypes
<1> HIDE DEF o, u
<1>3. store'["slo"] = Settle(o)
  BY <1>1 DEF Write, Sound, TypeInv, TypeOK, ObjectsOK
<1>4. ~Terminating("slo")'
  BY <1>2, <1>3 DEF Settle, Terminating
<1> QED BY <1>4 DEF DeletionNoticed

LEMMA SloBeginNoticed ==
    ASSUME Sound, DeletionNoticed, SloBegin
    PROVE  DeletionNoticed'
<1> DEFINE s == cache["slo"]
           read == [SloIdle EXCEPT !.spec = s.spec, !.uid = s.uid]
<1>1. UNCHANGED <<store, behind>> /\ "slo" \in Kinds
  BY DEF SloBegin, Kinds
<1>2. SUFFICES ASSUME Terminating("slo"), "slo" \notin behind
               PROVE  sloR'.pc = "release"
  BY <1>1 DEF DeletionNoticed, Terminating
<1>3. s = store["slo"] /\ s # Absent /\ s.deleting /\ s.fin
  BY <1>1, <1>2, AbsentFacts DEF Sound, Coherent, CacheCoherent, Terminating, Settle
<1>4. sloR' = [read EXCEPT !.pc = "release"]
  BY <1>3 DEF SloBegin
<1> QED BY <1>4 DEF SloIdle

LEMMA SloNoticed ==
    ASSUME Sound, DeletionNoticed, SloStep
    PROVE  DeletionNoticed'
<1>1. "slo" \in Kinds
  BY DEF Kinds
<1>2. ASSUME sloR.pc # "release", queued \subseteq queued', Marks
      PROVE  DeletionNoticed'
  BY <1>1, <1>2 DEF DeletionNoticed, Terminating, Marks
<1>3. CASE Adopt \/ NoDatasource \/ ReportFailure \/ ReportSuccess \/ PrDone \/ MrDone \/ MrReady
  BY <1>2, <1>3, SloMarks
     DEF Adopt, NoDatasource, ReportFailure, ReportSuccess, PrDone, MrDone, MrReady, At, Return,
         ReturnError, Requeue, Goto
<1>4. CASE CreateInline \/ UpdateInline \/ LookAtChildren \/ MrFailed
  BY <1>2, <1>4, SloMarks
     DEF CreateInline, UpdateInline, LookAtChildren, MrFailed, At, Goto, ReturnError, Requeue
<1>5. CASE CreatePr \/ OwnPr \/ CreateMr \/ OwnMr \/ CreateAmc \/ OwnAmc
  BY <1>2, <1>5, SloMarks
     DEF CreatePr, OwnPr, CreateMr, OwnMr, CreateAmc, OwnAmc, Create, Own, At, Goto
<1>6. CASE CallFails
  <2>1. UNCHANGED <<store, behind>>
    BY <1>6 DEF CallFails
  <2>2. CASE sloR.pc = "release"
    <3>1. "slo" \in queued'
      BY <1>6, <2>2 DEF CallFails, AfterFailure, ReturnError, Requeue
    <3> QED BY <3>1 DEF DeletionNoticed
  <2>3. CASE sloR.pc # "release"
    <3>1. queued \subseteq queued'
      BY <1>6 DEF CallFails, AfterFailure, Goto, ReturnError, Requeue
    <3> QED BY <1>2, <2>1, <2>3, <3>1, QuietMarks
  <2> QED BY <2>2, <2>3
<1> QED BY <1>3, <1>4, <1>5, <1>6, ReleaseNoticed, SloBeginNoticed DEF SloStep
----------------------------------------------------------------------------
(* The MimirRule controller, as long as nothing is deleted: a reconcile    *)
(* that ends without an error sets the timer, and any other is queued.     *)
LEMMA PushStaysComing ==
    ASSUME PushesGoOn, Marks, UNCHANGED <<mrR, timer>>, deletes' = 0 => deletes = 0,
           "mr" \in queued => "mr" \in queued'
    PROVE  PushesGoOn'
<1>1. "mr" \in Kinds
  BY DEF Kinds
<1> QED BY <1>1 DEF PushesGoOn, Marks

LEMMA GoesOn ==
    ASSUME NEW r, Goes(r), r.pc # "end", r.pc # "idle"
    PROVE  PushesGoOn'
BY DEF Goes, PushesGoOn

LEMMA MrGoesOn ==
    ASSUME Sound, PushesGoOn, MrStep,
           mrR.pc \notin {"delete", "dropMrFin", "dropPrFin"},
           store["mr"] # Absent => cache["pr"] # Absent
    PROVE  PushesGoOn'
<1>1. "mr" \in Kinds /\ "pr" \in Kinds
  BY DEF Kinds
<1>2. mrR \in MrGoing
      /\ (mrR.pc \in MrHolding => mrR.rules \in Content /\ mrR.spec \in MimirRuleSpec)
  BY DEF Sound, TypeInv, MrHoldsOK, MrGoing, MrReconcile
<1>3. CASE MrIgnored
  <2>1. UNCHANGED <<store, behind>> /\ (cache["pr"] = Absent \/ cache["mr"] = Absent)
    BY <1>3 DEF MrIgnored
  <2>2. store["mr"] # Absent => "mr" \in behind
    BY <1>1, <2>1 DEF Sound, Coherent, CacheCoherent
  <2> QED BY <2>1, <2>2 DEF PushesGoOn
<1>4. CASE MrNoOwner
  BY <1>4 DEF MrNoOwner, MrUnchanged, PushesGoOn
<1>5. CASE MrBegin
  <2> DEFINE read == [pc |-> "delete", rules |-> cache["pr"].spec, prFin |-> cache["pr"].fin,
                      spec |-> cache["mr"].spec, mrFin |-> cache["mr"].fin, uid |-> 0,
                      todo |-> RuleGroups(cache["pr"].spec)]
  <2>1. mrR' = read \/ mrR' = [read EXCEPT !.pc = "push", !.uid = cache["slo"].uid]
    BY <1>5 DEF MrBegin
  <2>2. read.pc = "delete" /\ [read EXCEPT !.pc = "push", !.uid = cache["slo"].uid].pc = "push"
    OBVIOUS
  <2> HIDE DEF read
  <2>3. mrR'.pc # "idle"
    BY <2>1, <2>2
  <2> QED BY <2>3 DEF PushesGoOn
<1>6. CASE Push
  <2> DEFINE r == [mrR EXCEPT !.todo = Tail(@)]
  <2>1. r \in MrGoing /\ r.rules \in Content /\ r.spec \in MimirRuleSpec /\ r.pc = "push"
    BY <1>2, <1>6, TodoFacts DEF Push, MrGoing, MrReconcile, MrHolding, Sound, TypeInv, MrHoldsOK
  <2>2. Goes(IF r.todo = <<>> THEN AfterPush(r) ELSE r)
    BY <1>6 DEF Push
  <2> HIDE DEF r
  <2>3. AfterPush(r).pc \in {"done", "update", "addPrFin", "addMrFin"}
    BY <2>1, AfterTypes
  <2> QED BY <2>1, <2>2, <2>3, GoesOn
<1>7. CASE AddMrFinalizer \/ AddPrFinalizer \/ FinalizerThere
  <2> DEFINE m == [mrR EXCEPT !.spec = cache["mr"].spec]
             p == [mrR EXCEPT !.rules = cache["pr"].spec]
  <2>1. \/ mrR.pc = "addMrFin" /\ cache["mr"] # Absent /\ Goes(AfterMrFinalizer(m))
        \/ mrR.pc = "addPrFin" /\ cache["pr"] # Absent /\ Goes(AfterFinalizers(p))
    BY <1>7 DEF AddMrFinalizer, AddPrFinalizer, FinalizerThere, Attempt
  <2>2. /\ cache["mr"] # Absent => cache["mr"].spec \in MimirRuleSpec
        /\ cache["pr"] # Absent => cache["pr"].spec \in Content
    BY HeldNumbers, Fields DEF ObjectWith
  <2>3. CASE mrR.pc = "addMrFin" /\ cache["mr"] # Absent /\ Goes(AfterMrFinalizer(m))
    <3>1. m \in MrGoing /\ m.rules \in Content /\ m.spec \in MimirRuleSpec
      BY <1>2, <2>2, <2>3 DEF MrGoing, MrReconcile, MrHolding
    <3> HIDE DEF m
    <3>2. AfterMrFinalizer(m).pc \in {"done", "update", "addPrFin"}
      BY <3>1, AfterTypes
    <3> QED BY <2>3, <3>2, GoesOn
  <2>4. CASE mrR.pc = "addPrFin" /\ cache["pr"] # Absent /\ Goes(AfterFinalizers(p))
    <3>1. p \in MrGoing /\ p.rules \in Content /\ p.spec \in MimirRuleSpec
      BY <1>2, <2>2, <2>4 DEF MrGoing, MrReconcile, MrHolding
    <3> HIDE DEF p
    <3>2. AfterFinalizers(p).pc \in {"done", "update"}
      BY <3>1, AfterTypes
    <3> QED BY <2>4, <3>2, GoesOn
  <2> QED BY <2>1, <2>3, <2>4
<1>8. CASE UpdateMr \/ MarkMrReady
  BY <1>8 DEF UpdateMr, MarkMrReady, Goes, MrIdle, PushesGoOn
<1>9. CASE DeleteGroup \/ DropMrFinalizer \/ DropPrFinalizer
  BY <1>2, <1>9 DEF DeleteGroup, DropMrFinalizer, DropPrFinalizer, Attempt
<1>10. CASE MrCallFails \/ MrReplyLost \/ MrUpdateFails
  BY <1>10 DEF MrCallFails, MrReplyLost, MrUpdateFails, MrReturnError, Requeue, PushesGoOn
<1> QED BY <1>3, <1>4, <1>5, <1>6, <1>7, <1>8, <1>9, <1>10 DEF MrStep

(* What the MimirRule controller asks for, or is asked to do, next.        *)
LEMMA GoesTo ==
    ASSUME NEW r, Goes(r)
    PROVE  mrR' = r \/ mrR'.pc = "idle"
BY DEF Goes, MrIdle

(* As long as the rules stand, so they do after a reconcile.               *)
LEMMA MrKeepsRules ==
    ASSUME Sound, RulesStand, MrStep
    PROVE  RulesStand'
<1> DEFINE Ends(pc) == pc \in {"delete", "dropMrFin", "dropPrFin"}
<1>1. "mr" \in Kinds /\ "pr" \in Kinds /\ Generated = {"pr", "mr"} /\ UNCHANGED cache
  BY DEF Kinds, Generated, MrStep, MrIgnored, MrNoOwner, MrBegin, Push, DeleteGroup,
         AddMrFinalizer, AddPrFinalizer, FinalizerThere, DropMrFinalizer, DropPrFinalizer,
         UpdateMr, MarkMrReady, MrCallFails, MrReplyLost, MrUpdateFails, Stores, MrUnchanged
<1>2. /\ mrR \in MrGoing /\ ~Ends(mrR.pc)
      /\ (mrR.pc \in MrHolding => mrR.rules \in Content /\ mrR.spec \in MimirRuleSpec)
  BY DEF Sound, TypeInv, MrHoldsOK, MrGoing, MrReconcile, RulesStand
<1>3. /\ store["pr"] \in ObjectWith(Content) /\ cache["pr"] \in ObjectWith(Content)
      /\ store["mr"] \in ObjectWith(MimirRuleSpec) /\ cache["mr"] \in ObjectWith(MimirRuleSpec)
      /\ ~store["mr"].deleting /\ ~cache["mr"].deleting /\ ~cache["pr"].deleting
  BY <1>1, HeldNumbers, Fields DEF RulesStand, Standing, Undeleted
<1>4. ASSUME UNCHANGED store, ~Ends(mrR'.pc) PROVE RulesStand'
  BY <1>1, <1>4 DEF RulesStand
<1>5. ASSUME NEW k \in Generated, NEW o \in Object(k), ~o.deleting, Write("mr", k, o, {}),
             ~Ends(mrR'.pc)
      PROVE  RulesStand'
  <2>1. Settle(o) = o /\ Standing(o)
    BY <1>1, <1>5, AbsentFacts DEF Settle, Standing, Undeleted
  <2>2. store' = [store EXCEPT ![k] = o]
    BY <1>5, <2>1 DEF Write
  <2>3. \A x \in Generated : Standing(store'[x])
    BY <1>1, <1>5, <2>1, <2>2 DEF RulesStand, Sound, TypeInv, TypeOK, ObjectsOK
  <2> QED BY <1>1, <1>5, <2>3 DEF RulesStand
<1>6. CASE MrIgnored \/ MrNoOwner
  BY <1>2, <1>4, <1>6 DEF MrIgnored, MrNoOwner
<1>7. CASE MrBegin
  <2> DEFINE read == [pc |-> "delete", rules |-> cache["pr"].spec, prFin |-> cache["pr"].fin,
                      spec |-> cache["mr"].spec, mrFin |-> cache["mr"].fin, uid |-> 0,
                      todo |-> RuleGroups(cache["pr"].spec)]
  <2>1. UNCHANGED store /\ mrR' = [read EXCEPT !.pc = "push", !.uid = cache["slo"].uid]
    BY <1>3, <1>7 DEF MrBegin
  <2>2. [read EXCEPT !.pc = "push", !.uid = cache["slo"].uid].pc = "push"
    OBVIOUS
  <2> HIDE DEF read
  <2> QED BY <1>4, <2>1, <2>2
<1>8. CASE Push
  <2> DEFINE r == [mrR EXCEPT !.todo = Tail(@)]
  <2>1. r \in MrGoing /\ r.rules \in Content /\ r.spec \in MimirRuleSpec /\ r.pc = "push"
    BY <1>2, <1>8, TodoFacts DEF Push, MrGoing, MrReconcile, MrHolding, Sound, TypeInv, MrHoldsOK
  <2>2. Goes(IF r.todo = <<>> THEN AfterPush(r) ELSE r) /\ UNCHANGED store
    BY <1>8 DEF Push
  <2> HIDE DEF r
  <2>3. ~Ends(AfterPush(r).pc)
    BY <2>1, AfterTypes
  <2> QED BY <1>4, <2>1, <2>2, <2>3, GoesTo
<1>9. CASE AddMrFinalizer \/ AddPrFinalizer \/ FinalizerThere
  <2> DEFINE m == [mrR EXCEPT !.spec = cache["mr"].spec]
             p == [mrR EXCEPT !.rules = cache["pr"].spec]
             withMr == [cache["mr"] EXCEPT !.fin = TRUE]
             withPr == [cache["pr"] EXCEPT !.fin = TRUE]
  <2>1. \/ mrR.pc = "addMrFin" /\ Goes(AfterMrFinalizer(m))
        \/ mrR.pc = "addPrFin" /\ Goes(AfterFinalizers(p))
    BY <1>9 DEF AddMrFinalizer, AddPrFinalizer, FinalizerThere, Attempt
  <2>2. \/ UNCHANGED store
        \/ Write("mr", "mr", withMr, {}) \/ Write("mr", "pr", withPr, {})
    BY <1>9 DEF AddMrFinalizer, AddPrFinalizer, FinalizerThere, Stores
  <2>3. /\ withMr \in Object("mr") /\ ~withMr.deleting
        /\ withPr \in Object("pr") /\ ~withPr.deleting
    BY <1>3, ObjectFacts DEF ObjectWith
  <2>4. ~Ends(mrR'.pc)
    <3>1. CASE mrR.pc = "addMrFin" /\ Goes(AfterMrFinalizer(m))
      <4>1. m \in MrGoing /\ m.rules \in Content /\ m.spec \in MimirRuleSpec
        BY <1>2, <1>3, <3>1 DEF MrGoing, MrReconcile, MrHolding, ObjectWith
      <4> HIDE DEF m
      <4>2. AfterMrFinalizer(m).pc \in {"done", "update", "addPrFin"}
        BY <4>1, AfterTypes
      <4> QED BY <3>1, <4>2, GoesTo
    <3>2. CASE mrR.pc = "addPrFin" /\ Goes(AfterFinalizers(p))
      <4>1. p \in MrGoing /\ p.rules \in Content /\ p.spec \in MimirRuleSpec
        BY <1>2, <1>3, <3>2 DEF MrGoing, MrReconcile, MrHolding, ObjectWith
      <4> HIDE DEF p
      <4>2. AfterFinalizers(p).pc \in {"done", "update"}
        BY <4>1, AfterTypes
      <4> QED BY <3>2, <4>2, GoesTo
    <3> QED BY <2>1, <3>1, <3>2
  <2> HIDE DEF withMr, withPr
  <2> QED BY <1>1, <1>4, <1>5, <2>2, <2>3, <2>4
<1>10. CASE UpdateMr
  <2> DEFINE child == Child(WantedSpec(mrR), [uid |-> mrR.uid])
             o == Updated("mr", child)
  <2>1. mrR.pc = "update" /\ Write("mr", "mr", o, {}) /\ ~Ends(mrR'.pc)
    BY <1>10 DEF UpdateMr, Attempt, Stores, Goes, MrIdle
  <2>2. WantedSpec(mrR) \in MimirRuleSpec /\ mrR.uid \in Nat
    BY <1>2, <2>1 DEF WantedSpec, MimirRuleSpec, MrHolding, MrGoing, MrReconcile
  <2>3. child \in ObjectWith(MimirRuleSpec)
    BY <2>2, ChildTypes
  <2> HIDE DEF child
  <2>4. o \in Object("mr") /\ ~o.deleting
    BY <1>1, <1>3, <2>3, UpdatedTypes, ObjectFacts
  <2> QED BY <1>1, <1>5, <2>1, <2>4
<1>11. CASE MarkMrReady \/ MrUpdateFails
  <2>1. \E status \in Status : Write("mr", "mr", [cache["mr"] EXCEPT !.ready = status], {})
    BY <1>11 DEF MarkMrReady, MrUpdateFails, Stores, Status
  <2>2. \A status \in Status : /\ [cache["mr"] EXCEPT !.ready = status] \in Object("mr")
                               /\ ~[cache["mr"] EXCEPT !.ready = status].deleting
    BY <1>3, ObjectFacts DEF ObjectWith
  <2>3. ~Ends(mrR'.pc)
    BY <1>11 DEF MarkMrReady, MrUpdateFails, MrReturnError, Goes, MrIdle
  <2> QED BY <1>1, <1>5, <2>1, <2>2, <2>3
<1>12. CASE DeleteGroup \/ DropMrFinalizer \/ DropPrFinalizer
  BY <1>2, <1>12 DEF DeleteGroup, DropMrFinalizer, DropPrFinalizer, Attempt
<1>13. CASE MrCallFails \/ MrReplyLost
  BY <1>4, <1>13 DEF MrCallFails, MrReplyLost, MrReturnError, MrIdle
<1> QED BY <1>6, <1>7, <1>8, <1>9, <1>10, <1>11, <1>12, <1>13 DEF MrStep

(* The pushes of rules that stand do not stop either, whatever has been    *)
(* deleted.                                                                *)
LEMMA StandingGoesOn ==
    ASSUME Sound, RulesStand, PushesGoOn,
           \/ MrStep
           \/ (TimerFires \/ \E k \in Kinds : Deliver(k)) /\ mrR' = mrR
           \/ Reboot
    PROVE  RulesStand' /\ PushesGoOn'
<1>1. CASE MrStep
  <2>1. mrR.pc \notin {"delete", "dropMrFin", "dropPrFin"} /\ cache["pr"] # Absent
    BY DEF RulesStand, Standing, Generated
  <2> QED BY <1>1, <2>1, MrGoesOn, MrKeepsRules
<1>2. CASE TimerFires /\ mrR' = mrR
  BY <1>2 DEF TimerFires, RulesStand, PushesGoOn
<1>3. ASSUME NEW k \in Kinds, Deliver(k), mrR' = mrR
      PROVE  RulesStand' /\ PushesGoOn'
  <2>1. UNCHANGED <<store, timer>> /\ cache' = [cache EXCEPT ![k] = store[k]]
    BY <1>3 DEF Deliver
  <2>2. \A x \in Generated : cache'[x] \in {cache[x], store[x]}
    BY <1>3, <2>1 DEF Sound, TypeInv, TypeOK, ObjectsOK, Generated, Kinds
  <2>3. RulesStand'
    BY <1>3, <2>1, <2>2 DEF RulesStand
  <2>4. /\ behind' = behind \ {k} /\ queued \subseteq queued'
        /\ k \in Controllers => k \in queued'
    BY <1>3, DeliverQueues
  <2> QED BY <1>3, <2>1, <2>3, <2>4 DEF PushesGoOn, Controllers, Deliver
<1>4. CASE Reboot
  <2>1. UNCHANGED store /\ \A k \in Controllers : store[k] # Absent => k \in queued'
    BY <1>4, RestartQueues DEF Reboot
  <2>2. cache' = store /\ mrR'.pc = "idle"
    BY <1>4 DEF Reboot, Restart, MrIdle
  <2> QED BY <2>1, <2>2 DEF PushesGoOn, RulesStand, Controllers
<1> QED BY <1>1, <1>2, <1>3, <1>4

(* They stand at the start, if they exist.                                 *)
LEMMA StartStands ==
    ASSUME NEW present, NEW shape \in Shapes, NEW t \in Tenants, NEW ctrl \in BOOLEAN,
           Generated \subseteq present, ObjectsInit(present, shape, t, ctrl), MrInit
    PROVE  RulesStand
<1> DEFINE made == "pr" \in present
<1>1. /\ store = [k \in Kinds |-> IF k \in Initially(shape, present)
                                 THEN InitialObjects(shape, t, ctrl, made)[k] ELSE Absent]
      /\ cache = store
  BY DEF ObjectsInit
<1>m. made \in BOOLEAN
  OBVIOUS
<1> HIDE DEF made
<1>2. ASSUME NEW k \in Generated PROVE Standing(store[k])
  <2>1. k \in Kinds /\ k \in Initially(shape, present)
    BY DEF Generated, Kinds, Initially
  <2>2. /\ InitialObjects(shape, t, ctrl, made)[k] \in Object(k)
        /\ ~InitialObjects(shape, t, ctrl, made)[k].deleting
    BY <1>m, <2>1, InitialTypes, InitialFields
  <2> QED BY <1>1, <2>1, <2>2, AbsentFacts DEF Standing, Undeleted
<1> QED BY <1>1, <1>2 DEF RulesStand, MrInit, MrIdle

(* The other controllers leave the timer alone.                            *)
LEMMA TimerKept ==
    ASSUME SloStep \/ PrStep \/ Users \/ \E k \in Kinds : Collect(k) \/ Deliver(k)
    PROVE  UNCHANGED timer
<1>1. CASE SloStep
  BY <1>1 DEF SloStep, SloBegin, Release, Adopt, NoDatasource, ReportFailure,
              ReportSuccess, CreateInline, UpdateInline, LookAtChildren, CreatePr, OwnPr, PrDone,
              CreateMr, OwnMr, MrDone, MrReady, MrFailed, CreateAmc, OwnAmc, CallFails, Create,
              Own, Sends, External
<1>2. CASE PrStep
  BY <1>2 DEF PrStep, PrGone, PrNoRules, PrBegin, PrReportFailure, UpdatePr, PrCallFails,
              PrUnchanged, External
<1>3. CASE Users \/ \E k \in Kinds : Collect(k) \/ Deliver(k)
  BY <1>3 DEF Users, CreateSlo, EditSlo, WriteSli, WriteDs, UserWrites, UserDeletes, Deliver,
              Collect, External
<1> QED BY <1>1, <1>2, <1>3

LEMMA NextGoesOn ==
    ASSUME IInv, PushesGoOn, [Next]_vars
    PROVE  PushesGoOn'
<1>1. CASE deletes' # 0
  BY <1>1 DEF PushesGoOn
<1>2. CASE deletes' = 0
  <2>1. Sound /\ Live /\ deletes = 0
    BY <1>2, DeletesGrow DEF IInv
  <2>2. CASE UNCHANGED vars
    BY <2>2 DEF vars, clusterVars, PushesGoOn
  <2>3. CASE SloCtl
    BY <2>1, <2>3, SloMarks, TimerKept, PushStaysComing DEF SloCtl
  <2>4. CASE PrCtl
    BY <2>1, <2>4, PrMarks, TimerKept, PushStaysComing DEF PrCtl
  <2>5. CASE MrCtl
    BY <2>1, <2>5, MrGoesOn DEF MrCtl, Live, Ordered, MrLive, MrHoldsLive
  <2>6. CASE Environment
    <3>1. CASE TimerFires
      BY <3>1 DEF TimerFires, PushesGoOn
    <3>2. ASSUME NEW k \in Kinds, Deliver(k) PROVE PushesGoOn'
      <4>1. /\ UNCHANGED store /\ behind' = behind \ {k} /\ queued \subseteq queued'
            /\ k \in Controllers => k \in queued'
        BY <3>2, DeliverQueues
      <4>2. UNCHANGED timer /\ mrR' = mrR /\ "mr" \in Controllers
        BY <2>6, <3>2, TimerKept DEF Environment, Controllers
      <4> QED BY <2>1, <4>1, <4>2 DEF PushesGoOn
    <3>3. CASE Users \/ \E k \in Kinds : Collect(k)
      BY <2>1, <2>6, <3>3, OthersMark, TimerKept, PushStaysComing DEF Environment
    <3> QED BY <2>6, <3>1, <3>2, <3>3 DEF Environment
  <2>7. CASE Crash \/ Panic
    <3>1. UNCHANGED store /\ \A k \in Controllers : store[k] # Absent => k \in queued'
      BY <2>1, <2>7, RestartQueues DEF Crash, Panic, Reboot
    <3> QED BY <3>1 DEF PushesGoOn, Controllers
  <2> QED BY <2>2, <2>3, <2>4, <2>5, <2>6, <2>7 DEF Next
<1> QED BY <1>1, <1>2
----------------------------------------------------------------------------
LEMMA NextNoticed ==
    ASSUME Sound, Noticed, [Next]_vars
    PROVE  Noticed'
<1>1. CASE UNCHANGED vars
  BY <1>1 DEF vars, clusterVars, Noticed, HeldNoticed, EditNoticed, DeletionNoticed, Terminating
<1>2. CASE SloCtl
  BY <1>2, SloMarks, SloNoticed, EditStaysNoticed DEF SloCtl, Noticed
<1>3. CASE PrCtl
  BY <1>3, PrMarks, PrNoticed, DeletionStaysNoticed DEF PrCtl, Noticed
<1>4. CASE MrCtl
  BY <1>4, MrMarks, EditStaysNoticed, DeletionStaysNoticed DEF MrCtl, Noticed
<1>5. CASE Environment
  <2>1. ASSUME NEW k \in Kinds, Deliver(k) PROVE Noticed'
    BY <1>5, <2>1, QueuedNoticed DEF Environment, Deliver
  <2>2. CASE Users \/ (\E k \in Kinds : Collect(k)) \/ TimerFires
    BY <1>5, <2>2, OthersMark, EditStaysNoticed, DeletionStaysNoticed DEF Environment, Noticed
  <2> QED BY <1>5, <2>1, <2>2 DEF Environment
<1>6. CASE Crash \/ Panic
  BY <1>6, RebootNoticed DEF Crash, Panic
<1> QED BY <1>1, <1>2, <1>3, <1>4, <1>5, <1>6 DEF Next

LEMMA InitNoticed ==
    ASSUME Init
    PROVE  Noticed
<1>1. Alive /\ Sound
  BY InitLive, InitSound DEF Live
<1>2. "slo" \in Kinds /\ "pr" \in Kinds
  BY DEF Kinds
<1>3. prR = PrIdle /\ sloR = SloIdle
  BY DEF Init, PrInit, SloInit
<1>4. HeldNoticed
  BY <1>3 DEF HeldNoticed, PrIdle
<1>5. DeletionNoticed
  BY <1>1, <1>2 DEF DeletionNoticed, Terminating, Alive, Undeleted
<1>6. EditNoticed
  <2>1. PICK present \in Starts, shape \in Shapes, t \in Tenants, ctrl \in BOOLEAN :
          /\ ObjectsInit(present, shape, t, ctrl)
          /\ queued = (IF "slo" \in present THEN {"slo", "pr"} ELSE {})
                       \cup (present \cap {"pr", "mr"})
    BY DEF Init, ClusterInit
  <2>2. store["slo"] # Absent => "slo" \in present
    BY <1>2, <2>1 DEF ObjectsInit, Initially
  <2> QED BY <2>1, <2>2 DEF EditNoticed
<1> QED BY <1>4, <1>5, <1>6 DEF Noticed

LEMMA InitGoesOn ==
    ASSUME Init
    PROVE  PushesGoOn
<1>1. PICK present \in Starts, shape \in Shapes, t \in Tenants, ctrl \in BOOLEAN :
        /\ ObjectsInit(present, shape, t, ctrl)
        /\ queued = (IF "slo" \in present THEN {"slo", "pr"} ELSE {})
                     \cup (present \cap {"pr", "mr"})
  BY DEF Init, ClusterInit
<1>2. store["mr"] # Absent => "mr" \in present
  BY <1>1 DEF ObjectsInit, Initially, Kinds
<1> QED BY <1>1, <1>2 DEF PushesGoOn

LEMMA NoticedHolds == Spec => []Noticed
<1>1. Sound /\ Noticed /\ [Next]_vars => Noticed'
  BY NextNoticed
<1> QED BY <1>1, InitNoticed, SoundHolds, PTL DEF Spec

(* An edit of an SLO is never forgotten: whatever fails or is deleted,     *)
(* however old the objects are that the controllers read, and wherever the *)
(* operator dies, there is always something that will bring the            *)
(* PrometheusRule up to date, or the SLO says that it is not ready.        *)
THEOREM EditsAreNoticed == Spec => []EditNoticed
BY NoticedHolds, PTL DEF Noticed

(* Nor is the deletion of an SLO: until its finalizer is removed there is  *)
(* an event, a request or a reconcile that will remove it.                 *)
THEOREM DeletionsAreNoticed == Spec => []DeletionNoticed
BY NoticedHolds, PTL DEF Noticed

(* As long as nobody deletes an object, there is always a next reconcile   *)
(* of an existing MimirRule to come, which pushes the rules again: Mimir   *)
(* is brought up to date even if it has lost them.                         *)
THEOREM PushesNeverStop == Spec => []PushesGoOn
<1>1. IInv /\ PushesGoOn /\ [Next]_vars => PushesGoOn'
  BY NextGoesOn
<1> QED BY <1>1, InitGoesOn, IInvHolds, PTL DEF Spec
----------------------------------------------------------------------------
(* The first request of a reconcile finds the SLO unless the cache lacks   *)
(* it, and then it does not end at once.                                   *)
LEMMA SloBegins ==
    ASSUME Sound, SloBegin
    PROVE  /\ UNCHANGED <<store, behind>> /\ queued' = queued \ {"slo"}
           /\ sloR'.pc \notin {"ownPr", "prDone"}
           /\ cache["slo"] # Absent /\ ~cache["slo"].deleting => sloR'.pc # "idle"
<1> DEFINE s == cache["slo"]
           read == [SloIdle EXCEPT !.spec = s.spec, !.uid = s.uid]
<1>1. UNCHANGED <<store, behind>> /\ queued' = queued \ {"slo"} /\ sloR.pc = "idle"
  BY DEF SloBegin, Dequeue
<1>2. CASE s = Absent \/ (s.deleting /\ ~s.fin)
  <2>1. sloR' = sloR
    BY <1>2 DEF SloBegin
  <2> QED BY <1>1, <1>2, <2>1
<1>3. CASE s # Absent /\ ~(s.deleting /\ ~s.fin)
  <2>1. sloR' = IF s.deleting THEN [read EXCEPT !.pc = "release"]
                ELSE IF ~s.fin THEN [read EXCEPT !.pc = "adopt"]
                ELSE DependenciesStep(read)
    BY <1>3 DEF SloBegin
  <2>2. s \in ObjectWith(SloSpec)
    BY <1>3, StoredTypes, ObjectFacts DEF Kinds, Sound, TypeInv
  <2>3. read \in SloReconcile /\ read.spec \in SloSpec
    BY <2>2 DEF SloReconcile, SloIdle, SloPcs, ObjectWith
  <2>4. /\ [read EXCEPT !.pc = "release"].pc = "release"
        /\ [read EXCEPT !.pc = "adopt"].pc = "adopt"
    BY DEF SloIdle
  <2>5. DependenciesStep(read).pc \notin {"idle", "ownPr", "prDone"}
    <3> HIDE DEF read
    <3> QED BY <2>3, DependenciesTypes DEF Sound, TypeInv
  <2> HIDE DEF read
  <2>6. sloR'.pc \notin {"idle", "ownPr", "prDone"}
    BY <2>1, <2>4, <2>5
  <2> QED BY <1>1, <2>6
<1> QED BY <1>2, <1>3

LEMMA SloNews ==
    ASSUME Sound, Live, StatusIsNews, deletes = 0, SloStep
    PROVE  StatusIsNews'
<1>1. "slo" \in Kinds /\ "pr" \in Kinds /\ "slo" # "pr" /\ sloR \in SloReconcile
  BY DEF Kinds, Sound, TypeInv, SloHoldsOK
<1>2. ASSUME sloR'.pc \notin {"ownPr", "prDone"} PROVE StatusIsNews'
  BY <1>2 DEF StatusIsNews
<1>3. SloIdle.pc = "idle"
  BY DEF SloIdle
<1>4. ASSUME NEW pc, Goto(pc) PROVE sloR'.pc = pc
  BY <1>1, <1>4 DEF Goto, SloReconcile
<1>5. CASE SloBegin
  BY <1>2, <1>5, SloBegins
<1>6. CASE \/ Release \/ Adopt \/ NoDatasource \/ ReportFailure \/ ReportSuccess
           \/ PrDone \/ MrReady \/ MrFailed
  BY <1>2, <1>3, <1>6 DEF Release, Adopt, NoDatasource, ReportFailure, ReportSuccess, PrDone,
                          MrReady, MrFailed, Return, ReturnError
<1>7. CASE CreateInline \/ UpdateInline \/ OwnMr \/ MrDone \/ OwnAmc
  <2>1. Goto("children") \/ Goto("mrDone") \/ Goto("mrReady") \/ Goto("markReady")
    BY <1>7 DEF CreateInline, UpdateInline, OwnMr, MrDone, OwnAmc, Own
  <2> QED BY <1>2, <1>4, <2>1
<1>8. CASE CreateMr \/ CreateAmc
  <2>1. sloR'.pc \in {"ownMr", "ownAmc"}
    BY <1>1, <1>8 DEF CreateMr, CreateAmc, Create, SloReconcile
  <2> QED BY <1>2, <2>1
<1>9. CASE LookAtChildren
  <2>1. sloR.spec \in SloSpec /\ sloR.ds \in Tenants /\ sloR' = ChildrenStep(sloR)
    BY <1>9 DEF LookAtChildren, Sound, TypeInv, SloHoldsOK
  <2>2. sloR'.pc \notin {"ownPr", "prDone"}
    BY <1>1, <2>1, ChildrenTypes DEF Sound, TypeInv
  <2> QED BY <1>2, <2>2
<1>10. CASE CallFails
  <2>1. Goto("fail") \/ Goto("mrFailed") \/ ReturnError
    BY <1>10 DEF CallFails, AfterFailure
  <2> QED BY <1>2, <1>3, <1>4, <2>1 DEF ReturnError
<1>11. CASE CreatePr \/ OwnPr
  <2>1. store'["slo"] = store["slo"]
    BY <1>1, <1>11 DEF CreatePr, OwnPr, Create, Own, Sends, Write, Sound, TypeInv, TypeOK,
                       ObjectsOK
  <2>2. store["slo"] # Absent => store["slo"].ready # "True"
    <3>1. CASE CreatePr
      BY <3>1 DEF CreatePr, Create, Live, ReadyIsEarned
    <3>2. CASE OwnPr
      BY <3>2 DEF OwnPr, Own, At, StatusIsNews
    <3> QED BY <1>11, <3>1, <3>2
  <2> QED BY <2>1, <2>2 DEF StatusIsNews
<1> QED BY <1>5, <1>6, <1>7, <1>8, <1>9, <1>10, <1>11 DEF SloStep

(* A reconcile of the SLO that made the PrometheusRule writes a status     *)
(* that is news, so that the MimirRule is made after it; any other ends    *)
(* with an error, or has found both.                                       *)
LEMMA SloCreates ==
    ASSUME Sound, Live, StatusIsNews, CreationNoticed, deletes = 0, Later, SloStep
    PROVE  CreationNoticed'
<1>1. {"slo", "pr", "mr"} \subseteq Kinds /\ sloR \in SloReconcile
  BY DEF Kinds, Sound, TypeInv, SloHoldsOK
<1>2. SUFFICES ASSUME store'["slo"] # Absent, "slo" \notin behind', "slo" \notin queued',
                      store["pr"] = Absent \/ store["mr"] = Absent
               PROVE  sloR'.pc # "idle"
  BY <1>1 DEF CreationNoticed, Later
<1>3. ASSUME NEW pc, Goto(pc), pc # "idle" PROVE sloR'.pc # "idle"
  BY <1>1, <1>3 DEF Goto, SloReconcile
<1>4. ~ReturnError
  BY <1>2 DEF ReturnError, Requeue
<1>5. CASE SloBegin
  <2>1. UNCHANGED <<store, behind>>
        /\ (cache["slo"] # Absent /\ ~cache["slo"].deleting => sloR'.pc # "idle")
    BY <1>5, SloBegins
  <2>2. cache["slo"] = store["slo"]
    BY <1>1, <1>2, <2>1 DEF Sound, Coherent, CacheCoherent
  <2>3. ~cache["slo"].deleting
    BY <1>1, <1>2, <2>1, <2>2 DEF Live, Alive, Undeleted
  <2> QED BY <1>2, <2>1, <2>2, <2>3
<1>6. CASE Release \/ ReportSuccess \/ MrReady
  <2>1. sloR.pc \notin {"release", "markReady", "mrReady"}
    BY <1>2 DEF Live, SloLive, SloHoldsLive, AfterPr, AfterMr
  <2> QED BY <1>6, <2>1 DEF Release, ReportSuccess, MrReady, At
<1>7. CASE Adopt \/ NoDatasource \/ ReportFailure \/ MrFailed
  BY <1>4, <1>7 DEF Adopt, NoDatasource, ReportFailure, MrFailed
<1>8. CASE PrDone
  <2> DEFINE o == [store["slo"] EXCEPT !.ready = "True"]
  <2>1. sloR.pc = "prDone" /\ Write("slo", "slo", o, {})
    BY <1>8 DEF PrDone, At, Sends
  <2>2. /\ store["slo"] # Absent /\ store["slo"] \in ObjectWith(SloSpec)
        /\ ~store["slo"].deleting
    BY <2>1, SloHeldLive DEF Undeleted
  <2>3. o.ready = "True" /\ ~o.deleting
    BY <2>2 DEF ObjectWith
  <2>4. store["slo"].ready # "True"
    BY <2>1, <2>2 DEF StatusIsNews
  <2> HIDE DEF o
  <2>5. Settle(o) \in {o, Absent} /\ o # store["slo"] /\ (o # Absent => Settle(o) = o)
    BY <2>3, <2>4 DEF Settle
  <2>6. "slo" \in behind'
    BY <2>1, <2>2, <2>5 DEF Write
  <2> QED BY <1>2, <2>6
<1>9. CASE CreateInline \/ UpdateInline \/ OwnPr \/ OwnMr \/ MrDone \/ OwnAmc
  <2>1. \/ Goto("children") \/ Goto("prDone") \/ Goto("mrDone") \/ Goto("mrReady")
        \/ Goto("markReady")
    BY <1>9 DEF CreateInline, UpdateInline, OwnPr, OwnMr, MrDone, OwnAmc, Own
  <2> QED BY <1>3, <2>1
<1>10. CASE CreatePr \/ CreateMr \/ CreateAmc
  <2>1. sloR'.pc \in {"ownPr", "ownMr", "ownAmc"}
    BY <1>1, <1>10 DEF CreatePr, CreateMr, CreateAmc, Create, SloReconcile
  <2> QED BY <2>1
<1>11. CASE LookAtChildren
  <2>1. sloR.spec \in SloSpec /\ sloR.ds \in Tenants /\ sloR' = ChildrenStep(sloR)
    BY <1>11 DEF LookAtChildren, Sound, TypeInv, SloHoldsOK
  <2>2. sloR'.pc # "idle"
    BY <1>1, <2>1, ChildrenTypes DEF Sound, TypeInv
  <2> QED BY <2>2
<1>12. CASE CallFails
  <2>1. Goto("fail") \/ Goto("mrFailed")
    BY <1>4, <1>12 DEF CallFails, AfterFailure
  <2> QED BY <1>3, <2>1
<1> QED BY <1>5, <1>6, <1>7, <1>8, <1>9, <1>10, <1>11, <1>12 DEF SloStep

(* A step that the SLO controller takes no part in.                        *)
LEMMA CreationStays ==
    ASSUME CreationNoticed, Marks, Later, sloR' = sloR, deletes = 0,
           "slo" \in queued => "slo" \in queued'
    PROVE  CreationNoticed'
<1>1. {"slo", "pr", "mr"} \subseteq Kinds
  BY DEF Kinds
<1> QED BY <1>1 DEF CreationNoticed, Marks, Later

(* One that leaves the status of the SLO alone, or sets it to "False".     *)
LEMMA NewsStays ==
    ASSUME StatusIsNews, sloR' = sloR, deletes = 0, Later, sloR.pc # "idle" => store["slo"] # Absent,
           store["slo"] # Absent =>
               store'["slo"].ready = store["slo"].ready \/ store'["slo"].ready = "False"
    PROVE  StatusIsNews'
BY DEF StatusIsNews

(* What the others do to the status of the SLO.                            *)
LEMMA StatusKept ==
    ASSUME Sound, Live, deletes = 0, deletes' = 0,
           PrStep \/ MrStep \/ Environment, store["slo"] # Absent
    PROVE  store'["slo"].ready = store["slo"].ready \/ store'["slo"].ready = "False"
<1>1. {"slo", "pr", "mr", "sli", "ds"} \subseteq Kinds
  BY DEF Kinds
<1>2. ASSUME NEW c, NEW k \in Kinds, k # "slo", NEW o, NEW holds, Write(c, k, o, holds)
      PROVE  store'["slo"] = store["slo"]
  BY <1>1, <1>2 DEF Write, Sound, TypeInv, TypeOK, ObjectsOK
<1>3. ASSUME NEW c, NEW o, NEW holds, Write(c, "slo", o, holds), o # Absent, ~o.deleting
      PROVE  store'["slo"] = o
  BY <1>1, <1>3 DEF Write, Settle, Sound, TypeInv, TypeOK, ObjectsOK
<1>4. store["slo"] \in ObjectWith(SloSpec) /\ ~store["slo"].deleting
  BY <1>1, HeldNumbers, Fields DEF Live, Alive, Undeleted
<1>5. CASE PrStep
  <2>1. CASE PrReportFailure
    <3> DEFINE o == [store["slo"] EXCEPT !.ready = "False", !.cond = "False"]
    <3>1. Write("pr", "slo", o, {})
      BY <2>1 DEF PrReportFailure
    <3>2. o \in Object("slo") /\ ~o.deleting /\ o.ready = "False"
      BY <1>4, StatusValues, ObjectFacts DEF ObjectWith
    <3> HIDE DEF o
    <3> QED BY <1>1, <1>3, <3>1, <3>2, AbsentFacts
  <2>2. CASE ~PrReportFailure
    BY <1>1, <1>2, <1>5, <2>2
       DEF PrStep, PrGone, PrNoRules, PrBegin, UpdatePr, PrCallFails, PrUnchanged
  <2> QED BY <2>1, <2>2
<1>6. CASE MrStep
  <2>1. CASE \/ AddMrFinalizer \/ AddPrFinalizer \/ DropMrFinalizer \/ DropPrFinalizer
             \/ UpdateMr \/ MarkMrReady \/ MrUpdateFails
    BY <1>1, <1>2, <2>1
       DEF AddMrFinalizer, AddPrFinalizer, DropMrFinalizer, DropPrFinalizer, UpdateMr,
           MarkMrReady, MrUpdateFails, Stores
  <2>2. CASE \/ MrIgnored \/ MrNoOwner \/ MrBegin \/ Push \/ DeleteGroup \/ FinalizerThere
             \/ MrCallFails \/ MrReplyLost
    BY <2>2 DEF MrIgnored, MrNoOwner, MrBegin, Push, DeleteGroup, FinalizerThere, MrCallFails,
                MrReplyLost
  <2> QED BY <1>6, <2>1, <2>2 DEF MrStep
<1>7. CASE Environment
  <2>1. (\A k \in Kinds : ~Collect(k)) /\ (\A k \in Kinds : ~UserDeletes(k))
    BY BoundsAssumption DEF Live, Alive, Collect, UserDeletes
  <2>2. CASE EditSlo
    <3>1. PICK shape \in Shapes :
             UserWrites("slo", [store["slo"] EXCEPT !.spec = SpecOf(shape, clock + 1)])
      BY <2>2 DEF EditSlo
    <3> DEFINE spec == SpecOf(shape, clock + 1)
               o == [store["slo"] EXCEPT !.spec = spec]
    <3>2. spec \in SloSpec
      BY HeldNumbers, SpecOfTypes
    <3> HIDE DEF spec
    <3>3. o \in Object("slo") /\ ~o.deleting /\ o.ready = store["slo"].ready
      BY <1>4, <3>2, ObjectFacts DEF ObjectWith
    <3>4. Write("user", "slo", o, {})
      BY <3>1 DEF UserWrites, spec
    <3> HIDE DEF o
    <3> QED BY <1>1, <1>3, <3>3, <3>4, AbsentFacts
  <2>3. CASE WriteSli \/ WriteDs
    BY <1>1, <1>2, <2>3 DEF WriteSli, WriteDs, UserWrites
  <2>4. CASE TimerFires \/ \E k \in Kinds : Deliver(k)
    BY <2>4 DEF TimerFires, Deliver
  <2> QED BY <1>7, <2>1, <2>2, <2>3, <2>4 DEF Environment, Users, CreateSlo
<1> QED BY <1>5, <1>6, <1>7

LEMMA NextCreates ==
    ASSUME IInv, IInv', StatusIsNews, CreationNoticed, [Next]_vars
    PROVE  StatusIsNews' /\ CreationNoticed'
<1>1. CASE deletes' # 0
  BY <1>1 DEF StatusIsNews, CreationNoticed
<1>2. CASE deletes' = 0
  <2>1. Sound /\ Live /\ Sound' /\ deletes = 0
    BY <1>2, DeletesGrow DEF IInv
  <2>2. Later
    BY <1>2, <2>1, NextLive
  <2>3. sloR.pc # "idle" => store["slo"] # Absent
    BY <2>1, SloHeldLive
  <2>4. CASE UNCHANGED vars
    BY <2>4 DEF vars, clusterVars, StatusIsNews, CreationNoticed
  <2>5. CASE SloCtl
    BY <2>1, <2>2, <2>5, SloNews, SloCreates DEF SloCtl
  <2>6. CASE PrCtl \/ MrCtl \/ Environment
    <3>1. sloR' = sloR /\ (PrStep \/ MrStep \/ Environment)
      BY <2>6 DEF PrCtl, MrCtl, Environment
    <3>2. StatusIsNews'
      BY <1>2, <2>1, <2>2, <2>3, <3>1, StatusKept, NewsStays
    <3>3. CASE PrStep \/ MrStep
      BY <2>1, <2>2, <3>1, <3>2, <3>3, PrMarks, MrMarks, CreationStays
    <3>4. ASSUME NEW k \in Kinds, Deliver(k) PROVE CreationNoticed'
      <4>1. /\ UNCHANGED store /\ behind' = behind \ {k} /\ queued \subseteq queued'
            /\ k \in Controllers => k \in queued'
        BY <3>4, DeliverQueues
      <4>2. "slo" \in Controllers
        BY DEF Controllers
      <4> QED BY <2>1, <3>1, <4>1, <4>2 DEF CreationNoticed
    <3>5. CASE Users \/ (\E k \in Kinds : Collect(k)) \/ TimerFires
      BY <2>1, <2>2, <3>1, <3>2, <3>5, OthersMark, CreationStays
    <3> QED BY <3>1, <3>2, <3>3, <3>4, <3>5 DEF Environment
  <2>7. CASE Crash \/ Panic
    <3>1. /\ UNCHANGED store /\ sloR' = SloIdle
          /\ \A k \in Controllers : store[k] # Absent => k \in queued'
      BY <2>1, <2>7, RestartQueues DEF Crash, Panic, Reboot
    <3>2. StatusIsNews'
      BY <3>1 DEF StatusIsNews, SloIdle
    <3> QED BY <3>1, <3>2 DEF CreationNoticed, Controllers
  <2> QED BY <2>4, <2>5, <2>6, <2>7 DEF Next
<1> QED BY <1>1, <1>2

LEMMA InitCreates ==
    ASSUME Init
    PROVE  StatusIsNews /\ CreationNoticed
<1>1. PICK present \in Starts, shape \in Shapes, t \in Tenants, ctrl \in BOOLEAN :
        /\ ObjectsInit(present, shape, t, ctrl)
        /\ queued = (IF "slo" \in present THEN {"slo", "pr"} ELSE {})
                     \cup (present \cap {"pr", "mr"})
  BY DEF Init, ClusterInit
<1>2. store["slo"] # Absent => "slo" \in present
  BY <1>1 DEF ObjectsInit, Initially, Kinds
<1> QED BY <1>1, <1>2 DEF StatusIsNews, CreationNoticed, Init, SloInit, SloIdle

(* As long as nobody deletes an object, an SLO that still lacks its        *)
(* PrometheusRule or its MimirRule is looked at again, although nobody     *)
(* watches the Datasource that it may be waiting for: every failure is     *)
(* retried, and the status written after the PrometheusRule was made is    *)
(* news that brings the SLO back.                                          *)
THEOREM CreationsAreNoticed == Spec => []CreationNoticed
<1>1. IInv /\ IInv' /\ StatusIsNews /\ CreationNoticed /\ [Next]_vars
        => StatusIsNews' /\ CreationNoticed'
  BY NextCreates
<1> QED BY <1>1, InitCreates, IInvHolds, PTL DEF Spec
=============================================================================

----------------------------- MODULE OskoProofs -----------------------------
(***************************************************************************)
(* Proofs of what Osko guarantees whatever the users do and whatever       *)
(* fails: its types, that no edit of the users is lost, and that Mimir is  *)
(* cleaned before a finalizer goes. All follow from Sound.                 *)
(***************************************************************************)
EXTENDS OskoInvariants, TLAPS

(* The type of each kind's objects, written out.                           *)
ObjectWith(S) == [spec : S, uid : Nat, owner : Nat, ctrl : BOOLEAN,
                  deleting : BOOLEAN, fin : BOOLEAN, ready : Status, cond : Status]

LEMMA ObjectFacts ==
    /\ \A k : Object(k) = ObjectWith(SpecOfKind[k])
    /\ Object("slo") = ObjectWith(SloSpec)
    /\ Object("pr") = ObjectWith(Content)
    /\ Object("mr") = ObjectWith(MimirRuleSpec)
    /\ Object("ds") = ObjectWith(Tenants)
    /\ Object("amc") = ObjectWith(Nat)
    /\ Object("sli") = ObjectWith(Nat)
    /\ Object("inl") = ObjectWith(Nat)
<1>1. /\ SpecOfKind["slo"] = SloSpec
      /\ SpecOfKind["pr"] = Content
      /\ SpecOfKind["mr"] = MimirRuleSpec
      /\ SpecOfKind["ds"] = Tenants
      /\ SpecOfKind["amc"] = Nat
      /\ SpecOfKind["sli"] = Nat
      /\ SpecOfKind["inl"] = Nat
  BY DEF SpecOfKind
<1>2. \A k : Object(k) = ObjectWith(SpecOfKind[k])
  BY Zenon DEF Object, ObjectWith
<1> QED BY <1>1, <1>2, Zenon

LEMMA AbsentFacts ==
    /\ \A k \in Kinds : Absent \notin Object(k)
    /\ Absent \notin Content
    /\ Absent \notin Tenants
BY AbsentAssumption

LEMMA NewTypes ==
    ASSUME NEW S, NEW spec \in S, NEW uid \in Nat
    PROVE  New(spec, uid) \in ObjectWith(S)
BY DEF New, ObjectWith, Status

LEMMA ChildTypes ==
    ASSUME NEW S, NEW spec \in S, NEW slo, slo.uid \in Nat
    PROVE  /\ Child(spec, slo) \in ObjectWith(S)
           /\ Child(spec, slo).spec = spec
           /\ ~Child(spec, slo).deleting
           /\ Child(spec, slo).owner = slo.uid
BY DEF Child, New, ObjectWith, Status

LEMMA UpdatedTypes ==
    ASSUME NEW S, NEW k \in Kinds, store[k] \in ObjectWith(S), NEW o \in ObjectWith(S)
    PROVE  /\ Updated(k, o) \in ObjectWith(S)
           /\ Updated(k, o).spec = o.spec
           /\ Updated(k, o).deleting = store[k].deleting
           /\ Updated(k, o).owner = o.owner
           /\ Updated(k, o).fin = o.fin
           /\ Updated(k, o).uid = store[k].uid
BY DEF Updated, ObjectWith

LEMMA SettleTypes ==
    ASSUME NEW k \in Kinds, NEW o \in Object(k) \cup {Absent}
    PROVE  Settle(o) \in Object(k) \cup {Absent}
BY DEF Settle
----------------------------------------------------------------------------
(* What a write does to the store, and to what the clients hold: whoever   *)
(* else holds a newest version after it held the same one before.          *)
LEMMA WriteEffect ==
    ASSUME TypeOK, NEW c, NEW k \in Kinds, NEW o \in Object(k) \cup {Absent},
           NEW holds \in SUBSET Kinds, Write(c, k, o, holds)
    PROVE  /\ ObjectsOK(store)'
           /\ behind' \subseteq Kinds /\ missed' \subseteq behind'
           /\ fresh' \in [Controllers -> SUBSET Kinds]
           /\ store'[k] = Settle(o)
           /\ \A x \in Kinds \ {k} : store'[x] = store[x]
           /\ \A x \in Kinds : x \notin behind' => x \notin behind /\ store'[x] = store[x]
           /\ c \in Controllers => fresh'[c] = holds
           /\ \A x \in Controllers \ {c} : \A y \in fresh'[x] :
                 y \in fresh[x] /\ store'[y] = store[y]
<1> DEFINE n == Settle(o)
<1>1. n \in Object(k) \cup {Absent}
  BY SettleTypes
<1>2. store' = [store EXCEPT ![k] = n]
  BY DEF Write
<1>3. ObjectsOK(store)'
  BY <1>1, <1>2 DEF TypeOK, ObjectsOK
<1>4. store'[k] = n /\ \A x \in Kinds \ {k} : store'[x] = store[x]
  BY <1>2 DEF TypeOK, ObjectsOK
<1>5. behind' \subseteq Kinds /\ missed' \subseteq behind'
  BY DEF Write, TypeOK
<1>6. fresh' \in [Controllers -> SUBSET Kinds]
  BY DEF Write, TypeOK
<1>7. \A x \in Kinds : x \notin behind' => x \notin behind /\ store'[x] = store[x]
  BY <1>4 DEF Write
<1>8. c \in Controllers => fresh'[c] = holds
  BY DEF Write
<1>9. ASSUME NEW x \in Controllers \ {c}, NEW y \in fresh'[x]
      PROVE  y \in fresh[x] /\ store'[y] = store[y]
  <2>1. fresh'[x] = IF n = store[k] THEN fresh[x] ELSE fresh[x] \ {k}
    BY DEF Write
  <2>2. y \in Kinds
    BY <1>6, <1>9
  <2> QED BY <2>1, <2>2, <1>4, <1>9
<1> QED BY <1>3, <1>4, <1>5, <1>6, <1>7, <1>8, <1>9

LEMMA WriteStep ==
    ASSUME TypeOK, CacheCoherent,
           NEW c, NEW k \in Kinds, NEW o \in Object(k) \cup {Absent},
           NEW holds \in SUBSET Kinds, Write(c, k, o, holds),
           cache' = cache, queued' \subseteq Controllers, timer' \in BOOLEAN,
           mimir' \in [Tenants -> [Groups -> Content \cup {Absent}]],
           clock' \in 0..MaxEdits, deletes' \in 0..MaxDeletes, faults' \in 0..MaxFaults
    PROVE  TypeOK' /\ CacheCoherent'
<1>1. TypeOK'
  <2>1. ObjectsOK(cache)'
    BY DEF TypeOK, ObjectsOK
  <2> QED BY <2>1, WriteEffect, Zenon DEF TypeOK
<1>2. CacheCoherent'
  <2>1. Settle(store'[k]) = store'[k]
    <3>1. store'[k] = Settle(o)
      BY WriteEffect
    <3>2. Settle(Settle(o)) = Settle(o)
      BY DEF Settle
    <3> QED BY <3>1, <3>2
  <2>2. ASSUME NEW x \in Kinds \ {k} PROVE Settle(store'[x]) = store'[x]
    BY WriteEffect DEF CacheCoherent
  <2>3. ASSUME NEW x \in Kinds, x \notin behind' PROVE cache'[x] = store'[x]
    BY <2>3, WriteEffect DEF CacheCoherent
  <2> QED BY <2>1, <2>2, <2>3 DEF CacheCoherent, Settle
<1> QED BY <1>1, <1>2

(* A step that leaves a reconcile alone, and lets it hold no version that  *)
(* it did not hold before, leaves it as coherent as it was.                *)
LEMMA KeepsSlo ==
    ASSUME SloCoherent, UNCHANGED sloR,
           \A y \in fresh'["slo"] : y \in fresh["slo"] /\ store'[y] = store[y]
    PROVE  SloCoherent'
BY DEF SloCoherent, StillAsMade

LEMMA KeepsPr ==
    ASSUME PrCoherent, UNCHANGED prR,
           \A y \in fresh'["pr"] : y \in fresh["pr"] /\ store'[y] = store[y]
    PROVE  PrCoherent'
BY DEF PrCoherent

LEMMA KeepsCleaned ==
    ASSUME Cleaned, UNCHANGED <<mrR, mimir>>
    PROVE  Cleaned'
BY DEF Cleaned, CleanRelease

----------------------------------------------------------------------------
(* The SLO controller.                                                     *)
LEMMA SloSends ==
    ASSUME Sound, NEW k \in Kinds, NEW o \in Object(k) \cup {Absent},
           NEW holds \in SUBSET Kinds, Sends(k, o, holds),
           queued' \subseteq Controllers, UNCHANGED <<prR, mrR>>,
           SloHoldsOK(sloR'), SloCoherent'
    PROVE  Sound'
<1> USE DEF Sound, TypeInv, Coherent
<1>1. Write("slo", k, o, holds) /\ UNCHANGED faults /\ UNCHANGED External
  BY DEF Sends
<1>2. TypeOK' /\ CacheCoherent'
  BY <1>1, WriteStep DEF External, TypeOK
<1>3. PrCoherent'
  <2>1. \A y \in fresh'["pr"] : y \in fresh["pr"] /\ store'[y] = store[y]
    <3>1. "pr" \in Controllers \ {"slo"}
      BY DEF Controllers
    <3> QED BY <1>1, <3>1, WriteEffect
  <2> QED BY <2>1, KeepsPr
<1>4. Cleaned'
  BY <1>1, KeepsCleaned DEF External
<1>5. PrHoldsOK(prR)' /\ MrHoldsOK(mrR)'
  BY DEF PrHoldsOK, MrHoldsOK
<1> QED BY <1>2, <1>3, <1>4, <1>5

(* An object as the SLO controller has read or stores it.                  *)
LEMMA StoredTypes ==
    ASSUME TypeOK, NEW k \in Kinds
    PROVE  /\ store[k] \in Object(k) \cup {Absent}
           /\ cache[k] \in Object(k) \cup {Absent}
BY DEF TypeOK, ObjectsOK

LEMMA IdleTypes == SloHoldsOK(SloIdle) /\ PrHoldsOK(PrIdle) /\ MrHoldsOK(MrIdle)
BY DEF SloHoldsOK, SloIdle, SloReconcile, SloPcs, PrHoldsOK, PrIdle, PrPcs,
       MrHoldsOK, MrReconcile, MrIdle, MrPcs, MrHolding

LEMMA SloEnds ==
    ASSUME sloR' = SloIdle
    PROVE  SloHoldsOK(sloR') /\ SloCoherent'
BY IdleTypes DEF SloCoherent, SloIdle

(* The SLO controller is about to write the SLO and holds its newest       *)
(* version: it exists, with the spec that was read.                        *)
LEMMA SloHeld ==
    ASSUME Sound, sloR.pc # "idle", "slo" \in fresh["slo"]
    PROVE  /\ store["slo"] \in ObjectWith(SloSpec)
           /\ store["slo"].spec = sloR.spec
           /\ sloR.spec \in SloSpec
<1>1. store["slo"] # Absent /\ store["slo"].spec = sloR.spec
  BY DEF Sound, Coherent, SloCoherent
<1>2. store["slo"] \in Object("slo") \cup {Absent}
  BY StoredTypes DEF Sound, TypeInv, Kinds
<1> QED BY <1>1, <1>2, ObjectFacts DEF Sound, TypeInv, SloHoldsOK

LEMMA HeldSloTypes ==
    ASSUME Sound, sloR.pc # "idle", "slo" \in fresh["slo"], NEW fin \in BOOLEAN
    PROVE  /\ HeldSlo(fin) \in Object("slo")
           /\ HeldSlo(fin).spec = store["slo"].spec
<1>1. "slo" \in Kinds
  BY DEF Kinds
<1> DEFINE o == [store["slo"] EXCEPT !.spec = sloR.spec, !.fin = fin]
<1>2. o \in ObjectWith(SloSpec) /\ o.spec = store["slo"].spec
  BY SloHeld DEF ObjectWith
<1>3. HeldSlo(fin) = Updated("slo", o)
  BY DEF HeldSlo
<1> HIDE DEF o
<1> QED BY <1>1, <1>2, <1>3, SloHeld, UpdatedTypes, ObjectFacts

(* The SLO is written, and the reconcile ends.                             *)
LEMMA SloWriteEnds ==
    ASSUME Sound, NEW o \in Object("slo"), Sends("slo", o, {}),
           Return \/ ReturnError, UNCHANGED <<prR, mrR>>
    PROVE  Sound'
<1>1. queued' \subseteq Controllers
  BY DEF Return, ReturnError, Requeue, Sound, TypeInv, TypeOK, Controllers
<1>2. sloR' = SloIdle
  BY DEF Return, ReturnError
<1>3. "slo" \in Kinds
  BY DEF Kinds
<1> QED BY <1>1, <1>2, <1>3, SloEnds, SloSends

LEMMA ReleaseAdoptSound ==
    ASSUME Sound, Release \/ Adopt, UNCHANGED <<prR, mrR>>
    PROVE  Sound'
<1>1. CASE Release
  BY <1>1, HeldSloTypes, SloWriteEnds DEF Release, At
<1>2. CASE Adopt
  BY <1>2, HeldSloTypes, SloWriteEnds DEF Adopt, At
<1> QED BY <1>1, <1>2

LEMMA SloStatusSound ==
    ASSUME Sound, NoDatasource \/ ReportFailure \/ ReportSuccess \/ PrDone,
           UNCHANGED <<prR, mrR>>
    PROVE  Sound'
<1>1. sloR.pc # "idle" /\ "slo" \in fresh["slo"]
  BY DEF NoDatasource, ReportFailure, ReportSuccess, PrDone, At
<1>2. /\ [store["slo"] EXCEPT !.ready = "True"] \in Object("slo")
      /\ [store["slo"] EXCEPT !.ready = "False"] \in Object("slo")
      /\ [store["slo"] EXCEPT !.ready = "False", !.cond = "False"] \in Object("slo")
      /\ [store["slo"] EXCEPT !.ready = "True", !.cond = "True"] \in Object("slo")
  <2>1. store["slo"] \in ObjectWith(SloSpec)
    BY <1>1, SloHeld
  <2> QED BY <2>1, ObjectFacts DEF ObjectWith, Status
<1>3. CASE NoDatasource
  BY <1>2, <1>3, SloWriteEnds DEF NoDatasource
<1>4. CASE ReportFailure
  BY <1>2, <1>4, SloWriteEnds DEF ReportFailure
<1>5. CASE ReportSuccess
  BY <1>2, <1>5, SloWriteEnds DEF ReportSuccess
<1>6. CASE PrDone
  BY <1>2, <1>6, SloWriteEnds DEF PrDone
<1> QED BY <1>3, <1>4, <1>5, <1>6

(* A write of another kind, after which the reconcile goes on.             *)
LEMMA SloGoesOn ==
    ASSUME Sound, sloR.pc # "idle", NEW k \in {"inl", "pr", "mr", "amc"},
           NEW o \in Object(k), NEW holds \in SUBSET Kinds,
           holds \subseteq fresh["slo"] \cup {k}, Sends(k, o, holds)
    PROVE  /\ fresh'["slo"] = holds
           /\ store'[k] = Settle(o)
           /\ "slo" \in fresh'["slo"] => store'["slo"] # Absent /\ store'["slo"].spec = sloR.spec
<1>1. k \in Kinds /\ "slo" \in Kinds \ {k} /\ "slo" \in Controllers
  BY DEF Kinds, Controllers
<1>2. Write("slo", k, o, holds)
  BY DEF Sends
<1>3. fresh'["slo"] = holds /\ store'[k] = Settle(o) /\ store'["slo"] = store["slo"]
  BY <1>1, <1>2, WriteEffect DEF Sound, TypeInv
<1> QED BY <1>1, <1>3 DEF Sound, Coherent, SloCoherent

LEMMA InlineSound ==
    ASSUME Sound, CreateInline \/ UpdateInline, UNCHANGED <<prR, mrR>>
    PROVE  Sound'
<1> DEFINE o == IF sloR.pc = "createInl"
                THEN [New(sloR.spec.gen, 0) EXCEPT !.owner = sloR.uid]
                ELSE [store["inl"] EXCEPT !.spec = sloR.spec.gen]
<1>1. /\ sloR.pc \in {"createInl", "updateInl"}
      /\ sloR.pc = "updateInl" => "inl" \in fresh["slo"]
      /\ Sends("inl", o, fresh["slo"]) /\ Goto("children")
  BY DEF CreateInline, UpdateInline, At
<1>2. /\ sloR \in SloReconcile /\ sloR.spec \in SloSpec /\ sloR.ds \in Tenants
      /\ sloR.spec.gen \in Nat /\ sloR.uid \in Nat
  BY <1>1 DEF Sound, TypeInv, SloHoldsOK, SloReconcile, SloSpec
<1>3. fresh["slo"] \in SUBSET Kinds /\ "inl" \in Kinds
  BY DEF Sound, TypeInv, TypeOK, Controllers, Kinds
<1>4. o \in Object("inl")
  <2>1. CASE sloR.pc = "createInl"
    BY <1>2, <2>1, ObjectFacts DEF ObjectWith, New, Status
  <2>2. CASE sloR.pc = "updateInl"
    <3>1. store["inl"] \in ObjectWith(Nat)
      BY <1>1, <1>3, <2>2, StoredTypes, ObjectFacts DEF Sound, TypeInv, Coherent, SloCoherent
    <3> QED BY <1>2, <2>2, <3>1, ObjectFacts DEF ObjectWith
  <2> QED BY <1>1, <2>1, <2>2
<1> HIDE DEF o
<1>5. sloR' = [sloR EXCEPT !.pc = "children", !.made = Absent] /\ queued' = queued
  BY <1>1 DEF Goto
<1>6. SloHoldsOK(sloR')
  BY <1>2, <1>5 DEF SloHoldsOK, SloReconcile, SloPcs
<1>7. SloCoherent'
  BY <1>1, <1>2, <1>3, <1>4, <1>5, SloGoesOn DEF SloCoherent, SloReconcile
<1> QED BY <1>1, <1>3, <1>4, <1>5, <1>6, <1>7, SloSends DEF Sound, TypeInv, TypeOK

(* A child is created: it is stored as made, and held.                     *)
LEMMA CreateSound ==
    ASSUME Sound, CreatePr \/ CreateMr \/ CreateAmc, UNCHANGED <<prR, mrR>>
    PROVE  Sound'
<1>1. ASSUME NEW k \in {"pr", "mr", "amc"}, NEW pc, NEW next,
             \/ pc = "createPr" /\ k = "pr" /\ next = "ownPr"
             \/ pc = "createMr" /\ k = "mr" /\ next = "ownMr"
             \/ pc = "createAmc" /\ k = "amc" /\ next = "ownAmc",
             Create(pc, k, next)
      PROVE  Sound'
  <2>1. /\ sloR.pc = pc /\ sloR.pc # "idle"
        /\ Sends(k, sloR.made, fresh["slo"] \cup {k})
        /\ sloR' = [sloR EXCEPT !.pc = next] /\ queued' = queued
    BY <1>1 DEF Create
  <2>2. /\ sloR \in SloReconcile /\ sloR.spec \in SloSpec
        /\ sloR.made \in Object(k) /\ ~sloR.made.deleting
    BY <1>1, <2>1 DEF Sound, TypeInv, SloHoldsOK
  <2>3. k \in Kinds /\ fresh["slo"] \cup {k} \in SUBSET Kinds
    BY DEF Sound, TypeInv, TypeOK, Controllers, Kinds
  <2>4. /\ sloR'.pc = next /\ sloR'.spec = sloR.spec /\ sloR'.made = sloR.made
        /\ sloR' \in SloReconcile
    BY <1>1, <2>1, <2>2 DEF SloReconcile, SloPcs
  <2>5. SloHoldsOK(sloR')
    BY <1>1, <2>2, <2>4 DEF SloHoldsOK
  <2>6. store'[k] = sloR.made /\ sloR.made # Absent
    BY <2>1, <2>2, <2>3, SloGoesOn, AbsentFacts DEF Settle
  <2>7. "slo" \in fresh'["slo"] => store'["slo"] # Absent /\ store'["slo"].spec = sloR.spec
    BY <2>1, <2>2, <2>3, SloGoesOn
  <2>8. SloCoherent'
    BY <1>1, <2>2, <2>4, <2>6, <2>7 DEF SloCoherent, StillAsMade
  <2> QED BY <2>1, <2>2, <2>3, <2>5, <2>8, SloSends DEF Sound, TypeInv, TypeOK
<1> QED BY <1>1 DEF CreatePr, CreateMr, CreateAmc

(* Its owner reference is made a plain one: it stays, spec and all.        *)
LEMMA OwnSound ==
    ASSUME Sound, OwnPr \/ OwnMr \/ OwnAmc, UNCHANGED <<prR, mrR>>
    PROVE  Sound'
<1>1. ASSUME NEW k \in {"pr", "mr", "amc"}, NEW pc, NEW next,
             \/ pc = "ownPr" /\ k = "pr" /\ next = "prDone"
             \/ pc = "ownMr" /\ k = "mr" /\ next = "mrDone"
             \/ pc = "ownAmc" /\ k = "amc" /\ next = "markReady",
             Own(pc, k, next)
      PROVE  Sound'
  <2> DEFINE m == [sloR.made EXCEPT !.owner = sloR.uid, !.ctrl = FALSE]
             o == Updated(k, m)
  <2>1. /\ sloR.pc = pc /\ sloR.pc # "idle" /\ k \in fresh["slo"]
        /\ Sends(k, o, fresh["slo"])
        /\ sloR' = [sloR EXCEPT !.pc = next, !.made = Absent] /\ queued' = queued
    BY <1>1 DEF Own, At, Goto
  <2>2. /\ sloR \in SloReconcile /\ sloR.spec \in SloSpec /\ sloR.uid \in Nat
        /\ sloR.made \in Object(k) /\ StillAsMade(k)
    BY <1>1, <2>1 DEF Sound, TypeInv, SloHoldsOK, SloReconcile, Coherent, SloCoherent
  <2>3. k \in Kinds /\ fresh["slo"] \in SUBSET Kinds
    BY DEF Sound, TypeInv, TypeOK, Controllers, Kinds
  <2>4. m \in ObjectWith(SpecOfKind[k])
    BY <2>2, ObjectFacts DEF ObjectWith
  <2>5. store[k] \in ObjectWith(SpecOfKind[k]) /\ ~store[k].deleting
    BY <2>2, <2>3, StoredTypes, ObjectFacts DEF StillAsMade, Sound, TypeInv
  <2> HIDE DEF m
  <2>6. o \in Object(k) /\ ~o.deleting
    BY <2>3, <2>4, <2>5, UpdatedTypes, ObjectFacts
  <2> HIDE DEF o
  <2>7. /\ sloR'.pc = next /\ sloR'.spec = sloR.spec /\ sloR' \in SloReconcile
    BY <1>1, <2>1, <2>2 DEF SloReconcile, SloPcs
  <2>8. SloHoldsOK(sloR')
    BY <1>1, <2>2, <2>7 DEF SloHoldsOK
  <2>9. store'[k] = o /\ o # Absent
    BY <2>1, <2>3, <2>6, SloGoesOn, AbsentFacts DEF Settle
  <2>10. "slo" \in fresh'["slo"] => store'["slo"] # Absent /\ store'["slo"].spec = sloR.spec
    BY <2>1, <2>3, <2>6, SloGoesOn
  <2>11. SloCoherent'
    BY <1>1, <2>7, <2>9, <2>10 DEF SloCoherent
  <2> QED BY <2>1, <2>3, <2>6, <2>8, <2>11, SloSends DEF Sound, TypeInv, TypeOK
<1> QED BY <1>1 DEF OwnPr, OwnMr, OwnAmc

(* The statuses written after a MimirRule was created.                     *)
LEMMA MrDoneSound ==
    ASSUME Sound, MrDone, UNCHANGED <<prR, mrR>>
    PROVE  Sound'
<1> DEFINE o == [store["slo"] EXCEPT !.ready = "True"]
<1>1. /\ sloR.pc = "mrDone" /\ "slo" \in fresh["slo"] /\ Sends("slo", o, fresh["slo"])
      /\ sloR' = [sloR EXCEPT !.pc = "mrReady", !.made = Absent] /\ queued' = queued
  BY DEF MrDone, At, Goto
<1>2. store["slo"] \in ObjectWith(SloSpec) /\ store["slo"].spec = sloR.spec
  BY <1>1, SloHeld
<1>3. o \in Object("slo") /\ o.spec = sloR.spec /\ Settle(o) = o
  <2>1. /\ o \in Object("slo") /\ o.spec = sloR.spec
        /\ o.deleting = store["slo"].deleting /\ o.fin = store["slo"].fin
    BY <1>2, ObjectFacts DEF ObjectWith, Status
  <2>2. store["slo"] # Absent /\ Settle(store["slo"]) = store["slo"]
    BY <1>1 DEF Sound, Coherent, SloCoherent, CacheCoherent, Kinds
  <2> QED BY <2>1, <2>2 DEF Settle
<1> HIDE DEF o
<1>4. /\ "slo" \in Kinds /\ "mr" \in Kinds \ {"slo"} /\ "slo" \in Controllers
      /\ fresh["slo"] \in SUBSET Kinds /\ sloR \in SloReconcile /\ sloR.spec \in SloSpec
  BY <1>1 DEF Sound, TypeInv, TypeOK, SloHoldsOK, Controllers, Kinds
<1>5. /\ store'["slo"] = Settle(o) /\ store'["mr"] = store["mr"]
      /\ fresh'["slo"] = fresh["slo"]
  BY <1>1, <1>3, <1>4, WriteEffect DEF Sends, Sound, TypeInv
<1>6. SloHoldsOK(sloR')
  BY <1>1, <1>4 DEF SloHoldsOK, SloReconcile, SloPcs
<1>7. sloR'.pc = "mrReady" /\ sloR'.spec = sloR.spec
  BY <1>1, <1>4 DEF SloReconcile
<1>8. SloCoherent'
  <2>1. o # Absent
    BY <1>3, <1>4, AbsentFacts
  <2>2. "mr" \in fresh["slo"] => store["mr"] # Absent
    BY <1>1 DEF Sound, Coherent, SloCoherent
  <2> QED BY <1>3, <1>5, <1>7, <2>1, <2>2 DEF SloCoherent
<1> QED BY <1>1, <1>3, <1>4, <1>6, <1>8, SloSends DEF Sound, TypeInv, TypeOK

LEMMA MrReadySound ==
    ASSUME Sound, MrReady, UNCHANGED <<prR, mrR>>
    PROVE  Sound'
<1>1. /\ sloR.pc = "mrReady" /\ "mr" \in fresh["slo"]
      /\ Sends("mr", [store["mr"] EXCEPT !.ready = "True"], {})
      /\ sloR' = SloIdle /\ queued' = queued
  BY DEF MrReady, At, Return
<1>2. "mr" \in Kinds
  BY DEF Kinds
<1>3. store["mr"] \in ObjectWith(MimirRuleSpec)
  BY <1>1, <1>2, StoredTypes, ObjectFacts DEF Sound, TypeInv, Coherent, SloCoherent
<1>4. [store["mr"] EXCEPT !.ready = "True"] \in Object("mr")
  BY <1>3, ObjectFacts DEF ObjectWith, Status
<1> QED BY <1>1, <1>2, <1>4, SloEnds, SloSends DEF Sound, TypeInv, TypeOK

(* A step of the SLO controller that writes nothing.                       *)
LEMMA SloQuiet ==
    ASSUME Sound, UNCHANGED <<store, behind, missed, prR, mrR>>, UNCHANGED External,
           faults' \in 0..MaxFaults, queued' \subseteq Controllers,
           fresh' \in [Controllers -> SUBSET Kinds], fresh'["pr"] = fresh["pr"],
           SloHoldsOK(sloR'), SloCoherent'
    PROVE  Sound'
<1> USE DEF Sound, TypeInv, Coherent, External
<1>1. TypeOK'
  BY DEF TypeOK, ObjectsOK
<1>2. CacheCoherent' /\ PrCoherent'
  BY DEF CacheCoherent, PrCoherent, Settle
<1>3. Cleaned'
  BY KeepsCleaned
<1>4. PrHoldsOK(prR)' /\ MrHoldsOK(mrR)'
  BY DEF PrHoldsOK, MrHoldsOK
<1> QED BY <1>1, <1>2, <1>3, <1>4

LEMMA CallFailsSound ==
    ASSUME Sound, CallFails, UNCHANGED <<prR, mrR>>
    PROVE  Sound'
<1>1. /\ UNCHANGED <<store, behind, missed>> /\ UNCHANGED External
      /\ sloR.pc # "idle"
  BY DEF CallFails, External, WritesTo
<1>2. faults' \in 0..MaxFaults
  BY BoundsAssumption DEF CallFails, Conflict, Fault, Sound, TypeInv, TypeOK
<1>3. fresh \in [Controllers -> SUBSET Kinds] /\ queued \subseteq Controllers
  BY DEF Sound, TypeInv, TypeOK
<1>4. CASE \/ Goto("fail") /\ UNCHANGED fresh
           \/ Goto("mrFailed") /\ UNCHANGED fresh
  <2>1. sloR \in SloReconcile /\ sloR.spec \in SloSpec
    BY <1>1 DEF Sound, TypeInv, SloHoldsOK
  <2>2. /\ SloHoldsOK(sloR') /\ sloR'.pc \in {"fail", "mrFailed"}
        /\ sloR'.spec = sloR.spec /\ queued' = queued
    BY <1>4, <2>1 DEF Goto, SloHoldsOK, SloReconcile, SloPcs
  <2>3. SloCoherent'
    BY <1>1, <1>4, <2>2 DEF Sound, Coherent, SloCoherent
  <2> QED BY <1>1, <1>2, <1>3, <1>4, <2>2, <2>3, SloQuiet
<1>5. CASE ReturnError /\ fresh' = Forgets("slo")
  <2>1. queued' \subseteq Controllers /\ sloR' = SloIdle
    BY <1>3, <1>5 DEF ReturnError, Requeue, Controllers
  <2>2. fresh' \in [Controllers -> SUBSET Kinds] /\ fresh'["pr"] = fresh["pr"]
    BY <1>3, <1>5 DEF Forgets, Controllers
  <2> QED BY <1>1, <1>2, <2>1, <2>2, SloEnds, SloQuiet
<1> QED BY <1>4, <1>5 DEF CallFails, AfterFailure

LEMMA MrFailedSound ==
    ASSUME Sound, MrFailed, UNCHANGED <<prR, mrR>>
    PROVE  Sound'
<1>1. fresh \in [Controllers -> SUBSET Kinds] /\ queued \subseteq Controllers
  BY DEF Sound, TypeInv, TypeOK
<1>2. queued' \subseteq Controllers /\ sloR' = SloIdle
  BY <1>1 DEF MrFailed, ReturnError, Requeue, Controllers
<1>3. fresh' \in [Controllers -> SUBSET Kinds] /\ fresh'["pr"] = fresh["pr"]
  BY <1>1 DEF MrFailed, Forgets, Controllers
<1>4. faults' \in 0..MaxFaults
  BY DEF MrFailed, Sound, TypeInv, TypeOK
<1> QED BY <1>2, <1>3, <1>4, SloEnds, SloQuiet DEF MrFailed

(* What the choice of the next child comes to.                             *)
LEMMA ChildrenTypes ==
    ASSUME TypeOK, NEW r \in SloReconcile, r.spec \in SloSpec, r.ds \in Tenants
    PROVE  /\ SloHoldsOK(ChildrenStep(r))
           /\ ChildrenStep(r).pc \in {"createPr", "createMr", "createAmc", "markReady", "fail"}
           /\ ChildrenStep(r).spec = r.spec
           /\ ChildrenStep(r).uid = r.uid
<1> DEFINE rules == [slo |-> r.spec.gen, sli |-> r.sli, magic |-> r.spec.magic,
                     named |-> TRUE]
           mrSpec == [pr |-> cache["pr"].spec, ds |-> r.ds]
<1>1. r.uid \in Nat /\ r.sli \in Nat /\ r.spec.gen \in Nat /\ r.spec.magic \in BOOLEAN
  BY DEF SloReconcile, SloSpec
<1>2. rules \in Content
  BY <1>1 DEF Content
<1>3. Child(rules, r) \in Object("pr") /\ ~Child(rules, r).deleting
  BY <1>1, <1>2, ChildTypes, ObjectFacts
<1>4. cache["pr"] # Absent => Child(mrSpec, r) \in Object("mr") /\ ~Child(mrSpec, r).deleting
  <2>1. cache["pr"] # Absent => cache["pr"].spec \in Content
    <3>1. "pr" \in Kinds
      BY DEF Kinds
    <3>2. cache["pr"] # Absent => cache["pr"] \in ObjectWith(Content)
      BY <3>1, StoredTypes, ObjectFacts
    <3> QED BY <3>2 DEF ObjectWith
  <2>2. cache["pr"] # Absent => mrSpec \in MimirRuleSpec
    BY <2>1 DEF MimirRuleSpec
  <2> QED BY <1>1, <2>2, ChildTypes, ObjectFacts
<1>5. New(0, 0) \in Object("amc") /\ ~New(0, 0).deleting
  <2>1. New(0, 0) \in Object("amc")
    BY NewTypes, ObjectFacts
  <2> QED BY <2>1 DEF New
<1> HIDE DEF rules, mrSpec
<1>6. CASE cache["pr"] = Absent /\ r.spec.valid
  <2>1. ChildrenStep(r) = [r EXCEPT !.pc = "createPr", !.made = Child(rules, r)]
    BY <1>6 DEF ChildrenStep, rules
  <2> QED BY <1>3, <2>1 DEF SloHoldsOK, SloReconcile, SloPcs
<1>7. CASE cache["pr"] # Absent /\ cache["mr"] = Absent
  <2>1. ChildrenStep(r) = [r EXCEPT !.pc = "createMr", !.made = Child(mrSpec, r)]
    BY <1>7 DEF ChildrenStep, mrSpec
  <2> QED BY <1>4, <1>7, <2>1 DEF SloHoldsOK, SloReconcile, SloPcs
<1>8. CASE cache["pr"] # Absent /\ cache["mr"] # Absent /\ r.spec.magic /\ cache["amc"] = Absent
  <2>1. ChildrenStep(r) = [r EXCEPT !.pc = "createAmc", !.made = New(0, 0)]
    BY <1>8 DEF ChildrenStep
  <2> QED BY <1>5, <2>1 DEF SloHoldsOK, SloReconcile, SloPcs
<1>9. CASE \/ cache["pr"] = Absent /\ ~r.spec.valid
           \/ cache["pr"] # Absent /\ cache["mr"] # Absent /\ ~(r.spec.magic /\ cache["amc"] = Absent)
  <2>1. \/ ChildrenStep(r) = [r EXCEPT !.pc = "fail"]
        \/ ChildrenStep(r) = [r EXCEPT !.pc = "markReady"]
    BY <1>9 DEF ChildrenStep
  <2> QED BY <2>1 DEF SloHoldsOK, SloReconcile, SloPcs
<1> QED BY <1>6, <1>7, <1>8, <1>9

LEMMA DependenciesTypes ==
    ASSUME TypeOK, NEW r \in SloReconcile, r.spec \in SloSpec
    PROVE  /\ SloHoldsOK(DependenciesStep(r))
           /\ DependenciesStep(r).pc \in {"noDs", "createInl", "updateInl", "createPr",
                                         "createMr", "createAmc", "markReady", "fail"}
           /\ DependenciesStep(r).spec = r.spec
           /\ DependenciesStep(r).uid = r.uid
           /\ DependenciesStep(r).pc = "updateInl" => cache["inl"] # Absent
<1> DEFINE d == [r EXCEPT !.ds = cache["ds"].spec]
           q == [d EXCEPT !.sli = cache["sli"].spec]
<1>1. CASE cache["ds"] = Absent
  <2>1. DependenciesStep(r) = [r EXCEPT !.pc = "noDs"]
    BY <1>1 DEF DependenciesStep
  <2> QED BY <2>1 DEF SloHoldsOK, SloReconcile, SloPcs
<1>2. CASE cache["ds"] # Absent
  <2>1. cache["ds"].spec \in Tenants
    <3>1. cache["ds"] \in ObjectWith(Tenants)
      BY <1>2, StoredTypes, ObjectFacts DEF Kinds
    <3> QED BY <3>1 DEF ObjectWith
  <2>2. d \in SloReconcile /\ d.spec = r.spec /\ d.uid = r.uid /\ d.ds \in Tenants
    BY <2>1 DEF SloReconcile
  <2>3. cache["sli"] # Absent =>
          q \in SloReconcile /\ q.spec = r.spec /\ q.uid = r.uid /\ q.ds \in Tenants
    <3>1. cache["sli"] # Absent => cache["sli"] \in ObjectWith(Nat)
      BY StoredTypes, ObjectFacts DEF Kinds
    <3>2. cache["sli"] # Absent => cache["sli"].spec \in Nat
      BY <3>1 DEF ObjectWith
    <3> QED BY <2>2, <3>2 DEF SloReconcile
  <2>4. CASE r.spec.ind = "ref" /\ cache["sli"] # Absent
    <3>1. DependenciesStep(r) = ChildrenStep(q)
      BY <1>2, <2>4 DEF DependenciesStep
    <3> HIDE DEF q
    <3> QED BY <2>3, <2>4, <3>1, ChildrenTypes
  <2>5. CASE r.spec.ind = "inline" /\ cache["inl"] # Absent /\ cache["inl"].spec = r.spec.gen
    <3>1. DependenciesStep(r) = ChildrenStep(d)
      BY <1>2, <2>5 DEF DependenciesStep
    <3> HIDE DEF d
    <3> QED BY <2>2, <3>1, ChildrenTypes
  <2>6. CASE r.spec.ind = "inline" /\ ~(cache["inl"] # Absent /\ cache["inl"].spec = r.spec.gen)
    <3>1. \/ DependenciesStep(r) = [d EXCEPT !.pc = "createInl"]
          \/ DependenciesStep(r) = [d EXCEPT !.pc = "updateInl"] /\ cache["inl"] # Absent
      BY <1>2, <2>6 DEF DependenciesStep
    <3> HIDE DEF d
    <3> QED BY <2>2, <3>1 DEF SloHoldsOK, SloReconcile, SloPcs
  <2>7. CASE r.spec.ind # "inline" /\ ~(r.spec.ind = "ref" /\ cache["sli"] # Absent)
    <3>1. DependenciesStep(r) = [r EXCEPT !.pc = "fail"]
      BY <1>2, <2>7 DEF DependenciesStep
    <3> QED BY <3>1 DEF SloHoldsOK, SloReconcile, SloPcs
  <2> QED BY <2>4, <2>5, <2>6, <2>7
<1> QED BY <1>1, <1>2

LEMMA SloBeginSound ==
    ASSUME Sound, SloBegin, UNCHANGED <<prR, mrR>>
    PROVE  Sound'
<1> DEFINE slo == cache["slo"]
           read == [SloIdle EXCEPT !.spec = slo.spec, !.uid = slo.uid]
<1>1. /\ UNCHANGED <<store, behind, missed, faults>> /\ UNCHANGED External
      /\ queued' = queued \ {"slo"} /\ sloR.pc = "idle"
  BY DEF SloBegin, Dequeue
<1>2. /\ fresh \in [Controllers -> SUBSET Kinds] /\ queued' \subseteq Controllers
      /\ faults' \in 0..MaxFaults
  BY <1>1 DEF Sound, TypeInv, TypeOK
<1>3. CASE UNCHANGED <<sloR, fresh>>
  <2>1. SloHoldsOK(sloR') /\ SloCoherent'
    BY <1>1, <1>3 DEF Sound, TypeInv, SloCoherent
  <2> QED BY <1>1, <1>2, <1>3, <2>1, SloQuiet
<1>4. CASE /\ slo # Absent /\ fresh' = ReadBy("slo", {"slo", "inl"})
           /\ sloR' = IF slo.deleting THEN [read EXCEPT !.pc = "release"]
                      ELSE IF ~slo.fin THEN [read EXCEPT !.pc = "adopt"]
                      ELSE DependenciesStep(read)
  <2>1. slo \in ObjectWith(SloSpec)
    BY <1>4, StoredTypes, ObjectFacts DEF Kinds, Sound, TypeInv
  <2>2. read \in SloReconcile /\ read.spec = slo.spec /\ read.spec \in SloSpec
    BY <2>1 DEF SloReconcile, SloIdle, SloPcs, ObjectWith
  <2>3. /\ SloHoldsOK(sloR') /\ sloR'.spec = slo.spec
        /\ sloR'.pc \notin {"idle", "ownPr", "ownMr", "ownAmc", "mrDone", "mrReady"}
        /\ sloR'.pc = "updateInl" => cache["inl"] # Absent
    <3>1. CASE slo.deleting \/ ~slo.fin
      <4>1. sloR' = [read EXCEPT !.pc = "release"] \/ sloR' = [read EXCEPT !.pc = "adopt"]
        BY <1>4, <3>1
      <4> HIDE DEF read
      <4> QED BY <2>2, <4>1 DEF SloHoldsOK, SloReconcile, SloPcs
    <3>2. CASE ~slo.deleting /\ slo.fin
      <4>1. sloR' = DependenciesStep(read)
        BY <1>4, <3>2
      <4> HIDE DEF read
      <4> QED BY <2>2, <4>1, DependenciesTypes DEF Sound, TypeInv
    <3> QED BY <3>1, <3>2
  <2>4. /\ fresh' \in [Controllers -> SUBSET Kinds] /\ fresh'["pr"] = fresh["pr"]
        /\ fresh'["slo"] = {"slo", "inl"} \ behind
    BY <1>2, <1>4 DEF ReadBy, Controllers, Kinds
  <2>5. SloCoherent'
    <3>1. \A k \in {"slo", "inl"} : k \in fresh'["slo"] => store'[k] = cache[k]
      BY <1>1, <2>4 DEF Sound, Coherent, CacheCoherent, Kinds
    <3> QED BY <1>4, <2>3, <3>1 DEF SloCoherent
  <2> QED BY <1>1, <1>2, <2>3, <2>4, <2>5, SloQuiet
<1> QED BY <1>3, <1>4 DEF SloBegin

LEMMA LookAtChildrenSound ==
    ASSUME Sound, LookAtChildren, UNCHANGED <<prR, mrR>>
    PROVE  Sound'
<1>1. /\ UNCHANGED <<store, behind, missed, fresh, queued, faults>> /\ UNCHANGED External
      /\ sloR.pc = "children" /\ sloR' = ChildrenStep(sloR)
  BY DEF LookAtChildren
<1>2. sloR \in SloReconcile /\ sloR.spec \in SloSpec /\ sloR.ds \in Tenants
  BY <1>1 DEF Sound, TypeInv, SloHoldsOK
<1>3. SloHoldsOK(sloR')
  BY <1>1, <1>2, ChildrenTypes DEF Sound, TypeInv
<1>4. SloCoherent'
  <2>1. /\ sloR'.pc \in {"createPr", "createMr", "createAmc", "markReady", "fail"}
        /\ sloR'.spec = sloR.spec
    BY <1>1, <1>2, ChildrenTypes DEF Sound, TypeInv
  <2> QED BY <1>1, <2>1 DEF Sound, Coherent, SloCoherent
<1> QED BY <1>1, <1>3, <1>4, SloQuiet DEF Sound, TypeInv, TypeOK

LEMMA SloCtlSound ==
    ASSUME Sound, SloCtl
    PROVE  Sound'
BY InlineSound, CreateSound, OwnSound, ReleaseAdoptSound, SloStatusSound, MrDoneSound,
   MrReadySound, CallFailsSound, MrFailedSound, SloBeginSound, LookAtChildrenSound
   DEF SloCtl, SloStep
----------------------------------------------------------------------------
(* The PrometheusRule controller.                                          *)
LEMMA PrSends ==
    ASSUME Sound, NEW k \in Kinds, NEW o \in Object(k) \cup {Absent},
           Write("pr", k, o, {}), UNCHANGED <<faults, sloR, mrR>>, UNCHANGED External,
           queued' \subseteq Controllers, prR' = PrIdle
    PROVE  Sound'
<1> USE DEF Sound, TypeInv, Coherent
<1>1. TypeOK' /\ CacheCoherent'
  <2>1. /\ cache' = cache /\ timer' \in BOOLEAN
        /\ mimir' \in [Tenants -> [Groups -> Content \cup {Absent}]]
        /\ clock' \in 0..MaxEdits /\ deletes' \in 0..MaxDeletes /\ faults' \in 0..MaxFaults
    BY DEF External, TypeOK
  <2>2. {} \in SUBSET Kinds
    OBVIOUS
  <2> QED BY <2>1, <2>2, WriteStep
<1>2. SloCoherent'
  <2>1. "slo" \in Controllers \ {"pr"}
    BY DEF Controllers
  <2>2. \A y \in fresh'["slo"] : y \in fresh["slo"] /\ store'[y] = store[y]
    BY <2>1, WriteEffect
  <2> QED BY <2>2, KeepsSlo
<1>3. Cleaned'
  BY KeepsCleaned DEF External
<1>4. SloHoldsOK(sloR)' /\ MrHoldsOK(mrR)'
  BY DEF SloHoldsOK, MrHoldsOK
<1>5. PrHoldsOK(prR)' /\ PrCoherent'
  BY IdleTypes DEF PrCoherent, PrIdle
<1> QED BY <1>1, <1>2, <1>3, <1>4, <1>5

LEMMA PrQuiet ==
    ASSUME Sound, PrUnchanged, UNCHANGED <<sloR, mrR>>,
           faults' \in 0..MaxFaults, queued' \subseteq Controllers,
           fresh' \in [Controllers -> SUBSET Kinds], fresh'["slo"] = fresh["slo"],
           PrHoldsOK(prR'), PrCoherent'
    PROVE  Sound'
<1> USE DEF Sound, TypeInv, Coherent, PrUnchanged, External
<1>1. TypeOK'
  BY DEF TypeOK, ObjectsOK
<1>2. CacheCoherent' /\ SloCoherent'
  BY DEF CacheCoherent, SloCoherent, StillAsMade, Settle
<1>3. Cleaned'
  BY KeepsCleaned
<1>4. SloHoldsOK(sloR)' /\ MrHoldsOK(mrR)'
  BY DEF SloHoldsOK, MrHoldsOK
<1> QED BY <1>1, <1>2, <1>3, <1>4

LEMMA PrIgnoresSound ==
    ASSUME Sound, PrGone \/ PrNoRules, UNCHANGED <<sloR, mrR>>
    PROVE  Sound'
<1>1. /\ PrUnchanged /\ UNCHANGED <<prR, fresh, faults>> /\ queued' \subseteq queued
  BY DEF PrGone, PrNoRules, Dequeue
<1>2. /\ faults' \in 0..MaxFaults /\ queued' \subseteq Controllers
      /\ fresh' \in [Controllers -> SUBSET Kinds]
  BY <1>1 DEF Sound, TypeInv, TypeOK
<1>3. PrHoldsOK(prR') /\ PrCoherent'
  BY <1>1 DEF Sound, TypeInv, Coherent, PrCoherent, PrUnchanged
<1> QED BY <1>1, <1>2, <1>3, PrQuiet

LEMMA PrBeginSound ==
    ASSUME Sound, PrBegin, UNCHANGED <<sloR, mrR>>
    PROVE  Sound'
<1> DEFINE slo == cache["slo"]
<1>1. /\ PrUnchanged /\ UNCHANGED faults /\ queued' = queued \ {"pr"}
      /\ prR.pc = "idle" /\ slo # Absent
  BY DEF PrBegin, Dequeue
<1>2. /\ fresh \in [Controllers -> SUBSET Kinds] /\ queued' \subseteq Controllers
      /\ faults' \in 0..MaxFaults
  BY <1>1 DEF Sound, TypeInv, TypeOK
<1>3. slo \in ObjectWith(SloSpec)
  BY <1>1, StoredTypes, ObjectFacts DEF Kinds, Sound, TypeInv
<1>4. CASE /\ prR' \in {[prR EXCEPT !.pc = "noSli"], [prR EXCEPT !.pc = "noInd"]}
           /\ fresh' = ReadBy("pr", {"slo"})
  <2>1. PrHoldsOK(prR')
    BY <1>4 DEF Sound, TypeInv, PrHoldsOK, PrPcs
  <2>2. /\ fresh' \in [Controllers -> SUBSET Kinds] /\ fresh'["slo"] = fresh["slo"]
        /\ fresh'["pr"] = {"slo"} \ behind
    BY <1>2, <1>4 DEF ReadBy, Controllers, Kinds
  <2>3. PrCoherent'
    BY <1>1, <2>2 DEF PrCoherent, Sound, Coherent, CacheCoherent, Kinds, PrUnchanged
  <2> QED BY <1>1, <1>2, <2>1, <2>2, <2>3, PrQuiet
<1>5. CASE /\ slo.spec.ind # "none" /\ ~NoSli(slo)
           /\ prR' = [pc |-> "update", made |-> Child(RulesFor(slo), slo)]
           /\ UNCHANGED fresh
  <2>1. slo.spec.gen \in Nat /\ slo.spec.magic \in BOOLEAN /\ slo.uid \in Nat
    BY <1>3 DEF ObjectWith, SloSpec
  <2>2. slo.spec.ind = "ref" => cache["sli"].spec \in Nat
    <3>1. slo.spec.ind = "ref" => cache["sli"] \in ObjectWith(Nat)
      BY <1>5, StoredTypes, ObjectFacts DEF Kinds, Sound, TypeInv, NoSli
    <3> QED BY <3>1 DEF ObjectWith
  <2>3. RulesFor(slo) \in Content
    BY <2>1, <2>2 DEF RulesFor, Content
  <2>4. Child(RulesFor(slo), slo) \in Object("pr")
    BY <2>1, <2>3, ChildTypes, ObjectFacts
  <2>5. PrHoldsOK(prR') /\ PrCoherent'
    BY <1>5, <2>4 DEF PrHoldsOK, PrPcs, PrCoherent
  <2> QED BY <1>1, <1>2, <1>5, <2>5, PrQuiet
<1> QED BY <1>4, <1>5 DEF PrBegin

LEMMA PrWritesSound ==
    ASSUME Sound, PrReportFailure \/ UpdatePr, UNCHANGED <<sloR, mrR>>
    PROVE  Sound'
<1>1. /\ prR' = PrIdle /\ queued' \subseteq queued \cup {"pr"}
      /\ UNCHANGED faults /\ UNCHANGED External
  BY DEF PrReportFailure, UpdatePr, PrReturn, PrReturnError, Requeue
<1>2. queued' \subseteq Controllers
  BY <1>1 DEF Sound, TypeInv, TypeOK, Controllers
<1>3. "slo" \in Kinds /\ "pr" \in Kinds
  BY DEF Kinds
<1>4. CASE PrReportFailure
  <2>1. store["slo"] \in ObjectWith(SloSpec)
    BY <1>3, <1>4, StoredTypes, ObjectFacts DEF PrReportFailure, Sound, TypeInv, Coherent, PrCoherent
  <2>2. [store["slo"] EXCEPT !.ready = "False", !.cond = "False"] \in Object("slo")
    BY <2>1, ObjectFacts DEF ObjectWith, Status
  <2> QED BY <1>1, <1>2, <1>3, <1>4, <2>2, PrSends DEF PrReportFailure
<1>5. CASE UpdatePr
  <2>1. store["pr"] \in ObjectWith(Content)
    BY <1>3, <1>5, StoredTypes, ObjectFacts
       DEF UpdatePr, Sound, TypeInv, Coherent, CacheCoherent
  <2>2. prR.made \in ObjectWith(Content)
    BY <1>5, ObjectFacts DEF UpdatePr, Sound, TypeInv, PrHoldsOK
  <2>3. Updated("pr", prR.made) \in Object("pr")
    BY <1>3, <2>1, <2>2, UpdatedTypes, ObjectFacts
  <2> QED BY <1>1, <1>2, <1>3, <1>5, <2>3, PrSends DEF UpdatePr
<1> QED BY <1>4, <1>5

LEMMA PrCallFailsSound ==
    ASSUME Sound, PrCallFails, UNCHANGED <<sloR, mrR>>
    PROVE  Sound'
<1>1. /\ prR' = PrIdle /\ queued' = queued \cup {"pr"} /\ PrUnchanged
      /\ fresh' = Forgets("pr")
  BY DEF PrCallFails, PrReturnError, Requeue
<1>2. /\ queued' \subseteq Controllers /\ faults' \in 0..MaxFaults
      /\ fresh' \in [Controllers -> SUBSET Kinds] /\ fresh'["slo"] = fresh["slo"]
  BY <1>1, BoundsAssumption
     DEF PrCallFails, PrFault, Sound, TypeInv, TypeOK, Controllers, Forgets
<1>3. PrHoldsOK(prR') /\ PrCoherent'
  BY <1>1, IdleTypes DEF PrCoherent, PrIdle
<1> QED BY <1>1, <1>2, <1>3, PrQuiet

LEMMA PrCtlSound ==
    ASSUME Sound, PrCtl
    PROVE  Sound'
BY PrIgnoresSound, PrBeginSound, PrWritesSound, PrCallFailsSound DEF PrCtl, PrStep
----------------------------------------------------------------------------
(* The MimirRule controller.                                               *)
LEMMA TodoFacts ==
    /\ \A c \in Content : /\ RuleGroups(c) \in Todos
                         /\ \A g \in GroupsOf(c) :
                               \E i \in 1..Len(RuleGroups(c)) : RuleGroups(c)[i] = g
    /\ \A todo \in Todos :
          /\ Head(todo) \in Groups
          /\ Tail(todo) \in Todos \cup {<<>>}
          /\ \A i \in 1..Len(todo) : todo[i] = Head(todo)
                \/ \E j \in 1..Len(Tail(todo)) : Tail(todo)[j] = todo[i]
BY DEF RuleGroups, GroupsOf, Todos, Groups

MrGoing == MrReconcile(MrPcs \cup {"done", "end"})

(* Where a reconcile goes on, with the objects it holds.                   *)
LEMMA AfterTypes ==
    ASSUME NEW r \in MrGoing, r.rules \in Content, r.spec \in MimirRuleSpec
    PROVE  /\ AfterFinalizers(r) \in MrGoing /\ AfterFinalizers(r).pc \in {"done", "update"}
           /\ AfterMrFinalizer(r) \in MrGoing
           /\ AfterMrFinalizer(r).pc \in {"done", "update", "addPrFin"}
           /\ AfterPush(r) \in MrGoing
           /\ AfterPush(r).pc \in {"done", "update", "addPrFin", "addMrFin"}
           /\ AfterMrRelease(r) \in MrGoing /\ AfterMrRelease(r).pc \in {"dropPrFin", "end"}
           /\ AfterCleanup(r) \in MrGoing
           /\ AfterCleanup(r).pc \in {"dropMrFin", "dropPrFin", "end"}
           /\ \A s \in {AfterFinalizers(r), AfterMrFinalizer(r), AfterPush(r),
                         AfterMrRelease(r), AfterCleanup(r)} :
                 s.rules = r.rules /\ s.spec = r.spec /\ s.uid = r.uid
<1>1. /\ AfterFinalizers(r) \in MrGoing /\ AfterFinalizers(r).pc \in {"done", "update"}
      /\ AfterFinalizers(r).rules = r.rules /\ AfterFinalizers(r).spec = r.spec
      /\ AfterFinalizers(r).uid = r.uid
  BY DEF AfterFinalizers, MrGoing, MrReconcile, MrPcs, MrHolding
<1>2. /\ AfterMrFinalizer(r) \in MrGoing
      /\ AfterMrFinalizer(r).pc \in {"done", "update", "addPrFin"}
      /\ AfterMrFinalizer(r).rules = r.rules /\ AfterMrFinalizer(r).spec = r.spec
      /\ AfterMrFinalizer(r).uid = r.uid
  BY <1>1 DEF AfterMrFinalizer, MrGoing, MrReconcile, MrPcs, MrHolding
<1>3. /\ AfterPush(r) \in MrGoing
      /\ AfterPush(r).pc \in {"done", "update", "addPrFin", "addMrFin"}
      /\ AfterPush(r).rules = r.rules /\ AfterPush(r).spec = r.spec
      /\ AfterPush(r).uid = r.uid
  BY <1>2 DEF AfterPush, MrGoing, MrReconcile, MrPcs, MrHolding
<1>4. /\ AfterMrRelease(r) \in MrGoing /\ AfterMrRelease(r).pc \in {"dropPrFin", "end"}
      /\ AfterMrRelease(r).rules = r.rules /\ AfterMrRelease(r).spec = r.spec
      /\ AfterMrRelease(r).uid = r.uid
  BY DEF AfterMrRelease, MrGoing, MrReconcile, MrPcs, MrHolding
<1>5. /\ AfterCleanup(r) \in MrGoing
      /\ AfterCleanup(r).pc \in {"dropMrFin", "dropPrFin", "end"}
      /\ AfterCleanup(r).rules = r.rules /\ AfterCleanup(r).spec = r.spec
      /\ AfterCleanup(r).uid = r.uid
  BY <1>4 DEF AfterCleanup, MrGoing, MrReconcile, MrPcs, MrHolding
<1> QED BY <1>1, <1>2, <1>3, <1>4, <1>5

LEMMA GoesTypes ==
    ASSUME Sound, NEW r \in MrGoing, Goes(r),
           r.pc \in MrHolding => r.rules \in Content /\ r.spec \in MimirRuleSpec,
           r.pc \in {"push", "delete"} => r.todo \in Todos
    PROVE  /\ MrHoldsOK(mrR') /\ timer' \in BOOLEAN /\ queued' \subseteq Controllers
           /\ mrR'.pc # "idle" => mrR' = r
           /\ mrR'.pc \in {"idle", r.pc}
<1>1. timer' \in BOOLEAN /\ queued' \subseteq Controllers
  BY DEF Goes, Sound, TypeInv, TypeOK
<1>2. CASE r.pc \in {"done", "end"}
  BY <1>1, <1>2, IdleTypes DEF Goes, MrIdle
<1>3. CASE r.pc \notin {"done", "end"}
  <2>1. mrR' = r
    BY <1>3 DEF Goes
  <2>2. r \in MrReconcile(MrPcs)
    BY <1>3 DEF MrGoing, MrReconcile
  <2> QED BY <1>1, <2>1, <2>2 DEF MrHoldsOK
<1> QED BY <1>2, <1>3

(* A step of the MimirRule controller that writes no object.               *)
LEMMA MrQuiet ==
    ASSUME Sound, UNCHANGED <<store, behind, missed, fresh, sloR, prR>>, MrUnchanged,
           faults' \in 0..MaxFaults, queued' \subseteq Controllers, timer' \in BOOLEAN,
           mimir' \in [Tenants -> [Groups -> Content \cup {Absent}]],
           MrHoldsOK(mrR'), Cleaned'
    PROVE  Sound'
<1> USE DEF Sound, TypeInv, Coherent, MrUnchanged
<1>1. TypeOK'
  BY DEF TypeOK, ObjectsOK
<1>2. CacheCoherent' /\ SloCoherent' /\ PrCoherent'
  BY DEF CacheCoherent, SloCoherent, StillAsMade, PrCoherent, Settle
<1>3. SloHoldsOK(sloR)' /\ PrHoldsOK(prR)'
  BY DEF SloHoldsOK, PrHoldsOK
<1> QED BY <1>1, <1>2, <1>3

LEMMA MrSends ==
    ASSUME Sound, NEW k \in Kinds, NEW o \in Object(k) \cup {Absent},
           Write("mr", k, o, {}), UNCHANGED <<mimir, sloR, prR>>, MrUnchanged,
           faults' \in 0..MaxFaults, queued' \subseteq Controllers, timer' \in BOOLEAN,
           MrHoldsOK(mrR'), Cleaned'
    PROVE  Sound'
<1> USE DEF Sound, TypeInv, Coherent
<1>1. TypeOK' /\ CacheCoherent'
  <2>1. /\ cache' = cache /\ mimir' \in [Tenants -> [Groups -> Content \cup {Absent}]]
        /\ clock' \in 0..MaxEdits /\ deletes' \in 0..MaxDeletes
    BY DEF MrUnchanged, TypeOK
  <2>2. {} \in SUBSET Kinds
    OBVIOUS
  <2> QED BY <2>1, <2>2, WriteStep
<1>2. SloCoherent' /\ PrCoherent'
  <2>1. "slo" \in Controllers \ {"mr"} /\ "pr" \in Controllers \ {"mr"}
    BY DEF Controllers
  <2>2. TypeOK /\ {} \in SUBSET Kinds
    OBVIOUS
  <2>3. \A x \in Controllers \ {"mr"} : \A y \in fresh'[x] :
          y \in fresh[x] /\ store'[y] = store[y]
    <3> HIDE DEF Sound, TypeInv, Coherent
    <3> QED BY <2>2, WriteEffect
  <2> QED BY <2>1, <2>3, KeepsSlo, KeepsPr
<1>3. SloHoldsOK(sloR)' /\ PrHoldsOK(prR)'
  BY DEF SloHoldsOK, PrHoldsOK
<1> QED BY <1>1, <1>2, <1>3

(* Only a reconcile that is deleting or releasing matters to Cleaned.      *)
LEMMA CleanedElsewhere ==
    ASSUME mrR'.pc \notin {"delete", "dropMrFin", "dropPrFin"}
    PROVE  Cleaned'
BY DEF Cleaned, CleanRelease

LEMMA MrIgnoresSound ==
    ASSUME Sound, MrIgnored \/ MrNoOwner, UNCHANGED <<sloR, prR>>
    PROVE  Sound'
<1>1. /\ UNCHANGED <<store, behind, missed, fresh, timer, mimir, faults, mrR>> /\ MrUnchanged
      /\ queued' \subseteq queued
  BY DEF MrIgnored, MrNoOwner, Dequeue
<1>2. Cleaned'
  BY <1>1, KeepsCleaned DEF Sound
<1> QED BY <1>1, <1>2, MrQuiet DEF Sound, TypeInv, TypeOK

LEMMA MrBeginSound ==
    ASSUME Sound, MrBegin, UNCHANGED <<sloR, prR>>
    PROVE  Sound'
<1> DEFINE pr == cache["pr"]
           mr == cache["mr"]
           read == [pc |-> "delete", rules |-> pr.spec, prFin |-> pr.fin,
                    spec |-> mr.spec, mrFin |-> mr.fin, uid |-> 0,
                    todo |-> RuleGroups(pr.spec)]
<1>1. /\ UNCHANGED <<store, behind, missed, fresh, timer, mimir, faults>> /\ MrUnchanged
      /\ queued' \subseteq queued /\ pr # Absent /\ mr # Absent
  BY DEF MrBegin, Dequeue
<1>2. pr \in ObjectWith(Content) /\ mr \in ObjectWith(MimirRuleSpec)
  <2>1. "pr" \in Kinds /\ "mr" \in Kinds
    BY DEF Kinds
  <2> QED BY <1>1, <2>1, StoredTypes, ObjectFacts DEF Sound, TypeInv
<1>3. /\ pr.spec \in Content /\ mr.spec \in MimirRuleSpec
      /\ pr.fin \in BOOLEAN /\ mr.fin \in BOOLEAN /\ RuleGroups(pr.spec) \in Todos
  BY <1>2, TodoFacts DEF ObjectWith
<1>4. MrHoldsOK(mrR') /\ Cleaned'
  <2>1. CASE mrR' = read
    <3>1. MrHoldsOK(mrR')
      BY <1>3, <2>1 DEF MrHoldsOK, MrReconcile, MrPcs, MrHolding
    <3>2. \A g \in GroupsOf(pr.spec) : \E i \in 1..Len(RuleGroups(pr.spec)) :
            RuleGroups(pr.spec)[i] = g
      BY <1>3, TodoFacts
    <3>3. Cleaned'
      BY <2>1, <3>2 DEF Cleaned, CleanRelease
    <3> QED BY <3>1, <3>3
  <2>2. CASE cache["slo"] # Absent /\ mrR' = [read EXCEPT !.pc = "push", !.uid = cache["slo"].uid]
    <3>1. cache["slo"].uid \in Nat
      <4>1. cache["slo"] \in ObjectWith(SloSpec)
        BY <2>2, StoredTypes, ObjectFacts DEF Kinds, Sound, TypeInv
      <4> QED BY <4>1 DEF ObjectWith
    <3>2. MrHoldsOK(mrR') /\ mrR'.pc = "push"
      BY <1>3, <2>2, <3>1 DEF MrHoldsOK, MrReconcile, MrPcs, MrHolding
    <3> QED BY <3>2, CleanedElsewhere
  <2> QED BY <2>1, <2>2 DEF MrBegin
<1> QED BY <1>1, <1>4, MrQuiet DEF Sound, TypeInv, TypeOK

(* The reconcile holds both objects, and is at its first group to do.      *)
LEMMA MrHeld ==
    ASSUME Sound, mrR.pc \in MrHolding
    PROVE  /\ mrR \in MrGoing /\ mrR.rules \in Content /\ mrR.spec \in MimirRuleSpec
           /\ mrR.spec.ds \in Tenants
           /\ mrR.pc \in {"push", "delete"} => mrR.todo \in Todos
<1>1. MrHoldsOK(mrR)
  BY DEF Sound, TypeInv
<1> QED BY <1>1 DEF MrHoldsOK, MrGoing, MrReconcile, MimirRuleSpec

(* The step that pushes a group is at "push", and goes on pushing, or to   *)
(* the finalizers.                                                         *)
LEMMA PushSound ==
    ASSUME Sound, Push, UNCHANGED <<sloR, prR>>
    PROVE  Sound'
<1> DEFINE t == [mrR EXCEPT !.todo = Tail(mrR.todo)]
           r == IF t.todo = <<>> THEN AfterPush(t) ELSE t
<1>1. /\ mrR.pc = "push" /\ Goes(r) /\ MrUnchanged
      /\ mimir' = [mimir EXCEPT ![mrR.spec.ds][Head(mrR.todo)] = mrR.rules]
      /\ UNCHANGED <<store, behind, missed, fresh, faults>>
  BY DEF Push
<1>2. /\ mrR \in MrGoing /\ mrR.rules \in Content /\ mrR.spec \in MimirRuleSpec
      /\ mrR.spec.ds \in Tenants /\ mrR.todo \in Todos
  BY <1>1, MrHeld DEF MrHolding
<1>3. Head(mrR.todo) \in Groups /\ Tail(mrR.todo) \in Todos \cup {<<>>}
  BY <1>2, TodoFacts
<1>4. /\ t \in MrGoing /\ t.rules = mrR.rules /\ t.spec = mrR.spec
      /\ t.todo = Tail(mrR.todo) /\ t.pc = "push"
  BY <1>1, <1>2, <1>3 DEF MrGoing, MrReconcile
<1> HIDE DEF t
<1>5. /\ r \in MrGoing /\ r.rules \in Content /\ r.spec \in MimirRuleSpec
      /\ r.pc \in {"push", "done", "update", "addPrFin", "addMrFin"}
      /\ r.pc \in {"push", "delete"} => r.todo \in Todos
  BY <1>2, <1>3, <1>4, AfterTypes
<1> HIDE DEF r
<1>6. /\ MrHoldsOK(mrR') /\ timer' \in BOOLEAN /\ queued' \subseteq Controllers
      /\ mrR'.pc \in {"idle", r.pc}
  BY <1>1, <1>5, GoesTypes
<1>7. Cleaned'
  BY <1>5, <1>6, CleanedElsewhere
<1>8. mimir' \in [Tenants -> [Groups -> Content \cup {Absent}]] /\ faults' \in 0..MaxFaults
  BY <1>1, <1>2, <1>3 DEF Sound, TypeInv, TypeOK
<1> QED BY <1>1, <1>6, <1>7, <1>8, MrQuiet

(* A deleted group is gone, and so are those deleted before it.            *)
LEMMA DeleteGroupSound ==
    ASSUME Sound, DeleteGroup, UNCHANGED <<sloR, prR>>
    PROVE  Sound'
<1> DEFINE t == [mrR EXCEPT !.todo = Tail(mrR.todo)]
           r == IF t.todo = <<>> THEN AfterCleanup(t) ELSE t
           ds == mrR.spec.ds
           h == Head(mrR.todo)
<1>1. /\ mrR.pc = "delete" /\ Goes(r) /\ MrUnchanged
      /\ mimir' = [mimir EXCEPT ![ds][h] = Absent]
      /\ UNCHANGED <<store, behind, missed, fresh, faults>>
  BY DEF DeleteGroup
<1>2. /\ mrR \in MrGoing /\ mrR.rules \in Content /\ mrR.spec \in MimirRuleSpec
      /\ ds \in Tenants /\ mrR.todo \in Todos
  BY <1>1, MrHeld DEF MrHolding
<1>3. h \in Groups /\ Tail(mrR.todo) \in Todos \cup {<<>>}
  BY <1>2, TodoFacts
<1>4. /\ t \in MrGoing /\ t.rules = mrR.rules /\ t.spec = mrR.spec
      /\ t.todo = Tail(mrR.todo) /\ t.pc = "delete"
  BY <1>1, <1>2, <1>3 DEF MrGoing, MrReconcile
<1> HIDE DEF t
<1>5. /\ r \in MrGoing /\ r.rules = mrR.rules /\ r.spec = mrR.spec
      /\ r.pc \in {"delete", "dropMrFin", "dropPrFin", "end"}
      /\ r.pc = "delete" => r.todo = Tail(mrR.todo) /\ r.todo \in Todos
      /\ r.pc \in {"dropMrFin", "dropPrFin"} => Tail(mrR.todo) = <<>>
  <2>1. CASE t.todo = <<>>
    <3>1. r = AfterCleanup(t)
      BY <2>1
    <3> HIDE DEF r
    <3>2. /\ r \in MrGoing /\ r.rules = t.rules /\ r.spec = t.spec
          /\ r.pc \in {"dropMrFin", "dropPrFin", "end"}
      BY <1>2, <1>4, <3>1, AfterTypes
    <3> QED BY <1>4, <2>1, <3>2
  <2>2. CASE t.todo # <<>>
    BY <1>3, <1>4, <2>2
  <2> QED BY <2>1, <2>2
<1> HIDE DEF r
<1>6. /\ MrHoldsOK(mrR') /\ timer' \in BOOLEAN /\ queued' \subseteq Controllers
      /\ mrR'.pc # "idle" => mrR' = r
  BY <1>1, <1>2, <1>5, GoesTypes
<1>7. /\ mimir' \in [Tenants -> [Groups -> Content \cup {Absent}]] /\ faults' \in 0..MaxFaults
      /\ mimir'[ds][h] = Absent
      /\ \A g \in Groups : mimir[ds][g] = Absent => mimir'[ds][g] = Absent
  BY <1>1, <1>2, <1>3 DEF Sound, TypeInv, TypeOK
<1>8. ASSUME NEW g \in GroupsOf(mrR.rules)
      PROVE  \/ mimir'[ds][g] = Absent
             \/ \E j \in 1..Len(Tail(mrR.todo)) : Tail(mrR.todo)[j] = g
  <2>1. g \in Groups
    BY DEF GroupsOf, Groups
  <2>2. CASE mimir[ds][g] = Absent
    BY <1>7, <2>1, <2>2
  <2>3. CASE \E i \in 1..Len(mrR.todo) : mrR.todo[i] = g
    <3>1. g = h \/ \E j \in 1..Len(Tail(mrR.todo)) : Tail(mrR.todo)[j] = g
      BY <1>2, <2>3, TodoFacts
    <3> QED BY <1>7, <3>1
  <2> QED BY <1>1, <2>2, <2>3 DEF Sound, Cleaned
<1>9. Cleaned'
  <2>1. CASE mrR'.pc = "idle"
    BY <2>1, CleanedElsewhere
  <2>2. CASE mrR' = r /\ r.pc = "delete"
    <3>1. \A g \in GroupsOf(r.rules) : \/ mimir'[r.spec.ds][g] = Absent
            \/ \E j \in 1..Len(r.todo) : r.todo[j] = g
      BY <1>5, <1>8, <2>2
    <3> QED BY <2>2, <3>1 DEF Cleaned, CleanRelease
  <2>3. CASE mrR' = r /\ r.pc \in {"dropMrFin", "dropPrFin"}
    <3>1. Tail(mrR.todo) = <<>>
      BY <1>5, <2>3
    <3>2. ~ \E j \in 1..Len(<<>>) : TRUE
      OBVIOUS
    <3>3. \A g \in GroupsOf(r.rules) : mimir'[r.spec.ds][g] = Absent
      BY <1>5, <1>8, <3>1, <3>2
    <3> QED BY <2>3, <3>3 DEF Cleaned, CleanRelease
  <2>4. CASE mrR' = r /\ r.pc = "end"
    BY <2>4, CleanedElsewhere
  <2> QED BY <1>5, <1>6, <2>1, <2>2, <2>3, <2>4
<1> QED BY <1>1, <1>6, <1>7, <1>9, MrQuiet

(* What an attempt reads from a cache that is up to date is stored, and a  *)
(* new value of a field makes an object of the same kind of it.            *)
LEMMA AttemptTypes ==
    ASSUME Sound, NEW k \in {"pr", "mr"}, cache[k] # Absent
    PROVE  /\ cache[k] \in ObjectWith(SpecOfKind[k])
           /\ \A b \in BOOLEAN : [cache[k] EXCEPT !.fin = b] \in Object(k)
           /\ \A x \in Status : [cache[k] EXCEPT !.ready = x] \in Object(k)
<1>1. cache[k] \in ObjectWith(SpecOfKind[k])
  BY StoredTypes, ObjectFacts DEF Kinds, Sound, TypeInv
<1> QED BY <1>1, ObjectFacts DEF ObjectWith

LEMMA AddFinalizerSound ==
    ASSUME Sound, AddMrFinalizer \/ AddPrFinalizer \/ FinalizerThere, UNCHANGED <<sloR, prR>>
    PROVE  Sound'
<1> DEFINE m == [mrR EXCEPT !.spec = cache["mr"].spec]
           p == [mrR EXCEPT !.rules = cache["pr"].spec]
<1>1. \/ mrR.pc = "addMrFin" /\ cache["mr"] # Absent /\ Goes(AfterMrFinalizer(m))
      \/ mrR.pc = "addPrFin" /\ cache["pr"] # Absent /\ Goes(AfterFinalizers(p))
  BY DEF AddMrFinalizer, AddPrFinalizer, FinalizerThere, Attempt
<1>2. mrR \in MrGoing /\ mrR.rules \in Content /\ mrR.spec \in MimirRuleSpec
  BY <1>1, MrHeld DEF MrHolding
<1>3. /\ MrHoldsOK(mrR') /\ timer' \in BOOLEAN /\ queued' \subseteq Controllers
      /\ mrR'.pc \notin {"delete", "dropMrFin", "dropPrFin"}
  <2>1. CASE cache["mr"] # Absent /\ Goes(AfterMrFinalizer(m))
    <3>1. cache["mr"].spec \in MimirRuleSpec
      <4>1. cache["mr"] \in ObjectWith(MimirRuleSpec)
        BY <2>1, AttemptTypes DEF SpecOfKind
      <4> QED BY <4>1 DEF ObjectWith
    <3>2. m \in MrGoing /\ m.rules \in Content /\ m.spec \in MimirRuleSpec
      BY <1>2, <3>1 DEF MrGoing, MrReconcile
    <3> HIDE DEF m
    <3> DEFINE r == AfterMrFinalizer(m)
    <3>3. /\ r \in MrGoing /\ r.rules \in Content /\ r.spec \in MimirRuleSpec
          /\ r.pc \in {"done", "update", "addPrFin"}
      BY <3>2, AfterTypes
    <3> HIDE DEF r
    <3>4. Goes(r)
      BY <2>1 DEF r
    <3> QED BY <3>3, <3>4, GoesTypes
  <2>2. CASE cache["pr"] # Absent /\ Goes(AfterFinalizers(p))
    <3>1. cache["pr"].spec \in Content
      <4>1. cache["pr"] \in ObjectWith(Content)
        BY <2>2, AttemptTypes DEF SpecOfKind
      <4> QED BY <4>1 DEF ObjectWith
    <3>2. p \in MrGoing /\ p.rules \in Content /\ p.spec \in MimirRuleSpec
      BY <1>2, <3>1 DEF MrGoing, MrReconcile
    <3> HIDE DEF p
    <3> DEFINE r == AfterFinalizers(p)
    <3>3. /\ r \in MrGoing /\ r.rules \in Content /\ r.spec \in MimirRuleSpec
          /\ r.pc \in {"done", "update"}
      BY <3>2, AfterTypes
    <3> HIDE DEF r
    <3>4. Goes(r)
      BY <2>2 DEF r
    <3> QED BY <3>3, <3>4, GoesTypes
  <2> QED BY <1>1, <2>1, <2>2
<1>4. Cleaned'
  BY <1>3, CleanedElsewhere
<1>5. "mr" \in Kinds /\ "pr" \in Kinds
  BY DEF Kinds
<1>6. CASE AddMrFinalizer
  <2>1. [cache["mr"] EXCEPT !.fin = TRUE] \in Object("mr")
    BY <1>6, AttemptTypes DEF AddMrFinalizer, Attempt
  <2> QED BY <1>3, <1>4, <1>5, <1>6, <2>1, MrSends
          DEF AddMrFinalizer, Stores, Sound, TypeInv, TypeOK
<1>7. CASE AddPrFinalizer
  <2>1. [cache["pr"] EXCEPT !.fin = TRUE] \in Object("pr")
    BY <1>7, AttemptTypes DEF AddPrFinalizer, Attempt
  <2> QED BY <1>3, <1>4, <1>5, <1>7, <2>1, MrSends
          DEF AddPrFinalizer, Stores, Sound, TypeInv, TypeOK
<1>8. CASE FinalizerThere
  BY <1>3, <1>4, <1>8, MrQuiet DEF FinalizerThere, Sound, TypeInv, TypeOK
<1> QED BY <1>6, <1>7, <1>8

LEMMA DropMrFinalizerSound ==
    ASSUME Sound, DropMrFinalizer, UNCHANGED <<sloR, prR>>
    PROVE  Sound'
<1> DEFINE r == AfterMrRelease(mrR)
<1>1. /\ mrR.pc = "dropMrFin" /\ cache["mr"] # Absent /\ Goes(r)
      /\ Stores("mr", [cache["mr"] EXCEPT !.fin = FALSE])
  BY DEF DropMrFinalizer, Attempt
<1>2. mrR \in MrGoing /\ mrR.rules \in Content /\ mrR.spec \in MimirRuleSpec
  BY <1>1, MrHeld DEF MrHolding
<1>3. /\ r \in MrGoing /\ r.rules = mrR.rules /\ r.spec = mrR.spec
      /\ r.pc \in {"dropPrFin", "end"}
  BY <1>2, AfterTypes
<1> HIDE DEF r
<1>4. /\ MrHoldsOK(mrR') /\ timer' \in BOOLEAN /\ queued' \subseteq Controllers
      /\ mrR'.pc # "idle" => mrR' = r
      /\ mrR'.pc \in {"idle", r.pc}
  BY <1>1, <1>2, <1>3, GoesTypes
<1>5. Cleaned'
  <2>1. \A g \in GroupsOf(mrR.rules) : mimir'[mrR.spec.ds][g] = Absent
    BY <1>1 DEF Sound, Cleaned, CleanRelease, Stores
  <2> QED BY <1>3, <1>4, <2>1 DEF Cleaned, CleanRelease
<1>6. "mr" \in Kinds /\ [cache["mr"] EXCEPT !.fin = FALSE] \in Object("mr")
  BY <1>1, AttemptTypes DEF Kinds
<1> QED BY <1>1, <1>4, <1>5, <1>6, MrSends DEF Stores, Sound, TypeInv, TypeOK

LEMMA DropPrFinalizerSound ==
    ASSUME Sound, DropPrFinalizer, UNCHANGED <<sloR, prR>>
    PROVE  Sound'
<1> DEFINE r == [mrR EXCEPT !.pc = "end"]
<1>1. /\ mrR.pc = "dropPrFin" /\ cache["pr"] # Absent /\ Goes(r)
      /\ Stores("pr", [cache["pr"] EXCEPT !.fin = FALSE])
  BY DEF DropPrFinalizer, Attempt
<1>2. mrR' = MrIdle /\ timer' = timer /\ queued' = queued
  <2>1. mrR \in MrGoing
    BY <1>1, MrHeld DEF MrHolding
  <2>2. r.pc = "end"
    BY <2>1 DEF MrGoing, MrReconcile
  <2> QED BY <1>1, <2>2 DEF Goes, Sound, TypeInv, TypeOK
<1>3. MrHoldsOK(mrR') /\ Cleaned'
  BY <1>2, IdleTypes, CleanedElsewhere DEF MrIdle
<1>4. "pr" \in Kinds /\ [cache["pr"] EXCEPT !.fin = FALSE] \in Object("pr")
  BY <1>1, AttemptTypes DEF Kinds
<1> QED BY <1>1, <1>2, <1>3, <1>4, MrSends DEF Stores, Sound, TypeInv, TypeOK

LEMMA UpdateMrSound ==
    ASSUME Sound, UpdateMr, UNCHANGED <<sloR, prR>>
    PROVE  Sound'
<1> DEFINE n == Child(WantedSpec(mrR), [uid |-> mrR.uid])
           r == [MrIdle EXCEPT !.pc = "ready"]
<1>1. /\ mrR.pc = "update" /\ cache["mr"] # Absent /\ "mr" \notin behind /\ Goes(r)
      /\ Stores("mr", Updated("mr", n))
  BY DEF UpdateMr, Attempt
<1>2. /\ mrR \in MrGoing /\ mrR.rules \in Content /\ mrR.spec.ds \in Tenants
      /\ mrR.uid \in Nat
  BY <1>1, MrHeld DEF MrHolding, MrGoing, MrReconcile
<1>3. "mr" \in Kinds
  BY DEF Kinds
<1>4. Updated("mr", n) \in Object("mr")
  <2>1. WantedSpec(mrR) \in MimirRuleSpec
    BY <1>2 DEF WantedSpec, MimirRuleSpec
  <2>2. n \in ObjectWith(MimirRuleSpec)
    BY <1>2, <2>1, ChildTypes
  <2>3. store["mr"] \in ObjectWith(MimirRuleSpec)
    BY <1>1, <1>3, StoredTypes, ObjectFacts DEF Sound, TypeInv, Coherent, CacheCoherent
  <2> HIDE DEF n
  <2> QED BY <1>3, <2>2, <2>3, UpdatedTypes, ObjectFacts
<1> HIDE DEF n
<1>5. r \in MrGoing /\ r.pc = "ready"
  BY DEF MrIdle, MrGoing, MrReconcile, MrPcs, MrHolding
<1> HIDE DEF r
<1>6. /\ MrHoldsOK(mrR') /\ timer' \in BOOLEAN /\ queued' \subseteq Controllers
      /\ mrR'.pc \in {"idle", "ready"}
  <2>1. r.pc \notin MrHolding /\ r.pc \notin {"push", "delete"}
    BY <1>5 DEF MrHolding
  <2> QED BY <1>1, <1>5, <2>1, GoesTypes
<1>7. Cleaned'
  BY <1>6, CleanedElsewhere
<1> QED BY <1>1, <1>3, <1>4, <1>6, <1>7, MrSends DEF Stores, Sound, TypeInv, TypeOK

LEMMA MarkMrReadySound ==
    ASSUME Sound, MarkMrReady, UNCHANGED <<sloR, prR>>
    PROVE  Sound'
<1> DEFINE r == [MrIdle EXCEPT !.pc = "done"]
<1>1. /\ cache["mr"] # Absent /\ Goes(r)
      /\ Stores("mr", [cache["mr"] EXCEPT !.ready = "True"])
  BY DEF MarkMrReady, Attempt
<1>2. r.pc = "done"
  BY DEF MrIdle
<1>3. mrR' = MrIdle /\ timer' \in BOOLEAN /\ queued' = queued
  BY <1>1, <1>2 DEF Goes, Sound, TypeInv, TypeOK
<1>4. MrHoldsOK(mrR') /\ Cleaned'
  BY <1>3, IdleTypes, CleanedElsewhere DEF MrIdle
<1>5. "mr" \in Kinds /\ [cache["mr"] EXCEPT !.ready = "True"] \in Object("mr")
  BY <1>1, AttemptTypes DEF Kinds, Status
<1> QED BY <1>1, <1>3, <1>4, <1>5, MrSends DEF Stores, Sound, TypeInv, TypeOK

LEMMA MrFailuresSound ==
    ASSUME Sound, MrCallFails \/ MrUpdateFails, UNCHANGED <<sloR, prR>>
    PROVE  Sound'
<1>1. mrR' = MrIdle /\ timer' = timer /\ queued' = queued \cup {"mr"} /\ mimir' = mimir
  BY DEF MrCallFails, MrUpdateFails, MrReturnError, Requeue
<1>2. /\ queued' \subseteq Controllers /\ faults' \in 0..MaxFaults /\ timer' \in BOOLEAN
      /\ mimir' \in [Tenants -> [Groups -> Content \cup {Absent}]]
  BY <1>1, BoundsAssumption
     DEF MrCallFails, MrUpdateFails, MrFault, Sound, TypeInv, TypeOK, Controllers
<1>3. MrHoldsOK(mrR') /\ Cleaned'
  BY <1>1, IdleTypes, CleanedElsewhere DEF MrIdle
<1>4. CASE MrCallFails
  BY <1>2, <1>3, <1>4, MrQuiet DEF MrCallFails
<1>5. CASE MrUpdateFails
  <2>1. "mr" \in Kinds /\ [cache["mr"] EXCEPT !.ready = "False"] \in Object("mr")
    BY <1>5, AttemptTypes DEF Kinds, Status, MrUpdateFails, Attempt
  <2> QED BY <1>1, <1>2, <1>3, <1>5, <2>1, MrSends DEF MrUpdateFails
<1> QED BY <1>4, <1>5

LEMMA MrReplyLostSound ==
    ASSUME Sound, MrReplyLost, UNCHANGED <<sloR, prR>>
    PROVE  Sound'
<1>1. mrR' = MrIdle /\ timer' = timer /\ queued' = queued \cup {"mr"}
  BY DEF MrReplyLost, MrReturnError, Requeue
<1>2. queued' \subseteq Controllers /\ faults' \in 0..MaxFaults /\ timer' \in BOOLEAN
  BY <1>1, BoundsAssumption DEF MrReplyLost, MrFault, Sound, TypeInv, TypeOK, Controllers
<1>3. mimir' \in [Tenants -> [Groups -> Content \cup {Absent}]]
  <2>1. mrR.pc \in {"push", "delete"} /\ mrR.rules \in Content /\ mrR.spec.ds \in Tenants
    BY MrHeld DEF MrReplyLost, MrHolding
  <2> QED BY <2>1 DEF MrReplyLost, Sound, TypeInv, TypeOK
<1>4. MrHoldsOK(mrR') /\ Cleaned'
  BY <1>1, IdleTypes, CleanedElsewhere DEF MrIdle
<1> QED BY <1>2, <1>3, <1>4, MrQuiet DEF MrReplyLost

LEMMA MrCtlSound ==
    ASSUME Sound, MrCtl
    PROVE  Sound'
BY MrIgnoresSound, MrBeginSound, PushSound, DeleteGroupSound, AddFinalizerSound,
   DropMrFinalizerSound, DropPrFinalizerSound, UpdateMrSound, MarkMrReadySound,
   MrFailuresSound, MrReplyLostSound
   DEF MrCtl, MrStep
----------------------------------------------------------------------------
(* The users, the garbage collector, the watches and the timer.            *)
LEMMA EnvironmentWrites ==
    ASSUME Sound, NEW k \in Kinds, NEW o \in Object(k) \cup {Absent},
           NEW c \in {"user", "gc"}, Write(c, k, o, {}),
           UNCHANGED <<cache, queued, timer, mimir, faults, sloR, prR, mrR>>,
           clock' \in 0..MaxEdits, deletes' \in 0..MaxDeletes
    PROVE  Sound'
<1> USE DEF Sound, TypeInv, Coherent
<1>1. TypeOK' /\ CacheCoherent'
  <2>1. /\ mimir' \in [Tenants -> [Groups -> Content \cup {Absent}]]
        /\ queued' \subseteq Controllers /\ timer' \in BOOLEAN /\ faults' \in 0..MaxFaults
    BY DEF TypeOK
  <2>2. {} \in SUBSET Kinds
    OBVIOUS
  <2> QED BY <2>1, <2>2, WriteStep
<1>2. SloCoherent' /\ PrCoherent'
  <2>1. "slo" \in Controllers \ {c} /\ "pr" \in Controllers \ {c}
    BY DEF Controllers
  <2>2. TypeOK /\ {} \in SUBSET Kinds
    OBVIOUS
  <2>3. \A x \in Controllers \ {c} : \A y \in fresh'[x] :
          y \in fresh[x] /\ store'[y] = store[y]
    <3> HIDE DEF Sound, TypeInv, Coherent
    <3> QED BY <2>2, WriteEffect
  <2> QED BY <2>1, <2>3, KeepsSlo, KeepsPr
<1>3. SloHoldsOK(sloR)' /\ PrHoldsOK(prR)' /\ MrHoldsOK(mrR)'
  BY DEF SloHoldsOK, PrHoldsOK, MrHoldsOK
<1> QED BY <1>1, <1>2, <1>3, KeepsCleaned

LEMMA SpecOfTypes ==
    ASSUME NEW shape \in Shapes, NEW gen \in Nat
    PROVE  SpecOf(shape, gen) \in SloSpec
BY ShapesAssumption DEF SpecOf, Shape, SloSpec

LEMMA UsersWriteSound ==
    ASSUME Sound, CreateSlo \/ EditSlo \/ WriteSli \/ WriteDs, UNCHANGED <<sloR, prR, mrR>>
    PROVE  Sound'
<1>1. clock \in Nat /\ deletes \in 0..MaxDeletes
  BY BoundsAssumption DEF Sound, TypeInv, TypeOK
<1>2. ASSUME NEW k \in Kinds, NEW o \in Object(k), UserWrites(k, o)
      PROVE  Sound'
  BY <1>1, <1>2, BoundsAssumption, EnvironmentWrites DEF UserWrites, Sound, TypeInv, TypeOK
<1>3. "slo" \in Kinds /\ "sli" \in Kinds /\ "ds" \in Kinds
  BY DEF Kinds
<1>4. CASE CreateSlo
  <2>1. ASSUME NEW shape \in Shapes PROVE NewSlo(shape, clock + 1) \in Object("slo")
    <3>1. SpecOf(shape, clock + 1) \in SloSpec
      BY <1>1, SpecOfTypes
    <3>2. clock + 1 + 1 \in Nat
      BY <1>1
    <3> QED BY <3>1, <3>2, NewTypes, ObjectFacts DEF NewSlo
  <2> QED BY <1>2, <1>3, <1>4, <2>1 DEF CreateSlo
<1>5. CASE EditSlo
  <2>1. store["slo"] \in ObjectWith(SloSpec)
    BY <1>3, <1>5, StoredTypes, ObjectFacts DEF EditSlo, Sound, TypeInv
  <2>2. ASSUME NEW shape \in Shapes
        PROVE  [store["slo"] EXCEPT !.spec = SpecOf(shape, clock + 1)] \in Object("slo")
    <3>1. SpecOf(shape, clock + 1) \in SloSpec
      BY <1>1, SpecOfTypes
    <3> QED BY <2>1, <3>1, ObjectFacts DEF ObjectWith
  <2> QED BY <1>2, <1>3, <1>5, <2>2 DEF EditSlo
<1>6. CASE WriteSli
  <2>1. New(clock + 1, 0) \in Object("sli")
    <3>1. New(clock + 1, 0) \in ObjectWith(Nat)
      <4>1. clock + 1 \in Nat /\ 0 \in Nat
        BY <1>1
      <4> QED BY <4>1, NewTypes
    <3> QED BY <3>1, ObjectFacts
  <2> QED BY <1>2, <1>3, <1>6, <2>1 DEF WriteSli
<1>7. CASE WriteDs
  <2>1. ASSUME NEW t \in Tenants PROVE New(t, 0) \in Object("ds")
    BY NewTypes, ObjectFacts
  <2> QED BY <1>2, <1>3, <1>7, <2>1 DEF WriteDs
<1> QED BY <1>4, <1>5, <1>6, <1>7

LEMMA DeletionsSound ==
    ASSUME Sound, NEW k \in Kinds, UserDeletes(k) \/ Collect(k), UNCHANGED <<sloR, prR, mrR>>
    PROVE  Sound'
<1>1. store[k] \in ObjectWith(SpecOfKind[k])
  BY StoredTypes, ObjectFacts DEF UserDeletes, Collect, Sound, TypeInv
<1>2. Marked(store[k]) \in Object(k)
  BY <1>1, ObjectFacts DEF Marked, ObjectWith
<1>3. CASE UserDeletes(k)
  BY <1>2, <1>3, BoundsAssumption, EnvironmentWrites DEF UserDeletes, Sound, TypeInv, TypeOK
<1>4. CASE Collect(k)
  BY <1>2, <1>4, EnvironmentWrites DEF Collect, External, Sound, TypeInv, TypeOK
<1> QED BY <1>3, <1>4

LEMMA WatchersTypes ==
    ASSUME NEW k, NEW b
    PROVE  Watchers(k, b) \subseteq Controllers
BY DEF Watchers

LEMMA DeliverSound ==
    ASSUME Sound, NEW k \in Kinds, Deliver(k), UNCHANGED <<sloR, prR, mrR>>
    PROVE  Sound'
<1> USE DEF Sound, TypeInv, Coherent
<1>1. /\ cache' = [cache EXCEPT ![k] = store[k]]
      /\ behind' = behind \ {k} /\ missed' = missed \ {k}
      /\ queued' = queued \cup Watchers(k, k \in missed)
      /\ UNCHANGED <<store, fresh, timer, mimir, clock, deletes, faults>>
  BY DEF Deliver
<1>2. queued' \subseteq Controllers
  BY <1>1, WatchersTypes DEF TypeOK
<1>3. ObjectsOK(cache') /\ ObjectsOK(store')
  BY <1>1 DEF TypeOK, ObjectsOK
<1>4. TypeOK'
  BY <1>1, <1>2, <1>3 DEF TypeOK
<1>5. CacheCoherent'
  BY <1>1 DEF CacheCoherent, TypeOK, ObjectsOK, Settle
<1>6. SloCoherent' /\ PrCoherent'
  BY <1>1 DEF SloCoherent, StillAsMade, PrCoherent
<1>7. SloHoldsOK(sloR)' /\ PrHoldsOK(prR)' /\ MrHoldsOK(mrR)'
  BY DEF SloHoldsOK, PrHoldsOK, MrHoldsOK
<1> QED BY <1>1, <1>4, <1>5, <1>6, <1>7, KeepsCleaned

LEMMA TimerSound ==
    ASSUME Sound, TimerFires, UNCHANGED <<sloR, prR, mrR>>
    PROVE  Sound'
<1> USE DEF Sound, TypeInv, Coherent, TimerFires
<1>1. TypeOK'
  BY DEF TypeOK, ObjectsOK, Controllers
<1>2. CacheCoherent' /\ SloCoherent' /\ PrCoherent'
  BY DEF CacheCoherent, Settle, SloCoherent, StillAsMade, PrCoherent
<1>3. SloHoldsOK(sloR)' /\ PrHoldsOK(prR)' /\ MrHoldsOK(mrR)'
  BY DEF SloHoldsOK, PrHoldsOK, MrHoldsOK
<1> QED BY <1>1, <1>2, <1>3, KeepsCleaned

LEMMA EnvironmentSound ==
    ASSUME Sound, Environment
    PROVE  Sound'
BY UsersWriteSound, DeletionsSound, DeliverSound, TimerSound DEF Environment, Users

(* A restart, whatever the reconciles were doing.                          *)
LEMMA RebootKeepsSound ==
    ASSUME Sound, Reboot, faults' \in 0..MaxFaults
    PROVE  Sound'
<1>1. /\ cache' = store /\ behind' = {} /\ missed' = {} /\ timer' = FALSE
      /\ fresh' = [c \in Controllers |-> {}]
      /\ queued' = UNION {Watchers(k, Controlled(store[k])) :
                           k \in {x \in Kinds \ {"sli"} : store[x] # Absent}}
      /\ UNCHANGED <<store, mimir, clock, deletes>>
      /\ sloR' = SloIdle /\ prR' = PrIdle /\ mrR' = MrIdle
  BY DEF Reboot, Restart
<1>2. queued' \subseteq Controllers
  BY <1>1, WatchersTypes
<1>3. ObjectsOK(cache') /\ ObjectsOK(store')
  BY <1>1 DEF Sound, TypeInv, TypeOK, ObjectsOK
<1>4. TypeOK'
  BY <1>1, <1>2, <1>3 DEF Sound, TypeInv, TypeOK
<1>5. CacheCoherent'
  BY <1>1 DEF Sound, Coherent, CacheCoherent, Settle
<1>6. SloCoherent' /\ PrCoherent' /\ Cleaned'
  BY <1>1, CleanedElsewhere DEF SloCoherent, SloIdle, PrCoherent, PrIdle, MrIdle
<1> QED BY <1>1, <1>4, <1>5, <1>6, IdleTypes DEF Sound, TypeInv, Coherent

LEMMA RebootSound ==
    ASSUME Sound, Crash \/ Panic
    PROVE  Sound'
<1>1. faults' \in 0..MaxFaults
  BY BoundsAssumption DEF Crash, Fault, Panic, PrPanics, PrFault, Sound, TypeInv, TypeOK
<1> QED BY <1>1, RebootKeepsSound DEF Crash, Panic

(* A step in which somebody else writes to Mimir, no reconcile of the      *)
(* MimirRule being in progress.                                            *)
LEMMA ElsewhereSound ==
    ASSUME Sound,
           UNCHANGED <<store, cache, behind, missed, fresh, queued, timer, clock, deletes,
                       faults, sloR, prR, mrR>>,
           mimir' \in [Tenants -> [Groups -> Content \cup {Absent}]],
           mimir' = mimir \/ mrR.pc = "idle"
    PROVE  Sound'
<1>1. TypeOK'
  BY DEF Sound, TypeInv, TypeOK, ObjectsOK
<1>2. CacheCoherent' /\ SloCoherent' /\ PrCoherent'
  BY DEF Sound, Coherent, CacheCoherent, Settle, SloCoherent, StillAsMade, PrCoherent
<1>3. SloHoldsOK(sloR)' /\ PrHoldsOK(prR)' /\ MrHoldsOK(mrR)'
  BY DEF Sound, TypeInv, SloHoldsOK, PrHoldsOK, MrHoldsOK
<1>4. CASE mimir' = mimir
  BY <1>1, <1>2, <1>3, <1>4, KeepsCleaned DEF Sound, TypeInv, Coherent
<1>5. CASE mrR.pc = "idle"
  BY <1>1, <1>2, <1>3, <1>5 DEF Sound, TypeInv, Coherent, Cleaned, CleanRelease
<1> QED BY <1>4, <1>5
----------------------------------------------------------------------------
LEMMA NextSound ==
    ASSUME Sound, [Next]_vars
    PROVE  Sound'
<1>1. CASE UNCHANGED vars
  BY <1>1, ElsewhereSound DEF vars, clusterVars, Sound, TypeInv, TypeOK
<1> QED BY <1>1, SloCtlSound, PrCtlSound, MrCtlSound, EnvironmentSound, RebootSound DEF Next

(* What exists at the start is well formed, and nothing is terminating.    *)
LEMMA InitialTypes ==
    ASSUME NEW shape \in Shapes, NEW t \in Tenants, NEW ctrl \in BOOLEAN,
           NEW made \in BOOLEAN, NEW k \in Kinds
    PROVE  LET o == InitialObjects(shape, t, ctrl, made)[k]
           IN  o \in Object(k) /\ Settle(o) = o
<1> DEFINE rules == InitialRules(shape)
           slo == NewSlo(shape, 0)
<1>1. rules \in Content
  BY ShapesAssumption DEF InitialRules, Content, Shape
<1>2. slo \in ObjectWith(SloSpec) /\ ~slo.deleting /\ slo.uid \in Nat
  <2>1. SpecOf(shape, 0) \in SloSpec
    BY SpecOfTypes
  <2> QED BY <2>1 DEF NewSlo, New, ObjectWith, Status
<1>3. InitialSlo(shape, made) \in ObjectWith(SloSpec) /\ ~InitialSlo(shape, made).deleting
  BY <1>2 DEF InitialSlo, ObjectWith, Status
<1>4. Child(rules, slo) \in ObjectWith(Content) /\ ~Child(rules, slo).deleting
  BY <1>1, <1>2, ChildTypes
<1>5. [pr |-> rules, ds |-> t] \in MimirRuleSpec
  BY <1>1 DEF MimirRuleSpec
<1> DEFINE mrSpec == [pr |-> rules, ds |-> t]
           c == Child(mrSpec, slo)
           mr == [c EXCEPT !.fin = TRUE, !.ready = "True", !.ctrl = ctrl]
           inl == [New(0, 0) EXCEPT !.owner = slo.uid]
<1>6. mr \in ObjectWith(MimirRuleSpec) /\ ~mr.deleting
  <2>1. c \in ObjectWith(MimirRuleSpec) /\ ~c.deleting
    BY <1>2, <1>5, ChildTypes
  <2> HIDE DEF c
  <2> QED BY <2>1 DEF ObjectWith, Status
<1>7. New(0, 0) \in ObjectWith(Nat) /\ ~New(0, 0).deleting
  BY DEF New, ObjectWith, Status
<1>8. inl \in ObjectWith(Nat) /\ ~inl.deleting
  BY <1>2, <1>7 DEF ObjectWith
<1>9. New(t, 0) \in ObjectWith(Tenants) /\ ~New(t, 0).deleting
  BY DEF New, ObjectWith, Status
<1> HIDE DEF mr, inl
<1>10. /\ InitialObjects(shape, t, ctrl, made)[k] \in Object(k)
       /\ ~InitialObjects(shape, t, ctrl, made)[k].deleting
  <2>1. CASE k = "slo"
    BY <1>3, <2>1, ObjectFacts DEF InitialObjects
  <2>2. CASE k = "pr"
    BY <1>4, <2>2, ObjectFacts DEF InitialObjects
  <2>3. CASE k = "mr"
    BY <1>6, <2>3, ObjectFacts DEF InitialObjects, mr
  <2>4. CASE k = "inl"
    BY <1>8, <2>4, ObjectFacts DEF InitialObjects, inl
  <2>5. CASE k = "ds"
    BY <1>9, <2>5, ObjectFacts DEF InitialObjects
  <2>6. CASE k \in {"amc", "sli"}
    BY <1>7, <2>6, ObjectFacts DEF InitialObjects
  <2> QED BY <2>1, <2>2, <2>3, <2>4, <2>5, <2>6 DEF Kinds
<1> QED BY <1>10 DEF Settle

(* What Mimir has from the predecessor.                                    *)
LEMMA ServedTypes ==
    ASSUME NEW present, NEW shape \in Shapes, NEW t
    PROVE  ServedAtStart(present, shape, t) \in [Tenants -> [Groups -> Content \cup {Absent}]]
<1>1. InitialRules(shape) \in Content
  BY ShapesAssumption DEF InitialRules, Content, Shape
<1> QED BY <1>1 DEF ServedAtStart

(* Whatever is queued and whatever Mimir has.                              *)
LEMMA StartSound ==
    ASSUME NEW present \in Starts, NEW shape \in Shapes, NEW t \in Tenants, NEW ctrl \in BOOLEAN,
           ObjectsInit(present, shape, t, ctrl), SloInit, PrInit, MrInit,
           queued \subseteq Controllers, timer \in BOOLEAN,
           mimir \in [Tenants -> [Groups -> Content \cup {Absent}]],
           clock = 0, deletes = 0, faults = 0
    PROVE  Sound
<1> DEFINE made == "pr" \in present
<1>1. /\ store = [k \in Kinds |-> IF k \in Initially(shape, present)
                                 THEN InitialObjects(shape, t, ctrl, made)[k] ELSE Absent]
      /\ cache = store /\ behind = {} /\ missed = {}
      /\ fresh = [c \in Controllers |-> {}]
      /\ sloR = SloIdle /\ prR = PrIdle /\ mrR = MrIdle
  BY DEF ObjectsInit, SloInit, PrInit, MrInit
<1>m. made \in BOOLEAN
  OBVIOUS
<1> HIDE DEF made
<1>2. ObjectsOK(store) /\ ObjectsOK(cache)
  BY <1>1, <1>m, InitialTypes DEF ObjectsOK
<1>3. TypeOK
  <2>1. fresh \in [Controllers -> SUBSET Kinds]
    BY <1>1
  <2>2. clock \in 0..MaxEdits /\ deletes \in 0..MaxDeletes /\ faults \in 0..MaxFaults
    BY BoundsAssumption
  <2> QED BY <1>1, <1>2, <2>1, <2>2 DEF TypeOK
<1>4. CacheCoherent
  <2>1. ASSUME NEW k \in Kinds PROVE Settle(store[k]) = store[k]
    BY <1>1, <1>m, InitialTypes DEF Settle
  <2> QED BY <1>1, <2>1 DEF CacheCoherent
<1>5. sloR.pc = "idle" /\ prR.pc = "idle" /\ mrR.pc = "idle"
  BY <1>1 DEF SloIdle, PrIdle, MrIdle
<1>6. SloCoherent /\ PrCoherent /\ Cleaned
  BY <1>5 DEF SloCoherent, PrCoherent, Cleaned, CleanRelease
<1> QED BY <1>1, <1>3, <1>4, <1>6, IdleTypes DEF Sound, TypeInv, Coherent

LEMMA InitSound == Init => Sound
<1> SUFFICES ASSUME Init PROVE Sound
  OBVIOUS
<1>1. PICK present \in Starts, shape \in Shapes, t \in Tenants, ctrl \in BOOLEAN :
        /\ ObjectsInit(present, shape, t, ctrl)
        /\ mimir = ServedAtStart(present, shape, t)
        /\ queued = (IF "slo" \in present THEN {"slo", "pr"} ELSE {})
                     \cup (present \cap {"pr", "mr"})
  BY DEF Init, ClusterInit
<1>2. queued \subseteq Controllers
  BY <1>1 DEF Controllers
<1>3. timer = FALSE /\ clock = 0 /\ deletes = 0 /\ faults = 0 /\ SloInit /\ PrInit /\ MrInit
  BY DEF Init, ClusterInit
<1> QED BY <1>1, <1>2, <1>3, ServedTypes, StartSound

(* Mimir is written by the MimirRule controller only.                      *)
LEMMA MimirKept ==
    ASSUME SloCtl \/ PrCtl \/ Environment
    PROVE  mimir' = mimir
<1>1. CASE SloCtl
  BY <1>1 DEF SloCtl, SloStep, SloBegin, Release, Adopt, NoDatasource, ReportFailure,
              ReportSuccess, CreateInline, UpdateInline, LookAtChildren, CreatePr, OwnPr, PrDone,
              CreateMr, OwnMr, MrDone, MrReady, MrFailed, CreateAmc, OwnAmc, CallFails, Create,
              Own, Sends, External
<1>2. CASE PrCtl
  BY <1>2 DEF PrCtl, PrStep, PrGone, PrNoRules, PrBegin, PrReportFailure, UpdatePr,
              PrCallFails, PrUnchanged, External
<1>3. CASE Environment
  BY <1>3 DEF Environment, Users, CreateSlo, EditSlo, WriteSli, WriteDs, UserWrites,
              UserDeletes, Deliver, Collect, TimerFires, External
<1> QED BY <1>1, <1>2, <1>3

LEMMA SoundHolds == Spec => []Sound
BY InitSound, NextSound, PTL DEF Spec

(* The variables of the cluster always hold what they are declared to: no  *)
(* reconcile stores a malformed object or one that Absent could be taken   *)
(* for, at any moment and after any failure.                               *)
THEOREM TypeCorrect == Spec => []TypeOK
BY SoundHolds, PTL DEF Sound, TypeInv

(* The MimirRule controller never gives a finalizer up before Mimir has    *)
(* lost the groups of the rules it read, whatever calls failed before.     *)
THEOREM ReleasesClean == Spec => []CleanRelease
BY SoundHolds, PTL DEF Sound, Cleaned

(* No write of the operator changes the spec of an SLO.                    *)
SloKept == store["slo"] # Absent /\ store'["slo"] # Absent =>
               store'["slo"].spec = store["slo"].spec

LEMMA WriteKeepsSlo ==
    ASSUME Sound, NEW c, NEW k \in Kinds, NEW o, NEW holds, Write(c, k, o, holds),
           k # "slo" \/ o.spec = store["slo"].spec
    PROVE  SloKept
<1>1. "slo" \in Kinds
  BY DEF Kinds
<1>2. store' = [store EXCEPT ![k] = Settle(o)]
  BY DEF Write
<1> QED BY <1>1, <1>2 DEF Settle, SloKept, Sound, TypeInv, TypeOK, ObjectsOK

LEMMA SloCtlKeeps ==
    ASSUME Sound, SloStep
    PROVE  SloKept
<1>1. "slo" \in Kinds /\ "pr" \in Kinds /\ "mr" \in Kinds /\ "amc" \in Kinds /\ "inl" \in Kinds
  BY DEF Kinds
<1>2. CASE CreateInline \/ UpdateInline \/ CreatePr \/ OwnPr \/ CreateMr \/ OwnMr \/ MrReady
           \/ CreateAmc \/ OwnAmc
  <2>1. \E k \in Kinds \ {"slo"} : \E o, holds : Write("slo", k, o, holds)
    BY <1>1, <1>2 DEF CreateInline, UpdateInline, CreatePr, OwnPr, CreateMr, OwnMr, MrReady,
                      CreateAmc, OwnAmc, Create, Own, Sends
  <2> QED BY <2>1, WriteKeepsSlo
<1>3. CASE Release \/ Adopt
  <2>1. sloR.pc # "idle" /\ "slo" \in fresh["slo"]
    BY <1>3 DEF Release, Adopt, At
  <2>2. \E fin \in BOOLEAN : \E holds : Write("slo", "slo", HeldSlo(fin), holds)
    BY <1>3 DEF Release, Adopt, Sends
  <2> QED BY <1>1, <2>1, <2>2, HeldSloTypes, WriteKeepsSlo
<1>4. CASE NoDatasource \/ ReportFailure \/ ReportSuccess \/ PrDone \/ MrDone
  <2>1. sloR.pc # "idle" /\ "slo" \in fresh["slo"]
    BY <1>4 DEF NoDatasource, ReportFailure, ReportSuccess, PrDone, MrDone, At
  <2>2. store["slo"] \in ObjectWith(SloSpec)
    BY <2>1, SloHeld
  <2>3. /\ [store["slo"] EXCEPT !.ready = "True"].spec = store["slo"].spec
        /\ [store["slo"] EXCEPT !.ready = "False"].spec = store["slo"].spec
        /\ [store["slo"] EXCEPT !.ready = "False", !.cond = "False"].spec = store["slo"].spec
        /\ [store["slo"] EXCEPT !.ready = "True", !.cond = "True"].spec = store["slo"].spec
    BY <2>2 DEF ObjectWith
  <2>4. \E o, holds : Write("slo", "slo", o, holds) /\ o.spec = store["slo"].spec
    BY <1>4, <2>3 DEF NoDatasource, ReportFailure, ReportSuccess, PrDone, MrDone, Sends
  <2> QED BY <1>1, <2>4, WriteKeepsSlo
<1>5. CASE SloBegin \/ LookAtChildren \/ MrFailed \/ CallFails
  BY <1>5 DEF SloBegin, LookAtChildren, MrFailed, CallFails, SloKept
<1> QED BY <1>2, <1>3, <1>4, <1>5 DEF SloStep

LEMMA PrCtlKeeps ==
    ASSUME Sound, PrStep
    PROVE  SloKept
<1>1. "slo" \in Kinds /\ "pr" \in Kinds
  BY DEF Kinds
<1>2. CASE PrReportFailure
  <2>1. store["slo"] \in ObjectWith(SloSpec)
    BY <1>1, <1>2, StoredTypes, ObjectFacts DEF PrReportFailure, Sound, TypeInv, Coherent, PrCoherent
  <2>2. [store["slo"] EXCEPT !.ready = "False", !.cond = "False"].spec = store["slo"].spec
    BY <2>1 DEF ObjectWith
  <2> QED BY <1>1, <1>2, <2>2, WriteKeepsSlo DEF PrReportFailure
<1>3. CASE UpdatePr
  BY <1>1, <1>3, WriteKeepsSlo DEF UpdatePr
<1>4. CASE PrGone \/ PrNoRules \/ PrBegin \/ PrCallFails
  BY <1>4 DEF PrGone, PrNoRules, PrBegin, PrCallFails, PrUnchanged, SloKept
<1> QED BY <1>2, <1>3, <1>4 DEF PrStep

LEMMA MrCtlKeeps ==
    ASSUME Sound, MrStep
    PROVE  SloKept
<1>1. CASE AddMrFinalizer \/ AddPrFinalizer \/ DropMrFinalizer \/ DropPrFinalizer
           \/ UpdateMr \/ MarkMrReady \/ MrUpdateFails
  <2>1. \E k \in Kinds \ {"slo"} : \E o : Write("mr", k, o, {})
    BY <1>1 DEF AddMrFinalizer, AddPrFinalizer, DropMrFinalizer, DropPrFinalizer, UpdateMr,
                MarkMrReady, MrUpdateFails, Stores, Kinds
  <2> QED BY <2>1, WriteKeepsSlo
<1>2. CASE MrIgnored \/ MrNoOwner \/ MrBegin \/ Push \/ DeleteGroup \/ FinalizerThere
           \/ MrCallFails \/ MrReplyLost
  BY <1>2 DEF MrIgnored, MrNoOwner, MrBegin, Push, DeleteGroup, FinalizerThere, MrCallFails,
              MrReplyLost, SloKept
<1> QED BY <1>1, <1>2 DEF MrStep

LEMMA EnvironmentKeeps ==
    ASSUME Sound, Environment
    PROVE  SloKept \/ clock' = clock + 1
<1>1. CASE CreateSlo \/ EditSlo \/ WriteSli \/ WriteDs
  BY <1>1 DEF CreateSlo, EditSlo, WriteSli, WriteDs, UserWrites
<1>2. ASSUME NEW k \in Kinds, UserDeletes(k) \/ Collect(k)
      PROVE  SloKept
  <2>1. store[k] \in ObjectWith(SpecOfKind[k])
    BY <1>2, StoredTypes, ObjectFacts DEF UserDeletes, Collect, Sound, TypeInv
  <2>2. Marked(store[k]).spec = store[k].spec
    BY <2>1 DEF Marked, ObjectWith
  <2> QED BY <1>2, <2>2, WriteKeepsSlo DEF UserDeletes, Collect
<1>3. ASSUME NEW k \in Kinds, Deliver(k)
      PROVE  SloKept
  BY <1>3 DEF Deliver, SloKept
<1>4. CASE TimerFires
  BY <1>4 DEF TimerFires, SloKept
<1> QED BY <1>1, <1>2, <1>3, <1>4 DEF Environment, Users

(* The spec of an SLO changes only when a user changes it: the finalizer   *)
(* updates, which send back the whole SLO that was read, undo no edit.     *)
THEOREM EditsAreKept == Spec => NoLostEdit
<1>1. Sound /\ [Next]_vars =>
        [store["slo"] # Absent /\ store'["slo"] # Absent
         /\ store'["slo"].spec # store["slo"].spec => clock' = clock + 1]_vars
  <2>1. Crash \/ Panic => SloKept
    BY DEF Crash, Panic, Reboot, Restart, SloKept
  <2>2. Sound /\ Next => SloKept \/ clock' = clock + 1
    BY <2>1, SloCtlKeeps, PrCtlKeeps, MrCtlKeeps, EnvironmentKeeps
       DEF Next, SloCtl, PrCtl, MrCtl
  <2> QED BY <2>2 DEF SloKept
<1> QED BY <1>1, SoundHolds, PTL DEF Spec, NoLostEdit
=============================================================================

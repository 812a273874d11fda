--------------------------- MODULE RuleFlowProofs ---------------------------
(***************************************************************************)
(* Proofs of what Osko guarantees as long as nobody deletes an object:     *)
(* that the SLO says it is ready only when what makes it so exists, and    *)
(* that the operator implements RuleFlow. Both follow from IInv.           *)
(***************************************************************************)
EXTENDS OskoProofs

FlowStep == [Flow!Next]_Flow!flow

LEMMA ContentNumbers == \A c \in Content : c.slo \in Nat /\ c.sli \in Nat
BY DEF Content

(* The order of the rules.                                                 *)
LEMMA NoNewerOrder ==
    /\ \A c \in Content : NoNewer(c, c)
    /\ \A b, c, d \in Content : NoNewer(b, c) /\ NoNewer(c, d) => NoNewer(b, d)
<1>1. \A c \in Content : NoNewer(c, c)
  BY ContentNumbers DEF NoNewer
<1>2. ASSUME NEW b \in Content, NEW c \in Content, NEW d \in Content,
             NoNewer(b, c), NoNewer(c, d)
      PROVE  NoNewer(b, d)
  <2>1. /\ b.slo \in Nat /\ b.sli \in Nat /\ c.slo \in Nat /\ c.sli \in Nat
        /\ d.slo \in Nat /\ d.sli \in Nat
    BY ContentNumbers
  <2> QED BY <1>2, <2>1 DEF NoNewer
<1> QED BY <1>1, <1>2

(* The parts of the objects that are compared, with their types.           *)
LEMMA SpecNumbers ==
    /\ \A o \in ObjectWith(SloSpec) :
          o.spec \in SloSpec /\ o.spec.gen \in Nat /\ o.uid \in Nat
    /\ \A o \in ObjectWith(Content) : o.spec \in Content
    /\ \A o \in ObjectWith(MimirRuleSpec) : o.spec.pr \in Content
    /\ \A o \in ObjectWith(Nat) : o.spec \in Nat
BY DEF ObjectWith, SloSpec, MimirRuleSpec

(* The same of the stored, or the cached, objects.                         *)
LEMMA Fields ==
    ASSUME NEW objects, ObjectsOK(objects)
    PROVE  /\ objects["slo"] # Absent =>
                 /\ objects["slo"] \in ObjectWith(SloSpec) /\ objects["slo"].spec \in SloSpec
                 /\ objects["slo"].spec.gen \in Nat /\ objects["slo"].uid \in Nat
           /\ objects["sli"] # Absent => objects["sli"].spec \in Nat
           /\ objects["pr"] # Absent =>
                 /\ objects["pr"] \in ObjectWith(Content)
                 /\ objects["pr"].spec \in Content
           /\ objects["mr"] # Absent =>
                 /\ objects["mr"] \in ObjectWith(MimirRuleSpec)
                 /\ objects["mr"].spec.pr \in Content
<1>1. /\ objects["slo"] \in ObjectWith(SloSpec) \cup {Absent}
      /\ objects["sli"] \in ObjectWith(Nat) \cup {Absent}
      /\ objects["pr"] \in ObjectWith(Content) \cup {Absent}
      /\ objects["mr"] \in ObjectWith(MimirRuleSpec) \cup {Absent}
  BY ObjectFacts DEF ObjectsOK, Kinds
<1> QED BY <1>1, SpecNumbers

(* Rules that could be made once can be made of what is there later.       *)
LEMMA UpToMoves ==
    ASSUME NEW a, NEW b, ObjectsOK(a), ObjectsOK(b), NEW c, c.slo \in Nat, c.sli \in Nat,
           a["slo"] # Absent, b["slo"] # Absent, NoNewerSlo(a["slo"], b["slo"]),
           a["sli"] # Absent => b["sli"] # Absent /\ a["sli"].spec <= b["sli"].spec,
           UpTo(c, a)
    PROVE  UpTo(c, b)
<1>1. /\ a["slo"].spec.gen \in Nat /\ b["slo"].spec.gen \in Nat
      /\ a["sli"] # Absent => a["sli"].spec \in Nat
      /\ b["sli"] # Absent => b["sli"].spec \in Nat
  BY Fields
<1>2. CASE a["slo"].spec.gen < b["slo"].spec.gen
  BY <1>1, <1>2 DEF UpTo
<1>3. CASE a["slo"].spec = b["slo"].spec
  BY <1>1, <1>3 DEF UpTo
<1> QED BY <1>2, <1>3 DEF NoNewerSlo

(* What RuleFlow sees of an object: the writes it comes from.              *)
LEMMA Versions ==
    ASSUME NEW objects, ObjectsOK(objects)
    PROVE  /\ Version(RulesIn(objects["pr"])) =
                 IF objects["pr"] = Absent THEN Flow!None ELSE Version(objects["pr"].spec)
           /\ Version(MirroredIn(objects["mr"])) =
                 IF objects["mr"] = Absent THEN Flow!None ELSE Version(objects["mr"].spec.pr)
BY DEF Version, RulesIn, MirroredIn, Flow!None

LEMMA VersionOrder ==
    /\ Flow!None \in Flow!AllVersions
    /\ \A c \in Content : Version(c) \in Flow!AllVersions
    /\ \A v \in Flow!AllVersions : Flow!AtMost(Flow!None, v) /\ Flow!AtMost(v, v)
    /\ \A c, d \in Content : NoNewer(c, d) => Flow!AtMost(Version(c), Version(d))
<1>1. \A c \in Content : Version(c) = <<c.slo + 1, c.sli>> /\ c.slo \in Nat /\ c.sli \in Nat
  BY AbsentFacts, ContentNumbers DEF Version
<1>2. Flow!None \in Flow!AllVersions
  BY DEF Flow!None, Flow!AllVersions
<1>3. \A c \in Content : Version(c) \in Flow!AllVersions
  BY <1>1 DEF Flow!AllVersions
<1>4. \A v \in Flow!AllVersions : Flow!AtMost(Flow!None, v) /\ Flow!AtMost(v, v)
  BY DEF Flow!AllVersions, Flow!AtMost, Flow!None
<1>5. ASSUME NEW c \in Content, NEW d \in Content, NoNewer(c, d)
      PROVE  Flow!AtMost(Version(c), Version(d))
  BY <1>1, <1>5 DEF NoNewer, Flow!AtMost
<1> QED BY <1>2, <1>3, <1>4, <1>5

(* Rules that can be made of what is stored have a version that the users  *)
(* have written.                                                           *)
LEMMA WrittenVersions ==
    ASSUME ObjectsOK(store)
    PROVE  /\ Written \in Flow!AllVersions
           /\ \A c \in Content : store["slo"] # Absent /\ UpTo(c, store) =>
                 Flow!AtMost(Version(c), Written)
<1>1. Written \in Flow!AllVersions
  BY Fields DEF Written, Flow!AllVersions
<1>2. ASSUME NEW c \in Content, store["slo"] # Absent, UpTo(c, store)
      PROVE  Flow!AtMost(Version(c), Written)
  <2>1. Version(c) = <<c.slo + 1, c.sli>> /\ c.slo \in Nat /\ c.sli \in Nat
    BY AbsentFacts, ContentNumbers DEF Version
  <2>2. /\ store["slo"].spec.gen \in Nat
        /\ Written = <<store["slo"].spec.gen + 1,
                       IF store["slo"].spec.ind = "ref" /\ store["sli"] # Absent
                       THEN store["sli"].spec ELSE 0>>
    BY <1>2, Fields DEF Written
  <2> QED BY <1>2, <2>1, <2>2 DEF UpTo, Flow!AtMost
<1> QED BY <1>1, <1>2

(* Nothing RuleFlow sees changes.                                          *)
LEMMA FlowStutters ==
    ASSUME Written' = Written, RulesIn(store["pr"])' = RulesIn(store["pr"]),
           MirroredIn(store["mr"])' = MirroredIn(store["mr"]), mimir' = mimir
    PROVE  FlowStep
BY DEF FlowStep, Flow!flow, Version

(* A step of the environment or of a controller after which nothing has    *)
(* disappeared or become older.                                            *)
Later ==
    /\ \A x \in Kinds : /\ store[x] # Absent => store'[x] # Absent
                        /\ cache[x] # Absent => cache'[x] # Absent
    /\ store["slo"] # Absent => LiveUid' = LiveUid
    /\ cache["slo"] # Absent => NoNewerSlo(cache["slo"], cache'["slo"])
    /\ cache["sli"] # Absent => cache["sli"].spec <= cache'["sli"].spec
    /\ cache["pr"] # Absent => NoNewer(cache["pr"].spec, cache'["pr"].spec)

(* What may be stored without breaking the order.                          *)
SloFits(o) ==
    /\ o.uid # 0 /\ o.spec.gen <= clock'
    /\ store["slo"] # Absent =>
          /\ o.uid = store["slo"].uid
          /\ NoNewerSlo(store["slo"], o)
    /\ o.ready = "True" => store["pr"] # Absent
    /\ o.cond = "True" => store["pr"] # Absent /\ store["mr"] # Absent

SliFits(o) ==
    /\ o.spec <= clock'
    /\ store["sli"] # Absent => store["sli"].spec <= o.spec

PrFits(o) ==
    /\ cache["slo"] # Absent /\ UpTo(o.spec, cache)
    /\ store["pr"] # Absent => NoNewer(store["pr"].spec, o.spec)

MrFits(o) ==
    /\ cache["pr"] # Absent /\ NoNewer(o.spec.pr, cache["pr"].spec)
    /\ store["mr"] # Absent => NoNewer(store["mr"].spec.pr, o.spec.pr)

Fits(k, o) ==
    /\ Undeleted(o) /\ o.owner \in {0, LiveUid}
    /\ k = "slo" => SloFits(o)
    /\ k = "sli" => SliFits(o)
    /\ k = "pr" => PrFits(o)
    /\ k = "mr" => MrFits(o)

(* Storing such an object.                                                 *)
LEMMA WriteFits ==
    ASSUME Sound, Live, Sound', NEW c, NEW k \in Kinds, NEW o \in Object(k), NEW holds,
           Write(c, k, o, holds), Fits(k, o), UNCHANGED <<cache, mimir>>, clock' >= clock, deletes = 0
    PROVE  /\ store'[k] = o /\ o # Absent
           /\ \A x \in Kinds \ {k} : store'[x] = store[x]
           /\ Alive' /\ Ordered' /\ ReadyIsEarned' /\ Later
           /\ FlowStep
<1>1. o # Absent
  BY AbsentFacts
<1>2. Settle(o) = o
  BY <1>1 DEF Fits, Undeleted, Settle
<1>3. store' = [store EXCEPT ![k] = o]
  BY <1>2 DEF Write
<1>4. /\ store'[k] = o
      /\ \A x \in Kinds \ {k} : store'[x] = store[x]
  BY <1>3 DEF Sound, TypeInv, TypeOK, ObjectsOK
<1>5. /\ ObjectsOK(store) /\ ObjectsOK(store') /\ ObjectsOK(cache)
      /\ clock \in Nat /\ clock' \in Nat
      /\ mimir \in [Tenants -> [Groups -> Content \cup {Absent}]]
  BY BoundsAssumption DEF Sound, TypeInv, TypeOK
<1>6. {"slo", "sli", "pr", "mr"} \subseteq Kinds
  BY DEF Kinds
<1>7. store["slo"] # Absent => store'["slo"] # Absent /\ LiveUid' = LiveUid
  BY <1>1, <1>4, <1>6 DEF LiveUid, Fits, SloFits
<1>8. Later
  <2>1. \A x \in Kinds : store[x] # Absent => store'[x] # Absent
    BY <1>1, <1>4
  <2>2. /\ cache["slo"] # Absent => NoNewerSlo(cache["slo"], cache["slo"])
        /\ cache["sli"] # Absent => cache["sli"].spec <= cache["sli"].spec
        /\ cache["pr"] # Absent => NoNewer(cache["pr"].spec, cache["pr"].spec)
    BY <1>5, Fields, NoNewerOrder DEF NoNewerSlo
  <2> QED BY <1>7, <2>1, <2>2 DEF Later
<1>9. Alive'
  <2>1. \A x \in Kinds : Undeleted(store'[x]) /\ Undeleted(cache'[x])
    BY <1>4 DEF Live, Alive, Fits, Undeleted
  <2>2. \A x \in Kinds : cache'[x] # Absent => store'[x] # Absent
    BY <1>8 DEF Live, Alive, Later
  <2>3. \A x \in Kinds : store'[x] # Absent => store'[x].owner \in {0, LiveUid'}
    <3>1. \A x \in Kinds : store'[x] # Absent => store'[x].owner \in {0, LiveUid}
      BY <1>4 DEF Live, Alive, Fits
    <3>2. LiveUid' = LiveUid \/ LiveUid = 0
      BY <1>7 DEF LiveUid
    <3> QED BY <3>1, <3>2
  <2>4. store'["slo"] # Absent => store'["slo"].uid # 0
    BY <1>4, <1>6 DEF Live, Alive, Fits, SloFits
  <2>5. cache'["slo"] # Absent => cache'["slo"].uid = LiveUid'
    BY <1>6, <1>7 DEF Live, Alive
  <2> QED BY <2>1, <2>2, <2>3, <2>4, <2>5 DEF Alive, Undeleted
<1>10. Ordered'
  <2>1. /\ store'["slo"] # Absent => store'["slo"].spec.gen <= clock'
        /\ store'["sli"] # Absent => store'["sli"].spec <= clock'
    BY <1>4, <1>5, <1>6, Fields DEF Fits, SloFits, SliFits, Live, Ordered
  <2>2. cache'["slo"] # Absent => NoNewerSlo(cache'["slo"], store'["slo"])
    <3>1. cache["slo"] # Absent => store["slo"] # Absent
      BY <1>6 DEF Live, Alive
    <3>2. store["slo"] # Absent => NoNewerSlo(store["slo"], store'["slo"])
      BY <1>4, <1>6 DEF Fits, SloFits, NoNewerSlo
    <3>3. cache["slo"] # Absent => NoNewerSlo(cache["slo"], store["slo"])
      BY DEF Live, Ordered
    <3> QED BY <1>5, <1>7, <3>1, <3>2, <3>3, Fields DEF NoNewerSlo
  <2>3. cache'["sli"] # Absent => cache'["sli"].spec <= store'["sli"].spec
    <3>1. cache["sli"] # Absent =>
             store["sli"] # Absent /\ store'["sli"] # Absent /\ cache["sli"].spec <= store["sli"].spec
      BY <1>6, <1>8 DEF Live, Alive, Ordered, Later
    <3>2. store["sli"] # Absent => store["sli"].spec <= store'["sli"].spec
      BY <1>4, <1>5, <1>6, Fields DEF Fits, SliFits
    <3> QED BY <1>5, <3>1, <3>2, Fields
  <2>4. store'["pr"] # Absent => cache'["slo"] # Absent /\ UpTo(store'["pr"].spec, cache')
    BY <1>4, <1>6 DEF Fits, PrFits, Live, Ordered
  <2>5. cache'["pr"] # Absent => NoNewer(cache'["pr"].spec, store'["pr"].spec)
    <3>1. cache["pr"] # Absent =>
             /\ store["pr"] # Absent /\ store'["pr"] # Absent
             /\ NoNewer(cache["pr"].spec, store["pr"].spec)
      BY <1>6, <1>8 DEF Live, Alive, Ordered, Later
    <3>2. store["pr"] # Absent => NoNewer(store["pr"].spec, store'["pr"].spec)
      <4>1. CASE k = "pr"
        BY <1>4, <4>1 DEF Fits, PrFits
      <4>2. CASE k # "pr"
        BY <1>4, <1>5, <1>6, <4>2, Fields, NoNewerOrder
      <4> QED BY <4>1, <4>2
    <3> QED BY <1>5, <3>1, <3>2, Fields, NoNewerOrder
  <2>6. store'["mr"] # Absent =>
          cache'["pr"] # Absent /\ NoNewer(store'["mr"].spec.pr, cache'["pr"].spec)
    BY <1>4, <1>6 DEF Fits, MrFits, Live, Ordered
  <2>7. \A t \in Tenants, g \in Groups : mimir'[t][g] # Absent =>
          cache'["pr"] # Absent /\ NoNewer(mimir'[t][g], cache'["pr"].spec)
    BY DEF Live, Ordered
  <2> QED BY <2>1, <2>2, <2>3, <2>4, <2>5, <2>6, <2>7 DEF Ordered
<1>11. ReadyIsEarned'
  <2>1. ASSUME store'["slo"] # Absent, deletes' = 0
        PROVE  /\ store'["slo"].ready = "True" => store'["pr"] # Absent
               /\ store'["slo"].cond = "True" => store'["pr"] # Absent /\ store'["mr"] # Absent
    <3>1. \A x \in {"pr", "mr"} : store[x] # Absent => store'[x] # Absent
      BY <1>6, <1>8 DEF Later
    <3>2. CASE k = "slo"
      BY <1>4, <3>1, <3>2 DEF Fits, SloFits
    <3>3. CASE k # "slo"
      BY <1>4, <1>6, <2>1, <3>1, <3>3 DEF Live, ReadyIsEarned
    <3> QED BY <3>2, <3>3
  <2> QED BY <2>1, Zenon DEF ReadyIsEarned
<1>12. FlowStep
  <2>1. CASE k \notin {"slo", "sli", "pr", "mr"}
    <3>1. /\ store'["slo"] = store["slo"] /\ store'["sli"] = store["sli"]
          /\ store'["pr"] = store["pr"] /\ store'["mr"] = store["mr"]
      BY <1>4, <1>6, <2>1
    <3> QED BY <3>1, FlowStutters DEF Written, RulesIn, MirroredIn
  <2>2. CASE k \in {"slo", "sli"}
    <3>1. store'["pr"] = store["pr"] /\ store'["mr"] = store["mr"]
      BY <1>4, <1>6, <2>2
    <3>2. Written' \in Flow!AllVersions
      BY <1>5, Fields DEF Written, Flow!AllVersions
    <3>3. Flow!AtMost(Written, Written')
      <4>1. CASE store["slo"] = Absent
        BY <1>5, <4>1, Fields DEF Written, Flow!AtMost
      <4>2. CASE store["slo"] # Absent
        <5>1. /\ NoNewerSlo(store["slo"], store'["slo"]) /\ store'["slo"] # Absent
              /\ store["sli"] # Absent =>
                    store'["sli"] # Absent /\ store["sli"].spec <= store'["sli"].spec
          BY <1>1, <1>4, <1>5, <1>6, <4>2, Fields DEF Fits, SloFits, SliFits, NoNewerSlo
        <5>2. /\ store["slo"].spec.gen \in Nat /\ store'["slo"].spec.gen \in Nat
              /\ store["sli"] # Absent => store["sli"].spec \in Nat
              /\ store'["sli"] # Absent => store'["sli"].spec \in Nat
          BY <1>5, <4>2, <5>1, Fields
        <5> QED BY <4>2, <5>1, <5>2 DEF Written, Flow!AtMost, NoNewerSlo
      <4> QED BY <4>1, <4>2
    <3> QED BY <3>1, <3>2, <3>3 DEF FlowStep, Flow!Next, Flow!Edit, RulesIn, MirroredIn, Version
  <2>3. CASE k = "pr"
    <3> DEFINE built == Version(RulesIn(store["pr"]))
    <3>1. /\ store'["slo"] = store["slo"] /\ store'["sli"] = store["sli"]
          /\ store'["mr"] = store["mr"] /\ store'["pr"] = o
      BY <1>4, <1>6, <2>3
    <3>2. Written' = Written
      BY <3>1 DEF Written
    <3>3. /\ built = IF store["pr"] = Absent THEN Flow!None ELSE Version(store["pr"].spec)
          /\ built' = Version(o.spec)
      <4>1. store'["pr"] # Absent
        BY <1>1, <3>1
      <4> QED BY <1>5, <3>1, <4>1, Versions
    <3> HIDE DEF built
    <3>4. o.spec \in Content /\ Flow!AtMost(Version(o.spec), Written)
      <4>1. o.spec \in Content
        BY <1>1, <1>5, <3>1, Fields
      <4>2. /\ cache["slo"] # Absent /\ store["slo"] # Absent /\ UpTo(o.spec, cache)
            /\ NoNewerSlo(cache["slo"], store["slo"])
            /\ cache["sli"] # Absent => store["sli"] # Absent /\ cache["sli"].spec <= store["sli"].spec
        BY <1>6, <2>3 DEF Live, Alive, Ordered, Fits, PrFits
      <4>3. UpTo(o.spec, store)
        BY <1>5, <4>1, <4>2, ContentNumbers, UpToMoves
      <4> QED BY <1>5, <4>1, <4>2, <4>3, WrittenVersions
    <3>5. built' \in Flow!From(built, Written)
      <4>1. store["pr"] # Absent => NoNewer(store["pr"].spec, o.spec) /\ store["pr"].spec \in Content
        BY <1>5, <2>3, Fields DEF Fits, PrFits
      <4> QED BY <3>3, <3>4, <4>1, VersionOrder DEF Flow!From
    <3> USE DEF built
    <3> QED BY <3>1, <3>2, <3>5 DEF FlowStep, Flow!Next, Flow!Build, MirroredIn, Version
  <2>4. CASE k = "mr"
    <3> DEFINE mirrored == Version(MirroredIn(store["mr"]))
               built == Version(RulesIn(store["pr"]))
    <3>1. /\ store'["slo"] = store["slo"] /\ store'["sli"] = store["sli"]
          /\ store'["pr"] = store["pr"] /\ store'["mr"] = o
      BY <1>4, <1>6, <2>4
    <3>2. /\ mirrored = IF store["mr"] = Absent THEN Flow!None ELSE Version(store["mr"].spec.pr)
          /\ mirrored' = Version(o.spec.pr)
          /\ built = IF store["pr"] = Absent THEN Flow!None ELSE Version(store["pr"].spec)
      <4>1. store'["mr"] # Absent
        BY <1>1, <3>1
      <4> QED BY <1>5, <3>1, <4>1, Versions
    <3> HIDE DEF built, mirrored
    <3>3. mirrored' \in Flow!From(mirrored, built)
      <4>1. /\ cache["pr"] # Absent /\ NoNewer(o.spec.pr, cache["pr"].spec)
            /\ store["mr"] # Absent => NoNewer(store["mr"].spec.pr, o.spec.pr)
        BY <2>4 DEF Fits, MrFits
      <4>2. store["pr"] # Absent /\ NoNewer(cache["pr"].spec, store["pr"].spec)
        BY <1>6, <4>1 DEF Live, Alive, Ordered
      <4>3. /\ o.spec.pr \in Content /\ cache["pr"].spec \in Content
            /\ store["pr"].spec \in Content
            /\ store["mr"] # Absent => store["mr"].spec.pr \in Content
        BY <1>1, <1>5, <3>1, <4>1, <4>2, Fields
      <4>4. NoNewer(o.spec.pr, store["pr"].spec)
        BY <4>1, <4>2, <4>3, NoNewerOrder
      <4> QED BY <3>2, <4>1, <4>2, <4>3, <4>4, VersionOrder DEF Flow!From
    <3> USE DEF built, mirrored
    <3> QED BY <3>1, <3>3 DEF FlowStep, Flow!Next, Flow!Mirror, Written, RulesIn, Version
  <2> QED BY <2>1, <2>2, <2>3, <2>4
<1> QED BY <1>1, <1>4, <1>8, <1>9, <1>10, <1>11, <1>12

(* And of what the reconciles in progress hold.                            *)
LEMMA HeldNumbers ==
    ASSUME Sound
    PROVE  /\ ObjectsOK(store) /\ ObjectsOK(cache) /\ clock \in Nat
           /\ sloR.pc # "idle" => sloR.spec \in SloSpec /\ sloR.spec.gen \in Nat
           /\ sloR.pc \in {"createInl", "updateInl", "children"} => sloR.sli \in Nat
           /\ sloR.pc \in {"createPr", "ownPr"} =>
                 sloR.made \in ObjectWith(Content) /\ sloR.made.spec \in Content
           /\ sloR.pc \in {"createMr", "ownMr"} =>
                 sloR.made \in ObjectWith(MimirRuleSpec) /\ sloR.made.spec.pr \in Content
           /\ prR.pc = "update" =>
                 prR.made \in ObjectWith(Content) /\ prR.made.spec \in Content
           /\ mrR.pc \in MrHolding => mrR.rules \in Content
<1>1. TypeOK /\ SloHoldsOK(sloR) /\ PrHoldsOK(prR) /\ MrHoldsOK(mrR)
  BY DEF Sound, TypeInv
<1>2. ObjectsOK(store) /\ ObjectsOK(cache) /\ clock \in Nat
  BY <1>1, BoundsAssumption DEF TypeOK
<1>3. /\ sloR.pc # "idle" => sloR.spec \in SloSpec /\ sloR.spec.gen \in Nat
      /\ sloR.pc \in {"createInl", "updateInl", "children"} => sloR.sli \in Nat
  BY <1>1 DEF SloHoldsOK, SloSpec, SloReconcile
<1>4. /\ sloR.pc \in {"createPr", "ownPr"} => sloR.made \in ObjectWith(Content)
      /\ sloR.pc \in {"createMr", "ownMr"} => sloR.made \in ObjectWith(MimirRuleSpec)
      /\ prR.pc = "update" => prR.made \in ObjectWith(Content)
  BY <1>1, ObjectFacts DEF SloHoldsOK, PrHoldsOK
<1>5. mrR.pc \in MrHolding => mrR.rules \in Content
  BY <1>1 DEF MrHoldsOK
<1> QED BY <1>2, <1>3, <1>4, <1>5, SpecNumbers

(* Rules that could be made of what was in the cache still can.            *)
LEMMA LaterUpTo ==
    ASSUME ObjectsOK(cache), ObjectsOK(cache'), Later, cache["slo"] # Absent,
           NEW c, c.slo \in Nat, c.sli \in Nat, UpTo(c, cache)
    PROVE  UpTo(c, cache')
<1>1. /\ cache'["slo"] # Absent /\ NoNewerSlo(cache["slo"], cache'["slo"])
      /\ cache["sli"] # Absent => cache'["sli"] # Absent /\ cache["sli"].spec <= cache'["sli"].spec
  BY DEF Later, Kinds
<1> QED BY <1>1, UpToMoves

(* And rules no newer than those of the PrometheusRule still are.          *)
LEMMA LaterNoNewer ==
    ASSUME ObjectsOK(cache), ObjectsOK(cache'), Later, cache["pr"] # Absent,
           NEW c \in Content, NoNewer(c, cache["pr"].spec)
    PROVE  cache'["pr"] # Absent /\ NoNewer(c, cache'["pr"].spec)
<1>1. cache'["pr"] # Absent /\ NoNewer(cache["pr"].spec, cache'["pr"].spec)
  BY DEF Later, Kinds
<1> QED BY <1>1, Fields, NoNewerOrder

(* A reconcile that is left alone by a step goes on to hold what is there. *)
LEMMA KeepsSloLive ==
    ASSUME Sound, Live, Sound', Later, UNCHANGED sloR
    PROVE  SloLive'
<1> SUFFICES ASSUME sloR.pc # "idle" PROVE SloLive'
  BY DEF SloLive, SloHoldsLive
<1>1. {"slo", "pr", "mr"} \subseteq Kinds /\ SloHoldsLive(sloR)
  BY DEF Kinds, Live, SloLive
<1>2. /\ ObjectsOK(cache) /\ ObjectsOK(cache')
      /\ sloR.spec.gen \in Nat
  BY HeldNumbers DEF Sound, TypeInv, TypeOK
<1>3. cache["slo"] # Absent /\ cache'["slo"] # Absent /\ LiveUid' = LiveUid
  BY <1>1 DEF SloHoldsLive, Live, Alive, Later
<1>4. /\ sloR.pc \in {"createInl", "updateInl", "children"} =>
            UpTo([slo |-> sloR.spec.gen, sli |-> sloR.sli], cache')
      /\ sloR.pc \in {"createPr", "ownPr"} => UpTo(sloR.made.spec, cache')
  <2>1. CASE sloR.pc \in {"createInl", "updateInl", "children"}
    <3> DEFINE c == [slo |-> sloR.spec.gen, sli |-> sloR.sli]
    <3>1. c.slo \in Nat /\ c.sli \in Nat /\ UpTo(c, cache)
      BY <1>1, <2>1, HeldNumbers DEF SloHoldsLive
    <3> HIDE DEF c
    <3>2. UpTo(c, cache')
      BY <1>2, <1>3, <3>1, LaterUpTo
    <3> QED BY <2>1, <3>2 DEF c
  <2>2. CASE sloR.pc \in {"createPr", "ownPr"}
    <3>1. sloR.made.spec \in Content /\ UpTo(sloR.made.spec, cache)
      BY <1>1, <2>2, HeldNumbers DEF SloHoldsLive
    <3> QED BY <1>2, <1>3, <2>2, <3>1, ContentNumbers, LaterUpTo
  <2> QED BY <2>1, <2>2
<1>5. sloR.pc \in {"createMr", "ownMr"} =>
         cache'["pr"] # Absent /\ NoNewer(sloR.made.spec.pr, cache'["pr"].spec)
  <2>1. CASE sloR.pc \in {"createMr", "ownMr"}
    <3>1. /\ sloR.made.spec.pr \in Content /\ cache["pr"] # Absent
          /\ NoNewer(sloR.made.spec.pr, cache["pr"].spec)
      BY <1>1, <2>1, HeldNumbers DEF SloHoldsLive
    <3> QED BY <1>2, <3>1, LaterNoNewer
  <2> QED BY <2>1
<1>6. /\ sloR.pc \in AfterPr => store'["pr"] # Absent
      /\ sloR.pc \in AfterMr => store'["mr"] # Absent
  BY <1>1 DEF SloHoldsLive, Later
<1>7. /\ sloR' = sloR /\ sloR.pc # "release" /\ sloR.uid = LiveUid'
      /\ sloR.pc \in Creating \ {"createInl"} => sloR.made.owner \in {0, LiveUid'}
      /\ sloR.spec.gen <= cache'["slo"].spec.gen
  BY <1>1, <1>2, <1>3, Fields DEF SloHoldsLive, Later, NoNewerSlo
<1> QED BY <1>3, <1>4, <1>5, <1>6, <1>7 DEF SloLive, SloHoldsLive

(* The other two also need that the rules they will replace are the same.  *)
LEMMA KeepsPrLive ==
    ASSUME Sound, Live, Sound', Later, UNCHANGED prR,
           store["pr"] # Absent => store'["pr"].spec = store["pr"].spec
    PROVE  PrLive'
<1> SUFFICES ASSUME prR.pc = "update" PROVE PrLive'
  BY DEF PrLive
<1>1. {"slo", "pr", "mr"} \subseteq Kinds
  BY DEF Kinds
<1>2. ObjectsOK(cache) /\ ObjectsOK(cache') /\ prR.made.spec \in Content
  BY HeldNumbers DEF Sound, TypeInv, TypeOK
<1>3. /\ store["pr"] # Absent /\ cache["slo"] # Absent /\ store["slo"] # Absent
      /\ UpTo(prR.made.spec, cache)
  BY <1>1 DEF Live, PrLive, Ordered, Alive
<1>4. UpTo(prR.made.spec, cache')
  BY <1>2, <1>3, ContentNumbers, LaterUpTo
<1> QED BY <1>1, <1>3, <1>4 DEF Live, PrLive, Later

LEMMA KeepsMrLive ==
    ASSUME Sound, Live, Sound', Later, UNCHANGED <<mrR, mimir>>,
           store["mr"] # Absent => store'["mr"].spec = store["mr"].spec
    PROVE  MrLive'
<1>1. {"slo", "pr", "mr"} \subseteq Kinds
  BY DEF Kinds
<1>2. /\ mrR.pc \notin {"delete", "dropMrFin", "dropPrFin"}
      /\ mrR.pc = "push" => \A t \in Tenants, g \in Groups :
            mimir[t][g] # Absent => NoNewer(mimir[t][g], mrR.rules)
  BY DEF Live, MrLive, MrHoldsLive
<1>3. ASSUME mrR.pc \in MrHolding
      PROVE  /\ cache'["slo"] # Absent /\ mrR.uid = LiveUid'
             /\ cache'["pr"] # Absent /\ NoNewer(mrR.rules, cache'["pr"].spec)
             /\ store'["mr"] # Absent /\ NoNewer(store'["mr"].spec.pr, mrR.rules)
  <2>1. ObjectsOK(cache) /\ ObjectsOK(cache') /\ mrR.rules \in Content
    BY <1>3, HeldNumbers DEF Sound, TypeInv, TypeOK
  <2>2. /\ cache["slo"] # Absent /\ mrR.uid = LiveUid /\ store["slo"] # Absent
        /\ cache["pr"] # Absent /\ NoNewer(mrR.rules, cache["pr"].spec)
        /\ store["mr"] # Absent /\ NoNewer(store["mr"].spec.pr, mrR.rules)
    BY <1>1, <1>3 DEF Live, MrLive, MrHoldsLive, Alive
  <2>3. cache'["pr"] # Absent /\ NoNewer(mrR.rules, cache'["pr"].spec)
    BY <2>1, <2>2, LaterNoNewer
  <2> QED BY <1>1, <2>2, <2>3 DEF Later
<1> QED BY <1>2, <1>3 DEF MrLive, MrHoldsLive

(* A step that changes no object and not Mimir.                            *)
LEMMA QuietLive ==
    ASSUME Sound, Live, UNCHANGED <<store, cache, mimir>>, clock' = clock, deletes = 0
    PROVE  Alive' /\ Ordered' /\ ReadyIsEarned' /\ Later /\ FlowStep
<1>1. Alive' /\ Ordered' /\ ReadyIsEarned'
  BY DEF Live, Alive, Undeleted, LiveUid, Ordered, ReadyIsEarned
<1>2. LiveUid' = LiveUid /\ ObjectsOK(cache)
  BY DEF LiveUid, Sound, TypeInv, TypeOK
<1>3. Later
  BY <1>2, Fields, NoNewerOrder DEF Later, NoNewerSlo
<1>4. FlowStep
  BY FlowStutters DEF Written, RulesIn, MirroredIn
<1> QED BY <1>1, <1>3, <1>4
----------------------------------------------------------------------------
(* The SLO controller.                                                     *)
LEMMA SloSendsLive ==
    ASSUME Sound, Live, Sound', deletes = 0, UNCHANGED <<prR, mrR>>,
           NEW k \in Kinds, NEW o \in Object(k), NEW holds, Sends(k, o, holds), Fits(k, o),
           k = "pr" /\ store["pr"] # Absent => o.spec = store["pr"].spec,
           k = "mr" /\ store["mr"] # Absent => o.spec = store["mr"].spec
    PROVE  /\ store'[k] = o /\ o # Absent
           /\ \A x \in Kinds \ {k} : store'[x] = store[x]
           /\ cache' = cache /\ Later /\ FlowStep
           /\ SloLive' => Live'
<1>1. Write("slo", k, o, holds) /\ UNCHANGED <<cache, mimir>> /\ clock' = clock
  BY DEF Sends, External
<1>2. clock' >= clock
  BY <1>1, BoundsAssumption DEF Sound, TypeInv, TypeOK
<1>3. /\ store'[k] = o /\ o # Absent /\ \A x \in Kinds \ {k} : store'[x] = store[x]
      /\ Alive' /\ Ordered' /\ ReadyIsEarned' /\ Later /\ FlowStep
  BY <1>1, <1>2, WriteFits
<1>4. PrLive' /\ MrLive'
  <2>1. \A x \in {"pr", "mr"} : store[x] # Absent => store'[x].spec = store[x].spec
    BY <1>3 DEF Kinds
  <2> QED BY <1>1, <1>3, <2>1, KeepsPrLive, KeepsMrLive
<1> QED BY <1>1, <1>3, <1>4 DEF Live

(* The reconcile in progress holds the SLO, which exists.                  *)
LEMMA SloHeldLive ==
    ASSUME Sound, Live, sloR.pc # "idle"
    PROVE  /\ store["slo"] # Absent /\ cache["slo"] # Absent
           /\ store["slo"] \in ObjectWith(SloSpec)
           /\ sloR.uid = LiveUid /\ LiveUid = store["slo"].uid /\ LiveUid # 0
           /\ store["slo"].spec.gen \in Nat /\ store["slo"].spec.gen <= clock
           /\ Undeleted(store["slo"]) /\ store["slo"].owner \in {0, LiveUid}
<1>1. "slo" \in Kinds /\ ObjectsOK(store)
  BY DEF Kinds, Sound, TypeInv, TypeOK
<1>2. cache["slo"] # Absent /\ store["slo"] # Absent /\ sloR.uid = LiveUid
  BY <1>1 DEF Live, SloLive, SloHoldsLive, Alive
<1> QED BY <1>1, <1>2, Fields DEF Live, Alive, Ordered, LiveUid

(* A status, or a finalizer, is written on the SLO that was read.          *)
LEMMA SloStatusLive ==
    ASSUME Sound, Live, Sound', deletes = 0, UNCHANGED <<prR, mrR>>,
           NEW o \in Object("slo"), NEW holds, Sends("slo", o, holds), sloR.pc # "idle",
           o.uid = store["slo"].uid, o.spec = store["slo"].spec,
           o.deleting = store["slo"].deleting, o.owner = store["slo"].owner,
           o.ready = "True" => store["pr"] # Absent,
           o.cond = "True" => store["pr"] # Absent /\ store["mr"] # Absent
    PROVE  /\ Later /\ FlowStep
           /\ SloLive' => Live'
<1>1. clock' = clock /\ "slo" \in Kinds
  BY DEF Sends, External, Kinds
<1>2. o # Absent
  BY <1>1, AbsentFacts
<1>3. Fits("slo", o)
  BY <1>1, <1>2, SloHeldLive DEF Fits, SloFits, NoNewerSlo, Undeleted
<1> QED BY <1>1, <1>3, SloSendsLive

(* The fields of the SLO that the SLO controller sends back.               *)
LEMMA HeldSloFields ==
    ASSUME Sound, store["slo"] \in ObjectWith(SloSpec), NEW fin \in BOOLEAN,
           sloR.spec \in SloSpec
    PROVE  LET o == HeldSlo(fin)
           IN  /\ o.uid = store["slo"].uid /\ o.owner = store["slo"].owner
               /\ o.deleting = store["slo"].deleting
               /\ o.ready = store["slo"].ready /\ o.cond = store["slo"].cond
<1> DEFINE p == [store["slo"] EXCEPT !.spec = sloR.spec, !.fin = fin]
<1>1. p \in ObjectWith(SloSpec) /\ p.owner = store["slo"].owner
  BY DEF ObjectWith
<1>2. HeldSlo(fin) = Updated("slo", p)
  BY DEF HeldSlo
<1> HIDE DEF p
<1> QED BY <1>1, <1>2 DEF Updated, ObjectWith

LEMMA AdoptLive ==
    ASSUME Sound, Live, Sound', deletes = 0, Release \/ Adopt, UNCHANGED <<prR, mrR>>
    PROVE  Live' /\ FlowStep /\ Later
<1>1. sloR.pc # "idle" /\ "slo" \in fresh["slo"] /\ sloR.pc # "release"
  BY DEF Release, Adopt, At, Live, SloLive, SloHoldsLive
<1>2. Sends("slo", HeldSlo(TRUE), {}) /\ sloR' = SloIdle
  BY <1>1 DEF Release, Adopt, At, ReturnError
<1>3. HeldSlo(TRUE) \in Object("slo") /\ HeldSlo(TRUE).spec = store["slo"].spec
  BY <1>1, HeldSloTypes
<1>4. LET o == HeldSlo(TRUE)
      IN  /\ o.uid = store["slo"].uid /\ o.owner = store["slo"].owner
          /\ o.deleting = store["slo"].deleting
          /\ o.ready = store["slo"].ready /\ o.cond = store["slo"].cond
  BY <1>1, SloHeld, HeldSloFields
<1>5. /\ store["slo"].ready = "True" => store["pr"] # Absent
      /\ store["slo"].cond = "True" => store["pr"] # Absent /\ store["mr"] # Absent
  BY <1>1, SloHeldLive DEF Live, ReadyIsEarned
<1> DEFINE o == HeldSlo(TRUE)
<1>6. FlowStep /\ Later /\ (SloLive' => Live')
  <2> HIDE DEF o
  <2>1. /\ o \in Object("slo") /\ Sends("slo", o, {}) /\ o.spec = store["slo"].spec
        /\ o.uid = store["slo"].uid /\ o.owner = store["slo"].owner
        /\ o.deleting = store["slo"].deleting
        /\ o.ready = store["slo"].ready /\ o.cond = store["slo"].cond
    BY <1>2, <1>3, <1>4 DEF o
  <2> QED BY <1>1, <1>5, <2>1, SloStatusLive
<1> QED BY <1>2, <1>6 DEF SloLive, SloHoldsLive, SloIdle

LEMMA StatusValues == {"True", "False"} \subseteq Status
BY Zenon DEF Status

(* The outcome of a reconcile is reported: as a success only at the calls  *)
(* before which the children were found or made.                           *)
LEMMA SloStatusesLive ==
    ASSUME Sound, Live, Sound', deletes = 0, UNCHANGED <<prR, mrR>>,
           NoDatasource \/ ReportFailure \/ ReportSuccess \/ PrDone \/ MrDone
    PROVE  FlowStep /\ Later /\ (SloLive' => Live')
<1>1. sloR.pc # "idle"
  BY DEF NoDatasource, ReportFailure, ReportSuccess, PrDone, MrDone, At
<1>2. store["slo"] \in ObjectWith(SloSpec) /\ store["slo"] # Absent
  BY <1>1, SloHeldLive
<1>3. /\ store["slo"].ready = "True" => store["pr"] # Absent
      /\ store["slo"].cond = "True" => store["pr"] # Absent /\ store["mr"] # Absent
  BY <1>2 DEF Live, ReadyIsEarned
<1>4. ASSUME NEW r \in {"True", "False"}, NEW holds,
             Sends("slo", [store["slo"] EXCEPT !.ready = r], holds),
             r = "True" => store["pr"] # Absent
      PROVE  FlowStep /\ Later /\ (SloLive' => Live')
  <2> DEFINE o == [store["slo"] EXCEPT !.ready = r]
  <2>1. /\ o \in Object("slo") /\ o.spec = store["slo"].spec /\ o.uid = store["slo"].uid
        /\ o.owner = store["slo"].owner /\ o.deleting = store["slo"].deleting
        /\ o.ready = r /\ o.cond = store["slo"].cond
    BY <1>2, StatusValues, ObjectFacts DEF ObjectWith
  <2>2. Sends("slo", o, holds)
    BY <1>4
  <2> HIDE DEF o
  <2> QED BY <1>1, <1>3, <1>4, <2>1, <2>2, SloStatusLive
<1>5. ASSUME NEW r \in {"True", "False"}, NEW holds,
             Sends("slo", [store["slo"] EXCEPT !.ready = r, !.cond = r], holds),
             r = "True" => store["pr"] # Absent /\ store["mr"] # Absent
      PROVE  FlowStep /\ Later /\ (SloLive' => Live')
  <2> DEFINE o == [store["slo"] EXCEPT !.ready = r, !.cond = r]
  <2>1. /\ o \in Object("slo") /\ o.spec = store["slo"].spec /\ o.uid = store["slo"].uid
        /\ o.owner = store["slo"].owner /\ o.deleting = store["slo"].deleting
        /\ o.ready = r /\ o.cond = r
    BY <1>2, StatusValues, ObjectFacts DEF ObjectWith
  <2>2. Sends("slo", o, holds)
    BY <1>5
  <2> HIDE DEF o
  <2> QED BY <1>1, <1>3, <1>5, <2>1, <2>2, SloStatusLive
<1>6. /\ sloR.pc \in AfterPr => store["pr"] # Absent
      /\ sloR.pc \in AfterMr => store["mr"] # Absent
  BY <1>1 DEF Live, SloLive, SloHoldsLive
<1>7. CASE NoDatasource
  BY <1>4, <1>7 DEF NoDatasource
<1>8. CASE ReportFailure
  BY <1>5, <1>8 DEF ReportFailure
<1>9. CASE ReportSuccess
  BY <1>5, <1>6, <1>9 DEF ReportSuccess, At, AfterPr, AfterMr
<1>10. CASE PrDone
  BY <1>4, <1>6, <1>10 DEF PrDone, At, AfterPr
<1>11. CASE MrDone
  BY <1>4, <1>6, <1>11 DEF MrDone, At, AfterPr
<1> QED BY <1>7, <1>8, <1>9, <1>10, <1>11

(* The reconcile goes on, holding the same SLO.                            *)
LEMMA SloGoesOnLive ==
    ASSUME Sound, Live, Later, cache' = cache, sloR.pc # "idle"
    PROVE  /\ cache'["slo"] # Absent /\ sloR.uid = LiveUid'
           /\ sloR.spec.gen <= cache'["slo"].spec.gen
           /\ sloR.pc \in {"createInl", "updateInl"} =>
                 UpTo([slo |-> sloR.spec.gen, sli |-> sloR.sli], cache')
           /\ \A k \in {"pr", "mr"} : store[k] # Absent => store'[k] # Absent
BY SloHeldLive DEF Live, SloLive, SloHoldsLive, Later, Kinds

LEMMA InlineLive ==
    ASSUME Sound, Live, Sound', deletes = 0, UNCHANGED <<prR, mrR>>,
           CreateInline \/ UpdateInline
    PROVE  Live' /\ FlowStep /\ Later
<1> DEFINE o == IF sloR.pc = "createInl"
                THEN [New(sloR.spec.gen, 0) EXCEPT !.owner = sloR.uid]
                ELSE [store["inl"] EXCEPT !.spec = sloR.spec.gen]
<1>1. /\ sloR.pc \in {"createInl", "updateInl"}
      /\ sloR.pc = "updateInl" => "inl" \in fresh["slo"]
      /\ Sends("inl", o, fresh["slo"]) /\ Goto("children")
  BY DEF CreateInline, UpdateInline, At
<1>2. /\ sloR \in SloReconcile /\ sloR.spec \in SloSpec
      /\ sloR.spec.gen \in Nat /\ sloR.uid \in Nat /\ sloR.uid = LiveUid
  BY <1>1, SloHeldLive DEF Sound, TypeInv, SloHoldsOK, SloReconcile, SloSpec
<1>3. "inl" \in Kinds
  BY DEF Kinds
<1>4. o \in Object("inl") /\ ~o.deleting /\ o.owner \in {0, LiveUid}
  <2>1. CASE sloR.pc = "createInl"
    <3> DEFINE n == New(sloR.spec.gen, 0)
    <3>1. n \in ObjectWith(Nat) /\ ~n.deleting
      <4>1. n \in ObjectWith(Nat)
        BY <1>2, NewTypes
      <4> QED BY <4>1 DEF New
    <3>2. o = [n EXCEPT !.owner = sloR.uid]
      BY <2>1
    <3> HIDE DEF n, o
    <3> QED BY <1>2, <3>1, <3>2, ObjectFacts DEF ObjectWith
  <2>2. CASE sloR.pc = "updateInl"
    <3>1. store["inl"] \in ObjectWith(Nat) /\ store["inl"] # Absent
      BY <1>1, <1>3, <2>2, StoredTypes, ObjectFacts DEF Sound, TypeInv, Coherent, SloCoherent
    <3>2. ~store["inl"].deleting /\ store["inl"].owner \in {0, LiveUid}
      BY <1>3, <3>1 DEF Live, Alive, Undeleted
    <3>3. o = [store["inl"] EXCEPT !.spec = sloR.spec.gen]
      BY <2>2
    <3> HIDE DEF o
    <3> QED BY <1>2, <3>1, <3>2, <3>3, ObjectFacts DEF ObjectWith
  <2> QED BY <1>1, <2>1, <2>2
<1> HIDE DEF o
<1>5. Fits("inl", o)
  BY <1>4 DEF Fits, Undeleted
<1>6. cache' = cache /\ FlowStep /\ Later /\ (SloLive' => Live')
  BY <1>1, <1>3, <1>4, <1>5, SloSendsLive
<1>7. sloR' = [sloR EXCEPT !.pc = "children", !.made = Absent]
  BY <1>1 DEF Goto
<1>8. /\ sloR'.pc = "children" /\ sloR'.spec = sloR.spec /\ sloR'.uid = sloR.uid
      /\ sloR'.sli = sloR.sli
  BY <1>2, <1>7 DEF SloReconcile
<1>9. SloLive'
  BY <1>1, <1>6, <1>8, SloGoesOnLive DEF SloLive, SloHoldsLive, Creating, AfterPr, AfterMr
<1> QED BY <1>6, <1>9

(* A child is created with the rules of the SLO, or of the PrometheusRule, *)
(* that was read; there was none.                                          *)
LEMMA CreateLive ==
    ASSUME Sound, Live, Sound', deletes = 0, UNCHANGED <<prR, mrR>>,
           CreatePr \/ CreateMr \/ CreateAmc
    PROVE  Live' /\ FlowStep /\ Later
<1>1. ASSUME NEW k \in {"pr", "mr", "amc"}, NEW pc, NEW next,
             \/ pc = "createPr" /\ k = "pr" /\ next = "ownPr"
             \/ pc = "createMr" /\ k = "mr" /\ next = "ownMr"
             \/ pc = "createAmc" /\ k = "amc" /\ next = "ownAmc",
             Create(pc, k, next)
      PROVE  Live' /\ FlowStep /\ Later
  <2>1. /\ sloR.pc = pc /\ sloR.pc # "idle" /\ store[k] = Absent
        /\ Sends(k, sloR.made, fresh["slo"] \cup {k})
        /\ sloR' = [sloR EXCEPT !.pc = next]
    BY <1>1 DEF Create
  <2>2. /\ sloR \in SloReconcile /\ sloR.spec \in SloSpec
        /\ sloR.made \in Object(k) /\ ~sloR.made.deleting
    BY <1>1, <2>1 DEF Sound, TypeInv, SloHoldsOK
  <2>3. k \in Kinds
    BY DEF Kinds
  <2>4. SloHoldsLive(sloR)
    BY DEF Live, SloLive
  <2>5. Fits(k, sloR.made)
    BY <1>1, <2>1, <2>2, <2>4
       DEF SloHoldsLive, Creating, Fits, PrFits, MrFits, Undeleted
  <2>6. /\ store'[k] # Absent /\ cache' = cache /\ Later /\ FlowStep
        /\ SloLive' => Live'
    BY <2>1, <2>2, <2>3, <2>5, SloSendsLive
  <2>7. /\ sloR'.pc = next /\ sloR'.spec = sloR.spec /\ sloR'.uid = sloR.uid
        /\ sloR'.made = sloR.made
    BY <2>1, <2>2 DEF SloReconcile
  <2>8. SloLive'
    BY <1>1, <2>1, <2>4, <2>6, <2>7, SloGoesOnLive
       DEF SloLive, SloHoldsLive, Creating, AfterPr, AfterMr
  <2> QED BY <2>6, <2>8
<1> QED BY <1>1 DEF CreatePr, CreateMr, CreateAmc

(* Its owner reference is changed: the rules stay.                         *)
LEMMA OwnLive ==
    ASSUME Sound, Live, Sound', deletes = 0, UNCHANGED <<prR, mrR>>,
           OwnPr \/ OwnMr \/ OwnAmc
    PROVE  Live' /\ FlowStep /\ Later
<1>1. ASSUME NEW k \in {"pr", "mr", "amc"}, NEW pc, NEW next,
             \/ pc = "ownPr" /\ k = "pr" /\ next = "prDone"
             \/ pc = "ownMr" /\ k = "mr" /\ next = "mrDone"
             \/ pc = "ownAmc" /\ k = "amc" /\ next = "markReady",
             Own(pc, k, next)
      PROVE  Live' /\ FlowStep /\ Later
  <2> DEFINE p == [sloR.made EXCEPT !.owner = sloR.uid, !.ctrl = FALSE]
             o == Updated(k, p)
  <2>1. /\ sloR.pc = pc /\ sloR.pc # "idle" /\ k \in fresh["slo"]
        /\ Sends(k, o, fresh["slo"])
        /\ sloR' = [sloR EXCEPT !.pc = next, !.made = Absent]
    BY <1>1 DEF Own, At, Goto
  <2>2. /\ sloR \in SloReconcile /\ sloR.spec \in SloSpec /\ sloR.made \in Object(k)
        /\ sloR.uid \in Nat
    BY <1>1, <2>1 DEF Sound, TypeInv, SloHoldsOK, SloReconcile
  <2>3. k \in Kinds
    BY DEF Kinds
  <2>4. store[k] # Absent /\ ~store[k].deleting /\ store[k].spec = sloR.made.spec
    BY <1>1, <2>1 DEF Sound, Coherent, SloCoherent, StillAsMade
  <2>5. /\ p \in ObjectWith(SpecOfKind[k]) /\ p.spec = sloR.made.spec
        /\ p.owner = sloR.uid
    BY <2>2, ObjectFacts DEF ObjectWith
  <2>6. store[k] \in ObjectWith(SpecOfKind[k])
    BY <2>3, <2>4, StoredTypes, ObjectFacts DEF Sound, TypeInv
  <2> HIDE DEF p
  <2>7. /\ o \in Object(k) /\ o.spec = store[k].spec /\ ~o.deleting
        /\ o.owner = sloR.uid
    BY <2>3, <2>4, <2>5, <2>6, UpdatedTypes, ObjectFacts
  <2> HIDE DEF o
  <2>8. Fits(k, o)
    <3>1. Undeleted(o) /\ o.owner \in {0, LiveUid}
      BY <2>1, <2>7, SloHeldLive DEF Undeleted
    <3>2. CASE k = "pr"
      BY <2>4, <2>7, <3>1, <3>2, Fields, HeldNumbers, NoNewerOrder DEF Fits, PrFits, Live, Ordered
    <3>3. CASE k = "mr"
      BY <2>4, <2>7, <3>1, <3>3, Fields, HeldNumbers, NoNewerOrder DEF Fits, MrFits, Live, Ordered
    <3>4. CASE k = "amc"
      BY <3>1, <3>4 DEF Fits
    <3> QED BY <3>2, <3>3, <3>4
  <2>9. /\ store'[k] # Absent /\ cache' = cache /\ Later /\ FlowStep
        /\ SloLive' => Live'
    BY <2>1, <2>3, <2>7, <2>8, SloSendsLive
  <2>10. sloR'.pc = next /\ sloR'.spec = sloR.spec /\ sloR'.uid = sloR.uid
    BY <2>1, <2>2 DEF SloReconcile
  <2>11. SloHoldsLive(sloR)
    BY DEF Live, SloLive
  <2>12. SloLive'
    BY <1>1, <2>1, <2>9, <2>10, <2>11, SloGoesOnLive
       DEF SloLive, SloHoldsLive, Creating, AfterPr, AfterMr
  <2> QED BY <2>9, <2>12
<1> QED BY <1>1 DEF OwnPr, OwnMr, OwnAmc

LEMMA SloReportsLive ==
    ASSUME Sound, Live, Sound', deletes = 0, UNCHANGED <<prR, mrR>>,
           NoDatasource \/ ReportFailure \/ ReportSuccess \/ PrDone \/ MrDone
    PROVE  Live' /\ FlowStep /\ Later
<1>1. FlowStep /\ Later /\ (SloLive' => Live')
  BY SloStatusesLive
<1>2. CASE NoDatasource \/ ReportFailure \/ ReportSuccess \/ PrDone
  <2>1. sloR'.pc = "idle"
    BY <1>2 DEF NoDatasource, ReportFailure, ReportSuccess, PrDone, Return, ReturnError, SloIdle
  <2> QED BY <1>1, <2>1 DEF SloLive, SloHoldsLive
<1>3. CASE MrDone
  <2>1. /\ sloR.pc = "mrDone" /\ cache' = cache
        /\ sloR' = [sloR EXCEPT !.pc = "mrReady", !.made = Absent]
    BY <1>3 DEF MrDone, At, Goto, Sends, External
  <2>2. sloR'.pc = "mrReady" /\ sloR'.spec = sloR.spec /\ sloR'.uid = sloR.uid
    BY <2>1 DEF Sound, TypeInv, SloHoldsOK, SloReconcile
  <2>3. SloHoldsLive(sloR)
    BY DEF Live, SloLive
  <2>4. SloLive'
    BY <1>1, <2>1, <2>2, <2>3, SloGoesOnLive
       DEF SloLive, SloHoldsLive, Creating, AfterPr, AfterMr
  <2> QED BY <1>1, <2>4
<1> QED BY <1>2, <1>3

LEMMA MrReadyLive ==
    ASSUME Sound, Live, Sound', deletes = 0, UNCHANGED <<prR, mrR>>, MrReady
    PROVE  Live' /\ FlowStep /\ Later
<1> DEFINE o == [store["mr"] EXCEPT !.ready = "True"]
<1>1. sloR.pc = "mrReady" /\ Sends("mr", o, {}) /\ sloR' = SloIdle
  BY DEF MrReady, At, Return
<1>2. "mr" \in Kinds /\ ObjectsOK(store) /\ ObjectsOK(cache)
  BY HeldNumbers DEF Kinds
<1>3. store["mr"] # Absent /\ store["mr"] \in ObjectWith(MimirRuleSpec)
  BY <1>1, <1>2, Fields DEF Live, SloLive, SloHoldsLive, AfterMr
<1>4. /\ o \in Object("mr") /\ o.spec = store["mr"].spec
      /\ o.owner = store["mr"].owner /\ o.deleting = store["mr"].deleting
  BY <1>3, StatusValues, ObjectFacts DEF ObjectWith
<1> HIDE DEF o
<1>5. Fits("mr", o)
  BY <1>2, <1>3, <1>4, Fields, NoNewerOrder
     DEF Fits, MrFits, Undeleted, Live, Alive, Ordered
<1>6. FlowStep /\ Later /\ (SloLive' => Live')
  BY <1>1, <1>2, <1>4, <1>5, SloSendsLive
<1> QED BY <1>1, <1>6 DEF SloLive, SloHoldsLive, SloIdle

(* A step of the SLO controller that writes nothing.                       *)
LEMMA SloQuietLive ==
    ASSUME Sound, Live, Sound', deletes = 0, UNCHANGED <<store, prR, mrR>>,
           UNCHANGED External, SloHoldsLive(sloR')
    PROVE  Live' /\ FlowStep /\ Later
<1>1. UNCHANGED <<cache, mimir, clock>>
  BY DEF External
<1>2. Alive' /\ Ordered' /\ ReadyIsEarned' /\ Later /\ FlowStep
  BY <1>1, QuietLive
<1>3. PrLive' /\ MrLive'
  BY <1>1, <1>2, KeepsPrLive, KeepsMrLive
<1>4. SloLive'
  BY <1>1 DEF SloLive, SloHoldsLive, LiveUid
<1> QED BY <1>2, <1>3, <1>4 DEF Live

LEMMA SloCallFailsLive ==
    ASSUME Sound, Live, Sound', deletes = 0, UNCHANGED <<prR, mrR>>, CallFails \/ MrFailed
    PROVE  Live' /\ FlowStep /\ Later
<1>1. UNCHANGED store /\ UNCHANGED External /\ sloR.pc # "idle"
  BY DEF CallFails, MrFailed, External, WritesTo, At
<1>2. SloHoldsLive(sloR) /\ sloR \in SloReconcile
  BY <1>1 DEF Live, SloLive, Sound, TypeInv, SloHoldsOK
<1>3. CASE ReturnError
  <2>1. SloHoldsLive(sloR')
    BY <1>3 DEF ReturnError, SloIdle, SloHoldsLive
  <2> QED BY <1>1, <2>1, SloQuietLive
<1>4. CASE Goto("fail")
  <2>1. sloR'.pc = "fail" /\ sloR'.spec = sloR.spec /\ sloR'.uid = sloR.uid
    BY <1>2, <1>4 DEF Goto, SloReconcile
  <2>2. SloHoldsLive(sloR')
    BY <1>1, <1>2, <2>1 DEF SloHoldsLive, Creating, AfterPr, AfterMr
  <2> QED BY <1>1, <2>2, SloQuietLive
<1>5. CASE sloR.pc = "createMr" /\ Goto("mrFailed")
  <2>1. sloR'.pc = "mrFailed" /\ sloR'.spec = sloR.spec /\ sloR'.uid = sloR.uid
    BY <1>2, <1>5 DEF Goto, SloReconcile
  <2>2. SloHoldsLive(sloR')
    BY <1>1, <1>2, <1>5, <2>1 DEF SloHoldsLive, Creating, AfterPr, AfterMr
  <2> QED BY <1>1, <2>2, SloQuietLive
<1> QED BY <1>3, <1>4, <1>5 DEF CallFails, AfterFailure, MrFailed

(* The SLO that a reconcile holds is the one in the cache, or older.       *)
HoldsCached(r) ==
    /\ r \in SloReconcile /\ r.spec \in SloSpec
    /\ cache["slo"] # Absent /\ r.uid = LiveUid
    /\ r.spec.gen <= cache["slo"].spec.gen

(* What the choice of the next child comes to.                             *)
LEMMA ChildrenLive ==
    ASSUME Sound, Live, NEW r, HoldsCached(r), r.ds \in Tenants,
           UpTo([slo |-> r.spec.gen, sli |-> r.sli], cache)
    PROVE  SloHoldsLive(ChildrenStep(r))
<1> DEFINE rules == [slo |-> r.spec.gen, sli |-> r.sli, magic |-> r.spec.magic,
                     named |-> TRUE]
           mrSpec == [pr |-> cache["pr"].spec, ds |-> r.ds]
<1> USE DEF HoldsCached
<1>1. /\ TypeOK /\ r \in SloReconcile /\ r.uid \in Nat /\ r.spec.gen \in Nat
      /\ r.sli \in Nat /\ r.spec.magic \in BOOLEAN
  BY DEF Sound, TypeInv, SloReconcile, SloSpec
<1>2. {"slo", "pr", "mr"} \subseteq Kinds
  BY DEF Kinds
<1>3. CASE cache["pr"] = Absent /\ r.spec.valid
  <2>1. ChildrenStep(r) = [r EXCEPT !.pc = "createPr", !.made = Child(rules, r)]
    BY <1>3 DEF ChildrenStep
  <2>2. Child(rules, r).spec = rules /\ Child(rules, r).owner = r.uid
    BY <1>1, ChildTypes
  <2>3. UpTo(rules, cache)
    BY DEF UpTo
  <2> HIDE DEF rules
  <2>4. LET s == ChildrenStep(r)
        IN  s.pc = "createPr" /\ s.spec = r.spec /\ s.uid = r.uid /\ s.made = Child(rules, r)
    BY <1>1, <2>1 DEF SloReconcile
  <2> QED BY <2>2, <2>3, <2>4 DEF SloHoldsLive, AfterPr, AfterMr
<1>4. CASE cache["pr"] # Absent /\ cache["mr"] = Absent
  <2>1. ChildrenStep(r) = [r EXCEPT !.pc = "createMr", !.made = Child(mrSpec, r)]
    BY <1>4 DEF ChildrenStep
  <2>2. Child(mrSpec, r).spec = mrSpec /\ Child(mrSpec, r).owner = r.uid
    BY <1>1, ChildTypes
  <2>3. NoNewer(mrSpec.pr, cache["pr"].spec)
    BY <1>1, <1>4, Fields, NoNewerOrder DEF TypeOK
  <2>4. store["pr"] # Absent
    BY <1>2, <1>4 DEF Live, Alive
  <2> HIDE DEF mrSpec
  <2>5. LET s == ChildrenStep(r)
        IN  s.pc = "createMr" /\ s.spec = r.spec /\ s.uid = r.uid /\ s.made = Child(mrSpec, r)
    BY <1>1, <2>1 DEF SloReconcile
  <2> QED BY <1>4, <2>2, <2>3, <2>4, <2>5 DEF SloHoldsLive, AfterPr, AfterMr
<1>5. CASE cache["pr"] # Absent /\ cache["mr"] # Absent
  <2>1. store["pr"] # Absent /\ store["mr"] # Absent
    BY <1>2, <1>5 DEF Live, Alive
  <2>2. \/ ChildrenStep(r) = [r EXCEPT !.pc = "createAmc", !.made = New(0, 0)]
        \/ ChildrenStep(r) = [r EXCEPT !.pc = "markReady"]
    BY <1>5 DEF ChildrenStep
  <2>3. New(0, 0).owner = 0
    BY DEF New
  <2>4. LET s == ChildrenStep(r)
        IN  /\ s.spec = r.spec /\ s.uid = r.uid
            /\ (s.pc = "createAmc" /\ s.made = New(0, 0)) \/ s.pc = "markReady"
    BY <1>1, <2>2 DEF SloReconcile
  <2> QED BY <2>1, <2>3, <2>4 DEF SloHoldsLive, Creating
<1>6. CASE cache["pr"] = Absent /\ ~r.spec.valid
  <2>1. ChildrenStep(r) = [r EXCEPT !.pc = "fail"]
    BY <1>6 DEF ChildrenStep
  <2>2. LET s == ChildrenStep(r) IN s.pc = "fail" /\ s.spec = r.spec /\ s.uid = r.uid
    BY <1>1, <2>1 DEF SloReconcile
  <2> QED BY <2>2 DEF SloHoldsLive, Creating, AfterPr, AfterMr
<1> QED BY <1>3, <1>4, <1>5, <1>6

(* And of the Datasource and the SLI before it.                            *)
LEMMA DependenciesLive ==
    ASSUME Sound, Live, NEW r, HoldsCached(r), r.spec = cache["slo"].spec, r.sli = 0
    PROVE  SloHoldsLive(DependenciesStep(r))
<1> DEFINE d == [r EXCEPT !.ds = cache["ds"].spec]
           q == [d EXCEPT !.sli = cache["sli"].spec]
<1>1. r \in SloReconcile /\ ObjectsOK(cache)
  BY HeldNumbers DEF HoldsCached
<1>2. ASSUME NEW pc \in {"noDs", "fail", "createInl", "updateInl"},
             pc \in {"createInl", "updateInl"} => r.spec.ind # "ref",
             DependenciesStep(r) = [r EXCEPT !.pc = pc]
             \/ DependenciesStep(r) = [d EXCEPT !.pc = pc]
      PROVE  SloHoldsLive(DependenciesStep(r))
  <2>1. LET s == DependenciesStep(r)
        IN  s.pc = pc /\ s.spec = r.spec /\ s.uid = r.uid /\ s.sli = r.sli
    BY <1>1, <1>2 DEF SloReconcile
  <2>2. pc \in {"createInl", "updateInl"} => UpTo([slo |-> r.spec.gen, sli |-> r.sli], cache)
    BY <1>2 DEF UpTo
  <2> QED BY <2>1, <2>2 DEF HoldsCached, SloHoldsLive, Creating, AfterPr, AfterMr
<1>3. CASE cache["ds"] = Absent
  BY <1>2, <1>3 DEF DependenciesStep
<1>4. CASE cache["ds"] # Absent
  <2>1. cache["ds"].spec \in Tenants
    <3>1. cache["ds"] \in ObjectWith(Tenants)
      BY <1>4, StoredTypes, ObjectFacts DEF Kinds, Sound, TypeInv
    <3> QED BY <3>1 DEF ObjectWith
  <2>2. HoldsCached(d) /\ d.ds \in Tenants /\ d.spec = r.spec /\ d.sli = 0
    BY <1>1, <2>1 DEF SloReconcile, HoldsCached
  <2>3. cache["sli"] # Absent =>
          /\ HoldsCached(q) /\ q.ds \in Tenants
          /\ q.spec = r.spec /\ q.sli = cache["sli"].spec /\ q.sli \in Nat
    <3>1. cache["sli"] # Absent => cache["sli"].spec \in Nat
      BY <1>1, Fields
    <3> QED BY <2>2, <3>1 DEF SloReconcile, HoldsCached
  <2>4. CASE r.spec.ind = "ref" /\ cache["sli"] # Absent
    <3>1. DependenciesStep(r) = ChildrenStep(q)
      BY <1>4, <2>4 DEF DependenciesStep
    <3> HIDE DEF q
    <3>2. UpTo([slo |-> q.spec.gen, sli |-> q.sli], cache)
      BY <2>3, <2>4 DEF UpTo
    <3> QED BY <2>3, <2>4, <3>1, <3>2, ChildrenLive
  <2>5. CASE r.spec.ind = "inline" /\ cache["inl"] # Absent /\ cache["inl"].spec = r.spec.gen
    <3>1. DependenciesStep(r) = ChildrenStep(d)
      BY <1>4, <2>5 DEF DependenciesStep
    <3> HIDE DEF d
    <3>2. UpTo([slo |-> d.spec.gen, sli |-> d.sli], cache)
      BY <2>2, <2>5 DEF UpTo
    <3> QED BY <2>2, <3>1, <3>2, ChildrenLive
  <2>6. CASE /\ ~(r.spec.ind = "ref" /\ cache["sli"] # Absent)
             /\ ~(r.spec.ind = "inline" /\ cache["inl"] # Absent /\ cache["inl"].spec = r.spec.gen)
    <3>1. \/ r.spec.ind = "inline" /\ DependenciesStep(r) = [d EXCEPT !.pc = "createInl"]
          \/ r.spec.ind = "inline" /\ DependenciesStep(r) = [d EXCEPT !.pc = "updateInl"]
          \/ DependenciesStep(r) = [r EXCEPT !.pc = "fail"]
      BY <1>4, <2>6 DEF DependenciesStep
    <3>2. CASE r.spec.ind = "inline" /\ DependenciesStep(r) = [d EXCEPT !.pc = "createInl"]
      BY <1>2, <3>2
    <3>3. CASE r.spec.ind = "inline" /\ DependenciesStep(r) = [d EXCEPT !.pc = "updateInl"]
      BY <1>2, <3>3
    <3>4. CASE DependenciesStep(r) = [r EXCEPT !.pc = "fail"]
      BY <1>2, <3>4
    <3> QED BY <3>1, <3>2, <3>3, <3>4
  <2> QED BY <2>4, <2>5, <2>6
<1> QED BY <1>3, <1>4

LEMMA SloBeginLive ==
    ASSUME Sound, Live, Sound', deletes = 0, UNCHANGED <<prR, mrR>>, SloBegin
    PROVE  Live' /\ FlowStep /\ Later
<1> DEFINE slo == cache["slo"]
           read == [SloIdle EXCEPT !.spec = slo.spec, !.uid = slo.uid]
<1>1. UNCHANGED store /\ UNCHANGED External /\ sloR.pc = "idle"
  BY DEF SloBegin
<1>2. CASE sloR' = sloR
  <2>1. SloHoldsLive(sloR')
    BY <1>2 DEF Live, SloLive
  <2> QED BY <1>1, <2>1, SloQuietLive
<1>3. CASE /\ slo # Absent
           /\ sloR' = IF slo.deleting THEN [read EXCEPT !.pc = "release"]
                      ELSE IF ~slo.fin THEN [read EXCEPT !.pc = "adopt"]
                      ELSE DependenciesStep(read)
  <2>1. "slo" \in Kinds /\ ObjectsOK(cache)
    BY HeldNumbers DEF Kinds
  <2>2. /\ slo \in ObjectWith(SloSpec) /\ slo.spec \in SloSpec /\ slo.spec.gen \in Nat
        /\ slo.uid \in Nat /\ ~slo.deleting /\ slo.uid = LiveUid
    BY <1>3, <2>1, Fields DEF ObjectWith, Live, Alive, Undeleted
  <2>3. HoldsCached(read)
    <3>1. read \in SloReconcile /\ read.spec = slo.spec /\ read.uid = slo.uid
      BY <2>2 DEF SloReconcile, SloIdle, SloPcs
    <3> HIDE DEF read
    <3>2. slo.spec.gen <= cache["slo"].spec.gen
      BY <2>2
    <3> QED BY <1>3, <2>2, <3>1, <3>2 DEF HoldsCached
  <2>6. read.spec = cache["slo"].spec /\ read.sli = 0
    BY DEF SloIdle
  <2>4. CASE ~slo.fin
    <3>1. sloR' = [read EXCEPT !.pc = "adopt"]
      BY <1>3, <2>2, <2>4
    <3> HIDE DEF read
    <3>2. sloR'.pc = "adopt" /\ sloR'.spec = read.spec /\ sloR'.uid = read.uid
      BY <2>3, <3>1 DEF HoldsCached, SloReconcile
    <3>3. SloHoldsLive(sloR')
      BY <2>3, <3>2 DEF HoldsCached, SloHoldsLive, Creating, AfterPr, AfterMr
    <3> QED BY <1>1, <3>3, SloQuietLive
  <2>5. CASE slo.fin
    <3>1. sloR' = DependenciesStep(read)
      BY <1>3, <2>2, <2>5
    <3> HIDE DEF read
    <3>2. SloHoldsLive(sloR')
      BY <2>3, <2>6, <3>1, DependenciesLive
    <3> QED BY <1>1, <3>2, SloQuietLive
  <2> QED BY <2>4, <2>5
<1> QED BY <1>2, <1>3 DEF SloBegin

LEMMA LookAtChildrenLive ==
    ASSUME Sound, Live, Sound', deletes = 0, UNCHANGED <<prR, mrR>>, LookAtChildren
    PROVE  Live' /\ FlowStep /\ Later
<1>1. /\ UNCHANGED store /\ UNCHANGED External
      /\ sloR.pc = "children" /\ sloR' = ChildrenStep(sloR)
  BY DEF LookAtChildren
<1>2. /\ HoldsCached(sloR) /\ sloR.ds \in Tenants
      /\ UpTo([slo |-> sloR.spec.gen, sli |-> sloR.sli], cache)
  BY <1>1 DEF HoldsCached, Live, SloLive, SloHoldsLive, Sound, TypeInv, SloHoldsOK
<1>3. SloHoldsLive(sloR')
  BY <1>1, <1>2, ChildrenLive
<1> QED BY <1>1, <1>3, SloQuietLive

LEMMA SloCtlLive ==
    ASSUME Sound, Live, Sound', deletes = 0, SloCtl
    PROVE  Live' /\ FlowStep /\ Later
BY AdoptLive, SloReportsLive, InlineLive, CreateLive, OwnLive, MrReadyLive, SloCallFailsLive,
   SloBeginLive, LookAtChildrenLive
   DEF SloCtl, SloStep
----------------------------------------------------------------------------
(* The PrometheusRule controller.                                          *)
LEMMA PrQuietLive ==
    ASSUME Sound, Live, Sound', deletes = 0, UNCHANGED <<sloR, mrR>>, PrUnchanged, PrLive'
    PROVE  Live' /\ FlowStep /\ Later
<1>1. UNCHANGED <<store, cache, mimir, clock>>
  BY DEF PrUnchanged, External
<1>2. Alive' /\ Ordered' /\ ReadyIsEarned' /\ Later /\ FlowStep
  BY <1>1, QuietLive
<1>3. SloLive' /\ MrLive'
  BY <1>1, <1>2, KeepsSloLive, KeepsMrLive
<1> QED BY <1>2, <1>3 DEF Live

LEMMA PrSendsLive ==
    ASSUME Sound, Live, Sound', deletes = 0, UNCHANGED <<sloR, mrR>>, UNCHANGED External,
           NEW k \in {"slo", "pr"}, NEW o \in Object(k), Write("pr", k, o, {}), Fits(k, o),
           prR' = PrIdle
    PROVE  Live' /\ FlowStep /\ Later
<1>1. UNCHANGED <<cache, mimir>> /\ clock' = clock /\ k \in Kinds /\ "mr" \in Kinds \ {k}
  BY DEF External, Kinds
<1>2. clock' >= clock
  BY <1>1, HeldNumbers
<1>3. /\ store'["mr"] = store["mr"]
      /\ Alive' /\ Ordered' /\ ReadyIsEarned' /\ Later /\ FlowStep
  BY <1>1, <1>2, WriteFits
<1>4. SloLive' /\ MrLive'
  BY <1>1, <1>3, KeepsSloLive, KeepsMrLive
<1>5. PrLive'
  BY DEF PrLive, PrIdle
<1> QED BY <1>3, <1>4, <1>5 DEF Live

LEMMA PrQuietStepsLive ==
    ASSUME Sound, Live, Sound', deletes = 0, UNCHANGED <<sloR, mrR>>,
           PrGone \/ PrNoRules \/ PrCallFails
    PROVE  Live' /\ FlowStep /\ Later
<1>1. PrUnchanged /\ (prR' = prR \/ prR' = PrIdle)
  BY DEF PrGone, PrNoRules, PrCallFails, PrReturnError
<1>2. PrLive'
  BY <1>1 DEF PrUnchanged, External, PrLive, PrIdle, Live, LiveUid
<1> QED BY <1>1, <1>2, PrQuietLive

(* The rules are made from the SLO in the cache.                           *)
LEMMA PrBeginLive ==
    ASSUME Sound, Live, Sound', deletes = 0, UNCHANGED <<sloR, mrR>>, PrBegin
    PROVE  Live' /\ FlowStep /\ Later
<1> DEFINE slo == cache["slo"]
<1>1. PrUnchanged /\ UNCHANGED <<store, cache>> /\ cache["pr"] # Absent /\ slo # Absent
  BY DEF PrBegin, PrUnchanged, External
<1>2. CASE prR' = [prR EXCEPT !.pc = IF NoSli(slo) THEN "noSli" ELSE "noInd"]
  <2>1. prR'.pc # "update"
    BY <1>2 DEF Sound, TypeInv, PrHoldsOK
  <2> QED BY <1>1, <2>1, PrQuietLive DEF PrLive
<1>3. CASE ~NoSli(slo) /\ prR' = [pc |-> "update", made |-> Child(RulesFor(slo), slo)]
  <2>1. {"slo", "pr"} \subseteq Kinds /\ ObjectsOK(cache) /\ ObjectsOK(store)
    BY HeldNumbers DEF Kinds
  <2>2. slo.uid \in Nat /\ slo.uid = LiveUid /\ slo.spec.gen \in Nat
    BY <1>1, <2>1, Fields DEF Live, Alive
  <2>3. prR'.made.owner = LiveUid /\ prR'.made.spec = RulesFor(slo)
    <3>1. prR'.made = Child(RulesFor(slo), slo)
      BY <1>3
    <3>2. Child(RulesFor(slo), slo).spec = RulesFor(slo)
          /\ Child(RulesFor(slo), slo).owner = slo.uid
      BY <2>2, ChildTypes
    <3> QED BY <2>2, <3>1, <3>2
  <2>4. /\ store["pr"] # Absent /\ NoNewer(store["pr"].spec, RulesFor(slo))
        /\ UpTo(RulesFor(slo), cache)
    <3>1. store["pr"] # Absent /\ UpTo(store["pr"].spec, cache)
      BY <1>1, <2>1 DEF Live, Alive, Ordered
    <3>2. /\ RulesFor(slo).slo = slo.spec.gen
          /\ RulesFor(slo).sli = IF slo.spec.ind = "ref" THEN cache["sli"].spec ELSE 0
      BY DEF RulesFor
    <3>3. slo.spec.ind = "ref" => cache["sli"] # Absent /\ cache["sli"].spec \in Nat
      BY <1>3, <2>1, Fields DEF NoSli
    <3>4. NoNewer(store["pr"].spec, RulesFor(slo))
      BY <2>2, <3>1, <3>2, <3>3 DEF NoNewer, UpTo
    <3>5. UpTo(RulesFor(slo), cache)
      BY <2>2, <3>2, <3>3 DEF UpTo
    <3> QED BY <3>1, <3>4, <3>5
  <2>5. PrLive'
    BY <1>1, <2>2, <2>3, <2>4 DEF PrLive, LiveUid
  <2> QED BY <1>1, <2>5, PrQuietLive
<1> QED BY <1>2, <1>3 DEF PrBegin

LEMMA PrReportFailureLive ==
    ASSUME Sound, Live, Sound', deletes = 0, UNCHANGED <<sloR, mrR>>, PrReportFailure
    PROVE  Live' /\ FlowStep /\ Later
<1> DEFINE o == [store["slo"] EXCEPT !.ready = "False", !.cond = "False"]
<1>1. /\ Write("pr", "slo", o, {}) /\ UNCHANGED External /\ prR' = PrIdle /\ clock' = clock
  BY DEF PrReportFailure, PrReturn, External
<1>2. "slo" \in Kinds /\ ObjectsOK(store)
  BY HeldNumbers DEF Kinds
<1>3. store["slo"] # Absent /\ store["slo"] \in ObjectWith(SloSpec)
  BY <1>2, Fields DEF PrReportFailure, Sound, Coherent, PrCoherent
<1>4. /\ o \in Object("slo") /\ o.spec = store["slo"].spec /\ o.uid = store["slo"].uid
      /\ o.owner = store["slo"].owner /\ o.deleting = store["slo"].deleting
      /\ o.ready = "False" /\ o.cond = "False"
  BY <1>3, StatusValues, ObjectFacts DEF ObjectWith
<1> HIDE DEF o
<1>5. Fits("slo", o)
  BY <1>1, <1>2, <1>3, <1>4 DEF Fits, SloFits, NoNewerSlo, Undeleted, Live, Alive, Ordered
<1> QED BY <1>1, <1>4, <1>5, PrSendsLive

(* The PrometheusRule is replaced by one that is no older, made from an    *)
(* SLO no newer than the one in the cache.                                 *)
LEMMA UpdatePrLive ==
    ASSUME Sound, Live, Sound', deletes = 0, UNCHANGED <<sloR, mrR>>, UpdatePr
    PROVE  Live' /\ FlowStep /\ Later
<1> DEFINE o == Updated("pr", prR.made)
<1>1. /\ prR.pc = "update" /\ Write("pr", "pr", o, {}) /\ UNCHANGED External /\ prR' = PrIdle
  BY DEF UpdatePr, PrReturn, PrReturnError
<1>2. "pr" \in Kinds /\ ObjectsOK(store) /\ prR.made \in ObjectWith(Content)
  BY <1>1, HeldNumbers DEF Kinds
<1>3. store["pr"] # Absent /\ store["pr"] \in ObjectWith(Content)
  BY <1>1, <1>2, Fields DEF Live, PrLive
<1>4. /\ o \in Object("pr") /\ o.spec = prR.made.spec /\ o.owner = prR.made.owner
      /\ o.deleting = store["pr"].deleting
  BY <1>2, <1>3, UpdatedTypes, ObjectFacts
<1> HIDE DEF o
<1>5. Fits("pr", o)
  BY <1>1, <1>2, <1>3, <1>4 DEF Fits, PrFits, Undeleted, Live, Alive, Ordered, PrLive
<1> QED BY <1>1, <1>4, <1>5, PrSendsLive

LEMMA PrCtlLive ==
    ASSUME Sound, Live, Sound', deletes = 0, PrCtl
    PROVE  Live' /\ FlowStep /\ Later
BY PrQuietStepsLive, PrBeginLive, PrReportFailureLive, UpdatePrLive DEF PrCtl, PrStep
----------------------------------------------------------------------------
(* The MimirRule controller.                                               *)
LEMMA MrQuietLive ==
    ASSUME Sound, Live, Sound', deletes = 0, UNCHANGED <<store, mimir, sloR, prR>>,
           MrUnchanged, MrHoldsLive(mrR')
    PROVE  Live' /\ FlowStep /\ Later
<1>1. UNCHANGED <<cache, clock>>
  BY DEF MrUnchanged
<1>2. Alive' /\ Ordered' /\ ReadyIsEarned' /\ Later /\ FlowStep
  BY <1>1, QuietLive
<1>3. SloLive' /\ PrLive'
  BY <1>1, <1>2, KeepsSloLive, KeepsPrLive
<1>4. MrLive'
  BY <1>1 DEF MrLive, MrHoldsLive, LiveUid
<1> QED BY <1>2, <1>3, <1>4 DEF Live

(* Storing a MimirRule, or a PrometheusRule with the rules it has.         *)
LEMMA MrSendsLive ==
    ASSUME Sound, Live, Sound', deletes = 0, UNCHANGED <<sloR, prR, mimir>>, MrUnchanged,
           NEW k \in {"pr", "mr"}, NEW o \in Object(k), Write("mr", k, o, {}), Fits(k, o),
           k = "pr" /\ store["pr"] # Absent => o.spec = store["pr"].spec
    PROVE  /\ store'[k] = o /\ o # Absent
           /\ \A x \in Kinds \ {k} : store'[x] = store[x]
           /\ cache' = cache /\ Later /\ FlowStep
           /\ MrLive' => Live'
<1>1. UNCHANGED <<cache, mimir>> /\ clock' = clock /\ k \in Kinds /\ "pr" \in Kinds
  BY DEF MrUnchanged, Kinds
<1>2. clock' >= clock
  BY <1>1, HeldNumbers
<1>3. /\ store'[k] = o /\ o # Absent /\ \A x \in Kinds \ {k} : store'[x] = store[x]
      /\ Alive' /\ Ordered' /\ ReadyIsEarned' /\ Later /\ FlowStep
  BY <1>1, <1>2, WriteFits
<1>4. store["pr"] # Absent => store'["pr"].spec = store["pr"].spec
  BY <1>1, <1>3
<1>5. SloLive' /\ PrLive'
  BY <1>1, <1>3, <1>4, KeepsSloLive, KeepsPrLive
<1> QED BY <1>1, <1>3, <1>5 DEF Live

(* A generated object that is stored again with the rules it has.          *)
LEMMA RewriteFits ==
    ASSUME Sound, Live, NEW k \in {"pr", "mr"}, NEW o, store[k] # Absent,
           o.spec = store[k].spec, o.owner = store[k].owner, o.deleting = store[k].deleting
    PROVE  Fits(k, o)
<1>1. k \in Kinds /\ ObjectsOK(store) /\ ObjectsOK(cache)
  BY HeldNumbers DEF Kinds
<1>2. Undeleted(o) /\ o.owner \in {0, LiveUid}
  BY <1>1 DEF Live, Alive, Undeleted
<1>3. CASE k = "pr"
  BY <1>1, <1>2, <1>3, Fields, NoNewerOrder DEF Fits, PrFits, Live, Ordered
<1>4. CASE k = "mr"
  BY <1>1, <1>2, <1>4, Fields, NoNewerOrder DEF Fits, MrFits, Live, Ordered
<1> QED BY <1>3, <1>4

(* Where a reconcile goes on from: it holds rules that are no newer than   *)
(* those in the cache and no older than those of the MimirRule.            *)
HoldsRules(r) ==
    /\ cache["slo"] # Absent /\ r.uid = LiveUid
    /\ cache["pr"] # Absent /\ NoNewer(r.rules, cache["pr"].spec)
    /\ store["mr"] # Absent /\ NoNewer(store["mr"].spec.pr, r.rules)

Onwards == {"ready", "update", "addPrFin", "addMrFin", "done", "end"}

LEMMA HoldsRulesLive ==
    ASSUME Live, mrR.pc \in MrHolding
    PROVE  HoldsRules(mrR) /\ mrR.pc \notin {"delete", "dropMrFin", "dropPrFin"}
BY DEF Live, MrLive, MrHoldsLive, HoldsRules

LEMMA GoesLive ==
    ASSUME Live, Later, cache' = cache, NEW r, Goes(r), r.pc \in Onwards,
           r.pc \in MrHolding => HoldsRules(r) /\ store'["mr"].spec = store["mr"].spec
    PROVE  MrLive'
<1>1. CASE r.pc \in {"done", "end"}
  BY <1>1 DEF Goes, MrLive, MrHoldsLive, MrIdle, MrHolding
<1>2. CASE r.pc \notin {"done", "end"}
  <2>1. mrR' = r
    BY <1>2 DEF Goes
  <2>2. r.pc \in MrHolding => LiveUid' = LiveUid /\ store'["mr"] # Absent
    BY DEF Live, Alive, Later, HoldsRules, Kinds
  <2> QED BY <1>2, <2>1, <2>2 DEF MrLive, MrHoldsLive, HoldsRules, Onwards, MrHolding
<1> QED BY <1>1, <1>2

LEMMA MrBeginLive ==
    ASSUME Sound, Live, Sound', deletes = 0, UNCHANGED <<sloR, prR>>, MrBegin
    PROVE  Live' /\ FlowStep /\ Later
<1> DEFINE pr == cache["pr"]
           mr == cache["mr"]
           read == [pc |-> "delete", rules |-> pr.spec, prFin |-> pr.fin,
                    spec |-> mr.spec, mrFin |-> mr.fin, uid |-> 0,
                    todo |-> RuleGroups(pr.spec)]
<1>1. UNCHANGED <<store, mimir>> /\ MrUnchanged /\ pr # Absent /\ mr # Absent
  BY DEF MrBegin
<1>2. {"slo", "pr", "mr"} \subseteq Kinds
  BY DEF Kinds
<1>3. ~mr.deleting
  BY <1>1, <1>2 DEF Live, Alive, Undeleted
<1>4. cache["slo"] # Absent /\ mrR' = [read EXCEPT !.pc = "push", !.uid = cache["slo"].uid]
  BY <1>3 DEF MrBegin
<1>5. mrR'.pc = "push" /\ mrR'.uid = cache["slo"].uid /\ mrR'.rules = pr.spec
  BY <1>4
<1>6. /\ cache["slo"].uid = LiveUid /\ store["mr"] # Absent
      /\ NoNewer(store["mr"].spec.pr, pr.spec) /\ NoNewer(pr.spec, pr.spec)
  BY <1>1, <1>2, <1>4, HeldNumbers, Fields, NoNewerOrder DEF Live, Alive, Ordered
<1>7. \A t \in Tenants, g \in Groups : mimir[t][g] # Absent => NoNewer(mimir[t][g], pr.spec)
  BY DEF Live, Ordered
<1>8. MrHoldsLive(mrR')
  BY <1>1, <1>4, <1>5, <1>6, <1>7 DEF MrHoldsLive
<1> QED BY <1>1, <1>8, MrQuietLive

LEMMA MrQuietStepsLive ==
    ASSUME Sound, Live, Sound', deletes = 0, UNCHANGED <<sloR, prR>>,
           MrIgnored \/ MrNoOwner \/ MrCallFails
    PROVE  Live' /\ FlowStep /\ Later
<1>1. UNCHANGED <<store, mimir>> /\ MrUnchanged /\ (mrR' = mrR \/ mrR' = MrIdle)
  BY DEF MrIgnored, MrNoOwner, MrCallFails, MrReturnError
<1>2. MrHoldsLive(mrR')
  BY <1>1 DEF Live, MrLive, MrHoldsLive, MrIdle, MrHolding
<1> QED BY <1>1, <1>2, MrQuietLive

(* A place in Mimir gets rules that are no older than those it has, and no *)
(* newer than those in the cache.                                          *)
LEMMA ServeLive ==
    ASSUME Sound, Live, Sound', deletes = 0, UNCHANGED <<store, sloR, prR>>, MrUnchanged,
           mrR.pc = "push", mrR.todo \in Todos,
           mimir' = [mimir EXCEPT ![mrR.spec.ds][Head(mrR.todo)] = mrR.rules]
    PROVE  /\ Later /\ FlowStep
           /\ MrLive' => Live'
<1> DEFINE ds == mrR.spec.ds
           g == Head(mrR.todo)
           c == mrR.rules
<1>1. c \in Content /\ ds \in Tenants /\ g \in Groups
  BY MrHeld, TodoFacts DEF MrHolding
<1>2. /\ mimir \in [Tenants -> [Groups -> Content \cup {Absent}]]
      /\ UNCHANGED <<cache, clock>> /\ Absent \notin Content
      /\ ObjectsOK(store) /\ ObjectsOK(cache)
  BY AbsentFacts DEF Sound, TypeInv, TypeOK, MrUnchanged
<1>3. /\ cache["pr"] # Absent /\ NoNewer(c, cache["pr"].spec)
      /\ mimir[ds][g] # Absent => NoNewer(mimir[ds][g], c)
  BY <1>1 DEF Live, MrLive, MrHoldsLive, MrHolding
<1> HIDE DEF ds, g, c
<1>4. mimir' = [mimir EXCEPT ![ds][g] = c]
  BY DEF ds, g, c
<1>5. /\ mimir'[ds][g] = c
      /\ \A t \in Tenants, h \in Groups : t # ds \/ h # g => mimir'[t][h] = mimir[t][h]
  BY <1>1, <1>2, <1>4
<1>6. Alive' /\ ReadyIsEarned' /\ Later
  BY <1>2, Fields, NoNewerOrder
     DEF Live, Alive, Undeleted, LiveUid, ReadyIsEarned, Later, NoNewerSlo
<1>7. Ordered'
  <2>1. \A t \in Tenants, h \in Groups : mimir'[t][h] # Absent =>
          cache["pr"] # Absent /\ NoNewer(mimir'[t][h], cache["pr"].spec)
    BY <1>3, <1>5 DEF Live, Ordered
  <2> QED BY <1>2, <2>1 DEF Live, Ordered
<1>8. SloLive' /\ PrLive'
  BY <1>2, <1>6, KeepsSloLive, KeepsPrLive
<1>9. FlowStep
  <2> DEFINE places == Tenants \X Groups
             served == [p \in places |-> Version(mimir[p[1]][p[2]])]
             built == Version(RulesIn(store["pr"]))
             v == Version(c)
  <2>1. <<ds, g>> \in places
    BY <1>1
  <2>2. served' = [served EXCEPT ![<<ds, g>>] = v]
    <3>1. \A p \in places : served'[p] = IF p = <<ds, g>> THEN v ELSE served[p]
      <4>1. ASSUME NEW p \in places
            PROVE  served'[p] = IF p = <<ds, g>> THEN v ELSE served[p]
        <5>1. p[1] \in Tenants /\ p[2] \in Groups /\ (p = <<ds, g>> <=> p[1] = ds /\ p[2] = g)
          BY <4>1
        <5>2. served'[p] = Version(mimir'[p[1]][p[2]]) /\ served[p] = Version(mimir[p[1]][p[2]])
          BY DEF Version
        <5> QED BY <1>5, <5>1, <5>2
      <4> QED BY <4>1
    <3>2. served' = [p \in places |-> served'[p]] /\ served = [p \in places |-> served[p]]
      BY DEF Version
    <3> HIDE DEF served, places
    <3> QED BY <2>1, <3>1, <3>2
  <2>3. v \in Flow!From(served[<<ds, g>>], built)
    <3>1. served[<<ds, g>>] =
            IF mimir[ds][g] = Absent THEN Flow!None ELSE Version(mimir[ds][g])
      BY <2>1 DEF Version, Flow!None
    <3>2. mimir[ds][g] # Absent => mimir[ds][g] \in Content
      BY <1>1, <1>2
    <3>3. /\ store["pr"] # Absent /\ NoNewer(cache["pr"].spec, store["pr"].spec)
          /\ built = Version(store["pr"].spec)
      BY <1>2, <1>3, Versions DEF Live, Alive, Ordered, Kinds
    <3>4. cache["pr"].spec \in Content /\ store["pr"].spec \in Content
      BY <1>2, <1>3, <3>3, Fields
    <3>5. NoNewer(c, store["pr"].spec)
      BY <1>1, <1>3, <3>3, <3>4, NoNewerOrder
    <3> HIDE DEF served, built
    <3> QED BY <1>1, <1>3, <3>1, <3>2, <3>3, <3>4, <3>5, VersionOrder DEF Flow!From
  <2>4. UNCHANGED <<Written, built, Version(MirroredIn(store["mr"]))>>
    BY DEF Written, RulesIn, MirroredIn, Version
  <2>5. served'[<<ds, g>>] = v
    <3>1. served = [p \in places |-> served[p]]
      OBVIOUS
    <3> HIDE DEF served, places
    <3> QED BY <2>1, <2>2, <3>1
  <2>6. Flow!Serve(<<ds, g>>)
    <3>1. /\ served'[<<ds, g>>] \in Flow!From(served[<<ds, g>>], built)
          /\ served' = [served EXCEPT ![<<ds, g>>] = served'[<<ds, g>>]]
      <4> HIDE DEF served, built, v
      <4> QED BY <2>2, <2>3, <2>5
    <3> QED BY <2>4, <3>1 DEF Flow!Serve
  <2> QED BY <2>1, <2>6 DEF FlowStep, Flow!Next
<1> QED BY <1>6, <1>7, <1>8, <1>9 DEF Live

(* After a push the reconcile pushes the next group or goes on.            *)
LEMMA PushLive ==
    ASSUME Sound, Live, Sound', deletes = 0, UNCHANGED <<sloR, prR>>, Push
    PROVE  Live' /\ FlowStep /\ Later
<1> DEFINE t == [mrR EXCEPT !.todo = Tail(mrR.todo)]
           r == IF t.todo = <<>> THEN AfterPush(t) ELSE t
<1>1. /\ mrR.pc = "push" /\ Goes(r) /\ MrUnchanged /\ UNCHANGED store
      /\ mimir' = [mimir EXCEPT ![mrR.spec.ds][Head(mrR.todo)] = mrR.rules]
  BY DEF Push
<1>2. /\ mrR \in MrGoing /\ mrR.rules \in Content /\ mrR.spec \in MimirRuleSpec
      /\ mrR.spec.ds \in Tenants /\ mrR.todo \in Todos
  BY <1>1, MrHeld DEF MrHolding
<1>3. FlowStep /\ Later /\ (MrLive' => Live')
  BY <1>1, <1>2, ServeLive
<1>4. HoldsRules(mrR)
  BY <1>1, HoldsRulesLive DEF MrHolding
<1>5. /\ t \in MrGoing /\ t.rules = mrR.rules /\ t.spec = mrR.spec /\ t.uid = mrR.uid
      /\ t.pc = "push"
  <2>1. Tail(mrR.todo) \in Todos \cup {<<>>}
    BY <1>2, TodoFacts
  <2> QED BY <1>1, <1>2, <2>1 DEF MrGoing, MrReconcile
<1> HIDE DEF t
<1>6. CASE t.todo = <<>>
  <2>1. /\ Goes(AfterPush(t)) /\ AfterPush(t).pc \in Onwards
        /\ AfterPush(t).rules = mrR.rules /\ AfterPush(t).uid = mrR.uid
    BY <1>1, <1>2, <1>5, <1>6, AfterTypes DEF Onwards
  <2>2. HoldsRules(AfterPush(t)) /\ store' = store /\ cache' = cache
    BY <1>1, <1>4, <2>1 DEF HoldsRules, MrUnchanged
  <2> QED BY <1>3, <2>1, <2>2, GoesLive DEF Live
<1>7. CASE t.todo # <<>>
  <2>1. mrR' = t
    BY <1>1, <1>5, <1>7 DEF Goes
  <2>2. /\ mrR'.pc = "push" /\ mrR'.rules = mrR.rules /\ mrR'.uid = mrR.uid
        /\ store' = store /\ cache' = cache /\ LiveUid' = LiveUid
    BY <1>1, <1>5, <2>1 DEF MrUnchanged, LiveUid
  <2>3. \A u \in Tenants, g \in Groups :
          mimir'[u][g] # Absent => NoNewer(mimir'[u][g], mrR.rules)
    <3>1. /\ mimir \in [Tenants -> [Groups -> Content \cup {Absent}]]
          /\ NoNewer(mrR.rules, mrR.rules)
      BY <1>2, NoNewerOrder DEF Sound, TypeInv, TypeOK
    <3>2. \A u \in Tenants, g \in Groups :
            mimir'[u][g] = mrR.rules \/ mimir'[u][g] = mimir[u][g]
      BY <1>1, <3>1
    <3> QED BY <1>1, <3>1, <3>2 DEF Live, MrLive, MrHoldsLive
  <2>4. MrLive'
    BY <1>4, <2>2, <2>3 DEF MrLive, MrHoldsLive, HoldsRules
  <2> QED BY <1>3, <2>4
<1> QED BY <1>6, <1>7

(* The reply to a push is lost.                                            *)
LEMMA MrReplyLostLive ==
    ASSUME Sound, Live, Sound', deletes = 0, UNCHANGED <<sloR, prR>>, MrReplyLost
    PROVE  Live' /\ FlowStep /\ Later
<1>1. /\ mrR.pc = "push" /\ UNCHANGED store /\ MrUnchanged /\ mrR' = MrIdle
      /\ mimir' = [mimir EXCEPT ![mrR.spec.ds][Head(mrR.todo)] = mrR.rules]
  BY DEF MrReplyLost, MrReturnError, Live, MrLive, MrHoldsLive
<1>2. mrR.todo \in Todos
  BY <1>1, MrHeld DEF MrHolding
<1>3. MrLive'
  BY <1>1 DEF MrLive, MrHoldsLive, MrIdle, MrHolding
<1> QED BY <1>1, <1>2, <1>3, ServeLive

(* The copy that an attempt has read is the one that is stored.            *)
LEMMA AttemptLive ==
    ASSUME Sound, Live, NEW k \in {"pr", "mr"}, NEW pc, Attempt(pc, k)
    PROVE  /\ mrR.pc = pc /\ cache[k] = store[k] /\ store[k] # Absent
           /\ store[k] \in ObjectWith(SpecOfKind[k])
<1>1. k \in Kinds
  BY DEF Kinds
<1>2. mrR.pc = pc /\ cache[k] = store[k] /\ store[k] # Absent
  BY <1>1 DEF Attempt, Sound, Coherent, CacheCoherent
<1> QED BY <1>1, <1>2, StoredTypes, ObjectFacts DEF Sound, TypeInv

(* Storing what was read with another finalizer or status.                 *)
LEMMA AttemptKeeps ==
    ASSUME Sound, Live, Sound', deletes = 0, UNCHANGED <<sloR, prR, mimir>>, MrUnchanged,
           NEW k \in {"pr", "mr"}, NEW pc, Attempt(pc, k),
           NEW o \in ObjectWith(SpecOfKind[k]), Write("mr", k, o, {}),
           o.spec = cache[k].spec, o.owner = cache[k].owner, o.deleting = cache[k].deleting
    PROVE  /\ cache' = cache /\ FlowStep /\ Later /\ (MrLive' => Live')
           /\ store["mr"] # Absent => store'["mr"].spec = store["mr"].spec
<1>1. cache[k] = store[k] /\ store[k] # Absent
  BY AttemptLive
<1>2. Fits(k, o) /\ o \in Object(k)
  BY <1>1, RewriteFits, ObjectFacts
<1>3. /\ store'[k] = o /\ \A x \in Kinds \ {k} : store'[x] = store[x]
      /\ cache' = cache /\ FlowStep /\ Later /\ (MrLive' => Live')
  BY <1>1, <1>2, MrSendsLive
<1> QED BY <1>1, <1>3 DEF Kinds

LEMMA FinalizersLive ==
    ASSUME Sound, Live, Sound', deletes = 0, UNCHANGED <<sloR, prR>>,
           AddMrFinalizer \/ AddPrFinalizer
    PROVE  Live' /\ FlowStep /\ Later
<1>1. mrR.pc \in MrHolding
  BY DEF AddMrFinalizer, AddPrFinalizer, Attempt, MrHolding
<1>2. HoldsRules(mrR) /\ mrR \in MrGoing /\ mrR.rules \in Content /\ mrR.spec \in MimirRuleSpec
  BY <1>1, HoldsRulesLive, MrHeld
<1>3. CASE AddMrFinalizer
  <2> DEFINE r == [mrR EXCEPT !.spec = cache["mr"].spec]
             o == [cache["mr"] EXCEPT !.fin = TRUE]
  <2>1. /\ Attempt("addMrFin", "mr") /\ Write("mr", "mr", o, {})
        /\ MrUnchanged /\ UNCHANGED mimir /\ Goes(AfterMrFinalizer(r))
    BY <1>3 DEF AddMrFinalizer, Stores
  <2>2. cache["mr"] = store["mr"] /\ store["mr"] \in ObjectWith(MimirRuleSpec)
    BY <2>1, AttemptLive DEF SpecOfKind
  <2>3. /\ o \in ObjectWith(SpecOfKind["mr"]) /\ o.spec = cache["mr"].spec
        /\ o.owner = cache["mr"].owner /\ o.deleting = cache["mr"].deleting
    BY <2>2 DEF ObjectWith, SpecOfKind
  <2>4. r \in MrGoing /\ r.rules = mrR.rules /\ r.uid = mrR.uid /\ r.spec \in MimirRuleSpec
    BY <1>2, <2>2 DEF MrGoing, MrReconcile, ObjectWith
  <2> HIDE DEF r, o
  <2>5. /\ cache' = cache /\ FlowStep /\ Later /\ (MrLive' => Live')
        /\ store["mr"] # Absent => store'["mr"].spec = store["mr"].spec
    BY <2>1, <2>3, AttemptKeeps
  <2>6. /\ AfterMrFinalizer(r).pc \in Onwards
        /\ AfterMrFinalizer(r).rules = mrR.rules /\ AfterMrFinalizer(r).uid = mrR.uid
    BY <1>2, <2>4, AfterTypes DEF Onwards
  <2>7. MrLive'
    BY <1>2, <2>1, <2>5, <2>6, GoesLive DEF HoldsRules
  <2> QED BY <2>5, <2>7
<1>4. CASE AddPrFinalizer
  <2> DEFINE r == [mrR EXCEPT !.rules = cache["pr"].spec]
             o == [cache["pr"] EXCEPT !.fin = TRUE]
  <2>1. /\ Attempt("addPrFin", "pr") /\ Write("mr", "pr", o, {})
        /\ MrUnchanged /\ UNCHANGED mimir /\ Goes(AfterFinalizers(r))
    BY <1>4 DEF AddPrFinalizer, Stores
  <2>2. cache["pr"] = store["pr"] /\ store["pr"] \in ObjectWith(Content)
    BY <2>1, AttemptLive DEF SpecOfKind
  <2>3. /\ o \in ObjectWith(SpecOfKind["pr"]) /\ o.spec = cache["pr"].spec
        /\ o.owner = cache["pr"].owner /\ o.deleting = cache["pr"].deleting
    BY <2>2 DEF ObjectWith, SpecOfKind
  <2>4. /\ r \in MrGoing /\ r.rules = cache["pr"].spec /\ r.uid = mrR.uid
        /\ r.spec = mrR.spec /\ r.rules \in Content
    BY <1>2, <2>2 DEF MrGoing, MrReconcile, ObjectWith
  <2> HIDE DEF r, o
  <2>5. /\ cache' = cache /\ FlowStep /\ Later /\ (MrLive' => Live')
        /\ store["mr"] # Absent => store'["mr"].spec = store["mr"].spec
    BY <2>1, <2>3, AttemptKeeps
  <2>6. /\ AfterFinalizers(r).pc \in Onwards
        /\ AfterFinalizers(r).rules = r.rules /\ AfterFinalizers(r).uid = mrR.uid
    BY <1>2, <2>4, AfterTypes DEF Onwards
  <2>7. HoldsRules(AfterFinalizers(r))
    BY <1>2, <2>4, <2>6, NoNewerOrder DEF HoldsRules, Live, Ordered
  <2>8. MrLive'
    BY <2>1, <2>5, <2>6, <2>7, GoesLive DEF HoldsRules
  <2> QED BY <2>5, <2>8
<1> QED BY <1>3, <1>4

LEMMA FinalizerThereLive ==
    ASSUME Sound, Live, Sound', deletes = 0, UNCHANGED <<sloR, prR>>, FinalizerThere
    PROVE  Live' /\ FlowStep /\ Later
<1>1. /\ mrR.pc \in MrHolding /\ UNCHANGED <<store, mimir>> /\ MrUnchanged
      /\ UNCHANGED <<cache, clock>>
  BY DEF FinalizerThere, MrHolding, MrUnchanged
<1>2. HoldsRules(mrR) /\ mrR \in MrGoing /\ mrR.rules \in Content /\ mrR.spec \in MimirRuleSpec
  BY <1>1, HoldsRulesLive, MrHeld
<1>3. Later
  BY <1>1, QuietLive
<1>4. MrLive'
  <2>1. CASE cache["mr"] # Absent /\ Goes(AfterMrFinalizer([mrR EXCEPT !.spec = cache["mr"].spec]))
    <3> DEFINE r == [mrR EXCEPT !.spec = cache["mr"].spec]
    <3>1. cache["mr"].spec \in MimirRuleSpec
      BY <2>1, HeldNumbers, Fields DEF ObjectWith
    <3>2. r \in MrGoing /\ r.rules = mrR.rules /\ r.uid = mrR.uid /\ r.spec \in MimirRuleSpec
      BY <1>2, <3>1 DEF MrGoing, MrReconcile
    <3>3. Goes(AfterMrFinalizer(r))
      BY <2>1
    <3> HIDE DEF r
    <3>4. /\ AfterMrFinalizer(r).pc \in Onwards
          /\ AfterMrFinalizer(r).rules = mrR.rules /\ AfterMrFinalizer(r).uid = mrR.uid
      BY <1>2, <3>2, AfterTypes DEF Onwards
    <3> QED BY <1>1, <1>2, <1>3, <3>3, <3>4, GoesLive DEF HoldsRules
  <2>2. CASE cache["pr"] # Absent /\ Goes(AfterFinalizers([mrR EXCEPT !.rules = cache["pr"].spec]))
    <3> DEFINE r == [mrR EXCEPT !.rules = cache["pr"].spec]
    <3>1. cache["pr"].spec \in Content
      BY <2>2, HeldNumbers, Fields
    <3>2. r \in MrGoing /\ r.rules = cache["pr"].spec /\ r.uid = mrR.uid /\ r.spec = mrR.spec
      BY <1>2, <3>1 DEF MrGoing, MrReconcile
    <3>3. Goes(AfterFinalizers(r))
      BY <2>2
    <3> HIDE DEF r
    <3>4. /\ AfterFinalizers(r).pc \in Onwards
          /\ AfterFinalizers(r).rules = r.rules /\ AfterFinalizers(r).uid = mrR.uid
      BY <1>2, <3>1, <3>2, AfterTypes DEF Onwards
    <3>5. HoldsRules(AfterFinalizers(r))
      BY <1>2, <3>1, <3>2, <3>4, NoNewerOrder DEF HoldsRules, Live, Ordered
    <3> QED BY <1>1, <1>3, <3>3, <3>4, <3>5, GoesLive
  <2> QED BY <2>1, <2>2 DEF FinalizerThere
<1> QED BY <1>1, <1>4, MrQuietLive DEF MrLive, MrHoldsLive, LiveUid

(* The MimirRule that is stored has the rules that were read before, and   *)
(* they are no older than those of the one it replaces.                    *)
LEMMA UpdateMrLive ==
    ASSUME Sound, Live, Sound', deletes = 0, UNCHANGED <<sloR, prR>>, UpdateMr
    PROVE  Live' /\ FlowStep /\ Later
<1> DEFINE n == Child(WantedSpec(mrR), [uid |-> mrR.uid])
           o == Updated("mr", n)
           r == [MrIdle EXCEPT !.pc = "ready"]
<1>1. /\ Attempt("update", "mr") /\ mrR.pc = "update" /\ Goes(r)
      /\ Write("mr", "mr", o, {}) /\ MrUnchanged /\ UNCHANGED mimir
  BY DEF UpdateMr, Stores, Attempt
<1>2. /\ store["mr"] # Absent /\ store["mr"] \in ObjectWith(MimirRuleSpec)
      /\ "mr" \in Kinds /\ ~store["mr"].deleting
  BY <1>1, AttemptLive DEF SpecOfKind, Kinds, Live, Alive, Undeleted
<1>3. /\ mrR.rules \in Content /\ mrR.spec.ds \in Tenants /\ mrR.uid \in Nat
      /\ HoldsRules(mrR)
  BY <1>1, MrHeld, HoldsRulesLive DEF MrHolding, MrGoing, MrReconcile
<1>4. WantedSpec(mrR) \in MimirRuleSpec /\ WantedSpec(mrR).pr = mrR.rules
  BY <1>3 DEF WantedSpec, MimirRuleSpec
<1>5. /\ n \in ObjectWith(MimirRuleSpec) /\ n.spec = WantedSpec(mrR) /\ n.owner = mrR.uid
  BY <1>3, <1>4, ChildTypes
<1> HIDE DEF n
<1>6. /\ o \in Object("mr") /\ o.spec.pr = mrR.rules /\ o.owner = mrR.uid
      /\ o.deleting = store["mr"].deleting
  BY <1>2, <1>4, <1>5, UpdatedTypes, ObjectFacts
<1>7. r.pc = "ready"
  BY DEF MrIdle
<1> HIDE DEF o, r
<1>8. Fits("mr", o)
  BY <1>2, <1>3, <1>6 DEF Fits, MrFits, Undeleted, HoldsRules
<1>9. cache' = cache /\ FlowStep /\ Later /\ (MrLive' => Live')
  BY <1>1, <1>6, <1>8, MrSendsLive
<1>10. MrLive'
  BY <1>1, <1>7, <1>9, GoesLive DEF Onwards, MrHolding
<1> QED BY <1>9, <1>10

(* The status of the MimirRule is written.                                 *)
LEMMA MrStatusLive ==
    ASSUME Sound, Live, Sound', deletes = 0, UNCHANGED <<sloR, prR>>,
           MarkMrReady \/ MrUpdateFails
    PROVE  Live' /\ FlowStep /\ Later
<1>1. PICK pc \in {"ready", "update"}, s \in {"True", "False"} :
         /\ Attempt(pc, "mr") /\ Write("mr", "mr", [cache["mr"] EXCEPT !.ready = s], {})
         /\ MrUnchanged /\ UNCHANGED mimir /\ mrR' = MrIdle
  <2>1. CASE MarkMrReady
    BY <2>1 DEF MarkMrReady, Stores, Goes, MrIdle
  <2>2. CASE MrUpdateFails
    BY <2>2 DEF MrUpdateFails, MrReturnError
  <2> QED BY <2>1, <2>2
<1> DEFINE o == [cache["mr"] EXCEPT !.ready = s]
<1>2. cache["mr"] = store["mr"] /\ store["mr"] \in ObjectWith(MimirRuleSpec)
  BY <1>1, AttemptLive DEF SpecOfKind
<1>3. s \in Status
  BY StatusValues
<1>4. /\ o \in ObjectWith(SpecOfKind["mr"]) /\ o.spec = cache["mr"].spec
      /\ o.owner = cache["mr"].owner /\ o.deleting = cache["mr"].deleting
  BY <1>2, <1>3 DEF ObjectWith, SpecOfKind
<1>5. Write("mr", "mr", o, {})
  BY <1>1
<1> HIDE DEF o
<1>6. FlowStep /\ Later /\ (MrLive' => Live')
  BY <1>1, <1>4, <1>5, AttemptKeeps
<1>7. MrLive'
  BY <1>1 DEF MrLive, MrHoldsLive, MrIdle, MrHolding
<1> QED BY <1>6, <1>7

(* No group is deleted and no finalizer removed.                           *)
LEMMA MrCtlLive ==
    ASSUME Sound, Live, Sound', deletes = 0, MrCtl
    PROVE  Live' /\ FlowStep /\ Later
<1>1. ~DeleteGroup /\ ~DropMrFinalizer /\ ~DropPrFinalizer
  BY DEF Live, MrLive, MrHoldsLive, DeleteGroup, DropMrFinalizer, DropPrFinalizer, Attempt
<1>2. UNCHANGED <<sloR, prR>> /\ MrStep
  BY DEF MrCtl
<1> QED BY <1>1, <1>2, MrBeginLive, MrQuietStepsLive, PushLive, MrReplyLostLive,
           FinalizersLive, FinalizerThereLive, UpdateMrLive, MrStatusLive DEF MrStep
----------------------------------------------------------------------------
(* The environment, and the restart of the operator: the cache moves to    *)
(* what is stored.                                                         *)
LEMMA CacheMoves ==
    ASSUME Sound, Live, Sound', deletes = 0, UNCHANGED <<store, mimir, clock>>,
           \A x \in Kinds : cache'[x] \in {cache[x], store[x]}
    PROVE  Alive' /\ Ordered' /\ ReadyIsEarned' /\ Later /\ FlowStep
<1>1. {"slo", "sli", "pr", "mr"} \subseteq Kinds
  BY DEF Kinds
<1>2. ObjectsOK(store) /\ ObjectsOK(cache) /\ ObjectsOK(cache') /\ LiveUid' = LiveUid
  BY DEF Sound, TypeInv, TypeOK, LiveUid
<1>3. \A x \in Kinds : cache[x] # Absent => cache'[x] # Absent
  BY DEF Live, Alive
<1>4. /\ cache["slo"] # Absent => NoNewerSlo(cache["slo"], cache'["slo"])
      /\ cache["sli"] # Absent => cache["sli"].spec <= cache'["sli"].spec
      /\ cache["pr"] # Absent => NoNewer(cache["pr"].spec, cache'["pr"].spec)
  <2>1. \A x \in {"slo", "sli", "pr"} : cache'[x] = cache[x] \/ cache'[x] = store[x]
    BY <1>1
  <2>2. cache["slo"] # Absent => NoNewerSlo(cache["slo"], cache'["slo"])
    BY <2>1 DEF Live, Ordered, NoNewerSlo
  <2>3. cache["sli"] # Absent => cache["sli"].spec <= cache'["sli"].spec
    BY <1>2, <2>1, Fields DEF Live, Ordered
  <2>4. cache["pr"] # Absent => NoNewer(cache["pr"].spec, cache'["pr"].spec)
    BY <1>2, <2>1, Fields, NoNewerOrder DEF Live, Ordered
  <2> QED BY <2>2, <2>3, <2>4
<1>5. Later
  BY <1>2, <1>3, <1>4 DEF Later
<1>6. ReadyIsEarned'
  BY DEF Live, ReadyIsEarned
<1>7. Alive'
  <2>1. \A x \in Kinds : Undeleted(cache'[x]) /\ (cache'[x] # Absent => store'[x] # Absent)
    BY DEF Live, Alive, Undeleted
  <2>2. cache'["slo"] # Absent => cache'["slo"].uid = LiveUid'
    BY <1>1, <1>2 DEF Live, Alive, LiveUid
  <2> QED BY <1>2, <2>1, <2>2 DEF Live, Alive, Undeleted
<1>8. Ordered'
  <2>1. \A x \in {"slo", "sli", "pr"} : cache'[x] = cache[x] \/ cache'[x] = store[x]
    BY <1>1
  <2>2. /\ cache'["slo"] # Absent => NoNewerSlo(cache'["slo"], store'["slo"])
        /\ cache'["sli"] # Absent => cache'["sli"].spec <= store'["sli"].spec
        /\ cache'["pr"] # Absent => NoNewer(cache'["pr"].spec, store'["pr"].spec)
    BY <1>2, <2>1, Fields, NoNewerOrder DEF Live, Ordered, NoNewerSlo
  <2>3. store'["pr"] # Absent => cache'["slo"] # Absent /\ UpTo(store'["pr"].spec, cache')
    <3>1. store["pr"] # Absent =>
             /\ cache["slo"] # Absent /\ UpTo(store["pr"].spec, cache)
             /\ store["pr"].spec \in Content
      BY <1>2, Fields DEF Live, Ordered
    <3> QED BY <1>1, <1>2, <1>3, <1>5, <3>1, ContentNumbers, LaterUpTo
  <2>4. store'["mr"] # Absent =>
          cache'["pr"] # Absent /\ NoNewer(store'["mr"].spec.pr, cache'["pr"].spec)
    <3>1. store["mr"] # Absent =>
             /\ cache["pr"] # Absent /\ NoNewer(store["mr"].spec.pr, cache["pr"].spec)
             /\ store["mr"].spec.pr \in Content
      BY <1>2, Fields DEF Live, Ordered
    <3> QED BY <1>2, <1>5, <3>1, LaterNoNewer
  <2>5. ASSUME NEW t \in Tenants, NEW g \in Groups, mimir[t][g] # Absent
        PROVE  cache'["pr"] # Absent /\ NoNewer(mimir[t][g], cache'["pr"].spec)
    <3>1. /\ mimir[t][g] \in Content
          /\ cache["pr"] # Absent /\ NoNewer(mimir[t][g], cache["pr"].spec)
      BY <2>5 DEF Sound, TypeInv, TypeOK, Live, Ordered
    <3> QED BY <1>2, <1>5, <3>1, LaterNoNewer
  <2> QED BY <2>2, <2>3, <2>4, <2>5 DEF Live, Ordered
<1>9. FlowStep
  BY FlowStutters DEF Written, RulesIn, MirroredIn
<1> QED BY <1>5, <1>6, <1>7, <1>8, <1>9

LEMMA DeliverLive ==
    ASSUME Sound, Live, Sound', deletes = 0, UNCHANGED <<sloR, prR, mrR>>,
           NEW k \in Kinds, Deliver(k)
    PROVE  Live' /\ FlowStep /\ Later
<1>1. UNCHANGED <<store, mimir, clock>> /\ cache' = [cache EXCEPT ![k] = store[k]]
  BY DEF Deliver
<1>2. \A x \in Kinds : cache'[x] \in {cache[x], store[x]}
  BY <1>1 DEF Sound, TypeInv, TypeOK, ObjectsOK
<1>3. Alive' /\ Ordered' /\ ReadyIsEarned' /\ Later /\ FlowStep
  BY <1>1, <1>2, CacheMoves
<1>4. SloLive' /\ PrLive' /\ MrLive'
  BY <1>1, <1>3, KeepsSloLive, KeepsPrLive, KeepsMrLive
<1> QED BY <1>3, <1>4 DEF Live

LEMMA RebootLive ==
    ASSUME Sound, Live, Sound', deletes = 0, Reboot
    PROVE  Live' /\ FlowStep /\ Later
<1>1. UNCHANGED <<store, mimir, clock>> /\ cache' = store
  BY DEF Reboot, Restart
<1>2. Alive' /\ Ordered' /\ ReadyIsEarned' /\ Later /\ FlowStep
  BY <1>1, CacheMoves
<1>3. SloLive' /\ PrLive' /\ MrLive'
  BY DEF Reboot, SloLive, SloHoldsLive, SloIdle, PrLive, PrIdle, MrLive, MrHoldsLive, MrIdle,
         MrHolding
<1> QED BY <1>2, <1>3 DEF Live

LEMMA TimerLive ==
    ASSUME Sound, Live, Sound', deletes = 0, UNCHANGED <<sloR, prR, mrR>>, TimerFires
    PROVE  Live' /\ FlowStep /\ Later
<1>1. UNCHANGED <<store, cache, mimir, clock>>
  BY DEF TimerFires
<1>2. Alive' /\ Ordered' /\ ReadyIsEarned' /\ Later /\ FlowStep
  BY <1>1, QuietLive
<1> QED BY <1>1, <1>2, KeepsSloLive, KeepsPrLive, KeepsMrLive DEF Live

(* What an object is like that was never stored before.                    *)
LEMMA NewFields ==
    ASSUME NEW spec, NEW uid
    PROVE  /\ New(spec, uid).spec = spec /\ New(spec, uid).uid = uid
           /\ New(spec, uid).owner = 0 /\ ~New(spec, uid).deleting
           /\ New(spec, uid).ready # "True" /\ New(spec, uid).cond # "True"
<1>1. "" # "True"
  BY Zenon
<1>2. New(spec, uid).ready = "" /\ New(spec, uid).cond = ""
  BY Zenon DEF New
<1>3. New(spec, uid).ready # "True" /\ New(spec, uid).cond # "True"
  BY <1>1, <1>2, Zenon
<1>4. /\ New(spec, uid).spec = spec /\ New(spec, uid).uid = uid
      /\ New(spec, uid).owner = 0 /\ ~New(spec, uid).deleting
  BY DEF New
<1> QED BY <1>3, <1>4

(* The users store what is new: an edit never makes the SLO older.         *)
LEMMA UserWriteLive ==
    ASSUME Sound, Live, Sound', deletes = 0, UNCHANGED <<sloR, prR, mrR>>,
           NEW k \in {"slo", "sli", "ds"}, NEW o \in Object(k), UserWrites(k, o), Fits(k, o)
    PROVE  Live' /\ FlowStep /\ Later
<1>1. /\ k \in Kinds /\ "pr" \in Kinds \ {k} /\ "mr" \in Kinds \ {k}
      /\ clock' = clock + 1 /\ clock \in Nat /\ UNCHANGED <<cache, mimir>>
      /\ Write("user", k, o, {})
  BY HeldNumbers DEF Kinds, UserWrites
<1>2. clock' >= clock
  BY <1>1
<1>3. /\ \A x \in Kinds \ {k} : store'[x] = store[x]
      /\ Alive' /\ Ordered' /\ ReadyIsEarned' /\ Later /\ FlowStep
  BY <1>1, <1>2, WriteFits
<1>4. SloLive' /\ PrLive' /\ MrLive'
  BY <1>1, <1>3, KeepsSloLive, KeepsPrLive, KeepsMrLive
<1> QED BY <1>3, <1>4 DEF Live

LEMMA UsersWriteLive ==
    ASSUME Sound, Live, Sound', deletes = 0, UNCHANGED <<sloR, prR, mrR>>,
           CreateSlo \/ EditSlo \/ WriteSli \/ WriteDs
    PROVE  Live' /\ FlowStep /\ Later
<1>1. clock \in Nat /\ ObjectsOK(store)
  BY HeldNumbers
<1>2. CASE CreateSlo
  <2>1. PICK shape \in Shapes : UserWrites("slo", NewSlo(shape, clock + 1))
    BY <1>2 DEF CreateSlo
  <2> DEFINE o == NewSlo(shape, clock + 1)
  <2>2. SpecOf(shape, clock + 1) \in SloSpec /\ SpecOf(shape, clock + 1).gen = clock + 1
    BY <1>1, SpecOfTypes DEF SpecOf
  <2>3. o = New(SpecOf(shape, clock + 1), clock + 1 + 1) /\ clock + 1 + 1 \in Nat
    BY <1>1 DEF NewSlo
  <2> HIDE DEF o
  <2>4. /\ o \in Object("slo") /\ o.spec.gen = clock + 1 /\ o.uid = clock + 1 + 1
        /\ o.owner = 0 /\ ~o.deleting /\ o.ready # "True" /\ o.cond # "True"
    <3>1. o \in Object("slo")
      BY <2>2, <2>3, NewTypes, ObjectFacts
    <3> QED BY <2>2, <2>3, <3>1, NewFields
  <2>5. UserWrites("slo", o)
    BY <2>1 DEF o
  <2>6. clock' = clock + 1 /\ store["slo"] = Absent
    BY <1>2, <2>5 DEF UserWrites, CreateSlo
  <2>7. Fits("slo", o)
    BY <1>1, <2>4, <2>6 DEF Fits, SloFits, Undeleted
  <2> QED BY <2>4, <2>5, <2>7, UserWriteLive
<1>3. CASE EditSlo
  <2>1. PICK shape \in Shapes :
           UserWrites("slo", [store["slo"] EXCEPT !.spec = SpecOf(shape, clock + 1)])
    BY <1>3 DEF EditSlo
  <2> DEFINE o == [store["slo"] EXCEPT !.spec = SpecOf(shape, clock + 1)]
  <2>2. SpecOf(shape, clock + 1) \in SloSpec /\ SpecOf(shape, clock + 1).gen = clock + 1
    BY <1>1, SpecOfTypes DEF SpecOf
  <2>3. store["slo"] # Absent /\ store["slo"] \in ObjectWith(SloSpec) /\ store["slo"].spec.gen \in Nat
    BY <1>1, <1>3, Fields DEF EditSlo
  <2>4. /\ o \in Object("slo") /\ o.spec.gen = clock + 1 /\ o.uid = store["slo"].uid
        /\ o.owner = store["slo"].owner /\ o.deleting = store["slo"].deleting
        /\ o.ready = store["slo"].ready /\ o.cond = store["slo"].cond
    BY <2>2, <2>3, ObjectFacts DEF ObjectWith
  <2> HIDE DEF o
  <2>5. UserWrites("slo", o)
    BY <2>1 DEF o
  <2>6. clock' = clock + 1 /\ "slo" \in Kinds
    BY <2>5 DEF UserWrites, Kinds
  <2>7. SloFits(o)
    <3>1. o.ready = "True" => store["pr"] # Absent
      BY <2>3, <2>4, Zenon DEF Live, ReadyIsEarned
    <3>2. o.cond = "True" => store["pr"] # Absent /\ store["mr"] # Absent
      BY <2>3, <2>4, Zenon DEF Live, ReadyIsEarned
    <3>3. o.uid # 0 /\ o.spec.gen <= clock' /\ o.spec.gen > store["slo"].spec.gen
      BY <1>1, <2>3, <2>4, <2>6 DEF Live, Alive, Ordered
    <3> QED BY <2>3, <2>4, <3>1, <3>2, <3>3 DEF SloFits, NoNewerSlo
  <2>8. Fits("slo", o)
    BY <2>3, <2>4, <2>6, <2>7 DEF Fits, Undeleted, Live, Alive
  <2> QED BY <2>4, <2>5, <2>8, UserWriteLive
<1>4. ASSUME NEW k \in {"sli", "ds"}, NEW spec \in SpecOfKind[k], UserWrites(k, New(spec, 0)),
             k = "sli" => spec = clock + 1
      PROVE  Live' /\ FlowStep /\ Later
  <2>1. New(spec, 0) \in Object(k)
    BY NewTypes, ObjectFacts
  <2>2. k = "sli" => SliFits(New(spec, 0))
    <3>1. clock' = clock + 1 /\ (store["sli"] # Absent => store["sli"].spec <= clock)
      BY <1>4 DEF UserWrites, Live, Ordered
    <3> QED BY <1>1, <1>4, <3>1, NewFields, Fields DEF SliFits
  <2>3. Fits(k, New(spec, 0))
    BY <2>2, NewFields DEF Fits, Undeleted
  <2> QED BY <1>4, <2>1, <2>3, UserWriteLive
<1>5. SpecOfKind["sli"] = Nat /\ SpecOfKind["ds"] = Tenants /\ clock + 1 \in Nat
  BY <1>1 DEF SpecOfKind
<1>6. CASE WriteSli
  BY <1>4, <1>5, <1>6 DEF WriteSli
<1>7. CASE WriteDs
  BY <1>4, <1>5, <1>7 DEF WriteDs
<1> QED BY <1>2, <1>3, <1>6, <1>7

(* The garbage collector finds nothing without an owner.                   *)
LEMMA EnvironmentLive ==
    ASSUME Sound, Live, Sound', deletes = 0, deletes' = 0, Environment
    PROVE  Live' /\ FlowStep /\ Later
<1>1. UNCHANGED <<sloR, prR, mrR>>
  BY DEF Environment
<1>2. \A k \in Kinds : ~Collect(k)
  BY DEF Live, Alive, Collect
<1>3. \A k \in Kinds : ~UserDeletes(k)
  BY BoundsAssumption DEF UserDeletes
<1> QED BY <1>1, <1>2, <1>3, UsersWriteLive, DeliverLive, TimerLive DEF Environment, Users
----------------------------------------------------------------------------
(* No step takes deletions back.                                           *)
LEMMA DeletesGrow ==
    ASSUME Sound, [Next]_vars, deletes' = 0
    PROVE  deletes = 0
<1>1. deletes \in Nat
  BY BoundsAssumption DEF Sound, TypeInv, TypeOK
<1>2. ASSUME NEW k \in Kinds, UserDeletes(k) PROVE deletes = 0
  BY <1>1, <1>2 DEF UserDeletes
<1>3. CASE SloCtl
  BY <1>3 DEF SloCtl, SloStep, SloBegin, Release, Adopt, NoDatasource, ReportFailure,
              ReportSuccess, CreateInline, UpdateInline, LookAtChildren, CreatePr, OwnPr, PrDone,
              CreateMr, OwnMr, MrDone, MrReady, MrFailed, CreateAmc, OwnAmc, CallFails, Create,
              Own, Sends, External
<1>4. CASE PrCtl
  BY <1>4 DEF PrCtl, PrStep, PrGone, PrNoRules, PrBegin, PrReportFailure, UpdatePr, PrCallFails,
              PrUnchanged, External
<1>5. CASE MrCtl
  BY <1>5 DEF MrCtl, MrStep, MrIgnored, MrNoOwner, MrBegin, Push, DeleteGroup, AddMrFinalizer,
              AddPrFinalizer, FinalizerThere, DropMrFinalizer, DropPrFinalizer, UpdateMr,
              MarkMrReady, MrCallFails, MrReplyLost, MrUpdateFails, Stores, MrUnchanged
<1>6. CASE Environment
  BY <1>2, <1>6 DEF Environment, Users, CreateSlo, EditSlo, WriteSli, WriteDs, UserWrites,
                    Deliver, Collect, External, TimerFires
<1>7. CASE Crash \/ Panic
  BY <1>7 DEF Crash, Panic, Reboot, Restart
<1>8. CASE UNCHANGED vars
  BY <1>8 DEF vars, clusterVars
<1> QED BY <1>3, <1>4, <1>5, <1>6, <1>7, <1>8 DEF Next

LEMMA NextLive ==
    ASSUME Sound, Live, Sound', deletes = 0, deletes' = 0, [Next]_vars
    PROVE  Live' /\ FlowStep /\ Later
<1>1. CASE UNCHANGED vars
  <2>1. UNCHANGED <<store, cache, mimir, clock, sloR, prR, mrR>>
    BY <1>1 DEF vars, clusterVars
  <2>2. Alive' /\ Ordered' /\ ReadyIsEarned' /\ Later /\ FlowStep
    BY <2>1, QuietLive
  <2> QED BY <2>1, <2>2, KeepsSloLive, KeepsPrLive, KeepsMrLive DEF Live
<1>2. CASE Crash \/ Panic
  BY <1>2, RebootLive DEF Crash, Panic
<1> QED BY <1>1, <1>2, SloCtlLive, PrCtlLive, MrCtlLive, EnvironmentLive DEF Next
----------------------------------------------------------------------------
(* At the start everything that exists is of write 0 of the one SLO, and   *)
(* what was generated is there only together with all that it came from.   *)
LEMMA InitialRulesFields ==
    ASSUME NEW shape \in Shapes
    PROVE  /\ InitialRules(shape) \in Content
           /\ InitialRules(shape).slo = 0 /\ InitialRules(shape).sli = 0
BY ShapesAssumption DEF InitialRules, Content, Shape

LEMMA InitialFields ==
    ASSUME NEW shape \in Shapes, NEW t \in Tenants, NEW ctrl \in BOOLEAN, NEW made \in BOOLEAN
    PROVE  LET objects == InitialObjects(shape, t, ctrl, made)
           IN  /\ objects["slo"].uid = 1 /\ objects["slo"].spec.gen = 0
               /\ \A k \in Kinds : ~objects[k].deleting
               /\ \A k \in {"slo", "sli", "ds", "amc"} : objects[k].owner = 0
               /\ \A k \in {"pr", "mr", "inl"} : objects[k].owner = 1
               /\ objects["sli"].spec = 0
               /\ objects["pr"].spec = InitialRules(shape)
               /\ objects["mr"].spec.pr = InitialRules(shape)
               /\ objects["slo"].ready = "True" \/ objects["slo"].cond = "True" => made
<1> DEFINE slo == NewSlo(shape, 0)
           rules == InitialRules(shape)
           c == Child([pr |-> rules, ds |-> t], slo)
           mr == [c EXCEPT !.fin = TRUE, !.ready = "True", !.ctrl = ctrl]
           i == New(0, 0)
           inl == [i EXCEPT !.owner = slo.uid]
<1>1. /\ slo \in ObjectWith(SloSpec) /\ slo.uid = 1 /\ slo.spec.gen = 0 /\ slo.owner = 0
      /\ ~slo.deleting /\ slo.ready # "True" /\ slo.cond # "True"
  <2>1. SpecOf(shape, 0) \in SloSpec /\ SpecOf(shape, 0).gen = 0 /\ 0 + 1 = 1
    BY SpecOfTypes DEF SpecOf
  <2>2. slo = New(SpecOf(shape, 0), 1)
    BY <2>1 DEF NewSlo
  <2> HIDE DEF slo
  <2> QED BY <2>1, <2>2, NewTypes, NewFields
<1>2. rules \in Content
  BY InitialRulesFields
<1>3. [pr |-> rules, ds |-> t] \in MimirRuleSpec /\ [pr |-> rules, ds |-> t].pr = rules
  BY <1>2 DEF MimirRuleSpec
<1>4. c \in ObjectWith(MimirRuleSpec) /\ c.spec.pr = rules /\ ~c.deleting /\ c.owner = 1
  BY <1>1, <1>3, ChildTypes
<1>5. i \in ObjectWith(Nat) /\ ~i.deleting /\ i.owner = 0 /\ i.spec = 0
  BY NewTypes, NewFields
<1> HIDE DEF slo, c, i
<1>6. ~mr.deleting /\ mr.owner = 1 /\ mr.spec.pr = rules
  BY <1>4 DEF ObjectWith
<1>7. ~inl.deleting /\ inl.owner = 1
  BY <1>1, <1>5 DEF ObjectWith
<1>8. /\ InitialSlo(shape, made).uid = 1 /\ InitialSlo(shape, made).spec.gen = 0
      /\ InitialSlo(shape, made).owner = 0 /\ ~InitialSlo(shape, made).deleting
      /\ InitialSlo(shape, made).ready = "True" \/ InitialSlo(shape, made).cond = "True" => made
  BY <1>1 DEF InitialSlo, slo, ObjectWith
<1>9. /\ Child(rules, slo).spec = rules /\ ~Child(rules, slo).deleting
      /\ Child(rules, slo).owner = 1
  BY <1>1, <1>2, ChildTypes
<1>10. ~New(t, 0).deleting /\ New(t, 0).owner = 0
  BY NewFields
<1> HIDE DEF mr, inl
<1> DEFINE objects == InitialObjects(shape, t, ctrl, made)
<1>11. /\ objects["slo"] = InitialSlo(shape, made) /\ objects["pr"] = Child(rules, slo)
       /\ objects["mr"] = mr /\ objects["inl"] = inl /\ objects["ds"] = New(t, 0)
       /\ objects["sli"] = i /\ objects["amc"] = i
  BY DEF InitialObjects, mr, inl, i, slo, c
<1>12. rules = InitialRules(shape)
  OBVIOUS
<1> HIDE DEF objects, rules
<1>13. \A k \in Kinds : ~objects[k].deleting
  BY <1>5, <1>6, <1>7, <1>8, <1>9, <1>10, <1>11 DEF Kinds
<1>14. /\ objects["slo"].uid = 1 /\ objects["slo"].spec.gen = 0
       /\ \A k \in {"slo", "sli", "ds", "amc"} : objects[k].owner = 0
       /\ \A k \in {"pr", "mr", "inl"} : objects[k].owner = 1
       /\ objects["sli"].spec = 0
       /\ objects["pr"].spec = InitialRules(shape)
       /\ objects["mr"].spec.pr = InitialRules(shape)
       /\ objects["slo"].ready = "True" \/ objects["slo"].cond = "True" => made
  BY <1>2, <1>5, <1>6, <1>7, <1>8, <1>9, <1>10, <1>11, <1>12
<1> USE DEF objects
<1> QED BY <1>13, <1>14

LEMMA InitLive ==
    ASSUME Init
    PROVE  Live /\ Flow!Init
<1>1. PICK present \in Starts, shape \in Shapes, t \in Tenants, ctrl \in BOOLEAN :
        /\ ObjectsInit(present, shape, t, ctrl)
        /\ mimir = ServedAtStart(present, shape, t)
  BY DEF Init, ClusterInit
<1> DEFINE made == "pr" \in present
           objects == InitialObjects(shape, t, ctrl, made)
           there == Initially(shape, present)
<1>2. /\ store = [k \in Kinds |-> IF k \in there THEN objects[k] ELSE Absent]
      /\ cache = store /\ clock = 0
      /\ sloR = SloIdle /\ prR = PrIdle /\ mrR = MrIdle
  BY <1>1 DEF Init, ClusterInit, ObjectsInit, SloInit, PrInit, MrInit
<1>3. /\ objects["slo"].uid = 1 /\ objects["slo"].spec.gen = 0
      /\ \A k \in Kinds : ~objects[k].deleting
      /\ \A k \in {"slo", "sli", "ds", "amc"} : objects[k].owner = 0
      /\ \A k \in {"pr", "mr", "inl"} : objects[k].owner = 1
      /\ objects["sli"].spec = 0
      /\ objects["pr"].spec = InitialRules(shape) /\ objects["mr"].spec.pr = InitialRules(shape)
      /\ objects["slo"].ready = "True" \/ objects["slo"].cond = "True" => made
  <2>1. made \in BOOLEAN
    OBVIOUS
  <2> HIDE DEF made
  <2> QED BY <2>1, InitialFields
<1>4. /\ \A k \in {"pr", "mr", "inl"} : k \in there => {"slo", "sli", "pr", "mr"} \subseteq there
      /\ made => {"slo", "sli", "pr", "mr"} \subseteq there
  BY StartsAssumption DEF Initially, Authored, Generated
<1>5. ObjectsOK(store) /\ ObjectsOK(cache)
  BY InitSound DEF Sound, TypeInv, TypeOK
<1> HIDE DEF objects, there
<1>6. \A k \in Kinds : store[k] = IF k \in there THEN objects[k] ELSE Absent
  BY <1>2
<1>7. \A k \in Kinds : store[k] # Absent <=> k \in there
  <2>1. made \in BOOLEAN
    OBVIOUS
  <2> HIDE DEF made
  <2>2. \A k \in Kinds : objects[k] \in Object(k)
    BY <2>1, InitialTypes DEF objects
  <2> QED BY <1>6, <2>2, AbsentFacts
<1>8. {"slo", "sli", "pr", "mr"} \subseteq Kinds
  BY DEF Kinds
<1>9. "slo" \in there => LiveUid = 1
  BY <1>3, <1>6, <1>7, <1>8 DEF LiveUid
<1>10. Alive
  <2>1. \A k \in Kinds : Undeleted(store[k])
    BY <1>3, <1>6 DEF Undeleted
  <2>2. \A k \in Kinds : store[k] # Absent => store[k].owner \in {0, LiveUid}
    <3>1. \A k \in Kinds : k \in {"slo", "sli", "ds", "amc"} \/ k \in {"pr", "mr", "inl"}
      BY DEF Kinds
    <3> QED BY <1>3, <1>4, <1>6, <1>7, <1>9, <3>1
  <2>3. store["slo"] # Absent => store["slo"].uid # 0
    BY <1>3, <1>6, <1>7, <1>8
  <2>4. cache["slo"] # Absent => cache["slo"].uid = LiveUid
    BY <1>2 DEF LiveUid
  <2>5. cache = store
    BY <1>2
  <2> QED BY <2>1, <2>2, <2>3, <2>4, <2>5 DEF Alive
<1>11. \A u \in Tenants, g \in Groups : mimir[u][g] # Absent =>
          "pr" \in there /\ mimir[u][g] = InitialRules(shape)
  <2>1. ASSUME NEW u \in Tenants, NEW g \in Groups, mimir[u][g] # Absent
        PROVE  "mr" \in present /\ mimir[u][g] = InitialRules(shape)
    BY <1>1, <2>1 DEF ServedAtStart
  <2>2. "mr" \in present => "pr" \in there
    BY StartsAssumption DEF there, Initially, Authored, Generated
  <2> QED BY <2>1, <2>2
<1>12. /\ "slo" \in there => store["slo"].spec.gen = 0 /\ store["slo"] # Absent
       /\ "sli" \in there => store["sli"].spec = 0 /\ store["sli"] # Absent
       /\ "pr" \in there => store["pr"].spec = InitialRules(shape) /\ store["pr"] # Absent
       /\ "mr" \in there => store["mr"].spec.pr = InitialRules(shape)
  BY <1>3, <1>6, <1>7, <1>8
<1>13. Ordered
  <2>1. /\ cache["slo"] # Absent => NoNewerSlo(cache["slo"], store["slo"])
        /\ cache["sli"] # Absent => cache["sli"].spec <= store["sli"].spec
        /\ store["slo"] # Absent => store["slo"].spec.gen <= clock
        /\ store["sli"] # Absent => store["sli"].spec <= clock
    BY <1>2, <1>7, <1>8, <1>12 DEF NoNewerSlo
  <2>2. store["pr"] # Absent => cache["slo"] # Absent /\ UpTo(store["pr"].spec, cache)
    BY <1>2, <1>4, <1>7, <1>8, <1>12, InitialRulesFields DEF UpTo
  <2>3. NoNewer(InitialRules(shape), InitialRules(shape))
    BY InitialRulesFields, NoNewerOrder
  <2>4. /\ cache["pr"] # Absent => NoNewer(cache["pr"].spec, store["pr"].spec)
        /\ store["mr"] # Absent =>
              cache["pr"] # Absent /\ NoNewer(store["mr"].spec.pr, cache["pr"].spec)
        /\ \A u \in Tenants, g \in Groups : mimir[u][g] # Absent =>
              cache["pr"] # Absent /\ NoNewer(mimir[u][g], cache["pr"].spec)
    BY <1>2, <1>4, <1>7, <1>8, <1>11, <1>12, <2>3
  <2> QED BY <2>1, <2>2, <2>4 DEF Ordered
<1>14. ReadyIsEarned
  BY <1>3, <1>4, <1>6, <1>7, <1>8, Zenon DEF ReadyIsEarned
<1>15. SloLive /\ PrLive /\ MrLive
  BY <1>2 DEF SloLive, SloHoldsLive, SloIdle, PrLive, PrIdle, MrLive, MrHoldsLive, MrIdle,
              MrHolding
<1>16. Flow!Init
  <2> DEFINE first == Version(InitialRules(shape))
  <2>1. first = <<1, 0>>
    BY InitialRulesFields, AbsentFacts DEF Version
  <2> HIDE DEF first
  <2>2. Written \in Flow!AllVersions /\ ("slo" \in there => Flow!AtMost(first, Written))
    <3>1. "slo" \in there => Written[1] = 1 /\ Written[2] \in Nat
      BY <1>5, <1>7, <1>8, <1>12, Fields DEF Written
    <3> QED BY <1>5, <2>1, <3>1, WrittenVersions DEF Flow!AtMost
  <2>3. Version(RulesIn(store["pr"])) = IF "pr" \in there THEN first ELSE Flow!None
    BY <1>5, <1>7, <1>8, <1>12, Versions DEF first
  <2>4. Version(MirroredIn(store["mr"])) = IF "mr" \in there THEN first ELSE Flow!None
    BY <1>5, <1>7, <1>8, <1>12, Versions DEF first
  <2>5. \A u \in Tenants, g \in Groups :
           Version(mimir[u][g]) = Flow!None \/ ("pr" \in there /\ Version(mimir[u][g]) = first)
    BY <1>11 DEF Version, Flow!None, first
  <2>6. first \in Flow!AllVersions
    BY <2>1 DEF Flow!AllVersions
  <2>7. /\ Version(RulesIn(store["pr"])) \in Flow!From(Flow!None, Written)
        /\ Version(MirroredIn(store["mr"])) \in
              Flow!From(Flow!None, Version(RulesIn(store["pr"])))
    BY <1>4, <2>2, <2>3, <2>4, <2>6, VersionOrder DEF Flow!From
  <2>8. [p \in Tenants \X Groups |-> Version(mimir[p[1]][p[2]])]
          \in [Tenants \X Groups -> Flow!From(Flow!None, Version(RulesIn(store["pr"])))]
    BY <2>3, <2>5, <2>6, VersionOrder DEF Flow!From
  <2> QED BY <2>2, <2>7, <2>8 DEF Flow!Init
<1> QED BY <1>10, <1>13, <1>14, <1>15, <1>16 DEF Live
----------------------------------------------------------------------------
LEMMA IInvHolds == Spec => []IInv
<1>1. Init => IInv
  BY InitSound, InitLive DEF IInv
<1>2. IInv /\ [Next]_vars => IInv'
  BY NextSound, NextLive, DeletesGrow DEF IInv
<1> QED BY <1>1, <1>2, PTL DEF Spec

(* As long as nobody has deleted an object, an SLO says it is ready only   *)
(* when its PrometheusRule exists, and reports the condition only when its *)
(* MimirRule exists too: whichever calls failed, whatever the cache was    *)
(* late to show, and however often the operator was restarted.             *)
THEOREM ReadyOnlyIfEarned == Spec => []ReadyIsEarned
<1>1. IInv => ReadyIsEarned
  BY DEF IInv, Live, ReadyIsEarned
<1> QED BY <1>1, IInvHolds, PTL

(* As long as nobody deletes an object the operator implements RuleFlow:   *)
(* every step of it is an edit, a build, a mirroring, a push to one place  *)
(* in Mimir, or of no consequence to the rules; no stage ever gets rules   *)
(* older than those it had, or newer than those of the stage before it.    *)
THEOREM RulesFlow == Spec /\ [](deletes = 0) => FlowSpec
<1>1. Init => Flow!Init
  BY InitLive
<1>2. IInv /\ IInv' /\ deletes = 0 /\ (deletes = 0)' /\ [Next]_vars => [Flow!Next]_Flow!flow
  BY NextLive DEF IInv, FlowStep
<1> QED BY <1>1, <1>2, IInvHolds, PTL DEF Spec, FlowSpec, Flow!Spec

(* The steps before the first deletion are such steps whatever is deleted  *)
(* later.                                                                  *)
THEOREM FlowUntilDeleted == Spec => [][deletes' = 0 => FlowStep]_vars
<1>1. IInv /\ IInv' /\ [Next]_vars => (deletes' = 0 => FlowStep)
  BY NextLive, DeletesGrow DEF IInv
<1> QED BY <1>1, IInvHolds, PTL DEF Spec
=============================================================================

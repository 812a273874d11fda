--------------------------- MODULE OskoInvariants ---------------------------
(***************************************************************************)
(* The inductive invariants behind the properties of Osko, in parts.       *)
(* OskoProofs proves Sound inductive; RuleFlowProofs does so for IInv,     *)
(* which adds what holds as long as nothing is deleted, and NoticedProofs  *)
(* for Noticed, and for PushesGoOn and CreationNoticed, the latter with    *)
(* StatusIsNews. NamesakesProofs does so for RulesStand, of an SLO that    *)
(* shares Mimir with one that is deleted.                                  *)
(***************************************************************************)
EXTENDS Osko

SloPcs == {"idle", "release", "adopt", "noDs", "fail", "markReady", "createInl",
           "updateInl", "children", "createPr", "ownPr", "prDone", "createMr",
           "ownMr", "mrDone", "mrReady", "mrFailed", "createAmc", "ownAmc"}

PrPcs == {"idle", "noInd", "noSli", "update"}

(* The MimirRule reconcile holds both objects at these, and is pushing or  *)
(* deleting groups at the first two.                                       *)
MrHolding == {"push", "delete", "addMrFin", "addPrFin", "dropMrFin", "dropPrFin", "update"}
MrPcs == {"idle", "ready"} \cup MrHolding

(* What the three reconciles in progress hold.                             *)
SloReconcile ==
    [pc : SloPcs, spec : SloSpec \cup {Absent}, uid : Nat, sli : Nat,
     ds : Tenants \cup {Absent},
     made : Object("pr") \cup Object("mr") \cup Object("amc") \cup {Absent}]

SloHoldsOK(r) ==
    /\ r \in SloReconcile
    /\ r.pc # "idle" => r.spec \in SloSpec
    /\ r.pc \in {"createInl", "updateInl", "children"} => r.ds \in Tenants
    /\ r.pc \in {"createPr", "ownPr"} => r.made \in Object("pr")
    /\ r.pc \in {"createMr", "ownMr"} => r.made \in Object("mr")
    /\ r.pc \in {"createAmc", "ownAmc"} => r.made \in Object("amc")
    /\ r.pc \in {"createPr", "createMr", "createAmc"} => ~r.made.deleting

PrHoldsOK(r) ==
    /\ r \in [pc : PrPcs, made : Object("pr") \cup {Absent}]
    /\ r.pc = "update" => r.made \in Object("pr")

(* Recording groups come first, so that no other order is ever left to do. *)
Todos == {<<"rec", "alert">>, <<"rec">>, <<"alert">>}

MrReconcile(pcs) ==
    [pc : pcs, rules : Content \cup {Absent}, prFin : BOOLEAN,
     spec : MimirRuleSpec \cup {Absent}, mrFin : BOOLEAN, uid : Nat,
     todo : Todos \cup {<<>>}]

MrHoldsOK(r) ==
    /\ r \in MrReconcile(MrPcs)
    /\ r.pc \in MrHolding => r.rules \in Content /\ r.spec \in MimirRuleSpec
    /\ r.pc \in {"push", "delete"} => r.todo \in Todos

TypeInv == TypeOK /\ SloHoldsOK(sloR) /\ PrHoldsOK(prR) /\ MrHoldsOK(mrR)

(* A cache that is not behind is equal to the store, where no terminating  *)
(* object is without a finalizer.                                          *)
CacheCoherent ==
    \A k \in Kinds : /\ k \notin behind => cache[k] = store[k]
                     /\ Settle(store[k]) = store[k]

(* A copy whose resourceVersion is the newest agrees with what is stored.  *)
StillAsMade(k) ==
    store[k] # Absent /\ ~store[k].deleting /\ store[k].spec = sloR.made.spec

SloCoherent ==
    /\ sloR.pc # "idle" /\ "slo" \in fresh["slo"] =>
          store["slo"] # Absent /\ store["slo"].spec = sloR.spec
    /\ sloR.pc = "updateInl" /\ "inl" \in fresh["slo"] => store["inl"] # Absent
    /\ sloR.pc = "ownPr" /\ "pr" \in fresh["slo"] => StillAsMade("pr")
    /\ sloR.pc = "ownMr" /\ "mr" \in fresh["slo"] => StillAsMade("mr")
    /\ sloR.pc = "ownAmc" /\ "amc" \in fresh["slo"] => StillAsMade("amc")
    /\ sloR.pc \in {"mrDone", "mrReady"} /\ "mr" \in fresh["slo"] =>
          store["mr"] # Absent

PrCoherent ==
    prR.pc \in {"noInd", "noSli"} /\ "slo" \in fresh["pr"] => store["slo"] # Absent

Coherent == CacheCoherent /\ SloCoherent /\ PrCoherent

(* Of the groups that a reconcile set out to delete, those not left to do  *)
(* are gone.                                                               *)
Cleaned ==
    /\ mrR.pc = "delete" => \A g \in GroupsOf(mrR.rules) :
          mimir[mrR.spec.ds][g] = Absent \/ \E i \in 1..Len(mrR.todo) : mrR.todo[i] = g
    /\ CleanRelease

(* Holds whatever the users do and whatever fails.                         *)
Sound == TypeInv /\ Coherent /\ Cleaned
----------------------------------------------------------------------------
(* As long as nobody deletes an object none is terminating or disappears,  *)
(* and everything that is generated has the one SLO there is for its owner.*)
Undeleted(o) == o = Absent \/ ~o.deleting

Alive ==
    /\ \A k \in Kinds : Undeleted(store[k]) /\ Undeleted(cache[k])
    /\ \A k \in Kinds : cache[k] # Absent => store[k] # Absent
    /\ \A k \in Kinds : store[k] # Absent => store[k].owner \in {0, LiveUid}
    /\ store["slo"] # Absent => store["slo"].uid # 0
    /\ cache["slo"] # Absent => cache["slo"].uid = LiveUid

(* Rules c are no newer than rules d: from an older write of the SLO, or   *)
(* from the same and no newer a write of the SLI.                          *)
NoNewer(c, d) == c.slo < d.slo \/ (c.slo = d.slo /\ c.sli <= d.sli)

(* Nor than the rules that can be made from the SLO and the SLI among the  *)
(* objects.                                                                *)
UpTo(c, objects) ==
    LET slo == objects["slo"]  sli == objects["sli"]
    IN  \/ c.slo < slo.spec.gen
        \/ /\ c.slo = slo.spec.gen
           /\ IF slo.spec.ind = "ref" THEN sli # Absent /\ c.sli <= sli.spec ELSE c.sli = 0

(* Copy s of the SLO is from an older write than copy t, or from the same, *)
(* which has one text.                                                     *)
NoNewerSlo(s, t) == s.spec.gen < t.spec.gen \/ s.spec = t.spec

(* Every copy of the rules is at most as new as what it was taken from:    *)
(* the users' writes, SLO and SLI in the store, in the cache, the          *)
(* PrometheusRule in the store, in the cache, the MimirRule and Mimir.     *)
Ordered ==
    /\ store["slo"] # Absent => store["slo"].spec.gen <= clock
    /\ store["sli"] # Absent => store["sli"].spec <= clock
    /\ cache["slo"] # Absent => NoNewerSlo(cache["slo"], store["slo"])
    /\ cache["sli"] # Absent => cache["sli"].spec <= store["sli"].spec
    /\ store["pr"] # Absent => cache["slo"] # Absent /\ UpTo(store["pr"].spec, cache)
    /\ cache["pr"] # Absent => NoNewer(cache["pr"].spec, store["pr"].spec)
    /\ store["mr"] # Absent =>
          cache["pr"] # Absent /\ NoNewer(store["mr"].spec.pr, cache["pr"].spec)
    /\ \A t \in Tenants, g \in Groups : mimir[t][g] # Absent =>
          cache["pr"] # Absent /\ NoNewer(mimir[t][g], cache["pr"].spec)

(* The calls before which a reconcile of the SLO has found, or made, the   *)
(* PrometheusRule and the MimirRule.                                       *)
AfterPr == {"ownPr", "prDone", "createMr", "ownMr", "mrDone", "mrReady",
            "mrFailed", "createAmc", "ownAmc", "markReady"}
AfterMr == {"ownMr", "mrDone", "mrReady", "createAmc", "ownAmc", "markReady"}

(* What each reconcile in progress holds belongs to that SLO, was there    *)
(* and still is, and is no newer than what it was taken from. What the     *)
(* PrometheusRule and MimirRule controllers are about to store is no older *)
(* than what it replaces.                                                  *)
SloHoldsLive(r) == r.pc # "idle" =>
    /\ cache["slo"] # Absent /\ r.uid = LiveUid
    /\ r.spec.gen <= cache["slo"].spec.gen
    /\ r.pc # "release"
    /\ r.pc \in Creating \ {"createInl"} => r.made.owner \in {0, LiveUid}
    /\ r.pc \in {"createInl", "updateInl", "children"} =>
          UpTo([slo |-> r.spec.gen, sli |-> r.sli], cache)
    /\ r.pc \in {"createPr", "ownPr"} => UpTo(r.made.spec, cache)
    /\ r.pc \in {"createMr", "ownMr"} =>
          cache["pr"] # Absent /\ NoNewer(r.made.spec.pr, cache["pr"].spec)
    /\ r.pc \in AfterPr => store["pr"] # Absent
    /\ r.pc \in AfterMr => store["mr"] # Absent

SloLive == SloHoldsLive(sloR)

PrLive == prR.pc = "update" =>
    /\ store["pr"] # Absent /\ prR.made.owner = LiveUid
    /\ NoNewer(store["pr"].spec, prR.made.spec)
    /\ UpTo(prR.made.spec, cache)

MrHoldsLive(r) ==
    /\ r.pc \notin {"delete", "dropMrFin", "dropPrFin"}
    /\ r.pc \in MrHolding =>
          /\ cache["slo"] # Absent /\ r.uid = LiveUid
          /\ cache["pr"] # Absent /\ NoNewer(r.rules, cache["pr"].spec)
          /\ store["mr"] # Absent /\ NoNewer(store["mr"].spec.pr, r.rules)
    /\ r.pc = "push" => \A t \in Tenants, g \in Groups :
          mimir[t][g] # Absent => NoNewer(mimir[t][g], r.rules)

MrLive == MrHoldsLive(mrR)

Live == Alive /\ Ordered /\ ReadyIsEarned /\ SloLive /\ PrLive /\ MrLive

(* Inductive: everything that holds as long as nobody deletes an object.   *)
IInv == Sound /\ (deletes = 0 => Live)
----------------------------------------------------------------------------
(* A reconcile that read the SLO before it was edited again holds rules of *)
(* another write only as long as the next one is to come.                  *)
HeldNoticed ==
    prR.pc = "update" /\ store["slo"] # Absent
    /\ prR.made.spec.slo # store["slo"].spec.gen =>
        "slo" \in behind \/ "pr" \in queued

(* Inductive with Sound.                                                   *)
Noticed == HeldNoticed /\ EditNoticed /\ DeletionNoticed

(* The rules stand: nobody deletes the PrometheusRule and the MimirRule,   *)
(* which the cache has, and no reconcile takes them for deleted.           *)
Standing(o) == o # Absent /\ Undeleted(o)

RulesStand ==
    /\ \A k \in Generated : Standing(store[k]) /\ Standing(cache[k])
    /\ mrR.pc \notin {"delete", "dropMrFin", "dropPrFin"}

(* A PrometheusRule is made only for an SLO that is not ready, so that the *)
(* status written afterwards is news.                                      *)
StatusIsNews ==
    deletes = 0 /\ sloR.pc \in {"ownPr", "prDone"} /\ store["slo"] # Absent =>
        store["slo"].ready # "True"
=============================================================================

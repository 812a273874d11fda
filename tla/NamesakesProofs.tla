---------------------------- MODULE NamesakesProofs ----------------------------
(***************************************************************************)
(* Proofs for the two SLOs of one name, from what is proved of each: a     *)
(* step of one is a step of Osko for it, and for the other at most a       *)
(* change of Mimir, at a time when no reconcile of its MimirRule runs.     *)
(***************************************************************************)
EXTENDS Namesakes, TLAPS

LEMMA LeavingAssumptions ==
    /\ Leaving!TenantsAssumption /\ Leaving!ShapesAssumption /\ Leaving!AbsentAssumption
    /\ Leaving!BoundsAssumption /\ Leaving!StartsAssumption /\ Leaving!EditableAssumption
    /\ Leaving!DeletableAssumption
<1>1. Leaving!TenantsAssumption /\ Leaving!ShapesAssumption /\ Leaving!AbsentAssumption
  BY NamesakesTenants, NamesakesShapes, NamesakesAbsent
     DEF Leaving!TenantsAssumption, Leaving!ShapesAssumption, Leaving!AbsentAssumption
<1>2. Leaving!BoundsAssumption
  BY NamesakesBounds DEF Leaving!BoundsAssumption
<1>3. Leaving!StartsAssumption
  BY DEF Leaving!StartsAssumption, Everything, Leaving!Authored, Leaving!Generated
<1>4. Leaving!EditableAssumption /\ Leaving!DeletableAssumption
  BY DEF Leaving!EditableAssumption, Leaving!DeletableAssumption, Leaving!Kinds
<1> QED BY <1>1, <1>2, <1>3, <1>4

(* The domains of the two SLOs' objects are the same.                      *)
LEMMA SameDomains ==
    /\ Staying!Shape = Leaving!Shape /\ Staying!Content = Leaving!Content
    /\ Staying!Kinds = Leaving!Kinds /\ Staying!Groups = Leaving!Groups
    /\ Staying!Authored = Leaving!Authored /\ Staying!Generated = Leaving!Generated
    /\ \A k : Staying!Object(k) = Leaving!Object(k)
BY DEF Staying!Shape, Leaving!Shape, Staying!Content, Leaving!Content,
       Staying!Kinds, Leaving!Kinds, Staying!Groups, Leaving!Groups,
       Staying!Authored, Leaving!Authored, Staying!Generated, Leaving!Generated,
       Staying!Object, Leaving!Object, Staying!SpecOfKind, Leaving!SpecOfKind,
       Staying!SloSpec, Leaving!SloSpec, Staying!MimirRuleSpec, Leaving!MimirRuleSpec,
       Staying!Status, Leaving!Status

LEMMA StayingAssumptions ==
    /\ Staying!TenantsAssumption /\ Staying!ShapesAssumption /\ Staying!AbsentAssumption
    /\ Staying!BoundsAssumption /\ Staying!StartsAssumption /\ Staying!EditableAssumption
    /\ Staying!DeletableAssumption
<1>1. Staying!TenantsAssumption
  BY NamesakesTenants DEF Staying!TenantsAssumption
<1>2. Staying!ShapesAssumption
  BY SameDomains, NamesakesShapes DEF Staying!ShapesAssumption
<1>3. Staying!AbsentAssumption
  BY SameDomains, NamesakesAbsent DEF Staying!AbsentAssumption
<1>4. Staying!BoundsAssumption
  BY DEF Staying!BoundsAssumption
<1>5. Staying!StartsAssumption
  BY DEF Staying!StartsAssumption, Everything, Staying!Authored, Staying!Generated
<1>6. Staying!EditableAssumption /\ Staying!DeletableAssumption
  BY DEF Staying!EditableAssumption, Staying!DeletableAssumption
<1> QED BY <1>1, <1>2, <1>3, <1>4, <1>5, <1>6

USE LeavingAssumptions, StayingAssumptions
----------------------------------------------------------------------------
(* Inductive: each SLO is as sound as if it were alone, and the rules of   *)
(* the one that stays stand.                                               *)
NInv ==
    /\ Leaving!Sound /\ Staying!Sound
    /\ Staying!RulesStand /\ Staying!PushesGoOn

(* The other SLO sees a change of Mimir at most.                           *)
LEMMA LeavingElsewhere ==
    ASSUME Leaving!Sound, Staying!Sound', UNCHANGED <<ofLeaving, deletes>>,
           mimir' = mimir \/ mrL.pc = "idle"
    PROVE  Leaving!Sound'
<1>1. mimir' \in [Tenants -> [Leaving!Groups -> Leaving!Content \cup {Absent}]]
  BY SameDomains DEF Staying!Sound, Staying!TypeInv, Staying!TypeOK
<1> QED BY <1>1, Leaving!ElsewhereSound DEF ofLeaving

LEMMA StayingElsewhere ==
    ASSUME NInv, Leaving!Sound', UNCHANGED ofStaying, mimir' = mimir \/ mrS.pc = "idle"
    PROVE  Staying!Sound' /\ Staying!RulesStand' /\ Staying!PushesGoOn'
<1>1. mimir' \in [Tenants -> [Staying!Groups -> Staying!Content \cup {Absent}]]
  BY SameDomains DEF Leaving!Sound, Leaving!TypeInv, Leaving!TypeOK
<1>2. Staying!Sound'
  BY <1>1, Staying!ElsewhereSound DEF ofStaying, NInv
<1>3. Staying!RulesStand' /\ Staying!PushesGoOn'
  BY DEF NInv, ofStaying, Staying!RulesStand, Staying!PushesGoOn
<1> QED BY <1>2, <1>3

LEMMA LeavingMoves ==
    ASSUME NInv, LeavingSlo \/ LeavingPr \/ LeavingMr \/ LeavingEnvironment
    PROVE  NInv'
<1>1. Leaving!Sound'
  BY Leaving!SloCtlSound, Leaving!PrCtlSound, Leaving!MrCtlSound, Leaving!EnvironmentSound
     DEF LeavingSlo, LeavingPr, LeavingMr, LeavingEnvironment, NInv
<1>2. UNCHANGED ofStaying /\ (mimir' = mimir \/ mrS.pc = "idle")
  BY Leaving!MimirKept DEF LeavingSlo, LeavingPr, LeavingMr, LeavingEnvironment
<1> QED BY <1>1, <1>2, StayingElsewhere DEF NInv

LEMMA StayingMoves ==
    ASSUME NInv, StayingMr \/ StayingEnvironment
    PROVE  NInv'
<1>1. Staying!Environment \/ Staying!MrCtl
  BY DEF StayingMr, StayingEnvironment, Staying!Environment, Staying!Kinds
<1>2. Staying!Sound'
  BY <1>1, Staying!MrCtlSound, Staying!EnvironmentSound DEF NInv
<1>3. UNCHANGED <<ofLeaving, deletes>> /\ (mimir' = mimir \/ mrL.pc = "idle")
  BY DEF StayingMr, StayingEnvironment, Staying!TimerFires, Staying!Deliver
<1>4. \/ Staying!MrStep
      \/ (Staying!TimerFires \/ \E k \in Staying!Kinds : Staying!Deliver(k)) /\ mrS' = mrS
  BY DEF StayingMr, StayingEnvironment, Staying!MrCtl, Staying!Kinds
<1>5. Staying!RulesStand' /\ Staying!PushesGoOn'
  BY <1>4, Staying!StandingGoesOn DEF NInv
<1> QED BY <1>2, <1>3, <1>5, LeavingElsewhere DEF NInv

LEMMA CrashMoves ==
    ASSUME NInv, Crash
    PROVE  NInv'
<1>1. Leaving!Reboot /\ Staying!Reboot
  BY DEF Crash
<1>2. Leaving!Sound' /\ Staying!Sound'
  BY <1>1, Leaving!RebootKeepsSound, Staying!RebootKeepsSound DEF NInv
<1>3. Staying!RulesStand' /\ Staying!PushesGoOn'
  BY <1>1, Staying!StandingGoesOn DEF NInv
<1> QED BY <1>2, <1>3 DEF NInv

LEMMA NextMoves ==
    ASSUME NInv, [Next]_vars
    PROVE  NInv'
<1>1. CASE UNCHANGED vars
  <2>1. /\ UNCHANGED <<mimir, deletes, storeL, cacheL, behindL, missedL, freshL, queuedL,
                       timerL, sloL, prL, mrL>>
        /\ UNCHANGED <<storeS, cacheS, behindS, missedS, freshS, queuedS, timerS, sloS, prS,
                       mrS>>
    BY <1>1 DEF vars, ofLeaving, ofStaying
  <2>2. Leaving!Sound' /\ Staying!Sound'
    BY <2>1, Leaving!NextSound, Staying!NextSound
       DEF NInv, Leaving!vars, Leaving!clusterVars, Staying!vars, Staying!clusterVars
  <2> QED BY <2>1, <2>2 DEF NInv, Staying!RulesStand, Staying!PushesGoOn
<1> QED BY <1>1, LeavingMoves, StayingMoves, CrashMoves DEF Next

LEMMA InitMoves == Init => NInv
<1> SUFFICES ASSUME Init PROVE NInv
  OBVIOUS
<1>1. PICK t \in Tenants :
        /\ Leaving!ObjectsInit(Everything, LeavingShape, t, TRUE)
        /\ Staying!ObjectsInit(Everything, StayingShape, t, TRUE)
        /\ mimir \in {Leaving!ServedAtStart(Everything, LeavingShape, t),
                      Staying!ServedAtStart(Everything, StayingShape, t)}
  BY DEF Init
<1>2. /\ queuedL = {} /\ timerL = TRUE /\ queuedS = {} /\ timerS = TRUE /\ deletes = 0
      /\ Leaving!SloInit /\ Leaving!PrInit /\ Leaving!MrInit
      /\ Staying!SloInit /\ Staying!PrInit /\ Staying!MrInit
  BY DEF Init
<1>3. mimir \in [Tenants -> [Leaving!Groups -> Leaving!Content \cup {Absent}]]
  BY <1>1, Leaving!ServedTypes, Staying!ServedTypes, SameDomains
<1>4. Leaving!Sound
  BY <1>1, <1>2, <1>3, Leaving!StartSound
<1>5. Staying!Sound
  BY <1>1, <1>2, <1>3, SameDomains, Staying!StartSound
<1>6. Staying!RulesStand
  BY <1>1, <1>2, SameDomains, NamesakesShapes, Staying!StartStands
     DEF Everything, Staying!Generated
<1>7. Staying!PushesGoOn
  BY <1>2 DEF Staying!PushesGoOn
<1> QED BY <1>4, <1>5, <1>6, <1>7 DEF NInv

LEMMA NInvHolds == Spec => []NInv
BY InitMoves, NextMoves, PTL DEF Spec

(* The cleanup of the deleted SLO is complete before its objects go, even  *)
(* though the other SLO pushes groups of the same names, also between two  *)
(* attempts and before and after a restart.                                *)
THEOREM LeavesClean == Spec => []CleanLeave
<1>1. NInv => CleanLeave
  BY DEF NInv, CleanLeave, Leaving!Sound, Leaving!Cleaned
<1> QED BY <1>1, NInvHolds, PTL

(* Whatever the cleanup took away from the SLO that stays, and wherever    *)
(* the process dies, the reconcile that pushes it again is to come.        *)
THEOREM StayingIsPushed == Spec => []StayingPushes
<1>1. NInv => StayingPushes
  BY DEF NInv, StayingPushes
<1> QED BY <1>1, NInvHolds, PTL
=============================================================================

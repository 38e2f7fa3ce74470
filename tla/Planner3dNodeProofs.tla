------------------------- MODULE Planner3dNodeProofs -------------------------
(***************************************************************************)
(* Proofs about both nodes of planner_3d, for both modes of planning and    *)
(* every value of the constants: first about the ROS 2 node, then about the *)
(* ROS 1 node, whose callbacks are the same but for cbPreempt and the main  *)
(* thread.  Inv relates a core to the action servers; each helper of the    *)
(* callbacks gets a lemma, and a theorem has one step per callback.         *)
(* RequestsInv is what the life of the goal handles needs besides: a cancel *)
(* request stays on record until its goal ends.                             *)
(***************************************************************************)
EXTENDS Planner3dRos1, Planner3dCoreProofs

SrvOK(s) ==
  /\ s \in SrvType
  /\ s.mb = "none" \/ s.tol = "none"
  /\ s.tol = "none" <=> s.mode = "none"

Active(s) == s.mb # "none" \/ s.tol # "none"

Inv(c, s) == Safe(c) /\ SrvOK(s) /\ (Active(s) => c.hasGoal)

\* Ending the goal of a server leaves it idle and the other one as it was.
LEMMA FinishResult ==
  ASSUME NEW s, SrvOK(s), NEW text \in Results
  PROVE  /\ SrvOK(finishMoveBase(s, text)) /\ SrvOK(finishTolerant(s, text))
         /\ SrvOK(finishBoth(s, text))
         /\ finishMoveBase(s, text).mb = "none"
         /\ finishMoveBase(s, text).tol = s.tol
         /\ finishTolerant(s, text).tol = "none"
         /\ finishTolerant(s, text).mb = s.mb
         /\ ~Active(finishBoth(s, text))
<1>1. ASSUME NEW t, SrvOK(t)
      PROVE  /\ SrvOK(finishTolerant(t, text))
             /\ finishTolerant(t, text).tol = "none"
             /\ finishTolerant(t, text).mb = t.mb
  BY <1>1 DEF SrvOK, SrvType, finishTolerant, Handles, Tols
<1>2. /\ SrvOK(finishMoveBase(s, text))
      /\ finishMoveBase(s, text).mb = "none"
      /\ finishMoveBase(s, text).tol = s.tol
  BY DEF SrvOK, SrvType, finishMoveBase, Handles
<1> QED BY <1>1, <1>2 DEF finishBoth, Active

\* A server takes a goal while the other one is idle.
LEMMA AcceptResult ==
  ASSUME NEW s, SrvOK(s)
  PROVE  /\ s.tol = "none" => SrvOK(accept(s, "mb", "none"))
                             /\ accept(s, "mb", "none").tol = "none"
         /\ s.mb = "none" => \A mode \in Tols \ {"none"} :
                               SrvOK(accept(s, "tol", mode))
                               /\ accept(s, "tol", mode).mb = "none"
<1>1. s.tol = "none" => SrvOK(accept(s, "mb", "none"))
                       /\ accept(s, "mb", "none").tol = "none"
  BY DEF SrvOK, SrvType, accept, Handles, Tols, Results
<1>2. s.mb = "none" => \A mode \in Tols \ {"none"} :
                         SrvOK(accept(s, "tol", mode))
                         /\ accept(s, "tol", mode).mb = "none"
  BY DEF SrvOK, SrvType, accept, Handles, Tols, Results
<1> QED BY <1>1, <1>2

\* Pushing the tolerance keeps the core's goal and invariant.
LEMMA ToleranceStays ==
  ASSUME NEW c, Safe(c), NEW s, SrvOK(s)
  PROVE  Stays(c, updateGoalTolerance(c, s))
<1>1. s.mode \in Tols /\ "none" \in Tols
  BY DEF SrvOK, SrvType, Tols
<1> QED BY <1>1, InputsSafe DEF updateGoalTolerance

\* A superseded goal leaves both servers idle and no goal.
LEMMA PreemptResult ==
  ASSUME NEW c, NEW s, Inv(c, s)
  PROVE  Inv(preemptedCore(c, s), preempt(s)) /\ ~Active(preempt(s))
<1>1. SrvOK(preempt(s)) /\ ~Active(preempt(s))
  BY FinishResult DEF Inv, preempt, Results, AbortedTexts
<1>2. Safe(updateGoalTolerance(c, preempt(s)))
  BY <1>1, ToleranceStays DEF Inv, Stays
<1> QED BY <1>1, <1>2, InputsSafe DEF Inv, preemptedCore

\* setGoal with the new goal's handle in place, or for the topic.
LEMMA SetGoalStepKeepsInv ==
  ASSUME NEW c, Safe(c), NEW s, SrvOK(s), NEW g \in Cells, NEW same \in BOOLEAN,
         NEW normal \in BOOLEAN, NEW w \in WorldType,
         NEW server \in {"mb", "tol", "topic"},
         server = "mb" => s.tol = "none", server = "tol" => s.mb = "none",
         server = "topic" => ~Active(s)
  PROVE  LET r == SetGoalStep(c, s, g, same, normal, w, server) IN Inv(r.c, r.s)
<1> DEFINE t == updateGoalTolerance(c, s)
           n == setGoal(t, g, same, normal, w)
           r == setGoalResult(t, g, same, normal)
           cleared == finishBoth(s, "cleared")
           rejected == CASE server = "mb" -> finishMoveBase(s, "invalid")
                         [] server = "tol" -> finishTolerant(s, "invalid")
                         [] server = "topic" -> s
<1>1. Safe(t)
  BY ToleranceStays DEF Stays
<1>2. Safe(n) /\ (r = "ACCEPTED" => n.hasGoal)
  <2> HIDE DEF t
  <2> QED BY <1>1, SetGoalSafe
<1>3. SrvOK(cleared) /\ ~Active(cleared)
  BY FinishResult DEF Results, SucceededTexts
<1>4. SrvOK(rejected) /\ ~Active(rejected)
  BY FinishResult DEF Results, AbortedTexts, Active
<1>5. r \in {"ACCEPTED", "CLEARED", "REJECTED"}
  BY DEF setGoalResult
<1> HIDE DEF t, n, r, cleared, rejected
<1>6. Safe(updateGoalTolerance(n, cleared))
  BY <1>2, <1>3, ToleranceStays DEF Stays
<1>7. CASE r = "ACCEPTED"
  BY <1>2, <1>7 DEF SetGoalStep, Inv, t, n, r
<1>8. CASE r = "CLEARED"
  BY <1>3, <1>6, <1>8 DEF SetGoalStep, Inv, t, n, r, cleared
<1>9. CASE r = "REJECTED"
  BY <1>2, <1>4, <1>9 DEF SetGoalStep, Inv, t, n, r, rejected
<1> QED BY <1>5, <1>7, <1>8, <1>9

\* A planning cycle that ends the goal ends the action.
LEMMA PlanStepKeepsInv ==
  ASSUME NEW c, NEW s, Inv(c, s), NEW old \in BOOLEAN, NEW w \in WorldType
  PROVE  LET r == PlanStep(c, s, old, w) IN Inv(r.c, r.s)
<1> DEFINE t == updateGoalTolerance(c, s)
           p == preparePlanCycle(t, old, w)
           r == runPlanCycle(p, w)
           result == planCycleResult(p, w)
           reached == finishBoth(s, "reached")
           aborted == finishBoth(s, "in rock")
           passed  == finishTolerant(s, "passed")
<1>1. Stays(c, t)
  BY ToleranceStays DEF Inv
<1>2. Stays(c, p)
  <2> HIDE DEF t
  <2> QED BY <1>1, PlanCycleSafe DEF Stays
<1>3. p.hasGoal => Safe(r) /\ (result = "NONE" => r.hasGoal)
  <2> HIDE DEF p
  <2> QED BY <1>2, PlanCycleSafe DEF Stays
<1>4. Stays(p, handleNoGoal(p))
  BY <1>2, InputsSafe DEF Stays
<1>5. /\ SrvOK(reached) /\ ~Active(reached) /\ SrvOK(aborted) /\ ~Active(aborted)
      /\ SrvOK(passed) /\ (Active(passed) => Active(s))
  <2>1. {"reached", "in rock", "passed"} \subseteq Results
    BY DEF Results, SucceededTexts, AbortedTexts
  <2>2. SrvOK(s)
    BY DEF Inv
  <2> HIDE DEF p, r
  <2> QED BY <2>1, <2>2, FinishResult DEF Active
<1>6. result \in {"GOAL_REACHED", "ABORT_MAX_RETRY", "NONE"}
  BY DEF planCycleResult
<1>7. CycleRuns(p, old) => p.hasGoal
  BY DEF CycleRuns, isReadyToPlan
<1> HIDE DEF t, p, r, result, reached, aborted, passed
<1>8. p.hasGoal => Safe(updateGoalTolerance(r, reached)) /\ Safe(updateGoalTolerance(r, aborted))
  BY <1>3, <1>5, ToleranceStays DEF Stays
<1>9. CASE ~CycleRuns(p, old)
  BY <1>2, <1>4, <1>9 DEF PlanStep, PlanPrepared, Inv, Stays, p, t
<1>10. CASE CycleRuns(p, old) /\ result = "GOAL_REACHED"
  BY <1>5, <1>7, <1>8, <1>10 DEF PlanStep, PlanPrepared, Inv, p, t, r, result, reached
<1>11. CASE CycleRuns(p, old) /\ result = "ABORT_MAX_RETRY"
  BY <1>5, <1>7, <1>8, <1>11 DEF PlanStep, PlanPrepared, Inv, p, t, r, result, aborted
<1>12. CASE CycleRuns(p, old) /\ result = "NONE"
  BY <1>3, <1>5, <1>7, <1>12 DEF PlanStep, PlanPrepared, Inv, p, t, r, result, passed
<1> QED BY <1>6, <1>9, <1>10, <1>11, <1>12

\* A goal cleared for a cancel request is the goal of the handle that ends.
LEMMA CancelKeepsInv ==
  ASSUME NEW c, NEW s, Inv(c, s)
  PROVE  Inv(IF Cancels(s) THEN clearGoal(updateGoalTolerance(c, processCancelRequests(s)))
             ELSE c, processCancelRequests(s))
<1> DEFINE q == processCancelRequests(s)
<1>1. SrvOK(q) /\ (Active(q) => Active(s) /\ ~Cancels(s))
  <2> DEFINE s1 == IF s.cancelMb /\ s.mb = "canceling"
                   THEN finishMoveBase(s, "canceled") ELSE s
             s2 == IF s.cancelTol /\ s.tol = "canceling"
                   THEN finishTolerant(s1, "canceled") ELSE s1
  <2>0. "canceled" \in Results
    BY DEF Results, CanceledTexts
  <2>1. SrvOK(s1) /\ s1.tol = s.tol
        /\ (s1.mb # "none" => s.mb # "none" /\ ~(s.cancelMb /\ s.mb = "canceling"))
    BY <2>0, FinishResult DEF Inv
  <2> HIDE DEF s1
  <2>2. SrvOK(s2) /\ s2.mb = s1.mb
        /\ (s2.tol # "none" => s.tol # "none" /\ ~(s.cancelTol /\ s.tol = "canceling"))
    BY <2>0, <2>1, FinishResult
  <2> HIDE DEF s2
  <2>3. q = [s2 EXCEPT !.cancelMb = @ /\ s.mb = "executing",
                       !.cancelTol = @ /\ s.tol = "executing"]
    BY DEF processCancelRequests, s1, s2
  <2>4. SrvOK(q) /\ q.mb = s2.mb /\ q.tol = s2.tol
    BY <2>2, <2>3 DEF SrvOK, SrvType
  <2>5. s.mb = "none" \/ s.tol = "none"
    BY DEF Inv, SrvOK
  <2> HIDE DEF q
  <2> QED BY <2>1, <2>2, <2>4, <2>5 DEF Active, Cancels
<1> HIDE DEF q
<1>2. Safe(clearGoal(updateGoalTolerance(c, q)))
  BY <1>1, ToleranceStays, InputsSafe DEF Inv, Stays
<1> QED BY <1>1, <1>2 DEF Inv, q

-----------------------------------------------------------------------------
NodeInv == /\ Inv(core, srv)
           /\ {costmapOld, retained} \subseteq BOOLEAN
           /\ timer \in {"none", "armed"}

\* Nothing is pursued and both servers are idle at first.
LEMMA NodeInitInv == NodeInit => NodeInv
<1> SUFFICES ASSUME NodeInit PROVE NodeInv
  OBVIOUS
<1>1. Safe(core)
  BY InitSafe DEF NodeInit, Init, CoreInv
<1>2. SrvOK(srv) /\ ~Active(srv)
  BY NodeAssumption DEF NodeAssumption, NodeInit, SrvOK, SrvType, Active, Handles, Tols, Results
<1> QED BY <1>1, <1>2 DEF NodeInit, NodeInv, Inv

\* What the constants hold, in the form the steps below use.
LEMMA Inputs ==
  /\ \A e \in Extents : e \in SUBSET Cells
  /\ \A o \in Obstacles : o \in SUBSET Cells
  /\ \A g \in Goals : g \in Cells
  /\ \A t \in Tolerances : t \in Tols
  /\ \A w \in Worlds : w \in WorldType
BY CoreAssumption DEF CoreAssumption, Tols

\* A goal from a client is taken in with the servers it finds.
LEMMA GoalsKeepInv ==
  ASSUME Inv(core, srv), MoveBaseGoal \/ TolerantGoal \/ TopicGoal
  PROVE  Inv(core', srv')
<1>0. Safe(core) /\ SrvOK(srv) /\ Safe(preemptedCore(core, srv))
      /\ SrvOK(preempt(srv)) /\ ~Active(preempt(srv))
  BY PreemptResult DEF Inv
<1>1. CASE MoveBaseGoal
  <2> PICK g \in Goals, same \in BOOLEAN, normal \in BOOLEAN, w \in Worlds :
        LET busy == srv.mb # "none"
            s == IF busy THEN preempt(srv) ELSE srv
            c == IF busy THEN preemptedCore(core, srv) ELSE core
        IN  Become(SetGoalStep(c, accept(s, "mb", "none"), g, same, normal, w, "mb"))
    BY <1>1 DEF MoveBaseGoal
  <2> DEFINE s == IF srv.mb # "none" THEN preempt(srv) ELSE srv
             c == IF srv.mb # "none" THEN preemptedCore(core, srv) ELSE core
             a == accept(s, "mb", "none")
  <2>1. Safe(c) /\ SrvOK(s) /\ s.tol = "none"
    BY <1>0, <1>1 DEF MoveBaseGoal, Active
  <2>2. Become(SetGoalStep(c, a, g, same, normal, w, "mb"))
    OBVIOUS
  <2> HIDE DEF s, c
  <2>3. SrvOK(a) /\ a.tol = "none"
    BY <2>1, AcceptResult
  <2> HIDE DEF a
  <2> QED BY <2>1, <2>2, <2>3, Inputs, SetGoalStepKeepsInv DEF Become
<1>2. CASE TolerantGoal
  <2> PICK g \in Goals, mode \in Tolerances \ {"none"}, same \in BOOLEAN,
           normal \in BOOLEAN, w \in Worlds :
        LET busy == srv.tol # "none"
            s == IF busy THEN preempt(srv) ELSE srv
            c == IF busy THEN preemptedCore(core, srv) ELSE core
        IN  Become(SetGoalStep(c, accept(s, "tol", mode), g, same, normal, w, "tol"))
    BY <1>2 DEF TolerantGoal
  <2> DEFINE s == IF srv.tol # "none" THEN preempt(srv) ELSE srv
             c == IF srv.tol # "none" THEN preemptedCore(core, srv) ELSE core
             a == accept(s, "tol", mode)
  <2>1. Safe(c) /\ SrvOK(s) /\ s.mb = "none"
    BY <1>0, <1>2 DEF TolerantGoal, Active
  <2>2. Become(SetGoalStep(c, a, g, same, normal, w, "tol"))
    OBVIOUS
  <2> HIDE DEF s, c
  <2>3. SrvOK(a) /\ a.mb = "none"
    BY <2>1, AcceptResult, Inputs
  <2> HIDE DEF a
  <2> QED BY <2>1, <2>2, <2>3, Inputs, SetGoalStepKeepsInv DEF Become
<1>3. CASE TopicGoal
  <2> PICK g \in Goals, same \in BOOLEAN, normal \in BOOLEAN, w \in Worlds :
        Become(SetGoalStep(core, srv, g, same, normal, w, "topic"))
    BY <1>3 DEF TopicGoal
  <2> QED BY <1>0, <1>3, Inputs, SetGoalStepKeepsInv DEF Become, TopicGoal, Active
<1> QED BY <1>1, <1>2, <1>3

\* A costmap update is applied to a core with the same goal, then planned with.
LEMMA UpdateKeepsInv ==
  ASSUME NEW c, Inv(c, srv), NEW o \in SUBSET Cells, NEW inRange \in BOOLEAN,
         ApplyMapUpdate(c, o, inRange), timer \in {"none", "armed"}
  PROVE  Inv(core', srv') /\ timer' \in {"none", "armed"}
<1> DEFINE t == updateGoalTolerance(c, srv)
<1>1. Stays(c, t)
  BY ToleranceStays DEF Inv
<1> HIDE DEF t
<1>2. CASE srv.trigger = "costmap"
  <2> PICK d \in Starts(t), w \in Worlds :
        Become(PlanStep(applyCostmapUpdate(d, inRange, o, w), srv, FALSE, w))
    BY <1>2 DEF ApplyMapUpdate, t
  <2>1. Stays(c, d)
    BY <1>1, InputsSafe DEF Starts, Stays
  <2>2. Inv(applyCostmapUpdate(d, inRange, o, w), srv)
    BY <2>1, MapsSafe, Inputs DEF Inv, Stays
  <2>3. Inv(core', srv')
    BY <2>2, PlanStepKeepsInv, Inputs DEF Become
  <2> QED BY <1>2, <2>3 DEF ApplyMapUpdate, ArmTimer
<1>3. CASE srv.trigger # "costmap"
  <2> PICK w \in Worlds : core' = applyCostmapUpdate(t, inRange, o, w)
    BY <1>3 DEF ApplyMapUpdate, t
  <2> QED BY <1>1, <1>3, MapsSafe, Inputs DEF Inv, Stays, ApplyMapUpdate
<1> QED BY <1>2, <1>3

\* The spin timer ends cancelled goals and then may plan.
LEMMA SpinKeepsInv ==
  ASSUME Inv(core, srv), costmapOld \in BOOLEAN, NEW due \in BOOLEAN, Spin(due)
  PROVE  Inv(core', srv')
<1> DEFINE s  == processCancelRequests(srv)
           c0 == IF Cancels(srv) THEN clearGoal(updateGoalTolerance(core, s)) ELSE core
<1>1. Inv(c0, s)
  BY CancelKeepsInv
<1> HIDE DEF s, c0
<1> PICK c1 \in IF c0.hasMap THEN Starts(c0) ELSE {c0}, w \in Worlds :
      LET arrives == c1.hasMap /\ c1.switchback /\ w.atSwitch
          c2 == IF arrives THEN checkSwitchbackArrival(c1, w) ELSE c1
      IN  IF due \/ arrives THEN Become(PlanStep(c2, s, costmapOld, w))
          ELSE core' = c2 /\ srv' = s
  BY DEF Spin, s, c0
<1>2. Inv(c1, s)
  BY <1>1, InputsSafe DEF Inv, Starts, Stays
<1>3. Inv(checkSwitchbackArrival(c1, w), s)
  BY <1>2, InputsSafe, Inputs DEF Inv, Stays
<1> QED BY <1>2, <1>3, PlanStepKeepsInv, Inputs DEF Become

\* Every callback keeps the invariant.
LEMMA NodeNextInv == NodeInv /\ [NodeNext]_vars => NodeInv'
<1> SUFFICES ASSUME NodeInv, [NodeNext]_vars PROVE NodeInv'
  OBVIOUS
<1> USE DEF NodeInv
<1>1. CASE MoveBaseGoal \/ TolerantGoal \/ TopicGoal
  BY <1>1, GoalsKeepInv DEF MoveBaseGoal, TolerantGoal, TopicGoal
<1>2. CASE CancelMoveBase \/ CancelTolerant
  BY <1>2 DEF CancelMoveBase, CancelTolerant, Inv, SrvOK, SrvType, Handles, Active
<1>3. CASE MapUpdate
  BY <1>3, UpdateKeepsInv, Inputs DEF MapUpdate
<1>4. CASE Map
  <2> PICK e \in Extents, o \in Obstacles, newer \in BOOLEAN, inRange \in BOOLEAN,
           w \in Worlds :
        LET c == setMap(updateGoalTolerance(core, srv), e, o, w)
        IN  IF retained /\ newer
            THEN /\ \E u \in Obstacles : ApplyMapUpdate(c, u, inRange)
                 /\ costmapOld' = (costmapOld /\ ~inRange)
            ELSE core' = c /\ UNCHANGED <<srv, timer, costmapOld>>
    BY <1>4 DEF Map
  <2> DEFINE c == setMap(updateGoalTolerance(core, srv), e, o, w)
  <2>1. Inv(c, srv)
    BY ToleranceStays, MapsSafe, Inputs DEF Inv, Stays
  <2> HIDE DEF c
  <2>2. Inv(core', srv') /\ timer' \in {"none", "armed"}
    BY <2>1, UpdateKeepsInv, Inputs DEF c
  <2> QED BY <1>4, <2>2 DEF Map
<1>5. CASE CostmapAges
  BY <1>5 DEF CostmapAges
<1>6. CASE SpinWaits \/ SpinPlans
  BY <1>6, SpinKeepsInv DEF SpinWaits, SpinPlans
<1>7. CASE SpinCancels
  BY <1>7, CancelKeepsInv DEF SpinCancels
<1>8. CASE NoMapUpdateTimer
  BY <1>8, PlanStepKeepsInv, Inputs DEF NoMapUpdateTimer, Become
<1>9. CASE TemporaryEscapeTrigger
  <2> DEFINE t == updateGoalTolerance(core, srv)
  <2>1. Stays(core, t)
    BY ToleranceStays DEF Inv
  <2>2. \E w \in Worlds : core' = triggerTemporaryEscape(t, w)
    BY <1>9 DEF TemporaryEscapeTrigger
  <2> HIDE DEF t
  <2>3. Stays(core, core')
    BY <2>1, <2>2, InputsSafe, Inputs DEF Stays
  <2> QED BY <1>9, <2>3 DEF TemporaryEscapeTrigger, Inv, Stays
<1>10. CASE UpdateParameters
  <2>1. PICK t \in PlanModes : srv' = [srv EXCEPT !.trigger = t]
    BY <1>10 DEF UpdateParameters
  <2>2. t \in Triggers
    BY NodeAssumption DEF NodeAssumption
  <2>3. SrvOK(srv') /\ (Active(srv') <=> Active(srv))
    BY <2>1, <2>2 DEF Inv, SrvOK, SrvType, Active
  <2> QED BY <1>10, <2>3, InputsSafe DEF UpdateParameters, Inv, Stays
<1>11. CASE UNCHANGED vars
  BY <1>11 DEF vars
<1> QED
  BY <1>1, <1>2, <1>3, <1>4, <1>5, <1>6, <1>7, <1>8, <1>9, <1>10, <1>11 DEF NodeNext

\* The invariant holds in every behaviour of the node.
THEOREM NodeSafe == NodeSpec => []NodeInv
BY NodeInitInv, NodeNextInv, PTL DEF NodeSpec

\* The core, the handles and the timers keep their types.
THEOREM NodeTypeCorrect == NodeSpec => []NodeTypeOK
<1>1. NodeInv => NodeTypeOK
  BY DEF NodeInv, Inv, Safe, SrvOK, NodeTypeOK
<1> QED BY <1>1, NodeSafe, PTL

\* At most one action runs, and the planner pursues its goal: no callback drops
\* a goal without ending the action it belongs to.
THEOREM ActionsHaveGoals == NodeSpec => []ActionHasGoal
<1>1. NodeInv => ActionHasGoal
  BY DEF NodeInv, Inv, SrvOK, Active, ActionHasGoal
<1> QED BY <1>1, NodeSafe, PTL

-----------------------------------------------------------------------------
(* How the handles of the action servers end *)

\* A callback that may end the goals the servers hold, with one of texts; it
\* leaves an idle server, and the record of the cancel requests, alone.
Ends(s, t, texts) ==
  /\ t \in SrvType
  /\ \/ t.mb = s.mb /\ t.mbResult = s.mbResult
     \/ s.mb # "none" /\ t.mb = "none" /\ t.mbResult \in texts
  /\ \/ t.tol = s.tol /\ t.tolResult = s.tolResult
     \/ s.tol # "none" /\ t.tol = "none" /\ t.tolResult \in texts
  /\ t.cancelMb = s.cancelMb /\ t.cancelTol = s.cancelTol /\ t.trigger = s.trigger

\* Ending the goals of one server, or of both.
LEMMA FinishEnds ==
  ASSUME NEW s \in SrvType, NEW text \in Results
  PROVE  /\ Ends(s, finishMoveBase(s, text), {text})
         /\ Ends(s, finishTolerant(s, text), {text})
         /\ Ends(s, finishBoth(s, text), {text})
         /\ finishMoveBase(s, text).mb = "none" /\ finishTolerant(s, text).tol = "none"
         /\ finishTolerant(s, text).mb = s.mb /\ finishTolerant(s, text).mbResult = s.mbResult
         /\ finishBoth(s, text).mb = "none" /\ finishBoth(s, text).tol = "none"
<1>1. ASSUME NEW x \in SrvType
      PROVE  /\ Ends(x, finishTolerant(x, text), {text})
             /\ finishTolerant(x, text).tol = "none"
             /\ finishTolerant(x, text).mb = x.mb
             /\ finishTolerant(x, text).mbResult = x.mbResult
  <2> DEFINE y == [x EXCEPT !.tol = "none", !.tolResult = text, !.mode = "none"]
  <2>1. y \in SrvType
    BY DEF SrvType, Handles, Tols
  <2>2. /\ y.tol = "none" /\ y.tolResult = text
        /\ y.mb = x.mb /\ y.mbResult = x.mbResult
        /\ y.cancelMb = x.cancelMb /\ y.cancelTol = x.cancelTol /\ y.trigger = x.trigger
    BY DEF SrvType
  <2> HIDE DEF SrvType, y
  <2> QED BY <2>1, <2>2 DEF Ends, finishTolerant, y
<1>2. Ends(s, finishMoveBase(s, text), {text}) /\ finishMoveBase(s, text).mb = "none"
  BY DEF Ends, SrvType, finishMoveBase, Handles
<1> QED BY <1>1, <1>2 DEF finishBoth, Ends

\* A planning cycle without a current costmap ends no goal.
LEMMA PlanWaits ==
  ASSUME NEW c, NEW s, NEW old, NEW w, ~hasCostmap(old)
  PROVE  PlanStep(c, s, old, w).s = s
<1> DEFINE p == preparePlanCycle(updateGoalTolerance(c, s), old, w)
<1> HIDE DEF p
<1> QED BY DEF PlanStep, PlanPrepared, CycleRuns, p

\* A planning cycle ends goals as reached, passed or given up.
LEMMA PlanEnds ==
  ASSUME NEW c, NEW s \in SrvType, NEW old, NEW w
  PROVE  Ends(s, PlanStep(c, s, old, w).s, {"reached", "passed", "in rock"})
<1> DEFINE texts == {"reached", "passed", "in rock"}
           p == preparePlanCycle(updateGoalTolerance(c, s), old, w)
           result == planCycleResult(p, w)
<1>1. /\ Ends(s, finishBoth(s, "reached"), texts) /\ Ends(s, finishBoth(s, "in rock"), texts)
      /\ Ends(s, finishTolerant(s, "passed"), texts) /\ Ends(s, s, texts)
  <2>1. \A text \in texts : text \in Results
    BY DEF Results, SucceededTexts, AbortedTexts
  <2>2. \A text \in texts : \A t : Ends(s, t, {text}) => Ends(s, t, texts)
    BY DEF Ends
  <2>3. Ends(s, s, texts)
    BY DEF Ends
  <2>4. \A text \in texts : Ends(s, finishBoth(s, text), {text})
                            /\ Ends(s, finishTolerant(s, text), {text})
    BY <2>1, FinishEnds
  <2> QED BY <2>2, <2>3, <2>4
<1>2. result \in {"GOAL_REACHED", "ABORT_MAX_RETRY", "NONE"}
  BY DEF planCycleResult
<1>3. PlanStep(c, s, old, w).s \in
        {s, finishBoth(s, "reached"), finishBoth(s, "in rock"), finishTolerant(s, "passed")}
  <2> HIDE DEF p, result
  <2>1. CASE ~CycleRuns(p, old)
    BY <2>1 DEF PlanStep, PlanPrepared, p
  <2>2. CASE CycleRuns(p, old) /\ result = "GOAL_REACHED"
    BY <2>2 DEF PlanStep, PlanPrepared, p, result
  <2>3. CASE CycleRuns(p, old) /\ result = "ABORT_MAX_RETRY"
    BY <2>3 DEF PlanStep, PlanPrepared, p, result
  <2>4. CASE CycleRuns(p, old) /\ result = "NONE"
    BY <2>4 DEF PlanStep, PlanPrepared, p, result
  <2> QED BY <1>2, <2>1, <2>2, <2>3, <2>4
<1> QED BY <1>1, <1>3

\* The requests that meet a canceling goal end it as canceled, the others leave
\* the handles as they are.
LEMMA CancelEndsCanceling ==
  ASSUME NEW s \in SrvType
  PROVE  LET q == processCancelRequests(s)
         IN  /\ q \in SrvType /\ q.trigger = s.trigger
             /\ IF s.cancelMb /\ s.mb = "canceling"
                THEN q.mb = "none" /\ q.mbResult = "canceled"
                ELSE q.mb = s.mb /\ q.mbResult = s.mbResult
             /\ IF s.cancelTol /\ s.tol = "canceling"
                THEN q.tol = "none" /\ q.tolResult = "canceled"
                ELSE q.tol = s.tol /\ q.tolResult = s.tolResult
<1> DEFINE s1 == IF s.cancelMb /\ s.mb = "canceling"
                 THEN finishMoveBase(s, "canceled") ELSE s
           s2 == IF s.cancelTol /\ s.tol = "canceling"
                 THEN finishTolerant(s1, "canceled") ELSE s1
<1>1. /\ s1 \in SrvType /\ s1.trigger = s.trigger
      /\ s1.tol = s.tol /\ s1.tolResult = s.tolResult
      /\ IF s.cancelMb /\ s.mb = "canceling"
         THEN s1.mb = "none" /\ s1.mbResult = "canceled"
         ELSE s1.mb = s.mb /\ s1.mbResult = s.mbResult
  BY DEF SrvType, finishMoveBase, Handles, Results, CanceledTexts
<1> HIDE DEF s1
<1>2. /\ s2 \in SrvType /\ s2.trigger = s1.trigger
      /\ s2.mb = s1.mb /\ s2.mbResult = s1.mbResult
      /\ IF s.cancelTol /\ s.tol = "canceling"
         THEN s2.tol = "none" /\ s2.tolResult = "canceled"
         ELSE s2.tol = s1.tol /\ s2.tolResult = s1.tolResult
  <2>1. /\ Ends(s1, finishTolerant(s1, "canceled"), {"canceled"})
        /\ finishTolerant(s1, "canceled").tol = "none"
        /\ finishTolerant(s1, "canceled").mb = s1.mb
        /\ finishTolerant(s1, "canceled").mbResult = s1.mbResult
    BY <1>1, FinishEnds DEF Results, CanceledTexts
  <2>2. s.tol = "canceling" => s1.tol # "none"
    BY <1>1
  <2>3. s1.tol # "none" => finishTolerant(s1, "canceled").tolResult = "canceled"
    BY <1>1 DEF finishTolerant, SrvType
  <2> HIDE DEF SrvType
  <2> QED BY <1>1, <2>1, <2>2, <2>3 DEF Ends
<1> HIDE DEF s2
<1>3. processCancelRequests(s) = [s2 EXCEPT !.cancelMb = @ /\ s.mb = "executing",
                                            !.cancelTol = @ /\ s.tol = "executing"]
  BY DEF processCancelRequests, s1, s2
<1> QED BY <1>1, <1>2, <1>3 DEF SrvType

\* A cancel request whose goal is canceling is on record until it is handled.
Recorded(s) == /\ s.mb = "canceling" => s.cancelMb
               /\ s.tol = "canceling" => s.cancelTol

\* What one callback may do to a handle: the steps of ActionGoal.
HandleStep(h, r, h2, r2) ==
  \/ h2 = h /\ r2 \in {r, "none"}
  \/ h2 = "executing" /\ r2 = "none"
  \/ h = "executing" /\ h2 = "canceling" /\ r2 = r
  \/ h # "none" /\ h2 = "none" /\ r2 \in {"reached", "passed", "in rock", "preempted"}
  \/ h2 = "none" /\ r2 \in {"cleared", "invalid"}
  \/ h = "canceling" /\ h2 = "none" /\ r2 = "canceled"

Legal(s, t) == /\ HandleStep(s.mb, s.mbResult, t.mb, t.mbResult)
               /\ HandleStep(s.tol, s.tolResult, t.tol, t.tolResult)
               /\ Recorded(t)

\* In the mode in which the timer plans, a canceling goal is not ended otherwise.
TimerEnds(s, t) ==
  s.trigger = "timer" /\ s.mb = "canceling" /\ t.mb = "none" =>
    t.mbResult \in {"canceled", "invalid", "cleared"}

\* Goals that end in a planning cycle are ended as ActionGoal allows.
LEMMA EndsLegal ==
  ASSUME NEW s \in SrvType, NEW t, Recorded(s), Ends(s, t, {"reached", "passed", "in rock"})
  PROVE  Legal(s, t)
BY DEF Ends, Legal, HandleStep, Recorded

\* The spin timer: requests first, then the planning cycle.
LEMMA CancelLegal ==
  ASSUME NEW s \in SrvType, Recorded(s), NEW t,
         \/ t = processCancelRequests(s)
         \/ Ends(processCancelRequests(s), t, {"reached", "passed", "in rock"})
  PROVE  Legal(s, t) /\ TimerEnds(s, t)
<1> DEFINE q == processCancelRequests(s)
<1>1. /\ q \in SrvType
      /\ IF s.mb = "canceling"
         THEN q.mb = "none" /\ q.mbResult = "canceled"
         ELSE q.mb = s.mb /\ q.mbResult = s.mbResult
      /\ IF s.tol = "canceling"
         THEN q.tol = "none" /\ q.tolResult = "canceled"
         ELSE q.tol = s.tol /\ q.tolResult = s.tolResult
  BY CancelEndsCanceling DEF Recorded
<1> HIDE DEF q, SrvType
<1>2. t = q \/ Ends(q, t, {"reached", "passed", "in rock"})
  BY DEF q
<1> QED BY <1>1, <1>2 DEF Ends, Legal, HandleStep, Recorded, TimerEnds

\* setGoal for a goal that a server has just accepted, or for the topic: s is
\* the servers before the goal came and a those that setGoal finds.
LEMMA SetGoalLegal ==
  ASSUME NEW c, NEW s \in SrvType, NEW a \in SrvType, NEW g, NEW same \in BOOLEAN,
         NEW normal \in BOOLEAN, NEW w, NEW server \in {"mb", "tol", "topic"},
         Recorded(s), Recorded(a),
         server = "mb" => s.tol = "none" /\ a.tol = "none" /\ a.tolResult = "none"
                          /\ a.mb = "executing" /\ a.mbResult = "none",
         server = "tol" => s.mb = "none" /\ a.mb = "none" /\ a.mbResult = "none"
                           /\ a.tol = "executing" /\ a.tolResult = "none",
         server = "topic" => a = s /\ ~Active(s)
  PROVE  LET t == SetGoalStep(c, a, g, same, normal, w, server).s
         IN  Legal(s, t) /\ TimerEnds(s, t)
<1> DEFINE x == updateGoalTolerance(c, a)
           r == setGoalResult(x, g, same, normal)
           t == SetGoalStep(c, a, g, same, normal, w, server).s
           refused == CASE server = "mb" -> finishMoveBase(a, "invalid")
                        [] server = "tol" -> finishTolerant(a, "invalid")
                        [] server = "topic" -> a
<1>1. r \in {"ACCEPTED", "CLEARED", "REJECTED"}
  BY DEF setGoalResult
<1>2. t = CASE r = "ACCEPTED" -> a
            [] r = "CLEARED" -> finishBoth(a, "cleared")
            [] r = "REJECTED" -> refused
  <2> HIDE DEF r
  <2>1. CASE r = "ACCEPTED"
    BY <2>1 DEF SetGoalStep, r
  <2>2. CASE r = "CLEARED"
    BY <2>2 DEF SetGoalStep, r
  <2>3. CASE r = "REJECTED"
    BY <2>3 DEF SetGoalStep, r
  <2> QED BY <1>1, <2>1, <2>2, <2>3
<1>3. "cleared" \in Results /\ "invalid" \in Results
  BY DEF Results, SucceededTexts, AbortedTexts
<1>4. Ends(a, finishBoth(a, "cleared"), {"cleared"})
  BY <1>3, FinishEnds
<1>5. Ends(a, refused, {"invalid"}) /\ (server = "mb" => refused.mb = "none")
      /\ (server = "tol" => refused.tol = "none")
  <2>1. Ends(a, a, {"invalid"})
    BY DEF Ends
  <2> QED BY <1>3, <2>1, FinishEnds
<1>6. /\ finishBoth(a, "cleared").mb = "none"
      /\ finishBoth(a, "cleared").tol = "none"
  BY <1>3, FinishEnds
<1> HIDE DEF t, r, refused, SrvType
<1>7. t = a \/ t = finishBoth(a, "cleared") \/ t = refused
  BY <1>1, <1>2
<1>8. Legal(s, a) /\ TimerEnds(s, a)
  BY DEF Legal, TimerEnds, HandleStep, Active
<1>9. Legal(s, finishBoth(a, "cleared")) /\ TimerEnds(s, finishBoth(a, "cleared"))
  BY <1>4, <1>6 DEF Legal, TimerEnds, HandleStep, Active, Ends, Recorded
<1>10. Legal(s, refused) /\ TimerEnds(s, refused)
  BY <1>5 DEF Legal, TimerEnds, HandleStep, Active, Ends, Recorded
<1> QED BY <1>7, <1>8, <1>9, <1>10 DEF t

\* Every request on record is for a goal that is canceling, and the watchdog
\* timer only runs where there is a watchdog.
RequestsInv == Recorded(srv) /\ (timer = "armed" => Watchdog)

\* Goals from clients.
LEMMA GoalsLegal ==
  ASSUME NodeInv, RequestsInv, MoveBaseGoal \/ TolerantGoal \/ TopicGoal
  PROVE  Legal(srv, srv') /\ TimerEnds(srv, srv')
<1>0. srv \in SrvType /\ SrvOK(srv) /\ Recorded(srv)
  BY DEF NodeInv, Inv, SrvOK, RequestsInv
<1>1. SrvOK(preempt(srv)) /\ ~Active(preempt(srv))
  BY PreemptResult DEF NodeInv, Inv
<1>2. ASSUME NEW s, SrvOK(s), s.mb = "none", s.tol = "none"
      PROVE  /\ LET a == accept(s, "mb", "none")
                IN  /\ a \in SrvType /\ a.tol = "none" /\ a.tolResult = "none"
                    /\ a.mb = "executing" /\ a.mbResult = "none" /\ Recorded(a)
             /\ \A mode \in Tols \ {"none"} :
                  LET a == accept(s, "tol", mode)
                  IN  /\ a \in SrvType /\ a.mb = "none" /\ a.mbResult = "none"
                      /\ a.tol = "executing" /\ a.tolResult = "none" /\ Recorded(a)
  <2>1. s \in SrvType /\ "executing" \in Handles /\ "none" \in Results /\ "none" \in Tols
    BY <1>2 DEF SrvOK, Handles, Results, Tols
  <2>2. LET a == accept(s, "mb", "none")
        IN  /\ a \in SrvType /\ a.tol = s.tol /\ a.tolResult = "none"
            /\ a.mb = "executing" /\ a.mbResult = "none"
    BY <2>1 DEF SrvType, accept
  <2>3. ASSUME NEW mode \in Tols \ {"none"}
        PROVE  LET a == accept(s, "tol", mode)
               IN  /\ a \in SrvType /\ a.mb = s.mb /\ a.mbResult = "none"
                   /\ a.tol = "executing" /\ a.tolResult = "none"
    BY <2>1 DEF SrvType, accept
  <2> QED BY <1>2, <2>2, <2>3 DEF Recorded
<1>3. CASE MoveBaseGoal
  <2> PICK g \in Goals, same \in BOOLEAN, normal \in BOOLEAN, w \in Worlds :
        LET busy == srv.mb # "none"
            s == IF busy THEN preempt(srv) ELSE srv
            c == IF busy THEN preemptedCore(core, srv) ELSE core
        IN  Become(SetGoalStep(c, accept(s, "mb", "none"), g, same, normal, w, "mb"))
    BY <1>3 DEF MoveBaseGoal
  <2> DEFINE s == IF srv.mb # "none" THEN preempt(srv) ELSE srv
             c == IF srv.mb # "none" THEN preemptedCore(core, srv) ELSE core
             a == accept(s, "mb", "none")
  <2>1. SrvOK(s) /\ s.tol = "none" /\ s.mb = "none" /\ srv.tol = "none"
    BY <1>0, <1>1, <1>3 DEF MoveBaseGoal, Active
  <2>2. srv' = SetGoalStep(c, a, g, same, normal, w, "mb").s
    BY DEF Become
  <2> HIDE DEF s, c
  <2>3. /\ a \in SrvType /\ a.tol = "none" /\ a.tolResult = "none"
        /\ a.mb = "executing" /\ a.mbResult = "none" /\ Recorded(a)
    BY <1>2, <2>1
  <2> HIDE DEF a
  <2> QED BY <1>0, <2>1, <2>2, <2>3, SetGoalLegal
<1>4. CASE TolerantGoal
  <2> PICK g \in Goals, mode \in Tolerances \ {"none"}, same \in BOOLEAN,
           normal \in BOOLEAN, w \in Worlds :
        LET busy == srv.tol # "none"
            s == IF busy THEN preempt(srv) ELSE srv
            c == IF busy THEN preemptedCore(core, srv) ELSE core
        IN  Become(SetGoalStep(c, accept(s, "tol", mode), g, same, normal, w, "tol"))
    BY <1>4 DEF TolerantGoal
  <2> DEFINE s == IF srv.tol # "none" THEN preempt(srv) ELSE srv
             c == IF srv.tol # "none" THEN preemptedCore(core, srv) ELSE core
             a == accept(s, "tol", mode)
  <2>1. SrvOK(s) /\ s.mb = "none" /\ srv.mb = "none" /\ s.tol = "none"
    BY <1>0, <1>1, <1>4 DEF TolerantGoal, Active
  <2>2. srv' = SetGoalStep(c, a, g, same, normal, w, "tol").s
    BY DEF Become
  <2> HIDE DEF s, c
  <2>3. /\ a \in SrvType /\ a.mb = "none" /\ a.mbResult = "none"
        /\ a.tol = "executing" /\ a.tolResult = "none" /\ Recorded(a)
    BY <1>2, <2>1, Inputs
  <2> HIDE DEF a
  <2> QED BY <1>0, <2>1, <2>2, <2>3, SetGoalLegal
<1>5. CASE TopicGoal
  <2> PICK g \in Goals, same \in BOOLEAN, normal \in BOOLEAN, w \in Worlds :
        Become(SetGoalStep(core, srv, g, same, normal, w, "topic"))
    BY <1>5 DEF TopicGoal
  <2> QED BY <1>0, <1>5, SetGoalLegal DEF Become, TopicGoal, Active
<1> QED BY <1>3, <1>4, <1>5

\* A handle that is left alone is used legally.
LEMMA SameLegal ==
  ASSUME Recorded(srv), srv' = srv
  PROVE  Legal(srv, srv') /\ TimerEnds(srv, srv')
BY DEF Legal, TimerEnds, HandleStep

\* A planning cycle, outside the mode in which the timer plans.
LEMMA PlanLegal ==
  ASSUME NodeInv, RequestsInv, NEW c, NEW old, NEW w,
         srv' = PlanStep(c, srv, old, w).s
  PROVE  /\ Legal(srv, srv')
         /\ srv.trigger # "timer" \/ ~hasCostmap(old) => TimerEnds(srv, srv')
<1>1. srv \in SrvType /\ Recorded(srv)
  BY DEF NodeInv, Inv, SrvOK, RequestsInv
<1> DEFINE t == PlanStep(c, srv, old, w).s
<1>2. Ends(srv, t, {"reached", "passed", "in rock"})
  BY <1>1, PlanEnds
<1>3. ASSUME ~hasCostmap(old) PROVE t = srv
  BY <1>3, PlanWaits
<1> HIDE DEF t
<1>4. srv' = t
  BY DEF t
<1> QED BY <1>1, <1>2, <1>3, <1>4, EndsLegal, SameLegal DEF TimerEnds

\* Every callback uses the handles legally and keeps the record of requests.
LEMMA NodeStepLegal ==
  ASSUME NodeInv, RequestsInv, [NodeNext]_vars
  PROVE  Legal(srv, srv') /\ TimerEnds(srv, srv') /\ RequestsInv'
<1>0. srv \in SrvType /\ Recorded(srv) /\ (timer = "armed" => Watchdog)
  BY DEF NodeInv, Inv, SrvOK, RequestsInv
<1>1. SUFFICES Legal(srv, srv') /\ TimerEnds(srv, srv') /\ (timer' = "armed" => Watchdog)
  BY DEF RequestsInv, Legal
<1>2. CASE MoveBaseGoal \/ TolerantGoal \/ TopicGoal
  BY <1>0, <1>2, GoalsLegal DEF MoveBaseGoal, TolerantGoal, TopicGoal
<1>3. CASE CancelMoveBase
  <2>1. /\ srv'.mb = "canceling" /\ srv'.cancelMb /\ srv'.mbResult = srv.mbResult
        /\ srv'.tol = srv.tol /\ srv'.tolResult = srv.tolResult
        /\ srv'.cancelTol = srv.cancelTol
    BY <1>0, <1>3 DEF CancelMoveBase, SrvType
  <2> QED BY <1>0, <1>3, <2>1 DEF CancelMoveBase, Legal, TimerEnds, HandleStep, Recorded
<1>4. CASE CancelTolerant
  <2>1. /\ srv'.tol = "canceling" /\ srv'.cancelTol /\ srv'.tolResult = srv.tolResult
        /\ srv'.mb = srv.mb /\ srv'.mbResult = srv.mbResult
        /\ srv'.cancelMb = srv.cancelMb
    BY <1>0, <1>4 DEF CancelTolerant, SrvType
  <2> QED BY <1>0, <1>4, <2>1 DEF CancelTolerant, Legal, TimerEnds, HandleStep, Recorded
<1>5. ASSUME NEW c, NEW o, NEW inRange, ApplyMapUpdate(c, o, inRange)
      PROVE  Legal(srv, srv') /\ TimerEnds(srv, srv') /\ (timer' = "armed" => Watchdog)
  <2>1. CASE srv.trigger = "costmap"
    <3>1. \E x, w : srv' = PlanStep(x, srv, FALSE, w).s
      BY <1>5, <2>1 DEF ApplyMapUpdate, Become
    <3> QED BY <1>0, <1>5, <2>1, <3>1, PlanLegal DEF ApplyMapUpdate, ArmTimer
  <2>2. CASE srv.trigger # "costmap"
    BY <1>0, <1>5, <2>2, SameLegal DEF ApplyMapUpdate
  <2> QED BY <2>1, <2>2
<1>6. CASE MapUpdate
  BY <1>5, <1>6 DEF MapUpdate
<1>7. CASE Map
  <2>1. \/ \E c, u, inRange : ApplyMapUpdate(c, u, inRange)
        \/ UNCHANGED <<srv, timer>>
    BY <1>7 DEF Map
  <2> QED BY <1>0, <1>5, <2>1, SameLegal
<1>8. CASE SpinWaits \/ SpinPlans
  <2>1. \E due \in BOOLEAN : Spin(due)
    BY <1>8 DEF SpinWaits, SpinPlans
  <2>2. \/ srv' = processCancelRequests(srv)
        \/ \E c, w : srv' = PlanStep(c, processCancelRequests(srv), costmapOld, w).s
    BY <2>1 DEF Spin, Become
  <2>3. processCancelRequests(srv) \in SrvType
    BY <1>0, CancelEndsCanceling
  <2>4. \/ srv' = processCancelRequests(srv)
        \/ Ends(processCancelRequests(srv), srv', {"reached", "passed", "in rock"})
    BY <2>2, <2>3, PlanEnds
  <2> QED BY <1>0, <1>8, <2>4, CancelLegal DEF SpinWaits, SpinPlans
<1>9. CASE SpinCancels
  BY <1>0, <1>9, CancelLegal DEF SpinCancels
<1>10. CASE NoMapUpdateTimer
  <2>1. \E w : srv' = PlanStep(core, srv, costmapOld, w).s
    BY <1>10 DEF NoMapUpdateTimer, Become
  <2>2. ~hasCostmap(costmapOld)
    BY <1>0, <1>10 DEF NoMapUpdateTimer, hasCostmap
  <2> QED BY <1>0, <1>10, <2>1, <2>2, PlanLegal DEF NoMapUpdateTimer
<1>11. CASE UpdateParameters
  <2>1. /\ srv'.mb = srv.mb /\ srv'.mbResult = srv.mbResult
        /\ srv'.tol = srv.tol /\ srv'.tolResult = srv.tolResult
        /\ srv'.cancelMb = srv.cancelMb /\ srv'.cancelTol = srv.cancelTol
    BY <1>0, <1>11 DEF UpdateParameters, SrvType
  <2> QED BY <1>0, <1>11, <2>1 DEF UpdateParameters, Legal, TimerEnds, HandleStep, Recorded
<1>12. CASE CostmapAges \/ TemporaryEscapeTrigger \/ UNCHANGED vars
  BY <1>0, <1>12, SameLegal DEF CostmapAges, TemporaryEscapeTrigger, vars
<1> QED
  BY <1>2, <1>3, <1>4, <1>6, <1>7, <1>8, <1>9, <1>10, <1>11, <1>12 DEF NodeNext

\* No request is on record at first.
LEMMA NodeInitRequests == NodeInit => RequestsInv
BY DEF NodeInit, RequestsInv, Recorded

\* A legal callback is a step of ActionGoal for either handle.
LEMMA LegalMaps ==
  ASSUME Legal(srv, srv')
  PROVE  /\ [MoveBaseHandle!Next]_(MoveBaseHandle!vars)
         /\ [TolerantHandle!Next]_(TolerantHandle!vars)
<1>1. [MoveBaseHandle!Next]_(MoveBaseHandle!vars)
  BY DEF Legal, HandleStep, MoveBaseHandle!Next, MoveBaseHandle!vars,
         MoveBaseHandle!Accept, MoveBaseHandle!Cancel, MoveBaseHandle!Succeed,
         MoveBaseHandle!Abort, MoveBaseHandle!Forget, MoveBaseHandle!Refuse,
         MoveBaseHandle!TerminateCanceled, CanceledTexts
<1>2. [TolerantHandle!Next]_(TolerantHandle!vars)
  BY DEF Legal, HandleStep, TolerantHandle!Next, TolerantHandle!vars,
         TolerantHandle!Accept, TolerantHandle!Cancel, TolerantHandle!Succeed,
         TolerantHandle!Abort, TolerantHandle!Forget, TolerantHandle!Refuse,
         TolerantHandle!TerminateCanceled, CanceledTexts
<1> QED BY <1>1, <1>2

\* Both goal handles are used as rclcpp_action allows, whatever the order of
\* goals, cancel requests, costmaps and timers.
THEOREM HandlesAreLegal == NodeSpec => HandlesUsedLegally
<1>1. NodeInit => MoveBaseHandle!Init /\ TolerantHandle!Init
  BY DEF NodeInit, MoveBaseHandle!Init, TolerantHandle!Init
<1>2. NodeInv /\ RequestsInv /\ [NodeNext]_vars
        => /\ [MoveBaseHandle!Next]_(MoveBaseHandle!vars)
           /\ [TolerantHandle!Next]_(TolerantHandle!vars)
           /\ RequestsInv'
  BY NodeStepLegal, LegalMaps
<1> QED
  BY <1>1, <1>2, NodeSafe, NodeInitRequests, PTL
  DEF NodeSpec, HandlesUsedLegally, MoveBaseHandle!Spec, TolerantHandle!Spec

\* While the spin timer plans, a goal whose cancellation was accepted ends as
\* canceled, or with the goal that replaces it: never as reached or aborted.
THEOREM TimerCancelsFirst == NodeSpec => TimerCancels
<1>1. NodeInv /\ RequestsInv /\ [NodeNext]_vars
        => RequestsInv' /\ TimerEnds(srv, srv')
  BY NodeStepLegal
<1>2. TimerEnds(srv, srv') =>
        (srv.trigger = "timer" /\ srv.mb = "canceling" /\ srv'.mb = "none" /\ core.hasGoal
           => srv'.mbResult \in {"canceled", "invalid", "cleared"})
  BY DEF TimerEnds
<1> QED BY <1>1, <1>2, NodeSafe, NodeInitRequests, PTL DEF NodeSpec, TimerCancels

-----------------------------------------------------------------------------
(* The ROS 1 node: a turn of its main thread is a lookup of the pose that a  *)
(* planning cycle follows                                                   *)

\* A turn of waitUntil, with or without the planning after it.
LEMMA TurnKeepsInv ==
  ASSUME NodeInv, NEW due \in BOOLEAN, Turn(due)
  PROVE  NodeInv'
<1> PICK c \in IF core.hasMap THEN Starts(core) ELSE {core}, w \in Worlds :
      LET arrives == c.hasMap /\ c.switchback /\ w.atSwitch
          d == IF arrives THEN checkSwitchbackArrival(c, w) ELSE c
      IN  IF due \/ arrives
          THEN /\ Become(PlanStep(d, srv, costmapOld, w))
               /\ waiting' = (srv.trigger = "timer")
          ELSE core' = d /\ UNCHANGED <<srv, waiting>>
  BY DEF Turn
<1>1. Inv(c, srv)
  BY InputsSafe DEF NodeInv, Inv, Starts, Stays
<1>2. Inv(checkSwitchbackArrival(c, w), srv)
  BY <1>1, InputsSafe, Inputs DEF Inv, Stays
<1>3. costmapOld \in BOOLEAN /\ UNCHANGED <<costmapOld, retained, timer>>
  BY DEF NodeInv, Turn
<1>4. Inv(core', srv')
  BY <1>1, <1>2, <1>3, PlanStepKeepsInv, Inputs DEF Become
<1> QED BY <1>3, <1>4 DEF NodeInv

\* Every callback and every turn of the main thread keeps the invariant.
LEMMA Ros1NextInv == NodeInv /\ [Ros1Next]_ros1 => NodeInv'
<1> SUFFICES ASSUME NodeInv, [Ros1Next]_ros1 PROVE NodeInv'
  OBVIOUS
<1>1. CASE [NodeNext]_vars
  BY <1>1, NodeNextInv
<1>2. CASE cbPreempt
  <2>1. Inv(preemptedCore(core, srv), preempt(srv))
    BY PreemptResult DEF NodeInv
  <2> QED BY <1>2, <2>1 DEF cbPreempt, NodeInv
<1>3. CASE waitUntil \/ planPathWhenDue
  BY <1>3, TurnKeepsInv DEF waitUntil, planPathWhenDue
<1>4. CASE cbAction \/ cbTolerantAction \/ cbGoal \/ cbMapUpdate \/ cbMap
           \/ cbTemporaryEscape \/ cbParameter \/ cbNoMapUpdateTimer
           \/ CostmapWaits
  <2>1. NodeNext
    BY <1>4 DEF cbAction, cbTolerantAction, cbGoal, cbMapUpdate, cbMap, cbTemporaryEscape,
                cbParameter, cbNoMapUpdateTimer, CostmapWaits, NodeNext
  <2> QED BY <1>1, <2>1
<1>5. CASE spin
  BY <1>1, <1>5 DEF spin
<1>6. CASE UNCHANGED ros1
  BY <1>1, <1>6 DEF ros1
<1> QED BY <1>2, <1>3, <1>4, <1>5, <1>6 DEF Ros1Next

\* Also on ROS 1 at most one action runs and the planner pursues its goal, with
\* cancel requests that end goals at once in any place between the others.
THEOREM Ros1ActionsHaveGoals == Ros1Spec => []ActionHasGoal
<1>1. Ros1Init => NodeInv
  BY NodeInitInv DEF Ros1Init
<1>2. NodeInv => ActionHasGoal
  BY DEF NodeInv, Inv, SrvOK, Active, ActionHasGoal
<1> QED BY <1>1, <1>2, Ros1NextInv, PTL DEF Ros1Spec

\* The ROS 1 callbacks, too, use the handles as ActionGoal allows.
LEMMA Ros1StepLegal ==
  ASSUME NodeInv, RequestsInv, [Ros1Next]_ros1
  PROVE  Legal(srv, srv') /\ RequestsInv'
<1>0. srv \in SrvType /\ Recorded(srv) /\ (timer = "armed" => Watchdog)
  BY DEF NodeInv, Inv, SrvOK, RequestsInv
<1>1. CASE [NodeNext]_vars
  BY <1>1, NodeStepLegal
<1>2. CASE cbPreempt
  <2>1. Ends(srv, srv', {"preempted"})
    BY <1>0, <1>2, FinishEnds DEF cbPreempt, preempt, Results, AbortedTexts
  <2>2. Legal(srv, srv')
    BY <1>0, <2>1 DEF Ends, Legal, HandleStep, Recorded
  <2> QED BY <1>0, <1>2, <2>2 DEF cbPreempt, RequestsInv, Legal
<1>3. CASE waitUntil \/ planPathWhenDue
  <2>1. /\ \/ srv' = srv
           \/ \E c, w : srv' = PlanStep(c, srv, costmapOld, w).s
        /\ timer' = timer
    BY <1>3 DEF waitUntil, planPathWhenDue, Turn, Become
  <2>2. Legal(srv, srv')
    BY <1>0, <2>1, PlanLegal, SameLegal
  <2> QED BY <1>0, <2>1, <2>2 DEF RequestsInv, Legal
<1>4. CASE cbAction \/ cbTolerantAction \/ cbGoal \/ cbMapUpdate \/ cbMap
           \/ cbTemporaryEscape \/ cbParameter \/ cbNoMapUpdateTimer
           \/ CostmapWaits
  <2>1. NodeNext
    BY <1>4 DEF cbAction, cbTolerantAction, cbGoal, cbMapUpdate, cbMap, cbTemporaryEscape,
                cbParameter, cbNoMapUpdateTimer, CostmapWaits, NodeNext
  <2> QED BY <1>1, <2>1
<1>5. CASE spin
  BY <1>1, <1>5 DEF spin
<1>6. CASE UNCHANGED ros1
  BY <1>1, <1>6 DEF ros1
<1> QED BY <1>2, <1>3, <1>4, <1>5, <1>6 DEF Ros1Next

\* On ROS 1, where a goal is set to preempted in the callback of the request,
\* the handles go through the same life.
THEOREM Ros1HandlesAreLegal == Ros1Spec => HandlesUsedLegally
<1>1. Ros1Init => NodeInv /\ RequestsInv
  BY NodeInitInv, NodeInitRequests DEF Ros1Init
<1>2. Ros1Init => MoveBaseHandle!Init /\ TolerantHandle!Init
  BY DEF Ros1Init, NodeInit, MoveBaseHandle!Init, TolerantHandle!Init
<1>3. NodeInv /\ RequestsInv /\ [Ros1Next]_ros1
        => /\ [MoveBaseHandle!Next]_(MoveBaseHandle!vars)
           /\ [TolerantHandle!Next]_(TolerantHandle!vars)
           /\ NodeInv' /\ RequestsInv'
  BY Ros1StepLegal, Ros1NextInv, LegalMaps
<1> QED
  BY <1>1, <1>2, <1>3, PTL
  DEF Ros1Spec, HandlesUsedLegally, MoveBaseHandle!Spec, TolerantHandle!Spec
=============================================================================

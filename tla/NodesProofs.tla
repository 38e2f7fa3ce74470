------------------------------ MODULE NodesProofs ------------------------------
(***************************************************************************)
(* Nodes of their own.  Patrol and the path files, for any number and       *)
(* length of paths, any line of poses and any number of markers.            *)
(*                                                                          *)
(* That patrol sends one goal at a time is not inductive: the timer trusts  *)
(* state_, so the invariant has to say whose result state_ can be.  As long *)
(* as no path has replaced another, a result that is still to come is that  *)
(* of the pose at pos_, all before it are over, and the goals of older      *)
(* paths are at rest.  On ROS 1 the client follows the last goal only.      *)
(*                                                                          *)
(* The accumulator of clouds, for every order of clouds and every duration; *)
(* the local maps, for every large map and every position; the maps of the  *)
(* floors, for every cloud and maps of every size.                          *)
(***************************************************************************)
EXTENDS Patrol, TrajectoryStore, MapOrganizer, LargemapToMap, LocalMap,
        SequenceTheorems, FiniteSetTheorems, Induction, TLAPS

-----------------------------------------------------------------------------
(* Patrol *)

AtRest == {"none", "over"}

\* No pose is sent before its turn.
SentInOrder ==
  \A g \in 1..MaxPaths, w \in 1..MaxLen :
    goal[g][w] # "none" => g < gen \/ (g = gen /\ w <= pos)

\* state_ tells of the last goal sent, and those before it are over.
FollowsLast ==
  ros = 1 \/ ~cut =>
    /\ \A v \in 1..MaxLen : v < pos => goal[gen][v] = "over"
    /\ Ended => pos >= 1 /\ goal[gen][pos] = "over"

\* Paths that were walked to their end have no result to come.
OldPathsRest ==
  ros = 2 /\ ~cut =>
    /\ \A g \in 1..MaxPaths, w \in 1..MaxLen : g < gen => goal[g][w] \in AtRest
    /\ len = 0 /\ gen > 0 => \A w \in 1..MaxLen : goal[gen][w] \in AtRest

\* The counters of a node that has no path yet.
NoPathYet == gen = 0 => len = 0 /\ pos = 0

PatrolInv == PatrolTypeOK /\ NoPathYet /\ SentInOrder /\ FollowsLast /\ OldPathsRest

-----------------------------------------------------------------------------

\* The invariant holds at the start.
LEMMA InitPatrol ==
  ASSUME PatrolInit
  PROVE  PatrolInv
<1>1. PatrolTypeOK
  <2>1. goal = [g \in 1..MaxPaths |-> [w \in 1..MaxLen |-> "none"]] /\ "none" \in Progress
    BY DEF PatrolInit, Progress
  <2>2. goal \in [1..MaxPaths -> [1..MaxLen -> Progress]]
    BY <2>1
  <2>3. /\ ros \in {1, 2} /\ gen \in 0..MaxPaths /\ len \in 0..MaxLen /\ pos \in 0..MaxLen
        /\ state \in GoalStates /\ cancels \in Nat
    BY PatrolAssumption DEF PatrolInit, GoalStates
  <2>4. ready \in BOOLEAN /\ cut \in BOOLEAN
    BY Zenon DEF PatrolInit
  <2>5. QED
    BY <2>2, <2>3, <2>4 DEF PatrolTypeOK
<1>2. NoPathYet /\ SentInOrder /\ FollowsLast /\ OldPathsRest
  BY PatrolAssumption
  DEF PatrolInit, NoPathYet, SentInOrder, FollowsLast, OldPathsRest, Ended
<1>3. QED
  BY <1>1, <1>2 DEF PatrolInv

\* A new path starts where all of the old one's goals are behind it.
LEMMA PathKeeps ==
  ASSUME PatrolInv, cbPath
  PROVE  PatrolInv'
<1>1. /\ gen \in Nat /\ gen < MaxPaths /\ gen' = gen + 1 /\ pos' = 0
      /\ state' = "NONE" /\ cut' = (cut \/ len > 0) /\ len' \in 0..MaxLen
      /\ UNCHANGED <<ros, ready, goal>> /\ pos \in 0..MaxLen /\ len \in 0..MaxLen
      /\ MaxPaths \in Nat /\ MaxLen \in Nat
  BY PatrolAssumption DEF cbPath, PatrolInv, PatrolTypeOK
<1>2. cancels' \in Nat
  BY DEF cbPath, PatrolInv, PatrolTypeOK
<1>3. PatrolTypeOK'
  BY <1>1, <1>2 DEF PatrolInv, PatrolTypeOK, GoalStates
<1>4. NoPathYet'
  BY <1>1 DEF NoPathYet
<1>5. SentInOrder'
  <2> SUFFICES ASSUME NEW g \in 1..MaxPaths, NEW w \in 1..MaxLen, goal[g][w] # "none"
               PROVE  g < gen + 1
    BY <1>1 DEF SentInOrder
  <2>1. g < gen \/ g = gen
    BY DEF PatrolInv, SentInOrder
  <2>2. QED
    BY <2>1, <1>1
<1>6. FollowsLast'
  BY <1>1 DEF FollowsLast, Ended
<1>7. OldPathsRest'
  <2> SUFFICES ASSUME ros = 2, ~cut, ~(len > 0)
               PROVE  \A g \in 1..MaxPaths, w \in 1..MaxLen :
                        g < gen + 1 \/ g = gen + 1 => goal[g][w] \in AtRest
    <3>1. gen + 1 \in 1..MaxPaths
      BY <1>1
    <3>2. QED
      BY <1>1, <3>1 DEF OldPathsRest
  <2> TAKE g \in 1..MaxPaths, w \in 1..MaxLen
  <2>1. CASE g < gen
    BY <2>1 DEF PatrolInv, OldPathsRest
  <2>2. CASE g = gen
    BY <2>2, <1>1 DEF PatrolInv, OldPathsRest
  <2>3. CASE g = gen + 1
    BY <2>3, <1>1 DEF PatrolInv, SentInOrder, AtRest
  <2>4. QED
    BY <2>1, <2>2, <2>3, <1>1
<1>8. QED
  BY <1>3, <1>4, <1>5, <1>6, <1>7 DEF PatrolInv

\* When the timer ends a path or sends its next pose, the goals before are over.
LEMMA TimerKeeps ==
  ASSUME PatrolInv, cbTimer
  PROVE  PatrolInv'
<1>1. /\ gen \in 1..MaxPaths /\ pos \in 0..MaxLen /\ len \in 1..MaxLen
      /\ goal \in [1..MaxPaths -> [1..MaxLen -> Progress]]
      /\ UNCHANGED <<ros, gen, ready, cancels, cut>>
      /\ pos = 0 \/ Ended
      /\ ros = 2 => ready
      /\ MaxPaths \in Nat /\ MaxLen \in Nat
  BY PatrolAssumption DEF cbTimer, PatrolInv, PatrolTypeOK, NoPathYet
<1>2. ros = 1 \/ ~cut => \A v \in 1..MaxLen : v <= pos => goal[gen][v] = "over"
  BY <1>1 DEF PatrolInv, FollowsLast
<1>3. CASE PathWalked /\ len' = 0 /\ UNCHANGED <<pos, state, goal>>
  <2>1. PatrolTypeOK' /\ NoPathYet' /\ SentInOrder' /\ FollowsLast'
    BY <1>1, <1>3
    DEF PatrolInv, PatrolTypeOK, NoPathYet, SentInOrder, FollowsLast, Ended
  <2>2. ASSUME ros = 2, ~cut, NEW w \in 1..MaxLen
        PROVE  goal[gen][w] \in AtRest
    <3>1. CASE w <= pos
      BY <3>1, <2>2, <1>2 DEF AtRest
    <3>2. CASE w > pos
      BY <3>2, <1>1 DEF PatrolInv, SentInOrder, AtRest
    <3>3. QED
      BY <3>1, <3>2, <1>1
  <2>3. OldPathsRest'
    BY <2>2, <1>1, <1>3 DEF PatrolInv, OldPathsRest
  <2>4. QED
    BY <2>1, <2>3 DEF PatrolInv
<1>4. CASE /\ ~PathWalked
           /\ goal' = [goal EXCEPT ![gen][pos + 1] = IF ready THEN "sent" ELSE "lost"]
           /\ state' = "RUNNING" /\ pos' = pos + 1 /\ UNCHANGED len
  <2>1. pos + 1 \in 1..MaxLen
    BY <1>1, <1>4 DEF PathWalked
  <2>2. /\ goal' \in [1..MaxPaths -> [1..MaxLen -> Progress]]
        /\ \A g \in 1..MaxPaths, w \in 1..MaxLen :
             g # gen \/ w # pos + 1 => goal'[g][w] = goal[g][w]
    BY <1>1, <1>4, <2>1 DEF Progress
  <2>3. PatrolTypeOK' /\ NoPathYet'
    BY <1>1, <1>4, <2>1, <2>2 DEF PatrolInv, PatrolTypeOK, NoPathYet, GoalStates
  <2>4. SentInOrder'
    <3> SUFFICES ASSUME NEW g \in 1..MaxPaths, NEW w \in 1..MaxLen, goal'[g][w] # "none"
                 PROVE  g < gen \/ (g = gen /\ w <= pos + 1)
      BY <1>1, <1>4 DEF SentInOrder
    <3>1. CASE g = gen /\ w = pos + 1
      BY <3>1, <1>1
    <3>2. CASE g # gen \/ w # pos + 1
      BY <3>2, <2>2, <1>1 DEF PatrolInv, SentInOrder
    <3>3. QED
      BY <3>1, <3>2
  <2>5. FollowsLast'
    <3>1. ~Ended'
      BY <1>4 DEF Ended
    <3>2. ASSUME ros = 1 \/ ~cut, NEW v \in 1..MaxLen, v < pos + 1
          PROVE  goal'[gen][v] = "over"
      BY <3>2, <2>2, <1>1, <1>2
    <3>3. QED
      BY <3>1, <3>2, <1>1, <1>4 DEF FollowsLast
  <2>6. OldPathsRest'
    BY <1>1, <1>4, <2>2 DEF PatrolInv, OldPathsRest
  <2>7. QED
    BY <2>3, <2>4, <2>5, <2>6 DEF PatrolInv
<1>5. QED
  BY <1>3, <1>4 DEF cbTimer, sendNextGoal

\* A result that is still to come is that of the last goal sent.
LEMMA ResultKeeps ==
  ASSUME PatrolInv, ResultCallback
  PROVE  PatrolInv'
<1>1. PICK g \in 1..MaxPaths, w \in 1..MaxLen :
        /\ goal[g][w] \in Results
        /\ state' = IF Followed(g, w) THEN goal[g][w] ELSE state
        /\ goal' = [goal EXCEPT ![g][w] = "over"]
        /\ UNCHANGED <<ros, gen, len, pos, ready, cancels, cut>>
  BY DEF ResultCallback
<1>2. /\ gen \in 0..MaxPaths /\ pos \in 0..MaxLen
      /\ goal \in [1..MaxPaths -> [1..MaxLen -> Progress]]
      /\ MaxPaths \in Nat /\ MaxLen \in Nat
  BY PatrolAssumption DEF PatrolInv, PatrolTypeOK
<1>3. /\ goal' \in [1..MaxPaths -> [1..MaxLen -> Progress]]
      /\ goal'[g][w] = "over"
      /\ \A h \in 1..MaxPaths, v \in 1..MaxLen : h # g \/ v # w => goal'[h][v] = goal[h][v]
  BY <1>1, <1>2 DEF Progress
<1>4. g < gen \/ (g = gen /\ w <= pos)
  BY <1>1 DEF PatrolInv, SentInOrder, Results
<1>5. PatrolTypeOK' /\ NoPathYet'
  BY <1>1, <1>3 DEF PatrolInv, PatrolTypeOK, NoPathYet, GoalStates, Results
<1>6. SentInOrder'
  BY <1>1, <1>2, <1>3, <1>4 DEF PatrolInv, SentInOrder
<1>7. OldPathsRest'
  <2>1. \A h \in 1..MaxPaths, v \in 1..MaxLen :
          goal[h][v] \in AtRest => goal'[h][v] \in AtRest
    BY <1>3 DEF AtRest
  <2> SUFFICES ASSUME ros = 2, ~cut
               PROVE  /\ \A h \in 1..MaxPaths, v \in 1..MaxLen : h < gen => goal'[h][v] \in AtRest
                      /\ len = 0 /\ gen > 0 => \A v \in 1..MaxLen : goal'[gen][v] \in AtRest
    BY <1>1 DEF OldPathsRest
  <2>2. ASSUME NEW h \in 1..MaxPaths, NEW v \in 1..MaxLen, h < gen
        PROVE  goal'[h][v] \in AtRest
    <3>1. goal[h][v] \in AtRest
      BY <2>2 DEF PatrolInv, OldPathsRest
    <3>2. QED
      BY <3>1, <2>1
  <2>3. ASSUME len = 0, gen > 0, NEW v \in 1..MaxLen
        PROVE  goal'[gen][v] \in AtRest
    <3>1. goal[gen][v] \in AtRest /\ gen \in 1..MaxPaths
      BY <2>3, <1>2 DEF PatrolInv, OldPathsRest
    <3>2. QED
      BY <3>1, <2>1
  <2>4. QED
    BY <2>2, <2>3
<1>8. ASSUME ros = 1 \/ ~cut
      PROVE  \A v \in 1..MaxLen : v < pos => goal'[gen][v] = "over"
  BY <1>8, <1>1, <1>2, <1>3, <1>4 DEF PatrolInv, FollowsLast
<1>9. ASSUME ros = 1 \/ ~cut, Ended'
      PROVE  pos >= 1 /\ goal'[gen][pos] = "over"
  <2>1. CASE state' = state
    <3>1. pos >= 1 /\ goal[gen][pos] = "over"
      BY <2>1, <1>9 DEF PatrolInv, FollowsLast, Ended
    <3>2. QED
      BY <3>1, <1>2, <1>3, <1>4
  <2>2. CASE Followed(g, w)
    <3>1. ros = 2 => g = gen
      BY <1>1, <1>2, <1>4, <1>9 DEF PatrolInv, PatrolTypeOK, OldPathsRest, AtRest, Results
    <3>2. g = gen
      BY <3>1, <2>2 DEF Followed, PatrolInv, PatrolTypeOK
    <3>3. ~(w < pos)
      BY <3>2, <1>1, <1>9 DEF PatrolInv, FollowsLast, Results
    <3>4. w = pos
      BY <3>2, <3>3, <1>2, <1>4
    <3>5. QED
      BY <3>2, <3>4, <1>2, <1>3
  <2>3. QED
    BY <2>1, <2>2, <1>1
<1>10. FollowsLast'
  BY <1>8, <1>9, <1>1 DEF FollowsLast
<1>11. QED
  BY <1>5, <1>6, <1>7, <1>10 DEF PatrolInv

\* The server moves only goals that are with it.
LEMMA ServerKeeps ==
  ASSUME PatrolInv, UNCHANGED <<ros, gen, len, pos, state, cut>>,
         ready' \in BOOLEAN, cancels' \in Nat,
         goal' \in [1..MaxPaths -> [1..MaxLen -> Progress]],
         \A g \in 1..MaxPaths, w \in 1..MaxLen :
           goal'[g][w] = goal[g][w] \/ goal[g][w] \notin AtRest
  PROVE  PatrolInv'
<1>1. /\ gen \in 0..MaxPaths /\ pos \in 0..MaxLen
      /\ MaxPaths \in Nat /\ MaxLen \in Nat
  BY PatrolAssumption DEF PatrolInv, PatrolTypeOK
<1>2. PatrolTypeOK' /\ NoPathYet'
  BY DEF PatrolInv, PatrolTypeOK, NoPathYet
<1>3. SentInOrder'
  BY <1>1 DEF PatrolInv, SentInOrder, AtRest
<1>4. FollowsLast'
  <2>1. Ended' = Ended
    BY DEF Ended
  <2>2. CASE gen = 0
    BY <2>1, <2>2, <1>1 DEF PatrolInv, FollowsLast, NoPathYet
  <2>3. CASE gen > 0
    BY <2>1, <2>3, <1>1 DEF PatrolInv, FollowsLast, AtRest
  <2>4. QED
    BY <2>2, <2>3, <1>1
<1>5. OldPathsRest'
  <2>1. \A g \in 1..MaxPaths, w \in 1..MaxLen :
          goal[g][w] \in AtRest => goal'[g][w] \in AtRest
    OBVIOUS
  <2> SUFFICES ASSUME ros = 2, ~cut
               PROVE  /\ \A g \in 1..MaxPaths, w \in 1..MaxLen : g < gen => goal'[g][w] \in AtRest
                      /\ len = 0 /\ gen > 0 => \A w \in 1..MaxLen : goal'[gen][w] \in AtRest
    BY DEF OldPathsRest
  <2>2. ASSUME NEW g \in 1..MaxPaths, NEW w \in 1..MaxLen, g < gen
        PROVE  goal'[g][w] \in AtRest
    <3>1. goal[g][w] \in AtRest
      BY <2>2 DEF PatrolInv, OldPathsRest
    <3>2. QED
      BY <3>1, <2>1
  <2>3. ASSUME len = 0, gen > 0, NEW w \in 1..MaxLen
        PROVE  goal'[gen][w] \in AtRest
    <3>1. goal[gen][w] \in AtRest /\ gen \in 1..MaxPaths
      BY <2>3, <1>1 DEF PatrolInv, OldPathsRest
    <3>2. QED
      BY <3>1, <2>1
  <2>4. QED
    BY <2>2, <2>3
<1>6. QED
  BY <1>2, <1>3, <1>4, <1>5 DEF PatrolInv

\* What each step of the server does to the goals.
LEMMA ServerMovesItsOwn ==
  ASSUME PatrolInv, ServerStarts \/ Accept \/ CancelAll \/ Finish
  PROVE  /\ UNCHANGED <<ros, gen, len, pos, state, cut>>
         /\ ready' \in BOOLEAN /\ cancels' \in Nat
         /\ goal' \in [1..MaxPaths -> [1..MaxLen -> Progress]]
         /\ \A g \in 1..MaxPaths, w \in 1..MaxLen :
              goal'[g][w] = goal[g][w] \/ goal[g][w] \notin AtRest
<1>1. /\ goal \in [1..MaxPaths -> [1..MaxLen -> Progress]]
      /\ ready \in BOOLEAN /\ cancels \in Nat
  BY DEF PatrolInv, PatrolTypeOK
<1>2. CASE ServerStarts
  BY <1>2, <1>1 DEF ServerStarts
<1>3. CASE Accept
  <2>1. PICK g \in 1..MaxPaths, w \in 1..MaxLen :
          /\ goal[g][w] = "sent"
          /\ goal' = [h \in 1..MaxPaths |-> [v \in 1..MaxLen |->
                       IF h = g /\ v = w THEN "executing"
                       ELSE IF goal[h][v] \in OnServer THEN Superseded
                       ELSE goal[h][v]]]
          /\ UNCHANGED <<ros, gen, len, pos, state, ready, cancels, cut>>
    BY <1>3 DEF Accept
  <2>2. "executing" \in Progress /\ Superseded \in Progress
    BY DEF Progress, OnServer, Superseded, Results
  <2>3. \A h \in 1..MaxPaths, v \in 1..MaxLen : goal[h][v] \in Progress
    BY <1>1
  <2>4. goal' \in [1..MaxPaths -> [1..MaxLen -> Progress]]
    BY <2>1, <2>2, <2>3
  <2>5. \A h \in 1..MaxPaths, v \in 1..MaxLen :
          goal'[h][v] = goal[h][v] \/ goal[h][v] \notin AtRest
    BY <2>1 DEF AtRest, OnServer
  <2>6. QED
    BY <2>1, <2>4, <2>5, <1>1
<1>4. CASE CancelAll
  <2>1. /\ goal' = [h \in 1..MaxPaths |-> [v \in 1..MaxLen |->
                     IF goal[h][v] = "executing" THEN Cancelled ELSE goal[h][v]]]
        /\ UNCHANGED <<ros, gen, len, pos, state, ready, cut>>
        /\ cancels' \in Nat
    BY <1>4, <1>1 DEF CancelAll
  <2>2. Cancelled \in Progress
    BY DEF Progress, OnServer, Cancelled, Results
  <2>3. \A h \in 1..MaxPaths, v \in 1..MaxLen : goal[h][v] \in Progress
    BY <1>1
  <2>4. goal' \in [1..MaxPaths -> [1..MaxLen -> Progress]]
    BY <2>1, <2>2, <2>3
  <2>5. \A h \in 1..MaxPaths, v \in 1..MaxLen :
          goal'[h][v] = goal[h][v] \/ goal[h][v] \notin AtRest
    BY <2>1 DEF AtRest
  <2>6. QED
    BY <2>1, <2>4, <2>5, <1>1
<1>5. CASE Finish
  <2>1. PICK g \in 1..MaxPaths, w \in 1..MaxLen :
          /\ goal[g][w] \in OnServer
          /\ \E r \in Results : goal' = [goal EXCEPT ![g][w] = r]
          /\ UNCHANGED <<ros, gen, len, pos, state, ready, cancels, cut>>
    BY <1>5 DEF Finish, Results
  <2>2. PICK r \in Results : goal' = [goal EXCEPT ![g][w] = r]
    BY <2>1
  <2>3. r \in Progress
    BY DEF Progress
  <2>4. goal' \in [1..MaxPaths -> [1..MaxLen -> Progress]]
    BY <2>2, <2>3, <1>1
  <2>5. \A h \in 1..MaxPaths, v \in 1..MaxLen :
          goal'[h][v] = goal[h][v] \/ goal[h][v] \notin AtRest
    BY <2>1, <2>2, <1>1 DEF AtRest, OnServer
  <2>6. QED
    BY <2>1, <2>4, <2>5, <1>1
<1>6. QED
  BY <1>2, <1>3, <1>4, <1>5

\* The invariant holds at all times.
LEMMA PatrolInvariant ==
  PatrolSpec => []PatrolInv
<1>1. PatrolInit => PatrolInv
  BY InitPatrol
<1>2. PatrolInv /\ [PatrolNext]_patrolVars => PatrolInv'
  <2> SUFFICES ASSUME PatrolInv, [PatrolNext]_patrolVars
               PROVE  PatrolInv'
    OBVIOUS
  <2>1. CASE cbPath
    BY <2>1, PathKeeps
  <2>2. CASE cbTimer
    BY <2>2, TimerKeeps
  <2>3. CASE ResultCallback
    BY <2>3, ResultKeeps
  <2>4. CASE ServerStarts \/ Accept \/ CancelAll \/ Finish
    BY <2>4, ServerMovesItsOwn, ServerKeeps
  <2>5. CASE UNCHANGED patrolVars
    BY <2>5
    DEF patrolVars, PatrolInv, PatrolTypeOK, NoPathYet, SentInOrder, FollowsLast,
        OldPathsRest, Ended
  <2>6. QED
    BY <2>1, <2>2, <2>3, <2>4, <2>5 DEF PatrolNext
<1>3. QED
  BY <1>1, <1>2, PTL DEF PatrolSpec

\* patrol sends the next pose of a path only after the results of all poses before
\* it, on ROS 1 always and on ROS 2 as long as no path has replaced another: the
\* one result that state_ may tell of then is that of the last pose.
THEOREM SendsOneGoalAtATime ==
  PatrolSpec => OneGoalAtATimeUncut
<1>1. PatrolInv /\ [PatrolNext]_patrolVars
        => [\A w \in 1..MaxLen :
              (ros = 1 \/ ~cut) /\ pos' = w /\ pos # w =>
                \A v \in 1..(w - 1) : goal[gen][v] = "over"]_patrolVars
  <2> SUFFICES ASSUME PatrolInv, PatrolNext, ros = 1 \/ ~cut,
                      NEW w \in 1..MaxLen, pos' = w, pos # w,
                      NEW v \in 1..(w - 1)
               PROVE  goal[gen][v] = "over"
    BY DEF patrolVars
  <2>1. cbTimer
    BY DEF PatrolNext, cbPath, ResultCallback, ServerStarts, Accept, CancelAll, Finish
  <2>2. w = pos + 1 /\ pos \in 0..MaxLen /\ MaxLen \in Nat
    BY <2>1, PatrolAssumption DEF cbTimer, sendNextGoal, PatrolInv, PatrolTypeOK
  <2>3. pos = 0 \/ Ended
    BY <2>1 DEF cbTimer
  <2>4. QED
    BY <2>2, <2>3 DEF PatrolInv, FollowsLast
<1>2. QED
  BY <1>1, PatrolInvariant, PTL DEF PatrolSpec, OneGoalAtATimeUncut

-----------------------------------------------------------------------------
(* The path files *)

RecordedPaths == {p \in Seq(Line) : Recorded(p)}

\* What is under way from the recorder to the file, and from there to the server:
\* whole recorded paths, but for a file that was opened and not written yet.
StoreInv ==
  /\ robot \in Line
  /\ path \in {<<>>} \cup RecordedPaths
  /\ kept \in Seq(RecordedPaths) /\ queue \in Seq(RecordedPaths)
  /\ saver = "writing" => queue # <<>>
  /\ file \in {NoPath, <<>>} \cup RecordedPaths
  /\ ServesRecordedPaths

\* The end of a sequence has the elements of the sequence.
LEMMA EndsOf ==
  ASSUME NEW S, NEW s \in Seq(S), NEW n \in Nat
  PROVE  LastOf(s, n) \in Seq(S)
<1>1. CASE Len(s) > n
  <2>1. Len(s) - n + 1 \in 1..(Len(s) + 1) /\ Len(s) \in 0..Len(s)
    BY <1>1, LenProperties
  <2>2. SubSeq(s, Len(s) - n + 1, Len(s)) \in Seq(S)
    BY <2>1, SubSeqProperties
  <2>3. QED
    BY <1>1, <2>2 DEF LastOf
<1>2. QED
  BY <1>1 DEF LastOf

\* A pose far enough from the last one makes a recorded path of a recorded path.
LEMMA RecordsApart ==
  ASSUME StoreInv, path = <<>> \/ FarEnough(path)
  PROVE  Append(path, robot) \in RecordedPaths
<1>1. path \in Seq(Line) /\ robot \in Line
  <2>1. CASE path = <<>>
    BY <2>1 DEF StoreInv
  <2>2. CASE path \in RecordedPaths
    BY <2>2 DEF StoreInv, RecordedPaths
  <2>3. QED
    BY <2>1, <2>2 DEF StoreInv
<1>2. Append(path, robot) \in Seq(Line) /\ Len(Append(path, robot)) = Len(path) + 1
      /\ Len(path) \in Nat
  BY <1>1
<1>3. \A i \in 1..Len(path) : Append(path, robot)[i] = path[i]
  BY <1>1
<1>4. Append(path, robot)[Len(path) + 1] = robot
  BY <1>1
<1>5. ASSUME NEW i \in 1..Len(path)
      PROVE  Dist(Append(path, robot)[i], Append(path, robot)[i + 1]) > DistInterval
  <2>1. path # <<>>
    BY <1>1, <1>5
  <2>2. CASE i = Len(path)
    BY <2>1, <2>2, <1>3, <1>4, <1>5 DEF FarEnough, Last
  <2>3. CASE i < Len(path)
    <3>1. Recorded(path) /\ i \in 1..(Len(path) - 1) /\ i + 1 \in 1..Len(path)
      BY <2>1, <2>3, <1>2 DEF StoreInv, RecordedPaths
    <3>2. Dist(path[i], path[i + 1]) > DistInterval
      BY <3>1 DEF Recorded
    <3>3. QED
      BY <3>1, <3>2, <1>3
  <2>4. QED
    BY <2>2, <2>3, <1>2
<1>6. Recorded(Append(path, robot))
  <2> DEFINE q == Append(path, robot)
  <2>1. Len(q) = Len(path) + 1 /\ Len(path) \in Nat
    BY <1>2
  <2>2. \A i \in 1..Len(path) : Dist(q[i], q[i + 1]) > DistInterval
    BY <1>5
  <2> HIDE DEF q
  <2>3. Len(q) - 1 = Len(path) /\ q # <<>>
    BY <2>1
  <2>4. Recorded(q)
    BY <2>2, <2>3 DEF Recorded
  <2>5. QED
    BY <2>4 DEF q
<1>7. QED
  BY <1>2, <1>6 DEF RecordedPaths

\* What a recorded path is appended to keeps its elements recorded paths.
LEMMA KeepsRecorded ==
  ASSUME NEW s \in Seq(RecordedPaths), NEW p \in RecordedPaths, NEW n \in Nat
  PROVE  LastOf(Append(s, p), n) \in Seq(RecordedPaths)
<1>1. Append(s, p) \in Seq(RecordedPaths)
  OBVIOUS
<1>2. QED
  BY <1>1, EndsOf

\* The recorder makes recorded paths, whatever is cleared.
LEMMA RecorderKeeps ==
  ASSUME StoreInv, Record \/ spin, UNCHANGED <<ros, robot, saver, file, server>>
  PROVE  StoreInv'
<1> DEFINE new == path = <<>> \/ FarEnough(path)
           msg == Append(path, robot)
<1>1. new => msg \in RecordedPaths
  BY RecordsApart
<1>2. path' \in {<<>>} \cup RecordedPaths
  BY <1>1 DEF Record, spin, StoreInv
<1>3. Kept \in Nat /\ 1 \in Nat
  BY StoreAssumption
<1>4. new => /\ LastOf(Append(kept, msg), 1) \in Seq(RecordedPaths)
             /\ LastOf(Append(kept, msg), Kept) \in Seq(RecordedPaths)
             /\ LastOf(Append(queue, msg), Kept) \in Seq(RecordedPaths)
             /\ <<msg>> \in Seq(RecordedPaths)
  <2> HIDE DEF msg, new
  <2>1. kept \in Seq(RecordedPaths) /\ queue \in Seq(RecordedPaths)
    BY DEF StoreInv
  <2> SUFFICES ASSUME new
               PROVE  /\ LastOf(Append(kept, msg), 1) \in Seq(RecordedPaths)
                      /\ LastOf(Append(kept, msg), Kept) \in Seq(RecordedPaths)
                      /\ LastOf(Append(queue, msg), Kept) \in Seq(RecordedPaths)
                      /\ <<msg>> \in Seq(RecordedPaths)
    OBVIOUS
  <2>2. msg \in RecordedPaths /\ <<msg>> \in Seq(RecordedPaths)
    BY <1>1
  <2>3. LastOf(Append(kept, msg), 1) \in Seq(RecordedPaths)
    BY <2>1, <2>2, KeepsRecorded
  <2>4. LastOf(Append(kept, msg), Kept) \in Seq(RecordedPaths)
    BY <2>1, <2>2, <1>3, KeepsRecorded
  <2>5. LastOf(Append(queue, msg), Kept) \in Seq(RecordedPaths)
    BY <2>1, <2>2, <1>3, KeepsRecorded
  <2>6. QED
    BY <2>2, <2>3, <2>4, <2>5
<1>5. kept' \in Seq(RecordedPaths)
  BY <1>4 DEF Record, spin, StoreInv
<1>6. queue' \in Seq(RecordedPaths) /\ (saver # "waiting" => queue' = queue)
  BY <1>4 DEF Record, spin, StoreInv
<1>7. QED
  BY <1>2, <1>5, <1>6 DEF StoreInv, ServesRecordedPaths, server

\* The saver writes one message as a whole.
LEMMA SaverKeeps ==
  ASSUME StoreInv, Saver
  PROVE  StoreInv'
<1>1. CASE StartSaver
  BY <1>1 DEF StartSaver, StoreInv, ServesRecordedPaths, recorder, server
<1>2. CASE cbPathOpen
  <2>1. Tail(queue) \in Seq(RecordedPaths)
    BY <1>2 DEF cbPathOpen, StoreInv
  <2>2. QED
    BY <1>2, <2>1 DEF cbPathOpen, StoreInv, ServesRecordedPaths, recorder, server
<1>3. CASE cbPathWrite
  <2>1. Head(queue) \in RecordedPaths
    BY <1>3 DEF cbPathWrite, StoreInv
  <2>2. QED
    BY <1>3, <2>1 DEF cbPathWrite, StoreInv, ServesRecordedPaths, recorder, server
<1>4. QED
  BY <1>1, <1>2, <1>3 DEF Saver

\* The server publishes what the file holds, unless that is nothing.
LEMMA ServerKeepsFiles ==
  ASSUME StoreInv, Server \/ UserEdits \/ processFeedback
  PROVE  StoreInv'
<1>1. UNCHANGED <<recorder, saving, file>>
  BY DEF Server, change, changeMissing, UserEdits, processFeedback
<1>2. topic' = topic \/ topic' = Edited \/ (topic' = file /\ file # NoPath /\ file # <<>>)
  BY DEF Server, change, changeMissing, UserEdits, processFeedback, Published, Deserializes
<1>3. ServesRecordedPaths'
  BY <1>1, <1>2 DEF ServesRecordedPaths, StoreInv, RecordedPaths
<1>4. QED
  BY <1>1, <1>3 DEF StoreInv, recorder, saving

\* trajectory_server serves whole paths as the recorder made them, whenever it reads
\* the file that a saver opens, empties and writes, and whatever markers do.
THEOREM ServesWholePaths ==
  StoreSpec => []ServesRecordedPaths
<1>1. StoreInit => StoreInv
  BY DEF StoreInit, StoreInv, ServesRecordedPaths
<1>2. StoreInv /\ [StoreNext]_storeVars => StoreInv'
  <2> SUFFICES ASSUME StoreInv, [StoreNext]_storeVars
               PROVE  StoreInv'
    OBVIOUS
  <2>1. CASE Drive
    BY <2>1 DEF Drive, StoreInv, ServesRecordedPaths, saving, server
  <2>2. CASE cbRecorderTimer \/ spin
    BY <2>2, RecorderKeeps DEF cbRecorderTimer, spin
  <2>3. CASE clearPath
    BY <2>3 DEF clearPath, StoreInv, ServesRecordedPaths, saving, server
  <2>4. CASE Saver
    BY <2>4, SaverKeeps
  <2>5. CASE Server \/ UserEdits \/ processFeedback
    BY <2>5, ServerKeepsFiles
  <2>6. CASE UNCHANGED storeVars
    BY <2>6 DEF storeVars, StoreInv, ServesRecordedPaths, recorder, saving, server
  <2>7. QED
    BY <2>1, <2>2, <2>3, <2>4, <2>5, <2>6
    DEF StoreNext, RecorderNode, SaverNode, ServerNode, SaverNodeRos1, ServerNodeRos1
<1>3. StoreInv => ServesRecordedPaths
  BY DEF StoreInv
<1>4. QED
  BY <1>1, <1>2, <1>3, PTL DEF StoreSpec

-----------------------------------------------------------------------------
(* The accumulator of clouds *)

Scans == [stamp : Int, fields : BOOLEAN]

LocalMapTypes ==
  /\ node \in Nodes /\ now \in Int
  /\ accum \in [Buffers -> Seq(Scans)]

\* Without one element the others are still there.
LEMMA OneIsRemoved ==
  ASSUME NEW S, NEW s \in Seq(S), NEW i \in 1..Len(s)
  PROVE  /\ RemoveAt(s, i) \in Seq(S)
         /\ ToSet(s) \ ToSet(RemoveAt(s, i)) \subseteq {s[i]}
         /\ Len(RemoveAt(s, i)) = Len(s) - 1
         /\ \A j \in i..(Len(s) - 1) : RemoveAt(s, i)[j] = s[j + 1]
<1> DEFINE head == SubSeq(s, 1, i - 1)
           tail == SubSeq(s, i + 1, Len(s))
<1>1. head \in Seq(S) /\ Len(head) = i - 1 /\ \A j \in 1..(i - 1) : head[j] = s[j]
  OBVIOUS
<1>2. /\ tail \in Seq(S) /\ Len(tail) = Len(s) - i
      /\ \A j \in 1..(Len(s) - i) : tail[j] = s[i + j]
  OBVIOUS
<1>3. RemoveAt(s, i) = head \o tail
  BY DEF RemoveAt
<1> HIDE DEF head, tail
<1> DEFINE rest == head \o tail
<1>4. rest \in Seq(S) /\ Len(rest) = Len(s) - 1
  <2>1. rest \in Seq(S) /\ Len(rest) = Len(head) + Len(tail)
    BY <1>1, <1>2, ConcatProperties
  <2> HIDE DEF rest
  <2>2. QED
    BY <1>1, <1>2, <2>1
<1> DEFINE left == ToSet(rest)
<1>5. \A k \in 1..Len(rest) : rest[k] \in left
  <2> HIDE DEF rest
  <2>1. DOMAIN rest = 1..Len(rest)
    BY <1>4
  <2>2. QED
    BY <2>1 DEF ToSet
<1> HIDE DEF left
<1>6. ASSUME NEW j \in 1..Len(s), j # i
      PROVE  s[j] \in left
  <2>1. CASE j < i
    <3>1. j \in 1..Len(rest) /\ rest[j] = s[j]
      BY <1>1, <1>2, <2>1
    <3>2. QED
      BY <1>5, <3>1
  <2>2. CASE j > i
    <3>1. j - 1 \in 1..Len(rest) /\ rest[j - 1] = tail[j - i] /\ j - i \in 1..(Len(s) - i)
      BY <1>1, <1>2, <2>2
    <3>2. tail[j - i] = s[j]
      BY <1>2, <3>1
    <3>3. s[j] = rest[j - 1]
      BY <3>1, <3>2
    <3>4. QED
      BY <1>5, <3>1, <3>3
  <2>3. QED
    BY <1>6, <2>1, <2>2
<1> HIDE DEF rest
<1>7. ToSet(s) \ left \subseteq {s[i]}
  BY <1>6 DEF ToSet
<1>8. ASSUME NEW j \in i..(Len(s) - 1)
      PROVE  rest[j] = s[j + 1]
  <2>1. rest[j] = tail[j - (i - 1)] /\ j - (i - 1) \in 1..(Len(s) - i)
    BY <1>1, <1>2 DEF rest
  <2>2. tail[j - (i - 1)] = s[i + (j - (i - 1))] /\ i + (j - (i - 1)) = j + 1
    BY <1>2, <2>1
  <2>3. QED
    BY <2>1, <2>2
<1>9. QED
  BY <1>3, <1>4, <1>7, <1>8 DEF rest, left

\* The states of the loop of push() on the clouds s, and what it leaves of them.
Loops(g, s, b, t) ==
  /\ g[0] = [clouds |-> s, at |-> 1]
  /\ \A i \in 1..Len(s) : g[i] = EraseNext(g[i - 1], b, t)
  /\ \A i \in 0..Len(s) : g[i] \in [clouds : Seq(Scans), at : Nat \ {0}]
  /\ Erase(s, b, t) = g[Len(s)].clouds

\* A step of the loop stays within the types, and erases an expired cloud or none.
LEMMA StepErases ==
  ASSUME NEW b, NEW t, NEW l \in [clouds : Seq(Scans), at : Nat \ {0}]
  PROVE  /\ EraseNext(l, b, t) \in [clouds : Seq(Scans), at : Nat \ {0}]
         /\ \A p \in ToSet(l.clouds) \ ToSet(EraseNext(l, b, t).clouds) : Expired(p, b, t)
         /\ Len(EraseNext(l, b, t).clouds) <= Len(l.clouds)
<1>1. CASE l.at > Len(l.clouds) \/ ~Expired(l.clouds[l.at], b, t)
  BY <1>1 DEF EraseNext
<1>2. CASE ~(l.at > Len(l.clouds) \/ ~Expired(l.clouds[l.at], b, t))
  <2> DEFINE rest == RemoveAt(l.clouds, l.at)
  <2>1. l.at \in 1..Len(l.clouds) /\ Expired(l.clouds[l.at], b, t)
    BY <1>2
  <2>2. /\ rest \in Seq(Scans) /\ ToSet(l.clouds) \ ToSet(rest) \subseteq {l.clouds[l.at]}
        /\ Len(rest) = Len(l.clouds) - 1
    BY <2>1, OneIsRemoved
  <2>3. EraseNext(l, b, t)
          = [clouds |-> rest, at |-> IF l.at <= Len(rest) THEN l.at + 1 ELSE 1]
    BY <1>2 DEF EraseNext
  <2> HIDE DEF rest
  <2>4. QED
    BY <2>1, <2>2, <2>3
<1>3. QED
  BY <1>1, <1>2

\* The recursion of Erase has these states.
LEMMA LoopOfErase ==
  ASSUME NEW s \in Seq(Scans), NEW b, NEW t
  PROVE  \E g : Loops(g, s, b, t)
<1> DEFINE n     == Len(s)
           T     == [clouds : Seq(Scans), at : Nat \ {0}]
           first == [clouds |-> s, at |-> 1]
           step  == [i \in 1..n |-> [l \in T |-> EraseNext(l, b, t)]]
           Runs(g) == g = [i \in 0..n |-> IF i = 0 THEN first ELSE EraseNext(g[i - 1], b, t)]
           loop  == CHOOSE g : Runs(g)
<1>1. n \in Nat /\ first \in T
  OBVIOUS
<1>2. ASSUME NEW l \in T
      PROVE  EraseNext(l, b, t) \in T
  BY StepErases
<1> HIDE DEF n, T, first
<1>3. step \in [1..n -> [T -> T]]
  BY <1>2
<1>4. \E g : Runs(g)
  <2>1. ASSUME NEW i \in 1..n, NEW l \in T
        PROVE  step[i][l] = EraseNext(l, b, t)
    OBVIOUS
  <2> HIDE DEF step
  <2>2. PICK g \in [0..n -> T] : Follows(g, n, first, step)
    BY <1>1, <1>3, RecursionUpTo
  <2>3. ASSUME NEW i \in 1..n
        PROVE  g[i] = EraseNext(g[i - 1], b, t)
    BY <1>1, <2>1, <2>2 DEF Follows
  <2>4. Runs(g)
    BY <1>1, <2>2, <2>3 DEF Follows
  <2>5. QED
    BY <2>4
<1>5. Runs(loop)
  BY <1>4
<1>6. Erase(s, b, t) = loop[n].clouds
  BY DEF Erase, n, first
<1> HIDE DEF loop
<1> DEFINE S == {i \in 0..n : loop[i] \in T}
<1>7. 0..n \subseteq S
  <2>1. 0 \in S
    BY <1>1, <1>5
  <2>2. ASSUME NEW i \in 0..(n - 1), i \in S
        PROVE  i + 1 \in S
    <3>1. i + 1 \in 0..n /\ i + 1 # 0 /\ (i + 1) - 1 = i
      BY <1>1
    <3>2. loop[i + 1] = EraseNext(loop[i], b, t)
      BY <1>5, <3>1
    <3>3. QED
      BY <1>2, <2>2, <3>1, <3>2
  <2> HIDE DEF S
  <2>3. QED
    BY <1>1, <2>1, <2>2, UpTo
<1>8. loop[0] = first /\ \A i \in 1..n : loop[i] = EraseNext(loop[i - 1], b, t)
  BY <1>1, <1>5
<1>9. Loops(loop, s, b, t)
  BY <1>6, <1>7, <1>8 DEF Loops, n, T, first
<1>10. QED
  BY <1>9

\* The loop of push() erases expired clouds only.
LEMMA ErasesExpired ==
  ASSUME NEW s \in Seq(Scans), NEW b, NEW t
  PROVE  /\ Erase(s, b, t) \in Seq(Scans)
         /\ \A p \in ToSet(s) \ ToSet(Erase(s, b, t)) : Expired(p, b, t)
<1>1. PICK g : Loops(g, s, b, t)
  BY LoopOfErase
<1> DEFINE n == Len(s)
           Lost(l) == \A p \in ToSet(s) \ ToSet(l.clouds) : Expired(p, b, t)
           S == {i \in 0..n : Lost(g[i])}
<1>2. n \in Nat
  OBVIOUS
<1>3. 0..n \subseteq S
  <2>1. 0 \in S
    BY <1>1 DEF Loops
  <2>2. ASSUME NEW i \in 0..(n - 1), i \in S
        PROVE  i + 1 \in S
    <3>1. i + 1 \in 1..n /\ (i + 1) - 1 = i /\ i \in 0..n
      BY <1>2
    <3>2. g[i + 1] = EraseNext(g[i], b, t) /\ g[i] \in [clouds : Seq(Scans), at : Nat \ {0}]
      BY <1>1, <3>1 DEF Loops
    <3>3. \A p \in ToSet(g[i].clouds) \ ToSet(g[i + 1].clouds) : Expired(p, b, t)
      BY <3>2, StepErases
    <3>4. QED
      BY <2>2, <3>1, <3>3
  <2> HIDE DEF S
  <2>3. QED
    BY <1>2, <2>1, <2>2, UpTo
<1>4. Lost(g[n])
  BY <1>2, <1>3
<1>5. QED
  BY <1>1, <1>2, <1>4 DEF Loops

\* After j steps of the loop half of the k clouds are erased, or the iterator is
\* still on its way: at the cloud that was first at 2 * j + 1.
OnItsWay(l, s, j, k) ==
  /\ l.at = j + 1 /\ Len(l.clouds) = Len(s) - j /\ 2 * j < k
  /\ \A i \in (j + 1)..(Len(s) - j) : l.clouds[i] = s[i + j]
HalfErased(l, s, j, k) == 2 * (Len(s) - Len(l.clouds)) >= k \/ OnItsWay(l, s, j, k)

\* A step of the loop keeps it so.
LEMMA StepErasesHalf ==
  ASSUME NEW s \in Seq(Scans), NEW b, NEW t, NEW k \in 0..Len(s), NEW j \in Nat,
         \A i \in 1..k : Expired(s[i], b, t),
         NEW l \in [clouds : Seq(Scans), at : Nat \ {0}], HalfErased(l, s, j, k)
  PROVE  HalfErased(EraseNext(l, b, t), s, j + 1, k)
<1> DEFINE m == Len(s)
           after == EraseNext(l, b, t)
<1>1. /\ m \in Nat /\ Len(l.clouds) \in Nat /\ Len(after.clouds) \in Nat
      /\ Len(after.clouds) <= Len(l.clouds)
  BY StepErases
<1>2. CASE 2 * (m - Len(l.clouds)) >= k
  <2> HIDE DEF m, after
  <2>1. 2 * (m - Len(after.clouds)) >= k
    BY <1>1, <1>2
  <2>2. QED
    BY <2>1 DEF HalfErased, m, after
<1>3. CASE OnItsWay(l, s, j, k)
  <2> DEFINE rest == RemoveAt(l.clouds, l.at)
  <2>1. /\ l.at = j + 1 /\ Len(l.clouds) = m - j /\ 2 * j < k
        /\ \A i \in (j + 1)..(m - j) : l.clouds[i] = s[i + j]
    BY <1>3 DEF OnItsWay
  <2>2. j + 1 <= m - j /\ 2 * j + 1 \in 1..k
    BY <1>1, <2>1
  <2>3. l.at \in 1..Len(l.clouds) /\ l.clouds[l.at] = s[2 * j + 1]
    BY <1>1, <2>1, <2>2
  <2>4. Expired(l.clouds[l.at], b, t)
    BY <2>2, <2>3
  <2>5. /\ Len(rest) = Len(l.clouds) - 1
        /\ \A i \in l.at..(Len(l.clouds) - 1) : rest[i] = l.clouds[i + 1]
    <3>1. ASSUME NEW u \in Seq(Scans), NEW i \in 1..Len(u)
          PROVE  /\ Len(RemoveAt(u, i)) = Len(u) - 1
                 /\ \A h \in i..(Len(u) - 1) : RemoveAt(u, i)[h] = u[h + 1]
      BY OneIsRemoved
    <3>2. l.clouds \in Seq(Scans)
      OBVIOUS
    <3>3. QED
      BY <2>3, <3>1, <3>2
  <2>6. /\ after.clouds = rest
        /\ l.at <= Len(rest) => after.at = l.at + 1
    BY <1>1, <2>3, <2>4 DEF EraseNext
  <2> HIDE DEF rest, after
  <2>7. Len(after.clouds) = m - (j + 1)
    BY <1>1, <2>1, <2>5, <2>6
  <2>8. CASE 2 * (j + 1) >= k
    <3>1. 2 * (m - Len(after.clouds)) >= k
      BY <1>1, <2>7, <2>8
    <3>2. QED
      BY <3>1 DEF HalfErased, after, m
  <2>9. CASE 2 * (j + 1) < k
    <3>1. l.at <= Len(rest)
      BY <1>1, <2>1, <2>6, <2>7, <2>9
    <3>2. after.at = (j + 1) + 1
      BY <2>1, <2>6, <3>1
    <3>3. ASSUME NEW i \in ((j + 1) + 1)..(m - (j + 1))
          PROVE  after.clouds[i] = s[i + (j + 1)]
      <4>1. i \in l.at..(Len(l.clouds) - 1) /\ i + 1 \in (j + 1)..(m - j)
        BY <1>1, <2>1
      <4>2. after.clouds[i] = l.clouds[i + 1]
        BY <2>5, <2>6, <4>1
      <4>3. l.clouds[i + 1] = s[(i + 1) + j] /\ (i + 1) + j = i + (j + 1)
        BY <1>1, <2>1, <4>1
      <4>4. QED
        BY <4>2, <4>3
    <3>4. OnItsWay(after, s, j + 1, k)
      BY <2>7, <2>9, <3>2, <3>3 DEF OnItsWay, m
    <3>5. QED
      BY <3>4 DEF HalfErased, after
  <2>10. QED
    BY <1>1, <2>8, <2>9
<1>4. QED
  BY <1>2, <1>3 DEF HalfErased

\* The loop of push() erases at least every second of the expired clouds at the
\* front.
LEMMA ErasesHalf ==
  ASSUME NEW s \in Seq(Scans), NEW b, NEW t, NEW k \in 0..Len(s),
         \A i \in 1..k : Expired(s[i], b, t)
  PROVE  2 * (Len(s) - Len(Erase(s, b, t))) >= k
<1>1. PICK g : Loops(g, s, b, t)
  BY LoopOfErase
<1> DEFINE n == Len(s)
           S == {i \in 0..n : HalfErased(g[i], s, i, k)}
<1>2. n \in Nat
  OBVIOUS
<1>3. 0..n \subseteq S
  <2>1. 0 \in S
    <3>1. g[0] = [clouds |-> s, at |-> 1]
      BY <1>1 DEF Loops
    <3>2. QED
      BY <1>2, <3>1 DEF HalfErased, OnItsWay
  <2>2. ASSUME NEW i \in 0..(n - 1), i \in S
        PROVE  i + 1 \in S
    <3>1. i + 1 \in 1..n /\ (i + 1) - 1 = i /\ i \in 0..n /\ i + 1 \in 0..n /\ i \in Nat
      BY <1>2
    <3>2. g[i + 1] = EraseNext(g[i], b, t) /\ g[i] \in [clouds : Seq(Scans), at : Nat \ {0}]
      BY <1>1, <3>1 DEF Loops
    <3>3. HalfErased(g[i], s, i, k)
      BY <2>2
    <3>4. HalfErased(g[i + 1], s, i + 1, k)
      BY <3>1, <3>2, <3>3, StepErasesHalf
    <3>5. QED
      BY <3>1, <3>4
  <2> HIDE DEF S
  <2>3. QED
    BY <1>2, <2>1, <2>2, UpTo
<1>4. HalfErased(g[n], s, n, k)
  BY <1>2, <1>3
<1>5. ~OnItsWay(g[n], s, n, k)
  BY <1>2 DEF OnItsWay
<1>6. 2 * (n - Len(g[n].clouds)) >= k
  BY <1>4, <1>5 DEF HalfErased
<1>7. QED
  BY <1>1, <1>6 DEF Loops

\* What a push makes of a buffer.
LEMMA PushForgets ==
  ASSUME LocalMapTypes, NEW b \in Buffers, NEW p \in Scans
  PROVE  push(b, p) \in Seq(Scans) /\ Forgets(accum[b], push(b, p), b)
<1> DEFINE a == accum[b]
           left == Erase(a, b, p.stamp)
           c == push(b, p)
<1>1. a \in Seq(Scans)
  BY DEF LocalMapTypes
<1>2. left \in Seq(Scans) /\ \A r \in ToSet(a) \ ToSet(left) : Expired(r, b, p.stamp)
  BY <1>1, ErasesExpired
<1>3. ASSUME NEW k \in 0..Len(a), \A i \in 1..k : Expired(a[i], b, p.stamp)
      PROVE  2 * (Len(a) - Len(left)) >= k
  BY <1>1, <1>3, ErasesHalf
<1>4. c = Append(left, p)
  BY DEF push
<1> HIDE DEF a, left, c
<1>5. c \in Seq(Scans) /\ Last(c) = p /\ ToSet(left) \subseteq ToSet(c) /\ Len(c) = Len(left) + 1
  BY <1>2, <1>4 DEF Last, ToSet
<1>6. ASSUME NEW q \in ToSet(a) \ ToSet(c)
      PROVE  q.stamp + Hold[b] < Last(c).stamp
  BY <1>2, <1>5 DEF Expired
<1>7. ASSUME NEW k \in 0..Len(a),
             \A i \in 1..k : [j \in 1..Len(a) |-> a[j].stamp + Hold[b] < Last(c).stamp][i]
      PROVE  2 * (Len(a) + 1 - Len(c)) >= k
  <2>1. Len(a) \in Nat /\ Len(left) \in Nat
    BY <1>1, <1>2
  <2>2. ASSUME NEW i \in 1..k
        PROVE  Expired(a[i], b, p.stamp)
    <3>1. i \in 1..Len(a)
      BY <2>1
    <3>2. a[i].stamp + Hold[b] < Last(c).stamp
      BY <1>7, <3>1
    <3>3. QED
      BY <1>5, <3>2 DEF Expired
  <2>3. 2 * (Len(a) - Len(left)) >= k
    BY <1>3, <2>2
  <2>4. QED
    BY <1>5, <2>1, <2>3
<1>8. Forgets(a, c, b)
  BY <1>6, <1>7 DEF Forgets
<1>9. QED
  BY <1>5, <1>8 DEF a, c

\* What a cloud that is taken leaves in the buffers.
LEMMA TakeKeeps ==
  ASSUME LocalMapTypes, NEW b \in Buffers, NEW p \in Scans, NEW t, Take(b, p, t)
  PROVE  /\ LocalMapTypes'
         /\ \A c \in Buffers : accum'[c] # accum[c] => Forgets(accum[c], accum'[c], c)
<1>1. push(b, p) \in Seq(Scans) /\ Forgets(accum[b], push(b, p), b)
  BY PushForgets
<1>2. accum' = [accum EXCEPT ![b] = push(b, p)] /\ node' = node /\ now' = now
  BY DEF Take
<1>3. accum' \in [Buffers -> Seq(Scans)]
  BY <1>1, <1>2 DEF LocalMapTypes
<1>4. accum'[b] = push(b, p) /\ \A c \in Buffers : c # b => accum'[c] = accum[c]
  BY <1>2 DEF LocalMapTypes
<1>5. LocalMapTypes'
  BY <1>2, <1>3 DEF LocalMapTypes, Buffers
<1>6. QED
  BY <1>1, <1>4, <1>5

\* The clouds of a step, and what it leaves of those before.
LEMMA StepForgets ==
  ASSUME LocalMapTypes, [LocalMapNext]_localMapVars
  PROVE  /\ LocalMapTypes'
         /\ [\A b \in Buffers : accum'[b] # accum[b]
               => Forgets(accum[b], accum'[b], b)]_localMapVars
<1>1. ASSUME NEW t \in Stamps
      PROVE  t \in Int /\ Transformed(t) \in Scans /\ Untransformed \in Scans
  BY LocalMapAssumption DEF Stamps, LocalMapTypes, Transformed, Untransformed, Scans,
     LocalMapAssumption
<1>2. CASE UNCHANGED localMapVars
  BY <1>2 DEF localMapVars, LocalMapTypes, Buffers
<1>3. CASE LocalMapTick
  <2>1. accum' = accum /\ node' = node /\ now' \in Int
    BY <1>3 DEF LocalMapTick, LocalMapTypes
  <2>2. QED
    BY <2>1 DEF LocalMapTypes, Buffers
<1>4. CASE cbScan
  <2>1. "normal" \in Buffers
    BY DEF Buffers
  <2>2. PICK t \in Stamps : Take("normal", Transformed(t), t) \/ Take("normal", Untransformed, t)
    BY <1>4 DEF cbScan
  <2>3. QED
    BY <1>1, <2>1, <2>2, TakeKeeps
<1>5. CASE cbCloud
  <2>1. PICK t \in Stamps : \E b \in Buffers : Take(b, Transformed(t), t)
    BY <1>5 DEF cbCloud
  <2>2. PICK b \in Buffers : Take(b, Transformed(t), t)
    BY <2>1
  <2>3. QED
    BY <1>1, <2>2, TakeKeeps
<1>6. QED
  BY <1>2, <1>3, <1>4, <1>5 DEF LocalMapNext

\* Whatever the order in which clouds arrive and transforms fail, push() drops no
\* cloud before it has expired and at least every second of the expired ones at
\* the front, although its iterator skips clouds and may pass end()
\* (pointcloud_accumulator.h).
THEOREM AccumulatorForgetsExpired ==
  LocalMapSpec => ForgetsExpired
<1>1. LocalMapInit => LocalMapTypes
  <2> SUFFICES ASSUME LocalMapInit PROVE LocalMapTypes
    OBVIOUS
  <2>1. <<>> \in Seq(Scans)
    OBVIOUS
  <2>2. QED
    BY <2>1 DEF LocalMapInit, LocalMapTypes
<1>2. QED
  BY <1>1, StepForgets, PTL DEF LocalMapSpec, ForgetsExpired

-----------------------------------------------------------------------------
(* The local map cut out of a large one *)

\* Rounding moves by half a cell at most.
LEMMA RoundedIsNear ==
  ASSUME NEW a \in Int
  PROVE  Rounded(a) \in Int /\ 2 * Rounded(a) - a \in -1..1
  BY DEF Rounded

\* Truncating gives a whole number of cells.
LEMMA TruncatedIsInt ==
  ASSUME NEW a \in Int
  PROVE  Truncated(a) \in Int
  BY DEF Truncated

\* A number is made up of its quotient and its rest.
LEMMA DivMod ==
  ASSUME NEW w \in Nat \ {0}, NEW e \in Nat
  PROVE  /\ e % w \in 0..(w - 1) /\ e \div w \in Nat
         /\ e = w * (e \div w) + (e % w)
BY SMT

\* The row of a cell by its address.
LEMMA DivBelow ==
  ASSUME NEW w \in Nat \ {0}, NEW e \in 0..(w * w - 1)
  PROVE  e \div w \in 0..(w - 1)
<1> DEFINE q == e \div w
<1>1. q \in Nat /\ e % w \in Nat /\ e = w * q + (e % w) /\ e < w * w
  BY DivMod
<1> HIDE DEF q
<1>2. w * q < w * w
  BY <1>1
<1>3. ASSUME q >= w PROVE FALSE
  BY <1>1, <1>2, <1>3
<1>4. QED
  BY <1>1, <1>3

\* Every cell has an address, which its row and column are told by.
LEMMA AddressOfCell ==
  ASSUME NEW w \in Nat \ {0}, NEW x \in 0..(w - 1), NEW y \in 0..(w - 1)
  PROVE  /\ y * w + x \in 0..(w * w - 1)
         /\ (y * w + x) % w = x
         /\ (y * w + x) \div w = y
<1> DEFINE e == y * w + x
           q == e \div w
           m == e % w
<1>1. e \in Nat /\ y * w \in Nat
  OBVIOUS
<1>2. q \in Nat /\ m \in 0..(w - 1) /\ e = w * q + m
  BY <1>1, DivMod
<1>0. e = y * w + x
  OBVIOUS
<1> HIDE DEF e, q, m
<1>3. q = y
  <2>1. ASSUME q < y PROVE FALSE
    <3>1. (q + 1) * w <= y * w
      BY <1>2, <2>1
    <3>2. QED
      BY <1>0, <1>1, <1>2, <3>1
  <2>2. ASSUME q > y PROVE FALSE
    <3>1. (y + 1) * w <= q * w
      BY <1>2, <2>2
    <3>2. QED
      BY <1>0, <1>1, <1>2, <3>1
  <2>3. QED
    BY <1>2, <2>1, <2>2
<1>4. m = x
  BY <1>0, <1>1, <1>2, <1>3
<1>5. e < w * w
  <2>1. (y + 1) * w <= w * w
    OBVIOUS
  <2>2. QED
    BY <1>0, <2>1
<1>6. QED
  BY <1>1, <1>3, <1>4, <1>5 DEF e, q, m

\* x lies below the r-th part of v, z above it, on a way of length squared q.
Below(x, v, r, q) == Signed(x) * q <= Signed(v * r)
Above(z, v, r, q) == Signed(v * r) <= Signed(z) * q

\* Squares are in the order of what they are squares of.
LEMMA Squares ==
  ASSUME NEW a \in Nat, NEW b \in Nat, a * a <= b * b
  PROVE  a <= b
<1>1. ASSUME a > b PROVE FALSE
  <2>1. a * a >= (b + 1) * a /\ (b + 1) * a >= (b + 1) * (b + 1)
    BY <1>1
  <2>2. (b + 1) * (b + 1) > b * b
    OBVIOUS
  <2>3. QED
    BY <2>1, <2>2
<1>2. QED
  BY <1>1

\* The signed square has the sign of its number.
LEMMA SignedTypes ==
  ASSUME NEW a \in Int
  PROVE  /\ Signed(a) \in Int /\ Signed(-a) = -Signed(a)
         /\ a >= 0 => Signed(a) = a * a /\ a * a >= 0
         /\ a > 0 => Signed(a) > 0
         /\ a < 0 => Signed(a) < 0
BY DEF Signed

\* What lies below on one side of the middle lies above on the other.
LEMMA Mirror ==
  ASSUME NEW x \in Int, NEW v \in Int, NEW r \in Nat, NEW q \in Nat
  PROVE  /\ Below(x, v, r, q) => Above(-x, -v, r, q)
         /\ Above(x, v, r, q) => Below(-x, -v, r, q)
<1>1. Signed(-x) = -Signed(x) /\ Signed(x) \in Int /\ Signed(v * r) \in Int
  BY SignedTypes
<1>2. (-v) * r = -(v * r) /\ Signed(-(v * r)) = -Signed(v * r)
  BY SignedTypes
<1>3. Signed(-x) * q = -(Signed(x) * q) /\ Signed(x) * q \in Int
  BY <1>1
<1>4. QED
  BY <1>1, <1>2, <1>3 DEF Below, Above

\* A corner that is below the way in one coordinate and above it in the other is
\* on one side of it.
LEMMA Slopes ==
  ASSUME NEW a \in Nat, NEW b \in Nat, NEW x \in Int, NEW z \in Int,
         NEW r \in Nat \ {0}, NEW q \in Nat \ {0},
         Below(x, a, r, q), Above(z, b, r, q)
  PROVE  b * x <= a * z
<1>1. /\ a * r \in Nat /\ b * r \in Nat
      /\ Signed(a * r) = (a * r) * (a * r) /\ Signed(b * r) = (b * r) * (b * r)
  BY SignedTypes
<1>2. z >= 0
  <2>1. Signed(b * r) >= 0
    BY <1>1
  <2>2. ASSUME z < 0 PROVE FALSE
    <3>1. Signed(z) < 0 /\ Signed(z) \in Int
      BY <2>2, SignedTypes
    <3>2. \A f \in Int : f < 0 => f * q < 0
      OBVIOUS
    <3>3. Signed(z) * q < 0 /\ Signed(z) * q \in Int /\ Signed(b * r) \in Int
      BY <1>1, <3>1, <3>2
    <3>4. Signed(b * r) <= Signed(z) * q
      BY DEF Above
    <3> HIDE DEF Signed
    <3>5. QED
      BY <2>1, <3>3, <3>4
  <2>3. QED
    BY <2>2
<1>3. a * z >= 0
  BY <1>2
<1>4. CASE x <= 0
  <2>1. b * x <= 0
    BY <1>4
  <2>2. QED
    BY <1>3, <2>1
<1>5. CASE x > 0
  <2>1. (x * x) * q <= (a * r) * (a * r)
    BY <1>1, <1>5, SignedTypes DEF Below
  <2>2. (b * r) * (b * r) <= (z * z) * q
    BY <1>1, <1>2, SignedTypes DEF Above
  <2>3. (b * b) * ((x * x) * q) <= (b * b) * ((a * r) * (a * r))
    <3>1. \A e, f, g \in Int : e >= 0 /\ f <= g => e * f <= e * g
      BY SMT
    <3>2. b * b >= 0 /\ b * b \in Int /\ (x * x) * q \in Int /\ (a * r) * (a * r) \in Int
      OBVIOUS
    <3>3. QED
      BY <2>1, <3>1, <3>2
  <2>4. (a * a) * ((b * r) * (b * r)) <= (a * a) * ((z * z) * q)
    <3>1. \A e, f, g \in Int : e >= 0 /\ f <= g => e * f <= e * g
      BY SMT
    <3>2. a * a >= 0 /\ a * a \in Int /\ (z * z) * q \in Int /\ (b * r) * (b * r) \in Int
      OBVIOUS
    <3>3. QED
      BY <2>2, <3>1, <3>2
  <2>5. (b * b) * ((a * r) * (a * r)) = (a * a) * ((b * r) * (b * r))
    OBVIOUS
  <2>6. ((b * x) * (b * x)) * q <= ((a * z) * (a * z)) * q
    <3>1. (b * b) * ((x * x) * q) = ((b * x) * (b * x)) * q
      OBVIOUS
    <3>2. (a * a) * ((z * z) * q) = ((a * z) * (a * z)) * q
      OBVIOUS
    <3>3. QED
      BY <2>3, <2>4, <2>5, <3>1, <3>2
  <2>7. (b * x) * (b * x) <= (a * z) * (a * z)
    <3>1. \A e, f \in Int : e * q <= f * q => e <= f
      BY SMT
    <3>2. (b * x) * (b * x) \in Int /\ (a * z) * (a * z) \in Int
      BY <1>2
    <3>3. QED
      BY <2>6, <3>1, <3>2
  <2>8. QED
    BY <1>2, <1>5, <2>7, Squares
<1>6. QED
  BY <1>4, <1>5

\* A part of the way is within its extent.
LEMMA InExtent ==
  ASSUME NEW x \in Int, NEW v \in Int, NEW r \in Nat \ {0}, NEW q \in Nat, r * r < q
  PROVE  /\ Below(x, v, r, q) => x <= 0 \/ x <= v
         /\ Above(x, v, r, q) => 0 <= x \/ v <= x
<1>1. ASSUME NEW y \in Int, NEW a \in Int, Below(y, a, r, q), y > 0
      PROVE  y <= a
  <2>1. Signed(y) = y * y /\ y * y > 0 /\ (y * y) * q > 0
    BY <1>1, SignedTypes
  <2>2. Signed(a * r) > 0 /\ a * r \in Int
    <3>1. a * r \in Int /\ Signed(a * r) \in Int /\ Signed(y) * q \in Int
      BY <2>1, SignedTypes
    <3>2. Signed(y) * q <= Signed(a * r)
      BY <1>1 DEF Below
    <3>3. Signed(y) * q > 0
      BY <2>1
    <3>4. QED
      BY <3>1, <3>2, <3>3
  <2>3. a * r > 0
    BY <2>2, SignedTypes DEF Signed
  <2>4. a > 0
    BY <2>3
  <2>5. (y * y) * q <= (a * r) * (a * r)
    BY <1>1, <2>1, <2>2, <2>3, SignedTypes DEF Below
  <2>6. (a * r) * (a * r) = (a * a) * (r * r)
    OBVIOUS
  <2>7. (a * a) * (r * r) <= (a * a) * q
    <3>1. \A e, f, g \in Int : e >= 0 /\ f <= g => e * f <= e * g
      BY SMT
    <3>2. a * a >= 0 /\ a * a \in Int /\ r * r \in Int
      BY <2>4
    <3>3. QED
      BY <3>1, <3>2
  <2>8. y * y <= a * a
    <3>1. \A e, f \in Int : e * q <= f * q => e <= f
      <4>1. q > 0
        OBVIOUS
      <4>2. QED
        BY <4>1, SMT
    <3>2. (y * y) * q <= (a * a) * q
      BY <2>5, <2>6, <2>7
    <3>3. QED
      BY <3>1, <3>2
  <2>9. QED
    BY <1>1, <2>4, <2>8, Squares
<1>2. ASSUME Above(x, v, r, q), x < 0
      PROVE  v <= x
  <2>1. Below(-x, -v, r, q)
    BY <1>2, Mirror
  <2>2. -x <= -v
    BY <1>1, <1>2, <2>1
  <2>3. QED
    BY <2>2
<1>3. QED
  BY <1>1, <1>2

\* There is a cell along the way at each step.
LEMMA AlongExists ==
  ASSUME NEW w \in Nat, NEW c \in Grid(w), NEW a \in 0..(w - 1), NEW r \in Nat \ {0},
         r * r < RSq(c, w)
  PROVE  /\ Along(a, c, r, w) \in 0..w
         /\ Below(2 * Along(a, c, r, w) - w, 2 * a - w, r, RSq(c, w))
         /\ Above(2 * Along(a, c, r, w) + 2 - w, 2 * a - w, r, RSq(c, w))
<1> DEFINE q == RSq(c, w)
           v == 2 * a - w
           part == Signed(v * r)
           At(k) == Signed(2 * k - w) * q
           S == {k \in 0..(w + 1) : At(k) <= part}
<1>1. v \in Int /\ -w <= v /\ v <= w /\ q \in Nat /\ r * r < q
  <2>1. c[1] \in Int /\ c[2] \in Int
    BY DEF Grid
  <2>2. /\ 2 * c[1] - w \in Int /\ 2 * c[2] - w \in Int
        /\ q = (2 * c[1] - w) * (2 * c[1] - w) + (2 * c[2] - w) * (2 * c[2] - w)
    BY <2>1 DEF RSq
  <2>3. \A e \in Int : e * e >= 0 /\ e * e \in Int
    OBVIOUS
  <2>4. q \in Nat
    BY <2>2, <2>3
  <2>5. QED
    BY <2>4
<1> HIDE DEF q, v
<1>2. part \in Int /\ \A k \in Int : At(k) \in Int
  BY <1>1, SignedTypes
<1>3. (v * r) * (v * r) <= (w * w) * q
  <2>1. (v * r) * (v * r) = (v * v) * (r * r)
    BY <1>1
  <2>2. v * v <= w * w /\ 0 <= v * v
    <3>1. v * v = (-v) * (-v)
      BY <1>1
    <3>2. \A e \in Nat : e <= w => e * e <= w * w
      OBVIOUS
    <3>3. v \in Nat \/ -v \in Nat
      BY <1>1
    <3>4. QED
      BY <1>1, <3>1, <3>2, <3>3
  <2>3. \A e, f, h, m \in Nat : e <= f /\ h <= m => e * h <= f * m
    BY SMT
  <2>4. v * v \in Nat /\ r * r \in Nat /\ w * w \in Nat
    BY <1>1, <2>2
  <2>5. (v * v) * (r * r) <= (w * w) * q
    BY <1>1, <2>2, <2>3, <2>4
  <2>6. QED
    BY <2>1, <2>5
<1>4. At(0) <= part
  <2>1. Signed(-w) = -(w * w)
    BY DEF Signed
  <2>2. At(0) = -((w * w) * q)
    BY <1>1, <2>1
  <2>3. part >= 0 \/ part = -((v * r) * (v * r))
    BY <1>1 DEF Signed
  <2>4. (w * w) * q >= 0 /\ (w * w) * q \in Int /\ (v * r) * (v * r) \in Int
    BY <1>1
  <2> HIDE DEF At, part
  <2>5. QED
    BY <1>2, <1>3, <2>2, <2>3, <2>4
<1>5. ~(At(w + 1) <= part)
  <2>1. Signed(2 * (w + 1) - w) = (w + 2) * (w + 2)
    BY DEF Signed
  <2>2. At(w + 1) = ((w + 2) * (w + 2)) * q
    BY <2>1
  <2>3. (w + 2) * (w + 2) = w * w + (4 * w + 4)
    OBVIOUS
  <2>4. ((w + 2) * (w + 2)) * q = (w * w) * q + (4 * w + 4) * q
    BY <1>1, <2>3
  <2>5. (4 * w + 4) * q > 0
    <3>1. q > 0
      BY <1>1
    <3>2. QED
      BY <1>1, <3>1
  <2>6. part <= (v * r) * (v * r)
    BY <1>1 DEF Signed
  <2>7. (w * w) * q \in Int /\ (v * r) * (v * r) \in Int /\ (4 * w + 4) * q \in Int
    BY <1>1
  <2> HIDE DEF At, part
  <2>8. QED
    BY <1>2, <1>3, <2>2, <2>4, <2>5, <2>6, <2>7
<1>6. \E k \in 0..w : At(k) <= part /\ At(k + 1) > part
  <2>1. SUFFICES ASSUME \A k \in 0..w : At(k) <= part => ~(At(k + 1) > part)
                 PROVE  FALSE
    OBVIOUS
  <2>2. \A k \in 0..((w + 1) - 1) : k \in S => k + 1 \in S
    <3> HIDE DEF At, part
    <3>1. QED
      BY <1>2, <2>1
  <2>3. 0 \in S
    BY <1>4
  <2> HIDE DEF S
  <2>4. 0..(w + 1) \subseteq S
    BY <2>2, <2>3, UpTo
  <2>5. QED
    BY <1>5, <2>4 DEF S
<1> DEFINE Fits(k) == /\ Signed(2 * k - w) * RSq(c, w) <= Signed((2 * a - w) * r)
                      /\ Signed(2 * k + 2 - w) * RSq(c, w) > Signed((2 * a - w) * r)
<1>7. \E k \in 0..w : Fits(k)
  <2>1. PICK k \in 0..w : At(k) <= part /\ At(k + 1) > part
    BY <1>6
  <2>2. 2 * (k + 1) - w = 2 * k + 2 - w
    OBVIOUS
  <2>3. Fits(k)
    BY <2>1, <2>2 DEF q, v
  <2>4. QED
    BY <2>3
<1>8. Along(a, c, r, w) \in 0..w /\ Fits(Along(a, c, r, w))
  <2>1. Along(a, c, r, w) = CHOOSE k \in 0..w : Fits(k)
    BY DEF Along
  <2> HIDE DEF Fits
  <2>2. QED
    BY <1>7, <2>1
<1>9. QED
  <2> DEFINE k == Along(a, c, r, w)
  <2>1. /\ k \in 0..w
        /\ Signed(2 * k - w) * q <= part /\ Signed(2 * k + 2 - w) * q > part
    BY <1>8 DEF q, v
  <2>2. Signed(2 * k + 2 - w) * q \in Int
    BY <1>1, <2>1, SignedTypes
  <2> HIDE DEF k
  <2>3. Below(2 * k - w, v, r, q) /\ Above(2 * k + 2 - w, v, r, q)
    BY <1>2, <2>1, <2>2 DEF Below, Above
  <2>4. QED
    BY <2>1, <2>3 DEF k, q, v

\* The ray along <<a, b>> has corners of both sides, or runs through one.
Parts(a, b, X, Y) ==
  /\ \E x \in X, y \in Y : a * y - b * x >= 0
  /\ \E x \in X, y \in Y : a * y - b * x <= 0

\* A way between the sides of a cell leaves no corner of it on its other side.
LEMMA BetweenCorners ==
  ASSUME NEW a \in Int, NEW b \in Int, NEW x1 \in Int, NEW x2 \in Int,
         NEW z1 \in Int, NEW z2 \in Int, NEW r \in Nat \ {0}, NEW q \in Nat \ {0},
         Below(x1, a, r, q), Above(z1, a, r, q), Below(x2, b, r, q), Above(z2, b, r, q)
  PROVE  Parts(a, b, {x1, z1}, {x2, z2})
<1>1. /\ Above(-x1, -a, r, q) /\ Below(-z1, -a, r, q)
      /\ Above(-x2, -b, r, q) /\ Below(-z2, -b, r, q)
  BY Mirror
<1>2. /\ a * x2 \in Int /\ a * z2 \in Int /\ b * x1 \in Int /\ b * z1 \in Int
      /\ \A e, f \in Int : (-e) * f = -(e * f) /\ e * (-f) = -(e * f) /\ (-e) * (-f) = e * f
  OBVIOUS
<1>3. CASE a >= 0 /\ b >= 0
  <2>1. b * x1 <= a * z2
    BY <1>3, Slopes
  <2>2. a * x2 <= b * z1
    BY <1>3, Slopes
  <2>3. QED
    BY <1>2, <2>1, <2>2 DEF Parts
<1>4. CASE a < 0 /\ b >= 0
  <2>1. b * (-z1) <= (-a) * z2
    BY <1>1, <1>4, Slopes
  <2>2. (-a) * x2 <= b * (-x1)
    BY <1>1, <1>4, Slopes
  <2>3. a * z2 - b * z1 <= 0 /\ a * x2 - b * x1 >= 0
    BY <1>2, <2>1, <2>2
  <2>4. QED
    BY <2>3 DEF Parts
<1>5. CASE a >= 0 /\ b < 0
  <2>1. (-b) * x1 <= a * (-x2)
    BY <1>1, <1>5, Slopes
  <2>2. a * (-z2) <= (-b) * z1
    BY <1>1, <1>5, Slopes
  <2>3. a * x2 - b * x1 <= 0 /\ a * z2 - b * z1 >= 0
    BY <1>2, <2>1, <2>2
  <2>4. QED
    BY <2>3 DEF Parts
<1>6. CASE a < 0 /\ b < 0
  <2>1. (-b) * (-z1) <= (-a) * (-x2)
    BY <1>1, <1>6, Slopes
  <2>2. (-a) * (-z2) <= (-b) * (-x1)
    BY <1>1, <1>6, Slopes
  <2>3. a * x2 - b * z1 >= 0 /\ a * z2 - b * x1 <= 0
    BY <1>2, <2>1, <2>2
  <2>4. QED
    BY <2>3 DEF Parts
<1>7. QED
  BY <1>3, <1>4, <1>5, <1>6

\* The way to a cell meets every cell of the ray that the table is built from.
LEMMA RayMeets ==
  ASSUME NEW w \in Nat, NEW c \in Grid(w), NEW o \in RayOf(c, w)
  PROVE  Meets(o, c, w)
<1>1. PICK r \in Before(c, w) : o = <<Along(c[1], c, r, w), Along(c[2], c, r, w)>>
  BY DEF RayOf
<1> DEFINE q == RSq(c, w)
           a == 2 * c[1] - w
           b == 2 * c[2] - w
           x == 2 * o[1] - w
           y == 2 * o[2] - w
<1>2. c[1] \in 0..(w - 1) /\ c[2] \in 0..(w - 1) /\ c = <<c[1], c[2]>>
  BY DEF Grid
<1>3. a \in Int /\ b \in Int /\ q \in Nat /\ r \in Nat \ {0} /\ r * r < q
  <2>1. r \in 2..(2 * w) /\ (r + 2) * (r + 2) < q
    BY DEF Before
  <2>2. a \in Int /\ b \in Int /\ q = a * a + b * b
    BY <1>2 DEF RSq
  <2>3. \A e \in Int : e * e >= 0 /\ e * e \in Int
    OBVIOUS
  <2>4. q \in Nat
    BY <2>2, <2>3
  <2>5. (r + 2) * (r + 2) = r * r + (4 * r + 4)
    BY <2>1
  <2>6. QED
    BY <2>1, <2>2, <2>4, <2>5
<1>4. /\ o[1] \in 0..w /\ Below(x, a, r, q) /\ Above(2 * o[1] + 2 - w, a, r, q)
      /\ o[2] \in 0..w /\ Below(y, b, r, q) /\ Above(2 * o[2] + 2 - w, b, r, q)
  BY <1>1, <1>2, <1>3, AlongExists
<1>5. /\ x \in Int /\ y \in Int /\ x + 2 = 2 * o[1] + 2 - w /\ y + 2 = 2 * o[2] + 2 - w
      /\ x + 2 \in Int /\ y + 2 \in Int
  BY <1>4
<1> HIDE DEF q, a, b, x, y
<1>6. /\ x <= 0 \/ x <= a
      /\ 0 <= x + 2 \/ a <= x + 2
      /\ y <= 0 \/ y <= b
      /\ 0 <= y + 2 \/ b <= y + 2
  BY <1>3, <1>4, <1>5, InExtent
<1>7. q \in Nat \ {0}
  BY <1>3
<1>8. /\ \E e \in {x, x + 2}, f \in {y, y + 2} : a * f - b * e >= 0
      /\ \E e \in {x, x + 2}, f \in {y, y + 2} : a * f - b * e <= 0
  <2> DEFINE z1 == x + 2
             z2 == y + 2
  <2>1. /\ Below(x, a, r, q) /\ Above(z1, a, r, q) /\ z1 \in Int
        /\ Below(y, b, r, q) /\ Above(z2, b, r, q) /\ z2 \in Int
    BY <1>4, <1>5
  <2> HIDE DEF z1, z2
  <2>2. Parts(a, b, {x, z1}, {y, z2})
    BY <1>3, <1>5, <1>7, <2>1, BetweenCorners
  <2>3. QED
    BY <2>2 DEF Parts, z1, z2
<1>9. QED
  BY <1>6, <1>8 DEF Meets, a, b, x, y

\* What the table says to be hidden is behind.
LEMMA HiddenIsBehind ==
  ASSUME NEW w \in Nat, NEW o \in Grid(w), NEW c \in Table(w)[o]
  PROVE  c \in Grid(w) /\ c # o /\ Meets(o, c, w)
<1>1. c \in Grid(w) /\ c # o /\ <<o, c>> \in Rays(w)
  BY DEF Table
<1>2. PICK d \in Grid(w) : <<o, c>> \in {<<e, d>> : e \in RayOf(d, w)}
  BY <1>1 DEF Rays
<1>3. o \in RayOf(c, w)
  BY <1>2
<1>4. QED
  BY <1>1, <1>3, RayMeets

\* Occlusion leaves out only what an obstacle hides, and all that an obstacle hides
\* which is still there at the end.
LEMMA OccludedOrSeen ==
  ASSUME NEW w \in Nat, NEW data, DOMAIN data = Grid(w), data = [c \in Grid(w) |-> data[c]],
         \A o \in Grid(w) : hides[o] \subseteq Grid(w)
  PROVE  /\ \A c \in Grid(w) :
              \/ Occlude(data, w)[c] = data[c]
              \/ /\ Occlude(data, w)[c] = Unseen
                 /\ \E o \in Grid(w) : data[o] = Obstacle /\ c \in hides[o]
         /\ \A c \in Grid(w) :
              Occlude(data, w)[c] = Obstacle
                => \A d \in hides[c] : Occlude(data, w)[d] = Unseen
<1> DEFINE n == w * w
           Hidden(c) == \E o \in Grid(w) : data[o] = Obstacle /\ c \in hides[o]
           Shown(f, c) == f[c] = data[c] \/ (f[c] = Unseen /\ Hidden(c))
           T == {f \in [Grid(w) -> {data[c] : c \in Grid(w)} \cup {Unseen}] :
                   \A c \in Grid(w) : Shown(f, c)}
           Next1(f, c) == IF f[c] # Obstacle THEN f
                          ELSE [d \in Grid(w) |-> IF d \in hides[c] THEN Unseen ELSE f[d]]
           At(i) == <<(i - 1) % w, (i - 1) \div w>>
           step == [i \in 1..n |-> [f \in T |-> Next1(f, At(i))]]
           Shows(g) == g = [i \in 0..n |-> IF i = 0 THEN data ELSE Next1(g[i - 1], At(i))]
           seen == CHOOSE g : Shows(g)
           Hides(f, c) == f[c] = Obstacle => \A d \in hides[c] : f[d] = Unseen
<1>1. n \in Nat /\ data \in T
  <2>1. n \in Nat
    OBVIOUS
  <2>2. data \in T
    OBVIOUS
  <2>3. QED
    BY <2>1, <2>2
<1>2. Obstacle # Unseen
  BY DEF Obstacle, Unseen
<1>3. ASSUME NEW i \in 1..n
      PROVE  At(i) \in Grid(w)
  <2>1. w \in Nat \ {0} /\ i - 1 \in 0..(w * w - 1) /\ i - 1 \in Nat
    <3>1. w = 0 => n = 0
      OBVIOUS
    <3>2. QED
      BY <1>1, <3>1
  <2>2. (i - 1) % w \in 0..(w - 1) /\ (i - 1) \div w \in 0..(w - 1)
    BY <2>1, DivMod, DivBelow
  <2>3. QED
    BY <2>2 DEF Grid
<1>4. ASSUME NEW f \in T, NEW c \in Grid(w)
      PROVE  /\ Next1(f, c) \in T
             /\ Hides(Next1(f, c), c)
             /\ \A e \in Grid(w) : Hides(f, e) => Hides(Next1(f, c), e)
  <2>1. CASE f[c] # Obstacle
    BY <2>1
  <2>2. CASE f[c] = Obstacle
    <3> DEFINE g == [d \in Grid(w) |-> IF d \in hides[c] THEN Unseen ELSE f[d]]
    <3>1. Next1(f, c) = g
      BY <2>2
    <3>2. data[c] = Obstacle
      BY <1>2, <2>2
    <3>3. g \in [Grid(w) -> {data[e] : e \in Grid(w)} \cup {Unseen}]
      OBVIOUS
    <3>4. ASSUME NEW e \in Grid(w)
          PROVE  Shown(g, e)
      BY <3>2
    <3>5. g \in T
      BY <3>3, <3>4
    <3>6. ASSUME NEW e \in Grid(w), g[e] = Obstacle, Hides(f, e) \/ e = c
          PROVE  \A d \in hides[e] : g[d] = Unseen
      <4>1. hides[e] \subseteq Grid(w) /\ f[e] = Obstacle
        BY <1>2, <3>6
      <4>2. QED
        BY <3>6, <4>1
    <3>7. Hides(g, c) /\ \A e \in Grid(w) : Hides(f, e) => Hides(g, e)
      BY <3>6
    <3> HIDE DEF g
    <3>8. QED
      BY <3>1, <3>5, <3>7
  <2>3. QED
    BY <2>1, <2>2
<1>5. Occlude(data, w) = seen[n]
  BY DEF Occlude
<1> HIDE DEF n, T, Next1, At
<1>6. step \in [1..n -> [T -> T]]
  BY <1>3, <1>4
<1>7. \E g : Shows(g)
  <2>1. ASSUME NEW i \in 1..n, NEW f \in T
        PROVE  step[i][f] = Next1(f, At(i))
    OBVIOUS
  <2> HIDE DEF step
  <2>2. PICK g \in [0..n -> T] : Follows(g, n, data, step)
    BY <1>1, <1>6, RecursionUpTo
  <2>3. ASSUME NEW i \in 1..n
        PROVE  g[i] = Next1(g[i - 1], At(i))
    BY <1>1, <2>1, <2>2 DEF Follows
  <2>4. Shows(g)
    BY <1>1, <2>2, <2>3 DEF Follows
  <2>5. QED
    BY <2>4
<1>8. Shows(seen)
  BY <1>7
<1> HIDE DEF seen, Hides
<1> DEFINE S == {i \in 0..n : seen[i] \in T /\ \A k \in 1..i : Hides(seen[i], At(k))}
<1>9. 0..n \subseteq S
  <2>1. 0 \in S
    BY <1>1, <1>8
  <2>2. ASSUME NEW i \in 0..(n - 1), i \in S
        PROVE  i + 1 \in S
    <3>1. i + 1 \in 0..n /\ i + 1 # 0 /\ (i + 1) - 1 = i /\ i + 1 \in 1..n
      BY <1>1
    <3>2. seen[i + 1] = Next1(seen[i], At(i + 1))
      BY <1>8, <3>1
    <3>3. seen[i] \in T /\ \A k \in 1..i : Hides(seen[i], At(k))
      BY <2>2
    <3>4. At(i + 1) \in Grid(w)
      BY <1>3, <3>1
    <3>5. seen[i + 1] \in T /\ Hides(seen[i + 1], At(i + 1))
      BY <1>4, <3>2, <3>3, <3>4
    <3>6. ASSUME NEW k \in 1..i
          PROVE  Hides(seen[i + 1], At(k))
      <4>1. k \in 1..n
        BY <1>1
      <4>2. QED
        BY <1>3, <1>4, <3>2, <3>3, <3>4, <4>1
    <3>7. \A k \in 1..(i + 1) : k \in 1..i \/ k = i + 1
      BY <1>1
    <3>8. QED
      BY <3>1, <3>5, <3>6, <3>7
  <2> HIDE DEF S
  <2>3. QED
    BY <1>1, <2>1, <2>2, UpTo
<1>10. seen[n] \in T /\ \A k \in 1..n : Hides(seen[n], At(k))
  BY <1>1, <1>9
<1>11. ASSUME NEW c \in Grid(w)
       PROVE  \E k \in 1..n : At(k) = c
  <2>1. c[1] \in 0..(w - 1) /\ c[2] \in 0..(w - 1) /\ c = <<c[1], c[2]>>
    BY DEF Grid
  <2>2. w \in Nat \ {0}
    BY <2>1
  <2> DEFINE e == c[2] * w + c[1]
  <2>3. e \in 0..(w * w - 1) /\ e % w = c[1] /\ e \div w = c[2]
    BY <2>1, <2>2, AddressOfCell
  <2> HIDE DEF e
  <2>4. e + 1 \in 1..n /\ (e + 1) - 1 = e
    BY <2>2, <2>3 DEF n
  <2>5. At(e + 1) = c
    BY <2>1, <2>3, <2>4 DEF At
  <2>6. QED
    BY <2>4, <2>5
<1>12. \A c \in Grid(w) : Hides(seen[n], c)
  BY <1>10, <1>11
<1>13. \A c \in Grid(w) : Shown(seen[n], c)
  BY <1>10 DEF T
<1>14. QED
  BY <1>5, <1>12, <1>13 DEF Hides

CropperInv ==
  /\ settings \in Settings
  /\ hides = Table(settings.width)
  /\ large \in LargeMaps \cup {NoGrid}
  /\ CropMatches

\* A cell of the local map, at place p of the map m that it is cut out of.
LEMMA CellMatches ==
  ASSUME NEW m \in LargeMaps, NEW a1 \in Int, NEW a2 \in Int, NEW c \in Int \X Int,
         NEW at1 \in Int, at1 = a1 + 2 * c[1], NEW at2 \in Int, at2 = a2 + 2 * c[2],
         NEW p, p = <<Rounded(a1) + c[1], Rounded(a2) + c[2]>>
  PROVE  \/ p[1] \in Near(at1, m.width) /\ p[2] \in Near(at2, m.height)
         \/ /\ ~(/\ 0 <= p[1] /\ p[1] < m.width
                 /\ 0 <= p[2] /\ p[2] < m.height)
            /\ \/ at1 < 0 \/ at1 + 2 > 2 * m.width
               \/ at2 < 0 \/ at2 + 2 > 2 * m.height
<1> DEFINE r1 == Rounded(a1)
           r2 == Rounded(a2)
<1>1. r1 \in Int /\ 2 * r1 - a1 \in -1..1 /\ r2 \in Int /\ 2 * r2 - a2 \in -1..1
  BY RoundedIsNear
<1>2. p[1] = r1 + c[1] /\ p[2] = r2 + c[2] /\ c[1] \in Int /\ c[2] \in Int
  OBVIOUS
<1> HIDE DEF r1, r2
<1>3. m.width \in Nat /\ m.height \in Nat
  BY CropperAssumption DEF CropperAssumption
<1>4. 2 * p[1] - at1 \in -1..1 /\ p[1] \in Int
  BY <1>1, <1>2
<1>5. 2 * p[2] - at2 \in -1..1 /\ p[2] \in Int
  BY <1>1, <1>2
<1>6. QED
  BY <1>3, <1>4, <1>5 DEF Near

\* Without occlusion every cell shows what may be there.
LEMMA SeenMayBe ==
  ASSUME settings \in Settings, large \in LargeMaps, NEW w, w = settings.width,
         NEW origin, origin[1] \in Int, origin[2] \in Int,
         NEW crop, crop.origin = origin, crop.of = large,
         NEW at, \A i \in {1, 2} : at[i] = Rounded(origin[i] - large.origin[i]),
         NEW c \in Grid(w)
  PROVE  Seen(c, <<at[1] + c[1], at[2] + c[2]>>) \in MayBe(c, crop)
<1> DEFINE p  == <<at[1] + c[1], at[2] + c[2]>>
           a1 == origin[1] - large.origin[1]
           a2 == origin[2] - large.origin[2]
           m1 == origin[1] + 2 * c[1] - large.origin[1]
           m2 == origin[2] + 2 * c[2] - large.origin[2]
           Off == \/ m1 < 0 \/ m1 + 2 > 2 * large.width
                  \/ m2 < 0 \/ m2 + 2 > 2 * large.height
           Values2 == {u \in {Unseen} : Off}
                \cup {large.data[y * large.width + x] :
                        x \in Near(m1, large.width), y \in Near(m2, large.height)}
<1>1. w \in Nat /\ c[1] \in Int /\ c[2] \in Int /\ c \in Int \X Int
  BY CropperAssumption DEF CropperAssumption, Grid
<1>2. large.origin[1] \in Int /\ large.origin[2] \in Int
  BY CropperAssumption DEF CropperAssumption
<1>3. a1 \in Int /\ a2 \in Int /\ m1 = a1 + 2 * c[1] /\ m2 = a2 + 2 * c[2] /\ m1 \in Int /\ m2 \in Int
  BY <1>1, <1>2
<1>4. p = <<Rounded(a1) + c[1], Rounded(a2) + c[2]>>
  OBVIOUS
<1> HIDE DEF p, a1, a2, m1, m2
<1>5. \/ p[1] \in Near(m1, large.width) /\ p[2] \in Near(m2, large.height)
      \/ ~Inside(p) /\ Off
  BY <1>1, <1>3, <1>4, CellMatches DEF Inside
<1>6. MayBe(c, crop) = IF Surrounding(c) THEN {Obstacle}
                      ELSE IF settings.round /\ RSq(c, w) > w * w THEN {Unseen}
                      ELSE Values2
  BY DEF MayBe, Corner, m1, m2
<1>7. (IF ~Inside(p) THEN Unseen ELSE Cell(p)) \in Values2
  <2>1. CASE p[1] \in Near(m1, large.width) /\ p[2] \in Near(m2, large.height)
    <3>1. Inside(p)
      <4>1. large.width \in Nat /\ large.height \in Nat
        BY CropperAssumption DEF CropperAssumption
      <4>2. p[1] \in 0..(large.width - 1) /\ p[2] \in 0..(large.height - 1)
        BY <2>1 DEF Near
      <4>3. QED
        BY <4>1, <4>2 DEF Inside
    <3>2. QED
      BY <2>1, <3>1 DEF Cell
  <2>2. CASE ~Inside(p) /\ Off
    BY <2>2
  <2>3. QED
    BY <1>5, <2>1, <2>2
<1> HIDE DEF Values2
<1>8. Seen(c, p) \in MayBe(c, crop)
  BY <1>6, <1>7 DEF Seen
<1>9. QED
  BY <1>8 DEF p

\* What is published is true.
LEMMA PublishedMatches ==
  ASSUME CropperInv, large # NoGrid, NEW center \in Positions, publishMap(center),
         settings' = settings, hides' = hides
  PROVE  CropMatches'
<1> DEFINE w      == settings.width
           origin == [i \in {1, 2} |-> 2 * Truncated(center[i]) - w]
           at     == [i \in {1, 2} |-> Rounded(origin[i] - large.origin[i])]
           data   == [c \in Grid(w) |-> Seen(c, <<at[1] + c[1], at[2] + c[2]>>)]
           cells  == IF settings.occlusion THEN Occlude(data, w) ELSE data
<1>1. large \in LargeMaps /\ w \in Nat /\ settings \in Settings
  BY CropperAssumption DEF CropperInv, CropperAssumption
<1>2. center[1] \in Int /\ center[2] \in Int
  BY CropperAssumption DEF CropperAssumption
<1>3. origin[1] \in Int /\ origin[2] \in Int
  BY <1>1, <1>2, TruncatedIsInt
<1>4. local' = [origin |-> origin, of |-> large, data |-> cells]
  BY DEF publishMap
<1>5. local'.origin = origin /\ local'.of = large /\ local'.data = cells
  BY <1>4
<1>6. \A o \in Grid(w) : \A c \in hides[o] : c \in Grid(w) /\ c # o /\ Meets(o, c, w)
  <2>1. hides = Table(w)
    BY DEF CropperInv
  <2>2. QED
    BY <1>1, <2>1, HiddenIsBehind
<1>7. \A c \in Grid(w) : data[c] \in MayBe(c, local')
  <2>1. ASSUME NEW c \in Grid(w)
        PROVE  Seen(c, <<at[1] + c[1], at[2] + c[2]>>) \in MayBe(c, local')
    <3>1. \A i \in {1, 2} : at[i] = Rounded(origin[i] - large.origin[i])
      OBVIOUS
    <3> HIDE DEF at, origin
    <3>2. QED
      BY <1>1, <1>3, <1>5, <3>1, SeenMayBe
  <2>2. QED
    BY <2>1
<1>8. DOMAIN data = Grid(w) /\ data = [c \in Grid(w) |-> data[c]]
  OBVIOUS
<1> HIDE DEF data, origin, at
<1>9. settings.occlusion =>
        /\ \A c \in Grid(w) :
             \/ cells[c] = data[c]
             \/ cells[c] = Unseen /\ \E o \in Grid(w) : data[o] = Obstacle /\ c \in hides[o]
        /\ \A c \in Grid(w) : cells[c] = Obstacle => \A d \in hides[c] : cells[d] = Unseen
  <2>1. \A o \in Grid(w) : hides[o] \subseteq Grid(w)
    BY <1>6
  <2>2. QED
    BY <1>1, <1>8, <2>1, OccludedOrSeen
<1>10. ~settings.occlusion => cells = data
  OBVIOUS
<1> HIDE DEF cells
<1>11. ASSUME NEW c \in Grid(w)
       PROVE  /\ \/ cells[c] \in MayBe(c, local')
                 \/ /\ settings.occlusion /\ cells[c] = Unseen
                    /\ \E o \in Grid(w) \ {c} : Meets(o, c, w) /\ Obstacle \in MayBe(o, local')
              /\ settings.occlusion /\ cells[c] = Obstacle => \A d \in hides[c] : cells[d] = Unseen
  <2>1. CASE cells[c] = data[c]
    BY <1>7, <1>9, <2>1
  <2>2. CASE cells[c] # data[c]
    <3>1. PICK o \in Grid(w) : data[o] = Obstacle /\ c \in hides[o]
      BY <1>9, <1>10, <2>2
    <3>2. o # c /\ Meets(o, c, w) /\ Obstacle \in MayBe(o, local')
      BY <1>6, <1>7, <3>1
    <3>3. QED
      BY <1>9, <1>10, <2>2, <3>1, <3>2
  <2>3. QED
    BY <2>1, <2>2
<1>12. \A c : MayBe(c, local)' = MayBe(c, local')
  BY DEF MayBe, Corner, Surrounding
<1>13. QED
  BY <1>5, <1>11, <1>12 DEF CropMatches

\* Every step keeps what the local map shows true.
LEMMA StepKeepsCrop ==
  ASSUME CropperInv, [CropperNext]_cropperVars
  PROVE  CropperInv'
<1>0. settings' = settings /\ local' = local /\ hides' = hides => CropMatches'
  <2> SUFFICES ASSUME settings' = settings, local' = local, hides' = hides
               PROVE  CropMatches'
    OBVIOUS
  <2>1. \A c : MayBe(c, local)' = MayBe(c, local)
    BY DEF MayBe, Corner, Surrounding
  <2>2. QED
    BY <2>1 DEF CropperInv, CropMatches
<1>1. CASE UNCHANGED cropperVars
  BY <1>0, <1>1 DEF cropperVars, CropperInv
<1>2. CASE cbLargeMap
  BY <1>0, <1>2 DEF cbLargeMap, CropperInv
<1>3. CASE cbCropTimer
  <2>1. PICK center \in Positions : publishMap(center)
    BY <1>3 DEF cbCropTimer
  <2>2. CropMatches'
    BY <1>3, <2>1, PublishedMatches DEF cbCropTimer
  <2>3. QED
    BY <1>3, <2>2 DEF cbCropTimer, CropperInv
<1>4. QED
  BY <1>1, <1>2, <1>3 DEF CropperNext, LargemapToMapNode, LargemapToMapNodeRos1

\* The simulated sensor shows what is in the large map within half a cell of its
\* place, leaves cells out only behind an obstacle on the straight way to them, and
\* nothing is shown behind an obstacle that is, for maps of every size and origin,
\* every width of the local map and every position (publishMap).
THEOREM CropsAreTrue ==
  CropperSpec => []CropMatches
<1>1. CropperInit => CropperInv
  BY DEF CropperInit, CropperInv, CropMatches
<1>2. CropperInv => CropMatches
  BY DEF CropperInv
<1>3. QED
  BY <1>1, <1>2, StepKeepsCrop, PTL DEF CropperSpec

-----------------------------------------------------------------------------
(* The floors of map_organizer *)

\* A finite set of numbers has a smallest one.
LEMMA LowestExists ==
  ASSUME NEW T \in SUBSET Int, IsFiniteSet(T), T # {}
  PROVE  \E h \in T : \A g \in T : h <= g
<1> DEFINE Lowest(A) == \E h \in A : \A g \in A : h <= g
           Bad == {A \in FiniteSubsetsOf(T) : A # {} /\ ~Lowest(A)}
<1>1. SUFFICES ASSUME ~Lowest(T)
               PROVE  FALSE
  OBVIOUS
<1>2. T \in Bad
  BY <1>1 DEF FiniteSubsetsOf
<1>3. PICK A \in Bad : \A B \in Bad : <<B, A>> \notin StrictSubsetOrdering(T)
  <2>1. IsWellFoundedOn(StrictSubsetOrdering(T), FiniteSubsetsOf(T))
    BY FS_StrictSubsetOrderingWellFounded
  <2>2. Bad \subseteq FiniteSubsetsOf(T)
    OBVIOUS
  <2> HIDE DEF Bad
  <2>3. QED
    BY <1>2, <2>1, <2>2, WFMin
<1>4. A \in FiniteSubsetsOf(T) /\ A # {} /\ ~Lowest(A) /\ A \subseteq Int
  BY <1>3 DEF FiniteSubsetsOf
<1>5. PICK a \in A : TRUE
  BY <1>4
<1> DEFINE B == A \ {a}
<1>6. CASE B = {}
  <2>1. A = {a} /\ a \in Int
    BY <1>4, <1>5, <1>6
  <2>2. Lowest(A)
    BY <2>1
  <2>3. QED
    BY <1>4, <2>2
<1>7. CASE B # {}
  <2>1. B \in FiniteSubsetsOf(T)
    <3>1. IsFiniteSet(A) /\ A \subseteq T
      BY <1>4 DEF FiniteSubsetsOf
    <3>2. IsFiniteSet(B)
      BY <3>1, FS_Subset
    <3>3. QED
      BY <3>1, <3>2 DEF FiniteSubsetsOf
  <2>2. <<B, A>> \in StrictSubsetOrdering(T)
    BY <1>4, <1>5 DEF StrictSubsetOrdering, FiniteSubsetsOf
  <2>3. Lowest(B)
    BY <1>3, <1>7, <2>1, <2>2
  <2>4. PICK h \in B : \A g \in B : h <= g
    BY <2>3
  <2>5. h \in Int /\ a \in Int /\ h \in A
    BY <1>4, <1>5, <2>4
  <2>6. CASE h <= a
    <3>1. \A g \in A : h <= g
      BY <2>4, <2>6
    <3>2. QED
      BY <1>4, <2>5, <3>1
  <2>7. CASE a <= h
    <3>1. \A g \in A : a <= g
      BY <1>4, <2>4, <2>5, <2>7
    <3>2. QED
      BY <1>4, <1>5, <3>1
  <2>8. QED
    BY <2>5, <2>6, <2>7
<1>8. QED
  BY <1>6, <1>7

\* The numbers of a finite set can be counted from the lowest on.
LEMMA RankExists ==
  ASSUME NEW T \in SUBSET Int, IsFiniteSet(T), NEW k \in 1..Cardinality(T)
  PROVE  \E h \in T : Cardinality({g \in T : g < h}) = k - 1
<1> DEFINE Under(h) == {g \in T : g < h}
           S == {i \in Nat : i < Cardinality(T) => \E h \in T : Cardinality(Under(h)) = i}
           n == Cardinality(T)
<1>1. n \in Nat
  BY FS_CardinalityType
<1>2. 0 \in S
  <2>1. CASE n = 0
    BY <2>1
  <2>2. CASE n # 0
    <3>1. T # {}
      BY <2>2, FS_EmptySet
    <3>2. PICK h \in T : \A g \in T : h <= g
      BY <3>1, LowestExists
    <3>3. Under(h) = {}
      <4>1. ASSUME NEW g \in T
            PROVE  ~(g < h)
        BY <3>2
      <4>2. QED
        BY <4>1
    <3>4. Cardinality(Under(h)) = 0
      BY <3>3, FS_EmptySet
    <3>5. QED
      BY <3>4
  <2>3. QED
    BY <2>1, <2>2
<1>3. ASSUME NEW i \in 0..(n - 1), i \in S
      PROVE  i + 1 \in S
  <2>1. SUFFICES ASSUME i + 1 < n
                 PROVE  \E h \in T : Cardinality(Under(h)) = i + 1
    BY <1>1
  <2>2. PICK h \in T : Cardinality(Under(h)) = i
    BY <1>1, <1>3, <2>1
  <2> DEFINE Upto == Under(h) \cup {h}
             Rest == T \ Upto
  <2>3. IsFiniteSet(Under(h)) /\ h \notin Under(h)
    BY FS_Subset
  <2>4. IsFiniteSet(Upto) /\ Cardinality(Upto) = i + 1
    BY <2>2, <2>3, FS_AddElement
  <2>5. Rest # {}
    <3>1. Rest = {} => Upto = T
      BY <2>2
    <3> HIDE DEF Upto, Rest
    <3>2. Upto # T
      BY <1>1, <2>1, <2>4
    <3>3. QED
      BY <3>1, <3>2
  <2>6. IsFiniteSet(Rest)
    BY FS_Subset
  <2>7. PICK m \in Rest : \A g \in Rest : m <= g
    BY <2>5, <2>6, LowestExists
  <2>8. Under(m) = Upto
    <3>1. m \in T /\ m > h
      BY <2>7
    <3>2. \A g \in Upto : g < m
      BY <3>1
    <3>3. \A g \in T : g < m => g \in Upto
      BY <2>7
    <3>4. QED
      BY <3>1, <3>2, <3>3
  <2>9. QED
    BY <2>4, <2>7, <2>8
<1>4. 0..n \subseteq S
  <2> HIDE DEF S
  <2>1. QED
    BY <1>1, <1>2, <1>3, UpTo
<1>5. k - 1 \in S /\ k - 1 \in Nat /\ k - 1 < n
  BY <1>1, <1>4
<1>6. QED
  BY <1>5

Values == {Unknown, Free, Blocked}
FloorMaps == [height : Int, data : [FloorCells -> Values]]

\* A cell is unknown, free or blocked, also where slopes are merged and the
\* floor is filled.
LEMMA SliceTypes ==
  ASSUME NEW cloud, NEW h
  PROVE  Filled(MergeSlopes(cloud, h)) \in [FloorCells -> Values]
<1>1. floor(cloud, h) \in [FloorCells -> Values]
  BY DEF floor, Values
<1>2. MergeSlopes(cloud, h) \in [FloorCells -> Values]
  BY <1>1 DEF MergeSlopes, Values
<1>3. QED
  BY <1>2 DEF Filled, Values

\* The accepted floors of a cloud are a finite set of heights.
LEMMA AcceptedIsFinite ==
  ASSUME NEW cloud \in Clouds
  PROVE  Accepted(cloud) \in SUBSET Int /\ IsFiniteSet(Accepted(cloud))
<1>1. IsFiniteSet(cloud) /\ \A p \in cloud : p.z \in Int
  BY OrganizerAssumption DEF OrganizerAssumption
<1>2. Accepted(cloud) \subseteq Heights(cloud)
  BY DEF Accepted, Candidates
<1>3. IsFiniteSet(Heights(cloud))
  <2> DEFINE z == [p \in cloud |-> p.z]
  <2>1. z \in Surjection(cloud, Heights(cloud))
    BY DEF Surjection, Heights
  <2>2. QED
    BY <1>1, <2>1, FS_Surjection
<1>4. QED
  BY <1>1, <1>2, <1>3, FS_Subset DEF Heights

\* One map per accepted floor, the lowest first.
LEMMA SlicesAscend ==
  ASSUME NEW cloud \in Clouds
  PROVE  /\ generateMaps(cloud) \in Seq(FloorMaps)
         /\ Len(generateMaps(cloud)) = Cardinality(Accepted(cloud))
         /\ \A k \in 1..Cardinality(Accepted(cloud)) :
              /\ generateMaps(cloud)[k].height \in Accepted(cloud)
              /\ Cardinality({g \in Accepted(cloud) : g < generateMaps(cloud)[k].height}) = k - 1
<1> DEFINE floors == Accepted(cloud)
           n    == Cardinality(floors)
           height(k) == CHOOSE h \in floors : Cardinality({g \in floors : g < h}) = k - 1
           m(k) == [height |-> height(k), data |-> Filled(MergeSlopes(cloud, height(k)))]
<1>1. floors \in SUBSET Int /\ IsFiniteSet(floors)
  BY AcceptedIsFinite
<1>2. generateMaps(cloud) = [k \in 1..n |-> m(k)]
  BY DEF generateMaps
<1> HIDE DEF floors
<1>3. n \in Nat
  BY <1>1, FS_CardinalityType
<1>4. ASSUME NEW k \in 1..n
      PROVE  height(k) \in floors /\ Cardinality({g \in floors : g < height(k)}) = k - 1
  BY <1>1, RankExists
<1> HIDE DEF height, n
<1>5. ASSUME NEW k \in 1..n
      PROVE  m(k) \in FloorMaps /\ m(k).height = height(k)
  BY <1>1, <1>4, SliceTypes DEF FloorMaps
<1> HIDE DEF m
<1>6. generateMaps(cloud) \in Seq(FloorMaps) /\ Len(generateMaps(cloud)) = n
  BY <1>2, <1>3, <1>5
<1>7. QED
  BY <1>2, <1>4, <1>5, <1>6 DEF floors, n

Images == {<<>>} \cup [FloorCells -> {254, 0, 205}]
Written == [height : Int, image : Images]

OrganizerTypes ==
  /\ maps \in Seq(FloorMaps)
  /\ select \in [maps : Seq(FloorMaps), infos : Seq(Int), cur : Floors \cup Int, prev : Floors \cup Int]
  /\ files \in Seq(Written)
  /\ saved \in Seq(FloorMaps)

\* What select_map keeps of the maps fits them, and so does what it shows.
InfosFit ==
  /\ Len(select.infos) = Len(select.maps)
  /\ \A i \in 1..Len(select.maps) : select.infos[i] = select.maps[i].height
  /\ TransformFitsMap

\* The files of the maps that were saved without a failure.
SavedInFiles ==
  saved # NoMaps => /\ Len(saved) <= Len(files)
                    /\ \A i \in 1..Len(saved) : files[i] = File(saved[i])

OrganizerInv == OrganizerTypes /\ InfosFit /\ SavedInFiles

\* Reading a pixel undoes writing it, and a row turned over twice is where it was.
LEMMA FilesReturn ==
  ASSUME NEW m \in FloorMaps
  PROVE  Loaded(File(m)) = m /\ File(m) \in Written
<1> DEFINE flip(c) == <<c[1], Row(c[2])>>
<1>1. ASSUME NEW c \in FloorCells
      PROVE  flip(c) \in FloorCells /\ flip(flip(c)) = c
  BY OrganizerAssumption DEF OrganizerAssumption, Row
<1>2. ASSUME NEW v \in Values
      PROVE  Occupied(Pixel(v)) = v /\ Pixel(v) \in {254, 0, 205}
  BY DEF Values, Unknown, Free, Blocked, Occupied, Pixel
<1>3. \A c \in FloorCells : m.data[c] \in Values
  BY DEF FloorMaps
<1> DEFINE image == [c \in FloorCells |-> Pixel(m.data[flip(c)])]
<1>4. File(m) = [height |-> m.height, image |-> image]
  BY DEF File
<1>5. image \in [FloorCells -> {254, 0, 205}]
  BY <1>1, <1>2, <1>3
<1>6. ASSUME NEW c \in FloorCells
      PROVE  Occupied(image[flip(c)]) = m.data[c]
  BY <1>1, <1>2, <1>3
<1> HIDE DEF image
<1>7. Loaded(File(m)) = [height |-> m.height, data |-> [c \in FloorCells |-> Occupied(image[flip(c)])]]
  BY <1>4 DEF Loaded, Row
<1> HIDE DEF flip
<1>8. [c \in FloorCells |-> Occupied(image[flip(c)])] = m.data
  BY <1>6 DEF FloorMaps
<1>9. QED
  BY <1>4, <1>5, <1>7, <1>8 DEF FloorMaps, Written, Images

\* The greater of two numbers.
LEMMA MaxOfTwo ==
  ASSUME NEW a \in Nat, NEW b \in Nat
  PROVE  Max({a, b}) \in Nat /\ Max({a, b}) >= a /\ Max({a, b}) >= b
         /\ (Max({a, b}) = a \/ Max({a, b}) = b)
<1>1. \E x \in {a, b} : \A y \in {a, b} : x >= y
  OBVIOUS
<1>2. QED
  BY <1>1 DEF Max

\* What save_maps writes.
LEMMA SaveKeeps ==
  ASSUME OrganizerInv, mapsCallback
  PROVE  OrganizerInv'
<1>1. PICK failing \in SUBSET DOMAIN maps :
        files' = mapCallbacks(failing) /\ saved' = IF failing = {} THEN maps ELSE NoMaps
  BY DEF mapsCallback
<1>2. UNCHANGED <<maps, fresh, select, map, trans>>
  BY DEF mapsCallback, selector
<1> DEFINE n == Max({Len(maps), Len(files)})
           f(i) == IF i <= Len(maps) /\ i \notin failing THEN File(maps[i])
                   ELSE IF i <= Len(files) THEN files[i]
                   ELSE [height |-> 0, image |-> <<>>]
<1>3. maps \in Seq(FloorMaps) /\ files \in Seq(Written)
  BY DEF OrganizerInv, OrganizerTypes
<1>4. n \in Nat /\ n >= Len(maps)
  BY <1>3, MaxOfTwo
<1>5. ASSUME NEW i \in 1..n
      PROVE  f(i) \in Written
  <2>1. [height |-> 0, image |-> <<>>] \in Written
    BY DEF Written, Images
  <2>2. i <= Len(maps) => File(maps[i]) \in Written
    BY <1>3, <1>4, FilesReturn
  <2>3. i <= Len(files) => files[i] \in Written
    BY <1>3, <1>4
  <2>4. QED
    BY <2>1, <2>2, <2>3
<1>6. files' = [i \in 1..n |-> f(i)]
  BY <1>1 DEF mapCallbacks
<1>7. failing = {} => \A i \in 1..Len(maps) : f(i) = File(maps[i])
  BY <1>3
<1> HIDE DEF n, f
<1>8. files' \in Seq(Written) /\ Len(files') = n
  BY <1>4, <1>5, <1>6
<1>9. saved' \in Seq(FloorMaps)
  BY <1>1, <1>3 DEF NoMaps
<1>10. SavedInFiles'
  <2>1. CASE failing = {}
    <3>1. saved' = maps
      BY <1>1, <2>1
    <3>2. \A i \in 1..Len(maps) : files'[i] = File(maps[i])
      BY <1>3, <1>4, <1>6, <1>7, <2>1
    <3>3. QED
      BY <1>4, <1>8, <3>1, <3>2 DEF SavedInFiles, File, Row
  <2>2. CASE failing # {}
    BY <1>1, <2>2 DEF SavedInFiles
  <2>3. QED
    BY <2>1, <2>2
<1>11. QED
  BY <1>2, <1>8, <1>9, <1>10 DEF OrganizerInv, OrganizerTypes, InfosFit, TransformFitsMap

\* What tie_maps publishes: maps, and those that were saved if it asks for as many.
LEMMA TieReturns ==
  ASSUME OrganizerInv, TieMapNode
  PROVE  /\ maps' \in Seq(FloorMaps)
         /\ maps' # maps /\ Len(maps') = Len(saved) => maps' = saved
<1> DEFINE p == Len(saved)
<1>1. /\ maps \in Seq(FloorMaps) /\ files \in Seq(Written) /\ saved \in Seq(FloorMaps)
      /\ SavedInFiles /\ saved # NoMaps
  BY DEF OrganizerInv, OrganizerTypes, TieMapNode
<1>2. PICK n \in {Len(saved), Len(saved) + 1} : Tie(n)
  BY DEF TieMapNode
<1>3. CASE maps' = maps
  BY <1>1, <1>3
<1>4. CASE maps' # maps
  <2>1. /\ \A i \in 1..n : i <= Len(files) /\ files[i].image # <<>>
        /\ maps' = [i \in 1..n |-> Loaded(files[i])]
    BY <1>1, <1>2, <1>4 DEF Tie
  <2>2. n \in Nat
    BY <1>1
  <2>3. ASSUME NEW i \in 1..n
        PROVE  Loaded(files[i]) \in FloorMaps
    <3>1. files[i] \in Written /\ files[i].image # <<>>
      BY <1>1, <2>1, <2>2
    <3>2. \A q : Occupied(q) \in Values
      BY DEF Occupied, Values
    <3>3. QED
      BY <3>1, <3>2 DEF Loaded, Written, FloorMaps
  <2>4. maps' \in Seq(FloorMaps) /\ Len(maps') = n
    BY <2>1, <2>2, <2>3
  <2>5. ASSUME Len(maps') = Len(saved)
        PROVE  maps' = saved
    <3>1. n = Len(saved)
      BY <2>4, <2>5
    <3>2. ASSUME NEW i \in 1..n
          PROVE  Loaded(files[i]) = saved[i]
      <4>1. files[i] = File(saved[i]) /\ saved[i] \in FloorMaps
        BY <1>1, <3>1 DEF SavedInFiles
      <4>2. QED
        BY <4>1, FilesReturn
    <3>3. QED
      BY <1>1, <2>1, <3>1, <3>2
  <2>6. QED
    BY <2>4, <2>5
<1>5. QED
  BY <1>3, <1>4

\* The steps of select_map.
LEMMA SelectKeeps ==
  ASSUME OrganizerInv, cbMaps \/ cbFloor \/ cbSelectTimer, UNCHANGED <<maps, files, saved>>
  PROVE  OrganizerInv'
<1>1. /\ maps \in Seq(FloorMaps)
      /\ select \in [maps : Seq(FloorMaps), infos : Seq(Int), cur : Floors \cup Int, prev : Floors \cup Int]
      /\ InfosFit /\ SavedInFiles
  BY DEF OrganizerInv, OrganizerTypes
<1>2. SavedInFiles'
  BY <1>1 DEF SavedInFiles
<1>3. SUFFICES /\ select' \in [maps : Seq(FloorMaps), infos : Seq(Int),
                               cur : Floors \cup Int, prev : Floors \cup Int]
               /\ InfosFit'
  BY <1>2 DEF OrganizerInv, OrganizerTypes
<1>4. CASE cbMaps
  <2> DEFINE infos == InfosOf(select.infos, maps)
  <2>1. infos \in Seq(Int) /\ Len(infos) = Len(maps) /\ \A i \in 1..Len(maps) : infos[i] = maps[i].height
    <3>1. infos = [i \in 1..Len(maps) |-> maps[i].height]
      BY <1>1 DEF InfosOf
    <3>2. ASSUME NEW i \in 1..Len(maps)
          PROVE  maps[i].height \in Int
      <4>1. maps[i] \in FloorMaps
        BY <1>1
      <4>2. QED
        BY <4>1 DEF FloorMaps
    <3>3. QED
      BY <1>1, <3>1, <3>2
  <2>2. select' = [select EXCEPT !.maps = maps, !.infos = infos]
    BY <1>4 DEF cbMaps
  <2> HIDE DEF infos
  <2>3. select'.maps = maps /\ select'.infos = infos
    BY <1>1, <2>2
  <2>4. TransformFitsMap'
    BY <1>1, <1>4 DEF cbMaps, InfosFit, TransformFitsMap
  <2>5. QED
    BY <1>1, <2>1, <2>2, <2>3, <2>4 DEF InfosFit
<1>5. CASE cbFloor
  BY <1>1, <1>5 DEF cbFloor, InfosFit, TransformFitsMap
<1>6. CASE cbSelectTimer
  <2>1. select' = [select EXCEPT !.prev = select.cur]
    BY <1>6 DEF cbSelectTimer
  <2>2. select'.maps = select.maps /\ select'.infos = select.infos
    BY <1>1, <2>1
  <2>3. TransformFitsMap'
    <3>1. CASE select.cur \in 0..(Len(select.maps) - 1)
      <4>1. map' = select.maps[select.cur + 1] /\ trans' = select.infos[select.cur + 1]
        BY <1>6, <3>1 DEF cbSelectTimer
      <4>2. select.cur + 1 \in 1..Len(select.maps)
        BY <1>1, <3>1
      <4>3. QED
        BY <1>1, <4>1, <4>2 DEF InfosFit, TransformFitsMap
    <3>2. CASE select.cur \notin 0..(Len(select.maps) - 1)
      BY <1>1, <1>6, <3>2 DEF cbSelectTimer, InfosFit, TransformFitsMap
    <3>3. QED
      BY <3>1, <3>2
  <2>4. QED
    BY <1>1, <2>1, <2>2, <2>3 DEF InfosFit
<1>7. QED
  BY <1>4, <1>5, <1>6

\* Every step keeps the invariant, and what is tied is what was saved.
LEMMA StepKeepsMaps ==
  ASSUME OrganizerInv, [OrganizerNext]_organizerVars
  PROVE  /\ OrganizerInv'
         /\ [TieMapNode /\ maps' # maps /\ Len(maps') = Len(saved) => maps' = saved]_organizerVars
<1>1. OrganizerInv'
  <2>1. CASE UNCHANGED organizerVars
    BY <2>1 DEF organizerVars, selector, OrganizerInv, OrganizerTypes, InfosFit, TransformFitsMap,
       SavedInFiles
  <2>2. CASE cbPoints
    <3>1. maps' \in Seq(FloorMaps)
      BY <2>2, SlicesAscend DEF cbPoints
    <3>2. QED
      BY <2>2, <3>1 DEF cbPoints, OrganizerInv, OrganizerTypes, InfosFit, TransformFitsMap,
         SavedInFiles
  <2>3. CASE mapsCallback
    BY <2>3, SaveKeeps
  <2>4. CASE TieMapNode
    <3>1. maps' \in Seq(FloorMaps)
      BY <2>4, TieReturns
    <3>2. QED
      BY <2>4, <3>1 DEF TieMapNode, OrganizerInv, OrganizerTypes, InfosFit, TransformFitsMap,
         SavedInFiles
  <2>5. CASE (SelectMap \/ SelectMapRos1) /\ UNCHANGED <<ros, maps, files, saved>>
    BY <2>5, SelectKeeps DEF SelectMap, SelectMapRos1
  <2>6. QED
    BY <2>1, <2>2, <2>3, <2>4, <2>5 DEF OrganizerNext, PointcloudToMaps, PointcloudToMapsRos1,
       SaveMaps, SaveMapsRos1, TieMaps, TieMapsRos1
<1>2. QED
  BY <1>1, TieReturns

\* The first state.
LEMMA InitOrganizer ==
  OrganizerInit => OrganizerInv
  BY DEF OrganizerInit, OrganizerInv, OrganizerTypes, InfosFit, TransformFitsMap, SavedInFiles,
     NoMaps, NoMap

\* The transform always leads to the floor whose map is shown, for every cloud, any
\* floors that are requested and any order of clouds, saves, ties and requests
\* (SelectMapNode).
THEOREM TransformIsOfFloor ==
  OrganizerSpec => []TransformFitsMap
<1>1. OrganizerInv => TransformFitsMap
  BY DEF OrganizerInv, InfosFit
<1>2. QED
  BY <1>1, InitOrganizer, StepKeepsMaps, PTL DEF OrganizerSpec

\* Maps of every size come back from their files as they were saved, in order and
\* cell by cell (MapGeneratorNode, TieMapNode).
THEOREM SavedComeBack ==
  OrganizerSpec => SavedMapsReturn
  BY InitOrganizer, StepKeepsMaps, PTL DEF OrganizerSpec, SavedMapsReturn
=============================================================================

------------------------------- MODULE LocalMap -------------------------------
(***************************************************************************)
(* The nodes laserscan_to_map and pointcloud2_to_map, whose callbacks are   *)
(* the same in ROS 1 and ROS 2: clouds are kept for a while in a            *)
(* PointcloudAccumulator and drawn into a local map.                        *)
(*                                                                          *)
(* Clouds arrive late and out of order, and either transform may fail.  The *)
(* accumulator erases from the list it iterates over; its last step may go  *)
(* past end(), which leads back to begin() in the list of libstdc++.        *)
(***************************************************************************)
EXTENDS Integers, Sequences, SequencesExt

CONSTANTS
  Nodes,          \* the nodes: laserscan_to_map, pointcloud2_to_map or both
  AccumDuration,  \* accum_duration
  Interval,       \* publish_interval_
  Delays,         \* now() minus the stamp of a cloud, on arrival
  MaxTime,        \* bound: time
  MaxClouds       \* bound: clouds in a buffer

ASSUME LocalMapAssumption ==
  /\ Nodes \subseteq {"laserscan_to_map", "pointcloud2_to_map"}
  /\ AccumDuration \in Int /\ Interval \in Int /\ MaxTime \in Int
  /\ Delays \subseteq Int

VARIABLES
  node,       \* which of the two nodes this is
  now,        \* the time
  accum,      \* accum_ or accums_: for each buffer the clouds in order
  published,  \* published_
  survives    \* no exception has ended the process

localMapVars == <<node, now, accum, published, survives>>

\* The second buffer of pointcloud2_to_map is for single-shot clouds.
Buffers == IF node = "laserscan_to_map" THEN {"normal"} ELSE {"normal", "single"}
Hold == [b \in Buffers |-> IF b = "single" THEN 0 ELSE AccumDuration]

\* A cloud that was not transformed has no fields and the stamp zero.
Transformed(t) == [stamp |-> t, fields |-> TRUE]
Untransformed  == [stamp |-> 0, fields |-> FALSE]

LocalMapInit ==
  /\ node \in Nodes
  /\ now = 0
  /\ accum = [b \in Buffers |-> <<>>]
  /\ published = 0
  /\ survives = TRUE

-----------------------------------------------------------------------------
(* PointcloudAccumulator *)

Expired(p, b, t) == p.stamp + Hold[b] < t

\* Mutant: the loop ends with the first cloud that is erased.
EraseOne(loop, b, t) ==
  IF loop.at > Len(loop.clouds) \/ ~Expired(loop.clouds[loop.at], b, t) THEN loop
  ELSE [clouds |-> RemoveAt(loop.clouds, loop.at), at |-> Len(loop.clouds)]

\* One step of the loop of push(), with the iterator at the at-th cloud: after an
\* erase() the iterator is advanced once more.
EraseNext(loop, b, t) ==
  IF loop.at > Len(loop.clouds) \/ ~Expired(loop.clouds[loop.at], b, t) THEN loop
  ELSE LET rest == RemoveAt(loop.clouds, loop.at)
       IN  [clouds |-> rest, at |-> IF loop.at <= Len(rest) THEN loop.at + 1 ELSE 1]

\* Each step but the last erases a cloud.
Erase(s, b, t) ==
  LET loop[n \in 0..Len(s)] == IF n = 0 THEN [clouds |-> s, at |-> 1]
                               ELSE EraseNext(loop[n - 1], b, t)
  IN  loop[Len(s)].clouds

push(b, p) == Append(Erase(accum[b], b, p.stamp), p)

-----------------------------------------------------------------------------
(* The nodes *)

LocalMapTick == now < MaxTime /\ now' = now + 1 /\ UNCHANGED <<node, accum, published, survives>>

\* Drawing a cloud without the fields x, y and z throws.
Drawable(a) == \A b \in Buffers : \A i \in 1..Len(a[b]) : a[b][i].fields

\* published_ is set before the pose of the robot is known to exist.
PublishIfDue(t, a, robot) ==
  IF published + Interval > t THEN UNCHANGED <<published, survives>>
  ELSE /\ published' = t
       /\ survives' = (robot => Drawable(a))

\* A cloud p taken at t reaches buffer b.
Take(b, p, t) ==
  /\ Len(accum[b]) < MaxClouds
  /\ accum' = [accum EXCEPT ![b] = push(b, p)]
  /\ \E robot \in BOOLEAN : PublishIfDue(t, accum', robot)
  /\ UNCHANGED <<node, now>>

Stamps == {now - d : d \in {x \in Delays : x <= now}}

\* laserscan_to_map goes on when the transform has failed.
cbScan ==
  /\ survives
  /\ node = "laserscan_to_map"
  /\ \E t \in Stamps : Take("normal", Transformed(t), t) \/ Take("normal", Untransformed, t)

\* pointcloud2_to_map returns when it has failed.
cbCloud ==
  /\ survives
  /\ node = "pointcloud2_to_map"
  /\ \E t \in Stamps, b \in Buffers : Take(b, Transformed(t), t)

LocalMapNext == LocalMapTick \/ cbScan \/ cbCloud

LocalMapSpec == LocalMapInit /\ [][LocalMapNext]_localMapVars

-----------------------------------------------------------------------------
(* Properties *)

\* What a push leaves out of a, the clouds of a buffer b, to get c: only clouds that
\* the new one is more than the duration newer than, and at least every second
\* of those at the front.
Forgets(a, c, b) ==
  LET expired == [i \in 1..Len(a) |-> a[i].stamp + Hold[b] < Last(c).stamp]
  IN  /\ \A p \in ToSet(a) \ ToSet(c) : p.stamp + Hold[b] < Last(c).stamp
      /\ \A k \in 0..Len(a) :
           (\A i \in 1..k : expired[i]) => 2 * (Len(a) + 1 - Len(c)) >= k

\* push() drops no cloud before it has expired, and of the expired ones at the
\* front at least every second, although its iterator skips the cloud behind each
\* one that it erases and may go past end() to the clouds it has skipped.
ForgetsExpired ==
  [][\A b \in Buffers : accum'[b] # accum[b] => Forgets(accum[b], accum'[b], b)]_localMapVars
=============================================================================

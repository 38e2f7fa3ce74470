---------------------------- MODULE TrajectoryStore ----------------------------
(***************************************************************************)
(* The path tools of trajectory_tracker: the recorder samples the way of    *)
(* the robot into a path, the saver writes the first path it receives to a  *)
(* file and ends, and the server loads the file on request and publishes    *)
(* the path.  In the ROS 1 server the user edits the path with markers.     *)
(*                                                                          *)
(* A pose is a point of a line.  A file is opened, which empties it, before *)
(* it is written; a part of it reads as badly as nothing, since the number  *)
(* of poses comes first.  The server takes the size of the file and reads   *)
(* it in one step: a saver that empties it in between is left out.          *)
(***************************************************************************)
EXTENDS RosVersion, Integers, Sequences, SequencesExt

CONSTANTS
  Line,          \* poses of the robot
  DistInterval,  \* dist_interval_
  Kept,          \* messages that a late subscriber of path still receives
  MaxPoses,      \* bound: poses in a path, also an edited one
  MaxActs        \* bound: edits that the server has not handled yet

ASSUME StoreAssumption == Line \subseteq Int /\ DistInterval \in Nat /\ Kept \in Nat

VARIABLES
  robot,      \* pose of the robot
  path,       \* path_ of the recorder
  kept,       \* the recorder's last messages
  saver,      \* "off", "waiting" or "writing"
  queue,      \* messages the saver has still to handle
  file,       \* NoPath, <<>> while it is empty or written in part, or a path
  served,     \* path_ of the server
  tellsName,  \* the server's status tells a file name
  topic,      \* what the server has published last: NoPath, Edited or a path
  shown,      \* number of markers
  acts,       \* what the user has done to the markers: <<what, id>>
  serving     \* the server has not ended

recorder  == <<robot, path, kept>>
saving    == <<saver, queue>>
server    == <<served, tellsName, topic, shown, acts, serving>>
storeVars == <<ros, recorder, saving, file, server>>

NoPath == <<-1>>
Edited == <<-2>>   \* a path with edits, whatever they are

StoreInit ==
  /\ ros \in {1, 2}
  /\ robot \in Line /\ path = <<>> /\ kept = <<>>
  /\ saver = "off" /\ queue = <<>>
  /\ file = NoPath
  /\ served = <<>> /\ tellsName = TRUE
  /\ topic = NoPath
  /\ shown = 0 /\ acts = <<>> /\ serving = TRUE

-----------------------------------------------------------------------------
(* trajectory_recorder *)

Dist(a, b) == IF a > b THEN a - b ELSE b - a

LastOf(s, n) == IF Len(s) > n THEN SubSeq(s, Len(s) - n + 1, Len(s)) ELSE s

\* ang_interval is not used: turning in place adds no pose.
FarEnough(p) == Dist(Last(p), robot) > DistInterval

\* A late subscriber gets ten messages in ROS 2, the latched one in ROS 1.
Record ==
  IF path # <<>> /\ ~FarEnough(path) THEN UNCHANGED <<path, kept, queue>>
  ELSE /\ path' = Append(path, robot)
       /\ kept' = LastOf(Append(kept, path'), IF ros = 1 THEN 1 ELSE Kept)
       /\ queue' = IF saver = "waiting" THEN LastOf(Append(queue, path'), Kept) ELSE queue

cbRecorderTimer ==
  /\ ros = 2 /\ Len(path) < MaxPoses
  /\ Record
  /\ UNCHANGED <<ros, robot, saver, file, server>>

clearPath ==
  /\ ros = 2
  /\ path' = <<>>
  /\ UNCHANGED <<ros, robot, kept, saving, file, server>>

\* The ROS 1 recorder handles requests after it has recorded; without a transform
\* it does neither.
spin ==
  /\ ros = 1 /\ Len(path) < MaxPoses
  /\ \/ Record
     \/ /\ path' = <<>>
        /\ LET new == path = <<>> \/ FarEnough(path)
               msg == Append(path, robot)
           IN  /\ kept' = IF new THEN <<msg>> ELSE kept
               /\ queue' = IF new /\ saver = "waiting"
                           THEN LastOf(Append(queue, msg), Kept) ELSE queue
  /\ UNCHANGED <<ros, robot, saver, file, server>>

Drive ==
  /\ robot' \in Line \ {robot}
  /\ UNCHANGED <<ros, path, kept, saving, file, server>>

-----------------------------------------------------------------------------
(* trajectory_saver *)

StartSaver ==
  /\ saver = "off"
  /\ saver' = "waiting" /\ queue' = kept
  /\ UNCHANGED <<ros, recorder, file, server>>

\* When the file cannot be opened the next message is tried.
cbPathOpen ==
  /\ saver = "waiting" /\ queue # <<>>
  /\ \/ saver' = "writing" /\ file' = <<>> /\ UNCHANGED queue
     \/ queue' = Tail(queue) /\ UNCHANGED <<saver, file>>
  /\ UNCHANGED <<ros, recorder, server>>

cbPathWrite ==
  /\ saver = "writing"
  /\ file' = Head(queue)
  /\ saver' = "off" /\ queue' = <<>>
  /\ UNCHANGED <<ros, recorder, server>>

-----------------------------------------------------------------------------
(* trajectory_server *)

\* Mutant: a file that is empty or written in part is read as a path without poses.
ReadsAnything(content) == TRUE

\* Reading a path from such a file throws.
Deserializes(content) == content # <<>>

\* A change that fails clears the path, but neither the topic nor the markers.
change ==
  /\ serving
  /\ IF file = NoPath
     THEN /\ served' = <<>> /\ tellsName' = FALSE
          /\ UNCHANGED <<topic, shown, serving>>
     ELSE IF ~Deserializes(file)
     THEN serving' = FALSE /\ UNCHANGED <<served, tellsName, topic, shown>>
     ELSE /\ served' = file /\ tellsName' = TRUE
          /\ topic' = file
          /\ shown' = IF ros = 1 THEN Len(file) ELSE 0
          /\ UNCHANGED serving
  /\ UNCHANGED <<ros, recorder, saving, file, acts>>

\* A request for another, missing file.
changeMissing ==
  /\ serving
  /\ served' = <<>> /\ tellsName' = FALSE
  /\ UNCHANGED <<ros, recorder, saving, file, topic, shown, acts, serving>>

UserEdits ==
  /\ serving /\ Len(acts) < MaxActs
  /\ \E what \in {"move", "release", "delete", "add"}, id \in 1..shown :
       /\ what = "add" => shown < MaxPoses
       /\ acts' = Append(acts, <<what, id>>)
  /\ UNCHANGED <<ros, recorder, saving, file, served, tellsName, topic, shown, serving>>

Published(p, s) ==
  /\ served' = p
  /\ topic' = Edited
  /\ shown' = s
  /\ UNCHANGED serving

\* Markers are named after positions in the path; one that the path no longer
\* has is beyond its end.
processFeedback ==
  /\ serving /\ acts # <<>>
  /\ LET what == Head(acts)[1]
         id   == Head(acts)[2]
     IN  IF what = "release" THEN Published(served, shown)
         ELSE IF id > Len(served)
         THEN serving' = FALSE /\ UNCHANGED <<served, topic, shown>>
         ELSE \/ /\ what = "move"
                 /\ \E r \in Line : served' = [served EXCEPT ![id] = r]
                 /\ UNCHANGED <<topic, shown, serving>>
              \/ /\ what = "delete"
                 /\ Published(RemoveAt(served, id), Len(served) - 1)
              \/ /\ what = "add"
                 /\ Published(InsertAt(served, id, served[id]), Len(served) + 1)
  /\ acts' = Tail(acts)
  /\ UNCHANGED <<ros, recorder, saving, file, tellsName>>

-----------------------------------------------------------------------------
Saver  == StartSaver \/ cbPathOpen \/ cbPathWrite
Server == change \/ changeMissing

RecorderNode   == cbRecorderTimer \/ clearPath
SaverNode      == ros = 2 /\ Saver
ServerNode     == ros = 2 /\ Server
SaverNodeRos1  == ros = 1 /\ Saver
ServerNodeRos1 == ros = 1 /\ (Server \/ UserEdits \/ processFeedback)

StoreNext ==
  \/ Drive
  \/ RecorderNode \/ SaverNode \/ ServerNode
  \/ spin \/ SaverNodeRos1 \/ ServerNodeRos1

StoreSpec == StoreInit /\ [][StoreNext]_storeVars

-----------------------------------------------------------------------------
(* Properties *)

\* A path as the recorder makes it: its poses are apart.
Recorded(p) ==
  /\ p # <<>>
  /\ \A i \in 1..(Len(p) - 1) : Dist(p[i], p[i + 1]) > DistInterval

\* A path that the server publishes and nobody has edited is one that the recorder
\* made, whenever the server reads the file that a saver is writing: one that is
\* empty or written in part is not driven.
ServesRecordedPaths ==
  topic \in {NoPath, Edited} \/ Recorded(topic)
=============================================================================

------------------------------ MODULE MapOrganizer ------------------------------
(***************************************************************************)
(* The nodes of map_organizer around the latched topic maps:                *)
(* pointcloud_to_maps publishes the maps of the floors of a point cloud,    *)
(* save_maps writes them to files, tie_maps publishes what is in the files, *)
(* and select_map shows the map of one floor and the transform to it.       *)
(* tie_maps and save_maps are programs that may be run at any time.         *)
(***************************************************************************)
EXTENDS RosVersion, MapSlicing

CONSTANTS
  Clouds,   \* point clouds: sets of [c, z]
  Floors,   \* what may be requested on the topic floor
  Rows      \* height of the maps in cells

ASSUME OrganizerAssumption ==
  /\ Rows \in Nat
  /\ \A c \in FloorCells : /\ c \in Int \X Int
                          /\ <<c[1], Rows - c[2] - 1>> \in FloorCells
  /\ \A cloud \in Clouds : IsFiniteSet(cloud) /\ \A p \in cloud : p.z \in Int

VARIABLES
  maps,    \* the latched array of maps, or NoMaps
  fresh,   \* select_map has not received maps yet
  select,  \* select_map's [maps, infos, cur, prev]
  map,     \* the latched topic map, with the floor's height in the array
  trans,   \* the height of the transform from map_ground to map
  files,   \* the files mapname<i>.yaml and .pgm
  saved    \* history: the last maps that save_maps has written without a
           \* failure, and the number of its floors

selector == <<fresh, select, map, trans>>
organizerVars == <<ros, maps, selector, files, saved>>

NoMaps == <<>>
NoMap  == [height |-> 0, data |-> [c \in FloorCells |-> Unknown]]

\* Mutant: the heights of the maps before are kept.
InfosAfter(infos, array) == infos \o [i \in DOMAIN array |-> array[i].height]

InfosOf(infos, array) == [i \in DOMAIN array |-> array[i].height]

OrganizerInit ==
  /\ ros \in {1, 2}
  /\ maps = NoMaps /\ fresh = FALSE
  /\ select = [maps |-> <<>>, infos |-> <<>>, cur |-> 0, prev |-> -1]
  /\ map = NoMap /\ trans = 0
  /\ files = <<>> /\ saved = NoMaps

-----------------------------------------------------------------------------
(* pointcloud_to_maps *)

\* The maps are also published one by one, on topics that nothing here reads.
cbPoints ==
  /\ \E cloud \in Clouds : maps' = generateMaps(cloud)
  /\ fresh' = TRUE
  /\ UNCHANGED <<ros, select, map, trans, files, saved>>

PointcloudToMaps     == ros = 2 /\ cbPoints
PointcloudToMapsRos1 == ros = 1 /\ cbPoints

-----------------------------------------------------------------------------
(* save_maps and tie_maps *)

\* The grey value of a cell; all values but those of free and blocked cells are
\* one.
Pixel(v) == CASE v = Free -> 254 [] v = Blocked -> 0 [] OTHER -> 205

\* Mutant: the rows are written from the first to the last.
RowUnflipped(y) == y

\* The image starts with the last row.
Row(y) == Rows - y - 1

File(m) == [height |-> m.height,
            image |-> [c \in FloorCells |-> Pixel(m.data[<<c[1], Row(c[2])>>])]]

\* The first maps of the array are those of the floors; a file that cannot be
\* opened stays as it was and the node goes on to the next floor.
mapCallbacks(failing) ==
  [i \in 1..Max({Len(maps), Len(files)}) |->
     IF i <= Len(maps) /\ i \notin failing THEN File(maps[i])
     ELSE IF i <= Len(files) THEN files[i]
     ELSE [height |-> 0, image |-> <<>>]]

mapsCallback ==
  /\ maps # NoMaps
  /\ \E failing \in SUBSET DOMAIN maps :
       /\ files' = mapCallbacks(failing)
       /\ saved' = IF failing = {} THEN maps ELSE NoMaps
  /\ UNCHANGED <<ros, maps, selector>>

SaveMaps     == ros = 2 /\ mapsCallback
SaveMapsRos1 == ros = 1 /\ mapsCallback

\* The map server's reading of a pixel with the thresholds written by save_maps.
Occupied(p) ==
  IF 1000 * (255 - p) > 650 * 255 THEN Blocked
  ELSE IF 1000 * (255 - p) < 196 * 255 THEN Free ELSE Unknown

Loaded(f) == [height |-> f.height,
              data |-> [c \in FloorCells |-> Occupied(f.image[<<c[1], Rows - c[2] - 1>>])]]

\* The files of n floors are read in order; if one cannot be read, the array is
\* not published.
Tie(n) ==
  IF \E i \in 1..n : i > Len(files) \/ files[i].image = <<>>
  THEN UNCHANGED <<maps, fresh>>
  ELSE maps' = [i \in 1..n |-> Loaded(files[i])] /\ fresh' = TRUE

TieMapNode ==
  /\ saved # NoMaps
  /\ \E n \in {Len(saved), Len(saved) + 1} : Tie(n)
  /\ UNCHANGED <<ros, select, map, trans, files, saved>>

TieMaps     == ros = 2 /\ TieMapNode
TieMapsRos1 == ros = 1 /\ TieMapNode

-----------------------------------------------------------------------------
(* select_map *)

cbMaps ==
  /\ fresh /\ fresh' = FALSE
  /\ select' = [select EXCEPT !.maps = maps, !.infos = InfosOf(@, maps)]
  /\ UNCHANGED <<map, trans>>

cbFloor ==
  /\ \E f \in Floors : select' = [select EXCEPT !.cur = f]
  /\ UNCHANGED <<fresh, map, trans>>

\* The request for a floor that there is no map of is forgotten.
cbSelectTimer ==
  /\ select.maps # NoMaps /\ select.cur # select.prev
  /\ IF select.cur \in 0..(Len(select.maps) - 1)
     THEN /\ map' = select.maps[select.cur + 1]
          /\ trans' = select.infos[select.cur + 1]
     ELSE UNCHANGED <<map, trans>>
  /\ select' = [select EXCEPT !.prev = select.cur]
  /\ UNCHANGED fresh

\* The loop of ROS 1 waits for its rate with the callbacks unprocessed.
SelectMap     == ros = 2 /\ (cbMaps \/ cbFloor \/ cbSelectTimer)
SelectMapRos1 == ros = 1 /\ (cbMaps \/ cbFloor \/ cbSelectTimer)

OrganizerNext ==
  \/ PointcloudToMaps \/ PointcloudToMapsRos1
  \/ SaveMaps \/ SaveMapsRos1
  \/ TieMaps \/ TieMapsRos1
  \/ (SelectMap \/ SelectMapRos1) /\ UNCHANGED <<ros, maps, files, saved>>

OrganizerSpec == OrganizerInit /\ [][OrganizerNext]_organizerVars

-----------------------------------------------------------------------------
(* Properties *)

OrganizerTypeOK ==
  /\ \A i \in DOMAIN maps : IsMap(maps[i])
  /\ DOMAIN select.infos = DOMAIN select.maps

\* The transform leads to the height of the floor whose map is shown, whatever
\* maps came and whatever floors were requested in between.
TransformFitsMap == map # NoMap => trans = map.height

\* What tie_maps publishes of a complete save are the maps that were saved: the
\* same floors, each cell with the value it had.
SavedMapsReturn ==
  [][TieMapNode /\ maps' # maps /\ Len(maps') = Len(saved) => maps' = saved]_organizerVars
=============================================================================

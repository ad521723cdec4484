------------------------------- MODULE UePeer -------------------------------
(***************************************************************************)
(* The world behind the viewport pipe (content/browser/ipc/ue_peer.cc):    *)
(* two viewports, the georeference origin their cameras share, one tileset *)
(* layer and the cache of recent replies.  Every request frame is handled  *)
(* under one mutex (ReplyForFrame), so each handler is one action.         *)
(*                                                                         *)
(* A camera position is a longitude and a latitude, in units in which the  *)
(* means of two positions are whole.  How far apart two points of the      *)
(* sphere are (SeparationMeters) is a constant: the proofs need little     *)
(* about it, and the instance for TLC gives it the code's own values.      *)
(***************************************************************************)
EXTENDS Integers, Sequences

CONSTANTS
  Ids,              \* message ids a shell can send
  Places,           \* camera positions that occur in camera.set
  HalfTurn,         \* 180 degrees, in the units of Places
  SeparationMeters(_, _), \* great-circle distance of two points
  SeparationLimit,  \* origin_separation_limit_meters()
  Seqs,             \* sequence numbers of camera.set
  Sizes,            \* client sizes of a viewport
  RecentLimit,      \* kRecentIdLimit
  SerialLimit       \* bound on child windows created, for model checking

Points == [lon : Int, lat : Int]

Abs(x) == IF x < 0 THEN -x ELSE x

(* The plain mean of two positions, longitude and latitude each.           *)
Mean(p, q) == [lon |-> (p.lon + q.lon) \div 2, lat |-> (p.lat + q.lat) \div 2]

(* The shorter way from one to the other crosses the antimeridian.         *)
Straddle(p, q) == Abs(p.lon - q.lon) > HalfTurn

ASSUME PeerAssumption ==
  /\ HalfTurn \in Nat
  /\ Places \subseteq Points
  /\ SeparationLimit \in Nat
  /\ RecentLimit \in Nat \ {0}
  /\ Seqs \subseteq Nat
  /\ Sizes \subseteq Nat
  /\ SerialLimit \in Nat
  /\ "0" \notin Ids      \* the id of replies to frames without one

(* What the proofs take of the sphere: distances are symmetric, a point is *)
(* no way from itself, and the mean of two positions within the limit is   *)
(* within it of one of them, unless they straddle the antimeridian.        *)
ASSUME SphereAssumption ==
  /\ \A p, q \in Places :
       /\ SeparationMeters(p, q) \in Nat
       /\ SeparationMeters(p, q) = SeparationMeters(q, p)
  /\ \A p \in Places : SeparationMeters(p, p) = 0
  /\ \A p, q \in Places :
       SeparationMeters(p, q) <= SeparationLimit /\ ~Straddle(p, q)
         => \E r \in {p, q} : SeparationMeters(Mean(p, q), r) <= SeparationLimit

Views == {"view0", "view1"}
Origins == {"ui", "view0", "view1"}
Layers == {"3d-tiles", "other"}
NoSeq == -1
NoOrigin == "none"

Ops == {"session.hello", "viewport.attach", "viewport.resize",
        "viewport.close", "health.ping", "camera.set", "layer.set"}
Codes == {"ok", "schema", "not_found", "too_large", "origin_conflict"}

VARIABLES
  view,          \* view0 and view1
  child_serial,  \* child windows created so far
  origin,        \* the shared georeference origin
  origin_set,
  tileset,       \* [visible, hidden]
  recent,        \* replies kept for retries, oldest first
  answer         \* the reply written last

world == <<view, child_serial, origin, origin_set, tileset>>
vars == <<view, child_serial, origin, origin_set, tileset, recent, answer>>

NullIsland == [lon |-> 0, lat |-> 0]

ViewRecord == [attached : BOOLEAN, has_pose : BOOLEAN, child : Nat,
               size : Nat, pos : Points, seq : Int,
               last_origin : Origins \cup {NoOrigin}]
(* Variant of NewView: the window handle starts as an invalid handle.      *)
NewViewInvalidHandle ==
  [attached |-> FALSE, has_pose |-> FALSE, child |-> -1, size |-> 0,
   pos |-> NullIsland, seq |-> NoSeq, last_origin |-> NoOrigin]
NewView == [attached |-> FALSE, has_pose |-> FALSE, child |-> 0, size |-> 0,
            pos |-> NullIsland, seq |-> NoSeq, last_origin |-> NoOrigin]

(* Replies carry the request's op, so the reply to session.hello, whose op *)
(* is session.welcome, is told apart by its camera count.                  *)
Reply == [id : Ids \cup {"0"}, op : Ops \cup {"session.welcome"},
          code : Codes, cameras : 0..2]
MakeReply(id, op, code, n) == [id |-> id, op |-> op, code |-> code, cameras |-> n]

Other(v) == IF v = "view0" THEN "view1" ELSE "view0"
TargetOf(o) == IF o = "view1" THEN "view1" ELSE "view0"
Posed(v) == view[v].attached /\ view[v].has_pose
CountCameras == (IF view["view0"].attached THEN 1 ELSE 0)
                + (IF view["view1"].attached THEN 1 ELSE 0)
-----------------------------------------------------------------------------
(* Variant of FindRecent: the search stops before the newest entry.        *)
FindRecentShort(id) == \E i \in 1..(Len(recent) - 1) : recent[i].id = id
FindRecent(id) == \E i \in 1..Len(recent) : recent[i].id = id
FirstRecent(id, i) == /\ recent[i].id = id
                      /\ \A j \in 1..(i - 1) : recent[j].id # id

Remember(r) ==
  LET grown == Append(recent, r)
  IN  recent' = IF Len(grown) > RecentLimit THEN Tail(grown) ELSE grown

(* A frame whose id is not cached runs its handler and caches the reply.   *)
Answered(id, op, code, n) ==
  /\ ~FindRecent(id)
  /\ answer' = MakeReply(id, op, code, n)
  /\ Remember(MakeReply(id, op, code, n))

Refuse(id, op, code) == Answered(id, op, code, 0) /\ UNCHANGED world
Echo(id, op) == Answered(id, op, "ok", 0)
-----------------------------------------------------------------------------
Init ==
  /\ view = [v \in Views |-> NewView]
  /\ child_serial = 0
  /\ origin = NullIsland /\ origin_set = FALSE
  /\ tileset = [visible |-> TRUE, hidden |-> FALSE]
  /\ recent = <<>>
  /\ answer = MakeReply("0", "health.ping", "ok", 0)

HandleHello(id) ==
  Answered(id, "session.welcome", "ok", CountCameras) /\ UNCHANGED world

Opened(v, size) ==
  /\ child_serial' = child_serial + 1
  /\ view' = [view EXCEPT ![v] = [@ EXCEPT !.attached = TRUE, !.size = size,
                                         !.child = child_serial + 1]]
  /\ UNCHANGED <<origin, origin_set, tileset>>

HandleAttach(id, v, size) ==
  child_serial < SerialLimit /\ Echo(id, "viewport.attach") /\ Opened(v, size)

Resized(v, size) ==
  /\ view' = [view EXCEPT ![v].size = size]
  /\ UNCHANGED <<child_serial, origin, origin_set, tileset>>

HandleResize(id, v, size) ==
  \/ ~view[v].attached /\ Refuse(id, "viewport.resize", "not_found")
  \/ view[v].attached /\ Echo(id, "viewport.resize") /\ Resized(v, size)

(* Closing forgets the window and its size; the pose, its sequence number  *)
(* and its origin stay in the record.                                      *)
Closed(v) ==
  /\ view' = [view EXCEPT ![v] = [@ EXCEPT !.attached = FALSE, !.child = 0, !.size = 0]]
  /\ UNCHANGED <<child_serial, origin, origin_set, tileset>>

HandleClose(id, v) ==
  \/ ~view[v].attached /\ Refuse(id, "viewport.close", "not_found")
  \/ view[v].attached /\ Echo(id, "viewport.close") /\ Closed(v)

HandlePing(id) == Echo(id, "health.ping") /\ UNCHANGED world

(* The record target holds once a camera.set has been written into it.     *)
Placed(t, o, s, p) == [view EXCEPT ![t] = [@ EXCEPT !.has_pose = TRUE, !.pos = p,
                                                    !.seq = s, !.last_origin = o]]
Duplicate(t, o, s) == view[t].has_pose /\ view[t].seq = s /\ view[t].last_origin = o

(* Variant of TooFar: the separation is taken from the saved pose.         *)
TooFarStale(t, written) ==
  Posed(Other(t))
  /\ SeparationMeters(view[t].pos, view[Other(t)].pos) > SeparationLimit
TooFar(t, written) ==
  Posed(Other(t))
  /\ SeparationMeters(written[t].pos, view[Other(t)].pos) > SeparationLimit

(* Variant of Restored: the sequence number and its origin stay written.   *)
RestoredPoseOnly(written, t, saved) ==
  [written EXCEPT ![t] = [@ EXCEPT !.has_pose = saved.has_pose, !.pos = saved.pos]]
(* A refusal puts the saved copy back over what was written.               *)
Restored(written, t, saved) == [written EXCEPT ![t] = saved]

(* Variant of SharedOrigin: the other pose counts though its view is       *)
(* closed.                                                                 *)
SharedWithClosed(t, p) ==
  IF view[Other(t)].has_pose THEN Mean(p, view[Other(t)].pos) ELSE p
SharedOrigin(t, p) ==
  IF Posed(Other(t)) THEN Mean(p, view[Other(t)].pos) ELSE p

(* The pose is written first; when the other attached camera is too far    *)
(* away the record gets its saved copy back and the origin stays put.      *)
MoveCamera(id, t, o, s, p) ==
  LET written == Placed(t, o, s, p)
  IN  \/ /\ TooFar(t, written)
         /\ Answered(id, "camera.set", "origin_conflict", 0)
         /\ view' = Restored(written, t, view[t])
         /\ UNCHANGED <<child_serial, origin, origin_set, tileset>>
      \/ /\ ~TooFar(t, written)
         /\ Echo(id, "camera.set")
         /\ view' = written
         /\ origin' = SharedOrigin(t, p)
         /\ origin_set' = TRUE
         /\ UNCHANGED <<child_serial, tileset>>

HandleCamera(id, o, s, p) ==
  LET t == TargetOf(o) IN
  \/ ~view[t].attached /\ Refuse(id, "camera.set", "not_found")
  \/ /\ view[t].attached /\ Duplicate(t, o, s)
     /\ Echo(id, "camera.set") /\ UNCHANGED world
  \/ /\ view[t].attached /\ ~Duplicate(t, o, s)
     /\ MoveCamera(id, t, o, s, p)

(* tileset_hidden records that the layer has ever been hidden.             *)
LayerSet(visible) ==
  /\ tileset' = [visible |-> visible, hidden |-> tileset.hidden \/ ~visible]
  /\ UNCHANGED <<view, child_serial, origin, origin_set>>

HandleLayer(id, layer, visible) ==
  \/ layer # "3d-tiles" /\ Refuse(id, "layer.set", "not_found")
  \/ layer = "3d-tiles" /\ Echo(id, "layer.set") /\ LayerSet(visible)

(* HandleLocked and the handlers refuse a wrong version, an unknown op or  *)
(* a body with the wrong keys or values; that reply is cached as well.     *)
Reject(id, op) == Refuse(id, op, "schema")

(* A cached id is answered from the cache without running a handler.       *)
Replay(id) ==
  /\ FindRecent(id)
  /\ \E i \in 1..Len(recent) : FirstRecent(id, i) /\ answer' = recent[i]
  /\ UNCHANGED <<world, recent>>

(* A frame that cannot be decoded or parsed has no id to remember.         *)
BadFrame(code) ==
  /\ code \in {"schema", "too_large"}
  /\ answer' = MakeReply("0", "health.ping", code, 0)
  /\ UNCHANGED <<world, recent>>

Request(id) ==
  \/ HandleHello(id) \/ HandlePing(id) \/ Replay(id)
  \/ \E op \in Ops : Reject(id, op)
  \/ \E v \in Views : HandleClose(id, v)
  \/ \E v \in Views, size \in Sizes : HandleAttach(id, v, size) \/ HandleResize(id, v, size)
  \/ \E o \in Origins, s \in Seqs, p \in Places : HandleCamera(id, o, s, p)
  \/ \E layer \in Layers, visible \in BOOLEAN : HandleLayer(id, layer, visible)

Next ==
  \/ \E id \in Ids : Request(id)
  \/ \E code \in Codes : BadFrame(code)

Spec == Init /\ [][Next]_vars
-----------------------------------------------------------------------------
(* The members of UePeerState keep their types, and the reply cache holds  *)
(* only replies.                                                           *)
TypeOK ==
  /\ view \in [Views -> ViewRecord]
  /\ child_serial \in Nat
  /\ origin \in Points /\ origin_set \in BOOLEAN
  /\ tileset \in [visible : BOOLEAN, hidden : BOOLEAN]
  /\ recent \in Seq(Reply)
  /\ answer \in Reply

(* Attached viewports own child windows of their own and closed ones own   *)
(* none: attach on an open viewport replaces its handle, close gives the   *)
(* handle up, and no two viewports ever share one.                         *)
ChildWindowsDistinct ==
  /\ \A v \in Views : view[v].attached <=> view[v].child # 0
  /\ \A v \in Views : view[v].child <= child_serial
  /\ view["view0"].attached => view["view0"].child # view["view1"].child

(* The reply cache never outgrows its limit and never holds an id twice,   *)
(* so a retried id inside the window has exactly one answer to find.       *)
RetryWindow ==
  /\ Len(recent) <= RecentLimit
  /\ \A i, j \in 1..Len(recent) : recent[i].id = recent[j].id => i = j

(* The origin is the mean of both cameras' positions, near each other but  *)
(* on the two sides of the antimeridian: the mean is then on the far side  *)
(* of the globe.                                                           *)
MeanAcross ==
  LET p == view["view0"].pos
      q == view["view1"].pos
  IN  /\ view["view0"].has_pose /\ view["view1"].has_pose
      /\ SeparationMeters(p, q) <= SeparationLimit
      /\ Straddle(p, q)
      /\ origin = Mean(p, q)

(* The shared origin stays within the separation limit of a camera that    *)
(* has a pose, through every close, reattach and refused move.  The one    *)
(* exception is the mean of two cameras that straddle the antimeridian,    *)
(* which camera.set accepts because their great circle is short.           *)
OriginAnchored ==
  origin_set =>
    \/ \E v \in Views : /\ view[v].has_pose
                        /\ SeparationMeters(origin, view[v].pos) <= SeparationLimit
    \/ MeanAcross

(* Two attached cameras with poses that lie too far apart.                 *)
Conflict == Posed("view0") /\ Posed("view1")
            /\ SeparationMeters(view["view0"].pos, view["view1"].pos) > SeparationLimit

(* "A camera.set that would place two attached cameras farther than the    *)
(* fixed limit is refused": only reopening a viewport can bring a conflict *)
(* about, and any camera.set that is applied leaves none.                  *)
CameraNeverSeparates ==
  [][ /\ (~Conflict /\ Conflict') => child_serial' # child_serial
      /\ (\E v \in Views : view'[v].seq # view[v].seq) => ~Conflict' ]_vars

(* A reply with an error code, fresh or replayed, left the whole world as  *)
(* it was: a refused camera.set restores the saved pose and sequence       *)
(* number and the origin stays put.                                        *)
ErrorLeavesWorld ==
  [][ answer'.code # "ok" => UNCHANGED world ]_vars

(* Retrying an id that is still in the window changes nothing and repeats  *)
(* the first answer, whatever the request has become in the meantime.      *)
RetryIsHarmless ==
  [][ \A i \in 1..Len(recent) :
        answer'.id = recent[i].id
          => answer' = recent[i] /\ UNCHANGED <<world, recent>> ]_vars

(* ue_peer.h: "Two AdditionalCameras share one georeference origin, so a   *)
(* separation above this is origin_conflict", read as a state: two         *)
(* attached cameras are never farther apart than the limit.                *)
SeparationWithinLimit == ~Conflict
=============================================================================

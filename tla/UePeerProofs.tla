---------------------------- MODULE UePeerProofs ----------------------------
(***************************************************************************)
(* Machine-checked proofs about UePeer, for every value of its constants.  *)
(*                                                                         *)
(* StepShape splits a step into what it does to the cache and what it does *)
(* to the world; each invariant is then proved against those few effects   *)
(* instead of against every handler.                                       *)
(***************************************************************************)
EXTENDS UePeer, SequenceTheorems, TLAPS

(* A camera.set is applied: the pose is written, the origin follows.       *)
Applying(o, s, p) ==
  LET t == TargetOf(o) IN
  /\ view[t].attached
  /\ ~TooFar(t, Placed(t, o, s, p))
  /\ view' = Placed(t, o, s, p)
  /\ origin' = SharedOrigin(t, p)
  /\ origin_set' = TRUE
  /\ UNCHANGED <<child_serial, tileset>>

(* The ways in which a handler that answers ok changes the world.          *)
WorldEffect ==
  \/ \E v \in Views, size \in Sizes : Opened(v, size)
  \/ \E v \in Views, size \in Sizes : view[v].attached /\ Resized(v, size)
  \/ \E v \in Views : view[v].attached /\ Closed(v)
  \/ \E o \in Origins, s \in Seqs, p \in Places : Applying(o, s, p)
  \/ \E visible \in BOOLEAN : LayerSet(visible)

(* A handler ran and its reply is cached.                                  *)
FreshStep(r) ==
  /\ r.id \in Ids /\ ~FindRecent(r.id)
  /\ answer' = r /\ Remember(r)
  /\ UNCHANGED world \/ (r.code = "ok" /\ WorldEffect)

CachedStep(i) == answer' = recent[i] /\ UNCHANGED <<world, recent>>

UnreadStep == answer' \in Reply /\ answer'.id = "0" /\ UNCHANGED <<world, recent>>

LEMMA ReplyTyped ==
  ASSUME NEW id \in Ids, NEW op \in Ops \cup {"session.welcome"},
         NEW code \in Codes, NEW n \in 0..2
  PROVE  /\ MakeReply(id, op, code, n) \in Reply
         /\ MakeReply(id, op, code, n).id = id
         /\ MakeReply(id, op, code, n).code = code
  BY DEF MakeReply, Reply

LEMMA FreshAnswer ==
  ASSUME NEW id \in Ids, NEW op \in Ops \cup {"session.welcome"},
         NEW code \in Codes, NEW n \in 0..2, Answered(id, op, code, n),
         UNCHANGED world \/ (code = "ok" /\ WorldEffect)
  PROVE  \E r \in Reply : FreshStep(r)
  <1> DEFINE r == MakeReply(id, op, code, n)
  <1>1. r \in Reply /\ r.id = id /\ r.code = code
    BY ReplyTyped
  <1>2. FreshStep(r)
    BY <1>1 DEF FreshStep, Answered
  <1> QED BY <1>1, <1>2

(* A refused camera.set puts every field of the record back.               *)
LEMMA RefusalRestores ==
  ASSUME view \in [Views -> ViewRecord], NEW t \in Views,
         NEW o, NEW s, NEW p
  PROVE  Restored(Placed(t, o, s, p), t, view[t]) = view
  BY DEF Restored, Placed

LEMMA StepShape ==
  ASSUME recent \in Seq(Reply), view \in [Views -> ViewRecord], Next
  PROVE  \/ \E r \in Reply : FreshStep(r)
         \/ \E i \in 1..Len(recent) : CachedStep(i)
         \/ UnreadStep
  <1> DEFINE Shape == \/ \E r \in Reply : FreshStep(r)
                      \/ \E i \in 1..Len(recent) : CachedStep(i)
                      \/ UnreadStep
  <1> USE DEF Ops, Codes
  <1>1. ASSUME NEW id \in Ids, HandleHello(id) PROVE Shape
    <2>1. CountCameras \in 0..2
      BY DEF CountCameras
    <2> QED BY <1>1, <2>1, FreshAnswer DEF HandleHello
  <1>2. ASSUME NEW id \in Ids, HandlePing(id) PROVE Shape
    BY <1>2, FreshAnswer DEF HandlePing, Echo
  <1>3. ASSUME NEW id \in Ids, Replay(id) PROVE Shape
    BY <1>3 DEF Replay, CachedStep
  <1>4. ASSUME NEW id \in Ids, NEW op \in Ops, Reject(id, op) PROVE Shape
    BY <1>4, FreshAnswer DEF Reject, Refuse
  <1>5. ASSUME NEW id \in Ids, NEW v \in Views, HandleClose(id, v) PROVE Shape
    BY <1>5, FreshAnswer DEF HandleClose, Refuse, Echo, WorldEffect
  <1>6. ASSUME NEW id \in Ids, NEW v \in Views, NEW size \in Sizes,
               HandleAttach(id, v, size)
        PROVE  Shape
    BY <1>6, FreshAnswer DEF HandleAttach, Echo, WorldEffect
  <1>7. ASSUME NEW id \in Ids, NEW v \in Views, NEW size \in Sizes,
               HandleResize(id, v, size)
        PROVE  Shape
    BY <1>7, FreshAnswer DEF HandleResize, Refuse, Echo, WorldEffect
  <1>8. ASSUME NEW id \in Ids, NEW o \in Origins, NEW s \in Seqs,
               NEW p \in Places, HandleCamera(id, o, s, p)
        PROVE  Shape
    <2> DEFINE t == TargetOf(o)
    <2>1. t \in Views
      BY DEF TargetOf, Views
    <2>2. CASE ~view[t].attached /\ Refuse(id, "camera.set", "not_found")
      BY <2>2, FreshAnswer DEF Refuse
    <2>3. CASE Echo(id, "camera.set") /\ UNCHANGED world
      BY <2>3, FreshAnswer DEF Echo
    <2>4. CASE view[t].attached /\ MoveCamera(id, t, o, s, p)
      <3>1. CASE /\ Answered(id, "camera.set", "origin_conflict", 0)
                 /\ view' = Restored(Placed(t, o, s, p), t, view[t])
                 /\ UNCHANGED <<child_serial, origin, origin_set, tileset>>
        <4>1. UNCHANGED world
          BY <3>1, <2>1, RefusalRestores DEF world
        <4> QED BY <3>1, <4>1, FreshAnswer
      <3>2. CASE Echo(id, "camera.set") /\ Applying(o, s, p)
        BY <3>2, FreshAnswer DEF Echo, WorldEffect
      <3> QED BY <2>4, <3>1, <3>2 DEF MoveCamera, Applying
    <2> QED BY <1>8, <2>2, <2>3, <2>4 DEF HandleCamera
  <1>9. ASSUME NEW id \in Ids, NEW layer \in Layers, NEW visible \in BOOLEAN,
               HandleLayer(id, layer, visible)
        PROVE  Shape
    BY <1>9, FreshAnswer DEF HandleLayer, Refuse, Echo, WorldEffect
  <1>10. ASSUME NEW code \in Codes, BadFrame(code) PROVE Shape
    BY <1>10 DEF BadFrame, UnreadStep, MakeReply, Reply
  <1> QED BY <1>1, <1>2, <1>3, <1>4, <1>5, <1>6, <1>7, <1>8, <1>9, <1>10
          DEF Next, Request
-----------------------------------------------------------------------------
LEMMA RememberTyped ==
  ASSUME NEW r \in Reply, recent \in Seq(Reply), Remember(r)
  PROVE  recent' \in Seq(Reply)
  <1>1. Append(recent, r) \in Seq(Reply) /\ Append(recent, r) # <<>>
    BY AppendProperties
  <1>2. Tail(Append(recent, r)) \in Seq(Reply)
    BY <1>1, HeadTailProperties
  <1> QED BY <1>1, <1>2 DEF Remember

WorldTyped ==
  /\ view \in [Views -> ViewRecord]
  /\ child_serial \in Nat
  /\ origin \in Points /\ origin_set \in BOOLEAN
  /\ tileset \in [visible : BOOLEAN, hidden : BOOLEAN]

LEMMA EffectTyped == WorldTyped /\ WorldEffect => WorldTyped'
  <1> SUFFICES ASSUME WorldTyped, WorldEffect PROVE WorldTyped'
    OBVIOUS
  <1> USE PeerAssumption DEF WorldTyped, Views, ViewRecord
  <1>1. ASSUME NEW v \in Views, NEW size \in Sizes, Opened(v, size)
        PROVE  WorldTyped'
    <2>1. child_serial + 1 \in Nat
      OBVIOUS
    <2>2. [view[v] EXCEPT !.attached = TRUE, !.size = size,
                          !.child = child_serial + 1] \in ViewRecord
      BY <2>1
    <2>3. view' \in [Views -> ViewRecord]
      BY <1>1, <2>2 DEF Opened
    <2> QED BY <1>1, <2>1, <2>3 DEF Opened
  <1>2. ASSUME NEW v \in Views, NEW size \in Sizes, Resized(v, size)
        PROVE  WorldTyped'
    BY <1>2 DEF Resized
  <1>3. ASSUME NEW v \in Views, Closed(v) PROVE WorldTyped'
    BY <1>3 DEF Closed
  <1>4. ASSUME NEW o \in Origins, NEW s \in Seqs, NEW p \in Places,
               Applying(o, s, p)
        PROVE  WorldTyped'
    <2> DEFINE t == TargetOf(o)
               record == [view[t] EXCEPT !.has_pose = TRUE, !.pos = p,
                                         !.seq = s, !.last_origin = o]
    <2>1. t \in Views /\ Other(t) \in Views /\ p \in Points /\ s \in Int
      BY DEF TargetOf, Other
    <2>2. record \in ViewRecord
      BY <2>1
    <2>3. view' = [view EXCEPT ![t] = record]
      BY <1>4 DEF Applying, Placed
    <2>4. view' \in [Views -> ViewRecord]
      BY <2>1, <2>2, <2>3
    <2>5. origin' \in Points
      <3>1. view[Other(t)].pos \in Points
        BY <2>1
      <3>2. Mean(p, view[Other(t)].pos) \in Points
        BY <2>1, <3>1 DEF Mean, Points
      <3> QED BY <1>4, <2>1, <3>2 DEF Applying, SharedOrigin
    <2> QED BY <1>4, <2>4, <2>5 DEF Applying
  <1>5. ASSUME NEW visible \in BOOLEAN, LayerSet(visible) PROVE WorldTyped'
    <2>1. (tileset.hidden \/ ~visible) \in BOOLEAN
      OBVIOUS
    <2>2. tileset' \in [visible : BOOLEAN, hidden : BOOLEAN]
      BY <1>5, <2>1 DEF LayerSet
    <2> QED BY <1>5, <2>2 DEF LayerSet
  <1> QED BY <1>1, <1>2, <1>3, <1>4, <1>5 DEF WorldEffect

(* Every handler of the peer preserves the type invariant.                 *)
THEOREM TypeCorrect == Spec => []TypeOK
  <1>1. Init => TypeOK
    <2> SUFFICES ASSUME Init PROVE TypeOK
      OBVIOUS
    <2>1. NewView \in ViewRecord
      BY DEF NewView, ViewRecord, Origins, NoOrigin, NoSeq, NullIsland, Points
    <2>2. recent \in Seq(Reply)
      BY EmptySeq DEF Init
    <2>3. answer \in Reply
      BY DEF Init, MakeReply, Reply, Ops, Codes
    <2>4. view \in [Views -> ViewRecord]
      BY <2>1 DEF Init
    <2>5. tileset \in [visible : BOOLEAN, hidden : BOOLEAN]
      BY DEF Init
    <2>6. child_serial \in Nat /\ origin \in Points
      BY DEF Init, NullIsland, Points
    <2>7. origin_set \in BOOLEAN
      BY DEF Init
    <2> QED BY <2>2, <2>3, <2>4, <2>5, <2>6, <2>7 DEF TypeOK
  <1>2. TypeOK /\ [Next]_vars => TypeOK'
    <2> SUFFICES ASSUME TypeOK, [Next]_vars PROVE TypeOK'
      OBVIOUS
    <2> USE DEF TypeOK, WorldTyped, world
    <2>1. ASSUME NEW r \in Reply, FreshStep(r) PROVE TypeOK'
      <3>1. recent' \in Seq(Reply) /\ answer' \in Reply
        BY <2>1, RememberTyped DEF FreshStep
      <3>2. WorldTyped'
        BY <2>1, EffectTyped DEF FreshStep
      <3> QED BY <3>1, <3>2
    <2>2. ASSUME NEW i \in 1..Len(recent), CachedStep(i) PROVE TypeOK'
      BY <2>2, ElementOfSeq DEF CachedStep
    <2>3. CASE UnreadStep
      BY <2>3 DEF UnreadStep
    <2>4. CASE UNCHANGED vars
      BY <2>4 DEF vars
    <2> QED BY <2>1, <2>2, <2>3, <2>4, StepShape
  <1> QED BY <1>1, <1>2, PTL DEF Spec
-----------------------------------------------------------------------------
(* What a step may do to the world, once the reply cache is left aside.    *)
LEMMA StepWorld == TypeOK /\ [Next]_vars => UNCHANGED world \/ WorldEffect
  BY StepShape DEF TypeOK, FreshStep, CachedStep, UnreadStep, vars, world

(* Open viewports have windows of their own, closed ones have none.        *)
THEOREM WindowsDistinct == Spec => []ChildWindowsDistinct
  <1>1. Init => ChildWindowsDistinct
    BY DEF Init, ChildWindowsDistinct, Views, NewView
  <1>2. TypeOK /\ ChildWindowsDistinct /\ [Next]_vars => ChildWindowsDistinct'
    <2> SUFFICES ASSUME TypeOK, ChildWindowsDistinct, [Next]_vars
                 PROVE  ChildWindowsDistinct'
      OBVIOUS
    <2> USE PeerAssumption DEF TypeOK, ChildWindowsDistinct, Views, ViewRecord
    <2>1. ASSUME NEW v \in Views, NEW size \in Sizes, Opened(v, size)
          PROVE  ChildWindowsDistinct'
      BY <2>1 DEF Opened
    <2>2. ASSUME NEW v \in Views, NEW size \in Sizes, Resized(v, size)
          PROVE  ChildWindowsDistinct'
      BY <2>2 DEF Resized
    <2>3. ASSUME NEW v \in Views, Closed(v) PROVE ChildWindowsDistinct'
      BY <2>3 DEF Closed
    <2>4. ASSUME NEW o \in Origins, NEW s \in Seqs, NEW p \in Places,
                 Applying(o, s, p)
          PROVE  ChildWindowsDistinct'
      BY <2>4 DEF Applying, Placed, TargetOf
    <2>5. ASSUME NEW visible \in BOOLEAN, LayerSet(visible)
          PROVE  ChildWindowsDistinct'
      BY <2>5 DEF LayerSet
    <2>6. CASE UNCHANGED world
      BY <2>6 DEF world
    <2> QED BY <2>1, <2>2, <2>3, <2>4, <2>5, <2>6, StepWorld DEF WorldEffect
  <1> QED BY <1>1, <1>2, TypeCorrect, PTL DEF Spec

(* An error reply left the world alone.                                    *)
THEOREM ErrorsHarmless == Spec => ErrorLeavesWorld
  <1>1. TypeOK /\ [Next]_vars => [answer'.code # "ok" => UNCHANGED world]_vars
    BY StepShape DEF TypeOK, FreshStep, CachedStep, UnreadStep
  <1> QED BY <1>1, TypeCorrect, PTL DEF Spec, ErrorLeavesWorld
-----------------------------------------------------------------------------
(* The inductive form of RetryWindow: cached replies also carry the id of  *)
(* a request, never the id kept for frames that could not be read.         *)
CacheInv == RetryWindow /\ \A i \in 1..Len(recent) : recent[i].id \in Ids

LEMMA RememberKeepsCache ==
  ASSUME NEW r \in Reply, recent \in Seq(Reply), CacheInv,
         r.id \in Ids, ~FindRecent(r.id), Remember(r)
  PROVE  CacheInv'
  <1> DEFINE grown == Append(recent, r)
  <1> USE PeerAssumption
  <1>1. /\ grown \in Seq(Reply) /\ grown # <<>>
        /\ Len(grown) = Len(recent) + 1
        /\ \A i \in 1..Len(recent) : grown[i] = recent[i]
        /\ grown[Len(recent) + 1] = r
    BY AppendProperties
  <1>2. Len(recent) \in Nat
    BY LenProperties
  <1>3. \A i \in 1..Len(grown) : grown[i].id \in Ids
    BY <1>1, <1>2 DEF CacheInv
  <1>4. \A i, j \in 1..Len(grown) : grown[i].id = grown[j].id => i = j
    BY <1>1, <1>2 DEF CacheInv, RetryWindow, FindRecent
  <1>5. CASE Len(grown) > RecentLimit
    <2>1. recent' = Tail(grown)
      BY <1>5 DEF Remember
    <2>2. /\ Len(Tail(grown)) = Len(grown) - 1
          /\ \A i \in 1..Len(Tail(grown)) : Tail(grown)[i] = grown[i + 1]
      BY <1>1, HeadTailProperties
    <2>3. Len(recent') <= RecentLimit
      BY <1>1, <1>2, <2>1, <2>2 DEF CacheInv, RetryWindow
    <2>4. \A i \in 1..Len(recent') : recent'[i] = grown[i + 1] /\ i + 1 \in 1..Len(grown)
      BY <1>1, <1>2, <2>1, <2>2
    <2>5. \A i \in 1..Len(recent') : recent'[i].id \in Ids
      BY <1>3, <2>4
    <2>6. ASSUME NEW i \in 1..Len(recent'), NEW j \in 1..Len(recent'),
                 recent'[i].id = recent'[j].id
          PROVE  i = j
      <3>1. i + 1 = j + 1
        BY <1>4, <2>4, <2>6
      <3> QED BY <3>1, <1>1, <1>2, <2>1, <2>2
    <2> QED BY <2>3, <2>5, <2>6 DEF CacheInv, RetryWindow
  <1>6. CASE ~(Len(grown) > RecentLimit)
    <2>1. recent' = grown
      BY <1>6 DEF Remember
    <2>2. Len(recent') <= RecentLimit
      BY <1>6, <1>1, <1>2, <2>1
    <2> QED BY <1>3, <1>4, <2>1, <2>2 DEF CacheInv, RetryWindow
  <1> QED BY <1>5, <1>6

LEMMA CacheInvariant == Spec => []CacheInv
  <1>1. Init => CacheInv
    BY PeerAssumption, EmptySeq DEF Init, CacheInv, RetryWindow
  <1>2. TypeOK /\ CacheInv /\ [Next]_vars => CacheInv'
    <2> SUFFICES ASSUME TypeOK, CacheInv, [Next]_vars PROVE CacheInv'
      OBVIOUS
    <2>1. ASSUME NEW r \in Reply, FreshStep(r) PROVE CacheInv'
      BY <2>1, RememberKeepsCache DEF FreshStep, TypeOK
    <2>2. CASE UNCHANGED recent
      BY <2>2 DEF CacheInv, RetryWindow
    <2> QED BY <2>1, <2>2, StepShape DEF TypeOK, CachedStep, UnreadStep, vars
  <1> QED BY <1>1, <1>2, TypeCorrect, PTL DEF Spec

(* The reply cache stays within kRecentIdLimit and holds every id once.    *)
THEOREM CacheIsRetryWindow == Spec => []RetryWindow
  <1>1. CacheInv => RetryWindow
    BY DEF CacheInv
  <1> QED BY <1>1, CacheInvariant, PTL

(* A retried id inside the window changes nothing and gets its old answer. *)
THEOREM RetriesHarmless == Spec => RetryIsHarmless
  <1> DEFINE Step == \A i \in 1..Len(recent) :
                       answer'.id = recent[i].id
                         => answer' = recent[i] /\ UNCHANGED <<world, recent>>
  <1>1. TypeOK /\ CacheInv /\ [Next]_vars => [Step]_vars
    <2> SUFFICES ASSUME TypeOK, CacheInv, Next PROVE Step
      OBVIOUS
    <2>1. ASSUME NEW r \in Reply, FreshStep(r) PROVE Step
      BY <2>1 DEF FreshStep, FindRecent
    <2>2. ASSUME NEW i \in 1..Len(recent), CachedStep(i) PROVE Step
      BY <2>2 DEF CachedStep, CacheInv, RetryWindow
    <2>3. CASE UnreadStep
      BY <2>3, PeerAssumption DEF UnreadStep, CacheInv
    <2> QED BY <2>1, <2>2, <2>3, StepShape DEF TypeOK
  <1> QED BY <1>1, TypeCorrect, CacheInvariant, PTL DEF Spec, RetryIsHarmless
-----------------------------------------------------------------------------
(* Every camera with a pose was put at a position that occurs.             *)
PosesOccur == \A v \in Views : view[v].has_pose => view[v].pos \in Places

(* A step that writes no pose: origin, poses and sequence numbers stay,    *)
(* and a viewport that opens takes a new window.                           *)
PosesKept ==
  /\ UNCHANGED <<origin, origin_set>>
  /\ \A v \in Views :
       /\ view'[v].has_pose <=> view[v].has_pose
       /\ view'[v].pos = view[v].pos
       /\ view'[v].seq = view[v].seq
       /\ view'[v].attached /\ ~view[v].attached => child_serial' # child_serial

LEMMA PoseEffects ==
  ASSUME TypeOK, [Next]_vars
  PROVE  \/ \E o \in Origins, s \in Seqs, p \in Places : Applying(o, s, p)
         \/ PosesKept
  <1> USE DEF TypeOK, Views, ViewRecord, PosesKept
  <1>1. ASSUME NEW v \in Views, NEW size \in Sizes, Opened(v, size)
        PROVE  PosesKept
    BY <1>1 DEF Opened
  <1>2. ASSUME NEW v \in Views, NEW size \in Sizes, Resized(v, size)
        PROVE  PosesKept
    BY <1>2 DEF Resized
  <1>3. ASSUME NEW v \in Views, Closed(v) PROVE PosesKept
    BY <1>3 DEF Closed
  <1>4. ASSUME NEW visible \in BOOLEAN, LayerSet(visible) PROVE PosesKept
    BY <1>4 DEF LayerSet
  <1>5. CASE UNCHANGED world
    BY <1>5 DEF world
  <1> QED BY <1>1, <1>2, <1>3, <1>4, <1>5, StepWorld DEF WorldEffect

(* What an applied camera.set leaves, about its own record and the other's. *)
LEMMA ApplyShape ==
  ASSUME TypeOK, NEW o \in Origins, NEW s \in Seqs, NEW p \in Places,
         Applying(o, s, p)
  PROVE  LET t == TargetOf(o)
             u == Other(t)
         IN  /\ Views = {t, u} /\ t # u
             /\ view'[t].has_pose /\ view'[t].pos = p
             /\ view'[u] = view[u]
             /\ Posed(u) => SeparationMeters(p, view[u].pos) <= SeparationLimit
                            \/ ~(SeparationMeters(p, view[u].pos) \in Nat)
  <1> DEFINE t == TargetOf(o)
             u == Other(t)
  <1> USE PeerAssumption
  <1>1. Views = {t, u} /\ t # u
    BY DEF TargetOf, Other, Views
  <1>2. Placed(t, o, s, p)[t].pos = p /\ Placed(t, o, s, p)[t].has_pose
    BY <1>1 DEF Placed, TypeOK, ViewRecord
  <1>3. Placed(t, o, s, p)[u] = view[u]
    BY <1>1 DEF Placed, TypeOK
  <1>4. view' = Placed(t, o, s, p) /\ ~TooFar(t, Placed(t, o, s, p))
    BY DEF Applying
  <1>5. ASSUME Posed(u), SeparationMeters(p, view[u].pos) \in Nat
        PROVE  SeparationMeters(p, view[u].pos) <= SeparationLimit
    <2>1. ~(SeparationMeters(p, view[u].pos) > SeparationLimit)
      BY <1>4, <1>2, <1>5 DEF TooFar
    <2> QED BY <2>1, <1>5
  <1> QED BY <1>1, <1>2, <1>3, <1>4, <1>5

LEMMA PosesInvariant == Spec => []PosesOccur
  <1>1. Init => PosesOccur
    BY DEF Init, PosesOccur, Views, NewView
  <1>2. TypeOK /\ PosesOccur /\ [Next]_vars => PosesOccur'
    <2> SUFFICES ASSUME TypeOK, PosesOccur, [Next]_vars PROVE PosesOccur'
      OBVIOUS
    <2>1. ASSUME NEW o \in Origins, NEW s \in Seqs, NEW p \in Places,
                 Applying(o, s, p)
          PROVE  PosesOccur'
      BY <2>1, ApplyShape DEF PosesOccur
    <2>2. CASE PosesKept
      BY <2>2 DEF PosesKept, PosesOccur
    <2> QED BY <2>1, <2>2, PoseEffects
  <1> QED BY <1>1, <1>2, TypeCorrect, PTL DEF Spec

(* Where camera.set leaves the origin: on the camera that moved, when the  *)
(* other one does not count, and else on the mean of two near positions.   *)
LEMMA ApplyAnchors ==
  ASSUME TypeOK, PosesOccur,
         NEW o \in Origins, NEW s \in Seqs, NEW p \in Places,
         Applying(o, s, p)
  PROVE  OriginAnchored'
  <1> DEFINE t == TargetOf(o)
             u == Other(t)
             q == view[u].pos
  <1> USE PeerAssumption, SphereAssumption
  <1>1. /\ Views = {t, u} /\ t # u
        /\ view'[t].has_pose /\ view'[t].pos = p
        /\ view'[u] = view[u]
    BY ApplyShape
  <1>2. CASE ~Posed(u)
    <2>1. origin' = p
      BY <1>2 DEF Applying, SharedOrigin
    <2>2. SeparationMeters(origin', view'[t].pos) <= SeparationLimit
      BY <2>1, <1>1
    <2> QED BY <1>1, <2>2 DEF OriginAnchored
  <1>3. CASE Posed(u)
    <2>1. origin' = Mean(p, q)
      BY <1>3 DEF Applying, SharedOrigin
    <2>2. q \in Places /\ view'[u].has_pose /\ view'[u].pos = q
      BY <1>1, <1>3 DEF Posed, PosesOccur
    <2>3. SeparationMeters(p, q) <= SeparationLimit
      BY <1>3, <2>2, ApplyShape
    <2>4. CASE ~Straddle(p, q)
      <3>1. PICK r \in {p, q} : SeparationMeters(Mean(p, q), r) <= SeparationLimit
        BY <2>2, <2>3, <2>4
      <3> QED BY <1>1, <2>1, <2>2, <3>1 DEF OriginAnchored
    <2>5. CASE Straddle(p, q)
      <3>1. /\ Straddle(q, p) /\ Mean(p, q) = Mean(q, p)
            /\ SeparationMeters(q, p) <= SeparationLimit
        BY <2>2, <2>3, <2>5 DEF Straddle, Mean, Abs, Points
      <3>2. \/ view'["view0"].pos = p /\ view'["view1"].pos = q
            \/ view'["view0"].pos = q /\ view'["view1"].pos = p
        BY <1>1, <2>2 DEF Views
      <3>3. view'["view0"].has_pose /\ view'["view1"].has_pose
        BY <1>1, <2>2 DEF Views
      <3>4. MeanAcross'
        <4>1. CASE view'["view0"].pos = p /\ view'["view1"].pos = q
          BY <4>1, <2>1, <2>3, <2>5, <3>3 DEF MeanAcross
        <4>2. CASE view'["view0"].pos = q /\ view'["view1"].pos = p
          BY <4>2, <2>1, <3>1, <3>3 DEF MeanAcross
        <4> QED BY <3>2, <4>1, <4>2
      <3> QED BY <3>4 DEF OriginAnchored
    <2> QED BY <2>4, <2>5
  <1> QED BY <1>2, <1>3

(* The origin never drifts away from the cameras, whatever is closed,      *)
(* reopened or refused in between, unless it is the mean of two cameras on *)
(* the two sides of the antimeridian.                                      *)
THEOREM OriginStaysAnchored == Spec => []OriginAnchored
  <1>1. Init => OriginAnchored
    BY DEF Init, OriginAnchored
  <1>2. TypeOK /\ PosesOccur /\ OriginAnchored /\ [Next]_vars => OriginAnchored'
    <2> SUFFICES ASSUME TypeOK, PosesOccur, OriginAnchored, [Next]_vars
                 PROVE  OriginAnchored'
      OBVIOUS
    <2>1. ASSUME NEW o \in Origins, NEW s \in Seqs, NEW p \in Places,
                 Applying(o, s, p)
          PROVE  OriginAnchored'
      BY <2>1, ApplyAnchors
    <2>2. CASE PosesKept
      BY <2>2 DEF PosesKept, OriginAnchored, MeanAcross, Views
    <2> QED BY <2>1, <2>2, PoseEffects
  <1> QED BY <1>1, <1>2, TypeCorrect, PosesInvariant, PTL DEF Spec

(* camera.set never brings two attached cameras too far apart.             *)
THEOREM CamerasStayClose == Spec => CameraNeverSeparates
  <1> DEFINE Step == /\ (~Conflict /\ Conflict') => child_serial' # child_serial
                     /\ (\E v \in Views : view'[v].seq # view[v].seq) => ~Conflict'
  <1>1. TypeOK /\ PosesOccur /\ [Next]_vars => [Step]_vars
    <2> SUFFICES ASSUME TypeOK, PosesOccur, [Next]_vars PROVE Step
      OBVIOUS
    <2>1. ASSUME NEW o \in Origins, NEW s \in Seqs, NEW p \in Places,
                 Applying(o, s, p)
          PROVE  ~Conflict'
      <3> DEFINE t == TargetOf(o)
                 u == Other(t)
                 q == view[u].pos
      <3> USE PeerAssumption, SphereAssumption
      <3>1. /\ Views = {t, u} /\ t # u
            /\ view'[t].has_pose /\ view'[t].pos = p
            /\ view'[u] = view[u]
        BY <2>1, ApplyShape
      <3>2. SUFFICES ASSUME Conflict' PROVE FALSE
        OBVIOUS
      <3>3. Posed(u)
        BY <3>1, <3>2 DEF Conflict, Posed, Views
      <3>4. q \in Places
        BY <3>1, <3>3 DEF Posed, PosesOccur
      <3>5. /\ SeparationMeters(p, q) \in Nat
            /\ SeparationMeters(p, q) = SeparationMeters(q, p)
        BY <3>4
      <3>6. SeparationMeters(p, q) <= SeparationLimit
        BY <2>1, <3>3, <3>5, ApplyShape
      <3>7. SeparationMeters(p, q) > SeparationLimit
        BY <3>1, <3>2, <3>5 DEF Conflict, Views
      <3> QED BY <3>5, <3>6, <3>7
    <2>2. CASE PosesKept
      <3>1. (~Conflict /\ Conflict') => child_serial' # child_serial
        BY <2>2 DEF PosesKept, Conflict, Posed, Views
      <3> QED BY <2>2, <3>1 DEF PosesKept
    <2> QED BY <2>1, <2>2, PoseEffects
  <1> QED BY <1>1, TypeCorrect, PosesInvariant, PTL DEF Spec, CameraNeverSeparates
=============================================================================

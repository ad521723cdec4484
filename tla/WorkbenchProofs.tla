--------------------------- MODULE WorkbenchProofs ---------------------------
(***************************************************************************)
(* Proofs about Workbench. What ReparentSceneSurfaces puts right depends   *)
(* on what it may find, which is the invariant Sane: only windows that are *)
(* there are shown or stashed, a host that holds a live window holds the   *)
(* one of its own page and has not stashed it, and no two hosts hold one.  *)
(***************************************************************************)
EXTENDS Workbench, TLAPS

NoSharing(c) == c["map"] = c["view0"] => c["map"] = NoHandle

\* A host may hold a dead handle, but never the window of the other page, nor
\* one that is stashed.
HoldsOwn(w, c, p) == w.host[p] \in w.live => w.host[p] = c[p] /\ w.host[p] \notin w.stashed

Sane(w, c) == /\ w \in Windows
              /\ c \in [Pages -> Handles \union {NoHandle}]
              /\ NoSharing(c)
              /\ w.live = {c["map"], c["view0"]} \ {NoHandle}
              /\ w.shown \subseteq w.live
              /\ w.stashed \subseteq w.live
              /\ HoldsOwn(w, c, "map") /\ HoldsOwn(w, c, "view0")

OneHost(w) == \E p \in Pages : w.host[p] = NoHandle

Basic == /\ life \in {"none", "open", "hidden", "closing", "gone"}
         /\ agent \in {"idle", "serving", "ahead", "behind"}
         /\ quit \in BOOLEAN /\ ended \in BOOLEAN /\ laid \in BOOLEAN
         /\ tasks \in Seq([what : {"bounds", "tab"}, at : 0 .. 3])
         /\ now \in 0 .. TimeLimit
         /\ tab \in Pages /\ mode \in Modes

Inv == Basic /\ Sane(win, child) /\ OneHost(win) /\ ShownIsActive

-----------------------------------------------------------------------------
(* What one call does to the windows. *)

\* Hiding a window changes nothing but its visibility (ShowWindow).
LEMMA HideFields ==
  ASSUME NEW w \in Windows, NEW h
  PROVE  /\ Hide(w, h) \in Windows
         /\ Hide(w, h).live = w.live /\ Hide(w, h).stashed = w.stashed
         /\ Hide(w, h).host = w.host
         /\ Hide(w, h).shown = w.shown \ {h}
BY DEF Hide, Windows

\* Showing a window changes nothing but its visibility, and nothing at all for
\* a dead handle (ShowWindow).
LEMMA ShowFields ==
  ASSUME NEW w \in Windows, NEW h
  PROVE  /\ Show(w, h) \in Windows
         /\ Show(w, h).live = w.live /\ Show(w, h).stashed = w.stashed
         /\ Show(w, h).host = w.host
         /\ Show(w, h).shown = w.shown \union ({h} \intersect w.live)
BY DEF Show, Windows

\* A host's layout touches the visibility of its window only
\* (NativeViewHost::Layout).
LEMMA HostLayoutFields ==
  ASSUME NEW w \in Windows, NEW p \in Pages, NEW t
  PROVE  /\ HostLayout(w, p, t) \in Windows
         /\ HostLayout(w, p, t).live = w.live
         /\ HostLayout(w, p, t).stashed = w.stashed
         /\ HostLayout(w, p, t).host = w.host
         /\ HostLayout(w, p, t).shown \subseteq w.shown \union ({w.host[p]} \intersect w.live)
BY HideFields, ShowFields DEF HostLayout

\* A host that lets go of its window stashes it if it is alive
\* (NativeViewHost::Detach).
LEMMA DetachFields ==
  ASSUME NEW w \in Windows, NEW p \in Pages
  PROVE  /\ Detach(w, p) \in Windows
         /\ Detach(w, p).live = w.live /\ Detach(w, p).shown = w.shown
         /\ Detach(w, p).stashed = w.stashed \union ({w.host[p]} \intersect w.live)
         /\ Detach(w, p).host[p] = NoHandle
         /\ \A q \in Pages \ {p} : Detach(w, p).host[q] = w.host[q]
BY DEF Detach, Windows

\* A host that takes a window takes it out of the stash (NativeViewHost::Attach).
LEMMA AttachFields ==
  ASSUME NEW w \in Windows, NEW p \in Pages, NEW h \in Handles, NEW t
  PROVE  /\ Attach(w, p, h, t) \in Windows
         /\ Attach(w, p, h, t).live = w.live
         /\ Attach(w, p, h, t).stashed = w.stashed \ {h}
         /\ Attach(w, p, h, t).host[p] = h
         /\ \A q \in Pages \ {p} : Attach(w, p, h, t).host[q] = w.host[q]
         /\ Attach(w, p, h, t).shown \subseteq w.shown \union ({h} \intersect w.live)
<1> DEFINE v == [Hide(w, h) EXCEPT !.stashed = @ \ {h}, !.host[p] = h]
<1>1. v \in Windows
  BY HideFields DEF Windows
<1>2. /\ v.live = w.live /\ v.shown = w.shown \ {h} /\ v.stashed = w.stashed \ {h}
      /\ v.host[p] = h /\ \A q \in Pages \ {p} : v.host[q] = w.host[q]
  BY HideFields DEF Windows
<1>3. Attach(w, p, h, t) = HostLayout(v, p, t)
  BY DEF Attach
<1> HIDE DEF v
<1>4. /\ HostLayout(v, p, t) \in Windows
      /\ HostLayout(v, p, t).live = v.live
      /\ HostLayout(v, p, t).stashed = v.stashed
      /\ HostLayout(v, p, t).host = v.host
      /\ HostLayout(v, p, t).shown \subseteq v.shown \union ({v.host[p]} \intersect v.live)
  BY <1>1, HostLayoutFields
<1> QED BY <1>2, <1>3, <1>4

-----------------------------------------------------------------------------
(* AttachOrDetach and ReparentSceneSurfaces. *)

\* w is v but for host p, which holds h, and for what is shown and stashed.
Rehosted(v, w, p, h) == /\ w \in Windows /\ w.live = v.live
                        /\ w.host[p] = h
                        /\ \A q \in Pages \ {p} : w.host[q] = v.host[q]

\* The two branches of AttachOrDetach.
Placed(w, p, h, t) ==
  ShowAttachedChild(IF w.host[p] = h THEN w ELSE Attach(Detach(w, p), p, h, t), p, h, t)
Emptied(w, p, h) == Hide(Detach(w, p), h)

\* The page that is drawn on: whatever live window its host held, its own one is
\* there and shown afterwards (AttachOrDetach).
LEMMA PlaceActive ==
  ASSUME NEW w \in Windows, NEW p \in Pages, NEW h \in Handles, NEW t,
         h \in w.live,
         w.host[p] \in w.live => w.host[p] = h /\ h \notin w.stashed
  PROVE  /\ Rehosted(w, Placed(w, p, h, t), p, h)
         /\ Placed(w, p, h, t).stashed = w.stashed \ {h}
         /\ h \in Placed(w, p, h, t).shown
         /\ Placed(w, p, h, t).shown \subseteq w.shown \union {h}
<1> DEFINE d == Detach(w, p)
           a == Attach(d, p, h, t)
           v == IF w.host[p] = h THEN w ELSE a
           u == HostLayout(v, p, t)
           r == Placed(w, p, h, t)
<1>1. r = Show(u, h)
  BY DEF Placed, ShowAttachedChild
<1>2. /\ d \in Windows /\ d.live = w.live /\ d.shown = w.shown
      /\ d.stashed = w.stashed \union ({w.host[p]} \intersect w.live)
      /\ \A q \in Pages \ {p} : d.host[q] = w.host[q]
  BY DetachFields
<1> HIDE DEF d
<1>3. d \in Windows
  BY <1>2
<1>4. /\ a \in Windows /\ a.live = d.live /\ a.stashed = d.stashed \ {h}
      /\ a.host[p] = h /\ \A q \in Pages \ {p} : a.host[q] = d.host[q]
      /\ a.shown \subseteq d.shown \union ({h} \intersect d.live)
  BY <1>3, AttachFields
<1> HIDE DEF a
<1>5. /\ v \in Windows /\ v.live = w.live /\ v.stashed = w.stashed \ {h}
      /\ v.host[p] = h /\ \A q \in Pages \ {p} : v.host[q] = w.host[q]
      /\ v.shown \subseteq w.shown \union {h}
  <2>1. CASE w.host[p] = h
    BY <2>1
  <2>2. CASE w.host[p] # h
    <3>1. d.stashed = w.stashed
      BY <1>2, <2>2
    <3>2. v = a
      BY <2>2
    <3> HIDE DEF v
    <3> QED BY <3>1, <3>2, <1>2, <1>4
  <2> QED BY <2>1, <2>2
<1> HIDE DEF v
<1>6. v \in Windows
  BY <1>5
<1>7. /\ u \in Windows /\ u.live = v.live /\ u.host = v.host /\ u.stashed = v.stashed
      /\ u.shown \subseteq v.shown \union ({v.host[p]} \intersect v.live)
  BY <1>6, HostLayoutFields
<1> HIDE DEF u
<1>8. u \in Windows
  BY <1>7
<1>9. /\ Show(u, h) \in Windows /\ Show(u, h).live = u.live
      /\ Show(u, h).stashed = u.stashed /\ Show(u, h).host = u.host
      /\ Show(u, h).shown = u.shown \union ({h} \intersect u.live)
  BY <1>8, ShowFields
<1> HIDE DEF r
<1>10. Rehosted(w, r, p, h)
  BY <1>1, <1>5, <1>7, <1>9 DEF Rehosted
<1>11. r.stashed = w.stashed \ {h} /\ h \in r.shown /\ r.shown \subseteq w.shown \union {h}
  BY <1>1, <1>5, <1>7, <1>9
<1> QED BY <1>10, <1>11 DEF r

\* The page that is not drawn on: its host is empty and its window hidden
\* (AttachOrDetach).
LEMMA PlaceOther ==
  ASSUME NEW w \in Windows, NEW p \in Pages, NEW h
  PROVE  /\ Rehosted(w, Emptied(w, p, h), p, NoHandle)
         /\ Emptied(w, p, h).stashed = w.stashed \union ({w.host[p]} \intersect w.live)
         /\ Emptied(w, p, h).shown = w.shown \ {h}
<1> DEFINE d == Detach(w, p)
<1>1. Emptied(w, p, h) = Hide(d, h)
  BY DEF Emptied
<1>2. /\ d \in Windows /\ d.live = w.live /\ d.shown = w.shown
      /\ d.stashed = w.stashed \union ({w.host[p]} \intersect w.live)
      /\ d.host[p] = NoHandle /\ \A q \in Pages \ {p} : d.host[q] = w.host[q]
  BY DetachFields
<1> HIDE DEF d
<1>3. d \in Windows
  BY <1>2
<1>4. /\ Hide(d, h) \in Windows /\ Hide(d, h).live = d.live
      /\ Hide(d, h).stashed = d.stashed /\ Hide(d, h).host = d.host
      /\ Hide(d, h).shown = d.shown \ {h}
  BY <1>3, HideFields
<1> QED BY <1>1, <1>2, <1>4 DEF Rehosted

\* Whatever sane state it finds, ReparentSceneSurfaces leaves the window of the
\* mode's page in its host, seen and alone.
LEMMA Reparented ==
  ASSUME NEW w, NEW c, NEW m \in Modes, NEW t, Sane(w, c)
  PROVE  /\ Sane(ReparentSceneSurfaces(w, m, c, t), c)
         /\ OneHost(ReparentSceneSurfaces(w, m, c, t))
         /\ ReparentSceneSurfaces(w, m, c, t).shown \ ReparentSceneSurfaces(w, m, c, t).stashed
              = {c[Page(m)]} \ {NoHandle}
         /\ \A p \in Pages : ReparentSceneSurfaces(w, m, c, t).host[p]
                               = IF p = Page(m) THEN c[p] ELSE NoHandle
<1> DEFINE hidden == Hide(Hide(w, c["map"]), c["view0"])
           map  == AttachOrDetach(hidden, "map", c["map"], Page(m) = "map", t)
           both == AttachOrDetach(map, "view0", c["view0"], Page(m) = "view0", t)
           r    == ReparentSceneSurfaces(w, m, c, t)
           q    == Page(m)
<1>0. r = IF c[q] = NoHandle THEN both ELSE Show(HostLayout(both, q, t), c[q])
  BY DEF ReparentSceneSurfaces, ShowAttachedChild
<1>a. /\ "map" \in Pages /\ "view0" \in Pages
      /\ \A p \in Pages : p = "map" \/ p = "view0"
      /\ q = "map" \/ q = "view0"
      /\ c["map"] \in Handles \union {NoHandle} /\ c["view0"] \in Handles \union {NoHandle}
  BY DEF Pages, Page, Sane
<1>c. /\ "map" \in Pages /\ "view0" \in Pages
  BY <1>a
<1>1. /\ hidden \in Windows /\ hidden.live = w.live /\ hidden.stashed = w.stashed
      /\ hidden.host = w.host /\ hidden.shown = {}
  BY HideFields DEF Sane
<1> HIDE DEF hidden, r
<1>b. hidden \in Windows
  BY <1>1
<1>2. /\ both \in Windows /\ both.live = w.live /\ both.stashed \subseteq w.live
      /\ both.shown = {c[q]} \ {NoHandle}
      /\ c[q] # NoHandle => c[q] \notin both.stashed
      /\ \A p \in Pages : both.host[p] = IF p = q THEN c[p] ELSE NoHandle
  <2>1. CASE q = "map" /\ c["map"] # NoHandle
    <3>1. c["map"] \in w.live /\ c["map"] \in Handles /\ c["map"] # c["view0"]
      BY <2>1, <1>a DEF Sane, NoSharing
    <3>2. /\ Rehosted(hidden, map, "map", c["map"])
          /\ map.stashed = hidden.stashed \ {c["map"]}
          /\ c["map"] \in map.shown /\ map.shown \subseteq hidden.shown \union {c["map"]}
      <4>1. map = Placed(hidden, "map", c["map"], t)
        BY <2>1 DEF AttachOrDetach, Placed
      <4>2. hidden.host["map"] \in hidden.live
              => hidden.host["map"] = c["map"] /\ c["map"] \notin hidden.stashed
        BY <1>1 DEF Sane, HoldsOwn
      <4>3. c["map"] \in hidden.live
        BY <1>1, <3>1
      <4> HIDE DEF map
      <4> QED BY <4>1, <4>2, <4>3, <3>1, <1>b, <1>c, PlaceActive
    <3> HIDE DEF map
    <3>3. map \in Windows
      BY <3>2 DEF Rehosted
    <3>4. /\ Rehosted(map, both, "view0", NoHandle)
          /\ both.stashed = map.stashed \union ({map.host["view0"]} \intersect map.live)
          /\ both.shown = map.shown \ {c["view0"]}
      <4>1. both = Emptied(map, "view0", c["view0"])
        BY <2>1 DEF AttachOrDetach, Emptied
      <4> HIDE DEF both
      <4> QED BY <4>1, <3>3, <1>c, PlaceOther
    <3> HIDE DEF both
    <3>5. map.host["view0"] = w.host["view0"] /\ map.live = w.live
      BY <3>2, <1>1, <1>a DEF Rehosted
    <3>6. c["map"] \notin both.stashed /\ both.stashed \subseteq w.live
      BY <3>1, <3>2, <3>4, <3>5, <1>1 DEF Sane, HoldsOwn
    <3>7. both.shown = {c["map"]}
      BY <3>1, <3>2, <3>4, <1>1
    <3>8. both.host["map"] = c["map"] /\ both.host["view0"] = NoHandle
      BY <3>2, <3>4, <1>a DEF Rehosted
    <3>9. both \in Windows /\ both.live = w.live
      BY <3>4, <3>5 DEF Rehosted
    <3> HIDE DEF q
    <3> QED BY <2>1, <1>a, <3>6, <3>7, <3>8, <3>9
  <2>2. CASE q = "view0" /\ c["view0"] # NoHandle
    <3>1. c["view0"] \in w.live /\ c["view0"] \in Handles /\ c["map"] # c["view0"]
      BY <2>2, <1>a DEF Sane, NoSharing
    <3>2. /\ Rehosted(hidden, map, "map", NoHandle)
          /\ map.stashed = hidden.stashed \union ({hidden.host["map"]} \intersect hidden.live)
          /\ map.shown = hidden.shown \ {c["map"]}
      <4>1. map = Emptied(hidden, "map", c["map"])
        BY <2>2 DEF AttachOrDetach, Emptied
      <4> HIDE DEF map
      <4> QED BY <4>1, <1>b, <1>c, PlaceOther
    <3> HIDE DEF map
    <3>3. map \in Windows
      BY <3>2 DEF Rehosted
    <3>5. map.host["view0"] = w.host["view0"] /\ map.live = w.live
      BY <3>2, <1>1, <1>a DEF Rehosted
    <3>4. /\ Rehosted(map, both, "view0", c["view0"])
          /\ both.stashed = map.stashed \ {c["view0"]}
          /\ c["view0"] \in both.shown /\ both.shown \subseteq map.shown \union {c["view0"]}
      <4>1. both = Placed(map, "view0", c["view0"], t)
        BY <2>2 DEF AttachOrDetach, Placed
      <4>2. map.host["view0"] \in map.live
              => map.host["view0"] = c["view0"] /\ c["view0"] \notin map.stashed
        BY <1>1, <3>1, <3>2, <3>5 DEF Sane, HoldsOwn
      <4>3. c["view0"] \in map.live
        BY <3>5, <3>1
      <4> HIDE DEF both
      <4> QED BY <4>1, <4>2, <4>3, <3>1, <3>3, <1>c, PlaceActive
    <3> HIDE DEF both
    <3>6. c["view0"] \notin both.stashed /\ both.stashed \subseteq w.live
      BY <3>1, <3>2, <3>4, <3>5, <1>1 DEF Sane, HoldsOwn
    <3>7. both.shown = {c["view0"]}
      BY <3>1, <3>2, <3>4, <1>1
    <3>8. both.host["map"] = NoHandle /\ both.host["view0"] = c["view0"]
      BY <3>2, <3>4, <1>a DEF Rehosted
    <3>9. both \in Windows /\ both.live = w.live
      BY <3>4, <3>5 DEF Rehosted
    <3> HIDE DEF q
    <3> QED BY <2>2, <1>a, <3>6, <3>7, <3>8, <3>9
  <2>3. CASE c[q] = NoHandle
    <3>1. /\ ~(q = "map" /\ c["map"] # NoHandle)
          /\ ~(q = "view0" /\ c["view0"] # NoHandle)
      BY <2>3
    <3>2. /\ Rehosted(hidden, map, "map", NoHandle)
          /\ map.stashed = hidden.stashed \union ({hidden.host["map"]} \intersect hidden.live)
          /\ map.shown = hidden.shown \ {c["map"]}
      <4>1. map = Emptied(hidden, "map", c["map"])
        BY <3>1 DEF AttachOrDetach, Emptied
      <4> HIDE DEF map
      <4> QED BY <4>1, <1>b, <1>c, PlaceOther
    <3> HIDE DEF map
    <3>3. map \in Windows
      BY <3>2 DEF Rehosted
    <3>4. /\ Rehosted(map, both, "view0", NoHandle)
          /\ both.stashed = map.stashed \union ({map.host["view0"]} \intersect map.live)
          /\ both.shown = map.shown \ {c["view0"]}
      <4>1. both = Emptied(map, "view0", c["view0"])
        BY <3>1 DEF AttachOrDetach, Emptied
      <4> HIDE DEF both
      <4> QED BY <4>1, <3>3, <1>c, PlaceOther
    <3> HIDE DEF both
    <3>5. map.host["view0"] = w.host["view0"] /\ map.live = w.live
      BY <3>2, <1>1, <1>a DEF Rehosted
    <3>6. both.stashed \subseteq w.live
      BY <3>2, <3>4, <3>5, <1>1 DEF Sane
    <3>7. both.shown = {}
      BY <3>2, <3>4, <1>1
    <3>8. both.host["map"] = NoHandle /\ both.host["view0"] = NoHandle
      BY <3>2, <3>4, <1>a DEF Rehosted
    <3>9. both \in Windows /\ both.live = w.live
      BY <3>4, <3>5 DEF Rehosted
    <3> HIDE DEF q
    <3> QED BY <2>3, <1>a, <3>6, <3>7, <3>8, <3>9
  <2> QED BY <2>1, <2>2, <2>3, <1>a
<1> HIDE DEF both, q
<1>3. /\ r \in Windows /\ r.live = w.live /\ r.stashed = both.stashed
      /\ r.shown = {c[q]} \ {NoHandle} /\ r.host = both.host
  <2>1. CASE c[q] = NoHandle
    BY <2>1, <1>0, <1>2
  <2>2. CASE c[q] # NoHandle
    <3> DEFINE u == HostLayout(both, q, t)
    <3>0. q \in Pages /\ both.host[q] = c[q] /\ c[q] \in w.live
      BY <1>a, <1>2, <2>2 DEF Sane
    <3>1. both \in Windows
      BY <1>2
    <3>2. /\ u \in Windows /\ u.live = both.live /\ u.stashed = both.stashed
          /\ u.host = both.host
          /\ u.shown \subseteq both.shown \union ({both.host[q]} \intersect both.live)
      BY <3>0, <3>1, HostLayoutFields
    <3> HIDE DEF u
    <3>3. u \in Windows
      BY <3>2
    <3>4. /\ Show(u, c[q]) \in Windows /\ Show(u, c[q]).live = u.live
          /\ Show(u, c[q]).stashed = u.stashed /\ Show(u, c[q]).host = u.host
          /\ Show(u, c[q]).shown = u.shown \union ({c[q]} \intersect u.live)
      BY <3>3, ShowFields
    <3>5. r = Show(u, c[q])
      BY <2>2, <1>0 DEF u
    <3> QED BY <2>2, <3>0, <3>2, <3>4, <3>5, <1>2
  <2> QED BY <2>1, <2>2
<1>4. HoldsOwn(r, c, "map") /\ HoldsOwn(r, c, "view0")
  <2>1. NoHandle \notin r.live
    BY <1>3 DEF Sane
  <2>2. \A p \in Pages : r.host[p] = IF p = q THEN c[p] ELSE NoHandle
    BY <1>2, <1>3
  <2>3. c[q] # NoHandle => c[q] \notin r.stashed
    BY <1>2, <1>3
  <2> QED BY <2>1, <2>2, <2>3, <1>c DEF HoldsOwn
<1>5. Sane(r, c)
  BY <1>2, <1>3, <1>4, <1>a DEF Sane
<1>6. OneHost(r)
  BY <1>2, <1>3, <1>a DEF OneHost
<1>7. r.shown \ r.stashed = {c[q]} \ {NoHandle}
  BY <1>2, <1>3
<1> QED BY <1>2, <1>3, <1>5, <1>6, <1>7 DEF r, q

\* A host's layout keeps the state sane (NativeViewHost::Layout).
LEMMA HostLayoutSane ==
  ASSUME NEW w, NEW c, Sane(w, c), NEW p \in Pages, NEW t
  PROVE  Sane(HostLayout(w, p, t), c)
<1>1. w \in Windows
  BY DEF Sane
<1>2. /\ HostLayout(w, p, t) \in Windows
      /\ HostLayout(w, p, t).live = w.live
      /\ HostLayout(w, p, t).stashed = w.stashed
      /\ HostLayout(w, p, t).host = w.host
      /\ HostLayout(w, p, t).shown \subseteq w.shown \union ({w.host[p]} \intersect w.live)
  BY <1>1, HostLayoutFields
<1> QED BY <1>2 DEF Sane, HoldsOwn

-----------------------------------------------------------------------------
(* SceneImpl::Attach. *)

\* There is always a handle nobody holds.
LEMMA FreshIsFree ==
  ASSUME NEW w, NEW c, Sane(w, c), OneHost(w)
  PROVE  Fresh(w) \in Handles /\ Fresh(w) \notin w.live /\ \A p \in Pages : w.host[p] # Fresh(w)
<1>0. PICK p \in Pages : w.host[p] = NoHandle
  BY DEF OneHost
<1>1. PICK q \in Pages : \A r \in Pages : r = p \/ r = q
  BY DEF Pages
<1>2. /\ c["map"] \in Handles \union {NoHandle} /\ c["view0"] \in Handles \union {NoHandle}
      /\ w.host[q] \in Handles \union {NoHandle}
  BY DEF Sane, Windows, Pages
<1>3. PICK h \in Handles : h \notin {c["map"], c["view0"], w.host[q]}
  BY <1>2, HandleAssumption
<1>4. h \notin w.live \union {w.host[r] : r \in Pages}
  BY <1>0, <1>1, <1>3, HandleAssumption DEF Sane
<1>5. /\ Fresh(w) \in Handles
      /\ Fresh(w) \notin w.live \union {w.host[r] : r \in Pages}
  BY <1>4 DEF Fresh
<1> QED BY <1>5

\* Replacing a presenter leaks no window and kills none that is still used; a
\* host is left with a dead handle at worst (scoped_ptr::reset in Attach).
LEMMA ReplaceSane ==
  ASSUME NEW w, NEW c, Sane(w, c), OneHost(w), NEW p \in Pages
  PROVE  LET s == Replace(w, c, p, Fresh(w)) IN Sane(s[1], s[2]) /\ OneHost(s[1])
<1> DEFINE h == Fresh(w)
           v == DestroyWindow(Create(w, h), c[p])
           d == [c EXCEPT ![p] = h]
<1>0. h \in Handles /\ h \notin w.live /\ \A q \in Pages : w.host[q] # h
  BY FreshIsFree
<1> HIDE DEF h
<1>1. v \in Windows
  BY <1>0 DEF Windows, DestroyWindow, Create, Sane
<1>2. /\ v.live = (w.live \union {h}) \ {c[p]} /\ v.shown = (w.shown \union {h}) \ {c[p]}
      /\ v.stashed = w.stashed \ {c[p]} /\ v.host = w.host
  BY DEF Windows, DestroyWindow, Create, Sane
<1> HIDE DEF v
<1>3. d \in [Pages -> Handles \union {NoHandle}]
  BY <1>0 DEF Sane
<1>4. d[p] = h /\ \A q \in Pages \ {p} : d[q] = c[q]
  BY DEF Sane
<1> HIDE DEF d
<1>5. \A q \in Pages : /\ c[q] \in Handles \union {NoHandle}
                       /\ c[q] # NoHandle => c[q] \in w.live
  BY DEF Sane, Pages
<1>6. \A q \in Pages : q = "map" \/ q = "view0"
  BY DEF Pages
<1>7. "map" \in Pages /\ "view0" \in Pages /\ "map" # "view0"
  BY DEF Pages
<1>8. NoSharing(d)
  <2>1. CASE p = "map"
    BY <2>1, <1>0, <1>4, <1>5, <1>7, HandleAssumption DEF NoSharing
  <2>2. CASE p = "view0"
    BY <2>2, <1>0, <1>4, <1>5, <1>7, HandleAssumption DEF NoSharing
  <2> QED BY <2>1, <2>2, <1>6
<1>9. v.live = {d["map"], d["view0"]} \ {NoHandle}
  <2>1. w.live = {c["map"], c["view0"]} \ {NoHandle} /\ NoSharing(c)
    BY DEF Sane
  <2>2. h # NoHandle /\ h # c[p]
    BY <1>0, <1>5, HandleAssumption
  <2>3. CASE p = "map"
    BY <2>1, <2>2, <2>3, <1>2, <1>4, <1>7 DEF NoSharing
  <2>4. CASE p = "view0"
    BY <2>1, <2>2, <2>4, <1>2, <1>4, <1>7 DEF NoSharing
  <2> QED BY <2>3, <2>4, <1>6
<1>10. v.shown \subseteq v.live /\ v.stashed \subseteq v.live
  BY <1>2 DEF Sane
<1>11. ASSUME NEW q \in Pages PROVE HoldsOwn(v, d, q)
  <2>1. HoldsOwn(w, c, q)
    BY <1>6 DEF Sane
  <2>2. SUFFICES ASSUME v.host[q] \in v.live
                 PROVE  v.host[q] = d[q] /\ v.host[q] \notin v.stashed
    BY DEF HoldsOwn
  <2>3. w.host[q] \in w.live /\ w.host[q] # c[p]
    BY <2>2, <1>0, <1>2
  <2>4. w.host[q] = c[q] /\ w.host[q] \notin w.stashed
    BY <2>1, <2>3 DEF HoldsOwn
  <2>5. q # p
    BY <2>3, <2>4
  <2> QED BY <2>4, <2>5, <1>2, <1>4
<1>12. Sane(v, d)
  BY <1>1, <1>3, <1>7, <1>8, <1>9, <1>10, <1>11 DEF Sane
<1>13. OneHost(v)
  BY <1>2 DEF OneHost
<1> QED BY <1>12, <1>13 DEF Replace, v, d, h

\* Attaching the scene again, also when one or both of the new presenters
\* cannot be made, keeps the state sane (SceneImpl::Attach).
LEMMA AttachSane ==
  ASSUME NEW w, NEW c, Sane(w, c), OneHost(w), NEW m \in Modes,
         NEW s \in SceneAttach(w, c, m)
  PROVE  Sane(s[1], s[2]) /\ OneHost(s[1]) /\ s[3] \in Modes
<1> DEFINE one == Replace(w, c, "map", Fresh(w))
           two == Replace(one[1], one[2], "view0", Fresh(one[1]))
<1>1. "map" \in Pages /\ "view0" \in Pages /\ "scene2d" \in Modes
  BY DEF Pages, Modes
<1>2. Sane(one[1], one[2]) /\ OneHost(one[1])
  BY <1>1, ReplaceSane
<1>3. s \in {<<w, c, m>>, <<one[1], one[2], m>>, <<two[1], two[2], "scene2d">>}
  BY DEF SceneAttach
<1> HIDE DEF one
<1>4. Sane(two[1], two[2]) /\ OneHost(two[1])
  BY <1>1, <1>2, ReplaceSane
<1> HIDE DEF two
<1>5. CASE s = <<w, c, m>>
  BY <1>5
<1>6. CASE s = <<one[1], one[2], m>>
  BY <1>2, <1>6
<1>7. CASE s = <<two[1], two[2], "scene2d">>
  BY <1>1, <1>4, <1>7
<1> QED BY <1>3, <1>5, <1>6, <1>7

-----------------------------------------------------------------------------
(* The inductive invariant. *)

LEMMA InvTypes == Inv => TypeOK
BY DEF Inv, TypeOK, Basic, Sane, Only

\* Whoever places the scene's windows shows the active one and no other
\* (ReparentSceneSurfaces).
LEMMA Placing ==
  ASSUME NEW w, NEW t, Sane(w, child'), mode' \in Modes,
         win' = ReparentSceneSurfaces(w, mode', child', t)
  PROVE  /\ Sane(win', child') /\ OneHost(win') /\ ShownIsActive'
         /\ life' = "open" => Seen' = Only(Page(mode))'
<1> DEFINE r == ReparentSceneSurfaces(w, mode', child', t)
<1>0. /\ Sane(r, child') /\ OneHost(r)
      /\ r.shown \ r.stashed = {child'[Page(mode')]} \ {NoHandle}
      /\ \A p \in Pages : r.host[p] = IF p = Page(mode') THEN child'[p] ELSE NoHandle
  <2>1. PICK c, m : c = child' /\ m = mode'
    OBVIOUS
  <2>2. Sane(w, c) /\ m \in Modes
    BY <2>1
  <2> DEFINE q == ReparentSceneSurfaces(w, m, c, t)
  <2>3. /\ Sane(q, c) /\ OneHost(q)
        /\ q.shown \ q.stashed = {c[Page(m)]} \ {NoHandle}
        /\ \A p \in Pages : q.host[p] = IF p = Page(m) THEN c[p] ELSE NoHandle
    BY <2>2, Reparented
  <2> QED BY <2>1, <2>3, Zenon
<1> HIDE DEF r
<1>1. /\ Sane(win', child') /\ OneHost(win')
      /\ win'.shown \ win'.stashed = {child'[Page(mode')]} \ {NoHandle}
      /\ \A p \in Pages : win'.host[p] = IF p = Page(mode') THEN child'[p] ELSE NoHandle
  <2>1. win' = r
    BY DEF r
  <2> QED BY <1>0, <2>1, Zenon
<1>2. life' = "open" => Seen' = Only(Page(mode))'
  BY <1>1 DEF Seen, Only
<1> QED BY <1>1, <1>2 DEF ShownIsActive

LEMMA LayoutInv ==
  ASSUME Inv, Layout
  PROVE  Sane(win', child') /\ OneHost(win') /\ ShownIsActive' /\ mode' \in Modes /\ tab' \in Pages
         /\ laid' \in BOOLEAN
<1> DEFINE views == HostLayout(HostLayout(win, "map", tab), "view0", tab)
<1>1. Sane(views, child)
  BY HostLayoutSane DEF Inv, Pages
<1>2. win' = ReparentSceneSurfaces(views, mode, child, tab)
  BY DEF Layout
<1> HIDE DEF views
<1>3. child' = child /\ mode' = mode /\ mode \in Modes /\ tab' = tab /\ tab \in Pages /\ laid' = TRUE
  BY DEF Layout, Inv, Basic
<1> QED BY <1>1, <1>2, <1>3, Placing

\* A tab switch (ApplyViewTab).
LEMMA TabInv ==
  ASSUME Inv, NEW t \in Pages, ApplyViewTab(t)
  PROVE  /\ Sane(win', child') /\ OneHost(win') /\ ShownIsActive'
         /\ mode' \in Modes /\ tab' \in Pages /\ laid' \in BOOLEAN
         /\ Page(mode') = tab' /\ (life' = "open" => Seen' = Only(tab)')
<1> DEFINE pages == HostLayout(HostLayout(win, tab, t), t, t)
<1>1. Sane(pages, child)
  BY HostLayoutSane DEF Inv, Basic
<1>2. win' = ReparentSceneSurfaces(pages, ModeOf(t), child, t)
  BY DEF ApplyViewTab
<1> HIDE DEF pages
<1>3. /\ child' = child /\ mode' = ModeOf(t) /\ mode' \in Modes
      /\ tab' = t /\ tab' \in Pages /\ laid' = TRUE /\ Page(mode') = tab'
  BY DEF ApplyViewTab, ModeOf, Modes, Page, Pages
<1>4. /\ Sane(win', child') /\ OneHost(win') /\ ShownIsActive'
      /\ life' = "open" => Seen' = Only(Page(mode))'
  BY <1>1, <1>2, <1>3, Placing
<1> QED BY <1>3, <1>4

LEMMA InvInit == Init => Inv
<1> SUFFICES ASSUME Init PROVE Inv
  OBVIOUS
<1>1. win \in Windows /\ child \in [Pages -> Handles \union {NoHandle}]
  BY DEF Init, Windows
<1>2. "map" \in Pages /\ "view0" \in Pages
  BY DEF Pages
<1>3. Sane(win, child)
  BY <1>1, <1>2 DEF Init, Sane, HoldsOwn, NoSharing
<1>4. OneHost(win)
  BY <1>2 DEF Init, OneHost
<1>5. tasks \in Seq([what : {"bounds", "tab"}, at : 0 .. 3]) /\ now \in 0 .. TimeLimit
  BY TimeAssumption DEF Init
<1>6. Basic
  BY <1>5 DEF Init, Basic, Pages, Modes
<1>7. ShownIsActive
  BY DEF Init, ShownIsActive
<1> QED BY <1>3, <1>4, <1>6, <1>7 DEF Inv

\* A step that leaves the scene and its windows alone.
LEMMA Aside ==
  ASSUME Inv, UNCHANGED scenevars, life' = life \/ life' # "open"
  PROVE  Sane(win', child') /\ OneHost(win') /\ ShownIsActive'
         /\ mode' \in Modes /\ tab' \in Pages /\ laid' \in BOOLEAN
BY DEF Inv, Basic, scenevars, ShownIsActive, Seen, Only

LEMMA InvNext == Inv /\ [Next]_vars => Inv'
<1> SUFFICES ASSUME Inv, [Next]_vars PROVE Inv'
  OBVIOUS
<1> DEFINE Rest == /\ life' \in {"none", "open", "hidden", "closing", "gone"}
                   /\ agent' \in {"idle", "serving", "ahead", "behind"}
                   /\ quit' \in BOOLEAN /\ ended' \in BOOLEAN
                   /\ tasks' \in Seq([what : {"bounds", "tab"}, at : 0 .. 3])
                   /\ now' \in 0 .. TimeLimit
           Scene == /\ Sane(win', child') /\ OneHost(win') /\ ShownIsActive'
                    /\ mode' \in Modes /\ tab' \in Pages /\ laid' \in BOOLEAN
<1>0. SUFFICES Rest /\ Scene
  BY DEF Inv, Basic
<1>1. ASSUME ShowWorkbench PROVE Rest /\ Scene
  <2>1. PICK s \in SceneAttach(win, child, mode), scene3d \in BOOLEAN :
          /\ child' = s[2] /\ mode' = ModeOf(tab)
          /\ win' = ReparentSceneSurfaces(s[1], ModeOf(tab), s[2], tab)
          /\ tasks' = StartTasks(scene3d)
    BY <1>1 DEF ShowWorkbench
  <2>2. Sane(s[1], s[2])
    BY <2>1, AttachSane DEF Inv, Basic
  <2>3. mode' \in Modes
    BY <2>1 DEF ModeOf, Modes
  <2>4. Sane(win', child') /\ OneHost(win') /\ ShownIsActive'
    BY <2>1, <2>2, <2>3, Placing
  <2>5. tasks' \in Seq([what : {"bounds", "tab"}, at : 0 .. 3])
    <3> DEFINE T == [what : {"bounds", "tab"}, at : 0 .. 3]
               Task(what, at) == [what |-> what, at |-> at]
    <3>1. /\ Task("bounds", 0) \in T /\ Task("bounds", 1) \in T /\ Task("bounds", 3) \in T
          /\ Task("tab", 2) \in T /\ Task("tab", 3) \in T
      OBVIOUS
    <3>2. tasks' = IF scene3d
                   THEN << Task("bounds", 0), Task("bounds", 1), Task("tab", 2),
                           Task("bounds", 3), Task("tab", 3) >>
                   ELSE << Task("bounds", 0), Task("bounds", 1), Task("bounds", 3) >>
      BY <2>1 DEF StartTasks
    <3> HIDE DEF T, Task
    <3>3. tasks' \in Seq(T)
      BY <3>1, <3>2
    <3> QED BY <3>3 DEF T
  <2> QED BY <1>1, <2>3, <2>4, <2>5 DEF ShowWorkbench, Inv, Basic
<1>2. ASSUME NEW t \in Pages, TabSelectedAt(t) PROVE Rest /\ Scene
  BY <1>2, TabInv DEF TabSelectedAt, SelectViewTab, Inv, Basic
<1>3. ASSUME Resize PROVE Rest /\ Scene
  BY <1>3, LayoutInv DEF Resize, Inv, Basic
<1>4. ASSUME AgentServes \/ AgentCloses \/ PostLine PROVE Rest /\ Scene
  BY <1>4, Aside DEF AgentServes, AgentCloses, PostLine, Inv, Basic
<1>5. ASSUME RunLine PROVE Rest /\ Scene
  <2>1. Rest /\ life' = life
    BY <1>5 DEF RunLine, Inv, Basic
  <2>2. ASSUME NEW m \in Modes, SceneModeLine(m) PROVE Scene
    BY <2>2 DEF SceneModeLine, Inv, Basic, ShownIsActive
  <2>3. ASSUME AttachLine PROVE Scene
    <3>1. PICK s \in SceneAttach(win, child, mode) : win' = s[1] /\ child' = s[2] /\ mode' = s[3]
      BY <2>3 DEF AttachLine
    <3>2. Sane(win', child') /\ OneHost(win') /\ mode' \in Modes
      BY <3>1, AttachSane DEF Inv, Basic
    <3> QED BY <2>3, <3>2 DEF AttachLine, Inv, Basic, ShownIsActive
  <2>4. CASE UNCHANGED scenevars
    BY <2>1, <2>4, Aside
  <2> QED BY <1>5, <2>1, <2>2, <2>3, <2>4 DEF RunLine
<1>6. ASSUME RunTask PROVE Rest /\ Scene
  <2>1. Rest
    <3>1. tasks # << >> /\ tasks \in Seq([what : {"bounds", "tab"}, at : 0 .. 3]) /\ tasks' = Tail(tasks)
      BY <1>6 DEF RunTask, TakeTask, Due, Inv, Basic
    <3>2. tasks' \in Seq([what : {"bounds", "tab"}, at : 0 .. 3])
      BY <3>1
    <3> QED BY <1>6, <3>2 DEF RunTask, Inv, Basic
  <2>2. life' = life
    BY <1>6 DEF RunTask
  <2>3. CASE UNCHANGED scenevars
    BY <2>1, <2>2, <2>3, Aside
  <2>4. CASE Layout
    BY <2>1, <2>4, LayoutInv
  <2>5. CASE ApplyViewTab("view0")
    <3>1. "view0" \in Pages
      BY DEF Pages
    <3> QED BY <2>1, <2>5, <3>1, TabInv
  <2> QED BY <1>6, <2>3, <2>4, <2>5 DEF RunTask, SelectViewTab
<1>7. ASSUME Close PROVE Rest /\ Scene
  BY <1>7, Aside DEF Close, Inv, Basic
<1>12. ASSUME CloseNow PROVE Rest /\ Scene
  BY <1>12, Aside DEF CloseNow, Inv, Basic
<1>8. ASSUME WindowClosing PROVE Rest /\ Scene
  <2>1. win' \in Windows /\ child' \in [Pages -> Handles \union {NoHandle}]
    BY <1>8 DEF WindowClosing, Teardown, Windows
  <2>2. "map" \in Pages /\ "view0" \in Pages
    BY DEF Pages
  <2>3. Sane(win', child')
    BY <1>8, <2>1, <2>2 DEF WindowClosing, Teardown, Sane, HoldsOwn, NoSharing
  <2>4. OneHost(win')
    BY <1>8, <2>2 DEF WindowClosing, Teardown, OneHost
  <2> QED BY <1>8, <2>3, <2>4 DEF WindowClosing, Teardown, Inv, Basic, ShownIsActive
<1>9. ASSUME Idle PROVE Rest /\ Scene
  BY <1>9, Aside DEF Idle, Inv, Basic
<1>10. ASSUME Tick PROVE Rest /\ Scene
  <2>1. Rest
    BY <1>10, TimeAssumption DEF Tick, Inv, Basic
  <2> QED BY <1>10, <2>1, Aside DEF Tick
<1>11. ASSUME UNCHANGED vars PROVE Rest /\ Scene
  BY <1>11, Aside DEF vars, Inv, Basic
<1> QED BY <1>1, <1>2, <1>3, <1>4, <1>5, <1>6, <1>7, <1>8, <1>9, <1>10, <1>11, <1>12 DEF Next

LEMMA InvAlways == Spec => []Inv
BY InvInit, InvNext, PTL DEF Spec

-----------------------------------------------------------------------------

\* The windows there are, are exactly those of the presenters, for any number of
\* handles and any sequence of attaches, whole or failed (SceneImpl::Attach).
THEOREM NoWindowLeaks == Spec => []TypeOK
BY InvAlways, InvTypes, PTL

\* After every layout and tab switch the user sees the active presenter's window
\* and no other (ReparentSceneSurfaces).
THEOREM ActiveIsShown == Spec => []ShownIsActive
<1>1. Inv => ShownIsActive
  BY DEF Inv
<1> QED BY InvAlways, <1>1, PTL

\* Choosing another tab brings scene and shell together, whatever the lines of
\* the debug agent did before (ApplyViewTab).
THEOREM TabsHeal == Spec => TabSwitchHeals
<1>1. Inv /\ [Next]_vars =>
        [tab' # tab => (Page(mode) = tab /\ (life = "open" => Seen = Only(tab)))']_vars
  <2> SUFFICES ASSUME Inv, Next, tab' # tab
               PROVE  Page(mode') = tab' /\ (life' = "open" => Seen' = Only(tab)')
    BY DEF vars
  <2>1. \E t \in Pages : ApplyViewTab(t)
    <3>1. ASSUME NEW t \in Pages, TabSelectedAt(t) PROVE ApplyViewTab(t)
      BY <3>1 DEF TabSelectedAt, SelectViewTab
    <3>2. ASSUME RunTask PROVE ApplyViewTab("view0")
      BY <3>2 DEF RunTask, SelectViewTab, Layout, scenevars
    <3>3. "view0" \in Pages
      BY DEF Pages
    <3> QED BY <3>1, <3>2, <3>3 DEF Next, ShowWorkbench, Resize, Layout, AgentServes,
              AgentCloses, PostLine, RunLine, SceneModeLine, AttachLine, Close, CloseNow,
              WindowClosing, Teardown, Idle, Tick, scenevars
  <2> QED BY <2>1, TabInv
<1> QED BY <1>1, InvAlways, PTL DEF Spec, TabSwitchHeals
=============================================================================

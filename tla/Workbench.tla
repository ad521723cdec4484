------------------------------ MODULE Workbench ------------------------------
(***************************************************************************)
(* The workbench window: its Map and 3D tabs, the child windows that the   *)
(* scene's presenters draw in, and the hosts that place them on the pages  *)
(* (src/app/mgis/workbench/workbench.cc, session/session.cc,               *)
(* src/ui/views/controls/native/native_view_host.cc). One module of the    *)
(* window's life: shown, laid out, driven by the user and by the lines of  *)
(* the debug agent, closed.                                                *)
(*                                                                         *)
(* A task, a line or a click is one step of the UI thread; what can go     *)
(* wrong lies between the steps. A line changes the scene under the shell, *)
(* which only looks at it again at its next layout; a host goes on holding *)
(* the handle of a window that is destroyed; tasks posted when the window  *)
(* was shown are still to run when it is closed. The other thread is the   *)
(* debug agent's: it serves one client at a time (module DebugAgent),      *)
(* posts its line to the loop and waits for it, and closing the window     *)
(* joins it.                                                               *)
(***************************************************************************)
EXTENDS Integers, Sequences, FiniteSets

CONSTANTS Handles,      \* window handles
          NoHandle,     \* NULL
          TimeLimit     \* bound on the clock

\* There are more handles than the two presenters and a host hold.
ASSUME HandleAssumption ==
  /\ NoHandle \notin Handles
  /\ \A a, b, c \in Handles \union {NoHandle} : Handles \ {a, b, c} # {}
ASSUME TimeAssumption == TimeLimit \in Nat

VARIABLES life,     \* the widget: none yet, open, hidden (Close), closing
                    \* (in WindowClosing), gone
          quit,     \* quit_when_idle_received_ of the loop
          ended,    \* Run has returned
          tasks,    \* delayed tasks of ShowWorkbench still to run, by due time
          now,
          agent,    \* the agent's thread: idle, serving a client, or waiting
                    \* for a line it posted ahead of CloseNow, or behind it
          tab,      \* active_, and the tab the pane shows
          mode,     \* SceneImpl::mode_
          child,    \* hwnd() of each presenter
          win,      \* the windows as Windows and the hosts see them
          laid      \* no line touched the scene since the last layout

scenevars == <<tab, mode, child, win, laid>>
vars == <<life, quit, ended, tasks, now, agent, scenevars>>

Pages == {"map", "view0"}
Modes == {"scene2d", "scene3d", "columbus"}

\* The page a mode draws on; Columbus view is drawn by the map's presenter.
Page(m) == IF m = "scene3d" THEN "view0" ELSE "map"
ModeOf(t) == IF t = "view0" THEN "scene3d" ELSE "scene2d"

\* live: the windows there are; shown: those with WS_VISIBLE; stashed: those
\* moved under the hidden window of a detached host; host: the native_view_ of
\* each page.
Windows == [live : SUBSET Handles, shown : SUBSET Handles, stashed : SUBSET Handles,
            host : [Pages -> Handles \union {NoHandle}]]

\* What ShowWorkbench posts, by due time: bounds at once, after 500 and after
\* 2000 ms, and with --scene3d the 3D tab after 800 and after 2000 ms. The
\* clock counts these due times.
StartTasks(scene3d) ==
  LET Task(what, at) == [what |-> what, at |-> at]
  IN IF scene3d
     THEN << Task("bounds", 0), Task("bounds", 1), Task("tab", 2),
             Task("bounds", 3), Task("tab", 3) >>
     ELSE << Task("bounds", 0), Task("bounds", 1), Task("bounds", 3) >>

Due == tasks # << >> /\ Head(tasks).at <= now

Init == /\ life = "none" /\ quit = FALSE /\ ended = FALSE
        /\ tasks = << >> /\ now = 0 /\ agent = "idle"
        /\ tab = "map" /\ mode = "scene2d"
        /\ child = [p \in Pages |-> NoHandle]
        /\ win = [live |-> {}, shown |-> {}, stashed |-> {},
                  host |-> [p \in Pages |-> NoHandle]]
        /\ laid = FALSE

-----------------------------------------------------------------------------
(* The windows: each operator gives the windows after one call. *)

\* ShowWindow(SW_HIDE) and (SW_SHOWNA), which do nothing to a dead handle.
Hide(w, h) == [w EXCEPT !.shown = @ \ {h}]
Show(w, h) == [w EXCEPT !.shown = @ \union ({h} \intersect w.live)]

\* A presenter's child window is made visible under the widget.
Create(w, h) == [w EXCEPT !.live = @ \union {h}, !.shown = @ \union {h}]

\* DestroyWindow; the host that shows the window is not told.
DestroyWindow(w, h) == [w EXCEPT !.live = @ \ {h}, !.shown = @ \ {h}, !.stashed = @ \ {h}]

\* NativeViewHost::Layout: the window follows the visibility of its page.
HostLayout(w, p, t) == IF t = p THEN Show(w, w.host[p]) ELSE Hide(w, w.host[p])

\* NativeViewHost::Detach: the window moves under the hidden window.
Detach(w, p) == [w EXCEPT !.stashed = @ \union ({w.host[p]} \intersect w.live),
                          !.host[p] = NoHandle]

\* NativeViewHost::Attach: hide, move under the widget, lay out.
Attach(w, p, h, t) ==
  HostLayout([Hide(w, h) EXCEPT !.stashed = @ \ {h}, !.host[p] = h], p, t)

\* Lay out, which hides the window of a page that is not selected, then show it
\* in any case.
ShowAttachedChild(w, p, h, t) == Show(HostLayout(w, p, t), h)

\* Mutant: a host that holds a window is taken to hold the right one.
AttachOrDetachOnce(w, p, h, attach, t) ==
  IF attach /\ h # NoHandle
  THEN ShowAttachedChild(IF w.host[p] # NoHandle THEN w ELSE Attach(w, p, h, t), p, h, t)
  ELSE Hide(Detach(w, p), h)

\* The host may hold the right window, one that is dead, or none.
AttachOrDetach(w, p, h, attach, t) ==
  IF attach /\ h # NoHandle
  THEN ShowAttachedChild(IF w.host[p] = h THEN w ELSE Attach(Detach(w, p), p, h, t), p, h, t)
  ELSE Hide(Detach(w, p), h)

\* Hide both, place each by the mode, then, after the resize, show the active
\* one again.
ReparentSceneSurfaces(w, m, c, t) ==
  LET hidden == Hide(Hide(w, c["map"]), c["view0"])
      map    == AttachOrDetach(hidden, "map", c["map"], Page(m) = "map", t)
      both   == AttachOrDetach(map, "view0", c["view0"], Page(m) = "view0", t)
  IN IF c[Page(m)] = NoHandle THEN both
     ELSE ShowAttachedChild(both, Page(m), c[Page(m)], t)

-----------------------------------------------------------------------------
(* The scene: Attach makes new presenters, each of which may fail. *)

\* A handle nobody holds: Windows counts the uses of a slot in the handle, so
\* one somebody still holds is not given out again. Handles are only compared,
\* so it does not matter which of the others it is.
Fresh(w) == CHOOSE h \in Handles : h \notin w.live \union {w.host[p] : p \in Pages}

\* Mutant: the presenter that is replaced leaves its window behind.
ReplaceLeaking(w, c, p, h) == <<Create(w, h), [c EXCEPT ![p] = h]>>

\* scoped_ptr::reset: the new presenter has its window before the old one dies.
Replace(w, c, p, h) == <<DestroyWindow(Create(w, h), c[p]), [c EXCEPT ![p] = h]>>

\* The map's presenter cannot be made: nothing changes. Only the 3D one cannot:
\* the map is new, the mode and the 3D presenter stay. Else both are new and
\* the mode is the map's.
SceneAttach(w, c, m) ==
  LET one == Replace(w, c, "map", Fresh(w))
      two == Replace(one[1], one[2], "view0", Fresh(one[1]))
  IN {<<w, c, m>>, <<one[1], one[2], m>>, <<two[1], two[2], "scene2d">>}

-----------------------------------------------------------------------------
(* The shell. *)

\* ShowWorkbench: the session starts whether or not the scene could be
\* attached, and the shell lays out; that several calls of it do so here
\* changes nothing more.
ShowWorkbench ==
  /\ life = "none"
  /\ \E s \in SceneAttach(win, child, mode), scene3d \in BOOLEAN :
       /\ child' = s[2] /\ mode' = ModeOf(tab)
       /\ win' = ReparentSceneSurfaces(s[1], ModeOf(tab), s[2], tab)
       /\ tasks' = StartTasks(scene3d)
  /\ life' = "open" /\ laid' = TRUE
  /\ UNCHANGED <<quit, ended, now, agent, tab>>

\* WorkbenchContents::Layout: the views' hosts, then the scene's windows.
Layout ==
  /\ win' = LET views == HostLayout(HostLayout(win, "map", tab), "view0", tab)
            IN ReparentSceneSurfaces(views, mode, child, tab)
  /\ laid' = TRUE
  /\ UNCHANGED <<tab, mode, child>>

\* Mutant: the tab is shown and the scene is not told.
ApplyViewTabQuietly(t) ==
  LET pages == HostLayout(HostLayout(win, tab, t), t, t)
  IN /\ tab' = t /\ laid' = TRUE
     /\ win' = ReparentSceneSurfaces(pages, mode, child, t)
     /\ UNCHANGED <<mode, child>>

\* ApplyViewTab and ApplySceneMode: the pane hides one page and shows the
\* other, whose hosts lay out; then the mode is the tab's and the windows move.
ApplyViewTab(t) ==
  LET pages == HostLayout(HostLayout(win, tab, t), t, t)
  IN /\ tab' = t /\ mode' = ModeOf(t) /\ laid' = TRUE
     /\ win' = ReparentSceneSurfaces(pages, ModeOf(t), child, t)
     /\ UNCHANGED child

\* SelectViewTab returns early on the tab it has, whatever the scene's mode.
SelectViewTab(t) == IF tab = t THEN UNCHANGED scenevars ELSE ApplyViewTab(t)

\* A click on a tab, or Ctrl+Tab.
TabSelectedAt(t) == /\ life = "open" /\ t # tab
                    /\ SelectViewTab(t)
                    /\ UNCHANGED <<life, quit, ended, tasks, now, agent>>

\* The user resizes the window.
Resize == life = "open" /\ Layout /\ UNCHANGED <<life, quit, ended, tasks, now, agent>>

-----------------------------------------------------------------------------
(* The debug agent: its thread, and its lines on the UI thread. *)

\* A connection is accepted; a client that trickles its request or does not
\* read its reply keeps the thread for as long as it likes.
AgentServes == /\ agent = "idle" /\ life \in {"open", "hidden"}
               /\ agent' = "serving"
               /\ UNCHANGED <<life, quit, ended, tasks, now, scenevars>>

\* The connection is closed, answered or not.
AgentCloses == /\ agent = "serving" /\ agent' = "idle"
               /\ UNCHANGED <<life, quit, ended, tasks, now, scenevars>>

\* RunLineOnUi: the loop takes its tasks in the order they were posted in.
PostLine == /\ agent = "serving"
            /\ agent' = IF life = "open" THEN "ahead" ELSE "behind"
            /\ UNCHANGED <<life, quit, ended, tasks, now, scenevars>>

\* A line that sets the mode; the shell is not told.
SceneModeLine(m) == mode' = m /\ laid' = FALSE /\ UNCHANGED <<tab, child, win>>

\* A line that attaches the scene again.
AttachLine == /\ \E s \in SceneAttach(win, child, mode) :
                   win' = s[1] /\ child' = s[2] /\ mode' = s[3]
              /\ laid' = FALSE
              /\ UNCHANGED tab

\* The loop runs the line and wakes the thread, which then replies.
RunLine == /\ agent = "ahead" /\ agent' = "serving"
           /\ \/ \E m \in Modes : SceneModeLine(m)
              \/ AttachLine
              \/ UNCHANGED scenevars
           /\ UNCHANGED <<life, quit, ended, tasks, now>>

-----------------------------------------------------------------------------
(* The loop and the end of the window. *)

\* The loop takes the earliest task that is due,
TakeTask == ~ended /\ life # "closing" /\ Due /\ tasks' = Tail(tasks)

\* and runs it. Its widget and contents are raw pointers: on a window that is
\* gone it uses freed memory, of which the model shows only that it is reached.
RunTask ==
  /\ TakeTask
  /\ IF life = "gone" THEN UNCHANGED scenevars
     ELSE IF Head(tasks).what = "bounds" THEN Layout
     ELSE SelectViewTab("view0")
  /\ UNCHANGED <<life, quit, ended, now, agent>>

\* Widget::Close: hidden at once, destroyed by a task.
Close == /\ life = "open" /\ life' = "hidden"
         /\ UNCHANGED <<quit, ended, tasks, now, agent, scenevars>>

\* CloseNow, posted by Close, runs after the task that was posted at once and
\* after a line posted before it. WindowClosing stops the agent: no client is
\* accepted any more, and the UI thread waits for the agent's thread.
CloseNow == /\ life = "hidden" /\ agent # "ahead"
            /\ tasks # << >> => Head(tasks).at > 0
            /\ life' = "closing"
            /\ UNCHANGED <<quit, ended, tasks, now, agent, scenevars>>

\* DestroyWindow kills the widget's children; the presenters, destroyed with
\* the contents, kill the others.
Teardown == /\ life' = "gone" /\ laid' = FALSE
            /\ child' = [p \in Pages |-> NoHandle]
            /\ win' = [live |-> {}, shown |-> {}, stashed |-> {},
                       host |-> [p \in Pages |-> NoHandle]]
            /\ UNCHANGED <<tab, mode>>

\* Mutant: the loop is not told.
WindowClosingQuietly == /\ life = "closing" /\ agent = "idle"
                        /\ Teardown
                        /\ UNCHANGED <<quit, ended, tasks, now, agent>>

\* The agent's thread has ended; the loop is asked to quit when idle.
WindowClosing == /\ life = "closing" /\ agent = "idle"
                 /\ Teardown /\ quit' = TRUE
                 /\ UNCHANGED <<ended, tasks, now, agent>>

\* The loop ends when nothing is due; the tasks that are not due are deleted.
Idle == /\ quit /\ ~ended /\ ~Due
        /\ ended' = TRUE /\ tasks' = << >>
        /\ UNCHANGED <<life, quit, now, agent, scenevars>>

Tick == /\ ~ended /\ life # "none" /\ now < TimeLimit /\ now' = now + 1
        /\ UNCHANGED <<life, quit, ended, tasks, agent, scenevars>>

Next == \/ ShowWorkbench
        \/ \E t \in Pages : TabSelectedAt(t)
        \/ Resize
        \/ AgentServes
        \/ AgentCloses
        \/ PostLine
        \/ RunLine
        \/ RunTask
        \/ Close
        \/ CloseNow
        \/ WindowClosing
        \/ Idle
        \/ Tick

\* The loop runs its tasks and lines and comes to idle, and a join returns once
\* its thread has ended; the user and the agent's clients owe it nothing.
Fairness == /\ WF_tasks(TakeTask) /\ WF_vars(RunLine)
            /\ WF_vars(CloseNow) /\ WF_vars(WindowClosing) /\ WF_vars(Idle)

Spec == Init /\ [][Next]_vars /\ Fairness

-----------------------------------------------------------------------------
(* What the user can see. *)

Seen == IF life = "open" THEN win.shown \ win.stashed ELSE {}

\* The one window of a page, if its presenter has one.
Only(p) == {child[p]} \ {NoHandle}

\* Types; and the windows there are, are exactly the presenters': an attach
\* that replaces presenters, in whole or in part, leaks no window and kills
\* none it goes on using (SceneImpl::Attach).
TypeOK == /\ life \in {"none", "open", "hidden", "closing", "gone"}
          /\ agent \in {"idle", "serving", "ahead", "behind"}
          /\ quit \in BOOLEAN /\ ended \in BOOLEAN /\ laid \in BOOLEAN
          /\ tasks \in Seq([what : {"bounds", "tab"}, at : 0 .. 3])
          /\ now \in 0 .. TimeLimit
          /\ tab \in Pages /\ mode \in Modes
          /\ child \in [Pages -> Handles \union {NoHandle}]
          /\ win \in Windows
          /\ win.live = Only("map") \union Only("view0")

\* After a layout or a tab switch the user sees the active presenter's window
\* and no other, in the host of its page, and the other host is empty: whatever
\* lines changed the mode or replaced windows under the shell meanwhile, however
\* many attaches left a host with a dead handle, and whichever of them failed
\* (ReparentSceneSurfaces, which must put right any state it finds).
ShownIsActive ==
  life = "open" /\ laid =>
    /\ Seen = Only(Page(mode))
    /\ \A p \in Pages : win.host[p] = IF p = Page(mode) THEN child[p] ELSE NoHandle

\* Choosing another tab always brings the scene and the shell together: the
\* scene has the mode of the tab and the user sees the window of that tab only,
\* although lines may have set the scene to that mode, or the other, before.
TabSwitchHeals ==
  [][tab' # tab => (Page(mode) = tab /\ (life = "open" => Seen = Only(tab)))']_vars

\* A window that is closed ends the program, with start-up tasks and a line of
\* the agent still pending or due, unless WindowClosing waits for ever for the
\* agent's thread: for one whose line came behind CloseNow, which only the
\* waiting thread could run, or for one that a client does not let go.
JoinsAgent == life = "closing" /\ agent \in {"serving", "behind"}
CloseEnds  == life = "hidden" ~> (ended \/ []JoinsAgent)
=============================================================================

# Verification of mgis

mgis is a desktop GIS: a Views shell (`src/app/mgis`) over a content layer
(`src/content`) that shows a map (MapLibre) and a globe (an Unreal process
behind a named pipe, or FlyCube in its place), takes tools and commands from
`src/tool` and `src/plugin`, and is driven by suites and by an agent over
loopback HTTP. Chromium's base and views, Skia and the other vendored trees
make up most of the repository; of them only the message loop, on which
everything else runs, and the host of native windows are modelled.

This directory holds TLA+ models of the parts of mgis where order, failure and
shared state decide whether it works, what TLC checks of them on small
instances, and what TLAPS proves for every instance. `PROJECT.json` maps every
definition to the lines it models and lists runs, findings, hazards and
theorems. Paths below are relative to `src/`.

## 1. The system

| Component | State | Operations | Talks to | What is hard |
|---|---|---|---|---|
| UE peer world (`content/browser/ipc/ue_peer.cc`) | two viewports with window, size and pose; shared origin; tileset; cache of replies | hello, attach, resize, close, ping, camera.set, layer.set; cached retry; unreadable frame | pipe transport | poses that outlive their viewport; refusal after a write; a cache at its limit |
| UE pipe transport (`ue_peer.cc`, `pipe_client.cc`, `pipe_message.cc`) | I/O and game threads, stop and ready events, one pipe instance, clients | start, stop, accept, read, handle, write, drop; connect, send, receive, close | peer world, presenter | a client that goes at any moment; stop against pending I/O; lost replies and retries |
| Debug agent and MCP server (`content/browser/agent`) | listening socket, accept thread, posted task, discovery file | Start, Stop, accept, receive, post to the UI thread, send | UI message loop, other copies of the product | UI thread and accept thread waiting for each other; a file shared by processes; crashes |
| Plugins (`plugin`, `content/browser/plugin`) | manifests, loaded DLLs, commands, factories | Scan, LoadAll, LoadOne, contribute, set_tool_session, ActivateInteraction | tool workspaces | pointers into DLLs that may be freed; order of contributions |
| Tool workspace (`tool`) | interaction stack, gesture of each drafting tool | execute, activate, push, pop, dispatch, set_edit_sink | edit sink, if one is set | committing a gesture once, not never and not twice |
| Scene and tool session (`content/browser/session/gis_contents.cc`, `tooling`, `viewport/present/scene_impl.cc`) | mode, tool, draft, presenters, drag, last interaction | attach, mode, tool, pointer, commit | workspace, presenters, workbench | two copies of "the tool"; modes switched under a tool or a drag; attach failing half way |
| UI message loop (`base/message_loop.cc`, `run_loop.cc`, `message_pump_win.cc`) | incoming, work, delayed and deferred tasks; have_work flag; window messages and timer; open loops | post, wake, reload, run, defer, idle, wait, quit, destroy | every thread that posts; Windows | wake-ups sent outside the lock; a full message queue; menus and native modal loops inside a task |
| Workbench, session and window hosts (`app/mgis/workbench/workbench.cc`, `session/session.cc`, `ui/views/controls/native`) | the window, its tab, the hosts of its pages, tasks still to run | show, select tab, layout, reparent, close | scene, debug agent, message loop | lines that change the scene under the shell; hosts with handles of dead windows; tasks that outlive the window |
| Suite runtime (`content/browser/glang.runtime`) | marks, handler of the running suite | load, run lines | capability host, scene | all-or-nothing marks; a process-wide handler |
| UE presenter (`viewport/present/ue_presenter.cc`) | pose, connection | create, move, SetCamera | pipe client | ignored answers, repeated ids |
| Event bus and trace log (`content/browser/session`) | observers, last 256 lines | add, remove, publish, append | everything | observers removed during publish; writers on two threads |
| View host (`viewport/view_host.cc`) | child window, backend hooks | attach, detach, resize | presenters | hooks changed between attach and detach |
| Panels, globe view, layout checker, harness campaign, application entry | windows and widgets | layout, painting, start-up | scene | window parenting |
| MapLibre and FlyCube presenters, map and world passes (`vista`) | GPU resources | draw | scene | rendering, floating point |
| Fake scene, UI designer, markup, toolkit and vendored libraries | | | | outside the core |

What makes the modelled components correct:

- peer: the shared origin stays near a camera, but for the mean of two cameras
  on the two sides of the antimeridian; an accepted camera.set never
  leaves the cameras too far apart; an error changes nothing; a retried
  request runs once; windows are never mixed up;
- pipe: a call runs at most once and gets its own answer; nobody waits for
  ever; stop always returns and leaves nothing;
- agent: no task writes into a dead frame; Stop returns and connections end,
  but for the waits the code does not bound; the discovery file names a copy
  that serves, unless that copy was killed, has stopped accepting, or could not
  delete the file;
- plugins: what the host can call is mapped, at least for a DLL some load of
  which succeeded; the built-in tools stay; every view gets every factory;
- workspace: one commit per gesture, at once, while a sink is set; no 3D tool in
  a flat view;
- scene: session and scene name the same tool; a movement reaches only a camera
  that understands it; an attached scene can always be shown;
- message loop: a post wakes a sleeping loop, but for one case on a full message
  queue and for native modal loops opened over waiting tasks; tasks start in
  order and not early, each is run or deleted, a quit ends the loop;
- workbench: the user sees the active presenter's window and no other after
  every layout; no window leaks; closing ends the program, unless it waits for
  ever for the thread of the debug agent.

## 2. Modules

`UePeer` is what the peer does with a request. One action per handler
(`HandleHello`, `HandleAttach`, `HandleResize`, `HandleClose`, `HandlePing`,
`HandleCamera`, `HandleLayer`), `Replay` for an id found in the cache, `Reject`
for an unknown operation and `BadFrame` for one that cannot be read. `view`,
`origin`, `tileset`, `child_serial` and `recent` are the members of
`UePeerState`; `answer` is the reply just produced. A position is a longitude
and a latitude in units of which `HalfTurn` make 180 degrees (in the run, tenths
of a degree; means are rounded to a unit). `SeparationMeters`, the great-circle
distance, is a constant: the run gives its values for its positions and their
means, the proofs use only what `SphereAssumption` says of it. The origin is the
plain mean of longitudes and latitudes, as in the code, across the antimeridian
too (`Straddle`). A camera.set writes the pose before it checks it (`Placed`)
and a refused one puts the fields back one by one (`Restored`).

`UePipe` is the transport: `start` and `stop`, the I/O thread step by step
between its blocking calls, each of which may fail though the client is still
there, the game thread, the single pipe instance with one message in each
direction, and clients that connect, send, read and vanish at any point.
Windows' side of the pipe is modelled from how the code uses it. Requests are an
id, `Garbage` or `Oversize`. `PipeClient` never sends an oversized message,
other programs may.

`PipeCalls` is the abstract promise: a call that returned ran exactly once
since the server started, a failed one at most once. `UePipe` implements it
under the mapping `Calls` (checked as `ImplementsCalls`): a call is a client's
outstanding request, "sent" is what is in the pipe or in the I/O thread's
hands, "runs" is the count of handler executions.

`DebugAgent` has, for each running copy of the product, the UI thread in Start
or Stop, the accept thread, its backlog, one connection and the task posted to
the message loop, and for all of them the discovery file. The copies in
`Looped` have a message loop, as the product has; in the others a line runs on
the accept thread. A request is received in two loops, header and body, each
recv of which may time out, bring some bytes, or bring the last ones. The
clients in `Stubborn` may trickle bytes within every timeout, or stop reading
while the server sends, which has no timeout. Deleting the discovery file may
fail, which the code ignores; `undeleted` remembers that it did.

`Plugins` has the registry, the loader with its reference counts, the host's
tables and each view's interaction registry. A DLL contributes in any order
while its entry point runs, and may report failure at the end. What the tables
hold are pointers into an `image`: a DLL that is unmapped and mapped again is
another image, and pointers into the first one dangle. `modules` are the images
the loader keeps because a load of them succeeded.

`Workspace` is one view's `tool::Workspace`. `presses` and `commits` are
history variables: the presses a selection tool received and the calls of
`EditSink::commit_selection`. `SetEditSink` sets a sink or takes it away at any
time; without one a result is acknowledged and dropped, as in the code.

`Scene` composes `GisContents`, `ToolSession` and `SceneImpl`, and instantiates
`Workspace` for the view `scene`: a pointer event the scene accepts is
dispatched to that workspace in the same step. No code of the product sets an
edit sink, so there it stays null. The shell's `SelectViewTab`,
suite and agent lines (`ActivateSceneTool`, `OnCommand`, `OnSceneMode`,
`PointerLine`, `Commit`) and the child windows (`HwndPointer`) are its actors;
they all run on the UI thread, so each is one step. `moved` records the last
movement asked of a presenter.

`UiLoop` is the loop of the UI thread. `stack` holds the loops open on it, the
innermost last: a frame of kind `run` is a `RunLoop` in `DoRunLoop`, its `at`
the place between two calls, `quit` and `idle` its should_quit and
quit_when_idle_received_; a frame of kind `modal` is Windows' own loop, which
runs tasks only through kMsgHaveWork and WM_TIMER. `Code` is what a task or a
message handler may do to the loop: return, post, quit, open a loop. A post with
a delay, from any thread, first reads the clock for its run time (`PostTask`,
which leaves it in `stamped`) and then, in a step of its own, takes the lock,
gets its number and joins the incoming queue (`Enqueue`); one without delay
needs no clock and is a single step. Then `ScheduleWork` takes up to three
steps, since it runs outside the lock and its exchange of `have_work_`, its
PostMessage and its recovery can interleave with the pump; `pc` is where each
thread is in all this. A task's field `after` is history: the next number when
its post read the clock. A task that joins the delayed ones sets the timer if it
comes first, and may set it if another does, since the code compares closures
(`Equals`) and both may have the same one. `ProcessPumpReplacementMessage` is
one step up to the exchange: a thread that exchanges the flag between its peek
and its own exchange finds it set and leaves, as it does before the step. The
clock runs to `TimeLimit`; a task without delay has no run time. Nothing in the
product sets os_modal_loop_ or calls RunLoop::Quit, RunUntilIdle or
PostQuitMessage; only menus open nested RunLoops, always under a
ScopedNestableTaskAllower. A loop whose tasks delete others while being deleted
themselves (~MessageLoop's hundred rounds) is reduced to its result, empty
queues.

`Workbench` is the window. `win` is what Windows knows of the presenters'
windows (which live, which are WS_VISIBLE, which are parked under the hidden
window) and the `native_view_` of each page's host; the operators on it
(`Attach`, `Detach`, `HostLayout`, `ShowAttachedChild`, `AttachOrDetach`,
`ReparentSceneSurfaces`) are the functions of that name. The actors are the user
(`TabSelectedAt`, `Resize`, `Close`), the lines of the debug agent
(`SceneModeLine`, `AttachLine`), the agent's thread, of which `agent` says
whether it serves, has posted a line, or waits behind `CloseNow` (`AgentServes`,
`PostLine`, `RunLine`, `AgentCloses`), the tasks posted by `ShowWorkbench`
(`RunTask`) and the loop, of which only what matters here is kept: tasks in
order of due time, `CloseNow` behind the task posted at once, `Idle` when
nothing is due. `CloseNow` begins WindowClosing, which joins the agent's thread
before it goes on (`WindowClosing`); a line posted behind `CloseNow` never runs,
and the join never returns. Windows does not give out a handle that somebody
still holds (`Fresh`): it counts the uses of a slot in the handle. Were it to, a
layout after two attaches could park the map's new window for good, because
`AttachOrDetach` empties the other host after the active one is filled.

The modules `MCUePeer`, `MCUePipe`, `MCDebugAgent`, `MCPlugins`, `MCWorkspace`,
`MCScene`, `MCUiLoop` and `MCWorkbench` instantiate these for TLC. Each component
has its theorems in a module of its own, which extends it: `UePeerProofs`,
`UePipeProofs`, `DebugAgentProofs`, `PluginsProofs`, `WorkspaceProofs`,
`SceneProofs`, `UiLoopProofs` and `WorkbenchProofs`. Definitions described as a
variant or mutant of the next one are plausible mistakes in that code; with each
of them put in place, the property named in `PROJECT.json` fails.

## 3. Runs

| Run | Bounds | Shows |
|---|---|---|
| `peer` | 2 ids, cache of 1, limit of 100 km and three positions, two of them 44 km apart across the antimeridian, a third near one of these only; 3 windows | every handler in every order: `OriginAnchored`, `CameraNeverSeparates`, `ErrorLeavesWorld`, `RetryIsHarmless` |
| `peer_reattach` | the same | **violation** of `SeparationWithinLimit`: close, move the other camera away, attach again |
| `pipe` | 2 clients, 2 ids, cache of 2, 2 starts | `ReplyAnswersReader`, `StopIsClean`, refinement `ImplementsCalls`; liveness `StopTerminates`, `CallsReturn`, `DroppedClientReleased` |
| `pipe_early_drop` | the same | **violation** of `ServesUntilStopped`: a client that comes and goes before ConnectNamedPipe ends the server thread |
| `agent` | 2 copies, one with a message loop, 2 clients, one of them stubborn, 2 starts each, crashes, failing writes and deletes, early hang-ups | `TaskFrameAlive`, `StopIsQuiet`, `NoStaleDiscovery`; liveness `StopReturns`, `ConnectionsEnd` |
| `agent_stop_deadlock` | 1 copy with a message loop | **violation** of `PostedLineRuns`: Stop joins the thread that waits for the UI thread |
| `plugins` | 2 directories, 3 manifests, 2 DLLs (one named twice), 2 commands, a new and a built-in factory id, 2 views, each DLL mapped at most twice | `LoadedWhileReferenced`, `KeptStaysMapped`, `FactoriesInstalled` |
| `plugins_dangling` | the same | **violation** of `NoDanglingCode`: contribute, then report failure |
| `workspace` | flat view, 3 presses, stack of 2, the sink set or not | `CommitsWithinPresses`, `NoResultWaits` |
| `scene` | all modes and surfaces, the five tools that differ, 1 press of a selection, 1 draft point | `SidesInSync`, `NavigationFits`, `PairKept` |
| `loop` | 2 posters beside the UI thread, 2 tasks among 3 kinds (plain, non-nestable, delayed; the second poster posts plain ones only), a message queue of 1, 2 open loops, 2 ticks | `OnePumpMessage`, `NoLostWakeup`, `StartsInOrder`; liveness `TasksSettle`, `QuitReturns` |
| `workbench` | 4 handles, start-up tasks with and without `--scene3d`, any number of clicks, resizes and lines, the agent's thread | `ShownIsActive`, `TabSwitchHeals`; liveness `CloseEnds` |

Every passing run also checks its module's `TypeOK`.

Why the bounds are enough. The peer has exactly two viewports. Three positions
give equal, near and far pairs, and a near pair whose mean is on the other side
of the globe; three windows allow a close and a reopen while the other viewport
is open; a cache of one is evicted by every second id, and the theorems cover
every size. In `pipe` the cache holds both ids, so an id is never forgotten and
at-most-once must hold without exception; with a smaller cache a retry after
eviction may run again, by design. A second client is what finds a left-over
reply, a second start what finds left-over state. In `agent` two copies are what
can disagree about one file, a second client queues behind the first, and two
starts allow a crash and a restart; one copy has a message loop and one client
is stubborn, so that each kind meets the other. One DLL named by two manifests
is the smallest case in which reference counts matter, and a DLL mapped twice
the smallest in which a pointer goes to its first image. In `workspace` a stack
of two has a tool under another one, and the bounds fall away in the proofs.
`scene` is finite up to its counters: one press and one point reach every value
the guards look at. In `loop` two tasks are what order needs, two posters and
the UI thread are three contenders for the flag (with two, the lost wake-up of
section 5 does not happen), a queue of one is full with one message in it, one
tick makes a delayed task due and two let two delayed tasks have different
times, and two loops are an outer one with a menu or a modal loop in it; the
theorems about it cover all larger values. Time passes only while a task waits
for it or a thread has read the clock and not yet enqueued its task; at other
times nothing can tell. In `workbench` two windows live, a host may hold one
dead handle, and the fourth is the one given out next; which one it is does not
matter, since handles are only compared.

Deadlock is not checked in `pipe`, `agent`, `loop` and `workbench`: a stopped
server with no start left, or a loop that has returned, really has nothing to
do. In the violation runs the specification is the same as in the passing ones.

### Fairness

Weak fairness only. In `UePipe`: the I/O thread, the game thread, the return of
start and stop once their waits can be satisfied, and a client's blocked read
once it can return; operating system threads that are ready do run. Nothing
obliges the owner to start or stop, or a client to connect, send or leave. In
`DebugAgent`: both threads of a live copy. A recv returns after the three-second
SO_RCVTIMEO at the latest; that a request then ends, and that a send ends at
all, is up to the client, and is assumed of every client that is not stubborn. A
blocked join or wait is not enabled, so fairness does not resolve the deadlock
of `agent_stop_deadlock`: `StopReturns` and `ConnectionsEnd` name it, and a
connection held by a stubborn client, as the ways a copy may stay `Stuck` for
ever. In `UiLoop`: the pump, each thread that is about to take the lock or
inside `ScheduleWork`, the destructor once Run has returned, and the clock.
Nobody has to post, type, or close a dialog: `TasksSettle` and `QuitReturns` say
so in their premises (`Alone`: in the end no menu or dialog is open; `Quiet`: in
the end no input waits), since a loop that never rests is never idle.
`TasksSettle` has a third premise, that the loop will wake when it has to
(`WillWake`) again and again: what it excludes is a wake-up lost for good, see
section 5. In `Workbench`: taking a task that is due, a posted line, the posted
CloseNow, the join once the agent's thread has ended, and the end of the loop
once idle; the agent's clients owe nothing, so the thread may serve one for
ever; fairness of `RunTask` is stated on `TakeTask`, the part that decides
whether it can happen. The other modules state only safety.

## 4. Proofs

Every safety invariant and action property that a passing run checks is also a
theorem, for every value of the constants under the named assumptions of the
modules, which TLC evaluates in the runs. Most of these say only that sets and
bounds have their kind, that threads are finitely many, and that names for
nothing (`None`, `NoId`, `NoClient`) are no member of the sets they are used
beside. Three say more:

- `HandleAssumption` of `Workbench`: however many handles the two presenters and
  a host hold, Windows has another one to give out, so there are at least four;
- `NoEviction`, the assumption of `PipeImplementsCalls` alone: the peer's cache
  holds a reply for every id. With a smaller cache a retry after eviction runs
  again, by design, and the refinement is false;
- `SphereAssumption` of `UePeer`: distances are symmetric, none from a position
  to itself, and the mean of two positions within the limit is within the limit
  of one of them, unless they straddle the antimeridian. Near the poles, where
  the mean of two longitudes says little, this need not hold; what is proved of
  the origin is proved for places where it does.

In each module the inductive invariant is `Inv` (in `UePeerProofs` and
`WorkspaceProofs` it has the names given below); TLC checked each of them on an
instance of its component before it was proved.

`UePeerProofs`. `StepShape` divides every step into three: a fresh reply
(which changes the world only if it is `ok`, and then by one of four effects),
a reply from the cache, and an unreadable frame. From it:

- `TypeCorrect`, `WindowsDistinct`; `ErrorsHarmless`, with `RefusalRestores`: a
  refused camera.set puts back every field it wrote;
- `CacheIsRetryWindow` and `RetriesHarmless`, from the inductive `CacheInv`:
  that no id occurs twice is preserved only because handlers run for ids not in
  the cache, and a retry repeats the first answer only because each entry is
  the only one with its id;
- `OriginStaysAnchored`, from `PosesOccur` (a posed camera is at a position
  some request gave) and `SphereAssumption`, for any positions, those across the
  antimeridian included: there the origin is the mean on the far side of the
  globe (`MeanAcross`), and the theorem says that this is the only exception;
- `CamerasStayClose`: two attached cameras come to be beyond the limit only in
  a step that opens a window, never in a camera.set.

`UePipeProofs`. That a reply is its reader's (`ReplyIsForReader`) rests on
`OneMessage`: of the request in the pipe, the request in the I/O thread's hands
and the reply in the pipe at most one exists, and while the instance is
connected it belongs to the call its client waits on. That needs `Ends` (who is
connected, in which state of the instance, and that nothing is in a pipe nobody
uses) and `Handle` (how far the I/O thread is when the instance exists), from
which `StopLeavesNothing` follows too. `PipeImplementsCalls` proves the
refinement of `PipeCalls`: initial states map to initial states, and each
action of the server (`ServerRefines`) and of a client (`ClientRefines`) maps to
a step of a call or to none. It adds `Once`: an id has run once if it is in the
cache and not at all otherwise, so that what is in flight has a cached reply.

`DebugAgentProofs`. The state of one copy says what its two threads may assume
of each other (`Local`: past the join of Stop there is no accept thread; between
calls there is one exactly when the socket listens; it leaves the wait for its
task only after the UI thread has signalled), and a step of one copy leaves that
of every other as it is (`OnlyApp`), the discovery file apart, where it never
writes another's name. `Assemble` puts the two together, so every step is proved
for one copy only. `PostedFrameAlive`, `StoppedServerIsQuiet` and
`DiscoveryNeverStale` follow; the last names the three ways in which the file
lies: its writer was killed, went deaf on a failed accept, or could not delete
it.

`PluginsProofs`. `ReferencedStaysLoaded` needs `MappedWhileLoading`: a DLL
contributes only while its entry point runs, and holds a reference until the
step that records its failure. The same condition counts one more reference when
an earlier load of that DLL succeeded, which is why its failure does not unmap
what that load contributed (`KeptCodeStaysMapped`). `OrderDoesNotMatter` needs
`BareBeforeSession`: until the session is set a view has only its built-in
tools.

`WorkspaceProofs`. `CommitsWithinPresses` is not inductive. The invariant gives
each stacked selection gesture that is begun and not yet acknowledged a credit
of one press: `Balanced` says that commits and credits together never exceed
the presses. It needs `GestureBegun` (only a drafting tool has a draft, and a
result has a draft) and `Settled` (a result on a selection tool is
acknowledged). `Activate` and `Pop` drop credits, `Push` adds none, a press
makes at most one, a commit spends one; the count is the cardinality of the set
`Owing` of stack positions. `WorkspaceInvariant` proves the conjunction, and
`WorkspaceTyped`, `CommitOncePerPress`, `SelectionCommittedAtOnce` and
`ToolsFit` follow, for every view, stack depth and number of presses.

`SceneProofs`. `SessionAndSceneAgree`, `CameraFitsMode` and `PresentersKept` are
inductive together with the types; the first rests on `SessionWithinScene`, that
the session's list of tools per mode, written down a second time in the code, is
within the scene's. `SceneContainsWorkspace` is the composition: every step of
the scene is a step of the workspace inside it or leaves that alone. So what is
proved of a workspace holds there, and `SceneAcknowledges` is one such result:
whatever lines, tabs and child windows do to the scene, no selection that is
ready waits to be acknowledged.

`UiLoopProofs`. `Inv` has four parts.

- `StackInv`, of the open loops: a RunLoop below every native modal loop; a loop
  under another is `Parked`, at a place from which it does something before it
  may sleep; tasks are allowed with at most one loop open, and are allowed again
  when the second is left. The lemmas `CodeStack` and `PumpShape` reduce every
  step of the pump to one of four shapes, so that what holds of the stack, the
  flag and the wake-ups is proved once per shape.
- `PumpInv`, which is `OnePumpMessage` made inductive: `have_work_` stands for
  exactly one of a message in the queue, a thread between its exchange and the
  end of ScheduleWork, and the replacement in progress. The converse, that a
  flag that is set stands for one of them, is what a wake-up relies on.
- `Order`, of the tasks: the delayed ones were posted before those in the work
  queue and these before the incoming ones; of two with a delay, one that had
  its number when the other's thread read the clock had read it no later; a task
  that was put off is not nestable and no task still waiting had to run before
  it. Readings of threads that wait for the lock (`Stamps`) count as tasks here,
  and `Room` keeps numbers for them. The lemmas `SetStamp`, `SetPost`,
  `SetReload`, `SetDelay`, `SetPutOff`, `SetDrop` and `SetTick` say that each
  thing done to a task keeps it, whatever the queues hold. `TasksStartInOrder`
  follows with `HeadFirst` and `DelayedFirst`: nothing had to run before the
  first of the work queue, or of the delayed tasks.
- `Types`; `LoopTyped` and `PumpMessageIsUnique` are immediate.

`WakeupsAreKept` is `NoLostWakeup` for any number of threads. Its first part is
about RunLoops: `WakePump` follows the pump from DoWork through DoDelayedWork and
DoIdleWork into the wait, `WakeThread` every step of ScheduleWork, `WakePost` a
post. The second is about a native modal loop while it stays the innermost one:
it runs a task only on a kMsgHaveWork, so `CallPump` shows that the loop that
takes one off the queue leaves another, and `CallThread` and `CallPost` that
whoever finds the flag set may rely on what `PumpInv` says it stands for. The
attempt to prove the first part as an invariant, in which form one poster
satisfied it, failed at the step that gives back the flag, and TLC then found
the behaviour described in section 5 with two posters; so the property names
that step, and for modal loops the opening and the return, which are the other
ways into a sleep on tasks that wait.

`WorkbenchProofs`. After an attach a host may hold the handle of a window that
is gone, and what a layout puts right depends on what it may find. That is
`Sane`: exactly the presenters' windows live, only live ones are shown or parked
under the hidden window, and a host that holds a live window holds that of its
own page, not parked; and `OneHost`: at most one host holds anything. Each
operator (`Attach`, `Detach`, `ShowAttachedChild`, `AttachOrDetach`) has lemmas
that say what it does to such windows, `ReparentSceneSurfaces` restores
`ShownIsActive` from any of them, and `Fresh` is where `HandleAssumption` is
needed. `NoWindowLeaks`, `ActiveIsShown` and `TabsHeal` follow.

Only model-checked: the liveness properties `StopTerminates`, `CallsReturn`,
`DroppedClientReleased`, `StopReturns`, `ConnectionsEnd`, `TasksSettle`,
`QuitReturns` and `CloseEnds` (the provers here handle neither fairness nor
ENABLED), and the four violations.

## 5. Where code and documents disagree

With a run (see `findings` in `PROJECT.json`): `peer_reattach`,
`pipe_early_drop`, `agent_stop_deadlock`, `plugins_dangling`. Further ones met
while modelling, visible in the models but without a run of their own:

- `app/mgis/workbench/workbench.cc:508-532`: the delayed tasks hold raw pointers
  to the widget and, by base::Unretained, its contents; `base/callback.h:154-155`
  says "You're responsible for making sure the object is alive at the time of
  the call." Show, close within two seconds, destroy: a task that becomes due
  before the loop is idle runs on freed memory (`RunTask` with `life = "gone"`).
- `app/mgis/workbench/workbench.cc:234`: after a line set the scene to 3D,
  clicking the Map tab that is already selected does nothing, and the next
  layout shows the 3D window over the Map page; choosing the other tab and back
  heals it (`TabSwitchHeals`).
- `content/browser/agent/devtools/mcp_server.cc:390`: Stop, which Start calls
  first, deletes the discovery file whoever wrote it, so a second copy that
  fails to bind, or stops, hides a first one that still serves.
- `base/message_pump_win.cc:214-268`: the main loop does not post kMsgHaveWork
  again after a task, although `message_pump_win.h` says that it does to ensure
  "a future time slice"; a native modal loop opened by input while tasks wait in
  the work queue therefore does not run them until another task is posted
  (the last exception in `NoLostWakeup`). The same holds when the message queue
  was full (the comment at line 119 admits it).
- `base/message_pump_win.cc:119-127`: after a failed PostMessage ScheduleWork
  takes back its claim on `have_work_`, and the comment fears for tasks only
  "while sitting in a nested message loop". The outermost loop can sleep on a
  task as well: a thread finds the message queue full; the UI thread empties the
  queue and takes that thread's task; a second thread posts a task, finds the
  flag still set and leaves the wake-up to the first; the first clears the flag.
  Nothing is on its way, and the task waits for the next window message or
  timer; later posts do not help, since they do not find the incoming queue
  empty. `base/message_pump.h:113-114` says "Once this call is made, DoWork
  should not be "starved" at least until it returns a value of false."
  `NoLostWakeup` excepts this step, `TasksSettle` excepts behaviours that end
  so.
- `base/message_loop.cc:504`: a non-nestable task deferred by a menu runs at the
  next idle, after non-nestable tasks posted later that the outermost loop takes
  first; `base/sequenced_task_runner.h:36-41` lets T2 start after T1 if "T2 is
  non-nestable or T1 is nestable", and concludes that non-nestable tasks run in
  FIFO order. `StartsInOrder` states the part with a nestable T1, which holds.
- `content/browser/viewport/present/ue_presenter.cc:156`: every camera.set has
  the same id and sequence number, so the peer answers all but the first from
  its cache and the camera does not move.

- `content/browser/ipc/ue_peer.cc:458`: the shared origin is the mean of two
  longitudes; for cameras at 179.9 and -179.9 degrees, which the separation
  check accepts, it is on the other side of the globe (`MeanAcross`, the
  exception in `OriginAnchored`).
- `content/browser/agent/devtools/mcp_server.cc:43-47`: a failed DeleteFileW is
  ignored, and the file goes on naming a copy that has stopped (`undeleted`).
- `content/browser/agent/devtools/mcp_server.cc:302-312`, `:417-435`: send has no
  timeout, and the receive timeout is per recv; a client that stops reading, or
  that sends a byte every two seconds, holds the accept thread and with it Stop
  (`Held`, the exception in `StopReturns` and `ConnectionsEnd`).
- `app/mgis/workbench/workbench.cc:383`: WindowClosing joins that thread on the
  UI thread, so a window closed with a line posted behind CloseNow, or with such
  a client connected, does not end the program (`JoinsAgent`, the exception in
  `CloseEnds`).
- `content/browser/plugin/plugin_host.cc:131`: a command keeps the runner it has,
  one into an image that was since unmapped included, when the same DLL is
  loaded again and contributes it anew.
- `tool/workspace.cc:209`: no code of the product sets the edit sink, so what a
  selection tool finds is acknowledged and goes nowhere.
- `base/message_loop.cc:277`, `:296`: the run time is taken before the lock under
  which `:613-619` give the number, so of two threads that post with the same
  delay at the same time, the later number may be due, and start, first.
  `StartsInOrder` says nothing of these two.
- `content/browser/agent/devtools/mcp_server.cc:404`: any failed accept ends
  the accept thread while the socket and the file stay; `mcp_server.h:29-30`
  says it "accepts connections until Stop". `ConnectionsEnd` excepts it.
- `content/browser/plugin/plugin_host.cc:278`: a factory with the id of a
  built-in tool is accepted and never installed.
- `content/browser/plugin/plugin_host.cc:131-137`: an id contributed again is
  accepted unless both have a runner; `plugin_host.h:32-33` says it is refused.
- `viewport/present/scene_impl.cc:290-295`: any mouse move over the scene after
  the trackball was armed makes `expect_camera` pass in SCENE3D, in whatever
  mode and with whatever tool the move came.

## 6. Not modelled

- Rendering and painting: MapLibre and FlyCube presenters beyond their windows,
  map and world passes, globe view; the panels, markup and the layout checker.
  Floating point and pixels, with no protocol of their own.
- The application entry, the harness campaign and the suite runtime: they run
  one after another, on one thread, lines and calls that `DebugAgent`, `Scene`
  and `Workbench` take in any order.
- The UE presenter: it sends requests that `UePeer` and `UePipe` accept from
  any client; what is wrong with its ids is in section 5.
- The view host and its hooks, the event bus and the trace log: observers are
  added once, when the session starts, and removed once, when the window is
  gone; no code of the product sets the hooks.
- The UI designer, the fake scene (a test double).
- Chromium's base and views apart from the message loop and the native view
  host, Skia and the other vendored trees. They are nine tenths of the
  repository's lines; `PROJECT.json` therefore maps a small share of them.
- Bytes of frames, JSON and HTTP are reduced to whether a message is readable,
  too large or cut short. Of the modelled parts: sizes and coordinates, camera
  readback, menu items, dock panels, clipping and focus of native windows, and
  the trace.

## 7. Plan

Modelled, checked and proved: every row but the last.

| Module | Composes | Checked | Proved |
|---|---|---|---|
| `UePeer` | | all | all |
| `UePipe`, `PipeCalls` | pipe and clients | all | safety, and the refinement |
| `DebugAgent` | UI thread, accept thread, file | all | safety |
| `Plugins` | loader, host, registries | all | all |
| `Workspace` | | all | all |
| `Scene` | session, scene, `Workspace` | all | all, and the composition |
| `UiLoop` | posters, pump, Windows | all | safety |
| `Workbench` | shell, scene's windows, hosts, loop, agent's thread | all | safety |
| UE presenter | `UePeer` | next: the pose shown is the pose asked for | |

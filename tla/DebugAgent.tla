----------------------------- MODULE DebugAgent -----------------------------
(***************************************************************************)
(* The debug agent's console over loopback HTTP: DebugAgent                *)
(* (content/browser/agent/debug/debug_agent.cc) and McpServer              *)
(* (content/browser/agent/devtools/mcp_server.cc).                         *)
(*                                                                         *)
(* Each application has a UI thread that starts and stops the server and,  *)
(* if it has a message loop, runs the lines posted to it, and an accept    *)
(* thread that serves one connection at a time.  All applications of a     *)
(* user share the one discovery file.                                      *)
(***************************************************************************)
EXTENDS Naturals, Sequences, SequencesExt

CONSTANTS
  Apps,         \* running copies of the product
  Clients,      \* HTTP clients
  Looped,       \* apps whose UI thread has a message loop (ui_loop_ is set)
  Impatient,    \* clients may hang up before they are accepted
  Stubborn,     \* clients that may trickle a request or not read the reply
  None, Torn,   \* no discovery file or connection; a half-written file
  StartLimit    \* bound on calls of Start by each app, for model checking

ASSUME AgentAssumption ==
  /\ None \notin Apps \cup Clients /\ Torn \notin Apps /\ None # Torn
  /\ Stubborn \subseteq Clients
  /\ Looped \subseteq Apps /\ Impatient \in BOOLEAN /\ StartLimit \in Nat

VARIABLES
  ui,         \* where the UI thread is
  goal,       \* the call the UI thread is in: start or stop
  starts,     \* calls of Start so far
  stopping,   \* stopping_
  listen,     \* listen_ is open
  thread,     \* where the accept thread is
  conn,       \* the client it serves
  backlog,    \* connections not accepted yet
  task,       \* a posted RunExecOnUi waits in the message loop
  done,       \* the event its poster waits for
  crashed,    \* the last run of the app ended without Stop
  client,     \* idle, queued, left (hung up while queued), open, asked
  discovery,  \* who is named in debug-agent.json
  undeleted   \* the last delete of that file failed and left it

files == <<discovery, undeleted>>
server == <<stopping, listen, thread, conn, backlog, task, done>>
owner == <<ui, goal, starts>>
vars == <<ui, goal, starts, stopping, listen, thread, conn, backlog,
          task, done, crashed, client, discovery, undeleted>>

Init ==
  /\ ui = [p \in Apps |-> "idle"] /\ goal = [p \in Apps |-> "stop"]
  /\ starts = [p \in Apps |-> 0]
  /\ stopping = [p \in Apps |-> FALSE] /\ listen = [p \in Apps |-> FALSE]
  /\ thread = [p \in Apps |-> "off"] /\ conn = [p \in Apps |-> None]
  /\ backlog = [p \in Apps |-> <<>>]
  /\ task = [p \in Apps |-> FALSE] /\ done = [p \in Apps |-> FALSE]
  /\ crashed = [p \in Apps |-> FALSE]
  /\ client = [c \in Clients |-> "idle"]
  /\ discovery = None /\ undeleted = FALSE
-----------------------------------------------------------------------------
(* The UI thread: McpServer::Start begins with a whole McpServer::Stop.    *)

(* closesocket on the listening socket resets what was not accepted.       *)
CloseListen(p) ==
  /\ listen' = [listen EXCEPT ![p] = FALSE]
  /\ backlog' = [backlog EXCEPT ![p] = <<>>]
  /\ client' = [c \in Clients |-> IF Contains(backlog[p], c) THEN "idle" ELSE client[c]]

BeginStop(p, g) ==
  /\ ui[p] = "idle"
  /\ ui' = [ui EXCEPT ![p] = "join"] /\ goal' = [goal EXCEPT ![p] = g]
  /\ stopping' = [stopping EXCEPT ![p] = TRUE]
  /\ CloseListen(p)
  /\ UNCHANGED <<thread, conn, task, done, crashed, files>>

Start(p) ==
  /\ starts[p] < StartLimit /\ BeginStop(p, "start")
  /\ starts' = [starts EXCEPT ![p] = @ + 1]

Stop(p) == BeginStop(p, "stop") /\ UNCHANGED starts

(* Variant of Join: the accept thread is detached instead of joined.       *)
JoinDetaches(p) ==
  /\ ui[p] = "join"
  /\ ui' = [ui EXCEPT ![p] = "delete"]
  /\ thread' = [thread EXCEPT ![p] = IF @ = "exit" THEN "off" ELSE @]
  /\ UNCHANGED <<goal, starts, stopping, listen, conn, backlog, task,
                 done, crashed, client, files>>

Join(p) ==
  /\ ui[p] = "join" /\ thread[p] \in {"off", "exit"}
  /\ ui' = [ui EXCEPT ![p] = "delete"]
  /\ thread' = [thread EXCEPT ![p] = "off"]
  /\ UNCHANGED <<goal, starts, stopping, listen, conn, backlog, task,
                 done, crashed, client, files>>

(* Variant of DeleteDiscovery: the file is left to the next Start.         *)
DeleteDiscoveryOnStart(p) ==
  /\ ui[p] = "delete"
  /\ ui' = [ui EXCEPT ![p] = IF goal[p] = "start" THEN "bind" ELSE "idle"]
  /\ discovery' = IF goal[p] = "start" THEN None ELSE discovery
  /\ crashed' = [crashed EXCEPT ![p] = FALSE]
  /\ UNCHANGED <<goal, starts, server, client, undeleted>>

(* The file is deleted whoever wrote it.  DeleteFileW may fail, as when    *)
(* another process holds the file open, and its result is not looked at.   *)
DeleteDiscovery(p) ==
  /\ ui[p] = "delete"
  /\ ui' = [ui EXCEPT ![p] = IF goal[p] = "start" THEN "bind" ELSE "idle"]
  /\ \/ discovery' = None /\ undeleted' = FALSE
     \/ discovery # None /\ UNCHANGED discovery /\ undeleted' = TRUE
  /\ crashed' = [crashed EXCEPT ![p] = FALSE]
  /\ UNCHANGED <<goal, starts, server, client>>

(* Winsock, socket, bind, getsockname and listen succeed, or one fails.    *)
Bind(p) ==
  /\ ui[p] = "bind"
  /\ stopping' = [stopping EXCEPT ![p] = FALSE]
  /\ \/ /\ listen' = [listen EXCEPT ![p] = TRUE]
        /\ ui' = [ui EXCEPT ![p] = "write"]
     \/ /\ ui' = [ui EXCEPT ![p] = "idle"] /\ UNCHANGED listen
  /\ UNCHANGED <<goal, starts, thread, conn, backlog, task, done, crashed,
                 client, files>>

(* A write that fails leaves the old file, or the truncated one that       *)
(* CREATE_ALWAYS made, and Start fails.                                    *)
WriteDiscovery(p) ==
  /\ ui[p] = "write"
  /\ ui' = [ui EXCEPT ![p] = "idle"]
  /\ \/ /\ discovery' = p /\ undeleted' = FALSE
        /\ thread' = [thread EXCEPT ![p] = "check"]
        /\ UNCHANGED <<listen, backlog, client>>
     \/ /\ \/ UNCHANGED files
           \/ discovery' = Torn /\ undeleted' = FALSE
        /\ CloseListen(p)
        /\ UNCHANGED thread
  /\ UNCHANGED <<goal, starts, stopping, conn, task, done, crashed>>

(* The message loop runs RunExecOnUi when the UI thread is not busy.       *)
UiTakesTask(p) ==
  /\ ui[p] = "idle" /\ task[p]
  /\ ui' = [ui EXCEPT ![p] = "exec"] /\ task' = [task EXCEPT ![p] = FALSE]
  /\ UNCHANGED <<goal, starts, stopping, listen, thread, conn, backlog,
                 done, crashed, client, files>>

UiSignals(p) ==
  /\ ui[p] = "exec"
  /\ ui' = [ui EXCEPT ![p] = "idle"] /\ done' = [done EXCEPT ![p] = TRUE]
  /\ UNCHANGED <<goal, starts, stopping, listen, thread, conn, backlog,
                 task, crashed, client, files>>
-----------------------------------------------------------------------------
(* The accept thread: McpServer::Run, Serve and HandleJson.                *)

ThreadGoes(p, pc) == thread' = [thread EXCEPT ![p] = pc]

Run(p) ==
  /\ thread[p] = "check"
  /\ ThreadGoes(p, IF stopping[p] THEN "exit" ELSE "accept")
  /\ UNCHANGED <<owner, stopping, listen, conn, backlog, task, done,
                 crashed, client, files>>

(* Variant of Accept: the result is not compared with INVALID_SOCKET.      *)
AcceptUnchecked(p) ==
  /\ thread[p] = "accept"
  /\ \/ /\ ~listen[p] /\ ThreadGoes(p, "recv")
        /\ conn' = [conn EXCEPT ![p] = "invalid"]
        /\ UNCHANGED <<backlog, client>>
     \/ /\ listen[p] /\ backlog[p] # <<>>
        /\ ThreadGoes(p, "recv")
        /\ conn' = [conn EXCEPT ![p] = Head(backlog[p])]
        /\ backlog' = [backlog EXCEPT ![p] = Tail(backlog[p])]
        /\ client' = [client EXCEPT ![Head(backlog[p])] = "open"]
  /\ UNCHANGED <<owner, stopping, listen, task, done, crashed, files>>

(* accept returns a waiting connection, or fails on a closed socket.  A    *)
(* connection whose client has hung up is skipped or makes accept fail     *)
(* (WSAECONNRESET), and a failed accept ends the thread.                   *)
Accept(p) ==
  /\ thread[p] = "accept"
  /\ \/ /\ ~listen[p] /\ ThreadGoes(p, "exit")
        /\ UNCHANGED <<conn, backlog, client>>
     \/ /\ listen[p] /\ backlog[p] # <<>> /\ client[Head(backlog[p])] = "left"
        /\ \E pc \in {"accept", "exit"} : ThreadGoes(p, pc)
        /\ backlog' = [backlog EXCEPT ![p] = Tail(backlog[p])]
        /\ client' = [client EXCEPT ![Head(backlog[p])] = "idle"]
        /\ UNCHANGED conn
     \/ /\ listen[p] /\ backlog[p] # <<>> /\ client[Head(backlog[p])] = "queued"
        /\ ThreadGoes(p, "recv")
        /\ conn' = [conn EXCEPT ![p] = Head(backlog[p])]
        /\ backlog' = [backlog EXCEPT ![p] = Tail(backlog[p])]
        /\ client' = [client EXCEPT ![Head(backlog[p])] = "open"]
  /\ UNCHANGED <<owner, stopping, listen, task, done, crashed, files>>

CloseConn(p) ==
  /\ conn' = [conn EXCEPT ![p] = None]
  /\ client' = [client EXCEPT ![conn[p]] = "idle"]

(* Where HandleJson takes a complete request: an error reply for a body    *)
(* that does not parse, another method, bad params or an unknown tool;     *)
(* else BuildToolLine's line goes to ExecLine, posted if there is a loop.  *)
HandleJson(p) == {"send", IF p \in Looped THEN "post" ELSE "exec"}

(* Variant of RecvHeaders: an early return skips closesocket.              *)
RecvHeadersLeaks(p) ==
  /\ thread[p] = "recv"
  /\ \/ /\ ThreadGoes(p, "check") /\ UNCHANGED client
        /\ conn' = [conn EXCEPT ![p] = None]
     \/ ThreadGoes(p, "body") /\ UNCHANGED <<conn, client>>
  /\ UNCHANGED <<owner, stopping, listen, backlog, task, done, crashed, files>>

(* Serve's first receive loop.  Every recv has three seconds of its own,   *)
(* so data that keeps trickling in leaves the thread where it is; a client *)
(* that vanishes, stalls or sends too much is closed unanswered.           *)
RecvHeaders(p) ==
  /\ thread[p] = "recv"
  /\ \/ ThreadGoes(p, "check") /\ CloseConn(p)
     \/ ThreadGoes(p, "body") /\ UNCHANGED <<conn, client>>
  /\ UNCHANGED <<owner, stopping, listen, backlog, task, done, crashed, files>>

(* Variant of RecvBody: no receive timeout, so only a whole request ends   *)
(* the wait.                                                               *)
RecvBodyForever(p) ==
  /\ thread[p] = "body" /\ client[conn[p]] = "asked"
  /\ \E pc \in HandleJson(p) : ThreadGoes(p, pc)
  /\ UNCHANGED <<owner, stopping, listen, conn, backlog, task, done,
                 crashed, client, files>>

(* The second loop, the same way; a body cut short, or a request that is   *)
(* not for the console, is answered with an error.                         *)
RecvBody(p) ==
  /\ thread[p] = "body"
  /\ \/ ThreadGoes(p, "send")
     \/ /\ client[conn[p]] = "asked"
        /\ \E pc \in HandleJson(p) : ThreadGoes(p, pc)
  /\ UNCHANGED <<owner, stopping, listen, conn, backlog, task, done,
                 crashed, client, files>>

(* RunLineOnUi: the task points into this thread's stack.                  *)
PostTask(p) ==
  /\ thread[p] = "post" /\ ThreadGoes(p, "wait")
  /\ task' = [task EXCEPT ![p] = TRUE]
  /\ UNCHANGED <<owner, stopping, listen, conn, backlog, done, crashed,
                 client, files>>

(* Variant of Wait: TimedWait gives up when the UI thread is busy.         *)
WaitGivesUp(p) ==
  /\ thread[p] = "wait"
  /\ ThreadGoes(p, "send") /\ done' = [done EXCEPT ![p] = FALSE]
  /\ UNCHANGED <<owner, stopping, listen, conn, backlog, task, crashed,
                 client, files>>

Wait(p) ==
  /\ thread[p] = "wait" /\ done[p]
  /\ ThreadGoes(p, "send") /\ done' = [done EXCEPT ![p] = FALSE]
  /\ UNCHANGED <<owner, stopping, listen, conn, backlog, task, crashed,
                 client, files>>

(* Without a loop the accept thread runs ExecLine itself.                  *)
ExecLine(p) ==
  /\ thread[p] = "exec" /\ ThreadGoes(p, "send")
  /\ UNCHANGED <<owner, stopping, listen, conn, backlog, task, done,
                 crashed, client, files>>

(* SendAll and closesocket; a client that is gone gets nothing.  send has  *)
(* no timeout: it waits for as long as its client does not read.           *)
SendAll(p) ==
  /\ thread[p] = "send" /\ ThreadGoes(p, "check") /\ CloseConn(p)
  /\ UNCHANGED <<owner, stopping, listen, backlog, task, done, crashed, files>>
-----------------------------------------------------------------------------
(* The surroundings: clients, and the end of a process without Stop.       *)

Connect(c, p) ==
  /\ client[c] = "idle" /\ listen[p]
  /\ client' = [client EXCEPT ![c] = "queued"]
  /\ backlog' = [backlog EXCEPT ![p] = Append(@, c)]
  /\ UNCHANGED <<owner, stopping, listen, thread, conn, task, done,
                 crashed, files>>

HangUp(c) ==
  /\ Impatient /\ client[c] = "queued"
  /\ client' = [client EXCEPT ![c] = "left"]
  /\ UNCHANGED <<owner, server, crashed, files>>

Ask(c) ==
  /\ client[c] = "open"
  /\ client' = [client EXCEPT ![c] = "asked"]
  /\ UNCHANGED <<owner, server, crashed, files>>

Crash(p) ==
  /\ ~crashed[p] /\ starts[p] > 0
  /\ crashed' = [crashed EXCEPT ![p] = TRUE]
  /\ ui' = [ui EXCEPT ![p] = "idle"] /\ goal' = [goal EXCEPT ![p] = "stop"]
  /\ stopping' = [stopping EXCEPT ![p] = FALSE]
  /\ listen' = [listen EXCEPT ![p] = FALSE]
  /\ thread' = [thread EXCEPT ![p] = "off"]
  /\ conn' = [conn EXCEPT ![p] = None]
  /\ backlog' = [backlog EXCEPT ![p] = <<>>]
  /\ task' = [task EXCEPT ![p] = FALSE] /\ done' = [done EXCEPT ![p] = FALSE]
  /\ client' = [c \in Clients |->
                  IF c = conn[p] \/ Contains(backlog[p], c) THEN "idle" ELSE client[c]]
  /\ UNCHANGED <<starts, files>>

UiSteps(p) == \/ Join(p) \/ DeleteDiscovery(p) \/ Bind(p) \/ WriteDiscovery(p)
              \/ UiTakesTask(p) \/ UiSignals(p)
Talk(p) == RecvHeaders(p) \/ RecvBody(p) \/ SendAll(p)
ThreadSteps(p) == \/ Run(p) \/ Accept(p) \/ PostTask(p) \/ Wait(p) \/ ExecLine(p)
                  \/ Talk(p)

Next ==
  \/ \E p \in Apps : \/ Start(p) \/ Stop(p) \/ UiSteps(p) \/ ThreadSteps(p)
                     \/ Crash(p)
  \/ \E c \in Clients : HangUp(c) \/ Ask(c) \/ \E p \in Apps : Connect(c, p)

(* Both threads of an app go on whenever they can: the steps of Start and  *)
(* Stop end and an idle UI thread runs its tasks.  A receive returns after *)
(* three seconds at the latest and a send once its client reads, but no    *)
(* one makes a stubborn client go silent or read.  Nobody has to start,    *)
(* stop or connect.                                                        *)
Fairness == \A p \in Apps :
  /\ WF_vars(UiSteps(p))
  /\ WF_vars(ThreadSteps(p) /\ (Talk(p) => conn[p] \notin Stubborn))

Spec == Init /\ [][Next]_vars /\ Fairness
-----------------------------------------------------------------------------
(* The members of McpServer and the places its two threads can be at.      *)
TypeOK ==
  /\ ui \in [Apps -> {"idle", "join", "delete", "bind", "write", "exec"}]
  /\ goal \in [Apps -> {"start", "stop"}] /\ starts \in [Apps -> 0..StartLimit]
  /\ stopping \in [Apps -> BOOLEAN] /\ listen \in [Apps -> BOOLEAN]
  /\ task \in [Apps -> BOOLEAN] /\ done \in [Apps -> BOOLEAN]
  /\ crashed \in [Apps -> BOOLEAN]
  /\ thread \in [Apps -> {"off", "check", "accept", "recv", "body", "post", "wait",
                          "exec", "send", "exit"}]
  /\ conn \in [Apps -> Clients \cup {None}]
  /\ backlog \in [Apps -> Seq(Clients)]
  /\ client \in [Clients -> {"idle", "queued", "left", "open", "asked"}]
  /\ discovery \in Apps \cup {None, Torn} /\ undeleted \in BOOLEAN

Serving(p) ==
  thread[p] \notin {"off", "exit"} /\ listen[p] /\ ui[p] \in {"idle", "exec"}

(* A failed accept has ended the thread; the socket still takes callers.   *)
Deaf(p) == listen[p] /\ thread[p] = "exit"

(* Stop waits for the thread, and the thread for the UI thread; or the     *)
(* thread waits for what a stubborn client sends or reads.                 *)
Deadlocked(p) == ui[p] = "join" /\ thread[p] = "wait"
Held(p) == conn[p] \in Stubborn /\ thread[p] \in {"recv", "body", "send"}
Stuck(p) == Deadlocked(p) \/ Held(p)

(* A posted task holds pointers into the stack frame of RunLineOnUi: until *)
(* the UI thread has signalled, the accept thread is still in that frame.  *)
TaskFrameAlive ==
  \A p \in Apps : (task[p] \/ ui[p] = "exec") => thread[p] = "wait" /\ ~done[p]

(* When Stop has returned no thread serves, nothing listens, no client is  *)
(* attached and no task is left that would run on a contents being torn    *)
(* down; a Start that failed leaves the same.                              *)
StopIsQuiet ==
  \A p \in Apps : (ui[p] \in {"delete", "bind"} \/ (ui[p] = "idle" /\ ~Serving(p)
                                                /\ thread[p] # "exit"))
    => /\ thread[p] = "off" /\ conn[p] = None
       /\ ~listen[p] /\ backlog[p] = <<>> /\ ~task[p]

(* The discovery file never names an app that does not serve: its writer   *)
(* serves or is on its way out, unless it was killed before it could stop, *)
(* a failed accept ended its thread, or the file outlived its last delete. *)
NoStaleDiscovery ==
  discovery \in Apps => \/ Serving(discovery) \/ ui[discovery] \in {"join", "delete"}
                        \/ crashed[discovery] \/ Deaf(discovery) \/ undeleted

(* Stop returns, with a message loop or without one, but for the two waits *)
(* the code does not bound: it may stay for ever with a thread whose line  *)
(* the UI thread will not run, or with one that a stubborn client holds.   *)
StopReturns == \A p \in Apps :
  (ui[p] = "join") ~> (ui[p] # "join" \/ []Deadlocked(p) \/ []Held(p))

(* No connection is left hanging, behind another one or by itself: it is   *)
(* answered or closed, unless the app it came to is deaf or stuck for ever. *)
Pending(c) == client[c] \in {"queued", "open", "asked"}
CameTo(c, p) == conn[p] = c \/ Contains(backlog[p], c)
ConnectionsEnd == \A c \in Clients :
  Pending(c) ~> (~Pending(c)
                 \/ \E p \in Apps : CameTo(c, p) /\ (Deaf(p) \/ []Stuck(p)))

(* "A live UI loop receives the call via PostTask before ExecLine runs": a *)
(* posted line is received.                                                *)
PostedLineRuns == \A p \in Apps : task[p] ~> ~task[p]
=============================================================================

-------------------------- MODULE DebugAgentProofs --------------------------
(***************************************************************************)
(* Machine-checked proofs about DebugAgent, for any number of applications *)
(* and clients.                                                            *)
(*                                                                         *)
(* The two threads of an application are tied together by what the place   *)
(* of one says about the other: while Stop and Start are past the join     *)
(* there is no accept thread, between calls there is one exactly when the  *)
(* socket listens, and it only leaves the wait for its task after the UI   *)
(* thread has signalled.                                                   *)
(***************************************************************************)
EXTENDS DebugAgent, TLAPS

Busy == {"recv", "body", "post", "wait", "exec", "send"}

(* The posted line and the frame of its poster.                            *)
Frame(p) ==
  /\ task[p] \/ ui[p] = "exec" => thread[p] = "wait" /\ ~done[p]
  /\ ~(task[p] /\ ui[p] = "exec")
  /\ done[p] => thread[p] = "wait"

(* Where the UI thread is and what is left of the server then.             *)
Lifecycle(p) ==
  /\ ui[p] \in {"delete", "bind", "write"} => thread[p] = "off"
  /\ ui[p] \in {"join", "delete", "bind"} => ~listen[p]
  /\ ui[p] = "write" => listen[p]
  /\ ui[p] \in {"idle", "exec"} => (listen[p] <=> thread[p] # "off")

(* Who is attached.                                                        *)
Attached(p) ==
  /\ ~listen[p] => backlog[p] = <<>>
  /\ thread[p] \notin Busy => conn[p] = None

(* Whom the discovery file may name.                                       *)
Named(p) ==
  discovery = p => \/ thread[p] # "off" /\ ui[p] \in {"idle", "exec"}
                   \/ ui[p] \in {"join", "delete"} \/ crashed[p] \/ undeleted

Local(p) == Frame(p) /\ Lifecycle(p) /\ Attached(p) /\ Named(p)

Inv == TypeOK /\ \A p \in Apps : Local(p)

(* A step of app p leaves the other apps as they are, does not write their *)
(* name into the discovery file, and remembers that it outlived a delete.  *)
OnlyApp(p) ==
  \A q \in Apps \ {p} :
    /\ ui'[q] = ui[q] /\ thread'[q] = thread[q] /\ listen'[q] = listen[q]
    /\ task'[q] = task[q] /\ done'[q] = done[q] /\ conn'[q] = conn[q]
    /\ backlog'[q] = backlog[q] /\ crashed'[q] = crashed[q]
    /\ discovery' = q => discovery = q /\ (undeleted => undeleted')
-----------------------------------------------------------------------------
LEMMA Assemble ==
  ASSUME Inv, NEW p \in Apps, TypeOK', Local(p)', OnlyApp(p)
  PROVE  Inv'
  <1> SUFFICES ASSUME NEW q \in Apps, q # p PROVE Local(q)'
    BY DEF Inv
  <1>1. Local(q)
    BY DEF Inv
  <1> QED
    BY <1>1 DEF OnlyApp, Local, Frame, Lifecycle, Attached, Named

LEMMA CloseListenTyped ==
  ASSUME TypeOK, NEW p \in Apps, CloseListen(p)
  PROVE  /\ listen' \in [Apps -> BOOLEAN] /\ ~listen'[p]
         /\ backlog' \in [Apps -> Seq(Clients)] /\ backlog'[p] = <<>>
         /\ client' \in [Clients -> {"idle", "queued", "left", "open", "asked"}]
         /\ \A q \in Apps \ {p} : listen'[q] = listen[q] /\ backlog'[q] = backlog[q]
  <1>1. <<>> \in Seq(Clients)
    OBVIOUS
  <1> QED BY <1>1 DEF CloseListen, TypeOK
-----------------------------------------------------------------------------
(* The UI thread.                                                          *)

LEMMA BeginStopStep ==
  ASSUME Inv, NEW p \in Apps, Start(p) \/ Stop(p)
  PROVE  Inv'
  <1> USE DEF Inv, TypeOK, files
  <1>1. PICK g \in {"start", "stop"} : BeginStop(p, g)
    BY DEF Start, Stop
  <1>2. starts' \in [Apps -> 0..StartLimit]
    <2>1. CASE starts[p] < StartLimit /\ starts' = [starts EXCEPT ![p] = @ + 1]
      <3>1. starts[p] + 1 \in 0..StartLimit
        BY <2>1, AgentAssumption
      <3> QED BY <2>1, <3>1
    <2>2. CASE UNCHANGED starts
      BY <2>2
    <2> QED BY <2>1, <2>2 DEF Start, Stop
  <1>3. CloseListen(p) /\ Local(p)
    BY <1>1 DEF BeginStop
  <1>4. TypeOK'
    BY <1>1, <1>2, <1>3, CloseListenTyped DEF BeginStop
  <1>5. OnlyApp(p)
    BY <1>1, <1>3, CloseListenTyped DEF BeginStop, OnlyApp
  <1>6. Local(p)'
    BY <1>1, <1>3, CloseListenTyped
       DEF BeginStop, Local, Frame, Lifecycle, Attached, Named
  <1> QED BY <1>4, <1>5, <1>6, Assemble

LEMMA UiStep ==
  ASSUME Inv, NEW p \in Apps, UiSteps(p)
  PROVE  Inv'
  <1> USE DEF Inv, TypeOK, files
  <1>0. Local(p)
    OBVIOUS
  <1>1. CASE Join(p)
    <2>1. TypeOK' /\ OnlyApp(p)
      BY <1>1 DEF Join, OnlyApp
    <2>2. Local(p)'
      BY <1>0, <1>1 DEF Join, Local, Frame, Lifecycle, Attached, Named, Busy
    <2> QED BY <2>1, <2>2, Assemble
  <1>2. CASE DeleteDiscovery(p)
    <2>1. OnlyApp(p)
      BY <1>2, AgentAssumption DEF DeleteDiscovery, server, OnlyApp
    <2>3. TypeOK'
      BY <1>2 DEF DeleteDiscovery, server
    <2>2. Local(p)'
      BY <1>0, <1>2, AgentAssumption
         DEF DeleteDiscovery, server, Local, Frame, Lifecycle, Attached, Named
    <2> QED BY <2>1, <2>2, <2>3, Assemble
  <1>3. CASE Bind(p)
    <2>1. TypeOK' /\ OnlyApp(p)
      BY <1>3 DEF Bind, OnlyApp
    <2>2. Local(p)'
      BY <1>0, <1>3 DEF Bind, Local, Frame, Lifecycle, Attached, Named
    <2> QED BY <2>1, <2>2, Assemble
  <1>4. CASE WriteDiscovery(p)
    <2>1. CASE /\ discovery' = p /\ undeleted' = FALSE /\ thread' = [thread EXCEPT ![p] = "check"]
               /\ UNCHANGED <<listen, backlog, client>>
      <3>1. TypeOK' /\ OnlyApp(p)
        BY <1>4, <2>1 DEF WriteDiscovery, OnlyApp
      <3>2. Local(p)'
        BY <1>0, <1>4, <2>1
           DEF WriteDiscovery, Local, Frame, Lifecycle, Attached, Named, Busy
      <3> QED BY <3>1, <3>2, Assemble
    <2>2. CASE /\ UNCHANGED files \/ (discovery' = Torn /\ undeleted' = FALSE)
               /\ CloseListen(p) /\ UNCHANGED thread
      <3>1. TypeOK'
        BY <1>4, <2>2, CloseListenTyped DEF WriteDiscovery
      <3>3. \A q \in Apps : discovery' = q => discovery = q /\ undeleted' = undeleted
        BY <2>2, AgentAssumption
      <3>4. OnlyApp(p)
        BY <1>4, <2>2, <3>3, CloseListenTyped DEF WriteDiscovery, OnlyApp
      <3>2. Local(p)'
        BY <1>0, <1>4, <2>2, CloseListenTyped, AgentAssumption
           DEF WriteDiscovery, Local, Frame, Lifecycle, Attached, Named
      <3> QED BY <3>1, <3>2, <3>4, Assemble
    <2> QED BY <1>4, <2>1, <2>2 DEF WriteDiscovery
  <1>5. CASE UiTakesTask(p)
    <2>1. TypeOK' /\ OnlyApp(p)
      BY <1>5 DEF UiTakesTask, OnlyApp
    <2>2. Local(p)'
      BY <1>0, <1>5 DEF UiTakesTask, Local, Frame, Lifecycle, Attached, Named
    <2> QED BY <2>1, <2>2, Assemble
  <1>6. CASE UiSignals(p)
    <2>1. TypeOK' /\ OnlyApp(p)
      BY <1>6 DEF UiSignals, OnlyApp
    <2>2. Local(p)'
      BY <1>0, <1>6 DEF UiSignals, Local, Frame, Lifecycle, Attached, Named
    <2> QED BY <2>1, <2>2, Assemble
  <1> QED BY <1>1, <1>2, <1>3, <1>4, <1>5, <1>6 DEF UiSteps
-----------------------------------------------------------------------------
(* The accept thread.                                                      *)

LEMMA AcceptStep ==
  ASSUME Inv, NEW p \in Apps, Accept(p)
  PROVE  Inv'
  <1> USE DEF Inv, TypeOK, files
  <1>0. Local(p)
    OBVIOUS
  <1>1. backlog[p] # <<>> => Head(backlog[p]) \in Clients /\ Tail(backlog[p]) \in Seq(Clients)
    OBVIOUS
  <1>2. \A q \in Apps \ {p} : thread'[q] = thread[q] /\ conn'[q] = conn[q] /\ backlog'[q] = backlog[q]
    BY DEF Accept, ThreadGoes
  <1>3. OnlyApp(p)
    BY <1>2 DEF Accept, OnlyApp, owner
  <1>4. thread' \in [Apps -> {"off", "check", "accept", "recv", "body", "post", "wait",
                              "exec", "send", "exit"}]
    <2>1. PICK pc \in {"accept", "exit", "recv"} : ThreadGoes(p, pc)
      BY DEF Accept
    <2> QED BY <2>1 DEF ThreadGoes
  <1>5. conn' \in [Apps -> Clients \cup {None}] /\ backlog' \in [Apps -> Seq(Clients)]
    <2>1. CASE UNCHANGED <<conn, backlog>>
      BY <2>1
    <2>2. CASE backlog[p] # <<>> /\ backlog' = [backlog EXCEPT ![p] = Tail(backlog[p])]
               /\ conn' \in {conn, [conn EXCEPT ![p] = Head(backlog[p])]}
      BY <1>1, <2>2
    <2> QED BY <2>1, <2>2 DEF Accept
  <1>6. client' \in [Clients -> {"idle", "queued", "left", "open", "asked"}]
    BY DEF Accept
  <1>7. TypeOK'
    BY <1>4, <1>6, <1>5 DEF Accept, owner
  <1>8. Local(p)'
    BY <1>0 DEF Accept, ThreadGoes, owner, Local, Frame, Lifecycle, Attached, Named, Busy
  <1> QED BY <1>3, <1>7, <1>8, Assemble

LEMMA ThreadStep ==
  ASSUME Inv, NEW p \in Apps, ThreadSteps(p)
  PROVE  Inv'
  <1> USE DEF Inv, TypeOK, files, ThreadGoes, owner
  <1>0. Local(p)
    OBVIOUS
  <1>1. CASE Run(p)
    <2>1. TypeOK' /\ OnlyApp(p)
      BY <1>1 DEF Run, OnlyApp
    <2>2. Local(p)'
      BY <1>0, <1>1 DEF Run, Local, Frame, Lifecycle, Attached, Named, Busy
    <2> QED BY <2>1, <2>2, Assemble
  <1>2. CASE RecvHeaders(p)
    <2>1. CASE ThreadGoes(p, "check") /\ CloseConn(p)
      <3>1. TypeOK' /\ OnlyApp(p)
        BY <1>2, <2>1 DEF RecvHeaders, OnlyApp, CloseConn
      <3>2. Local(p)'
        BY <1>0, <1>2, <2>1
           DEF RecvHeaders, CloseConn, Local, Frame, Lifecycle, Attached, Named, Busy
      <3> QED BY <3>1, <3>2, Assemble
    <2>2. CASE ThreadGoes(p, "body") /\ UNCHANGED <<conn, client>>
      <3>1. TypeOK' /\ OnlyApp(p)
        BY <1>2, <2>2 DEF RecvHeaders, OnlyApp
      <3>2. Local(p)'
        BY <1>0, <1>2, <2>2
           DEF RecvHeaders, Local, Frame, Lifecycle, Attached, Named, Busy
      <3> QED BY <3>1, <3>2, Assemble
    <2> QED BY <1>2, <2>1, <2>2 DEF RecvHeaders
  <1>7. CASE RecvBody(p)
    <2>1. PICK pc \in {"send", "post", "exec"} : ThreadGoes(p, pc)
      BY <1>7 DEF RecvBody, HandleJson
    <2>2. TypeOK' /\ OnlyApp(p)
      BY <1>7, <2>1 DEF RecvBody, OnlyApp
    <2>3. Local(p)'
      BY <1>0, <1>7, <2>1
         DEF RecvBody, Local, Frame, Lifecycle, Attached, Named, Busy
    <2> QED BY <2>2, <2>3, Assemble
  <1>3. CASE PostTask(p)
    <2>1. TypeOK' /\ OnlyApp(p)
      BY <1>3 DEF PostTask, OnlyApp
    <2>2. Local(p)'
      BY <1>0, <1>3 DEF PostTask, Local, Frame, Lifecycle, Attached, Named, Busy
    <2> QED BY <2>1, <2>2, Assemble
  <1>4. CASE Wait(p)
    <2>1. TypeOK' /\ OnlyApp(p)
      BY <1>4 DEF Wait, OnlyApp
    <2>2. Local(p)'
      BY <1>0, <1>4 DEF Wait, Local, Frame, Lifecycle, Attached, Named, Busy
    <2> QED BY <2>1, <2>2, Assemble
  <1>5. CASE ExecLine(p)
    <2>1. TypeOK' /\ OnlyApp(p)
      BY <1>5 DEF ExecLine, OnlyApp
    <2>2. Local(p)'
      BY <1>0, <1>5 DEF ExecLine, Local, Frame, Lifecycle, Attached, Named, Busy
    <2> QED BY <2>1, <2>2, Assemble
  <1>6. CASE SendAll(p)
    <2>1. CloseConn(p)
      BY <1>6 DEF SendAll
    <2>2. TypeOK' /\ OnlyApp(p)
      BY <1>6, <2>1 DEF SendAll, OnlyApp, CloseConn
    <2>3. Local(p)'
      BY <1>0, <1>6, <2>1 DEF SendAll, CloseConn, Local, Frame, Lifecycle, Attached, Named, Busy
    <2> QED BY <2>2, <2>3, Assemble
  <1> QED
    BY <1>1, <1>2, <1>3, <1>4, <1>5, <1>6, <1>7, AcceptStep DEF ThreadSteps, Talk
-----------------------------------------------------------------------------
(* The surroundings.                                                       *)

LEMMA ClientStep ==
  ASSUME Inv, NEW c \in Clients,
         HangUp(c) \/ Ask(c) \/ \E p \in Apps : Connect(c, p)
  PROVE  Inv'
  <1> USE DEF Inv, TypeOK, files, owner
  <1>1. CASE HangUp(c) \/ Ask(c)
    <2>1. TypeOK'
      BY <1>1 DEF HangUp, Ask, server
    <2>2. ASSUME NEW p \in Apps PROVE Local(p)'
      BY <1>1 DEF HangUp, Ask, server, Local, Frame, Lifecycle, Attached, Named
    <2> QED BY <2>1, <2>2
  <1>2. ASSUME NEW p \in Apps, Connect(c, p) PROVE Inv'
    <2>1. Append(backlog[p], c) \in Seq(Clients)
      OBVIOUS
    <2>2. TypeOK' /\ OnlyApp(p)
      BY <1>2, <2>1 DEF Connect, OnlyApp
    <2>3. Local(p)'
      BY <1>2 DEF Connect, Local, Frame, Lifecycle, Attached, Named
    <2> QED BY <2>2, <2>3, Assemble
  <1> QED BY <1>1, <1>2

LEMMA CrashStep ==
  ASSUME Inv, NEW p \in Apps, Crash(p)
  PROVE  Inv'
  <1> USE DEF Inv, TypeOK, files
  <1>1. <<>> \in Seq(Clients)
    OBVIOUS
  <1>2. OnlyApp(p)
    BY DEF Crash, OnlyApp
  <1>3. client' \in [Clients -> {"idle", "queued", "left", "open", "asked"}]
    BY DEF Crash
  <1>4. TypeOK'
    BY <1>1, <1>3 DEF Crash
  <1>5. Local(p)'
    BY DEF Crash, Local, Frame, Lifecycle, Attached, Named
  <1> QED BY <1>2, <1>4, <1>5, Assemble

LEMMA InitInv == Init => Inv
  <1> SUFFICES ASSUME Init PROVE Inv
    OBVIOUS
  <1>1. <<>> \in Seq(Clients) /\ 0 \in 0..StartLimit
    BY AgentAssumption
  <1>2. TypeOK
    BY <1>1 DEF Init, TypeOK
  <1>3. ASSUME NEW p \in Apps PROVE Local(p)
    BY AgentAssumption DEF Init, Local, Frame, Lifecycle, Attached, Named
  <1> QED BY <1>2, <1>3 DEF Inv

LEMMA StepInv == Inv /\ [Next]_vars => Inv'
  <1> SUFFICES ASSUME Inv, [Next]_vars PROVE Inv'
    OBVIOUS
  <1>1. CASE UNCHANGED vars
    <2>1. TypeOK'
      BY <1>1 DEF vars, Inv, TypeOK
    <2>2. ASSUME NEW p \in Apps PROVE Local(p)'
      BY <1>1 DEF vars, Inv, Local, Frame, Lifecycle, Attached, Named
    <2> QED BY <2>1, <2>2 DEF Inv
  <1> QED
    BY <1>1, BeginStopStep, UiStep, ThreadStep, CrashStep, ClientStep DEF Next

LEMMA InvHolds == Spec => []Inv
  BY InitInv, StepInv, PTL DEF Spec
-----------------------------------------------------------------------------
(* Type correctness for any number of apps, clients and restarts.          *)
THEOREM AgentTyped == Spec => []TypeOK
  <1>1. Inv => TypeOK
    BY DEF Inv
  <1> QED BY <1>1, InvHolds, PTL

(* The UI thread never runs or signals a line whose poster has left        *)
(* RunLineOnUi, whatever starts, stops and crashes come in between.        *)
THEOREM PostedFrameAlive == Spec => []TaskFrameAlive
  <1>1. Inv => TaskFrameAlive
    BY DEF Inv, Local, Frame, TaskFrameAlive
  <1> QED BY <1>1, InvHolds, PTL

(* After Stop, and after a Start that failed, nothing of the server is     *)
(* left.                                                                   *)
THEOREM StoppedServerIsQuiet == Spec => []StopIsQuiet
  <1>1. Inv => StopIsQuiet
    <2> SUFFICES ASSUME Inv, NEW p \in Apps,
                        \/ ui[p] \in {"delete", "bind"}
                        \/ ui[p] = "idle" /\ ~Serving(p) /\ thread[p] # "exit"
                 PROVE  /\ thread[p] = "off" /\ conn[p] = None
                        /\ ~listen[p] /\ backlog[p] = <<>> /\ ~task[p]
      BY DEF StopIsQuiet
    <2>1. Local(p)
      BY DEF Inv
    <2>2. thread[p] = "off" /\ ~listen[p]
      BY <2>1 DEF Local, Lifecycle, Serving
    <2> QED BY <2>1, <2>2 DEF Local, Frame, Attached, Busy
  <1> QED BY <1>1, InvHolds, PTL

(* However many apps share the one discovery file, it names none that does *)
(* not serve, other than by a kill, a failed accept or a failed delete.    *)
THEOREM DiscoveryNeverStale == Spec => []NoStaleDiscovery
  <1>1. Inv => NoStaleDiscovery
    <2> SUFFICES ASSUME Inv, discovery \in Apps
                 PROVE  \/ Serving(discovery) \/ ui[discovery] \in {"join", "delete"}
                        \/ crashed[discovery] \/ Deaf(discovery) \/ undeleted
      BY DEF NoStaleDiscovery
    <2>1. Local(discovery)
      BY DEF Inv
    <2> QED BY <2>1 DEF Local, Lifecycle, Named, Serving, Deaf
  <1> QED BY <1>1, InvHolds, PTL
=============================================================================

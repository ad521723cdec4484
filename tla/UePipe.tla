------------------------------- MODULE UePipe -------------------------------
(***************************************************************************)
(* The transport of the viewport pipe: the server threads of UePeer        *)
(* (content/browser/ipc/ue_peer.cc), the clients (pipe_client.cc) and the  *)
(* one named pipe instance between them.                                   *)
(*                                                                         *)
(* The owner starts and stops the server; the I/O thread creates the pipe, *)
(* accepts one client at a time, reads a request, answers it and drops the *)
(* client when the connection breaks.  Clients may connect, send, crash    *)
(* and reconnect at any point.  Requests carry only their id here: UePeer  *)
(* models what the handlers do with them.                                  *)
(***************************************************************************)
EXTENDS Naturals, Sequences

CONSTANTS
  Clients,
  Ids,          \* ids of well-formed requests
  NoId,         \* no message
  Garbage,      \* a frame that cannot be decoded or parsed
  Oversize,     \* a message larger than kMaxPipeFrameBytes
  RecentLimit,  \* kRecentIdLimit
  StartLimit    \* bound on server starts, for model checking

NoClient == "none"

ASSUME PipeAssumption ==
  /\ NoClient \notin Clients
  /\ NoId \notin Ids /\ Garbage \notin Ids /\ Oversize \notin Ids
  /\ NoId # Garbage /\ NoId # Oversize /\ Garbage # Oversize
  /\ RecentLimit \in Nat \ {0} /\ StartLimit \in Nat

Requests == Ids \cup {Garbage, Oversize}
Messages == Requests \cup {NoId}

VARIABLES
  ctl,        \* owner: idle, starting, running, stopping
  starts,     \* server starts so far
  stop,       \* the stop flag and the stop event
  ready,      \* ready_event
  failed,     \* start_error is set
  pipe_set,   \* state_->pipe holds the handle
  io,         \* where the I/O thread is
  game,       \* off, run, exit
  inst,       \* the pipe instance
  user,       \* the client connected to it
  c2s, s2c,   \* the message in each direction
  cur,        \* the request the I/O thread holds
  cl,         \* clients: closed, open, waiting; the request waited on, the last answer
  recent,     \* ids with a cached reply, oldest first
  executed    \* how often each id's handler has run

owner == <<ctl, starts, stop, ready, failed, pipe_set, game>>
vars == <<ctl, starts, stop, ready, failed, pipe_set, io, game, inst, user,
          c2s, s2c, cur, cl, recent, executed>>

IoPoints == {"off", "create", "publish", "ready", "accept", "accepting",
             "accepted", "serve", "reading", "handle", "write", "drop", "exit"}

Init ==
  /\ ctl = "idle" /\ starts = 0
  /\ stop = FALSE /\ ready = FALSE /\ failed = FALSE /\ pipe_set = FALSE
  /\ io = "off" /\ game = "off"
  /\ inst = "none" /\ user = NoClient
  /\ c2s = NoId /\ s2c = NoId /\ cur = NoId
  /\ cl = [c \in Clients |-> [pc |-> "closed", req |-> NoId, got |-> NoId]]
  /\ recent = <<>>
  /\ executed = [id \in Ids |-> 0]
-----------------------------------------------------------------------------
(* The owner: UePeer::start and UePeer::stop.                              *)

Start ==
  /\ ctl = "idle" /\ starts < StartLimit
  /\ ctl' = "starting" /\ starts' = starts + 1
  /\ stop' = FALSE /\ ready' = FALSE /\ failed' = FALSE
  /\ recent' = <<>> /\ executed' = [id \in Ids |-> 0]
  /\ io' = "create" /\ game' = "run"
  /\ UNCHANGED <<pipe_set, inst, user, c2s, s2c, cur, cl>>

(* The wait for ready_event ends with the event or after five seconds;     *)
(* what counts is whether the handle is there and no error was noted.      *)
StartReturns ==
  /\ ctl = "starting"
  /\ ctl' = IF failed \/ ~pipe_set THEN "stopping" ELSE "running"
  /\ stop' = (stop \/ failed \/ ~pipe_set)
  /\ UNCHANGED <<starts, ready, failed, pipe_set, io, game, inst, user,
                 c2s, s2c, cur, cl, recent, executed>>

Stop ==
  /\ ctl = "running"
  /\ ctl' = "stopping" /\ stop' = TRUE
  /\ UNCHANGED <<starts, ready, failed, pipe_set, io, game, inst, user,
                 c2s, s2c, cur, cl, recent, executed>>

(* Variant of StopReturns: the game thread is not joined.                  *)
StopWithoutGame ==
  /\ ctl = "stopping" /\ io = "exit"
  /\ ctl' = "idle" /\ io' = "off"
  /\ pipe_set' = FALSE
  /\ inst' = "none" /\ user' = NoClient /\ c2s' = NoId /\ s2c' = NoId
  /\ UNCHANGED <<starts, stop, ready, failed, game, cur, cl, recent, executed>>

(* Both threads are joined before the handle is closed.                    *)
StopReturns ==
  /\ ctl = "stopping" /\ io = "exit" /\ game = "exit"
  /\ ctl' = "idle" /\ io' = "off" /\ game' = "off"
  /\ pipe_set' = FALSE
  /\ IF pipe_set THEN inst' = "none" /\ user' = NoClient /\ c2s' = NoId /\ s2c' = NoId
                 ELSE UNCHANGED <<inst, user, c2s, s2c>>
  /\ UNCHANGED <<starts, stop, ready, failed, cur, cl, recent, executed>>

GameExit ==
  /\ game = "run" /\ stop
  /\ game' = "exit"
  /\ UNCHANGED <<ctl, starts, stop, ready, failed, pipe_set, io, inst, user,
                 c2s, s2c, cur, cl, recent, executed>>
-----------------------------------------------------------------------------
(* The I/O thread: UePeer::io_main, AcceptClient, ServeClient, WriteFrame. *)

IoFails ==
  /\ failed' = TRUE /\ ready' = TRUE /\ io' = "exit"
  /\ UNCHANGED <<ctl, starts, stop, pipe_set, game, inst, user, c2s, s2c, cur,
                 cl, recent, executed>>

(* The security descriptor or the pipe may not be created; a stop seen     *)
(* before the pipe exists leaves the handle invalid, which is an error.    *)
IoCreate ==
  /\ io = "create"
  /\ \/ IoFails
     \/ /\ ~stop
        /\ inst' = "listening" /\ io' = "publish"
        /\ UNCHANGED <<owner, user, c2s, s2c, cur, cl, recent, executed>>

IoPublish ==
  /\ io = "publish"
  /\ pipe_set' = TRUE /\ io' = "ready"
  /\ UNCHANGED <<ctl, starts, stop, ready, failed, game, inst, user, c2s, s2c,
                 cur, cl, recent, executed>>

IoReady ==
  /\ io = "ready"
  /\ ready' = TRUE /\ io' = "accept"
  /\ UNCHANGED <<ctl, starts, stop, failed, pipe_set, game, inst, user, c2s,
                 s2c, cur, cl, recent, executed>>

IoGoes(pc) == io' = pc /\ UNCHANGED <<owner, user, c2s, s2c, cl, recent, executed>>

(* ConnectNamedPipe on a new or disconnected instance waits; a client that *)
(* came before the call is served; one that came and went before the call  *)
(* is an error, and an error ends the thread.                              *)
IoAccept ==
  /\ io = "accept"
  /\ \/ stop /\ IoGoes("exit") /\ UNCHANGED <<inst, cur>>
     \/ ~stop /\ inst = "connected" /\ IoGoes("accepted") /\ UNCHANGED <<inst, cur>>
     \/ ~stop /\ inst = "broken" /\ IoGoes("exit") /\ UNCHANGED <<inst, cur>>
     \/ /\ ~stop /\ inst \in {"listening", "disconnected"}
        /\ inst' = "listening" /\ IoGoes("accepting") /\ UNCHANGED cur

(* WaitIo: the stop event has the lower index and wins.                    *)
IoAccepting ==
  /\ io = "accepting" /\ UNCHANGED <<inst, cur>>
  /\ \/ stop /\ IoGoes("exit")
     \/ ~stop /\ inst \in {"connected", "broken"} /\ IoGoes("accepted")

IoAccepted ==
  /\ io = "accepted" /\ UNCHANGED <<inst, cur>>
  /\ IoGoes(IF stop THEN "exit" ELSE "serve")

(* A request is taken out of the pipe; requests of a client that has gone  *)
(* away can still be read.                                                 *)
TakeRequest(pc) ==
  /\ cur' = c2s /\ c2s' = NoId /\ io' = pc
  /\ UNCHANGED <<owner, inst, user, s2c, cl, recent, executed>>

(* A message that does not fit the buffer is answered with too_large when  *)
(* ReadFile says so at once, and dropped unanswered when it says so later. *)
IoServe ==
  /\ io = "serve"
  /\ \/ stop /\ IoGoes("drop") /\ UNCHANGED <<inst, cur>>
     \/ ~stop /\ c2s # NoId /\ TakeRequest("handle")
     \/ ~stop /\ c2s = NoId /\ inst = "broken" /\ IoGoes("drop") /\ UNCHANGED <<inst, cur>>
     \/ ~stop /\ inst = "connected" /\ IoGoes("reading") /\ UNCHANGED <<inst, cur>>

(* Variant of IoReading: a read that fails is tried again.                 *)
IoReadingRetries ==
  /\ io = "reading"
  /\ \/ stop /\ IoGoes("drop") /\ UNCHANGED <<inst, cur>>
     \/ ~stop /\ c2s \notin {NoId, Oversize} /\ TakeRequest("handle")
     \/ ~stop /\ c2s = Oversize /\ TakeRequest("serve")
     \/ ~stop /\ c2s = NoId /\ inst = "broken" /\ IoGoes("drop") /\ UNCHANGED <<inst, cur>>

(* Variant of IoReading: only the pipe is waited for, not the stop event.  *)
IoReadingDeaf ==
  /\ io = "reading"
  /\ \/ c2s # NoId /\ TakeRequest(IF c2s = Oversize THEN "drop" ELSE "handle")
     \/ c2s = NoId /\ inst = "broken" /\ IoGoes("drop") /\ UNCHANGED <<inst, cur>>

IoReading ==
  /\ io = "reading"
  /\ \/ stop /\ IoGoes("drop") /\ UNCHANGED <<inst, cur>>
     \/ ~stop /\ c2s # NoId /\ TakeRequest(IF c2s = Oversize THEN "drop" ELSE "handle")
     \/ ~stop /\ c2s = NoId /\ inst = "broken" /\ IoGoes("drop") /\ UNCHANGED <<inst, cur>>

(* A read may also fail with its client still there.                       *)
IoReadFails ==
  /\ io \in {"serve", "reading"} /\ ~stop
  /\ IoGoes("drop") /\ UNCHANGED <<inst, cur>>

Cached(id) == \E i \in 1..Len(recent) : recent[i] = id
Remembering(id) ==
  LET grown == Append(recent, id)
  IN  IF Len(grown) > RecentLimit THEN Tail(grown) ELSE grown

(* Variant of IoHandle: the reply cache is not consulted.                  *)
IoHandleAlways ==
  /\ io = "handle" /\ io' = "write"
  /\ IF cur \in Ids
     THEN executed' = [executed EXCEPT ![cur] = @ + 1] /\ recent' = Remembering(cur)
     ELSE UNCHANGED <<executed, recent>>
  /\ UNCHANGED <<owner, inst, user, c2s, s2c, cur, cl>>

(* Variant of IoHandle: the reply to an unreadable frame is cached too.    *)
IoHandleCachesAll ==
  /\ io = "handle" /\ io' = "write"
  /\ recent' = IF Cached(cur) THEN recent ELSE Remembering(cur)
  /\ executed' = [id \in Ids |-> executed[id] + (IF id = cur /\ ~Cached(id) THEN 1 ELSE 0)]
  /\ UNCHANGED <<owner, inst, user, c2s, s2c, cur, cl>>

(* ReplyForFrame: a fresh id runs its handler, a cached one does not.      *)
IoHandle ==
  /\ io = "handle" /\ io' = "write"
  /\ IF cur \in Ids /\ ~Cached(cur)
     THEN executed' = [executed EXCEPT ![cur] = @ + 1] /\ recent' = Remembering(cur)
     ELSE UNCHANGED <<executed, recent>>
  /\ UNCHANGED <<owner, inst, user, c2s, s2c, cur, cl>>

(* WriteFrame: the reply goes into the pipe, or the write fails, whether   *)
(* the client has gone or is still there.  After an oversized message, a   *)
(* failed write or one that completes as the stop event is set, the client *)
(* is dropped.                                                             *)
IoWrite ==
  /\ io = "write" /\ cur' = NoId
  /\ \/ /\ inst = "connected" /\ s2c' = cur
        /\ \/ cur # Oversize /\ io' = "serve"
           \/ (cur = Oversize \/ stop) /\ io' = "drop"
        /\ UNCHANGED <<owner, inst, user, c2s, cl, recent, executed>>
     \/ IoGoes("drop") /\ UNCHANGED inst

(* Variant of IoDrop: the thread ends with its client.                     *)
IoDropExits ==
  /\ io = "drop"
  /\ inst' = "disconnected" /\ user' = NoClient
  /\ c2s' = NoId /\ s2c' = NoId /\ cur' = NoId
  /\ io' = "exit"
  /\ UNCHANGED <<owner, cl, recent, executed>>

(* DisconnectNamedPipe throws away what the client has not read.           *)
IoDrop ==
  /\ io = "drop"
  /\ inst' = "disconnected" /\ user' = NoClient
  /\ c2s' = NoId /\ s2c' = NoId /\ cur' = NoId
  /\ io' = IF stop THEN "exit" ELSE "accept"
  /\ UNCHANGED <<owner, cl, recent, executed>>
-----------------------------------------------------------------------------
(* The clients: PipeClient.  A client whose server end has gone still      *)
(* holds its handle (open) until a call fails or it closes it.             *)

ClientStep == UNCHANGED <<owner, io, cur, recent, executed>>

CloseHandleOf(c) ==
  IF user = c THEN inst' = "broken" /\ user' = NoClient /\ s2c' = NoId
              ELSE UNCHANGED <<inst, user, s2c>>

(* CreateFile finds the instance listening.  connect() closes the old      *)
(* handle first, so a client that is still attached goes through Close.    *)
Connect(c) ==
  /\ cl[c].pc # "waiting" /\ user # c
  /\ inst = "listening"
  /\ inst' = "connected" /\ user' = c
  /\ cl' = [cl EXCEPT ![c] = [pc |-> "open", req |-> NoId, got |-> NoId]]
  /\ UNCHANGED <<c2s, s2c>> /\ ClientStep

(* close(), a connect() that finds the pipe busy or missing, or the end of *)
(* the client's process in the middle of a call.                           *)
Close(c) ==
  /\ cl[c].pc # "closed"
  /\ cl' = [cl EXCEPT ![c] = [pc |-> "closed", req |-> NoId, got |-> NoId]]
  /\ CloseHandleOf(c)
  /\ UNCHANGED c2s /\ ClientStep

(* transact() and exchange_frame(): write the request, then wait.          *)
Send(c, m) ==
  /\ cl[c].pc = "open" /\ user = c
  /\ cl' = [cl EXCEPT ![c] = [pc |-> "waiting", req |-> m, got |-> NoId]]
  /\ c2s' = m
  /\ UNCHANGED <<inst, user, s2c>> /\ ClientStep

(* Variant of Receive: a read that takes too long is abandoned, and the    *)
(* handle stays open.                                                      *)
ReceiveGivesUp(c) ==
  /\ cl[c].pc = "waiting"
  /\ s2c' = IF user = c THEN NoId ELSE s2c
  /\ cl' = [cl EXCEPT ![c] = [pc |-> "open", req |-> NoId, got |-> NoId]]
  /\ UNCHANGED <<inst, user, c2s>> /\ ClientStep

(* ReadFile returns the reply, or fails because the server end is gone.    *)
Receive(c) ==
  /\ cl[c].pc = "waiting"
  /\ \/ user = c /\ s2c # NoId /\ s2c' = NoId
     \/ user # c /\ UNCHANGED s2c
  /\ cl' = [cl EXCEPT ![c] = [pc |-> "open", req |-> NoId,
                              got |-> IF user = c THEN s2c ELSE NoId]]
  /\ UNCHANGED <<inst, user, c2s>> /\ ClientStep

Io == \/ IoCreate \/ IoPublish \/ IoReady \/ IoAccept \/ IoAccepting
      \/ IoAccepted \/ IoServe \/ IoReading \/ IoHandle \/ IoWrite \/ IoDrop
Owner == Start \/ StartReturns \/ Stop \/ StopReturns
Client(c) == Connect(c) \/ Close(c) \/ (\E m \in Requests : Send(c, m)) \/ Receive(c)

Next == Owner \/ GameExit \/ Io \/ IoReadFails \/ \E c \in Clients : Client(c)

(* The threads run whenever they can; the owner's calls return.  Nothing   *)
(* obliges the owner to start or stop, a client to connect, send or close, *)
(* or a read to fail, but a blocked read returns once it can.              *)
Fairness ==
  /\ WF_vars(Io) /\ WF_vars(GameExit)
  /\ WF_vars(StartReturns) /\ WF_vars(StopReturns)
  /\ \A c \in Clients : WF_vars(Receive(c))

Spec == Init /\ [][Next]_vars /\ Fairness
-----------------------------------------------------------------------------
(* The server's state, the pipe instance and the clients keep their types, *)
(* and only well-formed requests are remembered.                           *)
TypeOK ==
  /\ ctl \in {"idle", "starting", "running", "stopping"}
  /\ starts \in 0..StartLimit
  /\ stop \in BOOLEAN /\ ready \in BOOLEAN
  /\ failed \in BOOLEAN /\ pipe_set \in BOOLEAN
  /\ io \in IoPoints /\ game \in {"off", "run", "exit"}
  /\ inst \in {"none", "listening", "connected", "broken", "disconnected"}
  /\ user \in Clients \cup {NoClient}
  /\ c2s \in Messages /\ s2c \in Messages /\ cur \in Messages
  /\ cl \in [Clients -> [pc : {"closed", "open", "waiting"}, req : Messages, got : Messages]]
  /\ recent \in Seq(Ids)
  /\ executed \in [Ids -> Nat]

(* A reply in the pipe is always the reply to the request its reader is    *)
(* waiting on: PipeClient::transact does not compare ids, so a reply left  *)
(* over from an earlier client or an abandoned call would be taken for the *)
(* answer.                                                                 *)
ReplyAnswersReader ==
  s2c # NoId => user # NoClient /\ cl[user].pc = "waiting" /\ cl[user].req = s2c

(* After stop() no thread runs, no handle is open and no client is still   *)
(* attached; while start() has returned true the pipe handle is there.     *)
StopIsClean ==
  /\ ctl = "idle" => io = "off" /\ game = "off" /\ inst = "none" /\ ~pipe_set
  /\ ctl = "running" => pipe_set /\ ~failed

(* The pipe implements at-most-once calls: a call that returned has run    *)
(* once, also when it was retried after a crash or a lost reply.           *)
Calls == INSTANCE PipeCalls WITH
  call <- [c \in Clients |-> IF cl[c].req \in Ids THEN cl[c].req ELSE NoId],
  got <- [c \in Clients |-> IF cl[c].got \in Ids THEN cl[c].got ELSE NoId],
  sent <- ({c2s} \cup (IF io = "handle" THEN {cur} ELSE {})) \cap Ids,
  runs <- executed
ImplementsCalls == Calls!Init /\ [][Calls!Next]_(Calls!vars)

(* stop() returns, whatever the I/O thread and the clients are doing.      *)
StopTerminates == (ctl = "stopping") ~> (ctl = "idle")

(* A client that waits for a reply gets it or an error: ReadFile has no    *)
(* timeout of its own.                                                     *)
CallsReturn == \A c \in Clients : (cl[c].pc = "waiting") ~> (cl[c].pc # "waiting")

(* "A dropped client returns false so the server can accept the next       *)
(* shell": once a client that was accepted goes away, the instance listens *)
(* again unless the server is stopped.                                     *)
DroppedClientReleased ==
  (inst = "broken" /\ io \in {"accepted", "serve", "reading", "handle", "write"})
    ~> (inst = "listening" \/ stop)

(* The same promise for every client: a server that has started and was    *)
(* not told to stop keeps its I/O thread.                                  *)
ServesUntilStopped == (ctl = "running" /\ ~stop) => io # "exit"
=============================================================================

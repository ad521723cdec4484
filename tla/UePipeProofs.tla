---------------------------- MODULE UePipeProofs ----------------------------
(***************************************************************************)
(* Machine-checked proofs about UePipe, for any number of clients, ids and *)
(* restarts.                                                               *)
(*                                                                         *)
(* At most one of the request in the pipe, the request in the I/O thread's *)
(* hands and the reply in the pipe exists, and while the instance is       *)
(* connected it belongs to the call its client is waiting on.              *)
(***************************************************************************)
EXTENDS UePipe, FiniteSets, FiniteSetTheorems, SequenceTheorems, TLAPS

(* How far the I/O thread is, the handle it shares and the instance.       *)
Handle ==
  /\ io \in {"off", "create"} => ~pipe_set /\ inst = "none"
  /\ io \notin {"off", "create", "publish", "exit"} => pipe_set
  /\ io = "exit" /\ ~pipe_set => inst = "none"
  /\ ctl = "idle" => io = "off" /\ game = "off"
  /\ ctl = "running" => pipe_set /\ ~failed

Attending == {"accepted", "serve", "reading", "handle", "write", "drop"}

(* The two ends of the instance.                                           *)
Ends ==
  /\ user # NoClient <=> inst = "connected"
  /\ inst \in {"none", "listening", "disconnected"} => c2s = NoId
  /\ inst # "connected" => s2c = NoId
  /\ io \in Attending => inst \in {"connected", "broken"}

Waits(c, m) == cl[c].pc = "waiting" /\ cl[c].req = m

(* One message per call.                                                   *)
OneMessage ==
  /\ \A c \in Clients : cl[c].pc # "waiting" => cl[c].req = NoId
  /\ io \in {"handle", "write"} => c2s = NoId
  /\ inst = "connected" =>
       /\ c2s # NoId => Waits(user, c2s) /\ s2c = NoId
       /\ io \in {"handle", "write"} => Waits(user, cur) /\ s2c = NoId
       /\ s2c # NoId => Waits(user, s2c)

Inv == TypeOK /\ Handle /\ Ends /\ OneMessage

(* The cached replies are those of the handlers that ran: no id is cached  *)
(* twice, and one whose reply is on its way is cached.                     *)
Once ==
  /\ \A id \in Ids : executed[id] = IF Cached(id) THEN 1 ELSE 0
  /\ \A i, j \in 1..Len(recent) : recent[i] = recent[j] => i = j
  /\ io = "write" /\ cur \in Ids => Cached(cur)
  /\ s2c \in Ids => Cached(s2c)
-----------------------------------------------------------------------------
(* The owner and the game thread.                                          *)

LEMMA OwnerStep ==
  ASSUME Inv, Owner \/ GameExit
  PROVE  Inv'
  <1> USE PipeAssumption DEF Inv
  <1>1. CASE Start
    <2>1. recent' = <<>> /\ <<>> \in Seq(Ids) /\ starts' \in 0..StartLimit
      BY <1>1 DEF Start, TypeOK
    <2>2. executed' \in [Ids -> Nat]
      BY <1>1 DEF Start
    <2>3. TypeOK'
      BY <1>1, <2>1, <2>2 DEF Start, TypeOK, IoPoints
    <2>4. Handle' /\ Ends' /\ OneMessage'
      BY <1>1 DEF Start, Handle, Ends, Attending, OneMessage, Waits
    <2> QED BY <2>3, <2>4
  <1>2. CASE StartReturns \/ Stop \/ GameExit
    <2>1. TypeOK'
      BY <1>2 DEF StartReturns, Stop, GameExit, TypeOK
    <2>2. Handle'
      BY <1>2 DEF StartReturns, Stop, GameExit, Handle
    <2>3. Ends' /\ OneMessage'
      BY <1>2 DEF StartReturns, Stop, GameExit, Ends, OneMessage, Waits
    <2> QED BY <2>1, <2>2, <2>3
  <1>3. CASE StopReturns
    <2>1. inst' = "none" /\ user' = NoClient /\ c2s' = NoId /\ s2c' = NoId
      BY <1>3 DEF StopReturns, Handle, Ends
    <2>2. TypeOK'
      BY <1>3, <2>1 DEF StopReturns, TypeOK, IoPoints, Messages
    <2>3. Handle' /\ Ends' /\ OneMessage'
      BY <1>3, <2>1 DEF StopReturns, Handle, Ends, Attending, OneMessage, Waits
    <2> QED BY <2>2, <2>3
  <1> QED BY <1>1, <1>2, <1>3 DEF Owner
-----------------------------------------------------------------------------
(* The I/O thread.                                                         *)

(* A step that only moves the I/O thread, away from no request in hand.    *)
LEMMA IoMoves ==
  ASSUME Inv, NEW pc \in IoPoints \ {"off", "create", "publish", "ready", "handle", "write"},
         IoGoes(pc), cur' \in Messages,
         inst' = inst \/ (inst \in {"listening", "disconnected"} /\ inst' = "listening"),
         pc \in Attending => inst' \in {"connected", "broken"},
         pipe_set, io # "off"
  PROVE  Inv'
  <1> USE DEF Inv, IoGoes, owner
  <1>1. TypeOK'
    BY DEF TypeOK
  <1>2. Handle'
    BY DEF Handle, IoPoints
  <1>3. Ends'
    BY DEF Ends
  <1>4. OneMessage'
    BY DEF OneMessage, Waits, Ends
  <1> QED BY <1>1, <1>2, <1>3, <1>4

LEMMA TakeRequestStep ==
  ASSUME Inv, io \in {"serve", "reading"}, NEW pc \in {"handle", "drop"},
         TakeRequest(pc), c2s # NoId
  PROVE  Inv'
  <1> USE DEF Inv, TakeRequest, owner
  <1>1. TypeOK'
    BY DEF TypeOK, IoPoints, Messages
  <1>2. Handle' /\ Ends'
    BY DEF Handle, Ends, Attending
  <1>3. OneMessage'
    BY DEF OneMessage, Waits
  <1> QED BY <1>1, <1>2, <1>3

LEMMA IoOpens ==
  ASSUME Inv, IoCreate \/ IoPublish \/ IoReady
  PROVE  Inv'
  <1> USE DEF Inv
  <1>1. CASE IoCreate
    <2>1. TypeOK'
      BY <1>1 DEF IoCreate, IoFails, TypeOK, IoPoints, owner
    <2>2. Handle'
      BY <1>1 DEF IoCreate, IoFails, Handle, owner
    <2>3. Ends' /\ OneMessage'
      BY <1>1 DEF IoCreate, IoFails, owner, Handle, Ends, Attending, OneMessage, Waits
    <2> QED BY <2>1, <2>2, <2>3
  <1>2. CASE IoPublish \/ IoReady
    <2>1. TypeOK'
      BY <1>2 DEF IoPublish, IoReady, TypeOK, IoPoints
    <2>2. Handle'
      BY <1>2 DEF IoPublish, IoReady, Handle
    <2>3. Ends' /\ OneMessage'
      BY <1>2 DEF IoPublish, IoReady, Ends, Attending, OneMessage, Waits
    <2> QED BY <2>1, <2>2, <2>3
  <1> QED BY <1>1, <1>2

LEMMA IoAccepts ==
  ASSUME Inv, IoAccept \/ IoAccepting \/ IoAccepted
  PROVE  Inv'
  <1>1. pipe_set /\ io # "off"
    BY DEF Inv, Handle, IoAccept, IoAccepting, IoAccepted
  <1>2. \E pc \in {"exit", "accepted", "accepting", "serve"} :
          /\ IoGoes(pc) /\ UNCHANGED cur
          /\ inst' = inst \/ (inst \in {"listening", "disconnected"} /\ inst' = "listening")
          /\ pc \in Attending => inst' \in {"connected", "broken"}
    BY DEF Inv, Ends, IoAccept, IoAccepting, IoAccepted, Attending
  <1> QED BY <1>1, <1>2, IoMoves DEF Inv, TypeOK, IoPoints

LEMMA IoServes ==
  ASSUME Inv, IoServe \/ IoReading \/ IoReadFails
  PROVE  Inv'
  <1>1. pipe_set /\ io \in {"serve", "reading"} /\ inst \in {"connected", "broken"}
    BY DEF Inv, Handle, Ends, Attending, IoServe, IoReading, IoReadFails
  <1>2. \/ \E pc \in {"drop", "reading"} : IoGoes(pc) /\ UNCHANGED <<inst, cur>>
        \/ c2s # NoId /\ \E pc \in {"handle", "drop"} : TakeRequest(pc)
    BY DEF IoServe, IoReading, IoReadFails
  <1> QED BY <1>1, <1>2, IoMoves, TakeRequestStep DEF Inv, TypeOK, IoPoints

LEMMA RememberingTyped ==
  ASSUME NEW id \in Ids, recent \in Seq(Ids)
  PROVE  Remembering(id) \in Seq(Ids)
  <1> DEFINE grown == Append(recent, id)
  <1>1. grown \in Seq(Ids) /\ grown # <<>>
    BY AppendProperties
  <1>2. Tail(grown) \in Seq(Ids)
    BY <1>1, HeadTailProperties
  <1> QED BY <1>1, <1>2 DEF Remembering

LEMMA IoAnswers ==
  ASSUME Inv, IoHandle \/ IoWrite \/ IoDrop
  PROVE  Inv'
  <1> USE DEF Inv, owner
  <1>1. CASE IoHandle
    <2>1. recent' \in Seq(Ids) /\ executed' \in [Ids -> Nat]
      <3>1. CASE cur \in Ids /\ ~Cached(cur)
        <4>1. recent' = Remembering(cur) /\ executed' = [executed EXCEPT ![cur] = @ + 1]
          BY <1>1, <3>1 DEF IoHandle
        <4> QED BY <3>1, <4>1, RememberingTyped DEF TypeOK
      <3>2. CASE ~(cur \in Ids /\ ~Cached(cur))
        BY <1>1, <3>2 DEF IoHandle, TypeOK
      <3> QED BY <3>1, <3>2
    <2>2. TypeOK'
      BY <1>1, <2>1 DEF IoHandle, TypeOK, IoPoints
    <2>3. Handle' /\ Ends' /\ OneMessage'
      BY <1>1 DEF IoHandle, Handle, Ends, Attending, OneMessage, Waits
    <2> QED BY <2>2, <2>3
  <1>2. CASE IoWrite
    <2>1. TypeOK'
      BY <1>2 DEF IoWrite, IoGoes, TypeOK, IoPoints, Messages
    <2>2. Handle'
      <3>1. UNCHANGED <<ctl, game, pipe_set, failed, inst>> /\ io' \in {"drop", "serve"}
        BY <1>2 DEF IoWrite, IoGoes
      <3> QED BY <1>2, <3>1 DEF Handle, IoWrite
    <2>3. Ends' /\ OneMessage'
      BY <1>2 DEF IoWrite, IoGoes, Ends, Attending, OneMessage, Waits
    <2> QED BY <2>1, <2>2, <2>3
  <1>3. CASE IoDrop
    <2>1. TypeOK'
      BY <1>3 DEF IoDrop, TypeOK, IoPoints, Messages
    <2>2. Handle' /\ Ends' /\ OneMessage'
      BY <1>3 DEF IoDrop, Handle, Ends, Attending, OneMessage, Waits
    <2> QED BY <2>1, <2>2
  <1> QED BY <1>1, <1>2, <1>3
-----------------------------------------------------------------------------
(* The clients.                                                            *)

LEMMA ClientSteps ==
  ASSUME Inv, NEW c \in Clients, Client(c)
  PROVE  Inv'
  <1> USE PipeAssumption DEF Inv, ClientStep, owner
  <1>0. ctl' = ctl /\ io' = io /\ pipe_set' = pipe_set /\ failed' = failed /\ game' = game
    BY DEF Client, Connect, Close, Send, Receive
  <1>1. CASE Connect(c)
    <2>1. TypeOK'
      BY <1>1 DEF Connect, TypeOK, Messages
    <2>2. Handle' /\ Ends'
      BY <1>0, <1>1 DEF Connect, Handle, Ends, Attending
    <2>3. OneMessage'
      BY <1>0, <1>1 DEF Connect, Ends, Attending, OneMessage, Waits, TypeOK
    <2> QED BY <2>1, <2>2, <2>3
  <1>2. CASE Close(c)
    <2>1. TypeOK'
      BY <1>2 DEF Close, CloseHandleOf, TypeOK, Messages
    <2>2. Handle' /\ Ends'
      BY <1>0, <1>2 DEF Close, CloseHandleOf, Handle, Ends, Attending
    <2>3. OneMessage'
      BY <1>0, <1>2 DEF Close, CloseHandleOf, Ends, Attending, OneMessage, Waits, TypeOK
    <2> QED BY <2>1, <2>2, <2>3
  <1>3. ASSUME NEW m \in Requests, Send(c, m) PROVE Inv'
    <2>1. TypeOK'
      BY <1>3 DEF Send, TypeOK, Messages
    <2>2. Handle' /\ Ends'
      BY <1>0, <1>3 DEF Send, Handle, Ends, Attending
    <2>3. OneMessage'
      BY <1>0, <1>3 DEF Send, Ends, Attending, OneMessage, Waits, TypeOK
    <2> QED BY <2>1, <2>2, <2>3
  <1>4. CASE Receive(c)
    <2>1. TypeOK'
      BY <1>4 DEF Receive, TypeOK, Messages
    <2>2. Handle' /\ Ends'
      BY <1>0, <1>4 DEF Receive, Handle, Ends, Attending
    <2>3. OneMessage'
      BY <1>0, <1>4 DEF Receive, Ends, Attending, OneMessage, Waits, TypeOK
    <2> QED BY <2>1, <2>2, <2>3
  <1> QED BY <1>1, <1>2, <1>3, <1>4 DEF Client

LEMMA InitInv == Init => Inv
  <1> SUFFICES ASSUME Init PROVE Inv
    OBVIOUS
  <1>1. TypeOK
    <2>1. recent \in Seq(Ids) /\ starts \in 0..StartLimit /\ executed \in [Ids -> Nat]
      BY PipeAssumption DEF Init
    <2> QED BY <2>1 DEF Init, TypeOK, IoPoints, Messages
  <1>2. Handle /\ Ends /\ OneMessage
    BY DEF Init, Handle, Ends, Attending, OneMessage, Waits
  <1> QED BY <1>1, <1>2 DEF Inv

LEMMA StepInv == Inv /\ [Next]_vars => Inv'
  <1> SUFFICES ASSUME Inv, [Next]_vars PROVE Inv'
    OBVIOUS
  <1>1. CASE UNCHANGED vars
    BY <1>1 DEF vars, Inv, TypeOK, Handle, Ends, OneMessage, Waits
  <1> QED
    BY <1>1, OwnerStep, IoOpens, IoAccepts, IoServes, IoAnswers, ClientSteps DEF Next, Io

LEMMA InvHolds == Spec => []Inv
  BY InitInv, StepInv, PTL DEF Spec
-----------------------------------------------------------------------------
(* Type correctness for any clients, ids and number of restarts.           *)
THEOREM PipeTyped == Spec => []TypeOK
  <1>1. Inv => TypeOK
    BY DEF Inv
  <1> QED BY <1>1, InvHolds, PTL

(* No client ever reads the reply to another client's request or to a call *)
(* that it or a predecessor had given up.                                  *)
THEOREM ReplyIsForReader == Spec => []ReplyAnswersReader
  <1>1. Inv => ReplyAnswersReader
    BY DEF Inv, Ends, OneMessage, Waits, ReplyAnswersReader
  <1> QED BY <1>1, InvHolds, PTL

(* stop() leaves no thread, handle or client behind, also after a start    *)
(* that failed or timed out.                                               *)
THEOREM StopLeavesNothing == Spec => []StopIsClean
  <1>1. Inv => StopIsClean
    BY DEF Inv, Handle, StopIsClean
  <1> QED BY <1>1, InvHolds, PTL
-----------------------------------------------------------------------------
(* Refinement of PipeCalls, as long as the cache of replies never has to   *)
(* forget one.                                                             *)

NoEviction == IsFiniteSet(Ids) /\ Cardinality(Ids) <= RecentLimit

LEMMA DistinctIdsFit ==
  ASSUME NoEviction, NEW s \in Seq(Ids),
         \A i, j \in 1..Len(s) : s[i] = s[j] => i = j
  PROVE  Len(s) <= RecentLimit
  <1>1. Len(s) \in Nat /\ s \in [1..Len(s) -> Ids]
    BY LenProperties
  <1>2. s \in Injection(1..Len(s), Ids)
    BY <1>1 DEF Injection, IsInjective
  <1>3. Cardinality(1..Len(s)) <= Cardinality(Ids)
    BY <1>2, FS_Injection DEF NoEviction
  <1>4. Cardinality(1..Len(s)) = Len(s)
    BY <1>1, FS_Interval
  <1>5. Cardinality(Ids) \in Nat
    BY FS_CardinalityType DEF NoEviction
  <1> QED BY <1>1, <1>3, <1>4, <1>5, PipeAssumption DEF NoEviction

(* A fresh id is added to the cache and none is lost.                      *)
LEMMA RememberingKeeps ==
  ASSUME NoEviction, Inv, Once, NEW id \in Ids, ~Cached(id), recent' = Remembering(id)
  PROVE  /\ \A x \in Ids : Cached(x)' <=> Cached(x) \/ x = id
         /\ \A i, j \in 1..Len(recent') : recent'[i] = recent'[j] => i = j
  <1> DEFINE n == Len(recent)
             grown == Append(recent, id)
  <1>1. recent \in Seq(Ids) /\ n \in Nat
    BY LenProperties DEF Inv, TypeOK
  <1>2. /\ grown \in Seq(Ids) /\ Len(grown) = n + 1 /\ grown[n + 1] = id
        /\ \A i \in 1..n : grown[i] = recent[i]
    BY <1>1, AppendProperties
  <1>3. \A i \in 1..(n + 1) : i \in 1..n \/ i = n + 1
    BY <1>1
  <1>4. \A i, j \in 1..(n + 1) : grown[i] = grown[j] => i = j
    BY <1>2, <1>3 DEF Once, Cached
  <1>5. Len(grown) <= RecentLimit
    BY <1>2, <1>4, DistinctIdsFit
  <1>6. recent' = grown
    BY <1>1, <1>2, <1>5, PipeAssumption DEF Remembering
  <1>7. \A x \in Ids : Cached(x)' <=> Cached(x) \/ x = id
    <2> SUFFICES ASSUME NEW x \in Ids
                 PROVE  (\E i \in 1..(n + 1) : grown[i] = x)
                          <=> (\E i \in 1..n : recent[i] = x) \/ x = id
      BY <1>2, <1>6 DEF Cached
    <2>1. n + 1 \in 1..(n + 1) /\ \A i \in 1..n : i \in 1..(n + 1)
      BY <1>1
    <2> QED BY <1>2, <1>3, <2>1
  <1> QED BY <1>2, <1>4, <1>6, <1>7

LEMMA InitOnce == Init => Once
  <1> SUFFICES ASSUME Init PROVE Once
    OBVIOUS
  <1>1. 1..Len(recent) = {}
    BY DEF Init
  <1> QED BY <1>1, PipeAssumption DEF Init, Once, Cached

LEMMA StepOnce ==
  ASSUME NoEviction, Inv, Once, [Next]_vars
  PROVE  Once'
  <1>1. CASE Start
    <2>1. 1..Len(recent') = {} /\ s2c' = NoId
      BY <1>1 DEF Start, Inv, Handle, Ends
    <2> QED BY <1>1, <2>1, PipeAssumption DEF Start, Once, Cached
  <1>2. CASE IoHandle /\ cur \in Ids /\ ~Cached(cur)
    <2>1. /\ recent' = Remembering(cur) /\ executed' = [executed EXCEPT ![cur] = @ + 1]
          /\ UNCHANGED <<cur, s2c>>
      BY <1>2 DEF IoHandle
    <2>2. \A id \in Ids : executed'[id] = IF id = cur THEN executed[id] + 1 ELSE executed[id]
      BY <2>1 DEF Inv, TypeOK
    <2> QED BY <1>2, <2>1, <2>2, RememberingKeeps DEF Once
  <1>3. CASE UNCHANGED <<recent, executed>> /\ ~(IoHandle /\ cur \in Ids /\ ~Cached(cur))
    <2>1. io' = "write" /\ cur' \in Ids => Cached(cur')
      <3>1. CASE IoHandle
        BY <1>3, <3>1 DEF IoHandle
      <3>2. CASE io' = io /\ UNCHANGED cur
        BY <3>2 DEF Once
      <3>3. CASE io' # "write"
        BY <3>3
      <3> QED
        BY <3>1, <3>2, <3>3 DEF Next, Owner, Io, Client, vars, owner, ClientStep,
           Start, StartReturns, Stop, StopReturns, GameExit, IoCreate, IoFails, IoPublish,
           IoReady, IoAccept, IoAccepting, IoAccepted, IoReadFails, IoServe, IoReading, IoWrite, IoDrop,
           IoGoes, TakeRequest, Connect, Close, Send, Receive
    <2>2. s2c' \in {s2c, NoId} \/ (io = "write" /\ s2c' = cur)
      BY DEF Next, Owner, Io, Client, vars, owner, ClientStep,
         Start, StartReturns, Stop, StopReturns, GameExit, IoCreate, IoFails, IoPublish,
         IoReady, IoAccept, IoAccepting, IoAccepted, IoReadFails, IoServe, IoReading, IoHandle, IoWrite,
         IoDrop, IoGoes, TakeRequest, Connect, Close, CloseHandleOf, Send, Receive
    <2>3. s2c' \in Ids => Cached(s2c')
      BY <2>2, PipeAssumption DEF Once
    <2> QED BY <1>3, <2>1, <2>3 DEF Once, Cached
  <1>4. Start \/ (IoHandle /\ cur \in Ids /\ ~Cached(cur)) \/ UNCHANGED <<recent, executed>>
    BY DEF Next, Owner, Io, Client, vars, owner, ClientStep,
       StartReturns, Stop, StopReturns, GameExit, IoCreate, IoFails, IoPublish,
       IoReady, IoAccept, IoAccepting, IoAccepted, IoReadFails, IoServe, IoReading, IoHandle, IoWrite,
       IoDrop, IoGoes, TakeRequest, Connect, Close, Send, Receive
  <1> QED BY <1>1, <1>2, <1>3, <1>4
-----------------------------------------------------------------------------
callBar == [c \in Clients |-> IF cl[c].req \in Ids THEN cl[c].req ELSE NoId]
gotBar  == [c \in Clients |-> IF cl[c].got \in Ids THEN cl[c].got ELSE NoId]
sentBar == ({c2s} \cup (IF io = "handle" THEN {cur} ELSE {})) \cap Ids

(* What each action of PipeCalls says of the mapped variables.             *)
LEMMA Mapped ==
  /\ \A c \in Clients, id \in Ids :
       /\ callBar[c] = NoId /\ callBar' = [callBar EXCEPT ![c] = id]
       /\ gotBar' = [gotBar EXCEPT ![c] = NoId] /\ sentBar' = sentBar \cup {id}
       /\ executed' = executed
       => Calls!Next
  /\ \A id \in Ids :
       /\ id \in sentBar /\ executed[id] = 0 /\ executed' = [executed EXCEPT ![id] = 1]
       /\ sentBar' = sentBar \ {id} /\ callBar' = callBar /\ gotBar' = gotBar
       => Calls!Next
  /\ \A id \in Ids :
       /\ id \in sentBar /\ sentBar' = sentBar \ {id}
       /\ callBar' = callBar /\ gotBar' = gotBar /\ executed' = executed
       => Calls!Next
  /\ \A c \in Clients :
       /\ callBar[c] # NoId /\ executed[callBar[c]] = 1
       /\ callBar' = [callBar EXCEPT ![c] = NoId]
       /\ gotBar' = [gotBar EXCEPT ![c] = callBar[c]]
       /\ sentBar' = sentBar /\ executed' = executed
       => Calls!Next
  /\ \A c \in Clients :
       /\ gotBar' = [gotBar EXCEPT ![c] = NoId]
       /\ callBar' = callBar /\ sentBar' = sentBar /\ executed' = executed
       => Calls!Next
  /\ \A c \in Clients :
       /\ callBar[c] # NoId /\ callBar' = [callBar EXCEPT ![c] = NoId]
       /\ gotBar' = [gotBar EXCEPT ![c] = NoId]
       /\ sentBar' = sentBar /\ executed' = executed
       => Calls!Next
  /\ /\ executed' = [id \in Ids |-> 0] /\ sentBar' = {}
     /\ callBar' = callBar /\ gotBar' = gotBar
     => Calls!Next
  BY Zenon DEF callBar, gotBar, sentBar, Calls!Next, Calls!Call, Calls!Run, Calls!Drop,
               Calls!Return, Calls!Forget, Calls!Fail, Calls!Restart

(* Steps of the server: only the handler, a dropped connection and a new   *)
(* start are visible.                                                      *)
LEMMA ServerRefines ==
  ASSUME Inv, Once, Owner \/ GameExit \/ Io \/ IoReadFails
  PROVE  Calls!Next \/ (UNCHANGED <<callBar, gotBar, sentBar, executed>>)
  <1> USE PipeAssumption
  <1>1. cl' = cl
    BY DEF Owner, Io, owner, Start, StartReturns, Stop, StopReturns, GameExit, IoCreate,
       IoFails, IoPublish, IoReady, IoAccept, IoAccepting, IoAccepted, IoReadFails, IoServe, IoReading,
       IoHandle, IoWrite, IoDrop, IoGoes, TakeRequest
  <1>2. callBar' = callBar /\ gotBar' = gotBar
    BY <1>1 DEF callBar, gotBar
  <1>3. CASE Start
    <2>1. sentBar' = {} /\ executed' = [id \in Ids |-> 0]
      BY <1>3 DEF Start, sentBar, Inv, Handle, Ends
    <2> QED BY <1>2, <2>1, Mapped
  <1>4. CASE IoHandle
    <2>1. c2s = NoId /\ c2s' = NoId /\ io' = "write" /\ io = "handle"
      BY <1>4 DEF IoHandle, Inv, OneMessage
    <2>2. sentBar' = {} /\ sentBar = {cur} \cap Ids
      BY <2>1 DEF sentBar
    <2>3. CASE cur \notin Ids
      BY <1>2, <1>4, <2>2, <2>3 DEF IoHandle
    <2>4. CASE cur \in Ids /\ Cached(cur)
      <3>1. cur \in sentBar /\ sentBar' = sentBar \ {cur} /\ executed' = executed
        BY <1>4, <2>2, <2>4 DEF IoHandle
      <3> QED BY <1>2, <2>4, <3>1, Mapped
    <2>5. CASE cur \in Ids /\ ~Cached(cur)
      <3>1. cur \in sentBar /\ sentBar' = sentBar \ {cur} /\ executed[cur] = 0
        BY <2>2, <2>5 DEF Once
      <3>2. executed' = [executed EXCEPT ![cur] = 1]
        BY <1>4, <2>5, <3>1 DEF IoHandle, Inv, TypeOK
      <3> QED BY <1>2, <2>5, <3>1, <3>2, Mapped
    <2> QED BY <2>3, <2>4, <2>5
  <1>5. CASE executed' = executed /\ c2s' = NoId /\ io # "handle" /\ io' # "handle"
    <2>1. sentBar' = {} /\ sentBar = {c2s} \cap Ids
      BY <1>5 DEF sentBar
    <2>2. CASE c2s \in Ids
      BY <1>2, <1>5, <2>1, <2>2, Mapped
    <2>3. CASE c2s \notin Ids
      BY <1>2, <1>5, <2>1, <2>3
    <2> QED BY <2>2, <2>3
  <1>6. CASE executed' = executed /\ c2s' = c2s /\ io # "handle" /\ io' # "handle"
    BY <1>2, <1>6 DEF sentBar
  <1>7. CASE executed' = executed /\ UNCHANGED <<c2s, io, cur>>
    BY <1>2, <1>7 DEF sentBar
  <1>8. CASE /\ executed' = executed /\ cur' = c2s /\ c2s' = NoId
             /\ io # "handle" /\ io' = "handle"
    BY <1>2, <1>8 DEF sentBar
  <1> QED
    BY <1>3, <1>4, <1>5, <1>6, <1>7, <1>8
       DEF Owner, Io, owner, StartReturns, Stop, StopReturns, GameExit, IoCreate,
       IoFails, IoPublish, IoReady, IoAccept, IoAccepting, IoAccepted, IoReadFails, IoServe, IoReading,
       IoWrite, IoDrop, IoGoes, TakeRequest

(* Steps of a client: a call, its reply, its failure, or nothing of a call *)
(* with a readable id.                                                     *)
LEMMA ClientRefines ==
  ASSUME Inv, Once, NEW c \in Clients, Client(c)
  PROVE  Calls!Next
  <1> USE PipeAssumption DEF Inv
  <1>1. executed' = executed /\ io' = io /\ cur' = cur
    BY DEF Client, Connect, Close, Send, Receive, ClientStep
  <1>2. ASSUME NEW pc, NEW req, NEW got,
               cl' = [cl EXCEPT ![c] = [pc |-> pc, req |-> req, got |-> got]]
        PROVE  /\ callBar' = [callBar EXCEPT ![c] = IF req \in Ids THEN req ELSE NoId]
               /\ gotBar' = [gotBar EXCEPT ![c] = IF got \in Ids THEN got ELSE NoId]
    BY <1>2 DEF callBar, gotBar, TypeOK
  <1>3. callBar[c] = IF cl[c].req \in Ids THEN cl[c].req ELSE NoId
    BY DEF callBar
  <1>4. callBar[c] = NoId => callBar = [callBar EXCEPT ![c] = NoId]
    BY DEF callBar
  \* A step that ends a call without a readable answer.
  <1>5. ASSUME NEW pc, cl' = [cl EXCEPT ![c] = [pc |-> pc, req |-> NoId, got |-> NoId]],
               c2s' = c2s
        PROVE  Calls!Next
    <2>1. callBar' = [callBar EXCEPT ![c] = NoId] /\ gotBar' = [gotBar EXCEPT ![c] = NoId]
      BY <1>2, <1>5
    <2>2. sentBar' = sentBar
      BY <1>1, <1>5 DEF sentBar
    <2> QED BY <1>1, <1>4, <2>1, <2>2, Mapped
  <1>6. CASE Connect(c)
    BY <1>5, <1>6 DEF Connect
  <1>7. CASE Close(c)
    BY <1>5, <1>7 DEF Close
  <1>8. ASSUME NEW m \in Requests, Send(c, m) PROVE Calls!Next
    <2>1. cl[c].req = NoId /\ c2s = NoId /\ io # "handle" /\ c2s' = m
      BY <1>8 DEF Send, Ends, OneMessage, Waits
    <2>2. /\ callBar' = [callBar EXCEPT ![c] = IF m \in Ids THEN m ELSE NoId]
          /\ gotBar' = [gotBar EXCEPT ![c] = NoId]
      BY <1>2, <1>8 DEF Send
    <2>3. sentBar = {} /\ sentBar' = {m} \cap Ids /\ callBar[c] = NoId
      BY <1>1, <1>3, <2>1 DEF sentBar
    <2>4. CASE m \in Ids
      BY <1>1, <2>2, <2>3, <2>4, Mapped
    <2>5. CASE m \notin Ids
      BY <1>1, <1>4, <2>2, <2>3, <2>5, Mapped
    <2> QED BY <2>4, <2>5
  <1>9. CASE Receive(c)
    <2>1. CASE user # c \/ s2c \notin Ids
      <3>1. cl[c].pc = "waiting" /\ c2s' = c2s
        BY <1>9 DEF Receive
      <3>2. CASE user # c
        BY <1>5, <1>9, <3>2 DEF Receive
      <3>3. CASE user = c /\ s2c \notin Ids
        <4>1. /\ callBar' = [callBar EXCEPT ![c] = NoId]
              /\ gotBar' = [gotBar EXCEPT ![c] = NoId]
          BY <1>2, <1>9, <3>3 DEF Receive
        <4>2. sentBar' = sentBar
          BY <1>1, <3>1 DEF sentBar
        <4> QED BY <1>1, <1>4, <4>1, <4>2, Mapped
      <3> QED BY <2>1, <3>2, <3>3
    <2>2. CASE user = c /\ s2c \in Ids
      <3>1. cl[c].req = s2c /\ executed[s2c] = 1 /\ c2s' = c2s
        BY <1>9, <2>2 DEF Receive, Ends, OneMessage, Waits, Once
      <3>2. callBar[c] = s2c
        BY <1>3, <2>2, <3>1
      <3>3. callBar' = [callBar EXCEPT ![c] = NoId] /\ gotBar' = [gotBar EXCEPT ![c] = s2c]
        BY <1>2, <1>9, <2>2 DEF Receive
      <3>4. sentBar' = sentBar
        BY <1>1, <3>1 DEF sentBar
      <3> QED BY <1>1, <2>2, <3>1, <3>2, <3>3, <3>4, Mapped
    <2> QED BY <2>1, <2>2
  <1> QED BY <1>6, <1>7, <1>8, <1>9 DEF Client

(* While no reply is evicted, every behaviour of the threads, the pipe and *)
(* the clients is one of at-most-once calls.                               *)
THEOREM PipeImplementsCalls ==
  ASSUME NoEviction
  PROVE  Spec => ImplementsCalls
  <1>1. Init => Calls!Init
    BY PipeAssumption DEF Init, Calls!Init
  <1>2. Inv /\ Once /\ [Next]_vars => [Calls!Next]_(Calls!vars)
    <2> SUFFICES ASSUME Inv, Once, [Next]_vars
                 PROVE  Calls!Next \/ UNCHANGED <<callBar, gotBar, sentBar, executed>>
      BY DEF callBar, gotBar, sentBar, Calls!vars
    <2>1. CASE UNCHANGED vars
      BY <2>1 DEF vars, callBar, gotBar, sentBar
    <2> QED BY <2>1, ServerRefines, ClientRefines DEF Next
  <1>3. Inv /\ Once /\ [Next]_vars => Once'
    BY StepOnce
  <1> QED BY <1>1, <1>2, <1>3, InvHolds, InitOnce, PTL DEF Spec, ImplementsCalls
=============================================================================

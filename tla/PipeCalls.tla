----------------------------- MODULE PipeCalls -----------------------------
(***************************************************************************)
(* What the viewport pipe promises its clients: a call that returns a      *)
(* reply has run exactly once since the server started, a call that fails  *)
(* has run at most once, and calling again with the same id never runs it  *)
(* a second time.  UePipe implements this.                                 *)
(***************************************************************************)
EXTENDS Naturals

CONSTANTS Clients, Ids, NoId   \* NoId is none of the Ids

VARIABLES
  call,   \* the id each client is waiting on, or NoId
  got,    \* the id whose reply each client has just received, or NoId
  sent,   \* ids on their way to the server
  runs    \* how often the server has run each id since it started

vars == <<call, got, sent, runs>>

Init ==
  /\ call = [c \in Clients |-> NoId]
  /\ got = [c \in Clients |-> NoId]
  /\ sent = {}
  /\ runs = [id \in Ids |-> 0]

Call(c, id) ==
  /\ call[c] = NoId
  /\ call' = [call EXCEPT ![c] = id]
  /\ got' = [got EXCEPT ![c] = NoId]
  /\ sent' = sent \cup {id}
  /\ UNCHANGED runs

Run(id) ==
  /\ id \in sent /\ runs[id] = 0
  /\ runs' = [runs EXCEPT ![id] = 1]
  /\ sent' = sent \ {id}
  /\ UNCHANGED <<call, got>>

(* A request is dropped with its connection, or answered from the cache.   *)
Drop(id) == id \in sent /\ sent' = sent \ {id} /\ UNCHANGED <<call, got, runs>>

Return(c) ==
  /\ call[c] # NoId /\ runs[call[c]] = 1
  /\ call' = [call EXCEPT ![c] = NoId]
  /\ got' = [got EXCEPT ![c] = call[c]]
  /\ UNCHANGED <<sent, runs>>

(* The client closes, reconnects or makes a call the pipe cannot read.     *)
Forget(c) == got' = [got EXCEPT ![c] = NoId] /\ UNCHANGED <<call, sent, runs>>

(* The client gives up, crashes or loses its connection.                   *)
Fail(c) ==
  /\ call[c] # NoId
  /\ call' = [call EXCEPT ![c] = NoId]
  /\ got' = [got EXCEPT ![c] = NoId]
  /\ UNCHANGED <<sent, runs>>

(* A restarted server starts from an empty world.                          *)
Restart ==
  /\ runs' = [id \in Ids |-> 0]
  /\ sent' = {}
  /\ UNCHANGED <<call, got>>

Next ==
  \/ \E c \in Clients, id \in Ids : Call(c, id)
  \/ \E c \in Clients : Return(c) \/ Forget(c) \/ Fail(c)
  \/ \E id \in Ids : Run(id) \/ Drop(id)
  \/ Restart

Spec == Init /\ [][Next]_vars
=============================================================================

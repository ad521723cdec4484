------------------------------- MODULE UiLoop -------------------------------
(***************************************************************************)
(* The message loop of the UI thread, on which the workbench, the timers   *)
(* and every line of the debug agent run: MessageLoop, RunLoop and the     *)
(* pump of Windows (src/base/message_loop.cc, run_loop.cc,                 *)
(* message_pump_win.cc).                                                   *)
(*                                                                         *)
(* Any thread posts tasks. The UI thread runs them between window          *)
(* messages, and sleeps when there is neither. A task or the handler of a  *)
(* message may open a loop of its own: a nested RunLoop (a menu) or a      *)
(* native modal loop (a dragged title bar, a message box), which knows     *)
(* nothing of tasks: there the pump lives on the message kMsgHaveWork.     *)
(*                                                                         *)
(* stack holds the loops that are open on the UI thread, innermost last. A *)
(* task or handler that opens no loop is one step. pc is where a thread is *)
(* in PostDelayedTask and ScheduleWork.                                    *)
(***************************************************************************)
EXTENDS Integers, Sequences, FiniteSets

CONSTANTS Posters,      \* the other threads that post tasks
          UI,           \* the UI thread
          Kinds,        \* the tasks each thread posts: their delay and nestable flag
          PostLimit,    \* bound on the tasks of a behaviour
          TimeLimit,    \* bound on the clock
          QueueLimit,   \* room in the window message queue
          DepthLimit    \* bound on the loops open at once

ASSUME UiAssumption == UI \notin Posters
ASSUME PosterAssumption == IsFiniteSet(Posters)
ASSUME KindAssumption == \A t \in Posters \union {UI} :
                           Kinds[t] \subseteq [delay : Nat, nestable : BOOLEAN]
ASSUME LimitAssumption == /\ PostLimit \in Nat /\ TimeLimit \in Nat
                          /\ QueueLimit \in Nat \ {0} /\ DepthLimit \in Nat \ {0}

VARIABLES incoming, work, delayed, deferred,   \* the queues of MessageLoop
          next_sequence_num, nestable_allowed, recent_time, alive,
          have_work, delayed_work_time,        \* the pump
          queue, timer, now,                   \* Windows: messages, WM_TIMER, clock
          pc, stack,
          stamped       \* the task of a thread between the clock and the lock

taskvars == <<incoming, work, delayed, deferred, next_sequence_num, stamped>>
timevars == <<delayed_work_time, recent_time, timer>>
winvars  == <<have_work, queue>>
vars == <<taskvars, timevars, winvars, nestable_allowed, alive, now, pc, stack>>

Threads == Posters \union {UI}
Null    == 0        \* no time: TimeTicks()

\* PendingTask. A task without delay has no run time. The field after is history:
\* the tasks numbered below it were in the queue when the call that posted this
\* one read the clock.
Task  == [seq : 0..PostLimit, at : 0..TimeLimit, delay : Nat, nestable : BOOLEAN,
          after : 0..PostLimit]
Stamp == [at : 0..TimeLimit, delay : Nat, nestable : BOOLEAN, after : 0..PostLimit]
NoStamp == [at |-> Null, delay |-> 0, nestable |-> TRUE, after |-> 0]

Elems(s) == {s[i] : i \in DOMAIN s}

\* The tasks that are posted and neither run nor deleted.
Pending == Elems(incoming) \union Elems(work) \union delayed \union Elems(deferred)

\* A loop of the UI thread: where it is, more_work_is_plausible, should_quit,
\* quit_when_idle_received_, run_depth_, and the value nestable_tasks_allowed_
\* gets back when the loop is left.
Frame == [kind : {"run", "modal"},
          at : {"peek", "replace", "dispatch", "timer", "rearm", "work", "again",
                "delayed", "after", "idle", "idled", "wait"},
          more : BOOLEAN, quit : BOOLEAN, idle : BOOLEAN, depth : Nat, old : BOOLEAN]

NewLoop(kind, depth, old) ==
  [kind |-> kind, at |-> "peek", more |-> FALSE, quit |-> FALSE, idle |-> FALSE,
   depth |-> depth, old |-> old]

Init == /\ incoming = <<>> /\ work = <<>> /\ delayed = {} /\ deferred = <<>>
        /\ next_sequence_num = 0 /\ nestable_allowed = TRUE /\ alive = TRUE
        /\ have_work = FALSE /\ delayed_work_time = Null /\ recent_time = 0
        /\ queue = <<>> /\ timer = Null /\ now = 0
        /\ pc = [t \in Threads |-> "idle"]
        /\ stack = <<NewLoop("run", 1, TRUE)>>
        /\ stamped = [t \in Threads |-> NoStamp]

Top     == stack[Len(stack)]
Goto(f) == stack' = [stack EXCEPT ![Len(stack)] = f]

\* The innermost RunLoop among the loops of s: run_loop_.
Innermost(s) == CHOOSE i \in DOMAIN s :
                  /\ s[i].kind = "run"
                  /\ \A j \in i + 1..Len(s) : s[j].kind # "run"
RunDepth == stack[Innermost(stack)].depth

-----------------------------------------------------------------------------
(* Posting: the run time is read from the clock before the lock, the number   *)
(* is given under it, and ScheduleWork comes after it.                        *)

\* CalculateDelayedRuntime.
StampOf(k) ==
  [delay |-> k.delay, nestable |-> k.nestable, after |-> next_sequence_num,
   at |-> IF k.delay > 0 THEN now + k.delay ELSE Null]

\* Only the task that finds the queue empty wakes the pump.
AddToIncomingQueue(t, s) ==
  /\ incoming' = Append(incoming,
                   [seq |-> next_sequence_num, delay |-> s.delay, nestable |-> s.nestable,
                    at |-> s.at, after |-> s.after])
  /\ next_sequence_num' = next_sequence_num + 1
  /\ pc' = [pc EXCEPT ![t] = IF incoming = <<>> THEN "wake" ELSE "idle"]

Locking == {t \in Threads : pc[t] = "lock"}

\* A task without delay needs no clock, so its post is one step; the other ones
\* read the clock, and other threads may post before they have the lock.
Post(t, k) ==
  /\ next_sequence_num + Cardinality(Locking) < PostLimit
  /\ now + k.delay <= TimeLimit
  /\ \/ k.delay = 0 /\ AddToIncomingQueue(t, StampOf(k)) /\ UNCHANGED stamped
     \/ /\ k.delay > 0
        /\ stamped' = [stamped EXCEPT ![t] = StampOf(k)]
        /\ pc' = [pc EXCEPT ![t] = "lock"]
        /\ UNCHANGED <<incoming, next_sequence_num>>

PostTask(p, k) ==
  /\ alive /\ pc[p] = "idle"
  /\ Post(p, k)
  /\ UNCHANGED <<work, delayed, deferred, timevars, winvars, nestable_allowed, alive, now, stack>>

\* The lock is taken.
Enqueue(t) ==
  /\ pc[t] = "lock"
  /\ AddToIncomingQueue(t, stamped[t])
  /\ stamped' = [stamped EXCEPT ![t] = NoStamp]
  /\ UNCHANGED <<work, delayed, deferred, timevars, winvars, nestable_allowed, alive, now, stack>>

\* Mutant: the old value of the flag is not looked at.
ExchangeBlindly(t) ==
  /\ pc[t] = "wake"
  /\ have_work' = TRUE
  /\ pc' = [pc EXCEPT ![t] = "post"]
  /\ UNCHANGED <<taskvars, timevars, queue, nestable_allowed, alive, now, stack>>

\* InterlockedExchange(&have_work_, 1).
Exchange(t) ==
  /\ pc[t] = "wake"
  /\ have_work' = TRUE
  /\ pc' = [pc EXCEPT ![t] = IF have_work THEN "idle" ELSE "post"]
  /\ UNCHANGED <<taskvars, timevars, queue, nestable_allowed, alive, now, stack>>

\* PostMessage(kMsgHaveWork); it fails when the window message queue is full.
PostHaveWork(t) ==
  /\ pc[t] = "post"
  /\ \/ /\ Len(queue) < QueueLimit
        /\ queue' = Append(queue, "work")
        /\ pc' = [pc EXCEPT ![t] = "idle"]
     \/ /\ Len(queue) >= QueueLimit
        /\ pc' = [pc EXCEPT ![t] = "fail"]
        /\ UNCHANGED queue
  /\ UNCHANGED <<taskvars, timevars, have_work, nestable_allowed, alive, now, stack>>

\* Mutant: the claim on a message that was never posted is kept.
ClearHaveWorkNever(t) ==
  /\ pc[t] = "fail"
  /\ pc' = [pc EXCEPT ![t] = "idle"]
  /\ UNCHANGED <<taskvars, timevars, winvars, nestable_allowed, alive, now, stack>>

\* "Clarify that we didn't really insert."
ClearHaveWork(t) ==
  /\ pc[t] = "fail"
  /\ have_work' = FALSE
  /\ pc' = [pc EXCEPT ![t] = "idle"]
  /\ UNCHANGED <<taskvars, timevars, queue, nestable_allowed, alive, now, stack>>

ScheduleWork(t) == Exchange(t) \/ PostHaveWork(t) \/ ClearHaveWork(t)

\* The UI thread calls it: it goes no further until the call is done.
WakeSelf == pc' = [pc EXCEPT ![UI] = "wake"]

-----------------------------------------------------------------------------
(* What a task, or the handler of a window message, may do to the loop before *)
(* it returns to frame f of the loop that called it.                          *)

Back(f) == [stack EXCEPT ![Len(stack)] = f]

Returns(f) == Goto(f) /\ UNCHANGED <<incoming, next_sequence_num, stamped, nestable_allowed, pc>>

Posts(f) == /\ \E k \in Kinds[UI] : Post(UI, k)
            /\ Goto(f)
            /\ UNCHANGED nestable_allowed

\* MessageLoop::Quit: the innermost RunLoop ends when it is idle.
QuitWhenIdle(f) ==
  /\ stack' = [Back(f) EXCEPT ![Innermost(stack)].idle = TRUE]
  /\ UNCHANGED <<incoming, next_sequence_num, stamped, nestable_allowed, pc>>

\* MessageLoop::QuitNow, or a dispatcher that refuses the message: the RunLoop
\* of the innermost menu ends at once.
QuitNow(f) ==
  /\ RunDepth > 1
  /\ stack' = [Back(f) EXCEPT ![Innermost(stack)].quit = TRUE]
  /\ UNCHANGED <<incoming, next_sequence_num, stamped, nestable_allowed, pc>>

\* A native modal loop. Opened by a task, it runs no other task.
OpensModal(f, in_task) ==
  /\ Len(stack) < DepthLimit
  /\ stack' = Append(Back(f), NewLoop("modal", RunDepth, nestable_allowed))
  /\ nestable_allowed' = (nestable_allowed /\ ~in_task)
  /\ UNCHANGED <<incoming, next_sequence_num, stamped, pc>>

\* RunLoop::Run under a ScopedNestableTaskAllower, which wakes the pump if
\* tasks were not allowed.
OpensRun(f, in_task) ==
  /\ Len(stack) < DepthLimit
  /\ stack' = Append(Back(f), NewLoop("run", RunDepth + 1, nestable_allowed))
  /\ nestable_allowed' = TRUE
  /\ IF in_task \/ ~nestable_allowed THEN WakeSelf ELSE UNCHANGED pc
  /\ UNCHANGED <<incoming, next_sequence_num, stamped>>

Code(f, in_task) ==
  \/ Returns(f)
  \/ Posts(f)
  \/ QuitWhenIdle(f)
  \/ QuitNow(f)
  \/ OpensModal(f, in_task)
  \/ OpensRun(f, in_task)

-----------------------------------------------------------------------------
(* Tasks. Frame ran is the one to go on with once a task has run, frame none  *)
(* the one to go on with when there was none to run.                          *)

\* DeferOrRunPendingTask, on a task that was just taken from its queue.
Runnable(t) == t.nestable \/ RunDepth = 1

\* Mutant: the queue is reloaded while there is still work in it.
ReloadWorkQueueEarly ==
  /\ incoming # <<>>
  /\ work' = incoming \o work
  /\ incoming' = <<>>
  /\ UNCHANGED <<delayed, deferred, next_sequence_num, stamped, timevars, nestable_allowed, pc, stack>>

ReloadWorkQueue ==
  /\ work = <<>> /\ incoming # <<>>
  /\ work' = incoming
  /\ incoming' = <<>>
  /\ UNCHANGED <<delayed, deferred, next_sequence_num, stamped, timevars, nestable_allowed, pc, stack>>

Earlier(t, u) == t.at < u.at \/ (t.at = u.at /\ t.seq <= u.seq)
First(S) == CHOOSE t \in S : \A u \in S : Earlier(t, u)

\* AddToDelayedWorkQueue; the timer is set for a task that comes first, or that
\* was posted with the same closure as the one that does (Callback::Equals).
MoveToDelayed ==
  LET t == Head(work) IN
  /\ t.at # Null
  /\ work' = Tail(work)
  /\ delayed' = delayed \union {t}
  /\ \/ delayed_work_time' = t.at /\ timer' = t.at
     \/ First(delayed') # t /\ UNCHANGED <<delayed_work_time, timer>>
  /\ UNCHANGED <<incoming, deferred, next_sequence_num, stamped, recent_time, nestable_allowed, pc, stack>>

Defer ==
  /\ Head(work).at = Null /\ ~Runnable(Head(work))
  /\ work' = Tail(work)
  /\ deferred' = Append(deferred, Head(work))
  /\ UNCHANGED <<incoming, delayed, next_sequence_num, stamped, timevars, nestable_allowed, pc, stack>>

RunFirst(ran) ==
  /\ Head(work).at = Null /\ Runnable(Head(work))
  /\ work' = Tail(work)
  /\ Code(ran, TRUE)
  /\ UNCHANGED <<delayed, deferred, timevars>>

\* Every round of its loop is a step: another thread may post in between.
DoWork(ran, none) ==
  \/ /\ ~nestable_allowed \/ (work = <<>> /\ incoming = <<>>)
     /\ Goto(none)
     /\ UNCHANGED <<taskvars, timevars, nestable_allowed, pc>>
  \/ nestable_allowed /\ ReloadWorkQueue
  \/ /\ nestable_allowed /\ work # <<>>
     /\ MoveToDelayed \/ Defer \/ RunFirst(ran)

\* Nothing to run, or nothing that may run: the wake-up time is forgotten.
NoDelayedWork(none) ==
  /\ ~nestable_allowed \/ delayed = {}
  /\ delayed_work_time' = Null
  /\ recent_time' = Null
  /\ Goto(none)
  /\ UNCHANGED <<taskvars, timer, nestable_allowed, pc>>

\* The clock is read again only if the last reading is not late enough.
Reading(t) == IF t.at > recent_time THEN now ELSE recent_time

NotYet(none) ==
  LET t == First(delayed) IN
  /\ nestable_allowed /\ delayed # {}
  /\ t.at > Reading(t)
  /\ recent_time' = Reading(t)
  /\ delayed_work_time' = t.at
  /\ Goto(none)
  /\ UNCHANGED <<taskvars, timer, nestable_allowed, pc>>

\* The time of the last task is left standing when it is taken.
RunDelayed(ran, none) ==
  LET t == First(delayed) IN
  /\ nestable_allowed /\ delayed # {}
  /\ t.at <= Reading(t)
  /\ recent_time' = Reading(t)
  /\ delayed' = delayed \ {t}
  /\ delayed_work_time' = IF delayed' = {} THEN delayed_work_time ELSE First(delayed').at
  /\ \/ Runnable(t) /\ Code(ran, TRUE) /\ UNCHANGED deferred
     \/ /\ ~Runnable(t)
        /\ deferred' = Append(deferred, t)
        /\ Goto(none)
        /\ UNCHANGED <<incoming, next_sequence_num, stamped, nestable_allowed, pc>>
  /\ UNCHANGED <<work, timer>>

DoDelayedWork(ran, none) == NoDelayedWork(none) \/ NotYet(none) \/ RunDelayed(ran, none)

-----------------------------------------------------------------------------
(* The pump. A frame of kind "modal" is Windows' own loop: it dispatches what *)
(* is in the message queue, and tasks run in it only by HandleWorkMessage and *)
(* HandleTimerMessage.                                                        *)

Free == stack # <<>> /\ pc[UI] = "idle"
At(l) == Free /\ Top.at = l
InRun(l) == At(l) /\ Top.kind = "run"      \* a step of DoRunLoop
Here(l) == [Top EXCEPT !.at = l]

\* WM_TIMER is delivered when no posted message waits.
TimerReady == queue = <<>> /\ timer # Null /\ timer <= now

\* Where a loop goes on after a message: a RunLoop to DoWork, a modal loop to
\* its next message unless the message stood in for kMsgHaveWork.
AfterMessage == IF Top.kind = "run" THEN [Here("work") EXCEPT !.more = TRUE]
                ELSE Here(IF Top.at = "dispatch" \/ Top.more THEN "work" ELSE "peek")

\* ProcessNextWindowsMessage, and the GetMessage of a modal loop.
PeekNothing ==
  /\ InRun("peek")
  /\ queue = <<>> /\ ~TimerReady
  /\ Goto([Here("work") EXCEPT !.more = FALSE])
  /\ UNCHANGED <<taskvars, timevars, winvars, nestable_allowed, pc>>

PeekInput ==
  /\ At("peek")
  /\ queue # <<>> /\ Head(queue) = "input"
  /\ queue' = Tail(queue)
  /\ Code(AfterMessage, FALSE)
  /\ UNCHANGED <<work, delayed, deferred, timevars, have_work>>

PeekHaveWork ==
  /\ At("peek")
  /\ queue # <<>> /\ Head(queue) = "work"
  /\ queue' = Tail(queue)
  /\ Goto(Here("replace"))
  /\ UNCHANGED <<taskvars, timevars, have_work, nestable_allowed, pc>>

PeekTimer ==
  /\ At("peek") /\ TimerReady
  /\ timer' = Null            \* KillTimer of HandleTimerMessage
  /\ Goto(Here("timer"))
  /\ UNCHANGED <<taskvars, delayed_work_time, recent_time, winvars, nestable_allowed, pc>>

\* ProcessPumpReplacementMessage: the message that stands in for kMsgHaveWork
\* is taken before the flag is cleared, and dispatched after ScheduleWork.
Replace ==
  /\ At("replace")
  /\ have_work' = FALSE
  /\ \/ /\ queue = <<>> /\ ~TimerReady
        /\ Goto([Here("work") EXCEPT !.more = FALSE])
        /\ UNCHANGED <<queue, timer, pc>>
     \/ /\ queue # <<>>
        /\ queue' = Tail(queue)
        /\ Goto(Here("dispatch"))
        /\ WakeSelf
        /\ UNCHANGED timer
     \/ /\ TimerReady
        /\ timer' = Null
        /\ Goto([Here("timer") EXCEPT !.more = TRUE])
        /\ WakeSelf
        /\ UNCHANGED queue
  /\ UNCHANGED <<taskvars, delayed_work_time, recent_time, nestable_allowed>>

Dispatch ==
  /\ At("dispatch")
  /\ Code(AfterMessage, FALSE)
  /\ UNCHANGED <<work, delayed, deferred, timevars, winvars>>

HandleTimerMessage ==
  /\ At("timer")
  /\ DoDelayedWork(Here("rearm"), Here("rearm"))
  /\ UNCHANGED winvars

Rearm ==
  /\ At("rearm")
  /\ timer' = IF delayed_work_time # Null THEN delayed_work_time ELSE timer
  /\ Goto(AfterMessage)
  /\ UNCHANGED <<taskvars, delayed_work_time, recent_time, winvars, nestable_allowed, pc>>

\* Mutant: tasks stay as they were inside the loop.
LeaveAsIs ==
  /\ stack' = SubSeq(stack, 1, Len(stack) - 1)
  /\ UNCHANGED <<taskvars, delayed_work_time, recent_time, nestable_allowed, pc>>

\* AfterRun, and the end of a modal loop.
Leave ==
  /\ stack' = SubSeq(stack, 1, Len(stack) - 1)
  /\ nestable_allowed' = Top.old
  /\ UNCHANGED <<taskvars, delayed_work_time, recent_time, pc>>

RunWork ==
  /\ At("work")
  /\ \/ Top.kind = "run" /\ Top.quit /\ Leave /\ UNCHANGED timer
     \/ /\ Top.kind = "run" /\ ~Top.quit
        /\ DoWork([Here("delayed") EXCEPT !.more = TRUE], Here("delayed"))
     \/ /\ Top.kind = "modal"
        /\ DoWork(Here("again"), [Here("peek") EXCEPT !.more = FALSE])
  /\ UNCHANGED winvars

\* HandleWorkMessage asks for another time slice after a task.
Again ==
  /\ At("again")
  /\ WakeSelf
  /\ Goto([Here("peek") EXCEPT !.more = FALSE])
  /\ UNCHANGED <<taskvars, timevars, winvars, nestable_allowed>>

RunDelayedWork ==
  /\ InRun("delayed")
  /\ \/ Top.quit /\ Leave /\ UNCHANGED timer
     \/ ~Top.quit /\ DoDelayedWork([Here("after") EXCEPT !.more = TRUE], Here("after"))
  /\ UNCHANGED winvars

After ==
  /\ InRun("after")
  /\ timer' = IF Top.more /\ delayed_work_time = Null THEN Null ELSE timer
  /\ \/ Top.quit /\ Leave
     \/ /\ ~Top.quit
        /\ Goto(IF Top.more THEN [Here("peek") EXCEPT !.more = FALSE] ELSE Here("idle"))
        /\ UNCHANGED <<taskvars, delayed_work_time, recent_time, nestable_allowed, pc>>
  /\ UNCHANGED winvars

\* Mutant: the tasks a menu put off are forgotten.
IdleForgetsDeferred ==
  /\ InRun("idle")
  /\ \/ Top.idle /\ Leave /\ UNCHANGED timer
     \/ /\ ~Top.idle
        /\ Goto(Here("wait"))
        /\ UNCHANGED <<taskvars, timevars, nestable_allowed, pc>>
  /\ UNCHANGED winvars

\* Mutant: the idle loop does not look at the request to quit.
IdleForgetsQuit ==
  /\ InRun("idle")
  /\ \/ /\ Top.depth = 1 /\ deferred # <<>>
        /\ deferred' = Tail(deferred)
        /\ Code(Here("idled"), TRUE)
        /\ UNCHANGED <<work, delayed, timevars>>
     \/ /\ Top.depth # 1 \/ deferred = <<>>
        /\ Goto(Here("wait"))
        /\ UNCHANGED <<taskvars, timevars, nestable_allowed, pc>>
  /\ UNCHANGED winvars

\* DoIdleWork: a task that waited for the outermost loop, else the quit.
Idle ==
  /\ InRun("idle")
  /\ \/ /\ Top.depth = 1 /\ deferred # <<>>
        /\ deferred' = Tail(deferred)
        /\ Code(Here("idled"), TRUE)
        /\ UNCHANGED <<work, delayed, timevars>>
     \/ /\ Top.depth # 1 \/ deferred = <<>>
        /\ \/ Top.idle /\ Leave /\ UNCHANGED timer
           \/ /\ ~Top.idle
              /\ Goto(Here("wait"))
              /\ UNCHANGED <<taskvars, timevars, nestable_allowed, pc>>
  /\ UNCHANGED winvars

Idled ==
  /\ InRun("idled")
  /\ \/ Top.quit /\ Leave /\ UNCHANGED timer
     \/ ~Top.quit /\ Goto(Here("peek"))
        /\ UNCHANGED <<taskvars, timevars, nestable_allowed, pc>>
  /\ UNCHANGED winvars

\* WaitForWork sleeps until a message comes or delayed work is due.
Awake == \/ queue # <<>> \/ TimerReady
         \/ delayed_work_time # Null /\ delayed_work_time <= now

WaitForWork ==
  /\ InRun("wait") /\ Awake
  /\ Goto(Here("peek"))
  /\ UNCHANGED <<taskvars, timevars, winvars, nestable_allowed, pc>>

\* The user drops the title bar, or closes the box.
EndModal ==
  /\ At("peek") /\ Top.kind = "modal"
  /\ Leave
  /\ UNCHANGED <<timer, winvars, alive, now>>

Pump == /\ \/ PeekNothing \/ PeekInput \/ PeekHaveWork \/ PeekTimer
           \/ Replace \/ Dispatch \/ HandleTimerMessage \/ Rearm
           \/ RunWork \/ Again \/ RunDelayedWork \/ After
           \/ Idle \/ Idled \/ WaitForWork
        /\ UNCHANGED <<alive, now>>

\* ~MessageLoop, once Run has returned: what is left is deleted, not run. The
\* proxy's lock keeps it from a thread that is still posting.
Destroy ==
  /\ stack = <<>> /\ alive
  /\ \A t \in Threads : pc[t] = "idle"
  /\ alive' = FALSE
  /\ incoming' = <<>> /\ work' = <<>> /\ delayed' = {} /\ deferred' = <<>>
  /\ UNCHANGED <<next_sequence_num, stamped, timevars, winvars, nestable_allowed, now, pc, stack>>

\* The environment: input arrives, time passes. A bound: time passes only while a
\* task waits for it, or a thread that has read the clock is about to post one;
\* all other times the loop keeps are of the past then.
Input == /\ Len(queue) < QueueLimit
         /\ queue' = Append(queue, "input")
         /\ UNCHANGED <<taskvars, timevars, have_work, nestable_allowed, alive, now, pc, stack>>

Tick == /\ now < TimeLimit
        /\ Locking # {} \/ \E t \in Pending : t.at > now
        /\ now' = now + 1
        /\ UNCHANGED <<taskvars, timevars, winvars, nestable_allowed, alive, pc, stack>>

Next == \/ \E p \in Posters : \E k \in Kinds[p] : PostTask(p, k)
        \/ \E t \in Threads : Enqueue(t) \/ ScheduleWork(t)
        \/ Pump
        \/ EndModal
        \/ Destroy \/ Input \/ Tick

Fairness == /\ \A t \in Threads : WF_vars(Enqueue(t) \/ ScheduleWork(t))
            /\ WF_vars(Pump) /\ WF_vars(Destroy) /\ WF_vars(Tick)

Spec == Init /\ [][Next]_vars /\ Fairness

-----------------------------------------------------------------------------
(* Properties *)

\* Every variable has its type, and tasks run only where they may: outside the
\* loops of a task that allows no other, they are always allowed.
TypeOK ==
  /\ incoming \in Seq(Task) /\ work \in Seq(Task) /\ deferred \in Seq(Task)
  /\ delayed \subseteq Task
  /\ next_sequence_num \in 0..PostLimit
  /\ nestable_allowed \in BOOLEAN /\ alive \in BOOLEAN /\ have_work \in BOOLEAN
  /\ delayed_work_time \in 0..TimeLimit /\ recent_time \in 0..TimeLimit
  /\ timer \in 0..TimeLimit /\ now \in 0..TimeLimit
  /\ queue \in Seq({"work", "input"}) /\ Len(queue) <= QueueLimit
  /\ pc \in [Threads -> {"idle", "lock", "wake", "post", "fail"}]
  /\ stamped \in [Threads -> Stamp]
  /\ stack \in Seq(Frame)
  /\ Len(stack) = 1 => nestable_allowed

HaveWorkMessages == {i \in DOMAIN queue : queue[i] = "work"}
Waking == {t \in Threads : pc[t] \in {"post", "fail"}}

\* "At most one kMsgHaveWork message is EVER pending" (message_pump_win.h): the
\* flag stands for that message, for the one thread about to post it or to take
\* the claim back, or for the replacement in progress. So the message peeked in
\* its place is never another one, and the flag is set when it is cleared, as
\* the two DCHECKs of ProcessPumpReplacementMessage say.
OnePumpMessage ==
  /\ \A i, j \in HaveWorkMessages : i = j
  /\ \A t, u \in Waking : t = u
  /\ HaveWorkMessages # {} => have_work /\ Waking = {}
  /\ stack # <<>> /\ Top.at = "replace" =>
       have_work /\ HaveWorkMessages = {} /\ Waking = {}

Scheduling == \E t \in Threads : pc[t] \in {"wake", "post", "fail"}

\* The innermost loop has looked through the queues for something to run, and
\* goes to sleep unless it meets a message or a task first.
Looked == /\ stack # <<>> /\ nestable_allowed
          /\ Top.at \in {"idle", "wait"} \/ (Top.at \in {"delayed", "after"} /\ ~Top.more)

\* It will look again when it has to: every task posted since has a message in
\* the queue or a thread on the way to it, and the sleep ends when the first
\* delayed task is due.
WillWake ==
  Looked => /\ work = <<>>
            /\ incoming # <<>> => Scheduling \/ queue # <<>>
            /\ delayed # {} /\ Top.at # "delayed" =>
                 delayed_work_time # Null /\ delayed_work_time <= First(delayed).at

\* A native modal loop sleeps in GetMessage, or will once the timer's task is
\* done, and of all messages only kMsgHaveWork makes it run posted tasks.
ModalSleeps == /\ stack # <<>> /\ Top.kind = "modal" /\ nestable_allowed
               /\ Top.at = "peek" \/ (Top.at \in {"timer", "rearm"} /\ ~Top.more)

WillCall == ModalSleeps /\ (work # <<>> \/ incoming # <<>>) =>
              Scheduling \/ HaveWorkMessages # {}

\* A thread takes back its claim on have_work_.
TakenBack == \E t \in Threads : pc[t] = "fail" /\ pc'[t] = "idle"

\* A RunLoop goes to sleep on work it could do in one way only: a thread found
\* the window message queue full, and takes back its claim on have_work_ after
\* another thread has relied on it. A native modal loop does so in that way, and
\* when it is opened, or returned to from a loop inside it, while tasks wait
\* that an earlier wake-up brought to the work queue; nothing else that
\* happens in it, or in another thread, leaves a posted task without a
\* kMsgHaveWork that is in the queue or on its way.
NoLostWakeup ==
  [][/\ WillWake => WillWake' \/ TakenBack
     /\ WillCall => WillCall' \/ TakenBack \/ Len(stack') # Len(stack)]_vars

Started == {t \in Pending : alive' /\ t \notin Pending'}

\* Task u was posted before the post of t began, or, since a task without delay
\* needs no clock, before t got its number; and it has no more delay.
Precedes(u, t) == /\ u.seq < t.after \/ (u.delay = 0 /\ u.seq < t.seq)
                  /\ u.delay <= t.delay

\* SequencedTaskRunner's order: no task starts before one that was posted before
\* it, with no more delay, and that may run in any loop. Nor does it start before
\* its time, whatever reading of the clock the loop goes by. Of two threads that
\* post at the same time, each with a delay, the one that gets the later number
\* may have read the clock first: nothing is said of these two.
StartsInOrder ==
  [][\A t \in Started :
       /\ now >= t.at
       /\ \A u \in Pending : u.nestable /\ Precedes(u, t) => u \in Started]_vars

Waits(n)  == \E t \in Pending : t.seq = n
PutOff(n) == \E t \in Elems(deferred) : t.seq = n

Alone == <>[](Len(stack) <= 1)
Quiet == <>[]("input" \notin Elems(queue))

\* Once the last menu or dialog is closed, every posted task is run, or deleted
\* with the loop, unless its wake-up was lost on a full message queue and nothing
\* else ever wakes the loop. A task put off by a menu waits for the loop to be
\* idle, so for the user to pause.
TasksSettle ==
  Alone /\ []<>WillWake =>
    \A n \in 0..PostLimit - 1 : /\ Waits(n) ~> ~Waits(n) \/ PutOff(n)
                                /\ Quiet => (Waits(n) ~> ~Waits(n))

\* Asked to quit when idle, also while other loops ran inside it, the loop ends
\* once they are closed and the user pauses.
QuitReturns == Alone /\ Quiet => ((stack # <<>> /\ stack[1].idle) ~> stack = <<>>)
=============================================================================

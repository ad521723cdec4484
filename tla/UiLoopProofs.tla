---------------------------- MODULE UiLoopProofs ----------------------------
(***************************************************************************)
(* Proofs about UiLoop, for any posters, kinds of task and bounds. The     *)
(* inductive invariant Inv has four parts, each about one mechanism:       *)
(* StackInv, the loops that are open; PumpInv, what have_work stands for;  *)
(* Order, where the tasks are, by their order and their time; Types.       *)
(***************************************************************************)
EXTENDS UiLoop, SequenceTheorems, FiniteSetTheorems, WellFoundedInduction, TLAPS

\* A loop that waits for a task or a handler to return does something before
\* it may sleep.
Parked(f) == \/ f.at \in {"peek", "work", "again", "rearm", "idled"}
             \/ f.at \in {"delayed", "after"} /\ f.more

\* s holds the loops that are open, allowed is nestable_tasks_allowed_.
StackInv(s, allowed) ==
  /\ s \in Seq(Frame)
  /\ \A n \in 1..Len(s) : \E i \in 1..n : /\ s[i].kind = "run"
                                          /\ \A j \in i + 1..n : s[j].kind # "run"
  /\ \A n \in 1..Len(s) - 1 : Parked(s[n])
  /\ Len(s) > 0 => s[1].old
  /\ Len(s) > 1 => s[2].old
  /\ Len(s) < 2 => allowed
  /\ allowed \in BOOLEAN

Replacing == stack # <<>> /\ Top.at = "replace"

\* have_work stands for one of three things: a message in the queue, a thread
\* about to post one, or the replacement in progress.
PumpInv ==
  /\ \A i, j \in HaveWorkMessages : i = j
  /\ \A t, u \in Waking : t = u
  /\ HaveWorkMessages # {} => have_work /\ Waking = {}
  /\ Waking # {} => have_work
  /\ Replacing => have_work /\ HaveWorkMessages = {} /\ Waking = {}
  /\ have_work => HaveWorkMessages # {} \/ Waking # {} \/ Replacing

Sorted(s) == \A i, j \in DOMAIN s : i < j => s[i].seq < s[j].seq

Posted(t) == t.at - t.delay

\* A nestable task of Q was posted before t with no more delay.
Before(t, Q) == \E u \in Q : u.nestable /\ Precedes(u, t)

\* The run time of a task or of one about to be posted, and the clock.
Timed(t, clock) ==
  /\ t.at = Null => t.delay = 0
  /\ t.at # Null => t.delay > 0 /\ Posted(t) \in 0..clock

\* I, W, D and F are the tasks of incoming, work, delayed and deferred, S the
\* ones whose threads have read the clock and wait for the lock. The tasks of
\* incoming were posted after those of work, and these after the delayed ones; a
\* task that was in a queue when another one read the clock had read it no later;
\* and no task was put off that a task still waits for which had to run first.
SetOrder(I, W, D, F, S, next, clock) ==
  /\ \A t \in W, u \in I : t.seq < u.seq
  /\ \A t \in D, u \in I \union W : t.seq < u.seq
  /\ \A t \in I \union W \union D \union F : t.seq < next /\ t.after <= t.seq
  /\ \A t \in S : t.after <= next
  /\ \A t \in I \union W \union D \union F \union S : Timed(t, clock)
  /\ \A t \in D : t.at # Null
  /\ \A t \in I \union W \union D \union F, u \in I \union W \union D \union F \union S :
       t.at # Null /\ u.at # Null /\ t.seq < u.after => Posted(t) <= Posted(u)
  /\ \A t \in F : ~t.nestable /\ t.at <= clock /\ ~Before(t, I \union W \union D)

Order(inc, wrk, del, dfr, S, next, recent, clock) ==
  /\ Sorted(inc) /\ Sorted(wrk)
  /\ SetOrder(Elems(inc), Elems(wrk), del, Elems(dfr), S, next, clock)
  /\ recent <= clock

Stamps == {stamped[t] : t \in Threads}

\* PostLimit leaves room for the tasks about to be posted.
Room == next_sequence_num + Cardinality(Locking) <= PostLimit

Places == {"idle", "lock", "wake", "post", "fail"}

Types ==
  /\ incoming \in Seq(Task) /\ work \in Seq(Task) /\ deferred \in Seq(Task)
  /\ delayed \subseteq Task
  /\ next_sequence_num \in 0..PostLimit
  /\ alive \in BOOLEAN /\ have_work \in BOOLEAN
  /\ delayed_work_time \in 0..TimeLimit /\ recent_time \in 0..TimeLimit
  /\ timer \in 0..TimeLimit /\ now \in 0..TimeLimit
  /\ queue \in Seq({"work", "input"}) /\ Len(queue) <= QueueLimit
  /\ pc \in [Threads -> Places]
  /\ stamped \in [Threads -> Stamp]
  /\ Room

Inv == /\ Types
       /\ StackInv(stack, nestable_allowed)
       /\ PumpInv
       /\ Order(incoming, work, delayed, deferred, Stamps, next_sequence_num,
                recent_time, now)

-----------------------------------------------------------------------------
(* Sequences, and the least of a set of tasks. *)

\* The last element of a sequence is replaced.
LEMMA LastSet ==
  ASSUME NEW S, NEW s \in Seq(S), s # <<>>, NEW e \in S
  PROVE  /\ Len(s) \in 1..Len(s)
         /\ [s EXCEPT ![Len(s)] = e] \in Seq(S)
         /\ Len([s EXCEPT ![Len(s)] = e]) = Len(s)
         /\ [s EXCEPT ![Len(s)] = e][Len(s)] = e
         /\ \A i \in 1..Len(s) - 1 : [s EXCEPT ![Len(s)] = e][i] = s[i]
<1>1. Len(s) \in Nat \ {0}
  BY EmptySeq
<1>2. Len(s) \in 1..Len(s)
  BY <1>1
<1> QED BY <1>1, <1>2, ExceptSeq

LEMMA ElemsAppend ==
  ASSUME NEW S, NEW s \in Seq(S), NEW e \in S
  PROVE  Elems(Append(s, e)) = Elems(s) \union {e}
<1> DEFINE r == Append(s, e)
<1>1. /\ Len(s) \in Nat /\ DOMAIN s = 1..Len(s) /\ DOMAIN r = 1..Len(s) + 1
      /\ r[Len(s) + 1] = e /\ \A i \in 1..Len(s) : r[i] = s[i]
  BY LenProperties
<1> HIDE DEF r
<1>2. Elems(r) \subseteq Elems(s) \union {e}
  <2> SUFFICES ASSUME NEW i \in 1..Len(s) + 1 PROVE r[i] \in Elems(s) \union {e}
    BY <1>1 DEF Elems
  <2>1. CASE i = Len(s) + 1
    BY <2>1, <1>1
  <2>2. CASE i # Len(s) + 1
    <3>1. i \in DOMAIN s /\ r[i] = s[i]
      BY <2>2, <1>1
    <3> QED BY <3>1 DEF Elems
  <2> QED BY <2>1, <2>2
<1>3. e \in Elems(r)
  BY <1>1 DEF Elems
<1>4. Elems(s) \subseteq Elems(r)
  <2> SUFFICES ASSUME NEW i \in 1..Len(s) PROVE s[i] \in Elems(r)
    BY <1>1 DEF Elems
  <2>1. i \in DOMAIN r /\ r[i] = s[i]
    BY <1>1
  <2> QED BY <2>1 DEF Elems
<1> QED BY <1>2, <1>3, <1>4 DEF r

LEMMA ElemsTail ==
  ASSUME NEW S, NEW s \in Seq(S), s # <<>>
  PROVE  /\ Head(s) \in S /\ Tail(s) \in Seq(S)
         /\ Elems(s) = {Head(s)} \union Elems(Tail(s))
<1>1. /\ Head(s) \in S /\ Tail(s) \in Seq(S) /\ Len(Tail(s)) = Len(s) - 1
      /\ \A i \in 1..Len(Tail(s)) : Tail(s)[i] = s[i + 1]
  BY HeadTailProperties
<1>2. Len(s) \in Nat \ {0} /\ DOMAIN s = 1..Len(s) /\ DOMAIN Tail(s) = 1..Len(Tail(s))
  BY <1>1, EmptySeq, LenProperties
<1>3. Head(s) = s[1]
  BY <1>2
<1>4. ASSUME NEW x \in Elems(s) PROVE x \in {Head(s)} \union Elems(Tail(s))
  <2>1. PICK i \in 1..Len(s) : x = s[i]
    BY <1>2 DEF Elems
  <2>2. CASE i = 1
    BY <2>1, <2>2, <1>3
  <2>3. CASE i # 1
    <3>1. i - 1 \in 1..Len(Tail(s)) /\ Tail(s)[i - 1] = s[i - 1 + 1] /\ i - 1 + 1 = i
      BY <2>1, <2>3, <1>1, <1>2
    <3> QED BY <2>1, <3>1, <1>2 DEF Elems
  <2> QED BY <2>2, <2>3
<1>5. ASSUME NEW x \in {Head(s)} \union Elems(Tail(s)) PROVE x \in Elems(s)
  <2>1. CASE x = Head(s)
    BY <2>1, <1>2, <1>3 DEF Elems
  <2>2. CASE x \in Elems(Tail(s))
    <3>1. PICK i \in 1..Len(Tail(s)) : x = Tail(s)[i]
      BY <2>2, <1>2 DEF Elems
    <3>2. i + 1 \in DOMAIN s /\ x = s[i + 1]
      BY <3>1, <1>1, <1>2
    <3> QED BY <3>2 DEF Elems
  <2> QED BY <2>1, <2>2
<1> QED BY <1>1, <1>4, <1>5

\* The delayed work queue has a first task (the order of PendingTask).
LEMMA FirstIn ==
  ASSUME NEW S, S \subseteq Task, S # {}
  PROVE  First(S) \in S /\ \A u \in S : Earlier(First(S), u)
<1> DEFINE LT == {ss \in Nat \X Nat : ss[1] < ss[2]}
<1>a. IsWellFoundedOn(LT, Nat)
  BY NatLessThanWellFounded DEF OpToRel
<1>b. ASSUME NEW m \in Nat, NEW n \in Nat, ~(<<n, m>> \in LT) PROVE m <= n
  BY <1>b
<1> HIDE DEF LT
<1> DEFINE Ats == {t.at : t \in S}
<1>1. Ats \subseteq Nat /\ Ats # {}
  BY LimitAssumption DEF Task
<1>2. PICK a \in Ats : \A b \in Ats : ~(<<b, a>> \in LT)
  <2> HIDE DEF Ats
  <2> QED BY <1>1, <1>a, WFMin
<1>3. \A b \in Ats : a <= b
  BY <1>1, <1>2, <1>b
<1> DEFINE Seqs == {t.seq : t \in {u \in S : u.at = a}}
<1>4. Seqs \subseteq Nat /\ Seqs # {}
  <2>1. \A t \in S : t.seq \in Nat
    BY LimitAssumption DEF Task
  <2>2. PICK t \in S : t.at = a
    BY <1>2
  <2> QED BY <2>1, <2>2
<1>5. PICK m \in Seqs : \A n \in Seqs : ~(<<n, m>> \in LT)
  <2> HIDE DEF Seqs
  <2> QED BY <1>4, <1>a, WFMin
<1>6. \A n \in Seqs : m <= n
  BY <1>4, <1>5, <1>b
<1>7. PICK t \in S : t.at = a /\ t.seq = m
  BY <1>5
<1>8. ASSUME NEW u \in S PROVE Earlier(t, u)
  <2>1. u.at \in Ats /\ t.at <= u.at /\ t.at \in Nat /\ u.at \in Nat
    BY <1>1, <1>3, <1>7
  <2>2. CASE t.at = u.at
    <3>1. u.seq \in Seqs
      BY <2>2, <1>7
    <3> QED BY <2>2, <3>1, <1>6, <1>7 DEF Earlier
  <2>3. CASE t.at # u.at
    BY <2>1, <2>3 DEF Earlier
  <2> QED BY <2>2, <2>3
<1> QED BY <1>8 DEF First

-----------------------------------------------------------------------------
(* The loops that are open. *)

SameLoop(f, g) == f.kind = g.kind /\ f.depth = g.depth /\ f.old = g.old

\* Nothing is opened or closed, and those that wait go on waiting.
LEMMA StackLike ==
  ASSUME NEW s, NEW b, StackInv(s, b), NEW r \in Seq(Frame), Len(r) = Len(s),
         \A i \in 1..Len(s) : SameLoop(r[i], s[i]),
         \A i \in 1..Len(s) - 1 : Parked(r[i])
  PROVE  StackInv(r, b)
<1>1. Len(s) \in Nat
  BY DEF StackInv
<1>2. ASSUME NEW n \in 1..Len(r)
      PROVE  \E i \in 1..n : r[i].kind = "run" /\ \A j \in i + 1..n : r[j].kind # "run"
  <2>1. PICK i \in 1..n : s[i].kind = "run" /\ \A j \in i + 1..n : s[j].kind # "run"
    BY DEF StackInv
  <2>2. r[i].kind = "run"
    BY <2>1, <1>1 DEF SameLoop
  <2>3. \A j \in i + 1..n : r[j].kind # "run"
    BY <2>1, <1>1 DEF SameLoop
  <2> QED BY <2>2, <2>3
<1>3. Len(r) > 0 => r[1].old
  BY <1>1 DEF StackInv, SameLoop
<1>4. Len(r) > 1 => r[2].old
  BY <1>1 DEF StackInv, SameLoop
<1>5. Len(r) < 2 => b
  BY DEF StackInv
<1> QED BY <1>2, <1>3, <1>4, <1>5 DEF StackInv

\* The innermost loop goes on.
LEMMA StackGoto ==
  ASSUME NEW s, NEW b, StackInv(s, b), s # <<>>, NEW f \in Frame, SameLoop(f, s[Len(s)])
  PROVE  /\ StackInv([s EXCEPT ![Len(s)] = f], b)
         /\ Len([s EXCEPT ![Len(s)] = f]) = Len(s)
         /\ Len(s) \in Nat \ {0}
         /\ [s EXCEPT ![Len(s)] = f][Len(s)] = f
<1> DEFINE r == [s EXCEPT ![Len(s)] = f]
<1>1. s \in Seq(Frame) /\ Len(s) \in Nat \ {0}
  BY EmptySeq DEF StackInv
<1>2. r \in Seq(Frame) /\ Len(r) = Len(s) /\ r[Len(s)] = f
      /\ \A i \in 1..Len(s) - 1 : r[i] = s[i]
  BY <1>1, LastSet
<1> HIDE DEF r
<1>3. \A i \in 1..Len(s) : SameLoop(r[i], s[i])
  <2> TAKE i \in 1..Len(s)
  <2>1. CASE i = Len(s)
    BY <2>1, <1>2
  <2>2. CASE i # Len(s)
    <3>1. r[i] = s[i]
      BY <2>2, <1>1, <1>2
    <3> QED BY <3>1 DEF SameLoop
  <2> QED BY <2>1, <2>2
<1>4. \A i \in 1..Len(s) - 1 : Parked(r[i])
  BY <1>2 DEF StackInv
<1>5. StackInv(r, b)
  BY <1>2, <1>3, <1>4, StackLike
<1> QED BY <1>1, <1>2, <1>5 DEF r

\* run_loop_ is one of the loops that are open.
LEMMA InnermostIn ==
  ASSUME NEW s, NEW b, StackInv(s, b), s # <<>>
  PROVE  Innermost(s) \in 1..Len(s) /\ s[Innermost(s)] \in Frame
<1>1. s \in Seq(Frame) /\ Len(s) \in Nat \ {0} /\ DOMAIN s = 1..Len(s)
  BY EmptySeq, LenProperties DEF StackInv
<1>2. Len(s) \in 1..Len(s)
  BY <1>1
<1>3. \E i \in 1..Len(s) : s[i].kind = "run" /\ \A j \in i + 1..Len(s) : s[j].kind # "run"
  BY <1>2 DEF StackInv
<1>4. Innermost(s) \in 1..Len(s)
  BY <1>1, <1>3 DEF Innermost
<1> QED BY <1>1, <1>4, ElementOfSeq

\* A loop is asked to quit.
LEMMA StackFlag ==
  ASSUME NEW s, NEW b, StackInv(s, b), NEW i \in 1..Len(s), NEW e \in Frame,
         SameLoop(e, s[i]), e.at = s[i].at, e.more = s[i].more
  PROVE  /\ StackInv([s EXCEPT ![i] = e], b)
         /\ Len([s EXCEPT ![i] = e]) = Len(s)
         /\ \A j \in 1..Len(s) : Parked(s[j]) => Parked([s EXCEPT ![i] = e][j])
<1> DEFINE r == [s EXCEPT ![i] = e]
<1>1. s \in Seq(Frame)
  BY DEF StackInv
<1>2. r \in Seq(Frame) /\ Len(r) = Len(s) /\ \A j \in 1..Len(s) : r[j] = IF j = i THEN e ELSE s[j]
  BY <1>1, ExceptSeq
<1> HIDE DEF r
<1>3. \A j \in 1..Len(s) : SameLoop(r[j], s[j])
  BY <1>2 DEF SameLoop
<1>4. \A j \in 1..Len(s) : Parked(s[j]) => Parked(r[j])
  BY <1>2 DEF Parked
<1>5. \A j \in 1..Len(s) - 1 : Parked(r[j])
  <2> TAKE j \in 1..Len(s) - 1
  <2>1. Parked(s[j]) /\ j \in 1..Len(s)
    BY <1>1 DEF StackInv
  <2> QED BY <2>1, <1>4
<1>6. StackInv(r, b)
  BY <1>2, <1>3, <1>5, StackLike
<1> QED BY <1>2, <1>4, <1>6 DEF r

\* A loop is opened; the one below it waits.
LEMMA StackPush ==
  ASSUME NEW s, NEW b, StackInv(s, b), s # <<>>, Parked(s[Len(s)]),
         NEW kind \in {"run", "modal"}, NEW d \in Nat, NEW b2 \in BOOLEAN
  PROVE  /\ StackInv(Append(s, NewLoop(kind, d, b)), b2)
         /\ Len(Append(s, NewLoop(kind, d, b))) = Len(s) + 1
         /\ Append(s, NewLoop(kind, d, b))[Len(s) + 1].at = "peek"
<1> DEFINE f == NewLoop(kind, d, b)
           r == Append(s, f)
<1>0. b \in BOOLEAN
  BY DEF StackInv
<1>1. s \in Seq(Frame) /\ Len(s) \in Nat \ {0}
  BY EmptySeq DEF StackInv
<1>2. f \in Frame /\ f.kind = kind /\ f.old = b /\ f.at = "peek"
  BY <1>0 DEF NewLoop, Frame
<1> HIDE DEF f
<1>3. r \in Seq(Frame) /\ Len(r) = Len(s) + 1 /\ r[Len(s) + 1] = f
      /\ \A i \in 1..Len(s) : r[i] = s[i]
  BY <1>1, <1>2
<1> HIDE DEF r
<1>4. ASSUME NEW n \in 1..Len(r)
      PROVE  \E i \in 1..n : r[i].kind = "run" /\ \A j \in i + 1..n : r[j].kind # "run"
  <2>1. CASE n \in 1..Len(s)
    <3>1. PICK i \in 1..n : s[i].kind = "run" /\ \A j \in i + 1..n : s[j].kind # "run"
      BY <2>1 DEF StackInv
    <3>2. r[i].kind = "run"
      BY <3>1, <2>1, <1>1, <1>3
    <3>3. \A j \in i + 1..n : r[j].kind # "run"
      BY <3>1, <2>1, <1>1, <1>3
    <3> QED BY <3>2, <3>3
  <2>2. CASE n = Len(s) + 1 /\ kind = "run"
    <3>1. n \in 1..n /\ r[n].kind = "run" /\ \A j \in n + 1..n : r[j].kind # "run"
      BY <2>2, <1>1, <1>2, <1>3
    <3> QED BY <3>1
  <2>3. CASE n = Len(s) + 1 /\ kind # "run"
    <3>0. Len(s) \in 1..Len(s)
      BY <1>1
    <3>1. PICK i \in 1..Len(s) : s[i].kind = "run" /\ \A j \in i + 1..Len(s) : s[j].kind # "run"
      BY <3>0 DEF StackInv
    <3>2. i \in 1..n /\ r[i].kind = "run"
      BY <3>1, <2>3, <1>1, <1>3
    <3>3. ASSUME NEW j \in i + 1..n PROVE r[j].kind # "run"
      <4>1. CASE j = Len(s) + 1
        BY <4>1, <2>3, <1>2, <1>3
      <4>2. CASE j # Len(s) + 1
        <5>1. j \in i + 1..Len(s) /\ j \in 1..Len(s)
          BY <4>2, <2>3, <1>1, <3>1
        <5> QED BY <5>1, <3>1, <1>3
      <4> QED BY <4>1, <4>2
    <3> QED BY <3>2, <3>3
  <2> QED BY <2>1, <2>2, <2>3, <1>1, <1>3
<1>5. ASSUME NEW n \in 1..Len(r) - 1 PROVE Parked(r[n])
  <2>1. n \in 1..Len(s) /\ r[n] = s[n]
    BY <1>1, <1>3
  <2>2. CASE n = Len(s)
    BY <2>1, <2>2
  <2>3. CASE n # Len(s)
    <3>1. n \in 1..Len(s) - 1
      BY <2>1, <2>3, <1>1
    <3> QED BY <2>1, <3>1 DEF StackInv
  <2> QED BY <2>2, <2>3
<1>6. r[1].old
  <2>1. 1 \in 1..Len(s) /\ Len(s) > 0
    BY <1>1
  <2> QED BY <2>1, <1>3 DEF StackInv
<1>7. r[2].old
  <2>1. CASE Len(s) = 1
    <3>1. r[2] = f
      BY <2>1, <1>3
    <3>2. b
      BY <2>1 DEF StackInv
    <3> QED BY <3>1, <3>2, <1>2
  <2>2. CASE Len(s) # 1
    <3>0. Len(s) \in Nat /\ Len(s) # 0
      BY <1>1
    <3> DEFINE len == Len(s)
    <3>1. len > 1
      <4> HIDE DEF len
      <4>1. len \in Nat /\ len # 0 /\ len # 1
        BY <2>2, <3>0 DEF len
      <4> QED BY <4>1
    <3>2. 2 \in 1..Len(s)
      BY <3>0, <3>1
    <3>3. r[2] = s[2]
      BY <3>2, <1>3
    <3> QED BY <3>1, <3>3 DEF StackInv
  <2> QED BY <2>1, <2>2
<1>8. StackInv(r, b2)
  BY <1>1, <1>3, <1>4, <1>5, <1>6, <1>7 DEF StackInv
<1> QED BY <1>2, <1>3, <1>8 DEF r, f

\* The innermost loop is left, and the one below goes on.
LEMMA StackPop ==
  ASSUME NEW s, NEW b, StackInv(s, b), s # <<>>
  PROVE  /\ StackInv(SubSeq(s, 1, Len(s) - 1), s[Len(s)].old)
         /\ SubSeq(s, 1, Len(s) - 1) # <<>> =>
              Parked(SubSeq(s, 1, Len(s) - 1)[Len(SubSeq(s, 1, Len(s) - 1))])
<1> DEFINE r == SubSeq(s, 1, Len(s) - 1)
           old == s[Len(s)].old
<1>1. s \in Seq(Frame) /\ Len(s) \in Nat \ {0} /\ Len(s) \in 1..Len(s)
  BY EmptySeq DEF StackInv
<1>2. r \in Seq(Frame) /\ Len(r) = Len(s) - 1 /\ \A i \in 1..Len(s) - 1 : r[i] = s[i]
  BY <1>1
<1>3. old \in BOOLEAN
  <2>1. s[Len(s)] \in Frame
    BY <1>1, ElementOfSeq
  <2> QED BY <2>1 DEF Frame
<1> HIDE DEF r
<1>4. ASSUME NEW n \in 1..Len(r)
      PROVE  \E i \in 1..n : r[i].kind = "run" /\ \A j \in i + 1..n : r[j].kind # "run"
  <2>0. n \in 1..Len(s) /\ n <= Len(s) - 1
    BY <1>1, <1>2
  <2>1. PICK i \in 1..n : s[i].kind = "run" /\ \A j \in i + 1..n : s[j].kind # "run"
    BY <2>0 DEF StackInv
  <2>2. r[i].kind = "run"
    BY <2>0, <2>1, <1>1, <1>2
  <2>3. \A j \in i + 1..n : r[j].kind # "run"
    BY <2>0, <2>1, <1>1, <1>2
  <2> QED BY <2>2, <2>3
<1>5. \A n \in 1..Len(r) : Parked(r[n])
  BY <1>1, <1>2 DEF StackInv
<1>6. Len(r) > 0 => r[1].old
  BY <1>1, <1>2 DEF StackInv
<1>7. Len(r) > 1 => r[2].old
  BY <1>1, <1>2 DEF StackInv
<1>8. Len(r) < 2 => old
  <2>1. CASE Len(s) = 1
    BY <2>1 DEF StackInv
  <2>2. CASE Len(s) = 2
    BY <2>2 DEF StackInv
  <2> QED BY <2>1, <2>2, <1>1, <1>2
<1>9. \A n \in 1..Len(r) - 1 : Parked(r[n])
  BY <1>1, <1>2, <1>5
<1> HIDE DEF old
<1>10. StackInv(r, old)
  BY <1>2, <1>3, <1>4, <1>6, <1>7, <1>8, <1>9 DEF StackInv
<1>11. r # <<>> => Parked(r[Len(r)])
  BY <1>2, <1>5, EmptySeq
<1> QED BY <1>10, <1>11 DEF r, old

-----------------------------------------------------------------------------
(* What a step of the UI thread does to its loops. *)

Ats == {"peek", "replace", "dispatch", "timer", "rearm", "work", "again",
        "delayed", "after", "idle", "idled", "wait"}

\* The frame the innermost loop may go on with.
GoesOn(f) == f \in Frame /\ SameLoop(f, Top)

\* Only the message kMsgHaveWork leads to the replacement.
Plain(f) == GoesOn(f) /\ f.at # "replace"

Goes   == \E f : /\ GoesOn(f) /\ (f.at = "replace" => PeekHaveWork)
                /\ Goto(f) /\ UNCHANGED nestable_allowed
Calls  == \E f : \E b \in BOOLEAN : GoesOn(f) /\ Parked(f) /\ Code(f, b)
Closes == stack' = SubSeq(stack, 1, Len(stack) - 1) /\ nestable_allowed' = Top.old
Stays  == Top.at = "work" /\ UNCHANGED <<stack, nestable_allowed>>

LEMMA TopFrame ==
  ASSUME StackInv(stack, nestable_allowed), stack # <<>>
  PROVE  Top \in Frame /\ Len(stack) \in Nat \ {0} /\ Len(stack) \in 1..Len(stack)
<1>1. stack \in Seq(Frame) /\ Len(stack) \in Nat \ {0}
  BY EmptySeq DEF StackInv
<1>2. Len(stack) \in 1..Len(stack)
  BY <1>1
<1> QED BY <1>1, <1>2, ElementOfSeq DEF Top

LEMMA HereFrame ==
  ASSUME Top \in Frame, NEW l \in Ats
  PROVE  /\ GoesOn(Here(l)) /\ Here(l).at = l /\ Here(l).more = Top.more
         /\ Here(l).kind = Top.kind
BY DEF GoesOn, Here, Frame, SameLoop, Ats

LEMMA HereMore ==
  ASSUME Top \in Frame, NEW l \in Ats, NEW m \in BOOLEAN
  PROVE  LET f == [Here(l) EXCEPT !.more = m]
         IN GoesOn(f) /\ f.at = l /\ f.more = m /\ f.kind = Top.kind
BY DEF GoesOn, Here, Frame, SameLoop, Ats

LEMMA AfterFrame ==
  ASSUME Top \in Frame
  PROVE  GoesOn(AfterMessage) /\ Parked(AfterMessage) /\ AfterMessage.at \in {"peek", "work"}
<1>1. "work" \in Ats /\ "peek" \in Ats /\ TRUE \in BOOLEAN
  BY DEF Ats
<1>2. CASE Top.kind = "run"
  BY <1>1, <1>2, HereMore DEF AfterMessage, Parked
<1>3. CASE Top.kind # "run" /\ (Top.at = "dispatch" \/ Top.more)
  BY <1>1, <1>3, HereFrame DEF AfterMessage, Parked
<1>4. CASE Top.kind # "run" /\ ~(Top.at = "dispatch" \/ Top.more)
  BY <1>1, <1>4, HereFrame DEF AfterMessage, Parked
<1> QED BY <1>2, <1>3, <1>4

\* What a task or a handler does to the loops: whatever it opens, the innermost
\* loop has something to do before it may sleep.
LEMMA CodeStack ==
  ASSUME StackInv(stack, nestable_allowed), stack # <<>>, NEW f, GoesOn(f), Parked(f),
         NEW b \in BOOLEAN, Code(f, b)
  PROVE  StackInv(stack', nestable_allowed') /\ stack' # <<>> /\ Parked(Top')
<1> DEFINE B == Back(f)
<1>1. f \in Frame /\ SameLoop(f, stack[Len(stack)])
  BY DEF GoesOn, Top
<1>2. /\ StackInv(B, nestable_allowed) /\ Len(B) = Len(stack) /\ Len(stack) \in Nat \ {0}
      /\ B[Len(stack)] = f
  BY <1>1, StackGoto DEF Back
<1>3. B # <<>>
  BY <1>2, EmptySeq
<1>4. Innermost(stack) \in 1..Len(stack) /\ stack[Innermost(stack)] \in Frame
  BY InnermostIn
<1>5. B \in Seq(Frame) /\ B[Innermost(stack)] \in Frame
  BY <1>2, <1>4, ElementOfSeq DEF StackInv
<1> DEFINE i == Innermost(stack)
           FlagOf(e) == [B EXCEPT ![i] = e]
<1>6. ASSUME NEW e \in Frame, SameLoop(e, B[i]), e.at = B[i].at, e.more = B[i].more,
             stack' = FlagOf(e), nestable_allowed' = nestable_allowed
      PROVE  StackInv(stack', nestable_allowed') /\ stack' # <<>> /\ Parked(Top')
  <2> HIDE DEF B, i
  <2>0. i \in 1..Len(B)
    BY <1>2, <1>4 DEF i
  <2>1. /\ StackInv(FlagOf(e), nestable_allowed) /\ Len(FlagOf(e)) = Len(B)
        /\ \A j \in 1..Len(B) : Parked(B[j]) => Parked(FlagOf(e)[j])
    BY <1>2, <1>6, <2>0, StackFlag
  <2>2. Len(B) \in 1..Len(B) /\ Parked(B[Len(B)])
    BY <1>2
  <2>3. Parked(stack'[Len(stack')])
    BY <2>1, <2>2, <1>6
  <2>4. stack' # <<>>
    BY <2>1, <1>2, <1>6
  <2> QED BY <2>1, <2>3, <2>4, <1>6 DEF Top
<1>7. CASE Returns(f) \/ Posts(f)
  <2>1. stack' = B /\ nestable_allowed' = nestable_allowed
    BY <1>7 DEF Returns, Posts, Goto, Back
  <2> HIDE DEF B
  <2> QED BY <2>1, <1>2, <1>3 DEF Top
<1>8. CASE QuitWhenIdle(f)
  <2> DEFINE e == [B[i] EXCEPT !.idle = TRUE]
  <2>1. e \in Frame /\ SameLoop(e, B[i]) /\ e.at = B[i].at /\ e.more = B[i].more
    <3> HIDE DEF B, i
    <3> QED BY <1>5 DEF Frame, SameLoop, i
  <2>2. stack' = FlagOf(e) /\ nestable_allowed' = nestable_allowed
    BY <1>8 DEF QuitWhenIdle
  <2> HIDE DEF e, FlagOf, B, i
  <2> QED BY <2>1, <2>2, <1>6
<1>9. CASE QuitNow(f)
  <2> DEFINE e == [B[i] EXCEPT !.quit = TRUE]
  <2>1. e \in Frame /\ SameLoop(e, B[i]) /\ e.at = B[i].at /\ e.more = B[i].more
    <3> HIDE DEF B, i
    <3> QED BY <1>5 DEF Frame, SameLoop, i
  <2>2. stack' = FlagOf(e) /\ nestable_allowed' = nestable_allowed
    BY <1>9 DEF QuitNow
  <2> HIDE DEF e, FlagOf, B, i
  <2> QED BY <2>1, <2>2, <1>6
<1>10. ASSUME NEW kind \in {"run", "modal"}, NEW d \in Nat, nestable_allowed' \in BOOLEAN,
              stack' = Append(B, NewLoop(kind, d, nestable_allowed))
       PROVE  StackInv(stack', nestable_allowed') /\ stack' # <<>> /\ Parked(Top')
  <2> HIDE DEF B
  <2>1. Parked(B[Len(B)])
    BY <1>2
  <2>2. /\ StackInv(stack', nestable_allowed') /\ Len(stack') = Len(B) + 1
        /\ stack'[Len(B) + 1].at = "peek"
    BY <1>2, <1>3, <1>10, <2>1, StackPush
  <2>3. Parked(stack'[Len(stack')])
    BY <2>2 DEF Parked
  <2>4. stack' # <<>>
    BY <2>2, <1>2
  <2> QED BY <2>2, <2>3, <2>4 DEF Top
<1>11. RunDepth \in Nat /\ RunDepth + 1 \in Nat
  <2>1. RunDepth \in Nat
    BY <1>4 DEF RunDepth, Frame
  <2> QED BY <2>1
<1>12. nestable_allowed \in BOOLEAN
  BY DEF StackInv
<1>13. CASE OpensModal(f, b)
  <2>1. nestable_allowed' \in BOOLEAN
    BY <1>13, <1>12 DEF OpensModal
  <2> QED BY <2>1, <1>10, <1>11, <1>13 DEF OpensModal
<1>14. CASE OpensRun(f, b)
  BY <1>10, <1>11, <1>14 DEF OpensRun
<1> QED BY <1>7, <1>8, <1>9, <1>13, <1>14 DEF Code

LEMMA ShapeStack ==
  ASSUME StackInv(stack, nestable_allowed), stack # <<>>, Goes \/ Calls \/ Closes \/ Stays
  PROVE  StackInv(stack', nestable_allowed')
<1>1. CASE Goes
  <2>1. PICK f : GoesOn(f) /\ Goto(f) /\ UNCHANGED nestable_allowed
    BY <1>1 DEF Goes
  <2>2. f \in Frame /\ SameLoop(f, stack[Len(stack)])
    BY <2>1 DEF GoesOn, Top
  <2>3. StackInv([stack EXCEPT ![Len(stack)] = f], nestable_allowed)
    BY <2>2, StackGoto
  <2> QED BY <2>1, <2>3 DEF Goto
<1>2. CASE Calls
  BY <1>2, CodeStack DEF Calls
<1>3. CASE Closes
  BY <1>3, StackPop DEF Closes, Top
<1>4. CASE Stays
  BY <1>4 DEF Stays
<1> QED BY <1>1, <1>2, <1>3, <1>4

LEMMA GotoTop ==
  ASSUME StackInv(stack, nestable_allowed), stack # <<>>, NEW f, GoesOn(f), Goto(f)
  PROVE  stack' # <<>> /\ Top' = f
<1>1. f \in Frame /\ SameLoop(f, stack[Len(stack)])
  BY DEF GoesOn, Top
<1>2. /\ Len(stack') = Len(stack) /\ Len(stack) \in Nat \ {0} /\ stack'[Len(stack)] = f
  BY <1>1, StackGoto DEF Goto
<1> QED BY <1>2 DEF Top

LEMMA GotoShape ==
  ASSUME NEW f, Plain(f), Goto(f), UNCHANGED nestable_allowed
  PROVE  Goes
BY DEF Goes, Plain

LEMMA CodeShape ==
  ASSUME NEW f, Plain(f), Parked(f), NEW b \in BOOLEAN, Code(f, b)
  PROVE  Calls
BY DEF Calls, Plain

LEMMA DoWorkShape ==
  ASSUME NEW ran, Plain(ran), Parked(ran), NEW none, Plain(none), Top.at = "work",
         DoWork(ran, none)
  PROVE  Goes \/ Calls \/ Stays
<1>1. CASE Goto(none) /\ UNCHANGED nestable_allowed
  BY <1>1, GotoShape
<1>2. CASE ReloadWorkQueue
  BY <1>2 DEF ReloadWorkQueue, Stays
<1>3. CASE MoveToDelayed
  BY <1>3 DEF MoveToDelayed, Stays
<1>4. CASE Defer
  BY <1>4 DEF Defer, Stays
<1>5. CASE RunFirst(ran)
  BY <1>5, CodeShape DEF RunFirst
<1> QED BY <1>1, <1>2, <1>3, <1>4, <1>5 DEF DoWork

LEMMA DoDelayedShape ==
  ASSUME NEW ran, Plain(ran), Parked(ran), NEW none, Plain(none), DoDelayedWork(ran, none)
  PROVE  Goes \/ Calls
<1>1. CASE NoDelayedWork(none)
  BY <1>1, GotoShape DEF NoDelayedWork
<1>2. CASE NotYet(none)
  BY <1>2, GotoShape DEF NotYet
<1>3. CASE RunDelayed(ran, none)
  <2>1. \/ Code(ran, TRUE)
        \/ Goto(none) /\ UNCHANGED nestable_allowed
    BY <1>3 DEF RunDelayed
  <2> QED BY <2>1, CodeShape, GotoShape
<1> QED BY <1>1, <1>2, <1>3 DEF DoDelayedWork

\* The frames that the pump's rounds go on with.
With(l, m) == [Here(l) EXCEPT !.more = m]

LEMMA Frames ==
  ASSUME Top \in Frame
  PROVE  /\ \A l \in Ats : GoesOn(Here(l)) /\ Here(l).at = l /\ Here(l).more = Top.more
         /\ \A l \in Ats, m \in BOOLEAN :
              GoesOn(With(l, m)) /\ With(l, m).at = l /\ With(l, m).more = m
         /\ Plain(AfterMessage) /\ Parked(AfterMessage)
<1>1. ASSUME NEW l \in Ats, NEW m \in BOOLEAN
      PROVE  GoesOn(With(l, m)) /\ With(l, m).at = l /\ With(l, m).more = m
  BY HereMore DEF With
<1> QED BY <1>1, HereFrame, AfterFrame DEF Plain

LEMMA PumpShape ==
  ASSUME StackInv(stack, nestable_allowed), Pump
  PROVE  stack # <<>> /\ pc[UI] = "idle" /\ (Goes \/ Calls \/ Closes \/ Stays)
<1> DEFINE Shape == Goes \/ Calls \/ Closes \/ Stays
<1>0. stack # <<>> /\ pc[UI] = "idle"
  BY DEF Pump, PeekNothing, PeekInput, PeekHaveWork, PeekTimer, Replace, Dispatch,
         HandleTimerMessage, Rearm, RunWork, Again, RunDelayedWork, After, Idle, Idled,
         WaitForWork, InRun, At, Free
<1>1. Top \in Frame
  BY <1>0, TopFrame
<1>a. /\ \A l \in Ats : GoesOn(Here(l)) /\ Here(l).at = l
      /\ \A l \in Ats, m \in BOOLEAN :
           GoesOn(With(l, m)) /\ With(l, m).at = l /\ With(l, m).more = m
      /\ Plain(AfterMessage) /\ Parked(AfterMessage)
  BY <1>1, Frames
<1>b. /\ "peek" \in Ats /\ "replace" \in Ats /\ "dispatch" \in Ats /\ "timer" \in Ats
      /\ "rearm" \in Ats /\ "work" \in Ats /\ "again" \in Ats /\ "delayed" \in Ats
      /\ "after" \in Ats /\ "idle" \in Ats /\ "idled" \in Ats /\ "wait" \in Ats
      /\ TRUE \in BOOLEAN /\ FALSE \in BOOLEAN
  BY DEF Ats
<1>c. /\ Plain(Here("rearm")) /\ Parked(Here("rearm"))
      /\ Plain(Here("again")) /\ Parked(Here("again"))
      /\ Plain(Here("idled")) /\ Parked(Here("idled"))
      /\ Plain(With("delayed", TRUE))
      /\ Parked(With("delayed", TRUE))
      /\ Plain(With("after", TRUE))
      /\ Parked(With("after", TRUE))
      /\ Plain(With("peek", FALSE))
      /\ Plain(With("work", FALSE)) /\ Plain(With("timer", TRUE))
      /\ Plain(Here("work")) /\ Plain(Here("dispatch")) /\ Plain(Here("timer"))
      /\ Plain(Here("delayed")) /\ Plain(Here("after")) /\ Plain(Here("idle"))
      /\ Plain(Here("wait")) /\ Plain(Here("peek"))
      /\ Plain(AfterMessage) /\ Parked(AfterMessage)
      /\ GoesOn(Here("replace"))
  BY <1>a, <1>b DEF Parked, Plain
<1>d. ASSUME Leave PROVE Shape
  BY <1>d DEF Leave, Closes
<1>e. TRUE \in BOOLEAN /\ FALSE \in BOOLEAN
  OBVIOUS
<1> HIDE DEF Shape
<1>f. ASSUME Goes \/ Calls \/ Stays PROVE Shape
  BY <1>f DEF Shape
<1>g. SUFFICES Shape
  BY <1>0 DEF Shape
<1>2. CASE PeekNothing
  <2>1. Goto(With("work", FALSE)) /\ UNCHANGED nestable_allowed
    BY <1>2 DEF PeekNothing, With
  <2> QED BY <2>1, <1>c, <1>f, GotoShape
<1>3. CASE PeekInput
  <2>1. Code(AfterMessage, FALSE)
    BY <1>3 DEF PeekInput
  <2> QED BY <2>1, <1>c, <1>e, <1>f, CodeShape
<1>4. CASE PeekHaveWork
  <2>1. Goto(Here("replace")) /\ UNCHANGED nestable_allowed
    BY <1>4 DEF PeekHaveWork
  <2>2. Goes
    BY <2>1, <1>c, <1>4 DEF Goes
  <2> QED BY <2>2, <1>f
<1>5. CASE PeekTimer
  <2>1. Goto(Here("timer")) /\ UNCHANGED nestable_allowed
    BY <1>5 DEF PeekTimer
  <2> QED BY <2>1, <1>c, <1>f, GotoShape
<1>6. CASE Replace
  <2>1. /\ UNCHANGED nestable_allowed
        /\ Goto(With("work", FALSE)) \/ Goto(Here("dispatch")) \/ Goto(With("timer", TRUE))
    BY <1>6 DEF Replace, With
  <2> QED BY <2>1, <1>c, <1>f, GotoShape
<1>7. CASE Dispatch
  <2>1. Code(AfterMessage, FALSE)
    BY <1>7 DEF Dispatch
  <2> QED BY <2>1, <1>c, <1>e, <1>f, CodeShape
<1>8. CASE HandleTimerMessage
  <2>1. DoDelayedWork(Here("rearm"), Here("rearm"))
    BY <1>8 DEF HandleTimerMessage
  <2> QED BY <2>1, <1>c, <1>f, DoDelayedShape
<1>9. CASE Rearm
  <2>1. Goto(AfterMessage) /\ UNCHANGED nestable_allowed
    BY <1>9 DEF Rearm
  <2> QED BY <2>1, <1>c, <1>f, GotoShape
<1>10. CASE RunWork
  <2>0. Top.at = "work"
    BY <1>10 DEF RunWork, At
  <2>1. CASE Leave
    BY <2>1, <1>d
  <2>2. CASE DoWork(With("delayed", TRUE), Here("delayed"))
    BY <2>0, <2>2, <1>c, <1>f, DoWorkShape
  <2>3. CASE DoWork(Here("again"), With("peek", FALSE))
    BY <2>0, <2>3, <1>c, <1>f, DoWorkShape
  <2>4. \/ Leave
        \/ DoWork(With("delayed", TRUE), Here("delayed"))
        \/ DoWork(Here("again"), With("peek", FALSE))
    BY <1>10 DEF RunWork, With
  <2> QED BY <2>1, <2>2, <2>3, <2>4
<1>11. CASE Again
  <2>1. Goto(With("peek", FALSE)) /\ UNCHANGED nestable_allowed
    BY <1>11 DEF Again, With
  <2> QED BY <2>1, <1>c, <1>f, GotoShape
<1>12. CASE RunDelayedWork
  <2>1. CASE Leave
    BY <2>1, <1>d
  <2>2. CASE DoDelayedWork(With("after", TRUE), Here("after"))
    BY <2>2, <1>c, <1>f, DoDelayedShape
  <2> QED BY <1>12, <2>1, <2>2 DEF RunDelayedWork, With
<1>13. CASE After
  <2>1. \/ Leave
        \/ Goto(With("peek", FALSE)) /\ UNCHANGED nestable_allowed
        \/ Goto(Here("idle")) /\ UNCHANGED nestable_allowed
    BY <1>13 DEF After, With
  <2> QED BY <2>1, <1>c, <1>d, <1>f, GotoShape
<1>14. CASE Idle
  <2>1. \/ Code(Here("idled"), TRUE)
        \/ Leave
        \/ Goto(Here("wait")) /\ UNCHANGED nestable_allowed
    BY <1>14 DEF Idle
  <2> QED BY <2>1, <1>c, <1>d, <1>e, GotoShape, <1>f, CodeShape
<1>15. CASE Idled
  <2>1. \/ Leave
        \/ Goto(Here("peek")) /\ UNCHANGED nestable_allowed
    BY <1>15 DEF Idled
  <2> QED BY <2>1, <1>c, <1>d, <1>f, GotoShape
<1>16. CASE WaitForWork
  <2>1. Goto(Here("peek")) /\ UNCHANGED nestable_allowed
    BY <1>16 DEF WaitForWork
  <2> QED BY <2>1, <1>c, <1>f, GotoShape
<1>17. Shape
  <2> QED BY <1>2, <1>3, <1>4, <1>5, <1>6, <1>7, <1>8, <1>9, <1>10, <1>11, <1>12, <1>13, <1>14,
             <1>15, <1>16 DEF Pump
<1> QED BY <1>17

\* The loops stay well nested in every step.
LEMMA StackNext ==
  ASSUME StackInv(stack, nestable_allowed), Next \/ UNCHANGED vars
  PROVE  StackInv(stack', nestable_allowed')
<1>1. CASE Pump
  BY <1>1, PumpShape, ShapeStack
<1>2. CASE EndModal
  BY <1>2, ShapeStack DEF EndModal, Leave, Closes, At, Free
<1>3. CASE UNCHANGED <<stack, nestable_allowed>>
  BY <1>3
<1>4. CASE UNCHANGED vars
  BY <1>4 DEF vars
<1> QED BY <1>1, <1>2, <1>3, <1>4
    DEF Next, PostTask, Enqueue, ScheduleWork, Exchange, PostHaveWork, ClearHaveWork, Destroy, Input, Tick

-----------------------------------------------------------------------------
(* have_work and its message. *)

\* A task or a handler leaves the UI thread between steps or on its way into
\* ScheduleWork, never past the exchange.
LEMMA CodeCalls ==
  ASSUME NEW f, NEW b, Code(f, b)
  PROVE  \/ \E k \in Kinds[UI] : Post(UI, k)
         \/ /\ UNCHANGED <<incoming, next_sequence_num, stamped>>
            /\ pc' = pc \/ pc' = [pc EXCEPT ![UI] = "wake"]
BY DEF Code, Returns, Posts, QuitWhenIdle, QuitNow, OpensModal, OpensRun, WakeSelf

LEMMA PumpCalls ==
  ASSUME Pump
  PROVE  \/ \E f : \E b \in BOOLEAN : Code(f, b)
         \/ /\ UNCHANGED <<next_sequence_num, stamped>>
            /\ pc' = pc \/ pc' = [pc EXCEPT ![UI] = "wake"]
<1> DEFINE Quiets == UNCHANGED <<next_sequence_num, stamped>>
           Codes == \E f : \E b \in BOOLEAN : Code(f, b)
<1>a. UNCHANGED taskvars => Quiets
  BY DEF taskvars
<1>1. ASSUME NEW ran, NEW none, DoWork(ran, none)
      PROVE  (Quiets /\ pc' = pc) \/ Codes
  BY <1>1, <1>a DEF DoWork, ReloadWorkQueue, MoveToDelayed, Defer, RunFirst
<1>2. ASSUME NEW ran, NEW none, DoDelayedWork(ran, none)
      PROVE  (Quiets /\ pc' = pc) \/ Codes
  BY <1>2, <1>a DEF DoDelayedWork, NoDelayedWork, NotYet, RunDelayed
<1>3. Leave => Quiets /\ pc' = pc
  BY <1>a DEF Leave
<1>4. CASE PeekNothing \/ PeekHaveWork \/ PeekTimer \/ Rearm \/ WaitForWork
  BY <1>4, <1>a DEF PeekNothing, PeekHaveWork, PeekTimer, Rearm, WaitForWork
<1>5. CASE Replace \/ Again
  BY <1>5, <1>a DEF Replace, Again, WakeSelf
<1>6. CASE PeekInput \/ Dispatch
  BY <1>6 DEF PeekInput, Dispatch
<1>7. CASE HandleTimerMessage
  BY <1>7, <1>2 DEF HandleTimerMessage
<1>8. CASE RunWork
  BY <1>8, <1>1, <1>3 DEF RunWork
<1>9. CASE RunDelayedWork
  BY <1>9, <1>2, <1>3 DEF RunDelayedWork
<1>10. CASE After \/ Idle \/ Idled
  BY <1>10, <1>3, <1>a DEF After, Idle, Idled
<1> QED BY <1>4, <1>5, <1>6, <1>7, <1>8, <1>9, <1>10 DEF Pump

\* A post leaves the thread at the lock, before ScheduleWork, or done.
LEMMA PostPc ==
  ASSUME NEW t, NEW k, Post(t, k)
  PROVE  \/ /\ k.delay = 0 /\ AddToIncomingQueue(t, StampOf(k)) /\ stamped' = stamped
            /\ pc' = [pc EXCEPT ![t] = "wake"] \/ pc' = [pc EXCEPT ![t] = "idle"]
         \/ /\ k.delay > 0 /\ stamped' = [stamped EXCEPT ![t] = StampOf(k)]
            /\ UNCHANGED <<incoming, next_sequence_num>>
            /\ pc' = [pc EXCEPT ![t] = "lock"]
BY DEF Post, AddToIncomingQueue

LEMMA PumpPc ==
  ASSUME pc \in [Threads -> Places], pc[UI] = "idle", Pump
  PROVE  \E w \in {"idle", "lock", "wake"} : pc' = [pc EXCEPT ![UI] = w]
<1>1. pc = [pc EXCEPT ![UI] = "idle"]
  OBVIOUS
<1>2. \/ pc' = pc \/ pc' = [pc EXCEPT ![UI] = "wake"]
      \/ \E k \in Kinds[UI] : Post(UI, k)
  BY PumpCalls, CodeCalls
<1> QED BY <1>1, <1>2, PostPc

\* No step of the pump but that of kMsgHaveWork leads to the replacement.
LEMMA PumpTop ==
  ASSUME StackInv(stack, nestable_allowed), Pump, ~PeekHaveWork
  PROVE  ~Replacing'
<1>1. stack # <<>> /\ (Goes \/ Calls \/ Closes \/ Stays)
  BY PumpShape
<1>2. CASE Goes
  <2>1. PICK f : GoesOn(f) /\ f.at # "replace" /\ Goto(f)
    BY <1>2 DEF Goes
  <2> QED BY <2>1, <1>1, GotoTop DEF Replacing
<1>3. CASE Calls
  <2>1. Parked(Top')
    BY <1>1, <1>3, CodeStack DEF Calls
  <2> QED BY <2>1 DEF Replacing, Parked
<1>4. CASE Closes
  <2>1. stack' # <<>> => Parked(Top')
    BY <1>1, <1>4, StackPop DEF Closes, Top
  <2> QED BY <2>1 DEF Replacing, Parked
<1>5. CASE Stays
  BY <1>5 DEF Stays, Replacing, Top
<1> QED BY <1>1, <1>2, <1>3, <1>4, <1>5

\* A message is added at the end of the queue.
LEMMA MsgAppend ==
  ASSUME queue \in Seq({"work", "input"}), NEW m \in {"work", "input"},
         queue' = Append(queue, m)
  PROVE  /\ HaveWorkMessages \subseteq 1..Len(queue) /\ Len(queue) \in Nat
         /\ HaveWorkMessages' = HaveWorkMessages \union IF m = "work" THEN {Len(queue) + 1} ELSE {}
<1>1. /\ Len(queue) \in Nat /\ DOMAIN queue = 1..Len(queue)
      /\ DOMAIN queue' = 1..Len(queue) + 1 /\ queue'[Len(queue) + 1] = m
      /\ \A i \in 1..Len(queue) : queue'[i] = queue[i]
  BY LenProperties
<1>2. 1..Len(queue) + 1 = 1..Len(queue) \union {Len(queue) + 1}
  BY <1>1
<1>3. HaveWorkMessages' = {i \in DOMAIN queue' : queue'[i] = "work"}
  BY DEF HaveWorkMessages
<1> QED BY <1>1, <1>2, <1>3 DEF HaveWorkMessages

\* The first message is taken.
LEMMA MsgTail ==
  ASSUME queue \in Seq({"work", "input"}), queue # <<>>, queue' = Tail(queue),
         \A i, j \in HaveWorkMessages : i = j
  PROVE  /\ \A i, j \in HaveWorkMessages' : i = j
         /\ Head(queue) = "work" => HaveWorkMessages # {} /\ HaveWorkMessages' = {}
         /\ Head(queue) = "input" => (HaveWorkMessages = {} <=> HaveWorkMessages' = {})
         /\ HaveWorkMessages = {} => HaveWorkMessages' = {}
<1>1. /\ Len(queue) \in Nat \ {0} /\ DOMAIN queue = 1..Len(queue)
      /\ Head(queue) = queue[1]
  BY EmptySeq, LenProperties
<1>2. /\ DOMAIN queue' = 1..Len(queue) - 1
      /\ \A i \in 1..Len(queue) - 1 : queue'[i] = queue[i + 1]
  <2>1. /\ Tail(queue) \in Seq({"work", "input"}) /\ Len(Tail(queue)) = Len(queue) - 1
        /\ \A i \in 1..Len(Tail(queue)) : Tail(queue)[i] = queue[i + 1]
    BY HeadTailProperties
  <2> QED BY <2>1, LenProperties
<1>3. HaveWorkMessages' = {i \in DOMAIN queue' : queue'[i] = "work"}
  BY DEF HaveWorkMessages
<1>4. ASSUME NEW i \in HaveWorkMessages' PROVE i \in Nat /\ i + 1 \in HaveWorkMessages /\ i + 1 # 1
  BY <1>1, <1>2, <1>3 DEF HaveWorkMessages
<1>5. ASSUME NEW i \in HaveWorkMessages, i # 1 PROVE i - 1 \in HaveWorkMessages'
  <2>1. i - 1 \in 1..Len(queue) - 1 /\ queue'[i - 1] = queue[i - 1 + 1] /\ i - 1 + 1 = i
    BY <1>1, <1>2, <1>5 DEF HaveWorkMessages
  <2> QED BY <2>1, <1>2, <1>3 DEF HaveWorkMessages
<1>6. 1 \in HaveWorkMessages <=> Head(queue) = "work"
  BY <1>1 DEF HaveWorkMessages
<1>7. \A i, j \in HaveWorkMessages' : i = j
  <2> SUFFICES ASSUME NEW i \in HaveWorkMessages', NEW j \in HaveWorkMessages' PROVE i = j
    OBVIOUS
  <2>1. i + 1 = j + 1 /\ i \in Nat /\ j \in Nat
    BY <1>4
  <2> QED BY <2>1
<1>8. Head(queue) = "work" => HaveWorkMessages # {} /\ HaveWorkMessages' = {}
  BY <1>4, <1>6
<1>9. HaveWorkMessages = {} => HaveWorkMessages' = {}
  BY <1>4
<1>10. Head(queue) = "input" /\ HaveWorkMessages' = {} => HaveWorkMessages = {}
  BY <1>5, <1>6
<1> QED BY <1>7, <1>8, <1>9, <1>10

\* A step that touches neither have_work nor its message.
LEMMA PumpKeeps ==
  ASSUME PumpInv, have_work' = have_work, Waking' = Waking, ~Replacing, ~Replacing',
         \A i, j \in HaveWorkMessages' : i = j,
         HaveWorkMessages = {} <=> HaveWorkMessages' = {}
  PROVE  PumpInv'
BY DEF PumpInv

LEMMA MsgSame ==
  ASSUME queue' = queue PROVE HaveWorkMessages' = HaveWorkMessages
BY DEF HaveWorkMessages

LEMMA TopSame ==
  ASSUME stack' = stack PROVE Replacing' = Replacing
BY DEF Replacing, Top

LEMMA WakingPost ==
  ASSUME pc \in [Threads -> Places], NEW t \in Threads, pc[t] \in {"idle", "lock"},
         NEW w \in {"idle", "lock", "wake"}, pc' = [pc EXCEPT ![t] = w]
  PROVE  Waking' = Waking
<1>1. \A u \in Threads : pc'[u] \in {"post", "fail"} <=> pc[u] \in {"post", "fail"}
  OBVIOUS
<1> QED BY <1>1 DEF Waking

\* The flag, its message and the threads that wake the pump, one step of each
\* against the others (ScheduleWork, ProcessPumpReplacementMessage).
LEMMA PumpInvPump ==
  ASSUME Types, StackInv(stack, nestable_allowed), PumpInv, Pump
  PROVE  PumpInv'
<1>1. stack # <<>> /\ pc[UI] = "idle"
  BY PumpShape
<1>2. Waking' = Waking
  <2>1. pc \in [Threads -> Places]
    BY DEF Types
  <2>2. UI \in Threads
    BY DEF Threads
  <2> QED BY <2>1, <2>2, <1>1, PumpPc, WakingPost
<1>3. queue \in Seq({"work", "input"})
  BY DEF Types
<1>u. \A i, j \in HaveWorkMessages : i = j
  BY DEF PumpInv
<1>4. CASE PeekHaveWork
  <2>1. /\ queue # <<>> /\ Head(queue) = "work" /\ queue' = Tail(queue) /\ have_work' = have_work
        /\ Goto(Here("replace"))
    BY <1>4 DEF PeekHaveWork, winvars
  <2>2. HaveWorkMessages # {} /\ HaveWorkMessages' = {}
    BY <2>1, <1>3, <1>u, MsgTail
  <2>3. have_work /\ Waking = {}
    BY <2>2 DEF PumpInv
  <2>4. Replacing'
    <3>1. GoesOn(Here("replace")) /\ Here("replace").at = "replace"
      BY <1>1, TopFrame, Frames DEF Ats
    <3>2. stack' # <<>> /\ Top' = Here("replace")
      BY <2>1, <3>1, <1>1, GotoTop
    <3> QED BY <3>1, <3>2 DEF Replacing
  <2> QED BY <2>1, <2>2, <2>3, <2>4, <1>2 DEF PumpInv
<1>5. ~PeekHaveWork => ~Replacing'
  BY PumpTop
<1>6. CASE Replace
  <2>1. Replacing
    BY <1>6, <1>1 DEF Replace, At, Replacing
  <2>2. have_work' = FALSE /\ HaveWorkMessages = {} /\ Waking' = {}
    BY <1>6, <2>1, <1>2 DEF Replace, PumpInv
  <2>3. HaveWorkMessages' = {}
    <3>1. queue' = queue \/ (queue # <<>> /\ queue' = Tail(queue))
      BY <1>6 DEF Replace
    <3> QED BY <3>1, <2>2, <1>3, <1>u, MsgTail, MsgSame
  <2>4. ~Replacing'
    <3>1. ~PeekHaveWork
      BY <2>1 DEF PeekHaveWork, At, Replacing
    <3> QED BY <3>1, <1>5
  <2> QED BY <2>2, <2>3, <2>4 DEF PumpInv
<1>7. ASSUME ~PeekHaveWork, ~Replace, ~PeekInput PROVE PumpInv'
  <2>0. \/ PeekNothing \/ PeekTimer \/ Dispatch \/ HandleTimerMessage \/ Rearm \/ RunWork
        \/ Again \/ RunDelayedWork \/ After \/ Idle \/ Idled \/ WaitForWork
    BY <1>7 DEF Pump
  <2>1. UNCHANGED winvars
    BY <2>0 DEF PeekNothing, PeekTimer, Dispatch, HandleTimerMessage, Rearm, RunWork, Again,
                RunDelayedWork, After, Idle, Idled, WaitForWork
  <2>2. ~Replacing
    BY <2>0 DEF Replacing, InRun, At, PeekNothing, PeekTimer, Dispatch, HandleTimerMessage, Rearm,
                RunWork, Again, RunDelayedWork, After, Idle, Idled, WaitForWork
  <2>3. have_work' = have_work /\ HaveWorkMessages' = HaveWorkMessages
    BY <2>1, MsgSame DEF winvars
  <2> QED BY <2>2, <2>3, <1>2, <1>5, <1>7, <1>u, PumpKeeps
<1>8. CASE PeekInput
  <2>1. queue # <<>> /\ Head(queue) = "input" /\ queue' = Tail(queue) /\ have_work' = have_work
    BY <1>8 DEF PeekInput
  <2>2. /\ \A i, j \in HaveWorkMessages' : i = j
        /\ HaveWorkMessages = {} <=> HaveWorkMessages' = {}
    BY <2>1, <1>3, <1>u, MsgTail
  <2>3. ~Replacing
    BY <1>8 DEF PeekInput, At, Replacing
  <2>4. ~PeekHaveWork
    BY <2>1 DEF PeekHaveWork
  <2> QED BY <2>1, <2>2, <2>3, <2>4, <1>2, <1>5, PumpKeeps
<1> QED BY <1>4, <1>6, <1>7, <1>8

LEMMA PumpInvThread ==
  ASSUME Types, PumpInv, NEW t \in Threads, ScheduleWork(t)
  PROVE  PumpInv'
<1>0. /\ pc \in [Threads -> Places] /\ have_work \in BOOLEAN
      /\ queue \in Seq({"work", "input"})
  BY DEF Types
<1>a. "idle" \in Places /\ "post" \in Places /\ "fail" \in Places
  BY DEF Places
<1>1. Replacing' = Replacing
  <2>1. stack' = stack
    BY DEF ScheduleWork, Exchange, PostHaveWork, ClearHaveWork
  <2> QED BY <2>1, TopSame
<1>2. ASSUME NEW v \in Places, pc' = [pc EXCEPT ![t] = v]
      PROVE  Waking' = IF v \in {"post", "fail"} THEN Waking \union {t} ELSE Waking \ {t}
  <2>1. \A u \in Threads : pc'[u] = IF u = t THEN v ELSE pc[u]
    BY <1>0, <1>2
  <2> QED BY <2>1 DEF Waking
<1>3. CASE Exchange(t) /\ have_work
  <2>1. pc[t] = "wake" /\ have_work' = have_work /\ queue' = queue /\ pc' = [pc EXCEPT ![t] = "idle"]
    BY <1>3 DEF Exchange
  <2>2. Waking' = Waking \ {t} /\ t \notin Waking
    BY <2>1, <1>a, <1>2 DEF Waking
  <2> QED BY <2>1, <2>2, <1>1, MsgSame DEF PumpInv
<1>4. CASE Exchange(t) /\ ~have_work
  <2>1. have_work' = TRUE /\ queue' = queue /\ pc' = [pc EXCEPT ![t] = "post"]
    BY <1>4 DEF Exchange
  <2>2. HaveWorkMessages = {} /\ Waking = {} /\ ~Replacing
    BY <1>4 DEF PumpInv
  <2>3. Waking' = {t}
    BY <2>1, <2>2, <1>a, <1>2
  <2> QED BY <2>1, <2>2, <2>3, <1>1, MsgSame DEF PumpInv
<1>5. CASE PostHaveWork(t)
  <2>1. pc[t] = "post" /\ have_work' = have_work
    BY <1>5 DEF PostHaveWork
  <2>2. t \in Waking
    BY <2>1 DEF Waking
  <2>3. HaveWorkMessages = {} /\ Waking = {t} /\ ~Replacing /\ have_work
    BY <2>2 DEF PumpInv
  <2>4. CASE queue' = Append(queue, "work") /\ pc' = [pc EXCEPT ![t] = "idle"]
    <3>1. Waking' = {}
      BY <2>3, <2>4, <1>a, <1>2
    <3>2. HaveWorkMessages' = {Len(queue) + 1}
      BY <2>3, <2>4, <1>0, MsgAppend
    <3> QED BY <2>1, <2>3, <3>1, <3>2, <1>1 DEF PumpInv
  <2>5. CASE queue' = queue /\ pc' = [pc EXCEPT ![t] = "fail"]
    <3>1. Waking' = {t}
      BY <2>3, <2>5, <1>a, <1>2
    <3> QED BY <2>1, <2>3, <2>5, <3>1, <1>1, MsgSame DEF PumpInv
  <2> QED BY <1>5, <2>4, <2>5 DEF PostHaveWork
<1>6. CASE ClearHaveWork(t)
  <2>1. pc[t] = "fail" /\ have_work' = FALSE /\ queue' = queue /\ pc' = [pc EXCEPT ![t] = "idle"]
    BY <1>6 DEF ClearHaveWork
  <2>2. t \in Waking
    BY <2>1 DEF Waking
  <2>3. HaveWorkMessages = {} /\ Waking = {t} /\ ~Replacing
    BY <2>2 DEF PumpInv
  <2>4. Waking' = {}
    BY <2>1, <2>3, <1>a, <1>2
  <2> QED BY <2>1, <2>3, <2>4, <1>1, MsgSame DEF PumpInv
<1> QED BY <1>3, <1>4, <1>5, <1>6 DEF ScheduleWork

LEMMA PumpInvNext ==
  ASSUME Types, StackInv(stack, nestable_allowed), PumpInv, Next \/ UNCHANGED vars
  PROVE  PumpInv'
<1>0. /\ pc \in [Threads -> Places]
      /\ queue \in Seq({"work", "input"})
      /\ \A i, j \in HaveWorkMessages : i = j
  BY DEF Types, PumpInv
<1>a. ASSUME NEW t \in Threads, pc[t] \in {"idle", "lock"},
             NEW w \in {"idle", "lock", "wake"}, pc' = [pc EXCEPT ![t] = w],
             have_work' = have_work, queue' = queue, stack' = stack
      PROVE  PumpInv'
  <2>1. Waking' = Waking
    BY <1>0, <1>a, WakingPost
  <2> QED BY <2>1, <1>a, MsgSame, TopSame DEF PumpInv
<1>1. ASSUME NEW p \in Posters, NEW k \in Kinds[p], PostTask(p, k) PROVE PumpInv'
  <2>1. /\ pc[p] = "idle" /\ p \in Threads /\ Post(p, k)
        /\ have_work' = have_work /\ queue' = queue /\ stack' = stack
    BY <1>1 DEF PostTask, winvars, Threads
  <2>2. \E w \in {"idle", "lock", "wake"} : pc' = [pc EXCEPT ![p] = w]
    BY <2>1, PostPc
  <2> QED BY <2>1, <2>2, <1>a
<1>b. ASSUME NEW t \in Threads, Enqueue(t) PROVE PumpInv'
  <2>1. /\ pc[t] = "lock" /\ have_work' = have_work /\ queue' = queue /\ stack' = stack
    BY <1>b DEF Enqueue, winvars
  <2>2. \E w \in {"idle", "lock", "wake"} : pc' = [pc EXCEPT ![t] = w]
    BY <1>b DEF Enqueue, AddToIncomingQueue
  <2> QED BY <2>1, <2>2, <1>a
<1>2. ASSUME NEW t \in Threads, ScheduleWork(t) PROVE PumpInv'
  BY <1>2, PumpInvThread
<1>3. CASE Pump
  BY <1>3, PumpInvPump
<1>4. CASE EndModal
  <2>1. stack # <<>> /\ Top.at = "peek" /\ Closes
    BY <1>4 DEF EndModal, At, Free, Leave, Closes
  <2>2. ~Replacing /\ ~Replacing'
    <3>1. stack' # <<>> => Parked(Top')
      BY <2>1, StackPop DEF Closes, Top
    <3> QED BY <2>1, <3>1 DEF Replacing, Parked
  <2>3. have_work' = have_work /\ queue' = queue /\ pc' = pc
    BY <1>4 DEF EndModal, Leave, winvars
  <2>4. Waking' = Waking
    BY <2>3 DEF Waking
  <2> QED BY <2>2, <2>3, <2>4, <1>0, MsgSame, PumpKeeps
<1>5. CASE Destroy \/ Tick \/ UNCHANGED vars
  <2>1. have_work' = have_work /\ queue' = queue /\ pc' = pc /\ stack' = stack
    BY <1>5 DEF Destroy, Tick, vars, winvars
  <2>2. Waking' = Waking
    BY <2>1 DEF Waking
  <2> QED BY <2>1, <2>2, MsgSame, TopSame DEF PumpInv
<1>6. CASE Input
  <2>1. have_work' = have_work /\ queue' = Append(queue, "input") /\ pc' = pc /\ stack' = stack
    BY <1>6 DEF Input
  <2>2. Waking' = Waking
    BY <2>1 DEF Waking
  <2>3. HaveWorkMessages' = HaveWorkMessages
    BY <2>1, <1>0, MsgAppend
  <2> QED BY <2>1, <2>2, <2>3, TopSame DEF PumpInv
<1> QED BY <1>1, <1>b, <1>2, <1>3, <1>4, <1>5, <1>6 DEF Next

-----------------------------------------------------------------------------
(* Types. *)

TaskTypes ==
  /\ incoming \in Seq(Task) /\ work \in Seq(Task) /\ deferred \in Seq(Task)
  /\ delayed \subseteq Task
  /\ next_sequence_num \in 0..PostLimit
  /\ delayed_work_time \in 0..TimeLimit /\ recent_time \in 0..TimeLimit
  /\ timer \in 0..TimeLimit
  /\ stamped \in [Threads -> Stamp]

NewTask(s) == [seq |-> next_sequence_num, delay |-> s.delay, nestable |-> s.nestable,
               at |-> s.at, after |-> s.after]

LEMMA LockingFinite == IsFiniteSet(Locking) /\ Cardinality(Locking) \in Nat
<1>1. IsFiniteSet(Threads)
  BY PosterAssumption, FS_AddElement DEF Threads
<1>2. IsFiniteSet(Locking)
  BY <1>1, FS_Subset DEF Locking
<1> QED BY <1>2, FS_CardinalityType

LEMMA AddedTask ==
  ASSUME Types, NEW t, NEW s \in Stamp, AddToIncomingQueue(t, s),
         next_sequence_num < PostLimit
  PROVE  /\ incoming' = Append(incoming, NewTask(s)) /\ NewTask(s) \in Task
         /\ incoming' \in Seq(Task)
         /\ next_sequence_num' = next_sequence_num + 1 /\ next_sequence_num' \in 0..PostLimit
<1>1. next_sequence_num \in 0..PostLimit /\ PostLimit \in Nat /\ incoming \in Seq(Task)
  BY LimitAssumption DEF Types
<1>2. NewTask(s) \in Task
  BY <1>1 DEF NewTask, Task, Stamp
<1>3. /\ incoming' = Append(incoming, NewTask(s))
      /\ next_sequence_num' = next_sequence_num + 1
  BY DEF AddToIncomingQueue, NewTask
<1>4. incoming' \in Seq(Task)
  BY <1>1, <1>2, <1>3
<1>5. next_sequence_num' \in 0..PostLimit
  BY <1>1, <1>3
<1> QED BY <1>2, <1>3, <1>4, <1>5

\* A thread posts a task, or reads the clock for it.
LEMMA PostTypes ==
  ASSUME Types, NEW t \in Threads, NEW k \in Kinds[t], Post(t, k)
  PROVE  /\ next_sequence_num < PostLimit /\ StampOf(k) \in Stamp
         /\ incoming' \in Seq(Task) /\ next_sequence_num' \in 0..PostLimit
         /\ stamped' \in [Threads -> Stamp]
<1>0. /\ next_sequence_num \in 0..PostLimit /\ now \in 0..TimeLimit
      /\ PostLimit \in Nat /\ TimeLimit \in Nat /\ incoming \in Seq(Task)
      /\ stamped \in [Threads -> Stamp]
  BY LimitAssumption DEF Types
<1>1. k.delay \in Nat /\ k.nestable \in BOOLEAN
  BY KindAssumption DEF Threads
<1>2. next_sequence_num + Cardinality(Locking) < PostLimit /\ now + k.delay <= TimeLimit
  BY DEF Post
<1>3. next_sequence_num < PostLimit
  BY <1>0, <1>2, LockingFinite
<1>4. (IF k.delay > 0 THEN now + k.delay ELSE Null) \in 0..TimeLimit
  BY <1>0, <1>1, <1>2 DEF Null
<1>5. StampOf(k) \in Stamp
  BY <1>0, <1>1, <1>4 DEF StampOf, Stamp
<1>6. CASE AddToIncomingQueue(t, StampOf(k)) /\ stamped' = stamped
  BY <1>0, <1>3, <1>5, <1>6, AddedTask
<1>7. CASE stamped' = [stamped EXCEPT ![t] = StampOf(k)] /\ UNCHANGED <<incoming, next_sequence_num>>
  BY <1>0, <1>3, <1>5, <1>7
<1> QED BY <1>6, <1>7, PostPc

\* The lock is taken.
LEMMA EnqueueTypes ==
  ASSUME Types, NEW t \in Threads, Enqueue(t)
  PROVE  /\ next_sequence_num < PostLimit /\ stamped[t] \in Stamp
         /\ incoming' \in Seq(Task) /\ next_sequence_num' \in 0..PostLimit
         /\ stamped' \in [Threads -> Stamp]
<1>0. /\ next_sequence_num \in 0..PostLimit /\ PostLimit \in Nat /\ TimeLimit \in Nat
      /\ stamped \in [Threads -> Stamp]
      /\ next_sequence_num + Cardinality(Locking) <= PostLimit
  BY LimitAssumption DEF Types, Room
<1>1. t \in Locking
  BY DEF Enqueue, Locking
<1>2. Cardinality(Locking) # 0
  BY <1>1, LockingFinite, FS_EmptySet
<1>3. next_sequence_num < PostLimit
  BY <1>0, <1>2, LockingFinite
<1>4. NoStamp \in Stamp
  BY <1>0 DEF NoStamp, Stamp, Null
<1>5. AddToIncomingQueue(t, stamped[t]) /\ stamped' = [stamped EXCEPT ![t] = NoStamp]
  BY DEF Enqueue
<1>6. stamped[t] \in Stamp
  BY <1>0
<1> QED BY <1>0, <1>3, <1>4, <1>5, <1>6, AddedTask

\* A task or a handler touches the queues only by posting a task.
LEMMA CodeTypes ==
  ASSUME Types, NEW f, NEW b, Code(f, b)
  PROVE  /\ incoming' \in Seq(Task) /\ next_sequence_num' \in 0..PostLimit
         /\ stamped' \in [Threads -> Stamp]
<1>1. CASE UNCHANGED <<incoming, next_sequence_num, stamped>>
  BY <1>1 DEF Types
<1>2. CASE \E k \in Kinds[UI] : Post(UI, k)
  BY <1>2, PostTypes DEF Threads
<1> QED BY <1>1, <1>2, CodeCalls

LEMMA FirstTask ==
  ASSUME NEW S, S \subseteq Task, S # {}
  PROVE  First(S) \in S /\ First(S) \in Task /\ First(S).at \in 0..TimeLimit
<1>1. First(S) \in S /\ First(S) \in Task
  BY FirstIn
<1> QED BY <1>1 DEF Task

LEMMA HeadTask ==
  ASSUME NEW s \in Seq(Task), s # <<>>
  PROVE  /\ Head(s) \in Task /\ Head(s).at \in 0..TimeLimit /\ Tail(s) \in Seq(Task)
         /\ Elems(s) = {Head(s)} \union Elems(Tail(s))
<1>1. Head(s) \in Task /\ Tail(s) \in Seq(Task) /\ Elems(s) = {Head(s)} \union Elems(Tail(s))
  BY ElemsTail
<1> QED BY <1>1 DEF Task

LEMMA DoWorkTypes ==
  ASSUME Types, NEW ran, NEW none, DoWork(ran, none)
  PROVE  TaskTypes'
<1>0. /\ incoming \in Seq(Task) /\ work \in Seq(Task) /\ deferred \in Seq(Task)
      /\ delayed \subseteq Task /\ next_sequence_num \in 0..PostLimit
      /\ delayed_work_time \in 0..TimeLimit /\ recent_time \in 0..TimeLimit
      /\ timer \in 0..TimeLimit /\ stamped \in [Threads -> Stamp]
  BY DEF Types
<1>1. CASE UNCHANGED <<taskvars, timevars>>
  BY <1>0, <1>1 DEF TaskTypes, taskvars, timevars
<1>2. CASE ReloadWorkQueue
  <2>1. <<>> \in Seq(Task)
    BY EmptySeq
  <2> QED BY <1>0, <1>2, <2>1 DEF ReloadWorkQueue, TaskTypes, timevars
<1>3. work # <<>> => /\ Head(work) \in Task /\ Head(work).at \in 0..TimeLimit
                     /\ Tail(work) \in Seq(Task)
  BY <1>0, HeadTask
<1>4. CASE work # <<>> /\ MoveToDelayed
  <2>1. delayed_work_time' \in 0..TimeLimit /\ timer' \in 0..TimeLimit
    <3>1. \/ delayed_work_time' = Head(work).at /\ timer' = Head(work).at
          \/ delayed_work_time' = delayed_work_time /\ timer' = timer
      BY <1>4 DEF MoveToDelayed
    <3> QED BY <1>0, <1>3, <1>4, <3>1
  <2> QED BY <1>0, <1>3, <1>4, <2>1 DEF MoveToDelayed, TaskTypes
<1>5. CASE work # <<>> /\ Defer
  <2>1. Append(deferred, Head(work)) \in Seq(Task)
    BY <1>0, <1>3, <1>5
  <2> QED BY <1>0, <1>3, <1>5, <2>1 DEF Defer, TaskTypes, timevars
<1>6. CASE work # <<>> /\ RunFirst(ran)
  <2>1. /\ incoming' \in Seq(Task) /\ next_sequence_num' \in 0..PostLimit
       /\ stamped' \in [Threads -> Stamp]
    BY <1>6, CodeTypes DEF RunFirst
  <2> QED BY <1>0, <1>3, <1>6, <2>1 DEF RunFirst, TaskTypes, timevars
<1> QED BY <1>1, <1>2, <1>4, <1>5, <1>6 DEF DoWork

LEMMA DoDelayedTypes ==
  ASSUME Types, NEW ran, NEW none, DoDelayedWork(ran, none)
  PROVE  TaskTypes' /\ timer' = timer
<1>0. /\ incoming \in Seq(Task) /\ work \in Seq(Task) /\ deferred \in Seq(Task)
      /\ delayed \subseteq Task /\ next_sequence_num \in 0..PostLimit
      /\ delayed_work_time \in 0..TimeLimit /\ recent_time \in 0..TimeLimit
      /\ timer \in 0..TimeLimit /\ now \in 0..TimeLimit
      /\ stamped \in [Threads -> Stamp]
  BY DEF Types
<1>1. CASE NoDelayedWork(none)
  <2>1. Null \in 0..TimeLimit
    BY LimitAssumption DEF Null
  <2> QED BY <1>0, <1>1, <2>1 DEF NoDelayedWork, TaskTypes, taskvars
<1>2. \A t : Reading(t) \in 0..TimeLimit
  BY <1>0 DEF Reading
<1>3. CASE NotYet(none)
  <2>1. First(delayed).at \in 0..TimeLimit
    BY <1>0, <1>3, FirstTask DEF NotYet
  <2> QED BY <1>0, <1>2, <1>3, <2>1 DEF NotYet, TaskTypes, taskvars
<1>4. CASE RunDelayed(ran, none)
  <2> DEFINE t == First(delayed)
  <2>1. t \in Task
    BY <1>0, <1>4, FirstTask DEF RunDelayed
  <2> HIDE DEF t
  <2>2. /\ recent_time' = Reading(t) /\ delayed' = delayed \ {t}
        /\ delayed_work_time' = IF delayed' = {} THEN delayed_work_time ELSE First(delayed').at
        /\ work' = work /\ timer' = timer
    BY <1>4 DEF RunDelayed, t
  <2>3. \/ \E b : Code(ran, b) /\ deferred' = deferred
        \/ deferred' = Append(deferred, t) /\ UNCHANGED <<incoming, next_sequence_num, stamped>>
    BY <1>4 DEF RunDelayed, t
  <2>4. deferred' \in Seq(Task)
    <3>1. deferred' = deferred \/ deferred' = Append(deferred, t)
      BY <2>3
    <3>2. Append(deferred, t) \in Seq(Task)
      BY <1>0, <2>1
    <3> QED BY <1>0, <3>1, <3>2
  <2>5. /\ incoming' \in Seq(Task) /\ next_sequence_num' \in 0..PostLimit
       /\ stamped' \in [Threads -> Stamp]
    BY <1>0, <2>3, CodeTypes
  <2>6. delayed' \subseteq Task
    BY <1>0, <2>2
  <2>7. delayed_work_time' \in 0..TimeLimit
    <3>1. delayed' # {} => First(delayed').at \in 0..TimeLimit
      BY <2>6, FirstTask
    <3> QED BY <1>0, <2>2, <3>1
  <2> QED BY <1>0, <1>2, <2>2, <2>4, <2>5, <2>6, <2>7 DEF TaskTypes
<1> QED BY <1>1, <1>3, <1>4 DEF DoDelayedWork

LEMMA PumpTypes ==
  ASSUME Types, Pump
  PROVE  TaskTypes'
<1>0. /\ incoming \in Seq(Task) /\ work \in Seq(Task) /\ deferred \in Seq(Task)
      /\ delayed \subseteq Task /\ next_sequence_num \in 0..PostLimit
      /\ delayed_work_time \in 0..TimeLimit /\ recent_time \in 0..TimeLimit
      /\ timer \in 0..TimeLimit /\ stamped \in [Threads -> Stamp]
  BY DEF Types
<1>1. Null \in 0..TimeLimit
  BY LimitAssumption DEF Null
<1>2. CASE UNCHANGED <<taskvars, delayed_work_time, recent_time>> /\ timer' \in 0..TimeLimit
  BY <1>0, <1>2 DEF TaskTypes, taskvars
<1>3. ASSUME NEW f, NEW b, Code(f, b), UNCHANGED <<work, delayed, deferred, timevars>>
      PROVE  TaskTypes'
  BY <1>0, <1>3, CodeTypes DEF TaskTypes, timevars
<1>4. CASE PeekNothing \/ PeekHaveWork \/ Again \/ WaitForWork \/ Idled
  BY <1>0, <1>2, <1>4 DEF PeekNothing, PeekHaveWork, Again, WaitForWork, Idled, Leave, timevars
<1>5. CASE PeekTimer \/ Replace \/ Rearm \/ After
  <2>1. UNCHANGED <<taskvars, delayed_work_time, recent_time>>
    BY <1>5 DEF PeekTimer, Replace, Rearm, After, Leave
  <2>2. timer' \in {timer, delayed_work_time, Null}
    BY <1>5 DEF PeekTimer, Replace, Rearm, After
  <2> QED BY <1>0, <1>1, <1>2, <2>1, <2>2
<1>6. CASE PeekInput \/ Dispatch
  BY <1>3, <1>6 DEF PeekInput, Dispatch
<1>7. CASE HandleTimerMessage
  BY <1>7, DoDelayedTypes DEF HandleTimerMessage
<1>8. CASE RunWork
  <2>1. CASE Leave /\ UNCHANGED timer
    BY <2>1, <1>0, <1>2 DEF Leave
  <2> QED BY <1>8, <2>1, DoWorkTypes DEF RunWork
<1>9. CASE RunDelayedWork
  <2>1. CASE Leave /\ UNCHANGED timer
    BY <2>1, <1>0, <1>2 DEF Leave
  <2> QED BY <1>9, <2>1, DoDelayedTypes DEF RunDelayedWork
<1>10. CASE Idle
  <2>1. CASE Leave /\ UNCHANGED timer
    BY <2>1, <1>0, <1>2 DEF Leave
  <2>2. CASE UNCHANGED <<taskvars, timevars>>
    BY <2>2, <1>0, <1>2 DEF timevars
  <2>3. CASE /\ deferred # <<>> /\ deferred' = Tail(deferred)
             /\ Code(Here("idled"), TRUE)
             /\ UNCHANGED <<work, delayed, timevars>>
    <3>1. Tail(deferred) \in Seq(Task)
      BY <1>0, <2>3, HeadTask
    <3>2. /\ incoming' \in Seq(Task) /\ next_sequence_num' \in 0..PostLimit
         /\ stamped' \in [Threads -> Stamp]
      BY <2>3, CodeTypes
    <3> QED BY <1>0, <2>3, <3>1, <3>2 DEF TaskTypes, timevars
  <2> QED BY <1>10, <2>1, <2>2, <2>3 DEF Idle
<1> QED BY <1>4, <1>5, <1>6, <1>7, <1>8, <1>9, <1>10 DEF Pump

\* The room for the tasks about to be posted (a bound of the model).
LEMMA RoomNext ==
  ASSUME Types, StackInv(stack, nestable_allowed), Next \/ UNCHANGED vars
  PROVE  Room'
<1>0. /\ pc \in [Threads -> Places] /\ next_sequence_num \in Nat /\ PostLimit \in Nat
      /\ next_sequence_num + Cardinality(Locking) <= PostLimit
      /\ IsFiniteSet(Locking) /\ Cardinality(Locking) \in Nat
  BY LimitAssumption, LockingFinite DEF Types, Room
<1>1. ASSUME Locking' = Locking, next_sequence_num' = next_sequence_num PROVE Room'
  BY <1>0, <1>1 DEF Room
<1>2. ASSUME NEW t \in Threads, pc[t] # "lock", NEW w \in Places \ {"lock"},
             pc' = [pc EXCEPT ![t] = w]
      PROVE  Locking' = Locking
  BY <1>0, <1>2 DEF Locking
<1>3. ASSUME NEW t \in Threads, NEW k \in Kinds[t], pc[t] = "idle", Post(t, k) PROVE Room'
  <2>1. next_sequence_num + Cardinality(Locking) < PostLimit
    BY <1>3 DEF Post
  <2>2. CASE AddToIncomingQueue(t, StampOf(k))
    <3>1. /\ pc' = [pc EXCEPT ![t] = IF incoming = <<>> THEN "wake" ELSE "idle"]
          /\ next_sequence_num' = next_sequence_num + 1
      BY <2>2 DEF AddToIncomingQueue
    <3>2. Locking' = Locking
      BY <3>1, <1>2, <1>3 DEF Places
    <3> QED BY <3>1, <3>2, <2>1, <1>0 DEF Room
  <2>3. CASE pc' = [pc EXCEPT ![t] = "lock"] /\ UNCHANGED <<incoming, next_sequence_num>>
    <3>1. Locking' = Locking \union {t} /\ t \notin Locking
      BY <2>3, <1>0, <1>3 DEF Locking
    <3>2. Cardinality(Locking') = Cardinality(Locking) + 1
      BY <3>1, <1>0, FS_AddElement
    <3> QED BY <3>2, <2>1, <2>3, <1>0 DEF Room
  <2> QED BY <2>2, <2>3, <1>3, PostPc
<1>4. ASSUME NEW t \in Threads, Enqueue(t) PROVE Room'
  <2>1. /\ pc[t] = "lock" /\ next_sequence_num' = next_sequence_num + 1
        /\ pc' = [pc EXCEPT ![t] = IF incoming = <<>> THEN "wake" ELSE "idle"]
    BY <1>4 DEF Enqueue, AddToIncomingQueue
  <2>2. t \in Locking /\ Locking' = Locking \ {t}
    BY <2>1, <1>0 DEF Locking
  <2>3. Cardinality(Locking') = Cardinality(Locking) - 1
    BY <2>2, <1>0, FS_RemoveElement
  <2> QED BY <2>1, <2>3, <1>0 DEF Room
<1>5. ASSUME NEW t \in Threads, ScheduleWork(t) PROVE Room'
  <2>1. /\ pc[t] # "lock" /\ next_sequence_num' = next_sequence_num
        /\ \E w \in Places \ {"lock"} : pc' = [pc EXCEPT ![t] = w]
    BY <1>5 DEF ScheduleWork, Exchange, PostHaveWork, ClearHaveWork, taskvars, Places
  <2> QED BY <2>1, <1>1, <1>2
<1>6. ASSUME pc' = pc, next_sequence_num' = next_sequence_num PROVE Room'
  BY <1>1, <1>6 DEF Locking
<1>7. CASE Pump
  <2>1. pc[UI] = "idle" /\ UI \in Threads
    BY <1>7, PumpShape DEF Threads
  <2>2. \/ \E k \in Kinds[UI] : Post(UI, k)
        \/ /\ next_sequence_num' = next_sequence_num
           /\ pc' = pc \/ pc' = [pc EXCEPT ![UI] = "wake"]
    BY <1>7, PumpCalls, CodeCalls
  <2>3. CASE pc' = [pc EXCEPT ![UI] = "wake"] /\ next_sequence_num' = next_sequence_num
    <3>1. "wake" \in Places \ {"lock"}
      BY DEF Places
    <3> QED BY <2>1, <2>3, <3>1, <1>1, <1>2
  <2> QED BY <2>1, <2>2, <2>3, <1>3, <1>6
<1>8. ASSUME NEW p \in Posters, NEW k \in Kinds[p], PostTask(p, k) PROVE Room'
  BY <1>3, <1>8 DEF PostTask, Threads
<1>9. CASE EndModal \/ Destroy \/ Input \/ Tick \/ UNCHANGED vars
  BY <1>6, <1>9 DEF EndModal, Leave, Destroy, Input, Tick, vars, taskvars
<1> QED BY <1>4, <1>5, <1>7, <1>8, <1>9 DEF Next

LEMMA TypesNext ==
  ASSUME Types, StackInv(stack, nestable_allowed), Next \/ UNCHANGED vars
  PROVE  Types'
<1>0. /\ queue \in Seq({"work", "input"}) /\ Len(queue) <= QueueLimit
      /\ pc \in [Threads -> Places]
      /\ now \in 0..TimeLimit
  BY DEF Types
<1>a. alive \in BOOLEAN /\ have_work \in BOOLEAN
  BY DEF Types
<1>b. TaskTypes
  BY DEF Types, TaskTypes
<1> DEFINE WinTypes == queue \in Seq({"work", "input"}) /\ Len(queue) <= QueueLimit
           PcTypes == pc \in [Threads -> Places]
           Rest == alive \in BOOLEAN /\ have_work \in BOOLEAN /\ now \in 0..TimeLimit
<1>c. SUFFICES TaskTypes' /\ WinTypes' /\ PcTypes' /\ Rest'
  BY RoomNext DEF Types, TaskTypes
<1>d. ASSUME queue' = queue PROVE WinTypes'
  BY <1>d, <1>0
<1>e. ASSUME pc' = pc PROVE PcTypes'
  BY <1>e, <1>0
<1>f. ASSUME NEW m \in {"work", "input"}, Len(queue) < QueueLimit, queue' = Append(queue, m)
      PROVE  WinTypes'
  <2>1. queue' \in Seq({"work", "input"}) /\ Len(queue') = Len(queue) + 1 /\ Len(queue) \in Nat
    BY <1>0, <1>f
  <2> QED BY <2>1, <1>f, LimitAssumption
<1>g. ASSUME UNCHANGED <<taskvars, timevars>> PROVE TaskTypes'
  BY <1>b, <1>g DEF TaskTypes, taskvars, timevars
<1>1. ASSUME NEW p \in Posters, NEW k \in Kinds[p], PostTask(p, k)
      PROVE  TaskTypes' /\ WinTypes' /\ PcTypes' /\ Rest'
  <2>0. p \in Threads /\ Post(p, k)
    BY <1>1 DEF PostTask, Threads
  <2>1. /\ incoming' \in Seq(Task) /\ next_sequence_num' \in 0..PostLimit
        /\ stamped' \in [Threads -> Stamp]
    BY <2>0, PostTypes
  <2>2. PcTypes'
    BY <1>0, <2>0, PostPc DEF Places
  <2>3. TaskTypes'
    BY <1>b, <1>1, <2>1 DEF PostTask, TaskTypes, timevars
  <2>4. queue' = queue /\ alive' = alive /\ have_work' = have_work /\ now' = now
    BY <1>1 DEF PostTask, winvars
  <2> QED BY <1>0, <1>a, <1>d, <2>2, <2>3, <2>4
<1>h. ASSUME NEW t \in Threads, Enqueue(t)
      PROVE  TaskTypes' /\ WinTypes' /\ PcTypes' /\ Rest'
  <2>1. /\ incoming' \in Seq(Task) /\ next_sequence_num' \in 0..PostLimit
        /\ stamped' \in [Threads -> Stamp]
    BY <1>h, EnqueueTypes
  <2>2. PcTypes'
    BY <1>0, <1>h DEF Enqueue, AddToIncomingQueue, Places
  <2>3. TaskTypes'
    BY <1>b, <1>h, <2>1 DEF Enqueue, TaskTypes, timevars
  <2>4. queue' = queue /\ alive' = alive /\ have_work' = have_work /\ now' = now
    BY <1>h DEF Enqueue, winvars
  <2> QED BY <1>0, <1>a, <1>d, <2>2, <2>3, <2>4
<1>2. ASSUME NEW t \in Threads, ScheduleWork(t)
      PROVE  TaskTypes' /\ WinTypes' /\ PcTypes' /\ Rest'
  <2>1. UNCHANGED <<taskvars, timevars>> /\ alive' = alive /\ now' = now
    BY <1>2 DEF ScheduleWork, Exchange, PostHaveWork, ClearHaveWork
  <2>2. have_work' \in BOOLEAN
    BY <1>2, <1>a DEF ScheduleWork, Exchange, PostHaveWork, ClearHaveWork
  <2>3. \/ queue' = queue
        \/ Len(queue) < QueueLimit /\ queue' = Append(queue, "work")
    BY <1>2 DEF ScheduleWork, Exchange, PostHaveWork, ClearHaveWork
  <2>4. \E v \in {"idle", "post", "fail"} : pc' = [pc EXCEPT ![t] = v]
    BY <1>2 DEF ScheduleWork, Exchange, PostHaveWork, ClearHaveWork
  <2>5. PcTypes'
    BY <2>4, <1>0 DEF Places
  <2>6. WinTypes'
    BY <2>3, <1>d, <1>f
  <2> QED BY <2>1, <2>2, <2>5, <2>6, <1>0, <1>a, <1>g
<1>3. CASE Pump
  <2>1. TaskTypes'
    BY <1>3, PumpTypes
  <2>2. alive' = alive /\ now' = now
    BY <1>3 DEF Pump
  <2>3. PcTypes'
    <3>1. pc[UI] = "idle"
      BY <1>3, PumpShape
    <3>2. PICK w \in {"idle", "lock", "wake"} : pc' = [pc EXCEPT ![UI] = w]
      BY <1>0, <1>3, <3>1, PumpPc
    <3> QED BY <3>2, <1>0 DEF Places
  <2>4. have_work' \in BOOLEAN /\ (queue' = queue \/ (queue # <<>> /\ queue' = Tail(queue)))
    <3>1. CASE UNCHANGED winvars
      BY <3>1, <1>a DEF winvars
    <3>2. CASE PeekInput \/ PeekHaveWork \/ Replace
      BY <3>2, <1>a DEF PeekInput, PeekHaveWork, Replace
    <3> QED BY <1>3, <3>1, <3>2 DEF Pump, PeekNothing, PeekTimer, Dispatch,
              HandleTimerMessage, Rearm, RunWork, Again, RunDelayedWork, After, Idle, Idled,
              WaitForWork
  <2>5. WinTypes'
    <3>1. queue # <<>> => Tail(queue) \in Seq({"work", "input"}) /\ Len(Tail(queue)) = Len(queue) - 1
      BY <1>0, HeadTailProperties
    <3>2. Len(queue) \in Nat
      BY <1>0
    <3> QED BY <1>0, <1>d, <2>4, <3>1, <3>2, LimitAssumption
  <2> QED BY <2>1, <2>2, <2>3, <2>4, <2>5, <1>0, <1>a
<1>4. CASE EndModal
  <2>1. /\ UNCHANGED <<taskvars, timevars>> /\ pc' = pc /\ queue' = queue /\ have_work' = have_work
        /\ alive' = alive /\ now' = now
    BY <1>4 DEF EndModal, Leave, winvars, timevars
  <2> QED BY <2>1, <1>0, <1>a, <1>d, <1>e, <1>g
<1>5. CASE Destroy
  <2>1. /\ incoming' = <<>> /\ work' = <<>> /\ delayed' = {} /\ deferred' = <<>>
        /\ next_sequence_num' = next_sequence_num /\ stamped' = stamped /\ UNCHANGED timevars
        /\ pc' = pc /\ queue' = queue /\ have_work' = have_work
        /\ alive' \in BOOLEAN /\ now' = now
    BY <1>5 DEF Destroy, winvars
  <2>2. <<>> \in Seq(Task)
    BY EmptySeq
  <2>3. TaskTypes'
    BY <1>b, <2>1, <2>2 DEF TaskTypes, timevars
  <2> QED BY <2>1, <2>3, <1>0, <1>a, <1>d, <1>e
<1>6. CASE Input
  <2>1. /\ UNCHANGED <<taskvars, timevars>> /\ pc' = pc /\ have_work' = have_work
        /\ alive' = alive /\ now' = now
        /\ Len(queue) < QueueLimit /\ queue' = Append(queue, "input")
    BY <1>6 DEF Input
  <2> QED BY <2>1, <1>0, <1>a, <1>e, <1>f, <1>g
<1>7. CASE Tick
  <2>1. /\ UNCHANGED <<taskvars, timevars>> /\ pc' = pc /\ queue' = queue /\ have_work' = have_work
        /\ alive' = alive /\ now < TimeLimit /\ now' = now + 1
    BY <1>7 DEF Tick, winvars
  <2>2. now' \in 0..TimeLimit
    BY <2>1, <1>0, LimitAssumption
  <2> QED BY <2>1, <2>2, <1>0, <1>a, <1>d, <1>e, <1>g
<1>8. CASE UNCHANGED vars
  <2>1. /\ UNCHANGED <<taskvars, timevars>> /\ pc' = pc /\ queue' = queue /\ have_work' = have_work
        /\ alive' = alive /\ now' = now
    BY <1>8 DEF vars, winvars
  <2> QED BY <2>1, <1>0, <1>a, <1>d, <1>e, <1>g
<1> HIDE DEF WinTypes, PcTypes, Rest
<1> QED BY <1>1, <1>h, <1>2, <1>3, <1>4, <1>5, <1>6, <1>7, <1>8 DEF Next

-----------------------------------------------------------------------------
(* The order of the tasks, whatever is done with one of them. *)

\* Tasks are taken away.
LEMMA SetDrop ==
  ASSUME NEW I, NEW W, NEW D, NEW F, NEW S, NEW n, NEW c, SetOrder(I, W, D, F, S, n, c),
         NEW I2 \in SUBSET I, NEW W2 \in SUBSET W, NEW D2 \in SUBSET D, NEW F2 \in SUBSET F,
         NEW S2 \in SUBSET S
  PROVE  SetOrder(I2, W2, D2, F2, S2, n, c)
<1>1. \A t \in F2 : ~t.nestable /\ t.at <= c /\ ~Before(t, I2 \union W2 \union D2)
  BY DEF SetOrder, Before
<1> QED BY <1>1 DEF SetOrder

\* A task that precedes another one has a smaller number.
LEMMA PrecedesSeq ==
  ASSUME NEW u \in Task, NEW t \in Task, t.after <= t.seq, Precedes(u, t)
  PROVE  u.seq < t.seq /\ u.delay <= t.delay
<1>1. u.seq \in Nat /\ t.seq \in Nat /\ t.after \in Nat
  BY LimitAssumption DEF Task
<1> QED BY <1>1 DEF Precedes

\* A task is posted: it has the last number, and the time s (AddToIncomingQueue).
LEMMA SetPost ==
  ASSUME NEW I \in SUBSET Task, NEW W \in SUBSET Task, NEW D \in SUBSET Task,
         NEW F \in SUBSET Task, NEW S \in SUBSET Stamp, NEW n \in Nat, NEW c \in Nat,
         SetOrder(I, W, D, F, S, n, c), NEW t \in Task, t.seq = n, NEW s \in S,
         t.at = s.at, t.delay = s.delay, t.after = s.after
  PROVE  SetOrder(I \union {t}, W, D, F, S, n + 1, c)
<1>0. \A u \in I \union W \union D \union F \union {t} :
        u.seq \in Nat /\ u.at \in Nat /\ u.delay \in Nat /\ u.after \in Nat
  BY LimitAssumption DEF Task
<1>a. \A u \in S : u.after \in Nat
  BY LimitAssumption DEF Stamp
<1>1. \A u \in I \union W \union D \union F : u.seq < t.seq /\ u.after <= u.seq
  BY DEF SetOrder
<1>2. \A u \in F : ~u.nestable /\ u.at <= c /\ ~Before(u, (I \union {t}) \union W \union D)
  <2> TAKE u \in F
  <2>1. ~u.nestable /\ u.at <= c /\ ~Before(u, I \union W \union D)
    BY DEF SetOrder
  <2>2. ~Precedes(t, u)
    <3>1. u \in Task /\ u.seq < t.seq /\ u.after <= u.seq
      BY <1>1
    <3>2. u.seq \in Nat /\ t.seq \in Nat
      BY <1>0
    <3>3. ~(t.seq < u.seq)
      BY <3>1, <3>2
    <3> QED BY <3>1, <3>3, PrecedesSeq
  <2> QED BY <2>1, <2>2 DEF Before
<1>3. t.seq < n + 1 /\ t.after <= t.seq /\ Timed(t, c)
  <2>1. Timed(s, c) /\ s.after <= n
    BY DEF SetOrder
  <2> QED BY <1>0, <2>1 DEF Timed, Posted
<1>4. \A u \in I \union W \union D \union F \union {t} : u.seq < n + 1 /\ u.after <= u.seq
  <2>1. \A u \in I \union W \union D \union F : u.seq < n + 1
    BY <1>0, <1>1
  <2> QED BY <2>1, <1>1, <1>3
<1>5. \A u \in S : u.after <= n + 1 /\ u.after <= t.seq
  <2> TAKE u \in S
  <2>1. u.after <= n /\ u.after \in Nat
    BY <1>a DEF SetOrder
  <2> QED BY <2>1
<1>6. \A u \in I \union W \union D \union F \union {t} \union S : Timed(u, c)
  BY <1>3 DEF SetOrder
<1>7. ASSUME NEW u \in (I \union {t}) \union W \union D \union F,
             NEW v \in (I \union {t}) \union W \union D \union F \union S,
             u.at # Null, v.at # Null, u.seq < v.after
      PROVE  Posted(u) <= Posted(v)
  <2>1. u # t
    <3>1. v.after <= t.seq /\ v.after \in Nat
      <4>1. CASE v \in S
        BY <4>1, <1>5, <1>a
      <4>2. CASE v \in I \union W \union D \union F
        <5>1. v.after <= v.seq /\ v.seq < t.seq
          BY <4>2, <1>1
        <5>2. v.seq \in Nat /\ v.after \in Nat /\ t.seq \in Nat
          BY <4>2, <1>0
        <5> QED BY <5>1, <5>2
      <4>3. CASE v = t
        BY <4>3, <1>0, <1>3
      <4> QED BY <4>1, <4>2, <4>3
    <3>2. t.seq \in Nat
      BY <1>0
    <3> QED BY <3>1, <3>2, <1>7
  <2>2. u \in I \union W \union D \union F
    BY <2>1
  <2>3. CASE v = t
    <3>1. Posted(u) <= Posted(s)
      BY <2>2, <2>3, <1>7 DEF SetOrder
    <3> QED BY <3>1, <2>3 DEF Posted
  <2>4. CASE v # t
    BY <2>2, <2>4, <1>7 DEF SetOrder
  <2> QED BY <2>3, <2>4
<1>8. /\ \A u \in W, v \in I \union {t} : u.seq < v.seq
      /\ \A u \in D, v \in (I \union {t}) \union W : u.seq < v.seq
      /\ \A u \in D : u.at # Null
  BY <1>1 DEF SetOrder
<1> QED BY <1>2, <1>4, <1>5, <1>6, <1>7, <1>8 DEF SetOrder

\* A thread reads the clock (CalculateDelayedRuntime).
LEMMA SetStamp ==
  ASSUME NEW I \in SUBSET Task, NEW W \in SUBSET Task, NEW D \in SUBSET Task,
         NEW F \in SUBSET Task, NEW S \in SUBSET Stamp, NEW n \in Nat, NEW c \in Nat,
         SetOrder(I, W, D, F, S, n, c), NEW s \in Stamp, s.after <= n,
         \/ s.at = Null /\ s.delay = 0
         \/ s.at # Null /\ s.delay > 0 /\ s.at = c + s.delay
  PROVE  SetOrder(I, W, D, F, S \union {s}, n, c)
<1>1. s.at \in Nat /\ s.delay \in Nat
  BY LimitAssumption DEF Stamp
<1>2. s.at # Null => Posted(s) = c
  BY <1>1 DEF Posted
<1>3. Timed(s, c)
  BY <1>2 DEF Timed
<1>4. ASSUME NEW u \in I \union W \union D \union F, u.at # Null, s.at # Null
      PROVE  Posted(u) <= Posted(s)
  <2>1. Posted(u) \in 0..c
    BY <1>4 DEF SetOrder, Timed
  <2> QED BY <2>1, <1>2, <1>4
<1> QED BY <1>3, <1>4 DEF SetOrder

\* The incoming queue becomes the work queue (ReloadWorkQueue).
LEMMA SetReload ==
  ASSUME NEW I, NEW D, NEW F, NEW S, NEW n, NEW c, SetOrder(I, {}, D, F, S, n, c)
  PROVE  SetOrder({}, I, D, F, S, n, c)
BY DEF SetOrder, Before

\* Nothing had to run before the first task of the work queue.
LEMMA HeadFirst ==
  ASSUME NEW I \in SUBSET Task, NEW W \in SUBSET Task, NEW D \in SUBSET Task,
         NEW F \in SUBSET Task, NEW S, NEW n, NEW c, NEW h \in Task,
         SetOrder(I, {h} \union W, D, F, S, n, c), \A u \in W : h.seq < u.seq,
         h.at = Null
  PROVE  ~Before(h, I \union W \union D)
<1>0. \A u \in I \union W \union D \union F \union {h} :
        u.seq \in Nat /\ u.at \in Nat /\ u.delay \in Nat
  BY LimitAssumption DEF Task
<1>1. \A u \in I \union W : h.seq < u.seq
  BY DEF SetOrder
<1>2. h.delay = 0 /\ \A u \in D : u.delay > 0
  BY DEF SetOrder, Timed
<1>3. \A u \in I \union W \union D : ~(u.seq < h.seq /\ u.delay <= h.delay)
  <2> TAKE u \in I \union W \union D
  <2>1. CASE u \in I \union W
    BY <2>1, <1>0, <1>1
  <2>2. CASE u \in D
    BY <2>2, <1>0, <1>2
  <2> QED BY <2>1, <2>2
<1>4. h.after <= h.seq
  BY DEF SetOrder
<1> QED BY <1>3, <1>4, PrecedesSeq DEF Before

\* Nothing had to run before the first delayed task.
LEMMA DelayedFirst ==
  ASSUME NEW I \in SUBSET Task, NEW W \in SUBSET Task, NEW D \in SUBSET Task,
         NEW F \in SUBSET Task, NEW S, NEW n, NEW c, NEW t \in D,
         SetOrder(I, W, D, F, S, n, c), \A u \in D : Earlier(t, u)
  PROVE  ~Before(t, I \union W \union D)
<1>0. \A u \in I \union W \union D \union F :
        u.seq \in Nat /\ u.at \in Nat /\ u.delay \in Nat
  BY LimitAssumption DEF Task
<1>1. \A u \in I \union W : t.seq < u.seq
  BY DEF SetOrder
<1>2. \A u \in D : ~Precedes(u, t)
  <2> SUFFICES ASSUME NEW u \in D, Precedes(u, t) PROVE FALSE
    OBVIOUS
  <2>1. /\ u.delay > 0 /\ u.at # Null /\ t.at # Null
        /\ u \in Task /\ t \in Task /\ t.after <= t.seq
    BY DEF SetOrder, Timed
  <2>2. u.seq < t.seq /\ u.delay <= t.delay /\ u.seq < t.after
    BY <2>1, <1>0, PrecedesSeq DEF Precedes
  <2>3. u.at - u.delay <= t.at - t.delay
    BY <2>1, <2>2 DEF SetOrder, Posted
  <2>4. u.at <= t.at
    BY <1>0, <2>2, <2>3
  <2>5. Earlier(t, u)
    OBVIOUS
  <2> QED BY <1>0, <2>2, <2>4, <2>5 DEF Earlier
<1>3. \A u \in I \union W : ~Precedes(u, t)
  <2>1. t \in Task /\ t.after <= t.seq
    BY DEF SetOrder
  <2> QED BY <1>0, <1>1, <2>1, PrecedesSeq
<1> QED BY <1>2, <1>3 DEF Before

\* The first task of the work queue is delayed (AddToDelayedWorkQueue).
LEMMA SetDelay ==
  ASSUME NEW I, NEW W, NEW D, NEW F, NEW S, NEW n, NEW c, NEW h,
         SetOrder(I, {h} \union W, D, F, S, n, c), \A u \in W : h.seq < u.seq,
         h.at # Null
  PROVE  SetOrder(I, W, D \union {h}, F, S, n, c)
<1>1. /\ \A t \in W, u \in I : t.seq < u.seq
      /\ \A t \in D \union {h}, u \in I \union W : t.seq < u.seq
      /\ \A t \in D \union {h} : t.at # Null
  BY DEF SetOrder
<1>2. I \union W \union (D \union {h}) = I \union ({h} \union W) \union D
  OBVIOUS
<1> QED BY <1>1, <1>2 DEF SetOrder

\* A task is taken from its queue and put off (deferred_non_nestable_work_queue_).
LEMMA SetPutOff ==
  ASSUME NEW I, NEW W1, NEW D1, NEW F, NEW S, NEW n, NEW c, SetOrder(I, W1, D1, F, S, n, c),
         NEW W \in SUBSET W1, NEW D \in SUBSET D1, NEW t \in W1 \union D1,
         ~t.nestable, t.at <= c, ~Before(t, I \union W \union D)
  PROVE  SetOrder(I, W, D, F \union {t}, S, n, c)
<1>1. I \union W \union D \union (F \union {t}) \subseteq I \union W1 \union D1 \union F
  OBVIOUS
<1>2. \A u \in F : ~u.nestable /\ u.at <= c /\ ~Before(u, I \union W \union D)
  BY DEF SetOrder, Before
<1>3. /\ \A u \in W, v \in I : u.seq < v.seq
      /\ \A u \in D, v \in I \union W : u.seq < v.seq
      /\ \A u \in D : u.at # Null
  BY DEF SetOrder
<1> QED BY <1>1, <1>2, <1>3 DEF SetOrder

\* Time passes.
LEMMA SetTick ==
  ASSUME NEW I, NEW W, NEW D, NEW F \in SUBSET Task, NEW S, NEW n, NEW c \in Nat,
         SetOrder(I, W, D, F, S, n, c)
  PROVE  SetOrder(I, W, D, F, S, n, c + 1)
<1>1. \A t \in I \union W \union D \union F \union S : Timed(t, c) => Timed(t, c + 1)
  BY DEF Timed
<1>2. \A t \in F : t.at \in Nat /\ (t.at <= c => t.at <= c + 1)
  <2>1. \A t \in F : t.at \in Nat
    BY LimitAssumption DEF Task
  <2> QED BY <2>1
<1> QED BY <1>1, <1>2 DEF SetOrder

-----------------------------------------------------------------------------
(* The order of the tasks in a step. *)

LEMMA SortedTail ==
  ASSUME NEW s \in Seq(Task), s # <<>>, Sorted(s)
  PROVE  Sorted(Tail(s)) /\ \A u \in Elems(Tail(s)) : Head(s).seq < u.seq
<1>1. /\ Tail(s) \in Seq(Task) /\ Len(Tail(s)) = Len(s) - 1 /\ Len(s) \in Nat \ {0}
      /\ \A i \in 1..Len(Tail(s)) : Tail(s)[i] = s[i + 1]
  BY HeadTailProperties, EmptySeq
<1>2. DOMAIN s = 1..Len(s) /\ DOMAIN Tail(s) = 1..Len(s) - 1 /\ Head(s) = s[1]
  BY <1>1, LenProperties
<1>3. \A i \in DOMAIN Tail(s) : i + 1 \in DOMAIN s /\ 1 \in DOMAIN s /\ 1 < i + 1
  BY <1>1, <1>2
<1>4. Sorted(Tail(s))
  <2> SUFFICES ASSUME NEW i \in DOMAIN Tail(s), NEW j \in DOMAIN Tail(s), i < j
               PROVE  Tail(s)[i].seq < Tail(s)[j].seq
    BY DEF Sorted
  <2>1. i + 1 < j + 1 /\ i + 1 \in DOMAIN s /\ j + 1 \in DOMAIN s
    BY <1>1, <1>2, <1>3
  <2>2. s[i + 1].seq < s[j + 1].seq
    BY <2>1 DEF Sorted
  <2>3. Tail(s)[i] = s[i + 1] /\ Tail(s)[j] = s[j + 1]
    BY <1>1, <1>2
  <2> QED BY <2>2, <2>3
<1>5. \A u \in Elems(Tail(s)) : Head(s).seq < u.seq
  <2> SUFFICES ASSUME NEW i \in DOMAIN Tail(s) PROVE Head(s).seq < Tail(s)[i].seq
    BY DEF Elems
  <2>1. s[1].seq < s[i + 1].seq
    BY <1>3 DEF Sorted
  <2>2. Tail(s)[i] = s[i + 1]
    BY <1>1, <1>2
  <2> QED BY <2>1, <2>2, <1>2
<1> QED BY <1>4, <1>5

LEMMA SortedAppend ==
  ASSUME NEW s \in Seq(Task), Sorted(s), NEW t \in Task, \A u \in Elems(s) : u.seq < t.seq
  PROVE  Sorted(Append(s, t))
<1> DEFINE r == Append(s, t)
<1>1. /\ Len(s) \in Nat /\ DOMAIN s = 1..Len(s) /\ DOMAIN r = 1..Len(s) + 1
      /\ r[Len(s) + 1] = t /\ \A i \in 1..Len(s) : r[i] = s[i]
  BY LenProperties
<1> HIDE DEF r
<1>2. SUFFICES ASSUME NEW i \in DOMAIN r, NEW j \in DOMAIN r, i < j PROVE r[i].seq < r[j].seq
  BY DEF Sorted, r
<1>3. i \in DOMAIN s /\ r[i] = s[i]
  BY <1>1, <1>2
<1>4. CASE j = Len(s) + 1
  <2>1. s[i] \in Elems(s)
    BY <1>3 DEF Elems
  <2> QED BY <2>1, <1>1, <1>3, <1>4
<1>5. CASE j # Len(s) + 1
  <2>1. j \in DOMAIN s /\ r[j] = s[j]
    BY <1>1, <1>5
  <2> QED BY <2>1, <1>2, <1>3 DEF Sorted
<1> QED BY <1>4, <1>5

LEMMA ElemsTask ==
  ASSUME NEW s \in Seq(Task) PROVE Elems(s) \in SUBSET Task
BY LenProperties DEF Elems

LEMMA EmptySorted == Sorted(<<>>) /\ Elems(<<>>) = {}
<1>1. DOMAIN <<>> = {}
  OBVIOUS
<1> QED BY <1>1 DEF Sorted, Elems

LEMMA StampsTyped == Types => Stamps \in SUBSET Stamp
BY DEF Types, Stamps

LEMMA StampsSame == stamped' = stamped => Stamps' = Stamps
BY DEF Stamps

\* The order of incoming, with whatever the other queues hold, when a task joins it.
LEMMA AddOrder ==
  ASSUME Types, NEW t, NEW S \in SUBSET Stamp, NEW s \in S, AddToIncomingQueue(t, s),
         next_sequence_num < PostLimit, Sorted(incoming),
         NEW W \in SUBSET Task, NEW D \in SUBSET Task, NEW F \in SUBSET Task,
         SetOrder(Elems(incoming), W, D, F, S, next_sequence_num, now)
  PROVE  /\ Sorted(incoming') /\ Elems(incoming) \subseteq Elems(incoming')
         /\ SetOrder(Elems(incoming'), W, D, F, S, next_sequence_num', now)
<1> DEFINE new == NewTask(s)
<1>0. s \in Stamp
  OBVIOUS
<1>1. /\ incoming' = Append(incoming, new) /\ new \in Task
      /\ next_sequence_num' = next_sequence_num + 1
  BY <1>0, AddedTask
<1>2. now \in Nat /\ next_sequence_num \in Nat /\ incoming \in Seq(Task)
  BY LimitAssumption DEF Types
<1>3. /\ new.seq = next_sequence_num /\ new.at = s.at /\ new.delay = s.delay
      /\ new.after = s.after
  BY DEF NewTask
<1> HIDE DEF new
<1>4. Elems(incoming') = Elems(incoming) \union {new}
  BY <1>1, <1>2, ElemsAppend
<1>5. Elems(incoming) \in SUBSET Task
  BY <1>2, ElemsTask
<1>6. SetOrder(Elems(incoming) \union {new}, W, D, F, S, next_sequence_num + 1, now)
  BY <1>1, <1>2, <1>3, <1>5, SetPost
<1>7. \A u \in Elems(incoming) : u.seq < new.seq
  BY <1>3 DEF SetOrder
<1>8. Sorted(incoming')
  BY <1>1, <1>2, <1>7, SortedAppend
<1> QED BY <1>1, <1>4, <1>6, <1>8

\* The same, when a thread reads the clock.
LEMMA StampOrder ==
  ASSUME Types, NEW k, k.delay \in Nat, StampOf(k) \in Stamp,
         NEW W \in SUBSET Task, NEW D \in SUBSET Task, NEW F \in SUBSET Task,
         SetOrder(Elems(incoming), W, D, F, Stamps, next_sequence_num, now)
  PROVE  SetOrder(Elems(incoming), W, D, F, Stamps \union {StampOf(k)}, next_sequence_num, now)
<1> DEFINE s == StampOf(k)
<1>1. now \in Nat /\ next_sequence_num \in Nat /\ Elems(incoming) \in SUBSET Task
      /\ Stamps \in SUBSET Stamp
  BY LimitAssumption, ElemsTask, StampsTyped DEF Types
<1>2. /\ s.after <= next_sequence_num
      /\ \/ s.at = Null /\ s.delay = 0
         \/ s.at # Null /\ s.delay > 0 /\ s.at = now + s.delay
  BY <1>1 DEF StampOf, Null
<1> HIDE DEF s
<1>3. s \in Stamp
  BY DEF s
<1> QED BY <1>1, <1>2, <1>3, SetStamp DEF s

LEMMA PostOrder ==
  ASSUME Types, NEW t \in Threads, NEW k \in Kinds[t], Post(t, k), Sorted(incoming),
         NEW W \in SUBSET Task, NEW D \in SUBSET Task, NEW F \in SUBSET Task,
         SetOrder(Elems(incoming), W, D, F, Stamps, next_sequence_num, now)
  PROVE  /\ Sorted(incoming') /\ Elems(incoming) \subseteq Elems(incoming')
         /\ SetOrder(Elems(incoming'), W, D, F, Stamps', next_sequence_num', now)
<1> DEFINE S == Stamps \union {StampOf(k)}
<1>1. next_sequence_num < PostLimit /\ StampOf(k) \in Stamp
  BY PostTypes
<1>2. k.delay \in Nat
  BY KindAssumption DEF Threads
<1>3. S \in SUBSET Stamp /\ StampOf(k) \in S /\ Stamps \in SUBSET S
  BY <1>1, StampsTyped
<1>4. SetOrder(Elems(incoming), W, D, F, S, next_sequence_num, now)
  BY <1>1, <1>2, StampOrder
<1>5. CASE AddToIncomingQueue(t, StampOf(k)) /\ stamped' = stamped
  <2> HIDE DEF S
  <2>1. /\ Sorted(incoming') /\ Elems(incoming) \subseteq Elems(incoming')
        /\ SetOrder(Elems(incoming'), W, D, F, S, next_sequence_num', now)
    BY <1>1, <1>3, <1>4, <1>5, AddOrder
  <2>2. Stamps' \in SUBSET S
    BY <1>3, <1>5, StampsSame
  <2> QED BY <2>1, <2>2, SetDrop
<1>6. CASE /\ stamped' = [stamped EXCEPT ![t] = StampOf(k)]
           /\ UNCHANGED <<incoming, next_sequence_num>>
  <2>1. Stamps' \in SUBSET S
    <3>1. stamped \in [Threads -> Stamp]
      BY DEF Types
    <3> QED BY <3>1, <1>6 DEF Stamps
  <2> HIDE DEF S
  <2>2. SetOrder(Elems(incoming), W, D, F, Stamps', next_sequence_num, now)
    BY <1>4, <2>1, SetDrop
  <2> QED BY <1>6, <2>2
<1> QED BY <1>5, <1>6, PostPc

LEMMA EnqueueOrder ==
  ASSUME Types, NEW t \in Threads, Enqueue(t), Sorted(incoming),
         NEW W \in SUBSET Task, NEW D \in SUBSET Task, NEW F \in SUBSET Task,
         SetOrder(Elems(incoming), W, D, F, Stamps, next_sequence_num, now)
  PROVE  /\ Sorted(incoming') /\ Elems(incoming) \subseteq Elems(incoming')
         /\ SetOrder(Elems(incoming'), W, D, F, Stamps', next_sequence_num', now)
<1>1. next_sequence_num < PostLimit /\ next_sequence_num' \in 0..PostLimit
      /\ incoming' \in Seq(Task)
  BY EnqueueTypes
<1>2. AddToIncomingQueue(t, stamped[t]) /\ stamped' = [stamped EXCEPT ![t] = NoStamp]
  BY DEF Enqueue
<1>3. Stamps \in SUBSET Stamp /\ stamped[t] \in Stamps
  BY StampsTyped DEF Stamps
<1>4. /\ Sorted(incoming') /\ Elems(incoming) \subseteq Elems(incoming')
      /\ SetOrder(Elems(incoming'), W, D, F, Stamps, next_sequence_num', now)
  BY <1>1, <1>2, <1>3, AddOrder
<1>5. /\ NoStamp \in Stamp /\ NoStamp.after = 0 /\ NoStamp.at = Null /\ NoStamp.delay = 0
  BY LimitAssumption DEF NoStamp, Stamp, Null
<1>6. /\ next_sequence_num' \in Nat /\ now \in Nat /\ 0 <= next_sequence_num'
      /\ Elems(incoming') \in SUBSET Task
  BY <1>1, ElemsTask, LimitAssumption DEF Types
<1>7. SetOrder(Elems(incoming'), W, D, F, Stamps \union {NoStamp}, next_sequence_num', now)
  BY <1>3, <1>4, <1>5, <1>6, SetStamp
<1>8. Stamps' \in SUBSET (Stamps \union {NoStamp})
  <2>1. stamped \in [Threads -> Stamp]
    BY DEF Types
  <2> QED BY <2>1, <1>2 DEF Stamps
<1> QED BY <1>4, <1>7, <1>8, SetDrop

LEMMA CodeOrder ==
  ASSUME Types, NEW f, NEW b, Code(f, b), Sorted(incoming),
         NEW W \in SUBSET Task, NEW D \in SUBSET Task, NEW F \in SUBSET Task,
         SetOrder(Elems(incoming), W, D, F, Stamps, next_sequence_num, now)
  PROVE  /\ Sorted(incoming') /\ Elems(incoming) \subseteq Elems(incoming')
         /\ SetOrder(Elems(incoming'), W, D, F, Stamps', next_sequence_num', now)
<1>1. CASE UNCHANGED <<incoming, next_sequence_num, stamped>>
  BY <1>1, StampsSame
<1>2. CASE \E k \in Kinds[UI] : Post(UI, k)
  BY <1>2, PostOrder DEF Threads
<1> QED BY <1>1, <1>2, CodeCalls

Ord == Order(incoming, work, delayed, deferred, Stamps, next_sequence_num, recent_time, now)

\* A task that starts in this step is due, and nothing had to run before it.
Proper == \A t \in Pending : t \notin Pending' => t.at <= now /\ ~Before(t, Pending)

LEMMA BeforePending ==
  ASSUME Ord, NEW t, ~Before(t, Elems(incoming) \union Elems(work) \union delayed)
  PROVE  ~Before(t, Pending)
BY DEF Ord, Order, SetOrder, Before, Pending

\* No task is taken.
LEMMA ProperKeeps ==
  ASSUME Pending \subseteq Pending' PROVE Proper
BY DEF Proper

\* What is known of the queues before a step.
LEMMA OrdSets ==
  ASSUME Types, Ord
  PROVE  /\ Elems(incoming) \in SUBSET Task /\ Elems(work) \in SUBSET Task
         /\ Elems(deferred) \in SUBSET Task /\ delayed \in SUBSET Task
         /\ incoming \in Seq(Task) /\ work \in Seq(Task) /\ deferred \in Seq(Task)
         /\ SetOrder(Elems(incoming), Elems(work), delayed, Elems(deferred), Stamps,
                     next_sequence_num, now)
         /\ Sorted(incoming) /\ Sorted(work)
         /\ recent_time \in Nat /\ now \in Nat /\ recent_time <= now
BY ElemsTask, LimitAssumption DEF Types, Ord, Order

LEMMA DoWorkOrder ==
  ASSUME Types, Ord, now' = now, NEW ran, NEW none, DoWork(ran, none)
  PROVE  Ord' /\ Proper
<1> DEFINE I == Elems(incoming)
           W == Elems(work)
           F == Elems(deferred)
           n == next_sequence_num
<1>0. /\ I \in SUBSET Task /\ W \in SUBSET Task /\ F \in SUBSET Task /\ delayed \in SUBSET Task
      /\ incoming \in Seq(Task) /\ work \in Seq(Task) /\ deferred \in Seq(Task)
      /\ SetOrder(I, W, delayed, F, Stamps, n, now)
      /\ Sorted(incoming) /\ Sorted(work)
      /\ recent_time \in Nat /\ now \in Nat /\ recent_time <= now
  BY OrdSets
<1>1. CASE UNCHANGED <<taskvars, timevars>>
  BY <1>1, StampsSame DEF taskvars, timevars, Ord, Pending, Proper
<1>2. CASE ReloadWorkQueue
  <2>1. /\ work = <<>> /\ work' = incoming /\ incoming' = <<>>
        /\ delayed' = delayed /\ deferred' = deferred
        /\ next_sequence_num' = next_sequence_num /\ recent_time' = recent_time
        /\ Stamps' = Stamps
    BY <1>2, StampsSame DEF ReloadWorkQueue, timevars
  <2>2. Elems(work') = I /\ Elems(incoming') = {} /\ W = {} /\ Sorted(incoming')
    BY <2>1, EmptySorted
  <2>3. SetOrder({}, I, delayed, F, Stamps, n, now)
    BY <1>0, <2>2, SetReload
  <2>4. Ord'
    BY <1>0, <2>1, <2>2, <2>3 DEF Ord, Order
  <2>5. Pending' = Pending
    BY <2>1, <2>2 DEF Pending
  <2> QED BY <2>4, <2>5, ProperKeeps
<1> DEFINE h == Head(work)
           T == Elems(Tail(work))
<1>3. ASSUME work # <<>>
      PROVE  /\ h \in Task /\ Tail(work) \in Seq(Task) /\ T \in SUBSET Task
             /\ W = {h} \union T /\ Sorted(Tail(work))
             /\ \A u \in T : h.seq < u.seq
  BY <1>0, <1>3, HeadTask, SortedTail, ElemsTask
<1>4. CASE work # <<>> /\ MoveToDelayed
  <2>1. /\ h.at # Null /\ work' = Tail(work) /\ delayed' = delayed \union {h}
        /\ incoming' = incoming /\ deferred' = deferred
        /\ next_sequence_num' = next_sequence_num /\ recent_time' = recent_time
        /\ Stamps' = Stamps
    BY <1>4, StampsSame DEF MoveToDelayed
  <2>2. SetOrder(I, {h} \union T, delayed, F, Stamps, n, now)
    BY <1>0, <1>3, <1>4
  <2>a. \A u \in T : h.seq < u.seq
    BY <1>3, <1>4
  <2>3. SetOrder(I, T, delayed \union {h}, F, Stamps, n, now)
    <3> HIDE DEF h, T, I, F, n
    <3> QED BY <2>1, <2>2, <2>a, SetDelay
  <2>4. Ord'
    BY <1>0, <1>3, <1>4, <2>1, <2>3 DEF Ord, Order
  <2>5. Pending' = Pending
    <3>1. W = {h} \union T
      BY <1>3, <1>4
    <3>2. Elems(work') = T
      BY <2>1
    <3> HIDE DEF h, T
    <3> QED BY <2>1, <3>1, <3>2 DEF Pending
  <2> QED BY <2>4, <2>5, ProperKeeps
<1>5. ASSUME work # <<>>, h.at = Null
      PROVE  ~Before(h, I \union T \union delayed)
  <2>1. SetOrder(I, {h} \union T, delayed, F, Stamps, n, now)
    BY <1>0, <1>3, <1>5
  <2>2. h \in Task /\ T \in SUBSET Task /\ \A u \in T : h.seq < u.seq
    BY <1>3, <1>5
  <2>3. h.at = Null
    BY <1>5
  <2> HIDE DEF h, T, I, F, n
  <2> QED BY <1>0, <2>1, <2>2, <2>3, HeadFirst
<1>6. CASE work # <<>> /\ Defer
  <2>1. /\ h.at = Null /\ ~h.nestable /\ work' = Tail(work)
        /\ deferred' = Append(deferred, h)
        /\ incoming' = incoming /\ delayed' = delayed
        /\ next_sequence_num' = next_sequence_num /\ recent_time' = recent_time
        /\ Stamps' = Stamps
    BY <1>6, StampsSame DEF Defer, Runnable, timevars
  <2>2. /\ ~Before(h, I \union T \union delayed) /\ W = {h} \union T /\ h \in Task
        /\ Sorted(Tail(work)) /\ Elems(work') = T
    BY <1>3, <1>5, <1>6, <2>1
  <2>3. Elems(deferred') = F \union {h}
    BY <1>0, <2>1, <2>2, ElemsAppend
  <2>4. h.at <= now
    BY <1>0, <2>1 DEF Null
  <2>5. SetOrder(I, T, delayed, F \union {h}, Stamps, n, now)
    <3> HIDE DEF h, T, I, F, n, W
    <3>1. T \in SUBSET W /\ h \in W \union delayed
      BY <2>2
    <3> QED BY <1>0, <2>1, <2>2, <2>4, <3>1, SetPutOff
  <2>6. Ord'
    BY <1>0, <2>1, <2>2, <2>3, <2>5 DEF Ord, Order
  <2>7. Pending' = Pending
    <3> HIDE DEF h, T
    <3> QED BY <2>1, <2>2, <2>3 DEF Pending
  <2> QED BY <2>6, <2>7, ProperKeeps
<1>7. CASE work # <<>> /\ RunFirst(ran)
  <2>1. /\ h.at = Null /\ work' = Tail(work) /\ Code(ran, TRUE)
        /\ delayed' = delayed /\ deferred' = deferred /\ recent_time' = recent_time
    BY <1>7 DEF RunFirst, timevars
  <2>2. /\ ~Before(h, I \union T \union delayed) /\ W = {h} \union T /\ h \in Task
        /\ T \in SUBSET Task /\ Sorted(Tail(work)) /\ Elems(work') = T
        /\ \A u \in T : h.seq < u.seq
    BY <1>3, <1>5, <1>7, <2>1
  <2>3. SetOrder(I, T, delayed, F, Stamps, n, now)
    <3> HIDE DEF h, T, I, F, n, W
    <3>1. T \in SUBSET W /\ Stamps \in SUBSET Stamps
      BY <2>2
    <3> QED BY <1>0, <3>1, SetDrop
  <2>4. /\ Sorted(incoming') /\ I \subseteq Elems(incoming')
        /\ SetOrder(Elems(incoming'), T, delayed, F, Stamps', next_sequence_num', now)
    BY <1>0, <2>1, <2>2, <2>3, CodeOrder
  <2>5. Ord'
    BY <1>0, <2>1, <2>2, <2>4 DEF Ord, Order
  <2>6. Pending \subseteq Pending' \union {h}
    <3> HIDE DEF h, T
    <3> QED BY <2>1, <2>2, <2>4 DEF Pending
  <2>7. h.at <= now
    BY <1>0, <2>1 DEF Null
  <2>8. ~Before(h, I \union W \union delayed)
    <3> HIDE DEF h, T, I, F, n
    <3>1. h.after <= h.seq
      BY <1>0, <2>2 DEF SetOrder
    <3>2. ~(h.seq < h.seq)
      BY <2>2, LimitAssumption DEF Task
    <3>3. ~Precedes(h, h)
      BY <2>2, <3>1, <3>2, PrecedesSeq
    <3> HIDE DEF W
    <3> QED BY <2>2, <3>3 DEF Before
  <2>9. Proper
    <3>1. ~Before(h, Pending)
      BY <2>8, BeforePending
    <3> HIDE DEF h
    <3> QED BY <2>6, <2>7, <3>1 DEF Proper
  <2> QED BY <2>5, <2>9
<1> QED BY <1>1, <1>2, <1>4, <1>6, <1>7 DEF DoWork

LEMMA DelayedOrder ==
  ASSUME Types, Ord, now' = now, NEW ran, NEW none, DoDelayedWork(ran, none)
  PROVE  Ord' /\ Proper
<1> DEFINE I == Elems(incoming)
           W == Elems(work)
           F == Elems(deferred)
           n == next_sequence_num
<1>0. /\ I \in SUBSET Task /\ W \in SUBSET Task /\ F \in SUBSET Task /\ delayed \in SUBSET Task
      /\ incoming \in Seq(Task) /\ work \in Seq(Task) /\ deferred \in Seq(Task)
      /\ SetOrder(I, W, delayed, F, Stamps, n, now)
      /\ Sorted(incoming) /\ Sorted(work)
      /\ recent_time \in Nat /\ now \in Nat /\ recent_time <= now
  BY OrdSets
<1>a. ASSUME NEW t \in Task PROVE Reading(t) <= now
  <2>1. t.at \in Nat
    BY LimitAssumption DEF Task
  <2> QED BY <1>0, <2>1 DEF Reading
<1>1. CASE NoDelayedWork(none)
  <2>1. /\ UNCHANGED <<incoming, work, delayed, deferred, next_sequence_num, Stamps>>
        /\ recent_time' = Null
    BY <1>1, StampsSame DEF NoDelayedWork, taskvars
  <2>2. recent_time' <= now'
    BY <1>0, <2>1 DEF Null
  <2> QED BY <2>1, <2>2 DEF Ord, Order, Pending, Proper
<1>2. CASE NotYet(none)
  <2>1. /\ UNCHANGED <<incoming, work, delayed, deferred, next_sequence_num, Stamps>>
        /\ delayed # {} /\ recent_time' = Reading(First(delayed))
    BY <1>2, StampsSame DEF NotYet, taskvars
  <2>2. First(delayed) \in Task
    BY <1>0, <2>1, FirstTask
  <2>3. recent_time' <= now'
    BY <2>1, <2>2, <1>a
  <2> QED BY <2>1, <2>3 DEF Ord, Order, Pending, Proper
<1>3. CASE RunDelayed(ran, none)
  <2> DEFINE t == First(delayed)
             D == delayed \ {t}
  <2>1. delayed # {} /\ delayed \subseteq Task
    BY <1>0, <1>3 DEF RunDelayed
  <2>2. t \in delayed /\ t \in Task /\ \A u \in delayed : Earlier(t, u)
    BY <2>1, FirstIn
  <2>3. /\ t.at <= Reading(t) /\ recent_time' = Reading(t) /\ delayed' = D /\ work' = work
        /\ \/ Code(ran, TRUE) /\ deferred' = deferred
           \/ /\ ~t.nestable /\ deferred' = Append(deferred, t)
              /\ UNCHANGED <<incoming, next_sequence_num, Stamps>>
    BY <1>3, StampsSame DEF RunDelayed, Runnable
  <2>4. t.at \in Nat /\ Reading(t) \in Nat
    BY <2>2, <1>0, LimitAssumption DEF Task, Reading
  <2>5. t.at <= now /\ recent_time' <= now'
    BY <1>0, <1>a, <2>2, <2>3, <2>4
  <2> HIDE DEF t, D
  <2>6. ~Before(t, I \union W \union delayed)
    <3> HIDE DEF I, W, F, n
    <3> QED BY <1>0, <2>2, DelayedFirst
  <2>7. D \in SUBSET delayed /\ delayed = D \union {t} /\ D \in SUBSET Task
    BY <1>0, <2>2 DEF D
  <2>8. CASE Code(ran, TRUE) /\ deferred' = deferred
    <3>1. SetOrder(I, W, D, F, Stamps, n, now)
      <4> HIDE DEF I, W, F, n
      <4>1. Stamps \in SUBSET Stamps
        OBVIOUS
      <4> QED BY <1>0, <2>7, <4>1, SetDrop
    <3>2. /\ Sorted(incoming') /\ I \subseteq Elems(incoming')
          /\ SetOrder(Elems(incoming'), W, D, F, Stamps', next_sequence_num', now)
      BY <1>0, <2>7, <2>8, <3>1, CodeOrder
    <3>3. Ord'
      BY <1>0, <2>3, <2>5, <2>8, <3>2 DEF Ord, Order
    <3>4. Pending \subseteq Pending' \union {t}
      BY <2>3, <2>7, <2>8, <3>2 DEF Pending
    <3>5. ~Before(t, Pending)
      BY <2>6, BeforePending
    <3>6. Proper
      BY <2>5, <3>4, <3>5 DEF Proper
    <3> QED BY <3>3, <3>6
  <2>9. CASE /\ ~t.nestable /\ deferred' = Append(deferred, t)
             /\ UNCHANGED <<incoming, next_sequence_num, Stamps>>
    <3>1. Elems(deferred') = F \union {t}
      BY <1>0, <2>2, <2>9, ElemsAppend
    <3>2. ~Before(t, I \union W \union D)
      BY <2>6, <2>7 DEF Before
    <3>3. SetOrder(I, W, D, F \union {t}, Stamps, n, now)
      <4> HIDE DEF I, W, F, n
      <4>1. W \in SUBSET W /\ t \in W \union delayed
        BY <2>2
      <4> QED BY <1>0, <2>5, <2>7, <2>9, <3>2, <4>1, SetPutOff
    <3>4. Ord'
      BY <1>0, <2>3, <2>5, <2>9, <3>1, <3>3 DEF Ord, Order
    <3>5. Pending' = Pending
      BY <2>3, <2>7, <2>9, <3>1 DEF Pending
    <3> QED BY <3>4, <3>5, ProperKeeps
  <2> QED BY <2>3, <2>8, <2>9
<1> QED BY <1>1, <1>2, <1>3 DEF DoDelayedWork

\* The idle loop runs the first of the tasks that were put off.
LEMMA IdleOrder ==
  ASSUME Types, Ord, now' = now, deferred # <<>>, deferred' = Tail(deferred),
         NEW f, NEW b, Code(f, b), UNCHANGED <<work, delayed, timevars>>
  PROVE  Ord' /\ Proper
<1> DEFINE I == Elems(incoming)
           W == Elems(work)
           F == Elems(deferred)
           n == next_sequence_num
           h == Head(deferred)
           T == Elems(Tail(deferred))
<1>0. /\ I \in SUBSET Task /\ W \in SUBSET Task /\ F \in SUBSET Task /\ delayed \in SUBSET Task
      /\ deferred \in Seq(Task)
      /\ SetOrder(I, W, delayed, F, Stamps, n, now)
      /\ Sorted(incoming) /\ Sorted(work)
      /\ recent_time \in Nat /\ now \in Nat /\ recent_time <= now
  BY OrdSets
<1>1. h \in Task /\ Tail(deferred) \in Seq(Task) /\ F = {h} \union T
  BY <1>0, HeadTask
<1>2. T \in SUBSET Task /\ T \in SUBSET F /\ Elems(deferred') = T
  BY <1>1, ElemsTask
<1>a. work' = work /\ delayed' = delayed /\ recent_time' = recent_time
  BY DEF timevars
<1>b. h \in F
  BY <1>1
<1> HIDE DEF h, T
<1>3. SetOrder(I, W, delayed, T, Stamps, n, now)
  <2> HIDE DEF I, W, F, n
  <2>1. Stamps \in SUBSET Stamps
    OBVIOUS
  <2> QED BY <1>0, <1>2, <2>1, SetDrop
<1>4. /\ Sorted(incoming') /\ I \subseteq Elems(incoming')
      /\ SetOrder(Elems(incoming'), W, delayed, T, Stamps', next_sequence_num', now)
  BY <1>0, <1>2, <1>3, CodeOrder
<1>5. Ord'
  BY <1>0, <1>2, <1>4, <1>a DEF Ord, Order
<1>6. h.at <= now /\ ~Before(h, I \union W \union delayed)
  <2> HIDE DEF I, W, F, n
  <2> QED BY <1>0, <1>b DEF SetOrder
<1>7. ~Before(h, Pending)
  BY <1>6, BeforePending
<1>8. Pending \subseteq Pending' \union {h}
  BY <1>1, <1>2, <1>4, <1>a DEF Pending
<1>9. Proper
  BY <1>6, <1>7, <1>8 DEF Proper
<1> QED BY <1>5, <1>9

\* A handler runs between two tasks.
LEMMA HandlerOrder ==
  ASSUME Types, Ord, now' = now, NEW f, NEW b, Code(f, b),
         UNCHANGED <<work, delayed, deferred, timevars>>
  PROVE  Ord' /\ Proper
<1>0. /\ Elems(incoming) \in SUBSET Task /\ Elems(work) \in SUBSET Task
      /\ Elems(deferred) \in SUBSET Task /\ delayed \in SUBSET Task
      /\ SetOrder(Elems(incoming), Elems(work), delayed, Elems(deferred), Stamps,
                  next_sequence_num, now)
      /\ Sorted(incoming) /\ Sorted(work) /\ recent_time <= now
  BY OrdSets
<1>1. /\ Sorted(incoming') /\ Elems(incoming) \subseteq Elems(incoming')
      /\ SetOrder(Elems(incoming'), Elems(work), delayed, Elems(deferred), Stamps',
                  next_sequence_num', now)
  BY <1>0, CodeOrder
<1>2. /\ work' = work /\ delayed' = delayed /\ deferred' = deferred
      /\ recent_time' = recent_time
  BY DEF timevars
<1>3. Ord'
  BY <1>0, <1>1, <1>2 DEF Ord, Order
<1>4. Pending \subseteq Pending'
  BY <1>1, <1>2 DEF Pending
<1> QED BY <1>3, <1>4, ProperKeeps

LEMMA PumpOrder ==
  ASSUME Types, Ord, Pump
  PROVE  Ord' /\ Proper
<1>0. now' = now
  BY DEF Pump
<1>1. CASE UNCHANGED <<taskvars, recent_time>>
  BY <1>0, <1>1, StampsSame DEF taskvars, Ord, Pending, Proper
<1>2. CASE \/ PeekNothing \/ PeekHaveWork \/ PeekTimer \/ Replace \/ Rearm \/ Again \/ After
           \/ Idled \/ WaitForWork
  <2>1. UNCHANGED <<taskvars, recent_time>>
    BY <1>2 DEF PeekNothing, PeekHaveWork, PeekTimer, Replace, Rearm, Again, After, Idled,
                WaitForWork, Leave, timevars
  <2> QED BY <2>1, <1>1
<1>3. CASE PeekInput \/ Dispatch
  BY <1>0, <1>3, HandlerOrder DEF PeekInput, Dispatch
<1>4. CASE HandleTimerMessage
  BY <1>0, <1>4, DelayedOrder DEF HandleTimerMessage
<1>5. CASE RunWork
  <2>1. CASE Leave
    BY <1>1, <2>1 DEF Leave
  <2> QED BY <1>0, <1>5, <2>1, DoWorkOrder DEF RunWork
<1>6. CASE RunDelayedWork
  <2>1. CASE Leave
    BY <1>1, <2>1 DEF Leave
  <2> QED BY <1>0, <1>6, <2>1, DelayedOrder DEF RunDelayedWork
<1>7. CASE Idle
  <2>1. CASE Leave
    BY <1>1, <2>1 DEF Leave
  <2>2. CASE UNCHANGED <<taskvars, timevars>>
    BY <1>1, <2>2 DEF timevars
  <2>3. CASE /\ deferred # <<>> /\ deferred' = Tail(deferred) /\ Code(Here("idled"), TRUE)
             /\ UNCHANGED <<work, delayed, timevars>>
    BY <1>0, <2>3, IdleOrder
  <2> QED BY <1>7, <2>1, <2>2, <2>3 DEF Idle
<1> QED BY <1>2, <1>3, <1>4, <1>5, <1>6, <1>7 DEF Pump

\* Whoever steps: a task starts in its order or not at all, or is deleted.
LEMMA OrdNext ==
  ASSUME Types, Ord, Next \/ UNCHANGED vars
  PROVE  Ord' /\ (Proper \/ Destroy)
<1>0. /\ Elems(incoming) \in SUBSET Task /\ Elems(work) \in SUBSET Task
      /\ Elems(deferred) \in SUBSET Task /\ delayed \in SUBSET Task
      /\ SetOrder(Elems(incoming), Elems(work), delayed, Elems(deferred), Stamps,
                  next_sequence_num, now)
      /\ Sorted(incoming) /\ Sorted(work)
      /\ recent_time \in Nat /\ now \in Nat /\ recent_time <= now
  BY OrdSets
<1>1. ASSUME UNCHANGED <<taskvars, recent_time, now>> PROVE Ord' /\ Proper
  BY <1>1, StampsSame DEF taskvars, Ord, Pending, Proper
<1>2. ASSUME Sorted(incoming'), Elems(incoming) \subseteq Elems(incoming'),
             SetOrder(Elems(incoming'), Elems(work), delayed, Elems(deferred), Stamps',
                      next_sequence_num', now),
             UNCHANGED <<work, delayed, deferred, recent_time, now>>
      PROVE  Ord' /\ Proper
  <2>1. Ord'
    BY <1>0, <1>2 DEF Ord, Order
  <2>2. Pending \subseteq Pending'
    BY <1>2 DEF Pending
  <2> QED BY <2>1, <2>2, ProperKeeps
<1>3. ASSUME NEW t \in Threads, ScheduleWork(t) PROVE Ord' /\ Proper
  BY <1>1, <1>3 DEF ScheduleWork, Exchange, PostHaveWork, ClearHaveWork, timevars
<1>4. CASE Pump
  BY <1>4, PumpOrder
<1>5. CASE EndModal
  BY <1>1, <1>5 DEF EndModal, Leave
<1>6. CASE Destroy
  <2>1. /\ incoming' = <<>> /\ work' = <<>> /\ delayed' = {} /\ deferred' = <<>>
        /\ next_sequence_num' = next_sequence_num /\ recent_time' = recent_time /\ now' = now
        /\ Stamps' = Stamps
    BY <1>6, StampsSame DEF Destroy, timevars
  <2>2. SetOrder({}, {}, {}, {}, Stamps, next_sequence_num, now)
    <3> HIDE DEF SetOrder
    <3>1. {} \in SUBSET Elems(incoming) /\ {} \in SUBSET Elems(work)
          /\ {} \in SUBSET delayed /\ {} \in SUBSET Elems(deferred) /\ Stamps \in SUBSET Stamps
      OBVIOUS
    <3> QED BY <1>0, <3>1, SetDrop
  <2>3. Ord'
    BY <1>0, <2>1, <2>2, EmptySorted DEF Ord, Order
  <2> QED BY <2>3, <1>6
<1>7. CASE Tick
  <2>1. UNCHANGED <<taskvars, Stamps>> /\ recent_time' = recent_time /\ now' = now + 1
    BY <1>7, StampsSame DEF Tick, taskvars, timevars
  <2>2. SetOrder(Elems(incoming), Elems(work), delayed, Elems(deferred), Stamps,
                 next_sequence_num, now + 1)
    BY <1>0, SetTick
  <2>3. recent_time <= now + 1
    BY <1>0
  <2>4. Ord'
    BY <1>0, <2>1, <2>2, <2>3 DEF Ord, Order, taskvars
  <2>5. Pending' = Pending
    BY <2>1 DEF Pending, taskvars
  <2> QED BY <2>4, <2>5, ProperKeeps
<1>8. CASE Input \/ UNCHANGED vars
  <2>1. UNCHANGED <<taskvars, recent_time, now>>
    BY <1>8 DEF Input, vars, timevars
  <2> QED BY <2>1, <1>1
<1>9. CASE \E p \in Posters : \E k \in Kinds[p] : PostTask(p, k)
  <2>1. PICK p \in Threads : \E k \in Kinds[p] : PostTask(p, k)
    BY <1>9 DEF Threads
  <2>2. PICK k \in Kinds[p] : PostTask(p, k)
    BY <2>1
  <2>3. Post(p, k) /\ UNCHANGED <<work, delayed, deferred, recent_time, now>>
    BY <2>2 DEF PostTask, timevars
  <2>4. /\ Sorted(incoming') /\ Elems(incoming) \subseteq Elems(incoming')
        /\ SetOrder(Elems(incoming'), Elems(work), delayed, Elems(deferred), Stamps',
                    next_sequence_num', now)
    BY <1>0, <2>3, PostOrder
  <2> QED BY <2>3, <2>4, <1>2
<1>10. CASE \E t \in Threads : Enqueue(t) \/ ScheduleWork(t)
  <2>1. PICK t \in Threads : Enqueue(t) \/ ScheduleWork(t)
    BY <1>10
  <2>2. CASE Enqueue(t)
    <3>1. UNCHANGED <<work, delayed, deferred, recent_time, now>>
      BY <2>2 DEF Enqueue, timevars
    <3>2. /\ Sorted(incoming') /\ Elems(incoming) \subseteq Elems(incoming')
          /\ SetOrder(Elems(incoming'), Elems(work), delayed, Elems(deferred), Stamps',
                      next_sequence_num', now)
      BY <1>0, <2>2, EnqueueOrder
    <3> QED BY <3>1, <3>2, <1>2
  <2>3. CASE ScheduleWork(t)
    BY <2>3, <1>3
  <2> QED BY <2>1, <2>2, <2>3
<1> QED BY <1>4, <1>5, <1>6, <1>7, <1>8, <1>9, <1>10 DEF Next

-----------------------------------------------------------------------------
(* The inductive invariant. *)

LEMMA InvInit == Init => Inv
<1> SUFFICES ASSUME Init PROVE Inv
  OBVIOUS
<1>1. Types
  <2>1. /\ incoming = <<>> /\ work = <<>> /\ delayed = {} /\ deferred = <<>>
        /\ next_sequence_num = 0 /\ alive = TRUE /\ have_work = FALSE
        /\ delayed_work_time = 0 /\ recent_time = 0 /\ queue = <<>> /\ timer = 0 /\ now = 0
        /\ pc = [t \in Threads |-> "idle"] /\ stamped = [t \in Threads |-> NoStamp]
    BY DEF Init, Null
  <2>2. <<>> \in Seq(Task) /\ <<>> \in Seq({"work", "input"}) /\ Len(<<>>) = 0
    BY EmptySeq
  <2>3. 0 \in 0..PostLimit /\ 0 \in 0..TimeLimit /\ 0 <= QueueLimit
    BY LimitAssumption
  <2>4. pc \in [Threads -> Places] /\ NoStamp \in Stamp
    BY <2>1, <2>3 DEF Places, NoStamp, Stamp, Null
  <2>5. stamped \in [Threads -> Stamp]
    BY <2>1, <2>4
  <2>6. Room
    <3>1. Locking = {}
      BY <2>1 DEF Locking
    <3> QED BY <2>1, <3>1, FS_EmptySet, LimitAssumption DEF Room
  <2> QED BY <2>1, <2>2, <2>3, <2>4, <2>5, <2>6 DEF Types
<1>2. StackInv(stack, nestable_allowed)
  <2> DEFINE f == NewLoop("run", 1, TRUE)
  <2>1. f \in Frame /\ f.kind = "run" /\ f.old
    BY DEF NewLoop, Frame
  <2> HIDE DEF f
  <2>2. stack = <<f>> /\ nestable_allowed = TRUE
    BY DEF Init, f
  <2>3. stack \in Seq(Frame) /\ Len(stack) = 1 /\ stack[1] = f
    BY <2>1, <2>2
  <2>4. \A n \in 1..Len(stack) : n = 1
    BY <2>3
  <2>5. 1 \in 1..1 /\ \A j \in 1 + 1..1 : FALSE
    OBVIOUS
  <2>6. \A n \in 1..Len(stack) : \E i \in 1..n : /\ stack[i].kind = "run"
                                                 /\ \A j \in i + 1..n : stack[j].kind # "run"
    BY <2>1, <2>3, <2>4, <2>5
  <2>7. \A n \in 1..Len(stack) - 1 : Parked(stack[n])
    <3>1. \A n \in 1..Len(stack) - 1 : FALSE
      BY <2>3
    <3> QED BY <3>1
  <2>8. /\ Len(stack) > 0 => stack[1].old
        /\ Len(stack) > 1 => stack[2].old
        /\ Len(stack) < 2 => nestable_allowed
        /\ nestable_allowed \in BOOLEAN
    BY <2>1, <2>2, <2>3
  <2> QED BY <2>3, <2>6, <2>7, <2>8 DEF StackInv
<1>3. PumpInv
  <2>1. queue = <<>> /\ have_work = FALSE /\ pc = [t \in Threads |-> "idle"]
        /\ stack = <<NewLoop("run", 1, TRUE)>>
    BY DEF Init
  <2>2. HaveWorkMessages = {}
    BY <2>1, EmptySorted DEF HaveWorkMessages
  <2>3. Waking = {}
    BY <2>1 DEF Waking
  <2>4. ~Replacing
    BY <2>1 DEF Replacing, Top, NewLoop
  <2> QED BY <2>1, <2>2, <2>3, <2>4 DEF PumpInv
<1>4. Order(incoming, work, delayed, deferred, Stamps, next_sequence_num, recent_time, now)
  <2>1. /\ incoming = <<>> /\ work = <<>> /\ delayed = {} /\ deferred = <<>>
        /\ recent_time = 0 /\ now = 0 /\ next_sequence_num = 0
        /\ \A s \in Stamps : s = NoStamp
    BY DEF Init, Stamps
  <2>2. SetOrder({}, {}, {}, {}, Stamps, next_sequence_num, now)
    BY <2>1 DEF SetOrder, Timed, NoStamp, Null
  <2>3. Sorted(incoming) /\ Sorted(work)
    BY <2>1, EmptySorted
  <2>4. Elems(incoming) = {} /\ Elems(work) = {} /\ Elems(deferred) = {}
    BY <2>1, EmptySorted
  <2>5. recent_time <= now
    BY <2>1
  <2>6. SetOrder(Elems(incoming), Elems(work), delayed, Elems(deferred), Stamps,
                 next_sequence_num, now)
    BY <2>1, <2>2, <2>4
  <2> QED BY <2>3, <2>5, <2>6 DEF Order
<1> QED BY <1>1, <1>2, <1>3, <1>4 DEF Inv

LEMMA InvNext == Inv /\ [Next]_vars => Inv'
<1> SUFFICES ASSUME Inv, Next \/ UNCHANGED vars PROVE Inv'
  OBVIOUS
<1>1. Types /\ StackInv(stack, nestable_allowed) /\ PumpInv /\ Ord
  BY DEF Inv, Ord
<1>2. Types' /\ StackInv(stack', nestable_allowed') /\ PumpInv'
  BY <1>1, TypesNext, StackNext, PumpInvNext
<1>3. Ord'
  BY <1>1, OrdNext
<1> QED BY <1>2, <1>3 DEF Inv, Ord

LEMMA InvAlways == Spec => []Inv
BY InvInit, InvNext, PTL DEF Spec

LEMMA InvTypes == Inv => TypeOK
<1> SUFFICES ASSUME Inv PROVE TypeOK
  OBVIOUS
<1>1. stack \in Seq(Frame) /\ nestable_allowed \in BOOLEAN /\ (Len(stack) = 1 => nestable_allowed)
  BY DEF Inv, StackInv
<1> QED BY <1>1 DEF Inv, Types, TypeOK, Places

-----------------------------------------------------------------------------
(* The theorems. *)

\* Every variable has its type, and outside the loops of a task that allows no
\* other, tasks are allowed (ScopedNestableTaskAllower, SetNestableTasksAllowed).
THEOREM LoopTyped == Spec => []TypeOK
BY InvAlways, InvTypes, PTL

\* At most one kMsgHaveWork message is ever pending, and have_work is set when
\* ProcessPumpReplacementMessage clears it.
THEOREM PumpMessageIsUnique == Spec => []OnePumpMessage
<1>1. Inv => OnePumpMessage
  BY DEF Inv, PumpInv, OnePumpMessage, Replacing
<1> QED BY <1>1, InvAlways, PTL

\* No task starts before its time, nor before a nestable one that was posted
\* before it with no more delay. Of tasks that other threads post at the same
\* time this says something only where one of them needs no clock
\* (MessageLoop::DoWork, DoDelayedWork, DoIdleWork, PostDelayedTask).
THEOREM TasksStartInOrder == Spec => StartsInOrder
<1> DEFINE InOrder == \A t \in Started :
             /\ now >= t.at
             /\ \A u \in Pending : u.nestable /\ Precedes(u, t) => u \in Started
<1>1. Inv /\ [Next]_vars => [InOrder]_vars
  <2> SUFFICES ASSUME Inv, Next, NEW t \in Started
               PROVE  /\ now >= t.at
                      /\ \A u \in Pending : u.nestable /\ Precedes(u, t) => u \in Started
    OBVIOUS
  <2>1. Proper \/ Destroy
    BY OrdNext DEF Inv, Ord
  <2>2. t \in Pending /\ t \notin Pending' /\ alive'
    BY DEF Started
  <2>3. ~Destroy
    BY <2>2 DEF Destroy
  <2>4. t.at <= now /\ ~Before(t, Pending)
    BY <2>1, <2>2, <2>3 DEF Proper
  <2>5. now >= t.at
    <3>1. t \in Task
      BY <2>2, ElemsTask DEF Inv, Types, Pending
    <3>2. t.at \in Nat /\ now \in Nat
      BY <3>1, LimitAssumption DEF Task, Inv, Types
    <3> QED BY <2>4, <3>2
  <2> QED BY <2>4, <2>5 DEF Before
<1>2. Spec => [][InOrder]_vars
  <2> HIDE DEF InOrder
  <2> QED BY <1>1, InvAlways, PTL DEF Spec
<1> QED BY <1>2 DEF StartsInOrder

-----------------------------------------------------------------------------
(* No step but one loses the wake-up of a RunLoop. *)

\* A loop that is parked, or is not at one of four places, has not looked yet.
Dull(f) == Parked(f) \/ f.at \notin {"idle", "wait", "delayed", "after"}

LEMMA DullTop ==
  ASSUME stack' # <<>> => Dull(Top')
  PROVE  ~Looked' /\ WillWake'
<1>1. ~Looked'
  BY DEF Looked, Dull, Parked
<1> QED BY <1>1 DEF WillWake

LEMMA DullShape ==
  ASSUME StackInv(stack, nestable_allowed), stack # <<>>,
         Calls \/ Closes \/ Stays \/ \E f : GoesOn(f) /\ Goto(f) /\ Dull(f)
  PROVE  WillWake'
<1>1. stack' # <<>> => Dull(Top')
  <2>1. CASE Calls
    BY <2>1, CodeStack DEF Calls, Dull
  <2>2. CASE Closes
    BY <2>2, StackPop DEF Closes, Top, Dull
  <2>3. CASE Stays
    BY <2>3 DEF Stays, Top, Dull
  <2>4. CASE \E f : GoesOn(f) /\ Goto(f) /\ Dull(f)
    BY <2>4, GotoTop
  <2> QED BY <2>1, <2>2, <2>3, <2>4
<1> QED BY <1>1, DullTop

\* The loop has looked, nothing was posted since, and the sleep is as short as
\* it has to be.
LEMMA WakeKeeps ==
  ASSUME WillWake, Looked, UNCHANGED <<work, incoming, pc, queue>>,
         delayed' # {} /\ Top'.at # "delayed" =>
           delayed_work_time' # Null /\ delayed_work_time' <= First(delayed').at
  PROVE  WillWake'
<1>1. work' = <<>>
  BY DEF WillWake
<1>2. incoming' # <<>> => Scheduling' \/ queue' # <<>>
  BY DEF WillWake, Scheduling
<1> QED BY <1>1, <1>2 DEF WillWake

\* DoDelayedWork found nothing to run: the time to wake up is that of the first
\* delayed task.
LEMMA WakeDelayed ==
  ASSUME Inv, WillWake, At("delayed"), DoDelayedWork(With("after", TRUE), Here("after")),
         UNCHANGED winvars
  PROVE  WillWake'
<1>0. /\ stack # <<>> /\ Top.at = "delayed" /\ queue' = queue
      /\ StackInv(stack, nestable_allowed) /\ delayed \subseteq Task
      /\ \A t \in delayed : t.at # Null
  BY DEF At, Free, Inv, Types, Order, SetOrder, winvars
<1>1. Top \in Frame
  BY <1>0, TopFrame
<1>2. /\ GoesOn(Here("after")) /\ Here("after").at = "after" /\ Here("after").more = Top.more
      /\ GoesOn(With("after", TRUE)) /\ With("after", TRUE).at = "after"
      /\ With("after", TRUE).more
  <2>1. "after" \in Ats /\ TRUE \in BOOLEAN
    BY DEF Ats
  <2> QED BY <2>1, <1>1, Frames
<1>3. Parked(With("after", TRUE)) /\ Plain(With("after", TRUE))
  BY <1>2 DEF Parked, Plain
<1>4. ASSUME Goto(Here("after")), UNCHANGED <<work, incoming, pc, nestable_allowed>>,
             nestable_allowed /\ delayed' # {} =>
               delayed_work_time' # Null /\ delayed_work_time' <= First(delayed').at
      PROVE  WillWake'
  <2>1. stack' # <<>> /\ Top' = Here("after")
    BY <1>0, <1>2, <1>4, GotoTop
  <2>2. CASE Top.more \/ ~nestable_allowed
    <3>1. ~Looked'
      BY <2>1, <2>2, <1>2, <1>4 DEF Looked
    <3> QED BY <3>1 DEF WillWake
  <2>3. CASE ~Top.more /\ nestable_allowed
    <3>1. Looked
      BY <2>3, <1>0 DEF Looked
    <3> QED BY <3>1, <2>3, <1>0, <1>4, WakeKeeps
  <2> QED BY <2>2, <2>3
<1>5. ASSUME NEW S, S \subseteq delayed, S # {}
      PROVE  First(S).at # Null /\ First(S).at <= First(S).at
  <2>1. First(S) \in S /\ First(S).at \in 0..TimeLimit
    BY <1>0, <1>5, FirstTask
  <2>2. First(S).at <= First(S).at
    BY <2>1, LimitAssumption
  <2> QED BY <2>1, <2>2, <1>0, <1>5
<1>6. CASE NoDelayedWork(Here("after"))
  <2>1. /\ Goto(Here("after")) /\ UNCHANGED <<work, incoming, pc, nestable_allowed>>
        /\ ~nestable_allowed \/ delayed' = {}
    BY <1>6 DEF NoDelayedWork, taskvars
  <2> QED BY <2>1, <1>4
<1>7. CASE NotYet(Here("after"))
  <2>1. /\ Goto(Here("after")) /\ UNCHANGED <<work, incoming, pc, nestable_allowed>>
        /\ delayed # {} /\ delayed' = delayed /\ delayed_work_time' = First(delayed).at
    BY <1>7 DEF NotYet, taskvars
  <2>2. First(delayed).at # Null /\ First(delayed).at <= First(delayed).at
    BY <2>1, <1>5
  <2>3. First(delayed') = First(delayed)
    BY <2>1
  <2> QED BY <2>1, <2>2, <2>3, <1>4
<1>8. CASE RunDelayed(With("after", TRUE), Here("after"))
  <2>1. CASE Code(With("after", TRUE), TRUE)
    <3>1. Calls
      BY <2>1, <1>3, CodeShape
    <3> QED BY <3>1, <1>0, DullShape
  <2>2. CASE Goto(Here("after")) /\ UNCHANGED <<incoming, nestable_allowed, pc>>
    <3>1. /\ delayed' \subseteq delayed /\ work' = work
          /\ delayed' # {} => delayed_work_time' = First(delayed').at
      BY <1>8 DEF RunDelayed
    <3> DEFINE S == delayed'
    <3>2. S # {} => First(S).at # Null /\ First(S).at <= First(S).at
      <4> HIDE DEF S
      <4>1. S \subseteq delayed
        BY <3>1 DEF S
      <4> QED BY <4>1, <1>5
    <3> QED BY <2>2, <3>1, <3>2, <1>4
  <2> QED BY <1>8, <2>1, <2>2 DEF RunDelayed
<1> QED BY <1>6, <1>7, <1>8 DEF DoDelayedWork

LEMMA WakePump ==
  ASSUME Inv, WillWake, Pump
  PROVE  WillWake'
<1>0. /\ stack # <<>> /\ StackInv(stack, nestable_allowed)
      /\ Goes \/ Calls \/ Closes \/ Stays
  BY PumpShape DEF Inv
<1>1. Top \in Frame
  BY <1>0, TopFrame
<1>a. /\ \A l \in Ats : GoesOn(Here(l)) /\ Here(l).at = l /\ Here(l).more = Top.more
      /\ \A l \in Ats, m \in BOOLEAN :
           GoesOn(With(l, m)) /\ With(l, m).at = l /\ With(l, m).more = m
      /\ Plain(AfterMessage) /\ Parked(AfterMessage)
  BY <1>1, Frames
<1>b. /\ "peek" \in Ats /\ "dispatch" \in Ats /\ "timer" \in Ats /\ "replace" \in Ats
      /\ "rearm" \in Ats /\ "work" \in Ats /\ "again" \in Ats /\ "delayed" \in Ats
      /\ "after" \in Ats /\ "idle" \in Ats /\ "idled" \in Ats /\ "wait" \in Ats
      /\ TRUE \in BOOLEAN /\ FALSE \in BOOLEAN
  BY DEF Ats
<1>c. \A l \in {"peek", "dispatch", "timer", "rearm", "work", "again", "idled"} :
        GoesOn(Here(l)) /\ Dull(Here(l)) /\ (l # "dispatch" /\ l # "timer" => Parked(Here(l)))
  BY <1>a, <1>b DEF Dull, Parked
<1>d. /\ GoesOn(With("work", FALSE)) /\ Dull(With("work", FALSE))
      /\ GoesOn(With("peek", FALSE)) /\ Dull(With("peek", FALSE))
      /\ Plain(With("delayed", TRUE)) /\ Parked(With("delayed", TRUE))
      /\ Plain(Here("rearm")) /\ Parked(Here("rearm"))
      /\ Plain(Here("again")) /\ Parked(Here("again"))
      /\ Plain(Here("idled")) /\ Parked(Here("idled"))
      /\ GoesOn(AfterMessage) /\ Dull(AfterMessage)
      /\ Dull(Here("replace")) /\ GoesOn(Here("replace"))
      /\ Dull(With("timer", TRUE)) /\ GoesOn(With("timer", TRUE))
  BY <1>a, <1>b DEF Dull, Parked, Plain
<1>e. ASSUME NEW f, GoesOn(f), Goto(f), Dull(f) PROVE WillWake'
  BY <1>0, <1>e, DullShape
<1>f. ASSUME NEW f, Plain(f), Parked(f), NEW b \in BOOLEAN, Code(f, b) PROVE WillWake'
  <2>1. Calls
    BY <1>f, CodeShape
  <2> QED BY <2>1, <1>0, DullShape
<1>g. ASSUME Leave PROVE WillWake'
  BY <1>0, <1>g, DullShape DEF Leave, Closes
<1>2. CASE \/ PeekNothing \/ PeekHaveWork \/ PeekTimer \/ Replace \/ Rearm \/ Again
           \/ Idled \/ WaitForWork
  <2>1. \/ Goto(With("work", FALSE)) \/ Goto(With("peek", FALSE)) \/ Goto(Here("replace"))
        \/ Goto(Here("timer")) \/ Goto(With("timer", TRUE)) \/ Goto(Here("dispatch"))
        \/ Goto(AfterMessage) \/ Goto(Here("peek")) \/ Leave
    BY <1>2 DEF PeekNothing, PeekHaveWork, PeekTimer, Replace, Rearm, Again, Idled,
                WaitForWork, With
  <2> QED BY <2>1, <1>c, <1>d, <1>e, <1>g
<1>3. CASE PeekInput \/ Dispatch
  <2>1. Code(AfterMessage, FALSE)
    BY <1>3 DEF PeekInput, Dispatch
  <2> QED BY <2>1, <1>a, <1>b, <1>f
<1>4. CASE HandleTimerMessage
  <2>1. \/ Goto(Here("rearm")) \/ Code(Here("rearm"), TRUE)
    BY <1>4 DEF HandleTimerMessage, DoDelayedWork, NoDelayedWork, NotYet, RunDelayed
  <2> QED BY <2>1, <1>b, <1>c, <1>d, <1>e, <1>f
<1>5. CASE RunWork
  <2>0. Top.at = "work"
    BY <1>5 DEF RunWork, At
  <2>1. CASE DoWork(With("delayed", TRUE), Here("delayed"))
    <3>1. CASE Code(With("delayed", TRUE), TRUE)
      BY <3>1, <1>b, <1>d, <1>f
    <3>2. CASE ReloadWorkQueue \/ MoveToDelayed \/ Defer
      <4>1. Stays
        BY <2>0, <3>2 DEF ReloadWorkQueue, MoveToDelayed, Defer, Stays
      <4> QED BY <4>1, <1>0, DullShape
    <3>3. CASE /\ ~nestable_allowed \/ (work = <<>> /\ incoming = <<>>)
               /\ Goto(Here("delayed"))
               /\ UNCHANGED <<taskvars, nestable_allowed>>
      <4>1. Top' = Here("delayed") /\ Here("delayed").at = "delayed"
        BY <3>3, <1>0, <1>a, <1>b, GotoTop
      <4>2. Looked' => nestable_allowed
        BY <3>3 DEF Looked
      <4>3. nestable_allowed => work' = <<>> /\ incoming' = <<>>
        BY <3>3 DEF taskvars
      <4> QED BY <4>1, <4>2, <4>3 DEF WillWake
    <3> QED BY <2>1, <3>1, <3>2, <3>3 DEF DoWork, RunFirst
  <2>2. CASE DoWork(Here("again"), With("peek", FALSE))
    <3>1. CASE Code(Here("again"), TRUE)
      BY <3>1, <1>b, <1>d, <1>f
    <3>2. CASE ReloadWorkQueue \/ MoveToDelayed \/ Defer
      <4>1. Stays
        BY <2>0, <3>2 DEF ReloadWorkQueue, MoveToDelayed, Defer, Stays
      <4> QED BY <4>1, <1>0, DullShape
    <3>3. CASE Goto(With("peek", FALSE))
      BY <3>3, <1>d, <1>e
    <3> QED BY <2>2, <3>1, <3>2, <3>3 DEF DoWork, RunFirst
  <2>3. \/ Leave
        \/ DoWork(With("delayed", TRUE), Here("delayed"))
        \/ DoWork(Here("again"), With("peek", FALSE))
    BY <1>5 DEF RunWork, With
  <2> QED BY <2>1, <2>2, <2>3, <1>g
<1>6. CASE RunDelayedWork
  <2>1. \/ Leave
        \/ /\ At("delayed") /\ DoDelayedWork(With("after", TRUE), Here("after"))
           /\ UNCHANGED winvars
    BY <1>6 DEF RunDelayedWork, InRun, With
  <2> QED BY <2>1, <1>g, WakeDelayed
<1>7. ASSUME Top.at \in {"after", "idle"}, Top.at = "after" => ~Top.more,
             NEW l \in {"idle", "wait"}, Goto(Here(l)),
             UNCHANGED <<taskvars, delayed_work_time, nestable_allowed, pc, queue>>
      PROVE  WillWake'
  <2>1. UNCHANGED <<work, incoming, delayed, pc, queue, delayed_work_time>>
    BY <1>7 DEF taskvars
  <2>2. CASE nestable_allowed
    <3>1. Looked
      BY <2>2, <1>0, <1>7 DEF Looked
    <3>2. First(delayed') = First(delayed)
      BY <2>1
    <3>3. delayed # {} => delayed_work_time # Null /\ delayed_work_time <= First(delayed).at
      BY <3>1, <1>7 DEF WillWake
    <3> QED BY <2>1, <3>1, <3>2, <3>3, WakeKeeps
  <2>3. CASE ~nestable_allowed
    <3>1. ~Looked'
      BY <2>3, <1>7 DEF Looked
    <3> QED BY <3>1 DEF WillWake
  <2> QED BY <2>2, <2>3
<1>8. CASE After
  <2>1. /\ Top.at = "after" /\ queue' = queue
        /\ \/ Leave
           \/ Top.more /\ Goto(With("peek", FALSE))
           \/ /\ ~Top.more /\ Goto(Here("idle"))
              /\ UNCHANGED <<taskvars, delayed_work_time, nestable_allowed, pc>>
    BY <1>8 DEF After, InRun, At, With, winvars
  <2> QED BY <2>1, <1>d, <1>e, <1>g, <1>7
<1>9. CASE Idle
  <2>1. /\ Top.at = "idle" /\ queue' = queue
        /\ \/ Leave
           \/ Code(Here("idled"), TRUE)
           \/ /\ Goto(Here("wait"))
              /\ UNCHANGED <<taskvars, delayed_work_time, nestable_allowed, pc>>
    BY <1>9 DEF Idle, InRun, At, winvars, timevars
  <2> QED BY <2>1, <1>b, <1>d, <1>f, <1>g, <1>7
<1> QED BY <1>2, <1>3, <1>4, <1>5, <1>6, <1>8, <1>9 DEF Pump

\* The loops and the queues are as before; a thread or a message is on its way.
LEMMA WakeOthers ==
  ASSUME WillWake, UNCHANGED <<stack, nestable_allowed, work, delayed, delayed_work_time>>,
         Looked /\ incoming' # <<>> => Scheduling' \/ queue' # <<>>
  PROVE  WillWake'
<1>1. Looked' = Looked /\ Top' = Top
  BY DEF Looked, Top
<1>2. First(delayed') = First(delayed)
  OBVIOUS
<1> QED BY <1>1, <1>2 DEF WillWake

LEMMA WakeThread ==
  ASSUME Inv, WillWake, NEW t \in Threads, ScheduleWork(t), ~(pc[t] = "fail" /\ pc'[t] = "idle")
  PROVE  WillWake'
<1>0. pc \in [Threads -> Places] /\ PumpInv
  BY DEF Inv, Types
<1>1. UNCHANGED <<stack, nestable_allowed, work, delayed, delayed_work_time, incoming>>
  BY DEF ScheduleWork, Exchange, PostHaveWork, ClearHaveWork, taskvars, timevars
<1>2. ASSUME NEW v \in {"post", "fail"}, pc' = [pc EXCEPT ![t] = v] PROVE Scheduling'
  <2>1. pc'[t] \in {"post", "fail"}
    BY <1>0, <1>2
  <2> QED BY <2>1 DEF Scheduling
<1>3. CASE Exchange(t) /\ have_work
  <2>1. pc[t] = "wake" /\ queue' = queue /\ pc' = [pc EXCEPT ![t] = "idle"]
    BY <1>3 DEF Exchange
  <2>2. HaveWorkMessages # {} \/ Waking # {} \/ Replacing
    BY <1>0, <1>3 DEF PumpInv
  <2>3. ASSUME Looked PROVE Scheduling' \/ queue' # <<>>
    <3>1. ~Replacing
      BY <2>3 DEF Looked, Replacing
    <3>2. CASE HaveWorkMessages # {}
      <4>1. queue # <<>>
        BY <3>2, EmptySorted DEF HaveWorkMessages
      <4> QED BY <4>1, <2>1
    <3>3. CASE Waking # {}
      <4>1. PICK u \in Threads : pc[u] \in {"post", "fail"}
        BY <3>3 DEF Waking
      <4>2. pc'[u] \in {"post", "fail"}
        BY <4>1, <2>1, <1>0
      <4> QED BY <4>2 DEF Scheduling
    <3> QED BY <2>2, <3>1, <3>2, <3>3
  <2> QED BY <2>3, <1>1, WakeOthers
<1>4. CASE Exchange(t) /\ ~have_work
  <2>1. Scheduling'
    BY <1>2, <1>4 DEF Exchange
  <2> QED BY <2>1, <1>1, WakeOthers
<1>5. CASE PostHaveWork(t)
  <2>1. CASE queue' = Append(queue, "work")
    <3>1. queue' # <<>>
      <4>1. queue \in Seq({"work", "input"})
        BY DEF Inv, Types
      <4>2. Len(queue') = Len(queue) + 1 /\ Len(queue) \in Nat
        BY <4>1, <2>1
      <4> QED BY <4>2
    <3> QED BY <3>1, <1>1, WakeOthers
  <2>2. CASE pc' = [pc EXCEPT ![t] = "fail"]
    BY <2>2, <1>1, <1>2, WakeOthers
  <2> QED BY <1>5, <2>1, <2>2 DEF PostHaveWork
<1>6. CASE ClearHaveWork(t)
  <2>1. pc[t] = "fail" /\ pc'[t] = "idle"
    BY <1>0, <1>6 DEF ClearHaveWork
  <2> QED BY <2>1
<1> QED BY <1>3, <1>4, <1>5, <1>6 DEF ScheduleWork

\* A thread that posts is on its way, or another one already is.
LEMMA PostCalls ==
  ASSUME pc \in [Threads -> Places], NEW t \in Threads, pc[t] \in {"idle", "lock"},
         \/ \E k : Post(t, k)
         \/ Enqueue(t)
  PROVE  /\ Scheduling => Scheduling'
         /\ incoming = <<>> /\ incoming' # <<>> => Scheduling'
<1>1. \/ pc' = [pc EXCEPT ![t] = "lock"] /\ incoming' = incoming
      \/ pc' = [pc EXCEPT ![t] = "wake"] /\ incoming = <<>>
      \/ pc' = [pc EXCEPT ![t] = "idle"] /\ incoming # <<>>
  BY DEF Enqueue, Post, AddToIncomingQueue
<1>2. ASSUME Scheduling PROVE Scheduling'
  <2>1. PICK u \in Threads : pc[u] \in {"wake", "post", "fail"}
    BY <1>2 DEF Scheduling
  <2>2. pc'[u] = pc[u]
    BY <2>1, <1>1
  <2> QED BY <2>1, <2>2 DEF Scheduling
<1>3. ASSUME incoming = <<>>, incoming' # <<>> PROVE Scheduling'
  <2>1. pc'[t] = "wake"
    BY <1>1, <1>3
  <2> QED BY <2>1 DEF Scheduling
<1> QED BY <1>2, <1>3

\* A step that only posts, or only wakes the pump, is not one of the loop.
LEMMA WakePost ==
  ASSUME Inv, WillWake, NEW t \in Threads, pc[t] \in {"idle", "lock"},
         \/ \E k : Post(t, k)
         \/ Enqueue(t),
         UNCHANGED <<stack, nestable_allowed, work, delayed, delayed_work_time, queue>>
  PROVE  WillWake'
<1>1. pc \in [Threads -> Places]
  BY DEF Inv, Types
<1>2. /\ Scheduling => Scheduling'
      /\ incoming = <<>> /\ incoming' # <<>> => Scheduling'
  BY <1>1, PostCalls
<1>3. Looked /\ incoming # <<>> => Scheduling \/ queue # <<>>
  BY DEF WillWake
<1> QED BY <1>2, <1>3, WakeOthers

LEMMA WakeNext ==
  ASSUME Inv, Next \/ UNCHANGED vars, WillWake, ~TakenBack
  PROVE  WillWake'
<1>0. /\ queue \in Seq({"work", "input"})
      /\ StackInv(stack, nestable_allowed)
  BY DEF Inv, Types
<1>1. ASSUME NEW p \in Posters, NEW k \in Kinds[p], PostTask(p, k) PROVE WillWake'
  <2>1. /\ pc[p] = "idle" /\ p \in Threads /\ Post(p, k)
        /\ UNCHANGED <<stack, nestable_allowed, work, delayed, delayed_work_time, queue>>
    BY <1>1 DEF PostTask, timevars, winvars, Threads
  <2> QED BY <2>1, WakePost
<1>2. ASSUME NEW t \in Threads, Enqueue(t) PROVE WillWake'
  <2>1. /\ pc[t] = "lock"
        /\ UNCHANGED <<stack, nestable_allowed, work, delayed, delayed_work_time, queue>>
    BY <1>2 DEF Enqueue, timevars, winvars
  <2> QED BY <2>1, <1>2, WakePost
<1>3. ASSUME NEW t \in Threads, ScheduleWork(t) PROVE WillWake'
  BY <1>3, WakeThread DEF TakenBack
<1>4. CASE Pump
  BY <1>4, WakePump
<1>5. CASE EndModal
  <2>1. stack # <<>> /\ Closes
    BY <1>5 DEF EndModal, At, Free, Leave, Closes
  <2> QED BY <1>0, <2>1, DullShape
<1>6. CASE Destroy
  <2>1. stack' = <<>>
    BY <1>6 DEF Destroy
  <2> QED BY <2>1, DullTop
<1>7. CASE Input
  <2>1. /\ queue' = Append(queue, "input")
        /\ UNCHANGED <<stack, nestable_allowed, work, delayed, delayed_work_time>>
    BY <1>7 DEF Input, taskvars, timevars
  <2>2. Len(queue') = Len(queue) + 1 /\ Len(queue) \in Nat
    BY <1>0, <2>1
  <2>3. queue' # <<>>
    BY <2>2
  <2> QED BY <2>1, <2>3, WakeOthers
<1>8. CASE Tick \/ UNCHANGED vars
  <2>1. UNCHANGED <<stack, nestable_allowed, work, delayed, delayed_work_time, incoming,
                    queue, pc>>
    BY <1>8 DEF Tick, vars, taskvars, timevars, winvars
  <2>2. Scheduling' = Scheduling
    BY <2>1 DEF Scheduling
  <2>3. Looked /\ incoming # <<>> => Scheduling \/ queue # <<>>
    BY DEF WillWake
  <2> QED BY <2>1, <2>2, <2>3, WakeOthers
<1> QED BY <1>1, <1>2, <1>3, <1>4, <1>5, <1>6, <1>7, <1>8 DEF Next

-----------------------------------------------------------------------------
(* Nor does any but the same one lose the call of a native modal loop that is *)
(* open.                                                                      *)

\* A modal loop in frame f sleeps, if tasks are allowed.
Sleepy(f) == /\ f.kind = "modal"
             /\ f.at = "peek" \/ (f.at \in {"timer", "rearm"} /\ ~f.more)

Calling == Scheduling \/ HaveWorkMessages # {}

LEMMA SleepyTop == ModalSleeps <=> stack # <<>> /\ nestable_allowed /\ Sleepy(Top)
BY DEF ModalSleeps, Sleepy

\* A flag of the innermost RunLoop is set in loops s, the last of which is f.
LEMMA FlagTop ==
  ASSUME NEW s \in Seq(Frame), s # <<>>, NEW i \in 1..Len(s), NEW e,
         e.kind = s[i].kind, e.at = s[i].at, e.more = s[i].more,
         stack' = [s EXCEPT ![i] = e], Len(stack') = Len(s)
  PROVE  Sleepy(Top') => Sleepy(s[Len(s)])
<1>1. Len(s) \in DOMAIN s
  BY EmptySeq, LenProperties
<1>2. Top' = IF i = Len(s) THEN e ELSE s[Len(s)]
  BY <1>1 DEF Top
<1> QED BY <1>2 DEF Sleepy

\* A task or a handler that opens no loop leaves its own where it was sent.
LEMMA CodeHeight ==
  ASSUME StackInv(stack, nestable_allowed), stack # <<>>, NEW f, GoesOn(f),
         NEW b, Code(f, b), Len(stack') = Len(stack)
  PROVE  nestable_allowed' = nestable_allowed /\ (Sleepy(Top') => Sleepy(f))
<1> DEFINE B == Back(f)
           i == Innermost(stack)
<1>1. f \in Frame /\ SameLoop(f, stack[Len(stack)])
  BY DEF GoesOn, Top
<1>2. /\ StackInv(B, nestable_allowed) /\ Len(B) = Len(stack) /\ Len(stack) \in Nat \ {0}
      /\ B[Len(B)] = f
  BY <1>1, StackGoto DEF Back
<1>3. B \in Seq(Frame) /\ B # <<>>
  BY <1>2, EmptySeq DEF StackInv
<1>4. i \in 1..Len(B)
  BY <1>2, InnermostIn
<1> HIDE DEF B, i
<1>5. CASE Returns(f) \/ Posts(f)
  <2>1. stack' = B /\ nestable_allowed' = nestable_allowed
    BY <1>5 DEF Returns, Posts, Goto, Back, B
  <2>2. Top' = f
    BY <2>1, <1>2 DEF Top
  <2> QED BY <2>1, <2>2
<1>6. ASSUME NEW e, e.kind = B[i].kind, e.at = B[i].at, e.more = B[i].more,
             stack' = [B EXCEPT ![i] = e]
      PROVE  Sleepy(Top') => Sleepy(f)
  BY <1>2, <1>3, <1>4, <1>6, FlagTop
<1>7. B[i] \in Frame
  BY <1>3, <1>4, ElementOfSeq
<1>8. CASE QuitWhenIdle(f)
  <2> DEFINE e == [B[i] EXCEPT !.idle = TRUE]
  <2>1. e.kind = B[i].kind /\ e.at = B[i].at /\ e.more = B[i].more
    BY <1>7 DEF Frame
  <2>2. stack' = [B EXCEPT ![i] = e] /\ nestable_allowed' = nestable_allowed
    BY <1>8 DEF QuitWhenIdle, B, i
  <2> HIDE DEF e
  <2> QED BY <2>1, <2>2, <1>6
<1>9. CASE QuitNow(f)
  <2> DEFINE e == [B[i] EXCEPT !.quit = TRUE]
  <2>1. e.kind = B[i].kind /\ e.at = B[i].at /\ e.more = B[i].more
    BY <1>7 DEF Frame
  <2>2. stack' = [B EXCEPT ![i] = e] /\ nestable_allowed' = nestable_allowed
    BY <1>9 DEF QuitNow, B, i
  <2> HIDE DEF e
  <2> QED BY <2>1, <2>2, <1>6
<1>10. CASE OpensModal(f, b) \/ OpensRun(f, b)
  <2>1. PICK k, d : stack' = Append(B, NewLoop(k, d, nestable_allowed))
    BY <1>10 DEF OpensModal, OpensRun, B
  <2>2. Len(stack') = Len(B) + 1
    BY <2>1, <1>3
  <2> QED BY <2>2, <1>2
<1> QED BY <1>5, <1>8, <1>9, <1>10 DEF Code

\* The UI thread goes on: it may post, and takes no call.
LEMMA CodePosts ==
  ASSUME pc \in [Threads -> Places], pc[UI] = "idle", NEW f, NEW b, Code(f, b)
  PROVE  /\ Scheduling => Scheduling'
         /\ incoming = <<>> /\ incoming' # <<>> => Scheduling'
<1>0. UI \in Threads
  BY DEF Threads
<1>1. CASE \E k : Post(UI, k)
  BY <1>0, <1>1, PostCalls
<1>2. CASE incoming' = incoming /\ (pc' = pc \/ pc' = [pc EXCEPT ![UI] = "wake"])
  <2>1. \A u \in Threads : pc[u] # "idle" => pc'[u] = pc[u]
    BY <1>0, <1>2
  <2> QED BY <2>1, <1>2 DEF Scheduling
<1> QED BY <1>1, <1>2, CodeCalls

\* A loop that already slept goes on doing so.
LEMMA CallKeeps ==
  ASSUME WillCall, ModalSleeps, Scheduling => Scheduling',
         HaveWorkMessages # {} => HaveWorkMessages' # {},
         incoming = <<>> /\ incoming' # <<>> => Scheduling', work' # <<>> => work # <<>>
  PROVE  WillCall'
<1>1. WillCall' = (ModalSleeps' /\ (work' # <<>> \/ incoming' # <<>>) => Calling')
  BY DEF WillCall, Calling
<1>2. ASSUME work' # <<>> \/ incoming' # <<>> PROVE Calling'
  <2>1. CASE work # <<>> \/ incoming # <<>>
    <3>1. Scheduling \/ HaveWorkMessages # {}
      BY <2>1 DEF WillCall
    <3> QED BY <3>1 DEF Calling
  <2>2. CASE work = <<>> /\ incoming = <<>>
    BY <2>2, <1>2 DEF Calling
  <2> QED BY <2>1, <2>2
<1> QED BY <1>1, <1>2

\* The innermost loop goes on where it does not sleep.
LEMMA CallGoes ==
  ASSUME StackInv(stack, nestable_allowed), stack # <<>>, NEW f, GoesOn(f), Goto(f), ~Sleepy(f)
  PROVE  ~ModalSleeps'
<1>1. Top' = f
  BY GotoTop
<1> QED BY <1>1 DEF ModalSleeps, Sleepy

LEMMA CallCodes ==
  ASSUME StackInv(stack, nestable_allowed), stack # <<>>, NEW f, GoesOn(f),
         NEW b, Code(f, b), Len(stack') = Len(stack), ~Sleepy(f)
  PROVE  ~ModalSleeps'
BY CodeHeight DEF ModalSleeps, Sleepy

LEMMA CallPump ==
  ASSUME Inv, WillCall, Pump, Len(stack') = Len(stack), ModalSleeps'
  PROVE  WillCall'
<1>0. /\ stack # <<>> /\ pc[UI] = "idle" /\ StackInv(stack, nestable_allowed)
      /\ Goes \/ Calls \/ Closes \/ Stays
      /\ pc \in [Threads -> Places] /\ queue \in Seq({"work", "input"})
      /\ \A i, j \in HaveWorkMessages : i = j
  BY PumpShape DEF Inv, Types, PumpInv
<1>1. Top \in Frame /\ Len(stack) \in Nat \ {0} /\ stack \in Seq(Frame)
  BY <1>0, TopFrame DEF StackInv
<1>a. /\ \A l \in Ats : /\ GoesOn(Here(l)) /\ Here(l).at = l /\ Here(l).more = Top.more
                        /\ Here(l).kind = Top.kind
      /\ \A l \in Ats, m \in BOOLEAN : /\ GoesOn(With(l, m)) /\ With(l, m).at = l
                                       /\ With(l, m).more = m /\ With(l, m).kind = Top.kind
      /\ GoesOn(AfterMessage)
  BY <1>1, HereFrame, HereMore, AfterFrame DEF With
<1>b. /\ "peek" \in Ats /\ "dispatch" \in Ats /\ "timer" \in Ats /\ "replace" \in Ats
      /\ "rearm" \in Ats /\ "work" \in Ats /\ "again" \in Ats /\ "delayed" \in Ats
      /\ "after" \in Ats /\ "idle" \in Ats /\ "idled" \in Ats /\ "wait" \in Ats
      /\ TRUE \in BOOLEAN /\ FALSE \in BOOLEAN
  BY DEF Ats
<1>c. Sleepy(AfterMessage) => /\ Top.kind = "modal" /\ Top.at # "dispatch" /\ ~Top.more
                              /\ AfterMessage = Here("peek")
  BY <1>a, <1>b DEF AfterMessage, Sleepy, Frame
<1>d. ~Leave
  <2> SUFFICES ASSUME Leave PROVE FALSE
    OBVIOUS
  <2>1. Len(SubSeq(stack, 1, Len(stack) - 1)) = Len(stack) - 1
    BY <1>1
  <2> QED BY <2>1, <1>1 DEF Leave
<1>e. ASSUME NEW f, GoesOn(f), Goto(f) PROVE Sleepy(f)
  BY <1>e, <1>0, CallGoes
<1>f. ASSUME NEW f, GoesOn(f), NEW b, Code(f, b)
      PROVE  Sleepy(f) /\ nestable_allowed' = nestable_allowed
  BY <1>f, <1>0, CallCodes, CodeHeight
<1>g. nestable_allowed'
  BY DEF ModalSleeps
\* A step of DoRunLoop is not one of a modal loop.
<1>2. ASSUME Top.kind = "run" PROVE FALSE
  <2>1. \A f : GoesOn(f) => ~Sleepy(f)
    BY <1>2 DEF GoesOn, SameLoop, Sleepy
  <2>2. CASE Goes
    BY <2>1, <2>2, <1>e DEF Goes
  <2>3. CASE Calls
    BY <2>1, <2>3, <1>f DEF Calls
  <2>4. CASE Closes
    <3>1. Len(SubSeq(stack, 1, Len(stack) - 1)) = Len(stack) - 1
      BY <1>1
    <3> QED BY <2>4, <3>1, <1>1 DEF Closes
  <2>5. CASE Stays
    BY <2>5, <1>2 DEF Stays, ModalSleeps, Top
  <2> QED BY <2>2, <2>3, <2>4, <2>5, <1>0
<1>3. CASE PeekNothing \/ RunDelayedWork \/ After \/ Idle \/ Idled \/ WaitForWork
  BY <1>2, <1>3 DEF PeekNothing, RunDelayedWork, After, Idle, Idled, WaitForWork, InRun
<1>h. ASSUME Sleepy(Top), nestable_allowed PROVE ModalSleeps
  BY <1>h, <1>0, SleepyTop
<1>4. CASE PeekInput
  <2>1. /\ Top.at = "peek" /\ queue # <<>> /\ Head(queue) = "input" /\ queue' = Tail(queue)
        /\ Code(AfterMessage, FALSE) /\ work' = work
    BY <1>4 DEF PeekInput, At
  <2>2. nestable_allowed /\ Sleepy(Top)
    BY <2>1, <1>a, <1>c, <1>f, <1>g DEF Sleepy
  <2>3. HaveWorkMessages # {} => HaveWorkMessages' # {}
    BY <2>1, <1>0, MsgTail
  <2> QED BY <2>1, <2>2, <2>3, <1>0, <1>h, CodePosts, CallKeeps
<1>5. CASE PeekHaveWork
  BY <1>5, <1>a, <1>b, <1>e DEF PeekHaveWork, Sleepy
<1>6. CASE PeekTimer
  <2>1. /\ Top.at = "peek" /\ queue' = queue /\ work' = work /\ incoming' = incoming
        /\ pc' = pc /\ nestable_allowed' = nestable_allowed /\ Goto(Here("timer"))
    BY <1>6 DEF PeekTimer, At, winvars, taskvars
  <2>2. Sleepy(Top)
    BY <2>1, <1>a, <1>b, <1>e DEF Sleepy
  <2>3. Scheduling' = Scheduling
    BY <2>1 DEF Scheduling
  <2> QED BY <2>1, <2>2, <2>3, <1>g, <1>h, MsgSame, CallKeeps
<1>7. CASE Replace
  <2>1. Goto(With("work", FALSE)) \/ Goto(Here("dispatch")) \/ Goto(With("timer", TRUE))
    BY <1>7 DEF Replace, With
  <2>2. ~Sleepy(With("work", FALSE)) /\ ~Sleepy(Here("dispatch")) /\ ~Sleepy(With("timer", TRUE))
    BY <1>a, <1>b DEF Sleepy
  <2> QED BY <2>1, <2>2, <1>a, <1>b, <1>e
<1>8. CASE Dispatch
  <2>1. Top.at = "dispatch" /\ Code(AfterMessage, FALSE)
    BY <1>8 DEF Dispatch, At
  <2> QED BY <2>1, <1>a, <1>c, <1>f
<1>9. CASE HandleTimerMessage
  <2>1. /\ Top.at = "timer" /\ queue' = queue /\ DoDelayedWork(Here("rearm"), Here("rearm"))
    BY <1>9 DEF HandleTimerMessage, At, winvars
  <2>2. /\ work' = work
        /\ \/ Code(Here("rearm"), TRUE)
           \/ /\ Goto(Here("rearm")) /\ incoming' = incoming /\ pc' = pc
              /\ nestable_allowed' = nestable_allowed
    BY <2>1 DEF DoDelayedWork, NoDelayedWork, NotYet, RunDelayed, taskvars
  <2>3. Sleepy(Here("rearm")) /\ nestable_allowed
    BY <2>2, <1>a, <1>b, <1>e, <1>f, <1>g
  <2>4. Sleepy(Top)
    BY <2>1, <2>3, <1>a, <1>b DEF Sleepy
  <2>5. /\ Scheduling => Scheduling'
        /\ incoming = <<>> /\ incoming' # <<>> => Scheduling'
    <3>1. CASE Code(Here("rearm"), TRUE)
      BY <3>1, <1>0, CodePosts
    <3>2. CASE incoming' = incoming /\ pc' = pc
      BY <3>2 DEF Scheduling
    <3> QED BY <2>2, <3>1, <3>2
  <2> QED BY <2>1, <2>2, <2>3, <2>4, <2>5, <1>h, MsgSame, CallKeeps
<1>10. CASE Rearm
  <2>1. /\ Top.at = "rearm" /\ queue' = queue /\ work' = work /\ incoming' = incoming
        /\ pc' = pc /\ nestable_allowed' = nestable_allowed /\ Goto(AfterMessage)
    BY <1>10 DEF Rearm, At, winvars, taskvars
  <2>2. Sleepy(Top)
    BY <2>1, <1>a, <1>c, <1>e DEF Sleepy
  <2>3. Scheduling' = Scheduling
    BY <2>1 DEF Scheduling
  <2> QED BY <2>1, <2>2, <2>3, <1>g, <1>h, MsgSame, CallKeeps
<1>11. CASE RunWork
  <2>1. Top.at = "work" /\ DoWork(Here("again"), With("peek", FALSE))
    BY <1>2, <1>11, <1>d, <1>1 DEF RunWork, At, With, Frame
  <2>2. CASE ReloadWorkQueue \/ MoveToDelayed \/ Defer
    <3>1. Top' = Top
      BY <2>2 DEF ReloadWorkQueue, MoveToDelayed, Defer, Top
    <3> QED BY <2>1, <3>1 DEF ModalSleeps
  <2>3. CASE RunFirst(Here("again"))
    <3>1. ~Sleepy(Here("again"))
      BY <1>a, <1>b DEF Sleepy
    <3> QED BY <2>3, <3>1, <1>a, <1>b, <1>f DEF RunFirst
  <2>4. CASE /\ ~nestable_allowed \/ (work = <<>> /\ incoming = <<>>)
             /\ UNCHANGED <<taskvars, nestable_allowed>>
    <3>1. work' = <<>> /\ incoming' = <<>>
      BY <2>4, <1>g DEF taskvars
    <3> QED BY <3>1 DEF WillCall
  <2> QED BY <2>1, <2>2, <2>3, <2>4 DEF DoWork
<1>12. CASE Again
  <2>1. pc'[UI] = "wake"
    BY <1>12, <1>0 DEF Again, WakeSelf, Threads
  <2>2. Scheduling'
    BY <2>1 DEF Scheduling, Threads
  <2> QED BY <2>2 DEF WillCall
<1> QED BY <1>3, <1>4, <1>5, <1>6, <1>7, <1>8, <1>9, <1>10, <1>11, <1>12 DEF Pump

\* Another thread steps, or none does.
LEMMA CallOthers ==
  ASSUME WillCall, UNCHANGED <<stack, nestable_allowed, work>>,
         ModalSleeps /\ Calling => Calling',
         incoming = <<>> /\ incoming' # <<>> => Scheduling'
  PROVE  WillCall'
<1>1. ModalSleeps' = ModalSleeps
  BY DEF ModalSleeps, Top
<1>2. WillCall' = (ModalSleeps' /\ (work' # <<>> \/ incoming' # <<>>) => Calling')
  BY DEF WillCall, Calling
<1>3. ASSUME ModalSleeps, work # <<>> \/ incoming' # <<>> PROVE Calling'
  <2>1. CASE work # <<>> \/ incoming # <<>>
    BY <1>3, <2>1 DEF WillCall, Calling
  <2>2. CASE work = <<>> /\ incoming = <<>>
    BY <1>3, <2>2 DEF Calling
  <2> QED BY <2>1, <2>2
<1> QED BY <1>1, <1>2, <1>3

LEMMA CallThread ==
  ASSUME Inv, WillCall, NEW t \in Threads, ScheduleWork(t), ~TakenBack
  PROVE  WillCall'
<1>0. pc \in [Threads -> Places] /\ PumpInv /\ queue \in Seq({"work", "input"})
  BY DEF Inv, Types
<1>1. UNCHANGED <<stack, nestable_allowed, work, incoming>>
  BY DEF ScheduleWork, Exchange, PostHaveWork, ClearHaveWork, taskvars
<1>2. ASSUME NEW v \in {"post", "fail"}, pc' = [pc EXCEPT ![t] = v] PROVE Calling'
  <2>1. pc'[t] \in {"post", "fail"}
    BY <1>0, <1>2
  <2> QED BY <2>1 DEF Scheduling, Calling
<1>3. CASE Exchange(t) /\ have_work
  <2>1. pc[t] = "wake" /\ queue' = queue /\ pc' = [pc EXCEPT ![t] = "idle"]
    BY <1>3 DEF Exchange
  <2>2. HaveWorkMessages # {} \/ Waking # {} \/ Replacing
    BY <1>0, <1>3 DEF PumpInv
  <2>3. ASSUME ModalSleeps PROVE Calling'
    <3>1. ~Replacing
      BY <2>3 DEF ModalSleeps, Replacing
    <3>2. CASE HaveWorkMessages # {}
      BY <3>2, <2>1, MsgSame DEF Calling
    <3>3. CASE Waking # {}
      <4>1. PICK u \in Threads : pc[u] \in {"post", "fail"}
        BY <3>3 DEF Waking
      <4>2. pc'[u] \in {"post", "fail"}
        BY <4>1, <2>1, <1>0
      <4> QED BY <4>2 DEF Scheduling, Calling
    <3> QED BY <2>2, <3>1, <3>2, <3>3
  <2> QED BY <2>3, <1>1, CallOthers
<1>4. CASE Exchange(t) /\ ~have_work
  <2>1. Calling'
    BY <1>2, <1>4 DEF Exchange
  <2> QED BY <2>1, <1>1, CallOthers
<1>5. CASE PostHaveWork(t)
  <2>1. CASE queue' = Append(queue, "work")
    <3>1. Len(queue) + 1 \in HaveWorkMessages'
      BY <1>0, <2>1, MsgAppend
    <3> QED BY <3>1, <1>1, CallOthers DEF Calling
  <2>2. CASE pc' = [pc EXCEPT ![t] = "fail"]
    BY <2>2, <1>1, <1>2, CallOthers
  <2> QED BY <1>5, <2>1, <2>2 DEF PostHaveWork
<1>6. CASE ClearHaveWork(t)
  <2>1. pc[t] = "fail" /\ pc'[t] = "idle"
    BY <1>0, <1>6 DEF ClearHaveWork
  <2> QED BY <2>1 DEF TakenBack
<1> QED BY <1>3, <1>4, <1>5, <1>6 DEF ScheduleWork

LEMMA CallPost ==
  ASSUME Inv, WillCall, NEW t \in Threads, pc[t] \in {"idle", "lock"},
         \/ \E k : Post(t, k)
         \/ Enqueue(t),
         UNCHANGED <<stack, nestable_allowed, work, queue>>
  PROVE  WillCall'
<1>1. pc \in [Threads -> Places]
  BY DEF Inv, Types
<1>2. /\ Scheduling => Scheduling'
      /\ incoming = <<>> /\ incoming' # <<>> => Scheduling'
  BY <1>1, PostCalls
<1>3. HaveWorkMessages' = HaveWorkMessages
  BY MsgSame
<1> QED BY <1>2, <1>3, CallOthers DEF Calling

LEMMA CallNext ==
  ASSUME Inv, Next \/ UNCHANGED vars, WillCall, ~TakenBack, Len(stack') = Len(stack)
  PROVE  WillCall'
<1>0. queue \in Seq({"work", "input"}) /\ stack \in Seq(Frame)
  BY DEF Inv, Types, StackInv
<1>1. ASSUME NEW p \in Posters, NEW k \in Kinds[p], PostTask(p, k) PROVE WillCall'
  <2>1. /\ pc[p] = "idle" /\ p \in Threads /\ Post(p, k)
        /\ UNCHANGED <<stack, nestable_allowed, work, queue>>
    BY <1>1 DEF PostTask, winvars, Threads
  <2> QED BY <2>1, CallPost
<1>2. ASSUME NEW t \in Threads, Enqueue(t) PROVE WillCall'
  <2>1. pc[t] = "lock" /\ UNCHANGED <<stack, nestable_allowed, work, queue>>
    BY <1>2 DEF Enqueue, winvars
  <2> QED BY <2>1, <1>2, CallPost
<1>3. ASSUME NEW t \in Threads, ScheduleWork(t) PROVE WillCall'
  BY <1>3, CallThread
<1>4. CASE Pump
  <2>1. CASE ModalSleeps'
    BY <1>4, <2>1, CallPump
  <2>2. CASE ~ModalSleeps'
    BY <2>2 DEF WillCall
  <2> QED BY <2>1, <2>2
<1>5. CASE EndModal
  <2>1. stack' = SubSeq(stack, 1, Len(stack) - 1) /\ stack # <<>>
    BY <1>5 DEF EndModal, Leave, At, Free
  <2>2. Len(stack) \in Nat \ {0}
    BY <1>0, <2>1, EmptySeq
  <2>3. Len(stack') = Len(stack) - 1
    BY <1>0, <2>1, <2>2
  <2> QED BY <2>2, <2>3
<1>6. CASE Destroy
  <2>1. stack' = <<>>
    BY <1>6 DEF Destroy
  <2> QED BY <2>1 DEF WillCall, ModalSleeps
<1>7. CASE Input
  <2>1. /\ queue' = Append(queue, "input") /\ pc' = pc
        /\ UNCHANGED <<stack, nestable_allowed, work, incoming>>
    BY <1>7 DEF Input, taskvars
  <2>2. HaveWorkMessages' = HaveWorkMessages
    BY <1>0, <2>1, MsgAppend
  <2>3. Scheduling' = Scheduling
    BY <2>1 DEF Scheduling
  <2> QED BY <2>1, <2>2, <2>3, CallOthers DEF Calling
<1>8. CASE Tick \/ UNCHANGED vars
  <2>1. UNCHANGED <<stack, nestable_allowed, work, incoming, queue, pc>>
    BY <1>8 DEF Tick, vars, taskvars, winvars
  <2>2. Scheduling' = Scheduling
    BY <2>1 DEF Scheduling
  <2> QED BY <2>1, <2>2, MsgSame, CallOthers DEF Calling
<1> QED BY <1>1, <1>2, <1>3, <1>4, <1>5, <1>6, <1>7, <1>8 DEF Next

\* A RunLoop goes to sleep on work it could do in one way only: a thread that
\* found the window message queue full takes back a claim on have_work_ that
\* another thread has relied on. In a native modal loop that stays the innermost
\* one, nothing else leaves a posted task without a kMsgHaveWork either; what it
\* misses besides is what waits when it is opened or returned to
\* (MessagePumpForUI::ScheduleWork, WaitForWork, HandleWorkMessage,
\* MessageLoop::DoDelayedWork).
THEOREM WakeupsAreKept == Spec => NoLostWakeup
<1> DEFINE Kept == /\ WillWake => WillWake' \/ TakenBack
                   /\ WillCall => WillCall' \/ TakenBack \/ Len(stack') # Len(stack)
<1>1. Inv /\ [Next]_vars => [Kept]_vars
  <2> SUFFICES ASSUME Inv, Next PROVE Kept
    OBVIOUS
  <2>1. WillWake /\ ~TakenBack => WillWake'
    BY WakeNext
  <2>2. WillCall /\ ~TakenBack /\ Len(stack') = Len(stack) => WillCall'
    BY CallNext
  <2> QED BY <2>1, <2>2
<1>2. Spec => [][Kept]_vars
  <2> HIDE DEF Kept
  <2> QED BY <1>1, InvAlways, PTL DEF Spec
<1> QED BY <1>2 DEF NoLostWakeup
=============================================================================

--------------------------- MODULE WorkspaceProofs ---------------------------
(***************************************************************************)
(* Machine-checked proofs about Workspace, for every view and every bound. *)
(*                                                                         *)
(* A press handed to a selection tool is a credit that the tool holds      *)
(* until its gesture is committed or the tool is dropped from the stack.   *)
(* Owing is the set of stack positions that hold one; the commits and the  *)
(* credits together never exceed the presses.                              *)
(***************************************************************************)
EXTENDS Workspace, FiniteSets, FiniteSetTheorems, SequenceTheorems, TLAPS

Owes(i) == i.id \in SelectionTools /\ i.draft /\ ~i.acked

Owing == {k \in 1..Len(stack) : Owes(stack[k])}

\* A result belongs to a gesture that was begun.
GestureBegun == \A k \in 1..Len(stack) : stack[k].result => stack[k].draft

SettledTop(i) == i.id \in SelectionTools /\ i.result => i.acked

Settled == \A k \in 1..Len(stack) : SettledTop(stack[k])

Fits == \A k \in 1..Len(stack) : Allows(stack[k].id)

Balanced == commits + Cardinality(Owing) <= presses

Inv == TypeOK /\ GestureBegun /\ Settled /\ Fits /\ Balanced

(* What an event does to the top of a non-empty stack and to the counts.   *)
TopStep(j) ==
  /\ stack' = [stack EXCEPT ![Len(stack)] = j]
  /\ j.id = Top.id
  /\ j.result => j.draft
  /\ SettledTop(j)
  /\ \/ commits' = commits /\ presses' = presses /\ (Owes(j) => Owes(Top))
     \/ commits' = commits /\ presses' = presses + 1
     \/ commits' = commits + 1 /\ presses' = presses /\ Owes(Top) /\ ~Owes(j)

LEMMA LenNat ==
  ASSUME TypeOK
  PROVE  /\ Len(stack) \in Nat /\ DOMAIN stack = 1..Len(stack)
         /\ \A k \in 1..Len(stack) : stack[k] \in Interaction
         /\ stack # <<>> => Len(stack) \in 1..Len(stack) /\ Top \in Interaction
  BY LenProperties, ElementOfSeq, EmptySeq DEF TypeOK, Top

LEMMA CreateTyped ==
  ASSUME NEW id \in Tools
  PROVE  /\ Create(id) \in Interaction /\ Create(id).id = id
         /\ ~Create(id).draft /\ ~Create(id).result
  BY DEF Create, Interaction

LEMMA ToolClasses == SelectionTools \subseteq DraftTools /\ DraftTools \subseteq Tools
  BY DEF SelectionTools, DraftTools, Tools

(* The credits are a finite set, so their number is a natural.             *)
LEMMA OwingFinite ==
  ASSUME NEW n \in Nat, NEW S \in SUBSET (1..n)
  PROVE  IsFiniteSet(S) /\ Cardinality(S) \in Nat
  <1>1. IsFiniteSet(1..n)
    BY FS_Interval
  <1>2. IsFiniteSet(S)
    BY <1>1, FS_Subset
  <1> QED BY <1>2, FS_CardinalityType

LEMMA FewerCredits ==
  ASSUME NEW n \in Nat, NEW S \in SUBSET (1..n), NEW T \in SUBSET S
  PROVE  Cardinality(T) \in Nat /\ Cardinality(T) <= Cardinality(S)
  <1>1. IsFiniteSet(S)
    BY OwingFinite
  <1> QED BY <1>1, FS_Subset, FS_CardinalityType

LEMMA OneMoreCredit ==
  ASSUME NEW n \in Nat, NEW S \in SUBSET (1..n), NEW k \in 1..n, NEW T \in SUBSET (S \cup {k})
  PROVE  Cardinality(T) \in Nat /\ Cardinality(T) <= Cardinality(S) + 1
  <1>1. IsFiniteSet(S) /\ Cardinality(S) \in Nat
    BY OwingFinite
  <1>2. IsFiniteSet(S \cup {k}) /\ Cardinality(S \cup {k}) <= Cardinality(S) + 1
    BY <1>1, FS_AddElement
  <1>3. Cardinality(S \cup {k}) \in Nat
    BY <1>2, FS_CardinalityType
  <1>4. Cardinality(T) <= Cardinality(S \cup {k}) /\ Cardinality(T) \in Nat
    BY <1>2, FS_Subset, FS_CardinalityType
  <1> QED BY <1>1, <1>2, <1>3, <1>4

LEMMA OneLessCredit ==
  ASSUME NEW n \in Nat, NEW S \in SUBSET (1..n), NEW k \in S, NEW T \in SUBSET (S \ {k})
  PROVE  Cardinality(T) \in Nat /\ Cardinality(T) + 1 <= Cardinality(S)
  <1>1. IsFiniteSet(S) /\ Cardinality(S) \in Nat
    BY OwingFinite
  <1>2. IsFiniteSet(S \ {k}) /\ Cardinality(S \ {k}) = Cardinality(S) - 1
    BY <1>1, FS_RemoveElement
  <1>3. Cardinality(T) <= Cardinality(S \ {k}) /\ Cardinality(T) \in Nat
    BY <1>2, FS_Subset, FS_CardinalityType
  <1> QED BY <1>1, <1>2, <1>3

(* An event changes the top of the stack, and the counts, as TopStep says. *)
LEMMA DispatchTop ==
  ASSUME TypeOK, GestureBegun, Settled, stack # <<>>, NEW e \in Events, Dispatch(e)
  PROVE  \E j \in Interaction : TopStep(j)
  <1> DEFINE n == Len(stack)
             i == OnInput(Top, e)
             st == [stack EXCEPT ![n] = i]
             j == IF Ready(st) THEN [i EXCEPT !.acked = TRUE] ELSE i
  <1>1. n \in 1..n /\ n \in Nat /\ DOMAIN stack = 1..n /\ Top \in Interaction /\ Top = stack[n]
    BY LenNat DEF Top
  <1>2. /\ Top.id \in Tools /\ Top.draft \in BOOLEAN /\ Top.result \in BOOLEAN
        /\ Top.acked \in BOOLEAN
    BY <1>1 DEF Interaction
  <1>3. (Top.result => Top.draft) /\ SettledTop(Top)
    BY <1>1 DEF GestureBegun, Settled
  <1>4. CASE e = "wheel"
    <2>1. Routed(e) = stack
      BY <1>4 DEF Routed
    <2>2. ~Ready(stack)
      BY <1>1, <1>3 DEF Ready, SettledTop
    <2>3. stack' = stack /\ commits' = commits /\ presses' = presses
      BY <1>4, <2>1, <2>2 DEF Dispatch, Acknowledged, Pressed, TypeOK
    <2>4. stack = [stack EXCEPT ![n] = Top]
      BY <1>1, SeqDef DEF TypeOK
    <2>5. TopStep(Top)
      BY <1>3, <2>3, <2>4 DEF TopStep
    <2> QED BY <1>1, <2>5
  <1>5. CASE e # "wheel"
    <2>1. i \in Interaction /\ i.id = Top.id
      BY <1>1 DEF OnInput, Interaction
    <2>2. i \in Interaction /\ i.draft \in BOOLEAN /\ i.result \in BOOLEAN /\ i.acked \in BOOLEAN
      BY <2>1 DEF Interaction
    <2>3. Routed(e) = st
      BY <1>5 DEF Routed
    <2>4. st \in Seq(Interaction) /\ Len(st) = n /\ st[n] = i /\ st # <<>>
      <3>1. st \in Seq(Interaction) /\ Len(st) = n /\ st[n] = i
        BY <1>1, <2>1, ExceptSeq DEF TypeOK
      <3> QED BY <3>1, <1>1, EmptySeq
    <2>5. Ready(st) <=> i.id \in SelectionTools /\ i.result /\ ~i.acked
      BY <2>4 DEF Ready
    <2>6. /\ j \in Interaction /\ j.id = Top.id
          /\ j.draft = i.draft /\ j.result = i.result
          /\ j.acked = (i.acked \/ Ready(st))
      BY <2>1, <2>2 DEF Interaction
    <2>7. Acknowledged(st) = [stack EXCEPT ![n] = j]
      <3>1. [st EXCEPT ![n].acked = TRUE] = [stack EXCEPT ![n] = [i EXCEPT !.acked = TRUE]]
        BY <1>1, <2>4 DEF TypeOK
      <3> QED BY <2>4, <3>1 DEF Acknowledged
    <2>8. /\ stack' = [stack EXCEPT ![n] = j]
          /\ commits' = IF Ready(st) /\ edit_sink THEN commits + 1 ELSE commits
          /\ presses' = presses + Pressed(e)
      BY <2>3, <2>7 DEF Dispatch
    <2>9. j.result => j.draft
      BY <1>2, <1>3, <2>6 DEF OnInput
    <2>10. SettledTop(j)
      BY <2>1, <2>2, <2>5, <2>6 DEF SettledTop
    <2>11. CASE e = "press" /\ Top.id \in SelectionTools
      <3>1. ~i.result
        BY <1>1, <2>11, ToolClasses DEF OnInput, Interaction
      <3>2. ~Ready(st)
        BY <2>5, <3>1
      <3>3. commits' = commits /\ presses' = presses + 1
        BY <2>8, <2>11, <3>2 DEF Pressed
      <3> QED BY <2>6, <2>8, <2>9, <2>10, <3>3 DEF TopStep
    <2>12. CASE ~(e = "press" /\ Top.id \in SelectionTools)
      <3>1. presses' = presses
        BY <2>8, <2>12 DEF Pressed, TypeOK
      <3>2. Top.id \in SelectionTools => i.draft = Top.draft /\ i.acked = Top.acked
        BY <1>1, <2>12 DEF OnInput, Interaction
      <3>3. Owes(j) => Owes(Top)
        BY <2>1, <2>2, <2>6, <3>2 DEF Owes
      <3>4. Ready(st) => Owes(Top) /\ ~Owes(j)
        BY <1>2, <2>1, <2>2, <2>5, <2>6, <2>9, <3>2 DEF Owes
      <3> QED BY <2>6, <2>8, <2>9, <2>10, <3>1, <3>3, <3>4 DEF TopStep
    <2> QED BY <2>11, <2>12
  <1> QED BY <1>4, <1>5

(* What is left of a sequence whose last element is dropped.               *)
LEMMA FrontOfSeq ==
  ASSUME NEW S, NEW s \in Seq(S), s # <<>>
  PROVE  /\ SubSeq(s, 1, Len(s) - 1) \in Seq(S)
         /\ Len(SubSeq(s, 1, Len(s) - 1)) = Len(s) - 1
         /\ \A k \in 1..Len(s) - 1 : SubSeq(s, 1, Len(s) - 1)[k] = s[k]
  <1>1. Len(s) \in Nat /\ Len(s) # 0
    BY LenProperties, EmptySeq
  <1>2. PICK m \in Nat : m = Len(s) - 1
    BY <1>1
  <1>3. \A k \in 1..m : s[k] \in S
    BY <1>1, <1>2, ElementOfSeq
  <1>4. /\ SubSeq(s, 1, m) \in Seq(S)
        /\ Len(SubSeq(s, 1, m)) = IF 1 <= m THEN m - 1 + 1 ELSE 0
        /\ \A k \in 1..m - 1 + 1 : SubSeq(s, 1, m)[k] = s[1 + k - 1]
    BY <1>2, <1>3, SubSeqProperties
  <1>5. Len(SubSeq(s, 1, m)) = m
    BY <1>4
  <1>6. \A k \in 1..m : k \in 1..m - 1 + 1 /\ 1 + k - 1 = k
    OBVIOUS
  <1> QED BY <1>2, <1>4, <1>5, <1>6

(* The invariant after a change of the top of the stack.                   *)
LEMMA TopStepInv ==
  ASSUME Inv, stack # <<>>, NEW j \in Interaction, TopStep(j),
         presses' <= PressLimit, selection_requested' \in BOOLEAN, edit_sink' \in BOOLEAN
  PROVE  Inv'
  <1> DEFINE n == Len(stack)
  <1>1. /\ n \in 1..n /\ n \in Nat /\ Top = stack[n] /\ presses \in Nat /\ commits \in Nat
        /\ stack \in Seq(Interaction) /\ PressLimit \in Nat
    BY LenNat, Constants DEF Inv, TypeOK, Top, BoundAssumption
  <1>2. /\ stack' \in Seq(Interaction) /\ Len(stack') = n /\ stack'[n] = j
        /\ \A k \in 1..n : k # n => stack'[k] = stack[k]
    BY <1>1, ExceptSeq DEF TopStep
  <1>3. TypeOK'
    <2>1. Len(stack') <= DepthLimit
      BY <1>2 DEF Inv, TypeOK
    <2>2. commits' \in Nat /\ presses' \in Nat
      BY <1>1 DEF TopStep
    <2>3. presses' \in 0..PressLimit
      BY <1>1, <2>2
    <2> QED BY <1>2, <2>1, <2>2, <2>3 DEF TypeOK
  <1>4. GestureBegun' /\ Settled'
    BY <1>2 DEF Inv, GestureBegun, Settled, TopStep
  <1>5. Fits'
    BY <1>1, <1>2 DEF Inv, Fits, TopStep, Allows
  <1>6. Owing \subseteq 1..n /\ Owing' \subseteq Owing \cup {n}
    BY <1>2 DEF Owing
  <1>7. Cardinality(Owing) \in Nat
    BY <1>1, <1>6, OwingFinite
  <1>8. CASE commits' = commits /\ presses' = presses /\ (Owes(j) => Owes(Top))
    <2>1. Owing' \subseteq Owing
      BY <1>1, <1>2, <1>8 DEF Owing
    <2>2. Cardinality(Owing') \in Nat /\ Cardinality(Owing') <= Cardinality(Owing)
      BY <1>1, <1>6, <2>1, FewerCredits
    <2>3. Balanced'
      BY <1>1, <1>7, <1>8, <2>2 DEF Inv, Balanced
    <2> QED BY <1>3, <1>4, <1>5, <2>3 DEF Inv
  <1>9. CASE commits' = commits /\ presses' = presses + 1
    <2>1. Cardinality(Owing') \in Nat /\ Cardinality(Owing') <= Cardinality(Owing) + 1
      BY <1>1, <1>6, OneMoreCredit
    <2>2. Balanced'
      BY <1>1, <1>7, <1>9, <2>1 DEF Inv, Balanced
    <2> QED BY <1>3, <1>4, <1>5, <2>2 DEF Inv
  <1>10. CASE commits' = commits + 1 /\ presses' = presses /\ Owes(Top) /\ ~Owes(j)
    <2>1. n \in Owing /\ Owing' \subseteq Owing \ {n}
      BY <1>1, <1>2, <1>10 DEF Owing
    <2>2. Cardinality(Owing') \in Nat /\ Cardinality(Owing') + 1 <= Cardinality(Owing)
      BY <1>1, <1>6, <2>1, OneLessCredit
    <2>3. Balanced'
      BY <1>1, <1>7, <1>10, <2>2 DEF Inv, Balanced
    <2> QED BY <1>3, <1>4, <1>5, <2>3 DEF Inv
  <1> QED BY <1>8, <1>9, <1>10 DEF TopStep

(* The invariant after a step that brings no press, commits nothing and    *)
(* whose every tool is an old one at its place, or a new one.              *)
LEMMA QuietStepInv ==
  ASSUME Inv, UNCHANGED <<presses, commits>>,
         selection_requested' \in BOOLEAN, edit_sink' \in BOOLEAN,
         stack' \in Seq(Interaction), Len(stack') <= DepthLimit,
         \A k \in 1..Len(stack') :
           \/ k \in 1..Len(stack) /\ stack'[k] = stack[k]
           \/ Allows(stack'[k].id) /\ ~stack'[k].draft /\ ~stack'[k].result
  PROVE  Inv'
  <1>1. /\ Len(stack) \in Nat /\ presses \in Nat /\ commits \in Nat
    BY LenNat DEF Inv, TypeOK
  <1>2. TypeOK'
    BY DEF Inv, TypeOK
  <1>3. GestureBegun' /\ Settled'
    BY DEF Inv, GestureBegun, Settled, SettledTop
  <1>4. Fits'
    BY DEF Inv, Fits, Allows
  <1>5. Owing \subseteq 1..Len(stack) /\ Owing' \subseteq Owing
    BY DEF Owing, Owes
  <1>6. Cardinality(Owing) \in Nat /\ Cardinality(Owing') \in Nat
        /\ Cardinality(Owing') <= Cardinality(Owing)
    BY <1>1, <1>5, OwingFinite, FewerCredits
  <1>7. Balanced'
    BY <1>1, <1>6 DEF Inv, Balanced
  <1> QED BY <1>2, <1>3, <1>4, <1>7 DEF Inv

LEMMA InitInv == Init => Inv
  <1> SUFFICES ASSUME Init PROVE Inv
    OBVIOUS
  <1>1. Len(stack) = 0 /\ stack \in Seq(Interaction)
    BY EmptySeq DEF Init
  <1>2. TypeOK
    <2>1. Len(stack) <= DepthLimit /\ presses \in 0..PressLimit /\ commits \in Nat
      BY <1>1, Constants DEF Init, BoundAssumption
    <2>2. selection_requested \in BOOLEAN /\ edit_sink \in BOOLEAN
      BY DEF Init
    <2> QED BY <1>1, <2>1, <2>2 DEF TypeOK
  <1>3. GestureBegun /\ Settled /\ Fits
    BY <1>1 DEF GestureBegun, Settled, Fits
  <1>4. Owing = {}
    BY <1>1 DEF Owing
  <1>5. Balanced
    BY <1>4, FS_EmptySet DEF Init, Balanced
  <1> QED BY <1>2, <1>3, <1>5 DEF Inv

LEMMA NextInv ==
  ASSUME Inv, [Next]_wsvars
  PROVE  Inv'
  <1>0. /\ stack \in Seq(Interaction) /\ Len(stack) \in Nat /\ Len(stack) <= DepthLimit
        /\ DepthLimit \in Nat \ {0} /\ selection_requested \in BOOLEAN /\ edit_sink \in BOOLEAN
        /\ presses \in Nat /\ PressLimit \in Nat /\ presses <= PressLimit
    BY LenNat, Constants DEF Inv, TypeOK, BoundAssumption
  <1>1. CASE UNCHANGED stack /\ UNCHANGED <<presses, commits>>
             /\ selection_requested' \in BOOLEAN /\ edit_sink' \in BOOLEAN
    BY <1>0, <1>1, QuietStepInv
  <1>2. ASSUME NEW id \in Tools, ActivateTool(id)
        PROVE  Inv'
    <2>1. /\ stack' = <<Create(id)>> /\ Allows(id) /\ UNCHANGED <<presses, commits>>
          /\ selection_requested' \in BOOLEAN /\ edit_sink' \in BOOLEAN
      BY <1>0, <1>2 DEF ActivateTool, Activate
    <2>2. stack' \in Seq(Interaction) /\ Len(stack') = 1 /\ stack'[1] = Create(id)
      BY <2>1, CreateTyped
    <2> QED BY <1>0, <2>1, <2>2, CreateTyped, QuietStepInv
  <1>3. ASSUME NEW id \in Tools, Push(id)
        PROVE  Inv'
    <2>1. /\ stack' = Append(stack, Create(id)) /\ Allows(id) /\ Len(stack) < DepthLimit
          /\ UNCHANGED <<selection_requested, edit_sink, presses, commits>>
      BY <1>3 DEF Push
    <2>2. /\ stack' \in Seq(Interaction) /\ Len(stack') = Len(stack) + 1
          /\ \A k \in 1..Len(stack) : stack'[k] = stack[k]
          /\ stack'[Len(stack) + 1] = Create(id)
      BY <1>0, <2>1, CreateTyped, AppendProperties
    <2> QED BY <1>0, <2>1, <2>2, CreateTyped, QuietStepInv
  <1>4. CASE Pop
    <2>1. /\ stack' = SubSeq(stack, 1, Len(stack) - 1) /\ stack # <<>>
          /\ UNCHANGED <<selection_requested, edit_sink, presses, commits>>
      BY <1>4 DEF Pop
    <2>2. Len(stack) \in 1..Len(stack)
      BY <2>1, LenNat DEF Inv
    <2>3. /\ stack' \in Seq(Interaction) /\ Len(stack') = Len(stack) - 1
          /\ \A k \in 1..Len(stack') : stack'[k] = stack[k]
      <3>1. /\ SubSeq(stack, 1, Len(stack) - 1) \in Seq(Interaction)
            /\ Len(SubSeq(stack, 1, Len(stack) - 1)) = Len(stack) - 1
            /\ \A k \in 1..Len(stack) - 1 : SubSeq(stack, 1, Len(stack) - 1)[k] = stack[k]
        BY <1>0, <2>1, FrontOfSeq
      <3> QED BY <2>1, <3>1
    <2> QED BY <1>0, <2>1, <2>2, <2>3, QuietStepInv
  <1>5. ASSUME NEW e \in Events, Dispatch(e)
        PROVE  Inv'
    <2>1. presses' <= PressLimit /\ selection_requested' \in BOOLEAN /\ edit_sink' \in BOOLEAN
      BY <1>0, <1>5 DEF Dispatch
    <2>2. CASE stack = <<>>
      <3>1. UNCHANGED stack /\ UNCHANGED <<presses, commits>>
        BY <1>0, <1>5, <2>2 DEF Dispatch, Acknowledged, Ready, Routed, Pressed
      <3> QED BY <1>1, <2>1, <3>1
    <2>3. CASE stack # <<>>
      <3>1. \E j \in Interaction : TopStep(j)
        BY <1>5, <2>3, DispatchTop DEF Inv
      <3> QED BY <2>1, <2>3, <3>1, TopStepInv
    <2> QED BY <2>2, <2>3
  <1>6. CASE UNCHANGED wsvars
    BY <1>0, <1>1, <1>6 DEF wsvars
  <1>7. ASSUME NEW cmd \in Commands, Execute(cmd)
        PROVE  Inv'
    <2>1. CASE cmd \in Tools /\ ActivateTool(cmd)
      BY <1>2, <2>1
    <2>2. CASE cmd \in Succeed /\ UNCHANGED wsvars
      BY <1>6, <2>2
    <2>3. CASE /\ cmd = "selection.clear"
               /\ selection_requested' = TRUE
               /\ UNCHANGED <<stack, edit_sink, presses, commits>>
      BY <1>0, <1>1, <2>3
    <2> QED BY <1>7, <2>1, <2>2, <2>3 DEF Execute
  <1>8. CASE SetEditSink
    BY <1>0, <1>1, <1>8 DEF SetEditSink
  <1> QED BY <1>3, <1>4, <1>5, <1>6, <1>7, <1>8 DEF Next

(* The strengthened invariant is inductive.                                *)
THEOREM WorkspaceInvariant == Spec => []Inv
  BY InitInv, NextInv, PTL DEF Spec

(* Type correctness for every view and bound.                              *)
THEOREM WorkspaceTyped == Spec => []TypeOK
  <1>1. Inv => TypeOK
    BY DEF Inv
  <1> QED BY <1>1, WorkspaceInvariant, PTL

(* Whatever tools are pushed, popped and activated between the events, a   *)
(* press is committed to the edit sink at most once.                       *)
THEOREM CommitOncePerPress == Spec => []CommitsWithinPresses
  <1>1. Inv => CommitsWithinPresses
    <2> SUFFICES ASSUME Inv PROVE commits <= presses
      BY DEF CommitsWithinPresses
    <2>1. Len(stack) \in Nat /\ presses \in Nat /\ commits \in Nat
      BY LenNat DEF Inv, TypeOK
    <2>2. Cardinality(Owing) \in Nat
      BY <2>1, OwingFinite DEF Owing
    <2> QED BY <2>1, <2>2 DEF Inv, Balanced
  <1> QED BY <1>1, WorkspaceInvariant, PTL

(* No finished selection waits on the stack, at the top or below it.       *)
THEOREM SelectionCommittedAtOnce == Spec => []NoResultWaits
  <1>1. Inv => NoResultWaits
    BY LenNat DEF Inv, Settled, SettledTop, NoResultWaits
  <1> QED BY <1>1, WorkspaceInvariant, PTL

(* The stack of a flat view never holds a 3D tool.                         *)
THEOREM ToolsFit == Spec => []ToolsFitView
  <1>1. Inv => ToolsFitView
    BY LenNat DEF Inv, Fits, ToolsFitView
  <1> QED BY <1>1, WorkspaceInvariant, PTL
=============================================================================

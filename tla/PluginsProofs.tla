---------------------------- MODULE PluginsProofs ----------------------------
(***************************************************************************)
(* Machine-checked proofs about Plugins, for every set of manifests, DLLs, *)
(* views and ids and every bound on the references.                        *)
(*                                                                         *)
(* A DLL is mapped while it contributes, and a reference it took is only   *)
(* ever given back in the step that records its failure. A load that fails *)
(* gives back its own reference: the one of a load that succeeded before   *)
(* it is still there.                                                      *)
(***************************************************************************)
EXTENDS Plugins, TLAPS

(* The DLL whose entry point runs holds a reference, beside the one of     *)
(* every load of it that succeeded.                                        *)
MappedWhileLoading ==
  loading # None => /\ lib[DllOf[loading]] > 0
                    /\ Here(DllOf[loading]) \in modules => lib[DllOf[loading]] > 1

(* What is mapped has been mapped at least once.                           *)
ImagesCounted == \A d \in Dlls : lib[d] > 0 => image[d] > 0

(* Until a session is set a workspace knows its own tools only.            *)
BareBeforeSession == ~session => installed = [v \in Views |-> RegisterBuiltins]

Inv == TypeOK /\ MappedWhileLoading /\ ImagesCounted /\ LoadedWhileReferenced
         /\ KeptStaysMapped /\ BareBeforeSession /\ FactoriesInstalled

(* What a DLL, or the shell under the name NoRun, may leave in the host.    *)
Contributor == Images \cup {NoRun}

(* What a step of the host leaves alone.                                   *)
LoaderRests == UNCHANGED <<records, queue, loading, loader>>
-----------------------------------------------------------------------------
LEMMA ImageType ==
  ASSUME TypeOK, ImagesCounted, NEW d \in Dlls, lib[d] > 0
  PROVE  Here(d) \in Images /\ Mapped(Here(d))
  BY PluginAssumption DEF TypeOK, ImagesCounted, Here, Images, Mapped

(* Every image that becomes referenced in a step was referenced before it  *)
(* or is mapped before it; and one that is unmapped has failed.            *)
LEMMA KeepsMapped ==
  ASSUME Inv,
         \A p \in Referenced' : p \in Referenced \/ Mapped(p),
         \A p \in Images : Mapped(p) => Mapped(p)' \/ p[1] \in failed',
         failed \subseteq failed'
  PROVE  LoadedWhileReferenced'
  <1> SUFFICES ASSUME NEW p \in Referenced', p[1] \notin failed'
               PROVE  Mapped(p)'
    BY DEF LoadedWhileReferenced
  <1>1. p \in Images
    BY DEF Referenced
  <1>2. Mapped(p)
    BY DEF Inv, LoadedWhileReferenced
  <1> QED BY <1>1, <1>2

(* A step of the host that contributes only mapped code.                   *)
LEMMA HostKeepsMapped ==
  ASSUME Inv, LoaderRests,
         \A p \in Referenced' : p \in Referenced \/ Mapped(p)
  PROVE  MappedWhileLoading' /\ ImagesCounted' /\ LoadedWhileReferenced' /\ KeptStaysMapped'
  <1>1. UNCHANGED <<loading, lib, image, modules, failed>>
    BY DEF LoaderRests, loader
  <1>2. \A p \in Images : Mapped(p) => Mapped(p)'
    BY <1>1 DEF Mapped, Here
  <1>3. LoadedWhileReferenced'
    BY <1>1, <1>2, KeepsMapped
  <1>4. MappedWhileLoading' /\ ImagesCounted' /\ KeptStaysMapped'
    BY <1>1 DEF Inv, MappedWhileLoading, ImagesCounted, KeptStaysMapped, Mapped, Here
  <1> QED BY <1>3, <1>4

LEMMA InitInv == Init => Inv
  <1> SUFFICES ASSUME Init PROVE Inv
    OBVIOUS
  <1>1. TypeOK
    <2>1. RegisterBuiltins \in [Factories -> Images \cup {Builtin, None}]
      BY DEF RegisterBuiltins
    <2>2. lib \in [Dlls -> 0..LoadLimit] /\ image \in [Dlls -> 0..MapLimit]
      BY PluginAssumption DEF Init
    <2> QED BY <2>1, <2>2 DEF Init, TypeOK, Code
  <1>2. Referenced = {}
    BY PluginAssumption DEF Init, Referenced, RegisterBuiltins
  <1>3. ImagesCounted
    BY DEF Init, ImagesCounted
  <1> QED
    BY <1>1, <1>2, <1>3 DEF Inv, Init, MappedWhileLoading, LoadedWhileReferenced,
                      KeptStaysMapped, BareBeforeSession, FactoriesInstalled

(* Steps of the registry and the loader leave the host alone.              *)
LEMMA LoaderKeepsHost ==
  ASSUME Inv, UNCHANGED host
  PROVE  Referenced' = Referenced /\ BareBeforeSession' /\ FactoriesInstalled'
  <1>1. Referenced' = Referenced
    BY DEF host, Referenced
  <1>2. BareBeforeSession'
    BY DEF Inv, host, BareBeforeSession
  <1>3. FactoriesInstalled'
    BY DEF Inv, host, FactoriesInstalled
  <1> QED BY <1>1, <1>2, <1>3

LEMMA LoaderStep ==
  ASSUME Inv, LoadAll \/ (\E dir \in Dirs : Scan(dir))
  PROVE  Inv'
  <1>1. TypeOK' /\ UNCHANGED <<loading, loader, host>>
    BY PluginAssumption DEF Inv, TypeOK, LoadAll, Scan, host, loader
  <1>2. UNCHANGED <<loading, lib, image, modules, failed>>
    BY <1>1 DEF loader
  <1>3. \A p \in Images : Mapped(p) => Mapped(p)'
    BY <1>2 DEF Mapped, Here
  <1>4. LoadedWhileReferenced'
    BY <1>1, <1>2, <1>3, KeepsMapped, LoaderKeepsHost
  <1>5. MappedWhileLoading' /\ ImagesCounted' /\ KeptStaysMapped'
    BY <1>2 DEF Inv, MappedWhileLoading, ImagesCounted, KeptStaysMapped, Mapped, Here
  <1> QED BY <1>1, <1>4, <1>5, LoaderKeepsHost DEF Inv

LEMMA LoadOneStep ==
  ASSUME Inv, NEW m \in Manifests, LoadOne(m)
  PROVE  Inv'
  <1> DEFINE d == DllOf[m]
  <1>1. d \in Dlls /\ lib[d] \in 0..LoadLimit /\ image[d] \in 0..MapLimit /\ m # None
    BY PluginAssumption DEF Inv, TypeOK
  <1>2. UNCHANGED <<failed, modules, host>> /\ loading = None
    BY DEF LoadOne
  <1>3. \/ UNCHANGED <<loading, lib, image>>
        \/ LoadLibrary(d) /\ loading' = m
    BY DEF LoadOne
  <1>4. TypeOK'
    <2>1. /\ lib' \in [Dlls -> 0..LoadLimit] /\ image' \in [Dlls -> 0..MapLimit]
          /\ loading' \in Manifests \cup {None}
      BY <1>1, <1>3, PluginAssumption DEF Inv, TypeOK, LoadLibrary
    <2> QED BY <1>2, <2>1 DEF Inv, TypeOK, LoadOne, host
  <1>5. CASE UNCHANGED <<loading, lib, image>>
    <2>1. \A p \in Images : Mapped(p) => Mapped(p)'
      BY <1>5 DEF Mapped, Here
    <2>2. LoadedWhileReferenced'
      BY <1>2, <2>1, KeepsMapped, LoaderKeepsHost
    <2>3. MappedWhileLoading' /\ ImagesCounted' /\ KeptStaysMapped'
      BY <1>2, <1>5 DEF Inv, MappedWhileLoading, ImagesCounted, KeptStaysMapped, Mapped, Here
    <2> QED BY <1>2, <1>4, <2>2, <2>3, LoaderKeepsHost DEF Inv
  <1>6. CASE LoadLibrary(d) /\ loading' = m
    <2>1. /\ \A e \in Dlls : lib'[e] = IF e = d THEN lib[e] + 1 ELSE lib[e]
          /\ \A e \in Dlls : lib[e] \in Nat /\ image[e] \in Nat
          /\ \A e \in Dlls : image'[e] = IF e = d /\ lib[d] = 0 THEN image[e] + 1 ELSE image[e]
      BY <1>1, <1>6, PluginAssumption DEF LoadLibrary, Inv, TypeOK
    <2>2. \A p \in Images : p[1] \in Dlls
      BY DEF Images
    <2>3. \A p \in Images : Mapped(p) => Mapped(p)'
      BY <2>1, <2>2 DEF Mapped, Here
    <2>4. LoadedWhileReferenced'
      BY <1>2, <2>3, KeepsMapped, LoaderKeepsHost
    <2>5. KeptStaysMapped'
      BY <1>2, <2>3 DEF Inv, TypeOK, KeptStaysMapped
    <2>6. ImagesCounted'
      BY <2>1 DEF Inv, ImagesCounted
    <2>7. lib'[d] > 0 /\ (Here(d)' \in modules' => lib'[d] > 1)
      <3>1. lib'[d] = lib[d] + 1 /\ lib[d] \in Nat
        BY <1>1, <2>1
      <3>2. CASE lib[d] > 0
        BY <3>1, <3>2
      <3>3. CASE lib[d] = 0
        <4>1. image'[d] = image[d] + 1
          BY <1>1, <2>1, <3>3
        <4>2. Here(d)' \notin modules
          <5> SUFFICES ASSUME <<d, image[d] + 1>> \in modules PROVE FALSE
            BY <4>1 DEF Here
          <5>1. lib[d] > 0
            BY DEF Inv, KeptStaysMapped, Mapped
          <5> QED BY <3>3, <5>1
        <4> QED BY <1>2, <3>1, <4>2
      <3> QED BY <3>1, <3>2, <3>3
    <2>8. MappedWhileLoading'
      BY <1>6, <2>7 DEF MappedWhileLoading, Here
    <2> QED BY <1>2, <1>4, <2>4, <2>5, <2>6, <2>8, LoaderKeepsHost DEF Inv
  <1> QED BY <1>3, <1>5, <1>6

LEMMA ContributeEndsStep ==
  ASSUME Inv, ContributeEnds
  PROVE  Inv'
  <1> DEFINE d == DllOf[loading]
  <1>1. loading \in Manifests /\ d \in Dlls /\ lib[d] \in 1..LoadLimit
    BY PluginAssumption DEF Inv, TypeOK, ContributeEnds, MappedWhileLoading
  <1>2. UNCHANGED <<image, host>> /\ loading' = None
    BY DEF ContributeEnds
  <1>3. Here(d) \in Images /\ Mapped(Here(d))
    BY <1>1, ImageType DEF Inv
  <1>4. /\ \A e \in Dlls : lib[e] \in Nat
        /\ \A p \in Images : p[1] \in Dlls
    BY PluginAssumption DEF Inv, TypeOK, Images
  <1>5. MappedWhileLoading'
    BY <1>2 DEF MappedWhileLoading
  <1>6. CASE Succeeds(d) /\ UNCHANGED lib
    <2>1. TypeOK'
      BY <1>2, <1>3, <1>6 DEF Inv, TypeOK, ContributeEnds, Succeeds, host
    <2>2. \A p \in Images : Mapped(p) => Mapped(p)'
      BY <1>2, <1>6 DEF Mapped, Here
    <2>3. LoadedWhileReferenced'
      BY <1>2, <1>6, <2>2, KeepsMapped, LoaderKeepsHost DEF Succeeds
    <2>4. KeptStaysMapped'
      <3>1. \A p \in modules' : p \in Images /\ Mapped(p)
        BY <1>3, <1>6 DEF Inv, TypeOK, Succeeds, KeptStaysMapped
      <3> QED BY <2>2, <3>1 DEF KeptStaysMapped
    <2>5. ImagesCounted'
      BY <1>2, <1>6 DEF Inv, ImagesCounted
    <2> QED BY <1>2, <1>5, <2>1, <2>3, <2>4, <2>5, LoaderKeepsHost DEF Inv
  <1>7. CASE Fails(d) /\ FreeLibrary(d)
    <2>1. \A e \in Dlls : lib'[e] = IF e = d THEN lib[e] - 1 ELSE lib[e]
      BY <1>7 DEF FreeLibrary, Inv, TypeOK
    <2>2. TypeOK'
      <3>1. lib' \in [Dlls -> 0..LoadLimit]
        BY <1>1, <1>7, PluginAssumption DEF FreeLibrary, Inv, TypeOK
      <3> QED BY <1>1, <1>2, <1>7, <3>1 DEF Inv, TypeOK, ContributeEnds, Fails, host
    <2>3. \A p \in Images : Mapped(p) => Mapped(p)' \/ p[1] \in failed'
      <3> SUFFICES ASSUME NEW p \in Images, Mapped(p), p[1] \notin failed' PROVE Mapped(p)'
        OBVIOUS
      <3>1. p[1] # d /\ p[1] \in Dlls
        BY <1>4, <1>7 DEF Fails
      <3>2. lib'[p[1]] = lib[p[1]]
        BY <2>1, <3>1
      <3> QED BY <1>2, <3>2 DEF Mapped, Here
    <2>4. LoadedWhileReferenced'
      BY <1>2, <1>7, <2>3, KeepsMapped, LoaderKeepsHost DEF Fails
    <2>5. KeptStaysMapped'
      <3> SUFFICES ASSUME NEW p \in modules PROVE Mapped(p)'
        BY <1>7 DEF KeptStaysMapped, Fails
      <3>1. p \in Images /\ p[1] \in Dlls /\ Mapped(p)
        BY <1>4 DEF Inv, TypeOK, KeptStaysMapped
      <3>2. CASE p[1] = d
        <4>1. p = Here(d)
          BY <3>1, <3>2 DEF Mapped
        <4>2. lib[d] > 1
          BY <4>1 DEF Inv, MappedWhileLoading, ContributeEnds
        <4>3. lib'[d] > 0
          BY <1>1, <1>4, <2>1, <4>2
        <4> QED BY <1>2, <3>1, <3>2, <4>3 DEF Mapped, Here
      <3>3. CASE p[1] # d
        <4>1. lib'[p[1]] = lib[p[1]]
          BY <2>1, <3>1, <3>3
        <4> QED BY <1>2, <3>1, <4>1 DEF Mapped, Here
      <3> QED BY <3>2, <3>3
    <2>6. ImagesCounted'
      BY <1>2, <1>4, <2>1 DEF Inv, ImagesCounted
    <2> QED BY <1>2, <1>5, <2>2, <2>4, <2>5, <2>6, LoaderKeepsHost DEF Inv
  <1> QED BY <1>6, <1>7 DEF ContributeEnds
-----------------------------------------------------------------------------
LEMMA ContributeCommandStep ==
  ASSUME Inv, NEW c \in Commands, NEW run \in Contributor,
         run \in Images => Mapped(run), ContributeCommand(c, run)
  PROVE  Inv'
  <1>1. UNCHANGED <<factories, installed, active, session>> /\ LoaderRests
    BY DEF ContributeCommand, LoaderRests
  <1>2. commands' \in [Commands -> Code]
    BY DEF Inv, TypeOK, ContributeCommand, Contributor, Code
  <1>3. TypeOK'
    BY <1>1, <1>2 DEF Inv, TypeOK, LoaderRests, loader
  <1>4. \A e \in Commands : commands'[e] \in {commands[e], run}
    BY DEF Inv, TypeOK, ContributeCommand
  <1>5. \A p \in Referenced' : p \in Referenced \/ Mapped(p)
    BY <1>1, <1>4 DEF Referenced
  <1> QED
    BY <1>1, <1>3, <1>5, HostKeepsMapped DEF Inv, BareBeforeSession, FactoriesInstalled

LEMMA ContributeFactoryStep ==
  ASSUME Inv, NEW f \in Factories, NEW code \in Contributor,
         code \in Images => Mapped(code), ContributeInteractionFactory(f, code)
  PROVE  Inv'
  <1>1. UNCHANGED <<commands, active, session>> /\ LoaderRests
    BY DEF ContributeInteractionFactory, LoaderRests
  <1>2. \A v \in Views, g \in Factories :
          installed'[v][g] = IF session /\ code # NoRun /\ g = f /\ installed[v][g] = None
                             THEN code ELSE installed[v][g]
    BY DEF Inv, TypeOK, ContributeInteractionFactory, InstallFactory, Add
  <1>3. /\ factories' \in [Factories -> Code]
        /\ installed' \in [Views -> [Factories -> Images \cup {Builtin, None}]]
    BY DEF Inv, TypeOK, ContributeInteractionFactory, InstallFactory, Add, Contributor, Code
  <1>4. TypeOK'
    BY <1>1, <1>3 DEF Inv, TypeOK, LoaderRests, loader
  <1>5. \A g \in Factories : factories'[g] = IF g = f THEN code ELSE factories[g]
    BY DEF Inv, TypeOK, ContributeInteractionFactory
  <1>6. \A p \in Referenced' : p \in Referenced \/ Mapped(p)
    BY <1>1, <1>2, <1>5 DEF Referenced
  <1>7. BareBeforeSession'
    BY <1>1 DEF Inv, BareBeforeSession, ContributeInteractionFactory
  <1>8. FactoriesInstalled'
    BY <1>1, <1>2, <1>5, PluginAssumption
       DEF Inv, FactoriesInstalled, ContributeInteractionFactory, Contributor
  <1> QED
    BY <1>1, <1>4, <1>6, <1>7, <1>8, HostKeepsMapped DEF Inv

LEMMA DllStep ==
  ASSUME Inv, loading # None, DllContributes(DllOf[loading])
  PROVE  Inv'
  <1> DEFINE here == Here(DllOf[loading])
  <1>1. DllOf[loading] \in Dlls /\ lib[DllOf[loading]] > 0
    BY PluginAssumption DEF Inv, TypeOK, MappedWhileLoading
  <1>2. here \in Images /\ Mapped(here)
    BY <1>1, ImageType DEF Inv
  <1>3. \A c \in Commands, run \in Contributor :
          (run \in Images => Mapped(run)) /\ ContributeCommand(c, run) => Inv'
    BY ContributeCommandStep
  <1>4. here \in Contributor /\ NoRun \in Contributor /\ NoRun \notin Images
    BY <1>2, PluginAssumption DEF Contributor
  <1> HIDE DEF here
  <1>5. \/ \E c \in Commands, run \in {here, NoRun} : ContributeCommand(c, run)
        \/ \E f \in Factories : ContributeInteractionFactory(f, here)
    BY DEF DllContributes, here
  <1> QED BY <1>2, <1>3, <1>4, <1>5, ContributeFactoryStep

LEMMA ShellStep ==
  ASSUME Inv, ShellContributes
  PROVE  Inv'
  BY ContributeCommandStep, ContributeFactoryStep, PluginAssumption
     DEF ShellContributes, Contributor
-----------------------------------------------------------------------------
LEMMA SetToolSessionStep ==
  ASSUME Inv, SetToolSession
  PROVE  Inv'
  <1>1. /\ UNCHANGED <<commands, factories, active>> /\ LoaderRests
        /\ ~session /\ session'
    BY DEF SetToolSession, LoaderRests
  <1>2. \A v \in Views, f \in Factories :
          installed'[v][f] = IF factories[f] \in Images /\ installed[v][f] = None
                             THEN factories[f] ELSE installed[v][f]
    BY DEF Inv, TypeOK, SetToolSession, Add
  <1>3. installed' \in [Views -> [Factories -> Images \cup {Builtin, None}]]
    BY DEF Inv, TypeOK, SetToolSession, Add
  <1>4. TypeOK'
    BY <1>1, <1>3 DEF Inv, TypeOK, LoaderRests, loader
  <1>5. Referenced' \subseteq Referenced
    BY <1>1, <1>2 DEF Referenced
  <1>6. \A v \in Views, f \in Factories :
          installed[v][f] = IF f \in Builtins THEN Builtin ELSE None
    BY <1>1 DEF Inv, BareBeforeSession, RegisterBuiltins
  <1>7. FactoriesInstalled'
    BY <1>1, <1>2, <1>6, PluginAssumption DEF FactoriesInstalled
  <1>8. BareBeforeSession'
    BY <1>1 DEF BareBeforeSession
  <1> QED
    BY <1>1, <1>4, <1>5, <1>7, <1>8, HostKeepsMapped DEF Inv

LEMMA ActivateStep ==
  ASSUME Inv, NEW f \in Factories, NEW v \in Views, ActivateInteraction(f, v)
  PROVE  Inv'
  <1>1. UNCHANGED <<commands, factories, installed, session>> /\ LoaderRests
    BY DEF ActivateInteraction, LoaderRests
  <1>2. \A w \in Views : active'[w] \in {active[w], installed[v][f]}
    BY DEF Inv, TypeOK, ActivateInteraction
  <1>3. TypeOK'
    BY <1>1 DEF Inv, TypeOK, ActivateInteraction, LoaderRests, loader
  <1>4. Referenced' \subseteq Referenced
    BY <1>1, <1>2 DEF Referenced
  <1> QED
    BY <1>1, <1>3, <1>4, HostKeepsMapped DEF Inv, BareBeforeSession, FactoriesInstalled

LEMMA StepInv == Inv /\ [Next]_vars => Inv'
  <1> SUFFICES ASSUME Inv, [Next]_vars PROVE Inv'
    OBVIOUS
  <1>1. CASE UNCHANGED vars
    <2>1. UNCHANGED host /\ TypeOK' /\ LoaderRests
      BY <1>1 DEF vars, host, Inv, TypeOK, loader, LoaderRests
    <2> QED
      BY <2>1, LoaderKeepsHost, HostKeepsMapped DEF Inv
  <1>2. CASE Next
    BY <1>2, LoaderStep, LoadOneStep, ContributeEndsStep, DllStep, ShellStep,
       SetToolSessionStep, ActivateStep DEF Next
  <1> QED BY <1>1, <1>2

LEMMA InvHolds == Spec => []Inv
  BY InitInv, StepInv, PTL DEF Spec
-----------------------------------------------------------------------------
(* The reference counts stay between zero and the bound and every table    *)
(* holds code it may hold.                                                 *)
THEOREM TypeCorrect == Spec => []TypeOK
  <1>1. Inv => TypeOK
    BY DEF Inv
  <1> QED BY <1>1, InvHolds, PTL

(* A DLL that never reported failure stays mapped where it was while the    *)
(* host, a workspace or a live interaction can call into it.               *)
THEOREM ReferencedStaysLoaded == Spec => []LoadedWhileReferenced
  <1>1. Inv => LoadedWhileReferenced
    BY DEF Inv
  <1> QED BY <1>1, InvHolds, PTL

(* Whichever of plugin and session comes first, every view ends up with    *)
(* the same factories, its own tools untouched.                            *)
THEOREM OrderDoesNotMatter == Spec => []FactoriesInstalled
  <1>1. Inv => FactoriesInstalled
    BY DEF Inv
  <1> QED BY <1>1, InvHolds, PTL

(* An image some load of which succeeded is never unmapped, whichever loads *)
(* of the same DLL fail before or after it.                                *)
THEOREM KeptCodeStaysMapped == Spec => []KeptStaysMapped
  <1>1. Inv => KeptStaysMapped
    BY DEF Inv
  <1> QED BY <1>1, InvHolds, PTL
=============================================================================

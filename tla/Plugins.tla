------------------------------ MODULE Plugins ------------------------------
(***************************************************************************)
(* Plugins: the manifest registry (plugin/registry.cc), the DLL loader     *)
(* (plugin/loader.cc), the host they contribute to                         *)
(* (content/browser/plugin/plugin_host.cc) and the interaction registries  *)
(* and stacks of the tool workspaces it fills (tool/interaction.cc).       *)
(*                                                                         *)
(* A DLL contributes by calling back into the host, any number of times,   *)
(* before its entry point returns; what it contributed are pointers into   *)
(* its code, which FreeLibrary may unmap. A DLL mapped again is another    *)
(* image: the pointers into the old one stay where they were.              *)
(***************************************************************************)
EXTENDS Integers

CONSTANTS
  Dirs,         \* plugin directories
  Manifests,    \* plugin ids
  Dlls,
  DllOf,        \* the DLL each manifest names
  ManifestsIn,  \* the manifests of each directory
  Runners,      \* DLLs that export mview_plugin_execute
  Commands, Factories,
  Builtins,     \* factory ids every workspace registers itself
  Views,
  NoRun,        \* a command without a runner
  Builtin,      \* code of the host itself
  None,
  LoadLimit,    \* bound on references to one DLL, for model checking
  MapLimit      \* bound on the times a DLL is mapped, for model checking

Images == Dlls \X (1..MapLimit)

ASSUME PluginAssumption ==
  /\ DllOf \in [Manifests -> Dlls] /\ ManifestsIn \in [Dirs -> SUBSET Manifests]
  /\ Runners \subseteq Dlls /\ Builtins \subseteq Factories
  /\ NoRun \notin Images /\ Builtin \notin Images /\ None \notin Images \cup Manifests
  /\ NoRun # None /\ Builtin # None /\ NoRun # Builtin
  /\ LoadLimit \in Nat /\ MapLimit \in Nat

VARIABLES
  records,    \* manifests of the registry
  queue,      \* manifests LoadAll still has to load
  loading,    \* the manifest whose DLL is contributing
  lib,        \* references to each DLL
  image,      \* how often each DLL has been mapped
  modules,    \* Loader::modules_, the images it keeps
  failed,     \* DLLs whose entry point has reported failure
  commands,   \* the runner of each contributed command
  factories,  \* the code of each contributed factory id
  installed,  \* the code behind each factory id in each workspace
  active,     \* the code of each workspace's current interaction
  session     \* a ToolSession is set

host == <<commands, factories, installed, active, session>>
loader == <<lib, image, modules, failed>>
vars == <<records, queue, loading, loader, host>>

(* A workspace starts with its built-in factories.                         *)
RegisterBuiltins == [f \in Factories |-> IF f \in Builtins THEN Builtin ELSE None]

Init ==
  /\ records = {} /\ queue = {} /\ loading = None
  /\ lib = [d \in Dlls |-> 0] /\ image = lib
  /\ modules = {} /\ failed = {}
  /\ commands = [c \in Commands |-> None]
  /\ factories = [f \in Factories |-> None]
  /\ installed = [v \in Views |-> RegisterBuiltins]
  /\ active = [v \in Views |-> None]
  /\ session = FALSE
-----------------------------------------------------------------------------
(* Registry and loader.                                                    *)

(* A directory that does not exist leaves the records alone and is not a   *)
(* member of Dirs.                                                         *)
Scan(dir) ==
  /\ queue = {} /\ loading = None
  /\ records' = ManifestsIn[dir]
  /\ UNCHANGED <<queue, loading, loader, host>>

LoadAll ==
  /\ queue = {} /\ loading = None
  /\ queue' = records
  /\ UNCHANGED <<records, loading, loader, host>>

(* LoadLibrary: another reference, or a new image of the DLL.              *)
LoadLibrary(d) ==
  /\ lib[d] < LoadLimit
  /\ lib' = [lib EXCEPT ![d] = @ + 1]
  /\ \/ lib[d] > 0 /\ UNCHANGED image
     \/ /\ lib[d] = 0 /\ image[d] < MapLimit
        /\ image' = [image EXCEPT ![d] = @ + 1]

FreeLibrary(d) == lib' = [lib EXCEPT ![d] = @ - 1]

(* LoadOne up to the call of the entry point, or a manifest whose DLL is   *)
(* missing, cannot be loaded or has no entry point.                        *)
LoadOne(m) ==
  /\ m \in queue /\ loading = None
  /\ queue' = queue \ {m}
  /\ \/ UNCHANGED <<loading, lib, image>>
     \/ LoadLibrary(DllOf[m]) /\ loading' = m
  /\ UNCHANGED <<records, modules, failed, host>>

(* The code of a DLL as it is mapped now, and whether a pointer into an     *)
(* image leads there.                                                      *)
Here(d) == <<d, image[d]>>
Mapped(p) == lib[p[1]] > 0 /\ p = Here(p[1])

Succeeds(d) == modules' = modules \cup {Here(d)} /\ UNCHANGED failed
Fails(d)    == failed' = failed \cup {d} /\ UNCHANGED modules

(* Variant of ContributeEnds: the module is released in either case.       *)
ContributeEndsReleasing ==
  /\ loading # None
  /\ loading' = None
  /\ Succeeds(DllOf[loading]) \/ Fails(DllOf[loading])
  /\ FreeLibrary(DllOf[loading])
  /\ UNCHANGED <<records, queue, image, host>>

(* Variant of ContributeEnds: a failure is cleaned up twice.               *)
ContributeEndsTwice ==
  /\ loading # None
  /\ loading' = None
  /\ \/ Succeeds(DllOf[loading]) /\ UNCHANGED lib
     \/ /\ Fails(DllOf[loading])
        /\ lib' = [lib EXCEPT ![DllOf[loading]] = @ - 2]
  /\ UNCHANGED <<records, queue, image, host>>

(* Variant of ContributeEnds: a failed DLL is unmapped for good.           *)
ContributeEndsUnmapping ==
  /\ loading # None
  /\ loading' = None
  /\ \/ Succeeds(DllOf[loading]) /\ UNCHANGED lib
     \/ /\ Fails(DllOf[loading])
        /\ lib' = [lib EXCEPT ![DllOf[loading]] = 0]
  /\ UNCHANGED <<records, queue, image, host>>

(* The entry point returns: a module that reports failure is released and  *)
(* what it contributed stays.                                              *)
ContributeEnds ==
  /\ loading # None
  /\ loading' = None
  /\ \/ Succeeds(DllOf[loading]) /\ UNCHANGED lib
     \/ Fails(DllOf[loading]) /\ FreeLibrary(DllOf[loading])
  /\ UNCHANGED <<records, queue, image, host>>
-----------------------------------------------------------------------------
(* The host: calls by the DLL that is loading, and by the shell.           *)

(* A second runner is refused, also when the first leads nowhere any more; *)
(* a runner may be added to a bare id, and an id contributed again without *)
(* one keeps what it has.                                                  *)
ContributeCommand(c, run) ==
  /\ commands' = [commands EXCEPT ![c] =
                    IF @ \in Images \/ (@ # None /\ run = NoRun) THEN @ ELSE run]
  /\ UNCHANGED <<records, queue, loading, loader, factories, installed,
                 active, session>>

(* InteractionRegistry::add keeps the factory that was there first.        *)
Add(table, f, code) == [table EXCEPT ![f] = IF @ = None THEN code ELSE @]

InstallFactory(f, code) == [v \in Views |-> Add(installed[v], f, code)]

(* An id that was contributed before is refused.                           *)
ContributeInteractionFactory(f, code) ==
  /\ factories[f] = None
  /\ factories' = [factories EXCEPT ![f] = code]
  /\ installed' = IF session /\ code # NoRun THEN InstallFactory(f, code) ELSE installed
  /\ UNCHANGED <<records, queue, loading, loader, commands, active, session>>

(* What a DLL may do while it is loading.                                  *)
DllContributes(d) ==
  \/ \E c \in Commands : ContributeCommand(c, IF d \in Runners THEN Here(d) ELSE NoRun)
  \/ \E f \in Factories : ContributeInteractionFactory(f, Here(d))

(* Ids the shell contributes itself have no code behind them.              *)
ShellContributes ==
  \/ \E c \in Commands : ContributeCommand(c, NoRun)
  \/ \E f \in Factories : ContributeInteractionFactory(f, NoRun)

(* Variant of set_tool_session: earlier factories are not installed.       *)
SetToolSessionBare ==
  /\ queue = {} /\ loading = None /\ ~session
  /\ session' = TRUE
  /\ UNCHANGED <<records, queue, loading, loader, commands, factories,
                 installed, active>>

(* Every factory contributed so far goes into every workspace.             *)
SetToolSession ==
  /\ queue = {} /\ loading = None /\ ~session
  /\ session' = TRUE
  /\ installed' = [v \in Views |-> [f \in Factories |->
        IF factories[f] \in Images THEN Add(installed[v], f, factories[f])[f]
                                 ELSE installed[v][f]]]
  /\ UNCHANGED <<records, queue, loading, loader, commands, factories, active>>

(* InteractionStack::activate creates the new interaction, then drops the  *)
(* old ones; an id without a factory changes nothing. A call into an       *)
(* unmapped image ends the process.                                        *)
ActivateInteraction(f, v) ==
  /\ queue = {} /\ loading = None /\ session /\ factories[f] # None
  /\ installed[v][f] # None
  /\ installed[v][f] \in Images => Mapped(installed[v][f])
  /\ active' = [active EXCEPT ![v] = installed[v][f]]
  /\ UNCHANGED <<records, queue, loading, loader, commands, factories,
                 installed, session>>

Next ==
  \/ \E dir \in Dirs : Scan(dir)
  \/ LoadAll
  \/ \E m \in Manifests : LoadOne(m)
  \/ loading # None /\ DllContributes(DllOf[loading])
  \/ ContributeEnds
  \/ queue = {} /\ loading = None /\ ShellContributes
  \/ SetToolSession
  \/ \E f \in Factories, v \in Views : ActivateInteraction(f, v)

Spec == Init /\ [][Next]_vars
-----------------------------------------------------------------------------
Code == Images \cup {NoRun, None}

(* The registry, loader and host keep their types; LoadLibrary and          *)
(* FreeLibrary are balanced, so no reference count goes below zero.         *)
TypeOK ==
  /\ records \subseteq Manifests /\ queue \subseteq Manifests
  /\ loading \in Manifests \cup {None}
  /\ lib \in [Dlls -> 0..LoadLimit] /\ image \in [Dlls -> 0..MapLimit]
  /\ modules \subseteq Images /\ failed \subseteq Dlls
  /\ commands \in [Commands -> Code] /\ factories \in [Factories -> Code]
  /\ installed \in [Views -> [Factories -> Images \cup {Builtin, None}]]
  /\ active \in [Views -> Images \cup {Builtin, None}]
  /\ session \in BOOLEAN

(* Code of DLLs the host, a workspace or a live interaction can call.      *)
Referenced == { p \in Images :
  \/ \E c \in Commands : commands[c] = p
  \/ \E f \in Factories : factories[f] = p \/ \E v \in Views : installed[v][f] = p
  \/ \E v \in Views : active[v] = p }

(* A DLL that never reported failure stays mapped where it was while        *)
(* anything can call into it, however often and in whichever order it was  *)
(* loaded.                                                                 *)
LoadedWhileReferenced == \A p \in Referenced : p[1] \notin failed => Mapped(p)

(* "Keep modules loaded for process lifetime.  PluginHost may still hold   *)
(* CommandRunFn / InteractionFactory pointers into the DLL": no pointer    *)
(* the host holds leads into an unmapped DLL.                              *)
NoDanglingCode == \A p \in Referenced : Mapped(p)

(* What one manifest's load left in the host outlives the failures of      *)
(* others that name the same DLL: an image some load of which succeeded is *)
(* mapped for good, so nothing ever contributed from it dangles, neither   *)
(* what a failing load added to it before nor what one adds after.         *)
KeptStaysMapped == \A p \in modules : Mapped(p)

(* Once a session is set, every contributed factory is what each view      *)
(* activates under its id, whether it was contributed before or after the  *)
(* session, except that the tools a view is built with survive a plugin    *)
(* that contributes their id; and no view differs from another.            *)
FactoriesInstalled ==
  session => \A f \in Factories, v \in Views :
               installed[v][f] = IF f \in Builtins THEN Builtin
                                 ELSE IF factories[f] \in Images THEN factories[f] ELSE None
=============================================================================

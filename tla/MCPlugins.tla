----------------------------- MODULE MCPlugins -----------------------------
(* Two DLLs; d1 is named by two manifests, of which one is in each         *)
(* directory; d2 has no execute export.                                    *)
EXTENDS Plugins, TLC

CONSTANTS a, b, m1, m2, m3, d1, d2

MCDllOf == m1 :> d1 @@ m2 :> d1 @@ m3 :> d2
MCManifestsIn == a :> {m1, m3} @@ b :> {m2, m3}
=============================================================================

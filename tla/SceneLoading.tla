----------------------------- MODULE SceneLoading -----------------------------
(***************************************************************************)
(* The overlay over the scene while its models load: the store's loading   *)
(* state (store.js), App's effects, which start the loading and end it     *)
(* with timers, SceneLoadingBridge, which counts what the loader reports,  *)
(* and Scene3D, which says when it is mounted (scene.jsx).                 *)
(***************************************************************************)
EXTENDS Integers, FiniteSetsExt

CONSTANTS
  Total,        \* loadingTotal (6 in the code)
  Models,       \* models this visit loads; those cached by an earlier one are not counted
  RemountBound  \* bound: times the scene or the page is mounted again

ASSUME LoadingAssumption == Total \in Nat \ {0} /\ Models \subseteq Nat /\ RemountBound \in Nat

VARIABLES
  page,      \* whether App's first effect ran
  scene,     \* whether Scene3D is mounted
  toLoad,    \* models the visit has to load
  observed,  \* models useProgress reports as loaded
  loading,   \* sceneLoading, sceneReady, loadedResources, loadingOverlayVisible
  finishing, hiding,  \* the timers of App's effects
  remounts

loadVars == <<page, scene, toLoad, observed, loading, finishing, hiding, remounts>>

-----------------------------------------------------------------------------
\* Mutant: what the loader reports is what counts, the scene mounted or not.
ResourceCountObserved(ready, count) == Max({0, Min({Total, count})})

\* resolveSceneResourceCount: a mounted scene has everything.
ResourceCount(ready, count) == IF ready THEN Total ELSE Max({0, Min({Total, count})})

\* App's two effects for a new loading state: their timers run while the state asks for them.
Armed(l) ==
  /\ finishing' = (l.running /\ l.ready /\ l.count >= Total)
  /\ hiding' = (~l.running /\ l.visible)

\* LoadingOverlay: shown, fading out or absent.
OverlayShown == loading.visible

\* App's first effect: startSceneLoading.
Start ==
  /\ ~page
  /\ page' = TRUE
  /\ loading' = [running |-> TRUE, ready |-> FALSE, visible |-> TRUE, count |-> 0]
  /\ Armed(loading')
  /\ UNCHANGED <<scene, toLoad, observed, remounts>>

\* useProgress reports a model: SceneLoadingBridge counts anew.
Progress ==
  /\ page /\ observed < toLoad
  /\ observed' = observed + 1
  /\ loading' = [loading EXCEPT !.count = ResourceCount(loading.ready, observed')]
  /\ Armed(loading')
  /\ UNCHANGED <<page, scene, toLoad, remounts>>

\* Scene3D leaves Suspense: its effect makes the scene ready, the bridge counts anew.
MountScene ==
  /\ page /\ ~scene /\ observed = toLoad
  /\ scene' = TRUE
  /\ loading' = [loading EXCEPT !.ready = TRUE, !.count = ResourceCount(TRUE, observed)]
  /\ Armed(loading')
  /\ UNCHANGED <<page, toLoad, observed, remounts>>

\* The canvas is unmounted, alone or with the page; the store keeps its state, the
\* loader keeps its count.
UnmountScene ==
  /\ scene /\ remounts < RemountBound
  /\ remounts' = remounts + 1
  /\ scene' = FALSE
  /\ page' \in BOOLEAN
  /\ loading' = [loading EXCEPT !.ready = FALSE,
                                !.count = IF page' THEN ResourceCount(FALSE, observed) ELSE @]
  /\ IF page' THEN Armed(loading') ELSE finishing' = FALSE /\ hiding' = FALSE
  /\ UNCHANGED <<toLoad, observed>>

\* The timer that leaves the overlay its least duration: finishSceneLoading.
Finish ==
  /\ finishing
  /\ loading' = [loading EXCEPT !.running = FALSE]
  /\ Armed(loading')
  /\ UNCHANGED <<page, scene, toLoad, observed, remounts>>

\* The timer of the fade-out: hideLoadingOverlay.
Hide ==
  /\ hiding
  /\ loading' = [loading EXCEPT !.visible = FALSE]
  /\ Armed(loading')
  /\ UNCHANGED <<page, scene, toLoad, observed, remounts>>

LoadInit ==
  /\ page = FALSE /\ scene = FALSE
  /\ toLoad \in Models /\ observed = 0
  /\ loading = [running |-> TRUE, ready |-> FALSE, visible |-> TRUE, count |-> 0]
  /\ finishing = FALSE /\ hiding = FALSE
  /\ remounts = 0

\* Effects, the loader and timers; a mounted page mounts its scene.
LoadStep == Start \/ Progress \/ MountScene \/ Finish \/ Hide
LoadNext == LoadStep \/ UnmountScene
LoadFairness == WF_loadVars(LoadStep)
LoadSpec == LoadInit /\ [][LoadNext]_loadVars /\ LoadFairness

-----------------------------------------------------------------------------
\* The overlay is gone at last, however many models a visit finds cached and however
\* often the scene is mounted again while a timer runs.
OverlayGoes == <>[](scene /\ ~OverlayShown)

\* What is due: an effect, a report of the loader, the scene's mounting or a timer.
StepDue == \/ ~page
           \/ observed < toLoad
           \/ ~scene /\ observed = toLoad
           \/ finishing \/ hiding

\* The loading never comes to a stop before its end: whatever was counted, and whichever
\* timer a remount cleared, something is due until the scene stands without an overlay.
LoadingGoesOn == ~scene \/ OverlayShown => StepDue
=============================================================================

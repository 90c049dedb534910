------------------------------ MODULE MCLayers ------------------------------
(***************************************************************************)
(* Panels that change their layer and their interactivity as they like,    *)
(* and a launcher, which is an exclusive surface of the overlay, over the  *)
(* handlers of the desktop that change who has the keyboard.               *)
(***************************************************************************)
EXTENDS Layers, TLC

CONSTANTS p1, p2, launcher

MCDesktop ==
    /\ \/ \E v \in Views :
             NewToplevel(v) \/ Map(v) \/ Unmap(v) \/ FocusAction(v) \/ Destroy(v)
       \/ OpenMenu
       \/ CloseMenu
    /\ UNCHANGED layers

PanelRequest(p) ==
    \/ \E asked \in Interactivity \cup {"same"} :
          \/ \E layer \in {Bottom, Top} : Commit(p, layer, asked)
          \/ Show(p, layers.layer[p], asked)
          \/ Hide(p, layers.layer[p], asked)
    \/ \E layer \in {Bottom, Top}, o \in Outputs : NewPanel(p, layer, o)

LauncherRequest ==
    \/ Commit(launcher, Overlay, "exclusive")
    \/ \E asked \in {"same", "exclusive"} : Show(launcher, Overlay, asked)
    \/ \E asked \in {"same", "none"} : Hide(launcher, Overlay, asked)
    \/ \E o \in Outputs : NewPanel(launcher, Overlay, o)

MCSpec ==
    /\ LayersInit
    /\ [][ \/ \E p \in LayerSurfaces : DestroyPanel(p) \/ DestroySurface(p) \/ Press(p)
           \/ \E p \in LayerSurfaces \ {launcher} : PanelRequest(p)
           \/ LauncherRequest
           \/ OutputStep
           \/ MCDesktop ]_layerVars

Symmetry == Permutations({p1, p2})
=============================================================================

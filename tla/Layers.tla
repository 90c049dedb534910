------------------------------- MODULE Layers -------------------------------
(***************************************************************************)
(* The layer shell: src/layers.c over wlroots' layer surfaces (panels,     *)
(* launchers, notifications), and the keyboard focus they take from the    *)
(* windows and give back.                                                  *)
(*                                                                         *)
(* The requests of a client only change the pending state of its surface,  *)
(* so a commit with all it carries is one step.  server.interactivity is   *)
(* the current state, which the focus code of Seat reads; a commit moves   *)
(* it after the unmap handler and before the map handler have run.  The    *)
(* popups of layer surfaces are left out, and the session is not locked.   *)
(***************************************************************************)
EXTENDS Desktop

CONSTANT Outputs

ASSUME LayersAssumption == None \notin Outputs

VARIABLE layers

layerVars == <<server, layers>>

\* none: no wl_surface; new: not initialized; ready: may attach a buffer;
\* orphan: nothing in the scene any more, but the wl_surface exists.
Phases == {"none", "new", "ready", "mapped", "orphan"}

Bottom == 1     \* zwlr_layer_shell_v1_layer; 0 is the background
Top == 2
Overlay == 3

Layer ==
    [ phase   : [LayerSurfaces -> Phases],
      layer   : [LayerSurfaces -> 0 .. Overlay],
      output  : [LayerSurfaces -> Outputs \cup {None}],
      later   : SUBSET (LayerSurfaces \X LayerSurfaces),
                    \* <<p, q>>: p was put into its layer_tree after q
      outputs : SUBSET Outputs ]

InScene(l) == { p \in LayerSurfaces : l.phase[p] \in {"new", "ready", "mapped"} }
MappedPanels(l) == { p \in LayerSurfaces : l.phase[p] = "mapped" }

LayersInit ==
    /\ Init
    /\ layers = [ phase   |-> [p \in LayerSurfaces |-> "none"],
                  layer   |-> [p \in LayerSurfaces |-> 0],
                  output  |-> [p \in LayerSurfaces |-> None],
                  later   |-> {},
                  outputs |-> Outputs ]

----------------------------------------------------------------------------
(* Which layer surface has the focus *)

\* seat_set_focus_layer(), for a surface and for NULL
SetFocusLayer(s, p) == [SeatFocus(s, p, TRUE, FALSE) EXCEPT !.focused_layer = p]

ClearFocusLayer(s) == FocusTopmost([s EXCEPT !.focused_layer = None])

IsExclusive(s, p) == s.interactivity[p] = "exclusive"

\* The search meets p earlier: from the overlay down, and the last child of a
\* tree first.
Earlier(l, p, q) ==
    \/ l.layer[p] > l.layer[q]
    \/ l.layer[p] = l.layer[q] /\ <<p, q>> \in l.later

\* Mutation: a surface that is being unmapped is still found.
CandidatesInTree(s, l, near) ==
    { p \in InScene(l) :
        l.output[p] = near /\ l.layer[p] \in {Top, Overlay} /\ IsExclusive(s, p) }

\* What the search is for, on the output nearest to the cursor
Candidates(s, l, near) ==
    { p \in MappedPanels(l) :
        l.output[p] = near /\ l.layer[p] \in {Top, Overlay} /\ IsExclusive(s, p) }

Near(l) == IF l.outputs = {} THEN {None} ELSE l.outputs

\* try_to_focus_next_layer_or_toplevel()
TryNext(s, l, near) ==
    LET found == Candidates(s, l, near)
    IN  IF \E p \in found : \A q \in found \ {p} : Earlier(l, p, q)
        THEN SetFocusLayer(s, CHOOSE p \in found :
                                  \A q \in found \ {p} : Earlier(l, p, q))
        ELSE IF s.focused_layer # None THEN ClearFocusLayer(s) ELSE s

\* Mutation: a panel of a higher layer does not keep the focus.
HasPrecedenceAlways(s, l, layer) == TRUE

\* has_precedence()
HasPrecedence(s, l, layer) ==
    HasExclusiveLayer(s) => layer >= l.layer[s.focused_layer]

\* layer_try_set_focus()
TrySetFocus(s, l, p, near) ==
    CASE s.interactivity[p] = "exclusive" ->
            IF HasPrecedence(s, l, l.layer[p]) THEN SetFocusLayer(s, p) ELSE s
      [] s.interactivity[p] = "on_demand" ->
            IF HasExclusiveLayer(s) THEN s ELSE SetFocusLayer(s, p)
      [] s.interactivity[p] = "none" ->
            IF s.focused_layer = p THEN TryNext(s, l, near) ELSE s

----------------------------------------------------------------------------
(* Commits *)

\* The state that a commit makes current: asked is what it asks of the
\* keyboard, "same" if nothing.
CurrentInteractivity(s, p, asked) ==
    IF asked = "same" THEN s ELSE [s EXCEPT !.interactivity[p] = asked]

\* A change of the layer appends the node to the tree of the new one.
CurrentLayer(l, p, layer) ==
    IF layer = l.layer[p] THEN l
    ELSE [l EXCEPT !.layer[p] = layer,
                   !.later = {r \in @ : p \notin {r[1], r[2]}}
                             \cup {p} \X (InScene(l) \ {p})]

\* handle_surface_commit(): "on-demand" takes the focus away only.
HandleCommit(s, l, p, asked, near) ==
    CASE asked = "same" -> s
      [] asked = "on_demand" ->
            IF s.focused_layer = p THEN TryNext(s, l, near) ELSE s
      [] OTHER -> TrySetFocus(s, l, p, near)

\* handle_map(): on demand, only a surface above the windows gets the focus.
HandleMap(s, l, p, near) ==
    IF l.layer[p] < Top /\ s.interactivity[p] = "on_demand"
    THEN s
    ELSE TrySetFocus(s, l, p, near)

\* handle_unmap()
HandleUnmap(s, l, p, near) ==
    IF s.focused_layer = p THEN TryNext(s, l, near) ELSE s

\* A commit without a change of the buffer; the first one is answered by a
\* configure event.
Commit(p, layer, asked) ==
    /\ p \in InScene(layers)
    /\ LET l == [CurrentLayer(layers, p, layer) EXCEPT
                    !.phase[p] = IF @ = "new" THEN "ready" ELSE @]
           s == CurrentInteractivity(server, p, asked)
       IN  /\ layers' = l
           /\ \E near \in Near(l) : server' = HandleCommit(s, l, p, asked, near)

\* The first buffer: wlr_surface_map(), and then the commit handler.
Show(p, layer, asked) ==
    /\ layers.phase[p] = "ready"
    /\ LET l == [CurrentLayer(layers, p, layer) EXCEPT !.phase[p] = "mapped"]
           s == CurrentInteractivity(server, p, asked)
       IN  /\ layers' = l
           /\ \E near \in Near(l) :
                 server' = HandleCommit(HandleMap(s, l, p, near), l, p, asked, near)

\* A NULL buffer: the surface unmaps before the state of the commit is current.
Hide(p, layer, asked) ==
    /\ layers.phase[p] = "mapped"
    /\ LET hidden == [layers EXCEPT !.phase[p] = "new"]
           l == CurrentLayer(hidden, p, layer)
       IN  /\ layers' = l
           /\ \E near \in Near(l) :
                 LET s == HandleUnmap(server, hidden, p, near)
                 IN  server' = HandleCommit(CurrentInteractivity(s, p, asked),
                                            l, p, asked, near)

----------------------------------------------------------------------------
(* Creation and destruction *)

\* handle_new_layer_surface()
NewPanel(p, layer, o) ==
    /\ layers.phase[p] = "none" /\ o \in layers.outputs
    /\ layers' = [layers EXCEPT !.phase[p] = "new",
                                !.layer[p] = layer,
                                !.output[p] = o,
                                !.later = @ \cup {p} \X InScene(layers)]
    /\ server' = [server EXCEPT !.interactivity[p] = "none"]

\* Mutation: the pointer to the focused surface stays.
NodeDestroyKeeps(s, P) == s

\* handle_node_destroy() of the surfaces of a set
NodeDestroy(s, P) == IF s.focused_layer \in P THEN ClearFocusLayer(s) ELSE s

Removed(l, P) ==
    [l EXCEPT !.phase = [p \in LayerSurfaces |-> IF p \in P THEN "orphan" ELSE @[p]],
              !.layer = [p \in LayerSurfaces |-> IF p \in P THEN 0 ELSE @[p]],
              !.output = [p \in LayerSurfaces |-> IF p \in P THEN None ELSE @[p]],
              !.later = {r \in @ : P \cap {r[1], r[2]} = {}}]

\* The client destroys the layer surface; wlroots unmaps it first.
DestroyPanel(p) ==
    /\ p \in InScene(layers)
    /\ layers' = Removed(layers, {p})
    /\ \E near \in Near(layers) :
          LET hidden == [layers EXCEPT !.phase[p] = "new"]
              s == IF layers.phase[p] = "mapped"
                   THEN HandleUnmap(server, hidden, p, near)
                   ELSE server
          IN  server' = NodeDestroy(s, {p})

\* and its wl_surface, which also goes when the layer surface is an orphan.
DestroySurface(p) ==
    /\ layers.phase[p] = "orphan"
    /\ layers' = [layers EXCEPT !.phase[p] = "none"]
    /\ server' = SurfaceDestroyed([server EXCEPT !.interactivity[p] = "none"], p)

\* handle_output_destroy() of output.c destroys the trees of its layers with
\* the nodes in them, before the listener of layers.c is called.
OutputRemoved(o) ==
    /\ o \in layers.outputs
    /\ LET P == { p \in InScene(layers) : layers.output[p] = o }
       IN  /\ layers' = [Removed(layers, P) EXCEPT !.outputs = @ \ {o}]
           /\ server' = NodeDestroy(server, P)

OutputAdded(o) ==
    /\ o \notin layers.outputs
    /\ layers' = [layers EXCEPT !.outputs = @ \cup {o}]
    /\ UNCHANGED server

\* A button press over a layer surface (cursor.c)
Press(p) ==
    /\ p \in MappedPanels(layers)
    /\ server.input_mode # "menu"
    /\ server.interactivity[p] # "none"
    /\ \E near \in Near(layers) : server' = TrySetFocus(server, layers, p, near)
    /\ UNCHANGED layers

PanelStep(p) ==
    \/ \E layer \in 0 .. Overlay, asked \in Interactivity \cup {"same"} :
          Commit(p, layer, asked) \/ Show(p, layer, asked) \/ Hide(p, layer, asked)
    \/ \E layer \in 0 .. Overlay, o \in Outputs : NewPanel(p, layer, o)
    \/ DestroyPanel(p)
    \/ DestroySurface(p)
    \/ Press(p)

OutputStep == \E o \in Outputs : OutputRemoved(o) \/ OutputAdded(o)

LayersNext ==
    \/ \E p \in LayerSurfaces : PanelStep(p)
    \/ OutputStep
    \/ Next /\ UNCHANGED layers

LayersSpec == LayersInit /\ [][LayersNext]_layerVars
----------------------------------------------------------------------------
(* Properties *)

\* Every field has its type, and the surfaces in the trees have one order.
LayersTypeOK ==
    /\ server \in Server
    /\ layers \in Layer
    /\ layers.later \subseteq InScene(layers) \X InScene(layers)
    /\ \A p, q \in InScene(layers) :
          p # q => (<<p, q>> \in layers.later <=> <<q, p>> \notin layers.later)

(***************************************************************************)
(* handle_node_destroy(): "If the surface of this node has the current     *)
(* keyboard focus, then we have to deal with `seat->focused_layer' to avoid*)
(* UAF bugs": the focused layer surface is one that exists, on an output   *)
(* that exists.                                                            *)
(***************************************************************************)
FocusedLayerLives ==
    server.focused_layer # None =>
        /\ server.focused_layer \in InScene(layers)
        /\ layers.output[server.focused_layer] \in layers.outputs

(***************************************************************************)
(* seat->focused_layer and the keyboard focus of wlr_seat are set by       *)
(* different functions, and a surface can become exclusive after it was    *)
(* focused: as long as the focused layer surface demands the keyboard for  *)
(* itself, it has it, whatever windows and menus do.                       *)
(***************************************************************************)
ExclusiveHasKeyboard ==
    HasExclusiveLayer(server) => server.focused_surface = server.focused_layer

(***************************************************************************)
(* "Precedence is defined as being in the same or higher (overlay is       *)
(* highest) than the layer with current keyboard focus": an exclusive      *)
(* surface that stays one, and is not hidden, loses the focus only to one  *)
(* that is not below it.                                                   *)
(***************************************************************************)
ExclusiveYieldsUpwards ==
    [][ LET p == server.focused_layer
            q == server'.focused_layer
        IN  /\ HasExclusiveLayer(server)
            /\ q # p
            /\ p \in InScene(layers') /\ IsExclusive(server', p)
            /\ p \in MappedPanels(layers) => p \in MappedPanels(layers')
            /\ layers.layer[p] = layers'.layer[p]
            => HasExclusiveLayer(server') /\ layers'.layer[q] >= layers'.layer[p]
      ]_layerVars

(***************************************************************************)
(* try_to_focus_next_layer_or_toplevel(): when a mapped exclusive surface  *)
(* is hidden, destroyed or content with less, the focus goes to the first  *)
(* exclusive surface of the highest layer, never to one that is not mapped,*)
(* or to none if the output has none.  (Unless it asks for the keyboard    *)
(* in the commit that hides it.)                                           *)
(***************************************************************************)
FocusPassesOn ==
    [][ LET p == server.focused_layer
            q == server'.focused_layer
        IN  /\ p \in MappedPanels(layers) /\ IsExclusive(server, p)
            /\ ~(p \in MappedPanels(layers') /\ IsExclusive(server', p))
            /\ layers'.outputs = layers.outputs
            /\ ~\E layer \in 0 .. Overlay : Hide(p, layer, "exclusive")
            => \E near \in layers.outputs :
                  LET found == Candidates(server', layers', near)
                  IN  IF found = {} THEN q = None
                      ELSE q \in found
                           /\ \A r \in found \ {q} : Earlier(layers', q, r)
      ]_layerVars

(***************************************************************************)
(* When the last layer surface gives the focus up, by whatever way, the    *)
(* keyboard goes to a window that is shown if there is one, or to the modal*)
(* dialog that takes its place (which may be minimized on its own).        *)
(***************************************************************************)
KeyboardReturnsToWindow ==
    [][ /\ server.focused_layer # None /\ server'.focused_layer = None
        /\ server.input_mode = "passthrough"
        /\ OnCurrentWorkspace(server') \ server'.minimized # {}
        => server'.focused_surface \in Visible(server') \cup (server'.mapped \cap Modal)
      ]_layerVars

\* The focused layer surface exists, has one place in the trees, and if it demands
\* the keyboard it has it.
FocusedLayerIsRight == LayersTypeOK /\ FocusedLayerLives /\ ExclusiveHasKeyboard

\* The focus of a layer surface that gives it up goes to the next layer surface
\* that demands it, else to a window.
FocusIsPassedOn == FocusPassesOn /\ KeyboardReturnsToWindow
=============================================================================

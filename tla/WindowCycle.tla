---------------------------- MODULE WindowCycle ----------------------------
(***************************************************************************)
(* The window switcher (src/cycle/cycle.c) on top of Desktop.              *)
(*                                                                         *)
(* While it is open, input_mode is "cycle": views still come, unmap and go,*)
(* and the workspace may still be switched by a client.  The switcher keeps*)
(* a list of the views it cycles through, taken when it opens, and shows   *)
(* the selected one by moving its scene node to a preview tree and leaving *)
(* a dummy node in its place.  Views are listed in stacking order, with    *)
(* previews on (the defaults); shaded views, outputs and app ids are left  *)
(* out of the filters.                                                     *)
(***************************************************************************)
EXTENDS Desktop

CONSTANT PreviewTree    \* server.cycle_preview_tree

ASSUME WindowCycleAssumption == PreviewTree \notin Workspaces

VARIABLES
    cycle,  \* server.cycle
    scene   \* the parent tree and the enabled flag of the views' scene nodes

cycleVars == <<server, cycle, scene>>

Cycle ==
    [ views    : SUBSET Views,             \* the views that have a cycle_link
      above    : SUBSET (Views \X Views),  \* their order in the list
      selected : Views \cup {None},
      current  : BOOLEAN,                  \* filter: only this workspace
      preview  : Views \cup {None},        \* preview_node
      dummy    : Workspaces \cup {None},   \* preview_dummy->parent
      enabled  : BOOLEAN ]                 \* preview_was_enabled

Scene == [ tree : [Views -> Workspaces \cup {PreviewTree}],
           enabled : SUBSET Views ]

Closed == [ views |-> {}, above |-> {}, selected |-> None, current |-> FALSE,
            preview |-> None, dummy |-> None, enabled |-> FALSE ]

CycleInit ==
    /\ Init
    /\ cycle = Closed
    /\ scene = [ tree |-> [v \in Views |-> FirstWorkspace], enabled |-> {} ]

----------------------------------------------------------------------------
(* The list *)

\* init_cycle(): the views that match the filter.
Matching(s, current) ==
    (IF current THEN OnCurrentWorkspace(s) ELSE s.mapped) \ Modal

\* get_first_view()
FirstOf(above, views) ==
    CHOOSE v \in views : \A w \in views \ {v} : <<v, w>> \in above

\* get_next_selected_view(): the list is circular.
NextOf(c, forward) ==
    LET below == { w \in c.views : <<c.selected, w>> \in c.above }
        higher == { w \in c.views : <<w, c.selected>> \in c.above }
        flipped == { <<p[2], p[1]>> : p \in c.above }
    IN  IF forward
        THEN FirstOf(c.above, IF below # {} THEN below ELSE c.views)
        ELSE FirstOf(flipped, IF higher # {} THEN higher ELSE c.views)

----------------------------------------------------------------------------
(* The preview *)

\* restore_preview_node()
RestorePreview(c, n) ==
    IF c.preview = None
    THEN n
    ELSE [ tree |-> [n.tree EXCEPT ![c.preview] = c.dummy],
           enabled |-> IF c.enabled THEN n.enabled
                                    ELSE n.enabled \ {c.preview} ]

\* preview_selected_view(), of the last selected view in the tree n
Previewing(c, n) ==
    [c EXCEPT !.preview = c.selected,
              !.dummy = RestorePreview(c, n).tree[c.selected],
              !.enabled = c.selected \in RestorePreview(c, n).enabled]

PreviewScene(c, n) ==
    LET m == RestorePreview(c, n)
    IN  [ tree |-> [m.tree EXCEPT ![c.selected] = PreviewTree],
          enabled |-> m.enabled \cup {c.selected} ]

(***************************************************************************)
(* What the functions of Desktop do to the scene graph on the way from s to*)
(* t: view_move_to_workspace() moves the node of the view to the tree of   *)
(* the other workspace, wherever it is, and view_update_visibility() runs  *)
(* when the view is mapped, unmapped, minimized or unminimized.            *)
(***************************************************************************)
FollowScene(s, t, n) ==
    [ tree |-> [ v \in Views |->
          IF v \notin s.views \cap t.views \/ s.workspace[v] # t.workspace[v]
          THEN t.workspace[v] ELSE n.tree[v] ],
      enabled |-> { v \in t.views :
          IF v \in s.mapped <=> v \in t.mapped
             /\ (v \in s.minimized <=> v \in t.minimized)
          THEN v \in n.enabled ELSE v \in Visible(t) } ]

----------------------------------------------------------------------------
(* Handlers *)

\* cycle_begin()
CycleBegin(forward, current) ==
    LET views == Matching(server, current)
        first == IF server.active_view \in views THEN server.active_view
                 ELSE FirstOf(server.above, views)
        c == [Closed EXCEPT !.views = views, !.above = server.above,
                            !.current = current, !.selected = first]
        d == [c EXCEPT !.selected = NextOf(c, forward)]
    IN  /\ server.input_mode = "passthrough"
        /\ views # {}
        /\ server' = FocusOverrideBegin(server, "cycle")
        /\ cycle' = Previewing(d, scene)
        /\ scene' = PreviewScene(d, scene)

\* cycle_step()
CycleStep(forward) ==
    LET d == [cycle EXCEPT !.selected = NextOf(cycle, forward)]
    IN  /\ server.input_mode = "cycle"
        /\ cycle' = Previewing(d, scene)
        /\ scene' = PreviewScene(d, scene)
        /\ UNCHANGED server

\* Mutation: the view is focused before the switcher lets the keyboard go.
FinishInWrongOrder(v, switchFocus) ==
    LET s == IF switchFocus THEN FocusView(server, v, TRUE, FALSE) ELSE server
    IN  /\ server.input_mode = "cycle"
        /\ server' = FocusOverrideEnd(s, ~switchFocus)
        /\ cycle' = Closed
        /\ scene' = FollowScene(server, server', RestorePreview(cycle, scene))

\* cycle_finish(), with v the selected view
Finish(v, switchFocus) ==
    LET s == FocusOverrideEnd(server, ~switchFocus)
    IN  /\ server.input_mode = "cycle"
        /\ server' = IF switchFocus THEN FocusView(s, v, TRUE, FALSE) ELSE s
        /\ cycle' = Closed
        /\ scene' = FollowScene(server, server', RestorePreview(cycle, scene))

\* The modifier is released, or Escape is pressed, or the config is reloaded.
CycleFinish(switchFocus) == Finish(cycle.selected, switchFocus)

\* cycle_on_cursor_release()
CycleOnCursorRelease(v) == v \in cycle.views /\ Finish(v, TRUE)

\* cycle_immediate(): no switcher is shown; the search does not wrap around.
CycleImmediate(forward, current) ==
    LET active == server.active_view
        below == { w \in server.views :
                     active = None \/ <<active, w>> \in server.above }
        candidates == Matching(server, current)
                        \cap (IF forward THEN below ELSE server.views)
        flipped == { <<p[2], p[1]>> : p \in server.above }
        v == FirstOf(IF forward THEN server.above ELSE flipped, candidates)
        s == IF forward /\ active # None THEN MoveToBack(server, active)
                                         ELSE server
    IN  /\ ActionsRun(server)
        /\ candidates # {}
        /\ server' = FocusView(s, v, TRUE, FALSE)
        /\ scene' = FollowScene(server, server', scene)
        /\ UNCHANGED cycle

\* Mutation: the list is not built again when a view is destroyed.
ReinitializeNot(s) == cycle

\* cycle_reinitialize(): keep the selected view, or else the previous one.
Reinitialize(s) ==
    LET views == Matching(s, cycle.current)
        previous == NextOf(cycle, FALSE)
        choice == CASE cycle.selected \in views -> cycle.selected
                    [] cycle.selected \notin views /\ previous \in views -> previous
                    [] OTHER -> FirstOf(s.above, views)
    IN  IF views = {} THEN Closed
        ELSE [Closed EXCEPT !.views = views, !.above = s.above,
                            !.current = cycle.current, !.selected = choice]

\* view_destroy() with the switcher open
DestroyWhileCycling(v) ==
    LET s == Forget(server, v)
        c == Reinitialize(s)
        n == RestorePreview(cycle, scene)
    IN  /\ server.input_mode = "cycle"
        /\ v \in server.views \ server.mapped
        /\ server' = RemoveView(IF c = Closed THEN FocusOverrideEnd(s, TRUE)
                                              ELSE s, v)
        /\ cycle' = IF c = Closed THEN c ELSE Previewing(c, n)
        /\ scene' = FollowScene(server, server',
                                IF c = Closed THEN n ELSE PreviewScene(c, n))

\* Every other handler leaves the switcher alone.
OtherStep ==
    /\ DesktopStep \/ \E v \in Views : server.input_mode # "cycle" /\ Destroy(v)
    /\ scene' = FollowScene(server, server', scene)
    /\ UNCHANGED cycle

SwitcherStep ==
    \/ \E forward, current \in BOOLEAN :
          CycleBegin(forward, current) \/ CycleImmediate(forward, current)
    \/ \E forward \in BOOLEAN : CycleStep(forward)
    \/ \E switchFocus \in BOOLEAN : CycleFinish(switchFocus)
    \/ \E v \in Views : CycleOnCursorRelease(v) \/ DestroyWhileCycling(v)

CycleNext == OtherStep \/ SwitcherStep

CycleSpec == CycleInit /\ [][CycleNext]_cycleVars

----------------------------------------------------------------------------
(* Properties *)

CycleTypeOK == server \in Server /\ cycle \in Cycle /\ scene \in Scene

(***************************************************************************)
(* The switcher is open exactly in its input mode, and then the list is not*)
(* empty, holds only views that still exist, however many of them unmapped,*)
(* were destroyed or moved to other workspaces since, and contains the     *)
(* selected one, which is the one in the preview tree.                     *)
(***************************************************************************)
SwitcherConsistent ==
    IF server.input_mode = "cycle"
    THEN /\ cycle.views \subseteq server.views
         /\ cycle.selected \in cycle.views
         /\ cycle.preview = cycle.selected
    ELSE cycle = Closed

(***************************************************************************)
(* restore_preview_node(): no view is left behind in the preview tree, that*)
(* is, above all other windows, once the selection moved on or the switcher*)
(* was closed.                                                             *)
(***************************************************************************)
OnlySelectedIsPreviewed ==
    \A v \in server.views :
        scene.tree[v] = PreviewTree => v = cycle.selected

(***************************************************************************)
(* Closing the switcher with a mapped view selected leaves the keyboard on *)
(* a window of its hierarchy, that hierarchy on the current workspace (or  *)
(* omnipresent) and the view not minimized.                                *)
(***************************************************************************)
SwitchReachesSelected ==
    [][ LET v == cycle.selected
        IN  /\ server.input_mode = "cycle"
            /\ CycleFinish(TRUE)
            /\ v \in server.mapped
            => /\ server'.focused_surface \in Family(server', v) \cup {v}
               /\ v \in Visible(server')
               /\ \/ v \in server'.omnipresent
                  \/ server'.workspace[v] = server'.current ]_cycleVars

\* Input mode, list, selection, preview and scene graph agree, whatever the views
\* do while the switcher is open, and none of it outlasts the switcher.
SwitcherIsCoherent == CycleTypeOK /\ SwitcherConsistent /\ OnlySelectedIsPreviewed
=============================================================================

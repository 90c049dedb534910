------------------------------ MODULE Desktop ------------------------------
(***************************************************************************)
(* The window state that src/desktop.c, src/view.c, src/view-impl-common.c,*)
(* src/xdg.c, src/workspaces.c and src/interactive.c share: which views are*)
(* mapped, minimized and on which workspace, their stacking order, which   *)
(* one has the keyboard, and which input mode is active.                   *)
(*                                                                         *)
(* All views are xdg toplevels here, which always want the focus, so       *)
(* view_is_focusable() is `mapped'.  Whether a toplevel asked to be a      *)
(* modal dialog is fixed by the constant Modal; its parent is not fixed.   *)
(***************************************************************************)
EXTENDS Seat

CONSTANTS
    Workspaces,     \* the configured workspaces
    FirstWorkspace, \* the one that is current at startup
    Modal           \* the views that are modal dialogs

ASSUME DesktopAssumption ==
    /\ FirstWorkspace \in Workspaces
    /\ None \notin Workspaces
    /\ Modal \subseteq Views

VARIABLE server     \* struct server

Server ==
    [ views           : SUBSET Views,            \* server.views, ...
      above           : SUBSET (Views \X Views), \* ... <<v, w>>: v before w in it
      parent          : [Views -> Views \cup {None}],  \* wlr_xdg_toplevel.parent
      mapped          : SUBSET Views,
      minimized       : SUBSET Views,
      workspace       : [Views -> Workspaces],
      omnipresent     : SUBSET Views,            \* visible_on_all_workspaces
      current         : Workspaces,
      last            : Workspaces \cup {None},
      active_view     : Views \cup {None},
      focused_surface : Surfaces \cup {None},    \* wlr_seat's keyboard focus
      input_mode      : InputModes,
      override        : Surfaces \cup {None},    \* seat.focus_override.surface
      grabbed_view    : Views \cup {None},
      auto_raise      : Views \cup {None},       \* pending_auto_raise_view
      showing_desktop : BOOLEAN,
      hidden          : SUBSET Views,  \* was_minimized_by_show_desktop_action
      focused_layer   : LayerSurfaces \cup {None},
      interactivity   : [LayerSurfaces -> Interactivity],
      locked          : BOOLEAN,
      last_active     : Views \cup {None} ]      \* to refocus after unlocking

----------------------------------------------------------------------------
(* View hierarchies *)

\* The chain of parents of a toplevel, itself included.
Ancestors(s, v) ==
    { w \in s.views :
        \A C \in SUBSET s.views :
            (v \in C /\ \A c \in C : s.parent[c] \in C \cup {None}) => w \in C }

\* view_get_root(): the most senior parent.
Root(s, v) ==
    LET A == Ancestors(s, v)
    IN  IF \E r \in A : s.parent[r] = None
        THEN CHOOSE r \in A : s.parent[r] = None
        ELSE v

\* append_children(): the mapped views whose most senior parent is this one.
SubViews(s, v) == { c \in s.mapped \ {v} : Root(s, c) = v }

\* The root of a view and its sub-views.
Family(s, v) == LET root == Root(s, v) IN {root} \cup SubViews(s, root)

----------------------------------------------------------------------------
(* Stacking order *)

\* v comes first, or last, among the views of a set.
IsTop(s, v, S) == v \in S /\ \A w \in S \ {v} : <<v, w>> \in s.above
IsBottom(s, v, S) == v \in S /\ \A w \in S \ {v} : <<w, v>> \in s.above

\* The order in which a lower rank comes first; within a rank, s.above decides.
Restack(s, rank) ==
    { p \in s.views \X s.views :
        \/ rank[p[1]] < rank[p[2]]
        \/ rank[p[1]] = rank[p[2]] /\ p \in s.above }

\* Mutation: for_each_subview(root, move_to_front) is missing.
MoveToFrontAlone(s, v) ==
    LET rank == [ w \in Views |-> CASE w = v -> 0
                                    [] w = Root(s, v) /\ w # v -> 1
                                    [] OTHER -> 2 ]
    IN  [s EXCEPT !.above = Restack(s, rank)]

\* view_move_to_front(): the view, its siblings, the root, then all others.
MoveToFront(s, v) ==
    LET root == Root(s, v)
        rank == [ w \in Views |-> CASE w = v /\ v # root -> 0
                                    [] w = root -> 2
                                    [] w \in SubViews(s, root) -> 1
                                    [] OTHER -> 3 ]
    IN  IF \E front \in s.views : /\ IsTop(s, front, s.views)
                                  /\ v \in {front, Root(s, front)}
        THEN s
        ELSE [s EXCEPT !.above = Restack(s, rank)]

\* view_move_to_back(): the sub-views are appended one by one from the lowest
\* one up, which reverses their order, and the root goes last.
MoveToBack(s, v) ==
    LET root == Root(s, v)
        subs == SubViews(s, root)
        rank == [ w \in Views |-> CASE w = root -> 2
                                    [] w \in subs -> 1
                                    [] OTHER -> 0 ]
        flipped == { p \in s.views \X s.views :
                        IF {p[1], p[2]} \subseteq subs
                        THEN <<p[2], p[1]>> \in s.above
                        ELSE p \in s.above }
    IN  [s EXCEPT !.above = Restack([s EXCEPT !.above = flipped], rank)]

----------------------------------------------------------------------------
(* Focus *)

\* show_desktop_reset(): for_each_view() skips the views that are not mapped.
ShowDesktopReset(s) ==
    [s EXCEPT !.showing_desktop = FALSE, !.hidden = @ \ s.mapped]

\* Mutation: only the children of the view are looked at, not its siblings.
FocusTargetAmongChildren(s, v) ==
    LET dialogs == SubViews(s, v) \cap Modal
    IN  IF v \notin Modal /\ \E d \in dialogs : IsBottom(s, d, dialogs)
        THEN CHOOSE d \in dialogs : IsBottom(s, d, dialogs)
        ELSE v

\* view_get_modal_dialog(): the view itself, or else the lowest modal sibling.
FocusTarget(s, v) ==
    LET dialogs == SubViews(s, Root(s, v)) \cap Modal
    IN  IF v \notin Modal /\ \E d \in dialogs : IsBottom(s, d, dialogs)
        THEN CHOOSE d \in dialogs : IsBottom(s, d, dialogs)
        ELSE v

\* workspaces_switch_to() with update_focus = false.  The omnipresent views
\* and the grabbed one come along.
SwitchWorkspace(s, target) ==
    IF target = s.current
    THEN s
    ELSE ShowDesktopReset(
           [s EXCEPT !.workspace = [ v \in Views |->
                         IF v \in s.views /\ v \in s.omnipresent \cup {s.grabbed_view}
                         THEN target ELSE s.workspace[v] ],
                     !.last = s.current,
                     !.current = target ])

\* desktop_focus_view_internal() for a view that is not minimized; delay says
\* whether the raise is left to the auto-raise timer.
FocusNow(s, v, raise, delay) ==
    IF s.input_mode = "cycle" \/ v \notin s.mapped
    THEN s
    ELSE LET t == IF v \in s.omnipresent
                  THEN s
                  ELSE SwitchWorkspace(s, s.workspace[v])
             u == [t EXCEPT !.auto_raise = IF raise /\ delay THEN v ELSE None]
             w == IF raise /\ ~delay THEN MoveToFront(u, v) ELSE u
         IN  ShowDesktopReset(SeatFocusSurface(w, FocusTarget(w, v)))

\* What for_each_view(CURRENT_WORKSPACE) visits.
OnCurrentWorkspace(s) == { v \in s.mapped : s.workspace[v] = s.current }

\* Mutation: the search ends at the first view, minimized or not.
FocusFirst(s) ==
    LET candidates == OnCurrentWorkspace(s)
    IN  IF \E v \in candidates \ s.minimized : IsTop(s, v, candidates)
        THEN FocusNow(s, CHOOSE v \in candidates : IsTop(s, v, candidates),
                      TRUE, FALSE)
        ELSE SeatFocusSurface(s, None)

\* desktop_focus_topmost_view()
FocusTopmost(s) ==
    LET candidates == OnCurrentWorkspace(s) \ s.minimized
    IN  IF \E v \in candidates : IsTop(s, v, candidates)
        THEN FocusNow(s, CHOOSE v \in candidates : IsTop(s, v, candidates),
                      TRUE, FALSE)
        ELSE SeatFocusSurface(s, None)

\* interactive_cancel()
InteractiveCancel(s, v) ==
    IF s.grabbed_view # v
    THEN s
    ELSE LET t == [s EXCEPT !.grabbed_view = None]
         IN  IF s.input_mode \in {"move", "resize"}
             THEN FocusOverrideEnd(t, TRUE)
             ELSE t

\* view_minimize(): the whole hierarchy, and then the focus.  Hiding the
\* grabbed view ends the interactive move (view_update_visibility()).
ViewMinimize(s, v, minimized) ==
    LET family == Family(s, v)
        changed == { w \in family : (w \in s.minimized) # minimized }
        t == [s EXCEPT !.minimized = IF minimized THEN @ \cup family
                                                  ELSE @ \ family]
        u == IF minimized /\ s.grabbed_view \in changed \cap s.mapped
             THEN InteractiveCancel(t, s.grabbed_view)
             ELSE t
    IN  CASE s.input_mode = "cycle" -> s
          [] minimized /\ s.input_mode # "cycle" ->
                IF u.active_view \in changed THEN FocusTopmost(u) ELSE u
          [] OTHER ->
                IF changed \cap s.mapped # {} /\ v \notin u.minimized
                THEN FocusNow(u, v, TRUE, FALSE)
                ELSE u

\* desktop_focus_view(); unminimizing a view focuses and raises it.
FocusView(s, v, raise, delay) ==
    IF v \in s.minimized
    THEN ViewMinimize(s, v, FALSE)
    ELSE FocusNow(s, v, raise, delay)

----------------------------------------------------------------------------
(* Handlers *)

Init ==
    server = [ views           |-> {},
               above           |-> {},
               parent          |-> [v \in Views |-> None],
               mapped          |-> {},
               minimized       |-> {},
               workspace       |-> [v \in Views |-> FirstWorkspace],
               omnipresent     |-> {},
               current         |-> FirstWorkspace,
               last            |-> None,
               active_view     |-> None,
               focused_surface |-> None,
               input_mode      |-> "passthrough",
               override        |-> None,
               grabbed_view    |-> None,
               auto_raise      |-> None,
               showing_desktop |-> FALSE,
               hidden          |-> {},
               focused_layer   |-> None,
               interactivity   |-> [l \in LayerSurfaces |-> "none"],
               locked          |-> FALSE,
               last_active     |-> None ]

\* actions_run(): no action of a binding or a menu item runs during window
\* switching, except those of the window switcher itself.
ActionsRun(s) == s.input_mode # "cycle"

Visible(s) == s.mapped \ s.minimized

\* handle_new_xdg_toplevel(): a new view is the first of server.views.
NewToplevel(v) ==
    /\ v \notin server.views
    /\ server' = [server EXCEPT !.views = @ \cup {v},
                                !.above = @ \cup {v} \X server.views,
                                !.workspace[v] = server.current]

\* xdg_toplevel.set_parent: wlroots ignores a parent that is not mapped.
SetParent(v, p) ==
    /\ v \in server.views
    /\ p \in server.mapped \cup {None}
    /\ p # None => v \notin Ancestors(server, p)
    /\ server' = [server EXCEPT !.parent[v] = p]

\* handle_map() and view_impl_map()
Map(v) ==
    /\ v \in server.views \ server.mapped
    /\ LET s == [server EXCEPT !.mapped = @ \cup {v}]
       IN  server' = IF v \in s.minimized THEN s
                     ELSE FocusView(s, v, TRUE, FALSE)

\* handle_unmap() and view_impl_unmap(); then wlroots drops the view's parent
\* and hands its children to that parent.
ImplUnmap(s, v) ==
    LET t == [s EXCEPT !.mapped = @ \ {v}]
        u == IF v \in s.minimized THEN t ELSE InteractiveCancel(t, v)
    IN  IF u.active_view \in {v, None} THEN FocusTopmost(u) ELSE u

Unmap(v) ==
    /\ v \in server.mapped
    /\ LET s == ImplUnmap(server, v)
           p == s.parent[v]
       IN  server' = [s EXCEPT !.parent = [ w \in Views |->
                        IF w = v THEN None
                        ELSE IF s.parent[w] = v THEN p ELSE s.parent[w] ]]

\* view_destroy(), before the view leaves server.views
Forget(s, v) ==
    LET t == InteractiveCancel(s, v)
    IN  [t EXCEPT
            !.active_view = IF @ = v THEN None ELSE @,
            !.auto_raise = IF @ = v THEN None ELSE @,
            !.last_active = IF @ = v THEN None ELSE @]

RemoveView(s, v) ==
    SurfaceDestroyed(
        [s EXCEPT !.views = @ \ {v},
                  !.above = { p \in @ : v \notin {p[1], p[2]} },
                  !.parent[v] = None,
                  !.minimized = @ \ {v},
                  !.workspace[v] = FirstWorkspace,
                  !.omnipresent = @ \ {v},
                  !.hidden = @ \ {v}], v)

\* handle_destroy(): wlroots has unmapped the toplevel before.  A window menu
\* that was opened for the view is closed (menu_on_view_destroy()).
Destroy(v) ==
    /\ v \in server.views \ server.mapped
    /\ \E ownMenu \in {FALSE, server.input_mode = "menu"} :
          LET s == Forget(server, v)
              t == IF ownMenu THEN FocusOverrideEnd(s, TRUE) ELSE s
          IN  server' = RemoveView(t, v)

\* A client or a taskbar asks for it, or a key binding (Iconify).
RequestMinimize(v, minimized) ==
    /\ v \in IF minimized THEN server.views ELSE server.mapped
    /\ server' = ViewMinimize(server, v, minimized)

\* Activation requests raise; the Focus action does not.
Activate(v) ==
    /\ v \in server.views
    /\ server' = FocusView(server, v, TRUE, FALSE)

FocusAction(v) ==
    /\ v \in server.mapped
    /\ ActionsRun(server)
    /\ server' = FocusView(server, v, FALSE, FALSE)

UnfocusAction ==
    /\ ActionsRun(server)
    /\ server' = SeatFocusSurface(server, None)

Raise(v) ==
    /\ v \in server.mapped
    /\ ActionsRun(server)
    /\ server' = MoveToFront(server, v)

Lower(v) ==
    /\ v \in server.mapped
    /\ ActionsRun(server)
    /\ server' = MoveToBack(server, v)

\* Sloppy focus: the cursor enters a view; raiseOnFocus may be delayed.
CursorEnter(v) ==
    /\ v \in Visible(server) /\ server.workspace[v] = server.current
    /\ server.input_mode = "passthrough"
    /\ \E raise, delay \in BOOLEAN :
           server' = FocusView(server, v, raise, delay)

\* handle_auto_raise_timer()
AutoRaiseTimer ==
    /\ server.auto_raise # None
    /\ LET v == server.auto_raise
           s == [server EXCEPT !.auto_raise = None]
       IN  server' = IF v \in s.mapped THEN MoveToFront(s, v) ELSE s

\* workspaces_switch_to() with update_focus = true
SwitchToWorkspace(s, target) ==
    IF target = s.current
    THEN s
    ELSE LET t == SwitchWorkspace(s, target)
             u == IF t.active_view \in t.omnipresent THEN t ELSE FocusTopmost(t)
         IN  ShowDesktopReset(u)

\* GoToDesktop, or the request of an ext-workspace client
GoToDesktop(target) ==
    /\ target # server.current
    /\ server' = SwitchToWorkspace(server, target)

\* SendToDesktop: view_move_to_workspace(), and then focus or follow.
SendToDesktop(v, target, follow) ==
    /\ v \in server.mapped
    /\ ActionsRun(server)
    /\ LET s == [server EXCEPT !.workspace[v] = target]
       IN  server' = IF follow
                     THEN SwitchToWorkspace(s, target)
                     ELSE IF s.active_view = v THEN FocusTopmost(s) ELSE s

ToggleOmnipresent(v) ==
    /\ v \in server.mapped
    /\ ActionsRun(server)
    /\ server' = [server EXCEPT !.omnipresent = IF v \in @ THEN @ \ {v}
                                                           ELSE @ \cup {v}]

\* interactive_set_grab_context(), on a button press over a view
ButtonPress(v) ==
    /\ v \in Visible(server) /\ server.workspace[v] = server.current
    /\ server.input_mode = "passthrough"
    /\ server' = [server EXCEPT !.grabbed_view = v]

\* interactive_begin()
InteractiveBegin(v, mode) ==
    /\ server.input_mode = "passthrough"
    /\ server.grabbed_view = v
    /\ server' = FocusOverrideBegin(server, mode)

\* cursor_finish_button_release(): interactive_finish() ends in a cancel.
ButtonRelease ==
    /\ server.grabbed_view # None
    /\ server' = InteractiveCancel(server, server.grabbed_view)

\* menu_open_root()
OpenMenu ==
    /\ server.input_mode = "passthrough"
    /\ server' = FocusOverrideBegin(server, "menu")

\* menu_close_root(), or menu_execute_item() before it runs the actions
CloseMenu ==
    /\ server.input_mode = "menu"
    /\ server' = FocusOverrideEnd(server, TRUE)

ClientStep(v) ==
    \/ NewToplevel(v)
    \/ \E p \in Views \cup {None} : SetParent(v, p)
    \/ Map(v)
    \/ Unmap(v)
    \/ \E b \in BOOLEAN : RequestMinimize(v, b)
    \/ Activate(v)

ActionStep(v) ==
    \/ FocusAction(v)
    \/ Raise(v)
    \/ Lower(v)
    \/ \E w \in Workspaces, follow \in BOOLEAN : SendToDesktop(v, w, follow)
    \/ ToggleOmnipresent(v)

CursorStep(v) ==
    \/ CursorEnter(v)
    \/ ButtonPress(v)
    \/ \E mode \in {"move", "resize"} : InteractiveBegin(v, mode)

SessionStep ==
    \/ UnfocusAction
    \/ AutoRaiseTimer
    \/ \E w \in Workspaces : GoToDesktop(w)
    \/ ButtonRelease
    \/ OpenMenu
    \/ CloseMenu

\* Every handler but the destruction of a view, which other modules extend.
DesktopStep ==
    \/ \E v \in Views : ClientStep(v) \/ ActionStep(v) \/ CursorStep(v)
    \/ SessionStep

Next == DesktopStep \/ \E v \in Views : Destroy(v)

Spec == Init /\ [][Next]_server

----------------------------------------------------------------------------
(* Properties *)

\* Every field of struct server holds a value of its C type.
TypeOK == server \in Server

(***************************************************************************)
(* server.views stays one list: the order of the views is total and strict *)
(* whatever raises, lowers, sub-view moves, maps and destructions happened *)
(* (wl_list_remove() and wl_list_insert() in move_to_front/back()).        *)
(***************************************************************************)
StackingIsTotal ==
    \A u, v \in server.views :
        /\ <<u, u>> \notin server.above
        /\ u # v => (<<u, v>> \in server.above <=> <<v, u>> \notin server.above)
        /\ \A w \in server.views :
              <<u, v>> \in server.above /\ <<v, w>> \in server.above
                 => <<u, w>> \in server.above

(***************************************************************************)
(* After view_destroy() nothing in the server points to the freed view: not*)
(* the active or grabbed view, the auto-raise timer, the keyboard focus or *)
(* the surface that an input mode is to restore.                           *)
(***************************************************************************)
PointsToLive(s) ==
    /\ s.mapped \subseteq s.views
    /\ {s.active_view, s.grabbed_view, s.auto_raise, s.last_active}
          \subseteq s.views \cup {None}
    /\ {s.focused_surface, s.override} \cap Views \subseteq s.views

NoDanglingPointers == PointsToLive(server)

(***************************************************************************)
(* The grab and the input mode agree: an interactive move or resize has a  *)
(* view to move (cursor_finish_button_release() dereferences it unchecked),*)
(* and that view is still visible, whatever unmapped, minimized or unshaded*)
(* it in the meantime.                                                     *)
(***************************************************************************)
GrabMatchesMode(s) ==
    /\ s.input_mode \in {"move", "resize"} => s.grabbed_view # None
    /\ s.grabbed_view \in Visible(s) \cup {None}

GrabIsVisible == GrabMatchesMode(server)

(***************************************************************************)
(* The active view is the one with the keyboard; and while an input mode   *)
(* holds the keyboard, it is the one that will get it back.  Both are kept *)
(* by different functions (handle_focus_change(), view_destroy() and the   *)
(* seat_focus_override functions).  seat_focus_override_begin() asserts    *)
(* that there is nothing to restore in passthrough mode.                   *)
(***************************************************************************)
ActiveIsFocused(s) ==
    IF s.input_mode = "passthrough"
    THEN s.override = None /\ s.active_view = s.focused_surface
    ELSE s.focused_surface = None /\ s.active_view = s.override

ActiveFollowsFocus == ActiveIsFocused(server)

(***************************************************************************)
(* Outside the input modes, the keyboard only moves to views that are      *)
(* mapped, and is taken from a view that is unmapped.                      *)
(***************************************************************************)
FocusStaysMapped ==
    [][ /\ server.input_mode = "passthrough"
        /\ server'.input_mode = "passthrough"
        /\ server.focused_surface \in server.mapped \cup {None}
        => server'.focused_surface \in server'.mapped \cup {None} ]_server

(***************************************************************************)
(* desktop_focus_view_internal(): "If any child/sibling of the view is a   *)
(* modal dialog, focus the dialog instead": no step moves the keyboard to a*)
(* view whose hierarchy has a mapped modal dialog, unless it is one.       *)
(***************************************************************************)
DialogTakesFocus ==
    [][ LET v == server'.focused_surface
        IN  /\ server.input_mode = "passthrough"
            /\ v \notin {server.focused_surface, None}
            /\ v \notin Modal
            => SubViews(server', Root(server', v)) \cap Modal = {} ]_server

(***************************************************************************)
(* "a modal dialog is always shown above its parent window, and the two    *)
(* always move together" (view_move_to_front/back): a step that changes the*)
(* order of two views of different hierarchies puts the whole hierarchy of *)
(* one of them in front of, or behind, every view outside of it.  A view   *)
(* that is mapped in the step belongs to its hierarchy already, one that is*)
(* unmapped has left it.  Showing the desktop and restoring it move several*)
(* hierarchies in one step.                                                *)
(***************************************************************************)
InFrontOfOthers(s, F) ==
    \A f \in F, o \in s.mapped \ F : <<f, o>> \in s.above

BehindOthers(s, F) ==
    \A f \in F, o \in s.mapped \ F : <<o, f>> \in s.above

FamiliesMoveTogether ==
    [][ ~server.showing_desktop /\ ~server'.showing_desktop =>
          LET s == [server EXCEPT !.mapped = server'.mapped]
          IN  \A p \in server.above \ server'.above :
                LET U == Family(s, p[1])
                    V == Family(s, p[2])
                IN  <<p[2], p[1]>> \in server'.above /\ U # V
                      => \/ InFrontOfOthers(server', V)
                         \/ BehindOthers(server', U) ]_server

(***************************************************************************)
(* struct server is coherent after every handler: each of its pointers to a*)
(* view or a surface is to one that exists, the grab to one that is visible*)
(* and the active view is the one that has the keyboard or will get it back*)
(* -- which a dozen functions of six files keep between them.              *)
(***************************************************************************)
ServerIsCoherent ==
    TypeOK /\ NoDanglingPointers /\ GrabIsVisible /\ ActiveFollowsFocus

\* server.views stays one list, and families of views move in it as a whole.
StackingIsKept == []StackingIsTotal /\ FamiliesMoveTogether
=============================================================================

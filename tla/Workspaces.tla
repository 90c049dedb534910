----------------------------- MODULE Workspaces -----------------------------
(***************************************************************************)
(* The list of workspaces (src/workspaces.c): how the actions GoToDesktop  *)
(* and SendToDesktop find their target in it, and what happens to the      *)
(* windows, to the current workspace and to the last one when the          *)
(* configuration is reloaded with more or with fewer workspaces.           *)
(*                                                                         *)
(* Only the end of the list ever changes, so that a workspace is its place *)
(* in it.  Names are left out: a workspace that is renamed stays the same, *)
(* and an action may name any workspace.                                   *)
(***************************************************************************)
EXTENDS Desktop, Integers, FiniteSetsExt

CONSTANT MaxWorkspaces      \* bound: the workspaces that are ever configured

ASSUME WorkspacesAssumption ==
    /\ MaxWorkspaces \in Nat \ {0}
    /\ Workspaces = 1 .. MaxWorkspaces

VARIABLE number     \* the length of server.workspaces.all

workspacesVars == <<server, number>>

All == 1 .. number

\* workspaces_init(), with initial_name or else the first one as the current one
WorkspacesInit == Init /\ number \in FirstWorkspace .. MaxWorkspaces

----------------------------------------------------------------------------
(* Targets of actions *)

Directions == {"left", "right"}

\* The neighbour of a workspace in the list, or None past its end.
\* get_prev() and get_next()
Adjacent(anchor, direction, wrap) ==
    CASE direction = "left" /\ anchor > 1        -> anchor - 1
      [] direction = "right" /\ anchor < number  -> anchor + 1
      [] direction = "left" /\ anchor = 1        -> IF wrap THEN number ELSE None
      [] direction = "right" /\ anchor = number  -> IF wrap THEN 1 ELSE None

\* workspace_has_views()
Occupied(s) == { w \in All : \E v \in s.mapped \ s.omnipresent : s.workspace[v] = w }

\* Mutation: the search to the left starts over even without wrapping.
AdjacentOccupiedLeftWraps(s, anchor, direction, wrap) ==
    LET ahead == { w \in Occupied(s) : IF direction = "left" THEN w < anchor
                                                             ELSE w > anchor }
        others == Occupied(s) \ (ahead \cup {anchor})
        way == IF ahead = {} /\ (wrap \/ direction = "left") THEN others ELSE ahead
    IN  IF way = {} THEN None
        ELSE IF direction = "left" THEN Max(way) ELSE Min(way)

\* The first occupied workspace on the way from the anchor, which starts over
\* at the other end of the list once.  get_adjacent_occupied()
AdjacentOccupied(s, anchor, direction, wrap) ==
    LET ahead == { w \in Occupied(s) : IF direction = "left" THEN w < anchor
                                                             ELSE w > anchor }
        others == Occupied(s) \ (ahead \cup {anchor})
        way == IF ahead = {} /\ wrap THEN others ELSE ahead
    IN  IF way = {} THEN None
        ELSE IF direction = "left" THEN Max(way) ELSE Min(way)

\* workspaces_find() from the current workspace: all that an action can name,
\* with or without wrapping.
Targets(s) ==
    All \cup {s.last} \cup
    UNION { { Adjacent(s.current, d, wrap), AdjacentOccupied(s, s.current, d, wrap) } :
              d \in Directions, wrap \in BOOLEAN }

----------------------------------------------------------------------------
(* Reloading the configuration *)

\* The windows of some workspaces are moved to the first one.
MoveViews(s, gone) ==
    [s EXCEPT !.workspace = [ v \in Views |->
        IF v \in s.views /\ s.workspace[v] \in gone THEN 1 ELSE s.workspace[v] ]]

\* Mutation: the last workspace is looked at before the current one is left.
DestroyWorkspacesLastFirst(s, gone) ==
    LET t == [MoveViews(s, gone) EXCEPT !.last = IF @ \in gone THEN 1 ELSE @]
    IN  IF t.current \in gone THEN SwitchToWorkspace(t, 1) ELSE t

(***************************************************************************)
(* The loop at the end of workspaces_reconfigure(): each workspace from the*)
(* front loses its windows, then the current one is left, then the last one*)
(* is replaced.  Once the first workspace is the current one it stays that,*)
(* so that the focus moves once, and sees the windows moved until then.    *)
(***************************************************************************)
DestroyWorkspaces(s, gone) ==
    LET moved == MoveViews(s, { w \in gone : w <= s.current })
        left  == IF s.current \in gone THEN SwitchToWorkspace(moved, 1) ELSE s
    IN  [MoveViews(left, gone) EXCEPT !.last = IF @ \in gone THEN 1 ELSE @]

\* What reload_config_and_theme() does before: the timer, and an open menu.
BeforeReload(s) ==
    LET t == [s EXCEPT !.auto_raise = None]
    IN  IF t.input_mode = "menu" THEN FocusOverrideEnd(t, TRUE) ELSE t

\* workspaces_reconfigure(), with n workspaces in rc.xml
Reconfigure(n) ==
    /\ number' = n
    /\ server' = DestroyWorkspaces(BeforeReload(server), (n + 1) .. number)

----------------------------------------------------------------------------
(* Handlers *)

\* handle_ext_workspace_commit(): a client activates a workspace.
ActivateWorkspace(w) == w \in All /\ GoToDesktop(w)

\* GoToDesktop; with toggle, naming the current workspace means the last one,
\* which can be named as well.
GoTo ==
    /\ ActionsRun(server)
    /\ \E to \in Targets(server) \ {None} : GoToDesktop(to)

\* SendToDesktop
SendTo(v, follow) ==
    \E to \in Targets(server) \ {None} : SendToDesktop(v, to, follow)

WorkspaceStep ==
    \/ \E w \in Workspaces : ActivateWorkspace(w)
    \/ GoTo
    \/ \E v \in Views, follow \in BOOLEAN : SendTo(v, follow)

\* The handlers that do not look at the list of workspaces.
OtherStep ==
    \/ \E v \in Views :
        \/ ClientStep(v)
        \/ CursorStep(v)
        \/ FocusAction(v)
        \/ Raise(v)
        \/ Lower(v)
        \/ ToggleOmnipresent(v)
        \/ Destroy(v)
    \/ UnfocusAction
    \/ AutoRaiseTimer
    \/ ButtonRelease
    \/ OpenMenu
    \/ CloseMenu

WorkspacesNext ==
    \/ (WorkspaceStep \/ OtherStep) /\ UNCHANGED number
    \/ \E n \in 1 .. MaxWorkspaces : Reconfigure(n)

WorkspacesSpec == WorkspacesInit /\ [][WorkspacesNext]_workspacesVars

----------------------------------------------------------------------------
(* Properties *)

(***************************************************************************)
(* workspaces_reconfigure() frees the workspaces that are gone: no window, *)
(* mapped or not, visible on one or on all workspaces, and neither the     *)
(* current nor the last workspace is left on one of them, although leaving *)
(* the current one makes it the last one.                                  *)
(***************************************************************************)
WorkspacesAreLive ==
    /\ server.current \in All
    /\ server.last \in All \cup {None}
    /\ \A v \in server.views : server.workspace[v] \in All

(***************************************************************************)
(* get_adjacent_occupied(): left-occupied undoes right-occupied and the    *)
(* other way around, with or without wrapping, so that repeating one visits*)
(* all occupied workspaces in turn.                                        *)
(***************************************************************************)
OccupiedGoesAround ==
    \A w \in Occupied(server), wrap \in BOOLEAN :
        LET right == AdjacentOccupied(server, w, "right", wrap)
            left == AdjacentOccupied(server, w, "left", wrap)
        IN  /\ right # None => AdjacentOccupied(server, right, "left", wrap) = w
            /\ left # None => AdjacentOccupied(server, left, "right", wrap) = w
            /\ wrap /\ Occupied(server) # {w} => None \notin {left, right}

(***************************************************************************)
(* view_impl_unmap(), _minimize(), workspaces_switch_to(), SendToDesktop:  *)
(* no step that takes the keyboard from a mapped view leaves it with nobody*)
(* while some view on the current workspace could have it (Unfocus does    *)
(* that on purpose).  When the current workspace is destroyed, the views of*)
(* those behind it in the list come to the first one after the focus did.  *)
(***************************************************************************)
CameTooLate == { v \in server.views :
    server.workspace[v] > server.current /\ server.workspace[v] \notin All' }

NeverLeftUnfocused ==
    [][ /\ server.input_mode = "passthrough"
        /\ server.focused_surface \in server.mapped
        /\ server'.input_mode = "passthrough"
        /\ server'.focused_surface = None
        => \/ OnCurrentWorkspace(server') \subseteq server'.minimized \cup CameTooLate
           \/ UnfocusAction ]_workspacesVars

\* The keyboard goes from window to window as long as there is a window to take
\* it, and to none that is unmapped.
KeyboardStaysWithWindows == FocusStaysMapped /\ NeverLeftUnfocused
=============================================================================

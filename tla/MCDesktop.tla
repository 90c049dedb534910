----------------------------- MODULE MCDesktop -----------------------------
(***************************************************************************)
(* Two instances in one.  Without the view Third: a window and a dialog on *)
(* up to three workspaces (two while there is a grab or a menu), and all   *)
(* handlers of Workspaces; the dialog is the one that has a parent, the    *)
(* window the one that may be on all workspaces.  With it: three views in  *)
(* any hierarchy on one workspace, and ToggleShowDesktop, but neither the  *)
(* pointer nor menus, nor raising a view that is not focused.              *)
(***************************************************************************)
EXTENDS Workspaces, ShowDesktop

CONSTANT Third

WithoutThird ==
    /\ Third \notin server.views
    /\ WorkspacesNext
    /\ Third \notin server'.views
    /\ \A v \in Views \ Modal : server'.parent[v] = None
    /\ server'.omnipresent \cap Modal = {}
    /\ server'.input_mode # "passthrough" => number' < MaxWorkspaces

HierarchyNext ==
    \/ \E v \in Views :
        \/ NewToplevel(v)
        \/ \E p \in Views \cup {None} : SetParent(v, p)
        \/ Map(v)
        \/ Unmap(v)
        \/ \E b \in BOOLEAN : RequestMinimize(v, b)
        \/ FocusAction(v)
        \/ Lower(v)
        \/ Destroy(v)
    \/ ToggleShowDesktop

WithThird ==
    /\ number = 1 /\ server.input_mode = "passthrough"
    /\ server.auto_raise = None /\ server.omnipresent = {}
    /\ server.last = None
    /\ UNCHANGED number
    /\ \/ Third \notin server.views /\ NewToplevel(Third)
       \/ Third \in server.views /\ HierarchyNext
    /\ Third \notin server'.views => server'.hidden = {} /\ ~server'.showing_desktop

MCSpec == WorkspacesInit /\ [][WithoutThird \/ WithThird]_workspacesVars
=============================================================================

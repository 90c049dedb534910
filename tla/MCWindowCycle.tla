--------------------------- MODULE MCWindowCycle ---------------------------
(***************************************************************************)
(* The window switcher among the steps that change which views there are,  *)
(* which are shown and on which workspace; no pointer grabs and no menus.  *)
(***************************************************************************)
EXTENDS WindowCycle, TLC

MCOther ==
    /\ \/ \E v \in Views :
            \/ NewToplevel(v)
            \/ Map(v)
            \/ Unmap(v)
            \/ \E b \in BOOLEAN : RequestMinimize(v, b)
            \/ ToggleOmnipresent(v)
            \/ server.input_mode # "cycle" /\ Destroy(v)
       \/ \E w \in Workspaces : GoToDesktop(w)
    /\ scene' = FollowScene(server, server', scene)
    /\ UNCHANGED cycle

MCSpec == CycleInit /\ [][MCOther \/ SwitcherStep]_cycleVars

Symmetry == Permutations(Views)
=============================================================================

---------------------------- MODULE ShowDesktop ----------------------------
(***************************************************************************)
(* The ToggleShowDesktop action (src/show-desktop.c) on top of Desktop.    *)
(* It minimizes every view of the current workspace and marks it, and when *)
(* called again unminimizes the marked ones.  The marks are cleared by     *)
(* show_desktop_reset(), which every focus change calls; the loops below   *)
(* change the focus themselves, so the marks are cleared under their feet. *)
(***************************************************************************)
EXTENDS Desktop, SequencesExt

\* minimize_views(): the array holds the views front to back and is walked in
\* reverse, in the order that server.views had before the first step.
MinimizeViews(s, views, minimized) ==
    LET backToFront == SetToSortSeq(views, LAMBDA v, w : <<w, v>> \in s.above)
    IN  FoldLeft(LAMBDA t, v : ViewMinimize(t, v, minimized), s, backToFront)

\* show()
Show(s) ==
    LET views == OnCurrentWorkspace(s) \ s.minimized
        t == MinimizeViews([s EXCEPT !.hidden = @ \cup views], views, TRUE)
    IN  [t EXCEPT !.showing_desktop = TRUE]

\* Mutation: the views are looked up again after each step, by their marks.
RestoreWhileMarked(s) ==
    LET views == OnCurrentWorkspace(s) \cap s.hidden
        step(t, v) == IF v \in t.hidden THEN ViewMinimize(t, v, FALSE) ELSE t
    IN  ShowDesktopReset(
            FoldLeft(step, s,
                SetToSortSeq(views, LAMBDA v, w : <<w, v>> \in s.above)))

\* restore()
Restore(s) ==
    ShowDesktopReset(
        MinimizeViews(s, OnCurrentWorkspace(s) \cap s.hidden, FALSE))

\* show_desktop_toggle()
ToggleShowDesktop ==
    /\ ActionsRun(server)
    /\ server' = IF server.showing_desktop THEN Restore(server) ELSE Show(server)

ShowDesktopNext == Next \/ ToggleShowDesktop

ShowDesktopSpec == Init /\ [][ShowDesktopNext]_server

----------------------------------------------------------------------------
(* Properties *)

(***************************************************************************)
(* When the hierarchy of the active view is in front of the others, showing*)
(* the desktop hides every view of the workspace and marks each of them:   *)
(* hiding the others does not change the focus, and when the active view is*)
(* hidden there is none left whose focusing would clear the marks.         *)
(***************************************************************************)
ActiveFamilyInFront(s) ==
    LET candidates == OnCurrentWorkspace(s) \ s.minimized
        family == Family(s, s.active_view)
    IN  \A f \in candidates \cap family, o \in candidates \ family :
            <<f, o>> \in s.above

ShowMarksWhatItHides ==
    [][ /\ ~server.showing_desktop
        /\ server'.showing_desktop
        /\ server.active_view # None => ActiveFamilyInFront(server)
        => /\ OnCurrentWorkspace(server') \subseteq server'.minimized
           /\ OnCurrentWorkspace(server) \ server.minimized
                \subseteq server'.hidden ]_server

(***************************************************************************)
(* Restoring brings back every marked view of the workspace, although the  *)
(* first one that is unminimized takes the focus and clears all the marks. *)
(***************************************************************************)
RestoreUnminimizesMarked ==
    [][ /\ server.showing_desktop
        /\ ~server'.showing_desktop
        /\ ToggleShowDesktop
        => OnCurrentWorkspace(server) \cap server.hidden
              \subseteq Visible(server') ]_server

\* What the first call of the action hides is marked, and the second one brings
\* all of it back, while each view that is hidden or restored moves the focus and
\* so may clear the marks.
ShowDesktopIsUndone == ShowMarksWhatItHides /\ RestoreUnminimizesMarked
=============================================================================

---------------------------- MODULE OverlayProofs ----------------------------
(***************************************************************************)
(* What lies over the windows and takes the keyboard from them: the window *)
(* switcher and the layer surfaces, for any views, workspaces, panels and  *)
(* outputs.                                                                *)
(*                                                                         *)
(* Coherent does not hold here: the switcher and a panel both take the     *)
(* keyboard from the active view, and the end of a mode may give it to a   *)
(* view that is not mapped any more.  What the functions of the desktop    *)
(* do not touch is one relation, Follows, with a lemma per function; Keeps *)
(* is what remains of it when views come, are mapped and unmapped, Leaves  *)
(* when one is destroyed, and Reached says who has the keyboard after a    *)
(* function that moved it.                                                 *)
(*                                                                         *)
(* Switcher: CycleInv says that server.views is a list (the first of it    *)
(* is what is selected when the selected view goes), that an open switcher *)
(* has copied a part of it and knows where the preview came from (Listed), *)
(* that a closed one has forgotten everything, and that no node but that   *)
(* of the selected view is in the preview tree.                            *)
(*                                                                         *)
(* Layer surfaces: LayersInv says that the trees are one list of what      *)
(* exists, on outputs that exist (Arranged), that the focused surface is   *)
(* one of them, and that an exclusive one has the keyboard (Kept).  What a *)
(* request of p may do to the focus of others is Outcome; who gets it when *)
(* p goes is PassedOn.                                                     *)
(***************************************************************************)
EXTENDS WindowCycle, Layers, DesktopProofs

----------------------------------------------------------------------------
(* What the functions of the desktop leave alone *)

\* Whoever calls them, they map and unmap nothing, do not touch the layer surfaces,
\* neither open nor close the switcher, keep the list a list, and do not take the
\* keyboard from a layer surface that demands it.
Follows(s, t) ==
    /\ t \in Server
    /\ t.views = s.views /\ t.mapped = s.mapped /\ t.parent = s.parent
    /\ t.locked = s.locked /\ t.focused_layer = s.focused_layer
    /\ t.interactivity = s.interactivity
    /\ t.input_mode = "cycle" <=> s.input_mode = "cycle"
    /\ HasExclusiveLayer(s) => t.focused_surface = s.focused_surface
    /\ Ordered(s) => Ordered(t)

\* What only concerns the keyboard
SameButKeyboard(s, t) ==
    /\ t \in Server
    /\ t.views = s.views /\ t.mapped = s.mapped /\ t.parent = s.parent
    /\ t.above = s.above /\ t.minimized = s.minimized /\ t.workspace = s.workspace
    /\ t.omnipresent = s.omnipresent /\ t.current = s.current
    /\ t.locked = s.locked /\ t.focused_layer = s.focused_layer
    /\ t.interactivity = s.interactivity

\* Nothing to do
LEMMA FollowsItself ==
  ASSUME NEW s \in Server PROVE Follows(s, s)
BY DEF Follows

\* Calls one after the other
LEMMA FollowsTwice ==
  ASSUME NEW s, NEW t, NEW u, Follows(s, t), Follows(t, u) PROVE Follows(s, u)
BY DEF Follows, HasExclusiveLayer

\* A function that neither restacks nor touches the seat
LEMMA UnseatedFollows ==
  ASSUME NEW s, NEW t, Unseated(s, t), Ordered(s) => Ordered(t) PROVE Follows(s, t)
BY DEF Follows, Unseated

\* A change of the keyboard focus alone
LEMMA KeyboardFollows ==
  ASSUME NEW s, NEW t, SameButKeyboard(s, t),
         t.input_mode = "cycle" <=> s.input_mode = "cycle",
         HasExclusiveLayer(s) => t.focused_surface = s.focused_surface
  PROVE Follows(s, t)
BY DEF Follows, SameButKeyboard, Ordered

\* wlr_seat_keyboard_enter() and handle_focus_change()
LEMMA KeyboardEnterIs ==
  ASSUME NEW s \in Server, NEW f \in Surfaces \cup {None}
  PROVE LET t == KeyboardEnter(s, f)
        IN  /\ SameButKeyboard(s, t) /\ t.focused_surface = f
            /\ t.input_mode = s.input_mode /\ t.override = s.override
<1> DEFINE t == [s EXCEPT !.focused_surface = f]
           u == [t EXCEPT !.active_view = f]
<1>1. t \in Server BY DEF Server
<1>2. SameButKeyboard(s, t) /\ t.focused_surface = f
      /\ t.input_mode = s.input_mode /\ t.override = s.override
  BY DEF Server, SameButKeyboard
<1> HIDE DEF t
<1>3. f \notin Surfaces \ Views => SameButKeyboard(t, u) /\ u.focused_surface = f
         /\ u.input_mode = t.input_mode /\ u.override = t.override
  BY <1>1, <1>2 DEF Server, SameButKeyboard, Surfaces
<1> HIDE DEF u
<1>4. \/ KeyboardEnter(s, f) = s /\ s.focused_surface = f
      \/ KeyboardEnter(s, f) = t
      \/ KeyboardEnter(s, f) = u /\ f \notin Surfaces \ Views
  BY DEF KeyboardEnter, HandleFocusChange, t, u
<1>5. SameButKeyboard(s, s) BY DEF SameButKeyboard
<1> QED BY <1>2, <1>3, <1>4, <1>5 DEF SameButKeyboard

\* seat_focus_surface() does nothing in an input mode, nor while a layer surface
\* demands the keyboard.
LEMMA SeatFocusFollows ==
  ASSUME NEW s \in Server, NEW f \in Views \cup {None}
  PROVE LET t == SeatFocusSurface(s, f)
        IN  /\ Follows(s, t) /\ SameButKeyboard(s, t) /\ t.input_mode = s.input_mode
            /\ s.input_mode = "passthrough" /\ ~s.locked /\ ~HasExclusiveLayer(s)
                 => t.focused_surface = f
<1> DEFINE k == KeyboardEnter(s, f)
<1>1. f \in Surfaces \cup {None} BY DEF Surfaces
<1>2. SameButKeyboard(s, k) /\ k.focused_surface = f /\ k.input_mode = s.input_mode
  BY <1>1, KeyboardEnterIs
<1> HIDE DEF k
<1>3. SeatFocusSurface(s, f) = IF s.input_mode # "passthrough" \/ s.locked
                                  \/ HasExclusiveLayer(s) THEN s ELSE k
  BY DEF SeatFocusSurface, SeatFocus, k
<1>4. ~HasExclusiveLayer(s) => Follows(s, k) BY <1>2, KeyboardFollows
<1>5. SameButKeyboard(s, s) BY DEF SameButKeyboard
<1> QED BY <1>2, <1>3, <1>4, <1>5, FollowsItself

\* seat_focus_override_begin(), for any mode but that of the switcher
LEMMA OverrideBeginIs ==
  ASSUME NEW s \in Server, NEW mode \in InputModes
  PROVE LET t == FocusOverrideBegin(s, mode)
        IN  /\ SameButKeyboard(s, t) /\ t.input_mode = mode
            /\ HasExclusiveLayer(s) => t.focused_surface = s.focused_surface
<1> DEFINE t == [s EXCEPT !.input_mode = mode, !.override = s.focused_surface]
           k == KeyboardEnter(t, None)
<1>1. t \in Server BY ZenonT(60) DEF Server
<1>2. /\ SameButKeyboard(s, t) /\ t.focused_surface = s.focused_surface
      /\ t.input_mode = mode
  BY <1>1 DEF Server, SameButKeyboard
<1> HIDE DEF t
<1>3. SameButKeyboard(t, k) /\ k.input_mode = mode BY <1>1, <1>2, KeyboardEnterIs
<1> HIDE DEF k
<1>4. HasExclusiveLayer(t) <=> HasExclusiveLayer(s)
  BY <1>2 DEF HasExclusiveLayer, SameButKeyboard
<1>5. FocusOverrideBegin(s, mode) = IF t.locked \/ HasExclusiveLayer(t) THEN t ELSE k
  BY DEF FocusOverrideBegin, SeatFocus, t, k
<1> QED BY <1>2, <1>3, <1>4, <1>5 DEF SameButKeyboard

\* seat_focus_override_end()
LEMMA OverrideEndFollows ==
  ASSUME NEW s \in Server, NEW restore
  PROVE LET t == FocusOverrideEnd(s, restore)
        IN  /\ SameButKeyboard(s, t) /\ t.input_mode = "passthrough"
            /\ s.input_mode # "cycle" => Follows(s, t)
            /\ HasExclusiveLayer(s) => t.focused_surface = s.focused_surface
<1> DEFINE t == [s EXCEPT !.input_mode = "passthrough"]
           k == KeyboardEnter(t, t.override)
           u == IF restore /\ t.override # None THEN SeatFocus(t, t.override, FALSE, FALSE)
                ELSE t
           x == [u EXCEPT !.override = None]
<1>1. t \in Server BY DEF Server, InputModes
<1>2. /\ SameButKeyboard(s, t) /\ t.focused_surface = s.focused_surface
      /\ t.input_mode = "passthrough"
  BY <1>1 DEF Server, SameButKeyboard
<1> HIDE DEF t
<1>3. t.override \in Surfaces \cup {None} BY <1>1 DEF Server
<1>4. SameButKeyboard(t, k) /\ k.input_mode = t.input_mode BY <1>1, <1>3, KeyboardEnterIs
<1>5. SeatFocus(t, t.override, FALSE, FALSE)
         = IF HasExclusiveLayer(t) \/ t.locked THEN t ELSE k
  BY DEF SeatFocus, k
<1> HIDE DEF k
<1>6. SameButKeyboard(t, t) BY <1>1 DEF SameButKeyboard
<1>7. SameButKeyboard(t, u) /\ u.input_mode = t.input_mode
      /\ (HasExclusiveLayer(t) => u.focused_surface = t.focused_surface)
  BY <1>4, <1>5, <1>6
<1>8. FocusOverrideEnd(s, restore) = x BY DEF FocusOverrideEnd, t, u, x
<1> HIDE DEF u
<1>9. SameButKeyboard(u, x) /\ x.input_mode = u.input_mode /\ x.focused_surface = u.focused_surface
  BY <1>7 DEF SameButKeyboard, Server
<1> HIDE DEF x
<1>10. SameButKeyboard(s, x) BY <1>2, <1>7, <1>9 DEF SameButKeyboard
<1>11. HasExclusiveLayer(t) <=> HasExclusiveLayer(s)
  BY <1>2 DEF HasExclusiveLayer, SameButKeyboard
<1>12. HasExclusiveLayer(s) => x.focused_surface = s.focused_surface
  BY <1>2, <1>7, <1>9, <1>11
<1>13. s.input_mode # "cycle" => Follows(s, x)
  BY <1>2, <1>7, <1>9, <1>10, <1>12, KeyboardFollows
<1> QED BY <1>2, <1>7, <1>8, <1>9, <1>10, <1>12, <1>13

\* view_move_to_front() and view_move_to_back()
LEMMA RestackFollows ==
  ASSUME NEW s \in Server, NEW v
  PROVE /\ Follows(s, MoveToFront(s, v)) /\ Unseated(s, MoveToFront(s, v))
        /\ Follows(s, MoveToBack(s, v)) /\ Unseated(s, MoveToBack(s, v))
<1>1. Unseated(s, MoveToFront(s, v)) /\ Unseated(s, MoveToBack(s, v))
  BY MoveToFrontUnseated, MoveToBackUnseated
<1>2. Ordered(s) => Ordered(MoveToFront(s, v))
  <2> HAVE Ordered(s)
  <2> DEFINE R == MoveToFront(s, v).above
  <2>1. R \subseteq s.views \X s.views /\ StrictOrder(R, s.views) BY MoveToFrontMoves
  <2> QED BY <1>1, <2>1 DEF Ordered, Unseated
<1>3. Ordered(s) => Ordered(MoveToBack(s, v))
  <2> HAVE Ordered(s)
  <2> DEFINE R == MoveToBack(s, v).above
  <2>1. R \subseteq s.views \X s.views /\ StrictOrder(R, s.views) BY MoveToBackMoves
  <2> QED BY <1>1, <2>1 DEF Ordered, Unseated
<1> QED BY <1>1, <1>2, <1>3, UnseatedFollows

\* Changing the order touches nothing but the order.
LEMMA MoveToFrontPlaces ==
  ASSUME NEW s \in Server, NEW v
  PROVE LET t == MoveToFront(s, v)
        IN  /\ t.minimized = s.minimized /\ t.omnipresent = s.omnipresent
            /\ t.workspace = s.workspace /\ t.current = s.current
<1>1. \A R : LET t == [s EXCEPT !.above = R]
             IN  /\ t.minimized = s.minimized /\ t.omnipresent = s.omnipresent
                 /\ t.workspace = s.workspace /\ t.current = s.current
  BY DEF Server
<1>2. MoveToFront(s, v) = s \/ \E R : MoveToFront(s, v) = [s EXCEPT !.above = R]
  BY DEF MoveToFront
<1> QED BY <1>1, <1>2

\* Neither reset nor the auto-raise timer touches the order.
LEMMA SameAboveFollows ==
  ASSUME NEW s, NEW t, Unseated(s, t), t.above = s.above PROVE Follows(s, t)
BY UnseatedFollows DEF Ordered, Unseated

\* What desktop_focus_view() leaves behind when nothing holds the keyboard: a view
\* that is shown, on the current workspace or on all, and the keyboard with it or
\* with its modal dialog.
Reached(t, v) ==
    /\ t.focused_surface \in Family(t, v) \cup {v}
    /\ v \in Visible(t)
    /\ v \in t.omnipresent \/ t.workspace[v] = t.current

Free(s) == s.input_mode = "passthrough" /\ ~s.locked /\ ~HasExclusiveLayer(s)

\* desktop_focus_view_internal()
LEMMA FocusNowFollows ==
  ASSUME NEW s \in Server, NEW v \in Views, NEW raise, NEW delay
  PROVE LET t == FocusNow(s, v, raise, delay)
        IN  /\ Follows(s, t) /\ t.input_mode = s.input_mode
            /\ Free(s) /\ v \in Visible(s)
                 => Reached(t, v) /\ t.focused_surface \in {v} \cup (t.mapped \cap Modal)
<1> DEFINE t == IF v \in s.omnipresent THEN s ELSE SwitchWorkspace(s, s.workspace[v])
           next == IF raise /\ delay THEN v ELSE None
           u == [t EXCEPT !.auto_raise = next]
           w == IF raise /\ ~delay THEN MoveToFront(u, v) ELSE u
           f == FocusTarget(w, v)
           x == SeatFocusSurface(w, f)
           y == ShowDesktopReset(x)
           At(r) == v \in r.omnipresent \/ r.workspace[v] = r.current
<1>1. CASE s.input_mode = "cycle" \/ v \notin s.mapped
  <2>1. FocusNow(s, v, raise, delay) = s BY <1>1 DEF FocusNow
  <2> QED BY <1>1, <2>1, FollowsItself DEF Free, Visible
<1>2. CASE ~(s.input_mode = "cycle" \/ v \notin s.mapped)
  <2>1. s.workspace[v] \in Workspaces BY DEF Server
  <2>2. Unseated(s, t) /\ t.above = s.above /\ t.minimized = s.minimized /\ At(t)
    <3>1. Unseated(s, s) BY DEF Unseated
    <3>2. LET r == SwitchWorkspace(s, s.workspace[v])
          IN  /\ Unseated(s, r) /\ r.above = s.above /\ r.minimized = s.minimized
              /\ r.workspace[v] = r.current
      BY <2>1, SwitchUnseated
    <3> QED BY <3>1, <3>2
  <2>3. Unseated(t, u) /\ SamePlaces(t, u)
    <3>1. next \in Views \cup {None} OBVIOUS
    <3> HIDE DEF t, next
    <3> QED BY <2>2, <3>1 DEF Unseated, Server, SamePlaces
  <2> HIDE DEF t
  <2>4. u \in Server /\ u.minimized = s.minimized /\ At(u) /\ Follows(s, u)
    <3>1. Follows(s, t) /\ Follows(t, u) BY <2>2, <2>3, SameAboveFollows DEF SamePlaces
    <3> QED BY <2>2, <2>3, <3>1, FollowsTwice DEF Unseated, SamePlaces
  <2>5. u.input_mode = s.input_mode BY <2>2, <2>3 DEF Unseated
  <2> HIDE DEF u
  <2>6. Follows(u, w) /\ w.input_mode = u.input_mode /\ w.minimized = u.minimized /\ At(w)
    BY <2>4, FollowsItself, RestackFollows, MoveToFrontPlaces DEF Unseated
  <2>7. w \in Server /\ Follows(s, w) BY <2>4, <2>6, FollowsTwice DEF Follows
  <2> HIDE DEF w
  <2>8. f \in (SubViews(w, Root(w, v)) \cap Modal) \cup {v} BY DEF FocusTarget
  <2>9. v \in w.mapped BY <1>2, <2>7 DEF Follows
  <2>10. /\ f \in Views /\ f \in Family(w, v) \cup {v}
         /\ f \in {v} \cup (w.mapped \cap Modal)
    BY <2>7, <2>8 DEF Family, SubViews, Server
  <2> HIDE DEF f
  <2>11. /\ Follows(w, x) /\ SameButKeyboard(w, x) /\ x.input_mode = w.input_mode
         /\ w.input_mode = "passthrough" /\ ~w.locked /\ ~HasExclusiveLayer(w)
              => x.focused_surface = f
    BY <2>7, <2>10, SeatFocusFollows
  <2> HIDE DEF x
  <2>12. x \in Server BY <2>11 DEF Follows
  <2>13. Unseated(x, y) /\ SamePlaces(x, y) /\ Follows(x, y)
    BY <2>12, ResetUnseated, SameAboveFollows DEF SamePlaces
  <2> HIDE DEF y
  <2>14. Follows(s, y) BY <2>7, <2>11, <2>13, FollowsTwice
  <2>15. y.input_mode = s.input_mode BY <2>5, <2>6, <2>11, <2>13 DEF Unseated
  <2>16. ASSUME Free(s), v \in Visible(s)
         PROVE Reached(y, v) /\ y.focused_surface \in {v} \cup (y.mapped \cap Modal)
    <3>1. w.input_mode = "passthrough" /\ ~w.locked /\ ~HasExclusiveLayer(w)
      BY <2>5, <2>6, <2>7, <2>16 DEF Free, Follows, HasExclusiveLayer
    <3>2. y.focused_surface = f BY <2>11, <2>13, <3>1 DEF Unseated
    <3>3. SameHierarchy(w, y) BY <2>11, <2>13 DEF Unseated, SameButKeyboard, SameHierarchy
    <3>4. Family(y, v) = Family(w, v) BY <3>3, SameFamilies
    <3>5. At(y) BY <2>6, <2>11, <2>13 DEF SameButKeyboard, SamePlaces
    <3>6. y.minimized = s.minimized
      BY <2>4, <2>6, <2>11, <2>13 DEF SameButKeyboard, SamePlaces
    <3>7. v \in y.mapped /\ y.mapped = w.mapped BY <2>9, <3>3 DEF SameHierarchy
    <3> QED BY <2>10, <2>16, <3>2, <3>4, <3>5, <3>6, <3>7 DEF Reached, Visible
  <2>17. FocusNow(s, v, raise, delay) = y BY <1>2 DEF FocusNow, t, u, w, f, x, y
  <2> QED BY <2>14, <2>15, <2>16, <2>17
<1> QED BY <1>1, <1>2

\* desktop_focus_topmost_view()
LEMMA FocusTopmostFollows ==
  ASSUME NEW s \in Server
  PROVE Follows(s, FocusTopmost(s)) /\ FocusTopmost(s).input_mode = s.input_mode
<1> DEFINE C == OnCurrentWorkspace(s) \ s.minimized
           v == CHOOSE v \in C : IsTop(s, v, C)
<1>1. C \subseteq Views BY DEF OnCurrentWorkspace, Server
<1>2. LET t == SeatFocusSurface(s, None) IN Follows(s, t) /\ t.input_mode = s.input_mode
  BY SeatFocusFollows
<1>3. (\E w \in C : IsTop(s, w, C)) => v \in Views BY <1>1
<1>4. FocusTopmost(s) = IF \E w \in C : IsTop(s, w, C) THEN FocusNow(s, v, TRUE, FALSE)
                        ELSE SeatFocusSurface(s, None)
  BY DEF FocusTopmost
<1> HIDE DEF C, v
<1>5. ASSUME NEW x \in Views
      PROVE LET t == FocusNow(s, x, TRUE, FALSE)
            IN  Follows(s, t) /\ t.input_mode = s.input_mode
  <2>1. \A raise, delay : LET t == FocusNow(s, x, raise, delay)
                         IN  Follows(s, t) /\ t.input_mode = s.input_mode
    BY FocusNowFollows
  <2> QED BY <2>1
<1> QED BY <1>2, <1>3, <1>4, <1>5

\* interactive_cancel()
LEMMA InteractiveCancelFollows ==
  ASSUME NEW s \in Server, NEW v PROVE Follows(s, InteractiveCancel(s, v))
<1> DEFINE t == [s EXCEPT !.grabbed_view = None]
<1>1. Unseated(s, t) /\ t.above = s.above BY DEF Server, Unseated
<1>2. \/ InteractiveCancel(s, v) \in {s, t}
      \/ InteractiveCancel(s, v) = FocusOverrideEnd(t, TRUE) /\ s.input_mode # "cycle"
  BY DEF InteractiveCancel
<1> HIDE DEF t
<1>3. Follows(s, t) BY <1>1, SameAboveFollows
<1>4. s.input_mode # "cycle" => Follows(t, FocusOverrideEnd(t, TRUE))
  BY <1>1, OverrideEndFollows DEF Unseated
<1>5. s.input_mode # "cycle" => Follows(s, FocusOverrideEnd(t, TRUE))
  BY <1>3, <1>4, FollowsTwice
<1> QED BY <1>2, <1>3, <1>5, FollowsItself

\* view_minimize(); a view that is not minimized any more gets the focus.
LEMMA ViewMinimizeFollows ==
  ASSUME NEW s \in Server, NEW v \in Views, NEW minimized \in BOOLEAN
  PROVE LET t == ViewMinimize(s, v, minimized)
        IN  /\ Follows(s, t)
            /\ Free(s) /\ v \in s.mapped \cap s.minimized /\ v \in Family(s, v) /\ ~minimized
               => Reached(t, v)
<1> DEFINE family == Family(s, v)
           changed == { w \in family : (w \in s.minimized) # minimized }
           M == IF minimized THEN s.minimized \cup family ELSE s.minimized \ family
           t == [s EXCEPT !.minimized = M]
           u == IF minimized /\ s.grabbed_view \in changed \cap s.mapped
                THEN InteractiveCancel(t, s.grabbed_view)
                ELSE t
           r == ViewMinimize(s, v, minimized)
<1>1. family \subseteq Views BY FamilyType
<1>2. M \in SUBSET Views
  <2> HIDE DEF family
  <2> QED BY <1>1 DEF Server
<1>3. Unseated(s, t) /\ t.minimized = M /\ t.above = s.above
  <2> HIDE DEF M
  <2> QED BY <1>2 DEF Server, Unseated
<1>4. ~minimized => u = t OBVIOUS
<1>5. Follows(s, u)
  <2> HIDE DEF t
  <2>1. Follows(s, t) BY <1>3, SameAboveFollows
  <2>2. Follows(t, InteractiveCancel(t, s.grabbed_view))
    BY <2>1, InteractiveCancelFollows DEF Follows
  <2> QED BY <2>1, <2>2, FollowsTwice
<1>6. LET x == FocusNow(u, v, TRUE, FALSE)
      IN  Follows(u, x) /\ (Free(u) /\ v \in Visible(u) => Reached(x, v))
  <2> HIDE DEF u
  <2>1. u \in Server BY <1>5 DEF Follows
  <2> QED BY <2>1, FocusNowFollows
<1>7. Follows(u, FocusTopmost(u))
  <2> HIDE DEF u
  <2> QED BY <1>5, FocusTopmostFollows DEF Follows
<1>8. r \in {s, u, FocusTopmost(u), FocusNow(u, v, TRUE, FALSE)}
  <2>1. CASE s.input_mode = "cycle" BY <2>1 DEF ViewMinimize
  <2>2. CASE s.input_mode # "cycle" /\ minimized
    BY <2>2 DEF ViewMinimize
  <2>3. CASE s.input_mode # "cycle" /\ ~minimized
    BY <2>3 DEF ViewMinimize
  <2> QED BY <2>1, <2>2, <2>3
<1>9. Follows(s, r)
  <2> HIDE DEF u, r
  <2>1. Follows(s, FocusTopmost(u)) BY <1>5, <1>7, FollowsTwice
  <2>2. Follows(s, FocusNow(u, v, TRUE, FALSE)) BY <1>5, <1>6, FollowsTwice
  <2> QED BY <1>5, <1>8, <2>1, <2>2, FollowsItself
<1>10. ASSUME Free(s), v \in s.mapped \cap s.minimized, v \in Family(s, v), ~minimized
       PROVE Reached(r, v)
  <2>1. v \in changed /\ v \notin M BY <1>10
  <2>2. ViewMinimize(s, v, minimized)
          = IF changed \cap s.mapped # {} /\ v \notin u.minimized
            THEN FocusNow(u, v, TRUE, FALSE) ELSE u
    BY <1>10 DEF ViewMinimize, Free
  <2>3. v \notin u.minimized /\ Free(u) /\ v \in u.mapped
    <3> HIDE DEF u, t, M
    <3> QED BY <1>3, <1>4, <1>10, <2>1 DEF Free, Unseated, HasExclusiveLayer
  <2>4. r = FocusNow(u, v, TRUE, FALSE)
    <3> HIDE DEF changed, u
    <3> QED BY <1>10, <2>1, <2>2, <2>3
  <2> HIDE DEF u, r
  <2> QED BY <1>6, <2>3, <2>4 DEF Visible
<1> HIDE DEF r
<1> QED BY <1>9, <1>10 DEF r

\* desktop_focus_view()
LEMMA FocusViewFollows ==
  ASSUME NEW s \in Server, NEW v \in Views, NEW raise, NEW delay
  PROVE LET t == FocusView(s, v, raise, delay)
        IN  Follows(s, t)
            /\ (Free(s) /\ v \in s.mapped /\ v \in Family(s, v) => Reached(t, v))
<1>1. LET t == FocusNow(s, v, raise, delay)
      IN  Follows(s, t) /\ (Free(s) /\ v \in Visible(s) => Reached(t, v))
  BY FocusNowFollows
<1>2. LET t == ViewMinimize(s, v, FALSE)
      IN  /\ Follows(s, t)
          /\ Free(s) /\ v \in s.mapped \cap s.minimized /\ v \in Family(s, v) => Reached(t, v)
  BY ViewMinimizeFollows
<1>3. FocusView(s, v, raise, delay) = IF v \in s.minimized THEN ViewMinimize(s, v, FALSE)
                                      ELSE FocusNow(s, v, raise, delay)
  BY DEF FocusView
<1> QED BY <1>1, <1>2, <1>3 DEF Visible

\* workspaces_switch_to() with a refocus
LEMMA SwitchToWorkspaceFollows ==
  ASSUME NEW s \in Server, NEW w \in Workspaces
  PROVE Follows(s, SwitchToWorkspace(s, w))
<1> DEFINE t == SwitchWorkspace(s, w)
           u == IF t.active_view \in t.omnipresent THEN t ELSE FocusTopmost(t)
           x == ShowDesktopReset(u)
<1>1. Follows(s, t) BY SwitchUnseated, SameAboveFollows
<1> HIDE DEF t
<1>2. Follows(s, u)
  <2>1. Follows(t, FocusTopmost(t)) BY <1>1, FocusTopmostFollows DEF Follows
  <2> QED BY <1>1, <2>1, FollowsTwice
<1> HIDE DEF u
<1>3. Follows(u, x) BY <1>2, ResetUnseated, SameAboveFollows DEF Follows, SamePlaces
<1> HIDE DEF x
<1>4. SwitchToWorkspace(s, w) = IF w = s.current THEN s ELSE x
  BY DEF SwitchToWorkspace, t, u, x
<1> QED BY <1>2, <1>3, <1>4, FollowsTwice, FollowsItself

----------------------------------------------------------------------------
(* What the handlers of the desktop leave alone *)

\* What is kept of Follows when views come, are mapped and unmapped.
Keeps(s, t) ==
    /\ t \in Server
    /\ s.views \subseteq t.views
    /\ t.locked = s.locked /\ t.focused_layer = s.focused_layer
    /\ t.interactivity = s.interactivity
    /\ t.input_mode = "cycle" <=> s.input_mode = "cycle"
    /\ HasExclusiveLayer(s) => t.focused_surface = s.focused_surface
    /\ Ordered(s) => Ordered(t)

\* Functions called one after the other
LEMMA KeepsThenFollows ==
  ASSUME NEW s, NEW t, NEW u, Keeps(s, t), Follows(t, u) PROVE Keeps(s, u)
BY DEF Keeps, Follows, HasExclusiveLayer

\* A handler that is one function
LEMMA FollowsKeeps ==
  ASSUME NEW s, NEW t, Follows(s, t) PROVE Keeps(s, t)
BY DEF Keeps, Follows

\* The seat is left alone.
LEMMA SeatKept ==
  ASSUME NEW s, NEW t \in Server, s.views \subseteq t.views,
         t.locked = s.locked, t.focused_layer = s.focused_layer,
         t.interactivity = s.interactivity, t.input_mode = s.input_mode,
         t.focused_surface = s.focused_surface, Ordered(s) => Ordered(t)
  PROVE Keeps(s, t)
BY DEF Keeps

\* handle_new_xdg_toplevel()
LEMMA NewToplevelKeeps ==
  ASSUME server \in Server, NEW v \in Views, NewToplevel(v) PROVE Keeps(server, server')
<1> DEFINE W == [server.workspace EXCEPT ![v] = server.current]
           A == server.above \cup {v} \X server.views
           V == server.views \cup {v}
<1>1. /\ W \in [Views -> Workspaces] /\ A \in SUBSET (Views \X Views)
      /\ V \in SUBSET Views /\ server.views \subseteq V
  BY DEF Server
<1>2. server' = [server EXCEPT !.views = V, !.above = A, !.workspace = W]
  BY DEF NewToplevel, Server
<1>3. Ordered(server) => IsFiniteSet(V) /\ A \subseteq V \X V /\ StrictOrder(A, V)
  <2> HAVE Ordered(server)
  <2>1. v \notin server.views BY DEF NewToplevel
  <2>2. \A u, w : <<u, w>> \in A <=> <<u, w>> \in server.above \/ (u = v /\ w \in server.views)
    OBVIOUS
  <2>3. \A u, w : <<u, w>> \in server.above
           => u # v /\ w # v /\ u \in server.views /\ w \in server.views
    BY <2>1 DEF Ordered
  <2> HIDE DEF A
  <2>4. StrictOrder(server.above, server.views) BY DEF Ordered
  <2>5. \A u \in V : <<u, u>> \notin A BY <2>1, <2>2, <2>3, <2>4 DEF StrictOrder
  <2>6. \A u, w \in V : u # w => (<<u, w>> \in A <=> <<w, u>> \notin A)
    BY <2>1, <2>2, <2>3, <2>4 DEF StrictOrder
  <2>7. \A u, w, x \in V : <<u, w>> \in A /\ <<w, x>> \in A => <<u, x>> \in A
    BY <2>1, <2>2, <2>3, <2>4 DEF StrictOrder
  <2>8. IsFiniteSet(V) BY FS_AddElement DEF Ordered
  <2>9. A \subseteq V \X V BY DEF Ordered, A
  <2> QED BY <2>5, <2>6, <2>7, <2>8, <2>9 DEF StrictOrder
<1> HIDE DEF W, A, V
<1>4. /\ server' \in Server
      /\ server'.views = V /\ server'.above = A /\ server'.mapped = server.mapped
      /\ server'.locked = server.locked /\ server'.focused_layer = server.focused_layer
      /\ server'.interactivity = server.interactivity
      /\ server'.focused_surface = server.focused_surface
      /\ server'.input_mode = server.input_mode
  BY <1>1, <1>2, ZenonT(60) DEF Server
<1>5. Ordered(server) => Ordered(server') BY <1>1, <1>3, <1>4 DEF Ordered
<1> QED BY <1>1, <1>4, <1>5, SeatKept

\* Record updates of one field that neither the keyboard nor the list depends on
LEMMA FieldKept ==
  ASSUME NEW s \in Server
  PROVE /\ \A P \in [Views -> Views \cup {None}] : Keeps(s, [s EXCEPT !.parent = P])
        /\ \A W \in [Views -> Workspaces] : Keeps(s, [s EXCEPT !.workspace = W])
        /\ \A O \in SUBSET Views : Keeps(s, [s EXCEPT !.omnipresent = O])
        /\ \A M \in SUBSET s.views : Keeps(s, [s EXCEPT !.mapped = M])
        /\ \A v \in Views \cup {None} : Keeps(s, [s EXCEPT !.grabbed_view = v])
        /\ \A v \in Views \cup {None} : Keeps(s, [s EXCEPT !.auto_raise = v])
<1>1. s.views \subseteq Views BY DEF Server
<1>2. \A P \in [Views -> Views \cup {None}] : Keeps(s, [s EXCEPT !.parent = P])
  BY <1>1, SeatKept DEF Server, Ordered
<1>3. \A W \in [Views -> Workspaces] : Keeps(s, [s EXCEPT !.workspace = W])
  BY <1>1, SeatKept DEF Server, Ordered
<1>4. \A O \in SUBSET Views : Keeps(s, [s EXCEPT !.omnipresent = O])
  BY <1>1, SeatKept DEF Server, Ordered
<1>5. \A M \in SUBSET s.views : Keeps(s, [s EXCEPT !.mapped = M])
  BY <1>1, SeatKept DEF Server, Ordered
<1>6. \A v \in Views \cup {None} : Keeps(s, [s EXCEPT !.grabbed_view = v])
  BY <1>1, SeatKept DEF Server, Ordered
<1>7. \A v \in Views \cup {None} : Keeps(s, [s EXCEPT !.auto_raise = v])
  BY <1>1, SeatKept DEF Server, Ordered
<1> QED BY <1>2, <1>3, <1>4, <1>5, <1>6, <1>7

\* handle_set_parent()
LEMMA SetParentKeeps ==
  ASSUME server \in Server, NEW v \in Views, NEW p \in Views \cup {None}, SetParent(v, p)
  PROVE Keeps(server, server')
<1>1. [server.parent EXCEPT ![v] = p] \in [Views -> Views \cup {None}] BY DEF Server
<1>2. server' = [server EXCEPT !.parent = [server.parent EXCEPT ![v] = p]]
  BY DEF SetParent, Server
<1> QED BY <1>1, <1>2, FieldKept

\* view_impl_map()
LEMMA MapKeeps ==
  ASSUME server \in Server, Ordered(server), NEW v \in Views, Map(v)
  PROVE Keeps(server, server')
<1> DEFINE s == [server EXCEPT !.mapped = server.mapped \cup {v}]
<1>1. server.mapped \cup {v} \in SUBSET server.views BY DEF Ordered, Map
<1>2. Keeps(server, s) BY <1>1, FieldKept
<1>3. server' \in {s, FocusView(s, v, TRUE, FALSE)} BY DEF Map
<1> HIDE DEF s
<1>4. s \in Server BY <1>2 DEF Keeps
<1>5. Follows(s, FocusView(s, v, TRUE, FALSE)) BY <1>4, FocusViewFollows
<1> QED BY <1>2, <1>3, <1>5, KeepsThenFollows

\* view_impl_unmap(), and the parents of the view and of its children
LEMMA UnmapKeeps ==
  ASSUME server \in Server, Ordered(server), NEW v \in Views, Unmap(v)
  PROVE Keeps(server, server')
<1> DEFINE s == [server EXCEPT !.mapped = server.mapped \ {v}]
           c == InteractiveCancel(s, v)
           u == IF v \in server.minimized THEN s ELSE c
           f == FocusTopmost(u)
           r == IF u.active_view \in {v, None} THEN f ELSE u
           P == [ w \in Views |-> IF w = v THEN None
                        ELSE IF r.parent[w] = v THEN r.parent[v] ELSE r.parent[w] ]
           t == [r EXCEPT !.parent = P]
<1>1. server.mapped \ {v} \in SUBSET server.views BY DEF Ordered
<1>2. Keeps(server, s) BY <1>1, FieldKept
<1>3. ImplUnmap(server, v) = r BY DEF ImplUnmap
<1> HIDE DEF s
<1>4. Follows(s, c) BY <1>2, InteractiveCancelFollows DEF Keeps
<1> HIDE DEF c
<1>5. Keeps(server, u) BY <1>2, <1>4, KeepsThenFollows
<1> HIDE DEF u
<1>6. Follows(u, f) BY <1>5, FocusTopmostFollows DEF Keeps
<1> HIDE DEF f
<1>7. Keeps(server, r) BY <1>5, <1>6, KeepsThenFollows
<1> HIDE DEF r
<1>8. r \in Server BY <1>7 DEF Keeps
<1>9. P \in [Views -> Views \cup {None}] BY <1>8 DEF Server
<1>10. server' = t BY <1>3 DEF Unmap
<1> HIDE DEF P
<1>11. Keeps(r, t) BY <1>8, <1>9, FieldKept
<1> HIDE DEF t
<1> QED BY <1>7, <1>10, <1>11 DEF Keeps, HasExclusiveLayer

\* SendToDesktop
LEMMA SendToDesktopKeeps ==
  ASSUME server \in Server, NEW v \in Views, NEW w \in Workspaces, NEW follow \in BOOLEAN,
         SendToDesktop(v, w, follow)
  PROVE Keeps(server, server')
<1> DEFINE W == [server.workspace EXCEPT ![v] = w]
           s == [server EXCEPT !.workspace = W]
<1>1. W \in [Views -> Workspaces] BY DEF Server
<1>2. Keeps(server, s)
  <2> HIDE DEF W
  <2> QED BY <1>1, FieldKept
<1>3. s = [server EXCEPT !.workspace[v] = w] BY DEF Server
<1>4. server' \in {s, SwitchToWorkspace(s, w), FocusTopmost(s)}
  <2> HIDE DEF s
  <2> QED BY <1>3 DEF SendToDesktop
<1> HIDE DEF s
<1>5. Follows(s, SwitchToWorkspace(s, w)) /\ Follows(s, FocusTopmost(s))
  BY <1>2, SwitchToWorkspaceFollows, FocusTopmostFollows DEF Keeps
<1> QED BY <1>2, <1>4, <1>5, KeepsThenFollows

\* handle_auto_raise_timer()
LEMMA AutoRaiseKeeps ==
  ASSUME server \in Server, AutoRaiseTimer PROVE Keeps(server, server')
<1> DEFINE s == [server EXCEPT !.auto_raise = None]
           v == server.auto_raise
<1>1. Keeps(server, s) BY FieldKept
<1>2. server' = IF v \in s.mapped THEN MoveToFront(s, v) ELSE s BY DEF AutoRaiseTimer
<1> HIDE DEF s, v
<1>3. Follows(s, MoveToFront(s, v)) BY <1>1, RestackFollows DEF Keeps
<1> QED BY <1>1, <1>2, <1>3, KeepsThenFollows

\* interactive_begin() and menu_open_root() take the keyboard from the windows only.
LEMMA ModeKeeps ==
  ASSUME server \in Server, server.input_mode = "passthrough",
         NEW mode \in InputModes \ {"cycle"}, server' = FocusOverrideBegin(server, mode)
  PROVE Keeps(server, server')
<1>1. /\ SameButKeyboard(server, server') /\ server'.input_mode = mode
      /\ HasExclusiveLayer(server) => server'.focused_surface = server.focused_surface
  BY OverrideBeginIs
<1>2. Follows(server, server') BY <1>1, KeyboardFollows
<1> QED BY <1>2, FollowsKeeps

\* What clients and actions do
LEMMA ViewStepKeeps ==
  ASSUME server \in Server, Ordered(server), NEW v \in Views, ClientStep(v) \/ ActionStep(v)
  PROVE Keeps(server, server')
<1>1. CASE NewToplevel(v) BY <1>1, NewToplevelKeeps
<1>2. CASE \E p \in Views \cup {None} : SetParent(v, p) BY <1>2, SetParentKeeps
<1>3. CASE Map(v) BY <1>3, MapKeeps
<1>4. CASE Unmap(v) BY <1>4, UnmapKeeps
<1>5. CASE \E b \in BOOLEAN : RequestMinimize(v, b)
  BY <1>5, ViewMinimizeFollows, FollowsKeeps DEF RequestMinimize
<1>6. CASE Activate(v) \/ FocusAction(v)
  BY <1>6, FocusViewFollows, FollowsKeeps DEF Activate, FocusAction
<1>7. CASE Raise(v) \/ Lower(v) BY <1>7, RestackFollows, FollowsKeeps DEF Raise, Lower
<1>8. CASE \E w \in Workspaces, follow \in BOOLEAN : SendToDesktop(v, w, follow)
  BY <1>8, SendToDesktopKeeps
<1>9. CASE ToggleOmnipresent(v)
  <2> DEFINE O == IF v \in server.omnipresent THEN server.omnipresent \ {v}
                                              ELSE server.omnipresent \cup {v}
  <2>1. O \in SUBSET Views BY DEF Server
  <2>2. server' = [server EXCEPT !.omnipresent = O] BY <1>9 DEF ToggleOmnipresent
  <2> HIDE DEF O
  <2> QED BY <2>1, <2>2, FieldKept
<1> QED BY <1>1, <1>2, <1>3, <1>4, <1>5, <1>6, <1>7, <1>8, <1>9 DEF ClientStep, ActionStep

\* Every handler of the desktop but the destruction of a view
LEMMA DesktopStepKeeps ==
  ASSUME server \in Server, Ordered(server), DesktopStep PROVE Keeps(server, server')
<1>1. CASE \E v \in Views : ClientStep(v) \/ ActionStep(v) BY <1>1, ViewStepKeeps
<1>2. CASE \E v \in Views : CursorEnter(v)
  BY <1>2, FocusViewFollows, FollowsKeeps DEF CursorEnter
<1>3. CASE \E v \in Views : ButtonPress(v) BY <1>3, FieldKept DEF ButtonPress
<1>4. CASE \E v \in Views, mode \in {"move", "resize"} : InteractiveBegin(v, mode)
  BY <1>4, ModeKeeps DEF InteractiveBegin, InputModes
<1>5. CASE UnfocusAction BY <1>5, SeatFocusFollows, FollowsKeeps DEF UnfocusAction
<1>6. CASE AutoRaiseTimer BY <1>6, AutoRaiseKeeps
<1>7. CASE \E w \in Workspaces : GoToDesktop(w)
  BY <1>7, SwitchToWorkspaceFollows, FollowsKeeps DEF GoToDesktop
<1>8. CASE ButtonRelease BY <1>8, InteractiveCancelFollows, FollowsKeeps DEF ButtonRelease
<1>9. CASE OpenMenu BY <1>9, ModeKeeps DEF OpenMenu, InputModes
<1>10. CASE CloseMenu
  BY <1>10, OverrideEndFollows, FollowsKeeps DEF CloseMenu
<1> QED BY <1>1, <1>2, <1>3, <1>4, <1>5, <1>6, <1>7, <1>8, <1>9, <1>10
    DEF DesktopStep, CursorStep, SessionStep

----------------------------------------------------------------------------
(* The destruction of a view *)

\* A surface is destroyed.
LEMMA SurfaceDestroyedIs ==
  ASSUME NEW s \in Server, NEW x
  PROVE LET t == SurfaceDestroyed(s, x)
        IN  /\ SameButKeyboard(s, t) /\ t.input_mode = s.input_mode
            /\ t.focused_surface = IF s.focused_surface = x THEN None ELSE s.focused_surface
<1> DEFINE k == IF s.focused_surface = x THEN KeyboardEnter(s, None) ELSE s
           u == [k EXCEPT !.override = None]
<1>1. /\ SameButKeyboard(s, k) /\ k.input_mode = s.input_mode
      /\ k.focused_surface = IF s.focused_surface = x THEN None ELSE s.focused_surface
  <2>1. SameButKeyboard(s, s) BY DEF SameButKeyboard
  <2> QED BY <2>1, KeyboardEnterIs
<1>2. SurfaceDestroyed(s, x) = IF k.override = x THEN u ELSE k
  BY DEF SurfaceDestroyed
<1> HIDE DEF k
<1>3. SameButKeyboard(k, u) /\ u.input_mode = k.input_mode /\ u.focused_surface = k.focused_surface
  BY <1>1 DEF SameButKeyboard, Server
<1> HIDE DEF u
<1> QED BY <1>1, <1>2, <1>3 DEF SameButKeyboard

\* view_destroy(), before the view leaves the list
LEMMA ForgetFollows ==
  ASSUME NEW s \in Server, NEW v \in Views PROVE Follows(s, Forget(s, v))
<1> DEFINE c == InteractiveCancel(s, v)
           A == IF c.active_view = v THEN None ELSE c.active_view
           R == IF c.auto_raise = v THEN None ELSE c.auto_raise
           L == IF c.last_active = v THEN None ELSE c.last_active
           t == [c EXCEPT !.active_view = A, !.auto_raise = R, !.last_active = L]
<1>1. Follows(s, c) BY InteractiveCancelFollows
<1>2. Forget(s, v) = t BY DEF Forget
<1> HIDE DEF c
<1>3. c \in Server BY <1>1 DEF Follows
<1>4. {A, R, L} \subseteq Views \cup {None} BY <1>3 DEF Server
<1> HIDE DEF A, R, L
<1>5. Unseated(c, t) /\ t.above = c.above BY <1>3, <1>4, ZenonT(60) DEF Server, Unseated
<1> HIDE DEF t
<1>6. Follows(c, t) BY <1>5, SameAboveFollows
<1> QED BY <1>1, <1>2, <1>6, FollowsTwice

\* What the destruction of a view keeps: Keeps, but for the view itself.
Leaves(s, t, v) ==
    /\ t \in Server
    /\ t.views = s.views \ {v}
    /\ t.locked = s.locked /\ t.focused_layer = s.focused_layer
    /\ t.interactivity = s.interactivity
    /\ HasExclusiveLayer(s) /\ s.focused_surface # v => t.focused_surface = s.focused_surface
    /\ Ordered(s) /\ v \notin s.mapped => Ordered(t)

\* The view leaves server.views, and its surface goes.
LEMMA RemoveViewLeaves ==
  ASSUME NEW s \in Server, NEW v \in Views
  PROVE Leaves(s, RemoveView(s, v), v) /\ RemoveView(s, v).input_mode = s.input_mode
<1> DEFINE V == s.views \ {v}
           A == { p \in s.above : v \notin {p[1], p[2]} }
           P == [s.parent EXCEPT ![v] = None]
           M == s.minimized \ {v}
           W == [s.workspace EXCEPT ![v] = FirstWorkspace]
           O == s.omnipresent \ {v}
           H == s.hidden \ {v}
           x == [s EXCEPT !.views = V, !.above = A, !.parent = P, !.minimized = M,
                          !.workspace = W, !.omnipresent = O, !.hidden = H]
           t == SurfaceDestroyed(x, v)
<1>1. /\ V \in SUBSET Views /\ A \in SUBSET (Views \X Views)
      /\ P \in [Views -> Views \cup {None}] /\ M \in SUBSET Views
      /\ W \in [Views -> Workspaces] /\ O \in SUBSET Views /\ H \in SUBSET Views
  BY DesktopAssumption DEF Server
<1>2. RemoveView(s, v) = t BY ZenonT(60) DEF RemoveView, Server
<1>3. Ordered(s) /\ v \notin s.mapped
        => IsFiniteSet(V) /\ A \subseteq V \X V /\ s.mapped \subseteq V /\ StrictOrder(A, V)
  <2> HAVE Ordered(s) /\ v \notin s.mapped
  <2>1. IsFiniteSet(V) BY FS_Subset DEF Ordered
  <2>2. A \subseteq V \X V /\ s.mapped \subseteq V BY DEF Ordered
  <2>3. \A u, w \in V : <<u, w>> \in A <=> <<u, w>> \in s.above OBVIOUS
  <2> HIDE DEF A
  <2>4. StrictOrder(A, V) BY <2>3 DEF StrictOrder, Ordered
  <2> QED BY <2>1, <2>2, <2>4
<1> HIDE DEF V, A, P, M, W, O, H
<1>4. /\ x \in Server /\ x.views = V /\ x.above = A /\ x.mapped = s.mapped
      /\ x.locked = s.locked /\ x.focused_layer = s.focused_layer
      /\ x.interactivity = s.interactivity
      /\ x.focused_surface = s.focused_surface /\ x.input_mode = s.input_mode
  BY <1>1, ZenonT(60) DEF Server
<1> HIDE DEF x
<1>5. /\ SameButKeyboard(x, t) /\ t.input_mode = x.input_mode
      /\ t.focused_surface = IF x.focused_surface = v THEN None ELSE x.focused_surface
  BY <1>4, SurfaceDestroyedIs
<1> HIDE DEF t
<1>6. Ordered(s) /\ v \notin s.mapped => Ordered(t)
  BY <1>3, <1>4, <1>5 DEF Ordered, SameButKeyboard
<1>7. t.views = s.views \ {v} BY <1>4, <1>5 DEF SameButKeyboard, V
<1>8. Leaves(s, t, v) BY <1>4, <1>5, <1>6, <1>7 DEF Leaves, SameButKeyboard
<1> QED BY <1>2, <1>4, <1>5, <1>8

\* handle_destroy(), while the switcher is not open
LEMMA DestroyLeaves ==
  ASSUME server \in Server, NEW v \in Views, Destroy(v)
  PROVE /\ Leaves(server, server', v)
        /\ server.input_mode # "cycle" => server'.input_mode # "cycle"
<1> DEFINE s == Forget(server, v)
           e == FocusOverrideEnd(s, TRUE)
<1>1. PICK ownMenu \in {FALSE, server.input_mode = "menu"} :
        server' = RemoveView(IF ownMenu THEN e ELSE s, v)
  BY DEF Destroy
<1> DEFINE t == IF ownMenu THEN e ELSE s
<1>2. Follows(server, s) BY ForgetFollows
<1> HIDE DEF s
<1>3. s \in Server BY <1>2 DEF Follows
<1>4. e.input_mode = "passthrough" /\ (s.input_mode # "cycle" => Follows(s, e))
  BY <1>3, OverrideEndFollows
<1> HIDE DEF e
<1>5. ownMenu => server.input_mode = "menu" OBVIOUS
<1>6. Follows(server, t) BY <1>2, <1>4, <1>5, FollowsTwice DEF Follows
<1>7. server' = RemoveView(t, v) BY <1>1
<1> HIDE DEF t
<1>8. t \in Server BY <1>6 DEF Follows
<1>9. Leaves(t, server', v) /\ server'.input_mode = t.input_mode
  BY <1>7, <1>8, RemoveViewLeaves
<1> QED BY <1>6, <1>9 DEF Follows, Leaves, HasExclusiveLayer
----------------------------------------------------------------------------
(* The list and the preview of the switcher *)

\* The first of some members of a list is one of them.
LEMMA FirstIsOne ==
  ASSUME NEW S, IsFiniteSet(S), NEW R, StrictOrder(R, S), NEW T, T \subseteq S, T # {}
  PROVE FirstOf(R, T) \in T
<1>1. \E v \in T : \A w \in T \ {v} : <<v, w>> \in R BY OneIsFirst
<1> QED BY <1>1, Zenon DEF FirstOf

\* The reversed list
Flipped(R) == { <<p[2], p[1]>> : p \in R }

LEMMA FlippedIsStrict ==
  ASSUME NEW S, NEW R, R \subseteq Views \X Views, StrictOrder(R, S)
  PROVE StrictOrder(Flipped(R), S)
<1>1. \A u, v : <<u, v>> \in Flipped(R) <=> <<v, u>> \in R
  <2> TAKE u, v
  <2>1. ASSUME <<v, u>> \in R PROVE <<u, v>> \in Flipped(R) BY <2>1 DEF Flipped
  <2>2. ASSUME <<u, v>> \in Flipped(R) PROVE <<v, u>> \in R
    <3>1. PICK p \in R : <<u, v>> = <<p[2], p[1]>> BY <2>2 DEF Flipped
    <3>2. p \in Views \X Views BY <3>1
    <3>3. p = <<v, u>> BY <3>1, <3>2
    <3> QED BY <3>1, <3>3
  <2> QED BY <2>1, <2>2
<1>2. \A u \in S : <<u, u>> \notin Flipped(R) BY <1>1 DEF StrictOrder
<1>3. \A u, v \in S : u # v => (<<u, v>> \in Flipped(R) <=> <<v, u>> \notin Flipped(R))
  BY <1>1 DEF StrictOrder
<1>4. \A u, v, w \in S : <<u, v>> \in Flipped(R) /\ <<v, w>> \in Flipped(R)
                          => <<u, w>> \in Flipped(R)
  BY <1>1 DEF StrictOrder
<1> QED BY <1>2, <1>3, <1>4 DEF StrictOrder

\* get_next_selected_view(), in either direction, finds a member of the list.
LEMMA NextIsOne ==
  ASSUME NEW c, IsFiniteSet(c.views), c.views # {}, c.above \subseteq Views \X Views,
         StrictOrder(c.above, c.views), NEW forward
  PROVE NextOf(c, forward) \in c.views
<1> DEFINE below == { w \in c.views : <<c.selected, w>> \in c.above }
           higher == { w \in c.views : <<w, c.selected>> \in c.above }
           B == IF below # {} THEN below ELSE c.views
           H == IF higher # {} THEN higher ELSE c.views
<1>1. B \subseteq c.views /\ B # {} /\ H \subseteq c.views /\ H # {} OBVIOUS
<1>2. NextOf(c, forward) = IF forward THEN FirstOf(c.above, B) ELSE FirstOf(Flipped(c.above), H)
  BY DEF NextOf, Flipped
<1> HIDE DEF B, H
<1>3. FirstOf(c.above, B) \in B BY <1>1, FirstIsOne
<1>4. FirstOf(Flipped(c.above), H) \in H BY <1>1, FirstIsOne, FlippedIsStrict
<1> QED BY <1>1, <1>2, <1>3, <1>4

\* The views that the switcher lists are mapped.
LEMMA MatchingMapped ==
  ASSUME NEW s, Ordered(s), NEW current
  PROVE /\ Matching(s, current) \subseteq s.mapped
        /\ Matching(s, current) \subseteq s.views
        /\ IsFiniteSet(Matching(s, current))
<1>1. Matching(s, current) \subseteq s.mapped BY DEF Matching, OnCurrentWorkspace
<1> QED BY <1>1, FS_Subset DEF Ordered

\* A part of a list
LEMMA StrictPart ==
  ASSUME NEW S, NEW R, StrictOrder(R, S), NEW T, T \subseteq S PROVE StrictOrder(R, T)
BY DEF StrictOrder

\* At most the previewed view is in the preview tree, and it can be put back.
Restorable(c, n) ==
    /\ c \in Cycle /\ n \in Scene
    /\ c.preview # None => c.dummy \in Workspaces
    /\ \A v \in Views : n.tree[v] = PreviewTree => v = c.preview

\* restore_preview_node() empties the preview tree.
LEMMA RestoreEmpties ==
  ASSUME NEW c, NEW n, Restorable(c, n)
  PROVE LET m == RestorePreview(c, n)
        IN  m \in Scene /\ \A v \in Views : m.tree[v] \in Workspaces
<1>1. c \in Cycle /\ n \in Scene BY DEF Restorable
<1>2. CASE c.preview = None
  <2>1. \A v \in Views : n.tree[v] # PreviewTree BY <1>2, SeatAssumption DEF Restorable
  <2> QED BY <1>1, <1>2, <2>1 DEF RestorePreview, Scene
<1>3. CASE c.preview # None
  <2> DEFINE T == [n.tree EXCEPT ![c.preview] = c.dummy]
             E == IF c.enabled THEN n.enabled ELSE n.enabled \ {c.preview}
  <2>1. RestorePreview(c, n) = [tree |-> T, enabled |-> E] BY <1>3 DEF RestorePreview
  <2>2. \A v \in Views : T[v] \in Workspaces
    <3>1. \A v \in Views : v # c.preview => n.tree[v] \in Workspaces
      BY <1>1 DEF Restorable, Scene
    <3>2. n.tree \in [Views -> Workspaces \cup {PreviewTree}] BY <1>1 DEF Scene
    <3> QED BY <1>3, <3>1, <3>2 DEF Restorable
  <2>3. T \in [Views -> Workspaces \cup {PreviewTree}] BY <1>1, <2>2 DEF Scene
  <2>4. E \in SUBSET Views BY <1>1 DEF Scene
  <2> HIDE DEF T, E
  <2> QED BY <2>1, <2>2, <2>3, <2>4 DEF Scene
<1> QED BY <1>2, <1>3

\* preview_selected_view() puts the selected view there.
LEMMA PreviewIs ==
  ASSUME NEW c, NEW n, Restorable(c, n), c.selected \in Views
  PROVE LET d == Previewing(c, n)
            m == PreviewScene(c, n)
        IN  /\ Restorable(d, m) /\ d.preview = c.selected /\ d.dummy \in Workspaces
            /\ d.views = c.views /\ d.above = c.above /\ d.selected = c.selected
<1> DEFINE r == RestorePreview(c, n)
           D == r.tree[c.selected]
           B == c.selected \in r.enabled
           d == [c EXCEPT !.preview = c.selected, !.dummy = D, !.enabled = B]
           T == [r.tree EXCEPT ![c.selected] = PreviewTree]
           E == r.enabled \cup {c.selected}
           m == [tree |-> T, enabled |-> E]
<1>1. Previewing(c, n) = d /\ PreviewScene(c, n) = m BY DEF Previewing, PreviewScene
<1>2. r \in Scene /\ \A v \in Views : r.tree[v] \in Workspaces BY RestoreEmpties
<1> HIDE DEF r
<1>3. D \in Workspaces /\ B \in BOOLEAN BY <1>2
<1>4. /\ T \in [Views -> Workspaces \cup {PreviewTree}] /\ E \in SUBSET Views
  BY <1>2 DEF Scene
<1>5. \A v \in Views : T[v] = PreviewTree => v = c.selected
  BY <1>2, WindowCycleAssumption DEF Scene
<1> HIDE DEF D, B, T, E
<1>6. c \in Cycle BY DEF Restorable
<1>7. /\ d \in Cycle /\ d.preview = c.selected /\ d.dummy = D
      /\ d.views = c.views /\ d.above = c.above /\ d.selected = c.selected
  BY <1>3, <1>6 DEF Cycle
<1>8. m \in Scene /\ m.tree = T BY <1>4 DEF Scene
<1> HIDE DEF d, m
<1> QED BY <1>1, <1>3, <1>5, <1>7, <1>8 DEF Restorable

\* The functions of the desktop put no view there.
LEMMA FollowSceneIs ==
  ASSUME NEW s, NEW t \in Server, NEW n \in Scene
  PROVE LET m == FollowScene(s, t, n)
        IN  /\ m \in Scene
            /\ \A v \in Views : m.tree[v] = PreviewTree => n.tree[v] = PreviewTree
<1> DEFINE T == [ v \in Views |->
                   IF v \notin s.views \cap t.views \/ s.workspace[v] # t.workspace[v]
                   THEN t.workspace[v] ELSE n.tree[v] ]
           E == { v \in t.views :
                   IF v \in s.mapped <=> v \in t.mapped
                      /\ (v \in s.minimized <=> v \in t.minimized)
                   THEN v \in n.enabled ELSE v \in Visible(t) }
<1>1. \A v \in Views : t.workspace[v] \in Workspaces BY DEF Server
<1>2. T \in [Views -> Workspaces \cup {PreviewTree}] BY <1>1 DEF Scene
<1>3. E \in SUBSET Views BY DEF Server
<1>4. \A v \in Views : T[v] = PreviewTree => n.tree[v] = PreviewTree
  BY <1>1, WindowCycleAssumption
<1>5. FollowScene(s, t, n) = [tree |-> T, enabled |-> E] BY DEF FollowScene
<1> HIDE DEF T, E
<1> QED BY <1>2, <1>3, <1>4, <1>5 DEF Scene
----------------------------------------------------------------------------
(* The inductive invariant of the switcher *)

\* The list that an open switcher keeps, and where it puts the selected view back
Listed(c, s) ==
    /\ c.views \subseteq s.views
    /\ c.selected \in c.views
    /\ c.preview = c.selected
    /\ c.dummy \in Workspaces
    /\ StrictOrder(c.above, c.views)

CycleInv ==
    /\ CycleTypeOK
    /\ Ordered(server)
    /\ ~server.locked /\ server.focused_layer = None
    /\ IF server.input_mode = "cycle" THEN Listed(cycle, server) ELSE cycle = Closed
    /\ \A v \in Views : scene.tree[v] = PreviewTree => v = cycle.selected

\* The switcher as the code initialises it
LEMMA ClosedType == Closed \in Cycle
BY DEF Closed, Cycle

\* Nothing is listed at startup.
LEMMA CycleInitInv == CycleInit => CycleInv
<1> HAVE CycleInit
<1>1. server \in Server BY InitCoherent DEF CycleInit, Coherent, Plain
<1>2. /\ server.views = {} /\ server.above = {} /\ server.mapped = {}
      /\ server.input_mode = "passthrough" /\ ~server.locked /\ server.focused_layer = None
  BY DEF CycleInit, Init
<1>3. Ordered(server) BY <1>2, FS_EmptySet DEF Ordered, StrictOrder
<1>4. scene \in Scene BY DesktopAssumption DEF CycleInit, Scene
<1>5. \A v \in Views : scene.tree[v] # PreviewTree
  BY DesktopAssumption, WindowCycleAssumption DEF CycleInit
<1>6. cycle = Closed /\ cycle \in Cycle BY ClosedType DEF CycleInit
<1> QED BY <1>1, <1>2, <1>3, <1>4, <1>5, <1>6 DEF CycleInv, CycleTypeOK

\* The preview can be undone at any time.
LEMMA CycleRestorable == CycleInv => Restorable(cycle, scene)
<1> HAVE CycleInv
<1>1. CASE server.input_mode = "cycle"
  BY <1>1 DEF CycleInv, CycleTypeOK, Restorable, Listed
<1>2. CASE server.input_mode # "cycle"
  <2>1. cycle = Closed /\ \A v \in Views : scene.tree[v] # PreviewTree
    BY <1>2, SeatAssumption DEF CycleInv, Closed
  <2> QED BY <2>1 DEF CycleInv, CycleTypeOK, Restorable, Closed
<1> QED BY <1>1, <1>2

\* A handler that neither opens nor closes the switcher
LEMMA OtherCycleInv ==
  ASSUME CycleInv, OtherStep PROVE CycleInv'
<1>1. /\ server \in Server /\ scene \in Scene /\ cycle \in Cycle /\ Ordered(server)
      /\ cycle' = cycle /\ scene' = FollowScene(server, server', scene)
  BY DEF CycleInv, CycleTypeOK, OtherStep
<1>2. /\ server' \in Server /\ Ordered(server')
      /\ ~server'.locked /\ server'.focused_layer = None
      /\ server'.input_mode = "cycle" <=> server.input_mode = "cycle"
      /\ server.input_mode = "cycle" => server.views \subseteq server'.views
  <2>1. CASE DesktopStep
    <3>1. Keeps(server, server') BY <1>1, <2>1, DesktopStepKeeps
    <3> QED BY <1>1, <3>1 DEF Keeps, CycleInv
  <2>2. CASE \E v \in Views : server.input_mode # "cycle" /\ Destroy(v)
    <3>1. PICK v \in Views : server.input_mode # "cycle" /\ Destroy(v) BY <2>2
    <3>2. Leaves(server, server', v) /\ server'.input_mode # "cycle"
      BY <1>1, <3>1, DestroyLeaves
    <3>3. v \notin server.mapped BY <3>1 DEF Destroy
    <3> QED BY <1>1, <3>1, <3>2, <3>3 DEF Leaves, CycleInv
  <2> QED BY <2>1, <2>2 DEF OtherStep
<1>3. /\ scene' \in Scene
      /\ \A v \in Views : scene'.tree[v] = PreviewTree => scene.tree[v] = PreviewTree
  BY <1>1, <1>2, FollowSceneIs
<1>4. server.input_mode = "cycle" => Listed(cycle', server')
  BY <1>1, <1>2 DEF CycleInv, Listed
<1>5. server.input_mode # "cycle" => cycle' = Closed BY <1>1 DEF CycleInv
<1>6. \A v \in Views : scene'.tree[v] = PreviewTree => v = cycle'.selected
  BY <1>1, <1>3 DEF CycleInv
<1> QED BY <1>1, <1>2, <1>3, <1>4, <1>5, <1>6 DEF CycleInv, CycleTypeOK

\* The switcher opens.
LEMMA CycleBeginInv ==
  ASSUME CycleInv, NEW forward \in BOOLEAN, NEW current \in BOOLEAN, CycleBegin(forward, current)
  PROVE CycleInv'
<1> DEFINE views == Matching(server, current)
           first == IF server.active_view \in views THEN server.active_view
                    ELSE FirstOf(server.above, views)
           c == [Closed EXCEPT !.views = views, !.above = server.above,
                               !.current = current, !.selected = first]
           d == [c EXCEPT !.selected = NextOf(c, forward)]
<1>1. /\ server \in Server /\ Ordered(server) /\ server.input_mode # "cycle"
      /\ Restorable(cycle, scene) /\ cycle = Closed
  BY CycleRestorable DEF CycleInv, CycleTypeOK, CycleBegin
<1>2. views \subseteq server.views /\ IsFiniteSet(views) /\ views # {} /\ views \subseteq Views
  BY <1>1, MatchingMapped DEF CycleBegin, Server
<1>3. StrictOrder(server.above, views) BY <1>1, <1>2, StrictPart DEF Ordered
<1>4. first \in views
  <2> HIDE DEF views
  <2> QED BY <1>2, <1>3, FirstIsOne
<1>5. server.above \in SUBSET (Views \X Views) BY <1>1 DEF Server
<1>6. /\ server' = FocusOverrideBegin(server, "cycle")
      /\ cycle' = Previewing(d, scene) /\ scene' = PreviewScene(d, scene)
  BY DEF CycleBegin
<1> HIDE DEF views, first
<1>7. /\ c \in Cycle /\ c.views = views /\ c.above = server.above /\ c.selected = first
      /\ c.preview = None
  BY <1>2, <1>4, <1>5 DEF Closed, Cycle
<1> HIDE DEF c
<1>8. NextOf(c, forward) \in views BY <1>2, <1>3, <1>5, <1>7, NextIsOne
<1>9. /\ d \in Cycle /\ d.views = views /\ d.above = server.above /\ d.selected \in views
      /\ d.preview = None
  BY <1>2, <1>7, <1>8 DEF Cycle
<1> HIDE DEF d
<1>10. Restorable(d, scene)
  BY <1>1, <1>9 DEF Restorable, Closed
<1>11. /\ Restorable(cycle', scene') /\ cycle'.preview = d.selected
       /\ cycle'.dummy \in Workspaces
       /\ cycle'.views = d.views /\ cycle'.above = d.above /\ cycle'.selected = d.selected
  BY <1>2, <1>6, <1>9, <1>10, PreviewIs
<1>12. SameButKeyboard(server, server') /\ server'.input_mode = "cycle"
  BY <1>1, <1>6, OverrideBeginIs DEF InputModes
<1>13. Listed(cycle', server')
  BY <1>2, <1>3, <1>9, <1>11, <1>12 DEF Listed, SameButKeyboard
<1>14. /\ server' \in Server /\ Ordered(server')
       /\ ~server'.locked /\ server'.focused_layer = None
  BY <1>12 DEF SameButKeyboard, Ordered, CycleInv
<1>15. /\ cycle' \in Cycle /\ scene' \in Scene
       /\ \A v \in Views : scene'.tree[v] = PreviewTree => v = cycle'.selected
  BY <1>11 DEF Restorable
<1> QED BY <1>12, <1>13, <1>14, <1>15 DEF CycleInv, CycleTypeOK

\* The selection moves on.
LEMMA CycleStepInv ==
  ASSUME CycleInv, NEW forward \in BOOLEAN, CycleStep(forward)
  PROVE CycleInv'
<1> DEFINE d == [cycle EXCEPT !.selected = NextOf(cycle, forward)]
<1>1. /\ server \in Server /\ Ordered(server) /\ server.input_mode = "cycle"
      /\ cycle \in Cycle /\ Listed(cycle, server) /\ Restorable(cycle, scene)
  BY CycleRestorable DEF CycleInv, CycleTypeOK, CycleStep
<1>2. /\ cycle.views \subseteq Views /\ IsFiniteSet(cycle.views) /\ cycle.views # {}
      /\ cycle.above \subseteq Views \X Views
  BY <1>1, FS_Subset DEF Listed, Cycle, Ordered
<1>3. NextOf(cycle, forward) \in cycle.views BY <1>1, <1>2, NextIsOne DEF Listed
<1>4. server' = server /\ cycle' = Previewing(d, scene) /\ scene' = PreviewScene(d, scene)
  BY DEF CycleStep
<1>5. /\ d \in Cycle /\ d.views = cycle.views /\ d.above = cycle.above
      /\ d.selected \in cycle.views /\ d.preview = cycle.preview /\ d.dummy = cycle.dummy
  BY <1>1, <1>2, <1>3 DEF Cycle
<1> HIDE DEF d
<1>6. Restorable(d, scene) BY <1>1, <1>5 DEF Restorable
<1>7. /\ Restorable(cycle', scene') /\ cycle'.preview = d.selected
      /\ cycle'.dummy \in Workspaces
      /\ cycle'.views = d.views /\ cycle'.above = d.above /\ cycle'.selected = d.selected
  BY <1>2, <1>4, <1>5, <1>6, PreviewIs
<1>8. Listed(cycle', server') BY <1>1, <1>4, <1>5, <1>7 DEF Listed
<1>9. /\ cycle' \in Cycle /\ scene' \in Scene
      /\ \A v \in Views : scene'.tree[v] = PreviewTree => v = cycle'.selected
  BY <1>7 DEF Restorable
<1> QED BY <1>1, <1>4, <1>8, <1>9 DEF CycleInv, CycleTypeOK

\* What is left when the switcher closes
LEMMA ClosedInv ==
  ASSUME CycleInv, server' \in Server, Ordered(server'), ~server'.locked,
         server'.focused_layer = None, server'.input_mode # "cycle", cycle' = Closed,
         scene' = FollowScene(server, server', RestorePreview(cycle, scene))
  PROVE CycleInv'
<1> DEFINE m == RestorePreview(cycle, scene)
<1>1. m \in Scene /\ \A v \in Views : m.tree[v] \in Workspaces
  BY CycleRestorable, RestoreEmpties
<1>2. scene' = FollowScene(server, server', m) OBVIOUS
<1> HIDE DEF m
<1>3. /\ scene' \in Scene
      /\ \A v \in Views : scene'.tree[v] = PreviewTree => m.tree[v] = PreviewTree
  BY <1>1, <1>2, FollowSceneIs
<1>4. \A v \in Views : scene'.tree[v] # PreviewTree BY <1>1, <1>3, WindowCycleAssumption
<1> QED BY <1>3, <1>4, ClosedType DEF CycleInv, CycleTypeOK

\* The switcher gives the keyboard back, and then the view gets it.
LEMMA FinishInv ==
  ASSUME CycleInv, NEW v \in Views, NEW switchFocus \in BOOLEAN, Finish(v, switchFocus)
  PROVE CycleInv'
<1> DEFINE s == FocusOverrideEnd(server, ~switchFocus)
           t == FocusView(s, v, TRUE, FALSE)
<1>1. server \in Server /\ Ordered(server) BY DEF CycleInv, CycleTypeOK
<1>2. SameButKeyboard(server, s) /\ s.input_mode = "passthrough" BY <1>1, OverrideEndFollows
<1>3. server' \in {s, t} BY DEF Finish
<1> HIDE DEF s
<1>4. /\ s \in Server /\ Ordered(s) /\ ~s.locked /\ s.focused_layer = None
  BY <1>1, <1>2 DEF SameButKeyboard, Ordered, CycleInv
<1>5. Follows(s, t) BY <1>4, FocusViewFollows
<1> HIDE DEF t
<1>6. /\ server' \in Server /\ Ordered(server') /\ ~server'.locked
      /\ server'.focused_layer = None /\ server'.input_mode # "cycle"
  BY <1>2, <1>3, <1>4, <1>5 DEF Follows
<1> QED BY <1>6, ClosedInv DEF Finish

\* cycle_immediate()
LEMMA CycleImmediateInv ==
  ASSUME CycleInv, NEW forward \in BOOLEAN, NEW current \in BOOLEAN,
         CycleImmediate(forward, current)
  PROVE CycleInv'
<1> DEFINE active == server.active_view
           below == { w \in server.views : active = None \/ <<active, w>> \in server.above }
           candidates == Matching(server, current)
                           \cap (IF forward THEN below ELSE server.views)
           R == IF forward THEN server.above ELSE Flipped(server.above)
           v == FirstOf(R, candidates)
           s == IF forward /\ active # None THEN MoveToBack(server, active) ELSE server
<1>1. /\ server \in Server /\ Ordered(server) /\ server.input_mode # "cycle"
      /\ scene \in Scene /\ cycle = Closed
  BY DEF CycleInv, CycleTypeOK, CycleImmediate, ActionsRun
<1>2. /\ candidates # {} /\ server' = FocusView(s, v, TRUE, FALSE)
      /\ scene' = FollowScene(server, server', scene) /\ cycle' = cycle
  BY DEF CycleImmediate, Flipped
<1>3. candidates \subseteq server.views /\ candidates \subseteq Views
  BY <1>1, MatchingMapped DEF Server
<1>4. StrictOrder(R, server.views)
  BY <1>1, FlippedIsStrict DEF Ordered, Server
<1> HIDE DEF candidates, R
<1>5. v \in Views BY <1>1, <1>2, <1>3, <1>4, FirstIsOne DEF Ordered
<1>6. Follows(server, s)
  BY <1>1, RestackFollows, FollowsItself
<1> HIDE DEF v, s
<1>7. s \in Server BY <1>6 DEF Follows
<1>8. Follows(s, server') BY <1>2, <1>5, <1>7, FocusViewFollows
<1>9. Follows(server, server') BY <1>6, <1>8, FollowsTwice
<1>10. /\ server' \in Server /\ Ordered(server') /\ ~server'.locked
       /\ server'.focused_layer = None /\ server'.input_mode # "cycle"
  BY <1>1, <1>9 DEF Follows, CycleInv
<1>11. /\ scene' \in Scene
       /\ \A w \in Views : scene'.tree[w] = PreviewTree => scene.tree[w] = PreviewTree
  BY <1>1, <1>2, <1>10, FollowSceneIs
<1> QED BY <1>1, <1>2, <1>10, <1>11, ClosedType DEF CycleInv, CycleTypeOK
\* cycle_reinitialize() lists the mapped views again, and selects one of them.
LEMMA ReinitializeIs ==
  ASSUME NEW s \in Server, Ordered(s), cycle \in Cycle
  PROVE LET c == Reinitialize(s)
        IN  \/ c = Closed
            \/ /\ c \in Cycle /\ c.preview = None
               /\ c.views \subseteq s.mapped
               /\ c.selected \in c.views
               /\ StrictOrder(c.above, c.views)
<1> DEFINE views == Matching(s, cycle.current)
           previous == NextOf(cycle, FALSE)
           first == FirstOf(s.above, views)
           choice == CASE cycle.selected \in views -> cycle.selected
                       [] cycle.selected \notin views /\ previous \in views -> previous
                       [] OTHER -> first
           c == [Closed EXCEPT !.views = views, !.above = s.above,
                               !.current = cycle.current, !.selected = choice]
<1>1. views \subseteq s.mapped /\ views \subseteq s.views /\ views \subseteq Views
  BY MatchingMapped DEF Server
<1>2. Reinitialize(s) = IF views = {} THEN Closed ELSE c BY DEF Reinitialize
<1>3. StrictOrder(s.above, views) BY <1>1, StrictPart DEF Ordered
<1> HIDE DEF views
<1>4. CASE views = {} BY <1>2, <1>4
<1>5. CASE views # {}
  <2>1. first \in views BY <1>1, <1>3, <1>5, OneIsFirst, FirstIsOne DEF Ordered
  <2> HIDE DEF previous, first
  <2>2. choice \in views BY <2>1
  <2> HIDE DEF choice
  <2>3. s.above \in SUBSET (Views \X Views) /\ cycle.current \in BOOLEAN BY DEF Server, Cycle
  <2>4. /\ c \in Cycle /\ c.preview = None /\ c.views = views /\ c.above = s.above
        /\ c.selected = choice
    BY <1>1, <2>2, <2>3 DEF Closed, Cycle
  <2> HIDE DEF c
  <2> QED BY <1>1, <1>2, <1>3, <1>5, <2>2, <2>4
<1> QED BY <1>4, <1>5

\* A view goes while the switcher is open: the list is built again, and if it is empty
\* the switcher closes.
LEMMA DestroyWhileCyclingInv ==
  ASSUME CycleInv, NEW v \in Views, DestroyWhileCycling(v)
  PROVE CycleInv'
<1> DEFINE s == Forget(server, v)
           c == Reinitialize(s)
           n == RestorePreview(cycle, scene)
           e == FocusOverrideEnd(s, TRUE)
           t == IF c = Closed THEN e ELSE s
           m == PreviewScene(c, n)
<1>1. /\ server \in Server /\ Ordered(server) /\ server.input_mode = "cycle"
      /\ v \notin server.mapped /\ cycle \in Cycle
  BY DEF CycleInv, CycleTypeOK, DestroyWhileCycling
<1>2. /\ server' = RemoveView(t, v)
      /\ cycle' = IF c = Closed THEN c ELSE Previewing(c, n)
      /\ scene' = FollowScene(server, server', IF c = Closed THEN n ELSE m)
  BY DEF DestroyWhileCycling
<1>3. Follows(server, s) BY <1>1, ForgetFollows
<1> HIDE DEF s
<1>4. s \in Server /\ Ordered(s) BY <1>1, <1>3 DEF Follows
<1>5. SameButKeyboard(s, e) /\ e.input_mode = "passthrough" BY <1>4, OverrideEndFollows
<1>6. \/ c = Closed
      \/ /\ c \in Cycle /\ c.preview = None
         /\ c.views \subseteq s.mapped
         /\ c.selected \in c.views
         /\ StrictOrder(c.above, c.views)
  BY <1>1, <1>4, ReinitializeIs
<1> HIDE DEF c, e
<1>7. /\ t \in Server /\ Ordered(t) /\ ~t.locked /\ t.focused_layer = None
      /\ t.mapped = server.mapped /\ t.views = server.views
      /\ t.input_mode = IF c = Closed THEN "passthrough" ELSE "cycle"
  <2>1. /\ ~s.locked /\ s.focused_layer = None /\ s.mapped = server.mapped
        /\ s.views = server.views /\ s.input_mode = "cycle"
    BY <1>1, <1>3 DEF Follows, CycleInv
  <2> QED BY <1>4, <1>5, <2>1 DEF SameButKeyboard, Ordered
<1> HIDE DEF t
<1>8. Leaves(t, server', v) /\ server'.input_mode = t.input_mode
  BY <1>2, <1>7, RemoveViewLeaves
<1>9. /\ server' \in Server /\ Ordered(server') /\ ~server'.locked
      /\ server'.focused_layer = None /\ server'.views = server.views \ {v}
  BY <1>1, <1>7, <1>8 DEF Leaves
<1>10. CASE c = Closed
  BY <1>2, <1>7, <1>8, <1>9, <1>10, ClosedInv
<1>11. CASE c # Closed
  <2>1. n \in Scene /\ \A w \in Views : n.tree[w] \in Workspaces
    BY CycleRestorable, RestoreEmpties
  <2> HIDE DEF n
  <2>2. c.selected \in Views BY <1>6, <1>11 DEF Cycle
  <2>3. Restorable(c, n) BY <1>6, <1>11, <2>1, WindowCycleAssumption DEF Restorable
  <2>4. /\ Restorable(cycle', m) /\ cycle'.preview = c.selected
        /\ cycle'.dummy \in Workspaces
        /\ cycle'.views = c.views /\ cycle'.above = c.above /\ cycle'.selected = c.selected
    BY <1>2, <1>11, <2>2, <2>3, PreviewIs
  <2> HIDE DEF m
  <2>5. scene' = FollowScene(server, server', m) BY <1>2, <1>11
  <2>6. /\ scene' \in Scene
        /\ \A w \in Views : scene'.tree[w] = PreviewTree => m.tree[w] = PreviewTree
    <3>1. m \in Scene BY <2>4 DEF Restorable
    <3> QED BY <1>9, <2>5, <3>1, FollowSceneIs
  <2>7. \A w \in Views : scene'.tree[w] = PreviewTree => w = cycle'.selected
    BY <2>4, <2>6 DEF Restorable
  <2>8. c.views \subseteq server'.views
    BY <1>1, <1>3, <1>6, <1>9, <1>11 DEF Follows, Ordered
  <2>9. Listed(cycle', server') BY <1>6, <1>11, <2>4, <2>8 DEF Listed
  <2>10. server'.input_mode = "cycle" BY <1>7, <1>8, <1>11
  <2> QED BY <1>9, <2>4, <2>6, <2>7, <2>9, <2>10 DEF CycleInv, CycleTypeOK, Restorable
<1> QED BY <1>10, <1>11

\* Every step of the switcher and of the desktop under it
LEMMA CycleNextInv ==
  ASSUME CycleInv, [CycleNext]_cycleVars PROVE CycleInv'
<1>1. CASE OtherStep BY <1>1, OtherCycleInv
<1>2. CASE \E forward, current \in BOOLEAN : CycleBegin(forward, current)
  BY <1>2, CycleBeginInv
<1>3. CASE \E forward, current \in BOOLEAN : CycleImmediate(forward, current)
  BY <1>3, CycleImmediateInv
<1>4. CASE \E forward \in BOOLEAN : CycleStep(forward) BY <1>4, CycleStepInv
<1>5. CASE \E switchFocus \in BOOLEAN : CycleFinish(switchFocus)
  <2>1. PICK switchFocus \in BOOLEAN : Finish(cycle.selected, switchFocus)
    BY <1>5 DEF CycleFinish
  <2>2. cycle.selected \in Views BY <2>1 DEF Finish, CycleInv, CycleTypeOK, Cycle, Listed
  <2> QED BY <2>1, <2>2, FinishInv
<1>6. CASE \E v \in Views : CycleOnCursorRelease(v)
  BY <1>6, FinishInv DEF CycleOnCursorRelease
<1>7. CASE \E v \in Views : DestroyWhileCycling(v) BY <1>7, DestroyWhileCyclingInv
<1>8. CASE UNCHANGED cycleVars
  <2>1. server' = server /\ cycle' = cycle /\ scene' = scene BY <1>8 DEF cycleVars
  <2> QED BY <2>1 DEF CycleInv, CycleTypeOK
<1> QED BY <1>1, <1>2, <1>3, <1>4, <1>5, <1>6, <1>7, <1>8 DEF CycleNext, SwitcherStep

\* The invariant is one.
LEMMA CycleSpecInv == CycleSpec => []CycleInv
<1>1. CycleInit => CycleInv BY CycleInitInv
<1>2. CycleInv /\ [CycleNext]_cycleVars => CycleInv' BY CycleNextInv
<1> QED BY <1>1, <1>2, PTL DEF CycleSpec

\* Input mode, list, selection, preview and scene graph of the window switcher agree,
\* for any views and workspaces, whatever the views do while it is open
\* (cycle_begin(), cycle_step(), cycle_finish(), cycle_reinitialize()).
THEOREM SwitcherCoherence == CycleSpec => []SwitcherIsCoherent
<1>1. CycleInv => SwitcherIsCoherent
  <2> HAVE CycleInv
  <2>1. SwitcherConsistent BY DEF CycleInv, Listed, SwitcherConsistent
  <2>2. OnlySelectedIsPreviewed BY DEF CycleInv, CycleTypeOK, Server, OnlySelectedIsPreviewed
  <2> QED BY <2>1, <2>2 DEF CycleInv, SwitcherIsCoherent
<1> QED BY <1>1, CycleSpecInv, PTL

\* What cycle_finish() does with a mapped view selected
LEMMA FinishReaches ==
  ASSUME CycleInv, server.input_mode = "cycle", CycleFinish(TRUE),
         cycle.selected \in server.mapped
  PROVE Reached(server', cycle.selected)
<1> DEFINE v == cycle.selected
           s == FocusOverrideEnd(server, FALSE)
<1>1. server \in Server /\ Ordered(server) /\ ~server.locked /\ server.focused_layer = None
  BY DEF CycleInv, CycleTypeOK
<1>2. server' = FocusView(s, v, TRUE, FALSE) BY DEF CycleFinish, Finish
<1>3. SameButKeyboard(server, s) /\ s.input_mode = "passthrough" BY <1>1, OverrideEndFollows
<1> HIDE DEF s, v
<1>4. s \in Server /\ Free(s) /\ v \in s.mapped /\ v \in s.views /\ v \in Views
  BY <1>1, <1>3 DEF SameButKeyboard, Free, HasExclusiveLayer, Ordered, Server, v
<1>5. v \in Family(s, v) BY <1>4, FamilyOfMember
<1> QED BY <1>2, <1>4, <1>5, FocusViewFollows DEF v

\* Closing the switcher with a mapped view selected leaves the keyboard on that view's
\* hierarchy, the view shown and on the current workspace, however the view was hidden
\* or moved while the switcher was open.
THEOREM SwitchReaches == CycleSpec => SwitchReachesSelected
<1> DEFINE A == LET v == cycle.selected
                IN  /\ server.input_mode = "cycle"
                    /\ CycleFinish(TRUE)
                    /\ v \in server.mapped
                    => /\ server'.focused_surface \in Family(server', v) \cup {v}
                       /\ v \in Visible(server')
                       /\ \/ v \in server'.omnipresent
                          \/ server'.workspace[v] = server'.current
<1>1. CycleInv => A BY FinishReaches DEF Reached
<1>2. SwitchReachesSelected <=> [][A]_cycleVars BY DEF SwitchReachesSelected
<1> HIDE DEF A
<1> QED BY <1>1, <1>2, CycleSpecInv, PTL
----------------------------------------------------------------------------
(* Functions of the layer shell *)

\* What they keep: they change the focus, and restack the views.
SamePanels(s, t) ==
    /\ t \in Server
    /\ t.locked = s.locked /\ t.interactivity = s.interactivity
    /\ t.input_mode = s.input_mode
    /\ Ordered(s) => Ordered(t)

\* Functions called one after the other
LEMMA SamePanelsTwice ==
  ASSUME NEW s, NEW t, NEW u, SamePanels(s, t), SamePanels(t, u) PROVE SamePanels(s, u)
BY DEF SamePanels

\* The keyboard is with a window, if there is one.
Returned(t) ==
    OnCurrentWorkspace(t) \ t.minimized # {}
      => t.focused_surface \in Visible(t) \cup (t.mapped \cap Modal)

\* desktop_focus_topmost_view() finds the first window of the workspace.
LEMMA FocusTopmostReturns ==
  ASSUME NEW s \in Server, Ordered(s), Free(s) PROVE Returned(FocusTopmost(s))
<1> DEFINE C == OnCurrentWorkspace(s) \ s.minimized
           v == CHOOSE v \in C : IsTop(s, v, C)
           k == SeatFocusSurface(s, None)
           t == FocusNow(s, v, TRUE, FALSE)
<1>1. C \subseteq s.views /\ C \subseteq Visible(s) /\ C \subseteq Views
  BY DEF OnCurrentWorkspace, Ordered, Visible, Server
<1>2. FocusTopmost(s) = IF \E w \in C : IsTop(s, w, C) THEN t ELSE k BY DEF FocusTopmost
<1>3. CASE C = {}
  <2>1. SameButKeyboard(s, k) BY SeatFocusFollows
  <2>2. FocusTopmost(s) = k BY <1>2, <1>3
  <2> HIDE DEF k
  <2>3. OnCurrentWorkspace(k) \ k.minimized = {}
    BY <1>3, <2>1 DEF SameButKeyboard, OnCurrentWorkspace
  <2> QED BY <2>2, <2>3 DEF Returned
<1>4. CASE C # {}
  <2> HIDE DEF C
  <2>1. \E w \in C : \A u \in C \ {w} : <<w, u>> \in s.above
    BY <1>1, <1>4, OneIsFirst DEF Ordered
  <2>2. \E w \in C : IsTop(s, w, C) BY <2>1 DEF IsTop
  <2>3. v \in C BY <2>2
  <2>4. FocusTopmost(s) = t BY <1>2, <2>2
  <2> HIDE DEF v
  <2>5. v \in Views /\ v \in Visible(s) BY <1>1, <2>3
  <2>6. Reached(t, v) /\ t.focused_surface \in {v} \cup (t.mapped \cap Modal)
    BY <2>5, FocusNowFollows
  <2> HIDE DEF t
  <2> QED BY <2>4, <2>6 DEF Returned, Reached
<1> QED BY <1>3, <1>4

\* seat_set_focus_layer() for a surface
LEMMA SetFocusLayerIs ==
  ASSUME NEW s \in Server, ~s.locked, NEW p \in LayerSurfaces
  PROVE LET t == SetFocusLayer(s, p)
        IN  SamePanels(s, t) /\ t.focused_layer = p /\ t.focused_surface = p
<1> DEFINE k == KeyboardEnter(s, p)
           t == [k EXCEPT !.focused_layer = p]
<1>1. SameButKeyboard(s, k) /\ k.focused_surface = p /\ k.input_mode = s.input_mode
  BY KeyboardEnterIs DEF Surfaces
<1>2. SetFocusLayer(s, p) = t BY DEF SetFocusLayer, SeatFocus
<1> HIDE DEF k
<1>3. k \in Server BY <1>1 DEF SameButKeyboard
<1>4. /\ t \in Server /\ t.focused_layer = p /\ t.focused_surface = k.focused_surface
      /\ t.views = k.views /\ t.above = k.above /\ t.mapped = k.mapped
      /\ t.locked = k.locked /\ t.interactivity = k.interactivity
      /\ t.input_mode = k.input_mode
  BY <1>3 DEF Server
<1> HIDE DEF t
<1> QED BY <1>1, <1>2, <1>4 DEF SameButKeyboard, SamePanels, Ordered

\* and for NULL
LEMMA ClearFocusLayerIs ==
  ASSUME NEW s \in Server
  PROVE LET t == ClearFocusLayer(s)
        IN  /\ SamePanels(s, t) /\ t.focused_layer = None
            /\ Ordered(s) /\ ~s.locked /\ s.input_mode = "passthrough" => Returned(t)
<1> DEFINE u == [s EXCEPT !.focused_layer = None]
           t == FocusTopmost(u)
<1>1. /\ u \in Server /\ u.focused_layer = None
      /\ u.views = s.views /\ u.above = s.above /\ u.mapped = s.mapped
      /\ u.locked = s.locked /\ u.interactivity = s.interactivity
      /\ u.input_mode = s.input_mode
  BY DEF Server
<1>2. ClearFocusLayer(s) = t BY DEF ClearFocusLayer
<1> HIDE DEF u
<1>3. Follows(u, t) /\ t.input_mode = u.input_mode BY <1>1, FocusTopmostFollows
<1>4. Ordered(s) <=> Ordered(u) BY <1>1 DEF Ordered
<1>5. Ordered(s) /\ ~s.locked /\ s.input_mode = "passthrough" => Returned(t)
  BY <1>1, <1>4, FocusTopmostReturns DEF Free, HasExclusiveLayer
<1> QED BY <1>1, <1>2, <1>3, <1>4, <1>5 DEF Follows, SamePanels

\* The focus is on what the search finds first, and on none if it finds nothing.
PassedOn(t, l, near) ==
    LET found == Candidates(t, l, near)
    IN  \/ /\ t.focused_layer \in found /\ t.focused_surface = t.focused_layer
           /\ \A q \in found \ {t.focused_layer} : Earlier(l, t.focused_layer, q)
        \/ /\ t.focused_layer = None
           /\ ~\E p \in found : \A q \in found \ {p} : Earlier(l, p, q)

\* If the surface that gives the focus up had it, the keyboard is with a window
\* afterwards unless it is with a layer surface.
GivenUp(s, t) ==
    /\ Ordered(s) /\ s.input_mode = "passthrough"
    /\ s.focused_layer # None /\ t.focused_layer = None
    => Returned(t)

\* Which surfaces are candidates depends on what they ask for only.
LEMMA SameCandidates ==
  ASSUME NEW s, NEW t, t.interactivity = s.interactivity, NEW l, NEW near
  PROVE Candidates(t, l, near) = Candidates(s, l, near)
BY DEF Candidates, IsExclusive

\* try_to_focus_next_layer_or_toplevel()
LEMMA TryNextIs ==
  ASSUME NEW s \in Server, ~s.locked, NEW l, NEW near
  PROVE LET t == TryNext(s, l, near)
        IN  SamePanels(s, t) /\ PassedOn(t, l, near) /\ GivenUp(s, t)
<1> DEFINE found == Candidates(s, l, near)
           Best(p) == \A q \in found \ {p} : Earlier(l, p, q)
           p == CHOOSE p \in found : Best(p)
           t == TryNext(s, l, near)
<1>1. t = IF \E x \in found : Best(x) THEN SetFocusLayer(s, p)
          ELSE IF s.focused_layer # None THEN ClearFocusLayer(s) ELSE s
  BY DEF TryNext
<1>2. found \subseteq LayerSurfaces BY DEF Candidates, MappedPanels
<1>3. SamePanels(s, t) => Candidates(t, l, near) = found
  BY SameCandidates DEF SamePanels
<1>4. CASE \E x \in found : Best(x)
  <2>1. p \in found /\ Best(p) BY <1>4
  <2>2. t = SetFocusLayer(s, p) BY <1>1, <1>4
  <2> HIDE DEF p
  <2>3. SamePanels(s, t) /\ t.focused_layer = p /\ t.focused_surface = p
    <3>1. p \in LayerSurfaces BY <1>2, <2>1
    <3> HIDE DEF t
    <3> QED BY <2>2, <3>1, SetFocusLayerIs
  <2>4. p # None BY <1>2, <2>1, SeatAssumption
  <2> HIDE DEF t, found
  <2> QED BY <1>3, <2>1, <2>3, <2>4 DEF PassedOn, GivenUp, t
<1>5. CASE ~(\E x \in found : Best(x)) /\ s.focused_layer # None
  <2>1. t = ClearFocusLayer(s) BY <1>1, <1>5
  <2> HIDE DEF t
  <2>2. SamePanels(s, t) /\ t.focused_layer = None
        /\ (Ordered(s) /\ s.input_mode = "passthrough" => Returned(t))
    BY <2>1, ClearFocusLayerIs
  <2>3. ~\E x \in Candidates(t, l, near) :
            \A q \in Candidates(t, l, near) \ {x} : Earlier(l, x, q)
    BY <1>3, <1>5, <2>2
  <2> QED BY <2>2, <2>3 DEF PassedOn, GivenUp, t
<1>6. CASE ~(\E x \in found : Best(x)) /\ s.focused_layer = None
  <2>1. t = s BY <1>1, <1>6
  <2> HIDE DEF t
  <2>2. SamePanels(s, t) BY <2>1 DEF SamePanels
  <2>3. ~\E x \in Candidates(t, l, near) :
            \A q \in Candidates(t, l, near) \ {x} : Earlier(l, x, q)
    BY <1>6, <2>1
  <2> QED BY <1>6, <2>1, <2>2, <2>3 DEF PassedOn, GivenUp, t
<1> QED BY <1>4, <1>5, <1>6

\* layer_try_set_focus() leaves the focus alone, takes it, or passes it on.
Refused(s, t, l, p) ==
    /\ t = s
    /\ s.focused_layer = p => s.interactivity[p] = "on_demand"
    /\ s.focused_layer = p => ~HasExclusiveLayer(s)

Taken(s, t, l, p) ==
    /\ SamePanels(s, t)
    /\ t.focused_layer = p /\ t.focused_surface = p
    /\ HasExclusiveLayer(s) => IsExclusive(s, p) /\ HasPrecedence(s, l, l.layer[p])

Yielded(s, t, l, p, near) ==
    /\ s.focused_layer = p /\ s.interactivity[p] = "none"
    /\ SamePanels(s, t) /\ PassedOn(t, l, near) /\ GivenUp(s, t)

\* The layers are numbers.
LayersTyped(l) == l.layer \in [LayerSurfaces -> 0 .. Overlay]

LEMMA TrySetFocusIs ==
  ASSUME NEW s \in Server, ~s.locked, NEW l, LayersTyped(l), NEW p \in LayerSurfaces, NEW near
  PROVE LET t == TrySetFocus(s, l, p, near)
        IN  \/ Refused(s, t, l, p)
            \/ Taken(s, t, l, p) /\ s.interactivity[p] # "none"
            \/ Yielded(s, t, l, p, near)
<1> DEFINE t == TrySetFocus(s, l, p, near)
<1>1. s.interactivity[p] \in Interactivity BY DEF Server
<1>2. LET u == SetFocusLayer(s, p)
      IN  SamePanels(s, u) /\ u.focused_layer = p /\ u.focused_surface = p
  BY SetFocusLayerIs
<1>3. CASE s.interactivity[p] = "exclusive"
  <2>1. t = IF HasPrecedence(s, l, l.layer[p]) THEN SetFocusLayer(s, p) ELSE s
    BY <1>3 DEF TrySetFocus
  <2>2. s.focused_layer = p => HasPrecedence(s, l, l.layer[p])
    BY DEF HasPrecedence, LayersTyped, Overlay
  <2> HIDE DEF t
  <2> QED BY <1>2, <1>3, <2>1, <2>2 DEF Refused, Taken, IsExclusive, t
<1>4. CASE s.interactivity[p] = "on_demand"
  <2>1. t = IF HasExclusiveLayer(s) THEN s ELSE SetFocusLayer(s, p)
    BY <1>4 DEF TrySetFocus
  <2>2. s.focused_layer = p => ~HasExclusiveLayer(s) BY <1>4 DEF HasExclusiveLayer
  <2> HIDE DEF t
  <2> QED BY <1>2, <1>4, <2>1, <2>2 DEF Refused, Taken, t
<1>5. CASE s.interactivity[p] = "none"
  <2>1. t = IF s.focused_layer = p THEN TryNext(s, l, near) ELSE s
    BY <1>5 DEF TrySetFocus
  <2>2. LET u == TryNext(s, l, near)
        IN  SamePanels(s, u) /\ PassedOn(u, l, near) /\ GivenUp(s, u)
    BY TryNextIs
  <2> HIDE DEF t
  <2> QED BY <1>5, <2>1, <2>2 DEF Refused, Yielded, t
<1> QED BY <1>1, <1>3, <1>4, <1>5 DEF Interactivity
----------------------------------------------------------------------------
(* The layer surfaces in their trees *)

\* The surfaces in the scene are in one order, on outputs that exist.
Arranged(l) ==
    /\ l \in Layer
    /\ IsFiniteSet(InScene(l))
    /\ l.later \subseteq InScene(l) \X InScene(l)
    /\ StrictOrder(l.later, InScene(l))
    /\ \A p \in InScene(l) : l.output[p] \in l.outputs

\* Nothing changes but the surface p.
SameOthers(l, c, p) ==
    /\ c.outputs = l.outputs
    /\ \A q \in LayerSurfaces \ {p} :
          /\ c.phase[q] = l.phase[q] /\ c.layer[q] = l.layer[q] /\ c.output[q] = l.output[q]
          /\ \A r \in LayerSurfaces \ {p} : <<q, r>> \in c.later <=> <<q, r>> \in l.later

\* Changes one after the other
LEMMA SameOthersTwice ==
  ASSUME NEW l, NEW c, NEW d, NEW p, SameOthers(l, c, p), SameOthers(c, d, p)
  PROVE SameOthers(l, d, p)
BY DEF SameOthers

\* A node is put before all others.
PutFirst(R, S, p) == { r \in R : p \notin {r[1], r[2]} } \cup {p} \X (S \ {p})

LEMMA PutFirstIsStrict ==
  ASSUME NEW S, NEW R, R \subseteq S \X S, StrictOrder(R, S), NEW p
  PROVE LET Q == PutFirst(R, S, p)
            T == S \cup {p}
        IN  /\ Q \subseteq T \X T /\ StrictOrder(Q, T)
            /\ \A q, r : q # p /\ r # p => (<<q, r>> \in Q <=> <<q, r>> \in R)
<1> DEFINE Q == PutFirst(R, S, p)
           T == S \cup {p}
<1>1. \A q, r : <<q, r>> \in Q <=> \/ <<q, r>> \in R /\ q # p /\ r # p
                                   \/ q = p /\ r \in S /\ r # p
  BY DEF PutFirst
<1>2. Q \subseteq T \X T BY DEF PutFirst
<1>3. \A q, r : <<q, r>> \in R => q \in S /\ r \in S OBVIOUS
<1> HIDE DEF Q
<1>4. \A q \in T : <<q, q>> \notin Q BY <1>1 DEF StrictOrder
<1>5. \A q, r \in T : q # r => (<<q, r>> \in Q <=> <<r, q>> \notin Q)
  BY <1>1, <1>3 DEF StrictOrder
<1>6. \A q, r, u \in T : <<q, r>> \in Q /\ <<r, u>> \in Q => <<q, u>> \in Q
  BY <1>1, <1>3 DEF StrictOrder
<1>7. StrictOrder(Q, T) BY <1>4, <1>5, <1>6 DEF StrictOrder
<1>8. \A q, r : q # p /\ r # p => (<<q, r>> \in Q <=> <<q, r>> \in R) BY <1>1
<1> HIDE DEF T
<1> QED BY <1>2, <1>7, <1>8 DEF Q, T

\* A change of the layer
LEMMA CurrentLayerIs ==
  ASSUME NEW l, Arranged(l), NEW p \in InScene(l), NEW layer \in 0 .. Overlay
  PROVE LET c == CurrentLayer(l, p, layer)
        IN  Arranged(c) /\ SameOthers(l, c, p) /\ c.phase = l.phase
<1> DEFINE L == [l.layer EXCEPT ![p] = layer]
           Q == PutFirst(l.later, InScene(l), p)
           c == [l EXCEPT !.layer = L, !.later = Q]
<1>1. l \in Layer /\ p \in LayerSurfaces /\ InScene(l) \subseteq LayerSurfaces
  BY DEF Arranged, InScene
<1>2. CurrentLayer(l, p, layer) = IF layer = l.layer[p] THEN l ELSE c
  BY <1>1, ZenonT(60) DEF CurrentLayer, PutFirst, Layer
<1>3. SameOthers(l, l, p) BY DEF SameOthers
<1>4. L \in [LayerSurfaces -> 0 .. Overlay] /\ \A q \in LayerSurfaces \ {p} : L[q] = l.layer[q]
  BY <1>1 DEF Layer
<1>5. InScene(l) \cup {p} = InScene(l) OBVIOUS
<1>6. /\ Q \subseteq InScene(l) \X InScene(l) /\ StrictOrder(Q, InScene(l))
      /\ \A q, r : q # p /\ r # p => (<<q, r>> \in Q <=> <<q, r>> \in l.later)
  BY <1>5, PutFirstIsStrict DEF Arranged
<1>7. Q \in SUBSET (LayerSurfaces \X LayerSurfaces) BY <1>1, <1>6
<1> HIDE DEF L, Q
<1>8. /\ c \in Layer /\ c.phase = l.phase /\ c.layer = L /\ c.later = Q
      /\ c.output = l.output /\ c.outputs = l.outputs
  BY <1>1, <1>4, <1>7 DEF Layer
<1> HIDE DEF c
<1>9. InScene(c) = InScene(l) BY <1>8 DEF InScene
<1>10. Arranged(c) BY <1>6, <1>8, <1>9 DEF Arranged
<1>11. SameOthers(l, c, p) BY <1>4, <1>6, <1>8 DEF SameOthers
<1> QED BY <1>2, <1>3, <1>8, <1>10, <1>11

\* A change of the phase, within the scene
WithPhase(l, p, phase) == [l EXCEPT !.phase[p] = phase]

LEMMA PhaseIs ==
  ASSUME NEW l, Arranged(l), NEW p \in InScene(l), NEW phase \in {"new", "ready", "mapped"}
  PROVE LET c == WithPhase(l, p, phase)
        IN  /\ Arranged(c) /\ SameOthers(l, c, p) /\ InScene(c) = InScene(l)
            /\ c.phase[p] = phase /\ c.layer = l.layer /\ c.output = l.output
<1> DEFINE F == [l.phase EXCEPT ![p] = phase]
           c == [l EXCEPT !.phase = F]
<1>1. l \in Layer /\ p \in LayerSurfaces BY DEF Arranged, InScene
<1>2. WithPhase(l, p, phase) = c BY <1>1 DEF WithPhase, Layer
<1>3. /\ F \in [LayerSurfaces -> Phases] /\ F[p] = phase
      /\ \A q \in LayerSurfaces \ {p} : F[q] = l.phase[q]
  BY <1>1 DEF Layer, Phases
<1> HIDE DEF F
<1>4. /\ c \in Layer /\ c.phase = F /\ c.layer = l.layer /\ c.later = l.later
      /\ c.output = l.output /\ c.outputs = l.outputs
  BY <1>1, <1>3 DEF Layer
<1> HIDE DEF c
<1>5. InScene(c) = InScene(l) BY <1>3, <1>4 DEF InScene
<1>6. Arranged(c) BY <1>4, <1>5 DEF Arranged
<1>7. SameOthers(l, c, p) BY <1>3, <1>4 DEF SameOthers
<1> QED BY <1>2, <1>3, <1>4, <1>5, <1>6, <1>7

\* The first one of the exclusive surfaces of an output
LEMMA FirstCandidate ==
  ASSUME NEW s, NEW l, Arranged(l), NEW near, Candidates(s, l, near) # {}
  PROVE \E p \in Candidates(s, l, near) :
           \A q \in Candidates(s, l, near) \ {p} : Earlier(l, p, q)
<1> DEFINE S == InScene(l)
           T == Candidates(s, l, near)
           E == { r \in S \X S : Earlier(l, r[1], r[2]) }
<1>1. T \subseteq S BY DEF Candidates, MappedPanels, InScene
<1>2. \A p \in S : l.layer[p] \in Int BY DEF Arranged, Layer, InScene, Overlay
<1>3. \A p, q \in S : <<p, q>> \in E <=> Earlier(l, p, q) OBVIOUS
<1>4. StrictOrder(l.later, S) BY DEF Arranged
<1> HIDE DEF E, S
<1>5. ASSUME NEW p \in S PROVE <<p, p>> \notin E
  <2>1. <<p, p>> \notin l.later BY <1>4 DEF StrictOrder
  <2>2. l.layer[p] \in Int BY <1>2
  <2>3. ~Earlier(l, p, p) BY <2>1, <2>2 DEF Earlier
  <2> QED BY <1>3, <2>3
<1>6. ASSUME NEW p \in S, NEW q \in S, p # q PROVE <<p, q>> \in E <=> <<q, p>> \notin E
  <2>1. <<p, q>> \in l.later <=> <<q, p>> \notin l.later BY <1>4, <1>6 DEF StrictOrder
  <2>2. l.layer[p] \in Int /\ l.layer[q] \in Int BY <1>2
  <2>3. Earlier(l, p, q) <=> ~Earlier(l, q, p) BY <2>1, <2>2 DEF Earlier
  <2> QED BY <1>3, <2>3
<1>7. ASSUME NEW p \in S, NEW q \in S, NEW r \in S, <<p, q>> \in E, <<q, r>> \in E
      PROVE <<p, r>> \in E
  <2>1. Earlier(l, p, q) /\ Earlier(l, q, r) BY <1>3, <1>7
  <2>2. <<p, q>> \in l.later /\ <<q, r>> \in l.later => <<p, r>> \in l.later
    BY <1>4 DEF StrictOrder
  <2>3. l.layer[p] \in Int /\ l.layer[q] \in Int /\ l.layer[r] \in Int
    BY <1>2
  <2> QED BY <1>3, <2>1, <2>2, <2>3 DEF Earlier
<1>8. StrictOrder(E, S) BY <1>5, <1>6, <1>7 DEF StrictOrder
<1>9. IsFiniteSet(S) BY DEF Arranged, S
<1> HIDE DEF T
<1>10. T # {} BY DEF T
<1>11. \E p \in T : \A q \in T \ {p} : <<p, q>> \in E BY <1>1, <1>8, <1>9, <1>10, OneIsFirst
<1> QED BY <1>1, <1>3, <1>11 DEF T

\* Which surface is found does not depend on one that is not mapped.
LEMMA PassedOnSame ==
  ASSUME NEW l, NEW c, NEW p, SameOthers(l, c, p),
         p \notin MappedPanels(l), p \notin MappedPanels(c),
         NEW s, NEW t, t.focused_layer = s.focused_layer,
         t.focused_surface = s.focused_surface,
         \A q \in LayerSurfaces \ {p} : t.interactivity[q] = s.interactivity[q],
         NEW near, PassedOn(s, l, near)
  PROVE PassedOn(t, c, near)
<1>1. \A q \in LayerSurfaces :
         q \in Candidates(t, c, near) <=> q \in Candidates(s, l, near)
  BY DEF Candidates, MappedPanels, IsExclusive, SameOthers
<1>2. Candidates(t, c, near) = Candidates(s, l, near) /\ p \notin Candidates(s, l, near)
      /\ Candidates(s, l, near) \subseteq LayerSurfaces
  BY <1>1 DEF Candidates, MappedPanels
<1>3. \A q, r \in Candidates(s, l, near) : Earlier(c, q, r) <=> Earlier(l, q, r)
  BY <1>2 DEF Earlier, SameOthers
<1> DEFINE found == Candidates(s, l, near)
<1>4. Candidates(t, c, near) = found BY <1>2
<1> HIDE DEF found
<1>5. \A q, r \in found : Earlier(c, q, r) <=> Earlier(l, q, r) BY <1>3 DEF found
<1>6. \/ /\ s.focused_layer \in found /\ s.focused_surface = s.focused_layer
         /\ \A q \in found \ {s.focused_layer} : Earlier(l, s.focused_layer, q)
      \/ /\ s.focused_layer = None
         /\ ~\E x \in found : \A q \in found \ {x} : Earlier(l, x, q)
  BY DEF PassedOn, found
<1> QED BY <1>4, <1>5, <1>6 DEF PassedOn
----------------------------------------------------------------------------
(* What a layer surface's request does with the focus *)

\* The exclusive surface has the keyboard; or the one that does not have it is p.
Kept(s) == HasExclusiveLayer(s) => s.focused_surface = s.focused_layer

KeptButFor(s, p) ==
    HasExclusiveLayer(s) /\ s.focused_layer # p => s.focused_surface = s.focused_layer

\* The functions that handle a request of p: only it can take the focus from another,
\* from an exclusive one only from above, and it does not lose it while it is exclusive.
Outcome(s, t, l, p) ==
    /\ SamePanels(s, t) /\ Kept(t) /\ GivenUp(s, t)
    /\ t.focused_layer \in {s.focused_layer, p, None} \cup MappedPanels(l)
    /\ HasExclusiveLayer(s) /\ s.focused_layer # p /\ t.focused_layer # s.focused_layer
         => t.focused_layer = p /\ IsExclusive(s, p) /\ HasPrecedence(s, l, l.layer[p])
    /\ s.focused_layer = p /\ IsExclusive(s, p) => t.focused_layer = p

\* Nothing happens when no layer surface has the focus, or is to get it.
Idle(s, t) == s.focused_layer = None /\ t.focused_layer = None => t = s

\* Nothing to do
LEMMA NoOutcome ==
  ASSUME NEW s \in Server, Kept(s), NEW l, NEW p PROVE Outcome(s, s, l, p) /\ Idle(s, s)
BY DEF Outcome, SamePanels, GivenUp, Idle

\* Whoever is found has the keyboard.
LEMMA PassedOnIsKept ==
  ASSUME NEW t, NEW l, NEW near, PassedOn(t, l, near)
  PROVE Kept(t) /\ t.focused_layer \in {None} \cup MappedPanels(l)
BY DEF PassedOn, Kept, HasExclusiveLayer, Candidates

\* layer_try_set_focus()
LEMMA TrySetFocusOutcome ==
  ASSUME NEW s \in Server, ~s.locked, NEW l, LayersTyped(l), NEW p \in LayerSurfaces,
         NEW near, KeptButFor(s, p)
  PROVE LET t == TrySetFocus(s, l, p, near)
        IN  /\ Outcome(s, t, l, p) /\ Idle(s, t)
            /\ s.focused_layer = p /\ s.interactivity[p] = "none" => PassedOn(t, l, near)
<1> DEFINE t == TrySetFocus(s, l, p, near)
<1>1. \/ Refused(s, t, l, p)
      \/ Taken(s, t, l, p) /\ s.interactivity[p] # "none"
      \/ Yielded(s, t, l, p, near)
  BY TrySetFocusIs
<1> HIDE DEF t
<1>2. p # None BY SeatAssumption
<1>3. CASE Refused(s, t, l, p)
  <2>1. Kept(s) BY <1>3 DEF Refused, KeptButFor, Kept
  <2>2. Outcome(s, s, l, p) /\ Idle(s, s) BY <2>1, NoOutcome
  <2> QED BY <1>3, <2>2 DEF Refused, t
<1>4. CASE Taken(s, t, l, p) /\ s.interactivity[p] # "none"
  <2>1. Kept(t) /\ GivenUp(s, t) BY <1>2, <1>4 DEF Taken, Kept, GivenUp
  <2> QED BY <1>2, <1>4, <2>1 DEF Taken, Outcome, Idle, t
<1>5. CASE Yielded(s, t, l, p, near)
  <2>1. Kept(t) /\ t.focused_layer \in {None} \cup MappedPanels(l)
    BY <1>5, PassedOnIsKept DEF Yielded
  <2> QED BY <1>2, <1>5, <2>1 DEF Yielded, Outcome, Idle, IsExclusive, t
<1> QED BY <1>1, <1>3, <1>4, <1>5

\* handle_map()
LEMMA HandleMapOutcome ==
  ASSUME NEW s \in Server, ~s.locked, NEW l, LayersTyped(l), NEW p \in LayerSurfaces,
         NEW near, KeptButFor(s, p)
  PROVE Outcome(s, HandleMap(s, l, p, near), l, p)
<1>1. CASE l.layer[p] < Top /\ s.interactivity[p] = "on_demand"
  <2>1. Kept(s) BY <1>1 DEF Kept, KeptButFor, HasExclusiveLayer
  <2> QED BY <1>1, <2>1, NoOutcome DEF HandleMap
<1>2. CASE ~(l.layer[p] < Top /\ s.interactivity[p] = "on_demand")
  <2>1. HandleMap(s, l, p, near) = TrySetFocus(s, l, p, near) BY <1>2 DEF HandleMap
  <2> QED BY <2>1, TrySetFocusOutcome
<1> QED BY <1>1, <1>2

\* handle_surface_commit()
LEMMA HandleCommitOutcome ==
  ASSUME NEW s \in Server, ~s.locked, NEW l, LayersTyped(l), NEW p \in LayerSurfaces,
         NEW near, NEW asked \in Interactivity \cup {"same"}, KeptButFor(s, p),
         IF asked = "same" THEN Kept(s) ELSE s.interactivity[p] = asked
  PROVE LET t == HandleCommit(s, l, p, asked, near)
        IN  /\ Outcome(s, t, l, p) /\ Idle(s, t)
            /\ s.focused_layer = p /\ asked \in {"none", "on_demand"} => PassedOn(t, l, near)
<1> DEFINE t == HandleCommit(s, l, p, asked, near)
<1>1. p # None BY SeatAssumption
<1>2. CASE asked = "same" BY <1>2, NoOutcome DEF HandleCommit
<1>3. CASE asked = "on_demand"
  <2>1. t = IF s.focused_layer = p THEN TryNext(s, l, near) ELSE s
    BY <1>3 DEF HandleCommit
  <2>2. LET u == TryNext(s, l, near)
        IN  SamePanels(s, u) /\ PassedOn(u, l, near) /\ GivenUp(s, u)
    BY TryNextIs
  <2> HIDE DEF t
  <2>3. CASE s.focused_layer = p
    <3>1. SamePanels(s, t) /\ PassedOn(t, l, near) /\ GivenUp(s, t) BY <2>1, <2>2, <2>3
    <3>2. Kept(t) /\ t.focused_layer \in {None} \cup MappedPanels(l)
      BY <3>1, PassedOnIsKept
    <3>3. Outcome(s, t, l, p) BY <1>1, <1>3, <2>3, <3>1, <3>2 DEF Outcome, IsExclusive
    <3> QED BY <1>1, <2>3, <3>1, <3>3 DEF Idle, t
  <2>4. CASE s.focused_layer # p
    <3>1. Kept(s) BY <2>4 DEF Kept, KeptButFor
    <3>2. Outcome(s, t, l, p) /\ Idle(s, t) BY <2>1, <2>4, <3>1, NoOutcome
    <3> QED BY <2>4, <3>2 DEF t
  <2> QED BY <2>3, <2>4
<1>4. CASE asked \in {"none", "exclusive"}
  <2>1. t = TrySetFocus(s, l, p, near) BY <1>4 DEF HandleCommit
  <2>2. LET u == TrySetFocus(s, l, p, near)
        IN  /\ Outcome(s, u, l, p) /\ Idle(s, u)
            /\ s.focused_layer = p /\ s.interactivity[p] = "none" => PassedOn(u, l, near)
    BY TrySetFocusOutcome
  <2> HIDE DEF t
  <2>3. /\ Outcome(s, t, l, p) /\ Idle(s, t)
        /\ s.focused_layer = p /\ asked = "none" => PassedOn(t, l, near)
    BY <1>4, <2>1, <2>2
  <2> QED BY <1>4, <2>3 DEF t
<1> QED BY <1>2, <1>3, <1>4 DEF Interactivity

\* Two requests at once: the map and the commit handler run after one commit.
LEMMA OutcomeTwice ==
  ASSUME NEW s, NEW t, NEW u, NEW l, NEW p \in LayerSurfaces,
         Outcome(s, t, l, p), Outcome(t, u, l, p), Idle(t, u)
  PROVE Outcome(s, u, l, p)
<1>1. SamePanels(s, u) /\ Kept(u) BY SamePanelsTwice DEF Outcome
<1>2. t.interactivity = s.interactivity /\ p # None BY SeatAssumption DEF Outcome, SamePanels
<1>3. GivenUp(s, u)
  <2>1. CASE t.focused_layer = None BY <2>1 DEF Outcome, GivenUp, Idle
  <2>2. CASE t.focused_layer # None
    BY <2>2 DEF Outcome, GivenUp, SamePanels
  <2> QED BY <2>1, <2>2
<1>4. u.focused_layer \in {s.focused_layer, p, None} \cup MappedPanels(l) BY DEF Outcome
<1>5. s.focused_layer = p /\ IsExclusive(s, p) => u.focused_layer = p
  BY <1>2 DEF Outcome, IsExclusive
<1>6. ASSUME HasExclusiveLayer(s), s.focused_layer # p, u.focused_layer # s.focused_layer
      PROVE u.focused_layer = p /\ IsExclusive(s, p) /\ HasPrecedence(s, l, l.layer[p])
  <2>1. CASE t.focused_layer = s.focused_layer
    <3>1. HasExclusiveLayer(t) BY <1>2, <1>6, <2>1 DEF HasExclusiveLayer
    <3>2. u.focused_layer = p /\ IsExclusive(t, p) /\ HasPrecedence(t, l, l.layer[p])
      BY <1>6, <2>1, <3>1 DEF Outcome
    <3> QED BY <1>2, <2>1, <3>1, <3>2 DEF IsExclusive, HasPrecedence
  <2>2. CASE t.focused_layer # s.focused_layer
    <3>1. t.focused_layer = p /\ IsExclusive(s, p) /\ HasPrecedence(s, l, l.layer[p])
      BY <1>6, <2>2 DEF Outcome
    <3>2. IsExclusive(t, p) BY <1>2, <3>1 DEF IsExclusive
    <3> QED BY <3>1, <3>2 DEF Outcome
  <2> QED BY <2>1, <2>2
<1> QED BY <1>1, <1>3, <1>4, <1>5, <1>6 DEF Outcome
\* handle_unmap() concerns the surface that has the focus only.
LEMMA HandleUnmapIs ==
  ASSUME NEW s \in Server, ~s.locked, NEW l, NEW p, NEW near, Kept(s)
  PROVE LET t == HandleUnmap(s, l, p, near)
        IN  /\ SamePanels(s, t) /\ Kept(t) /\ GivenUp(s, t)
            /\ t.focused_layer \in {s.focused_layer, None} \cup MappedPanels(l)
            /\ s.focused_layer # p => t = s
            /\ s.focused_layer = p => PassedOn(t, l, near)
<1> DEFINE t == HandleUnmap(s, l, p, near)
<1>1. t = IF s.focused_layer = p THEN TryNext(s, l, near) ELSE s BY DEF HandleUnmap
<1>2. LET u == TryNext(s, l, near)
      IN  SamePanels(s, u) /\ PassedOn(u, l, near) /\ GivenUp(s, u)
  BY TryNextIs
<1> HIDE DEF t
<1>3. CASE s.focused_layer = p
  <2>1. SamePanels(s, t) /\ PassedOn(t, l, near) /\ GivenUp(s, t) BY <1>1, <1>2, <1>3
  <2>2. Kept(t) /\ t.focused_layer \in {None} \cup MappedPanels(l) BY <2>1, PassedOnIsKept
  <2> QED BY <1>3, <2>1, <2>2 DEF t
<1>4. CASE s.focused_layer # p
  <2>1. t = s BY <1>1, <1>4
  <2>2. SamePanels(s, t) /\ Kept(t) /\ GivenUp(s, t) BY <2>1 DEF SamePanels, GivenUp
  <2> QED BY <1>4, <2>1, <2>2 DEF t
<1> QED BY <1>3, <1>4

\* Only what p asks for changes.
SameButAsk(s, u, p) ==
    /\ u \in Server
    /\ u.views = s.views /\ u.above = s.above /\ u.mapped = s.mapped
    /\ u.minimized = s.minimized /\ u.workspace = s.workspace /\ u.current = s.current
    /\ u.locked = s.locked /\ u.focused_layer = s.focused_layer
    /\ u.focused_surface = s.focused_surface /\ u.input_mode = s.input_mode
    /\ \A q \in LayerSurfaces \ {p} : u.interactivity[q] = s.interactivity[q]

\* The current state of a surface after a commit, and when it is created or destroyed
LEMMA AskIs ==
  ASSUME NEW s \in Server, NEW p \in LayerSurfaces, NEW asked \in Interactivity
  PROVE LET u == [s EXCEPT !.interactivity[p] = asked]
        IN  SameButAsk(s, u, p) /\ u.interactivity[p] = asked
<1> DEFINE I == [s.interactivity EXCEPT ![p] = asked]
           u == [s EXCEPT !.interactivity = I]
<1>1. /\ I \in [LayerSurfaces -> Interactivity] /\ I[p] = asked
      /\ \A q \in LayerSurfaces \ {p} : I[q] = s.interactivity[q]
  BY DEF Server
<1>2. [s EXCEPT !.interactivity[p] = asked] = u BY DEF Server
<1> HIDE DEF I
<1>3. /\ u \in Server /\ u.interactivity = I
      /\ u.views = s.views /\ u.above = s.above /\ u.mapped = s.mapped
      /\ u.minimized = s.minimized /\ u.workspace = s.workspace /\ u.current = s.current
      /\ u.locked = s.locked /\ u.focused_layer = s.focused_layer
      /\ u.focused_surface = s.focused_surface /\ u.input_mode = s.input_mode
  BY <1>1 DEF Server
<1> HIDE DEF u
<1> QED BY <1>1, <1>2, <1>3 DEF SameButAsk

\* CurrentInteractivity, for a commit that may ask for nothing
LEMMA CurrentAskIs ==
  ASSUME NEW s \in Server, NEW p \in LayerSurfaces, NEW asked \in Interactivity \cup {"same"}
  PROVE LET u == CurrentInteractivity(s, p, asked)
        IN  /\ SameButAsk(s, u, p)
            /\ IF asked = "same" THEN u = s ELSE u.interactivity[p] = asked
<1>1. CASE asked = "same" BY <1>1 DEF CurrentInteractivity, SameButAsk
<1>2. CASE asked # "same"
  <2>1. asked \in Interactivity BY <1>2
  <2>2. LET u == [s EXCEPT !.interactivity[p] = asked]
        IN  SameButAsk(s, u, p) /\ u.interactivity[p] = asked
    BY <2>1, AskIs
  <2>3. CurrentInteractivity(s, p, asked) = [s EXCEPT !.interactivity[p] = asked]
    BY <1>2 DEF CurrentInteractivity
  <2> QED BY <1>2, <2>2, <2>3
<1> QED BY <1>1, <1>2

\* What does not depend on it
LEMMA AskKeeps ==
  ASSUME NEW s, NEW u, NEW p, SameButAsk(s, u, p)
  PROVE /\ Ordered(s) <=> Ordered(u)
        /\ Returned(s) <=> Returned(u)
        /\ s.focused_layer \in LayerSurfaces \cup {None} /\ Kept(s) => KeptButFor(u, p)
        /\ s.focused_layer \in LayerSurfaces \ {p} => (HasExclusiveLayer(u) <=> HasExclusiveLayer(s))
<1>1. Ordered(s) <=> Ordered(u) BY DEF SameButAsk, Ordered
<1>2. Returned(s) <=> Returned(u) BY DEF SameButAsk, Returned, OnCurrentWorkspace, Visible
<1>3. s.focused_layer \in LayerSurfaces \cup {None} /\ Kept(s) => KeptButFor(u, p)
  BY DEF SameButAsk, Kept, KeptButFor, HasExclusiveLayer
<1>4. s.focused_layer \in LayerSurfaces \ {p} => (HasExclusiveLayer(u) <=> HasExclusiveLayer(s))
  BY DEF SameButAsk, HasExclusiveLayer
<1> QED BY <1>1, <1>2, <1>3, <1>4

----------------------------------------------------------------------------
(* The inductive invariant of the layer shell *)

LayersInv ==
    /\ server \in Server /\ Ordered(server) /\ ~server.locked
    /\ Arranged(layers)
    /\ server.focused_layer \in InScene(layers) \cup {None}
    /\ Kept(server)

\* The action properties, as actions
YieldsUpwards ==
    LET p == server.focused_layer
        q == server'.focused_layer
    IN  /\ HasExclusiveLayer(server)
        /\ q # p
        /\ p \in InScene(layers') /\ IsExclusive(server', p)
        /\ p \in MappedPanels(layers) => p \in MappedPanels(layers')
        /\ layers.layer[p] = layers'.layer[p]
        => HasExclusiveLayer(server') /\ layers'.layer[q] >= layers'.layer[p]

PassesOn ==
    LET p == server.focused_layer
        q == server'.focused_layer
    IN  /\ p \in MappedPanels(layers) /\ IsExclusive(server, p)
        /\ ~(p \in MappedPanels(layers') /\ IsExclusive(server', p))
        /\ layers'.outputs = layers.outputs
        /\ ~\E layer \in 0 .. Overlay : Hide(p, layer, "exclusive")
        => \E near \in layers.outputs :
              LET found == Candidates(server', layers', near)
              IN  IF found = {} THEN q = None
                  ELSE q \in found
                       /\ \A r \in found \ {q} : Earlier(layers', q, r)

ReturnsToWindow ==
    /\ server.focused_layer # None /\ server'.focused_layer = None
    /\ server.input_mode = "passthrough"
    /\ OnCurrentWorkspace(server') \ server'.minimized # {}
    => server'.focused_surface \in Visible(server') \cup (server'.mapped \cap Modal)

\* What is shown of every step
FocusHandled == LayersInv' /\ YieldsUpwards /\ PassesOn /\ ReturnsToWindow

\* Nothing has the focus at startup.
LEMMA LayersInitInv == LayersInit => LayersInv
<1> HAVE LayersInit
<1>1. server \in Server BY InitCoherent DEF LayersInit, Coherent, Plain
<1>2. /\ server.views = {} /\ server.above = {} /\ server.mapped = {}
      /\ ~server.locked /\ server.focused_layer = None
  BY DEF LayersInit, Init
<1>3. Ordered(server) BY <1>2, FS_EmptySet DEF Ordered, StrictOrder
<1>4. layers \in Layer /\ InScene(layers) = {} /\ layers.later = {}
  BY DEF LayersInit, Layer, InScene, Phases, Overlay
<1>5. Arranged(layers) BY <1>4, FS_EmptySet DEF Arranged, StrictOrder
<1> QED BY <1>1, <1>2, <1>3, <1>5 DEF LayersInv, Kept, HasExclusiveLayer

\* What is found first is what the search promises.
LEMMA PassedOnMeans ==
  ASSUME NEW t, NEW l, Arranged(l), NEW near, PassedOn(t, l, near)
  PROVE LET found == Candidates(t, l, near)
        IN  IF found = {} THEN t.focused_layer = None
            ELSE t.focused_layer \in found
                 /\ \A r \in found \ {t.focused_layer} : Earlier(l, t.focused_layer, r)
<1>1. Candidates(t, l, near) # {}
       => \E p \in Candidates(t, l, near) :
             \A q \in Candidates(t, l, near) \ {p} : Earlier(l, p, q)
  BY FirstCandidate
<1> QED BY <1>1 DEF PassedOn

\* A request of p: s is the state in which its handlers run.
LEMMA RequestHandled ==
  ASSUME LayersInv, NEW p \in InScene(layers), NEW s, SameButAsk(server, s, p),
         Outcome(s, server', layers', p), SameOthers(layers, layers', p),
         Arranged(layers'), InScene(layers') = InScene(layers)
  PROVE LayersInv' /\ YieldsUpwards /\ ReturnsToWindow
        /\ (server.focused_layer # p => PassesOn)
<1>1. InScene(layers) \subseteq LayerSurfaces /\ MappedPanels(layers') \subseteq InScene(layers')
  BY DEF InScene, MappedPanels
<1>2. /\ server'.interactivity = s.interactivity /\ server' \in Server
      /\ Ordered(server') /\ ~server'.locked
      /\ s.focused_layer = server.focused_layer
  BY AskKeeps DEF LayersInv, Outcome, SamePanels, SameButAsk
<1>3. LayersInv' BY <1>1, <1>2 DEF LayersInv, Outcome
<1>4. YieldsUpwards
  <2> DEFINE q == server.focused_layer
  <2>1. SUFFICES ASSUME HasExclusiveLayer(server), server'.focused_layer # q,
                        q \in InScene(layers'), IsExclusive(server', q),
                        layers.layer[q] = layers'.layer[q]
                 PROVE HasExclusiveLayer(server')
                       /\ layers'.layer[server'.focused_layer] >= layers'.layer[q]
    BY DEF YieldsUpwards
  <2>2. q # p
    <3>1. q = p => IsExclusive(s, p) BY <1>2, <2>1 DEF IsExclusive
    <3> QED BY <1>2, <2>1, <3>1 DEF Outcome
  <2>3. q \in LayerSurfaces \ {p} BY <1>1, <2>1, <2>2
  <2>4. HasExclusiveLayer(s) BY <2>1, <2>3, AskKeeps
  <2>5. /\ server'.focused_layer = p /\ IsExclusive(s, p)
        /\ HasPrecedence(s, layers', layers'.layer[p])
    BY <1>2, <2>1, <2>2, <2>4 DEF Outcome
  <2>6. layers'.layer[p] >= layers'.layer[q] BY <1>2, <2>4, <2>5 DEF HasPrecedence
  <2>7. HasExclusiveLayer(server')
    BY <1>1, <1>2, <2>5, SeatAssumption DEF HasExclusiveLayer, IsExclusive
  <2> QED BY <2>5, <2>6, <2>7
<1>5. ReturnsToWindow
  <2>1. Ordered(s) /\ s.input_mode = server.input_mode
    BY AskKeeps DEF LayersInv, SameButAsk
  <2> QED BY <1>2, <2>1 DEF Outcome, GivenUp, Returned, ReturnsToWindow
<1>6. server.focused_layer # p => PassesOn
  <2> HAVE server.focused_layer # p
  <2>1. server.focused_layer \in MappedPanels(layers) /\ IsExclusive(server, server.focused_layer)
         => server.focused_layer \in MappedPanels(layers')
            /\ IsExclusive(server', server.focused_layer)
    BY <1>2 DEF MappedPanels, IsExclusive, SameButAsk, SameOthers
  <2> QED BY <2>1 DEF PassesOn
<1> QED BY <1>3, <1>4, <1>5, <1>6

\* The focus was passed on, with p mapped and exclusive before.
LEMMA PassesOnByNext ==
  ASSUME LayersInv, Arranged(layers'), NEW near \in Near(layers'),
         PassedOn(server', layers', near)
  PROVE PassesOn
<1> DEFINE p == server.focused_layer
<1>1. SUFFICES ASSUME p \in MappedPanels(layers), layers'.outputs = layers.outputs
               PROVE \E n \in layers.outputs :
                        LET found == Candidates(server', layers', n)
                        IN  IF found = {} THEN server'.focused_layer = None
                            ELSE server'.focused_layer \in found
                                 /\ \A r \in found \ {server'.focused_layer} :
                                       Earlier(layers', server'.focused_layer, r)
  BY DEF PassesOn
<1>2. layers.outputs # {} BY <1>1 DEF LayersInv, Arranged, MappedPanels, InScene
<1>3. near \in layers.outputs BY <1>1, <1>2 DEF Near
<1>4. LET found == Candidates(server', layers', near)
      IN  IF found = {} THEN server'.focused_layer = None
          ELSE server'.focused_layer \in found
               /\ \A r \in found \ {server'.focused_layer} :
                     Earlier(layers', server'.focused_layer, r)
  BY PassedOnMeans
<1> QED BY <1>3, <1>4
----------------------------------------------------------------------------
(* Commits of layer surfaces *)

\* Surfaces in the scene have a layer, and are not NULL.
LEMMA InSceneTyped ==
  ASSUME NEW l, Arranged(l)
  PROVE /\ LayersTyped(l) /\ InScene(l) \subseteq LayerSurfaces
        /\ MappedPanels(l) \subseteq InScene(l) /\ None \notin InScene(l)
BY SeatAssumption DEF Arranged, Layer, LayersTyped, InScene, MappedPanels

\* A commit with what it changes of the trees
LEMMA CommittedLayers ==
  ASSUME NEW l, Arranged(l), NEW p \in InScene(l), NEW layer \in 0 .. Overlay,
         NEW phase \in {"new", "ready", "mapped"}
  PROVE LET c == WithPhase(CurrentLayer(l, p, layer), p, phase)
        IN  /\ Arranged(c) /\ SameOthers(l, c, p) /\ InScene(c) = InScene(l)
            /\ c.phase[p] = phase
<1> DEFINE b == CurrentLayer(l, p, layer)
           c == WithPhase(b, p, phase)
<1>1. Arranged(b) /\ SameOthers(l, b, p) /\ b.phase = l.phase BY CurrentLayerIs
<1> HIDE DEF b
<1>2. InScene(b) = InScene(l) BY <1>1 DEF InScene
<1>3. Arranged(c) /\ SameOthers(b, c, p) /\ InScene(c) = InScene(b) /\ c.phase[p] = phase
  BY <1>1, <1>2, PhaseIs
<1> HIDE DEF c
<1>4. SameOthers(l, c, p) BY <1>1, <1>3, SameOthersTwice
<1> QED BY <1>2, <1>3, <1>4 DEF b, c

\* A commit without a change of the buffer
LEMMA CommitHandled ==
  ASSUME LayersInv, NEW p \in LayerSurfaces, NEW layer \in 0 .. Overlay,
         NEW asked \in Interactivity \cup {"same"}, Commit(p, layer, asked)
  PROVE FocusHandled
<1> DEFINE phase == IF layers.phase[p] = "new" THEN "ready" ELSE layers.phase[p]
           l == WithPhase(CurrentLayer(layers, p, layer), p, phase)
           s == CurrentInteractivity(server, p, asked)
<1>1. p \in InScene(layers) /\ Arranged(layers) /\ server \in Server
  BY DEF LayersInv, Commit
<1>2. phase \in {"new", "ready", "mapped"} BY <1>1 DEF InScene
<1>3. CurrentLayer(layers, p, layer).phase = layers.phase BY <1>1, CurrentLayerIs
<1>4. [CurrentLayer(layers, p, layer) EXCEPT !.phase[p] = IF @ = "new" THEN "ready" ELSE @]
        = l
  BY <1>3 DEF WithPhase
<1>5. layers' = l /\ \E near \in Near(l) : server' = HandleCommit(s, l, p, asked, near)
  BY <1>4, Zenon DEF Commit
<1>6. phase = "mapped" <=> layers.phase[p] = "mapped" OBVIOUS
<1> HIDE DEF phase
<1>7. /\ Arranged(l) /\ SameOthers(layers, l, p) /\ InScene(l) = InScene(layers)
      /\ l.phase[p] = phase
  BY <1>1, <1>2, CommittedLayers
<1> HIDE DEF l
<1>8. PICK near \in Near(l) : server' = HandleCommit(s, l, p, asked, near) BY <1>5
<1>9. SameButAsk(server, s, p) /\ (IF asked = "same" THEN s = server ELSE s.interactivity[p] = asked)
  BY <1>1, CurrentAskIs
<1> HIDE DEF s
<1>10. s \in Server /\ ~s.locked /\ KeptButFor(s, p) /\ (asked = "same" => Kept(s))
  BY <1>1, <1>9, AskKeeps, InSceneTyped DEF LayersInv, SameButAsk
<1>11. /\ Outcome(s, server', l, p)
       /\ s.focused_layer = p /\ asked \in {"none", "on_demand"} => PassedOn(server', l, near)
  BY <1>7, <1>8, <1>9, <1>10, InSceneTyped, HandleCommitOutcome
<1>12. /\ LayersInv' /\ YieldsUpwards /\ ReturnsToWindow
       /\ server.focused_layer # p => PassesOn
  BY <1>1, <1>5, <1>7, <1>9, <1>11, RequestHandled
<1>13. ASSUME server.focused_layer = p PROVE PassesOn
  <2>1. CASE asked \in {"none", "on_demand"}
    <3>1. PassedOn(server', l, near) BY <1>9, <1>11, <1>13, <2>1 DEF SameButAsk
    <3> QED BY <1>5, <1>7, <1>8, <3>1, PassesOnByNext
  <2>2. CASE asked \in {"same", "exclusive"}
    <3>1. p \in MappedPanels(layers) => p \in MappedPanels(layers')
      BY <1>5, <1>6, <1>7 DEF MappedPanels
    <3>2. server'.interactivity = s.interactivity BY <1>11 DEF Outcome, SamePanels
    <3>3. IsExclusive(server, p) => IsExclusive(server', p)
      BY <1>9, <2>2, <3>2 DEF IsExclusive
    <3> QED BY <1>13, <3>1, <3>3 DEF PassesOn
  <2> QED BY <2>1, <2>2 DEF Interactivity
<1> QED BY <1>12, <1>13 DEF FocusHandled

\* The first buffer: map and commit handlers
LEMMA ShowHandled ==
  ASSUME LayersInv, NEW p \in LayerSurfaces, NEW layer \in 0 .. Overlay,
         NEW asked \in Interactivity \cup {"same"}, Show(p, layer, asked)
  PROVE FocusHandled
<1> DEFINE l == WithPhase(CurrentLayer(layers, p, layer), p, "mapped")
           s == CurrentInteractivity(server, p, asked)
<1>1. /\ p \in InScene(layers) /\ Arranged(layers) /\ server \in Server
      /\ p \notin MappedPanels(layers)
  BY DEF LayersInv, Show, InScene, MappedPanels
<1>2. /\ layers' = l
      /\ \E near \in Near(l) :
            server' = HandleCommit(HandleMap(s, l, p, near), l, p, asked, near)
  BY DEF Show, WithPhase
<1>3. /\ Arranged(l) /\ SameOthers(layers, l, p) /\ InScene(l) = InScene(layers)
  BY <1>1, CommittedLayers
<1> HIDE DEF l
<1>4. PICK near \in Near(l) :
        server' = HandleCommit(HandleMap(s, l, p, near), l, p, asked, near)
  BY <1>2
<1>5. SameButAsk(server, s, p) /\ (IF asked = "same" THEN s = server ELSE s.interactivity[p] = asked)
  BY <1>1, CurrentAskIs
<1> HIDE DEF s
<1>6. s \in Server /\ ~s.locked /\ KeptButFor(s, p)
  BY <1>1, <1>5, AskKeeps, InSceneTyped DEF LayersInv, SameButAsk
<1> DEFINE t == HandleMap(s, l, p, near)
<1>7. Outcome(s, t, l, p) BY <1>3, <1>6, InSceneTyped, HandleMapOutcome
<1>8. server' = HandleCommit(t, l, p, asked, near) BY <1>4
<1> HIDE DEF t
<1>9. /\ t \in Server /\ ~t.locked /\ KeptButFor(t, p)
      /\ IF asked = "same" THEN Kept(t) ELSE t.interactivity[p] = asked
  BY <1>5, <1>6, <1>7 DEF Outcome, SamePanels, Kept, KeptButFor
<1>10. Outcome(t, server', l, p) /\ Idle(t, server')
  BY <1>3, <1>8, <1>9, InSceneTyped, HandleCommitOutcome
<1>11. Outcome(s, server', l, p) BY <1>7, <1>10, OutcomeTwice
<1>12. /\ LayersInv' /\ YieldsUpwards /\ ReturnsToWindow
       /\ server.focused_layer # p => PassesOn
  BY <1>1, <1>2, <1>3, <1>5, <1>11, RequestHandled
<1>13. server.focused_layer = p => PassesOn BY <1>1 DEF PassesOn
<1> QED BY <1>12, <1>13 DEF FocusHandled

\* A NULL buffer: the unmap handler runs before the commit is current.
LEMMA HideHandled ==
  ASSUME LayersInv, NEW p \in LayerSurfaces, NEW layer \in 0 .. Overlay,
         NEW asked \in Interactivity \cup {"same"}, Hide(p, layer, asked)
  PROVE FocusHandled
<1> DEFINE hidden == WithPhase(layers, p, "new")
           l == CurrentLayer(hidden, p, layer)
<1>1. /\ p \in InScene(layers) /\ Arranged(layers) /\ server \in Server
      /\ p \in MappedPanels(layers) /\ p # None
  BY SeatAssumption DEF LayersInv, Hide, InScene, MappedPanels
<1>2. /\ layers' = l
      /\ \E near \in Near(l) :
            LET r == HandleUnmap(server, hidden, p, near)
            IN  server' = HandleCommit(CurrentInteractivity(r, p, asked), l, p, asked, near)
  BY DEF Hide, WithPhase
<1>3. /\ Arranged(hidden) /\ SameOthers(layers, hidden, p)
      /\ InScene(hidden) = InScene(layers) /\ hidden.phase[p] = "new"
  BY <1>1, PhaseIs
<1> HIDE DEF hidden
<1>4. Arranged(l) /\ SameOthers(hidden, l, p) /\ l.phase = hidden.phase
  BY <1>1, <1>3, CurrentLayerIs
<1> HIDE DEF l
<1>5. InScene(l) = InScene(layers) BY <1>3, <1>4 DEF InScene
<1>6. SameOthers(layers, l, p) BY <1>3, <1>4, SameOthersTwice
<1>7. p \notin MappedPanels(l) /\ p \notin MappedPanels(hidden)
      /\ MappedPanels(hidden) = MappedPanels(l)
  BY <1>3, <1>4 DEF MappedPanels
<1>8. PICK near \in Near(l) :
        server' = HandleCommit(CurrentInteractivity(HandleUnmap(server, hidden, p, near),
                                                    p, asked), l, p, asked, near)
  BY <1>2
<1> DEFINE r == HandleUnmap(server, hidden, p, near)
           s == CurrentInteractivity(r, p, asked)
<1>9. /\ SamePanels(server, r) /\ Kept(r) /\ GivenUp(server, r)
      /\ r.focused_layer \in {server.focused_layer, None} \cup MappedPanels(hidden)
      /\ server.focused_layer # p => r = server
      /\ server.focused_layer = p => PassedOn(r, hidden, near)
  BY HandleUnmapIs DEF LayersInv
<1>10. server' = HandleCommit(s, l, p, asked, near) BY <1>8
<1> HIDE DEF r
<1>11. r \in Server /\ ~r.locked /\ Ordered(r) BY <1>9 DEF SamePanels, LayersInv
<1>12. SameButAsk(r, s, p) /\ (IF asked = "same" THEN s = r ELSE s.interactivity[p] = asked)
  BY <1>11, CurrentAskIs
<1> HIDE DEF s
<1>13. r.focused_layer \in LayerSurfaces \cup {None}
  BY <1>9 DEF LayersInv, InScene, MappedPanels
<1>14. s \in Server /\ ~s.locked /\ KeptButFor(s, p) /\ (asked = "same" => Kept(s))
  BY <1>9, <1>11, <1>12, <1>13, AskKeeps DEF SameButAsk
<1>15. /\ Outcome(s, server', l, p) /\ Idle(s, server')
       /\ s.focused_layer = p /\ asked \in {"none", "on_demand"} => PassedOn(server', l, near)
  BY <1>4, <1>10, <1>12, <1>14, InSceneTyped, HandleCommitOutcome
<1>16. CASE server.focused_layer # p
  <2>1. r = server BY <1>9, <1>16
  <2>2. SameButAsk(server, s, p) BY <1>12, <2>1
  <2> QED BY <1>1, <1>2, <1>4, <1>5, <1>6, <1>15, <1>16, <2>2, RequestHandled
          DEF FocusHandled
<1>17. CASE server.focused_layer = p
  <2>1. PassedOn(r, hidden, near) BY <1>9, <1>17
  <2>2. r.focused_layer \in {None} \cup MappedPanels(l) /\ s.focused_layer = r.focused_layer
        /\ s.focused_surface = r.focused_surface
    BY <1>7, <1>12, <2>1, PassedOnIsKept DEF SameButAsk
  <2>3. s.focused_layer # p BY <1>1, <1>7, <2>2
  <2>4. /\ server' \in Server /\ Ordered(server') /\ ~server'.locked /\ Kept(server')
        /\ server'.focused_layer \in InScene(l) \cup {None}
    <3>1. p \in InScene(l) BY <1>1, <1>5
    <3>2. MappedPanels(l) \subseteq InScene(l) BY <1>4, InSceneTyped
    <3> QED BY <1>11, <1>12, <1>14, <1>15, <2>2, <3>1, <3>2, AskKeeps
        DEF Outcome, SamePanels
  <2>5. LayersInv' BY <1>2, <1>4, <2>4 DEF LayersInv
  <2>6. YieldsUpwards BY <1>1, <1>2, <1>7, <1>17 DEF YieldsUpwards
  <2>7. ReturnsToWindow
    <3>1. SUFFICES ASSUME server'.focused_layer = None, server.input_mode = "passthrough"
                   PROVE Returned(server')
      BY DEF ReturnsToWindow, Returned
    <3>2. CASE r.focused_layer = None
      <4>1. Returned(r) BY <1>1, <1>17, <3>1, <3>2, <1>9 DEF GivenUp, LayersInv
      <4>2. server' = s BY <1>15, <2>2, <3>1, <3>2 DEF Idle
      <4> QED BY <1>12, <4>1, <4>2, AskKeeps
    <3>3. CASE r.focused_layer # None
      <4>1. Ordered(s) /\ s.input_mode = "passthrough" /\ s.focused_layer # None
        BY <1>9, <1>11, <1>12, <2>2, <3>1, <3>3, AskKeeps DEF SameButAsk, SamePanels
      <4> QED BY <1>15, <3>1, <4>1 DEF Outcome, GivenUp
    <3> QED BY <3>2, <3>3
  <2>8. PassesOn
    <3>1. CASE asked = "exclusive" BY <1>17, <3>1 DEF PassesOn
    <3>2. CASE asked # "exclusive"
      <4>1. server' = s
        <5>1. CASE asked = "same" BY <1>10, <5>1 DEF HandleCommit
        <5>2. CASE asked = "on_demand" BY <1>10, <2>3, <5>2 DEF HandleCommit
        <5>3. CASE asked = "none"
          <6>1. server' = TrySetFocus(s, l, p, near) BY <1>10, <5>3 DEF HandleCommit
          <6>2. s.interactivity[p] = "none" BY <1>12, <5>3
          <6> QED BY <2>3, <6>1, <6>2 DEF TrySetFocus
        <5> QED BY <3>2, <5>1, <5>2, <5>3 DEF Interactivity
      <4>2. \A q \in LayerSurfaces \ {p} : s.interactivity[q] = r.interactivity[q]
        BY <1>12 DEF SameButAsk
      <4>3. PassedOn(s, l, near) BY <1>4, <1>7, <2>1, <2>2, <4>2, PassedOnSame
      <4> QED BY <1>2, <1>4, <1>8, <4>1, <4>3, PassesOnByNext
    <3> QED BY <3>1, <3>2
  <2> QED BY <2>5, <2>6, <2>7, <2>8 DEF FocusHandled
<1> QED BY <1>16, <1>17
----------------------------------------------------------------------------
(* The other steps of the layer shell *)

\* A button press over a surface
LEMMA PressHandled ==
  ASSUME LayersInv, NEW p \in LayerSurfaces, Press(p) PROVE FocusHandled
<1>1. /\ p \in InScene(layers) /\ Arranged(layers) /\ server \in Server
      /\ layers' = layers /\ server.interactivity[p] # "none"
      /\ Kept(server) /\ KeptButFor(server, p) /\ ~server.locked
  BY InSceneTyped DEF LayersInv, Press, Kept, KeptButFor
<1>2. PICK near \in Near(layers) : server' = TrySetFocus(server, layers, p, near)
  BY DEF Press
<1>3. Outcome(server, server', layers', p)
  BY <1>1, <1>2, InSceneTyped, TrySetFocusOutcome
<1>4. SameButAsk(server, server, p) /\ SameOthers(layers, layers', p)
  BY <1>1 DEF SameButAsk, SameOthers
<1>5. /\ LayersInv' /\ YieldsUpwards /\ ReturnsToWindow
      /\ server.focused_layer # p => PassesOn
  BY <1>1, <1>3, <1>4, RequestHandled
<1>6. server.focused_layer = p => PassesOn
  BY <1>1, <1>3 DEF PassesOn, Outcome, SamePanels, IsExclusive
<1> QED BY <1>5, <1>6 DEF FocusHandled

\* A step that leaves the focused layer surface, and what the others ask for, alone
LEMMA FocusLeft ==
  ASSUME LayersInv, server' \in Server, Ordered(server'), ~server'.locked,
         server'.focused_layer = server.focused_layer,
         HasExclusiveLayer(server) => server'.focused_surface = server.focused_surface,
         Arranged(layers'),
         LET p == server.focused_layer
         IN  p # None => /\ p \in InScene(layers')
                         /\ server'.interactivity[p] = server.interactivity[p]
                         /\ layers'.phase[p] = layers.phase[p]
  PROVE FocusHandled
<1> DEFINE p == server.focused_layer
<1>1. HasExclusiveLayer(server') <=> HasExclusiveLayer(server) BY DEF HasExclusiveLayer
<1>2. LayersInv' BY <1>1 DEF LayersInv, Kept
<1>3. YieldsUpwards BY DEF YieldsUpwards
<1>4. PassesOn
  <2>1. p \in MappedPanels(layers) => p # None BY SeatAssumption DEF MappedPanels
  <2>2. p \in MappedPanels(layers) /\ IsExclusive(server, p)
          => p \in MappedPanels(layers') /\ IsExclusive(server', p)
    BY <2>1 DEF MappedPanels, IsExclusive
  <2> QED BY <2>2 DEF PassesOn
<1>5. ReturnsToWindow BY DEF ReturnsToWindow
<1> QED BY <1>2, <1>3, <1>4, <1>5 DEF FocusHandled

\* handle_new_layer_surface()
LEMMA NewPanelHandled ==
  ASSUME LayersInv, NEW p \in LayerSurfaces, NEW layer \in 0 .. Overlay, NEW o \in Outputs,
         NewPanel(p, layer, o)
  PROVE FocusHandled
<1> DEFINE F == [layers.phase EXCEPT ![p] = "new"]
           L == [layers.layer EXCEPT ![p] = layer]
           O == [layers.output EXCEPT ![p] = o]
           Q == layers.later \cup {p} \X InScene(layers)
           l == [layers EXCEPT !.phase = F, !.layer = L, !.output = O, !.later = Q]
           S == InScene(layers)
<1>1. /\ layers \in Layer /\ Arranged(layers) /\ server \in Server /\ o \in layers.outputs
      /\ p \notin S /\ S \subseteq LayerSurfaces
  BY DEF LayersInv, Arranged, NewPanel, InScene
<1>2. layers' = l BY <1>1, ZenonT(60) DEF NewPanel, Layer
<1>3. /\ F \in [LayerSurfaces -> Phases] /\ L \in [LayerSurfaces -> 0 .. Overlay]
      /\ O \in [LayerSurfaces -> Outputs \cup {None}]
      /\ F[p] = "new" /\ O[p] = o
      /\ \A q \in LayerSurfaces \ {p} : F[q] = layers.phase[q] /\ O[q] = layers.output[q]
  BY <1>1 DEF Layer, Phases
<1>4. /\ Q \subseteq (S \cup {p}) \X (S \cup {p}) /\ StrictOrder(Q, S \cup {p})
  <2>1. PutFirst(layers.later, S, p) = Q
    <3> HIDE DEF S
    <3>1. layers.later \subseteq S \X S BY <1>1 DEF Arranged, S
    <3>2. \A r \in layers.later : p \notin {r[1], r[2]} BY <1>1, <3>1
    <3> QED BY <1>1, <3>2 DEF PutFirst, S
  <2>2. layers.later \subseteq S \X S /\ StrictOrder(layers.later, S) BY <1>1 DEF Arranged
  <2> HIDE DEF S, Q
  <2> QED BY <2>1, <2>2, PutFirstIsStrict
<1>5. Q \in SUBSET (LayerSurfaces \X LayerSurfaces) BY <1>1 DEF Layer
<1>6. IsFiniteSet(S \cup {p}) BY <1>1, FS_AddElement DEF Arranged
<1> HIDE DEF F, L, O, Q
<1>7. /\ l \in Layer /\ l.phase = F /\ l.later = Q /\ l.output = O
      /\ l.outputs = layers.outputs
  BY <1>1, <1>3, <1>5 DEF Layer
<1> HIDE DEF l
<1>8. InScene(l) = S \cup {p} BY <1>3, <1>7 DEF InScene
<1>9. \A q \in InScene(l) : l.output[q] \in l.outputs
  BY <1>1, <1>3, <1>7, <1>8 DEF Arranged
<1>10. Arranged(layers') BY <1>2, <1>4, <1>6, <1>7, <1>8, <1>9 DEF Arranged
<1>11. SameButAsk(server, server', p)
  <2>1. server' = [server EXCEPT !.interactivity[p] = "none"] /\ "none" \in Interactivity
    BY DEF NewPanel, Interactivity
  <2> QED BY <1>1, <2>1, AskIs
<1>12. server.focused_layer # p BY <1>1, SeatAssumption DEF LayersInv
<1>13. server.focused_layer # None
         => /\ server.focused_layer \in InScene(layers')
            /\ server'.interactivity[server.focused_layer]
                 = server.interactivity[server.focused_layer]
            /\ layers'.phase[server.focused_layer] = layers.phase[server.focused_layer]
  BY <1>1, <1>2, <1>3, <1>7, <1>8, <1>11, <1>12 DEF LayersInv, SameButAsk
<1>14. /\ server' \in Server /\ Ordered(server') /\ ~server'.locked
       /\ server'.focused_layer = server.focused_layer
       /\ server'.focused_surface = server.focused_surface
  BY <1>11, AskKeeps DEF SameButAsk, LayersInv
<1> QED BY <1>10, <1>13, <1>14, FocusLeft

\* Surfaces leave the scene.
LEMMA RemovedIs ==
  ASSUME NEW l, Arranged(l), NEW P \in SUBSET InScene(l)
  PROVE LET c == Removed(l, P)
        IN  /\ Arranged(c) /\ InScene(c) = InScene(l) \ P
            /\ c.outputs = l.outputs
            /\ \A q \in LayerSurfaces \ P :
                  c.phase[q] = l.phase[q] /\ c.layer[q] = l.layer[q] /\ c.output[q] = l.output[q]
            /\ \A q, r \in LayerSurfaces \ P : <<q, r>> \in c.later <=> <<q, r>> \in l.later
<1> DEFINE F == [p \in LayerSurfaces |-> IF p \in P THEN "orphan" ELSE l.phase[p]]
           L == [p \in LayerSurfaces |-> IF p \in P THEN 0 ELSE l.layer[p]]
           O == [p \in LayerSurfaces |-> IF p \in P THEN None ELSE l.output[p]]
           Q == {r \in l.later : P \cap {r[1], r[2]} = {}}
           c == [l EXCEPT !.phase = F, !.layer = L, !.output = O, !.later = Q]
           S == InScene(l)
<1>1. l \in Layer /\ S \subseteq LayerSurfaces BY DEF Arranged, InScene
<1>2. Removed(l, P) = c BY <1>1, ZenonT(60) DEF Removed, Layer
<1>3. /\ F \in [LayerSurfaces -> Phases] /\ L \in [LayerSurfaces -> 0 .. Overlay]
      /\ O \in [LayerSurfaces -> Outputs \cup {None}]
  BY <1>1 DEF Layer, Phases, Overlay
<1>4. \A q \in LayerSurfaces \ P : F[q] = l.phase[q] /\ L[q] = l.layer[q] /\ O[q] = l.output[q]
  OBVIOUS
<1>5. \A q \in P : F[q] = "orphan" BY <1>1
<1>6. Q \subseteq (S \ P) \X (S \ P) /\ StrictOrder(Q, S \ P)
  <2> HIDE DEF S
  <2>1. l.later \subseteq S \X S /\ StrictOrder(l.later, S) BY DEF Arranged, S
  <2>2. \A q, r : <<q, r>> \in Q <=> <<q, r>> \in l.later /\ q \notin P /\ r \notin P
    OBVIOUS
  <2>3. Q \subseteq (S \ P) \X (S \ P) BY <2>1
  <2> HIDE DEF Q
  <2> QED BY <2>1, <2>2, <2>3 DEF StrictOrder
<1>7. Q \in SUBSET (LayerSurfaces \X LayerSurfaces) BY <1>1 DEF Layer
<1>8. \A q, r \in LayerSurfaces \ P : <<q, r>> \in Q <=> <<q, r>> \in l.later OBVIOUS
<1>9. IsFiniteSet(S \ P) BY FS_Subset DEF Arranged
<1> HIDE DEF F, L, O, Q
<1>10. /\ c \in Layer /\ c.phase = F /\ c.layer = L /\ c.later = Q /\ c.output = O
       /\ c.outputs = l.outputs
  BY <1>1, <1>3, <1>7 DEF Layer
<1> HIDE DEF c
<1>11. InScene(c) = S \ P BY <1>4, <1>5, <1>10 DEF InScene
<1>12. \A q \in InScene(c) : c.output[q] \in c.outputs
  BY <1>1, <1>4, <1>10, <1>11 DEF Arranged
<1>13. Arranged(c) BY <1>6, <1>9, <1>10, <1>11, <1>12 DEF Arranged
<1> QED BY <1>2, <1>4, <1>8, <1>10, <1>11, <1>13
\* seat_set_focus_layer(NULL), when the focused surface leaves the scene
LEMMA ClearHandled ==
  ASSUME LayersInv, server' = ClearFocusLayer(server), Arranged(layers'),
         server.focused_layer \notin InScene(layers'),
         server.focused_layer \notin MappedPanels(layers) \/ layers'.outputs # layers.outputs
  PROVE FocusHandled
<1>1. /\ SamePanels(server, server') /\ server'.focused_layer = None
      /\ server.input_mode = "passthrough" => Returned(server')
  BY ClearFocusLayerIs DEF LayersInv
<1>2. LayersInv' BY <1>1 DEF LayersInv, SamePanels, Kept, HasExclusiveLayer
<1>3. YieldsUpwards BY DEF YieldsUpwards
<1>4. PassesOn BY DEF PassesOn
<1>5. ReturnsToWindow BY <1>1 DEF ReturnsToWindow, Returned
<1> QED BY <1>2, <1>3, <1>4, <1>5 DEF FocusHandled

\* The client destroys the layer surface.
LEMMA DestroyPanelHandled ==
  ASSUME LayersInv, NEW p \in LayerSurfaces, DestroyPanel(p) PROVE FocusHandled
<1> DEFINE hidden == WithPhase(layers, p, "new")
           l == Removed(layers, {p})
<1>1. /\ p \in InScene(layers) /\ Arranged(layers) /\ server \in Server
      /\ layers' = l /\ p # None
  BY SeatAssumption DEF LayersInv, DestroyPanel
<1>2. PICK near \in Near(layers) :
        server' = NodeDestroy(IF layers.phase[p] = "mapped"
                              THEN HandleUnmap(server, hidden, p, near)
                              ELSE server, {p})
  BY DEF DestroyPanel, WithPhase
<1>3. /\ Arranged(hidden) /\ SameOthers(layers, hidden, p)
      /\ InScene(hidden) = InScene(layers) /\ hidden.phase[p] = "new"
  BY <1>1, PhaseIs
<1>4. /\ Arranged(l) /\ InScene(l) = InScene(layers) \ {p} /\ l.outputs = layers.outputs
      /\ SameOthers(layers, l, p)
  BY <1>1, RemovedIs DEF SameOthers
<1> DEFINE s == HandleUnmap(server, hidden, p, near)
<1> HIDE DEF hidden, l
<1>5. /\ SamePanels(server, s) /\ Kept(s) /\ GivenUp(server, s)
      /\ s.focused_layer \in {server.focused_layer, None} \cup MappedPanels(hidden)
      /\ server.focused_layer # p => s = server
      /\ server.focused_layer = p => PassedOn(s, hidden, near)
  BY HandleUnmapIs DEF LayersInv
<1> HIDE DEF s
<1>6. server' = NodeDestroy(IF layers.phase[p] = "mapped" THEN s ELSE server, {p})
  BY <1>2 DEF s
<1>7. CASE server.focused_layer # p
  <2>1. server' = server BY <1>5, <1>6, <1>7 DEF NodeDestroy
  <2>2. \A q \in LayerSurfaces \ {p} : layers'.phase[q] = layers.phase[q]
    BY <1>1, <1>4 DEF SameOthers
  <2>3. server.focused_layer # None
          => /\ server.focused_layer \in InScene(layers')
             /\ server'.interactivity[server.focused_layer]
                  = server.interactivity[server.focused_layer]
             /\ layers'.phase[server.focused_layer] = layers.phase[server.focused_layer]
    BY <1>1, <1>4, <1>7, <2>1, <2>2, InSceneTyped DEF LayersInv
  <2>4. /\ server' \in Server /\ Ordered(server') /\ ~server'.locked
        /\ server'.focused_layer = server.focused_layer
        /\ server'.focused_surface = server.focused_surface
    BY <2>1 DEF LayersInv
  <2> QED BY <1>1, <1>4, <2>3, <2>4, FocusLeft
<1>8. CASE server.focused_layer = p /\ layers.phase[p] # "mapped"
  <2>1. server' = ClearFocusLayer(server) BY <1>6, <1>8 DEF NodeDestroy
  <2>2. server.focused_layer \notin MappedPanels(layers) BY <1>8 DEF MappedPanels
  <2> QED BY <1>1, <1>4, <1>8, <2>1, <2>2, ClearHandled
<1>9. CASE server.focused_layer = p /\ layers.phase[p] = "mapped"
  <2>1. PassedOn(s, hidden, near) BY <1>5, <1>9
  <2>2. p \notin MappedPanels(hidden) /\ p \notin MappedPanels(l)
    BY <1>3, <1>4 DEF MappedPanels, InScene
  <2>3. s.focused_layer # p BY <1>1, <2>1, <2>2, PassedOnIsKept
  <2>4. server' = s BY <1>6, <1>9, <2>3 DEF NodeDestroy
  <2>5. s.focused_layer \in InScene(l) \cup {None}
    BY <1>3, <1>4, <2>1, <2>3, PassedOnIsKept, InSceneTyped
  <2>6. LayersInv' BY <1>1, <1>4, <1>5, <2>4, <2>5 DEF LayersInv, SamePanels
  <2>7. YieldsUpwards BY <1>1, <1>4, <1>9 DEF YieldsUpwards
  <2>8. ReturnsToWindow
    BY <1>5, <2>4 DEF LayersInv, GivenUp, Returned, ReturnsToWindow
  <2>9. SameOthers(hidden, l, p) BY <1>3, <1>4 DEF SameOthers
  <2>10. PassedOn(s, l, near) BY <2>1, <2>2, <2>9, PassedOnSame
  <2>11. near \in Near(layers') BY <1>1, <1>4 DEF Near
  <2>12. PassesOn BY <1>1, <1>4, <2>4, <2>10, <2>11, PassesOnByNext
  <2> QED BY <2>6, <2>7, <2>8, <2>12 DEF FocusHandled
<1> QED BY <1>7, <1>8, <1>9

\* The wl_surface goes.
LEMMA DestroySurfaceHandled ==
  ASSUME LayersInv, NEW p \in LayerSurfaces, DestroySurface(p) PROVE FocusHandled
<1> DEFINE F == [layers.phase EXCEPT ![p] = "none"]
           l == [layers EXCEPT !.phase = F]
           s == [server EXCEPT !.interactivity[p] = "none"]
<1>1. /\ layers \in Layer /\ Arranged(layers) /\ server \in Server /\ p \notin InScene(layers)
      /\ layers.phase[p] = "orphan"
  BY DEF LayersInv, Arranged, DestroySurface, InScene
<1>2. layers' = l /\ server' = SurfaceDestroyed(s, p) BY <1>1 DEF DestroySurface, Layer
<1>3. /\ F \in [LayerSurfaces -> Phases] /\ F[p] = "none"
      /\ \A q \in LayerSurfaces \ {p} : F[q] = layers.phase[q]
  BY <1>1 DEF Layer, Phases
<1> HIDE DEF F
<1>4. /\ l \in Layer /\ l.phase = F /\ l.later = layers.later /\ l.output = layers.output
      /\ l.outputs = layers.outputs
  BY <1>1, <1>3 DEF Layer
<1> HIDE DEF l
<1>5. InScene(l) = InScene(layers) BY <1>1, <1>3, <1>4 DEF InScene
<1>6. Arranged(layers') BY <1>1, <1>2, <1>4, <1>5 DEF Arranged
<1>7. SameButAsk(server, s, p)
  <2>1. "none" \in Interactivity BY DEF Interactivity
  <2> QED BY <1>1, <2>1, AskIs
<1> HIDE DEF s
<1>8. s \in Server BY <1>7 DEF SameButAsk
<1>9. /\ SameButKeyboard(s, server')
      /\ server'.focused_surface = IF s.focused_surface = p THEN None ELSE s.focused_surface
  BY <1>2, <1>8, SurfaceDestroyedIs
<1>10. server.focused_layer # p BY <1>1, SeatAssumption DEF LayersInv
<1>11. HasExclusiveLayer(server) => server'.focused_surface = server.focused_surface
  BY <1>7, <1>9, <1>10 DEF LayersInv, Kept, SameButAsk
<1>12. /\ server' \in Server /\ Ordered(server') /\ ~server'.locked
       /\ server'.focused_layer = server.focused_layer
       /\ server'.interactivity = s.interactivity
  BY <1>7, <1>9 DEF SameButKeyboard, SameButAsk, Ordered, LayersInv
<1>13. server.focused_layer # None
         => /\ server.focused_layer \in InScene(layers')
            /\ server'.interactivity[server.focused_layer]
                 = server.interactivity[server.focused_layer]
            /\ layers'.phase[server.focused_layer] = layers.phase[server.focused_layer]
  BY <1>1, <1>2, <1>3, <1>4, <1>5, <1>7, <1>10, <1>12, InSceneTyped DEF LayersInv, SameButAsk
<1> QED BY <1>6, <1>11, <1>12, <1>13, FocusLeft

\* Outputs come and go.
LEMMA OutputsIs ==
  ASSUME NEW l, Arranged(l), NEW O \in SUBSET Outputs,
         \A p \in InScene(l) : l.output[p] \in O
  PROVE LET c == [l EXCEPT !.outputs = O]
        IN  Arranged(c) /\ InScene(c) = InScene(l) /\ c.outputs = O /\ c.phase = l.phase
<1> DEFINE c == [l EXCEPT !.outputs = O]
<1>1. l \in Layer BY DEF Arranged
<1>2. /\ c \in Layer /\ c.outputs = O /\ c.phase = l.phase /\ c.later = l.later
      /\ c.output = l.output
  BY <1>1 DEF Layer
<1> HIDE DEF c
<1>3. InScene(c) = InScene(l) BY <1>2 DEF InScene
<1>4. Arranged(c) BY <1>2, <1>3 DEF Arranged
<1> QED BY <1>2, <1>3, <1>4 DEF c

LEMMA OutputRemovedHandled ==
  ASSUME LayersInv, NEW o \in Outputs, OutputRemoved(o) PROVE FocusHandled
<1> DEFINE P == { p \in InScene(layers) : layers.output[p] = o }
           r == Removed(layers, P)
           O == layers.outputs \ {o}
           l == [r EXCEPT !.outputs = O]
<1>1. /\ Arranged(layers) /\ layers \in Layer /\ server \in Server /\ o \in layers.outputs
      /\ layers' = [Removed(layers, P) EXCEPT !.outputs = @ \ {o}]
      /\ server' = NodeDestroy(server, P)
  BY DEF LayersInv, Arranged, OutputRemoved
<1>2. P \in SUBSET InScene(layers) OBVIOUS
<1>3. /\ Arranged(r) /\ InScene(r) = InScene(layers) \ P /\ r.outputs = layers.outputs
      /\ \A q \in LayerSurfaces \ P :
            r.phase[q] = layers.phase[q] /\ r.output[q] = layers.output[q]
  <2> HIDE DEF P
  <2> QED BY <1>1, <1>2, RemovedIs
<1>4. layers' = l BY <1>1, <1>3
<1> HIDE DEF r
<1>5. InScene(layers) \subseteq LayerSurfaces BY DEF InScene
<1>6. O \in SUBSET Outputs BY <1>1 DEF Layer
<1>7. \A p \in InScene(r) : r.output[p] \in O
  BY <1>1, <1>3, <1>5 DEF Arranged
<1> HIDE DEF P, O
<1>8. Arranged(l) /\ InScene(l) = InScene(r) /\ l.outputs = O /\ l.phase = r.phase
  BY <1>3, <1>6, <1>7, OutputsIs
<1> HIDE DEF l
<1>9. CASE server.focused_layer \in P
  <2>1. server' = ClearFocusLayer(server) BY <1>1, <1>9 DEF NodeDestroy
  <2>2. layers'.outputs # layers.outputs BY <1>1, <1>4, <1>8 DEF O
  <2> QED BY <1>3, <1>4, <1>8, <1>9, <2>1, <2>2, ClearHandled
<1>10. CASE server.focused_layer \notin P
  <2>1. server' = server BY <1>1, <1>10 DEF NodeDestroy
  <2>2. server.focused_layer # None
          => /\ server.focused_layer \in InScene(layers')
             /\ server'.interactivity[server.focused_layer]
                  = server.interactivity[server.focused_layer]
             /\ layers'.phase[server.focused_layer] = layers.phase[server.focused_layer]
    BY <1>3, <1>4, <1>5, <1>8, <1>10, <2>1 DEF LayersInv
  <2>3. /\ server' \in Server /\ Ordered(server') /\ ~server'.locked
        /\ server'.focused_layer = server.focused_layer
        /\ server'.focused_surface = server.focused_surface
    BY <2>1 DEF LayersInv
  <2> QED BY <1>4, <1>8, <2>2, <2>3, FocusLeft
<1> QED BY <1>9, <1>10

LEMMA OutputAddedHandled ==
  ASSUME LayersInv, NEW o \in Outputs, OutputAdded(o) PROVE FocusHandled
<1> DEFINE O == layers.outputs \cup {o}
           l == [layers EXCEPT !.outputs = O]
<1>1. /\ Arranged(layers) /\ layers \in Layer /\ server \in Server
      /\ layers' = l /\ server' = server
  BY DEF LayersInv, Arranged, OutputAdded
<1>2. O \in SUBSET Outputs /\ \A p \in InScene(layers) : layers.output[p] \in O
  BY <1>1 DEF Layer, Arranged
<1> HIDE DEF O
<1>3. Arranged(l) /\ InScene(l) = InScene(layers) /\ l.outputs = O /\ l.phase = layers.phase
  BY <1>1, <1>2, OutputsIs
<1> HIDE DEF l
<1>4. server.focused_layer # None
        => /\ server.focused_layer \in InScene(layers')
           /\ server'.interactivity[server.focused_layer]
                = server.interactivity[server.focused_layer]
           /\ layers'.phase[server.focused_layer] = layers.phase[server.focused_layer]
  BY <1>1, <1>3 DEF LayersInv
<1>5. /\ server' \in Server /\ Ordered(server') /\ ~server'.locked
      /\ server'.focused_layer = server.focused_layer
      /\ server'.focused_surface = server.focused_surface
  BY <1>1 DEF LayersInv
<1> QED BY <1>1, <1>3, <1>4, <1>5, FocusLeft

\* Every handler of the desktop, and a step that changes nothing
LEMMA DesktopHandled ==
  ASSUME LayersInv, Next \/ UNCHANGED server, UNCHANGED layers PROVE FocusHandled
<1>1. /\ server \in Server /\ Ordered(server) /\ Arranged(layers)
      /\ server.focused_layer \in InScene(layers) \cup {None}
      /\ InScene(layers) \subseteq LayerSurfaces
  BY InSceneTyped DEF LayersInv
<1>2. /\ server' \in Server /\ Ordered(server') /\ ~server'.locked
      /\ server'.focused_layer = server.focused_layer
      /\ HasExclusiveLayer(server) => server'.focused_surface = server.focused_surface
      /\ server'.interactivity = server.interactivity
  <2>1. CASE DesktopStep
    <3>1. Keeps(server, server') BY <1>1, <2>1, DesktopStepKeeps
    <3> QED BY <1>1, <3>1 DEF Keeps, LayersInv
  <2>2. CASE \E v \in Views : Destroy(v)
    <3>1. PICK v \in Views : Destroy(v) BY <2>2
    <3>2. Leaves(server, server', v) BY <1>1, <3>1, DestroyLeaves
    <3>3. v \notin server.mapped BY <3>1 DEF Destroy
    <3>4. HasExclusiveLayer(server) => server.focused_surface # v
      BY <1>1, SeatAssumption DEF LayersInv, Kept, HasExclusiveLayer
    <3> QED BY <1>1, <3>2, <3>3, <3>4 DEF Leaves, LayersInv
  <2>3. CASE UNCHANGED server BY <1>1, <2>3 DEF LayersInv
  <2> QED BY <2>1, <2>2, <2>3 DEF Next
<1> QED BY <1>1, <1>2, FocusLeft

\* Every step of the layer shell and of the desktop under it
LEMMA LayersNextHandled ==
  ASSUME LayersInv, [LayersNext]_layerVars PROVE FocusHandled
<1>1. ASSUME NEW p \in LayerSurfaces, PanelStep(p) PROVE FocusHandled
  <2>1. CASE \E layer \in 0 .. Overlay, asked \in Interactivity \cup {"same"} :
                Commit(p, layer, asked)
    BY <2>1, CommitHandled
  <2>2. CASE \E layer \in 0 .. Overlay, asked \in Interactivity \cup {"same"} :
                Show(p, layer, asked)
    BY <2>2, ShowHandled
  <2>3. CASE \E layer \in 0 .. Overlay, asked \in Interactivity \cup {"same"} :
                Hide(p, layer, asked)
    BY <2>3, HideHandled
  <2>4. CASE \E layer \in 0 .. Overlay, o \in Outputs : NewPanel(p, layer, o)
    BY <2>4, NewPanelHandled
  <2>5. CASE DestroyPanel(p) BY <2>5, DestroyPanelHandled
  <2>6. CASE DestroySurface(p) BY <2>6, DestroySurfaceHandled
  <2>7. CASE Press(p) BY <2>7, PressHandled
  <2> QED BY <1>1, <2>1, <2>2, <2>3, <2>4, <2>5, <2>6, <2>7 DEF PanelStep
<1>2. CASE OutputStep BY <1>2, OutputRemovedHandled, OutputAddedHandled DEF OutputStep
<1>3. CASE Next /\ UNCHANGED layers BY <1>3, DesktopHandled
<1>4. CASE UNCHANGED layerVars
  <2>1. UNCHANGED server /\ UNCHANGED layers BY <1>4 DEF layerVars
  <2> QED BY <2>1, DesktopHandled
<1> QED BY <1>1, <1>2, <1>3, <1>4 DEF LayersNext

\* The invariant is one.
LEMMA LayersSpecInv == LayersSpec => []LayersInv
<1>1. LayersInit => LayersInv BY LayersInitInv
<1>2. LayersInv /\ [LayersNext]_layerVars => LayersInv' BY LayersNextHandled DEF FocusHandled
<1> QED BY <1>1, <1>2, PTL DEF LayersSpec

\* The focused layer surface exists, on an output that exists, and has the keyboard as
\* long as it demands it, for any windows, panels and outputs (handle_node_destroy(),
\* layer_try_set_focus() and everything in the desktop that moves the focus).
THEOREM FocusedLayer == LayersSpec => []FocusedLayerIsRight
<1>1. LayersInv => FocusedLayerIsRight
  <2> HAVE LayersInv
  <2>1. LayersTypeOK BY DEF LayersInv, Arranged, StrictOrder, LayersTypeOK
  <2>2. FocusedLayerLives BY DEF LayersInv, Arranged, FocusedLayerLives
  <2>3. ExclusiveHasKeyboard BY DEF LayersInv, Kept, ExclusiveHasKeyboard
  <2> QED BY <2>1, <2>2, <2>3 DEF FocusedLayerIsRight
<1> QED BY <1>1, LayersSpecInv, PTL

\* Only a surface of the same or a higher layer takes the focus from an exclusive one
\* that stays one (has_precedence()).
THEOREM ExclusiveYields == LayersSpec => ExclusiveYieldsUpwards
<1>1. LayersInv /\ [LayersNext]_layerVars => YieldsUpwards
  BY LayersNextHandled DEF FocusHandled
<1>2. ExclusiveYieldsUpwards <=> [][YieldsUpwards]_layerVars
  BY DEF ExclusiveYieldsUpwards, YieldsUpwards
<1> QED BY <1>1, <1>2, LayersSpecInv, PTL DEF LayersSpec

\* When a mapped exclusive surface gives the focus up, the first exclusive surface of
\* an output gets it, and when the last one does, a window gets the keyboard if there is
\* one to take it (try_to_focus_next_layer_or_toplevel()).
THEOREM FocusPassed == LayersSpec => FocusIsPassedOn
<1>1. LayersInv /\ [LayersNext]_layerVars => PassesOn /\ ReturnsToWindow
  BY LayersNextHandled DEF FocusHandled
<1>2. FocusPassesOn <=> [][PassesOn]_layerVars BY DEF FocusPassesOn, PassesOn
<1>3. KeyboardReturnsToWindow <=> [][ReturnsToWindow]_layerVars
  BY DEF KeyboardReturnsToWindow, ReturnsToWindow
<1>4. LayersSpec => FocusPassesOn BY <1>1, <1>2, LayersSpecInv, PTL DEF LayersSpec
<1>5. LayersSpec => KeyboardReturnsToWindow BY <1>1, <1>3, LayersSpecInv, PTL DEF LayersSpec
<1> QED BY <1>4, <1>5 DEF FocusIsPassedOn
=============================================================================

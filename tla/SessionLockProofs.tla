------------------------- MODULE SessionLockProofs -------------------------
(***************************************************************************)
(* That a locked session stays behind its lock, for any number of outputs, *)
(* lock surfaces and windows.                                              *)
(*                                                                         *)
(* src/session-lock.c and src/seat.c each keep a part: the manager knows   *)
(* which surface is focused, the seat who has the keyboard, and a dozen    *)
(* functions of the desktop try to give the keyboard to a view behind the  *)
(* lock.  The coherence of DesktopProofs does not survive the lock, as the *)
(* active view loses the keyboard while the session is locked and an input *)
(* mode may begin and end meanwhile.  What survives is Quiet, and one lemma*)
(* per function shows that it leaves the keyboard where it is (Behind).    *)
(*                                                                         *)
(* The invariant LInv adds what the manager keeps of the outputs           *)
(* (CoversAgree) and that the manager and the server agree (LocksAgree).   *)
(* Each is needed for the others: a session_lock_output whose callback is  *)
(* pending must still be a cover of a locked session for update_focus() not*)
(* to give the keyboard away, and a mapped surface must be on a cover for  *)
(* refocus_output() to find it.                                            *)
(***************************************************************************)
EXTENDS SessionLock, DesktopProofs

----------------------------------------------------------------------------
(* The seat while the session is locked *)

\* No layer surface has the focus, and outside of passthrough mode the keyboard is
\* with nobody, unless a lock surface has it.
Quiet(s) ==
    /\ s.focused_layer = None
    /\ ~s.locked /\ s.input_mode # "passthrough" => s.focused_surface = None

\* What the functions of the desktop do to the seat: while the session is locked
\* they do not move the keyboard, and they never lock or unlock it.
Behind(s, t) ==
    /\ t \in Server
    /\ t.views = s.views /\ t.mapped = s.mapped
    /\ t.locked = s.locked
    /\ s.locked => t.focused_surface = s.focused_surface
    /\ Quiet(t)

\* What only concerns the seat
SameDesktop(s, t) ==
    /\ t \in Server
    /\ t.views = s.views /\ t.mapped = s.mapped
    /\ t.parent = s.parent /\ t.above = s.above
    /\ t.locked = s.locked /\ t.focused_layer = s.focused_layer
    /\ t.last_active = s.last_active

\* Calls one after the other
LEMMA BehindTwice ==
  ASSUME NEW s, NEW t, NEW u, Behind(s, t), Behind(t, u) PROVE Behind(s, u)
BY DEF Behind

\* wlr_seat_keyboard_enter() and handle_focus_change()
LEMMA KeyboardEnterSame ==
  ASSUME NEW s \in Server, NEW f \in Surfaces \cup {None}
  PROVE LET t == KeyboardEnter(s, f)
        IN  /\ SameDesktop(s, t) /\ t.focused_surface = f
            /\ t.input_mode = s.input_mode /\ t.override = s.override
<1> DEFINE t == [s EXCEPT !.focused_surface = f]
           u == [t EXCEPT !.active_view = f]
<1>1. t \in Server BY DEF Server
<1>2. SameDesktop(s, t) /\ t.focused_surface = f
      /\ t.input_mode = s.input_mode /\ t.override = s.override
  BY DEF Server, SameDesktop
<1> HIDE DEF t
<1>3. f \notin Surfaces \ Views => SameDesktop(t, u) /\ u.focused_surface = f
         /\ u.input_mode = t.input_mode /\ u.override = t.override
  BY <1>1, <1>2 DEF Server, SameDesktop, Surfaces
<1> HIDE DEF u
<1>4. \/ KeyboardEnter(s, f) = s /\ s.focused_surface = f
      \/ KeyboardEnter(s, f) = t
      \/ KeyboardEnter(s, f) = u /\ f \notin Surfaces \ Views
  BY DEF KeyboardEnter, HandleFocusChange, t, u
<1>5. SameDesktop(s, s) BY DEF SameDesktop
<1> QED BY <1>2, <1>3, <1>4, <1>5 DEF SameDesktop

\* seat_focus_surface() does nothing while the session is locked.
LEMMA SeatFocusBehind ==
  ASSUME NEW s \in Server, Quiet(s), NEW f \in Views \cup {None}
  PROVE LET t == SeatFocusSurface(s, f)
        IN  /\ Behind(s, t) /\ SameDesktop(s, t) /\ t.input_mode = s.input_mode
            /\ ~s.locked /\ s.input_mode = "passthrough" => t.focused_surface = f
<1> DEFINE k == KeyboardEnter(s, f)
<1>1. f \in Surfaces \cup {None} BY DEF Surfaces
<1>2. SameDesktop(s, k) /\ k.focused_surface = f /\ k.input_mode = s.input_mode
  BY <1>1, KeyboardEnterSame
<1> HIDE DEF k
<1>3. SeatFocusSurface(s, f) = IF s.input_mode # "passthrough" \/ s.locked THEN s ELSE k
  BY DEF SeatFocusSurface, SeatFocus, HasExclusiveLayer, Quiet, k
<1> QED BY <1>2, <1>3 DEF Behind, Quiet, SameDesktop

\* seat_focus_lock_surface()
LEMMA SeatFocusLockIs ==
  ASSUME NEW s, NEW f PROVE SeatFocusLockSurface(s, f) = KeyboardEnter(s, f)
BY DEF SeatFocusLockSurface, SeatFocus

\* seat_focus_override_begin()
LEMMA OverrideBeginBehind ==
  ASSUME NEW s \in Server, Quiet(s), NEW mode \in InputModes
  PROVE Behind(s, FocusOverrideBegin(s, mode))
<1> DEFINE t == [s EXCEPT !.input_mode = mode, !.override = s.focused_surface]
           k == KeyboardEnter(t, None)
<1>1. t \in Server BY ZenonT(60) DEF Server
<1>2. /\ SameDesktop(s, t) /\ t.focused_surface = s.focused_surface
      /\ t.input_mode = mode
  BY <1>1 DEF Server, SameDesktop
<1> HIDE DEF t
<1>3. SameDesktop(t, k) /\ k.focused_surface = None BY <1>1, KeyboardEnterSame
<1> HIDE DEF k
<1>4. FocusOverrideBegin(s, mode) = IF s.locked THEN t ELSE k
  BY <1>2 DEF FocusOverrideBegin, SeatFocus, HasExclusiveLayer, Quiet, SameDesktop, t, k
<1> QED BY <1>2, <1>3, <1>4 DEF Behind, Quiet, SameDesktop

\* seat_focus_override_end()
LEMMA OverrideEndBehind ==
  ASSUME NEW s \in Server, Quiet(s)
  PROVE Behind(s, FocusOverrideEnd(s, TRUE))
<1> DEFINE t == [s EXCEPT !.input_mode = "passthrough"]
           k == KeyboardEnter(t, t.override)
           u == IF t.override # None /\ ~t.locked THEN k ELSE t
           x == [u EXCEPT !.override = None]
<1>1. t \in Server BY DEF Server, InputModes
<1>2. /\ SameDesktop(s, t) /\ t.focused_surface = s.focused_surface
      /\ t.input_mode = "passthrough"
  BY <1>1 DEF Server, SameDesktop
<1> HIDE DEF t
<1>3. t.override \in Surfaces \cup {None} BY <1>1 DEF Server
<1>4. SameDesktop(t, k) /\ k.input_mode = t.input_mode BY <1>1, <1>3, KeyboardEnterSame
<1>5. SameDesktop(t, u) /\ u.input_mode = t.input_mode
      /\ (t.locked => u.focused_surface = t.focused_surface)
  <2> HIDE DEF k
  <2> QED BY <1>1, <1>4 DEF SameDesktop
<1>6. FocusOverrideEnd(s, TRUE) = x
  BY <1>2 DEF FocusOverrideEnd, SeatFocus, HasExclusiveLayer, Quiet, SameDesktop, t
<1> HIDE DEF u
<1>7. SameDesktop(u, x) /\ x.input_mode = u.input_mode /\ x.focused_surface = u.focused_surface
  BY <1>5 DEF SameDesktop, Server
<1> HIDE DEF x
<1> QED BY <1>2, <1>5, <1>6, <1>7 DEF Behind, Quiet, SameDesktop

\* The surface of a view is destroyed.
LEMMA SurfaceDestroyedSame ==
  ASSUME NEW s \in Server, Quiet(s), NEW x \in Surfaces
  PROVE LET t == SurfaceDestroyed(s, x)
        IN  /\ SameDesktop(s, t) /\ t.input_mode = s.input_mode /\ Quiet(t)
            /\ t.focused_surface = IF s.focused_surface = x THEN None ELSE s.focused_surface
<1> DEFINE k == IF s.focused_surface = x THEN KeyboardEnter(s, None) ELSE s
           u == [k EXCEPT !.override = None]
<1>1. /\ SameDesktop(s, k) /\ k.input_mode = s.input_mode
      /\ k.focused_surface = IF s.focused_surface = x THEN None ELSE s.focused_surface
  BY KeyboardEnterSame DEF SameDesktop
<1>2. SurfaceDestroyed(s, x) = IF k.override = x THEN u ELSE k
  BY DEF SurfaceDestroyed
<1> HIDE DEF k
<1>3. SameDesktop(k, u) /\ u.input_mode = k.input_mode /\ u.focused_surface = k.focused_surface
  BY <1>1 DEF SameDesktop, Server
<1> HIDE DEF u
<1> QED BY <1>1, <1>2, <1>3 DEF SameDesktop, Quiet

----------------------------------------------------------------------------
(* The functions of the desktop *)

\* A function of the desktop that does not concern the keyboard leaves it alone.
LEMMA UnseatedIsBehind ==
  ASSUME NEW s, NEW t, Quiet(s), Unseated(s, t) PROVE Behind(s, t)
BY DEF Behind, Quiet, Unseated

\* The same windows, in the same order
SameWindows(s, t) ==
    /\ t.views = s.views /\ t.mapped = s.mapped
    /\ t.parent = s.parent /\ t.above = s.above

\* The modal dialog that takes the focus depends on the views and on their order.
LEMMA FocusTargetSame ==
  ASSUME NEW s, NEW t, SameWindows(s, t), NEW v
  PROVE FocusTarget(t, v) = FocusTarget(s, v)
<1>1. \A w : Ancestors(t, w) = Ancestors(s, w) BY DEF Ancestors, SameWindows
<1>2. \A w : Root(t, w) = Root(s, w)
  <2> TAKE w
  <2>1. Ancestors(t, w) = Ancestors(s, w) /\ t.parent = s.parent
    BY <1>1 DEF SameWindows
  <2> QED BY <2>1, Zenon DEF Root
<1>3. SubViews(t, Root(t, v)) = SubViews(s, Root(s, v)) BY <1>2 DEF SubViews, SameWindows
<1>4. \A d, D : IsBottom(t, d, D) <=> IsBottom(s, d, D) BY DEF IsBottom, SameWindows
<1> DEFINE D == SubViews(s, Root(s, v)) \cap Modal
<1>5. FocusTarget(s, v) = IF v \notin Modal /\ \E d \in D : IsBottom(s, d, D)
                          THEN CHOOSE d \in D : IsBottom(s, d, D) ELSE v
  BY DEF FocusTarget
<1>6. FocusTarget(t, v) = IF v \notin Modal /\ \E d \in D : IsBottom(t, d, D)
                          THEN CHOOSE d \in D : IsBottom(t, d, D) ELSE v
  BY <1>3 DEF FocusTarget
<1> HIDE DEF D
<1>7. (CHOOSE d \in D : IsBottom(t, d, D)) = CHOOSE d \in D : IsBottom(s, d, D)
  BY <1>4, Zenon
<1>8. (\E d \in D : IsBottom(t, d, D)) <=> \E d \in D : IsBottom(s, d, D) BY <1>4
<1>9. CASE v \notin Modal /\ \E d \in D : IsBottom(s, d, D)
  <2>1. FocusTarget(s, v) = CHOOSE d \in D : IsBottom(s, d, D) BY <1>5, <1>9, Zenon
  <2>2. FocusTarget(t, v) = CHOOSE d \in D : IsBottom(t, d, D)
    BY <1>6, <1>8, <1>9, Zenon
  <2> QED BY <1>7, <2>1, <2>2, Zenon
<1>10. CASE ~(v \notin Modal /\ \E d \in D : IsBottom(s, d, D))
  BY <1>5, <1>6, <1>8, <1>10, Zenon
<1> QED BY <1>9, <1>10

\* In passthrough mode of an unlocked session v, or its dialog, gets the keyboard.
Focused(s, v) == s.focused_surface = FocusTarget(s, v)
GetsFocus(s, t, v) == ~s.locked /\ s.input_mode = "passthrough" => Focused(t, v)

\* desktop_focus_view_internal()
LEMMA FocusNowBehind ==
  ASSUME NEW s \in Server, Quiet(s), NEW v \in Views, NEW raise, NEW delay
  PROVE LET t == FocusNow(s, v, raise, delay)
        IN  Behind(s, t) /\ (v \in s.mapped => GetsFocus(s, t, v))
<1> DEFINE t == IF v \in s.omnipresent THEN s ELSE SwitchWorkspace(s, s.workspace[v])
           next == IF raise /\ delay THEN v ELSE None
           u == [t EXCEPT !.auto_raise = next]
           w == IF raise /\ ~delay THEN MoveToFront(u, v) ELSE u
           x == SeatFocusSurface(w, FocusTarget(w, v))
           y == ShowDesktopReset(x)
<1>1. CASE s.input_mode = "cycle" \/ v \notin s.mapped
  <2>1. FocusNow(s, v, raise, delay) = s BY <1>1 DEF FocusNow
  <2>2. Behind(s, s) BY DEF Behind
  <2> QED BY <1>1, <2>1, <2>2 DEF GetsFocus
<1>2. CASE ~(s.input_mode = "cycle" \/ v \notin s.mapped)
  <2>1. s.workspace[v] \in Workspaces BY DEF Server
  <2>2. Unseated(s, t)
    <3>1. Unseated(s, s) BY DEF Unseated
    <3> QED BY <2>1, <3>1, SwitchUnseated
  <2>3. Unseated(t, u)
    <3>1. next \in Views \cup {None} OBVIOUS
    <3> HIDE DEF t, next
    <3> QED BY <2>2, <3>1 DEF Unseated, Server
  <2> HIDE DEF t
  <2>4. Unseated(u, w)
    <3>1. u \in Server BY <2>3 DEF Unseated
    <3> HIDE DEF u
    <3>2. Unseated(u, u) BY <3>1 DEF Unseated
    <3> QED BY <3>1, <3>2, MoveToFrontUnseated
  <2> HIDE DEF u
  <2>5. Unseated(s, w) BY <2>2, <2>3, <2>4, UnseatedTwice
  <2>6. w \in Server /\ Quiet(w) BY <2>5, UnseatedIsBehind DEF Behind
  <2> HIDE DEF w
  <2>7. FocusTarget(w, v) \in Views \cup {None}
    <3>1. v \in w.mapped /\ w.mapped \subseteq Views
      BY <1>2, <2>5, <2>6 DEF Unseated, Server
    <3> QED BY <3>1, FocusTargetMapped
  <2>8. Behind(w, x) /\ SameDesktop(w, x)
        /\ (~w.locked /\ w.input_mode = "passthrough"
              => x.focused_surface = FocusTarget(w, v))
    BY <2>6, <2>7, SeatFocusBehind
  <2> HIDE DEF x
  <2>9. x \in Server /\ Quiet(x) BY <2>8 DEF Behind
  <2>10. Unseated(x, y) /\ y.above = x.above /\ y.last_active = x.last_active
    BY <2>9, ResetUnseated DEF SamePlaces
  <2> HIDE DEF y
  <2>11. Behind(s, y) BY <2>5, <2>8, <2>9, <2>10, UnseatedIsBehind, BehindTwice
  <2>12. SameDesktop(w, y) BY <2>8, <2>10 DEF SameDesktop, Unseated
  <2>13. GetsFocus(s, y, v)
    BY <2>5, <2>8, <2>10, <2>12, FocusTargetSame
       DEF GetsFocus, Unseated, Focused, SameDesktop, SameWindows
  <2>14. FocusNow(s, v, raise, delay) = y BY <1>2 DEF FocusNow, t, u, w, x, y
  <2> QED BY <2>11, <2>13, <2>14
<1> QED BY <1>1, <1>2

\* desktop_focus_topmost_view()
LEMMA FocusTopmostBehind ==
  ASSUME NEW s \in Server, Quiet(s) PROVE Behind(s, FocusTopmost(s))
<1> DEFINE C == OnCurrentWorkspace(s) \ s.minimized
           v == CHOOSE v \in C : IsTop(s, v, C)
<1>1. C \subseteq Views BY DEF OnCurrentWorkspace, Server
<1>2. Behind(s, SeatFocusSurface(s, None)) BY SeatFocusBehind
<1>3. (\E w \in C : IsTop(s, w, C)) => v \in Views BY <1>1
<1>4. FocusTopmost(s) = IF \E w \in C : IsTop(s, w, C) THEN FocusNow(s, v, TRUE, FALSE)
                        ELSE SeatFocusSurface(s, None)
  BY DEF FocusTopmost
<1> HIDE DEF C, v
<1>5. \A raise, delay : v \in Views => Behind(s, FocusNow(s, v, raise, delay))
  BY FocusNowBehind
<1> QED BY <1>2, <1>3, <1>4, <1>5

\* interactive_cancel()
LEMMA InteractiveCancelBehind ==
  ASSUME NEW s \in Server, Quiet(s), NEW v PROVE Behind(s, InteractiveCancel(s, v))
<1> DEFINE t == [s EXCEPT !.grabbed_view = None]
<1>1. Unseated(s, t) BY DEF Server, Unseated
<1>2. InteractiveCancel(s, v) \in {s, t, FocusOverrideEnd(t, TRUE)}
  BY DEF InteractiveCancel
<1> HIDE DEF t
<1>3. Behind(s, t) BY <1>1, UnseatedIsBehind
<1>4. Behind(t, FocusOverrideEnd(t, TRUE)) BY <1>3, OverrideEndBehind DEF Behind
<1>5. Behind(s, FocusOverrideEnd(t, TRUE)) BY <1>3, <1>4, BehindTwice
<1>6. Behind(s, s) BY DEF Behind
<1> QED BY <1>2, <1>3, <1>5, <1>6

\* view_minimize(); a view that is not minimized any more gets the focus.
LEMMA ViewMinimizeBehind ==
  ASSUME NEW s \in Server, Quiet(s), NEW v \in Views, NEW minimized \in BOOLEAN
  PROVE LET t == ViewMinimize(s, v, minimized)
        IN  /\ Behind(s, t)
            /\ v \in s.mapped \cap s.minimized /\ v \in Family(s, v) /\ ~minimized
               => GetsFocus(s, t, v)
<1> DEFINE family == Family(s, v)
           changed == { w \in family : (w \in s.minimized) # minimized }
           M == IF minimized THEN s.minimized \cup family ELSE s.minimized \ family
           t == [s EXCEPT !.minimized = M]
           u == IF minimized /\ s.grabbed_view \in changed \cap s.mapped
                THEN InteractiveCancel(t, s.grabbed_view)
                ELSE t
           r == ViewMinimize(s, v, minimized)
<1>1. family \subseteq Views BY FamilyType
<1>2. M \in SUBSET Views
  <2> HIDE DEF family
  <2> QED BY <1>1 DEF Server
<1>3. Unseated(s, t) /\ t.minimized = M
  <2> HIDE DEF M
  <2> QED BY <1>2 DEF Server, Unseated
<1>4. ~minimized => u = t OBVIOUS
<1>5. Behind(s, u)
  <2> HIDE DEF t
  <2>1. Behind(s, t) BY <1>3, UnseatedIsBehind
  <2>2. Behind(t, InteractiveCancel(t, s.grabbed_view))
    BY <2>1, InteractiveCancelBehind DEF Behind
  <2> QED BY <2>1, <2>2, BehindTwice
<1>6. \A raise, delay : Behind(u, FocusNow(u, v, raise, delay))
                         /\ (v \in u.mapped => GetsFocus(u, FocusNow(u, v, raise, delay), v))
  <2> HIDE DEF u
  <2> QED BY <1>5, FocusNowBehind DEF Behind
<1>7. Behind(u, FocusTopmost(u))
  <2> HIDE DEF u
  <2> QED BY <1>5, FocusTopmostBehind DEF Behind
<1>8. r \in {s, u, FocusTopmost(u), FocusNow(u, v, TRUE, FALSE)}
  <2>1. CASE s.input_mode = "cycle" BY <2>1 DEF ViewMinimize
  <2>2. CASE s.input_mode # "cycle" /\ minimized
    BY <2>2 DEF ViewMinimize
  <2>3. CASE s.input_mode # "cycle" /\ ~minimized
    BY <2>3 DEF ViewMinimize
  <2> QED BY <2>1, <2>2, <2>3
<1>9. Behind(s, r)
  <2> HIDE DEF u, r
  <2>1. Behind(s, s) BY DEF Behind
  <2> QED BY <1>5, <1>6, <1>7, <1>8, <2>1, BehindTwice
<1>10. ASSUME v \in s.mapped \cap s.minimized, v \in Family(s, v), ~minimized
       PROVE GetsFocus(s, r, v)
  <2>1. CASE s.input_mode = "cycle" BY <2>1 DEF GetsFocus
  <2>2. CASE s.input_mode # "cycle"
    <3>1. v \in changed /\ v \notin M BY <1>10
    <3>2. ViewMinimize(s, v, minimized)
            = IF changed \cap s.mapped # {} /\ v \notin u.minimized
              THEN FocusNow(u, v, TRUE, FALSE) ELSE u
      BY <1>10, <2>2 DEF ViewMinimize
    <3>3. v \notin u.minimized
      <4> HIDE DEF u, t, M
      <4> QED BY <1>3, <1>4, <1>10, <3>1
    <3>4. r = FocusNow(u, v, TRUE, FALSE)
      <4> HIDE DEF changed, u
      <4> QED BY <1>10, <3>1, <3>2, <3>3
    <3>5. u.locked = s.locked /\ u.input_mode = s.input_mode /\ u.mapped = s.mapped
      <4> HIDE DEF u, t
      <4> QED BY <1>3, <1>4, <1>10 DEF Unseated
    <3> HIDE DEF u, r
    <3> QED BY <1>6, <1>10, <3>4, <3>5 DEF GetsFocus
  <2> QED BY <2>1, <2>2
<1> HIDE DEF r
<1> QED BY <1>9, <1>10 DEF r

\* desktop_focus_view()
LEMMA FocusViewBehind ==
  ASSUME NEW s \in Server, Quiet(s), NEW v \in Views, NEW raise, NEW delay
  PROVE LET t == FocusView(s, v, raise, delay)
        IN  Behind(s, t) /\ (v \in s.mapped /\ v \in Family(s, v) => GetsFocus(s, t, v))
<1>1. Behind(s, FocusNow(s, v, raise, delay))
      /\ (v \in s.mapped => GetsFocus(s, FocusNow(s, v, raise, delay), v))
  BY FocusNowBehind
<1>2. Behind(s, ViewMinimize(s, v, FALSE))
      /\ (v \in s.mapped \cap s.minimized /\ v \in Family(s, v)
            => GetsFocus(s, ViewMinimize(s, v, FALSE), v))
  BY ViewMinimizeBehind
<1>3. FocusView(s, v, raise, delay) = IF v \in s.minimized THEN ViewMinimize(s, v, FALSE)
                                      ELSE FocusNow(s, v, raise, delay)
  BY DEF FocusView
<1> QED BY <1>1, <1>2, <1>3

\* workspaces_switch_to() with a refocus
LEMMA SwitchToWorkspaceBehind ==
  ASSUME NEW s \in Server, Quiet(s), NEW w \in Workspaces
  PROVE Behind(s, SwitchToWorkspace(s, w))
<1> DEFINE t == SwitchWorkspace(s, w)
           u == IF t.active_view \in t.omnipresent THEN t ELSE FocusTopmost(t)
           x == ShowDesktopReset(u)
<1>1. Behind(s, t) BY SwitchUnseated, UnseatedIsBehind
<1> HIDE DEF t
<1>2. Behind(t, FocusTopmost(t)) /\ Behind(t, t) BY <1>1, FocusTopmostBehind DEF Behind
<1>3. Behind(s, u) BY <1>1, <1>2, BehindTwice
<1> HIDE DEF u
<1>4. Behind(u, x) BY <1>3, ResetUnseated, UnseatedIsBehind DEF Behind
<1> HIDE DEF x
<1>5. SwitchToWorkspace(s, w) = IF w = s.current THEN s ELSE x
  BY DEF SwitchToWorkspace, t, u, x
<1>6. Behind(s, s) BY DEF Behind
<1> QED BY <1>3, <1>4, <1>5, <1>6, BehindTwice

----------------------------------------------------------------------------
(* The handlers of the desktop, behind the lock *)

\* What they find, and what they leave behind
Calm(s) == s \in Server /\ Quiet(s) /\ s.mapped \subseteq s.views

Handled(s, t) ==
    /\ Calm(t)
    /\ t.locked = s.locked
    /\ s.locked => t.focused_surface = s.focused_surface

\* Functions that leave the windows alone
LEMMA BehindHandled ==
  ASSUME NEW s, NEW t, Calm(s), Behind(s, t) PROVE Handled(s, t)
BY DEF Handled, Calm, Behind

\* A handler that is made of two steps
LEMMA HandledThenBehind ==
  ASSUME NEW s, NEW t, NEW u, Handled(s, t), Behind(t, u) PROVE Handled(s, u)
BY DEF Handled, Calm, Behind

\* Handlers that change nothing but the windows
LEMMA SeatLeftAlone ==
  ASSUME NEW s, NEW t \in Server, Calm(s), t.mapped \subseteq t.views,
         t.locked = s.locked, t.focused_layer = s.focused_layer,
         t.focused_surface = s.focused_surface, t.input_mode = s.input_mode
  PROVE Handled(s, t)
BY DEF Handled, Calm, Quiet

\* handle_new_xdg_toplevel()
LEMMA NewToplevelHandled ==
  ASSUME Calm(server), NEW v \in Views, NewToplevel(v) PROVE Handled(server, server')
<1> DEFINE W == [server.workspace EXCEPT ![v] = server.current]
           A == server.above \cup {v} \X server.views
           V == server.views \cup {v}
<1>1. server \in Server /\ server.mapped \subseteq server.views BY DEF Calm
<1>2. /\ W \in [Views -> Workspaces] /\ A \in SUBSET (Views \X Views)
      /\ V \in SUBSET Views /\ server.mapped \subseteq V
  BY <1>1 DEF Server
<1>3. server' = [server EXCEPT !.views = V, !.above = A, !.workspace = W]
  BY <1>1 DEF NewToplevel, Server
<1> HIDE DEF W, A, V
<1>4. /\ server' \in Server
      /\ server'.views = V /\ server'.mapped = server.mapped
      /\ server'.locked = server.locked /\ server'.focused_layer = server.focused_layer
      /\ server'.focused_surface = server.focused_surface
      /\ server'.input_mode = server.input_mode
  BY <1>1, <1>2, <1>3, ZenonT(60) DEF Server
<1> QED BY <1>2, <1>4, SeatLeftAlone

\* wl_list and record updates of one field that the keyboard does not depend on
LEMMA FieldHandled ==
  ASSUME NEW s, Calm(s)
  PROVE /\ \A P \in [Views -> Views \cup {None}] : Handled(s, [s EXCEPT !.parent = P])
        /\ \A W \in [Views -> Workspaces] : Handled(s, [s EXCEPT !.workspace = W])
        /\ \A O \in SUBSET Views : Handled(s, [s EXCEPT !.omnipresent = O])
        /\ \A M \in SUBSET s.views : Handled(s, [s EXCEPT !.mapped = M])
        /\ \A v \in Views \cup {None} : Handled(s, [s EXCEPT !.grabbed_view = v])
        /\ \A v \in Views \cup {None} : Handled(s, [s EXCEPT !.auto_raise = v])
<1>1. s \in Server /\ s.mapped \subseteq s.views /\ s.views \subseteq Views
  BY DEF Calm, Server
<1>2. \A P \in [Views -> Views \cup {None}] : Handled(s, [s EXCEPT !.parent = P])
  BY <1>1, SeatLeftAlone DEF Server
<1>3. \A W \in [Views -> Workspaces] : Handled(s, [s EXCEPT !.workspace = W])
  BY <1>1, SeatLeftAlone DEF Server
<1>4. \A O \in SUBSET Views : Handled(s, [s EXCEPT !.omnipresent = O])
  BY <1>1, SeatLeftAlone DEF Server
<1>5. \A M \in SUBSET s.views : Handled(s, [s EXCEPT !.mapped = M])
  BY <1>1, SeatLeftAlone DEF Server
<1>6. \A v \in Views \cup {None} : Handled(s, [s EXCEPT !.grabbed_view = v])
  BY <1>1, SeatLeftAlone DEF Server
<1>7. \A v \in Views \cup {None} : Handled(s, [s EXCEPT !.auto_raise = v])
  BY <1>1, SeatLeftAlone DEF Server
<1> QED BY <1>2, <1>3, <1>4, <1>5, <1>6, <1>7

\* handle_set_parent()
LEMMA SetParentHandled ==
  ASSUME Calm(server), NEW v \in Views, NEW p \in Views \cup {None}, SetParent(v, p)
  PROVE Handled(server, server')
<1>1. server \in Server BY DEF Calm
<1>2. [server.parent EXCEPT ![v] = p] \in [Views -> Views \cup {None}]
  BY <1>1 DEF Server
<1>3. server' = [server EXCEPT !.parent = [server.parent EXCEPT ![v] = p]]
  BY <1>1 DEF SetParent, Server
<1> QED BY <1>2, <1>3, FieldHandled

\* view_impl_map()
LEMMA MapHandled ==
  ASSUME Calm(server), NEW v \in Views, Map(v) PROVE Handled(server, server')
<1> DEFINE s == [server EXCEPT !.mapped = server.mapped \cup {v}]
<1>1. server.mapped \cup {v} \in SUBSET server.views BY DEF Calm, Map
<1>2. Handled(server, s) BY <1>1, FieldHandled
<1>3. server' \in {s, FocusView(s, v, TRUE, FALSE)} BY DEF Map
<1> HIDE DEF s
<1>4. s \in Server /\ Quiet(s) BY <1>2 DEF Handled, Calm
<1>5. \A raise, delay : Behind(s, FocusView(s, v, raise, delay)) BY <1>4, FocusViewBehind
<1> QED BY <1>2, <1>3, <1>5, HandledThenBehind

\* view_impl_unmap(), and the parents of the view and of its children
LEMMA UnmapHandled ==
  ASSUME Calm(server), NEW v \in Views, Unmap(v) PROVE Handled(server, server')
<1> DEFINE s == [server EXCEPT !.mapped = server.mapped \ {v}]
           c == InteractiveCancel(s, v)
           u == IF v \in server.minimized THEN s ELSE c
           f == FocusTopmost(u)
           r == IF u.active_view \in {v, None} THEN f ELSE u
           P == [ w \in Views |-> IF w = v THEN None
                        ELSE IF r.parent[w] = v THEN r.parent[v] ELSE r.parent[w] ]
<1>1. server.mapped \ {v} \in SUBSET server.views BY DEF Calm
<1>2. Handled(server, s) BY <1>1, FieldHandled
<1>3. ImplUnmap(server, v) = r BY DEF ImplUnmap
<1> HIDE DEF s
<1>4. Behind(s, c) BY <1>2, InteractiveCancelBehind DEF Handled, Calm
<1> HIDE DEF c
<1>5. Handled(server, u) BY <1>2, <1>4, HandledThenBehind
<1> HIDE DEF u
<1>6. Behind(u, f) BY <1>5, FocusTopmostBehind DEF Handled, Calm
<1> HIDE DEF f
<1>7. Handled(server, r) BY <1>5, <1>6, HandledThenBehind
<1> HIDE DEF r
<1>8. P \in [Views -> Views \cup {None}] BY <1>7 DEF Handled, Calm, Server
<1>9. server' = [r EXCEPT !.parent = P] BY <1>3 DEF Unmap
<1> HIDE DEF P
<1>10. Handled(r, [r EXCEPT !.parent = P]) BY <1>7, <1>8, FieldHandled DEF Handled
<1> QED BY <1>7, <1>9, <1>10 DEF Handled

\* What clients ask for
LEMMA ClientStepHandled ==
  ASSUME Calm(server), NEW v \in Views, ClientStep(v) PROVE Handled(server, server')
<1>1. CASE NewToplevel(v) BY <1>1, NewToplevelHandled
<1>2. CASE \E p \in Views \cup {None} : SetParent(v, p) BY <1>2, SetParentHandled
<1>3. CASE Map(v) BY <1>3, MapHandled
<1>4. CASE Unmap(v) BY <1>4, UnmapHandled
<1>5. CASE \E b \in BOOLEAN : RequestMinimize(v, b)
  BY <1>5, ViewMinimizeBehind, BehindHandled DEF RequestMinimize, Calm
<1>6. CASE Activate(v) BY <1>6, FocusViewBehind, BehindHandled DEF Activate, Calm
<1> QED BY <1>1, <1>2, <1>3, <1>4, <1>5, <1>6 DEF ClientStep

\* SendToDesktop
LEMMA SendToDesktopHandled ==
  ASSUME Calm(server), NEW v \in Views, NEW w \in Workspaces, NEW follow \in BOOLEAN,
         SendToDesktop(v, w, follow)
  PROVE Handled(server, server')
<1> DEFINE W == [server.workspace EXCEPT ![v] = w]
           s == [server EXCEPT !.workspace = W]
<1>1. server \in Server BY DEF Calm
<1>2. W \in [Views -> Workspaces] BY <1>1 DEF Server
<1>3. Handled(server, s)
  <2> HIDE DEF W
  <2> QED BY <1>2, FieldHandled
<1>4. s = [server EXCEPT !.workspace[v] = w] BY <1>1 DEF Server
<1>5. server' \in {s, SwitchToWorkspace(s, w), FocusTopmost(s)}
  <2> HIDE DEF s
  <2> QED BY <1>4 DEF SendToDesktop
<1> HIDE DEF s
<1>6. Behind(s, SwitchToWorkspace(s, w)) /\ Behind(s, FocusTopmost(s))
  BY <1>3, SwitchToWorkspaceBehind, FocusTopmostBehind DEF Handled, Calm
<1> QED BY <1>3, <1>5, <1>6, HandledThenBehind

\* The actions of key bindings and menus
LEMMA ActionStepHandled ==
  ASSUME Calm(server), NEW v \in Views, ActionStep(v) PROVE Handled(server, server')
<1>1. server \in Server /\ Quiet(server) BY DEF Calm
<1>2. CASE FocusAction(v) BY <1>1, <1>2, FocusViewBehind, BehindHandled DEF FocusAction
<1>3. CASE Raise(v)
  BY <1>1, <1>3, MoveToFrontUnseated, UnseatedIsBehind, BehindHandled DEF Raise
<1>4. CASE Lower(v)
  BY <1>1, <1>4, MoveToBackUnseated, UnseatedIsBehind, BehindHandled DEF Lower
<1>5. CASE \E w \in Workspaces, follow \in BOOLEAN : SendToDesktop(v, w, follow)
  BY <1>5, SendToDesktopHandled
<1>6. CASE ToggleOmnipresent(v)
  <2> DEFINE O == IF v \in server.omnipresent THEN server.omnipresent \ {v}
                                              ELSE server.omnipresent \cup {v}
  <2>1. O \in SUBSET Views BY <1>1 DEF Server
  <2>2. server' = [server EXCEPT !.omnipresent = O] BY <1>6 DEF ToggleOmnipresent
  <2> HIDE DEF O
  <2> QED BY <2>1, <2>2, FieldHandled
<1> QED BY <1>2, <1>3, <1>4, <1>5, <1>6 DEF ActionStep

\* What the pointer does over a view
LEMMA CursorStepHandled ==
  ASSUME Calm(server), NEW v \in Views, CursorStep(v) PROVE Handled(server, server')
<1>1. server \in Server /\ Quiet(server) BY DEF Calm
<1>2. CASE CursorEnter(v) BY <1>1, <1>2, FocusViewBehind, BehindHandled DEF CursorEnter
<1>3. CASE ButtonPress(v) BY <1>3, FieldHandled DEF ButtonPress
<1>4. CASE \E mode \in {"move", "resize"} : InteractiveBegin(v, mode)
  BY <1>1, <1>4, OverrideBeginBehind, BehindHandled DEF InteractiveBegin, InputModes
<1> QED BY <1>2, <1>3, <1>4 DEF CursorStep

\* The rest of the session: timers, workspaces, the menu and the end of a grab
LEMMA SessionStepHandled ==
  ASSUME Calm(server), SessionStep PROVE Handled(server, server')
<1>1. server \in Server /\ Quiet(server) BY DEF Calm
<1>2. CASE UnfocusAction BY <1>1, <1>2, SeatFocusBehind, BehindHandled DEF UnfocusAction
<1>3. CASE AutoRaiseTimer
  <2> DEFINE s == [server EXCEPT !.auto_raise = None]
             v == server.auto_raise
  <2>1. Handled(server, s) BY FieldHandled
  <2>2. server' = IF v \in s.mapped THEN MoveToFront(s, v) ELSE s
    BY <1>3 DEF AutoRaiseTimer
  <2> HIDE DEF s, v
  <2>3. Behind(s, MoveToFront(s, v))
    BY <2>1, MoveToFrontUnseated, UnseatedIsBehind DEF Handled, Calm
  <2> QED BY <2>1, <2>2, <2>3, HandledThenBehind
<1>4. CASE \E w \in Workspaces : GoToDesktop(w)
  BY <1>1, <1>4, SwitchToWorkspaceBehind, BehindHandled DEF GoToDesktop
<1>5. CASE ButtonRelease
  BY <1>1, <1>5, InteractiveCancelBehind, BehindHandled DEF ButtonRelease
<1>6. CASE OpenMenu
  BY <1>1, <1>6, OverrideBeginBehind, BehindHandled DEF OpenMenu, InputModes
<1>7. CASE CloseMenu
  BY <1>1, <1>7, OverrideEndBehind, BehindHandled DEF CloseMenu
<1> QED BY <1>2, <1>3, <1>4, <1>5, <1>6, <1>7 DEF SessionStep

\* view_destroy(): while the session is locked no view has the keyboard to lose.
LEMMA DestroyHandled ==
  ASSUME Calm(server), server.locked => server.focused_surface \notin Views,
         NEW v \in Views, Destroy(v)
  PROVE Handled(server, server')
<1>1. server \in Server /\ Quiet(server) /\ server.mapped \subseteq server.views BY DEF Calm
<1>2. PICK ownMenu \in {FALSE, server.input_mode = "menu"} :
        LET s == Forget(server, v)
            t == IF ownMenu THEN FocusOverrideEnd(s, TRUE) ELSE s
        IN  server' = RemoveView(t, v)
  BY DEF Destroy
<1> DEFINE c == InteractiveCancel(server, v)
           s == Forget(server, v)
           e == FocusOverrideEnd(s, TRUE)
           t == IF ownMenu THEN e ELSE s
           x == [t EXCEPT !.views = @ \ {v},
                          !.above = { p \in @ : v \notin {p[1], p[2]} },
                          !.parent[v] = None,
                          !.minimized = @ \ {v},
                          !.workspace[v] = FirstWorkspace,
                          !.omnipresent = @ \ {v},
                          !.hidden = @ \ {v}]
<1>3. Behind(server, c) BY <1>1, InteractiveCancelBehind
<1>4. Unseated(c, s)
  <2> DEFINE A == IF c.active_view = v THEN None ELSE c.active_view
             R == IF c.auto_raise = v THEN None ELSE c.auto_raise
             L == IF c.last_active = v THEN None ELSE c.last_active
  <2>1. c \in Server BY <1>3 DEF Behind
  <2>2. s = [c EXCEPT !.active_view = A, !.auto_raise = R, !.last_active = L]
    BY DEF Forget
  <2> HIDE DEF c, s
  <2>3. {A, R, L} \subseteq Views \cup {None} BY <2>1 DEF Server
  <2> HIDE DEF A, R, L
  <2> QED BY <2>1, <2>2, <2>3 DEF Server, Unseated
<1> HIDE DEF s
<1>5. Behind(server, s)
  <2> HIDE DEF c
  <2> QED BY <1>3, <1>4, UnseatedIsBehind, BehindTwice DEF Behind
<1>6. Behind(server, t)
  <2> HIDE DEF e
  <2>1. Behind(s, e) BY <1>5, OverrideEndBehind DEF Behind, e
  <2> QED BY <1>5, <2>1, BehindTwice
<1>7. server' = SurfaceDestroyed(x, v) BY <1>2 DEF RemoveView, s
<1> HIDE DEF t
<1>8. t \in Server /\ v \notin t.mapped BY <1>1, <1>6 DEF Behind, Destroy
<1>9. /\ x \in Server /\ x.mapped \subseteq x.views /\ x.mapped = t.mapped
      /\ x.locked = t.locked /\ x.focused_layer = t.focused_layer
      /\ x.focused_surface = t.focused_surface /\ x.input_mode = t.input_mode
  <2> DEFINE V == t.views \ {v}
             A == { p \in t.above : v \notin {p[1], p[2]} }
             P == [t.parent EXCEPT ![v] = None]
             M == t.minimized \ {v}
             W == [t.workspace EXCEPT ![v] = FirstWorkspace]
             O == t.omnipresent \ {v}
             H == t.hidden \ {v}
  <2>1. /\ V \in SUBSET Views /\ A \in SUBSET (Views \X Views)
        /\ P \in [Views -> Views \cup {None}] /\ M \in SUBSET Views
        /\ W \in [Views -> Workspaces] /\ O \in SUBSET Views /\ H \in SUBSET Views
    BY <1>8, DesktopAssumption DEF Server
  <2>2. t.mapped \subseteq V BY <1>1, <1>6, <1>8 DEF Behind
  <2>3. x = [t EXCEPT !.views = V, !.above = A, !.parent = P, !.minimized = M,
                      !.workspace = W, !.omnipresent = O, !.hidden = H]
    BY <1>8 DEF Server
  <2> HIDE DEF V, A, P, M, W, O, H, x
  <2> QED BY <1>8, <2>1, <2>2, <2>3, ZenonT(60) DEF Server
<1> HIDE DEF x
<1>10. Quiet(x) BY <1>6, <1>9 DEF Behind, Quiet
<1> DEFINE y == SurfaceDestroyed(x, v)
<1>11. /\ SameDesktop(x, y) /\ Quiet(y)
       /\ y.focused_surface = IF x.focused_surface = v THEN None ELSE x.focused_surface
  BY <1>9, <1>10, SurfaceDestroyedSame DEF Surfaces
<1> HIDE DEF y
<1>12. server.locked => y.focused_surface = server.focused_surface
  BY <1>6, <1>9, <1>11 DEF Behind
<1>13. Handled(server, y)
  BY <1>6, <1>9, <1>11, <1>12 DEF Handled, Calm, SameDesktop, Behind
<1> QED BY <1>7, <1>13 DEF y

\* Every handler of the desktop
LEMMA NextHandled ==
  ASSUME Calm(server), server.locked => server.focused_surface \notin Views, Next
  PROVE Handled(server, server')
BY ClientStepHandled, ActionStepHandled, CursorStepHandled, SessionStepHandled, DestroyHandled
   DEF Next, DesktopStep

----------------------------------------------------------------------------
(* The inductive invariant *)

\* The lock surfaces that some output shows
Shown(l) == { l.surface[o] : o \in l.covers }

\* What session_lock_output_create() and session_lock_output_destroy() keep of the
\* outputs: who has a timer is covered, and so is whose callback is scheduled, and a
\* lock surface is on a covered output, or is not mapped any more.
CoversAgree(l) ==
    /\ l.covers = l.blank \cup l.timer
    /\ l.idle \subseteq l.covers
    /\ \A o \in Outputs : l.surface[o] # None => o \in l.covers
    /\ l.mapped \subseteq Shown(l)

\* The manager and the server know of the same session.
LocksAgree(s, l) ==
    /\ l.lock => s.locked
    /\ IF s.locked THEN l.covers = l.outputs ELSE l.covers = {} /\ l.focused = None
    /\ s.locked => s.focused_surface = l.focused
    /\ l.focused \in Shown(l) \cup {None}

LInv ==
    /\ Calm(server)
    /\ lock \in Lock
    /\ CoversAgree(lock)
    /\ LocksAgree(server, lock)

\* The state after startup
LEMMA InitLInv == LockInit => LInv
<1> SUFFICES ASSUME LockInit PROVE LInv OBVIOUS
<1>1. server \in Server /\ Quiet(server) /\ ~server.locked
      /\ server.mapped \subseteq server.views
  BY SeatAssumption, DesktopAssumption
     DEF LockInit, Init, Server, Quiet, InputModes, Interactivity
<1>2. /\ lock \in Lock /\ lock.covers = {} /\ lock.blank = {} /\ lock.timer = {}
      /\ lock.idle = {} /\ lock.mapped = {} /\ lock.focused = None /\ ~lock.lock
      /\ lock.surface \in [Outputs -> {None}]
  BY DEF LockInit, Lock
<1> QED BY <1>1, <1>2 DEF LInv, Calm, CoversAgree, LocksAgree

----------------------------------------------------------------------------
(* The functions of the manager *)

\* focus_surface(): the keyboard follows the manager's focus.
LEMMA FocusSurfaceIs ==
  ASSUME NEW s \in Server, NEW l, l.focused = s.focused_surface,
         NEW f \in LockSurfaces \cup {None}
  PROVE LET t == FocusSurface(s, l, f)
        IN  /\ SameDesktop(s, t) /\ t.focused_surface = f
            /\ t.input_mode = s.input_mode
<1>1. f \in Surfaces \cup {None} BY DEF Surfaces
<1>2. LET k == KeyboardEnter(s, f)
      IN  SameDesktop(s, k) /\ k.focused_surface = f /\ k.input_mode = s.input_mode
  BY <1>1, KeyboardEnterSame
<1>3. SameDesktop(s, s) BY DEF SameDesktop
<1>4. FocusSurface(s, l, f) = IF f = l.focused THEN s ELSE KeyboardEnter(s, f)
  BY SeatFocusLockIs DEF FocusSurface
<1> QED BY <1>2, <1>3, <1>4

\* session_lock_output_destroy() for a set of outputs
LEMMA DropCoversIs ==
  ASSUME NEW l \in Lock, CoversAgree(l), NEW O \in SUBSET Outputs
  PROVE LET d == DropCovers(l, O)
        IN  /\ d \in Lock /\ CoversAgree(d)
            /\ d.covers = l.covers \ O /\ d.lock = l.lock /\ d.outputs = l.outputs
            /\ d.focused = l.focused
            /\ d.mapped = l.mapped \ { l.surface[o] : o \in O }
            /\ d.surface = [ o \in Outputs |-> IF o \in O THEN None ELSE l.surface[o] ]
<1> DEFINE F == [ o \in Outputs |-> IF o \in O THEN None ELSE l.surface[o] ]
           M == l.mapped \ { l.surface[o] : o \in O }
           B == (l.stale \/ O \cap l.idle # {})
           d == [l EXCEPT !.covers = l.covers \ O, !.blank = l.blank \ O,
                          !.timer = l.timer \ O, !.surface = F, !.mapped = M,
                          !.idle = l.idle \ O, !.stale = B]
<1>1. DropCovers(l, O) = d BY DEF DropCovers, Lock
<1>2. /\ F \in [Outputs -> LockSurfaces \cup {None}] /\ M \in SUBSET LockSurfaces
      /\ B \in BOOLEAN
  BY DEF Lock
<1>3. /\ d \in Lock
      /\ d.covers = l.covers \ O /\ d.lock = l.lock /\ d.outputs = l.outputs
      /\ d.focused = l.focused /\ d.mapped = M /\ d.surface = F
      /\ d.blank = l.blank \ O /\ d.timer = l.timer \ O /\ d.idle = l.idle \ O
  <2> HIDE DEF F, M, B
  <2> QED BY <1>2 DEF Lock
<1> HIDE DEF d
<1>4. \A o \in Outputs : d.surface[o] # None => o \in d.covers BY <1>3 DEF CoversAgree
<1>5. d.mapped \subseteq Shown(d)
  <2> SUFFICES ASSUME NEW x \in M PROVE x \in Shown(d) BY <1>3
  <2>1. PICK o \in l.covers : x = l.surface[o] BY DEF CoversAgree, Shown
  <2>2. o \notin O BY <2>1
  <2>3. o \in Outputs BY <2>1 DEF Lock
  <2>4. o \in d.covers /\ d.surface[o] = x BY <1>3, <2>1, <2>2, <2>3
  <2> QED BY <2>4 DEF Shown
<1>6. CoversAgree(d) BY <1>3, <1>4, <1>5 DEF CoversAgree
<1> QED BY <1>1, <1>3, <1>6

\* session_lock_destroy(): nothing is left over.
LEMMA DropLockIs ==
  ASSUME NEW l \in Lock, CoversAgree(l), l.focused \in Shown(l) \cup {None}
  PROVE LET d == DropLock(l)
        IN  /\ d \in Lock /\ CoversAgree(d)
            /\ d.covers = {} /\ d.mapped = {} /\ d.focused = None
            /\ ~d.lock /\ d.outputs = l.outputs
<1> DEFINE c == DropCovers(l, l.covers)
           d == [c EXCEPT !.lock = FALSE, !.focused = None]
<1>1. l.covers \in SUBSET Outputs BY DEF Lock
<1>2. /\ c \in Lock /\ CoversAgree(c) /\ c.covers = l.covers \ l.covers
      /\ c.outputs = l.outputs /\ c.focused = l.focused
      /\ c.mapped = l.mapped \ { l.surface[o] : o \in l.covers }
  BY <1>1, DropCoversIs
<1>3. DropLock(l) = d
  <2>1. (IF c.focused \in { l.surface[o] : o \in l.covers } THEN None ELSE c.focused) = None
    <3> HIDE DEF c
    <3> QED BY <1>2 DEF Shown
  <2> QED BY <2>1 DEF DropLock
<1>4. c.covers = {} /\ c.mapped = {}
  <2> HIDE DEF c
  <2> QED BY <1>2 DEF CoversAgree, Shown
<1> HIDE DEF c
<1>5. /\ d \in Lock /\ d.covers = c.covers /\ d.mapped = c.mapped /\ d.focused = None
      /\ ~d.lock /\ d.outputs = c.outputs /\ d.blank = c.blank /\ d.timer = c.timer
      /\ d.idle = c.idle /\ d.surface = c.surface
  BY <1>2 DEF Lock
<1> HIDE DEF d
<1>6. CoversAgree(d) BY <1>2, <1>4, <1>5 DEF CoversAgree, Shown
<1> QED BY <1>2, <1>3, <1>4, <1>5, <1>6

\* session_lock_output_create() for a set of outputs
LEMMA AddCoversIs ==
  ASSUME NEW l \in Lock, CoversAgree(l), NEW O \in SUBSET Outputs, NEW b \in BOOLEAN
  PROVE LET d == AddCovers(l, O, b)
        IN  /\ d \in Lock /\ CoversAgree(d)
            /\ d.covers = l.covers \cup O /\ d.mapped = l.mapped /\ d.focused = l.focused
            /\ d.lock = l.lock /\ d.outputs = l.outputs /\ d.surface = l.surface
            /\ l.focused \in Shown(l) \cup {None} => d.focused \in Shown(d) \cup {None}
<1> DEFINE B == IF b THEN l.blank \cup O ELSE l.blank
           T == IF b THEN l.timer ELSE l.timer \cup O
           d == [l EXCEPT !.covers = l.covers \cup O, !.blank = B, !.timer = T]
<1>1. AddCovers(l, O, b) = d BY DEF AddCovers
<1>2. B \in SUBSET Outputs /\ T \in SUBSET Outputs /\ B \cup T = l.blank \cup l.timer \cup O
  BY DEF Lock
<1> HIDE DEF B, T
<1>3. /\ d \in Lock /\ d.covers = l.covers \cup O /\ d.mapped = l.mapped
      /\ d.focused = l.focused /\ d.lock = l.lock /\ d.outputs = l.outputs
      /\ d.surface = l.surface /\ d.blank = B /\ d.timer = T /\ d.idle = l.idle
  BY <1>2 DEF Lock
<1> HIDE DEF d
<1>4. Shown(l) \subseteq Shown(d) BY <1>3 DEF Shown
<1>5. CoversAgree(d) BY <1>2, <1>3, <1>4 DEF CoversAgree
<1> QED BY <1>1, <1>3, <1>4, <1>5

----------------------------------------------------------------------------
(* The handlers of the manager *)

\* The steps of KeyboardMovesToAnotherOutput and of UnlockFocusesRemembered
KeyboardMoves ==
    server.locked /\ server'.locked /\ lock.lock'
    /\ lock.focused # None /\ lock.focused' = None
    => lock.mapped' = {}

UnlockRestores ==
    server.locked /\ ~server'.locked
    /\ server.last_active \in server.mapped
    /\ server.input_mode = "passthrough"
    => server'.focused_surface = FocusTarget(server', server.last_active)

LStep == LInv' /\ KeyboardMoves /\ UnlockRestores

\* Handlers that leave the seat and the manager's focus alone
LEMMA FocusKeptStep ==
  ASSUME LInv, UNCHANGED server, lock' \in Lock, CoversAgree(lock'),
         LocksAgree(server, lock'), lock.focused # None => lock.focused' # None
  PROVE LStep
BY DEF LInv, LStep, KeyboardMoves, UnlockRestores

\* While the session is locked, a change of the seat that leaves the windows alone
\* leaves a server that is as calm as before.
LEMMA LockedCalm ==
  ASSUME NEW s, NEW t, Calm(s), SameDesktop(s, t), s.locked PROVE Calm(t)
BY DEF Calm, Quiet, SameDesktop

\* What the manager's focus may move to when some surfaces go
LEMMA RefocusIs ==
  ASSUME NEW l \in Lock, NEW gone \in SUBSET LockSurfaces,
         l.focused \in Shown(l) \cup {None}, l.mapped \subseteq Shown(l),
         NEW f \in Refocus(l, gone)
  PROVE /\ f \in LockSurfaces \cup {None}
        /\ f \notin gone
        /\ f \in Shown(l) \cup {None}
        /\ l.focused = None => f = None
        /\ l.focused # None /\ f = None => l.mapped \ gone = {}
<1> DEFINE others == Shown(l) \cap (l.mapped \ gone)
<1>1. f \in IF l.focused \notin gone THEN {l.focused}
            ELSE IF others = {} THEN {None} ELSE others
  BY DEF Refocus, Shown
<1>2. l.mapped \subseteq LockSurfaces /\ l.focused \in LockSurfaces \cup {None}
  BY DEF Lock
<1>3. None \notin LockSurfaces BY SeatAssumption
<1>4. others = l.mapped \ gone OBVIOUS
<1> HIDE DEF others
<1> QED BY <1>1, <1>2, <1>3, <1>4

\* handle_new_surface()
LEMMA NewSurfaceStep ==
  ASSUME LInv, NEW o \in Outputs, NEW surface \in LockSurfaces, NewSurface(o, surface)
  PROVE LStep
<1> DEFINE F == [lock.surface EXCEPT ![o] = surface]
           l == [lock EXCEPT !.surface = F, !.surfaces = lock.surfaces \cup {surface}]
<1>1. lock \in Lock /\ CoversAgree(lock) /\ LocksAgree(server, lock) BY DEF LInv
<1>2. F \in [Outputs -> LockSurfaces \cup {None}] BY <1>1 DEF Lock
<1>3. lock' = l /\ UNCHANGED server BY <1>1 DEF NewSurface, Lock
<1>4. \A x \in Outputs : F[x] = IF x = o THEN surface ELSE lock.surface[x]
  BY <1>1 DEF Lock
<1>5. o \in lock.covers /\ lock.surface[o] = None BY DEF NewSurface
<1> HIDE DEF F
<1>6. /\ l \in Lock /\ l.surface = F /\ l.covers = lock.covers /\ l.blank = lock.blank
      /\ l.timer = lock.timer /\ l.idle = lock.idle /\ l.mapped = lock.mapped
      /\ l.focused = lock.focused /\ l.lock = lock.lock /\ l.outputs = lock.outputs
  BY <1>1, <1>2 DEF Lock
<1> HIDE DEF l
<1>7. Shown(lock) \subseteq Shown(l) \cup {None}
  <2> SUFFICES ASSUME NEW x \in lock.covers PROVE lock.surface[x] \in Shown(l) \cup {None}
    BY DEF Shown
  <2>1. x \in Outputs BY <1>1 DEF Lock
  <2> QED BY <1>4, <1>5, <1>6, <2>1 DEF Shown
<1>8. lock.mapped \subseteq Shown(l) BY <1>1, <1>7, SeatAssumption DEF CoversAgree, Lock
<1>9. CoversAgree(l) BY <1>1, <1>4, <1>5, <1>6, <1>8 DEF CoversAgree
<1>10. LocksAgree(server, l) BY <1>1, <1>6, <1>7 DEF LocksAgree
<1> QED BY <1>3, <1>6, <1>9, <1>10, FocusKeptStep

\* handle_surface_map()
LEMMA MapSurfaceStep ==
  ASSUME LInv, NEW o \in Outputs, MapSurface(o) PROVE LStep
<1> DEFINE l == [lock EXCEPT !.mapped = lock.mapped \cup {lock.surface[o]},
                             !.idle = lock.idle \cup {o}]
<1>1. lock \in Lock /\ CoversAgree(lock) /\ LocksAgree(server, lock) BY DEF LInv
<1>2. lock.surface[o] \in LockSurfaces /\ lock' = l /\ UNCHANGED server
  BY DEF MapSurface
<1>3. /\ l \in Lock /\ l.mapped = lock.mapped \cup {lock.surface[o]}
      /\ l.idle = lock.idle \cup {o} /\ l.surface = lock.surface
      /\ l.covers = lock.covers /\ l.blank = lock.blank /\ l.timer = lock.timer
      /\ l.focused = lock.focused /\ l.lock = lock.lock /\ l.outputs = lock.outputs
  BY <1>1, <1>2 DEF Lock
<1> HIDE DEF l
<1>4. o \in lock.covers BY <1>1, <1>2, SeatAssumption DEF CoversAgree
<1>5. Shown(l) = Shown(lock) BY <1>3 DEF Shown
<1>6. CoversAgree(l) BY <1>1, <1>3, <1>4, <1>5 DEF CoversAgree, Shown
<1>7. LocksAgree(server, l) BY <1>1, <1>3, <1>5 DEF LocksAgree
<1> QED BY <1>2, <1>3, <1>6, <1>7, FocusKeptStep

\* handle_output_blank_timeout()
LEMMA BlankTimerStep ==
  ASSUME LInv, NEW o \in Outputs, BlankTimer(o) PROVE LStep
<1> DEFINE l == [lock EXCEPT !.timer = lock.timer \ {o}, !.blank = lock.blank \cup {o}]
<1>1. lock \in Lock /\ CoversAgree(lock) /\ LocksAgree(server, lock) BY DEF LInv
<1>2. lock' = l /\ UNCHANGED server /\ o \in lock.timer BY DEF BlankTimer
<1>3. /\ l \in Lock /\ l.timer = lock.timer \ {o} /\ l.blank = lock.blank \cup {o}
      /\ l.mapped = lock.mapped /\ l.idle = lock.idle /\ l.surface = lock.surface
      /\ l.covers = lock.covers
      /\ l.focused = lock.focused /\ l.lock = lock.lock /\ l.outputs = lock.outputs
  BY <1>1 DEF Lock
<1> HIDE DEF l
<1>4. Shown(l) = Shown(lock) BY <1>3 DEF Shown
<1>5. CoversAgree(l) BY <1>1, <1>2, <1>3, <1>4 DEF CoversAgree
<1>6. LocksAgree(server, l) BY <1>1, <1>3, <1>4 DEF LocksAgree
<1> QED BY <1>2, <1>3, <1>5, <1>6, FocusKeptStep

\* update_focus() of a freed output: nothing is said of what it reads.
LEMMA UpdateFreedFocusStep ==
  ASSUME LInv, UpdateFreedFocus PROVE LStep
<1> DEFINE l == [lock EXCEPT !.stale = FALSE, !.broken = TRUE]
<1>1. lock \in Lock /\ CoversAgree(lock) /\ LocksAgree(server, lock) BY DEF LInv
<1>2. lock' = l /\ UNCHANGED server BY DEF UpdateFreedFocus
<1>3. /\ l \in Lock /\ l.timer = lock.timer /\ l.blank = lock.blank
      /\ l.mapped = lock.mapped /\ l.idle = lock.idle /\ l.surface = lock.surface
      /\ l.covers = lock.covers
      /\ l.focused = lock.focused /\ l.lock = lock.lock /\ l.outputs = lock.outputs
  BY <1>1 DEF Lock
<1> HIDE DEF l
<1>4. Shown(l) = Shown(lock) BY <1>3 DEF Shown
<1>5. CoversAgree(l) BY <1>1, <1>3, <1>4 DEF CoversAgree
<1>6. LocksAgree(server, l) BY <1>1, <1>3, <1>4 DEF LocksAgree
<1> QED BY <1>2, <1>3, <1>5, <1>6, FocusKeptStep

\* add_output_to_layout(): an output that comes while the session is locked is covered.
LEMMA OutputAddedStep ==
  ASSUME LInv, NEW o \in Outputs, OutputAdded(o) PROVE LStep
<1> DEFINE l == [lock EXCEPT !.outputs = lock.outputs \cup {o}]
           a == AddCovers(l, {o}, TRUE)
<1>1. lock \in Lock /\ CoversAgree(lock) /\ LocksAgree(server, lock) BY DEF LInv
<1>2. UNCHANGED server /\ lock' = IF server.locked THEN a ELSE l BY DEF OutputAdded
<1>3. /\ l \in Lock /\ l.timer = lock.timer /\ l.blank = lock.blank
      /\ l.mapped = lock.mapped /\ l.idle = lock.idle /\ l.surface = lock.surface
      /\ l.covers = lock.covers /\ l.focused = lock.focused /\ l.lock = lock.lock
      /\ l.outputs = lock.outputs \cup {o}
  BY <1>1 DEF Lock
<1> HIDE DEF l
<1>4. Shown(l) = Shown(lock) BY <1>3 DEF Shown
<1>5. CoversAgree(l) BY <1>1, <1>3, <1>4 DEF CoversAgree
<1>6. /\ a \in Lock /\ CoversAgree(a)
      /\ a.covers = l.covers \cup {o} /\ a.focused = l.focused
      /\ a.lock = l.lock /\ a.outputs = l.outputs
      /\ l.focused \in Shown(l) \cup {None} => a.focused \in Shown(a) \cup {None}
  BY <1>3, <1>5, AddCoversIs
<1> HIDE DEF a
<1>7. CASE server.locked
  <2>1. LocksAgree(server, a) BY <1>1, <1>3, <1>4, <1>6, <1>7 DEF LocksAgree
  <2> QED BY <1>2, <1>3, <1>6, <1>7, <2>1, FocusKeptStep
<1>8. CASE ~server.locked
  <2>1. LocksAgree(server, l) BY <1>1, <1>3, <1>4, <1>8 DEF LocksAgree
  <2> QED BY <1>2, <1>3, <1>5, <1>8, <2>1, FocusKeptStep
<1> QED BY <1>7, <1>8

\* update_focus(): the first surface to be mapped gets the keyboard.
LEMMA UpdateFocusStep ==
  ASSUME LInv, NEW o \in Outputs, UpdateFocus(o) PROVE LStep
<1> DEFINE f == IF lock.focused = None THEN lock.surface[o] ELSE lock.focused
           l == [lock EXCEPT !.idle = lock.idle \ {o}, !.focused = f,
                             !.broken = lock.broken \/ f = None]
           t == FocusSurface(server, lock, f)
<1>1. /\ lock \in Lock /\ CoversAgree(lock) /\ LocksAgree(server, lock)
      /\ Calm(server) /\ server \in Server
  BY DEF LInv, Calm
<1>2. lock' = l /\ server' = t /\ o \in lock.idle BY DEF UpdateFocus
<1>3. o \in lock.covers /\ server.locked BY <1>1, <1>2 DEF CoversAgree, LocksAgree
<1>4. f \in LockSurfaces \cup {None} BY <1>1 DEF Lock
<1>5. f \in Shown(lock) \cup {None} BY <1>1, <1>3 DEF LocksAgree, Shown
<1>6. lock.focused # None => f = lock.focused OBVIOUS
<1> HIDE DEF f
<1>7. /\ l \in Lock /\ l.idle = lock.idle \ {o} /\ l.focused = f
      /\ l.timer = lock.timer /\ l.blank = lock.blank
      /\ l.mapped = lock.mapped /\ l.surface = lock.surface
      /\ l.covers = lock.covers /\ l.lock = lock.lock /\ l.outputs = lock.outputs
  <2> DEFINE b == (lock.broken \/ f = None)
  <2>1. b \in BOOLEAN BY <1>1 DEF Lock
  <2>2. l = [lock EXCEPT !.idle = lock.idle \ {o}, !.focused = f, !.broken = b]
    OBVIOUS
  <2> HIDE DEF b, l
  <2> QED BY <1>1, <1>4, <2>1, <2>2 DEF Lock
<1> HIDE DEF l
<1>8. SameDesktop(server, t) /\ t.focused_surface = f
  BY <1>1, <1>3, <1>4, FocusSurfaceIs DEF LocksAgree
<1> HIDE DEF t
<1>9. Shown(l) = Shown(lock) BY <1>7 DEF Shown
<1>10. CoversAgree(l) BY <1>1, <1>7, <1>9 DEF CoversAgree
<1>11. t.locked BY <1>3, <1>8 DEF SameDesktop
<1>12. LocksAgree(t, l) BY <1>1, <1>3, <1>5, <1>7, <1>8, <1>9, <1>11 DEF LocksAgree
<1>13. Calm(t) BY <1>1, <1>3, <1>8, LockedCalm
<1> QED
  BY <1>2, <1>6, <1>7, <1>10, <1>11, <1>12, <1>13
     DEF LInv, LStep, KeyboardMoves, UnlockRestores

\* handle_surface_destroy(), and the wl_surface after it
LEMMA DestroySurfaceStep ==
  ASSUME LInv, NEW surface \in LockSurfaces, DestroySurface(surface) PROVE LStep
<1>1. /\ lock \in Lock /\ CoversAgree(lock) /\ LocksAgree(server, lock)
      /\ Calm(server) /\ server \in Server
  BY DEF LInv, Calm
<1>2. PICK f \in Refocus(lock, {surface}) :
          /\ lock' = [lock EXCEPT
                !.surfaces = @ \ {surface},
                !.mapped = @ \ {surface},
                !.surface = [ o \in Outputs |-> IF @[o] = surface THEN None ELSE @[o] ],
                !.focused = f]
          /\ server' = SurfaceDestroyed(FocusSurface(server, lock, f), surface)
  BY DEF DestroySurface
<1> DEFINE F == [ o \in Outputs |-> IF lock.surface[o] = surface THEN None
                                    ELSE lock.surface[o] ]
           l == [lock EXCEPT !.surfaces = lock.surfaces \ {surface},
                             !.mapped = lock.mapped \ {surface},
                             !.surface = F, !.focused = f]
           s == FocusSurface(server, lock, f)
           t == SurfaceDestroyed(s, surface)
<1>3. /\ f \in LockSurfaces \cup {None} /\ f # surface
      /\ f \in Shown(lock) \cup {None}
      /\ lock.focused = None => f = None
      /\ lock.focused # None /\ f = None => lock.mapped \ {surface} = {}
  BY <1>1, RefocusIs DEF LocksAgree, CoversAgree
<1>4. lock' = l /\ server' = t BY <1>2
<1>5. F \in [Outputs -> LockSurfaces \cup {None}] BY <1>1 DEF Lock
<1>6. \A o \in Outputs : F[o] = IF lock.surface[o] = surface THEN None ELSE lock.surface[o]
  OBVIOUS
<1> HIDE DEF F
<1>7. /\ l \in Lock /\ l.idle = lock.idle /\ l.focused = f
      /\ l.timer = lock.timer /\ l.blank = lock.blank
      /\ l.mapped = lock.mapped \ {surface} /\ l.surface = F
      /\ l.covers = lock.covers /\ l.lock = lock.lock /\ l.outputs = lock.outputs
  BY <1>1, <1>3, <1>5 DEF Lock
<1> HIDE DEF l
<1>8. Shown(lock) \ {surface} \subseteq Shown(l)
  <2> SUFFICES ASSUME NEW o \in lock.covers, lock.surface[o] # surface
               PROVE lock.surface[o] \in Shown(l)
    BY DEF Shown
  <2>1. o \in Outputs BY <1>1 DEF Lock
  <2> QED BY <1>6, <1>7, <2>1 DEF Shown
<1>9. CoversAgree(l) BY <1>1, <1>6, <1>7, <1>8 DEF CoversAgree
<1>10. CASE server.locked
  <2>1. SameDesktop(server, s) /\ s.focused_surface = f
    BY <1>1, <1>3, <1>10, FocusSurfaceIs DEF LocksAgree
  <2> HIDE DEF s
  <2>2. Calm(s) BY <1>1, <1>10, <2>1, LockedCalm
  <2>3. SameDesktop(s, t) /\ t.focused_surface = f
    BY <1>3, <2>1, <2>2, SurfaceDestroyedSame DEF Calm, Surfaces
  <2> HIDE DEF t
  <2>4. t.locked /\ s.locked BY <1>10, <2>1, <2>3 DEF SameDesktop
  <2>5. Calm(t) BY <2>2, <2>3, <2>4, LockedCalm
  <2>6. LocksAgree(t, l)
    BY <1>1, <1>3, <1>7, <1>8, <1>10, <2>3, <2>4 DEF LocksAgree
  <2> QED
    BY <1>3, <1>4, <1>7, <1>9, <2>4, <2>5, <2>6
       DEF LInv, LStep, KeyboardMoves, UnlockRestores
<1>11. CASE ~server.locked
  <2>1. f = None /\ lock.focused = None BY <1>1, <1>3, <1>11 DEF LocksAgree
  <2>2. s = server BY <2>1 DEF FocusSurface
  <2> HIDE DEF s
  <2>3. SameDesktop(server, t) /\ Quiet(t)
    BY <1>1, <2>2, SurfaceDestroyedSame DEF Calm, Surfaces
  <2> HIDE DEF t
  <2>4. ~t.locked /\ Calm(t) BY <1>1, <1>11, <2>3 DEF Calm, SameDesktop
  <2>5. LocksAgree(t, l) BY <1>1, <1>7, <1>11, <2>1, <2>4 DEF LocksAgree
  <2> QED
    BY <1>4, <1>7, <1>9, <1>11, <2>4, <2>5 DEF LInv, LStep, KeyboardMoves, UnlockRestores
<1> QED BY <1>10, <1>11

\* handle_output_destroy(): the keyboard moves to a surface on another output.
LEMMA OutputRemovedStep ==
  ASSUME LInv, NEW o \in Outputs, OutputRemoved(o) PROVE LStep
<1>1. /\ lock \in Lock /\ CoversAgree(lock) /\ LocksAgree(server, lock)
      /\ Calm(server) /\ server \in Server
  BY DEF LInv, Calm
<1> DEFINE gone == {lock.surface[o]} \ {None}
           O == {o} \cap lock.covers
           d == DropCovers(lock, O)
<1>2. PICK f \in Refocus(lock, gone) :
          /\ lock' = [d EXCEPT !.outputs = @ \ {o}, !.focused = f]
          /\ server' = FocusSurface(server, lock, f)
  BY DEF OutputRemoved
<1> DEFINE l == [d EXCEPT !.outputs = d.outputs \ {o}, !.focused = f]
           t == FocusSurface(server, lock, f)
<1>3. gone \in SUBSET LockSurfaces BY <1>1 DEF Lock
<1>4. /\ f \in LockSurfaces \cup {None} /\ f \notin gone
      /\ f \in Shown(lock) \cup {None}
      /\ lock.focused = None => f = None
      /\ lock.focused # None /\ f = None => lock.mapped \ gone = {}
  <2> HIDE DEF gone
  <2> QED BY <1>1, <1>2, <1>3, RefocusIs DEF LocksAgree, CoversAgree
<1>5. /\ d \in Lock /\ CoversAgree(d)
      /\ d.covers = lock.covers \ O /\ d.lock = lock.lock /\ d.outputs = lock.outputs
      /\ d.mapped = lock.mapped \ { lock.surface[x] : x \in O }
      /\ d.surface = [ x \in Outputs |-> IF x \in O THEN None ELSE lock.surface[x] ]
  BY <1>1, DropCoversIs
<1>6. lock' = l /\ server' = t BY <1>2
<1> HIDE DEF d
<1>7. /\ l \in Lock /\ l.idle = d.idle /\ l.focused = f
      /\ l.timer = d.timer /\ l.blank = d.blank
      /\ l.mapped = d.mapped /\ l.surface = d.surface
      /\ l.covers = d.covers /\ l.lock = d.lock /\ l.outputs = d.outputs \ {o}
  BY <1>4, <1>5 DEF Lock
<1> HIDE DEF l
<1>8. Shown(l) = Shown(d) BY <1>7 DEF Shown
<1>9. CoversAgree(l) BY <1>5, <1>7, <1>8 DEF CoversAgree
<1>10. f \in Shown(l) \cup {None}
  <2> SUFFICES ASSUME f # None PROVE f \in Shown(d) BY <1>8
  <2>1. PICK x \in lock.covers : f = lock.surface[x] BY <1>4 DEF Shown
  <2>2. x # o BY <1>4, <2>1
  <2>3. x \in Outputs BY <1>1 DEF Lock
  <2>4. x \in d.covers /\ d.surface[x] = f BY <1>5, <2>1, <2>2, <2>3
  <2> QED BY <2>4 DEF Shown
<1>11. CASE server.locked
  <2>1. SameDesktop(server, t) /\ t.focused_surface = f
    BY <1>1, <1>4, <1>11, FocusSurfaceIs DEF LocksAgree
  <2> HIDE DEF t
  <2>2. Calm(t) /\ t.locked BY <1>1, <1>11, <2>1, LockedCalm DEF SameDesktop
  <2>3. lock.covers = lock.outputs BY <1>1, <1>11 DEF LocksAgree
  <2>4. l.covers = l.outputs BY <1>5, <1>7, <2>3
  <2>5. LocksAgree(t, l) BY <1>1, <1>5, <1>7, <1>10, <2>1, <2>2, <2>4, <1>11 DEF LocksAgree
  <2>6. lock.focused # None /\ l.focused = None => l.mapped = {}
    <3>1. o \in lock.covers BY <2>3 DEF OutputRemoved
    <3>2. gone \subseteq { lock.surface[x] : x \in O } BY <3>1
    <3> HIDE DEF gone, O
    <3> QED BY <1>4, <1>5, <1>7, <3>2
  <2> QED
    BY <1>6, <1>7, <1>9, <2>2, <2>5, <2>6 DEF LInv, LStep, KeyboardMoves, UnlockRestores
<1>12. CASE ~server.locked
  <2>1. f = None /\ lock.focused = None /\ lock.covers = {} /\ ~lock.lock
    BY <1>1, <1>4, <1>12 DEF LocksAgree
  <2>2. t = server BY <2>1 DEF FocusSurface
  <2>3. LocksAgree(server, l) BY <1>5, <1>7, <1>12, <2>1 DEF LocksAgree
  <2> QED
    BY <1>1, <1>6, <1>7, <1>9, <1>12, <2>2, <2>3
       DEF LInv, LStep, KeyboardMoves, UnlockRestores
<1> QED BY <1>11, <1>12

\* handle_new_session_lock(): the keyboard is nobody's, and every output is covered.
LEMMA NewLockStep ==
  ASSUME LInv, NewLock PROVE LStep
<1>1. /\ lock \in Lock /\ CoversAgree(lock) /\ LocksAgree(server, lock)
      /\ Calm(server) /\ server \in Server
  BY DEF LInv, Calm
<1> DEFINE l == IF server.locked THEN DropLock(lock) ELSE lock
           s == FocusSurface(server, lock, l.focused)
           r == [s EXCEPT !.last_active = s.active_view]
           t == SeatFocusSurface(r, None)
           x == [t EXCEPT !.locked = TRUE]
           a == AddCovers(l, l.outputs, s.locked)
           b == [a EXCEPT !.lock = TRUE]
<1>2. lock' = b /\ server' = x BY DEF NewLock
<1>3. /\ DropLock(lock) \in Lock /\ CoversAgree(DropLock(lock))
      /\ DropLock(lock).covers = {} /\ DropLock(lock).mapped = {}
      /\ DropLock(lock).focused = None
  BY <1>1, DropLockIs DEF LocksAgree
<1>4. l \in Lock /\ CoversAgree(l) /\ l.covers = {} /\ l.focused = None
  BY <1>1, <1>3 DEF LocksAgree
<1>5. l.mapped = {}
  BY <1>4 DEF CoversAgree, Shown
<1> HIDE DEF l
<1>6. SameDesktop(server, s) /\ s.input_mode = server.input_mode
      /\ (server.locked => s.focused_surface = None)
      /\ (~server.locked => s = server)
  <2>1. CASE server.locked BY <1>1, <1>4, <2>1, FocusSurfaceIs DEF LocksAgree
  <2>2. CASE ~server.locked
    <3>1. s = server BY <1>1, <1>4, <2>2 DEF LocksAgree, FocusSurface
    <3> QED BY <1>1, <2>2, <3>1 DEF SameDesktop
  <2> QED BY <2>1, <2>2
<1> HIDE DEF s
<1>7. Quiet(s) BY <1>1, <1>6 DEF Quiet, SameDesktop, Calm
<1>8. /\ r \in Server /\ r.views = s.views /\ r.mapped = s.mapped
      /\ r.locked = s.locked /\ r.focused_surface = s.focused_surface
      /\ r.input_mode = s.input_mode /\ r.focused_layer = s.focused_layer
  BY <1>6 DEF SameDesktop, Server
<1> HIDE DEF r
<1>9. Quiet(r) BY <1>7, <1>8 DEF Quiet
<1>10. /\ Behind(r, t) /\ SameDesktop(r, t) /\ t.input_mode = r.input_mode
       /\ ~r.locked /\ r.input_mode = "passthrough" => t.focused_surface = None
  BY <1>8, <1>9, SeatFocusBehind
<1> HIDE DEF t
<1>11. t.focused_surface = None
  BY <1>6, <1>8, <1>10 DEF Behind, Quiet, SameDesktop
<1>12. /\ x \in Server /\ x.views = t.views /\ x.mapped = t.mapped /\ x.locked
       /\ x.focused_surface = None /\ x.focused_layer = t.focused_layer
  <2>1. t \in Server BY <1>10 DEF SameDesktop
  <2>2. /\ x \in Server /\ x.views = t.views /\ x.mapped = t.mapped
        /\ x.focused_surface = t.focused_surface /\ x.focused_layer = t.focused_layer
    BY <2>1, ZenonT(60) DEF Server
  <2>3. x.locked = TRUE BY <2>1 DEF Server
  <2> QED BY <1>11, <2>2, <2>3
<1> HIDE DEF x
<1>13. Calm(x)
  BY <1>1, <1>6, <1>8, <1>10, <1>12 DEF Calm, Quiet, SameDesktop
<1>14. s.locked \in BOOLEAN BY <1>6 DEF SameDesktop, Server
<1>15. l.outputs \in SUBSET Outputs BY <1>4 DEF Lock
<1>16. /\ a \in Lock /\ CoversAgree(a) /\ a.covers = l.covers \cup l.outputs
       /\ a.mapped = l.mapped /\ a.focused = l.focused /\ a.outputs = l.outputs
  BY <1>4, <1>14, <1>15, AddCoversIs, ZenonT(60)
<1> HIDE DEF a
<1>17. /\ b \in Lock /\ b.covers = a.covers /\ b.mapped = a.mapped /\ b.lock
       /\ b.focused = a.focused /\ b.outputs = a.outputs /\ b.surface = a.surface
       /\ b.blank = a.blank /\ b.timer = a.timer /\ b.idle = a.idle
  BY <1>16 DEF Lock
<1> HIDE DEF b
<1>18. CoversAgree(b) BY <1>16, <1>17 DEF CoversAgree, Shown
<1>19. LocksAgree(x, b) BY <1>4, <1>12, <1>16, <1>17 DEF LocksAgree
<1> QED
  BY <1>2, <1>5, <1>12, <1>13, <1>16, <1>17, <1>18, <1>19
     DEF LInv, LStep, KeyboardMoves, UnlockRestores

\* The keyboard leaves the lock surfaces with the lock.
LEMMA LoseLock ==
  ASSUME LInv, server.locked
  PROVE LET s == FocusSurface(server, lock, None)
        IN  /\ SameDesktop(server, s) /\ Calm(s) /\ s.locked
            /\ s.focused_surface = None /\ s.input_mode = server.input_mode
<1> DEFINE s == FocusSurface(server, lock, None)
<1>1. LocksAgree(server, lock) /\ Calm(server) /\ server \in Server BY DEF LInv, Calm
<1>2. /\ SameDesktop(server, s) /\ s.focused_surface = None
      /\ s.input_mode = server.input_mode
  BY <1>1, FocusSurfaceIs DEF LocksAgree
<1> HIDE DEF s
<1>3. s.locked /\ Calm(s) BY <1>1, <1>2, LockedCalm DEF SameDesktop
<1> QED BY <1>2, <1>3 DEF s

\* The client dies, and handle_lock_destroy() keeps the session locked.
LEMMA LockDestroyedStep ==
  ASSUME LInv, LockDestroyed PROVE LStep
<1>1. /\ lock \in Lock /\ CoversAgree(lock) /\ LocksAgree(server, lock)
      /\ server.locked
  BY DEF LInv, LocksAgree, LockDestroyed
<1> DEFINE F == [o \in Outputs |-> None]
           l == [lock EXCEPT !.lock = FALSE, !.surface = F,
                            !.surfaces = {}, !.mapped = {}, !.focused = None]
           s == FocusSurface(server, lock, None)
           x == [s EXCEPT !.override = None]
<1>2. lock' = l /\ server' = IF s.override \in LockSurfaces THEN x ELSE s
  BY DEF LockDestroyed
<1>3. /\ Calm(s) /\ s.locked /\ s.focused_surface = None BY <1>1, LoseLock
<1> HIDE DEF s
<1>4. /\ x \in Server /\ x.views = s.views /\ x.mapped = s.mapped
      /\ x.locked = s.locked /\ x.focused_surface = s.focused_surface
      /\ x.input_mode = s.input_mode /\ x.focused_layer = s.focused_layer
  <2>1. s \in Server BY <1>3 DEF Calm
  <2> QED BY <2>1 DEF Server
<1> HIDE DEF x
<1>5. Calm(x) BY <1>3, <1>4 DEF Calm, Quiet
<1>6. Calm(server') /\ server'.locked /\ server'.focused_surface = None
  BY <1>2, <1>3, <1>4, <1>5
<1>7. F \in [Outputs -> LockSurfaces \cup {None}] /\ \A o \in Outputs : F[o] = None
  OBVIOUS
<1> HIDE DEF F
<1>8. /\ l \in Lock /\ ~l.lock /\ l.mapped = {} /\ l.focused = None /\ l.surface = F
      /\ l.covers = lock.covers /\ l.outputs = lock.outputs
      /\ l.blank = lock.blank /\ l.timer = lock.timer /\ l.idle = lock.idle
  BY <1>1, <1>7 DEF Lock
<1> HIDE DEF l
<1>9. CoversAgree(l) BY <1>1, <1>7, <1>8 DEF CoversAgree
<1>10. LocksAgree(server', l) BY <1>1, <1>6, <1>8 DEF LocksAgree
<1> QED BY <1>2, <1>6, <1>8, <1>9, <1>10 DEF LInv, LStep, KeyboardMoves, UnlockRestores

\* handle_lock_unlock(): the remembered view, or the topmost one, has the keyboard.
LEMMA UnlockStep ==
  ASSUME LInv, Unlock PROVE LStep
<1>1. /\ lock \in Lock /\ CoversAgree(lock) /\ LocksAgree(server, lock)
      /\ server.locked /\ server \in Server /\ Calm(server)
  BY DEF LInv, LocksAgree, Unlock, Calm
<1> DEFINE l == DropLock(lock)
           k == FocusSurface(server, lock, None)
           s == [k EXCEPT !.locked = FALSE]
           t == IF s.last_active # None
                THEN FocusView(s, s.last_active, FALSE, FALSE)
                ELSE FocusTopmost(s)
           x == [t EXCEPT !.last_active = None]
<1>2. /\ l \in Lock /\ CoversAgree(l) /\ l.covers = {} /\ l.focused = None /\ ~l.lock
  BY <1>1, DropLockIs DEF LocksAgree
<1>3. lock' = l /\ server' = x
  <2>1. lock' = l BY DEF Unlock
  <2>2. lock'.focused = None BY <1>2, <2>1
  <2> QED BY <2>1, <2>2 DEF Unlock
<1> HIDE DEF l
<1>4. /\ SameDesktop(server, k) /\ Calm(k)
      /\ k.focused_surface = None /\ k.input_mode = server.input_mode
  BY <1>1, LoseLock
<1> HIDE DEF k
<1>5. /\ s \in Server /\ s.views = k.views /\ s.mapped = k.mapped
      /\ ~s.locked /\ s.focused_surface = None /\ s.last_active = k.last_active
      /\ s.input_mode = k.input_mode /\ s.focused_layer = k.focused_layer
  <2>1. k \in Server BY <1>4 DEF Calm
  <2>2. /\ s \in Server /\ s.views = k.views /\ s.mapped = k.mapped
        /\ s.focused_surface = k.focused_surface /\ s.last_active = k.last_active
        /\ s.input_mode = k.input_mode /\ s.focused_layer = k.focused_layer
    BY <2>1, ZenonT(60) DEF Server
  <2>3. s.locked = FALSE BY <2>1 DEF Server
  <2> QED BY <1>4, <2>2, <2>3
<1> HIDE DEF s
<1>6. Calm(s) /\ Quiet(s) BY <1>4, <1>5 DEF Calm, Quiet
<1> DEFINE v == server.last_active
<1>7. s.last_active = v /\ s.mapped = server.mapped /\ s.views = server.views
      /\ s.input_mode = server.input_mode
  BY <1>4, <1>5 DEF SameDesktop
<1>8. v \in Views \cup {None} BY <1>1 DEF Server
<1>9. \A raise, delay : v \in Views =>
          /\ Behind(s, FocusView(s, v, raise, delay))
          /\ v \in s.mapped /\ v \in Family(s, v)
             => GetsFocus(s, FocusView(s, v, raise, delay), v)
  BY <1>5, <1>6, FocusViewBehind
<1>10. Behind(s, FocusTopmost(s)) BY <1>5, <1>6, FocusTopmostBehind
<1>11. t = IF v # None THEN FocusView(s, v, FALSE, FALSE) ELSE FocusTopmost(s)
  BY <1>7
<1> HIDE DEF t, v
<1>12. Behind(s, t) BY <1>8, <1>9, <1>10, <1>11
<1>13. /\ x \in Server /\ x.views = t.views /\ x.mapped = t.mapped
       /\ x.parent = t.parent /\ x.above = t.above
       /\ x.locked = t.locked /\ x.focused_surface = t.focused_surface
       /\ x.input_mode = t.input_mode /\ x.focused_layer = t.focused_layer
  BY <1>12 DEF Behind, Server
<1> HIDE DEF x
<1>14. Calm(x) /\ ~x.locked
  BY <1>1, <1>5, <1>7, <1>12, <1>13 DEF Calm, Behind, Quiet
<1>15. LocksAgree(x, l) BY <1>2, <1>14 DEF LocksAgree
<1>16. ASSUME v \in server.mapped, server.input_mode = "passthrough"
       PROVE x.focused_surface = FocusTarget(x, v)
  <2>1. v \in s.mapped /\ v \in s.views /\ v \in Views
    BY <1>1, <1>5, <1>7, <1>16 DEF Calm, Server
  <2>2. v \in Family(s, v) BY <2>1 DEF Family, SubViews
  <2>3. v # None BY <2>1, SeatAssumption
  <2>4. GetsFocus(s, t, v) BY <1>9, <1>11, <2>1, <2>2, <2>3
  <2>5. t.focused_surface = FocusTarget(t, v)
    BY <1>5, <1>7, <1>16, <2>4 DEF GetsFocus, Focused
  <2>6. FocusTarget(x, v) = FocusTarget(t, v)
    BY <1>13, FocusTargetSame DEF SameWindows
  <2> QED BY <1>13, <2>5, <2>6
<1> QED
  BY <1>2, <1>3, <1>14, <1>15, <1>16 DEF LInv, LStep, KeyboardMoves, UnlockRestores, v

\* The desktop behind the lock
LEMMA BehindLockStep ==
  ASSUME LInv, DesktopBehindLock PROVE LStep
<1>1. /\ lock \in Lock /\ CoversAgree(lock) /\ LocksAgree(server, lock)
      /\ Calm(server) /\ Next /\ lock' = lock
  BY DEF LInv, DesktopBehindLock
<1>2. server.locked => server.focused_surface \notin Views
  BY <1>1, SeatAssumption DEF LocksAgree, Lock
<1>3. Handled(server, server') BY <1>1, <1>2, NextHandled
<1>4. LocksAgree(server', lock) BY <1>1, <1>3 DEF LocksAgree, Handled
<1> QED BY <1>1, <1>3, <1>4 DEF LInv, LStep, KeyboardMoves, UnlockRestores, Handled

\* Every step
LEMMA LNextStep ==
  ASSUME LInv, [LockNext]_lockVars PROVE LStep
<1>1. CASE UNCHANGED lockVars
  <2>1. lock' = lock /\ server' = server BY <1>1 DEF lockVars
  <2> QED BY <2>1 DEF LInv, LStep, KeyboardMoves, UnlockRestores
<1>2. CASE DesktopBehindLock BY <1>2, BehindLockStep
<1>3. CASE LockStep
  BY <1>3, NewLockStep, UnlockStep, LockDestroyedStep, UpdateFreedFocusStep,
     DestroySurfaceStep, NewSurfaceStep, MapSurfaceStep, UpdateFocusStep,
     OutputAddedStep, OutputRemovedStep, BlankTimerStep
     DEF LockStep
<1> QED BY <1>1, <1>2, <1>3 DEF LockNext

----------------------------------------------------------------------------
(* Theorems *)

\* The manager, the seat and the outputs agree in every state.
THEOREM LInvHolds == LockSpec => []LInv
<1>1. LInv /\ [LockNext]_lockVars => LInv' BY LNextStep DEF LStep
<1> QED BY <1>1, InitLInv, PTL DEF LockSpec

\* No output ever shows the desktop of a locked session: EveryOutputIsCovered holds
\* with any number of outputs that come and go, and of clients that lock and die.
THEOREM OutputsAreLockedHolds == LockSpec => []OutputsAreLocked
<1>1. LInv => OutputsAreLocked
  BY DEF LInv, Calm, CoversAgree, LocksAgree, OutputsAreLocked, LockTypeOK,
         EveryOutputIsCovered
<1> QED BY <1>1, LInvHolds, PTL

\* The keyboard of a locked session is with the lock surface that the manager focuses.
THEOREM KeyboardIsWithTheLockHolds == LockSpec => []KeyboardIsWithTheLock
<1>1. LInv => KeyboardIsWithTheLock
  BY DEF LInv, LocksAgree, KeyboardIsWithTheLock, Shown
<1> QED BY <1>1, LInvHolds, PTL

\* The keyboard is handed on to another lock surface, and back to the window.
THEOREM FocusIsHandedOnHolds == LockSpec => FocusIsHandedOn
<1>1. LInv /\ [LockNext]_lockVars => [KeyboardMoves]_lockVars
  BY LNextStep DEF LStep
<1>2. LInv /\ [LockNext]_lockVars => [UnlockRestores]_lockVars
  BY LNextStep DEF LStep
<1>3. LockSpec => KeyboardMovesToAnotherOutput
  BY <1>1, LInvHolds, PTL DEF LockSpec, KeyboardMovesToAnotherOutput, KeyboardMoves
<1>4. LockSpec => UnlockFocusesRemembered
  BY <1>2, LInvHolds, PTL DEF LockSpec, UnlockFocusesRemembered, UnlockRestores
<1> QED BY <1>3, <1>4 DEF FocusIsHandedOn
=============================================================================

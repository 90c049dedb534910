--------------------------- MODULE DesktopProofs ---------------------------
(***************************************************************************)
(* That the state of the desktop stays coherent, for any number of views   *)
(* and workspaces.                                                         *)
(*                                                                         *)
(* TypeOK, NoDanglingPointers, GrabIsVisible and ActiveFollowsFocus are not*)
(* inductive one by one: the keyboard goes to views that must be live, the *)
(* override restores a surface that must be the active view, and a grab is *)
(* only cancelled if it is on the view that is hidden.  Together, with the *)
(* facts that no layer surface has the focus and the session is not locked *)
(* (this module's handlers change neither), they are: Coherent.            *)
(*                                                                         *)
(* As the handlers are compositions of operators on the server record, the *)
(* proof has one lemma per operator, that it keeps Coherent, and the lemma *)
(* of a caller cites those of its callees.  Two places break it for a      *)
(* while: view_impl_unmap() and view_minimize() hide the grabbed view      *)
(* before they cancel the grab (CoherentButGrab), and view_destroy() clears*)
(* active_view before the surface loses the keyboard (Leaving).            *)
(***************************************************************************)
EXTENDS Desktop, FiniteSetTheorems, TLAPS

\* No layer surface and no lock surface has the keyboard, or is to get it.
Plain(s) ==
    /\ s \in Server
    /\ ~s.locked
    /\ s.focused_layer = None
    /\ {s.focused_surface, s.override} \subseteq Views \cup {None}

Coherent(s) ==
    /\ Plain(s)
    /\ PointsToLive(s)
    /\ GrabMatchesMode(s)
    /\ ActiveIsFocused(s)

\* The same, but the grabbed view may be v although v is hidden by now.
CoherentButGrab(s, v) ==
    /\ Plain(s) /\ PointsToLive(s) /\ ActiveIsFocused(s)
    /\ s.input_mode \in {"move", "resize"} => s.grabbed_view # None
    /\ s.grabbed_view \in Visible(s) \cup {None, v}

\* Two states differ at most in the stacking order, the workspaces, the parents
\* and the marks of ToggleShowDesktop.
AgreeOnFocus(s, t) ==
    /\ t.views = s.views /\ t.mapped = s.mapped /\ t.minimized = s.minimized
    /\ t.active_view = s.active_view /\ t.last_active = s.last_active
    /\ t.grabbed_view = s.grabbed_view /\ t.auto_raise = s.auto_raise
    /\ t.focused_surface = s.focused_surface /\ t.override = s.override
    /\ t.input_mode = s.input_mode
    /\ t.locked = s.locked /\ t.focused_layer = s.focused_layer

----------------------------------------------------------------------------
(* Coherence *)

\* The state server_init() leaves behind is coherent.
LEMMA InitCoherent == Init => Coherent(server)
  BY SeatAssumption, DesktopAssumption
     DEF Init, Coherent, Plain, PointsToLive, GrabMatchesMode, ActiveIsFocused,
         Server, Visible, InputModes, Interactivity

\* Coherence only depends on the fields that AgreeOnFocus lists.
LEMMA AgreeCoherent ==
  ASSUME NEW s, Coherent(s), NEW t \in Server, AgreeOnFocus(s, t) PROVE Coherent(t)
  BY DEF AgreeOnFocus, Coherent, Plain, PointsToLive, GrabMatchesMode,
         ActiveIsFocused, Visible

\* show_desktop_reset() leaves the focus and the windows alone.
LEMMA ShowDesktopResetCoherent ==
  ASSUME NEW s, Coherent(s)
  PROVE /\ Coherent(ShowDesktopReset(s))
        /\ AgreeOnFocus(s, ShowDesktopReset(s))
<1> DEFINE H == s.hidden \ s.mapped
<1> DEFINE t == [s EXCEPT !.showing_desktop = FALSE, !.hidden = H]
<1>1. s \in Server /\ H \subseteq Views BY DEF Coherent, Plain, Server
<1>2. t \in Server /\ AgreeOnFocus(s, t)
  <2> HIDE DEF H
  <2> QED BY <1>1, ZenonT(60) DEF Server, AgreeOnFocus
<1>3. ShowDesktopReset(s) = t BY DEF ShowDesktopReset
<1> QED BY <1>2, <1>3, AgreeCoherent

\* Restacking gives an order on the views, for any ranks.
LEMMA RestackType ==
  ASSUME NEW s, s \in Server, NEW rank PROVE Restack(s, rank) \subseteq Views \X Views
  BY DEF Restack, Server

\* Changing the stacking order keeps coherence.
LEMMA AboveCoherent ==
  ASSUME NEW s, Coherent(s), NEW R, R \subseteq Views \X Views
  PROVE /\ Coherent([s EXCEPT !.above = R])
        /\ AgreeOnFocus(s, [s EXCEPT !.above = R])
<1>1. s \in Server BY DEF Coherent, Plain
<1>2. [s EXCEPT !.above = R] \in Server /\ AgreeOnFocus(s, [s EXCEPT !.above = R])
  BY <1>1 DEF Server, AgreeOnFocus
<1> QED BY <1>2, AgreeCoherent

\* view_move_to_front() keeps coherence.
LEMMA MoveToFrontCoherent ==
  ASSUME NEW s, Coherent(s), NEW v
  PROVE Coherent(MoveToFront(s, v)) /\ AgreeOnFocus(s, MoveToFront(s, v))
<1>1. AgreeOnFocus(s, s) BY DEF AgreeOnFocus
<1> QED BY <1>1, AboveCoherent, RestackType DEF MoveToFront, Coherent, Plain

\* view_move_to_back() keeps coherence.
LEMMA MoveToBackCoherent ==
  ASSUME NEW s, Coherent(s), NEW v
  PROVE Coherent(MoveToBack(s, v))
<1> DEFINE flipped == { p \in s.views \X s.views :
                        IF {p[1], p[2]} \subseteq SubViews(s, Root(s, v))
                        THEN <<p[2], p[1]>> \in s.above
                        ELSE p \in s.above }
<1>1. s \in Server BY DEF Coherent, Plain
<1>2. flipped \subseteq Views \X Views BY <1>1 DEF Server
<1>3. [s EXCEPT !.above = flipped] \in Server
  <2> HIDE DEF flipped
  <2> QED BY <1>1, <1>2 DEF Server
<1>4. \A rank : Restack([s EXCEPT !.above = flipped], rank) \subseteq Views \X Views
  BY <1>3, RestackType
<1> QED BY <1>4, AboveCoherent DEF MoveToBack

\* workspaces_switch_to() without a refocus keeps coherence.
LEMMA SwitchWorkspaceCoherent ==
  ASSUME NEW s, Coherent(s), NEW w \in Workspaces
  PROVE /\ Coherent(SwitchWorkspace(s, w))
        /\ AgreeOnFocus(s, SwitchWorkspace(s, w))
<1> DEFINE W == [ v \in Views |->
                     IF v \in s.views /\ v \in s.omnipresent \cup {s.grabbed_view}
                     THEN w ELSE s.workspace[v] ]
<1> DEFINE t == [s EXCEPT !.workspace = W, !.last = s.current, !.current = w]
<1>1. s \in Server BY DEF Coherent, Plain
<1>2. W \in [Views -> Workspaces] BY <1>1 DEF Server
<1>3. t \in Server /\ AgreeOnFocus(s, t)
  <2> HIDE DEF W
  <2> QED BY <1>1, <1>2, ZenonT(60) DEF Server, AgreeOnFocus
<1>4. Coherent(t) /\ Coherent(ShowDesktopReset(t)) /\ AgreeOnFocus(t, ShowDesktopReset(t))
  BY <1>3, AgreeCoherent, ShowDesktopResetCoherent
<1>5. SwitchWorkspace(s, w) = IF w = s.current THEN s ELSE ShowDesktopReset(t)
  BY DEF SwitchWorkspace
<1> HIDE DEF t
<1> QED BY <1>3, <1>4, <1>5 DEF AgreeOnFocus

----------------------------------------------------------------------------
(* The focus *)

\* Focusing a view, or none, gives a server record.
LEMMA SeatFocusType ==
  ASSUME NEW s \in Server, NEW f \in Views \cup {None}
  PROVE [s EXCEPT !.focused_surface = f, !.active_view = f] \in Server
  BY ZenonT(60) DEF Server, Surfaces

\* What seat_focus_surface() does in passthrough mode: the active view follows.
LEMMA SeatFocusSurfaceIs ==
  ASSUME NEW s, Plain(s), NEW f \in Views \cup {None}, s.input_mode = "passthrough"
  PROVE \/ SeatFocusSurface(s, f) = s /\ s.focused_surface = f
        \/ SeatFocusSurface(s, f) = [s EXCEPT !.focused_surface = f, !.active_view = f]
<1>1. s \in Server /\ ~s.locked /\ s.focused_layer = None BY DEF Plain
<1>2. f \notin Surfaces \ Views BY SeatAssumption DEF Surfaces
<1>3. SeatFocusSurface(s, f) = KeyboardEnter(s, f)
  BY <1>1 DEF SeatFocusSurface, SeatFocus, HasExclusiveLayer
<1>4. CASE s.focused_surface = f BY <1>3, <1>4 DEF KeyboardEnter
<1>5. CASE s.focused_surface # f
  <2>1. HandleFocusChange([s EXCEPT !.focused_surface = f], f)
          = [[s EXCEPT !.focused_surface = f] EXCEPT !.active_view = f]
    BY <1>1, <1>2 DEF HandleFocusChange, Server
  <2> QED BY <1>1, <1>3, <1>5, <2>1 DEF KeyboardEnter, Server
<1> QED BY <1>4, <1>5

\* seat_focus_surface() keeps coherence.
LEMMA SeatFocusSurfaceCoherent ==
  ASSUME NEW s, Coherent(s), NEW f \in s.views \cup {None}
  PROVE Coherent(SeatFocusSurface(s, f))
<1> DEFINE t == [s EXCEPT !.focused_surface = f, !.active_view = f]
<1>1. Plain(s) /\ s \in Server BY DEF Coherent, Plain
<1>2. f \in Views \cup {None} BY <1>1 DEF Server
<1>3. CASE s.input_mode # "passthrough" BY <1>3 DEF SeatFocusSurface
<1>4. CASE s.input_mode = "passthrough"
  <2>1. t \in Server BY <1>1, <1>2, SeatFocusType
  <2>2. /\ t.views = s.views /\ t.mapped = s.mapped /\ t.minimized = s.minimized
        /\ t.active_view = f /\ t.last_active = s.last_active
        /\ t.grabbed_view = s.grabbed_view /\ t.auto_raise = s.auto_raise
        /\ t.focused_surface = f /\ t.override = s.override
        /\ t.input_mode = s.input_mode
        /\ t.locked = s.locked /\ t.focused_layer = s.focused_layer
    BY <1>1 DEF Server
  <2>3. Coherent(t)
    <3> HIDE DEF t
    <3> QED BY <1>2, <1>4, <2>1, <2>2
        DEF Coherent, Plain, PointsToLive, GrabMatchesMode, ActiveIsFocused, Visible
  <2> QED BY <1>1, <1>2, <1>4, <2>3, SeatFocusSurfaceIs
<1> QED BY <1>3, <1>4

\* view_get_modal_dialog() finds a mapped view for a mapped view.
LEMMA FocusTargetMapped ==
  ASSUME NEW s, NEW v \in s.mapped
  PROVE FocusTarget(s, v) \in s.mapped
  BY DEF FocusTarget, SubViews

\* Setting the auto-raise timer keeps coherence, for a view that exists.
LEMMA AutoRaiseCoherent ==
  ASSUME NEW s, Coherent(s), NEW v \in s.views \cup {None}
  PROVE /\ Coherent([s EXCEPT !.auto_raise = v])
        /\ [s EXCEPT !.auto_raise = v].mapped = s.mapped
<1> DEFINE t == [s EXCEPT !.auto_raise = v]
<1>1. s \in Server /\ v \in Views \cup {None} BY DEF Coherent, Plain, Server
<1>2. /\ t \in Server
      /\ t.views = s.views /\ t.mapped = s.mapped /\ t.minimized = s.minimized
      /\ t.active_view = s.active_view /\ t.last_active = s.last_active
      /\ t.grabbed_view = s.grabbed_view /\ t.auto_raise = v
      /\ t.focused_surface = s.focused_surface /\ t.override = s.override
      /\ t.input_mode = s.input_mode
      /\ t.locked = s.locked /\ t.focused_layer = s.focused_layer
  BY <1>1 DEF Server
<1>3. Coherent(t)
  <2> HIDE DEF t
  <2> QED BY <1>2 DEF Coherent, Plain, PointsToLive, GrabMatchesMode, ActiveIsFocused, Visible
<1> QED BY <1>2, <1>3

\* desktop_focus_view_internal() keeps coherence.
LEMMA FocusNowCoherent ==
  ASSUME NEW s, Coherent(s), NEW v \in Views, NEW raise, NEW delay
  PROVE Coherent(FocusNow(s, v, raise, delay))
<1> DEFINE t == IF v \in s.omnipresent THEN s ELSE SwitchWorkspace(s, s.workspace[v])
           next == IF raise /\ delay THEN v ELSE None
           u == [t EXCEPT !.auto_raise = next]
           w == IF raise /\ ~delay THEN MoveToFront(u, v) ELSE u
<1>1. CASE s.input_mode = "cycle" \/ v \notin s.mapped
  BY <1>1 DEF FocusNow
<1>2. CASE ~(s.input_mode = "cycle" \/ v \notin s.mapped)
  <2>1. Coherent(t) /\ t.mapped = s.mapped
    <3>1. s.workspace[v] \in Workspaces BY DEF Coherent, Plain, Server
    <3>2. /\ Coherent(SwitchWorkspace(s, s.workspace[v]))
          /\ SwitchWorkspace(s, s.workspace[v]).mapped = s.mapped
      BY <3>1, SwitchWorkspaceCoherent DEF AgreeOnFocus
    <3> QED BY <3>2
  <2>2. Coherent(u) /\ u.mapped = s.mapped
    <3>1. next \in t.views \cup {None}
      <4> HIDE DEF t
      <4> QED BY <1>2, <2>1 DEF Coherent, PointsToLive
    <3> HIDE DEF t, next
    <3> QED BY <2>1, <3>1, AutoRaiseCoherent
  <2>3. Coherent(w) /\ w.mapped = s.mapped
    <3> HIDE DEF u
    <3> QED BY <2>2, MoveToFrontCoherent DEF AgreeOnFocus
  <2>4. FocusTarget(w, v) \in w.views
    <3> HIDE DEF w
    <3> QED BY <1>2, <2>3, FocusTargetMapped DEF Coherent, PointsToLive
  <2>5. FocusNow(s, v, raise, delay) = ShowDesktopReset(SeatFocusSurface(w, FocusTarget(w, v)))
    BY <1>2 DEF FocusNow
  <2> HIDE DEF w
  <2> QED BY <2>3, <2>4, <2>5, SeatFocusSurfaceCoherent, ShowDesktopResetCoherent
<1> QED BY <1>1, <1>2

\* desktop_focus_topmost_view() keeps coherence.
LEMMA FocusTopmostCoherent ==
  ASSUME NEW s, Coherent(s)
  PROVE Coherent(FocusTopmost(s))
<1> DEFINE candidates == OnCurrentWorkspace(s) \ s.minimized
<1>1. candidates \subseteq Views BY DEF OnCurrentWorkspace, Coherent, Plain, Server
<1>2. Coherent(SeatFocusSurface(s, None)) BY SeatFocusSurfaceCoherent
<1>3. ASSUME \E v \in candidates : IsTop(s, v, candidates)
      PROVE (CHOOSE v \in candidates : IsTop(s, v, candidates)) \in Views
  BY <1>1, <1>3
<1> QED BY <1>2, <1>3, FocusNowCoherent DEF FocusTopmost

----------------------------------------------------------------------------
(* Input modes and grabs *)

\* What seat_focus_override_end() does when the keyboard was taken: the saved
\* surface has it again and is the active view.
LEMMA OverrideEndIs ==
  ASSUME NEW s, Plain(s), s.input_mode # "passthrough",
         s.focused_surface = None, s.override = None => s.active_view = None
  PROVE FocusOverrideEnd(s, TRUE) =
          [s EXCEPT !.input_mode = "passthrough",
                    !.focused_surface = s.override,
                    !.active_view = s.override,
                    !.override = None]
<1> DEFINE t == [s EXCEPT !.input_mode = "passthrough"]
<1>1. s \in Server /\ ~s.locked /\ s.focused_layer = None
      /\ s.override \in Views \cup {None}
      /\ s.focused_surface = None /\ (s.override = None => s.active_view = None)
  BY DEF Plain
<1>2. s.override \notin Surfaces \ Views BY <1>1, SeatAssumption DEF Surfaces
<1>3. /\ t.override = s.override /\ t.focused_surface = None
      /\ t.input_mode = "passthrough" /\ ~t.locked /\ t.focused_layer = None
  BY <1>1 DEF Server
<1>4. CASE s.override = None
  <2>1. FocusOverrideEnd(s, TRUE) = [t EXCEPT !.override = None]
    BY <1>3, <1>4 DEF FocusOverrideEnd
  <2> QED BY <1>1, <1>4, <2>1 DEF Server
<1>5. CASE s.override # None
  <2>1. SeatFocus(t, t.override, FALSE, FALSE) = KeyboardEnter(t, s.override)
    BY <1>3 DEF SeatFocus, HasExclusiveLayer
  <2>2. KeyboardEnter(t, s.override)
          = [[t EXCEPT !.focused_surface = s.override] EXCEPT !.active_view = s.override]
    BY <1>1, <1>2, <1>3, <1>5 DEF KeyboardEnter, HandleFocusChange, Server
  <2>3. FocusOverrideEnd(s, TRUE)
          = [[[t EXCEPT !.focused_surface = s.override]
                EXCEPT !.active_view = s.override] EXCEPT !.override = None]
    BY <1>3, <1>5, <2>1, <2>2 DEF FocusOverrideEnd
  <2> QED BY <1>1, <2>3 DEF Server
<1> QED BY <1>4, <1>5

\* seat_focus_override_end() keeps coherence.
LEMMA OverrideEndCoherent ==
  ASSUME NEW s, Coherent(s), s.input_mode # "passthrough"
  PROVE Coherent(FocusOverrideEnd(s, TRUE))
<1> DEFINE t == FocusOverrideEnd(s, TRUE)
<1>1. s \in Server /\ s.override \in Views \cup {None} BY DEF Coherent, Plain
<1>2. t = [s EXCEPT !.input_mode = "passthrough",
                    !.focused_surface = s.override,
                    !.active_view = s.override,
                    !.override = None]
  BY OverrideEndIs DEF Coherent, ActiveIsFocused
<1> HIDE DEF t
<1>3. /\ t \in Server
      /\ t.views = s.views /\ t.mapped = s.mapped /\ t.minimized = s.minimized
      /\ t.active_view = s.override /\ t.last_active = s.last_active
      /\ t.grabbed_view = s.grabbed_view /\ t.auto_raise = s.auto_raise
      /\ t.focused_surface = s.override /\ t.override = None
      /\ t.input_mode = "passthrough"
      /\ t.locked = s.locked /\ t.focused_layer = s.focused_layer
  BY <1>1, <1>2, ZenonT(60) DEF Server, Surfaces, InputModes
<1>4. Plain(t) /\ ActiveIsFocused(t) BY <1>1, <1>3 DEF Coherent, Plain, ActiveIsFocused
<1>5. PointsToLive(t) BY <1>1, <1>3, SeatAssumption DEF Coherent, PointsToLive
<1>6. GrabMatchesMode(t) BY <1>3 DEF Coherent, GrabMatchesMode, Visible
<1> QED BY <1>4, <1>5, <1>6 DEF Coherent, t

\* interactive_cancel() restores coherence when the grabbed view was hidden.
LEMMA InteractiveCancelCoherent ==
  ASSUME NEW s, NEW v, CoherentButGrab(s, v)
  PROVE Coherent(InteractiveCancel(s, v))
<1> DEFINE t == [s EXCEPT !.grabbed_view = None]
<1>1. s \in Server BY DEF CoherentButGrab, Plain
<1>2. CASE s.grabbed_view # v
  BY <1>2 DEF InteractiveCancel, CoherentButGrab, Coherent, GrabMatchesMode
<1>3. CASE s.grabbed_view = v
  <2>1. /\ t \in Server
        /\ t.views = s.views /\ t.mapped = s.mapped /\ t.minimized = s.minimized
        /\ t.active_view = s.active_view /\ t.last_active = s.last_active
        /\ t.grabbed_view = None /\ t.auto_raise = s.auto_raise
        /\ t.focused_surface = s.focused_surface /\ t.override = s.override
        /\ t.input_mode = s.input_mode
        /\ t.locked = s.locked /\ t.focused_layer = s.focused_layer
    BY <1>1 DEF Server
  <2>2. Plain(t) /\ PointsToLive(t) /\ ActiveIsFocused(t) /\ t.grabbed_view = None
    <3> HIDE DEF t
    <3> QED BY <2>1 DEF CoherentButGrab, Plain, PointsToLive, ActiveIsFocused
  <2>3. CASE s.input_mode \notin {"move", "resize"}
    <3>1. InteractiveCancel(s, v) = t BY <1>3, <2>1, <2>3 DEF InteractiveCancel
    <3> HIDE DEF t
    <3> QED BY <2>1, <2>2, <2>3, <3>1 DEF Coherent, GrabMatchesMode
  <2>4. CASE s.input_mode \in {"move", "resize"}
    <3> DEFINE u == FocusOverrideEnd(t, TRUE)
    <3>1. InteractiveCancel(s, v) = u BY <1>3, <2>1, <2>4 DEF InteractiveCancel
    <3>2. t.input_mode # "passthrough" /\ t.override \in Views \cup {None}
      <4> HIDE DEF t
      <4> QED BY <2>1, <2>2, <2>4 DEF Plain
    <3>3. u = [t EXCEPT !.input_mode = "passthrough",
                        !.focused_surface = t.override,
                        !.active_view = t.override,
                        !.override = None]
      <4>1. t.focused_surface = None /\ t.active_view = t.override
        <5> HIDE DEF t
        <5> QED BY <2>2, <3>2 DEF ActiveIsFocused
      <4> QED BY <2>2, <3>2, <4>1, OverrideEndIs
    <3> HIDE DEF t, u
    <3>4. t \in Server BY <2>1
    <3>5. /\ u \in Server
          /\ u.views = t.views /\ u.mapped = t.mapped /\ u.minimized = t.minimized
          /\ u.active_view = t.override /\ u.last_active = t.last_active
          /\ u.grabbed_view = t.grabbed_view /\ u.auto_raise = t.auto_raise
          /\ u.focused_surface = t.override /\ u.override = None
          /\ u.input_mode = "passthrough"
          /\ u.locked = t.locked /\ u.focused_layer = t.focused_layer
      BY <3>2, <3>3, <3>4 DEF Server, Surfaces, InputModes
    <3>6. Plain(u) /\ ActiveIsFocused(u) BY <2>2, <3>2, <3>5 DEF Plain, ActiveIsFocused
    <3>7. PointsToLive(u) BY <2>2, <3>2, <3>5, SeatAssumption DEF PointsToLive
    <3>8. GrabMatchesMode(u) BY <2>2, <3>5 DEF GrabMatchesMode
    <3> QED BY <3>1, <3>6, <3>7, <3>8 DEF Coherent
  <2> QED BY <2>3, <2>4
<1> QED BY <1>2, <1>3

\* A window hierarchy consists of views.
LEMMA FamilyType ==
  ASSUME NEW s \in Server, NEW v \in Views
  PROVE Family(s, v) \subseteq Views
<1>1. Ancestors(s, v) \subseteq Views BY DEF Ancestors, Server
<1>2. Root(s, v) \in Views BY <1>1 DEF Root
<1> QED BY <1>2 DEF Family, SubViews, Server

\* Changing what is minimized touches nothing else.
LEMMA MinimizedType ==
  ASSUME NEW s, Coherent(s), NEW M \in SUBSET Views
  PROVE LET t == [s EXCEPT !.minimized = M]
        IN  /\ Plain(t) /\ PointsToLive(t) /\ ActiveIsFocused(t)
            /\ t.mapped = s.mapped /\ t.minimized = M
            /\ t.grabbed_view = s.grabbed_view /\ t.input_mode = s.input_mode
<1> DEFINE t == [s EXCEPT !.minimized = M]
<1>1. s \in Server BY DEF Coherent, Plain
<1>2. /\ t \in Server
      /\ t.views = s.views /\ t.mapped = s.mapped /\ t.minimized = M
      /\ t.active_view = s.active_view /\ t.last_active = s.last_active
      /\ t.grabbed_view = s.grabbed_view /\ t.auto_raise = s.auto_raise
      /\ t.focused_surface = s.focused_surface /\ t.override = s.override
      /\ t.input_mode = s.input_mode
      /\ t.locked = s.locked /\ t.focused_layer = s.focused_layer
  BY <1>1 DEF Server
<1> HIDE DEF t
<1>3. Plain(t) /\ PointsToLive(t) /\ ActiveIsFocused(t)
  BY <1>2 DEF Coherent, Plain, PointsToLive, ActiveIsFocused
<1> QED BY <1>2, <1>3 DEF t

\* view_minimize() keeps coherence, although it hides a whole hierarchy first.
LEMMA ViewMinimizeCoherent ==
  ASSUME NEW s, Coherent(s), NEW v \in Views, NEW minimized \in BOOLEAN
  PROVE Coherent(ViewMinimize(s, v, minimized))
<1> DEFINE family == Family(s, v)
           changed == { w \in family : (w \in s.minimized) # minimized }
           M == IF minimized THEN s.minimized \cup family ELSE s.minimized \ family
           t == [s EXCEPT !.minimized = M]
           u == IF minimized /\ s.grabbed_view \in changed \cap s.mapped
                THEN InteractiveCancel(t, s.grabbed_view)
                ELSE t
<1>1. s \in Server BY DEF Coherent, Plain
<1>2. family \subseteq Views BY <1>1, FamilyType
<1>3. M \in SUBSET Views
  <2> HIDE DEF family
  <2> QED BY <1>1, <1>2 DEF Server
<1>4. /\ Plain(t) /\ PointsToLive(t) /\ ActiveIsFocused(t)
      /\ t.mapped = s.mapped /\ t.minimized = M
      /\ t.grabbed_view = s.grabbed_view /\ t.input_mode = s.input_mode
  <2> HIDE DEF M
  <2> QED BY <1>3, MinimizedType
<1>5. Coherent(u)
  <2>1. CASE minimized /\ s.grabbed_view \in changed \cap s.mapped
    <3>1. CoherentButGrab(t, s.grabbed_view)
      <4> HIDE DEF t
      <4> QED BY <1>4 DEF CoherentButGrab, Coherent, GrabMatchesMode
    <3> HIDE DEF t
    <3> QED BY <2>1, <3>1, InteractiveCancelCoherent
  <2>2. CASE ~(minimized /\ s.grabbed_view \in changed \cap s.mapped)
    <3>1. s.grabbed_view \in (s.mapped \ M) \cup {None}
      <4> HIDE DEF family
      <4> QED BY <2>2 DEF Coherent, GrabMatchesMode, Visible
    <3>2. Coherent(t)
      <4> HIDE DEF t, M
      <4> QED BY <1>4, <3>1 DEF Coherent, GrabMatchesMode, Visible
    <3> HIDE DEF t
    <3> QED BY <2>2, <3>2
  <2> QED BY <2>1, <2>2
<1>6. Coherent(FocusTopmost(u)) /\ Coherent(FocusNow(u, v, TRUE, FALSE))
  <2> HIDE DEF u
  <2> QED BY <1>5, FocusTopmostCoherent, FocusNowCoherent
<1>7. ViewMinimize(s, v, minimized) \in {s, u, FocusTopmost(u), FocusNow(u, v, TRUE, FALSE)}
  <2>1. CASE s.input_mode = "cycle" BY <2>1 DEF ViewMinimize
  <2>2. CASE s.input_mode # "cycle" /\ minimized
    BY <2>2 DEF ViewMinimize
  <2>3. CASE s.input_mode # "cycle" /\ ~minimized
    BY <2>3 DEF ViewMinimize
  <2> QED BY <2>1, <2>2, <2>3
<1> HIDE DEF u
<1> QED BY <1>5, <1>6, <1>7

\* desktop_focus_view() keeps coherence.
LEMMA FocusViewCoherent ==
  ASSUME NEW s, Coherent(s), NEW v \in Views, NEW raise, NEW delay
  PROVE Coherent(FocusView(s, v, raise, delay))
BY ViewMinimizeCoherent, FocusNowCoherent DEF FocusView

\* seat_focus_override_begin() keeps coherence.
LEMMA OverrideBeginCoherent ==
  ASSUME NEW s, Coherent(s), s.input_mode = "passthrough",
         NEW mode \in InputModes \ {"passthrough"},
         mode \in {"move", "resize"} => s.grabbed_view # None
  PROVE Coherent(FocusOverrideBegin(s, mode))
<1> DEFINE t == [s EXCEPT !.input_mode = mode, !.override = s.focused_surface]
           u == [s EXCEPT !.input_mode = mode, !.override = s.focused_surface,
                          !.focused_surface = None]
<1>1. /\ s \in Server /\ ~s.locked /\ s.focused_layer = None
      /\ s.focused_surface \in Views \cup {None}
      /\ s.override = None /\ s.active_view = s.focused_surface
  BY DEF Coherent, Plain, ActiveIsFocused
<1>2. /\ t.focused_surface = s.focused_surface /\ t.input_mode = mode
      /\ ~t.locked /\ t.focused_layer = None
  BY <1>1 DEF Server
<1>3. SeatFocus(t, None, FALSE, FALSE) = KeyboardEnter(t, None)
  BY <1>2 DEF SeatFocus, HasExclusiveLayer
<1>4. FocusOverrideBegin(s, mode) = u
  <2>1. CASE s.focused_surface = None
    <3>1. KeyboardEnter(t, None) = t BY <1>2, <2>1 DEF KeyboardEnter
    <3>2. t = u BY <1>1, <2>1 DEF Server
    <3> QED BY <1>3, <3>1, <3>2 DEF FocusOverrideBegin
  <2>2. CASE s.focused_surface # None
    <3>1. KeyboardEnter(t, None) = [t EXCEPT !.focused_surface = None]
      BY <1>1, <1>2, <2>2 DEF KeyboardEnter, HandleFocusChange, Server
    <3>2. [t EXCEPT !.focused_surface = None] = u BY <1>1 DEF Server
    <3> QED BY <1>3, <3>1, <3>2 DEF FocusOverrideBegin
  <2> QED BY <2>1, <2>2
<1>5. u \in Server BY <1>1 DEF Server, Surfaces
<1>6. /\ u.views = s.views /\ u.mapped = s.mapped /\ u.minimized = s.minimized
      /\ u.active_view = s.active_view /\ u.last_active = s.last_active
      /\ u.grabbed_view = s.grabbed_view /\ u.auto_raise = s.auto_raise
      /\ u.focused_surface = None /\ u.override = s.focused_surface
      /\ u.input_mode = mode
      /\ u.locked = s.locked /\ u.focused_layer = s.focused_layer
  BY <1>1 DEF Server
<1> HIDE DEF u
<1>7. Plain(u) /\ ActiveIsFocused(u) BY <1>1, <1>5, <1>6 DEF Plain, ActiveIsFocused
<1>8. PointsToLive(u) BY <1>6, <1>1, SeatAssumption DEF Coherent, PointsToLive
<1>9. GrabMatchesMode(u) BY <1>6 DEF Coherent, GrabMatchesMode, Visible
<1> QED BY <1>4, <1>7, <1>8, <1>9 DEF Coherent

----------------------------------------------------------------------------
(* The handlers *)

\* handle_new_xdg_toplevel() keeps coherence.
LEMMA NewToplevelCoherent ==
  ASSUME Coherent(server), NEW v \in Views, NewToplevel(v)
  PROVE Coherent(server')
<1> DEFINE W == [server.workspace EXCEPT ![v] = server.current]
           A == server.above \cup {v} \X server.views
           V == server.views \cup {v}
<1>1. server \in Server BY DEF Coherent, Plain
<1>2. /\ W \in [Views -> Workspaces] /\ A \in SUBSET (Views \X Views)
      /\ V \in SUBSET Views
  BY <1>1 DEF Server
<1>3. server' = [server EXCEPT !.views = V, !.above = A, !.workspace = W]
  BY <1>1 DEF NewToplevel, Server
<1> HIDE DEF W, A
<1>4. /\ server' \in Server
      /\ server'.views = server.views \cup {v} /\ server'.mapped = server.mapped
      /\ server'.minimized = server.minimized
      /\ server'.active_view = server.active_view
      /\ server'.last_active = server.last_active
      /\ server'.grabbed_view = server.grabbed_view
      /\ server'.auto_raise = server.auto_raise
      /\ server'.focused_surface = server.focused_surface
      /\ server'.override = server.override
      /\ server'.input_mode = server.input_mode
      /\ server'.locked = server.locked
      /\ server'.focused_layer = server.focused_layer
  BY <1>1, <1>2, <1>3 DEF Server
<1> QED
  BY <1>4 DEF Coherent, Plain, PointsToLive, GrabMatchesMode, ActiveIsFocused, Visible

\* Changing the parents keeps coherence.
LEMMA ParentCoherent ==
  ASSUME NEW s, Coherent(s), NEW P \in [Views -> Views \cup {None}]
  PROVE Coherent([s EXCEPT !.parent = P])
<1>1. s \in Server BY DEF Coherent, Plain
<1>2. [s EXCEPT !.parent = P] \in Server /\ AgreeOnFocus(s, [s EXCEPT !.parent = P])
  BY <1>1 DEF Server, AgreeOnFocus
<1> QED BY <1>2, AgreeCoherent

\* handle_set_parent() keeps coherence.
LEMMA SetParentCoherent ==
  ASSUME Coherent(server), NEW v \in Views, NEW p \in Views \cup {None}, SetParent(v, p)
  PROVE Coherent(server')
<1>1. server \in Server BY DEF Coherent, Plain
<1>2. [server.parent EXCEPT ![v] = p] \in [Views -> Views \cup {None}]
  BY <1>1 DEF Server
<1>3. server' = [server EXCEPT !.parent = [server.parent EXCEPT ![v] = p]]
  BY <1>1 DEF SetParent, Server
<1> QED BY <1>2, <1>3, ParentCoherent

\* Changing what is mapped touches nothing else.
LEMMA MappedType ==
  ASSUME NEW s \in Server, NEW M \in SUBSET Views
  PROVE LET t == [s EXCEPT !.mapped = M]
        IN  /\ t \in Server
            /\ t.views = s.views /\ t.mapped = M /\ t.minimized = s.minimized
            /\ t.active_view = s.active_view /\ t.last_active = s.last_active
            /\ t.grabbed_view = s.grabbed_view /\ t.auto_raise = s.auto_raise
            /\ t.focused_surface = s.focused_surface /\ t.override = s.override
            /\ t.input_mode = s.input_mode
            /\ t.locked = s.locked /\ t.focused_layer = s.focused_layer
BY DEF Server

\* view_impl_map() keeps coherence.
LEMMA MapCoherent ==
  ASSUME Coherent(server), NEW v \in Views, Map(v)
  PROVE Coherent(server')
<1> DEFINE M == server.mapped \cup {v}
           s == [server EXCEPT !.mapped = M]
<1>1. server \in Server BY DEF Coherent, Plain
<1>2. M \in SUBSET Views BY <1>1 DEF Server
<1>3. /\ s \in Server
      /\ s.views = server.views /\ s.mapped = M /\ s.minimized = server.minimized
      /\ s.active_view = server.active_view /\ s.last_active = server.last_active
      /\ s.grabbed_view = server.grabbed_view /\ s.auto_raise = server.auto_raise
      /\ s.focused_surface = server.focused_surface /\ s.override = server.override
      /\ s.input_mode = server.input_mode
      /\ s.locked = server.locked /\ s.focused_layer = server.focused_layer
  <2> HIDE DEF M
  <2> QED BY <1>1, <1>2, MappedType
<1>4. Coherent(s)
  <2> HIDE DEF s
  <2>1. v \in server.views BY DEF Map
  <2> QED BY <1>3, <2>1
      DEF Coherent, Plain, PointsToLive, GrabMatchesMode, ActiveIsFocused, Visible
<1>5. server' \in {s, FocusView(s, v, TRUE, FALSE)} BY DEF Map
<1> HIDE DEF s
<1> QED BY <1>4, <1>5, FocusViewCoherent

\* view_impl_unmap() keeps coherence, although it hides the view first.
LEMMA ImplUnmapCoherent ==
  ASSUME NEW s, Coherent(s), NEW v \in Views
  PROVE Coherent(ImplUnmap(s, v))
<1> DEFINE M == s.mapped \ {v}
           t == [s EXCEPT !.mapped = M]
           u == IF v \in s.minimized THEN t ELSE InteractiveCancel(t, v)
<1>1. s \in Server BY DEF Coherent, Plain
<1>2. M \in SUBSET Views BY <1>1 DEF Server
<1>3. /\ t \in Server
      /\ t.views = s.views /\ t.mapped = M /\ t.minimized = s.minimized
      /\ t.active_view = s.active_view /\ t.last_active = s.last_active
      /\ t.grabbed_view = s.grabbed_view /\ t.auto_raise = s.auto_raise
      /\ t.focused_surface = s.focused_surface /\ t.override = s.override
      /\ t.input_mode = s.input_mode
      /\ t.locked = s.locked /\ t.focused_layer = s.focused_layer
  <2> HIDE DEF M
  <2> QED BY <1>1, <1>2, MappedType
<1>4. CoherentButGrab(t, v) /\ (v \in s.minimized => Coherent(t))
  <2> HIDE DEF t
  <2>1. Plain(t) /\ ActiveIsFocused(t) BY <1>3 DEF Coherent, Plain, ActiveIsFocused
  <2>2. PointsToLive(t) BY <1>3 DEF Coherent, PointsToLive
  <2> QED BY <1>3, <2>1, <2>2 DEF CoherentButGrab, Coherent, GrabMatchesMode, Visible
<1>5. Coherent(u)
  <2> HIDE DEF t
  <2> QED BY <1>4, InteractiveCancelCoherent
<1> HIDE DEF u
<1>6. ImplUnmap(s, v) \in {u, FocusTopmost(u)} BY DEF ImplUnmap, u
<1> QED BY <1>5, <1>6, FocusTopmostCoherent

\* handle_unmap() keeps coherence.
LEMMA UnmapCoherent ==
  ASSUME Coherent(server), NEW v \in Views, Unmap(v)
  PROVE Coherent(server')
<1> DEFINE s == ImplUnmap(server, v)
           P == [ w \in Views |->
                    IF w = v THEN None
                    ELSE IF s.parent[w] = v THEN s.parent[v] ELSE s.parent[w] ]
<1>1. Coherent(s) BY ImplUnmapCoherent
<1>2. s.parent \in [Views -> Views \cup {None}]
  <2> HIDE DEF s
  <2> QED BY <1>1 DEF Coherent, Plain, Server
<1>3. P \in [Views -> Views \cup {None}]
  <2> HIDE DEF s
  <2> QED BY <1>2
<1>4. server' = [s EXCEPT !.parent = P] BY DEF Unmap
<1> HIDE DEF s, P
<1> QED BY <1>1, <1>3, <1>4, ParentCoherent

\* Whatever a client asks for keeps coherence.
LEMMA ClientStepCoherent ==
  ASSUME Coherent(server), NEW v \in Views, ClientStep(v)
  PROVE Coherent(server')
<1>1. CASE NewToplevel(v) BY <1>1, NewToplevelCoherent
<1>2. CASE \E p \in Views \cup {None} : SetParent(v, p) BY <1>2, SetParentCoherent
<1>3. CASE Map(v) BY <1>3, MapCoherent
<1>4. CASE Unmap(v) BY <1>4, UnmapCoherent
<1>5. CASE \E b \in BOOLEAN : RequestMinimize(v, b)
  BY <1>5, ViewMinimizeCoherent DEF RequestMinimize
<1>6. CASE Activate(v) BY <1>6, FocusViewCoherent DEF Activate
<1> QED BY <1>1, <1>2, <1>3, <1>4, <1>5, <1>6 DEF ClientStep

\* workspaces_switch_to() keeps coherence.
LEMMA SwitchToWorkspaceCoherent ==
  ASSUME NEW s, Coherent(s), NEW w \in Workspaces
  PROVE Coherent(SwitchToWorkspace(s, w))
<1> DEFINE t == SwitchWorkspace(s, w)
           u == IF t.active_view \in t.omnipresent THEN t ELSE FocusTopmost(t)
<1>1. Coherent(t) BY SwitchWorkspaceCoherent
<1>2. Coherent(u)
  <2> HIDE DEF t
  <2> QED BY <1>1, FocusTopmostCoherent
<1>3. SwitchToWorkspace(s, w) \in {s, ShowDesktopReset(u)} BY DEF SwitchToWorkspace
<1> HIDE DEF u
<1> QED BY <1>2, <1>3, ShowDesktopResetCoherent

\* SendToDesktop keeps coherence.
LEMMA SendToDesktopCoherent ==
  ASSUME Coherent(server), NEW v \in Views, NEW w \in Workspaces, NEW follow \in BOOLEAN,
         SendToDesktop(v, w, follow)
  PROVE Coherent(server')
<1> DEFINE W == [server.workspace EXCEPT ![v] = w]
           s == [server EXCEPT !.workspace = W]
<1>1. server \in Server BY DEF Coherent, Plain
<1>2. W \in [Views -> Workspaces] BY <1>1 DEF Server
<1>3. Coherent(s)
  <2>1. s \in Server /\ AgreeOnFocus(server, s)
    <3> HIDE DEF W
    <3> QED BY <1>1, <1>2 DEF Server, AgreeOnFocus
  <2> HIDE DEF s
  <2> QED BY <2>1, AgreeCoherent
<1>4. s = [server EXCEPT !.workspace[v] = w] BY <1>1 DEF Server
<1>5. server' \in {s, SwitchToWorkspace(s, w), FocusTopmost(s)}
  <2> HIDE DEF s
  <2> QED BY <1>4 DEF SendToDesktop
<1> HIDE DEF s
<1> QED BY <1>3, <1>5, SwitchToWorkspaceCoherent, FocusTopmostCoherent

\* ToggleOmnipresent keeps coherence.
LEMMA ToggleOmnipresentCoherent ==
  ASSUME Coherent(server), NEW v \in Views, ToggleOmnipresent(v)
  PROVE Coherent(server')
<1> DEFINE O == IF v \in server.omnipresent THEN server.omnipresent \ {v}
                                            ELSE server.omnipresent \cup {v}
           s == [server EXCEPT !.omnipresent = O]
<1>1. server \in Server BY DEF Coherent, Plain
<1>2. O \in SUBSET Views BY <1>1 DEF Server
<1>3. s \in Server /\ AgreeOnFocus(server, s)
  <2> HIDE DEF O
  <2> QED BY <1>1, <1>2 DEF Server, AgreeOnFocus
<1>4. server' = s BY DEF ToggleOmnipresent
<1> HIDE DEF s
<1> QED BY <1>3, <1>4, AgreeCoherent

\* The actions of key bindings and menus keep coherence.
LEMMA ActionStepCoherent ==
  ASSUME Coherent(server), NEW v \in Views, ActionStep(v)
  PROVE Coherent(server')
<1>1. CASE FocusAction(v) BY <1>1, FocusViewCoherent DEF FocusAction
<1>2. CASE Raise(v) BY <1>2, MoveToFrontCoherent DEF Raise
<1>3. CASE Lower(v) BY <1>3, MoveToBackCoherent DEF Lower
<1>4. CASE \E w \in Workspaces, follow \in BOOLEAN : SendToDesktop(v, w, follow)
  BY <1>4, SendToDesktopCoherent
<1>5. CASE ToggleOmnipresent(v) BY <1>5, ToggleOmnipresentCoherent
<1> QED BY <1>1, <1>2, <1>3, <1>4, <1>5 DEF ActionStep

\* interactive_set_grab_context() keeps coherence.
LEMMA ButtonPressCoherent ==
  ASSUME Coherent(server), NEW v \in Views, ButtonPress(v)
  PROVE Coherent(server')
<1>1. server \in Server BY DEF Coherent, Plain
<1>2. /\ server' \in Server
      /\ server'.views = server.views /\ server'.mapped = server.mapped
      /\ server'.minimized = server.minimized
      /\ server'.active_view = server.active_view
      /\ server'.last_active = server.last_active
      /\ server'.grabbed_view = v
      /\ server'.auto_raise = server.auto_raise
      /\ server'.focused_surface = server.focused_surface
      /\ server'.override = server.override
      /\ server'.input_mode = server.input_mode
      /\ server'.locked = server.locked
      /\ server'.focused_layer = server.focused_layer
  BY <1>1 DEF ButtonPress, Server
<1>3. v \in server.mapped \ server.minimized /\ server.input_mode = "passthrough"
  BY DEF ButtonPress, Visible
<1> QED BY <1>2, <1>3
        DEF Coherent, Plain, PointsToLive, GrabMatchesMode, ActiveIsFocused, Visible

\* The pointer's handlers keep coherence.
LEMMA CursorStepCoherent ==
  ASSUME Coherent(server), NEW v \in Views, CursorStep(v)
  PROVE Coherent(server')
<1>1. CASE CursorEnter(v) BY <1>1, FocusViewCoherent DEF CursorEnter
<1>2. CASE ButtonPress(v) BY <1>2, ButtonPressCoherent
<1>3. CASE \E mode \in {"move", "resize"} : InteractiveBegin(v, mode)
  <2>1. v # None BY SeatAssumption
  <2> QED BY <1>3, <2>1, OverrideBeginCoherent DEF InteractiveBegin, InputModes
<1> QED BY <1>1, <1>2, <1>3 DEF CursorStep

\* The handlers that concern no particular view keep coherence.
LEMMA SessionStepCoherent ==
  ASSUME Coherent(server), SessionStep
  PROVE Coherent(server')
<1>1. CASE UnfocusAction BY <1>1, SeatFocusSurfaceCoherent DEF UnfocusAction
<1>2. CASE AutoRaiseTimer
  <2> DEFINE s == [server EXCEPT !.auto_raise = None]
  <2>1. Coherent(s) BY AutoRaiseCoherent
  <2>2. server' \in {s, MoveToFront(s, server.auto_raise)} BY <1>2 DEF AutoRaiseTimer
  <2> HIDE DEF s
  <2> QED BY <2>1, <2>2, MoveToFrontCoherent
<1>3. CASE \E w \in Workspaces : GoToDesktop(w)
  BY <1>3, SwitchToWorkspaceCoherent DEF GoToDesktop
<1>4. CASE ButtonRelease
  <2>1. CoherentButGrab(server, server.grabbed_view)
    BY DEF CoherentButGrab, Coherent, GrabMatchesMode
  <2> QED BY <1>4, <2>1, InteractiveCancelCoherent DEF ButtonRelease
<1>5. CASE OpenMenu BY <1>5, OverrideBeginCoherent DEF OpenMenu, InputModes
<1>6. CASE CloseMenu BY <1>6, OverrideEndCoherent DEF CloseMenu
<1> QED BY <1>1, <1>2, <1>3, <1>4, <1>5, <1>6 DEF SessionStep

----------------------------------------------------------------------------
(* The destruction of a view *)

\* View v is about to leave server.views: only the keyboard, or the surface to
\* restore, may still be its own.
Leaving(s, v) ==
    /\ Plain(s) /\ PointsToLive(s) /\ GrabMatchesMode(s)
    /\ v \notin {s.grabbed_view, s.auto_raise, s.last_active}
    /\ IF s.input_mode = "passthrough"
       THEN /\ s.override = None
            /\ s.active_view = s.focused_surface \/ s.focused_surface = v
       ELSE /\ s.focused_surface = None
            /\ s.active_view = IF s.override = v THEN None ELSE s.override

\* view_destroy() first clears the pointers to the view, but for the keyboard's.
LEMMA ForgetLeaving ==
  ASSUME NEW s, Coherent(s), NEW v \in Views \ s.mapped
  PROVE Leaving(Forget(s, v), v) /\ Forget(s, v).mapped = s.mapped
<1> DEFINE a == IF s.active_view = v THEN None ELSE s.active_view
           r == IF s.auto_raise = v THEN None ELSE s.auto_raise
           l == IF s.last_active = v THEN None ELSE s.last_active
           t == [s EXCEPT !.active_view = a, !.auto_raise = r, !.last_active = l]
<1>1. s \in Server /\ v # None BY SeatAssumption DEF Coherent, Plain
<1>2. s.grabbed_view # v BY <1>1 DEF Coherent, GrabMatchesMode, Visible
<1>3. Forget(s, v) = t
  <2>1. InteractiveCancel(s, v) = s BY <1>2 DEF InteractiveCancel
  <2> QED BY <2>1 DEF Forget
<1>4. {a, r, l} \subseteq Views \cup {None} BY <1>1 DEF Server
<1>5. /\ t \in Server
      /\ t.views = s.views /\ t.mapped = s.mapped /\ t.minimized = s.minimized
      /\ t.active_view = a /\ t.last_active = l
      /\ t.grabbed_view = s.grabbed_view /\ t.auto_raise = r
      /\ t.focused_surface = s.focused_surface /\ t.override = s.override
      /\ t.input_mode = s.input_mode
      /\ t.locked = s.locked /\ t.focused_layer = s.focused_layer
  <2> HIDE DEF a, r, l
  <2> QED BY <1>1, <1>4, ZenonT(60) DEF Server
<1> HIDE DEF t
<1>6. Plain(t) BY <1>5 DEF Coherent, Plain
<1>7. PointsToLive(t) BY <1>5 DEF Coherent, PointsToLive
<1>8. GrabMatchesMode(t) BY <1>5 DEF Coherent, GrabMatchesMode, Visible
<1> QED BY <1>1, <1>2, <1>3, <1>5, <1>6, <1>7, <1>8 DEF Coherent, ActiveIsFocused, Leaving

\* Closing the view's own menu may give the keyboard back to it once more.
LEMMA OverrideEndLeaving ==
  ASSUME NEW s, NEW v \in Views, Leaving(s, v), s.input_mode = "menu"
  PROVE Leaving(FocusOverrideEnd(s, TRUE), v) /\ FocusOverrideEnd(s, TRUE).mapped = s.mapped
<1> DEFINE t == FocusOverrideEnd(s, TRUE)
<1>1. s \in Server /\ s.override \in Views \cup {None} BY DEF Leaving, Plain
<1>2. t = [s EXCEPT !.input_mode = "passthrough",
                    !.focused_surface = s.override,
                    !.active_view = s.override,
                    !.override = None]
  BY OverrideEndIs, SeatAssumption DEF Leaving
<1> HIDE DEF t
<1>3. /\ t \in Server
      /\ t.views = s.views /\ t.mapped = s.mapped /\ t.minimized = s.minimized
      /\ t.active_view = s.override /\ t.last_active = s.last_active
      /\ t.grabbed_view = s.grabbed_view /\ t.auto_raise = s.auto_raise
      /\ t.focused_surface = s.override /\ t.override = None
      /\ t.input_mode = "passthrough"
      /\ t.locked = s.locked /\ t.focused_layer = s.focused_layer
  BY <1>1, <1>2 DEF Server, Surfaces, InputModes
<1>4. Plain(t) BY <1>1, <1>3 DEF Leaving, Plain
<1>5. PointsToLive(t) BY <1>1, <1>3, SeatAssumption DEF Leaving, PointsToLive
<1>6. GrabMatchesMode(t) BY <1>3 DEF Leaving, GrabMatchesMode, Visible
<1> QED BY <1>3, <1>4, <1>5, <1>6 DEF Leaving, t

\* When the view leaves server.views and its surface is destroyed, coherence is
\* restored.
LEMMA RemoveViewCoherent ==
  ASSUME NEW s, NEW v \in Views \ s.mapped, Leaving(s, v)
  PROVE Coherent(RemoveView(s, v))
<1> DEFINE V == s.views \ {v}
           A == { p \in s.above : v \notin {p[1], p[2]} }
           P == [s.parent EXCEPT ![v] = None]
           M == s.minimized \ {v}
           W == [s.workspace EXCEPT ![v] = FirstWorkspace]
           O == s.omnipresent \ {v}
           H == s.hidden \ {v}
           p == [s EXCEPT !.views = V]
           q == [p EXCEPT !.parent = P]
           r == [q EXCEPT !.above = A]
           t == [r EXCEPT !.minimized = M, !.workspace = W,
                          !.omnipresent = O, !.hidden = H]
           f == IF s.focused_surface = v THEN None ELSE s.focused_surface
           a == IF s.focused_surface = v THEN None ELSE s.active_view
           o == IF s.override = v THEN None ELSE s.override
           u == [t EXCEPT !.focused_surface = f, !.active_view = a, !.override = o]
<1>1. s \in Server /\ ~s.locked /\ s.focused_layer = None
  BY DEF Leaving, Plain
<1>2. /\ V \in SUBSET Views /\ A \in SUBSET (Views \X Views)
      /\ P \in [Views -> Views \cup {None}]
      /\ M \in SUBSET Views /\ W \in [Views -> Workspaces]
      /\ O \in SUBSET Views /\ H \in SUBSET Views
  BY <1>1, DesktopAssumption DEF Server
<1>3. /\ t \in Server
      /\ t.views = V /\ t.mapped = s.mapped /\ t.minimized = M
      /\ t.active_view = s.active_view /\ t.last_active = s.last_active
      /\ t.grabbed_view = s.grabbed_view /\ t.auto_raise = s.auto_raise
      /\ t.focused_surface = s.focused_surface /\ t.override = s.override
      /\ t.input_mode = s.input_mode
      /\ t.locked = s.locked /\ t.focused_layer = s.focused_layer
  <2> HIDE DEF V, A, P, M, W, O, H
  <2>1. p \in Server BY <1>1, <1>2 DEF Server
  <2>2. q \in Server
    <3> HIDE DEF p
    <3> QED BY <1>2, <2>1 DEF Server
  <2>3. r \in Server
    <3> HIDE DEF q
    <3> QED BY <1>2, <2>2 DEF Server
  <2>4. t \in Server
    <3> HIDE DEF r
    <3> QED BY <1>2, <2>3, ZenonT(60) DEF Server
  <2> QED BY <1>1, <2>4 DEF Server
<1>4. RemoveView(s, v) = SurfaceDestroyed(t, v)
  BY <1>1, ZenonT(60) DEF RemoveView, Server
<1> HIDE DEF t
<1>5. SurfaceDestroyed(t, v) = u
  <2> DEFINE k == IF t.focused_surface = v THEN KeyboardEnter(t, None) ELSE t
  <2>1. k = [t EXCEPT !.focused_surface = f, !.active_view = a]
    <3>1. CASE s.focused_surface = v
      <4>1. s.input_mode = "passthrough"
        BY <3>1, SeatAssumption DEF Leaving
      <4>2. None \notin Surfaces \ Views BY SeatAssumption DEF Surfaces
      <4>3. KeyboardEnter(t, None) = [[t EXCEPT !.focused_surface = None]
                                          EXCEPT !.active_view = None]
        BY <1>3, <3>1, <4>1, <4>2, SeatAssumption DEF KeyboardEnter, HandleFocusChange, Server
      <4> QED BY <1>3, <3>1, <4>3 DEF Server
    <3>2. CASE s.focused_surface # v
      BY <1>3, <3>2 DEF Server
    <3> QED BY <3>1, <3>2
  <2>2. k.override = s.override BY <1>3, <2>1 DEF Server
  <2>3. SurfaceDestroyed(t, v) = IF k.override = v THEN [k EXCEPT !.override = None] ELSE k
    BY DEF SurfaceDestroyed
  <2> HIDE DEF k
  <2>4. CASE s.override = v
    <3>1. SurfaceDestroyed(t, v) = [k EXCEPT !.override = None] BY <2>2, <2>3, <2>4
    <3> QED BY <1>3, <2>1, <2>4, <3>1 DEF Server
  <2>5. CASE s.override # v
    <3>1. SurfaceDestroyed(t, v) = k BY <2>2, <2>3, <2>5
    <3>2. o = t.override /\ t \in Server BY <1>3, <2>5
    <3> HIDE DEF o, f, a
    <3> QED BY <2>1, <3>1, <3>2 DEF Server
  <2> HIDE DEF u
  <2> QED BY <2>4, <2>5
<1>6. /\ f \in Views \cup {None} /\ a \in Views \cup {None} /\ o \in Views \cup {None}
  BY <1>1 DEF Leaving, Plain, Server
<1>7. /\ u \in Server
      /\ u.views = V /\ u.mapped = s.mapped /\ u.minimized = M
      /\ u.active_view = a /\ u.last_active = s.last_active
      /\ u.grabbed_view = s.grabbed_view /\ u.auto_raise = s.auto_raise
      /\ u.focused_surface = f /\ u.override = o
      /\ u.input_mode = s.input_mode
      /\ u.locked = s.locked /\ u.focused_layer = s.focused_layer
  <2> HIDE DEF f, a, o
  <2> QED BY <1>3, <1>6, ZenonT(60) DEF Server, Surfaces
<1> HIDE DEF u
<1>8. Plain(u) BY <1>1, <1>6, <1>7 DEF Plain
<1>9. ActiveIsFocused(u) BY <1>7, SeatAssumption DEF Leaving, ActiveIsFocused
<1>10. GrabMatchesMode(u) BY <1>7 DEF Leaving, GrabMatchesMode, Visible
<1>11. PointsToLive(u)
  <2>1. a # v BY SeatAssumption DEF Leaving
  <2>2. {f, o} \cap Views \subseteq V BY SeatAssumption DEF Leaving, PointsToLive
  <2>3. {a, s.grabbed_view, s.auto_raise, s.last_active} \subseteq V \cup {None}
    BY <2>1 DEF Leaving, PointsToLive
  <2>4. s.mapped \subseteq V BY DEF Leaving, PointsToLive
  <2> QED BY <1>7, <2>2, <2>3, <2>4 DEF PointsToLive
<1> QED BY <1>4, <1>5, <1>8, <1>9, <1>10, <1>11 DEF Coherent

\* handle_destroy() keeps coherence.
LEMMA DestroyCoherent ==
  ASSUME Coherent(server), NEW v \in Views, Destroy(v)
  PROVE Coherent(server')
<1> DEFINE s == Forget(server, v)
<1>1. v \notin server.mapped BY DEF Destroy
<1>2. Leaving(s, v) /\ v \in Views \ s.mapped BY <1>1, ForgetLeaving
<1>3. PICK ownMenu \in {FALSE, server.input_mode = "menu"} :
        server' = RemoveView(IF ownMenu THEN FocusOverrideEnd(s, TRUE) ELSE s, v)
  BY DEF Destroy
<1>4. CASE ~ownMenu BY <1>2, <1>3, <1>4, RemoveViewCoherent
<1>5. CASE ownMenu
  <2>1. s.input_mode = "menu"
    <3>1. server.input_mode = "menu" BY <1>5
    <3>2. server.grabbed_view # v /\ server \in Server
      BY <1>1, SeatAssumption DEF Coherent, Plain, GrabMatchesMode, Visible
    <3> QED BY <3>1, <3>2 DEF Forget, InteractiveCancel, Server
  <2>2. Leaving(FocusOverrideEnd(s, TRUE), v) /\ v \in Views \ FocusOverrideEnd(s, TRUE).mapped
    <3> HIDE DEF s
    <3> QED BY <1>2, <2>1, OverrideEndLeaving
  <2> QED BY <1>3, <1>5, <2>2, RemoveViewCoherent
<1> QED BY <1>4, <1>5

\* The inductive invariant
IInv == Coherent(server)

----------------------------------------------------------------------------
(* The theorems *)

\* The server is coherent after every handler.
THEOREM IInvHolds == Spec => []IInv
<1>1. Init => IInv BY InitCoherent DEF IInv
<1>2. IInv /\ [Next]_server => IInv'
  <2> SUFFICES ASSUME Coherent(server), [Next]_server PROVE Coherent(server')
    BY DEF IInv
  <2>1. ASSUME NEW v \in Views, ClientStep(v) PROVE Coherent(server')
    BY <2>1, ClientStepCoherent
  <2>2. ASSUME NEW v \in Views, ActionStep(v) PROVE Coherent(server')
    BY <2>2, ActionStepCoherent
  <2>3. ASSUME NEW v \in Views, CursorStep(v) PROVE Coherent(server')
    BY <2>3, CursorStepCoherent
  <2>4. CASE SessionStep BY <2>4, SessionStepCoherent
  <2>5. ASSUME NEW v \in Views, Destroy(v) PROVE Coherent(server')
    BY <2>5, DestroyCoherent
  <2>6. CASE UNCHANGED server BY <2>6
  <2> QED BY <2>1, <2>2, <2>3, <2>4, <2>5, <2>6 DEF Next, DesktopStep
<1> QED BY <1>1, <1>2, PTL DEF Spec

\* Every field of struct server always holds a value of its type.
THEOREM TypeCorrect == Spec => []TypeOK
<1>1. IInv => TypeOK BY DEF IInv, Coherent, Plain, TypeOK
<1> QED BY <1>1, IInvHolds, PTL

\* No pointer of the server is ever left on a view that view_destroy() freed.
THEOREM PointersAreLive == Spec => []NoDanglingPointers
<1>1. IInv => NoDanglingPointers BY DEF IInv, Coherent, NoDanglingPointers
<1> QED BY <1>1, IInvHolds, PTL

\* An interactive move or resize always has a visible view to move.
THEOREM GrabIsConsistent == Spec => []GrabIsVisible
<1>1. IInv => GrabIsVisible BY DEF IInv, Coherent, GrabIsVisible
<1> QED BY <1>1, IInvHolds, PTL

\* The active view always is the one that has the keyboard, or is to get it back.
THEOREM ActiveViewHasKeyboard == Spec => []ActiveFollowsFocus
<1>1. IInv => ActiveFollowsFocus BY DEF IInv, Coherent, ActiveFollowsFocus
<1> QED BY <1>1, IInvHolds, PTL

\* The pointers, the grab, the input mode and the focus of struct server agree
\* after every handler.
THEOREM DesktopIsCoherent == Spec => []ServerIsCoherent
<1> QED BY TypeCorrect, PointersAreLive, GrabIsConsistent, ActiveViewHasKeyboard, PTL
    DEF ServerIsCoherent

----------------------------------------------------------------------------
(* Orders *)

\* R is a strict and total order of S.
StrictOrder(R, S) ==
    /\ \A u \in S : <<u, u>> \notin R
    /\ \A u, v \in S : u # v => (<<u, v>> \in R <=> <<v, u>> \notin R)
    /\ \A u, v, w \in S : <<u, v>> \in R /\ <<v, w>> \in R => <<u, w>> \in R

\* Every non-empty part of a finite set has a first member.
LEMMA OneIsFirst ==
  ASSUME NEW S, IsFiniteSet(S), NEW R, StrictOrder(R, S), NEW T, T \subseteq S, T # {}
  PROVE \E v \in T : \A w \in T \ {v} : <<v, w>> \in R
<1> DEFINE Ahead(v) == { w \in T : <<w, v>> \in R }
           Q == { Ahead(v) : v \in T }
<1>1. Q \subseteq FiniteSubsetsOf(S)
  <2>1. FiniteSubsetsOf(S) = SUBSET S BY FS_FiniteSubsetsOfFinite
  <2>2. \A v \in T : Ahead(v) \in SUBSET S OBVIOUS
  <2> HIDE DEF Ahead
  <2> QED BY <2>1, <2>2
<1>2. Q # {} OBVIOUS
<1>3. IsWellFoundedOn(StrictSubsetOrdering(S), FiniteSubsetsOf(S))
  BY FS_StrictSubsetOrderingWellFounded
<1>4. \E X \in Q : \A Y \in Q : <<Y, X>> \notin StrictSubsetOrdering(S)
  <2> HIDE DEF Q
  <2> QED BY <1>1, <1>2, <1>3, WFMin
<1>5. PICK v \in T : \A w \in T : <<Ahead(w), Ahead(v)>> \notin StrictSubsetOrdering(S)
  BY <1>4
<1>6. ASSUME NEW w \in T \ {v}, <<v, w>> \notin R PROVE FALSE
  <2>1. <<w, v>> \in R BY <1>6 DEF StrictOrder
  <2>2. Ahead(w) \subseteq Ahead(v) BY <2>1 DEF StrictOrder
  <2>3. w \in Ahead(v) /\ w \notin Ahead(w) BY <2>1 DEF StrictOrder
  <2>4. <<Ahead(w), Ahead(v)>> \in StrictSubsetOrdering(S)
    <3> HIDE DEF Ahead
    <3>1. Ahead(w) \subseteq S /\ Ahead(v) \subseteq S BY DEF Ahead
    <3> QED BY <2>2, <2>3, <3>1 DEF StrictSubsetOrdering
  <2> QED BY <1>5, <2>4
<1> QED BY <1>6

\* An order by rank is strict and total if it is so within each rank.
LEMMA RestackStrict ==
  ASSUME NEW s, NEW rank, \A v \in s.views : rank[v] \in Nat,
         \A u \in s.views : <<u, u>> \notin s.above,
         \A u, v \in s.views : u # v /\ rank[u] = rank[v]
            => (<<u, v>> \in s.above <=> <<v, u>> \notin s.above),
         \A u, v, w \in s.views : rank[u] = rank[v] /\ rank[v] = rank[w]
            /\ <<u, v>> \in s.above /\ <<v, w>> \in s.above => <<u, w>> \in s.above
  PROVE StrictOrder(Restack(s, rank), s.views)
<1> DEFINE R == Restack(s, rank)
<1>1. \A u, v \in s.views : <<u, v>> \in R <=>
         \/ rank[u] < rank[v]
         \/ rank[u] = rank[v] /\ <<u, v>> \in s.above
  BY DEF Restack
<1> HIDE DEF R
<1>2. \A u \in s.views : <<u, u>> \notin R
  <2> TAKE u \in s.views
  <2>1. rank[u] \in Nat OBVIOUS
  <2>2. ~(rank[u] < rank[u]) BY <2>1
  <2> QED BY <1>1, <2>2
<1>3. \A u, v \in s.views : u # v => (<<u, v>> \in R <=> <<v, u>> \notin R)
  <2> TAKE u, v \in s.views
  <2>1. rank[u] \in Nat /\ rank[v] \in Nat OBVIOUS
  <2>2. rank[u] < rank[v] \/ rank[v] < rank[u] \/ rank[u] = rank[v] BY <2>1
  <2>3. ~(rank[u] < rank[v] /\ rank[v] < rank[u])
        /\ (rank[u] = rank[v] => ~(rank[u] < rank[v]) /\ ~(rank[v] < rank[u]))
    BY <2>1
  <2> QED BY <1>1, <2>2, <2>3
<1>4. \A u, v, w \in s.views : <<u, v>> \in R /\ <<v, w>> \in R => <<u, w>> \in R
  <2> TAKE u, v, w \in s.views
  <2>1. rank[u] \in Nat /\ rank[v] \in Nat /\ rank[w] \in Nat OBVIOUS
  <2> QED BY <1>1, <2>1
<1> QED BY <1>2, <1>3, <1>4 DEF StrictOrder, R

----------------------------------------------------------------------------
(* Hierarchies *)

SameHierarchy(s, t) == t.views = s.views /\ t.parent = s.parent /\ t.mapped = s.mapped

\* The hierarchies depend on the views, their parents and which are mapped.
LEMMA SameFamilies ==
  ASSUME NEW s, NEW t, SameHierarchy(s, t), NEW v
  PROVE Root(t, v) = Root(s, v) /\ SubViews(t, v) = SubViews(s, v) /\ Family(t, v) = Family(s, v)
<1>1. \A w : Ancestors(t, w) = Ancestors(s, w) BY DEF Ancestors, SameHierarchy
<1>2. \A w : Root(t, w) = Root(s, w)
  <2> TAKE w
  <2>1. Ancestors(t, w) = Ancestors(s, w) /\ t.parent = s.parent
    BY <1>1 DEF SameHierarchy
  <2> QED BY <2>1, Zenon DEF Root
<1>3. \A w : SubViews(t, w) = SubViews(s, w) BY <1>2 DEF SubViews, SameHierarchy
<1> QED BY <1>2, <1>3 DEF Family

\* The most senior parent has none itself.
LEMMA RootOfRoot ==
  ASSUME NEW s, NEW v \in s.views
  PROVE Root(s, v) \in s.views /\ Root(s, Root(s, v)) = Root(s, v)
<1> DEFINE r == Root(s, v)
<1>1. CASE \E w \in Ancestors(s, v) : s.parent[w] = None
  <2>1. r \in Ancestors(s, v) /\ s.parent[r] = None BY <1>1 DEF Root
  <2> HIDE DEF r
  <2>2. r \in s.views BY <2>1 DEF Ancestors
  <2>3. Ancestors(s, r) = {r}
    <3>1. r \in Ancestors(s, r) BY <2>2 DEF Ancestors
    <3>2. ASSUME NEW w \in Ancestors(s, r) PROVE w = r
      <4>1. {r} \in SUBSET s.views /\ \A c \in {r} : s.parent[c] \in {r} \cup {None}
        BY <2>1, <2>2
      <4> QED BY <4>1, <3>2 DEF Ancestors
    <3> QED BY <3>1, <3>2
  <2>4. Root(s, r) = r BY <2>1, <2>3 DEF Root
  <2> QED BY <2>2, <2>4 DEF r
<1>2. CASE ~\E w \in Ancestors(s, v) : s.parent[w] = None
  BY <1>2 DEF Root
<1> QED BY <1>1, <1>2

\* All members of a family have the same one, and a mapped view is in its own.
LEMMA FamilyOfMember ==
  ASSUME NEW s, NEW x \in s.views
  PROVE /\ \A w \in Family(s, x) : Family(s, w) = Family(s, x)
        /\ x \in s.mapped => x \in Family(s, x)
<1>1. Root(s, Root(s, x)) = Root(s, x) BY RootOfRoot
<1>2. \A w \in Family(s, x) : Root(s, w) = Root(s, x) BY <1>1 DEF Family, SubViews
<1> QED BY <1>2 DEF Family, SubViews

\* Between two orders of the views, families move as a whole.
FamiliesMove(s, R) ==
    \A p \in s.above \ R :
        <<p[2], p[1]>> \in R /\ Family(s, p[1]) # Family(s, p[2])
        => \/ \A f \in Family(s, p[2]), o \in s.mapped \ Family(s, p[2]) : <<f, o>> \in R
           \/ \A f \in Family(s, p[1]), o \in s.mapped \ Family(s, p[1]) : <<o, f>> \in R

\* server.views as a list
Ordered(s) ==
    /\ IsFiniteSet(s.views)
    /\ s.above \subseteq s.views \X s.views
    /\ s.mapped \subseteq s.views
    /\ StrictOrder(s.above, s.views)

\* view_move_to_front(): the list stays one, and the family moves to its front.
LEMMA MoveToFrontMoves ==
  ASSUME NEW s \in Server, Ordered(s), NEW x, NEW R, R = MoveToFront(s, x).above
  PROVE /\ R \subseteq s.views \X s.views /\ StrictOrder(R, s.views)
        /\ x \in s.mapped => FamiliesMove(s, R)
<1> DEFINE root == Root(s, x)
           rank == [ w \in Views |-> CASE w = x /\ x # root -> 0
                                       [] w = root -> 2
                                       [] w \in SubViews(s, root) -> 1
                                       [] OTHER -> 3 ]
<1>1. R = s.above \/ R = Restack(s, rank) BY DEF MoveToFront, Server
<1>2. CASE R = s.above BY <1>2 DEF Ordered, FamiliesMove
<1>3. CASE R = Restack(s, rank)
  <2>1. s.views \subseteq Views BY DEF Server
  <2>2. \A v \in s.views : rank[v] \in {0, 1, 2, 3} BY <2>1
  <2>3. ASSUME x \in s.mapped PROVE x \in s.views BY <2>3 DEF Ordered
  <2>4. ASSUME x \in s.mapped PROVE \A v \in s.views : rank[v] = 3 <=> v \notin Family(s, x)
    <3>1. x \in Family(s, x) BY <2>3, <2>4, FamilyOfMember
    <3> QED BY <2>1, <3>1 DEF Family
  <2> HIDE DEF rank
  <2>5. StrictOrder(R, s.views)
    <3>1. \A v \in s.views : rank[v] \in Nat BY <2>2
    <3> QED BY <1>3, <3>1, RestackStrict DEF Ordered, StrictOrder
  <2>6. R \subseteq s.views \X s.views BY <1>3 DEF Restack
  <2>7. \A u, v \in s.views : <<u, v>> \in R <=>
          \/ rank[u] < rank[v]
          \/ rank[u] = rank[v] /\ <<u, v>> \in s.above
    BY <1>3 DEF Restack
  <2>8. ASSUME x \in s.mapped, NEW u \in s.views, NEW v \in s.views, <<u, v>> \in s.above,
               <<u, v>> \notin R, <<v, u>> \in R
        PROVE v \in Family(s, x)
    <3>1. <<v, u>> \notin s.above BY <2>8 DEF Ordered, StrictOrder
    <3>2. rank[v] < rank[u] BY <2>7, <2>8, <3>1
    <3>3. rank[v] # 3 BY <2>2, <3>2
    <3> QED BY <2>4, <2>8, <3>3
  <2>9. ASSUME x \in s.mapped
        PROVE \A f \in Family(s, x), o \in s.mapped \ Family(s, x) : <<f, o>> \in R
    <3> TAKE f \in Family(s, x), o \in s.mapped \ Family(s, x)
    <3>1. f \in s.views /\ o \in s.views
      BY <2>3, <2>9, RootOfRoot DEF Family, SubViews, Ordered
    <3>2. rank[f] # 3 /\ rank[o] = 3 BY <2>4, <2>9, <3>1
    <3>3. rank[f] < rank[o] BY <2>2, <3>1, <3>2
    <3> QED BY <2>7, <3>1, <3>3
  <2>10. ASSUME x \in s.mapped PROVE FamiliesMove(s, R)
    <3> SUFFICES ASSUME NEW p \in s.above \ R, <<p[2], p[1]>> \in R
                 PROVE \A f \in Family(s, p[2]), o \in s.mapped \ Family(s, p[2]) : <<f, o>> \in R
      BY DEF FamiliesMove
    <3>1. p[1] \in s.views /\ p[2] \in s.views /\ p = <<p[1], p[2]>> BY DEF Ordered
    <3>2. p[2] \in Family(s, x) BY <2>8, <2>10, <3>1
    <3>3. Family(s, p[2]) = Family(s, x) BY <2>3, <2>10, <3>2, FamilyOfMember
    <3> QED BY <2>9, <2>10, <3>3
  <2> QED BY <2>5, <2>6, <2>10
<1> QED BY <1>1, <1>2, <1>3

\* view_move_to_back(): the same at the other end, where the sub-views change places.
LEMMA MoveToBackMoves ==
  ASSUME NEW s \in Server, Ordered(s), NEW x, NEW R, R = MoveToBack(s, x).above
  PROVE /\ R \subseteq s.views \X s.views /\ StrictOrder(R, s.views)
        /\ x \in s.mapped => FamiliesMove(s, R)
<1> DEFINE root == Root(s, x)
           subs == SubViews(s, root)
           rank == [ w \in Views |-> CASE w = root -> 2
                                       [] w \in subs -> 1
                                       [] OTHER -> 0 ]
           flipped == { p \in s.views \X s.views :
                          IF {p[1], p[2]} \subseteq subs
                          THEN <<p[2], p[1]>> \in s.above
                          ELSE p \in s.above }
           b == [s EXCEPT !.above = flipped]
<1>1. R = Restack(b, rank) BY DEF MoveToBack, Server
<1>2. b.views = s.views /\ b.above = flipped
  <2> HIDE DEF flipped
  <2> QED BY DEF Server
<1>3. \A u, v \in s.views : <<u, v>> \in flipped <=>
         IF u \in subs /\ v \in subs THEN <<v, u>> \in s.above ELSE <<u, v>> \in s.above
  OBVIOUS
<1>4. s.views \subseteq Views BY DEF Server
<1>5. \A v \in s.views : rank[v] \in {0, 1, 2} BY <1>4
<1>6. \A v \in s.views : /\ rank[v] = 1 <=> v \in subs
                         /\ rank[v] = 0 <=> v \notin Family(s, x)
  BY <1>4 DEF Family, SubViews
<1>7. ASSUME x \in s.mapped PROVE x \in s.views BY <1>7 DEF Ordered
<1> HIDE DEF rank, flipped, b
<1>8. StrictOrder(R, s.views)
  <2>1. \A v \in b.views : rank[v] \in Nat BY <1>2, <1>5
  <2>2. \A u \in b.views : <<u, u>> \notin b.above
    BY <1>2, <1>3 DEF Ordered, StrictOrder
  <2>3. \A u, v \in b.views : u # v /\ rank[u] = rank[v]
            => (<<u, v>> \in b.above <=> <<v, u>> \notin b.above)
    BY <1>2, <1>3 DEF Ordered, StrictOrder
  <2>4. \A u, v, w \in b.views : rank[u] = rank[v] /\ rank[v] = rank[w]
            /\ <<u, v>> \in b.above /\ <<v, w>> \in b.above => <<u, w>> \in b.above
    <3> HIDE DEF subs
    <3> TAKE u, v, w \in b.views
    <3> HAVE rank[u] = rank[v] /\ rank[v] = rank[w] /\ <<u, v>> \in b.above /\ <<v, w>> \in b.above
    <3>1. u \in s.views /\ v \in s.views /\ w \in s.views BY <1>2
    <3>2. (u \in subs <=> v \in subs) /\ (v \in subs <=> w \in subs) BY <1>6, <3>1
    <3>3. CASE u \in subs
      <4>1. <<v, u>> \in s.above /\ <<w, v>> \in s.above BY <1>2, <1>3, <3>1, <3>2, <3>3
      <4>2. <<w, u>> \in s.above BY <3>1, <4>1 DEF Ordered, StrictOrder
      <4> QED BY <1>2, <1>3, <3>1, <3>2, <3>3, <4>2
    <3>4. CASE u \notin subs
      <4>1. <<u, v>> \in s.above /\ <<v, w>> \in s.above BY <1>2, <1>3, <3>1, <3>2, <3>4
      <4>2. <<u, w>> \in s.above BY <3>1, <4>1 DEF Ordered, StrictOrder
      <4> QED BY <1>2, <1>3, <3>1, <3>2, <3>4, <4>2
    <3> QED BY <3>3, <3>4
  <2>5. StrictOrder(Restack(b, rank), b.views)
    BY <2>1, <2>2, <2>3, <2>4, RestackStrict
  <2> QED BY <1>1, <1>2, <2>5
<1>9. R \subseteq s.views \X s.views BY <1>1, <1>2 DEF Restack
<1>10. \A u, v \in s.views : <<u, v>> \in R <=>
          \/ rank[u] < rank[v]
          \/ rank[u] = rank[v] /\ <<u, v>> \in flipped
  BY <1>1, <1>2 DEF Restack
<1>11. ASSUME x \in s.mapped
       PROVE \A f \in Family(s, x), o \in s.mapped \ Family(s, x) : <<o, f>> \in R
  <2> TAKE f \in Family(s, x), o \in s.mapped \ Family(s, x)
  <2>1. f \in s.views /\ o \in s.views
    BY <1>7, <1>11, RootOfRoot DEF Family, SubViews, Ordered
  <2>2. rank[f] # 0 /\ rank[o] = 0 BY <1>6, <2>1
  <2>3. rank[o] < rank[f] BY <1>5, <2>1, <2>2
  <2> QED BY <1>10, <2>1, <2>3
<1>12. ASSUME NEW u \in s.views, NEW v \in s.views, <<u, v>> \in s.above,
              <<v, u>> \in R, Family(s, u) # Family(s, v)
       PROVE u \in Family(s, x)
  <2>1. <<v, u>> \notin s.above BY <1>12 DEF Ordered, StrictOrder
  <2>2. CASE rank[v] < rank[u]
    <3>1. rank[u] # 0 BY <1>5, <2>2
    <3> QED BY <1>6, <3>1
  <2>3. CASE <<v, u>> \in flipped
    <3>1. u \in subs BY <1>3, <2>1, <2>3
    <3> QED BY <3>1 DEF Family
  <2> QED BY <1>10, <1>12, <2>2, <2>3
<1>13. ASSUME x \in s.mapped PROVE FamiliesMove(s, R)
  <2> SUFFICES ASSUME NEW p \in s.above \ R, <<p[2], p[1]>> \in R,
                      Family(s, p[1]) # Family(s, p[2])
               PROVE \A f \in Family(s, p[1]), o \in s.mapped \ Family(s, p[1]) : <<o, f>> \in R
    BY DEF FamiliesMove
  <2>1. p[1] \in s.views /\ p[2] \in s.views /\ p = <<p[1], p[2]>> BY DEF Ordered
  <2>2. p[1] \in Family(s, x) BY <1>12, <2>1
  <2>3. Family(s, p[1]) = Family(s, x) BY <1>7, <1>13, <2>2, FamilyOfMember
  <2> QED BY <1>11, <1>13, <2>3
<1> QED BY <1>8, <1>9, <1>13

----------------------------------------------------------------------------
(* What does not concern the keyboard *)

\* What does not concern the keyboard; the stacking order and the workspaces may change.
Unseated(s, t) ==
    /\ t \in Server
    /\ t.views = s.views /\ t.mapped = s.mapped /\ t.parent = s.parent
    /\ t.locked = s.locked /\ t.focused_layer = s.focused_layer
    /\ t.interactivity = s.interactivity
    /\ t.focused_surface = s.focused_surface /\ t.input_mode = s.input_mode

\* Where the views are, in the list and on the workspaces
SamePlaces(s, t) ==
    /\ t.above = s.above /\ t.minimized = s.minimized
    /\ t.omnipresent = s.omnipresent
    /\ t.workspace = s.workspace /\ t.current = s.current

\* Calls one after the other that do not concern the keyboard
LEMMA UnseatedTwice ==
  ASSUME NEW s, NEW t, NEW u, Unseated(s, t), Unseated(t, u) PROVE Unseated(s, u)
BY DEF Unseated

\* show_desktop_reset()
LEMMA ResetUnseated ==
  ASSUME NEW s \in Server
  PROVE LET t == ShowDesktopReset(s)
        IN  Unseated(s, t) /\ SamePlaces(s, t) /\ t.last_active = s.last_active
<1> DEFINE H == s.hidden \ s.mapped
           t == [s EXCEPT !.showing_desktop = FALSE, !.hidden = H]
<1>1. H \subseteq Views BY DEF Server
<1>2. Unseated(s, t) /\ SamePlaces(s, t) /\ t.last_active = s.last_active
  <2> HIDE DEF H
  <2> QED BY <1>1, ZenonT(60) DEF Server, Unseated, SamePlaces
<1> QED BY <1>2 DEF ShowDesktopReset

\* workspaces_switch_to() without a refocus
LEMMA SwitchUnseated ==
  ASSUME NEW s \in Server, NEW w \in Workspaces
  PROVE LET t == SwitchWorkspace(s, w)
        IN  /\ Unseated(s, t)
            /\ t.above = s.above /\ t.minimized = s.minimized
            /\ t.omnipresent = s.omnipresent /\ t.current = w
            /\ \A v \in Views : s.workspace[v] = w => t.workspace[v] = w
<1> DEFINE W == [ v \in Views |->
                     IF v \in s.views /\ v \in s.omnipresent \cup {s.grabbed_view}
                     THEN w ELSE s.workspace[v] ]
           t == [s EXCEPT !.workspace = W, !.last = s.current, !.current = w]
           u == ShowDesktopReset(t)
<1>1. W \in [Views -> Workspaces] /\ \A v \in Views : s.workspace[v] = w => W[v] = w
  BY DEF Server
<1>2. Unseated(s, t)
  <2> HIDE DEF W
  <2> QED BY <1>1, ZenonT(60) DEF Server, Unseated
<1>3. /\ t.above = s.above /\ t.minimized = s.minimized
      /\ t.omnipresent = s.omnipresent /\ t.current = w /\ t.workspace = W
  <2> HIDE DEF W
  <2> QED BY <1>1, ZenonT(60) DEF Server
<1>4. SwitchWorkspace(s, w) = IF w = s.current THEN s ELSE u BY DEF SwitchWorkspace
<1> HIDE DEF t, W
<1>5. t \in Server BY <1>2 DEF Unseated
<1>6. Unseated(t, u) /\ SamePlaces(t, u) BY <1>5, ResetUnseated
<1> HIDE DEF u
<1>7. Unseated(s, s) BY DEF Unseated
<1>8. CASE w = s.current BY <1>4, <1>7, <1>8
<1>9. CASE w # s.current
  <2>1. Unseated(s, u) BY <1>2, <1>6, UnseatedTwice
  <2> QED BY <1>1, <1>3, <1>4, <1>6, <1>9, <2>1 DEF SamePlaces
<1> QED BY <1>8, <1>9

\* Changing the stacking order
LEMMA AboveUnseated ==
  ASSUME NEW s \in Server, NEW R \in SUBSET (Views \X Views)
  PROVE Unseated(s, [s EXCEPT !.above = R])
BY DEF Server, Unseated

\* view_move_to_front()
LEMMA MoveToFrontUnseated ==
  ASSUME NEW s \in Server, NEW v
  PROVE Unseated(s, MoveToFront(s, v))
<1>1. Unseated(s, s) BY DEF Unseated
<1>2. \A rank : Restack(s, rank) \in SUBSET (Views \X Views) BY RestackType
<1>3. \A rank : Unseated(s, [s EXCEPT !.above = Restack(s, rank)]) BY <1>2, AboveUnseated
<1> QED BY <1>1, <1>3 DEF MoveToFront

\* view_move_to_back()
LEMMA MoveToBackUnseated ==
  ASSUME NEW s \in Server, NEW v
  PROVE Unseated(s, MoveToBack(s, v))
<1> DEFINE flipped == { p \in s.views \X s.views :
                        IF {p[1], p[2]} \subseteq SubViews(s, Root(s, v))
                        THEN <<p[2], p[1]>> \in s.above
                        ELSE p \in s.above }
<1>1. flipped \subseteq Views \X Views BY DEF Server
<1>2. [s EXCEPT !.above = flipped] \in Server
  <2> HIDE DEF flipped
  <2> QED BY <1>1 DEF Server
<1>3. \A rank : Restack([s EXCEPT !.above = flipped], rank) \in SUBSET (Views \X Views)
  BY <1>2, RestackType
<1> QED BY <1>3, AboveUnseated DEF MoveToBack

=============================================================================

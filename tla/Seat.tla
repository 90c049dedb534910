-------------------------------- MODULE Seat --------------------------------
(***************************************************************************)
(* Keyboard focus and input modes: src/seat.c, and the part of wlroots'    *)
(* seat that emits focus_change.                                           *)
(*                                                                         *)
(* The C code keeps one global `struct server', and one event handler of   *)
(* the single-threaded event loop calls many functions that read and write *)
(* it.  A handler is one atomic step here, so each C function is an        *)
(* operator from a server record to the server record it leaves behind,    *)
(* and the call graph of the code is the composition of these operators.   *)
(***************************************************************************)
EXTENDS Naturals, FiniteSets

CONSTANTS
    Views,          \* toplevel windows; a view also stands for its wl_surface
    LayerSurfaces,  \* layer-shell surfaces (panels, launchers)
    LockSurfaces,   \* session-lock surfaces
    None            \* the NULL pointer

ASSUME SeatAssumption ==
    /\ None \notin Views \cup LayerSurfaces \cup LockSurfaces
    /\ Views \cap (LayerSurfaces \cup LockSurfaces) = {}
    /\ LayerSurfaces \cap LockSurfaces = {}

Surfaces == Views \cup LayerSurfaces \cup LockSurfaces

\* enum input_mode
InputModes == {"passthrough", "move", "resize", "menu", "cycle"}

\* Layer-shell keyboard interactivity
Interactivity == {"none", "on_demand", "exclusive"}

\* Mutation: the input mode is not looked at.
HandleFocusChangeInAnyMode(s, surface) ==
    IF surface \in Surfaces \ Views
    THEN s
    ELSE [s EXCEPT !.active_view = surface]

(***************************************************************************)
(* handle_focus_change(): a focus change to a layer or lock surface does   *)
(* not touch the views, nor does any change while an input mode holds the  *)
(* keyboard; otherwise the active view follows the focused surface.        *)
(***************************************************************************)
HandleFocusChange(s, surface) ==
    IF surface \in Surfaces \ Views \/ s.input_mode # "passthrough"
    THEN s
    ELSE [s EXCEPT !.active_view = surface]

\* wlr_seat_keyboard_enter(): no event when the surface is focused already.
KeyboardEnter(s, surface) ==
    IF s.focused_surface = surface
    THEN s
    ELSE HandleFocusChange([s EXCEPT !.focused_surface = surface], surface)

\* The focused layer surface demands exclusive keyboard interactivity.
HasExclusiveLayer(s) ==
    /\ s.focused_layer # None
    /\ s.interactivity[s.focused_layer] = "exclusive"

\* seat_focus()
SeatFocus(s, surface, replaceExclusiveLayer, isLockSurface) ==
    IF \/ HasExclusiveLayer(s) /\ ~replaceExclusiveLayer
       \/ s.locked /\ ~isLockSurface
    THEN s
    ELSE KeyboardEnter(s, surface)

\* seat_focus_surface()
SeatFocusSurface(s, surface) ==
    IF s.input_mode # "passthrough"
    THEN s
    ELSE SeatFocus(s, surface, FALSE, FALSE)

\* seat_focus_lock_surface()
SeatFocusLockSurface(s, surface) == SeatFocus(s, surface, TRUE, TRUE)

\* seat_focus_override_begin(): take the keyboard for an input mode.
FocusOverrideBegin(s, mode) ==
    SeatFocus([s EXCEPT !.input_mode = mode, !.override = s.focused_surface],
              None, FALSE, FALSE)

\* seat_focus_override_end(): give it back, to the same surface if asked to.
FocusOverrideEnd(s, restore) ==
    LET t == [s EXCEPT !.input_mode = "passthrough"]
        u == IF restore /\ t.override # None
             THEN SeatFocus(t, t.override, FALSE, FALSE)
             ELSE t
    IN  [u EXCEPT !.override = None]

(***************************************************************************)
(* A surface is destroyed: wlroots drops the keyboard focus it holds and   *)
(* handle_focus_override_surface_destroy() forgets it as the one to        *)
(* restore.                                                                *)
(***************************************************************************)
SurfaceDestroyed(s, surface) ==
    LET t == IF s.focused_surface = surface THEN KeyboardEnter(s, None) ELSE s
    IN  IF t.override = surface THEN [t EXCEPT !.override = None] ELSE t
=============================================================================

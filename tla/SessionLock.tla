---------------------------- MODULE SessionLock ----------------------------
(***************************************************************************)
(* The session-lock manager: src/session-lock.c, what src/output.c does to *)
(* it when an output comes or goes, and what wlroots' ext-session-lock     *)
(* destroys when a client unlocks or dies.  The manager's locked and       *)
(* last_active_view are fields of the server record, which the focus code  *)
(* reads.                                                                  *)
(***************************************************************************)
EXTENDS Desktop

CONSTANT Outputs

VARIABLE lock   \* struct session_lock_manager

lockVars == <<server, lock>>

Lock ==
    [ lock     : BOOLEAN,            \* manager->lock # NULL
      outputs  : SUBSET Outputs,     \* server.outputs
      covers   : SUBSET Outputs,     \* the outputs with a session_lock_output
      blank    : SUBSET Outputs,     \* its background is enabled
      timer    : SUBSET Outputs,     \* its blank_timer is armed
      surface  : [Outputs -> LockSurfaces \cup {None}],
      surfaces : SUBSET LockSurfaces,     \* the wl_surfaces that exist
      mapped   : SUBSET LockSurfaces,
      focused  : LockSurfaces \cup {None},
      idle     : SUBSET Outputs,     \* update_focus() is to be called
      stale    : BOOLEAN,            \* ... for a session_lock_output that is freed
      broken   : BOOLEAN ]           \* ... and was: what follows is undefined

LockInit ==
    /\ Init
    /\ lock \in [ lock : {FALSE}, outputs : {Outputs}, covers : {{}}, blank : {{}},
                  timer : {{}}, surface : [Outputs -> {None}], surfaces : {{}},
                  mapped : {{}}, focused : {None}, idle : {{}}, stale : {FALSE},
                  broken : {FALSE} ]

----------------------------------------------------------------------------
(* Destroying lock outputs and lock surfaces *)

\* Mutation: the outputs' surfaces are not searched for another one.
RefocusNothing(l, gone) == {None}

\* refocus_output(): the surfaces that may have the focus when some are gone,
\* one that is mapped on another output if there is one.
Refocus(l, gone) ==
    LET others == { l.surface[o] : o \in l.covers } \cap (l.mapped \ gone)
    IN  IF l.focused \notin gone THEN {l.focused}
        ELSE IF others = {} THEN {None}
        ELSE others

\* focus_surface(), when the focus of the manager changes at all
FocusSurface(s, l, surface) ==
    IF surface = l.focused THEN s ELSE SeatFocusLockSurface(s, surface)

\* session_lock_output_destroy() for a set of outputs: a callback that is
\* already scheduled for one of them keeps its pointer.
DropCovers(l, O) ==
    [l EXCEPT !.covers = @ \ O,
              !.blank = @ \ O,
              !.timer = @ \ O,
              !.surface = [ o \in Outputs |-> IF o \in O THEN None ELSE @[o] ],
              !.mapped = @ \ { l.surface[o] : o \in O },
              !.idle = @ \ O,
              !.stale = @ \/ O \cap l.idle # {}]

\* session_lock_output_create() for a set of outputs: blank at once if the
\* session was locked already, and in 100 ms otherwise.
AddCovers(l, O, alreadyLocked) ==
    [l EXCEPT !.covers = @ \cup O,
              !.blank = IF alreadyLocked THEN @ \cup O ELSE @,
              !.timer = IF alreadyLocked THEN @ ELSE @ \cup O]

\* session_lock_destroy(): with all its outputs the manager loses the focus.
DropLock(l) ==
    [DropCovers(l, l.covers) EXCEPT
        !.lock = FALSE,
        !.focused = IF @ \in { l.surface[o] : o \in l.covers } THEN None ELSE @]

----------------------------------------------------------------------------
(* Handlers *)

\* Mutation: the focus of the views is not cleared when the session is locked.
NewLockKeepsFocus ==
    /\ ~lock.lock
    /\ LET l == IF server.locked THEN DropLock(lock) ELSE lock
           s == FocusSurface(server, lock, l.focused)
       IN  /\ server' = [s EXCEPT !.last_active = s.active_view, !.locked = TRUE]
           /\ lock' = [AddCovers(l, l.outputs, s.locked) EXCEPT !.lock = TRUE]

\* handle_new_session_lock(): a second lock is refused, unless the first one
\* was abandoned.
NewLock ==
    /\ ~lock.lock
    /\ LET l == IF server.locked THEN DropLock(lock) ELSE lock
           s == FocusSurface(server, lock, l.focused)
           t == SeatFocusSurface([s EXCEPT !.last_active = s.active_view], None)
       IN  /\ server' = [t EXCEPT !.locked = TRUE]
           /\ lock' = [AddCovers(l, l.outputs, s.locked) EXCEPT !.lock = TRUE]

\* handle_new_surface(); wlroots refuses a second surface for an output.
NewSurface(o, surface) ==
    /\ lock.lock
    /\ o \in lock.covers /\ lock.surface[o] = None
    /\ surface \notin lock.surfaces
    /\ lock' = [lock EXCEPT !.surface[o] = surface, !.surfaces = @ \cup {surface}]
    /\ UNCHANGED server

\* handle_surface_map() leaves the rest to an idle callback.
MapSurface(o) ==
    /\ lock.surface[o] \in LockSurfaces \ lock.mapped
    /\ lock' = [lock EXCEPT !.mapped = @ \cup {lock.surface[o]}, !.idle = @ \cup {o}]
    /\ UNCHANGED server

\* Mutation: the callback updates the cursor only.
UpdateCursorOnly(o) ==
    /\ o \in lock.idle
    /\ lock' = [lock EXCEPT !.idle = @ \ {o}]
    /\ UNCHANGED server

\* update_focus(): without a focused surface, output->surface is dereferenced.
UpdateFocus(o) ==
    /\ o \in lock.idle
    /\ LET surface == IF lock.focused = None THEN lock.surface[o] ELSE lock.focused
       IN  /\ lock' = [lock EXCEPT !.idle = @ \ {o},
                                   !.focused = surface,
                                   !.broken = @ \/ surface = None]
           /\ server' = FocusSurface(server, lock, surface)

\* update_focus() of a session_lock_output that is freed
UpdateFreedFocus ==
    /\ lock.stale
    /\ lock' = [lock EXCEPT !.stale = FALSE, !.broken = TRUE]
    /\ UNCHANGED server

\* handle_surface_destroy(), if the surface is still on an output, and then
\* wlroots destroys the wl_surface.
DestroySurface(surface) ==
    /\ surface \in lock.surfaces
    /\ \E focused \in Refocus(lock, {surface}) :
          /\ lock' = [lock EXCEPT
                !.surfaces = @ \ {surface},
                !.mapped = @ \ {surface},
                !.surface = [ o \in Outputs |-> IF @[o] = surface THEN None ELSE @[o] ],
                !.focused = focused]
          /\ server' = SurfaceDestroyed(FocusSurface(server, lock, focused), surface)

\* handle_lock_unlock(); the wl_surfaces outlive the lock.
Unlock ==
    /\ lock.lock
    /\ lock' = DropLock(lock)
    /\ LET s == [FocusSurface(server, lock, lock'.focused) EXCEPT !.locked = FALSE]
           t == IF s.last_active # None
                THEN FocusView(s, s.last_active, FALSE, FALSE)
                ELSE FocusTopmost(s)
       IN  server' = [t EXCEPT !.last_active = None]

\* The client goes without unlocking: its surfaces go, and handle_lock_destroy()
\* keeps the session locked and the outputs covered.
LockDestroyed ==
    /\ lock.lock
    /\ lock' = [lock EXCEPT !.lock = FALSE,
                            !.surface = [o \in Outputs |-> None],
                            !.surfaces = {}, !.mapped = {}, !.focused = None]
    /\ LET s == FocusSurface(server, lock, None)
       IN  server' = IF s.override \in LockSurfaces THEN [s EXCEPT !.override = None]
                                                   ELSE s

\* Mutation: an output that is plugged in while locked is left as it is.
OutputAddedBare(o) ==
    /\ o \notin lock.outputs
    /\ lock' = [lock EXCEPT !.outputs = @ \cup {o}]
    /\ UNCHANGED server

\* add_output_to_layout()
OutputAdded(o) ==
    /\ o \notin lock.outputs
    /\ LET l == [lock EXCEPT !.outputs = @ \cup {o}]
       IN  lock' = IF server.locked THEN AddCovers(l, {o}, TRUE) ELSE l
    /\ UNCHANGED server

\* handle_output_destroy() of the output, and then of its lock output
OutputRemoved(o) ==
    /\ o \in lock.outputs
    /\ \E focused \in Refocus(lock, {lock.surface[o]} \ {None}) :
          /\ lock' = [DropCovers(lock, {o} \cap lock.covers) EXCEPT
                          !.outputs = @ \ {o}, !.focused = focused]
          /\ server' = FocusSurface(server, lock, focused)

\* handle_output_blank_timeout()
BlankTimer(o) ==
    /\ o \in lock.timer
    /\ lock' = [lock EXCEPT !.timer = @ \ {o}, !.blank = @ \cup {o}]
    /\ UNCHANGED server

LockStep ==
    \/ NewLock
    \/ Unlock
    \/ LockDestroyed
    \/ UpdateFreedFocus
    \/ \E surface \in LockSurfaces :
          DestroySurface(surface) \/ \E o \in Outputs : NewSurface(o, surface)
    \/ \E o \in Outputs :
          MapSurface(o) \/ UpdateFocus(o) \/ OutputAdded(o) \/ OutputRemoved(o)
          \/ BlankTimer(o)

\* The rest of the desktop goes on behind the lock.
DesktopBehindLock == Next /\ UNCHANGED lock

LockNext == ~lock.broken /\ (LockStep \/ DesktopBehindLock)

\* The event loop runs its idle callbacks and its timers.
LockFairness ==
    /\ WF_lockVars(~lock.broken /\ UpdateFreedFocus)
    /\ \A o \in Outputs :
          /\ WF_lockVars(~lock.broken /\ UpdateFocus(o))
          /\ WF_lockVars(~lock.broken /\ BlankTimer(o))

LockSpec == LockInit /\ [][LockNext]_lockVars /\ LockFairness

----------------------------------------------------------------------------
(* Properties *)

\* The manager's state is of its C type, and of the three kinds that the
\* comment in session-lock.h lists.
LockTypeOK ==
    /\ lock \in Lock
    /\ server \in Server
    /\ lock.lock => server.locked

(***************************************************************************)
(* "the compositor should blank all outputs" (session_lock_output_create): *)
(* while the session is locked, by a client that is there or by one that   *)
(* is gone, every output has a background that is shown or about to be,    *)
(* also one that was plugged in later; and none is left over after it.     *)
(***************************************************************************)
EveryOutputIsCovered ==
    IF server.locked
    THEN /\ lock.covers = lock.outputs
         /\ lock.covers = lock.blank \cup lock.timer
    ELSE lock.covers = {}

(***************************************************************************)
(* manager->focused and the seat's keyboard focus are kept by two modules: *)
(* while the session is locked they agree, whatever the windows behind the *)
(* lock do, and the focused surface is one that some output shows.         *)
(***************************************************************************)
KeyboardIsWithTheLock ==
    server.locked =>
        /\ server.focused_surface = lock.focused
        /\ lock.focused \in { lock.surface[o] : o \in lock.covers } \cup {None}

(***************************************************************************)
(* refocus_output(): when the surface with the keyboard goes, or the output*)
(* it is on, the keyboard is lost only if no other lock surface is mapped. *)
(***************************************************************************)
KeyboardMovesToAnotherOutput ==
    [][ server.locked /\ server'.locked /\ lock.lock'
        /\ lock.focused # None /\ lock.focused' = None
        => lock.mapped' = {} ]_lockVars

(***************************************************************************)
(* handle_lock_unlock(): "Remember the focused view to restore it on       *)
(* unlock": the view remembered has the keyboard again, if it is mapped and*)
(* nothing else holds it.                                                  *)
(***************************************************************************)
UnlockFocusesRemembered ==
    [][ server.locked /\ ~server'.locked
        /\ server.last_active \in server.mapped
        /\ server.input_mode = "passthrough"
        => server'.focused_surface
              = FocusTarget(server', server.last_active) ]_lockVars

\* A lock surface that is mapped gets the keyboard, or another one has it.
LockGetsKeyboard ==
    (server.locked /\ lock.mapped # {})
        ~> \/ server.focused_surface \in lock.surfaces
           \/ lock.mapped = {} \/ ~server.locked \/ lock.broken

\* No output shows the desktop of a locked session, whether its client lives, died
\* or was replaced; a lock that is there is one the server knows of.
OutputsAreLocked == LockTypeOK /\ EveryOutputIsCovered

\* When the surface with the keyboard goes, with its output or at the unlock, the
\* keyboard is handed on to the surface or window that is to have it next.
FocusIsHandedOn == KeyboardMovesToAnotherOutput /\ UnlockFocusesRemembered
=============================================================================

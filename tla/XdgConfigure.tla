---------------------------- MODULE XdgConfigure ----------------------------
(***************************************************************************)
(* How a window gets its geometry: the configure requests of src/xdg.c,    *)
(* their 100 ms timeout, and the acknowledgements and commits of a client  *)
(* that answers late, not at all, or with another size.                    *)
(*                                                                         *)
(* A wlr_box is one axis of the box, [x, w], and w = 0 is an empty box:    *)
(* the code treats both axes alike.  wlroots' xdg_surface (the list of     *)
(* configures sent, the idle callback that sends the next one) is part of  *)
(* the state, as its serials are what the code compares.  Neither          *)
(* fullscreen nor tiling is modelled, and there is one usable area.        *)
(***************************************************************************)
EXTENDS Integers, Sequences, Null

CONSTANTS
    Xs,          \* positions the user or the placement policy may choose
    Widths,      \* sizes the user may ask for, or the client choose
    MaxWidth,    \* that of a maximized window: the usable area
    Available,   \* the usable area without the margins of the decoration
    Fallback,    \* VIEW_FALLBACK_X
    MaxSerial    \* a bound on the configures scheduled

ASSUME XdgAssumption ==
    /\ Xs \subseteq Int /\ Xs # {} /\ Fallback \in Int
    /\ Widths \subseteq Nat \ {0} /\ MaxWidth \in Nat \ {0} /\ Available \in Nat \ {0}
    /\ None \notin Int
    /\ MaxSerial \in Nat

VARIABLE win

Sizes == Widths \cup {MaxWidth, Available}
Box == [ x : Int, w : Nat ]
Empty == [ x |-> 0, w |-> 0 ]
Right(box) == box.x + box.w

Window ==
    [ obedient : BOOLEAN,           \* the client answers in time, and as it is asked
      alive : BOOLEAN, mapped : BOOLEAN, been_mapped : BOOLEAN, maximized : BOOLEAN,
      current : Box, pending : Box, natural : Box,
      serial      : Nat,            \* view->pending_configure_serial
      timer       : BOOLEAN,        \* view->pending_configure_timeout # NULL
      grab        : Int \cup {None},\* right edge of grab_box: a resize by the left edge
      initialized : BOOLEAN, configured : BOOLEAN,      \* of the xdg_surface
      idle        : BOOLEAN,        \* configure_idle # NULL
      scheduled   : [ serial : Nat, w : Nat ],
      configures  : Seq([ serial : Nat, w : Nat ]),     \* configure_list
      acked       : [ serial : Nat, w : Nat ],          \* pending.configure_serial
      committed   : Nat,            \* current.configure_serial
      geometry    : Nat,            \* the window geometry of the last commit
      extent      : Nat,            \* the size of its surface
      wanted      : Box ]           \* history: what the desktop last decided

XdgInit ==
    \E obedient \in BOOLEAN :
    win = [ obedient |-> obedient,
            alive |-> TRUE, mapped |-> FALSE, been_mapped |-> FALSE, maximized |-> FALSE,
            current |-> Empty, pending |-> Empty, natural |-> Empty,
            serial |-> 0, timer |-> FALSE, grab |-> None,
            initialized |-> FALSE, configured |-> FALSE, idle |-> FALSE,
            scheduled |-> [ serial |-> 0, w |-> 0 ], configures |-> <<>>,
            acked |-> [ serial |-> 0, w |-> 0 ], committed |-> 0,
            geometry |-> 0, extent |-> 0, wanted |-> Empty ]

----------------------------------------------------------------------------
(* Requests *)

\* wlr_xdg_surface_schedule_configure(): what is scheduled before the idle
\* callback runs goes out together, under one serial.
Schedule(s) ==
    IF s.idle THEN s ELSE [s EXCEPT !.idle = TRUE, !.scheduled.serial = @ + 1]

\* set_pending_configure_serial()
SetPendingSerial(s) == [s EXCEPT !.serial = s.scheduled.serial, !.timer = TRUE]

Request(s) == SetPendingSerial(Schedule(s))

\* Mutation: the size is compared with the one shown, not with the one asked for.
ConfigureShown(s, geo) ==
    LET decided == [s EXCEPT !.pending = geo, !.wanted = geo]
    IN  IF geo.w # s.current.w /\ s.initialized /\ geo.w > 0
          THEN Request([decided EXCEPT !.scheduled.w = geo.w])
        ELSE IF s.serial = 0 THEN [decided EXCEPT !.current.x = geo.x]
        ELSE decided

\* xdg_toplevel_view_configure(): a new size is requested from the client, a
\* position alone is taken at once unless a request is outstanding.
Configure(s, geo) ==
    LET decided == [s EXCEPT !.pending = geo, !.wanted = geo]
    IN  IF geo.w # s.pending.w /\ s.initialized /\ geo.w > 0
          THEN Request([decided EXCEPT !.scheduled.w = geo.w])
        ELSE IF s.serial = 0 THEN [decided EXCEPT !.current.x = geo.x]
        ELSE decided

\* set_initial_position(): not for a maximized window; one that is too wide
\* for the usable area is asked to shrink, then the policy places it.
InitialPosition(s) ==
    IF s.maximized THEN {s} ELSE
    LET fits == IF s.pending.w > Available
                  THEN Configure(s, [ x |-> s.pending.x, w |-> Available ])
                  ELSE s
    IN  { LET place == [fits.pending EXCEPT !.x = x]
          IN  [fits EXCEPT !.pending = place, !.wanted = place] : x \in Xs }

\* view_maximize() for both axes; the natural geometry is that of a window
\* that was not maximized, and empty for one that starts maximized.
SetMaximized(s, maximized) ==
    IF s.maximized = maximized THEN s ELSE
    LET kept  == [s EXCEPT !.grab = None, !.natural = IF s.maximized THEN @ ELSE s.pending]
        asked == IF kept.initialized THEN Request(kept) ELSE kept
    IN  Configure([asked EXCEPT !.maximized = maximized],
                  IF maximized THEN [ x |-> 0, w |-> MaxWidth ] ELSE kept.natural)

----------------------------------------------------------------------------
(* Answers *)

\* Mutation: the window is never anchored at its right edge.
ApplyGeometryLeft(s, w) == [s EXCEPT !.current = [ x |-> s.pending.x, w |-> w ]]

\* view_impl_apply_geometry(): the right edge stays while the left one is
\* dragged, or when the two geometries look as if it was.
ApplyGeometry(s, w) ==
    LET anchored == \/ s.grab # None
                    \/ /\ s.current.x # s.pending.x
                       /\ Right(s.current) = Right(s.pending)
    IN  [s EXCEPT !.current =
            [ x |-> IF anchored THEN Right(s.pending) - w ELSE s.pending.x, w |-> w ]]

\* The size a commit says the window has: the extent of its surface when that
\* is what was asked for and the window geometry is not.
CommittedSize(s) ==
    IF s.geometry # s.pending.w /\ s.extent = s.pending.w THEN s.extent ELSE s.geometry

\* Mutation: the geometry is taken over while a request is outstanding.
ResyncEagerly(s) == [s EXCEPT !.pending = s.current, !.scheduled.w = s.current.w]

\* What the client made of its window is what the desktop goes on from, and
\* what the next configure repeats, unless a request is outstanding.
Resync(s) ==
    IF s.serial # 0 THEN s
    ELSE [s EXCEPT !.pending = s.current, !.scheduled.w = s.current.w]

\* handle_commit(), but for the initial one
HandleCommit(s) ==
    LET unplaced == s.pending.w = 0 /\ s.geometry > 0
    IN  { LET size == CommittedSize(p)
              answered == p.serial > 0 /\ p.serial = p.committed
              q == IF answered THEN [p EXCEPT !.serial = 0, !.timer = FALSE] ELSE p
          IN  IF unplaced \/ answered \/ p.current.w # size
                THEN Resync(ApplyGeometry(q, size))
                ELSE p :
          p \in IF unplaced THEN InitialPosition([s EXCEPT !.pending.w = s.geometry])
                ELSE {s} }

\* handle_map(); it may get the focus, which is another request.
HandleMap(s, focused) ==
    LET first == ~s.been_mapped
        placed == IF first /\ s.pending.w = 0
                    THEN InitialPosition([s EXCEPT !.pending.w = s.geometry])
                    ELSE {s}
    IN  { LET moved == IF first THEN [p EXCEPT !.current.x = p.pending.x] ELSE p
              mapped == [moved EXCEPT !.mapped = TRUE, !.been_mapped = TRUE]
          IN  IF focused THEN Request(mapped) ELSE mapped : p \in placed }

\* Mutation: the request of an unmapped window is not given up.
HandleConfigureTimeoutMapped(s) ==
    LET moved == [s EXCEPT !.serial = 0, !.timer = FALSE, !.current.x = s.pending.x]
    IN  IF s.mapped THEN [moved EXCEPT !.pending = moved.current] ELSE s

\* handle_configure_timeout(): the request is given up, and the position that
\* came with it is taken without its size.
HandleConfigureTimeout(s) ==
    LET expired == [s EXCEPT !.serial = 0, !.timer = FALSE]
        x == IF s.pending.w = 0 THEN Fallback ELSE s.pending.x
        moved == [expired EXCEPT !.current.x = x]
    IN  IF s.mapped THEN [moved EXCEPT !.pending = moved.current] ELSE expired

----------------------------------------------------------------------------
(* The compositor's steps *)

Room == win.scheduled.serial < MaxSerial

\* A move or resize by the user, a tool or a change of the output layout,
\* which finds unmapped windows too, once they have a size.
MoveResize(geo) ==
    /\ win.alive /\ ~win.maximized /\ win.grab = None /\ win.pending.w > 0
    /\ Room
    /\ win' = Configure(win, geo)

Maximize(maximized) ==
    /\ win.alive /\ win.initialized
    /\ Room
    /\ win' = SetMaximized(win, maximized)

\* The activated or tiled state is sent: the configure repeats the size.
Restate ==
    /\ win.alive /\ win.initialized
    /\ Room
    /\ win' = Request(win)

\* xdg_deco_request_mode(): wlroots schedules a configure that the view does
\* not wait for.
SetDecorationMode ==
    /\ win.alive /\ win.initialized
    /\ Room
    /\ win' = Schedule(win)

\* interactive_begin() of a resize by the left edge: the window is not maximized
\* and not tiled any more, which the client is told; its geometry stays.
ResizeBegin ==
    /\ win.alive /\ win.mapped /\ win.grab = None
    /\ Room
    /\ win' = Request([win EXCEPT !.grab = Right(win.current), !.maximized = FALSE])

\* process_cursor_resize(): the right edge is that of grab_box.
ResizeMotion(w) ==
    /\ win.alive /\ win.grab # None
    /\ Room
    /\ win' = Configure(win, [ x |-> win.grab - w, w |-> w ])

ResizeEnd ==
    /\ win.alive /\ win.grab # None
    /\ win' = [win EXCEPT !.grab = None]

\* The event loop runs the idle callbacks before it waits, so that the request
\* has been sent when its timer expires.
ConfigureTimeout ==
    /\ win.alive /\ win.timer /\ ~win.obedient
    /\ win.idle => win.serial < win.scheduled.serial
    /\ win' = HandleConfigureTimeout(win)

\* surface_send_configure(), from the idle callback
SendConfigure ==
    /\ win.alive /\ win.idle
    /\ win' = [win EXCEPT !.idle = FALSE, !.configures = Append(@, win.scheduled)]

----------------------------------------------------------------------------
(* The client's steps *)

\* The first commit has no buffer: it asks for a first configure.
InitialCommit(maximized) ==
    /\ win.alive /\ ~win.initialized
    /\ Room
    /\ LET first == Request([win EXCEPT !.initialized = TRUE, !.committed = win.acked.serial])
       IN  win' = IF maximized THEN SetMaximized(first, TRUE) ELSE first

\* xdg_surface_handle_ack_configure(): earlier configures are dropped.
AckConfigure(i) ==
    /\ win.alive /\ i \in DOMAIN win.configures
    /\ win' = [win EXCEPT !.acked = win.configures[i], !.configured = TRUE,
                          !.configures = SubSeq(@, i + 1, Len(@))]

\* What a client may commit: an obedient one that was given no size chooses
\* one for its first buffer and keeps it.
MayCommit(geometry, extent) ==
    /\ geometry <= extent
    /\ geometry \in {extent, win.geometry}
    /\ win.obedient => /\ geometry = extent
                       /\ \/ extent = win.acked.w
                          \/ win.acked.w = 0 /\ win.extent \in {0, extent}

Commit(geometry, extent, focused) ==
    /\ win.alive /\ win.initialized /\ win.configured
    /\ MayCommit(geometry, extent)
    /\ ~win.mapped => Room
    /\ LET s == [win EXCEPT !.committed = win.acked.serial,
                            !.geometry = geometry, !.extent = extent]
       IN  \E m \in IF win.mapped THEN {s} ELSE HandleMap(s, focused) :
               win' \in HandleCommit(m)

\* A commit without a buffer, before the window is mapped: an obedient client
\* does not answer a configure that way.
CommitNothing ==
    /\ win.alive /\ win.initialized /\ ~win.mapped
    /\ win.obedient => win.committed = win.acked.serial
    /\ win' \in HandleCommit([win EXCEPT !.committed = win.acked.serial])

\* A null buffer unmaps the window; the focus goes elsewhere, which is a request
\* that is never sent, as wlroots then resets the xdg_surface.  The window
\* geometry is kept if the client set it, else it is that of an empty surface.
Unmap(explicit) ==
    /\ win.alive /\ win.mapped
    /\ Room
    /\ \E focused \in BOOLEAN :
           LET s == IF focused THEN Request(win) ELSE win
           IN  win' \in HandleCommit(
                   [s EXCEPT !.mapped = FALSE, !.grab = None, !.initialized = FALSE,
                             !.configured = FALSE, !.idle = FALSE, !.configures = <<>>,
                             !.committed = s.acked.serial, !.extent = 0,
                             !.geometry = IF explicit THEN @ ELSE 0])

\* handle_destroy(): the timer goes, the serial stays behind.
Destroy ==
    /\ win.alive
    /\ win' = [win EXCEPT !.alive = FALSE, !.timer = FALSE, !.mapped = FALSE, !.grab = None]

XdgNext ==
    \/ \E x \in Xs, w \in Widths : MoveResize([ x |-> x, w |-> w ])
    \/ \E b \in BOOLEAN : Maximize(b) \/ InitialCommit(b) \/ Unmap(b)
    \/ Restate \/ SetDecorationMode
    \/ ResizeBegin \/ ResizeEnd \/ \E w \in Widths : ResizeMotion(w)
    \/ SendConfigure \/ ConfigureTimeout
    \/ \E i \in 1..MaxSerial : AckConfigure(i)
    \/ \E g, e \in Sizes, focused \in BOOLEAN : Commit(g, e, focused)
    \/ CommitNothing \/ Destroy

\* The event loop calls the timers that expire and the idle callbacks.
XdgFairness == WF_win(ConfigureTimeout) /\ WF_win(SendConfigure)

XdgSpec == XdgInit /\ [][XdgNext]_win /\ XdgFairness

----------------------------------------------------------------------------
(* Properties *)

\* The timer is armed exactly while a request is outstanding, as handle_commit()
\* and handle_configure_timeout() assert; only an initialized xdg_surface, as
\* wlroots asserts, has configures under way.
XdgTypeOK ==
    /\ win \in Window
    /\ win.alive => (win.timer <=> win.serial # 0)
    /\ win.serial <= win.scheduled.serial /\ win.acked.serial <= win.scheduled.serial
    /\ win.idle \/ win.configures # <<>> => win.initialized

\* What the desktop takes the geometry of a window to be, and computes the next
\* one from, is what is shown when no request is outstanding (include/view.h:219:
\* "Should match current geometry when no move/resize requests are pending"), if
\* the client answers in time and as it is asked.
IdleIsInSync ==
    (win.obedient /\ win.alive /\ win.mapped /\ win.serial = 0 /\ win.pending.w > 0)
        => win.current = win.pending

\* Nothing is under way between the compositor and the client.
Settled ==
    /\ win.alive /\ win.mapped /\ win.serial = 0 /\ ~win.idle /\ win.configures = <<>>
    /\ win.committed = win.acked.serial /\ win.acked.serial = win.scheduled.serial

\* However moves, resizes, other requests and answers to earlier ones overlap, the
\* window of an obedient client ends up at the geometry decided last.
SettledAsWanted ==
    win.obedient /\ Settled /\ win.wanted.w > 0 => win.current = win.wanted

AtGrab(s) == Right(s.pending) = s.grab /\ Right(s.current) = s.grab

\* While the left edge is dragged, the right edge stays where it was grabbed, of the
\* window that is shown and of the one asked for, whichever request the client answers
\* (view_impl_apply_geometry()); if the two agreed when the grab began.
RightEdgeStays ==
    [][ win.grab # None /\ win'.grab = win.grab /\ AtGrab(win) => AtGrab(win') ]_win

ClientCommits == \E g, e \in Sizes, focused \in BOOLEAN : Commit(g, e, focused)

\* A commit that leaves a request outstanding, as it answers an earlier one or
\* none, leaves the geometry that was requested (handle_commit()'s "when no other
\* configure is pending").
LateAnswerKeepsRequest ==
    [][ (ClientCommits /\ win.pending.w > 0 /\ win'.serial # 0)
          => win'.pending = win.pending ]_win

\* No request of a living window stays outstanding, however its client answers or
\* does not: handle_commit() or handle_configure_timeout() ends it.
RequestsEnd ==
    (win.alive /\ ~win.obedient /\ win.serial # 0) ~> (~win.alive \/ win.serial = 0)

\* The compositor's idea of the geometry and the client's come together: no timer
\* outlives its request, nothing differs once none is outstanding, and in the end
\* the window is as the last request wanted it.
ViewsAgree == XdgTypeOK /\ IdleIsInSync /\ SettledAsWanted
=============================================================================

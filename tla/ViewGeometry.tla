---------------------------- MODULE ViewGeometry ----------------------------
(***************************************************************************)
(* The geometry of one window (src/view.c): floating, maximized along one  *)
(* or both axes, tiled to an edge or to a region, fullscreen, on outputs   *)
(* that come, go and are relocated; dragged and resized with the pointer   *)
(* (src/interactive.c, src/input/cursor.c), and by actions and its client. *)
(*                                                                         *)
(* Outputs stand side by side, each in a slot of the layout.  A geometry is*)
(* a slot and a size along each axis; where in the slot a window is, its   *)
(* decorations, gaps, and what is computed from pixels are left out, so    *)
(* that a floating window is on its output wherever the placement policy,  *)
(* which is not "cursor", puts it.  The client is an obedient xdg toplevel *)
(* (XdgConfigure has the others): it takes the size it is asked for, and   *)
(* chooses one when asked for 0x0.                                         *)
(***************************************************************************)
EXTENDS Integers, FiniteSets

CONSTANTS
    Outputs,
    None,
    Widths, Heights,    \* of floating windows
    SnapEdges,          \* the edges that actions and the pointer snap to
    Layouts             \* where the outputs may be, see Layout

Axes == {"h", "v"}
Edges == {"left", "right", "top", "bottom"}

\* Sizes that a window gets for its state, "0" being empty.
Special == {"0", "max", "full", "lo", "hi", "reg"}

ASSUME GeometryAssumption ==
    /\ IsFiniteSet(Outputs) /\ Outputs # {}
    /\ None \notin Outputs
    /\ Widths # {} /\ Heights # {}
    /\ (Widths \cup Heights) \cap Special = {}
    /\ SnapEdges \subseteq (SUBSET Edges) \cup {{"center"}}
    /\ {} \notin SnapEdges

Slots == 1 .. Cardinality(Outputs)

\* The slot of each output, or 0 if it is not plugged in.
Layout ==
    { at \in [Outputs -> Slots \cup {0}] :
        \A o, p \in Outputs : at[o] = at[p] /\ at[o] # 0 => o = p }

ASSUME LayoutAssumption == Layouts \subseteq Layout

Sizes == [ h : Widths \cup Special, v : Heights \cup Special ]

Box(slot, size) == [ slot |-> slot, h |-> size.h, v |-> size.v ]

Boxes == { Box(slot, size) : slot \in Slots, size \in Sizes }

VARIABLES
    server,     \* the outputs and the view
    home,       \* history: the size the view last had of its own
    kept        \* history: outputs and view before the layout changed

geometryVars == <<server, home, kept>>

Server ==
    [ at         : Layout,
      regions    : BOOLEAN,             \* rc.regions: whether there is the one
      input_mode : {"passthrough", "move", "resize"},   \* the view is grabbed
      axes       : SUBSET Axes,         \* the axes of resize_edges
      output     : Outputs \cup {None},
      fullscreen : BOOLEAN,
      maximized  : SUBSET Axes,
      tiled      : SUBSET (Edges \cup {"center"}),
      region     : Outputs \cup {None}, \* tiled_region: the output whose it is
      evacuate   : BOOLEAN,             \* tiled_region_evacuate # NULL
      pending    : Boxes,
      current    : Boxes,
      awaiting   : BOOLEAN,             \* pending_configure_serial # 0
      natural    : Sizes,               \* natural_geometry
      last       : [ output : Outputs \cup {None}, geo : Boxes ],
      adjusting  : BOOLEAN ]            \* adjusting_for_layout_change

----------------------------------------------------------------------------
(* Outputs *)

In(at) == { o \in Outputs : at[o] # 0 }

Plugged(s) == In(s.at)

\* output_is_usable()
Usable(s, o) == o \in Plugged(s)

\* output_nearest_to(); of two at the same distance one is as good
Nearest(s, slot) ==
    LET Far(o) == IF s.at[o] > slot THEN s.at[o] - slot ELSE slot - s.at[o]
    IN  CHOOSE o \in Plugged(s) : \A p \in Plugged(s) : Far(o) <= Far(p)

\* output_get_adjacent() without wrapping
Adjacent(s, edge) ==
    LET ahead == { o \in Plugged(s) :
                     CASE edge = {"left"}  -> s.at[o] < s.at[s.output]
                       [] edge = {"right"} -> s.at[o] > s.at[s.output]
                       [] OTHER            -> FALSE }
    IN  IF ahead = {} THEN None
        ELSE CHOOSE o \in ahead : \A p \in ahead :
                 IF edge = {"left"} THEN s.at[p] <= s.at[o] ELSE s.at[o] <= s.at[p]

----------------------------------------------------------------------------
(* The state of the view *)

Empty(g) == g.h = "0" \/ g.v = "0"

\* view_is_tiled()
Tiled(s) == s.tiled # {} \/ s.region # None \/ s.evacuate

\* view_is_floating()
Floating(s) == ~s.fullscreen /\ s.maximized = {} /\ ~Tiled(s)

\* view_set_output()
SetOutput(s, o) == IF Usable(s, o) THEN [s EXCEPT !.output = o] ELSE s

\* view_set_maximized(), which asks the client
SetMaximized(s, axes) ==
    IF s.maximized = axes THEN s
    ELSE [s EXCEPT !.maximized = axes, !.awaiting = TRUE]

\* Mutation: the client is not told.
SetUntiledSilently(s) == [s EXCEPT !.tiled = {}, !.region = None, !.evacuate = FALSE]

\* view_set_untiled(), which tells the client
SetUntiled(s) ==
    [s EXCEPT !.tiled = {}, !.region = None, !.evacuate = FALSE, !.awaiting = TRUE]

\* view_discover_output()
DiscoverOutput(s, slot) ==
    IF Plugged(s) = {} THEN s ELSE [s EXCEPT !.output = Nearest(s, slot)]

\* view_moved()
Moved(s) == IF Floating(s) THEN DiscoverOutput(s, s.current.slot) ELSE s

\* center_fullscreen_if_needed()
CenterFullscreen(s) ==
    IF s.fullscreen /\ Usable(s, s.output)
    THEN [s EXCEPT !.current.slot = s.at[s.output], !.pending.slot = s.at[s.output]]
    ELSE s

\* view_save_last_placement()
SaveLastPlacement(s) ==
    IF Usable(s, s.output)
    THEN [s EXCEPT !.last = [output |-> s.output, geo |-> s.pending]] ELSE s

\* xdg_toplevel_view_configure(): a new size waits for the client, and a new
\* position with it; a size of 0x0 is not sent.
Configure(s, g) ==
    LET resized == g.h # s.pending.h \/ g.v # s.pending.v
        t == [s EXCEPT !.pending = g, !.awaiting = @ \/ (resized /\ ~Empty(g))]
    IN  IF t.awaiting THEN t
        ELSE Moved(CenterFullscreen([t EXCEPT !.current.slot = g.slot]))

\* Mutation: a layout change is taken for a move of the user.
MoveResizeForgets(s, g) == SaveLastPlacement(Configure(s, g))

\* view_move_resize()
MoveResize(s, g) ==
    IF s.adjusting THEN Configure(s, g) ELSE SaveLastPlacement(Configure(s, g))

\* view_move()
Move(s, slot) == MoveResize(s, [s.pending EXCEPT !.slot = slot])

----------------------------------------------------------------------------
(* Natural geometry *)

\* Mutation: a natural geometry that is known is kept.
StoreNaturalOnce(s) ==
    IF s.fullscreen \/ Tiled(s) \/ ~Empty(s.natural) THEN s
    ELSE [s EXCEPT !.natural =
            [ h |-> IF "h" \in s.maximized THEN @.h ELSE s.pending.h,
              v |-> IF "v" \in s.maximized THEN @.v ELSE s.pending.v ]]

\* view_store_natural_geometry()
StoreNatural(s) ==
    IF s.fullscreen \/ Tiled(s) THEN s
    ELSE [s EXCEPT !.natural =
            [ h |-> IF "h" \in s.maximized THEN @.h ELSE s.pending.h,
              v |-> IF "v" \in s.maximized THEN @.v ELSE s.pending.v ]]

\* adjust_floating_geometry(): what is not on the view's output is put there.
AdjustFloating(s, g) ==
    IF Usable(s, s.output) THEN [g EXCEPT !.slot = s.at[s.output]] ELSE g

\* view_get_fallback_natural_geometry()
Fallback ==
    [h |-> CHOOSE w \in Widths : TRUE, v |-> CHOOSE w \in Heights : TRUE]

\* view_apply_natural_geometry(), on the view's output if it has one
ApplyNatural(s) ==
    MoveResize(s, IF Empty(s.natural) THEN Box(1, s.natural)
                  ELSE AdjustFloating(s, Box(s.pending.slot, s.natural)))

----------------------------------------------------------------------------
(* The geometries of the other states *)

\* view_get_edge_snap_box()
EdgeBox(slot, tiled) ==
    [ slot |-> slot,
      h |-> IF "left" \in tiled THEN "lo" ELSE IF "right" \in tiled THEN "hi" ELSE "max",
      v |-> IF "top" \in tiled THEN "lo" ELSE IF "bottom" \in tiled THEN "hi" ELSE "max" ]

\* view_apply_maximized_geometry(): an axis that is not maximized is natural,
\* which puts a window of unknown width at the origin of the layout.
MaximizedBox(slot, s) ==
    [ slot |-> IF "h" \notin s.maximized /\ Empty(s.natural) THEN 1 ELSE slot,
      h |-> IF "h" \in s.maximized THEN "max" ELSE s.natural.h,
      v |-> IF "v" \in s.maximized THEN "max" ELSE s.natural.v ]

RegionBox(s) == [ slot |-> s.at[s.region], h |-> "reg", v |-> "reg" ]
FullscreenBox(slot) == [ slot |-> slot, h |-> "full", v |-> "full" ]

\* view_apply_region_geometry(), on a usable output: an evacuated window is
\* tiled to the region of the same name there, if there is one.
ApplyRegion(s) ==
    IF s.evacuate /\ ~s.regions THEN ApplyNatural(SetUntiled(s))
    ELSE LET t == IF s.evacuate THEN [s EXCEPT !.region = s.output, !.evacuate = FALSE]
                  ELSE s
         IN  MoveResize(t, RegionBox(t))

\* view_apply_special_geometry()
ApplySpecial(s) ==
    IF ~Usable(s, s.output) THEN s
    ELSE LET slot == s.at[s.output]
         IN  IF s.fullscreen THEN MoveResize(s, FullscreenBox(slot))
             ELSE IF s.maximized # {} THEN MoveResize(s, MaximizedBox(slot, s))
             ELSE IF s.tiled # {} THEN MoveResize(s, EdgeBox(slot, s.tiled))
             ELSE ApplyRegion(s)

Apply(s) == IF Floating(s) THEN ApplyNatural(s) ELSE ApplySpecial(s)

----------------------------------------------------------------------------
(* Changing the state *)

\* interactive_cancel(), after which resize_edges does not matter
Cancel(s) == [s EXCEPT !.input_mode = "passthrough", !.axes = {}]

\* view_maximize(): a drag has stored the natural geometry when it began.
Maximize(s, axes) ==
    IF s.maximized = axes \/ s.fullscreen THEN s
    ELSE LET stored == IF s.input_mode = "move" THEN s ELSE StoreNatural(s)
             t == Cancel(stored)
             u == IF Cardinality(axes) = 1 /\ Empty(t.natural)
                  THEN [t EXCEPT !.natural = Fallback] ELSE t
         IN  Apply(SetMaximized(u, axes))

\* Mutation: leaving fullscreen, the window is only floating or maximized.
SetFullscreenForgetsTile(s, fullscreen) ==
    IF s.fullscreen = fullscreen \/ (fullscreen /\ ~Usable(s, s.output)) THEN s
    ELSE LET t == IF fullscreen THEN StoreNatural(Cancel(s)) ELSE s
             u == [t EXCEPT !.fullscreen = fullscreen, !.awaiting = TRUE]
         IN  IF u.fullscreen \/ u.maximized # {} THEN ApplySpecial(u)
             ELSE ApplyNatural(u)

\* view_set_fullscreen()
SetFullscreen(s, fullscreen) ==
    IF s.fullscreen = fullscreen \/ (fullscreen /\ ~Usable(s, s.output)) THEN s
    ELSE LET t == IF fullscreen THEN StoreNatural(Cancel(s)) ELSE s
         IN  Apply([t EXCEPT !.fullscreen = fullscreen, !.awaiting = TRUE])

\* What snapping does with the natural geometry; an unmaximized window
\* keeps the one it has.
StoreForSnap(s) ==
    IF s.maximized # {} THEN Maximize(s, {})
    ELSE IF s.input_mode = "move" THEN s
    ELSE StoreNatural(s)

Opposite(edge) ==
    CASE edge = {"left"} -> {"right"}  [] edge = {"right"}  -> {"left"}
      [] edge = {"top"}  -> {"bottom"} [] edge = {"bottom"} -> {"top"}

Cardinal(edge) == Cardinality(edge) = 1 /\ edge # {"center"}

\* The edge that view_snap_to_edge() combines with the present ones.
Combined(tiled, edge) ==
    LET across == tiled \ (edge \cup Opposite(edge))
    IN  IF Opposite(edge) \subseteq tiled /\ across # {} THEN across
        ELSE IF tiled \cap (edge \cup Opposite(edge)) = {} THEN tiled \cup edge
        ELSE edge

\* view_snap_to_edge(), where the window changes outputs if it is tiled to the
\* edge already
SnapTo(s, output, edge) ==
    IF s.fullscreen \/ ~Usable(s, s.output) \/ ~Usable(s, output) THEN s
    ELSE LET t == SetOutput(SetUntiled(StoreForSnap(s)), output)
         IN  MoveResize([t EXCEPT !.tiled = edge],
                        EdgeBox(t.at[output], edge))

SnapToEdge(s, edge, across, combine) ==
    LET split == Cardinal(edge) /\ s.maximized = {} /\ s.tiled # {"center"}
    IN  IF ~Usable(s, s.output) THEN s
        ELSE IF split /\ across /\ s.tiled = edge
        THEN SnapTo(s, Adjacent(s, edge), Opposite(edge))
        ELSE SnapTo(s, s.output,
                    IF split /\ combine THEN Combined(s.tiled, edge) ELSE edge)

\* view_snap_to_region(), the region being that of some output
SnapToRegion(s, output) ==
    IF s.fullscreen \/ ~Usable(s, s.output) THEN s
    ELSE ApplyRegion([SetUntiled(StoreForSnap(s)) EXCEPT !.region = output])

\* Back to the natural geometry, where a tile is left.
Untile(s) ==
    IF Tiled(s) THEN LET t == SetUntiled(s) IN MoveResize(t, Box(t.pending.slot, t.natural)) ELSE s

\* view_place_by_policy()
PlaceByPolicy(s) ==
    LET t == Untile(Maximize(SetFullscreen(s, FALSE), {}))
    IN  IF Usable(t, t.output) /\ ~Empty(t.pending) THEN Move(t, t.at[t.output]) ELSE t

\* view_move_relative()
MoveRelative(s, slot) ==
    IF s.fullscreen THEN s ELSE Move(Untile(Maximize(s, {})), slot)

\* view_resize_relative()
ResizeRelative(s, g) ==
    IF s.fullscreen \/ s.maximized # {} THEN s ELSE SetUntiled(MoveResize(s, g))

\* view_grow_to_edge() and view_shrink_to_edge()
GrowOrShrink(s, g) ==
    IF s.fullscreen \/ s.maximized # {} \/ ~Usable(s, s.output) THEN s
    ELSE MoveResize(s, g)

\* view_move_to_edge() for a window that is at that edge of its output already;
\* one that is not stays on it
MoveToEdge(s, edge) ==
    IF ~Usable(s, s.output) \/ s.maximized # {} \/ Adjacent(s, edge) = None THEN s
    ELSE LET t == SetOutput(SetUntiled(s), Adjacent(s, edge))
         IN  Move(t, t.at[t.output])

\* view_move_to_output()
MoveToOutput(s, output) ==
    LET t == SetOutput(s, output)
    IN  IF Floating(t)
        THEN PlaceByPolicy([t EXCEPT !.pending.slot = t.at[output]])
        ELSE IF t.fullscreen \/ t.maximized # {} \/ t.tiled # {} THEN ApplySpecial(t)
        ELSE IF t.region # None THEN SnapToRegion(t, output)
        ELSE t

\* UnSnap
UnSnap(s) ==
    IF s.fullscreen \/ Floating(s) THEN s
    ELSE ApplyNatural(SetUntiled(Maximize(s, {})))

----------------------------------------------------------------------------
(* The pointer *)

\* interactive_begin()
BeginMove(s) ==
    IF s.fullscreen THEN s ELSE [StoreNatural(s) EXCEPT !.input_mode = "move"]

BeginResize(s, axes) ==
    IF s.fullscreen THEN s
    ELSE [SetUntiled(SetMaximized(s, s.maximized \ axes))
             EXCEPT !.input_mode = "resize", !.axes = axes]

\* process_cursor_move(), beyond the threshold if the window is not floating
Drag(s, slot) ==
    IF Floating(s) THEN Move(s, slot)
    ELSE LET t == SetUntiled(SetMaximized(s, {}))
         IN  MoveResize(t, Box(slot, t.natural))

\* resistance_unsnap_apply() below the threshold: only what is maximized along
\* the vertical axis moves between the slots.
DragResisted(s, slot) ==
    IF Floating(s) THEN s
    ELSE Move(s, IF s.maximized = {"v"} THEN slot ELSE s.current.slot)

\* process_cursor_resize()
DragEdge(s, g) ==
    MoveResize(s, [ slot |-> s.current.slot,
                    h |-> IF "h" \in s.axes THEN g.h ELSE s.current.h,
                    v |-> IF "v" \in s.axes THEN g.v ELSE s.current.v ])

\* snap_to_edge(): the edge of the output at the cursor, the top one maximizes
DropOnEdge(s, output, edge) ==
    IF ~Floating(s) THEN s
    ELSE LET t == SetOutput(s, output)
         IN  IF edge = {"top"} THEN Maximize(t, Axes)
             ELSE SnapToEdge(t, edge, FALSE, FALSE)

\* snap_to_region(): the region at the cursor, on whatever output
DropOnRegion(s, output) ==
    IF Floating(s) /\ s.regions THEN SnapToRegion(s, output) ELSE s

----------------------------------------------------------------------------
(* Changes of the layout *)

\* Mutation: of the windows on the output only.
EvacuateOwnRegion(s, output) ==
    IF s.region = output /\ s.output = output
    THEN [s EXCEPT !.region = None, !.evacuate = TRUE] ELSE s

\* regions_evacuate_output(), which keeps the name of the region
EvacuateRegion(s, output) ==
    IF s.region = output THEN [s EXCEPT !.region = None, !.evacuate = TRUE] ELSE s

\* view_adjust_for_layout_change(), for a view that has a size: back to the
\* output of its last placement, or else to the nearest one.
AdjustForLayoutChange(s) ==
    IF Empty(s.pending) \/ Empty(s.last.geo) THEN s
    ELSE LET t == [s EXCEPT !.adjusting = TRUE]
             u == IF Usable(t, t.last.output) THEN [t EXCEPT !.output = t.last.output]
                  ELSE DiscoverOutput(t, t.last.geo.slot)
             w == IF Floating(u) THEN MoveResize(u, AdjustFloating(u, u.last.geo))
                  ELSE ApplySpecial(u)
         IN  [w EXCEPT !.adjusting = FALSE]

\* handle_output_destroy(), and disabling an output, which stays the view's;
\* the layout may move the others
Removed(s, output, at, destroyed) ==
    LET t == EvacuateRegion(s, output)
    IN  AdjustForLayoutChange(
            [t EXCEPT !.at = at,
                      !.output = IF destroyed /\ @ = output THEN None ELSE @])

\* regions_reconfigure()
ReconfigureRegions(s, regions) ==
    AdjustForLayoutChange(
        [ (IF s.region = None THEN s ELSE EvacuateRegion(s, s.region))
              EXCEPT !.regions = regions ])

----------------------------------------------------------------------------
(* The client *)

\* set_initial_position() for what the client chose, on the view's output
\* or, in a drag, in the slot of the cursor
SetInitialPosition(s, slot) ==
    IF ~Floating(s) THEN s
    ELSE SaveLastPlacement(
            IF s.input_mode = "move" THEN [s EXCEPT !.pending.slot = slot]
            ELSE [s EXCEPT !.pending = AdjustFloating(s, @)])

\* handle_commit() by a client that has answered what it was asked
Committed(s) ==
    LET t == Moved(CenterFullscreen([s EXCEPT !.current = s.pending, !.awaiting = FALSE]))
    IN  [t EXCEPT !.pending = t.current]

Commit(s, w, h, slot) ==
    IF Empty(s.pending)
    THEN Committed(SetInitialPosition([s EXCEPT !.pending.h = w, !.pending.v = h], slot))
    ELSE Committed(s)

\* handle_commit() by a client that resizes itself
Resized(s, w, h) ==
    Committed([s EXCEPT !.pending = [slot |-> s.current.slot, h |-> w, v |-> h]])

----------------------------------------------------------------------------
(* Histories *)

\* An axis along which the window has a size of its own.
Free(s, axis) == ~s.fullscreen /\ ~Tiled(s) /\ axis \notin s.maximized

\* Whatever happens in a drag, it began with the size to come back to.
Home(s, size) ==
    IF s.input_mode = "move" THEN size
    ELSE [ h |-> IF Free(s, "h") THEN s.pending.h ELSE size.h,
           v |-> IF Free(s, "v") THEN s.pending.v ELSE size.v ]

\* The geometry of a window that is not floating.
SpecialBox(s) ==
    LET slot == s.at[s.output]
    IN  IF s.fullscreen THEN FullscreenBox(slot)
        ELSE IF s.maximized # {} THEN MaximizedBox(slot, s)
        ELSE IF s.tiled # {} THEN EdgeBox(slot, s.tiled)
        ELSE RegionBox(s)

\* A window that is where its last placement has it, on a usable output and
\* not tiled to a region, with the geometry of its state.
Settled(s) ==
    /\ Usable(s, s.output) /\ s.region = None /\ ~s.evacuate
    /\ ~Empty(s.pending) /\ s.pending.slot = s.at[s.output]
    /\ s.last = [output |-> s.output, geo |-> s.pending]
    /\ Floating(s) \/ s.pending = SpecialBox(s)

Kept(s) == [ settled |-> Settled(s), at |-> s.at, output |-> s.output, geo |-> s.pending ]

----------------------------------------------------------------------------
(* Steps *)

\* The geometry of windows, not the layout of outputs, is changed.
Does(s) ==
    /\ server' = s
    /\ server' # server
    /\ home' = Home(server', home)
    /\ kept' = Kept(server')

LaysOut(s) ==
    /\ server' = s
    /\ home' = Home(server', home)
    /\ UNCHANGED kept

Occupied == { server.at[o] : o \in Plugged(server) }

Maximizes == \E axes \in SUBSET Axes : Does(Maximize(server, axes))
Fullscreens == \E b \in BOOLEAN : Does(SetFullscreen(server, b))

\* set_fullscreen_from_request(), with an output of the client's choice
RequestFullscreen ==
    \E o \in Outputs :
        /\ ~server.fullscreen
        /\ Does(SetFullscreen(SetOutput(server, o), TRUE))

\* SnapToEdge and ToggleSnapToEdge
SnapsToEdge ==
    \E edge \in SnapEdges :
        \/ \E combine \in BOOLEAN : Does(SnapToEdge(server, edge, TRUE, combine))
        \/ /\ server.maximized = {} /\ ~server.fullscreen
           /\ server.tiled = edge
           /\ Does(ApplyNatural(SetUntiled(server)))

\* SnapToRegion and ToggleSnapToRegion, a region of the view's output
SnapsToRegion ==
    /\ server.regions /\ Usable(server, server.output)
    /\ \/ Does(SnapToRegion(server, server.output))
       \/ /\ server.maximized = {} /\ ~server.fullscreen
          /\ server.region = server.output
          /\ Does(ApplyNatural(SetUntiled(server)))

UnSnaps == Does(UnSnap(server))
Places == Does(PlaceByPolicy(server))

\* MoveTo and MoveRelative
Moves ==
    \E slot \in Slots : Does(Move(server, slot)) \/ Does(MoveRelative(server, slot))

\* ResizeTo, GrowToEdge and ShrinkToEdge
Resizes ==
    \E w \in Widths, h \in Heights :
        LET g == [slot |-> server.pending.slot, h |-> w, v |-> h]
        IN  Does(MoveResize(server, g)) \/ Does(GrowOrShrink(server, g))

ResizesRelative ==
    \E w \in Widths, h \in Heights, slot \in Slots :
        Does(ResizeRelative(server, [slot |-> slot, h |-> w, v |-> h]))

MovesToEdge == \E edge \in SnapEdges : Does(MoveToEdge(server, edge))
MovesToOutput == \E o \in Plugged(server) : Does(MoveToOutput(server, o))

BeginsMove == server.input_mode = "passthrough" /\ Does(BeginMove(server))

BeginsResize ==
    /\ server.input_mode = "passthrough"
    /\ \E axes \in (SUBSET Axes) \ {{}} : Does(BeginResize(server, axes))

\* process_cursor_motion()
Motion ==
    \/ /\ server.input_mode = "move"
       /\ \E slot \in Occupied :
             Does(Drag(server, slot)) \/ Does(DragResisted(server, slot))
    \/ /\ server.input_mode = "resize"
       /\ \E w \in Widths, h \in Heights :
             Does(DragEdge(server, [slot |-> 1, h |-> w, v |-> h]))

\* interactive_finish()
Finish ==
    /\ server.input_mode # "passthrough"
    /\ \/ Does(Cancel(server))
       \/ /\ server.input_mode = "move"
          /\ \E o \in Plugged(server) :
                \/ Does(Cancel(DropOnRegion(server, o)))
                \/ \E edge \in SnapEdges : Does(Cancel(DropOnEdge(server, o, edge)))

\* The client answers, or resizes itself when nothing was asked.
Commits ==
    /\ server.awaiting \/ Empty(server.pending)
    /\ \E w \in Widths, h \in Heights, slot \in Occupied \cup {1} :
           LET s == Commit(server, w, h, slot)
           IN  IF Empty(server.pending) THEN Does(s) ELSE LaysOut(s)

ResizesItself ==
    /\ ~server.awaiting /\ Floating(server)
    /\ \E w \in Widths, h \in Heights : Does(Resized(server, w, h))

\* An output comes, at a free place; regions are created on it.
Plug ==
    \E o \in Outputs \ Plugged(server), at \in Layouts :
        /\ o \in In(at) /\ at = [server.at EXCEPT ![o] = at[o]]
        /\ LaysOut(AdjustForLayoutChange([server EXCEPT !.at = at]))

\* An output goes; the others may move up.
Unplug ==
    \E o \in Plugged(server), destroyed \in BOOLEAN, at \in Layouts :
        /\ In(at) = Plugged(server) \ {o}
        /\ LaysOut(Removed(server, o, at, destroyed))

\* The outputs are arranged anew, or only their usable areas change.
Relocate ==
    \E at \in Layouts :
        /\ In(at) = Plugged(server)
        /\ LaysOut(AdjustForLayoutChange([server EXCEPT !.at = at]))

\* The configuration is reloaded, with or without the region.
ReloadRegions ==
    \E regions \in BOOLEAN : LaysOut(ReconfigureRegions(server, regions))

LayoutStep == Plug \/ Unplug \/ Relocate \/ ReloadRegions

\* The state of the window changes, or where it is.
StateStep ==
    \/ Maximizes \/ Fullscreens \/ RequestFullscreen
    \/ SnapsToEdge \/ SnapsToRegion \/ UnSnaps
    \/ Places \/ MovesToEdge \/ MovesToOutput
    \/ BeginsMove \/ BeginsResize

UserStep == StateStep \/ Moves \/ Resizes \/ ResizesRelative \/ Motion \/ Finish

ClientStep == Commits \/ ResizesItself

GeometryNext == LayoutStep \/ UserStep \/ ClientStep

\* A window at its initial commit
Fresh(at, output, regions) ==
    LET none == [h |-> "0", v |-> "0"]
    IN  [ at |-> at, regions |-> regions, input_mode |-> "passthrough", axes |-> {},
          output |-> output, fullscreen |-> FALSE, maximized |-> {}, tiled |-> {},
          region |-> None, evacuate |-> FALSE, pending |-> Box(1, none), current |-> Box(1, none),
          awaiting |-> TRUE, natural |-> none,
          last |-> [output |-> None, geo |-> Box(1, none)], adjusting |-> FALSE ]

\* It starts floating, maximized or fullscreen, and maps.
GeometryInit ==
    /\ \E at \in Layouts, output \in Outputs, regions \in BOOLEAN,
          w \in Widths, h \in Heights :
         LET s == Fresh(at, output, regions)
         IN  /\ In(at) = Outputs
             /\ server \in { Commit(s, w, h, 1),
                             Committed(Maximize(s, Axes)),
                             Committed(SetFullscreen(s, TRUE)) }
    /\ home = Home(server, server.natural)
    /\ kept = Kept(server)

GeometrySpec == GeometryInit /\ [][GeometryNext]_geometryVars

----------------------------------------------------------------------------
(* Properties *)

\* No two outputs are in one place, axes are resized in a resize only, and the
\* flag of a layout change, under which moves are not remembered, does not
\* outlast it.
GeometryTypeOK ==
    /\ server \in Server
    /\ server.axes # {} => server.input_mode = "resize"
    /\ ~server.adjusting

\* Regions are destroyed with their output and when the configuration is read
\* anew.  A window is tiled to a region that exists, on an output that is in
\* use, whatever output the window itself is on, and it does not wait for a
\* region while it has one, nor has one while it is tiled to an edge.
RegionsExist ==
    /\ server.region # None => server.regions /\ Usable(server, server.region)
    /\ server.region # None => ~server.evacuate /\ server.tiled = {}

\* As long as there is an output, the window is on one that is in use: outputs
\* that go take no window with them.  (Not so a window that was about to
\* choose its size when its output went: desktop_arrange_all_views() leaves
\* it out.)
OnAnOutput ==
    /\ Plugged(server) # {}
    /\ ~Empty(server.pending) /\ ~Empty(server.last.geo)
    => Usable(server, server.output)

\* Leaving a tiled or maximized state, a window of unknown natural geometry is
\* given the size 0x0, which is never sent.  So long as it has that size, the
\* client has something else to answer, upon which it chooses one: no window
\* is left without a size.
SizeIsAsked ==
    Empty(server.pending) /\ server.maximized = {}
    => server.awaiting /\ Floating(server)

State(s) ==
    <<s.fullscreen, s.maximized, s.tiled, s.region, s.evacuate, s.output, s.at>>

\* Whatever changes the state of the window, its output or where that is, a
\* window that is then not floating gets the geometry of its state: fullscreen
\* before maximized before tiled to an edge before tiled to a region, on its
\* own output except for a region, which may be another one's.
SpecialIsShown ==
    [][ /\ State(server') # State(server) /\ server'.input_mode # "resize"
        /\ ~Floating(server') /\ Usable(server', server'.output)
        /\ ~Empty(server.last.geo)
        => server'.pending = SpecialBox(server') ]_geometryVars

\* However long a window has been maximized, tiled, fullscreen, dragged about
\* and moved between outputs in between, along an axis that becomes free it
\* gets the size it last had of its own there.  (Resizing with the pointer or
\* by an action and MoveToEdge leave the tile with the size it had.)
NaturalComesBack ==
    [][ \A axis \in Axes :
          /\ Free(server', axis) /\ ~Free(server, axis)
          /\ home[axis] # "0"
          /\ ~(ResizesRelative \/ MovesToEdge \/ BeginsResize)
          => server'.pending[axis] = home[axis] ]_geometryVars

\* Once the outputs are again where they were, after they have gone, come and
\* been rearranged any number of times while the user and the client did
\* nothing but answer, the window is on the output and has the geometry it
\* had.  (Not so a window that has resized itself, or one in a region.)
OutputsComeBack ==
    kept.settled /\ server.at = kept.at
    => server.pending = kept.geo /\ server.output = kept.output

\* Outputs and regions go under a window in any order, and it stays on ones that
\* exist.
PlacedOnOutputs == GeometryTypeOK /\ RegionsExist /\ OnAnOutput
=============================================================================

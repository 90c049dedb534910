--------------------------- MODULE GeometryProofs ---------------------------
(***************************************************************************)
(* Proofs about the geometry of a window (ViewGeometry), for any number of *)
(* outputs, layouts, sizes and edges.                                      *)
(*                                                                         *)
(* Every operation of view.c is a composition of a few that change a part  *)
(* of the state and end in view_move_resize().  Good(s) is what holds of   *)
(* the view between operations, Base(s) what holds within them as well, and*)
(* Kin(s, t) what an operation that goes from s to t may not do; Kin is    *)
(* transitive, so that each operation is proved from its parts.  The       *)
(* invariant GInv follows for all of them.  SinceSettled(s, k) adds what is*)
(* known of a window since it was last settled on an output, and MInv what *)
(* is known if the user waits for the client, as MCViewGeometry has it.    *)
(*                                                                         *)
(* That a fullscreen or tiled window has the geometry of its state rests   *)
(* on Outcome(s, t): an operation leaves geometry and state alone, gives   *)
(* the window the geometry of the state it leaves it in (Lands), or leaves *)
(* it with neither of these states (Bare).  SInv adds to MInv what is known*)
(* of such windows when an operation starts.                               *)
(***************************************************************************)
EXTENDS MCViewGeometry, FiniteSetTheorems, WellFoundedInduction, TLAPS

----------------------------------------------------------------------------
(* Boxes and outputs *)

\* There is a slot, and slots are numbers.
LEMMA SlotsAre == Cardinality(Outputs) \in Nat /\ 1 \in Slots /\ Slots \subseteq Nat \ {0}
<1>1. Cardinality(Outputs) \in Nat /\ Cardinality(Outputs) # 0
  BY GeometryAssumption, FS_CardinalityType, FS_EmptySet
<1> QED BY <1>1 DEF Slots

\* A box has a slot and a size by axis, and no other part.
LEMMA BoxesAre ==
  Boxes = [ slot : Slots, h : Widths \cup Special, v : Heights \cup Special ]
<1>1. ASSUME NEW g \in Boxes
      PROVE g \in [ slot : Slots, h : Widths \cup Special, v : Heights \cup Special ]
  BY DEF Boxes, Box, Sizes
<1>2. ASSUME NEW g \in [ slot : Slots, h : Widths \cup Special, v : Heights \cup Special ]
      PROVE g \in Boxes
  <2> DEFINE size == [h |-> g.h, v |-> g.v]
  <2>1. size \in Sizes BY DEF Sizes
  <2>2. g = Box(g.slot, size) BY DEF Box
  <2> QED BY <2>1, <2>2 DEF Boxes
<1> QED BY <1>1, <1>2

\* The sizes of windows are none of those that states give, nor empty.
LEMMA SizesDiffer ==
  /\ \A w \in Widths \cup Heights : w # "0"
  /\ Widths # {} /\ Heights # {}
  /\ "0" \in Special
BY GeometryAssumption DEF Special

\* Where an output is
LEMMA LayoutIs ==
  ASSUME NEW at \in Layout
  PROVE /\ at \in [Outputs -> Slots \cup {0}]
        /\ \A o \in Outputs, p \in Outputs : at[o] = at[p] /\ at[o] # 0 => o = p
BY DEF Layout

LEMMA UsableIs ==
  ASSUME NEW s \in Server, NEW o, Usable(s, o)
  PROVE o \in Outputs /\ o # None /\ s.at[o] \in Slots /\ s.at[o] # 0
<1>1. s.at \in Layout BY DEF Server
<1> QED BY <1>1, LayoutIs, GeometryAssumption, SlotsAre DEF Usable, Plugged, In

\* Usable outputs depend on the layout only.
LEMMA UsableSame ==
  ASSUME NEW s, NEW t, t.at = s.at
  PROVE \A o : Usable(t, o) <=> Usable(s, o)
BY DEF Usable, Plugged

\* Of finitely many outputs one is nearest.
LEMMA OneIsNearest ==
  ASSUME NEW T \in SUBSET Outputs, T # {}, NEW far \in [Outputs -> Nat]
  PROVE \E o \in T : \A p \in T : far[o] <= far[p]
<1> DEFINE Nearer(o) == { p \in T : far[p] < far[o] }
           Q == { Nearer(o) : o \in T }
<1>1. Q \subseteq FiniteSubsetsOf(Outputs)
  <2>1. FiniteSubsetsOf(Outputs) = SUBSET Outputs
    BY GeometryAssumption, FS_FiniteSubsetsOfFinite
  <2>2. \A o \in T : Nearer(o) \in SUBSET Outputs OBVIOUS
  <2> HIDE DEF Nearer
  <2> QED BY <2>1, <2>2
<1>2. Q # {} OBVIOUS
<1>3. IsWellFoundedOn(StrictSubsetOrdering(Outputs), FiniteSubsetsOf(Outputs))
  BY FS_StrictSubsetOrderingWellFounded
<1>4. \E X \in Q : \A Y \in Q : <<Y, X>> \notin StrictSubsetOrdering(Outputs)
  <2> HIDE DEF Q
  <2> QED BY <1>1, <1>2, <1>3, WFMin
<1>5. PICK o \in T : \A p \in T :
        <<Nearer(p), Nearer(o)>> \notin StrictSubsetOrdering(Outputs)
  BY <1>4
<1>6. ASSUME NEW p \in T, far[p] < far[o] PROVE FALSE
  <2>1. Nearer(p) \subseteq Nearer(o) BY <1>6
  <2>2. p \in Nearer(o) /\ p \notin Nearer(p) BY <1>6
  <2>3. Nearer(p) \subseteq Outputs /\ Nearer(o) \subseteq Outputs OBVIOUS
  <2>4. <<Nearer(p), Nearer(o)>> \in StrictSubsetOrdering(Outputs)
    <3> HIDE DEF Nearer
    <3> QED BY <2>1, <2>2, <2>3 DEF StrictSubsetOrdering
  <2> QED BY <1>5, <2>4
<1> QED BY <1>6

\* The nearest output is plugged in, and it is the one that is there, if one is.
LEMMA NearestIs ==
  ASSUME NEW s \in Server, NEW slot \in Slots, Plugged(s) # {}
  PROVE /\ Usable(s, Nearest(s, slot))
        /\ \A o \in Plugged(s) : s.at[o] = slot => Nearest(s, slot) = o
<1> DEFINE Far(o) == IF s.at[o] > slot THEN s.at[o] - slot ELSE slot - s.at[o]
           n == Nearest(s, slot)
<1>1. s.at \in Layout BY DEF Server
<1>2. Plugged(s) \subseteq Outputs BY DEF Plugged, In
<1>3. \A o \in Outputs : s.at[o] \in Nat BY <1>1, LayoutIs, SlotsAre
<1>4. slot \in Nat \ {0} BY SlotsAre
<1>5. \A o \in Plugged(s) : Far(o) \in Nat BY <1>2, <1>3, <1>4
<1>6. \A o \in Outputs : Far(o) \in Nat BY <1>3, <1>4
<1>7. [o \in Outputs |-> Far(o)] \in [Outputs -> Nat] BY <1>6
<1>8. \E o \in Plugged(s) : \A p \in Plugged(s) : Far(o) <= Far(p)
  <2> DEFINE far == [o \in Outputs |-> Far(o)]
  <2>1. \E o \in Plugged(s) : \A p \in Plugged(s) : far[o] <= far[p]
    <3> HIDE DEF far
    <3> QED BY <1>2, <1>7, OneIsNearest DEF far
  <2> QED BY <1>2, <2>1
<1>9. n \in Plugged(s) /\ \A p \in Plugged(s) : Far(n) <= Far(p)
  BY <1>8 DEF Nearest
<1>10. ASSUME NEW o \in Plugged(s), s.at[o] = slot PROVE n = o
  <2>1. Far(o) = 0 BY <1>4, <1>10
  <2>2. Far(n) = 0 BY <1>5, <1>9, <2>1
  <2>3. s.at[n] = slot BY <1>2, <1>3, <1>4, <1>9, <2>2
  <2> QED BY <1>1, <1>2, <1>4, <1>9, <1>10, <2>3, LayoutIs
<1> QED BY <1>9, <1>10 DEF Usable

----------------------------------------------------------------------------
(* Moving and resizing *)

\* The state of the view apart from its geometry and its output, with the outputs
SameState(s, t) ==
    /\ t.at = s.at /\ t.regions = s.regions /\ t.adjusting = s.adjusting
    /\ t.input_mode = s.input_mode /\ t.axes = s.axes
    /\ t.fullscreen = s.fullscreen /\ t.maximized = s.maximized
    /\ t.tiled = s.tiled /\ t.region = s.region /\ t.evacuate = s.evacuate
    /\ t.natural = s.natural

\* Only its output may be another one, which is then in use.
OnOutput(s, t) ==
    /\ t \in Server /\ SameState(s, t)
    /\ t.awaiting = s.awaiting /\ t.last = s.last
    /\ t.output = s.output \/ Usable(t, t.output)

\* view_discover_output() finds the output at the slot.
LEMMA DiscoverIs ==
  ASSUME NEW s \in Server, NEW slot \in Slots
  PROVE LET t == DiscoverOutput(s, slot)
        IN  /\ OnOutput(s, t)
            /\ t.pending = s.pending /\ t.current = s.current
            /\ \A o \in Plugged(s) : s.at[o] = slot => t.output = o
<1> DEFINE n == Nearest(s, slot)
           t == [s EXCEPT !.output = n]
<1>1. CASE Plugged(s) = {}
  BY <1>1 DEF DiscoverOutput, OnOutput, SameState
<1>2. CASE Plugged(s) # {}
  <2>1. Usable(s, n) /\ \A o \in Plugged(s) : s.at[o] = slot => n = o BY <1>2, NearestIs
  <2>2. n \in Outputs BY <2>1, UsableIs
  <2> HIDE DEF n
  <2>3. t \in Server /\ SameState(s, t) /\ t.awaiting = s.awaiting /\ t.last = s.last
        /\ t.pending = s.pending /\ t.current = s.current /\ t.output = n
    BY <2>2 DEF Server, SameState
  <2>4. Usable(t, t.output) BY <2>1, <2>3 DEF Usable, Plugged, SameState
  <2>5. DiscoverOutput(s, slot) = t BY <1>2 DEF DiscoverOutput, n
  <2> HIDE DEF t
  <2> QED BY <2>1, <2>3, <2>4, <2>5 DEF OnOutput
<1> QED BY <1>1, <1>2

\* center_fullscreen_if_needed() changes the slot only.
LEMMA CenterIs ==
  ASSUME NEW s \in Server
  PROVE LET t == CenterFullscreen(s)
        IN  /\ OnOutput(s, t) /\ t.output = s.output
            /\ t.pending.h = s.pending.h /\ t.pending.v = s.pending.v
            /\ t.current.h = s.current.h /\ t.current.v = s.current.v
            /\ ~s.fullscreen => t = s
            /\ Usable(s, s.output) /\ s.pending.slot = s.at[s.output] => t.pending = s.pending
            /\ Usable(s, s.output) /\ s.current.slot = s.at[s.output] => t.current = s.current
<1> DEFINE slot == s.at[s.output]
           t == [s EXCEPT !.current.slot = slot, !.pending.slot = slot]
<1>1. CASE s.fullscreen /\ Usable(s, s.output)
  <2>1. slot \in Slots BY <1>1, UsableIs
  <2> HIDE DEF slot
  <2> DEFINE c == [s.current EXCEPT !.slot = slot]
             p == [s.pending EXCEPT !.slot = slot]
  <2>2. s.current \in Boxes /\ s.pending \in Boxes BY DEF Server
  <2>3. /\ c \in Boxes /\ c.h = s.current.h /\ c.v = s.current.v
        /\ s.current.slot = slot => c = s.current
    BY <2>1, <2>2, BoxesAre
  <2>4. /\ p \in Boxes /\ p.h = s.pending.h /\ p.v = s.pending.v
        /\ s.pending.slot = slot => p = s.pending
    BY <2>1, <2>2, BoxesAre
  <2>5. t = [s EXCEPT !.current = c, !.pending = p] BY DEF Server
  <2> HIDE DEF c, p
  <2>6. t \in Server /\ SameState(s, t) /\ t.awaiting = s.awaiting /\ t.last = s.last
        /\ t.output = s.output /\ t.pending = p /\ t.current = c
    BY <2>3, <2>4, <2>5 DEF Server, SameState
  <2>7. CenterFullscreen(s) = t BY <1>1 DEF CenterFullscreen, slot
  <2> HIDE DEF t
  <2> QED BY <1>1, <2>3, <2>4, <2>6, <2>7 DEF OnOutput, slot
<1>2. CASE ~(s.fullscreen /\ Usable(s, s.output))
  <2>1. CenterFullscreen(s) = s BY <1>2 DEF CenterFullscreen
  <2> QED BY <2>1 DEF OnOutput, SameState
<1> QED BY <1>1, <1>2

\* view_moved()
LEMMA MovedIs ==
  ASSUME NEW s \in Server
  PROVE LET t == Moved(s)
        IN  /\ OnOutput(s, t)
            /\ t.pending = s.pending /\ t.current = s.current
            /\ Usable(s, s.output) /\ s.current.slot = s.at[s.output] => t.output = s.output
            /\ Floating(s) /\ Plugged(s) # {} => Usable(t, t.output)
            /\ ~Floating(s) => t = s
<1>1. s.current.slot \in Slots BY BoxesAre DEF Server
<1> DEFINE d == DiscoverOutput(s, s.current.slot)
<1>2. /\ OnOutput(s, d) /\ d.pending = s.pending /\ d.current = s.current
      /\ \A o \in Plugged(s) : s.at[o] = s.current.slot => d.output = o
  BY <1>1, DiscoverIs
<1>3. Plugged(s) # {} => Usable(d, d.output)
  <2>1. SUFFICES ASSUME Plugged(s) # {} PROVE Usable(d, d.output) OBVIOUS
  <2>2. Usable(s, Nearest(s, s.current.slot)) BY <1>1, <2>1, NearestIs
  <2>3. d = [s EXCEPT !.output = Nearest(s, s.current.slot)] BY <2>1 DEF DiscoverOutput
  <2>4. d.output = Nearest(s, s.current.slot) /\ d.at = s.at BY <2>3 DEF Server
  <2> QED BY <2>2, <2>4 DEF Usable, Plugged
<1> HIDE DEF d
<1>4. (Moved(s) = d /\ Floating(s)) \/ (Moved(s) = s /\ ~Floating(s)) BY DEF Moved, d
<1>5. OnOutput(s, s) BY DEF OnOutput, SameState
<1>6. Usable(s, s.output) => s.output \in Plugged(s) BY DEF Usable
<1> QED BY <1>2, <1>3, <1>4, <1>5, <1>6

\* view_save_last_placement()
LEMMA SaveIs ==
  ASSUME NEW s \in Server
  PROVE LET t == SaveLastPlacement(s)
        IN  /\ t \in Server /\ SameState(s, t)
            /\ t.awaiting = s.awaiting /\ t.output = s.output
            /\ t.pending = s.pending /\ t.current = s.current
            /\ t.last = s.last \/ Usable(t, t.output)
            /\ Usable(s, s.output) => t.last = [output |-> s.output, geo |-> s.pending]
<1> DEFINE l == [output |-> s.output, geo |-> s.pending]
           t == [s EXCEPT !.last = l]
<1>1. CASE Usable(s, s.output)
  <2>1. l \in [ output : Outputs \cup {None}, geo : Boxes ] BY DEF Server
  <2> HIDE DEF l
  <2>2. /\ t \in Server /\ SameState(s, t)
        /\ t.awaiting = s.awaiting /\ t.output = s.output
        /\ t.pending = s.pending /\ t.current = s.current /\ t.last = l
    BY <2>1 DEF Server, SameState
  <2>3. SaveLastPlacement(s) = t BY <1>1 DEF SaveLastPlacement, l
  <2> HIDE DEF t
  <2>4. Usable(t, t.output) BY <1>1, <2>2 DEF Usable, Plugged, SameState
  <2> QED BY <2>2, <2>3, <2>4 DEF l
<1>2. CASE ~Usable(s, s.output)
  <2>1. SaveLastPlacement(s) = s BY <1>2 DEF SaveLastPlacement
  <2> QED BY <1>2, <2>1 DEF SameState
<1> QED BY <1>1, <1>2

\* What a move and resize to a box does: the size is decided at once, the place too
\* unless the window is fullscreen, and neither moves the window off its output, or
\* to another one if it is not floating.
Shaped(s, g, t) ==
    /\ t \in Server /\ SameState(s, t)
    /\ t.pending.h = g.h /\ t.pending.v = g.v
    /\ ~s.fullscreen => t.pending = g
    /\ t.current.h = s.current.h /\ t.current.v = s.current.v
    /\ s.awaiting => t.awaiting
    /\ t.output = s.output \/ Usable(t, t.output)
    /\ ~Floating(s) => t.output = s.output
    /\ Usable(s, s.output) /\ g.slot = s.at[s.output] =>
         t.output = s.output /\ t.pending = g

\* xdg_toplevel_view_configure()
LEMMA ConfigureIs ==
  ASSUME NEW s \in Server, NEW g \in Boxes
  PROVE Shaped(s, g, Configure(s, g)) /\ Configure(s, g).last = s.last
<1> DEFINE asks == s.awaiting \/ ((g.h # s.pending.h \/ g.v # s.pending.v) /\ ~Empty(g))
           t == [s EXCEPT !.pending = g, !.awaiting = asks]
           u == [t EXCEPT !.current.slot = g.slot]
           c == CenterFullscreen(u)
           m == Moved(c)
<1>1. asks \in BOOLEAN /\ (s.awaiting => asks) BY DEF Server
<1>2. Configure(s, g) = IF t.awaiting THEN t ELSE m BY DEF Configure, Server
<1> HIDE DEF asks
<1>3. /\ t \in Server /\ SameState(s, t) /\ t.pending = g /\ t.current = s.current
      /\ t.output = s.output /\ t.last = s.last
  BY <1>1 DEF Server, SameState
<1>4. s.awaiting => t.awaiting BY <1>1 DEF Server
<1> HIDE DEF t
<1> DEFINE k == [t.current EXCEPT !.slot = g.slot]
<1>5. k \in Boxes /\ k.h = t.current.h /\ k.v = t.current.v /\ k.slot = g.slot
  BY <1>3, BoxesAre DEF Server
<1>6. u = [t EXCEPT !.current = k] BY <1>3 DEF Server
<1> HIDE DEF k
<1>7. /\ u \in Server /\ SameState(t, u) /\ u.pending = g /\ u.current = k
      /\ u.output = t.output /\ u.last = t.last
  BY <1>3, <1>5, <1>6 DEF Server, SameState
<1>8. u.awaiting = t.awaiting BY <1>3, <1>6 DEF Server
<1> HIDE DEF u
<1>9. /\ OnOutput(u, c) /\ c.output = u.output
      /\ c.pending.h = u.pending.h /\ c.pending.v = u.pending.v
      /\ c.current.h = u.current.h /\ c.current.v = u.current.v
      /\ ~u.fullscreen => c = u
      /\ Usable(u, u.output) /\ u.pending.slot = u.at[u.output] => c.pending = u.pending
      /\ Usable(u, u.output) /\ u.current.slot = u.at[u.output] => c.current = u.current
  BY <1>7, CenterIs
<1> HIDE DEF c
<1>10. /\ OnOutput(c, m) /\ m.pending = c.pending /\ m.current = c.current
       /\ Usable(c, c.output) /\ c.current.slot = c.at[c.output] => m.output = c.output
       /\ ~Floating(c) => m = c
  BY <1>9, MovedIs DEF OnOutput
<1> HIDE DEF m
<1>11. Usable(s, s.output) => Usable(u, u.output) /\ Usable(c, c.output)
  BY <1>3, <1>7, <1>9 DEF Usable, Plugged, SameState, OnOutput
<1>12. Shaped(s, g, t) /\ t.last = s.last BY <1>3, <1>4 DEF Shaped
<1>13. Shaped(s, g, m) /\ m.last = s.last
  <2>1. m \in Server /\ SameState(s, m) /\ m.last = s.last
    BY <1>3, <1>7, <1>9, <1>10 DEF OnOutput, SameState
  <2>2. m.pending.h = g.h /\ m.pending.v = g.v
        /\ m.current.h = s.current.h /\ m.current.v = s.current.v
    BY <1>3, <1>5, <1>7, <1>9, <1>10
  <2>3. ~s.fullscreen => m.pending = g BY <1>3, <1>7, <1>9, <1>10 DEF SameState
  <2>4. s.awaiting => m.awaiting BY <1>4, <1>8, <1>9, <1>10 DEF OnOutput
  <2>5. m.output = s.output \/ Usable(m, m.output)
    BY <1>3, <1>7, <1>9, <1>10 DEF OnOutput
  <2>6. ASSUME Usable(s, s.output), g.slot = s.at[s.output]
        PROVE m.output = s.output /\ m.pending = g
    <3>1. u.at[u.output] = s.at[s.output] /\ u.current.slot = g.slot
      BY <1>3, <1>5, <1>7 DEF SameState
    <3>2. c.pending = g /\ c.current = u.current /\ c.output = s.output
      BY <1>3, <1>7, <1>9, <1>11, <2>6, <3>1
    <3>3. c.at[c.output] = c.current.slot
      BY <1>7, <1>9, <2>6, <3>1, <3>2 DEF OnOutput, SameState
    <3> QED BY <1>10, <1>11, <2>6, <3>2, <3>3
  <2>7. ~Floating(s) => m.output = s.output
    <3>1. Floating(c) <=> Floating(s)
      BY <1>3, <1>7, <1>9 DEF OnOutput, SameState, Floating, Tiled
    <3> QED BY <1>3, <1>7, <1>9, <1>10, <3>1
  <2> QED BY <2>1, <2>2, <2>3, <2>4, <2>5, <2>6, <2>7 DEF Shaped
<1> QED BY <1>2, <1>12, <1>13

\* view_move_resize() remembers the placement, but in a layout change.
LEMMA MoveResizeIs ==
  ASSUME NEW s \in Server, NEW g \in Boxes
  PROVE LET t == MoveResize(s, g)
        IN  /\ Shaped(s, g, t)
            /\ t.last = s.last \/ Usable(t, t.output)
            /\ s.adjusting => t.last = s.last
            /\ t.last = s.last \/ t.last.geo = t.pending
            /\ ~s.adjusting /\ Usable(s, s.output) => t.last.geo = t.pending
<1> DEFINE c == Configure(s, g)
           t == SaveLastPlacement(c)
<1>1. Shaped(s, g, c) /\ c.last = s.last BY ConfigureIs
<1> HIDE DEF c
<1>2. /\ t \in Server /\ SameState(c, t)
      /\ t.awaiting = c.awaiting /\ t.output = c.output
      /\ t.pending = c.pending /\ t.current = c.current
      /\ t.last = c.last \/ Usable(t, t.output)
      /\ Usable(c, c.output) => t.last = [output |-> c.output, geo |-> c.pending]
  BY <1>1, SaveIs DEF Shaped
<1> HIDE DEF t
<1>3. MoveResize(s, g) = IF s.adjusting THEN c ELSE t BY DEF MoveResize, c, t
<1>4. Shaped(s, g, t)
  BY <1>1, <1>2 DEF Shaped, SameState, Usable, Plugged
<1>5. /\ \A o : Usable(t, o) <=> Usable(c, o)
      /\ \A o : Usable(c, o) <=> Usable(s, o)
  BY <1>1, <1>2, UsableSame DEF Shaped, SameState
<1>6. /\ t.last = c.last \/ t.last.geo = t.pending
      /\ Usable(c, c.output) => t.last.geo = t.pending
  BY <1>2, <1>5
<1>7. Usable(s, s.output) => Usable(c, c.output) BY <1>1, <1>5 DEF Shaped
<1> QED BY <1>1, <1>2, <1>3, <1>4, <1>6, <1>7

----------------------------------------------------------------------------
(* The inductive invariant *)

RegionsAre(s) ==
    /\ s.region # None => s.regions /\ Usable(s, s.region)
    /\ s.region # None => ~s.evacuate /\ s.tiled = {}

\* Only what is not fullscreen is dragged; axes are resized in a resize.
ModesAre(s) ==
    /\ s.input_mode # "passthrough" => ~s.fullscreen
    /\ s.axes # {} => s.input_mode = "resize"

\* A tile under one maximized axis has a size to go back to along the other.
NaturalIs(s) == Tiled(s) /\ Cardinality(s.maximized) = 1 => ~Empty(s.natural)

\* The client is about to choose the size, unless there is a maximized axis.
PendingIs(s) ==
    Empty(s.pending) =>
      ~s.fullscreen /\ ~Tiled(s) /\ (s.maximized = {} => s.awaiting)

\* What every part of an operation keeps, and what holds after the whole of it.
Base(s) == s \in Server /\ RegionsAre(s) /\ ModesAre(s)
Good(s) == Base(s) /\ NaturalIs(s) /\ PendingIs(s)

\* What an operation on the view does not change, and how it keeps the view
\* on outputs: a placement is remembered on one in use only, and not while the
\* layout changes.
Kin(s, t) ==
    /\ t.at = s.at /\ t.regions = s.regions /\ t.adjusting = s.adjusting
    /\ Usable(s, s.output) => Usable(t, t.output)
    /\ t.last = s.last \/ (Usable(t, t.output) /\ ~t.adjusting)
    /\ ~Empty(s.current) => ~Empty(t.current)

Leads(s, t) == Good(t) /\ Kin(s, t)

SameAxes(s, t) == t.fullscreen = s.fullscreen /\ t.maximized = s.maximized

LEMMA KinIsTransitive ==
  ASSUME NEW s, NEW t, NEW u, Kin(s, t), Kin(t, u)
  PROVE Kin(s, u)
BY DEF Kin

\* The output and the tile, with what is remembered of the placement
SameTile(s, t) ==
    /\ t.at = s.at /\ t.output = s.output /\ t.last = s.last
    /\ t.tiled = s.tiled /\ t.region = s.region /\ t.evacuate = s.evacuate

\* What is remembered of a placement is the geometry.
Remembers(s, t) == t.last = s.last \/ t.last.geo = t.pending

\* The state of the view is as it was, and so is the size of a fullscreen one.
Still(s, t) ==
    /\ State(t) = State(s) /\ Remembers(s, t)
    /\ s.fullscreen => t.pending.h = s.pending.h /\ t.pending.v = s.pending.v

\* A window that waits for a region and has no other state
Lost(s) == s.evacuate /\ ~s.fullscreen /\ s.maximized = {} /\ s.tiled = {}

\* The view has the geometry of its state.
Fits(t) == Usable(t, t.output) /\ t.pending = SpecialBox(t) /\ ~Lost(t)

\* It is floating, or has the geometry of its state, and that is remembered.
Lands(t) ==
    \/ Floating(t)
    \/ Fits(t) /\ (t.adjusting \/ t.last.geo = t.pending)

\* The state decides whether the view is floating, and which outputs there are.
LEMMA SameStateIs ==
  ASSUME NEW s, NEW t, SameState(s, t)
  PROVE /\ Floating(t) <=> Floating(s)
        /\ Plugged(t) = Plugged(s)
        /\ NaturalIs(t) <=> NaturalIs(s)
        /\ \A o : Usable(t, o) <=> Usable(s, o)
BY DEF SameState, Floating, Tiled, Plugged, NaturalIs, Usable

\* What is given the geometry of its state has it.
LEMMA MoveResizeFits ==
  ASSUME NEW s \in Server, NEW g \in Boxes, Usable(s, s.output), ~Floating(s), ~Lost(s),
         g = SpecialBox(s), s.fullscreen => g.slot = s.at[s.output]
  PROVE Lands(MoveResize(s, g))
<1> DEFINE t == MoveResize(s, g)
<1>1. /\ Shaped(s, g, t)
      /\ ~s.adjusting /\ Usable(s, s.output) => t.last.geo = t.pending
  BY MoveResizeIs
<1> HIDE DEF t
<1>2. SameState(s, t) /\ t.output = s.output /\ t.pending = g BY <1>1 DEF Shaped
<1>3. Usable(t, t.output) BY <1>2, SameStateIs
<1>4. SpecialBox(t) = SpecialBox(s)
  BY <1>2 DEF SpecialBox, MaximizedBox, RegionBox, SameState
<1>5. ~Lost(t) BY <1>2 DEF Lost, SameState
<1>6. t.adjusting = s.adjusting /\ s.adjusting \in BOOLEAN
  BY <1>2 DEF SameState, Server
<1> QED BY <1>1, <1>2, <1>3, <1>4, <1>5, <1>6 DEF Lands, Fits, t

\* What is moved or resized keeps its state, unless it is floating.
LEMMA MoveResizeStill ==
  ASSUME NEW s \in Server, NEW g \in Boxes,
         s.fullscreen => g.h = s.pending.h /\ g.v = s.pending.v
  PROVE LET t == MoveResize(s, g)
        IN  (Floating(s) /\ Floating(t)) \/ Still(s, t)
<1> DEFINE t == MoveResize(s, g)
<1>1. Shaped(s, g, t) /\ Remembers(s, t) BY MoveResizeIs DEF Remembers
<1> HIDE DEF t
<1>2. SameState(s, t) /\ t.pending.h = g.h /\ t.pending.v = g.v BY <1>1 DEF Shaped
<1>3. CASE Floating(s) BY <1>2, <1>3, SameStateIs DEF t
<1>4. CASE ~Floating(s)
  <2>1. t.output = s.output BY <1>1, <1>4 DEF Shaped
  <2> QED BY <1>1, <1>2, <2>1 DEF Still, State, SameState, t
<1> QED BY <1>3, <1>4

\* A move and resize is an operation, if what it makes empty may be.
LEMMA MoveResizeGood ==
  ASSUME NEW s, Base(s), NaturalIs(s), NEW g \in Boxes,
         Empty(g) => ~s.fullscreen /\ ~Tiled(s) /\ (s.maximized = {} => s.awaiting)
  PROVE LET t == MoveResize(s, g)
        IN  /\ Leads(s, t) /\ SameState(s, t)
            /\ t.pending.h = g.h /\ t.pending.v = g.v
            /\ s.awaiting => t.awaiting
<1> DEFINE t == MoveResize(s, g)
<1>1. s \in Server BY DEF Base
<1>2. /\ Shaped(s, g, t) /\ (t.last = s.last \/ Usable(t, t.output))
      /\ s.adjusting => t.last = s.last
  BY <1>1, MoveResizeIs
<1> HIDE DEF t
<1>3. SameState(s, t) /\ t \in Server BY <1>2 DEF Shaped
<1>4. t.pending.h = g.h /\ t.pending.v = g.v /\ (s.awaiting => t.awaiting)
  BY <1>2 DEF Shaped
<1>5. \A o : Usable(t, o) <=> Usable(s, o) BY <1>3, UsableSame DEF SameState
<1>6. Base(t)
  <2>1. RegionsAre(t) BY <1>3, <1>5 DEF Base, RegionsAre, SameState
  <2>2. ModesAre(t) BY <1>3 DEF Base, ModesAre, SameState
  <2> QED BY <1>3, <2>1, <2>2 DEF Base
<1>7. NaturalIs(t) BY <1>3 DEF NaturalIs, SameState, Tiled
<1>8. PendingIs(t) BY <1>3, <1>4 DEF PendingIs, SameState, Tiled, Empty
<1>9. Kin(s, t)
  <2>1. ~Empty(s.current) => ~Empty(t.current) BY <1>2 DEF Empty, Shaped
  <2>2. t.last = s.last \/ (Usable(t, t.output) /\ ~t.adjusting)
    BY <1>2, <1>3 DEF SameState
  <2> QED BY <1>2, <1>3, <1>5, <2>1, <2>2 DEF Kin, SameState, Shaped
<1> QED BY <1>3, <1>4, <1>6, <1>7, <1>8, <1>9 DEF Leads, Good, t

\* view_move()
LEMMA MoveGood ==
  ASSUME NEW s, Good(s), NEW slot \in Slots
  PROVE LET t == Move(s, slot)
        IN  /\ Leads(s, t) /\ SameState(s, t)
            /\ t.pending.h = s.pending.h /\ t.pending.v = s.pending.v
            /\ (Floating(s) /\ Floating(t)) \/ Still(s, t)
<1> DEFINE g == [s.pending EXCEPT !.slot = slot]
<1>1. s.pending \in Boxes /\ s \in Server BY DEF Good, Base, Server
<1>2. g \in Boxes /\ g.h = s.pending.h /\ g.v = s.pending.v BY <1>1, BoxesAre
<1>3. Move(s, slot) = MoveResize(s, g) BY DEF Move
<1> HIDE DEF g
<1>4. Empty(g) => ~s.fullscreen /\ ~Tiled(s) /\ (s.maximized = {} => s.awaiting)
  BY <1>2 DEF Good, PendingIs, Empty
<1>5. LET t == MoveResize(s, g) IN (Floating(s) /\ Floating(t)) \/ Still(s, t)
  BY <1>1, <1>2, MoveResizeStill
<1> QED BY <1>2, <1>3, <1>4, <1>5, MoveResizeGood DEF Good

----------------------------------------------------------------------------
(* Changing a part of the state *)

\* view_set_untiled()
LEMMA SetUntiledIs ==
  ASSUME NEW s, Base(s), Empty(s.pending) => ~s.fullscreen
  PROVE LET t == SetUntiled(s)
        IN  /\ Leads(s, t) /\ SameAxes(s, t) /\ ~Tiled(t) /\ t.awaiting
            /\ t.region = None /\ ~t.evacuate /\ t.tiled = {}
            /\ t.pending = s.pending /\ t.natural = s.natural
            /\ t.output = s.output /\ t.input_mode = s.input_mode /\ t.last = s.last
<1> DEFINE t == SetUntiled(s)
<1>1. s \in Server BY DEF Base
<1>2. /\ t \in Server /\ t.tiled = {} /\ t.region = None /\ t.evacuate = FALSE
      /\ t.at = s.at /\ t.regions = s.regions /\ t.adjusting = s.adjusting
      /\ t.input_mode = s.input_mode /\ t.axes = s.axes
      /\ t.output = s.output /\ t.last = s.last /\ t.natural = s.natural
      /\ t.fullscreen = s.fullscreen /\ t.maximized = s.maximized
      /\ t.pending = s.pending /\ t.current = s.current
  BY <1>1 DEF SetUntiled, Server
<1>3. t.awaiting BY <1>1 DEF SetUntiled, Server
<1> HIDE DEF t
<1>4. ~Tiled(t) BY <1>2 DEF Tiled
<1>5. Base(t) BY <1>2 DEF Base, RegionsAre, ModesAre
<1>6. NaturalIs(t) /\ PendingIs(t) BY <1>2, <1>3, <1>4 DEF NaturalIs, PendingIs
<1>7. Kin(s, t) BY <1>2 DEF Kin, Usable, Plugged
<1> QED BY <1>2, <1>3, <1>4, <1>5, <1>6, <1>7 DEF Leads, Good, SameAxes, t

\* view_set_maximized() asks the client, if there is something to ask.
LEMMA SetMaximizedIs ==
  ASSUME NEW s, Base(s), NEW axes \in SUBSET Axes
  PROVE LET t == SetMaximized(s, axes)
        IN  /\ Base(t) /\ Kin(s, t) /\ t.fullscreen = s.fullscreen /\ t.maximized = axes
            /\ axes # s.maximized => t.awaiting
            /\ s.awaiting => t.awaiting
            /\ Tiled(t) = Tiled(s) /\ SameTile(s, t)
            /\ t.pending = s.pending /\ t.natural = s.natural
            /\ t.input_mode = s.input_mode
<1> DEFINE t == [s EXCEPT !.maximized = axes, !.awaiting = TRUE]
<1>1. s \in Server BY DEF Base
<1>2. Kin(s, s) BY DEF Kin
<1>3. CASE s.maximized = axes
  <2>1. SetMaximized(s, axes) = s BY <1>3 DEF SetMaximized
  <2> QED BY <1>2, <1>3, <2>1 DEF SameTile
<1>4. CASE s.maximized # axes
  <2>1. /\ t \in Server /\ t.maximized = axes
        /\ t.tiled = s.tiled /\ t.region = s.region /\ t.evacuate = s.evacuate
        /\ t.at = s.at /\ t.regions = s.regions /\ t.adjusting = s.adjusting
        /\ t.input_mode = s.input_mode /\ t.axes = s.axes
        /\ t.output = s.output /\ t.last = s.last /\ t.natural = s.natural
        /\ t.fullscreen = s.fullscreen
        /\ t.pending = s.pending /\ t.current = s.current
    BY <1>1 DEF Server
  <2>2. t.awaiting BY <1>1 DEF Server
  <2>3. SetMaximized(s, axes) = t BY <1>4 DEF SetMaximized
  <2> HIDE DEF t
  <2>4. Base(t) BY <2>1 DEF Base, RegionsAre, ModesAre, Usable, Plugged
  <2>5. Kin(s, t) BY <2>1 DEF Kin, Usable, Plugged
  <2>6. Tiled(t) = Tiled(s) /\ SameTile(s, t) BY <2>1 DEF Tiled, SameTile
  <2> QED BY <2>1, <2>2, <2>3, <2>4, <2>5, <2>6
<1> QED BY <1>3, <1>4

\* interactive_cancel()
LEMMA CancelIs ==
  ASSUME NEW s, Base(s)
  PROVE LET t == Cancel(s)
        IN  /\ Base(t) /\ Kin(s, t) /\ SameAxes(s, t)
            /\ NaturalIs(s) => NaturalIs(t)
            /\ PendingIs(s) => PendingIs(t)
            /\ t.input_mode = "passthrough" /\ t.axes = {}
            /\ Tiled(t) = Tiled(s) /\ SameTile(s, t) /\ t.awaiting = s.awaiting
            /\ t.pending = s.pending /\ t.natural = s.natural
<1> DEFINE t == Cancel(s)
<1>1. s \in Server BY DEF Base
<1>2. /\ t \in Server /\ t.tiled = s.tiled /\ t.region = s.region
      /\ t.evacuate = s.evacuate
      /\ t.at = s.at /\ t.regions = s.regions /\ t.adjusting = s.adjusting
      /\ t.input_mode = "passthrough" /\ t.axes = {} /\ t.awaiting = s.awaiting
      /\ t.output = s.output /\ t.last = s.last /\ t.natural = s.natural
      /\ t.fullscreen = s.fullscreen /\ t.maximized = s.maximized
      /\ t.pending = s.pending /\ t.current = s.current
  BY <1>1 DEF Cancel, Server
<1> HIDE DEF t
<1>3. Tiled(t) = Tiled(s) /\ SameTile(s, t) BY <1>2 DEF Tiled, SameTile
<1>4. Base(t) BY <1>2 DEF Base, RegionsAre, ModesAre, Usable, Plugged
<1>5. (NaturalIs(s) => NaturalIs(t)) /\ (PendingIs(s) => PendingIs(t))
  BY <1>2, <1>3 DEF NaturalIs, PendingIs
<1>6. Kin(s, t) BY <1>2 DEF Kin, Usable, Plugged
<1> QED BY <1>2, <1>3, <1>4, <1>5, <1>6 DEF SameAxes, t

\* view_store_natural_geometry()
LEMMA StoreNaturalIs ==
  ASSUME NEW s, Base(s)
  PROVE LET t == StoreNatural(s)
        IN  /\ Base(t) /\ Kin(s, t) /\ SameAxes(s, t)
            /\ NaturalIs(s) => NaturalIs(t)
            /\ PendingIs(s) => PendingIs(t)
            /\ Tiled(t) = Tiled(s) /\ SameTile(s, t) /\ t.awaiting = s.awaiting
            /\ t.input_mode = s.input_mode /\ t.axes = s.axes
            /\ t.pending = s.pending
<1> DEFINE n == [ h |-> IF "h" \in s.maximized THEN s.natural.h ELSE s.pending.h,
                  v |-> IF "v" \in s.maximized THEN s.natural.v ELSE s.pending.v ]
           t == [s EXCEPT !.natural = n]
<1>1. s \in Server BY DEF Base
<1>2. CASE s.fullscreen \/ Tiled(s)
  <2>1. StoreNatural(s) = s BY <1>2 DEF StoreNatural
  <2>2. Kin(s, s) BY DEF Kin
  <2> QED BY <2>1, <2>2 DEF SameAxes, SameTile
<1>3. CASE ~(s.fullscreen \/ Tiled(s))
  <2>1. s.pending \in Boxes /\ s.natural \in Sizes BY <1>1 DEF Server
  <2>2. n \in Sizes BY <2>1, BoxesAre DEF Sizes
  <2>3. StoreNatural(s) = t BY <1>1, <1>3 DEF StoreNatural, Server
  <2> HIDE DEF n
  <2>4. /\ t \in Server /\ t.tiled = s.tiled /\ t.region = s.region
        /\ t.evacuate = s.evacuate
        /\ t.at = s.at /\ t.regions = s.regions /\ t.adjusting = s.adjusting
        /\ t.input_mode = s.input_mode /\ t.axes = s.axes /\ t.awaiting = s.awaiting
        /\ t.output = s.output /\ t.last = s.last
        /\ t.fullscreen = s.fullscreen /\ t.maximized = s.maximized
        /\ t.pending = s.pending /\ t.current = s.current
    BY <1>1, <2>2 DEF Server
  <2> HIDE DEF t
  <2>5. Tiled(t) = Tiled(s) /\ SameTile(s, t) BY <2>4 DEF Tiled, SameTile
  <2>6. Base(t) BY <2>4 DEF Base, RegionsAre, ModesAre, Usable, Plugged
  <2>7. NaturalIs(t) BY <1>3, <2>5 DEF NaturalIs
  <2>8. PendingIs(s) => PendingIs(t) BY <2>4, <2>5 DEF PendingIs
  <2>9. Kin(s, t) BY <2>4 DEF Kin, Usable, Plugged
  <2> QED BY <2>3, <2>4, <2>5, <2>6, <2>7, <2>8, <2>9 DEF SameAxes
<1> QED BY <1>2, <1>3

\* view_set_output() takes outputs in use only.
LEMMA SetOutputIs ==
  ASSUME NEW s, Base(s), NEW o
  PROVE LET t == SetOutput(s, o)
        IN  /\ Base(t) /\ Kin(s, t) /\ SameAxes(s, t)
            /\ NaturalIs(s) => NaturalIs(t)
            /\ PendingIs(s) => PendingIs(t)
            /\ t.tiled = s.tiled /\ t.region = s.region /\ t.evacuate = s.evacuate
            /\ t.awaiting = s.awaiting /\ t.input_mode = s.input_mode
            /\ t.pending = s.pending /\ t.natural = s.natural
            /\ t.last = s.last
            /\ IF Usable(s, o) THEN t.output = o /\ Usable(t, o) ELSE t = s
<1> DEFINE t == [s EXCEPT !.output = o]
<1>1. s \in Server BY DEF Base
<1>2. CASE ~Usable(s, o)
  <2>1. SetOutput(s, o) = s BY <1>2 DEF SetOutput
  <2>2. Kin(s, s) BY DEF Kin
  <2> QED BY <1>2, <2>1, <2>2 DEF SameAxes
<1>3. CASE Usable(s, o)
  <2>1. SetOutput(s, o) = t BY <1>3 DEF SetOutput
  <2>2. o \in Outputs BY <1>1, <1>3, UsableIs
  <2>3. /\ t \in Server /\ t.tiled = s.tiled /\ t.region = s.region
        /\ t.evacuate = s.evacuate
        /\ t.at = s.at /\ t.regions = s.regions /\ t.adjusting = s.adjusting
        /\ t.input_mode = s.input_mode /\ t.axes = s.axes /\ t.awaiting = s.awaiting
        /\ t.output = o /\ t.last = s.last /\ t.natural = s.natural
        /\ t.fullscreen = s.fullscreen /\ t.maximized = s.maximized
        /\ t.pending = s.pending /\ t.current = s.current
    BY <1>1, <2>2 DEF Server
  <2> HIDE DEF t
  <2>4. Tiled(t) = Tiled(s) BY <2>3 DEF Tiled
  <2>5. Base(t) BY <2>3 DEF Base, RegionsAre, ModesAre, Usable, Plugged
  <2>6. (NaturalIs(s) => NaturalIs(t)) /\ (PendingIs(s) => PendingIs(t))
    BY <2>3, <2>4 DEF NaturalIs, PendingIs
  <2>7. Usable(t, o) /\ Kin(s, t) BY <1>3, <2>3 DEF Kin, Usable, Plugged
  <2> QED BY <1>3, <2>1, <2>3, <2>4, <2>5, <2>6, <2>7 DEF SameAxes
<1> QED BY <1>2, <1>3

----------------------------------------------------------------------------
(* The geometry of the state *)

\* What every operation does that gives the view the geometry of its state.
Applies(s, t) ==
    /\ Leads(s, t) /\ SameAxes(s, t)
    /\ t.natural = s.natural /\ t.input_mode = s.input_mode

\* view_apply_natural_geometry()
LEMMA ApplyNaturalGood ==
  ASSUME NEW s, Base(s), NaturalIs(s), ~s.fullscreen, ~Tiled(s),
         s.maximized = {} => s.awaiting
  PROVE Applies(s, ApplyNatural(s)) /\ SameState(s, ApplyNatural(s))
<1> DEFINE b == Box(s.pending.slot, s.natural)
           a == [b EXCEPT !.slot = s.at[s.output]]
           g == IF Empty(s.natural) THEN Box(1, s.natural) ELSE AdjustFloating(s, b)
<1>1. s \in Server BY DEF Base
<1>2. s.pending \in Boxes /\ s.natural \in Sizes BY <1>1 DEF Server
<1>3. s.pending.slot \in Slots BY <1>2, BoxesAre
<1>4. b \in Boxes /\ Box(1, s.natural) \in Boxes BY <1>2, <1>3, SlotsAre DEF Boxes
<1>5. Usable(s, s.output) => a \in Boxes
  <2> HIDE DEF b
  <2> QED BY <1>1, <1>4, UsableIs, BoxesAre
<1>6. g \in Boxes BY <1>4, <1>5 DEF AdjustFloating
<1>7. ApplyNatural(s) = MoveResize(s, g) BY DEF ApplyNatural
<1> HIDE DEF g
<1>8. LET t == MoveResize(s, g) IN Leads(s, t) /\ SameState(s, t)
  BY <1>6, MoveResizeGood
<1> QED BY <1>7, <1>8 DEF Applies, SameAxes, SameState

\* view_apply_region_geometry(): the region is one that exists, or goes.
LEMMA ApplyRegionGood ==
  ASSUME NEW s, Base(s), ~s.fullscreen, s.maximized = {}, s.tiled = {},
         s.region # None \/ s.evacuate, Usable(s, s.output)
  PROVE Applies(s, ApplyRegion(s)) /\ Lands(ApplyRegion(s))
<1> DEFINE r == [s EXCEPT !.region = s.output, !.evacuate = FALSE]
           u == SetUntiled(s)
<1>1. s \in Server BY DEF Base
<1>2. CASE s.evacuate /\ ~s.regions
  <2>1. /\ Leads(s, u) /\ SameAxes(s, u) /\ ~Tiled(u) /\ u.awaiting
        /\ u.natural = s.natural /\ u.input_mode = s.input_mode
    BY SetUntiledIs
  <2>2. ApplyRegion(s) = ApplyNatural(u) BY <1>2 DEF ApplyRegion
  <2> HIDE DEF u
  <2>3. Applies(u, ApplyNatural(u)) /\ SameState(u, ApplyNatural(u))
    BY <2>1, ApplyNaturalGood DEF Leads, Good, SameAxes
  <2>4. Floating(ApplyNatural(u)) BY <2>1, <2>3, SameStateIs DEF Floating, SameAxes
  <2> QED BY <2>1, <2>2, <2>3, <2>4, KinIsTransitive DEF Applies, Leads, SameAxes, Lands
<1>3. ASSUME NEW t, Base(t), Kin(s, t), SameAxes(s, t), t.natural = s.natural,
             t.input_mode = s.input_mode, t.region # None
      PROVE Applies(s, MoveResize(t, RegionBox(t))) /\ Lands(MoveResize(t, RegionBox(t)))
  <2> DEFINE g == RegionBox(t)
  <2>1. t.at[t.region] \in Slots BY <1>3, UsableIs DEF Base, RegionsAre
  <2>2. g \in Boxes /\ ~Empty(g)
    BY <2>1, BoxesAre DEF RegionBox, Empty, Special
  <2> HIDE DEF g
  <2>3. NaturalIs(t)
    <3>1. Cardinality(t.maximized) = 0 BY <1>3, FS_EmptySet DEF SameAxes
    <3> QED BY <3>1 DEF NaturalIs
  <2>4. LET m == MoveResize(t, g) IN Leads(t, m) /\ SameState(t, m)
    BY <1>3, <2>2, <2>3, MoveResizeGood
  <2>5. Lands(MoveResize(t, g))
    <3>1. t \in Server /\ ~t.evacuate /\ t.tiled = {} BY <1>3 DEF Base, RegionsAre
    <3>2. ~t.fullscreen /\ t.maximized = {} /\ Usable(t, t.output)
      BY <1>3 DEF SameAxes, Kin
    <3>3. ~Floating(t) /\ ~Lost(t) BY <1>3, <3>1 DEF Floating, Tiled, Lost
    <3>4. g = SpecialBox(t) BY <3>1, <3>2 DEF SpecialBox, g
    <3> QED BY <2>2, <3>1, <3>2, <3>3, <3>4, MoveResizeFits
  <2>6. Applies(s, MoveResize(t, g))
    BY <1>3, <2>4, KinIsTransitive DEF Applies, Leads, SameAxes, SameState
  <2> QED BY <2>5, <2>6 DEF g
<1>4. CASE s.evacuate /\ s.regions
  <2>1. s.output \in Outputs /\ s.output # None BY <1>1, UsableIs
  <2>2. /\ r \in Server /\ r.tiled = s.tiled /\ r.region = s.output
        /\ r.evacuate = FALSE
        /\ r.at = s.at /\ r.regions = s.regions /\ r.adjusting = s.adjusting
        /\ r.input_mode = s.input_mode /\ r.axes = s.axes /\ r.awaiting = s.awaiting
        /\ r.output = s.output /\ r.last = s.last /\ r.natural = s.natural
        /\ r.fullscreen = s.fullscreen /\ r.maximized = s.maximized
        /\ r.pending = s.pending /\ r.current = s.current
    BY <1>1, <2>1 DEF Server
  <2>3. ApplyRegion(s) = MoveResize(r, RegionBox(r)) BY <1>4 DEF ApplyRegion
  <2> HIDE DEF r
  <2>4. Base(r) BY <1>4, <2>2 DEF Base, RegionsAre, ModesAre, Usable, Plugged
  <2>5. Kin(s, r) /\ SameAxes(s, r) BY <2>2 DEF Kin, SameAxes, Usable, Plugged
  <2> QED BY <1>3, <2>1, <2>2, <2>3, <2>4, <2>5
<1>5. CASE ~s.evacuate
  <2>1. ApplyRegion(s) = MoveResize(s, RegionBox(s)) BY <1>5 DEF ApplyRegion
  <2>2. Kin(s, s) /\ SameAxes(s, s) BY DEF Kin, SameAxes
  <2> QED BY <1>3, <1>5, <2>1, <2>2
<1> QED BY <1>2, <1>4, <1>5

\* The size of the maximized view, one axis of which may be unknown
LEMMA MaximizedBoxIs ==
  ASSUME NEW s \in Server, NEW slot \in Slots
  PROVE /\ MaximizedBox(slot, s) \in Boxes
        /\ Empty(MaximizedBox(slot, s)) => s.maximized # Axes /\ Empty(s.natural)
<1> DEFINE g == MaximizedBox(slot, s)
<1>1. s.natural \in Sizes BY DEF Server
<1>2. s.natural.h \in Widths \cup Special /\ s.natural.v \in Heights \cup Special
  BY <1>1 DEF Sizes
<1>3. "max" \in Special BY DEF Special
<1>4. g \in [ slot : Slots, h : Widths \cup Special, v : Heights \cup Special ]
  BY <1>2, <1>3, SlotsAre DEF MaximizedBox
<1>5. Empty(g) => s.maximized # Axes /\ Empty(s.natural)
  BY DEF MaximizedBox, Empty, Axes
<1> QED BY <1>4, <1>5, BoxesAre

\* There are two axes.
LEMMA AxesAre ==
  /\ Cardinality(Axes) = 2
  /\ \A axes \in SUBSET Axes :
       axes # {} /\ axes # Axes => Cardinality(axes) = 1
<1>1. \A x : Cardinality({x}) = 1 BY FS_Singleton
<1>2. Cardinality({"h", "v"}) = 2
  <2>1. {"h", "v"} = {"h"} \cup {"v"} /\ "v" \notin {"h"} OBVIOUS
  <2>2. IsFiniteSet({"h"}) BY FS_Singleton
  <2> QED BY <1>1, <2>1, <2>2, FS_AddElement
<1>3. ASSUME NEW axes \in SUBSET Axes, axes # {}, axes # Axes
      PROVE Cardinality(axes) = 1
  <2>1. axes = {"h"} \/ axes = {"v"} BY <1>3 DEF Axes
  <2> QED BY <1>1, <2>1
<1> QED BY <1>2, <1>3 DEF Axes

\* A window that is maximized along one axis has a size to go back to along it.
Single(s) == Cardinality(s.maximized) = 1 => ~Empty(s.natural)

\* A maximized window has a size.
Full(s) == s.maximized # {} => ~Empty(s.pending)

\* The tile of an edge is a box.
LEMMA EdgeBoxIs ==
  ASSUME NEW slot \in Slots, NEW tiled
  PROVE EdgeBox(slot, tiled) \in Boxes /\ ~Empty(EdgeBox(slot, tiled))
BY BoxesAre DEF EdgeBox, Empty, Special

LEMMA FullscreenBoxIs ==
  ASSUME NEW slot \in Slots
  PROVE FullscreenBox(slot) \in Boxes /\ ~Empty(FullscreenBox(slot))
BY BoxesAre DEF FullscreenBox, Empty, Special

\* view_apply_special_geometry() leaves no tile and no fullscreen window empty,
\* and a maximized one only if it has no size to go back to.
LEMMA ApplySpecialGood ==
  ASSUME NEW s, Base(s), NaturalIs(s), ~Floating(s),
         Empty(s.pending) => ~Tiled(s) /\ (s.fullscreen => Usable(s, s.output))
  PROVE LET t == ApplySpecial(s)
        IN  /\ Applies(s, t)
            /\ Single(s) /\ (Empty(s.pending) => Usable(s, s.output)) => Full(t)
            /\ IF Usable(s, s.output) THEN Lands(t) ELSE t = s
<1> DEFINE slot == s.at[s.output]
<1>1. s \in Server BY DEF Base
<1>2. CASE ~Usable(s, s.output)
  <2>1. ApplySpecial(s) = s BY <1>2 DEF ApplySpecial
  <2>2. PendingIs(s) BY <1>2 DEF PendingIs, Floating
  <2>3. Kin(s, s) BY DEF Kin
  <2> QED BY <1>2, <2>1, <2>2, <2>3 DEF Applies, Leads, Good, SameAxes, Full
<1>3. CASE Usable(s, s.output)
  <2>1. slot \in Slots BY <1>1, <1>3, UsableIs
  <2> HIDE DEF slot
  <2>2. ASSUME NEW g \in Boxes,
               Empty(g) => ~s.fullscreen /\ ~Tiled(s) /\ s.maximized # {} /\ ~Single(s),
               ~Lost(s), g = SpecialBox(s), s.fullscreen => g.slot = slot
        PROVE LET t == MoveResize(s, g)
              IN  Applies(s, t) /\ (Single(s) => Full(t)) /\ Lands(t)
    <3>1. LET t == MoveResize(s, g)
          IN  Leads(s, t) /\ SameState(s, t)
              /\ t.pending.h = g.h /\ t.pending.v = g.v
      BY <2>2, MoveResizeGood
    <3>2. Lands(MoveResize(s, g)) BY <1>1, <1>3, <2>2, MoveResizeFits DEF slot
    <3> QED BY <2>2, <3>1, <3>2 DEF Applies, SameAxes, SameState, Full, Empty
  <2>3. CASE s.fullscreen
    <3>1. ApplySpecial(s) = MoveResize(s, FullscreenBox(slot))
      BY <1>3, <2>3 DEF ApplySpecial, slot
    <3>2. FullscreenBox(slot) = SpecialBox(s) /\ FullscreenBox(slot).slot = slot
      BY <2>3 DEF SpecialBox, FullscreenBox, slot
    <3>3. ~Lost(s) BY <2>3 DEF Lost
    <3> QED BY <1>3, <2>1, <2>2, <3>1, <3>2, <3>3, FullscreenBoxIs
  <2>4. CASE ~s.fullscreen /\ s.maximized # {}
    <3> DEFINE g == MaximizedBox(slot, s)
    <3>1. ApplySpecial(s) = MoveResize(s, g) BY <1>3, <2>4 DEF ApplySpecial, slot
    <3>2. g \in Boxes /\ (Empty(g) => s.maximized # Axes /\ Empty(s.natural))
      BY <1>1, <2>1, MaximizedBoxIs
    <3> HIDE DEF g
    <3>3. s.maximized \in SUBSET Axes BY <1>1 DEF Server
    <3>4. s.maximized # Axes => Cardinality(s.maximized) = 1 BY <2>4, <3>3, AxesAre
    <3>5. Empty(g) => ~Tiled(s) /\ ~Single(s) BY <3>2, <3>4 DEF NaturalIs, Single
    <3>6. g = SpecialBox(s) /\ ~Lost(s) BY <2>4 DEF SpecialBox, Lost, g, slot
    <3> QED BY <1>3, <2>2, <2>4, <3>1, <3>2, <3>5, <3>6
  <2>5. CASE ~s.fullscreen /\ s.maximized = {} /\ s.tiled # {}
    <3>1. ApplySpecial(s) = MoveResize(s, EdgeBox(slot, s.tiled))
      BY <1>3, <2>5 DEF ApplySpecial, slot
    <3>2. EdgeBox(slot, s.tiled) = SpecialBox(s) /\ ~Lost(s)
      BY <2>5 DEF SpecialBox, Lost, slot
    <3> QED BY <1>3, <2>1, <2>2, <2>5, <3>1, <3>2, EdgeBoxIs
  <2>6. CASE ~s.fullscreen /\ s.maximized = {} /\ s.tiled = {}
    <3>1. ApplySpecial(s) = ApplyRegion(s) BY <1>3, <2>6 DEF ApplySpecial
    <3>2. s.region # None \/ s.evacuate BY <2>6 DEF Floating, Tiled
    <3>3. Applies(s, ApplyRegion(s)) /\ Lands(ApplyRegion(s))
      BY <1>3, <2>6, <3>2, ApplyRegionGood
    <3> QED BY <1>3, <2>6, <3>1, <3>3 DEF Full, Applies, SameAxes
  <2> QED BY <2>3, <2>4, <2>5, <2>6
<1> QED BY <1>2, <1>3

\* The geometry of whatever state the view is in
LEMMA ApplyGood ==
  ASSUME NEW s, Base(s), NaturalIs(s), Floating(s) => s.awaiting,
         Empty(s.pending) => ~Tiled(s) /\ (s.fullscreen => Usable(s, s.output))
  PROVE LET t == Apply(s)
        IN  /\ Applies(s, t)
            /\ Single(s) /\ (Empty(s.pending) => Usable(s, s.output)) => Full(t)
            /\ Lands(t) \/ (t = s /\ ~Usable(s, s.output))
<1>1. CASE Floating(s)
  <2>1. Apply(s) = ApplyNatural(s) BY <1>1 DEF Apply
  <2>2. ~s.fullscreen /\ ~Tiled(s) /\ s.maximized = {} BY <1>1 DEF Floating
  <2>3. Applies(s, ApplyNatural(s)) /\ SameState(s, ApplyNatural(s))
    BY <1>1, <2>2, ApplyNaturalGood
  <2>4. Lands(ApplyNatural(s)) BY <1>1, <2>3, SameStateIs DEF Lands
  <2> QED BY <2>1, <2>2, <2>3, <2>4 DEF Full, Applies, SameAxes
<1>2. CASE ~Floating(s)
  <2>1. Apply(s) = ApplySpecial(s) BY <1>2 DEF Apply
  <2> QED BY <1>2, <2>1, ApplySpecialGood
<1> QED BY <1>1, <1>2

----------------------------------------------------------------------------
(* Changing the state *)

\* On no output in use, the view changes its state and not its geometry; it is then
\* not fullscreen, and not tiled unless it was.
Stays(s, t) == ~Usable(s, s.output) /\ ~t.fullscreen /\ (Tiled(t) => Tiled(s))

\* view_maximize()
LEMMA MaximizeGood ==
  ASSUME NEW s, Good(s), NEW axes \in SUBSET Axes
  PROVE LET t == Maximize(s, axes)
        IN  /\ Leads(s, t) /\ t.fullscreen = s.fullscreen
            /\ ~s.fullscreen => t.maximized = axes
            /\ Full(s) /\ (Empty(s.pending) => Usable(s, s.output)) => Full(t)
            /\ t = s \/ Lands(t) \/ Stays(s, t)
<1> DEFINE stored == IF s.input_mode = "move" THEN s ELSE StoreNatural(s)
           t == Cancel(stored)
           f == [t EXCEPT !.natural = Fallback]
           u == IF Cardinality(axes) = 1 /\ Empty(t.natural) THEN f ELSE t
           v == SetMaximized(u, axes)
<1>1. CASE s.maximized = axes \/ s.fullscreen
  <2>1. Maximize(s, axes) = s BY <1>1 DEF Maximize
  <2>2. Kin(s, s) BY DEF Kin
  <2> QED BY <1>1, <2>1, <2>2 DEF Leads
<1>2. CASE ~(s.maximized = axes \/ s.fullscreen)
  <2>1. Maximize(s, axes) = Apply(v) BY <1>2 DEF Maximize
  <2>2. /\ Base(stored) /\ Kin(s, stored) /\ SameAxes(s, stored)
        /\ NaturalIs(stored) /\ PendingIs(stored)
        /\ stored.pending = s.pending
        /\ Tiled(stored) = Tiled(s) /\ stored.output = s.output
    <3>1. Kin(s, s) BY DEF Kin
    <3> QED BY <3>1, StoreNaturalIs DEF Good, SameAxes, SameTile
  <2> HIDE DEF stored
  <2>3. /\ Base(t) /\ Kin(stored, t) /\ SameAxes(stored, t)
        /\ NaturalIs(t) /\ PendingIs(t) /\ t.pending = stored.pending
        /\ Tiled(t) = Tiled(stored) /\ t.output = stored.output
    BY <2>2, CancelIs DEF SameTile
  <2> HIDE DEF t
  <2>4. /\ Base(u) /\ Kin(t, u) /\ SameAxes(t, u) /\ PendingIs(u)
        /\ u.pending = t.pending /\ (Cardinality(axes) = 1 => ~Empty(u.natural))
        /\ Tiled(u) = Tiled(t) /\ u.output = t.output
    <3>1. t \in Server BY <2>3 DEF Base
    <3>2. Fallback \in Sizes /\ ~Empty(Fallback)
      <4> DEFINE w == CHOOSE w \in Widths : TRUE
                 h == CHOOSE h \in Heights : TRUE
      <4>1. w \in Widths /\ h \in Heights BY SizesDiffer
      <4>2. Fallback = [h |-> w, v |-> h] BY DEF Fallback
      <4> HIDE DEF w, h
      <4> QED BY <4>1, <4>2, SizesDiffer DEF Sizes, Empty
    <3>3. /\ f \in Server /\ f.tiled = t.tiled /\ f.region = t.region
          /\ f.evacuate = t.evacuate
          /\ f.at = t.at /\ f.regions = t.regions /\ f.adjusting = t.adjusting
          /\ f.input_mode = t.input_mode /\ f.axes = t.axes /\ f.awaiting = t.awaiting
          /\ f.output = t.output /\ f.last = t.last /\ f.natural = Fallback
          /\ f.fullscreen = t.fullscreen /\ f.maximized = t.maximized
          /\ f.pending = t.pending /\ f.current = t.current
      BY <3>1, <3>2 DEF Server
    <3> HIDE DEF f
    <3>4. Base(f) BY <2>3, <3>3 DEF Base, RegionsAre, ModesAre, Usable, Plugged
    <3>5. Kin(t, f) /\ SameAxes(t, f) BY <3>3 DEF Kin, SameAxes, Usable, Plugged
    <3>6. PendingIs(f) /\ Tiled(f) = Tiled(t) BY <2>3, <3>3 DEF PendingIs, Tiled
    <3>7. Kin(t, t) /\ SameAxes(t, t) BY DEF Kin, SameAxes
    <3> QED BY <2>3, <3>2, <3>3, <3>4, <3>5, <3>6, <3>7
  <2> HIDE DEF u
  <2>5. /\ Base(v) /\ Kin(u, v) /\ v.fullscreen = u.fullscreen /\ v.maximized = axes
        /\ axes # u.maximized => v.awaiting
        /\ Tiled(v) = Tiled(u) /\ v.output = u.output
        /\ v.pending = u.pending /\ v.natural = u.natural
    BY <2>4, SetMaximizedIs DEF SameTile
  <2> HIDE DEF v
  <2>6. ~v.fullscreen /\ v.awaiting
    BY <1>2, <2>2, <2>3, <2>4, <2>5 DEF SameAxes
  <2>7. NaturalIs(v) /\ Single(v) BY <2>4, <2>5 DEF NaturalIs, Single
  <2>8. Empty(v.pending) => ~Tiled(v) BY <2>4, <2>5 DEF PendingIs
  <2>9. /\ Applies(v, Apply(v))
        /\ (Empty(v.pending) => Usable(v, v.output)) => Full(Apply(v))
        /\ Lands(Apply(v)) \/ (Apply(v) = v /\ ~Usable(v, v.output))
    BY <2>5, <2>6, <2>7, <2>8, ApplyGood
  <2>10. Kin(s, v) BY <2>2, <2>3, <2>4, <2>5, KinIsTransitive
  <2>11. (Empty(s.pending) => Usable(s, s.output))
         => (Empty(v.pending) => Usable(v, v.output))
    BY <2>2, <2>3, <2>4, <2>5, <2>10 DEF Kin
  <2>12. Leads(s, Apply(v))
    <3>1. Kin(v, Apply(v)) /\ Good(Apply(v)) BY <2>9 DEF Applies, Leads
    <3> QED BY <2>10, <3>1, KinIsTransitive DEF Leads
  <2>13. Apply(v).fullscreen = FALSE /\ Apply(v).maximized = axes
    <3>1. v.fullscreen = FALSE
      <4>1. v.fullscreen \in BOOLEAN BY <2>5 DEF Base, Server
      <4> QED BY <2>6, <4>1
    <3> QED BY <2>5, <2>9, <3>1 DEF Applies, SameAxes
  <2>14. s.fullscreen = FALSE
    <3>1. s.fullscreen \in BOOLEAN BY DEF Good, Base, Server
    <3> QED BY <1>2, <3>1
  <2>15. Lands(Apply(v)) \/ Stays(s, Apply(v))
    <3>1. v.output = s.output /\ Tiled(v) = Tiled(s) BY <2>2, <2>3, <2>4, <2>5
    <3>2. \A o : Usable(v, o) <=> Usable(s, o) BY <2>10, UsableSame DEF Kin
    <3> QED BY <2>6, <2>9, <3>1, <3>2 DEF Stays
  <2> QED BY <2>1, <2>9, <2>11, <2>12, <2>13, <2>14, <2>15
<1> QED BY <1>1, <1>2

\* view_set_fullscreen()
LEMMA SetFullscreenGood ==
  ASSUME NEW s, Good(s), NEW b \in BOOLEAN
  PROVE LET t == SetFullscreen(s, b)
        IN  /\ Leads(s, t) /\ t.maximized = s.maximized
            /\ ~b => ~t.fullscreen
            /\ (b => Usable(s, s.output)) => t.fullscreen = b
            /\ Full(s) /\ Single(t) /\ (Empty(s.pending) => Usable(s, s.output)) => Full(t)
            /\ t = s \/ Lands(t) \/ Stays(s, t)
<1> DEFINE c == Cancel(s)
           t == IF b THEN StoreNatural(c) ELSE s
           u == [t EXCEPT !.fullscreen = b, !.awaiting = TRUE]
<1>1. CASE s.fullscreen = b \/ (b /\ ~Usable(s, s.output))
  <2>1. SetFullscreen(s, b) = s BY <1>1 DEF SetFullscreen
  <2>2. Kin(s, s) BY DEF Kin
  <2> QED BY <1>1, <2>1, <2>2 DEF Leads
<1>2. CASE ~(s.fullscreen = b \/ (b /\ ~Usable(s, s.output)))
  <2>1. SetFullscreen(s, b) = Apply(u) BY <1>2 DEF SetFullscreen
  <2>2. /\ Base(c) /\ Kin(s, c) /\ SameAxes(s, c)
        /\ NaturalIs(c) /\ PendingIs(c) /\ c.input_mode = "passthrough" /\ c.axes = {}
        /\ c.pending = s.pending /\ c.output = s.output /\ Tiled(c) = Tiled(s)
    BY CancelIs DEF Good, SameTile
  <2> HIDE DEF c
  <2>3. /\ Base(t) /\ Kin(s, t) /\ SameAxes(s, t)
        /\ NaturalIs(t) /\ PendingIs(t) /\ t.pending = s.pending
        /\ b => t.input_mode = "passthrough"
        /\ t.output = s.output /\ Tiled(t) = Tiled(s)
    <3>1. CASE b
      <4> DEFINE n == StoreNatural(c)
      <4>1. /\ Base(n) /\ Kin(c, n) /\ SameAxes(c, n)
            /\ NaturalIs(n) /\ PendingIs(n) /\ n.pending = c.pending
            /\ n.input_mode = c.input_mode /\ n.output = c.output /\ Tiled(n) = Tiled(c)
        BY <2>2, StoreNaturalIs DEF SameTile
      <4> HIDE DEF n
      <4>2. Kin(s, n) BY <2>2, <4>1, KinIsTransitive
      <4>3. t = n BY <3>1 DEF n
      <4> QED BY <2>2, <4>1, <4>2, <4>3 DEF SameAxes
    <3>2. CASE ~b
      <4>1. Kin(s, s) BY DEF Kin
      <4> QED BY <3>2, <4>1 DEF Good, SameAxes
    <3> QED BY <3>1, <3>2
  <2> HIDE DEF t
  <2>4. t \in Server BY <2>3 DEF Base
  <2>5. /\ u \in Server /\ u.tiled = t.tiled /\ u.region = t.region
        /\ u.evacuate = t.evacuate
        /\ u.at = t.at /\ u.regions = t.regions /\ u.adjusting = t.adjusting
        /\ u.input_mode = t.input_mode /\ u.axes = t.axes
        /\ u.output = t.output /\ u.last = t.last /\ u.natural = t.natural
        /\ u.fullscreen = b /\ u.maximized = t.maximized
        /\ u.pending = t.pending /\ u.current = t.current
    BY <2>4 DEF Server
  <2>6. u.awaiting BY <2>4 DEF Server
  <2> HIDE DEF u
  <2>7. Tiled(u) = Tiled(t) BY <2>5 DEF Tiled
  <2>8. Base(u)
    <3>1. RegionsAre(u) BY <2>3, <2>5 DEF Base, RegionsAre, Usable, Plugged
    <3>2. ModesAre(u) BY <2>3, <2>5 DEF Base, ModesAre
    <3> QED BY <2>3, <2>5, <3>1, <3>2 DEF Base
  <2>9. NaturalIs(u) BY <2>3, <2>5, <2>7 DEF NaturalIs
  <2>10. Kin(t, u) BY <2>5 DEF Kin, Usable, Plugged
  <2>11. Kin(s, u) BY <2>3, <2>10, KinIsTransitive
  <2>12. Empty(u.pending) => ~Tiled(u) /\ (u.fullscreen => Usable(u, u.output))
    <3>1. u.fullscreen => Usable(u, u.output)
      BY <1>2, <2>3, <2>5, <2>11 DEF Kin
    <3> QED BY <2>3, <2>5, <2>7, <3>1 DEF PendingIs
  <2>13. /\ Applies(u, Apply(u))
         /\ Single(u) /\ (Empty(u.pending) => Usable(u, u.output)) => Full(Apply(u))
         /\ Lands(Apply(u)) \/ (Apply(u) = u /\ ~Usable(u, u.output))
    BY <2>6, <2>8, <2>9, <2>12, ApplyGood
  <2>14. Leads(s, Apply(u)) BY <2>11, <2>13, KinIsTransitive DEF Applies, Leads
  <2>15. Single(Apply(u)) => Single(u) BY <2>13 DEF Applies, SameAxes, Single
  <2>16. (Empty(s.pending) => Usable(s, s.output))
         => (Empty(u.pending) => Usable(u, u.output))
    BY <2>3, <2>5, <2>11 DEF Kin
  <2>17. Apply(u).maximized = s.maximized /\ Apply(u).fullscreen = b
    BY <2>3, <2>5, <2>13 DEF Applies, SameAxes
  <2>18. Lands(Apply(u)) \/ Stays(s, Apply(u))
    <3>1. u.output = s.output /\ Tiled(u) = Tiled(s) BY <2>3, <2>5, <2>7
    <3>2. \A o : Usable(u, o) <=> Usable(s, o) BY <2>11, UsableSame DEF Kin
    <3> QED BY <1>2, <2>5, <2>13, <3>1, <3>2 DEF Stays
  <2> QED BY <2>1, <2>13, <2>14, <2>15, <2>16, <2>17, <2>18
<1> QED BY <1>1, <1>2

----------------------------------------------------------------------------
(* Tiling *)

\* What every operation on the view keeps: the invariant, and that a maximized
\* window has a size, if it had one or was on an output in use.
Keeps(s, t) ==
    /\ Leads(s, t)
    /\ Full(s) /\ Single(t) /\ (Empty(s.pending) => Usable(s, s.output)) => Full(t)

LEMMA LeadsTransitive ==
  ASSUME NEW s, NEW t, NEW u, Kin(s, t), Leads(t, u)
  PROVE Leads(s, u)
BY KinIsTransitive DEF Leads

LEMMA LeadsItself ==
  ASSUME NEW s, Good(s)
  PROVE Leads(s, s) /\ Keeps(s, s) /\ SameAxes(s, s)
BY DEF Leads, Keeps, Kin, SameAxes

\* Back to the natural geometry, where a tile is left
LEMMA UntileGood ==
  ASSUME NEW s, Good(s), ~s.fullscreen
  PROVE Leads(s, Untile(s)) /\ SameAxes(s, Untile(s)) /\ ~Tiled(Untile(s))
<1> DEFINE t == SetUntiled(s)
           g == Box(t.pending.slot, t.natural)
<1>1. CASE ~Tiled(s)
  <2>1. Untile(s) = s BY <1>1 DEF Untile
  <2> QED BY <1>1, <2>1, LeadsItself
<1>2. CASE Tiled(s)
  <2>1. Untile(s) = MoveResize(t, g) BY <1>2 DEF Untile
  <2>2. Leads(s, t) /\ SameAxes(s, t) /\ ~Tiled(t) /\ t.awaiting
    BY SetUntiledIs DEF Good
  <2> HIDE DEF t
  <2>3. t \in Server BY <2>2 DEF Leads, Good, Base
  <2>4. t.pending \in Boxes /\ t.natural \in Sizes BY <2>3 DEF Server
  <2>5. g \in Boxes
    <3>1. t.pending.slot \in Slots BY <2>4, BoxesAre
    <3> QED BY <2>4, <3>1 DEF Boxes
  <2> HIDE DEF g
  <2>6. LET m == MoveResize(t, g) IN Leads(t, m) /\ SameState(t, m)
    BY <2>2, <2>5, MoveResizeGood DEF Leads, Good, SameAxes
  <2>7. ~Tiled(MoveResize(t, g)) BY <2>2, <2>6 DEF SameState, Tiled
  <2> QED BY <2>1, <2>2, <2>6, <2>7, LeadsTransitive DEF Leads, SameAxes, SameState
<1> QED BY <1>1, <1>2

\* Leaving a tile for the natural geometry, as the toggling actions do
LEMMA ApplyUntiledGood ==
  ASSUME NEW s, Good(s), ~s.fullscreen
  PROVE LET t == ApplyNatural(SetUntiled(s))
        IN  Leads(s, t) /\ SameAxes(s, t) /\ ~Tiled(t)
<1> DEFINE t == SetUntiled(s)
<1>1. Leads(s, t) /\ SameAxes(s, t) /\ ~Tiled(t) /\ t.awaiting
  BY SetUntiledIs DEF Good
<1> HIDE DEF t
<1>2. Applies(t, ApplyNatural(t)) /\ SameState(t, ApplyNatural(t))
  BY <1>1, ApplyNaturalGood DEF Leads, Good, SameAxes
<1>3. ~Tiled(ApplyNatural(t)) BY <1>1, <1>2 DEF SameState, Tiled
<1> QED BY <1>1, <1>2, <1>3, LeadsTransitive DEF t, Applies, Leads, SameAxes

\* What is snapped is not maximized any more.
LEMMA StoreForSnapGood ==
  ASSUME NEW s, Good(s), ~s.fullscreen
  PROVE LET t == StoreForSnap(s)
        IN  Leads(s, t) /\ t.fullscreen = s.fullscreen /\ t.maximized = {}
<1>1. CASE s.maximized # {}
  <2>1. StoreForSnap(s) = Maximize(s, {}) BY <1>1 DEF StoreForSnap
  <2> QED BY <2>1, MaximizeGood
<1>2. CASE s.maximized = {} /\ s.input_mode = "move"
  <2>1. StoreForSnap(s) = s BY <1>2 DEF StoreForSnap
  <2> QED BY <1>2, <2>1, LeadsItself
<1>3. CASE s.maximized = {} /\ s.input_mode # "move"
  <2>1. StoreForSnap(s) = StoreNatural(s) BY <1>3 DEF StoreForSnap
  <2> QED BY <1>3, <2>1, StoreNaturalIs DEF Leads, Good, SameAxes
<1> QED BY <1>1, <1>2, <1>3

EdgeSets == SUBSET (Edges \cup {"center"})

\* view_snap_to_edge() once it knows where to
LEMMA SnapToGood ==
  ASSUME NEW s, Good(s), NEW output, NEW edge \in EdgeSets
  PROVE LET t == SnapTo(s, output, edge)
        IN  Leads(s, t) /\ (t = s \/ t.maximized = {}) /\ (t = s \/ Lands(t))
<1> DEFINE a == StoreForSnap(s)
           b == SetUntiled(a)
           c == SetOutput(b, output)
           d == [c EXCEPT !.tiled = edge]
           g == EdgeBox(c.at[output], edge)
<1>1. CASE s.fullscreen \/ ~Usable(s, s.output) \/ ~Usable(s, output)
  <2>1. SnapTo(s, output, edge) = s BY <1>1 DEF SnapTo
  <2> QED BY <2>1, LeadsItself
<1>2. CASE ~(s.fullscreen \/ ~Usable(s, s.output) \/ ~Usable(s, output))
  <2>1. SnapTo(s, output, edge) = MoveResize(d, g) BY <1>2 DEF SnapTo
  <2>2. Leads(s, a) /\ ~a.fullscreen /\ a.maximized = {} BY <1>2, StoreForSnapGood
  <2> HIDE DEF a
  <2>3. /\ Leads(a, b) /\ SameAxes(a, b) /\ b.region = None /\ ~b.evacuate
        /\ b.tiled = {}
    BY <2>2, SetUntiledIs DEF Leads, Good
  <2> HIDE DEF b
  <2>4. /\ Base(c) /\ Kin(b, c) /\ SameAxes(b, c)
        /\ c.region = b.region /\ c.evacuate = b.evacuate
        /\ Usable(b, output) => c.output = output
    BY <2>3, SetOutputIs DEF Leads, Good
  <2> HIDE DEF c
  <2>5. c \in Server BY <2>4 DEF Base
  <2>6. /\ d \in Server /\ d.tiled = edge /\ d.region = c.region
        /\ d.evacuate = c.evacuate
        /\ d.at = c.at /\ d.regions = c.regions /\ d.adjusting = c.adjusting
        /\ d.input_mode = c.input_mode /\ d.axes = c.axes
        /\ d.output = c.output /\ d.last = c.last
        /\ d.fullscreen = c.fullscreen /\ d.maximized = c.maximized
        /\ d.pending = c.pending /\ d.current = c.current
    BY <2>5 DEF Server, EdgeSets
  <2> HIDE DEF d
  <2>7. Base(d)
    <3>1. RegionsAre(d) BY <2>3, <2>4, <2>6 DEF RegionsAre
    <3> QED BY <2>4, <2>6, <3>1 DEF Base, ModesAre
  <2>8. Kin(c, d) BY <2>6 DEF Kin, Usable, Plugged
  <2>9. d.maximized = {} BY <2>2, <2>3, <2>4, <2>6 DEF SameAxes
  <2>10. NaturalIs(d)
    <3>1. Cardinality(d.maximized) = 0 BY <2>9, FS_EmptySet
    <3> QED BY <3>1 DEF NaturalIs
  <2>11. Kin(s, d) BY <2>2, <2>3, <2>4, <2>8, KinIsTransitive DEF Leads
  <2>12. g \in Boxes /\ ~Empty(g)
    <3>1. c.at = s.at BY <2>6, <2>11 DEF Kin
    <3>2. s \in Server BY DEF Good, Base
    <3>3. c.at[output] \in Slots BY <1>2, <3>1, <3>2, UsableIs
    <3> QED BY <3>3, EdgeBoxIs
  <2> HIDE DEF g
  <2>13. LET m == MoveResize(d, g) IN Leads(d, m) /\ SameState(d, m)
    BY <2>7, <2>10, <2>12, MoveResizeGood
  <2>14. Lands(MoveResize(d, g))
    <3>1. ~d.fullscreen /\ d.region = None /\ ~d.evacuate
      BY <2>2, <2>3, <2>4, <2>6 DEF SameAxes
    <3>2. CASE edge = {}
      <4>1. Floating(d) BY <2>6, <2>9, <3>1, <3>2 DEF Floating, Tiled
      <4> QED BY <2>13, <4>1, SameStateIs DEF Lands
    <3>3. CASE edge # {}
      <4>1. \A o : Usable(d, o) <=> Usable(s, o) BY <2>11, UsableSame DEF Kin
      <4>2. \A o : Usable(b, o) <=> Usable(s, o)
        BY <2>2, <2>3, UsableSame DEF Leads, Kin
      <4>3. d.output = output /\ Usable(d, d.output) BY <1>2, <2>4, <2>6, <4>1, <4>2
      <4>4. g = SpecialBox(d) BY <2>6, <2>9, <3>1, <3>3, <4>3 DEF SpecialBox, g
      <4>5. ~Floating(d) /\ ~Lost(d) BY <2>6, <3>1, <3>3 DEF Floating, Tiled, Lost
      <4> QED BY <2>6, <2>12, <3>1, <4>3, <4>4, <4>5, MoveResizeFits
    <3> QED BY <3>2, <3>3
  <2> QED BY <2>1, <2>9, <2>11, <2>13, <2>14, LeadsTransitive DEF SameState
<1> QED BY <1>1, <1>2

\* The edges that are snapped to are edges.
LEMMA OppositeIs ==
  ASSUME NEW edge \in SnapEdges
  PROVE /\ edge \in EdgeSets
        /\ Cardinal(edge) => Opposite(edge) \in EdgeSets
        /\ \A tiled \in EdgeSets : Cardinal(edge) => Combined(tiled, edge) \in EdgeSets
<1>1. edge \in EdgeSets BY GeometryAssumption DEF EdgeSets
<1>2. ASSUME Cardinal(edge) PROVE Opposite(edge) \in EdgeSets
  <2>1. edge \subseteq Edges BY <1>2, GeometryAssumption DEF Cardinal
  <2>2. IsFiniteSet(Edges)
    <3>1. Edges = {"left", "right"} \cup {"top", "bottom"} BY DEF Edges
    <3>2. IsFiniteSet({"left", "right"}) /\ IsFiniteSet({"top", "bottom"})
      <4>1. {"left", "right"} = {"left"} \cup {"right"}
            /\ {"top", "bottom"} = {"top"} \cup {"bottom"}
        OBVIOUS
      <4>2. \A x : IsFiniteSet({x}) BY FS_Singleton
      <4>3. IsFiniteSet({"left"} \cup {"right"}) BY <4>2, FS_Union
      <4>4. IsFiniteSet({"top"} \cup {"bottom"}) BY <4>2, FS_Union
      <4> QED BY <4>1, <4>3, <4>4
    <3> QED BY <3>1, <3>2, FS_Union
  <2>3. IsFiniteSet(edge) BY <2>1, <2>2, FS_Subset
  <2>4. PICK x : edge = {x} BY <1>2, <2>3, FS_Singleton DEF Cardinal
  <2>5. edge \in {{"left"}, {"right"}, {"top"}, {"bottom"}} BY <2>1, <2>4 DEF Edges
  <2> QED BY <2>5 DEF Opposite, EdgeSets, Edges
<1>3. ASSUME NEW tiled \in EdgeSets PROVE Combined(tiled, edge) \in EdgeSets
  <2> DEFINE across == tiled \ (edge \cup Opposite(edge))
  <2>1. across \in EdgeSets /\ tiled \cup edge \in EdgeSets BY <1>1 DEF EdgeSets
  <2> QED BY <1>1, <2>1 DEF Combined
<1> QED BY <1>1, <1>2, <1>3

\* view_snap_to_edge()
LEMMA SnapToEdgeGood ==
  ASSUME NEW s, Good(s), NEW edge \in SnapEdges, NEW across, NEW combine
  PROVE LET t == SnapToEdge(s, edge, across, combine)
        IN  Leads(s, t) /\ (t = s \/ t.maximized = {}) /\ (t = s \/ Lands(t))
<1> DEFINE split == Cardinal(edge) /\ s.maximized = {} /\ s.tiled # {"center"}
           t == SnapToEdge(s, edge, across, combine)
<1>1. s.tiled \in EdgeSets BY DEF Good, Base, Server, EdgeSets
<1>2. \/ t = s
      \/ split /\ t = SnapTo(s, Adjacent(s, edge), Opposite(edge))
      \/ split /\ t = SnapTo(s, s.output, Combined(s.tiled, edge))
      \/ t = SnapTo(s, s.output, edge)
  BY DEF SnapToEdge
<1>3. edge \in EdgeSets
      /\ (split => Opposite(edge) \in EdgeSets /\ Combined(s.tiled, edge) \in EdgeSets)
  BY <1>1, OppositeIs
<1>4. \A output : \A e \in EdgeSets :
        LET u == SnapTo(s, output, e)
        IN  Leads(s, u) /\ (u = s \/ u.maximized = {}) /\ (u = s \/ Lands(u))
  BY SnapToGood
<1> HIDE DEF split, t
<1> QED BY <1>2, <1>3, <1>4, LeadsItself DEF t

\* view_snap_to_region(), for a region that exists
LEMMA SnapToRegionGood ==
  ASSUME NEW s, Good(s), NEW output, s.regions, Usable(s, output)
  PROVE LET t == SnapToRegion(s, output)
        IN  /\ Leads(s, t) /\ (t = s \/ t.maximized = {})
            /\ t = s \/ Lands(t)
            /\ ~s.fullscreen /\ Usable(s, s.output) => Lands(t)
<1> DEFINE a == StoreForSnap(s)
           b == SetUntiled(a)
           c == [b EXCEPT !.region = output]
<1>1. CASE s.fullscreen \/ ~Usable(s, s.output)
  <2>1. SnapToRegion(s, output) = s BY <1>1 DEF SnapToRegion
  <2> QED BY <1>1, <2>1, LeadsItself
<1>2. CASE ~(s.fullscreen \/ ~Usable(s, s.output))
  <2>1. SnapToRegion(s, output) = ApplyRegion(c) BY <1>2 DEF SnapToRegion
  <2>2. Leads(s, a) /\ ~a.fullscreen /\ a.maximized = {} BY <1>2, StoreForSnapGood
  <2> HIDE DEF a
  <2>3. /\ Leads(a, b) /\ SameAxes(a, b) /\ ~b.evacuate /\ b.tiled = {}
        /\ b.output = a.output
    BY <2>2, SetUntiledIs DEF Leads, Good
  <2> HIDE DEF b
  <2>4. b \in Server /\ Kin(s, b)
    BY <2>2, <2>3, KinIsTransitive DEF Leads, Good, Base
  <2>5. s \in Server BY DEF Good, Base
  <2>6. output \in Outputs /\ output # None BY <2>5, UsableIs
  <2>7. /\ c \in Server /\ c.tiled = b.tiled /\ c.region = output
        /\ c.evacuate = b.evacuate
        /\ c.at = b.at /\ c.regions = b.regions /\ c.adjusting = b.adjusting
        /\ c.input_mode = b.input_mode /\ c.axes = b.axes
        /\ c.output = b.output /\ c.last = b.last
        /\ c.fullscreen = b.fullscreen /\ c.maximized = b.maximized
        /\ c.pending = b.pending /\ c.current = b.current
    BY <2>4, <2>6 DEF Server
  <2> HIDE DEF c
  <2>8. Base(c)
    <3>1. c.regions /\ Usable(c, output)
      BY <2>4, <2>7 DEF Kin, Usable, Plugged
    <3>2. RegionsAre(c) BY <2>3, <2>7, <3>1 DEF RegionsAre
    <3>3. Base(b) BY <2>3 DEF Leads, Good
    <3> QED BY <2>7, <3>2, <3>3 DEF Base, ModesAre
  <2>9. Kin(b, c) BY <2>7 DEF Kin, Usable, Plugged
  <2>10. Kin(s, c) BY <2>4, <2>9, KinIsTransitive
  <2>11. Usable(c, c.output) BY <1>2, <2>10 DEF Kin
  <2>12. ~c.fullscreen /\ c.maximized = {} /\ c.tiled = {}
    BY <2>2, <2>3, <2>7 DEF SameAxes
  <2>13. Applies(c, ApplyRegion(c)) /\ Lands(ApplyRegion(c))
    BY <2>6, <2>7, <2>8, <2>11, <2>12, ApplyRegionGood
  <2> QED BY <2>1, <2>10, <2>12, <2>13, LeadsTransitive DEF Applies, SameAxes
<1> QED BY <1>1, <1>2

----------------------------------------------------------------------------
(* Moving and resizing by actions *)

\* The place that the policy gives
LEMMA PlaceByPolicyGood ==
  ASSUME NEW s, Good(s)
  PROVE LET t == PlaceByPolicy(s) IN Leads(s, t) /\ t.maximized = {} /\ Floating(t)
<1> DEFINE a == SetFullscreen(s, FALSE)
           b == Maximize(a, {})
           t == Untile(b)
<1>1. PlaceByPolicy(s) =
        IF Usable(t, t.output) /\ ~Empty(t.pending) THEN Move(t, t.at[t.output]) ELSE t
  BY DEF PlaceByPolicy
<1>2. Leads(s, a) /\ ~a.fullscreen BY SetFullscreenGood
<1> HIDE DEF a
<1>3. Leads(a, b) /\ b.fullscreen = a.fullscreen /\ b.maximized = {}
  BY <1>2, MaximizeGood DEF Leads
<1> HIDE DEF b
<1>4. Leads(b, t) /\ SameAxes(b, t) /\ ~Tiled(t) BY <1>2, <1>3, UntileGood DEF Leads
<1> HIDE DEF t
<1>5. Leads(s, t) /\ t.maximized = {} /\ Floating(t)
  BY <1>2, <1>3, <1>4, LeadsTransitive DEF Leads, SameAxes, Floating
<1>6. CASE Usable(t, t.output) /\ ~Empty(t.pending)
  <2>1. t \in Server BY <1>5 DEF Leads, Good, Base
  <2>2. t.at[t.output] \in Slots BY <1>6, <2>1, UsableIs
  <2>3. LET m == Move(t, t.at[t.output]) IN Leads(t, m) /\ SameState(t, m)
    BY <1>5, <2>2, MoveGood DEF Leads
  <2> QED BY <1>1, <1>5, <1>6, <2>3, LeadsTransitive, SameStateIs DEF Leads, SameState
<1>7. CASE ~(Usable(t, t.output) /\ ~Empty(t.pending))
  BY <1>1, <1>5, <1>7
<1> QED BY <1>6, <1>7

\* view_move_relative()
LEMMA MoveRelativeGood ==
  ASSUME NEW s, Good(s), NEW slot \in Slots
  PROVE LET t == MoveRelative(s, slot)
        IN  Leads(s, t) /\ (t = s \/ t.maximized = {}) /\ (t = s \/ Floating(t))
<1> DEFINE b == Maximize(s, {})
           t == Untile(b)
<1>1. CASE s.fullscreen
  <2>1. MoveRelative(s, slot) = s BY <1>1 DEF MoveRelative
  <2> QED BY <2>1, LeadsItself
<1>2. CASE ~s.fullscreen
  <2>1. MoveRelative(s, slot) = Move(t, slot) BY <1>2 DEF MoveRelative
  <2>2. Leads(s, b) /\ ~b.fullscreen /\ b.maximized = {} BY <1>2, MaximizeGood
  <2> HIDE DEF b
  <2>3. Leads(b, t) /\ SameAxes(b, t) /\ ~Tiled(t) BY <2>2, UntileGood DEF Leads
  <2> HIDE DEF t
  <2>4. LET m == Move(t, slot) IN Leads(t, m) /\ SameState(t, m)
    BY <2>3, MoveGood DEF Leads
  <2>5. Leads(s, t) BY <2>2, <2>3, LeadsTransitive DEF Leads
  <2>6. Floating(t) BY <2>2, <2>3 DEF Floating, SameAxes
  <2>7. Floating(Move(t, slot)) BY <2>4, <2>6, SameStateIs
  <2> QED
    BY <2>1, <2>2, <2>3, <2>4, <2>5, <2>7, LeadsTransitive DEF Leads, SameAxes, SameState
<1> QED BY <1>1, <1>2

\* A size that windows have
LEMMA ResizeGood ==
  ASSUME NEW s, Good(s), NEW g \in Boxes, ~Empty(g)
  PROVE LET t == MoveResize(s, g)
        IN  /\ Leads(s, t) /\ SameState(s, t) /\ ~Empty(t.pending)
            /\ ~s.fullscreen => Floating(t) \/ Still(s, t)
<1>1. LET t == MoveResize(s, g)
      IN  /\ Leads(s, t) /\ SameState(s, t)
          /\ t.pending.h = g.h /\ t.pending.v = g.v
  BY MoveResizeGood DEF Good
<1>2. LET t == MoveResize(s, g) IN ~s.fullscreen => Floating(t) \/ Still(s, t)
  BY MoveResizeStill DEF Good, Base
<1> QED BY <1>1, <1>2 DEF Empty

\* view_resize_relative()
LEMMA ResizeRelativeGood ==
  ASSUME NEW s, Good(s), NEW g \in Boxes, ~Empty(g)
  PROVE LET t == ResizeRelative(s, g)
        IN  Leads(s, t) /\ (t = s \/ t.maximized = {}) /\ (t = s \/ Floating(t))
<1> DEFINE m == MoveResize(s, g)
           t == SetUntiled(m)
<1>1. CASE s.fullscreen \/ s.maximized # {}
  <2>1. ResizeRelative(s, g) = s BY <1>1 DEF ResizeRelative
  <2> QED BY <2>1, LeadsItself
<1>2. CASE ~(s.fullscreen \/ s.maximized # {})
  <2>1. ResizeRelative(s, g) = t BY <1>2 DEF ResizeRelative
  <2>2. Leads(s, m) /\ SameState(s, m) /\ ~Empty(m.pending) BY ResizeGood
  <2> HIDE DEF m
  <2>3. Leads(m, t) /\ SameAxes(m, t) /\ ~Tiled(t) BY <2>2, SetUntiledIs DEF Leads, Good
  <2> HIDE DEF t
  <2>4. Floating(t) BY <1>2, <2>2, <2>3 DEF SameAxes, SameState, Floating
  <2> QED BY <1>2, <2>1, <2>2, <2>3, <2>4, LeadsTransitive DEF Leads, SameAxes, SameState
<1> QED BY <1>1, <1>2

\* A fullscreen window has the size of its output.
FullShown(s) == s.fullscreen => s.pending.h = "full" /\ s.pending.v = "full"

\* No window waits for a region while there is an output: it gets it, or is floating.
Rests(s) == Lost(s) => Plugged(s) = {}

\* view_move_to_edge(), to the next output
LEMMA MoveToEdgeGood ==
  ASSUME NEW s, Good(s), NEW edge
  PROVE LET t == MoveToEdge(s, edge)
        IN  /\ Leads(s, t) /\ (t = s \/ t.maximized = {})
            /\ FullShown(s) => t = s \/ Lands(t)
<1> DEFINE o == Adjacent(s, edge)
           u == SetUntiled(s)
           t == SetOutput(u, o)
<1>1. CASE ~Usable(s, s.output) \/ s.maximized # {} \/ o = None
  <2>1. MoveToEdge(s, edge) = s BY <1>1 DEF MoveToEdge
  <2> QED BY <2>1, LeadsItself
<1>2. CASE ~(~Usable(s, s.output) \/ s.maximized # {} \/ o = None)
  <2>1. MoveToEdge(s, edge) = Move(t, t.at[t.output]) BY <1>2 DEF MoveToEdge
  <2> HIDE DEF o
  <2>2. Leads(s, u) /\ SameAxes(s, u) /\ ~Tiled(u) /\ u.pending = s.pending
    BY SetUntiledIs DEF Good, PendingIs
  <2> HIDE DEF u
  <2>3. /\ Leads(u, t) /\ SameAxes(u, t) /\ t.pending = u.pending
        /\ t.tiled = u.tiled /\ t.region = u.region /\ t.evacuate = u.evacuate
    BY <2>2, SetOutputIs DEF Leads, Good
  <2> HIDE DEF t
  <2>4. Leads(s, t) BY <2>2, <2>3, LeadsTransitive DEF Leads
  <2>5. Usable(t, t.output) /\ t \in Server
    BY <1>2, <2>4 DEF Leads, Kin, Good, Base
  <2>6. t.at[t.output] \in Slots BY <2>5, UsableIs
  <2>7. LET m == Move(t, t.at[t.output]) IN Leads(t, m) /\ SameState(t, m)
    BY <2>4, <2>6, MoveGood DEF Leads
  <2>8. ASSUME FullShown(s) PROVE Lands(Move(t, t.at[t.output]))
    <3>1. ~Tiled(t) /\ t.fullscreen = s.fullscreen /\ t.maximized = {}
      BY <1>2, <2>2, <2>3 DEF Tiled, SameAxes
    <3>2. CASE ~s.fullscreen
      <4>1. Floating(t) BY <3>1, <3>2 DEF Floating
      <4> QED BY <2>7, <4>1, SameStateIs DEF Lands
    <3>3. CASE s.fullscreen
      <4> DEFINE g == [t.pending EXCEPT !.slot = t.at[t.output]]
      <4>1. t.pending \in Boxes BY <2>5 DEF Server
      <4>2. g \in Boxes /\ g = FullscreenBox(t.at[t.output]) /\ g.slot = t.at[t.output]
        BY <2>2, <2>3, <2>6, <2>8, <3>3, <4>1, BoxesAre DEF FullscreenBox, FullShown
      <4>3. g = SpecialBox(t) BY <3>1, <3>3, <4>2 DEF SpecialBox
      <4>4. ~Floating(t) /\ ~Lost(t) BY <3>1, <3>3 DEF Floating, Lost
      <4>5. Move(t, t.at[t.output]) = MoveResize(t, g) BY DEF Move
      <4> HIDE DEF g
      <4> QED BY <2>5, <4>2, <4>3, <4>4, <4>5, MoveResizeFits
    <3> QED BY <3>2, <3>3
  <2> QED
    BY <1>2, <2>1, <2>2, <2>3, <2>4, <2>7, <2>8, LeadsTransitive
       DEF Leads, SameAxes, SameState
<1> QED BY <1>1, <1>2

\* view_move_to_output()
LEMMA MoveToOutputGood ==
  ASSUME NEW s, Good(s), NEW output \in Plugged(s)
  PROVE LET t == MoveToOutput(s, output) IN Keeps(s, t) /\ (Rests(s) => Lands(t))
<1> DEFINE t == SetOutput(s, output)
           p == [t EXCEPT !.pending.slot = t.at[output]]
           r == MoveToOutput(s, output)
<1>1. Usable(s, output) BY DEF Usable
<1>2. /\ Leads(s, t) /\ SameAxes(s, t) /\ t.pending = s.pending
      /\ Usable(t, t.output) /\ t.output = output
      /\ t.tiled = s.tiled /\ t.evacuate = s.evacuate
  BY <1>1, SetOutputIs DEF Leads, Good
<1>3. r = IF Floating(t) THEN PlaceByPolicy(p)
          ELSE IF t.fullscreen \/ t.maximized # {} \/ t.tiled # {} THEN ApplySpecial(t)
          ELSE IF t.region # None THEN SnapToRegion(t, output)
          ELSE t
  BY DEF MoveToOutput
<1> HIDE DEF t, r
<1>4. Good(t) /\ t \in Server BY <1>2 DEF Leads, Good, Base
<1>5. SUFFICES Leads(t, r) /\ (Full(s) /\ Single(r) => Full(r)) /\ (Rests(s) => Lands(r))
  BY <1>2, LeadsTransitive DEF Leads, Keeps, r
<1>6. CASE Floating(t)
  <2> DEFINE q == [t.pending EXCEPT !.slot = t.at[output]]
  <2>1. t.at[output] \in Slots BY <1>2, <1>4, UsableIs
  <2>2. t.pending \in Boxes BY <1>4 DEF Server
  <2>3. q \in Boxes /\ q.h = t.pending.h /\ q.v = t.pending.v BY <2>1, <2>2, BoxesAre
  <2>4. p = [t EXCEPT !.pending = q] BY <1>4 DEF Server
  <2> HIDE DEF q
  <2>5. /\ p \in Server /\ p.tiled = t.tiled /\ p.region = t.region
        /\ p.evacuate = t.evacuate
        /\ p.at = t.at /\ p.regions = t.regions /\ p.adjusting = t.adjusting
        /\ p.input_mode = t.input_mode /\ p.axes = t.axes
        /\ p.output = t.output /\ p.last = t.last /\ p.natural = t.natural
        /\ p.fullscreen = t.fullscreen /\ p.maximized = t.maximized
        /\ p.pending = q /\ p.current = t.current /\ p.awaiting = t.awaiting
    BY <1>4, <2>3, <2>4 DEF Server
  <2> HIDE DEF p
  <2>6. Base(p)
    BY <1>4, <2>5 DEF Good, Base, RegionsAre, ModesAre, Usable, Plugged
  <2>7. NaturalIs(p) /\ PendingIs(p)
    BY <1>4, <2>3, <2>5 DEF Good, NaturalIs, PendingIs, Tiled, Empty
  <2>8. Kin(t, p) BY <2>5 DEF Kin, Usable, Plugged
  <2>9. LET x == PlaceByPolicy(p) IN Leads(p, x) /\ x.maximized = {} /\ Floating(x)
    BY <2>6, <2>7, PlaceByPolicyGood DEF Good
  <2>10. r = PlaceByPolicy(p) BY <1>3, <1>6
  <2> QED BY <2>8, <2>9, <2>10, LeadsTransitive DEF Full, Lands
<1>7. CASE ~Floating(t) /\ (t.fullscreen \/ t.maximized # {} \/ t.tiled # {})
  <2>1. r = ApplySpecial(t) BY <1>3, <1>7
  <2>2. Empty(t.pending) => ~Tiled(t) BY <1>4 DEF Good, PendingIs
  <2>3. Applies(t, r) /\ (Single(t) => Full(r)) /\ Lands(r)
    BY <1>2, <1>4, <1>7, <2>1, <2>2, ApplySpecialGood DEF Good
  <2>4. Single(r) => Single(t) BY <2>3 DEF Applies, SameAxes, Single
  <2> QED BY <2>3, <2>4 DEF Applies
<1>8. CASE /\ ~Floating(t) /\ ~(t.fullscreen \/ t.maximized # {} \/ t.tiled # {})
           /\ t.region # None
  <2>1. r = SnapToRegion(t, output) BY <1>3, <1>8
  <2>2. t.regions BY <1>4, <1>8 DEF Good, Base, RegionsAre
  <2>3. Leads(t, r) /\ (r = t \/ r.maximized = {}) /\ Lands(r)
    BY <1>2, <1>4, <1>8, <2>1, <2>2, SnapToRegionGood
  <2> QED BY <1>8, <2>3 DEF Full
<1>9. CASE /\ ~Floating(t) /\ ~(t.fullscreen \/ t.maximized # {} \/ t.tiled # {})
           /\ t.region = None
  <2>1. r = t BY <1>3, <1>9
  <2>2. Lost(t) BY <1>9 DEF Lost, Floating, Tiled
  <2>3. Lost(s) BY <1>2, <2>2 DEF Lost, SameAxes
  <2>4. ~Rests(s) BY <2>3 DEF Rests
  <2> QED BY <1>4, <1>9, <2>1, <2>4, LeadsItself DEF Full
<1> QED BY <1>6, <1>7, <1>8, <1>9

\* UnSnap
LEMMA UnSnapGood ==
  ASSUME NEW s, Good(s)
  PROVE LET t == UnSnap(s)
        IN  Leads(s, t) /\ (t = s \/ t.maximized = {}) /\ (t = s \/ Floating(t))
<1> DEFINE m == Maximize(s, {})
           t == ApplyNatural(SetUntiled(m))
<1>1. CASE s.fullscreen \/ Floating(s)
  <2>1. UnSnap(s) = s BY <1>1 DEF UnSnap
  <2> QED BY <2>1, LeadsItself
<1>2. CASE ~(s.fullscreen \/ Floating(s))
  <2>1. UnSnap(s) = t BY <1>2 DEF UnSnap
  <2>2. Leads(s, m) /\ ~m.fullscreen /\ m.maximized = {} BY <1>2, MaximizeGood
  <2> HIDE DEF m
  <2>3. Leads(m, t) /\ SameAxes(m, t) /\ ~Tiled(t) BY <2>2, ApplyUntiledGood DEF Leads
  <2> HIDE DEF t
  <2> QED BY <2>1, <2>2, <2>3, LeadsTransitive DEF Leads, SameAxes, Floating
<1> QED BY <1>1, <1>2

----------------------------------------------------------------------------
(* The pointer *)

\* interactive_begin()
LEMMA BeginMoveGood ==
  ASSUME NEW s, Good(s), s.input_mode = "passthrough"
  PROVE LET t == BeginMove(s)
        IN  Leads(s, t) /\ SameAxes(s, t) /\ SameTile(s, t) /\ t.pending = s.pending
<1> DEFINE n == StoreNatural(s)
           t == [n EXCEPT !.input_mode = "move"]
<1>1. CASE s.fullscreen
  <2>1. BeginMove(s) = s BY <1>1 DEF BeginMove
  <2> QED BY <2>1, LeadsItself DEF SameTile
<1>2. CASE ~s.fullscreen
  <2>1. BeginMove(s) = t BY <1>2 DEF BeginMove
  <2>2. /\ Base(n) /\ Kin(s, n) /\ SameAxes(s, n) /\ NaturalIs(n) /\ PendingIs(n)
        /\ n.axes = s.axes /\ n.pending = s.pending /\ SameTile(s, n)
    BY StoreNaturalIs DEF Good
  <2> HIDE DEF n
  <2>3. n \in Server BY <2>2 DEF Base
  <2>4. /\ t \in Server /\ t.tiled = n.tiled /\ t.region = n.region
        /\ t.evacuate = n.evacuate
        /\ t.at = n.at /\ t.regions = n.regions /\ t.adjusting = n.adjusting
        /\ t.input_mode = "move" /\ t.axes = n.axes /\ t.awaiting = n.awaiting
        /\ t.output = n.output /\ t.last = n.last /\ t.natural = n.natural
        /\ t.fullscreen = n.fullscreen /\ t.maximized = n.maximized
        /\ t.pending = n.pending /\ t.current = n.current
    BY <2>3 DEF Server
  <2> HIDE DEF t
  <2>5. n.axes = {} BY <2>2 DEF Good, Base, ModesAre
  <2>6. ModesAre(t) BY <1>2, <2>2, <2>4, <2>5 DEF ModesAre, SameAxes
  <2>7. RegionsAre(t) BY <2>2, <2>4 DEF Base, RegionsAre, Usable, Plugged
  <2>8. Base(t) BY <2>2, <2>4, <2>6, <2>7 DEF Base
  <2>9. NaturalIs(t) /\ PendingIs(t) BY <2>2, <2>4 DEF NaturalIs, PendingIs, Tiled
  <2>10. Kin(n, t) BY <2>4 DEF Kin, Usable, Plugged
  <2>11. Kin(s, t) BY <2>2, <2>10, KinIsTransitive
  <2>12. SameTile(s, t) BY <2>2, <2>4 DEF SameTile
  <2> QED BY <2>1, <2>2, <2>4, <2>8, <2>9, <2>11, <2>12 DEF Leads, Good, SameAxes
<1> QED BY <1>1, <1>2

LEMMA BeginResizeGood ==
  ASSUME NEW s, Good(s), NEW axes \in SUBSET Axes
  PROVE LET t == BeginResize(s, axes)
        IN  /\ Leads(s, t) /\ t.maximized \subseteq s.maximized /\ t.pending = s.pending
            /\ t = s \/ (t.input_mode = "resize" /\ ~t.fullscreen /\ ~Tiled(t))
<1> DEFINE m == SetMaximized(s, s.maximized \ axes)
           u == SetUntiled(m)
           t == [u EXCEPT !.input_mode = "resize", !.axes = axes]
<1>1. CASE s.fullscreen
  <2>1. BeginResize(s, axes) = s BY <1>1 DEF BeginResize
  <2> QED BY <2>1, LeadsItself
<1>2. CASE ~s.fullscreen
  <2>1. BeginResize(s, axes) = t BY <1>2 DEF BeginResize
  <2>2. s.maximized \ axes \in SUBSET Axes BY DEF Good, Base, Server
  <2>3. /\ Base(m) /\ Kin(s, m) /\ m.fullscreen = s.fullscreen
        /\ m.maximized = s.maximized \ axes /\ m.pending = s.pending
    BY <2>2, SetMaximizedIs DEF Good
  <2> HIDE DEF m
  <2>4. Leads(m, u) /\ SameAxes(m, u) /\ u.pending = m.pending /\ ~Tiled(u)
    BY <1>2, <2>3, SetUntiledIs
  <2> HIDE DEF u
  <2>5. u \in Server /\ Good(u) BY <2>4 DEF Leads, Good, Base
  <2>6. /\ t \in Server /\ t.tiled = u.tiled /\ t.region = u.region
        /\ t.evacuate = u.evacuate
        /\ t.at = u.at /\ t.regions = u.regions /\ t.adjusting = u.adjusting
        /\ t.input_mode = "resize" /\ t.axes = axes /\ t.awaiting = u.awaiting
        /\ t.output = u.output /\ t.last = u.last /\ t.natural = u.natural
        /\ t.fullscreen = u.fullscreen /\ t.maximized = u.maximized
        /\ t.pending = u.pending /\ t.current = u.current
    BY <2>5 DEF Server
  <2> HIDE DEF t
  <2>7. ModesAre(t) BY <1>2, <2>3, <2>4, <2>6 DEF ModesAre, SameAxes
  <2>8. RegionsAre(t) BY <2>5, <2>6 DEF Good, Base, RegionsAre, Usable, Plugged
  <2>9. Base(t) BY <2>5, <2>6, <2>7, <2>8 DEF Good, Base
  <2>10. NaturalIs(t) /\ PendingIs(t)
    BY <2>5, <2>6 DEF Good, NaturalIs, PendingIs, Tiled
  <2>11. Kin(u, t) BY <2>6 DEF Kin, Usable, Plugged
  <2>12. Kin(s, t)
    <3>1. Kin(m, t) BY <2>4, <2>11, KinIsTransitive DEF Leads
    <3> QED BY <2>3, <3>1, KinIsTransitive
  <2>13. ~t.fullscreen /\ ~Tiled(t) BY <1>2, <2>3, <2>4, <2>6 DEF SameAxes, Tiled
  <2> QED BY <2>1, <2>3, <2>4, <2>6, <2>9, <2>10, <2>12, <2>13 DEF Leads, Good, SameAxes
<1> QED BY <1>1, <1>2

\* process_cursor_move(): what is dragged is not fullscreen.
LEMMA DragGood ==
  ASSUME NEW s, Good(s), s.input_mode # "passthrough", NEW slot \in Slots
  PROVE LET t == Drag(s, slot) IN Leads(s, t) /\ (Full(s) => Full(t)) /\ Floating(t)
<1> DEFINE m == SetMaximized(s, {})
           t == SetUntiled(m)
           g == Box(slot, t.natural)
<1>1. CASE Floating(s)
  <2>1. Drag(s, slot) = Move(s, slot) BY <1>1 DEF Drag
  <2>2. LET x == Move(s, slot) IN Leads(s, x) /\ SameState(s, x) BY MoveGood
  <2>3. Floating(Move(s, slot)) BY <1>1, <2>2, SameStateIs
  <2> QED BY <1>1, <2>1, <2>2, <2>3 DEF Full, Floating, SameState
<1>2. CASE ~Floating(s)
  <2>1. Drag(s, slot) = MoveResize(t, g) BY <1>2 DEF Drag
  <2>2. ~s.fullscreen BY DEF Good, Base, ModesAre
  <2>3. /\ Base(m) /\ Kin(s, m) /\ m.fullscreen = s.fullscreen /\ m.maximized = {}
    BY SetMaximizedIs DEF Good
  <2> HIDE DEF m
  <2>4. Leads(m, t) /\ SameAxes(m, t) /\ ~Tiled(t) /\ t.awaiting
    BY <2>2, <2>3, SetUntiledIs
  <2> HIDE DEF t
  <2>5. t \in Server BY <2>4 DEF Leads, Good, Base
  <2>6. t.natural \in Sizes BY <2>5 DEF Server
  <2>7. g \in Boxes BY <2>6 DEF Boxes
  <2> HIDE DEF g
  <2>8. LET x == MoveResize(t, g) IN Leads(t, x) /\ SameState(t, x)
    BY <2>2, <2>3, <2>4, <2>7, MoveResizeGood DEF Leads, Good, SameAxes
  <2>9. Kin(s, t) BY <2>3, <2>4, KinIsTransitive DEF Leads
  <2>10. Floating(t) BY <2>2, <2>3, <2>4 DEF Floating, SameAxes
  <2>11. Floating(MoveResize(t, g)) BY <2>8, <2>10, SameStateIs
  <2> QED
    BY <2>1, <2>3, <2>4, <2>8, <2>9, <2>11, LeadsTransitive DEF Full, SameAxes, SameState
<1> QED BY <1>1, <1>2

\* What is not floating moves, but keeps its size.
LEMMA DragResistedGood ==
  ASSUME NEW s, Good(s), NEW slot \in Slots
  PROVE LET t == DragResisted(s, slot)
        IN  Leads(s, t) /\ (Full(s) => Full(t)) /\ (t = s \/ Still(s, t))
<1> DEFINE k == IF s.maximized = {"v"} THEN slot ELSE s.current.slot
<1>1. CASE Floating(s)
  <2>1. DragResisted(s, slot) = s BY <1>1 DEF DragResisted
  <2> QED BY <2>1, LeadsItself
<1>2. CASE ~Floating(s)
  <2>1. DragResisted(s, slot) = Move(s, k) BY <1>2 DEF DragResisted
  <2>2. s.current \in Boxes BY DEF Good, Base, Server
  <2>3. k \in Slots BY <2>2, BoxesAre
  <2> HIDE DEF k
  <2>4. LET x == Move(s, k)
        IN  /\ Leads(s, x) /\ SameState(s, x)
            /\ x.pending.h = s.pending.h /\ x.pending.v = s.pending.v
            /\ (Floating(s) /\ Floating(x)) \/ Still(s, x)
    BY <2>3, MoveGood
  <2> QED BY <1>2, <2>1, <2>4 DEF Full, SameState, Empty
<1> QED BY <1>1, <1>2

\* process_cursor_resize() starts from what is shown, which has a size.
LEMMA DragEdgeGood ==
  ASSUME NEW s, Good(s), ~Empty(s.current), NEW g, g.h \in Widths, g.v \in Heights
  PROVE LET t == DragEdge(s, g)
        IN  /\ Leads(s, t) /\ (Full(s) => Full(t))
            /\ ~s.fullscreen => Floating(t) \/ Still(s, t)
<1> DEFINE b == [ slot |-> s.current.slot,
                  h |-> IF "h" \in s.axes THEN g.h ELSE s.current.h,
                  v |-> IF "v" \in s.axes THEN g.v ELSE s.current.v ]
<1>1. s.current \in Boxes BY DEF Good, Base, Server
<1>2. b \in Boxes BY <1>1, BoxesAre
<1>3. ~Empty(b) BY SizesDiffer DEF Empty
<1>4. DragEdge(s, g) = MoveResize(s, b) BY DEF DragEdge
<1> HIDE DEF b
<1>5. LET x == MoveResize(s, b)
      IN  /\ Leads(s, x) /\ ~Empty(x.pending)
          /\ ~s.fullscreen => Floating(x) \/ Still(s, x)
  BY <1>2, <1>3, ResizeGood
<1> QED BY <1>4, <1>5 DEF Full

\* snap_to_edge(), for an output in use
LEMMA DropOnEdgeGood ==
  ASSUME NEW s, Good(s), NEW o \in Plugged(s), NEW edge \in SnapEdges
  PROVE LET t == DropOnEdge(s, o, edge)
        IN  Leads(s, t) /\ (Full(s) => Full(t)) /\ (t = s \/ Lands(t))
<1> DEFINE t == SetOutput(s, o)
           r == DropOnEdge(s, o, edge)
<1>1. CASE ~Floating(s)
  <2>1. DropOnEdge(s, o, edge) = s BY <1>1 DEF DropOnEdge
  <2> QED BY <2>1, LeadsItself
<1>2. CASE Floating(s)
  <2>1. Usable(s, o) BY DEF Usable
  <2>2. /\ Leads(s, t) /\ SameAxes(s, t) /\ t.pending = s.pending /\ Usable(t, t.output)
        /\ t.tiled = s.tiled /\ t.region = s.region /\ t.evacuate = s.evacuate
    BY <2>1, SetOutputIs DEF Leads, Good
  <2>3. r = Maximize(t, Axes) \/ r = SnapToEdge(t, edge, FALSE, FALSE)
    BY <1>2 DEF DropOnEdge
  <2> HIDE DEF t, r
  <2>4. LET x == Maximize(t, Axes)
        IN  Leads(t, x) /\ (Full(t) => Full(x)) /\ (x = t \/ Lands(x) \/ Stays(t, x))
    BY <2>2, MaximizeGood DEF Leads
  <2>5. LET x == SnapToEdge(t, edge, FALSE, FALSE)
        IN  Leads(t, x) /\ (x = t \/ x.maximized = {}) /\ (x = t \/ Lands(x))
    BY <2>2, SnapToEdgeGood DEF Leads
  <2>6. Lands(t) BY <1>2, <2>2 DEF Lands, Floating, Tiled, SameAxes
  <2>7. Leads(t, r) /\ (Full(t) => Full(r)) /\ Lands(r)
    BY <2>2, <2>3, <2>4, <2>5, <2>6 DEF Full, Stays
  <2>8. Full(s) => Full(t) BY <2>2 DEF Full, SameAxes
  <2> QED BY <2>2, <2>7, <2>8, LeadsTransitive DEF Leads, r
<1> QED BY <1>1, <1>2

\* snap_to_region()
LEMMA DropOnRegionGood ==
  ASSUME NEW s, Good(s), NEW o \in Plugged(s)
  PROVE LET t == DropOnRegion(s, o)
        IN  Leads(s, t) /\ (Full(s) => Full(t)) /\ (t = s \/ Lands(t))
<1>1. CASE ~(Floating(s) /\ s.regions)
  <2>1. DropOnRegion(s, o) = s BY <1>1 DEF DropOnRegion
  <2> QED BY <2>1, LeadsItself
<1>2. CASE Floating(s) /\ s.regions
  <2>1. DropOnRegion(s, o) = SnapToRegion(s, o) BY <1>2 DEF DropOnRegion
  <2>2. LET t == SnapToRegion(s, o)
        IN  Leads(s, t) /\ (t = s \/ t.maximized = {}) /\ (t = s \/ Lands(t))
    BY <1>2, SnapToRegionGood DEF Usable
  <2> QED BY <2>1, <2>2 DEF Full
<1> QED BY <1>1, <1>2

\* interactive_finish() ends with interactive_cancel().
LEMMA CancelGood ==
  ASSUME NEW s, NEW t, Leads(s, t), Full(s) => Full(t)
  PROVE /\ Leads(s, Cancel(t)) /\ (Full(s) => Full(Cancel(t)))
        /\ Still(t, Cancel(t)) /\ (Lands(t) => Lands(Cancel(t)))
<1> DEFINE c == Cancel(t)
<1>1. /\ Base(c) /\ Kin(t, c) /\ SameAxes(t, c) /\ NaturalIs(c) /\ PendingIs(c)
      /\ c.pending = t.pending /\ c.natural = t.natural /\ SameTile(t, c)
      /\ Tiled(c) = Tiled(t)
  BY CancelIs DEF Leads, Good
<1> HIDE DEF c
<1>2. Still(t, c) BY <1>1 DEF Still, State, Remembers, SameAxes, SameTile
<1>3. SpecialBox(c) = SpecialBox(t)
  BY <1>1 DEF SpecialBox, MaximizedBox, RegionBox, SameAxes, SameTile
<1>4. \A o : Usable(c, o) <=> Usable(t, o) BY <1>1, UsableSame DEF SameTile
<1>5. (Floating(c) <=> Floating(t)) /\ (Lost(c) <=> Lost(t))
  BY <1>1 DEF Floating, Lost, SameAxes, SameTile
<1>6. Lands(t) => Lands(c) BY <1>1, <1>3, <1>4, <1>5 DEF Lands, Fits, SameTile, Kin
<1>7. Leads(s, c) /\ (Full(s) => Full(c))
  BY <1>1, KinIsTransitive DEF Leads, Good, Full, SameAxes
<1> QED BY <1>2, <1>6, <1>7 DEF c

----------------------------------------------------------------------------
(* The client *)

\* The placement of what the client has answered
LEMMA CommittedIs ==
  ASSUME NEW s, Base(s), NaturalIs(s), ~Empty(s.pending)
  PROVE LET t == Committed(s)
        IN  /\ Leads(s, t) /\ SameState(s, t) /\ t.last = s.last
            /\ ~Empty(t.current)
            /\ t.pending.h = s.pending.h /\ t.pending.v = s.pending.v
            /\ Floating(s) /\ Plugged(s) # {} => Usable(t, t.output)
            /\ Usable(s, s.output) /\ s.pending.slot = s.at[s.output] =>
                 t.output = s.output /\ t.pending = s.pending
            /\ Floating(t) \/ Still(s, t)
<1> DEFINE u == [s EXCEPT !.current = s.pending, !.awaiting = FALSE]
           c == CenterFullscreen(u)
           m == Moved(c)
           t == [m EXCEPT !.pending = m.current]
<1>1. s \in Server BY DEF Base
<1>2. Committed(s) = t BY DEF Committed
<1>3. u \in Server /\ SameState(s, u) /\ u.last = s.last /\ u.output = s.output
      /\ u.pending = s.pending /\ u.current = s.pending
  BY <1>1 DEF Server, SameState
<1> HIDE DEF u
<1>4. /\ OnOutput(u, c) /\ c.output = u.output
      /\ c.current.h = u.current.h /\ c.current.v = u.current.v
      /\ Usable(u, u.output) /\ u.current.slot = u.at[u.output] => c.current = u.current
  BY <1>3, CenterIs
<1> HIDE DEF c
<1>5. /\ OnOutput(c, m) /\ m.current = c.current
      /\ Usable(c, c.output) /\ c.current.slot = c.at[c.output] => m.output = c.output
      /\ Floating(c) /\ Plugged(c) # {} => Usable(m, m.output)
      /\ ~Floating(c) => m = c
  BY <1>4, MovedIs DEF OnOutput
<1> HIDE DEF m
<1>6. m \in Server /\ SameState(s, m) /\ m.last = s.last
  BY <1>3, <1>4, <1>5 DEF OnOutput, SameState
<1>7. /\ t \in Server /\ SameState(m, t) /\ t.last = m.last /\ t.output = m.output
      /\ t.pending = m.current /\ t.current = m.current
  BY <1>6 DEF Server, SameState
<1> HIDE DEF t
<1>8. SameState(s, t) /\ t.last = s.last BY <1>6, <1>7 DEF SameState
<1>9. /\ t.pending.h = s.pending.h /\ t.pending.v = s.pending.v
      /\ t.current.h = s.pending.h /\ t.current.v = s.pending.v
  BY <1>3, <1>4, <1>5, <1>7
<1>10. ~Empty(t.pending) /\ ~Empty(t.current) BY <1>9 DEF Empty
<1>11. /\ \A o : Usable(t, o) <=> Usable(s, o)
       /\ \A o : Usable(m, o) <=> Usable(s, o)
       /\ \A o : Usable(c, o) <=> Usable(s, o)
       /\ \A o : Usable(u, o) <=> Usable(s, o)
  BY <1>3, <1>4, <1>6, <1>8, UsableSame DEF OnOutput, SameState
<1>12. Base(t)
  <2>1. RegionsAre(t) BY <1>8, <1>11 DEF Base, RegionsAre, SameState
  <2>2. ModesAre(t) BY <1>8 DEF Base, ModesAre, SameState
  <2> QED BY <1>7, <2>1, <2>2 DEF Base
<1>13. NaturalIs(t) BY <1>8 DEF NaturalIs, SameState, Tiled
<1>14. PendingIs(t) BY <1>10 DEF PendingIs
<1>15. t.output = s.output \/ Usable(t, t.output)
  BY <1>3, <1>4, <1>5, <1>7, <1>11 DEF OnOutput
<1>16. Kin(s, t) BY <1>8, <1>10, <1>11, <1>15 DEF Kin, SameState
<1>17. Floating(s) /\ Plugged(s) # {} => Usable(t, t.output)
  <2>1. Floating(s) <=> Floating(c)
    BY <1>3, <1>4 DEF OnOutput, SameState, Floating, Tiled
  <2>2. Plugged(s) = Plugged(c) BY <1>3, <1>4 DEF OnOutput, SameState, Plugged
  <2> QED BY <1>5, <1>7, <1>11, <2>1, <2>2
<1>18. ASSUME Usable(s, s.output), s.pending.slot = s.at[s.output]
       PROVE t.output = s.output /\ t.pending = s.pending
  <2>1. c.current = s.pending /\ c.output = s.output
    BY <1>3, <1>4, <1>11, <1>18 DEF SameState
  <2>2. Usable(c, c.output) /\ c.current.slot = c.at[c.output]
    BY <1>3, <1>4, <1>11, <1>18, <2>1 DEF OnOutput, SameState
  <2> QED BY <1>5, <1>7, <2>1, <2>2
<1>19. Floating(t) \/ Still(s, t)
  <2>1. CASE Floating(s) BY <1>8, <2>1, SameStateIs
  <2>2. CASE ~Floating(s)
    <3>1. ~Floating(c) BY <1>3, <1>4, <2>2 DEF OnOutput, SameState, Floating, Tiled
    <3>2. t.output = s.output BY <1>3, <1>4, <1>5, <1>7, <3>1
    <3>3. State(t) = State(s) BY <1>8, <3>2 DEF State, SameState
    <3> QED BY <1>8, <1>9, <3>3 DEF Still, Remembers
  <2> QED BY <2>1, <2>2
<1> QED
  BY <1>2, <1>8, <1>9, <1>10, <1>12, <1>13, <1>14, <1>16, <1>17, <1>18, <1>19
     DEF Leads, Good

\* A new size of the client, which has one.
LEMMA NewPending ==
  ASSUME NEW s, Base(s), NEW g \in Boxes, ~Empty(g)
  PROVE LET t == [s EXCEPT !.pending = g]
        IN  /\ Base(t) /\ Kin(s, t) /\ SameState(s, t)
            /\ t.pending = g /\ t.output = s.output /\ t.last = s.last
<1> DEFINE t == [s EXCEPT !.pending = g]
<1>1. s \in Server BY DEF Base
<1>2. /\ t \in Server /\ SameState(s, t) /\ t.output = s.output /\ t.last = s.last
      /\ t.pending = g /\ t.current = s.current
  BY <1>1 DEF Server, SameState
<1> HIDE DEF t
<1>3. Base(t) BY <1>2 DEF Base, RegionsAre, ModesAre, SameState, Usable, Plugged
<1>4. Kin(s, t) BY <1>2 DEF Kin, SameState, Usable, Plugged
<1> QED BY <1>2, <1>3, <1>4 DEF t

\* set_initial_position() keeps the size that the client has chosen.
LEMMA SetInitialPositionIs ==
  ASSUME NEW s, Base(s), ~s.adjusting, ~Empty(s.pending), NEW slot \in Slots
  PROVE LET t == SetInitialPosition(s, slot)
        IN  Base(t) /\ Kin(s, t) /\ SameState(s, t) /\ ~Empty(t.pending)
<1> DEFINE g == IF s.input_mode = "move" THEN [s.pending EXCEPT !.slot = slot]
                ELSE AdjustFloating(s, s.pending)
           u == [s EXCEPT !.pending = g]
           v == SaveLastPlacement(u)
<1>1. s \in Server BY DEF Base
<1>2. CASE ~Floating(s)
  <2>1. SetInitialPosition(s, slot) = s BY <1>2 DEF SetInitialPosition
  <2> QED BY <2>1 DEF Kin, SameState
<1>3. CASE Floating(s)
  <2>1. s.pending \in Boxes BY <1>1 DEF Server
  <2>2. Usable(s, s.output) => s.at[s.output] \in Slots BY <1>1, UsableIs
  <2>3. g \in Boxes /\ g.h = s.pending.h /\ g.v = s.pending.v
    BY <2>1, <2>2, BoxesAre DEF AdjustFloating
  <2>4. SetInitialPosition(s, slot) = v
    <3> DEFINE w == IF s.input_mode = "move" THEN [s EXCEPT !.pending.slot = slot]
                    ELSE [s EXCEPT !.pending = AdjustFloating(s, s.pending)]
    <3>1. w = u BY <1>1 DEF Server
    <3>2. SetInitialPosition(s, slot) = SaveLastPlacement(w)
      BY <1>1, <1>3 DEF SetInitialPosition, Server
    <3> HIDE DEF w, u
    <3> QED BY <3>1, <3>2
  <2> HIDE DEF g
  <2>5. ~Empty(g) BY <2>3 DEF Empty
  <2>6. Base(u) /\ Kin(s, u) /\ SameState(s, u) /\ u.pending = g
    BY <2>3, <2>5, NewPending
  <2> HIDE DEF u
  <2>7. /\ v \in Server /\ SameState(u, v) /\ v.output = u.output
        /\ v.pending = u.pending /\ v.current = u.current
        /\ v.last = u.last \/ Usable(v, v.output)
    BY <2>6, SaveIs DEF Base
  <2> HIDE DEF v
  <2>8. Base(v)
    BY <2>6, <2>7 DEF Base, RegionsAre, ModesAre, SameState, Usable, Plugged
  <2>9. Kin(u, v) BY <2>6, <2>7 DEF Kin, SameState, Usable, Plugged
  <2>10. SameState(s, v) BY <2>6, <2>7 DEF SameState
  <2> QED BY <2>4, <2>5, <2>6, <2>7, <2>8, <2>9, <2>10, KinIsTransitive
<1> QED BY <1>2, <1>3

\* handle_commit(): the client has a size from then on.
LEMMA CommitGood ==
  ASSUME NEW s, Good(s), ~s.adjusting,
         NEW w \in Widths, NEW h \in Heights, NEW slot \in Slots
  PROVE LET t == Commit(s, w, h, slot)
        IN  /\ Leads(s, t) /\ SameState(s, t) /\ ~Empty(t.current) /\ ~Empty(t.pending)
            /\ Floating(s) /\ Plugged(s) # {} => Usable(t, t.output)
<1>1. ASSUME NEW c, Base(c), Kin(s, c), SameState(s, c), ~Empty(c.pending)
      PROVE LET t == Committed(c)
            IN  /\ Leads(s, t) /\ SameState(s, t) /\ ~Empty(t.current) /\ ~Empty(t.pending)
                /\ Floating(s) /\ Plugged(s) # {} => Usable(t, t.output)
  <2> DEFINE t == Committed(c)
  <2>1. (Floating(c) <=> Floating(s)) /\ Plugged(c) = Plugged(s) /\ NaturalIs(c)
    BY <1>1, SameStateIs DEF Good
  <2>2. /\ Leads(c, t) /\ SameState(c, t) /\ ~Empty(t.current)
        /\ t.pending.h = c.pending.h /\ t.pending.v = c.pending.v
        /\ Floating(c) /\ Plugged(c) # {} => Usable(t, t.output)
    BY <1>1, <2>1, CommittedIs
  <2> HIDE DEF t
  <2>3. ~Empty(t.pending) BY <1>1, <2>2 DEF Empty
  <2>4. SameState(s, t) BY <1>1, <2>2 DEF SameState
  <2> QED BY <1>1, <2>1, <2>2, <2>3, <2>4, LeadsTransitive DEF t
<1>2. CASE ~Empty(s.pending)
  <2>1. Commit(s, w, h, slot) = Committed(s) BY <1>2 DEF Commit
  <2>2. Kin(s, s) /\ SameState(s, s) BY DEF Kin, SameState
  <2> QED BY <1>1, <1>2, <2>1, <2>2 DEF Good
<1>3. CASE Empty(s.pending)
  <2> DEFINE g == [s.pending EXCEPT !.h = w, !.v = h]
             u == [s EXCEPT !.pending = g]
             c == SetInitialPosition(u, slot)
  <2>1. s \in Server /\ s.pending \in Boxes BY DEF Good, Base, Server
  <2>2. g \in Boxes /\ g.h = w /\ g.v = h BY <2>1, BoxesAre
  <2>3. ~Empty(g) BY <2>2, SizesDiffer DEF Empty
  <2>4. Commit(s, w, h, slot) = Committed(c)
    <3> DEFINE x == [s EXCEPT !.pending.h = w, !.pending.v = h]
    <3>1. x = u BY <2>1 DEF Server
    <3>2. Commit(s, w, h, slot) = Committed(SetInitialPosition(x, slot))
      BY <1>3 DEF Commit
    <3> HIDE DEF x, u
    <3> QED BY <3>1, <3>2
  <2> HIDE DEF g
  <2>5. Base(u) /\ Kin(s, u) /\ SameState(s, u) /\ u.pending = g
    BY <2>2, <2>3, NewPending DEF Good
  <2> HIDE DEF u
  <2>6. Base(c) /\ Kin(u, c) /\ SameState(u, c) /\ ~Empty(c.pending)
    BY <2>3, <2>5, SetInitialPositionIs DEF SameState
  <2> HIDE DEF c
  <2>7. Kin(s, c) /\ SameState(s, c) BY <2>5, <2>6, KinIsTransitive DEF SameState
  <2> QED BY <1>1, <2>4, <2>6, <2>7
<1> QED BY <1>2, <1>3

\* A client that resizes itself
LEMMA ResizedGood ==
  ASSUME NEW s, Good(s), NEW w \in Widths, NEW h \in Heights
  PROVE LET t == Resized(s, w, h)
        IN  /\ Leads(s, t) /\ SameState(s, t) /\ ~Empty(t.current) /\ ~Empty(t.pending)
            /\ Floating(s) /\ Plugged(s) # {} => Usable(t, t.output)
<1> DEFINE g == [slot |-> s.current.slot, h |-> w, v |-> h]
           u == [s EXCEPT !.pending = g]
           t == Committed(u)
<1>1. s \in Server /\ s.current \in Boxes BY DEF Good, Base, Server
<1>2. g \in Boxes BY <1>1, BoxesAre
<1>3. ~Empty(g) BY SizesDiffer DEF Empty
<1>4. Resized(s, w, h) = t BY DEF Resized
<1> HIDE DEF g
<1>5. Base(u) /\ Kin(s, u) /\ SameState(s, u) /\ u.pending = g
  BY <1>2, <1>3, NewPending DEF Good
<1> HIDE DEF u
<1>6. (Floating(u) <=> Floating(s)) /\ Plugged(u) = Plugged(s) /\ NaturalIs(u)
  BY <1>5, SameStateIs DEF Good
<1>7. /\ Leads(u, t) /\ SameState(u, t) /\ ~Empty(t.current)
      /\ t.pending.h = u.pending.h /\ t.pending.v = u.pending.v
      /\ Floating(u) /\ Plugged(u) # {} => Usable(t, t.output)
  BY <1>3, <1>5, <1>6, CommittedIs
<1> HIDE DEF t
<1>8. ~Empty(t.pending) BY <1>3, <1>5, <1>7 DEF Empty
<1>9. SameState(s, t) BY <1>5, <1>7 DEF SameState
<1> QED BY <1>4, <1>5, <1>6, <1>7, <1>8, <1>9, LeadsTransitive

----------------------------------------------------------------------------
(* The layout *)

\* A window without a size, or one that was never placed, is left as it is.
Unplaced(s) == Empty(s.pending) \/ Empty(s.last.geo)

\* The view on the output of its last placement, or on the nearest one
Rehomed(s) ==
    LET t == [s EXCEPT !.adjusting = TRUE]
    IN  IF Usable(t, t.last.output) THEN [t EXCEPT !.output = t.last.output]
        ELSE DiscoverOutput(t, t.last.geo.slot)

\* A layout change takes the view to an output in use, if there is one.
LEMMA RehomedIs ==
  ASSUME NEW s, Good(s), ~Unplaced(s)
  PROVE LET u == Rehomed(s)
        IN  /\ Good(u) /\ u.adjusting = TRUE
            /\ u.at = s.at /\ u.regions = s.regions
            /\ u.input_mode = s.input_mode /\ u.axes = s.axes
            /\ u.fullscreen = s.fullscreen /\ u.maximized = s.maximized
            /\ u.tiled = s.tiled /\ u.region = s.region /\ u.evacuate = s.evacuate
            /\ u.natural = s.natural /\ u.pending = s.pending /\ u.last = s.last
            /\ ~Empty(s.current) => ~Empty(u.current)
            /\ Plugged(s) # {} => Usable(s, u.output)
            /\ Usable(s, s.last.output) => u.output = s.last.output
<1> DEFINE t == [s EXCEPT !.adjusting = TRUE]
           l == [t EXCEPT !.output = t.last.output]
           d == DiscoverOutput(t, t.last.geo.slot)
           u == Rehomed(s)
<1>1. s \in Server BY DEF Good, Base
<1>2. /\ t \in Server /\ t.adjusting = TRUE
      /\ t.at = s.at /\ t.regions = s.regions
      /\ t.input_mode = s.input_mode /\ t.axes = s.axes /\ t.awaiting = s.awaiting
      /\ t.fullscreen = s.fullscreen /\ t.maximized = s.maximized
      /\ t.tiled = s.tiled /\ t.region = s.region /\ t.evacuate = s.evacuate
      /\ t.natural = s.natural /\ t.pending = s.pending /\ t.last = s.last
      /\ t.current = s.current
  BY <1>1 DEF Server
<1>3. u = IF Usable(t, t.last.output) THEN l ELSE d BY DEF Rehomed
<1> HIDE DEF t
<1>4. t.last.output \in Outputs \cup {None} /\ t.last.geo \in Boxes BY <1>2 DEF Server
<1>5. t.last.geo.slot \in Slots BY <1>4, BoxesAre
<1>6. \A o : Usable(t, o) <=> Usable(s, o) BY <1>2, UsableSame
<1>7. /\ u \in Server /\ SameState(t, u) /\ u.awaiting = t.awaiting /\ u.last = t.last
      /\ u.pending = t.pending /\ u.current = t.current
      /\ Usable(s, s.last.output) => u.output = s.last.output
      /\ Plugged(s) # {} => Usable(s, u.output)
  <2>1. CASE Usable(t, t.last.output)
    <3>1. /\ l \in Server /\ SameState(t, l) /\ l.awaiting = t.awaiting
          /\ l.last = t.last /\ l.pending = t.pending /\ l.current = t.current
          /\ l.output = t.last.output
      BY <1>2, <1>4 DEF Server, SameState
    <3>2. u = l BY <1>3, <2>1
    <3> HIDE DEF l, u
    <3> QED BY <1>2, <1>6, <2>1, <3>1, <3>2
  <2>2. CASE ~Usable(t, t.last.output)
    <3>1. OnOutput(t, d) /\ d.pending = t.pending /\ d.current = t.current
      BY <1>2, <1>5, DiscoverIs
    <3>2. u = d BY <1>3, <2>2
    <3>3. ASSUME Plugged(s) # {} PROVE Usable(s, d.output)
      <4>1. Plugged(t) # {} BY <1>2, <3>3 DEF Plugged
      <4>2. Usable(t, Nearest(t, t.last.geo.slot)) BY <1>2, <1>5, <4>1, NearestIs
      <4>3. d = [t EXCEPT !.output = Nearest(t, t.last.geo.slot)]
        BY <4>1 DEF DiscoverOutput
      <4>4. d.output = Nearest(t, t.last.geo.slot) BY <1>2, <4>3 DEF Server
      <4> QED BY <1>6, <4>2, <4>4
    <3> HIDE DEF d, u
    <3> QED BY <1>2, <1>6, <2>2, <3>1, <3>2, <3>3 DEF OnOutput
  <2> QED BY <2>1, <2>2
<1> HIDE DEF u
<1>8. /\ u.adjusting = TRUE /\ u.at = s.at /\ u.regions = s.regions
      /\ u.input_mode = s.input_mode /\ u.axes = s.axes
      /\ u.fullscreen = s.fullscreen /\ u.maximized = s.maximized
      /\ u.tiled = s.tiled /\ u.region = s.region /\ u.evacuate = s.evacuate
      /\ u.natural = s.natural /\ u.pending = s.pending /\ u.last = s.last
      /\ u.current = s.current /\ u.awaiting = s.awaiting
  BY <1>2, <1>7 DEF SameState
<1>9. Base(u)
  BY <1>7, <1>8 DEF Good, Base, RegionsAre, ModesAre, Usable, Plugged
<1>10. NaturalIs(u) /\ PendingIs(u) BY <1>8 DEF Good, NaturalIs, PendingIs, Tiled
<1> QED BY <1>7, <1>8, <1>9, <1>10 DEF Good, u

\* view_adjust_for_layout_change(), after which no flag is left behind, and the
\* placement is remembered as it was
LEMMA AdjustForLayoutChangeGood ==
  ASSUME NEW s, Good(s), ~s.adjusting
  PROVE LET t == AdjustForLayoutChange(s)
        IN  /\ Good(t) /\ ~t.adjusting /\ t.at = s.at /\ t.last = s.last
            /\ t.input_mode = s.input_mode /\ SameAxes(s, t) /\ t.natural = s.natural
            /\ ~Empty(s.current) => ~Empty(t.current)
            /\ ~Unplaced(s) /\ Plugged(s) # {} => Usable(t, t.output)
            /\ Unplaced(s) => t = s
            /\ Full(s) /\ Single(s) => Full(t)
            /\ ~Unplaced(s) =>
                 Floating(t) \/ Fits(t) \/ (Plugged(s) = {} /\ t.pending = s.pending)
<1> DEFINE u == Rehomed(s)
           g == AdjustFloating(u, u.last.geo)
           w == IF Floating(u) THEN MoveResize(u, g) ELSE ApplySpecial(u)
           t == [w EXCEPT !.adjusting = FALSE]
<1>1. CASE Unplaced(s)
  <2>1. AdjustForLayoutChange(s) = s BY <1>1 DEF AdjustForLayoutChange, Unplaced
  <2> QED BY <1>1, <2>1 DEF SameAxes
<1>2. CASE ~Unplaced(s)
  <2>1. AdjustForLayoutChange(s) = t
    BY <1>2 DEF AdjustForLayoutChange, Unplaced, Rehomed
  <2>2. /\ Good(u) /\ u.adjusting = TRUE /\ u.at = s.at
        /\ u.input_mode = s.input_mode /\ SameAxes(s, u)
        /\ u.natural = s.natural /\ u.pending = s.pending /\ u.last = s.last
        /\ ~Empty(s.current) => ~Empty(u.current)
        /\ Plugged(s) # {} => Usable(s, u.output)
    BY <1>2, RehomedIs DEF SameAxes
  <2> HIDE DEF u
  <2>3. u \in Server BY <2>2 DEF Good, Base
  <2>4. g \in Boxes /\ ~Empty(g)
    <3>1. u.last.geo \in Boxes BY <2>3 DEF Server
    <3>2. Usable(u, u.output) => u.at[u.output] \in Slots BY <2>3, UsableIs
    <3>3. g \in Boxes /\ g.h = u.last.geo.h /\ g.v = u.last.geo.v
      BY <3>1, <3>2, BoxesAre DEF AdjustFloating
    <3>4. ~Empty(u.last.geo) BY <1>2, <2>2 DEF Unplaced
    <3> HIDE DEF g
    <3> QED BY <3>3, <3>4 DEF Empty
  <2> HIDE DEF g
  <2>5. /\ Leads(u, w) /\ SameAxes(u, w) /\ w.natural = u.natural
        /\ w.input_mode = u.input_mode /\ (Single(u) => Full(w))
        /\ Floating(w) \/ Fits(w) \/ (w = u /\ ~Usable(u, u.output))
    <3>1. CASE Floating(u)
      <4>1. LET x == MoveResize(u, g)
            IN  Leads(u, x) /\ SameState(u, x)
        BY <2>2, <2>4, MoveResizeGood DEF Good
      <4>2. w = MoveResize(u, g) BY <3>1
      <4> HIDE DEF w
      <4>3. Floating(w) BY <3>1, <4>1, <4>2, SameStateIs
      <4> QED BY <3>1, <4>1, <4>2, <4>3 DEF SameAxes, SameState, Full, Floating
    <3>2. CASE ~Floating(u)
      <4>1. ~Empty(u.pending) BY <1>2, <2>2 DEF Unplaced
      <4>2. LET x == ApplySpecial(u)
            IN  /\ Applies(u, x) /\ (Single(u) => Full(x))
                /\ IF Usable(u, u.output) THEN Lands(x) ELSE x = u
        BY <2>2, <3>2, <4>1, ApplySpecialGood DEF Good
      <4>3. w = ApplySpecial(u) BY <3>2
      <4> HIDE DEF w
      <4>4. CASE Usable(u, u.output) BY <4>2, <4>3, <4>4 DEF Applies, Lands
      <4>5. CASE ~Usable(u, u.output) BY <4>2, <4>3, <4>5 DEF Applies
      <4> QED BY <4>4, <4>5
    <3> QED BY <3>1, <3>2
  <2> HIDE DEF w
  <2>6. w \in Server /\ Good(w) /\ Kin(u, w) BY <2>5 DEF Leads, Good, Base
  <2>7. /\ t \in Server /\ t.adjusting = FALSE
        /\ t.at = w.at /\ t.regions = w.regions /\ t.output = w.output
        /\ t.input_mode = w.input_mode /\ t.axes = w.axes /\ t.awaiting = w.awaiting
        /\ t.fullscreen = w.fullscreen /\ t.maximized = w.maximized
        /\ t.tiled = w.tiled /\ t.region = w.region /\ t.evacuate = w.evacuate
        /\ t.natural = w.natural /\ t.pending = w.pending /\ t.last = w.last
        /\ t.current = w.current
    BY <2>6 DEF Server
  <2> HIDE DEF t
  <2>8. Base(t)
    BY <2>6, <2>7 DEF Good, Base, RegionsAre, ModesAre, Usable, Plugged
  <2>9. NaturalIs(t) /\ PendingIs(t)
    BY <2>6, <2>7 DEF Good, NaturalIs, PendingIs, Tiled
  <2>10. t.last = s.last /\ t.at = s.at BY <2>2, <2>6, <2>7 DEF Kin
  <2>11. ~Empty(s.current) => ~Empty(t.current) BY <2>2, <2>6, <2>7 DEF Kin
  <2>12. Plugged(s) # {} => Usable(t, t.output)
    BY <2>2, <2>6, <2>7 DEF Kin, Usable, Plugged
  <2>13. SameAxes(s, t) /\ t.natural = s.natural /\ t.input_mode = s.input_mode
    BY <2>2, <2>5, <2>7 DEF SameAxes
  <2>14. Full(s) /\ Single(s) => Full(t)
    BY <2>2, <2>5, <2>7 DEF Full, Single, SameAxes
  <2>15. Floating(t) \/ Fits(t) \/ (Plugged(s) = {} /\ t.pending = s.pending)
    <3>1. CASE Floating(w) BY <2>7, <3>1 DEF Floating, Tiled
    <3>2. CASE Fits(w)
      <4>1. SpecialBox(t) = SpecialBox(w) BY <2>7 DEF SpecialBox, MaximizedBox, RegionBox
      <4>2. Usable(t, t.output) BY <2>7, <3>2 DEF Fits, Usable, Plugged
      <4> QED BY <2>7, <3>2, <4>1, <4>2 DEF Fits, Lost
    <3>3. CASE w = u /\ ~Usable(u, u.output)
      BY <2>2, <2>7, <3>3, UsableSame
    <3> QED BY <2>5, <3>1, <3>2, <3>3
  <2> QED
    BY <1>2, <2>1, <2>7, <2>8, <2>9, <2>10, <2>11, <2>12, <2>13, <2>14, <2>15 DEF Good
<1> QED BY <1>1, <1>2

\* regions_evacuate_output(): the view stays tiled, though not to that region.
LEMMA EvacuateRegionIs ==
  ASSUME NEW s, Good(s), NEW o, o # None
  PROVE LET t == EvacuateRegion(s, o)
        IN  /\ Good(t) /\ t.at = s.at /\ t.regions = s.regions
            /\ t.adjusting = s.adjusting /\ t.input_mode = s.input_mode
            /\ SameAxes(s, t) /\ t.natural = s.natural
            /\ t.output = s.output /\ t.pending = s.pending /\ t.current = s.current
            /\ t.last = s.last
            /\ t.region = None \/ (t.region = s.region /\ s.region # o)
            /\ s.region = None => t = s
<1> DEFINE t == [s EXCEPT !.region = None, !.evacuate = TRUE]
<1>1. s \in Server BY DEF Good, Base
<1>2. CASE s.region # o
  <2>1. EvacuateRegion(s, o) = s BY <1>2 DEF EvacuateRegion
  <2> QED BY <1>2, <2>1 DEF SameAxes
<1>3. CASE s.region = o
  <2>1. EvacuateRegion(s, o) = t BY <1>3 DEF EvacuateRegion
  <2>2. /\ t \in Server /\ t.region = None /\ t.evacuate = TRUE
        /\ t.at = s.at /\ t.regions = s.regions /\ t.adjusting = s.adjusting
        /\ t.input_mode = s.input_mode /\ t.axes = s.axes /\ t.awaiting = s.awaiting
        /\ t.fullscreen = s.fullscreen /\ t.maximized = s.maximized
        /\ t.tiled = s.tiled /\ t.output = s.output /\ t.natural = s.natural
        /\ t.pending = s.pending /\ t.last = s.last /\ t.current = s.current
    BY <1>1 DEF Server
  <2> HIDE DEF t
  <2>3. Tiled(t) /\ Tiled(s) BY <1>3, <2>2 DEF Tiled
  <2>4. Base(t) BY <2>2 DEF Good, Base, RegionsAre, ModesAre
  <2>5. NaturalIs(t) /\ PendingIs(t) BY <2>2, <2>3 DEF Good, NaturalIs, PendingIs
  <2> QED BY <1>3, <2>1, <2>2, <2>4, <2>5 DEF Good, SameAxes
<1> QED BY <1>2, <1>3

\* The view with the outputs elsewhere, on one that it may have lost
Relaid(s, at, o) == [s EXCEPT !.at = at, !.output = o]

\* Another layout, in which the output of the region still is
LEMMA NewLayoutIs ==
  ASSUME NEW s, Good(s), NEW at \in Layout, NEW o \in Outputs \cup {None},
         s.region # None => s.region \in In(at)
  PROVE LET t == Relaid(s, at, o)
        IN  /\ Good(t) /\ t.at = at /\ t.regions = s.regions /\ t.output = o
            /\ t.adjusting = s.adjusting /\ t.input_mode = s.input_mode
            /\ SameAxes(s, t) /\ t.natural = s.natural
            /\ t.pending = s.pending /\ t.current = s.current /\ t.last = s.last
            /\ t.tiled = s.tiled /\ t.region = s.region /\ t.evacuate = s.evacuate
<1> DEFINE t == Relaid(s, at, o)
<1>1. s \in Server BY DEF Good, Base
<1>2. /\ t \in Server /\ t.at = at /\ t.output = o /\ t.tiled = s.tiled
      /\ t.region = s.region /\ t.evacuate = s.evacuate
      /\ t.regions = s.regions /\ t.adjusting = s.adjusting
      /\ t.input_mode = s.input_mode /\ t.axes = s.axes /\ t.awaiting = s.awaiting
      /\ t.fullscreen = s.fullscreen /\ t.maximized = s.maximized
      /\ t.natural = s.natural
      /\ t.pending = s.pending /\ t.last = s.last /\ t.current = s.current
  BY <1>1 DEF Server, Relaid
<1> HIDE DEF t
<1>3. RegionsAre(t) BY <1>2 DEF Good, Base, RegionsAre, Usable, Plugged
<1>4. Base(t) BY <1>2, <1>3 DEF Good, Base, ModesAre
<1>5. NaturalIs(t) /\ PendingIs(t) BY <1>2 DEF Good, NaturalIs, PendingIs, Tiled
<1> QED BY <1>2, <1>4, <1>5 DEF Good, SameAxes, t

\* The view before it is adjusted to a change of the layout: what has gone is
\* off its mind, and everything else as it was.
Changed(s, t, at) ==
    /\ Good(t) /\ t.at = at /\ ~t.adjusting
    /\ t.input_mode = s.input_mode /\ SameAxes(s, t) /\ t.natural = s.natural
    /\ t.pending = s.pending /\ t.current = s.current /\ t.last = s.last
    /\ s.region = None => t.region = None /\ t.evacuate = s.evacuate /\ t.tiled = s.tiled

LEMMA LayoutStepIs ==
  ASSUME Good(server), ~server.adjusting, LayoutStep
  PROVE /\ \E at \in Layout : \E t :
              Changed(server, t, at) /\ server' = AdjustForLayoutChange(t)
        /\ kept' = kept /\ home' = Home(server', home)
<1>1. server \in Server /\ server.at \in Layout BY DEF Good, Base, Server
<1>2. server.region # None => server.region \in Plugged(server)
  BY DEF Good, Base, RegionsAre, Usable
<1>3. ASSUME NEW at \in Layout, Plugged(server) \subseteq In(at),
             LaysOut(AdjustForLayoutChange([server EXCEPT !.at = at]))
      PROVE \E a \in Layout : \E t :
              Changed(server, t, a) /\ server' = AdjustForLayoutChange(t)
  <2> DEFINE t == Relaid(server, at, server.output)
  <2>1. [server EXCEPT !.at = at] = t BY <1>1 DEF Server, Relaid
  <2>2. server.output \in Outputs \cup {None} BY <1>1 DEF Server
  <2>3. Changed(server, t, at) BY <1>2, <1>3, <2>2, NewLayoutIs DEF Changed
  <2> HIDE DEF t
  <2> QED BY <1>3, <2>1, <2>3 DEF LaysOut
<1>4. CASE Plug
  <2>1. PICK o \in Outputs \ Plugged(server), at \in Layouts :
          /\ o \in In(at) /\ at = [server.at EXCEPT ![o] = at[o]]
          /\ LaysOut(AdjustForLayoutChange([server EXCEPT !.at = at]))
    BY <1>4 DEF Plug
  <2>2. at \in Layout BY LayoutAssumption
  <2>3. server.at \in [Outputs -> Slots \cup {0}] BY <1>1, LayoutIs
  <2>4. Plugged(server) \subseteq In(at)
    <3>1. ASSUME NEW p \in Plugged(server) PROVE p \in In(at)
      <4>1. p \in Outputs /\ server.at[p] # 0 BY DEF Plugged, In
      <4>2. p # o BY <2>1
      <4>3. at[p] = server.at[p] BY <2>1, <2>3, <4>1, <4>2
      <4> QED BY <4>1, <4>3 DEF In
    <3> QED BY <3>1
  <2> QED BY <1>3, <2>1, <2>2, <2>4 DEF LaysOut
<1>5. CASE Unplug
  <2>1. PICK o \in Plugged(server), destroyed \in BOOLEAN, at \in Layouts :
          /\ In(at) = Plugged(server) \ {o}
          /\ LaysOut(Removed(server, o, at, destroyed))
    BY <1>5 DEF Unplug
  <2> DEFINE e == EvacuateRegion(server, o)
             n == IF destroyed /\ e.output = o THEN None ELSE e.output
             t == Relaid(e, at, n)
  <2>2. at \in Layout BY LayoutAssumption
  <2>3. o \in Outputs /\ o # None BY GeometryAssumption DEF Plugged, In
  <2>4. /\ Good(e) /\ e.at = server.at /\ e.regions = server.regions
        /\ e.adjusting = server.adjusting /\ e.input_mode = server.input_mode
        /\ SameAxes(server, e) /\ e.natural = server.natural
        /\ e.output = server.output /\ e.pending = server.pending
        /\ e.current = server.current /\ e.last = server.last
        /\ e.region = None \/ (e.region = server.region /\ server.region # o)
        /\ server.region = None => e = server
    BY <2>3, EvacuateRegionIs
  <2>5. Removed(server, o, at, destroyed) =
          AdjustForLayoutChange(
            [e EXCEPT !.at = at,
                      !.output = IF destroyed /\ @ = o THEN None ELSE @])
    BY DEF Removed
  <2> HIDE DEF e
  <2>6. e \in Server BY <2>4 DEF Good, Base
  <2>7. [e EXCEPT !.at = at, !.output = IF destroyed /\ @ = o THEN None ELSE @] = t
    BY <2>6 DEF Server, Relaid
  <2>8. n \in Outputs \cup {None} BY <2>6 DEF Server
  <2> HIDE DEF n
  <2>9. e.region # None => e.region \in In(at) BY <1>2, <2>1, <2>4
  <2>10. /\ Good(t) /\ t.at = at
         /\ t.adjusting = e.adjusting /\ t.input_mode = e.input_mode
         /\ SameAxes(e, t) /\ t.natural = e.natural
         /\ t.pending = e.pending /\ t.current = e.current /\ t.last = e.last
         /\ t.tiled = e.tiled /\ t.region = e.region /\ t.evacuate = e.evacuate
    BY <2>2, <2>4, <2>8, <2>9, NewLayoutIs
  <2>11. server' = AdjustForLayoutChange(t) /\ kept' = kept /\ home' = Home(server', home)
    BY <2>1, <2>5, <2>7 DEF LaysOut
  <2> HIDE DEF t
  <2>12. Changed(server, t, at) BY <2>4, <2>10 DEF Changed, SameAxes
  <2> QED BY <2>2, <2>11, <2>12
<1>6. CASE Relocate
  <2>1. PICK at \in Layouts :
          /\ In(at) = Plugged(server)
          /\ LaysOut(AdjustForLayoutChange([server EXCEPT !.at = at]))
    BY <1>6 DEF Relocate
  <2>2. at \in Layout BY LayoutAssumption
  <2> QED BY <1>3, <2>1, <2>2 DEF LaysOut
<1>7. CASE ReloadRegions
  <2>1. PICK regions \in BOOLEAN : LaysOut(ReconfigureRegions(server, regions))
    BY <1>7 DEF ReloadRegions
  <2> DEFINE e == IF server.region = None THEN server
                  ELSE EvacuateRegion(server, server.region)
             t == [e EXCEPT !.regions = regions]
  <2>2. ReconfigureRegions(server, regions) = AdjustForLayoutChange(t)
    BY DEF ReconfigureRegions
  <2>3. /\ Good(e) /\ e.at = server.at /\ e.adjusting = server.adjusting
        /\ e.input_mode = server.input_mode
        /\ SameAxes(server, e) /\ e.natural = server.natural
        /\ e.pending = server.pending
        /\ e.current = server.current /\ e.last = server.last
        /\ e.region = None
        /\ server.region = None => e = server
    <3>1. CASE server.region = None BY <3>1 DEF SameAxes
    <3>2. CASE server.region # None
      <4> DEFINE x == EvacuateRegion(server, server.region)
      <4>1. /\ Good(x) /\ x.at = server.at /\ x.adjusting = server.adjusting
            /\ x.input_mode = server.input_mode
            /\ SameAxes(server, x) /\ x.natural = server.natural
            /\ x.pending = server.pending
            /\ x.current = server.current /\ x.last = server.last
            /\ x.region = None
        BY <3>2, EvacuateRegionIs
      <4>2. e = x BY <3>2
      <4> HIDE DEF x, e
      <4> QED BY <3>2, <4>1, <4>2
    <3> QED BY <3>1, <3>2
  <2> HIDE DEF e
  <2>4. e \in Server BY <2>3 DEF Good, Base
  <2>5. /\ t \in Server /\ t.at = e.at /\ t.output = e.output /\ t.tiled = e.tiled
        /\ t.region = e.region /\ t.evacuate = e.evacuate /\ t.adjusting = e.adjusting
        /\ t.input_mode = e.input_mode /\ t.axes = e.axes /\ t.awaiting = e.awaiting
        /\ t.fullscreen = e.fullscreen /\ t.maximized = e.maximized
        /\ t.natural = e.natural
        /\ t.pending = e.pending /\ t.last = e.last /\ t.current = e.current
    BY <2>4 DEF Server
  <2> HIDE DEF t
  <2>6. Base(t) BY <2>3, <2>5 DEF Good, Base, RegionsAre, ModesAre
  <2>7. NaturalIs(t) /\ PendingIs(t)
    BY <2>3, <2>5 DEF Good, NaturalIs, PendingIs, Tiled
  <2>8. Changed(server, t, server.at)
    BY <2>3, <2>5, <2>6, <2>7 DEF Changed, Good, SameAxes
  <2> QED BY <1>1, <2>1, <2>2, <2>8 DEF LaysOut
<1>8. kept' = kept /\ home' = Home(server', home)
  BY <1>4, <1>5, <1>6, <1>7
     DEF LayoutStep, Plug, Unplug, Relocate, ReloadRegions, LaysOut
<1> QED BY <1>3, <1>4, <1>5, <1>6, <1>7, <1>8 DEF LayoutStep

----------------------------------------------------------------------------
(* Steps *)

\* What clears the maximized state, or does nothing, keeps that a maximized
\* window has a size.
LEMMA LeadsKeeps ==
  ASSUME NEW s, NEW t, Leads(s, t), t = s \/ t.maximized = {} \/ (Full(s) => Full(t))
  PROVE Keeps(s, t)
BY DEF Keeps, Full

LEMMA StateStepKeeps ==
  ASSUME Good(server), StateStep
  PROVE Keeps(server, server')
<1>1. CASE Maximizes
  <2>1. PICK axes \in SUBSET Axes : server' = Maximize(server, axes)
    BY <1>1 DEF Maximizes, Does
  <2> QED BY <2>1, MaximizeGood DEF Keeps
<1>2. CASE Fullscreens
  <2>1. PICK b \in BOOLEAN : server' = SetFullscreen(server, b)
    BY <1>2 DEF Fullscreens, Does
  <2> QED BY <2>1, SetFullscreenGood DEF Keeps
<1>3. CASE RequestFullscreen
  <2>1. PICK o \in Outputs : server' = SetFullscreen(SetOutput(server, o), TRUE)
    BY <1>3 DEF RequestFullscreen, Does
  <2> DEFINE t == SetOutput(server, o)
             r == SetFullscreen(t, TRUE)
  <2>2. Leads(server, t) /\ SameAxes(server, t) /\ t.pending = server.pending
    BY SetOutputIs DEF Leads, Good
  <2> HIDE DEF t
  <2>3. Leads(t, r) /\
        (Full(t) /\ Single(r) /\ (Empty(t.pending) => Usable(t, t.output)) => Full(r))
    BY <2>2, SetFullscreenGood DEF Leads
  <2>4. server' = r BY <2>1 DEF t
  <2> HIDE DEF r
  <2>5. Leads(server, r) BY <2>2, <2>3, LeadsTransitive DEF Leads
  <2>6. Full(server) => Full(t) BY <2>2 DEF Full, SameAxes
  <2>7. Usable(server, server.output) => Usable(t, t.output) BY <2>2 DEF Leads, Kin
  <2> QED BY <2>2, <2>3, <2>4, <2>5, <2>6, <2>7 DEF Keeps
<1>4. ASSUME ~server.fullscreen, server' = ApplyNatural(SetUntiled(server)),
             server.maximized = {}
      PROVE Keeps(server, server')
  BY <1>4, ApplyUntiledGood, LeadsKeeps DEF SameAxes
<1>5. CASE SnapsToEdge
  <2>1. PICK edge \in SnapEdges :
          \/ \E combine \in BOOLEAN :
                server' = SnapToEdge(server, edge, TRUE, combine)
          \/ /\ server.maximized = {} /\ ~server.fullscreen
             /\ server' = ApplyNatural(SetUntiled(server))
    BY <1>5 DEF SnapsToEdge, Does
  <2>2. ASSUME NEW combine \in BOOLEAN,
               server' = SnapToEdge(server, edge, TRUE, combine)
        PROVE Keeps(server, server')
    <3>1. LET t == SnapToEdge(server, edge, TRUE, combine)
          IN  Leads(server, t) /\ (t = server \/ t.maximized = {})
      BY SnapToEdgeGood
    <3> QED BY <2>2, <3>1, LeadsKeeps
  <2> QED BY <1>4, <2>1, <2>2
<1>6. CASE SnapsToRegion
  <2>1. /\ server.regions /\ Usable(server, server.output)
        /\ \/ server' = SnapToRegion(server, server.output)
           \/ /\ server.maximized = {} /\ ~server.fullscreen
              /\ server' = ApplyNatural(SetUntiled(server))
    BY <1>6 DEF SnapsToRegion, Does
  <2>2. LET t == SnapToRegion(server, server.output)
        IN  Leads(server, t) /\ (t = server \/ t.maximized = {})
    BY <2>1, SnapToRegionGood
  <2> QED BY <1>4, <2>1, <2>2, LeadsKeeps
<1>7. CASE UnSnaps
  <2>1. server' = UnSnap(server) BY <1>7 DEF UnSnaps, Does
  <2> QED BY <2>1, UnSnapGood, LeadsKeeps
<1>8. CASE Places
  <2>1. server' = PlaceByPolicy(server) BY <1>8 DEF Places, Does
  <2> QED BY <2>1, PlaceByPolicyGood, LeadsKeeps
<1>9. CASE MovesToEdge
  <2>1. PICK edge \in SnapEdges : server' = MoveToEdge(server, edge)
    BY <1>9 DEF MovesToEdge, Does
  <2> QED BY <2>1, MoveToEdgeGood, LeadsKeeps
<1>10. CASE MovesToOutput
  <2>1. PICK o \in Plugged(server) : server' = MoveToOutput(server, o)
    BY <1>10 DEF MovesToOutput, Does
  <2> QED BY <2>1, MoveToOutputGood
<1>11. CASE BeginsMove
  <2>1. server.input_mode = "passthrough" /\ server' = BeginMove(server)
    BY <1>11 DEF BeginsMove, Does
  <2>2. LET t == BeginMove(server)
        IN  Leads(server, t) /\ SameAxes(server, t) /\ t.pending = server.pending
    BY <2>1, BeginMoveGood
  <2> QED BY <2>1, <2>2 DEF Keeps, Full, SameAxes
<1>12. CASE BeginsResize
  <2>1. PICK axes \in SUBSET Axes : server' = BeginResize(server, axes)
    BY <1>12 DEF BeginsResize, Does
  <2>2. LET t == BeginResize(server, axes)
        IN  /\ Leads(server, t) /\ t.maximized \subseteq server.maximized
            /\ t.pending = server.pending
    BY BeginResizeGood
  <2> QED BY <2>1, <2>2 DEF Keeps, Full
<1> QED
  BY <1>1, <1>2, <1>3, <1>5, <1>6, <1>7, <1>8, <1>9, <1>10, <1>11, <1>12 DEF StateStep

\* The slots with an output are slots.
LEMMA OccupiedIs == ASSUME server \in Server PROVE Occupied \subseteq Slots
<1>1. \A o \in Plugged(server) : server.at[o] \in Slots BY UsableIs DEF Usable
<1> QED BY <1>1 DEF Occupied

\* Whatever the size, a box of windows
LEMMA WindowBox ==
  ASSUME NEW slot \in Slots, NEW w \in Widths, NEW h \in Heights
  PROVE LET g == [slot |-> slot, h |-> w, v |-> h] IN g \in Boxes /\ ~Empty(g)
BY BoxesAre, SizesDiffer DEF Empty

\* In a drag, a maximized window has a size if it had.
LEMMA PointerStepKeeps ==
  ASSUME Good(server), ~Empty(server.current), Motion \/ Finish
  PROVE Leads(server, server') /\ (Full(server) => Full(server'))
<1>1. server \in Server BY DEF Good, Base
<1>2. CASE Motion
  <2>1. ASSUME server.input_mode = "move", NEW slot \in Occupied,
               server' = Drag(server, slot) \/ server' = DragResisted(server, slot)
        PROVE Leads(server, server') /\ (Full(server) => Full(server'))
    <3>1. slot \in Slots BY <1>1, OccupiedIs
    <3>2. LET t == Drag(server, slot)
          IN  Leads(server, t) /\ (Full(server) => Full(t))
      BY <2>1, <3>1, DragGood
    <3>3. LET t == DragResisted(server, slot)
          IN  Leads(server, t) /\ (Full(server) => Full(t))
      BY <3>1, DragResistedGood
    <3> QED BY <2>1, <3>2, <3>3
  <2>2. ASSUME NEW w \in Widths, NEW h \in Heights,
               server' = DragEdge(server, [slot |-> 1, h |-> w, v |-> h])
        PROVE Leads(server, server') /\ (Full(server) => Full(server'))
    <3> DEFINE g == [slot |-> 1, h |-> w, v |-> h]
    <3>1. g.h \in Widths /\ g.v \in Heights OBVIOUS
    <3>2. server' = DragEdge(server, g) BY <2>2
    <3> HIDE DEF g
    <3> QED BY <3>1, <3>2, DragEdgeGood
  <2> QED BY <1>2, <2>1, <2>2 DEF Motion, Does
<1>3. CASE Finish
  <2>1. ASSUME NEW t, Leads(server, t), Full(server) => Full(t), server' = Cancel(t)
        PROVE Leads(server, server') /\ (Full(server) => Full(server'))
    BY <2>1, CancelGood
  <2>2. Leads(server, server) BY LeadsItself
  <2>3. \A o \in Plugged(server) :
          LET t == DropOnRegion(server, o)
          IN  Leads(server, t) /\ (Full(server) => Full(t))
    BY DropOnRegionGood
  <2>4. \A o \in Plugged(server) : \A edge \in SnapEdges :
          LET t == DropOnEdge(server, o, edge)
          IN  Leads(server, t) /\ (Full(server) => Full(t))
    BY DropOnEdgeGood
  <2>5. \/ server' = Cancel(server)
        \/ \E o \in Plugged(server) :
             \/ server' = Cancel(DropOnRegion(server, o))
             \/ \E edge \in SnapEdges : server' = Cancel(DropOnEdge(server, o, edge))
    BY <1>3 DEF Finish, Does
  <2> QED BY <2>1, <2>2, <2>3, <2>4, <2>5
<1> QED BY <1>2, <1>3

\* Every step of the user keeps the invariant.
LEMMA UserStepKeeps ==
  ASSUME Good(server), ~Empty(server.current), UserStep
  PROVE Keeps(server, server') /\ home' = Home(server', home) /\ kept' = Kept(server')
<1>0. home' = Home(server', home) /\ kept' = Kept(server')
  BY DEF UserStep, StateStep, Maximizes, Fullscreens, RequestFullscreen, SnapsToEdge,
         SnapsToRegion, UnSnaps, Places, MovesToEdge, MovesToOutput, BeginsMove,
         BeginsResize, Moves, Resizes, ResizesRelative, Motion, Finish, Does
<1> SUFFICES Keeps(server, server') BY <1>0
<1>1. server \in Server BY DEF Good, Base
<1>2. CASE Moves
  <2>1. PICK slot \in Slots : \/ server' = Move(server, slot)
                              \/ server' = MoveRelative(server, slot)
    BY <1>2 DEF Moves, Does
  <2>2. LET t == Move(server, slot)
        IN  /\ Leads(server, t) /\ SameState(server, t)
            /\ t.pending.h = server.pending.h /\ t.pending.v = server.pending.v
    BY MoveGood
  <2>3. LET t == Move(server, slot) IN Full(server) => Full(t)
    BY <2>2 DEF Full, Empty, SameState
  <2>4. LET t == MoveRelative(server, slot)
        IN  Leads(server, t) /\ (t = server \/ t.maximized = {})
    BY MoveRelativeGood
  <2> QED BY <2>1, <2>2, <2>3, <2>4, LeadsKeeps
<1>3. CASE Resizes
  <2>1. PICK w \in Widths, h \in Heights :
          LET g == [slot |-> server.pending.slot, h |-> w, v |-> h]
          IN  server' = MoveResize(server, g) \/ server' = GrowOrShrink(server, g)
    BY <1>3 DEF Resizes, Does
  <2> DEFINE g == [slot |-> server.pending.slot, h |-> w, v |-> h]
  <2>2. server.pending \in Boxes BY <1>1 DEF Server
  <2>3. server.pending.slot \in Slots BY <2>2, BoxesAre
  <2>4. g \in Boxes /\ ~Empty(g) BY <2>3, WindowBox
  <2>5. server' = MoveResize(server, g) \/ server' = server
    BY <2>1 DEF GrowOrShrink
  <2> HIDE DEF g
  <2>6. LET t == MoveResize(server, g) IN Leads(server, t) /\ ~Empty(t.pending)
    BY <2>4, ResizeGood
  <2>7. CASE server' = MoveResize(server, g) BY <2>6, <2>7 DEF Keeps, Full
  <2>8. CASE server' = server BY <2>8, LeadsItself
  <2> QED BY <2>5, <2>7, <2>8
<1>4. CASE ResizesRelative
  <2>1. PICK w \in Widths, h \in Heights, slot \in Slots :
          server' = ResizeRelative(server, [slot |-> slot, h |-> w, v |-> h])
    BY <1>4 DEF ResizesRelative, Does
  <2> DEFINE g == [slot |-> slot, h |-> w, v |-> h]
  <2>2. g \in Boxes /\ ~Empty(g) BY WindowBox
  <2>3. server' = ResizeRelative(server, g) BY <2>1
  <2> HIDE DEF g
  <2> QED BY <2>2, <2>3, ResizeRelativeGood, LeadsKeeps
<1>5. CASE Motion \/ Finish BY <1>5, PointerStepKeeps, LeadsKeeps
<1>6. CASE StateStep BY <1>6, StateStepKeeps
<1> QED BY <1>2, <1>3, <1>4, <1>5, <1>6 DEF UserStep

\* A step of the client keeps the invariant, and after it the client has a size.
LEMMA ClientStepIs ==
  ASSUME Good(server), ~server.adjusting, ClientStep
  PROVE /\ Leads(server, server') /\ SameState(server, server')
        /\ ~Empty(server'.current) /\ ~Empty(server'.pending)
        /\ Floating(server) /\ Plugged(server) # {} => Usable(server', server'.output)
<1>1. server \in Server BY DEF Good, Base
<1>2. CASE Commits
  <2>1. PICK w \in Widths, h \in Heights, slot \in Occupied \cup {1} :
          server' = Commit(server, w, h, slot)
    BY <1>2 DEF Commits, Does, LaysOut
  <2>2. slot \in Slots BY <1>1, OccupiedIs, SlotsAre
  <2> QED BY <2>1, <2>2, CommitGood
<1>3. CASE ResizesItself
  <2>1. PICK w \in Widths, h \in Heights : server' = Resized(server, w, h)
    BY <1>3 DEF ResizesItself, Does
  <2> QED BY <2>1, ResizedGood
<1> QED BY <1>2, <1>3 DEF ClientStep

\* A fullscreen or tiled window has been placed, so that layout changes reach it.
Secure(s) == s.fullscreen \/ Tiled(s) => ~Empty(s.last.geo)

\* What holds of a view that has the geometry of its state, and of one that keeps it
Sound(s) == Secure(s) /\ FullShown(s) /\ Rests(s)

LEMMA LandsSound ==
  ASSUME NEW t, Good(t), ~t.adjusting, Lands(t)
  PROVE Sound(t)
<1>1. CASE Floating(t)
  BY <1>1 DEF Sound, Secure, FullShown, Rests, Lost, Floating, Tiled
<1>2. CASE Fits(t) /\ t.last.geo = t.pending
  <2>1. Secure(t) BY <1>2 DEF Secure, Good, PendingIs
  <2>2. FullShown(t) BY <1>2 DEF FullShown, Fits, SpecialBox, FullscreenBox
  <2> QED BY <1>2, <2>1, <2>2 DEF Sound, Rests, Fits
<1> QED BY <1>1, <1>2 DEF Lands

LEMMA StillSound ==
  ASSUME NEW s, NEW t, Good(t), Sound(s), Still(s, t)
  PROVE Sound(t)
<1>1. /\ t.fullscreen = s.fullscreen /\ t.maximized = s.maximized /\ t.tiled = s.tiled
      /\ t.region = s.region /\ t.evacuate = s.evacuate /\ t.at = s.at
  BY DEF Still, State
<1>2. Secure(t)
  BY <1>1 DEF Still, Remembers, Sound, Secure, Tiled, Good, PendingIs
<1>3. FullShown(t) BY <1>1 DEF Still, Sound, FullShown
<1>4. Rests(t) BY <1>1 DEF Sound, Rests, Lost, Plugged
<1> QED BY <1>2, <1>3, <1>4 DEF Sound

\* The inductive invariant of the window
GInv == Good(server) /\ ~server.adjusting /\ ~Empty(server.current)

\* A window at its initial commit, all outputs plugged in
Starts(s) ==
    \E at \in Layouts, output \in Outputs, regions \in BOOLEAN :
        In(at) = Outputs /\ s = Fresh(at, output, regions)

LEMMA FreshIs ==
  ASSUME NEW s, Starts(s)
  PROVE /\ Good(s) /\ s.adjusting = FALSE /\ Usable(s, s.output) /\ Floating(s)
        /\ s.fullscreen = FALSE /\ s.maximized = {}
<1> DEFINE none == [h |-> "0", v |-> "0"]
           b == Box(1, none)
<1>0. PICK at \in Layouts, output \in Outputs, regions \in BOOLEAN :
        In(at) = Outputs /\ s = Fresh(at, output, regions)
  BY DEF Starts
<1>1. none \in Sizes /\ b \in Boxes
  <2>1. none \in Sizes BY SizesDiffer DEF Sizes
  <2> HIDE DEF none
  <2> QED BY <2>1, SlotsAre DEF Boxes
<1>2. at \in Layout BY LayoutAssumption
<1>3. s = [ at |-> at, regions |-> regions, input_mode |-> "passthrough", axes |-> {},
            output |-> output, fullscreen |-> FALSE, maximized |-> {}, tiled |-> {},
            region |-> None, evacuate |-> FALSE, pending |-> b, current |-> b,
            awaiting |-> TRUE, natural |-> none,
            last |-> [output |-> None, geo |-> b], adjusting |-> FALSE ]
  BY <1>0 DEF Fresh
<1> HIDE DEF b, none
<1>4. s \in Server BY <1>1, <1>2, <1>3 DEF Server
<1>5. ~Tiled(s) BY <1>3 DEF Tiled
<1>6. RegionsAre(s) /\ ModesAre(s) BY <1>3 DEF RegionsAre, ModesAre
<1>7. NaturalIs(s) /\ PendingIs(s) BY <1>3, <1>5 DEF NaturalIs, PendingIs
<1>8. Usable(s, s.output) BY <1>0, <1>3 DEF Usable, Plugged
<1>9. Floating(s) BY <1>3, <1>5 DEF Floating
<1> QED BY <1>3, <1>4, <1>6, <1>7, <1>8, <1>9 DEF Good, Base

\* The window when it maps: floating, maximized along both axes, or fullscreen,
\* and on an output
LEMMA InitIs ==
  ASSUME GeometryInit
  PROVE /\ GInv /\ Usable(server, server.output)
        /\ server.maximized \in {{}, Axes} /\ ~Empty(server.pending)
        /\ kept = Kept(server)
        /\ Sound(server)
<1>0. PICK s : \E w \in Widths, h \in Heights :
        /\ Starts(s)
        /\ server \in { Commit(s, w, h, 1),
                        Committed(Maximize(s, Axes)),
                        Committed(SetFullscreen(s, TRUE)) }
  <2>1. PICK at \in Layouts, output \in Outputs, regions \in BOOLEAN,
             w \in Widths, h \in Heights :
          LET s == Fresh(at, output, regions)
          IN  /\ In(at) = Outputs
              /\ server \in { Commit(s, w, h, 1),
                              Committed(Maximize(s, Axes)),
                              Committed(SetFullscreen(s, TRUE)) }
    BY DEF GeometryInit
  <2> DEFINE f == Fresh(at, output, regions)
  <2>2. Starts(f) BY <2>1 DEF Starts
  <2>3. server \in { Commit(f, w, h, 1),
                     Committed(Maximize(f, Axes)),
                     Committed(SetFullscreen(f, TRUE)) }
    BY <2>1
  <2> HIDE DEF f
  <2> QED BY <2>2, <2>3
<1>1. PICK w \in Widths, h \in Heights :
        /\ Starts(s)
        /\ server \in { Commit(s, w, h, 1),
                        Committed(Maximize(s, Axes)),
                        Committed(SetFullscreen(s, TRUE)) }
  BY <1>0
<1> DEFINE m == Maximize(s, Axes)
           f == SetFullscreen(s, TRUE)
<1>3. server = Commit(s, w, h, 1) \/ server = Committed(m) \/ server = Committed(f)
  BY <1>1
<1>4. /\ Good(s) /\ s.adjusting = FALSE /\ Usable(s, s.output)
      /\ s.fullscreen = FALSE /\ s.maximized = {}
  BY <1>1, FreshIs
<1>5. CASE server = Commit(s, w, h, 1)
  <2>1. LET t == Commit(s, w, h, 1)
        IN  /\ Leads(s, t) /\ SameState(s, t) /\ ~Empty(t.current) /\ ~Empty(t.pending)
    BY <1>4, SlotsAre, CommitGood
  <2>2. Leads(s, server) /\ SameState(s, server)
        /\ ~Empty(server.current) /\ ~Empty(server.pending)
    BY <1>5, <2>1
  <2>3. Floating(server) BY <1>1, <2>2, FreshIs, SameStateIs
  <2>4. Good(server) /\ ~server.adjusting BY <1>4, <2>2 DEF Leads, SameState
  <2>5. Sound(server) BY <2>3, <2>4, LandsSound DEF Lands
  <2> QED BY <1>4, <2>2, <2>5 DEF GInv, GeometryInit, Leads, Kin, SameState
<1>6. ASSUME NEW x, Leads(s, x), ~Empty(x.pending), x.maximized \in {{}, Axes},
             Lands(x), server = Committed(x)
      PROVE /\ GInv /\ Usable(server, server.output)
            /\ server.maximized \in {{}, Axes} /\ ~Empty(server.pending)
            /\ Sound(server)
  <2>1. LET t == Committed(x)
        IN  /\ Leads(x, t) /\ SameState(x, t) /\ ~Empty(t.current)
            /\ t.pending.h = x.pending.h /\ t.pending.v = x.pending.v
            /\ Floating(t) \/ Still(x, t)
    BY <1>6, CommittedIs DEF Leads, Good
  <2>2. /\ Leads(x, server) /\ SameState(x, server) /\ ~Empty(server.current)
        /\ server.pending.h = x.pending.h /\ server.pending.v = x.pending.v
        /\ Floating(server) \/ Still(x, server)
    BY <1>6, <2>1
  <2>3. Leads(s, server) BY <1>6, <2>2, LeadsTransitive DEF Leads
  <2>4. ~Empty(server.pending) BY <1>6, <2>2 DEF Empty
  <2>5. Sound(server)
    <3>1. ~x.adjusting /\ Good(x) BY <1>4, <1>6 DEF Leads, Kin
    <3>2. ~server.adjusting /\ Good(server) BY <2>2, <3>1 DEF Leads, SameState
    <3>3. Sound(x) BY <1>6, <3>1, LandsSound
    <3> QED BY <2>2, <3>2, <3>3, LandsSound, StillSound DEF Lands
  <2> QED BY <1>4, <1>6, <2>2, <2>3, <2>4, <2>5 DEF GInv, Leads, Kin, SameState
<1>7. CASE server = Committed(m)
  <2>1. Axes \in SUBSET Axes /\ Axes # {} BY DEF Axes
  <2>2. /\ Leads(s, m) /\ m.maximized = Axes /\ (Full(s) => Full(m))
        /\ m = s \/ Lands(m) \/ Stays(s, m)
    BY <1>4, <2>1, MaximizeGood
  <2>3. Full(s) BY <1>4 DEF Full
  <2>4. ~Empty(m.pending) /\ Lands(m) BY <1>4, <2>1, <2>2, <2>3 DEF Full, Stays
  <2> HIDE DEF m
  <2> QED BY <1>6, <1>7, <2>2, <2>4 DEF GeometryInit
<1>8. CASE server = Committed(f)
  <2>1. /\ Leads(s, f) /\ f.maximized = s.maximized /\ f.fullscreen = TRUE
        /\ f = s \/ Lands(f) \/ Stays(s, f)
    BY <1>4, SetFullscreenGood
  <2> HIDE DEF f
  <2>2. ~Empty(f.pending) /\ Lands(f) BY <1>4, <2>1 DEF Leads, Good, PendingIs, Stays
  <2> QED BY <1>4, <1>6, <1>8, <2>1, <2>2 DEF GeometryInit
<1> QED BY <1>3, <1>5, <1>7, <1>8 DEF GeometryInit

\* Every step keeps the invariant.
LEMMA NextKeepsGInv ==
  ASSUME GInv, [GeometryNext]_geometryVars
  PROVE GInv'
<1>1. CASE LayoutStep
  <2>1. PICK at \in Layout : \E t :
          Changed(server, t, at) /\ server' = AdjustForLayoutChange(t)
    BY <1>1, LayoutStepIs DEF GInv
  <2>2. PICK t : Changed(server, t, at) /\ server' = AdjustForLayoutChange(t)
    BY <2>1
  <2>3. LET r == AdjustForLayoutChange(t)
        IN  Good(r) /\ ~r.adjusting /\ (~Empty(t.current) => ~Empty(r.current))
    BY <2>2, AdjustForLayoutChangeGood DEF Changed
  <2> QED BY <2>2, <2>3 DEF GInv, Changed
<1>2. CASE UserStep
  <2>1. Leads(server, server') BY <1>2, UserStepKeeps DEF GInv, Keeps
  <2> QED BY <2>1 DEF GInv, Leads, Kin
<1>3. CASE ClientStep
  <2>1. Leads(server, server') BY <1>3, ClientStepIs DEF GInv
  <2> QED BY <2>1 DEF GInv, Leads, Kin
<1>4. CASE UNCHANGED geometryVars
  BY <1>4 DEF GInv, geometryVars
<1> QED BY <1>1, <1>2, <1>3, <1>4 DEF GeometryNext

----------------------------------------------------------------------------
(* What holds in every state of the window, whatever the user does *)

THEOREM GeometryInvariant == GeometrySpec => []GInv
<1>1. GeometryInit => GInv BY InitIs
<1>2. GInv /\ [GeometryNext]_geometryVars => GInv' BY NextKeepsGInv
<1> QED BY <1>1, <1>2, PTL DEF GeometrySpec

\* The view has its type, no two outputs are in one place, axes are resized in a
\* resize only, and the flag of view_adjust_for_layout_change() does not outlast it.
THEOREM GeometryTypeCorrect == GeometrySpec => []GeometryTypeOK
<1>1. GInv => GeometryTypeOK BY DEF GInv, Good, Base, ModesAre, GeometryTypeOK
<1> QED BY <1>1, GeometryInvariant, PTL

\* A window is tiled to a region only that the code has not destroyed.
THEOREM RegionsAreThere == GeometrySpec => []RegionsExist
<1>1. GInv => RegionsExist BY DEF GInv, Good, Base, RegionsAre, RegionsExist
<1> QED BY <1>1, GeometryInvariant, PTL

\* A window that was given 0x0, which is never sent, is asked for something else:
\* the client answers, and chooses a size.
THEOREM SizeIsAlwaysAsked == GeometrySpec => []SizeIsAsked
<1>1. ASSUME GInv PROVE SizeIsAsked
  BY <1>1 DEF GInv, Good, PendingIs, SizeIsAsked, Floating
<1> QED BY <1>1, GeometryInvariant, PTL

----------------------------------------------------------------------------
(* Outputs that come back *)

\* The geometry of a window that is neither floating nor tiled to a region
SpecialAt(slot, s) ==
    IF s.fullscreen THEN FullscreenBox(slot)
    ELSE IF s.maximized # {} THEN MaximizedBox(slot, s)
    ELSE EdgeBox(slot, s.tiled)

\* Its size is the same in every slot, and depends on the state only.
LEMMA SpecialAtIs ==
  ASSUME NEW s \in Server, NEW slot \in Slots
  PROVE /\ SpecialAt(slot, s) \in Boxes
        /\ \A k : /\ SpecialAt(k, s).h = SpecialAt(slot, s).h
                  /\ SpecialAt(k, s).v = SpecialAt(slot, s).v
        /\ \A t : /\ SameAxes(s, t) /\ t.natural = s.natural /\ t.tiled = s.tiled
                  => SpecialAt(slot, t) = SpecialAt(slot, s)
<1>1. CASE s.fullscreen
  <2>1. SpecialAt(slot, s) \in Boxes BY <1>1, FullscreenBoxIs DEF SpecialAt
  <2> QED BY <1>1, <2>1 DEF SpecialAt, FullscreenBox, SameAxes
<1>2. CASE ~s.fullscreen /\ s.maximized # {}
  <2>1. SpecialAt(slot, s) \in Boxes BY <1>2, MaximizedBoxIs DEF SpecialAt
  <2> QED BY <1>2, <2>1 DEF SpecialAt, MaximizedBox, SameAxes
<1>3. CASE ~s.fullscreen /\ s.maximized = {}
  <2>1. SpecialAt(slot, s) \in Boxes BY <1>3, EdgeBoxIs DEF SpecialAt
  <2> QED BY <1>3, <2>1 DEF SpecialAt, EdgeBox, SameAxes
<1> QED BY <1>1, <1>2, <1>3

\* view_apply_special_geometry() gives the window that geometry.
LEMMA ApplySpecialIs ==
  ASSUME NEW s, Good(s), ~Floating(s), s.region = None, ~s.evacuate, Usable(s, s.output)
  PROVE ApplySpecial(s) = MoveResize(s, SpecialAt(s.at[s.output], s))
BY DEF ApplySpecial, SpecialAt, Floating, Tiled

\* A layout change does not change the state of such a window, nor its size; where
\* its last output is, it gets its last placement.
LEMMA AdjustForLayoutChangeIs ==
  ASSUME NEW s, Good(s), ~s.adjusting, ~Unplaced(s), s.region = None, ~s.evacuate
  PROVE LET t == AdjustForLayoutChange(s)
        IN  /\ SameAxes(s, t) /\ t.natural = s.natural /\ t.tiled = s.tiled
            /\ t.region = None /\ ~t.evacuate
            /\ Floating(s) =>
                 t.pending.h = s.last.geo.h /\ t.pending.v = s.last.geo.v
            /\ ~Floating(s) =>
                 \/ t.pending.h = s.pending.h /\ t.pending.v = s.pending.v
                 \/ \E slot \in Slots : /\ t.pending.h = SpecialAt(slot, s).h
                                        /\ t.pending.v = SpecialAt(slot, s).v
            /\ /\ Usable(s, s.last.output) /\ s.last.geo.slot = s.at[s.last.output]
               /\ Floating(s) \/ s.last.geo = SpecialAt(s.at[s.last.output], s)
               => t.pending = s.last.geo /\ t.output = s.last.output
<1> DEFINE u == Rehomed(s)
           slot == u.at[u.output]
           a == AdjustFloating(u, u.last.geo)
           x == SpecialAt(slot, u)
           w == IF Floating(u) THEN MoveResize(u, a) ELSE ApplySpecial(u)
           t == [w EXCEPT !.adjusting = FALSE]
<1>1. AdjustForLayoutChange(s) = t BY DEF AdjustForLayoutChange, Unplaced, Rehomed
<1>2. /\ Good(u) /\ u.at = s.at /\ SameAxes(s, u) /\ u.tiled = s.tiled
      /\ u.region = None /\ u.evacuate = s.evacuate
      /\ u.natural = s.natural /\ u.pending = s.pending /\ u.last = s.last
      /\ Usable(s, s.last.output) => u.output = s.last.output
  BY RehomedIs DEF SameAxes
<1> HIDE DEF u
<1>3. u \in Server /\ s \in Server BY <1>2 DEF Good, Base
<1>4. (Floating(u) <=> Floating(s)) /\ \A o : Usable(u, o) <=> Usable(s, o)
  BY <1>2, UsableSame DEF Floating, Tiled, SameAxes
<1>5. Usable(u, u.output) => slot \in Slots BY <1>3, UsableIs
<1>6. s.last.geo \in Boxes BY <1>3 DEF Server
<1> HIDE DEF slot
\* What the geometry g, given to the view, makes of it
<1>7. ASSUME NEW g \in Boxes, w = MoveResize(u, g)
      PROVE /\ t.fullscreen = u.fullscreen /\ t.maximized = u.maximized
            /\ t.natural = u.natural /\ t.tiled = u.tiled
            /\ t.region = u.region /\ t.evacuate = u.evacuate
            /\ t.pending.h = g.h /\ t.pending.v = g.v
            /\ Usable(u, u.output) /\ g.slot = slot =>
                 t.pending = g /\ t.output = u.output
  <2>1. Shaped(u, g, w) BY <1>3, <1>7, MoveResizeIs
  <2> HIDE DEF w
  <2>2. w \in Server BY <2>1 DEF Shaped
  <2>3. /\ t.fullscreen = w.fullscreen /\ t.maximized = w.maximized
        /\ t.natural = w.natural /\ t.tiled = w.tiled
        /\ t.region = w.region /\ t.evacuate = w.evacuate
        /\ t.pending = w.pending /\ t.output = w.output
    BY <2>2 DEF Server
  <2> HIDE DEF t
  <2> QED BY <2>1, <2>3 DEF Shaped, SameState, slot
<1>8. CASE Floating(u)
  <2>1. a \in Boxes /\ a.h = s.last.geo.h /\ a.v = s.last.geo.v
        /\ (s.last.geo.slot = slot => a = s.last.geo)
        /\ (Usable(u, u.output) => a.slot = slot)
    BY <1>2, <1>5, <1>6, BoxesAre DEF AdjustFloating, slot
  <2>2. w = MoveResize(u, a) BY <1>8
  <2> HIDE DEF a, w, t
  <2>3. /\ t.fullscreen = u.fullscreen /\ t.maximized = u.maximized
        /\ t.natural = u.natural /\ t.tiled = u.tiled
        /\ t.region = u.region /\ t.evacuate = u.evacuate
        /\ t.pending.h = a.h /\ t.pending.v = a.v
        /\ Usable(u, u.output) /\ a.slot = slot =>
             t.pending = a /\ t.output = u.output
    BY <1>7, <2>1, <2>2
  <2> QED BY <1>1, <1>2, <1>4, <1>8, <2>1, <2>3 DEF SameAxes, slot
<1>9. CASE ~Floating(u) /\ Usable(u, u.output)
  <2>1. x \in Boxes /\ x = SpecialAt(slot, s)
    BY <1>2, <1>3, <1>5, <1>9, SpecialAtIs
  <2>2. w = MoveResize(u, x) BY <1>2, <1>9, ApplySpecialIs DEF slot
  <2> HIDE DEF x, w, t
  <2>3. /\ t.fullscreen = u.fullscreen /\ t.maximized = u.maximized
        /\ t.natural = u.natural /\ t.tiled = u.tiled
        /\ t.region = u.region /\ t.evacuate = u.evacuate
        /\ t.pending.h = x.h /\ t.pending.v = x.v
        /\ Usable(u, u.output) /\ x.slot = slot =>
             t.pending = x /\ t.output = u.output
    BY <1>7, <2>1, <2>2
  <2>4. \E k \in Slots : /\ t.pending.h = SpecialAt(k, s).h
                         /\ t.pending.v = SpecialAt(k, s).v
    BY <1>5, <1>9, <2>1, <2>3
  <2> QED BY <1>1, <1>2, <1>4, <1>9, <2>1, <2>3, <2>4 DEF SameAxes, slot
<1>10. CASE ~Floating(u) /\ ~Usable(u, u.output)
  <2>1. w = u BY <1>10 DEF ApplySpecial
  <2> HIDE DEF w
  <2>2. /\ t.fullscreen = u.fullscreen /\ t.maximized = u.maximized
        /\ t.natural = u.natural /\ t.tiled = u.tiled
        /\ t.region = u.region /\ t.evacuate = u.evacuate /\ t.pending = u.pending
    BY <1>3, <2>1 DEF Server
  <2> HIDE DEF t
  <2> QED BY <1>1, <1>2, <1>4, <1>10, <2>2 DEF SameAxes
<1> QED BY <1>8, <1>9, <1>10

\* What is known of the window since it was settled, whatever has become of the
\* outputs: its last placement and its state, and so the size, are the same.
SinceSettled(s, k) ==
    k.settled =>
      /\ s.last = [output |-> k.output, geo |-> k.geo]
      /\ k.output \in In(k.at) /\ k.geo.slot = k.at[k.output] /\ ~Empty(k.geo)
      /\ s.region = None /\ ~s.evacuate
      /\ s.pending.h = k.geo.h /\ s.pending.v = k.geo.v
      /\ Floating(s) \/ k.geo = SpecialAt(k.at[k.output], s)
      /\ s.at = k.at => s.pending = k.geo /\ s.output = k.output

\* So it is when the history begins anew.
LEMMA KeptIs ==
  ASSUME NEW s
  PROVE SinceSettled(s, Kept(s))
<1> DEFINE k == Kept(s)
<1>1. k.settled = Settled(s) /\ k.at = s.at /\ k.output = s.output /\ k.geo = s.pending
  BY DEF Kept
<1> HIDE DEF k
<1>2. ASSUME Settled(s)
      PROVE /\ Usable(s, s.output) /\ s.region = None /\ ~s.evacuate
            /\ ~Empty(s.pending) /\ s.pending.slot = s.at[s.output]
            /\ s.last = [output |-> s.output, geo |-> s.pending]
            /\ Floating(s) \/ s.pending = SpecialAt(s.at[s.output], s)
  BY <1>2 DEF Settled, SpecialBox, SpecialAt, Floating, Tiled
<1> QED BY <1>1, <1>2 DEF SinceSettled, Usable, Plugged, k

\* The invariant of the window and its history
KInv == GInv /\ SinceSettled(server, kept)

LEMMA LayoutStepKeepsSettled ==
  ASSUME KInv, LayoutStep
  PROVE SinceSettled(server', kept')
<1> DEFINE k == kept
<1>1. Good(server) /\ ~server.adjusting BY DEF KInv, GInv
<1>2. kept' = k BY <1>1, LayoutStepIs
<1>3. PICK at \in Layout : \E t :
        Changed(server, t, at) /\ server' = AdjustForLayoutChange(t)
  BY <1>1, LayoutStepIs
<1>4. PICK t : Changed(server, t, at) /\ server' = AdjustForLayoutChange(t)
  BY <1>3
<1> DEFINE r == AdjustForLayoutChange(t)
<1>5. SUFFICES ASSUME k.settled PROVE SinceSettled(r, k) BY <1>2, <1>4 DEF SinceSettled
<1>6. /\ server.last = [output |-> k.output, geo |-> k.geo]
      /\ k.output \in In(k.at) /\ k.geo.slot = k.at[k.output] /\ ~Empty(k.geo)
      /\ server.region = None /\ ~server.evacuate
      /\ server.pending.h = k.geo.h /\ server.pending.v = k.geo.v
      /\ Floating(server) \/ k.geo = SpecialAt(k.at[k.output], server)
  BY <1>5 DEF KInv, SinceSettled
<1> DEFINE slot == k.at[k.output]
<1>7. server \in Server BY <1>1 DEF Good, Base
<1>8. k.geo \in Boxes
  <2>1. server.last.geo \in Boxes BY <1>7 DEF Server
  <2> QED BY <1>6, <2>1
<1>9. slot \in Slots BY <1>6, <1>8, BoxesAre
<1>10. /\ Good(t) /\ ~t.adjusting /\ t.at = at /\ t.region = None /\ ~t.evacuate
       /\ SameAxes(server, t) /\ t.natural = server.natural /\ t.tiled = server.tiled
       /\ t.pending = server.pending /\ t.last = server.last
  BY <1>4, <1>6 DEF Changed
<1>11. t.last.output = k.output /\ t.last.geo = k.geo BY <1>6, <1>10
<1>12. ~Unplaced(t)
  <2>1. ~Empty(t.pending) BY <1>6, <1>10 DEF Empty
  <2> QED BY <1>6, <1>11, <2>1 DEF Unplaced
<1>13. /\ SameAxes(t, r) /\ r.natural = t.natural /\ r.tiled = t.tiled
       /\ r.region = None /\ ~r.evacuate
       /\ Floating(t) => r.pending.h = k.geo.h /\ r.pending.v = k.geo.v
       /\ ~Floating(t) =>
            \/ r.pending.h = t.pending.h /\ r.pending.v = t.pending.v
            \/ \E o \in Slots : /\ r.pending.h = SpecialAt(o, t).h
                                /\ r.pending.v = SpecialAt(o, t).v
       /\ /\ Usable(t, k.output) /\ k.geo.slot = t.at[k.output]
          /\ Floating(t) \/ k.geo = SpecialAt(t.at[k.output], t)
          => r.pending = k.geo /\ r.output = k.output
  BY <1>10, <1>11, <1>12, AdjustForLayoutChangeIs
<1>14. r.last = t.last /\ r.at = t.at BY <1>10, AdjustForLayoutChangeGood
<1> HIDE DEF r, k
<1>15. (Floating(t) <=> Floating(server)) /\ (Floating(r) <=> Floating(server))
  BY <1>6, <1>10, <1>13 DEF Floating, Tiled, SameAxes
<1>16. SpecialAt(slot, t) = SpecialAt(slot, server)
       /\ SpecialAt(slot, r) = SpecialAt(slot, server)
  <2>1. SameAxes(server, r) /\ r.natural = server.natural /\ r.tiled = server.tiled
    BY <1>10, <1>13 DEF SameAxes
  <2> QED BY <1>7, <1>9, <1>10, <2>1, SpecialAtIs
<1>17. \A o : /\ SpecialAt(o, t).h = SpecialAt(slot, t).h
              /\ SpecialAt(o, t).v = SpecialAt(slot, t).v
  <2>1. t \in Server BY <1>10 DEF Good, Base
  <2> QED BY <1>9, <2>1, SpecialAtIs
<1> HIDE DEF slot
<1>18. r.pending.h = k.geo.h /\ r.pending.v = k.geo.v
  <2>1. CASE Floating(server) BY <1>13, <1>15, <2>1
  <2>2. CASE ~Floating(server)
    <3>1. k.geo = SpecialAt(slot, t) BY <1>6, <1>16, <2>2 DEF slot
    <3>2. \/ r.pending.h = t.pending.h /\ r.pending.v = t.pending.v
          \/ r.pending.h = SpecialAt(slot, t).h /\ r.pending.v = SpecialAt(slot, t).v
      BY <1>13, <1>15, <1>17, <2>2
    <3> QED BY <1>6, <1>10, <3>1, <3>2
  <2> QED BY <2>1, <2>2
<1>19. Floating(r) \/ k.geo = SpecialAt(k.at[k.output], r)
  BY <1>6, <1>15, <1>16 DEF slot
<1>20. ASSUME r.at = k.at PROVE r.pending = k.geo /\ r.output = k.output
  <2>1. t.at = k.at BY <1>14, <1>20
  <2>2. Usable(t, k.output) BY <1>6, <2>1 DEF Usable, Plugged
  <2>3. Floating(t) \/ k.geo = SpecialAt(t.at[k.output], t)
    BY <1>6, <1>15, <1>16, <2>1 DEF slot
  <2> QED BY <1>6, <1>13, <2>1, <2>2, <2>3
<1> QED
  BY <1>6, <1>10, <1>11, <1>13, <1>14, <1>18, <1>19, <1>20 DEF SinceSettled

\* The client answers a window that it has a size for.
LEMMA CommittedKeepsSettled ==
  ASSUME NEW s, NEW k, Good(s), SinceSettled(s, k)
  PROVE SinceSettled(Committed(s), k)
<1> DEFINE t == Committed(s)
<1>1. SUFFICES ASSUME k.settled PROVE SinceSettled(t, k) BY DEF SinceSettled
<1>2. /\ s.last = [output |-> k.output, geo |-> k.geo]
      /\ k.output \in In(k.at) /\ k.geo.slot = k.at[k.output] /\ ~Empty(k.geo)
      /\ s.region = None /\ ~s.evacuate
      /\ s.pending.h = k.geo.h /\ s.pending.v = k.geo.v
      /\ Floating(s) \/ k.geo = SpecialAt(k.at[k.output], s)
      /\ s.at = k.at => s.pending = k.geo /\ s.output = k.output
  BY <1>1 DEF SinceSettled
<1>3. ~Empty(s.pending) BY <1>2 DEF Empty
<1>4. /\ SameState(s, t) /\ t.last = s.last
      /\ t.pending.h = s.pending.h /\ t.pending.v = s.pending.v
      /\ Usable(s, s.output) /\ s.pending.slot = s.at[s.output] =>
           t.output = s.output /\ t.pending = s.pending
  BY <1>3, CommittedIs DEF Good
<1> HIDE DEF t
<1>5. s \in Server BY DEF Good, Base
<1>6. k.at[k.output] \in Slots
  <2>1. s.last.geo \in Boxes BY <1>5 DEF Server
  <2>2. k.geo \in Boxes BY <1>2, <2>1
  <2> QED BY <1>2, <2>2, BoxesAre
<1>7. SpecialAt(k.at[k.output], t) = SpecialAt(k.at[k.output], s)
  BY <1>4, <1>5, <1>6, SpecialAtIs DEF SameState, SameAxes
<1>8. Floating(t) <=> Floating(s) BY <1>4, SameStateIs
<1>9. ASSUME t.at = k.at PROVE t.pending = k.geo /\ t.output = k.output
  <2>1. s.at = k.at BY <1>4, <1>9 DEF SameState
  <2>2. Usable(s, s.output) /\ s.pending.slot = s.at[s.output]
    BY <1>2, <2>1 DEF Usable, Plugged
  <2> QED BY <1>2, <1>4, <2>1, <2>2
<1> QED BY <1>2, <1>4, <1>7, <1>8, <1>9 DEF SinceSettled, SameState

LEMMA NextKeepsKInv ==
  ASSUME KInv, [GeometryNext]_geometryVars
  PROVE KInv'
<1>1. GInv' BY NextKeepsGInv DEF KInv
<1>2. SinceSettled(server', kept')
  <2>1. CASE LayoutStep BY <2>1, LayoutStepKeepsSettled
  <2>2. CASE UserStep
    <3>1. kept' = Kept(server') BY <2>2, UserStepKeeps DEF KInv, GInv
    <3> QED BY <3>1, KeptIs
  <2>3. CASE ResizesItself
    <3>1. kept' = Kept(server') BY <2>3 DEF ResizesItself, Does
    <3> QED BY <3>1, KeptIs
  <2>4. CASE Commits
    <3>1. PICK w \in Widths, h \in Heights, slot \in Occupied \cup {1} :
            LET s == Commit(server, w, h, slot)
            IN  IF Empty(server.pending) THEN Does(s) ELSE LaysOut(s)
      BY <2>4 DEF Commits
    <3>2. CASE Empty(server.pending)
      <4>1. kept' = Kept(server') BY <3>1, <3>2 DEF Does
      <4> QED BY <4>1, KeptIs
    <3>3. CASE ~Empty(server.pending)
      <4>1. server' = Committed(server) /\ kept' = kept
        BY <3>1, <3>3 DEF LaysOut, Commit
      <4>2. SinceSettled(Committed(server), kept)
        BY CommittedKeepsSettled DEF KInv, GInv
      <4> QED BY <4>1, <4>2
    <3> QED BY <3>2, <3>3
  <2>5. CASE UNCHANGED geometryVars BY <2>5 DEF KInv, geometryVars
  <2> QED BY <2>1, <2>2, <2>3, <2>4, <2>5 DEF GeometryNext, ClientStep
<1> QED BY <1>1, <1>2 DEF KInv

\* Outputs go, come and are arranged anew, in any number and order, with the client
\* answering in between or late: when they are where they were, so is the window,
\* on the same output with the same geometry.
THEOREM WindowsComeBack == GeometrySpec => []OutputsComeBack
<1>1. ASSUME GeometryInit PROVE KInv
  <2>1. GInv /\ kept = Kept(server) BY <1>1, InitIs
  <2> QED BY <2>1, KeptIs DEF KInv
<1>2. KInv /\ [GeometryNext]_geometryVars => KInv' BY NextKeepsKInv
<1>3. KInv => OutputsComeBack BY DEF KInv, SinceSettled, OutputsComeBack
<1> QED BY <1>1, <1>2, <1>3, PTL DEF GeometrySpec

----------------------------------------------------------------------------
(* The window of a user who waits for the client (MCViewGeometry) *)

\* A user who waits is one of the users.
THEOREM WaitingIsASpecialCase == MCSpec => GeometrySpec
<1>1. MCNext => GeometryNext
  BY DEF MCNext, MCUserStep, GeometryNext, UserStep, ClientStep
<1> QED BY <1>1, PTL DEF MCSpec, GeometrySpec

\* A window with a size, or one that is dragged, is on an output in use, if there
\* is one and the window was ever placed.
Placed(s) ==
    /\ Plugged(s) # {} /\ ~Empty(s.last.geo)
    /\ ~Empty(s.pending) \/ s.input_mode # "passthrough"
    => Usable(s, s.output)

\* Without such an output a window may lose the size that it is to choose; the
\* user does nothing to it until the client has answered.
MInv == GInv /\ Single(server) /\ Full(server) /\ Placed(server)

\* A window without a size waits for the client.
LEMMA EmptyWaits ==
  ASSUME MInv, Empty(server.pending)
  PROVE server.awaiting /\ Floating(server)
BY DEF MInv, GInv, Good, PendingIs, Full, Floating

LEMMA UserStepKeepsMInv ==
  ASSUME MInv, MCUserStep
  PROVE MInv'
<1>1. Plugged(server) # {} /\ UserStep
      /\ (Cardinality(server'.maximized) = 1 => ~Empty(server'.natural))
  BY DEF MCUserStep, UserStep
<1>2. Good(server) /\ ~server.adjusting /\ ~Empty(server.current)
  BY DEF MInv, GInv
<1>3. Keeps(server, server') BY <1>1, <1>2, UserStepKeeps
<1>4. Good(server') /\ Kin(server, server') BY <1>3 DEF Keeps, Leads
<1>5. GInv' BY <1>2, <1>4 DEF GInv, Kin
<1>6. Single(server') BY <1>1 DEF Single
<1>7. CASE server.awaiting
  <2>1. Motion \/ Finish BY <1>7 DEF MCUserStep
  <2>2. Full(server') BY <1>2, <2>1, PointerStepKeeps DEF MInv
  <2>3. server.input_mode # "passthrough" BY <2>1 DEF Motion, Finish
  <2>4. Placed(server')
    BY <1>1, <1>4, <2>3 DEF MInv, Placed, Kin, Plugged
  <2> QED BY <1>5, <1>6, <2>2, <2>4 DEF MInv
<1>8. CASE ~server.awaiting
  <2>1. ~Empty(server.pending) BY <1>8, EmptyWaits
  <2>2. Full(server') BY <1>3, <1>6, <2>1 DEF MInv, Keeps
  <2>3. Placed(server')
    BY <1>1, <1>4, <2>1 DEF MInv, Placed, Kin, Plugged
  <2> QED BY <1>5, <1>6, <2>2, <2>3 DEF MInv
<1> QED BY <1>7, <1>8

LEMMA ClientStepKeepsMInv ==
  ASSUME MInv, ClientStep, Commits => Plugged(server) # {}
  PROVE MInv'
<1>1. Good(server) /\ ~server.adjusting BY DEF MInv, GInv
<1>2. /\ Leads(server, server') /\ SameState(server, server')
      /\ ~Empty(server'.current) /\ ~Empty(server'.pending)
      /\ Floating(server) /\ Plugged(server) # {} => Usable(server', server'.output)
  BY <1>1, ClientStepIs
<1>3. GInv' BY <1>1, <1>2 DEF GInv, Leads, SameState
<1>4. Single(server') /\ Full(server')
  BY <1>2 DEF MInv, Single, Full, SameState
<1>5. ASSUME Plugged(server') # {}, ~Empty(server'.last.geo)
      PROVE Usable(server', server'.output)
  <2>1. Plugged(server) # {} BY <1>2, <1>5, SameStateIs
  <2>2. CASE Empty(server.pending) BY <1>2, <2>1, <2>2, EmptyWaits
  <2>3. CASE ~Empty(server.pending)
    BY <1>2, <1>5, <2>1, <2>3 DEF MInv, Placed, Leads, Kin
  <2> QED BY <2>2, <2>3
<1> QED BY <1>3, <1>4, <1>5 DEF MInv, Placed

LEMMA LayoutStepKeepsMInv ==
  ASSUME MInv, LayoutStep, server.input_mode = "passthrough"
  PROVE MInv'
<1>1. Good(server) /\ ~server.adjusting /\ ~Empty(server.current)
  BY DEF MInv, GInv
<1>2. PICK at \in Layout : \E t :
        Changed(server, t, at) /\ server' = AdjustForLayoutChange(t)
  BY <1>1, LayoutStepIs
<1>3. PICK t : Changed(server, t, at) /\ server' = AdjustForLayoutChange(t)
  BY <1>2
<1> DEFINE r == AdjustForLayoutChange(t)
<1>4. /\ Good(t) /\ ~t.adjusting /\ t.input_mode = "passthrough"
      /\ SameAxes(server, t) /\ t.natural = server.natural
      /\ t.pending = server.pending /\ t.current = server.current
  BY <1>3 DEF Changed
<1>5. /\ Good(r) /\ ~r.adjusting /\ r.at = t.at /\ r.last = t.last
      /\ r.input_mode = t.input_mode /\ SameAxes(t, r) /\ r.natural = t.natural
      /\ ~Empty(t.current) => ~Empty(r.current)
      /\ ~Unplaced(t) /\ Plugged(t) # {} => Usable(r, r.output)
      /\ Unplaced(t) => r = t
      /\ Full(t) /\ Single(t) => Full(r)
  BY <1>4, AdjustForLayoutChangeGood
<1> HIDE DEF r
<1>6. server' = r BY <1>3 DEF r
<1>7. GInv' BY <1>1, <1>4, <1>5, <1>6 DEF GInv
<1>8. Single(t) /\ Full(t) BY <1>4 DEF MInv, Single, Full, SameAxes
<1>9. Single(r) /\ Full(r) BY <1>5, <1>8 DEF Single, SameAxes
<1>10. Placed(r) BY <1>4, <1>5 DEF Placed, Unplaced, Plugged
<1> QED BY <1>6, <1>7, <1>9, <1>10 DEF MInv

LEMMA MInvStarts == ASSUME GeometryInit PROVE MInv
<1>1. /\ GInv /\ Usable(server, server.output)
      /\ server.maximized \in {{}, Axes} /\ ~Empty(server.pending)
  BY InitIs
<1>2. Cardinality(server.maximized) # 1
  <2>1. CASE server.maximized = {}
    <3>1. Cardinality({}) = 0 BY FS_EmptySet
    <3> QED BY <2>1, <3>1
  <2>2. CASE server.maximized = Axes
    BY <2>2, AxesAre
  <2> QED BY <1>1, <2>1, <2>2
<1> QED BY <1>1, <1>2 DEF MInv, Single, Full, Placed

LEMMA NextKeepsMInv ==
  ASSUME MInv, [MCNext]_geometryVars
  PROVE MInv'
<1>1. CASE MCUserStep BY <1>1, UserStepKeepsMInv
<1>2. CASE Plugged(server) # {} /\ Commits
  BY <1>2, ClientStepKeepsMInv DEF ClientStep
<1>3. CASE /\ server.input_mode = "passthrough" /\ Plugged(server) # {}
           /\ ResizesItself
  BY <1>3, ClientStepKeepsMInv DEF ClientStep
<1>4. CASE server.input_mode = "passthrough" /\ LayoutStep
  BY <1>4, LayoutStepKeepsMInv
<1>5. CASE UNCHANGED geometryVars
  BY <1>5 DEF MInv, GInv, geometryVars
<1> QED BY <1>1, <1>2, <1>3, <1>4, <1>5 DEF MCNext

\* As long as there is an output, the window is on one that is in use, and its
\* region is one that exists: outputs that go take no window with them.
THEOREM WindowsStayOnOutputs == MCSpec => []PlacedOnOutputs
<1>1. GeometryInit => MInv BY MInvStarts
<1>2. MInv /\ [MCNext]_geometryVars => MInv' BY NextKeepsMInv
<1>3. ASSUME MInv PROVE PlacedOnOutputs
  <2>1. GeometryTypeOK /\ RegionsExist
    BY <1>3 DEF MInv, GInv, Good, Base, ModesAre, RegionsAre, GeometryTypeOK, RegionsExist
  <2>2. OnAnOutput BY <1>3 DEF MInv, Placed, OnAnOutput
  <2> QED BY <2>1, <2>2 DEF PlacedOnOutputs
<1> QED BY <1>1, <1>2, <1>3, PTL DEF MCSpec

----------------------------------------------------------------------------
(* The geometry of the state, for a user who waits *)

\* A view that is on no output in use has no state but a maximized one: it was
\* never placed.
Homed(s) == ~Usable(s, s.output) => ~s.fullscreen /\ ~Tiled(s)

\* What is neither fullscreen nor tiled, as when the pointer resizes it or there
\* was no output in use to place it on
Bare(s, t) ==
    /\ ~t.fullscreen /\ ~Tiled(t)
    /\ Usable(s, s.output) => t.input_mode = "resize"

\* What an operation of the user does to the geometry
Outcome(s, t) == Still(s, t) \/ Lands(t) \/ Bare(s, t)

LEMMA OutcomeIs ==
  ASSUME NEW s, NEW t, Homed(s), t = s \/ Lands(t) \/ Stays(s, t)
  PROVE Outcome(s, t)
<1>1. Still(s, s) BY DEF Still, Remembers
<1>2. Stays(s, t) => Bare(s, t) BY DEF Stays, Bare, Homed
<1> QED BY <1>1, <1>2 DEF Outcome

\* The state changes with the geometry.
LEMMA StateStepShows ==
  ASSUME Good(server), Sound(server), Homed(server), Plugged(server) # {}, StateStep
  PROVE Outcome(server, server')
<1>0. FullShown(server) /\ Rests(server) BY DEF Sound
<1>1. CASE Maximizes
  <2>1. PICK axes \in SUBSET Axes : server' = Maximize(server, axes)
    BY <1>1 DEF Maximizes, Does
  <2>2. LET t == Maximize(server, axes) IN t = server \/ Lands(t) \/ Stays(server, t)
    BY MaximizeGood
  <2> QED BY <2>1, <2>2, OutcomeIs
<1>2. CASE Fullscreens
  <2>1. PICK b \in BOOLEAN : server' = SetFullscreen(server, b)
    BY <1>2 DEF Fullscreens, Does
  <2>2. LET t == SetFullscreen(server, b)
        IN  t = server \/ Lands(t) \/ Stays(server, t)
    BY SetFullscreenGood
  <2> QED BY <2>1, <2>2, OutcomeIs
<1>3. CASE RequestFullscreen
  <2>1. PICK o \in Outputs : server' = SetFullscreen(SetOutput(server, o), TRUE)
    BY <1>3 DEF RequestFullscreen, Does
  <2> DEFINE t == SetOutput(server, o)
             r == SetFullscreen(t, TRUE)
  <2>2. /\ Base(t) /\ NaturalIs(t) /\ PendingIs(t) /\ t.fullscreen = server.fullscreen
        /\ IF Usable(server, o) THEN t.output = o /\ Usable(t, o) ELSE t = server
    BY SetOutputIs DEF Good, SameAxes
  <2>3. server' = r BY <2>1
  <2> HIDE DEF t
  <2>4. /\ r = t \/ Lands(r) \/ Stays(t, r)
        /\ Usable(t, t.output) => r.fullscreen = TRUE
    BY <2>2, SetFullscreenGood DEF Good
  <2> HIDE DEF r
  <2>5. CASE Usable(server, o)
    <3>1. ~server.fullscreen BY <1>3 DEF RequestFullscreen
    <3> QED BY <2>2, <2>3, <2>4, <2>5, <3>1 DEF Stays, Outcome
  <2>6. CASE ~Usable(server, o) BY <2>2, <2>3, <2>4, <2>6, OutcomeIs
  <2> QED BY <2>5, <2>6
<1>4. ASSUME ~server.fullscreen, server' = ApplyNatural(SetUntiled(server)),
             server.maximized = {}
      PROVE Outcome(server, server')
  BY <1>4, ApplyUntiledGood DEF SameAxes, Floating, Outcome, Lands
<1>5. CASE SnapsToEdge
  <2>1. PICK edge \in SnapEdges :
          \/ \E combine \in BOOLEAN :
                server' = SnapToEdge(server, edge, TRUE, combine)
          \/ /\ server.maximized = {} /\ ~server.fullscreen
             /\ server' = ApplyNatural(SetUntiled(server))
    BY <1>5 DEF SnapsToEdge, Does
  <2>2. ASSUME NEW combine \in BOOLEAN,
               server' = SnapToEdge(server, edge, TRUE, combine)
        PROVE Outcome(server, server')
    <3>1. LET t == SnapToEdge(server, edge, TRUE, combine) IN t = server \/ Lands(t)
      BY SnapToEdgeGood
    <3> QED BY <2>2, <3>1, OutcomeIs
  <2> QED BY <1>4, <2>1, <2>2
<1>6. CASE SnapsToRegion
  <2>1. /\ server.regions /\ Usable(server, server.output)
        /\ \/ server' = SnapToRegion(server, server.output)
           \/ /\ server.maximized = {} /\ ~server.fullscreen
              /\ server' = ApplyNatural(SetUntiled(server))
    BY <1>6 DEF SnapsToRegion, Does
  <2>2. LET t == SnapToRegion(server, server.output) IN t = server \/ Lands(t)
    BY <2>1, SnapToRegionGood
  <2> QED BY <1>4, <2>1, <2>2, OutcomeIs
<1>7. CASE UnSnaps
  <2>1. server' = UnSnap(server) BY <1>7 DEF UnSnaps, Does
  <2>2. LET t == UnSnap(server) IN t = server \/ Floating(t) BY UnSnapGood
  <2> QED BY <2>1, <2>2, OutcomeIs DEF Lands
<1>8. CASE Places
  <2>1. server' = PlaceByPolicy(server) BY <1>8 DEF Places, Does
  <2>2. Floating(PlaceByPolicy(server)) BY PlaceByPolicyGood
  <2> QED BY <2>1, <2>2 DEF Outcome, Lands
<1>9. CASE MovesToEdge
  <2>1. PICK edge \in SnapEdges : server' = MoveToEdge(server, edge)
    BY <1>9 DEF MovesToEdge, Does
  <2>2. LET t == MoveToEdge(server, edge) IN t = server \/ Lands(t)
    BY <1>0, MoveToEdgeGood
  <2> QED BY <2>1, <2>2, OutcomeIs
<1>10. CASE MovesToOutput
  <2>1. PICK o \in Plugged(server) : server' = MoveToOutput(server, o)
    BY <1>10 DEF MovesToOutput, Does
  <2>2. Lands(MoveToOutput(server, o)) BY <1>0, MoveToOutputGood
  <2> QED BY <2>1, <2>2 DEF Outcome
<1>11. CASE BeginsMove
  <2>1. server.input_mode = "passthrough" /\ server' = BeginMove(server)
    BY <1>11 DEF BeginsMove, Does
  <2>2. LET t == BeginMove(server)
        IN  SameAxes(server, t) /\ SameTile(server, t) /\ t.pending = server.pending
    BY <2>1, BeginMoveGood
  <2>3. Still(server, server')
    BY <2>1, <2>2 DEF Still, State, Remembers, SameAxes, SameTile
  <2> QED BY <2>3 DEF Outcome
<1>12. CASE BeginsResize
  <2>1. PICK axes \in SUBSET Axes : server' = BeginResize(server, axes)
    BY <1>12 DEF BeginsResize, Does
  <2>2. LET t == BeginResize(server, axes)
        IN  t = server \/ (t.input_mode = "resize" /\ ~t.fullscreen /\ ~Tiled(t))
    BY BeginResizeGood
  <2>3. server' = server \/ Bare(server, server') BY <2>1, <2>2 DEF Bare
  <2> QED BY <2>3, OutcomeIs DEF Outcome
<1> QED
  BY <1>1, <1>2, <1>3, <1>5, <1>6, <1>7, <1>8, <1>9, <1>10, <1>11, <1>12 DEF StateStep

\* The pointer drags what is not fullscreen, and drops it where it gets a geometry.
LEMMA PointerStepShows ==
  ASSUME Good(server), Sound(server), ~Empty(server.current), Motion \/ Finish
  PROVE Outcome(server, server')
<1>1. server \in Server BY DEF Good, Base
<1>2. Still(server, server) BY DEF Still, Remembers
<1>3. CASE Motion
  <2>1. ASSUME server.input_mode = "move", NEW slot \in Occupied,
               server' = Drag(server, slot) \/ server' = DragResisted(server, slot)
        PROVE Outcome(server, server')
    <3>1. slot \in Slots BY <1>1, OccupiedIs
    <3>2. Floating(Drag(server, slot)) BY <2>1, <3>1, DragGood
    <3>3. LET t == DragResisted(server, slot) IN t = server \/ Still(server, t)
      BY <3>1, DragResistedGood
    <3> QED BY <1>2, <2>1, <3>2, <3>3 DEF Outcome, Lands
  <2>2. ASSUME server.input_mode = "resize", NEW w \in Widths, NEW h \in Heights,
               server' = DragEdge(server, [slot |-> 1, h |-> w, v |-> h])
        PROVE Outcome(server, server')
    <3> DEFINE g == [slot |-> 1, h |-> w, v |-> h]
    <3>1. g.h \in Widths /\ g.v \in Heights OBVIOUS
    <3>2. server' = DragEdge(server, g) BY <2>2
    <3>3. ~server.fullscreen BY <2>2 DEF Good, Base, ModesAre
    <3> HIDE DEF g
    <3>4. LET t == DragEdge(server, g) IN Floating(t) \/ Still(server, t)
      BY <3>1, <3>3, DragEdgeGood
    <3> QED BY <3>2, <3>4 DEF Outcome, Lands
  <2> QED BY <1>3, <2>1, <2>2 DEF Motion, Does
<1>4. CASE Finish
  <2>1. ASSUME NEW t, Leads(server, t), Full(server) => Full(t), t = server \/ Lands(t),
               server' = Cancel(t)
        PROVE Outcome(server, server')
    BY <2>1, CancelGood DEF Outcome
  <2>2. Leads(server, server) BY LeadsItself
  <2>3. \A o \in Plugged(server) :
          LET t == DropOnRegion(server, o)
          IN  Leads(server, t) /\ (Full(server) => Full(t)) /\ (t = server \/ Lands(t))
    BY DropOnRegionGood
  <2>4. \A o \in Plugged(server) : \A edge \in SnapEdges :
          LET t == DropOnEdge(server, o, edge)
          IN  Leads(server, t) /\ (Full(server) => Full(t)) /\ (t = server \/ Lands(t))
    BY DropOnEdgeGood
  <2>5. \/ server' = Cancel(server)
        \/ \E o \in Plugged(server) :
             \/ server' = Cancel(DropOnRegion(server, o))
             \/ \E edge \in SnapEdges : server' = Cancel(DropOnEdge(server, o, edge))
    BY <1>4 DEF Finish, Does
  <2> QED BY <2>1, <2>2, <2>3, <2>4, <2>5
<1> QED BY <1>3, <1>4

\* Actions that give a size or a place do so to floating windows, or float them.
LEMMA MCUserStepShows ==
  ASSUME Good(server), Sound(server), ~Empty(server.current), Homed(server), MCUserStep
  PROVE Outcome(server, server')
<1>1. server \in Server /\ Plugged(server) # {} BY DEF Good, Base, MCUserStep
<1>2. CASE Motion \/ Finish BY <1>2, PointerStepShows
<1>3. CASE StateStep BY <1>1, <1>3, StateStepShows
<1>4. CASE Floating(server) /\ Moves
  <2>1. PICK slot \in Slots : \/ server' = Move(server, slot)
                              \/ server' = MoveRelative(server, slot)
    BY <1>4 DEF Moves, Does
  <2>2. SameState(server, Move(server, slot)) BY MoveGood
  <2>3. Floating(Move(server, slot)) BY <1>4, <2>2, SameStateIs
  <2>4. LET t == MoveRelative(server, slot) IN t = server \/ Floating(t)
    BY MoveRelativeGood
  <2> QED BY <1>4, <2>1, <2>3, <2>4 DEF Outcome, Lands
<1>5. CASE Floating(server) /\ Resizes
  <2>1. PICK w \in Widths, h \in Heights :
          LET g == [slot |-> server.pending.slot, h |-> w, v |-> h]
          IN  server' = MoveResize(server, g) \/ server' = GrowOrShrink(server, g)
    BY <1>5 DEF Resizes, Does
  <2> DEFINE g == [slot |-> server.pending.slot, h |-> w, v |-> h]
  <2>2. server.pending \in Boxes BY <1>1 DEF Server
  <2>3. server.pending.slot \in Slots BY <2>2, BoxesAre
  <2>4. g \in Boxes /\ ~Empty(g) BY <2>3, WindowBox
  <2>5. server' = MoveResize(server, g) \/ server' = server
    BY <2>1 DEF GrowOrShrink
  <2> HIDE DEF g
  <2>6. SameState(server, MoveResize(server, g)) BY <2>4, ResizeGood
  <2>7. Floating(MoveResize(server, g)) BY <1>5, <2>6, SameStateIs
  <2> QED BY <1>5, <2>5, <2>7 DEF Outcome, Lands
<1>6. CASE ResizesRelative
  <2>1. PICK w \in Widths, h \in Heights, slot \in Slots :
          server' = ResizeRelative(server, [slot |-> slot, h |-> w, v |-> h])
    BY <1>6 DEF ResizesRelative, Does
  <2> DEFINE g == [slot |-> slot, h |-> w, v |-> h]
  <2>2. g \in Boxes /\ ~Empty(g) BY WindowBox
  <2>3. server' = ResizeRelative(server, g) BY <2>1
  <2> HIDE DEF g
  <2>4. LET t == ResizeRelative(server, g) IN t = server \/ Floating(t)
    BY <2>2, ResizeRelativeGood
  <2> QED BY <2>3, <2>4, OutcomeIs DEF Lands
<1> QED BY <1>2, <1>3, <1>4, <1>5, <1>6 DEF MCUserStep

\* The client's answer does not change the state.
LEMMA ClientStepShows ==
  ASSUME MInv, ClientStep
  PROVE Floating(server') \/ Still(server, server')
<1>1. Good(server) /\ ~server.adjusting BY DEF MInv, GInv
<1>2. CASE Floating(server)
  <2>1. SameState(server, server') BY <1>1, ClientStepIs
  <2> QED BY <1>2, <2>1, SameStateIs
<1>3. CASE ~Floating(server)
  <2>1. Commits BY <1>3 DEF ClientStep, ResizesItself
  <2>2. ~Empty(server.pending) BY <1>3, EmptyWaits
  <2>3. server' = Committed(server) BY <2>1, <2>2 DEF Commits, Commit, Does, LaysOut
  <2> QED BY <1>1, <2>2, <2>3, CommittedIs DEF Good
<1> QED BY <1>2, <1>3

\* What MInv needs besides for the geometry to be that of the state
SInv == MInv /\ Sound(server)

\* What SpecialIsShown says of a step
Shows ==
    /\ State(server') # State(server) /\ server'.input_mode # "resize"
    /\ ~Floating(server') /\ Usable(server', server'.output)
    /\ ~Empty(server.last.geo)
    => server'.pending = SpecialBox(server')

LEMMA UserStepShows ==
  ASSUME SInv, MCUserStep
  PROVE Sound(server') /\ Shows
<1>1. Good(server) /\ ~Empty(server.current) /\ Sound(server)
  BY DEF SInv, MInv, GInv
<1>2. MInv' BY UserStepKeepsMInv DEF SInv
<1>3. Good(server') /\ ~server'.adjusting BY <1>2 DEF MInv, GInv
<1>4. Plugged(server) # {} BY DEF MCUserStep
<1>5. ~Empty(server.pending) \/ server.input_mode # "passthrough"
  <2>1. CASE server.awaiting
    <3>1. Motion \/ Finish BY <2>1 DEF MCUserStep
    <3> QED BY <3>1 DEF Motion, Finish
  <2>2. CASE ~server.awaiting BY <2>2, EmptyWaits DEF SInv
  <2> QED BY <2>1, <2>2
<1>6. Usable(server, server.output) \/ Empty(server.last.geo)
  BY <1>4, <1>5 DEF SInv, MInv, Placed
<1>7. Homed(server) BY <1>1, <1>6 DEF Homed, Sound, Secure
<1>8. Outcome(server, server') BY <1>1, <1>7, MCUserStepShows
<1>9. CASE Still(server, server')
  <2>1. Sound(server') BY <1>1, <1>3, <1>9, StillSound
  <2> QED BY <1>9, <2>1 DEF Still, Shows
<1>10. CASE Lands(server')
  <2>1. Sound(server') BY <1>3, <1>10, LandsSound
  <2> QED BY <1>10, <2>1 DEF Lands, Fits, Shows
<1>11. CASE Bare(server, server')
  <2>1. Sound(server')
    BY <1>11 DEF Bare, Sound, Secure, FullShown, Rests, Lost, Tiled
  <2> QED BY <1>6, <1>11, <2>1 DEF Bare, Shows
<1> QED BY <1>8, <1>9, <1>10, <1>11 DEF Outcome

\* A layout change gives the view the geometry of its state, if it was ever placed.
LEMMA LayoutStepShows ==
  ASSUME SInv, LayoutStep, server.input_mode = "passthrough"
  PROVE Sound(server') /\ Shows
<1>1. Good(server) /\ ~server.adjusting /\ Sound(server) BY DEF SInv, MInv, GInv
<1>2. PICK at \in Layout : \E t :
        Changed(server, t, at) /\ server' = AdjustForLayoutChange(t)
  BY <1>1, LayoutStepIs
<1>3. PICK t : Changed(server, t, at) /\ server' = AdjustForLayoutChange(t)
  BY <1>2
<1>4. MInv' BY LayoutStepKeepsMInv DEF SInv
<1>5. Good(server') /\ ~server'.adjusting BY <1>4 DEF MInv, GInv
<1>6. /\ Good(t) /\ ~t.adjusting /\ SameAxes(server, t)
      /\ t.pending = server.pending /\ t.last = server.last
      /\ server.region = None =>
           t.region = None /\ t.evacuate = server.evacuate /\ t.tiled = server.tiled
  BY <1>3 DEF Changed
<1>7. /\ SameAxes(t, server') /\ server'.at = t.at /\ server'.last = t.last
      /\ Unplaced(t) => server' = t
      /\ ~Unplaced(t) => \/ Floating(server') \/ Fits(server')
                         \/ Plugged(t) = {} /\ server'.pending = t.pending
  BY <1>3, <1>6, AdjustForLayoutChangeGood
<1>8. CASE Unplaced(t) /\ Empty(server.pending)
  <2>1. Floating(server) BY <1>8, EmptyWaits DEF SInv
  <2>2. Floating(server') BY <1>6, <1>7, <1>8, <2>1 DEF Floating, Tiled, SameAxes
  <2> QED BY <1>5, <2>2, LandsSound DEF Lands, Shows
<1>9. CASE Unplaced(t) /\ ~Empty(server.pending)
  <2>1. Empty(server.last.geo) BY <1>6, <1>9 DEF Unplaced
  <2>2. ~server.fullscreen /\ ~Tiled(server) BY <1>1, <2>1 DEF Sound, Secure
  <2>3. ~server'.fullscreen /\ ~Tiled(server')
    BY <1>6, <1>7, <1>9, <2>2 DEF SameAxes, Tiled
  <2>4. Sound(server')
    BY <2>3 DEF Sound, Secure, FullShown, Rests, Lost, Tiled
  <2> QED BY <2>1, <2>4 DEF Shows
<1>10. CASE ~Unplaced(t)
  <2>1. ~Empty(server'.last.geo) BY <1>7, <1>10 DEF Unplaced
  <2>2. CASE Floating(server') BY <1>5, <2>2, LandsSound DEF Lands, Shows
  <2>3. CASE Fits(server')
    <3>1. FullShown(server')
      BY <2>3 DEF FullShown, Fits, SpecialBox, FullscreenBox
    <3> QED BY <2>1, <2>3, <3>1 DEF Sound, Secure, Rests, Fits, Shows
  <2>4. CASE Plugged(t) = {} /\ server'.pending = t.pending
    <3>1. Plugged(server') = {} BY <1>7, <2>4 DEF Plugged
    <3>2. FullShown(server')
      BY <1>1, <1>6, <1>7, <2>4 DEF FullShown, Sound, SameAxes
    <3>3. ~Usable(server', server'.output) BY <3>1 DEF Usable
    <3> QED BY <2>1, <3>1, <3>2, <3>3 DEF Sound, Secure, Rests, Shows
  <2> QED BY <1>7, <1>10, <2>2, <2>3, <2>4
<1> QED BY <1>8, <1>9, <1>10

\* Whatever the user does to the window who waits for its client, and whatever
\* becomes of the outputs, a window whose state changes gets the geometry of it:
\* view_apply_special_geometry() is never left out, or called with the old state.
THEOREM SpecialGeometryIsShown == MCSpec => SpecialIsShown
<1>1. ASSUME GeometryInit PROVE SInv
  BY <1>1, MInvStarts, InitIs DEF SInv
<1>2. ASSUME SInv, [MCNext]_geometryVars PROVE SInv' /\ (Shows \/ UNCHANGED geometryVars)
  <2>1. MInv' BY <1>2, NextKeepsMInv DEF SInv
  <2>2. CASE MCUserStep BY <1>2, <2>1, <2>2, UserStepShows DEF SInv
  <2>3. CASE ClientStep
    <3>1. Floating(server') \/ Still(server, server')
      BY <1>2, <2>3, ClientStepShows DEF SInv
    <3>2. Good(server') /\ ~server'.adjusting BY <2>1 DEF MInv, GInv
    <3>3. Sound(server')
      BY <1>2, <3>1, <3>2, LandsSound, StillSound DEF SInv, Lands
    <3>4. Shows BY <3>1 DEF Shows, Still
    <3> QED BY <2>1, <3>3, <3>4 DEF SInv
  <2>4. CASE server.input_mode = "passthrough" /\ LayoutStep
    BY <1>2, <2>1, <2>4, LayoutStepShows DEF SInv
  <2>5. CASE UNCHANGED geometryVars
    BY <1>2, <2>5 DEF SInv, MInv, GInv, geometryVars
  <2> QED BY <1>2, <2>2, <2>3, <2>4, <2>5 DEF MCNext, ClientStep
<1>3. SpecialIsShown <=> [][Shows]_geometryVars BY DEF SpecialIsShown, Shows
<1> HIDE DEF Shows
<1> QED BY <1>1, <1>2, <1>3, PTL DEF MCSpec
=============================================================================

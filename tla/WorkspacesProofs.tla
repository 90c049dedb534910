-------------------------- MODULE WorkspacesProofs --------------------------
(***************************************************************************)
(* For any number of views and workspaces: server.views stays one list in  *)
(* which families move as a whole, the keyboard goes from window to window *)
(* while one is left to take it, and no window is on a workspace that a    *)
(* reload has freed.                                                       *)
(*                                                                         *)
(* What a handler promises is a relation of two servers: Refocused and     *)
(* Found for the functions that move the focus, Handled for a handler that *)
(* neither maps nor unmaps, Stepped for any.  Each function has a lemma    *)
(* that it keeps its promise, by those of the functions it calls.          *)
(*                                                                         *)
(* The list is strict and total (Ordered), and finite: a part of it that is*)
(* not empty has a first member (OneIsFirst), or else                      *)
(* desktop_focus_topmost_view() could find no view although there is one.  *)
(* Families are taken with the parents before the step and the views mapped*)
(* after it: a move is of one family, whose members agree on their root    *)
(* (FamilyOfMember).                                                       *)
(*                                                                         *)
(* Coherent, from DesktopProofs, is needed throughout: it is why the active*)
(* view is the one whose keyboard is to be passed on.                      *)
(*                                                                         *)
(* That dialogs take the focus needs more of the parents (Descent): none   *)
(* are unmapped, and there are no circles, so that every view has one most *)
(* senior parent (RootIs).  view_impl_unmap() moves the focus by the       *)
(* hierarchies before wlroots hands the children of the view to its parent,*)
(* which splits some but joins none (AdoptedProper).                       *)
(***************************************************************************)
EXTENDS Workspaces, DesktopProofs

----------------------------------------------------------------------------
(* Parents and dialogs *)

\* Parents are in the list, and no views are each other's parents in a circle.
Rooted(s) ==
    /\ \A v \in s.views : s.parent[v] \in s.views \cup {None}
    /\ \A C \in SUBSET s.views : C # {} => \E c \in C : s.parent[c] \notin C

\* What is true of parents between two handlers
Descent(s) ==
    /\ Rooted(s) /\ None \notin s.views
    /\ \A v \in s.views : s.parent[v] \in s.mapped \cup {None}
    /\ \A v \in Views \ s.views : s.parent[v] = None

\* The ancestors of a view are the least set that has it and their parents.
LEMMA AncestorsAre ==
  ASSUME NEW s, Rooted(s), NEW v \in s.views
  PROVE /\ v \in Ancestors(s, v) /\ Ancestors(s, v) \subseteq s.views
        /\ \A a \in Ancestors(s, v) : s.parent[a] \in Ancestors(s, v) \cup {None}
        /\ \A C \in SUBSET s.views :
              v \in C /\ (\A c \in C : s.parent[c] \in C \cup {None})
              => Ancestors(s, v) \subseteq C
<1>1. ASSUME NEW a \in Ancestors(s, v) PROVE s.parent[a] \in Ancestors(s, v) \cup {None}
  <2>1. a \in s.views BY DEF Ancestors
  <2>2. s.parent[a] \in s.views \cup {None} BY <2>1 DEF Rooted
  <2> QED BY <2>2 DEF Ancestors
<1> QED BY <1>1 DEF Ancestors

\* There is one of them that has no parent, and only one.
LEMMA RootIs ==
  ASSUME NEW s, Rooted(s), None \notin s.views, NEW v \in s.views
  PROVE /\ Root(s, v) \in Ancestors(s, v) /\ s.parent[Root(s, v)] = None
        /\ \A r \in Ancestors(s, v) : s.parent[r] = None => r = Root(s, v)
<1> DEFINE A == Ancestors(s, v)
<1>1. /\ v \in A /\ A \subseteq s.views
      /\ \A a \in A : s.parent[a] \in A \cup {None}
  BY AncestorsAre
<1>2. \E r \in A : s.parent[r] = None
  <2> HIDE DEF A
  <2>1. \E c \in A : s.parent[c] \notin A BY <1>1 DEF Rooted
  <2> QED BY <1>1, <2>1
<1>3. Root(s, v) \in A /\ s.parent[Root(s, v)] = None BY <1>2 DEF Root
<1>4. ASSUME NEW r \in A, s.parent[r] = None, NEW q \in A, s.parent[q] = None PROVE r = q
  <2> DEFINE B == { a \in A : r \in Ancestors(s, a) }
  <2>1. \A a \in A : /\ a \in Ancestors(s, a)
                     /\ \A C \in SUBSET s.views :
                          a \in C /\ (\A c \in C : s.parent[c] \in C \cup {None})
                          => Ancestors(s, a) \subseteq C
    <3> HIDE DEF A
    <3> QED BY <1>1, AncestorsAre
  <2>2. ASSUME NEW b \in B PROVE s.parent[b] \in B \cup {None}
    <3> SUFFICES ASSUME s.parent[b] # None PROVE r \in Ancestors(s, s.parent[b])
      BY <1>1
    <3> DEFINE p == s.parent[b]
               C == Ancestors(s, p) \cup {b}
    <3>1. p \in A /\ p \in s.views BY <1>1
    <3>2. /\ p \in Ancestors(s, p) /\ Ancestors(s, p) \subseteq s.views
          /\ \A a \in Ancestors(s, p) : s.parent[a] \in Ancestors(s, p) \cup {None}
      <4> HIDE DEF p
      <4> QED BY <3>1, AncestorsAre
    <3>3. C \in SUBSET s.views /\ b \in C /\ \A c \in C : s.parent[c] \in C \cup {None}
      BY <1>1, <3>2
    <3>4. Ancestors(s, b) \subseteq C
      <4>1. b \in A OBVIOUS
      <4> HIDE DEF A, B, C
      <4> QED BY <2>1, <3>3, <4>1
    <3>5. r # b BY <1>4
    <3> QED BY <3>4, <3>5
  <2>3. v \in B BY <1>1
  <2>4. A \subseteq B
    <3>1. B \in SUBSET s.views BY <1>1
    <3> HIDE DEF B
    <3> QED BY <1>1, <2>1, <2>2, <2>3, <3>1
  <2>5. r \in Ancestors(s, q) BY <2>4
  <2>6. Ancestors(s, q) \subseteq {q}
    <3>1. {q} \in SUBSET s.views BY <1>1
    <3> QED BY <1>4, <2>1, <3>1
  <2> QED BY <2>5, <2>6
<1> QED BY <1>3, <1>4

\* The ancestors of a view have the same most senior parent.
LEMMA RootOfAncestor ==
  ASSUME NEW s, Rooted(s), None \notin s.views, NEW v \in s.views, NEW w \in Ancestors(s, v)
  PROVE Root(s, w) = Root(s, v)
<1>1. /\ w \in s.views /\ Ancestors(s, v) \in SUBSET s.views
      /\ \A a \in Ancestors(s, v) : s.parent[a] \in Ancestors(s, v) \cup {None}
  BY AncestorsAre
<1>2. Ancestors(s, w) \subseteq Ancestors(s, v) BY <1>1, AncestorsAre
<1>3. Root(s, w) \in Ancestors(s, w) /\ s.parent[Root(s, w)] = None BY <1>1, RootIs
<1> QED BY <1>2, <1>3, RootIs

\* A view that may have the keyboard: a modal dialog, or one whose hierarchy has none.
Proper(s, f) == f \in Modal \/ SubViews(s, Root(s, f)) \cap Modal = {}

LEMMA SameProper ==
  ASSUME NEW s, NEW t, SameHierarchy(s, t), NEW f
  PROVE Proper(t, f) <=> Proper(s, f)
<1>1. Root(t, f) = Root(s, f) /\ \A r : SubViews(t, r) = SubViews(s, r) BY SameFamilies
<1> QED BY <1>1 DEF Proper

\* view_get_modal_dialog() finds a modal dialog if there is one: a part of the list
\* has a last member.
LEMMA FocusTargetProper ==
  ASSUME NEW s, Ordered(s), NEW v
  PROVE Proper(s, FocusTarget(s, v))
<1> DEFINE D == SubViews(s, Root(s, v)) \cap Modal
<1>1. D \subseteq s.views BY DEF SubViews, Ordered
<1>2. CASE v \notin Modal /\ \E d \in D : IsBottom(s, d, D)
  <2>1. FocusTarget(s, v) = CHOOSE d \in D : IsBottom(s, d, D) BY <1>2 DEF FocusTarget
  <2>2. FocusTarget(s, v) \in D BY <1>2, <2>1
  <2> QED BY <2>2 DEF Proper
<1>3. CASE ~(v \notin Modal /\ \E d \in D : IsBottom(s, d, D))
  <2>1. FocusTarget(s, v) = v BY <1>3 DEF FocusTarget
  <2>2. CASE v \in Modal BY <2>1, <2>2 DEF Proper
  <2>3. CASE v \notin Modal
    <3> SUFFICES ASSUME D # {} PROVE FALSE BY <2>1 DEF Proper
    <3> DEFINE R == { p \in s.views \X s.views : <<p[2], p[1]>> \in s.above }
    <3>1. \A a, b \in s.views : <<a, b>> \in R <=> <<b, a>> \in s.above OBVIOUS
    <3>2. StrictOrder(s.above, s.views) /\ IsFiniteSet(s.views) BY DEF Ordered
    <3> HIDE DEF D, R
    <3>3. StrictOrder(R, s.views) BY <3>1, <3>2 DEF StrictOrder
    <3>4. PICK d \in D : \A w \in D \ {d} : <<d, w>> \in R
      BY <1>1, <3>2, <3>3, OneIsFirst
    <3>5. IsBottom(s, d, D) BY <1>1, <3>1, <3>4 DEF IsBottom
    <3> QED BY <1>3, <2>3, <3>5
  <2> QED BY <2>2, <2>3
<1> QED BY <1>2, <1>3

\* wlroots hands the children of a view that is unmapped to its parent.
Adopted(s, x, q) ==
    \A w \in s.views :
        q[w] = IF w = x THEN None ELSE IF s.parent[w] = x THEN s.parent[x] ELSE s.parent[w]

LEMMA AdoptedRooted ==
  ASSUME NEW s, Rooted(s), None \notin s.views, NEW x \in s.views,
         NEW t, t.views = s.views, Adopted(s, x, t.parent)
  PROVE Rooted(t)
<1>1. \A v \in t.views : t.parent[v] \in t.views \cup {None} BY DEF Adopted, Rooted
<1>2. ASSUME NEW C \in SUBSET s.views, C # {}, \A c \in C : t.parent[c] \in C
      PROVE FALSE
  <2>1. x \notin C BY <1>2 DEF Adopted
  <2>2. CASE \A c \in C : s.parent[c] # x
    <3>1. \A c \in C : s.parent[c] \in C BY <1>2, <2>1, <2>2 DEF Adopted
    <3> QED BY <1>2, <3>1 DEF Rooted
  <2>3. CASE \E c \in C : s.parent[c] = x
    <3> DEFINE D == C \cup {x}
    <3>1. s.parent[x] \in C BY <1>2, <2>1, <2>3 DEF Adopted
    <3>2. \A c \in C : s.parent[c] \in D BY <1>2, <2>1 DEF Adopted
    <3>3. D \in SUBSET s.views /\ D # {} OBVIOUS
    <3> HIDE DEF D
    <3>4. \A c \in D : s.parent[c] \in D BY <3>1, <3>2 DEF D
    <3> QED BY <3>3, <3>4 DEF Rooted
  <2> QED BY <2>2, <2>3
<1> QED BY <1>1, <1>2 DEF Rooted

\* So the hierarchy of a view has no dialog that it had not before.
LEMMA AdoptedProper ==
  ASSUME NEW s, Rooted(s), None \notin s.views, s.mapped \subseteq s.views,
         NEW x \in s.views \ s.mapped,
         NEW t, t.views = s.views, t.mapped = s.mapped, Adopted(s, x, t.parent),
         NEW f \in s.mapped, Proper(s, f)
  PROVE Proper(t, f)
<1>1. Rooted(t) BY AdoptedRooted
<1>2. \A u \in s.views : Ancestors(t, u) \subseteq Ancestors(s, u)
  <2> TAKE u \in s.views
  <2> DEFINE A == Ancestors(s, u)
  <2>1. /\ u \in A /\ A \subseteq s.views
        /\ \A a \in A : s.parent[a] \in A \cup {None}
    BY AncestorsAre
  <2>2. \A a \in A : t.parent[a] \in A \cup {None} BY <2>1 DEF Adopted
  <2>3. \A C \in SUBSET t.views :
           u \in C /\ (\A c \in C : t.parent[c] \in C \cup {None})
           => Ancestors(t, u) \subseteq C
    BY <1>1, AncestorsAre
  <2> HIDE DEF A
  <2>4. Ancestors(t, u) \subseteq A BY <2>1, <2>2, <2>3
  <2> QED BY <2>4 DEF A
<1> DEFINE r == Root(t, f)
<1> SUFFICES ASSUME f \notin Modal, NEW c \in SubViews(t, r), c \in Modal PROVE FALSE
  BY DEF Proper
<1>3. c \in s.mapped /\ c # r /\ Root(t, c) = r BY DEF SubViews
<1>4. r \in Ancestors(t, c) /\ r \in Ancestors(t, f) BY <1>1, <1>3, RootIs
<1> HIDE DEF r
<1>5. Root(s, c) = Root(s, f)
  <2>1. c \in s.views /\ f \in s.views BY <1>3
  <2>2. r \in Ancestors(s, c) /\ r \in Ancestors(s, f) BY <1>2, <1>4, <2>1
  <2> QED BY <2>1, <2>2, RootOfAncestor
<1>6. c # Root(s, f)
  <2> SUFFICES ASSUME c = Root(s, f) PROVE FALSE OBVIOUS
  <2>1. c \in s.views /\ c # x BY <1>3
  <2>2. s.parent[c] = None BY RootIs
  <2>3. x # None /\ t.parent[c] = None BY <2>1, <2>2 DEF Adopted
  <2>4. c \in Ancestors(t, c) BY <1>1, <2>1, AncestorsAre
  <2>5. c = Root(t, c) BY <1>1, <2>1, <2>3, <2>4, RootIs
  <2> QED BY <1>3, <2>5
<1>7. c \in SubViews(s, Root(s, f)) BY <1>3, <1>5, <1>6 DEF SubViews
<1> QED BY <1>7 DEF Proper

\* Parents are as they were where the hierarchies are.
LEMMA SameDescent ==
  ASSUME NEW s, NEW t, SameHierarchy(s, t), Descent(s) PROVE Descent(t)
BY DEF SameHierarchy, Descent, Rooted

\* The keyboard went to no view that may not have it.
Yields(s, t) ==
    s.input_mode = "passthrough" =>
        t.focused_surface \in {s.focused_surface, None} \/ Proper(t, t.focused_surface)

----------------------------------------------------------------------------
(* What a change of the focus does to the windows *)

SameWindows(s, t) ==
    /\ SameHierarchy(s, t) /\ t.above = s.above
    /\ t.minimized = s.minimized /\ t.omnipresent = s.omnipresent
    /\ t.workspace = s.workspace /\ t.current = s.current /\ t.last = s.last

\* seat_focus_surface() leaves the windows alone.
LEMMA SeatFocusSurfaceWindows ==
  ASSUME NEW s, Coherent(s), NEW f \in Views \cup {None}
  PROVE LET t == SeatFocusSurface(s, f)
        IN  /\ SameWindows(s, t) /\ t.input_mode = s.input_mode
            /\ s.input_mode = "passthrough" => t.focused_surface = f
<1>1. s \in Server /\ Plain(s) BY DEF Coherent, Plain
<1>2. CASE s.input_mode # "passthrough"
  BY <1>2 DEF SeatFocusSurface, SameWindows, SameHierarchy
<1>3. CASE s.input_mode = "passthrough"
  <2> DEFINE t == [s EXCEPT !.focused_surface = f, !.active_view = f]
  <2>1. SeatFocusSurface(s, f) = t \/ (SeatFocusSurface(s, f) = s /\ s.focused_surface = f)
    BY <1>1, <1>3, SeatFocusSurfaceIs
  <2>2. SameWindows(s, t) /\ t.input_mode = s.input_mode /\ t.focused_surface = f
    BY <1>1 DEF Server, SameWindows, SameHierarchy
  <2>3. SameWindows(s, s) BY DEF SameWindows, SameHierarchy
  <2> HIDE DEF t
  <2> QED BY <2>1, <2>2, <2>3
<1> QED BY <1>2, <1>3

\* interactive_cancel() leaves the windows alone, and without a move or resize
\* the focus, too.
LEMMA InteractiveCancelWindows ==
  ASSUME NEW s, NEW v, CoherentButGrab(s, v)
  PROVE LET t == InteractiveCancel(s, v)
        IN  /\ SameWindows(s, t)
            /\ s.input_mode = "passthrough" =>
                 t.input_mode = "passthrough" /\ t.focused_surface = s.focused_surface
                 /\ t.active_view = s.active_view
<1> DEFINE t == [s EXCEPT !.grabbed_view = None]
<1>1. s \in Server /\ Plain(s) BY DEF CoherentButGrab, Plain
<1>2. CASE s.grabbed_view # v
  BY <1>2 DEF InteractiveCancel, SameWindows, SameHierarchy
<1>3. CASE s.grabbed_view = v /\ s.input_mode \notin {"move", "resize"}
  <2>1. InteractiveCancel(s, v) = t BY <1>1, <1>3 DEF InteractiveCancel, Server
  <2> QED BY <1>1, <2>1 DEF Server, SameWindows, SameHierarchy
<1>4. CASE s.grabbed_view = v /\ s.input_mode \in {"move", "resize"}
  <2>1. /\ SameWindows(s, t) /\ t \in Server /\ t.input_mode = s.input_mode
        /\ t.focused_surface = s.focused_surface /\ t.override = s.override
        /\ t.active_view = s.active_view
        /\ t.locked = s.locked /\ t.focused_layer = s.focused_layer
    BY <1>1 DEF Server, SameWindows, SameHierarchy
  <2>2. InteractiveCancel(s, v) = FocusOverrideEnd(t, TRUE)
    BY <1>4, <2>1 DEF InteractiveCancel
  <2> HIDE DEF t
  <2>3. Plain(t) BY <1>1, <2>1 DEF Plain
  <2>4. t.focused_surface = None /\ t.active_view = t.override
    BY <1>4, <2>1 DEF CoherentButGrab, ActiveIsFocused
  <2>5. FocusOverrideEnd(t, TRUE)
          = [t EXCEPT !.input_mode = "passthrough", !.focused_surface = t.override,
                      !.active_view = t.override, !.override = None]
    BY <1>4, <2>1, <2>3, <2>4, OverrideEndIs
  <2>6. SameWindows(t, FocusOverrideEnd(t, TRUE))
    BY <2>1, <2>5, ZenonT(60) DEF Server, SameWindows, SameHierarchy
  <2> QED BY <1>4, <2>1, <2>2, <2>6 DEF SameWindows, SameHierarchy
<1> QED BY <1>2, <1>3, <1>4

\* show_desktop_reset() leaves the windows alone.
LEMMA ShowDesktopResetWindows ==
  ASSUME NEW s \in Server PROVE SameWindows(s, ShowDesktopReset(s))
BY DEF ShowDesktopReset, Server, SameWindows, SameHierarchy

\* Where the windows are: all on workspaces of A, as are the current and last one.
Placed(s, A) ==
    /\ s.current \in A /\ s.last \in A \cup {None}
    /\ \A v \in s.views : s.workspace[v] \in A

\* The list after a change of the focus
ListMoved(s, R) ==
    R \subseteq s.views \X s.views /\ StrictOrder(R, s.views) /\ FamiliesMove(s, R)

\* What functions that move the focus do: at most one family is raised, nothing is
\* minimized or mapped, the windows stay on workspaces that have some or are
\* current, and the keyboard goes to mapped views.
Refocused(s, t) ==
    /\ SameHierarchy(s, t) /\ ListMoved(s, t.above)
    /\ t.minimized = s.minimized /\ t.omnipresent = s.omnipresent
    /\ \A A : Placed(s, A) => Placed(t, A)
    /\ t.input_mode = s.input_mode
    /\ s.input_mode = "passthrough" =>
          t.focused_surface \in {s.focused_surface, None} \cup s.mapped
    /\ Yields(s, t)

\* No view on the current workspace could have the keyboard.
NobodyLeft(s) == OnCurrentWorkspace(s) \subseteq s.minimized

\* An order that is kept has moved no family.
LEMMA KeptListMoved ==
  ASSUME NEW s, Ordered(s) PROVE ListMoved(s, s.above)
BY DEF Ordered, ListMoved, FamiliesMove

\* What is said of the list only depends on the windows.
LEMMA SameListMoved ==
  ASSUME NEW s, NEW t, SameWindows(s, t), NEW R, ListMoved(t, R) PROVE ListMoved(s, R)
<1>1. t.views = s.views /\ t.mapped = s.mapped /\ t.above = s.above
  BY DEF SameWindows, SameHierarchy
<1>2. \A v : Family(t, v) = Family(s, v) BY SameFamilies DEF SameWindows
<1> QED BY <1>1, <1>2 DEF ListMoved, FamiliesMove

\* The list only depends on the views and on their order.
LEMMA SameOrdered ==
  ASSUME NEW s, Ordered(s), NEW t, SameHierarchy(s, t), t.above = s.above PROVE Ordered(t)
BY DEF SameHierarchy, Ordered

\* workspaces_switch_to() without a refocus moves the current workspace, and with
\* it the windows that are on all.
LEMMA SwitchWorkspaceWindows ==
  ASSUME NEW s \in Server, NEW w \in Workspaces
  PROVE LET t == SwitchWorkspace(s, w)
        IN  /\ SameHierarchy(s, t) /\ t.above = s.above
            /\ t.minimized = s.minimized /\ t.omnipresent = s.omnipresent
            /\ t.input_mode = s.input_mode /\ t.focused_surface = s.focused_surface
            /\ t.active_view = s.active_view /\ t.current = w
            /\ \A v \in s.views : t.workspace[v] \in {s.workspace[v], w}
            /\ \A A : Placed(s, A) /\ w \in A => Placed(t, A)
            /\ w = s.current => t = s
<1> DEFINE W == [ v \in Views |->
                     IF v \in s.views /\ v \in s.omnipresent \cup {s.grabbed_view}
                     THEN w ELSE s.workspace[v] ]
           t == [s EXCEPT !.workspace = W, !.last = s.current, !.current = w]
           u == ShowDesktopReset(t)
<1>1. CASE w = s.current
  <2>1. SwitchWorkspace(s, w) = s BY <1>1 DEF SwitchWorkspace
  <2> QED BY <1>1, <2>1 DEF SameHierarchy
<1>2. CASE w # s.current
  <2>1. SwitchWorkspace(s, w) = u BY <1>2 DEF SwitchWorkspace
  <2>2. W \in [Views -> Workspaces] /\ s.views \subseteq Views BY DEF Server
  <2>3. \A v \in s.views : W[v] \in {s.workspace[v], w} BY <2>2
  <2> HIDE DEF W
  <2>4. /\ t \in Server /\ SameHierarchy(s, t) /\ t.above = s.above
        /\ t.minimized = s.minimized /\ t.omnipresent = s.omnipresent
        /\ t.input_mode = s.input_mode /\ t.focused_surface = s.focused_surface
        /\ t.active_view = s.active_view
        /\ t.workspace = W /\ t.last = s.current /\ t.current = w
    BY <2>2, ZenonT(60) DEF Server, SameHierarchy
  <2> HIDE DEF t
  <2>5. /\ SameWindows(t, u) /\ u.input_mode = t.input_mode
        /\ u.focused_surface = t.focused_surface /\ u.active_view = t.active_view
    BY <2>4, ShowDesktopResetWindows DEF ShowDesktopReset, Server
  <2> HIDE DEF u
  <2>6. ASSUME NEW A, Placed(s, A), w \in A PROVE Placed(u, A)
    BY <2>3, <2>4, <2>5, <2>6 DEF Placed, SameWindows, SameHierarchy
  <2> QED BY <1>2, <2>1, <2>3, <2>4, <2>5, <2>6 DEF SameWindows, SameHierarchy
<1> QED BY <1>1, <1>2

\* Changing the order touches nothing else.
LEMMA MoveToFrontWindows ==
  ASSUME NEW s \in Server, NEW v
  PROVE LET t == MoveToFront(s, v)
        IN  /\ t.above = MoveToFront(s, v).above /\ SameHierarchy(s, t)
            /\ t.minimized = s.minimized /\ t.omnipresent = s.omnipresent
            /\ t.workspace = s.workspace /\ t.current = s.current /\ t.last = s.last
            /\ t.input_mode = s.input_mode /\ t.focused_surface = s.focused_surface
<1>1. \A R : LET t == [s EXCEPT !.above = R]
             IN  /\ SameHierarchy(s, t)
                 /\ t.minimized = s.minimized /\ t.omnipresent = s.omnipresent
                 /\ t.workspace = s.workspace /\ t.current = s.current /\ t.last = s.last
                 /\ t.input_mode = s.input_mode /\ t.focused_surface = s.focused_surface
  BY DEF Server, SameHierarchy
<1>2. MoveToFront(s, v) = s \/ \E R : MoveToFront(s, v) = [s EXCEPT !.above = R]
  BY DEF MoveToFront
<1> QED BY <1>1, <1>2 DEF SameHierarchy

\* desktop_focus_view_internal()
LEMMA FocusNowRefocuses ==
  ASSUME NEW s, Coherent(s), Ordered(s), NEW v \in Views, NEW raise, NEW delay
  PROVE LET t == FocusNow(s, v, raise, delay)
        IN  /\ Refocused(s, t)
            /\ s.workspace[v] = s.current =>
                 t.workspace = s.workspace /\ t.current = s.current /\ t.last = s.last
            /\ s.input_mode = "passthrough" /\ v \in s.mapped => t.focused_surface \in s.mapped
<1> DEFINE t == IF v \in s.omnipresent THEN s ELSE SwitchWorkspace(s, s.workspace[v])
           next == IF raise /\ delay THEN v ELSE None
           u == [t EXCEPT !.auto_raise = next]
           w == IF raise /\ ~delay THEN MoveToFront(u, v) ELSE u
           f == FocusTarget(w, v)
           x == SeatFocusSurface(w, f)
           y == ShowDesktopReset(x)
<1>1. CASE s.input_mode = "cycle" \/ v \notin s.mapped
  <2>1. FocusNow(s, v, raise, delay) = s BY <1>1 DEF FocusNow
  <2> QED BY <1>1, <2>1, KeptListMoved DEF Refocused, SameHierarchy, Yields
<1>2. CASE ~(s.input_mode = "cycle" \/ v \notin s.mapped)
  <2>1. FocusNow(s, v, raise, delay) = y BY <1>2 DEF FocusNow
  <2>2. s \in Server /\ v \in s.views /\ s.workspace[v] \in Workspaces
    BY <1>2 DEF Coherent, Plain, PointsToLive, Server
  <2>3. /\ SameHierarchy(s, t) /\ t.above = s.above
        /\ t.minimized = s.minimized /\ t.omnipresent = s.omnipresent
        /\ t.input_mode = s.input_mode /\ t.focused_surface = s.focused_surface
        /\ \A A : Placed(s, A) => Placed(t, A)
        /\ s.workspace[v] = s.current =>
             t.workspace = s.workspace /\ t.current = s.current /\ t.last = s.last
    <3>1. CASE v \in s.omnipresent BY <3>1 DEF SameHierarchy
    <3>2. CASE v \notin s.omnipresent
      <4>1. t = SwitchWorkspace(s, s.workspace[v]) BY <3>2
      <4> HIDE DEF t
      <4>2. \A A : Placed(s, A) => s.workspace[v] \in A BY <2>2 DEF Placed
      <4> QED BY <2>2, <4>1, <4>2, SwitchWorkspaceWindows
    <3> QED BY <3>1, <3>2
  <2>4. Coherent(t) BY <2>2, SwitchWorkspaceCoherent
  <2>5. next \in t.views \cup {None}
    <3> HIDE DEF t
    <3> QED BY <2>2, <2>3 DEF SameHierarchy
  <2> HIDE DEF next
  <2>6. Coherent(u) /\ u \in Server /\ SameWindows(t, u)
        /\ u.input_mode = t.input_mode /\ u.focused_surface = t.focused_surface
    <3> HIDE DEF t
    <3>1. Coherent(u) BY <2>4, <2>5, AutoRaiseCoherent
    <3>2. t \in Server /\ u \in Server BY <2>4, <3>1 DEF Coherent, Plain
    <3> QED BY <3>1, <3>2 DEF Server, SameWindows, SameHierarchy
  <2> HIDE DEF t
  <2>7. v \in u.mapped /\ Ordered(u)
    BY <1>2, <2>3, <2>6, SameOrdered DEF SameWindows, SameHierarchy, Ordered
  <2> HIDE DEF u
  <2>8. /\ Coherent(w) /\ SameHierarchy(u, w) /\ ListMoved(u, w.above)
        /\ w.minimized = u.minimized /\ w.omnipresent = u.omnipresent
        /\ w.workspace = u.workspace /\ w.current = u.current /\ w.last = u.last
        /\ w.input_mode = u.input_mode
    <3>1. CASE raise /\ ~delay
      <4>1. w = MoveToFront(u, v) BY <3>1
      <4> HIDE DEF w
      <4>2. ListMoved(u, w.above) BY <2>6, <2>7, <4>1, MoveToFrontMoves DEF ListMoved
      <4> QED BY <2>6, <4>1, <4>2, MoveToFrontWindows, MoveToFrontCoherent
    <3>2. CASE ~(raise /\ ~delay)
      BY <2>6, <2>7, <3>2, KeptListMoved DEF SameHierarchy
    <3> QED BY <3>1, <3>2
  <2> HIDE DEF w
  <2>9. f \in w.mapped /\ f \in w.views /\ f \in Views /\ Proper(w, f)
    <3>1. f \in w.mapped /\ f \in w.views /\ f \in Views
      BY <2>7, <2>8, FocusTargetMapped
      DEF SameHierarchy, Coherent, PointsToLive, Plain, Server
    <3>2. Ordered(w) BY <2>7, <2>8 DEF ListMoved, SameHierarchy, Ordered
    <3> HIDE DEF w
    <3> QED BY <3>1, <3>2, FocusTargetProper
  <2> HIDE DEF f
  <2>10. /\ SameWindows(w, x) /\ x.input_mode = w.input_mode
         /\ w.input_mode = "passthrough" => x.focused_surface = f
         /\ x \in Server
    BY <2>8, <2>9, SeatFocusSurfaceWindows, SeatFocusSurfaceCoherent DEF Coherent, Plain
  <2> HIDE DEF x
  <2>11. SameWindows(x, y) /\ y.input_mode = x.input_mode /\ y.focused_surface = x.focused_surface
    BY <2>10, ShowDesktopResetWindows DEF ShowDesktopReset, Server
  <2> HIDE DEF y
  <2>12. ListMoved(s, y.above)
    <3>1. y.above = w.above BY <2>10, <2>11 DEF SameWindows
    <3>2. \A a : Family(u, a) = Family(s, a)
      <4>1. SameHierarchy(s, u) BY <2>3, <2>6 DEF SameWindows, SameHierarchy
      <4> QED BY <4>1, SameFamilies
    <3>3. u.views = s.views /\ u.mapped = s.mapped /\ u.above = s.above
      BY <2>3, <2>6 DEF SameWindows, SameHierarchy
    <3> QED BY <2>8, <3>1, <3>2, <3>3 DEF ListMoved, FamiliesMove
  <2>13. \A A : Placed(s, A) => Placed(y, A)
    BY <2>3, <2>6, <2>8, <2>10, <2>11 DEF Placed, SameWindows, SameHierarchy
  <2>14. /\ SameHierarchy(s, y)
         /\ y.minimized = s.minimized /\ y.omnipresent = s.omnipresent
         /\ y.input_mode = s.input_mode
         /\ s.workspace[v] = s.current =>
              y.workspace = s.workspace /\ y.current = s.current /\ y.last = s.last
         /\ s.input_mode = "passthrough" => y.focused_surface \in s.mapped
    BY <2>3, <2>6, <2>8, <2>9, <2>10, <2>11 DEF SameWindows, SameHierarchy
  <2>15. Yields(s, y)
    <3>1. SameHierarchy(w, y) BY <2>10, <2>11 DEF SameWindows, SameHierarchy
    <3>2. Proper(y, f) BY <2>9, <3>1, SameProper
    <3>3. s.input_mode = "passthrough" => y.focused_surface = f
      BY <2>3, <2>6, <2>8, <2>10, <2>11
    <3> QED BY <3>2, <3>3 DEF Yields
  <2> QED BY <2>1, <2>12, <2>13, <2>14, <2>15 DEF Refocused
<1> QED BY <1>1, <1>2

\* desktop_focus_topmost_view() finds a view if there is one: a list has a first
\* member that may have the keyboard.
LEMMA FocusTopmostRefocuses ==
  ASSUME NEW s, Coherent(s), Ordered(s)
  PROVE LET t == FocusTopmost(s)
        IN  /\ Refocused(s, t)
            /\ t.workspace = s.workspace /\ t.current = s.current /\ t.last = s.last
            /\ s.input_mode = "passthrough" =>
                 \/ t.focused_surface \in s.mapped
                 \/ t.focused_surface = None /\ NobodyLeft(t)
<1> DEFINE candidates == OnCurrentWorkspace(s) \ s.minimized
           t == FocusTopmost(s)
<1>1. s \in Server /\ s.mapped \subseteq s.views BY DEF Coherent, Plain, PointsToLive
<1>2. CASE \E v \in candidates : IsTop(s, v, candidates)
  <2> DEFINE v == CHOOSE v \in candidates : IsTop(s, v, candidates)
  <2>1. v \in candidates BY <1>2
  <2>2. t = FocusNow(s, v, TRUE, FALSE) BY <1>2 DEF FocusTopmost
  <2> HIDE DEF v, t
  <2>3. v \in s.mapped /\ s.workspace[v] = s.current /\ v \in Views
    BY <1>1, <2>1 DEF OnCurrentWorkspace, Server
  <2>4. /\ Refocused(s, t)
        /\ t.workspace = s.workspace /\ t.current = s.current /\ t.last = s.last
        /\ s.input_mode = "passthrough" => t.focused_surface \in s.mapped
    <3>1. \A raise, delay : LET y == FocusNow(s, v, raise, delay)
          IN  /\ Refocused(s, y)
              /\ y.workspace = s.workspace /\ y.current = s.current /\ y.last = s.last
              /\ s.input_mode = "passthrough" => y.focused_surface \in s.mapped
      BY <2>3, FocusNowRefocuses
    <3> QED BY <2>2, <3>1
  <2> QED BY <2>4 DEF t
<1>3. CASE ~\E v \in candidates : IsTop(s, v, candidates)
  <2>1. candidates = {}
    <3> SUFFICES ASSUME candidates # {} PROVE FALSE OBVIOUS
    <3>1. candidates \subseteq s.views BY <1>1 DEF OnCurrentWorkspace
    <3>2. \E v \in candidates : \A w \in candidates \ {v} : <<v, w>> \in s.above
      <4> HIDE DEF candidates
      <4> QED BY <3>1, OneIsFirst DEF Ordered
    <3> QED BY <1>3, <3>2 DEF IsTop
  <2>2. t = SeatFocusSurface(s, None) BY <1>3 DEF FocusTopmost
  <2>3. NobodyLeft(s) BY <2>1 DEF NobodyLeft
  <2> HIDE DEF t
  <2>4. /\ SameWindows(s, t) /\ t.input_mode = s.input_mode
        /\ s.input_mode = "passthrough" => t.focused_surface = None
    BY <2>2, SeatFocusSurfaceWindows
  <2>5. NobodyLeft(t)
    BY <2>3, <2>4 DEF NobodyLeft, OnCurrentWorkspace, SameWindows, SameHierarchy
  <2>6. ListMoved(s, t.above) BY <2>4, KeptListMoved DEF SameWindows
  <2>7. \A A : Placed(s, A) => Placed(t, A)
    BY <2>4 DEF Placed, SameWindows, SameHierarchy
  <2>8. Refocused(s, t) BY <2>4, <2>6, <2>7 DEF Refocused, SameWindows, Yields
  <2> QED BY <2>4, <2>5, <2>8 DEF SameWindows, t
<1> QED BY <1>2, <1>3

\* What a handler does that neither maps nor unmaps: it raises or lowers at most
\* one family, gives the keyboard to mapped views and leaves it with nobody only
\* if nobody is left.
Handled(s, t) ==
    /\ SameHierarchy(s, t) /\ ListMoved(s, t.above) /\ Yields(s, t)
    /\ s.input_mode = "passthrough" /\ t.input_mode = "passthrough" =>
         /\ t.focused_surface \in {s.focused_surface, None} \cup s.mapped
         /\ s.focused_surface \in s.mapped /\ t.focused_surface = None => NobodyLeft(t)

\* A handler that does not look at the windows or the focus
LEMMA SameHandled ==
  ASSUME NEW s, Ordered(s), None \notin s.mapped,
         NEW t, SameHierarchy(s, t), t.above = s.above,
         s.input_mode = "passthrough" => t.focused_surface = s.focused_surface
  PROVE Handled(s, t)
BY KeptListMoved DEF Handled, Yields

\* workspaces_switch_to() moves nothing to other workspaces than the new one.
LEMMA SwitchToWorkspaceHandled ==
  ASSUME NEW s, Coherent(s), Ordered(s), NEW w \in Workspaces
  PROVE LET t == SwitchToWorkspace(s, w)
        IN  /\ Handled(s, t) /\ t.input_mode = s.input_mode
            /\ t.minimized = s.minimized /\ t.current = w
            /\ \A v \in s.views : t.workspace[v] \in {s.workspace[v], w}
            /\ \A A : Placed(s, A) /\ w \in A => Placed(t, A)
<1> DEFINE t == SwitchWorkspace(s, w)
           u == IF t.active_view \in t.omnipresent THEN t ELSE FocusTopmost(t)
           x == ShowDesktopReset(u)
<1>1. s \in Server /\ None \notin s.mapped BY SeatAssumption DEF Coherent, Plain, Server
<1>2. CASE w = s.current
  <2>1. SwitchToWorkspace(s, w) = s BY <1>2 DEF SwitchToWorkspace
  <2> QED BY <1>1, <1>2, <2>1, SameHandled DEF SameHierarchy
<1>3. CASE w # s.current
  <2>1. SwitchToWorkspace(s, w) = x BY <1>3 DEF SwitchToWorkspace
  <2>2. /\ SameHierarchy(s, t) /\ t.above = s.above
        /\ t.minimized = s.minimized
        /\ t.input_mode = s.input_mode /\ t.focused_surface = s.focused_surface
        /\ t.active_view = s.active_view /\ t.current = w
        /\ \A v \in s.views : t.workspace[v] \in {s.workspace[v], w}
        /\ \A A : Placed(s, A) /\ w \in A => Placed(t, A)
    BY <1>1, SwitchWorkspaceWindows
  <2>3. Coherent(t) BY SwitchWorkspaceCoherent
  <2> HIDE DEF t
  <2>4. Ordered(t) BY <2>2, SameOrdered
  <2>5. /\ SameHierarchy(t, u) /\ ListMoved(t, u.above)
        /\ u.minimized = t.minimized /\ u.input_mode = t.input_mode
        /\ u.workspace = t.workspace /\ u.current = t.current /\ u.last = t.last
        /\ u \in Server
        /\ t.input_mode = "passthrough" =>
             \/ u.focused_surface \in t.mapped
             \/ u.focused_surface = None /\ NobodyLeft(u)
             \/ u.focused_surface = t.focused_surface /\ t.focused_surface \notin t.mapped
        /\ Yields(t, u)
    <3>1. CASE t.active_view \in t.omnipresent
      BY <2>3, <2>4, <3>1, KeptListMoved DEF SameHierarchy, Coherent, Plain, Yields
    <3>2. CASE t.active_view \notin t.omnipresent
      BY <2>3, <2>4, <3>2, FocusTopmostRefocuses, FocusTopmostCoherent
      DEF Refocused, Coherent, Plain
    <3> QED BY <3>1, <3>2
  <2> HIDE DEF u
  <2>6. SameWindows(u, x) /\ x.input_mode = u.input_mode /\ x.focused_surface = u.focused_surface
    BY <2>5, ShowDesktopResetWindows DEF ShowDesktopReset, Server
  <2> HIDE DEF x
  <2>7. ListMoved(s, x.above)
    <3>1. \A a : Family(t, a) = Family(s, a) BY <2>2, SameFamilies
    <3> QED BY <2>2, <2>5, <2>6, <3>1 DEF ListMoved, FamiliesMove, SameWindows, SameHierarchy
  <2>8. SameHierarchy(s, x) BY <2>2, <2>5, <2>6 DEF SameWindows, SameHierarchy
  <2>9. NobodyLeft(u) => NobodyLeft(x)
    BY <2>6 DEF NobodyLeft, OnCurrentWorkspace, SameWindows, SameHierarchy
  <2>12. Yields(s, x)
    <3>1. \A f : Proper(u, f) => Proper(x, f) BY <2>6, SameProper DEF SameWindows
    <3> QED BY <2>2, <2>5, <2>6, <3>1 DEF Yields
  <2>10. Handled(s, x)
    BY <1>1, <2>2, <2>5, <2>6, <2>7, <2>8, <2>9, <2>12 DEF Handled, SameHierarchy
  <2>11. ASSUME NEW A, Placed(s, A), w \in A PROVE Placed(x, A)
    BY <2>2, <2>5, <2>6, <2>11 DEF Placed, SameWindows, SameHierarchy
  <2> QED BY <2>1, <2>2, <2>5, <2>6, <2>10, <2>11 DEF SameWindows
<1> QED BY <1>2, <1>3

\* A view was found that has the keyboard now, or there was none to be found, or
\* the keyboard stayed where it was.
Found(s, t) ==
    /\ Refocused(s, t)
    /\ s.input_mode = "passthrough" =>
         \/ t.focused_surface \in s.mapped
         \/ t.focused_surface = None /\ NobodyLeft(t)
         \/ t.focused_surface = s.focused_surface

\* desktop_focus_view_internal() finds the view, or is not to look for one.
LEMMA FocusNowFound ==
  ASSUME NEW s, Coherent(s), Ordered(s), NEW v \in Views, NEW raise, NEW delay
  PROVE Found(s, FocusNow(s, v, raise, delay))
<1>1. v \notin s.mapped => FocusNow(s, v, raise, delay) = s BY DEF FocusNow
<1> QED BY <1>1, FocusNowRefocuses DEF Found

\* desktop_focus_topmost_view() finds one, or there is none.
LEMMA FocusTopmostFound ==
  ASSUME NEW s, Coherent(s), Ordered(s) PROVE Found(s, FocusTopmost(s))
BY FocusTopmostRefocuses DEF Found

\* Handlers change something else first, and then the focus.
LEMMA ThenFound ==
  ASSUME NEW s, None \notin s.mapped, NEW u, SameHierarchy(s, u), u.above = s.above,
         s.input_mode = "passthrough" =>
            u.input_mode = "passthrough" /\ u.focused_surface = s.focused_surface,
         NEW t, Found(u, t)
  PROVE Handled(s, t)
<1>1. \A a : Family(u, a) = Family(s, a) BY SameFamilies
<1>2. SameHierarchy(s, t) BY DEF Found, Refocused, SameHierarchy
<1>3. ListMoved(s, t.above)
  BY <1>1 DEF Found, Refocused, ListMoved, FamiliesMove, SameHierarchy
<1>4. Yields(s, t) BY DEF Found, Refocused, Yields
<1> QED BY <1>2, <1>3, <1>4 DEF Found, Handled, SameHierarchy

\* view_minimize() hides a hierarchy, and then looks for another view if it had
\* the keyboard.
LEMMA ViewMinimizeHandled ==
  ASSUME NEW s, Coherent(s), Ordered(s), NEW v \in Views, NEW minimized \in BOOLEAN
  PROVE LET t == ViewMinimize(s, v, minimized)
        IN  Handled(s, t) /\ \A A : Placed(s, A) => Placed(t, A)
<1> DEFINE family == Family(s, v)
           changed == { w \in family : (w \in s.minimized) # minimized }
           M == IF minimized THEN s.minimized \cup family ELSE s.minimized \ family
           t == [s EXCEPT !.minimized = M]
           u == IF minimized /\ s.grabbed_view \in changed \cap s.mapped
                THEN InteractiveCancel(t, s.grabbed_view)
                ELSE t
<1>1. s \in Server BY DEF Coherent, Plain
<1>2. family \subseteq Views BY <1>1, FamilyType
<1>3. M \in SUBSET Views
  <2> HIDE DEF family
  <2> QED BY <1>1, <1>2 DEF Server
<1>4. /\ Plain(t) /\ PointsToLive(t) /\ ActiveIsFocused(t)
      /\ t.mapped = s.mapped /\ t.minimized = M
      /\ t.grabbed_view = s.grabbed_view /\ t.input_mode = s.input_mode
      /\ SameHierarchy(s, t) /\ t.above = s.above
      /\ t.workspace = s.workspace /\ t.current = s.current /\ t.last = s.last
      /\ t.focused_surface = s.focused_surface
  <2> HIDE DEF M
  <2> QED BY <1>1, <1>3, MinimizedType DEF Server, SameHierarchy
<1>5. /\ Coherent(u) /\ SameWindows(t, u)
      /\ t.input_mode = "passthrough" =>
            u.input_mode = "passthrough" /\ u.focused_surface = t.focused_surface
  <2>1. CASE minimized /\ s.grabbed_view \in changed \cap s.mapped
    <3>1. CoherentButGrab(t, s.grabbed_view)
      <4> HIDE DEF t
      <4> QED BY <1>4 DEF CoherentButGrab, Coherent, GrabMatchesMode
    <3> HIDE DEF t
    <3> QED BY <2>1, <3>1, InteractiveCancelCoherent, InteractiveCancelWindows
  <2>2. CASE ~(minimized /\ s.grabbed_view \in changed \cap s.mapped)
    <3>1. s.grabbed_view \in (s.mapped \ M) \cup {None}
      <4> HIDE DEF family
      <4> QED BY <2>2 DEF Coherent, GrabMatchesMode, Visible
    <3>2. Coherent(t)
      <4> HIDE DEF t, M
      <4> QED BY <1>4, <3>1 DEF Coherent, GrabMatchesMode, Visible
    <3> HIDE DEF t
    <3> QED BY <2>2, <3>2 DEF SameWindows, SameHierarchy
  <2> QED BY <2>1, <2>2
<1>6. ViewMinimize(s, v, minimized) \in {s, u, FocusTopmost(u), FocusNow(u, v, TRUE, FALSE)}
  <2>1. CASE s.input_mode = "cycle" BY <2>1 DEF ViewMinimize
  <2>2. CASE s.input_mode # "cycle" /\ minimized
    BY <2>2 DEF ViewMinimize
  <2>3. CASE s.input_mode # "cycle" /\ ~minimized
    BY <2>3 DEF ViewMinimize
  <2> QED BY <2>1, <2>2, <2>3
<1> HIDE DEF u, t, M
<1>7. /\ SameHierarchy(s, u) /\ u.above = s.above
      /\ s.input_mode = "passthrough" =>
            u.input_mode = "passthrough" /\ u.focused_surface = s.focused_surface
      /\ \A A : Placed(s, A) => Placed(u, A)
  BY <1>4, <1>5 DEF SameWindows, SameHierarchy, Placed
<1>8. Ordered(u) BY <1>7, SameOrdered
<1>0. None \notin s.mapped BY <1>1, SeatAssumption DEF Server
<1>9. Handled(s, s) /\ Handled(s, u)
  BY <1>0, <1>7, SameHandled DEF SameHierarchy
<1>10. ASSUME NEW x, Found(u, x) PROVE Handled(s, x) /\ \A A : Placed(s, A) => Placed(x, A)
  BY <1>0, <1>7, <1>10, ThenFound DEF Found, Refocused
<1>11. \A raise, delay : Found(u, FocusNow(u, v, raise, delay)) BY <1>5, <1>8, FocusNowFound
<1>12. Found(u, FocusTopmost(u)) BY <1>5, <1>8, FocusTopmostFound
<1>13. \/ ViewMinimize(s, v, minimized) = s
       \/ ViewMinimize(s, v, minimized) = u
       \/ Found(u, ViewMinimize(s, v, minimized))
  BY <1>6, <1>11, <1>12
<1> QED BY <1>7, <1>9, <1>10, <1>13

\* desktop_focus_view()
LEMMA FocusViewHandled ==
  ASSUME NEW s, Coherent(s), Ordered(s), NEW v \in Views, NEW raise, NEW delay
  PROVE LET t == FocusView(s, v, raise, delay)
        IN  Handled(s, t) /\ \A A : Placed(s, A) => Placed(t, A)
<1>1. Found(s, FocusNow(s, v, raise, delay)) BY FocusNowFound
<1>2. Handled(s, FocusNow(s, v, raise, delay))
  <2>1. None \notin s.mapped BY SeatAssumption DEF Coherent, Plain, Server
  <2> QED BY <1>1, <2>1, ThenFound DEF SameHierarchy
<1> QED BY <1>1, <1>2, ViewMinimizeHandled DEF FocusView, Found, Refocused

----------------------------------------------------------------------------
(* The handlers *)

\* What a step does to the list of views, to the focus and to where views are
StepMoves == FamiliesMove([server EXCEPT !.mapped = server'.mapped], server'.above)

StepFocus ==
    server.input_mode = "passthrough" /\ server'.input_mode = "passthrough" =>
        /\ server.focused_surface \in server.mapped \cup {None} =>
              server'.focused_surface \in server'.mapped \cup {None}
        /\ server.focused_surface \in server.mapped /\ server'.focused_surface = None =>
              \/ OnCurrentWorkspace(server') \subseteq server'.minimized \cup CameTooLate
              \/ UnfocusAction

StepDescends ==
    Descent(server) => Descent(server') /\ Yields(server, server')

Stepped == Ordered(server') /\ StepMoves /\ StepFocus /\ StepDescends

StaysPlaced == \A A : Placed(server, A) => Placed(server', A)

\* The record with other mapped views
LEMMA RemappedIs ==
  ASSUME NEW s \in Server, NEW M
  PROVE LET t == [s EXCEPT !.mapped = M]
        IN  /\ t.mapped = M /\ t.views = s.views /\ t.above = s.above /\ t.parent = s.parent
            /\ t.minimized = s.minimized /\ t.workspace = s.workspace
            /\ t.current = s.current /\ t.last = s.last
BY DEF Server

\* A handler that neither maps nor unmaps, in terms of the step
LEMMA HandledSteps ==
  ASSUME Coherent(server), Ordered(server), Handled(server, server')
  PROVE Stepped
<1>1. server \in Server BY DEF Coherent, Plain
<1>2. Ordered(server') BY DEF Handled, SameHierarchy, ListMoved, Ordered
<1>3. StepMoves
  <2> DEFINE s == [server EXCEPT !.mapped = server'.mapped]
  <2>1. /\ s.mapped = server.mapped /\ s.views = server.views
        /\ s.above = server.above /\ s.parent = server.parent
    BY <1>1, RemappedIs DEF Handled, SameHierarchy
  <2> HIDE DEF s
  <2>2. \A v : Family(s, v) = Family(server, v) BY <2>1, SameFamilies DEF SameHierarchy
  <2>3. FamiliesMove(s, server'.above) BY <2>1, <2>2 DEF Handled, ListMoved, FamiliesMove
  <2> QED BY <2>3 DEF StepMoves, s
<1>4. StepFocus BY DEF StepFocus, Handled, SameHierarchy, NobodyLeft
<1>5. StepDescends BY SameDescent DEF StepDescends, Handled
<1> QED BY <1>2, <1>3, <1>4, <1>5 DEF Stepped

\* A step that leaves the list, the mapped views, the workspaces and the focus alone
LEMMA CalmSteps ==
  ASSUME Coherent(server), Ordered(server),
         server'.views = server.views, server'.above = server.above,
         server'.mapped = server.mapped, server'.workspace = server.workspace,
         server'.current = server.current, server'.last = server.last,
         server.input_mode = "passthrough" /\ server'.input_mode = "passthrough"
            => server'.focused_surface = server.focused_surface,
         server.input_mode = "passthrough" =>
            server'.focused_surface \in {server.focused_surface, None},
         Descent(server) => Descent(server')
  PROVE Stepped /\ StaysPlaced
<1>1. server \in Server /\ None \notin server.mapped
  BY SeatAssumption DEF Coherent, Plain, Server
<1>2. Ordered(server') BY DEF Ordered
<1>3. StepMoves BY <1>1, RemappedIs DEF StepMoves, FamiliesMove
<1>4. StepFocus BY <1>1 DEF StepFocus
<1>5. StaysPlaced BY DEF StaysPlaced, Placed
<1>6. StepDescends BY DEF StepDescends, Yields
<1> QED BY <1>2, <1>3, <1>4, <1>5, <1>6 DEF Stepped

\* handle_new_xdg_toplevel(): the new view is in front of all others.
LEMMA NewToplevelStepped ==
  ASSUME Coherent(server), Ordered(server), NEW v \in Views, NewToplevel(v)
  PROVE Stepped /\ StaysPlaced
<1>1. server \in Server /\ None \notin server.mapped
  BY SeatAssumption DEF Coherent, Plain, Server
<1> DEFINE A == server.above \cup {v} \X server.views
           V == server.views \cup {v}
           W == [server.workspace EXCEPT ![v] = server.current]
<1>2. server' = [server EXCEPT !.views = V, !.above = A, !.workspace = W]
  BY <1>1 DEF NewToplevel, Server
<1>3. v \notin server.views BY DEF NewToplevel
<1>4. \A w \in Views : W[w] = IF w = v THEN server.current ELSE server.workspace[w]
  BY <1>1 DEF Server
<1>5. /\ \A u, w : <<u, w>> \in A <=> <<u, w>> \in server.above \/ (u = v /\ w \in server.views)
      /\ A \subseteq V \X V
  BY DEF Ordered
<1> HIDE DEF W, A
<1>6. /\ server'.views = V /\ server'.above = A /\ server'.workspace = W
      /\ server'.current = server.current /\ server'.last = server.last
      /\ server'.mapped = server.mapped /\ server'.focused_surface = server.focused_surface
      /\ server'.parent = server.parent
  BY <1>1, <1>2 DEF Server
<1>7. \A u, w : <<u, w>> \in server.above => u # v /\ w # v /\ u \in server.views /\ w \in server.views
  BY <1>3 DEF Ordered
<1>8. StrictOrder(A, V)
  <2>1. StrictOrder(server.above, server.views) BY DEF Ordered
  <2>2. \A u \in V : <<u, u>> \notin A BY <1>3, <1>5, <1>7, <2>1 DEF StrictOrder
  <2>3. \A u, w \in V : u # w => (<<u, w>> \in A <=> <<w, u>> \notin A)
    BY <1>3, <1>5, <1>7, <2>1 DEF StrictOrder
  <2>4. \A u, w, x \in V : <<u, w>> \in A /\ <<w, x>> \in A => <<u, x>> \in A
    BY <1>3, <1>5, <1>7, <2>1 DEF StrictOrder
  <2> QED BY <2>2, <2>3, <2>4 DEF StrictOrder
<1>9. IsFiniteSet(V) BY FS_AddElement DEF Ordered
<1>10. Ordered(server') BY <1>5, <1>6, <1>8, <1>9 DEF Ordered
<1>11. StepMoves
  <2>1. server.above \subseteq A BY <1>5, <1>7 DEF A
  <2> QED BY <1>1, <1>6, <2>1, RemappedIs DEF StepMoves, FamiliesMove
<1>12. StepFocus BY <1>1, <1>6 DEF StepFocus
<1>13. StaysPlaced
  <2>1. server.views \subseteq Views BY <1>1 DEF Server
  <2> QED BY <1>4, <1>6, <2>1 DEF StaysPlaced, Placed
<1>14. StepDescends
  <2> SUFFICES ASSUME Descent(server) PROVE Descent(server')
    BY <1>6 DEF StepDescends, Yields
  <2>1. server.parent[v] = None /\ v # None BY <1>3, SeatAssumption DEF Descent
  <2>2. server.mapped \subseteq server.views BY DEF Ordered
  <2>3. ASSUME NEW C \in SUBSET V, C # {} PROVE \E c \in C : server.parent[c] \notin C
    <3>1. CASE v \in C
      <4>1. CASE None \in C
        BY <2>1, <2>3, <4>1 DEF Descent
      <4>2. CASE None \notin C BY <2>1, <3>1, <4>2
      <4> QED BY <4>1, <4>2
    <3>2. CASE v \notin C
      <4>1. C \in SUBSET server.views BY <3>2
      <4> QED BY <2>3, <4>1 DEF Descent, Rooted
    <3> QED BY <3>1, <3>2
  <2>4. Rooted(server') BY <1>6, <2>1, <2>3 DEF Descent, Rooted
  <2> QED BY <1>6, <2>1, <2>4 DEF Descent
<1> QED BY <1>10, <1>11, <1>12, <1>13, <1>14 DEF Stepped

\* xdg_toplevel.set_parent
LEMMA SetParentStepped ==
  ASSUME Coherent(server), Ordered(server), NEW v \in Views, NEW p \in Views \cup {None},
         SetParent(v, p)
  PROVE Stepped /\ StaysPlaced
<1>1. server \in Server BY DEF Coherent, Plain
<1>2. /\ server'.views = server.views /\ server'.above = server.above
      /\ server'.mapped = server.mapped /\ server'.workspace = server.workspace
      /\ server'.current = server.current /\ server'.last = server.last
      /\ server'.focused_surface = server.focused_surface
      /\ \A w \in Views : server'.parent[w] = IF w = v THEN p ELSE server.parent[w]
  BY <1>1 DEF SetParent, Server
<1>3. ASSUME Descent(server) PROVE Descent(server')
  <2>1. /\ v \in server.views /\ server.mapped \subseteq server.views
        /\ p \in server.mapped \cup {None} /\ server.views \subseteq Views
        /\ p # None => v \notin Ancestors(server, p)
    BY <1>1 DEF SetParent, Server, Ordered
  <2>2. ASSUME NEW C \in SUBSET server.views, C # {}, \A c \in C : server'.parent[c] \in C
        PROVE FALSE
    <3>1. CASE v \notin C
      <4>1. \A c \in C : server.parent[c] \in C BY <1>2, <2>1, <2>2, <3>1
      <4> QED BY <1>3, <2>2, <4>1 DEF Descent, Rooted
    <3>2. CASE v \in C
      <4>1. p \in C /\ p # None BY <1>2, <1>3, <2>1, <2>2, <3>2 DEF Descent
      <4> DEFINE A == Ancestors(server, p)
      <4>2. /\ p \in A /\ A \subseteq server.views
            /\ \A a \in A : server.parent[a] \in A \cup {None}
        BY <1>3, <4>1, AncestorsAre DEF Descent
      <4>3. v \notin A BY <2>1, <4>1
      <4> HIDE DEF A
      <4>4. \A a \in A \cap C : server.parent[a] \in A \cap C
        BY <1>2, <1>3, <2>1, <2>2, <4>2, <4>3 DEF Descent
      <4>5. A \cap C \in SUBSET server.views /\ A \cap C # {} BY <4>1, <4>2
      <4> QED BY <1>3, <4>4, <4>5 DEF Descent, Rooted
    <3> QED BY <3>1, <3>2
  <2>3. Rooted(server') BY <1>2, <1>3, <2>1, <2>2 DEF Descent, Rooted
  <2> QED BY <1>2, <1>3, <2>1, <2>3 DEF Descent
<1> QED BY <1>2, <1>3, CalmSteps

\* ToggleOmnipresent
LEMMA ToggleOmnipresentStepped ==
  ASSUME Coherent(server), Ordered(server), NEW v \in Views, ToggleOmnipresent(v)
  PROVE Stepped /\ StaysPlaced
<1>1. server \in Server BY DEF Coherent, Plain
<1>2. /\ server'.views = server.views /\ server'.above = server.above
      /\ server'.mapped = server.mapped /\ server'.workspace = server.workspace
      /\ server'.current = server.current /\ server'.last = server.last
      /\ server'.focused_surface = server.focused_surface
      /\ SameHierarchy(server, server')
  BY <1>1 DEF ToggleOmnipresent, Server, SameHierarchy
<1> QED BY <1>2, CalmSteps, SameDescent

\* interactive_set_grab_context()
LEMMA ButtonPressStepped ==
  ASSUME Coherent(server), Ordered(server), NEW v \in Views, ButtonPress(v)
  PROVE Stepped /\ StaysPlaced
<1>1. server \in Server BY DEF Coherent, Plain
<1>2. /\ server'.views = server.views /\ server'.above = server.above
      /\ server'.mapped = server.mapped /\ server'.workspace = server.workspace
      /\ server'.current = server.current /\ server'.last = server.last
      /\ server'.focused_surface = server.focused_surface
      /\ SameHierarchy(server, server')
  BY <1>1 DEF ButtonPress, Server, SameHierarchy
<1> QED BY <1>2, CalmSteps, SameDescent

\* seat_focus_override_begin() only takes the keyboard.
LEMMA OverrideBeginWindows ==
  ASSUME NEW s \in Server, NEW mode
  PROVE SameWindows(s, FocusOverrideBegin(s, mode))
<1> DEFINE t == [s EXCEPT !.input_mode = mode, !.override = s.focused_surface]
           u == [s EXCEPT !.input_mode = mode, !.override = s.focused_surface,
                          !.focused_surface = None]
           x == [s EXCEPT !.input_mode = mode, !.override = s.focused_surface,
                          !.focused_surface = None, !.active_view = None]
<1>1. SameWindows(s, t) /\ SameWindows(s, u) /\ SameWindows(s, x)
  BY DEF Server, SameWindows, SameHierarchy
<1>2. [t EXCEPT !.focused_surface = None] = u /\ [u EXCEPT !.active_view = None] = x
  BY DEF Server
<1>3. FocusOverrideBegin(s, mode) \in {t, KeyboardEnter(t, None)}
  BY DEF FocusOverrideBegin, SeatFocus
<1> HIDE DEF u, x
<1>4. KeyboardEnter(t, None) \in {t, u, x}
  BY <1>2 DEF KeyboardEnter, HandleFocusChange
<1> QED BY <1>1, <1>3, <1>4

\* seat_focus_override_end() only gives it back.
LEMMA OverrideEndWindows ==
  ASSUME NEW s, Coherent(s), s.input_mode # "passthrough"
  PROVE SameWindows(s, FocusOverrideEnd(s, TRUE))
<1>1. s \in Server BY DEF Coherent, Plain
<1>2. FocusOverrideEnd(s, TRUE) = [s EXCEPT !.input_mode = "passthrough",
                                            !.focused_surface = s.override,
                                            !.active_view = s.override,
                                            !.override = None]
  BY OverrideEndIs DEF Coherent, ActiveIsFocused
<1> QED BY <1>1, <1>2 DEF Server, SameWindows, SameHierarchy

\* The handlers that begin or end an input mode
LEMMA ModeStepped ==
  ASSUME Coherent(server), Ordered(server),
         \/ \E v \in Views, mode \in {"move", "resize"} : InteractiveBegin(v, mode)
         \/ ButtonRelease \/ OpenMenu \/ CloseMenu
  PROVE Stepped /\ StaysPlaced
<1>1. server \in Server BY DEF Coherent, Plain
<1>2. /\ SameWindows(server, server')
      /\ server.input_mode = "passthrough" /\ server'.input_mode = "passthrough"
           => server'.focused_surface = server.focused_surface
      /\ server.input_mode = "passthrough" =>
           server'.focused_surface \in {server.focused_surface, None}
  <2>1. ASSUME NEW mode \in InputModes \ {"passthrough"}, server.input_mode = "passthrough",
               mode \in {"move", "resize"} => server.grabbed_view # None,
               server' = FocusOverrideBegin(server, mode)
        PROVE /\ SameWindows(server, server') /\ server'.input_mode # "passthrough"
              /\ server'.focused_surface \in {server.focused_surface, None}
    <3>1. SameWindows(server, server') BY <1>1, <2>1, OverrideBeginWindows
    <3>2. [server EXCEPT !.input_mode = mode, !.override = server.focused_surface].input_mode = mode
      BY <1>1 DEF Server
    <3>3. \A t, f : t \in Server /\ t.input_mode = mode =>
             KeyboardEnter(t, f).input_mode = mode
      BY DEF KeyboardEnter, HandleFocusChange, Server
    <3>4. [server EXCEPT !.input_mode = mode, !.override = server.focused_surface] \in Server
      BY <1>1, ZenonT(60) DEF Server
    <3>5. server'.input_mode = mode
      BY <2>1, <3>2, <3>3, <3>4 DEF FocusOverrideBegin, SeatFocus
    <3>6. \A t : t \in Server =>
             KeyboardEnter(t, None).focused_surface \in {t.focused_surface, None}
      BY DEF KeyboardEnter, HandleFocusChange, Server
    <3>7. [server EXCEPT !.input_mode = mode, !.override = server.focused_surface]
             .focused_surface = server.focused_surface
      BY <1>1 DEF Server
    <3>8. server'.focused_surface \in {server.focused_surface, None}
      BY <2>1, <3>4, <3>6, <3>7 DEF FocusOverrideBegin, SeatFocus
    <3> QED BY <3>1, <3>5, <3>8
  <2>2. CASE \E v \in Views, mode \in {"move", "resize"} : InteractiveBegin(v, mode)
    <3>1. PICK v \in Views, mode \in {"move", "resize"} : InteractiveBegin(v, mode) BY <2>2
    <3>2. mode \in InputModes \ {"passthrough"} /\ server.grabbed_view # None
      BY <3>1, SeatAssumption DEF InputModes, InteractiveBegin
    <3> QED BY <2>1, <3>1, <3>2 DEF InteractiveBegin
  <2>3. CASE ButtonRelease
    <3>1. CoherentButGrab(server, server.grabbed_view)
      BY DEF CoherentButGrab, Coherent, GrabMatchesMode
    <3> QED BY <2>3, <3>1, InteractiveCancelWindows DEF ButtonRelease
  <2>4. CASE OpenMenu
    BY <2>1, <2>4 DEF OpenMenu, InputModes
  <2>5. CASE CloseMenu
    BY <2>5, OverrideEndWindows DEF CloseMenu
  <2> QED BY <2>2, <2>3, <2>4, <2>5
<1>3. Descent(server) => Descent(server') BY <1>2, SameDescent DEF SameWindows
<1> QED BY <1>2, <1>3, CalmSteps DEF SameWindows, SameHierarchy

\* The handlers that minimize, show or focus a view
LEMMA RequestStepped ==
  ASSUME Coherent(server), Ordered(server), NEW v \in Views,
         \/ \E b \in BOOLEAN : RequestMinimize(v, b)
         \/ Activate(v) \/ FocusAction(v) \/ CursorEnter(v)
  PROVE Stepped /\ StaysPlaced
<1>1. \A b \in BOOLEAN : LET t == ViewMinimize(server, v, b)
                         IN  Handled(server, t) /\ \A A : Placed(server, A) => Placed(t, A)
  BY ViewMinimizeHandled
<1>2. \A raise, delay : LET t == FocusView(server, v, raise, delay)
                        IN  Handled(server, t) /\ \A A : Placed(server, A) => Placed(t, A)
  BY FocusViewHandled
<1>3. Handled(server, server') /\ \A A : Placed(server, A) => Placed(server', A)
  BY <1>1, <1>2 DEF RequestMinimize, Activate, FocusAction, CursorEnter
<1> QED BY <1>3, HandledSteps DEF StaysPlaced

\* view_move_to_front() leaves the focus alone.
LEMMA MoveToFrontHandled ==
  ASSUME NEW s, Coherent(s), Ordered(s), NEW v \in s.mapped
  PROVE LET t == MoveToFront(s, v)
        IN  Handled(s, t) /\ \A A : Placed(s, A) => Placed(t, A)
<1> DEFINE t == MoveToFront(s, v)
<1>1. s \in Server /\ None \notin s.mapped BY SeatAssumption DEF Coherent, Plain, Server
<1>2. ListMoved(s, t.above) BY <1>1, MoveToFrontMoves DEF ListMoved
<1>3. /\ SameHierarchy(s, t) /\ t.workspace = s.workspace
      /\ t.current = s.current /\ t.last = s.last
      /\ t.input_mode = s.input_mode /\ t.focused_surface = s.focused_surface
  BY <1>1, MoveToFrontWindows
<1> HIDE DEF t
<1>4. Handled(s, t) BY <1>1, <1>2, <1>3 DEF Handled, Yields
<1>5. \A A : Placed(s, A) => Placed(t, A) BY <1>3 DEF Placed, SameHierarchy
<1> QED BY <1>4, <1>5 DEF t

\* view_move_to_back() does, too.
LEMMA MoveToBackHandled ==
  ASSUME NEW s, Coherent(s), Ordered(s), NEW v \in s.mapped
  PROVE LET t == MoveToBack(s, v)
        IN  Handled(s, t) /\ \A A : Placed(s, A) => Placed(t, A)
<1> DEFINE t == MoveToBack(s, v)
<1>1. s \in Server /\ None \notin s.mapped BY SeatAssumption DEF Coherent, Plain, Server
<1>2. ListMoved(s, t.above) BY <1>1, MoveToBackMoves DEF ListMoved
<1>3. \A R : LET r == [s EXCEPT !.above = R]
             IN  /\ SameHierarchy(s, r) /\ r.workspace = s.workspace
                 /\ r.current = s.current /\ r.last = s.last
                 /\ r.input_mode = s.input_mode /\ r.focused_surface = s.focused_surface
  BY <1>1 DEF Server, SameHierarchy
<1>4. \E R : t = [s EXCEPT !.above = R] BY DEF MoveToBack
<1> HIDE DEF t
<1>5. Handled(s, t) BY <1>1, <1>2, <1>3, <1>4 DEF Handled, Yields
<1>6. \A A : Placed(s, A) => Placed(t, A) BY <1>3, <1>4 DEF Placed, SameHierarchy
<1> QED BY <1>5, <1>6 DEF t

\* Raise and Lower, and the auto-raise timer
LEMMA RestackStepped ==
  ASSUME Coherent(server), Ordered(server),
         \/ \E v \in Views : Raise(v) \/ Lower(v)
         \/ AutoRaiseTimer
  PROVE Stepped /\ StaysPlaced
<1>1. server \in Server /\ None \notin server.mapped
  BY SeatAssumption DEF Coherent, Plain, Server
<1>2. Handled(server, server') /\ \A A : Placed(server, A) => Placed(server', A)
  <2>1. CASE \E v \in Views : Raise(v) BY <2>1, MoveToFrontHandled DEF Raise
  <2>2. CASE \E v \in Views : Lower(v) BY <2>2, MoveToBackHandled DEF Lower
  <2>3. CASE AutoRaiseTimer
    <3> DEFINE s == [server EXCEPT !.auto_raise = None]
               v == server.auto_raise
    <3>1. Coherent(s) BY AutoRaiseCoherent
    <3>2. SameWindows(server, s) /\ s.input_mode = server.input_mode
          /\ s.focused_surface = server.focused_surface
      BY <1>1 DEF Server, SameWindows, SameHierarchy
    <3>3. server' = IF v \in s.mapped THEN MoveToFront(s, v) ELSE s
      BY <2>3 DEF AutoRaiseTimer
    <3> HIDE DEF s, v
    <3>4. Ordered(s) BY <3>2, SameOrdered DEF SameWindows
    <3>5. None \notin s.mapped BY <1>1, <3>2 DEF SameWindows, SameHierarchy
    <3>6. Handled(s, s) /\ \A A : Placed(s, A) => Placed(s, A)
      BY <3>4, <3>5, SameHandled DEF SameHierarchy
    <3>7. Handled(s, server') /\ \A A : Placed(s, A) => Placed(server', A)
      BY <3>1, <3>3, <3>4, <3>6, MoveToFrontHandled
    <3>8. SameHierarchy(server, server') BY <3>2, <3>7 DEF Handled, SameWindows, SameHierarchy
    <3>9. ListMoved(server, server'.above) BY <3>2, <3>7, SameListMoved DEF Handled
    <3>10. \A A : Placed(server, A) => Placed(s, A)
      BY <3>2 DEF Placed, SameWindows, SameHierarchy
    <3>11. Yields(server, server') BY <3>2, <3>7 DEF Handled, Yields
    <3> QED BY <3>2, <3>7, <3>8, <3>9, <3>10, <3>11 DEF Handled, SameWindows, SameHierarchy
  <2> QED BY <2>1, <2>2, <2>3
<1> QED BY <1>2, HandledSteps DEF StaysPlaced

\* Unfocus takes the keyboard from all views on purpose.
LEMMA UnfocusStepped ==
  ASSUME Coherent(server), Ordered(server), UnfocusAction
  PROVE Stepped /\ StaysPlaced
<1>1. server \in Server BY DEF Coherent, Plain
<1>2. /\ SameWindows(server, server') /\ server'.input_mode = server.input_mode
      /\ server.input_mode = "passthrough" => server'.focused_surface = None
  BY SeatFocusSurfaceWindows DEF UnfocusAction
<1>3. Ordered(server') BY <1>2, SameOrdered DEF SameWindows
<1>4. StepMoves
  BY <1>1, <1>2, RemappedIs DEF StepMoves, FamiliesMove, SameWindows, SameHierarchy
<1>5. StepFocus BY <1>2 DEF StepFocus
<1>6. StaysPlaced BY <1>2 DEF StaysPlaced, Placed, SameWindows, SameHierarchy
<1>7. StepDescends BY <1>2, SameDescent DEF StepDescends, Yields, SameWindows
<1> QED BY <1>3, <1>4, <1>5, <1>6, <1>7 DEF Stepped

\* view_impl_map(): the hierarchies are those with the view in them.
LEMMA MapStepped ==
  ASSUME Coherent(server), Ordered(server), NEW v \in Views, Map(v)
  PROVE Stepped /\ StaysPlaced
<1> DEFINE M == server.mapped \cup {v}
           s == [server EXCEPT !.mapped = M]
<1>1. server \in Server /\ v \in server.views BY DEF Coherent, Plain, Map
<1>2. M \in SUBSET Views BY <1>1 DEF Server
<1>3. /\ s \in Server
      /\ s.views = server.views /\ s.mapped = M /\ s.minimized = server.minimized
      /\ s.active_view = server.active_view /\ s.last_active = server.last_active
      /\ s.grabbed_view = server.grabbed_view /\ s.auto_raise = server.auto_raise
      /\ s.focused_surface = server.focused_surface /\ s.override = server.override
      /\ s.input_mode = server.input_mode
      /\ s.locked = server.locked /\ s.focused_layer = server.focused_layer
  <2> HIDE DEF M
  <2> QED BY <1>1, <1>2, MappedType
<1>4. s.workspace = server.workspace /\ s.current = server.current /\ s.last = server.last
      /\ s.above = server.above /\ s.parent = server.parent
  BY <1>1, RemappedIs
<1>5. server' \in {s, FocusView(s, v, TRUE, FALSE)} BY DEF Map
<1>6. s.mapped = M => s = [server EXCEPT !.mapped = s.mapped] OBVIOUS
<1> HIDE DEF s
<1>7. Coherent(s)
  BY <1>1, <1>3 DEF Coherent, Plain, PointsToLive, GrabMatchesMode, ActiveIsFocused, Visible
<1>8. Ordered(s) BY <1>1, <1>3, <1>4 DEF Ordered
<1>9. \A raise, delay : LET t == FocusView(s, v, raise, delay)
                        IN  Handled(s, t) /\ \A A : Placed(s, A) => Placed(t, A)
  BY <1>7, <1>8, FocusViewHandled
<1>10. Handled(s, s)
  <2>1. None \notin s.mapped BY <1>3, SeatAssumption DEF Server
  <2> QED BY <1>8, <2>1, SameHandled DEF SameHierarchy
<1>11. Handled(s, server') /\ \A A : Placed(s, A) => Placed(server', A)
  BY <1>5, <1>9, <1>10
<1>12. server'.views = server.views /\ server'.mapped = M
  BY <1>3, <1>11 DEF Handled, SameHierarchy
<1>13. Ordered(server') BY <1>3, <1>8, <1>11 DEF Handled, ListMoved, SameHierarchy, Ordered
<1>14. StepMoves
  <2>1. [server EXCEPT !.mapped = server'.mapped] = s BY <1>3, <1>6, <1>12
  <2> QED BY <2>1, <1>11 DEF StepMoves, Handled, ListMoved
<1>15. StepFocus
  BY <1>3, <1>11, <1>12 DEF StepFocus, Handled, NobodyLeft
<1>16. StaysPlaced BY <1>3, <1>4, <1>11 DEF StaysPlaced, Placed
<1>17. StepDescends
  <2>1. Descent(server) => Descent(s) BY <1>3, <1>4 DEF Descent, Rooted
  <2>2. Descent(s) => Descent(server') BY <1>11, SameDescent DEF Handled
  <2> QED BY <1>3, <1>11, <2>1, <2>2 DEF StepDescends, Handled, Yields
<1> QED BY <1>13, <1>14, <1>15, <1>16, <1>17 DEF Stepped

\* view_impl_unmap(): the hierarchies are those without the view, and the keyboard
\* goes to another one if it had it.
LEMMA UnmapStepped ==
  ASSUME Coherent(server), Ordered(server), NEW v \in Views, Unmap(v)
  PROVE Stepped /\ StaysPlaced
<1> DEFINE M == server.mapped \ {v}
           t == [server EXCEPT !.mapped = M]
           u == IF v \in server.minimized THEN t ELSE InteractiveCancel(t, v)
           s == IF u.active_view \in {v, None} THEN FocusTopmost(u) ELSE u
           P == [ w \in Views |-> IF w = v THEN None
                                  ELSE IF s.parent[w] = v THEN s.parent[v] ELSE s.parent[w] ]
<1>1. server \in Server BY DEF Coherent, Plain
<1>2. M \in SUBSET Views BY <1>1 DEF Server
<1>3. /\ t \in Server
      /\ t.views = server.views /\ t.mapped = M /\ t.minimized = server.minimized
      /\ t.active_view = server.active_view /\ t.last_active = server.last_active
      /\ t.grabbed_view = server.grabbed_view /\ t.auto_raise = server.auto_raise
      /\ t.focused_surface = server.focused_surface /\ t.override = server.override
      /\ t.input_mode = server.input_mode
      /\ t.locked = server.locked /\ t.focused_layer = server.focused_layer
  <2> HIDE DEF M
  <2> QED BY <1>1, <1>2, MappedType
<1>4. t.workspace = server.workspace /\ t.current = server.current /\ t.last = server.last
      /\ t.above = server.above /\ t.parent = server.parent
  BY <1>1, RemappedIs
<1>5. t.mapped = M => t = [server EXCEPT !.mapped = t.mapped] OBVIOUS
<1>6. ImplUnmap(server, v) = s BY DEF ImplUnmap
<1>7. server' = [s EXCEPT !.parent = P] BY <1>6 DEF Unmap
<1> HIDE DEF t
<1>8. CoherentButGrab(t, v) /\ (v \in server.minimized => Coherent(t))
  <2>1. Plain(t) /\ ActiveIsFocused(t) BY <1>3 DEF Coherent, Plain, ActiveIsFocused
  <2>2. PointsToLive(t) BY <1>3 DEF Coherent, PointsToLive
  <2> QED BY <1>3, <2>1, <2>2 DEF CoherentButGrab, Coherent, GrabMatchesMode, Visible
<1>9. /\ Coherent(u) /\ SameWindows(t, u)
      /\ t.input_mode = "passthrough" =>
           u.input_mode = "passthrough" /\ u.focused_surface = t.focused_surface
           /\ u.active_view = t.active_view
  BY <1>8, InteractiveCancelCoherent, InteractiveCancelWindows DEF SameWindows, SameHierarchy
<1> HIDE DEF u
<1>10. Ordered(u)
  <2>1. Ordered(t) BY <1>3, <1>4 DEF Ordered
  <2> QED BY <1>9, <2>1, SameOrdered DEF SameWindows
<1>11. /\ SameHierarchy(u, s) /\ ListMoved(u, s.above) /\ s \in Server
       /\ \A A : Placed(u, A) => Placed(s, A)
       /\ Yields(u, s)
       /\ u.input_mode = "passthrough" =>
            IF u.active_view \in {v, None}
            THEN s.focused_surface \in u.mapped \/ (s.focused_surface = None /\ NobodyLeft(s))
            ELSE s.focused_surface = u.focused_surface
  <2>1. CASE u.active_view \in {v, None}
    BY <1>9, <1>10, <2>1, FocusTopmostRefocuses, FocusTopmostCoherent
    DEF Refocused, Coherent, Plain
  <2>2. CASE u.active_view \notin {v, None}
    BY <1>9, <1>10, <2>2, KeptListMoved DEF SameHierarchy, Coherent, Plain, Yields
  <2> QED BY <2>1, <2>2
<1>19. s.parent \in [Views -> Views \cup {None}] BY <1>11 DEF Server
<1> HIDE DEF s
<1>20. \A w \in Views : P[w] = IF w = v THEN None
                                ELSE IF s.parent[w] = v THEN s.parent[v] ELSE s.parent[w]
  OBVIOUS
<1> HIDE DEF P
<1>12. /\ server'.views = s.views /\ server'.above = s.above /\ server'.mapped = s.mapped
       /\ server'.minimized = s.minimized /\ server'.workspace = s.workspace
       /\ server'.current = s.current /\ server'.last = s.last
       /\ server'.focused_surface = s.focused_surface /\ server'.parent = P
  BY <1>7, <1>11 DEF Server
<1>13. s.views = server.views /\ s.mapped = M /\ u.mapped = M
  BY <1>3, <1>9, <1>11 DEF SameWindows, SameHierarchy
<1>14. ListMoved(t, s.above) BY <1>9, <1>11, SameListMoved
<1>15. Ordered(server')
  BY <1>3, <1>12, <1>13, <1>14 DEF ListMoved, Ordered
<1>16. StepMoves
  <2>1. [server EXCEPT !.mapped = server'.mapped] = t BY <1>3, <1>5, <1>12, <1>13
  <2> QED BY <2>1, <1>12, <1>14 DEF StepMoves, ListMoved
<1>17. StepFocus
  <2> SUFFICES ASSUME server.input_mode = "passthrough"
               PROVE /\ server.focused_surface \in server.mapped \cup {None} =>
                          server'.focused_surface \in server'.mapped \cup {None}
                     /\ server.focused_surface \in server.mapped /\ server'.focused_surface = None
                          => NobodyLeft(server')
    BY DEF StepFocus, NobodyLeft
  <2>1. u.input_mode = "passthrough" /\ u.focused_surface = server.focused_surface
        /\ u.active_view = server.focused_surface
    BY <1>3, <1>9 DEF Coherent, ActiveIsFocused
  <2>2. NobodyLeft(s) => NobodyLeft(server')
    BY <1>12 DEF NobodyLeft, OnCurrentWorkspace
  <2>3. None \notin server.mapped BY <1>1, SeatAssumption DEF Server
  <2> QED BY <1>11, <1>12, <1>13, <2>1, <2>2, <2>3
<1>18. StaysPlaced
  BY <1>3, <1>4, <1>9, <1>11, <1>12 DEF StaysPlaced, Placed, SameWindows, SameHierarchy
<1>21. StepDescends
  <2> SUFFICES ASSUME Descent(server) PROVE Descent(server') /\ Yields(server, server')
    BY DEF StepDescends
  <2>1. s.parent = server.parent
    BY <1>3, <1>4, <1>9, <1>11 DEF SameWindows, SameHierarchy
  <2>2. server.views \subseteq Views /\ server.mapped \subseteq server.views
        /\ v \in server.mapped
    BY <1>1 DEF Server, Ordered, Unmap
  <2>3. Rooted(s) /\ None \notin s.views BY <1>13, <2>1 DEF Descent, Rooted
  <2>4. Adopted(s, v, server'.parent) BY <1>12, <1>13, <1>20, <2>2 DEF Adopted
  <2>5. Rooted(server') BY <1>12, <1>13, <2>2, <2>3, <2>4, AdoptedRooted
  <2>6. s.parent[v] # v
    <3>1. {v} \in SUBSET s.views BY <1>13, <2>2
    <3> QED BY <2>3, <3>1 DEF Rooted
  <2>7. Descent(server')
    <3>1. \A w \in server'.views : server'.parent[w] \in server'.mapped \cup {None}
      BY <1>12, <1>13, <2>1, <2>2, <2>4, <2>6 DEF Adopted, Descent
    <3>2. \A w \in Views \ server'.views : server'.parent[w] = None
      BY <1>12, <1>13, <1>20, <2>1, <2>2 DEF Descent
    <3> QED BY <1>12, <1>13, <2>3, <2>5, <3>1, <3>2 DEF Descent
  <2>8. Yields(server, server')
    <3> SUFFICES ASSUME server.input_mode = "passthrough",
                        s.focused_surface \notin {server.focused_surface, None}
                 PROVE Proper(server', s.focused_surface)
      BY <1>12 DEF Yields
    <3>1. u.input_mode = "passthrough" /\ u.focused_surface = server.focused_surface
      BY <1>3, <1>9
    <3>2. Proper(s, s.focused_surface) /\ s.focused_surface \in s.mapped
      BY <1>11, <1>13, <3>1 DEF Yields
    <3> QED BY <1>12, <1>13, <2>2, <2>3, <2>4, <3>2, AdoptedProper
  <2> QED BY <2>7, <2>8
<1> QED BY <1>15, <1>16, <1>17, <1>18, <1>21 DEF Stepped

\* What view_destroy() leaves of the list, the windows and, outside the input modes,
\* the keyboard
LEMMA DestroyIs ==
  ASSUME Coherent(server), NEW v \in Views, Destroy(v)
  PROVE /\ server'.views = server.views \ {v}
        /\ server'.above = { p \in server.above : v \notin {p[1], p[2]} }
        /\ server'.mapped = server.mapped
        /\ server'.current = server.current /\ server'.last = server.last
        /\ \A w \in server'.views : server'.workspace[w] = server.workspace[w]
        /\ \A w \in Views : server'.parent[w] = IF w = v THEN None ELSE server.parent[w]
        /\ server.input_mode = "passthrough" =>
             server'.focused_surface = IF server.focused_surface = v THEN None
                                       ELSE server.focused_surface
<1>1. server \in Server /\ v \notin server.mapped /\ v # None
  BY SeatAssumption DEF Coherent, Plain, Destroy
<1> DEFINE f == Forget(server, v)
<1>2. Leaving(f, v) /\ f.mapped = server.mapped /\ SameWindows(server, f)
      /\ f.input_mode = server.input_mode /\ f.focused_surface = server.focused_surface
  <2>1. server.grabbed_view # v BY <1>1 DEF Coherent, GrabMatchesMode, Visible
  <2>2. InteractiveCancel(server, v) = server BY <2>1 DEF InteractiveCancel
  <2>3. \E a, r, l : f = [server EXCEPT !.active_view = a, !.auto_raise = r, !.last_active = l]
    BY <2>2 DEF Forget
  <2> HIDE DEF f
  <2>4. Leaving(f, v) /\ f.mapped = server.mapped BY <1>1, ForgetLeaving DEF f
  <2>5. PICK a, r, l : f = [server EXCEPT !.active_view = a, !.auto_raise = r,
                                          !.last_active = l]
    BY <2>3
  <2>6. SameWindows(server, f) /\ f.input_mode = server.input_mode
        /\ f.focused_surface = server.focused_surface
    BY <1>1, <2>5 DEF Server, SameWindows, SameHierarchy
  <2> QED BY <2>4, <2>6
<1>3. PICK ownMenu \in {FALSE, server.input_mode = "menu"} :
        server' = RemoveView(IF ownMenu THEN FocusOverrideEnd(f, TRUE) ELSE f, v)
  BY DEF Destroy
<1> DEFINE t == IF ownMenu THEN FocusOverrideEnd(f, TRUE) ELSE f
<1>4. /\ t \in Server /\ SameWindows(f, t) /\ Leaving(t, v)
      /\ server.input_mode = "passthrough" =>
           t.focused_surface = server.focused_surface /\ t.input_mode = "passthrough"
  <2>1. CASE ownMenu
    <3>1. f.input_mode = "menu" BY <1>2, <1>3, <2>1
    <3> HIDE DEF f
    <3>2. Leaving(FocusOverrideEnd(f, TRUE), v) BY <1>2, <3>1, OverrideEndLeaving
    <3>3. FocusOverrideEnd(f, TRUE) = [f EXCEPT !.input_mode = "passthrough",
                                                !.focused_surface = f.override,
                                                !.active_view = f.override,
                                                !.override = None]
      BY <1>1, <1>2, <3>1, OverrideEndIs DEF Leaving
    <3>4. f \in Server BY <1>2 DEF Leaving, Plain
    <3>5. SameWindows(f, FocusOverrideEnd(f, TRUE))
      BY <3>3, <3>4 DEF Server, SameWindows, SameHierarchy
    <3> QED BY <1>2, <2>1, <3>1, <3>2, <3>5 DEF Leaving, Plain
  <2>2. CASE ~ownMenu
    BY <1>2, <2>2 DEF Leaving, Plain, SameWindows, SameHierarchy
  <2> QED BY <2>1, <2>2
<1> HIDE DEF t, f
<1> DEFINE V == t.views \ {v}
           A == { p \in t.above : v \notin {p[1], p[2]} }
           P == [t.parent EXCEPT ![v] = None]
           N == t.minimized \ {v}
           W == [t.workspace EXCEPT ![v] = FirstWorkspace]
           O == t.omnipresent \ {v}
           H == t.hidden \ {v}
           x == [t EXCEPT !.views = V, !.above = A, !.parent = P, !.minimized = N,
                          !.workspace = W, !.omnipresent = O, !.hidden = H]
<1>5. server' = SurfaceDestroyed(x, v)
  BY <1>3, <1>4 DEF RemoveView, Server, t
<1>6. \A w \in V : W[w] = t.workspace[w]
  <2>1. V \subseteq Views BY <1>4 DEF Server
  <2> QED BY <1>4, <2>1 DEF Server
<1>7. A \subseteq Views \X Views BY <1>4 DEF Server
<1>10. \A w \in Views : P[w] = IF w = v THEN None ELSE t.parent[w] BY <1>4 DEF Server
<1> HIDE DEF V, A, P, N, W, O, H
<1>8. /\ x.views = V /\ x.above = A /\ x.workspace = W /\ x.mapped = t.mapped
      /\ x.current = t.current /\ x.last = t.last /\ x.parent = P
      /\ x.focused_surface = t.focused_surface /\ x.input_mode = t.input_mode
  BY <1>4 DEF Server
<1>9. /\ server'.views = V /\ server'.above = A /\ server'.workspace = W
      /\ server'.mapped = t.mapped /\ server'.parent = P
      /\ server'.current = t.current /\ server'.last = t.last
      /\ server.input_mode = "passthrough" =>
           server'.focused_surface = IF t.focused_surface = v THEN None ELSE t.focused_surface
  <2> DEFINE After(y) ==
                 /\ y.views = V /\ y.above = A /\ y.workspace = W /\ y.mapped = t.mapped
                 /\ y.current = t.current /\ y.last = t.last /\ y.parent = P
                 /\ y.focused_surface = IF t.focused_surface = v THEN None ELSE t.focused_surface
             Ends(y) == After(y) /\ After([y EXCEPT !.override = None])
  <2>1. \A y : Ends(y) /\ (server' = y \/ server' = [y EXCEPT !.override = None])
                  => After(server')
    <3> HIDE DEF After
    <3> QED BY Zenon
  <2>2. CASE t.focused_surface = v
    <3> DEFINE k == [x EXCEPT !.focused_surface = None]
               l == [k EXCEPT !.active_view = None]
    <3>1. Ends(k) BY <1>4, <2>2 DEF Server
    <3>2. Ends(l) BY <1>4, <2>2 DEF Server
    <3>3. KeyboardEnter(x, None) \in {k, l}
      BY <1>1, <1>8, <2>2 DEF KeyboardEnter, HandleFocusChange
    <3> HIDE DEF k, l, x, Ends
    <3>4. Ends(KeyboardEnter(x, None)) BY <3>1, <3>2, <3>3
    <3>5. \/ server' = KeyboardEnter(x, None)
          \/ server' = [KeyboardEnter(x, None) EXCEPT !.override = None]
      BY <1>5, <1>8, <2>2 DEF SurfaceDestroyed
    <3> HIDE DEF After
    <3>6. After(server') BY <2>1, <3>4, <3>5
    <3> QED BY <3>6 DEF After
  <2>3. CASE t.focused_surface # v
    <3>1. Ends(x) BY <1>4, <2>3 DEF Server
    <3> HIDE DEF x, Ends
    <3>2. server' = x \/ server' = [x EXCEPT !.override = None]
      BY <1>5, <1>8, <2>3 DEF SurfaceDestroyed
    <3> HIDE DEF After
    <3>3. After(server') BY <2>1, <3>1, <3>2
    <3> QED BY <3>3 DEF After
  <2> QED BY <2>2, <2>3
<1> QED BY <1>2, <1>4, <1>6, <1>9, <1>10 DEF SameWindows, SameHierarchy, V, A, W

\* view_destroy() only takes the view out of the list.
LEMMA DestroyStepped ==
  ASSUME Coherent(server), Ordered(server), NEW v \in Views, Destroy(v)
  PROVE Stepped /\ StaysPlaced
<1>1. server \in Server /\ v \notin server.mapped /\ None \notin server.mapped
  BY SeatAssumption DEF Coherent, Plain, Server, Destroy
<1>2. /\ server'.views = server.views \ {v}
      /\ server'.above = { p \in server.above : v \notin {p[1], p[2]} }
      /\ server'.mapped = server.mapped
      /\ server'.current = server.current /\ server'.last = server.last
      /\ \A w \in server'.views : server'.workspace[w] = server.workspace[w]
      /\ \A w \in Views : server'.parent[w] = IF w = v THEN None ELSE server.parent[w]
      /\ server.input_mode = "passthrough" =>
           server'.focused_surface = IF server.focused_surface = v THEN None
                                     ELSE server.focused_surface
  BY DestroyIs
<1>3. Ordered(server')
  <2>1. IsFiniteSet(server'.views) BY <1>2, FS_Subset DEF Ordered
  <2>2. \A a, b : <<a, b>> \in server'.above <=> <<a, b>> \in server.above /\ a # v /\ b # v
    BY <1>2
  <2>3. StrictOrder(server'.above, server'.views)
    BY <1>2, <2>2 DEF Ordered, StrictOrder
  <2>4. server'.above \subseteq server'.views \X server'.views
    <3>1. \A p \in server.above : p[1] \in server.views /\ p[2] \in server.views /\ p = <<p[1], p[2]>>
      BY DEF Ordered
    <3> QED BY <1>2, <3>1
  <2> QED BY <1>1, <1>2, <2>1, <2>3, <2>4 DEF Ordered
<1>4. StepMoves
  <2> DEFINE s == [server EXCEPT !.mapped = server'.mapped]
  <2>1. s.above = server.above BY <1>1, RemappedIs
  <2> HIDE DEF s
  <2>2. \A p \in s.above \ server'.above : <<p[2], p[1]>> \notin server'.above
    <3> TAKE p \in s.above \ server'.above
    <3>1. v \in {p[1], p[2]} BY <1>2, <2>1
    <3>2. v \in {<<p[2], p[1]>>[1], <<p[2], p[1]>>[2]} BY <3>1
    <3> QED BY <1>2, <3>2
  <2>3. FamiliesMove(s, server'.above) BY <2>2 DEF FamiliesMove
  <2> QED BY <2>3 DEF StepMoves, s
<1>5. StepFocus BY <1>1, <1>2 DEF StepFocus
<1>6. StaysPlaced BY <1>2 DEF StaysPlaced, Placed
<1>7. StepDescends
  <2> SUFFICES ASSUME Descent(server) PROVE Descent(server')
    BY <1>2 DEF StepDescends, Yields
  <2>1. server.views \subseteq Views /\ server.mapped \subseteq server'.views
        /\ server'.mapped = server.mapped
    BY <1>1, <1>2 DEF Server, Ordered
  <2>2. \A w \in server'.views : server'.parent[w] = server.parent[w]
    BY <1>2, <2>1
  <2>3. \A C \in SUBSET server'.views : C # {} => \E c \in C : server'.parent[c] \notin C
    BY <1>2, <2>2 DEF Descent, Rooted
  <2>4. \A w \in server'.views : server'.parent[w] \in server'.mapped \cup {None}
    BY <1>2, <2>1, <2>2 DEF Descent
  <2>5. Rooted(server') BY <2>1, <2>3, <2>4 DEF Rooted
  <2>6. \A w \in Views \ server'.views : server'.parent[w] = None
    BY <1>2, <2>1 DEF Descent
  <2> QED BY <1>2, <2>4, <2>5, <2>6 DEF Descent
<1> QED BY <1>3, <1>4, <1>5, <1>6, <1>7 DEF Stepped

\* A handler that first moves windows to other workspaces
LEMMA HandledAfter ==
  ASSUME NEW s, NEW u, SameHierarchy(s, u), u.above = s.above,
         u.input_mode = s.input_mode, u.focused_surface = s.focused_surface,
         NEW t, Handled(u, t)
  PROVE Handled(s, t)
<1>1. \A a : Family(u, a) = Family(s, a) BY SameFamilies
<1> QED BY <1>1 DEF Handled, ListMoved, FamiliesMove, SameHierarchy, Yields

\* GoToDesktop
LEMMA GoToDesktopStepped ==
  ASSUME Coherent(server), Ordered(server), NEW w \in Workspaces, GoToDesktop(w)
  PROVE Stepped /\ \A A : Placed(server, A) /\ w \in A => Placed(server', A)
<1>1. Handled(server, server') /\ \A A : Placed(server, A) /\ w \in A => Placed(server', A)
  BY SwitchToWorkspaceHandled DEF GoToDesktop
<1> QED BY <1>1, HandledSteps

\* SendToDesktop
LEMMA SendToDesktopStepped ==
  ASSUME Coherent(server), Ordered(server), NEW v \in Views, NEW w \in Workspaces,
         NEW follow \in BOOLEAN, SendToDesktop(v, w, follow)
  PROVE Stepped /\ \A A : Placed(server, A) /\ w \in A => Placed(server', A)
<1> DEFINE W == [server.workspace EXCEPT ![v] = w]
           s == [server EXCEPT !.workspace = W]
<1>1. server \in Server /\ None \notin server.mapped /\ server.views \subseteq Views
  BY SeatAssumption DEF Coherent, Plain, Server
<1>2. W \in [Views -> Workspaces] /\ \A x \in Views : W[x] \in {server.workspace[x], w}
  BY <1>1 DEF Server
<1>3. s = [server EXCEPT !.workspace[v] = w] BY <1>1 DEF Server
<1>4. server' = IF follow THEN SwitchToWorkspace(s, w)
                ELSE IF s.active_view = v THEN FocusTopmost(s) ELSE s
  <2> HIDE DEF s
  <2> QED BY <1>3 DEF SendToDesktop
<1> HIDE DEF W
<1>5. /\ s \in Server /\ AgreeOnFocus(server, s)
      /\ SameHierarchy(server, s) /\ s.above = server.above /\ s.workspace = W
      /\ s.current = server.current /\ s.last = server.last
      /\ s.input_mode = server.input_mode /\ s.focused_surface = server.focused_surface
  BY <1>1, <1>2 DEF Server, AgreeOnFocus, SameHierarchy
<1> HIDE DEF s
<1>6. Coherent(s) /\ Ordered(s) BY <1>5, AgreeCoherent, SameOrdered
<1>7. \A A : Placed(server, A) /\ w \in A => Placed(s, A)
  BY <1>1, <1>2, <1>5 DEF Placed, SameHierarchy
<1>8. Handled(server, server') /\ \A A : Placed(s, A) /\ w \in A => Placed(server', A)
  <2>1. CASE follow
    <3>1. LET t == SwitchToWorkspace(s, w)
          IN  Handled(s, t) /\ \A A : Placed(s, A) /\ w \in A => Placed(t, A)
      BY <1>6, SwitchToWorkspaceHandled
    <3> QED BY <1>4, <1>5, <2>1, <3>1, HandledAfter
  <2>2. CASE ~follow /\ s.active_view = v
    <3>1. Found(s, server') BY <1>4, <1>6, <2>2, FocusTopmostFound
    <3>2. Handled(server, server') BY <1>1, <1>5, <3>1, ThenFound
    <3> QED BY <3>1, <3>2 DEF Found, Refocused
  <2>3. CASE ~follow /\ s.active_view # v
    <3>1. server' = s BY <1>4, <2>3
    <3>2. Handled(server, server') BY <1>1, <1>5, <3>1, SameHandled
    <3> QED BY <3>1, <3>2
  <2> QED BY <2>1, <2>2, <2>3
<1> QED BY <1>7, <1>8, HandledSteps

----------------------------------------------------------------------------
(* The list of workspaces *)

\* A non-empty part of the list has a least and a greatest member.
LEMMA MinAndMax ==
  ASSUME NEW n \in Nat, NEW T \in SUBSET (1 .. n), T # {}
  PROVE /\ Min(T) \in T /\ \A w \in T : Min(T) =< w
        /\ Max(T) \in T /\ \A w \in T : Max(T) >= w
<1> DEFINE S == 1 .. n
           R == { p \in S \X S : p[1] < p[2] }
           D == { p \in S \X S : p[2] < p[1] }
<1>1. IsFiniteSet(S) BY FS_Interval
<1>2. \A u, v \in S : (<<u, v>> \in R <=> u < v) /\ (<<u, v>> \in D <=> v < u) OBVIOUS
<1>3. StrictOrder(R, S) /\ StrictOrder(D, S)
  <2> HIDE DEF R, D
  <2>1. \A u, v, w \in S : u < v /\ v < w => u < w OBVIOUS
  <2>2. \A u, v \in S : u # v => (u < v <=> ~(v < u)) OBVIOUS
  <2>3. \A u \in S : ~(u < u) OBVIOUS
  <2> HIDE DEF S
  <2> QED BY <1>2, <2>1, <2>2, <2>3 DEF StrictOrder
<1>4. T \subseteq S OBVIOUS
<1> HIDE DEF R, D
<1>5. \E v \in T : \A w \in T : v =< w
  <2>1. PICK v \in T : \A w \in T \ {v} : <<v, w>> \in R
    <3> HIDE DEF S
    <3> QED BY <1>1, <1>3, <1>4, OneIsFirst
  <2>2. \A w \in T \ {v} : v < w BY <1>2, <1>4, <2>1
  <2>3. \A w \in T : v \in Int /\ w \in Int BY <1>4
  <2> QED BY <2>2, <2>3
<1>6. \E v \in T : \A w \in T : v >= w
  <2>1. PICK v \in T : \A w \in T \ {v} : <<v, w>> \in D
    <3> HIDE DEF S
    <3> QED BY <1>1, <1>3, <1>4, OneIsFirst
  <2>2. \A w \in T \ {v} : w < v BY <1>2, <1>4, <2>1
  <2>3. \A w \in T : v \in Int /\ w \in Int BY <1>4
  <2> QED BY <2>2, <2>3
<1> QED BY <1>5, <1>6 DEF Min, Max

\* The occupied workspaces on either side of one
Before(s, w) == { x \in Occupied(s) : x < w }
After(s, w) == { x \in Occupied(s) : x > w }

\* What get_adjacent_occupied() finds is ahead, or else anywhere else.
LEMMA AdjacentOccupiedIs ==
  ASSUME number \in Nat, None \notin All, NEW s, NEW w \in All, NEW wrap \in BOOLEAN,
         NEW d \in Directions
  PROVE LET x == AdjacentOccupied(s, w, d, wrap)
        IN  /\ x \in Occupied(s) \cup {None}
            /\ x = None <=> IF wrap THEN Before(s, w) \cup After(s, w) = {}
                            ELSE IF d = "left" THEN Before(s, w) = {} ELSE After(s, w) = {}
            /\ d = "left" /\ Before(s, w) # {} => x = Max(Before(s, w))
            /\ d = "left" /\ Before(s, w) = {} /\ wrap /\ After(s, w) # {}
                  => x = Max(After(s, w))
            /\ d = "right" /\ After(s, w) # {} => x = Min(After(s, w))
            /\ d = "right" /\ After(s, w) = {} /\ wrap /\ Before(s, w) # {}
                  => x = Min(Before(s, w))
<1> DEFINE O == Occupied(s)
           before == { x \in O : x < w }
           after == { x \in O : x > w }
           ahead == { x \in O : IF d = "left" THEN x < w ELSE x > w }
           others == O \ (ahead \cup {w})
           way == IF ahead = {} /\ wrap THEN others ELSE ahead
           x == AdjacentOccupied(s, w, d, wrap)
<1>1. O \subseteq All /\ w \in All BY DEF Occupied
<1>2. x = IF way = {} THEN None ELSE IF d = "left" THEN Max(way) ELSE Min(way)
  BY DEF AdjacentOccupied
<1> HIDE DEF O, x
<1>3. \A y \in O : y \in Int /\ w \in Int BY <1>1 DEF All
<1>4. \A y \in O : ~(y < w) <=> y > w \/ y = w BY <1>3
<1>5. \A y \in O : ~(y > w /\ y < w) /\ ~(w < w) /\ ~(w > w) BY <1>3
<1>6. (d = "left" => ahead = before /\ others = after)
      /\ (d = "right" => ahead = after /\ others = before)
  BY <1>4, <1>5
<1>7. d = "left" \/ d = "right" BY DEF Directions
<1>8. before \subseteq O /\ after \subseteq O OBVIOUS
<1> HIDE DEF ahead, others, before, after
<1>9. way \subseteq O BY <1>6, <1>7, <1>8
<1>10. way # {} => x \in O /\ x # None
  <2>1. way # {} => Max(way) \in way /\ Min(way) \in way
    BY <1>1, <1>9, MinAndMax DEF All
  <2> QED BY <1>1, <1>2, <1>9, <2>1
<1>11. way = {} => x = None BY <1>2
<1>12. x = None <=> IF wrap THEN before \cup after = {}
                    ELSE IF d = "left" THEN before = {} ELSE after = {}
  BY <1>6, <1>7, <1>10, <1>11
<1> QED BY <1>2, <1>6, <1>7, <1>10, <1>11, <1>12 DEF O, x, before, after, Before, After

\* left-occupied and right-occupied undo each other.
LEMMA OccupiedIsAround ==
  ASSUME number \in Nat, None \notin All PROVE OccupiedGoesAround
<1> SUFFICES ASSUME NEW w \in Occupied(server), NEW wrap \in BOOLEAN
             PROVE LET right == AdjacentOccupied(server, w, "right", wrap)
                       left == AdjacentOccupied(server, w, "left", wrap)
                   IN  /\ right # None => AdjacentOccupied(server, right, "left", wrap) = w
                       /\ left # None => AdjacentOccupied(server, left, "right", wrap) = w
                       /\ wrap /\ Occupied(server) # {w} => None \notin {left, right}
  BY DEF OccupiedGoesAround
<1> DEFINE O == Occupied(server)
           B(x) == Before(server, x)
           A(x) == After(server, x)
           L(x) == AdjacentOccupied(server, x, "left", wrap)
           R(x) == AdjacentOccupied(server, x, "right", wrap)
<1>1. O \subseteq All /\ O \subseteq Int /\ w \in O /\ None \notin O BY DEF Occupied, All
<1>2. \A T \in SUBSET O : T # {} =>
        /\ Min(T) \in T /\ \A z \in T : Min(T) =< z
        /\ Max(T) \in T /\ \A z \in T : z =< Max(T)
  <2> TAKE T \in SUBSET O
  <2> HAVE T # {}
  <2>1. /\ Min(T) \in T /\ \A z \in T : Min(T) =< z
        /\ Max(T) \in T /\ \A z \in T : Max(T) >= z
    <3>1. T \in SUBSET (1 .. number) BY <1>1 DEF All
    <3> QED BY <3>1, MinAndMax
  <2>2. T \subseteq Int BY <1>1
  <2>3. \A z \in T : z =< Max(T) BY <2>1, <2>2
  <2> QED BY <2>1, <2>3
<1>14. \A T \in SUBSET O : \A y \in T :
        /\ (\A z \in T : y =< z) => Min(T) = y
        /\ (\A z \in T : z =< y) => Max(T) = y
  <2> TAKE T \in SUBSET O
  <2> TAKE y \in T
  <2>1. /\ Min(T) \in T /\ Min(T) =< y /\ Max(T) \in T /\ y =< Max(T)
    BY <1>2
  <2>2. T \subseteq Int BY <1>1
  <2>3. \A m, n \in Int : m =< n /\ n =< m => m = n OBVIOUS
  <2> QED BY <2>1, <2>2, <2>3
<1>3. \A x \in O :
        /\ L(x) \in O \cup {None} /\ R(x) \in O \cup {None}
        /\ L(x) = None <=> IF wrap THEN B(x) \cup A(x) = {} ELSE B(x) = {}
        /\ R(x) = None <=> IF wrap THEN B(x) \cup A(x) = {} ELSE A(x) = {}
        /\ B(x) # {} => L(x) = Max(B(x))
        /\ B(x) = {} /\ wrap /\ A(x) # {} => L(x) = Max(A(x))
        /\ A(x) # {} => R(x) = Min(A(x))
        /\ A(x) = {} /\ wrap /\ B(x) # {} => R(x) = Min(B(x))
  <2> TAKE x \in O
  <2>1. "left" \in Directions /\ "right" \in Directions /\ "left" # "right" BY DEF Directions
  <2>2. x \in All BY <1>1
  <2>3. \A d \in Directions :
          LET y == AdjacentOccupied(server, x, d, wrap)
          IN  /\ y \in O \cup {None}
              /\ y = None <=> IF wrap THEN B(x) \cup A(x) = {}
                              ELSE IF d = "left" THEN B(x) = {} ELSE A(x) = {}
              /\ d = "left" /\ B(x) # {} => y = Max(B(x))
              /\ d = "left" /\ B(x) = {} /\ wrap /\ A(x) # {} => y = Max(A(x))
              /\ d = "right" /\ A(x) # {} => y = Min(A(x))
              /\ d = "right" /\ A(x) = {} /\ wrap /\ B(x) # {} => y = Min(B(x))
    BY <2>2, AdjacentOccupiedIs
  <2> HIDE DEF A, B, O
  <2> QED BY <2>1, <2>3
<1>4. \A x \in O : B(x) \in SUBSET O /\ A(x) \in SUBSET O BY DEF Before, After
<1>5. \A x, y \in O : /\ y \in B(x) <=> y < x
                      /\ y \in A(x) <=> x < y
  BY <1>1 DEF Before, After
<1>6. \A x, y \in O : (x < y \/ x = y \/ y < x) /\ (x =< y <=> ~(y < x))
  BY <1>1
<1>7. \A x, y, z \in O : x < y /\ y < z => x < z BY <1>1
<1> DEFINE right == R(w)
           left == L(w)
<1>8. right \in O \cup {None} /\ left \in O \cup {None} BY <1>1, <1>3
<1>9. /\ right = None <=> IF wrap THEN B(w) \cup A(w) = {} ELSE A(w) = {}
      /\ left = None <=> IF wrap THEN B(w) \cup A(w) = {} ELSE B(w) = {}
      /\ B(w) # {} => left = Max(B(w))
      /\ B(w) = {} /\ wrap /\ A(w) # {} => left = Max(A(w))
      /\ A(w) # {} => right = Min(A(w))
      /\ A(w) = {} /\ wrap /\ B(w) # {} => right = Min(B(w))
  BY <1>1, <1>3
<1> HIDE DEF O, A, B, L, R, right, left
<1>15. A(w) \in SUBSET O /\ B(w) \in SUBSET O BY <1>1, <1>4
<1>10. right # None => L(right) = w
  <2> SUFFICES ASSUME right # None PROVE L(right) = w OBVIOUS
  <2>1. right \in O BY <1>8
  <2>2. CASE A(w) # {}
    <3>1. right \in A(w) /\ \A y \in A(w) : right =< y
      BY <1>1, <1>2, <1>15, <1>9, <2>2, ZenonT(60)
    <3>2. w \in B(right) BY <1>1, <1>5, <2>1, <3>1
    <3>3. \A y \in B(right) : y =< w
      <4> TAKE y \in B(right)
      <4>1. y \in O /\ y < right BY <1>4, <1>5, <2>1
      <4>2. y \notin A(w) BY <1>6, <2>1, <3>1, <4>1
      <4> QED BY <1>1, <1>5, <1>6, <4>1, <4>2
    <3>4. Max(B(right)) = w BY <1>14, <1>4, <2>1, <3>2, <3>3
    <3> QED BY <1>3, <2>1, <3>2, <3>4
  <2>3. CASE A(w) = {}
    <3>1. wrap /\ B(w) # {} BY <1>9, <2>3
    <3>2. right \in B(w) /\ \A y \in B(w) : right =< y
      BY <1>1, <1>2, <1>15, <1>9, <2>3, <3>1
    <3>3. w \in A(right) BY <1>1, <1>5, <2>1, <3>2
    <3>4. B(right) = {}
      <4> SUFFICES ASSUME NEW y \in B(right) PROVE FALSE OBVIOUS
      <4>1. y \in O /\ y < right /\ right < w BY <1>1, <1>4, <1>5, <2>1, <3>2
      <4>2. y \in B(w) BY <1>1, <1>5, <1>7, <2>1, <4>1
      <4> QED BY <1>6, <2>1, <3>2, <4>1, <4>2
    <3>5. \A y \in A(right) : y =< w BY <1>1, <1>4, <1>5, <1>6, <2>1, <2>3
    <3>6. Max(A(right)) = w BY <1>14, <1>4, <2>1, <3>3, <3>5
    <3> QED BY <1>3, <2>1, <3>1, <3>3, <3>4, <3>6
  <2> QED BY <2>2, <2>3
<1>11. left # None => R(left) = w
  <2> SUFFICES ASSUME left # None PROVE R(left) = w OBVIOUS
  <2>1. left \in O BY <1>8
  <2>2. CASE B(w) # {}
    <3>1. left \in B(w) /\ \A y \in B(w) : y =< left
      <4>1. Max(B(w)) \in B(w) /\ \A z \in B(w) : z =< Max(B(w)) BY <1>2, <1>15, <2>2
      <4> QED BY <1>9, <2>2, <4>1
    <3>2. w \in A(left) BY <1>1, <1>5, <2>1, <3>1
    <3>3. \A y \in A(left) : w =< y
      <4> TAKE y \in A(left)
      <4>1. y \in O /\ left < y BY <1>4, <1>5, <2>1
      <4>2. y \notin B(w) BY <1>6, <2>1, <3>1, <4>1
      <4> QED BY <1>1, <1>5, <1>6, <4>1, <4>2
    <3>4. Min(A(left)) = w BY <1>14, <1>4, <2>1, <3>2, <3>3
    <3> QED BY <1>3, <2>1, <3>2, <3>4
  <2>3. CASE B(w) = {}
    <3>1. wrap /\ A(w) # {} BY <1>9, <2>3
    <3>2. left \in A(w) /\ \A y \in A(w) : y =< left
      <4>1. Max(A(w)) \in A(w) /\ \A z \in A(w) : z =< Max(A(w)) BY <1>2, <1>15, <3>1
      <4> QED BY <1>9, <2>3, <3>1, <4>1
    <3>3. w \in B(left) BY <1>1, <1>5, <2>1, <3>2
    <3>4. A(left) = {}
      <4> SUFFICES ASSUME NEW y \in A(left) PROVE FALSE OBVIOUS
      <4>1. y \in O /\ left < y /\ w < left BY <1>1, <1>4, <1>5, <2>1, <3>2
      <4>2. y \in A(w) BY <1>1, <1>5, <1>7, <2>1, <4>1
      <4> QED BY <1>6, <2>1, <3>2, <4>1, <4>2
    <3>5. \A y \in B(left) : w =< y BY <1>1, <1>4, <1>5, <1>6, <2>1, <2>3
    <3>6. Min(B(left)) = w BY <1>14, <1>4, <2>1, <3>3, <3>5
    <3> QED BY <1>3, <2>1, <3>1, <3>3, <3>4, <3>6
  <2> QED BY <2>2, <2>3
<1>12. wrap /\ O # {w} => None \notin {left, right}
  <2> SUFFICES ASSUME wrap, O # {w} PROVE left # None /\ right # None OBVIOUS
  <2>1. B(w) \cup A(w) # {} BY <1>1, <1>5, <1>6
  <2> QED BY <1>9, <2>1
<1> QED BY <1>10, <1>11, <1>12 DEF O, L, R, right, left

\* Actions only name workspaces of the list.
LEMMA TargetsAreListed ==
  ASSUME number \in Nat \ {0}, None \notin All, server.current \in All,
         server.last \in All \cup {None}
  PROVE Targets(server) \ {None} \subseteq All
<1>1. \A d \in Directions, wrap \in BOOLEAN :
         Adjacent(server.current, d, wrap) \in All \cup {None}
  BY DEF Adjacent, All, Directions
<1>2. \A d \in Directions, wrap \in BOOLEAN :
         AdjacentOccupied(server, server.current, d, wrap) \in All \cup {None}
  <2>1. Occupied(server) \subseteq All BY DEF Occupied
  <2> QED BY <2>1, AdjacentOccupiedIs
<1> QED BY <1>1, <1>2 DEF Targets

\* Moving windows to the first workspace
LEMMA MoveViewsIs ==
  ASSUME NEW s, Coherent(s), 1 \in Workspaces, NEW gone
  PROVE LET t == MoveViews(s, gone)
        IN  /\ Coherent(t) /\ AgreeOnFocus(s, t)
            /\ SameHierarchy(s, t) /\ t.above = s.above
            /\ t.minimized = s.minimized /\ t.current = s.current /\ t.last = s.last
            /\ \A v \in s.views :
                 t.workspace[v] = IF s.workspace[v] \in gone THEN 1 ELSE s.workspace[v]
<1> DEFINE W == [ v \in Views |-> IF v \in s.views /\ s.workspace[v] \in gone
                                  THEN 1 ELSE s.workspace[v] ]
           t == [s EXCEPT !.workspace = W]
<1>1. s \in Server /\ s.views \subseteq Views BY DEF Coherent, Plain, Server
<1>2. W \in [Views -> Workspaces] BY <1>1 DEF Server
<1>3. \A v \in s.views : W[v] = IF s.workspace[v] \in gone THEN 1 ELSE s.workspace[v]
  BY <1>1
<1>4. MoveViews(s, gone) = t BY DEF MoveViews
<1> HIDE DEF W
<1>5. /\ t \in Server /\ AgreeOnFocus(s, t) /\ SameHierarchy(s, t)
      /\ t.above = s.above /\ t.minimized = s.minimized
      /\ t.current = s.current /\ t.last = s.last /\ t.workspace = W
  BY <1>1, <1>2 DEF Server, AgreeOnFocus, SameHierarchy
<1> HIDE DEF t
<1>6. Coherent(t) BY <1>5, AgreeCoherent
<1> QED BY <1>3, <1>4, <1>5, <1>6

\* reload_config_and_theme() first stops the timer and closes the menu.
LEMMA BeforeReloadIs ==
  ASSUME NEW s, Coherent(s)
  PROVE LET t == BeforeReload(s)
        IN  /\ Coherent(t) /\ SameWindows(s, t)
            /\ s.input_mode = "passthrough" =>
                 t.input_mode = "passthrough" /\ t.focused_surface = s.focused_surface
<1> DEFINE t == [s EXCEPT !.auto_raise = None]
<1>1. s \in Server BY DEF Coherent, Plain
<1>2. Coherent(t) BY AutoRaiseCoherent
<1>3. SameWindows(s, t) /\ t.input_mode = s.input_mode /\ t.focused_surface = s.focused_surface
  BY <1>1 DEF Server, SameWindows, SameHierarchy
<1>4. BeforeReload(s) = IF t.input_mode = "menu" THEN FocusOverrideEnd(t, TRUE) ELSE t
  BY DEF BeforeReload
<1> HIDE DEF t
<1>5. CASE t.input_mode = "menu"
  <2>1. Coherent(FocusOverrideEnd(t, TRUE)) /\ SameWindows(t, FocusOverrideEnd(t, TRUE))
    BY <1>2, <1>5, OverrideEndCoherent, OverrideEndWindows
  <2> QED BY <1>3, <1>4, <1>5, <2>1 DEF SameWindows, SameHierarchy
<1>6. CASE t.input_mode # "menu" BY <1>2, <1>3, <1>4, <1>6
<1> QED BY <1>5, <1>6

\* workspaces_reconfigure(): nothing stays on a workspace that is gone, and only
\* windows from behind the current one come to the first one after the focus did.
LEMMA ReconfigureStepped ==
  ASSUME Coherent(server), Ordered(server), number \in Workspaces,
         Placed(server, All), NEW n \in 1 .. MaxWorkspaces, Reconfigure(n)
  PROVE Coherent(server') /\ Stepped /\ Placed(server', All')
<1> DEFINE gone == (n + 1) .. number
           early == { w \in gone : w <= server.current }
           b == BeforeReload(server)
           moved == MoveViews(b, early)
           left == IF b.current \in gone THEN SwitchToWorkspace(moved, 1) ELSE b
           late == MoveViews(left, gone)
           last == IF late.last \in gone THEN 1 ELSE late.last
<1>1. /\ number' = n /\ All = 1 .. number /\ All' = 1 .. n
      /\ n \in Nat \ {0} /\ number \in Nat \ {0} /\ 1 \in Workspaces
      /\ 1 .. n \subseteq Workspaces
  BY WorkspacesAssumption DEF Reconfigure, All
<1>2. \A w \in All : (w \in gone <=> w \notin 1 .. n) BY <1>1
<1>3. 1 \notin gone /\ 1 \in All /\ 1 \in 1 .. n /\ gone \subseteq All
      /\ \A w : w \in early <=> w \in gone /\ ~(w > server.current)
  <2>1. \A w \in gone : (w <= server.current <=> ~(w > server.current))
    BY <1>1 DEF Placed
  <2>2. 1 \notin gone /\ 1 \in All /\ 1 \in 1 .. n /\ gone \subseteq All BY <1>1
  <2> HIDE DEF gone
  <2> QED BY <2>1, <2>2
<1>4. /\ Coherent(b) /\ SameWindows(server, b)
      /\ server.input_mode = "passthrough" =>
           b.input_mode = "passthrough" /\ b.focused_surface = server.focused_surface
  BY BeforeReloadIs
<1>5. b.current = server.current BY <1>4 DEF SameWindows
<1>6. server' = [late EXCEPT !.last = last]
  <2>1. early = { w \in gone : w <= b.current } BY <1>5
  <2>2. server' = DestroyWorkspaces(b, gone) BY DEF Reconfigure
  <2> HIDE DEF b, gone, early
  <2> QED BY <2>1, <2>2 DEF DestroyWorkspaces
<1> HIDE DEF gone, early, b
<1>7. Ordered(b) /\ Placed(b, All)
  BY <1>4, SameOrdered DEF Placed, SameWindows, SameHierarchy
<1>8. /\ Coherent(moved) /\ AgreeOnFocus(b, moved)
      /\ SameHierarchy(b, moved) /\ moved.above = b.above
      /\ moved.current = b.current /\ moved.last = b.last
      /\ \A v \in b.views :
           moved.workspace[v] = IF b.workspace[v] \in early THEN 1 ELSE b.workspace[v]
  BY <1>1, <1>4, MoveViewsIs
<1> HIDE DEF moved
<1>9. Ordered(moved) /\ Placed(moved, All)
  BY <1>3, <1>7, <1>8, SameOrdered DEF Placed, SameHierarchy
<1>10. None \notin server.mapped BY SeatAssumption DEF Coherent, Plain, Server
<1>11. /\ Coherent(left) /\ Placed(left, All) /\ left.current \notin gone
       /\ SameHierarchy(b, left) /\ ListMoved(b, left.above) /\ Yields(b, left)
       /\ b.input_mode = "passthrough" =>
            /\ left.focused_surface \in {b.focused_surface, None} \cup b.mapped
            /\ b.focused_surface \in b.mapped /\ left.focused_surface = None =>
                 /\ NobodyLeft(left)
                 /\ \A v \in b.views : left.workspace[v] \in gone =>
                       b.workspace[v] = left.workspace[v] /\ b.workspace[v] \notin early
  <2>1. CASE b.current \in gone
    <3>1. LET t == SwitchToWorkspace(moved, 1)
          IN  /\ Handled(moved, t) /\ t.input_mode = moved.input_mode
              /\ t.current = 1
              /\ \A v \in moved.views : t.workspace[v] \in {moved.workspace[v], 1}
              /\ \A A : Placed(moved, A) /\ 1 \in A => Placed(t, A)
      BY <1>1, <1>8, <1>9, SwitchToWorkspaceHandled
    <3>2. left = SwitchToWorkspace(moved, 1) BY <2>1
    <3>3. Coherent(left) BY <1>1, <1>8, <3>2, SwitchToWorkspaceCoherent
    <3> HIDE DEF left
    <3>4. Handled(b, left)
      BY <1>8, <3>1, <3>2, HandledAfter DEF AgreeOnFocus
    <3>5. left.input_mode = b.input_mode BY <1>8, <3>1, <3>2 DEF AgreeOnFocus
    <3>6. \A v \in b.views : left.workspace[v] \in gone =>
             b.workspace[v] = left.workspace[v] /\ b.workspace[v] \notin early
      BY <1>3, <1>8, <3>1, <3>2 DEF SameHierarchy
    <3>7. Placed(left, All) /\ left.current = 1 BY <1>3, <1>9, <3>1, <3>2
    <3> QED BY <1>3, <3>3, <3>4, <3>5, <3>6, <3>7 DEF Handled
  <2>2. CASE b.current \notin gone
    <3>1. left = b BY <2>2
    <3>2. None \notin b.mapped BY <1>4, <1>10 DEF SameWindows, SameHierarchy
    <3> QED BY <1>4, <1>7, <2>2, <3>1, <3>2, KeptListMoved DEF SameHierarchy, Yields
  <2> QED BY <2>1, <2>2
<1> HIDE DEF left
<1>12. /\ Coherent(late) /\ AgreeOnFocus(left, late)
       /\ SameHierarchy(left, late) /\ late.above = left.above
       /\ late.minimized = left.minimized /\ late.current = left.current
       /\ late.last = left.last
       /\ \A v \in left.views :
            late.workspace[v] = IF left.workspace[v] \in gone THEN 1 ELSE left.workspace[v]
  BY <1>1, <1>11, MoveViewsIs
<1>13. last \in (1 .. n) \cup {None}
  BY <1>2, <1>3, <1>11, <1>12 DEF Placed
<1> HIDE DEF late, last
<1>14. late \in Server /\ last \in Workspaces \cup {None} BY <1>1, <1>12, <1>13 DEF Coherent, Plain
<1>15. /\ server' \in Server /\ AgreeOnFocus(late, server')
       /\ SameHierarchy(late, server') /\ server'.above = late.above
       /\ server'.minimized = late.minimized /\ server'.workspace = late.workspace
       /\ server'.current = late.current /\ server'.last = last
  BY <1>6, <1>14 DEF Server, AgreeOnFocus, SameHierarchy
<1>16. Coherent(server') BY <1>12, <1>15, AgreeCoherent
<1>17. Placed(server', 1 .. n)
  <2>1. server'.current \in 1 .. n BY <1>2, <1>11, <1>12, <1>15 DEF Placed
  <2>2. \A v \in server'.views : server'.workspace[v] \in 1 .. n
    BY <1>2, <1>3, <1>11, <1>12, <1>15 DEF Placed, SameHierarchy
  <2> QED BY <1>13, <1>15, <2>1, <2>2 DEF Placed
<1>18. SameHierarchy(server, server') /\ server'.above = left.above
       /\ server'.focused_surface = left.focused_surface
       /\ server'.minimized = left.minimized /\ server'.current = left.current
  BY <1>4, <1>11, <1>12, <1>15 DEF SameWindows, SameHierarchy, AgreeOnFocus
<1>19. ListMoved(server, server'.above)
  BY <1>4, <1>11, <1>18, SameListMoved
<1>20. Ordered(server') BY <1>18, <1>19 DEF ListMoved, Ordered, SameHierarchy
<1>21. StepMoves
  <2> DEFINE s == [server EXCEPT !.mapped = server'.mapped]
  <2>1. server \in Server BY DEF Coherent, Plain
  <2>2. /\ s.mapped = server.mapped /\ s.views = server.views
        /\ s.above = server.above /\ s.parent = server.parent
    BY <1>18, <2>1, RemappedIs DEF SameHierarchy
  <2> HIDE DEF s
  <2>3. \A v : Family(s, v) = Family(server, v) BY <2>2, SameFamilies DEF SameHierarchy
  <2>4. FamiliesMove(s, server'.above) BY <1>19, <2>2, <2>3 DEF ListMoved, FamiliesMove
  <2> QED BY <2>4 DEF StepMoves, s
<1>22. StepFocus
  <2> SUFFICES ASSUME server.input_mode = "passthrough"
               PROVE /\ server.focused_surface \in server.mapped \cup {None} =>
                          server'.focused_surface \in server'.mapped \cup {None}
                     /\ server.focused_surface \in server.mapped /\ server'.focused_surface = None
                          => OnCurrentWorkspace(server') \subseteq server'.minimized \cup CameTooLate
    BY DEF StepFocus
  <2>1. b.focused_surface = server.focused_surface /\ b.input_mode = "passthrough"
        /\ b.mapped = server.mapped /\ b.views = server.views /\ b.workspace = server.workspace
    BY <1>4 DEF SameWindows, SameHierarchy
  <2>2. server.focused_surface \in server.mapped \cup {None} =>
          server'.focused_surface \in server'.mapped \cup {None}
    BY <1>11, <1>18, <2>1 DEF SameHierarchy
  <2>3. ASSUME server.focused_surface \in server.mapped, server'.focused_surface = None,
               NEW v \in OnCurrentWorkspace(server'), v \notin server'.minimized
        PROVE v \in CameTooLate
    <3>1. v \in server.mapped /\ v \in server.views /\ v \in left.mapped /\ v \in left.views
      BY <1>4, <1>11, <1>18, <2>3 DEF OnCurrentWorkspace, SameWindows, SameHierarchy, Ordered
    <3>2. server'.workspace[v] = left.current
      BY <1>18, <2>3 DEF OnCurrentWorkspace
    <3>3. left.workspace[v] # left.current
      BY <1>11, <1>18, <2>1, <2>3, <3>1 DEF NobodyLeft, OnCurrentWorkspace
    <3>4. left.workspace[v] \in gone
      BY <1>12, <1>15, <3>1, <3>2, <3>3
    <3>5. server.workspace[v] \in gone /\ server.workspace[v] \notin early
      BY <1>11, <1>18, <2>1, <2>3, <3>1, <3>4
    <3>6. server.workspace[v] > server.current /\ server.workspace[v] \notin All'
      BY <1>1, <1>2, <1>3, <3>5
    <3> QED BY <3>1, <3>6 DEF CameTooLate
  <2> QED BY <2>2, <2>3
<1>23. StepDescends
  <2>1. SameHierarchy(left, server')
    BY <1>12, <1>15 DEF SameHierarchy
  <2>2. \A f : Proper(left, f) => Proper(server', f) BY <2>1, SameProper
  <2>3. Yields(server, server') BY <1>4, <1>11, <1>18, <2>2 DEF Yields
  <2> QED BY <1>18, <2>3, SameDescent DEF StepDescends
<1> QED BY <1>1, <1>16, <1>17, <1>20, <1>21, <1>22, <1>23 DEF Stepped

----------------------------------------------------------------------------
(* The inductive invariant *)

WInv ==
    /\ Coherent(server) /\ Ordered(server) /\ Descent(server)
    /\ number \in Workspaces
    /\ Placed(server, All)

\* What a step does, of whatever handler
Step == Stepped \/ UNCHANGED workspacesVars

\* server_init() and workspaces_init() leave no window and a current workspace.
LEMMA InitWInv == WorkspacesInit => WInv
<1> SUFFICES ASSUME WorkspacesInit PROVE WInv OBVIOUS
<1>1. Init /\ number \in FirstWorkspace .. MaxWorkspaces BY DEF WorkspacesInit
<1>2. Coherent(server) BY <1>1, InitCoherent
<1>3. FirstWorkspace \in 1 .. MaxWorkspaces /\ MaxWorkspaces \in Nat
  BY DesktopAssumption, WorkspacesAssumption
<1>4. number \in Workspaces /\ FirstWorkspace \in All
  BY <1>1, <1>3, WorkspacesAssumption DEF All
<1>5. Ordered(server)
  BY <1>1, FS_EmptySet DEF Init, Ordered, StrictOrder
<1>6. Placed(server, All) BY <1>1, <1>4 DEF Init, Placed
<1>7. Descent(server) BY <1>1 DEF Init, Descent, Rooted
<1> QED BY <1>2, <1>4, <1>5, <1>6, <1>7 DEF WInv

\* The handlers of Desktop that do not look at the list of workspaces
LEMMA OtherStepped ==
  ASSUME WInv, OtherStep PROVE Coherent(server') /\ Stepped /\ StaysPlaced
<1> USE DEF WInv
<1>1. ASSUME NEW v \in Views, ClientStep(v)
      PROVE Coherent(server') /\ Stepped /\ StaysPlaced
  <2>1. Coherent(server') BY <1>1, ClientStepCoherent
  <2>2. CASE NewToplevel(v) BY <2>1, <2>2, NewToplevelStepped
  <2>3. CASE \E p \in Views \cup {None} : SetParent(v, p) BY <2>1, <2>3, SetParentStepped
  <2>4. CASE Map(v) BY <2>1, <2>4, MapStepped
  <2>5. CASE Unmap(v) BY <2>1, <2>5, UnmapStepped
  <2>6. CASE (\E b \in BOOLEAN : RequestMinimize(v, b)) \/ Activate(v)
    BY <2>1, <2>6, RequestStepped
  <2> QED BY <1>1, <2>2, <2>3, <2>4, <2>5, <2>6 DEF ClientStep
<1>2. ASSUME NEW v \in Views, CursorStep(v)
      PROVE Coherent(server') /\ Stepped /\ StaysPlaced
  <2>1. Coherent(server') BY <1>2, CursorStepCoherent
  <2>2. CASE CursorEnter(v) BY <2>1, <2>2, RequestStepped
  <2>3. CASE ButtonPress(v) BY <2>1, <2>3, ButtonPressStepped
  <2>4. CASE \E mode \in {"move", "resize"} : InteractiveBegin(v, mode)
    BY <2>1, <2>4, ModeStepped
  <2> QED BY <1>2, <2>2, <2>3, <2>4 DEF CursorStep
<1>3. ASSUME NEW v \in Views, FocusAction(v) \/ Raise(v) \/ Lower(v) \/ ToggleOmnipresent(v)
      PROVE Coherent(server') /\ Stepped /\ StaysPlaced
  <2>1. Coherent(server') BY <1>3, ActionStepCoherent DEF ActionStep
  <2>2. CASE FocusAction(v) BY <2>1, <2>2, RequestStepped
  <2>3. CASE Raise(v) \/ Lower(v) BY <2>1, <2>3, RestackStepped
  <2>4. CASE ToggleOmnipresent(v) BY <2>1, <2>4, ToggleOmnipresentStepped
  <2> QED BY <1>3, <2>2, <2>3, <2>4
<1>4. ASSUME NEW v \in Views, Destroy(v)
      PROVE Coherent(server') /\ Stepped /\ StaysPlaced
  BY <1>4, DestroyCoherent, DestroyStepped
<1>5. CASE UnfocusAction \/ AutoRaiseTimer \/ ButtonRelease \/ OpenMenu \/ CloseMenu
  <2>1. Coherent(server') BY <1>5, SessionStepCoherent DEF SessionStep
  <2>2. CASE UnfocusAction BY <2>1, <2>2, UnfocusStepped
  <2>3. CASE AutoRaiseTimer BY <2>1, <2>3, RestackStepped
  <2>4. CASE ButtonRelease \/ OpenMenu \/ CloseMenu BY <2>1, <2>4, ModeStepped
  <2> QED BY <1>5, <2>2, <2>3, <2>4
<1> QED BY <1>1, <1>2, <1>3, <1>4, <1>5 DEF OtherStep

\* The handlers that go to a workspace, or send a window there
LEMMA WorkspaceStepped ==
  ASSUME WInv, WorkspaceStep
  PROVE Coherent(server') /\ Stepped /\ Placed(server', All)
<1> USE DEF WInv
<1>1. All \subseteq Workspaces /\ None \notin All /\ number \in Nat \ {0}
  BY DesktopAssumption, WorkspacesAssumption DEF All
<1>2. Targets(server) \ {None} \subseteq All BY <1>1, TargetsAreListed DEF Placed
<1>3. ASSUME NEW w \in All, GoToDesktop(w)
      PROVE Coherent(server') /\ Stepped /\ Placed(server', All)
  <2>1. w \in Workspaces BY <1>1
  <2> QED BY <1>3, <2>1, SwitchToWorkspaceCoherent, GoToDesktopStepped DEF GoToDesktop
<1>4. ASSUME NEW v \in Views, NEW follow \in BOOLEAN, NEW w \in All, SendToDesktop(v, w, follow)
      PROVE Coherent(server') /\ Stepped /\ Placed(server', All)
  <2>1. w \in Workspaces BY <1>1
  <2> QED BY <1>4, <2>1, SendToDesktopCoherent, SendToDesktopStepped
<1>5. \/ \E w \in All : GoToDesktop(w)
      \/ \E v \in Views, follow \in BOOLEAN, w \in All : SendToDesktop(v, w, follow)
  BY <1>2 DEF WorkspaceStep, ActivateWorkspace, GoTo, SendTo
<1> QED BY <1>3, <1>4, <1>5

\* Each step of each handler
LEMMA NextStepped ==
  ASSUME WInv, [WorkspacesNext]_workspacesVars PROVE WInv' /\ Step
<1>1. CASE WorkspaceStep /\ UNCHANGED number
  BY <1>1, WorkspaceStepped DEF WInv, Step, Stepped, StepDescends, All
<1>2. CASE OtherStep /\ UNCHANGED number
  BY <1>2, OtherStepped DEF WInv, Step, Stepped, StepDescends, StaysPlaced, All
<1>3. CASE \E n \in 1 .. MaxWorkspaces : Reconfigure(n)
  <2>1. PICK n \in 1 .. MaxWorkspaces : Reconfigure(n) BY <1>3
  <2>2. number' \in Workspaces BY <2>1, WorkspacesAssumption DEF Reconfigure
  <2> QED BY <2>1, <2>2, ReconfigureStepped DEF WInv, Step, Stepped, StepDescends
<1>4. CASE UNCHANGED workspacesVars
  BY <1>4 DEF WInv, Step, workspacesVars, All, Ordered, Descent, Rooted
<1> QED BY <1>1, <1>2, <1>3, <1>4 DEF WorkspacesNext

----------------------------------------------------------------------------
(* The theorems *)

\* server.views is a list, no pointer dangles, and no window is on a workspace that
\* workspaces_reconfigure() has freed.
THEOREM WInvHolds == WorkspacesSpec => []WInv
<1>1. WorkspacesInit => WInv BY InitWInv
<1>2. WInv /\ [WorkspacesNext]_workspacesVars => WInv' BY NextStepped
<1> QED BY <1>1, <1>2, PTL DEF WorkspacesSpec

\* The windows, the current and the last workspace are on the list.
THEOREM WorkspacesAreLiveHolds == WorkspacesSpec => []WorkspacesAreLive
<1>1. WInv => WorkspacesAreLive BY DEF WInv, Placed, WorkspacesAreLive
<1> QED BY <1>1, WInvHolds, PTL

\* struct server is coherent whatever is reloaded, and on whatever workspace.
THEOREM ServerStaysCoherent == WorkspacesSpec => []ServerIsCoherent
<1>1. WInv => ServerIsCoherent
  BY DEF WInv, Coherent, Plain, ServerIsCoherent, TypeOK, NoDanglingPointers,
         GrabIsVisible, ActiveFollowsFocus
<1> QED BY <1>1, WInvHolds, PTL

\* left-occupied and right-occupied go around the list of any length.
THEOREM OccupiedGoesAroundHolds == WorkspacesSpec => []OccupiedGoesAround
<1>1. WInv => OccupiedGoesAround
  <2>1. WInv => number \in Nat /\ None \notin All
    BY DesktopAssumption, WorkspacesAssumption DEF WInv, All
  <2> QED BY <2>1, OccupiedIsAround
<1> QED BY <1>1, WInvHolds, PTL

\* server.views stays one list, and families of views move in it as a whole.
THEOREM StackingIsKeptHolds == WorkspacesSpec => StackingIsKept
<1>1. WInv => StackingIsTotal BY DEF WInv, Ordered, StrictOrder, StackingIsTotal
<1>2. WInv /\ [WorkspacesNext]_workspacesVars =>
        [~server.showing_desktop /\ ~server'.showing_desktop =>
          LET s == [server EXCEPT !.mapped = server'.mapped]
          IN  \A p \in server.above \ server'.above :
                LET U == Family(s, p[1])
                    V == Family(s, p[2])
                IN  <<p[2], p[1]>> \in server'.above /\ U # V
                      => \/ InFrontOfOthers(server', V)
                         \/ BehindOthers(server', U)]_server
  <2> SUFFICES ASSUME WInv, [WorkspacesNext]_workspacesVars, server' # server
               PROVE LET s == [server EXCEPT !.mapped = server'.mapped]
                     IN  \A p \in server.above \ server'.above :
                           LET U == Family(s, p[1])
                               V == Family(s, p[2])
                           IN  <<p[2], p[1]>> \in server'.above /\ U # V
                                 => \/ InFrontOfOthers(server', V)
                                    \/ BehindOthers(server', U)
    OBVIOUS
  <2> DEFINE s == [server EXCEPT !.mapped = server'.mapped]
  <2>1. FamiliesMove(s, server'.above)
    BY NextStepped DEF Step, Stepped, StepMoves, workspacesVars
  <2>2. s.above = server.above /\ s.mapped = server'.mapped
    <3>1. server \in Server BY DEF WInv, Coherent, Plain
    <3> QED BY <3>1, RemappedIs
  <2> HIDE DEF s
  <2>3. \A p \in server.above \ server'.above :
          <<p[2], p[1]>> \in server'.above /\ Family(s, p[1]) # Family(s, p[2])
            => \/ InFrontOfOthers(server', Family(s, p[2]))
               \/ BehindOthers(server', Family(s, p[1]))
    BY <2>1, <2>2 DEF FamiliesMove, InFrontOfOthers, BehindOthers
  <2> QED BY <2>3 DEF s
<1> QED BY <1>1, <1>2, WInvHolds, PTL DEF WorkspacesSpec, StackingIsKept, FamiliesMoveTogether

\* Outside the input modes the keyboard is only given to mapped views, and is left
\* with nobody only if nobody is left to have it.
THEOREM KeyboardStaysHolds == WorkspacesSpec => KeyboardStaysWithWindows
<1>1. WInv /\ [WorkspacesNext]_workspacesVars =>
        [ /\ server.input_mode = "passthrough"
          /\ server'.input_mode = "passthrough"
          /\ server.focused_surface \in server.mapped \cup {None}
          => server'.focused_surface \in server'.mapped \cup {None} ]_server
  BY NextStepped DEF Step, Stepped, StepFocus, workspacesVars
<1>2. WInv /\ [WorkspacesNext]_workspacesVars =>
        [ /\ server.input_mode = "passthrough"
          /\ server.focused_surface \in server.mapped
          /\ server'.input_mode = "passthrough"
          /\ server'.focused_surface = None
          => \/ OnCurrentWorkspace(server') \subseteq server'.minimized \cup CameTooLate
             \/ UnfocusAction ]_workspacesVars
  BY NextStepped DEF Step, Stepped, StepFocus, workspacesVars
<1> QED BY <1>1, <1>2, WInvHolds, PTL
    DEF WorkspacesSpec, KeyboardStaysWithWindows, FocusStaysMapped, NeverLeftUnfocused

\* view_get_modal_dialog(): whoever gives the keyboard to a window, and whichever
\* windows are unmapped or change their parent, a modal dialog of its hierarchy gets
\* it instead.
THEOREM DialogsTakeFocus == WorkspacesSpec => DialogTakesFocus
<1>1. WInv /\ [WorkspacesNext]_workspacesVars =>
        [ LET v == server'.focused_surface
          IN  /\ server.input_mode = "passthrough"
              /\ v \notin {server.focused_surface, None}
              /\ v \notin Modal
              => SubViews(server', Root(server', v)) \cap Modal = {} ]_server
  <2> SUFFICES ASSUME WInv, [WorkspacesNext]_workspacesVars, server' # server,
                      server.input_mode = "passthrough",
                      server'.focused_surface \notin {server.focused_surface, None}
               PROVE Proper(server', server'.focused_surface)
    BY DEF Proper
  <2>1. Yields(server, server')
    BY NextStepped DEF Step, Stepped, StepDescends, WInv, workspacesVars
  <2> QED BY <2>1 DEF Yields
<1> QED BY <1>1, WInvHolds, PTL DEF WorkspacesSpec, DialogTakesFocus
=============================================================================

---------------------------- MODULE AnswerProofs ----------------------------
(***************************************************************************)
(* Proofs about the parts that wait for other processes to answer: the     *)
(* programs of pipe menus, the input method, and the clients whose windows *)
(* are configured.  They share nothing but TLAPS; each has its part here.  *)
(*                                                                         *)
(* Menus: the open menus form one tree, and only one program is awaited    *)
(* for it.  The properties are not inductive: when another item is         *)
(* selected in a menu, what was open below this menu closes, and whatever  *)
(* else is shown must still be reached from the root by what is selected.  *)
(* PInv therefore says of every menu that its selected submenu is one of   *)
(* its items, that only shown menus have one, and that a pipe menu that    *)
(* was not shown has no items; as menus do not open one another in a       *)
(* circle (PipeMenuAssumption), the chain that closes does not hold the    *)
(* menu in which the item is (ChainHasNoCircle), and the others stay       *)
(* (ChainMoves).                                                           *)
(*                                                                         *)
(* Input method: the relay's active text input is what the input method    *)
(* was activated for, what the text inputs have entered is what has the    *)
(* keyboard, no text reaches another text input than it was written for,   *)
(* and popups are where they belong, for any surfaces, text inputs and     *)
(* clients (ImeInv).                                                       *)
(*                                                                         *)
(* Configures: Regular(win) is what holds of every client: serials rise    *)
(* from what was committed over what was acknowledged and sent to what is  *)
(* scheduled.  That the geometry asked for and the one shown come together *)
(* is not inductive: InTime(win) says of a client that answers as asked    *)
(* that every configure since the last request asks for what that request  *)
(* did (Recent), or asks for nothing while the window has that size (Asks),*)
(* that no configure asks for nothing after one asked for a size (Rising), *)
(* and that the geometry last decided is the one that is pending.          *)
(***************************************************************************)
EXTENDS PipeMenu, InputMethod, MCXdgConfigure, TLAPS

----------------------------------------------------------------------------
(* The chain of open menus *)

Selection == [Menus -> Menus \cup {None}]

\* A menu is in its own chain, and what is selected in it is, too.
LEMMA ChainStep ==
  ASSUME NEW s, s.selection \in Selection, NEW m \in Menus
  PROVE /\ m \in Chain(s, m)
        /\ Chain(s, m) \subseteq Menus
        /\ \A x \in Chain(s, m) : s.selection[x] \in Chain(s, m) \cup {None}
BY DEF Chain, Selection

\* The chain is the least such set.
LEMMA ChainLeast ==
  ASSUME NEW s, NEW m, NEW C \in SUBSET Menus,
         m \in C, \A c \in C : s.selection[c] \in C \cup {None}
  PROVE Chain(s, m) \subseteq C
BY DEF Chain

\* It depends on the selected submenus only.
LEMMA ChainSame ==
  ASSUME NEW s, NEW t, t.selection = s.selection, NEW m
  PROVE Chain(t, m) = Chain(s, m)
BY DEF Chain

\* Every submenu that is selected is one that the menu may open.
Nested(s) ==
    /\ s.selection \in Selection
    /\ \A x \in Menus : s.selection[x] \in Opens(x) \cup {None}

\* As menus do not open one another in a circle, the chain that starts at the selected
\* submenu of a menu does not come back to this menu.
LEMMA ChainHasNoCircle ==
  ASSUME NEW s, Nested(s), NEW m \in Menus, s.selection[m] # None
  PROVE m \notin Chain(s, s.selection[m])
<1> SUFFICES ASSUME m \in Chain(s, s.selection[m]) PROVE FALSE OBVIOUS
<1> DEFINE M == { x \in Menus : m \in Chain(s, x) }
           R == { x \in M : s.selection[x] # None }
<1>1. s.selection \in Selection BY DEF Nested
<1>2. ASSUME NEW x \in M, x # m PROVE s.selection[x] \in M
  <2>1. CASE s.selection[x] = None
    <3> DEFINE C == {x}
    <3>1. Chain(s, x) \subseteq C
      <4>1. C \in SUBSET Menus /\ x \in C /\ \A c \in C : s.selection[c] \in C \cup {None}
        BY <2>1
      <4> QED BY <4>1, ChainLeast
    <3> QED BY <1>2, <3>1
  <2>2. CASE s.selection[x] # None
    <3> DEFINE y == s.selection[x]
    <3>1. y \in Menus BY <1>1, <2>2 DEF Selection
    <3>2. /\ y \in Chain(s, y) /\ Chain(s, y) \subseteq Menus
          /\ \A c \in Chain(s, y) : s.selection[c] \in Chain(s, y) \cup {None}
      BY <1>1, <3>1, ChainStep
    <3>3. Chain(s, x) \subseteq {x} \cup Chain(s, y)
      <4> DEFINE C == {x} \cup Chain(s, y)
      <4>1. C \in SUBSET Menus BY <3>2
      <4>2. \A c \in C : s.selection[c] \in C \cup {None} BY <3>2
      <4> HIDE DEF C
      <4>3. x \in C BY DEF C
      <4>4. Chain(s, x) \subseteq C BY <4>1, <4>2, <4>3, ChainLeast
      <4> QED BY <4>4 DEF C
    <3> QED BY <1>2, <3>1, <3>3
  <2> QED BY <2>1, <2>2
<1>3. s.selection[m] \in M BY <1>1 DEF Selection
<1>4. m \in M BY <1>1, ChainStep
<1>5. M \in SUBSET Menus /\ M # {} BY <1>4
<1>6. PICK x \in M : Opens(x) \cap M = {}
  <2> HIDE DEF M
  <2> QED BY <1>5, PipeMenuAssumption
<1>7. s.selection[x] \in M BY <1>2, <1>3
<1>8. s.selection[x] \in Opens(x)
  <2>1. s.selection[x] # None BY <1>7, PipeMenuAssumption
  <2> QED BY <2>1 DEF Nested
<1> QED BY <1>6, <1>7, <1>8

\* What is open below a menu
Below(s, m) == IF s.selection[m] = None THEN {} ELSE Chain(s, s.selection[m])

\* From s to u, what was open below m closes, and t is selected in m, if t is a menu.
Moved(s, u, m, t) ==
    /\ u.selection \in Selection
    /\ \A x \in Menus : u.selection[x] = IF x = m THEN t
                                        ELSE IF x \in Below(s, m) THEN None
                                        ELSE s.selection[x]

\* The chain from above then loses what came after m, and gains t.
LEMMA ChainMoves ==
  ASSUME NEW s, Nested(s), NEW r \in Menus, NEW m \in Chain(s, r),
         NEW t \in Menus \cup {None}, NEW u, Moved(s, u, m, t)
  PROVE /\ m \notin Below(s, m)
        /\ Chain(s, r) \ Below(s, m) \subseteq Chain(u, r)
        /\ t \in Chain(u, r) \cup {None}
<1> DEFINE closed == Below(s, m)
<1>1. s.selection \in Selection BY DEF Nested
<1>2. m \in Menus BY <1>1, ChainStep
<1>3. m \notin closed BY <1>2, ChainHasNoCircle DEF Below
<1>4. closed \subseteq Menus /\ \A c \in closed : s.selection[c] \in closed \cup {None}
  <2>1. CASE s.selection[m] = None BY <2>1 DEF Below
  <2>2. CASE s.selection[m] # None
    <3>1. s.selection[m] \in Menus BY <1>1, <1>2, <2>2 DEF Selection
    <3> QED BY <1>1, <2>2, <3>1, ChainStep DEF Below
  <2> QED BY <2>1, <2>2
<1>5. s.selection[m] \in closed \cup {None}
  <2>1. CASE s.selection[m] = None BY <2>1 DEF Below
  <2>2. CASE s.selection[m] # None
    <3>1. s.selection[m] \in Menus BY <1>1, <1>2, <2>2 DEF Selection
    <3> QED BY <1>1, <2>2, <3>1, ChainStep DEF Below
  <2> QED BY <2>1, <2>2
<1> DEFINE D == Chain(u, r) \cup closed
<1>6. /\ r \in Chain(u, r) /\ Chain(u, r) \subseteq Menus
      /\ \A x \in Chain(u, r) : u.selection[x] \in Chain(u, r) \cup {None}
  BY ChainStep DEF Moved
<1>7. \A c \in D : s.selection[c] \in D \cup {None}
  <2> SUFFICES ASSUME NEW c \in Chain(u, r), c \notin closed
               PROVE s.selection[c] \in D \cup {None}
    BY <1>4
  <2>1. CASE c = m BY <1>5, <2>1
  <2>2. CASE c # m
    <3>1. c \in Menus BY <1>6
    <3>2. u.selection[c] = s.selection[c] BY <2>2, <3>1 DEF Moved
    <3> QED BY <1>6, <3>2
  <2> QED BY <2>1, <2>2
<1>8. D \in SUBSET Menus /\ r \in D BY <1>4, <1>6
<1> HIDE DEF closed
<1>9. Chain(s, r) \subseteq D
  <2> HIDE DEF D
  <2> QED BY <1>7, <1>8, ChainLeast
<1>10. m \in Chain(u, r) BY <1>3, <1>9
<1>11. u.selection[m] = t BY <1>2 DEF Moved
<1> QED BY <1>3, <1>6, <1>9, <1>10, <1>11 DEF closed

----------------------------------------------------------------------------
(* The inductive invariant *)

OpenOf(s) == IF s.current = None THEN {} ELSE Chain(s, s.current)

\* Only menus that exist are used, the items of a menu are those it may have, and a
\* pipe menu has items only when it has been shown.
MenusExist(s) ==
    /\ s.children \subseteq Children
    /\ s.menus = Static \cup s.children
    /\ \A x \in Menus : s.items[x] \subseteq Opens(x) \cap s.menus
    /\ \A x \in Menus : s.selection[x] \in s.items[x] \cup {None}
    /\ \A x \in Pipes \ s.scene : s.items[x] = {}
    /\ s.scene \subseteq s.menus
    /\ s.pipe_ctx \subseteq Pipes \cap s.menus
    /\ s.current \in s.menus \cup {None}

\* A program is awaited for at most one menu, which is open and not shown yet.
AwaitsOne(s) ==
    /\ s.waiting <=> s.pipe_ctx # {}
    /\ \A m, n \in s.pipe_ctx : m = n
    /\ s.pipe_ctx \subseteq OpenOf(s)
    /\ s.pipe_ctx \cap s.scene = {}

\* What is on the screen is open, and only there something is selected.
ShowsOpen(s) ==
    /\ s.shown \subseteq s.scene \cap OpenOf(s)
    /\ \A x \in Menus \ s.shown : s.selection[x] = None

\* Nothing of a program is left when no menu is open.
ClosedIsClean(s) ==
    s.current = None => s.children = {} /\ s.scene \cap Pipes = {}

PInv(s) ==
    s \in MenuState /\ MenusExist(s) /\ AwaitsOne(s) /\ ShowsOpen(s) /\ ClosedIsClean(s)

\* In such a state the selected submenus are nested.
LEMMA SelectedIsNested ==
  ASSUME NEW s, s \in MenuState, MenusExist(s)
  PROVE Nested(s)
<1>1. s.selection \in Selection BY DEF MenuState, Selection
<1> QED BY <1>1 DEF MenusExist, Nested

\* What is opened from a menu is not what was opened to get there, and no pipe menu's
\* program is awaited when no menu is open.
LEMMA NothingOpen ==
  ASSUME NEW s, PInv(s), s.current = None
  PROVE /\ s.shown = {} /\ s.pipe_ctx = {} /\ ~s.waiting
        /\ \A x \in Menus : s.selection[x] = None
<1>1. OpenOf(s) = {} BY DEF OpenOf
<1>2. s.shown = {} /\ \A x \in Menus : s.selection[x] = None
  BY <1>1 DEF PInv, ShowsOpen
<1>3. s.pipe_ctx = {} /\ ~s.waiting BY <1>1 DEF PInv, AwaitsOne
<1> QED BY <1>2, <1>3

\* menu_init(), or the end of the process
LEMMA InitialMenus ==
  ASSUME NEW n \in Menus \X (Menus \cup {Plain, Separator}) \cup {None},
         NEW s, s = Initial \/ s = [Initial EXCEPT !.selected = n] \/ s = Broken
  PROVE PInv(s) /\ s.pipe_ctx = {}
<1>1. /\ s.current = None /\ s.menus = Static /\ s.children = {} /\ s.scene = {}
      /\ s.shown = {} /\ s.pipe_ctx = {} /\ s.waiting = FALSE
      /\ s.items = [ m \in Menus |-> IF m \in Static \ Pipes THEN Submenus[m] ELSE {} ]
      /\ s.selection = [ m \in Menus |-> None ]
  <2>1. CASE s = Initial BY <2>1 DEF Initial
  <2>2. CASE s = [Initial EXCEPT !.selected = n] BY <2>2 DEF Initial
  <2>3. CASE s = Broken BY <2>3 DEF Broken, Initial
  <2> QED BY <2>1, <2>2, <2>3
<1>2. \A m \in Menus : s.items[m] \subseteq Opens(m) \cap Static
  <2> SUFFICES ASSUME NEW m \in Menus PROVE s.items[m] \subseteq Opens(m) \cap Static
    OBVIOUS
  <2>1. CASE m \in Static \ Pipes
    <3>1. s.items[m] = Submenus[m] /\ Opens(m) = Submenus[m] /\ Submenus[m] \subseteq Static
      BY <1>1, <2>1, PipeMenuAssumption DEF Opens
    <3> QED BY <3>1
  <2>2. CASE m \notin Static \ Pipes
    BY <1>1, <2>2
  <2> QED BY <2>1, <2>2
<1>3. s.items \in [Menus -> SUBSET Menus]
  <2>1. \A m \in Static \ Pipes : Submenus[m] \subseteq Menus
    BY PipeMenuAssumption DEF Menus
  <2> QED BY <1>1, <2>1
<1>4. s \in MenuState
  <2>1. Static \subseteq Menus BY DEF Menus
  <2>2. CASE s = Initial BY <1>3, <2>1, <2>2 DEF MenuState, Initial
  <2>3. CASE s = [Initial EXCEPT !.selected = n] BY <1>3, <2>1, <2>3 DEF MenuState, Initial
  <2>4. CASE s = Broken BY <1>3, <2>1, <2>4 DEF MenuState, Broken, Initial
  <2> QED BY <2>2, <2>3, <2>4
<1>5. MenusExist(s)
  <2>1. \A m \in Pipes : m \in Menus /\ s.items[m] = {}
    BY <1>1, PipeMenuAssumption
  <2>2. s.scene = {} /\ s.menus = Static \cup s.children /\ s.children \subseteq Children
    BY <1>1
  <2>3. \A x \in Menus : s.items[x] \subseteq Opens(x) \cap s.menus
    BY <1>1, <1>2
  <2>4. \A x \in Menus : s.selection[x] \in s.items[x] \cup {None}
    BY <1>1
  <2> QED BY <1>1, <2>1, <2>2, <2>3, <2>4 DEF MenusExist
<1>6. AwaitsOne(s) BY <1>1 DEF AwaitsOne
<1>7. ShowsOpen(s) BY <1>1 DEF ShowsOpen
<1>8. ClosedIsClean(s) BY <1>1 DEF ClosedIsClean
<1> QED BY <1>1, <1>4, <1>5, <1>6, <1>7, <1>8 DEF PInv

----------------------------------------------------------------------------
(* Closing *)

\* _close() of a menu that exists, in an awaited state: the flag falls exactly when the
\* program that is awaited was for one of the menus that are closed.
LEMMA CloseFields ==
  ASSUME NEW s, s \in MenuState, NEW m \in Menus
  PROVE LET c == Close(s, m)
            closed == Chain(s, m)
        IN  /\ c \in MenuState
            /\ c.current = s.current /\ c.menus = s.menus /\ c.children = s.children
            /\ c.items = s.items /\ c.scene = s.scene /\ c.selected = s.selected
            /\ c.shown = s.shown \ closed /\ c.pipe_ctx = s.pipe_ctx \ closed
            /\ \A x \in Menus :
                  c.selection[x] = IF x \in closed THEN None ELSE s.selection[x]
            /\ c.waiting <=> s.waiting /\ closed \cap s.pipe_ctx = {}
<1> DEFINE closed == Chain(s, m)
<1>1. s.selection \in Selection BY DEF MenuState, Selection
<1>2. closed \subseteq Menus BY <1>1, ChainStep
<1> HIDE DEF closed
<1>3. [s EXCEPT !.shown = @ \ closed,
                !.selection = [ x \in Menus |-> IF x \in closed THEN None ELSE @[x] ],
                !.pipe_ctx = @ \ closed,
                !.waiting = IF closed \cap s.pipe_ctx # {} THEN FALSE ELSE @]
        = Close(s, m)
  BY DEF Close, closed
<1> DEFINE c == [s EXCEPT !.shown = @ \ closed,
                !.selection = [ x \in Menus |-> IF x \in closed THEN None ELSE @[x] ],
                !.pipe_ctx = @ \ closed,
                !.waiting = IF closed \cap s.pipe_ctx # {} THEN FALSE ELSE @]
<1>4. /\ c.current = s.current /\ c.menus = s.menus /\ c.children = s.children
      /\ c.items = s.items /\ c.scene = s.scene /\ c.selected = s.selected
      /\ c.shown = s.shown \ closed /\ c.pipe_ctx = s.pipe_ctx \ closed
      /\ c.selection = [ x \in Menus |-> IF x \in closed THEN None ELSE s.selection[x] ]
  BY DEF MenuState
<1>5. c.waiting <=> s.waiting /\ closed \cap s.pipe_ctx = {}
  <2>1. CASE closed \cap s.pipe_ctx # {}
    <3>1. c.waiting = FALSE BY <2>1 DEF MenuState
    <3> QED BY <2>1, <3>1
  <2>2. CASE closed \cap s.pipe_ctx = {}
    <3>1. c.waiting = s.waiting BY <2>2 DEF MenuState
    <3> QED BY <2>2, <3>1
  <2> QED BY <2>1, <2>2
<1>6. c \in MenuState BY DEF MenuState
<1> QED
  <2> HIDE DEF c
  <2>1. c = Close(s, m) BY <1>3 DEF c
  <2>2. \A x \in Menus : c.selection[x] = IF x \in closed THEN None ELSE s.selection[x]
    BY <1>4
  <2> QED BY <1>4, <1>5, <1>6, <2>1, <2>2 DEF closed

\* Records of menus are equal when their fields are.
LEMMA SameMenus ==
  ASSUME NEW s \in MenuState, NEW u \in MenuState,
         s.current = u.current, s.menus = u.menus, s.children = u.children,
         s.items = u.items, s.selection = u.selection, s.scene = u.scene,
         s.shown = u.shown, s.pipe_ctx = u.pipe_ctx, s.waiting <=> u.waiting,
         s.selected = u.selected, s.broken <=> u.broken
  PROVE s = u
<1>1. s.waiting = u.waiting /\ s.broken = u.broken BY DEF MenuState
<1> QED BY <1>1 DEF MenuState

\* reset_pipemenus(), with no program awaited for a menu that goes
LEMMA ResetIs ==
  ASSUME NEW s \in MenuState, s.children \cap s.pipe_ctx = {}
  PROVE LET c == ResetPipemenus(s)
        IN  /\ c \in MenuState
            /\ c.current = s.current /\ c.menus = s.menus \ s.children /\ c.children = {}
            /\ c.items = [ x \in Menus |-> IF x \in Pipes \cup s.children
                                            THEN {} ELSE s.items[x] \ s.children ]
            /\ c.selection = [ x \in Menus |-> IF s.selection[x] \in s.children
                                                THEN None ELSE s.selection[x] ]
            /\ c.scene = (s.scene \ s.children) \ Pipes
            /\ c.shown = (s.shown \ s.children) \ Pipes
            /\ c.pipe_ctx = s.pipe_ctx
            /\ c.waiting <=> s.waiting
            /\ c.selected = s.selected /\ (c.broken <=> s.broken)
<1> DEFINE f == FreeChildren(s)
           sel == [ m \in Menus |-> IF s.selection[m] \in s.children
                                    THEN None ELSE s.selection[m] ]
           its == [ m \in Menus |-> IF m \in s.children
                                    THEN {} ELSE s.items[m] \ s.children ]
           new == [ m \in Menus |-> IF m \in Pipes THEN {} ELSE f.items[m] ]
           c == [f EXCEPT !.items = new, !.scene = @ \ Pipes, !.shown = @ \ Pipes]
<1>1. s.pipe_ctx \ s.children = s.pipe_ctx OBVIOUS
<1>2. /\ f.current = s.current /\ f.children = {} /\ f.menus = s.menus \ s.children
      /\ f.scene = s.scene \ s.children /\ f.shown = s.shown \ s.children
      /\ f.pipe_ctx = s.pipe_ctx /\ f.selected = s.selected /\ f.broken = s.broken
      /\ f.selection = sel /\ f.items = its
  BY <1>1 DEF FreeChildren, MenuState
<1>3. f.waiting = s.waiting BY DEF FreeChildren, MenuState
<1>4. sel \in [Menus -> Menus \cup {None}] /\ its \in [Menus -> SUBSET Menus]
  <2>1. \A x \in Menus : sel[x] \in Menus \cup {None} /\ its[x] \in SUBSET Menus
    BY DEF MenuState
  <2> QED BY <2>1
<1>5. f \in MenuState
  <2>1. f = [s EXCEPT !.menus = s.menus \ s.children,
              !.children = {},
              !.items = its,
              !.selection = sel,
              !.scene = s.scene \ s.children,
              !.shown = s.shown \ s.children,
              !.pipe_ctx = s.pipe_ctx \ s.children,
              !.waiting = IF s.children \cap s.pipe_ctx # {} THEN FALSE ELSE s.waiting]
    BY DEF FreeChildren, MenuState
  <2> HIDE DEF f, sel, its
  <2> QED BY <1>4, <2>1, ZenonT(60) DEF MenuState
<1>6. c = ResetPipemenus(s) BY DEF ResetPipemenus
<1>7. new \in [Menus -> SUBSET Menus] BY <1>5 DEF MenuState
<1>8. new = [ x \in Menus |-> IF x \in Pipes \cup s.children
                              THEN {} ELSE s.items[x] \ s.children ]
  BY <1>2
<1> HIDE DEF f, new
<1>9. /\ c.current = s.current /\ c.children = {} /\ c.menus = s.menus \ s.children
      /\ c.scene = (s.scene \ s.children) \ Pipes
      /\ c.shown = (s.shown \ s.children) \ Pipes /\ c.pipe_ctx = s.pipe_ctx
      /\ c.selection = sel /\ c.items = new /\ c.waiting = f.waiting
      /\ c.selected = s.selected /\ c.broken = f.broken
  BY <1>2, <1>5 DEF MenuState
<1>10. c \in MenuState BY <1>5, <1>7 DEF MenuState
<1> HIDE DEF c
<1> QED BY <1>2, <1>3, <1>6, <1>8, <1>9, <1>10

\* menu_close() of the whole tree
LEMMA TreeCloses ==
  ASSUME NEW s, PInv(s), s.current # None
  PROVE LET d == [Close(s, s.current) EXCEPT !.current = None]
        IN  /\ d \in MenuState /\ d.current = None /\ d.menus = s.menus
            /\ d.children = s.children /\ d.items = s.items /\ d.scene = s.scene
            /\ d.shown = {} /\ d.pipe_ctx = {} /\ ~d.waiting
            /\ \A x \in Menus : d.selection[x] = None
<1> DEFINE a == Close(s, s.current)
           d == [a EXCEPT !.current = None]
           closed == Chain(s, s.current)
<1>0. s \in MenuState /\ s.current \in Menus
  BY DEF PInv, MenuState
<1>1. /\ a \in MenuState /\ a.menus = s.menus /\ a.children = s.children
      /\ a.items = s.items /\ a.scene = s.scene
      /\ a.shown = s.shown \ closed /\ a.pipe_ctx = s.pipe_ctx \ closed
      /\ \A x \in Menus : a.selection[x] = IF x \in closed THEN None ELSE s.selection[x]
      /\ a.waiting <=> s.waiting /\ closed \cap s.pipe_ctx = {}
  <2> HIDE DEF a
  <2> QED BY <1>0, CloseFields DEF a
<1>2. OpenOf(s) = closed BY DEF OpenOf
<1>3. /\ a.shown = {} /\ a.pipe_ctx = {}
      /\ \A x \in Menus : a.selection[x] = None
  <2>1. s.shown \subseteq closed BY <1>2 DEF PInv, ShowsOpen
  <2>2. s.pipe_ctx \subseteq closed BY <1>2 DEF PInv, AwaitsOne
  <2>3. \A x \in Menus \ s.shown : s.selection[x] = None BY DEF PInv, ShowsOpen
  <2> HIDE DEF a, closed
  <2> QED BY <1>1, <2>1, <2>2, <2>3
<1>4. ~a.waiting
  <2>1. s.pipe_ctx \subseteq closed BY <1>2 DEF PInv, AwaitsOne
  <2>2. s.waiting <=> s.pipe_ctx # {} BY DEF PInv, AwaitsOne
  <2> HIDE DEF a, closed
  <2> QED BY <1>1, <2>1, <2>2
<1> HIDE DEF a, closed
<1>5. /\ d \in MenuState /\ d.current = None /\ d.menus = s.menus
      /\ d.children = s.children /\ d.items = s.items /\ d.scene = s.scene
      /\ d.shown = {} /\ d.pipe_ctx = {} /\ d.selection = a.selection
      /\ d.waiting = a.waiting
  BY <1>1, <1>3 DEF MenuState
<1> HIDE DEF d
<1>6. ~d.waiting /\ \A x \in Menus : d.selection[x] = None
  BY <1>3, <1>4, <1>5
<1> QED BY <1>5, <1>6 DEF a, d

\* menu_close_root() and the end of menu_execute_item(): all that is open closes, and
\* nothing of a program is left.
LEMMA CloseAll ==
  ASSUME NEW s, PInv(s), s.current # None
  PROVE LET c == ResetPipemenus([Close(s, s.current) EXCEPT !.current = None])
        IN  PInv(c) /\ c.current = None
<1> DEFINE d == [Close(s, s.current) EXCEPT !.current = None]
           c == ResetPipemenus(d)
<1>5. /\ d \in MenuState /\ d.current = None /\ d.menus = s.menus
      /\ d.children = s.children /\ d.items = s.items /\ d.scene = s.scene
      /\ d.shown = {} /\ d.pipe_ctx = {} /\ ~d.waiting
      /\ \A x \in Menus : d.selection[x] = None
  BY TreeCloses
<1> HIDE DEF d
<1>7. /\ c \in MenuState
      /\ c.current = None /\ c.children = {} /\ c.menus = s.menus \ s.children
      /\ c.scene = (s.scene \ s.children) \ Pipes
      /\ c.shown = {} /\ c.pipe_ctx = {} /\ ~c.waiting
      /\ \A x \in Menus : c.selection[x] = None
      /\ \A x \in Menus : c.items[x] = IF x \in Pipes \cup s.children
                                       THEN {} ELSE s.items[x] \ s.children
  <2> HIDE DEF c
  <2>2. /\ c \in MenuState
        /\ c.current = d.current /\ c.menus = d.menus \ d.children /\ c.children = {}
        /\ c.items = [ x \in Menus |-> IF x \in Pipes \cup d.children
                                        THEN {} ELSE d.items[x] \ d.children ]
        /\ c.selection = [ x \in Menus |-> IF d.selection[x] \in d.children
                                            THEN None ELSE d.selection[x] ]
        /\ c.scene = (d.scene \ d.children) \ Pipes
        /\ c.shown = (d.shown \ d.children) \ Pipes
        /\ c.pipe_ctx = d.pipe_ctx /\ (c.waiting <=> d.waiting)
    BY <1>5, ResetIs DEF c
  <2>3. \A x \in Menus : c.selection[x] = None BY <1>5, <2>2
  <2> QED BY <1>5, <2>2, <2>3
<1>8. /\ s.children \subseteq Children /\ s.menus = Static \cup s.children
      /\ \A x \in Menus : s.items[x] \subseteq Opens(x) \cap s.menus
      /\ s.scene \subseteq s.menus
  BY DEF PInv, MenusExist
<1> HIDE DEF c
<1>9. c.menus = Static \cup c.children /\ c.children \subseteq Children
  <2>1. Static \cap s.children = {} BY <1>8, PipeMenuAssumption
  <2> QED BY <1>7, <1>8, <2>1
<1>10. MenusExist(c)
  <2>1. ASSUME NEW x \in Menus PROVE c.items[x] \subseteq Opens(x) \cap c.menus
    <3>1. c.items[x] = {} \/ c.items[x] = s.items[x] \ s.children BY <1>7
    <3>2. s.items[x] \subseteq Opens(x) \cap s.menus BY <1>8
    <3>3. c.menus = s.menus \ s.children BY <1>7
    <3> QED BY <3>1, <3>2, <3>3
  <2>2. \A x \in Pipes : c.items[x] = {}
    BY <1>7, PipeMenuAssumption
  <2>3. c.scene \subseteq c.menus BY <1>7, <1>8
  <2> QED BY <1>7, <1>9, <2>1, <2>2, <2>3 DEF MenusExist
<1>11. AwaitsOne(c) BY <1>7 DEF AwaitsOne
<1>12. ShowsOpen(c) BY <1>7 DEF ShowsOpen
<1>13. ClosedIsClean(c) BY <1>7 DEF ClosedIsClean
<1>14. PInv(c) BY <1>7, <1>10, <1>11, <1>12, <1>13 DEF PInv
<1> QED BY <1>7, <1>14 DEF c, d

----------------------------------------------------------------------------
(* Programs that end without a menu *)

\* pipemenu_ctx_destroy() of the one program that is awaited
LEMMA ContextGoes ==
  ASSUME NEW s, PInv(s), NEW m \in s.pipe_ctx
  PROVE PInv(DestroyContext(s, m)) /\ DestroyContext(s, m).pipe_ctx = {}
<1> DEFINE c == DestroyContext(s, m)
<1>1. s \in MenuState BY DEF PInv
<1>2. s.pipe_ctx \ {m} = {} BY DEF PInv, AwaitsOne
<1>3. /\ c.current = s.current /\ c.menus = s.menus /\ c.children = s.children
      /\ c.items = s.items /\ c.scene = s.scene /\ c.selected = s.selected
      /\ c.shown = s.shown /\ c.pipe_ctx = {} /\ c.selection = s.selection
  BY <1>1, <1>2 DEF DestroyContext, MenuState
<1>4. c.waiting = FALSE BY <1>1 DEF DestroyContext, MenuState
<1>5. c \in MenuState BY <1>1 DEF DestroyContext, MenuState
<1> HIDE DEF c
<1>6. OpenOf(c) = OpenOf(s) BY <1>3, ChainSame DEF OpenOf
<1>7. MenusExist(c)
  <2>1. MenusExist(s) BY DEF PInv
  <2> QED BY <1>3, <2>1 DEF MenusExist
<1>8. AwaitsOne(c) BY <1>3, <1>4 DEF AwaitsOne
<1>9. ShowsOpen(c) BY <1>3, <1>6 DEF ShowsOpen, PInv
<1>10. ClosedIsClean(c) BY <1>3 DEF ClosedIsClean, PInv
<1>11. PInv(c) BY <1>5, <1>7, <1>8, <1>9, <1>10 DEF PInv
<1> QED BY <1>3, <1>11 DEF c

----------------------------------------------------------------------------
(* Output *)

\* The menus that an output brings are among those it may bring, with those listed, and
\* with the submenus of those that are no pipe menus.
LEMMA CreatedIsClosed ==
  ASSUME NEW listed \in SUBSET Children
  PROVE /\ listed \subseteq Created(listed)
        /\ Created(listed) \subseteq Children
        /\ \A c \in Created(listed) \ Pipes :
              /\ Submenus[c] \subseteq Created(listed)
              /\ Submenus[c] = Opens(c)
<1>1. listed \subseteq Created(listed) /\ Created(listed) \subseteq Children
  BY DEF Created
<1>2. ASSUME NEW c \in Created(listed) \ Pipes
      PROVE Submenus[c] \subseteq Created(listed) /\ Submenus[c] = Opens(c)
  <2>1. c \in Menus \ Pipes /\ c \in Children BY <1>1 DEF Menus
  <2>2. Submenus[c] \subseteq Children
    <3>1. c \notin Static BY <2>1, PipeMenuAssumption
    <3>2. Submenus[c] \subseteq IF c \in Static THEN Static ELSE Children
      BY <2>1, PipeMenuAssumption
    <3> QED BY <3>1, <3>2
  <2>3. Submenus[c] = Opens(c) BY <2>1 DEF Opens
  <2>4. Submenus[c] \subseteq Created(listed) BY <2>2 DEF Created
  <2> QED BY <2>3, <2>4
<1> QED BY <1>1, <1>2

\* handle_pipemenu_readable(): the flag is still set while the output is parsed, so that
\* every menu it brings is a child; they go into the menu that waits for them.
LEMMA OutputIsShown ==
  ASSUME NEW m \in Pipes, NEW listed \in Outputs[m], PInv(menu), ReadOutput(m, listed)
  PROVE PInv(menu') /\ menu'.pipe_ctx = {}
<1> DEFINE brought == Created(listed)
           its == [ x \in Menus |->
                      CASE x = m                    -> listed
                        [] x # m /\ x \in brought \ Pipes -> Submenus[x]
                        [] OTHER                    -> menu.items[x] ]
<1>1. /\ menu \in MenuState /\ m \in menu.pipe_ctx /\ m \in Menus
      /\ menu.waiting /\ m \notin menu.scene /\ m \in OpenOf(menu)
      /\ menu.pipe_ctx \ {m} = {} /\ menu.current # None
  <2>1. m \in menu.pipe_ctx BY DEF ReadOutput
  <2>2. AwaitsOne(menu) /\ menu \in MenuState BY DEF PInv
  <2>3. menu.waiting /\ m \notin menu.scene /\ m \in OpenOf(menu) BY <2>1, <2>2 DEF AwaitsOne
  <2>4. menu.pipe_ctx \ {m} = {} BY <2>1, <2>2 DEF AwaitsOne
  <2>5. menu.current # None BY <2>3 DEF OpenOf
  <2> QED BY <2>1, <2>2, <2>3, <2>4, <2>5, PipeMenuAssumption
<1>2. listed \subseteq Children /\ listed \subseteq Opens(m)
  <2>1. Outputs[m] \in SUBSET SUBSET Children BY PipeMenuAssumption
  <2> QED BY <2>1 DEF Opens
<1>3. /\ listed \subseteq brought /\ brought \subseteq Children
      /\ \A c \in brought \ Pipes : Submenus[c] \subseteq brought /\ Submenus[c] = Opens(c)
  BY <1>2, CreatedIsClosed
<1> HIDE DEF brought
<1>4. \A x \in Menus : \/ x = m /\ its[x] = listed
                       \/ x # m /\ x \in brought \ Pipes /\ its[x] = Submenus[x]
                       \/ x # m /\ x \notin brought \ Pipes /\ its[x] = menu.items[x]
  OBVIOUS
<1>5. its \in [Menus -> SUBSET Menus]
  <2>1. its = [ x \in Menus |-> its[x] ] OBVIOUS
  <2>2. \A x \in Menus : its[x] \subseteq Menus
    <3>1. \A x \in Menus : menu.items[x] \subseteq Menus BY <1>1 DEF MenuState
    <3> HIDE DEF its
    <3> QED BY <1>2, <1>3, <1>4, <3>1 DEF Menus
  <2> QED BY <2>1, <2>2
<1>6. /\ menu'.current = menu.current /\ menu'.menus = menu.menus \cup brought
      /\ menu'.children = menu.children \cup brought
      /\ menu'.items = its /\ menu'.selection = menu.selection
      /\ menu'.scene = menu.scene \cup {m} /\ menu'.shown = menu.shown \cup {m}
      /\ menu'.pipe_ctx = {} /\ menu'.selected = menu.selected
  BY <1>1 DEF ReadOutput, DestroyContext, OpenMenu, MenuState, brought
<1>7. menu'.waiting = FALSE
  BY <1>1 DEF ReadOutput, DestroyContext, OpenMenu, MenuState
<1>8. menu' \in MenuState
  <2> DEFINE n == [menu EXCEPT !.menus = @ \cup brought, !.children = @ \cup brought,
                               !.items = its, !.scene = @ \cup {m}, !.shown = @ \cup {m},
                               !.pipe_ctx = @ \ {m}, !.waiting = FALSE]
  <2>1. menu' = n
    BY <1>1 DEF ReadOutput, DestroyContext, OpenMenu, MenuState, brought
  <2>2. brought \in SUBSET Menus BY <1>3 DEF Menus
  <2> HIDE DEF its
  <2>3. n \in MenuState BY <1>1, <1>5, <2>2 DEF MenuState
  <2> QED BY <2>1, <2>3
<1> HIDE DEF its
<1>9. OpenOf(menu') = OpenOf(menu) BY <1>6, ChainSame DEF OpenOf
<1>10. /\ menu.children \subseteq Children /\ menu.menus = Static \cup menu.children
       /\ menu.scene \subseteq menu.menus /\ menu.pipe_ctx \subseteq Pipes \cap menu.menus
       /\ menu.current \in menu.menus \cup {None} /\ menu.items[m] = {}
       /\ \A x \in Pipes \ menu.scene : menu.items[x] = {}
       /\ \A x \in Menus : menu.items[x] \subseteq Opens(x) \cap menu.menus
       /\ \A x \in Menus : menu.selection[x] \in menu.items[x] \cup {None}
  <2>1. MenusExist(menu) BY DEF PInv
  <2> QED BY <1>1, <2>1 DEF MenusExist
<1>11. MenusExist(menu')
  <2>1. menu'.menus = Static \cup menu'.children /\ menu'.children \subseteq Children
    BY <1>3, <1>6, <1>10
  <2>2. ASSUME NEW x \in Menus PROVE menu'.items[x] \subseteq Opens(x) \cap menu'.menus
    <3>1. CASE x = m BY <1>2, <1>3, <1>4, <1>6, <3>1
    <3>2. CASE x # m /\ x \in brought \ Pipes BY <1>3, <1>4, <1>6, <3>2
    <3>3. CASE x # m /\ x \notin brought \ Pipes
      <4>1. menu'.items[x] = menu.items[x] BY <1>4, <1>6, <3>3
      <4> QED BY <1>6, <1>10, <4>1
    <3> QED BY <3>1, <3>2, <3>3
  <2>3. ASSUME NEW x \in Menus PROVE menu'.selection[x] \in menu'.items[x] \cup {None}
    <3>1. CASE x = m BY <1>6, <1>10, <3>1
    <3>2. CASE x # m /\ x \in brought \ Pipes
      <4>1. menu'.items[x] = Opens(x) BY <1>3, <1>4, <1>6, <3>2
      <4> QED BY <1>6, <1>10, <4>1
    <3>3. CASE x # m /\ x \notin brought \ Pipes
      <4>1. menu'.items[x] = menu.items[x] BY <1>4, <1>6, <3>3
      <4> QED BY <1>6, <1>10, <4>1
    <3> QED BY <3>1, <3>2, <3>3
  <2>4. ASSUME NEW x \in Pipes \ menu'.scene PROVE menu'.items[x] = {}
    <3>1. x \in Menus /\ x # m BY <1>6, PipeMenuAssumption
    <3>2. menu'.items[x] = menu.items[x] BY <1>4, <1>6, <3>1
    <3> QED BY <1>6, <1>10, <3>2
  <2>5. /\ menu'.scene \subseteq menu'.menus /\ menu'.current \in menu'.menus \cup {None}
        /\ menu'.pipe_ctx = {}
    BY <1>1, <1>6, <1>10
  <2> QED BY <2>1, <2>2, <2>3, <2>4, <2>5 DEF MenusExist
<1>12. AwaitsOne(menu') BY <1>6, <1>7 DEF AwaitsOne
<1>13. ShowsOpen(menu')
  <2>1. ShowsOpen(menu) BY DEF PInv
  <2> QED BY <1>1, <1>6, <1>9, <2>1 DEF ShowsOpen
<1>14. ClosedIsClean(menu') BY <1>1, <1>6 DEF ClosedIsClean
<1> QED BY <1>6, <1>8, <1>11, <1>12, <1>13, <1>14 DEF PInv

----------------------------------------------------------------------------
(* Opening *)

\* menu_open_root(): no menu is open, so that no pipe menu is shown and no program is
\* awaited.
LEMMA RootOpens ==
  ASSUME NEW s, PInv(s), s.current = None, NEW m \in s.menus, NEW u \in RootOpened(s, m)
  PROVE PInv(u)
<1>1. /\ s \in MenuState /\ m \in Menus /\ s.current = None
      /\ s.scene \cap Pipes = {}
  BY DEF PInv, ClosedIsClean, MenuState
<1>2. /\ s.shown = {} /\ s.pipe_ctx = {} /\ ~s.waiting
      /\ \A x \in Menus : s.selection[x] = None
  BY <1>1, NothingOpen
<1>3. m # None BY <1>1, PipeMenuAssumption
<1>4. /\ u.current = m /\ u.selected = None /\ u.menus = s.menus
      /\ u.children = s.children /\ u.items = s.items
      /\ u.selection = s.selection /\ u \in MenuState
      /\ \/ /\ m \in Pipes /\ u.pipe_ctx = {} /\ u.waiting = s.waiting
            /\ u.scene = s.scene /\ u.shown = {}
         \/ /\ m \in Pipes /\ u.pipe_ctx = {m} /\ u.waiting = TRUE
            /\ u.scene = s.scene /\ u.shown = {}
         \/ /\ m \notin Pipes /\ u.pipe_ctx = {} /\ u.waiting = s.waiting
            /\ u.scene = s.scene \cup {m} /\ u.shown = {m}
  <2>1. CASE m \in Pipes /\ u = [s EXCEPT !.current = m, !.selected = None]
    BY <1>1, <1>2, <2>1 DEF MenuState
  <2>2. CASE m \in Pipes
             /\ u = [OpenPipemenu(s, m) EXCEPT !.current = m, !.selected = None]
    <3>1. u.waiting = TRUE BY <1>1, <2>2 DEF OpenPipemenu, MenuState
    <3>2. u.pipe_ctx = {m} BY <1>1, <1>2, <2>2 DEF OpenPipemenu, MenuState
    <3>3. u \in MenuState BY <1>1, <2>2 DEF OpenPipemenu, MenuState
    <3>4. /\ u.current = m /\ u.selected = None /\ u.menus = s.menus
          /\ u.children = s.children /\ u.items = s.items
          /\ u.selection = s.selection
          /\ u.scene = s.scene /\ u.shown = s.shown
      BY <1>1, <2>2 DEF OpenPipemenu, MenuState
    <3> QED BY <1>2, <2>2, <3>1, <3>2, <3>3, <3>4
  <2>3. CASE m \notin Pipes
             /\ u = [OpenMenu(s, m) EXCEPT !.current = m, !.selected = None]
    BY <1>1, <1>2, <2>3 DEF OpenMenu, MenuState
  <2> QED BY <2>1, <2>2, <2>3 DEF RootOpened
<1>5. m \in OpenOf(u)
  <2>1. u.selection \in Selection BY <1>4 DEF MenuState, Selection
  <2> QED BY <1>1, <1>3, <1>4, <2>1, ChainStep DEF OpenOf
<1>6. MenusExist(s) BY DEF PInv
<1>7. MenusExist(u)
  BY <1>1, <1>4, <1>6 DEF MenusExist
<1>8. AwaitsOne(u) BY <1>1, <1>2, <1>4, <1>5 DEF AwaitsOne
<1>9. ShowsOpen(u) BY <1>2, <1>4, <1>5 DEF ShowsOpen
<1>10. ClosedIsClean(u) BY <1>3, <1>4 DEF ClosedIsClean
<1> QED BY <1>4, <1>7, <1>8, <1>9, <1>10 DEF PInv

\* menu_execute_item() with an action that shows a menu of menu.xml: that menu is opened
\* before the reset, as it would be after it.
LEMMA ResetCommutes ==
  ASSUME NEW d \in MenuState, d.shown = {}, d.pipe_ctx = {},
         NEW m \in Static, m \notin d.children, NEW u \in RootOpened(d, m)
  PROVE ResetPipemenus(u) \in RootOpened(ResetPipemenus(d), m)
<1> DEFINE c == ResetPipemenus(d)
           e == ResetPipemenus(u)
           Top(s) == [s EXCEPT !.current = m, !.selected = None]
<1>0. m \in Menus BY DEF Menus
<1>1. /\ c \in MenuState
      /\ c.menus = d.menus \ d.children /\ c.children = {}
      /\ c.items = [ x \in Menus |-> IF x \in Pipes \cup d.children
                                      THEN {} ELSE d.items[x] \ d.children ]
      /\ c.selection = [ x \in Menus |-> IF d.selection[x] \in d.children
                                          THEN None ELSE d.selection[x] ]
      /\ c.scene = (d.scene \ d.children) \ Pipes /\ c.shown = {} /\ c.pipe_ctx = {}
      /\ (c.waiting <=> d.waiting) /\ (c.broken <=> d.broken)
  <2> HIDE DEF c
  <2> QED BY ResetIs DEF c
<1>2. ASSUME u \in MenuState, u.children \cap u.pipe_ctx = {}
      PROVE /\ e \in MenuState
            /\ e.current = u.current /\ e.menus = u.menus \ u.children /\ e.children = {}
            /\ e.items = [ x \in Menus |-> IF x \in Pipes \cup u.children
                                            THEN {} ELSE u.items[x] \ u.children ]
            /\ e.selection = [ x \in Menus |-> IF u.selection[x] \in u.children
                                                THEN None ELSE u.selection[x] ]
            /\ e.scene = (u.scene \ u.children) \ Pipes
            /\ e.shown = (u.shown \ u.children) \ Pipes
            /\ e.pipe_ctx = u.pipe_ctx /\ (e.waiting <=> u.waiting)
            /\ e.selected = u.selected /\ (e.broken <=> u.broken)
  <2> HIDE DEF e
  <2> QED BY <1>2, ResetIs DEF e
<1> HIDE DEF c, e
<1>3. CASE m \in Pipes /\ u = Top(d)
  <2>1. /\ u \in MenuState /\ u.current = m /\ u.selected = None /\ u.menus = d.menus
        /\ u.children = d.children /\ u.items = d.items /\ u.selection = d.selection
        /\ u.scene = d.scene /\ u.shown = {} /\ u.pipe_ctx = {} /\ u.waiting = d.waiting
        /\ u.broken = d.broken
    BY <1>0, <1>3 DEF MenuState
  <2>2. /\ Top(c) \in MenuState /\ Top(c).current = m /\ Top(c).selected = None
        /\ Top(c).menus = c.menus /\ Top(c).children = c.children
        /\ Top(c).items = c.items /\ Top(c).selection = c.selection
        /\ Top(c).scene = c.scene /\ Top(c).shown = {} /\ Top(c).pipe_ctx = {}
        /\ Top(c).waiting = c.waiting /\ Top(c).broken = c.broken
    BY <1>0, <1>1 DEF MenuState
  <2> DEFINE w == Top(c)
  <2> HIDE DEF w
  <2>3. w \in MenuState BY <2>2 DEF w
  <2>4. /\ e \in MenuState /\ e.current = w.current /\ e.menus = w.menus
        /\ e.children = w.children /\ e.items = w.items /\ e.selection = w.selection
        /\ e.scene = w.scene /\ e.shown = w.shown /\ e.pipe_ctx = w.pipe_ctx
        /\ (e.waiting <=> w.waiting) /\ e.selected = w.selected /\ (e.broken <=> w.broken)
    <3>1. u.children \cap u.pipe_ctx = {} BY <2>1
    <3> QED BY <1>1, <1>2, <1>3, <2>1, <2>2, <3>1 DEF w
  <2>5. e = w BY <2>3, <2>4, SameMenus
  <2> QED BY <1>3, <2>5 DEF RootOpened, w, c, e
<1>4. CASE m \in Pipes /\ u = Top(OpenPipemenu(d, m))
  <2>1. /\ u \in MenuState /\ u.current = m /\ u.selected = None /\ u.menus = d.menus
        /\ u.children = d.children /\ u.items = d.items /\ u.selection = d.selection
        /\ u.scene = d.scene /\ u.shown = {} /\ u.pipe_ctx = {m}
        /\ u.broken = d.broken
    BY <1>0, <1>4 DEF OpenPipemenu, MenuState
  <2>2. u.waiting = TRUE BY <1>4 DEF OpenPipemenu, MenuState
  <2> DEFINE w == Top(OpenPipemenu(c, m))
  <2>3. /\ w \in MenuState /\ w.current = m /\ w.selected = None
        /\ w.menus = c.menus /\ w.children = c.children
        /\ w.items = c.items /\ w.selection = c.selection
        /\ w.scene = c.scene /\ w.shown = {} /\ w.pipe_ctx = {m}
        /\ w.broken = c.broken
    BY <1>0, <1>1 DEF OpenPipemenu, MenuState
  <2>4. w.waiting = TRUE BY <1>1 DEF OpenPipemenu, MenuState
  <2> HIDE DEF w
  <2>5. /\ e \in MenuState /\ e.current = w.current /\ e.menus = w.menus
        /\ e.children = w.children /\ e.items = w.items /\ e.selection = w.selection
        /\ e.scene = w.scene /\ e.shown = w.shown /\ e.pipe_ctx = w.pipe_ctx
        /\ (e.waiting <=> w.waiting) /\ e.selected = w.selected /\ (e.broken <=> w.broken)
    <3>1. u.children \cap u.pipe_ctx = {} BY <2>1
    <3> QED BY <1>1, <1>2, <2>1, <2>2, <2>3, <2>4, <3>1
  <2>6. e = w BY <2>3, <2>5, SameMenus
  <2> QED BY <1>4, <2>6 DEF RootOpened, w, c, e
<1>5. CASE m \notin Pipes /\ u = Top(OpenMenu(d, m))
  <2>1. /\ u \in MenuState /\ u.current = m /\ u.selected = None /\ u.menus = d.menus
        /\ u.children = d.children /\ u.items = d.items /\ u.selection = d.selection
        /\ u.scene = d.scene \cup {m} /\ u.shown = {m} /\ u.pipe_ctx = {}
        /\ u.waiting = d.waiting /\ u.broken = d.broken
    BY <1>0, <1>5 DEF OpenMenu, MenuState
  <2> DEFINE w == Top(OpenMenu(c, m))
  <2>2. /\ w \in MenuState /\ w.current = m /\ w.selected = None
        /\ w.menus = c.menus /\ w.children = c.children
        /\ w.items = c.items /\ w.selection = c.selection
        /\ w.scene = c.scene \cup {m} /\ w.shown = {m} /\ w.pipe_ctx = {}
        /\ w.waiting = c.waiting /\ w.broken = c.broken
    BY <1>0, <1>1 DEF OpenMenu, MenuState
  <2> HIDE DEF w
  <2>3. /\ ((d.scene \cup {m}) \ d.children) \ Pipes
              = ((d.scene \ d.children) \ Pipes) \cup {m}
        /\ ({m} \ d.children) \ Pipes = {m}
    BY <1>5
  <2>4. /\ e \in MenuState /\ e.current = w.current /\ e.menus = w.menus
        /\ e.children = w.children /\ e.items = w.items /\ e.selection = w.selection
        /\ e.scene = w.scene /\ e.shown = w.shown /\ e.pipe_ctx = w.pipe_ctx
        /\ (e.waiting <=> w.waiting) /\ e.selected = w.selected /\ (e.broken <=> w.broken)
    <3>1. u.children \cap u.pipe_ctx = {} BY <2>1
    <3> QED BY <1>1, <1>2, <2>1, <2>2, <2>3, <3>1
  <2>5. e = w BY <2>2, <2>4, SameMenus
  <2> QED BY <1>5, <2>5 DEF RootOpened, w, c, e
<1> QED BY <1>3, <1>4, <1>5 DEF RootOpened

\* menu_execute_item(): whichever menu of menu.xml its actions show
LEMMA ItemExecuted ==
  ASSUME PInv(menu), ExecuteItem
  PROVE PInv(menu')
<1> DEFINE d == [Close(menu, menu.current) EXCEPT !.current = None]
<1>1. menu.current # None
  <2>1. menu.current = None => menu.shown = {} BY NothingOpen
  <2> QED BY <2>1 DEF ExecuteItem
<1>2. PInv(ResetPipemenus(d)) /\ ResetPipemenus(d).current = None BY <1>1, CloseAll
<1>3. CASE menu' = ResetPipemenus(d) BY <1>2, <1>3
<1>4. ASSUME NEW m \in Static, NEW s \in RootOpened(d, m), menu' = ResetPipemenus(s)
      PROVE PInv(menu')
  <2>1. /\ d \in MenuState /\ d.children = menu.children /\ d.shown = {} /\ d.pipe_ctx = {}
    BY <1>1, TreeCloses
  <2>2. m \notin d.children
    <3>1. menu.children \subseteq Children BY DEF PInv, MenusExist
    <3> QED BY <2>1, <3>1, PipeMenuAssumption
  <2> HIDE DEF d
  <2>3. menu' \in RootOpened(ResetPipemenus(d), m)
    BY <1>4, <2>1, <2>2, ResetCommutes
  <2>4. m \in ResetPipemenus(d).menus BY <1>2 DEF PInv, MenusExist
  <2> QED BY <1>2, <2>3, <2>4, RootOpens
<1>5. CASE menu' = Broken BY <1>5, InitialMenus
<1> QED BY <1>3, <1>4, <1>5 DEF ExecuteItem

\* menu_process_item_selection() of an item that is no separator, while no program is
\* awaited: what was open below the menu closes, and the menu of the item opens, or its
\* program starts, or it does not.
LEMMA SelectionFields ==
  ASSUME NEW m \in Menus, NEW t \in Menus \cup {Plain}, PInv(menu), m \in menu.shown,
         ProcessItemSelection(m, t)
  PROVE /\ menu' \in MenuState
        /\ menu'.current = menu.current /\ menu'.menus = menu.menus
        /\ menu'.children = menu.children /\ menu'.items = menu.items
        /\ \A x \in Menus : menu'.selection[x] =
              IF x = m THEN (IF t = Plain THEN None ELSE t)
              ELSE IF x \in Below(menu, m) THEN None ELSE menu.selection[x]
        /\ \/ /\ menu'.scene = menu.scene /\ menu'.shown = menu.shown \ Below(menu, m)
              /\ menu'.pipe_ctx = {} /\ ~menu'.waiting
           \/ /\ t \in Pipes \ menu.scene
              /\ menu'.scene = menu.scene /\ menu'.shown = menu.shown \ Below(menu, m)
              /\ menu'.pipe_ctx = {t} /\ menu'.waiting
           \/ /\ t # Plain
              /\ menu'.scene = menu.scene \cup {t}
              /\ menu'.shown = (menu.shown \ Below(menu, m)) \cup {t}
              /\ menu'.pipe_ctx = {} /\ ~menu'.waiting
<1> DEFINE s == [menu EXCEPT !.selected = <<m, t>>]
           v == IF s.selection[m] = None THEN s ELSE Close(s, s.selection[m])
           D == Below(menu, m)
<1>1. menu \in MenuState /\ ~menu.waiting /\ menu.pipe_ctx = {}
  <2>1. menu \in MenuState /\ AwaitsOne(menu) /\ ~menu.waiting
    BY DEF PInv, ProcessItemSelection
  <2> QED BY <2>1 DEF AwaitsOne
<1>2. /\ s \in MenuState /\ s.current = menu.current /\ s.menus = menu.menus
      /\ s.children = menu.children /\ s.items = menu.items /\ s.scene = menu.scene
      /\ s.shown = menu.shown /\ s.pipe_ctx = {} /\ s.selection = menu.selection
      /\ s.waiting = menu.waiting
  BY <1>1 DEF MenuState
<1>3. \E u \in IF t = Plain THEN {v} ELSE Opened(v, t) :
         menu' = [u EXCEPT !.selection[m] = IF t = Plain THEN None ELSE t]
  <2>1. t # Separator BY PipeMenuAssumption
  <2> QED BY <2>1 DEF ProcessItemSelection
<1> HIDE DEF s
<1>4. /\ v \in MenuState /\ v.current = menu.current /\ v.menus = menu.menus
      /\ v.children = menu.children /\ v.items = menu.items /\ v.scene = menu.scene
      /\ v.shown = menu.shown \ D /\ v.pipe_ctx = {} /\ ~v.waiting
      /\ \A x \in Menus : v.selection[x] = IF x \in D THEN None ELSE menu.selection[x]
  <2>1. CASE menu.selection[m] = None
    <3>1. D = {} /\ v = s BY <1>2, <2>1 DEF Below
    <3> HIDE DEF D, v
    <3> QED BY <1>1, <1>2, <3>1
  <2>2. CASE menu.selection[m] # None
    <3>1. menu.selection[m] \in Menus BY <1>1, <2>2 DEF MenuState
    <3>2. D = Chain(s, s.selection[m])
      BY <1>2, <2>2, ChainSame DEF Below
    <3>3. v = Close(s, s.selection[m]) BY <1>2, <2>2
    <3>4. D \cap s.pipe_ctx = {} BY <1>2
    <3> DEFINE b == s.selection[m]
    <3>5. b \in Menus BY <1>2, <3>1
    <3> DEFINE w == Close(s, b)
               C == Chain(s, b)
    <3>6. D = C /\ v = w BY <3>2, <3>3
    <3> HIDE DEF D, v, b
    <3>7. s \in MenuState BY <1>2
    <3>8. /\ w \in MenuState /\ w.current = s.current /\ w.menus = s.menus
          /\ w.children = s.children /\ w.items = s.items /\ w.scene = s.scene
          /\ w.shown = s.shown \ C /\ w.pipe_ctx = s.pipe_ctx \ C
          /\ \A x \in Menus : w.selection[x] = IF x \in C THEN None ELSE s.selection[x]
      BY <3>5, <3>7, CloseFields, SMTT(30)
    <3>9. w.waiting <=> s.waiting /\ C \cap s.pipe_ctx = {}
      BY <3>5, <3>7, CloseFields
    <3> HIDE DEF w, C
    <3>10. /\ v \in MenuState /\ v.current = s.current /\ v.menus = s.menus
           /\ v.children = s.children /\ v.items = s.items /\ v.scene = s.scene
           /\ v.shown = s.shown \ D /\ v.pipe_ctx = s.pipe_ctx \ D
           /\ \A x \in Menus : v.selection[x] = IF x \in D THEN None ELSE s.selection[x]
           /\ v.waiting <=> s.waiting /\ D \cap s.pipe_ctx = {}
      BY <3>6, <3>8, <3>9
    <3>11. ~v.waiting BY <1>1, <1>2, <3>10
    <3> QED BY <1>2, <3>10, <3>11
  <2> QED BY <2>1, <2>2
<1> HIDE DEF v
<1> DEFINE n == IF t = Plain THEN None ELSE t
<1>5. n \in Menus \cup {None} OBVIOUS
<1>6. PICK u \in IF t = Plain THEN {v} ELSE Opened(v, t) :
         menu' = [u EXCEPT !.selection[m] = n]
  BY <1>3
<1>7. /\ u \in MenuState /\ u.current = menu.current /\ u.menus = menu.menus
      /\ u.children = menu.children /\ u.items = menu.items /\ u.selection = v.selection
      /\ \/ /\ u.scene = menu.scene /\ u.shown = menu.shown \ D
            /\ u.pipe_ctx = {} /\ ~u.waiting
         \/ /\ t \in Pipes \ menu.scene
            /\ u.scene = menu.scene /\ u.shown = menu.shown \ D
            /\ u.pipe_ctx = {t} /\ u.waiting
         \/ /\ t # Plain
            /\ u.scene = menu.scene \cup {t} /\ u.shown = (menu.shown \ D) \cup {t}
            /\ u.pipe_ctx = {} /\ ~u.waiting
  <2> HIDE DEF D
  <2>1. CASE u = v BY <1>4, <2>1
  <2>2. CASE t \in Pipes \ menu.scene /\ u = OpenPipemenu(v, t)
    <3>1. t \in Menus BY <2>2, PipeMenuAssumption
    <3>2. u.waiting = TRUE BY <1>4, <2>2 DEF OpenPipemenu, MenuState
    <3>3. u.pipe_ctx = {t} BY <1>4, <2>2 DEF OpenPipemenu, MenuState
    <3>4. u \in MenuState BY <1>4, <2>2, <3>1 DEF OpenPipemenu, MenuState
    <3>5. /\ u.current = v.current /\ u.menus = v.menus /\ u.children = v.children
          /\ u.items = v.items /\ u.selection = v.selection
          /\ u.scene = v.scene /\ u.shown = v.shown
      BY <1>4, <2>2 DEF OpenPipemenu, MenuState
    <3> QED BY <1>4, <2>2, <3>2, <3>3, <3>4, <3>5
  <2>3. CASE t # Plain /\ u = OpenMenu(v, t)
    <3>1. u \in MenuState BY <1>4, <2>3 DEF OpenMenu, MenuState
    <3>2. /\ u.current = v.current /\ u.menus = v.menus /\ u.children = v.children
          /\ u.items = v.items /\ u.selection = v.selection /\ u.pipe_ctx = v.pipe_ctx
          /\ u.scene = v.scene \cup {t} /\ u.shown = v.shown \cup {t}
          /\ u.waiting = v.waiting
      BY <1>4, <2>3 DEF OpenMenu, MenuState
    <3> QED BY <1>4, <2>3, <3>1, <3>2
  <2> QED BY <1>4, <1>6, <2>1, <2>2, <2>3 DEF Opened
<1> HIDE DEF n
<1>8. /\ menu' \in MenuState
      /\ menu'.current = u.current /\ menu'.menus = u.menus
      /\ menu'.children = u.children /\ menu'.items = u.items
      /\ menu'.selection = [u.selection EXCEPT ![m] = n]
      /\ menu'.scene = u.scene /\ menu'.shown = u.shown
      /\ menu'.pipe_ctx = u.pipe_ctx /\ menu'.waiting = u.waiting
  BY <1>5, <1>6, <1>7 DEF MenuState
<1>9. \A x \in Menus : menu'.selection[x] =
         IF x = m THEN n ELSE IF x \in D THEN None ELSE menu.selection[x]
  <2>1. u.selection \in [Menus -> Menus \cup {None}] BY <1>7 DEF MenuState
  <2> HIDE DEF D
  <2> QED BY <1>4, <1>7, <1>8, <2>1
<1> QED BY <1>7, <1>8, <1>9 DEF n

\* The menu that shows the item is in the tree that is open, so that what is selected in
\* it is, too; it had no program of its own to wait for.
LEMMA ItemSelected ==
  ASSUME NEW m \in Menus, NEW t \in Menus \cup {Plain, Separator}, PInv(menu),
         ProcessItemSelection(m, t)
  PROVE PInv(menu')
<1>1. /\ menu \in MenuState /\ ~menu.waiting /\ menu.pipe_ctx = {} /\ m \in menu.shown
      /\ MenusExist(menu) /\ ShowsOpen(menu) /\ m \in OpenOf(menu)
      /\ menu.current # None
  <2>1. /\ menu \in MenuState /\ AwaitsOne(menu) /\ ~menu.waiting /\ m \in menu.shown
        /\ MenusExist(menu) /\ ShowsOpen(menu)
    BY DEF PInv, ProcessItemSelection
  <2>2. menu.pipe_ctx = {} BY <2>1 DEF AwaitsOne
  <2>3. m \in OpenOf(menu) BY <2>1 DEF ShowsOpen
  <2>4. menu.current # None BY <2>3 DEF OpenOf
  <2> QED BY <2>1, <2>2, <2>3, <2>4
<1>2. CASE t = Separator
  <2>1. menu' = [menu EXCEPT !.selected = <<m, t>>]
    BY <1>2 DEF ProcessItemSelection
  <2>2. /\ menu' \in MenuState
        /\ menu'.current = menu.current /\ menu'.menus = menu.menus
        /\ menu'.children = menu.children /\ menu'.items = menu.items
        /\ menu'.selection = menu.selection /\ menu'.scene = menu.scene
        /\ menu'.shown = menu.shown /\ menu'.pipe_ctx = {}
        /\ menu'.waiting = menu.waiting
    BY <1>1, <2>1 DEF MenuState
  <2>3. OpenOf(menu') = OpenOf(menu) BY <2>2, ChainSame DEF OpenOf
  <2>4. MenusExist(menu') BY <1>1, <2>2 DEF MenusExist
  <2>5. AwaitsOne(menu') BY <1>1, <2>2 DEF AwaitsOne
  <2>6. ShowsOpen(menu') BY <1>1, <2>2, <2>3 DEF ShowsOpen
  <2>7. ClosedIsClean(menu') BY <1>1, <2>2 DEF ClosedIsClean
  <2> QED BY <2>2, <2>4, <2>5, <2>6, <2>7 DEF PInv
<1>3. CASE t # Separator
  <2> DEFINE D == Below(menu, m)
             n == IF t = Plain THEN None ELSE t
  <2>1. /\ menu' \in MenuState
        /\ menu'.current = menu.current /\ menu'.menus = menu.menus
        /\ menu'.children = menu.children /\ menu'.items = menu.items
        /\ \A x \in Menus : menu'.selection[x] =
              IF x = m THEN n ELSE IF x \in D THEN None ELSE menu.selection[x]
        /\ \/ /\ menu'.scene = menu.scene /\ menu'.shown = menu.shown \ D
              /\ menu'.pipe_ctx = {} /\ ~menu'.waiting
           \/ /\ t \in Pipes \ menu.scene
              /\ menu'.scene = menu.scene /\ menu'.shown = menu.shown \ D
              /\ menu'.pipe_ctx = {t} /\ menu'.waiting
           \/ /\ t # Plain
              /\ menu'.scene = menu.scene \cup {t} /\ menu'.shown = (menu.shown \ D) \cup {t}
              /\ menu'.pipe_ctx = {} /\ ~menu'.waiting
    <3>1. t \in Menus \cup {Plain} BY <1>3
    <3> QED BY <1>1, <3>1, SelectionFields
  <2>2. t \notin {Plain, Separator} => t \in menu.items[m]
    BY DEF ProcessItemSelection
  <2>3. \A x \in Pipes : x # Plain /\ x # None BY PipeMenuAssumption
  <2>4. n \in Menus \cup {None} /\ n \in menu.items[m] \cup {None}
    BY <1>3, <2>2, PipeMenuAssumption
  <2>5. t # Plain => n = t OBVIOUS
  <2>6. m \in Chain(menu, menu.current) BY <1>1 DEF OpenOf
  <2>7. menu.current \in Menus BY <1>1 DEF MenuState
  <2>8. Nested(menu) BY <1>1, SelectedIsNested
  <2>9. menu'.selection \in Selection BY <2>1 DEF MenuState, Selection
  <2>10. Moved(menu, menu', m, n) BY <2>1, <2>9 DEF Moved
  <2> HIDE DEF D, n
  <2>11. /\ m \notin D
         /\ Chain(menu, menu.current) \ D \subseteq Chain(menu', menu.current)
         /\ n \in Chain(menu', menu.current) \cup {None}
    <3>1. n \in Menus \cup {None} BY <2>4
    <3> QED BY <3>1, <2>6, <2>7, <2>8, <2>10, ChainMoves DEF D
  <2>12. OpenOf(menu) \ D \subseteq OpenOf(menu') /\ n \in OpenOf(menu') \cup {None}
    BY <1>1, <2>1, <2>11 DEF OpenOf
  <2>13. t \in Menus => t = n /\ t \in OpenOf(menu') /\ t \in menu.items[m]
    BY <1>3, <2>2, <2>5, <2>12, PipeMenuAssumption
  <2>14. MenusExist(menu')
    <3>1. /\ menu'.scene \subseteq menu'.menus /\ menu.scene \subseteq menu'.scene
          /\ menu'.pipe_ctx \subseteq Pipes \cap menu'.menus
      <4>1. menu.scene \subseteq menu.menus /\ menu.items[m] \subseteq menu.menus
        BY <1>1 DEF MenusExist
      <4>2. t \in Menus => t \in menu.menus BY <2>13, <4>1
      <4>3. t \in Pipes => t \in Menus BY PipeMenuAssumption
      <4>4. t # Plain => t \in Menus BY <1>3
      <4> QED BY <2>1, <4>1, <4>2, <4>3, <4>4
    <3>2. \A x \in Menus : menu'.selection[x] \in menu'.items[x] \cup {None}
      <4>1. \A x \in Menus : menu.selection[x] \in menu.items[x] \cup {None}
        BY <1>1 DEF MenusExist
      <4> QED BY <2>1, <2>4, <4>1
    <3> QED BY <1>1, <2>1, <3>1, <3>2 DEF MenusExist
  <2>15. AwaitsOne(menu')
    <3>1. \A x \in menu'.pipe_ctx : x = t /\ t \in Pipes \ menu.scene /\ menu'.scene = menu.scene
      BY <2>1
    <3>2. menu'.waiting <=> menu'.pipe_ctx # {} BY <2>1
    <3>3. \A x \in menu'.pipe_ctx : x \in OpenOf(menu')
      BY <2>13, <3>1, PipeMenuAssumption
    <3> QED BY <3>1, <3>2, <3>3 DEF AwaitsOne
  <2>16. ShowsOpen(menu')
    <3>1. menu.shown \subseteq menu.scene \cap OpenOf(menu) BY <1>1 DEF ShowsOpen
    <3>2. menu.shown \ D \subseteq menu'.shown BY <2>1
    <3>3. menu'.shown \subseteq menu'.scene \cap OpenOf(menu')
      <4>1. t # Plain => t \in OpenOf(menu') BY <1>3, <2>13
      <4> QED BY <2>1, <2>12, <3>1, <4>1
    <3>4. \A x \in Menus \ menu'.shown : menu'.selection[x] = None
      <4>1. \A x \in Menus \ menu.shown : menu.selection[x] = None BY <1>1 DEF ShowsOpen
      <4>2. m \in menu'.shown BY <1>1, <2>11, <3>2
      <4> QED BY <2>1, <3>2, <4>1, <4>2
    <3> QED BY <3>3, <3>4 DEF ShowsOpen
  <2>17. ClosedIsClean(menu') BY <1>1, <2>1 DEF ClosedIsClean
  <2> QED BY <2>1, <2>14, <2>15, <2>16, <2>17 DEF PInv
<1> QED BY <1>2, <1>3

----------------------------------------------------------------------------
(* The specification *)

\* Every step keeps the invariant.
LEMMA MenuStep ==
  ASSUME PInv(menu), [MenuNext]_menu
  PROVE PInv(menu')
<1>1. CASE UNCHANGED menu BY <1>1
<1>2. ASSUME NEW m \in Menus, OpenRoot(m) PROVE PInv(menu')
  BY <1>2, RootOpens DEF OpenRoot
<1>3. ASSUME NEW m \in Menus, NEW t \in Menus \cup {Plain, Separator},
             ProcessItemSelection(m, t)
      PROVE PInv(menu')
  BY <1>3, ItemSelected
<1>4. ASSUME NEW m \in Pipes, NEW listed \in Outputs[m], ReadOutput(m, listed)
      PROVE PInv(menu')
  BY <1>4, OutputIsShown
<1>5. ASSUME NEW m \in Pipes, ReadGarbage(m) PROVE PInv(menu')
  BY <1>5, ContextGoes DEF ReadGarbage
<1>6. ASSUME NEW m \in Pipes, Timeout(m) PROVE PInv(menu')
  BY <1>6, ContextGoes DEF Timeout
<1>7. CASE CloseRoot
  BY <1>7, CloseAll DEF CloseRoot
<1>8. CASE ExecuteItem
  BY <1>8, ItemExecuted
<1>9. CASE Reconfigure
  <2>1. menu.selected \in Menus \X (Menus \cup {Plain, Separator}) \cup {None}
    BY DEF PInv, MenuState
  <2> QED BY <1>9, <2>1, InitialMenus DEF Reconfigure
<1> QED BY <1>1, <1>2, <1>3, <1>4, <1>5, <1>6, <1>7, <1>8, <1>9 DEF MenuNext

\* THEOREM: the open menus form one tree, in which at most one program is awaited.
THEOREM PInvHolds == MenuSpec => []PInv(menu)
<1>1. MenuInit => PInv(menu)
  BY InitialMenus DEF MenuInit
<1>2. PInv(menu) /\ [MenuNext]_menu => PInv(menu)' BY MenuStep
<1> QED BY <1>1, <1>2, PTL DEF MenuSpec

\* The program that is awaited writes for a menu that exists and is open, and the flag
\* says so.
THEOREM OneIsAwaitedHolds == MenuSpec => []OneIsAwaited
<1>1. PInv(menu) => OneIsAwaited
  <2> SUFFICES ASSUME PInv(menu) PROVE MenuTypeOK /\ WaitingHasOwner
    BY DEF OneIsAwaited
  <2>1. menu \in MenuState /\ MenusExist(menu) /\ AwaitsOne(menu) /\ ShowsOpen(menu)
    BY DEF PInv
  <2>2. OpenTree = OpenOf(menu) BY DEF OpenTree, OpenOf
  <2>3. WaitingHasOwner BY <2>1, <2>2 DEF WaitingHasOwner, AwaitsOne
  <2>4. menu.children \cup menu.scene \cup menu.pipe_ctx \subseteq menu.menus
    BY <2>1 DEF MenusExist
  <2>5. UNION { menu.items[m] : m \in Menus } \subseteq menu.menus
    BY <2>1 DEF MenusExist
  <2>6. { menu.selection[m] : m \in Menus } \subseteq menu.menus \cup {None}
    BY <2>1 DEF MenusExist
  <2>7. {menu.current} \subseteq menu.menus \cup {None} BY <2>1 DEF MenusExist
  <2>8. menu.shown \subseteq menu.scene BY <2>1 DEF ShowsOpen
  <2>9. menu.children \cup menu.scene \cup menu.pipe_ctx
           \cup (UNION { menu.items[m] : m \in Menus })
           \cup { menu.selection[m] : m \in Menus } \cup {menu.current}
          \subseteq menu.menus \cup {None}
    <3> SUFFICES ASSUME NEW x \in menu.children \cup menu.scene \cup menu.pipe_ctx
                                    \cup (UNION { menu.items[m] : m \in Menus })
                                    \cup { menu.selection[m] : m \in Menus }
                                    \cup {menu.current}
                 PROVE x \in menu.menus \cup {None}
      OBVIOUS
    <3>1. CASE x \in menu.children \cup menu.scene \cup menu.pipe_ctx BY <2>4, <3>1
    <3>2. CASE x \in (UNION { menu.items[m] : m \in Menus }) BY <2>5, <3>2, Zenon
    <3>3. CASE x \in { menu.selection[m] : m \in Menus } BY <2>6, <3>3, Zenon
    <3>4. CASE x \in {menu.current} BY <2>7, <3>4
    <3> QED BY <3>1, <3>2, <3>3, <3>4
  <2>10. MenuTypeOK BY <2>1, <2>8, <2>9 DEF MenuTypeOK
  <2> QED BY <2>3, <2>10
<1> QED BY <1>1, PInvHolds, PTL

\* As long as the process goes on, only the open tree counts, also when an item's actions
\* have opened it: nothing else is shown, nothing that a program wrote is left when it is
\* closed, and a program is awaited for an empty menu.
THEOREM OnlyTheOpenTreeHolds == MenuSpec => []OnlyTheOpenTree
<1>1. PInv(menu) => OnlyTheOpenTree
  <2> SUFFICES ASSUME PInv(menu) PROVE ShownIsOpen /\ NothingIsLeft /\ StartsFresh
    BY DEF OnlyTheOpenTree
  <2>1. MenusExist(menu) /\ AwaitsOne(menu) /\ ClosedIsClean(menu) /\ ShowsOpen(menu)
    BY DEF PInv
  <2>2. OpenTree = OpenOf(menu) BY DEF OpenTree, OpenOf
  <2>3. ShownIsOpen BY <2>1, <2>2 DEF ShownIsOpen, ShowsOpen
  <2>4. NothingIsLeft
    <3> SUFFICES ASSUME menu.current = None
                 PROVE menu.menus = Static /\ \A m \in Pipes : menu.items[m] = {}
      BY DEF NothingIsLeft
    <3>1. menu.children = {} /\ menu.scene \cap Pipes = {} BY <2>1 DEF ClosedIsClean
    <3> QED BY <2>1, <3>1 DEF MenusExist
  <2>5. StartsFresh
    <3> SUFFICES ASSUME NEW m \in menu.pipe_ctx
                 PROVE m \notin menu.scene /\ menu.items[m] = {}
      BY DEF StartsFresh
    <3>1. m \notin menu.scene BY <2>1 DEF AwaitsOne
    <3> QED BY <2>1, <3>1 DEF MenusExist
  <2> QED BY <2>3, <2>4, <2>5
<1> QED BY <1>1, PInvHolds, PTL

----------------------------------------------------------------------------
(* The input method relay *)

\* The list of text inputs: of any of them, one is first.
Listed(r) ==
    /\ r.newer \subseteq r.text_inputs \X r.text_inputs
    /\ \A t, u \in r.text_inputs :
          t # u => (<<t, u>> \in r.newer <=> <<u, t>> \notin r.newer)
    /\ \A S \in SUBSET r.text_inputs : S # {} => \E t \in S : Newest(r, t, S)

\* A text input that does not exist is nowhere and not enabled.
Gone(r) ==
    \A t \in TextInputs \ r.text_inputs : ~r.enabled[t] /\ r.entered[t] = None

Meets(r, t) ==
    r.input_method /\ r.focused_surface # None /\ Client[t] = Client[r.focused_surface]

Entered(r) ==
    \A t \in r.text_inputs : r.entered[t] = IF Meets(r, t) THEN r.focused_surface ELSE None

\* The active text input is one that can be, if any can.
Active(r) ==
    /\ r.active_text_input \in Ready(r) \cup {None}
    /\ r.active_text_input = None => Ready(r) = {} \/ ~r.input_method
    /\ ~r.input_method => r.active_text_input = None

Agreed(r) ==
    /\ r.input_method => r.notified = r.active_text_input
    /\ ~r.input_method => r.notified = None /\ r.state = None /\ r.popups = {}
    /\ r.state \in {r.active_text_input, None}

\* A program that has read all knows whom it was activated for, and what it
\* then writes is for that one, until it is told something else.
Understood(r) ==
    /\ r.in_step => r.view = r.notified
    /\ r.fresh => r.text = r.notified

\* Popups are shown as long as the input method is active, and placed.
Shown(r) ==
    /\ r.buffers \subseteq r.popups
    /\ r.mapped = IF r.notified = None THEN {} ELSE r.buffers
    /\ r.settled => \A p \in r.mapped : r.placed[p] = <<r.active_text_input, r.focused_surface>>

\* What holds while the active text input is looked for
Sound(r) ==
    r \in Relay /\ Listed(r) /\ Entered(r) /\ Agreed(r) /\ Understood(r) /\ Shown(r)

Inv(r) == Sound(r) /\ Gone(r) /\ Active(r)

\* The inductive invariant
ImeInv == Inv(relay)
-----------------------------------------------------------------------------
(* Operators *)

\* The fields that decide whom the relay serves
SameSeat(r, s) ==
    /\ s.focused_surface = r.focused_surface /\ s.text_inputs = r.text_inputs
    /\ s.newer = r.newer /\ s.entered = r.entered /\ s.enabled = r.enabled
    /\ s.input_method = r.input_method

\* If they are the same, so are the text inputs that are ready, and their order.
LEMMA SameSeatSame ==
  ASSUME NEW r, NEW s, SameSeat(r, s)
  PROVE /\ Ready(s) = Ready(r)
        /\ Listed(r) => Listed(s)
        /\ Entered(r) => Entered(s)
        /\ Gone(r) => Gone(s)
  BY DEF SameSeat, Ready, Listed, Entered, Meets, Gone, Newest

LEMMA SendDoneFields ==
  ASSUME NEW r \in Relay
  PROVE /\ SendDone(r) \in Relay
        /\ SameSeat(r, SendDone(r))
        /\ SendDone(r).active_text_input = r.active_text_input
        /\ SendDone(r).notified = r.notified /\ SendDone(r).state = r.state
        /\ ~SendDone(r).in_step /\ ~SendDone(r).fresh
        /\ SendDone(r).mapped = IF r.notified = None THEN {} ELSE r.mapped \cup r.buffers
        /\ SendDone(r).buffers = r.buffers /\ SendDone(r).popups = r.popups
        /\ SendDone(r).placed = r.placed /\ SendDone(r).settled = r.settled
<1> DEFINE s == SendDone(r)
<1>1. s \in Relay
  <2>1. r.mapped \subseteq Popups /\ r.buffers \subseteq Popups BY DEF Relay
  <2>2. ASSUME NEW m \in SUBSET Popups
        PROVE [r EXCEPT !.in_step = FALSE, !.fresh = FALSE, !.mapped = m] \in Relay
    BY ZenonT(60) DEF Relay
  <2> QED BY <2>1, <2>2 DEF SendDone
<1>2. SameSeat(r, s) BY DEF SendDone, Relay, SameSeat
<1>3. s.active_text_input = r.active_text_input /\ s.notified = r.notified /\ s.state = r.state
  BY DEF SendDone, Relay
<1>4. ~s.in_step /\ ~s.fresh BY DEF SendDone, Relay
<1>5. s.mapped = IF r.notified = None THEN {} ELSE r.mapped \cup r.buffers
  BY DEF SendDone, Relay
<1>6. /\ s.buffers = r.buffers /\ s.popups = r.popups
      /\ s.placed = r.placed /\ s.settled = r.settled
  BY DEF SendDone, Relay
<1> QED BY <1>1, <1>2, <1>3, <1>4, <1>5, <1>6

\* Activating for another text input, which is then the active one
ActivateAs(r, a) == [Activate(r, a) EXCEPT !.active_text_input = a]

\* All that was known of the former one is forgotten.
LEMMA ActivateFields ==
  ASSUME NEW r \in Relay, NEW a \in TextInputs \cup {None}
  PROVE LET s == ActivateAs(r, a)
        IN  /\ s \in Relay /\ SameSeat(r, s)
            /\ s.active_text_input = a /\ s.notified = a /\ s.state = None
            /\ ~s.in_step /\ ~s.fresh /\ ~s.settled
            /\ s.mapped = IF a = None THEN {} ELSE r.mapped \cup r.buffers
            /\ s.buffers = r.buffers /\ s.popups = r.popups
<1> DEFINE s == ActivateAs(r, a)
           q == [r EXCEPT !.notified = a, !.state = None, !.settled = FALSE]
           d == SendDone(q)
<1>1. q \in Relay BY ZenonT(60) DEF Relay
<1>2. /\ SameSeat(r, q) /\ q.notified = a /\ q.state = None /\ ~q.settled
      /\ q.mapped = r.mapped /\ q.buffers = r.buffers /\ q.popups = r.popups
  BY DEF Relay, SameSeat
<1>3. /\ d \in Relay /\ SameSeat(q, d) /\ d.notified = a /\ d.state = None
      /\ ~d.in_step /\ ~d.fresh /\ d.settled = q.settled
      /\ d.mapped = IF a = None THEN {} ELSE r.mapped \cup r.buffers
      /\ d.buffers = r.buffers /\ d.popups = r.popups
  BY <1>1, <1>2, SendDoneFields
<1>0. s = [d EXCEPT !.active_text_input = a] BY DEF Activate, ActivateAs
<1> HIDE DEF q, d, s
<1>4. s \in Relay BY <1>0, <1>3 DEF Relay
<1>5. /\ SameSeat(d, s) /\ s.active_text_input = a /\ s.notified = d.notified
      /\ s.state = d.state /\ s.in_step = d.in_step /\ s.fresh = d.fresh
      /\ s.settled = d.settled /\ s.mapped = d.mapped /\ s.buffers = d.buffers
      /\ s.popups = d.popups
  BY <1>0, <1>3 DEF Relay, SameSeat
<1>6. SameSeat(r, s) BY <1>2, <1>3, <1>5 DEF SameSeat
<1> QED BY <1>2, <1>3, <1>4, <1>5, <1>6 DEF s

\* The first of the list that is ready is found, if any is.
LEMMA FirstIsFound ==
  ASSUME NEW r \in Relay, Listed(r)
  PROVE LET a == GetActiveTextInput(r)
        IN  /\ a \in Ready(r) \cup {None}
            /\ a = None => Ready(r) = {} \/ ~r.input_method
            /\ ~r.input_method => a = None
<1>1. Ready(r) \in SUBSET r.text_inputs BY DEF Ready
<1>2. Ready(r) # {} => \E t \in Ready(r) : Newest(r, t, Ready(r)) BY <1>1 DEF Listed
<1>3. Ready(r) \subseteq TextInputs BY DEF Ready, Relay
<1>4. None \notin Ready(r) BY <1>3, ImeAssumption
<1> QED BY <1>2, <1>4 DEF GetActiveTextInput

LEMMA UpdateActiveSound ==
  ASSUME NEW r, Sound(r)
  PROVE /\ Sound(UpdateActive(r)) /\ Active(UpdateActive(r))
        /\ SameSeat(r, UpdateActive(r))
<1> DEFINE a == GetActiveTextInput(r)
           u == UpdateActive(r)
<1>1. r \in Relay /\ Listed(r) /\ Entered(r) /\ Agreed(r) /\ Understood(r) /\ Shown(r)
  BY DEF Sound
<1>2. /\ a \in Ready(r) \cup {None}
      /\ a = None => Ready(r) = {} \/ ~r.input_method
      /\ ~r.input_method => a = None
  BY <1>1, FirstIsFound
<1>3. a \in TextInputs \cup {None} BY <1>1, <1>2 DEF Ready, Relay
<1> HIDE DEF a
<1>4. SUFFICES /\ SameSeat(r, u) /\ u \in Relay /\ u.active_text_input = a
               /\ Agreed(u) /\ Understood(u) /\ Shown(u)
  BY <1>1, <1>2, SameSeatSame DEF Sound, Active, SameSeat
<1>5. CASE r.input_method /\ r.active_text_input # a
  <2>1. u = ActivateAs(r, a) BY <1>5 DEF UpdateActive, ActivateAs, a
  <2> HIDE DEF u
  <2>2. /\ u \in Relay /\ SameSeat(r, u)
        /\ u.active_text_input = a /\ u.notified = a /\ u.state = None
        /\ ~u.in_step /\ ~u.fresh /\ ~u.settled
        /\ u.mapped = IF a = None THEN {} ELSE r.mapped \cup r.buffers
        /\ u.buffers = r.buffers /\ u.popups = r.popups
    BY <1>1, <1>3, <2>1, ActivateFields
  <2>3. r.mapped \subseteq r.buffers BY <1>1 DEF Shown
  <2>4. Agreed(u) BY <1>5, <2>2 DEF Agreed, SameSeat
  <2>5. Understood(u) BY <2>2 DEF Understood
  <2>6. Shown(u) BY <1>1, <2>2, <2>3 DEF Shown
  <2> QED BY <2>2, <2>4, <2>5, <2>6
<1>6. CASE ~(r.input_method /\ r.active_text_input # a)
  <2>1. u = [r EXCEPT !.active_text_input = a] BY <1>6 DEF UpdateActive, a
  <2>2. u \in Relay BY <1>1, <1>3, <2>1 DEF Relay
  <2>3. /\ SameSeat(r, u) /\ u.active_text_input = a
        /\ u.notified = r.notified /\ u.state = r.state /\ u.popups = r.popups
    BY <1>1, <2>1 DEF Relay, SameSeat
  <2>4. /\ u.in_step = r.in_step /\ u.view = r.view /\ u.fresh = r.fresh /\ u.text = r.text
    BY <1>1, <2>1 DEF Relay
  <2>5. /\ u.buffers = r.buffers /\ u.mapped = r.mapped /\ u.settled = r.settled
        /\ u.placed = r.placed
    BY <1>1, <2>1 DEF Relay
  <2>6. Agreed(u) BY <1>1, <1>2, <1>6, <2>3 DEF Agreed, SameSeat
  <2>7. Understood(u) BY <1>1, <2>3, <2>4 DEF Understood
  <2>8. Shown(u) BY <1>1, <1>6, <2>3, <2>5 DEF Shown, Agreed, SameSeat
  <2> QED BY <2>2, <2>3, <2>6, <2>7, <2>8
<1> QED BY <1>5, <1>6

\* UpdateFocused() restores what a change of the focus, of the text inputs or
\* of the input method disturbs, and leaves all other fields alone.
SameButEntered(r, s) ==
    /\ s.focused_surface = r.focused_surface /\ s.text_inputs = r.text_inputs
    /\ s.newer = r.newer /\ s.active_text_input = r.active_text_input
    /\ s.enabled = r.enabled /\ s.input_method = r.input_method
    /\ s.notified = r.notified /\ s.state = r.state /\ s.view = r.view
    /\ s.in_step = r.in_step /\ s.text = r.text /\ s.fresh = r.fresh
    /\ s.popups = r.popups /\ s.buffers = r.buffers /\ s.mapped = r.mapped
    /\ s.placed = r.placed /\ s.settled = r.settled

LEMMA UpdateFocusedSound ==
  ASSUME NEW r \in Relay, Listed(r), Agreed(r), Understood(r), Shown(r)
  PROVE /\ Sound(UpdateFocused(r))
        /\ SameButEntered(r, UpdateFocused(r))
        /\ \A t \in TextInputs \ r.text_inputs : UpdateFocused(r).entered[t] = None
<1> DEFINE e == [ t \in TextInputs |->
                    IF t \in r.text_inputs /\ Meets(r, t) THEN r.focused_surface ELSE None ]
           s == [r EXCEPT !.entered = e]
<1>1. UpdateFocused(r) = s BY DEF UpdateFocused, Meets
<1>2. e \in [TextInputs -> Surfaces \cup {None}] BY DEF Relay
<1>3. \A t \in TextInputs : e[t] = IF t \in r.text_inputs /\ Meets(r, t)
                                   THEN r.focused_surface ELSE None
  OBVIOUS
<1> HIDE DEF e
<1>4. s \in Relay BY <1>2 DEF Relay
<1>5. SameButEntered(r, s) /\ s.entered = e BY DEF SameButEntered, Relay
<1> HIDE DEF s
<1>6. Listed(s) BY <1>5 DEF SameButEntered, Listed, Newest
<1>7. r.text_inputs \subseteq TextInputs BY DEF Relay
<1>8. Entered(s) BY <1>3, <1>5, <1>7 DEF SameButEntered, Entered, Meets
<1>9. Agreed(s) /\ Understood(s) /\ Shown(s)
  BY <1>5 DEF SameButEntered, Agreed, Understood, Shown
<1> QED BY <1>1, <1>3, <1>4, <1>5, <1>6, <1>8, <1>9 DEF Sound

\* input_method_relay_set_focus() keeps the invariant.
LEMMA SetFocusInv ==
  ASSUME NEW r, Inv(r), NEW f \in Surfaces \cup {None}
  PROVE Inv(SetFocus(r, f))
<1> DEFINE q == [r EXCEPT !.focused_surface = f, !.settled = FALSE]
           s == UpdateFocused(q)
<1>1. CASE r.focused_surface = f BY <1>1 DEF SetFocus
<1>2. CASE r.focused_surface # f
  <2>1. /\ r \in Relay /\ Listed(r) /\ Agreed(r) /\ Understood(r) /\ Shown(r) /\ Gone(r)
    BY DEF Inv, Sound
  <2>2. q \in Relay BY <2>1, ZenonT(60) DEF Relay
  <2>3. /\ q.text_inputs = r.text_inputs /\ q.newer = r.newer /\ q.enabled = r.enabled
        /\ q.active_text_input = r.active_text_input /\ q.input_method = r.input_method
        /\ q.notified = r.notified /\ q.state = r.state /\ q.view = r.view
        /\ q.in_step = r.in_step /\ q.text = r.text /\ q.fresh = r.fresh
        /\ q.popups = r.popups /\ q.buffers = r.buffers /\ q.mapped = r.mapped
        /\ ~q.settled
    BY <2>1 DEF Relay
  <2> HIDE DEF q
  <2>4. Listed(q) /\ Agreed(q) /\ Understood(q) /\ Shown(q)
    BY <2>1, <2>3 DEF Listed, Newest, Agreed, Understood, Shown
  <2>5. Sound(s) /\ SameButEntered(q, s)
        /\ \A t \in TextInputs \ q.text_inputs : s.entered[t] = None
    BY <2>2, <2>4, UpdateFocusedSound
  <2>6. Gone(s) BY <2>1, <2>3, <2>5 DEF Gone, SameButEntered
  <2> HIDE DEF s
  <2>7. Inv(UpdateActive(s)) BY <2>5, <2>6, UpdateActiveSound, SameSeatSame DEF Inv
  <2> QED BY <1>2, <2>7 DEF SetFocus, s, q
<1> QED BY <1>1, <1>2

\* What the operations on popups leave alone
SameInput(r, s) ==
    /\ SameSeat(r, s) /\ s.active_text_input = r.active_text_input
    /\ s.notified = r.notified /\ s.state = r.state /\ s.view = r.view
    /\ s.in_step = r.in_step /\ s.text = r.text /\ s.fresh = r.fresh
    /\ s.settled = r.settled

LEMMA SameInputInv ==
  ASSUME NEW r, Inv(r), NEW s \in Relay, SameInput(r, s), Shown(s),
         ~r.input_method => s.popups = {}
  PROVE Inv(s)
<1>1. /\ Listed(r) /\ Entered(r) /\ Gone(r) /\ Active(r) /\ Agreed(r) /\ Understood(r)
  BY DEF Inv, Sound
<1>2. /\ Listed(s) /\ Entered(s) /\ Gone(s) /\ Ready(s) = Ready(r)
  BY <1>1, SameSeatSame DEF SameInput
<1>3. Active(s) BY <1>1, <1>2 DEF Active, SameInput, SameSeat
<1>4. Agreed(s) BY <1>1 DEF Agreed, SameInput, SameSeat
<1>5. Understood(s) BY <1>1 DEF Understood, SameInput
<1> QED BY <1>2, <1>3, <1>4, <1>5 DEF Inv, Sound

\* Popups that are shown can be placed, as there is an active text input, and
\* it has entered the surface with the keyboard.
LEMMA ShownHasActive ==
  ASSUME NEW r, r \in Relay, Entered(r), Agreed(r), Active(r), r.notified # None
  PROVE r.input_method /\ r.active_text_input \in TextInputs /\ r.focused_surface # None
        /\ r.notified = r.active_text_input /\ r.active_text_input # None
<1>1. r.input_method /\ r.notified = r.active_text_input BY DEF Agreed
<1>2. r.active_text_input \in Ready(r) BY <1>1 DEF Active
<1>3. r.active_text_input \in r.text_inputs /\ r.entered[r.active_text_input] # None
  BY <1>2 DEF Ready
<1>4. r.focused_surface # None BY <1>3 DEF Entered, Meets
<1> QED BY <1>1, <1>3, <1>4 DEF Relay
-----------------------------------------------------------------------------
(* Actions *)

\* A new text input is the first of the list, and is not enabled.
LEMMA NewTextInputInv ==
  ASSUME ImeInv, NEW t \in TextInputs, NewTextInput(t)
  PROVE ImeInv'
<1> DEFINE r == relay
           q == [r EXCEPT !.text_inputs = @ \cup {t}, !.newer = @ \cup {t} \X r.text_inputs]
           s == UpdateFocused(q)
<1>1. /\ r \in Relay /\ Listed(r) /\ Entered(r) /\ Agreed(r) /\ Understood(r) /\ Shown(r)
      /\ Gone(r) /\ Active(r)
  BY DEF ImeInv, Inv, Sound
<1>2. t \notin r.text_inputs /\ relay' = s BY DEF NewTextInput
<1>3. q \in Relay
  <2>1. {t} \X r.text_inputs \in SUBSET (TextInputs \X TextInputs) BY <1>1 DEF Relay
  <2>2. ASSUME NEW n \in SUBSET (TextInputs \X TextInputs)
        PROVE [r EXCEPT !.text_inputs = @ \cup {t}, !.newer = @ \cup n] \in Relay
    BY <1>1, ZenonT(60) DEF Relay
  <2> QED BY <2>1, <2>2
<1>4. /\ q.text_inputs = r.text_inputs \cup {t} /\ q.newer = r.newer \cup {t} \X r.text_inputs
      /\ q.focused_surface = r.focused_surface /\ q.enabled = r.enabled
      /\ q.active_text_input = r.active_text_input /\ q.input_method = r.input_method
      /\ q.notified = r.notified /\ q.state = r.state /\ q.view = r.view
      /\ q.in_step = r.in_step /\ q.text = r.text /\ q.fresh = r.fresh
      /\ q.popups = r.popups /\ q.buffers = r.buffers /\ q.mapped = r.mapped
      /\ q.placed = r.placed /\ q.settled = r.settled
  BY <1>1 DEF Relay
<1> HIDE DEF q
<1>5. Listed(q)
  <2>1. \A u, v \in q.text_inputs :
           <<u, v>> \in q.newer <=> <<u, v>> \in r.newer \/ (u = t /\ v \in r.text_inputs)
    BY <1>4
  <2>2. r.newer \subseteq r.text_inputs \X r.text_inputs BY <1>1 DEF Listed
  <2>3. \A u : <<t, u>> \notin r.newer /\ <<u, t>> \notin r.newer BY <1>2, <2>2
  <2>4. q.newer \subseteq q.text_inputs \X q.text_inputs BY <1>4, <2>2
  <2>5. ASSUME NEW u \in q.text_inputs, NEW v \in q.text_inputs, u # v
        PROVE <<u, v>> \in q.newer <=> <<v, u>> \notin q.newer
    BY <1>1, <1>2, <1>4, <2>1, <2>3, <2>5 DEF Listed
  <2>6. ASSUME NEW S \in SUBSET q.text_inputs, S # {}
        PROVE \E u \in S : Newest(q, u, S)
    <3>1. CASE t \in S BY <1>4, <2>1, <3>1 DEF Newest
    <3>2. CASE t \notin S
      <4>1. S \in SUBSET r.text_inputs BY <1>4, <3>2
      <4>2. PICK u \in S : Newest(r, u, S) BY <1>1, <2>6, <4>1 DEF Listed
      <4> QED BY <1>4, <4>2 DEF Newest
    <3> QED BY <3>1, <3>2
  <2> QED BY <2>4, <2>5, <2>6 DEF Listed
<1>6. Agreed(q) /\ Understood(q) /\ Shown(q) BY <1>1, <1>4 DEF Agreed, Understood, Shown
<1>7. Sound(s) /\ SameButEntered(q, s)
      /\ \A u \in TextInputs \ q.text_inputs : s.entered[u] = None
  BY <1>3, <1>5, <1>6, UpdateFocusedSound
<1> HIDE DEF s
<1>8. Gone(s) BY <1>1, <1>4, <1>7 DEF Gone, SameButEntered
<1>9. Ready(s) = Ready(r)
  <2>1. ~s.enabled[t] BY <1>1, <1>2, <1>4, <1>7 DEF SameButEntered, Gone
  <2>2. s.enabled = r.enabled BY <1>4, <1>7 DEF SameButEntered
  <2>3. \A u \in r.text_inputs : s.entered[u] = r.entered[u]
    BY <1>1, <1>4, <1>7 DEF SameButEntered, Entered, Meets, Sound
  <2>4. s.text_inputs = r.text_inputs \cup {t} BY <1>4, <1>7 DEF SameButEntered
  <2> QED BY <2>1, <2>2, <2>3, <2>4 DEF Ready
<1>10. Active(s) BY <1>1, <1>4, <1>7, <1>9 DEF Active, SameButEntered
<1> QED BY <1>2, <1>7, <1>8, <1>10 DEF ImeInv, Inv

\* The state is sent for the active text input, after the popups were placed.
LEMMA SendPlacedInv ==
  ASSUME NEW r, Inv(r), r.active_text_input # None
  PROVE Inv(SendState(PlacePopups(r, Popups)))
<1>1. /\ r \in Relay /\ Entered(r) /\ Agreed(r) /\ Understood(r) /\ Shown(r) /\ Active(r)
  BY DEF Inv, Sound
<1>2. r.input_method /\ r.notified # None BY <1>1 DEF Active, Agreed
<1>3. /\ r.active_text_input \in TextInputs /\ r.focused_surface # None
      /\ r.notified = r.active_text_input
  BY <1>1, <1>2, ShownHasActive
<1>4. r.focused_surface \in Surfaces /\ r.mapped \subseteq Popups BY <1>1, <1>3 DEF Relay
<1> DEFINE at == <<r.active_text_input, r.focused_surface>>
           L == [ p \in Popups |-> IF p \in Popups \cap r.mapped THEN at ELSE r.placed[p] ]
           q == [r EXCEPT !.placed = L]
           d == [q EXCEPT !.state = q.active_text_input, !.settled = TRUE]
           s == SendDone(d)
<1>5. PlacePopups(r, Popups) = q BY <1>3 DEF PlacePopups
<1>6. /\ L \in [Popups -> (TextInputs \X Surfaces) \cup {None}]
      /\ \A p \in r.mapped : L[p] = at
  BY <1>1, <1>3, <1>4 DEF Relay
<1> HIDE DEF L
<1>7. q \in Relay /\ q.placed = L /\ SameInput(r, q)
      /\ q.mapped = r.mapped /\ q.buffers = r.buffers /\ q.popups = r.popups
  BY <1>1, <1>6 DEF Relay, SameInput, SameSeat
<1> HIDE DEF q
<1>8. /\ d \in Relay /\ d.placed = L /\ SameSeat(q, d)
      /\ d.active_text_input = q.active_text_input /\ d.notified = q.notified
      /\ d.state = q.active_text_input /\ d.settled
      /\ d.mapped = q.mapped /\ d.buffers = q.buffers /\ d.popups = q.popups
  BY <1>7 DEF Relay, SameSeat
<1> HIDE DEF d
<1>9. /\ s \in Relay /\ s.placed = L /\ SameSeat(d, s)
      /\ s.active_text_input = d.active_text_input /\ s.notified = d.notified
      /\ s.state = d.state /\ ~s.in_step /\ ~s.fresh /\ s.settled
      /\ s.mapped = IF d.notified = None THEN {} ELSE d.mapped \cup d.buffers
      /\ s.buffers = d.buffers /\ s.popups = d.popups
  BY <1>8, SendDoneFields
<1> HIDE DEF s
<1>10. SameSeat(r, s) BY <1>7, <1>8, <1>9 DEF SameInput, SameSeat
<1>11. /\ Listed(s) /\ Entered(s) /\ Gone(s) /\ Ready(s) = Ready(r)
  BY <1>10, SameSeatSame DEF Inv, Sound
<1>12. /\ s.active_text_input = r.active_text_input /\ s.notified = r.notified
       /\ s.state = r.active_text_input /\ s.buffers = r.buffers /\ s.popups = r.popups
       /\ s.mapped = r.mapped \cup r.buffers
  BY <1>2, <1>7, <1>8, <1>9 DEF SameInput
<1>13. s.mapped = r.mapped /\ r.mapped = r.buffers BY <1>1, <1>2, <1>12 DEF Shown
<1>14. Active(s) BY <1>1, <1>10, <1>11, <1>12 DEF Active, SameSeat
<1>15. Agreed(s) BY <1>1, <1>2, <1>3, <1>10, <1>12 DEF Agreed, SameSeat
<1>16. Understood(s) BY <1>9 DEF Understood
<1>17. s.focused_surface = r.focused_surface BY <1>10 DEF SameSeat
<1>18. Shown(s) BY <1>1, <1>2, <1>6, <1>9, <1>12, <1>13, <1>17 DEF Shown
<1> QED BY <1>5, <1>9, <1>11, <1>14, <1>15, <1>16, <1>18 DEF Inv, Sound, SendState, s, d

LEMMA CommitTextInputInv ==
  ASSUME ImeInv, NEW t \in TextInputs, NEW b \in BOOLEAN, CommitTextInput(t, b)
  PROVE ImeInv'
<1> DEFINE changed == relay.enabled[t] # b
           r == [relay EXCEPT !.enabled[t] = b]
           s == IF changed THEN UpdateActive(r) ELSE r
<1>1. /\ relay \in Relay /\ Listed(relay) /\ Entered(relay) /\ Agreed(relay)
      /\ Understood(relay) /\ Shown(relay) /\ Gone(relay) /\ Active(relay)
  BY DEF ImeInv, Inv, Sound
<1>2. t \in relay.text_inputs
      /\ relay' = IF s.active_text_input = t /\ (b \/ ~changed)
                  THEN SendState(PlacePopups(s, Popups)) ELSE s
  BY DEF CommitTextInput
<1>3. r \in Relay /\ r.enabled = [relay.enabled EXCEPT ![t] = b] BY <1>1 DEF Relay
<1>4. /\ r.text_inputs = relay.text_inputs /\ r.newer = relay.newer
      /\ r.focused_surface = relay.focused_surface /\ r.entered = relay.entered
      /\ r.active_text_input = relay.active_text_input
      /\ r.input_method = relay.input_method
      /\ r.notified = relay.notified /\ r.state = relay.state /\ r.view = relay.view
      /\ r.in_step = relay.in_step /\ r.text = relay.text /\ r.fresh = relay.fresh
      /\ r.popups = relay.popups /\ r.buffers = relay.buffers /\ r.mapped = relay.mapped
      /\ r.placed = relay.placed /\ r.settled = relay.settled
  BY <1>1 DEF Relay
<1>5. \A u \in TextInputs : r.enabled[u] = IF u = t THEN b ELSE relay.enabled[u]
  BY <1>1, <1>3 DEF Relay
<1> HIDE DEF r
<1>6. Sound(r)
  <2>1. Listed(r) BY <1>1, <1>4 DEF Listed, Newest
  <2>2. Entered(r) BY <1>1, <1>4 DEF Entered, Meets
  <2>3. Agreed(r) BY <1>1, <1>4 DEF Agreed
  <2>4. Understood(r) BY <1>1, <1>4 DEF Understood
  <2>5. Shown(r) BY <1>1, <1>4 DEF Shown
  <2> QED BY <1>3, <2>1, <2>2, <2>3, <2>4, <2>5 DEF Sound
<1>7. Gone(r) BY <1>1, <1>2, <1>4, <1>5 DEF Gone
<1>8. Inv(s)
  <2>1. CASE changed BY <1>6, <1>7, <2>1, UpdateActiveSound, SameSeatSame DEF Inv
  <2>2. CASE ~changed
    <3>1. \A u \in TextInputs : r.enabled[u] = relay.enabled[u] BY <1>5, <2>2
    <3>2. r.text_inputs \subseteq TextInputs BY <1>3 DEF Relay
    <3>3. Ready(r) = Ready(relay) BY <1>4, <3>1, <3>2 DEF Ready
    <3>4. Active(r) BY <1>1, <1>4, <3>3 DEF Active
    <3> QED BY <1>6, <1>7, <2>2, <3>4 DEF Inv
  <2> QED BY <2>1, <2>2
<1> HIDE DEF s
<1>9. t # None BY ImeAssumption
<1>10. s.active_text_input = t => Inv(SendState(PlacePopups(s, Popups)))
  BY <1>8, <1>9, SendPlacedInv
<1> QED BY <1>2, <1>8, <1>10 DEF ImeInv

LEMMA DestroyTextInputInv ==
  ASSUME ImeInv, NEW t \in TextInputs, DestroyTextInput(t)
  PROVE ImeInv'
<1> DEFINE N == { p \in relay.newer : t \notin {p[1], p[2]} }
           q == [relay EXCEPT !.text_inputs = @ \ {t}, !.newer = N]
           r == UpdateActive(q)
           s == [r EXCEPT !.entered[t] = None, !.enabled[t] = FALSE]
<1>1. /\ relay \in Relay /\ Listed(relay) /\ Entered(relay) /\ Agreed(relay)
      /\ Understood(relay) /\ Shown(relay) /\ Gone(relay) /\ Active(relay)
  BY DEF ImeInv, Inv, Sound
<1>2. relay' = s BY DEF DestroyTextInput
<1>3. N \in SUBSET (TextInputs \X TextInputs) BY <1>1 DEF Relay
<1>4. /\ N \subseteq relay.newer
      /\ \A u, v \in relay.text_inputs \ {t} : <<u, v>> \in N <=> <<u, v>> \in relay.newer
      /\ N \subseteq (relay.text_inputs \ {t}) \X (relay.text_inputs \ {t})
  BY <1>1 DEF Listed
<1> HIDE DEF N
<1>5. q \in Relay BY <1>1, <1>3, ZenonT(60) DEF Relay
<1>6. /\ q.text_inputs = relay.text_inputs \ {t} /\ q.newer = N
      /\ q.focused_surface = relay.focused_surface /\ q.entered = relay.entered
      /\ q.enabled = relay.enabled
      /\ q.active_text_input = relay.active_text_input
      /\ q.input_method = relay.input_method
      /\ q.notified = relay.notified /\ q.state = relay.state /\ q.view = relay.view
      /\ q.in_step = relay.in_step /\ q.text = relay.text /\ q.fresh = relay.fresh
      /\ q.popups = relay.popups /\ q.buffers = relay.buffers /\ q.mapped = relay.mapped
      /\ q.placed = relay.placed /\ q.settled = relay.settled
  BY <1>1 DEF Relay
<1> HIDE DEF q
<1>7. Listed(q)
  <2>1. ASSUME NEW u \in q.text_inputs, NEW v \in q.text_inputs, u # v
        PROVE <<u, v>> \in q.newer <=> <<v, u>> \notin q.newer
    BY <1>1, <1>4, <1>6, <2>1 DEF Listed
  <2>2. ASSUME NEW S \in SUBSET q.text_inputs, S # {}
        PROVE \E u \in S : Newest(q, u, S)
    <3>1. S \in SUBSET relay.text_inputs BY <1>6
    <3>2. PICK u \in S : Newest(relay, u, S) BY <1>1, <2>2, <3>1 DEF Listed
    <3> QED BY <1>4, <1>6, <3>2 DEF Newest
  <2> QED BY <1>4, <1>6, <2>1, <2>2 DEF Listed
<1>8. Sound(q)
  <2>1. Entered(q) BY <1>1, <1>6 DEF Entered, Meets
  <2>2. Agreed(q) /\ Understood(q) /\ Shown(q) BY <1>1, <1>6 DEF Agreed, Understood, Shown
  <2> QED BY <1>5, <1>7, <2>1, <2>2 DEF Sound
<1>9. Sound(r) /\ Active(r) /\ SameSeat(q, r) BY <1>8, UpdateActiveSound
<1> HIDE DEF r
<1>10. r \in Relay BY <1>9 DEF Sound
<1>11. /\ s \in Relay
       /\ s.entered = [r.entered EXCEPT ![t] = None]
       /\ s.enabled = [r.enabled EXCEPT ![t] = FALSE]
  BY <1>10 DEF Relay
<1>12. /\ s.text_inputs = r.text_inputs /\ s.newer = r.newer
       /\ s.focused_surface = r.focused_surface
       /\ s.active_text_input = r.active_text_input
       /\ s.input_method = r.input_method
       /\ s.notified = r.notified /\ s.state = r.state /\ s.view = r.view
       /\ s.in_step = r.in_step /\ s.text = r.text /\ s.fresh = r.fresh
       /\ s.popups = r.popups /\ s.buffers = r.buffers /\ s.mapped = r.mapped
       /\ s.placed = r.placed /\ s.settled = r.settled
  BY <1>10 DEF Relay
<1>13. \A u \in TextInputs :
          /\ s.entered[u] = IF u = t THEN None ELSE r.entered[u]
          /\ s.enabled[u] = IF u = t THEN FALSE ELSE r.enabled[u]
  BY <1>10, <1>11 DEF Relay
<1> HIDE DEF s
<1>14. /\ s.text_inputs = relay.text_inputs \ {t} /\ s.text_inputs \subseteq TextInputs
       /\ r.enabled = relay.enabled /\ r.entered = relay.entered
  BY <1>5, <1>6, <1>9, <1>12 DEF SameSeat, Relay
<1>15. Gone(s) BY <1>1, <1>13, <1>14 DEF Gone
<1>16. Ready(s) = Ready(r) BY <1>12, <1>13, <1>14 DEF Ready
<1>17. Active(s) BY <1>9, <1>12, <1>16 DEF Active
<1>18. Entered(s)
  <2>1. Entered(r) BY <1>9 DEF Sound
  <2>2. \A u \in s.text_inputs : s.entered[u] = r.entered[u] BY <1>13, <1>14
  <2>3. \A u : Meets(s, u) <=> Meets(r, u) BY <1>12 DEF Meets
  <2> QED BY <1>12, <2>1, <2>2, <2>3 DEF Entered
<1>19. Listed(s) BY <1>9, <1>12 DEF Listed, Newest, Sound
<1>20. Agreed(s) /\ Understood(s) /\ Shown(s)
  BY <1>9, <1>12 DEF Agreed, Understood, Shown, Sound
<1> QED BY <1>2, <1>11, <1>15, <1>17, <1>18, <1>19, <1>20 DEF ImeInv, Inv, Sound

LEMMA NewInputMethodInv ==
  ASSUME ImeInv, NewInputMethod
  PROVE ImeInv'
<1> DEFINE q == [relay EXCEPT !.input_method = TRUE]
           s == UpdateFocused(q)
<1>1. /\ relay \in Relay /\ Listed(relay) /\ Agreed(relay) /\ Understood(relay)
      /\ Shown(relay) /\ Gone(relay) /\ Active(relay)
  BY DEF ImeInv, Inv, Sound
<1>2. ~relay.input_method /\ relay' = UpdateActive(s) BY DEF NewInputMethod
<1>3. q \in Relay BY <1>1, ZenonT(60) DEF Relay
<1>4. /\ q.text_inputs = relay.text_inputs /\ q.newer = relay.newer
      /\ q.focused_surface = relay.focused_surface /\ q.enabled = relay.enabled
      /\ q.active_text_input = relay.active_text_input /\ q.input_method
      /\ q.notified = relay.notified /\ q.state = relay.state /\ q.view = relay.view
      /\ q.in_step = relay.in_step /\ q.text = relay.text /\ q.fresh = relay.fresh
      /\ q.popups = relay.popups /\ q.buffers = relay.buffers /\ q.mapped = relay.mapped
      /\ q.placed = relay.placed /\ q.settled = relay.settled
  BY <1>1 DEF Relay
<1> HIDE DEF q
<1>5. q.active_text_input = None BY <1>1, <1>2, <1>4 DEF Active
<1>6. Listed(q) /\ Agreed(q) /\ Understood(q) /\ Shown(q)
  BY <1>1, <1>2, <1>4, <1>5 DEF Listed, Newest, Agreed, Understood, Shown
<1>7. Sound(s) /\ SameButEntered(q, s)
      /\ \A t \in TextInputs \ q.text_inputs : s.entered[t] = None
  BY <1>3, <1>6, UpdateFocusedSound
<1>8. Gone(s) BY <1>1, <1>4, <1>7 DEF Gone, SameButEntered
<1> HIDE DEF s
<1>9. Inv(UpdateActive(s)) BY <1>7, <1>8, UpdateActiveSound, SameSeatSame DEF Inv
<1> QED BY <1>2, <1>9 DEF ImeInv

\* handle_input_method_destroy(): with it go its popups and what it was told.
LEMMA DestroyInputMethodInv ==
  ASSUME ImeInv, DestroyInputMethod
  PROVE ImeInv'
<1> DEFINE L == [ p \in Popups |-> IF p \in Popups THEN None ELSE relay.placed[p] ]
           g == PopupsGone(relay, Popups)
           q == InputMethodGone(relay)
           s == UpdateFocused(q)
<1>1. /\ relay \in Relay /\ Listed(relay) /\ Gone(relay) /\ Agreed(relay)
  BY DEF ImeInv, Inv, Sound
<1>2. relay' = UpdateActive(s) BY DEF DestroyInputMethod
<1>3. L \in [Popups -> (TextInputs \X Surfaces) \cup {None}] OBVIOUS
<1>4. relay.popups \ Popups = {} /\ relay.buffers \ Popups = {} /\ relay.mapped \ Popups = {}
  BY <1>1 DEF Relay
<1>5. g = [relay EXCEPT !.popups = {}, !.buffers = {}, !.mapped = {}, !.placed = L]
  BY <1>1, <1>4 DEF PopupsGone, Relay
<1> HIDE DEF L
<1>6. /\ g \in Relay /\ SameSeat(relay, g) /\ g.popups = {} /\ g.buffers = {} /\ g.mapped = {}
      /\ g.active_text_input = relay.active_text_input
  BY <1>1, <1>3, <1>5, ZenonT(60) DEF Relay, SameSeat
<1> HIDE DEF g
<1>7. q = [g EXCEPT !.input_method = FALSE, !.notified = None, !.state = None,
                    !.view = None, !.in_step = TRUE,
                    !.text = None, !.committed = FALSE, !.fresh = FALSE]
  BY DEF InputMethodGone, g
<1>8. /\ q \in Relay /\ ~q.input_method /\ q.notified = None /\ q.state = None
      /\ q.view = None /\ q.in_step /\ ~q.fresh
      /\ q.popups = {} /\ q.buffers = {} /\ q.mapped = {}
      /\ q.text_inputs = g.text_inputs /\ q.newer = g.newer /\ q.enabled = g.enabled
  BY <1>6, <1>7, ZenonT(60) DEF Relay
<1> HIDE DEF q
<1>9. Agreed(q) /\ Understood(q) /\ Shown(q) BY <1>8 DEF Agreed, Understood, Shown
<1>10. Listed(q) BY <1>1, <1>6, <1>8 DEF SameSeat, Listed, Newest
<1>11. Sound(s) /\ SameButEntered(q, s)
       /\ \A t \in TextInputs \ q.text_inputs : s.entered[t] = None
  BY <1>8, <1>9, <1>10, UpdateFocusedSound
<1>12. Gone(s) BY <1>1, <1>6, <1>8, <1>11 DEF Gone, SameButEntered, SameSeat
<1> HIDE DEF s
<1>13. Inv(UpdateActive(s)) BY <1>11, <1>12, UpdateActiveSound, SameSeatSame DEF Inv
<1> QED BY <1>2, <1>13 DEF ImeInv

\* A popup that just changed is placed, or has no one to be placed by.
LEMMA PlaceOneInv ==
  ASSUME NEW r, Inv(r), NEW p \in Popups, NEW q \in Relay, SameInput(r, q),
         q.buffers \subseteq q.popups,
         q.mapped = IF q.notified = None THEN {} ELSE q.buffers,
         q.settled => \A x \in q.mapped \ {p} :
                         q.placed[x] = <<q.active_text_input, q.focused_surface>>,
         ~r.input_method => q.popups = {}
  PROVE Inv(PlacePopups(q, {p}))
<1> DEFINE at == <<q.active_text_input, q.focused_surface>>
           L == [ x \in Popups |-> IF x \in {p} \cap q.mapped THEN at ELSE q.placed[x] ]
           s == [q EXCEPT !.placed = L]
<1>1. CASE q.active_text_input = None \/ q.focused_surface = None
  <2>1. r \in Relay /\ Entered(r) /\ Agreed(r) /\ Active(r) BY DEF Inv, Sound
  <2>2. r.notified = None BY <1>1, <2>1, ShownHasActive DEF SameInput, SameSeat
  <2>3. q.mapped = {} BY <2>2 DEF SameInput
  <2>4. Shown(q) BY <2>3 DEF Shown
  <2>5. Inv(q) BY <2>4, SameInputInv
  <2> QED BY <1>1, <2>5 DEF PlacePopups
<1>2. CASE ~(q.active_text_input = None \/ q.focused_surface = None)
  <2>1. at \in TextInputs \X Surfaces BY <1>2 DEF Relay
  <2>2. L \in [Popups -> (TextInputs \X Surfaces) \cup {None}] BY <2>1 DEF Relay
  <2>3. q.mapped \subseteq Popups BY DEF Relay
  <2>4. q.settled => \A x \in q.mapped : L[x] = at BY <2>3
  <2>5. PlacePopups(q, {p}) = s BY <1>2 DEF PlacePopups
  <2> HIDE DEF L
  <2>6. /\ s \in Relay /\ s.placed = L /\ SameInput(q, s)
        /\ s.mapped = q.mapped /\ s.buffers = q.buffers /\ s.popups = q.popups
    BY <2>2 DEF Relay, SameInput, SameSeat
  <2> HIDE DEF s
  <2>7. SameInput(r, s) BY <2>6 DEF SameInput, SameSeat
  <2>8. Shown(s) BY <2>4, <2>6 DEF Shown, SameInput, SameSeat
  <2>9. Inv(s) BY <2>6, <2>7, <2>8, SameInputInv
  <2> QED BY <2>5, <2>9
<1> QED BY <1>1, <1>2

\* A popup appears or disappears with its buffer.
LEMMA UpdateMappedInv ==
  ASSUME NEW r, Inv(r), NEW q \in Relay, SameInput(r, q), r.input_method,
         NEW p \in Popups, NEW b \in BOOLEAN,
         q.popups = r.popups \cup {p}, q.buffers = r.buffers, q.mapped = r.mapped,
         q.placed = r.placed
  PROVE Inv(PlacePopups(UpdateMapped(q, p, b), {p}))
<1> DEFINE B == IF b THEN q.buffers \cup {p} ELSE q.buffers \ {p}
           M == IF b /\ q.notified # None THEN q.mapped \cup {p} ELSE q.mapped \ {p}
           s == [q EXCEPT !.buffers = B, !.mapped = M]
<1>1. UpdateMapped(q, p, b) = s BY DEF UpdateMapped
<1>2. Shown(r) BY DEF Inv, Sound
<1>3. B \in SUBSET Popups /\ M \in SUBSET Popups BY DEF Relay
<1>4. B \subseteq q.popups BY <1>2 DEF Shown
<1>5. M = IF q.notified = None THEN {} ELSE B BY <1>2 DEF Shown, SameInput
<1>6. M \ {p} \subseteq r.mapped OBVIOUS
<1> HIDE DEF B, M
<1>7. /\ s \in Relay /\ s.placed = q.placed /\ SameInput(q, s)
      /\ s.mapped = M /\ s.buffers = B /\ s.popups = q.popups
  BY <1>3, ZenonT(60) DEF Relay, SameInput, SameSeat
<1> HIDE DEF s
<1>8. SameInput(r, s) BY <1>7 DEF SameInput, SameSeat
<1>9. s.settled => \A x \in s.mapped \ {p} :
                      s.placed[x] = <<s.active_text_input, s.focused_surface>>
  BY <1>2, <1>6, <1>7, <1>8 DEF Shown, SameInput, SameSeat
<1>10. s.mapped = IF s.notified = None THEN {} ELSE s.buffers
  BY <1>5, <1>7 DEF SameInput
<1> QED BY <1>1, <1>4, <1>7, <1>8, <1>9, <1>10, PlaceOneInv

LEMMA NewPopupInv ==
  ASSUME ImeInv, NEW p \in Popups, NEW b \in BOOLEAN, NewPopup(p, b)
  PROVE ImeInv'
<1> DEFINE q == [relay EXCEPT !.popups = @ \cup {p}]
<1>1. relay \in Relay BY DEF ImeInv, Inv, Sound
<1>2. relay.input_method /\ relay' = PlacePopups(UpdateMapped(q, p, b), {p})
  BY DEF NewPopup
<1>3. /\ q \in Relay /\ SameInput(relay, q) /\ q.popups = relay.popups \cup {p}
      /\ q.buffers = relay.buffers /\ q.mapped = relay.mapped /\ q.placed = relay.placed
  BY <1>1 DEF Relay, SameInput, SameSeat
<1> HIDE DEF q
<1> QED BY <1>2, <1>3, UpdateMappedInv DEF ImeInv

LEMMA CommitPopupInv ==
  ASSUME ImeInv, NEW p \in Popups, NEW b \in BOOLEAN, CommitPopup(p, b)
  PROVE ImeInv'
<1>1. relay \in Relay /\ Agreed(relay) BY DEF ImeInv, Inv, Sound
<1>2. p \in relay.popups /\ relay' = PlacePopups(UpdateMapped(relay, p, b), {p})
  BY DEF CommitPopup
<1>3. relay.input_method BY <1>1, <1>2 DEF Agreed
<1>4. relay.popups = relay.popups \cup {p} /\ SameInput(relay, relay)
  BY <1>2 DEF SameInput, SameSeat
<1> QED BY <1>1, <1>2, <1>3, <1>4, UpdateMappedInv DEF ImeInv

LEMMA DestroyPopupInv ==
  ASSUME ImeInv, NEW p \in Popups, DestroyPopup(p)
  PROVE ImeInv'
<1> DEFINE L == [ x \in Popups |-> IF x \in {p} THEN None ELSE relay.placed[x] ]
           s == [relay EXCEPT !.popups = @ \ {p}, !.buffers = @ \ {p},
                              !.mapped = @ \ {p}, !.placed = L]
<1>1. relay \in Relay /\ Agreed(relay) /\ Shown(relay) BY DEF ImeInv, Inv, Sound
<1>2. relay' = s BY DEF DestroyPopup, PopupsGone
<1>3. L \in [Popups -> (TextInputs \X Surfaces) \cup {None}] BY <1>1 DEF Relay
<1>4. relay.mapped \subseteq Popups /\ \A x \in Popups \ {p} : L[x] = relay.placed[x]
  BY <1>1 DEF Relay
<1> HIDE DEF L
<1>5. /\ s \in Relay /\ s.placed = L /\ SameInput(relay, s)
      /\ s.mapped = relay.mapped \ {p} /\ s.buffers = relay.buffers \ {p}
      /\ s.popups = relay.popups \ {p}
  BY <1>1, <1>3, ZenonT(60) DEF Relay, SameInput, SameSeat
<1> HIDE DEF s
<1>6. Shown(s) BY <1>1, <1>4, <1>5 DEF Shown, SameInput, SameSeat
<1>7. ~relay.input_method => s.popups = {} BY <1>1, <1>5 DEF Agreed
<1> QED BY <1>2, <1>5, <1>6, <1>7, SameInputInv DEF ImeInv

\* The input method reads and writes; neither changes what the relay knows.
LEMMA InputMethodInv ==
  ASSUME ImeInv, ReadEvents \/ SendText \/ ReceiveText
  PROVE ImeInv'
<1> DEFINE r == relay
           s == relay'
<1>1. /\ r \in Relay /\ Listed(r) /\ Entered(r) /\ Gone(r) /\ Active(r)
      /\ Agreed(r) /\ Understood(r) /\ Shown(r)
  BY DEF ImeInv, Inv, Sound
<1>2. /\ s \in Relay /\ SameSeat(r, s) /\ s.active_text_input = r.active_text_input
      /\ s.notified = r.notified /\ s.state = r.state
      /\ s.popups = r.popups /\ s.buffers = r.buffers /\ s.mapped = r.mapped
      /\ s.placed = r.placed /\ s.settled = r.settled
  <2>1. r.view \in TextInputs \cup {None} /\ r.notified \in TextInputs \cup {None}
        /\ r.in_step \in BOOLEAN
    BY <1>1 DEF Relay
  <2>2. CASE ReadEvents BY <1>1, <2>1, <2>2 DEF ReadEvents, Relay, SameSeat
  <2>3. CASE SendText BY <1>1, <2>1, <2>3 DEF SendText, Relay, SameSeat
  <2>4. CASE ReceiveText BY <1>1, <2>4, ZenonT(60) DEF ReceiveText, Relay, SameSeat
  <2> QED BY <2>2, <2>3, <2>4
<1>3. Understood(s)
  <2>1. CASE ReadEvents BY <1>1, <2>1 DEF ReadEvents, Relay, Understood
  <2>2. CASE SendText BY <1>1, <2>2 DEF SendText, Relay, Understood
  <2>3. CASE ReceiveText BY <1>1, <2>3 DEF ReceiveText, Relay, Understood
  <2> QED BY <2>1, <2>2, <2>3
<1>4. Listed(s) /\ Entered(s) /\ Gone(s) /\ Ready(s) = Ready(r)
  BY <1>1, <1>2, SameSeatSame
<1>5. Active(s) BY <1>1, <1>2, <1>4 DEF Active, SameSeat
<1>6. Agreed(s) BY <1>1, <1>2 DEF Agreed, SameSeat
<1>7. Shown(s) BY <1>1, <1>2 DEF Shown, SameSeat
<1> QED BY <1>2, <1>3, <1>4, <1>5, <1>6, <1>7 DEF ImeInv, Inv, Sound
-----------------------------------------------------------------------------
(* The specification *)

LEMMA ImeInitInv == ImeInit => ImeInv
<1> SUFFICES ASSUME ImeInit PROVE ImeInv OBVIOUS
<1>1. relay \in Relay BY DEF ImeInit, Relay
<1>2. Listed(relay) BY DEF ImeInit, Listed
<1>3. Entered(relay) /\ Gone(relay) BY DEF ImeInit, Entered, Gone
<1>4. Agreed(relay) /\ Understood(relay) /\ Shown(relay) BY DEF ImeInit, Agreed, Understood, Shown
<1>5. Active(relay) BY DEF ImeInit, Active
<1> QED BY <1>1, <1>2, <1>3, <1>4, <1>5 DEF ImeInv, Inv, Sound

LEMMA ImeNextInv == ImeInv /\ [ImeNext]_relay => ImeInv'
<1> SUFFICES ASSUME ImeInv, [ImeNext]_relay PROVE ImeInv' OBVIOUS
<1>1. ASSUME NEW x \in Surfaces \cup {None}, Focus(x) PROVE ImeInv'
  BY <1>1, SetFocusInv DEF Focus, ImeInv
<1>2. ASSUME NEW x \in Surfaces, DestroySurface(x) PROVE ImeInv'
  BY <1>2, SetFocusInv DEF DestroySurface, ImeInv
<1>3. ASSUME NEW t \in TextInputs, NewTextInput(t) PROVE ImeInv' BY <1>3, NewTextInputInv
<1>4. ASSUME NEW t \in TextInputs, NEW b \in BOOLEAN, CommitTextInput(t, b) PROVE ImeInv'
  BY <1>4, CommitTextInputInv
<1>5. ASSUME NEW t \in TextInputs, DestroyTextInput(t) PROVE ImeInv'
  BY <1>5, DestroyTextInputInv
<1>6. ASSUME NEW p \in Popups, NEW b \in BOOLEAN, NewPopup(p, b) PROVE ImeInv'
  BY <1>6, NewPopupInv
<1>7. ASSUME NEW p \in Popups, NEW b \in BOOLEAN, CommitPopup(p, b) PROVE ImeInv'
  BY <1>7, CommitPopupInv
<1>8. ASSUME NEW p \in Popups, DestroyPopup(p) PROVE ImeInv' BY <1>8, DestroyPopupInv
<1>9. CASE NewInputMethod BY <1>9, NewInputMethodInv
<1>10. CASE DestroyInputMethod BY <1>10, DestroyInputMethodInv
<1>11. CASE ReadEvents \/ SendText \/ ReceiveText BY <1>11, InputMethodInv
<1>12. CASE UNCHANGED relay
  BY <1>12 DEF ImeInv, Inv, Sound, Listed, Newest, Entered, Meets, Gone, Active, Ready,
               Agreed, Understood, Shown
<1> QED BY <1>1, <1>2, <1>3, <1>4, <1>5, <1>6, <1>7, <1>8, <1>9, <1>10, <1>11, <1>12
    DEF ImeNext

\* ime.c and the parts of wlroots that it drives keep the invariant, whatever
\* the clients and the input method do.
THEOREM ImeInvHolds == ImeSpec => []ImeInv
<1>1. ImeInit => ImeInv BY ImeInitInv
<1>2. ImeInv /\ [ImeNext]_relay => ImeInv' BY ImeNextInv
<1> QED BY <1>1, <1>2, PTL DEF ImeSpec

\* The list of text inputs is always one list, of those that exist.
THEOREM ImeTypeCorrect == ImeSpec => []ImeTypeOK
<1>1. ImeInv => ImeTypeOK
  BY DEF ImeInv, Inv, Sound, Listed, Gone, ImeTypeOK
<1> QED BY <1>1, ImeInvHolds, PTL

\* The text inputs are exactly on the surface with the keyboard.
THEOREM TextInputsFollowFocus == ImeSpec => []EnteredIsFocused
<1>1. ImeInv => EnteredIsFocused
  BY DEF ImeInv, Inv, Sound, Entered, Meets, Gone, EnteredIsFocused
<1> QED BY <1>1, ImeInvHolds, PTL

\* The active text input is one that may be, and there is one if any may.
THEOREM ActiveIsRight == ImeSpec => []ActiveIsCandidate
<1>1. ASSUME ImeInv PROVE ActiveIsCandidate
  <2>1. relay \in Relay /\ Entered(relay) /\ Active(relay) BY <1>1 DEF ImeInv, Inv, Sound
  <2>2. relay.input_method => Ready(relay) = Candidates
    BY <2>1 DEF Ready, Candidates, Entered, Meets, Relay
  <2>3. ~relay.input_method => Candidates = {} BY DEF Candidates
  <2> QED BY <2>1, <2>2, <2>3 DEF Active, ActiveIsCandidate
<1> QED BY <1>1, ImeInvHolds, PTL

\* The input method is active for the active text input, and knows no other.
THEOREM InputMethodKnows == ImeSpec => []InputMethodAgrees
<1>1. ImeInv => InputMethodAgrees BY DEF ImeInv, Inv, Sound, Agreed, InputMethodAgrees
<1> QED BY <1>1, ImeInvHolds, PTL

\* The serial lets a text through only to the text input that it was written for.
THEOREM TextArrives == ImeSpec => []NoTextGoesAstray
<1>1. ASSUME ImeInv PROVE NoTextGoesAstray
  <2>1. relay.fresh => relay.text = relay.notified
    BY <1>1 DEF ImeInv, Inv, Sound, Understood
  <2>2. /\ relay.input_method => relay.notified = relay.active_text_input
        /\ ~relay.input_method => relay.active_text_input = None
    BY <1>1 DEF ImeInv, Inv, Sound, Agreed, Active
  <2> QED BY <2>1, <2>2 DEF NoTextGoesAstray, GetsText
<1> QED BY <1>1, ImeInvHolds, PTL

\* Popups are shown for the active text input and placed at its cursor.
THEOREM PopupsArePlaced == ImeSpec => []PopupsAreAtTheCursor
<1>1. ASSUME ImeInv PROVE PopupsAreAtTheCursor
  <2>1. /\ Shown(relay) /\ relay \in Relay /\ Entered(relay) /\ Agreed(relay) /\ Active(relay)
    BY <1>1 DEF ImeInv, Inv, Sound
  <2>2. relay.mapped # {} => relay.active_text_input # None
    BY <2>1, ShownHasActive DEF Shown
  <2> QED BY <2>1, <2>2 DEF Shown, PopupsAreAtTheCursor
<1> QED BY <1>1, ImeInvHolds, PTL

\* The relay of ime.c, the clients and the input method agree on the text input
\* that is written to.
THEOREM RelayAgreesAlways == ImeSpec => []RelayAgrees
<1> QED BY ImeTypeCorrect, ActiveIsRight, TextInputsFollowFocus, InputMethodKnows, PTL
    DEF RelayAgrees

----------------------------------------------------------------------------
(* What is under way between the compositor and a client *)

Configured == [ serial : Nat, w : Nat ]

\* The serials of what is acknowledged, sent and scheduled are rising.
Ordered(s) ==
    /\ s.committed <= s.acked.serial
    /\ s.acked.serial <= s.scheduled.serial /\ s.serial <= s.scheduled.serial
    /\ s.idle => s.acked.serial < s.scheduled.serial
    /\ \A i \in DOMAIN s.configures :
          /\ s.acked.serial < s.configures[i].serial
          /\ s.configures[i].serial <= s.scheduled.serial
          /\ s.idle => s.configures[i].serial < s.scheduled.serial
          /\ \A j \in DOMAIN s.configures :
                i < j => s.configures[i].serial < s.configures[j].serial

Phases(s) ==
    /\ s.alive => (s.timer <=> s.serial # 0)
    /\ s.idle \/ s.configures # <<>> => s.initialized
    /\ s.mapped => s.initialized /\ s.been_mapped
    /\ s.grab # None => s.mapped

Regular(s) == s \in Window /\ Ordered(s) /\ Phases(s)

\* What a request or another geometry leaves alone.
Else(s, t) ==
    /\ t.obedient = s.obedient /\ t.alive = s.alive
    /\ t.mapped = s.mapped /\ t.been_mapped = s.been_mapped
    /\ t.grab = s.grab /\ t.initialized = s.initialized /\ t.configured = s.configured
    /\ t.configures = s.configures /\ t.acked = s.acked /\ t.committed = s.committed
    /\ t.geometry = s.geometry /\ t.extent = s.extent

Boxes(s, t) ==
    /\ t.current = s.current /\ t.pending = s.pending
    /\ t.natural = s.natural /\ t.wanted = s.wanted /\ t.maximized = s.maximized

\* A configure is scheduled, with its serial.
Scheduled(s, w, t) ==
    /\ t.idle = TRUE
    /\ t.scheduled = [ serial |-> IF s.idle THEN s.scheduled.serial ELSE s.scheduled.serial + 1,
                       w |-> w ]

LEMMA ScheduleIs ==
  ASSUME NEW s \in Window
  PROVE LET t == Schedule(s)
        IN  /\ t \in Window /\ Else(s, t) /\ Boxes(s, t)
            /\ Scheduled(s, s.scheduled.w, t)
            /\ t.serial = s.serial /\ t.timer = s.timer
<1> DEFINE sch == [s.scheduled EXCEPT !.serial = @ + 1]
<1>1. s.scheduled \in Configured BY DEF Window, Configured
<1>2. sch \in Configured /\ sch = [ serial |-> s.scheduled.serial + 1, w |-> s.scheduled.w ]
  BY <1>1 DEF Configured
<1>3. CASE s.idle
  <2>1. Schedule(s) = s BY <1>3 DEF Schedule
  <2>2. s.idle = TRUE BY <1>3 DEF Window
  <2>3. s.scheduled = [ serial |-> s.scheduled.serial, w |-> s.scheduled.w ]
    BY <1>1 DEF Configured
  <2> HIDE DEF sch
  <2> QED BY <2>1, <2>2, <2>3, <1>3 DEF Else, Boxes, Scheduled
<1>4. CASE ~s.idle
  <2>1. Schedule(s) = [s EXCEPT !.idle = TRUE, !.scheduled = sch] BY <1>4 DEF Schedule
  <2> HIDE DEF sch
  <2> QED BY <2>1, <1>2, <1>4 DEF Window, Configured, Else, Boxes, Scheduled
<1> QED BY <1>3, <1>4

LEMMA RequestIs ==
  ASSUME NEW s \in Window
  PROVE LET t == Request(s)
        IN  /\ t \in Window /\ Else(s, t) /\ Boxes(s, t)
            /\ Scheduled(s, s.scheduled.w, t)
            /\ t.serial = t.scheduled.serial /\ t.timer = TRUE
<1> DEFINE r == Schedule(s)
           t == [r EXCEPT !.serial = r.scheduled.serial, !.timer = TRUE]
<1>1. Request(s) = t BY DEF Request, SetPendingSerial
<1>2. /\ r \in Window /\ Else(s, r) /\ Boxes(s, r)
      /\ Scheduled(s, s.scheduled.w, r)
  BY ScheduleIs
<1> HIDE DEF r
<1>3. t \in Window BY <1>2 DEF Window
<1>4. Else(r, t) /\ Boxes(r, t) /\ t.idle = r.idle /\ t.scheduled = r.scheduled
      /\ t.serial = r.scheduled.serial /\ t.timer = TRUE
  BY <1>2 DEF Window, Else, Boxes
<1> HIDE DEF t
<1> QED BY <1>1, <1>2, <1>3, <1>4 DEF Else, Boxes, Scheduled

\* xdg_toplevel_view_configure() asks for a size, or decides a position.
Asked(s, geo, t) ==
    /\ Scheduled(s, geo.w, t) /\ t.serial = t.scheduled.serial /\ t.timer = TRUE
    /\ t.current = s.current
Placed(s, geo, t) ==
    /\ t.idle = s.idle /\ t.scheduled = s.scheduled
    /\ t.serial = s.serial /\ t.timer = s.timer
    /\ t.current = IF s.serial = 0 THEN [ x |-> geo.x, w |-> s.current.w ] ELSE s.current

LEMMA ConfigureIs ==
  ASSUME NEW s \in Window, NEW geo \in Box
  PROVE LET t == Configure(s, geo)
        IN  /\ t \in Window /\ Else(s, t)
            /\ t.pending = geo /\ t.wanted = geo
            /\ t.natural = s.natural /\ t.maximized = s.maximized
            /\ IF geo.w # s.pending.w /\ s.initialized /\ geo.w > 0
                 THEN Asked(s, geo, t) ELSE Placed(s, geo, t)
<1> DEFINE d == [s EXCEPT !.pending = geo, !.wanted = geo]
<1>1. /\ d \in Window /\ Else(s, d) /\ d.pending = geo /\ d.wanted = geo
      /\ d.natural = s.natural /\ d.maximized = s.maximized /\ d.current = s.current
      /\ d.serial = s.serial /\ d.timer = s.timer
      /\ d.idle = s.idle /\ d.scheduled = s.scheduled
  BY DEF Window, Else
<1>2. CASE geo.w # s.pending.w /\ s.initialized /\ geo.w > 0
  <2> DEFINE sch == [d.scheduled EXCEPT !.w = geo.w]
             e == [d EXCEPT !.scheduled = sch]
  <2> HIDE DEF d
  <2>1. sch = [ serial |-> s.scheduled.serial, w |-> geo.w ] /\ sch \in Configured
    <3>1. d.scheduled \in Configured BY <1>1 DEF Window, Configured
    <3> QED BY <1>1, <3>1 DEF Configured, Box
  <2>2. Configure(s, geo) = Request(e) BY <1>2 DEF Configure, d
  <2> HIDE DEF sch
  <2>3. /\ e \in Window /\ Else(d, e) /\ Boxes(d, e) /\ e.idle = d.idle /\ e.scheduled = sch
    BY <1>1, <2>1 DEF Window, Configured, Else, Boxes
  <2> HIDE DEF e
  <2> DEFINE t == Request(e)
  <2>4. /\ t \in Window /\ Else(e, t) /\ Boxes(e, t) /\ Scheduled(e, e.scheduled.w, t)
        /\ t.serial = t.scheduled.serial /\ t.timer = TRUE
    BY <2>3, RequestIs
  <2> HIDE DEF t
  <2>5. Scheduled(s, geo.w, t) BY <1>1, <2>1, <2>3, <2>4 DEF Scheduled
  <2>6. Else(s, t) BY <1>1, <2>3, <2>4 DEF Else
  <2> QED BY <1>1, <1>2, <2>2, <2>3, <2>4, <2>5, <2>6 DEF Boxes, Asked, t
<1>3. CASE ~(geo.w # s.pending.w /\ s.initialized /\ geo.w > 0)
  <2>1. CASE s.serial = 0
    <3> DEFINE c == [d.current EXCEPT !.x = geo.x]
               t == [d EXCEPT !.current = c]
    <3>1. Configure(s, geo) = t BY <1>3, <2>1 DEF Configure
    <3>2. c = [ x |-> geo.x, w |-> s.current.w ] /\ c \in Box
      <4> HIDE DEF d
      <4>1. d.current \in Box BY <1>1 DEF Window
      <4> QED BY <1>1, <4>1 DEF Box
    <3> HIDE DEF d, c
    <3>3. t \in Window /\ Else(d, t) BY <1>1, <3>2 DEF Window, Else
    <3>4. t.pending = d.pending /\ t.wanted = d.wanted /\ t.natural = d.natural
          /\ t.maximized = d.maximized /\ t.current = c /\ t.serial = d.serial
          /\ t.timer = d.timer /\ t.idle = d.idle /\ t.scheduled = d.scheduled
      BY <1>1 DEF Window
    <3> HIDE DEF t
    <3>5. Else(s, t) BY <1>1, <3>3 DEF Else
    <3>6. Placed(s, geo, t) BY <1>1, <2>1, <3>2, <3>4 DEF Placed
    <3> QED BY <1>1, <1>3, <3>1, <3>3, <3>4, <3>5, <3>6
  <2>2. CASE s.serial # 0
    <3>1. Configure(s, geo) = d BY <1>3, <2>2 DEF Configure
    <3> HIDE DEF d
    <3> QED BY <1>1, <1>3, <2>2, <3>1 DEF Placed
  <2> QED BY <2>1, <2>2
<1> QED BY <1>2, <1>3

----------------------------------------------------------------------------
(* Every client *)

\* The serial of what is scheduled only rises.
LEMMA OrderedLater ==
  ASSUME NEW s \in Window, Ordered(s), NEW t \in Window, Else(s, t),
         t.serial <= t.scheduled.serial,
         \/ t.idle = s.idle /\ t.scheduled.serial = s.scheduled.serial
         \/ t.scheduled.serial = IF s.idle THEN s.scheduled.serial ELSE s.scheduled.serial + 1
  PROVE Ordered(t)
<1>1. /\ s.acked \in Configured /\ s.scheduled \in Configured /\ t.scheduled \in Configured
      /\ s.configures \in Seq(Configured)
      /\ s.idle \in BOOLEAN /\ t.idle \in BOOLEAN /\ s.committed \in Nat /\ t.serial \in Nat
  BY DEF Window, Configured
<1>2. t.configures = s.configures /\ t.acked = s.acked /\ t.committed = s.committed BY DEF Else
<1>3. s.acked.serial \in Nat /\ s.scheduled.serial \in Nat /\ t.scheduled.serial \in Nat
  BY <1>1 DEF Configured
<1>4. s.scheduled.serial <= t.scheduled.serial BY <1>3
<1>5. t.committed <= t.acked.serial /\ t.acked.serial <= t.scheduled.serial
  BY <1>1, <1>2, <1>3, <1>4 DEF Ordered
<1>6. t.idle => t.acked.serial < t.scheduled.serial
  <2>1. s.acked.serial <= s.scheduled.serial /\ (s.idle => s.acked.serial < s.scheduled.serial)
    BY DEF Ordered
  <2>2. CASE t.idle = s.idle /\ t.scheduled.serial = s.scheduled.serial
    BY <1>2, <2>1, <2>2
  <2>3. CASE t.scheduled.serial = IF s.idle THEN s.scheduled.serial ELSE s.scheduled.serial + 1
    <3>1. CASE s.idle BY <1>2, <2>1, <2>3, <3>1
    <3>2. CASE ~s.idle
      <4>1. t.scheduled.serial = s.scheduled.serial + 1 BY <2>3, <3>2
      <4> QED BY <1>2, <1>3, <2>1, <4>1
    <3> QED BY <3>1, <3>2
  <2> QED BY <2>2, <2>3
<1>7. ASSUME NEW i \in DOMAIN t.configures
      PROVE /\ t.acked.serial < t.configures[i].serial
            /\ t.configures[i].serial <= t.scheduled.serial
            /\ t.idle => t.configures[i].serial < t.scheduled.serial
            /\ \A j \in DOMAIN t.configures :
                  i < j => t.configures[i].serial < t.configures[j].serial
  <2>1. s.configures[i] \in Configured BY <1>1, <1>2
  <2>2. s.configures[i].serial \in Nat BY <2>1 DEF Configured
  <2>3. /\ s.acked.serial < s.configures[i].serial
        /\ s.configures[i].serial <= s.scheduled.serial
        /\ s.idle => s.configures[i].serial < s.scheduled.serial
        /\ \A j \in DOMAIN s.configures :
              i < j => s.configures[i].serial < s.configures[j].serial
    BY <1>2 DEF Ordered
  <2> QED BY <1>1, <1>2, <1>3, <2>2, <2>3
<1> QED BY <1>5, <1>6, <1>7 DEF Ordered

LEMMA RequestRegular ==
  ASSUME NEW s \in Window, Regular(s), s.initialized
  PROVE Regular(Request(s))
<1> DEFINE t == Request(s)
<1>1. /\ t \in Window /\ Else(s, t) /\ Scheduled(s, s.scheduled.w, t)
      /\ t.serial = t.scheduled.serial /\ t.timer = TRUE
  BY RequestIs
<1> HIDE DEF t
<1>2. Ordered(t)
  <2>1. t.scheduled.serial = IF s.idle THEN s.scheduled.serial ELSE s.scheduled.serial + 1
    BY <1>1 DEF Scheduled
  <2>2. t.serial \in Nat BY <1>1 DEF Window
  <2> QED BY <1>1, <2>1, <2>2, OrderedLater DEF Regular
<1>3. Phases(t) BY <1>1 DEF Regular, Ordered, Phases, Else, Scheduled, Window
<1> QED BY <1>1, <1>2, <1>3 DEF Regular, t

LEMMA ConfigureRegular ==
  ASSUME NEW s \in Window, Regular(s), NEW geo \in Box
  PROVE Regular(Configure(s, geo))
<1> DEFINE t == Configure(s, geo)
<1>1. /\ t \in Window /\ Else(s, t)
      /\ IF geo.w # s.pending.w /\ s.initialized /\ geo.w > 0
           THEN Asked(s, geo, t) ELSE Placed(s, geo, t)
  BY ConfigureIs
<1> HIDE DEF t
<1>2. Ordered(t)
  <2>1. \/ t.idle = s.idle /\ t.scheduled.serial = s.scheduled.serial
        \/ t.scheduled.serial = IF s.idle THEN s.scheduled.serial ELSE s.scheduled.serial + 1
    BY <1>1 DEF Asked, Placed, Scheduled
  <2>2. t.serial <= t.scheduled.serial
    <3>1. t.serial \in Nat /\ s.serial <= s.scheduled.serial
      BY <1>1 DEF Window, Regular, Ordered
    <3> QED BY <1>1, <3>1 DEF Asked, Placed
  <2> QED BY <1>1, <2>1, <2>2, OrderedLater DEF Regular
<1>3. Phases(t) BY <1>1 DEF Regular, Ordered, Phases, Else, Asked, Placed, Scheduled, Window
<1> QED BY <1>1, <1>2, <1>3 DEF Regular, t

Place(s, b) == [s EXCEPT !.pending = b, !.wanted = b]

LEMMA PlaceIs ==
  ASSUME NEW s \in Window, NEW b \in Box
  PROVE LET t == Place(s, b)
        IN  /\ t \in Window /\ Else(s, t)
            /\ t.pending = b /\ t.wanted = b /\ t.current = s.current
            /\ t.natural = s.natural /\ t.maximized = s.maximized
            /\ t.serial = s.serial /\ t.timer = s.timer
            /\ t.idle = s.idle /\ t.scheduled = s.scheduled
BY DEF Window, Else, Place

LEMMA PlaceRegular ==
  ASSUME NEW s \in Window, Regular(s), NEW t \in Window, Else(s, t),
         t.serial = s.serial, t.timer = s.timer, t.idle = s.idle,
         t.scheduled.serial = s.scheduled.serial
  PROVE Regular(t)
<1>1. Ordered(t) BY DEF Regular, Ordered, Else, Window
<1>2. Phases(t) BY DEF Regular, Ordered, Phases, Else, Window
<1> QED BY <1>1, <1>2 DEF Regular

\* A window is placed after it was asked to shrink if it is too wide.
LEMMA InitialPositionIs ==
  ASSUME NEW s \in Window, NEW t \in InitialPosition(s)
  PROVE IF s.maximized THEN t = s ELSE
        \E x \in Xs :
           LET f == IF s.pending.w > Available
                      THEN Configure(s, [ x |-> s.pending.x, w |-> Available ]) ELSE s
               place == [ x |-> x, w |-> f.pending.w ]
           IN  f \in Window /\ t = Place(f, place)
<1>1. CASE s.maximized BY <1>1 DEF InitialPosition
<1>2. CASE ~s.maximized
  <2> DEFINE f == IF s.pending.w > Available
                    THEN Configure(s, [ x |-> s.pending.x, w |-> Available ]) ELSE s
  <2>1. PICK x \in Xs : LET place == [f.pending EXCEPT !.x = x]
                        IN  t = [f EXCEPT !.pending = place, !.wanted = place]
    BY <1>2 DEF InitialPosition
  <2>2. f \in Window
    <3>1. s.pending \in Box BY DEF Window
    <3>2. [ x |-> s.pending.x, w |-> Available ] \in Box BY <3>1, XdgAssumption DEF Box
    <3> QED BY <3>2, ConfigureIs
  <2> HIDE DEF f
  <2>3. f.pending \in Box BY <2>2 DEF Window
  <2>4. [f.pending EXCEPT !.x = x] = [ x |-> x, w |-> f.pending.w ] BY <2>3 DEF Box
  <2>5. t = Place(f, [ x |-> x, w |-> f.pending.w ]) BY <2>1, <2>4 DEF Place
  <2> QED BY <1>2, <2>2, <2>5 DEF f
<1> QED BY <1>1, <1>2

LEMMA InitialPositionElse ==
  ASSUME NEW s \in Window, NEW t \in InitialPosition(s)
  PROVE t \in Window /\ Else(s, t)
<1>1. CASE s.maximized
  <2>1. t = s BY <1>1, InitialPositionIs
  <2> QED BY <2>1 DEF Else
<1>2. CASE ~s.maximized
  <2> DEFINE b == [ x |-> s.pending.x, w |-> Available ]
             f == IF s.pending.w > Available THEN Configure(s, b) ELSE s
  <2>1. PICK x \in Xs :
           LET place == [ x |-> x, w |-> f.pending.w ]
           IN  f \in Window /\ t = Place(f, place)
    BY <1>2, InitialPositionIs
  <2>2. b \in Box
    <3>1. s.pending \in Box BY DEF Window
    <3> QED BY <3>1, XdgAssumption DEF Box
  <2>3. Else(s, f)
    <3>1. Else(s, Configure(s, b)) BY <2>2, ConfigureIs
    <3>2. Else(s, s) BY DEF Else
    <3> QED BY <3>1, <3>2
  <2> HIDE DEF f
  <2> DEFINE place == [ x |-> x, w |-> f.pending.w ]
  <2>4. place \in Box
    <3>1. f.pending \in Box /\ x \in Int BY <2>1, XdgAssumption DEF Window
    <3> QED BY <3>1 DEF Box
  <2>5. t = Place(f, place) BY <2>1
  <2> HIDE DEF place
  <2>6. t \in Window /\ Else(f, t) BY <2>1, <2>4, <2>5, PlaceIs
  <2> QED BY <2>3, <2>6 DEF Else
<1> QED BY <1>1, <1>2

LEMMA InitialPositionRegular ==
  ASSUME NEW s \in Window, Regular(s), NEW t \in InitialPosition(s)
  PROVE Regular(t)
<1>1. CASE s.maximized
  <2>1. t = s BY <1>1, InitialPositionIs
  <2> QED BY <2>1
<1>2. CASE ~s.maximized
  <2> DEFINE b == [ x |-> s.pending.x, w |-> Available ]
             f == IF s.pending.w > Available THEN Configure(s, b) ELSE s
  <2>1. PICK x \in Xs :
           LET place == [ x |-> x, w |-> f.pending.w ]
           IN  f \in Window /\ t = Place(f, place)
    BY <1>2, InitialPositionIs
  <2>2. b \in Box
    <3>1. s.pending \in Box BY DEF Window
    <3> QED BY <3>1, XdgAssumption DEF Box
  <2>3. Regular(f) BY <2>2, ConfigureRegular
  <2> HIDE DEF f
  <2> DEFINE place == [ x |-> x, w |-> f.pending.w ]
  <2>4. place \in Box
    <3>1. f.pending \in Box /\ x \in Int BY <2>1, XdgAssumption DEF Window
    <3> QED BY <3>1 DEF Box
  <2>5. t = Place(f, place) BY <2>1
  <2> HIDE DEF place
  <2>6. /\ t \in Window /\ Else(f, t)
        /\ t.serial = f.serial /\ t.timer = f.timer
        /\ t.idle = f.idle /\ t.scheduled = f.scheduled
    BY <2>1, <2>4, <2>5, PlaceIs
  <2> QED BY <2>1, <2>3, <2>6, PlaceRegular
<1> QED BY <1>1, <1>2

\* What view_maximize() changes before the new geometry is decided.
Kept(s) == [s EXCEPT !.grab = None, !.natural = IF s.maximized THEN @ ELSE s.pending]
Told(s) == IF s.initialized THEN Request(s) ELSE s
Turned(s, maximized) == [s EXCEPT !.maximized = maximized]

LEMMA KeptIs ==
  ASSUME NEW s \in Window, Regular(s)
  PROVE LET k == Kept(s)
        IN  /\ k \in Window /\ Regular(k)
            /\ Else([s EXCEPT !.grab = None], k) /\ k.initialized = s.initialized
            /\ k.current = s.current /\ k.pending = s.pending /\ k.wanted = s.wanted
            /\ k.maximized = s.maximized
            /\ k.natural = IF s.maximized THEN s.natural ELSE s.pending
            /\ k.serial = s.serial /\ k.timer = s.timer
            /\ k.idle = s.idle /\ k.scheduled = s.scheduled
<1> DEFINE n == IF s.maximized THEN s.natural ELSE s.pending
           k == [s EXCEPT !.grab = None, !.natural = n]
<1>1. n \in Box BY DEF Window
<1>2. Kept(s) = k BY DEF Kept
<1> HIDE DEF n
<1>3. /\ k \in Window
      /\ Else([s EXCEPT !.grab = None], k) /\ k.initialized = s.initialized
      /\ k.current = s.current /\ k.pending = s.pending /\ k.wanted = s.wanted
      /\ k.maximized = s.maximized /\ k.natural = n
      /\ k.serial = s.serial /\ k.timer = s.timer
      /\ k.idle = s.idle /\ k.scheduled = s.scheduled
  BY <1>1 DEF Window, Else
<1>4. /\ k.alive = s.alive /\ k.mapped = s.mapped /\ k.been_mapped = s.been_mapped
      /\ k.configures = s.configures /\ k.acked = s.acked /\ k.committed = s.committed
      /\ k.grab = None
  BY DEF Window
<1> HIDE DEF k
<1>5. Ordered(k) BY <1>3, <1>4 DEF Regular, Ordered
<1>6. Phases(k) BY <1>3, <1>4 DEF Regular, Phases
<1> QED BY <1>2, <1>3, <1>5, <1>6 DEF Regular, n

LEMMA TurnedIs ==
  ASSUME NEW s \in Window, Regular(s), NEW b \in BOOLEAN
  PROVE LET t == Turned(s, b)
        IN  /\ t \in Window /\ Regular(t) /\ Else(s, t)
            /\ t.current = s.current /\ t.pending = s.pending /\ t.wanted = s.wanted
            /\ t.maximized = b /\ t.natural = s.natural
            /\ t.serial = s.serial /\ t.timer = s.timer
            /\ t.idle = s.idle /\ t.scheduled = s.scheduled
<1> DEFINE t == Turned(s, b)
<1>1. /\ t \in Window /\ Else(s, t)
      /\ t.current = s.current /\ t.pending = s.pending /\ t.wanted = s.wanted
      /\ t.maximized = b /\ t.natural = s.natural
      /\ t.serial = s.serial /\ t.timer = s.timer
      /\ t.idle = s.idle /\ t.scheduled = s.scheduled
  BY DEF Window, Else, Turned
<1> HIDE DEF t
<1>2. Regular(t) BY <1>1, PlaceRegular
<1> QED BY <1>1, <1>2 DEF t

\* What is decided last is a size that is asked for, after the state was.
Decided(s, maximized) ==
    IF maximized THEN [ x |-> 0, w |-> MaxWidth ] ELSE s.natural

LEMMA SetMaximizedIs ==
  ASSUME NEW s \in Window, Regular(s), NEW b \in BOOLEAN, s.maximized # b
  PROVE LET geo == Decided(s, b)
        IN  /\ geo \in Box
            /\ SetMaximized(s, b) = Configure(Turned(Told(Kept(s)), b), geo)
<1> DEFINE kept == [s EXCEPT !.grab = None, !.natural = IF s.maximized THEN @ ELSE s.pending]
           asked == IF kept.initialized THEN Request(kept) ELSE kept
           geo == IF b THEN [ x |-> 0, w |-> MaxWidth ] ELSE kept.natural
<1>1. SetMaximized(s, b) = Configure([asked EXCEPT !.maximized = b], geo)
  BY DEF SetMaximized
<1>2. kept = Kept(s) BY DEF Kept
<1> HIDE DEF kept
<1>3. asked = Told(Kept(s)) BY <1>2 DEF Told
<1> HIDE DEF asked
<1>4. [asked EXCEPT !.maximized = b] = Turned(Told(Kept(s)), b) BY <1>3 DEF Turned
<1>5. ~b => kept.natural = s.natural
  <2>1. kept.natural = IF s.maximized THEN s.natural ELSE s.pending BY <1>2, KeptIs
  <2>2. s.maximized \in BOOLEAN BY DEF Window
  <2> QED BY <2>1, <2>2
<1>6. geo = Decided(s, b) BY <1>5 DEF Decided
<1>7. Decided(s, b) \in Box
  <2>1. [ x |-> 0, w |-> MaxWidth ] \in Box BY XdgAssumption DEF Box
  <2> QED BY <2>1 DEF Decided, Window
<1> HIDE DEF geo
<1> QED BY <1>1, <1>4, <1>6, <1>7

LEMMA ToldIs ==
  ASSUME NEW s \in Window, Regular(s)
  PROVE LET t == Told(s)
        IN  /\ t \in Window /\ Regular(t) /\ Else(s, t) /\ Boxes(s, t)
            /\ s.initialized => /\ Scheduled(s, s.scheduled.w, t)
                                /\ t.serial = t.scheduled.serial /\ t.timer = TRUE
            /\ ~s.initialized => t = s
<1>1. CASE s.initialized
  <2>1. Told(s) = Request(s) BY <1>1 DEF Told
  <2> QED BY <1>1, <2>1, RequestIs, RequestRegular
<1>2. CASE ~s.initialized
  <2>1. Told(s) = s BY <1>2 DEF Told
  <2> QED BY <1>2, <2>1 DEF Else, Boxes
<1> QED BY <1>1, <1>2

LEMMA SetMaximizedRegular ==
  ASSUME NEW s \in Window, Regular(s), NEW b \in BOOLEAN
  PROVE Regular(SetMaximized(s, b))
<1>1. CASE s.maximized = b BY <1>1 DEF SetMaximized
<1>2. CASE s.maximized # b
  <2> DEFINE k == Kept(s)  a == Told(k)  t == Turned(a, b)  geo == Decided(s, b)
  <2>1. geo \in Box /\ SetMaximized(s, b) = Configure(t, geo) BY <1>2, SetMaximizedIs
  <2>2. k \in Window /\ Regular(k) BY KeptIs
  <2> HIDE DEF k
  <2>3. a \in Window /\ Regular(a) BY <2>2, ToldIs
  <2> HIDE DEF a
  <2>4. t \in Window /\ Regular(t) BY <2>3, TurnedIs
  <2> HIDE DEF t, geo
  <2> QED BY <2>1, <2>4, ConfigureRegular
<1> QED BY <1>1, <1>2

\* What a commit leaves alone that answers no request
Shows(s, t) ==
    /\ Else(s, t)
    /\ t.natural = s.natural /\ t.maximized = s.maximized /\ t.wanted = s.wanted
    /\ t.serial = s.serial /\ t.timer = s.timer
    /\ t.idle = s.idle /\ t.scheduled.serial = s.scheduled.serial

Anchored(s) ==
    \/ s.grab # None
    \/ s.current.x # s.pending.x /\ Right(s.current) = Right(s.pending)

LEMMA ApplyGeometryIs ==
  ASSUME NEW s \in Window, NEW w \in Nat
  PROVE LET t == ApplyGeometry(s, w)
        IN  /\ t \in Window /\ Shows(s, t)
            /\ t.pending = s.pending /\ t.scheduled = s.scheduled
            /\ t.current =
                  [ x |-> IF Anchored(s) THEN Right(s.pending) - w ELSE s.pending.x, w |-> w ]
<1> DEFINE x == IF Anchored(s) THEN Right(s.pending) - w ELSE s.pending.x
           c == [ x |-> x, w |-> w ]
           t == [s EXCEPT !.current = c]
<1>1. ApplyGeometry(s, w) = t BY DEF ApplyGeometry, Anchored
<1>2. c \in Box
  <2>1. s.pending.x \in Int /\ s.pending.w \in Nat BY DEF Window, Box
  <2>2. x \in Int BY <2>1 DEF Right
  <2> QED BY <2>2 DEF Box
<1>3. c = [ x |-> IF Anchored(s) THEN Right(s.pending) - w ELSE s.pending.x, w |-> w ] OBVIOUS
<1> HIDE DEF c
<1>4. t \in Window /\ Shows(s, t) /\ t.pending = s.pending /\ t.scheduled = s.scheduled
      /\ t.current = c
  BY <1>2 DEF Window, Shows, Else
<1> HIDE DEF t
<1> QED BY <1>1, <1>3, <1>4

LEMMA ResyncIs ==
  ASSUME NEW s \in Window
  PROVE LET t == Resync(s)
        IN  IF s.serial # 0 THEN t = s
            ELSE /\ t \in Window /\ Shows(s, t) /\ t.current = s.current
                 /\ t.pending = s.current
                 /\ t.scheduled = [ serial |-> s.scheduled.serial, w |-> s.current.w ]
<1>1. CASE s.serial # 0 BY <1>1 DEF Resync
<1>2. CASE s.serial = 0
  <2> DEFINE sch == [s.scheduled EXCEPT !.w = s.current.w]
             t == [s EXCEPT !.pending = s.current, !.scheduled = sch]
  <2>1. Resync(s) = t BY <1>2 DEF Resync
  <2>2. s.scheduled \in Configured /\ s.current \in Box /\ s.current.w \in Nat
    BY DEF Window, Configured, Box
  <2>3. sch = [ serial |-> s.scheduled.serial, w |-> s.current.w ] /\ sch \in Configured
    BY <2>2 DEF Configured
  <2>4. sch.serial = s.scheduled.serial BY <2>3
  <2> HIDE DEF sch
  <2>5. /\ t \in Window /\ Shows(s, t) /\ t.current = s.current
        /\ t.pending = s.current /\ t.scheduled = sch
    BY <2>2, <2>3, <2>4 DEF Window, Configured, Shows, Else
  <2> HIDE DEF t
  <2> QED BY <1>2, <2>1, <2>3, <2>5
<1> QED BY <1>1, <1>2

\* The request that a commit answers is done with.
Answers(s) == s.serial > 0 /\ s.serial = s.committed
Done(s) == [s EXCEPT !.serial = 0, !.timer = FALSE]
Taken(s) == IF Answers(s) THEN Done(s) ELSE s
Unplaced(s) == s.pending.w = 0 /\ s.geometry > 0

LEMMA DoneIs ==
  ASSUME NEW s \in Window, Regular(s)
  PROVE LET t == Done(s)
        IN  /\ t \in Window /\ Regular(t) /\ Else(s, t) /\ Boxes(s, t)
            /\ t.serial = 0 /\ t.timer = FALSE
            /\ t.idle = s.idle /\ t.scheduled = s.scheduled
<1> DEFINE t == Done(s)
<1>1. /\ t \in Window /\ Else(s, t) /\ Boxes(s, t)
      /\ t.serial = 0 /\ t.timer = FALSE
      /\ t.idle = s.idle /\ t.scheduled = s.scheduled
  BY DEF Window, Else, Boxes, Done
<1> HIDE DEF t
<1>2. s.scheduled.serial \in Nat BY DEF Window
<1>3. Ordered(t) BY <1>1, <1>2, OrderedLater DEF Regular
<1>4. Phases(t) BY <1>1 DEF Regular, Phases, Else
<1> QED BY <1>1, <1>3, <1>4 DEF Regular, t

LEMMA TakenIs ==
  ASSUME NEW s \in Window, Regular(s)
  PROVE LET t == Taken(s)
        IN  /\ t \in Window /\ Regular(t) /\ Else(s, t) /\ Boxes(s, t)
            /\ t.idle = s.idle /\ t.scheduled = s.scheduled
            /\ IF Answers(s) THEN t.serial = 0 ELSE t = s
<1>1. CASE Answers(s)
  <2>1. Taken(s) = Done(s) BY <1>1 DEF Taken
  <2> QED BY <1>1, <2>1, DoneIs
<1>2. CASE ~Answers(s)
  <2>1. Taken(s) = s BY <1>2 DEF Taken
  <2> QED BY <1>2, <2>1 DEF Else, Boxes
<1> QED BY <1>1, <1>2

\* What a commit makes of a window that is placed.
Concludes(s, p, t) ==
    IF Unplaced(s) \/ Answers(p) \/ p.current.w # CommittedSize(p)
      THEN t = Resync(ApplyGeometry(Taken(p), CommittedSize(p)))
    ELSE t = p

LEMMA HandleCommitIs ==
  ASSUME NEW s \in Window, NEW t \in HandleCommit(s)
  PROVE \E p \in IF Unplaced(s) THEN InitialPosition([s EXCEPT !.pending.w = s.geometry])
                 ELSE {s} : Concludes(s, p, t)
BY DEF HandleCommit, Concludes, Unplaced, Answers, Taken, Done

LEMMA SizeIs ==
  ASSUME NEW s \in Window
  PROVE /\ CommittedSize(s) \in Nat
        /\ s.geometry = s.extent => CommittedSize(s) = s.geometry
BY DEF CommittedSize, Window

\* A size for a window that has none
Sized(s) == [s EXCEPT !.pending.w = s.geometry]

LEMMA SizedIs ==
  ASSUME NEW s \in Window
  PROVE LET t == Sized(s)
        IN  /\ t \in Window /\ Else(s, t) /\ t.current = s.current
            /\ t.pending = [ x |-> s.pending.x, w |-> s.geometry ]
            /\ t.natural = s.natural /\ t.wanted = s.wanted /\ t.maximized = s.maximized
            /\ t.serial = s.serial /\ t.timer = s.timer
            /\ t.idle = s.idle /\ t.scheduled = s.scheduled
<1> DEFINE b == [s.pending EXCEPT !.w = s.geometry]
           t == [s EXCEPT !.pending = b]
<1>1. Sized(s) = t BY DEF Sized
<1>2. s.pending \in Box /\ s.geometry \in Nat BY DEF Window
<1>3. b = [ x |-> s.pending.x, w |-> s.geometry ] /\ b \in Box BY <1>2 DEF Box
<1> HIDE DEF b
<1>4. /\ t \in Window /\ Else(s, t) /\ t.current = s.current /\ t.pending = b
      /\ t.natural = s.natural /\ t.wanted = s.wanted /\ t.maximized = s.maximized
      /\ t.serial = s.serial /\ t.timer = s.timer
      /\ t.idle = s.idle /\ t.scheduled = s.scheduled
  BY <1>3 DEF Window, Else
<1> HIDE DEF t
<1> QED BY <1>1, <1>3, <1>4

LEMMA ConcludesRegular ==
  ASSUME NEW s, NEW p \in Window, Regular(p), NEW t, Concludes(s, p, t)
  PROVE Regular(t)
<1>1. CASE t = p BY <1>1
<1>2. CASE t = Resync(ApplyGeometry(Taken(p), CommittedSize(p)))
  <2> DEFINE w == CommittedSize(p)  q == Taken(p)  a == ApplyGeometry(q, w)
  <2>1. w \in Nat BY SizeIs
  <2>2. q \in Window /\ Regular(q) BY TakenIs
  <2> HIDE DEF w, q
  <2>3. a \in Window /\ Shows(q, a) BY <2>1, <2>2, ApplyGeometryIs
  <2> HIDE DEF a
  <2>4. Regular(a) BY <2>2, <2>3, PlaceRegular DEF Shows
  <2>5. t = Resync(a) BY <1>2 DEF w, q, a
  <2>6. CASE a.serial # 0
    <3>1. t = a BY <2>3, <2>5, <2>6, ResyncIs
    <3> QED BY <2>4, <3>1
  <2>7. CASE a.serial = 0
    <3>1. t \in Window /\ Shows(a, t) BY <2>3, <2>5, <2>7, ResyncIs
    <3> QED BY <2>3, <2>4, <3>1, PlaceRegular DEF Shows
  <2> QED BY <2>6, <2>7
<1> QED BY <1>1, <1>2 DEF Concludes

LEMMA SizedRegular ==
  ASSUME NEW s \in Window, Regular(s)
  PROVE Sized(s) \in Window /\ Regular(Sized(s))
<1> DEFINE t == Sized(s)
<1>1. /\ t \in Window /\ Else(s, t) /\ t.serial = s.serial /\ t.timer = s.timer
      /\ t.idle = s.idle /\ t.scheduled = s.scheduled
  BY SizedIs
<1> HIDE DEF t
<1>2. Regular(t) BY <1>1, PlaceRegular
<1> QED BY <1>1, <1>2 DEF t

LEMMA HandleCommitRegular ==
  ASSUME NEW s \in Window, Regular(s), NEW t \in HandleCommit(s)
  PROVE Regular(t)
<1>1. PICK p \in IF Unplaced(s) THEN InitialPosition([s EXCEPT !.pending.w = s.geometry])
                 ELSE {s} : Concludes(s, p, t)
  BY HandleCommitIs
<1>2. Regular(p)
  <2>1. CASE Unplaced(s)
    <3>1. p \in InitialPosition(Sized(s)) BY <1>1, <2>1 DEF Sized
    <3>2. Sized(s) \in Window /\ Regular(Sized(s)) BY SizedRegular
    <3> QED BY <3>1, <3>2, InitialPositionRegular
  <2>2. CASE ~Unplaced(s)
    <3>1. p = s BY <1>1, <2>2
    <3> QED BY <3>1
  <2> QED BY <2>1, <2>2
<1>3. p \in Window BY <1>2 DEF Regular
<1> QED BY <1>1, <1>2, <1>3, ConcludesRegular

LEMMA ScheduleRegular ==
  ASSUME NEW s \in Window, Regular(s), s.initialized
  PROVE Regular(Schedule(s))
<1> DEFINE t == Schedule(s)
<1>1. /\ t \in Window /\ Else(s, t) /\ Scheduled(s, s.scheduled.w, t)
      /\ t.serial = s.serial /\ t.timer = s.timer
  BY ScheduleIs
<1> HIDE DEF t
<1>2. Ordered(t)
  <2>1. t.scheduled.serial = IF s.idle THEN s.scheduled.serial ELSE s.scheduled.serial + 1
    BY <1>1 DEF Scheduled
  <2>2. s.serial \in Nat /\ s.scheduled.serial \in Nat /\ s.serial <= s.scheduled.serial
    BY DEF Window, Regular, Ordered
  <2>3. t.serial <= t.scheduled.serial BY <1>1, <2>1, <2>2
  <2> QED BY <1>1, <2>1, <2>3, OrderedLater DEF Regular
<1>3. Phases(t) BY <1>1 DEF Regular, Phases, Else, Scheduled
<1> QED BY <1>1, <1>2, <1>3 DEF Regular, t

\* handle_map(), once the window is placed
Shifted(s) == [s EXCEPT !.current.x = s.pending.x]
Mapping(s) == [s EXCEPT !.mapped = TRUE, !.been_mapped = TRUE]

Placing(s) ==
    IF ~s.been_mapped /\ s.pending.w = 0 THEN InitialPosition(Sized(s)) ELSE {s}

LEMMA HandleMapIs ==
  ASSUME NEW s \in Window, NEW focused \in BOOLEAN, NEW t \in HandleMap(s, focused)
  PROVE \E p \in Placing(s) :
           LET m == Mapping(IF ~s.been_mapped THEN Shifted(p) ELSE p)
           IN  t = IF focused THEN Request(m) ELSE m
BY DEF HandleMap, Mapping, Shifted, Sized, Placing

LEMMA ShiftedIs ==
  ASSUME NEW s \in Window
  PROVE LET t == Shifted(s)
        IN  /\ t \in Window /\ Shows(s, t) /\ t.pending = s.pending
            /\ t.scheduled = s.scheduled
            /\ t.current = [ x |-> s.pending.x, w |-> s.current.w ]
<1> DEFINE c == [s.current EXCEPT !.x = s.pending.x]
           t == [s EXCEPT !.current = c]
<1>1. Shifted(s) = t BY DEF Shifted
<1>2. s.current \in Box /\ s.pending.x \in Int BY DEF Window, Box
<1>3. c = [ x |-> s.pending.x, w |-> s.current.w ] /\ c \in Box BY <1>2 DEF Box
<1> HIDE DEF c
<1>4. /\ t \in Window /\ Shows(s, t) /\ t.pending = s.pending
      /\ t.scheduled = s.scheduled /\ t.current = c
  BY <1>3 DEF Window, Shows, Else
<1> HIDE DEF t
<1> QED BY <1>1, <1>3, <1>4

\* What the window is asked for and what it is shown at.
Views(s, t) ==
    /\ Boxes(s, t) /\ t.obedient = s.obedient /\ t.alive = s.alive
    /\ t.serial = s.serial /\ t.timer = s.timer /\ t.idle = s.idle
    /\ t.scheduled = s.scheduled /\ t.configures = s.configures

LEMMA MappingIs ==
  ASSUME NEW s \in Window, Regular(s), s.initialized
  PROVE LET t == Mapping(s)
        IN  /\ t \in Window /\ Regular(t) /\ Views(s, t)
            /\ t.mapped = TRUE /\ t.been_mapped = TRUE /\ t.initialized = s.initialized
            /\ t.acked = s.acked /\ t.committed = s.committed /\ t.grab = s.grab
            /\ t.geometry = s.geometry /\ t.extent = s.extent
<1> DEFINE t == Mapping(s)
<1>1. /\ t \in Window /\ Views(s, t)
      /\ t.mapped = TRUE /\ t.been_mapped = TRUE /\ t.initialized = s.initialized
      /\ t.acked = s.acked /\ t.committed = s.committed /\ t.grab = s.grab
      /\ t.geometry = s.geometry /\ t.extent = s.extent
  BY DEF Window, Views, Boxes, Mapping
<1> HIDE DEF t
<1>2. Ordered(t) BY <1>1 DEF Regular, Ordered, Views
<1>3. Phases(t) BY <1>1 DEF Regular, Phases, Views
<1> QED BY <1>1, <1>2, <1>3 DEF Regular, t

LEMMA HandleMapRegular ==
  ASSUME NEW s \in Window, Regular(s), s.initialized, NEW focused \in BOOLEAN,
         NEW t \in HandleMap(s, focused)
  PROVE Regular(t)
<1>1. PICK p \in Placing(s) :
           LET m == Mapping(IF ~s.been_mapped THEN Shifted(p) ELSE p)
           IN  t = IF focused THEN Request(m) ELSE m
  BY HandleMapIs
<1>2. Sized(s) \in Window /\ Regular(Sized(s)) /\ Sized(s).initialized
  <2>1. Sized(s) \in Window /\ Else(s, Sized(s)) BY SizedIs
  <2> QED BY <2>1, SizedRegular DEF Else
<1>3. Regular(p) /\ p.initialized
  <2>1. CASE p = s BY <2>1
  <2>2. CASE p \in InitialPosition(Sized(s))
    <3>1. Regular(p) BY <1>2, <2>2, InitialPositionRegular
    <3>2. p.initialized BY <1>2, <2>2, InitialPositionElse DEF Else
    <3> QED BY <3>1, <3>2
  <2> QED BY <1>1, <2>1, <2>2 DEF Placing
<1>4. p \in Window BY <1>3 DEF Regular
<1> DEFINE v == IF ~s.been_mapped THEN Shifted(p) ELSE p  m == Mapping(v)
<1>5. v \in Window /\ Regular(v) /\ v.initialized
  <2>1. CASE ~s.been_mapped
    <3>1. Shifted(p) \in Window /\ Shows(p, Shifted(p)) BY <1>4, ShiftedIs
    <3>2. Regular(Shifted(p)) BY <1>3, <1>4, <3>1, PlaceRegular DEF Shows
    <3> QED BY <1>3, <2>1, <3>1, <3>2 DEF Shows, Else
  <2>2. CASE s.been_mapped BY <1>3, <1>4, <2>2
  <2> QED BY <2>1, <2>2
<1>6. t = IF focused THEN Request(m) ELSE m BY <1>1
<1> HIDE DEF v
<1>7. m \in Window /\ Regular(m) /\ m.initialized = v.initialized BY <1>5, MappingIs
<1> HIDE DEF m
<1>8. Regular(Request(m)) BY <1>5, <1>7, RequestRegular
<1> QED BY <1>6, <1>7, <1>8

LEMMA MoveResizeRegular ==
  ASSUME Regular(win), NEW geo \in Box, MoveResize(geo) PROVE Regular(win')
BY ConfigureRegular DEF MoveResize, Regular

LEMMA MaximizeRegular ==
  ASSUME Regular(win), NEW b \in BOOLEAN, Maximize(b) PROVE Regular(win')
BY SetMaximizedRegular DEF Maximize, Regular

LEMMA RestateRegular ==
  ASSUME Regular(win), Restate \/ SetDecorationMode PROVE Regular(win')
<1>1. win \in Window BY DEF Regular
<1>2. CASE Restate BY <1>1, <1>2, RequestRegular DEF Restate
<1>3. CASE SetDecorationMode BY <1>1, <1>3, ScheduleRegular DEF SetDecorationMode
<1> QED BY <1>2, <1>3

\* A part of the history of requests stays as it is
LEMMA OrderedSame ==
  ASSUME NEW s, NEW t, Ordered(s), t.committed = s.committed, t.acked = s.acked,
         t.scheduled = s.scheduled, t.serial = s.serial, t.idle = s.idle,
         t.configures = s.configures
  PROVE Ordered(t)
BY DEF Ordered

Grabbed(s) == [s EXCEPT !.grab = Right(s.current), !.maximized = FALSE]

LEMMA GrabbedIs ==
  ASSUME NEW s \in Window, Regular(s), s.mapped
  PROVE LET t == Grabbed(s)
        IN  /\ t \in Window /\ Regular(t) /\ Views([s EXCEPT !.maximized = FALSE], t)
            /\ t.maximized = FALSE /\ t.mapped = s.mapped /\ t.been_mapped = s.been_mapped
            /\ t.initialized = s.initialized /\ t.acked = s.acked
            /\ t.committed = s.committed /\ t.geometry = s.geometry /\ t.extent = s.extent
            /\ t.current = s.current /\ t.pending = s.pending /\ t.wanted = s.wanted
            /\ t.serial = s.serial /\ t.scheduled = s.scheduled
            /\ t.configures = s.configures /\ t.idle = s.idle /\ t.grab # None
<1> DEFINE g == Right(s.current)
           t == [s EXCEPT !.grab = g, !.maximized = FALSE]
<1>1. Grabbed(s) = t BY DEF Grabbed
<1>2. g \in Int /\ g # None
  <2>1. s.current.x \in Int /\ s.current.w \in Nat BY DEF Window, Box
  <2>2. g \in Int BY <2>1 DEF Right
  <2> QED BY <2>2, XdgAssumption
<1> HIDE DEF g
<1>3. /\ t \in Window /\ Views([s EXCEPT !.maximized = FALSE], t)
      /\ t.maximized = FALSE /\ t.mapped = s.mapped /\ t.been_mapped = s.been_mapped
      /\ t.initialized = s.initialized /\ t.acked = s.acked
      /\ t.committed = s.committed /\ t.geometry = s.geometry /\ t.extent = s.extent
      /\ t.grab = g
  BY <1>2 DEF Window, Views, Boxes
<1>4. /\ t.current = s.current /\ t.pending = s.pending /\ t.wanted = s.wanted
      /\ t.serial = s.serial /\ t.scheduled = s.scheduled /\ t.timer = s.timer
      /\ t.configures = s.configures /\ t.idle = s.idle /\ t.alive = s.alive
  BY DEF Window
<1> HIDE DEF t
<1>5. Ordered(t) BY <1>3, <1>4, OrderedSame DEF Regular
<1>6. Phases(t) BY <1>2, <1>3, <1>4 DEF Regular, Phases
<1> QED BY <1>1, <1>2, <1>3, <1>4, <1>5, <1>6 DEF Regular

LEMMA ResizeBeginRegular ==
  ASSUME Regular(win), ResizeBegin PROVE Regular(win')
<1> DEFINE g == Grabbed(win)
<1>1. win \in Window /\ win.mapped /\ win.initialized BY DEF Regular, Phases, ResizeBegin
<1>2. g \in Window /\ Regular(g) /\ g.initialized = win.initialized BY <1>1, GrabbedIs
<1>3. win' = Request(g) BY DEF ResizeBegin, Grabbed
<1> HIDE DEF g
<1> QED BY <1>1, <1>2, <1>3, RequestRegular

LEMMA ResizeMotionRegular ==
  ASSUME Regular(win), NEW w \in Widths, ResizeMotion(w) PROVE Regular(win')
<1> DEFINE geo == [ x |-> win.grab - w, w |-> w ]
<1>1. win \in Window BY DEF Regular
<1>2. win.grab \in Int /\ w \in Nat BY <1>1, XdgAssumption DEF ResizeMotion, Window
<1>3. geo \in Box BY <1>2 DEF Box
<1>4. win' = Configure(win, geo) BY DEF ResizeMotion
<1> HIDE DEF geo
<1> QED BY <1>1, <1>3, <1>4, ConfigureRegular

LEMMA ResizeEndRegular ==
  ASSUME Regular(win), ResizeEnd PROVE Regular(win')
<1>1. win \in Window /\ win' = [win EXCEPT !.grab = None] BY DEF Regular, ResizeEnd
<1>2. /\ win' \in Window /\ win'.grab = None /\ win'.alive = win.alive
      /\ win'.timer = win.timer /\ win'.serial = win.serial /\ win'.idle = win.idle
      /\ win'.configures = win.configures /\ win'.initialized = win.initialized
      /\ win'.mapped = win.mapped /\ win'.been_mapped = win.been_mapped
      /\ win'.committed = win.committed /\ win'.acked = win.acked
      /\ win'.scheduled = win.scheduled
  BY <1>1 DEF Window
<1>3. Ordered(win') BY <1>2, OrderedSame DEF Regular
<1>4. Phases(win') BY <1>2 DEF Regular, Phases
<1> QED BY <1>2, <1>3, <1>4 DEF Regular

LEMMA HandleConfigureTimeoutRegular ==
  ASSUME NEW s \in Window, Regular(s)
  PROVE Regular(HandleConfigureTimeout(s))
<1> DEFINE d == Done(s)
           x == IF s.pending.w = 0 THEN Fallback ELSE s.pending.x
           c == [d.current EXCEPT !.x = x]
           m == [d EXCEPT !.current = c]
           p == [m EXCEPT !.pending = m.current]
<1>1. HandleConfigureTimeout(s) = IF s.mapped THEN p ELSE d
  BY DEF HandleConfigureTimeout, Done
<1>2. d \in Window /\ Regular(d) BY DoneIs
<1>3. x \in Int BY XdgAssumption DEF Window, Box
<1> HIDE DEF d, x
<1>4. c \in Box
  <2>1. d.current \in Box BY <1>2 DEF Window
  <2> QED BY <1>3, <2>1 DEF Box
<1> HIDE DEF c
<1>5. /\ m \in Window /\ Shows(d, m) /\ m.current = c BY <1>2, <1>4 DEF Window, Shows, Else
<1> HIDE DEF m
<1>6. p \in Window /\ Shows(m, p) BY <1>4, <1>5 DEF Window, Shows, Else
<1> HIDE DEF p
<1>7. Regular(m) BY <1>2, <1>5, PlaceRegular DEF Shows
<1>8. Regular(p) BY <1>5, <1>6, <1>7, PlaceRegular DEF Shows
<1> QED BY <1>1, <1>2, <1>8

LEMMA ConfigureTimeoutRegular ==
  ASSUME Regular(win), ConfigureTimeout PROVE Regular(win')
BY HandleConfigureTimeoutRegular DEF ConfigureTimeout, Regular

LEMMA SendConfigureIs ==
  ASSUME Regular(win), SendConfigure
  PROVE /\ win' \in Window /\ Boxes(win, win')
        /\ win'.obedient = win.obedient /\ win'.alive = win.alive
        /\ win'.mapped = win.mapped /\ win'.been_mapped = win.been_mapped
        /\ win'.grab = win.grab /\ win'.initialized = win.initialized
        /\ win'.acked = win.acked /\ win'.committed = win.committed
        /\ win'.geometry = win.geometry /\ win'.extent = win.extent
        /\ win'.serial = win.serial /\ win'.timer = win.timer
        /\ win'.scheduled = win.scheduled
        /\ win'.idle = FALSE
        /\ win'.configures = Append(win.configures, win.scheduled)
<1> DEFINE c == Append(win.configures, win.scheduled)
<1>1. win \in Window BY DEF Regular
<1>2. c \in Seq([ serial : Nat, w : Nat ]) BY <1>1 DEF Window
<1>3. win' = [win EXCEPT !.idle = FALSE, !.configures = c] BY DEF SendConfigure
<1> HIDE DEF c
<1>4. /\ win' \in Window /\ win'.configures = c /\ Boxes(win, win')
      /\ win'.obedient = win.obedient /\ win'.alive = win.alive
      /\ win'.mapped = win.mapped /\ win'.been_mapped = win.been_mapped
      /\ win'.grab = win.grab /\ win'.initialized = win.initialized
      /\ win'.acked = win.acked /\ win'.committed = win.committed
      /\ win'.geometry = win.geometry /\ win'.extent = win.extent
      /\ win'.serial = win.serial /\ win'.timer = win.timer
      /\ win'.scheduled = win.scheduled /\ win'.idle = FALSE
  BY <1>1, <1>2, <1>3 DEF Window, Boxes
<1> QED BY <1>4 DEF c

\* Where a configure is in the list that one more was appended to
LEMMA AppendIs ==
  ASSUME NEW q \in Seq(Configured), NEW e \in Configured
  PROVE LET r == Append(q, e)
        IN  /\ r \in Seq(Configured) /\ Len(r) = Len(q) + 1 /\ DOMAIN r = 1..Len(r)
            /\ DOMAIN q = 1..Len(q) /\ Len(q) \in Nat
            /\ \A i \in DOMAIN r : r[i] = IF i \in DOMAIN q THEN q[i] ELSE e
            /\ \A i \in DOMAIN r : i \in DOMAIN q \/ i = Len(q) + 1
OBVIOUS

LEMMA SendConfigureRegular ==
  ASSUME Regular(win), SendConfigure PROVE Regular(win')
<1> DEFINE q == win.configures  e == win.scheduled  r == Append(q, e)
<1>1. win \in Window /\ win.idle /\ win.initialized BY DEF Regular, Phases, SendConfigure
<1>2. q \in Seq(Configured) /\ e \in Configured BY <1>1 DEF Window, Configured
<1>3. /\ r \in Seq(Configured) /\ Len(r) = Len(q) + 1 /\ DOMAIN r = 1..Len(r)
      /\ DOMAIN q = 1..Len(q) /\ Len(q) \in Nat
      /\ \A i \in DOMAIN r : r[i] = IF i \in DOMAIN q THEN q[i] ELSE e
      /\ \A i \in DOMAIN r : i \in DOMAIN q \/ i = Len(q) + 1
  BY <1>2, AppendIs
<1>4. /\ win' \in Window /\ win'.configures = r /\ win'.idle = FALSE
      /\ win'.scheduled = e /\ win'.acked = win.acked /\ win'.committed = win.committed
      /\ win'.serial = win.serial
  BY SendConfigureIs
<1>5. /\ win.committed <= win.acked.serial /\ win.serial <= e.serial
      /\ win.acked.serial < e.serial
      /\ \A i \in DOMAIN q :
            /\ win.acked.serial < q[i].serial
            /\ q[i].serial < e.serial
            /\ \A j \in DOMAIN q : i < j => q[i].serial < q[j].serial
  BY <1>1 DEF Regular, Ordered
<1>6. e.serial \in Nat /\ win.acked.serial \in Nat BY <1>1 DEF Window
<1> HIDE DEF q, e, r
<1>7. ASSUME NEW i \in DOMAIN r
      PROVE /\ win.acked.serial < r[i].serial /\ r[i].serial <= e.serial
            /\ \A j \in DOMAIN r : i < j => r[i].serial < r[j].serial
  <2>1. CASE i \in DOMAIN q
    <3>1. r[i] = q[i] /\ q[i] \in Configured BY <1>2, <1>3, <2>1
    <3>2. q[i].serial \in Nat BY <3>1 DEF Configured
    <3>3. ASSUME NEW j \in DOMAIN r, i < j PROVE r[i].serial < r[j].serial
      BY <1>3, <1>5, <2>1, <3>1, <3>3
    <3> QED BY <1>5, <1>6, <2>1, <3>1, <3>2, <3>3
  <2>2. CASE i \notin DOMAIN q
    <3>1. r[i] = e BY <1>3, <2>2
    <3>2. i = Len(q) + 1 BY <1>3, <2>2
    <3>3. ASSUME NEW j \in DOMAIN r, i < j PROVE FALSE BY <1>3, <3>2, <3>3
    <3> QED BY <1>5, <1>6, <3>1, <3>3
  <2> QED BY <2>1, <2>2
<1>8. Ordered(win')
  <2>1. win'.acked.serial <= win'.scheduled.serial BY <1>4, <1>5, <1>6
  <2> QED BY <1>4, <1>5, <1>7, <2>1 DEF Ordered
<1>9. Phases(win')
  <2>1. /\ win'.alive = win.alive /\ win'.timer = win.timer /\ win'.initialized = win.initialized
        /\ win'.mapped = win.mapped /\ win'.been_mapped = win.been_mapped
        /\ win'.grab = win.grab
    BY SendConfigureIs
  <2> QED BY <1>1, <1>4, <2>1 DEF Regular, Phases
<1> QED BY <1>4, <1>8, <1>9 DEF Regular

\* The configures that are left after one was acknowledged
LEMMA RestIs ==
  ASSUME NEW q \in Seq(Configured), NEW i \in DOMAIN q
  PROVE LET r == SubSeq(q, i + 1, Len(q))
        IN  /\ r \in Seq(Configured) /\ q[i] \in Configured
            /\ i \in Nat
            /\ r # <<>> => q # <<>>
            /\ \A k \in DOMAIN r : k \in Nat /\ k + i \in DOMAIN q /\ i < k + i /\ r[k] = q[k + i]
<1> DEFINE r == SubSeq(q, i + 1, Len(q))
<1>1. i \in Nat /\ i >= 1 /\ Len(q) \in Nat /\ i <= Len(q) /\ DOMAIN q = 1..Len(q) OBVIOUS
<1>2. r \in Seq(Configured) /\ q[i] \in Configured
  <2>1. \A k \in (i + 1)..Len(q) : q[k] \in Configured BY <1>1
  <2> QED BY <1>1, <2>1
<1>3. Len(r) = Len(q) - i /\ DOMAIN r = 1..(Len(q) - i) BY <1>1
<1>4. ASSUME NEW k \in DOMAIN r
      PROVE k \in Nat /\ k + i \in DOMAIN q /\ i < k + i /\ r[k] = q[k + i]
  <2>1. k \in Nat /\ k >= 1 /\ k <= Len(q) - i BY <1>1, <1>3
  <2>2. r[k] = q[k + i] BY <1>1, <1>3, <2>1
  <2> QED BY <1>1, <2>1, <2>2
<1>5. q # <<>> OBVIOUS
<1> QED BY <1>1, <1>2, <1>4, <1>5

LEMMA AckConfigureIs ==
  ASSUME Regular(win), NEW i \in 1..MaxSerial, AckConfigure(i)
  PROVE /\ i \in DOMAIN win.configures /\ win.configures \in Seq(Configured)
        /\ win' \in Window /\ Boxes(win, win')
        /\ win'.obedient = win.obedient /\ win'.alive = win.alive
        /\ win'.mapped = win.mapped /\ win'.been_mapped = win.been_mapped
        /\ win'.grab = win.grab /\ win'.initialized = win.initialized
        /\ win'.committed = win.committed
        /\ win'.geometry = win.geometry /\ win'.extent = win.extent
        /\ win'.serial = win.serial /\ win'.timer = win.timer
        /\ win'.scheduled = win.scheduled /\ win'.idle = win.idle
        /\ win'.acked = win.configures[i]
        /\ win'.configures = SubSeq(win.configures, i + 1, Len(win.configures))
<1> DEFINE q == win.configures  r == SubSeq(q, i + 1, Len(q))  a == q[i]
<1>1. win \in Window BY DEF Regular
<1>2. i \in DOMAIN q BY DEF AckConfigure
<1>3. q \in Seq(Configured) BY <1>1 DEF Window, Configured
<1>4. r \in Seq(Configured) /\ a \in Configured BY <1>2, <1>3, RestIs
<1>5. win' = [win EXCEPT !.acked = a, !.configured = TRUE, !.configures = r]
  BY DEF AckConfigure
<1> HIDE DEF r, a
<1>6. /\ win' \in Window /\ win'.acked = a /\ win'.configures = r /\ Boxes(win, win')
      /\ win'.obedient = win.obedient /\ win'.alive = win.alive
      /\ win'.mapped = win.mapped /\ win'.been_mapped = win.been_mapped
      /\ win'.grab = win.grab /\ win'.initialized = win.initialized
      /\ win'.committed = win.committed
      /\ win'.geometry = win.geometry /\ win'.extent = win.extent
      /\ win'.serial = win.serial /\ win'.timer = win.timer
      /\ win'.scheduled = win.scheduled /\ win'.idle = win.idle
  BY <1>1, <1>4, <1>5 DEF Window, Configured, Boxes
<1> QED BY <1>2, <1>3, <1>6 DEF r, a

LEMMA AckConfigureRegular ==
  ASSUME Regular(win), NEW i \in 1..MaxSerial, AckConfigure(i) PROVE Regular(win')
<1> DEFINE q == win.configures  r == SubSeq(q, i + 1, Len(q))
<1>1. /\ i \in DOMAIN q /\ q \in Seq(Configured)
      /\ win' \in Window /\ win'.committed = win.committed /\ win'.serial = win.serial
      /\ win'.scheduled = win.scheduled /\ win'.idle = win.idle
      /\ win'.acked = q[i] /\ win'.configures = r
      /\ win'.alive = win.alive /\ win'.timer = win.timer
      /\ win'.mapped = win.mapped /\ win'.been_mapped = win.been_mapped
      /\ win'.grab = win.grab /\ win'.initialized = win.initialized
  BY AckConfigureIs
<1>2. /\ r \in Seq(Configured) /\ q[i] \in Configured /\ i \in Nat /\ (r # <<>> => q # <<>>)
      /\ \A k \in DOMAIN r : k \in Nat /\ k + i \in DOMAIN q /\ i < k + i /\ r[k] = q[k + i]
  BY <1>1, RestIs
<1>3. q # <<>> BY <1>1
<1>4. /\ win.committed <= win.acked.serial /\ win.serial <= win.scheduled.serial
      /\ \A k \in DOMAIN q :
            /\ win.acked.serial < q[k].serial
            /\ q[k].serial <= win.scheduled.serial
            /\ win.idle => q[k].serial < win.scheduled.serial
            /\ \A j \in DOMAIN q : k < j => q[k].serial < q[j].serial
  BY DEF Regular, Ordered
<1>5. win.committed \in Nat /\ win.acked.serial \in Nat /\ q[i].serial \in Nat
  BY <1>2 DEF Regular, Window, Configured
<1> HIDE DEF r, q
<1>6. ASSUME NEW k \in DOMAIN r
      PROVE /\ q[i].serial < r[k].serial
            /\ r[k].serial <= win.scheduled.serial
            /\ win.idle => r[k].serial < win.scheduled.serial
            /\ \A j \in DOMAIN r : k < j => r[k].serial < r[j].serial
  <2>1. k \in Nat /\ k + i \in DOMAIN q /\ i < k + i /\ r[k] = q[k + i] BY <1>2
  <2>2. ASSUME NEW j \in DOMAIN r, k < j PROVE r[k].serial < r[j].serial
    <3>1. j \in Nat /\ j + i \in DOMAIN q /\ r[j] = q[j + i] BY <1>2
    <3>2. k + i < j + i BY <1>2, <2>1, <2>2, <3>1
    <3> QED BY <1>4, <2>1, <3>1, <3>2
  <2> QED BY <1>1, <1>4, <2>1, <2>2
<1>7. Ordered(win')
  <2>1. win'.committed <= win'.acked.serial BY <1>1, <1>4, <1>5
  <2>2. win'.acked.serial <= win'.scheduled.serial BY <1>1, <1>4
  <2>3. win'.serial <= win'.scheduled.serial BY <1>1, <1>4
  <2>4. win'.idle => win'.acked.serial < win'.scheduled.serial BY <1>1, <1>4
  <2> QED BY <1>1, <1>6, <2>1, <2>2, <2>3, <2>4 DEF Ordered
<1>8. Phases(win') BY <1>1, <1>3 DEF Regular, Phases, q
<1> QED BY <1>1, <1>7, <1>8 DEF Regular

\* What a commit of the client brings, before the compositor handles it
Committing(s, geometry, extent) ==
    [s EXCEPT !.committed = s.acked.serial, !.geometry = geometry, !.extent = extent]

LEMMA CommittingIs ==
  ASSUME NEW s \in Window, Regular(s), NEW g \in Nat, NEW e \in Nat
  PROVE LET t == Committing(s, g, e)
        IN  /\ t \in Window /\ Regular(t) /\ Views(s, t)
            /\ t.mapped = s.mapped /\ t.been_mapped = s.been_mapped
            /\ t.initialized = s.initialized /\ t.grab = s.grab
            /\ t.acked = s.acked /\ t.committed = s.acked.serial
            /\ t.geometry = g /\ t.extent = e
<1> DEFINE t == Committing(s, g, e)
<1>1. s.acked.serial \in Nat BY DEF Window
<1>2. /\ t \in Window /\ Views(s, t)
      /\ t.mapped = s.mapped /\ t.been_mapped = s.been_mapped
      /\ t.initialized = s.initialized /\ t.grab = s.grab
      /\ t.acked = s.acked /\ t.committed = s.acked.serial
      /\ t.geometry = g /\ t.extent = e
  BY <1>1 DEF Window, Views, Boxes, Committing
<1> HIDE DEF t
<1>3. Ordered(t) BY <1>1, <1>2 DEF Regular, Ordered, Views
<1>4. Phases(t) BY <1>2 DEF Regular, Phases, Views
<1> QED BY <1>2, <1>3, <1>4 DEF Regular, t

LEMMA SizesAre == Sizes \subseteq Nat \ {0}
BY XdgAssumption DEF Sizes

LEMMA CommitIs ==
  ASSUME NEW g \in Sizes, NEW e \in Sizes, NEW focused \in BOOLEAN, Commit(g, e, focused)
  PROVE LET s == Committing(win, g, e)
        IN  \E m \in IF win.mapped THEN {s} ELSE HandleMap(s, focused) : win' \in HandleCommit(m)
BY DEF Commit, Committing

LEMMA CommitRegular ==
  ASSUME Regular(win), NEW g \in Sizes, NEW e \in Sizes, NEW focused \in BOOLEAN,
         Commit(g, e, focused)
  PROVE Regular(win')
<1> DEFINE s == Committing(win, g, e)
<1>1. PICK m \in IF win.mapped THEN {s} ELSE HandleMap(s, focused) : win' \in HandleCommit(m)
  BY CommitIs
<1>2. win \in Window /\ g \in Nat /\ e \in Nat BY SizesAre DEF Regular
<1>3. s \in Window /\ Regular(s) /\ s.initialized
  <2>1. s \in Window /\ Regular(s) /\ s.initialized = win.initialized
    BY <1>2, CommittingIs
  <2> QED BY <2>1 DEF Commit
<1> HIDE DEF s
<1>4. Regular(m) BY <1>1, <1>3, HandleMapRegular
<1>5. m \in Window BY <1>4 DEF Regular
<1> QED BY <1>1, <1>4, <1>5, HandleCommitRegular

LEMMA CommitNothingRegular ==
  ASSUME Regular(win), CommitNothing
  PROVE Regular(win')
<1> DEFINE s == Committing(win, win.geometry, win.extent)
<1>1. win \in Window /\ win.geometry \in Nat /\ win.extent \in Nat BY DEF Regular, Window
<1>2. s \in Window /\ Regular(s) BY <1>1, CommittingIs
<1>3. s = [win EXCEPT !.committed = win.acked.serial]
  BY <1>1 DEF Committing, Window
<1>4. win' \in HandleCommit(s) BY <1>3 DEF CommitNothing
<1> HIDE DEF s
<1> QED BY <1>2, <1>4, HandleCommitRegular

\* The xdg_surface after its window was unmapped
Reset(s, explicit) ==
    [s EXCEPT !.mapped = FALSE, !.grab = None, !.initialized = FALSE,
              !.configured = FALSE, !.idle = FALSE, !.configures = <<>>,
              !.committed = s.acked.serial, !.extent = 0,
              !.geometry = IF explicit THEN @ ELSE 0]

LEMMA ResetRegular ==
  ASSUME NEW s \in Window, Regular(s), NEW b \in BOOLEAN
  PROVE Regular(Reset(s, b))
<1> DEFINE g == IF b THEN s.geometry ELSE 0
           t == [s EXCEPT !.mapped = FALSE, !.grab = None, !.initialized = FALSE,
                          !.configured = FALSE, !.idle = FALSE, !.configures = <<>>,
                          !.committed = s.acked.serial, !.extent = 0, !.geometry = g]
<1>1. Reset(s, b) = t BY DEF Reset
<1>2. g \in Nat /\ s.acked.serial \in Nat /\ s.acked.serial <= s.acked.serial
      /\ <<>> \in Seq([ serial : Nat, w : Nat ])
  BY DEF Window
<1> HIDE DEF g
<1>3. /\ t \in Window /\ t.mapped = FALSE /\ t.grab = None /\ t.idle = FALSE
      /\ t.configures = <<>> /\ t.acked = s.acked /\ t.committed = s.acked.serial
      /\ t.scheduled = s.scheduled /\ t.serial = s.serial /\ t.timer = s.timer
      /\ t.alive = s.alive
  BY <1>2 DEF Window
<1> HIDE DEF t
<1>4. Ordered(t) BY <1>2, <1>3 DEF Regular, Ordered
<1>5. Phases(t) BY <1>3 DEF Regular, Phases
<1> QED BY <1>1, <1>3, <1>4, <1>5 DEF Regular

LEMMA UnmapRegular ==
  ASSUME Regular(win), NEW b \in BOOLEAN, Unmap(b) PROVE Regular(win')
<1>1. win \in Window /\ win.initialized BY DEF Regular, Phases, Unmap
<1>2. PICK focused \in BOOLEAN :
         win' \in HandleCommit(Reset(IF focused THEN Request(win) ELSE win, b))
  BY DEF Unmap, Reset
<1> DEFINE s == IF focused THEN Request(win) ELSE win
<1>3. Regular(s) BY <1>1, RequestRegular
<1>4. s \in Window BY <1>3 DEF Regular
<1>5. win' \in HandleCommit(Reset(s, b)) BY <1>2
<1> HIDE DEF s
<1>6. Regular(Reset(s, b)) BY <1>3, <1>4, ResetRegular
<1>7. Reset(s, b) \in Window BY <1>6 DEF Regular
<1> QED BY <1>5, <1>6, <1>7, HandleCommitRegular

LEMMA DestroyRegular ==
  ASSUME Regular(win), Destroy PROVE Regular(win')
<1>1. win \in Window
      /\ win' = [win EXCEPT !.alive = FALSE, !.timer = FALSE, !.mapped = FALSE, !.grab = None]
  BY DEF Regular, Destroy
<1>2. /\ win' \in Window /\ win'.grab = None /\ win'.alive = FALSE /\ win'.mapped = FALSE
      /\ win'.serial = win.serial /\ win'.idle = win.idle
      /\ win'.configures = win.configures /\ win'.initialized = win.initialized
      /\ win'.committed = win.committed /\ win'.acked = win.acked
      /\ win'.scheduled = win.scheduled
  BY <1>1 DEF Window
<1>3. Ordered(win') BY <1>2, OrderedSame DEF Regular
<1>4. Phases(win') BY <1>2 DEF Regular, Phases
<1> QED BY <1>2, <1>3, <1>4 DEF Regular

\* The first commit of a window
Initialized(s) == [s EXCEPT !.initialized = TRUE, !.committed = s.acked.serial]

LEMMA InitializedIs ==
  ASSUME NEW s \in Window, Regular(s)
  PROVE LET t == Initialized(s)
        IN  /\ t \in Window /\ Regular(t) /\ Views(s, t)
            /\ t.mapped = s.mapped /\ t.been_mapped = s.been_mapped
            /\ t.initialized = TRUE /\ t.grab = s.grab
            /\ t.acked = s.acked /\ t.committed = s.acked.serial
            /\ t.geometry = s.geometry /\ t.extent = s.extent
<1> DEFINE t == Initialized(s)
<1>1. s.acked.serial \in Nat BY DEF Window
<1>2. /\ t \in Window /\ Views(s, t)
      /\ t.mapped = s.mapped /\ t.been_mapped = s.been_mapped
      /\ t.initialized = TRUE /\ t.grab = s.grab
      /\ t.acked = s.acked /\ t.committed = s.acked.serial
      /\ t.geometry = s.geometry /\ t.extent = s.extent
  BY <1>1 DEF Window, Views, Boxes, Initialized
<1> HIDE DEF t
<1>3. Ordered(t) BY <1>1, <1>2 DEF Regular, Ordered, Views
<1>4. Phases(t) BY <1>2 DEF Regular, Phases, Views
<1> QED BY <1>2, <1>3, <1>4 DEF Regular, t

LEMMA InitialCommitRegular ==
  ASSUME Regular(win), NEW b \in BOOLEAN, InitialCommit(b) PROVE Regular(win')
<1> DEFINE s == Initialized(win)  r == Request(s)
<1>1. win \in Window BY DEF Regular
<1>2. s \in Window /\ Regular(s) /\ s.initialized BY <1>1, InitializedIs
<1>3. win' = IF b THEN SetMaximized(r, TRUE) ELSE r BY DEF InitialCommit, Initialized
<1> HIDE DEF s
<1>4. Regular(r) BY <1>2, RequestRegular
<1>5. r \in Window BY <1>4 DEF Regular
<1> HIDE DEF r
<1>6. Regular(SetMaximized(r, TRUE)) BY <1>4, <1>5, SetMaximizedRegular
<1> QED BY <1>3, <1>4, <1>6

LEMMA XdgInitRegular ==
  ASSUME XdgInit
  PROVE /\ Regular(win)
        /\ win.alive /\ ~win.mapped /\ ~win.been_mapped /\ ~win.maximized /\ ~win.initialized
        /\ win.current = Empty /\ win.pending = Empty /\ win.wanted = Empty
        /\ win.scheduled.w = 0 /\ win.acked = [ serial |-> 0, w |-> 0 ]
        /\ win.committed = 0 /\ win.geometry = 0 /\ win.extent = 0
        /\ win.configures = <<>>
<1>1. PICK obedient \in BOOLEAN :
         win = [ obedient |-> obedient,
                 alive |-> TRUE, mapped |-> FALSE, been_mapped |-> FALSE, maximized |-> FALSE,
                 current |-> Empty, pending |-> Empty, natural |-> Empty,
                 serial |-> 0, timer |-> FALSE, grab |-> None,
                 initialized |-> FALSE, configured |-> FALSE, idle |-> FALSE,
                 scheduled |-> [ serial |-> 0, w |-> 0 ], configures |-> <<>>,
                 acked |-> [ serial |-> 0, w |-> 0 ], committed |-> 0,
                 geometry |-> 0, extent |-> 0, wanted |-> Empty ]
  BY DEF XdgInit
<1>2. Empty \in Box BY DEF Empty, Box
<1>3. win \in Window BY <1>1, <1>2 DEF Window
<1>4. Ordered(win) BY <1>1 DEF Ordered
<1>5. Phases(win) BY <1>1 DEF Phases
<1> QED BY <1>1, <1>3, <1>4, <1>5 DEF Regular

LEMMA XdgStepRegular ==
  ASSUME Regular(win), [XdgNext]_win PROVE Regular(win')
<1>1. CASE \E x \in Xs, w \in Widths : MoveResize([ x |-> x, w |-> w ])
  <2>1. PICK x \in Xs, w \in Widths : MoveResize([ x |-> x, w |-> w ]) BY <1>1
  <2>2. [ x |-> x, w |-> w ] \in Box BY XdgAssumption DEF Box
  <2> QED BY <2>1, <2>2, MoveResizeRegular
<1>2. CASE \E b \in BOOLEAN : Maximize(b) \/ InitialCommit(b) \/ Unmap(b)
  BY <1>2, MaximizeRegular, InitialCommitRegular, UnmapRegular
<1>3. CASE Restate \/ SetDecorationMode BY <1>3, RestateRegular
<1>4. CASE ResizeBegin BY <1>4, ResizeBeginRegular
<1>5. CASE ResizeEnd BY <1>5, ResizeEndRegular
<1>6. CASE \E w \in Widths : ResizeMotion(w) BY <1>6, ResizeMotionRegular
<1>7. CASE SendConfigure BY <1>7, SendConfigureRegular
<1>8. CASE ConfigureTimeout BY <1>8, ConfigureTimeoutRegular
<1>9. CASE \E i \in 1..MaxSerial : AckConfigure(i) BY <1>9, AckConfigureRegular
<1>10. CASE \E g, e \in Sizes, focused \in BOOLEAN : Commit(g, e, focused)
  BY <1>10, CommitRegular
<1>11. CASE CommitNothing BY <1>11, CommitNothingRegular
<1>12. CASE Destroy BY <1>12, DestroyRegular
<1>13. CASE UNCHANGED win BY <1>13
<1> QED BY <1>1, <1>2, <1>3, <1>4, <1>5, <1>6, <1>7, <1>8, <1>9, <1>10, <1>11, <1>12, <1>13
     DEF XdgNext

LEMMA RegularIsTyped == ASSUME Regular(win) PROVE XdgTypeOK
BY DEF Regular, Ordered, Phases, XdgTypeOK

\* The timer of a request is armed exactly while one is outstanding, and serials are not
\* ahead of what was scheduled, for every client: the assertions of handle_commit() and
\* handle_configure_timeout() in src/xdg.c.
THEOREM ConfigureTimerIsRight == XdgSpec => []XdgTypeOK
<1>1. XdgInit => Regular(win) BY XdgInitRegular
<1>2. Regular(win) /\ [XdgNext]_win => Regular(win)' BY XdgStepRegular
<1>3. Regular(win) => XdgTypeOK BY RegularIsTyped
<1> QED BY <1>1, <1>2, <1>3, PTL DEF XdgSpec

----------------------------------------------------------------------------
(* A client that answers in time, and as it is asked *)

\* No size is only ever asked for before one is.
Rising(s) ==
    /\ s.scheduled.w = 0 => s.acked.w = 0
    /\ \A i \in DOMAIN s.configures :
          /\ s.scheduled.w = 0 => s.configures[i].w = 0
          /\ s.configures[i].w = 0 => s.acked.w = 0
          /\ \A j \in DOMAIN s.configures :
                i < j /\ s.configures[j].w = 0 => s.configures[i].w = 0

\* To ask for no size is to ask for the one that the window has.
Asks(s, w) == w = s.pending.w \/ (w = 0 /\ s.mapped /\ s.extent = s.pending.w)

\* No configure since the last request asks for another size than the last request did.
Recent(s) ==
    /\ Asks(s, s.scheduled.w)
    /\ s.acked.serial >= s.serial => Asks(s, s.acked.w)
    /\ \A i \in DOMAIN s.configures :
          s.configures[i].serial >= s.serial => Asks(s, s.configures[i].w)

BeforeMap(s) ==
    /\ s.committed = 0 /\ s.geometry = 0 /\ s.extent = 0 /\ s.current = Empty
    /\ ~s.been_mapped
    /\ IF s.initialized THEN s.serial > 0
       ELSE s.pending = Empty /\ s.scheduled.w = 0 /\ s.acked.serial = 0

WhileMapped(s) ==
    /\ s.geometry = s.extent /\ s.extent > 0 /\ s.pending.w > 0
    /\ s.serial = 0 => s.current = s.pending /\ s.extent = s.pending.w

Punctual(s) ==
    /\ s.wanted = s.pending
    /\ Rising(s) /\ Recent(s)
    /\ IF s.mapped THEN WhileMapped(s) ELSE BeforeMap(s)

\* Before it is mapped, a window has a size only if it is maximized.
InTime(s) ==
    /\ Punctual(s)
    /\ ~s.mapped => /\ s.natural.w = 0
                    /\ s.pending.w = IF s.maximized THEN MaxWidth ELSE 0

XdgInv == Regular(win) /\ (win.obedient /\ win.alive => InTime(win))

LEMMA InTimeAgrees == ASSUME XdgInv PROVE ViewsAgree
<1>1. XdgTypeOK BY RegularIsTyped DEF XdgInv
<1>2. IdleIsInSync BY DEF XdgInv, InTime, Punctual, WhileMapped, IdleIsInSync
<1>3. SettledAsWanted BY DEF XdgInv, InTime, Punctual, WhileMapped, SettledAsWanted, Settled
<1> QED BY <1>1, <1>2, <1>3 DEF ViewsAgree

LEMMA SerialsAre ==
  ASSUME NEW s \in Window
  PROVE /\ s.acked.serial \in Nat /\ s.scheduled.serial \in Nat /\ s.serial \in Nat
        /\ s.acked.w \in Nat /\ s.scheduled.w \in Nat
        /\ \A i \in DOMAIN s.configures :
              s.configures[i].serial \in Nat /\ s.configures[i].w \in Nat
<1>1. s.configures \in Seq(Configured) BY DEF Window, Configured
<1>2. ASSUME NEW i \in DOMAIN s.configures
      PROVE s.configures[i].serial \in Nat /\ s.configures[i].w \in Nat
  <2>1. s.configures[i] \in Configured BY <1>1
  <2> QED BY <2>1 DEF Configured
<1> QED BY <1>2 DEF Window

\* What was sent or acknowledged before a request has an earlier serial.
LEMMA EarlierSerials ==
  ASSUME NEW s \in Window, Regular(s), NEW w, NEW t \in Window, Else(s, t), Scheduled(s, w, t),
         t.serial = t.scheduled.serial
  PROVE /\ t.serial > 0 /\ t.serial \in Nat
        /\ ~(t.acked.serial >= t.serial)
        /\ \A i \in DOMAIN t.configures : ~(t.configures[i].serial >= t.serial)
<1>1. t.scheduled.serial = IF s.idle THEN s.scheduled.serial ELSE s.scheduled.serial + 1
  BY DEF Scheduled
<1>2. /\ s.acked.serial \in Nat /\ s.scheduled.serial \in Nat
      /\ \A i \in DOMAIN s.configures : s.configures[i].serial \in Nat
  BY SerialsAre
<1>3. /\ s.acked.serial <= s.scheduled.serial
      /\ s.idle => s.acked.serial < s.scheduled.serial
      /\ \A i \in DOMAIN s.configures :
            /\ s.configures[i].serial <= s.scheduled.serial
            /\ s.idle => s.configures[i].serial < s.scheduled.serial
  BY DEF Regular, Ordered
<1>4. t.acked = s.acked /\ t.configures = s.configures BY DEF Else
<1>5. CASE s.idle BY <1>1, <1>2, <1>3, <1>4, <1>5
<1>6. CASE ~s.idle BY <1>1, <1>2, <1>3, <1>4, <1>6
<1> QED BY <1>5, <1>6

\* A request repeats the size, and nothing that was sent before counts any more.
LEMMA RequestPunctual ==
  ASSUME NEW s \in Window, Regular(s), s.initialized, Punctual(s)
  PROVE Punctual(Request(s)) /\ Request(s).serial > 0
<1> DEFINE t == Request(s)
<1>1. /\ t \in Window /\ Else(s, t) /\ Boxes(s, t) /\ Scheduled(s, s.scheduled.w, t)
      /\ t.serial = t.scheduled.serial
  BY RequestIs
<1> HIDE DEF t
<1>2. t.scheduled.w = s.scheduled.w BY <1>1 DEF Scheduled
<1>3. /\ t.serial > 0 /\ t.serial \in Nat
      /\ ~(t.acked.serial >= t.serial)
      /\ \A i \in DOMAIN t.configures : ~(t.configures[i].serial >= t.serial)
  BY <1>1, EarlierSerials
<1>4. Rising(t) BY <1>1, <1>2 DEF Punctual, Rising, Else
<1>5. Recent(t)
  <2>1. Asks(t, t.scheduled.w) BY <1>1, <1>2 DEF Punctual, Recent, Asks, Else, Boxes
  <2> QED BY <1>3, <2>1 DEF Recent
<1>6. IF t.mapped THEN WhileMapped(t) ELSE BeforeMap(t)
  BY <1>1, <1>3 DEF Punctual, WhileMapped, BeforeMap, Else, Boxes
<1> QED BY <1>1, <1>3, <1>4, <1>5, <1>6 DEF Punctual, Boxes, t

LEMMA SchedulePunctual ==
  ASSUME NEW s \in Window, Punctual(s)
  PROVE Punctual(Schedule(s))
<1> DEFINE t == Schedule(s)
<1>1. /\ t \in Window /\ Else(s, t) /\ Boxes(s, t) /\ Scheduled(s, s.scheduled.w, t)
      /\ t.serial = s.serial
  BY ScheduleIs
<1> HIDE DEF t
<1>2. t.scheduled.w = s.scheduled.w BY <1>1 DEF Scheduled
<1>4. Rising(t) BY <1>1, <1>2 DEF Punctual, Rising, Else
<1>5. Recent(t) BY <1>1, <1>2 DEF Punctual, Recent, Asks, Else, Boxes
<1>6. IF t.mapped THEN WhileMapped(t) ELSE BeforeMap(t)
  BY <1>1, <1>2 DEF Punctual, WhileMapped, BeforeMap, Else, Boxes
<1> QED BY <1>1, <1>4, <1>5, <1>6 DEF Punctual, Boxes, t

\* A size that is asked for is asked for by every configure from then on; a position alone is
\* taken at once only if no request is outstanding.
LEMMA ConfigurePunctual ==
  ASSUME NEW s \in Window, Regular(s), s.initialized, Punctual(s), NEW geo \in Box, geo.w > 0
  PROVE Punctual(Configure(s, geo))
<1> DEFINE t == Configure(s, geo)
<1>1. /\ t \in Window /\ Else(s, t) /\ t.pending = geo /\ t.wanted = geo
      /\ IF geo.w # s.pending.w THEN Asked(s, geo, t) ELSE Placed(s, geo, t)
  BY ConfigureIs
<1> HIDE DEF t
<1>2. CASE geo.w # s.pending.w
  <2>1. /\ Scheduled(s, geo.w, t) /\ t.serial = t.scheduled.serial /\ t.current = s.current
        /\ t.scheduled.w = geo.w
    BY <1>1, <1>2 DEF Asked, Scheduled
  <2>2. /\ t.serial > 0 /\ t.serial \in Nat
        /\ ~(t.acked.serial >= t.serial)
        /\ \A i \in DOMAIN t.configures : ~(t.configures[i].serial >= t.serial)
    BY <1>1, <2>1, EarlierSerials
  <2>3. Rising(t) BY <1>1, <2>1 DEF Punctual, Rising, Else
  <2>4. Recent(t)
    <3>1. Asks(t, t.scheduled.w) BY <1>1, <2>1 DEF Asks
    <3> QED BY <2>2, <3>1 DEF Recent
  <2>5. IF t.mapped THEN WhileMapped(t) ELSE BeforeMap(t)
    BY <1>1, <2>1, <2>2 DEF Punctual, WhileMapped, BeforeMap, Else
  <2>6. t.wanted = t.pending BY <1>1
  <2> QED BY <2>3, <2>4, <2>5, <2>6 DEF Punctual, t
<1>3. CASE geo.w = s.pending.w
  <2>1. /\ t.idle = s.idle /\ t.scheduled = s.scheduled /\ t.serial = s.serial
        /\ t.current = IF s.serial = 0 THEN [ x |-> geo.x, w |-> s.current.w ] ELSE s.current
    BY <1>1, <1>3 DEF Placed
  <2>2. t.pending.w = s.pending.w /\ t.wanted = t.pending /\ t.mapped = s.mapped
    BY <1>1, <1>3 DEF Else
  <2>3. Rising(t) BY <1>1, <2>1 DEF Punctual, Rising, Else
  <2>4. Recent(t) BY <1>1, <2>1, <2>2 DEF Punctual, Recent, Asks, Else
  <2>5. CASE s.mapped
    <3>1. s.serial = 0 => t.current = t.pending
      <4>1. s.serial = 0 => s.current.w = geo.w BY <1>3, <2>5 DEF Punctual, WhileMapped
      <4>2. geo = [ x |-> geo.x, w |-> geo.w ] BY DEF Box
      <4> QED BY <1>1, <2>1, <4>1, <4>2
    <3>2. WhileMapped(t) BY <1>1, <2>1, <2>2, <2>5, <3>1 DEF Punctual, WhileMapped, Else
    <3> QED BY <2>2, <2>3, <2>4, <2>5, <3>2 DEF Punctual, t
  <2>6. CASE ~s.mapped
    <3>1. s.serial > 0 /\ s.serial \in Nat BY <2>6 DEF Punctual, BeforeMap, Window
    <3>2. BeforeMap(t) BY <1>1, <2>1, <2>6, <3>1 DEF Punctual, BeforeMap, Else
    <3> QED BY <2>2, <2>3, <2>4, <2>6, <3>2 DEF Punctual, t
  <2> QED BY <2>5, <2>6
<1> QED BY <1>2, <1>3 DEF t

\* Only the geometry and the requests matter.
LEMMA PunctualSame ==
  ASSUME NEW s, NEW t, Punctual(s),
         t.mapped = s.mapped, t.been_mapped = s.been_mapped, t.initialized = s.initialized,
         t.configures = s.configures, t.acked = s.acked, t.committed = s.committed,
         t.geometry = s.geometry, t.extent = s.extent, t.current = s.current,
         t.pending = s.pending, t.wanted = s.wanted, t.serial = s.serial,
         t.scheduled = s.scheduled
  PROVE Punctual(t)
<1>1. Rising(t) BY DEF Punctual, Rising
<1>2. Recent(t) BY DEF Punctual, Recent, Asks
<1>3. IF t.mapped THEN WhileMapped(t) ELSE BeforeMap(t)
  BY DEF Punctual, WhileMapped, BeforeMap
<1> QED BY <1>1, <1>2, <1>3 DEF Punctual

LEMMA SetMaximizedInTime ==
  ASSUME NEW s \in Window, Regular(s), s.initialized, InTime(s), NEW b \in BOOLEAN,
         b \/ s.natural.w > 0
  PROVE InTime(SetMaximized(s, b))
<1>1. CASE s.maximized = b BY <1>1 DEF SetMaximized
<1>2. CASE s.maximized # b
  <2> DEFINE k == Kept(s)  a == Told(k)  t == Turned(a, b)  geo == Decided(s, b)
             u == Configure(t, geo)
  <2>1. geo \in Box /\ SetMaximized(s, b) = u BY <1>2, SetMaximizedIs
  <2>2. /\ k \in Window /\ Regular(k)
        /\ Else([s EXCEPT !.grab = None], k)
        /\ k.current = s.current /\ k.pending = s.pending /\ k.wanted = s.wanted
        /\ k.natural = IF s.maximized THEN s.natural ELSE s.pending
        /\ k.serial = s.serial /\ k.scheduled = s.scheduled
    BY KeptIs
  <2> HIDE DEF k
  <2>3. /\ k.mapped = s.mapped /\ k.been_mapped = s.been_mapped
        /\ k.initialized = s.initialized /\ k.configures = s.configures
        /\ k.acked = s.acked /\ k.committed = s.committed
        /\ k.geometry = s.geometry /\ k.extent = s.extent
    BY <2>2 DEF Else, Window
  <2>4. Punctual(k) BY <2>2, <2>3, PunctualSame DEF InTime
  <2>5. /\ a \in Window /\ Regular(a) /\ Else(k, a) /\ Boxes(k, a) BY <2>2, ToldIs
  <2>6. Punctual(a)
    <3>1. a = Request(k) BY <2>3 DEF Told
    <3> QED BY <2>2, <2>3, <2>4, <3>1, RequestPunctual
  <2> HIDE DEF a
  <2>7. /\ t \in Window /\ Regular(t) /\ Else(a, t)
        /\ t.current = a.current /\ t.pending = a.pending /\ t.wanted = a.wanted
        /\ t.maximized = b /\ t.natural = a.natural
        /\ t.serial = a.serial /\ t.scheduled = a.scheduled
    BY <2>5, TurnedIs
  <2> HIDE DEF t
  <2>8. Punctual(t) BY <2>6, <2>7, PunctualSame DEF Else
  <2>9. t.initialized /\ t.mapped = s.mapped BY <2>3, <2>5, <2>7 DEF Else
  <2>10. geo = IF b THEN [ x |-> 0, w |-> MaxWidth ] ELSE s.natural BY DEF Decided
  <2>11. geo.w > 0
    <3>1. CASE b BY <2>10, <3>1, XdgAssumption
    <3>2. CASE ~b BY <2>10, <3>2
    <3> QED BY <3>1, <3>2
  <2> HIDE DEF geo
  <2>12. Punctual(u) BY <2>1, <2>7, <2>8, <2>9, <2>11, ConfigurePunctual
  <2>13. Else(t, u) /\ u.pending = geo /\ u.natural = t.natural /\ u.maximized = t.maximized
    BY <2>1, <2>7, ConfigureIs
  <2> HIDE DEF u
  <2>14. ASSUME ~u.mapped
         PROVE u.natural.w = 0 /\ u.pending.w = IF u.maximized THEN MaxWidth ELSE 0
    <3>1. ~s.mapped BY <2>9, <2>13, <2>14 DEF Else
    <3>2. s.natural.w = 0 /\ s.pending.w = IF s.maximized THEN MaxWidth ELSE 0
      BY <3>1 DEF InTime
    <3>3. b = TRUE BY <3>2
    <3>4. ~s.maximized BY <1>2, <3>3 DEF Window
    <3>5. k.natural = s.pending BY <2>2, <3>4
    <3>6. u.natural = s.pending BY <2>5, <2>7, <2>13, <3>5 DEF Boxes
    <3>7. u.maximized = TRUE /\ u.pending = [ x |-> 0, w |-> MaxWidth ]
      BY <2>7, <2>10, <2>13, <3>3
    <3> QED BY <3>2, <3>4, <3>6, <3>7
  <2> QED BY <2>1, <2>12, <2>14 DEF InTime, u
<1> QED BY <1>1, <1>2

LEMMA MoveResizeInTime ==
  ASSUME Regular(win), InTime(win), NEW geo \in Box, geo.w > 0, MoveResize(geo)
  PROVE InTime(win')
<1>1. win \in Window /\ win.pending.w > 0 /\ ~win.maximized BY DEF Regular, MoveResize
<1>2. win.mapped BY <1>1 DEF InTime
<1>3. win.initialized BY <1>2 DEF Regular, Phases
<1>4. win' = Configure(win, geo) BY DEF MoveResize
<1>5. Punctual(win') BY <1>1, <1>3, <1>4, ConfigurePunctual DEF InTime
<1>6. win'.mapped = win.mapped
  <2>1. Else(win, win') BY <1>1, <1>4, ConfigureIs
  <2> QED BY <2>1 DEF Else
<1> QED BY <1>2, <1>5, <1>6 DEF InTime

LEMMA MaximizeInTime ==
  ASSUME Regular(win), InTime(win), NEW b \in BOOLEAN, b \/ win.natural.w > 0, Maximize(b)
  PROVE InTime(win')
BY SetMaximizedInTime DEF Maximize, Regular

LEMMA RestateInTime ==
  ASSUME Regular(win), InTime(win), Restate \/ SetDecorationMode
  PROVE InTime(win')
<1>1. win \in Window /\ win.initialized BY DEF Regular, Restate, SetDecorationMode
<1>2. Punctual(win') /\ Else(win, win') /\ Boxes(win, win')
  <2>1. CASE Restate
    <3>1. win' = Request(win) BY <2>1 DEF Restate
    <3> QED BY <1>1, <3>1, RequestIs, RequestPunctual DEF InTime
  <2>2. CASE SetDecorationMode
    <3>1. win' = Schedule(win) BY <2>2 DEF SetDecorationMode
    <3> QED BY <1>1, <3>1, ScheduleIs, SchedulePunctual DEF InTime
  <2> QED BY <2>1, <2>2
<1> QED BY <1>2 DEF InTime, Else, Boxes

LEMMA ResizeBeginInTime ==
  ASSUME Regular(win), InTime(win), ResizeBegin
  PROVE InTime(win')
<1> DEFINE g == Grabbed(win)
<1>1. win \in Window /\ win.mapped /\ win.initialized BY DEF Regular, Phases, ResizeBegin
<1>2. /\ g \in Window /\ Regular(g)
      /\ g.mapped = win.mapped /\ g.been_mapped = win.been_mapped
      /\ g.initialized = win.initialized /\ g.acked = win.acked
      /\ g.committed = win.committed /\ g.geometry = win.geometry /\ g.extent = win.extent
      /\ g.current = win.current /\ g.pending = win.pending /\ g.wanted = win.wanted
      /\ g.serial = win.serial /\ g.scheduled = win.scheduled
      /\ g.configures = win.configures
  BY <1>1, GrabbedIs
<1>3. win' = Request(g) BY DEF ResizeBegin, Grabbed
<1> HIDE DEF g
<1>4. Punctual(g) BY <1>2, PunctualSame DEF InTime
<1>5. Punctual(win') BY <1>1, <1>2, <1>3, <1>4, RequestPunctual
<1>6. win'.mapped = g.mapped
  <2>1. Else(g, win') BY <1>2, <1>3, RequestIs
  <2> QED BY <2>1 DEF Else
<1> QED BY <1>1, <1>2, <1>5, <1>6 DEF InTime

LEMMA ResizeMotionInTime ==
  ASSUME Regular(win), InTime(win), NEW w \in Widths, ResizeMotion(w)
  PROVE InTime(win')
<1> DEFINE geo == [ x |-> win.grab - w, w |-> w ]
<1>1. win \in Window /\ win.mapped /\ win.initialized BY DEF Regular, Phases, ResizeMotion
<1>2. win.grab \in Int /\ w \in Nat \ {0} BY <1>1, XdgAssumption DEF ResizeMotion, Window
<1>3. geo \in Box /\ geo.w > 0 BY <1>2 DEF Box
<1>4. win' = Configure(win, geo) BY DEF ResizeMotion
<1> HIDE DEF geo
<1>5. Punctual(win') BY <1>1, <1>3, <1>4, ConfigurePunctual DEF InTime
<1>6. win'.mapped = win.mapped
  <2>1. Else(win, win') BY <1>1, <1>3, <1>4, ConfigureIs
  <2> QED BY <2>1 DEF Else
<1> QED BY <1>1, <1>5, <1>6 DEF InTime

LEMMA ResizeEndInTime ==
  ASSUME Regular(win), InTime(win), ResizeEnd
  PROVE InTime(win')
<1>1. win \in Window /\ win' = [win EXCEPT !.grab = None] BY DEF Regular, ResizeEnd
<1>2. /\ win'.mapped = win.mapped /\ win'.been_mapped = win.been_mapped
      /\ win'.initialized = win.initialized /\ win'.acked = win.acked
      /\ win'.committed = win.committed /\ win'.geometry = win.geometry
      /\ win'.extent = win.extent /\ win'.current = win.current
      /\ win'.pending = win.pending /\ win'.wanted = win.wanted
      /\ win'.serial = win.serial /\ win'.scheduled = win.scheduled
      /\ win'.configures = win.configures
      /\ win'.natural = win.natural /\ win'.maximized = win.maximized
  BY <1>1 DEF Window
<1>3. Punctual(win') BY <1>2, PunctualSame DEF InTime
<1> QED BY <1>2, <1>3 DEF InTime

LEMMA SendConfigureInTime ==
  ASSUME Regular(win), InTime(win), SendConfigure
  PROVE InTime(win')
<1> DEFINE q == win.configures  e == win.scheduled  r == Append(q, e)
<1>1. win \in Window /\ win.idle /\ win.initialized BY DEF Regular, Phases, SendConfigure
<1>2. q \in Seq(Configured) /\ e \in Configured BY <1>1 DEF Window, Configured
<1>3. /\ DOMAIN r = 1..Len(r) /\ DOMAIN q = 1..Len(q) /\ Len(q) \in Nat
      /\ Len(r) = Len(q) + 1
      /\ \A i \in DOMAIN r : r[i] = IF i \in DOMAIN q THEN q[i] ELSE e
      /\ \A i \in DOMAIN r : i \in DOMAIN q \/ i = Len(q) + 1
  BY <1>2, AppendIs
<1>4. /\ win' \in Window /\ Boxes(win, win')
      /\ win'.mapped = win.mapped /\ win'.been_mapped = win.been_mapped
      /\ win'.initialized = win.initialized
      /\ win'.acked = win.acked /\ win'.committed = win.committed
      /\ win'.geometry = win.geometry /\ win'.extent = win.extent
      /\ win'.serial = win.serial /\ win'.scheduled = e
      /\ win'.configures = r
  BY SendConfigureIs
<1>5. /\ e.w = 0 => win.acked.w = 0
      /\ \A i \in DOMAIN q :
            /\ e.w = 0 => q[i].w = 0
            /\ q[i].w = 0 => win.acked.w = 0
            /\ \A j \in DOMAIN q : i < j /\ q[j].w = 0 => q[i].w = 0
  BY DEF InTime, Punctual, Rising
<1>6. /\ Asks(win, e.w)
      /\ win.acked.serial >= win.serial => Asks(win, win.acked.w)
      /\ \A i \in DOMAIN q : q[i].serial >= win.serial => Asks(win, q[i].w)
  BY DEF InTime, Punctual, Recent
<1> HIDE DEF q, e, r
<1>7. ASSUME NEW i \in DOMAIN r
      PROVE /\ e.w = 0 => r[i].w = 0
            /\ r[i].w = 0 => win.acked.w = 0
            /\ \A j \in DOMAIN r : i < j /\ r[j].w = 0 => r[i].w = 0
            /\ r[i].serial >= win.serial => Asks(win, r[i].w)
  <2>1. CASE i \in DOMAIN q
    <3>1. r[i] = q[i] BY <1>3, <2>1
    <3>2. ASSUME NEW j \in DOMAIN r, i < j, r[j].w = 0 PROVE r[i].w = 0
      <4>1. CASE j \in DOMAIN q BY <1>3, <1>5, <2>1, <3>1, <3>2, <4>1
      <4>2. CASE j \notin DOMAIN q BY <1>3, <1>5, <2>1, <3>1, <3>2, <4>2
      <4> QED BY <4>1, <4>2
    <3> QED BY <1>5, <1>6, <2>1, <3>1, <3>2
  <2>2. CASE i \notin DOMAIN q
    <3>1. r[i] = e BY <1>3, <2>2
    <3>2. i = Len(q) + 1 BY <1>3, <2>2
    <3>3. ASSUME NEW j \in DOMAIN r, i < j PROVE FALSE BY <1>3, <3>2, <3>3
    <3> QED BY <1>5, <1>6, <3>1, <3>3
  <2> QED BY <2>1, <2>2
<1>8. Rising(win') BY <1>4, <1>5, <1>7 DEF Rising
<1>9. Recent(win')
  <2>1. \A w : Asks(win', w) <=> Asks(win, w) BY <1>4 DEF Asks, Boxes
  <2> QED BY <1>4, <1>6, <1>7, <2>1 DEF Recent
<1>10. IF win'.mapped THEN WhileMapped(win') ELSE BeforeMap(win')
  BY <1>4 DEF InTime, Punctual, WhileMapped, BeforeMap, Boxes, e
<1>11. win'.wanted = win'.pending BY <1>4 DEF InTime, Punctual, Boxes
<1>12. Punctual(win') BY <1>8, <1>9, <1>10, <1>11 DEF Punctual
<1> QED BY <1>4, <1>12 DEF InTime, Boxes

LEMMA AckConfigureInTime ==
  ASSUME Regular(win), InTime(win), NEW i \in 1..MaxSerial, AckConfigure(i)
  PROVE InTime(win')
<1> DEFINE q == win.configures  r == SubSeq(q, i + 1, Len(q))
<1>1. /\ i \in DOMAIN q /\ q \in Seq(Configured)
      /\ win' \in Window /\ Boxes(win, win')
      /\ win'.mapped = win.mapped /\ win'.been_mapped = win.been_mapped
      /\ win'.initialized = win.initialized /\ win'.committed = win.committed
      /\ win'.geometry = win.geometry /\ win'.extent = win.extent
      /\ win'.serial = win.serial /\ win'.scheduled = win.scheduled
      /\ win'.acked = q[i] /\ win'.configures = r
  BY AckConfigureIs
<1>2. /\ i \in Nat
      /\ \A k \in DOMAIN r : k \in Nat /\ k + i \in DOMAIN q /\ i < k + i /\ r[k] = q[k + i]
  BY <1>1, RestIs
<1>3. win.initialized
  <2>1. q # <<>> BY <1>1
  <2> QED BY <2>1 DEF Regular, Phases
<1>4. \A k \in DOMAIN q :
         /\ win.scheduled.w = 0 => q[k].w = 0
         /\ \A j \in DOMAIN q : k < j /\ q[j].w = 0 => q[k].w = 0
         /\ q[k].serial >= win.serial => Asks(win, q[k].w)
  BY DEF InTime, Punctual, Rising, Recent
<1>5. Asks(win, win.scheduled.w) BY DEF InTime, Punctual, Recent
<1> HIDE DEF r, q
<1>6. ASSUME NEW k \in DOMAIN r
      PROVE /\ win.scheduled.w = 0 => r[k].w = 0
            /\ r[k].w = 0 => q[i].w = 0
            /\ \A j \in DOMAIN r : k < j /\ r[j].w = 0 => r[k].w = 0
            /\ r[k].serial >= win.serial => Asks(win, r[k].w)
  <2>1. k \in Nat /\ k + i \in DOMAIN q /\ i < k + i /\ r[k] = q[k + i] BY <1>2
  <2>2. ASSUME NEW j \in DOMAIN r, k < j, r[j].w = 0 PROVE r[k].w = 0
    <3>1. j \in Nat /\ j + i \in DOMAIN q /\ r[j] = q[j + i] BY <1>2
    <3>2. k + i < j + i BY <1>2, <2>1, <2>2, <3>1
    <3> QED BY <1>4, <2>1, <2>2, <3>1, <3>2
  <2>3. r[k].w = 0 => q[i].w = 0 BY <1>1, <1>4, <2>1
  <2>4. win.scheduled.w = 0 => r[k].w = 0 BY <1>4, <2>1
  <2>5. r[k].serial >= win.serial => Asks(win, r[k].w) BY <1>4, <2>1
  <2> QED BY <2>2, <2>3, <2>4, <2>5
<1>7. Rising(win')
  <2>1. win.scheduled.w = 0 => q[i].w = 0 BY <1>1, <1>4
  <2> QED BY <1>1, <1>6, <2>1 DEF Rising
<1>8. Recent(win')
  <2>1. \A w : Asks(win', w) <=> Asks(win, w) BY <1>1 DEF Asks, Boxes
  <2>2. q[i].serial >= win.serial => Asks(win, q[i].w) BY <1>1, <1>4
  <2> QED BY <1>1, <1>5, <1>6, <2>1, <2>2 DEF Recent
<1>9. IF win'.mapped THEN WhileMapped(win') ELSE BeforeMap(win')
  BY <1>1, <1>3 DEF InTime, Punctual, WhileMapped, BeforeMap, Boxes
<1>10. win'.wanted = win'.pending BY <1>1 DEF InTime, Punctual, Boxes
<1>11. Punctual(win') BY <1>7, <1>8, <1>9, <1>10 DEF Punctual
<1> QED BY <1>1, <1>11 DEF InTime, Boxes

LEMMA InitialCommitInTime ==
  ASSUME Regular(win), InTime(win), NEW b \in BOOLEAN, InitialCommit(b)
  PROVE InTime(win')
<1> DEFINE s == Initialized(win)  r == Request(s)
<1>1. win \in Window /\ ~win.initialized BY DEF Regular, InitialCommit
<1>2. ~win.mapped BY <1>1 DEF Regular, Phases
<1>3. /\ win.natural.w = 0 /\ win.pending.w = (IF win.maximized THEN MaxWidth ELSE 0)
      /\ win.wanted = win.pending /\ Rising(win)
      /\ win.committed = 0 /\ win.geometry = 0 /\ win.extent = 0 /\ win.current = Empty
      /\ ~win.been_mapped
      /\ win.pending = Empty /\ win.scheduled.w = 0 /\ win.acked.serial = 0
  BY <1>1, <1>2 DEF InTime, Punctual, BeforeMap
<1>4. /\ s \in Window /\ Regular(s) /\ Views(win, s)
      /\ s.mapped = win.mapped /\ s.been_mapped = win.been_mapped
      /\ s.initialized = TRUE /\ s.acked = win.acked /\ s.committed = win.acked.serial
      /\ s.geometry = win.geometry /\ s.extent = win.extent
  BY <1>1, InitializedIs
<1>5. win' = IF b THEN SetMaximized(r, TRUE) ELSE r BY DEF InitialCommit, Initialized
<1> HIDE DEF s
<1>6. /\ r \in Window /\ Else(s, r) /\ Boxes(s, r) /\ Scheduled(s, s.scheduled.w, r)
      /\ r.serial = r.scheduled.serial
  BY <1>4, RequestIs
<1>7. Regular(r) BY <1>4, RequestRegular
<1> HIDE DEF r
<1>8. /\ r.serial > 0 /\ r.serial \in Nat
      /\ ~(r.acked.serial >= r.serial)
      /\ \A i \in DOMAIN r.configures : ~(r.configures[i].serial >= r.serial)
  BY <1>4, <1>6, EarlierSerials
<1>9. /\ r.scheduled.w = 0 /\ r.pending = Empty /\ r.acked = win.acked
      /\ r.configures = win.configures
      /\ r.wanted = r.pending /\ r.natural = win.natural /\ r.maximized = win.maximized
      /\ ~r.mapped /\ ~r.been_mapped /\ r.initialized
      /\ r.committed = 0 /\ r.geometry = 0 /\ r.extent = 0 /\ r.current = Empty
  BY <1>2, <1>3, <1>4, <1>6 DEF Else, Boxes, Views, Scheduled
<1>10. Rising(r)
  <2>1. win.scheduled.w = r.scheduled.w BY <1>3, <1>9
  <2> QED BY <1>3, <1>9, <2>1 DEF Rising
<1>11. Recent(r) BY <1>8, <1>9 DEF Recent, Asks, Empty
<1>12. InTime(r)
  <2>1. BeforeMap(r) BY <1>8, <1>9 DEF BeforeMap
  <2>2. r.natural.w = 0 /\ r.pending.w = IF r.maximized THEN MaxWidth ELSE 0
    BY <1>3, <1>9
  <2> QED BY <1>9, <1>10, <1>11, <2>1, <2>2 DEF InTime, Punctual
<1>13. InTime(SetMaximized(r, TRUE)) BY <1>6, <1>7, <1>9, <1>12, SetMaximizedInTime
<1> QED BY <1>5, <1>12, <1>13

\* A commit that is ready to be handled: it is of what the client acknowledged.
Committable(m) ==
    /\ Punctual(m) /\ m.mapped /\ m.committed = m.acked.serial
    /\ m.acked.w # 0 => m.extent = m.acked.w

\* The commit that answers a request is of the size that was asked for, so that the window is
\* shown where it was wanted.
LEMMA HandleCommitInTime ==
  ASSUME NEW m \in Window, Regular(m), Committable(m), NEW t \in HandleCommit(m)
  PROVE Punctual(t) /\ t.mapped
<1>1. /\ m.geometry = m.extent /\ m.extent > 0 /\ m.pending.w > 0
      /\ m.serial = 0 => m.current = m.pending /\ m.extent = m.pending.w
  BY DEF Committable, Punctual, WhileMapped
<1>2. Concludes(m, m, t) /\ ~Unplaced(m)
  <2>1. ~Unplaced(m) BY <1>1 DEF Unplaced
  <2>2. PICK p \in {m} : Concludes(m, p, t) BY <2>1, HandleCommitIs
  <2> QED BY <2>1, <2>2
<1> DEFINE w == CommittedSize(m)  q == Taken(m)  a == ApplyGeometry(q, w)
<1>3. w \in Nat /\ w = m.extent BY <1>1, SizeIs
<1>4. /\ q \in Window /\ Else(m, q) /\ Boxes(m, q) /\ q.scheduled = m.scheduled
      /\ IF Answers(m) THEN q.serial = 0 ELSE q = m
  BY TakenIs
<1> HIDE DEF w, q
<1>5. /\ a \in Window /\ Shows(q, a) /\ a.pending = q.pending /\ a.scheduled = q.scheduled
      /\ a.current = [ x |-> IF Anchored(q) THEN Right(q.pending) - w ELSE q.pending.x, w |-> w ]
  BY <1>3, <1>4, ApplyGeometryIs
<1>6. t = Resync(a) \/ t = m BY <1>2 DEF Concludes, w, q
<1> HIDE DEF a
<1>7. CASE t = m BY <1>7 DEF Committable
<1>8. CASE t # m
  <2>1. t = Resync(a) /\ (Answers(m) \/ m.current.w # m.extent)
    <3>1. Answers(m) \/ m.current.w # w BY <1>2, <1>8 DEF Concludes, w
    <3> QED BY <1>3, <1>6, <1>8, <3>1
  <2>2. m.serial # 0 /\ m.serial \in Nat BY <1>1, <2>1 DEF Answers, Window
  <2>3. CASE Answers(m)
    <3>1. m.acked.serial = m.serial BY <2>3 DEF Answers, Committable
    <3>2. m.extent = m.pending.w
      <4>1. m.acked.serial >= m.serial BY <2>2, <3>1
      <4>2. Asks(m, m.acked.w) BY <4>1 DEF Committable, Punctual, Recent
      <4> QED BY <1>1, <4>2 DEF Asks, Committable
    <3>3. q.pending = m.pending /\ m.pending \in Box BY <1>4 DEF Boxes, Window
    <3>4. a.current = m.pending
      <4>1. m.pending = [ x |-> m.pending.x, w |-> m.pending.w ]
            /\ m.pending.x \in Int /\ m.pending.w \in Nat
        BY <3>3 DEF Box
      <4>2. Right(q.pending) - w = m.pending.x BY <1>3, <3>2, <3>3, <4>1 DEF Right
      <4> QED BY <1>3, <1>5, <3>2, <3>3, <4>1, <4>2
    <3>5. a.serial = 0 BY <1>4, <1>5, <2>3 DEF Shows
    <3>6. /\ t \in Window /\ Shows(a, t) /\ t.current = a.current /\ t.pending = a.current
          /\ t.scheduled = [ serial |-> a.scheduled.serial, w |-> a.current.w ]
      BY <1>5, <2>1, <3>5, ResyncIs
    <3>7. /\ t.current = m.pending /\ t.pending = m.pending /\ t.serial = 0
          /\ t.wanted = m.wanted /\ t.scheduled.w = m.pending.w
          /\ t.mapped = m.mapped /\ t.acked = m.acked /\ t.configures = m.configures
          /\ t.geometry = m.geometry /\ t.extent = m.extent
      BY <1>4, <1>5, <3>4, <3>5, <3>6 DEF Shows, Else, Boxes
    <3>8. Rising(t) BY <1>1, <3>7 DEF Committable, Punctual, Rising
    <3>9. Recent(t)
      <4>1. \A v : Asks(t, v) <=> Asks(m, v) BY <3>7 DEF Asks
      <4>2. Asks(m, m.acked.w)
        <5>1. m.acked.serial >= m.serial BY <2>2, <3>1
        <5> QED BY <5>1 DEF Committable, Punctual, Recent
      <4>3. ASSUME NEW i \in DOMAIN m.configures PROVE Asks(m, m.configures[i].w)
        <5>1. m.acked.serial < m.configures[i].serial BY DEF Regular, Ordered
        <5>2. m.configures[i].serial \in Nat BY SerialsAre
        <5>3. m.configures[i].serial >= m.serial BY <2>2, <3>1, <5>1, <5>2
        <5> QED BY <5>3 DEF Committable, Punctual, Recent
      <4>4. Asks(m, t.scheduled.w) BY <3>7 DEF Asks
      <4> QED BY <3>7, <4>1, <4>2, <4>3, <4>4 DEF Recent
    <3>10. WhileMapped(t) BY <1>1, <3>2, <3>7 DEF WhileMapped
    <3> QED BY <3>7, <3>8, <3>9, <3>10 DEF Committable, Punctual
  <2>4. CASE ~Answers(m)
    <3>1. q = m BY <1>4, <2>4
    <3>2. a.serial = m.serial BY <1>5, <3>1 DEF Shows
    <3>3. t = a BY <1>5, <2>1, <2>2, <3>2, ResyncIs
    <3>4. /\ t.pending = m.pending /\ t.serial = m.serial
          /\ t.wanted = m.wanted /\ t.scheduled = m.scheduled
          /\ t.mapped = m.mapped /\ t.acked = m.acked /\ t.configures = m.configures
          /\ t.geometry = m.geometry /\ t.extent = m.extent
      BY <1>5, <3>1, <3>3 DEF Shows, Else
    <3>5. Rising(t) BY <3>4 DEF Committable, Punctual, Rising
    <3>6. Recent(t) BY <3>4 DEF Committable, Punctual, Recent, Asks
    <3>7. WhileMapped(t) BY <1>1, <2>2, <3>4 DEF WhileMapped
    <3> QED BY <3>4, <3>5, <3>6, <3>7 DEF Committable, Punctual
  <2> QED BY <2>3, <2>4
<1> QED BY <1>7, <1>8

\* A window that is placed for its first map: all that was asked for since the last request is
\* the size it has.
Fits(p) ==
    /\ p.wanted = p.pending /\ p.pending.w > 0 /\ p.serial > 0
    /\ p.geometry = p.extent /\ p.extent > 0
    /\ Rising(p)
    /\ \A w \in {p.scheduled.w} \cup (IF p.acked.serial >= p.serial THEN {p.acked.w} ELSE {})
              \cup { p.configures[i].w : i \in
                        { j \in DOMAIN p.configures : p.configures[j].serial >= p.serial } } :
          w = p.pending.w \/ (w = 0 /\ p.extent = p.pending.w)

LEMMA FitsMapped ==
  ASSUME NEW p, Fits(p), NEW m, m.mapped = TRUE,
         m.wanted = p.wanted, m.pending = p.pending, m.serial = p.serial,
         m.geometry = p.geometry, m.extent = p.extent, m.scheduled = p.scheduled,
         m.acked = p.acked, m.configures = p.configures, p.serial \in Nat
  PROVE Punctual(m)
<1>1. Rising(m) BY DEF Fits, Rising
<1>2. Recent(m)
  <2>1. Asks(m, m.scheduled.w) BY DEF Fits, Asks
  <2>2. m.acked.serial >= m.serial => Asks(m, m.acked.w) BY DEF Fits, Asks
  <2>3. ASSUME NEW i \in DOMAIN m.configures, m.configures[i].serial >= m.serial
        PROVE Asks(m, m.configures[i].w)
    BY <2>3 DEF Fits, Asks
  <2> QED BY <2>1, <2>2, <2>3 DEF Recent
<1>3. WhileMapped(m) BY DEF Fits, WhileMapped
<1>4. m.wanted = m.pending BY DEF Fits
<1> QED BY <1>1, <1>2, <1>3, <1>4 DEF Punctual

\* The commit that maps a window
LEMMA FirstCommitFits ==
  ASSUME Regular(win), InTime(win), ~win.mapped, win.initialized,
         NEW e \in Nat, e > 0, NEW p \in Placing(Committing(win, e, e))
  PROVE p \in Window /\ Regular(p) /\ Else(Committing(win, e, e), p) /\ Fits(p)
<1> DEFINE s == Committing(win, e, e)
<1>1. win \in Window BY DEF Regular
<1>2. /\ s \in Window /\ Regular(s) /\ Views(win, s)
      /\ s.mapped = win.mapped /\ s.been_mapped = win.been_mapped
      /\ s.initialized = win.initialized
      /\ s.acked = win.acked /\ s.geometry = e /\ s.extent = e
  <2>1. e \in Nat /\ win \in Window /\ Regular(win) BY <1>1
  <2>2. /\ s \in Window /\ Regular(s) /\ Views(win, s)
        /\ s.mapped = win.mapped /\ s.been_mapped = win.been_mapped
        /\ s.initialized = win.initialized
        /\ s.acked = win.acked /\ s.committed = win.acked.serial
    BY <2>1, CommittingIs, ZenonT(60)
  <2>3. s.geometry = e /\ s.extent = e BY <2>1 DEF Committing, Window
  <2> QED BY <2>2, <2>3
<1>0. p \in Placing(s) OBVIOUS
<1> HIDE DEF s
<1>3. /\ ~win.been_mapped /\ win.serial > 0 /\ win.serial \in Nat
      /\ win.wanted = win.pending /\ Rising(win) /\ Recent(win)
      /\ win.pending.w = IF win.maximized THEN MaxWidth ELSE 0
  BY <1>1 DEF InTime, Punctual, BeforeMap, Window
<1>4. /\ s.pending = win.pending /\ s.wanted = win.wanted /\ s.serial = win.serial
      /\ s.scheduled = win.scheduled /\ s.configures = win.configures
      /\ s.maximized = win.maximized
  BY <1>2 DEF Views, Boxes
<1>5. Rising(s) BY <1>2, <1>3, <1>4 DEF Rising
<1>6. /\ s.scheduled.w = s.pending.w
      /\ s.acked.serial >= s.serial => s.acked.w = s.pending.w
      /\ \A i \in DOMAIN s.configures :
            s.configures[i].serial >= s.serial => s.configures[i].w = s.pending.w
  BY <1>2, <1>3, <1>4 DEF Recent, Asks
<1>7. CASE s.pending.w # 0
  <2>1. p = s BY <1>0, <1>7 DEF Placing
  <2>2. s.pending.w > 0 BY <1>2, <1>7, SMTT(30) DEF Window, Box
  <2>3. Fits(s) BY <1>2, <1>3, <1>4, <1>5, <1>6, <2>2 DEF Fits
  <2> QED BY <1>2, <2>1, <2>3 DEF Else, s
<1>8. CASE s.pending.w = 0
  <2> DEFINE z == Sized(s)
             b == [ x |-> z.pending.x, w |-> Available ]
             f == IF z.pending.w > Available THEN Configure(z, b) ELSE z
  <2>1. /\ z \in Window /\ Regular(z) /\ Else(s, z)
        /\ z.pending = [ x |-> s.pending.x, w |-> s.geometry ]
        /\ z.maximized = s.maximized /\ z.serial = s.serial /\ z.scheduled = s.scheduled
    BY <1>2, SizedIs, SizedRegular
  <2>2. ~z.maximized
    <3>1. win.maximized \in BOOLEAN BY <1>1 DEF Window
    <3> QED BY <1>3, <1>4, <1>8, <2>1, <3>1, XdgAssumption
  <2>3. p \in InitialPosition(z) BY <1>0, <1>2, <1>3, <1>8 DEF Placing
  <2>4. p \in Window /\ Regular(p) /\ Else(z, p)
    BY <2>1, <2>3, InitialPositionElse, InitialPositionRegular
  <2> HIDE DEF z
  <2>5. PICK x \in Xs :
           LET place == [ x |-> x, w |-> f.pending.w ]
           IN  f \in Window /\ p = Place(f, place)
    BY <2>1, <2>2, <2>3, InitialPositionIs
  <2>6. b \in Box
    <3>1. z.pending \in Box BY <2>1 DEF Window
    <3> QED BY <3>1, XdgAssumption DEF Box
  <2>7. /\ f.pending.w > 0 /\ f.serial > 0 /\ Else(z, f)
        /\ \A w \in {f.scheduled.w} \cup (IF f.acked.serial >= f.serial THEN {f.acked.w} ELSE {})
                 \cup { f.configures[i].w : i \in
                        { j \in DOMAIN f.configures : f.configures[j].serial >= f.serial } } :
              w = f.pending.w \/ (w = 0 /\ f.extent = f.pending.w)
        /\ Rising(f)
    <3>1. CASE z.pending.w > Available
      <4>1. f = Configure(z, b) BY <3>1
      <4>2. b.w # z.pending.w /\ b.w > 0 /\ z.initialized
        <5>1. z.pending.w \in Nat BY <2>1 DEF Window, Box
        <5> QED BY <1>2, <2>1, <3>1, <5>1, XdgAssumption DEF Else
      <4>3. f \in Window /\ Else(z, f) /\ f.pending = b /\ Asked(z, b, f)
        BY <2>1, <2>6, <4>1, <4>2, ConfigureIs
      <4> HIDE DEF f
      <4>4. Scheduled(z, b.w, f) /\ f.serial = f.scheduled.serial /\ f.scheduled.w = b.w
        BY <4>3 DEF Asked, Scheduled
      <4>5. /\ f.serial > 0
            /\ ~(f.acked.serial >= f.serial)
            /\ \A i \in DOMAIN f.configures : ~(f.configures[i].serial >= f.serial)
        BY <2>1, <4>3, <4>4, EarlierSerials
      <4>6. Rising(f) BY <1>5, <2>1, <4>2, <4>3, <4>4 DEF Rising, Else
      <4> QED BY <4>2, <4>3, <4>4, <4>5, <4>6
    <3>2. CASE ~(z.pending.w > Available)
      <4>1. f = z BY <3>2
      <4>2. /\ f.pending.w = e /\ f.extent = e /\ f.serial = s.serial
            /\ f.scheduled = s.scheduled /\ f.acked = s.acked
            /\ f.configures = s.configures
        BY <1>2, <2>1, <4>1 DEF Else
      <4> HIDE DEF f
      <4>3. Rising(f) BY <1>5, <4>2 DEF Rising
      <4>4. Else(z, f) BY <4>1 DEF Else
      <4> QED BY <1>3, <1>4, <1>6, <1>8, <4>2, <4>3, <4>4
    <3> QED BY <3>1, <3>2
  <2> HIDE DEF f
  <2> DEFINE place == [ x |-> x, w |-> f.pending.w ]
  <2>8. place \in Box
    <3>1. f.pending \in Box /\ x \in Int BY <2>5, XdgAssumption DEF Window
    <3> QED BY <3>1 DEF Box
  <2>9. p = Place(f, place) /\ place.w = f.pending.w BY <2>5
  <2> HIDE DEF place
  <2>10. /\ p.pending = place /\ p.wanted = place /\ Else(f, p)
         /\ p.serial = f.serial /\ p.scheduled = f.scheduled
    BY <2>5, <2>8, <2>9, PlaceIs
  <2>11. /\ p.acked = f.acked /\ p.configures = f.configures /\ p.extent = f.extent
         /\ p.geometry = f.geometry
    BY <2>10 DEF Else
  <2>12. p.geometry = e /\ p.extent = e BY <1>2, <2>1, <2>7, <2>11 DEF Else
  <2>13. Rising(p) BY <2>7, <2>10, <2>11 DEF Rising
  <2>14. Fits(p) BY <2>7, <2>9, <2>10, <2>11, <2>12, <2>13 DEF Fits
  <2> QED BY <2>1, <2>4, <2>14 DEF Else, s
<1> QED BY <1>7, <1>8

LEMMA CommitInTime ==
  ASSUME Regular(win), InTime(win), win.obedient, NEW g \in Sizes, NEW e \in Sizes,
         NEW focused \in BOOLEAN, Commit(g, e, focused)
  PROVE InTime(win')
<1> DEFINE s == Committing(win, e, e)
<1>1. /\ win \in Window /\ win.initialized /\ g = e /\ e \in Nat /\ e > 0
      /\ e = win.acked.w \/ (win.acked.w = 0 /\ win.extent \in {0, e})
  BY SizesAre DEF Regular, Commit, MayCommit
<1>2. /\ s \in Window /\ Regular(s) /\ Views(win, s)
      /\ s.mapped = win.mapped /\ s.been_mapped = win.been_mapped
      /\ s.initialized = win.initialized
      /\ s.acked = win.acked /\ s.committed = win.acked.serial
      /\ s.geometry = e /\ s.extent = e
  <2>1. e \in Nat /\ win \in Window /\ Regular(win) BY <1>1
  <2>2. /\ s \in Window /\ Regular(s) /\ Views(win, s)
        /\ s.mapped = win.mapped /\ s.been_mapped = win.been_mapped
        /\ s.initialized = win.initialized
        /\ s.acked = win.acked /\ s.committed = win.acked.serial
    BY <2>1, CommittingIs
  <2>3. s.geometry = e /\ s.extent = e BY <2>1 DEF Committing, Window
  <2> QED BY <2>2, <2>3
<1>3. PICK m \in IF win.mapped THEN {s} ELSE HandleMap(s, focused) : win' \in HandleCommit(m)
  BY <1>1, CommitIs
<1>4. s.acked.w # 0 => s.extent = s.acked.w BY <1>1, <1>2
<1>5. Regular(m) /\ Committable(m)
  <2>1. CASE win.mapped
    <3>1. m = s BY <1>3, <2>1
    <3>2. /\ s.pending = win.pending /\ s.wanted = win.wanted /\ s.current = win.current
          /\ s.serial = win.serial /\ s.scheduled = win.scheduled
          /\ s.configures = win.configures
      BY <1>2 DEF Views, Boxes
    <3>3. /\ win.wanted = win.pending /\ Rising(win) /\ Recent(win) /\ WhileMapped(win)
      BY <2>1 DEF InTime, Punctual
    <3>4. Rising(s) BY <1>2, <3>2, <3>3 DEF Rising
    <3>5. win.acked.w = 0 => s.extent = win.extent
      BY <1>1, <1>2, <3>3 DEF WhileMapped
    <3>6. ASSUME NEW w, Asks(win, w), w = 0 => win.acked.w = 0
          PROVE Asks(s, w)
      BY <1>2, <3>2, <3>5, <3>6 DEF Asks
    <3>7. Recent(s)
      <4>1. Asks(s, s.scheduled.w) BY <3>2, <3>3, <3>6 DEF Rising, Recent
      <4>2. s.acked.serial >= s.serial => Asks(s, s.acked.w)
        BY <1>2, <3>2, <3>3, <3>6 DEF Recent
      <4>3. ASSUME NEW i \in DOMAIN s.configures, s.configures[i].serial >= s.serial
            PROVE Asks(s, s.configures[i].w)
        BY <3>2, <3>3, <3>6, <4>3 DEF Rising, Recent
      <4> QED BY <4>1, <4>2, <4>3 DEF Recent
    <3>8. WhileMapped(s)
      <4>1. ASSUME s.serial = 0 PROVE s.current = s.pending /\ s.extent = s.pending.w
        <5>1. win.serial = 0 /\ win.current = win.pending /\ win.extent = win.pending.w
          BY <3>2, <3>3, <4>1 DEF WhileMapped
        <5>2. win.acked.serial \in Nat BY <1>1, SerialsAre
        <5>3. Asks(win, win.acked.w) BY <3>3, <5>1, <5>2 DEF Recent
        <5>4. s.extent = win.pending.w
          BY <1>1, <1>2, <3>3, <3>5, <5>1, <5>3 DEF Asks, WhileMapped
        <5> QED BY <3>2, <5>1, <5>4
      <4> QED BY <1>1, <1>2, <3>2, <3>3, <4>1 DEF WhileMapped
    <3>9. Punctual(s) BY <1>2, <2>1, <3>2, <3>3, <3>4, <3>7, <3>8 DEF Punctual
    <3> QED BY <1>2, <1>4, <2>1, <3>1, <3>9 DEF Committable
  <2>2. CASE ~win.mapped
    <3>1. m \in HandleMap(s, focused) BY <1>3, <2>2
    <3>2. PICK p \in Placing(s) :
             LET k == Mapping(IF ~s.been_mapped THEN Shifted(p) ELSE p)
             IN  m = IF focused THEN Request(k) ELSE k
      BY <1>2, <3>1, HandleMapIs
    <3>3. p \in Window /\ Regular(p) /\ Else(s, p) /\ Fits(p)
      BY <1>1, <2>2, <3>2, FirstCommitFits
    <3> DEFINE v == Shifted(p)  k == Mapping(v)
    <3>4. ~s.been_mapped BY <1>2, <2>2 DEF InTime, Punctual, BeforeMap
    <3>5. m = IF focused THEN Request(k) ELSE k BY <3>2, <3>4
    <3> HIDE DEF s
    <3>6. /\ v \in Window /\ Shows(p, v) /\ v.pending = p.pending /\ v.scheduled = p.scheduled
      BY <3>3, ShiftedIs
    <3>7. Regular(v) /\ v.initialized
      BY <1>1, <1>2, <3>3, <3>6, PlaceRegular DEF Shows, Else
    <3> HIDE DEF v
    <3>8. /\ k \in Window /\ Regular(k) /\ Views(v, k)
          /\ k.mapped = TRUE /\ k.initialized = v.initialized
          /\ k.acked = v.acked /\ k.committed = v.committed
          /\ k.geometry = v.geometry /\ k.extent = v.extent
      BY <3>6, <3>7, MappingIs
    <3> HIDE DEF k
    <3>9. /\ k.wanted = p.wanted /\ k.pending = p.pending /\ k.serial = p.serial
          /\ k.geometry = p.geometry /\ k.extent = p.extent /\ k.scheduled = p.scheduled
          /\ k.acked = p.acked /\ k.configures = p.configures /\ k.committed = p.committed
      BY <3>6, <3>8 DEF Shows, Else, Views, Boxes
    <3>10. p.serial \in Nat BY <3>3 DEF Window
    <3>11. Punctual(k) BY <3>3, <3>8, <3>9, <3>10, FitsMapped
    <3>12. Committable(k)
      <4>1. p.acked = s.acked /\ p.committed = s.committed /\ p.extent = s.extent
        BY <3>3 DEF Else
      <4>2. k.committed = k.acked.serial BY <1>2, <3>9, <4>1
      <4>3. k.acked.w # 0 => k.extent = k.acked.w BY <1>4, <3>9, <4>1
      <4> QED BY <3>8, <3>11, <4>2, <4>3 DEF Committable
    <3>13. Regular(Request(k)) /\ Punctual(Request(k)) /\ Else(k, Request(k))
      BY <3>7, <3>8, <3>11, RequestRegular, RequestPunctual, RequestIs
    <3>14. Committable(Request(k)) BY <3>12, <3>13 DEF Committable, Else
    <3> QED BY <3>5, <3>8, <3>12, <3>13, <3>14
  <2> QED BY <2>1, <2>2
<1>6. m \in Window BY <1>5 DEF Regular
<1>7. Punctual(win') /\ win'.mapped BY <1>3, <1>5, <1>6, HandleCommitInTime
<1> QED BY <1>7 DEF InTime

LEMMA CommitNothingInTime ==
  ASSUME Regular(win), InTime(win), win.obedient, CommitNothing
  PROVE InTime(win')
<1>1. /\ win \in Window /\ win.initialized /\ ~win.mapped
      /\ win.committed = win.acked.serial
  BY DEF Regular, CommitNothing
<1>2. /\ win.committed = 0 /\ win.geometry = 0 /\ win.extent = 0 /\ win.current = Empty
      /\ win.serial > 0 /\ win.serial \in Nat
  BY <1>1 DEF InTime, Punctual, BeforeMap, Window
<1>3. [win EXCEPT !.committed = win.acked.serial] = win BY <1>1 DEF Window
<1>4. win' \in HandleCommit(win) BY <1>3 DEF CommitNothing
<1>5. ~Unplaced(win) BY <1>2 DEF Unplaced
<1>6. PICK p \in {win} : Concludes(win, p, win') BY <1>1, <1>4, <1>5, HandleCommitIs
<1>7. Concludes(win, win, win') BY <1>6
<1>8. ~Answers(win) BY <1>2 DEF Answers
<1>9. CommittedSize(win) = 0 /\ win.current.w = 0 BY <1>1, <1>2, SizeIs DEF Empty
<1>10. win' = win BY <1>5, <1>7, <1>8, <1>9 DEF Concludes
<1> QED BY <1>10

----------------------------------------------------------------------------
(* The client stays what it is, and only the start of a resize grabs an edge. *)

LEMMA HandleCommitClient ==
  ASSUME NEW s \in Window, Regular(s), NEW t \in HandleCommit(s)
  PROVE t.obedient = s.obedient /\ t.grab = s.grab
<1>1. PICK p \in IF Unplaced(s) THEN InitialPosition([s EXCEPT !.pending.w = s.geometry])
                 ELSE {s} : Concludes(s, p, t)
  BY HandleCommitIs
<1>2. p \in Window /\ Regular(p) /\ p.obedient = s.obedient /\ p.grab = s.grab
  <2>1. CASE Unplaced(s)
    <3>1. p \in InitialPosition(Sized(s)) BY <1>1, <2>1 DEF Sized
    <3>2. Sized(s) \in Window /\ Else(s, Sized(s)) BY SizedIs
    <3>3. Regular(Sized(s)) BY SizedRegular
    <3>4. p \in Window /\ Else(Sized(s), p) /\ Regular(p)
      BY <3>1, <3>2, <3>3, InitialPositionElse, InitialPositionRegular
    <3> QED BY <3>2, <3>4 DEF Else
  <2>2. CASE ~Unplaced(s)
    <3>1. p = s BY <1>1, <2>2
    <3> QED BY <3>1
  <2> QED BY <2>1, <2>2
<1>3. CASE t = p BY <1>2, <1>3
<1>4. CASE t = Resync(ApplyGeometry(Taken(p), CommittedSize(p)))
  <2> DEFINE w == CommittedSize(p)  q == Taken(p)  a == ApplyGeometry(q, w)
  <2>1. w \in Nat BY <1>2, SizeIs
  <2>2. q \in Window /\ Else(p, q) BY <1>2, TakenIs
  <2> HIDE DEF w, q
  <2>3. a \in Window /\ Shows(q, a) BY <2>1, <2>2, ApplyGeometryIs
  <2> HIDE DEF a
  <2>4. t = Resync(a) BY <1>4 DEF w, q, a
  <2>5. t = a \/ Shows(a, t) BY <2>3, <2>4, ResyncIs
  <2> QED BY <1>2, <2>2, <2>3, <2>5 DEF Else, Shows
<1> QED BY <1>1, <1>3, <1>4 DEF Concludes

LEMMA HandleMapClient ==
  ASSUME NEW s \in Window, Regular(s), s.initialized, NEW focused \in BOOLEAN,
         NEW t \in HandleMap(s, focused)
  PROVE t.obedient = s.obedient /\ t.grab = s.grab
<1>1. PICK p \in Placing(s) :
           LET m == Mapping(IF ~s.been_mapped THEN Shifted(p) ELSE p)
           IN  t = IF focused THEN Request(m) ELSE m
  BY HandleMapIs
<1>2. p \in Window /\ Regular(p) /\ p.obedient = s.obedient /\ p.grab = s.grab /\ p.initialized
  <2>1. CASE p = s BY <2>1
  <2>2. CASE p \in InitialPosition(Sized(s))
    <3>1. Sized(s) \in Window /\ Else(s, Sized(s)) BY SizedIs
    <3>2. Regular(Sized(s)) BY SizedRegular
    <3>3. p \in Window /\ Else(Sized(s), p) /\ Regular(p)
      BY <2>2, <3>1, <3>2, InitialPositionElse, InitialPositionRegular
    <3> QED BY <3>1, <3>3 DEF Else
  <2> QED BY <1>1, <2>1, <2>2 DEF Placing
<1> DEFINE v == IF ~s.been_mapped THEN Shifted(p) ELSE p  m == Mapping(v)
<1>3. v \in Window /\ Regular(v) /\ v.initialized /\ v.obedient = p.obedient /\ v.grab = p.grab
  <2>1. Shifted(p) \in Window /\ Shows(p, Shifted(p)) BY <1>2, ShiftedIs
  <2>2. Regular(Shifted(p)) BY <1>2, <2>1, PlaceRegular DEF Shows
  <2> QED BY <1>2, <2>1, <2>2 DEF Shows, Else
<1>4. t = IF focused THEN Request(m) ELSE m BY <1>1
<1> HIDE DEF v
<1>5. m \in Window /\ Views(v, m) /\ m.grab = v.grab BY <1>3, MappingIs
<1> HIDE DEF m
<1>6. Else(m, Request(m)) BY <1>5, RequestIs
<1> QED BY <1>2, <1>3, <1>4, <1>5, <1>6 DEF Views, Else

LEMMA SetMaximizedClient ==
  ASSUME NEW s \in Window, Regular(s), NEW b \in BOOLEAN
  PROVE /\ SetMaximized(s, b).obedient = s.obedient
        /\ SetMaximized(s, b).grab = IF s.maximized = b THEN s.grab ELSE None
<1>1. CASE s.maximized = b BY <1>1 DEF SetMaximized
<1>2. CASE s.maximized # b
  <2> DEFINE k == Kept(s)  a == Told(k)  t == Turned(a, b)  geo == Decided(s, b)
  <2>1. geo \in Box /\ SetMaximized(s, b) = Configure(t, geo) BY <1>2, SetMaximizedIs
  <2>2. k \in Window /\ Regular(k) /\ k.obedient = s.obedient /\ k.grab = None
    <3>1. k \in Window /\ Regular(k) BY KeptIs
    <3>2. k.obedient = s.obedient /\ k.grab = None BY DEF Kept, Window
    <3> QED BY <3>1, <3>2
  <2> HIDE DEF k
  <2>3. a \in Window /\ Regular(a) /\ Else(k, a) BY <2>2, ToldIs
  <2> HIDE DEF a
  <2>4. t \in Window /\ Else(a, t) BY <2>3, TurnedIs
  <2> HIDE DEF t, geo
  <2>5. Else(t, Configure(t, geo)) BY <2>1, <2>4, ConfigureIs
  <2> QED BY <1>2, <2>1, <2>2, <2>3, <2>4, <2>5 DEF Else
<1> QED BY <1>1, <1>2

\* Every step but the start of a resize
NotGrabbing ==
    \/ \E x \in Xs, w \in Widths : MoveResize([ x |-> x, w |-> w ])
    \/ \E b \in BOOLEAN : Maximize(b) \/ InitialCommit(b) \/ Unmap(b)
    \/ Restate \/ SetDecorationMode
    \/ ResizeEnd \/ \E w \in Widths : ResizeMotion(w)
    \/ SendConfigure \/ ConfigureTimeout
    \/ \E i \in 1..MaxSerial : AckConfigure(i)
    \/ \E g, e \in Sizes, focused \in BOOLEAN : Commit(g, e, focused)
    \/ CommitNothing \/ Destroy

LEMMA ClientStays ==
  ASSUME Regular(win), NotGrabbing
  PROVE win'.obedient = win.obedient /\ win'.grab \in {win.grab, None}
<1>0. win \in Window BY DEF Regular
<1>1. CASE \E x \in Xs, w \in Widths : MoveResize([ x |-> x, w |-> w ])
  <2>1. PICK x \in Xs, w \in Widths : MoveResize([ x |-> x, w |-> w ]) BY <1>1
  <2> DEFINE geo == [ x |-> x, w |-> w ]
  <2>2. geo \in Box BY XdgAssumption DEF Box
  <2>3. win' = Configure(win, geo) BY <2>1 DEF MoveResize
  <2> HIDE DEF geo
  <2>4. Else(win, win') BY <1>0, <2>2, <2>3, ConfigureIs
  <2> QED BY <2>4 DEF Else
<1>2. ASSUME NEW b \in BOOLEAN, Maximize(b) PROVE win'.obedient = win.obedient /\ win'.grab \in {win.grab, None}
  BY <1>0, <1>2, SetMaximizedClient DEF Maximize
<1>3. ASSUME NEW b \in BOOLEAN, InitialCommit(b) PROVE win'.obedient = win.obedient /\ win'.grab \in {win.grab, None}
  <2> DEFINE s == Initialized(win)  r == Request(s)
  <2>1. s \in Window /\ Regular(s) /\ s.initialized /\ Views(win, s)
        /\ s.grab = win.grab
    BY <1>0, InitializedIs
  <2>2. win' = IF b THEN SetMaximized(r, TRUE) ELSE r BY <1>3 DEF InitialCommit, Initialized
  <2> HIDE DEF s
  <2>3. r \in Window /\ Regular(r) /\ Else(s, r) BY <2>1, RequestIs, RequestRegular
  <2> HIDE DEF r
  <2>4. /\ SetMaximized(r, TRUE).obedient = r.obedient
        /\ SetMaximized(r, TRUE).grab \in {r.grab, None}
    BY <2>3, SetMaximizedClient
  <2> QED BY <2>1, <2>2, <2>3, <2>4 DEF Views, Else
<1>4. ASSUME NEW b \in BOOLEAN, Unmap(b) PROVE win'.obedient = win.obedient /\ win'.grab \in {win.grab, None}
  <2>1. win.initialized BY <1>4 DEF Regular, Phases, Unmap
  <2>2. PICK focused \in BOOLEAN :
           win' \in HandleCommit(Reset(IF focused THEN Request(win) ELSE win, b))
    BY <1>4 DEF Unmap, Reset
  <2> DEFINE s == IF focused THEN Request(win) ELSE win
  <2>3. s \in Window /\ Regular(s) /\ s.obedient = win.obedient
    <3>1. Request(win) \in Window /\ Regular(Request(win)) /\ Else(win, Request(win))
      BY <1>0, <2>1, RequestIs, RequestRegular
    <3> QED BY <1>0, <3>1 DEF Else
  <2>4. win' \in HandleCommit(Reset(s, b)) BY <2>2
  <2> HIDE DEF s
  <2>5. Regular(Reset(s, b)) BY <2>3, ResetRegular
  <2>6. Reset(s, b).obedient = s.obedient /\ Reset(s, b).grab = None BY <2>3 DEF Reset, Window
  <2>7. Reset(s, b) \in Window BY <2>5 DEF Regular
  <2> QED BY <2>3, <2>4, <2>5, <2>6, <2>7, HandleCommitClient
<1>5. CASE Restate \/ SetDecorationMode
  <2>1. Else(win, win')
    BY <1>0, <1>5, RequestIs, ScheduleIs DEF Restate, SetDecorationMode
  <2> QED BY <2>1 DEF Else
<1>7. CASE ResizeEnd BY <1>0, <1>7 DEF ResizeEnd, Window
<1>8. ASSUME NEW w \in Widths, ResizeMotion(w) PROVE win'.obedient = win.obedient /\ win'.grab \in {win.grab, None}
  <2> DEFINE geo == [ x |-> win.grab - w, w |-> w ]
  <2>1. win.grab \in Int /\ w \in Nat BY <1>0, <1>8, XdgAssumption DEF ResizeMotion, Window
  <2>2. geo \in Box BY <2>1 DEF Box
  <2>3. win' = Configure(win, geo) BY <1>8 DEF ResizeMotion
  <2> HIDE DEF geo
  <2>4. Else(win, win') BY <1>0, <2>2, <2>3, ConfigureIs
  <2> QED BY <2>4 DEF Else
<1>9. CASE SendConfigure BY <1>9, SendConfigureIs
<1>10. CASE ConfigureTimeout
  BY <1>0, <1>10 DEF ConfigureTimeout, HandleConfigureTimeout, Window
<1>11. ASSUME NEW i \in 1..MaxSerial, AckConfigure(i) PROVE win'.obedient = win.obedient /\ win'.grab \in {win.grab, None}
  BY <1>11, AckConfigureIs
<1>12. ASSUME NEW g \in Sizes, NEW e \in Sizes, NEW focused \in BOOLEAN, Commit(g, e, focused)
       PROVE win'.obedient = win.obedient /\ win'.grab \in {win.grab, None}
  <2> DEFINE s == Committing(win, g, e)
  <2>1. PICK m \in IF win.mapped THEN {s} ELSE HandleMap(s, focused) : win' \in HandleCommit(m)
    BY <1>12, CommitIs
  <2>2. g \in Nat /\ e \in Nat BY SizesAre
  <2>3. s \in Window /\ Regular(s) /\ s.initialized /\ s.obedient = win.obedient
        /\ s.grab = win.grab
    <3>1. s \in Window /\ Regular(s) /\ s.initialized = win.initialized /\ Views(win, s)
          /\ s.grab = win.grab
      BY <1>0, <2>2, CommittingIs
    <3> QED BY <1>12, <3>1 DEF Commit, Views
  <2> HIDE DEF s
  <2>4. Regular(m) /\ m.obedient = s.obedient /\ m.grab = s.grab
    BY <2>1, <2>3, HandleMapRegular, HandleMapClient
  <2>5. m \in Window BY <2>4 DEF Regular
  <2> QED BY <2>1, <2>3, <2>4, <2>5, HandleCommitClient
<1>13. CASE CommitNothing
  <2> DEFINE s == Committing(win, win.geometry, win.extent)
  <2>1. win.geometry \in Nat /\ win.extent \in Nat BY <1>0 DEF Window
  <2>2. s \in Window /\ Regular(s) /\ Views(win, s) /\ s.grab = win.grab
    BY <1>0, <2>1, CommittingIs
  <2>3. s = [win EXCEPT !.committed = win.acked.serial] BY <1>0 DEF Committing, Window
  <2>4. win' \in HandleCommit(s) BY <1>13, <2>3 DEF CommitNothing
  <2> HIDE DEF s
  <2> QED BY <2>2, <2>4, HandleCommitClient DEF Views
<1>14. CASE Destroy BY <1>0, <1>14 DEF Destroy, Window
<1> QED BY <1>1, <1>2, <1>3, <1>4, <1>5, <1>7, <1>8, <1>9, <1>10, <1>11, <1>12, <1>13,
           <1>14 DEF NotGrabbing

LEMMA ResizeBeginClient ==
  ASSUME Regular(win), ResizeBegin PROVE win'.obedient = win.obedient
<1> DEFINE g == Grabbed(win)
<1>1. win \in Window /\ win.mapped /\ win' = Request(g) BY DEF Regular, ResizeBegin, Grabbed
<1>2. g \in Window BY <1>1, GrabbedIs
<1>3. g.obedient = win.obedient BY <1>1 DEF Grabbed, Window
<1> HIDE DEF g
<1>4. Else(g, win') BY <1>1, <1>2, RequestIs
<1> QED BY <1>3, <1>4 DEF Else

----------------------------------------------------------------------------
(* The window of a client that answers in time *)

\* A client that may answer late does not have its window resized by an edge.
InTimeInv == XdgInv /\ (win.grab # None => win.obedient)

LEMMA InTimeNext == ASSUME MCNext PROVE XdgNext
BY DEF MCNext, MCBoth, MCInTime, MCLate, XdgNext, ClientCommits

LEMMA InTimeInit == ASSUME XdgInit PROVE InTimeInv
<1>1. /\ Regular(win)
      /\ ~win.mapped /\ ~win.been_mapped /\ ~win.maximized /\ ~win.initialized
      /\ win.current = Empty /\ win.pending = Empty /\ win.wanted = Empty
      /\ win.scheduled.w = 0 /\ win.acked = [ serial |-> 0, w |-> 0 ]
      /\ win.committed = 0 /\ win.geometry = 0 /\ win.extent = 0
      /\ win.configures = <<>>
  BY XdgInitRegular
<1>2. win.natural.w = 0 /\ win.grab = None BY DEF XdgInit, Empty
<1>3. Rising(win) BY <1>1 DEF Rising
<1>4. Recent(win) BY <1>1 DEF Recent, Asks, Empty
<1>5. BeforeMap(win) BY <1>1 DEF BeforeMap
<1>6. InTime(win)
  <2>1. win.pending.w = IF win.maximized THEN MaxWidth ELSE 0 BY <1>1 DEF Empty
  <2> QED BY <1>1, <1>2, <1>3, <1>4, <1>5, <2>1 DEF InTime, Punctual
<1> QED BY <1>1, <1>2, <1>6 DEF InTimeInv, XdgInv

LEMMA InTimeStep ==
  ASSUME Regular(win), InTime(win), win.obedient, win'.alive, MCBoth \/ MCInTime
  PROVE InTime(win')
<1>1. CASE \E x \in Xs, w \in Widths : MoveResize([ x |-> x, w |-> w ])
  <2>1. PICK x \in Xs, w \in Widths : MoveResize([ x |-> x, w |-> w ]) BY <1>1
  <2> DEFINE geo == [ x |-> x, w |-> w ]
  <2>2. geo \in Box /\ geo.w > 0 BY XdgAssumption DEF Box
  <2>3. MoveResize(geo) BY <2>1
  <2> HIDE DEF geo
  <2> QED BY <2>2, <2>3, MoveResizeInTime
<1>2. ASSUME NEW b \in BOOLEAN, InitialCommit(b) PROVE InTime(win')
  BY <1>2, InitialCommitInTime
<1>3. ASSUME NEW i \in 1..MaxSerial, AckConfigure(i) PROVE InTime(win')
  BY <1>3, AckConfigureInTime
<1>4. CASE Restate \/ SetDecorationMode BY <1>4, RestateInTime
<1>5. CASE SendConfigure BY <1>5, SendConfigureInTime
<1>6. CASE ClientCommits BY <1>6, CommitInTime DEF ClientCommits
<1>7. CASE CommitNothing BY <1>7, CommitNothingInTime
<1>8. CASE Destroy
  <2>1. win \in Window BY DEF Regular
  <2>2. win'.alive = FALSE BY <1>8, <2>1 DEF Destroy, Window
  <2> QED BY <2>2
<1>9. ASSUME NEW b \in BOOLEAN, b \/ win.natural.w > 0, Maximize(b) PROVE InTime(win')
  BY <1>9, MaximizeInTime
<1>10. CASE ResizeBegin BY <1>10, ResizeBeginInTime
<1>11. ASSUME NEW w \in Widths, ResizeMotion(w) PROVE InTime(win')
  BY <1>11, ResizeMotionInTime
<1>12. CASE ResizeEnd BY <1>12, ResizeEndInTime
<1> QED BY <1>1, <1>2, <1>3, <1>4, <1>5, <1>6, <1>7, <1>8, <1>9, <1>10, <1>11, <1>12
     DEF MCBoth, MCInTime

\* Nothing happens to a window that is gone.
LEMMA AliveActs == ASSUME XdgNext PROVE win.alive
BY DEF XdgNext, MoveResize, Maximize, InitialCommit, Unmap, Restate, SetDecorationMode,
       ResizeBegin, ResizeEnd, ResizeMotion, SendConfigure, ConfigureTimeout, AckConfigure,
       Commit, CommitNothing, Destroy

LEMMA InTimeInvStep == ASSUME InTimeInv, [MCNext]_win PROVE InTimeInv'
<1>1. CASE UNCHANGED win BY <1>1 DEF InTimeInv, XdgInv
<1>2. CASE MCNext
  <2>1. Regular(win) BY DEF InTimeInv, XdgInv
  <2>2. XdgNext BY <1>2, InTimeNext
  <2>3. Regular(win') BY <2>1, <2>2, XdgStepRegular
  <2>4. win'.obedient = win.obedient
    BY <2>1, <2>2, ClientStays, ResizeBeginClient DEF XdgNext, NotGrabbing
  <2>5. CASE win.obedient
    <3>1. MCBoth \/ MCInTime BY <1>2, <2>5 DEF MCNext
    <3>2. win.alive BY <2>2, AliveActs
    <3>3. InTime(win) BY <2>5, <3>2 DEF InTimeInv, XdgInv
    <3>4. win'.alive => InTime(win') BY <2>1, <2>5, <3>1, <3>3, InTimeStep
    <3> QED BY <2>3, <2>4, <2>5, <3>4 DEF InTimeInv, XdgInv
  <2>6. CASE ~win.obedient
    <3>1. win.grab = None BY <2>6 DEF InTimeInv
    <3>2. NotGrabbing
      BY <1>2, <2>6 DEF MCNext, MCBoth, MCLate, NotGrabbing, ClientCommits
    <3>3. win'.grab = None BY <2>1, <3>1, <3>2, ClientStays
    <3> QED BY <2>3, <2>4, <2>6, <3>3 DEF InTimeInv, XdgInv
  <2> QED BY <2>5, <2>6
<1> QED BY <1>1, <1>2

LEMMA InTimeInvHolds == MCSpec => []InTimeInv
<1>1. XdgInit => InTimeInv BY InTimeInit
<1>2. InTimeInv /\ [MCNext]_win => InTimeInv' BY InTimeInvStep
<1> QED BY <1>1, <1>2, PTL DEF MCSpec

\* What the compositor takes the geometry of a window to be and what its client made of it
\* come together (include/view.h:219), however requests and answers overlap.
THEOREM ConfigureAgrees == MCSpec => []ViewsAgree
<1>1. InTimeInv => ViewsAgree BY InTimeAgrees DEF InTimeInv
<1> QED BY <1>1, InTimeInvHolds, PTL

\* A commit of a window that is placed goes on from what was decided.
LEMMA PlacedCommitIs ==
  ASSUME NEW m \in Window, Regular(m), m.pending.w > 0, NEW t \in HandleCommit(m)
  PROVE /\ t.serial # 0 => t.pending = m.pending
        /\ t.pending \in {m.pending, t.current}
        /\ \/ t.current = m.current
           \/ \E w \in Nat : t.current =
                 [ x |-> IF Anchored(m) THEN Right(m.pending) - w ELSE m.pending.x, w |-> w ]
<1>1. Concludes(m, m, t)
  <2>1. ~Unplaced(m) BY DEF Unplaced
  <2>2. PICK p \in {m} : Concludes(m, p, t) BY <2>1, HandleCommitIs
  <2> QED BY <2>2
<1>2. CASE t = m BY <1>2
<1>3. CASE t = Resync(ApplyGeometry(Taken(m), CommittedSize(m)))
  <2> DEFINE w == CommittedSize(m)  q == Taken(m)  a == ApplyGeometry(q, w)
  <2>1. w \in Nat BY SizeIs
  <2>2. q \in Window /\ Else(m, q) /\ Boxes(m, q) BY TakenIs
  <2> HIDE DEF w, q
  <2>3. /\ a \in Window /\ a.pending = q.pending
        /\ a.current = [ x |-> IF Anchored(q) THEN Right(q.pending) - w ELSE q.pending.x, w |-> w ]
    BY <2>1, <2>2, ApplyGeometryIs
  <2>4. Anchored(q) <=> Anchored(m) BY <2>2 DEF Anchored, Else, Boxes
  <2>5. t = Resync(a) BY <1>3 DEF w, q, a
  <2> HIDE DEF a
  <2>6. a.current = [ x |-> IF Anchored(m) THEN Right(m.pending) - w ELSE m.pending.x, w |-> w ]
    BY <2>2, <2>3, <2>4 DEF Boxes
  <2>7. t.current = a.current BY <2>3, <2>5, ResyncIs
  <2>8. IF t.serial # 0 THEN t.pending = a.pending ELSE t.pending \in {a.pending, t.current}
    BY <2>3, <2>5, ResyncIs DEF Shows
  <2> QED BY <2>1, <2>2, <2>3, <2>6, <2>7, <2>8 DEF Boxes
<1> QED BY <1>1, <1>2, <1>3 DEF Concludes

LEMMA LateAnswer ==
  ASSUME Regular(win), ClientCommits, win.pending.w > 0, win'.serial # 0
  PROVE win'.pending = win.pending
<1>1. PICK g \in Sizes, e \in Sizes, focused \in BOOLEAN : Commit(g, e, focused)
  BY DEF ClientCommits
<1> DEFINE s == Committing(win, g, e)
<1>2. PICK m \in IF win.mapped THEN {s} ELSE HandleMap(s, focused) : win' \in HandleCommit(m)
  BY <1>1, CommitIs
<1>3. win \in Window /\ g \in Nat /\ e \in Nat /\ win.initialized
  BY <1>1, SizesAre DEF Regular, Commit
<1>4. s \in Window /\ Regular(s) /\ s.initialized = win.initialized /\ Views(win, s)
  BY <1>3, CommittingIs
<1> HIDE DEF s
<1>5. s.pending = win.pending BY <1>4 DEF Views, Boxes
<1>6. Regular(m) /\ m.pending = win.pending
  <2>1. CASE win.mapped BY <1>2, <1>4, <1>5, <2>1
  <2>2. CASE ~win.mapped
    <3>1. m \in HandleMap(s, focused) BY <1>2, <2>2
    <3>2. PICK p \in Placing(s) :
             LET k == Mapping(IF ~s.been_mapped THEN Shifted(p) ELSE p)
             IN  m = IF focused THEN Request(k) ELSE k
      BY <1>4, <3>1, HandleMapIs
    <3>3. p = s
      <4>1. s.pending.w # 0 BY <1>5
      <4> QED BY <3>2, <4>1 DEF Placing
    <3> DEFINE v == IF ~s.been_mapped THEN Shifted(s) ELSE s  k == Mapping(v)
    <3>4. m = IF focused THEN Request(k) ELSE k BY <3>2, <3>3
    <3>5. v \in Window /\ Regular(v) /\ v.initialized /\ v.pending = s.pending
      <4>1. Shifted(s) \in Window /\ Shows(s, Shifted(s)) /\ Shifted(s).pending = s.pending
        BY <1>4, ShiftedIs
      <4>2. Regular(Shifted(s)) BY <1>4, <4>1, PlaceRegular DEF Shows
      <4> QED BY <1>3, <1>4, <4>1, <4>2 DEF Shows, Else
    <3> HIDE DEF v
    <3>6. k \in Window /\ Regular(k) /\ Views(v, k) /\ k.initialized = v.initialized
      BY <3>5, MappingIs
    <3> HIDE DEF k
    <3>7. Regular(Request(k)) /\ Boxes(k, Request(k))
      BY <3>5, <3>6, RequestRegular, RequestIs
    <3> QED BY <1>5, <3>4, <3>5, <3>6, <3>7 DEF Views, Boxes
  <2> QED BY <2>1, <2>2
<1>7. m \in Window /\ m.pending.w > 0 BY <1>6 DEF Regular
<1> QED BY <1>2, <1>6, <1>7, PlacedCommitIs

\* A commit that does not answer the request that is outstanding leaves the geometry that was
\* requested, whatever the client, whichever configure it answers (handle_commit()).
THEOREM LateAnswersKeepRequest == XdgSpec => LateAnswerKeepsRequest
<1> DEFINE Late == (ClientCommits /\ win.pending.w > 0 /\ win'.serial # 0)
                      => win'.pending = win.pending
<1>1. XdgInit => Regular(win) BY XdgInitRegular
<1>2. Regular(win) /\ [XdgNext]_win => Regular(win)' BY XdgStepRegular
<1>3. Regular(win) /\ [XdgNext]_win => [Late]_win BY LateAnswer
<1>4. LateAnswerKeepsRequest <=> [][Late]_win BY DEF LateAnswerKeepsRequest
<1> HIDE DEF Late
<1> QED BY <1>1, <1>2, <1>3, <1>4, PTL DEF XdgSpec

LEMMA RightEdgeCommit ==
  ASSUME Regular(win), InTime(win), win.mapped, win.grab # None,
         AtGrab(win), win'.grab = win.grab,
         NEW g \in Sizes, NEW e \in Sizes, NEW focused \in BOOLEAN, Commit(g, e, focused)
  PROVE AtGrab(win')
<1> DEFINE s == Committing(win, g, e)
<1>1. win' \in HandleCommit(s) BY CommitIs
<1>2. win \in Window /\ g \in Nat /\ e \in Nat BY SizesAre DEF Regular
<1>3. s \in Window /\ Regular(s) /\ Views(win, s) /\ s.grab = win.grab
  BY <1>2, CommittingIs
<1> HIDE DEF s
<1>4. s.pending = win.pending /\ s.current = win.current BY <1>3 DEF Views, Boxes
<1>5. s.pending.w > 0 BY <1>4 DEF InTime, Punctual, WhileMapped
<1>6. Anchored(s) BY <1>3 DEF Anchored
<1>7. /\ win'.pending \in {s.pending, win'.current}
      /\ \/ win'.current = s.current
         \/ \E w \in Nat : win'.current =
               [ x |-> IF Anchored(s) THEN Right(s.pending) - w ELSE s.pending.x, w |-> w ]
  BY <1>1, <1>3, <1>5, PlacedCommitIs
<1>8. win'.current = s.current => Right(win'.current) = win.grab BY <1>4 DEF AtGrab
<1>9. ASSUME NEW w \in Nat,
             win'.current =
                [ x |-> IF Anchored(s) THEN Right(s.pending) - w ELSE s.pending.x, w |-> w ]
      PROVE Right(win'.current) = win.grab
  <2>1. win.grab \in Int BY <1>2 DEF Window
  <2>2. win'.current = [ x |-> win.grab - w, w |-> w ] BY <1>4, <1>6, <1>9 DEF AtGrab
  <2> QED BY <2>1, <2>2 DEF Right
<1>10. Right(win'.current) = win.grab BY <1>7, <1>8, <1>9
<1> QED BY <1>4, <1>7, <1>10 DEF AtGrab

LEMMA RightEdgeMotion ==
  ASSUME Regular(win), InTime(win), win.mapped, win.grab # None,
         Right(win.current) = win.grab, win'.grab = win.grab, NEW w \in Widths, ResizeMotion(w)
  PROVE AtGrab(win')
<1> DEFINE geo == [ x |-> win.grab - w, w |-> w ]
<1>1. win \in Window /\ win.initialized BY DEF Regular, Phases
<1>2. win.grab \in Int /\ w \in Nat /\ w > 0 BY <1>1, XdgAssumption DEF Window
<1>3. geo \in Box /\ geo.w > 0 /\ geo.x = win.grab - w /\ geo.w = w BY <1>2 DEF Box
<1>4. win' = Configure(win, geo) BY DEF ResizeMotion
<1> HIDE DEF geo
<1>5. IF geo.w # win.pending.w THEN Asked(win, geo, win') ELSE Placed(win, geo, win')
  BY <1>1, <1>3, <1>4, ConfigureIs
<1>6. win'.pending = geo BY <1>1, <1>3, <1>4, ConfigureIs
<1>7. Right(win'.pending) = win.grab BY <1>2, <1>3, <1>6 DEF Right
<1>8. CASE geo.w # win.pending.w BY <1>5, <1>7, <1>8 DEF Asked, AtGrab
<1>9. CASE geo.w = win.pending.w
  <2>1. win'.current = IF win.serial = 0 THEN [ x |-> geo.x, w |-> win.current.w ] ELSE win.current
    BY <1>5, <1>9 DEF Placed
  <2>2. CASE win.serial = 0
    <3>1. win.current = win.pending BY <2>2 DEF InTime, Punctual, WhileMapped
    <3>2. win'.current = [ x |-> win.grab - w, w |-> w ] BY <1>3, <1>9, <2>1, <2>2, <3>1
    <3> QED BY <1>2, <1>7, <3>2 DEF Right, AtGrab
  <2>3. CASE win.serial # 0 BY <1>7, <2>1, <2>3 DEF AtGrab
  <2> QED BY <2>2, <2>3
<1> QED BY <1>8, <1>9

LEMMA RightEdgeStep ==
  ASSUME InTimeInv, MCNext, win.grab # None, win'.grab = win.grab,
         AtGrab(win)
  PROVE AtGrab(win')
<1>1. /\ Regular(win) /\ win \in Window /\ win.mapped /\ win.initialized /\ win.obedient
      /\ win.alive /\ InTime(win)
  <2>1. win.alive BY InTimeNext, AliveActs
  <2> QED BY <2>1 DEF InTimeInv, XdgInv, Regular, Phases
<1>2. MCBoth \/ MCInTime BY <1>1 DEF MCNext
<1>3. CASE \E x \in Xs, w \in Widths : MoveResize([ x |-> x, w |-> w ])
  BY <1>3 DEF MoveResize
<1>4. ASSUME NEW b \in BOOLEAN, InitialCommit(b) PROVE FALSE BY <1>1, <1>4 DEF InitialCommit
<1>5. ASSUME NEW i \in 1..MaxSerial, AckConfigure(i) PROVE AtGrab(win')
  BY <1>1, <1>5, AckConfigureIs DEF Boxes, AtGrab
<1>6. CASE Restate \/ SetDecorationMode
  <2>1. Boxes(win, win') BY <1>1, <1>6, RequestIs, ScheduleIs DEF Restate, SetDecorationMode
  <2> QED BY <2>1 DEF Boxes, AtGrab
<1>7. CASE SendConfigure
  <2>1. Boxes(win, win') BY <1>1, <1>7, SendConfigureIs
  <2> QED BY <2>1 DEF Boxes, AtGrab
<1>8. CASE ClientCommits BY <1>1, <1>8, RightEdgeCommit DEF ClientCommits
<1>9. CASE CommitNothing BY <1>1, <1>9 DEF CommitNothing
<1>10. CASE Destroy
  <2>1. win'.grab = None BY <1>1, <1>10 DEF Destroy, Window
  <2> QED BY <2>1
<1>11. ASSUME NEW b \in BOOLEAN, Maximize(b) PROVE AtGrab(win')
  <2>1. win' = SetMaximized(win, b) BY <1>11 DEF Maximize
  <2>2. win.maximized = b BY <1>1, <2>1, SetMaximizedClient
  <2> QED BY <2>1, <2>2 DEF SetMaximized, AtGrab
<1>12. CASE ResizeBegin BY <1>12 DEF ResizeBegin
<1>13. ASSUME NEW w \in Widths, ResizeMotion(w) PROVE AtGrab(win')
  BY <1>1, <1>13, RightEdgeMotion DEF AtGrab
<1>14. CASE ResizeEnd
  <2>1. win'.grab = None BY <1>1, <1>14 DEF ResizeEnd, Window
  <2> QED BY <2>1
<1> QED BY <1>2, <1>3, <1>4, <1>5, <1>6, <1>7, <1>8, <1>9, <1>10, <1>11, <1>12, <1>13, <1>14
     DEF MCBoth, MCInTime

\* Of a client that answers in time: once the right edges of the window that is shown and of the
\* one asked for are where the left edge was grabbed, they stay there until the grab ends,
\* whichever requests are under way and whichever the client answers
\* (view_impl_apply_geometry()).  MCSpec resizes no window of another client by its left edge.
THEOREM RightEdgeIsKept == MCSpec => RightEdgeStays
<1> DEFINE EdgeStays == win.grab # None /\ win'.grab = win.grab /\ AtGrab(win) => AtGrab(win')
<1>1. InTimeInv /\ [MCNext]_win => [EdgeStays]_win BY RightEdgeStep
<1>2. RightEdgeStays <=> [][EdgeStays]_win BY DEF RightEdgeStays
<1> HIDE DEF EdgeStays
<1> QED BY <1>1, <1>2, InTimeInvHolds, PTL DEF MCSpec
=============================================================================

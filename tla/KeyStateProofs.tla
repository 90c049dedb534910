--------------------------- MODULE KeyStateProofs ---------------------------
(***************************************************************************)
(* For any keys, keybinds and sizes of the key sets: no key is stuck at a  *)
(* client, a client is told of exactly the keys that the compositor did not*)
(* use, a keybind that waits for a release has its key down, and the       *)
(* switcher does not outlast its keys.                                     *)
(*                                                                         *)
(* None of these is inductive.  That a client forgets a key which was used *)
(* needs that it was not told of that key (NotTold), also when the focus   *)
(* changes between the press and its being recorded; that it is told of all*)
(* others needs the set of pressed keys to be complete (Told), which ends  *)
(* with the size of the set; and a repeat adds nothing to the sets because *)
(* the press has added it, or the set was full then and still is (Repeats).*)
(*                                                                         *)
(* The handlers are compositions of operators that leave the key sets alone*)
(* but may change the focus (Follows), of those that record a key, and of  *)
(* those that forget one.  Each has a lemma that it keeps Right, for the   *)
(* keys H that are held before or after the event.                         *)
(***************************************************************************)
EXTENDS KeyState, FiniteSetTheorems, TLAPS

KeyServer ==
    [ focused_surface   : Surfaces \cup {None},
      focused_layer     : LayerSurfaces \cup {None},
      interactivity     : [LayerSurfaces -> Interactivity],
      locked            : BOOLEAN,
      input_mode        : InputModes,
      override          : Surfaces \cup {None},
      active_view       : Views \cup {None},
      pressed           : SUBSET Keys,
      bound             : SUBSET Keys,
      cur_keybind       : Keybinds \cup {None},
      cancel_on_release : BOOLEAN,
      repeat            : Keys \cup {None},
      down              : SUBSET Keys,
      swallowed         : SUBSET Keys ]

\* What a client believes is down, of what is not exempt
Believed(s) == s.down \ (s.swallowed \cup EscapeKeys)

\* A key the compositor used is one the client was not told of.
NotTold(s) == Believed(s) \cap s.bound = {}

\* The client was told of all others, if all of them were recorded.
Told(s, H) ==
    /\ Cardinality(H) <= MaxSize
    /\ s.pressed = H
    /\ s.focused_surface # None => (H \ s.bound) \ EscapeKeys \subseteq Believed(s)

\* What every operator keeps, for the keys H that are held
Right(s, H, tooMany) ==
    /\ s \in KeyServer
    /\ H \subseteq Keys /\ IsFiniteSet(H)
    /\ s.pressed \subseteq H /\ Cardinality(s.pressed) <= MaxSize
    /\ IsFiniteSet(s.bound) /\ Cardinality(s.bound) <= MaxSize
    /\ s.swallowed \subseteq s.down
    /\ Believed(s) \subseteq H
    /\ NotTold(s)
    /\ ~tooMany => Told(s, H)

Full(set) == Cardinality(set) >= MaxSize

\* A key that repeats was recorded with its press, if it could be.
Repeats(s, H) ==
    s.repeat # None => s.repeat \in H /\ (s.repeat \in s.bound \/ Full(s.bound))

\* A keybind that waits for a release was matched with the keys that are held.
Waits(s, H) ==
    Pending(s) => s.cur_keybind.key \in H /\ s.cur_keybind.modifiers \subseteq H

\* Two keys are bound.
TwoBound(s) == \E j, k \in s.bound : j # k

(***************************************************************************)
(* Without a modifier, a bound key will close the switcher.  A keybind that*)
(* waits for a release takes the next one for itself, so that another bound*)
(* key must be left then; so must one for which the set had no room.       *)
(***************************************************************************)
WillClose(s, H) ==
    s.input_mode = "cycle" /\ H \cap ModifierKeys = {} =>
        /\ s.cancel_on_release
        /\ s.bound # {}
        /\ Pending(s) \/ s.repeat # None => TwoBound(s)

\* The inductive invariants: of the keys, and of the switcher.
KeysInv ==
    /\ Right(server, held, crowded)
    /\ server.bound \subseteq held
    /\ Repeats(server, held)
    /\ Waits(server, held)
    /\ crowded \in BOOLEAN

SwitcherInv == WillClose(server, held)

\* What the seat's operations leave alone
SameKeys(s, t) ==
    /\ t.pressed = s.pressed /\ t.bound = s.bound
    /\ t.down = s.down /\ t.swallowed = s.swallowed
    /\ t.cancel_on_release = s.cancel_on_release
    /\ t.repeat = s.repeat /\ t.cur_keybind = s.cur_keybind
    /\ t.locked = s.locked

\* What a change of the focus leaves alone besides
SameMode(s, t) == t \in KeyServer /\ SameKeys(s, t) /\ t.input_mode = s.input_mode

\* From s to t the focus may have changed, the switcher was not opened, and no
\* keybind has begun to wait.
Follows(s, t) ==
    /\ t.pressed = s.pressed /\ t.bound = s.bound
    /\ t.cancel_on_release = s.cancel_on_release
    /\ t.repeat = s.repeat
    /\ t.cur_keybind \in {s.cur_keybind, None}
    /\ t.input_mode = "cycle" => s.input_mode = "cycle"

\* k is pressed, and H, tooMany are what is held afterwards; or it repeats.
Presses(s, k, H, tooMany) ==
    \/ /\ k \notin held
       /\ H = held \cup {k}
       /\ tooMany <=> crowded \/ Cardinality(H) > MaxSize
    \/ /\ k \in held
       /\ H = held /\ (tooMany <=> crowded)
       /\ k \in s.bound \/ Full(s.bound)

----------------------------------------------------------------------------
(* Sets of keys *)

\* lab_set_add() adds the key unless the set is full.
LEMMA AddedOrFull ==
  ASSUME NEW S, IsFiniteSet(S), Cardinality(S) <= MaxSize, NEW k
  PROVE /\ S \subseteq LabSetAdd(S, k) /\ LabSetAdd(S, k) \subseteq S \cup {k}
        /\ IsFiniteSet(LabSetAdd(S, k)) /\ Cardinality(LabSetAdd(S, k)) <= MaxSize
        /\ k \in LabSetAdd(S, k) \/ (LabSetAdd(S, k) = S /\ Full(S))
<1>1. Cardinality(S) \in Nat /\ MaxSize \in Nat BY FS_CardinalityType, KeysAssumption
<1>2. /\ IsFiniteSet(S \cup {k})
      /\ Cardinality(S \cup {k}) = IF k \in S THEN Cardinality(S) ELSE Cardinality(S) + 1
  BY FS_AddElement
<1>3. CASE k \notin S /\ Full(S)
  BY <1>3 DEF LabSetAdd, Full
<1>4. CASE k \in S
  <2>1. LabSetAdd(S, k) = S BY <1>4 DEF LabSetAdd
  <2> QED BY <1>4, <2>1
<1>5. CASE k \notin S /\ ~Full(S)
  <2>1. LabSetAdd(S, k) = S \cup {k} BY <1>5 DEF LabSetAdd, Full
  <2>2. Cardinality(S) + 1 <= MaxSize BY <1>1, <1>5 DEF Full
  <2>3. Cardinality(S \cup {k}) <= MaxSize BY <1>2, <1>5, <2>2
  <2> QED BY <1>2, <2>1, <2>3
<1> QED BY <1>3, <1>4, <1>5

\* A full set among few enough keys holds all of them.
LEMMA FullHoldsAll ==
  ASSUME NEW H, IsFiniteSet(H), Cardinality(H) <= MaxSize, NEW S, S \subseteq H, Full(S)
  PROVE S = H
<1>1. Cardinality(S) <= Cardinality(H) /\ (Cardinality(H) = Cardinality(S) => S = H)
      /\ IsFiniteSet(S)
  BY FS_Subset
<1>2. Cardinality(S) \in Nat /\ Cardinality(H) \in Nat /\ MaxSize \in Nat
  BY <1>1, FS_CardinalityType, KeysAssumption
<1> QED BY <1>1, <1>2 DEF Full

\* As long as few enough keys are held, the set of pressed keys is complete.
LEMMA RoomForPressed ==
  ASSUME NEW H, IsFiniteSet(H), NEW k, k \notin H, Cardinality(H \cup {k}) <= MaxSize,
         NEW S, S \subseteq H
  PROVE LabSetAdd(S, k) = S \cup {k} /\ Cardinality(H) <= MaxSize
<1>1. Cardinality(H \cup {k}) = Cardinality(H) + 1 BY FS_AddElement
<1>2. Cardinality(S) <= Cardinality(H) /\ IsFiniteSet(S) BY FS_Subset
<1>3. Cardinality(S) \in Nat /\ Cardinality(H) \in Nat /\ MaxSize \in Nat
  BY <1>2, FS_CardinalityType, KeysAssumption
<1>4. ~(Cardinality(S) >= MaxSize) /\ Cardinality(H) <= MaxSize BY <1>1, <1>2, <1>3
<1> QED BY <1>4 DEF LabSetAdd

\* Two keys are left when a full set had none for another one.
LEMMA FullHasTwo ==
  ASSUME NEW S, IsFiniteSet(S), Full(S), MaxSize >= 2
  PROVE \E j, k \in S : j # k
<1>1. Cardinality(S) \in Nat /\ MaxSize \in Nat BY FS_CardinalityType, KeysAssumption
<1>2. Cardinality(S) >= 2 BY <1>1 DEF Full
<1>3. S # {} BY <1>2, FS_EmptySet
<1>4. PICK j : j \in S BY <1>3
<1>5. S # {j} BY <1>2, FS_Singleton
<1> QED BY <1>4, <1>5

----------------------------------------------------------------------------
(* The seat, which knows nothing of keys *)

\* wlr_seat_keyboard_enter() leaves the keys and the input mode alone.
LEMMA KeyboardEnterKeys ==
  ASSUME NEW s \in KeyServer, NEW x \in Surfaces \cup {None}
  PROVE SameMode(s, KeyboardEnter(s, x))
<1> DEFINE t == [s EXCEPT !.focused_surface = x]
<1>1. SameMode(s, t) /\ SameMode(s, s) BY DEF KeyServer, SameKeys, SameMode
<1>2. CASE x \in Surfaces \ Views \/ t.input_mode # "passthrough"
  BY <1>1, <1>2 DEF KeyboardEnter, HandleFocusChange
<1>3. CASE ~(x \in Surfaces \ Views \/ t.input_mode # "passthrough")
  <2>1. HandleFocusChange(t, x) = [t EXCEPT !.active_view = x]
    BY <1>3 DEF HandleFocusChange
  <2>2. SameMode(s, [t EXCEPT !.active_view = x])
    <3>1. x \in Views \cup {None} BY <1>3
    <3> HIDE DEF t
    <3> QED BY <1>1, <3>1 DEF KeyServer, SameKeys, SameMode
  <2> QED BY <1>1, <2>1, <2>2 DEF KeyboardEnter
<1> QED BY <1>2, <1>3

\* seat_focus() and its two callers leave the keys and the input mode alone.
LEMMA SeatFocusKeys ==
  ASSUME NEW s \in KeyServer, NEW x \in Surfaces \cup {None}, NEW a, NEW b
  PROVE /\ SameMode(s, SeatFocus(s, x, a, b))
        /\ SameMode(s, SeatFocusSurface(s, x))
        /\ SameMode(s, SeatFocusLockSurface(s, x))
<1>1. SameMode(s, s) /\ SameMode(s, KeyboardEnter(s, x))
  BY KeyboardEnterKeys DEF SameMode, SameKeys
<1> QED BY <1>1 DEF SeatFocus, SeatFocusSurface, SeatFocusLockSurface

\* seat_focus_override_begin() sets the mode, and leaves the keys alone.
LEMMA OverrideBeginKeys ==
  ASSUME NEW s \in KeyServer, NEW mode \in InputModes
  PROVE LET t == FocusOverrideBegin(s, mode)
        IN  t \in KeyServer /\ SameKeys(s, t) /\ t.input_mode = mode
<1> DEFINE u == [s EXCEPT !.input_mode = mode, !.override = s.focused_surface]
<1>1. u \in KeyServer /\ SameKeys(s, u) /\ u.input_mode = mode
  BY DEF KeyServer, SameKeys
<1>2. FocusOverrideBegin(s, mode) = SeatFocus(u, None, FALSE, FALSE)
  BY DEF FocusOverrideBegin
<1> HIDE DEF u
<1>3. SameMode(u, SeatFocus(u, None, FALSE, FALSE)) BY <1>1, SeatFocusKeys
<1> QED BY <1>1, <1>2, <1>3 DEF SameKeys, SameMode

\* seat_focus_override_end() ends the mode, and leaves the keys alone.
LEMMA OverrideEndKeys ==
  ASSUME NEW s \in KeyServer, NEW restore \in BOOLEAN
  PROVE LET t == FocusOverrideEnd(s, restore)
        IN  t \in KeyServer /\ SameKeys(s, t) /\ t.input_mode = "passthrough"
<1> DEFINE t == [s EXCEPT !.input_mode = "passthrough"]
           u == IF restore /\ t.override # None
                THEN SeatFocus(t, t.override, FALSE, FALSE) ELSE t
<1>1. t \in KeyServer /\ SameKeys(s, t) /\ t.input_mode = "passthrough"
  BY DEF KeyServer, SameKeys, InputModes
<1>2. u \in KeyServer /\ SameKeys(s, u) /\ u.input_mode = "passthrough"
  <2> HIDE DEF t
  <2>1. t.override \in Surfaces \cup {None} BY <1>1 DEF KeyServer
  <2>2. SameMode(t, SeatFocus(t, t.override, FALSE, FALSE)) BY <1>1, <2>1, SeatFocusKeys
  <2> QED BY <1>1, <2>2 DEF SameKeys, SameMode
<1>3. FocusOverrideEnd(s, restore) = [u EXCEPT !.override = None]
  BY DEF FocusOverrideEnd
<1> HIDE DEF u
<1>4. [u EXCEPT !.override = None] \in KeyServer /\ SameKeys(u, [u EXCEPT !.override = None])
      /\ [u EXCEPT !.override = None].input_mode = u.input_mode
  BY <1>2 DEF KeyServer, SameKeys
<1> QED BY <1>2, <1>3, <1>4 DEF SameKeys

\* The destruction of a surface leaves the keys and the input mode alone.
LEMMA SurfaceDestroyedKeys ==
  ASSUME NEW s \in KeyServer, NEW x PROVE SameMode(s, SurfaceDestroyed(s, x))
<1> DEFINE t == IF s.focused_surface = x THEN KeyboardEnter(s, None) ELSE s
<1>1. SameMode(s, t) BY KeyboardEnterKeys DEF SameMode, SameKeys
<1>2. SurfaceDestroyed(s, x) = IF t.override = x THEN [t EXCEPT !.override = None] ELSE t
  BY DEF SurfaceDestroyed
<1> HIDE DEF t
<1>3. SameMode(t, [t EXCEPT !.override = None]) BY <1>1 DEF KeyServer, SameKeys, SameMode
<1> QED BY <1>1, <1>2, <1>3 DEF SameKeys, SameMode

----------------------------------------------------------------------------
(* What a change of the focus makes of the client's keys *)

\* A client that gets the keyboard is told of the keys that were not used.
LEMMA TellRight ==
  ASSUME NEW H, NEW c, NEW s, Right(s, H, c), NEW t \in KeyServer, SameKeys(s, t)
  PROVE /\ Right(Tell(s, t), H, c)
        /\ Tell(s, t).pressed = s.pressed /\ Tell(s, t).bound = s.bound
        /\ Tell(s, t).cancel_on_release = s.cancel_on_release
        /\ Tell(s, t).repeat = s.repeat /\ Tell(s, t).cur_keybind = s.cur_keybind
        /\ Tell(s, t).input_mode = t.input_mode
<1> DEFINE D == IF t.focused_surface = None THEN {} ELSE s.pressed \ s.bound
           u == [t EXCEPT !.down = D, !.swallowed = {}]
<1>1. s \in KeyServer BY DEF Right
<1>2. CASE t.focused_surface = s.focused_surface
  <2>1. Tell(s, t) = t BY <1>2 DEF Tell
  <2>2. Right(t, H, c) BY <1>2 DEF Right, SameKeys, Believed, NotTold, Told
  <2> QED BY <2>1, <2>2 DEF SameKeys
<1>3. CASE t.focused_surface # s.focused_surface
  <2>1. Tell(s, t) = u BY <1>3 DEF Tell, PressedSent, SameKeys
  <2>2. D \subseteq Keys BY <1>1 DEF KeyServer
  <2>3. /\ u \in KeyServer /\ u.down = D /\ u.swallowed = {}
        /\ u.pressed = s.pressed /\ u.bound = s.bound
        /\ u.cancel_on_release = s.cancel_on_release
        /\ u.repeat = s.repeat /\ u.cur_keybind = s.cur_keybind
        /\ u.input_mode = t.input_mode /\ u.focused_surface = t.focused_surface
    <3> HIDE DEF D
    <3> QED BY <2>2 DEF KeyServer, SameKeys
  <2> HIDE DEF u
  <2>4. Right(u, H, c) BY <2>3 DEF Right, Believed, NotTold, Told
  <2> QED BY <2>1, <2>3, <2>4
<1> QED BY <1>2, <1>3

\* A step of the seat without a new mode, and what the client is told of it
LEMMA TellFollows ==
  ASSUME NEW H, NEW c, NEW s, Right(s, H, c), NEW t, SameMode(s, t)
  PROVE Right(Tell(s, t), H, c) /\ Follows(s, Tell(s, t))
BY TellRight DEF SameMode, Follows

\* Giving the keyboard to a surface is a change of the focus.
LEMMA FocusFollows ==
  ASSUME NEW H, NEW c, NEW s, Right(s, H, c), NEW x \in Surfaces \cup {None}
  PROVE Right(Focus(s, x), H, c) /\ Follows(s, Focus(s, x))
<1>1. SameMode(s, SeatFocusSurface(s, x)) BY SeatFocusKeys DEF Right
<1> QED BY <1>1, TellFollows DEF Focus

\* So is giving it back after an input mode.
LEMMA EndOverrideFollows ==
  ASSUME NEW H, NEW c, NEW s, Right(s, H, c), NEW restore \in BOOLEAN
  PROVE /\ Right(EndOverride(s, restore), H, c)
        /\ Follows(s, EndOverride(s, restore))
        /\ EndOverride(s, restore).input_mode = "passthrough"
<1> DEFINE t == FocusOverrideEnd(s, restore)
<1>1. t \in KeyServer /\ SameKeys(s, t) /\ t.input_mode = "passthrough"
  BY OverrideEndKeys DEF Right
<1> HIDE DEF t
<1> QED BY <1>1, TellRight DEF EndOverride, Follows, t

\* An input mode takes the keyboard, and the client forgets its keys.
LEMMA BeginOverrideRight ==
  ASSUME NEW H, NEW c, NEW s, Right(s, H, c), NEW mode \in InputModes
  PROVE LET t == BeginOverride(s, mode)
        IN  /\ Right(t, H, c)
            /\ t.input_mode = mode
            /\ t.pressed = s.pressed /\ t.bound = s.bound
            /\ t.cancel_on_release = s.cancel_on_release
            /\ t.repeat = s.repeat /\ t.cur_keybind = s.cur_keybind
<1> DEFINE t == FocusOverrideBegin(s, mode)
<1>1. t \in KeyServer /\ SameKeys(s, t) /\ t.input_mode = mode
  BY OverrideBeginKeys DEF Right
<1> HIDE DEF t
<1> QED BY <1>1, TellRight DEF BeginOverride, t

\* Following is transitive.
LEMMA FollowsTwice ==
  ASSUME NEW s, NEW t, NEW u, Follows(s, t), Follows(t, u) PROVE Follows(s, u)
BY DEF Follows

\* A handler that does nothing
LEMMA FollowsItself == ASSUME NEW s PROVE Follows(s, s)
BY DEF Follows

\* cycle_finish(): the switcher is closed, and any window may have the keyboard.
LEMMA CycleFinishFollows ==
  ASSUME NEW H, NEW c, NEW s, Right(s, H, c), NEW switchFocus \in BOOLEAN,
         NEW t \in CycleFinish(s, switchFocus)
  PROVE Right(t, H, c) /\ Follows(s, t) /\ t.input_mode # "cycle"
<1> DEFINE e == EndOverride(s, ~switchFocus)
<1>1. Right(e, H, c) /\ Follows(s, e) /\ e.input_mode = "passthrough"
  BY EndOverrideFollows
<1>2. CASE s.input_mode # "cycle"
  BY <1>2, FollowsItself DEF CycleFinish
<1>3. CASE s.input_mode = "cycle"
  <2>1. t = e \/ \E v \in Views : t = Focus(e, v)
    BY <1>3 DEF CycleFinish
  <2> HIDE DEF e
  <2>2. ASSUME NEW v \in Views, t = Focus(e, v)
        PROVE Right(t, H, c) /\ Follows(s, t) /\ t.input_mode # "cycle"
    <3>1. v \in Surfaces \cup {None} BY DEF Surfaces
    <3>2. Right(t, H, c) /\ Follows(e, t) BY <1>1, <2>2, <3>1, FocusFollows
    <3>3. Follows(s, t) BY <1>1, <3>2, FollowsTwice
    <3> QED BY <1>1, <3>2, <3>3 DEF Follows
  <2> QED BY <1>1, <2>1, <2>2
<1> QED BY <1>2, <1>3

\* actions_run(): no keybind waits any more, and the switcher was opened only by
\* the action that does so.
LEMMA ActionsRunRight ==
  ASSUME NEW H, NEW c, NEW s, Right(s, H, c), NEW does, NEW t \in ActionsRun(s, does)
  PROVE /\ Right(t, H, c)
        /\ t.pressed = s.pressed /\ t.bound = s.bound
        /\ t.cancel_on_release = s.cancel_on_release
        /\ t.repeat = s.repeat /\ t.cur_keybind = None
        /\ t.input_mode = "cycle" => s.input_mode = "cycle" \/ does = "switch"
<1> DEFINE r == [s EXCEPT !.cur_keybind = None]
<1>1. /\ r \in KeyServer
      /\ r.pressed = s.pressed /\ r.bound = s.bound /\ r.cancel_on_release = s.cancel_on_release
      /\ r.repeat = s.repeat /\ r.cur_keybind = None /\ r.input_mode = s.input_mode
      /\ r.down = s.down /\ r.swallowed = s.swallowed /\ r.focused_surface = s.focused_surface
  BY DEF Right, KeyServer
<1>2. \/ t = r
      \/ \E v \in Views \cup {None} : t = Focus(r, v)
      \/ does = "switch" /\ t = BeginOverride(r, "cycle")
      \/ t = BeginOverride(r, "menu")
  BY DEF ActionsRun
<1> HIDE DEF r
<1>3. Right(r, H, c) BY <1>1 DEF Right, Believed, NotTold, Told
<1>4. CASE t = r BY <1>1, <1>3, <1>4
<1>5. CASE \E v \in Views \cup {None} : t = Focus(r, v)
  <2>1. PICK v \in Views \cup {None} : t = Focus(r, v) BY <1>5
  <2>2. v \in Surfaces \cup {None} BY DEF Surfaces
  <2>3. Right(t, H, c) /\ Follows(r, t) BY <1>3, <2>1, <2>2, FocusFollows
  <2> QED BY <1>1, <2>3 DEF Follows
<1>6. CASE does = "switch" /\ t = BeginOverride(r, "cycle")
  BY <1>1, <1>3, <1>6, BeginOverrideRight DEF InputModes
<1>7. CASE t = BeginOverride(r, "menu")
  BY <1>1, <1>3, <1>7, BeginOverrideRight DEF InputModes
<1> QED BY <1>2, <1>4, <1>5, <1>6, <1>7

\* handle_menu_keys(): the menu is closed or stays, and an item's action may run.
LEMMA MenuKeyRight ==
  ASSUME NEW H, NEW c, NEW s, Right(s, H, c), NEW k, NEW t \in MenuKey(s, k)
  PROVE /\ Right(t, H, c)
        /\ t.pressed = s.pressed /\ t.bound = s.bound
        /\ t.cancel_on_release = s.cancel_on_release
        /\ t.repeat = s.repeat /\ t.cur_keybind \in {s.cur_keybind, None}
        /\ t.input_mode = "cycle" => s.input_mode = "cycle" \/ "switch" \in OtherEffects
<1> DEFINE e == EndOverride(s, TRUE)
<1>1. Right(e, H, c) /\ Follows(s, e) /\ e.input_mode = "passthrough"
  BY EndOverrideFollows
<1>2. t = e \/ t = s \/ \E does \in OtherEffects : t \in ActionsRun(e, does)
  BY DEF MenuKey
<1> HIDE DEF e
<1>3. CASE t = e BY <1>1, <1>3 DEF Follows
<1>4. CASE t = s BY <1>4
<1>5. ASSUME NEW does \in OtherEffects, t \in ActionsRun(e, does)
      PROVE /\ Right(t, H, c)
            /\ t.pressed = s.pressed /\ t.bound = s.bound
            /\ t.cancel_on_release = s.cancel_on_release
            /\ t.repeat = s.repeat /\ t.cur_keybind = None
            /\ t.input_mode = "cycle" => "switch" \in OtherEffects
  BY <1>1, <1>5, ActionsRunRight DEF Follows
<1> QED BY <1>2, <1>3, <1>4, <1>5

----------------------------------------------------------------------------
(* A key is pressed *)

\* Whether a key is pressed or repeats, what the sets of keys then hold
LEMMA PressRecorded ==
  ASSUME NEW s, Right(s, held, crowded), s.bound \subseteq held,
         NEW k \in Keys, NEW H, NEW c, Presses(s, k, H, c)
  PROVE LET P == LabSetAdd(s.pressed, k)
            B == LabSetAdd(s.bound, k)
        IN  /\ H \subseteq Keys /\ IsFiniteSet(H) /\ held \subseteq H /\ H \subseteq held \cup {k}
            /\ k \in H
            /\ s.pressed \subseteq P /\ P \subseteq H /\ Cardinality(P) <= MaxSize
            /\ s.bound \subseteq B /\ B \subseteq H /\ IsFiniteSet(B) /\ Cardinality(B) <= MaxSize
            /\ k \in B \/ Full(B)
            /\ k \in held => B = s.bound
            /\ ~c => /\ ~crowded
                     /\ Cardinality(H) <= MaxSize
                     /\ P = H
                     /\ B = s.bound \cup {k}
<1> DEFINE P == LabSetAdd(s.pressed, k)
           B == LabSetAdd(s.bound, k)
<1>1. /\ held \subseteq Keys /\ IsFiniteSet(held)
      /\ s.pressed \subseteq held /\ Cardinality(s.pressed) <= MaxSize
      /\ IsFiniteSet(s.bound) /\ Cardinality(s.bound) <= MaxSize
      /\ ~crowded => Cardinality(held) <= MaxSize /\ s.pressed = held
  BY DEF Right, Told
<1>2. IsFiniteSet(s.pressed) BY <1>1, FS_Subset
<1>3. /\ s.pressed \subseteq P /\ P \subseteq s.pressed \cup {k}
      /\ IsFiniteSet(P) /\ Cardinality(P) <= MaxSize
  BY <1>1, <1>2, AddedOrFull
<1>4. /\ s.bound \subseteq B /\ B \subseteq s.bound \cup {k}
      /\ IsFiniteSet(B) /\ Cardinality(B) <= MaxSize
      /\ k \in B \/ (B = s.bound /\ Full(s.bound))
  BY <1>1, AddedOrFull
<1>5. CASE k \notin held
  <2>1. H = held \cup {k} /\ (c <=> crowded \/ Cardinality(H) > MaxSize)
    BY <1>5 DEF Presses
  <2>2. IsFiniteSet(H) /\ H \subseteq Keys BY <1>1, <2>1, FS_AddElement
  <2>3. ASSUME ~c
        PROVE ~crowded /\ Cardinality(H) <= MaxSize /\ P = H /\ B = s.bound \cup {k}
    <3>1. Cardinality(H) \in Nat /\ MaxSize \in Nat
      BY <2>2, FS_CardinalityType, KeysAssumption
    <3>2. ~crowded /\ ~(Cardinality(H) > MaxSize) BY <2>1, <2>3
    <3>3. Cardinality(H) <= MaxSize BY <3>1, <3>2
    <3>4. P = s.pressed \cup {k} BY <1>1, <1>5, <2>1, <3>3, RoomForPressed
    <3>5. B = s.bound \cup {k} BY <1>1, <1>5, <2>1, <3>3, RoomForPressed
    <3> QED BY <1>1, <2>1, <3>2, <3>3, <3>4, <3>5
  <2> HIDE DEF P, B
  <2> QED BY <1>1, <1>3, <1>4, <1>5, <2>1, <2>2, <2>3 DEF P, B
<1>6. CASE k \in held
  <2>1. H = held /\ (c <=> crowded) /\ (k \in s.bound \/ Full(s.bound))
    BY <1>6 DEF Presses
  <2>2. B = s.bound
    BY <2>1 DEF LabSetAdd, Full
  <2>3. ASSUME ~c
        PROVE ~crowded /\ Cardinality(H) <= MaxSize /\ P = H /\ B = s.bound \cup {k}
    <3>1. k \in s.bound
      BY <1>1, <1>6, <2>1, <2>3, FullHoldsAll
    <3>2. P = held BY <1>1, <1>3, <1>6, <2>1, <2>3
    <3> HIDE DEF P, B
    <3> QED BY <1>1, <2>1, <2>2, <2>3, <3>1, <3>2
  <2> HIDE DEF P, B
  <2> QED BY <1>1, <1>3, <1>4, <1>6, <2>1, <2>2, <2>3 DEF P, B
<1> QED BY <1>5, <1>6

\* A press that the compositor uses is recorded as bound at once.
LEMMA UsedRight ==
  ASSUME NEW s, Right(s, held, crowded), s.bound \subseteq held,
         NEW k \in Keys, NEW H, NEW c, Presses(s, k, H, c)
  PROVE LET t == StoreAsBound(SetPressed(s, k), k)
        IN  /\ Right(t, H, c)
            /\ s.bound \subseteq t.bound /\ t.bound \subseteq H
            /\ k \in t.bound \/ Full(t.bound)
            /\ t.cancel_on_release = s.cancel_on_release
            /\ t.repeat = s.repeat /\ t.cur_keybind = s.cur_keybind
            /\ t.input_mode = s.input_mode
<1> DEFINE P == LabSetAdd(s.pressed, k)
           B == LabSetAdd(s.bound, k)
           t == [s EXCEPT !.pressed = P, !.bound = B]
<1>1. /\ H \subseteq Keys /\ IsFiniteSet(H) /\ held \subseteq H /\ H \subseteq held \cup {k}
      /\ k \in H
      /\ s.pressed \subseteq P /\ P \subseteq H /\ Cardinality(P) <= MaxSize
      /\ s.bound \subseteq B /\ B \subseteq H /\ IsFiniteSet(B) /\ Cardinality(B) <= MaxSize
      /\ k \in B \/ Full(B)
      /\ k \in held => B = s.bound
      /\ ~c => /\ ~crowded
               /\ Cardinality(H) <= MaxSize
               /\ P = H
               /\ B = s.bound \cup {k}
  BY PressRecorded
<1>2. B \subseteq s.bound \cup {k} BY DEF LabSetAdd
<1> HIDE DEF P, B
<1>3. s \in KeyServer BY DEF Right
<1>4. StoreAsBound(SetPressed(s, k), k) = t BY <1>3 DEF StoreAsBound, SetPressed, P, B, KeyServer
<1>5. /\ t \in KeyServer /\ t.pressed = P /\ t.bound = B
      /\ t.down = s.down /\ t.swallowed = s.swallowed /\ t.focused_surface = s.focused_surface
      /\ t.cancel_on_release = s.cancel_on_release
      /\ t.repeat = s.repeat /\ t.cur_keybind = s.cur_keybind
      /\ t.input_mode = s.input_mode
  BY <1>1, <1>3 DEF KeyServer
<1> HIDE DEF t
<1>6. Believed(t) = Believed(s) BY <1>5 DEF Believed
<1>7. Believed(s) \subseteq held /\ Believed(s) \cap s.bound = {} BY DEF Right, NotTold
<1>8. Believed(t) \cap B = {}
  <2>1. CASE k \in held BY <1>1, <1>6, <1>7, <2>1
  <2>2. CASE k \notin held BY <1>2, <1>6, <1>7, <2>2
  <2> QED BY <2>1, <2>2
<1>9. ~c => Told(t, H)
  <2> SUFFICES ASSUME ~c PROVE Told(t, H) OBVIOUS
  <2>1. s.focused_surface # None => (held \ s.bound) \ EscapeKeys \subseteq Believed(s)
    BY <1>1 DEF Right, Told
  <2>2. (H \ B) \subseteq held \ s.bound BY <1>1
  <2> QED BY <1>1, <1>5, <1>6, <2>1, <2>2 DEF Told
<1>10. Right(t, H, c)
  <2>1. s.swallowed \subseteq s.down BY DEF Right
  <2> QED BY <1>1, <1>5, <1>6, <1>7, <1>8, <1>9, <2>1 DEF Right, NotTold
<1> QED BY <1>1, <1>4, <1>5, <1>10

\* The press of Escape is recorded as pressed first, ...
LEMMA EscapePressed ==
  ASSUME NEW s, Right(s, held, crowded), s.bound \subseteq held,
         NEW k \in Keys, NEW H, NEW c, Presses(s, k, H, c), k \in EscapeKeys \/ k \in held
  PROVE LET t == SetPressed(s, k)
        IN  /\ Right(t, H, c)
            /\ t.bound = s.bound
            /\ t.cancel_on_release = s.cancel_on_release
            /\ t.repeat = s.repeat /\ t.cur_keybind = s.cur_keybind
            /\ t.input_mode = s.input_mode
<1> DEFINE P == LabSetAdd(s.pressed, k)
           t == [s EXCEPT !.pressed = P]
<1>1. /\ H \subseteq Keys /\ IsFiniteSet(H) /\ held \subseteq H /\ H \subseteq held \cup {k}
      /\ P \subseteq H /\ Cardinality(P) <= MaxSize
      /\ ~c => ~crowded /\ Cardinality(H) <= MaxSize /\ P = H
  BY PressRecorded
<1> HIDE DEF P
<1>2. s \in KeyServer BY DEF Right
<1>3. SetPressed(s, k) = t BY DEF SetPressed, P
<1>4. /\ t \in KeyServer /\ t.pressed = P /\ t.bound = s.bound
      /\ t.down = s.down /\ t.swallowed = s.swallowed /\ t.focused_surface = s.focused_surface
      /\ t.cancel_on_release = s.cancel_on_release
      /\ t.repeat = s.repeat /\ t.cur_keybind = s.cur_keybind
      /\ t.input_mode = s.input_mode
  BY <1>1, <1>2 DEF KeyServer
<1> HIDE DEF t
<1>5. Believed(t) = Believed(s) BY <1>4 DEF Believed
<1>6. ~c => Told(t, H)
  <2> SUFFICES ASSUME ~c PROVE Told(t, H) OBVIOUS
  <2>1. s.focused_surface # None => (held \ s.bound) \ EscapeKeys \subseteq Believed(s)
    BY <1>1 DEF Right, Told
  <2>2. H \ EscapeKeys \subseteq held BY <1>1
  <2> QED BY <1>1, <1>4, <1>5, <2>1, <2>2 DEF Told
<1>7. Right(t, H, c) BY <1>1, <1>4, <1>5, <1>6 DEF Right, NotTold
<1> QED BY <1>3, <1>4, <1>7

\* ... and as bound when the switcher is closed.
LEMMA EscapeStored ==
  ASSUME NEW H, NEW c, NEW s, Right(s, H, c), NEW k \in EscapeKeys
  PROVE LET t == StoreAsBound(s, k)
        IN  /\ Right(t, H, c)
            /\ s.bound \subseteq t.bound /\ t.bound \subseteq s.bound \cup {k}
            /\ k \in t.bound \/ Full(t.bound)
            /\ t.cancel_on_release = s.cancel_on_release
            /\ t.repeat = s.repeat /\ t.cur_keybind = s.cur_keybind
            /\ t.input_mode = s.input_mode
<1> DEFINE B == LabSetAdd(s.bound, k)
           t == [s EXCEPT !.bound = B]
<1>1. s \in KeyServer /\ k \in Keys BY KeysAssumption DEF Right
<1>2. /\ s.bound \subseteq B /\ B \subseteq s.bound \cup {k}
      /\ IsFiniteSet(B) /\ Cardinality(B) <= MaxSize
      /\ k \in B \/ Full(B)
  BY AddedOrFull DEF Right
<1>3. StoreAsBound(s, k) = t BY DEF StoreAsBound
<1> HIDE DEF B
<1>4. /\ t \in KeyServer /\ t.pressed = s.pressed /\ t.bound = B
      /\ t.down = s.down /\ t.swallowed = s.swallowed /\ t.focused_surface = s.focused_surface
      /\ t.cancel_on_release = s.cancel_on_release
      /\ t.repeat = s.repeat /\ t.cur_keybind = s.cur_keybind
      /\ t.input_mode = s.input_mode
  BY <1>1, <1>2 DEF KeyServer
<1> HIDE DEF t
<1>5. Believed(t) = Believed(s) /\ k \notin Believed(s) BY <1>4 DEF Believed
<1>6. NotTold(t) BY <1>2, <1>4, <1>5 DEF NotTold, Right
<1>7. ~c => Told(t, H) BY <1>2, <1>4, <1>5 DEF Told, Right
<1>8. Right(t, H, c) BY <1>2, <1>4, <1>5, <1>6, <1>7 DEF Right
<1> QED BY <1>2, <1>3, <1>4, <1>8

\* match_keybinding() finds a keybind of the key and of the modifiers that are held.
LEMMA Matched ==
  ASSUME NEW k, NEW b, b = MatchKeybinding(k)
  PROVE /\ b \in Keybinds \cup {None}
        /\ b # None => b.key = k /\ b.modifiers = held \cap ModifierKeys
<1> DEFINE matching == {x \in Keybinds : x.key = k /\ x.modifiers = held \cap ModifierKeys}
<1>1. b = IF matching = {} THEN None ELSE CHOOSE x \in matching : TRUE
  BY DEF MatchKeybinding
<1>2. b = None \/ b \in matching BY <1>1
<1> QED BY <1>2

\* handle_compositor_keybindings() for a press that it does not use
MatchOnly(s, k) == [SetPressed(s, k) EXCEPT !.cur_keybind = MatchKeybinding(k)]

\* A key that the compositor does not use, with the keybind that it matched
LEMMA ClientKey ==
  ASSUME NEW s, Right(s, held, crowded), s.bound \subseteq held,
         NEW k \in Keys, NEW H, NEW c, Presses(s, k, H, c),
         NEW t, t = MatchOnly(s, k)
  PROVE /\ t \in KeyServer
        /\ t.pressed = LabSetAdd(s.pressed, k) /\ t.bound = s.bound
        /\ t.down = s.down /\ t.swallowed = s.swallowed /\ t.focused_surface = s.focused_surface
        /\ t.cancel_on_release = s.cancel_on_release
        /\ t.repeat = s.repeat /\ t.cur_keybind = MatchKeybinding(k)
        /\ t.input_mode = s.input_mode
<1> DEFINE P == LabSetAdd(s.pressed, k)
<1>1. s \in KeyServer BY DEF Right
<1>2. MatchKeybinding(k) \in Keybinds \cup {None} BY Matched
<1>3. P \subseteq Keys BY PressRecorded
<1>4. t = [[s EXCEPT !.pressed = P] EXCEPT !.cur_keybind = MatchKeybinding(k)]
  BY DEF MatchOnly, SetPressed
<1> HIDE DEF P
<1>5. t = [s EXCEPT !.pressed = P, !.cur_keybind = MatchKeybinding(k)] BY <1>1, <1>4 DEF KeyServer
<1> QED BY <1>1, <1>2, <1>3, <1>5 DEF KeyServer, P

\* ... is sent to the client when it is pressed.
LEMMA ClientPressRight ==
  ASSUME NEW s, Right(s, held, crowded), s.bound \subseteq held,
         NEW k \in Keys, k \notin held, NEW H, NEW c, Presses(s, k, H, c),
         NEW t, t = ForwardPress(MatchOnly(s, k), k)
  PROVE /\ Right(t, H, c)
        /\ t.bound = s.bound
        /\ t.cancel_on_release = s.cancel_on_release
        /\ t.repeat = s.repeat /\ t.cur_keybind = MatchKeybinding(k)
        /\ t.input_mode = s.input_mode
<1> DEFINE P == LabSetAdd(s.pressed, k)
           u == MatchOnly(s, k)
           D == IF s.focused_surface = None THEN s.down ELSE s.down \cup {k}
           E == IF s.focused_surface = None THEN s.swallowed ELSE s.swallowed \ {k}
<1>1. /\ H \subseteq Keys /\ IsFiniteSet(H) /\ held \subseteq H /\ H \subseteq held \cup {k}
      /\ k \in H
      /\ P \subseteq H /\ Cardinality(P) <= MaxSize
      /\ ~c => ~crowded /\ Cardinality(H) <= MaxSize /\ P = H
  BY PressRecorded
<1>2. /\ u \in KeyServer
      /\ u.pressed = P /\ u.bound = s.bound
      /\ u.down = s.down /\ u.swallowed = s.swallowed /\ u.focused_surface = s.focused_surface
      /\ u.cancel_on_release = s.cancel_on_release
      /\ u.repeat = s.repeat /\ u.cur_keybind = MatchKeybinding(k)
      /\ u.input_mode = s.input_mode
  <2>1. \A v : v = MatchOnly(s, k) =>
          /\ v \in KeyServer
          /\ v.pressed = P /\ v.bound = s.bound
          /\ v.down = s.down /\ v.swallowed = s.swallowed /\ v.focused_surface = s.focused_surface
          /\ v.cancel_on_release = s.cancel_on_release
          /\ v.repeat = s.repeat /\ v.cur_keybind = MatchKeybinding(k)
          /\ v.input_mode = s.input_mode
    BY ClientKey
  <2> QED BY <2>1
<1> HIDE DEF u, P
<1>3. /\ t \in KeyServer /\ t.pressed = P /\ t.bound = s.bound
      /\ t.down = D /\ t.swallowed = E /\ t.focused_surface = s.focused_surface
      /\ t.cancel_on_release = s.cancel_on_release
      /\ t.repeat = s.repeat /\ t.cur_keybind = MatchKeybinding(k)
      /\ t.input_mode = s.input_mode
  <2>1. t = ForwardPress(u, k) BY DEF u
  <2>2. CASE s.focused_surface = None BY <1>2, <2>1, <2>2 DEF ForwardPress
  <2>3. CASE s.focused_surface # None
    <3>1. t = [u EXCEPT !.down = D, !.swallowed = E] BY <1>2, <2>1, <2>3 DEF ForwardPress, KeyServer
    <3>2. D \subseteq Keys /\ E \subseteq Keys BY <1>2 DEF KeyServer
    <3> HIDE DEF D, E
    <3> QED BY <1>2, <3>1, <3>2, ZenonT(60) DEF KeyServer
  <2> QED BY <2>2, <2>3
<1>4. /\ s.focused_surface # None => Believed(t) = Believed(s) \cup ({k} \ EscapeKeys)
      /\ s.focused_surface = None => Believed(t) = Believed(s)
  <2> HIDE DEF P
  <2> QED BY <1>3 DEF Believed
<1>5. E \subseteq D BY DEF Right
<1> HIDE DEF D, E
<1>6. Believed(s) \subseteq held /\ Believed(s) \cap s.bound = {} /\ k \notin s.bound
  BY DEF Right, NotTold
<1>7. Believed(t) \subseteq H /\ NotTold(t) BY <1>1, <1>3, <1>4, <1>6 DEF NotTold
<1>8. ~c => Told(t, H)
  <2> SUFFICES ASSUME ~c PROVE Told(t, H) OBVIOUS
  <2>1. s.focused_surface # None => (held \ s.bound) \ EscapeKeys \subseteq Believed(s)
    BY <1>1 DEF Right, Told
  <2> QED BY <1>1, <1>3, <1>4, <2>1 DEF Told
<1>9. Right(t, H, c) BY <1>1, <1>3, <1>5, <1>7, <1>8 DEF Right
<1> QED BY <1>3, <1>9

\* ... but not when it repeats.
LEMMA ClientRepeatRight ==
  ASSUME NEW s, Right(s, held, crowded), s.bound \subseteq held,
         NEW k \in held, NEW H, NEW c, Presses(s, k, H, c),
         NEW t, t = MatchOnly(s, k)
  PROVE /\ Right(t, H, c)
        /\ t.bound = s.bound
        /\ t.cancel_on_release = s.cancel_on_release
        /\ t.repeat = s.repeat /\ t.cur_keybind = MatchKeybinding(k)
        /\ t.input_mode = s.input_mode
<1> DEFINE u == SetPressed(s, k)
<1>1. k \in Keys BY DEF Right
<1>2. Right(u, H, c) /\ u.bound = s.bound /\ u.cancel_on_release = s.cancel_on_release
      /\ u.repeat = s.repeat /\ u.input_mode = s.input_mode
  BY <1>1, EscapePressed
<1>3. t = [u EXCEPT !.cur_keybind = MatchKeybinding(k)] BY DEF MatchOnly
<1>4. MatchKeybinding(k) \in Keybinds \cup {None} BY Matched
<1> HIDE DEF u
<1>5. /\ t \in KeyServer /\ t.pressed = u.pressed /\ t.bound = u.bound
      /\ t.down = u.down /\ t.swallowed = u.swallowed /\ t.focused_surface = u.focused_surface
      /\ t.cancel_on_release = u.cancel_on_release
      /\ t.repeat = u.repeat /\ t.cur_keybind = MatchKeybinding(k)
      /\ t.input_mode = u.input_mode
  BY <1>2, <1>3, <1>4 DEF KeyServer, Right
<1>6. Right(t, H, c) BY <1>2, <1>5 DEF Right, Believed, NotTold, Told
<1> QED BY <1>2, <1>5, <1>6

\* What a press, or a repeat, that the compositor uses makes of the server
Used(s, k, H, c, t) ==
    /\ Right(t, H, c)
    /\ s.bound \subseteq t.bound /\ t.bound \subseteq H
    /\ k \in t.bound \/ Full(t.bound)
    /\ t.cancel_on_release = s.cancel_on_release
    /\ t.repeat \in {s.repeat, None}
    /\ Waits(t, H)
    /\ t.input_mode = "cycle" /\ SwitcherIsModal =>
          s.input_mode = "cycle" \/ held \cap ModifierKeys # {}

\* handle_compositor_keybindings() for a press that it uses
LEMMA PressUsed ==
  ASSUME NEW s, Right(s, held, crowded), s.bound \subseteq held, Waits(s, held),
         NEW k \in Keys, NEW H, NEW c, Presses(s, k, H, c),
         NEW t \in PressKeybindings(s, k), Taker(s, k) # "client"
  PROVE Used(s, k, H, c, t)
<1> DEFINE u == StoreAsBound(SetPressed(s, k), k)
           b == MatchKeybinding(k)
<1>1. /\ Right(u, H, c)
      /\ s.bound \subseteq u.bound /\ u.bound \subseteq H
      /\ k \in u.bound \/ Full(u.bound)
      /\ u.cancel_on_release = s.cancel_on_release
      /\ u.repeat = s.repeat /\ u.cur_keybind = s.cur_keybind
      /\ u.input_mode = s.input_mode
  BY UsedRight
<1>2. held \subseteq H /\ k \in H BY PressRecorded
<1>3. Waits(s, H) BY <1>2 DEF Waits
<1>4. Taker(s, k) \in {"vt", "menu", "switcher", "keybind"}
  BY DEF Taker
<1>5. CASE Taker(s, k) = "vt"
  <2>1. t = [u EXCEPT !.repeat = None] BY <1>5 DEF PressKeybindings
  <2> HIDE DEF u
  <2>2. /\ t \in KeyServer /\ t.pressed = u.pressed /\ t.bound = u.bound
        /\ t.down = u.down /\ t.swallowed = u.swallowed /\ t.focused_surface = u.focused_surface
        /\ t.cancel_on_release = u.cancel_on_release
        /\ t.repeat = None /\ t.cur_keybind = u.cur_keybind
        /\ t.input_mode = u.input_mode
    BY <1>1, <2>1 DEF Right, KeyServer
  <2>3. Right(t, H, c) BY <1>1, <2>2 DEF Right, Believed, NotTold, Told
  <2>4. Waits(t, H) BY <1>1, <1>3, <2>2 DEF Waits, Pending
  <2> QED BY <1>1, <2>2, <2>3, <2>4 DEF Used
<1>6. CASE Taker(s, k) = "menu"
  <2>1. t \in MenuKey(u, k) BY <1>6 DEF PressKeybindings
  <2> HIDE DEF u
  <2>2. /\ Right(t, H, c)
        /\ t.pressed = u.pressed /\ t.bound = u.bound
        /\ t.cancel_on_release = u.cancel_on_release
        /\ t.repeat = u.repeat /\ t.cur_keybind \in {u.cur_keybind, None}
        /\ t.input_mode = "cycle" => u.input_mode = "cycle" \/ "switch" \in OtherEffects
    BY <1>1, <2>1, MenuKeyRight
  <2>3. Waits(t, H) BY <1>1, <1>3, <2>2 DEF Waits, Pending
  <2> QED BY <1>1, <2>2, <2>3 DEF Used, SwitcherIsModal
<1>7. CASE Taker(s, k) = "switcher" /\ k \notin EscapeKeys
  <2>1. t = u BY <1>7 DEF PressKeybindings, SwitcherKey
  <2>2. Waits(t, H)
    <3> HIDE DEF u
    <3> QED BY <1>1, <1>3, <2>1 DEF Waits, Pending
  <2> HIDE DEF u
  <2> QED BY <1>1, <2>1, <2>2 DEF Used
<1>8. CASE Taker(s, k) = "switcher" /\ k \in EscapeKeys
  <2> DEFINE v == SetPressed(s, k)
  <2>1. PICK w \in CycleFinish(v, FALSE) : t = StoreAsBound(w, k)
    BY <1>8 DEF PressKeybindings, SwitcherKey
  <2>2. /\ Right(v, H, c) /\ v.bound = s.bound
        /\ v.cancel_on_release = s.cancel_on_release
        /\ v.repeat = s.repeat /\ v.cur_keybind = s.cur_keybind
        /\ v.input_mode = s.input_mode
    BY <1>8, EscapePressed
  <2> HIDE DEF v
  <2>3. Right(w, H, c) /\ Follows(v, w) /\ w.input_mode # "cycle"
    BY <2>2, CycleFinishFollows
  <2>4. /\ Right(t, H, c)
        /\ w.bound \subseteq t.bound /\ t.bound \subseteq w.bound \cup {k}
        /\ k \in t.bound \/ Full(t.bound)
        /\ t.cancel_on_release = w.cancel_on_release
        /\ t.repeat = w.repeat /\ t.cur_keybind = w.cur_keybind
        /\ t.input_mode = w.input_mode
    BY <1>8, <2>1, <2>3, EscapeStored
  <2>5. t.cur_keybind \in {s.cur_keybind, None} BY <2>2, <2>3, <2>4 DEF Follows
  <2>6. Waits(t, H) BY <1>3, <2>5 DEF Waits, Pending
  <2>7. t.bound \subseteq H BY <1>2, <2>2, <2>3, <2>4 DEF Follows
  <2> QED BY <2>2, <2>3, <2>4, <2>6, <2>7 DEF Used, Follows
<1>9. CASE Taker(s, k) = "keybind"
  <2> DEFINE m == StoreAsBound([SetPressed(s, k) EXCEPT !.cur_keybind = b], k)
  <2>1. m = [u EXCEPT !.cur_keybind = b]
    <3>1. s \in KeyServer BY DEF Right
    <3> HIDE DEF b
    <3> QED BY <3>1 DEF StoreAsBound, SetPressed, KeyServer
  <2>2. b \in Keybinds \cup {None} /\ (b # None => b.key = k /\ b.modifiers = held \cap ModifierKeys)
    BY Matched
  <2>3. b # None /\ (s.locked => b.whenLocked) BY <1>9 DEF Taker, MayRun
  <2>4. IF b.onRelease THEN t = m ELSE t \in ActionsRun(m, b.does)
    BY <1>9 DEF PressKeybindings
  <2> HIDE DEF u, m, b
  <2>5. /\ m \in KeyServer /\ m.pressed = u.pressed /\ m.bound = u.bound
        /\ m.down = u.down /\ m.swallowed = u.swallowed /\ m.focused_surface = u.focused_surface
        /\ m.cancel_on_release = u.cancel_on_release
        /\ m.repeat = u.repeat /\ m.cur_keybind = b
        /\ m.input_mode = u.input_mode
    BY <1>1, <2>1, <2>2 DEF Right, KeyServer
  <2>6. Right(m, H, c) BY <1>1, <2>5 DEF Right, Believed, NotTold, Told
  <2>7. CASE b.onRelease
    <3>1. Waits(t, H) BY <1>2, <2>2, <2>3, <2>4, <2>5, <2>7 DEF Waits, Pending
    <3> QED BY <1>1, <2>4, <2>5, <2>6, <2>7, <3>1 DEF Used
  <2>8. CASE ~b.onRelease
    <3>1. t \in ActionsRun(m, b.does) BY <2>4, <2>8
    <3>2. /\ Right(t, H, c)
          /\ t.pressed = m.pressed /\ t.bound = m.bound
          /\ t.cancel_on_release = m.cancel_on_release
          /\ t.repeat = m.repeat /\ t.cur_keybind = None
          /\ t.input_mode = "cycle" => m.input_mode = "cycle" \/ b.does = "switch"
      BY <2>6, <3>1, ActionsRunRight
    <3>3. Waits(t, H) BY <3>2 DEF Waits, Pending
    <3>4. SwitcherIsModal /\ b.does = "switch" => held \cap ModifierKeys # {}
      BY <2>2, <2>3 DEF SwitcherIsModal
    <3> QED BY <1>1, <2>5, <3>2, <3>3, <3>4 DEF Used
  <2> QED BY <2>7, <2>8
<1> QED BY <1>4, <1>5, <1>6, <1>7, <1>8, <1>9

----------------------------------------------------------------------------
(* A key is released *)

\* A key that is released is forgotten, by the compositor and by the client.
LEMMA ForgetRight ==
  ASSUME NEW s, Right(s, held, crowded), s.bound \subseteq held, NEW k \in held,
         NEW H, H = held \ {k}, NEW c, c <=> Crowded(H),
         NEW t \in KeyServer,
         t.pressed = s.pressed \ {k},
         t.bound = s.bound \/ t.bound = s.bound \ {k},
         t.swallowed \subseteq t.down,
         Believed(t) = Believed(s) \ {k},
         t.focused_surface = s.focused_surface
  PROVE Right(t, H, c)
<1>1. /\ held \subseteq Keys /\ IsFiniteSet(held)
      /\ s.pressed \subseteq held /\ Cardinality(s.pressed) <= MaxSize
      /\ IsFiniteSet(s.bound) /\ Cardinality(s.bound) <= MaxSize
      /\ Believed(s) \subseteq held /\ Believed(s) \cap s.bound = {}
  BY DEF Right, NotTold
<1>2. IsFiniteSet(H) /\ H \subseteq Keys /\ IsFiniteSet(s.pressed)
  BY <1>1, FS_Subset
<1>3. t.pressed \subseteq H /\ Cardinality(t.pressed) <= MaxSize
  <2>1. t.pressed \subseteq s.pressed OBVIOUS
  <2>2. Cardinality(t.pressed) <= Cardinality(s.pressed) /\ IsFiniteSet(t.pressed)
    BY <1>2, <2>1, FS_Subset
  <2>3. Cardinality(t.pressed) \in Nat /\ Cardinality(s.pressed) \in Nat /\ MaxSize \in Nat
    BY <1>2, <2>2, FS_CardinalityType, KeysAssumption
  <2> QED BY <1>1, <2>2, <2>3
<1>4. IsFiniteSet(t.bound) /\ Cardinality(t.bound) <= MaxSize
  <2>1. t.bound \subseteq s.bound OBVIOUS
  <2>2. Cardinality(t.bound) <= Cardinality(s.bound) /\ IsFiniteSet(t.bound)
    BY <1>1, <2>1, FS_Subset
  <2>3. Cardinality(t.bound) \in Nat /\ Cardinality(s.bound) \in Nat /\ MaxSize \in Nat
    BY <1>1, <2>2, FS_CardinalityType, KeysAssumption
  <2> QED BY <1>1, <2>2, <2>3
<1>5. Believed(t) \subseteq H /\ NotTold(t) BY <1>1 DEF NotTold
<1>6. ~c => Told(t, H)
  <2> SUFFICES ASSUME ~c PROVE Told(t, H) OBVIOUS
  <2>1. CASE H = {}
    <3>1. Cardinality(H) <= MaxSize BY <2>1, FS_EmptySet, KeysAssumption, SMTT(30)
    <3> QED BY <1>3, <2>1, <3>1 DEF Told
  <2>2. CASE H # {}
    <3>1. ~crowded /\ ~(Cardinality(H) > MaxSize) BY <2>2 DEF Crowded
    <3>2. Cardinality(H) \in Nat /\ MaxSize \in Nat
      BY <1>2, FS_CardinalityType, KeysAssumption
    <3>3. Cardinality(H) <= MaxSize BY <3>1, <3>2
    <3>4. /\ s.pressed = held
          /\ s.focused_surface # None => (held \ s.bound) \ EscapeKeys \subseteq Believed(s)
      BY <3>1 DEF Right, Told
    <3>5. t.pressed = H BY <3>4
    <3>6. t.focused_surface # None => (H \ t.bound) \ EscapeKeys \subseteq Believed(t)
      BY <3>4
    <3> QED BY <3>3, <3>5, <3>6 DEF Told
  <2> QED BY <2>1, <2>2
<1> QED BY <1>2, <1>3, <1>4, <1>5, <1>6 DEF Right

\* The server at the beginning of the release of k
Releasing(k) == [server EXCEPT !.repeat = None, !.pressed = @ \ {k}]

\* What the server is then
LEMMA ReleasingIs ==
  ASSUME KeysInv, NEW k \in held
  PROVE LET s == Releasing(k)
        IN  /\ s \in KeyServer
            /\ s.pressed = server.pressed \ {k} /\ s.bound = server.bound
            /\ s.down = server.down /\ s.swallowed = server.swallowed
            /\ s.focused_surface = server.focused_surface
            /\ s.cancel_on_release = server.cancel_on_release
            /\ s.repeat = None /\ s.cur_keybind = server.cur_keybind
            /\ s.input_mode = server.input_mode
            /\ Pending(s) <=> Pending(server)
<1>1. server \in KeyServer BY DEF KeysInv, Right
<1> QED BY <1>1 DEF Releasing, KeyServer, Pending

\* What the handling of a release makes of the server
Left(k, t) ==
    /\ Right(t, held \ {k}, Crowded(held \ {k}))
    /\ t.bound = server.bound \ {k}
    /\ t.repeat = None
    /\ ~Pending(t)
    /\ t.input_mode = "cycle" =>
          \/ server.input_mode = "cycle"
          \/ Pending(server) /\ server.cur_keybind.does = "switch"
    /\ t.input_mode = "cycle" =>
          /\ t.cancel_on_release = server.cancel_on_release
          /\ k \in server.bound /\ ~Pending(server) => ~server.cancel_on_release

\* A release that runs the keybind which waits for one
LEMMA ReleasePending ==
  ASSUME KeysInv, NEW k \in held, Pending(server),
         NEW t \in ReleaseKeybindings(Releasing(k), k)
  PROVE Left(k, t)
<1> DEFINE s == Releasing(k)
           H == held \ {k}
           c == Crowded(H)
           E == IF k \in s.down THEN s.swallowed \cup {k} ELSE s.swallowed
           mine == BoundKeyRemove(Swallow(s, k), k)
           b == s.cur_keybind
<1>1. /\ s \in KeyServer
      /\ s.pressed = server.pressed \ {k} /\ s.bound = server.bound
      /\ s.down = server.down /\ s.swallowed = server.swallowed
      /\ s.focused_surface = server.focused_surface
      /\ s.cancel_on_release = server.cancel_on_release
      /\ s.repeat = None /\ s.cur_keybind = server.cur_keybind
      /\ s.input_mode = server.input_mode
      /\ Pending(s)
  BY ReleasingIs
<1>2. t \in ActionsRun(mine, b.does) \/ t = [mine EXCEPT !.cur_keybind = None]
  BY <1>1 DEF ReleaseKeybindings
<1> HIDE DEF s
<1>3. mine = [s EXCEPT !.swallowed = E, !.bound = @ \ {k}]
  BY <1>1 DEF BoundKeyRemove, Swallow, KeyServer
<1>4. k \in Keys /\ E \subseteq Keys BY <1>1 DEF KeysInv, Right, KeyServer
<1>5. /\ mine \in KeyServer
      /\ mine.pressed = server.pressed \ {k} /\ mine.bound = server.bound \ {k}
      /\ mine.down = server.down /\ mine.swallowed = E
      /\ mine.focused_surface = server.focused_surface
      /\ mine.cancel_on_release = server.cancel_on_release
      /\ mine.repeat = None /\ mine.input_mode = server.input_mode
  <2> HIDE DEF mine, E
  <2> QED BY <1>1, <1>3, <1>4, ZenonT(60) DEF KeyServer
<1>6. server.swallowed \subseteq server.down BY DEF KeysInv, Right
<1>7. E \subseteq mine.down /\ Believed(mine) = Believed(server) \ {k}
  <2> HIDE DEF mine
  <2> QED BY <1>1, <1>5, <1>6 DEF Believed
<1> HIDE DEF mine, E
<1>8. Right(mine, H, c)
  <2> DEFINE B == Believed(mine)
  <2> QED BY <1>5, <1>7, ForgetRight DEF KeysInv
<1> HIDE DEF c, H
<1>9. CASE t \in ActionsRun(mine, b.does)
  <2>1. /\ Right(t, H, c)
        /\ t.bound = mine.bound
        /\ t.cancel_on_release = mine.cancel_on_release
        /\ t.repeat = mine.repeat /\ t.cur_keybind = None
        /\ t.input_mode = "cycle" => mine.input_mode = "cycle" \/ b.does = "switch"
    BY <1>8, <1>9, ActionsRunRight
  <2> QED BY <1>1, <1>5, <2>1 DEF Left, Pending, H, c
<1>10. CASE t = [mine EXCEPT !.cur_keybind = None]
  <2>1. /\ t \in KeyServer /\ t.pressed = mine.pressed /\ t.bound = mine.bound
        /\ t.down = mine.down /\ t.swallowed = mine.swallowed
        /\ t.focused_surface = mine.focused_surface
        /\ t.cancel_on_release = mine.cancel_on_release
        /\ t.repeat = mine.repeat /\ t.cur_keybind = None
        /\ t.input_mode = mine.input_mode
    BY <1>5, <1>10 DEF KeyServer
  <2>2. Right(t, H, c) BY <1>8, <2>1 DEF Right, Believed, NotTold, Told
  <2> QED BY <1>5, <2>1, <2>2 DEF Left, Pending, H, c
<1> QED BY <1>2, <1>9, <1>10

\* handle_key_release() of a key that the client has
LEMMA ReleaseForwarded ==
  ASSUME KeysInv, NEW k \in held, ~Pending(server), k \notin server.bound,
         NEW t \in ReleaseKeybindings(Releasing(k), k)
  PROVE Left(k, t)
<1> DEFINE s == Releasing(k)
<1>1. /\ s \in KeyServer
      /\ s.pressed = server.pressed \ {k} /\ s.bound = server.bound
      /\ s.down = server.down /\ s.swallowed = server.swallowed
      /\ s.focused_surface = server.focused_surface
      /\ s.cancel_on_release = server.cancel_on_release
      /\ s.repeat = None /\ s.cur_keybind = server.cur_keybind
      /\ s.input_mode = server.input_mode
      /\ ~Pending(s)
  BY ReleasingIs
<1>2. t = [s EXCEPT !.down = @ \ {k}, !.swallowed = @ \ {k}]
  BY <1>1 DEF ReleaseKeybindings, HandleKeyRelease, ForwardRelease
<1> HIDE DEF s
<1>3. /\ t \in KeyServer
      /\ t.pressed = server.pressed \ {k} /\ t.bound = server.bound
      /\ t.down = server.down \ {k} /\ t.swallowed = server.swallowed \ {k}
      /\ t.focused_surface = server.focused_surface
      /\ t.cancel_on_release = server.cancel_on_release
      /\ t.repeat = None /\ t.input_mode = server.input_mode
      /\ t.cur_keybind = s.cur_keybind
  BY <1>1, <1>2, ZenonT(60) DEF KeyServer
<1>4. server.swallowed \subseteq server.down BY DEF KeysInv, Right
<1>5. t.swallowed \subseteq t.down /\ Believed(t) = Believed(server) \ {k}
  BY <1>3, <1>4 DEF Believed
<1>6. Right(t, held \ {k}, Crowded(held \ {k}))
  BY <1>3, <1>5, ForgetRight DEF KeysInv
<1>7. ~Pending(t) BY <1>1, <1>3 DEF Pending
<1> QED BY <1>3, <1>6, <1>7 DEF Left

\* handle_key_release() of a key that was used, which may close the switcher
LEMMA ReleaseBound ==
  ASSUME KeysInv, NEW k \in held, ~Pending(server), k \in server.bound,
         NEW t \in ReleaseKeybindings(Releasing(k), k)
  PROVE Left(k, t)
<1> DEFINE s == Releasing(k)
           H == held \ {k}
           c == Crowded(H)
           r == [s EXCEPT !.cancel_on_release = FALSE]
<1>1. /\ s \in KeyServer
      /\ s.pressed = server.pressed \ {k} /\ s.bound = server.bound
      /\ s.down = server.down /\ s.swallowed = server.swallowed
      /\ s.focused_surface = server.focused_surface
      /\ s.cancel_on_release = server.cancel_on_release
      /\ s.repeat = None /\ s.cur_keybind = server.cur_keybind
      /\ s.input_mode = server.input_mode
      /\ ~Pending(s)
  BY ReleasingIs
<1>2. \E u \in IF s.cancel_on_release THEN CycleFinish(r, TRUE) ELSE {s} :
         t = BoundKeyRemove(u, k)
  BY <1>1 DEF ReleaseKeybindings, HandleKeyRelease
<1> HIDE DEF s
<1>3. PICK u \in IF s.cancel_on_release THEN CycleFinish(r, TRUE) ELSE {s} :
         t = BoundKeyRemove(u, k)
  BY <1>2
<1>4. s.swallowed \subseteq s.down /\ Believed(s) = Believed(server)
  BY <1>1 DEF Believed, KeysInv, Right
<1>5. k \notin Believed(server) BY DEF KeysInv, Right, NotTold
<1>6. Right(s, H, c)
  BY <1>1, <1>4, <1>5, ForgetRight DEF KeysInv
<1> HIDE DEF H, c
<1>7. /\ r \in KeyServer /\ r.pressed = s.pressed /\ r.bound = s.bound
      /\ r.down = s.down /\ r.swallowed = s.swallowed /\ r.focused_surface = s.focused_surface
      /\ r.repeat = s.repeat /\ r.cur_keybind = s.cur_keybind /\ r.input_mode = s.input_mode
  BY <1>1 DEF KeyServer
<1>8. Right(r, H, c) BY <1>6, <1>7 DEF Right, Believed, NotTold, Told
<1> HIDE DEF r
<1>9. /\ Right(u, H, c) /\ u.bound = s.bound /\ u.repeat = None /\ ~Pending(u)
      /\ u.input_mode = "cycle" =>
            /\ server.input_mode = "cycle"
            /\ ~server.cancel_on_release
            /\ u.cancel_on_release = server.cancel_on_release
  <2>1. CASE s.cancel_on_release
    <3>1. Right(u, H, c) /\ Follows(r, u) /\ u.input_mode # "cycle"
      BY <1>3, <1>8, <2>1, CycleFinishFollows
    <3> QED BY <1>1, <1>7, <3>1 DEF Follows, Pending
  <2>2. CASE ~s.cancel_on_release
    <3>1. u = s BY <1>3, <2>2
    <3> QED BY <1>1, <1>6, <2>2, <3>1
  <2> QED BY <2>1, <2>2
<1>10. t = [u EXCEPT !.bound = @ \ {k}] BY <1>3 DEF BoundKeyRemove
<1>11. /\ t \in KeyServer /\ t.pressed = u.pressed /\ t.bound = u.bound \ {k}
       /\ t.down = u.down /\ t.swallowed = u.swallowed /\ t.focused_surface = u.focused_surface
       /\ t.cancel_on_release = u.cancel_on_release
       /\ t.repeat = u.repeat /\ t.cur_keybind = u.cur_keybind /\ t.input_mode = u.input_mode
  BY <1>9, <1>10 DEF KeyServer, Right
<1>12. Right(t, H, c)
  <2>1. k \notin H BY DEF H
  <2>2. IsFiniteSet(t.bound) /\ Cardinality(t.bound) <= MaxSize
    <3>1. IsFiniteSet(u.bound) /\ Cardinality(u.bound) <= MaxSize /\ t.bound \subseteq u.bound
      BY <1>9, <1>11 DEF Right
    <3>2. Cardinality(t.bound) <= Cardinality(u.bound) /\ IsFiniteSet(t.bound)
      BY <3>1, FS_Subset
    <3>3. Cardinality(t.bound) \in Nat /\ Cardinality(u.bound) \in Nat /\ MaxSize \in Nat
      BY <3>1, <3>2, FS_CardinalityType, KeysAssumption
    <3> QED BY <3>1, <3>2, <3>3
  <2>3. Believed(t) = Believed(u) BY <1>11 DEF Believed
  <2>4. ~c => Told(t, H) BY <1>9, <1>11, <2>1, <2>3 DEF Right, Told
  <2> QED BY <1>9, <1>11, <2>2, <2>3, <2>4 DEF Right, NotTold
<1>13. ~Pending(t) BY <1>9, <1>11 DEF Pending
<1> QED BY <1>1, <1>9, <1>11, <1>12, <1>13 DEF Left, H, c

\* handle_modifiers(): the switcher is closed, or will be by a bound key.
LEMMA HandleModifiersRight ==
  ASSUME NEW H, NEW c, NEW s, Right(s, H, c), NEW t \in HandleModifiers(s)
  PROVE /\ Right(t, H, c)
        /\ t.bound = s.bound /\ t.repeat = s.repeat
        /\ t.cur_keybind \in {s.cur_keybind, None}
        /\ t.input_mode = "cycle" => t.cancel_on_release /\ t.bound # {}
<1>1. s \in KeyServer BY DEF Right
<1>2. CASE s.input_mode # "cycle" BY <1>2 DEF HandleModifiers
<1>3. CASE s.input_mode = "cycle" /\ s.bound # {}
  <2>1. t = [s EXCEPT !.cancel_on_release = TRUE] BY <1>3 DEF HandleModifiers
  <2>2. /\ t \in KeyServer /\ t.pressed = s.pressed /\ t.bound = s.bound
        /\ t.down = s.down /\ t.swallowed = s.swallowed /\ t.focused_surface = s.focused_surface
        /\ t.repeat = s.repeat /\ t.cur_keybind = s.cur_keybind
        /\ t.cancel_on_release = TRUE
    BY <1>1, <2>1 DEF KeyServer
  <2>3. Right(t, H, c) BY <2>2 DEF Right, Believed, NotTold, Told
  <2> QED BY <1>3, <2>2, <2>3
<1>4. CASE s.input_mode = "cycle" /\ s.bound = {}
  <2> DEFINE r == [s EXCEPT !.cancel_on_release = FALSE]
  <2>1. t \in CycleFinish(r, TRUE) BY <1>4 DEF HandleModifiers
  <2>2. /\ r \in KeyServer /\ r.pressed = s.pressed /\ r.bound = s.bound
        /\ r.down = s.down /\ r.swallowed = s.swallowed /\ r.focused_surface = s.focused_surface
        /\ r.repeat = s.repeat /\ r.cur_keybind = s.cur_keybind
    BY <1>1 DEF KeyServer
  <2> HIDE DEF r
  <2>3. Right(r, H, c) BY <2>2 DEF Right, Believed, NotTold, Told
  <2>4. Right(t, H, c) /\ Follows(r, t) /\ t.input_mode # "cycle"
    BY <2>1, <2>3, CycleFinishFollows
  <2> QED BY <2>2, <2>4 DEF Follows
<1> QED BY <1>2, <1>3, <1>4

----------------------------------------------------------------------------
(* The steps *)

\* The two invariants after a step, the switcher's as far as it is modal
Kept == KeysInv' /\ (SwitcherIsModal /\ SwitcherInv => SwitcherInv')

\* A key is pressed: it goes to a keybind, the menu, the switcher or the client.
LEMMA PressKeyKept == ASSUME KeysInv, NEW k \in Keys, PressKey(k) PROVE Kept
<1> DEFINE s == [server EXCEPT !.repeat = None]
<1>1. server \in KeyServer BY DEF KeysInv, Right
<1>2. /\ s \in KeyServer /\ s.pressed = server.pressed /\ s.bound = server.bound
      /\ s.down = server.down /\ s.swallowed = server.swallowed
      /\ s.focused_surface = server.focused_surface
      /\ s.cancel_on_release = server.cancel_on_release
      /\ s.repeat = None /\ s.cur_keybind = server.cur_keybind
      /\ s.input_mode = server.input_mode
  BY <1>1 DEF KeyServer
<1>3. PICK t \in PressKeybindings(s, k) : server' = AfterPress(t, k, Taker(s, k))
  BY DEF PressKey
<1>4. k \notin held /\ held' = held \cup {k} /\ crowded' = Crowded(held') BY DEF PressKey
<1>5. Presses(s, k, held', crowded') BY <1>4 DEF Presses, Crowded
<1>6. crowded' \in BOOLEAN BY <1>4 DEF Crowded, KeysInv
<1> HIDE DEF s
<1>7. Right(s, held, crowded) /\ s.bound \subseteq held /\ Waits(s, held)
  BY <1>2 DEF KeysInv, Right, Believed, NotTold, Told, Waits, Pending
<1>8. CASE Taker(s, k) # "client"
  <2>1. Used(s, k, held', crowded', t) BY <1>3, <1>5, <1>7, <1>8, PressUsed
  <2>2. t \in KeyServer BY <2>1 DEF Used, Right
  <2>3. server' = t \/ server' = [t EXCEPT !.repeat = k]
    BY <1>3, <1>8 DEF AfterPress
  <2>4. /\ server' \in KeyServer /\ server'.pressed = t.pressed /\ server'.bound = t.bound
        /\ server'.down = t.down /\ server'.swallowed = t.swallowed
        /\ server'.focused_surface = t.focused_surface
        /\ server'.cancel_on_release = t.cancel_on_release
        /\ server'.repeat \in {None, k} /\ server'.cur_keybind = t.cur_keybind
        /\ server'.input_mode = t.input_mode
    BY <1>2, <2>1, <2>2, <2>3 DEF KeyServer, Used
  <2>5. Right(server', held', crowded')
    BY <2>1, <2>4 DEF Used, Right, Believed, NotTold, Told
  <2>6. KeysInv'
    <3>1. Repeats(server', held') BY <1>4, <2>1, <2>4 DEF Used, Repeats
    <3>2. Waits(server', held') BY <2>1, <2>4 DEF Used, Waits, Pending
    <3>3. (server.bound \subseteq held)' BY <2>1, <2>4 DEF Used
    <3> QED BY <1>6, <2>5, <3>1, <3>2, <3>3 DEF KeysInv
  <2>7. ASSUME SwitcherIsModal, SwitcherInv, server'.input_mode = "cycle",
               held' \cap ModifierKeys = {}
        PROVE server'.cancel_on_release /\ TwoBound(server')
    <3>1. s.input_mode = "cycle" /\ held \cap ModifierKeys = {}
      BY <1>4, <2>1, <2>4, <2>7 DEF Used
    <3>2. server.cancel_on_release /\ server.bound # {}
      BY <1>2, <2>7, <3>1 DEF SwitcherInv, WillClose
    <3>3. k \notin server.bound BY <1>4 DEF KeysInv
    <3>4. CASE k \in t.bound
      BY <1>2, <2>1, <2>4, <3>2, <3>3, <3>4 DEF Used, TwoBound
    <3>5. CASE Full(t.bound)
      BY <1>2, <2>1, <2>4, <2>7, <3>2, <3>5, FullHasTwo
         DEF Used, TwoBound, Right, SwitcherIsModal
    <3> QED BY <1>2, <2>1, <2>4, <3>2, <3>4, <3>5 DEF Used
  <2> QED BY <2>6, <2>7 DEF Kept, SwitcherInv, WillClose, TwoBound
<1>9. CASE Taker(s, k) = "client"
  <2>1. server' = ForwardPress(MatchOnly(s, k), k)
    BY <1>3, <1>9 DEF PressKeybindings, AfterPress, MatchOnly
  <2>2. /\ Right(server', held', crowded')
        /\ server'.bound = s.bound
        /\ server'.cancel_on_release = s.cancel_on_release
        /\ server'.repeat = s.repeat /\ server'.cur_keybind = MatchKeybinding(k)
        /\ server'.input_mode = s.input_mode
    BY <1>4, <1>5, <1>7, <2>1, ClientPressRight
  <2> DEFINE b == MatchKeybinding(k)
  <2>3. b \in Keybinds \cup {None} /\ (b # None => b.key = k /\ b.modifiers = held \cap ModifierKeys)
    BY Matched
  <2>4. ~MayRun(s, b) BY <1>9 DEF Taker
  <2> HIDE DEF b
  <2>5. KeysInv'
    <3>1. Waits(server', held') BY <1>4, <2>2, <2>3 DEF Waits, Pending, b
    <3>2. Repeats(server', held') BY <1>2, <2>2 DEF Repeats
    <3>3. (server.bound \subseteq held)' BY <1>4, <1>7, <2>2
    <3> QED BY <1>6, <2>2, <3>1, <3>2, <3>3 DEF KeysInv
  <2>6. ASSUME SwitcherIsModal, Pending(server') PROVE held' \cap ModifierKeys # {}
    <3>1. b # None /\ b.onRelease BY <2>2, <2>6 DEF Pending, b
    <3>2. ~b.whenLocked BY <2>4, <3>1 DEF MayRun
    <3>3. b.key \in ModifierKeys BY <2>3, <2>6, <3>1, <3>2 DEF SwitcherIsModal
    <3> QED BY <1>4, <2>3, <3>1, <3>3
  <2> QED BY <1>2, <1>4, <2>2, <2>5, <2>6 DEF Kept, SwitcherInv, WillClose
<1> QED BY <1>8, <1>9

\* A key that the compositor used repeats: its keybind runs once more.
LEMMA RepeatKept == ASSUME KeysInv, Repeat PROVE Kept
<1> DEFINE k == server.repeat
<1>1. server \in KeyServer BY DEF KeysInv, Right
<1>2. k \in held /\ (k \in server.bound \/ Full(server.bound))
  BY DEF Repeat, KeysInv, Repeats
<1>3. k \in Keys BY <1>2 DEF KeysInv, Right
<1>4. server' \in PressKeybindings(server, k) /\ held' = held /\ crowded' = crowded
  BY DEF Repeat
<1>5. Presses(server, k, held, crowded) BY <1>2 DEF Presses
<1> HIDE DEF k
<1>6. /\ Right(server, held, crowded) /\ server.bound \subseteq held /\ Waits(server, held)
      /\ crowded \in BOOLEAN
  BY DEF KeysInv
<1>7. server.repeat = k /\ k # None BY DEF k, Repeat
<1>8. CASE Taker(server, k) # "client"
  <2>1. Used(server, k, held, crowded, server') BY <1>3, <1>4, <1>5, <1>6, <1>8, PressUsed
  <2>2. Right(server', held', crowded') BY <1>4, <2>1 DEF Used
  <2>3. KeysInv'
    <3>1. Repeats(server', held') BY <1>2, <1>4, <1>7, <2>1 DEF Used, Repeats
    <3>2. Waits(server', held') BY <1>4, <2>1 DEF Used
    <3>3. (server.bound \subseteq held)' BY <1>4, <2>1 DEF Used
    <3> QED BY <1>4, <1>6, <2>2, <3>1, <3>2, <3>3 DEF KeysInv
  <2>4. ASSUME SwitcherIsModal, SwitcherInv, server'.input_mode = "cycle",
               held \cap ModifierKeys = {}
        PROVE server'.cancel_on_release /\ TwoBound(server')
    <3>1. server.input_mode = "cycle" BY <2>1, <2>4 DEF Used
    <3>2. server.cancel_on_release /\ TwoBound(server)
      BY <1>7, <2>4, <3>1 DEF SwitcherInv, WillClose
    <3> QED BY <2>1, <3>2 DEF Used, TwoBound
  <2> QED BY <1>4, <2>3, <2>4 DEF Kept, SwitcherInv, WillClose, TwoBound
<1>9. CASE Taker(server, k) = "client"
  <2>1. server' = MatchOnly(server, k)
    BY <1>4, <1>9 DEF PressKeybindings, MatchOnly
  <2>2. /\ Right(server', held, crowded)
        /\ server'.bound = server.bound
        /\ server'.cancel_on_release = server.cancel_on_release
        /\ server'.repeat = server.repeat /\ server'.cur_keybind = MatchKeybinding(k)
        /\ server'.input_mode = server.input_mode
    BY <1>2, <1>5, <1>6, <2>1, ClientRepeatRight
  <2>3. MatchKeybinding(k) # None =>
          MatchKeybinding(k).key = k /\ MatchKeybinding(k).modifiers = held \cap ModifierKeys
    BY Matched
  <2>4. KeysInv'
    <3>1. Waits(server', held') BY <1>2, <1>4, <2>2, <2>3 DEF Waits, Pending
    <3>2. Repeats(server', held') BY <1>2, <1>4, <1>7, <2>2 DEF Repeats
    <3>3. (server.bound \subseteq held)' BY <1>4, <1>6, <2>2
    <3>4. Right(server', held', crowded') BY <1>4, <2>2
    <3> QED BY <1>4, <1>6, <3>1, <3>2, <3>3, <3>4 DEF KeysInv
  <2>5. SwitcherInv => SwitcherInv'
    BY <1>4, <1>7, <2>2 DEF SwitcherInv, WillClose, TwoBound
  <2> QED BY <2>4, <2>5 DEF Kept
<1> QED BY <1>8, <1>9

\* A key is released: the keybind that waits runs, or the switcher closes.
LEMMA ReleaseKeyKept == ASSUME KeysInv, NEW k \in Keys, ReleaseKey(k) PROVE Kept
<1> DEFINE H == held \ {k}
           last == held \cap ModifierKeys = {k}
<1>1. k \in held /\ held' = H /\ crowded' = Crowded(H)
  BY DEF ReleaseKey
<1>2. PICK t \in ReleaseKeybindings(Releasing(k), k) :
        server' \in IF last THEN HandleModifiers(t) ELSE {t}
  BY DEF ReleaseKey, Releasing
<1>3. Left(k, t)
  BY <1>1, <1>2, ReleasePending, ReleaseForwarded, ReleaseBound
<1>4. server.bound \subseteq held BY DEF KeysInv
<1>5. crowded' \in BOOLEAN BY <1>1 DEF Crowded, KeysInv
<1>6. /\ Right(server', H, Crowded(H))
      /\ server'.bound = server.bound \ {k} /\ server'.repeat = None /\ ~Pending(server')
      /\ last /\ server'.input_mode = "cycle" => server'.cancel_on_release /\ server'.bound # {}
      /\ ~last => server' = t
  <2>1. CASE last
    <3>1. server' \in HandleModifiers(t) BY <1>2, <2>1
    <3>2. Right(t, H, Crowded(H)) BY <1>3 DEF Left
    <3>3. /\ Right(server', H, Crowded(H))
          /\ server'.bound = t.bound /\ server'.repeat = t.repeat
          /\ server'.cur_keybind \in {t.cur_keybind, None}
          /\ server'.input_mode = "cycle" => server'.cancel_on_release /\ server'.bound # {}
      BY <3>1, <3>2, HandleModifiersRight
    <3> QED BY <1>3, <2>1, <3>3 DEF Left, Pending
  <2>2. CASE ~last BY <1>2, <1>3, <2>2 DEF Left
  <2> QED BY <2>1, <2>2
<1>7. KeysInv'
  <2>1. Right(server', held', crowded') BY <1>1, <1>6
  <2>2. (server.bound \subseteq held)' BY <1>1, <1>4, <1>6
  <2>3. Repeats(server', held') /\ Waits(server', held') BY <1>6 DEF Repeats, Waits
  <2> QED BY <1>5, <2>1, <2>2, <2>3 DEF KeysInv
<1>8. ASSUME SwitcherIsModal, SwitcherInv, server'.input_mode = "cycle",
             H \cap ModifierKeys = {}, ~last
      PROVE server'.cancel_on_release /\ server'.bound # {}
  <2>1. held \cap ModifierKeys = {} BY <1>1, <1>8
  <2>2. ~(Pending(server) /\ server.cur_keybind.does = "switch")
    <3> SUFFICES ASSUME Pending(server), server.cur_keybind.does = "switch" PROVE FALSE
      OBVIOUS
    <3>1. server.cur_keybind \in Keybinds BY DEF KeysInv, Right, KeyServer, Pending
    <3>2. server.cur_keybind.modifiers # {} BY <1>8, <3>1 DEF SwitcherIsModal
    <3>3. server.cur_keybind.modifiers \subseteq ModifierKeys BY <3>1, KeysAssumption
    <3>4. server.cur_keybind.modifiers \subseteq held BY DEF KeysInv, Waits
    <3> QED BY <2>1, <3>2, <3>3, <3>4
  <2>3. server.input_mode = "cycle" BY <1>3, <1>6, <1>8, <2>2 DEF Left
  <2>4. /\ server.cancel_on_release /\ server.bound # {}
        /\ Pending(server) => TwoBound(server)
    BY <1>8, <2>1, <2>3 DEF SwitcherInv, WillClose
  <2>5. server'.cancel_on_release = server.cancel_on_release
        /\ (k \in server.bound => Pending(server))
    BY <1>3, <1>6, <1>8, <2>4 DEF Left
  <2>6. CASE k \in server.bound
    <3>1. PICK i, j \in server.bound : i # j BY <2>4, <2>5, <2>6 DEF TwoBound
    <3> QED BY <1>6, <2>4, <2>5, <3>1
  <2>7. CASE k \notin server.bound BY <1>6, <2>4, <2>5, <2>7
  <2> QED BY <2>6, <2>7
<1> HIDE DEF last
<1>9. SwitcherIsModal /\ SwitcherInv => SwitcherInv'
  BY <1>1, <1>6, <1>8 DEF SwitcherInv, WillClose
<1> QED BY <1>7, <1>9 DEF Kept

(***************************************************************************)
(* What happens meanwhile may change the focus, stop a repeat, cancel a    *)
(* keybind and close the switcher, and leaves the keys alone otherwise; it *)
(* opens the switcher only by an action that does so.                      *)
(***************************************************************************)
Quiet(t) ==
    /\ Right(t, held, crowded)
    /\ t.bound = server.bound
    /\ t.cancel_on_release = server.cancel_on_release
    /\ t.repeat \in {server.repeat, None}
    /\ t.cur_keybind \in {server.cur_keybind, None}
    /\ t.input_mode = "cycle" => server.input_mode = "cycle" \/ "switch" \in OtherEffects

\* A change of the focus is quiet.
LEMMA FollowsIsQuiet ==
  ASSUME NEW t, Right(t, held, crowded), Follows(server, t) PROVE Quiet(t)
BY DEF Follows, Quiet

\* A quiet step keeps the invariants.
LEMMA QuietKept ==
  ASSUME KeysInv, Quiet(server'), held' = held, crowded' = crowded PROVE Kept
<1> USE DEF Quiet
<1>1. Right(server', held', crowded') OBVIOUS
<1>2. (server.bound \subseteq held)' BY DEF KeysInv
<1>3. Repeats(server', held') BY DEF KeysInv, Repeats
<1>4. Pending(server') => Pending(server) /\ server'.cur_keybind = server.cur_keybind
  BY DEF Pending
<1>5. Waits(server', held') BY <1>4 DEF KeysInv, Waits
<1>6. (crowded \in BOOLEAN)' BY DEF KeysInv
<1>7. ASSUME SwitcherIsModal, WillClose(server, held) PROVE WillClose(server', held')
  <2>1. server'.input_mode = "cycle" => server.input_mode = "cycle"
    BY <1>7 DEF SwitcherIsModal
  <2>2. server'.repeat # None => server.repeat # None OBVIOUS
  <2> QED BY <1>4, <1>7, <2>1, <2>2 DEF WillClose, TwoBound
<1> QED BY <1>1, <1>2, <1>3, <1>5, <1>6, <1>7 DEF Kept, KeysInv, SwitcherInv

\* The focus, the lock and the pointer
LEMMA MeanwhileQuiet ==
  ASSUME KeysInv, Meanwhile PROVE Quiet(server')
<1>1. Right(server, held, crowded) /\ server \in KeyServer BY DEF KeysInv, Right
<1>2. \A x \in Surfaces \cup {None} :
        Right(Focus(server, x), held, crowded) /\ Follows(server, Focus(server, x))
  BY <1>1, FocusFollows
<1>3. Views \cup {None} \subseteq Surfaces \cup {None} BY DEF Surfaces
<1>4. \A restore \in BOOLEAN :
        /\ Right(EndOverride(server, restore), held, crowded)
        /\ Follows(server, EndOverride(server, restore))
  BY <1>1, EndOverrideFollows
<1>5. ASSUME NEW v \in Views \cup {None}, FocusSurface(v) PROVE Quiet(server')
  BY <1>2, <1>3, <1>5, FollowsIsQuiet DEF FocusSurface
<1>6. ASSUME NEW x, DestroySurface(x) PROVE Quiet(server')
  <2>1. SameMode(server, SurfaceDestroyed(server, x)) BY <1>1, SurfaceDestroyedKeys
  <2> QED BY <1>1, <1>6, <2>1, TellFollows, FollowsIsQuiet DEF DestroySurface
<1>7. ASSUME NEW does \in OtherEffects, PointerActions(does) PROVE Quiet(server')
  <2> DEFINE s == IF server.input_mode = "menu" THEN EndOverride(server, TRUE) ELSE server
  <2>1. Right(s, held, crowded) /\ Follows(server, s) BY <1>1, <1>4, FollowsItself
  <2>2. server' \in ActionsRun(s, does) BY <1>7 DEF PointerActions
  <2> HIDE DEF s
  <2>3. /\ Right(server', held, crowded)
        /\ server'.bound = s.bound
        /\ server'.cancel_on_release = s.cancel_on_release
        /\ server'.repeat = s.repeat /\ server'.cur_keybind = None
        /\ server'.input_mode = "cycle" => s.input_mode = "cycle" \/ does = "switch"
    BY <2>1, <2>2, ActionsRunRight
  <2> QED BY <2>1, <2>3 DEF Follows, Quiet
<1>8. CASE BeginMove
  <2> DEFINE r == [server EXCEPT !.cur_keybind = None]
  <2>1. /\ r \in KeyServer
        /\ r.pressed = server.pressed /\ r.bound = server.bound
        /\ r.cancel_on_release = server.cancel_on_release
        /\ r.repeat = server.repeat /\ r.cur_keybind = None
        /\ r.down = server.down /\ r.swallowed = server.swallowed
        /\ r.focused_surface = server.focused_surface
    BY <1>1 DEF KeyServer
  <2>2. server' = BeginOverride(r, "move") BY <1>8 DEF BeginMove
  <2> HIDE DEF r
  <2>3. Right(r, held, crowded) BY <1>1, <2>1 DEF Right, Believed, NotTold, Told
  <2>4. /\ Right(server', held, crowded) /\ server'.input_mode = "move"
        /\ server'.bound = r.bound
        /\ server'.cancel_on_release = r.cancel_on_release
        /\ server'.repeat = r.repeat /\ server'.cur_keybind = r.cur_keybind
    BY <2>2, <2>3, BeginOverrideRight DEF InputModes
  <2> QED BY <2>1, <2>4 DEF Quiet
<1>9. CASE PointerEndsMode BY <1>4, <1>9, FollowsIsQuiet DEF PointerEndsMode
<1>10. CASE PointerSelects
  <2>1. server' \in CycleFinish(server, TRUE) BY <1>10 DEF PointerSelects
  <2> QED BY <1>1, <2>1, CycleFinishFollows, FollowsIsQuiet
<1>11. CASE LockSession
  <2> DEFINE t == Focus(server, None)
  <2>1. Right(t, held, crowded) /\ Follows(server, t) BY <1>2
  <2>2. server' = [t EXCEPT !.locked = TRUE] BY <1>11 DEF LockSession
  <2> HIDE DEF t
  <2>3. Right(server', held, crowded)
    BY <2>1, <2>2 DEF Right, KeyServer, Believed, NotTold, Told
  <2>4. Follows(server, server') BY <2>1, <2>2 DEF Follows, Right, KeyServer
  <2> QED BY <2>3, <2>4, FollowsIsQuiet
<1>12. ASSUME NEW x \in LockSurfaces, FocusLockSurface(x) PROVE Quiet(server')
  <2>1. x \in Surfaces \cup {None} BY DEF Surfaces
  <2>2. SameMode(server, SeatFocusLockSurface(server, x)) BY <1>1, <2>1, SeatFocusKeys
  <2> QED BY <1>1, <1>12, <2>2, TellFollows, FollowsIsQuiet DEF FocusLockSurface
<1>13. CASE UnlockSession
  <2> DEFINE r == [server EXCEPT !.locked = FALSE]
  <2>1. PICK v \in Views \cup {None} : server' = Focus(r, v) BY <1>13 DEF UnlockSession
  <2>2. Right(r, held, crowded) BY <1>1 DEF Right, KeyServer, Believed, NotTold, Told
  <2>3. Follows(server, r) BY <1>1 DEF Follows, KeyServer
  <2> HIDE DEF r
  <2>4. Right(server', held, crowded) /\ Follows(r, server')
    BY <1>3, <2>1, <2>2, FocusFollows
  <2>5. Follows(server, server') BY <2>3, <2>4, FollowsTwice
  <2> QED BY <2>4, <2>5, FollowsIsQuiet
<1>14. CASE Reconfigure
  <2> DEFINE r == [server EXCEPT !.repeat = None, !.cur_keybind = None]
  <2>1. server' = r \/ server' = EndOverride(r, TRUE) BY <1>14 DEF Reconfigure
  <2>2. /\ r \in KeyServer
        /\ r.pressed = server.pressed /\ r.bound = server.bound
        /\ r.cancel_on_release = server.cancel_on_release
        /\ r.repeat = None /\ r.cur_keybind = None
        /\ r.down = server.down /\ r.swallowed = server.swallowed
        /\ r.focused_surface = server.focused_surface /\ r.input_mode = server.input_mode
    BY <1>1 DEF KeyServer
  <2> HIDE DEF r
  <2>3. Right(r, held, crowded) BY <1>1, <2>2 DEF Right, Believed, NotTold, Told
  <2>4. Right(server', held, crowded) /\ Follows(r, server')
    BY <2>1, <2>3, EndOverrideFollows, FollowsItself
  <2> QED BY <2>2, <2>4 DEF Follows, Quiet
<1> QED BY <1>5, <1>6, <1>7, <1>8, <1>9, <1>10, <1>11, <1>12, <1>13, <1>14 DEF Meanwhile

----------------------------------------------------------------------------
(* The specification *)

\* The invariants hold initially.
LEMMA InitKeys == ASSUME KeysInit PROVE KeysInv /\ SwitcherInv
<1>1. server \in KeyServer BY DEF KeysInit, KeyServer, Interactivity, InputModes
<1>2. IsFiniteSet({}) /\ Cardinality({}) = 0 BY FS_EmptySet
<1>3. 0 <= MaxSize BY KeysAssumption
<1>4. Right(server, held, crowded)
  BY <1>1, <1>2, <1>3 DEF KeysInit, Right, Believed, NotTold, Told
<1> QED BY <1>4 DEF KeysInit, KeysInv, SwitcherInv, Repeats, Waits, WillClose, Pending

\* Every step keeps them.
LEMMA StepKept == ASSUME KeysInv, [KeysNext]_keyVars PROVE Kept
<1>1. CASE \E k \in Keys : PressKey(k) \/ ReleaseKey(k)
  BY <1>1, PressKeyKept, ReleaseKeyKept
<1>2. CASE Repeat BY <1>2, RepeatKept
<1>3. CASE Meanwhile
  <2>1. held' = held /\ crowded' = crowded BY <1>3 DEF Meanwhile
  <2> QED BY <1>3, <2>1, MeanwhileQuiet, QuietKept
<1>4. CASE UNCHANGED keyVars
  <2>1. server' = server /\ held' = held /\ crowded' = crowded BY <1>4 DEF keyVars
  <2>2. Quiet(server') BY <2>1, FollowsItself, FollowsIsQuiet DEF KeysInv
  <2> QED BY <2>1, <2>2, QuietKept
<1> QED BY <1>1, <1>2, <1>3, <1>4 DEF KeysNext

\* The inductive invariant of the keys holds of every behaviour: what a client was
\* told, the sets of key-state.c, what repeats and what waits for a release.
THEOREM KeysInvHolds == KeysSpec => []KeysInv
<1>1. KeysInit => KeysInv BY InitKeys
<1>2. KeysInv /\ [KeysNext]_keyVars => KeysInv' BY StepKept DEF Kept
<1> QED BY <1>1, <1>2, PTL DEF KeysSpec

\* No key is stuck at a client but Escape and those whose release came while a keybind
\* waited for one; of all others, a client with the keyboard was told of exactly the keys
\* that are down and that the compositor did not use.
THEOREM OnlySwallowedDisagreeHolds == KeysSpec => []OnlySwallowedDisagree
<1>1. KeysInv => OnlySwallowedDisagree
  BY DEF KeysInv, Right, Told, NotTold, Believed, OnlySwallowedDisagree,
         OnlySwallowedStick, ToldOfTheRest
<1> QED BY <1>1, KeysInvHolds, PTL

\* The sets of key-state.c keep to their size and forget every released key.
THEOREM SetsAreRightHolds == KeysSpec => []SetsAreRight
<1>1. KeysInv => SetsAreRight
  BY DEF KeysInv, Right, KeyServer, SetsAreRight, KeysTypeOK, SetsForget
<1> QED BY <1>1, KeysInvHolds, PTL

\* A keybind waits for a release only while its key is held.
THEOREM WaitsWhileHeldHolds == KeysSpec => []WaitsWhileHeld
<1>1. KeysInv => WaitsWhileHeld BY DEF KeysInv, Waits, WaitsWhileHeld
<1> QED BY <1>1, KeysInvHolds, PTL

\* Where the switcher is opened with a modifier, it has a key whose release will
\* close it, as has every keybind that waits.
THEOREM WaitsForAKeyHolds ==
  ASSUME SwitcherIsModal PROVE KeysSpec => []WaitsForAKey
<1>1. KeysInit => KeysInv /\ SwitcherInv BY InitKeys
<1>2. KeysInv /\ SwitcherInv /\ [KeysNext]_keyVars => KeysInv' /\ SwitcherInv'
  BY StepKept DEF Kept
<1>3. KeysInv /\ SwitcherInv => WaitsForAKey
  BY DEF KeysInv, Waits, SwitcherInv, WillClose, WaitsForAKey, WaitsWhileHeld, SwitcherHasAKey
<1> QED BY <1>1, <1>2, <1>3, PTL DEF KeysSpec
=============================================================================

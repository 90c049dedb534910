------------------------------ MODULE KeyState ------------------------------
(***************************************************************************)
(* Keys: src/input/keyboard.c, src/input/key-state.c and                   *)
(* src/common/set.c, over the seat.                                        *)
(*                                                                         *)
(* A key goes to the focused client unless the compositor uses it.  The    *)
(* compositor keeps the keys that are pressed and, of these, the bound     *)
(* ones, whose release is to be kept from clients as the press was; what   *)
(* is left is what a client is told when it gets the keyboard.  Menus, the *)
(* window switcher, keybinds that run on release, repeats, the session     *)
(* lock and configuration reloads all happen between a press and its       *)
(* release.                                                                *)
(*                                                                         *)
(* The statics of the two C files are fields of the server record here.    *)
(* One keyboard is modelled, without an input method.                      *)
(***************************************************************************)
EXTENDS Seat

CONSTANTS
    Keys,          \* key codes
    ModifierKeys,  \* those that are modifiers
    VTKeys,        \* XF86Switch_VT_*
    EscapeKeys,    \* Escape
    ArrowKeys,     \* the arrow keys
    Keybinds,      \* rc.keybinds: [key, modifiers, onRelease, whenLocked, does]
    OtherEffects,  \* what menu items and mouse bindings do
    MaxSize        \* LAB_SET_MAX_SIZE

\* What a keybind or a menu item makes of the keyboard: NextWindow, ShowMenu,
\* an action that focuses something, or one that does none of these.
Effects == {"switch", "menu", "focus", "none"}

ASSUME KeysAssumption ==
    /\ ModifierKeys \cup VTKeys \cup EscapeKeys \cup ArrowKeys \subseteq Keys
    /\ Keybinds \subseteq [key : Keys, modifiers : SUBSET ModifierKeys,
                           onRelease : BOOLEAN, whenLocked : BOOLEAN,
                           does : Effects]
    /\ OtherEffects \subseteq Effects
    /\ None \notin Keys \cup Keybinds
    /\ MaxSize \in Nat

VARIABLES
    server,  \* the seat, the statics of the two files, and what the focused
             \* client was told: the keys that are down, and of these the ones
             \* whose release came while a keybind waited for one (swallowed)
    held,    \* the keys that are down on the keyboard
    crowded  \* more keys than a set can hold were down since none was

keyVars == <<server, held, crowded>>

KeysInit ==
    /\ server = [focused_surface |-> None, focused_layer |-> None,
                 interactivity |-> [x \in LayerSurfaces |-> "none"],
                 locked |-> FALSE, input_mode |-> "passthrough",
                 override |-> None, active_view |-> None,
                 pressed |-> {}, bound |-> {}, cur_keybind |-> None,
                 cancel_on_release |-> FALSE, repeat |-> None,
                 down |-> {}, swallowed |-> {}]
    /\ held = {}
    /\ crowded = FALSE

-----------------------------------------------------------------------------
(* Sets of keys. *)

\* lab_set_add(): nothing is recorded in a full set.
LabSetAdd(set, k) ==
    IF k \notin set /\ Cardinality(set) >= MaxSize THEN set ELSE set \cup {k}

\* key_state_set_pressed() for a press
SetPressed(s, k) == [s EXCEPT !.pressed = LabSetAdd(@, k)]

\* Mutation: a key that is used is not remembered.
StoreAsBoundNever(s, k) == s

\* key_state_store_pressed_key_as_bound()
StoreAsBound(s, k) == [s EXCEPT !.bound = LabSetAdd(@, k)]

\* key_state_bound_key_remove()
BoundKeyRemove(s, k) == [s EXCEPT !.bound = @ \ {k}]

\* key_state_pressed_sent_keycodes()
PressedSent(s) == s.pressed \ s.bound

-----------------------------------------------------------------------------
(***************************************************************************)
(* The client's view.  wlr_seat_keyboard_enter() tells a client which keys *)
(* are down when it gets the keyboard, and a client forgets them when the  *)
(* keyboard leaves.  t is s after a call that may change the focus.        *)
(***************************************************************************)
Tell(s, t) ==
    IF t.focused_surface = s.focused_surface
    THEN t
    ELSE [t EXCEPT !.down = IF t.focused_surface = None THEN {} ELSE PressedSent(t),
                   !.swallowed = {}]

\* wlr_seat_keyboard_notify_key()
ForwardPress(s, k) ==
    IF s.focused_surface = None
    THEN s
    ELSE [s EXCEPT !.down = @ \cup {k}, !.swallowed = @ \ {k}]

ForwardRelease(s, k) == [s EXCEPT !.down = @ \ {k}, !.swallowed = @ \ {k}]

\* The release of k is not sent to the client, although its press was.
Swallow(s, k) == IF k \in s.down THEN [s EXCEPT !.swallowed = @ \cup {k}] ELSE s

\* The seat's operations, with what the client is told
Focus(s, v) == Tell(s, SeatFocusSurface(s, v))
BeginOverride(s, mode) == Tell(s, FocusOverrideBegin(s, mode))
EndOverride(s, restore) == Tell(s, FocusOverrideEnd(s, restore))

-----------------------------------------------------------------------------
(* What keys do.  Each is the set of servers the code may leave behind. *)

\* cycle_finish(): any window may have been selected.
CycleFinish(s, switchFocus) ==
    LET t == EndOverride(s, ~switchFocus)
    IN  CASE s.input_mode # "cycle" -> {s}
          [] s.input_mode = "cycle" /\ switchFocus ->
                {t} \cup {Focus(t, v) : v \in Views}
          [] OTHER -> {t}

(***************************************************************************)
(* actions_run() of an action list: any keybind that waits for a release   *)
(* is cancelled; while the switcher is open all actions but stepping it    *)
(* are ignored.  NextWindow opens nothing if there is no window.           *)
(***************************************************************************)
ActionsRun(s, does) ==
    LET t == [s EXCEPT !.cur_keybind = None]
    IN  CASE does = "focus" /\ t.input_mode # "cycle" ->
                {Focus(t, v) : v \in Views \cup {None}}
          [] does = "switch" /\ t.input_mode = "passthrough" ->
                {t, BeginOverride(t, "cycle")}
          [] does = "menu" /\ t.input_mode = "passthrough" ->
                {BeginOverride(t, "menu")}
          [] OTHER -> {t}

\* handle_menu_keys(): a key selects, closes, or activates an item, which
\* closes the menu and runs its actions.
MenuKey(s, k) ==
    LET closed == EndOverride(s, TRUE)
    IN  IF k \in EscapeKeys
        THEN {closed}
        ELSE {s} \cup UNION {ActionsRun(closed, does) : does \in OtherEffects}

\* handle_cycle_view_key(): the keys that the switcher takes
SwitcherKeys == (EscapeKeys \cup ArrowKeys) \ ModifierKeys

\* ... and what they do; the key becomes bound afterwards.
SwitcherKey(s, k) ==
    {StoreAsBound(t, k) : t \in IF k \in EscapeKeys THEN CycleFinish(s, FALSE) ELSE {s}}

\* match_keybinding(); the modifiers are those before the key.
MatchKeybinding(k) ==
    LET matching == {b \in Keybinds :
                        b.key = k /\ b.modifiers = held \cap ModifierKeys}
    IN  IF matching = {} THEN None ELSE CHOOSE b \in matching : TRUE

\* The keybind runs, or will on release.
MayRun(s, b) == b # None /\ (s.locked => b.whenLocked)

\* Who gets a press, by the early returns of handle_compositor_keybindings()
Taker(s, k) ==
    CASE k \in VTKeys -> "vt"
      [] k \notin VTKeys /\ ~s.locked /\ s.input_mode = "menu" -> "menu"
      [] k \notin VTKeys /\ ~s.locked /\ s.input_mode = "cycle"
                         /\ k \in SwitcherKeys -> "switcher"
      [] OTHER -> IF MayRun(s, MatchKeybinding(k)) THEN "keybind" ELSE "client"

\* handle_compositor_keybindings() for a press
PressKeybindings(s, k) ==
    LET t == SetPressed(s, k)
        b == MatchKeybinding(k)
        matched == [t EXCEPT !.cur_keybind = b]
    IN  CASE Taker(s, k) = "vt" -> {[StoreAsBound(t, k) EXCEPT !.repeat = None]}
          [] Taker(s, k) = "menu" -> MenuKey(StoreAsBound(t, k), k)
          [] Taker(s, k) = "switcher" -> SwitcherKey(t, k)
          [] Taker(s, k) = "keybind" ->
                IF b.onRelease THEN {StoreAsBound(matched, k)}
                ELSE ActionsRun(StoreAsBound(matched, k), b.does)
          [] OTHER -> {matched}

\* A keybind waits for a release.
Pending(s) == s.cur_keybind # None /\ s.cur_keybind.onRelease

\* Mutation: the key stays bound when it ends the switcher.
HandleKeyReleaseStaysBound(s, k) ==
    IF s.cancel_on_release
    THEN CycleFinish([s EXCEPT !.cancel_on_release = FALSE], TRUE)
    ELSE {BoundKeyRemove(s, k)}

\* handle_key_release(), and the forwarding of a release that it does not use
HandleKeyRelease(s, k) ==
    IF k \notin s.bound
    THEN {ForwardRelease(s, k)}
    ELSE {BoundKeyRemove(t, k) : t \in
            IF s.cancel_on_release
            THEN CycleFinish([s EXCEPT !.cancel_on_release = FALSE], TRUE)
            ELSE {s}}

\* handle_compositor_keybindings() for a release: any release runs the keybind
\* that waits for one.
ReleaseKeybindings(s, k) ==
    LET b == s.cur_keybind
        mine == BoundKeyRemove(Swallow(s, k), k)
    IN  IF Pending(s)
        THEN IF s.locked /\ ~b.whenLocked
             THEN {[mine EXCEPT !.cur_keybind = None]}
             ELSE ActionsRun(mine, b.does)
        ELSE HandleKeyRelease(s, k)

\* Mutation: the switcher waits for a bound key although there is none.
HandleModifiersWaits(s) ==
    IF s.input_mode = "cycle"
    THEN {[s EXCEPT !.cancel_on_release = TRUE]}
    ELSE {s}

(***************************************************************************)
(* handle_modifiers() when the last modifier is up: the switcher ends now, *)
(* or with the next release of a bound key.                                *)
(***************************************************************************)
HandleModifiers(s) ==
    CASE s.input_mode # "cycle" -> {s}
      [] s.input_mode = "cycle" /\ s.bound # {} ->
            {[s EXCEPT !.cancel_on_release = TRUE]}
      [] OTHER -> CycleFinish([s EXCEPT !.cancel_on_release = FALSE], TRUE)

-----------------------------------------------------------------------------
(* Events of the keyboard: handle_key(), then handle_modifiers(). *)

Crowded(keys) == keys # {} /\ (crowded \/ Cardinality(keys) > MaxSize)

\* The repeat timer starts with a press that is used, but not for modifiers.
AfterPress(s, k, taker) ==
    CASE taker = "client" -> ForwardPress(s, k)
      [] taker # "client" /\ k \notin ModifierKeys \cup VTKeys ->
            [s EXCEPT !.repeat = k]
      [] OTHER -> s

PressKey(k) ==
    LET s == [server EXCEPT !.repeat = None]
    IN  /\ k \notin held
        /\ \E t \in PressKeybindings(s, k) :
              server' = AfterPress(t, k, Taker(s, k))
        /\ held' = held \cup {k}
        /\ crowded' = Crowded(held')

ReleaseKey(k) ==
    LET s == [server EXCEPT !.repeat = None, !.pressed = @ \ {k}]
        lastModifier == held \cap ModifierKeys = {k}
    IN  /\ k \in held
        /\ \E t \in ReleaseKeybindings(s, k) :
              server' \in IF lastModifier THEN HandleModifiers(t) ELSE {t}
        /\ held' = held \ {k}
        /\ crowded' = Crowded(held')

\* handle_keybind_repeat(): the press once more, which is never forwarded.
Repeat ==
    /\ server.repeat # None
    /\ server' \in PressKeybindings(server, server.repeat)
    /\ UNCHANGED <<held, crowded>>

-----------------------------------------------------------------------------
(* What happens to the keyboard meanwhile. *)

\* A window is focused by the pointer, by mapping or by a client's request.
FocusSurface(v) == server' = Focus(server, v)

\* The focused surface, or the one to be focused later, is destroyed.
DestroySurface(x) ==
    /\ x \in {server.focused_surface, server.override}
    /\ server' = Tell(server, SurfaceDestroyed(server, x))

\* A mouse binding, or the menu item that is clicked, runs an action.
PointerActions(does) ==
    server' \in ActionsRun(IF server.input_mode = "menu"
                           THEN EndOverride(server, TRUE) ELSE server, does)

\* A mouse binding begins to move a window.
BeginMove ==
    /\ server.input_mode = "passthrough"
    /\ server' = BeginOverride([server EXCEPT !.cur_keybind = None], "move")

\* The button is released, or the menu is clicked away.
PointerEndsMode ==
    /\ server.input_mode \in {"move", "menu"}
    /\ server' = EndOverride(server, TRUE)

\* cycle_on_cursor_release(): a window is clicked in the switcher.
PointerSelects ==
    /\ server.input_mode = "cycle"
    /\ server' \in CycleFinish(server, TRUE)

\* handle_new_session_lock()
LockSession ==
    /\ ~server.locked
    /\ server' = [Focus(server, None) EXCEPT !.locked = TRUE]

\* A lock surface is mapped, or clicked.
FocusLockSurface(x) ==
    /\ server.locked
    /\ server' = Tell(server, SeatFocusLockSurface(server, x))

\* handle_lock_unlock(): the remembered window is focused, or any.
UnlockSession ==
    /\ server.locked
    /\ \E v \in Views \cup {None} :
          server' = Focus([server EXCEPT !.locked = FALSE], v)

\* handle_sighup(): repeats stop, the switcher and menus close.
Reconfigure ==
    LET s == [server EXCEPT !.repeat = None, !.cur_keybind = None]
    IN  server' = IF s.input_mode \in {"cycle", "menu"}
                  THEN EndOverride(s, TRUE) ELSE s

Meanwhile ==
    /\ \/ \E v \in Views \cup {None} : FocusSurface(v)
       \/ \E x \in Views \cup LockSurfaces : DestroySurface(x)
       \/ \E does \in OtherEffects : PointerActions(does)
       \/ BeginMove
       \/ PointerEndsMode
       \/ PointerSelects
       \/ LockSession
       \/ \E x \in LockSurfaces : FocusLockSurface(x)
       \/ UnlockSession
       \/ Reconfigure
    /\ UNCHANGED <<held, crowded>>

KeysNext ==
    \/ \E k \in Keys : PressKey(k) \/ ReleaseKey(k)
    \/ Repeat
    \/ Meanwhile

KeysSpec == KeysInit /\ [][KeysNext]_keyVars

-----------------------------------------------------------------------------
(* Properties. *)

\* The types of what the two C files keep.
KeysTypeOK ==
    /\ server.pressed \subseteq Keys /\ server.bound \subseteq Keys
    /\ Cardinality(server.pressed) <= MaxSize
    /\ Cardinality(server.bound) <= MaxSize
    /\ server.cur_keybind \in Keybinds \cup {None}
    /\ server.cancel_on_release \in BOOLEAN
    /\ server.repeat \in Keys \cup {None}
    /\ server.input_mode \in InputModes
    /\ server.focused_surface \in Surfaces \cup {None}
    /\ server.down \subseteq Keys /\ server.swallowed \subseteq server.down
    /\ held \subseteq Keys

(***************************************************************************)
(* "Release events for keys that were not bound should always be forwarded *)
(* to clients to avoid stuck keys" (handle_key_release()), and are not if a*)
(* keybind waits for a release: then any release is used up, also that of a*)
(* key whose press the client was sent, and also on a locked screen where  *)
(* the keybind does not run (keyboard.c:512-519).  Such a key is stuck at  *)
(* the client until it is pressed again or the keyboard leaves.  Whatever  *)
(* else happens between a press and its release, and however many keys are *)
(* pressed, sticks no key but Escape, for which see BoundKeysAreNotSent.   *)
(***************************************************************************)
OnlySwallowedStick == server.down \ held \subseteq server.swallowed \cup EscapeKeys

\* The same as seat.c states it, without the exemption of Escape: events of keys
\* the compositor used are not sent to clients.
BoundKeysAreNotSent == server.down \ server.swallowed \subseteq held

(***************************************************************************)
(* Of all keys but those, the client believes down exactly the ones that   *)
(* are down and were not used by the compositor, whichever modes and focus *)
(* changes came between.  More keys at once than a set can hold are exempt.*)
(***************************************************************************)
ToldOfTheRest ==
    server.focused_surface # None /\ ~crowded =>
        server.down \ (server.swallowed \cup EscapeKeys)
            = (held \ server.bound) \ EscapeKeys

\* The sets of key-state.c forget every key that is released, also after they
\* were full and although nothing but a release empties them.
SetsForget == server.pressed \subseteq held /\ server.bound \subseteq held

\* A keybind waits for a release as long as its key is held, and not longer:
\* it never runs twice, nor on keys pressed later.
WaitsWhileHeld == Pending(server) => server.cur_keybind.key \in held

(***************************************************************************)
(* What the manual has of keybinds, and the key sets have room for: one    *)
(* opens the switcher together with a modifier, one that runs on release is*)
(* of a modifier, or else works on a locked screen as well, and no other   *)
(* binding opens the switcher.  SwitcherHasAKey is for such keybinds.      *)
(***************************************************************************)
SwitcherIsModal ==
    /\ \A b \in Keybinds :
          /\ b.does = "switch" => b.modifiers # {}
          /\ b.onRelease => b.key \in ModifierKeys \/ b.whenLocked
    /\ "switch" \notin OtherEffects
    /\ MaxSize >= 2

(***************************************************************************)
(* The switcher does not stay open when its keys are released: there is a  *)
(* modifier that is held, or a bound key whose release will close it.      *)
(***************************************************************************)
SwitcherHasAKey ==
    server.input_mode = "cycle" =>
        \/ held \cap ModifierKeys # {}
        \/ server.cancel_on_release /\ server.bound # {}

\* Client and compositor disagree on no key but Escape and those whose release a
\* waiting keybind swallowed.
OnlySwallowedDisagree == OnlySwallowedStick /\ ToldOfTheRest

\* The sets keep to their size and to the keys that are down.
SetsAreRight == KeysTypeOK /\ SetsForget

\* What waits for a release has a key whose release will come: a keybind that is
\* to run on release, and the switcher that is to close.
WaitsForAKey == WaitsWhileHeld /\ SwitcherHasAKey
=============================================================================

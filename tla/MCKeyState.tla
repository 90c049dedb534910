----------------------------- MODULE MCKeyState -----------------------------
(***************************************************************************)
(* Keys with the keybinds of a usual rc.xml: A-Tab for the switcher, the   *)
(* Super key that opens a menu on release, and W-Tab, which also works on  *)
(* a locked screen.                                                        *)
(***************************************************************************)
EXTENDS KeyState

CONSTANTS alt, tab, super, esc

MCKeys == {alt, tab, super, esc}
MCKeybind(key, modifiers, onRelease, whenLocked, does) ==
    [key |-> key, modifiers |-> modifiers, onRelease |-> onRelease,
     whenLocked |-> whenLocked, does |-> does]
MCKeybinds ==
    {MCKeybind(tab, {alt}, FALSE, FALSE, "switch"),
     MCKeybind(super, {}, TRUE, FALSE, "menu"),
     MCKeybind(tab, {super}, FALSE, TRUE, "focus")}

\* These keybinds are of the usual kind.
ASSUME MCIsModal == SwitcherIsModal
=============================================================================

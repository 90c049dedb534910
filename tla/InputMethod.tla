---------------------------- MODULE InputMethod ----------------------------
(***************************************************************************)
(* The relay between the input method and the text inputs of clients       *)
(* (src/input/ime.c).  The text input that the client with the keyboard    *)
(* has enabled is the active one: it has the input method's attention and  *)
(* gets its text.  Text inputs and the input method come, go, enable and   *)
(* commit in any order relative to the focus and to each other, and what   *)
(* the input method commits crosses on its way what it is told.            *)
(*                                                                         *)
(* wlroots' text inputs and input method are part of the state.  Of the    *)
(* contents (text, preedit, surrounding text) only whose they are is kept, *)
(* and of the place of a popup the text input and the surface that it was  *)
(* computed from.  The keyboard grab of the input method is left out.      *)
(***************************************************************************)
EXTENDS Naturals, Null

CONSTANTS
    Surfaces,    \* surfaces that get the keyboard
    TextInputs,
    Client,      \* the client of each surface and of each text input
    Popups       \* popups of the input method, with their surfaces

ASSUME ImeAssumption == None \notin Surfaces \cup TextInputs

VARIABLE relay   \* struct input_method_relay, and the objects it relates

Relay ==
    [ focused_surface   : Surfaces \cup {None},
      text_inputs       : SUBSET TextInputs,
      newer             : SUBSET (TextInputs \X TextInputs), \* first in the list
      active_text_input : TextInputs \cup {None},
      entered           : [TextInputs -> Surfaces \cup {None}], \* ->focused_surface
      enabled           : [TextInputs -> BOOLEAN],           \* ->current_enabled
      input_method      : BOOLEAN,                           \* there is one
      notified          : TextInputs \cup {None}, \* whom it was activated for
      state             : TextInputs \cup {None}, \* whose state it was sent then
      view              : TextInputs \cup {None}, \* notified, at the last event read
      in_step           : BOOLEAN,                \* it has read all events
      text              : TextInputs \cup {None}, \* whom a commit under way is for
      committed         : BOOLEAN,                \* there is such a commit
      fresh             : BOOLEAN,                \* and its serial is the current one
      popups            : SUBSET Popups,
      buffers           : SUBSET Popups,          \* those that have something to show
      mapped            : SUBSET Popups,
      placed            : [Popups -> (TextInputs \X Surfaces) \cup {None}],
      settled           : BOOLEAN ]  \* history: the active one committed since it,
                                     \* or the surface with the keyboard, became so

ImeInit ==
    relay = [ focused_surface |-> None,
              text_inputs |-> {}, newer |-> {}, active_text_input |-> None,
              entered |-> [t \in TextInputs |-> None],
              enabled |-> [t \in TextInputs |-> FALSE],
              input_method |-> FALSE, notified |-> None, state |-> None,
              view |-> None, in_step |-> TRUE,
              text |-> None, committed |-> FALSE, fresh |-> FALSE,
              popups |-> {}, buffers |-> {}, mapped |-> {},
              placed |-> [p \in Popups |-> None], settled |-> FALSE ]

----------------------------------------------------------------------------
(* What the input method is told *)

\* wlr_input_method_v2_send_done(): the serial counts these events, so that a
\* commit that was sent before is told from one that answers this event.  The
\* popups that have something to show appear or all popups disappear with it.
SendDone(r) ==
    [r EXCEPT !.in_step = FALSE, !.fresh = FALSE,
              !.mapped = IF r.notified = None THEN {} ELSE @ \cup r.buffers]

\* wlr_input_method_v2_send_activate() or _deactivate(), which both drop what
\* the input method was told before.
Activate(r, t) == SendDone([r EXCEPT !.notified = t, !.state = None, !.settled = FALSE])

\* send_state_to_input_method()
SendState(r) == SendDone([r EXCEPT !.state = r.active_text_input, !.settled = TRUE])

----------------------------------------------------------------------------
(* Who gets the input method *)

Ready(r) == { t \in r.text_inputs : r.entered[t] # None /\ r.enabled[t] }

Newest(r, t, S) == t \in S /\ \A u \in S \ {t} : <<t, u>> \in r.newer

\* get_active_text_input(): the first of the list that is ready.
GetActiveTextInput(r) ==
    IF r.input_method /\ \E t \in Ready(r) : Newest(r, t, Ready(r))
    THEN CHOOSE t \in Ready(r) : Newest(r, t, Ready(r))
    ELSE None

\* Mutation: only an input method that is not active yet is activated.
UpdateActiveOnce(r) ==
    LET active == GetActiveTextInput(r)
        told == IF r.input_method /\ (r.active_text_input = None) # (active = None)
                THEN Activate(r, active) ELSE r
    IN  [told EXCEPT !.active_text_input = active]

\* update_active_text_input()
UpdateActive(r) ==
    LET active == GetActiveTextInput(r)
        told == IF r.input_method /\ r.active_text_input # active
                THEN Activate(r, active) ELSE r
    IN  [told EXCEPT !.active_text_input = active]

\* update_text_inputs_focused_surface()
UpdateFocused(r) ==
    [r EXCEPT !.entered = [ t \in TextInputs |->
        IF /\ t \in r.text_inputs /\ r.input_method /\ r.focused_surface # None
           /\ Client[t] = Client[r.focused_surface]
        THEN r.focused_surface
        ELSE None ]]

\* input_method_relay_set_focus(), from seat_focus()
SetFocus(r, surface) ==
    IF r.focused_surface = surface THEN r
    ELSE UpdateActive(UpdateFocused(
             [r EXCEPT !.focused_surface = surface, !.settled = FALSE]))

\* update_popup_position(), for some popups: those that are shown are placed
\* at the cursor of the active text input, or of the output if it has none.
PlacePopups(r, S) ==
    IF r.active_text_input = None \/ r.focused_surface = None THEN r
    ELSE [r EXCEPT !.placed = [ p \in Popups |->
             IF p \in S \cap r.mapped
             THEN <<r.active_text_input, r.focused_surface>>
             ELSE r.placed[p] ]]

----------------------------------------------------------------------------
(* The seat and the clients *)

Focus(surface) == relay' = SetFocus(relay, surface)

\* The focused surface is destroyed: handle_focused_surface_destroy() comes
\* first, so that there is none left for the text inputs to forget.
DestroySurface(surface) ==
    /\ relay.focused_surface = surface
    /\ relay' = SetFocus(relay, None)

\* handle_new_text_input(): it is inserted at the head of the list.
NewTextInput(t) ==
    /\ t \notin relay.text_inputs
    /\ relay' = UpdateFocused(
           [relay EXCEPT !.text_inputs = @ \cup {t},
                         !.newer = @ \cup {t} \X relay.text_inputs])

\* text_input_commit(), with the last of its enable and disable requests, or
\* neither of them; then handle_text_input_enable(), _disable() or _commit().
CommitTextInput(t, enabled) ==
    /\ t \in relay.text_inputs
    /\ LET changed == relay.enabled[t] # enabled
           r == [relay EXCEPT !.enabled[t] = enabled]
           s == IF changed THEN UpdateActive(r) ELSE r
       IN  relay' = IF s.active_text_input = t /\ (enabled \/ ~changed)
                    THEN SendState(PlacePopups(s, Popups)) ELSE s

\* handle_text_input_destroy(), before wlroots frees it
DestroyTextInput(t) ==
    /\ t \in relay.text_inputs
    /\ LET r == UpdateActive(
                    [relay EXCEPT !.text_inputs = @ \ {t},
                                  !.newer = { p \in @ : t \notin {p[1], p[2]} }])
       IN  relay' = [r EXCEPT !.entered[t] = None, !.enabled[t] = FALSE]

----------------------------------------------------------------------------
(* The input method *)

\* handle_new_input_method(): a second one is told that it is unavailable.
NewInputMethod ==
    /\ ~relay.input_method
    /\ relay' = UpdateActive(UpdateFocused([relay EXCEPT !.input_method = TRUE]))

\* handle_popup_surface_destroy()
PopupsGone(r, S) ==
    [r EXCEPT !.popups = @ \ S, !.buffers = @ \ S, !.mapped = @ \ S,
              !.placed = [ p \in Popups |-> IF p \in S THEN None ELSE r.placed[p] ]]

\* wlroots destroys the popups, and frees the input method.
InputMethodGone(r) ==
    [PopupsGone(r, Popups) EXCEPT
        !.input_method = FALSE, !.notified = None, !.state = None,
        !.view = None, !.in_step = TRUE,
        !.text = None, !.committed = FALSE, !.fresh = FALSE]

\* handle_input_method_destroy()
DestroyInputMethod ==
    /\ relay.input_method
    /\ relay' = UpdateActive(UpdateFocused(InputMethodGone(relay)))

\* popup_surface_update_mapped(), when the surface has a buffer or has none
UpdateMapped(r, p, buffer) ==
    [r EXCEPT !.buffers = IF buffer THEN @ \cup {p} ELSE @ \ {p},
              !.mapped = IF buffer /\ r.notified # None THEN @ \cup {p} ELSE @ \ {p}]

\* Mutation: a popup that appears with its first commit is not placed.
CommitPopupUnplaced(p, buffer) ==
    /\ p \in relay.popups
    /\ relay' = UpdateMapped(relay, p, buffer)

\* handle_input_method_new_popup_surface()
NewPopup(p, buffer) ==
    /\ relay.input_method /\ p \notin relay.popups
    /\ relay' = PlacePopups(
           UpdateMapped([relay EXCEPT !.popups = @ \cup {p}], p, buffer), {p})

\* handle_popup_surface_commit()
CommitPopup(p, buffer) ==
    /\ p \in relay.popups
    /\ relay' = PlacePopups(UpdateMapped(relay, p, buffer), {p})

DestroyPopup(p) ==
    /\ p \in relay.popups
    /\ relay' = PopupsGone(relay, {p})

\* The program reads all that it was told.
ReadEvents ==
    /\ relay.input_method /\ ~relay.in_step
    /\ relay' = [relay EXCEPT !.view = relay.notified, !.in_step = TRUE]

\* It commits a text, with the number of done events that it has read.
SendText ==
    /\ relay.input_method /\ ~relay.committed
    /\ relay' = [relay EXCEPT !.text = relay.view, !.committed = TRUE,
                              !.fresh = relay.in_step]

\* Mutation: the serial of the commit is not looked at.
GetsTextAnyway(r) ==
    IF r.active_text_input # None THEN {r.active_text_input} ELSE {}

\* im_commit() drops a commit with another serial than the current one, and
\* handle_input_method_commit() one without an active text input.
GetsText(r) ==
    IF r.fresh /\ r.active_text_input # None THEN {r.active_text_input} ELSE {}

\* The commit arrives; GetsText(relay) are the text inputs that it is sent on to.
ReceiveText ==
    /\ relay.committed
    /\ relay' = [relay EXCEPT !.text = None, !.committed = FALSE, !.fresh = FALSE]

ImeNext ==
    \/ \E x \in Surfaces : Focus(x) \/ DestroySurface(x)
    \/ Focus(None)
    \/ \E t \in TextInputs :
        \/ NewTextInput(t)
        \/ \E b \in BOOLEAN : CommitTextInput(t, b)
        \/ DestroyTextInput(t)
    \/ \E p \in Popups :
        \/ \E b \in BOOLEAN : NewPopup(p, b) \/ CommitPopup(p, b)
        \/ DestroyPopup(p)
    \/ NewInputMethod
    \/ DestroyInputMethod
    \/ ReadEvents
    \/ SendText
    \/ ReceiveText

ImeSpec == ImeInit /\ [][ImeNext]_relay

----------------------------------------------------------------------------
(* Properties *)

\* The types of struct input_method_relay and of wlroots' objects; the list of
\* text inputs is one list, of those that exist.
ImeTypeOK ==
    /\ relay \in Relay
    /\ relay.newer \subseteq relay.text_inputs \X relay.text_inputs
    /\ \A t, u \in relay.text_inputs :
          t # u => (<<t, u>> \in relay.newer <=> <<u, t>> \notin relay.newer)
    /\ \A t \in TextInputs \ relay.text_inputs : ~relay.enabled[t]

(***************************************************************************)
(* include/input/ime.h:24-30: the active text input is one "which is       *)
(* enabled by the client and communicating with input-method.  This must   *)
(* be NULL if input-method is not present.  Its client must be the same as *)
(* that of focused_surface."  And there is one whenever there can be.      *)
(***************************************************************************)
Candidates ==
    { t \in relay.text_inputs :
        /\ relay.input_method
        /\ relay.enabled[t]
        /\ relay.focused_surface # None
        /\ Client[t] = Client[relay.focused_surface] }

ActiveIsCandidate ==
    /\ relay.active_text_input \in Candidates \cup {None}
    /\ Candidates # {} => relay.active_text_input # None

(***************************************************************************)
(* A text input has entered the surface with the keyboard exactly if there *)
(* is an input method and the surface is of its client; a client may only  *)
(* enable text inputs that have, and none is left on a surface that is     *)
(* destroyed.                                                              *)
(***************************************************************************)
EnteredIsFocused ==
    \A t \in TextInputs :
        IF /\ t \in relay.text_inputs /\ relay.input_method
           /\ relay.focused_surface # None
           /\ Client[t] = Client[relay.focused_surface]
        THEN relay.entered[t] = relay.focused_surface
        ELSE relay.entered[t] = None

(***************************************************************************)
(* The input method was last activated for the active text input, or       *)
(* deactivated if there is none, and it was sent no state of another one.  *)
(***************************************************************************)
InputMethodAgrees ==
    /\ relay.input_method => relay.notified = relay.active_text_input
    /\ relay.state \in {relay.active_text_input, None}

(***************************************************************************)
(* However the focus, the text inputs and the input method's commits cross *)
(* each other: a text reaches the text input that it was written for, or   *)
(* none.                                                                   *)
(***************************************************************************)
NoTextGoesAstray ==
    relay.committed => GetsText(relay) \subseteq {relay.text}

(***************************************************************************)
(* A popup of the input method is shown only while there is a text input   *)
(* to write to.  It is where that one's cursor is, once the text input has *)
(* committed anything after it became active or its surface the focus.     *)
(***************************************************************************)
PopupsAreAtTheCursor ==
    /\ relay.mapped \subseteq relay.popups \cap relay.buffers
    /\ relay.mapped # {} => relay.active_text_input # None
    /\ relay.settled =>
          \A p \in relay.mapped :
              relay.placed[p] = <<relay.active_text_input, relay.focused_surface>>

\* The relay, the clients and the input method agree on the text input that is
\* written to: it is of the client with the keyboard, entered and enabled, and the
\* one that the input method was told of.
RelayAgrees == ImeTypeOK /\ ActiveIsCandidate /\ EnteredIsFocused /\ InputMethodAgrees
=============================================================================

# A verification project for anlabwc

anlabwc is labwc, a stacking Wayland compositor built on wlroots, with a backend that
embeds it in an Android app. This directory holds TLA+ models of its window management,
its input and its embedding, TLC configurations that check them on small instances, and
proofs for every instance that TLAPS checks.

```
tlc -config Desktop.cfg MCDesktop            # any run of PROJECT.json
tlapm EmbedProofs.tla                        # the proofs of one module
```

Paths below are relative to the repository.

## 1. Inventory

The compositor is one thread around one event loop. A *handler* (a client request, a key
or button, a timer, an idle callback, a hotplug) runs to its end before the next one
starts. The hard part is not parallelism: every handler works on one global `struct
server` (`include/labwc.h`), calls handlers of other parts through signals in the middle
of its own work, and keeps pointers to objects that a client may unmap or destroy before
the next handler looks at them. The embedding (`src/embed.c`) is the exception: threads
of the host app share a table with the compositor thread.

| Component | State | Operations | Talks to | What is hard, what must hold |
|---|---|---|---|---|
| desktop, views (`desktop.c`, `view.c`, `view-impl-common.c`) | `server.views` (stacking list), per view: mapped, minimized, workspace, parent; `active_view`, auto-raise timer | map, unmap, destroy, minimize, raise, lower, focus | seat, show-desktop, switcher, lock, menus | hierarchies move and minimize as one; focus after each of these; no pointer to a freed view |
| seat (`seat.c`) | focused surface, focused layer, `input_mode`, `focus_override` | `seat_focus_*`, `seat_focus_override_begin/end`, `handle_focus_change` | all | an input mode takes the keyboard and must give it back although windows came and went |
| interactive (`interactive.c`, `input/cursor.c`) | `grabbed_view`, grab box, edges | press, begin, motion, finish, cancel | views, xdg | the grabbed view hides or dies during the grab; states and outputs change in it |
| show desktop (`show-desktop.c`) | a static flag, a mark per view | toggle, reset | `view_minimize`, focus | the loop's own refocusing resets the marks |
| window switcher (`cycle/`) | list of views, selection, node under preview | begin, step, finish, immediate, reinitialize | seat override, scene, `view_destroy` | views die or change while it is open; the preview must be undone |
| session lock (`session-lock.c`) | lock, locked, one lock output per output, focused lock surface, view to restore, idle callbacks, blank timers | new lock, surface map and destroy, unlock, client death, hotplug | seat, outputs, views | no view gets the keyboard; abandoned locks; stale callbacks |
| xdg windows (`xdg.c`, `decorations/`) | `pending` and `current` geometry, pending configure serial and timer, natural geometry | configure, commit, timeout, map, unmap, maximize | wlroots' configure list | late, wrong or missing answers of clients |
| geometry (`view.c`, `placement.c`, `snap*.c`, `regions.c`) | maximized axes, tiled edges or region, fullscreen, natural geometry, last placement, output | maximize, tile, move, resize, evacuate, restore | outputs, xdg, interactive | what comes back after states, drags and layout changes were nested |
| workspaces (`workspaces.c`) | list, current, last | switch, send to, reconfigure | views, show desktop, switcher | `last` and views when workspaces go |
| layer shell (`layers.c`) | layer surfaces, exclusive interactivity | map, commit, unmap, destroy | seat, outputs | who gets the keyboard next |
| keyboard (`input/keyboard.c`, `input/key-state.c`, `common/set.c`) | sets of pressed and bound keys, the current keybind | press, release, repeat | actions, menu, switcher, lock | a client must see press and release in pairs |
| menus (`menu/menu.c`) | menu tree, selection, pipe-menu contexts | open, close, pipe read, pipe timeout | seat override, actions | asynchronous output for a menu that is closed |
| input method relay (`input/ime.c`) | focused surface, active text input, popups | enable, commit, focus, come, go | seat, wlroots | text composed for one text input while another becomes active |
| outputs (`output.c`) | list, layout, usable area | add, remove, reconfigure | lock, layers, views | hotplug at any time |
| embedding (`embed.c`) | GPU binding table, overlay, pipe, start and stop | store, sync, forget, send | host threads | the table is shared by threads; reference counts; a bounded pipe |
| pointer, touch, tablet, drag and drop | press and focus contexts | events | seat, views | destroyed surfaces under the pointer |
| Xwayland, decorations, theme, scaled buffers, configuration, process handling | - | - | - | see section 8 |

`PROJECT.json` lists every component with its status, and the hazards with their lines
and the properties that cover them, or why none does. Section 4 has those that do go
wrong. Hazards of what is not modelled: images cached by the address of a buffer that
may come back (`subprojects/wlroots/backend/android/output.c:315`), `menu_finish()` with
pipe menus in its list (`src/menu/menu.c:1138`), the last snapped resize
(`src/snap-constraints.c:151`), popup grabs that move the focus inside wlroots
(`src/seat.c:842`), and shared buffers that leave one of their caches
(`src/scaled-buffer/scaled-buffer.c:122`).

## 2. Modules

| Module | Extends | Models |
|---|---|---|
| `Seat` | - | `seat.c`: focus, focus override, focus-change listener |
| `Desktop` | `Seat` | views, stacking, hierarchies, workspaces, minimize, grabs, menus as an input mode, auto-raise |
| `ShowDesktop` | `Desktop` | `show-desktop.c` |
| `Workspaces` | `Desktop` | `workspaces.c`: targets of actions, reconfiguration |
| `MCDesktop` | `Workspaces`, `ShowDesktop` | their composition, bounded |
| `WindowCycle`, `MCWindowCycle` | `Desktop` | `cycle/cycle.c` and the scene nodes it moves |
| `SessionLock`, `MCSessionLock` | `Desktop` | `session-lock.c` with hotplug and the desktop behind it |
| `Layers`, `MCLayers` | `Desktop` | `layers.c`: life of layer surfaces, and the keyboard they take and give back |
| `KeyState`, `MCKeyState` | `Seat` | `keyboard.c`, `key-state.c`, `set.c`, and what the focused client is told of keys |
| `InputMethod`, `MCInputMethod` | `Null` | `ime.c` between wlroots' text inputs and input method |
| `PipeMenu`, `MCPipeMenu` | `Null` | `menu.c`: the tree of open menus and the programs that fill it |
| `XdgConfigure`, `MCXdgConfigure` | `Null` | one window's configure handshake: `xdg.c` and wlroots' `xdg_surface` |
| `ViewGeometry`, `MCViewGeometry` | - | one window's states, natural geometry and placement, over outputs |
| `Embed`, `MCEmbed` | - | `embed.c`: host threads, compositor thread, table, pipe, frames, runs |
| `Presentation` | - | what `Embed` promises of a buffer; abstract |
| `Null` | - | `None`, the null pointer of modules without a desktop |
| `DesktopProofs`, `KeyStateProofs`, `EmbedProofs` | the module they are named after | the theorems |
| `WorkspacesProofs`, `SessionLockProofs` | that module and `DesktopProofs` | the theorems |
| `OverlayProofs` | `WindowCycle`, `Layers`, `DesktopProofs` | the theorems about the switcher and the layer surfaces |
| `AnswerProofs` | `PipeMenu`, `InputMethod`, `MCXdgConfigure` | the theorems about these three, also for the clients of `MCXdgConfigure` |
| `GeometryProofs` | `MCViewGeometry` | the theorems about `ViewGeometry`, also for the user of `MCViewGeometry` |

**State.** `server` is one record with a field per field of `struct server` or `struct
view` that the models need. `ShowDesktop`, `Workspaces`, `WindowCycle`, `SessionLock`
and `Layers` extend `Desktop`, so that their handlers interleave with those of the
desktop on the same record; `WindowCycle` adds `cycle` (`struct cycle_state`) and
`scene` (tree and enabled flag of each view's node), `SessionLock` adds `lock` (`struct
session_lock_manager`, its idle callbacks and timers), `Layers` adds `layers` (wlroots'
layer surfaces and their scene nodes), `Workspaces` the length of the list. `KeyState`
has the seat's fields and the statics of its two C files in `server`, `held` for the
keys that are down in fact, and what the client believes. The other modules have one
record each, and `Embed` a variable per thread and per shared object.

**Functions and handlers.** A C function that changes the global state is an operator
from a record to a record, and its callers compose it, in the order of the calls. A
handler is one action, atomic because the event loop makes it so. So `Unmap(v)` is
`handle_unmap()` with everything below it: hiding, ending a grab, finding the next view,
passing the focus to a dialog, changing the workspace, resetting the marks of
show-desktop, and the focus-change listener that sets `active_view`. In `Embed`, where
there are threads, an action is what runs under one lock, or between two: `comp.pc` and
`host[t].pc` say where a thread is.

**Stacking.** `server.views` is the relation `above` on the existing views. Moving to
the front or to the back is `Restack` by a rank; the relative order of the views that
move together is that of the code's loops. `Layers` and `InputMethod` have their lists
as relations too (`later`, `newer`).

**What clients are told.** The configures under way, the keys that the client believes
down, the done events that an input method has not read yet and the text it commits
meanwhile are state of the models: what crosses on the way is where these protocols go
wrong.

**Abstractions.** All views are xdg toplevels, which always want the focus. A view
stands for its `wl_surface`. `Modal` says which toplevels ask to be modal dialogs;
parents change freely. Popup grabs, shading, Xwayland and focus-follows-mouse variants
other than the default are not modelled. A binding or menu action runs in any mode but
"cycle" (`actions_run()`). In `WindowCycle` previews are on and the filters by output
and application are left out. In `SessionLock` a callback that uses freed memory sets
`broken`, after which nothing follows; there are no layer surfaces in its runs and no
bindings that are allowed when locked. The enabled state of an output is its presence.
`XdgConfigure` keeps one axis, `[x, w]` with 0 for an empty box, one usable area, and no
fullscreen or tiling; the placement policy is a nondeterministic choice; `wanted` is a
history variable, the geometry decided last. `ViewGeometry` has outputs side by side in
slots; a geometry is a slot and a size by axis, so that positions within an output,
decorations and gaps are left out, and the client is an obedient one; `home` and `kept`
are history. `Layers` leaves out arrangement, exclusive zones and popups; `KeyState` has
one keyboard without an input method's grab; `InputMethod` keeps of every text and place
only whose it is; `PipeMenu` has a menu's items as the set of menus they open; in
`Embed` the n of an entry is history, a binding by xid or pid finds any of the views it
names, and overlays have no place and no size.

**Mutations.** Definitions whose comment begins with "Mutation" are not part of the
system. Each is a definition changed the way a bug would change it, and shows that some
property notices.

## 3. Runs that pass

| Run | Instance | States | Question |
|---|---|---|---|
| `desktop` | a window and a dialog on up to 3 workspaces; or 3 views, 1 workspace, show-desktop | 147,895 | do pointers, grabs, keyboard focus, families and the list survive every interleaving of handlers, and workspaces that come and go? |
| `window_cycle` | 2 views, 2 workspaces, symmetric | 198,713 | does the switcher stay consistent while views come and go, and does it focus what is selected? |
| `session_lock` | 2 views, 2 outputs, 2 lock surfaces | 438,962 | does the keyboard stay with the lock, are hotplugged outputs covered, and does it go back to the right view? |
| `layers` | 2 panels, symmetric, 1 launcher, 1 view, 1 output | 493,195 | does the keyboard go to the surface that has precedence, and back? |
| `keys` | 4 keys, 2 of them modifiers, 3 keybinds, sets of 3 | 222,662 | whatever comes between a press and its release, which keys may client and compositor disagree on? |
| `pipe_menu` | 4 menus and 4 that programs may define, 4 of them pipe menus | 4,100 | does the output of a program reach the menu that waits for it, or none? |
| `input_method` | 2 clients with 3 surfaces and 3 text inputs, 1 popup | 160,793 | does a text reach the text input it was written for? |
| `configure` | 2 positions, 2 widths, 4 configures (3 for a late client) | 592,295 | does the window of an obedient client end as decided last; do requests survive late, wrong and missing answers, and end? |
| `geometry` | 2 outputs, 2 widths, 1 height, 1 region, 2 edges | 280,492 | does a window always have the geometry of its state, and get its own size and its own output back? |
| `embed` | 2 host threads, 1 surface, 2 buffers, a table of 1, a pipe of 1, 2 runs, symmetric | 1,601,779 | are buffers counted exactly, and is what is shown what was promised? |
| `embed_live` | 1 host thread, 1 surface, 1 window bound by xid, a pipe of 2, 1 run | 171,484 | is an accepted buffer shown, and does a stop end the run, or else the process? |

*Bounds.* Sets of views, outputs, surfaces, keys and threads are finite by their
constants, and so are the table, the pipe and the key sets of the code. Bounds that the
code does not have are `MaxSerial` and `LateSerial` (configures), `MaxPresent` (buffers
stored under one key), `InputMax` (the host sends input while the pipe holds fewer
messages), `MaxRuns` (calls of `anlabwc_run()`) and `MaxWorkspaces`.

- `desktop` is two instances in one, told apart by the view `Third`. Two views (a parent
  and a dialog, an active and another one) are what every focus hazard here involves;
  three workspaces are needed for one to be neither current nor last. While a grab or a
  menu is open there are at most two, and the dialog is on one workspace only. The third
  view comes between a family, with one workspace and no pointer.
- A ring of two views in `window_cycle` does not tell next from previous, so that the
  direction of a step is not checked there; everything else about the list is.
- `session_lock` drops the pointer and keeps the handlers that change who has the
  keyboard or should have it; a second output for it to move to, and a second surface to
  move from.
- `layers`: two panels that may take any layer below the overlay and any interactivity,
  and one launcher above, so that there is one to give way, one to be passed over and
  one to be preferred. One output: what the code does for surfaces of other outputs is
  in the module and in no instance.
- `keys`: two modifiers and a keybind for each of press, release and a locked screen;
  sets of three hold fewer keys than four. Neither VT switches nor arrow keys in a menu
  are in the instance.
- `pipe_menu`: a pipe menu below two parents, one within another, one in a menu that a
  program wrote, and one beside them.
- `configure`: four configures are a request, one that supersedes it, one that the view
  does not wait for, and one more to be asked when these have been answered. The late
  client has three, is not resized by the left edge (a client that resizes itself during
  such a drag moves its window without bound), and is the one that may unmap. An
  unmaximize of a window of unknown natural size is left out for the obedient one, as
  the code goes wrong there (section 4).
- `geometry`: two outputs that keep their order (when one goes the other moves up), two
  widths so that a restored size is told from another. The user waits for the client's
  answer except in a drag; there are no keyed or client's own resizes within a drag, no
  change of the layout either, and only the horizontal axis is resized with the pointer,
  until a key makes the window special in the middle of it (section 4).
- `embed`: a table of one entry is full as soon as the other thread or a surface has
  bound; two runs show what is left over from the first. `embed_live` has a pipe that
  input and redraw messages fill. `Reapplies` says whether a client of output management
  applies the configuration that the output has: in `embed` it does, in `embed_live` it
  does not (section 4).

*Deadlock* is checked but for five configurations: `Embed` and `EmbedLive` stop when
`anlabwc_run()` has returned for the last time or the process has ended, `SessionLock`
and `PipeMenu` once undefined behaviour was met or an assertion failed, `Configure` when
the window was destroyed.

### Properties

A property of a run is often a conjunction; its parts are in parentheses. The parts have
definitions of their own, with what each one says.

*Desktop* (`desktop`)
- `ServerIsCoherent` (`TypeOK`, `NoDanglingPointers`, `GrabIsVisible`,
  `ActiveFollowsFocus`): what `view_destroy()` and the unmap and minimize paths have to
  clear, in which order.
- `KeyboardStaysWithWindows` (`NeverLeftUnfocused`, `FocusStaysMapped`): no step takes
  the keyboard from a window and leaves it to nobody while another window could have it,
  or gives it to a window that is not mapped, as long as no input mode begins or ends.
- `StackingIsKept` (`StackingIsTotal`, `FamiliesMoveTogether`), `DialogTakesFocus`:
  `server.views` is one list; a window crosses another only together with its family, to
  which belong the views with one root by the parents before the step, of those mapped
  after it; a modal dialog takes the focus meant for its family.
- `ShowDesktopIsUndone`: if the active window's family is in front, showing the desktop
  hides and marks everything (`ShowMarksWhatItHides`); restoring brings all marked
  windows back although the first of them clears the marks (`RestoreUnminimizesMarked`).
- `WorkspacesAreLive`: a reload leaves neither a window nor `current` nor `last` on a
  workspace that it freed. `OccupiedGoesAround`: going to the next and to the previous
  occupied workspace undo each other.

*Switcher, lock, layers* (`window_cycle`, `session_lock`, `layers`)
- `SwitcherIsCoherent` (`CycleTypeOK`, `SwitcherConsistent`, `OnlySelectedIsPreviewed`):
  list, selection, preview, scene and input mode agree. `SwitchReachesSelected`: the
  selected window, if it is mapped, is shown and its family has the keyboard.
- `KeyboardIsWithTheLock`: as long as the session is locked no view has or gets the
  keyboard. `OutputsAreLocked` (`LockTypeOK`, `EveryOutputIsCovered`): no output shows
  the desktop. `FocusIsHandedOn` (`KeyboardMovesToAnotherOutput`,
  `UnlockFocusesRemembered`): who is next when a lock surface goes, or the lock.
  `LockGetsKeyboard` (liveness).
- `FocusedLayerIsRight` (`LayersTypeOK`, `FocusedLayerLives`, `ExclusiveHasKeyboard`):
  the seat points to no layer surface that is gone, and one that demands the keyboard
  has it. `ExclusiveYieldsUpwards`: it loses it to one from above only.
  `FocusIsPassedOn` (`FocusPassesOn`, `KeyboardReturnsToWindow`): who is next when it
  goes, by whatever way.

*Keys, menus, input method* (`keys`, `pipe_menu`, `input_method`)
- `OnlySwallowedDisagree` (`OnlySwallowedStick`, `ToldOfTheRest`): of the keys that are
  up a client believes at most those down whose release came while a keybind waited for
  one (`swallowed`: the code sticks them, section 4) and Escape (`keys_escape`); of all
  others it believes exactly those down that are and are not bound, across focus
  changes. `SetsAreRight` (`KeysTypeOK`, `SetsForget`): the key sets are
  emptied by releases, also after they were full. `WaitsForAKey`: a keybind on release
  waits exactly as long as its key is held (`WaitsWhileHeld`), and, with keybinds as the
  manual describes them (`SwitcherIsModal`, section 4), the switcher stays open only
  while something can close it (`SwitcherHasAKey`).
- `OneIsAwaited` (`MenuTypeOK`, `WaitingHasOwner`): the one flag for all programs says
  that one menu of the open tree awaits its program. `OnlyTheOpenTree` (`ShownIsOpen`,
  `NothingIsLeft`, `StartsFresh`): what is on the screen is the open tree, nothing that
  a program wrote outlives it, and a program is awaited for an empty menu, also when the
  menu was opened by the actions of an item, before the tree of that item is reset; until
  the process is `broken` (section 4). `WaitingEnds` (liveness).
- `RelayAgrees` (`ImeTypeOK`, `ActiveIsCandidate`, `EnteredIsFocused`,
  `InputMethodAgrees`): relay, text inputs and input method agree on whom text is for.
  `NoTextGoesAstray`: a text that was composed for one text input is not committed to
  another, by the serial of done events. `PopupsAreAtTheCursor`.

*One window* (`configure`, `geometry`)
- `ViewsAgree`: `pending` and `current` agree when nothing is outstanding
  (`IdleIsInSync`), and the timer with what is (`XdgTypeOK`); what was decided last is
  what is shown in the end (`SettledAsWanted`). `RightEdgeStays`: once the right edges
  shown and asked for are where the left edge was grabbed, they stay there during the
  grab; of a client that answers in time, as no other is resized by the left edge here.
  `LateAnswerKeepsRequest`: a commit that answers an earlier configure, or none, does not
  undo a request (a timeout does, as it should).
  `RequestsEnd` (liveness): no request stays outstanding.
- `PlacedOnOutputs`: no window is tiled to a region that is gone, whatever output it
  belongs to (`RegionsExist`), and outputs that go take no window with them
  (`OnAnOutput`, `GeometryTypeOK`). `SizeIsAsked`: a size of 0x0 is always followed by a
  choice of the client.
- `SpecialIsShown`: after any change a window that is not floating has the geometry of
  its state. `NaturalComesBack`: an axis that becomes free gets the size the window last
  had of its own there. `OutputsComeBack`: when the outputs are as they were, so are the
  windows.

*Embedding* (`embed`, `embed_live`)
- `RefsAreCounted`: a buffer has as many references as there are places that hold it, in
  every interleaving of host threads and compositor thread. `TablesAreLive`
  (`EmbedTypeOK`, `NoDeadSurface`, `BackendIsThere`): no dead surface in the tables, no
  overlay for a backend that is gone.
- `KeepsPromise`: `Embed` implements `Presentation`; what the screen shows for a key is
  never older than what it showed, nor newer than what is bound, and nothing is shown
  again for a key that was retired until it is bound anew. The refinement maps `bound`
  to the numbers of the entries in the table.
- `FrameIsDue`: no redraw waits for a frame event that nothing will emit, as long as
  the backend refuses no commit (section 4).
- `AckedIsShown`, `StopEndsRun` (liveness): a buffer whose caller was told 0 is shown, if
  the output is given no configuration anew in between; a stop never leaves a run that
  goes on for ever. That the run then returns is not what it says: with assertions the
  process ends instead (section 4).

### Fairness

All runs but those with a liveness property assume none.

- `LockFairness` is weak fairness of the idle callbacks of mapped lock surfaces and of
  the blank timers, `XdgFairness` that of the configure timer and of wlroots' idle
  callback, `MenuFairness` that of the timeout of a pipe menu. libwayland's event loop
  runs idle callbacks on each dispatch and timers when they expire, whatever clients do,
  and none of them is disabled and enabled again for ever without having been run. Of
  clients and programs nothing is assumed, except that the obedient client of
  `configure` answers before the timer expires: there the timer's fairness stands for
  that. `RequestsEnd` holds for a client that never answers, up to `LateSerial`
  configures; each new request arms the timer anew, so a flow of requests without an end
  would postpone it, which the bound leaves out.
- `Fairness` of `Embed` is weak for the steps of a thread within a call or a handler,
  and strong for `Dispatch`, `Frame` and `Quit`: each turn of the event loop serves
  every source that is ready and then tests `display->run`, so that one of the three
  that is ready again and again is taken although the others make it wait. The steps of
  the teardown are those of one thread within `server_finish()` and `anlabwc_run()`. No thread of
  the host must call anything.

## 4. Where the code departs from what is written

One departure is a run that TLC finds violated.

| Run | Code | What happens |
|---|---|---|
| `keys_escape` | `src/input/keyboard.c:542` | Escape closes the window switcher and gives the keyboard back before it is stored as bound, so that the client that gets it is told that Escape is down, and never that it was released; against `src/seat.c:829-833`. |

Others were met while modelling. For these the positive properties are stated so that
they exclude exactly the case, or the model stops at it:

| Code | What happens | Excluded in |
|---|---|---|
| `src/view.c:2190` | A dialog is at the front of the list from the moment it is created, so mapping it raises neither it nor its parent, and other windows are between the two. | `FamiliesMoveTogether` is about moves |
| `src/show-desktop.c:35` | The active window is not in front: minimizing it focuses another one, which clears all marks in the middle of the loop; the second call restores nothing. | `ShowMarksWhatItHides` assumes the active family in front |
| `src/cycle/cycle.c:143` | A window that was not visible is previewed, maps or is unminimized while it is, and is disabled when the preview ends: mapped, maybe focused, and not to be seen. | `OnlySelectedIsPreviewed` says nothing of the enabled flag |
| `src/session-lock.c:63` | The idle callback of a mapped lock surface runs after the surface or its output is gone. | `broken` |
| `src/seat.c:941` | The end of an input mode restores the focus without a look at the view. | `FocusStaysMapped` is not about the end of a mode |
| `src/workspaces.c:602` | A reload that destroys the current workspace finds the focus before the views of the workspaces behind it have come to the first one: nobody has the keyboard although views are visible. | `CameTooLate` |
| `src/xdg.c:635` | The guard against a size of 0x0 also stops the 0x0 that asks a client for its natural size (the comment at `src/view.c:928`): a window that started maximized is told to keep the maximized size. | `MCXdgConfigure` leaves it out for the obedient client; `SizeIsAsked` says what remains |
| `src/view.c:1756` | A layout change resizes a client that has resized itself back to the size of its last placement, which commits do not update (`src/xdg.c:340-360`). | `kept.settled` |
| `src/view.c:1764` | A window in a region is evacuated to another output's region of the same name and stays there when its output is back, against the comment at `src/view.c:1771-1774`; a reload that drops the region leaves its size in the last placement. | `kept.settled` |
| `src/desktop.c:43` | A window that is about to choose its size when its output goes (its pending geometry is empty) is left out of the rearrangement. | `OnAnOutput` |
| `src/interactive.c:156` | Resizing a window that started maximized along one axis un-maximizes that axis without the fallback that `src/view.c:1450` has for a natural geometry of 0x0, which is then known by half. | `MCViewGeometry` |
| `src/view.c:581` | A move to another output that the client has not answered yet is lost in a layout change (the TODO there). | `kept.settled` |
| `src/interactive.c:336` | A window that is snapped or maximized by a key while it is resized gets the geometry of the pointer at its next motion, as the comment there says. | `MCViewGeometry`; `SpecialIsShown` is not about steps in a resize |
| `src/embed.c:562` | The compositor thread writes a redraw message into the pipe that nobody but it reads; if it is full, it waits for itself, although `anlabwc_run()` "blocks until anlabwc_request_stop() or the display loop ends" (`include/anlabwc-embed.h:22`). | `WaitsForItself` in both liveness properties |
| `src/embed.c:817` | At the end of a run the pipe's descriptor is 0 for a moment, a valid one: a thread of the host that sends then writes to standard input, and is told 0. | `~android` in `AckedIsShown` |
| `src/embed.c:577` | A stop that is requested before the event loop is entered is forgotten. | `StopEndsRun` begins at the loop |
| `src/server.c:966` | `wl_display_destroy()` asserts that nobody listens for new surfaces (`subprojects/wlroots/types/wlr_compositor.c:1352`), and the listener of `src/android_wlegl.c:499` is never removed: a stop aborts the process instead of making `anlabwc_run()` return, unless wlroots is built with `b_ndebug`. Even the release builds of `.github/workflows/build.yml:177-179` leave that off for wlroots. | `StopEndsRun` allows the end of the process (`DestroyDisplay`) |
| `src/embed.c:817` | `server.wl_display` points to the freed display from `wl_display_destroy()` until `server` is cleared: a stop of another thread in between uses freed memory. | `RequestStop` is then ignored or ends the process |
| `subprojects/wlroots/types/output/output.c:776` | Any commit clears `needs_frame`, also one that draws nothing: a client of output management that applies the configuration the output has (`src/output.c:1016`) between a redraw message and its frame makes the redraw lost, until something else damages the scene. | `Reapplies` is FALSE in `embed_live` |
| `src/common/scene-helpers.c:149` | A commit that the backend refuses, or a state that cannot be built (line 118), leaves `needs_frame` set with no frame scheduled, until something else damages the scene or asks for a frame. | refused commits are not modelled |
| `src/input/ime.c:134` | The input method is activated, and told so with a done event, before the state that must follow "before the next done event" (`subprojects/wlroots/protocol/input-method-unstable-v2.xml:92`). | `InputMethodAgrees` allows no state |
| `src/input/keyboard.c:560` | A keybind on release is stored as the one that waits although it is not run, as the screen is locked. If it is not of a modifier and the switcher is open, the release of the last bound key is taken for it (`src/input/keyboard.c:515`) and the switcher stays open with no key down. | `SwitcherIsModal`: such keybinds are of modifiers in `docs/labwc-config.5.scd:857-861` |
| `src/desktop.c:170` | A modal dialog that was minimized while it had no parent takes the focus meant for its parent although it is hidden, so that no visible window gets the keyboard back when a layer surface goes. | `KeyboardReturnsToWindow` allows a mapped dialog; `Layers.cfg` has none |
| `src/input/keyboard.c:512` | "Release events for keys that were not bound should always be forwarded to clients to avoid stuck keys" (`src/input/keyboard.c:381-383`), but while a keybind on release waits any release is taken for it, also that of a key whose press was forwarded before, and also on a locked screen, where nothing is run for it (lines 514-517): the client believes the key down until it is pressed again or the keyboard leaves. | `swallowed` in `OnlySwallowedDisagree` |
| `src/menu/menu.c:1535` | "'ShowMenu' action is not allowed in menu items" (`src/menu/menu.c:113`), but `validate_menu()` does not look into the branches of If and ForEach, whose actions run before the pipe menus of the closed tree are reset. A pipe menu that is opened so and was shown before fails the assertion in `src/menu/menu.c:1380`; a menu that a program wrote is freed while it is open, and then again. | `broken` |
| `src/input/keyboard.c:663` | A key pressed before the input method grabs the keyboard is released to the input method only. | the grab is not modelled |

## 5. Proofs

All theorems hold for any values of the constants.

| Module | Theorem | Property |
|---|---|---|
| `DesktopProofs` | `IInvHolds` | `Spec => []IInv` |
| | `TypeCorrect` | `TypeOK` |
| | `PointersAreLive` | `NoDanglingPointers` |
| | `GrabIsConsistent` | `GrabIsVisible` |
| | `ActiveViewHasKeyboard` | `ActiveFollowsFocus` |
| | `DesktopIsCoherent` | `ServerIsCoherent`, the four together |
| `WorkspacesProofs` | `WInvHolds` | `WorkspacesSpec => []WInv` |
| | `ServerStaysCoherent` | `ServerIsCoherent`, also while workspaces come and go |
| | `WorkspacesAreLiveHolds` | `WorkspacesAreLive` |
| | `OccupiedGoesAroundHolds` | `OccupiedGoesAround` |
| | `StackingIsKeptHolds` | `StackingIsKept` (an action property with an invariant) |
| | `KeyboardStaysHolds` | `KeyboardStaysWithWindows` (an action property) |
| | `DialogsTakeFocus` | `DialogTakesFocus` (an action property) |
| `SessionLockProofs` | `LInvHolds` | `LockSpec => []LInv` |
| | `OutputsAreLockedHolds` | `OutputsAreLocked` |
| | `KeyboardIsWithTheLockHolds` | `KeyboardIsWithTheLock` |
| | `FocusIsHandedOnHolds` | `FocusIsHandedOn` (an action property) |
| `KeyStateProofs` | `KeysInvHolds` | `KeysSpec => []KeysInv` |
| | `OnlySwallowedDisagreeHolds` | `OnlySwallowedDisagree` |
| | `SetsAreRightHolds` | `SetsAreRight` |
| | `WaitsWhileHeldHolds` | `WaitsWhileHeld` |
| | `WaitsForAKeyHolds` | `WaitsForAKey`, if `SwitcherIsModal` |
| `OverlayProofs` | `SwitcherCoherence` | `SwitcherIsCoherent` |
| | `SwitchReaches` | `SwitchReachesSelected` (an action property) |
| | `FocusedLayer` | `FocusedLayerIsRight`: in the scene, and with the keyboard if exclusive |
| | `ExclusiveYields` | `ExclusiveYieldsUpwards` (an action property) |
| | `FocusPassed` | `FocusIsPassedOn` (two action properties) |
| `AnswerProofs` | `PInvHolds` | `MenuSpec => []PInv(menu)` |
| | `OneIsAwaitedHolds` | `OneIsAwaited` |
| | `OnlyTheOpenTreeHolds` | `OnlyTheOpenTree` |
| | `ImeInvHolds` | `ImeSpec => []ImeInv` |
| | `ImeTypeCorrect` | `ImeTypeOK` |
| | `TextInputsFollowFocus` | `EnteredIsFocused` |
| | `ActiveIsRight` | `ActiveIsCandidate` |
| | `InputMethodKnows` | `InputMethodAgrees` |
| | `RelayAgreesAlways` | `RelayAgrees`, four of these together |
| | `TextArrives` | `NoTextGoesAstray` |
| | `PopupsArePlaced` | `PopupsAreAtTheCursor` |
| | `ConfigureTimerIsRight` | `XdgTypeOK`: types, and the timer against the request |
| | `ConfigureAgrees` | `ViewsAgree`, under `MCSpec` |
| | `LateAnswersKeepRequest` | `LateAnswerKeepsRequest` (an action property, of commits alone) |
| | `RightEdgeIsKept` | `RightEdgeStays`, under `MCSpec`, whose late client is not resized so (an action property) |
| `GeometryProofs` | `GeometryInvariant` | `GeometrySpec => []GInv` |
| | `GeometryTypeCorrect` | `GeometryTypeOK`: types, axes only in a resize, no layout change under way |
| | `RegionsAreThere` | `RegionsExist` |
| | `SizeIsAlwaysAsked` | `SizeIsAsked` |
| | `WindowsComeBack` | `OutputsComeBack` |
| | `WaitingIsASpecialCase` | `MCSpec => GeometrySpec` |
| | `WindowsStayOnOutputs` | `PlacedOnOutputs`, under `MCSpec` |
| | `SpecialGeometryIsShown` | `SpecialIsShown`, under `MCSpec` (an action property) |
| `EmbedProofs` | `EmbedInvHolds` | `Spec => []EmbedInv` |
| | `EmbedTypeCorrect` | `EmbedTypeOK` |
| | `RefsCounted` | `RefsAreCounted` |
| | `DeadSurfacesForgotten` | `NoDeadSurface` |
| | `BackendOutlivesSyncs` | `BackendIsThere` |
| | `EmbedTablesAreLive` | `TablesAreLive`, three of these together |
| | `FramesAreDue` | `FrameIsDue` |
| | `EmbedKeepsPromise` | `KeepsPromise`, the refinement of `Presentation` |

*Assumptions.* Each is an `ASSUME` of the component's module, which TLC evaluates in
every run of it.

- `SeatAssumption` and `DesktopAssumption`: the kinds of surface are disjoint and `None`
  is none of them, the first workspace is a workspace, dialogs are views.
  `WorkspacesAssumption`: workspaces are numbers from 1 on, as the list that a reload
  shortens at its end.
- `KeysAssumption` has the types of keys and keybinds and a size of the key sets.
  `SwitcherIsModal` is a hypothesis of `WaitsForAKeyHolds` alone: section 4 has the
  keybind that it excludes.
- `PipeMenuAssumption`: the menus of the configuration open menus of the configuration,
  those that a program writes open what programs write, and menus do not open one another
  in a circle. By `fill_menu()` an item opens a menu that is defined within its own, or
  links to one that was defined before and that it is not in.
- `ImeAssumption`: `None` is no surface and no text input.
- `GeometryAssumption`: outputs are a finite set with a member, there is a width and a
  height, and these are none of the sizes that a state gives. `LayoutAssumption`: no two
  outputs of a layout are in one slot.
- `EmbedAssumption`: surfaces and windows are finite sets (what is counted are entries
  of a table), and distinct; the capacities are numbers.

*Desktop.* None of the four invariants is inductive alone. The keyboard goes to
`active_view` or to the surface of the override, so that focus and liveness need each
other; the override restores a surface that must still be the active view; a grab is
cancelled only when it is on the view that is hidden, so that a grab on a view that is
not visible would stay. `Coherent` is their conjunction with the fact that the session
is not locked and no layer surface has the focus, which no handler of `Desktop` changes.
As handlers are compositions of operators on the record, there is one lemma per
operator, "it keeps `Coherent`", and a caller's lemma cites those of its callees: the
proof follows the call graph. Two places break the invariant for a while and have a
weaker one of their own: hiding the grabbed view comes before cancelling the grab
(`CoherentButGrab`, in `view_impl_unmap()` and `view_minimize()`), and `view_destroy()`
clears `active_view` before its surface loses the keyboard (`Leaving`).

*Workspaces.* `WInv` adds to `Coherent` that `server.views` is a list (`Ordered`: a
strict total order of a finite set, which has a first member wherever it has one), and
that nothing is on a workspace that is not in the list (`Placed`). Both are about the
windows, and the action properties about how the focus and the list change, so that the
lemma of a function says what it does from one server to the next: `Refocused` for those
that move the focus, `Found` for the search of a window to focus, `Handled` and
`Stepped` for handlers. That a move is of one family rests on `FamilyOfMember`: all its
members have the same family, whoever is asked. That the occupied workspaces go around
is arithmetic of the first one above and the last one below a number, with no bound on
the workspaces. That a dialog takes the focus is a promise of `desktop_focus_view()` in
every such relation (`Yields`), kept where a list has a last modal member
(`FocusTargetProper`). `view_impl_unmap()` moves the focus before wlroots hands the
children of the view to its parent, so that it must also be known that no hierarchy gains
a member by that (`AdoptedProper`), for which each view needs exactly one most senior
parent (`RootIs`): parents are mapped and there is no circle (`Descent`), which
`SetParent` keeps as it refuses a descendant.

*SessionLock.* `Coherent` does not survive a lock: the active view loses the keyboard,
and input modes begin and end behind it. What survives is `Quiet` (no layer surface has
the focus, and outside of passthrough mode nobody has the keyboard unless a lock surface
has it), and `Behind`, one lemma per function of the desktop: while the session is locked
it leaves the keyboard where it is. `LInv` adds what the manager knows of the outputs
(`CoversAgree`: covers, their timers, their callbacks and their surfaces) and that
manager and server know of one session (`LocksAgree`). Nothing follows once `broken` is
set, so that these theorems are about sessions without the callback of section 4.

*WindowCycle.* Neither does `Coherent` survive the switcher: its end gives the keyboard
to the selected view or back, whatever became of either meanwhile (section 4). `CycleInv`
has what is needed in its place: `server.views` is a list, as the one of the switcher is
copied from it; an open switcher has a selected view that it lists, and knows the tree
that its node came from (`Listed`); a closed one has forgotten everything; no other node
is in the preview tree. What the functions of the desktop leave alone while the switcher
is open is one relation, `Follows`, with a lemma for each. That the choice at the end
reaches the selected view (`Reached`) depends on nothing but the list: whatever hid the
view, `desktop_focus_view()` undoes it.

*Layers.* `LayersInv` says that the layer trees are one list of what exists, on outputs
that exist (`Arranged`), that the focused surface is one of them, and that an exclusive
one has the keyboard (`Kept`), which each function of the desktop must leave to it
(`Follows`, as above). What a request of one surface may do to the focus of the others
is `Outcome`, a relation that each function on the way has a lemma for, and who gets the
focus of one that goes is `PassedOn`: the first of the list of the first output that has
a candidate. That the keyboard returns to a window when there is one needs the list of
windows to be one, as the search would find none otherwise. The theorem is of any modal
dialogs; the run has none.

*KeyState.* A client forgets a key that was used only if it was not told of it
(`NotTold`), also when the focus changes between the press and the record of it. That it
was told of all others (`Told`) needs the set of pressed keys to be complete, which it is
until more keys are held than it has room for (`crowded`). A repeat adds no key because
the press did, or the set was full then and is still (`Repeats`), and a keybind waits
with its keys held (`Waits`). `WillClose`, for the switcher, says that without a modifier
there is a bound key, and a second one if the release of one will be taken by a keybind
that waits.

*PipeMenu.* When another item is selected, the menus that were open below close, and all
others that are shown must still be reached from the root along the selections. `PInv`
therefore says of each menu that its selected submenu is one of its items, that only
shown menus have one, and that a pipe menu that is not shown has no items; it follows
that the chain that closes does not hold the menu in which the item is
(`ChainHasNoCircle`) and that the rest of the chain stays (`ChainMoves`). An item closes
its whole tree (`TreeCloses`), runs its actions and resets the pipe menus. As a menu that
the actions open without a failure is none of those that are reset, opening it and
resetting the others may be swapped (`ResetCommutes`), and what follows is what opening
a menu keeps (`ItemExecuted`).

*InputMethod.* `ImeInv` is `Sound`, `Gone` and `Active`. The handlers change the focus,
the text inputs or the input method, then call `update_text_inputs_focused_surface()`
and `update_active_text_input()`. Each of the two restores a part of the invariant and
needs the others, so that its lemma has the weaker invariant as its hypothesis:
`UpdateFocusedSound` restores `Entered`, `UpdateActiveSound` then restores `Active`.
That a text arrives where it belongs rests on `Understood`: what a program that has read
all events writes is for the one it was last activated for, and each further event makes
its serial old. That the first text input of the list is found rests on `Listed`: any
subset of the list has a first one, which is kept from step to step, as it is by
induction that a list is one.

*XdgConfigure.* Of any client it holds that serials rise from what was committed over
what was acknowledged and sent to what is scheduled, and that the timer runs with the
request (`Regular`); from that, a late answer keeps the request. That the geometry asked
for and the one shown come together is a matter of the client: the one that resizes
itself as it is asked, and answers before the timer expires. For it `InTime` says that
all configures since the last request ask for what that request did (`Recent`), or for
no size while the window has this one (`Asks`); that none asks for no size after one has
asked for a size (`Rising`); and that what was decided last is pending. For any number of
configures under way; `MaxSerial` bounds the runs only by the guards of `MCNext`. The
right edge stays by the same invariant, from the moment both right edges are at the
grab (`AtGrab`), for the obedient client (section 3): when a grab begins while a move is
still to be answered they are not, until the client has answered, and nothing is said.

*Geometry.* The operations of `view.c` are compositions too, but the promises of their
parts are stronger within than at the end: `Base` holds throughout (the region exists,
only what is not fullscreen is dragged), `Good` between operations (a tile under one
maximized axis has a natural size; a window without a size waits for the client, which
is `SizeIsAsked`). `Kin(s, t)` is what no operation does, whatever it is composed of: it
moves no output, takes no window off an output in use, and remembers a placement on one
in use only. It is transitive, so that the lemma of an operation cites those of its
parts. For `OutputsComeBack` the invariant must speak of all layouts in between:
`SinceSettled` says that the last placement, the state and with it the size are those of
the moment the window was settled, wherever it is now, because the size of a special
geometry does not depend on the slot (`SpecialAtIs`). `OnAnOutput` is not true of every
user (section 4); it is proved of one who waits, with `MInv`: a maximized window has a
size (`Full`), and what has a size is on an output (`Placed`).

`SpecialIsShown` needs more of the state an operation starts in (`Sound`). A window that
is fullscreen or tiled has been placed (`Secure`): `view_adjust_for_layout_change()`
skips the others. A fullscreen one has the full size already (`FullShown`), because
`view_move_to_edge()` works on it too and keeps the size. And no window waits for a
region while there is an output (`Rests`), as its geometry would not follow the output.
`Outcome(s, t)` is then what any operation comes to: it changes neither state nor
geometry (`Still`), or ends in the geometry of the state it leaves (`Lands`), or takes
the special states off (`Bare`). Each of the operations calls
`view_apply_special_geometry()` on a path of its own, and the proof has a lemma for each.

*Embed.* `EmbedInv` is `Shape` (types), `InHandlers` (a retired binding and a local copy
exist only inside their handler, and a host thread owns the buffer it stores),
`FrameWanted`, `Forgotten` (only a surface that is being forgotten is on the overlay and
no longer in the table), `InOrder` (along screen, overlay, local copy and table the
number of a key never decreases) and `Counted`. The count is an arithmetic fact of each
action: writing one entry changes the number of entries that hold a buffer by what goes
and what comes (`HoldingExcept`). The refinement needs `InOrder` alone: each step leaves
both `bound` and `shown` alone, or is a `Bind`, a `Retire` or a `Refresh`. The end of the
process (`EmbedInvEnds`) is apart from all other steps: it retires every binding.

*Only model-checked.* `ShowDesktopIsUndone` follows the loop over `server.views`, a fold
whose result is an induction over the list. `NaturalComesBack` is not proved. It would take
an invariant that relates the history `home` to the size each axis goes back to: the
natural one in a drag or where the axis is not free, the pending one elsewhere. TLC
confirms that on the configuration of the run, with the natural and the pending size
empty along both axes or neither. But two corners keep it from being inductive. A maximized
window that has a size, but no last placement and no output in use, has changed its state
without its geometry: for it the natural, pending and current sizes must be shown equal. And
`view_move_to_edge()` in a drag leaves a floating window with the size of its tile, which
fullscreen then stores; that the run leaves this out (`Known`) would become a premise.
Liveness (`LockGetsKeyboard`, `WaitingEnds`, `RequestsEnd`, `AckedIsShown`,
`StopEndsRun`) and what depends on ENABLED stay with TLC for good, and so does what the
inductive set in `Ancestors` computes: the proofs use no more of it than that a family
consists of views and that its members agree on it.

## 6. Plan

What the models leave open, in the order in which it would add most:

1. `NaturalComesBack` of `ViewGeometry`, proved along the lines of section 5.
2. The grab of the keyboard by an input method, in `KeyState`; popup grabs, in `Desktop`
   and `Layers`; then Xwayland's focus models.
3. Snapping to edges (`snap-constraints.c`) and the cache of scaled buffers.

## 7. Reading a model beside the code

`PROJECT.json` maps each definition to a file, its lines and its C name; most
definitions bear the name of the function they translate (`FocusOverrideBegin` is
`seat_focus_override_begin()`, `ViewMinimize` is `view_minimize()`). Names with primes
in properties refer to the state after one handler has run completely; in `Embed`, after
one step of a thread.

## 8. What is not modelled

- *Drawing*: rendering, scene graph, decorations, theme, icons, fonts, the switcher's
  OSD, scaled buffers, the magnifier. They have no control state that other parts depend
  on. Most lines of the repository are wlroots' renderers, backends and scene, vendored.
- *wlroots* is modelled only where the code relies on it: the configure list of an
  `xdg_surface`, the focus-change event, the order of destruction of a session lock and
  of layer surfaces, the keys of an enter event, the serials of an input method, the
  event loop and the Android backend under `embed.c`.
- *Xwayland*: a protocol of its own, with events from two sockets and override-redirect
  windows that would double the focus rules.
- *Configuration*: parsing and defaults. What a reload does to workspaces, regions,
  keybinds, menus and focus is modelled.
- *Pixels*: placement policies, snapping distances, resistance, struts, gaps, the
  arrangement of layer surfaces and of outputs, where in an output a popup fits.
- *Devices*: touch, tablet, gestures and drag and drop beyond what the seat sees of
  them; modes and adaptive sync of outputs; several keyboards and layouts.
- *Processes and glue*: start, signals and reaping of children, foreign-toplevel
  publishing, window rules, idle inhibition, and the client `labnag`.
- *Finer parts* of modelled components are named in `PROJECT.json` with each component.

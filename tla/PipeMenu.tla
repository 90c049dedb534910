------------------------------ MODULE PipeMenu ------------------------------
(***************************************************************************)
(* The tree of open menus and the pipe menus in it (src/menu/menu.c).      *)
(*                                                                         *)
(* The items of a pipe menu are the output of a program that is started    *)
(* when the menu is selected, and they are kept until the whole tree is    *)
(* closed.  The output may bring menus of its own, pipe menus again.  One  *)
(* flag, waiting_for_pipe_menu, says that some program still runs: as long *)
(* as it is set, selecting items is ignored, and menus that are created    *)
(* count as the children of a pipe menu.                                   *)
(*                                                                         *)
(* An item is a pair of its menu and of what it opens: a menu, or nothing  *)
(* (Plain), or it cannot be selected (Separator).  validate() removes the  *)
(* ShowMenu actions of items, but not those in the branches of If and      *)
(* ForEach, so that the actions of an item may open a menu.                *)
(***************************************************************************)
EXTENDS Null

CONSTANTS
    Static,     \* the menus of menu.xml
    Children,   \* the menus that the output of programs may define
    Pipes,      \* those of both that have an `execute'
    Submenus,   \* for each menu that is not a pipe menu, those its items open
    Outputs,    \* for each pipe menu, the sets of menus its program may list
    Plain, Separator

Menus == Static \cup Children

\* The menus that the items of a menu may open
Opens(m) == IF m \in Pipes THEN UNION Outputs[m] ELSE Submenus[m]

\* fill_menu(): an item opens a menu that is defined inside of its own, or links
\* to one that was defined before.  It links neither to a menu it is in, nor from
\* the output of a program: menus do not open one another in a circle.
ASSUME PipeMenuAssumption ==
    /\ Static \cap Children = {}
    /\ Pipes \subseteq Menus
    /\ Submenus \in [Menus \ Pipes -> SUBSET Menus]
    /\ Outputs \in [Pipes -> SUBSET SUBSET Children]
    /\ \A m \in Menus \ Pipes :
          Submenus[m] \subseteq IF m \in Static THEN Static ELSE Children
    /\ \A M \in SUBSET Menus : M # {} => \E m \in M : Opens(m) \cap M = {}
    /\ {Plain, Separator, None} \cap Menus = {} /\ Plain # Separator

VARIABLE menu

MenuState ==
    [ current   : Menus \cup {None},            \* server.menu_current
      menus     : SUBSET Menus,                 \* server.menus
      children  : SUBSET Menus,                 \* is_pipemenu_child
      items     : [Menus -> SUBSET Menus],      \* the submenus of its items
      selection : [Menus -> Menus \cup {None}], \* selection.menu
      scene     : SUBSET Menus,                 \* scene_tree # NULL, ...
      shown     : SUBSET Menus,                 \* ... and enabled
      pipe_ctx  : SUBSET Menus,                 \* pipe_ctx # NULL
      waiting   : BOOLEAN,                      \* waiting_for_pipe_menu
      selected  : (Menus \X (Menus \cup {Plain, Separator})) \cup {None},
      broken    : BOOLEAN ]                     \* an assertion failed, or freed
                                                \* memory was used

\* menu_init(): the items of pipe menus are to come.
Initial ==
    [ current   |-> None,
      menus     |-> Static,
      children  |-> {},
      items     |-> [ m \in Menus |->
                         IF m \in Static \ Pipes THEN Submenus[m] ELSE {} ],
      selection |-> [ m \in Menus |-> None ],
      scene     |-> {},
      shown     |-> {},
      pipe_ctx  |-> {},
      waiting   |-> FALSE,
      selected  |-> None,
      broken    |-> FALSE ]

MenuInit == menu = Initial

----------------------------------------------------------------------------
(* Closing *)

\* A menu and the submenus that are open below it.
Chain(s, m) ==
    { x \in Menus :
        \A C \in SUBSET Menus :
            (m \in C /\ \A c \in C : s.selection[c] \in C \cup {None}) => x \in C }

\* Mutation: the programs of closed menus run on.
CloseOnly(s, m) ==
    LET closed == Chain(s, m)
    IN  [s EXCEPT !.shown = @ \ closed,
                  !.selection = [ x \in Menus |->
                                     IF x \in closed THEN None ELSE @[x] ]]

\* _close(), which ends the programs that are awaited for these menus
Close(s, m) ==
    LET closed == Chain(s, m)
    IN  [s EXCEPT !.shown = @ \ closed,
                  !.selection = [ x \in Menus |->
                                     IF x \in closed THEN None ELSE @[x] ],
                  !.pipe_ctx = @ \ closed,
                  !.waiting = IF closed \cap s.pipe_ctx # {} THEN FALSE ELSE @]

\* menu_free() of each child of a pipe menu
FreeChildren(s) ==
    [s EXCEPT !.menus = @ \ s.children,
              !.children = {},
              !.items = [ m \in Menus |-> IF m \in s.children
                                          THEN {} ELSE @[m] \ s.children ],
              !.selection = [ m \in Menus |-> IF @[m] \in s.children
                                              THEN None ELSE @[m] ],
              !.scene = @ \ s.children,
              !.shown = @ \ s.children,
              !.pipe_ctx = @ \ s.children,
              !.waiting = IF s.children \cap s.pipe_ctx # {} THEN FALSE ELSE @]

\* reset_pipemenus(), with reset_menu() of each pipe menu
ResetPipemenus(s) ==
    [FreeChildren(s) EXCEPT
        !.items = [ m \in Menus |-> IF m \in Pipes THEN {} ELSE @[m] ],
        !.scene = @ \ Pipes,
        !.shown = @ \ Pipes]

----------------------------------------------------------------------------
(* Opening *)

\* open_menu()
OpenMenu(s, m) == [s EXCEPT !.scene = @ \cup {m}, !.shown = @ \cup {m}]

\* open_pipemenu_async(), when the program could be started
OpenPipemenu(s, m) == [s EXCEPT !.pipe_ctx = @ \cup {m}, !.waiting = TRUE]

\* The states after a menu is opened; the start of a program may fail.
Opened(s, m) ==
    IF m \in Pipes \ s.scene THEN {s, OpenPipemenu(s, m)} ELSE {OpenMenu(s, m)}

\* pipemenu_ctx_destroy()
DestroyContext(s, m) == [s EXCEPT !.pipe_ctx = @ \ {m}, !.waiting = FALSE]

----------------------------------------------------------------------------
(* Handlers *)

\* menu_open_root(): the states after a menu is opened as the root of a tree
RootOpened(s, m) ==
    { [u EXCEPT !.current = m, !.selected = None] :
        u \in IF m \in Pipes THEN {s, OpenPipemenu(s, m)} ELSE {OpenMenu(s, m)} }

\* ... only in passthrough mode, that is, with no menu open
OpenRoot(m) ==
    /\ ~menu.broken
    /\ m \in menu.menus
    /\ menu.current = None
    /\ menu' \in RootOpened(menu, m)

\* menu_process_item_selection(), by the pointer or by a key
ProcessItemSelection(m, t) ==
    /\ m \in menu.shown
    /\ t \in menu.items[m] \cup {Plain, Separator}
    /\ menu.selected # <<m, t>>
    /\ ~menu.waiting
    /\ LET s == [menu EXCEPT !.selected = <<m, t>>]
           closed == IF s.selection[m] = None THEN s ELSE Close(s, s.selection[m])
       IN  IF t = Separator
           THEN menu' = s
           ELSE \E u \in IF t = Plain THEN {closed} ELSE Opened(closed, t) :
                   menu' = [u EXCEPT !.selection[m] = IF t = Plain THEN None ELSE t]

\* fill_menu(): the menus that are created for those listed in an output, with
\* those inside of its inline menus
Created(listed) ==
    { x \in Children :
        \A C \in SUBSET Children :
            (listed \subseteq C /\ \A c \in C \ Pipes : Submenus[c] \subseteq C) => x \in C }

\* Mutation: the context goes first, so that the flag is not set while parsing.
ReadOutputLate(m, listed) ==
    /\ m \in menu.pipe_ctx
    /\ LET s == [menu EXCEPT
                    !.menus = @ \cup Created(listed),
                    !.items = [ x \in Menus |->
                        CASE x = m                         -> listed
                          [] x # m
                             /\ x \in Created(listed) \ Pipes -> Submenus[x]
                          [] OTHER                         -> @[x] ]]
       IN  menu' = OpenMenu(DestroyContext(s, m), m)

\* handle_pipemenu_readable() at the end of an output that can be parsed, which
\* is parsed and shown before the context goes
ReadOutput(m, listed) ==
    /\ m \in menu.pipe_ctx
    /\ LET s == [menu EXCEPT
                    !.menus = @ \cup Created(listed),
                    !.children = IF menu.waiting THEN @ \cup Created(listed) ELSE @,
                    !.items = [ x \in Menus |->
                        CASE x = m                         -> listed
                          [] x # m
                             /\ x \in Created(listed) \ Pipes -> Submenus[x]
                          [] OTHER                         -> @[x] ]]
       IN  menu' = DestroyContext(OpenMenu(s, m), m)

\* ... of a read error, of too much output, or of an output that is no menu
ReadGarbage(m) ==
    /\ m \in menu.pipe_ctx
    /\ menu' = DestroyContext(menu, m)

\* Mutation: the program is killed, and the rest left to the end of its output.
TimeoutKills(m) == m \in menu.pipe_ctx /\ menu' = menu

\* handle_pipemenu_timeout()
Timeout(m) ==
    /\ m \in menu.pipe_ctx
    /\ menu' = DestroyContext(menu, m)

\* menu_close_root(): Escape, a click elsewhere, or the view of the menu goes.
CloseRoot ==
    /\ menu.current # None
    /\ menu' = ResetPipemenus([Close(menu, menu.current) EXCEPT !.current = None])

\* The process cannot go on; nothing follows.
Broken == [Initial EXCEPT !.broken = TRUE]

(***************************************************************************)
(* menu_execute_item(): the pipe menus are reset after the actions of the  *)
(* item have run.  These may show a menu.  A menu that a program wrote is  *)
(* then freed by the reset while it is open, and once more by the closing  *)
(* of its tree.  For a pipe menu that was shown before,                    *)
(* "assert(!pipemenu->scene_tree)" fails, if it is compiled in.            *)
(***************************************************************************)
ExecuteItem ==
    LET closed == [Close(menu, menu.current) EXCEPT !.current = None]
    IN  /\ menu.shown # {}
        /\ \/ menu' = ResetPipemenus(closed)
           \/ \E m \in Static : \E s \in RootOpened(closed, m) : menu' = ResetPipemenus(s)
           \/ /\ closed.children \cup (closed.scene \cap Pipes) # {}
              /\ menu' = Broken

\* menu_reconfigure(): all menus are freed and read again.
Reconfigure ==
    /\ ~menu.broken
    /\ menu' = [Initial EXCEPT !.selected = menu.selected]

MenuNext ==
    \/ \E m \in Menus : OpenRoot(m)
    \/ \E m \in Menus, t \in Menus \cup {Plain, Separator} : ProcessItemSelection(m, t)
    \/ \E m \in Pipes : \/ \E listed \in Outputs[m] : ReadOutput(m, listed)
                        \/ ReadGarbage(m)
                        \/ Timeout(m)
    \/ CloseRoot
    \/ ExecuteItem
    \/ Reconfigure

\* The event loop serves a timer that has expired.
MenuFairness == \A m \in Pipes : WF_menu(Timeout(m))

MenuSpec == MenuInit /\ [][MenuNext]_menu /\ MenuFairness

----------------------------------------------------------------------------
(* Properties *)

\* The fields are of their C types; menus that are not in server.menus are used
\* nowhere.
MenuTypeOK ==
    /\ menu \in MenuState
    /\ LET used == menu.children \cup menu.scene \cup menu.pipe_ctx
                      \cup (UNION { menu.items[m] : m \in Menus })
                      \cup { menu.selection[m] : m \in Menus } \cup {menu.current}
       IN  used \subseteq menu.menus \cup {None}
    /\ menu.shown \subseteq menu.scene

(***************************************************************************)
(* One flag stands for all programs: it is set exactly when one program is *)
(* awaited, and that is for a menu of the tree that is open, so that no    *)
(* output is shown for a menu that was left or closed in the meantime.     *)
(***************************************************************************)
OpenTree == IF menu.current = None THEN {} ELSE Chain(menu, menu.current)

WaitingHasOwner ==
    /\ menu.waiting <=> menu.pipe_ctx # {}
    /\ \A m, n \in menu.pipe_ctx : m = n
    /\ menu.pipe_ctx \subseteq OpenTree

(***************************************************************************)
(* _close(): a menu is on the screen only while it is part of the tree that*)
(* is open, whichever items were selected before, from whichever parent the*)
(* menu was opened.                                                        *)
(***************************************************************************)
ShownIsOpen == menu.shown \subseteq OpenTree

(***************************************************************************)
(* reset_pipemenus(): once the tree is closed nothing that a program wrote *)
(* is left, neither its menus nor items that point to them, so that it is  *)
(* asked again the next time.                                              *)
(***************************************************************************)
NothingIsLeft ==
    menu.current = None =>
        /\ menu.menus = Static
        /\ \A m \in Pipes : menu.items[m] = {}

\* A program that is awaited writes for a menu that shows nothing of an earlier
\* one, also when the menu was opened by an item's actions before the reset.
StartsFresh ==
    \A m \in menu.pipe_ctx : m \notin menu.scene /\ menu.items[m] = {}

\* A program that never ends does not block the menus for ever.
WaitingEnds == menu.waiting ~> ~menu.waiting

\* The program that is awaited writes for a menu that exists and is open.
OneIsAwaited == MenuTypeOK /\ WaitingHasOwner

\* Only the open tree counts, as long as the process goes on: nothing else is shown,
\* nothing is left of it when it is closed, and programs write for empty menus.
OnlyTheOpenTree == ShownIsOpen /\ NothingIsLeft /\ StartsFresh
=============================================================================

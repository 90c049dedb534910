----------------------------- MODULE MCPipeMenu -----------------------------
(***************************************************************************)
(* A root menu with a pipe menu, and with a submenu and another pipe menu  *)
(* that both of them open; its program lists an inline menu, a pipe menu,  *)
(* both or none; the inline menu has a pipe menu, and that of the pipe menu*)
(* may list a menu.                                                        *)
(***************************************************************************)
EXTENDS PipeMenu, TLC

CONSTANTS root, sub, pipe, apps, inline, nested, deep, leaf

MCSubmenus ==
    root :> {sub, pipe, apps} @@ sub :> {pipe} @@ inline :> {deep} @@ leaf :> {}

MCOutputs ==
    pipe :> SUBSET {inline, nested} @@ nested :> {{}, {leaf}} @@ deep :> {{}}
        @@ apps :> {{}}
=============================================================================

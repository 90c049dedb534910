--------------------------- MODULE MCViewGeometry ---------------------------
(* Two outputs that keep their order.  Of each axis only the horizontal one *)
(* is resized with the pointer, no more so once a key has snapped the window*)
(* or made it special otherwise (interactive.c:336), and the user waits for *)
(* the client's answer except in a drag, in which nothing else resizes it.  *)
EXTENDS ViewGeometry

CONSTANT First  \* of the two outputs, the left one

MCLayouts ==
    { at \in Layout :
        \A o \in In(at) : at[o] = IF o = First \/ at[First] = 0 THEN 1 ELSE 2 }

Known(size) == size.h \in Widths \cup {"0"} /\ size.v \in Heights \cup {"0"}

\* Left out are what gives a window that is not floating a size of its own,
\* and a window of unknown size that is maximized along one axis.
MCUserStep ==
    /\ Plugged(server) # {}
    /\ \/ Motion /\ (server.input_mode = "resize" => Free(server, "h"))
       \/ Finish
       \/ /\ ~server.awaiting
          /\ \/ StateStep
             \/ Floating(server) /\ Moves
             \/ /\ server.input_mode = "passthrough"
                /\ ResizesRelative \/ (Floating(server) /\ Resizes)
    /\ Known(server'.natural)
    /\ Cardinality(server'.maximized) = 1 => ~Empty(server'.natural)
    /\ server'.axes \in {{}, {"h"}}

MCNext ==
    \/ MCUserStep
    \/ Plugged(server) # {} /\ Commits
    \/ server.input_mode = "passthrough" /\ Plugged(server) # {} /\ ResizesItself
    \/ server.input_mode = "passthrough" /\ LayoutStep

MCSpec == GeometryInit /\ [][MCNext]_geometryVars
=============================================================================

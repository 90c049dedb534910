--------------------------- MODULE MCXdgConfigure ---------------------------
(***************************************************************************)
(* The configure handshake with a client that answers in time and as it is *)
(* asked, or with one that may not.  Resizing by the left edge is for the  *)
(* first, as a client that also resizes itself can carry its window off    *)
(* for ever; it keeps its window mapped, and the natural size is known     *)
(* when it is unmaximized.                                                 *)
(***************************************************************************)
EXTENDS XdgConfigure

CONSTANT LateSerial     \* bound: the configures for the second client

MCBoth ==
    \/ \E x \in Xs, w \in Widths : MoveResize([ x |-> x, w |-> w ])
    \/ \E b \in BOOLEAN : InitialCommit(b)
    \/ \E i \in 1..MaxSerial : AckConfigure(i)
    \/ Restate
    \/ SetDecorationMode
    \/ SendConfigure
    \/ ClientCommits
    \/ CommitNothing
    \/ Destroy

MCInTime ==
    \/ \E b \in BOOLEAN : (b \/ win.natural.w > 0) /\ Maximize(b)
    \/ ResizeBegin
    \/ \E w \in Widths : ResizeMotion(w)
    \/ ResizeEnd

MCLate ==
    \/ \E b \in BOOLEAN : Maximize(b) \/ Unmap(b)
    \/ ConfigureTimeout

MCNext ==
    \/ win.obedient /\ (MCBoth \/ MCInTime)
    \/ ~win.obedient /\ (MCBoth \/ MCLate) /\ win'.scheduled.serial <= LateSerial

MCSpec == XdgInit /\ [][MCNext]_win /\ XdgFairness
=============================================================================

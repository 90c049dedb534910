--------------------------- MODULE MCSessionLock ---------------------------
(***************************************************************************)
(* The session lock over few of the desktop's handlers: those that change  *)
(* who has the keyboard, or who should have it after unlocking.            *)
(***************************************************************************)
EXTENDS SessionLock, TLC

MCBehind ==
    /\ \/ \E v \in Views :
             NewToplevel(v) \/ Map(v) \/ Unmap(v) \/ FocusAction(v) \/ Destroy(v)
       \/ \E w \in Workspaces : GoToDesktop(w)
       \/ OpenMenu
       \/ CloseMenu
    /\ UNCHANGED lock

MCSpec ==
    /\ LockInit
    /\ [][~lock.broken /\ (LockStep \/ MCBehind)]_lockVars
    /\ LockFairness
=============================================================================

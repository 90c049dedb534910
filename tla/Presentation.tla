---------------------------- MODULE Presentation ----------------------------
(***************************************************************************)
(* What the embedded compositor promises about the GPU buffers handed to   *)
(* it: the n-th buffer presented under a key is bound to that key, and     *)
(* what the screen shows for a key is never older than what it showed      *)
(* before, never newer than what is bound, and nothing at all for a key    *)
(* that is no longer bound.                                                *)
(***************************************************************************)
EXTENDS Naturals

CONSTANT Keys       \* what a buffer can be presented for: the screen, a view, a surface

VARIABLES
    bound,          \* [Keys -> Nat]: number of the buffer bound to the key, 0 for none
    shown           \* [Keys -> Nat]: number of the buffer on the screen, 0 for none

Init ==
    /\ bound = [k \in Keys |-> 0]
    /\ shown = [k \in Keys |-> 0]

Bind(k) ==
    /\ bound'[k] \in Nat /\ bound'[k] > bound[k]
    /\ bound' = [bound EXCEPT ![k] = bound'[k]]
    /\ UNCHANGED shown

Retire(ks) ==
    /\ bound' = [k \in Keys |-> IF k \in ks THEN 0 ELSE bound[k]]
    /\ UNCHANGED shown

Refresh ==
    /\ shown' \in [Keys -> Nat]
    /\ \A k \in Keys : shown'[k] # 0 => shown'[k] \in shown[k] .. bound[k]
    /\ UNCHANGED bound

Next ==
    \/ \E k \in Keys : Bind(k)
    \/ \E ks \in SUBSET Keys : Retire(ks)
    \/ Refresh

Spec == Init /\ [][Next]_<<bound, shown>>
=============================================================================

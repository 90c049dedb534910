----------------------------- MODULE EmbedProofs ----------------------------
(***************************************************************************)
(* For any number of threads, surfaces, windows and buffers: references to *)
(* buffers are counted exactly, no dead surface stays bound, the backend is*)
(* there when the overlay is handed to it, and Embed implements            *)
(* Presentation.                                                           *)
(*                                                                         *)
(* None of them is inductive alone.  The count needs that a retired binding*)
(* and a local copy exist only inside their handlers (InHandlers); that the*)
(* screen never goes back needs the order of the four places a binding is  *)
(* found in (InOrder), which in turn needs that only a surface being       *)
(* forgotten is on the overlay and no longer in the table (Forgotten).     *)
(***************************************************************************)
EXTENDS Embed, FiniteSetTheorems, TLAPS

InHandlers ==
    /\ comp.pc = "retired" <=> comp.retired # None
    /\ comp.pc # "present" => local = Nothing
    /\ comp.pc \notin {"display", "close", "release", "clear", "off", "crashed"} => backend
    /\ comp.pc \in {"display", "close", "release", "clear", "off", "crashed"} => overlay = Nothing
    /\ comp.pc = "draw" => comp.after = "draw"
    /\ \A t \in Threads : host[t].pc # "idle" => host[t].buf \in owned

\* A frame that is wanted is due, or being handled.
FrameWanted ==
    needsFrame # "no" =>
        \/ frameDue
        \/ comp.pc \in {"sync", "present", "draw"} /\ comp.after = "draw"

\* gpu_overlay_forget_surface has removed a binding and not synced the overlay.
Forgetting ==
    \/ comp.pc = "retired"
    \/ comp.pc \in {"sync", "present"} /\ comp.after = "send"

Forgotten ==
    \A s \in Surfaces \ live :
        /\ table[s] = Empty /\ local[s] = Empty
        /\ overlay[s] = Empty \/ Forgetting

\* In the order screen, overlay, local copy, table a binding never gets older; the
\* overlay holds none that is not in the table, but for a surface being forgotten.
InOrderAt(k) ==
  /\ table[k].buf = None <=> table[k].n = 0
  /\ table[k].n = 0 => table[k] = Empty
  /\ local[k].n = 0 => local[k] = Empty
  /\ overlay[k].n = 0 => overlay[k] = Empty
  /\ shown[k] <= stored[k] /\ table[k].n <= stored[k]
  /\ local[k].n <= stored[k] /\ overlay[k].n <= stored[k]
  /\ table[k].n # 0 => /\ shown[k] <= table[k].n
                       /\ local[k].n <= table[k].n /\ overlay[k].n <= table[k].n
  /\ local[k].n # 0 => /\ shown[k] <= local[k].n /\ overlay[k].n <= local[k].n
                       /\ table[k].n # 0
  /\ overlay[k].n # 0 => /\ shown[k] <= overlay[k].n
                         /\ table[k].n # 0 \/ k \in Surfaces \ live

InOrder == \A k \in Keys : InOrderAt(k)

Counted == refs \in [Buffers -> Int] /\ RefsAreCounted

EmbedInv == Shape /\ InHandlers /\ FrameWanted /\ Forgotten /\ InOrder /\ Counted
-----------------------------------------------------------------------------
(* Counting *)

\* A table has finitely many entries that hold a buffer.
LEMMA HoldingFinite ==
  ASSUME NEW f, NEW b
  PROVE IsFiniteSet(Holding(f, b)) /\ Cardinality(Holding(f, b)) \in Nat
<1>1. IsFiniteSet(Keys)
  <2>1. IsFiniteSet(HostKeys) BY EmbedAssumption, FS_AddElement DEF HostKeys
  <2> QED BY <2>1, EmbedAssumption, FS_Union DEF Keys
<1>2. Holding(f, b) \in SUBSET Keys BY DEF Holding
<1> QED BY <1>1, <1>2, FS_Subset, FS_CardinalityType

\* The empty table holds nothing.
LEMMA HoldingNothing ==
  ASSUME NEW b \in Buffers PROVE Cardinality(Holding(Nothing, b)) = 0
<1>1. Holding(Nothing, b) = {} BY EmbedAssumption DEF Holding, Nothing, Empty
<1> QED BY <1>1, FS_EmptySet

\* Writing one entry of a table changes the count by what goes and what comes.
LEMMA HoldingExcept ==
  ASSUME NEW f, NEW g, NEW k \in Keys, NEW e, NEW b,
         g[k] = e, \A j \in Keys \ {k} : g[j] = f[j]
  PROVE Cardinality(Holding(g, b)) =
          Cardinality(Holding(f, b)) + (IF e.buf = b THEN 1 ELSE 0)
                                     - (IF f[k].buf = b THEN 1 ELSE 0)
<1> DEFINE H == Holding(f, b)
<1>0. IsFiniteSet(H) /\ Cardinality(H) \in Nat BY HoldingFinite
<1>1. Holding(g, b) = IF e.buf = b THEN H \cup {k} ELSE H \ {k}
  BY DEF Holding
<1>2. k \in H <=> f[k].buf = b BY DEF Holding
<1>3. CASE e.buf = b
  <2>1. Holding(g, b) = H \cup {k} BY <1>1, <1>3
  <2>2. Cardinality(H \cup {k}) = IF k \in H THEN Cardinality(H) ELSE Cardinality(H) + 1
    BY <1>0, FS_AddElement
  <2>3. Cardinality(Holding(g, b)) = Cardinality(H \cup {k}) BY <2>1
  <2> QED BY <1>0, <1>2, <1>3, <2>2, <2>3
<1>4. CASE e.buf # b
  <2>1. Holding(g, b) = H \ {k} BY <1>1, <1>4
  <2>2. Cardinality(H \ {k}) = IF k \in H THEN Cardinality(H) - 1 ELSE Cardinality(H)
    BY <1>0, FS_RemoveElement
  <2>3. Cardinality(Holding(g, b)) = Cardinality(H \ {k}) BY <2>1
  <2> QED BY <1>0, <1>2, <1>4, <2>2, <2>3
<1> QED BY <1>3, <1>4
-----------------------------------------------------------------------------
(* Types, in three parts: the tables, the compositor thread, the rest. *)

CompType == [pc : CompSteps, after : {"draw", "send"}, retired : Buffers \cup {None},
             down : BOOLEAN]
TableShape == table \in [Keys -> Entry] /\ local \in [Keys -> Entry] /\ overlay \in [Keys -> Entry]
CompShape == comp \in CompType
HistoryShape == stored \in [Keys -> Nat] /\ acked \in [Keys -> Nat] /\ shown \in [Keys -> Nat]
HostShape == host \in [Threads -> [pc : {"idle", "store", "send"}, key : HostKeys,
                                   buf : Buffers \cup {None}, n : Nat]]
PipeShape == pipe \in Seq({"redraw", "input"})
FlagShape ==
  /\ needsFrame \in {"no", "asked", "damaged"} /\ frameDue \in BOOLEAN
  /\ mapped \subseteq live /\ live \subseteq Surfaces /\ backend \in BOOLEAN
  /\ android \in BOOLEAN /\ inputWr \in {"open", "closed", "stdin"} /\ stop \in BOOLEAN
  /\ owned \subseteq Buffers /\ runs \in Nat

LEMMA ShapeParts ==
  /\ Shape <=> /\ TableShape /\ CompShape /\ HistoryShape /\ HostShape /\ PipeShape /\ FlagShape
  /\ Shape' <=> /\ TableShape' /\ CompShape' /\ HistoryShape' /\ HostShape' /\ PipeShape'
                /\ FlagShape'
BY DEF Shape, TableShape, CompShape, CompType, HistoryShape, HostShape, PipeShape, FlagShape

\* Storing a binding keeps the types.
LEMMA StoreShape ==
  ASSUME Shape, NEW k \in Keys, NEW b \in Buffers, gpu_bind_store(k, b)
  PROVE table' \in [Keys -> Entry] /\ stored' \in [Keys -> Nat]
  BY DEF Shape, gpu_bind_store, Entry

\* What a thread of the host stores is a buffer, under a key.
LEMMA HostStores ==
  ASSUME EmbedInv, NEW t \in Threads, HostStore(t)
  PROVE /\ host[t].key \in HostKeys /\ host[t].key \in Keys /\ host[t].buf \in Buffers
        /\ host[t].buf \in owned
        /\ stored[host[t].key] + 1 \in Nat
<1>1. HostShape /\ FlagShape /\ HistoryShape /\ InHandlers /\ host[t].pc = "store"
  BY ShapeParts DEF EmbedInv, HostStore
<1>2. host[t].key \in HostKeys BY <1>1 DEF HostShape
<1>3. host[t].buf \in owned BY <1>1 DEF InHandlers
<1> QED BY <1>1, <1>2, <1>3 DEF FlagShape, HistoryShape, Keys

\* The empty entry and table, an idle thread, and the numbers of a table.
LEMMA Typed ==
  /\ Empty \in Entry /\ Nothing \in [Keys -> Entry]
  /\ Idle \in [pc : {"idle", "store", "send"}, key : HostKeys, buf : Buffers \cup {None}, n : Nat]
  /\ \A f \in [Keys -> Entry] : Numbers(f) \in [Keys -> Nat]
BY DEF Empty, Nothing, Entry, Idle, HostKeys, Numbers

LEMMA TableStep == ASSUME EmbedInv, Next, ~ProcessEnds PROVE TableShape'
<1>1. Shape /\ TableShape BY ShapeParts DEF EmbedInv
<1>2. ASSUME NEW t \in Threads, HostStore(t) PROVE TableShape'
  <2>1. table' \in [Keys -> Entry] \/ UNCHANGED table
    BY <1>1, <1>2, HostStores, StoreShape DEF HostStore
  <2> QED BY <1>1, <1>2, <2>1 DEF HostStore, TableShape
<1>3. ASSUME NEW s \in Surfaces, NEW b \in Buffers, SurfaceCommit(s, b) PROVE TableShape'
  <2>1. table' \in [Keys -> Entry] BY <1>1, <1>3, StoreShape DEF SurfaceCommit, Keys
  <2> QED BY <1>1, <1>3, <2>1 DEF SurfaceCommit, TableShape
<1>4. ASSUME NEW s \in Surfaces, SurfaceDestroy(s) PROVE TableShape'
  BY <1>1, <1>4, Typed DEF SurfaceDestroy, TableShape
<1>5. ASSUME SyncCopy \/ DestroyBackend \/ ReleaseTable PROVE TableShape'
  BY <1>1, <1>5, Typed DEF SyncCopy, DestroyBackend, ReleaseTable, TableShape
<1>6. ASSUME SyncPresent PROVE TableShape'
  <2>1. [k \in Keys |-> IF Resolves(k) THEN local[k] ELSE Empty] \in [Keys -> Entry]
    BY <1>1, Typed DEF TableShape
  <2> QED BY <1>1, <1>6, <2>1, Typed DEF SyncPresent, TableShape
<1>7. CASE UNCHANGED <<table, local, overlay>>
  BY <1>1, <1>7 DEF TableShape
<1> QED BY <1>2, <1>3, <1>4, <1>5, <1>6, <1>7
        DEF Next, HostCall, Client, Compositor, Produce, Disown, HostPresent, HostSend, HostInput,
            RequestStop, Dispatch, Damage, Frame, Draw, OutputCommit, Reapply, NewSurface, MapView, UnmapView,
            ReleaseRetired, Send, Run, EnterLoop, Quit, DestroyDisplay, CloseInput, ClearServer

LEMMA CompStep == ASSUME EmbedInv, Next, ~ProcessEnds PROVE CompShape'
<1>1. comp \in CompType BY ShapeParts DEF EmbedInv, CompShape
<1>2. \A pc \in CompSteps : [comp EXCEPT !.pc = pc] \in CompType BY <1>1 DEF CompType
<1>3. comp.after \in CompSteps /\ Home \in CompSteps BY <1>1 DEF CompType, CompSteps, Home
<1>4. ASSUME NEW s \in Surfaces, SurfaceDestroy(s) PROVE CompShape'
  <2>1. table[s].buf \in Buffers \cup {None} BY ShapeParts DEF EmbedInv, TableShape, Entry, Keys
  <2>2. [comp EXCEPT !.pc = "retired", !.retired = table[s].buf] \in CompType
    BY <1>1, <2>1 DEF CompType, CompSteps
  <2> QED BY <1>1, <1>4, <2>2 DEF SurfaceDestroy, CompShape
<1>5. ASSUME Frame \/ ReleaseRetired \/ Quit \/ Run \/ ClearServer PROVE CompShape'
  <2>1. /\ [comp EXCEPT !.pc = "sync", !.after = "draw"] \in CompType
        /\ [comp EXCEPT !.pc = "sync", !.after = "send", !.retired = None] \in CompType
        /\ [comp EXCEPT !.pc = "teardown", !.down = TRUE] \in CompType
        /\ [comp EXCEPT !.pc = "off", !.down = FALSE] \in CompType
        /\ [comp EXCEPT !.pc = "setup"] \in CompType
    BY <1>1 DEF CompType, CompSteps
  <2> QED BY <1>1, <1>5, <2>1
          DEF Frame, ReleaseRetired, Quit, Run, ClearServer, CompShape
<1>6. ASSUME \E pc \in CompSteps : Goto(pc) PROVE CompShape'
  BY <1>2, <1>6 DEF Goto, CompShape
<1>7. CASE UNCHANGED comp BY <1>1, <1>7 DEF CompShape
<1>8. EnterLoop \/ SyncCopy \/ SyncPresent \/ Draw \/ Send \/ DestroyBackend \/ DestroyDisplay \/ CloseInput
      \/ ReleaseTable \/ (\E s \in Surfaces, b \in Buffers : SurfaceCommit(s, b))
      => \E pc \in CompSteps : Goto(pc)
  BY <1>3 DEF EnterLoop, SyncCopy, SyncPresent, Draw, Send, DestroyBackend, DestroyDisplay,
              CloseInput, ReleaseTable, SurfaceCommit, CompSteps
<1> QED BY <1>4, <1>5, <1>6, <1>7, <1>8
        DEF Next, HostCall, Client, Compositor, Produce, Disown, HostPresent, HostStore, HostSend,
            HostInput, RequestStop, Dispatch, Damage, OutputCommit, Reapply, NewSurface, MapView,
            UnmapView

LEMMA HistoryStep == ASSUME EmbedInv, Next, ~ProcessEnds PROVE HistoryShape'
<1>1. Shape /\ TableShape /\ HistoryShape /\ HostShape BY ShapeParts DEF EmbedInv
<1>2. ASSUME NEW t \in Threads, HostStore(t) PROVE HistoryShape'
  <2>1. stored' \in [Keys -> Nat] \/ UNCHANGED stored
    BY <1>1, <1>2, HostStores, StoreShape DEF HostStore
  <2> QED BY <1>1, <1>2, <2>1 DEF HostStore, HistoryShape
<1>3. ASSUME NEW s \in Surfaces, NEW b \in Buffers, SurfaceCommit(s, b) PROVE HistoryShape'
  <2>1. stored' \in [Keys -> Nat] BY <1>1, <1>3, StoreShape DEF SurfaceCommit, Keys
  <2> QED BY <1>1, <1>3, <2>1 DEF SurfaceCommit, HistoryShape
<1>4. ASSUME NEW t \in Threads, HostSend(t) PROVE HistoryShape'
  <2>1. host[t].n \in Nat BY <1>1 DEF HostShape
  <2>2. [acked EXCEPT ![host[t].key] = host[t].n] \in [Keys -> Nat]
    BY <1>1, <2>1 DEF HistoryShape
  <2> QED BY <1>1, <1>4, <2>2 DEF HostSend, HistoryShape
<1>5. ASSUME Draw \/ OutputCommit PROVE HistoryShape'
  <2>1. Numbers(overlay) \in [Keys -> Nat] BY <1>1, Typed DEF TableShape
  <2> QED BY <1>1, <1>5, <2>1 DEF Draw, OutputCommit, HistoryShape
<1>6. CASE UNCHANGED <<stored, acked, shown>> BY <1>1, <1>6 DEF HistoryShape
<1> QED BY <1>2, <1>3, <1>4, <1>5, <1>6
        DEF Next, HostCall, Client, Compositor, Produce, Disown, HostPresent, HostInput,
            RequestStop, Dispatch, Damage, Reapply, Frame, NewSurface, MapView, UnmapView,
            SurfaceDestroy, ReleaseRetired, Send, Run, EnterLoop, Quit, CloseInput, ClearServer, SyncCopy,
            SyncPresent, DestroyBackend, DestroyDisplay, ReleaseTable, history

LEMMA HostStep == ASSUME EmbedInv, Next, ~ProcessEnds PROVE HostShape'
<1>1. HostShape BY ShapeParts DEF EmbedInv
<1>2. ASSUME NEW t \in Threads, NEW k \in HostKeys, NEW b \in Buffers, HostPresent(t, k, b)
      PROVE HostShape'
  BY <1>1, <1>2 DEF HostPresent, HostShape
<1>3. ASSUME NEW t \in Threads, HostStore(t) PROVE HostShape'
  BY <1>1, <1>3, HostStores, Typed, SMTT(30) DEF HostStore, HostShape
<1>4. ASSUME NEW t \in Threads, HostSend(t) PROVE HostShape'
  BY <1>1, <1>4, Typed DEF HostSend, HostShape
<1>5. CASE UNCHANGED host BY <1>1, <1>5 DEF HostShape
<1> QED BY <1>2, <1>3, <1>4, <1>5
        DEF Next, HostCall, Client, Compositor, Produce, Disown, HostInput, RequestStop, Dispatch,
            Damage, Frame, Draw, OutputCommit, Reapply, NewSurface, MapView, UnmapView,
            SurfaceDestroy, SurfaceCommit, ReleaseRetired, Send, Run, EnterLoop, Quit, CloseInput,
            ClearServer, SyncCopy, SyncPresent, DestroyBackend, DestroyDisplay, ReleaseTable

LEMMA PipeStep == ASSUME EmbedInv, Next, ~ProcessEnds PROVE PipeShape'
<1>1. pipe \in Seq({"redraw", "input"}) BY ShapeParts DEF EmbedInv, PipeShape
<1>2. /\ Append(pipe, "redraw") \in Seq({"redraw", "input"})
      /\ Append(pipe, "input") \in Seq({"redraw", "input"})
      /\ pipe # <<>> => Tail(pipe) \in Seq({"redraw", "input"})
      /\ <<>> \in Seq({"redraw", "input"})
  BY <1>1
<1>3. CASE pipe' \in {pipe, <<>>, Append(pipe, "redraw"), Append(pipe, "input")}
  BY <1>1, <1>2, <1>3 DEF PipeShape
<1>4. ASSUME Dispatch PROVE PipeShape' BY <1>2, <1>4 DEF Dispatch, PipeShape
<1> QED BY <1>3, <1>4
        DEF Next, HostCall, Client, Compositor, Produce, Disown, HostPresent, HostStore, HostSend,
            HostInput, RequestStop, Damage, Frame, Draw, OutputCommit, Reapply, NewSurface, MapView,
            UnmapView, SurfaceDestroy, SurfaceCommit, ReleaseRetired, Send, Run, EnterLoop, Quit, CloseInput,
            ClearServer, SyncCopy, SyncPresent, DestroyBackend, DestroyDisplay, ReleaseTable, Sent, NotSent

LEMMA FlagStep == ASSUME EmbedInv, Next, ~ProcessEnds PROVE FlagShape'
<1>1. FlagShape BY ShapeParts DEF EmbedInv
<1>2. ASSUME \E b \in Buffers : Produce(b) \/ Disown(b) PROVE FlagShape'
  BY <1>1, <1>2 DEF Produce, Disown, frame, scene, flags, history, FlagShape
<1>3. ASSUME \E t \in Threads : HostCall(t) PROVE FlagShape'
  BY <1>1, <1>3 DEF HostCall, HostPresent, HostStore, HostSend, frame, scene, flags, history,
                    FlagShape
<1>4. ASSUME Client PROVE FlagShape'
  BY <1>1, <1>4 DEF Client, NewSurface, MapView, UnmapView, SurfaceDestroy, SurfaceCommit, frame,
                    scene, flags, history, FlagShape
<1>5. ASSUME HostInput \/ RequestStop \/ Dispatch \/ Frame \/ Damage \/ OutputCommit \/ Reapply
             \/ SyncCopy \/ SyncPresent \/ Draw \/ ReleaseRetired \/ Send
      PROVE FlagShape'
  BY <1>1, <1>5 DEF HostInput, RequestStop, Dispatch, Frame, Damage, OutputCommit, Reapply,
                    AskFrame, SyncCopy, SyncPresent, Draw, ReleaseRetired, Send, frame, scene,
                    flags, history, FlagShape
<1>6. ASSUME EnterLoop \/ Quit \/ DestroyBackend \/ DestroyDisplay \/ CloseInput \/ ReleaseTable
             \/ ClearServer
      PROVE FlagShape'
  BY <1>1, <1>6 DEF EnterLoop, Quit, DestroyBackend, DestroyDisplay, CloseInput, ReleaseTable,
                    ClearServer, frame, scene, flags, history, FlagShape
<1>7. ASSUME Run PROVE FlagShape'
  <2>1. runs + 1 \in Nat BY <1>1 DEF FlagShape
  <2>2. /\ needsFrame' = "damaged" /\ frameDue' = TRUE /\ backend' = TRUE /\ android' = TRUE
        /\ inputWr' = "open" /\ stop' = FALSE /\ runs' = runs + 1
        /\ UNCHANGED <<live, mapped, owned>>
    BY <1>7 DEF Run
  <2> QED BY <1>1, <2>1, <2>2 DEF FlagShape
<1> QED BY <1>2, <1>3, <1>4, <1>5, <1>6, <1>7 DEF Next, Compositor

\* Every step keeps the types.
LEMMA ShapeStep == ASSUME EmbedInv, Next, ~ProcessEnds PROVE Shape'
BY TableStep, CompStep, HistoryStep, HostStep, PipeStep, FlagStep, ShapeParts
-----------------------------------------------------------------------------
(* The other parts of the invariant *)

\* Every step keeps what is known inside the handlers.
LEMMA InHandlersStep == ASSUME EmbedInv, Next, ~ProcessEnds PROVE InHandlers'
<1>1. InHandlers /\ comp \in CompType BY ShapeParts DEF EmbedInv, CompShape
<1>2. ASSUME NEW b \in Buffers, Produce(b) \/ Disown(b) PROVE InHandlers'
  BY <1>1, <1>2 DEF Produce, Disown, InHandlers, scene, frame
<1>3. ASSUME NEW t \in Threads, HostCall(t) PROVE InHandlers'
  <2>1. HostShape BY ShapeParts DEF EmbedInv
  <2>2. UNCHANGED <<comp, local, overlay, backend, owned>>
    BY <1>3 DEF HostCall, HostPresent, HostStore, HostSend, scene
  <2>3. ASSUME NEW u \in Threads, host'[u].pc # "idle" PROVE host'[u].buf \in owned
    <3>1. CASE u # t
      BY <1>1, <1>3, <2>1, <2>3, <3>1
      DEF HostCall, HostPresent, HostStore, HostSend, HostShape, InHandlers
    <3>2. CASE u = t
      <4>1. ASSUME NEW k \in HostKeys, NEW b \in Buffers, HostPresent(t, k, b) PROVE host'[u].buf \in owned
        BY <2>1, <3>2, <4>1 DEF HostPresent, HostShape
      <4>2. ASSUME HostStore(t) PROVE host'[u].buf \in owned
        <5>1. host'[t].pc = "idle" \/ host'[t].buf = host[t].buf
          BY <2>1, <4>2 DEF HostStore, HostShape, Idle
        <5> QED BY <2>3, <3>2, <4>2, <5>1, HostStores
      <4>3. ASSUME HostSend(t) PROVE host'[u].pc = "idle"
        BY <2>1, <3>2, <4>3 DEF HostSend, HostShape, Idle
      <4> QED BY <1>3, <2>3, <4>1, <4>2, <4>3 DEF HostCall
    <3> QED BY <3>1, <3>2
  <2> QED BY <1>1, <2>2, <2>3 DEF InHandlers
<1>4. CASE UNCHANGED <<comp, local, overlay, backend, host, owned>>
  BY <1>1, <1>4 DEF InHandlers
<1>5. ASSUME NEW s \in Surfaces, SurfaceDestroy(s) PROVE InHandlers'
  BY <1>1, <1>5 DEF SurfaceDestroy, At, InHandlers, CompType, Bound
<1>6. ASSUME NEW s \in Surfaces, NEW b \in Buffers, SurfaceCommit(s, b) PROVE InHandlers'
  BY <1>1, <1>6 DEF SurfaceCommit, At, Goto, InHandlers, CompType, scene
<1>7. ASSUME Frame \/ SyncCopy PROVE InHandlers'
  BY <1>1, <1>7 DEF Frame, SyncCopy, At, Goto, InHandlers, CompType, scene
<1>8. ASSUME SyncPresent \/ Draw \/ Send PROVE InHandlers'
  BY <1>1, <1>8 DEF SyncPresent, Draw, Send, At, Goto, Home, InHandlers, CompType, scene
<1>9. ASSUME ReleaseRetired \/ Quit PROVE InHandlers'
  BY <1>1, <1>9 DEF ReleaseRetired, Quit, At, InHandlers, CompType, scene
<1>10. ASSUME Run \/ EnterLoop PROVE InHandlers'
  BY <1>1, <1>10 DEF Run, EnterLoop, At, Goto, InHandlers, CompType, scene
<1>11. ASSUME DestroyBackend \/ DestroyDisplay \/ CloseInput \/ ReleaseTable \/ ClearServer
       PROVE InHandlers'
  BY <1>1, <1>11 DEF DestroyBackend, DestroyDisplay, CloseInput, ReleaseTable, ClearServer,
                     At, Goto, InHandlers, CompType, scene
<1> QED BY <1>2, <1>3, <1>4, <1>5, <1>6, <1>7, <1>8, <1>9, <1>10, <1>11
        DEF Next, Client, Compositor, HostInput, RequestStop, Dispatch, Damage, OutputCommit,
            Reapply, NewSurface, MapView, UnmapView, scene

\* Every step keeps wanted frames due.
LEMMA FrameWantedStep == ASSUME EmbedInv, Next, ~ProcessEnds PROVE FrameWanted'
<1>1. InHandlers /\ FrameWanted /\ comp \in CompType BY ShapeParts DEF EmbedInv, CompShape
<1>2. CASE UNCHANGED <<comp, frame>> BY <1>1, <1>2 DEF frame, FrameWanted
<1>3. ASSUME Dispatch \/ Damage \/ OutputCommit \/ Reapply \/ Run \/ DestroyBackend PROVE FrameWanted'
  BY <1>1, <1>3 DEF Dispatch, Damage, OutputCommit, Reapply, Run, DestroyBackend, frame, FrameWanted
<1>4. ASSUME Frame \/ SyncCopy \/ SyncPresent PROVE FrameWanted'
  BY <1>1, <1>4 DEF Frame, SyncCopy, SyncPresent, At, Goto, CompType, frame, InHandlers, FrameWanted
<1>5. ASSUME Draw PROVE FrameWanted'
  BY <1>1, <1>5 DEF Draw, At, Goto, CompType, frame, InHandlers, FrameWanted
<1>6. ASSUME NEW s \in Surfaces, SurfaceDestroy(s) PROVE FrameWanted'
  BY <1>1, <1>6 DEF SurfaceDestroy, At, CompType, frame, FrameWanted
<1>7. ASSUME NEW s \in Surfaces, NEW b \in Buffers, SurfaceCommit(s, b) PROVE FrameWanted'
  BY <1>1, <1>7 DEF SurfaceCommit, At, Goto, CompType, frame, FrameWanted
<1>8. ASSUME EnterLoop \/ ReleaseRetired \/ Send \/ Quit \/ DestroyDisplay \/ CloseInput
             \/ ReleaseTable \/ ClearServer
      PROVE FrameWanted'
  BY <1>1, <1>8 DEF EnterLoop, ReleaseRetired, Send, Quit, DestroyDisplay, CloseInput, ReleaseTable,
                    ClearServer, At, Goto, CompType, frame, FrameWanted
<1> QED BY <1>2, <1>3, <1>4, <1>5, <1>6, <1>7, <1>8
        DEF Next, HostCall, Client, Compositor, Produce, Disown, HostPresent, HostStore, HostSend,
            HostInput, RequestStop, NewSurface, MapView, UnmapView

\* A binding is stored under no dead surface.
LEMMA StoresNoDead ==
  ASSUME EmbedInv, NEW s \in Surfaces \ live, NEW t \in Threads, HostStore(t)
  PROVE table'[s] = table[s]
<1>1. host[t].key # s BY HostStores, EmbedAssumption DEF HostKeys
<1>2. table \in [Keys -> Entry] BY ShapeParts DEF EmbedInv, TableShape
<1> QED BY <1>1, <1>2 DEF HostStore, gpu_bind_store, Keys

\* Every step keeps dead surfaces forgotten.
LEMMA ForgottenStep == ASSUME EmbedInv, Next, ~ProcessEnds PROVE Forgotten'
<1>1. /\ InHandlers /\ Forgotten /\ InOrder
      /\ comp \in CompType /\ TableShape /\ FlagShape
  BY ShapeParts DEF EmbedInv, CompShape
<1>2. CASE UNCHANGED <<table, comp, local, overlay, live>> BY <1>1, <1>2 DEF Forgotten, Forgetting
<1>3. ASSUME NEW t \in Threads, HostStore(t) PROVE Forgotten'
  <2>1. UNCHANGED <<comp, local, overlay, live>> BY <1>3 DEF HostStore, scene
  <2>2. \A s \in Surfaces \ live : table'[s] = table[s] BY <1>3, StoresNoDead
  <2> QED BY <1>1, <2>1, <2>2 DEF Forgotten, Forgetting
<1>4. ASSUME NEW s \in Surfaces, NewSurface(s) PROVE Forgotten'
  BY <1>1, <1>4 DEF NewSurface, Forgotten, Forgetting
<1>5. ASSUME NEW s \in Surfaces, NEW b \in Buffers, SurfaceCommit(s, b) PROVE Forgotten'
  <2>1. UNCHANGED <<local, overlay, live>> /\ s \in live /\ At("loop")
    BY <1>5 DEF SurfaceCommit, scene
  <2>2. \A x \in Surfaces \ live : table'[x] = table[x]
    BY <1>1, <1>5, <2>1 DEF SurfaceCommit, gpu_bind_store, TableShape
  <2> QED BY <1>1, <2>1, <2>2 DEF Forgotten, Forgetting, At
<1>6. ASSUME NEW s \in Surfaces, SurfaceDestroy(s) PROVE Forgotten'
  <2>1. /\ local = Nothing /\ UNCHANGED <<local, overlay>> /\ ~Forgetting /\ s \in live
        /\ live' = live \ {s} /\ table' = [table EXCEPT ![s] = Empty]
    BY <1>1, <1>6 DEF SurfaceDestroy, At, InHandlers, Forgetting
  <2>2. s \in Bound => Forgetting' BY <1>1, <1>6 DEF SurfaceDestroy, Forgetting, CompType
  <2>3. s \in Keys BY DEF Keys
  <2>4. s \notin Bound => overlay[s] = Empty
    BY <1>1, <2>1, <2>3 DEF InOrder, InOrderAt, Bound
  <2>5. ASSUME NEW x \in Surfaces \ live'
        PROVE table'[x] = Empty /\ local'[x] = Empty /\ (overlay'[x] = Empty \/ Forgetting')
    BY <1>1, <2>1, <2>2, <2>3, <2>4, <2>5 DEF Forgotten, TableShape, Nothing, Keys
  <2> QED BY <2>5 DEF Forgotten
<1>7. ASSUME SyncCopy PROVE Forgotten'
  BY <1>1, <1>7 DEF SyncCopy, At, Goto, CompType, scene, Forgotten, Forgetting
<1>8. ASSUME SyncPresent PROVE Forgotten'
  <2>1. \A s \in Surfaces \ live : overlay'[s] = Empty /\ local'[s] = Empty
    BY <1>1, <1>8 DEF SyncPresent, Forgotten, Nothing, Keys
  <2> QED BY <1>1, <1>8, <2>1 DEF SyncPresent, scene, Forgotten
<1>9. ASSUME ReleaseRetired PROVE Forgotten'
  BY <1>1, <1>9 DEF ReleaseRetired, CompType, scene, Forgotten, Forgetting
<1>10. ASSUME Draw \/ Send \/ Frame \/ Quit \/ Run \/ EnterLoop \/ DestroyDisplay
              \/ CloseInput \/ ClearServer
       PROVE Forgotten'
  <2>1. ~Forgetting
    BY <1>10 DEF Draw, Send, Frame, Quit, Run, EnterLoop, DestroyDisplay, CloseInput, ClearServer,
                 At, Forgetting
  <2>2. UNCHANGED <<table, local, overlay, live>>
    BY <1>10 DEF Draw, Send, Frame, Quit, Run, EnterLoop, DestroyDisplay, CloseInput, ClearServer,
                 scene
  <2> QED BY <1>1, <2>1, <2>2 DEF Forgotten
<1>11. ASSUME DestroyBackend \/ ReleaseTable PROVE Forgotten'
  BY <1>1, <1>11 DEF DestroyBackend, ReleaseTable, At, Forgotten, Forgetting, Nothing, Keys, scene
<1> QED BY <1>2, <1>3, <1>4, <1>5, <1>6, <1>7, <1>8, <1>9, <1>10, <1>11
        DEF Next, HostCall, Client, Compositor, Produce, Disown, HostPresent, HostSend, HostInput,
            RequestStop, Dispatch, Damage, OutputCommit, Reapply, MapView, UnmapView, scene

\* Every step keeps the order of the places a binding is found in.
LEMMA InOrderStep == ASSUME EmbedInv, Next, ~ProcessEnds PROVE InOrder'
<1>1. /\ InHandlers /\ Forgotten /\ TableShape /\ HistoryShape /\ FlagShape
      /\ \A k \in Keys : InOrderAt(k)
  BY ShapeParts DEF EmbedInv, InOrder, InOrderAt
<1>2. SUFFICES ASSUME NEW k \in Keys PROVE InOrderAt(k)'
  BY DEF InOrder, InOrderAt
<1>3. /\ table[k] \in Entry /\ local[k] \in Entry /\ overlay[k] \in Entry
      /\ table[k].n \in Nat /\ local[k].n \in Nat /\ overlay[k].n \in Nat
      /\ shown[k] \in Nat /\ stored[k] \in Nat /\ InOrderAt(k)
  BY <1>1 DEF TableShape, HistoryShape, Entry
<1>4. CASE UNCHANGED <<table, local, overlay, shown, stored, live>>
  BY <1>3, <1>4 DEF InOrderAt
<1>5. ASSUME NEW j \in Keys, NEW b \in Buffers, gpu_bind_store(j, b),
             UNCHANGED <<local, overlay, shown, live>>
      PROVE InOrderAt(k)'
  <2>1. CASE j # k
    BY <1>1, <1>3, <1>5, <2>1 DEF gpu_bind_store, TableShape, HistoryShape, InOrderAt
  <2>2. CASE j = k
    <3>1. table'[k] = [buf |-> b, n |-> stored[k] + 1] /\ stored'[k] = stored[k] + 1
      BY <1>1, <1>5, <2>2 DEF gpu_bind_store, TableShape, HistoryShape
    <3>2. b # None BY EmbedAssumption
    <3> QED BY <1>3, <1>5, <3>1, <3>2 DEF InOrderAt
  <2> QED BY <2>1, <2>2
<1>6. ASSUME NEW t \in Threads, HostStore(t) PROVE InOrderAt(k)'
  <2>1. UNCHANGED <<local, overlay, shown, live>> BY <1>6 DEF HostStore, scene
  <2>2. UNCHANGED <<table, stored>> \/ gpu_bind_store(host[t].key, host[t].buf)
    BY <1>6 DEF HostStore
  <2> QED BY <1>4, <1>5, <1>6, <2>1, <2>2, HostStores
<1>7. ASSUME NEW s \in Surfaces, NEW b \in Buffers, SurfaceCommit(s, b) PROVE InOrderAt(k)'
  <2>1. UNCHANGED <<local, overlay, shown, live>> /\ gpu_bind_store(s, b)
    BY <1>7 DEF SurfaceCommit, scene
  <2> QED BY <1>5, <2>1 DEF Keys
<1>8. ASSUME NEW s \in Surfaces, NewSurface(s) PROVE InOrderAt(k)'
  <2>1. UNCHANGED <<table, local, overlay, shown, stored>> /\ live' = live \cup {s}
    BY <1>8 DEF NewSurface, history
  <2>2. k \in Surfaces \ live => overlay[k].n = 0
    BY <1>1, <1>8 DEF NewSurface, At, Forgotten, Forgetting, Empty
  <2> QED BY <1>3, <2>1, <2>2 DEF InOrderAt
<1>9. ASSUME NEW s \in Surfaces, SurfaceDestroy(s) PROVE InOrderAt(k)'
  <2>1. /\ UNCHANGED <<local, overlay, shown, stored>> /\ live' = live \ {s} /\ local = Nothing
        /\ table' = [table EXCEPT ![s] = Empty]
    BY <1>1, <1>9 DEF SurfaceDestroy, At, InHandlers, history
  <2>2. local[k].n = 0 BY <2>1 DEF Nothing, Empty
  <2>3. CASE k # s
    <3>1. table'[k] = table[k] BY <1>1, <2>1, <2>3 DEF TableShape
    <3> QED BY <1>3, <2>1, <2>3, <3>1 DEF InOrderAt
  <2>4. CASE k = s
    <3>1. table'[k] = Empty BY <1>1, <2>1, <2>4 DEF TableShape
    <3> QED BY <1>3, <2>1, <2>2, <2>4, <3>1 DEF InOrderAt, Empty
  <2> QED BY <2>3, <2>4
<1>10. ASSUME SyncCopy PROVE InOrderAt(k)'
  BY <1>3, <1>10 DEF SyncCopy, InOrderAt, scene, history
<1>11. ASSUME SyncPresent PROVE InOrderAt(k)'
  <2>1. overlay'[k] \in {local[k], Empty} /\ local'[k] = Empty
    BY <1>11 DEF SyncPresent, Nothing
  <2>2. UNCHANGED <<table, shown, stored, live>> BY <1>11 DEF SyncPresent, scene, history
  <2> QED BY <1>3, <2>1, <2>2 DEF InOrderAt, Empty
<1>12. ASSUME Draw \/ OutputCommit PROVE InOrderAt(k)'
  <2>1. UNCHANGED <<table, local, overlay, stored, live>>
    BY <1>12 DEF Draw, OutputCommit, scene
  <2>2. shown'[k] \in {shown[k], overlay[k].n} BY <1>12 DEF Draw, OutputCommit, Numbers
  <2> QED BY <1>3, <2>1, <2>2 DEF InOrderAt
<1>13. ASSUME DestroyBackend PROVE InOrderAt(k)'
  <2>1. overlay'[k] = Empty /\ UNCHANGED <<table, local, shown, stored, live>>
    BY <1>13 DEF DestroyBackend, Nothing, history
  <2> QED BY <1>3, <2>1 DEF InOrderAt, Empty
<1>14. ASSUME ReleaseTable PROVE InOrderAt(k)'
  <2>1. /\ table'[k] = Empty /\ local[k] = Empty /\ overlay[k] = Empty
        /\ UNCHANGED <<local, overlay, shown, stored, live>>
    BY <1>1, <1>14 DEF ReleaseTable, At, InHandlers, Nothing, scene, history
  <2> QED BY <1>3, <2>1 DEF InOrderAt, Empty
<1> QED BY <1>4, <1>6, <1>7, <1>8, <1>9, <1>10, <1>11, <1>12, <1>13, <1>14
        DEF Next, HostCall, Client, Compositor, Produce, Disown, HostPresent, HostSend, HostInput,
            RequestStop, Dispatch, Damage, Reapply, Frame, MapView, UnmapView, ReleaseRetired, Send, Run,
            EnterLoop, Quit, DestroyDisplay, CloseInput, ClearServer, scene, history
-----------------------------------------------------------------------------
(* Reference counts *)

\* The references to b that are not its producer's.
Uses(b) == Cardinality(Holding(table, b)) + Cardinality(Holding(local, b))
           + Cardinality(Holding(overlay, b)) + (IF comp.retired = b THEN 1 ELSE 0)

LEMMA CountParts ==
  /\ RefsAreCounted <=> \A b \in Buffers : refs[b] = (IF b \in owned THEN 1 ELSE 0) + Uses(b)
  /\ RefsAreCounted' <=> \A b \in Buffers : refs'[b] = (IF b \in owned' THEN 1 ELSE 0) + Uses(b)'
  /\ \A b : Uses(b) \in Nat
<1>1. ASSUME NEW b PROVE Uses(b) \in Nat BY HoldingFinite DEF Uses
<1>2. ASSUME NEW b \in Buffers
      PROVE /\ refs[b] = (IF b \in owned THEN 1 ELSE 0) + Uses(b)
                 <=> refs[b] = (IF b \in owned THEN 1 ELSE 0)
                       + Cardinality(Holding(table, b)) + Cardinality(Holding(local, b))
                       + Cardinality(Holding(overlay, b)) + (IF comp.retired = b THEN 1 ELSE 0)
            /\ refs'[b] = (IF b \in owned' THEN 1 ELSE 0) + Uses(b)'
                 <=> refs'[b] = (IF b \in owned' THEN 1 ELSE 0)
                       + Cardinality(Holding(table', b)) + Cardinality(Holding(local', b))
                       + Cardinality(Holding(overlay', b)) + (IF comp'.retired = b THEN 1 ELSE 0)
  <2>1. /\ Cardinality(Holding(table, b)) \in Nat /\ Cardinality(Holding(local, b)) \in Nat
        /\ Cardinality(Holding(overlay, b)) \in Nat /\ Cardinality(Holding(table', b)) \in Nat
        /\ Cardinality(Holding(local', b)) \in Nat /\ Cardinality(Holding(overlay', b)) \in Nat
    BY HoldingFinite
  <2> QED BY <2>1 DEF Uses
<1> QED BY <1>1, <1>2 DEF RefsAreCounted

\* Emptying an entry of a table takes one reference off its buffer.
LEMMA EmptyCounted ==
  ASSUME NEW f, NEW g, NEW k \in Keys, NEW b \in Buffers,
         g[k] = Empty, \A j \in Keys \ {k} : g[j] = f[j]
  PROVE Cardinality(Holding(g, b)) = Cardinality(Holding(f, b)) - (IF f[k].buf = b THEN 1 ELSE 0)
<1>1. Empty.buf # b BY EmbedAssumption DEF Empty
<1>2. Cardinality(Holding(g, b)) =
        Cardinality(Holding(f, b)) + (IF Empty.buf = b THEN 1 ELSE 0)
                                   - (IF f[k].buf = b THEN 1 ELSE 0)
  BY HoldingExcept
<1>3. Cardinality(Holding(f, b)) \in Nat BY HoldingFinite
<1> QED BY <1>1, <1>2, <1>3

\* Storing a binding moves one reference.
LEMMA StoreCounted ==
  ASSUME EmbedInv, NEW k \in Keys, NEW c \in Buffers, gpu_bind_store(k, c),
         UNCHANGED <<local, overlay, owned>>, comp'.retired = comp.retired
  PROVE Counted'
<1>1. TableShape /\ refs \in [Buffers -> Int] /\ RefsAreCounted
  BY ShapeParts DEF EmbedInv, Counted
<1>2. refs' = [x \in Buffers |-> refs[x] + (IF x = c THEN 1 ELSE 0)
                                         - (IF x = table[k].buf THEN 1 ELSE 0)]
  BY DEF gpu_bind_store
<1>3. table' = [table EXCEPT ![k] = [buf |-> c, n |-> stored[k] + 1]] BY DEF gpu_bind_store
<1>4. [buf |-> c, n |-> stored[k] + 1] \in Entry BY ShapeParts DEF EmbedInv, HistoryShape, Entry
<1>5. ASSUME NEW b \in Buffers
      PROVE refs'[b] = (IF b \in owned' THEN 1 ELSE 0) + Uses(b)'
  <2>1. Cardinality(Holding(table', b)) =
          Cardinality(Holding(table, b)) + (IF c = b THEN 1 ELSE 0)
                                         - (IF table[k].buf = b THEN 1 ELSE 0)
    <3> DEFINE e == [buf |-> c, n |-> stored[k] + 1]
    <3>1. table'[k] = e /\ (\A j \in Keys \ {k} : table'[j] = table[j]) /\ e.buf = c
      BY <1>1, <1>3 DEF TableShape
    <3> HIDE DEF e
    <3>2. Cardinality(Holding(table', b)) =
            Cardinality(Holding(table, b)) + (IF e.buf = b THEN 1 ELSE 0)
                                           - (IF table[k].buf = b THEN 1 ELSE 0)
      BY <3>1, HoldingExcept
    <3> QED BY <3>1, <3>2
  <2>2. refs[b] = (IF b \in owned THEN 1 ELSE 0) + Uses(b) BY <1>1, CountParts
  <2>3. Uses(b)' = Cardinality(Holding(table', b)) + Cardinality(Holding(local, b))
           + Cardinality(Holding(overlay, b)) + (IF comp.retired = b THEN 1 ELSE 0)
    BY DEF Uses
  <2>4. refs'[b] = refs[b] + (IF b = c THEN 1 ELSE 0) - (IF b = table[k].buf THEN 1 ELSE 0)
    BY <1>2
  <2>5. /\ Cardinality(Holding(table, b)) \in Nat /\ Cardinality(Holding(local, b)) \in Nat
        /\ Cardinality(Holding(overlay, b)) \in Nat
    BY HoldingFinite
  <2> QED BY <2>1, <2>2, <2>3, <2>4, <2>5 DEF Uses
<1>6. refs' \in [Buffers -> Int] BY <1>1, <1>2
<1> QED BY <1>5, <1>6, CountParts DEF Counted

\* Every step keeps the count.
LEMMA CountedStep == ASSUME EmbedInv, Next, ~ProcessEnds PROVE Counted'
<1>1. /\ TableShape /\ FlagShape /\ comp \in CompType /\ InHandlers
      /\ refs \in [Buffers -> Int] /\ RefsAreCounted
      /\ \A b \in Buffers : refs[b] = (IF b \in owned THEN 1 ELSE 0) + Uses(b)
  BY ShapeParts, CountParts DEF EmbedInv, Counted, CompShape
<1>2. CASE UNCHANGED <<table, local, overlay, owned, refs>> /\ comp'.retired = comp.retired
  BY <1>1, <1>2, CountParts DEF Counted, Uses
<1>3. ASSUME NEW c \in Buffers, Produce(c) PROVE Counted'
  <2>1. UNCHANGED <<table, local, overlay, comp>> BY <1>3 DEF Produce
  <2>2. ASSUME NEW b \in Buffers PROVE refs'[b] = (IF b \in owned' THEN 1 ELSE 0) + Uses(b)'
    <3>1. Uses(b)' = Uses(b) BY <2>1 DEF Uses
    <3>2. c \notin owned BY <1>1, <1>3, CountParts DEF Produce
    <3> QED BY <1>1, <1>3, <3>1, <3>2, CountParts DEF Produce
  <2>3. refs' \in [Buffers -> Int] BY <1>1, <1>3 DEF Produce
  <2> QED BY <2>2, <2>3, CountParts DEF Counted
<1>4. ASSUME NEW c \in Buffers, Disown(c) PROVE Counted'
  <2>1. UNCHANGED <<table, local, overlay, comp>> BY <1>4 DEF Disown
  <2>2. ASSUME NEW b \in Buffers PROVE refs'[b] = (IF b \in owned' THEN 1 ELSE 0) + Uses(b)'
    <3>1. Uses(b)' = Uses(b) BY <2>1 DEF Uses
    <3> QED BY <1>1, <1>4, <3>1, CountParts DEF Disown
  <2>3. refs' \in [Buffers -> Int] BY <1>1, <1>4 DEF Disown
  <2> QED BY <2>2, <2>3, CountParts DEF Counted
<1>5. ASSUME NEW t \in Threads, HostStore(t) PROVE Counted'
  <2>1. UNCHANGED <<local, overlay, owned, comp>> BY <1>5 DEF HostStore
  <2>2. UNCHANGED <<table, refs>> \/ gpu_bind_store(host[t].key, host[t].buf)
    BY <1>5 DEF HostStore
  <2> QED BY <1>2, <1>5, <2>1, <2>2, HostStores, StoreCounted
<1>6. ASSUME NEW s \in Surfaces, NEW b \in Buffers, SurfaceCommit(s, b) PROVE Counted'
  <2>1. UNCHANGED <<local, overlay, owned>> /\ gpu_bind_store(s, b) /\ comp'.retired = comp.retired
    BY <1>1, <1>6 DEF SurfaceCommit, Goto, CompType
  <2> QED BY <2>1, StoreCounted DEF Keys
<1>7. ASSUME NEW s \in Surfaces, SurfaceDestroy(s) PROVE Counted'
  <2>1. /\ UNCHANGED <<local, overlay, owned, refs>> /\ table' = [table EXCEPT ![s] = Empty]
        /\ comp.retired = None /\ s \in Keys
    BY <1>1, <1>7 DEF SurfaceDestroy, At, InHandlers, Keys
  <2>2. comp'.retired = table[s].buf
    BY <1>1, <1>7, <2>1 DEF SurfaceDestroy, CompType, Bound
  <2>3. ASSUME NEW b \in Buffers PROVE refs'[b] = (IF b \in owned' THEN 1 ELSE 0) + Uses(b)'
    <3>1. Cardinality(Holding(table', b)) =
            Cardinality(Holding(table, b)) - (IF table[s].buf = b THEN 1 ELSE 0)
      <4>1. table'[s] = Empty /\ \A j \in Keys \ {s} : table'[j] = table[j]
        BY <1>1, <2>1 DEF TableShape
      <4>2. ASSUME NEW k \in Keys, table'[k] = Empty, \A j \in Keys \ {k} : table'[j] = table[j]
            PROVE Cardinality(Holding(table', b)) =
                    Cardinality(Holding(table, b)) - (IF table[k].buf = b THEN 1 ELSE 0)
        BY <4>2, EmptyCounted
      <4>3. s \in Keys BY <2>1
      <4> QED BY <4>1, <4>2, <4>3
    <3>2. None # b BY EmbedAssumption
    <3>3. Cardinality(Holding(table, b)) \in Nat /\ Cardinality(Holding(local, b)) \in Nat
          /\ Cardinality(Holding(overlay, b)) \in Nat
      BY HoldingFinite
    <3>4. Uses(b)' = Cardinality(Holding(table', b)) + Cardinality(Holding(local, b))
             + Cardinality(Holding(overlay, b)) + (IF table[s].buf = b THEN 1 ELSE 0)
      BY <2>1, <2>2 DEF Uses
    <3>5. Uses(b)' = Uses(b) BY <2>1, <3>1, <3>2, <3>3, <3>4 DEF Uses
    <3> QED BY <1>1, <2>1, <3>5
  <2> QED BY <1>1, <2>1, <2>3, CountParts DEF Counted
<1>8. ASSUME ReleaseRetired PROVE Counted'
  <2>1. /\ UNCHANGED <<table, local, overlay, owned>> /\ comp'.retired = None
        /\ refs' = [refs EXCEPT ![comp.retired] = @ - 1]
    BY <1>1, <1>8 DEF ReleaseRetired, CompType
  <2>2. ASSUME NEW b \in Buffers PROVE refs'[b] = (IF b \in owned' THEN 1 ELSE 0) + Uses(b)'
    <3>1. None # b BY EmbedAssumption
    <3>2. Cardinality(Holding(table, b)) \in Nat /\ Cardinality(Holding(local, b)) \in Nat
          /\ Cardinality(Holding(overlay, b)) \in Nat
      BY HoldingFinite
    <3>3. Uses(b)' = Uses(b) - (IF comp.retired = b THEN 1 ELSE 0)
      BY <2>1, <3>1, <3>2 DEF Uses
    <3>4. refs'[b] = refs[b] - (IF comp.retired = b THEN 1 ELSE 0) BY <1>1, <2>1
    <3> QED BY <1>1, <2>1, <3>3, <3>4, CountParts
  <2>3. comp.retired \in Buffers BY <1>1, <1>8 DEF ReleaseRetired, At, InHandlers, CompType
  <2>4. refs' \in [Buffers -> Int] BY <1>1, <2>1, <2>3
  <2> QED BY <2>2, <2>4, CountParts DEF Counted
<1>9. ASSUME SyncCopy \/ SyncPresent \/ DestroyBackend \/ ReleaseTable PROVE Counted'
  <2>1. UNCHANGED owned /\ comp'.retired = comp.retired
    BY <1>1, <1>9 DEF SyncCopy, SyncPresent, DestroyBackend, ReleaseTable, Goto, CompType
  <2>2. ASSUME NEW b \in Buffers
        PROVE refs'[b] \in Int /\ refs'[b] = (IF b \in owned' THEN 1 ELSE 0) + Uses(b)'
    <3> DEFINE c(f) == Cardinality(Holding(f, b))
    <3>1. /\ c(table) \in Nat /\ c(local) \in Nat /\ c(overlay) \in Nat
          /\ c(table') \in Nat /\ c(local') \in Nat /\ c(overlay') \in Nat /\ c(Nothing) = 0
      BY HoldingFinite, HoldingNothing
    <3>2. /\ refs[b] \in Int
          /\ refs[b] = (IF b \in owned THEN 1 ELSE 0) + c(table) + c(local) + c(overlay)
                       + (IF comp.retired = b THEN 1 ELSE 0)
      BY <1>1 DEF RefsAreCounted
    <3>3. Uses(b)' = c(table') + c(local') + c(overlay') + (IF comp.retired = b THEN 1 ELSE 0)
      BY <2>1 DEF Uses
    <3>4. refs'[b] - refs[b] = c(table') + c(local') + c(overlay') - c(table) - c(local) - c(overlay)
      <4>1. ASSUME SyncCopy PROVE refs'[b] = refs[b] + c(table) - 0 - 0 /\ local = Nothing
                                  /\ local' = table /\ UNCHANGED <<table, overlay>>
        BY <1>1, <3>1, <4>1 DEF SyncCopy, At, InHandlers, Exchange
      <4>2. ASSUME SyncPresent PROVE refs'[b] = refs[b] + c(overlay') - c(overlay) - c(local)
                                     /\ local' = Nothing /\ UNCHANGED table
        BY <4>2 DEF SyncPresent, Exchange
      <4>3. ASSUME DestroyBackend PROVE refs'[b] = refs[b] + 0 - c(overlay) - 0
                                        /\ overlay' = Nothing /\ UNCHANGED <<table, local>>
        BY <3>1, <4>3 DEF DestroyBackend, Exchange
      <4>4. ASSUME ReleaseTable PROVE refs'[b] = refs[b] + 0 - c(table) - 0
                                      /\ table' = Nothing /\ UNCHANGED <<overlay, local>>
        BY <3>1, <4>4 DEF ReleaseTable, Exchange
      <4> HIDE DEF c
      <4>5. CASE SyncCopy BY <3>1, <3>2, <4>1, <4>5
      <4>6. CASE SyncPresent BY <3>1, <3>2, <4>2, <4>6
      <4>7. CASE DestroyBackend BY <3>1, <3>2, <4>3, <4>7
      <4>8. CASE ReleaseTable BY <3>1, <3>2, <4>4, <4>8
      <4> QED BY <1>9, <4>5, <4>6, <4>7, <4>8
    <3>5. refs'[b] \in Int
      BY <1>9, <3>1, <3>2 DEF SyncCopy, SyncPresent, DestroyBackend, ReleaseTable, Exchange
    <3> HIDE DEF c
    <3> QED BY <2>1, <3>1, <3>2, <3>3, <3>4, <3>5
  <2>3. refs' \in [Buffers -> Int]
    BY <1>9, <2>2 DEF SyncCopy, SyncPresent, DestroyBackend, ReleaseTable, Exchange
  <2> QED BY <2>2, <2>3, CountParts DEF Counted
<1>10. ASSUME HostInput \/ RequestStop \/ Dispatch \/ Damage \/ OutputCommit \/ Reapply \/ Frame
              \/ Draw \/ Send \/ Run \/ EnterLoop \/ Quit \/ DestroyDisplay \/ CloseInput \/ ClearServer
       PROVE Counted'
  <2>1. UNCHANGED <<table, local, overlay, owned, refs>>
    BY <1>10 DEF HostInput, RequestStop, Dispatch, Damage, OutputCommit, Reapply, Frame, Draw, Send, Run,
                 EnterLoop, Quit, DestroyDisplay, CloseInput, ClearServer
  <2>2. comp'.retired = comp.retired
    BY <1>1, <1>10 DEF HostInput, RequestStop, Dispatch, Damage, OutputCommit, Reapply, Frame, Draw, Send,
                 Run, EnterLoop, Quit, DestroyDisplay, CloseInput, ClearServer, Goto, CompType
  <2> QED BY <1>2, <2>1, <2>2
<1> QED BY <1>2, <1>3, <1>4, <1>5, <1>6, <1>7, <1>8, <1>9, <1>10
        DEF Next, HostCall, Client, Compositor, HostPresent, HostSend, NewSurface, MapView, UnmapView
-----------------------------------------------------------------------------
(* The theorems *)

LEMMA EmbedInvInit == Init => EmbedInv
<1> SUFFICES ASSUME Init PROVE EmbedInv OBVIOUS
<1>1. /\ table = Nothing /\ local = Nothing /\ overlay = Nothing /\ live = {} /\ mapped = {}
      /\ comp.pc = "off" /\ comp.retired = None /\ needsFrame = "no"
      /\ stored = Zero /\ shown = Zero /\ refs = [b \in Buffers |-> 0] /\ owned = {}
  BY DEF Init
<1>2. TableShape BY <1>1, Typed DEF TableShape
<1>3. CompShape /\ HistoryShape BY DEF Init, CompShape, CompType, CompSteps, HistoryShape, Zero
<1>4. HostShape BY Typed DEF Init, HostShape
<1>5. PipeShape /\ FlagShape
  <2>1. pipe = <<>> BY DEF Init
  <2>3. PipeShape BY <2>1 DEF PipeShape
  <2>2. FlagShape BY <1>1 DEF Init, FlagShape
  <2> QED BY <2>2, <2>3
<1>6. InHandlers BY DEF Init, InHandlers, Idle
<1>7. FrameWanted BY <1>1 DEF FrameWanted
<1>8. Forgotten BY <1>1 DEF Forgotten, Nothing, Keys
<1>9. InOrder BY <1>1 DEF InOrder, InOrderAt, Nothing, Empty, Zero
<1>10. Counted
  <2>1. ASSUME NEW b \in Buffers PROVE Uses(b) = 0
    <3>1. None # b BY EmbedAssumption
    <3> QED BY <1>1, <3>1, HoldingNothing DEF Uses
  <2> QED BY <1>1, <2>1, CountParts DEF Counted
<1> QED BY <1>2, <1>3, <1>4, <1>5, <1>6, <1>7, <1>8, <1>9, <1>10, ShapeParts DEF EmbedInv

LEMMA EmbedInvStutter == EmbedInv /\ UNCHANGED vars => EmbedInv'
<1> SUFFICES ASSUME EmbedInv, UNCHANGED vars PROVE EmbedInv' OBVIOUS
<1> USE DEF vars, frame, scene, flags, history
<1>1. Shape' BY DEF EmbedInv, Shape
<1>2. InHandlers' /\ FrameWanted' BY DEF EmbedInv, InHandlers, FrameWanted
<1>3. Forgotten' BY DEF EmbedInv, Forgotten, Forgetting
<1>4. InOrder' BY DEF EmbedInv, InOrder, InOrderAt
<1>5. Counted' BY DEF EmbedInv, Counted, RefsAreCounted
<1> QED BY <1>1, <1>2, <1>3, <1>4, <1>5 DEF EmbedInv

\* A process that has ended uses nothing: what the invariant says of it is void.
LEMMA EmbedInvEnds == ASSUME EmbedInv, ProcessEnds PROVE EmbedInv'
<1>1. /\ table' = Nothing /\ local' = Nothing /\ overlay' = Nothing /\ live' = {} /\ mapped' = {}
      /\ needsFrame' = "no" /\ refs' = [b \in Buffers |-> 0] /\ owned' = {}
      /\ host' = [t \in Threads |-> Idle]
      /\ UNCHANGED <<stored, acked, shown, runs>>
  BY DEF ProcessEnds, history
<1>2. CompShape /\ HistoryShape /\ FlagShape /\ InOrder BY ShapeParts DEF EmbedInv
<1>3. comp'.pc = "crashed" /\ comp'.retired = None /\ CompShape'
  BY <1>2 DEF ProcessEnds, CompShape, CompType, CompSteps
<1>4. TableShape' /\ HistoryShape' BY <1>1, <1>2, Typed DEF TableShape, HistoryShape
<1>5. HostShape' BY <1>1, Typed DEF HostShape
<1>6. PipeShape' BY DEF ProcessEnds, PipeShape
<1>7. FlagShape' BY <1>1, <1>2 DEF ProcessEnds, FlagShape
<1>8. InHandlers' BY <1>1, <1>3 DEF InHandlers, Idle
<1>9. FrameWanted' BY <1>1 DEF FrameWanted
<1>10. Forgotten' BY <1>1 DEF Forgotten, Nothing, Keys
<1>11. InOrder'
  <2> SUFFICES ASSUME NEW k \in Keys PROVE InOrderAt(k)' BY DEF InOrder
  <2>1. table'[k] = Empty /\ local'[k] = Empty /\ overlay'[k] = Empty BY <1>1 DEF Nothing
  <2>2. stored[k] \in Nat /\ shown[k] \in Nat /\ shown[k] <= stored[k]
    BY <1>2 DEF HistoryShape, InOrder, InOrderAt
  <2> QED BY <1>1, <2>1, <2>2 DEF InOrderAt, Empty
<1>12. Counted'
  <2>1. ASSUME NEW b \in Buffers PROVE Uses(b)' = 0
    <3>1. None # b BY EmbedAssumption
    <3> QED BY <1>1, <1>3, <3>1, HoldingNothing DEF Uses
  <2>2. refs' \in [Buffers -> Int] BY <1>1
  <2> QED BY <1>1, <2>1, <2>2, CountParts DEF Counted
<1> QED BY <1>3, <1>4, <1>5, <1>6, <1>7, <1>8, <1>9, <1>10, <1>11, <1>12, ShapeParts DEF EmbedInv

\* The inductive invariant holds in every reachable state of the embedded
\* compositor: its handlers, the host's threads and the teardown.
THEOREM EmbedInvHolds == Spec => []EmbedInv
<1>1. EmbedInv /\ [Next]_vars => EmbedInv'
  BY ShapeStep, InHandlersStep, FrameWantedStep, ForgottenStep, InOrderStep, CountedStep,
     EmbedInvEnds, EmbedInvStutter DEF EmbedInv
<1> QED BY EmbedInvInit, <1>1, PTL DEF Spec

\* Every variable has its type; above all no reference count is ever negative.
THEOREM EmbedTypeCorrect == Spec => []EmbedTypeOK
<1>1. EmbedInv => EmbedTypeOK
  <2> SUFFICES ASSUME EmbedInv PROVE EmbedTypeOK OBVIOUS
  <2>1. ASSUME NEW b \in Buffers PROVE refs[b] \in Nat
    BY CountParts DEF EmbedInv, Counted
  <2> QED BY <2>1 DEF EmbedInv, Counted, EmbedTypeOK
<1> QED BY <1>1, EmbedInvHolds, PTL

\* Buffers are acquired and released exactly once by each that refers to them,
\* for any number of threads that rebind while the compositor composes.
THEOREM RefsCounted == Spec => []RefsAreCounted
<1>1. EmbedInv => RefsAreCounted BY DEF EmbedInv, Counted
<1> QED BY <1>1, EmbedInvHolds, PTL

\* Between two handlers of the compositor thread no table refers to a surface
\* that was destroyed.
THEOREM DeadSurfacesForgotten == Spec => []NoDeadSurface
<1>1. EmbedInv => NoDeadSurface
  BY DEF EmbedInv, Forgotten, Forgetting, NoDeadSurface, At
<1> QED BY <1>1, EmbedInvHolds, PTL

\* The overlay is handed to the backend only while there is one, though the
\* teardown destroys surfaces, whose handlers sync the overlay, and the backend.
THEOREM BackendOutlivesSyncs == Spec => []BackendIsThere
<1>1. EmbedInv => BackendIsThere BY DEF EmbedInv, InHandlers, BackendIsThere, At
<1> QED BY <1>1, EmbedInvHolds, PTL

\* A redraw that was dispatched never waits for a frame event nobody emits.
THEOREM FramesAreDue == Spec => []FrameIsDue
<1>1. EmbedInv => FrameIsDue BY DEF EmbedInv, FrameWanted, FrameIsDue, At
<1> QED BY <1>1, EmbedInvHolds, PTL

\* What the compositor thread works on exists while it does: the surfaces in the
\* tables of embed.c and the backend that draws the overlay.
THEOREM EmbedTablesAreLive == Spec => []TablesAreLive
<1> QED BY EmbedTypeCorrect, DeadSurfacesForgotten, BackendOutlivesSyncs, PTL
    DEF TablesAreLive
-----------------------------------------------------------------------------
(* Embed implements Presentation. *)

\* A binding that is stored is newer than the one before.
LEMMA StoreBinds ==
  ASSUME EmbedInv, NEW k \in Keys, NEW b \in Buffers, gpu_bind_store(k, b), UNCHANGED shown
  PROVE Promise!Next
<1>1. TableShape /\ HistoryShape /\ InOrder BY ShapeParts DEF EmbedInv
<1>2. table' = [table EXCEPT ![k] = [buf |-> b, n |-> stored[k] + 1]] BY DEF gpu_bind_store
<1>3. stored[k] \in Nat /\ table[k].n \in Nat /\ table[k].n <= stored[k]
  BY <1>1 DEF TableShape, Entry, HistoryShape, InOrder, InOrderAt
<1>4. Numbers(table') = [Numbers(table) EXCEPT ![k] = stored[k] + 1]
  BY <1>1, <1>2 DEF Numbers, TableShape
<1>5. Numbers(table)[k] = table[k].n /\ Numbers(table')[k] = stored[k] + 1
  BY <1>1, <1>2 DEF Numbers, TableShape
<1>6. Numbers(table')[k] \in Nat /\ Numbers(table')[k] > Numbers(table)[k]
  BY <1>3, <1>5
<1>7. Promise!Bind(k) BY <1>4, <1>5, <1>6 DEF Promise!Bind
<1> QED BY <1>7 DEF Promise!Next

\* The entries a step empties are those it retires.
LEMMA EmptyingRetires ==
  ASSUME NEW ks \in SUBSET Keys, UNCHANGED shown,
         \A k \in Keys : table'[k] = IF k \in ks THEN Empty ELSE table[k]
  PROVE Promise!Next
<1>1. Numbers(table') = [k \in Keys |-> IF k \in ks THEN 0 ELSE Numbers(table)[k]]
  BY DEF Numbers, Empty
<1>2. Promise!Retire(ks) BY <1>1 DEF Promise!Retire
<1> QED BY <1>2 DEF Promise!Next

\* A commit shows what the overlay holds, which is between what was shown and
\* what is bound.
LEMMA CommitRefreshes ==
  ASSUME EmbedInv, comp.pc \in {"loop", "draw"}, shown' = Numbers(overlay), UNCHANGED table
  PROVE Promise!Next
<1>1. TableShape /\ HistoryShape /\ InOrder /\ Forgotten BY ShapeParts DEF EmbedInv
<1>2. shown' \in [Keys -> Nat] BY <1>1, Typed DEF TableShape
<1>3. ASSUME NEW k \in Keys, shown'[k] # 0 PROVE shown'[k] \in shown[k] .. Numbers(table)[k]
  <2>1. /\ overlay[k].n \in Nat /\ table[k].n \in Nat /\ shown[k] \in Nat /\ InOrderAt(k)
    BY <1>1 DEF TableShape, Entry, HistoryShape, InOrder
  <2>2. shown'[k] = overlay[k].n /\ Numbers(table)[k] = table[k].n BY DEF Numbers
  <2>3. ~(k \in Surfaces \ live)
    <3>1. ~Forgetting BY DEF Forgetting
    <3> QED BY <1>1, <1>3, <2>2, <3>1 DEF Forgotten, Empty
  <2> QED BY <1>3, <2>1, <2>2, <2>3 DEF InOrderAt
<1>4. UNCHANGED Numbers(table) BY DEF Numbers
<1>5. Promise!Refresh BY <1>2, <1>3, <1>4 DEF Promise!Refresh
<1> QED BY <1>5 DEF Promise!Next

\* The detailed specification, with its threads, its lock and its teardown,
\* implements module Presentation: the screen never goes back to an older
\* buffer and never shows one whose binding is gone.
THEOREM EmbedKeepsPromise == Spec => KeepsPromise
<1>1. Init => Promise!Init
  BY DEF Init, Promise!Init, Numbers, Nothing, Empty, Zero
<1>2. ASSUME EmbedInv, [Next]_vars PROVE [Promise!Next]_<<Numbers(table), shown>>
  <2>1. TableShape /\ InHandlers BY <1>2, ShapeParts DEF EmbedInv
  <2>2. CASE UNCHANGED <<table, shown>> BY <2>2 DEF Numbers
  <2>3. ASSUME NEW t \in Threads, HostStore(t) PROVE UNCHANGED <<table, shown>> \/ Promise!Next
    <3>1. \/ UNCHANGED <<table, shown>>
          \/ gpu_bind_store(host[t].key, host[t].buf) /\ UNCHANGED shown
      BY <2>3 DEF HostStore
    <3> QED BY <1>2, <2>3, <3>1, HostStores, StoreBinds
  <2>4. ASSUME NEW s \in Surfaces, NEW b \in Buffers, SurfaceCommit(s, b) PROVE Promise!Next
    <3>1. gpu_bind_store(s, b) /\ UNCHANGED shown /\ s \in Keys BY <2>4 DEF SurfaceCommit, Keys
    <3> QED BY <1>2, <3>1, StoreBinds
  <2>5. ASSUME NEW s \in Surfaces, SurfaceDestroy(s) PROVE Promise!Next
    <3>1. UNCHANGED shown /\ {s} \in SUBSET Keys BY <2>5 DEF SurfaceDestroy, history, Keys
    <3>2. \A k \in Keys : table'[k] = IF k \in {s} THEN Empty ELSE table[k]
      BY <2>1, <2>5 DEF SurfaceDestroy, TableShape
    <3> QED BY <3>1, <3>2, EmptyingRetires
  <2>6. ASSUME ReleaseTable PROVE Promise!Next
    <3>1. UNCHANGED shown BY <2>6 DEF ReleaseTable, history
    <3>2. \A k \in Keys : table'[k] = IF k \in Keys THEN Empty ELSE table[k]
      BY <2>6 DEF ReleaseTable, Nothing
    <3> QED BY <3>1, <3>2, EmptyingRetires
  <2>7. ASSUME Draw \/ OutputCommit PROVE UNCHANGED <<table, shown>> \/ Promise!Next
    BY <1>2, <2>7, CommitRefreshes DEF Draw, OutputCommit, At
  <2>8. ASSUME ProcessEnds PROVE Promise!Next
    <3>1. UNCHANGED shown BY <2>8 DEF ProcessEnds, history
    <3>2. \A k \in Keys : table'[k] = IF k \in Keys THEN Empty ELSE table[k]
      BY <2>8 DEF ProcessEnds, Nothing
    <3> QED BY <3>1, <3>2, EmptyingRetires
  <2>9. UNCHANGED <<table, shown>> \/ Promise!Next
    BY <1>2, <2>3, <2>4, <2>5, <2>6, <2>7, <2>8
       DEF Next, HostCall, Client, Compositor, Produce, Disown, HostPresent, HostSend, HostInput,
           RequestStop, Dispatch, Damage, Frame, NewSurface, MapView, UnmapView, ReleaseRetired, Send,
           Run, EnterLoop, Quit, CloseInput, ClearServer, SyncCopy, SyncPresent, DestroyBackend,
           DestroyDisplay, Reapply, history, vars
  <2> QED BY <2>2, <2>9
<1> QED BY <1>1, <1>2, EmbedInvHolds, PTL DEF Spec, KeepsPromise, Promise!Spec
=============================================================================

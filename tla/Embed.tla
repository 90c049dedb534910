------------------------------- MODULE Embed --------------------------------
(***************************************************************************)
(* The compositor as a library inside an Android app (src/embed.c,         *)
(* src/android_wlegl.c and the ANativeWindow backend of wlroots).          *)
(*                                                                         *)
(* Threads of the host hand over GPU buffers (AHardwareBuffer) and input;  *)
(* the compositor thread runs the event loop.  They share the table of     *)
(* bindings, under gpu_lock, and a pipe that only the compositor reads.    *)
(* A section under a lock is one step; everything between two sections     *)
(* is a step of its own, so the threads interleave there.                  *)
(*                                                                         *)
(* A binding is found by its surface, or by kind, id and pid when there is *)
(* none: `Keys' are those identities.  The n of an entry is history: the   *)
(* buffer is the n-th one stored under its key.                            *)
(***************************************************************************)
EXTENDS Integers, Sequences, FiniteSets

CONSTANTS
    Threads,        \* threads of the host that present buffers
    Surfaces,       \* surfaces of Wayland clients
    Windows,        \* bindings by xid or pid (present_ahb_view)
    NamedBy,        \* [Windows -> SUBSET Surfaces]: the views an xid or pid names
    X11,            \* the windows bound by xid, whose views need not be mapped
    Screen,         \* the binding of present_ahb
    Buffers, None,
    GPU_BIND_MAX,   \* entries in the table
    PipeMax,        \* messages the pipe holds
    InputMax,       \* bound: input is sent while the pipe holds fewer messages
    MaxPresent,     \* bound: buffers stored under one key
    MaxRuns,        \* bound: calls of anlabwc_run
    Interrupts,     \* whether signals may interrupt a write
    Reapplies       \* whether clients apply the configuration of the output anew

HostKeys == Windows \cup {Screen}
Keys == Surfaces \cup HostKeys

ASSUME EmbedAssumption ==
    /\ IsFiniteSet(Surfaces) /\ IsFiniteSet(Windows)
    /\ Surfaces \cap HostKeys = {}
    /\ None \notin Buffers
    /\ NamedBy \in [Windows -> SUBSET Surfaces]
    /\ X11 \subseteq Windows
    /\ GPU_BIND_MAX \in Nat /\ PipeMax \in Nat /\ InputMax \in Nat
    /\ MaxPresent \in Nat /\ MaxRuns \in Nat
    /\ Interrupts \in BOOLEAN /\ Reapplies \in BOOLEAN

VARIABLES
    \* shared under gpu_lock
    table,          \* gpu_binds: key -> entry
    \* the compositor thread
    comp,           \* what it is doing, see CompSteps
    local,          \* the copy gpu_overlay_sync works on
    overlay,        \* backend->overlay: what the next commit draws
    needsFrame,     \* a frame is wanted: "no", "asked" for by wlr_output.needs_frame
                    \* alone, or as the scene is "damaged"
    frameDue,       \* an idle callback or the frame timer will emit the frame event
    live, mapped,   \* surfaces that exist, surfaces whose view is mapped
    backend,        \* the Android backend exists
    \* read by every thread without a lock
    android,        \* server.embed.android is not NULL
    inputWr,        \* server.embed.input_wr: "open", "closed", or "stdin" for 0
    stop,           \* wl_display_terminate was called
    \* the host and the kernel
    host,           \* what each thread is doing
    pipe,           \* messages in the pipe
    refs,           \* reference count of each buffer
    owned,          \* buffers whose producer still holds its own reference
    \* history
    stored,         \* [Keys -> Nat]: buffers stored under the key so far
    acked,          \* [Keys -> Nat]: the last of them whose caller was told 0
    shown,          \* [Keys -> Nat]: what the last commit drew
    runs            \* calls of anlabwc_run so far

frame == <<needsFrame, frameDue>>
scene == <<live, mapped, backend>>
flags == <<android, inputWr, stop>>
history == <<stored, acked, shown, runs>>
vars == <<table, comp, local, overlay, frame, scene, flags, host, pipe, refs, owned, history>>

Entry == [buf : Buffers \cup {None}, n : Nat]
Empty == [buf |-> None, n |-> 0]
Nothing == [k \in Keys |-> Empty]
Holding(f, b) == {k \in Keys : f[k].buf = b}
Bound == {k \in Keys : table[k].buf # None}
Numbers(f) == [k \in Keys |-> f[k].n]
Zero == [k \in Keys |-> 0]

Idle == [pc |-> "idle", key |-> Screen, buf |-> None, n |-> 0]
CompSteps == {"setup", "loop", "retired", "sync", "present", "draw", "send",
              "teardown", "display", "close", "release", "clear", "off", "crashed"}
At(pc) == comp.pc = pc
Goto(pc) == comp' = [comp EXCEPT !.pc = pc]
Home == IF comp.down THEN "teardown" ELSE "loop"

\* AHardwareBuffer_acquire of the buffers of `new', AHardwareBuffer_release of
\* those of `old' and `old2', entry by entry.
Exchange(new, old, old2) ==
    refs' = [b \in Buffers |->
        refs[b] + Cardinality(Holding(new, b))
                - Cardinality(Holding(old, b)) - Cardinality(Holding(old2, b))]
-----------------------------------------------------------------------------
Init ==
    /\ table = Nothing /\ local = Nothing /\ overlay = Nothing
    /\ comp = [pc |-> "off", after |-> "draw", retired |-> None, down |-> FALSE]
    /\ needsFrame = "no" /\ frameDue = FALSE
    /\ live = {} /\ mapped = {} /\ backend = FALSE
    /\ android = FALSE /\ inputWr = "closed" /\ stop = FALSE
    /\ host = [t \in Threads |-> Idle]
    /\ pipe = <<>> /\ refs = [b \in Buffers |-> 0] /\ owned = {}
    /\ stored = Zero /\ acked = Zero /\ shown = Zero /\ runs = 0

\* The process is gone, with the host that the compositor is a part of.
ProcessEnds ==
    /\ comp' = [comp EXCEPT !.pc = "crashed", !.retired = None]
    /\ table' = Nothing /\ local' = Nothing /\ overlay' = Nothing
    /\ needsFrame' = "no" /\ frameDue' = FALSE
    /\ live' = {} /\ mapped' = {} /\ backend' = FALSE
    /\ android' = FALSE /\ inputWr' = "closed" /\ stop' = FALSE
    /\ host' = [t \in Threads |-> Idle]
    /\ pipe' = <<>> /\ refs' = [b \in Buffers |-> 0] /\ owned' = {}
    /\ UNCHANGED history

\* A producer allocates or imports a buffer; it lets go of its own reference,
\* not before the call that passed the buffer on has returned.
Produce(b) ==
    /\ refs[b] = 0 /\ ~At("crashed")
    /\ refs' = [refs EXCEPT ![b] = 1] /\ owned' = owned \cup {b}
    /\ UNCHANGED <<table, comp, local, overlay, frame, scene, flags, host, pipe, history>>

Disown(b) ==
    /\ b \in owned /\ \A t \in Threads : host[t].buf # b
    /\ refs' = [refs EXCEPT ![b] = @ - 1] /\ owned' = owned \ {b}
    /\ UNCHANGED <<table, comp, local, overlay, frame, scene, flags, host, pipe, history>>
-----------------------------------------------------------------------------
\* gpu_bind_store: the entry of the key, or a new one unless the table is full.
HasSlot(k) == k \in Bound \/ Cardinality(Bound) < GPU_BIND_MAX

\* (A faulty one forgets to release the buffer it replaces.)
gpu_bind_storeLeaks(k, b) ==
    /\ HasSlot(k)
    /\ table' = [table EXCEPT ![k] = [buf |-> b, n |-> stored[k] + 1]]
    /\ stored' = [stored EXCEPT ![k] = @ + 1] /\ refs' = [refs EXCEPT ![b] = @ + 1]

gpu_bind_store(k, b) ==
    /\ HasSlot(k)
    /\ table' = [table EXCEPT ![k] = [buf |-> b, n |-> stored[k] + 1]]
    /\ stored' = [stored EXCEPT ![k] = @ + 1]
    /\ refs' = [x \in Buffers |-> refs[x] + (IF x = b THEN 1 ELSE 0)
                                          - (IF x = table[k].buf THEN 1 ELSE 0)]

\* send_msg: write() on a blocking pipe waits for room; a signal may end it.
Sent(msg) ==
    \/ inputWr = "open" /\ Len(pipe) < PipeMax /\ pipe' = Append(pipe, msg)
    \/ inputWr = "stdin" /\ UNCHANGED pipe
NotSent == (inputWr = "closed" \/ Interrupts) /\ UNCHANGED pipe

\* anlabwc_present_ahb and anlabwc_present_ahb_view: server.embed.android is
\* tested,
HostPresent(t, k, b) ==
    /\ host[t].pc = "idle" /\ android /\ b \in owned
    /\ stored[k] + Cardinality({u \in Threads : host[u].pc = "store" /\ host[u].key = k})
         < MaxPresent
    /\ host' = [host EXCEPT ![t] = [pc |-> "store", key |-> k, buf |-> b, n |-> 0]]
    /\ UNCHANGED <<table, comp, local, overlay, frame, scene, flags, pipe, refs, owned, history>>

\* the binding is stored, or refused,
HostStore(t) ==
    LET h == host[t] IN
    /\ h.pc = "store"
    /\ \/ /\ gpu_bind_store(h.key, h.buf)
          /\ host' = [host EXCEPT ![t].pc = "send", ![t].n = stored[h.key] + 1]
       \/ /\ ~HasSlot(h.key)
          /\ host' = [host EXCEPT ![t] = Idle]
          /\ UNCHANGED <<table, stored, refs>>
    /\ UNCHANGED <<comp, local, overlay, frame, scene, flags, pipe, owned, acked, shown, runs>>

\* and a redraw asked for; the caller learns whether that was sent.
HostSend(t) ==
    LET h == host[t] IN
    /\ h.pc = "send"
    /\ \/ Sent("redraw") /\ acked' = [acked EXCEPT ![h.key] = h.n]
       \/ NotSent /\ UNCHANGED acked
    /\ host' = [host EXCEPT ![t] = Idle]
    /\ UNCHANGED <<table, comp, local, overlay, frame, scene, flags, refs, owned, stored, shown, runs>>

\* anlabwc_pointer and anlabwc_key.
HostInput ==
    /\ inputWr # "closed" /\ Len(pipe) < InputMax /\ Sent("input")
    /\ UNCHANGED <<table, comp, local, overlay, frame, scene, flags, host, refs, owned, history>>

\* anlabwc_request_stop.  server.wl_display still points to the display when that is
\* freed: what a stop does then is undefined.
DisplayFreed == At("close") \/ At("release") \/ At("clear")

RequestStop ==
    /\ android
    /\ \/ /\ stop' = TRUE
          /\ UNCHANGED <<table, comp, local, overlay, frame, scene, android, inputWr, host,
                         pipe, refs, owned, history>>
       \/ DisplayFreed /\ ProcessEnds
-----------------------------------------------------------------------------
\* wlr_output.needs_frame is set.
AskFrame == IF needsFrame = "no" THEN "asked" ELSE needsFrame

\* anlabwc_embed_input_dispatch reads one message; a redraw is
\* wlr_output_schedule_frame.
\* (Faulty ones: the redraw is lost, or a frame is wanted that is not scheduled.)
DispatchDrops ==
    /\ At("loop") /\ pipe # <<>> /\ pipe' = Tail(pipe)
    /\ UNCHANGED <<table, comp, local, overlay, frame, scene, flags, host, refs, owned, history>>

DispatchUnscheduled ==
    /\ At("loop") /\ pipe # <<>> /\ pipe' = Tail(pipe)
    /\ needsFrame' = IF Head(pipe) = "redraw" THEN AskFrame ELSE needsFrame
    /\ UNCHANGED <<table, comp, local, overlay, frameDue, scene, flags, host, refs, owned, history>>

Dispatch ==
    /\ At("loop") /\ pipe # <<>>
    /\ pipe' = Tail(pipe)
    /\ IF Head(pipe) = "redraw" THEN needsFrame' = AskFrame /\ frameDue' = TRUE
                                ELSE UNCHANGED frame
    /\ UNCHANGED <<table, comp, local, overlay, scene, flags, host, refs, owned, history>>

\* The scene is damaged for a reason of its own.
Damage ==
    /\ At("loop") /\ needsFrame' = "damaged" /\ frameDue' = TRUE
    /\ UNCHANGED <<table, comp, local, overlay, scene, flags, host, pipe, refs, owned, history>>

\* handle_frame.
Frame ==
    /\ At("loop") /\ frameDue
    /\ comp' = [comp EXCEPT !.pc = "sync", !.after = "draw"]
    /\ frameDue' = FALSE
    /\ UNCHANGED <<table, local, overlay, needsFrame, scene, flags, host, pipe, refs, owned, history>>

\* gpu_overlay_sync: the table is copied under the lock,
SyncCopy ==
    /\ At("sync") /\ Goto("present")
    /\ local' = table /\ Exchange(table, Nothing, Nothing)
    /\ UNCHANGED <<table, overlay, frame, scene, flags, host, pipe, owned, history>>

\* gpu_resolve_bind: there is a view to draw the entry over,
Resolves(k) ==
    \/ k = Screen
    \/ k \in mapped
    \/ k \in Windows /\ NamedBy[k] \cap (IF k \in X11 THEN live ELSE mapped) # {}

\* and what resolves goes to wlr_android_present_ahb_slots.
\* (A faulty one keeps what no longer resolves.)
SyncPresentKeeps ==
    LET slots == [k \in Keys |-> IF Resolves(k) THEN local[k] ELSE overlay[k]] IN
    /\ At("present") /\ Goto(comp.after)
    /\ overlay' = slots /\ local' = Nothing
    /\ Exchange(slots, overlay, local)
    /\ UNCHANGED <<table, frame, scene, flags, host, pipe, owned, history>>

SyncPresent ==
    LET slots == [k \in Keys |-> IF Resolves(k) THEN local[k] ELSE Empty] IN
    /\ At("present") /\ Goto(comp.after)
    /\ overlay' = slots /\ local' = Nothing
    /\ Exchange(slots, overlay, local)
    /\ UNCHANGED <<table, frame, scene, flags, host, pipe, owned, history>>

\* The commit of the frame, skipped when nothing asks for one; blit_to_window
\* draws the overlay and the frame timer is started.
Draw ==
    /\ At("draw") /\ Goto("loop")
    /\ IF needsFrame # "no"
       THEN shown' = Numbers(overlay) /\ needsFrame' = "no" /\ frameDue' = TRUE
       ELSE UNCHANGED <<shown, frame>>
    /\ UNCHANGED <<table, local, overlay, scene, flags, host, pipe, refs, owned, stored, acked, runs>>

\* The output is given another mode: wlroots commits an empty buffer at once,
\* over which the overlay is drawn as it is, and the scene is damaged.
OutputCommit ==
    /\ At("loop") /\ shown' = Numbers(overlay)
    /\ needsFrame' = "damaged" /\ frameDue' = TRUE
    /\ UNCHANGED <<table, comp, local, overlay, scene, flags, host, pipe, refs, owned,
                   stored, acked, runs>>

\* The output is given the configuration it has: a commit of nothing, which draws
\* nothing and clears wlr_output.needs_frame.
Reapply ==
    /\ At("loop") /\ Reapplies
    /\ needsFrame' = IF needsFrame = "damaged" THEN "damaged" ELSE "no"
    /\ frameDue' = TRUE
    /\ UNCHANGED <<table, comp, local, overlay, scene, flags, host, pipe, refs, owned, history>>

-----------------------------------------------------------------------------
\* A client creates a surface; its view is mapped and unmapped.
NewSurface(s) ==
    /\ At("loop") /\ s \notin live /\ live' = live \cup {s}
    /\ UNCHANGED <<table, comp, local, overlay, frame, mapped, backend, flags, host, pipe,
                   refs, owned, history>>

MapView(s) ==
    /\ At("loop") /\ s \in live \ mapped /\ mapped' = mapped \cup {s}
    /\ UNCHANGED <<table, comp, local, overlay, frame, live, backend, flags, host, pipe,
                   refs, owned, history>>

UnmapView(s) ==
    /\ At("loop") /\ s \in mapped /\ mapped' = mapped \ {s}
    /\ UNCHANGED <<table, comp, local, overlay, frame, live, backend, flags, host, pipe,
                   refs, owned, history>>

\* surface_handle_commit with a buffer of android_wlegl:
\* gpu_overlay_present_surface, on the compositor thread.
SurfaceCommit(s, b) ==
    /\ At("loop") /\ s \in live /\ b \in owned /\ stored[s] < MaxPresent
    /\ gpu_bind_store(s, b) /\ Goto("send")
    /\ UNCHANGED <<local, overlay, frame, scene, flags, host, pipe, owned, acked, shown, runs>>

\* surface_handle_destroy: gpu_overlay_forget_surface removes the binding,
SurfaceDestroy(s) ==
    /\ At("loop") \/ At("teardown")
    /\ s \in live /\ live' = live \ {s} /\ mapped' = mapped \ {s}
    /\ table' = [table EXCEPT ![s] = Empty]
    /\ IF s \in Bound THEN comp' = [comp EXCEPT !.pc = "retired", !.retired = table[s].buf]
                      ELSE UNCHANGED comp
    /\ UNCHANGED <<local, overlay, frame, backend, flags, host, pipe, refs, owned, history>>

\* releases its buffer and syncs the overlay,
\* (or not, in a faulty one)
ReleaseRetiredOnly ==
    /\ At("retired")
    /\ refs' = [refs EXCEPT ![comp.retired] = @ - 1]
    /\ comp' = [comp EXCEPT !.pc = "send", !.retired = None]
    /\ UNCHANGED <<table, local, overlay, frame, scene, flags, host, pipe, owned, history>>

ReleaseRetired ==
    /\ At("retired")
    /\ refs' = [refs EXCEPT ![comp.retired] = @ - 1]
    /\ comp' = [comp EXCEPT !.pc = "sync", !.after = "send", !.retired = None]
    /\ UNCHANGED <<table, local, overlay, frame, scene, flags, host, pipe, owned, history>>

\* and asks for a redraw: the compositor thread writes to the pipe it reads.
Send ==
    /\ At("send") /\ Goto(Home)
    /\ Sent("redraw") \/ NotSent
    /\ UNCHANGED <<table, local, overlay, frame, scene, flags, host, refs, owned, history>>
-----------------------------------------------------------------------------
\* anlabwc_run sets up the pipe, the backend and the display,
Run ==
    /\ At("off") /\ runs < MaxRuns
    /\ comp' = [comp EXCEPT !.pc = "setup"]
    /\ android' = TRUE /\ inputWr' = "open" /\ stop' = FALSE /\ pipe' = <<>>
    /\ backend' = TRUE /\ needsFrame' = "damaged" /\ frameDue' = TRUE
    /\ runs' = runs + 1
    /\ UNCHANGED <<table, local, overlay, live, mapped, host, refs, owned, stored, acked, shown>>

\* reads its menu and theme and enters wl_display_run, which forgets a stop that
\* was requested before,
EnterLoop ==
    /\ At("setup") /\ Goto("loop") /\ stop' = FALSE
    /\ UNCHANGED <<table, local, overlay, frame, scene, android, inputWr, host, pipe, refs, owned,
                   history>>

\* leaves wl_display_run; server_finish destroys the clients first
\* (SurfaceDestroy),
Quit ==
    /\ At("loop") /\ stop
    /\ comp' = [comp EXCEPT !.pc = "teardown", !.down = TRUE]
    /\ UNCHANGED <<table, local, overlay, frame, scene, flags, host, pipe, refs, owned, history>>

\* Mutation: the backend is kept until nothing is drawn any more.
DestroyBackendUnused ==
    /\ At("teardown") /\ live = {} /\ overlay = Nothing /\ Goto("display")
    /\ backend' = FALSE /\ needsFrame' = "no" /\ frameDue' = FALSE
    /\ UNCHANGED <<table, local, overlay, live, mapped, flags, host, pipe, refs, owned, history>>

\* then the backend, whose output lets go of the overlay,
DestroyBackend ==
    /\ At("teardown") /\ live = {} /\ Goto("display")
    /\ backend' = FALSE /\ needsFrame' = "no" /\ frameDue' = FALSE
    /\ overlay' = Nothing /\ Exchange(Nothing, overlay, Nothing)
    /\ UNCHANGED <<table, local, live, mapped, flags, host, pipe, owned, history>>

\* and the display.  wlroots' compositor then asserts that nobody listens for new
\* surfaces, and android_wlegl.c still does: only a build without assertions goes on.
DestroyDisplay ==
    /\ At("display")
    /\ \/ ProcessEnds
       \/ /\ Goto("close")
          /\ UNCHANGED <<table, local, overlay, frame, scene, flags, host, pipe, refs, owned,
                         history>>

\* anlabwc_run closes the pipe,
CloseInput ==
    /\ At("close") /\ Goto("release")
    /\ inputWr' = "closed" /\ pipe' = <<>>
    /\ UNCHANGED <<table, local, overlay, frame, scene, android, stop, host, refs, owned, history>>

\* empties the table under the lock,
ReleaseTable ==
    /\ At("release") /\ Goto("clear")
    /\ table' = Nothing /\ Exchange(Nothing, table, Nothing)
    /\ UNCHANGED <<local, overlay, frame, scene, flags, host, pipe, owned, history>>

\* clears `server' to zeros, the descriptors too, and then corrects those.
ClearServer ==
    \/ /\ At("clear") /\ android
       /\ android' = FALSE /\ inputWr' = "stdin" /\ stop' = FALSE
       /\ UNCHANGED comp
       /\ UNCHANGED <<table, local, overlay, frame, scene, host, pipe, refs, owned, history>>
    \/ /\ At("clear") /\ ~android
       /\ inputWr' = "closed" /\ comp' = [comp EXCEPT !.pc = "off", !.down = FALSE]
       /\ UNCHANGED <<table, local, overlay, frame, scene, android, stop, host, pipe, refs,
                      owned, history>>
-----------------------------------------------------------------------------
HostCall(t) ==
    \/ \E k \in HostKeys, b \in Buffers : HostPresent(t, k, b)
    \/ HostStore(t)
    \/ HostSend(t)

Client ==
    \E s \in Surfaces :
        \/ NewSurface(s) \/ MapView(s) \/ UnmapView(s) \/ SurfaceDestroy(s)
        \/ \E b \in Buffers : SurfaceCommit(s, b)

Compositor ==
    \/ Dispatch \/ Frame \/ Damage \/ OutputCommit \/ Reapply
    \/ SyncCopy \/ SyncPresent \/ Draw \/ ReleaseRetired \/ Send
    \/ Run \/ EnterLoop \/ Quit \/ DestroyBackend \/ DestroyDisplay
    \/ CloseInput \/ ReleaseTable \/ ClearServer

Next ==
    \/ \E b \in Buffers : Produce(b) \/ Disown(b)
    \/ \E t \in Threads : HostCall(t)
    \/ HostInput
    \/ RequestStop
    \/ Client
    \/ Compositor

Spec == Init /\ [][Next]_vars

\* A thread inside a call goes on, and so does the compositor thread inside a
\* handler; each turn of the event loop serves every source that is ready and
\* tests display->run.
Fairness ==
    /\ \A t \in Threads : WF_vars(HostStore(t)) /\ WF_vars(HostSend(t))
    /\ WF_vars(SyncCopy) /\ WF_vars(SyncPresent) /\ WF_vars(Draw)
    /\ WF_vars(ReleaseRetired) /\ WF_vars(Send) /\ WF_vars(EnterLoop)
    /\ SF_vars(Dispatch) /\ SF_vars(Frame) /\ SF_vars(Quit)
    /\ WF_vars(\E s \in Surfaces : At("teardown") /\ SurfaceDestroy(s))
    /\ WF_vars(DestroyBackend) /\ WF_vars(DestroyDisplay) /\ WF_vars(CloseInput)
    /\ WF_vars(ReleaseTable) /\ WF_vars(ClearServer)

FairSpec == Spec /\ Fairness
-----------------------------------------------------------------------------
(***************************************************************************)
(* Properties.                                                             *)
(***************************************************************************)
\* Every variable has its type.
Shape ==
    /\ table \in [Keys -> Entry] /\ local \in [Keys -> Entry] /\ overlay \in [Keys -> Entry]
    /\ comp \in [pc : CompSteps, after : {"draw", "send"}, retired : Buffers \cup {None},
                 down : BOOLEAN]
    /\ needsFrame \in {"no", "asked", "damaged"} /\ frameDue \in BOOLEAN
    /\ mapped \subseteq live /\ live \subseteq Surfaces /\ backend \in BOOLEAN
    /\ android \in BOOLEAN /\ inputWr \in {"open", "closed", "stdin"} /\ stop \in BOOLEAN
    /\ host \in [Threads -> [pc : {"idle", "store", "send"}, key : HostKeys,
                             buf : Buffers \cup {None}, n : Nat]]
    /\ pipe \in Seq({"redraw", "input"})
    /\ owned \subseteq Buffers
    /\ stored \in [Keys -> Nat] /\ acked \in [Keys -> Nat] /\ shown \in [Keys -> Nat]
    /\ runs \in Nat

EmbedTypeOK == Shape /\ refs \in [Buffers -> Nat]

\* The reference count of a buffer is the number of those that refer to it: its
\* producer, the table, the copy gpu_overlay_sync works on, the overlay, and the
\* binding that is being retired.  So a buffer in use is never freed, and one
\* that nobody uses is never kept, whatever the threads of the host rebind while
\* the compositor composes outside the lock.
RefsAreCounted ==
    \A b \in Buffers :
        refs[b] = (IF b \in owned THEN 1 ELSE 0)
                + Cardinality(Holding(table, b)) + Cardinality(Holding(local, b))
                + Cardinality(Holding(overlay, b))
                + (IF comp.retired = b THEN 1 ELSE 0)

\* "Surface callbacks and overlay resolution share this compositor thread; no
\* dead surface is left in either table": between two handlers neither the
\* table nor the overlay refers to a surface that was destroyed.
NoDeadSurface ==
    At("loop") \/ At("teardown") =>
        \A s \in Surfaces \ live : table[s] = Empty /\ overlay[s] = Empty

\* The overlay is not handed to a backend that is gone, although
\* server.embed.android still points to it.
BackendIsThere == At("sync") \/ At("present") \/ At("draw") => backend

\* A wanted frame is always due: no redraw waits for a frame event that nothing
\* will emit.  A commit that the backend refuses is not modelled.
FrameIsDue == At("loop") /\ needsFrame # "no" => frameDue

\* The table and the screen keep the promise of module Presentation.
Promise == INSTANCE Presentation WITH bound <- Numbers(table), shown <- shown
KeepsPromise == Promise!Spec

\* The compositor thread waits for room in a pipe that nobody else reads.
WaitsForItself == At("send") /\ inputWr = "open" /\ Len(pipe) = PipeMax

\* When the caller of anlabwc_present_ahb was told 0, that buffer, or a later
\* one, is on the screen in the end, unless the run ends or the thread that would
\* show it waits for itself.  (Nor if the output is given its configuration anew in
\* between, with nothing else to draw: that is for instances without Reapplies.)
AckedIsShown ==
    \A n \in 1 .. MaxPresent :
        acked[Screen] >= n ~>
            (shown[Screen] >= n \/ stop \/ ~android \/ WaitsForItself)

\* anlabwc_run "blocks until anlabwc_request_stop() or the display loop ends":
\* a stop that is requested once the loop was entered never leaves a run that goes
\* on for ever, unless the thread that would end it waits for itself.  The run
\* returns, or else, with assertions, the process ends (DestroyDisplay).
StopEndsRun ==
    (stop /\ ~At("setup")) ~> (At("off") \/ At("crashed") \/ WaitsForItself)

\* What the compositor thread works on is there while it does: no surface in the
\* tables is dead, and no overlay goes to a backend that is gone.
TablesAreLive == EmbedTypeOK /\ NoDeadSurface /\ BackendIsThere
=============================================================================

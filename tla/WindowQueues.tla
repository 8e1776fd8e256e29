---------------------------- MODULE WindowQueues ----------------------------
(***************************************************************************)
(* Windows (gui/window.c, gui/drv_sw.c): when they are shown, hidden,      *)
(* focused and destroyed.  Any thread may ask for these; the event thread  *)
(* does them, once a pass of the event loop, in AG_WindowProcessQueued:    *)
(* it commits the change of focus, then walks the windows to show, to hide *)
(* and to detach, and posts events whose handlers call the same functions. *)
(*                                                                         *)
(* A window on the detach queue is hidden in one pass and destroyed in a   *)
(* later one.  agDrivers is locked in AG_WindowProcessQueued, so no other  *)
(* thread's call comes in between, except while the driver of a window is  *)
(* closed (drivers with a window each).                                    *)
(***************************************************************************)
EXTENDS AgQueue, TailqLinks, FiniteSets

CONSTANTS
  Window,      \* the windows the application makes
  Main,        \* those with AG_WINDOW_MAIN,
  Modal,       \* AG_WINDOW_MODAL,
  DenyFocus,   \* AG_WINDOW_DENYFOCUS,
  KeepBelow,   \* AG_WINDOW_KEEPBELOW,
  Fade,        \* AG_WINDOW_FADEIN and AG_WINDOW_FADEOUT
  Wm,          \* the kinds of driver: "single", "multiple"
  Made,        \* the windows made before the event loop begins, from the bottom up
  MaxCalls,    \* bound: calls of the application after that
  Liberties,   \* what the application may do beyond the rules (see below)
  NoWindow

ASSUME WindowAssumption == IsFiniteSet(Window)
ASSUME FlagAssumption == UNION {Main, Modal, DenyFocus, KeepBelow, Fade} \subseteq Window
ASSUME NoWindowAssumption == NoWindow \notin Window
ASSUME MadeAssumption == Made \in Seq(Window) /\ NoRepeats(Made)
ASSUME CallAssumption == MaxCalls \in Nat

VARIABLES
  wm,        \* the kind of driver, chosen once
  stack,     \* the attached windows, from the bottom of the stack up
  freed,     \* the windows that were destroyed
  visible,   \* win->visible
  detaching, \* AG_WINDOW_DETACHING
  owner,     \* win->parent, win->transientFor, win->pinnedTo
  subwins,   \* win->subwins
  modal,     \* the stack of modal windows
  vis,       \* links of agWindowShowQ ("show") and agWindowHideQ ("hide"): one field
  det,       \* links of agWindowDetachQ ("detach")
  fade,      \* the timer of a fade: "none", "in" or "out"
  opacity,   \* win->fadeOpacity: 1, or 0
  hiding,    \* the windows whose "widget-hidden" handlers AG_WindowHide waits for, the
             \* call made last at the end
  toFocus,   \* agWindowToFocus
  focused,   \* agWindowFocused
  pc,        \* the event thread: "events", or what AG_WindowProcessQueued is at
  cur, nxt,  \* the walk's entry, and the next one if it was saved
  calling,   \* handlers of an event posted to cur are running: "shown", "hidden",
             \* "lost", "gain", "freed"; or "no"
  hid, closed, \* a window was hidden; the main windows destroyed, in this walk
  fired,     \* the timers that expired in this pass
  quit,      \* AG_Terminate was called
  calls

linkvars == <<vis, det>>
treevars == <<stack, freed, detaching, owner, subwins>>
showvars == <<visible, modal, fade, opacity, hiding>>
focusvars == <<toFocus, focused>>
walkvars == <<pc, cur, nxt, calling, hid, closed, fired>>
windowvars == <<wm, treevars, showvars, linkvars, focusvars, walkvars, quit, calls>>

N == Cardinality(Window)
Walk(L, q) == LinkWalk(L, q, N, NoWindow)
On(L, q) == Entries(Walk(L, q))
Attached == Entries(stack)

WindowInit ==
  /\ wm \in Wm
  /\ stack = Made /\ freed = {} /\ detaching = {}
  /\ owner = [w \in Window |->
                [parent |-> NoWindow, transientFor |-> NoWindow, pinnedTo |-> NoWindow]]
  /\ subwins = [w \in Window |-> {}]
  /\ visible = {} /\ modal = << >>
  /\ fade = [w \in Window |-> "none"] /\ opacity = [w \in Window |-> 1]
  /\ hiding = << >>
  /\ vis = EmptyLinks({"show", "hide"}, Window, NoWindow)
  /\ det = EmptyLinks({"detach"}, Window, NoWindow)
  /\ toFocus = NoWindow /\ focused = NoWindow
  /\ pc = "events" /\ cur = NoWindow /\ nxt = NoWindow /\ calling = "no"
  /\ hid = FALSE /\ closed = FALSE /\ fired = {}
  /\ quit = FALSE /\ calls = 0

-----------------------------------------------------------------------------
(* Handlers of "widget-shown" and "widget-hidden" *)

\* OnShow, up to the posting of "window-shown"
Shown(w) ==
  /\ visible' = visible \cup {w}
  /\ modal' = IF w \in Modal THEN Append(modal, w) ELSE modal
  /\ opacity' = IF w \in Fade /\ wm = "multiple" THEN [opacity EXCEPT ![w] = 0] ELSE opacity

\* OnShow, from there on
ShownEnd(w) ==
  /\ toFocus' = IF w \in DenyFocus THEN toFocus ELSE w
  /\ fade' = IF w \in Fade THEN [fade EXCEPT ![w] = "in"] ELSE fade

\* AG_FOREACH_WINDOW_REVERSE: the topmost window that may have the focus.
Topmost(S) ==
  LET I == {i \in DOMAIN stack : stack[i] \in S \ DenyFocus}
  IN  IF I = {} THEN NoWindow ELSE stack[Max(I)]

\* (Mutant: a window that is hidden stays on the stack of modal windows.)
HiddenModal(w) ==
  /\ visible' = visible \ {w}
  /\ toFocus' = IF toFocus = w THEN NoWindow ELSE toFocus
  /\ focused' = IF focused = w THEN NoWindow ELSE focused
  /\ UNCHANGED modal

\* OnHide: with a driver for all windows, the focus goes to the topmost window.
Hidden(w) ==
  /\ visible' = visible \ {w}
  /\ toFocus' =
       IF wm = "single" /\ w = focused /\ Topmost(visible \ {w}) # NoWindow
       THEN Topmost(visible \ {w})
       ELSE IF toFocus = w THEN NoWindow ELSE toFocus
  /\ focused' = IF focused = w THEN NoWindow ELSE focused
  /\ modal' = IF w \in Entries(modal) THEN TailqRemove(modal, w) ELSE modal

-----------------------------------------------------------------------------
(* Calls of the application, from the event thread and from another one *)

\* "window-lostfocus" is posted to the window that has the focus, if there is one.
Handlers == {"shown", "hidden", "gain", "freed"} \cup (IF focused = NoWindow THEN {} ELSE {"lost"})

\* The event thread calls between events and from handlers; another thread when
\* agDrivers is not locked.
MayCall(th) ==
  /\ calls < MaxCalls
  /\ th = "main" => pc = "events" \/ calling \in Handlers
  /\ th = "other" => pc = "events" \/ (pc = "free" /\ calling = "freed" /\ wm = "multiple")
  /\ ~quit

Calls == calls' = calls + 1

\* Rules. A call is one that the application may make only with a liberty:
\* "pending": a window is shown or hidden while a request for it is queued;
\* "reshow": the handlers of "widget-hidden" show the window that AG_WindowHide hides;
\* "closing": windows are shown or detached while the detach queue is emptied;
\* "again": a window is detached that, or a dependent of which, is detaching;
\* "hidden": a window gets the focus that is not visible, or detaching;
\* "onfocus": a handler of a change of focus, or of "window-shown", hides a window;
\* "late": a window that is detaching is shown, or made to own or depend on another.
Rule(name, holds) == holds \/ name \in Liberties
Settled(w) == w \notin On(vis, "show") \cup On(vis, "hide")

\* AG_WindowNew: InitWindow, Attach, at the bottom or at the top of the stack.
WindowNew(th, w) ==
  /\ MayCall(th) /\ w \notin Attached \cup detaching
  /\ stack' = IF w \in KeepBelow THEN <<w>> \o stack ELSE Append(stack, w)
  /\ Calls
  /\ UNCHANGED <<wm, freed, detaching, owner, subwins, showvars, linkvars, focusvars, walkvars, quit>>

\* Window o and the windows it depends on.
Owners(o) ==
  LET C[k \in 0 .. N] ==
        IF k = 0 THEN {o}
        ELSE C[k - 1] \cup {owner[x].parent : x \in C[k - 1] \ {NoWindow}}
                      \cup {owner[x].transientFor : x \in C[k - 1] \ {NoWindow}}
  IN  C[N]

MayOwn(th, o, w) ==
  /\ MayCall(th) /\ {o, w} \subseteq Attached /\ w \notin Owners(o)
  /\ Rule("late", o \notin detaching /\ w \notin detaching)

\* AG_WindowAttach, with the AG_WindowDetach from the parent it had.
WindowAttach(th, o, w) ==
  /\ MayOwn(th, o, w) /\ owner[w].parent # o
  /\ owner' = [owner EXCEPT ![w].parent = o]
  /\ subwins' = [x \in Window |->
       IF x = o THEN subwins[x] \cup {w}
       ELSE IF x = owner[w].parent THEN subwins[x] \ {w} ELSE subwins[x]]
  /\ Calls
  /\ UNCHANGED <<wm, stack, freed, detaching, showvars, linkvars, focusvars, walkvars, quit>>

\* AG_WindowMakeTransient, AG_WindowPin
MakeTransient(th, o, w) ==
  /\ MayOwn(th, o, w) /\ owner[w].transientFor # o
  /\ owner' = [owner EXCEPT ![w].transientFor = o]
  /\ Calls
  /\ UNCHANGED <<wm, stack, freed, detaching, subwins, showvars, linkvars, focusvars, walkvars, quit>>
WindowPin(th, o, w) ==
  /\ MayOwn(th, o, w) /\ owner[w].pinnedTo # o
  /\ owner' = [owner EXCEPT ![w].pinnedTo = o]
  /\ Calls
  /\ UNCHANGED <<wm, stack, freed, detaching, subwins, showvars, linkvars, focusvars, walkvars, quit>>

\* An event is posted to w and its handlers begin to run; those of an event that is
\* posted from a handler run at once.
Posts(ev, w) ==
  IF calling = "no" THEN calling' = ev /\ cur' = w ELSE UNCHANGED <<calling, cur>>

\* AG_WindowShow: done by the event thread, asked for by another.
WindowShow(th, w) ==
  /\ MayCall(th) /\ w \in Attached \ visible
  /\ Rule("pending", Settled(w)) /\ Rule("late", w \notin detaching)
  /\ Rule("closing", pc \notin {"unmap", "free"})
  /\ Rule("reshow", w \notin Entries(hiding))
  /\ Calls
  /\ IF th = "other"
     THEN /\ vis' = LinkInsertTail(vis, "show", w, NoWindow)
          /\ UNCHANGED <<showvars, focusvars, walkvars>>
     ELSE /\ Shown(w)
          /\ Posts("shown", w)
          /\ IF calling = "no" THEN UNCHANGED <<toFocus, fade>> ELSE ShownEnd(w)
          /\ UNCHANGED <<hiding, vis, focused, pc, nxt, hid, closed, fired>>
  /\ UNCHANGED <<wm, treevars, det, quit>>

\* AG_WindowHide, up to the return of the handlers.
WindowHide(th, w) ==
  /\ MayCall(th) /\ w \in Attached \cap visible
  /\ Rule("pending", Settled(w))
  /\ Rule("onfocus", calling \notin {"lost", "gain", "shown"})
  /\ Calls
  /\ CASE w \in Fade \ detaching ->
            /\ fade' = [fade EXCEPT ![w] = "out"]
            /\ UNCHANGED <<vis, visible, modal, opacity, hiding, focusvars, walkvars>>
       [] w \notin Fade \ detaching /\ th = "other" ->
            /\ vis' = LinkInsertTail(vis, "hide", w, NoWindow)
            /\ UNCHANGED <<showvars, focusvars, walkvars>>
       [] OTHER ->
            /\ Hidden(w)
            /\ Posts("hidden", w)
            /\ hiding' = Append(hiding, w)
            /\ UNCHANGED <<vis, fade, opacity, pc, nxt, hid, closed, fired>>
  /\ UNCHANGED <<wm, treevars, det, quit>>

\* The handlers that the last AG_WindowHide waits for return: whatever they did, the
\* window is marked as hidden.
HideReturns ==
  LET n == Len(hiding) IN
  /\ hiding # << >>
  /\ visible' = visible \ {hiding[n]}
  /\ hiding' = SubSeq(hiding, 1, n - 1)
  /\ IF n = 1 /\ pc = "events" /\ calling = "hidden"
     THEN calling' = "no" /\ cur' = NoWindow
     ELSE UNCHANGED <<calling, cur>>
  /\ UNCHANGED <<wm, treevars, modal, fade, opacity, linkvars, focusvars, pc, nxt, hid, closed, fired, quit, calls>>

\* AG_WindowFocus: refused while a window is modal (drivers with a window each).
WindowFocus(th, w) ==
  /\ MayCall(th) /\ w \in Attached
  /\ Rule("hidden", w \in visible \ detaching)
  /\ toFocus' = IF (wm = "multiple" /\ modal # << >>) \/ w \in DenyFocus THEN toFocus ELSE w
  /\ Calls
  /\ UNCHANGED <<wm, treevars, showvars, linkvars, focused, walkvars, quit>>

\* The sequences f[x], for the entries x of s in turn.
Joined(s, f) ==
  LET J[i \in 0 .. Len(s)] == IF i = 0 THEN << >> ELSE J[i - 1] \o f[s[i]]
  IN  J[Len(s)]

\* The windows that Detach puts on the queue for w, in the order it does: first the
\* windows that depend on w, bottom up.  Were windows to depend on each other in a
\* circle, one would be met again in N + 1 calls.
DetachOrder(w) ==
  LET D[k \in 0 .. N + 1] ==
        IF k = 0 THEN [x \in Window |-> << >>]
        ELSE [x \in Window |->
               Joined(stack, [y \in Window |->
                 IF y # x /\ x \in {owner[y].parent, owner[y].transientFor}
                 THEN D[k - 1][y] ELSE << >>])
               \o <<x>>]
  IN  D[N + 1][w]

\* (Mutant: the wrong queue is named for the second.)
UnqueuedHide(L, w) ==
  LET L1 == IF w \in On(L, "hide") THEN LinkRemove(L, "hide", w, NoWindow) ELSE L
  IN  IF w \in On(L1, "show") THEN LinkRemove(L1, "hide", w, NoWindow) ELSE L1

\* A window that is on a visibility queue is taken off it.
Unqueued(L, w) ==
  LET L1 == IF w \in On(L, "hide") THEN LinkRemove(L, "hide", w, NoWindow) ELSE L
  IN  IF w \in On(L1, "show") THEN LinkRemove(L1, "show", w, NoWindow) ELSE L1

\* The windows ds are put on the detach queue, and taken off the others.
QueuedDetach(ds) ==
  LET L[i \in 0 .. Len(ds)] ==
        IF i = 0 THEN det ELSE LinkInsertTail(L[i - 1], "detach", ds[i], NoWindow)
  IN  L[Len(ds)]
UnqueuedAll(ds) ==
  LET L[i \in 0 .. Len(ds)] == IF i = 0 THEN vis ELSE Unqueued(L[i - 1], ds[i])
  IN  L[Len(ds)]

\* (Mutant: the windows pinned to it stay pinned.)
DetachPinned(ds) ==
  /\ detaching' = detaching \cup Entries(ds)
  /\ fade' = [x \in Window |-> IF x \in Entries(ds) THEN "none" ELSE fade[x]]
  /\ UNCHANGED owner
  /\ subwins' = [x \in Window |-> subwins[x] \ Entries(ds)]
  /\ det' = QueuedDetach(ds)
  /\ vis' = UnqueuedAll(ds)
\* Detach, for the windows ds: timers are cancelled, windows pinned to it unpinned.
DetachWindows(ds) ==
  /\ detaching' = detaching \cup Entries(ds)
  /\ fade' = [x \in Window |-> IF x \in Entries(ds) THEN "none" ELSE fade[x]]
  /\ owner' = [x \in Window |->
       IF owner[x].pinnedTo \in Entries(ds)
       THEN [owner[x] EXCEPT !.pinnedTo = NoWindow] ELSE owner[x]]
  /\ subwins' = [x \in Window |-> subwins[x] \ Entries(ds)]
  /\ det' = QueuedDetach(ds)
  /\ vis' = UnqueuedAll(ds)

\* AG_ObjectDetach, of a window.
ObjectDetach(th, w) ==
  LET ds == DetachOrder(w) IN
  /\ MayCall(th) /\ w \in Attached
  /\ Rule("again", NoRepeats(ds) /\ Entries(ds) \cap detaching = {})
  /\ Rule("closing", pc # "free")
  /\ DetachWindows(ds)
  /\ Calls
  /\ UNCHANGED <<wm, stack, freed, visible, modal, opacity, hiding, focusvars, walkvars, quit>>

\* AG_DestroyGUI: every window is detached. Rule "exit": no window depends on another
\* or is detaching.
DestroyGUI ==
  LET ds == Joined(stack, [w \in Window |-> DetachOrder(w)]) IN
  /\ quit /\ pc = "events" /\ calling = "no" /\ stack # << >>
  /\ \E w \in Attached : w \notin detaching
  /\ Rule("exit", NoRepeats(ds) /\ Entries(ds) \cap detaching = {})
  /\ DetachWindows(ds)
  /\ UNCHANGED <<wm, stack, freed, visible, modal, opacity, hiding, focusvars, walkvars, quit, calls>>

-----------------------------------------------------------------------------
(* Events *)

Idle == pc = "events" /\ calling = "no" /\ ~quit

\* ProcessInputEvent, a button is pressed; AG_WM_MoveBegin; AG_WindowFocusAtPos.
MouseButtonDown(w) ==
  /\ Idle /\ wm = "single" /\ w \in visible \ DenyFocus /\ w # focused
  /\ toFocus' = w
  /\ UNCHANGED <<wm, treevars, showvars, linkvars, focused, walkvars, quit, calls>>

\* GLX_ProcessEvent: the display tells that a window has the focus, or lost it. It
\* sends this for windows that are mapped ("stale": it had sent it before).
FocusIn(w) ==
  /\ Idle /\ wm = "multiple" /\ w \in Attached \ detaching
  /\ Rule("stale", w \in visible) /\ focused # w
  /\ focused' = w
  /\ UNCHANGED <<wm, treevars, showvars, linkvars, toFocus, walkvars, quit, calls>>
FocusOut(w) ==
  /\ Idle /\ wm = "multiple" /\ w \in Attached \ detaching /\ focused = w
  /\ focused' = NoWindow
  /\ UNCHANGED <<wm, treevars, showvars, linkvars, toFocus, walkvars, quit, calls>>

\* FadeTimeout: once a pass.
FadeTimeout(w) ==
  /\ Idle /\ fade[w] # "none" /\ w \notin fired
  /\ fired' = fired \cup {w}
  /\ CASE fade[w] = "in" ->
            /\ opacity' = [opacity EXCEPT ![w] = 1]
            /\ fade' = IF opacity[w] = 1 THEN [fade EXCEPT ![w] = "none"] ELSE fade
            /\ UNCHANGED vis
       [] fade[w] = "out" /\ opacity[w] = 1 ->
            /\ opacity' = [opacity EXCEPT ![w] = 0]
            /\ UNCHANGED <<fade, vis>>
       [] OTHER ->
            /\ opacity' = [opacity EXCEPT ![w] = 1]
            /\ fade' = [fade EXCEPT ![w] = "none"]
            /\ vis' = LinkInsertTail(vis, "hide", w, NoWindow)
  /\ UNCHANGED <<wm, treevars, visible, modal, hiding, det, focusvars, pc, cur, nxt, calling, hid, closed, quit, calls>>

-----------------------------------------------------------------------------
(* AG_WindowProcessQueued *)

\* A walk of queue q begins.
Begins(p, L, q) == pc' = p /\ cur' = L.first[q]

\* AG_WindowProcessFocusChange: AG_WM_CommitWindowFocus, or a request to the display.
ProcessQueued ==
  /\ pc = "events" /\ calling = "no" /\ ~quit
  /\ NoWindow # toFocus \/ {vis.first["show"], vis.first["hide"], det.first["detach"]} # {NoWindow}
  /\ fired' = {}
  /\ IF toFocus # NoWindow /\ wm = "single" /\ toFocus # focused
     THEN pc' = "focus" /\ cur' = toFocus /\ calling' = "lost" /\ UNCHANGED toFocus
     ELSE Begins("show", vis, "show") /\ toFocus' = NoWindow /\ UNCHANGED calling
  /\ UNCHANGED <<wm, treevars, showvars, linkvars, focused, nxt, hid, closed, quit, calls>>

\* AG_DestroyGUI: only the detach queue is processed, until it is empty.
DestroyQueued ==
  /\ pc = "events" /\ calling = "no" /\ quit /\ det.first["detach"] # NoWindow
  /\ Begins("unmap", det, "detach")
  /\ UNCHANGED <<wm, treevars, showvars, linkvars, focusvars, nxt, calling, hid, closed, fired, quit, calls>>

\* The handlers of "window-lostfocus" are done.
GainFocus ==
  /\ calling = "lost" /\ hiding = << >>
  /\ focused' = cur
  /\ stack' = IF cur \in KeepBelow THEN stack ELSE Append(TailqRemove(stack, cur), cur)
  /\ calling' = "gain"
  /\ UNCHANGED <<wm, freed, detaching, owner, subwins, showvars, linkvars, toFocus, pc, cur, nxt, hid, closed, fired, quit, calls>>

\* Those of "window-gainfocus" are: a request that a handler made is forgotten.
FocusChanged ==
  /\ calling = "gain" /\ hiding = << >>
  /\ toFocus' = NoWindow
  /\ calling' = "no"
  /\ Begins("show", vis, "show")
  /\ UNCHANGED <<wm, treevars, showvars, linkvars, focused, nxt, hid, closed, fired, quit, calls>>

\* AG_WindowProcessShowQueue, AG_WindowProcessHideQueue: whether visible or not.
ShowEntry ==
  /\ pc = "show" /\ calling = "no" /\ cur # NoWindow
  /\ Shown(cur)
  /\ calling' = "shown"
  /\ UNCHANGED <<wm, treevars, fade, hiding, linkvars, focusvars, pc, cur, nxt, hid, closed, fired, quit, calls>>

ShowEnd ==
  /\ pc = "show" /\ calling = "no" /\ cur = NoWindow
  /\ vis' = LinkInit(vis, "show", NoWindow)
  /\ Begins("hide", vis, "hide")
  /\ UNCHANGED <<wm, treevars, showvars, det, focusvars, nxt, calling, hid, closed, fired, quit, calls>>

HideEntry ==
  /\ pc = "hide" /\ calling = "no" /\ cur # NoWindow
  /\ Hidden(cur)
  /\ calling' = "hidden"
  /\ UNCHANGED <<wm, treevars, fade, opacity, hiding, linkvars, pc, cur, nxt, hid, closed, fired, quit, calls>>

HideEnd ==
  /\ pc = "hide" /\ calling = "no" /\ cur = NoWindow
  /\ vis' = LinkInit(vis, "hide", NoWindow)
  /\ Begins("unmap", det, "detach")
  /\ UNCHANGED <<wm, treevars, showvars, det, focusvars, nxt, calling, hid, closed, fired, quit, calls>>

\* AG_WindowProcessDetachQueue, first walk: windows that are visible are hidden.
UnmapSkip ==
  /\ pc = "unmap" /\ calling = "no" /\ cur # NoWindow /\ cur \notin visible
  /\ cur' = det.next[cur]
  /\ UNCHANGED <<wm, treevars, showvars, linkvars, focusvars, pc, nxt, calling, hid, closed, fired, quit, calls>>
UnmapEntry ==
  /\ pc = "unmap" /\ calling = "no" /\ cur \in visible
  /\ Hidden(cur)
  /\ hid' = TRUE
  /\ calling' = "hidden"
  /\ UNCHANGED <<wm, treevars, fade, opacity, hiding, linkvars, pc, cur, nxt, closed, fired, quit, calls>>

\* If there was one, the rest is for the next pass.
UnmapEnd ==
  /\ pc = "unmap" /\ calling = "no" /\ cur = NoWindow
  /\ IF hid THEN pc' = "events" /\ UNCHANGED cur ELSE Begins("free", det, "detach")
  /\ hid' = FALSE
  /\ UNCHANGED <<wm, treevars, showvars, linkvars, focusvars, nxt, calling, closed, fired, quit, calls>>

\* Second walk: "detached" and "window-detached" are posted and the window leaves the
\* stack; the next entry is read before.
FreeEntry ==
  /\ pc = "free" /\ calling = "no" /\ cur # NoWindow
  /\ nxt' = det.next[cur]
  /\ stack' = IF cur \in Attached THEN TailqRemove(stack, cur) ELSE stack
  /\ calling' = "freed"
  /\ UNCHANGED <<wm, freed, detaching, owner, subwins, showvars, linkvars, focusvars, pc, cur, hid, closed, fired, quit, calls>>

\* (Mutant: one window a pass, but the queue is emptied.)
FreeDoneFirst ==
  /\ calling = "freed" /\ hiding = << >>
  /\ freed' = freed \cup {cur}
  /\ closed' = (closed \/ cur \in Main)
  /\ cur' = NoWindow /\ nxt' = NoWindow
  /\ calling' = "no"
  /\ UNCHANGED <<wm, stack, detaching, owner, subwins, showvars, linkvars, focusvars, pc, hid, fired, quit, calls>>

\* AG_ObjectDestroy
FreeDone ==
  /\ calling = "freed" /\ hiding = << >>
  /\ freed' = freed \cup {cur}
  /\ closed' = (closed \/ cur \in Main)
  /\ cur' = nxt /\ nxt' = NoWindow
  /\ calling' = "no"
  /\ UNCHANGED <<wm, stack, detaching, owner, subwins, showvars, linkvars, focusvars, pc, hid, fired, quit, calls>>

\* The loop is told to end when the last main window is gone.
FreeEnd ==
  /\ pc = "free" /\ calling = "no" /\ cur = NoWindow
  /\ det' = LinkInit(det, "detach", NoWindow)
  /\ quit' = (quit \/ (closed /\ Attached \cap Main = {}))
  /\ closed' = FALSE
  /\ pc' = "events"
  /\ UNCHANGED <<wm, treevars, showvars, vis, focusvars, cur, nxt, calling, hid, fired, calls>>

\* The handlers of an event return, which a walk posted or AG_WindowShow: the walk
\* reads the next entry now.
HandlerReturns ==
  /\ calling \in {"shown", "hidden"} /\ hiding = << >>
  /\ IF calling = "shown" THEN ShownEnd(cur) ELSE UNCHANGED <<toFocus, fade>>
  /\ calling' = "no"
  /\ cur' = CASE pc = "events" -> NoWindow
              [] pc = "unmap" -> det.next[cur]
              [] OTHER -> vis.next[cur]
  /\ UNCHANGED <<wm, treevars, visible, modal, opacity, hiding, linkvars, focused, pc, nxt, hid, closed, fired, quit, calls>>

-----------------------------------------------------------------------------

Pass ==
  \/ ProcessQueued \/ GainFocus \/ FocusChanged
  \/ ShowEntry \/ ShowEnd \/ HideEntry \/ HideEnd
  \/ UnmapSkip \/ UnmapEntry \/ UnmapEnd
  \/ FreeEntry \/ FreeDone \/ FreeEnd
  \/ HideReturns \/ HandlerReturns \/ DestroyGUI \/ DestroyQueued

Application(th) ==
  \E w \in Window :
    \/ WindowNew(th, w) \/ WindowShow(th, w) \/ WindowHide(th, w)
    \/ WindowFocus(th, w) \/ ObjectDetach(th, w)
    \/ \E o \in Window : WindowAttach(th, o, w) \/ MakeTransient(th, o, w) \/ WindowPin(th, o, w)

Events ==
  \E w \in Window : MouseButtonDown(w) \/ FocusIn(w) \/ FocusOut(w) \/ FadeTimeout(w)

WindowNext == Pass \/ Events \/ \E th \in {"main", "other"} : Application(th)

\* The event loop runs its epilogues, and handlers return.
WindowSpec == WindowInit /\ [][WindowNext]_windowvars
FairWindowSpec == WindowSpec /\ WF_windowvars(Pass)

-----------------------------------------------------------------------------
(* Properties *)

\* The queues of windows stay lists, and no window is on both of those that use the
\* field visibility: TAILQ_FOREACH in AG_WindowProcessQueued ends, and meets every
\* window that was put on a queue, while handlers detach the windows it walks over and
\* other threads show and hide theirs.  It takes callers that do not ask for a window
\* twice: AG_WindowShow and AG_WindowHide do not look at what is queued ("pending").
QueuesSound ==
  /\ \A q \in {"show", "hide"} : WellLinked(vis, q, N, NoWindow)
  /\ WellLinked(det, "detach", N, NoWindow)
  /\ On(vis, "show") \cap On(vis, "hide") = {}
  /\ pc = "events" => On(det, "detach") = detaching \ freed

\* What the window system remembers is never a window that was destroyed: the focus
\* and the request for it, the stack of modal windows, the queues, and the owners and
\* subwins of the windows that are left.
NoDangling ==
  /\ freed \cap ({focused, toFocus} \cup Entries(modal) \cup On(vis, "show") \cup On(vis, "hide")) = {}
  /\ \A w \in Attached :
       freed \cap ({owner[w].parent, owner[w].transientFor, owner[w].pinnedTo} \cup subwins[w]) = {}

\* Exactly the visible modal windows are on the stack of modal windows, once each
\* (AG_Window.3: AG_WINDOW_MODAL prevents other windows from receiving input until the
\* modal window is closed): a window that stays there keeps AG_WindowFocus from working.
\* It takes handlers of "widget-hidden" that do not show the window again, which
\* AG_WindowHide would mark as hidden all the same ("reshow").
ModalMatches == NoRepeats(modal) /\ Entries(modal) = visible \cap Modal

\* A window that is detached is destroyed in the end (AG_Window.3: the detach
\* operation places the window on a queue, which is processed at the end of the
\* current event cycle).
DetachHonoured == \A w \in Window : w \in detaching ~> w \in freed
=============================================================================

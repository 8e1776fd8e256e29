# libagar: a verification development

TLA+ models of the Agar application framework (the sources under `src/`), the
TLC configurations that check them on small instances, and TLAPS proofs that
hold for every value of their constants.

## The system

Agar is a C library in layers. Agar-Core (`core/`) provides objects in a tree,
named events and their handlers, timers, an event loop, locks around all of
these, and services on top (serialization, dynamic loading, configuration, data
sources, databases, a web server). Agar-GUI (`gui/`) provides windows, widgets
and graphics drivers; Agar-AU, Agar-VG and Agar-Math are optional.

The parts interact in one way that makes the library hard to get right: almost
everything calls back into the application, and the callback may change the very
structure that is being walked. A pass of `AG_EventLoop` calls sinks, timers and
epilogues; those post events; handlers of events attach and detach objects,
start and cancel timers, add and delete handlers and sinks, from several threads.

## Inventory

| part | state | operations | what makes it correct | status |
| --- | --- | --- | --- | --- |
| tail queues (`core/queue.h`) | links | insert, remove, walk | entries in order, once | modelled (sequences, and links) |
| timers (`core/timeout.c`) | `agTimerObjQ`, `ob->timers`, ticks | AG_AddTimer, AG_DelTimer, AG_ResetTimer, AG_ProcessTimeouts | called once expired, never before; walks survive callbacks; wrapping ticks | modelled |
| sinks with timers (`core/event.c`) | timerfds, select's sets and timeout | AG_EventSinkTIMERFD, -TIMEDSELECT | wake up for each timer; descriptors neither leaked nor shared | modelled, kqueue not |
| event handlers (`core/event.c`) | `ob->events` | AG_SetEvent, AG_PostEvent, AG_ForwardEvent, AG_SchedEvent | each handler called once, none after it was deleted | modelled |
| event loop (`core/event.c`) | event source of each thread | AG_EventLoop, AG_AddEventSink, AG_Terminate | ready sinks called, requests to end honoured | modelled, kqueue not |
| locks (`core/object.h`, `core/threads.h`) | recursive mutexes | AG_ObjectLock, AG_LockVFS, AG_LockTimers | no deadlock, no race | modelled |
| object tree (`core/object.c`) | parent, root, children, deps | attach, detach, new, delete, find, page in and out | links agree, no cycle, objects are found, references counted | modelled |
| datafiles (`core/object.c`) | datafile, backup, dataset, dependencies, residency | AG_ObjectSave, AG_ObjectSaveAll, AG_ObjectLoad, AG_ObjectPageIn, AG_ObjectPageOut | a crash or a failure loses no data; what is said to be loaded is | modelled in part |
| windows (`gui/window.c`, `gui/drv_*.c`) | visibility, focus, modal stack, show/hide/detach queues | show, hide, focus, pin, detach | deferred operations applied once, no freed window remembered | modelled in part |
| web server (`core/web.c`) | processes, sockets, sessions | query, respawn, retry, logout | a query is answered, executed once, in its session | modelled in part |
| variables, classes, DSOs, tables, data sources (`core/`) | tables under locks | get, set, bind; register; load | consistent under concurrent use | planned |
| widgets (`gui/widget.c` and the widgets) | focus chains, ranges, undo, selections | draw, focus, edit, select | values in range, undo restores | planned |
| audio (`au/`) | one buffer, two threads | write, play, close | nothing lost, closing ends | planned |
| drawing, text, images, mathematics, bindings | | | | not modelled (below) |

`PROJECT.json` lists every part with its sources, and under `hazards` the places
where the code is exposed to what a test would hardly reach.

## Modules

* `AgQueue`: the AG_TAILQ macros; a queue is the sequence of its entries. The walks
  of the code keep pointers into queues: the models keep them as well, and where a
  walk reads the link of an entry that was removed, the stale link is state.
* `TimerService`: the abstract specification of timers: a timer is started, has
  ticks left, is called back when none is left, and is restarted or cancelled by
  the return value of its callback.
* `TimerQueues`: `agTimerObjQ`, the timers of objects, and the walk with its four
  pointers (`ob`, `obNext`, `to`, `toNext`), which two implementations share.
* `TimerWheel` (extends `TimerQueues`): software timers. `ticks` is modulo TickMod
  (2^32 in the code); expiry is the signed difference, insertion compares unsigned.
* `TimedSelect` (extends `TimerWheel`), `MCTimedSelect`: the sink of builds without
  threads, which sleeps in select until the first timer expires. Time passes in select
  and outside of it, so that timers are overdue when the sink computes its sleep.
* `TimerFd` (extends `TimerQueues`): the sink of Linux builds, a timerfd for each
  timer; `MCTimerFd` its instance. What the sink reads of a timer, where it walks on
  and after a callback (`SinkReads`), is compared with what was freed (`Cleared`).
* `Program`: the constants of the next three, which their proofs take together: a
  program's threads and objects.
* `EventDispatch`, `MCEventDispatch`: handlers, posting, propagation, asynchronous
  handlers. Each thread has a stack of calls, since handlers post events.
* `EventLoop`, `MCEventLoop`: event sources and the passes of AG_EventLoop.
* `LockOrder`, `MCLockOrder`: the calls of the other parts reduced to what they lock
  and access, in order (`DetachCall` is AG_ObjectDetach, and so on).
* `ObjectTree`, `MCObjectTree`: the object hierarchy with dependencies and timers.
  Objects are attached with what they contain, timers started on objects that have no
  parent, and references made between trees.
* `ObjectStore`, `MCObjectStore`: archives of a tree. A call holds the lock of the
  tree, so calls do not interleave, but a save is one action for each system call or
  part of the file (`Backup`, `SerializeGeneric`, `SerializeClass`, `CloseFile`), and
  `SaveFails` and `Crash` may come at each of them; after a crash a prefix of the file
  is left. The rename of the old archive may fail, unnoticed (`unmoved`). `want`, `held`, `paged`, `saved`, `cut` and `tree` are what the application
  has been told, which the properties compare with the memory and the disk.
* `TailqLinks`: the same macros on the links themselves (first, last, next and the
  address of the previous link), where an entry can be inserted twice, or removed
  from a queue it is not on, as `core/queue.h` would.
* `WindowQueues` (extends `AgQueue`, `TailqLinks`), `MCWindowQueues`: windows, with the
  three queues as links (show and hide share one field). `pc` is where
  AG_WindowProcessQueued is: it stands on an entry, calls handlers that make any call,
  and goes on from the saved or the current entry, as each loop does. A hide that posts
  widget-hidden is two actions: `WindowHide`, and `HideReturns` when the handlers are
  done, which marks the window as hidden; `hiding` holds it in between. Focus commits,
  fades, the modal stack and the closing of the last main window are included, for
  drivers with one display (`"single"`) and with a window of the window manager each
  (`"multiple"`).
* `WebServer`, `MCWebServer`: frontends, workers, sessions, their sockets. A step is
  what a process does between two system calls that others can see: connect, write,
  wait for the header of a response (`Response`, which can time out), read its body
  (`ResponseBody`, which cannot), fork and wait on the pipe, accept, read and execute,
  unlink. A query is a command, one whose response is compressed, a HEAD or a logout.
  Processes are killed, responses time out, and a frontend is restarted.
* `AgQueue_proofs`, `TimerQueues_proofs`, `TimerWheel_proofs` (which covers
  `TimedSelect`), `TimerFd_proofs`, `Events_proofs` (which covers `EventDispatch`,
  `EventLoop` and `LockOrder`), `Objects_proofs` (which covers `ObjectTree`,
  `TailqLinks` and `WindowQueues`), `ObjectStore_proofs`, `WebServer_proofs`: theorems
  and lemmas.

Actions are named after the functions they model; a function that calls back is
split where it does, with the calls a callback makes in between. Memory is a set of
structures that can be free or in use; malloc does not fail. What the application
does is an action with any argument, restricted by *rules*: constants that name what
callbacks keep to. A rule marks a place where the code does not survive every use;
it is listed below under what happens without it.

Definitions marked "(Mutant: ...)" are plausible mistakes. Replacing the definition
after them by one of these makes TLC find the property named in `PROJECT.json`
violated; they play no other part.

## Runs

| run | instance | shows |
| --- | --- | --- |
| TimedSelect | 2 objects, 2 timers (one auto-allocated), intervals 1 and 2, ticks modulo 11, late by 1 at a time | the queues stay consistent, no use after free, no sleep past the next expiry, nothing is early, the service is implemented |
| TimerFd | 2 objects, 2 timers (one auto-allocated), 3 descriptors, overdue by up to 2 | descriptors neither leaked nor shared, no freed timer is read but by FD_CLR after a callback that cancelled its own, the service is implemented, expired timers are served |
| EventDispatch | a tree of 3 levels of which two propagate, 3 handlers, 2 threads, nesting 2 | no use after free, each event delivered to all |
| EventLoop | the main thread, 3 sinks on 2 events, a spinner, an epilogue | no use after free, no event missed, requests and events are served |
| LockOrder | a tree of 3 levels, 2 threads | lock hierarchy, no deadlock, no race |
| ObjectTree | 3 objects | forest, paths, counts of references |
| ObjectStore | a root and 2 children, 2 classes, one save cut short, 5 calls | nothing saved is lost if the old archive was renamed, loaded data is whole, right and has its dependencies, a saved tree loads |
| WindowQueues | a main window, a modal dialog and a window that fades, 4 calls from handlers, timers and another thread, both kinds of driver | the queues stay lists, nothing remembers a destroyed window, the modal stack matches, a detached window is destroyed |
| WebServer | 2 frontends, 2 sessions, 2 workers, 2 connections, 2 queries, 1 fault | no query executed twice or outside its session, no response to the wrong client, every query but HEAD is answered |
| LockDeadlock, WindowDetach, ObjectPaging | the same, or smaller, with the rule in question lifted | disagreements of code and documentation (see Findings) |

Bounds. Two timers are the least for which one callback can cancel the timer the
walk has saved, two objects the least for which the next object can go; with three
descriptors for two timers, a number is reused and another stays free. Ticks modulo 11 wrap in every
long behaviour, and an interval and the lateness of two callbacks (MaxLag each) stay
below half of it, as the signed comparison needs. Three handlers are the one that runs, one that it deletes and one that it
adds; three objects give a tree of depth three as well as siblings, and in EventDispatch
two levels that propagate over one that does not. Three sinks on
two events let a function delete a sink that was reported, before and after its
place in the walk. In WindowQueues, three windows
are one that has the focus, one it depends on or stacks over, and one that fades; four
calls let a request be queued, another made by a handler during the walk, and two more
by a timer or another thread while that is processed. In ObjectStore five calls reach
edit, save (cut short), restart, load and a second save or page-in; two classes give a
dataset of which one part is read and the other not. In WebServer one fault is enough
for a worker to be replaced, by both frontends at once, while the old one still runs;
two queries let the response to the first come in when the second waits. In ObjectTree
one entry in a dependency table and two counts, below and at DepMax, show a count that
is wired and then released. MaxLag,
MaxDepth, MaxDeps, MaxRefs, NFds, MaxCalls, MaxFaults, MaxVer, MaxPid, MaxConn,
MaxQuery and MaxFault bound counters and are named in the modules. Symmetry is used
where structures are interchangeable and no liveness is checked. ObjectTree,
ObjectStore, WindowQueues and WebServer are run without the deadlock check: the
application may stop with nothing left that the bounds allow.

Fairness. `WF(EventSink)` and `WF(Pass)`: AG_EventLoop runs for ever and callbacks
return. `WF(Tick)`: time passes. Nothing is assumed of mutexes, which need not be handed
over fairly: LockOrder has safety properties only, and a thread may starve.
In WindowQueues, `WF(Pass)`: the event loop calls AG_WindowProcessQueued again and
its handlers return. In WebServer, `WF(Processes)`: some process that can take a step
takes one; nothing obliges a client to send a query, a worker to idle out, or the end of
a file to be seen (descriptors that forked workers inherit delay it).
Nothing is assumed of the application, of signals or of I/O.

## Rules, and what happens without them

* Timers: `MayCancel` (a callback cancels its own timer, those of other objects, not
  a peer on its own object); `MayRearm = {"behind"}`: AG_AddTimer of a running timer
  with an interval that puts it before an earlier entry links it twice, and the list
  becomes cyclic (`core/timeout.c:101`, although the comment at `:56` describes
  re-adding as supported). Intervals that straddle the wrap of the tick counter are
  inserted in unsigned order (`:101`), so a list is not in order of expiry then.
* TimedSelect: `Spinners = FALSE`: with spinners, `t` is not assigned before it is given
  to AG_ProcessTimeouts (`:1465`). Timers may be late; one that is
  overdue when the sink looks at it has a negative time left, which becomes a sleep of 49
  days or until another timer expires (`core/event.c:1446`). What is left
  to say of the sleep is SleepsToNext, that timers which are not overdue are waited for
  no longer than they have left. Expired timers are therefore not always served, and no
  run claims it of this sink.
* TimerFd: `OnReported`: a callback that closes a descriptor which select reported,
  and starts a timer that gets the same number, has it called at once (`:1323`).
  A callback that cancels its own timer breaks no rule, and the run has it. If the timer
  was auto-allocated, the sink then reads the freed structure (`:1338`): `Cleared` lets
  that read yield any descriptor, and NoFreedTimerRead names it (`FreedByItself`) as the
  one read of a freed timer that there is.
* EventDispatch: a handler does not delete the event it is called through
  (AG_UnsetEvent frees it); AG_SchedEvent is called without arguments, which would
  overwrite the sender and the name that EventTimeout reads (`:559`, against the
  comment at `:532`); a handler has not both of AG_EVENT_PROPAGATE and
  AG_EVENT_ASYNC, which is forwarded to nobody (`:440`). Handlers may
  propagate at any level, as those of all widgets do (`gui/widget.c:332`), and events
  are then delivered twice (`:284` and `:451`).
* EventLoop: `Liberties = {}`. A function that deletes its own sink leaves the walk on
  freed memory ("self"); one that registers a sink in the list that is being walked, for
  an event that was reported, can keep the walk going for ever ("grow"), which is the
  only addition the rules forbid; AG_Terminate before the first pass ("early"), and a
  second AG_EventLoop after a first was ended ("again", breakReq is never reset), find
  select asleep. A second thread with a loop breaks no rule, but its sinks are never called
  (`:1274`, `:1424`): the run has the main thread alone.
* ObjectTree: "leaves": the application *detaches* only objects without children. One
  that has some takes the root pointers of the tree along, whatever it is attached to
  next, and what is destroyed is then still the root of others. Attaching an object with
  children is no breach: it leaves stale roots as well (`core/object.c:412`),
  and the properties of the passing run hold all the same. "names": without
  it a sibling hides another.
* TimerWheel, TimerFd: with a peer in `MayCancel`, a callback that cancels the other
  timer of its object has it called all the same, and read after free if it was
  auto-allocated (`core/timeout.c:338`), although `core/AG_Timer.3:209` says that "in
  the timer callback routine, it is safe to make AG_AddTimer or AG_DelTimer calls".
  With `Threads = TRUE`, a timer that another thread starts while the loop sleeps is in
  none of the sets select waits for, and ExpiredServed is violated
  (`core/event.c:1299`, against `core/AG_Timer.3:162`).
* LockOrder: the calls of the passing run are those that lock from the root down and
  agTimerLock last; the event loop's are in run LockDeadlock, and the dispatch of an event
  that propagates from an object below the root is in `Propagating`.
* WindowQueues, by the names in `Liberties`. "pending": a window shown or hidden while a
  request for it is queued is on both queues through one link, or twice on one, and a
  hide after a queued show is dropped since win->visible is not set yet
  (`gui/window.c:941`-`993`): QueuesSound is violated. "again": run WindowDetach. "reshow": a
  handler of widget-hidden shows the window that is being hidden, which then marks it as hidden (`:986`):
  ModalMatches is violated. "closing": a window detached by
  the handlers of the walk that frees windows is dropped by the TAILQ_INIT after it
  (`:2127`). "hidden": AG_WindowFocus of a window that is hidden or being detached leaves
  agWindowFocused dangling. "onfocus": handlers of focus changes that hide windows, or
  ask for the focus, have their requests forgotten or applied to a hidden window.
  "stale": a FocusIn of the window system that arrives after the window was hidden.
  "exit": AG_DestroyGUI (`gui/gui.c:326`) detaches dependent windows twice. "late": a
  window shown while it is being detached goes to the show queue after Detach took it
  off, is shown twice and pushed twice on the modal stack (`:2020`).
* ObjectStore, by the names in `Liberties`. "again": run ObjectPaging. "reload":
  AG_ObjectLoad frees the datasets of the children, does not load them, and leaves
  AG_OBJECT_RESIDENT set, so that no page-in brings them back. "blind": AG_ObjectSaveAll
  then writes the empty datasets over the archives, and the next save follows dep->obj
  of a dependency that was not found (NoNullDep). Within the rules some properties
  are weaker than one would wish: Recoverable holds until a *second* save is cut short,
  for the retry renames the partial file over the good backup, and only if the old archive
  could be renamed (BackedUp says it without that condition); after a crash between the rename and the new
  file, AG_ObjectPageIn finds nothing, returns 0 and marks an empty dataset resident, with
  the data in the .bak file that nothing reads. Truthful counts that as the truth: once a
  save was cut short, what is expected is what is found.
* WebServer: no rule, but the `Kinds` of the run have no compressed responses
  ("deflate"), and Answered speaks of the queries other than HEAD, as long as no frontend
  is stuck in the body of one: the body of a response is read without a time limit, and
  both kinds make a frontend and its worker wait for each other (`core/web.c:3879`,
  `:3837`; BodyToCome is violated).

## Findings

Three runs end with a counterexample, against a sentence of the documentation (quoted in
`PROJECT.json`).

* LockDeadlock: AG_ProcessTimeouts takes agTimerLock and then the object's lock,
  AG_AddTimer the reverse.
* WindowDetach: a window that is detached while it is on the detach queue is inserted
  again; its link points to itself, and the walk never ends. (AG_CloseFocusedWindow
  twice in one batch of events does so.)
* ObjectPaging: a successful page-in does not set AG_OBJECT_RESIDENT; a second one
  reloads the archive over what was edited. (`gui/objsel.c:137` pages in on each
  selection.)

The models show more of them. TLC finds each of these counterexamples on the instance of
the run named, when the cfg is changed as said and given the one property.

| run | change | property violated | what the code does |
| --- | --- | --- | --- |
| TimedSelect | none | SleepBounded | a timer that is overdue when the sink computes its sleep does not shorten it: 49 days, or until another expires (`core/event.c:1446`) |
| TimedSelect | `Spinners = TRUE` | ImplementsService | timers are processed for a time that was never read (`core/event.c:1465`) |
| EventDispatch | none | DeliveredOnce | where handlers at two levels propagate, those below get the event twice (`core/event.c:612`; `core/AG_Event.3:624`) |
| EventDispatch | `Object = {win, box}`, `Flags <- BothFlags` | DeliveredToAll | an event both propagated and asynchronous reaches no child (`core/event.c:437`; `core/AG_Event.3:625`) |
| EventLoop | `Thread = {main, worker}`, `Sink <- MCSink1`, `ListOf <- MCListOf1`, `EventOf <- MCEventOf1`, `Event <- MCEvent1` | ReadySinkCalled | what another thread registers is polled by no loop (`core/event.c:1424`; `core/AG_EventLoop.3:55`, `:75`) |
| LockOrder | `Calls <- Propagating` | NoDeadlock | a handler that propagates has the receiver locked when it locks the root (`core/event.c:457`), AG_ObjectAttach the other way round |
| ObjectTree | none | RootsAgree | what an attached object contains keeps its old root, and AG_LockVFS on it locks another mutex (`core/object.c:412`; `core/AG_Object.3:248`) |
| ObjectTree | none | NoDanglingDep | AG_ObjectInUse finds no reference from another tree (`core/object.c:343`; `core/AG_Object.3:732`) |
| ObjectTree | none | NoOrphanTimer | an object without a parent is destroyed with its timers running (`core/object.c:790`; `core/AG_Timer.3:44`) |
| WindowQueues | `WindowSpec`, `Liberties = {"pending"}` | QueuesSound | a window shown or hidden twice by another thread is twice in a queue (`gui/window.c:949`) |
| WindowQueues | `WindowSpec`, `Liberties = {"reshow"}` | ModalMatches | a window shown by a handler of its own hide is mapped and modal, but marked hidden (`gui/window.c:986`) |
| WebServer | `Spec`, `Kinds = {"head"}` | BodyToCome | the worker announces a length and sends no body, the frontend waits for it, the worker for the next query (`core/web.c:1288`, `:3879`) |
| WebServer | `Spec`, `Kinds = {"deflate"}` | BodyToCome | what was read with the header is passed on and not counted, and waited for again (`core/web.c:3837`) |
| ObjectStore | none | BackedUp | the rename of the old archive fails unnoticed, and the save empties the only copy (`core/object.c:1476`) |
| ObjectStore | `Liberties = {"blind"}` | NoNullDep | saving an object of which a dependency was not found follows NULL (`core/object.c:1545`) |

A sixteenth needs no counterexample: FreedByItself, above.

Met while reading, and not run: AG_TIMER_SURVIVE_DETACH is honoured nowhere;
AG_PostEvent is documented to return a value; EventTimeout runs the first matching
handler only; AG_ObjectNew checks a name and attaches in two critical sections;
AG_ObjectMoveUp and its siblings lock the tree of an object before they test that
it has a parent; epilogues are documented as called on exit and run in every pass;
drv_glx.c:201 and drv_wgl.c:220 delete a spinner with AG_DelEventSink.
AG_OBJECT_CHLD_AUTOSAVE is documented (`core/AG_Object.3:1092`) to save the children
with the object, but only their table is written, and without AG_ObjectSaveAll the tree
cannot be loaded; errors of fclose are ignored; without agObjectBackups the datafile is
deleted first; an archive that is too short ends the program (AG_DataSourceError).
Web server: WEB_SessionSave (`core/web.c:3275`) re-creates the file of a session that
was logged out meanwhile; the path that a restored session unlinks at logout is never
set (`:4315`); a frontend that respawns a worker, and an idle worker that ends, unlink a
socket that another's new worker may just have bound (`:3447`, `:4302`), which leaves a
worker nobody can reach; WEB_PostEventS returns at the first stale socket (`:2853`), and
its match "*" (comment at `:2776`) only matches a user of that name.
Audio: AU_DevPaThread (`au/au_dev_pa.c:81`) waits for rdRdy without looking at bufSize
first, so frames written while it does not wait stay until the next write, and those in
the buffer at close are dropped; AU_DevFileThread (`au/au_dev_file.c:84`) compares the
~1 ms of silence it wrote with the frames of a whole second, so every silence sets
AU_DEV_OUT_ERROR; AU_OpenOut returns without freeing when the driver cannot open.

## Proofs

The proofs are for any number of objects, timers, threads, descriptors, processes,
queries, faults and calls: the constants that bound a run are arbitrary in them. A rule
that the application keeps (above) is a hypothesis of the theorem that needs it, and of
no other; each is an operator named in the proof module, and the configuration of the
run that checks the property satisfies it.

* `AgQueue_proofs`: what insertion and removal do to the entries, the absence of
  repeats, the order of what is left and the length; and that a function defined
  step by step on 0..n exists, for the operators that are recursive functions, and has
  what each step preserves (`StepsKeep`).
* Timers: consistency (`TimerQueues_proofs`, `TimerWheel_proofs`, `TimerFd_proofs`).
  `agTimerObjQ` holds each object with running timers, once, and each running timer
  is linked once, on the object it points to. By itself that is not inductive: the
  walk removes the timer it holds, so its pointers must be shown to be typed and, at
  a callback, to belong to the object of the walk. `FdsOwned` adds that `tfd` is
  injective on running timers and that nothing else is open.
* Timers: no freed timer is read by either sink. For select (NoUseAfterFree) callbacks
  must cancel no peer (`NoPeers`; without it the property is false, see above). The
  invariant is `WalkSafe`: the timer the walk is at runs on the object it is at, and in a
  callback the saved next timer runs there too and is not the one called back. For timerfd
  (NoFreedTimerRead) the same invariant is all that is needed, and other threads may
  cancel any timer.
* Timers: SleepsToNext of the select sink, for any intervals, modulus and lateness, with
  no hypothesis: it is computed from the very queue that consistency is proved of, and the
  two lemmas behind it are on differences modulo TickMod.
* Timers: both sinks implement `TimerService` (ImplementsService), under NoPeers; for
  select without spinners, with intervals and lateness within half of the counter's range
  (`InRange`), and timers overdue or not; for timerfd under `OneThread` (no other thread
  starts timers, no callback reuses a descriptor that was reported). Each step is mapped
  to a step of the service or a stutter. The hard step is the call of a timer, which the
  service allows only when it has expired. For select the walk uses the time at which
  the sink went to sleep, so the invariant says that no timer's time left exceeds
  what the signed comparison can tell from the past. For timerfd, `WalkOrder` says that a
  timer armed again since select returned stands behind the walk, whatever callbacks do
  to the lists.
* `Events_proofs`: the locks of `LockOrder`. A thread holds what Depth says for its
  position in its call (TypeOK), no lock is held by two threads, and where threads wait
  for each other in a circle, one of them waits for a lock that is not below one it holds
  (DeadlockIsOutOfOrder): the one that waits for the lowest lock of the circle. So a
  deadlock is always the fault of one call, and the calls can be examined one by one; the
  calls that deadlock, of the run LockDeadlock and in `Propagating`, are of this kind. If two calls hold a lock in common where one
  writes what the other accesses (`GuardedCalls`), no two threads do so at once (NoRace).
* `Events_proofs`: NoUseAfterFree of `EventDispatch`, with no hypothesis besides the rule
  of the model that no handler deletes the one it is called through. `DispatchInv`
  says that a handler in use is named and in one list, and that a call, in any thread
  and at any depth, is at a handler of its receiver's list: the lock of the receiver
  keeps other threads from editing it, and the handlers of this thread delete none that
  a call is at.
* `Events_proofs`: DeliveredToAll, if no handler has both of AG_EVENT_PROPAGATE and
  AG_EVENT_ASYNC (`NotBoth`; it is needed, see Findings), with handlers that
  propagate at any levels of a tree of any depth. `CompleteInv` says of the calls of the
  event that each handler it is due
  to was called or is one the walk of its list has yet to come to (`Yet`), or belongs to
  a descendant still to be forwarded to. Needed for it: FirstMatch and NextMatch pass no
  handler of the name (MatchOrder), inserting and removing others keeps the order of
  those the event is due to (RemoveKeepsOrder), and the handler that a walk is at is
  still linked (DispatchInv). The property is one of steps, the invariant's use at the
  step that empties the stack (ReturnsComplete). That an event is delivered once is false
  (see Findings) and not claimed.
* `Events_proofs`: NoFreedSink and PassComplete of `EventLoop`, if one thread runs a
  loop (`OneLoop`) and no function deletes its own sink ("self").
  `LoopInv` says that the walk is at a linked entry (`WalkInv`), and that a sink reported
  and not yet called is linked and ahead of the walk (`OwedInv`: edits keep the order of
  what they leave). The other liberties are unrestricted.
* `Objects_proofs`: TreeConsistent and RefsCounted, with no hypothesis. `TreeInv` says
  that parent pointers and lists agree, without repeats, only live objects are linked, and
  there is no cycle, stated as: every nonempty set has an element whose parent is
  outside. `CountInv` says that an entry exists for every reference held.
* `Objects_proofs`: PathFinds, assuming "leaves" (of what is detached; what is attached may
  have children, and root pointers be stale) and "names". `NamesInv` says that
  siblings have different names; a generated name is free, since otherwise the numbers
  up to that of all objects would name as many different children (this is what the
  set of objects must be finite for). CopyName and FindS are recursive functions: that
  paths exist follows from the absence of cycles, and that of a path with one more
  name leads one child further, by induction on its length.
* `Objects_proofs`: the links of `TailqLinks`, for any entries and any queues that
  share a link field. `Links` says that first, last, next and the address of the
  previous link are those of a sequence. The macros do to that sequence what the
  operators of AgQueue do (`InsertTailOfList`, `RemoveOfList`, `InitOfList`; `WalkOfList`
  reads it back) and leave the other queues alone, if an entry is on one of them at
  most. This is where a second insertion through one link goes wrong.
* `Objects_proofs`: QueuesSound, NoDangling and ModalMatches of `WindowQueues`, if the
  application takes none of its liberties (`WindowRules`, as the run does). None of the
  three is inductive: what a walk does at an entry depends on what it did before, and
  handlers change the queues meanwhile. `WindowInv` (found inductive on the run's
  instance first) says, besides that the queues are lists and who is on which (`Places`), a window that is being hidden
  included:
  - the walk of the show or hide queue stands in a list of what was there when it began
    (`Walked`): links still lead forward in it, though an entry that a handler took off
    keeps its stale link, and everything ahead is still to be done or detaching.
    So no window is shown twice, and no entry is reached again;
  - the walk that hides the windows to be detached leaves none visible behind it unless
    it then puts off their destruction (`UnmapWalk`), and the one that destroys has
    destroyed exactly what is behind it (`FreeWalk`): what TAILQ_INIT drops is done;
  - a window that depends on one that goes is on the detach queue *before* it, or
    destroyed, and nothing that stays is pinned to it or has it as a subwindow
    (`OwnersRight`); the focus is at a visible window (`Focus`), a window fades out only
    when it is visible and no request for it is queued (`FadeRight`).

  The hard step is AG_ObjectDetach, which recurs over the windows that depend on w and
  queues them first. The rule "again" says that it meets no window twice; that it then
  queues each before those it depends on is `DetachInOrder`: a sequence out of order
  would be as long as the calls are deep, that is longer than there are windows (which is
  what the set of windows must be finite for). Queueing one after another (`QueuedInOrder`,
  `UnqueuedEach`) is a recursive function of the links, by induction on its length.
* `ObjectStore_proofs`: Recoverable, whatever rules are broken; it says nothing of an object
  whose old archive could not be renamed, which is lost (BackedUp). Alone it is not
  inductive: while a save goes on, what the file will be must be known. `SaveInv` adds
  `Shape` (files, backups and what was saved are one per object, and cut counts to 2)
  and `Phases` (once the datafile was moved aside the save counts as begun, and while
  classes are written, those already in the file are those in memory).
* `ObjectStore_proofs`: DepsResolved, whatever rules are broken, and Reloadable, if nothing
  is saved that the application was not told is in memory (`NotBlind`). `TreeInv` says
  that what is told to be loaded has its dependencies resolved, to objects of the tree;
  and, if the rule is kept, that a save in progress is of such objects and that, while
  AG_ObjectSaveAll goes through its list, the archives of the objects before the current
  one are complete and name only what is in the tree. FoundOrMade, the children after a
  load, is a recursive function for this proof, and the induction on the length of the
  table is over the set of the lengths for which the claim holds.
* `ObjectStore_proofs`: Truthful, if the application keeps all three rules (`Careful`).
  `TruthInv` adds to TreeInv that complete archives hold whole datasets, that an object
  without a datafile still has in memory what is expected of it, that a datafile which
  no failure cut short was saved by the application, and that no object is resident
  that nobody paged in. With any one of the rules broken TLC violates the property, with
  "blind" broken also Reloadable: the hypotheses cannot be weaker. What it shows of an
  object of which a save was cut short is that what is loaded is whole, not that it is
  what was saved.
* `WebServer_proofs`: AtMostOnce, OwnAnswer and RanInSession with no hypothesis, for
  any number of processes, sessions, connections, queries, faults and restarts. They
  need `IInv` (found inductive by TLC on the run's instance first): a socket
  found at the path of a session was bound by a worker of it (`WorkersNamed`), no two
  entries of workSockets share a connection and each leads to a worker of its session,
  with nothing left to read, header or body, unless its frontend waits for it (`EntryOK`,
  `Unshared`, `HeaderInv`),
  a query that was not sent yet is nowhere else, and one that was sent is on one
  open connection and not executed (`UnsentOnce`, `SentOnce`).

Assumptions are those of the modules (`Nil` is none of the objects, intervals are
positive, TickMod exceeds 1, and so on), evaluated by TLC in the runs.

Only model-checked: all liveness (fairness and ENABLED are outside the prover), and all
that the runs show to be violated.
What FoldLeft and SelectSeq compute is out of the prover's reach, since the library
defines them by recursion over data; the proofs use recursive functions instead.

## Not modelled, and why

Contents of callbacks, argument lists, formatting and logging; allocation failure;
the memory model (a data race is excluded by `NoRace` or left out, see the hazards);
kqueue; drawing, layout, fonts, images and OpenGL, X11, SDL calls; floating-point
mathematics; digests; the Ada and Perl bindings, build files, translations.

These are by far the largest part of the sources: of some 140,000 lines, 22,000 are
mathematics, most of the rest are widgets that measure, lay out and draw, image formats,
text conversion, platform variants of one interface (drivers, threads, time, network)
and interactive test programs. They compute values or call the system; a transition
system of them would restate the code. The map names the code that keeps state across
calls, processes and threads, and its share of the lines cannot come near a third of
such a library. Of the modelled files, what is left out is said in the notes of the
components.

In ObjectStore: databases of objects (AG_ObjectSaveToDB stores under the name of the
object whatever the key, AG_ObjectLoadFromDB resolves no dependencies), the search of the
load path, non-persistent objects, handlers of "object-page-out", AG_ObjectChanged. In
WindowQueues: geometry, minimizing, cursors, and the drivers' own queues. In WebServer:
event listeners, HTTP, cookies and their expiry, multipart data, templates.

## Plan

1. `Variable`, `Class`, `Tbl`, `DataSource`: tables under locks; operators checked
   against reference definitions.
2. `AudioOut`: buffer, condition variable and closing handshake; event listeners of the web server.
3. Widget state with ranges (AG_Scrollbar, AG_Numerical), AG_Editable's undo log,
   AG_Tlist's saved selection; VG's node tree.
4. Proofs: in WindowQueues, how far each liberty may be taken.

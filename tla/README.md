# A TLA+ model of Atom Shell (Electron)

This directory holds TLA+ modules that model parts of Atom Shell, the TLC
configurations that check them, and TLAPS proofs about them. The repository's
code is the reference: every definition is a translation of the lines that
`PROJECT.json` ("map") names for it.

To check a module with TLC: `tlc -config <run>.cfg MC<module>`.
To check the proofs: `tlapm <Module>Proofs.tla`; those of `NodeLoop` and `Asar` are both
in `NodeProofs`.

## 1. The system

An Atom Shell application is one **browser process** and a **renderer process**
for each page. The browser process runs Chromium's UI thread, its IO thread and
node.js, whose libuv loop is merged with Chromium's message loop. JavaScript
runs on the UI thread of the browser process and on the main thread of each
renderer; it is never preempted, but a native call may emit an event whose
handlers run before the call returns. Processes talk by Chromium IPC:
asynchronous messages, and synchronous ones that block the renderer.

| Component | State | Operations | Interacts with | What is hard | What makes it correct |
|---|---|---|---|---|---|
| Remote objects (`rpc-server.coffee`, `objects-registry.coffee`, `remote.coffee`, `callbacks-registry.coffee`, `atom_api_id_weak_map.cc`) | weak map of ids, one store of strong references per render view, proxies, callbacks, wrappers | require, call, dereference, callback, release, clear | IPC, garbage collectors of two processes, render views | collections and messages race; the store's key is computed when a handler runs; views are swapped | a live proxy's object is alive and reachable under its id; nothing leaks; released views stay released; every call is answered |
| Application lifecycle (`browser.cc`, `window_list.cc`, `native_window.cc`, `atom_api_window.cc`, `atom_api_app.cc`) | `is_quiting_`, window list, `is_closed_`, web contents, unresponsive timer | quit, close, destroy, beforeunload, notify and shutdown | JavaScript handlers, pages, message loop, garbage collector | every step emits an event whose handlers may call any other step; pages answer later | a quit ends or is cancelled; windows close once; the list is what is open |
| BrowserWindow registry (`browser-window.coffee`, `atom_api_id_weak_map.cc`) | map id -> window, hidden value `IDWeakMapKey` | add, closed, weak callback, fromId, getAllWindows | objects registry (same hidden value), garbage collector | two maps write one hidden value | the open windows are found, nothing else |
| Node integration (`node_bindings*.cc`, `atom_bindings.cc`, `init.coffee`) | semaphore, embed thread, posted tasks, pending next ticks | UvRunOnce, PollEvents, wake-ups, destruction | libuv, message loop | two threads on one uv loop, shutdown | the loop is used by one thread at a time; events are not lost; the thread ends |
| Custom protocols (`atom_api_protocol.cc`, `atom_url_request_job_factory.cc`, `adapter_request_job.cc`) | handlers on the UI thread, handlers on the IO thread, jobs | register, unregister, intercept, unintercept, start, kill | UI and IO threads | checks on one thread, effects on the other | the two maps agree once posted tasks ran; a job is answered once |
| Guest views (`guest-view-manager.coffee`, `web_view_manager.cc`, `web-view/*`) | guest instances, two element maps, maps keyed by process | create, attach, destroy, process swap | embedder's navigation, crash, destruction | requests arrive after the guest is gone | maps are inverse to each other; no guest outlives its embedder |
| Guest windows (`guest-window-manager.coffee`, `override.coffee`) | named frames, listeners, proxies of openers | open, close, closed | lifecycle of two windows | each closes the other | a guest is closed once, its opener learns of it |
| Navigation controller (`navigation-controller.coffee`) | history, current, pending, in-page index | load, back, forward, commit | content's commits | late commits | indexes point into the history |
| Auto updater (`auto-updater.coffee`) | downloaded update, listener | quitAndInstall | lifecycle | a page refuses to close; a quit is under way | the update is installed or the application goes on |
| Menus (`menu.coffee`, `menu_delegate.cc`) | items, commands, radio groups | insert, popup, build | windows | positions, groups | one radio item of a group is checked |
| Global shortcuts (`atom_api_global_shortcut.cc`, `global_shortcut_listener.cc`) | two maps, the platform's grabs | register, unregister, suspend | platform | partial failure | the maps agree |
| Full screen (`native_window.cc`) | two flags, window state | enter, leave | toolkit's late state | two kinds of full screen | leaving one restores the other |
| Asar (`archive.cc`, `asar.coffee`) | header, cached archives, copied files | stat, read, copy out | file system | links, caches | same answer as a directory; copies stay while scripts may use them |
| Printing (`print_view_manager_base.cc`, `print_job*.cc`, `printer_query.cc`, `printing_message_filter.cc`, `print_web_view_helper*.cc`) | queries, the current job, the document's pages, the worker's task queue | print, get settings, page comes, spool, cancel, stop | renderer, UI, IO and worker threads | a job is ended from four places; late pages; faults of the printer | the job outlives its worker; success means all pages; a page goes to its own document |
| Text to speech (`tts_controller_impl.cc`, `tts_linux.cc`, `tts_message_filter.cc`, `tts_dispatcher.cc`) | queue, current utterance, paused, last notification | speak, pause, resume, cancel, finished | pages, speech-dispatcher's thread | notifications come after another utterance began | one voice; every utterance ends and its page learns of it |
| Pepper, clipboards, spell checking, crash reporters, dialogs, trays | adapters to Chromium, the platform or breakpad | | | | |

`PROJECT.json` lists every component with its status, and the hazards of the
code at the lines where they bite, with the property that would catch each or
the reason why none does.

## 2. The modules

| Module | What it is |
|---|---|
| `RemoteObjects` | the `remote` module: browser registry, stores, proxies, callbacks, messages, render views |
| `RemoteLifetime` | the abstract specification of the lifetime of remote objects; `RemoteObjects` implements it |
| `MCRemoteObjects` | instances of `RemoteObjects` for TLC |
| `RemoteObjectsProofs` | types; ids, owners and views; the counting of references; the reasons of entries; the order of callbacks; calls in flight; the refinement of `RemoteLifetime` |
| `AppLifecycle`, `MCAppLifecycle`, `AppLifecycleProofs` | quitting and the closing of windows |
| `WindowIds`, `MCWindowIds`, `WindowIdsProofs` | the two weak maps a window is in |
| `NodeLoop` | the libuv loop inside Chromium's message loop (needs no MC module) |
| `ProtocolRegistry`, `MCProtocolRegistry`, `ProtocolRegistryProofs` | custom and intercepted schemes, their two threads, and the jobs of requests |
| `GuestViews`, `MCGuestViews`, `GuestViewsProofs` | `<webview>` elements and their guests |
| `Printing`, `PrintingProofs` | a printed page, from `window.print()` to the printer, over four threads (needs no MC module) |
| `Speech`, `MCSpeech`, `SpeechProofs` | the queue of utterances of all pages, and speech-dispatcher |
| `Asar`, `MCAsar` | paths and links in an archive, cached archives, files copied out |
| `NodeProofs` | what is put under node.js: the permission to use the libuv loop; why an archive answers as a directory does |

Definitions whose comment begins with `Mutant:` are variants of the definition
that follows them, each with a plausible bug; nothing uses them. `PROJECT.json`
("mutants") names the property that TLC finds violated when the variant takes
the place of the original.

### RemoteObjects

One action is one run of a handler on one of the JavaScript threads, or one
garbage collection. State and code:

| Variables | In the code |
|---|---|
| `heap`, `pinned` | objects of the browser process; which of them the application references |
| `atomId`, `nextId`, `weakMap` | hidden value `atomId`; `IDWeakMap::next_id_` and `map_` |
| `store`, `storeNext` | `ObjectsStore.stores[key].objects` and `.nextId`; a view stands for its key |
| `wrapper`, `wrapperKey` | the function `unwrapArgs` makes for a callback, and the `clear-` event it listens to |
| `life`, `current`, `destroyed` | render views, and what `webContents.getId()` names now |
| `up`, `ready`, `calling`, `proxies`, `methods`, `loose`, `registered`, `cbOwner` | a page: process, `document_created_`, `sendSync`, proxies, detached methods with and without their proxy, `CallbacksRegistry` |
| `toBrowser`, `toView`, `reply` | asynchronous and synchronous messages in order, and the synchronous reply |
| `lost` | history: references dropped before the document existed |

Requests (`ATOM_BROWSER_REQUIRE`, `GLOBAL`, `CURRENT_WINDOW`, `FUNCTION_CALL`,
`CONSTRUCTOR`, `MEMBER_CALL`, `MEMBER_GET`, `MEMBER_SET`, ...) differ in what they
call, not in what they do to the registry: all become one message with the ids
of the object and of one argument and one callback, and the handler may return
a value, an object (`CallReturnsObject`), an object one of whose getters throws
after it was registered (`CallReturnsBrokenObject`), or call back later
(`CallIsDeferred`, `DeferredReply`). A handler may also throw past its `try`, or
have none (`CallThrowsNothing`, `BrokenObjectAbandons`): the event's destructor
sends no reply, and the page stays in `sendSync`, `calling = "abandoned"`, until
its view or process goes. The application may keep whatever it can reach.

A deferred call ends with a plain value: only the dialogs are asynchronous
(`dialog.coffee:107`), and they call back with a number or with paths, for which
`valueToMeta` cannot throw.

### AppLifecycle

JavaScript handlers run inside the C++ that emits an event. `stack` holds the
events being emitted, innermost first, and the loop of
`WindowList::CloseAllWindows` with what is left of its copied vector. In every
handler the application may make any call (`Call`); `Return` continues the C++
at the point the event was emitted from; `Task` is what the message loop runs.
`isQuiting`, `windows`, `isClosed`, `contents`, `timer` are `is_quiting_`,
`WindowList::windows_`, `is_closed_`, `inspectable_web_contents_` and
`window_unresposive_closure_`; `page` and `hung` are what the renderer does.
`toClose` is history: the windows that were open when the quit under way began.
Closing follows `native_window_views.cc`.

### WindowIds

`windows` and `objects` are the maps of `BrowserWindow.windows` and
`objectsWeakMap`; `key` is the hidden value `IDWeakMapKey` both maps write.

### NodeLoop

The main thread's `main` goes through the stages of `UvRunOnce` and of the
destructors; `embed` is where the second thread is in `EmbedThreadRunner` and
`PollEvents`. `sem` and `tasks` are the semaphore and the tasks posted by
`WakeupMainThread`. `uv_run` itself is libuv's and is modelled by what this code
relies on: due timers, then queued watchers are added to the backend and what
is ready is taken from it. One timer, one watcher, and one environment with its
ticks stand for all of them: nothing couples two timers or two watchers here.
The module follows the Linux backend.

### ProtocolRegistry

`handlers` is `protocol_handlers_` of the UI thread, `factory` the layers of
handlers that the job factory of the IO thread has for each scheme, bottom first;
`ioTasks` and `uiTasks` are the closures posted to the two threads, in order.
`job` is the job of each request and `asked` the one whose JavaScript handler is
running; `crashed` says that a handler or a job was used which is not there. A
request makes a job on the IO thread, which asks the UI thread for the handler of
its scheme; the JavaScript handler may do anything before it returns a string, a
buffer, a file, an error or nothing, or throws, and the job may fall back on the
handler under the one that made it. Where the IO thread deleted the job while the
handler ran, what follows reads freed memory: the process crashes or goes on.

The calls have the checks of the code and no others. Two histories serve the
properties: `missed` has the schemes whose interception the IO thread refused,
and `misused` those that the application took away by the wrong call at any
time, unregistering a scheme of the browser or unintercepting one that is not,
which the code lets through and which deletes the browser's handlers or leaves a
custom one for good.

### GuestViews

`element` is the `WebViewImpl` of each element with what `SrcAttribute` keeps;
`toBrowser` and `toPage` are the asynchronous messages. `guests`, `elementMap` and
`reverseMap` are `guestInstances`, `embedderElementsMap` and
`reverseEmbedderElementsMap` of `guest-view-manager.coffee`; `contentsMap` and
`instanceMap` are the maps of `WebViewManager`. The embedder may navigate, crash
or be destroyed at any time.

### Printing

`renderer` is its `PrintWebViewHelper` and `frames` the calls of `Print` that wait
in it for an answer, one inside the other. `asks` and `replies` go to and from the
IO thread, whose `queue` is `queued_queries_`; `toBrowser` holds the renderer's
messages to the UI thread and `tasks` what workers and jobs posted to it. `ui` is
`PrintViewManagerBase` with `PrintJobManager`, and `jobs` the `PrintJob` and the
`PrintJobWorker` of each cookie, with the tasks that only its thread takes. The
actions in which a printer, a page or the renderer fails draw on `faults`, at most
`MaxFaults` of them.

### Speech

`pages` has the `utterance_id_map_` of each page's `TtsDispatcher`. Each page's
messages to the controller are in `toController`; the events for all pages are one
sequence, `toPage`, of which each page gets its own in order, and what was sent to a
page that is gone never arrives. `tts` is the controller (queue, current utterance,
paused) with `utterance_id_` of `TtsPlatformImplLinux`; `speechd` is what its
connection was asked to say and the last notification (`current_notification_`),
and `tasks` the notifications posted to the UI thread. `connection` is `conn_`: not
opened before `Initialize` ran, then open; a call of speechd that fails makes
`Reset` open it again, without what `Initialize` did to be notified ("deaf"), or
fail to ("lost"), and without a connection everything is refused. Each such failure
draws on `faults`. `SpeakNow` is one step: that `Initialize` finishes between two
questions it asks of the connection is left out.

### Asar

`header` maps the place of a node (the names on the way from the root) to the
node. `GetNodeFromPath`, `GetFilesNode` and `GetChildNode` recur into each other as
in `archive.cc`: `GetNodeFromPath` is a recursive function on paths, which the other
two take as an argument. `archive` is the version that `cachedArchives` holds, `copies` is
`external_files_` and `temps` the temporary files it owns. `RealPath`, the reference,
rewrites a path at its first link until none is left.

`Differs` names the three kinds of calls that the code answers differently than a
directory would (section 6). `LikeDirectory` is an equivalence, so the exceptions are
exact: a call of those kinds is never answered as by a directory, and any other
always is, such as `fs.realpath` of a link behind a linked directory, which
`spec/asar-spec.coffee` tests. What is in a file is a version and a place: a file in the
archive is read through the descriptor that `getOrCreateArchive` keeps, so it is of the
version that was opened first; an unpacked file is looked up beside the archive at
each call, so it is of the version on disk then, possibly a later one than the header's.
`OpenFileWithoutCopy` is a call of `fs.open` whose temporary file cannot be made: the
script gets `ENOENT`, which the property does not hold against a directory.

## 3. The runs

| Run | Instance | What it shows |
|---|---|---|
| `remote_one_page` | 1 page, 2 objects, 1 callback, detached methods | no orphan in the store, no id reused; ids in calls are known, but for those of kept methods that outlived their proxy; unneeded objects are collected; every synchronous call is answered unless its handler threw past its `try` |
| `remote_navigation` | 2 views in one window, 1 object, 1 callback | no live proxy loses its object while its page is replaced; two stores share an object; dereferences always find their entry; callbacks and releases come in order and never for a released view; `RemoteObjects` implements `RemoteLifetime` |
| `app_nested_events` | 2 windows, events nested 3 deep | the list of windows is what is open; `closed` comes once; a quit is not forgotten; no stray timer |
| `app_quit_settles` | 2 windows, nested 2 deep | a quit ends, is cancelled, or waits for windows opened after it began, those that were open then being gone |
| `window_ids_held` | 3 windows, 1 object | open windows, and what pages hold, are found |
| `node_loop` | 1 context | the threads take turns, nothing is slept over, timers and ticks run, the destructor ends |
| `protocols` | 1 custom and 1 built-in scheme, 1 request, 4 tasks under way | of schemes that were never taken away by the wrong call: the factory agrees with the UI thread once the posted tasks ran unless it refused an interception, each task finds what its call relied on or is that interception, and no job holds a deleted handler; every request ends unless the process crashes |
| `guests` | 2 elements, 3 guests, 3 instances, 2 pages | the four maps agree; no guest outlives its page; requests find their guest; no guest is left over |
| `printing` | 2 prints of up to 2 pages, 1 fault | the job outlives its worker's tasks; success means every page was spooled; pages go to their own document; workers stop |
| `speech` | 2 pages, 2 utterances, 2 commands, 1 fault | events find the utterance they are about, no utterance is dropped silently, one is said at a time while nobody cancels, and all of them end then, unless one is said over a connection that does not notify |
| `speech_late_event` | the same | violation, see section 6 |
| `asar` | every archive of 3 entries, every path of 3 names, 2 versions, 2 copies | a call returns what it would for a directory unless it is one of three kinds, and then never does; files copied out stay |

`CHECK_DEADLOCK FALSE` everywhere: an application may be over, or idle.

**Bounds.** `MaxStoreId` bounds the references one store hands out and
`MaxQueue` the messages in flight in one direction. Two references to an object
are enough for a dereference to race with a second reply that carries the same
object, and two messages for any reordering or overtaking; a third adds no new
kind of race because entries of a store never interact; this is
`remote_one_page`, where a call may name an object one of whose references is
being given back. Two views suffice for a message of one to meet the store of the
other. `remote_navigation` hands out one reference per view (a second one takes
TLC past the time a run may have): what two references to one object do while
pages are replaced is covered by the proofs of its properties, which have no bound. In the lifecycle, two windows
and events nested three deep let a handler of one window's event close,
destroy or collect the other and quit from there; stacks that handlers build
beyond `MaxDepth` are cut by the guard `MayCall`, never what the C++ must still
do. In `WindowIds` the third window lets an id of one map collide with an
entry of the other that is neither window's own. `NodeLoop` has no bound but
`Contexts`, the number of script contexts that call `RunMessageLoop`: one in the
browser process. `MaxTasks` bounds the tasks posted to either thread when the application
calls: unregister, intercept and unregister again about one scheme, and a task
about the other or a request, are under way together. Requests meet only where
one waits for the handler of another, which the tasks of the UI thread do too. In
`GuestViews` two elements can race for the attention of the browser process, and
a third guest lets an element be attached again while the first of its guests is
still being destroyed. In `Printing` a second print meets what is left of the
first, two pages give an order to pages, and one fault is enough since a job
ends with it. In `Speech` the second utterance is the one that a late
notification of the first can hit. In `Asar` a link and its target need three
entries; a path of three names goes through a link, an entry of its target and
one more. The proofs below remove the bounds for what they cover.

**Symmetry** is used in runs without liveness properties only, over windows,
which no definition tells apart.

**Fairness.** `RemoteObjects`: Chromium delivers what a current view has sent
(`HandleMessage`), an asynchronous API such as a dialog calls back
(`DeferredReply`), and V8 collects what nothing references (`CollectObject`).
Nothing is assumed of pages. `AppLifecycle`: handlers return, and a page asked
to close answers (content gives up on a renderer that does not); since all of it
is one thread, each is enabled again and again but not continuously, hence
strong fairness. Nothing is assumed of the application or of garbage collection.
`NodeLoop`: both threads are scheduled, scripts return, time passes; the main
thread comes to its next step although scripts run in between (strong fairness).
The destructor need not ever run.
`ProtocolRegistry`: both threads run what was posted to them, and JavaScript
handlers return. `GuestViews`: messages are delivered in both directions;
nothing is assumed of elements or of the embedder. `Printing`: every thread
runs its tasks and the printer ends a page it began. A worker that waits for a page
posts itself a task again and again, so the fairness of its other tasks is
strong. `Speech`: the UI thread runs its tasks, speech-dispatcher says what it has
in hand unless it is paused, and a paused page may stay so.

**Assumptions about code outside the repository**, marked `external` in
`PROJECT.json`: content makes a new view for each navigation and swaps the old
one out; the messages of a swapped-out view are not delivered (`LateMessages =
FALSE`; the constant is there because the code does not check it); a
`BrowserWindow` that is collected destroys its C++ window, and nobody hears that
window's events; `epoll_wait` returns when libuv's backend is readable; content
makes one plugin instance for each time a `<webview>` is attached; a JavaScript
callback that throws gives native_mate's caller an empty value;
speech-dispatcher notifies in order, a pause holds the utterance in hand only, and
a stopped utterance may end without a notification; the tool that makes archives
writes the real path of what a link names.

## 4. What is proved

All theorems hold for every value of the constants: any number of views,
objects, windows and contexts, any bound.

* **Types** of the nine components (`TypeCorrect` in each proof module, and
  `FsTypeCorrect` for archives).
* **Remote objects.** `RegistryInv` (ids name live objects, what a store or the
  application references is live), `OwnerInv` and `ViewInv` (a current view is
  the one `getId()` names, and views not born or gone have no store) are
  inductive over the types; they give `OneIdPerObject`, `IdNeverReused` and
  `ReleasedViewStaysEmpty`. `ProxyBacked` and `DereferenceFound` need more: an
  entry of a store is given back once only if exactly one thing holds its
  `storeId`. `ReferenceInv` says that: a reply in flight, a message, a proxy and
  a dereference never share a `storeId`, and each one's entry is in the store
  under the right id. It is inductive only if a dereference is looked up in the
  store of the view that sent it, hence the hypothesis `~LateMessages`.
* **What stays in a store.** A page has one synchronous call under way at most,
  and only then may a reply carry a reference (`Synchronous`); every entry of a
  living view's store has a reason (`Accounted`). Together with what is known of
  views not yet born (`UnbornInv`) they are `OrphanInv`, which gives
  `NoOrphanEntry` without a hypothesis: late messages add no entry without one.
* **Callbacks.** A callback is in one place after the other: in the request that
  carries it (`Travelling`), in its wrapper, in the messages the wrapper posted
  (`Posted`), the release being the last of them; and until the release arrives it
  stays registered (`Registered`). That is `CallbackInv`; it gives
  `CallbackNeverLate`, also without a hypothesis. A wrapper listens to the clear
  event of the view that registered its callback (`ListenInv`), which gives
  `NoPostForReleasedView`. This one needs `~LateMessages`: a request of a page that
  was swapped out makes a wrapper that listens to the view in its place.
* **Calls in flight.** `CallInv` says that each id in a call is stored under an
  entry of the page that no dereference ahead of the call takes away, or that it is
  excused: the id of a method that outlived its proxy, or any id of a page that
  crashed. The entry is that of the proxy which the page calls, or of the proxy
  which a kept method still reaches (`methods`, a part of `proxies`); an argument
  is never excused. It gives `CallFindsObject`, whether pages keep methods or not.
* **The lifetime of remote objects.** Seen through `Held` (the objects that a page
  has proxies of), every step of `RemoteObjects` is a step of `RemoteLifetime` or
  leaves its variables alone: by `ReferenceInv` and since no two objects share an
  id (`UniqueIds`), what a page holds is live, and a collected object is held by
  nobody. `LifetimeImplemented` is that refinement, under `~LateMessages`.
* **Application lifecycle.** `IInv` relates the stack to the windows: a window
  has one frame of `closed` at most and is closed while it has it
  (`ClosingInv`), the frames mention windows that exist or were freed, never ones
  still to be made (`MadeInv`), and a quit that is under way with no window left
  is being carried out by some frame (`QuitInv`). It gives `OpenWindowsListed`,
  `QuitNotForgotten` and `TimerHasReason`, and with a second argument over the
  frames an action may push, `ClosedOnce`, for any nesting of events.
* **Window registry.** Where the application references its open windows
  (`~Forgetting`), `AllWindowsFound` and `ObjectsFound` hold although both maps
  write one hidden value: by `MapsInv` the hidden value of an object that a page has
  seen belongs to `objectsWeakMap`, and an open window is never collected.
* **Node integration.** A call of `RunMessageLoop` makes one permission to use
  the loop, which goes from the main thread to the semaphore, the embed thread, a
  posted task and back; the destructor makes one more. `PermissionsBounded`
  counts them. With one context it gives `TurnsAlternate`, and from that no step
  of `uv_run` can take away the wake-up of a thread that polls:
  `NoSleepPastTimer` and `NoSleepPastWatcher`. `PendingIsComing` holds for any
  number of contexts.
* **Custom protocols.** The tasks under way about one scheme form a chain: each
  finds the factory as the one before leaves it, the first finds it as it is, and
  the last leaves what `protocol_handlers_` says. An interception that was
  refused counts as a custom handler that is not there (`Held`), so that the
  chain goes through it. It holds for any number of tasks about a scheme that
  was never taken away by the wrong call (`misused`), and so do the formulas that
  follow from it: with an empty queue it is `MapsAgree`, its first link is
  `TasksSucceed`, and with the layers of handlers it keeps, `FallbackAlive`.
* **Guest views.** A guest is named in one place after the other: in the response
  that announces it, by the element that owns it, in the request that attaches
  it, in the maps, and in the request that gives it up. `GuestInv` says for each
  of these that the others do not have it yet, or no more, and that instances are
  attached once; requests in the queue need an order (`Ordered`), since a guest
  may be attached and given up by two requests under way but not the other way
  round. It gives `MapsInverse`, `GuestsOfPage` and `RequestsFindGuest`.
* **Printing.** `PrintInv` counts cookies, so that the one a query takes is new
  (`PrintsInv`); nothing is left over from a cookie that nobody used yet
  (`CookieInv`), and a print's pages follow their count in the messages
  (`InOrder`). A worker spools page after page from the first (`Working`), and a
  job that is reported complete spooled all of them (`Complete`). A worker that
  runs is being stopped, or its job is registered and the current one (`Kept`).
  Whatever ends a job, a failure, a crash, the next print or its last page, is one
  relation (`Ends`) that only adds tasks without a document. They give
  `JobOutlivesWorker`, `SuccessMeansSpooled` and `PagesOfOwnDocument` without a
  hypothesis.
* **Text to speech.** An utterance is in one place: on its way, queued, spoken, or
  over, and then its last event is the last there is of it (`Whole`). A message
  that asks to speak brings an utterance nobody has seen (`MessagesInv`), and what
  a page waits for is what it asked for and has not been told the end of
  (`KnownInv`). They give `EventsFindUtterance` and `NothingForgotten`. While
  nobody has cancelled, the end of an utterance is notified last and then
  speech-dispatcher has nothing left to say; otherwise it has the current
  utterance and no other (`Heard`). Over a connection that was opened again nothing
  is notified, and it has the current utterance or none (`Silence`). One or the
  other (`VoiceInv`) gives `OneVoice`.
* **Archives.** For every archive the tool may make (`ArchiveAssumption`) and every
  path, the recursive searches of the header are brought to a closed form.
  Nothing but links is ever between a path and a place: what is before a place is a
  directory (`PlaceIsInDirectories`), so one rewriting of the reference goes to a
  place and leaves one name less that may be a link (`FollowShrinks`), and after as
  many as there are names none is left (`RealPathIsClean`). A path with one name
  more leads to that name looked up where the path leads, followed once
  (`RealPathOfAppend`), and this is what a step of `GetNodeFromPath` does
  (`NodeStepFinds`). So the function that returns the reference's entry solves the
  code's recursion, and any function that does equals it (`NodesUnique`): hence
  `GetNodeFromPathFinds` and, in the same way, `GetFileInfoFinds`. With `AsarInv` (the
  archive that is open is never replaced; a copy belongs to one path and one
  temporary file, which holds what the path leads to) they give `LikeDirectory`, with its
  exceptions in both directions, and `TempFilesKept`, for any archives, paths, names and
  numbers of calls.

  Induction is over sets of numbers (`SetInduction`, from the library's
  `WFMin`), since the library's induction rules for predicates cannot be used with
  the provers at hand.

## 5. What is only model-checked

Liveness (`EventuallyReclaimed`, `EventuallyAnswered`, `QuitSettles`,
`TicksRun`, `DestructorEnds`, `RequestsAnswered`, `GuestsOwned`, `WorkersStop`,
`UtterancesFinish`) is outside the prover's reach. Every other property of the
passing runs is stated by a theorem.

`OneIdPerObject` and `PendingIsComing` are proved and belong to no run.

## 6. Where the code disagrees with its own words

`speech_late_event` is a run that expects a violation; `PROJECT.json` ("findings")
quotes both sides: a notification of an utterance that was stopped reaches the one
that is said after it.

These were seen while modelling. They are not runs; the formula named is false
in the module with the constants given, and a run is made by naming it in a cfg.

| Where | What happens | Formula |
|---|---|---|
| `window_list.cc:74` | the loop of `CloseAllWindows` over a copied vector meets a window that a handler freed | `Returns("CloseAllWindows") /\ Top.rest # <<>> => native[Head(Top.rest)] # "freed"`, `Forgetting = TRUE` |
| `atom_api_id_weak_map.cc:82` | an open window that is collected after a page saw it takes another window's entry out of `BrowserWindow.windows` | `AllWindowsFound`, `Forgetting = TRUE` |
| `node_bindings.cc:226` | each script context of a guest gives the embed thread one more permission to look at the libuv loop | `TurnsAlternate`, `Contexts = 2` |
| `node_bindings.cc:115` | the embed thread can call `PollEvents` between the destructors | `embed = "timeout" => main \notin Destroying` |
| `remote.coffee:69` | a method that is kept without its object loses the proxy after its first call, and its next call may name an object that is gone | `CallFindsObject` without `m.id \in loose[v]` |
| `rpc-server.coffee:110` | the web contents is converted outside any `try`: a getter that throws leaves the page in `sendSync` for ever, and the entry in the store | `EventuallyAnswered` with `"abandoned"` beside `"waiting"` |
| `rpc-server.coffee:36` | `errorToMeta` reads the message of whatever was thrown: `throw null` leaves the page waiting likewise | the same |
| `atom_api_protocol.cc:243` | a scheme that was just unregistered may be intercepted, since the IO thread still has its handler; the task is then refused by an "error" event, the scheme stays in `protocol_handlers_`, cannot be registered, and unintercepting it crashes (`:316`, a null handler) | `MapsAgree` without `\ missed` |
| `atom_api_protocol.cc:225` | an intercepted scheme may be unregistered, which deletes the browser's handler; a job that was to fall back on it uses a pointer to it | `FallbackAlive` without `misused` |
| `atom_api_protocol.cc:140` | a job that is deleted on the IO thread while its handler runs is used when the handler returns | `asked # {} => \A r \in asked : job[r].state = "asking"` in `ProtocolRegistry` |
| `atom_api_protocol.cc:73` | a request whose scheme was unregistered before the UI thread saw it finds no handler | `~crashed` in `ProtocolRegistry` |
| `web-view.coffee:128` | an element that was detached before its guest came asks for no other when it is attached again | `\A w \in Elements : element[w].attached /\ element[w].src ~> element[w].guest # NoGuest \/ ~element[w].attached \/ ~Live` |
| `print_view_manager_base.cc:113` | a page that the renderer made may be dropped | `rendered[c] > 0 ~> jobs[c].spooled = 1..rendered[c]` |
| `archive.cc:224` | `fs.realpath` of an entry that is no link is the path that was asked for, with the links before the entry left in it | `LikeDirectory` without `RealpathThroughLink` in `Differs` |
| `archive.cc:253` | an unpacked file that is reached through a link is looked up under the path that was asked for, and is not found there | `LikeDirectory` without `UnpackedThroughLink` in `Differs` |
| `asar.coffee:140` | `fs.stat` answers for a link what `lstat` does, while `application-packaging.md:142` says that the `Stats` object can be trusted for "checking file type" | `LikeDirectory` without `StatOfLink` in `Differs` |
| `tts_linux.cc:144` | after a refused utterance the connection is opened again without callbacks and notifications: what is said over it never ends for the controller, and all behind it waits until a page cancels (`tts_controller_impl.cc:344` says "Keep trying in case one fails but there are still more in the queue to try") | `UtterancesFinish` without `connection = "deaf" /\ ...` |
| `asar.coffee:95` | `fs.open` or `execFile` without a callback does nothing, and makes the function throw instead of calling back from then on | not modelled |

Facts about printing: nobody sends `PrintHostMsg_DidGetDocumentCookie`, so
`cookie_` stays 0 and a query that fails is not taken out of the queue
(`print_view_manager_base.cc:166`); the inner message loop is never entered; a
renderer that fails after it told the count of its pages leaves a job that
looks for them; `PrintJobManager::Shutdown` is never called; `Cancel` stops the
worker twice. About speech: an utterance that is spoken after a cancel, while the
last notification was a begin, is queued behind nothing and stays there until the
next resume or stop, since `IsSpeaking` reads `current_notification_`. For that
reason `UtterancesFinish` has the condition that nothing was cancelled. Its other
condition is exact: the controller waits for an utterance over a connection that
was opened again.

## 7. What is not modelled

`PROJECT.json` ("components") gives the reason for each part. Within the modelled
components: replies that arrive inside a callback that runs inside another
synchronous call, the exact list of members of a proxy and the cycles and depth
of converted values; start-up events, `OpenFile`, `OpenURL`, Cocoa's
`performClose:` and the window's geometry; the forwarding helpers of
`browser-window.coffee`; `setImmediate`, several environments in
`pending_next_ticks_`, quitting from libuv, and `PollEvents` on OS X (kqueue) and
Windows (an I/O completion port), which have the same two threads; the bytes of
jobs and their headers; a guest's size, events and forwarded attributes and the
information its renderer is started with (`webview_info_map_`, whose removal reads
the process id again at `web_view_manager.cc:82`); print settings, metafiles, and
the Windows and OS X parts of printing; voices, extensions and the speech engines
of Windows and OS X; the `file:` protocol over archives, separators and sizes, and
versions of an archive whose entries differ (`header` is the same in all of them).

Hazards of parts that are not modelled, or that no property here is about:
`objects-registry.coffee:32` (a store of a view that is gone can be made again by a
late message), `atom_api_web_contents.cc:389` (only the current view is announced
when a web contents is destroyed), `rpc-server.coffee:56` and `:64` (each callback
leaves a listener until its view is gone), `browser.cc:31`, `:39` and `:43` (quit
called within a quit), `node_bindings.cc:115`, `atom_bindings.cc:105` (the list is
cleared after callbacks that may have put another environment on it),
`navigation-controller.coffee:27` (a commit takes the pending index of another
load), `native_window.cc:489` (two kinds of full screen), `auto-updater.coffee:21`
(a page refuses to close), `print_view_manager_base.cc:166` and
`web_view_manager.cc:82`.

## 8. Plan

1. `GuestWindow`, composed with `AppLifecycle`: the two windows' `closed` listeners.
2. `AutoUpdater`, composed with `AppLifecycle`: `quitAndInstall`.
3. `NavigationHistory` (`navigation-controller.coffee`) against commits of content.
4. `Menu` (positions and radio groups of `buildFromTemplate`), the accelerator and
   value conversions, each against a reference definition.
5. `GlobalShortcuts` and `FullScreen`.

Proofs still to come: the registry of remote objects without `~LateMessages`, as
far as it goes (an entry per proxy of a view that never was swapped out), the
composed modules above, and the list of pending ticks with several environments.

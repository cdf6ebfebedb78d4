---------------------------- MODULE AppLifecycle ----------------------------
(***************************************************************************)
(* Quitting the application, and the windows that have to be closed first. *)
(*                                                                         *)
(*   atom/browser/browser.cc                Quit, NotifyAndShutdown        *)
(*   atom/browser/window_list.cc            the open windows               *)
(*   atom/browser/native_window.cc          the steps of closing a window  *)
(*   atom/browser/native_window_views.cc    Close, CloseImmediately        *)
(*   atom/browser/api/atom_api_window.cc    the window's events            *)
(*   atom/browser/api/atom_api_app.cc       the application's events       *)
(*                                                                         *)
(* Every event is a call into JavaScript, whose handler may call any of    *)
(* these functions again before it returns.  `stack' holds the events      *)
(* being emitted and the loop of CloseAllWindows, innermost first; an      *)
(* action is the C++ that runs between two of the application's turns.     *)
(***************************************************************************)
EXTENDS Naturals, Sequences

CONSTANTS
  Windows,
  NoWindow,
  Forgetting,   \* does the application drop windows that are still open?
  MaxDepth      \* bound on the nesting of events

ASSUME WindowsAssumption == NoWindow \notin Windows
ASSUME ForgettingAssumption == Forgetting \in BOOLEAN
ASSUME DepthAssumption == MaxDepth \in Nat

VARIABLES
  isQuiting,   \* Browser::is_quiting_
  loop,        \* the message loop: "running", "quit" once told to, "ended"
  windows,     \* WindowList::windows_
  native,      \* the NativeWindow: "none", "made" or "freed"
  held,        \* does the application reference the BrowserWindow?
  isClosed,    \* NativeWindow::is_closed_
  contents,    \* is there an inspectable_web_contents_?
  page,        \* "idle", running its "beforeunload" handler, or "unloading"
  hung,        \* has content reported the renderer unresponsive?
  timer,       \* is window_unresposive_closure_ pending?
  stack,
  toClose      \* history: the windows that were open when the quit under way
               \* began, none when no quit is

app  == <<isQuiting, loop, toClose>>
life == <<windows, native, held, isClosed>>
web  == <<contents, page, hung, timer>>
vars == <<app, life, web, stack>>

(* `next' is what the caller does when the event has been handled.         *)
Event(at, w, next) == [at |-> at, win |-> w, rest |-> << >>, next |-> next]
AppEvent(at, next) == Event(at, NoWindow, next)
CloseAllWindows ==
  [at |-> "CloseAllWindows", win |-> NoWindow, rest |-> windows, next |-> "return"]

Frames == [at : {"before-quit", "will-quit", "quit", "window-all-closed", "close",
                 "closed", "render-view-deleted", "CloseAllWindows"},
           win : Windows \cup {NoWindow}, rest : Seq(Windows),
           next : {"return", "CloseAllWindows", "Cancel"}]

Init ==
  /\ isQuiting = FALSE /\ loop = "running"
  /\ windows = << >>
  /\ native = [w \in Windows |-> "none"]
  /\ held = [w \in Windows |-> FALSE]
  /\ isClosed = [w \in Windows |-> FALSE]
  /\ contents = [w \in Windows |-> FALSE]
  /\ page = [w \in Windows |-> "idle"]
  /\ hung = [w \in Windows |-> FALSE]
  /\ timer = [w \in Windows |-> FALSE]
  /\ stack = << >>
  /\ toClose = {}

Running    == loop # "ended"
Top        == stack[1]
Handling   == stack # << >> /\ Top.at # "CloseAllWindows"
Emitting(at, w, s) == \E i \in DOMAIN s : s[i].at = at /\ s[i].win = w

(* JavaScript runs: in a handler, or in a task of the message loop.  A     *)
(* handler that shows a modal dialog runs the message loop, too.           *)
Turn       == Running /\ (stack = << >> \/ Handling)
MayCall    == Turn /\ Len(stack) < MaxDepth

-----------------------------------------------------------------------------
(* Closing a window.  `s' is the stack to return to.                       *)

Listed == {windows[i] : i \in DOMAIN windows}

(* Mutant: NotifyWindowClosed without its first two lines.                 *)
CloseImmediatelyAgain(w, s) ==
  /\ stack' = <<Event("closed", w, "return")>> \o s
  /\ isClosed' = [isClosed EXCEPT ![w] = TRUE]

(* CloseImmediately closes the widget, whose delegate calls                *)
(* NotifyWindowClosed.                                                     *)
CloseImmediately(w, s) ==
  /\ stack' = IF isClosed[w] THEN s ELSE <<Event("closed", w, "return")>> \o s
  /\ isClosed' = [isClosed EXCEPT ![w] = TRUE]

(* DestroyWebContents, then CloseImmediately: the contents tell that their *)
(* view is gone before they are.                                           *)
DestroyThenClose(w, s, next) ==
  IF contents[w]
  THEN /\ contents' = [contents EXCEPT ![w] = FALSE]
       /\ page' = [page EXCEPT ![w] = "idle"]
       /\ hung' = [hung EXCEPT ![w] = FALSE]
       /\ stack' = <<Event("render-view-deleted", w, next)>> \o s
       /\ UNCHANGED isClosed
  ELSE CloseImmediately(w, s) /\ UNCHANGED <<contents, page, hung>>

(* The api::Window observes its window until "closed" has been emitted.    *)
Observed(w, s) == ~isClosed[w] \/ Emitting("closed", w, s)

(* NativeWindow::Close asks the widget, which calls CloseWebContents.      *)
(* Without an observer and without contents that does nothing.             *)
Close(w, s) ==
  stack' = IF Observed(w, s) THEN <<Event("close", w, "return")>> \o s ELSE s

-----------------------------------------------------------------------------
(* What the application calls.                                             *)

AppQuits ==
  /\ MayCall
  /\ stack' = <<AppEvent("before-quit", "return")>> \o stack
  /\ UNCHANGED <<app, life, web>>

CreateWindow(w) ==
  /\ Turn /\ native[w] = "none"
  /\ native' = [native EXCEPT ![w] = "made"]
  /\ held' = [held EXCEPT ![w] = TRUE]
  /\ windows' = Append(windows, w)
  /\ contents' = [contents EXCEPT ![w] = TRUE]
  /\ UNCHANGED <<app, isClosed, page, hung, timer, stack>>

(* win.close(), or the user clicks the close button.                       *)
CloseWindow(w) ==
  /\ MayCall /\ native[w] = "made"
  /\ held[w] \/ (stack = << >> /\ ~isClosed[w])
  /\ Close(w, stack)
  /\ UNCHANGED <<app, life, web>>

DestroyWindow(w) ==
  /\ MayCall /\ native[w] = "made" /\ held[w]
  /\ DestroyThenClose(w, stack, "return")
  /\ UNCHANGED <<app, windows, native, held, timer>>

(* The application drops its reference: when the window is closed, as the  *)
(* quick start does, or too early.                                         *)
ForgetWindow(w) ==
  /\ Turn /\ held[w] /\ (Forgetting \/ isClosed[w])
  /\ held' = [held EXCEPT ![w] = FALSE]
  /\ UNCHANGED <<app, windows, native, isClosed, web, stack>>

-----------------------------------------------------------------------------
(* The application's handlers return, and C++ continues.                   *)

Returns(at) == Running /\ stack # << >> /\ Top.at = at
Under == Tail(stack)

Continue(next) ==
  stack' = IF next = "CloseAllWindows" THEN <<CloseAllWindows>> \o Under ELSE Under

(* Mutant: Quit leaves the shutdown to the last window.                    *)
BeforeQuitReturnsLazily(prevent) ==
  /\ Returns("before-quit")
  /\ isQuiting' = ~prevent
  /\ toClose' = IF prevent THEN {} ELSE Listed
  /\ stack' = IF prevent THEN Under ELSE <<CloseAllWindows>> \o Under
  /\ UNCHANGED <<loop, life, web>>

(* Mutant: Quit waits for the windows without closing them.                *)
BeforeQuitReturnsWaiting(prevent) ==
  /\ Returns("before-quit")
  /\ isQuiting' = ~prevent
  /\ toClose' = IF prevent THEN {} ELSE Listed
  /\ stack' = IF ~prevent /\ windows = << >>
                THEN <<AppEvent("will-quit", "return")>> \o Under ELSE Under
  /\ UNCHANGED <<loop, life, web>>

(* Browser::Quit after HandleBeforeQuit: without windows it notifies and   *)
(* shuts down, and in any case it goes on to CloseAllWindows.              *)
BeforeQuitReturns(prevent) ==
  /\ Returns("before-quit")
  /\ isQuiting' = ~prevent
  /\ toClose' = IF prevent THEN {} ELSE Listed
  /\ stack' = CASE prevent -> Under
                [] ~prevent /\ windows = << >> ->
                     <<AppEvent("will-quit", "CloseAllWindows")>> \o Under
                [] OTHER -> <<CloseAllWindows>> \o Under
  /\ UNCHANGED <<loop, life, web>>

(* NotifyAndShutdown after OnWillQuit.                                     *)
WillQuitReturns(prevent) ==
  /\ Returns("will-quit")
  /\ isQuiting' = (isQuiting /\ ~prevent)
  /\ toClose' = IF prevent THEN {} ELSE toClose
  /\ IF prevent THEN Continue(Top.next)
                ELSE stack' = <<AppEvent("quit", Top.next)>> \o Under
  /\ UNCHANGED <<loop, life, web>>

(* Browser::Shutdown after OnQuit.                                         *)
QuitReturns ==
  /\ Returns("quit")
  /\ isQuiting' = TRUE
  /\ loop' = "quit"
  /\ Continue(Top.next)
  /\ UNCHANGED <<life, web, toClose>>

AllClosedReturns ==
  /\ Returns("window-all-closed")
  /\ stack' = Under
  /\ UNCHANGED <<app, life, web>>

(* The rest of WindowList::CloseAllWindows, whose list was copied when it  *)
(* began.  A window that was freed meanwhile is undefined behaviour, here  *)
(* without effect.                                                         *)
CloseNext ==
  /\ Returns("CloseAllWindows")
  /\ \/ Top.rest = << >> /\ stack' = Under
     \/ /\ Top.rest # << >>
        /\ LET w == Head(Top.rest)
               s == <<[Top EXCEPT !.rest = Tail(@)]>> \o Under
           IN IF native[w] = "freed" THEN stack' = s ELSE Close(w, s)
  /\ UNCHANGED <<app, life, web>>

(* CloseWebContents after WillCloseWindow was prevented: WindowList tells  *)
(* the browser, which gives up quitting.                                   *)
ClosePrevented ==
  /\ Returns("close")
  /\ isQuiting' = FALSE
  /\ toClose' = {}
  /\ stack' = Under
  /\ UNCHANGED <<loop, life, web>>

(* ... and when it was not: the page is asked, unless there is none.       *)
CloseAllowed(w) ==
  /\ Returns("close") /\ Top.win = w
  /\ \/ /\ ~contents[w]
        /\ CloseImmediately(w, Under)
        /\ UNCHANGED <<contents, page, hung, timer>>
     \/ /\ contents[w]
        /\ timer' = [timer EXCEPT ![w] = TRUE]
        /\ page' \in {[page EXCEPT ![w] = IF @ = "idle" THEN p ELSE @] :
                        p \in {"beforeunload", "unloading"}}
        /\ stack' = Under
        /\ UNCHANGED <<isClosed, contents, hung>>
  /\ UNCHANGED <<app, windows, native, held>>

(* The renderer is not there to be asked: content closes at once.          *)
CloseDeadPage(w) ==
  /\ Returns("close") /\ Top.win = w
  /\ contents[w] /\ page[w] = "idle"
  /\ timer' = [timer EXCEPT ![w] = TRUE]
  /\ DestroyThenClose(w, Under, "Cancel")
  /\ UNCHANGED <<app, windows, native, held>>

ViewDeletedReturns(w) ==
  /\ Returns("render-view-deleted") /\ Top.win = w
  /\ CloseImmediately(w, Under)
  /\ timer' = [timer EXCEPT ![w] = @ /\ Top.next # "Cancel"]
  /\ UNCHANGED <<app, windows, native, held, contents, page, hung>>

(* The list never holds a window twice (TypeOK).                           *)
Without(w) ==
  LET k == CHOOSE i \in DOMAIN windows : windows[i] = w IN
  IF w \in Listed THEN SubSeq(windows, 1, k - 1) \o SubSeq(windows, k + 1, Len(windows))
                  ELSE windows

(* WindowList::RemoveWindow, and Browser::OnWindowAllClosed.               *)
RemoveWindow(w, s) ==
  /\ windows' = Without(w)
  /\ stack' =
       IF windows' # << >> THEN s
       ELSE <<AppEvent(IF isQuiting THEN "will-quit" ELSE "window-all-closed",
                       "return")>> \o s

ClosedReturns(w) ==
  /\ Returns("closed") /\ Top.win = w
  /\ RemoveWindow(w, Under)
  /\ UNCHANGED <<app, native, held, isClosed, web>>

-----------------------------------------------------------------------------
(* Tasks of the message loop.                                              *)

(* The page answers "beforeunload".                                        *)
PageProceeds(w) ==
  /\ Turn /\ page[w] = "beforeunload"
  /\ page' = [page EXCEPT ![w] = "unloading"]
  /\ UNCHANGED <<app, life, contents, hung, timer, stack>>

(* Mutant: a cancelled close still reports the page unresponsive.          *)
PageStaysWithTimer(w) ==
  /\ Turn /\ page[w] = "beforeunload"
  /\ page' = [page EXCEPT ![w] = "idle"]
  /\ isQuiting' = FALSE
  /\ toClose' = {}
  /\ UNCHANGED <<loop, life, contents, hung, timer, stack>>

PageStays(w) ==
  /\ Turn /\ page[w] = "beforeunload"
  /\ page' = [page EXCEPT ![w] = "idle"]
  /\ isQuiting' = FALSE
  /\ toClose' = {}
  /\ timer' = [timer EXCEPT ![w] = FALSE]
  /\ UNCHANGED <<loop, life, contents, hung, stack>>

(* The page has unloaded, or called window.close(): CloseContents.         *)
CloseContents(w) ==
  /\ MayCall /\ contents[w] /\ page[w] # "beforeunload"
  /\ DestroyThenClose(w, stack, "Cancel")
  /\ UNCHANGED <<app, windows, native, held, timer>>

RendererUnresponsive(w) ==
  /\ Turn /\ contents[w] /\ ~hung[w]
  /\ hung' = [hung EXCEPT ![w] = TRUE]
  /\ timer' = [timer EXCEPT ![w] = TRUE]
  /\ UNCHANGED <<app, life, contents, page, stack>>

RendererResponsive(w) ==
  /\ Turn /\ hung[w]
  /\ hung' = [hung EXCEPT ![w] = FALSE]
  /\ timer' = [timer EXCEPT ![w] = FALSE]
  /\ UNCHANGED <<app, life, contents, page, stack>>

(* The closure runs; it holds a weak pointer, and says nothing for a       *)
(* closed window.                                                          *)
NotifyWindowUnresponsive(w) ==
  /\ Turn /\ timer[w]
  /\ timer' = [timer EXCEPT ![w] = FALSE]
  /\ UNCHANGED <<app, life, contents, page, hung, stack>>

(* Mutant: the destructor of NativeWindow notifies nobody.                 *)
CollectWindowSilently(w) ==
  /\ Turn /\ native[w] = "made" /\ ~held[w]
  /\ \A i \in DOMAIN stack : stack[i].win # w
  /\ native' = [native EXCEPT ![w] = "freed"]
  /\ isClosed' = [isClosed EXCEPT ![w] = TRUE]
  /\ contents' = [contents EXCEPT ![w] = FALSE]
  /\ page' = [page EXCEPT ![w] = "idle"]
  /\ hung' = [hung EXCEPT ![w] = FALSE]
  /\ timer' = [timer EXCEPT ![w] = FALSE]
  /\ UNCHANGED <<app, windows, held, stack>>

(* The garbage collector takes a BrowserWindow nobody references: its      *)
(* destructor destroys the window and frees it.  Nobody hears its events.  *)
CollectWindow(w) ==
  /\ Turn /\ native[w] = "made" /\ ~held[w]
  /\ \A i \in DOMAIN stack : stack[i].win # w
  /\ native' = [native EXCEPT ![w] = "freed"]
  /\ isClosed' = [isClosed EXCEPT ![w] = TRUE]
  /\ contents' = [contents EXCEPT ![w] = FALSE]
  /\ page' = [page EXCEPT ![w] = "idle"]
  /\ hung' = [hung EXCEPT ![w] = FALSE]
  /\ timer' = [timer EXCEPT ![w] = FALSE]
  /\ IF isClosed[w] THEN UNCHANGED <<windows, stack>> ELSE RemoveWindow(w, stack)
  /\ UNCHANGED <<app, held>>

(* The loop ends when it was told to and nothing is left to do.            *)
EndLoop ==
  /\ loop = "quit" /\ stack = << >>
  /\ loop' = "ended"
  /\ UNCHANGED <<isQuiting, toClose, life, web, stack>>

-----------------------------------------------------------------------------
Call ==
  \/ AppQuits
  \/ \E w \in Windows : \/ CreateWindow(w) \/ CloseWindow(w) \/ DestroyWindow(w)
                        \/ ForgetWindow(w) \/ CollectWindow(w)

Return ==
  \/ \E prevent \in BOOLEAN : BeforeQuitReturns(prevent) \/ WillQuitReturns(prevent)
  \/ QuitReturns \/ AllClosedReturns \/ CloseNext \/ ClosePrevented
  \/ \E w \in Windows : \/ CloseAllowed(w) \/ CloseDeadPage(w)
                        \/ ViewDeletedReturns(w) \/ ClosedReturns(w)

Answer(w) == PageProceeds(w) \/ PageStays(w) \/ (page[w] = "unloading" /\ CloseContents(w))

Task ==
  \/ \E w \in Windows :
       \/ PageProceeds(w) \/ PageStays(w) \/ CloseContents(w)
       \/ RendererUnresponsive(w) \/ RendererResponsive(w)
       \/ NotifyWindowUnresponsive(w)
  \/ EndLoop

Next == Call \/ Return \/ Task

Spec == Init /\ [][Next]_vars

(* A handler makes finitely many calls: the event at each depth is handled *)
(* in the end.  A page that was asked answers while the message loop runs  *)
(* (content gives up on a renderer that does not).  All of this is one     *)
(* thread, so each is enabled again and again, not continuously.           *)
Fairness ==
  /\ \A d \in 1 .. MaxDepth + 2 : SF_vars(Len(stack) = d /\ Return)
  /\ \A w \in Windows : SF_vars(Answer(w))

FairSpec == Spec /\ Fairness

-----------------------------------------------------------------------------
(* Properties.                                                             *)

TypeOK ==
  /\ isQuiting \in BOOLEAN /\ loop \in {"running", "quit", "ended"}
  /\ windows \in Seq(Windows)
  /\ \A i, j \in DOMAIN windows : windows[i] = windows[j] => i = j
  /\ native \in [Windows -> {"none", "made", "freed"}]
  /\ held \in [Windows -> BOOLEAN] /\ isClosed \in [Windows -> BOOLEAN]
  /\ contents \in [Windows -> BOOLEAN] /\ hung \in [Windows -> BOOLEAN]
  /\ page \in [Windows -> {"idle", "beforeunload", "unloading"}]
  /\ timer \in [Windows -> BOOLEAN]
  /\ stack \in Seq(Frames)
  /\ toClose \subseteq Windows

(* The list holds a window from its construction until its "closed" event  *)
(* has been handled, however closing, destroying and collecting nest: what *)
(* Quit counts is what is open.                                            *)
OpenWindowsListed ==
  \A w \in Windows :
    w \in Listed <=> native[w] = "made" /\ (~isClosed[w] \/ Emitting("closed", w, stack))

(* A window is closed once: whatever its "closed" handlers call, no second *)
(* "closed" is emitted (the guard of NotifyWindowClosed).                  *)
ClosedAt(d, w, s) ==
  LET frame == s[Len(s) + 1 - d] IN
  d \in 1 .. Len(s) /\ frame.at = "closed" /\ frame.win = w

ClosedOnce ==
  [][\A w \in Windows : isClosed[w] =>
       \A d \in 1 .. Len(stack') : ClosedAt(d, w, stack') => ClosedAt(d, w, stack)]_vars

(* A quit that nobody cancelled is carried out once no window is left; the *)
(* application does not stay behind without windows.                       *)
QuitNotForgotten ==
  isQuiting /\ windows = << >> /\ stack = << >> => loop # "running"

(* The "unresponsive" of a window that stays is about its page: a close    *)
(* that was cancelled leaves no timer behind.                              *)
TimerHasReason ==
  \A w \in Windows : timer[w] =>
    hung[w] \/ page[w] # "idle" \/ ~contents[w]

(* A quit ends the loop or is cancelled, unless a window was opened after  *)
(* it had begun, which nobody asks to close.  The windows that were open   *)
(* when it began are gone by then, all of them: each is asked to close,    *)
(* whatever the others' handlers do, and closes or cancels the quit.       *)
QuitSettles ==
  []<>(\/ loop # "running" \/ ~isQuiting
       \/ Listed # {} /\ Listed \cap toClose = {})
=============================================================================

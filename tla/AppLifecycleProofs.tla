------------------------ MODULE AppLifecycleProofs ------------------------
(***************************************************************************)
(* Safety of quitting and closing, for any number of windows and any depth *)
(* of nested events.                                                       *)
(***************************************************************************)
EXTENDS AppLifecycle, SequenceTheorems, TLAPS

-----------------------------------------------------------------------------
(* The inductive invariant.                                                *)

(* The windows whose "closed" event is being handled.                      *)
Closings(s) == {w \in Windows : Emitting("closed", w, s)}

ClosesOnceEach(s) ==
  \A i, j \in DOMAIN s :
    s[i].at = "closed" /\ s[j].at = "closed" /\ s[i].win = s[j].win => i = j

(* The windows that the frames of a stack are about.                       *)
Named(f) == (IF f.win \in Windows THEN {f.win} ELSE {})
              \cup {f.rest[k] : k \in DOMAIN f.rest}
Mentioned(s) == UNION {Named(s[i]) : i \in DOMAIN s}

(* A shutdown is under way.                                                *)
IsLast(f) == f.at \in {"will-quit", "quit"}
Ending(s) == \E i \in DOMAIN s : IsLast(s[i])

MadeInv ==
  /\ \A w \in Windows : native[w] = "none" => ~isClosed[w] /\ ~contents[w] /\ ~timer[w]
  /\ \A w \in Mentioned(stack) : native[w] # "none"

ClosingInv ==
  /\ ClosesOnceEach(stack)
  /\ \A w \in Closings(stack) : isClosed[w]

(* A quit that has no window to wait for is being carried out.             *)
QuitInv ==
  isQuiting /\ windows = << >> /\ loop = "running" => Ending(stack)

LifeInv == MadeInv /\ ClosingInv /\ OpenWindowsListed /\ QuitInv /\ TimerHasReason

IInv == TypeOK /\ LifeInv

-----------------------------------------------------------------------------
(* Stacks.                                                                 *)

(* A stack with a frame on it: its frames and their places.                *)
LEMMA Push ==
  ASSUME NEW s \in Seq(Frames), NEW f \in Frames, NEW t, t = <<f>> \o s
  PROVE  /\ t \in Seq(Frames) /\ t # << >>
         /\ 1 \in DOMAIN t /\ t[1] = f
         /\ \A i \in DOMAIN t : i \in Nat /\ (i = 1 \/ (i - 1 \in DOMAIN s /\ t[i] = s[i - 1]))
         /\ \A i \in DOMAIN s : i \in Nat \ {0} /\ i + 1 \in DOMAIN t /\ t[i + 1] = s[i]
<1>1. /\ DOMAIN t = 1 .. Len(s) + 1 /\ DOMAIN s = 1 .. Len(s) /\ Len(s) \in Nat
      /\ t \in Seq(Frames)
  OBVIOUS
<1>2. t[1] = f
  OBVIOUS
<1>3. \A i \in 1 .. Len(s) : t[i + 1] = s[i]
  OBVIOUS
<1>4. ASSUME NEW i \in DOMAIN t, i # 1 PROVE i - 1 \in DOMAIN s /\ t[i] = s[i - 1]
  <2>1. i - 1 \in 1 .. Len(s) /\ (i - 1) + 1 = i
    BY <1>1, <1>4
  <2> QED
    BY <1>1, <1>3, <2>1
<1> QED
  BY <1>1, <1>2, <1>3, <1>4

(* A stack is its innermost frame and what is under it.                    *)
LEMMA Pop ==
  ASSUME NEW s \in Seq(Frames), s # << >>
  PROVE  /\ s[1] \in Frames /\ Tail(s) \in Seq(Frames)
         /\ s = <<s[1]>> \o Tail(s)
  OBVIOUS

(* What a new frame adds to what the invariant sees of a stack.            *)
LEMMA PushViews ==
  ASSUME NEW s \in Seq(Frames), NEW f \in Frames, NEW t, t = <<f>> \o s
  PROVE  /\ \A w : Emitting("closed", w, t) <=>
                     (f.at = "closed" /\ f.win = w) \/ Emitting("closed", w, s)
         /\ Mentioned(t) = Named(f) \cup Mentioned(s)
         /\ Ending(t) <=> IsLast(f) \/ Ending(s)
<1>1. /\ 1 \in DOMAIN t /\ t[1] = f
      /\ \A i \in DOMAIN t : i = 1 \/ (i - 1 \in DOMAIN s /\ t[i] = s[i - 1])
      /\ \A i \in DOMAIN s : i + 1 \in DOMAIN t /\ t[i + 1] = s[i]
  BY Push
<1>2. ASSUME NEW w
      PROVE  Emitting("closed", w, t) <=>
               (f.at = "closed" /\ f.win = w) \/ Emitting("closed", w, s)
  <2>1. Emitting("closed", w, t) => (f.at = "closed" /\ f.win = w) \/ Emitting("closed", w, s)
    BY <1>1 DEF Emitting
  <2>2. f.at = "closed" /\ f.win = w => Emitting("closed", w, t)
    BY <1>1 DEF Emitting
  <2>3. ASSUME NEW i \in DOMAIN s, s[i].at = "closed", s[i].win = w
        PROVE  Emitting("closed", w, t)
    <3>1. i + 1 \in DOMAIN t /\ t[i + 1] = s[i]
      BY <1>1
    <3> QED
      BY <2>3, <3>1 DEF Emitting
  <2> QED
    BY <2>1, <2>2, <2>3 DEF Emitting
<1>3. Ending(t) <=> IsLast(f) \/ Ending(s)
  BY <1>1 DEF Ending
<1>4. ASSUME NEW w PROVE w \in Mentioned(t) <=> w \in Named(f) \/ w \in Mentioned(s)
  BY <1>1 DEF Mentioned
<1> QED
  BY <1>2, <1>3, <1>4

(* A new frame keeps "closed" events apart unless it repeats one.          *)
LEMMA PushOnce ==
  ASSUME NEW s \in Seq(Frames), NEW f \in Frames, NEW t, t = <<f>> \o s
  PROVE  ClosesOnceEach(t) <=>
           ClosesOnceEach(s) /\ (f.at = "closed" => ~Emitting("closed", f.win, s))
<1>1. /\ 1 \in DOMAIN t /\ t[1] = f
      /\ \A i \in DOMAIN t : i \in Nat /\ (i = 1 \/ (i - 1 \in DOMAIN s /\ t[i] = s[i - 1]))
      /\ \A i \in DOMAIN s : i \in Nat \ {0} /\ i + 1 \in DOMAIN t /\ t[i + 1] = s[i]
  BY Push
<1>2. ASSUME ClosesOnceEach(t)
      PROVE  ClosesOnceEach(s) /\ (f.at = "closed" => ~Emitting("closed", f.win, s))
  <2>1. ASSUME NEW i \in DOMAIN s, NEW j \in DOMAIN s,
               s[i].at = "closed", s[j].at = "closed", s[i].win = s[j].win
        PROVE  i = j
    <3>1. /\ i + 1 \in DOMAIN t /\ t[i + 1] = s[i]
          /\ j + 1 \in DOMAIN t /\ t[j + 1] = s[j]
      BY <1>1
    <3>2. i + 1 = j + 1
      BY <1>2, <2>1, <3>1 DEF ClosesOnceEach
    <3> QED
      BY <1>1, <3>2
  <2>2. ASSUME f.at = "closed", NEW i \in DOMAIN s, s[i].at = "closed", s[i].win = f.win
        PROVE  FALSE
    <3>1. i + 1 = 1
      BY <1>1, <1>2, <2>2 DEF ClosesOnceEach
    <3> QED
      BY <1>1, <3>1
  <2> QED
    BY <2>1, <2>2 DEF ClosesOnceEach, Emitting
<1>3. ASSUME ClosesOnceEach(s), f.at = "closed" => ~Emitting("closed", f.win, s),
             NEW i \in DOMAIN t, NEW j \in DOMAIN t,
             t[i].at = "closed", t[j].at = "closed", t[i].win = t[j].win
      PROVE  i = j
  <2>1. CASE i = 1 /\ j = 1
    BY <2>1
  <2>2. CASE i = 1 /\ j # 1
    BY <1>1, <1>3, <2>2 DEF Emitting
  <2>3. CASE i # 1 /\ j = 1
    BY <1>1, <1>3, <2>3 DEF Emitting
  <2>4. CASE i # 1 /\ j # 1
    <3>1. i - 1 = j - 1
      BY <1>1, <1>3, <2>4 DEF ClosesOnceEach
    <3> QED
      BY <1>1, <3>1
  <2> QED
    BY <2>1, <2>2, <2>3, <2>4
<1> QED
  BY <1>2, <1>3 DEF ClosesOnceEach

(* What an action leaves on the stack is what it found there, or all but   *)
(* an event whose end changes nothing else, ...                            *)
Below(s) ==
  /\ s \in Seq(Frames) /\ ClosesOnceEach(s) /\ Closings(s) = Closings(stack)
  /\ Mentioned(s) \subseteq Mentioned(stack)

(* ... and it may put an event on it; W are the windows it closes.         *)
After(t, W) ==
  /\ t \in Seq(Frames) /\ ClosesOnceEach(t) /\ Closings(t) = Closings(stack) \cup W
  /\ \A v \in Mentioned(t) : native[v] # "none"

(* The invariant gives the current stack the property of stacks that an    *)
(* action may return to ...                                                *)
LEMMA BelowStack == IInv => Below(stack)
  BY DEF IInv, TypeOK, LifeInv, ClosingInv, Below

(* ... and so it does for what is under a frame that is not "closed".      *)
LEMMA BelowUnder ==
  ASSUME IInv, stack # << >>, Top.at # "closed"
  PROVE  Below(Under) /\ (Ending(stack) => IsLast(Top) \/ Ending(Under))
<1>1. /\ stack \in Seq(Frames) /\ Top \in Frames /\ Under \in Seq(Frames)
      /\ stack = <<Top>> \o Under /\ ClosesOnceEach(stack)
  BY Pop DEF IInv, TypeOK, LifeInv, ClosingInv, Top, Under
<1>2. /\ \A w : Emitting("closed", w, stack) <=> Emitting("closed", w, Under)
      /\ Mentioned(Under) \subseteq Mentioned(stack)
      /\ Ending(stack) => IsLast(Top) \/ Ending(Under)
  BY <1>1, PushViews
<1>3. ClosesOnceEach(Under)
  BY <1>1, PushOnce
<1> QED
  BY <1>1, <1>2, <1>3 DEF Below, Closings

(* Returning to such a stack closes no window.                             *)
LEMMA BelowAfter ==
  ASSUME IInv, NEW s, Below(s)
  PROVE  After(s, {})
  BY DEF IInv, LifeInv, MadeInv, Below, After

(* An event other than "closed" may be emitted on it.                      *)
LEMMA PushAfter ==
  ASSUME IInv, NEW s, Below(s), NEW f \in Frames, f.at # "closed",
         \A v \in Named(f) : native[v] # "none"
  PROVE  /\ After(<<f>> \o s, {})
         /\ Ending(<<f>> \o s) <=> IsLast(f) \/ Ending(s)
<1> DEFINE t == <<f>> \o s
<1>1. s \in Seq(Frames) /\ t \in Seq(Frames)
  BY DEF Below
<1>2. /\ \A w : Emitting("closed", w, t) <=> Emitting("closed", w, s)
      /\ Mentioned(t) = Named(f) \cup Mentioned(s)
      /\ Ending(t) <=> IsLast(f) \/ Ending(s)
  BY <1>1, PushViews
<1>3. ClosesOnceEach(t)
  BY <1>1, PushOnce DEF Below
<1> HIDE DEF t
<1>4. Closings(t) = Closings(s)
  BY <1>2 DEF Closings
<1>5. After(t, {})
  BY <1>1, <1>2, <1>3, <1>4 DEF Below, After, IInv, LifeInv, MadeInv
<1> QED
  BY <1>2, <1>5 DEF t

(* The "closed" event of a window that was open may be emitted on it.      *)
LEMMA PushClosed ==
  ASSUME IInv, NEW s, Below(s), NEW w \in Windows, ~isClosed[w], native[w] # "none"
  PROVE  /\ After(<<Event("closed", w, "return")>> \o s, {w})
         /\ Ending(s) => Ending(<<Event("closed", w, "return")>> \o s)
<1> DEFINE f == Event("closed", w, "return")
           t == <<f>> \o s
<1>0. f \in Frames /\ Named(f) = {w} /\ f.at = "closed" /\ f.win = w /\ ~IsLast(f)
  BY DEF Event, Frames, Named, IsLast
<1> HIDE DEF f
<1>1. s \in Seq(Frames) /\ t \in Seq(Frames)
  BY <1>0 DEF Below
<1>2. /\ \A v : Emitting("closed", v, t) <=> v = w \/ Emitting("closed", v, s)
      /\ Mentioned(t) = {w} \cup Mentioned(s)
      /\ Ending(t) <=> Ending(s)
  BY <1>0, <1>1, PushViews
<1>3. ~Emitting("closed", w, s)
  BY DEF IInv, LifeInv, ClosingInv, Below, Closings
<1>4. ClosesOnceEach(t)
  BY <1>0, <1>1, <1>3, PushOnce DEF Below
<1> HIDE DEF t
<1>5. Closings(t) = Closings(s) \cup {w}
  BY <1>2 DEF Closings
<1>6. After(t, {w})
  BY <1>1, <1>2, <1>4, <1>5 DEF Below, After, IInv, LifeInv, MadeInv
<1> QED
  BY <1>2, <1>6 DEF t, f

(* Frames of events have the declared type.                                *)
LEMMA Frame ==
  ASSUME NEW at \in {"before-quit", "will-quit", "quit", "window-all-closed", "close",
                     "render-view-deleted"},
         NEW w \in Windows \cup {NoWindow}, NEW next \in {"return", "CloseAllWindows", "Cancel"}
  PROVE  /\ Event(at, w, next) \in Frames /\ Event(at, w, next).at = at
         /\ Named(Event(at, w, next)) = {w} \cap Windows
  BY DEF Event, Frames, Named

(* So has the frame of CloseAllWindows, which mentions made windows.       *)
LEMMA AllFrame ==
  ASSUME IInv
  PROVE  /\ CloseAllWindows \in Frames /\ CloseAllWindows.at = "CloseAllWindows"
         /\ \A v \in Named(CloseAllWindows) : native[v] # "none"
<1>1. Named(CloseAllWindows) = Listed
  BY WindowsAssumption DEF CloseAllWindows, Named, Listed
<1>2. Listed \subseteq Windows
  BY DEF IInv, TypeOK, Listed
<1> QED
  BY <1>1, <1>2 DEF IInv, TypeOK, LifeInv, OpenWindowsListed, CloseAllWindows, Frames

(* The list without a window.                                              *)
LEMMA WithoutWindow ==
  ASSUME IInv, NEW w \in Windows, NEW q, q = Without(w)
  PROVE  /\ q \in Seq(Windows)
         /\ \A i, j \in DOMAIN q : q[i] = q[j] => i = j
         /\ {q[i] : i \in DOMAIN q} = Listed \ {w}
<1>0. windows \in Seq(Windows) /\ \A i, j \in DOMAIN windows : windows[i] = windows[j] => i = j
  BY DEF IInv, TypeOK
<1>1. CASE w \notin Listed
  BY <1>0, <1>1 DEF Without, Listed
<1>2. CASE w \in Listed
  <2> DEFINE n == Len(windows)
             k == CHOOSE i \in DOMAIN windows : windows[i] = w
  <2>1. n \in Nat /\ DOMAIN windows = 1 .. n /\ k \in 1 .. n /\ windows[k] = w
    BY <1>0, <1>2 DEF Listed
  <2>2. q = SubSeq(windows, 1, k - 1) \o SubSeq(windows, k + 1, n)
    BY <1>2 DEF Without
  <2> HIDE DEF n, k
  <2>3. /\ q \in Seq(Windows) /\ DOMAIN q = 1 .. n - 1
        /\ \A i \in 1 .. n - 1 : q[i] = IF i < k THEN windows[i] ELSE windows[i + 1]
    <3> DEFINE a == SubSeq(windows, 1, k - 1)
               b == SubSeq(windows, k + 1, n)
    <3>1. a \in Seq(Windows) /\ Len(a) = k - 1 /\ \A i \in 1 .. k - 1 : a[i] = windows[i]
      BY <1>0, <2>1 DEF n
    <3>2. b \in Seq(Windows) /\ Len(b) = n - k /\ \A i \in 1 .. n - k : b[i] = windows[k + i]
      <4>1. b \in Seq(Windows) /\ Len(b) = n - k
        <5>1. k + 1 \in Int /\ n \in Int /\ \A i \in k + 1 .. n : windows[i] \in Windows
          BY <1>0, <2>1
        <5>2. b \in Seq(Windows) /\ Len(b) = IF k + 1 <= n THEN n - (k + 1) + 1 ELSE 0
          BY <5>1, SubSeqProperties
        <5> QED
          BY <2>1, <5>2
      <4>2. ASSUME NEW i \in 1 .. n - k PROVE b[i] = windows[k + i]
        <5>1. b[i] = windows[(k + 1) + i - 1]
          BY <1>0, <2>1, SubSeqProperties DEF n
        <5> QED
          BY <2>1, <5>1
      <4> QED
        BY <4>1, <4>2
    <3> HIDE DEF a, b
    <3>3. q = a \o b
      BY <2>2 DEF a, b
    <3>4. q \in Seq(Windows) /\ Len(q) = n - 1 /\ DOMAIN q = 1 .. n - 1
      <4>1. q \in Seq(Windows) /\ Len(q) = Len(a) + Len(b)
        BY <3>1, <3>2, <3>3, ConcatProperties
      <4> QED
        BY <2>1, <3>1, <3>2, <4>1
    <3>5. ASSUME NEW i \in 1 .. n - 1
          PROVE  q[i] = IF i < k THEN windows[i] ELSE windows[i + 1]
      <4>1. CASE i < k
        BY <2>1, <3>1, <3>2, <3>3, <4>1
      <4>2. CASE ~(i < k)
        <5>1. i - (k - 1) \in 1 .. n - k /\ k + (i - (k - 1)) = i + 1
          BY <2>1, <4>2
        <5>2. q[i] = b[i - (k - 1)]
          BY <2>1, <3>1, <3>2, <3>3, <4>2
        <5> QED
          BY <3>2, <4>2, <5>1, <5>2
      <4> QED
        BY <4>1, <4>2
    <3> QED
      BY <3>4, <3>5
  <2>7. ASSUME NEW i \in 1 .. n - 1
        PROVE  /\ \E l \in 1 .. n : l # k /\ q[i] = windows[l]
               /\ \A j \in 1 .. n - 1 : q[i] = q[j] => i = j
    <3> DEFINE At(h) == IF h < k THEN h ELSE h + 1
    <3>1. \A h \in 1 .. n - 1 : At(h) \in 1 .. n /\ At(h) # k /\ q[h] = windows[At(h)]
      BY <2>1, <2>3
    <3>2. \A h \in 1 .. n - 1 : At(i) = At(h) => i = h
      BY <2>1
    <3> HIDE DEF At
    <3> QED
      BY <1>0, <2>1, <3>1, <3>2
  <2>4. \A i, j \in DOMAIN q : q[i] = q[j] => i = j
    BY <2>3, <2>7
  <2>5. ASSUME NEW i \in DOMAIN q PROVE q[i] \in Listed \ {w}
    <3>1. PICK l \in 1 .. n : l # k /\ q[i] = windows[l]
      BY <2>3, <2>7
    <3> QED
      BY <1>0, <2>1, <3>1 DEF Listed
  <2>6. ASSUME NEW v \in Listed \ {w} PROVE \E i \in DOMAIN q : q[i] = v
    <3>1. PICK j \in 1 .. n : windows[j] = v
      BY <2>1 DEF Listed
    <3>2. CASE j < k
      BY <2>1, <2>3, <3>1, <3>2
    <3>3. CASE j > k
      <4>1. j - 1 \in 1 .. n - 1 /\ ~(j - 1 < k) /\ (j - 1) + 1 = j
        BY <2>1, <3>3
      <4> QED
        BY <2>3, <3>1, <4>1
    <3>4. j # k
      BY <2>1, <2>6, <3>1
    <3> QED
      BY <2>1, <3>2, <3>3, <3>4
  <2> QED
    BY <2>3, <2>4, <2>5, <2>6
<1> QED
  BY <1>1, <1>2

-----------------------------------------------------------------------------
(* The actions preserve the invariant.                                     *)

(* Frames mention windows only.                                            *)
LEMMA MentionedWindows ==
  ASSUME NEW s \in Seq(Frames)
  PROVE  Mentioned(s) \subseteq Windows
<1>1. ASSUME NEW f \in Frames PROVE Named(f) \subseteq Windows
  BY DEF Frames, Named
<1> QED
  BY <1>1 DEF Mentioned

(* What every action has in common: windows are not closed again nor made  *)
(* anew, and only W, which it has closed, are announced.                   *)
LEMMA Common ==
  ASSUME IInv, NEW W, After(stack', W), \A w \in W : isClosed'[w],
         \A w \in Windows : isClosed[w] => isClosed'[w],
         \A w \in Windows : native'[w] = "none" => native[w] = "none"
  PROVE  /\ ClosingInv'
         /\ \A w \in Mentioned(stack') : native'[w] # "none"
<1>1. \A w \in Closings(stack) : isClosed[w] /\ w \in Windows
  BY DEF IInv, LifeInv, ClosingInv, Closings
<1>2. \A w \in Closings(stack') : isClosed'[w]
  BY <1>1 DEF After
<1> QED
  BY <1>2, MentionedWindows DEF ClosingInv, After

(* An action that closes no window, and keeps the list.                    *)
LEMMA Quiet ==
  ASSUME IInv, After(stack', {}), UNCHANGED <<windows, native, isClosed>>,
         TypeOK', TimerHasReason',
         \A w \in Windows : native[w] = "none" => ~contents'[w] /\ ~timer'[w],
         \/ UNCHANGED app /\ (Ending(stack) => Ending(stack'))
         \/ ~isQuiting' \/ loop' # "running" \/ windows # << >> \/ Ending(stack')
  PROVE  IInv'
<1>1. \A w \in Windows : Emitting("closed", w, stack') <=> Emitting("closed", w, stack)
  BY DEF After, Closings
<1>2. ClosingInv' /\ \A w \in Mentioned(stack') : native'[w] # "none"
  BY Common
<1>3. MadeInv'
  BY <1>2 DEF IInv, LifeInv, MadeInv
<1>4. OpenWindowsListed'
  BY <1>1 DEF IInv, LifeInv, OpenWindowsListed, Listed
<1>5. QuitInv'
  BY DEF IInv, LifeInv, QuitInv, app
<1> QED
  BY <1>2, <1>3, <1>4, <1>5 DEF IInv, LifeInv

(* ... and one that closes a window immediately.                           *)
LEMMA Closing ==
  ASSUME IInv, NEW w \in Windows, native[w] # "none",
         NEW s, Below(s), Ending(stack) => Ending(s), CloseImmediately(w, s),
         UNCHANGED <<app, windows, native>>, TimerHasReason',
         held' \in [Windows -> BOOLEAN], contents' \in [Windows -> BOOLEAN],
         hung' \in [Windows -> BOOLEAN], timer' \in [Windows -> BOOLEAN],
         page' \in [Windows -> {"idle", "beforeunload", "unloading"}],
         \A v \in Windows : native[v] = "none" => ~contents'[v] /\ ~timer'[v]
  PROVE  IInv'
<1>1. CASE isClosed[w]
  <2>1. stack' = s /\ UNCHANGED isClosed
    BY <1>1 DEF CloseImmediately, IInv, TypeOK
  <2>2. After(stack', {})
    BY <2>1, BelowAfter
  <2>3. TypeOK'
    BY <2>1, <2>2 DEF IInv, TypeOK, After, app
  <2> QED
    BY <2>1, <2>2, <2>3, Quiet
<1>2. CASE ~isClosed[w]
  <2>1. stack' = <<Event("closed", w, "return")>> \o s /\ isClosed' = [isClosed EXCEPT ![w] = TRUE]
    BY <1>2 DEF CloseImmediately
  <2>2. After(stack', {w}) /\ (Ending(s) => Ending(stack'))
    BY <1>2, <2>1, PushClosed
  <2>3. /\ isClosed' \in [Windows -> BOOLEAN] /\ isClosed'[w]
        /\ \A v \in Windows : v # w => isClosed'[v] = isClosed[v]
    BY <2>1 DEF IInv, TypeOK
  <2>4. TypeOK'
    BY <2>2, <2>3 DEF IInv, TypeOK, After, app
  <2>5. ClosingInv' /\ \A v \in Mentioned(stack') : native'[v] # "none"
    BY <2>2, <2>3, Common
  <2>6. MadeInv'
    BY <2>3, <2>5 DEF IInv, LifeInv, MadeInv
  <2>7. ASSUME NEW v \in Windows
        PROVE  Emitting("closed", v, stack') <=> v = w \/ Emitting("closed", v, stack)
    BY <2>2 DEF After, Closings
  <2>8. OpenWindowsListed'
    BY <1>2, <2>3, <2>7 DEF IInv, LifeInv, OpenWindowsListed, Listed
  <2>9. QuitInv'
    BY <2>2 DEF IInv, LifeInv, QuitInv, app
  <2> QED
    BY <2>4, <2>5, <2>6, <2>8, <2>9 DEF IInv, LifeInv
<1> QED
  BY <1>1, <1>2

(* A window whose contents say that they are gone.                         *)
LEMMA DestroyThenCloseStep ==
  ASSUME IInv, NEW w \in Windows, native[w] # "none", NEW next \in {"return", "Cancel"},
         NEW s, Below(s), Ending(stack) => Ending(s), DestroyThenClose(w, s, next),
         UNCHANGED <<app, windows, native, held>>,
         (timer' = timer) \/ (contents[w] /\ timer' = [timer EXCEPT ![w] = TRUE])
  PROVE  IInv'
<1>0. TypeOK /\ TimerHasReason /\ \A v \in Windows : native[v] = "none" => ~contents[v] /\ ~timer[v]
  BY DEF IInv, LifeInv, MadeInv
<1>1. CASE contents[w]
  <2> DEFINE f == Event("render-view-deleted", w, next)
  <2>1. /\ contents' = [contents EXCEPT ![w] = FALSE] /\ page' = [page EXCEPT ![w] = "idle"]
        /\ hung' = [hung EXCEPT ![w] = FALSE] /\ UNCHANGED isClosed
        /\ stack' = <<f>> \o s
    BY <1>1 DEF DestroyThenClose
  <2>2. f \in Frames /\ f.at # "closed" /\ \A v \in Named(f) : native[v] # "none"
    BY Frame
  <2> HIDE DEF f
  <2>3. After(stack', {}) /\ (Ending(s) => Ending(stack'))
    BY <2>1, <2>2, PushAfter
  <2>4. TypeOK'
    BY <1>0, <2>1, <2>3 DEF TypeOK, After, app
  <2>5. TimerHasReason'
    BY <1>0, <2>1 DEF TypeOK, TimerHasReason
  <2>6. \A v \in Windows : native[v] = "none" => ~contents'[v] /\ ~timer'[v]
    BY <1>0, <2>1 DEF TypeOK
  <2> QED
    BY <2>1, <2>3, <2>4, <2>5, <2>6, Quiet
<1>2. CASE ~contents[w]
  <2>1. CloseImmediately(w, s) /\ UNCHANGED <<contents, page, hung, timer, held>>
    BY <1>2 DEF DestroyThenClose
  <2>2. TimerHasReason'
    BY <1>0, <2>1 DEF TimerHasReason
  <2> QED
    BY <1>0, <2>1, <2>2, Closing DEF TypeOK
<1> QED
  BY <1>1, <1>2

-----------------------------------------------------------------------------
(* What the application calls.                                             *)

(* app.quit keeps the invariant.                                           *)
LEMMA AppQuitsStep == IInv /\ AppQuits => IInv'
<1> SUFFICES ASSUME IInv, AppQuits PROVE IInv'
  OBVIOUS
<1>1. stack' = <<AppEvent("before-quit", "return")>> \o stack /\ UNCHANGED <<app, life, web>>
  BY DEF AppQuits
<1>2. /\ AppEvent("before-quit", "return") \in Frames
      /\ AppEvent("before-quit", "return").at = "before-quit"
      /\ Named(AppEvent("before-quit", "return")) = {}
  BY Frame, WindowsAssumption DEF AppEvent
<1>3. After(stack', {}) /\ (Ending(stack) => Ending(stack'))
  BY <1>1, <1>2, BelowStack, PushAfter
<1>4. TypeOK'
  BY <1>1, <1>3 DEF IInv, TypeOK, After, app, life, web
<1> QED
  BY <1>1, <1>3, <1>4, Quiet DEF IInv, LifeInv, MadeInv, TimerHasReason, life, web

(* A new window is listed and not mentioned by any frame.                  *)
LEMMA CreateWindowStep ==
  ASSUME IInv, NEW w \in Windows, CreateWindow(w)
  PROVE  IInv'
<1>0. TypeOK /\ LifeInv
  BY DEF IInv
<1>1. /\ native[w] = "none" /\ ~isClosed[w] /\ ~contents[w] /\ ~timer[w] /\ w \notin Listed
  BY <1>0 DEF CreateWindow, LifeInv, MadeInv, OpenWindowsListed
<1>2. /\ stack' = stack /\ UNCHANGED <<app, isClosed, page, hung, timer>>
      /\ native' = [native EXCEPT ![w] = "made"] /\ windows' = Append(windows, w)
      /\ contents' = [contents EXCEPT ![w] = TRUE] /\ held' = [held EXCEPT ![w] = TRUE]
  BY DEF CreateWindow
<1>3. /\ windows' \in Seq(Windows) /\ windows' # << >>
      /\ \A i, j \in DOMAIN windows' : windows'[i] = windows'[j] => i = j
      /\ Listed' = Listed \cup {w}
  <2>1. windows \in Seq(Windows) /\ \A i, j \in DOMAIN windows : windows[i] = windows[j] => i = j
    BY <1>0 DEF TypeOK
  <2>2. /\ windows' \in Seq(Windows) /\ windows' # << >>
        /\ DOMAIN windows = 1 .. Len(windows) /\ DOMAIN windows' = 1 .. Len(windows) + 1
        /\ \A i \in 1 .. Len(windows) : windows'[i] = windows[i]
        /\ windows'[Len(windows) + 1] = w /\ Len(windows) \in Nat
    BY <1>2, <2>1, AppendProperties
  <2>3. \A i, j \in DOMAIN windows' : windows'[i] = windows'[j] => i = j
    BY <1>1, <2>1, <2>2 DEF Listed
  <2>4. Listed' = Listed \cup {w}
    BY <2>2 DEF Listed
  <2> QED
    BY <2>2, <2>3, <2>4
<1>4. TypeOK'
  BY <1>0, <1>2, <1>3 DEF TypeOK, app
<1>5. /\ \A v \in Windows : native'[v] = IF v = w THEN "made" ELSE native[v]
      /\ \A v \in Windows : contents'[v] = (v = w \/ contents[v])
      /\ \A v \in Windows : native'[v] = "none" => native[v] = "none"
  BY <1>0, <1>2 DEF TypeOK
<1>6. After(stack', {})
  BY <1>2, BelowStack, BelowAfter
<1>7. ClosingInv' /\ \A v \in Mentioned(stack') : native'[v] # "none"
  BY <1>2, <1>5, <1>6, Common
<1>8. MadeInv'
  BY <1>0, <1>2, <1>5, <1>7 DEF LifeInv, MadeInv
<1>9. OpenWindowsListed'
  BY <1>0, <1>1, <1>2, <1>3, <1>5 DEF LifeInv, OpenWindowsListed
<1>10. QuitInv' /\ TimerHasReason'
  BY <1>0, <1>1, <1>2, <1>3, <1>5 DEF LifeInv, QuitInv, TimerHasReason
<1> QED
  BY <1>4, <1>7, <1>8, <1>9, <1>10 DEF IInv, LifeInv

(* Close, wherever it is called from, keeps the invariant.                 *)
LEMMA CloseStep ==
  ASSUME IInv, NEW w \in Windows, native[w] # "none",
         NEW s, Below(s), Ending(stack) => Ending(s), Close(w, s),
         UNCHANGED <<app, life, web>>
  PROVE  IInv'
<1>1. /\ Event("close", w, "return") \in Frames /\ Event("close", w, "return").at = "close"
      /\ \A v \in Named(Event("close", w, "return")) : native[v] # "none"
  BY Frame
<1>2. After(stack', {}) /\ (Ending(s) => Ending(stack'))
  BY <1>1, PushAfter, BelowAfter DEF Close
<1>3. TypeOK'
  BY <1>2 DEF IInv, TypeOK, After, app, life, web
<1> QED
  BY <1>2, <1>3, Quiet DEF IInv, LifeInv, MadeInv, TimerHasReason, life, web

(* BrowserWindow.close keeps the invariant.                                *)
LEMMA CloseWindowStep ==
  ASSUME IInv, NEW w \in Windows, CloseWindow(w)
  PROVE  IInv'
  BY BelowStack, CloseStep DEF CloseWindow

(* BrowserWindow.destroy keeps the invariant.                              *)
LEMMA DestroyWindowStep ==
  ASSUME IInv, NEW w \in Windows, DestroyWindow(w)
  PROVE  IInv'
<1>1. native[w] # "none" /\ DestroyThenClose(w, stack, "return") /\ timer' = timer
      /\ UNCHANGED <<app, windows, native, held>>
  BY DEF DestroyWindow
<1>2. Below(stack) /\ "return" \in {"return", "Cancel"}
  BY BelowStack
<1>3. (timer' = timer) \/ (contents[w] /\ timer' = [timer EXCEPT ![w] = TRUE])
  BY <1>1
<1> QED
  BY <1>1, <1>2, <1>3, DestroyThenCloseStep

(* Dropping a reference keeps the invariant.                               *)
LEMMA ForgetWindowStep ==
  ASSUME IInv, NEW w \in Windows, ForgetWindow(w)
  PROVE  IInv'
<1>1. /\ held' \in [Windows -> BOOLEAN] /\ UNCHANGED <<app, windows, native, isClosed, web, stack>>
  BY DEF ForgetWindow, IInv, TypeOK
<1>2. After(stack', {})
  BY <1>1, BelowStack, BelowAfter
<1>3. TypeOK'
  BY <1>1 DEF IInv, TypeOK, app, web
<1> QED
  BY <1>1, <1>2, <1>3, Quiet DEF IInv, LifeInv, MadeInv, TimerHasReason, web

-----------------------------------------------------------------------------
(* The application's handlers return.                                      *)

(* Where the handlers of an event other than "closed" have returned.       *)
LEMMA ReturnsBelow ==
  ASSUME IInv, NEW at, Returns(at), at # "closed"
  PROVE  /\ Below(Under) /\ Top.at = at /\ stack # << >> /\ Top \in Frames
         /\ Ending(stack) => at \in {"will-quit", "quit"} \/ Ending(Under)
<1>1. stack # << >> /\ Top.at = at
  BY DEF Returns
<1>2. Top \in Frames
  BY <1>1, Pop DEF IInv, TypeOK, Top
<1> QED
  BY <1>1, <1>2, BelowUnder DEF IsLast

(* Quit goes on to close the windows, or returns.                          *)
LEMMA ContinueStep ==
  ASSUME IInv, Below(Under), NEW next, Continue(next)
  PROVE  After(stack', {})
<1>1. CASE next = "CloseAllWindows"
  BY <1>1, AllFrame, PushAfter DEF Continue
<1>2. CASE next # "CloseAllWindows"
  BY <1>2, BelowAfter DEF Continue
<1> QED
  BY <1>1, <1>2

(* The steps that concern the application only.                            *)
LEMMA AppStep ==
  ASSUME IInv, After(stack', {}), UNCHANGED <<life, web>>,
         isQuiting' \in BOOLEAN, loop' \in {"running", "quit", "ended"}, toClose' \subseteq Windows,
         \/ UNCHANGED app /\ (Ending(stack) => Ending(stack'))
         \/ ~isQuiting' \/ loop' # "running" \/ windows # << >> \/ Ending(stack')
  PROVE  IInv'
<1>1. TypeOK'
  BY DEF IInv, TypeOK, After, life, web
<1> QED
  BY <1>1, Quiet DEF IInv, LifeInv, MadeInv, TimerHasReason, life, web

(* The rest of Browser::Quit after "before-quit" keeps the invariant.      *)
LEMMA BeforeQuitReturnsStep ==
  ASSUME IInv, NEW prevent \in BOOLEAN, BeforeQuitReturns(prevent)
  PROVE  IInv'
<1>1. Below(Under)
  BY ReturnsBelow DEF BeforeQuitReturns
<1>2. /\ isQuiting' = ~prevent /\ UNCHANGED <<loop, life, web>>
      /\ loop' \in {"running", "quit", "ended"} /\ toClose' \subseteq Windows
  BY DEF BeforeQuitReturns, IInv, TypeOK, Listed
<1>3. CASE prevent
  BY <1>1, <1>2, <1>3, BelowAfter, AppStep DEF BeforeQuitReturns
<1>4. CASE ~prevent /\ windows = << >>
  <2> DEFINE f == AppEvent("will-quit", "CloseAllWindows")
  <2>1. stack' = <<f>> \o Under
    BY <1>4 DEF BeforeQuitReturns
  <2>2. f \in Frames /\ f.at = "will-quit" /\ Named(f) = {}
    BY Frame, WindowsAssumption DEF AppEvent
  <2> HIDE DEF f
  <2>3. After(stack', {}) /\ Ending(stack')
    BY <1>1, <2>1, <2>2, PushAfter DEF IsLast
  <2> QED
    BY <1>2, <1>4, <2>3, AppStep
<1>5. CASE ~prevent /\ windows # << >>
  <2>1. stack' = <<CloseAllWindows>> \o Under
    BY <1>5 DEF BeforeQuitReturns
  <2>2. After(stack', {})
    BY <1>1, <2>1, AllFrame, PushAfter
  <2> QED
    BY <1>2, <1>5, <2>2, AppStep
<1> QED
  BY <1>3, <1>4, <1>5

(* The rest of NotifyAndShutdown after "will-quit" keeps the invariant.    *)
LEMMA WillQuitReturnsStep ==
  ASSUME IInv, NEW prevent \in BOOLEAN, WillQuitReturns(prevent)
  PROVE  IInv'
<1>1. Below(Under) /\ Top \in Frames
  BY ReturnsBelow DEF WillQuitReturns
<1>2. /\ isQuiting' = (isQuiting /\ ~prevent) /\ UNCHANGED <<loop, life, web>>
      /\ loop' \in {"running", "quit", "ended"} /\ toClose' \subseteq Windows
  BY DEF WillQuitReturns, IInv, TypeOK
<1>3. CASE prevent
  <2>1. After(stack', {})
    BY <1>1, <1>3, ContinueStep DEF WillQuitReturns
  <2> QED
    BY <1>2, <1>3, <2>1, AppStep
<1>4. CASE ~prevent
  <2> DEFINE f == AppEvent("quit", Top.next)
  <2>1. stack' = <<f>> \o Under
    BY <1>4 DEF WillQuitReturns
  <2>2. f \in Frames /\ f.at = "quit" /\ Named(f) = {}
    BY <1>1, Frame, WindowsAssumption DEF AppEvent, Frames
  <2> HIDE DEF f
  <2>3. After(stack', {}) /\ Ending(stack')
    BY <1>1, <2>1, <2>2, PushAfter DEF IsLast
  <2>4. isQuiting' \in BOOLEAN
    BY <1>2
  <2> QED
    BY <1>2, <2>3, <2>4, AppStep
<1> QED
  BY <1>3, <1>4

(* The rest of Shutdown after "quit" keeps the invariant.                  *)
LEMMA QuitReturnsStep == IInv /\ QuitReturns => IInv'
<1> SUFFICES ASSUME IInv, QuitReturns PROVE IInv'
  OBVIOUS
<1>1. After(stack', {})
  BY ReturnsBelow, ContinueStep DEF QuitReturns
<1>2. /\ isQuiting' = TRUE /\ loop' = "quit" /\ UNCHANGED <<life, web>>
      /\ toClose' \subseteq Windows
  BY DEF QuitReturns, IInv, TypeOK
<1> QED
  BY <1>1, <1>2, AppStep

(* Nothing is left to do after "window-all-closed".                        *)
LEMMA AllClosedReturnsStep == IInv /\ AllClosedReturns => IInv'
<1> SUFFICES ASSUME IInv, AllClosedReturns PROVE IInv'
  OBVIOUS
<1>1. Below(Under) /\ (Ending(stack) => Ending(Under)) /\ stack' = Under /\ UNCHANGED <<app, life, web>>
  BY ReturnsBelow DEF AllClosedReturns
<1> QED
  BY <1>1, BelowAfter, AppStep DEF IInv, TypeOK, app

(* A close that was prevented cancels the quit.                            *)
LEMMA ClosePreventedStep == IInv /\ ClosePrevented => IInv'
<1> SUFFICES ASSUME IInv, ClosePrevented PROVE IInv'
  OBVIOUS
<1>1. /\ Below(Under) /\ stack' = Under /\ isQuiting' = FALSE /\ UNCHANGED <<loop, life, web>>
      /\ toClose' = {}
  BY ReturnsBelow DEF ClosePrevented
<1> QED
  BY <1>1, BelowAfter, AppStep DEF IInv, TypeOK

(* The loop of CloseAllWindows keeps the invariant.                        *)
LEMMA CloseNextStep == IInv /\ CloseNext => IInv'
<1> SUFFICES ASSUME IInv, CloseNext PROVE IInv'
  OBVIOUS
<1>1. /\ Below(Under) /\ Top.at = "CloseAllWindows" /\ stack # << >> /\ Top \in Frames
      /\ Ending(stack) => Ending(Under)
      /\ UNCHANGED <<app, life, web>>
  BY ReturnsBelow DEF CloseNext
<1>2. CASE Top.rest = << >> /\ stack' = Under
  BY <1>1, <1>2, BelowAfter, AppStep DEF IInv, TypeOK, app
<1>3. CASE Top.rest # << >>
  <2> DEFINE f == [Top EXCEPT !.rest = Tail(@)]
             w == Head(Top.rest)
             s == <<f>> \o Under
  <2>1. Top.rest \in Seq(Windows) /\ w \in Windows /\ w = Top.rest[1] /\ 1 \in DOMAIN Top.rest
    BY <1>1, <1>3 DEF Frames
  <2>2. f \in Frames /\ f.at = "CloseAllWindows" /\ Named(f) \subseteq Named(Top)
    <3>1. Tail(Top.rest) \in Seq(Windows)
          /\ \A k \in DOMAIN Tail(Top.rest) : k + 1 \in DOMAIN Top.rest /\ Tail(Top.rest)[k] = Top.rest[k + 1]
      BY <1>3, <2>1
    <3>2. f \in Frames /\ f.at = "CloseAllWindows" /\ f.win = Top.win /\ f.rest = Tail(Top.rest)
      BY <1>1, <3>1 DEF Frames
    <3> HIDE DEF f
    <3> QED
      BY <3>1, <3>2 DEF Named
  <2>3. Named(Top) \subseteq Mentioned(stack)
    BY <1>1 DEF Mentioned, Top, IInv, TypeOK
  <2>4. \A v \in Named(Top) : native[v] # "none"
    BY <2>3 DEF IInv, LifeInv, MadeInv
  <2>5. w \in Named(Top)
    BY <2>1 DEF Named
  <2> HIDE DEF f, w
  <2>6. After(s, {}) /\ (Ending(stack) => Ending(s))
    BY <1>1, <2>2, <2>4, PushAfter
  <2>7. Below(s)
    <3>1. s \in Seq(Frames) /\ ClosesOnceEach(s) /\ Closings(s) = Closings(stack)
      BY <2>6 DEF After
    <3>2. Mentioned(s) = Named(f) \cup Mentioned(Under)
      BY <1>1, <2>2, PushViews DEF Below
    <3> QED
      BY <1>1, <2>2, <2>3, <3>1, <3>2 DEF Below
  <2> HIDE DEF s
  <2>8. IF native[w] = "freed" THEN stack' = s ELSE Close(w, s)
    BY <1>3 DEF CloseNext, s, f, w
  <2>9. CASE stack' = s
    BY <1>1, <2>6, <2>9, AppStep DEF IInv, TypeOK, app
  <2>10. CASE Close(w, s)
    BY <1>1, <2>1, <2>4, <2>5, <2>6, <2>7, <2>10, CloseStep
  <2> QED
    BY <2>8, <2>9, <2>10
<1> QED
  BY <1>2, <1>3 DEF CloseNext

(* A window that an event is about has been made.                          *)
LEMMA TopMade ==
  ASSUME IInv, NEW w \in Windows, stack # << >>, Top.win = w
  PROVE  native[w] # "none"
<1>1. w \in Mentioned(stack)
  BY DEF Mentioned, Named, Top, IInv, TypeOK
<1> QED
  BY <1>1 DEF IInv, LifeInv, MadeInv

(* A close that goes on to the page keeps the invariant.                   *)
LEMMA CloseAllowedStep ==
  ASSUME IInv, NEW w \in Windows, CloseAllowed(w)
  PROVE  IInv'
<1>0. TypeOK /\ TimerHasReason /\ \A v \in Windows : native[v] = "none" => ~contents[v] /\ ~timer[v]
  BY DEF IInv, LifeInv, MadeInv
<1>1. Below(Under) /\ (Ending(stack) => Ending(Under)) /\ stack # << >>
  BY ReturnsBelow DEF CloseAllowed
<1>2. native[w] # "none"
  BY <1>1, TopMade DEF CloseAllowed
<1>3. UNCHANGED <<app, windows, native, held>>
  BY DEF CloseAllowed
<1>4. CASE ~contents[w] /\ CloseImmediately(w, Under) /\ UNCHANGED <<contents, page, hung, timer>>
  <2>1. TimerHasReason'
    BY <1>0, <1>4 DEF TimerHasReason
  <2> QED
    BY <1>0, <1>1, <1>2, <1>3, <1>4, <2>1, Closing DEF TypeOK
<1>5. CASE contents[w]
  <2>1. /\ timer' = [timer EXCEPT ![w] = TRUE] /\ stack' = Under
        /\ UNCHANGED <<isClosed, contents, hung>>
    BY <1>5 DEF CloseAllowed
  <2>2. PICK p \in {"beforeunload", "unloading"} :
          page' = [page EXCEPT ![w] = IF @ = "idle" THEN p ELSE @]
    BY <1>5 DEF CloseAllowed
  <2>3. After(stack', {})
    BY <1>1, <2>1, BelowAfter
  <2>4. TypeOK'
    BY <1>0, <1>3, <2>1, <2>2, <2>3 DEF TypeOK, After, app
  <2>5. TimerHasReason'
    BY <1>0, <2>1, <2>2 DEF TypeOK, TimerHasReason
  <2>6. \A v \in Windows : native[v] = "none" => ~contents'[v] /\ ~timer'[v]
    BY <1>0, <1>2, <2>1 DEF TypeOK
  <2> QED
    BY <1>1, <1>3, <2>1, <2>3, <2>4, <2>5, <2>6, Quiet
<1> QED
  BY <1>4, <1>5 DEF CloseAllowed

(* A close without a page to ask keeps the invariant.                      *)
LEMMA CloseDeadPageStep ==
  ASSUME IInv, NEW w \in Windows, CloseDeadPage(w)
  PROVE  IInv'
<1>1. Below(Under) /\ (Ending(stack) => Ending(Under)) /\ stack # << >>
  BY ReturnsBelow DEF CloseDeadPage
<1>2. native[w] # "none"
  BY <1>1, TopMade DEF CloseDeadPage
<1>3. /\ DestroyThenClose(w, Under, "Cancel") /\ UNCHANGED <<app, windows, native, held>>
      /\ (timer' = timer) \/ (contents[w] /\ timer' = [timer EXCEPT ![w] = TRUE])
      /\ "Cancel" \in {"return", "Cancel"}
  BY DEF CloseDeadPage
<1> QED
  BY <1>1, <1>2, <1>3, DestroyThenCloseStep

(* The rest of a destruction after "render-view-deleted" keeps the         *)
(* invariant.                                                              *)
LEMMA ViewDeletedReturnsStep ==
  ASSUME IInv, NEW w \in Windows, ViewDeletedReturns(w)
  PROVE  IInv'
<1>0. TypeOK /\ TimerHasReason /\ \A v \in Windows : native[v] = "none" => ~contents[v] /\ ~timer[v]
  BY DEF IInv, LifeInv, MadeInv
<1>1. Below(Under) /\ (Ending(stack) => Ending(Under)) /\ stack # << >>
  BY ReturnsBelow DEF ViewDeletedReturns
<1>2. native[w] # "none"
  BY <1>1, TopMade DEF ViewDeletedReturns
<1>3. /\ CloseImmediately(w, Under) /\ UNCHANGED <<app, windows, native, held, contents, page, hung>>
      /\ timer' = [timer EXCEPT ![w] = @ /\ Top.next # "Cancel"]
  BY DEF ViewDeletedReturns
<1>4. timer' \in [Windows -> BOOLEAN] /\ \A v \in Windows : timer'[v] => timer[v]
  BY <1>0, <1>3 DEF TypeOK
<1>5. TimerHasReason'
  BY <1>0, <1>3, <1>4 DEF TimerHasReason
<1> QED
  BY <1>0, <1>1, <1>2, <1>3, <1>4, <1>5, Closing DEF TypeOK

-----------------------------------------------------------------------------
(* A window leaves the list, ...                                           *)

(* ... and the last one tells the browser.                                 *)
LEMMA RemoveWindowStep ==
  ASSUME IInv, NEW w \in Windows, NEW s \in Seq(Frames), ClosesOnceEach(s),
         RemoveWindow(w, s)
  PROVE  /\ stack' \in Seq(Frames) /\ ClosesOnceEach(stack')
         /\ Closings(stack') = Closings(s) /\ Mentioned(stack') = Mentioned(s)
         /\ Ending(s) => Ending(stack')
         /\ isQuiting /\ windows' = << >> => Ending(stack')
         /\ windows' \in Seq(Windows)
         /\ \A i, j \in DOMAIN windows' : windows'[i] = windows'[j] => i = j
         /\ Listed' = Listed \ {w}
<1>1. /\ windows' \in Seq(Windows)
      /\ \A i, j \in DOMAIN windows' : windows'[i] = windows'[j] => i = j
      /\ Listed' = Listed \ {w}
  <2>1. windows' = Without(w) /\ Listed' = {windows'[i] : i \in DOMAIN windows'}
    BY DEF RemoveWindow, Listed
  <2> QED
    BY <2>1, WithoutWindow
<1>2. CASE windows' # << >>
  BY <1>1, <1>2 DEF RemoveWindow
<1>3. CASE windows' = << >>
  <2> DEFINE f == AppEvent(IF isQuiting THEN "will-quit" ELSE "window-all-closed", "return")
  <2>1. stack' = <<f>> \o s
    BY <1>3 DEF RemoveWindow
  <2>2. f \in Frames /\ f.at # "closed" /\ Named(f) = {} /\ (isQuiting => f.at = "will-quit")
    <3>1. CASE isQuiting
      BY <3>1, Frame, WindowsAssumption DEF AppEvent
    <3>2. CASE ~isQuiting
      BY <3>2, Frame, WindowsAssumption DEF AppEvent
    <3> QED
      BY <3>1, <3>2
  <2> HIDE DEF f
  <2>3. stack' \in Seq(Frames)
    BY <2>1, <2>2, Push
  <2>4. /\ \A v : Emitting("closed", v, stack') <=> Emitting("closed", v, s)
        /\ Mentioned(stack') = Mentioned(s)
        /\ Ending(stack') <=> IsLast(f) \/ Ending(s)
    BY <2>1, <2>2, PushViews
  <2>5. ClosesOnceEach(stack')
    BY <2>1, <2>2, PushOnce
  <2> QED
    BY <1>1, <2>2, <2>3, <2>4, <2>5 DEF IsLast, Closings
<1> QED
  BY <1>2, <1>3

(* ... when its "closed" handlers have returned, ...                       *)
LEMMA ClosedReturnsStep ==
  ASSUME IInv, NEW w \in Windows, ClosedReturns(w)
  PROVE  IInv'
<1>0. TypeOK /\ LifeInv
  BY DEF IInv
<1>1. /\ stack # << >> /\ Top.at = "closed" /\ Top.win = w /\ RemoveWindow(w, Under)
      /\ UNCHANGED <<app, native, held, isClosed, web>>
  BY DEF ClosedReturns, Returns
<1>2. /\ stack \in Seq(Frames) /\ Top \in Frames /\ Under \in Seq(Frames)
      /\ stack = <<Top>> \o Under /\ ClosesOnceEach(stack)
  BY <1>0, <1>1, Pop DEF TypeOK, LifeInv, ClosingInv, Top, Under
<1>3. /\ \A v : Emitting("closed", v, stack) <=> v = w \/ Emitting("closed", v, Under)
      /\ Mentioned(Under) \subseteq Mentioned(stack)
      /\ Ending(stack) => Ending(Under)
  BY <1>1, <1>2, PushViews DEF IsLast
<1>4. ClosesOnceEach(Under) /\ ~Emitting("closed", w, Under)
  BY <1>1, <1>2, PushOnce
<1>5. /\ stack' \in Seq(Frames) /\ ClosesOnceEach(stack')
      /\ Closings(stack') = Closings(Under) /\ Mentioned(stack') = Mentioned(Under)
      /\ Ending(Under) => Ending(stack')
      /\ isQuiting /\ windows' = << >> => Ending(stack')
      /\ windows' \in Seq(Windows)
      /\ \A i, j \in DOMAIN windows' : windows'[i] = windows'[j] => i = j
      /\ Listed' = Listed \ {w}
  BY <1>1, <1>2, <1>4, RemoveWindowStep
<1>6. TypeOK'
  BY <1>0, <1>1, <1>5 DEF TypeOK, app, web
<1>7. \A v \in Windows : Emitting("closed", v, stack') <=> v # w /\ Emitting("closed", v, stack)
  BY <1>3, <1>4, <1>5 DEF Closings
<1>8. ClosingInv' /\ isClosed[w]
  <2>1. \A v \in Closings(stack) : isClosed[v]
    BY <1>0 DEF LifeInv, ClosingInv
  <2>2. w \in Closings(stack) /\ Closings(stack') \subseteq Closings(stack)
    BY <1>3, <1>7 DEF Closings
  <2> QED
    BY <1>1, <1>5, <2>1, <2>2 DEF ClosingInv
<1>9. MadeInv'
  BY <1>0, <1>1, <1>3, <1>5 DEF LifeInv, MadeInv, web
<1>10. OpenWindowsListed'
  BY <1>0, <1>1, <1>5, <1>7, <1>8 DEF LifeInv, OpenWindowsListed
<1>11. QuitInv' /\ TimerHasReason'
  BY <1>0, <1>1, <1>5 DEF LifeInv, QuitInv, TimerHasReason, app, web
<1> QED
  BY <1>6, <1>8, <1>9, <1>10, <1>11 DEF IInv, LifeInv

(* ... or when it is collected.                                            *)
LEMMA CollectWindowStep ==
  ASSUME IInv, NEW w \in Windows, CollectWindow(w)
  PROVE  IInv'
<1>0. TypeOK /\ LifeInv
  BY DEF IInv
<1>1. /\ native[w] = "made" /\ \A i \in DOMAIN stack : stack[i].win # w
      /\ native' = [native EXCEPT ![w] = "freed"] /\ isClosed' = [isClosed EXCEPT ![w] = TRUE]
      /\ contents' = [contents EXCEPT ![w] = FALSE] /\ page' = [page EXCEPT ![w] = "idle"]
      /\ hung' = [hung EXCEPT ![w] = FALSE] /\ timer' = [timer EXCEPT ![w] = FALSE]
      /\ UNCHANGED <<app, held>>
  BY DEF CollectWindow
<1>2. ~Emitting("closed", w, stack)
  BY <1>1 DEF Emitting
<1>3. stack \in Seq(Frames) /\ ClosesOnceEach(stack)
  BY <1>0 DEF TypeOK, LifeInv, ClosingInv
<1>4. /\ After(stack', {})
      /\ Ending(stack) => Ending(stack')
      /\ isQuiting /\ windows' = << >> => windows = << >> \/ Ending(stack')
      /\ windows' \in Seq(Windows)
      /\ \A i, j \in DOMAIN windows' : windows'[i] = windows'[j] => i = j
      /\ Listed' = Listed \ {w}
  <2>1. CASE isClosed[w]
    <3>1. UNCHANGED <<windows, stack>>
      BY <2>1 DEF CollectWindow
    <3>2. w \notin Listed
      BY <1>0, <1>2, <2>1 DEF LifeInv, OpenWindowsListed
    <3> QED
      BY <1>0, <3>1, <3>2, BelowStack, BelowAfter DEF TypeOK, Listed
  <2>2. CASE ~isClosed[w]
    <3>1. RemoveWindow(w, stack)
      BY <2>2 DEF CollectWindow
    <3> QED
      BY <1>0, <1>3, <3>1, RemoveWindowStep DEF After, LifeInv, MadeInv
  <2> QED
    BY <2>1, <2>2
<1>5. TypeOK'
  BY <1>0, <1>1, <1>4 DEF TypeOK, After, app
<1>6. /\ \A v \in Windows : native'[v] = IF v = w THEN "freed" ELSE native[v]
      /\ \A v \in Windows : isClosed'[v] = (v = w \/ isClosed[v])
      /\ \A v \in Windows : contents'[v] = (v # w /\ contents[v])
      /\ \A v \in Windows : timer'[v] = (v # w /\ timer[v])
      /\ \A v \in Windows : v # w => hung'[v] = hung[v] /\ page'[v] = page[v]
  BY <1>0, <1>1 DEF TypeOK
<1>7. ClosingInv' /\ \A v \in Mentioned(stack') : native'[v] # "none"
  <2>1. /\ \A v \in Windows : isClosed[v] => isClosed'[v]
        /\ \A v \in Windows : native'[v] = "none" => native[v] = "none"
        /\ \A v \in {} : isClosed'[v]
    BY <1>6
  <2> QED
    BY <1>4, <2>1, Common
<1>8. MadeInv'
  BY <1>0, <1>6, <1>7 DEF LifeInv, MadeInv
<1>9. \A v \in Windows : Emitting("closed", v, stack') <=> Emitting("closed", v, stack)
  BY <1>4 DEF After, Closings
<1>10. OpenWindowsListed'
  BY <1>0, <1>2, <1>4, <1>6, <1>9 DEF LifeInv, OpenWindowsListed
<1>11. QuitInv'
  BY <1>0, <1>1, <1>4 DEF LifeInv, QuitInv, app
<1>12. TimerHasReason'
  BY <1>0, <1>6 DEF LifeInv, TimerHasReason
<1> QED
  BY <1>5, <1>7, <1>8, <1>10, <1>11, <1>12 DEF IInv, LifeInv

-----------------------------------------------------------------------------
(* Tasks of the message loop.                                              *)

(* The steps that concern a page only.                                     *)
LEMMA PageStep ==
  ASSUME IInv, UNCHANGED <<loop, life, contents, stack>>,
         UNCHANGED <<isQuiting, toClose>> \/ (~isQuiting' /\ toClose' = {}), isQuiting' \in BOOLEAN,
         page' \in [Windows -> {"idle", "beforeunload", "unloading"}],
         hung' \in [Windows -> BOOLEAN], timer' \in [Windows -> BOOLEAN],
         \A w \in Windows : timer'[w] => contents[w] \/ timer[w], TimerHasReason'
  PROVE  IInv'
<1>1. After(stack', {})
  BY BelowStack, BelowAfter
<1>2. TypeOK'
  BY DEF IInv, TypeOK, life
<1>3. \A w \in Windows : native[w] = "none" => ~contents'[w] /\ ~timer'[w]
  BY DEF IInv, LifeInv, MadeInv
<1>4. UNCHANGED <<windows, native, isClosed>> /\ (Ending(stack) => Ending(stack'))
  BY DEF life
<1>5. (UNCHANGED app /\ (Ending(stack) => Ending(stack'))) \/ ~isQuiting'
  BY <1>4 DEF app
<1> QED
  BY <1>1, <1>2, <1>3, <1>4, <1>5, Quiet

(* What the page answers, and the timer, keep the invariant.               *)
LEMMA TaskStep ==
  ASSUME IInv, NEW w \in Windows,
         \/ PageProceeds(w) \/ PageStays(w)
         \/ RendererUnresponsive(w) \/ RendererResponsive(w) \/ NotifyWindowUnresponsive(w)
  PROVE  IInv'
<1> USE DEF TimerHasReason
<1>0. TypeOK /\ TimerHasReason
  BY DEF IInv, LifeInv
<1>1. UNCHANGED <<loop, life, contents, stack>> /\ isQuiting' \in BOOLEAN
      /\ (UNCHANGED <<isQuiting, toClose>> \/ (~isQuiting' /\ toClose' = {}))
  BY <1>0 DEF PageProceeds, PageStays, RendererUnresponsive, RendererResponsive,
              NotifyWindowUnresponsive, TypeOK, app
<1>2. /\ page' \in [Windows -> {"idle", "beforeunload", "unloading"}]
      /\ hung' \in [Windows -> BOOLEAN] /\ timer' \in [Windows -> BOOLEAN]
      /\ \A v \in Windows : timer'[v] => contents[v] \/ timer[v]
      /\ TimerHasReason'
  <2>1. CASE PageProceeds(w)
    BY <1>0, <2>1 DEF PageProceeds, TypeOK
  <2>2. CASE PageStays(w)
    BY <1>0, <2>2 DEF PageStays, TypeOK
  <2>3. CASE RendererUnresponsive(w)
    BY <1>0, <2>3 DEF RendererUnresponsive, TypeOK
  <2>4. CASE RendererResponsive(w)
    BY <1>0, <2>4 DEF RendererResponsive, TypeOK
  <2>5. CASE NotifyWindowUnresponsive(w)
    BY <1>0, <2>5 DEF NotifyWindowUnresponsive, TypeOK
  <2> QED
    BY <2>1, <2>2, <2>3, <2>4, <2>5
<1> QED
  BY <1>1, <1>2, PageStep

(* The page that has unloaded closes the window.                           *)
LEMMA CloseContentsStep ==
  ASSUME IInv, NEW w \in Windows, CloseContents(w)
  PROVE  IInv'
<1>1. /\ contents[w] /\ DestroyThenClose(w, stack, "Cancel")
      /\ UNCHANGED <<app, windows, native, held>> /\ "Cancel" \in {"return", "Cancel"}
  BY DEF CloseContents
<1>2. (timer' = timer) \/ (contents[w] /\ timer' = [timer EXCEPT ![w] = TRUE])
  BY DEF CloseContents
<1>3. native[w] # "none" /\ Below(stack)
  BY <1>1, BelowStack DEF IInv, LifeInv, MadeInv
<1> QED
  BY <1>1, <1>2, <1>3, DestroyThenCloseStep

(* The end of the message loop keeps the invariant.                        *)
LEMMA EndLoopStep == IInv /\ EndLoop => IInv'
<1> SUFFICES ASSUME IInv, EndLoop PROVE IInv'
  OBVIOUS
<1>1. loop' = "ended" /\ UNCHANGED <<isQuiting, toClose, life, web, stack>>
  BY DEF EndLoop
<1> QED
  BY <1>1, BelowStack, BelowAfter, AppStep DEF IInv, TypeOK

-----------------------------------------------------------------------------

(* The invariant holds initially ...                                       *)
LEMMA IInit == Init => IInv
<1> SUFFICES ASSUME Init PROVE IInv
  OBVIOUS
<1>1. stack = << >> /\ windows = << >> /\ DOMAIN stack = {} /\ DOMAIN windows = {}
  BY DEF Init
<1>2. TypeOK
  <2>1. windows \in Seq(Windows) /\ stack \in Seq(Frames)
    BY <1>1
  <2> QED
    BY <1>1, <2>1 DEF Init, TypeOK
<1>3. LifeInv
  BY <1>1 DEF Init, LifeInv, MadeInv, Mentioned, ClosingInv, ClosesOnceEach, Closings,
              Emitting, OpenWindowsListed, Listed, QuitInv, TimerHasReason
<1> QED
  BY <1>2, <1>3 DEF IInv

(* ... is kept by every step ...                                           *)
LEMMA INext == IInv /\ [Next]_vars => IInv'
<1> SUFFICES ASSUME IInv, [Next]_vars PROVE IInv'
  OBVIOUS
<1>1. CASE Call
  BY <1>1, AppQuitsStep, CreateWindowStep, CloseWindowStep, DestroyWindowStep,
     ForgetWindowStep, CollectWindowStep DEF Call
<1>2. CASE Return
  BY <1>2, BeforeQuitReturnsStep, WillQuitReturnsStep, QuitReturnsStep, AllClosedReturnsStep,
     CloseNextStep, ClosePreventedStep, CloseAllowedStep, CloseDeadPageStep,
     ViewDeletedReturnsStep, ClosedReturnsStep DEF Return
<1>3. CASE Task
  BY <1>3, TaskStep, CloseContentsStep, EndLoopStep DEF Task
<1>4. CASE UNCHANGED vars
  BY <1>4 DEF vars, app, life, web, IInv, TypeOK, LifeInv, MadeInv, ClosingInv,
              OpenWindowsListed, Listed, QuitInv, TimerHasReason
<1> QED
  BY <1>1, <1>2, <1>3, <1>4 DEF Next

(* ... and so holds in every reachable state.                              *)
LEMMA Inductive == Spec => []IInv
  BY IInit, INext, PTL DEF Spec

(* The variables keep their types, and no window is listed twice           *)
(* (WindowList::AddWindow, RemoveWindow).                                  *)
THEOREM TypeCorrect == Spec => []TypeOK
<1>1. IInv => TypeOK
  BY DEF IInv
<1> QED
  BY <1>1, Inductive, PTL

(* The list of windows is what is open, whatever the handlers of the       *)
(* events of closing call (NotifyWindowClosed, ~NativeWindow).             *)
THEOREM WindowsListed == Spec => []OpenWindowsListed
<1>1. IInv => OpenWindowsListed
  BY DEF IInv, LifeInv
<1> QED
  BY <1>1, Inductive, PTL

(* A quit that nobody cancelled is carried out once no window is left      *)
(* (Browser::Quit, OnWindowAllClosed).                                     *)
THEOREM QuitRemembered == Spec => []QuitNotForgotten
<1>1. IInv => QuitNotForgotten
  BY DEF IInv, LifeInv, QuitInv, Ending, QuitNotForgotten
<1> QED
  BY <1>1, Inductive, PTL

(* The timer of a window that stays is about its page (BeforeUnloadFired,  *)
(* RendererResponsive).                                                    *)
THEOREM TimersHaveReason == Spec => []TimerHasReason
<1>1. IInv => TimerHasReason
  BY DEF IInv, LifeInv
<1> QED
  BY <1>1, Inductive, PTL

-----------------------------------------------------------------------------
(* "closed" is emitted once.                                               *)

(* A stack on which no window that is closed is announced again.           *)
Announces(t) ==
  \A w \in Windows : isClosed[w] =>
    \A d \in 1 .. Len(t) : ClosedAt(d, w, t) => ClosedAt(d, w, stack)

(* A frame pushed on a stack leaves the frames below at their depth.       *)
LEMMA ClosedAtPush ==
  ASSUME NEW s \in Seq(Frames), NEW f \in Frames, NEW t, t = <<f>> \o s,
         NEW d \in Nat, NEW w
  PROVE  ClosedAt(d, w, t) <=>
           (d = Len(s) + 1 /\ f.at = "closed" /\ f.win = w) \/ ClosedAt(d, w, s)
<1>1. Len(t) = Len(s) + 1 /\ Len(s) \in Nat
  OBVIOUS
<1>2. t[1] = f /\ \A i \in 1 .. Len(s) : t[i + 1] = s[i]
  BY Push
<1>3. CASE d = Len(s) + 1
  BY <1>1, <1>2, <1>3 DEF ClosedAt
<1>4. CASE d \in 1 .. Len(s)
  <2>1. /\ Len(s) + 1 - d \in 1 .. Len(s)
        /\ Len(t) + 1 - d = (Len(s) + 1 - d) + 1
    BY <1>1, <1>4
  <2>2. t[Len(t) + 1 - d] = s[Len(s) + 1 - d]
    BY <1>2, <2>1
  <2> QED
    BY <1>1, <1>4, <2>2 DEF ClosedAt
<1>5. CASE d \notin 1 .. Len(s) + 1
  BY <1>1, <1>5 DEF ClosedAt
<1> QED
  BY <1>1, <1>3, <1>4, <1>5

(* A stack announces nothing new with a frame that is not the "closed" of  *)
(* a closed window.                                                        *)
LEMMA PushAnnounces ==
  ASSUME NEW s \in Seq(Frames), Announces(s), NEW f \in Frames,
         f.at = "closed" => f.win \in Windows /\ ~isClosed[f.win]
  PROVE  Announces(<<f>> \o s)
<1> DEFINE t == <<f>> \o s
<1> SUFFICES ASSUME NEW w \in Windows, isClosed[w], NEW d \in 1 .. Len(t), ClosedAt(d, w, t)
             PROVE  ClosedAt(d, w, stack)
  BY DEF Announces
<1>0. d \in Nat /\ t = <<f>> \o s
  OBVIOUS
<1> HIDE DEF t
<1>1. ClosedAt(d, w, s)
  <2>1. (d = Len(s) + 1 /\ f.at = "closed" /\ f.win = w) \/ ClosedAt(d, w, s)
    BY <1>0, ClosedAtPush
  <2> QED
    BY <2>1
<1>2. d \in 1 .. Len(s)
  BY <1>1 DEF ClosedAt
<1> QED
  BY <1>1, <1>2 DEF Announces

(* Nor does a stack that lost its innermost frame.                         *)
LEMMA UnderAnnounces ==
  ASSUME IInv, stack # << >>
  PROVE  /\ Under \in Seq(Frames) /\ Announces(Under)
         /\ Top \in Frames
<1>1. Top \in Frames /\ Under \in Seq(Frames) /\ stack = <<Top>> \o Under
  BY Pop DEF IInv, TypeOK, Top, Under
<1>2. ASSUME NEW w, NEW d \in 1 .. Len(Under), ClosedAt(d, w, Under)
      PROVE  ClosedAt(d, w, stack)
  <2>1. d \in Nat
    OBVIOUS
  <2> QED
    BY <1>1, <1>2, <2>1, ClosedAtPush
<1> QED
  BY <1>1, <1>2 DEF Announces

(* Nor, of course, the stack itself.                                       *)
LEMMA StackAnnounces == IInv => stack \in Seq(Frames) /\ Announces(stack)
  BY DEF IInv, TypeOK, Announces

(* CloseImmediately announces "closed" for an open window only.            *)
LEMMA CloseImmediatelyAnnounces ==
  ASSUME NEW w \in Windows, NEW s \in Seq(Frames), Announces(s), CloseImmediately(w, s)
  PROVE  Announces(stack')
<1>1. CASE isClosed[w]
  BY <1>1 DEF CloseImmediately
<1>2. CASE ~isClosed[w]
  <2> DEFINE f == Event("closed", w, "return")
  <2>1. f \in Frames /\ f.at = "closed" /\ f.win = w
    BY DEF Event, Frames
  <2>2. stack' = <<f>> \o s
    BY <1>2 DEF CloseImmediately
  <2> HIDE DEF f
  <2> QED
    BY <1>2, <2>1, <2>2, PushAnnounces
<1> QED
  BY <1>1, <1>2

(* So does the destruction of the contents.                                *)
LEMMA DestroyThenCloseAnnounces ==
  ASSUME NEW w \in Windows, NEW s \in Seq(Frames), Announces(s),
         NEW next \in {"return", "Cancel"}, DestroyThenClose(w, s, next)
  PROVE  Announces(stack')
<1>1. CASE contents[w]
  <2> DEFINE f == Event("render-view-deleted", w, next)
  <2>1. f \in Frames /\ f.at = "render-view-deleted" /\ stack' = <<f>> \o s
    BY <1>1, Frame DEF DestroyThenClose
  <2> HIDE DEF f
  <2> QED
    BY <2>1, PushAnnounces
<1>2. CASE ~contents[w]
  BY <1>2, CloseImmediatelyAnnounces DEF DestroyThenClose
<1> QED
  BY <1>1, <1>2

(* So does Close.                                                          *)
LEMMA CloseAnnounces ==
  ASSUME NEW w \in Windows, NEW s \in Seq(Frames), Announces(s), Close(w, s)
  PROVE  Announces(stack')
  BY Frame, PushAnnounces DEF Close

(* RemoveWindow emits "window-all-closed" at most.                         *)
LEMMA RemoveWindowAnnounces ==
  ASSUME NEW w \in Windows, NEW s \in Seq(Frames), Announces(s), RemoveWindow(w, s)
  PROVE  Announces(stack')
<1>1. CASE windows' # << >>
  BY <1>1 DEF RemoveWindow
<1>2. CASE windows' = << >> /\ isQuiting
  BY <1>2, Frame, PushAnnounces DEF RemoveWindow, AppEvent
<1>3. CASE windows' = << >> /\ ~isQuiting
  BY <1>3, Frame, PushAnnounces DEF RemoveWindow, AppEvent
<1> QED
  BY <1>1, <1>2, <1>3

(* Quit announces nothing when it goes on.                                 *)
LEMMA ContinueAnnounces ==
  ASSUME IInv, stack # << >>, NEW next, Continue(next)
  PROVE  Announces(stack')
<1>1. CASE next = "CloseAllWindows"
  BY <1>1, UnderAnnounces, AllFrame, PushAnnounces DEF Continue
<1>2. CASE next # "CloseAllWindows"
  BY <1>2, UnderAnnounces DEF Continue
<1> QED
  BY <1>1, <1>2

(* No call of the application announces a window again ...                 *)
LEMMA CallAnnounces == IInv /\ Call => Announces(stack')
<1> SUFFICES ASSUME IInv, Call PROVE Announces(stack')
  OBVIOUS
<1> USE StackAnnounces
<1>1. CASE AppQuits
  BY <1>1, Frame, PushAnnounces DEF AppQuits, AppEvent
<1>2. ASSUME NEW w \in Windows, CreateWindow(w) \/ ForgetWindow(w)
      PROVE  Announces(stack')
  BY <1>2 DEF CreateWindow, ForgetWindow
<1>3. ASSUME NEW w \in Windows, CloseWindow(w)
      PROVE  Announces(stack')
  BY <1>3, CloseAnnounces DEF CloseWindow
<1>4. ASSUME NEW w \in Windows, DestroyWindow(w)
      PROVE  Announces(stack')
  BY <1>4, DestroyThenCloseAnnounces DEF DestroyWindow
<1>5. ASSUME NEW w \in Windows, CollectWindow(w)
      PROVE  Announces(stack')
  BY <1>5, RemoveWindowAnnounces DEF CollectWindow
<1> QED
  BY <1>1, <1>2, <1>3, <1>4, <1>5 DEF Call

(* ... nor does what follows a handler ...                                 *)
LEMMA ReturnAnnounces == IInv /\ Return => Announces(stack')
<1> SUFFICES ASSUME IInv, Return PROVE Announces(stack')
  OBVIOUS
<1>0. stack # << >> => Under \in Seq(Frames) /\ Announces(Under) /\ Top \in Frames
  BY UnderAnnounces
<1>1. ASSUME NEW prevent \in BOOLEAN, BeforeQuitReturns(prevent)
      PROVE  Announces(stack')
  <2>1. /\ AppEvent("will-quit", "CloseAllWindows") \in Frames
        /\ AppEvent("will-quit", "CloseAllWindows").at = "will-quit"
    BY Frame DEF AppEvent
  <2>2. stack # << >> /\ stack' \in {Under, <<AppEvent("will-quit", "CloseAllWindows")>> \o Under,
                                    <<CloseAllWindows>> \o Under}
    BY <1>1 DEF BeforeQuitReturns, Returns
  <2> QED
    BY <1>0, <2>1, <2>2, AllFrame, PushAnnounces
<1>2. ASSUME NEW prevent \in BOOLEAN, WillQuitReturns(prevent)
      PROVE  Announces(stack')
  <2>0. stack # << >>
    BY <1>2 DEF WillQuitReturns, Returns
  <2>1. CASE prevent
    BY <1>2, <2>0, <2>1, ContinueAnnounces DEF WillQuitReturns
  <2>2. CASE ~prevent
    <3>1. Top.next \in {"return", "CloseAllWindows", "Cancel"}
      BY <1>0, <2>0 DEF Frames
    <3>2. AppEvent("quit", Top.next) \in Frames /\ AppEvent("quit", Top.next).at = "quit"
      BY <3>1, Frame DEF AppEvent
    <3> QED
      BY <1>0, <1>2, <2>0, <2>2, <3>2, PushAnnounces DEF WillQuitReturns
  <2> QED
    BY <2>1, <2>2
<1>3. CASE QuitReturns
  BY <1>3, ContinueAnnounces DEF QuitReturns, Returns
<1>4. CASE AllClosedReturns \/ ClosePrevented
  BY <1>0, <1>4 DEF AllClosedReturns, ClosePrevented, Returns
<1>5. CASE CloseNext
  <2>0. stack # << >> /\ Top.at = "CloseAllWindows"
    BY <1>5 DEF CloseNext, Returns
  <2>1. CASE stack' = Under
    BY <1>0, <2>0, <2>1
  <2>2. CASE Top.rest # << >>
    <3> DEFINE f == [Top EXCEPT !.rest = Tail(@)]
               s == <<f>> \o Under
    <3>1. Head(Top.rest) \in Windows /\ f \in Frames /\ f.at = "CloseAllWindows"
      <4>1. Top.rest \in Seq(Windows) /\ Tail(Top.rest) \in Seq(Windows) /\ Head(Top.rest) \in Windows
        BY <1>0, <2>0, <2>2 DEF Frames
      <4> QED
        BY <1>0, <2>0, <4>1 DEF Frames
    <3> HIDE DEF f
    <3>2. s \in Seq(Frames) /\ Announces(s)
      BY <1>0, <2>0, <3>1, PushAnnounces
    <3> HIDE DEF s
    <3>3. stack' = s \/ Close(Head(Top.rest), s)
      BY <1>5, <2>2 DEF CloseNext, s, f
    <3> QED
      BY <3>1, <3>2, <3>3, CloseAnnounces
  <2> QED
    BY <1>5, <2>1, <2>2 DEF CloseNext
<1>6. ASSUME NEW w \in Windows, CloseAllowed(w)
      PROVE  Announces(stack')
  BY <1>0, <1>6, CloseImmediatelyAnnounces DEF CloseAllowed, Returns
<1>7. ASSUME NEW w \in Windows, CloseDeadPage(w)
      PROVE  Announces(stack')
  BY <1>0, <1>7, DestroyThenCloseAnnounces DEF CloseDeadPage, Returns
<1>8. ASSUME NEW w \in Windows, ViewDeletedReturns(w)
      PROVE  Announces(stack')
  BY <1>0, <1>8, CloseImmediatelyAnnounces DEF ViewDeletedReturns, Returns
<1>9. ASSUME NEW w \in Windows, ClosedReturns(w)
      PROVE  Announces(stack')
  BY <1>0, <1>9, RemoveWindowAnnounces DEF ClosedReturns, Returns
<1> QED
  BY <1>1, <1>2, <1>3, <1>4, <1>5, <1>6, <1>7, <1>8, <1>9 DEF Return

(* ... nor a task of the message loop.                                     *)
LEMMA TaskAnnounces == IInv /\ Task => Announces(stack')
<1> SUFFICES ASSUME IInv, Task PROVE Announces(stack')
  OBVIOUS
<1> USE StackAnnounces
<1>1. ASSUME NEW w \in Windows, CloseContents(w)
      PROVE  Announces(stack')
  BY <1>1, DestroyThenCloseAnnounces DEF CloseContents
<1> QED
  BY <1>1 DEF Task, PageProceeds, PageStays, RendererUnresponsive, RendererResponsive,
              NotifyWindowUnresponsive, EndLoop

(* A window is closed once, whatever its handlers and those of others call *)
(* (NotifyWindowClosed).                                                   *)
THEOREM ClosesOnce == Spec => ClosedOnce
<1>1. IInv /\ [Next]_vars => [Announces(stack')]_vars
  BY CallAnnounces, ReturnAnnounces, TaskAnnounces DEF Next
<1>2. [Announces(stack')]_vars =>
        [\A w \in Windows : isClosed[w] =>
           \A d \in 1 .. Len(stack') : ClosedAt(d, w, stack') => ClosedAt(d, w, stack)]_vars
  BY DEF Announces
<1> QED
  BY <1>1, <1>2, Inductive, PTL DEF Spec, ClosedOnce
=============================================================================

------------------------- MODULE DesktopShellProofs -------------------------
(***************************************************************************)
(* Proofs about DesktopShell: ShellInv is inductive, and with it the       *)
(* application never leaves the server it spawned behind and can always be *)
(* reached by its user, for any number of windows and of quits.            *)
(***************************************************************************)
EXTENDS DesktopShell, TLAPS

WindowStates == {"none", "visible", "hidden", "destroyed"}

(* createWindow shows one window more, which is the one main.js knows.       *)
LEMMA CreateWindowFacts ==
  ASSUME TypeOK, CreateWindow
  PROVE  /\ window' \in [Windows -> WindowStates]
         /\ mainWindow' \in Windows
         /\ window'[mainWindow'] = "visible"
         /\ \A v \in Windows : v # mainWindow' => window'[v] = window[v]
BY DEF TypeOK, CreateWindow, WindowStates

(* A close destroys the closed window or hides the one main.js knows.        *)
LEMMA CloseHandlerFacts ==
  ASSUME TypeOK, NEW w \in Windows, CloseHandler(w)
  PROVE  /\ window' \in [Windows -> WindowStates]
         /\ \/ /\ mainWindow' = NoWindow /\ window'[w] = "destroyed"
               /\ \A v \in Windows : v # w => window'[v] = window[v]
            \/ /\ mainWindow' = mainWindow
               /\ mainWindow # NoWindow => window'[mainWindow] = "hidden"
               /\ \A v \in Windows : v # mainWindow => window'[v] = window[v]
<1> USE DEF TypeOK, Windows, NoWindow, WindowStates
<1>1. CASE isQuitting
  BY <1>1 DEF CloseHandler
<1>2. CASE ~isQuitting
  BY <1>2 DEF CloseHandler
<1> QED
  BY <1>1, <1>2

(* app.quit waits for a server it knows; without one it ends the application *)
(* and its windows, or is cancelled by a window that hides.                  *)
LEMMA AppQuitFacts ==
  ASSUME TypeOK, NEW quitting \in BOOLEAN, AppQuit(quitting), DesktopAssumption
  PROVE  /\ isQuitting' \in BOOLEAN /\ quits' = quits + 1 /\ quits' \in 0..MaxQuits
         /\ closing' \in BOOLEAN
         /\ \/ /\ serverProcess /\ timers' = timers + 1
               /\ UNCHANGED <<window, mainWindow, exited>>
            \/ /\ ~serverProcess /\ timers' = timers /\ exited' = TRUE
               /\ window' \in [Windows -> WindowStates]
               /\ mainWindow' = NoWindow
               /\ \A w \in Windows : window'[w] \notin {"visible", "hidden"}
            \/ /\ ~serverProcess /\ timers' = timers /\ UNCHANGED <<mainWindow, exited>>
               /\ window' \in [Windows -> WindowStates]
               /\ mainWindow # NoWindow => window'[mainWindow] = "hidden"
               /\ \A v \in Windows : v # mainWindow => window'[v] = window[v]
<1> USE DEF TypeOK, Windows, NoWindow, WindowStates
<1>1. /\ isQuitting' \in BOOLEAN /\ quits' = quits + 1 /\ quits' \in 0..MaxQuits
      /\ closing' \in BOOLEAN
  <2>1. isQuitting' \in BOOLEAN /\ (closing' = TRUE \/ closing' = closing)
    BY DEF AppQuit
  <2>2. quits' = quits + 1 /\ quits' \in 0..MaxQuits
    BY DEF AppQuit, DesktopAssumption
  <2> QED
    BY <2>1, <2>2
<1>2. CASE serverProcess
  BY <1>1, <1>2 DEF AppQuit
<1>3. CASE ~serverProcess /\ (quitting \/ \A w \in Windows : ~Alive(w))
  BY <1>1, <1>3 DEF AppQuit, Alive
<1>4. CASE ~serverProcess /\ ~(quitting \/ \A w \in Windows : ~Alive(w))
  BY <1>1, <1>4 DEF AppQuit
<1> QED
  BY <1>2, <1>3, <1>4

(* The invariant holds when the application starts. *)
LEMMA InitInv == DesktopAssumption /\ Init => ShellInv
<1> SUFFICES ASSUME DesktopAssumption, Init PROVE ShellInv
  OBVIOUS
<1>1. production \in BOOLEAN
  BY DEF DesktopAssumption, Init
<1>2. TypeOK
  <2>1. mainWindow \in 0..MaxWindows /\ timers \in 0..MaxQuits /\ quits \in 0..MaxQuits
    BY DEF DesktopAssumption, Init, NoWindow
  <2>2. window \in [Windows -> WindowStates]
    BY DEF Init, WindowStates
  <2> QED
    BY <1>1, <2>1, <2>2 DEF Init, TypeOK, Dialogs, WindowStates
<1>3. MainWindowAlive /\ ServerKnown
  BY <1>1 DEF Init, MainWindowAlive, ServerKnown, Misled
<1>4. \A w \in Windows : ~Alive(w)
  BY DEF Init, Alive
<1>5. OneWindow /\ WindowKnown
  BY <1>4 DEF Init, OneWindow, WindowKnown
<1> QED
  BY <1>2, <1>3, <1>5 DEF ShellInv

(* Steps that leave the windows alone and end no application: startup, the   *)
(* server's exit and the log.                                                *)
LEMMA QuietSteps ==
  ASSUME ShellInv, StartServer \/ ConnectFails \/ ServerExits \/ ViewLog
  PROVE  ShellInv'
<1>0. UNCHANGED <<production, window, mainWindow, tray, isQuitting, timers, quits, closing, exited, early>>
  BY DEF StartServer, ConnectFails, ServerExits, ViewLog
<1>1. TypeOK'
  <2>1. startup' \in {"init", "waiting", "ready", "failed"} /\ server' \in {"none", "running", "exited", "closed"}
    BY DEF ShellInv, TypeOK, StartServer, ConnectFails, ServerExits, ViewLog
  <2>2. crashed' \in BOOLEAN /\ serverProcess' \in BOOLEAN
    BY DEF ShellInv, TypeOK, StartServer, ConnectFails, ServerExits, ViewLog
  <2>3. crashDialog' \in Dialogs /\ startDialog' \in Dialogs
    BY DEF ShellInv, TypeOK, StartServer, ConnectFails, ServerExits, ViewLog, Dialogs
  <2> QED
    BY <1>0, <2>1, <2>2, <2>3 DEF ShellInv, TypeOK
<1>2. MainWindowAlive'
  BY <1>0 DEF ShellInv, MainWindowAlive, Alive
<1>3. ServerKnown'
  BY <1>0 DEF ShellInv, TypeOK, ServerKnown, Misled, StartServer, ConnectFails, ServerExits, ViewLog, DialogOpen
<1>4. WindowKnown'
  <2>1. startup' = "ready" <=> startup = "ready"
    BY DEF StartServer, ConnectFails, ServerExits, ViewLog
  <2> QED
    BY <1>0, <2>1 DEF ShellInv, WindowKnown, Alive
<1> QED
  BY <1>1, <1>2, <1>3, <1>4 DEF ShellInv, OneWindow, WindowKnown

(* A window is created when startup is over, by the tray or by the dock.     *)
LEMMA CreatingSteps ==
  ASSUME ShellInv, CreateWindow, ~exited,
         UNCHANGED <<production, server, crashed, serverProcess, isQuitting, crashDialog,
                     startDialog, timers, quits, closing, exited>>,
         \/ startup = "waiting" /\ startup' = "ready" /\ tray' = TRUE /\ early' = early
         \/ tray /\ mainWindow = NoWindow /\ UNCHANGED <<startup, tray, early>>
         \/ /\ \A w \in Windows : ~Alive(w)
            /\ early' = (early \/ startup # "ready") /\ UNCHANGED <<startup, tray>>
  PROVE  ShellInv'
<1>0. /\ window' \in [Windows -> WindowStates] /\ mainWindow' \in Windows
      /\ window'[mainWindow'] = "visible"
      /\ \A v \in Windows : v # mainWindow' => window'[v] = window[v]
  BY CreateWindowFacts DEF ShellInv
<1>1. TypeOK'
  <2>1. early' \in BOOLEAN /\ tray' \in BOOLEAN /\ startup' \in {"init", "waiting", "ready", "failed"}
    BY DEF ShellInv, TypeOK
  <2>2. mainWindow' \in 0..MaxWindows
    BY <1>0 DEF Windows
  <2> QED
    BY <1>0, <2>1, <2>2 DEF ShellInv, TypeOK, WindowStates
<1>2. MainWindowAlive'
  BY <1>0 DEF MainWindowAlive, Alive
<1>3. ServerKnown'
  BY DEF ShellInv, ServerKnown, Misled
<1>4. ~early' => ~early /\ \A w \in Windows : ~Alive(w)
  <2>1. NoWindow \notin Windows
    BY DEF NoWindow, Windows
  <2>2. ~early' => ~early
    BY DEF ShellInv, TypeOK
  <2> QED
    BY <2>1, <2>2 DEF ShellInv, WindowKnown
<1>5. WindowKnown'
  <2>1. tray' <=> startup' = "ready"
    BY DEF ShellInv, WindowKnown
  <2>2. ~early' => startup' = "ready"
    BY <1>4 DEF ShellInv, WindowKnown
  <2>3. ~early' => \A w \in Windows : Alive(w)' => w = mainWindow'
    BY <1>0, <1>4 DEF Alive
  <2> QED
    BY <2>1, <2>2, <2>3 DEF WindowKnown
<1> QED
  BY <1>1, <1>2, <1>3, <1>5 DEF ShellInv, OneWindow, WindowKnown

(* A window is shown, hidden or destroyed by its user. *)
LEMMA WindowSteps ==
  ASSUME ShellInv, (\E w \in Windows : CloseWindow(w)) \/ TrayShow \/ TrayClick \/ Activate \/ Connected
  PROVE  ShellInv'
<1>1. ASSUME NEW w \in Windows, CloseWindow(w) PROVE ShellInv'
  <2>0. Alive(w) /\ ~exited /\ CloseHandler(w) /\ WindowKeeps /\ UNCHANGED early
    BY <1>1 DEF CloseWindow, Alive
  <2>1. /\ window' \in [Windows -> WindowStates]
        /\ \/ /\ mainWindow' = NoWindow /\ window'[w] = "destroyed"
              /\ \A v \in Windows : v # w => window'[v] = window[v]
           \/ /\ mainWindow' = mainWindow
              /\ mainWindow # NoWindow => window'[mainWindow] = "hidden"
              /\ \A v \in Windows : v # mainWindow => window'[v] = window[v]
    BY <2>0, CloseHandlerFacts DEF ShellInv
  <2>2. TypeOK'
    <3>1. mainWindow' \in 0..MaxWindows
      BY <2>1, DesktopAssumption DEF ShellInv, TypeOK, NoWindow, DesktopAssumption
    <3> QED
      BY <2>0, <2>1, <3>1 DEF ShellInv, TypeOK, WindowStates, WindowKeeps
  <2>3. MainWindowAlive'
    BY <2>1 DEF MainWindowAlive, Alive
  <2>4. ServerKnown'
    BY <2>0 DEF ShellInv, ServerKnown, Misled, WindowKeeps
  <2>5. WindowKnown'
    BY <2>0, <2>1 DEF ShellInv, WindowKnown, Alive, WindowKeeps
  <2> QED
    BY <2>2, <2>3, <2>4, <2>5 DEF ShellInv, OneWindow, WindowKnown
<1>2. ASSUME tray, ~exited, mainWindow # NoWindow, UNCHANGED <<mainWindow, early>>, WindowKeeps,
             NEW x \in {"visible", "hidden"}, window' = [window EXCEPT ![mainWindow] = x]
      PROVE  ShellInv'
  <2>0. mainWindow \in Windows
    BY <1>2 DEF ShellInv, TypeOK, Windows, NoWindow
  <2>1. /\ window' \in [Windows -> WindowStates] /\ window'[mainWindow] = x
        /\ \A v \in Windows : v # mainWindow => window'[v] = window[v]
    BY <1>2, <2>0 DEF ShellInv, TypeOK, WindowStates
  <2>2. TypeOK'
    BY <1>2, <2>1 DEF ShellInv, TypeOK, WindowStates, WindowKeeps
  <2>3. MainWindowAlive'
    BY <1>2, <2>1 DEF MainWindowAlive, Alive
  <2>4. ServerKnown'
    BY <1>2 DEF ShellInv, ServerKnown, Misled, WindowKeeps
  <2>5. WindowKnown'
    BY <1>2, <2>1 DEF ShellInv, WindowKnown, Alive, WindowKeeps
  <2> QED
    BY <2>2, <2>3, <2>4, <2>5 DEF ShellInv, OneWindow, WindowKnown
<1>3. CASE TrayShow
  <2>1. CASE mainWindow = NoWindow
    BY <1>3, <2>1, CreatingSteps DEF TrayShow, WindowKeeps
  <2>2. CASE mainWindow # NoWindow
    BY <1>3, <2>2, <1>2 DEF TrayShow
  <2> QED
    BY <2>1, <2>2
<1>4. CASE TrayClick
  <2>1. CASE mainWindow = NoWindow
    BY <1>4, <2>1, CreatingSteps DEF TrayClick, WindowKeeps
  <2>2. CASE mainWindow # NoWindow
    <3>1. \E x \in {"visible", "hidden"} : window' = [window EXCEPT ![mainWindow] = x]
      BY <1>4, <2>2 DEF TrayClick
    <3> QED
      BY <1>4, <2>2, <3>1, <1>2 DEF TrayClick
  <2> QED
    BY <2>1, <2>2
<1>5. CASE Activate
  BY <1>5, CreatingSteps DEF Activate, WindowKeeps
<1>6. CASE Connected
  BY <1>6, CreatingSteps DEF Connected
<1> QED
  BY <1>1, <1>3, <1>4, <1>5, <1>6

(* Every way to quit: the dialogs, the tray and the menu all call app.quit.  *)
LEMMA QuitSteps ==
  ASSUME ShellInv, CrashDialogQuit \/ StartDialogQuit \/ TrayQuit \/ MenuQuit
  PROVE  ShellInv'
<1>0. PICK quitting \in BOOLEAN : AppQuit(quitting)
  BY DEF CrashDialogQuit, StartDialogQuit, TrayQuit, MenuQuit, ShellInv, TypeOK
<1>a. /\ QuitKeeps /\ ~exited
      /\ crashDialog' \in {crashDialog, "answered"} /\ startDialog' \in {startDialog, "answered"}
  BY DEF CrashDialogQuit, StartDialogQuit, TrayQuit, MenuQuit
<1>b. /\ isQuitting' \in BOOLEAN /\ quits' = quits + 1 /\ quits' \in 0..MaxQuits
      /\ closing' \in BOOLEAN
  BY <1>0, AppQuitFacts, DesktopAssumption DEF ShellInv
<1>c. \/ /\ serverProcess /\ timers' = timers + 1
         /\ UNCHANGED <<window, mainWindow, exited>>
      \/ /\ ~serverProcess /\ timers' = timers /\ exited' = TRUE
         /\ window' \in [Windows -> WindowStates]
         /\ mainWindow' = NoWindow
         /\ \A w \in Windows : window'[w] \notin {"visible", "hidden"}
      \/ /\ ~serverProcess /\ timers' = timers /\ UNCHANGED <<mainWindow, exited>>
         /\ window' \in [Windows -> WindowStates]
         /\ mainWindow # NoWindow => window'[mainWindow] = "hidden"
         /\ \A v \in Windows : v # mainWindow => window'[v] = window[v]
  BY <1>0, AppQuitFacts, DesktopAssumption DEF ShellInv
<1>1. TypeOK'
  <2>1. timers' \in 0..MaxQuits /\ mainWindow' \in 0..MaxWindows
    BY <1>b, <1>c, DesktopAssumption DEF DesktopAssumption, ShellInv, ServerKnown, Misled, TypeOK, NoWindow
  <2>2. window' \in [Windows -> WindowStates] /\ exited' \in BOOLEAN
    BY <1>c DEF ShellInv, TypeOK, WindowStates
  <2>3. crashDialog' \in Dialogs /\ startDialog' \in Dialogs
    BY <1>a DEF ShellInv, TypeOK, Dialogs
  <2> QED
    BY <1>a, <1>b, <2>1, <2>2, <2>3 DEF ShellInv, TypeOK, QuitKeeps, WindowStates
<1>2. MainWindowAlive'
  BY <1>a, <1>c DEF ShellInv, MainWindowAlive, Alive
<1>3. ServerKnown'
  <2>1. timers' <= quits' /\ (timers > 0 => timers' > 0)
    BY <1>b, <1>c DEF ShellInv, ServerKnown, Misled, TypeOK
  <2>2. startup = "failed" => timers' > 0 \/ exited' \/ Misled'
    <3>1. ~early /\ startup = "failed" => \A w \in Windows : ~Alive(w)
      BY DEF ShellInv, WindowKnown, NoWindow, Windows
    <3>2. early' = early /\ serverProcess' = serverProcess /\ timers \in Nat
      BY <1>a DEF QuitKeeps, ShellInv, TypeOK
    <3>3. ~early /\ startup = "failed" /\ ~serverProcess => exited'
      BY <1>0, <3>1 DEF AppQuit
    <3> QED
      BY <1>a, <1>c, <3>2, <3>3 DEF Misled
  <2> QED
    BY <1>a, <1>c, <2>1, <2>2 DEF ShellInv, ServerKnown, Misled, QuitKeeps
<1>4. WindowKnown'
  BY <1>a, <1>c DEF ShellInv, WindowKnown, Alive, QuitKeeps
<1> QED
  BY <1>1, <1>2, <1>3, <1>4 DEF ShellInv, OneWindow, WindowKnown

(* The close event of the server, and the timer of before-quit.              *)
LEMMA EventSteps ==
  ASSUME ShellInv, ServerClosed \/ TimerFires
  PROVE  ShellInv'
<1>1. CASE TimerFires
  <2>0. /\ UNCHANGED <<production, startup, crashed, serverProcess, window, mainWindow,
                       tray, isQuitting, crashDialog, startDialog, quits, closing, early>>
        /\ exited' = TRUE /\ timers' = timers - 1 /\ timers > 0
        /\ server' = IF serverProcess /\ server = "running" THEN "exited" ELSE server
    BY <1>1 DEF TimerFires
  <2>1. TypeOK'
    <3>1. timers' \in 0..MaxQuits /\ timers' <= quits'
      BY <2>0, DesktopAssumption DEF DesktopAssumption, ShellInv, TypeOK, ServerKnown, Misled
    <3> QED
      BY <2>0, <3>1 DEF ShellInv, TypeOK
  <2>2. MainWindowAlive' /\ WindowKnown'
    BY <2>0 DEF ShellInv, MainWindowAlive, WindowKnown, Alive
  <2>3. timers' <= quits'
    BY <2>0 DEF ShellInv, TypeOK, ServerKnown, Misled
  <2>4. ServerKnown'
    BY <2>0, <2>3 DEF ShellInv, ServerKnown, Misled
  <2> QED
    BY <2>1, <2>2, <2>4 DEF ShellInv, OneWindow, WindowKnown
<1>2. CASE ServerClosed
  <2>0. /\ UNCHANGED <<production, startup, crashed, tray, isQuitting, startDialog, timers,
                       quits, closing, early>>
        /\ ~exited /\ server' = "closed" /\ server = "exited"
        /\ serverProcess' = (serverProcess /\ ~closing) /\ exited' = closing
        /\ crashDialog' \in {crashDialog, "asking"}
    BY <1>2 DEF ServerClosed
  <2>1. \/ UNCHANGED <<window, mainWindow>>
        \/ mainWindow # NoWindow /\ CloseHandler(mainWindow)
    BY <1>2 DEF ServerClosed
  <2>2. mainWindow # NoWindow => mainWindow \in Windows
    BY DEF ShellInv, TypeOK, Windows, NoWindow
  <2>3. /\ window' \in [Windows -> WindowStates]
        /\ \/ UNCHANGED <<window, mainWindow>>
           \/ /\ mainWindow \in Windows /\ mainWindow' = NoWindow /\ window'[mainWindow] = "destroyed"
              /\ \A v \in Windows : v # mainWindow => window'[v] = window[v]
           \/ /\ mainWindow \in Windows /\ mainWindow' = mainWindow /\ mainWindow # NoWindow
              /\ window'[mainWindow] = "hidden"
              /\ \A v \in Windows : v # mainWindow => window'[v] = window[v]
    <3>1. CASE UNCHANGED <<window, mainWindow>>
      BY <3>1 DEF ShellInv, TypeOK, WindowStates
    <3>2. CASE mainWindow # NoWindow /\ CloseHandler(mainWindow)
      BY <2>2, <3>2, CloseHandlerFacts DEF ShellInv
    <3> QED
      BY <2>1, <3>1, <3>2
  <2>4. TypeOK'
    <3>1. mainWindow' \in 0..MaxWindows
      BY <2>3, DesktopAssumption DEF DesktopAssumption, ShellInv, TypeOK, NoWindow
    <3>2. serverProcess' \in BOOLEAN /\ exited' \in BOOLEAN
      BY <2>0 DEF ShellInv, TypeOK
    <3>3. crashDialog' \in Dialogs
      BY <2>0 DEF ShellInv, TypeOK, Dialogs
    <3> QED
      BY <2>0, <2>3, <3>1, <3>2, <3>3 DEF ShellInv, TypeOK, WindowStates
  <2>5. MainWindowAlive'
    BY <2>0, <2>3 DEF ShellInv, MainWindowAlive, Alive
  <2>6. ServerKnown'
    BY <2>0 DEF ShellInv, ServerKnown, Misled, TypeOK
  <2>7. WindowKnown'
    BY <2>0, <2>3 DEF ShellInv, WindowKnown, Alive
  <2> QED
    BY <2>4, <2>5, <2>6, <2>7 DEF ShellInv, OneWindow, WindowKnown
<1> QED
  BY <1>1, <1>2

(* Every step keeps the invariant. *)
LEMMA StepInv == ShellInv /\ [Next]_vars => ShellInv'
<1> SUFFICES ASSUME ShellInv, [Next]_vars PROVE ShellInv'
  OBVIOUS
<1>1. CASE StartServer \/ ConnectFails \/ ServerExits \/ ViewLog
  BY <1>1, QuietSteps
<1>2. CASE (\E w \in Windows : CloseWindow(w)) \/ TrayShow \/ TrayClick \/ Activate \/ Connected
  BY <1>2, WindowSteps
<1>3. CASE CrashDialogQuit \/ StartDialogQuit \/ TrayQuit \/ MenuQuit
  BY <1>3, QuitSteps
<1>4. CASE ServerClosed \/ TimerFires
  BY <1>4, EventSteps
<1>5. CASE UNCHANGED vars
  BY <1>5 DEF vars, ShellInv, TypeOK, MainWindowAlive, OneWindow, ServerKnown, Misled, WindowKnown, Alive
<1> QED
  BY <1>1, <1>2, <1>3, <1>4, <1>5 DEF Next, Over

(* What main.js knows of its windows and of its server is right: mainWindow  *)
(* is a window that exists, there is only one, and serverProcess is set      *)
(* while the server it spawned runs.                                         *)
THEOREM Shell == Spec => []ShellInv
<1>1. Init => ShellInv
  BY InitInv, DesktopAssumption
<1> QED
  BY <1>1, StepInv, PTL DEF Spec

(* Two facts give that no server is orphaned: the one the application exits  *)
(* with was known to it, and it was killed or had closed.                    *)
LEMMA OrphanStep ==
  ShellInv /\ NoOrphanServer /\ [Next]_vars => NoOrphanServer'
<1> SUFFICES ASSUME ShellInv, NoOrphanServer, [Next]_vars, exited' PROVE server' # "running"
  BY DEF NoOrphanServer
<1>1. CASE exited
  <2>1. server # "running" /\ startup' = startup
    BY <1>1 DEF NoOrphanServer, Next, vars, Over, StartServer, Connected, ConnectFails, ServerExits,
       ServerClosed, ViewLog, CrashDialogQuit, StartDialogQuit, TrayQuit, MenuQuit, CloseWindow,
       TrayShow, TrayClick, Activate, TimerFires
  <2> QED
    BY <1>1, <2>1 DEF Next, vars, Over, StartServer, Connected, ConnectFails, ServerExits,
       ServerClosed, ViewLog, CrashDialogQuit, StartDialogQuit, TrayQuit, MenuQuit, CloseWindow,
       TrayShow, TrayClick, Activate, TimerFires
<1>2. CASE ~exited
  <2>1. CASE CrashDialogQuit \/ StartDialogQuit \/ TrayQuit \/ MenuQuit
    <3>1. PICK quitting \in BOOLEAN : AppQuit(quitting)
      BY <2>1 DEF CrashDialogQuit, StartDialogQuit, TrayQuit, MenuQuit, ShellInv, TypeOK
    <3>2. ~serverProcess
      BY <1>2, <3>1 DEF AppQuit
    <3>3. server' = server
      BY <2>1 DEF CrashDialogQuit, StartDialogQuit, TrayQuit, MenuQuit, QuitKeeps
    <3> QED
      BY <3>2, <3>3 DEF ShellInv, ServerKnown, Misled
  <2>2. CASE ServerClosed \/ TimerFires
    BY <2>2 DEF ServerClosed, TimerFires, ShellInv, ServerKnown, Misled
  <2>3. CASE ~(CrashDialogQuit \/ StartDialogQuit \/ TrayQuit \/ MenuQuit \/ ServerClosed \/ TimerFires)
    BY <1>2, <2>3 DEF Next, vars, Over, StartServer, Connected, ConnectFails, ServerExits,
       ViewLog, CloseWindow, WindowKeeps, TrayShow, TrayClick, Activate
  <2> QED
    BY <2>1, <2>2, <2>3
<1> QED
  BY <1>1, <1>2

(* The application never exits leaving the server it spawned running: the    *)
(* close listener and the timer of before-quit see to it, however often the  *)
(* user quits and whether or not the server obeys SIGTERM.                   *)
THEOREM NoOrphan == Spec => []NoOrphanServer
<1>1. Init => NoOrphanServer
  BY DEF Init, NoOrphanServer
<1> QED
  BY <1>1, OrphanStep, Shell, PTL DEF Spec

(* Until it exits the application can be reached: it is starting, has its    *)
(* tray, shows a dialog or has a quit timer running.                         *)
THEOREM Reachable == Spec => []AlwaysReachable
<1>1. ShellInv => AlwaysReachable
  BY DEF ShellInv, TypeOK, ServerKnown, Misled, WindowKnown, AlwaysReachable
<1> QED
  BY <1>1, Shell, PTL

=============================================================================

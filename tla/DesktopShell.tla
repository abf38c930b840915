---------------------------- MODULE DesktopShell ----------------------------
(***************************************************************************)
(* The Electron shell (electron/main.js): it spawns the server, waits for  *)
(* its port, shows a window that closes to the tray, reports a crash of    *)
(* the server and takes the server down when the application quits.  The   *)
(* actors are the startup sequence, the server process, the user, Node's   *)
(* events and timers; the main process runs one callback at a time.        *)
(* Electron and the operating system are modelled from the calls main.js   *)
(* makes: app.quit asks before-quit and then every window, app.exit asks   *)
(* nobody, SIGTERM may be ignored and SIGKILL may not.                     *)
(***************************************************************************)
EXTENDS Naturals

CONSTANTS
  Modes,       \* modes to check: TRUE production, FALSE development
  Darwin,      \* macOS, where the dock activates the application
  MaxWindows,  \* bound: windows created
  MaxQuits     \* bound: times app.quit reaches before-quit

ASSUME DesktopAssumption ==
  /\ Modes \subseteq BOOLEAN /\ Modes # {} /\ Darwin \in BOOLEAN
  /\ MaxWindows \in Nat /\ MaxQuits \in Nat

VARIABLES
  production,     \* NODE_ENV is not development: a server is spawned
  startup,        \* "init", "waiting" for the port, "ready" or "failed"
  server,         \* the process: "none", "running", "exited", "closed"
  crashed,        \* it ended with a code that is neither 0 nor null
  serverProcess,  \* is the variable serverProcess set?
  window,         \* window[w]: "none", "visible", "hidden", "destroyed"
  mainWindow,     \* the window main.js knows, or NoWindow
  tray,           \* has the tray been created?
  isQuitting,     \* app.isQuitting
  crashDialog,    \* dialog of the server's close handler
  startDialog,    \* dialog of a failed startup
  timers,         \* 5 s timers of before-quit that are pending
  quits,          \* how often before-quit ran
  closing,        \* has before-quit registered its close listener?
  exited,         \* has the application exited?
  early           \* history: a window was created before startup was over

vars == <<production, startup, server, crashed, serverProcess, window,
          mainWindow, tray, isQuitting, crashDialog, startDialog, timers, quits,
          closing, exited, early>>

Windows == 1..MaxWindows
NoWindow == 0
Dialogs == {"none", "asking", "log", "answered"}
Alive(w) == window[w] \in {"visible", "hidden"}
DialogOpen(d) == d \in {"asking", "log"}

Init ==
  /\ production \in Modes
  /\ startup = "init"
  /\ server = "none" /\ crashed = FALSE /\ serverProcess = FALSE
  /\ window = [w \in Windows |-> "none"] /\ mainWindow = NoWindow
  /\ tray = FALSE /\ isQuitting = FALSE
  /\ crashDialog = "none" /\ startDialog = "none"
  /\ timers = 0 /\ quits = 0 /\ closing = FALSE
  /\ exited = FALSE /\ early = FALSE

-----------------------------------------------------------------------------
(* Windows                                                                   *)

CreateWindow ==
  \E w \in Windows :
    /\ window[w] = "none"
    /\ window' = [window EXCEPT ![w] = "visible"]
    /\ mainWindow' = w

\* Mutant: the closed handler is missing.
CloseHandlerNoClosed(w) ==
  /\ window' = [window EXCEPT ![w] = IF isQuitting THEN "destroyed" ELSE "hidden"]
  /\ UNCHANGED mainWindow

(* The close event of a window.  The handler hides mainWindow, whichever     *)
(* window is closed; closed forgets mainWindow in the same way.              *)
CloseHandler(w) ==
  IF isQuitting
  THEN /\ window' = [window EXCEPT ![w] = "destroyed"]
       /\ mainWindow' = NoWindow
  ELSE /\ window' = [v \in Windows |->
                       IF v = mainWindow THEN "hidden" ELSE window[v]]
       /\ UNCHANGED mainWindow

-----------------------------------------------------------------------------
(* app.quit and before-quit                                                  *)

\* Mutant: before-quit sets no timer.
AppQuitUntimed(quitting) ==
  /\ isQuitting' = quitting
  /\ quits < MaxQuits
  /\ quits' = quits + 1
  /\ closing' = TRUE
  /\ UNCHANGED <<timers, window, mainWindow, exited>>

(* With a server the quit is put off until the server is gone; without one   *)
(* every window is asked, and a window that hides itself cancels the quit.   *)
AppQuit(quitting) ==
  /\ isQuitting' = quitting
  /\ quits < MaxQuits
  /\ quits' = quits + 1
  /\ IF serverProcess
     THEN /\ timers' = timers + 1
          /\ closing' = TRUE
          /\ UNCHANGED <<window, mainWindow, exited>>
     ELSE /\ UNCHANGED <<timers, closing>>
          /\ IF quitting \/ \A w \in Windows : ~Alive(w)
             THEN /\ exited' = TRUE
                  /\ window' = [w \in Windows |->
                                  IF Alive(w) THEN "destroyed" ELSE window[w]]
                  /\ mainWindow' = NoWindow
             ELSE /\ window' = [w \in Windows |->
                                  IF w = mainWindow THEN "hidden"
                                  ELSE window[w]]
                  /\ UNCHANGED <<mainWindow, exited>>

QuitKeeps ==
  UNCHANGED <<production, startup, server, crashed, serverProcess, tray, early>>

\* Mutant: the timer exits without SIGKILL.
TimerFiresNoKill ==
  /\ ~exited
  /\ timers > 0
  /\ timers' = timers - 1
  /\ exited' = TRUE
  /\ UNCHANGED <<production, startup, server, crashed, serverProcess, window,
                 mainWindow, tray, isQuitting, crashDialog, startDialog, quits,
                 closing, early>>

TimerFires ==
  /\ ~exited
  /\ timers > 0
  /\ timers' = timers - 1
  /\ server' = IF serverProcess /\ server = "running" THEN "exited" ELSE server
  /\ exited' = TRUE
  /\ UNCHANGED <<production, startup, crashed, serverProcess, window, mainWindow,
                 tray, isQuitting, crashDialog, startDialog, quits, closing, early>>

-----------------------------------------------------------------------------
(* Startup                                                                   *)

(* spawn; a binary that cannot be run emits error and then close.  When      *)
(* mkdirSync throws, or spawn itself, serverProcess is never assigned.       *)
StartServer ==
  /\ ~exited
  /\ startup = "init"
  /\ \/ /\ startup' = "waiting"
        /\ server' = IF production THEN "running" ELSE "none"
        /\ serverProcess' = production
        /\ UNCHANGED <<crashed, startDialog>>
     \/ /\ production
        /\ startup' = "failed"
        /\ startDialog' = "asking"
        /\ \/ server' = "exited" /\ crashed' = TRUE /\ serverProcess' = TRUE
           \/ UNCHANGED <<server, crashed, serverProcess>>
  /\ UNCHANGED <<production, window, mainWindow, tray, isQuitting, crashDialog,
                 timers, quits, closing, exited, early>>

(* The port answers, by this server or by another program that owns it.      *)
Connected ==
  /\ ~exited
  /\ startup = "waiting"
  /\ startup' = "ready"
  /\ tray' = TRUE
  /\ CreateWindow
  /\ UNCHANGED <<production, server, crashed, serverProcess, isQuitting, crashDialog,
                 startDialog, timers, quits, closing, exited, early>>

(* Thirty attempts failed.                                                   *)
ConnectFails ==
  /\ ~exited
  /\ startup = "waiting"
  /\ startup' = "failed"
  /\ startDialog' = "asking"
  /\ UNCHANGED <<production, server, crashed, serverProcess, window, mainWindow, tray,
                 isQuitting, crashDialog, timers, quits, closing, exited,
                 early>>

-----------------------------------------------------------------------------
(* The server process                                                        *)

ServerExits ==
  /\ server = "running"
  /\ server' = "exited"
  /\ crashed' \in BOOLEAN
  /\ UNCHANGED <<production, startup, serverProcess, window, mainWindow, tray, isQuitting,
                 crashDialog, startDialog, timers, quits, closing, exited,
                 early>>

(* The close event: the listener of startServer, then the one before-quit    *)
(* registered.                                                               *)
ServerClosed ==
  /\ ~exited
  /\ server = "exited"
  /\ server' = "closed"
  /\ IF crashed
     THEN crashDialog' = "asking" /\ UNCHANGED <<window, mainWindow>>
     ELSE /\ UNCHANGED crashDialog
          /\ IF mainWindow # NoWindow THEN CloseHandler(mainWindow)
             ELSE UNCHANGED <<window, mainWindow>>
  /\ serverProcess' = (serverProcess /\ ~closing)
  /\ exited' = closing
  /\ UNCHANGED <<production, startup, crashed, tray, isQuitting, startDialog, timers,
                 quits, closing, early>>

-----------------------------------------------------------------------------
(* The user                                                                  *)

(* Both dialogs offer the log, and quit after it; only the crash dialog sets *)
(* isQuitting.                                                               *)
ViewLog ==
  /\ ~exited
  /\ \/ crashDialog = "asking" /\ crashDialog' = "log" /\ UNCHANGED startDialog
     \/ startDialog = "asking" /\ startDialog' = "log" /\ UNCHANGED crashDialog
  /\ UNCHANGED <<production, startup, server, crashed, serverProcess, window, mainWindow,
                 tray, isQuitting, timers, quits, closing, exited, early>>

CrashDialogQuit ==
  /\ ~exited
  /\ DialogOpen(crashDialog)
  /\ crashDialog' = "answered"
  /\ AppQuit(TRUE)
  /\ UNCHANGED startDialog
  /\ QuitKeeps

\* Mutant: the confirmation after the log does not quit.
StartDialogLogStays ==
  /\ ~exited
  /\ DialogOpen(startDialog)
  /\ startDialog' = "answered"
  /\ IF startDialog = "log"
     THEN UNCHANGED <<isQuitting, quits, timers, closing, window, mainWindow,
                      exited>>
     ELSE AppQuit(isQuitting)
  /\ UNCHANGED crashDialog
  /\ QuitKeeps

StartDialogQuit ==
  /\ ~exited
  /\ DialogOpen(startDialog)
  /\ startDialog' = "answered"
  /\ AppQuit(isQuitting)
  /\ UNCHANGED crashDialog
  /\ QuitKeeps

TrayQuit ==
  /\ ~exited
  /\ tray
  /\ AppQuit(TRUE)
  /\ UNCHANGED <<crashDialog, startDialog>>
  /\ QuitKeeps

(* Quit of the application menu or of the system.                            *)
MenuQuit ==
  /\ ~exited
  /\ startup # "init"
  /\ AppQuit(isQuitting)
  /\ UNCHANGED <<crashDialog, startDialog>>
  /\ QuitKeeps

WindowKeeps ==
  UNCHANGED <<production, startup, server, crashed, serverProcess, tray,
              isQuitting, crashDialog, startDialog, timers, quits, closing, exited>>

CloseWindow(w) ==
  /\ ~exited
  /\ window[w] = "visible"
  /\ CloseHandler(w)
  /\ UNCHANGED early
  /\ WindowKeeps

TrayShow ==
  /\ ~exited
  /\ tray
  /\ IF mainWindow = NoWindow THEN CreateWindow
     ELSE /\ window' = [window EXCEPT ![mainWindow] = "visible"]
          /\ UNCHANGED mainWindow
  /\ UNCHANGED early
  /\ WindowKeeps

TrayClick ==
  /\ ~exited
  /\ tray
  /\ IF mainWindow = NoWindow THEN CreateWindow
     ELSE /\ window' = [window EXCEPT ![mainWindow] =
                          IF @ = "visible" THEN "hidden" ELSE "visible"]
          /\ UNCHANGED mainWindow
  /\ UNCHANGED early
  /\ WindowKeeps

(* macOS activates the application: a window, when there is none.            *)
Activate ==
  /\ ~exited
  /\ Darwin
  /\ \A w \in Windows : ~Alive(w)
  /\ CreateWindow
  /\ early' = (early \/ startup # "ready")
  /\ WindowKeeps

-----------------------------------------------------------------------------
(* After exit, or beyond the bound on quits, nothing needs to happen.        *)
Over == (exited \/ quits = MaxQuits) /\ UNCHANGED vars

Next ==
  \/ StartServer \/ Connected \/ ConnectFails
  \/ ServerExits \/ ServerClosed
  \/ ViewLog \/ CrashDialogQuit \/ StartDialogQuit \/ TrayQuit \/ MenuQuit
  \/ \E w \in Windows : CloseWindow(w)
  \/ TrayShow \/ TrayClick \/ Activate
  \/ TimerFires \/ Over

(* Node delivers events and runs timers.  The server need not obey SIGTERM   *)
(* and the user need not answer a dialog.                                    *)
Spec ==
  Init /\ [][Next]_vars /\ WF_vars(TimerFires) /\ WF_vars(ServerClosed)

-----------------------------------------------------------------------------
(* The values of the variables; a dialog is answered by one of its buttons.  *)
TypeOK ==
  /\ production \in BOOLEAN
  /\ startup \in {"init", "waiting", "ready", "failed"}
  /\ server \in {"none", "running", "exited", "closed"}
  /\ crashed \in BOOLEAN /\ serverProcess \in BOOLEAN
  /\ window \in [Windows -> {"none", "visible", "hidden", "destroyed"}]
  /\ mainWindow \in 0..MaxWindows
  /\ tray \in BOOLEAN /\ isQuitting \in BOOLEAN
  /\ crashDialog \in Dialogs /\ startDialog \in Dialogs
  /\ timers \in 0..MaxQuits /\ quits \in 0..MaxQuits
  /\ closing \in BOOLEAN /\ exited \in BOOLEAN /\ early \in BOOLEAN

(* The application never exits leaving the server it spawned running, also   *)
(* when the server ignores SIGTERM or the user quits more than once.         *)
NoOrphanServer == exited => server # "running"

(* A dock window came before startup was over, and there is no serverProcess *)
(* that makes before-quit end the application: the window cancels a quit.    *)
Misled == early /\ ~serverProcess

(* The application is never a process the user cannot reach, in production   *)
(* and in development: until it exits it is starting, has its tray, shows a  *)
(* dialog or is on its way out.  (Not if it is Misled: the window hides.)    *)
AlwaysReachable ==
  ~exited /\ ~Misled =>
    \/ startup \in {"init", "waiting"} \/ tray
    \/ DialogOpen(crashDialog) \/ DialogOpen(startDialog)
    \/ timers > 0

(* The tray never calls a window that was destroyed.                         *)
MainWindowAlive == mainWindow # NoWindow => exited \/ Alive(mainWindow)

(* Unless the dock is clicked before startup is over, there is one window.   *)
OneWindow ==
  ~early => \A v, w \in Windows : Alive(v) /\ Alive(w) => v = w

(* serverProcess is set from the spawn until the exit; a startup that failed *)
(* is asking or quitting, unless a dock window cancelled the quit.           *)
ServerKnown ==
  /\ startup = "init" => server = "none"
  /\ server = "running" => serverProcess
  /\ server # "none" => serverProcess \/ exited
  /\ startup = "failed" => DialogOpen(startDialog) \/ timers > 0 \/ exited \/ Misled
  /\ timers <= quits

(* The tray exists once startup is over; unless the dock came first, no      *)
(* window is older than that and mainWindow is the only one alive.           *)
WindowKnown ==
  /\ tray <=> startup = "ready"
  /\ ~early /\ startup # "ready" => mainWindow = NoWindow
  /\ ~early => \A w \in Windows : Alive(w) => w = mainWindow

(* What main.js knows of its windows and of its server is right.             *)
ShellInv == TypeOK /\ MainWindowAlive /\ OneWindow /\ ServerKnown /\ WindowKnown

(* A quit that reaches before-quit ends the packaged application, whether    *)
(* the server obeys SIGTERM, ignores it, was gone before or never came up.   *)
QuitCompletes == production /\ quits > 0 /\ ~Misled ~> exited
=============================================================================

-------------------------------- MODULE Client --------------------------------
(***************************************************************************)
(* The Android client: the activity's life cycle, its native thread with   *)
(* the loop of MainLoop, and the camera of CameraHelper.                   *)
(*                                                                         *)
(* The Java main thread hands the native thread its commands and waits     *)
(* until they are processed (external: native_app_glue); the native thread *)
(* posts camera tasks to the main thread and does not wait.  One call of   *)
(* AndroidMainActivity::run() polls for commands and draws a picture as    *)
(* long as the window is initialised.                                      *)
(***************************************************************************)
EXTENDS MainLoop, CameraHelper

VARIABLES
  surface,      \* the activity has a window
  cmd,          \* the command the main thread waits for, or "none"
  initialized,  \* IMainActivity::initialized_
  logger,       \* spdlog's default logger; "none" is the null pointer
  thread        \* of android_main(): "running" or "returned"

activityVars == <<surface, initialized, logger, thread>>

vars == <<loopVars, helperVars, life, crash, cmd, activityVars>>

Init == /\ LoopInit
        /\ HelperInit
        /\ surface = FALSE
        /\ cmd = "none"
        /\ initialized = FALSE
        /\ logger = "default"
        /\ thread = "running"

-----------------------------------------------------------------------------
(* The native thread.                                                      *)

(* init(), for APP_CMD_INIT_WINDOW. *)
InitWindow ==
  /\ cmd = "INIT_WINDOW" /\ draw.at = "out"
  /\ cmd' = "none"
  /\ IF initialized THEN UNCHANGED <<initialized, logger>>
     ELSE initialized' = TRUE /\ logger' = "android"
  /\ UNCHANGED <<loopVars, helperVars, life, crash, surface, thread>>

(* Mutant: the window is gone but nothing is shut down. *)
TermWindowIgnored ==
  /\ cmd = "TERM_WINDOW" /\ draw.at = "out"
  /\ cmd' = "none"
  /\ surface' = FALSE
  /\ UNCHANGED <<loopVars, helperVars, life, crash, initialized, logger,
                 thread>>

(* shutdown(), for APP_CMD_TERM_WINDOW; spdlog::shutdown() drops every     *)
(* logger, the default one too.                                            *)
TermWindow ==
  /\ cmd = "TERM_WINDOW" /\ draw.at = "out"
  /\ cmd' = "none"
  /\ surface' = FALSE
  /\ IF initialized THEN initialized' = FALSE /\ logger' = "none"
     ELSE UNCHANGED <<initialized, logger>>
  /\ UNCHANGED <<loopVars, helperVars, life, crash, thread>>

(* APP_CMD_DESTROY sets destroyRequested: run() returns.  Its last         *)
(* shutdown() is called when nothing is initialised and does nothing.      *)
Destroy ==
  /\ cmd = "DESTROY" /\ draw.at = "out"
  /\ cmd' = "none"
  /\ thread' = "returned"
  /\ UNCHANGED <<loopVars, helperVars, life, crash, surface, initialized,
                 logger>>

(* mainLoopStep(): commands come first, and without a window the thread    *)
(* waits for them.                                                         *)
DrawStep ==
  /\ thread = "running"
  /\ initialized
  /\ cmd = "none"
  /\ StartDraw
  /\ UNCHANGED <<helperVars, life, crash, cmd, activityVars>>

Buttons ==
  /\ \/ TurnOff /\ Post("close")
     \/ TurnOn /\ Post("open")
  /\ UNCHANGED <<life, crash, cmd, activityVars>>

DrawOn == Draw /\ UNCHANGED <<helperVars, life, crash, cmd, activityVars>>

NativeThread == InitWindow \/ TermWindow \/ Destroy \/ DrawStep \/ DrawOn

Recognition ==
  Recognise /\ UNCHANGED <<helperVars, life, crash, cmd, activityVars>>

-----------------------------------------------------------------------------
(* The Java main thread.                                                   *)

(* It is not waiting for the native thread, nor inside onDestroy(). *)
MainThreadRuns == cmd = "none" /\ thread = "running"

OnStart == /\ MainThreadRuns
           /\ life = "created"
           /\ life' = "started"
           /\ UNCHANGED <<loopVars, helperVars, crash, cmd, activityVars>>

SurfaceCreated == /\ MainThreadRuns
                  /\ life = "started" /\ ~ surface
                  /\ surface' = TRUE
                  /\ cmd' = "INIT_WINDOW"
                  /\ UNCHANGED <<loopVars, helperVars, life, crash,
                                 initialized, logger, thread>>

OnStop == /\ MainThreadRuns
          /\ life = "started"
          /\ life' = "created"
          /\ UNCHANGED <<loopVars, helperVars, crash, cmd, activityVars>>

(* A window is taken away from a stopped activity. *)
SurfaceDestroyed == /\ MainThreadRuns
                    /\ life = "created" /\ surface
                    /\ cmd' = "TERM_WINDOW"
                    /\ UNCHANGED <<loopVars, helperVars, life, crash,
                                   activityVars>>

(* onDestroy(), which waits for android_main() to return. *)
OnDestroy == /\ MainThreadRuns
             /\ life = "created" /\ ~ surface
             /\ cmd' = "DESTROY"
             /\ UNCHANGED <<loopVars, helperVars, life, crash, activityVars>>

OnDestroyEnds == /\ thread = "returned" /\ life = "created"
                 /\ life' = "destroyed"
                 /\ UNCHANGED <<loopVars, helperVars, crash, cmd,
                                activityVars>>

(* A new activity in the same process: what is static stays.  The first    *)
(* line of android_main() logs.                                            *)
Relaunch ==
  /\ thread = "returned" /\ life = "destroyed"
  /\ tasks = <<>> /\ listeners = 0
  /\ IF logger = "none"
     THEN /\ crash' = "logger"
          /\ UNCHANGED <<loopVars, helperVars, life, cmd, activityVars>>
     ELSE /\ NewHelper
          /\ analyzing' = FALSE
          /\ late' = Running
          /\ life' = "created"
          /\ thread' = "running"
          /\ UNCHANGED <<loopVars, crash, cmd, surface, initialized, logger>>

CameraTask == /\ cmd = "none" /\ ~ (thread = "returned" /\ life = "created")
              /\ MainTask
              /\ UNCHANGED <<loopVars, life, cmd, activityVars>>

Permission == /\ MainThreadRuns
              /\ PermissionResult
              /\ UNCHANGED <<loopVars, life, cmd, activityVars>>

Provider == ProviderReady /\ UNCHANGED <<loopVars, life, cmd, activityVars>>

-----------------------------------------------------------------------------
(* The camera executor's thread.                                           *)

Picture == Deliver /\ UNCHANGED <<loopVars, life, cmd, activityVars>>

(* onImageAvailable() logs, then puts the frame into the sink. *)
OnImageAvailable ==
  /\ AnalyzerEnds
  /\ IF logger = "none" THEN crash' = "logger" /\ UNCHANGED loopVars
     ELSE LoadNewFrame /\ UNCHANGED crash
  /\ UNCHANGED <<life, cmd, activityVars>>

-----------------------------------------------------------------------------
LifeCycle == \/ OnStart \/ SurfaceCreated \/ OnStop \/ SurfaceDestroyed
             \/ OnDestroy \/ OnDestroyEnds \/ Relaunch

Next == /\ crash = "none"
        /\ \/ NativeThread \/ Buttons \/ Recognition
           \/ LifeCycle \/ CameraTask \/ Permission \/ Provider
           \/ Picture \/ OnImageAvailable

(* Threads that can run do; the server answers every call.  Users and the  *)
(* system need not do anything.                                            *)
Fairness == /\ WF_vars(crash = "none" /\ NativeThread)
            /\ WF_vars(crash = "none" /\ Recognition)
            /\ WF_vars(crash = "none" /\ CameraTask)
            /\ WF_vars(crash = "none" /\ Provider)
            /\ WF_vars(crash = "none" /\ OnImageAvailable)

Spec == Init /\ [][Next]_vars /\ Fairness

-----------------------------------------------------------------------------
(* Properties.                                                             *)

TypeOK == /\ LoopTypeOK
          /\ HelperTypeOK
          /\ surface \in BOOLEAN
          /\ cmd \in {"none", "INIT_WINDOW", "TERM_WINDOW", "DESTROY"}
          /\ initialized \in BOOLEAN
          /\ logger \in {"default", "android", "none"}
          /\ thread \in {"running", "returned"}

(* Pictures are drawn only into a window that exists: the loop is shut     *)
(* down before the system takes the window away, and run() never returns   *)
(* with the window still initialised although its own last shutdown() is   *)
(* behind an inverted test.  While there is a window the logger is there   *)
(* too, so a frame that comes in does not crash the process.               *)
DrawsIntoWindow == /\ draw.at # "out" => initialized
                   /\ initialized => surface /\ logger = "android"
                   /\ thread = "returned" => ~ initialized
                   /\ crash = "logger" => ~ initialized

(* What the main thread waits for can happen. *)
CommandsFit == /\ cmd = "INIT_WINDOW" => surface
               /\ cmd = "DESTROY" => ~ surface
               /\ cmd # "none" => thread = "running"

ClientIInv == /\ TypeOK
              /\ LoopIInv
              /\ DrawsIntoWindow
              /\ CommandsFit
              /\ BoundIsComplete
              /\ CameraFollowsRequests

(* The main thread, which waits while the native thread may be inside a    *)
(* call to the server, goes on.                                            *)
CommandsAreProcessed == cmd # "none" ~> (cmd = "none" \/ crash # "none")

(* Every recognition comes to its end, and the next frame gets one.        *)
RecognitionEnds == busy ~> (~ busy \/ crash # "none")
=============================================================================

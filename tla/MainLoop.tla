------------------------------- MODULE MainLoop -------------------------------
(***************************************************************************)
(* MainLoop::draw() of the client, called once per picture by the native   *)
(* thread, and the detached thread it starts to look for a QR code in a    *)
(* frame.  They share file-scope variables: busy (atomic), lastResult      *)
(* (under mutex, except where "Turn on" clears it) and the frame itself.   *)
(*                                                                         *)
(* A frame is an object on the heap with shared owners: the camera sink,   *)
(* the draw() in progress and the recognition thread.                      *)
(***************************************************************************)
CONSTANTS Frames, NoFrame

ASSUME FramesAssumption == NoFrame \notin Frames

VARIABLES
  sink,         \* CameraSink::lastFrame_
  vertical,     \* the frames that rotate() has turned upright
  showCamera,
  getResponse,  \* a response is shown
  lastResult,   \* what was decoded: "none" is the empty string
  busy,
  mutex,        \* who holds it
  draw,         \* where draw() is, and its lastFrame
  worker,       \* where the recognition thread is, its frame, whether the
                \* frame was to be rotated when it started, what it decoded
  shown         \* lastWeak: the frame that the texture was made from

loopVars == <<sink, vertical, showCamera, getResponse, lastResult, busy,
              mutex, draw, worker, shown>>

Results == {"none", "code", "torn"}

NoWorker == [at |-> "none", frame |-> NoFrame, rotated |-> FALSE,
             code |-> "none"]

(* A recognition thread that starts on frame f. *)
Reading(f, rotateImg) ==
  [at |-> "read", frame |-> f, rotated |-> rotateImg, code |-> "none"]

LoopInit == /\ sink = NoFrame
            /\ vertical = {}
            /\ showCamera = TRUE
            /\ getResponse = FALSE
            /\ lastResult = "none"
            /\ busy = FALSE
            /\ mutex = "none"
            /\ draw = [at |-> "out", frame |-> NoFrame]
            /\ worker = NoWorker
            /\ shown = NoFrame

(* Frames with an owner; the others are freed. *)
Owned == {sink, draw.frame, worker.frame} \ {NoFrame}

-----------------------------------------------------------------------------
(* The camera's thread.                                                    *)

(* loadNewFrame(): a new object; which one the allocator takes does not    *)
(* matter.                                                                 *)
LoadNewFrame ==
  LET free == Frames \ (Owned \cup {shown})
      new == CHOOSE f \in free : TRUE
  IN /\ free # {}
     /\ sink' = new
     /\ vertical' = vertical \cap Owned
     /\ UNCHANGED <<showCamera, getResponse, lastResult, busy, mutex, draw,
                    worker, shown>>

-----------------------------------------------------------------------------
(* draw(), on the native thread.                                           *)

(* Mutant: the recognition thread is started before the frame is rotated.  *)
DrawCameraRotateLate ==
  /\ draw.at = "out"
  /\ showCamera /\ sink # NoFrame
  /\ draw' = [at |-> "lock", frame |-> sink]
  /\ \E rotateImg \in BOOLEAN :
       IF busy
       THEN /\ vertical' = IF rotateImg THEN vertical \cup {sink} ELSE vertical
            /\ UNCHANGED <<busy, worker>>
       ELSE /\ busy' = TRUE
            /\ worker' = Reading(sink, rotateImg)
            /\ UNCHANGED vertical
  /\ UNCHANGED <<sink, showCamera, getResponse, lastResult, mutex, shown>>

(* There is a picture to show: it is rotated in place if the checkbox,     *)
(* which the user may just have clicked, is on, and a recognition thread   *)
(* is started on it unless one is busy.                                    *)
DrawCamera ==
  /\ draw.at = "out"
  /\ showCamera /\ sink # NoFrame
  /\ draw' = [at |-> "lock", frame |-> sink]
  /\ \E rotateImg \in BOOLEAN :
       /\ vertical' = IF rotateImg THEN vertical \cup {sink} ELSE vertical
       /\ IF busy THEN UNCHANGED <<busy, worker>>
          ELSE /\ busy' = TRUE
               /\ worker' = Reading(sink, rotateImg)
  /\ UNCHANGED <<sink, showCamera, getResponse, lastResult, mutex, shown>>

DrawNoCamera ==
  /\ draw.at = "out"
  /\ ~ (showCamera /\ sink # NoFrame)
  /\ draw' = [at |-> "buttons", frame |-> NoFrame]
  /\ UNCHANGED <<sink, vertical, showCamera, getResponse, lastResult, busy,
                 mutex, worker, shown>>

(* With a result the server is called, with the mutex held. *)
LookAtResult ==
  /\ draw.at = "lock"
  /\ mutex = "none"
  /\ IF lastResult = "none"
     THEN draw' = [draw EXCEPT !.at = "view"] /\ UNCHANGED mutex
     ELSE draw' = [draw EXCEPT !.at = "call"] /\ mutex' = "ui"
  /\ UNCHANGED <<sink, vertical, showCamera, getResponse, lastResult, busy,
                 worker, shown>>

(* Mutant: the camera's picture is not hidden. *)
AnsweredStillShown ==
  /\ draw.at = "call"
  /\ getResponse' = TRUE
  /\ mutex' = "none"
  /\ draw' = [draw EXCEPT !.at = "view"]
  /\ UNCHANGED <<sink, vertical, showCamera, lastResult, busy, worker, shown>>

(* Mutant: the mutex is not given back. *)
AnsweredLocked ==
  /\ draw.at = "call"
  /\ showCamera' = FALSE
  /\ getResponse' = TRUE
  /\ draw' = [draw EXCEPT !.at = "view"]
  /\ UNCHANGED <<sink, vertical, lastResult, busy, mutex, worker, shown>>

(* ProcessQRCode() returns a response or an error. *)
Answered ==
  /\ draw.at = "call"
  /\ showCamera' = FALSE
  /\ getResponse' = TRUE
  /\ mutex' = "none"
  /\ draw' = [draw EXCEPT !.at = "view"]
  /\ UNCHANGED <<sink, vertical, lastResult, busy, worker, shown>>

(* A texture is made when the frame of the last one has no owner any more; *)
(* the corners found in it are drawn under the mutex.                      *)
ShowPicture ==
  /\ draw.at = "view"
  /\ mutex = "none"
  /\ shown' = IF shown \in Owned THEN shown ELSE draw.frame
  /\ draw' = [at |-> "buttons", frame |-> NoFrame]
  /\ UNCHANGED <<sink, vertical, showCamera, getResponse, lastResult, busy,
                 mutex, worker>>

NoButton ==
  /\ draw.at = "buttons"
  /\ draw' = [draw EXCEPT !.at = "out"]
  /\ UNCHANGED <<sink, vertical, showCamera, getResponse, lastResult, busy,
                 mutex, worker, shown>>

TurnOff ==
  /\ draw.at = "buttons"
  /\ showCamera' = FALSE
  /\ draw' = [draw EXCEPT !.at = "out"]
  /\ UNCHANGED <<sink, vertical, getResponse, lastResult, busy, mutex, worker,
                 shown>>

(* lastResult is cleared without the mutex.  When the recognition thread   *)
(* is just assigning to it the two writes race: the assigned string may    *)
(* survive, be lost, or keep its length but not its content.               *)
TurnOn ==
  /\ draw.at = "buttons"
  /\ showCamera' = TRUE
  /\ getResponse' = FALSE
  /\ lastResult' = "none"
  /\ IF worker.at = "store" /\ worker.code # "none"
     THEN \E c \in {worker.code, "none", "torn"} :
            worker' = [worker EXCEPT !.code = c]
     ELSE UNCHANGED worker
  /\ draw' = [draw EXCEPT !.at = "out"]
  /\ UNCHANGED <<sink, vertical, busy, mutex, shown>>

-----------------------------------------------------------------------------
(* The recognition thread.                                                 *)

(* Mutant: the frame is kept after it was copied. *)
CopyFrameKept ==
  /\ worker.at = "read"
  /\ worker' = [worker EXCEPT !.at = "detect"]
  /\ UNCHANGED <<sink, vertical, showCamera, getResponse, lastResult, busy,
                 mutex, draw, shown>>

(* The middle of the frame is copied as a grey picture, the frame given up. *)
CopyFrame ==
  /\ worker.at = "read"
  /\ worker' = [worker EXCEPT !.at = "detect", !.frame = NoFrame]
  /\ UNCHANGED <<sink, vertical, showCamera, getResponse, lastResult, busy,
                 mutex, draw, shown>>

(* detect(), whose result is stored under the mutex. *)
Detect ==
  /\ worker.at = "detect"
  /\ mutex = "none"
  /\ \E next \in {"decode", "end"} : worker' = [worker EXCEPT !.at = next]
  /\ UNCHANGED <<sink, vertical, showCamera, getResponse, lastResult, busy,
                 mutex, draw, shown>>

(* detectAndDecode(), which may still find nothing; then the mutex. *)
Decode ==
  /\ worker.at = "decode"
  /\ mutex = "none"
  /\ mutex' = "worker"
  /\ \E c \in {"none", "code"} :
       worker' = [worker EXCEPT !.at = "store", !.code = c]
  /\ UNCHANGED <<sink, vertical, showCamera, getResponse, lastResult, busy,
                 draw, shown>>

StoreResult ==
  /\ worker.at = "store"
  /\ lastResult' = worker.code
  /\ mutex' = "none"
  /\ worker' = [worker EXCEPT !.at = "end"]
  /\ UNCHANGED <<sink, vertical, showCamera, getResponse, busy, draw, shown>>

(* Mutant: the flag is only cleared by a thread that found something. *)
FinishIfFound ==
  /\ worker.at = "end"
  /\ busy' = (lastResult = "none")
  /\ worker' = NoWorker
  /\ UNCHANGED <<sink, vertical, showCamera, getResponse, lastResult, mutex,
                 draw, shown>>

Finish ==
  /\ worker.at = "end"
  /\ busy' = FALSE
  /\ worker' = NoWorker
  /\ UNCHANGED <<sink, vertical, showCamera, getResponse, lastResult, mutex,
                 draw, shown>>

-----------------------------------------------------------------------------
StartDraw == DrawCamera \/ DrawNoCamera

Draw == LookAtResult \/ Answered \/ ShowPicture \/ NoButton

Recognise == CopyFrame \/ Detect \/ Decode \/ StoreResult \/ Finish

LoopNext == LoadNewFrame \/ StartDraw \/ Draw \/ TurnOff \/ TurnOn \/ Recognise

LoopSpec == LoopInit /\ [][LoopNext]_loopVars

-----------------------------------------------------------------------------
(* Properties.                                                             *)

LoopTypeOK ==
  /\ sink \in Frames \cup {NoFrame}
  /\ vertical \subseteq Frames
  /\ showCamera \in BOOLEAN
  /\ getResponse \in BOOLEAN
  /\ lastResult \in Results
  /\ busy \in BOOLEAN
  /\ mutex \in {"none", "ui", "worker"}
  /\ draw \in [at : {"out", "lock", "call", "view", "buttons"},
               frame : Frames \cup {NoFrame}]
  /\ worker \in [at : {"none", "read", "detect", "decode", "store", "end"},
                 frame : Frames \cup {NoFrame}, rotated : BOOLEAN,
                 code : Results]
  /\ shown \in Frames \cup {NoFrame}

(* busy is true exactly while a recognition thread runs: there is never a  *)
(* second one, and a new one is never refused for good.                    *)
BusyIsWorker == busy <=> worker.at # "none"

(* The mutex is held by the native thread for a call to the server and by  *)
(* the recognition thread for an assignment, and by nobody else.           *)
MutexIsHeld == /\ mutex = "ui" <=> draw.at = "call"
               /\ mutex = "worker" <=> worker.at = "store"

(* draw() and the recognition thread own a frame while they use it.        *)
FramesAreOwned ==
  /\ draw.at \in {"lock", "call", "view"} <=> draw.frame # NoFrame
  /\ worker.at = "read" <=> worker.frame # NoFrame

(* A response is shown only with the camera's picture hidden: while it is  *)
(* on the screen nothing can start another call.                           *)
ResponseHidesCamera ==
  /\ getResponse => ~ showCamera
  /\ draw.at \in {"lock", "call"} => ~ getResponse

(* A frame that the user wants upright is upright before the recognition   *)
(* thread starts to read it.                                               *)
ReadsUpright ==
  worker.at = "read" /\ worker.rotated => worker.frame \in vertical

(* When the texture was not made from the frame that draw() shows, its     *)
(* frame has been replaced in the sink.                                    *)
ShownIsPast ==
  draw.frame # NoFrame /\ shown # NoFrame /\ shown # draw.frame => shown # sink

LoopIInv == /\ LoopTypeOK
            /\ BusyIsWorker
            /\ MutexIsHeld
            /\ FramesAreOwned
            /\ ResponseHidesCamera
            /\ ReadsUpright
            /\ ShownIsPast

(* The pixels under a recognition thread that reads them change only if    *)
(* the user has turned "Rotate" on since the thread started.               *)
FrameIsStable ==
  [][worker.at = "read" /\ worker.frame \in vertical' \ vertical
     => ~ worker.rotated]_loopVars

(* One scan is sent per "Turn on": the loop calls the server only when no  *)
(* response of an earlier call is on the screen.                           *)
OneCallPerScan ==
  [][draw.at # "call" /\ draw'.at = "call" => ~ getResponse]_loopVars

(* The picture on the screen is the newest frame, or an older one that the *)
(* recognition thread is still copying.                                    *)
PictureIsCurrent ==
  [][draw.at = "view" /\ draw'.at # "view"
     => shown' = draw.frame \/ (worker.at = "read" /\ worker.frame = shown')]_loopVars
=============================================================================

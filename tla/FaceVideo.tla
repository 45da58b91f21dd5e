---- MODULE FaceVideo ----
(***************************************************************************)
(* rtctrl_face_video: the capture thread, the main loop, the asynchronous   *)
(* preview and the preview server, with the camera, the NPU and the JPEG    *)
(* encoder they use.                                                        *)
(*                                                                          *)
(* One step is what a thread does between two points where another one may  *)
(* see or change what it works on.  A time-out that only makes a thread     *)
(* look again is a stuttering step.                                         *)
(***************************************************************************)
EXTENDS Camera, RknnBackend, MppSession, FiniteSets

CONSTANTS
    Warmup,         \* frames that are discarded first (30)
    EnrollSamples,  \* options.enrollment_samples
    Slots,          \* the clients of the preview server (4)
    AsyncClients, SyncClients, \* bounds: connections that arrive, in either mode
    Failures        \* other failures: a subset of AllFailures

AllFailures == {"starves", "convert", "setup", "recognise", "enrol", "shortWrite", "publish",
                "spawn", "killed"}

ASSUME FaceVideoAssumption ==
    /\ Models = {"detector", "recognizer"}
    /\ Warmup \in Nat /\ EnrollSamples \in Nat \ {0} /\ {AsyncClients, SyncClients} \subseteq Nat
    /\ Slots \subseteq Nat /\ Failures \subseteq AllFailures

VARIABLES
    mpc, image, processed, exit,        \* main()
    async, enrolled, gallery,           \* options.async_jpeg; the enrollment
    cpc, picture, staging, warmup,      \* capture(), RgaFrameConverter
    latest,                             \* Latest
    wpc, job, preview,                  \* AsyncPreview
    server,                             \* PreviewServer: the published frame
    apc, arriving, into,                \* its accept_loop
    slots, sockets, connections         \* its clients; open sockets; connections to come

mainVars == <<mpc, image, processed, exit, async, enrolled, gallery>>
captureVars == <<cpc, picture, staging, warmup, latest>>
previewVars == <<wpc, job, preview>>
acceptVars == <<apc, arriving, into, connections>>
clientVars == <<slots, sockets>>
serverVars == <<server, acceptVars, clientVars>>
vars == <<cameraVars, rknnVars, mppVars, mainVars, captureVars, previewVars, serverVars>>

\* An image: the sequence number of its frame, the frame its pixels are of
\* (those of the converter's buffer when it shares that), and the frames the
\* boxes and the names drawn into it are of, the latter 0 without a face.
NewImage(sequence, pixels, shares) ==
    [sequence |-> sequence, pixels |-> pixels, shares |-> shares, seen |-> 0, named |-> 0]
NoImage == NewImage(0, 0, FALSE)
Pixels(i) == IF i.shares THEN staging ELSE i.pixels
NoFrame == [number |-> 0, image |-> NoImage]
Idle == [fd |-> None, pc |-> "none", sent |-> 0, frame |-> 0]

\* latest.stop, and the server's stopping, are set when main() gets there.
latestStop == mpc \in {"unwind", "unwindServer", "unwindClients", "ended"}
serverStop == mpc \in {"unwindClients", "ended"}

Init ==
    /\ CameraInit /\ RknnInit /\ MppInit
    /\ mpc = "setup" /\ image = NoImage /\ processed = 0 /\ exit = None
    /\ async \in BOOLEAN /\ enrolled \in BOOLEAN
    /\ gallery = [samples |-> 1, file |-> 1, temp |-> None]
    /\ cpc = "none" /\ picture = NoImage /\ staging = 0 /\ warmup = Warmup
    /\ latest = [image |-> NoImage, available |-> FALSE, captured |-> 0, dropped |-> 0, error |-> FALSE]
    /\ wpc = "none" /\ job = NoImage
    /\ preview = [pending |-> NoImage, overwrites |-> 0, stopping |-> FALSE, error |-> FALSE]
    /\ server = NoFrame
    /\ apc = "none" /\ arriving = None /\ into = None
    /\ connections = (IF async THEN AsyncClients ELSE SyncClients)
    /\ slots = [s \in Slots |-> Idle] /\ sockets = {}

-----------------------------------------------------------------------------
(* capture()                                                                *)

\* Mutant of Overwritten.
OverwrittenUncounted(n, full) == n

\* The count of overwritten images, when one more is put on top.
Overwritten(n, full) == IF full THEN n + 1 ELSE n

elsewhere == <<rknnVars, mppVars, mainVars, previewVars, serverVars>>

\* The handler of capture(): the error is told under the mutex, then the
\* camera is closed.
CaptureThrows == latest' = [latest EXCEPT !.error = TRUE] /\ cpc' = "close"

CaptureOpen ==
    /\ cpc = "open"
    /\ \/ CameraOpen("Ok") /\ cpc' = "loop" /\ UNCHANGED latest
       \/ CameraOpen("Error") /\ CaptureThrows
    /\ UNCHANGED <<elsewhere, picture, staging, warmup>>

CaptureAcquire ==
    /\ cpc = "loop" /\ ~latestStop
    /\ \/ CameraAcquire("Ok") /\ cpc' = "convert" /\ UNCHANGED latest
       \/ CameraAcquire("Error") /\ CaptureThrows
       \/ "starves" \in Failures /\ filled = <<>> /\ CaptureThrows /\ UNCHANGED cameraVars
    /\ UNCHANGED <<elsewhere, picture, staging, warmup>>

CaptureStops ==
    /\ cpc = "loop" /\ latestStop /\ cpc' = "close"
    /\ UNCHANGED <<elsewhere, cameraVars, picture, staging, warmup, latest>>

\* Mutant of Convert: the image is a view of the converter's buffer.
ConvertView(sequence, pixels) ==
    /\ staging' = pixels
    /\ picture' = NewImage(sequence, pixels, TRUE)

\* convert(): the pixels go through the converter's buffer into an image of
\* their own.
Convert(sequence, pixels) ==
    /\ staging' = pixels
    /\ picture' = NewImage(sequence, pixels, FALSE)

\* A frame is converted, unless it is of the warm-up or corrupt, and released;
\* when the conversion throws it is released whatever that returns.  "starves"
\* is also the case of nothing but corrupt frames for five seconds.
CaptureConvert ==
    /\ cpc = "convert"
    /\ \/ /\ camera.sequence < 0 \/ warmup > 0
          /\ CameraRelease("Ok") /\ warmup' = (IF warmup > 0 THEN warmup - 1 ELSE 0)
          /\ \/ cpc' = "loop" /\ UNCHANGED latest
             \/ "starves" \in Failures /\ warmup = 0 /\ CaptureThrows
          /\ UNCHANGED <<picture, staging>>
       \/ /\ camera.sequence > 0 /\ warmup = 0
          /\ CameraRelease("Ok") /\ Convert(camera.sequence, content[camera.out])
          /\ cpc' = "publish" /\ UNCHANGED <<warmup, latest>>
       \/ /\ CameraRelease("Error") /\ CaptureThrows
          /\ UNCHANGED <<picture, staging, warmup>>
       \/ /\ "convert" \in Failures /\ camera.sequence > 0 /\ warmup = 0
          /\ CameraRelease("Ok") /\ CaptureThrows
          /\ UNCHANGED <<picture, staging, warmup>>
    /\ UNCHANGED elsewhere

CapturePublish ==
    /\ cpc = "publish" /\ cpc' = "loop"
    /\ latest' = [latest EXCEPT !.image = picture, !.available = TRUE, !.captured = @ + 1,
                                !.dropped = Overwritten(@, latest.available)]
    /\ picture' = NoImage
    /\ UNCHANGED <<elsewhere, cameraVars, staging, warmup>>

CaptureClose ==
    /\ cpc = "close" /\ cpc' = "ended"
    /\ \/ CameraClose("Ok") /\ UNCHANGED latest
       \/ CameraClose("Error") /\ latest' = [latest EXCEPT !.error = TRUE]
    /\ UNCHANGED <<elsewhere, picture, staging, warmup>>

Capture ==
    \/ CaptureOpen \/ CaptureAcquire \/ CaptureStops \/ CaptureConvert
    \/ CapturePublish \/ CaptureClose

-----------------------------------------------------------------------------
(* PreviewServer::publish and the publisher                                 *)

\* A published frame has the pixels it has when it is encoded.
Shown(i) == [number |-> server.number + 1,
             image |-> [i EXCEPT !.pixels = Pixels(i), !.shares = FALSE]]

ServerPublish(i) == server' = Shown(i)

-----------------------------------------------------------------------------
(* main()                                                                   *)

mainKeeps == <<cameraVars, cpc, picture, staging, warmup, async>>

\* The objects of main() go in the reverse order of their making, when it
\* throws as when it returns; the capture worker goes first.
Leave(status) == exit' = status /\ mpc' = "unwind"
Throw == Leave(1)

MainConstruct ==
    /\ mpc = "setup"
    /\ LET m == IF backends = NoBackends THEN "detector" ELSE "recognizer"
       IN \/ RknnConstruct(m, "Ok") /\ UNCHANGED exit
             /\ mpc' = (IF m = "detector" THEN "setup" ELSE "start")
          \/ RknnConstruct(m, "Error") /\ Throw
    /\ UNCHANGED <<mainKeeps, mppVars, image, processed, enrolled, gallery, latest,
                   previewVars, serverVars>>

\* The gallery is loaded and the server, the publisher and the capture thread
\* are started; the first three may fail.
MainStart ==
    /\ mpc = "start"
    /\ \E done \in (IF "setup" \in Failures THEN 0 .. 1 ELSE {}) \cup {2} :
          /\ apc' = (IF done > 0 THEN "poll" ELSE "none")
          /\ wpc' = (IF done > 1 /\ async THEN "wait" ELSE "none")
          /\ cpc' = (IF done > 1 THEN "open" ELSE "none")
          /\ IF done > 1 THEN mpc' = "loop" /\ UNCHANGED exit ELSE Throw
    /\ UNCHANGED <<cameraVars, rknnVars, mppVars, picture, staging, warmup, async, image, processed,
                   enrolled, gallery, latest, job, preview, server, arriving, into,
                   connections, clientVars>>

\* The loop ends by a signal, the duration or the number of frames.
\* AsyncPreview::finish then stops the preview.
MainFinish ==
    /\ mpc = "loop" /\ ~preview.error /\ mpc' = "finish"
    /\ preview' = [preview EXCEPT !.stopping = async, !.pending = NoImage]
    /\ UNCHANGED <<mainKeeps, rknnVars, mppVars, image, processed, exit, enrolled, gallery, latest,
                   wpc, job, serverVars>>

\* check() of the preview; then wait_for: the error of the capture thread comes
\* before a frame that is there, and without either the loop starts again.
MainTake ==
    /\ mpc = "loop"
    /\ IF preview.error \/ latest.error THEN Throw /\ UNCHANGED <<image, latest>>
       ELSE /\ latest.available /\ mpc' = "recognise" /\ UNCHANGED exit
            /\ image' = latest.image
            /\ latest' = [latest EXCEPT !.available = FALSE, !.image = NoImage]
    /\ UNCHANGED <<mainKeeps, rknnVars, mppVars, processed, enrolled, gallery, previewVars, serverVars>>

\* detect(), and embed() of every face: each throws when its model gives no
\* outputs, or outputs that make no sense.  With a single face, and a second
\* after the last sample, the enrollment goes on.
MainRecognise ==
    /\ mpc = "recognise"
    /\ \E ok \in (IF NpuFails THEN SUBSET Models ELSE {Models}), faces \in 0 .. 2 :
          LET b == [m \in Models |-> IF m = "detector" \/ faces > 0
                                     THEN RknnRun(backends[m], Pixels(image), m \in ok)
                                     ELSE backends[m]]
          IN /\ b["detector"].valid \/ faces = 0
             /\ backends' = b
             /\ IF b["detector"].valid /\ (faces > 0 => b["recognizer"].valid)
                THEN /\ mpc' \in IF ~enrolled /\ faces = 1 THEN {"enrol", "submit"} ELSE {"submit"}
                     /\ image' = [image EXCEPT !.seen = b["detector"].output,
                                     !.named = IF faces > 0 THEN b["recognizer"].output ELSE 0]
                     /\ UNCHANGED exit
                ELSE Throw /\ UNCHANGED image
    /\ UNCHANGED <<mainKeeps, npu, mppVars, processed, enrolled, gallery, latest, previewVars, serverVars>>

\* Mutant of MainEnrol: the gallery is written where it is.
MainEnrolInPlace ==
    /\ mpc = "enrol"
    /\ gallery' = [gallery EXCEPT !.samples = @ + 1, !.file = 0, !.temp = 0]
    /\ mpc' = "save" /\ UNCHANGED exit
    /\ UNCHANGED <<mainKeeps, rknnVars, mppVars, image, processed, enrolled, latest, previewVars, serverVars>>

\* The snapshot is written, the sample is added and save_gallery makes its
\* temporary file.
MainEnrol ==
    /\ mpc = "enrol"
    /\ \/ /\ gallery' = [gallery EXCEPT !.samples = @ + 1, !.temp = 0]
          /\ mpc' = "save" /\ UNCHANGED exit
       \/ "enrol" \in Failures /\ Throw /\ UNCHANGED gallery
    /\ UNCHANGED <<mainKeeps, rknnVars, mppVars, image, processed, enrolled, latest, previewVars, serverVars>>

\* The samples are written; then the file is renamed.  What throws removes it,
\* but a write that falls short does not throw, and is renamed like any other.
\* A file that is not whole has 0 samples.
MainSave ==
    /\ mpc \in {"save", "rename"}
    /\ \/ /\ mpc = "save" /\ mpc' = "rename" /\ UNCHANGED <<exit, enrolled>>
          /\ \E n \in {gallery.samples} \cup (IF "shortWrite" \in Failures THEN {0} ELSE {}) :
                gallery' = [gallery EXCEPT !.temp = n]
       \/ /\ mpc = "rename" /\ gallery' = [gallery EXCEPT !.file = gallery.temp, !.temp = None]
          /\ enrolled' = (gallery.samples - 1 >= EnrollSamples)
          /\ mpc' = "submit" /\ UNCHANGED exit
       \/ /\ "enrol" \in Failures /\ gallery' = [gallery EXCEPT !.temp = None]
          /\ Throw /\ UNCHANGED enrolled
    /\ UNCHANGED <<mainKeeps, rknnVars, mppVars, image, processed, latest, previewVars, serverVars>>

\* AsyncPreview::submit: a job that waits is replaced.
MainSubmit ==
    /\ mpc = "submit" /\ async
    /\ processed' = processed + 1 /\ image' = NoImage
    /\ IF preview.error \/ preview.stopping THEN Throw /\ UNCHANGED preview
       ELSE /\ preview' = [preview EXCEPT !.pending = image,
                              !.overwrites = Overwritten(@, preview.pending # NoImage)]
            /\ mpc' = "loop" /\ UNCHANGED exit
    /\ UNCHANGED <<mainKeeps, rknnVars, mppVars, enrolled, gallery, latest, wpc, job, serverVars>>

\* The same of the synchronous preview: main() encodes and publishes.
MainPublish ==
    /\ mpc = "submit" /\ ~async
    /\ processed' = processed + 1 /\ image' = NoImage
    /\ \/ MppEncode("Ok") /\ ServerPublish(image) /\ mpc' = "loop" /\ UNCHANGED exit
       \/ MppEncode("Error") /\ Throw /\ UNCHANGED server
       \/ "publish" \in Failures /\ MppEncode("Ok") /\ Throw /\ UNCHANGED server
    /\ UNCHANGED <<mainKeeps, rknnVars, enrolled, gallery, latest, previewVars,
                   acceptVars, clientVars>>

Ended(pc) == pc \in {"none", "ended"}

\* Once the preview's thread has ended, its error and an enrollment that is not
\* complete are errors of the program.
MainEnds ==
    /\ mpc = "finish" /\ Ended(wpc)
    /\ Leave(IF preview.error \/ ~enrolled THEN 1 ELSE 0)
    /\ UNCHANGED <<mainKeeps, rknnVars, mppVars, image, processed, enrolled, gallery, latest,
                   previewVars, serverVars>>

\* The publisher with its encoder, the server and the backends follow.
UnwindPreview ==
    /\ mpc = "unwind" /\ Ended(cpc) /\ mpc' = "unwindServer"
    /\ preview' = [preview EXCEPT !.stopping = TRUE, !.pending = NoImage]
    /\ UNCHANGED <<mainKeeps, rknnVars, mppVars, image, processed, exit, enrolled, gallery, latest,
                   wpc, job, serverVars>>

UnwindServer ==
    /\ mpc = "unwindServer" /\ Ended(wpc) /\ mpc' = "unwindClients"
    /\ MppClose
    /\ UNCHANGED <<mainKeeps, rknnVars, image, processed, exit, enrolled, gallery, latest,
                   previewVars, server, acceptVars, clientVars>>

\* After the accept thread, the clients are shut down and joined.
UnwindClients ==
    /\ mpc = "unwindClients" /\ Ended(apc) /\ \A s \in Slots : Ended(slots[s].pc)
    /\ mpc' = "ended" /\ RknnDestroyAll
    /\ UNCHANGED <<mainKeeps, mppVars, image, processed, exit, enrolled, gallery, latest,
                   previewVars, serverVars>>

\* The process is killed while it saves; the system takes back all it had.
Killed ==
    /\ "killed" \in Failures /\ mpc \in {"save", "rename"} /\ mpc' = "killed"
    /\ cpc' = "ended" /\ wpc' = "ended" /\ apc' = "ended"
    /\ V4l2Close(camera, {0}, {}) /\ npu' = {} /\ backends' = NoBackends /\ MppClose
    /\ slots' = [s \in Slots |-> Idle] /\ sockets' = {} /\ arriving' = None /\ into' = None
    /\ UNCHANGED <<image, processed, exit, async, enrolled, gallery, picture, staging, warmup, latest,
                   job, preview, server, connections>>

Main ==
    \/ MainConstruct \/ MainStart \/ MainTake \/ MainRecognise \/ MainEnrol \/ MainSave
    \/ MainSubmit \/ MainPublish \/ MainEnds \/ UnwindPreview \/ UnwindServer \/ UnwindClients
    \/ MainFinish \/ Killed

-----------------------------------------------------------------------------
(* AsyncPreview::Impl::run()                                                *)

workerKeeps == <<cameraVars, rknnVars, mainVars, captureVars>>

\* Mutant of WorkerTake: the job stays where it was.
WorkerTakeCopy ==
    /\ wpc = "wait" /\ (preview.stopping \/ preview.pending # NoImage)
    /\ IF preview.stopping THEN wpc' = "ended" /\ UNCHANGED job
       ELSE wpc' = "encode" /\ job' = preview.pending
    /\ UNCHANGED <<workerKeeps, preview, mppVars, serverVars>>

WorkerTake ==
    /\ wpc = "wait" /\ (preview.stopping \/ preview.pending # NoImage)
    /\ IF preview.stopping THEN wpc' = "ended" /\ UNCHANGED <<job, preview>>
       ELSE /\ wpc' = "encode" /\ job' = preview.pending
            /\ preview' = [preview EXCEPT !.pending = NoImage]
    /\ UNCHANGED <<workerKeeps, mppVars, serverVars>>

\* The handler of run().
WorkerThrows ==
    /\ preview' = [preview EXCEPT !.error = TRUE, !.stopping = TRUE, !.pending = NoImage]
    /\ wpc' = "ended"

WorkerEncode ==
    /\ wpc = "encode"
    /\ \/ MppEncode("Ok") /\ wpc' = "publish" /\ UNCHANGED preview
          /\ job' = [job EXCEPT !.pixels = Pixels(job), !.shares = FALSE]
       \/ MppEncode("Error") /\ WorkerThrows /\ job' = NoImage
    /\ UNCHANGED <<workerKeeps, serverVars>>

WorkerPublish ==
    /\ wpc = "publish" /\ job' = NoImage
    /\ \/ ServerPublish(job) /\ wpc' = "wait" /\ UNCHANGED preview
       \/ "publish" \in Failures /\ WorkerThrows /\ UNCHANGED server
    /\ UNCHANGED <<workerKeeps, mppVars, acceptVars, clientVars>>

Worker == WorkerTake \/ WorkerEncode \/ WorkerPublish

-----------------------------------------------------------------------------
(* PreviewServer: accept_loop() and serve()                                 *)

serverKeeps == <<cameraVars, rknnVars, mppVars, mainVars, captureVars, previewVars, server>>

\* A connection comes in.  Under clients_mutex: no slot is free, and it is
\* closed; or the old thread of a free slot, when there is one, is joined first.
Accept ==
    /\ apc = "poll" /\ ~serverStop /\ connections > 0
    /\ connections' = connections - 1
    /\ LET free == {s \in Slots : slots[s].fd = None}
       IN IF free = {} THEN UNCHANGED <<apc, arriving, into, sockets>>
          ELSE /\ into' = CHOOSE s \in free : \A t \in free : s <= t
               /\ apc' = "join" /\ arriving' = connections
               /\ sockets' = sockets \cup {arriving'}
    /\ UNCHANGED <<serverKeeps, slots>>

AcceptEnds ==
    /\ apc = "poll" /\ serverStop /\ apc' = "ended"
    /\ UNCHANGED <<serverKeeps, connections, arriving, into, clientVars>>

\* Still under the mutex: the old thread is joined and a new one started.
AcceptJoin ==
    /\ apc = "join" /\ Ended(slots[into].pc)
    /\ apc' = "poll" /\ arriving' = None /\ into' = None
    /\ \/ /\ slots' = [slots EXCEPT ![into] = [Idle EXCEPT !.fd = arriving, !.pc = "request"]]
          /\ UNCHANGED sockets
       \/ /\ "spawn" \in Failures /\ sockets' = sockets \ {arriving}
          /\ slots' = [slots EXCEPT ![into] = Idle]
    /\ UNCHANGED <<serverKeeps, connections>>

Acceptor == Accept \/ AcceptJoin \/ AcceptEnds

clientKeeps == <<serverKeeps, acceptVars>>
Moves(s, c) == slots' = [slots EXCEPT ![s] = c]

\* A request that does not come, or not whole, one for a page, the status or a
\* snapshot, and a stream.
ClientRequest(s) ==
    /\ slots[s].pc = "request"
    /\ \E pc \in {"leave", "stream"} : Moves(s, [slots[s] EXCEPT !.pc = pc])
    /\ UNCHANGED <<clientKeeps, sockets>>

\* The stream waits for a frame other than the one it sent; without one it
\* finds out whether the client is still there.
ClientStream(s) ==
    /\ slots[s].pc = "stream"
    /\ \/ (serverStop \/ server.number = slots[s].sent) /\ Moves(s, [slots[s] EXCEPT !.pc = "leave"])
       \/ /\ ~serverStop /\ server.number # 0 /\ server.number # slots[s].sent
          /\ Moves(s, [slots[s] EXCEPT !.pc = "send", !.frame = server.number])
    /\ UNCHANGED <<clientKeeps, sockets>>

\* A frame is sent, or the client is gone or too slow.
ClientSend(s) ==
    /\ slots[s].pc = "send"
    /\ \/ Moves(s, [slots[s] EXCEPT !.pc = "stream", !.sent = slots[s].frame, !.frame = 0])
       \/ Moves(s, [slots[s] EXCEPT !.pc = "leave"])
    /\ UNCHANGED <<clientKeeps, sockets>>

\* Mutant of ClientLeave: the slot is free before the mutex is taken.
ClientLeaveEarly(s) ==
    /\ \/ /\ slots[s].pc = "leave"
          /\ sockets' = sockets \ {slots[s].fd}
          /\ Moves(s, [Idle EXCEPT !.pc = "late"])
       \/ /\ slots[s].pc = "late" /\ apc # "join"
          /\ Moves(s, [Idle EXCEPT !.pc = "ended"]) /\ UNCHANGED sockets
    /\ UNCHANGED clientKeeps

\* The end of a client's thread, under clients_mutex.
ClientLeave(s) ==
    /\ slots[s].pc = "leave" /\ apc # "join"
    /\ sockets' = sockets \ {slots[s].fd}
    /\ Moves(s, [Idle EXCEPT !.pc = "ended"])
    /\ UNCHANGED clientKeeps

Client(s) == ClientRequest(s) \/ ClientStream(s) \/ ClientSend(s) \/ ClientLeave(s)

-----------------------------------------------------------------------------
Driver == DriverFills /\ UNCHANGED <<elsewhere, captureVars>>

\* The program is over.
Over == mpc \in {"ended", "killed"} /\ UNCHANGED vars

Next ==
    \/ Over
    \/ Driver \/ Capture \/ Main \/ Worker \/ Acceptor \/ \E s \in Slots : Client(s)

Spec == Init /\ [][Next]_vars

-----------------------------------------------------------------------------
\* What the variables hold.
TypeOK ==
    /\ camera.failed \in BOOLEAN /\ camera.held = (camera.out # None)
    /\ fds \subseteq 0 .. Device /\ maps \subseteq Buffers /\ queued \subseteq Buffers
    /\ mpc \in {"setup", "start", "loop", "recognise", "enrol", "save", "rename", "submit",
                "finish", "unwind", "unwindServer", "unwindClients", "ended", "killed"}
    /\ cpc \in {"none", "open", "loop", "convert", "publish", "close", "ended"}
    /\ wpc \in {"none", "wait", "encode", "publish", "ended"}
    /\ apc \in {"none", "poll", "join", "ended"}
    /\ exit \in {None, 0, 1} /\ processed \in 0 .. MaxFrames
    /\ \A s \in Slots :
          /\ slots[s].fd \in sockets \cup {None} /\ slots[s].sent \in 0 .. MaxFrames
          /\ slots[s].pc \in {"none", "request", "stream", "send", "leave", "ended"}

\* What the preview shows under the number of a frame are the pixels of that
\* frame: no buffer of the camera or of the converter is read when it holds
\* another one.
PreviewShowsItsFrame == server.number > 0 => server.image.sequence = server.image.pixels

\* The boxes drawn into a published frame were detected in it, and the names
\* are of embeddings of it: a run of either model that fails never passes the
\* outputs of an earlier one on.
FacesAreOfTheFrame ==
    server.number > 0 => /\ server.image.seen = server.image.sequence
                         /\ server.image.named \in {0, server.image.sequence}

\* The balances of the two mailboxes that overwrite: between the capture thread
\* and main(), of the images that were converted; and between main() and the
\* encoder.  What is in neither count nor in anybody's hands is at most the image
\* that main() had when it threw, the job the worker had when it threw, and the
\* job that waited when the preview was stopped, which no counter tells: also a
\* program that ends well discards that one.
FramesAreAccounted ==
    LET One(b) == IF b THEN 1 ELSE 0
        lostByMain == latest.captured - latest.dropped - processed - One(latest.available)
            - One(mpc \in {"recognise", "enrol", "save", "rename", "submit", "killed"})
        lostByPreview == processed - preview.overwrites - server.number
            - One(preview.pending # NoImage) - One(job # NoImage)
    IN  /\ lostByMain \in 0 .. One(exit = 1)
        /\ lostByPreview \in
              0 .. One(async /\ preview.stopping) + One(preview.error) + One(exit = 1)

\* The program exits with 0 only when no frame it submitted failed to be
\* encoded and published, and an enrollment it was asked for is in the file,
\* unless a short write has left none there.
ExitTellsTheTruth ==
    exit = 0 => /\ ~preview.error /\ Ended(wpc)
                /\ enrolled /\ gallery.file \in {0, gallery.samples}

\* The same towards the user: of the images that were converted the counters tell
\* which were overwritten, and the exit status whether an error took one.
LossesAreTold == FramesAreAccounted /\ ExitTellsTheTruth

\* Wherever the camera fails, as early as in open(): its descriptors and
\* mappings are gone when its thread has ended, and no other descriptor is.
CameraLeavesNothing == 0 \in fds /\ (Ended(cpc) => fds = {0} /\ maps = {})

\* Wherever the encoder fails, the frame and the packet it had are freed once.
EncoderFreesOnce == mishandled = {}

\* However the program ends, the NPU's and the encoder's contexts are destroyed,
\* the sockets closed, and no temporary gallery stays behind.
ProgramLeavesNothing ==
    mpc = "ended" => npu = {} /\ ~session /\ sockets = {} /\ gallery.temp = None

\* The state is well formed, and nothing the program took is left behind or
\* given back twice.
NothingIsLeft == TypeOK /\ CameraLeavesNothing /\ EncoderFreesOnce /\ ProgramLeavesNothing

\* Every open socket is that of one slot or the one being placed, and a slot
\* that is taken has an open one: so that the shutdown at the end reaches every
\* client and no descriptor that belongs to something else by then.
SocketsAreOwned ==
    /\ sockets = {slots[s].fd : s \in {t \in Slots : slots[t].fd # None}}
                    \cup (IF arriving = None THEN {} ELSE {arriving})
    /\ \A s, t \in Slots : s # t /\ slots[s].fd # None => slots[s].fd # slots[t].fd

\* A thread that is joined under clients_mutex has left that mutex for good, so
\* that accept_loop does not wait for a thread that waits for accept_loop, and
\* the destructor for both.
JoinedThreadsHaveEnded == apc = "join" => Ended(slots[into].pc)
\* The server owns its clients: their sockets, and the threads it waits for.
ServerOwnsItsClients == SocketsAreOwned /\ JoinedThreadsHaveEnded

\* What those who watch see of all this.
Visible ==
    [count |-> server.number, frame |-> server.image.sequence,
     pixels |-> server.image.pixels, faces |-> server.image.seen]
Watching == [s \in Slots |-> IF slots[s].fd = None THEN None ELSE slots[s].sent]

Channel == INSTANCE PreviewChannel
    WITH Viewers <- Slots, Nobody <- None,
         captured <- produced, shown <- Visible, watching <- Watching

\* To them five threads, two mailboxes that overwrite and all failures are a
\* channel that leaves frames out: each is shown whole, in the order they were
\* captured, none twice, and a stream only goes forward in them.
ImplementsChannel == Channel!Spec

\* The gallery in the file never loses a sample it had, also when the program is
\* killed while it saves or a call fails, and only the rename replaces it.  The
\* one exception is a write that falls short: nobody looks, and the rename puts
\* half a file in the place of a whole one.
GalleryKeepsItsSamples ==
    [][/\ gallery'.file <= gallery'.samples
       /\ gallery'.file >= gallery.file \/ (mpc = "rename" /\ gallery.temp = 0)
       /\ gallery'.file # gallery.file => mpc = "rename" /\ gallery'.file = gallery.temp]_vars
====

---- MODULE FaceVideoProofs ----
(***************************************************************************)
(* Proofs of the safety properties of FaceVideo.tla, for any number of      *)
(* buffers of the camera, frames, clients and samples, and for all          *)
(* failures.                                                                *)
(*                                                                          *)
(* IInv follows an image from the driver to the server: every image in the  *)
(* program has the pixels of its own frame, those nearer to the server are  *)
(* older, and each that was captured is counted somewhere.  What the        *)
(* program owns of the system is what the thread that owns it has.          *)
(***************************************************************************)
EXTENDS FaceVideo, WellFoundedInduction, TLAPS

Number(n) == IF n < 0 THEN -n ELSE n
One(b) == IF b THEN 1 ELSE 0

\* Images that share no buffer and have the pixels of their own frame, and those
\* with what was recognised in it.
Faithful == {i \in [sequence : Nat, pixels : Nat, shares : {FALSE}, seen : Nat, named : Nat] :
                i.pixels = i.sequence}
Recognised == {i \in Faithful : i.seen = i.sequence /\ i.named \in {0, i.sequence}}

Unwinding == {"unwind", "unwindServer", "unwindClients", "ended"}
Handling == {"recognise", "enrol", "save", "rename", "submit"}
Seen == {"enrol", "save", "rename", "submit"}
Encoding == {"encode", "publish"}

Exported == [b \in Buffers |-> b]
Cameras == [fd : {None, Device}, dmabuf : {Descriptors, Exported}, mapped : {{}, Buffers},
            streaming : BOOLEAN, held : BOOLEAN, failed : BOOLEAN, out : Buffers \cup {None},
            sequence : Int]

CameraTypes ==
    /\ camera \in Cameras /\ filled \in Seq(Buffers) /\ queued \subseteq Buffers
    /\ content \in [Buffers -> Int] /\ produced \in 0 .. MaxFrames
    /\ camera.held <=> camera.out # None

ImageTypes ==
    /\ picture \in Faithful /\ image \in Faithful
    /\ job \in Recognised
    /\ mpc \in Seen => image \in Recognised
    /\ latest \in [image : Faithful, available : BOOLEAN, captured : Nat, dropped : Nat,
                   error : BOOLEAN]
    /\ preview \in [pending : Recognised, overwrites : Nat, stopping : BOOLEAN, error : BOOLEAN]
    /\ server \in [number : Nat, image : Recognised]

MainTypes ==
    /\ mpc \in {"setup", "start", "loop", "finish", "killed"} \cup Handling \cup Unwinding
    /\ cpc \in {"none", "open", "loop", "convert", "publish", "close", "ended"}
    /\ wpc \in {"none", "wait", "ended"} \cup Encoding
    /\ apc \in {"none", "poll", "join", "ended"}
    /\ exit \in {None, 0, 1} /\ processed \in Nat
    /\ async \in BOOLEAN /\ enrolled \in BOOLEAN
    /\ gallery \in [samples : Nat, file : Nat, temp : Nat \cup {None}]

\* The descriptors and mappings of the process are those of the camera.
CameraOwns == fds = {0} \cup (OwnFds(camera) \ {None}) /\ maps = camera.mapped

\* Its thread closes it last, and is started with the loop of main().
CameraInv ==
    /\ CameraOwns
    /\ cpc \in {"none", "open", "ended"} => camera = NoCamera
    /\ mpc \in {"setup", "start"} => cpc = "none" /\ wpc = "none" /\ apc = "none"

\* A buffer is of one kind, so that only the driver writes it while it is queued.
BufferInv ==
    /\ camera.held => /\ camera.sequence = content[camera.out] /\ camera.out \notin queued
                      /\ \A i \in DOMAIN filled : filled[i] # camera.out
    /\ \A i \in DOMAIN filled : filled[i] \notin queued
    /\ \A i, j \in DOMAIN filled : i # j => filled[i] # filled[j]

\* All images in the program are older than the frame n.
AllBefore(n) ==
    /\ server.image.sequence < n /\ job.sequence < n /\ preview.pending.sequence < n
    /\ image.sequence < n /\ latest.image.sequence < n /\ picture.sequence < n

\* Frames go from the driver to the server in the order they were filled.
FlowInv ==
    /\ job.sequence > 0 => server.image.sequence < job.sequence
    /\ preview.pending.sequence > 0 =>
          server.image.sequence < preview.pending.sequence
          /\ job.sequence < preview.pending.sequence
    /\ image.sequence > 0 =>
          /\ server.image.sequence < image.sequence /\ job.sequence < image.sequence
          /\ preview.pending.sequence < image.sequence
    /\ latest.image.sequence > 0 =>
          /\ server.image.sequence < latest.image.sequence
          /\ job.sequence < latest.image.sequence
          /\ preview.pending.sequence < latest.image.sequence
          /\ image.sequence < latest.image.sequence
    /\ picture.sequence > 0 =>
          /\ server.image.sequence < picture.sequence /\ job.sequence < picture.sequence
          /\ preview.pending.sequence < picture.sequence /\ image.sequence < picture.sequence
          /\ latest.image.sequence < picture.sequence

\* And the camera's frames are newer than what the program has of it.
NewerInv ==
    /\ AllBefore(produced + 1)
    /\ camera.held => /\ AllBefore(Number(camera.sequence)) /\ Number(camera.sequence) <= produced
                      /\ \A i \in DOMAIN filled :
                            Number(camera.sequence) < Number(content[filled[i]])
    /\ \A i \in DOMAIN filled :
          AllBefore(Number(content[filled[i]])) /\ Number(content[filled[i]]) <= produced
    /\ \A i, j \in DOMAIN filled : i < j => Number(content[filled[i]]) < Number(content[filled[j]])

\* Who has an image has one.
PresentInv ==
    /\ cpc = "publish" => picture.sequence > 0
    /\ latest.available => latest.image.sequence > 0
    /\ mpc \in Handling => image.sequence > 0
    /\ wpc \in Encoding => job.sequence > 0
    /\ wpc \in {"none", "wait"} => job = NoImage
    /\ preview.stopping => preview.pending = NoImage
    /\ preview.error => async /\ preview.stopping /\ wpc = "ended"
    /\ ~async => wpc \in {"none", "ended"} /\ preview.pending = NoImage /\ job = NoImage

\* No more is captured than the driver has filled.
CameraAccount ==
    latest.captured + One(cpc = "publish") + One(camera.held) + Len(filled) <= produced

\* What of main()'s, and of the preview's, is counted or in somebody's hands.
MainHas == latest.dropped + processed + One(latest.available)
               + One(mpc \in Handling \cup {"killed"})
PreviewHas == preview.overwrites + server.number
                  + One(preview.pending # NoImage) + One(job # NoImage)

MainAccount ==
    MainHas <= latest.captured /\ latest.captured <= MainHas + One(exit = 1)

PreviewAccount ==
    /\ PreviewHas <= processed
    /\ processed <= PreviewHas + One(async /\ preview.stopping) + One(preview.error)
                        + One(exit = 1)

AccountInv == CameraAccount /\ MainAccount /\ PreviewAccount

\* How main() leaves.
ExitInv ==
    /\ exit # None <=> mpc \in Unwinding
    /\ mpc \in {"unwindClients", "ended"} => Ended(wpc) /\ ~session
    /\ mpc = "ended" => Ended(apc) /\ \A s \in Slots : Ended(slots[s].pc)
    /\ ExitTellsTheTruth

GalleryInv ==
    /\ gallery.file <= gallery.samples
    /\ mpc \in {"save", "rename"} => gallery.file \in {0, gallery.samples - 1}
    /\ mpc = "rename" => gallery.temp \in {0, gallery.samples}
    /\ mpc \notin {"save", "rename", "killed"} => gallery.temp = None
    /\ exit # 1 /\ mpc \notin {"save", "rename", "killed"} => gallery.file \in {0, gallery.samples}

\* What the NPU has is what the backends hold.
NpuInv ==
    /\ npu = UNION {Resources(m) : m \in DOMAIN backends}
    /\ mpc = "setup" => backends = NoBackends \/ DOMAIN backends = {"detector"}
    /\ mpc \in {"start", "loop", "finish"} \cup Handling => DOMAIN backends = Models
    /\ mpc \in {"ended", "killed"} => npu = {}
    /\ mishandled = {}

\* A slot of the preview server, when `n` frames are published, `left`
\* connections are to come and `a` is placed.  Connections are numbered downwards.
SlotStates == [fd : Nat \cup {None}, pc : {"none", "request", "stream", "send", "leave", "ended"},
               sent : Nat, frame : Nat]
GoodSlot(c, n, left, a) ==
    /\ c.fd = None <=> Ended(c.pc)
    /\ c.fd = None => c.sent = 0
    /\ c.sent <= n /\ c.frame <= n
    /\ c.pc = "send" => c.sent <= c.frame
    /\ c.fd # None => c.fd > left /\ c.fd # a

SlotInv ==
    /\ slots \in [Slots -> SlotStates] /\ connections \in Nat /\ arriving \in Nat \cup {None}
    /\ \A s \in Slots : GoodSlot(slots[s], server.number, connections, arriving)
    /\ arriving # None => arriving > connections
    /\ apc = "join" <=> arriving # None
    /\ apc = "join" => into \in Slots /\ slots[into].fd = None
    /\ SocketsAreOwned

IInv ==
    /\ CameraTypes /\ ImageTypes /\ MainTypes /\ CameraInv /\ BufferInv /\ FlowInv /\ NewerInv
    /\ PresentInv /\ AccountInv /\ ExitInv /\ GalleryInv /\ NpuInv /\ SlotInv

-----------------------------------------------------------------------------
(* The camera.                                                              *)

LEMMA BufferFacts ==
  /\ None = -1 /\ Device \in Nat /\ Device # 0
  /\ \A b \in Buffers : b \in Nat /\ b # 0 /\ b # Device
  BY CameraAssumption DEF None, Device, Buffers

LEMMA NoCameraTyped == NoCamera \in Cameras
  BY DEF NoCamera, Cameras

\* A camera whose open() failed at any point, and one that is open.
LEMMA OpenFacts ==
  /\ \A c \in PartlyOpen : /\ c.fd \in {None, Device}
                           /\ \A b \in Buffers : c.dmabuf[b] \in {b, None}
  /\ OpenUpto(BufferCount, BufferCount) =
       [NoCamera EXCEPT !.fd = Device, !.mapped = Buffers, !.dmabuf = Exported]
  /\ OpenUpto(BufferCount, 0) =
       [NoCamera EXCEPT !.fd = Device, !.mapped = Buffers, !.dmabuf = Descriptors]
  <1>1. /\ NoCamera.fd = None /\ \A b \in Buffers : NoCamera.dmabuf[b] = None
    BY DEF NoCamera, Descriptors
  <1>2. \A m, e : /\ OpenUpto(m, e).fd = Device
                  /\ \A b \in Buffers : OpenUpto(m, e).dmabuf[b] \in {b, None}
    BY DEF OpenUpto, NoCamera, Descriptors
  <1>3. \A b \in Buffers : b <= BufferCount /\ ~(b <= 0)
    BY CameraAssumption DEF Buffers
  <1>4. /\ [b \in Buffers |-> IF b <= BufferCount THEN b ELSE Descriptors[b]] = Exported
        /\ [b \in Buffers |-> IF b <= 0 THEN b ELSE Descriptors[b]] = Descriptors
    BY <1>3 DEF Exported, Descriptors
  <1>5. \A c \in PartlyOpen : /\ c.fd \in {None, Device}
                              /\ \A b \in Buffers : c.dmabuf[b] \in {b, None}
    BY <1>1, <1>2 DEF PartlyOpen
  <1> QED
    BY <1>4, <1>5 DEF OpenUpto, Buffers

\* The descriptors and mappings of a camera are all that v4l2_close takes.
LEMMA CloseTakesItsOwn ==
  ASSUME NEW c, NEW f, NEW m,
         /\ c.fd \in {None, Device}
         /\ \A b \in Buffers : c.dmabuf[b] \in {b, None}
         /\ f = {0} \cup (OwnFds(c) \ {None}) \/ f = {0}
         /\ m = c.mapped \/ m = {},
         V4l2Close(c, f, m)
  PROVE  /\ fds' = {0} /\ maps' = {} /\ camera' = NoCamera /\ queued' = {} /\ filled' = <<>>
         /\ content' = [b \in Buffers |-> 0] /\ produced' = produced
  <1>1. /\ fds' = f \ ({c.fd} \cup {c.dmabuf[b] : b \in Buffers})
        /\ maps' = m \ c.mapped
    BY DEF V4l2Close
  <1>2. 0 \notin {c.fd} \cup {c.dmabuf[b] : b \in Buffers}
    BY BufferFacts
  <1>3. \A x \in OwnFds(c) : x \in {c.fd} \cup {c.dmabuf[b] : b \in Buffers}
    BY DEF OwnFds
  <1>4. fds' = {0}
    BY <1>1, <1>2, <1>3
  <1> QED
    BY <1>1, <1>4 DEF V4l2Close

\* What a closed camera satisfies.
LEMMA ClosedCamera ==
  ASSUME CameraTypes, camera' = NoCamera, fds' = {0}, maps' = {}, queued' = {}, filled' = <<>>,
         content' = [b \in Buffers |-> 0], produced' = produced
  PROVE  CameraTypes' /\ BufferInv' /\ CameraOwns'
  <1>1. ~camera'.held /\ camera'.out = None /\ camera'.mapped = {} /\ OwnFds(camera') = {None}
    BY BufferFacts DEF NoCamera, OwnFds, Descriptors
  <1>2. CameraTypes'
    <2>1. <<>> \in Seq(Buffers) /\ [b \in Buffers |-> 0] \in [Buffers -> Int]
      OBVIOUS
    <2> QED
      BY <1>1, <2>1, NoCameraTyped DEF CameraTypes
  <1> QED
    BY <1>1, <1>2 DEF BufferInv, CameraOwns

LEMMA CameraOpens ==
  ASSUME CameraTypes, camera = NoCamera, fds = {0}, maps = {}, NEW status, CameraOpen(status)
  PROVE  /\ CameraTypes' /\ BufferInv' /\ CameraOwns'
         /\ status = "Error" => camera' = NoCamera
         /\ ~camera'.held /\ filled' = <<>> /\ produced' = produced
         /\ status \in {"Ok", "Error"}
  <1>1. CASE status = "Ok" /\ status # "Error"
    <2> DEFINE c == [OpenUpto(BufferCount, IF ExportDmabuf THEN BufferCount ELSE 0)
                       EXCEPT !.streaming = TRUE]
    <2>1. /\ camera' = c /\ fds' = fds \cup (OwnFds(c) \ {None}) /\ maps' = Buffers
          /\ queued' = Buffers /\ filled' = <<>> /\ UNCHANGED <<content, produced>>
      BY <1>1 DEF CameraOpen
    <2>2. /\ c \in Cameras /\ ~c.held /\ c.out = None /\ c.mapped = Buffers
      <3>1. PICK d \in {Descriptors, Exported} :
              c = [NoCamera EXCEPT !.fd = Device, !.mapped = Buffers, !.streaming = TRUE,
                                   !.dmabuf = d]
        BY OpenFacts, CameraAssumption DEF NoCamera
      <3> HIDE DEF c
      <3>2. c = [fd |-> Device, dmabuf |-> d, mapped |-> Buffers, streaming |-> TRUE,
                 held |-> FALSE, failed |-> FALSE, out |-> None, sequence |-> 0]
        BY <3>1 DEF NoCamera
      <3> QED
        BY <3>2 DEF Cameras
    <2> HIDE DEF c
    <2>3. <<>> \in Seq(Buffers)
      OBVIOUS
    <2> QED
      BY <1>1, <2>1, <2>2, <2>3 DEF CameraTypes, BufferInv, CameraOwns
  <1>2. CASE status = "Error"
    <2>1. PICK c \in PartlyOpen : V4l2Close(c, fds \cup (OwnFds(c) \ {None}), maps \cup c.mapped)
      BY <1>2 DEF CameraOpen
    <2> DEFINE f == {0} \cup (OwnFds(c) \ {None})
    <2>2. V4l2Close(c, f, c.mapped)
      BY <2>1 DEF V4l2Close
    <2>3. /\ fds' = {0} /\ maps' = {} /\ camera' = NoCamera /\ queued' = {} /\ filled' = <<>>
          /\ content' = [b \in Buffers |-> 0] /\ produced' = produced
      <3>1. f = {0} \cup (OwnFds(c) \ {None})
        OBVIOUS
      <3>2. c.fd \in {None, Device} /\ \A b \in Buffers : c.dmabuf[b] \in {b, None}
        BY <2>1, OpenFacts
      <3> HIDE DEF f
      <3> QED
        BY <2>2, <3>1, <3>2, CloseTakesItsOwn
    <2>4. ~camera'.held
      BY <2>3 DEF NoCamera
    <2> QED
      BY <1>2, <2>3, <2>4, ClosedCamera
  <1> QED
    BY <1>1, <1>2 DEF CameraOpen

\* Which frame the thread has got, and which the driver still has filled.
LEMMA CameraAcquires ==
  ASSUME CameraTypes, BufferInv, CameraOwns, NEW status, CameraAcquire(status)
  PROVE  /\ CameraTypes' /\ BufferInv' /\ CameraOwns'
         /\ status \in {"Ok", "Error"}
         /\ UNCHANGED <<content, produced>> /\ ~camera.held
         /\ \/ ~camera'.held /\ filled' = filled
            \/ ~camera'.held /\ filled # <<>> /\ filled' = Tail(filled)
            \/ /\ camera'.held /\ filled # <<>> /\ filled' = Tail(filled) /\ status = "Ok"
               /\ camera'.sequence = content[Head(filled)]
  <1> USE DEF CameraTypes
  <1>0. ~camera.held /\ UNCHANGED <<fds, maps, queued, content, produced>>
    BY DEF CameraAcquire
  <1>t. ASSUME filled # <<>>
        PROVE  /\ Tail(filled) \in Seq(Buffers) /\ Head(filled) \in Buffers
               /\ Head(filled) = filled[1] /\ 1 \in DOMAIN filled
               /\ \A i \in DOMAIN Tail(filled) :
                     i \in Nat /\ i + 1 \in DOMAIN filled /\ i # 0 /\ Tail(filled)[i] = filled[i + 1]
    BY <1>t
  <1>1. CASE /\ status = "Error" /\ camera' = [camera EXCEPT !.failed = TRUE]
             /\ filled' = filled \/ (filled # <<>> /\ filled' = Tail(filled))
    <2>1. /\ camera' \in Cameras /\ camera'.held = camera.held /\ camera'.out = camera.out
          /\ camera'.sequence = camera.sequence /\ camera'.mapped = camera.mapped
          /\ camera'.fd = camera.fd /\ camera'.dmabuf = camera.dmabuf
      BY <1>1 DEF Cameras
    <2>2. CameraOwns'
      BY <1>0, <2>1 DEF CameraOwns, OwnFds
    <2>3. CASE filled' = filled
      BY <1>0, <1>1, <2>1, <2>2, <2>3 DEF BufferInv
    <2>4. CASE filled # <<>> /\ filled' = Tail(filled)
      <3>1. BufferInv'
        BY <1>0, <1>t, <2>1, <2>4 DEF BufferInv
      <3>2. CameraTypes'
        BY <1>0, <1>t, <2>1, <2>4
      <3> QED
        BY <1>0, <1>1, <2>1, <2>2, <2>4, <3>1, <3>2
    <2> QED
      BY <1>1, <2>3, <2>4
  <1>2. CASE /\ status = "Ok" /\ filled # <<>> /\ filled' = Tail(filled)
             /\ camera' = [camera EXCEPT !.held = TRUE, !.out = Head(filled),
                                         !.sequence = content[Head(filled)]]
    <2>1. /\ camera' \in Cameras /\ camera'.held /\ camera'.out = Head(filled)
          /\ camera'.sequence = content[Head(filled)] /\ camera'.mapped = camera.mapped
          /\ camera'.fd = camera.fd /\ camera'.dmabuf = camera.dmabuf
      BY <1>2, <1>t DEF Cameras
    <2>2. CameraOwns'
      BY <1>0, <2>1 DEF CameraOwns, OwnFds
    <2>3. BufferInv'
      BY <1>0, <1>2, <1>t, <2>1 DEF BufferInv
    <2>4. CameraTypes'
      BY <1>0, <1>2, <1>t, <2>1, BufferFacts
    <2> QED
      BY <1>0, <1>2, <2>1, <2>2, <2>3, <2>4
  <1> QED
    BY <1>1, <1>2 DEF CameraAcquire

LEMMA CameraReleases ==
  ASSUME CameraTypes, BufferInv, CameraOwns, NEW status, CameraRelease(status)
  PROVE  /\ CameraTypes' /\ BufferInv' /\ CameraOwns'
         /\ status \in {"Ok", "Error"}
         /\ camera.held /\ ~camera'.held /\ filled' = filled /\ produced' = produced
         /\ \A i \in DOMAIN filled : content'[filled[i]] = content[filled[i]]
  <1> USE DEF CameraTypes
  <1>0. /\ camera.held /\ camera.out \in Buffers /\ camera.out # None
        /\ UNCHANGED <<fds, maps, filled, produced>>
        /\ content' = [content EXCEPT ![camera.out] = 0]
    BY DEF CameraRelease, Cameras
  <1>7. queued' = queued \/ queued' = queued \cup {camera.out}
    BY DEF CameraRelease
  <1>1. /\ camera' \in Cameras /\ ~camera'.held /\ camera'.out = None
        /\ camera'.mapped = camera.mapped /\ camera'.fd = camera.fd
        /\ camera'.dmabuf = camera.dmabuf
    <2>1. PICK failed \in BOOLEAN :
            camera' = [camera EXCEPT !.held = FALSE, !.out = None, !.sequence = 0, !.failed = failed]
      BY DEF CameraRelease
    <2>2. ASSUME NEW c \in Cameras, NEW d, NEW v \in BOOLEAN,
                 d = [c EXCEPT !.held = FALSE, !.out = None, !.sequence = 0, !.failed = v]
          PROVE  d \in Cameras
      <3>1. None \in Buffers \cup {None} /\ 0 \in Int
        OBVIOUS
      <3> QED
        BY <2>2, <3>1 DEF Cameras
    <2>3. camera' \in Cameras
      BY <2>1, <2>2
    <2> QED
      BY <2>1, <2>3 DEF Cameras
  <1>2. \A i \in DOMAIN filled : filled[i] \in Buffers /\ filled[i] # camera.out
    BY <1>0 DEF BufferInv
  <1>3. CameraOwns'
    BY <1>0, <1>1 DEF CameraOwns, OwnFds
  <1>4. CameraTypes'
    BY <1>0, <1>1, <1>7
  <1>5. BufferInv'
    BY <1>0, <1>1, <1>2, <1>7 DEF BufferInv
  <1>6. status \in {"Ok", "Error"}
    BY DEF CameraRelease
  <1> QED
    BY <1>0, <1>1, <1>2, <1>3, <1>4, <1>5, <1>6

LEMMA CameraFills ==
  ASSUME CameraTypes, BufferInv, CameraOwns, DriverFills
  PROVE  /\ CameraTypes' /\ BufferInv' /\ CameraOwns'
         /\ UNCHANGED camera /\ produced' = produced + 1
         /\ Len(filled') = Len(filled) + 1
         /\ \A i \in DOMAIN filled' :
               \/ /\ i \in DOMAIN filled /\ filled'[i] = filled[i]
                  /\ content'[filled'[i]] = content[filled[i]]
               \/ /\ i = Len(filled) + 1 /\ content'[filled'[i]] \in {produced + 1, -(produced + 1)}
  <1> USE DEF CameraTypes
  <1>1. /\ UNCHANGED <<camera, fds, maps>> /\ produced < MaxFrames /\ produced' = produced + 1
    BY DEF DriverFills
  <1>2. PICK b \in queued, n \in {produced', -produced'} :
          /\ queued' = queued \ {b} /\ filled' = Append(filled, b)
          /\ content' = [content EXCEPT ![b] = n]
    BY DEF DriverFills
  <1>3. /\ b \in Buffers /\ n \in Int /\ produced' \in 0 .. MaxFrames
    BY <1>1, <1>2, CameraAssumption
  <1>4. /\ filled' \in Seq(Buffers) /\ Len(filled') = Len(filled) + 1
        /\ \A i \in DOMAIN filled' : \/ i \in DOMAIN filled /\ filled'[i] = filled[i]
                                     \/ i = Len(filled) + 1 /\ filled'[i] = b
    BY <1>2, <1>3
  <1>5. \A i \in DOMAIN filled : filled[i] # b /\ filled[i] \in Buffers
    BY <1>2 DEF BufferInv
  <1>6. b # camera.out \/ ~camera.held
    BY <1>2 DEF BufferInv
  <1>7. CameraTypes'
    BY <1>1, <1>2, <1>3, <1>4
  <1>8. CameraOwns'
    BY <1>1 DEF CameraOwns
  <1>9. BufferInv'
    <2>1. camera.held => content'[camera.out] = content[camera.out] /\ camera.out \notin queued'
      BY <1>2, <1>3, <1>6 DEF BufferInv, Cameras
    <2>2. \A i \in DOMAIN filled' : filled'[i] \notin queued' /\ (camera.held => filled'[i] # camera.out)
      BY <1>2, <1>4, <1>5, <1>6 DEF BufferInv
    <2>3. \A i, j \in DOMAIN filled' : i # j => filled'[i] # filled'[j]
      BY <1>4, <1>5 DEF BufferInv
    <2> QED
      BY <1>1, <2>1, <2>2, <2>3 DEF BufferInv
  <1> QED
    BY <1>1, <1>2, <1>3, <1>4, <1>5, <1>7, <1>8, <1>9

LEMMA CameraKept ==
  ASSUME CameraTypes, CameraOwns, BufferInv, UNCHANGED cameraVars
  PROVE  CameraTypes' /\ CameraOwns' /\ BufferInv'
  BY DEF cameraVars, CameraTypes, CameraOwns, OwnFds, BufferInv

LEMMA CameraCloses ==
  ASSUME CameraTypes, NEW f, NEW m,
         \/ f = fds /\ m = maps /\ CameraOwns
         \/ f = {0} /\ m = {},
         V4l2Close(camera, f, m)
  PROVE  /\ CameraTypes' /\ BufferInv' /\ CameraOwns' /\ camera' = NoCamera
         /\ filled' = <<>> /\ produced' = produced
  <1>1. camera.fd \in {None, Device} /\ camera.dmabuf \in {Descriptors, Exported}
    BY DEF CameraTypes, Cameras
  <1>2. \A b \in Buffers : camera.dmabuf[b] \in {b, None}
    BY <1>1 DEF Descriptors, Exported
  <1>3. /\ f = {0} \cup (OwnFds(camera) \ {None}) \/ f = {0}
        /\ m = camera.mapped \/ m = {}
    BY DEF CameraOwns
  <1>4. /\ fds' = {0} /\ maps' = {} /\ camera' = NoCamera /\ queued' = {} /\ filled' = <<>>
        /\ content' = [b \in Buffers |-> 0] /\ produced' = produced
    BY <1>1, <1>2, <1>3, CloseTakesItsOwn
  <1> QED
    BY <1>4, ClosedCamera

\* The steps that do not touch the camera.
Elsewhere ==
    \/ UNCHANGED vars \/ CaptureStops \/ CapturePublish
    \/ MainConstruct \/ MainStart \/ MainTake \/ MainRecognise \/ MainEnrol \/ MainSave
    \/ MainSubmit \/ MainPublish \/ MainEnds \/ UnwindPreview \/ UnwindServer \/ UnwindClients
    \/ MainFinish \/ Worker \/ Acceptor \/ \E s \in Slots : Client(s)

LEMMA Steps ==
  [Next]_vars =>
     Elsewhere \/ Driver \/ CaptureOpen \/ CaptureAcquire \/ CaptureConvert \/ CaptureClose \/ Killed
  BY DEF Next, Over, Elsewhere, Capture, Main

LEMMA ElsewhereKeepsCamera == Elsewhere => UNCHANGED cameraVars
  BY DEF Elsewhere, vars, CaptureStops, CapturePublish, MainConstruct, MainStart, MainTake,
         MainRecognise, MainEnrol, MainSave, MainSubmit, MainPublish, MainEnds, UnwindPreview,
         UnwindServer, UnwindClients, MainFinish, mainKeeps, Worker, WorkerTake, WorkerEncode,
         WorkerPublish, workerKeeps, Acceptor, Accept, AcceptJoin, AcceptEnds, serverKeeps, Client,
         ClientRequest, ClientStream, ClientSend, ClientLeave, clientKeeps

\* Where the threads are: only MainStart and Killed move another one than their own.
LEMMA ProgramCounters ==
  ASSUME [Next]_vars, ~MainStart, ~Killed
  PROVE  \/ UNCHANGED <<mpc, cpc, wpc, apc>>
         \/ Capture /\ UNCHANGED <<mpc, wpc, apc>>
         \/ Main /\ UNCHANGED <<cpc, wpc, apc>>
         \/ Worker /\ UNCHANGED <<mpc, cpc, apc>>
         \/ Acceptor /\ UNCHANGED <<mpc, cpc, wpc>>
  <1> USE DEF mainVars, captureVars, previewVars, serverVars, acceptVars, elsewhere
  <1>1. CASE UNCHANGED vars \/ Over \/ Driver
    BY <1>1 DEF vars, Over, Driver
  <1>2. CASE Capture
    BY <1>2 DEF Capture, CaptureOpen, CaptureAcquire, CaptureStops, CaptureConvert, CapturePublish,
                CaptureClose
  <1>3. CASE Main
    BY <1>3 DEF Main, MainConstruct, MainTake, MainRecognise, MainEnrol, MainSave, MainSubmit,
                MainPublish, MainEnds, UnwindPreview, UnwindServer, UnwindClients, MainFinish, mainKeeps
  <1>4. CASE Worker
    BY <1>4 DEF Worker, WorkerTake, WorkerEncode, WorkerPublish, workerKeeps
  <1>5. CASE Acceptor
    BY <1>5 DEF Acceptor, Accept, AcceptJoin, AcceptEnds, serverKeeps
  <1>6. CASE \E s \in Slots : Client(s)
    BY <1>6 DEF Client, ClientRequest, ClientStream, ClientSend, ClientLeave, clientKeeps, serverKeeps
  <1> QED
    BY <1>1, <1>2, <1>3, <1>4, <1>5, <1>6 DEF Next

LEMMA CameraStep ==
  ASSUME CameraTypes, CameraInv, BufferInv, [Next]_vars
  PROVE  CameraTypes' /\ CameraInv' /\ BufferInv'
  <1>0. CameraOwns
    BY DEF CameraInv
  <1> DEFINE Started ==
        /\ cpc \in {"none", "open", "ended"} => camera = NoCamera
        /\ mpc \in {"setup", "start"} => cpc = "none" /\ wpc = "none" /\ apc = "none"
  <1>s. Started
    BY DEF CameraInv
  <1>q. CameraOwns' /\ Started' => CameraInv'
    BY DEF CameraInv
  <1>1. CASE Driver
    <2>1. DriverFills /\ UNCHANGED <<mpc, cpc, wpc, apc>>
      BY <1>1 DEF Driver, elsewhere, mainVars, captureVars, previewVars, serverVars, acceptVars
    <2>2. CameraTypes' /\ BufferInv' /\ CameraOwns' /\ UNCHANGED camera
      BY <1>0, <2>1, CameraFills
    <2> QED
      BY <1>s, <1>q, <2>1, <2>2
  <1>2. CASE CaptureOpen
    <2>1. /\ cpc = "open" /\ cpc' \in {"loop", "close"} /\ UNCHANGED mpc
          /\ \E status : CameraOpen(status)
      BY <1>2 DEF CaptureOpen, CaptureThrows, elsewhere, mainVars
    <2>2. camera = NoCamera /\ fds = {0} /\ maps = {}
      BY <1>0, <1>s, <2>1 DEF CameraOwns, NoCamera, OwnFds, Descriptors
    <2>3. CameraTypes' /\ BufferInv' /\ CameraOwns'
      BY <2>1, <2>2, CameraOpens
    <2> QED
      BY <1>s, <1>q, <2>1, <2>3
  <1>3. CASE CaptureAcquire
    <2>1. /\ cpc = "loop" /\ cpc' \in {"convert", "close"} /\ UNCHANGED mpc
          /\ UNCHANGED cameraVars \/ \E status : CameraAcquire(status)
      BY <1>3 DEF CaptureAcquire, CaptureThrows, elsewhere, mainVars
    <2>2. CameraTypes' /\ BufferInv' /\ CameraOwns'
      BY <1>0, <2>1, CameraAcquires, CameraKept
    <2> QED
      BY <1>s, <1>q, <2>1, <2>2
  <1>4. CASE CaptureConvert
    <2>1. /\ cpc = "convert" /\ cpc' \in {"loop", "publish", "close"} /\ UNCHANGED mpc
          /\ \E status : CameraRelease(status)
      BY <1>4 DEF CaptureConvert, CaptureThrows, elsewhere, mainVars
    <2>2. CameraTypes' /\ BufferInv' /\ CameraOwns'
      BY <1>0, <2>1, CameraReleases
    <2> QED
      BY <1>s, <1>q, <2>1, <2>2
  <1>5. CASE CaptureClose
    <2>1. /\ cpc = "close" /\ UNCHANGED mpc /\ V4l2Close(camera, fds, maps)
      BY <1>5 DEF CaptureClose, CameraClose, elsewhere, mainVars
    <2>2. CameraTypes' /\ BufferInv' /\ CameraOwns' /\ camera' = NoCamera
      BY <1>0, <2>1, CameraCloses
    <2> QED
      BY <1>s, <1>q, <2>1, <2>2
  <1>6. CASE Killed
    <2>1. mpc' = "killed" /\ V4l2Close(camera, {0}, {})
      BY <1>6 DEF Killed
    <2>2. CameraTypes' /\ BufferInv' /\ CameraOwns' /\ camera' = NoCamera
      BY <1>0, <2>1, CameraCloses
    <2> QED
      BY <1>q, <2>1, <2>2
  <1>7. CASE Elsewhere /\ ~Killed
    <2>1. CameraTypes' /\ BufferInv' /\ CameraOwns' /\ UNCHANGED camera
      BY <1>0, <1>7, ElsewhereKeepsCamera, CameraKept DEF cameraVars
    <2>2. CASE MainStart
      BY <1>s, <1>q, <2>1, <2>2 DEF MainStart, Throw, Leave
    <2>3. CASE UNCHANGED <<mpc, cpc, wpc, apc>>
      BY <1>s, <1>q, <2>1, <2>3
    <2>4. CASE Capture /\ UNCHANGED <<mpc, wpc, apc>>
      <3>1. CASE CaptureStops \/ CapturePublish
        BY <1>s, <1>q, <2>1, <2>4, <3>1 DEF CaptureStops, CapturePublish
      <3>2. CASE ~CaptureStops /\ ~CapturePublish
        BY <1>2, <1>3, <1>4, <1>5, <2>4, <3>2 DEF Capture
      <3> QED
        BY <3>1, <3>2
    <2>5. CASE Main /\ UNCHANGED <<cpc, wpc, apc>>
      <3>1. mpc' \in {"setup", "start"} => mpc \in {"setup", "start"}
        BY <1>7, <2>5 DEF Main, MainConstruct, MainStart, MainTake, MainRecognise, MainEnrol, MainSave,
                   MainSubmit, MainPublish, MainEnds, UnwindPreview, UnwindServer, UnwindClients,
                   MainFinish, Throw, Leave
      <3> QED
        BY <1>s, <1>q, <2>1, <2>5, <3>1
    <2>6. CASE Worker /\ UNCHANGED <<mpc, cpc, apc>>
      BY <1>s, <1>q, <2>1, <2>6 DEF Worker, WorkerTake, WorkerEncode, WorkerPublish
    <2>7. CASE Acceptor /\ UNCHANGED <<mpc, cpc, wpc>>
      BY <1>s, <1>q, <2>1, <2>7 DEF Acceptor, Accept, AcceptJoin, AcceptEnds
    <2> QED
      BY <1>7, <2>2, <2>3, <2>4, <2>5, <2>6, <2>7, ProgramCounters
  <1> QED
    BY <1>1, <1>2, <1>3, <1>4, <1>5, <1>6, <1>7, Steps

-----------------------------------------------------------------------------
(* Images.                                                                  *)

LEMMA ImageFacts ==
  /\ NoImage \in Recognised /\ NoImage.sequence = 0
  /\ \A i \in Faithful : /\ i.sequence \in Nat /\ i.pixels = i.sequence /\ Pixels(i) = i.pixels
                         /\ [i EXCEPT !.pixels = Pixels(i), !.shares = FALSE] = i
                         /\ \A n \in {0, i.pixels} :
                               /\ [i EXCEPT !.seen = i.pixels, !.named = n] \in Recognised
                               /\ [i EXCEPT !.seen = i.pixels, !.named = n].sequence = i.sequence
  /\ \A i \in Recognised : i \in Faithful /\ i.seen = i.sequence
  <1>1. NoImage = [sequence |-> 0, pixels |-> 0, shares |-> FALSE, seen |-> 0, named |-> 0]
    BY DEF NoImage, NewImage
  <1>2. NoImage \in Recognised /\ NoImage.sequence = 0
    BY <1>1 DEF Recognised, Faithful
  <1>3. ASSUME NEW i \in Faithful
        PROVE  /\ i.sequence \in Nat /\ i.pixels = i.sequence /\ Pixels(i) = i.pixels
               /\ [i EXCEPT !.pixels = Pixels(i), !.shares = FALSE] = i
    BY DEF Faithful, Pixels
  <1>4. ASSUME NEW i \in Faithful, NEW n \in {0, i.pixels}
        PROVE  /\ [i EXCEPT !.seen = i.pixels, !.named = n] \in Recognised
               /\ [i EXCEPT !.seen = i.pixels, !.named = n].sequence = i.sequence
    <2>1. i.sequence \in Nat /\ i.pixels = i.sequence
      BY <1>3
    <2>2. n \in Nat /\ n \in {0, i.sequence}
      <3>1. n \in {0, i.sequence}
        BY <2>1, Zenon
      <3>2. 0 \in Nat
        OBVIOUS
      <3> QED
        BY <2>1, <3>1, <3>2, Zenon
    <2>3. ASSUME NEW m \in Nat, m \in {0, i.sequence}
          PROVE  /\ [i EXCEPT !.seen = i.pixels, !.named = m] \in Recognised
                 /\ [i EXCEPT !.seen = i.pixels, !.named = m].sequence = i.sequence
      BY <2>3 DEF Faithful, Recognised
    <2> QED
      BY <2>2, <2>3, Zenon
  <1> QED
    BY <1>2, <1>3, <1>4 DEF Recognised

\* What is drawn into an image is what the NPU has told of this image.
LEMMA RecogniseFacts ==
  ASSUME MainRecognise, image \in Faithful
  PROVE  /\ mpc = "recognise"
         /\ \/ Throw /\ UNCHANGED image
            \/ /\ mpc' \in {"enrol", "submit"} /\ UNCHANGED exit
               /\ \E n \in {0, image.pixels} :
                     image' = [image EXCEPT !.seen = image.pixels, !.named = n]
         /\ UNCHANGED <<mainKeeps, npu, mppVars, processed, enrolled, gallery, latest, previewVars,
                        serverVars>>
         /\ DOMAIN backends' = Models
  <1> DEFINE B(ok, faces) == [m \in Models |-> IF m = "detector" \/ faces > 0
                                               THEN RknnRun(backends[m], Pixels(image), m \in ok)
                                               ELSE backends[m]]
  <1>1. PICK ok \in (IF NpuFails THEN SUBSET Models ELSE {Models}), faces \in 0 .. 2 :
          /\ backends' = B(ok, faces)
          /\ IF B(ok, faces)["detector"].valid /\ (faces > 0 => B(ok, faces)["recognizer"].valid)
             THEN /\ mpc' \in IF ~enrolled /\ faces = 1 THEN {"enrol", "submit"} ELSE {"submit"}
                  /\ image' = [image EXCEPT !.seen = B(ok, faces)["detector"].output,
                        !.named = IF faces > 0 THEN B(ok, faces)["recognizer"].output ELSE 0]
                  /\ UNCHANGED exit
             ELSE Throw /\ UNCHANGED image
    BY Zenon DEF MainRecognise
  <1>2. DOMAIN backends' = Models
    BY <1>1
  <1>3. /\ B(ok, faces)["detector"]
             = RknnRun(backends["detector"], Pixels(image), "detector" \in ok)
        /\ faces > 0 => B(ok, faces)["recognizer"]
             = RknnRun(backends["recognizer"], Pixels(image), "recognizer" \in ok)
    BY FaceVideoAssumption
  <1> HIDE DEF B
  <1>4. /\ B(ok, faces)["detector"].valid => B(ok, faces)["detector"].output = image.pixels
        /\ faces > 0 /\ B(ok, faces)["recognizer"].valid
           => B(ok, faces)["recognizer"].output = image.pixels
    <2>1. Pixels(image) = image.pixels
      BY ImageFacts
    <2> QED
      BY <1>3, <2>1 DEF RknnRun, Fresh
  <1>5. \/ Throw /\ UNCHANGED image
        \/ /\ mpc' \in {"enrol", "submit"} /\ UNCHANGED exit
           /\ \E n \in {0, image.pixels} :
                 image' = [image EXCEPT !.seen = image.pixels, !.named = n]
    BY <1>1, <1>4
  <1>6. /\ mpc = "recognise"
        /\ UNCHANGED <<mainKeeps, npu, mppVars, processed, enrolled, gallery, latest, previewVars,
                       serverVars>>
    BY DEF MainRecognise
  <1> QED
    BY <1>2, <1>5, <1>6

LEMMA RecognisedIsOfTheFrame ==
  ASSUME MainRecognise, image \in Faithful
  PROVE  image'.sequence = image.sequence
  <1>1. CASE UNCHANGED image
    BY <1>1
  <1>2. CASE \E n \in {0, image.pixels} :
               image' = [image EXCEPT !.seen = image.pixels, !.named = n]
    <2>1. PICK n \in {0, image.pixels} :
            image' = [image EXCEPT !.seen = image.pixels, !.named = n]
      BY <1>2
    <2> QED
      BY <2>1, ImageFacts
  <1> QED
    BY <1>1, <1>2, RecogniseFacts

\* The steps that take no image any further.
ImagesStay ==
    \/ UNCHANGED vars \/ CaptureStops \/ MainConstruct \/ MainStart \/ MainEnrol \/ MainSave
    \/ MainEnds \/ UnwindServer \/ UnwindClients \/ Acceptor \/ \E s \in Slots : Client(s)
    \/ Driver \/ CaptureOpen \/ CaptureAcquire \/ CaptureClose \/ Killed

LEMMA ImageSteps ==
  [Next]_vars =>
     \/ ImagesStay \/ CaptureConvert \/ CapturePublish \/ MainTake \/ MainRecognise \/ MainSubmit
     \/ MainPublish \/ UnwindPreview \/ MainFinish \/ Worker
  BY DEF Next, Over, ImagesStay, Capture, Main

LEMMA StayingImages ==
  ASSUME ImagesStay
  PROVE  /\ UNCHANGED <<picture, image, job, preview, server>>
         /\ \/ UNCHANGED latest
            \/ latest' = [latest EXCEPT !.error = TRUE]
         /\ mpc' \in Seen => mpc \in Seen
         /\ UNCHANGED processed
         /\ mpc' \in Handling \cup {"killed"} => mpc \in Handling \cup {"killed"}
         /\ exit' # 1 => (mpc \in Handling \cup {"killed"} => mpc' \in Handling \cup {"killed"})
         /\ cpc' # "publish" \/ UNCHANGED cpc
         /\ UNCHANGED async /\ (mpc' \in Handling => mpc \in Handling)
         /\ wpc' = wpc \/ wpc' \in {"none", "ended"} \/ (wpc' = "wait" /\ async)
  <1> USE DEF mainVars, captureVars, previewVars, serverVars, elsewhere, Seen, Handling
  <1>1. CASE UNCHANGED vars \/ Driver \/ CaptureStops
    BY <1>1 DEF vars, Driver, CaptureStops
  <1>2. CASE CaptureOpen \/ CaptureAcquire \/ CaptureClose
    BY <1>2 DEF CaptureOpen, CaptureAcquire, CaptureClose, CaptureThrows
  <1>3. CASE MainConstruct \/ MainStart
    BY <1>3 DEF MainConstruct, MainStart, mainKeeps, Throw, Leave
  <1>4. CASE MainEnrol \/ MainSave
    BY <1>4 DEF MainEnrol, MainSave, mainKeeps, Throw, Leave
  <1>5. CASE MainEnds \/ UnwindServer \/ UnwindClients
    BY <1>5 DEF MainEnds, UnwindServer, UnwindClients, mainKeeps, Leave
  <1>6. CASE Killed
    BY <1>6 DEF Killed
  <1>7. CASE Acceptor
    BY <1>7 DEF Acceptor, Accept, AcceptJoin, AcceptEnds, serverKeeps
  <1>8. CASE \E s \in Slots : Client(s)
    BY <1>8 DEF Client, ClientRequest, ClientStream, ClientSend, ClientLeave, clientKeeps, serverKeeps
  <1> QED
    BY <1>1, <1>2, <1>3, <1>4, <1>5, <1>6, <1>7, <1>8 DEF ImagesStay

LEMMA ShownFacts ==
  ASSUME NEW i \in Faithful, ServerPublish(i)
  PROVE  server' = [number |-> server.number + 1, image |-> i]
  <1>1. [i EXCEPT !.pixels = Pixels(i), !.shares = FALSE] = i
    BY ImageFacts
  <1> QED
    BY <1>1 DEF ServerPublish, Shown

LEMMA PublishedTypes ==
  ASSUME server \in [number : Nat, image : Recognised],
         NEW i \in Recognised, UNCHANGED server \/ ServerPublish(i)
  PROVE  server' \in [number : Nat, image : Recognised]
  <1>1. CASE UNCHANGED server
    BY <1>1
  <1>2. CASE ServerPublish(i)
    <2>1. server' = [number |-> server.number + 1, image |-> i]
      BY <1>2, ShownFacts, ImageFacts
    <2>2. server.number + 1 \in Nat
      OBVIOUS
    <2> QED
      BY <2>1, <2>2
  <1> QED
    BY <1>1, <1>2

LEMMA CountFacts ==
  /\ \A n \in Int : n > 0 => n \in Nat
  /\ \A n \in Nat : n + 1 \in Nat
  /\ \A n \in Nat, b \in BOOLEAN : Overwritten(n, b) \in Nat
  BY DEF Overwritten

LEMMA ImageTypesStep ==
  ASSUME CameraTypes, BufferInv, ImageTypes, async \in BOOLEAN, [Next]_vars
  PROVE  ImageTypes'
  <1> USE ImageFacts DEF ImageTypes
  <1>0. /\ latest.image \in Faithful /\ preview.pending \in Recognised /\ server.number \in Nat
        /\ "submit" \in Seen /\ "recognise" \notin Seen /\ "loop" \notin Seen /\ "unwind" \notin Seen
    BY DEF Seen
  <1>1. CASE ImagesStay
    <2>1. latest' \in [image : Faithful, available : BOOLEAN, captured : Nat, dropped : Nat,
                       error : BOOLEAN]
      BY <1>1, StayingImages
    <2> QED
      BY <1>1, <2>1, StayingImages
  <1>2. CASE CaptureConvert
    <2>1. UNCHANGED <<image, job, preview, server, mpc>>
      BY <1>2 DEF CaptureConvert, elsewhere, mainVars, previewVars, serverVars
    <2>2. latest' = latest \/ latest' = [latest EXCEPT !.error = TRUE]
      BY <1>2 DEF CaptureConvert, CaptureThrows
    <2>3. picture' \in Faithful
      <3>1. CASE UNCHANGED picture
        BY <3>1
      <3>2. CASE /\ camera.sequence > 0 /\ CameraRelease("Ok")
                 /\ Convert(camera.sequence, content[camera.out])
        <4>1. camera.sequence \in Nat /\ camera.sequence = content[camera.out]
          <5>1. camera.held
            BY <3>2 DEF CameraRelease
          <5>2. camera.sequence \in Int /\ camera.sequence > 0
            BY <3>2 DEF CameraTypes, Cameras
          <5>3. camera.sequence = content[camera.out]
            BY <5>1 DEF BufferInv
          <5> QED
            BY <5>2, <5>3, CountFacts
        <4>2. picture' = [sequence |-> camera.sequence, pixels |-> content[camera.out],
                          shares |-> FALSE, seen |-> 0, named |-> 0]
          BY <3>2 DEF Convert, NewImage
        <4> QED
          BY <4>1, <4>2 DEF Faithful
      <3> QED
        BY <1>2, <3>1, <3>2 DEF CaptureConvert
    <2>4. latest' \in [image : Faithful, available : BOOLEAN, captured : Nat, dropped : Nat,
                       error : BOOLEAN]
      BY <2>2
    <2> QED
      BY <2>1, <2>3, <2>4
  <1>3. CASE CapturePublish
    <2>1. /\ UNCHANGED <<image, job, preview, server, mpc>> /\ picture' = NoImage
          /\ latest' = [latest EXCEPT !.image = picture, !.available = TRUE, !.captured = @ + 1,
                                      !.dropped = Overwritten(@, latest.available)]
      BY <1>3 DEF CapturePublish, elsewhere, mainVars, previewVars, serverVars
    <2>2. Overwritten(latest.dropped, latest.available) \in Nat /\ latest.captured + 1 \in Nat
      BY CountFacts
    <2>3. latest' \in [image : Faithful, available : BOOLEAN, captured : Nat, dropped : Nat,
                       error : BOOLEAN]
      BY <2>1, <2>2
    <2> QED
      BY <2>1, <2>3
  <1>4. CASE MainTake
    <2>1. /\ UNCHANGED <<picture, job, preview, server>> /\ mpc' \notin Seen
          /\ \/ UNCHANGED <<image, latest>>
             \/ /\ image' = latest.image
                /\ latest' = [latest EXCEPT !.available = FALSE, !.image = NoImage]
      BY <1>0, <1>4 DEF MainTake, mainKeeps, previewVars, serverVars, Throw, Leave
    <2>2. latest' \in [image : Faithful, available : BOOLEAN, captured : Nat, dropped : Nat,
                       error : BOOLEAN]
      BY <2>1
    <2> QED
      BY <1>0, <2>1, <2>2
  <1>5. CASE MainRecognise
    <2>1. UNCHANGED <<picture, latest, job, preview, server>>
      BY <1>5, RecogniseFacts DEF mainKeeps, previewVars, serverVars
    <2>2. CASE \E n \in {0, image.pixels} :
                 image' = [image EXCEPT !.seen = image.pixels, !.named = n]
      <3>0. PICK n \in {0, image.pixels} :
              image' = [image EXCEPT !.seen = image.pixels, !.named = n]
        BY <2>2
      <3>1. image' \in Recognised /\ image' \in Faithful
        BY <3>0
      <3> QED
        BY <2>1, <3>1
    <2>3. CASE Throw /\ UNCHANGED image
      BY <1>0, <2>1, <2>3 DEF Throw, Leave
    <2> QED
      BY <1>5, <2>2, <2>3, RecogniseFacts
  <1>6. CASE MainSubmit
    <2>1. /\ UNCHANGED <<picture, latest, job, server>> /\ mpc = "submit" /\ mpc' \notin Seen
          /\ image' = NoImage
          /\ \/ UNCHANGED preview
             \/ preview' = [preview EXCEPT !.pending = image,
                              !.overwrites = Overwritten(@, preview.pending # NoImage)]
      BY <1>0, <1>6 DEF MainSubmit, mainKeeps, serverVars, Throw, Leave
    <2>2. Overwritten(preview.overwrites, preview.pending # NoImage) \in Nat
      BY CountFacts
    <2>3. preview' \in [pending : Recognised, overwrites : Nat, stopping : BOOLEAN, error : BOOLEAN]
      BY <1>0, <2>1, <2>2
    <2> QED
      BY <2>1, <2>3
  <1>7. CASE MainPublish
    <2>1. /\ UNCHANGED <<picture, latest, job, preview>> /\ mpc = "submit" /\ mpc' \notin Seen
          /\ image' = NoImage /\ (UNCHANGED server \/ ServerPublish(image))
      BY <1>0, <1>7 DEF MainPublish, mainKeeps, previewVars, Throw, Leave
    <2>2. server' \in [number : Nat, image : Recognised]
      BY <1>0, <2>1, PublishedTypes
    <2> QED
      BY <2>1, <2>2
  <1>8. CASE UnwindPreview \/ MainFinish
    <2>1. UNCHANGED <<picture, image, latest, job, server>> /\ mpc' \notin Seen
      BY <1>8 DEF UnwindPreview, MainFinish, mainKeeps, serverVars, Seen
    <2>2. PICK stopping \in BOOLEAN :
            preview' = [preview EXCEPT !.stopping = stopping, !.pending = NoImage]
      BY <1>8 DEF UnwindPreview, MainFinish
    <2> QED
      BY <2>1, <2>2
  <1>9. CASE WorkerTake
    <2>1. /\ UNCHANGED <<picture, image, latest, server, mpc>>
          /\ \/ UNCHANGED <<job, preview>>
             \/ job' = preview.pending /\ preview' = [preview EXCEPT !.pending = NoImage]
      BY <1>9 DEF WorkerTake, workerKeeps, mainVars, captureVars, serverVars
    <2>2. preview' \in [pending : Recognised, overwrites : Nat, stopping : BOOLEAN, error : BOOLEAN]
      BY <2>1
    <2> QED
      BY <1>0, <2>1, <2>2
  <1>10. CASE WorkerEncode \/ WorkerPublish
    <2>1. /\ UNCHANGED <<picture, image, latest, mpc>>
          /\ \/ UNCHANGED preview
             \/ preview' = [preview EXCEPT !.error = TRUE, !.stopping = TRUE, !.pending = NoImage]
      BY <1>10 DEF WorkerEncode, WorkerPublish, WorkerThrows, workerKeeps, mainVars, captureVars
    <2>2. preview' \in [pending : Recognised, overwrites : Nat, stopping : BOOLEAN, error : BOOLEAN]
      BY <2>1
    <2>3. job' \in Recognised
      BY <1>10 DEF WorkerEncode, WorkerPublish
    <2>4. UNCHANGED server \/ ServerPublish(job)
      BY <1>10 DEF WorkerEncode, WorkerPublish, serverVars
    <2>5. server' \in [number : Nat, image : Recognised]
      BY <2>4, PublishedTypes
    <2> QED
      BY <2>1, <2>2, <2>3, <2>5
  <1> QED
    BY <1>1, <1>2, <1>3, <1>4, <1>5, <1>6, <1>7, <1>8, <1>9, <1>10, ImageSteps DEF Worker

\* What a step does to the sequence numbers of the images: it drops some of
\* them, or takes one a place further.
Places == <<server.image.sequence, job.sequence, preview.pending.sequence, image.sequence,
            latest.image.sequence, picture.sequence>>

Dropped ==
    /\ Places'[1] = Places[1]
    /\ Places'[2] \in {0, Places[2]} /\ Places'[3] \in {0, Places[3]}
    /\ Places'[4] \in {0, Places[4]} /\ Places'[5] \in {0, Places[5]}
    /\ Places'[6] \in {0, Places[6]}
Converted ==
    /\ camera.held /\ camera.sequence > 0
    /\ Places' = [Places EXCEPT ![6] = camera.sequence]
Handed == Places' = [Places EXCEPT ![5] = Places[6], ![6] = 0]
Taken == Places' = [Places EXCEPT ![4] = Places[5], ![5] = 0]
Submitted == Places' = [Places EXCEPT ![3] = Places[4], ![4] = 0]
Begun == Places' = [Places EXCEPT ![2] = Places[3], ![3] = 0]
Published == Places' = [Places EXCEPT ![1] = Places[2], ![2] = 0]
PublishedAtOnce ==
    /\ Places[2] = 0 /\ Places[3] = 0
    /\ Places' = [Places EXCEPT ![1] = Places[4], ![4] = 0]

LEMMA PlaceTypes ==
  ASSUME ImageTypes
  PROVE  /\ Places[1] \in Nat /\ Places[2] \in Nat /\ Places[3] \in Nat /\ Places[4] \in Nat
         /\ Places[5] \in Nat /\ Places[6] \in Nat
  <1>1. /\ server.image \in Recognised /\ latest.image \in Faithful
        /\ preview.pending \in Recognised
    BY DEF ImageTypes
  <1> QED
    BY <1>1, ImageFacts DEF ImageTypes, Places

LEMMA PlaceSteps ==
  ASSUME CameraTypes, BufferInv, ImageTypes, PresentInv, [Next]_vars
  PROVE  \/ Dropped \/ (Converted /\ CaptureConvert) \/ Handed \/ Taken \/ Submitted \/ Begun
         \/ Published \/ PublishedAtOnce
  <1>0. /\ NoImage.sequence = 0 /\ image \in Faithful /\ job \in Faithful
        /\ preview.pending \in Faithful /\ latest.image \in Faithful /\ server.number \in Nat
    BY ImageFacts DEF ImageTypes
  <1>1. CASE ImagesStay
    <2>1. latest'.image = latest.image
      BY <1>1, StayingImages DEF ImageTypes
    <2> QED
      BY <1>1, <2>1, StayingImages DEF Dropped, Places
  <1>2. CASE CaptureConvert
    <2>1. UNCHANGED <<image, job, preview, server>>
      BY <1>2 DEF CaptureConvert, elsewhere, mainVars, previewVars, serverVars
    <2>2. latest'.image = latest.image
      BY <1>2 DEF CaptureConvert, CaptureThrows, ImageTypes
    <2>3. CASE UNCHANGED picture
      BY <2>1, <2>2, <2>3 DEF Dropped, Places
    <2>4. CASE /\ camera.sequence > 0 /\ CameraRelease("Ok")
               /\ Convert(camera.sequence, content[camera.out])
      <3>1. camera.held /\ picture'.sequence = camera.sequence
        BY <2>4 DEF CameraRelease, Convert, NewImage
      <3> QED
        BY <1>2, <2>1, <2>2, <2>4, <3>1 DEF Converted, Places
    <2> QED
      BY <1>2, <2>3, <2>4 DEF CaptureConvert
  <1>3. CASE CapturePublish
    <2>1. /\ UNCHANGED <<image, job, preview, server>> /\ picture' = NoImage
          /\ latest'.image = picture
      BY <1>3 DEF CapturePublish, elsewhere, mainVars, previewVars, serverVars, ImageTypes
    <2> QED
      BY <1>0, <2>1 DEF Handed, Places
  <1>4. CASE MainTake
    <2>1. UNCHANGED <<picture, job, preview, server>>
      BY <1>4 DEF MainTake, mainKeeps, previewVars, serverVars
    <2>2. \/ UNCHANGED <<image, latest>>
          \/ image' = latest.image /\ latest'.image = NoImage
      BY <1>4 DEF MainTake, ImageTypes
    <2> QED
      BY <1>0, <2>1, <2>2 DEF Dropped, Taken, Places
  <1>5. CASE MainRecognise
    <2>1. UNCHANGED <<picture, latest, job, preview, server>>
      BY <1>0, <1>5, RecogniseFacts DEF mainKeeps, previewVars, serverVars
    <2>2. image'.sequence = image.sequence
      BY <1>0, <1>5, RecogniseFacts, RecognisedIsOfTheFrame
    <2> QED
      BY <2>1, <2>2 DEF Dropped, Places
  <1>6. CASE MainSubmit
    <2>1. UNCHANGED <<picture, latest, job, server>> /\ image' = NoImage
      BY <1>6 DEF MainSubmit, mainKeeps, serverVars
    <2>2. preview'.pending = preview.pending \/ preview'.pending = image
      BY <1>6 DEF MainSubmit, ImageTypes
    <2> QED
      BY <1>0, <2>1, <2>2 DEF Dropped, Submitted, Places
  <1>7. CASE MainPublish
    <2>1. UNCHANGED <<picture, latest, job, preview>> /\ image' = NoImage /\ ~async
      BY <1>7 DEF MainPublish, mainKeeps, previewVars
    <2>2. UNCHANGED server \/ (ServerPublish(image) /\ mpc = "submit")
      BY <1>7 DEF MainPublish
    <2>3. ServerPublish(image) => server'.image.sequence = image.sequence
      BY <1>0, ShownFacts
    <2> QED
      BY <1>0, <2>1, <2>2, <2>3 DEF PresentInv, Dropped, PublishedAtOnce, Places
  <1>8. CASE UnwindPreview \/ MainFinish
    <2>1. UNCHANGED <<picture, image, latest, job, server>>
      BY <1>8 DEF UnwindPreview, MainFinish, mainKeeps, serverVars
    <2>2. preview'.pending = NoImage
      BY <1>8 DEF UnwindPreview, MainFinish, ImageTypes
    <2> QED
      BY <1>0, <2>1, <2>2 DEF Dropped, Places
  <1>9. CASE WorkerTake
    <2>1. UNCHANGED <<picture, image, latest, server>>
      BY <1>9 DEF WorkerTake, workerKeeps, mainVars, captureVars, serverVars
    <2>2. \/ UNCHANGED <<job, preview>>
          \/ job' = preview.pending /\ preview'.pending = NoImage
      BY <1>9 DEF WorkerTake, ImageTypes
    <2> QED
      BY <1>0, <2>1, <2>2 DEF Dropped, Begun, Places
  <1>10. CASE WorkerEncode
    <2>1. UNCHANGED <<picture, image, latest, server>>
      BY <1>10 DEF WorkerEncode, workerKeeps, mainVars, captureVars, serverVars
    <2>2. preview'.pending \in {preview.pending, NoImage}
      BY <1>10 DEF WorkerEncode, WorkerThrows, ImageTypes
    <2>3. job' = job \/ job' = NoImage
      BY <1>0, <1>10, ImageFacts DEF WorkerEncode
    <2> QED
      BY <1>0, <2>1, <2>2, <2>3 DEF Dropped, Places
  <1>11. CASE WorkerPublish
    <2>1. UNCHANGED <<picture, image, latest>> /\ job' = NoImage
      BY <1>11 DEF WorkerPublish, workerKeeps, mainVars, captureVars
    <2>2. \/ ServerPublish(job) /\ UNCHANGED preview
          \/ UNCHANGED server /\ preview'.pending = NoImage
      BY <1>11 DEF WorkerPublish, WorkerThrows, ImageTypes
    <2>3. ServerPublish(job) => server'.image.sequence = job.sequence
      BY <1>0, ShownFacts
    <2> QED
      BY <1>0, <2>1, <2>2, <2>3 DEF Dropped, Published, Places
  <1> QED
    BY <1>1, <1>2, <1>3, <1>4, <1>5, <1>6, <1>7, <1>8, <1>9, <1>10, <1>11, ImageSteps DEF Worker

\* The places of the new state, one by one.
LEMMA NewPlaces ==
  /\ Places'[1] = server'.image.sequence /\ Places'[2] = job'.sequence
  /\ Places'[3] = preview'.pending.sequence /\ Places'[4] = image'.sequence
  /\ Places'[5] = latest'.image.sequence /\ Places'[6] = picture'.sequence
  /\ Places[1] = server.image.sequence /\ Places[2] = job.sequence
  /\ Places[3] = preview.pending.sequence /\ Places[4] = image.sequence
  /\ Places[5] = latest.image.sequence /\ Places[6] = picture.sequence
  /\ DOMAIN Places = 1 .. 6
  BY DEF Places

\* A camera frame that is converted is newer than every image.
LEMMA FlowStep ==
  ASSUME CameraTypes, BufferInv, ImageTypes, PresentInv, FlowInv, NewerInv, [Next]_vars
  PROVE  /\ FlowInv'
         /\ \A n \in Int :
               n > 0 /\ AllBefore(n) /\ (camera.held /\ CaptureConvert => camera.sequence < n)
               => /\ server'.image.sequence < n /\ job'.sequence < n
                  /\ preview'.pending.sequence < n /\ image'.sequence < n
                  /\ latest'.image.sequence < n /\ picture'.sequence < n
  <1> USE PlaceTypes, NewPlaces DEF FlowInv, AllBefore
  <1>1. CASE Dropped
    <2>1. /\ server'.image.sequence = server.image.sequence
          /\ job'.sequence = 0 \/ job'.sequence = job.sequence
          /\ preview'.pending.sequence = 0 \/ preview'.pending.sequence = preview.pending.sequence
          /\ image'.sequence = 0 \/ image'.sequence = image.sequence
          /\ latest'.image.sequence = 0 \/ latest'.image.sequence = latest.image.sequence
          /\ picture'.sequence = 0 \/ picture'.sequence = picture.sequence
      BY <1>1 DEF Dropped
    <2>2. /\ server.image.sequence \in Nat /\ job.sequence \in Nat
          /\ preview.pending.sequence \in Nat /\ image.sequence \in Nat
          /\ latest.image.sequence \in Nat /\ picture.sequence \in Nat
      OBVIOUS
    <2>3. FlowInv'
      BY <2>1, <2>2
    <2> QED
      BY <2>1, <2>2, <2>3
  <1>2. CASE Converted /\ CaptureConvert
    <2>1. AllBefore(camera.sequence) /\ camera.sequence \in Int
      <3> HIDE DEF AllBefore, FlowInv
      <3>1. camera.held /\ camera.sequence > 0 /\ camera.sequence \in Int
        BY <1>2 DEF Converted, CameraTypes, Cameras
      <3>2. Number(camera.sequence) = camera.sequence
        BY <3>1 DEF Number
      <3> QED
        BY <3>1, <3>2 DEF NewerInv
    <2> QED
      BY <1>2, <2>1 DEF Converted
  <1>3. CASE Handed
    BY <1>3 DEF Handed
  <1>4. CASE Taken
    BY <1>4 DEF Taken
  <1>5. CASE Submitted
    BY <1>5 DEF Submitted
  <1>6. CASE Begun
    BY <1>6 DEF Begun
  <1>7. CASE Published
    BY <1>7 DEF Published
  <1>8. CASE PublishedAtOnce
    BY <1>8 DEF PublishedAtOnce
  <1> QED
    BY <1>1, <1>2, <1>3, <1>4, <1>5, <1>6, <1>7, <1>8, PlaceSteps

LEMMA NumberFacts ==
  /\ \A n \in Int : Number(n) \in Nat /\ n <= Number(n)
  /\ \A n \in Nat : Number(n) = n /\ Number(-n) = n
  BY DEF Number

LEMMA NewerStep ==
  ASSUME CameraTypes, CameraInv, BufferInv, ImageTypes, PresentInv, FlowInv, NewerInv, [Next]_vars
  PROVE  NewerInv'
  <1> DEFINE Later(n) ==
        /\ server'.image.sequence < n /\ job'.sequence < n
        /\ preview'.pending.sequence < n /\ image'.sequence < n
        /\ latest'.image.sequence < n /\ picture'.sequence < n
  <1>1. /\ \A n \in Int : n > 0 /\ AllBefore(n) /\ ~CaptureConvert => Later(n)
        /\ \A n \in Int : n > 0 /\ AllBefore(n) /\ camera.sequence < n => Later(n)
    BY FlowStep
  <1>2. /\ produced \in Nat /\ camera.sequence \in Int
        /\ \A i \in DOMAIN filled : content[filled[i]] \in Int
    BY CameraAssumption DEF CameraTypes, Cameras
  <1>3. /\ \A i \in DOMAIN filled : /\ Number(content[filled[i]]) \in Nat
                                    /\ Number(content[filled[i]]) > 0
        /\ camera.held => Number(camera.sequence) \in Nat /\ Number(camera.sequence) > 0
        /\ camera.sequence <= Number(camera.sequence)
    <2>1. \A n \in Nat : AllBefore(n) => n > 0
      BY PlaceTypes DEF AllBefore, Places
    <2> QED
      BY <1>2, <2>1, NumberFacts DEF NewerInv
  <1>4. Later(produced + 1)
    <2>1. AllBefore(produced + 1) /\ produced + 1 \in Int /\ produced + 1 > 0
      BY <1>2 DEF NewerInv
    <2>2. camera.held => camera.sequence < produced + 1
      BY <1>2, <1>3 DEF NewerInv
    <2>3. CaptureConvert => camera.held
      BY DEF CaptureConvert, CameraRelease
    <2> HIDE DEF Later
    <2> QED
      BY <1>1, <2>1, <2>2, <2>3
  <1>5. CASE CaptureConvert
    <2>1. PICK status : CameraRelease(status)
      BY <1>5 DEF CaptureConvert
    <2>2. /\ camera.held /\ ~camera'.held /\ filled' = filled /\ produced' = produced
          /\ \A i \in DOMAIN filled : content'[filled[i]] = content[filled[i]]
      BY <2>1, CameraReleases DEF CameraInv
    <2>3. \A i \in DOMAIN filled : /\ AllBefore(Number(content[filled[i]]))
                                   /\ camera.sequence < Number(content[filled[i]])
      BY <1>2, <1>3, <2>2 DEF NewerInv
    <2>4. \A i \in DOMAIN filled : Later(Number(content[filled[i]]))
      <3> HIDE DEF Later
      <3> QED
        BY <1>1, <1>3, <2>3
    <2> QED
      BY <1>4, <2>2, <2>4 DEF NewerInv, AllBefore
  <1> SUFFICES ASSUME ~CaptureConvert PROVE NewerInv'
    BY <1>5
  <1>6. /\ \A i \in DOMAIN filled : Later(Number(content[filled[i]]))
        /\ camera.held => Later(Number(camera.sequence))
    <2> HIDE DEF Later
    <2> QED
      BY <1>1, <1>3 DEF NewerInv
  <1>7. CASE Elsewhere
    BY <1>4, <1>6, <1>7, ElsewhereKeepsCamera DEF cameraVars, NewerInv, AllBefore
  <1>8. CASE CaptureOpen \/ CaptureClose \/ Killed
    <2>1. /\ \E status : CameraOpen(status)
             /\ camera = NoCamera /\ fds = {0} /\ maps = {}
          \/ V4l2Close(camera, fds, maps)
          \/ V4l2Close(camera, {0}, {})
      <3>1. CASE CaptureOpen
        <4>1. cpc = "open" /\ \E status : CameraOpen(status)
          BY <3>1 DEF CaptureOpen
        <4>2. camera = NoCamera /\ fds = {0} /\ maps = {}
          BY <4>1 DEF CameraInv, CameraOwns, NoCamera, OwnFds, Descriptors
        <4> QED
          BY <4>1, <4>2
      <3> QED
        BY <1>8, <3>1 DEF CaptureClose, CameraClose, Killed
    <2>2. filled' = <<>> /\ produced' = produced /\ ~camera'.held
      BY <2>1, CameraOpens, CameraCloses DEF CameraInv, NoCamera
    <2>3. DOMAIN filled' = {}
      BY <2>2
    <2> QED
      BY <1>4, <2>2, <2>3 DEF NewerInv, AllBefore
  <1>9. CASE CaptureAcquire
    <2>1. CASE UNCHANGED cameraVars
      BY <1>4, <1>6, <2>1 DEF cameraVars, NewerInv, AllBefore
    <2>2. CASE \E status : CameraAcquire(status)
      <3>1. /\ UNCHANGED <<content, produced>> /\ ~camera.held
            /\ \/ ~camera'.held /\ filled' = filled
               \/ ~camera'.held /\ filled # <<>> /\ filled' = Tail(filled)
               \/ /\ camera'.held /\ filled # <<>> /\ filled' = Tail(filled)
                  /\ camera'.sequence = content[Head(filled)]
        BY <2>2, CameraAcquires DEF CameraInv
      <3>2. filled # <<>> => /\ Head(filled) = filled[1] /\ 1 \in DOMAIN filled
                             /\ \A i \in DOMAIN Tail(filled) :
                                   /\ i \in Nat /\ i # 0 /\ i + 1 \in DOMAIN filled
                                   /\ Tail(filled)[i] = filled[i + 1]
        BY DEF CameraTypes
      <3>3. CASE ~camera'.held /\ filled' = filled
        BY <1>4, <1>6, <3>1, <3>3 DEF NewerInv, AllBefore
      <3>4. CASE filled # <<>> /\ filled' = Tail(filled)
        <4>1. \A i \in DOMAIN filled' : /\ i \in Nat /\ i # 0 /\ i + 1 \in DOMAIN filled
                                        /\ content'[filled'[i]] = content[filled[i + 1]]
          BY <3>1, <3>2, <3>4
        <4>2. /\ \A i \in DOMAIN filled' : /\ Later(Number(content'[filled'[i]]))
                                           /\ Number(content'[filled'[i]]) <= produced
              /\ \A i, j \in DOMAIN filled' :
                    i < j => Number(content'[filled'[i]]) < Number(content'[filled'[j]])
          <5> HIDE DEF Later
          <5>1. \A i, j \in Nat : i < j => i + 1 < j + 1
            OBVIOUS
          <5> QED
            BY <1>6, <4>1, <5>1 DEF NewerInv
        <4>3. camera'.held => /\ Later(Number(camera'.sequence))
                              /\ Number(camera'.sequence) <= produced
                              /\ \A i \in DOMAIN filled' :
                                    Number(camera'.sequence) < Number(content'[filled'[i]])
          <5> HIDE DEF Later
          <5>1. \A i \in Nat : i # 0 => 1 < i + 1
            OBVIOUS
          <5> SUFFICES ASSUME camera'.held
                       PROVE  /\ Later(Number(camera'.sequence))
                              /\ Number(camera'.sequence) <= produced
                              /\ \A i \in DOMAIN filled' :
                                    Number(camera'.sequence) < Number(content'[filled'[i]])
            OBVIOUS
          <5>2. camera'.sequence = content[filled[1]] /\ 1 \in DOMAIN filled
            BY <3>1, <3>2, <3>4
          <5> QED
            BY <1>6, <4>1, <5>1, <5>2 DEF NewerInv
        <4> QED
          BY <1>4, <3>1, <4>2, <4>3 DEF NewerInv, AllBefore
      <3> QED
        BY <3>1, <3>3, <3>4
    <2> QED
      BY <1>9, <2>1, <2>2 DEF CaptureAcquire
  <1>10. CASE Driver
    <2>1. /\ UNCHANGED camera /\ produced' = produced + 1
          /\ \A i \in DOMAIN filled' :
               \/ /\ i \in DOMAIN filled /\ filled'[i] = filled[i]
                  /\ content'[filled'[i]] = content[filled[i]]
               \/ /\ i = Len(filled) + 1 /\ content'[filled'[i]] \in {produced + 1, -(produced + 1)}
      BY <1>10, CameraFills DEF Driver, CameraInv
    <2>2. \A i \in DOMAIN filled :
             Number(content[filled[i]]) \in Nat /\ Number(content[filled[i]]) <= produced
      BY <1>3 DEF NewerInv
    <2>3. Number(produced + 1) = produced + 1 /\ Number(-(produced + 1)) = produced + 1
      BY <1>2, NumberFacts
    <2>4. \A i \in DOMAIN filled : i < Len(filled) + 1 /\ i \in Nat
      BY DEF CameraTypes
    <2>5. \A i \in DOMAIN filled' :
             /\ Later(Number(content'[filled'[i]])) /\ Number(content'[filled'[i]]) <= produced'
             /\ camera.held => Number(camera.sequence) < Number(content'[filled'[i]])
      <3> HIDE DEF Later
      <3>1. camera.held => Number(camera.sequence) < produced + 1
        BY <1>2, <1>3 DEF NewerInv
      <3>2. \A i \in DOMAIN filled : Number(content[filled[i]]) <= produced + 1
        BY <1>2, <2>2
      <3> QED
        BY <1>2, <1>4, <1>6, <2>1, <2>3, <3>1, <3>2 DEF NewerInv
    <2>6. ASSUME NEW i \in DOMAIN filled', NEW j \in DOMAIN filled', i < j
          PROVE  Number(content'[filled'[i]]) < Number(content'[filled'[j]])
      <3> HIDE DEF Later
      <3>1. \A k \in DOMAIN filled : Number(content[filled[k]]) < produced + 1
        BY <1>2, <2>2
      <3>2. CASE i \in DOMAIN filled /\ j \in DOMAIN filled
        BY <2>1, <2>4, <2>6, <3>2 DEF NewerInv
      <3>3. CASE i \in DOMAIN filled /\ j = Len(filled) + 1
        BY <2>1, <2>3, <2>4, <3>1, <3>3
      <3>4. CASE i = Len(filled) + 1
        BY <2>1, <2>4, <2>6, <3>4 DEF CameraTypes
      <3> QED
        BY <2>1, <3>2, <3>3, <3>4
    <2>7. Later(produced' + 1)
      <3>1. AllBefore(produced + 2) /\ produced + 2 \in Int /\ produced + 2 > 0
        BY <1>2, PlaceTypes, NewPlaces DEF NewerInv, AllBefore
      <3>2. produced' + 1 = produced + 2
        BY <1>2, <2>1
      <3> HIDE DEF Later
      <3> QED
        BY <1>1, <3>1, <3>2
    <2>8. camera.held => Later(Number(camera.sequence)) /\ Number(camera.sequence) <= produced'
      BY <1>2, <1>3, <1>6, <2>1 DEF NewerInv
    <2> QED
      BY <2>1, <2>5, <2>6, <2>7, <2>8 DEF NewerInv, AllBefore
  <1> QED
    BY <1>7, <1>8, <1>9, <1>10, Steps

\* A recognised image other than NoImage is of a frame.
LEMMA WaitingHasFrame ==
  ASSUME NEW i \in Recognised
  PROVE  /\ i # NoImage => i.sequence > 0
         /\ i.sequence = 0 => i = NoImage
  <1>1. i = [sequence |-> i.sequence, pixels |-> i.sequence, shares |-> FALSE,
             seen |-> i.sequence, named |-> i.named]
        /\ i.sequence \in Nat /\ i.named \in {0, i.sequence}
    BY DEF Recognised, Faithful
  <1> QED
    BY <1>1 DEF NoImage, NewImage

\* Of the steps that take no image any further, which end the worker and which
\* start it.
LEMMA StayingWorker ==
  ASSUME ImagesStay, CameraInv, MainTypes, PresentInv
  PROVE  /\ wpc' \in {"none", "wait"} => wpc \in {"none", "wait"}
         /\ wpc = "ended" => wpc' = "ended"
  <1>1. CASE MainStart
    BY <1>1 DEF MainStart, CameraInv
  <1>2. CASE Killed
    BY <1>2 DEF Killed
  <1>3. CASE ~MainStart /\ ~Killed
    <2>1. UNCHANGED wpc
      <3> USE DEF elsewhere, serverKeeps, clientKeeps, previewVars
      <3>1. CASE UNCHANGED vars \/ Driver \/ CaptureStops
        BY <3>1 DEF vars, Driver, CaptureStops
      <3>2. CASE CaptureOpen \/ CaptureAcquire \/ CaptureClose
        BY <3>2 DEF CaptureOpen, CaptureAcquire, CaptureClose
      <3>3. CASE MainConstruct \/ MainEnrol \/ MainSave \/ MainEnds
        BY <3>3 DEF MainConstruct, MainEnrol, MainSave, MainEnds
      <3>4. CASE UnwindServer \/ UnwindClients
        BY <3>4 DEF UnwindServer, UnwindClients
      <3>5. CASE Acceptor
        BY <3>5 DEF Acceptor, Accept, AcceptJoin, AcceptEnds
      <3>6. CASE \E s \in Slots : Client(s)
        BY <3>6 DEF Client, ClientRequest, ClientStream, ClientSend, ClientLeave
      <3> QED
        BY <1>3, <3>1, <3>2, <3>3, <3>4, <3>5, <3>6 DEF ImagesStay
    <2> QED
      BY <2>1
  <1> QED
    BY <1>1, <1>2, <1>3

LEMMA PresentStep ==
  ASSUME CameraTypes, CameraInv, BufferInv, ImageTypes, MainTypes, PresentInv, [Next]_vars
  PROVE  PresentInv'
  <1> USE DEF PresentInv
  <1>0. /\ NoImage.sequence = 0 /\ latest.image.sequence \in Nat /\ async \in BOOLEAN
        /\ "loop" \notin Handling /\ "unwind" \notin Handling /\ "unwindServer" \notin Handling
        /\ "submit" \in Handling /\ "recognise" \in Handling /\ "finish" \notin Handling
        /\ "wait" \notin Encoding /\ "ended" \notin Encoding /\ "none" \notin Encoding
        /\ "encode" \in Encoding /\ "publish" \in Encoding
    BY ImageFacts DEF ImageTypes, MainTypes, Handling, Encoding
  <1>1. CASE ImagesStay
    <2>1. latest'.image = latest.image /\ latest'.available = latest.available
      BY <1>1, StayingImages DEF ImageTypes
    <2>2. /\ wpc' \in {"none", "wait"} => wpc \in {"none", "wait"}
          /\ wpc = "ended" => wpc' = "ended"
      BY <1>1, StayingWorker
    <2>3. /\ UNCHANGED <<picture, image, job, preview, async>>
          /\ cpc' # "publish" \/ UNCHANGED cpc
          /\ mpc' \in Handling => mpc \in Handling
          /\ wpc' = wpc \/ wpc' \in {"none", "ended"} \/ (wpc' = "wait" /\ async)
      BY <1>1, StayingImages
    <2> QED
      BY <1>0, <2>1, <2>2, <2>3
  <1>2. CASE CaptureConvert
    <2>1. UNCHANGED <<image, job, preview, server, mpc, wpc, async>>
      BY <1>2 DEF CaptureConvert, elsewhere, mainVars, previewVars, serverVars
    <2>2. latest'.image = latest.image /\ latest'.available = latest.available
      BY <1>2 DEF CaptureConvert, CaptureThrows, ImageTypes
    <2>3. cpc' = "publish" => picture'.sequence > 0
      BY <1>2 DEF CaptureConvert, CaptureThrows, Convert, NewImage
    <2> QED
      BY <2>1, <2>2, <2>3
  <1>3. CASE CapturePublish
    <2>1. /\ UNCHANGED <<image, job, preview, server, mpc, wpc, async>> /\ cpc' # "publish"
          /\ latest'.image = picture /\ cpc = "publish"
      BY <1>3 DEF CapturePublish, elsewhere, mainVars, previewVars, serverVars, ImageTypes
    <2> QED
      BY <2>1
  <1>4. CASE MainTake
    <2>1. UNCHANGED <<picture, job, preview, server, cpc, wpc, async>>
      BY <1>4 DEF MainTake, mainKeeps, previewVars, serverVars
    <2>2. \/ UNCHANGED latest /\ mpc' \notin Handling
          \/ latest.available /\ image' = latest.image /\ ~latest'.available
      BY <1>0, <1>4 DEF MainTake, ImageTypes, Throw, Leave
    <2> QED
      BY <2>1, <2>2
  <1>5. CASE MainRecognise
    <2>1. UNCHANGED <<picture, latest, job, preview, server, cpc, wpc, async>> /\ mpc \in Handling
      BY <1>0, <1>5, RecogniseFacts DEF mainKeeps, previewVars, serverVars, ImageTypes
    <2>2. image'.sequence = image.sequence
      BY <1>5, RecogniseFacts, RecognisedIsOfTheFrame DEF ImageTypes
    <2> QED
      BY <2>1, <2>2
  <1>6. CASE MainSubmit
    <2>1. UNCHANGED <<picture, latest, job, server, cpc, wpc, async>> /\ async /\ mpc' \notin Handling
      BY <1>0, <1>6 DEF MainSubmit, mainKeeps, serverVars, Throw, Leave
    <2>2. \/ UNCHANGED preview
          \/ ~preview.error /\ ~preview.stopping /\ ~preview'.error /\ ~preview'.stopping
      BY <1>6 DEF MainSubmit, ImageTypes
    <2> QED
      BY <2>1, <2>2
  <1>7. CASE MainPublish
    <2>1. UNCHANGED <<picture, latest, job, preview, cpc, wpc, async>> /\ mpc' \notin Handling
      BY <1>0, <1>7 DEF MainPublish, mainKeeps, previewVars, Throw, Leave
    <2> QED
      BY <2>1
  <1>8. CASE UnwindPreview \/ MainFinish
    <2>1. UNCHANGED <<picture, image, latest, job, server, cpc, wpc, async>> /\ mpc' \notin Handling
      BY <1>0, <1>8 DEF UnwindPreview, MainFinish, mainKeeps, serverVars
    <2>2. preview'.pending = NoImage /\ preview'.error = preview.error
      BY <1>8 DEF UnwindPreview, MainFinish, ImageTypes
    <2>3. preview'.error => preview'.stopping
      BY <1>8 DEF UnwindPreview, MainFinish, ImageTypes
    <2> QED
      BY <2>1, <2>2, <2>3
  <1>9. CASE WorkerTake
    <2>1. UNCHANGED <<picture, image, latest, server, mpc, cpc, async>> /\ async
      BY <1>9 DEF WorkerTake, workerKeeps, mainVars, captureVars, serverVars
    <2>2. \/ wpc' = "ended" /\ UNCHANGED <<job, preview>>
          \/ /\ wpc' = "encode" /\ job' = preview.pending /\ preview.pending # NoImage
             /\ preview'.pending = NoImage /\ ~preview'.error
      BY <1>0, <1>9 DEF WorkerTake, ImageTypes
    <2>3. preview.pending # NoImage => preview.pending.sequence > 0
      BY WaitingHasFrame DEF ImageTypes
    <2> QED
      BY <1>0, <2>1, <2>2, <2>3
  <1>10. CASE WorkerEncode
    <2>1. UNCHANGED <<picture, image, latest, server, mpc, cpc, async>> /\ async /\ wpc \in Encoding
      BY <1>0, <1>10 DEF WorkerEncode, workerKeeps, mainVars, captureVars, serverVars
    <2>2. \/ job' = job /\ wpc' = "publish" /\ UNCHANGED preview
          \/ /\ wpc' = "ended" /\ preview'.stopping /\ preview'.pending = NoImage
             /\ job' = NoImage
      BY <1>0, <1>10, ImageFacts DEF WorkerEncode, WorkerThrows, ImageTypes
    <2> QED
      BY <1>0, <2>1, <2>2
  <1>11. CASE WorkerPublish
    <2>1. UNCHANGED <<picture, image, latest, mpc, cpc, async>> /\ async /\ job' = NoImage
      BY <1>0, <1>11 DEF WorkerPublish, workerKeeps, mainVars, captureVars
    <2>2. \/ wpc' = "wait" /\ UNCHANGED preview
          \/ wpc' = "ended" /\ preview'.stopping /\ preview'.pending = NoImage
      BY <1>11 DEF WorkerPublish, WorkerThrows, ImageTypes
    <2>3. wpc \in Encoding
      BY <1>0, <1>11 DEF WorkerPublish
    <2> QED
      BY <1>0, <2>1, <2>2, <2>3
  <1> QED
    BY <1>1, <1>2, <1>3, <1>4, <1>5, <1>6, <1>7, <1>8, <1>9, <1>10, <1>11, ImageSteps DEF Worker

-----------------------------------------------------------------------------
(* main() and the threads.                                                  *)

\* The steps of the other threads leave main()'s state alone.
Others ==
    \/ UNCHANGED vars \/ Driver \/ Capture \/ Worker \/ Acceptor \/ \E s \in Slots : Client(s)

LEMMA OtherSteps == [Next]_vars => Others \/ Main
  BY DEF Next, Over, Others

LEMMA OthersKeepMain ==
  ASSUME Others
  PROVE  UNCHANGED mainVars
  <1>1. CASE UNCHANGED vars \/ Driver
    BY <1>1 DEF vars, Driver, elsewhere
  <1>2. CASE Capture
    BY <1>2 DEF Capture, CaptureOpen, CaptureAcquire, CaptureStops, CaptureConvert, CapturePublish,
                CaptureClose, elsewhere
  <1>3. CASE Worker
    BY <1>3 DEF Worker, WorkerTake, WorkerEncode, WorkerPublish, workerKeeps
  <1>4. CASE Acceptor
    BY <1>4 DEF Acceptor, Accept, AcceptJoin, AcceptEnds, serverKeeps
  <1>5. CASE \E s \in Slots : Client(s)
    BY <1>5 DEF Client, ClientRequest, ClientStream, ClientSend, ClientLeave, clientKeeps, serverKeeps
  <1> QED
    BY <1>1, <1>2, <1>3, <1>4, <1>5 DEF Others

\* Where each thread goes.
LEMMA CountersTyped ==
  ASSUME MainTypes, [Next]_vars
  PROVE  /\ mpc' \in {"setup", "start", "loop", "finish", "killed"} \cup Handling \cup Unwinding
         /\ cpc' \in {"none", "open", "loop", "convert", "publish", "close", "ended"}
         /\ wpc' \in {"none", "wait", "ended"} \cup Encoding
         /\ apc' \in {"none", "poll", "join", "ended"}
  <1> USE DEF MainTypes, Handling, Unwinding, Encoding
  <1>1. CASE MainStart \/ Killed
    BY <1>1 DEF MainStart, Killed, Throw, Leave
  <1>2. CASE Capture /\ UNCHANGED <<mpc, wpc, apc>>
    BY <1>2 DEF Capture, CaptureOpen, CaptureAcquire, CaptureStops, CaptureConvert, CapturePublish,
                CaptureClose, CaptureThrows
  <1>3. CASE Main /\ ~Killed /\ UNCHANGED <<cpc, wpc, apc>>
    BY <1>3 DEF Main, MainConstruct, MainStart, MainTake, MainRecognise, MainEnrol, MainSave,
                MainSubmit, MainPublish, MainEnds, UnwindPreview, UnwindServer, UnwindClients,
                MainFinish, Throw, Leave
  <1>4. CASE Worker /\ UNCHANGED <<mpc, cpc, apc>>
    BY <1>4 DEF Worker, WorkerTake, WorkerEncode, WorkerPublish, WorkerThrows
  <1>5. CASE Acceptor /\ UNCHANGED <<mpc, cpc, wpc>>
    BY <1>5 DEF Acceptor, Accept, AcceptJoin, AcceptEnds
  <1> QED
    BY <1>1, <1>2, <1>3, <1>4, <1>5, ProgramCounters

LEMMA MainTypesStep ==
  ASSUME MainTypes, GalleryInv, [Next]_vars
  PROVE  MainTypes'
  <1> DEFINE Data ==
        /\ exit \in {None, 0, 1} /\ processed \in Nat
        /\ async \in BOOLEAN /\ enrolled \in BOOLEAN
        /\ gallery \in [samples : Nat, file : Nat, temp : Nat \cup {None}]
  <1>0. Data
    BY DEF MainTypes
  <1>1. Data'
    <2>1. CASE Others
      BY <1>0, <2>1, OthersKeepMain DEF mainVars
    <2>2. CASE MainConstruct
      BY <1>0, <2>2 DEF MainConstruct, mainKeeps, Throw, Leave
    <2>3. CASE MainStart
      BY <1>0, <2>3 DEF MainStart, Throw, Leave
    <2>4. CASE MainTake
      BY <1>0, <2>4 DEF MainTake, mainKeeps, Throw, Leave
    <2>5. CASE MainRecognise
      <3>1. UNCHANGED <<processed, async, enrolled, gallery>>
        BY <2>5 DEF MainRecognise, mainKeeps
      <3>2. exit' \in {exit, 1}
        BY <2>5, Zenon DEF MainRecognise, Throw, Leave
      <3> QED
        BY <1>0, <3>1, <3>2
    <2>6. CASE MainEnrol
      <3>1. UNCHANGED <<processed, async, enrolled>> /\ exit' \in {exit, 1}
        BY <2>6 DEF MainEnrol, mainKeeps, Throw, Leave
      <3>2. UNCHANGED gallery \/ gallery' = [gallery EXCEPT !.samples = @ + 1, !.temp = 0]
        BY <2>6 DEF MainEnrol
      <3>3. gallery.samples + 1 \in Nat /\ 0 \in Nat \cup {None}
        BY <1>0
      <3>4. gallery' \in [samples : Nat, file : Nat, temp : Nat \cup {None}]
        BY <1>0, <3>2, <3>3
      <3> QED
        BY <1>0, <3>1, <3>4
    <2>7. CASE MainSave
      <3>1. UNCHANGED <<processed, async>> /\ exit' \in {exit, 1}
        BY <2>7 DEF MainSave, mainKeeps, Throw, Leave
      <3>2. enrolled' \in BOOLEAN
        <4>1. enrolled' = enrolled \/ enrolled' = (gallery.samples - 1 >= EnrollSamples)
          BY <2>7 DEF MainSave
        <4>2. (gallery.samples - 1 >= EnrollSamples) \in BOOLEAN
          OBVIOUS
        <4>3. CASE enrolled' = enrolled
          BY <1>0, <4>3
        <4>4. CASE enrolled' = (gallery.samples - 1 >= EnrollSamples)
          BY <4>2, <4>4, Zenon
        <4> QED
          BY <4>1, <4>3, <4>4
      <3>3. PICK file \in Nat, temp \in Nat \cup {None} :
              gallery' = [gallery EXCEPT !.file = file, !.temp = temp]
        <4>1. gallery.file \in Nat /\ gallery.samples \in Nat /\ None \in Nat \cup {None}
              /\ gallery.samples \in Nat \cup {None} /\ (mpc = "rename" => gallery.temp \in Nat)
          BY <1>0 DEF GalleryInv
        <4>2. CASE \E n \in {gallery.samples, 0} : gallery' = [gallery EXCEPT !.temp = n]
          BY <1>0, <4>1, <4>2
        <4>3. CASE mpc = "rename" /\ gallery' = [gallery EXCEPT !.file = gallery.temp, !.temp = None]
          BY <1>0, <4>1, <4>3
        <4>4. CASE gallery' = [gallery EXCEPT !.temp = None]
          BY <1>0, <4>1, <4>4
        <4> QED
          BY <2>7, <4>2, <4>3, <4>4 DEF MainSave
      <3>4. gallery' \in [samples : Nat, file : Nat, temp : Nat \cup {None}]
        BY <1>0, <3>3
      <3> QED
        BY <1>0, <3>1, <3>2, <3>4
    <2>8. CASE MainSubmit
      BY <1>0, <2>8 DEF MainSubmit, mainKeeps, Throw, Leave
    <2>9. CASE MainPublish
      BY <1>0, <2>9 DEF MainPublish, mainKeeps, Throw, Leave
    <2>10. CASE MainEnds
      BY <1>0, <2>10 DEF MainEnds, mainKeeps, Leave
    <2>11. CASE UnwindPreview \/ UnwindServer \/ UnwindClients \/ MainFinish
      BY <1>0, <2>11 DEF UnwindPreview, UnwindServer, UnwindClients, MainFinish, mainKeeps
    <2>12. CASE Killed
      BY <1>0, <2>12 DEF Killed
    <2> QED
      BY <2>1, <2>2, <2>3, <2>4, <2>5, <2>6, <2>7, <2>8, <2>9, <2>10, <2>11, <2>12, OtherSteps
      DEF Main
  <1> QED
    BY <1>1, CountersTyped DEF MainTypes

-----------------------------------------------------------------------------
(* The accounts.                                                            *)

\* The numbers the accounts are kept in.
LEMMA AccountTypes ==
  ASSUME CameraTypes, ImageTypes, MainTypes
  PROVE  /\ latest.captured \in Nat /\ latest.dropped \in Nat /\ latest.available \in BOOLEAN
         /\ preview.overwrites \in Nat /\ server.number \in Nat /\ processed \in Nat
         /\ produced \in Nat /\ Len(filled) \in Nat /\ camera.held \in BOOLEAN
  BY CameraAssumption DEF CameraTypes, Cameras, ImageTypes, MainTypes

LEMMA OneFacts == \A b : One(b) \in {0, 1}
  BY DEF One

\* The accounts as sums are those of the specification, which are differences.
LEMMA Accounts ==
  ASSUME CameraTypes, ImageTypes, MainTypes
  PROVE  FramesAreAccounted <=> MainAccount /\ PreviewAccount
  <1>1. /\ latest.captured \in Nat /\ latest.dropped \in Nat /\ preview.overwrites \in Nat
        /\ server.number \in Nat /\ processed \in Nat
    BY AccountTypes
  <1>3. FramesAreAccounted <=>
          /\ latest.captured - latest.dropped - processed - One(latest.available)
                - One(mpc \in Handling \cup {"killed"}) \in 0 .. One(exit = 1)
          /\ processed - preview.overwrites - server.number
                - One(preview.pending # NoImage) - One(job # NoImage)
              \in 0 .. One(async /\ preview.stopping) + One(preview.error) + One(exit = 1)
    <2>1. Handling \cup {"killed"} =
             {"recognise", "enrol", "save", "rename", "submit", "killed"}
      BY DEF Handling
    <2> QED
      BY <2>1 DEF FramesAreAccounted, One
  <1>4. \A c, d, p, v, h, e \in Nat :
           c - d - p - v - h \in 0 .. e <=> d + p + v + h <= c /\ c <= d + p + v + h + e
    OBVIOUS
  <1>5. \A b : One(b) \in Nat
    BY OneFacts
  <1>6. One(async /\ preview.stopping) + One(preview.error) + One(exit = 1) \in Nat
    BY OneFacts
  <1>7. latest.captured - latest.dropped - processed - One(latest.available)
          - One(mpc \in Handling \cup {"killed"}) \in 0 .. One(exit = 1) <=> MainAccount
    BY <1>1, <1>4, <1>5 DEF MainAccount, MainHas
  <1>8. processed - preview.overwrites - server.number
          - One(preview.pending # NoImage) - One(job # NoImage)
            \in 0 .. One(async /\ preview.stopping) + One(preview.error) + One(exit = 1)
        <=> PreviewAccount
    <2>1. processed - preview.overwrites - server.number
            - One(preview.pending # NoImage) - One(job # NoImage)
              \in 0 .. (One(async /\ preview.stopping) + One(preview.error) + One(exit = 1))
          <=> /\ PreviewHas <= processed
              /\ processed <= PreviewHas
                    + (One(async /\ preview.stopping) + One(preview.error) + One(exit = 1))
      BY <1>1, <1>4, <1>5, <1>6 DEF PreviewHas
    <2>2. PreviewHas \in Nat
      BY <1>1, <1>5 DEF PreviewHas
    <2>3. PreviewHas + (One(async /\ preview.stopping) + One(preview.error) + One(exit = 1))
          = PreviewHas + One(async /\ preview.stopping) + One(preview.error) + One(exit = 1)
      BY <2>2, OneFacts
    <2> QED
      BY <2>1, <2>3 DEF PreviewAccount
  <1> QED
    BY <1>3, <1>7, <1>8

LEMMA CameraAccountStep ==
  ASSUME CameraTypes, CameraInv, BufferInv, ImageTypes, MainTypes, CameraAccount, [Next]_vars
  PROVE  CameraAccount'
  <1> USE AccountTypes DEF CameraAccount, One
  <1>0. /\ "publish" # "loop" /\ "publish" # "close" /\ "publish" # "convert"
        /\ Len(filled) >= 0 /\ Len(<<>>) = 0
        /\ filled # <<>> => Len(Tail(filled)) = Len(filled) - 1
    BY DEF CameraTypes
  <1>1. CASE CapturePublish
    <2>1. /\ cpc = "publish" /\ cpc' = "loop" /\ latest'.captured = latest.captured + 1
          /\ UNCHANGED cameraVars
      BY <1>1 DEF CapturePublish, ImageTypes
    <2> QED
      BY <1>0, <2>1 DEF cameraVars
  <1>2. CASE Driver
    <2>1. UNCHANGED <<latest, cpc>>
      BY <1>2 DEF Driver, captureVars
    <2>2. UNCHANGED camera /\ produced' = produced + 1 /\ Len(filled') = Len(filled) + 1
      BY <1>2, CameraFills DEF Driver, CameraInv
    <2> QED
      BY <2>1, <2>2
  <1>3. CASE CaptureOpen \/ CaptureClose \/ Killed
    <2>1. cpc' # "publish" /\ latest'.captured = latest.captured
      BY <1>3 DEF CaptureOpen, CaptureThrows, CaptureClose, Killed, ImageTypes
    <2>2. /\ \E status : CameraOpen(status)
             /\ camera = NoCamera /\ fds = {0} /\ maps = {}
          \/ V4l2Close(camera, fds, maps)
          \/ V4l2Close(camera, {0}, {})
      <3>1. CASE CaptureOpen
        <4>1. cpc = "open" /\ \E status : CameraOpen(status)
          BY <3>1 DEF CaptureOpen
        <4>2. camera = NoCamera /\ fds = {0} /\ maps = {}
          BY <4>1 DEF CameraInv, CameraOwns, NoCamera, OwnFds, Descriptors
        <4> QED
          BY <4>1, <4>2
      <3> QED
        BY <1>3, <3>1 DEF CaptureClose, CameraClose, Killed
    <2>3. filled' = <<>> /\ produced' = produced /\ ~camera'.held
      BY <2>2, CameraOpens, CameraCloses DEF CameraInv, NoCamera
    <2> QED
      BY <1>0, <2>1, <2>3
  <1>4. CASE CaptureAcquire
    <2>1. cpc' # "publish" /\ latest'.captured = latest.captured
      BY <1>4 DEF CaptureAcquire, CaptureThrows, ImageTypes
    <2>2. CASE UNCHANGED cameraVars
      BY <2>1, <2>2 DEF cameraVars
    <2>3. CASE \E status : CameraAcquire(status)
      <3>1. /\ UNCHANGED produced /\ ~camera.held
            /\ \/ ~camera'.held /\ filled' = filled
               \/ filled # <<>> /\ filled' = Tail(filled)
        BY <2>3, CameraAcquires DEF CameraInv
      <3>2. camera'.held \in BOOLEAN
        BY <2>3, CameraAcquires DEF CameraInv, CameraTypes, Cameras
      <3> QED
        BY <1>0, <2>1, <3>1, <3>2
    <2> QED
      BY <1>4, <2>2, <2>3 DEF CaptureAcquire
  <1>5. CASE CaptureConvert
    <2>1. latest'.captured = latest.captured
      BY <1>5 DEF CaptureConvert, CaptureThrows, ImageTypes
    <2>2. camera.held /\ ~camera'.held /\ filled' = filled /\ produced' = produced
      BY <1>5, CameraReleases DEF CaptureConvert, CameraInv
    <2> QED
      BY <2>1, <2>2
  <1>6. CASE Elsewhere /\ ~CapturePublish
    <2>1. UNCHANGED cameraVars
      BY <1>6, ElsewhereKeepsCamera
    <2>2. latest'.captured = latest.captured /\ (cpc' = cpc \/ cpc' # "publish")
      <3>1. CASE ImagesStay
        BY <3>1, StayingImages DEF ImageTypes
      <3>2. CASE MainTake \/ MainRecognise
        BY <3>2, RecogniseFacts DEF MainTake, mainKeeps, ImageTypes
      <3>3. CASE MainSubmit \/ MainPublish
        BY <3>3 DEF MainSubmit, MainPublish, mainKeeps
      <3>4. CASE UnwindPreview \/ MainFinish
        BY <3>4 DEF UnwindPreview, MainFinish, mainKeeps
      <3>5. CASE Worker
        BY <3>5 DEF Worker, WorkerTake, WorkerEncode, WorkerPublish, workerKeeps, captureVars
      <3> QED
        BY <1>6, <3>1, <3>2, <3>3, <3>4, <3>5 DEF Elsewhere, ImagesStay
    <2> QED
      BY <2>1, <2>2 DEF cameraVars
  <1> QED
    BY <1>1, <1>2, <1>3, <1>4, <1>5, <1>6, Steps

LEMMA MainAccountStep ==
  ASSUME CameraTypes, ImageTypes, MainTypes, ExitInv, MainAccount, [Next]_vars
  PROVE  MainAccount'
  <1> USE AccountTypes DEF MainAccount, MainHas, One
  <1>0. /\ "loop" \notin Handling \cup {"killed"} /\ "unwind" \notin Handling \cup {"killed"}
        /\ "submit" \in Handling \cup {"killed"} /\ "recognise" \in Handling \cup {"killed"}
        /\ "enrol" \in Handling \cup {"killed"} /\ "finish" \notin Handling \cup {"killed"}
        /\ "unwindServer" \notin Handling \cup {"killed"}
    BY DEF Handling
  <1>e. mpc \notin Unwinding => exit = None /\ exit # 1
    BY DEF ExitInv, None
  <1>f. mpc \in {"loop", "killed"} \cup Handling => exit # 1
    BY <1>e DEF Handling, Unwinding
  <1>1. CASE CapturePublish
    <2>1. /\ latest'.captured = latest.captured + 1 /\ latest'.available
          /\ latest'.dropped = IF latest.available THEN latest.dropped + 1 ELSE latest.dropped
          /\ UNCHANGED <<processed, exit, mpc>>
      BY <1>1 DEF CapturePublish, ImageTypes, Overwritten, elsewhere, mainVars
    <2> QED
      BY <2>1, SMTT(20)
  <1>2. CASE (Others \/ UnwindPreview \/ UnwindServer \/ UnwindClients \/ MainFinish \/ MainConstruct
              \/ MainStart \/ MainEnrol \/ MainSave \/ MainEnds \/ Killed) /\ ~CapturePublish
    <2>1. /\ latest'.captured = latest.captured /\ latest'.dropped = latest.dropped
          /\ latest'.available = latest.available /\ UNCHANGED processed
      <3>1. CASE ImagesStay
        BY <3>1, StayingImages DEF ImageTypes
      <3>2. CASE CaptureConvert
        BY <3>2 DEF CaptureConvert, CaptureThrows, ImageTypes, elsewhere, mainVars
      <3>3. CASE UnwindPreview \/ MainFinish
        BY <3>3 DEF UnwindPreview, MainFinish, mainKeeps
      <3>4. CASE Worker
        BY <3>4 DEF Worker, WorkerTake, WorkerEncode, WorkerPublish, workerKeeps, mainVars,
                    captureVars
      <3> QED
        BY <1>2, <3>1, <3>2, <3>3, <3>4 DEF Others, ImagesStay, Capture
    <2>2. \/ (mpc' \in Handling \cup {"killed"} <=> mpc \in Handling \cup {"killed"})
             /\ (exit' # 1 => exit # 1)
          \/ exit' = 1 /\ mpc' \notin Handling \cup {"killed"}
      <3>1. CASE Others
        BY <3>1, OthersKeepMain DEF mainVars
      <3>2. CASE MainConstruct \/ MainStart
        BY <1>0, <1>e, <3>2 DEF MainConstruct, MainStart, Throw, Leave, Handling, Unwinding
      <3>3. CASE MainEnrol \/ MainSave
        BY <1>0, <3>3 DEF MainEnrol, MainSave, Throw, Leave, Handling
      <3>4. CASE MainEnds
        BY <1>0, <1>e, <3>4 DEF MainEnds, Leave, Unwinding
      <3>5. CASE UnwindPreview \/ UnwindServer \/ UnwindClients \/ MainFinish
        BY <3>5 DEF UnwindPreview, UnwindServer, UnwindClients, MainFinish, mainKeeps, Handling
      <3>6. CASE Killed
        BY <3>6 DEF Killed, Handling
      <3> QED
        BY <1>2, <3>1, <3>2, <3>3, <3>4, <3>5, <3>6
    <2> QED
      BY <1>f, <2>1, <2>2
  <1>3. CASE MainTake
    <2>1. /\ UNCHANGED processed /\ mpc = "loop"
          /\ \/ exit' = 1 /\ mpc' = "unwind" /\ UNCHANGED latest
             \/ /\ latest.available /\ ~latest'.available /\ mpc' = "recognise" /\ UNCHANGED exit
                /\ latest'.captured = latest.captured /\ latest'.dropped = latest.dropped
      BY <1>3 DEF MainTake, ImageTypes, Throw, Leave
    <2> QED
      BY <1>0, <1>f, <2>1
  <1>4. CASE MainRecognise
    <2>1. /\ UNCHANGED <<processed, latest>> /\ mpc = "recognise"
          /\ \/ exit' = 1 /\ mpc' = "unwind"
             \/ UNCHANGED exit /\ mpc' \in {"enrol", "submit"}
      BY <1>4, RecogniseFacts DEF ImageTypes, Throw, Leave
    <2> QED
      BY <1>0, <1>f, <2>1
  <1>5. CASE MainSubmit \/ MainPublish
    <2>1. /\ UNCHANGED latest /\ processed' = processed + 1 /\ mpc = "submit"
          /\ \/ exit' = 1 /\ mpc' = "unwind"
             \/ UNCHANGED exit /\ mpc' = "loop"
      <3>1. CASE MainSubmit
        BY <3>1 DEF MainSubmit, Throw, Leave
      <3>2. CASE MainPublish
        BY <3>2 DEF MainPublish, Throw, Leave
      <3> QED
        BY <1>5, <3>1, <3>2
    <2> QED
      BY <1>0, <1>f, <2>1, SMTT(20)
  <1> QED
    BY <1>1, <1>2, <1>3, <1>4, <1>5, OtherSteps DEF Main

\* A step that takes no image any further does not take an error back.
LEMMA StayingExit ==
  ASSUME ImagesStay, MainTypes, ExitInv
  PROVE  exit = 1 => exit' = 1
  <1>e. mpc \notin Unwinding => exit # 1
    BY DEF ExitInv, None
  <1>1. CASE \/ UNCHANGED vars \/ Driver \/ CaptureStops \/ CaptureOpen \/ CaptureAcquire
             \/ CaptureClose \/ Acceptor \/ \E s \in Slots : Client(s)
    BY <1>1, OthersKeepMain DEF mainVars, Others, Capture
  <1>2. CASE MainConstruct \/ MainStart \/ MainEnrol \/ MainSave \/ MainEnds
    <2>1. mpc \notin Unwinding
      BY <1>2 DEF MainConstruct, MainStart, MainEnrol, MainSave, MainEnds, Unwinding
    <2> QED
      BY <1>e, <2>1
  <1>3. CASE UnwindServer \/ UnwindClients \/ Killed
    BY <1>3 DEF UnwindServer, UnwindClients, Killed
  <1> QED
    BY <1>1, <1>2, <1>3 DEF ImagesStay

\* What the worker's handler drops: its job, and the one that waited.
LEMMA WorkerLoses ==
  ASSUME ImageTypes, PresentInv, PreviewAccount, MainTypes, WorkerThrows, wpc \in Encoding,
         job' = NoImage, UNCHANGED <<server, processed, async, exit>>
  PROVE  PreviewAccount'
  <1>1. /\ preview'.error /\ preview'.stopping /\ preview'.pending = NoImage
        /\ preview'.overwrites = preview.overwrites
    BY DEF WorkerThrows, ImageTypes
  <1>2. ~preview.error /\ async /\ (preview.stopping => preview.pending = NoImage)
    BY DEF PresentInv, Encoding
  <1>3. /\ preview.overwrites \in Nat /\ server.number \in Nat /\ processed \in Nat
    BY DEF ImageTypes, MainTypes
  <1> QED
    BY <1>1, <1>2, <1>3, SMTT(20) DEF PreviewAccount, PreviewHas, One

LEMMA PreviewAccountStep ==
  ASSUME CameraTypes, ImageTypes, MainTypes, PresentInv, ExitInv, PreviewAccount, [Next]_vars
  PROVE  PreviewAccount'
  <1> USE AccountTypes DEF PreviewAccount, PreviewHas, One
  <1>0. /\ "wait" \notin Encoding /\ "ended" \notin Encoding /\ "none" \notin Encoding
        /\ "encode" \in Encoding /\ "publish" \in Encoding /\ NoImage.sequence = 0
    BY ImageFacts DEF Encoding
  <1>e. mpc \notin Unwinding => exit # 1
    BY DEF ExitInv, None
  <1>1. CASE ImagesStay
    <2>1. UNCHANGED <<preview, job, server, processed, async>>
      BY <1>1, StayingImages
    <2>2. exit = 1 => exit' = 1
      BY <1>1, StayingExit
    <2> QED
      BY <2>1, <2>2
  <1>2. CASE CaptureConvert \/ CapturePublish
    <2>1. UNCHANGED <<preview, job, server, processed, async, exit>>
      BY <1>2 DEF CaptureConvert, CapturePublish, elsewhere, mainVars, previewVars, serverVars
    <2> QED
      BY <2>1
  <1>3. CASE MainTake \/ MainRecognise
    <2>1. /\ UNCHANGED <<preview, job, server, processed, async>>
          /\ exit' = exit \/ exit' = 1
      BY <1>3, RecogniseFacts DEF MainTake, mainKeeps, previewVars, serverVars, Throw, Leave, ImageTypes
    <2> QED
      BY <2>1
  <1>4. CASE MainSubmit
    <2>1. /\ UNCHANGED <<server, async, job>> /\ processed' = processed + 1 /\ mpc = "submit"
          /\ \/ exit' = 1 /\ UNCHANGED preview
             \/ /\ preview'.pending = image /\ preview'.stopping = preview.stopping
                /\ preview'.error = preview.error
                /\ preview'.overwrites = IF preview.pending # NoImage THEN preview.overwrites + 1
                                                                      ELSE preview.overwrites
                /\ UNCHANGED exit
      BY <1>4 DEF MainSubmit, mainKeeps, serverVars, Throw, Leave, ImageTypes, Overwritten
    <2>2. image # NoImage /\ exit # 1
      BY <1>0, <1>e, <2>1 DEF PresentInv, Handling, Unwinding
    <2>3. CASE exit' = 1 /\ UNCHANGED preview
      <3>1. processed' = processed + 1 /\ UNCHANGED <<server, async, job, preview>>
        BY <2>1, <2>3
      <3> QED
        BY <2>2, <2>3, <3>1, SMTT(30)
    <2>4. CASE /\ preview'.pending = image /\ preview'.stopping = preview.stopping
               /\ preview'.error = preview.error /\ UNCHANGED exit
               /\ preview'.overwrites = IF preview.pending # NoImage THEN preview.overwrites + 1
                                                                     ELSE preview.overwrites
      <3>1. processed' = processed + 1 /\ UNCHANGED <<server, async, job, exit>>
        BY <2>1, <2>4
      <3>2. PreviewHas' = PreviewHas + 1
        BY <2>2, <2>4, <3>1, SMTT(30)
      <3> HIDE DEF PreviewHas
      <3>3. PreviewHas \in Nat /\ processed \in Nat
        BY DEF PreviewHas
      <3> QED
        BY <2>4, <3>1, <3>2, <3>3, SMTT(30)
    <2> QED
      BY <2>1, <2>3, <2>4
  <1>5. CASE MainPublish
    <2>1. /\ UNCHANGED <<preview, async, job>> /\ processed' = processed + 1 /\ ~async
          /\ mpc = "submit"
          /\ \/ UNCHANGED exit /\ ServerPublish(image)
             \/ exit' = 1 /\ UNCHANGED server
      BY <1>5 DEF MainPublish, mainKeeps, previewVars, Throw, Leave
    <2>2. ServerPublish(image) => server'.number = server.number + 1
      BY ShownFacts DEF ImageTypes
    <2>3. exit # 1
      BY <1>e, <2>1 DEF Unwinding
    <2>4. CASE UNCHANGED exit /\ ServerPublish(image)
      <3>1. /\ UNCHANGED <<preview, async, job, exit>> /\ processed' = processed + 1
            /\ server'.number = server.number + 1
        BY <2>1, <2>2, <2>4
      <3>2. PreviewHas' = PreviewHas + 1
        BY <3>1, SMTT(30)
      <3>3. PreviewHas \in Nat /\ processed \in Nat
        OBVIOUS
      <3> HIDE DEF PreviewHas
      <3> QED
        BY <3>1, <3>2, <3>3, SMTT(30)
    <2>5. CASE exit' = 1 /\ UNCHANGED server
      BY <2>1, <2>3, <2>5
    <2> QED
      BY <2>1, <2>4, <2>5
  <1>6. CASE UnwindPreview \/ MainFinish
    <2>1. /\ UNCHANGED <<server, processed, async, job, exit>> /\ preview'.pending = NoImage
          /\ preview'.overwrites = preview.overwrites /\ preview'.error = preview.error
      BY <1>6 DEF UnwindPreview, MainFinish, mainKeeps, serverVars, ImageTypes
    <2>2. async => preview'.stopping
      BY <1>6 DEF UnwindPreview, MainFinish, mainKeeps, ImageTypes
    <2>3. preview.pending # NoImage => async /\ ~preview.stopping
      BY DEF PresentInv
    <2> QED
      BY <2>1, <2>2, <2>3
  <1>7. CASE WorkerTake
    <2>1. /\ UNCHANGED <<server, processed, async, exit>> /\ wpc = "wait"
          /\ \/ UNCHANGED <<preview, job>>
             \/ /\ job' = preview.pending /\ preview'.pending = NoImage
                /\ preview'.stopping = preview.stopping /\ preview'.error = preview.error
                /\ preview'.overwrites = preview.overwrites
      BY <1>7 DEF WorkerTake, workerKeeps, mainVars, serverVars, ImageTypes
    <2>2. job = NoImage
      BY <2>1 DEF PresentInv
    <2> QED
      BY <2>1, <2>2
  <1>8. CASE WorkerEncode
    <2>1. UNCHANGED <<server, processed, async, exit>> /\ wpc \in Encoding
      BY <1>0, <1>8 DEF WorkerEncode, workerKeeps, mainVars, serverVars
    <2>2. CASE WorkerThrows /\ job' = NoImage
      BY <2>1, <2>2, WorkerLoses
    <2>3. CASE UNCHANGED preview /\ job' = [job EXCEPT !.pixels = Pixels(job), !.shares = FALSE]
      <3>1. job' = job
        BY <2>3, ImageFacts DEF ImageTypes
      <3> QED
        BY <2>1, <2>3, <3>1
    <2> QED
      BY <1>8, <2>2, <2>3 DEF WorkerEncode
  <1>9. CASE WorkerPublish
    <2>1. UNCHANGED <<processed, async, exit>> /\ wpc \in Encoding /\ job' = NoImage
      BY <1>0, <1>9 DEF WorkerPublish, workerKeeps, mainVars
    <2>2. CASE WorkerThrows /\ UNCHANGED server
      BY <2>1, <2>2, WorkerLoses
    <2>3. CASE UNCHANGED preview /\ ServerPublish(job)
      <3>1. server'.number = server.number + 1
        BY <2>3, ShownFacts DEF ImageTypes, Recognised
      <3>2. job # NoImage /\ job' = NoImage
        BY <1>0, <2>1 DEF PresentInv
      <3>3. UNCHANGED <<preview, async, exit, processed>>
        BY <2>1, <2>3
      <3>4. PreviewHas' = PreviewHas
        BY <3>1, <3>2, <3>3, SMTT(30)
      <3> HIDE DEF PreviewHas
      <3> QED
        BY <3>3, <3>4
    <2> QED
      BY <1>9, <2>2, <2>3 DEF WorkerPublish
  <1> QED
    BY <1>1, <1>2, <1>3, <1>4, <1>5, <1>6, <1>7, <1>8, <1>9, ImageSteps DEF Worker

\* The enrollment: one sample at a time is in memory and not in the file.
LEMMA GalleryStep ==
  ASSUME ImageTypes, MainTypes, ExitInv, GalleryInv, [Next]_vars
  PROVE  GalleryInv'
  <1> USE DEF GalleryInv
  <1>0. /\ gallery.samples \in Nat /\ gallery.file \in Nat /\ "enrol" \notin Unwinding
        /\ "save" \notin Unwinding /\ "rename" \notin Unwinding /\ None # 1
        /\ gallery \in [samples : Nat, file : Nat, temp : Nat \cup {None}]
    BY BufferFacts DEF MainTypes, Unwinding
  <1>e. mpc \notin Unwinding => exit = None /\ exit # 1
    BY <1>0 DEF ExitInv
  <1>1. CASE Others
    BY <1>1, OthersKeepMain DEF mainVars
  <1>2. CASE \/ MainConstruct \/ MainStart \/ MainTake \/ MainRecognise \/ MainSubmit \/ MainPublish
             \/ MainEnds \/ UnwindPreview \/ UnwindServer \/ UnwindClients \/ MainFinish
    <2>1. /\ UNCHANGED gallery /\ (exit' # 1 => exit # 1)
          /\ mpc \notin {"save", "rename", "killed"} /\ mpc' \notin {"save", "rename", "killed"}
      <3>1. CASE MainConstruct \/ MainStart \/ MainTake
        BY <1>e, <3>1 DEF MainConstruct, MainStart, MainTake, Throw, Leave, Unwinding
      <3>2. CASE MainRecognise
        BY <1>e, <3>2, RecogniseFacts DEF ImageTypes, Throw, Leave, Unwinding
      <3>3. CASE MainSubmit \/ MainPublish \/ MainFinish
        BY <1>e, <3>3 DEF MainSubmit, MainPublish, MainFinish, mainKeeps, Throw, Leave, Unwinding
      <3>4. CASE MainEnds
        BY <1>e, <3>4 DEF MainEnds, Leave, Unwinding
      <3>5. CASE UnwindPreview \/ UnwindServer \/ UnwindClients
        BY <3>5 DEF UnwindPreview, UnwindServer, UnwindClients
      <3> QED
        BY <1>2, <3>1, <3>2, <3>3, <3>4, <3>5
    <2> QED
      BY <2>1
  <1>3. CASE MainEnrol
    <2>1. mpc = "enrol" /\ gallery.file \in {0, gallery.samples}
      BY <1>0, <1>e, <1>3 DEF MainEnrol
    <2>2. CASE gallery' = [gallery EXCEPT !.samples = @ + 1, !.temp = 0] /\ mpc' = "save"
      <3>1. gallery'.samples = gallery.samples + 1 /\ gallery'.file = gallery.file
        BY <1>0, <2>2
      <3> QED
        BY <1>0, <2>1, <2>2, <3>1
    <2>3. CASE Throw /\ UNCHANGED gallery
      BY <1>0, <2>1, <2>3 DEF Throw, Leave
    <2> QED
      BY <1>3, <2>2, <2>3 DEF MainEnrol
  <1>4. CASE MainSave
    <2>1. /\ mpc \in {"save", "rename"} /\ gallery.file \in {0, gallery.samples - 1}
          /\ mpc = "rename" => gallery.temp \in {0, gallery.samples}
      BY <1>4 DEF MainSave
    <2>2. CASE /\ mpc' = "rename"
               /\ \E n \in {gallery.samples, 0} : gallery' = [gallery EXCEPT !.temp = n]
      <3>1. gallery'.samples = gallery.samples /\ gallery'.file = gallery.file
            /\ gallery'.temp \in {0, gallery.samples}
        BY <1>0, <2>2
      <3> QED
        BY <1>0, <2>1, <2>2, <3>1
    <2>3. CASE /\ gallery' = [gallery EXCEPT !.file = gallery.temp, !.temp = None]
               /\ mpc = "rename" /\ mpc' = "submit"
      <3>1. gallery'.samples = gallery.samples /\ gallery'.file \in {0, gallery.samples}
            /\ gallery'.temp = None
        BY <1>0, <2>1, <2>3
      <3> QED
        BY <1>0, <2>1, <2>3, <3>1
    <2>4. CASE gallery' = [gallery EXCEPT !.temp = None] /\ Throw
      <3>1. gallery'.samples = gallery.samples /\ gallery'.file = gallery.file
            /\ gallery'.temp = None
        BY <1>0, <2>4
      <3> QED
        BY <1>0, <2>1, <2>4, <3>1 DEF Throw, Leave
    <2> QED
      BY <1>4, <2>2, <2>3, <2>4 DEF MainSave
  <1>5. CASE Killed
    BY <1>5 DEF Killed
  <1> QED
    BY <1>1, <1>2, <1>3, <1>4, <1>5, OtherSteps DEF Main

\* What a step does to the file.
LEMMA GalleryGrows ==
  ASSUME ImageTypes, MainTypes, GalleryInv, [Next]_vars
  PROVE  /\ gallery'.file <= gallery'.samples
         /\ gallery'.file >= gallery.file \/ (mpc = "rename" /\ gallery.temp = 0)
         /\ gallery'.file # gallery.file => mpc = "rename" /\ gallery'.file = gallery.temp
  <1> USE DEF GalleryInv
  <1>0. /\ gallery.samples \in Nat /\ gallery.file \in Nat
        /\ gallery \in [samples : Nat, file : Nat, temp : Nat \cup {None}]
    BY DEF MainTypes
  <1>1. CASE UNCHANGED gallery
    BY <1>0, <1>1
  <1>2. CASE MainEnrol
    <2>1. gallery'.file = gallery.file /\ gallery'.samples \in {gallery.samples, gallery.samples + 1}
      BY <1>0, <1>2 DEF MainEnrol
    <2> QED
      BY <1>0, <2>1
  <1>3. CASE MainSave
    <2>1. /\ gallery'.samples = gallery.samples
          /\ \/ gallery'.file = gallery.file
             \/ mpc = "rename" /\ gallery'.file = gallery.temp
      BY <1>0, <1>3 DEF MainSave
    <2>2. /\ mpc \in {"save", "rename"} /\ gallery.file \in {0, gallery.samples - 1}
          /\ mpc = "rename" => gallery.temp \in {0, gallery.samples}
      BY <1>3 DEF MainSave
    <2> QED
      BY <1>0, <2>1, <2>2
  <1>4. ~MainEnrol /\ ~MainSave => UNCHANGED gallery
    <2>1. Others => UNCHANGED gallery
      BY OthersKeepMain DEF mainVars
    <2>2. MainConstruct \/ MainStart \/ MainTake \/ MainRecognise \/ MainSubmit \/ MainPublish
          => UNCHANGED gallery
      BY RecogniseFacts DEF MainConstruct, MainStart, MainTake, MainSubmit, MainPublish, ImageTypes
    <2>3. MainEnds \/ UnwindPreview \/ UnwindServer \/ UnwindClients \/ MainFinish \/ Killed
          => UNCHANGED gallery
      BY DEF MainEnds, UnwindPreview, UnwindServer, UnwindClients, MainFinish, Killed
    <2> QED
      BY <2>1, <2>2, <2>3, OtherSteps DEF Main
  <1> QED
    BY <1>1, <1>2, <1>3, <1>4

-----------------------------------------------------------------------------
(* The NPU and the encoder.                                                 *)

\* Whichever call of the encoder fails, a part is in one place the handler
\* frees, or in none.
LEMMA EveryStageFreesOnce ==
  \A stage \in DOMAIN Stages, part \in Parts :
     Stages[stage][part] # {} => Frees(Stages[stage][part]) = 1
  <1>1. \A stage \in DOMAIN Stages, part \in Parts :
           Stages[stage][part] \in {{}, {"code"}, {"in"}, {"out"}, {"port"}, {"code", "in"}}
    BY DEF Stages, Parts
  <1>2. /\ Frees({"code"}) = 1 /\ Frees({"in"}) = 1 /\ Frees({"out"}) = 1 /\ Frees({"port"}) = 1
        /\ Frees({"code", "in"}) = 1
    BY DEF Frees
  <1> QED
    BY <1>1, <1>2

LEMMA EncodeMishandlesNothing ==
  ASSUME mishandled = {}, NEW status, MppEncode(status)
  PROVE  mishandled' = {}
  <1>1. CASE UNCHANGED mishandled
    BY <1>1
  <1>2. CASE ~UNCHANGED mishandled
    <2>1. PICK stage \in IF session THEN DOMAIN Stages \ {"takeIn"} ELSE DOMAIN Stages :
            mishandled' = mishandled \cup {part \in Parts :
               Stages[stage][part] # {} /\ Frees(Stages[stage][part]) # 1}
      BY <1>2, Zenon DEF MppEncode
    <2>2. stage \in DOMAIN Stages
      BY <2>1
    <2> QED
      BY <2>1, <2>2, EveryStageFreesOnce
  <1> QED
    BY <1>1, <1>2

\* Whatever a step does to the encoder.
LEMMA EncoderSteps ==
  ASSUME [Next]_vars
  PROVE  \/ UNCHANGED mppVars \/ MppClose
         \/ (MainPublish \/ WorkerEncode) /\ \E status : MppEncode(status)
  <1> USE DEF elsewhere, serverKeeps, clientKeeps
  <1>1. CASE UNCHANGED vars \/ Driver
    BY <1>1 DEF vars, Driver
  <1>2. CASE Capture
    BY <1>2 DEF Capture, CaptureOpen, CaptureAcquire, CaptureStops, CaptureConvert, CapturePublish,
                CaptureClose
  <1>3. CASE MainConstruct \/ MainStart \/ MainTake \/ MainRecognise \/ MainEnrol \/ MainSave
             \/ MainSubmit \/ MainEnds \/ MainFinish
    BY <1>3 DEF MainConstruct, MainStart, MainTake, MainRecognise, MainEnrol, MainSave, MainSubmit,
                MainEnds, MainFinish
  <1>4. CASE UnwindPreview \/ UnwindServer \/ UnwindClients \/ Killed
    BY <1>4 DEF UnwindPreview, UnwindServer, UnwindClients, Killed
  <1>5. CASE MainPublish \/ Worker
    BY <1>5 DEF MainPublish, Worker, WorkerTake, WorkerEncode, WorkerPublish
  <1>6. CASE Acceptor
    BY <1>6 DEF Acceptor, Accept, AcceptJoin, AcceptEnds
  <1>7. CASE \E s \in Slots : Client(s)
    BY <1>7 DEF Client, ClientRequest, ClientStream, ClientSend, ClientLeave
  <1> QED
    BY <1>1, <1>2, <1>3, <1>4, <1>5, <1>6, <1>7 DEF Next, Over, Main

\* The steps of main() that construct, use and destroy the backends.
LEMMA BackendSteps ==
  ASSUME [Next]_vars
  PROVE  UNCHANGED rknnVars \/ MainConstruct \/ MainRecognise \/ UnwindClients \/ Killed
  <1> USE DEF elsewhere, serverKeeps, clientKeeps, workerKeeps
  <1>1. CASE UNCHANGED vars \/ Driver
    BY <1>1 DEF vars, Driver
  <1>2. CASE Capture
    BY <1>2 DEF Capture, CaptureOpen, CaptureAcquire, CaptureStops, CaptureConvert, CapturePublish,
                CaptureClose
  <1>3. CASE MainStart \/ MainTake \/ MainEnrol \/ MainSave \/ MainSubmit \/ MainPublish
             \/ MainEnds \/ MainFinish \/ UnwindPreview \/ UnwindServer
    BY <1>3 DEF MainStart, MainTake, MainEnrol, MainSave, MainSubmit, MainPublish,
                MainEnds, MainFinish, UnwindPreview, UnwindServer
  <1>4. CASE Worker
    BY <1>4 DEF Worker, WorkerTake, WorkerEncode, WorkerPublish
  <1>5. CASE Acceptor
    BY <1>5 DEF Acceptor, Accept, AcceptJoin, AcceptEnds
  <1>6. CASE \E s \in Slots : Client(s)
    BY <1>6 DEF Client, ClientRequest, ClientStream, ClientSend, ClientLeave
  <1> QED
    BY <1>1, <1>2, <1>3, <1>4, <1>5, <1>6 DEF Next, Over, Main

\* From the setup to the unwinding main() keeps its backends.
BackendsInv ==
    /\ mpc = "setup" => backends = NoBackends \/ DOMAIN backends = {"detector"}
    /\ mpc \in {"start", "loop", "finish"} \cup Handling => DOMAIN backends = Models

LEMMA MainGoesOn ==
  ASSUME [Next]_vars, ~MainConstruct, ~MainRecognise, ~UnwindClients, ~Killed
  PROVE  /\ mpc' = "setup" => mpc = "setup"
         /\ mpc' \in {"start", "loop", "finish"} \cup Handling
               => mpc \in {"start", "loop", "finish"} \cup Handling
         /\ mpc' \in {"ended", "killed"} => mpc \in {"ended", "killed"}
  <1> USE DEF Handling
  <1>1. CASE Others
    BY <1>1, OthersKeepMain DEF mainVars
  <1>2. CASE MainStart \/ MainTake \/ MainEnrol \/ MainSave
    BY <1>2 DEF MainStart, MainTake, MainEnrol, MainSave, Throw, Leave
  <1>3. CASE MainSubmit \/ MainPublish
    BY <1>3 DEF MainSubmit, MainPublish, Throw, Leave
  <1>4. CASE MainEnds \/ MainFinish \/ UnwindPreview \/ UnwindServer
    BY <1>4 DEF MainEnds, MainFinish, UnwindPreview, UnwindServer, Leave
  <1> QED
    BY <1>1, <1>2, <1>3, <1>4, OtherSteps DEF Main

LEMMA NpuStep ==
  ASSUME ImageTypes, NpuInv, [Next]_vars
  PROVE  NpuInv'
  <1>0. BackendsInv /\ npu = UNION {Resources(m) : m \in DOMAIN backends}
        /\ (mpc \in {"ended", "killed"} => npu = {})
    BY DEF NpuInv, BackendsInv
  <1>1. mishandled' = {}
    BY EncoderSteps, EncodeMishandlesNothing DEF NpuInv, mppVars, MppClose
  <1>2. CASE MainConstruct
    <2>1. mpc = "setup" /\ (backends = NoBackends \/ DOMAIN backends = {"detector"})
      BY <1>0, <1>2 DEF MainConstruct, BackendsInv
    <2>2. PICK m : /\ m = IF backends = NoBackends THEN "detector" ELSE "recognizer"
                   /\ \/ RknnConstruct(m, "Ok") /\ mpc' = (IF m = "detector" THEN "setup" ELSE "start")
                      \/ RknnConstruct(m, "Error") /\ Throw
      BY <1>2 DEF MainConstruct
    <2>3. CASE RknnConstruct(m, "Ok") /\ mpc' = (IF m = "detector" THEN "setup" ELSE "start")
      <3>1. npu' = npu \cup Resources(m) /\ DOMAIN backends' = DOMAIN backends \cup {m}
        BY <2>3 DEF RknnConstruct
      <3>2. npu' = UNION {Resources(n) : n \in DOMAIN backends'}
        BY <1>0, <3>1
      <3>3. CASE backends = NoBackends
        <4>1. m = "detector" /\ DOMAIN backends' = {"detector"}
          BY <2>2, <3>1, <3>3 DEF NoBackends
        <4> QED
          BY <1>1, <2>3, <3>2, <4>1 DEF NpuInv, Handling
      <3>4. CASE backends # NoBackends
        <4>1. m = "recognizer" /\ DOMAIN backends' = Models
          BY <2>1, <2>2, <3>1, <3>4, FaceVideoAssumption
        <4> QED
          BY <1>1, <2>3, <3>2, <4>1 DEF NpuInv, Handling
      <3> QED
        BY <3>3, <3>4
    <2>4. CASE RknnConstruct(m, "Error") /\ Throw
      <3>1. npu' = npu /\ UNCHANGED backends
        BY <2>4 DEF RknnConstruct, LeftBy, Resources
      <3> QED
        BY <1>0, <1>1, <2>4, <3>1 DEF NpuInv, Handling, Throw, Leave
    <2> QED
      BY <2>2, <2>3, <2>4
  <1>3. CASE MainRecognise
    <2>1. UNCHANGED npu /\ mpc = "recognise" /\ DOMAIN backends' = Models
          /\ mpc' \notin {"setup", "ended", "killed"}
      BY <1>3, RecogniseFacts DEF ImageTypes, Throw, Leave
    <2>2. DOMAIN backends = Models
      BY <1>0, <2>1 DEF BackendsInv, Handling
    <2> QED
      BY <1>0, <1>1, <2>1, <2>2 DEF NpuInv
  <1>4. CASE UnwindClients \/ Killed
    <2>1. mpc' \in {"ended", "killed"} /\ npu' = {} /\ backends' = NoBackends
      BY <1>0, <1>4 DEF UnwindClients, Killed, RknnDestroyAll
    <2>2. DOMAIN backends' = {}
      BY <2>1 DEF NoBackends
    <2>3. {} = UNION {Resources(m) : m \in DOMAIN backends'}
      BY <2>2
    <2> QED
      BY <1>1, <2>1, <2>3 DEF NpuInv, Handling
  <1>5. CASE /\ UNCHANGED rknnVars
             /\ ~MainConstruct /\ ~MainRecognise /\ ~UnwindClients /\ ~Killed
    BY <1>0, <1>1, <1>5, MainGoesOn DEF NpuInv, BackendsInv, rknnVars
  <1> QED
    BY <1>2, <1>3, <1>4, <1>5, BackendSteps

-----------------------------------------------------------------------------
(* The preview server.                                                      *)

\* accept_loop takes the first slot that is free.
LEMMA LeastSlot ==
  ASSUME NEW free, free \subseteq Slots, free # {}
  PROVE  (CHOOSE s \in free : \A t \in free : s <= t) \in free
  <1> DEFINE Below == {p \in Nat \X Nat : p[1] < p[2]}
  <1>1. IsWellFoundedOn(Below, Nat)
    BY NatLessThanWellFounded, Zenon DEF OpToRel
  <1>2. free \subseteq Nat
    BY FaceVideoAssumption
  <1>3. PICK s \in free : \A t \in free : ~ (<<t, s>> \in Below)
    <2> HIDE DEF Below
    <2> QED
      BY <1>1, <1>2, WFMin
  <1>4. \A t \in free : ~ (t < s)
    BY <1>2, <1>3
  <1>5. \A t \in free : s <= t
    BY <1>2, <1>4
  <1> QED
    BY <1>5

LEMMA IdleFacts ==
  /\ Idle \in SlotStates /\ Idle.fd = None /\ Idle.pc = "none" /\ Idle.sent = 0 /\ Idle.frame = 0
  /\ [Idle EXCEPT !.pc = "ended"] =
        [fd |-> None, pc |-> "ended", sent |-> 0, frame |-> 0]
  /\ \A n \in Nat : [Idle EXCEPT !.fd = n, !.pc = "request"] =
        [fd |-> n, pc |-> "request", sent |-> 0, frame |-> 0]
  <1>1. None \in Nat \cup {None} /\ 0 \in Nat
    OBVIOUS
  <1>2. Idle \in SlotStates
    BY <1>1 DEF Idle, SlotStates
  <1>3. [Idle EXCEPT !.pc = "ended"] = [fd |-> None, pc |-> "ended", sent |-> 0, frame |-> 0]
    BY DEF Idle
  <1>4. ASSUME NEW n \in Nat
        PROVE  [Idle EXCEPT !.fd = n, !.pc = "request"] =
                  [fd |-> n, pc |-> "request", sent |-> 0, frame |-> 0]
    <2> DEFINE c == [Idle EXCEPT !.fd = n, !.pc = "request"]
    <2>1. c.fd = n /\ c.pc = "request" /\ c.sent = 0 /\ c.frame = 0
      BY DEF Idle
    <2>2. c \in SlotStates
      BY <1>2 DEF SlotStates
    <2> HIDE DEF c
    <2>3. c = [fd |-> n, pc |-> "request", sent |-> 0, frame |-> 0]
      BY <2>1, <2>2 DEF SlotStates
    <2> QED
      BY <2>3 DEF c
  <1>5. Idle.fd = None /\ Idle.pc = "none" /\ Idle.sent = 0 /\ Idle.frame = 0
    BY DEF Idle
  <1> QED
    BY <1>2, <1>3, <1>4, <1>5

\* Whose a socket is, now and after a step.
Owned(open, sl, a) ==
    /\ \A x : x \in open <=> \/ \E s \in Slots : sl[s].fd # None /\ sl[s].fd = x
                             \/ a # None /\ x = a
    /\ \A s, t \in Slots : s # t /\ sl[s].fd # None => sl[s].fd # sl[t].fd

LEMMA OwnedFacts ==
  ASSUME NEW open, NEW sl, NEW a
  PROVE  Owned(open, sl, a) <=>
           /\ open = {sl[s].fd : s \in {t \in Slots : sl[t].fd # None}}
                        \cup (IF a = None THEN {} ELSE {a})
           /\ \A s, t \in Slots : s # t /\ sl[s].fd # None => sl[s].fd # sl[t].fd
  <1> DEFINE all == {sl[s].fd : s \in {t \in Slots : sl[t].fd # None}}
                       \cup (IF a = None THEN {} ELSE {a})
  <1>1. \A x : x \in all <=> \/ \E s \in Slots : sl[s].fd # None /\ sl[s].fd = x
                             \/ a # None /\ x = a
    OBVIOUS
  <1>2. open = all <=> \A x : x \in open <=> x \in all
    OBVIOUS
  <1> HIDE DEF all
  <1>3. ASSUME Owned(open, sl, a)
        PROVE  /\ open = all
               /\ \A s, t \in Slots : s # t /\ sl[s].fd # None => sl[s].fd # sl[t].fd
    BY <1>1, <1>2, <1>3, Zenon DEF Owned
  <1>4. ASSUME /\ open = all
               /\ \A s, t \in Slots : s # t /\ sl[s].fd # None => sl[s].fd # sl[t].fd
        PROVE  Owned(open, sl, a)
    BY <1>1, <1>4, Zenon DEF Owned
  <1> QED
    BY <1>3, <1>4 DEF all

LEMMA OwnedSockets ==
  /\ SocketsAreOwned <=> Owned(sockets, slots, arriving)
  /\ SocketsAreOwned' <=> Owned(sockets', slots', arriving')
  BY OwnedFacts DEF SocketsAreOwned

\* The steps that leave the clients alone.
LEMMA ServerSteps ==
  ASSUME ImageTypes, [Next]_vars
  PROVE  \/ UNCHANGED <<acceptVars, clientVars>>
            /\ (server'.number = server.number \/ server'.number = server.number + 1)
         \/ MainStart \/ Killed \/ Acceptor \/ \E s \in Slots : Client(s)
  <1> USE DEF elsewhere, workerKeeps, previewVars
  <1>0. image \in Faithful /\ job \in Faithful
    BY DEF ImageTypes, Recognised
  <1>1. CASE UNCHANGED vars \/ Driver
    BY <1>1 DEF vars, Driver, serverVars
  <1>2. CASE Capture
    BY <1>2 DEF Capture, CaptureOpen, CaptureAcquire, CaptureStops, CaptureConvert, CapturePublish,
                CaptureClose, serverVars
  <1>3. CASE MainConstruct \/ MainTake \/ MainRecognise \/ MainEnrol \/ MainSave \/ MainSubmit
             \/ MainEnds \/ MainFinish
    BY <1>3 DEF MainConstruct, MainTake, MainRecognise, MainEnrol, MainSave, MainSubmit, MainEnds,
                MainFinish, serverVars
  <1>4. CASE UnwindPreview \/ UnwindServer \/ UnwindClients
    BY <1>4 DEF UnwindPreview, UnwindServer, UnwindClients, serverVars
  <1>5. CASE MainPublish
    <2>1. UNCHANGED <<acceptVars, clientVars>> /\ (UNCHANGED server \/ ServerPublish(image))
      BY <1>5 DEF MainPublish
    <2> QED
      BY <1>0, <2>1, ShownFacts
  <1>6. CASE Worker
    <2>1. UNCHANGED <<acceptVars, clientVars>> /\ (UNCHANGED server \/ ServerPublish(job))
      BY <1>6 DEF Worker, WorkerTake, WorkerEncode, WorkerPublish, serverVars
    <2> QED
      BY <1>0, <2>1, ShownFacts
  <1> QED
    BY <1>1, <1>2, <1>3, <1>4, <1>5, <1>6 DEF Next, Over, Main

\* A client of a slot goes on: its socket stays the same.
LEMMA ClientMoves ==
  ASSUME NEW s \in Slots, NEW c \in SlotStates, SlotInv, Moves(s, c),
         UNCHANGED <<acceptVars, server, sockets>>,
         c.fd = slots[s].fd, GoodSlot(c, server.number, connections, arriving)
  PROVE  SlotInv'
  <1>1. /\ slots' = [slots EXCEPT ![s] = c]
        /\ UNCHANGED <<apc, arriving, into, connections, server, sockets>>
    BY DEF Moves, acceptVars
  <1>2. slots' \in [Slots -> SlotStates] /\ \A t \in Slots : slots'[t].fd = slots[t].fd
    BY <1>1 DEF SlotInv
  <1>3. \A t \in Slots : GoodSlot(slots'[t], server'.number, connections', arriving')
    BY <1>1 DEF SlotInv
  <1>4. SocketsAreOwned'
    BY <1>1, <1>2, OwnedSockets DEF SlotInv, SocketsAreOwned
  <1> QED
    BY <1>1, <1>2, <1>3, <1>4 DEF SlotInv

LEMMA ClientStep ==
  ASSUME SlotInv, server.number \in Nat, NEW s \in Slots, Client(s)
  PROVE  SlotInv'
  <1>0. /\ slots[s] \in SlotStates /\ GoodSlot(slots[s], server.number, connections, arriving)
        /\ slots \in [Slots -> SlotStates]
    BY DEF SlotInv
  <1>1. CASE ClientRequest(s)
    <2>1. PICK pc \in {"leave", "stream"} : Moves(s, [slots[s] EXCEPT !.pc = pc])
      BY <1>1 DEF ClientRequest
    <2> DEFINE c == [slots[s] EXCEPT !.pc = pc]
    <2>2. /\ c \in SlotStates /\ c.fd = slots[s].fd /\ c.pc = pc /\ c.sent = slots[s].sent
          /\ c.frame = slots[s].frame
      BY <1>0 DEF SlotStates
    <2>3. UNCHANGED <<acceptVars, server, sockets>> /\ slots[s].pc = "request"
      BY <1>1 DEF ClientRequest, clientKeeps, serverKeeps
    <2>4. Moves(s, c)
      BY <2>1
    <2> HIDE DEF c
    <2>5. GoodSlot(c, server.number, connections, arriving)
      BY <1>0, <2>2, <2>3 DEF GoodSlot, Ended
    <2> QED
      BY <2>2, <2>3, <2>4, <2>5, ClientMoves
  <1>2. CASE ClientStream(s)
    <2>1. PICK pc \in {"leave", "send"}, n \in {slots[s].frame, server.number} :
            /\ Moves(s, [slots[s] EXCEPT !.pc = pc, !.frame = n])
            /\ pc = "send" => n = server.number
      <3>1. [slots[s] EXCEPT !.pc = "leave"] =
              [slots[s] EXCEPT !.pc = "leave", !.frame = slots[s].frame]
        BY <1>0 DEF SlotStates
      <3> QED
        BY <1>2, <3>1 DEF ClientStream
    <2> DEFINE c == [slots[s] EXCEPT !.pc = pc, !.frame = n]
    <2>2. /\ c \in SlotStates /\ c.fd = slots[s].fd /\ c.pc = pc /\ c.sent = slots[s].sent
          /\ c.frame = n
      BY <1>0 DEF SlotStates
    <2>3. UNCHANGED <<acceptVars, server, sockets>> /\ slots[s].pc = "stream"
      BY <1>2 DEF ClientStream, clientKeeps, serverKeeps
    <2>4. Moves(s, c)
      BY <2>1
    <2> HIDE DEF c
    <2>5. GoodSlot(c, server.number, connections, arriving)
      BY <1>0, <2>1, <2>2, <2>3 DEF GoodSlot, Ended
    <2> QED
      BY <2>2, <2>3, <2>4, <2>5, ClientMoves
  <1>3. CASE ClientSend(s)
    <2>1. PICK c : /\ Moves(s, c)
                   /\ \/ c = [slots[s] EXCEPT !.pc = "stream", !.sent = slots[s].frame, !.frame = 0]
                      \/ c = [slots[s] EXCEPT !.pc = "leave"]
      BY <1>3 DEF ClientSend
    <2>2. /\ c \in SlotStates /\ c.fd = slots[s].fd /\ c.pc \in {"stream", "leave"}
          /\ \/ c.sent = slots[s].frame /\ c.frame = 0
             \/ c.sent = slots[s].sent /\ c.frame = slots[s].frame
      <3>1. CASE c = [slots[s] EXCEPT !.pc = "stream", !.sent = slots[s].frame, !.frame = 0]
        <4>1. 0 \in Nat
          OBVIOUS
        <4> QED
          BY <1>0, <3>1, <4>1 DEF SlotStates
      <3>2. CASE c = [slots[s] EXCEPT !.pc = "leave"]
        BY <1>0, <3>2 DEF SlotStates
      <3> QED
        BY <2>1, <3>1, <3>2
    <2>3. UNCHANGED <<acceptVars, server, sockets>> /\ slots[s].pc = "send"
      BY <1>3 DEF ClientSend, clientKeeps, serverKeeps
    <2>4. slots[s].frame \in Nat /\ slots[s].sent \in Nat
      BY <1>0 DEF SlotStates
    <2>5. GoodSlot(c, server.number, connections, arriving)
      BY <1>0, <2>2, <2>3, <2>4 DEF GoodSlot, Ended
    <2> QED
      BY <2>1, <2>2, <2>3, <2>5, ClientMoves
  <1>4. CASE ClientLeave(s)
    <2>1. /\ slots[s].pc = "leave" /\ sockets' = sockets \ {slots[s].fd}
          /\ slots' = [slots EXCEPT ![s] = [fd |-> None, pc |-> "ended", sent |-> 0, frame |-> 0]]
          /\ UNCHANGED <<apc, arriving, into, connections, server>> /\ apc # "join"
      BY <1>4, IdleFacts DEF ClientLeave, Moves, clientKeeps, serverKeeps, acceptVars
    <2>2. /\ [fd |-> None, pc |-> "ended", sent |-> 0, frame |-> 0] \in SlotStates
          /\ GoodSlot([fd |-> None, pc |-> "ended", sent |-> 0, frame |-> 0], server.number,
                      connections, arriving)
      BY DEF SlotStates, GoodSlot, Ended
    <2>3. slots[s].fd # None /\ arriving = None
      BY <1>0, <2>1 DEF SlotInv, GoodSlot, Ended
    <2>4. /\ slots'[s].fd = None /\ \A t \in Slots \ {s} : slots'[t] = slots[t]
          /\ slots' \in [Slots -> SlotStates]
      BY <1>0, <2>1, <2>2
    <2>5. \A t \in Slots : GoodSlot(slots'[t], server'.number, connections', arriving')
      BY <1>0, <2>1, <2>2, <2>4 DEF SlotInv
    <2>6. SocketsAreOwned'
      <3>1. /\ \A x : x \in sockets <=> \E t \in Slots : slots[t].fd # None /\ slots[t].fd = x
            /\ \A t, u \in Slots : t # u /\ slots[t].fd # None => slots[t].fd # slots[u].fd
        BY <2>3, OwnedSockets DEF SlotInv, Owned
      <3>2. \A x : x \in sockets' <=> \E t \in Slots : slots'[t].fd # None /\ slots'[t].fd = x
        BY <2>1, <2>3, <2>4, <3>1
      <3>3. \A t, u \in Slots : t # u /\ slots'[t].fd # None => slots'[t].fd # slots'[u].fd
        BY <2>4, <3>1
      <3>4. arriving' = None
        BY <2>1, <2>3
      <3> QED
        BY <3>2, <3>3, <3>4, OwnedSockets DEF Owned
    <2> QED
      BY <2>1, <2>4, <2>5, <2>6 DEF SlotInv
  <1> QED
    BY <1>1, <1>2, <1>3, <1>4 DEF Client

\* A connection is numbered below those that came before it, and what it is
\* placed in is free.
LEMMA AcceptStep ==
  ASSUME SlotInv, apc \in {"none", "poll", "join", "ended"}, Acceptor
  PROVE  SlotInv'
  <1>0. /\ slots \in [Slots -> SlotStates] /\ connections \in Nat
        /\ \A s \in Slots : GoodSlot(slots[s], server.number, connections, arriving)
        /\ \A s \in Slots : slots[s].fd \in Nat \cup {None}
    BY DEF SlotInv, SlotStates
  <1>1. CASE Accept
    <2>1. /\ apc = "poll" /\ connections > 0 /\ connections' = connections - 1
          /\ UNCHANGED <<slots, server>> /\ arriving = None
      BY <1>1 DEF Accept, serverKeeps, SlotInv
    <2>2. connections' \in Nat /\ connections' < connections
      BY <1>0, <2>1
    <2>3. Owned(sockets, slots, None)
      BY <2>1, OwnedSockets DEF SlotInv
    <2>4. CASE UNCHANGED <<apc, arriving, into, sockets>>
      <3>1. \A s \in Slots : GoodSlot(slots'[s], server'.number, connections', arriving')
        BY <1>0, <2>1, <2>2, <2>4 DEF GoodSlot
      <3>2. SocketsAreOwned'
        BY <2>1, <2>3, <2>4, OwnedSockets
      <3> QED
        BY <1>0, <2>1, <2>2, <2>4, <3>1, <3>2 DEF SlotInv
    <2>5. CASE ~UNCHANGED <<apc, arriving, into, sockets>>
      <3> DEFINE free == {s \in Slots : slots[s].fd = None}
      <3>1. /\ free # {} /\ into' = CHOOSE s \in free : \A t \in free : s <= t
            /\ apc' = "join" /\ arriving' = connections /\ sockets' = sockets \cup {connections}
        BY <1>1, <2>5 DEF Accept
      <3>2. into' \in free
        <4>1. free \subseteq Slots
          OBVIOUS
        <4> HIDE DEF free
        <4> QED
          BY <3>1, <4>1, LeastSlot
      <3>3. connections # None
        BY <1>0, BufferFacts
      <3>4. \A s \in Slots : GoodSlot(slots'[s], server'.number, connections', arriving')
        BY <1>0, <2>1, <2>2, <3>1 DEF GoodSlot
      <3>5. Owned(sockets', slots', arriving')
        BY <2>1, <2>3, <3>1, <3>3 DEF Owned
      <3> QED
        BY <1>0, <2>1, <2>2, <3>1, <3>2, <3>3, <3>4, <3>5, OwnedSockets DEF SlotInv
    <2> QED
      BY <2>4, <2>5
  <1>2. CASE AcceptJoin
    <2>1. /\ apc = "join" /\ apc' = "poll" /\ arriving' = None /\ UNCHANGED <<connections, server>>
          /\ into \in Slots /\ slots[into].fd = None /\ arriving # None
          /\ arriving > connections /\ arriving \in Nat
      BY <1>2 DEF AcceptJoin, serverKeeps, SlotInv
    <2>2. Owned(sockets, slots, arriving) /\ \A s \in Slots : slots[s].fd # arriving
      BY <1>0, <2>1, OwnedSockets DEF SlotInv, GoodSlot
    <2>3. PICK c \in SlotStates :
            /\ slots' = [slots EXCEPT ![into] = c] /\ c.sent = 0 /\ c.frame = 0
            /\ \/ c.fd = arriving /\ c.pc = "request" /\ sockets' = sockets
               \/ c.fd = None /\ c.pc = "none" /\ sockets' = sockets \ {arriving}
      <3>1. CASE /\ slots' = [slots EXCEPT ![into] = [Idle EXCEPT !.fd = arriving, !.pc = "request"]]
                 /\ UNCHANGED sockets
        <4> DEFINE c == [fd |-> arriving, pc |-> "request", sent |-> 0, frame |-> 0]
        <4>1. slots' = [slots EXCEPT ![into] = c]
          BY <2>1, <3>1, IdleFacts
        <4>2. c \in SlotStates /\ c.sent = 0 /\ c.frame = 0 /\ c.fd = arriving /\ c.pc = "request"
          BY <2>1 DEF SlotStates
        <4> HIDE DEF c
        <4> QED
          BY <3>1, <4>1, <4>2
      <3>2. CASE slots' = [slots EXCEPT ![into] = Idle] /\ sockets' = sockets \ {arriving}
        BY <3>2, IdleFacts
      <3> QED
        BY <1>2, <3>1, <3>2 DEF AcceptJoin
    <2>4. /\ slots' \in [Slots -> SlotStates] /\ slots'[into] = c
          /\ \A s \in Slots \ {into} : slots'[s] = slots[s]
      BY <1>0, <2>1, <2>3
    <2>5. \A s \in Slots : GoodSlot(slots'[s], server'.number, connections', arriving')
      <3>1. \A s \in Slots \ {into} : GoodSlot(slots'[s], server'.number, connections', arriving')
        BY <1>0, <2>1, <2>4 DEF GoodSlot
      <3>2. GoodSlot(slots[into], server.number, connections, arriving) /\ slots[into] \in SlotStates
        BY <1>0, <2>1
      <3>3. 0 <= server.number
        BY <2>1, <3>2 DEF GoodSlot
      <3>4. GoodSlot(c, server.number, connections, None)
        BY <2>1, <2>3, <3>3 DEF GoodSlot, Ended
      <3> QED
        BY <2>1, <2>4, <3>1, <3>4
    <2>6. Owned(sockets', slots', None)
      <3>1. CASE c.fd = arriving /\ sockets' = sockets
        BY <2>1, <2>2, <2>4, <3>1 DEF Owned
      <3>2. CASE c.fd = None /\ sockets' = sockets \ {arriving}
        BY <2>1, <2>2, <2>4, <3>2 DEF Owned
      <3> QED
        BY <2>3, <3>1, <3>2
    <2> QED
      BY <1>0, <2>1, <2>4, <2>5, <2>6, OwnedSockets DEF SlotInv
  <1>3. CASE AcceptEnds
    <2>1. apc = "poll" /\ apc' = "ended" /\ UNCHANGED <<connections, arriving, slots, sockets, server>>
      BY <1>3 DEF AcceptEnds, serverKeeps, clientVars
    <2> QED
      BY <2>1, OwnedSockets DEF SlotInv
  <1> QED
    BY <1>1, <1>2, <1>3 DEF Acceptor

LEMMA SlotStep ==
  ASSUME CameraInv, ImageTypes, MainTypes, SlotInv, [Next]_vars
  PROVE  SlotInv'
  <1>0. /\ server.number \in Nat /\ apc \in {"none", "poll", "join", "ended"}
        /\ slots \in [Slots -> SlotStates]
        /\ \A s \in Slots : GoodSlot(slots[s], server.number, connections, arriving)
    BY DEF ImageTypes, MainTypes, SlotInv
  <1>1. CASE /\ UNCHANGED <<acceptVars, clientVars>>
             /\ server'.number = server.number \/ server'.number = server.number + 1
    <2>1. UNCHANGED <<apc, arriving, into, connections, slots, sockets>>
      BY <1>1 DEF acceptVars, clientVars
    <2>2. \A s \in Slots : GoodSlot(slots'[s], server'.number, connections', arriving')
      <3>1. \A s \in Slots : slots[s].sent \in Nat /\ slots[s].frame \in Nat
        BY <1>0 DEF SlotStates
      <3> QED
        BY <1>0, <1>1, <2>1, <3>1 DEF GoodSlot
    <2> QED
      BY <2>1, <2>2, OwnedSockets DEF SlotInv
  <1>2. CASE MainStart
    <2>1. /\ apc # "join" /\ apc' # "join"
          /\ UNCHANGED <<arriving, connections, slots, sockets, server>>
      BY <1>2 DEF MainStart, CameraInv, clientVars
    <2> QED
      BY <2>1, OwnedSockets DEF SlotInv
  <1>3. CASE Killed
    <2>1. /\ apc' = "ended" /\ slots' = [s \in Slots |-> Idle] /\ sockets' = {} /\ arriving' = None
          /\ UNCHANGED <<connections, server>>
      BY <1>3 DEF Killed
    <2>2. GoodSlot(Idle, server'.number, connections', arriving')
      <3>1. Idle.fd = None /\ Idle.pc = "none" /\ Idle.sent = 0 /\ Idle.frame = 0
        BY IdleFacts
      <3>2. server'.number \in Nat
        BY <1>0, <2>1
      <3> QED
        BY <3>1, <3>2 DEF GoodSlot, Ended
    <2>3. Owned(sockets', slots', arriving')
      BY <2>1, IdleFacts DEF Owned
    <2> QED
      BY <2>1, <2>2, <2>3, IdleFacts, OwnedSockets DEF SlotInv
  <1>4. CASE Acceptor
    BY <1>0, <1>4, AcceptStep
  <1>5. CASE \E s \in Slots : Client(s)
    BY <1>0, <1>5, ClientStep
  <1> QED
    BY <1>1, <1>2, <1>3, <1>4, <1>5, ServerSteps

-----------------------------------------------------------------------------
(* How main() leaves.                                                       *)

LEMMA MainLeaves ==
  ASSUME ImageTypes, [Next]_vars
  PROVE  /\ \/ UNCHANGED exit /\ (mpc' \in Unwinding <=> mpc \in Unwinding)
            \/ exit' = 1 /\ mpc' = "unwind" /\ mpc \notin Unwinding
            \/ MainEnds /\ exit' \in {0, 1} /\ mpc' = "unwind" /\ mpc \notin Unwinding
         /\ mpc' = "unwindClients" => UnwindServer \/ mpc = "unwindClients"
         /\ mpc' = "ended" => UnwindClients \/ mpc = "ended"
  <1> USE DEF Unwinding
  <1>1. CASE Others
    BY <1>1, OthersKeepMain DEF mainVars
  <1>2. CASE MainConstruct \/ MainStart \/ MainTake
    BY <1>2 DEF MainConstruct, MainStart, MainTake, Throw, Leave
  <1>3. CASE MainRecognise
    BY <1>3, RecogniseFacts DEF ImageTypes, Throw, Leave
  <1>4. CASE MainEnrol \/ MainSave
    BY <1>4 DEF MainEnrol, MainSave, Throw, Leave
  <1>5. CASE MainSubmit \/ MainPublish \/ MainFinish
    BY <1>5 DEF MainSubmit, MainPublish, MainFinish, Throw, Leave
  <1>6. CASE MainEnds
    BY <1>6 DEF MainEnds, Leave
  <1>7. CASE UnwindPreview \/ UnwindServer \/ UnwindClients
    BY <1>7 DEF UnwindPreview, UnwindServer, UnwindClients
  <1>8. CASE Killed
    BY <1>8 DEF Killed
  <1> QED
    BY <1>1, <1>2, <1>3, <1>4, <1>5, <1>6, <1>7, <1>8, OtherSteps DEF Main

\* While main() unwinds, no thread is started, and what has ended stays so.
LEMMA EndedStays ==
  ASSUME ImageTypes, MainTypes, SlotInv, [Next]_vars, mpc \in Unwinding
  PROVE  /\ UNCHANGED <<gallery, enrolled>>
         /\ Ended(wpc) => /\ UNCHANGED wpc /\ preview'.error = preview.error
                          /\ (~session => ~session')
         /\ Ended(apc) => /\ UNCHANGED apc
                          /\ \A s \in Slots : Ended(slots[s].pc) => Ended(slots'[s].pc)
  <1> USE DEF Ended
  <1>1. CASE UNCHANGED vars \/ Driver
    <2>1. UNCHANGED <<gallery, enrolled, wpc, preview, session, apc, slots>>
      BY <1>1 DEF vars, Driver, elsewhere, mppVars, mainVars, previewVars, serverVars, acceptVars,
                  clientVars
    <2> QED
      BY <2>1
  <1>2. CASE Capture
    <2>1. UNCHANGED elsewhere
      BY <1>2 DEF Capture, CaptureOpen, CaptureAcquire, CaptureStops, CaptureConvert, CapturePublish,
                  CaptureClose
    <2>2. UNCHANGED <<gallery, enrolled, wpc, preview, session, apc, slots>>
      BY <2>1 DEF elsewhere, mppVars, mainVars, previewVars, serverVars, acceptVars, clientVars
    <2> QED
      BY <2>2
  <1>3. CASE Main
    <2>1. UnwindPreview \/ UnwindServer \/ UnwindClients
      BY <1>3, RecogniseFacts DEF Main, MainConstruct, MainStart, MainTake, MainEnrol, MainSave,
                  MainSubmit, MainPublish, MainEnds, MainFinish, Killed, Unwinding, ImageTypes
    <2>2. /\ UNCHANGED <<gallery, enrolled, wpc, apc, slots>> /\ preview'.error = preview.error
          /\ UNCHANGED session \/ ~session'
      BY <2>1 DEF UnwindPreview, UnwindServer, UnwindClients, MppClose, mppVars, previewVars,
                  serverVars, acceptVars, clientVars, ImageTypes
    <2> QED
      BY <2>2
  <1>4. CASE Worker
    <2>1. UNCHANGED <<gallery, enrolled>> /\ ~Ended(wpc)
      BY <1>4 DEF Worker, WorkerTake, WorkerEncode, WorkerPublish, workerKeeps, mainVars
    <2>2. UNCHANGED <<apc, slots>>
      BY <1>4 DEF Worker, WorkerTake, WorkerEncode, WorkerPublish, serverVars, acceptVars, clientVars
    <2> QED
      BY <2>1, <2>2
  <1>5. CASE Acceptor
    <2>1. UNCHANGED serverKeeps /\ ~Ended(apc)
      BY <1>5 DEF Acceptor, Accept, AcceptJoin, AcceptEnds
    <2>2. UNCHANGED <<gallery, enrolled, wpc, preview, session>>
      BY <2>1 DEF serverKeeps, mainVars, previewVars, mppVars
    <2> QED
      BY <2>1, <2>2
  <1>6. CASE \E s \in Slots : Client(s)
    <2>1. PICK s \in Slots : Client(s)
      BY <1>6
    <2>2. UNCHANGED clientKeeps
      BY <2>1 DEF Client, ClientRequest, ClientStream, ClientSend, ClientLeave
    <2>3. UNCHANGED <<gallery, enrolled, wpc, preview, session, apc>>
      BY <2>2 DEF clientKeeps, serverKeeps, mainVars, previewVars, mppVars, acceptVars
    <2>4. ~Ended(slots[s].pc) /\ \A t \in Slots \ {s} : slots'[t] = slots[t]
      BY <2>1 DEF Client, ClientRequest, ClientStream, ClientSend, ClientLeave, Moves, SlotInv
    <2> QED
      BY <2>3, <2>4
  <1> QED
    BY <1>1, <1>2, <1>3, <1>4, <1>5, <1>6 DEF Next, Over

LEMMA ExitStep ==
  ASSUME CameraTypes, CameraInv, BufferInv, ImageTypes, MainTypes, PresentInv, AccountInv, ExitInv,
         GalleryInv, SlotInv, [Next]_vars
  PROVE  AccountInv' /\ ExitInv'
  <1>0. /\ ExitTellsTheTruth /\ (exit # None <=> mpc \in Unwinding)
        /\ mpc \in {"unwindClients", "ended"} => Ended(wpc) /\ ~session
        /\ mpc = "ended" => Ended(apc) /\ \A s \in Slots : Ended(slots[s].pc)
    BY DEF ExitInv
  <1>1. AccountInv'
    BY CameraAccountStep, MainAccountStep, PreviewAccountStep DEF AccountInv
  <1>2. exit' # None <=> mpc' \in Unwinding
    <2>1. None # 0 /\ None # 1 /\ "unwind" \in Unwinding
      BY DEF None, Unwinding
    <2> QED
      BY <1>0, <2>1, MainLeaves
  <1>3. mpc' \in {"unwindClients", "ended"} => Ended(wpc') /\ ~session'
    <2>1. CASE UnwindServer
      BY <2>1 DEF UnwindServer, previewVars, MppClose
    <2>2. CASE UnwindClients
      BY <1>0, <2>2 DEF UnwindClients, previewVars, mppVars
    <2>3. CASE mpc \in {"unwindClients", "ended"}
      BY <1>0, <2>3, EndedStays DEF Unwinding
    <2> QED
      BY <2>1, <2>2, <2>3, MainLeaves
  <1>4. mpc' = "ended" => Ended(apc') /\ \A s \in Slots : Ended(slots'[s].pc)
    <2>1. CASE UnwindClients
      BY <2>1 DEF UnwindClients, serverVars, acceptVars, clientVars
    <2>2. CASE mpc = "ended"
      BY <1>0, <2>2, EndedStays DEF Unwinding
    <2> QED
      BY <2>1, <2>2, MainLeaves
  <1>5. ExitTellsTheTruth'
    <2>1. CASE UNCHANGED exit
      <3> SUFFICES ASSUME exit = 0 PROVE ExitTellsTheTruth'
        BY <2>1 DEF ExitTellsTheTruth
      <3>1. mpc \in Unwinding
        BY <1>0 DEF None
      <3>2. UNCHANGED <<gallery, enrolled, wpc>> /\ preview'.error = preview.error
        BY <1>0, <3>1, EndedStays DEF ExitTellsTheTruth
      <3> QED
        BY <1>0, <2>1, <3>2 DEF ExitTellsTheTruth
    <2>2. CASE exit' = 1
      BY <2>2 DEF ExitTellsTheTruth
    <2>3. CASE MainEnds
      <3>1. /\ mpc = "finish" /\ Ended(wpc) /\ UNCHANGED <<preview, wpc, enrolled, gallery>>
            /\ exit' = 0 => ~preview.error /\ enrolled
        BY <2>3 DEF MainEnds, Leave, previewVars
      <3>2. gallery.file \in {0, gallery.samples}
        BY <1>0, <3>1 DEF GalleryInv, Unwinding, None
      <3> QED
        BY <3>1, <3>2 DEF ExitTellsTheTruth
    <2> QED
      BY <2>1, <2>2, <2>3, MainLeaves
  <1> QED
    BY <1>1, <1>2, <1>3, <1>4, <1>5 DEF ExitInv

-----------------------------------------------------------------------------
LEMMA InitInv == Init => IInv
  <1> SUFFICES ASSUME Init PROVE IInv
    OBVIOUS
  <1> USE DEF Init, CameraInit, RknnInit, MppInit
  <1>1. CameraTypes /\ CameraInv /\ BufferInv
    <2>1. <<>> \in Seq(Buffers) /\ [b \in Buffers |-> 0] \in [Buffers -> Int]
          /\ ~NoCamera.held /\ NoCamera.out = None /\ NoCamera.mapped = {}
          /\ OwnFds(NoCamera) = {None} /\ 0 \in 0 .. MaxFrames
      BY BufferFacts, CameraAssumption DEF NoCamera, OwnFds, Descriptors
    <2> QED
      BY <2>1, NoCameraTyped DEF CameraTypes, CameraInv, CameraOwns, BufferInv
  <1>2. ImageTypes /\ MainTypes
    BY ImageFacts DEF ImageTypes, MainTypes, NoFrame, Seen, None
  <1>3. FlowInv /\ NewerInv /\ PresentInv
    <2>1. /\ NoImage.sequence = 0 /\ server.image = NoImage /\ latest.image = NoImage
          /\ preview.pending = NoImage /\ ~latest.available
      BY ImageFacts DEF NoFrame
    <2>2. AllBefore(1) /\ FlowInv
      BY <2>1 DEF AllBefore, FlowInv
    <2>3. ~camera.held /\ filled = <<>> /\ produced + 1 = 1
      BY DEF NoCamera
    <2>4. NewerInv
      BY <2>2, <2>3 DEF NewerInv
    <2> QED
      BY <2>1, <2>2, <2>4 DEF PresentInv, Handling, Encoding
  <1>4. AccountInv /\ ExitInv /\ GalleryInv
    <2>1. /\ server.number = 0 /\ preview.pending = NoImage /\ preview.overwrites = 0
          /\ latest.captured = 0 /\ latest.dropped = 0 /\ ~latest.available /\ ~camera.held
          /\ Len(filled) = 0 /\ job = NoImage /\ mpc \notin Handling \cup {"killed"}
          /\ mpc \notin Unwinding
      BY DEF NoFrame, NoCamera, Handling, Unwinding
    <2>2. CameraAccount
      BY <2>1 DEF CameraAccount, One
    <2>3. MainAccount /\ PreviewAccount
      BY <2>1 DEF MainAccount, MainHas, PreviewAccount, PreviewHas, One
    <2>4. ExitTellsTheTruth /\ (exit # None <=> mpc \in Unwinding)
      BY <2>1 DEF ExitTellsTheTruth, None
    <2> QED
      BY <2>1, <2>2, <2>3, <2>4 DEF AccountInv, ExitInv, GalleryInv, None
  <1>5. NpuInv
    BY DEF NpuInv, NoBackends, Handling
  <1>6. SlotInv
    <2>1. connections \in Nat
      BY FaceVideoAssumption
    <2>2. \A s \in Slots : slots[s] = Idle
      OBVIOUS
    <2>3. GoodSlot(Idle, server.number, connections, arriving)
      <3>1. Idle.fd = None /\ Idle.pc = "none" /\ Idle.sent = 0 /\ Idle.frame = 0
        BY IdleFacts
      <3>2. server.number = 0
        BY DEF NoFrame
      <3> QED
        BY <3>1, <3>2 DEF GoodSlot, Ended
    <2>4. SocketsAreOwned
      BY <2>2, IdleFacts, OwnedSockets DEF Owned
    <2> QED
      BY <2>1, <2>2, <2>3, <2>4, IdleFacts DEF SlotInv
  <1> QED
    BY <1>1, <1>2, <1>3, <1>4, <1>5, <1>6 DEF IInv

LEMMA StepInv == IInv /\ [Next]_vars => IInv'
  <1> SUFFICES ASSUME IInv, [Next]_vars PROVE IInv'
    OBVIOUS
  <1>1. CameraTypes' /\ CameraInv' /\ BufferInv'
    BY CameraStep DEF IInv
  <1>2. ImageTypes' /\ MainTypes'
    BY ImageTypesStep, MainTypesStep DEF IInv, MainTypes
  <1>3. FlowInv' /\ NewerInv' /\ PresentInv'
    BY FlowStep, NewerStep, PresentStep DEF IInv
  <1>4. AccountInv' /\ ExitInv' /\ GalleryInv'
    BY ExitStep, GalleryStep DEF IInv
  <1>5. NpuInv' /\ SlotInv'
    BY NpuStep, SlotStep DEF IInv
  <1> QED
    BY <1>1, <1>2, <1>3, <1>4, <1>5 DEF IInv

\* The inductive invariant: whose pixels an image has, where it is counted, and
\* whose every descriptor, socket and context is.
THEOREM Invariance == Spec => []IInv
  <1> QED
    BY InitInv, StepInv, PTL DEF Spec

\* What convert() copies out of the converter's buffer, latest, the preview's
\* job and publish() hand on: whatever the threads do, a published frame has the
\* pixels of the frame whose number it bears.
THEOREM PublishedPixels == Spec => []PreviewShowsItsFrame
  <1>1. IInv => PreviewShowsItsFrame
    BY DEF IInv, ImageTypes, Recognised, Faithful, PreviewShowsItsFrame
  <1> QED
    BY Invariance, <1>1, PTL

\* detect() and embed(): no published frame bears boxes that the detector found
\* in another one, or names from an embedding the recognizer made of another one,
\* also when runs of either fail.
THEOREM PublishedFaces == Spec => []FacesAreOfTheFrame
  <1>1. IInv => FacesAreOfTheFrame
    BY DEF IInv, ImageTypes, Recognised, FacesAreOfTheFrame
  <1> QED
    BY Invariance, <1>1, PTL

\* The counters of Latest, of main() and of AsyncPreview account for the images
\* that were converted (frames of the warm-up and corrupt ones are not among
\* them) but for the one main() had when it threw, the job of a worker that
\* threw and the job that AsyncPreview::finish discards; and main() returns 0
\* only when the worker has not thrown and an enrollment has been saved.
THEOREM EveryFrameIsAccounted == Spec => []LossesAreTold
  <1>1. IInv => LossesAreTold
    BY Accounts DEF IInv, AccountInv, ExitInv, LossesAreTold
  <1> QED
    BY Invariance, <1>1, PTL

\* PreviewServer: the open sockets are those of its slots and of the connection
\* it places, and accept_loop joins only threads that are past clients_mutex.
THEOREM ClientsAreOwned == Spec => []ServerOwnsItsClients
  <1>1. IInv => ServerOwnsItsClients
    BY DEF IInv, SlotInv, GoodSlot, ServerOwnsItsClients, JoinedThreadsHaveEnded
  <1> QED
    BY Invariance, <1>1, PTL

\* The types, and what each destructor and each handler gives back: the camera's
\* descriptors and mappings, the encoder's frame and packet, the NPU's contexts,
\* the sockets and the temporary gallery.
THEOREM NothingIsLeftBehind == Spec => []NothingIsLeft
  <1>1. ASSUME IInv
        PROVE  NothingIsLeft
    <2> USE <1>1 DEF IInv
    <2>1. /\ camera.failed \in BOOLEAN /\ camera.held = (camera.out # None)
          /\ fds \subseteq 0 .. Device /\ maps \subseteq Buffers /\ 0 \in fds
      <3>1. /\ camera.failed \in BOOLEAN /\ camera.held \in BOOLEAN
            /\ (camera.held <=> camera.out # None) /\ camera.fd \in {None, Device}
            /\ camera.mapped \in {{}, Buffers}
        BY DEF CameraTypes, Cameras
      <3>2. fds = {0} \cup (OwnFds(camera) \ {None}) /\ maps = camera.mapped
        BY DEF CameraInv, CameraOwns
      <3>3. Device \in 0 .. Device /\ 0 \in 0 .. Device /\ Buffers \subseteq 0 .. Device
        BY CameraAssumption DEF Device, Buffers
      <3>4. fds \subseteq 0 .. Device /\ 0 \in fds
        BY <3>1, <3>2, <3>3 DEF OwnFds
      <3> QED
        BY <3>1, <3>2, <3>4
    <2>2. /\ processed \in 0 .. MaxFrames
          /\ \A s \in Slots : slots[s].fd \in sockets \cup {None} /\ slots[s].sent \in 0 .. MaxFrames
      <3>1. /\ processed >= server.number /\ latest.captured >= processed
            /\ produced >= latest.captured /\ MaxFrames >= produced
        <4>1. CameraAccount /\ MainAccount /\ PreviewAccount
          BY DEF AccountInv
        <4>2. produced \in 0 .. MaxFrames
          BY DEF CameraTypes
        <4>3. MaxFrames >= produced
          BY <4>2, CameraAssumption
        <4>4. produced >= latest.captured
          BY <4>1, AccountTypes DEF CameraAccount, One
        <4>5. latest.captured >= processed
          BY <4>1, AccountTypes DEF MainAccount, MainHas, One
        <4>6. processed >= server.number
          BY <4>1, AccountTypes, SMTT(20) DEF PreviewAccount, PreviewHas, One
        <4> QED
          BY <4>3, <4>4, <4>5, <4>6
      <3>2. /\ processed \in Nat /\ server.number \in Nat /\ MaxFrames \in Nat
            /\ latest.captured \in Nat /\ produced \in Nat
        BY AccountTypes, CameraAssumption
      <3>3. \A s \in Slots : slots[s].sent \in Nat /\ slots[s].sent <= server.number
        BY DEF SlotInv, SlotStates, GoodSlot
      <3>4. \A s \in Slots : slots[s].fd \in sockets \cup {None}
        BY OwnedSockets DEF SlotInv, Owned
      <3>5. \A n \in Nat : n <= server.number => n \in 0 .. MaxFrames
        BY <3>1, <3>2
      <3>6. processed \in 0 .. MaxFrames
        BY <3>1, <3>2
      <3> QED
        BY <3>3, <3>4, <3>5, <3>6
    <2>3. TypeOK
      <3>1. queued \subseteq Buffers /\ exit \in {None, 0, 1}
        BY DEF CameraTypes, MainTypes
      <3>2. \A s \in Slots :
               slots[s].pc \in {"none", "request", "stream", "send", "leave", "ended"}
        BY DEF SlotInv, SlotStates
      <3>3. /\ mpc \in {"setup", "start", "loop", "recognise", "enrol", "save", "rename", "submit",
                        "finish", "unwind", "unwindServer", "unwindClients", "ended", "killed"}
            /\ cpc \in {"none", "open", "loop", "convert", "publish", "close", "ended"}
            /\ wpc \in {"none", "wait", "encode", "publish", "ended"}
            /\ apc \in {"none", "poll", "join", "ended"}
        BY DEF MainTypes, Handling, Unwinding, Encoding
      <3> QED
        BY <2>1, <2>2, <3>1, <3>2, <3>3 DEF TypeOK
    <2>4. CameraLeavesNothing
      <3>1. Ended(cpc) => camera = NoCamera
        BY DEF CameraInv, Ended
      <3>2. OwnFds(NoCamera) = {None} /\ NoCamera.mapped = {}
        BY BufferFacts DEF NoCamera, OwnFds, Descriptors
      <3> QED
        BY <2>1, <3>1, <3>2 DEF CameraLeavesNothing, CameraInv, CameraOwns
    <2>5. EncoderFreesOnce
      BY DEF NpuInv, EncoderFreesOnce
    <2>6. ProgramLeavesNothing
      <3> SUFFICES ASSUME mpc = "ended"
                   PROVE  npu = {} /\ ~session /\ sockets = {} /\ gallery.temp = None
        BY DEF ProgramLeavesNothing
      <3>1. npu = {} /\ ~session /\ gallery.temp = None
        BY DEF NpuInv, ExitInv, GalleryInv
      <3>2. arriving = None /\ \A s \in Slots : slots[s].fd = None
        BY DEF ExitInv, SlotInv, GoodSlot, Ended
      <3>3. sockets = {}
        BY <3>2, OwnedSockets DEF SlotInv, Owned
      <3> QED
        BY <3>1, <3>3
    <2> QED
      BY <2>3, <2>4, <2>5, <2>6 DEF NothingIsLeft
  <1> QED
    BY Invariance, <1>1, PTL

-----------------------------------------------------------------------------
(* The channel to those who watch.                                          *)

\* The driver alone captures.
LEMMA ProducedSteps ==
  ASSUME IInv, [Next]_vars
  PROVE  UNCHANGED produced \/ Driver
  <1>1. Elsewhere => UNCHANGED produced
    BY ElsewhereKeepsCamera DEF cameraVars
  <1>2. CaptureOpen => UNCHANGED produced
    BY DEF CaptureOpen, CameraOpen, V4l2Close
  <1>3. CaptureAcquire => UNCHANGED produced
    BY DEF CaptureAcquire, CameraAcquire, cameraVars
  <1>4. CaptureConvert => UNCHANGED produced
    BY DEF CaptureConvert, CameraRelease
  <1>5. CaptureClose \/ Killed => UNCHANGED produced
    BY DEF CaptureClose, CameraClose, Killed, V4l2Close
  <1> QED
    BY <1>1, <1>2, <1>3, <1>4, <1>5, Steps

\* A frame that is published is a captured one, newer than the one before, and
\* shows itself.
LEMMA PublishIsShow ==
  ASSUME IInv, [Next]_vars, server' # server
  PROVE  Channel!Show
  <1>0. image \in Faithful /\ job \in Recognised /\ job \in Faithful
    BY DEF IInv, ImageTypes, Recognised
  <1>1. (MainPublish /\ ServerPublish(image)) \/ (WorkerPublish /\ ServerPublish(job))
    <2>1. ~ImagesStay
      BY StayingImages
    <2>2. CaptureConvert \/ CapturePublish \/ MainTake \/ MainSubmit \/ UnwindPreview \/ MainFinish
          => UNCHANGED server
      BY DEF CaptureConvert, CapturePublish, MainTake, MainSubmit, UnwindPreview, MainFinish,
             elsewhere, serverVars
    <2>3. MainRecognise \/ WorkerTake \/ WorkerEncode => UNCHANGED server
      BY DEF MainRecognise, WorkerTake, WorkerEncode, serverVars
    <2>4. MainPublish => UNCHANGED server \/ ServerPublish(image)
      BY DEF MainPublish
    <2>5. WorkerPublish => UNCHANGED server \/ ServerPublish(job)
      BY DEF WorkerPublish
    <2> QED
      BY <2>1, <2>2, <2>3, <2>4, <2>5, ImageSteps DEF Worker
  <1>2. UNCHANGED <<produced, slots>>
    BY <1>1 DEF MainPublish, WorkerPublish, mainKeeps, workerKeeps, cameraVars, clientVars
  <1>3. PICK i \in {image, job} :
          /\ i \in Recognised /\ i.sequence > 0 /\ i.sequence > server.image.sequence
          /\ server' = [number |-> server.number + 1, image |-> i]
    <2>1. CASE MainPublish /\ ServerPublish(image)
      <3>1. mpc = "submit"
        BY <2>1 DEF MainPublish
      <3>2. image \in Recognised /\ image.sequence > 0
        BY <3>1 DEF IInv, ImageTypes, PresentInv, Handling, Seen
      <3>3. server' = [number |-> server.number + 1, image |-> image]
        BY <1>0, <2>1, ShownFacts
      <3> QED
        BY <3>2, <3>3, PlaceTypes DEF IInv, FlowInv
    <2>2. CASE WorkerPublish /\ ServerPublish(job)
      <3>1. job.sequence > 0
        BY <2>2 DEF WorkerPublish, IInv, PresentInv, Encoding
      <3>2. server' = [number |-> server.number + 1, image |-> job]
        BY <1>0, <2>2, ShownFacts
      <3> QED
        BY <1>0, <3>1, <3>2, PlaceTypes DEF IInv, FlowInv
    <2> QED
      BY <1>1, <2>1, <2>2
  <1>4. i.pixels = i.sequence /\ i.seen = i.sequence
    BY <1>3 DEF Recognised, Faithful
  <1>5. i.sequence \in server.image.sequence + 1 .. produced
    <2>1. i.sequence < produced + 1
      BY <1>3 DEF IInv, NewerInv, AllBefore
    <2>2. i.sequence \in Nat /\ server.image.sequence \in Nat /\ produced \in Nat
      <3>1. i.sequence \in Nat
        BY <1>3 DEF Recognised, Faithful
      <3>2. server.image.sequence \in Nat
        BY DEF IInv, ImageTypes, Recognised, Faithful
      <3>3. produced \in Nat
        BY DEF IInv, CameraTypes
      <3> QED
        BY <3>1, <3>2, <3>3
    <2> QED
      BY <1>3, <2>1, <2>2
  <1>6. Visible' = [count |-> Visible.count + 1, frame |-> i.sequence,
                    pixels |-> i.sequence, faces |-> i.sequence]
    BY <1>3, <1>4 DEF Visible
  <1>7. Visible.frame = server.image.sequence /\ UNCHANGED <<produced, Watching>>
    BY <1>2 DEF Visible, Watching
  <1> QED
    BY <1>5, <1>6, <1>7 DEF Channel!Show

\* What a place tells when one slot changes.
LEMMA OneWatches ==
  ASSUME slots \in [Slots -> SlotStates], NEW s \in Slots, NEW c, slots' = [slots EXCEPT ![s] = c]
  PROVE  /\ Watching' = [Watching EXCEPT ![s] = IF c.fd = None THEN None ELSE c.sent]
         /\ Watching[s] = IF slots[s].fd = None THEN None ELSE slots[s].sent
  BY DEF Watching

\* What a client's thread does for the one who watches.
LEMMA ClientIsViewer ==
  ASSUME IInv, NEW s \in Slots, Client(s)
  PROVE  Channel!Send(s) \/ Channel!Leave \/ UNCHANGED Channel!channel
  <1>0. /\ slots \in [Slots -> SlotStates] /\ slots[s] \in SlotStates
        /\ slots[s].sent \in Nat /\ slots[s].frame \in Nat
        /\ GoodSlot(slots[s], server.number, connections, arriving)
    BY DEF IInv, SlotInv, SlotStates
  <1>1. UNCHANGED <<produced, Visible>>
    BY DEF Client, ClientRequest, ClientStream, ClientSend, ClientLeave, clientKeeps, serverKeeps,
           cameraVars, Visible
  <1>2. ASSUME NEW c, Moves(s, c), c.fd = slots[s].fd, c.sent = slots[s].sent
        PROVE  UNCHANGED Channel!channel
    <2>1. /\ Watching' = [Watching EXCEPT ![s] = Watching[s]]
      BY <1>0, <1>2, OneWatches DEF Moves
    <2>2. Watching' = Watching
      BY <2>1 DEF Watching
    <2> QED
      BY <1>1, <2>2 DEF Channel!channel
  <1>3. CASE ClientRequest(s)
    <2>1. PICK pc : Moves(s, [slots[s] EXCEPT !.pc = pc])
      BY <1>3 DEF ClientRequest
    <2>2. /\ [slots[s] EXCEPT !.pc = pc].fd = slots[s].fd
          /\ [slots[s] EXCEPT !.pc = pc].sent = slots[s].sent
      BY <1>0 DEF SlotStates
    <2> QED
      BY <1>2, <2>1, <2>2
  <1>4. CASE ClientStream(s)
    <2>1. PICK c : /\ Moves(s, c)
                   /\ \/ c = [slots[s] EXCEPT !.pc = "leave"]
                      \/ c = [slots[s] EXCEPT !.pc = "send", !.frame = server.number]
      BY <1>4 DEF ClientStream
    <2>2. c.fd = slots[s].fd /\ c.sent = slots[s].sent
      BY <1>0, <2>1 DEF SlotStates
    <2> QED
      BY <1>2, <2>1, <2>2
  <1>5. CASE ClientSend(s)
    <2>1. CASE Moves(s, [slots[s] EXCEPT !.pc = "leave"])
      <3>1. /\ [slots[s] EXCEPT !.pc = "leave"].fd = slots[s].fd
            /\ [slots[s] EXCEPT !.pc = "leave"].sent = slots[s].sent
        BY <1>0 DEF SlotStates
      <3> QED
        BY <1>2, <2>1, <3>1
    <2>2. CASE Moves(s, [slots[s] EXCEPT !.pc = "stream", !.sent = slots[s].frame, !.frame = 0])
      <3> DEFINE c == [slots[s] EXCEPT !.pc = "stream", !.sent = slots[s].frame, !.frame = 0]
      <3>1. c.fd = slots[s].fd /\ c.sent = slots[s].frame /\ Moves(s, c)
        BY <1>0, <2>2 DEF SlotStates
      <3> HIDE DEF c
      <3>2. /\ slots[s].pc = "send" /\ slots[s].fd # None
            /\ slots[s].sent <= slots[s].frame /\ slots[s].frame <= server.number
        BY <1>0, <1>5 DEF ClientSend, GoodSlot, Ended
      <3>3. CASE slots[s].frame = slots[s].sent
        BY <1>2, <3>1, <3>3
      <3>4. CASE slots[s].frame # slots[s].sent
        <4>1. /\ Watching' = [Watching EXCEPT ![s] = slots[s].frame]
              /\ Watching[s] = slots[s].sent
          <5>1. slots' = [slots EXCEPT ![s] = c]
            BY <3>1 DEF Moves
          <5>2. /\ Watching' = [Watching EXCEPT ![s] = IF c.fd = None THEN None ELSE c.sent]
                /\ Watching[s] = IF slots[s].fd = None THEN None ELSE slots[s].sent
            BY <1>0, <5>1, OneWatches, Zenon
          <5> QED
            BY <3>1, <3>2, <5>2
        <4>2. slots[s].frame \in slots[s].sent + 1 .. server.number
          <5>1. server.number \in Nat
            BY DEF IInv, ImageTypes
          <5> QED
            BY <1>0, <3>2, <3>4, <5>1
        <4>3. Watching[s] # None
          BY <1>0, <4>1 DEF None
        <4>4. Visible.count = server.number
          BY DEF Visible
        <4> QED
          BY <1>1, <4>1, <4>2, <4>3, <4>4 DEF Channel!Send
      <3> QED
        BY <3>3, <3>4
    <2> QED
      BY <1>5, <2>1, <2>2 DEF ClientSend
  <1>6. CASE ClientLeave(s)
    <2>1. PICK c : slots' = [slots EXCEPT ![s] = c] /\ c.fd = None
      BY <1>6, IdleFacts DEF ClientLeave, Moves
    <2>2. Watching' = [Watching EXCEPT ![s] = None]
      BY <1>0, <2>1, OneWatches
    <2>3. Watching' = [v \in Slots |-> IF v \in {s} THEN None ELSE Watching[v]]
      BY <2>2 DEF Watching
    <2>4. {s} \in SUBSET Slots
      OBVIOUS
    <2> QED
      BY <1>1, <2>3, <2>4, Zenon DEF Channel!Leave
  <1> QED
    BY <1>3, <1>4, <1>5, <1>6 DEF Client

\* The accept thread seats the one who comes.
LEMMA AcceptIsConnect ==
  ASSUME IInv, AcceptJoin
  PROVE  (\E s \in Slots : Channel!Connect(s)) \/ UNCHANGED Channel!channel
  <1>0. /\ slots \in [Slots -> SlotStates] /\ into \in Slots /\ slots[into].fd = None
        /\ arriving \in Nat
    BY DEF AcceptJoin, IInv, SlotInv
  <1>1. UNCHANGED <<produced, Visible>>
    BY DEF AcceptJoin, serverKeeps, cameraVars, Visible
  <1>2. CASE slots' = [slots EXCEPT ![into] = [Idle EXCEPT !.fd = arriving, !.pc = "request"]]
    <2>1. slots' = [slots EXCEPT ![into] =
                      [fd |-> arriving, pc |-> "request", sent |-> 0, frame |-> 0]]
      BY <1>0, <1>2, IdleFacts
    <2>2. arriving # None
      BY <1>0 DEF None
    <2>3. Watching' = [Watching EXCEPT ![into] = 0] /\ Watching[into] = None
      <3> DEFINE c == [fd |-> arriving, pc |-> "request", sent |-> 0, frame |-> 0]
      <3>1. slots' = [slots EXCEPT ![into] = c] /\ c.fd # None /\ c.sent = 0
        BY <2>1, <2>2
      <3> HIDE DEF c
      <3>2. /\ Watching' = [Watching EXCEPT ![into] = IF c.fd = None THEN None ELSE c.sent]
            /\ Watching[into] = IF slots[into].fd = None THEN None ELSE slots[into].sent
        BY <1>0, <3>1, OneWatches, Zenon
      <3> QED
        BY <1>0, <3>1, <3>2
    <2> QED
      BY <1>0, <1>1, <2>3 DEF Channel!Connect
  <1>3. CASE slots' = [slots EXCEPT ![into] = Idle]
    <2>1. Watching' = [Watching EXCEPT ![into] = None] /\ Watching[into] = None
      BY <1>0, <1>3, IdleFacts, OneWatches
    <2>2. Watching' = Watching
      BY <2>1 DEF Watching
    <2> QED
      BY <1>1, <2>2 DEF Channel!channel
  <1> QED
    BY <1>2, <1>3 DEF AcceptJoin

LEMMA ChannelInit == Init => Channel!Init
  <1> SUFFICES ASSUME Init PROVE Channel!Init
    OBVIOUS
  <1>1. produced = 0
    BY DEF Init, CameraInit
  <1>2. Visible = [count |-> 0, frame |-> 0, pixels |-> 0, faces |-> 0]
    BY DEF Init, Visible, NoFrame, NoImage, NewImage
  <1>3. Watching = [s \in Slots |-> None]
    BY IdleFacts DEF Init, Watching
  <1> QED
    BY <1>1, <1>2, <1>3 DEF Channel!Init

LEMMA ChannelStep ==
  ASSUME IInv, [Next]_vars
  PROVE  [Channel!Next]_(Channel!channel)
  <1>1. CASE server' # server
    BY <1>1, PublishIsShow DEF Channel!Next
  <1>2. CASE Driver
    <2>1. produced' = produced + 1 /\ UNCHANGED <<Visible, Watching>>
      BY <1>2 DEF Driver, DriverFills, elsewhere, serverVars, clientVars, Visible, Watching
    <2> QED
      BY <2>1 DEF Channel!Next, Channel!Capture
  <1>3. CASE UNCHANGED <<produced, server>>
    <2>0. UNCHANGED <<produced, Visible>>
      BY <1>3 DEF Visible
    <2>1. CASE UNCHANGED slots
      BY <2>0, <2>1 DEF Watching, Channel!channel
    <2>2. CASE Killed
      <3>1. slots' = [s \in Slots |-> Idle] /\ Idle.fd = None
        BY <2>2, IdleFacts DEF Killed
      <3>2. Watching' = [v \in Slots |-> IF v \in Slots THEN None ELSE Watching[v]]
        BY <3>1 DEF Watching
      <3>3. Slots \in SUBSET Slots
        OBVIOUS
      <3>4. Channel!Leave
        BY <2>0, <3>2, <3>3, Zenon DEF Channel!Leave
      <3> QED
        BY <3>4 DEF Channel!Next
    <2>3. CASE AcceptJoin
      BY <2>3, AcceptIsConnect DEF Channel!Next
    <2>4. CASE \E s \in Slots : Client(s)
      BY <2>4, ClientIsViewer DEF Channel!Next
    <2>5. UNCHANGED slots \/ Killed \/ AcceptJoin \/ \E s \in Slots : Client(s)
      <3>1. MainStart \/ Accept \/ AcceptEnds => UNCHANGED slots
        BY DEF MainStart, Accept, AcceptEnds, clientVars
      <3> QED
        BY <3>1, ServerSteps DEF IInv, Acceptor, clientVars
    <2> QED
      BY <2>1, <2>2, <2>3, <2>4, <2>5
  <1> QED
    BY <1>1, <1>2, <1>3, ProducedSteps

\* The whole program, as those who watch see it: a channel that leaves frames out
\* and nothing else, whatever the threads do and whatever fails.
THEOREM ProgramImplementsChannel == Spec => ImplementsChannel
  <1>1. IInv /\ [Next]_vars => [Channel!Next]_(Channel!channel)
    BY ChannelStep
  <1> QED
    BY <1>1, ChannelInit, Invariance, PTL DEF Spec, ImplementsChannel, Channel!Spec

\* save_gallery: only the rename touches the file, and it puts one in place that
\* has the samples of the old one and one more, or, when the write fell short and
\* nobody looked, one that is not whole.
THEOREM GalleryIsSafe == Spec => GalleryKeepsItsSamples
  <1>1. IInv /\ [Next]_vars =>
          /\ gallery'.file <= gallery'.samples
          /\ gallery'.file >= gallery.file \/ (mpc = "rename" /\ gallery.temp = 0)
          /\ gallery'.file # gallery.file => mpc = "rename" /\ gallery'.file = gallery.temp
    BY GalleryGrows DEF IInv
  <1> QED
    BY Invariance, <1>1, PTL DEF Spec, GalleryKeepsItsSamples
====

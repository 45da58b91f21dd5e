---- MODULE Camera ----
(***************************************************************************)
(* The camera: rtctrl_camera (modules/capture) over v4l2_camera             *)
(* (adapters/capture/v4l2) over the buffers of the driver.                  *)
(*                                                                          *)
(* A buffer is queued (the driver may write it), filled (it waits for       *)
(* DQBUF) or out (the program reads it).  The content of a buffer is the    *)
(* sequence number of its frame, negative when the frame is corrupt, and 0  *)
(* when the driver may write it.                                            *)
(* Descriptors are numbers: 0 is the standard input, b the DMA-BUF of       *)
(* buffer b, Device the device; None is -1.                                 *)
(***************************************************************************)
EXTENDS Integers, Sequences

CONSTANTS
    BufferCount,    \* the buffers the driver grants: 2 .. 32 in the code
    ExportDmabuf,   \* config.export_dmabuf
    MaxFrames,      \* bound: frames the driver fills
    CameraEvents    \* what may go wrong: a subset of AllCameraEvents

AllCameraEvents == {"openFails", "hangUp", "dequeueFails", "badMetadata",
                    "queueFails", "closeFails", "corrupt"}

ASSUME CameraAssumption ==
    /\ BufferCount \in Nat \ {0, 1} /\ MaxFrames \in Nat
    /\ ExportDmabuf \in BOOLEAN /\ CameraEvents \subseteq AllCameraEvents

Buffers == 1 .. BufferCount
Device == BufferCount + 1
None == -1

VARIABLES
    camera,         \* what the two structs hold, see NoCamera
    fds, maps,      \* descriptors and buffer mappings the process has
    queued, filled, \* buffers of the driver; `filled` in the order of DQBUF
    content,        \* what is in a buffer
    produced        \* frames the driver filled

cameraVars == <<camera, fds, maps, queued, filled, content, produced>>

\* Mutant of Descriptors: the zeroes of calloc.
DescriptorsZeroed == [b \in Buffers |-> 0]

\* dmabuf_fd before the first buffer is set up.
Descriptors == [b \in Buffers |-> None]

\* No camera, or one whose open() failed.  `held` and `failed` are in both
\* structs and change together; `out` is held_index, `sequence` is in the
\* frame the caller got.
NoCamera == [fd |-> None, dmabuf |-> Descriptors, mapped |-> {}, streaming |-> FALSE,
             held |-> FALSE, failed |-> FALSE, out |-> None, sequence |-> 0]

\* The device is open, `m` buffers are mapped and `e` of them are exported.
OpenUpto(m, e) ==
    [NoCamera EXCEPT !.fd = Device, !.mapped = 1 .. m,
                     !.dmabuf = [b \in Buffers |-> IF b <= e THEN b ELSE Descriptors[b]]]

\* Where v4l2_open fails: before a buffer is mapped, before it is exported or
\* after, as late as at STREAMON.
PartlyOpen ==
    {NoCamera, OpenUpto(0, 0)} \cup
    {OpenUpto(m, IF ExportDmabuf THEN m - k ELSE 0) : m \in Buffers, k \in {0, 1}}

CameraInit ==
    /\ camera = NoCamera /\ fds = {0} /\ maps = {}
    /\ queued = {} /\ filled = <<>> /\ content = [b \in Buffers |-> 0] /\ produced = 0

OwnFds(c) == {c.fd} \cup {b \in Buffers : c.dmabuf[b] = b}

\* v4l2_close of c, when the process has the descriptors f and the mappings m.
\* A call that fails is told and stops nothing.
V4l2Close(c, f, m) ==
    /\ fds' = f \ ({c.fd} \cup {c.dmabuf[b] : b \in Buffers})
    /\ maps' = m \ c.mapped
    /\ camera' = NoCamera /\ queued' = {} /\ filled' = <<>>
    /\ content' = [b \in Buffers |-> 0] /\ UNCHANGED produced

\* rtctrl_camera_create over v4l2_open.
CameraOpen(status) ==
    \/ LET c == [OpenUpto(BufferCount, IF ExportDmabuf THEN BufferCount ELSE 0)
                   EXCEPT !.streaming = TRUE]
       IN /\ status = "Ok"
          /\ camera' = c /\ fds' = fds \cup (OwnFds(c) \ {None}) /\ maps' = Buffers
          /\ queued' = Buffers /\ filled' = <<>>
          /\ UNCHANGED <<content, produced>>
    \/ /\ "openFails" \in CameraEvents /\ status = "Error"
       /\ \E c \in PartlyOpen :
             V4l2Close(c, fds \cup (OwnFds(c) \ {None}), maps \cup c.mapped)

\* rtctrl_camera_acquire over v4l2_acquire; a time-out, EAGAIN and EINTR
\* change nothing.  A frame with bad metadata stays out of the queue, and the
\* camera fails for good.
CameraAcquire(status) ==
    /\ ~camera.held /\ ~camera.failed
    /\ \/ /\ {"hangUp", "dequeueFails"} \cap CameraEvents # {} /\ status = "Error"
          /\ camera' = [camera EXCEPT !.failed = TRUE]
          /\ UNCHANGED filled
       \/ /\ "badMetadata" \in CameraEvents /\ status = "Error" /\ filled # <<>>
          /\ camera' = [camera EXCEPT !.failed = TRUE]
          /\ filled' = Tail(filled)
       \/ /\ status = "Ok" /\ filled # <<>>
          /\ camera' = [camera EXCEPT !.held = TRUE, !.out = Head(filled),
                                      !.sequence = content[Head(filled)]]
          /\ filled' = Tail(filled)
    /\ UNCHANGED <<fds, maps, queued, content, produced>>

\* rtctrl_camera_release over v4l2_release: the frame is given back also when
\* QBUF fails, and then the camera fails for good.
CameraRelease(status) ==
    /\ camera.held
    /\ \/ status = "Ok" /\ queued' = queued \cup {camera.out}
       \/ status = "Error" /\ "queueFails" \in CameraEvents /\ UNCHANGED queued
    /\ camera' = [camera EXCEPT !.held = FALSE, !.out = None, !.sequence = 0,
                                !.failed = @ \/ status = "Error"]
    /\ content' = [content EXCEPT ![camera.out] = 0]
    /\ UNCHANGED <<fds, maps, filled, produced>>

\* rtctrl_camera_close, also of the null pointer a failed open leaves.
CameraClose(status) ==
    /\ V4l2Close(camera, fds, maps)
    /\ status = "Ok" \/ (status = "Error" /\ camera # NoCamera /\ "closeFails" \in CameraEvents)

\* The driver fills one of the queued buffers.
DriverFills ==
    /\ camera.streaming /\ produced < MaxFrames
    /\ produced' = produced + 1
    /\ \E b \in queued, n \in {produced'} \cup (IF "corrupt" \in CameraEvents THEN {-produced'} ELSE {}) :
          /\ queued' = queued \ {b} /\ filled' = Append(filled, b)
          /\ content' = [content EXCEPT ![b] = n]
    /\ UNCHANGED <<camera, fds, maps>>
====

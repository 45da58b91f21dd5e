---- MODULE SerialLink ----
(***************************************************************************)
(* The half-duplex serial link of the servo stack: HalfDuplexSerialLink     *)
(* over PosixSerialTransport over the terminal of the kernel.               *)
(*                                                                          *)
(* The unit of `wire` is one instruction packet: a packet the kernel took   *)
(* in part is sent later, like the packets behind it.  The unit of `rx` is  *)
(* half a status packet, so that a read can end inside of one.              *)
(* A status of the transport is written as the HalStatus it becomes in      *)
(* map_result, map_status and map_link_status: WouldBlock is "NotReady",    *)
(* Closed and Error are "IoError".                                          *)
(***************************************************************************)
EXTENDS Naturals, Sequences, SequencesExt

CONSTANTS
    IdleReads,      \* what reading an idle line is taken for, see IdleStatus
    LinkEvents      \* failures of the device: a subset of AllLinkEvents

AllLinkEvents == {"openFails", "readFails", "sendFails"}

\* read() of a raw terminal with VMIN = VTIME = 0 and O_NONBLOCK: POSIX leaves
\* open whether it fails with EAGAIN or returns 0 (Linux returns 0), and
\* map_result takes 0 bytes for Closed.
IdleStatus == {"NotReady", "IoError"}

ASSUME LinkAssumption ==
    /\ IdleReads \subseteq IdleStatus /\ IdleReads # {}
    /\ LinkEvents \subseteq AllLinkEvents

VARIABLES
    linkOpen,       \* open_ of the link, and the descriptor of the transport
    tx,             \* transmit_buffer_ behind transmit_offset_
    wire,           \* packets the kernel took and the servos did not get yet
    rx              \* bytes that can be read

linkVars == <<linkOpen, tx, wire, rx>>

LinkInit == linkOpen = FALSE /\ tx = <<>> /\ wire = <<>> /\ rx = <<>>

\* The kernel takes the first n of the packets that wait.
Sent(packets, n) ==
    /\ tx' = SubSeq(packets, n + 1, Len(packets))
    /\ wire' = wire \o SubSeq(packets, 1, n)

\* transmit(): refused while an earlier batch is retained; otherwise the whole
\* batch is sent or retained, retained also when write() fails.
LinkTransmit(batch, status) ==
    /\ \/ /\ tx # <<>> /\ status = "NotReady"
          /\ UNCHANGED <<tx, wire>>
       \/ /\ tx = <<>> /\ status = "Ok"
          /\ \E n \in 0 .. Len(batch) : Sent(batch, n)
       \/ /\ tx = <<>> /\ status = "IoError" /\ "sendFails" \in LinkEvents
          /\ Sent(batch, 0)
    /\ UNCHANGED <<linkOpen, rx>>

\* Mutant of LinkReceive: what is retained is left to the next transmit.
LinkReceiveOnly(size, status) ==
    /\ rx' = SubSeq(rx, size + 1, Len(rx))
    /\ UNCHANGED <<linkOpen, tx, wire>>
    /\ \/ size \in 1 .. Len(rx) /\ status = "Ok"
       \/ rx = <<>> /\ size = 0 /\ status \in IdleReads

\* receive(): what is retained goes first, and nothing is read until all of it
\* is gone; then one read, of the first `size` units that have arrived.
LinkReceive(size, status) ==
    /\ rx' = SubSeq(rx, size + 1, Len(rx))
    /\ UNCHANGED linkOpen
    /\ \/ /\ size = 0 /\ status = "NotReady"
          /\ \E n \in 0 .. Len(tx) - 1 : Sent(tx, n)
       \/ /\ size = 0 /\ status = "IoError" /\ tx # <<>> /\ "sendFails" \in LinkEvents
          /\ UNCHANGED <<tx, wire>>
       \/ /\ Sent(tx, Len(tx))
          /\ \/ size \in 1 .. Len(rx) /\ status = "Ok"
             \/ rx = <<>> /\ size = 0 /\ status \in IdleReads
             \/ size = 0 /\ status = "IoError" /\ "readFails" \in LinkEvents

\* Packets that were not handed to the kernel are forgotten; the kernel sends the others.
LinkClose ==
    /\ linkOpen' = FALSE /\ tx' = <<>> /\ rx' = <<>>
    /\ UNCHANGED wire
====

---- MODULE MppSession ----
(***************************************************************************)
(* The hardware JPEG encoder: the Session of MppJpegEncoder, which keeps    *)
(* one empty input task between two images, and who owns the frame and the  *)
(* packet of an image while it is encoded.  One thread encodes, and no call *)
(* of it is seen by another thread, so that one image is one step.          *)
(***************************************************************************)
EXTENDS Naturals

CONSTANTS
    MppFails        \* whether calls of MPP fail

ASSUME MppAssumption == MppFails \in BOOLEAN

VARIABLES
    session,        \* whether there is a session, which then keeps its input task
    mishandled      \* frames and packets that were not freed exactly once

mppVars == <<session, mishandled>>

MppInit == session = FALSE /\ mishandled = {}

\* The calls of Session::encode that may fail, in order, and who refers to the
\* frame and to the packet then: the code itself ("code"), the input or output
\* task the code has dequeued ("in", "out"), or a port of the context ("port").
Stages ==
    [frame    |-> [frame |-> {},             packet |-> {}],
     packet   |-> [frame |-> {"code"},       packet |-> {}],
     takeIn   |-> [frame |-> {"code"},       packet |-> {"code"}],
     setFrame |-> [frame |-> {"code"},       packet |-> {"code"}],
     setPkt   |-> [frame |-> {"code", "in"}, packet |-> {"code"}],
     enqueue  |-> [frame |-> {"code", "in"}, packet |-> {"code", "in"}],
     takeOut  |-> [frame |-> {"port"},       packet |-> {"port"}],
     getPkt   |-> [frame |-> {"port"},       packet |-> {"out"}],
     backOut  |-> [frame |-> {"port"},       packet |-> {"code"}],
     backIn   |-> [frame |-> {"port"},       packet |-> {"code"}],
     getFrame |-> [frame |-> {"in"},         packet |-> {"code"}],
     check    |-> [frame |-> {},             packet |-> {"code"}]]

Parts == {"frame", "packet"}

\* The handler takes what the dequeued tasks refer to, unless it is what the
\* code refers to already; then it destroys the context, which frees what is
\* in its ports, and frees what the code refers to.  The result is how often
\* the part is freed.
Frees(holders) ==
    (IF holders \cap {"code", "in", "out"} # {} THEN 1 ELSE 0)
        + (IF "port" \in holders THEN 1 ELSE 0)

\* MppJpegEncoder::encode of one image, all of the same size: a session is made
\* when there is none, and whatever throws resets it.
MppEncode(status) ==
    \/ status = "Ok" /\ session' = TRUE /\ UNCHANGED mishandled
    \/ /\ MppFails /\ status = "Error" /\ session' = FALSE
       /\ \E stage \in IF session THEN DOMAIN Stages \ {"takeIn"} ELSE DOMAIN Stages :
             LET at(part) == Stages[stage][part]
             IN mishandled' = mishandled \cup
                    {part \in Parts : at(part) # {} /\ Frees(at(part)) # 1}

MppClose == session' = FALSE /\ UNCHANGED mishandled
====

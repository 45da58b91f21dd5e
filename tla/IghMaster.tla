---- MODULE IghMaster ----
(***************************************************************************)
(* IghMaster: the owner of an EtherCAT master and its cyclic calls.         *)
(* `status` is what a call returns; any ecrt call may fail.  The slaves     *)
(* tell anything whenever they are asked.                                   *)
(***************************************************************************)
EXTENDS Naturals

CONSTANTS
    SlaveCount,     \* slave_count
    MaxBusFaults    \* ecrt calls that fail

ASSUME IghAssumption == SlaveCount \in Nat \ {0} /\ MaxBusFaults \in Nat

VARIABLES
    held,           \* ecrt_request_master without ecrt_release_master
    active, received,   \* active_, cycle_received_
    ready,          \* state_.ready(), see ReadyAfter
    told,           \* the slaves whose state the last receive has asked for
    busFaults

ighVars == <<held, active, received, ready, told, busFaults>>

Slaves == 1 .. SlaveCount

IghInit ==
    /\ held = FALSE /\ active = FALSE /\ received = FALSE
    /\ ready = FALSE /\ told = {} /\ busFaults = 0

\* IghBusState::ready(): `complete` is the link, the number of slaves and the
\* working counter; `queried` are the slaves whose state got into the flags.
ReadyAfter(complete, queried, up) == complete /\ queried \subseteq up

EcrtFails == busFaults < MaxBusFaults /\ busFaults' = busFaults + 1

IghClose ==
    /\ held' = FALSE /\ active' = FALSE /\ received' = FALSE
    /\ ready' = FALSE /\ told' = {}

\* The last_error_, close(), IoError of a step that fails.
IghGiveUp == IghClose

\* A valid configuration.  The master may be reserved by somebody else.
IghActivate(status) ==
    /\ ~active
    /\ \/ /\ status = "IoError" /\ EcrtFails
          /\ UNCHANGED <<held, active, received, ready, told>>
       \/ /\ ~held /\ status = "IoError" /\ EcrtFails
          /\ IghGiveUp
       \/ /\ ~held /\ status = "Ok"
          /\ held' = TRUE /\ active' = TRUE /\ received' = FALSE
          /\ ready' = FALSE /\ told' = {}
          /\ UNCHANGED busFaults

\* Mutant of IghReceive: a slave that does not tell its state is passed over.
IghReceivePassing(status) ==
    /\ active /\ ~received /\ status = "Ok"
    /\ \E complete \in BOOLEAN, n \in 0 .. SlaveCount, up \in SUBSET Slaves :
            ready' = ReadyAfter(complete, 1 .. n, up) /\ told' = 1 .. n
    /\ received' = TRUE
    /\ UNCHANGED <<held, active, busFaults>>

\* A receive that fails before the master state leaves state_ alone; one that
\* fails at a slave has counted this slave and the later ones as operational.
IghReceive(status) ==
    /\ UNCHANGED <<held, active>>
    /\ \/ /\ ~active \/ received
          /\ status = "NotReady"
          /\ UNCHANGED <<received, ready, told, busFaults>>
       \/ /\ active /\ ~received /\ status = "IoError" /\ EcrtFails
          /\ UNCHANGED <<received, ready, told>>
       \/ /\ active /\ ~received /\ status = "IoError" /\ EcrtFails
          /\ \E complete \in BOOLEAN, n \in 0 .. SlaveCount - 1, up \in SUBSET Slaves :
                ready' = ReadyAfter(complete, 1 .. n, up) /\ told' = 1 .. n
          /\ UNCHANGED received
       \/ /\ active /\ ~received /\ status = "Ok"
          /\ \E complete \in BOOLEAN, up \in SUBSET Slaves :
                ready' = ReadyAfter(complete, Slaves, up)
          /\ told' = Slaves
          /\ received' = TRUE
          /\ UNCHANGED busFaults

\* domain_queue, the clocks of DC slaves, master_send; a failure leaves the
\* cycle open, so that send() has to be called again.
IghSend(status) ==
    /\ UNCHANGED <<held, active, ready>>
    /\ told' = {}
    /\ \/ /\ ~active \/ ~received
          /\ status = "NotReady"
          /\ UNCHANGED <<received, busFaults>>
       \/ /\ active /\ received /\ status = "IoError" /\ EcrtFails
          /\ UNCHANGED received
       \/ /\ active /\ received /\ status = "Ok"
          /\ received' = FALSE
          /\ UNCHANGED busFaults
====

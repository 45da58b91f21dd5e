---- MODULE RknnBackend ----
(***************************************************************************)
(* The two models of the face pipeline on the NPU: the life of an           *)
(* RknnBackend, and one inference through it (submit, run, output_data).    *)
(* Each backend belongs to the main thread, so one inference is one step.   *)
(***************************************************************************)
EXTENDS Naturals

CONSTANTS
    Models,         \* the detector and the recognizer
    NativeInput,    \* options.native_input
    NpuFails        \* whether calls of the runtime fail

ASSUME RknnAssumption == NativeInput \in BOOLEAN /\ NpuFails \in BOOLEAN

VARIABLES
    npu,            \* contexts and native inputs that are not destroyed
    backends        \* the backends that are constructed, and their outputs

rknnVars == <<npu, backends>>

NoOutput == 0

\* outputs_valid_, and the image the output buffers are about.
Fresh == [valid |-> FALSE, output |-> NoOutput]

NoBackends == [m \in {} |-> Fresh]

RknnInit == npu = {} /\ backends = NoBackends

Resources(m) == {<<m, "context">>} \cup (IF NativeInput THEN {<<m, "input">>} ELSE {})

\* What a constructor that throws leaves behind.  After a failure in the first
\* constructor its own handler destroys the context; the delegating one is
\* only entered then, so that after a failure there the destructor runs.
LeftBy(m, done) == done \ Resources(m)

RknnConstruct(m, status) ==
    \/ /\ status = "Ok"
       /\ npu' = npu \cup Resources(m)
       /\ backends' = [n \in DOMAIN backends \cup {m} |-> IF n = m THEN Fresh ELSE backends[n]]
    \/ /\ NpuFails /\ status = "Error"
       /\ \E done \in {{}, {<<m, "context">>}, Resources(m)} : npu' = npu \cup LeftBy(m, done)
       /\ UNCHANGED backends

RknnDestroyAll ==
    /\ npu' = npu \ UNION {Resources(m) : m \in DOMAIN backends}
    /\ backends' = NoBackends

\* Mutant of RknnRun: a run that fails is told as the one before it.
RknnRunStale(b, image, ok) == IF ok THEN [valid |-> TRUE, output |-> image] ELSE b

\* run() of b with `image` committed: it returns true, and output_data() does
\* not throw, when every call succeeded; otherwise the outputs are cleared.
RknnRun(b, image, ok) == IF ok THEN [valid |-> TRUE, output |-> image] ELSE Fresh
====

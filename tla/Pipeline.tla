------------------------------ MODULE Pipeline ------------------------------
(***************************************************************************)
(* The preload hook, the network and the server together.  A process runs  *)
(* the hook in one image after the other (PreloadHook); each send makes a  *)
(* UDP datagram, which the network may lose, duplicate and reorder; the    *)
(* server does what it promises (ProcessLog, which OgrtServer implements). *)
(* A record is that of a datagram: what it holds if the server overwrote   *)
(* its buffer while decoding is the subject of OgrtServer.                 *)
(***************************************************************************)
EXTENDS PreloadHook

CONSTANTS
  Datagrams,  \* the datagrams there can be
  Outputs,    \* the outputs of the server
  MaxImages,  \* bound on the images the process executes
  None

ASSUME PipelineAssumption == MaxImages \in Nat \ {0}

VARIABLES
  nth,       \* the number of the image that is executed
  images,    \* history: the binary and the environment of each image
  datagrams, \* the number of the image that sent each datagram, or None
  copies,    \* the datagrams that the network made of others
  heard,     \* the datagrams the server received
  fate       \* what became of them in each output

process == <<nth, images>>
network == <<datagrams, copies>>
server  == <<heard, fate>>
pipelineVars == <<vars, process, network, server>>

PL == INSTANCE ProcessLog WITH
        Datagrams <- Datagrams, Outputs <- Outputs, heard <- heard, fate <- fate

PipelineInit ==
  /\ Init
  /\ nth = 1
  /\ images = [n \in 1..MaxImages |-> [image |-> image, env |-> env]]
  /\ datagrams = [d \in Datagrams |-> None]
  /\ copies = {}
  /\ PL!Init

Free(d) == datagrams[d] = None

\* A send: the datagram leaves the host, or not; nobody looks at the result.
Transmit ==
  \/ \E d \in Datagrams : Free(d) /\ datagrams' = [datagrams EXCEPT ![d] = nth]
  \/ UNCHANGED datagrams

\* Faulty variant: the process info is sent again until it is sent for good.
HookStepResends ==
  /\ Hook
  /\ IF calls' > calls
     THEN \E D \in SUBSET {d \in Datagrams : Free(d)} :
            datagrams' = [d \in Datagrams |-> IF d \in D THEN nth ELSE datagrams[d]]
     ELSE UNCHANGED datagrams
  /\ UNCHANGED <<process, copies, server>>

HookStep ==
  /\ Hook
  /\ IF calls' > calls THEN Transmit ELSE UNCHANGED datagrams
  /\ UNCHANGED <<process, copies, server>>

ProgramStep ==
  /\ \/ FilterCrashes
     \/ SendCrashes
     \/ \E f \in Fds : ProgramOpens(f) \/ ProgramCloses(f)
  /\ UNCHANGED <<process, network, server>>

NextImage ==
  /\ nth < MaxImages
  /\ \E b \in Binaries, active \in BOOLEAN :
       /\ Execve(b, active)
       /\ images' = [images EXCEPT ![nth + 1] = [image |-> b, env |-> active]]
  /\ nth' = nth + 1
  /\ UNCHANGED <<network, server>>

\* The network delivers a datagram twice.
Duplicate ==
  /\ \E d, e \in Datagrams :
       /\ ~Free(d) /\ Free(e)
       /\ datagrams' = [datagrams EXCEPT ![e] = datagrams[d]]
       /\ copies' = copies \cup {e}
  /\ UNCHANGED <<vars, process, server>>

\* The server receives a datagram, in any order or never, and its outputs settle.
ServerStep ==
  /\ \/ \E d \in Datagrams : ~Free(d) /\ PL!Hear(d)
     \/ \E o \in Outputs, d \in Datagrams : PL!Settle(o, d)
  /\ UNCHANGED <<vars, process, network>>

\* The last image runs on, or the process crashed, and all is delivered.
Rest == pc \in {"program", "crashed"} /\ UNCHANGED pipelineVars

PipelineNext ==
  \/ HookStep
  \/ ProgramStep
  \/ NextImage
  \/ Duplicate
  \/ ServerStep
  \/ Rest

PipelineSpec == PipelineInit /\ [][PipelineNext]_pipelineVars

\* Fairness as in PreloadHook; the network and the server need not do anything.
PipelineFairSpec == PipelineSpec /\ WF_pipelineVars(HookStep)

-----------------------------------------------------------------------------
(* Properties.                                                             *)

\* The type invariant, that of the hook included.
PipelineTypeOK ==
  /\ TypeOK
  /\ nth \in 1..MaxImages
  /\ images \in [1..MaxImages -> [image : Binaries, env : BOOLEAN]]
  /\ datagrams \in [Datagrams -> 1..MaxImages \cup {None}]
  /\ copies \subseteq {d \in Datagrams : ~Free(d)}
  /\ heard \subseteq {d \in Datagrams : ~Free(d)}
  /\ fate \in [Outputs -> [Datagrams -> {"none", "recorded", "lost"}]]

\* Every record in an output is of an image that had OGRT_ACTIVE and that no
\* filter matched, also when the process has since gone on to other images.
OnlyTracedRecorded ==
  \A o \in Outputs, d \in Datagrams :
    fate[o][d] = "recorded" =>
      /\ ~Free(d)
      /\ images[datagrams[d]].env
      /\ Patterns \cap (Bad \cup Matching[images[datagrams[d]].image]) = {}

\* An output has two records of one image only if the network duplicated.
RecordedTwiceOnlyIfDuplicated ==
  \A o \in Outputs : \A d, e \in Datagrams :
    /\ d # e /\ fate[o][d] = "recorded" /\ fate[o][e] = "recorded"
    /\ datagrams[d] = datagrams[e]
    => d \in copies \/ e \in copies
=============================================================================

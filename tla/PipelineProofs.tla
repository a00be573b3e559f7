--------------------------- MODULE PipelineProofs ---------------------------
(***************************************************************************)
(* Proofs about PreloadHook, for any binaries and filters, any number of   *)
(* addresses and descriptors and any sequence of images, and about         *)
(* Pipeline, for any number of images, datagrams and outputs and any       *)
(* behaviour of the network.                                               *)
(***************************************************************************)
EXTENDS Pipeline, FiniteSetTheorems, TLAPS

-----------------------------------------------------------------------------
(* Types.                                                                  *)

\* While it connects, the loop is at one of the addresses.
AtAnAddress == pc = "connect" => p <= addrs

TypeInv == TypeOK /\ AtAnAddress

LEMMA Bounds == Len(Regexps) \in Nat /\ MaxAddrs \in Nat \ {0} /\ MaxFd \in Nat
BY HookAssumption

LEMMA TypeInvInit == Init => TypeInv
BY Bounds DEF Init, TypeInv, TypeOK, AtAnAddress, Fds

\* The steps of the hook keep the types.
LEMMA TypeInvHook ==
  ASSUME TypeInv, Hook \/ FilterCrashes \/ SendCrashes
  PROVE  TypeInv'
<1> USE Bounds
<1> USE DEF TypeInv, TypeOK, AtAnAddress, statics, loops, history
<1>1. CASE Enter
  BY <1>1 DEF Enter
<1>2. CASE GetHostname
  BY <1>2 DEF GetHostname, GiveUp
<1>3. CASE FilterPasses
  BY <1>3 DEF FilterPasses, Filtered
<1>4. CASE FilterRejects
  BY <1>4 DEF FilterRejects, GiveUp
<1>5. CASE GetAddrInfo
  <2>1. addrs' \in 0..MaxAddrs /\ p' \in 0..MaxAddrs + 1
    BY <1>5 DEF GetAddrInfo
  <2>2. QED BY <1>5, <2>1 DEF GetAddrInfo, GiveUp
<1>6. CASE SocketOpens
  BY <1>6 DEF SocketOpens
<1>7. CASE SocketFails
  <2>1. p + 1 \in 0..MaxAddrs + 1
    BY <1>7 DEF SocketFails
  <2>2. QED BY <1>7, <2>1 DEF SocketFails
<1>8. CASE Connect
  BY <1>8 DEF Connect
<1>9. CASE ConnectFails
  <2>1. p + 1 \in 0..MaxAddrs + 1
    BY <1>9 DEF ConnectFails
  <2>2. QED BY <1>9, <2>1 DEF ConnectFails
<1>10. CASE NoAddress
  BY <1>10 DEF NoAddress, GiveUp
<1>11. CASE SendProcessInfo
  BY <1>11 DEF SendProcessInfo
<1>12. CASE Close
  BY <1>12 DEF Close
<1>13. CASE FilterCrashes \/ SendCrashes
  BY <1>13 DEF FilterCrashes, SendCrashes
<1>14. QED
  BY <1>1, <1>2, <1>3, <1>4, <1>5, <1>6, <1>7, <1>8, <1>9, <1>10, <1>11, <1>12, <1>13
  DEF Hook

LEMMA TypeInvStep == TypeInv /\ [Next]_vars => TypeInv'
<1> SUFFICES ASSUME TypeInv, [Next]_vars PROVE TypeInv'
  OBVIOUS
<1> USE DEF TypeInv, TypeOK, AtAnAddress, statics, loops, history
<1>1. ASSUME NEW f \in Fds, ProgramOpens(f) \/ ProgramCloses(f) PROVE TypeInv'
  BY <1>1 DEF ProgramOpens, ProgramCloses
<1>2. ASSUME NEW b \in Binaries, NEW active \in BOOLEAN, Execve(b, active) PROVE TypeInv'
  <2>1. 1 \in 1..Len(Regexps) + 1 /\ 0 \in 0..MaxAddrs /\ 0 \in 0..MaxAddrs + 1
    BY Bounds
  <2>2. QED BY <1>2, <2>1 DEF Execve
<1>3. CASE UNCHANGED vars
  BY <1>3 DEF vars
<1>4. QED BY <1>1, <1>2, <1>3, TypeInvHook DEF Next, Gone

\* The type invariant holds for any filters and any number of addresses.
THEOREM TypeCorrect == Spec => []TypeOK
<1>1. Spec => []TypeInv
  BY TypeInvInit, TypeInvStep, PTL DEF Spec
<1>2. QED BY <1>1, PTL DEF TypeInv

-----------------------------------------------------------------------------
(* The socket.                                                             *)

\* Where the hook has a socket, or had none in this image.
SocketInv ==
  /\ SocketAccounted
  /\ pc \in {"enter", "hostname", "filter"} => __daemon_socket = -1
  /\ pc \in {"connect", "send"} => __daemon_socket # -1

\* What SocketAccounted says in a state with the socket, and in one without.
LEMMA SocketForms ==
  ASSUME TypeInv, pc # "crashed"
  PROVE  SocketAccounted <=>
           \A f \in Fds : fds[f] = "hook" <=>
             pc \in {"connect", "send", "close"} /\ f = __daemon_socket
BY DEF SocketAccounted, TypeInv, TypeOK, Fds

LEMMA SocketInvInit == Init => SocketInv
BY DEF Init, SocketInv, SocketAccounted, Fds

\* The steps that leave the descriptors as they are.
LEMMA SocketInvKept ==
  ASSUME SocketInv, UNCHANGED fds,
         \/ pc' = "crashed"
         \/ UNCHANGED <<pc, __daemon_socket>>
         \/ /\ pc \notin {"connect", "send", "close", "crashed"}
            /\ pc' \notin {"connect", "send", "close"}
            /\ pc' \in {"enter", "hostname", "filter"} => __daemon_socket' = -1
         \/ /\ pc = "enter" /\ pc' = "close"
            /\ UNCHANGED __daemon_socket
         \/ /\ pc \in {"connect", "send"} /\ pc' \in {"send", "close"}
            /\ UNCHANGED __daemon_socket
  PROVE  SocketInv'
BY DEF SocketInv, SocketAccounted

LEMMA SocketInvStep == TypeInv /\ SocketInv /\ [Next]_vars => SocketInv'
<1> SUFFICES ASSUME TypeInv, SocketInv, [Next]_vars PROVE SocketInv'
  OBVIOUS
<1>a. TypeInv'
  BY TypeInvStep
<1> USE DEF statics, loops, history
<1>1. CASE Enter
  BY <1>1, SocketInvKept DEF Enter, SocketInv
<1>2. CASE GetHostname \/ FilterRejects \/ GetAddrInfo \/ NoAddress \/ SocketFails
  BY <1>2, SocketInvKept
     DEF GetHostname, FilterRejects, GetAddrInfo, NoAddress, SocketFails, GiveUp, SocketInv
<1>3. CASE FilterPasses \/ Gone \/ UNCHANGED vars
  BY <1>3, SocketInvKept DEF FilterPasses, Gone, vars
<1>4. CASE FilterCrashes \/ SendCrashes
  BY <1>4, SocketInvKept DEF FilterCrashes, SendCrashes
<1>5. CASE Connect
  BY <1>5, SocketInvKept DEF Connect
<1>6. CASE SocketOpens
  <2>1. PICK f \in Fds : /\ fds[f] = "free" /\ __daemon_socket' = f
                         /\ fds' = [fds EXCEPT ![f] = "hook"]
    BY <1>6 DEF SocketOpens, LowestFree
  <2>2. f # -1
    BY Bounds DEF Fds
  <2>3. \A g \in Fds : fds[g] # "hook"
    BY <1>6, SocketForms DEF SocketOpens, SocketInv
  <2>4. \A g \in Fds : fds'[g] = "hook" <=> g = f
    BY <2>1, <2>3 DEF TypeInv, TypeOK
  <2>5. QED BY <1>6, <2>1, <2>2, <2>4 DEF SocketOpens, SocketInv, SocketAccounted
<1>7. CASE ConnectFails
  <2>1. \A f \in Fds : fds[f] = "hook" <=> f = __daemon_socket
    BY <1>7, SocketForms DEF ConnectFails, SocketInv
  <2>2. \A f \in Fds : fds'[f] # "hook"
    BY <1>7, <2>1 DEF ConnectFails, TypeInv, TypeOK
  <2>3. QED BY <1>7, <2>2 DEF ConnectFails, SocketInv, SocketAccounted
<1>8. CASE SendProcessInfo
  <2>1. \A f \in Fds : fds'[f] = "hook" <=> fds[f] = "hook"
    BY <1>8 DEF SendProcessInfo, LowestFree, TypeInv, TypeOK
  <2>2. QED BY <1>8, <2>1 DEF SendProcessInfo, SocketInv, SocketAccounted
<1>9. CASE Close
  <2>1. \A f \in Fds : fds[f] = "hook" <=> f = __daemon_socket
    BY <1>9, SocketForms DEF Close, SocketInv
  <2>2. \A f \in Fds : fds'[f] # "hook"
    BY <1>9, <2>1 DEF Close
  <2>3. QED BY <1>9, <2>2 DEF Close, SocketInv, SocketAccounted
<1>10. ASSUME NEW f \in Fds, ProgramOpens(f) \/ ProgramCloses(f) PROVE SocketInv'
  <2>1. \A g \in Fds : fds'[g] = "hook" <=> fds[g] = "hook"
    BY <1>10 DEF ProgramOpens, ProgramCloses, TypeInv, TypeOK
  <2>2. QED BY <1>10, <2>1 DEF ProgramOpens, ProgramCloses, SocketInv, SocketAccounted
<1>11. ASSUME NEW b \in Binaries, NEW active \in BOOLEAN, Execve(b, active) PROVE SocketInv'
  BY <1>11, SocketInvKept DEF Execve
<1>12. QED
  BY <1>1, <1>2, <1>3, <1>4, <1>5, <1>6, <1>7, <1>8, <1>9, <1>10, <1>11 DEF Next, Hook

LEMMA SocketInvCorrect == Spec => [](TypeInv /\ SocketInv)
BY TypeInvInit, TypeInvStep, SocketInvInit, SocketInvStep, PTL DEF Spec

\* Whichever addresses fail, the hook leaves none of its sockets to the program
\* or to the images after it.
THEOREM SocketAccountedCorrect == Spec => []SocketAccounted
BY SocketInvCorrect, PTL DEF SocketInv

-----------------------------------------------------------------------------
(* What the hook returns.                                                  *)

\* In which order the hook decides, connects and sends.
AttemptInv ==
  /\ pc = "enter" => ~__ogrt_active /\ __daemon_socket = -1
  /\ pc \in {"hostname", "filter", "socket", "connect", "send"} => env
  /\ pc \in {"enter", "hostname", "filter", "socket", "connect"} => ~connected
  /\ pc \in {"enter", "hostname", "filter", "socket", "connect", "send"} => calls = 0
  /\ pc = "send" => connected
  /\ pc = "close" => (env <=> connected)
  /\ pc \in {"close", "program"} => calls = IF connected THEN 1 ELSE 0
  /\ pc = "program" => (ret = 0 => (env <=> connected)) /\ (ret = 1 => ~connected)

LEMMA AttemptInvStep == TypeInv /\ AttemptInv /\ [Next]_vars => AttemptInv'
<1> SUFFICES ASSUME TypeInv, AttemptInv, [Next]_vars PROVE AttemptInv'
  OBVIOUS
<1> USE DEF AttemptInv, TypeInv, TypeOK, statics, loops, history
<1>1. CASE Enter
  BY <1>1 DEF Enter
<1>2. CASE GetHostname
  BY <1>2 DEF GetHostname, GiveUp
<1>3. CASE FilterPasses \/ FilterRejects \/ FilterCrashes
  BY <1>3 DEF FilterPasses, FilterRejects, FilterCrashes, GiveUp
<1>4. CASE GetAddrInfo
  BY <1>4 DEF GetAddrInfo, GiveUp
<1>5. CASE SocketOpens \/ SocketFails \/ NoAddress
  BY <1>5 DEF SocketOpens, SocketFails, NoAddress, GiveUp
<1>6. CASE Connect \/ ConnectFails
  BY <1>6 DEF Connect, ConnectFails
<1>7. CASE SendProcessInfo \/ SendCrashes
  BY <1>7 DEF SendProcessInfo, SendCrashes
<1>8. CASE Close
  BY <1>8 DEF Close
<1>9. ASSUME NEW f \in Fds, ProgramOpens(f) \/ ProgramCloses(f) PROVE AttemptInv'
  BY <1>9 DEF ProgramOpens, ProgramCloses
<1>10. ASSUME NEW b \in Binaries, NEW active \in BOOLEAN, Execve(b, active) PROVE AttemptInv'
  BY <1>10 DEF Execve
<1>11. CASE UNCHANGED vars
  BY <1>11 DEF vars
<1>12. QED
  BY <1>1, <1>2, <1>3, <1>4, <1>5, <1>6, <1>7, <1>8, <1>9, <1>10, <1>11 DEF Next, Hook, Gone

LEMMA AttemptInvCorrect == Spec => [](TypeInv /\ AttemptInv)
<1>1. Init => AttemptInv
  BY DEF Init, AttemptInv
<1>2. QED BY <1>1, TypeInvInit, TypeInvStep, AttemptInvStep, PTL DEF Spec

\* The hook tells by its result whether it connected, and has sent exactly once
\* if it did, whichever addresses failed before.
THEOREM ReturnTellsConnectedCorrect == Spec => []ReturnTellsConnected
<1>1. AttemptInv => ReturnTellsConnected
  BY DEF AttemptInv, ReturnTellsConnected
<1>2. QED BY <1>1, AttemptInvCorrect, PTL

-----------------------------------------------------------------------------
(* The descriptors of the program.                                         *)

LEMMA DescriptorsStep ==
  TypeInv /\ SocketInv /\ AttemptInv /\ [Next]_vars => [LeavesDescriptors]_vars
<1> SUFFICES ASSUME TypeInv, SocketInv, AttemptInv, Next PROVE LeavesDescriptors
  OBVIOUS
<1> USE DEF statics, loops, history
<1>1. CASE UNCHANGED fds
  BY <1>1 DEF LeavesDescriptors, Leaked
<1>2. CASE SocketOpens
  <2>1. PICK f \in Fds : fds[f] = "free" /\ fds' = [fds EXCEPT ![f] = "hook"]
    BY <1>2 DEF SocketOpens, LowestFree
  <2>2. QED BY <2>1 DEF LeavesDescriptors, Leaked, TypeInv, TypeOK
<1>3. CASE ConnectFails
  <2>1. fds[__daemon_socket] = "hook" /\ fds' = [fds EXCEPT ![__daemon_socket] = "free"]
    BY <1>3, SocketForms DEF ConnectFails, SocketInv, TypeInv, TypeOK
  <2>2. QED BY <2>1 DEF LeavesDescriptors, Leaked, TypeInv, TypeOK
<1>4. CASE Close
  <2>1. \A f \in Fds : fds[f] = "hook" <=> f = __daemon_socket
    BY <1>4, SocketForms DEF Close, SocketInv
  <2>2. QED BY <1>4, <2>1 DEF Close, LeavesDescriptors, Leaked
<1>5. ASSUME SendProcessInfo, NEW f \in Fds, LowestFree(f),
             fds' = [fds EXCEPT ![f] = "cmdline"]
      PROVE  LeavesDescriptors
  <2>1. /\ fds[f] = "free" /\ fds'[f] = "cmdline"
        /\ \A g \in Fds \ {f} : fds'[g] = fds[g]
    BY <1>5 DEF LowestFree, TypeInv, TypeOK
  <2>2. Leaked = {f}
    BY <2>1 DEF Leaked
  <2>3. Cardinality(Leaked) = 1
    BY <2>2, FS_Singleton
  <2>4. calls = 0 /\ calls' = 1
    BY <1>5 DEF SendProcessInfo, AttemptInv
  <2>5. QED BY <2>1, <2>3, <2>4 DEF LeavesDescriptors
<1>6. ASSUME NEW f \in Fds, ProgramOpens(f) \/ ProgramCloses(f) PROVE LeavesDescriptors
  <2>1. pc' = pc /\ \A g \in Fds : fds'[g] = "cmdline" => fds[g] = "cmdline"
    BY <1>6 DEF ProgramOpens, ProgramCloses, TypeInv, TypeOK
  <2>2. QED BY <2>1 DEF LeavesDescriptors, Leaked
<1>7. CASE SendProcessInfo
  BY <1>1, <1>5, <1>7 DEF SendProcessInfo
<1>8. CASE \/ Enter \/ GetHostname \/ FilterPasses \/ FilterRejects \/ FilterCrashes
           \/ GetAddrInfo \/ SocketFails \/ Connect \/ NoAddress \/ SendCrashes \/ Gone
           \/ \E b \in Binaries, active \in BOOLEAN : Execve(b, active)
  <2>1. UNCHANGED fds
    BY <1>8 DEF Enter, GetHostname, FilterPasses, FilterRejects, FilterCrashes, GetAddrInfo,
       SocketFails, Connect, NoAddress, SendCrashes, Gone, Execve, vars
  <2>2. QED BY <1>1, <2>1
<1>9. QED BY <1>2, <1>3, <1>4, <1>6, <1>7, <1>8 DEF Next, Hook

\* The hook never closes a descriptor of the program, and leaves to it and to
\* the images after it one descriptor for each image that sends.
THEOREM DescriptorsLeftCorrect == Spec => DescriptorsLeft
BY DescriptorsStep, SocketInvCorrect, AttemptInvCorrect, PTL DEF Spec, DescriptorsLeft

-----------------------------------------------------------------------------
(* The hook in the pipeline is the hook of PreloadHook.                    *)

LEMMA PipelineHookStep == [PipelineNext]_pipelineVars => [Next]_vars
<1> SUFFICES ASSUME [PipelineNext]_pipelineVars PROVE [Next]_vars
  OBVIOUS
<1>1. CASE HookStep \/ ProgramStep \/ NextImage
  BY <1>1 DEF HookStep, ProgramStep, NextImage, Next
<1>2. CASE Duplicate \/ ServerStep \/ Rest \/ UNCHANGED pipelineVars
  BY <1>2 DEF Duplicate, ServerStep, Rest, pipelineVars
<1>3. QED BY <1>1, <1>2 DEF PipelineNext

\* What the network and the server do never shows in the hook, so that all that
\* is proved of the hook alone holds in the pipeline.
THEOREM PipelineImplementsHook == PipelineSpec => Spec
<1>1. PipelineInit => Init
  BY DEF PipelineInit
<1>2. QED BY <1>1, PipelineHookStep, PTL DEF PipelineSpec, Spec

-----------------------------------------------------------------------------
(* The filters.                                                            *)

Unfiltered(b) == Patterns \cap (Bad \cup Matching[b]) = {}

\* The regexps tried so far did not match; all were tried before a socket.
FilterInv ==
  /\ pc \in {"enter", "hostname"} => i = 1
  /\ pc = "filter" => \A k \in 1..i-1 : Regexps[k] \notin Bad \cup Matching[image]
  /\ pc \in {"socket", "connect", "send"} => Unfiltered(image)

LEMMA FilterInvStep == TypeInv /\ FilterInv /\ [Next]_vars => FilterInv'
<1> SUFFICES ASSUME TypeInv, FilterInv, [Next]_vars PROVE FilterInv'
  OBVIOUS
<1> USE DEF FilterInv, Unfiltered, statics, loops, history
<1>1. CASE Enter \/ GetHostname
  BY <1>1 DEF Enter, GetHostname, GiveUp
<1>2. CASE FilterPasses
  <2>1. i \in Nat /\ 1..(i + 1) - 1 = (1..i - 1) \cup {i}
    BY <1>2, Bounds DEF FilterPasses, TypeInv, TypeOK
  <2>2. QED BY <1>2, <2>1 DEF FilterPasses
<1>3. CASE GetAddrInfo
  <2>1. \A k \in DOMAIN Regexps : k \in 1..i - 1
    BY <1>3, Bounds, HookAssumption DEF GetAddrInfo, Filtered, TypeInv, TypeOK
  <2>2. Unfiltered(image)
    BY <1>3, <2>1 DEF GetAddrInfo, Patterns
  <2>3. QED BY <1>3, <2>2 DEF GetAddrInfo, GiveUp
<1>4. CASE \/ FilterRejects \/ FilterCrashes \/ SocketOpens \/ SocketFails \/ Connect
           \/ ConnectFails \/ NoAddress \/ SendProcessInfo \/ SendCrashes \/ Close
  BY <1>4 DEF FilterRejects, FilterCrashes, SocketOpens, SocketFails, Connect, ConnectFails,
     NoAddress, SendProcessInfo, SendCrashes, Close, GiveUp
<1>5. ASSUME NEW f \in Fds, ProgramOpens(f) \/ ProgramCloses(f) PROVE FilterInv'
  BY <1>5 DEF ProgramOpens, ProgramCloses
<1>6. ASSUME NEW b \in Binaries, NEW active \in BOOLEAN, Execve(b, active) PROVE FilterInv'
  BY <1>6 DEF Execve
<1>7. CASE UNCHANGED vars
  BY <1>7 DEF vars
<1>8. QED BY <1>1, <1>2, <1>3, <1>4, <1>5, <1>6, <1>7 DEF Next, Hook, Gone

\* What is known of the hook in every state of the pipeline.
HookInv == TypeInv /\ AttemptInv /\ FilterInv

LEMMA HookInvCorrect == PipelineSpec => []HookInv
<1>1. Init => FilterInv
  BY DEF Init, FilterInv
<1>2. Spec => []FilterInv
  BY <1>1, TypeInvInit, TypeInvStep, FilterInvStep, PTL DEF Spec
<1>3. QED BY <1>2, AttemptInvCorrect, PipelineImplementsHook, PTL DEF HookInv

\* Only the send counts as one; it is the first of its image, which is traced.
LEMMA SendStep ==
  ASSUME HookInv, Hook, calls' > calls
  PROVE  env /\ Unfiltered(image) /\ calls = 0 /\ calls' # 0
<1>1. calls' # calls
  BY DEF HookInv, TypeInv, TypeOK
<1>2. SendProcessInfo
  BY <1>1 DEF Hook, Enter, GetHostname, FilterPasses, FilterRejects, GetAddrInfo, SocketOpens,
     SocketFails, Connect, ConnectFails, NoAddress, Close, history
<1>3. QED BY <1>2 DEF SendProcessInfo, HookInv, AttemptInv, FilterInv

-----------------------------------------------------------------------------
(* The records.                                                            *)

PipelineTypes ==
  /\ nth \in 1..MaxImages
  /\ images \in [1..MaxImages -> [image : Binaries, env : BOOLEAN]]
  /\ datagrams \in [Datagrams -> 1..MaxImages \cup {None}]
  /\ copies \subseteq {d \in Datagrams : ~Free(d)}
  /\ heard \subseteq {d \in Datagrams : ~Free(d)}
  /\ fate \in [Outputs -> [Datagrams -> {"none", "recorded", "lost"}]]

\* The n-th image had OGRT_ACTIVE, and no filter matched it.
TracedImage(n) == images[n].env /\ Unfiltered(images[n].image)

\* The images up to now are in the history, and each datagram is of one that
\* was traced.
SentInv ==
  /\ images[nth] = [image |-> image, env |-> env]
  /\ \A d \in Datagrams : ~Free(d) => datagrams[d] <= nth /\ TracedImage(datagrams[d])

\* What the network did not duplicate was sent once for each image, and not
\* before the hook of the image says so.
SentOnce ==
  \A d \in Datagrams \ copies : ~Free(d) =>
    /\ datagrams[d] = nth => calls # 0
    /\ \A e \in Datagrams \ copies : datagrams[e] = datagrams[d] => e = d

\* The server settles what it heard.
SettledHeard == \A o \in Outputs, d \in Datagrams : fate[o][d] # "none" => d \in heard

PipelineInv == PipelineTypes /\ SentInv /\ SentOnce /\ SettledHeard

LEMMA PipelineInvInit == PipelineInit => PipelineInv
<1> SUFFICES ASSUME PipelineInit PROVE PipelineInv
  OBVIOUS
<1>1. PipelineTypes
  BY PipelineAssumption DEF PipelineInit, Init, PL!Init, PipelineTypes
<1>2. SentInv /\ SentOnce /\ SettledHeard
  BY PipelineAssumption DEF PipelineInit, PL!Init, SentInv, SentOnce, SettledHeard, Free
<1>3. QED BY <1>1, <1>2 DEF PipelineInv

\* A step that sends nothing and stays in its image.
LEMMA PipelineInvQuiet ==
  ASSUME PipelineInv, UNCHANGED <<image, env, process, network, server>>,
         calls # 0 => calls' # 0
  PROVE  PipelineInv'
BY DEF PipelineInv, PipelineTypes, SentInv, SentOnce, SettledHeard, TracedImage, Unfiltered,
       Free, process, network, server

\* A datagram leaves the host.
LEMMA PipelineInvSend ==
  ASSUME PipelineInv, NEW d \in Datagrams, Free(d),
         datagrams' = [datagrams EXCEPT ![d] = nth],
         UNCHANGED <<image, env, process, copies, server>>,
         env, Unfiltered(image), calls = 0, calls' # 0
  PROVE  PipelineInv'
<1> USE DEF process, server
<1>1. /\ datagrams'[d] = nth /\ nth \in 1..MaxImages
      /\ \A e \in Datagrams \ {d} : datagrams'[e] = datagrams[e]
  BY DEF PipelineInv, PipelineTypes
<1>2. PipelineTypes'
  BY <1>1 DEF PipelineInv, PipelineTypes, Free
<1>3. SentInv'
  <2>1. TracedImage(nth)
    BY DEF PipelineInv, SentInv, TracedImage
  <2>2. QED BY <1>1, <2>1 DEF PipelineInv, SentInv, TracedImage, Unfiltered, Free
<1>4. SentOnce'
  BY <1>1 DEF PipelineInv, SentOnce, Free
<1>5. SettledHeard'
  BY DEF PipelineInv, SettledHeard
<1>6. QED BY <1>2, <1>3, <1>4, <1>5 DEF PipelineInv

LEMMA PipelineInvStep == HookInv /\ PipelineInv /\ [PipelineNext]_pipelineVars => PipelineInv'
<1> SUFFICES ASSUME HookInv, PipelineInv, [PipelineNext]_pipelineVars PROVE PipelineInv'
  OBVIOUS
<1> USE DEF process, network, server
<1>1. CASE HookStep
  <2>1. UNCHANGED <<image, env>>
    BY <1>1 DEF HookStep, Hook, Enter, GetHostname, FilterPasses, FilterRejects, GetAddrInfo,
       SocketOpens, SocketFails, Connect, ConnectFails, NoAddress, SendProcessInfo, Close
  <2>2. CASE calls' > calls
    <3>1. env /\ Unfiltered(image) /\ calls = 0 /\ calls' # 0
      BY <1>1, <2>2, SendStep DEF HookStep
    <3>2. CASE UNCHANGED datagrams
      BY <1>1, <2>1, <3>1, <3>2, PipelineInvQuiet DEF HookStep
    <3>3. QED BY <1>1, <2>1, <2>2, <3>1, <3>2, PipelineInvSend DEF HookStep, Transmit
  <2>3. CASE ~(calls' > calls)
    <3>1. calls' = calls
      BY <1>1, <2>3 DEF HookStep, Hook, Enter, GetHostname, FilterPasses, FilterRejects,
         GetAddrInfo, SocketOpens, SocketFails, Connect, ConnectFails, NoAddress,
         SendProcessInfo, Close, history, HookInv, TypeInv, TypeOK
    <3>2. QED BY <1>1, <2>1, <2>3, <3>1, PipelineInvQuiet DEF HookStep
  <2>4. QED BY <2>2, <2>3
<1>2. CASE ProgramStep
  <2>1. UNCHANGED <<image, env, calls>>
    BY <1>2 DEF ProgramStep, FilterCrashes, SendCrashes, ProgramOpens, ProgramCloses, history
  <2>2. QED BY <1>2, <2>1, PipelineInvQuiet DEF ProgramStep
<1>3. CASE NextImage
  <2>1. PICK b \in Binaries, active \in BOOLEAN :
          /\ Execve(b, active)
          /\ images' = [images EXCEPT ![nth + 1] = [image |-> b, env |-> active]]
    BY <1>3 DEF NextImage
  <2>2. /\ nth' = nth + 1 /\ nth + 1 \in 1..MaxImages /\ nth \in Nat
        /\ UNCHANGED <<datagrams, copies, heard, fate>>
    BY <1>3, PipelineAssumption DEF NextImage, PipelineInv, PipelineTypes
  <2>3. /\ images'[nth + 1] = [image |-> b, env |-> active]
        /\ \A n \in 1..nth : images'[n] = images[n]
    BY <2>1, <2>2, PipelineAssumption DEF PipelineInv, PipelineTypes
  <2>4. image' = b /\ env' = active
    BY <2>1 DEF Execve
  <2>5. PipelineTypes'
    BY <2>1, <2>2 DEF PipelineInv, PipelineTypes, Free
  <2>6. ASSUME NEW d \in Datagrams, ~Free(d)
        PROVE  datagrams[d] \in 1..nth /\ TracedImage(datagrams[d])
    BY <2>2, <2>6 DEF PipelineInv, PipelineTypes, SentInv, Free
  <2>7. SentInv'
    BY <2>2, <2>3, <2>4, <2>6 DEF SentInv, TracedImage, Unfiltered, Free
  <2>8. SentOnce'
    BY <2>2, <2>6 DEF PipelineInv, SentOnce, Free
  <2>9. SettledHeard'
    BY <2>2 DEF PipelineInv, SettledHeard
  <2>10. QED BY <2>5, <2>7, <2>8, <2>9 DEF PipelineInv
<1>4. CASE Duplicate
  <2>1. PICK d, e \in Datagrams :
          /\ ~Free(d) /\ Free(e)
          /\ datagrams' = [datagrams EXCEPT ![e] = datagrams[d]]
          /\ copies' = copies \cup {e}
    BY <1>4 DEF Duplicate
  <2>2. UNCHANGED <<nth, images, heard, fate, calls, image, env>>
    BY <1>4 DEF Duplicate, vars, history
  <2>3. /\ datagrams'[e] = datagrams[d]
        /\ \A c \in Datagrams \ {e} : datagrams'[c] = datagrams[c]
    BY <2>1 DEF PipelineInv, PipelineTypes
  <2>4. PipelineTypes'
    BY <2>1, <2>2, <2>3 DEF PipelineInv, PipelineTypes, Free
  <2>5. SentInv'
    BY <2>1, <2>2, <2>3 DEF PipelineInv, SentInv, TracedImage, Unfiltered, Free
  <2>6. SentOnce'
    BY <2>1, <2>2, <2>3 DEF PipelineInv, SentOnce, Free
  <2>7. SettledHeard'
    BY <2>2 DEF PipelineInv, SettledHeard
  <2>8. QED BY <2>4, <2>5, <2>6, <2>7 DEF PipelineInv
<1>5. CASE ServerStep
  <2>1. UNCHANGED <<vars, nth, images, datagrams, copies>>
    BY <1>5 DEF ServerStep
  <2>2. UNCHANGED <<calls, image, env>>
    BY <2>1 DEF vars, history
  <2>3. SentInv' /\ SentOnce'
    BY <2>1, <2>2 DEF PipelineInv, SentInv, SentOnce, TracedImage, Unfiltered, Free
  <2>4. ASSUME NEW d \in Datagrams, ~Free(d), PL!Hear(d)
        PROVE  PipelineTypes' /\ SettledHeard'
    BY <2>1, <2>4 DEF PL!Hear, PipelineInv, PipelineTypes, SettledHeard, Free
  <2>5. ASSUME NEW o \in Outputs, NEW d \in Datagrams, PL!Settle(o, d)
        PROVE  PipelineTypes' /\ SettledHeard'
    <3>1. PICK f \in {"recorded", "lost"} : fate' = [fate EXCEPT ![o][d] = f]
      BY <2>5 DEF PL!Settle
    <3>2. heard' = heard /\ d \in heard
      BY <2>5 DEF PL!Settle
    <3>3. \A q \in Outputs, e \in Datagrams :
            fate'[q][e] = IF q = o /\ e = d THEN f ELSE fate[q][e]
      BY <3>1 DEF PipelineInv, PipelineTypes
    <3>4. fate' \in [Outputs -> [Datagrams -> {"none", "recorded", "lost"}]]
      BY <3>1 DEF PipelineInv, PipelineTypes
    <3>5. QED BY <2>1, <3>2, <3>3, <3>4 DEF PipelineInv, PipelineTypes, SettledHeard, Free
  <2>6. QED BY <1>5, <2>3, <2>4, <2>5 DEF ServerStep, PipelineInv
<1>6. CASE Rest \/ UNCHANGED pipelineVars
  BY <1>6, PipelineInvQuiet DEF Rest, pipelineVars, vars, history
<1>7. QED BY <1>1, <1>2, <1>3, <1>4, <1>5, <1>6 DEF PipelineNext

LEMMA PipelineInvCorrect == PipelineSpec => [](HookInv /\ PipelineInv)
BY HookInvCorrect, PipelineInvInit, PipelineInvStep, PTL DEF PipelineSpec

\* The type invariant of the hook, the network and the server together.
THEOREM PipelineTypeCorrect == PipelineSpec => []PipelineTypeOK
<1>1. HookInv /\ PipelineInv => PipelineTypeOK
  BY DEF HookInv, TypeInv, PipelineInv, PipelineTypes, PipelineTypeOK
<1>2. QED BY <1>1, PipelineInvCorrect, PTL

\* No output records an image without OGRT_ACTIVE or one that a filter matches,
\* however long the process goes on and whatever the network does.
THEOREM OnlyTracedRecordedCorrect == PipelineSpec => []OnlyTracedRecorded
<1>1. PipelineInv => OnlyTracedRecorded
  BY DEF PipelineInv, PipelineTypes, SentInv, SettledHeard, TracedImage, Unfiltered,
     OnlyTracedRecorded
<1>2. QED BY <1>1, PipelineInvCorrect, PTL

\* An output has two records of one image only if the network duplicated one.
THEOREM RecordedTwiceCorrect == PipelineSpec => []RecordedTwiceOnlyIfDuplicated
<1>1. PipelineInv => RecordedTwiceOnlyIfDuplicated
  BY DEF PipelineInv, PipelineTypes, SentOnce, SettledHeard, RecordedTwiceOnlyIfDuplicated
<1>2. QED BY <1>1, PipelineInvCorrect, PTL
=============================================================================

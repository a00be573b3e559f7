---------------------------- MODULE PreloadHook -----------------------------
(***************************************************************************)
(* The constructor of the preload library, ogrt_preload_init_hook          *)
(* (client/src/ogrt-main.c), in one process and in the images that the     *)
(* process goes on to execve: in each of them the dynamic loader calls the *)
(* hook once, before main, on fresh static variables but with the file     *)
(* descriptors of the image before.                                        *)
(*                                                                         *)
(* Libraries initialised before this one may have started threads, so the  *)
(* program's own descriptors may change at any time.                       *)
(***************************************************************************)
EXTENDS Integers, Sequences, FiniteSets

CONSTANTS
  Binaries,  \* the programs that may be executed
  Regexps,   \* OGRT_FILTER_REGEXPS_LIST, a sequence
  Bad,       \* the regexps regcomp rejects
  Matching,  \* the regexps that match the path of each binary
  MaxAddrs,  \* bound on the addresses getaddrinfo returns
  MaxFd      \* the largest file descriptor a process may have

Patterns == {Regexps[k] : k \in DOMAIN Regexps}

ASSUME HookAssumption ==
  /\ Regexps \in Seq(Patterns)
  /\ Bad \subseteq Patterns
  /\ Matching \in [Binaries -> SUBSET (Patterns \ Bad)]
  /\ MaxAddrs \in Nat \ {0}
  /\ MaxFd \in Nat

Fds == 0..MaxFd

VARIABLES
  pc,               \* where the hook is; "program" when it has returned
  image,            \* the binary being executed
  env,              \* OGRT_ACTIVE is yes, true or 1 in its environment
  __ogrt_active,
  __daemon_socket,
  i,                \* the regexp the filter loop is at
  addrs, p,         \* how many addresses there are, and the one it is at
  fds,              \* whose each file descriptor is
  calls,            \* history: calls of send in this image
  connected,        \* history: a connect succeeded in this image
  ret               \* what the hook returned, -1 before

statics == <<__ogrt_active, __daemon_socket>>
loops   == <<i, addrs, p>>
history == <<calls, connected>>
vars == <<pc, image, env, statics, loops, fds, history, ret>>

Init ==
  /\ pc = "enter"
  /\ image \in Binaries
  /\ env \in BOOLEAN
  /\ __ogrt_active = FALSE
  /\ __daemon_socket = -1
  /\ i = 1 /\ addrs = 0 /\ p = 0
  /\ fds = [f \in Fds |-> "free"]
  /\ calls = 0
  /\ connected = FALSE
  /\ ret = -1

-----------------------------------------------------------------------------
(* The program and its threads.                                            *)

ProgramOpens(f) ==
  /\ pc # "crashed"
  /\ fds[f] = "free"
  /\ fds' = [fds EXCEPT ![f] = "program"]
  /\ UNCHANGED <<pc, image, env, statics, loops, history, ret>>

\* Also a descriptor that the hook left to it.
ProgramCloses(f) ==
  /\ pc # "crashed"
  /\ fds[f] \in {"program", "cmdline"}
  /\ fds' = [fds EXCEPT ![f] = "free"]
  /\ UNCHANGED <<pc, image, env, statics, loops, history, ret>>

\* execve: a new image with its own statics, and the descriptors of the old.
Execve(b, active) ==
  /\ pc = "program"
  /\ pc' = "enter"
  /\ image' = b
  /\ env' = active
  /\ __ogrt_active' = FALSE
  /\ __daemon_socket' = -1
  /\ i' = 1 /\ addrs' = 0 /\ p' = 0
  /\ calls' = 0
  /\ connected' = FALSE
  /\ ret' = -1
  /\ UNCHANGED fds

-----------------------------------------------------------------------------
(* The hook.                                                               *)

\* Return with an error: nothing is traced in this image.
GiveUp ==
  /\ __ogrt_active' = FALSE
  /\ pc' = "program"
  /\ ret' = 1

Enter ==
  /\ pc = "enter"
  /\ __ogrt_active' = (__ogrt_active \/ env)
  /\ pc' = IF __ogrt_active' /\ __daemon_socket < 0 THEN "hostname" ELSE "close"
  /\ UNCHANGED <<image, env, __daemon_socket, loops, fds, history, ret>>

GetHostname ==
  /\ pc = "hostname"
  /\ \/ pc' = "filter" /\ UNCHANGED <<__ogrt_active, ret>>
     \/ GiveUp
  /\ UNCHANGED <<image, env, __daemon_socket, loops, fds, history>>

\* Faulty variant: the loop ends one regexp early.
FilteredShort == i >= Len(Regexps)

\* No regexp is left to try.
Filtered == i > Len(Regexps)

\* Faulty variant: the loop does not advance.
FilterStuck ==
  /\ pc = "filter"
  /\ ~Filtered
  /\ Regexps[i] \notin Bad \cup Matching[image]
  /\ UNCHANGED vars

\* The next regexp does not match the path of the binary.
FilterPasses ==
  /\ pc = "filter"
  /\ ~Filtered
  /\ Regexps[i] \notin Bad \cup Matching[image]
  /\ i' = i + 1
  /\ UNCHANGED <<pc, image, env, statics, addrs, p, fds, history, ret>>

\* It matches, or regcomp rejects it.
FilterRejects ==
  /\ pc = "filter"
  /\ ~Filtered
  /\ Regexps[i] \in Bad \cup Matching[image]
  /\ GiveUp
  /\ UNCHANGED <<image, env, __daemon_socket, loops, fds, history>>

\* /proc/<pid>/exe cannot be read: ogrt_get_binpath returns NULL, and regexec
\* dereferences it.
FilterCrashes ==
  /\ pc = "filter"
  /\ ~Filtered
  /\ Regexps[i] \notin Bad
  /\ pc' = "crashed"
  /\ UNCHANGED <<image, env, statics, loops, fds, history, ret>>

\* getaddrinfo fails, or returns a list of addresses.
GetAddrInfo ==
  /\ pc = "filter"
  /\ Filtered
  /\ \/ /\ GiveUp
        /\ UNCHANGED <<addrs, p>>
     \/ /\ addrs' \in 1..MaxAddrs
        /\ p' = 1
        /\ pc' = "socket"
        /\ UNCHANGED <<__ogrt_active, ret>>
  /\ UNCHANGED <<image, env, __daemon_socket, i, fds, history>>

\* The kernel gives the lowest descriptor that is free.
LowestFree(f) == fds[f] = "free" /\ \A g \in Fds : g < f => fds[g] # "free"

SocketOpens ==
  /\ pc = "socket"
  /\ p <= addrs
  /\ \E f \in Fds :
       /\ LowestFree(f)
       /\ __daemon_socket' = f
       /\ fds' = [fds EXCEPT ![f] = "hook"]
  /\ pc' = "connect"
  /\ UNCHANGED <<image, env, __ogrt_active, loops, history, ret>>

\* Faulty variant: the end of the list of addresses is not noticed.
SocketFailsPastEnd ==
  /\ pc = "socket"
  /\ __daemon_socket' = -1
  /\ __ogrt_active' = FALSE
  /\ p' = p + 1
  /\ UNCHANGED <<pc, image, env, i, addrs, fds, history, ret>>

SocketFails ==
  /\ pc = "socket"
  /\ p <= addrs
  /\ __daemon_socket' = -1
  /\ __ogrt_active' = FALSE
  /\ p' = p + 1
  /\ UNCHANGED <<pc, image, env, i, addrs, fds, history, ret>>

\* Connected: the loop breaks.
Connect ==
  /\ pc = "connect"
  /\ connected' = TRUE
  /\ pc' = "send"
  /\ UNCHANGED <<image, env, statics, loops, fds, calls, ret>>

\* Faulty variant: the socket is not closed.
ConnectFailsOpen ==
  /\ pc = "connect"
  /\ __ogrt_active' = FALSE
  /\ p' = p + 1
  /\ pc' = "socket"
  /\ UNCHANGED <<image, env, __daemon_socket, i, addrs, fds, history, ret>>

\* The socket is closed; its number stays in __daemon_socket.
ConnectFails ==
  /\ pc = "connect"
  /\ fds' = [fds EXCEPT ![__daemon_socket] = "free"]
  /\ __ogrt_active' = FALSE
  /\ p' = p + 1
  /\ pc' = "socket"
  /\ UNCHANGED <<image, env, __daemon_socket, i, addrs, history, ret>>

\* Faulty variant: the socket is closed again on the way out.
NoAddressCloses ==
  /\ pc = "socket"
  /\ p > addrs
  /\ GiveUp
  /\ fds' = [f \in Fds |-> IF f = __daemon_socket THEN "free" ELSE fds[f]]
  /\ UNCHANGED <<image, env, __daemon_socket, loops, history>>

\* Faulty variant: only a failed call of socket is noticed.
NoAddressBySocket ==
  /\ pc = "socket"
  /\ p > addrs
  /\ IF __daemon_socket = -1
     THEN GiveUp
     ELSE pc' = "send" /\ UNCHANGED <<__ogrt_active, ret>>
  /\ UNCHANGED <<image, env, __daemon_socket, loops, fds, history>>

\* The loop ended without a connection (p == NULL).
NoAddress ==
  /\ pc = "socket"
  /\ p > addrs
  /\ GiveUp
  /\ UNCHANGED <<image, env, __daemon_socket, loops, fds, history>>

Full == \A f \in Fds : fds[f] # "free"

\* Faulty variant: /proc/<pid>/cmdline is opened once to find its length, and
\* once to read it.
SendProcessInfoTwice ==
  /\ pc = "send"
  /\ \E f, g \in Fds :
       /\ LowestFree(f)
       /\ f # g /\ fds[g] = "free"
       /\ fds' = [fds EXCEPT ![f] = "cmdline", ![g] = "cmdline"]
  /\ calls' = calls + 1
  /\ pc' = "close"
  /\ UNCHANGED <<image, env, statics, loops, connected, ret>>

\* ogrt_send_processinfo: one send, whose result is ignored.  Of what it does
\* before (see ProcessInfo) this matters here: ogrt_get_cmdline opens
\* /proc/<pid>/cmdline, if a descriptor is free, and never closes it.
SendProcessInfo ==
  /\ pc = "send"
  /\ \/ Full /\ UNCHANGED fds
     \/ \E f \in Fds : LowestFree(f) /\ fds' = [fds EXCEPT ![f] = "cmdline"]
  /\ calls' = calls + 1
  /\ pc' = "close"
  /\ UNCHANGED <<image, env, statics, loops, connected, ret>>

\* Without a descriptor the result of read, -1, is taken for a length, and the
\* byte before a buffer is overwritten.
SendCrashes ==
  /\ pc = "send"
  /\ Full
  /\ pc' = "crashed"
  /\ UNCHANGED <<image, env, statics, loops, fds, history, ret>>

\* close(__daemon_socket), which is -1 when the hook was not active.
Close ==
  /\ pc = "close"
  /\ fds' = [f \in Fds |-> IF f = __daemon_socket THEN "free" ELSE fds[f]]
  /\ pc' = "program"
  /\ ret' = 0
  /\ UNCHANGED <<image, env, statics, loops, history>>

Hook ==
  \/ Enter
  \/ GetHostname
  \/ FilterPasses
  \/ FilterRejects
  \/ GetAddrInfo
  \/ SocketOpens
  \/ SocketFails
  \/ Connect
  \/ ConnectFails
  \/ NoAddress
  \/ SendProcessInfo
  \/ Close

\* The process is gone.
Gone == pc = "crashed" /\ UNCHANGED vars

Next ==
  \/ Hook
  \/ FilterCrashes
  \/ SendCrashes
  \/ Gone
  \/ \E f \in Fds : ProgramOpens(f) \/ ProgramCloses(f)
  \/ \E b \in Binaries, active \in BOOLEAN : Execve(b, active)

Spec == Init /\ [][Next]_vars

\* The loader runs the hook, and the system calls of the hook return; it need
\* not crash.
FairSpec == Spec /\ WF_vars(Hook)

-----------------------------------------------------------------------------
(* Properties.                                                             *)

\* The type invariant.
TypeOK ==
  /\ pc \in {"program", "enter", "hostname", "filter", "socket", "connect",
             "send", "close", "crashed"}
  /\ image \in Binaries
  /\ env \in BOOLEAN
  /\ __ogrt_active \in BOOLEAN
  /\ __daemon_socket \in Fds \cup {-1}
  /\ i \in 1..Len(Regexps) + 1
  /\ addrs \in 0..MaxAddrs
  /\ p \in 0..MaxAddrs + 1
  /\ fds \in [Fds -> {"free", "program", "hook", "cmdline"}]
  /\ calls \in Nat
  /\ connected \in BOOLEAN
  /\ ret \in {-1, 0, 1}

\* The only socket the hook ever holds is the one in __daemon_socket, from the
\* socket call to the close that ends the attempt: none is left to the program
\* or to the images after it, whichever addresses failed.
SocketAccounted ==
  pc # "crashed" =>
    {f \in Fds : fds[f] = "hook"} =
      IF pc \in {"connect", "send", "close"} /\ __daemon_socket # -1
      THEN {__daemon_socket} ELSE {}

\* The descriptors that a step leaves open to /proc/<pid>/cmdline.
Leaked == {f \in Fds : fds[f] # "cmdline" /\ fds'[f] = "cmdline"}

LeavesDescriptors ==
  /\ pc # "program" /\ pc' # pc =>
       \A f \in Fds : fds[f] \in {"program", "cmdline"} => fds'[f] = fds[f]
  /\ Leaked # {} => Cardinality(Leaked) = 1 /\ calls = 0 /\ calls' = 1

\* No step of the hook closes a descriptor of the program, though the number
\* in __daemon_socket goes stale after a failed connect and may be the
\* program's by the time the hook returns.  What the hook leaves to the program
\* and the images after it is one descriptor of /proc/<pid>/cmdline for each
\* image that sends, no more.
DescriptorsLeft == [][LeavesDescriptors]_vars

\* The comment before the hook: it returns non-zero if it was to connect and
\* could not, and zero otherwise, after exactly one send - also when addresses
\* before the one that connected failed and left __ogrt_active false.
ReturnTellsConnected ==
  pc = "program" =>
    /\ ret = 0 => (env <=> connected)
    /\ ret = 1 => ~connected
    /\ calls = IF connected THEN 1 ELSE 0

\* The program gets to run whatever fails, unless the hook crashes.
HookReturns == pc # "program" ~> pc \in {"program", "crashed"}

(* What the source says and the code does not do.                          *)

\* README.md:85 "Failure in the preload library does not interrupt program
\* execution."
ProgramUninterrupted == pc # "crashed"
=============================================================================

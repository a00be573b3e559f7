----------------------------- MODULE ProcessLog -----------------------------
(***************************************************************************)
(* What the ogrt-server promises of the processes it hears of, whatever    *)
(* its goroutines do: for each output, a process info that was received is *)
(* recorded at most once, or reported as lost and then never recorded, and *)
(* nothing that was not received appears.                                  *)
(***************************************************************************)
CONSTANTS Datagrams, Outputs

VARIABLES
  heard,  \* the datagrams received
  fate    \* what became of each datagram in each output

Init ==
  /\ heard = {}
  /\ fate = [o \in Outputs |-> [d \in Datagrams |-> "none"]]

Hear(d) ==
  /\ d \notin heard
  /\ heard' = heard \cup {d}
  /\ UNCHANGED fate

Settle(o, d) ==
  /\ d \in heard
  /\ fate[o][d] = "none"
  /\ \E f \in {"recorded", "lost"} : fate' = [fate EXCEPT ![o][d] = f]
  /\ UNCHANGED heard

Next ==
  \/ \E d \in Datagrams : Hear(d)
  \/ \E o \in Outputs, d \in Datagrams : Settle(o, d)

Spec == Init /\ [][Next]_<<heard, fate>>
=============================================================================

--------------------------- MODULE ResponseStreams ---------------------------
(***************************************************************************)
(* What the server promises a client about the answers it sends, whatever  *)
(* its threads do: the packets of a response go out in the order the       *)
(* handler made them, none is skipped, none is repeated, none goes to      *)
(* another client, and nothing is sent to a client that was destroyed.     *)
(* Packets of different responses may be mixed.  ServerManager.tla is      *)
(* shown to implement this.                                                *)
(***************************************************************************)
EXTENDS Naturals, Sequences

CONSTANTS Conns,     \* the connections
          Responses  \* what a request may be answered with: sequences of packets

VARIABLES jobs,  \* the responses started so far, oldest first
          wire,  \* wire[s]: the packets handed to Winsock for s, in order
          dead   \* the connections whose Client was destroyed

vars == <<jobs, wire, dead>>

PacketOf(j, n) == [to |-> jobs[j].to, job |-> j, n |-> n]

Sent(j, n) ==
  \E i \in DOMAIN wire[jobs[j].to] : wire[jobs[j].to][i] = PacketOf(j, n)

Init ==
  /\ jobs = <<>>
  /\ wire = [s \in Conns |-> <<>>]
  /\ dead = {}

Start(s, r) ==
  /\ s \notin dead
  /\ r # <<>>
  /\ jobs' = Append(jobs, [to |-> s, response |-> r])
  /\ UNCHANGED <<wire, dead>>

Send(j, n) ==
  LET s == jobs[j].to
  IN /\ s \notin dead
     /\ n \in DOMAIN jobs[j].response /\ ~Sent(j, n)
     /\ \A k \in 1..(n - 1) : Sent(j, k)
     /\ wire' = [wire EXCEPT ![s] = Append(@, PacketOf(j, n))]
     /\ UNCHANGED <<jobs, dead>>

Die(s) ==
  /\ dead' = dead \cup {s}
  /\ UNCHANGED <<jobs, wire>>

Next ==
  \/ \E s \in Conns : Die(s) \/ \E r \in Responses : Start(s, r)
  \/ \E j \in DOMAIN jobs : \E n \in DOMAIN jobs[j].response : Send(j, n)

Spec == Init /\ [][Next]_vars

=============================================================================

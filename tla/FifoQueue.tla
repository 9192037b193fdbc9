------------------------------ MODULE FifoQueue ------------------------------
(***************************************************************************)
(* What a ConcurrentQueue<T> promises its users (src/Server/               *)
(* ConcurrentQueue.h): push and pop behave as if each happened at one      *)
(* instant, in first-in first-out order, and an item never waits for ever  *)
(* while somebody keeps popping.  ConcurrentQueue.tla is shown to implement*)
(* this specification; ServerManager and ThreadPool use the atomic queue.  *)
(***************************************************************************)
EXTENDS Naturals, Sequences

CONSTANTS Producers,  \* the threads that call push
          Consumers,  \* the threads that call pop in a loop
          MaxPushes,  \* bound: how many items each producer pushes
          NoItem      \* what a consumer has before its first pop returns

VARIABLES queue,   \* the items pushed and not yet popped, oldest first
          pushed,  \* pushed[p]: how many items p has pushed
          got      \* got[c]: the item c popped last

vars == <<queue, pushed, got>>

\* An item is named by who pushed it and by its position among their pushes.
Item == [from: Producers, n: 1..MaxPushes]

NthItem(p, k) == [from |-> p, n |-> k]

Init ==
  /\ queue = <<>>
  /\ pushed = [p \in Producers |-> 0]
  /\ got = [c \in Consumers |-> NoItem]

Push(p) ==
  /\ pushed[p] < MaxPushes
  /\ pushed' = [pushed EXCEPT ![p] = @ + 1]
  /\ queue' = Append(queue, NthItem(p, pushed[p] + 1))
  /\ UNCHANGED got

Pop(c) ==
  /\ queue # <<>>
  /\ got' = [got EXCEPT ![c] = Head(queue)]
  /\ queue' = Tail(queue)
  /\ UNCHANGED pushed

SomePop == \E c \in Consumers : Pop(c)

Next == SomePop \/ \E p \in Producers : Push(p)

SafeSpec == Init /\ [][Next]_vars

\* As long as there are items, some consumer keeps taking them.
Spec == SafeSpec /\ WF_vars(SomePop)

=============================================================================

----------------------------- MODULE AnswerSizes -----------------------------
(***************************************************************************)
(* What a handler promises about one request after the other: as soon as   *)
(* it knows what to answer, the number and the sizes of the packets are    *)
(* fixed, whatever the file turns out to be like, and it sends these and   *)
(* no others.  AudioServerHandler.tla is shown to implement this; the      *)
(* Responses of ServerManager.tla are such answers.                        *)
(***************************************************************************)
EXTENDS Naturals, Sequences

CONSTANT Answers  \* sequences of packet sizes

VARIABLES answer,  \* the packets the request at work is answered with
          sent     \* how many of them have been queued

vars == <<answer, sent>>

Init == answer = <<>> /\ sent = 0

\* The next request; some are not answered.
Begin(a) ==
  /\ sent = Len(answer)
  /\ answer' = a /\ sent' = 0

Send ==
  /\ sent < Len(answer)
  /\ sent' = sent + 1
  /\ UNCHANGED answer

Next == Send \/ \E a \in Answers : Begin(a)

SafeSpec == Init /\ [][Next]_vars

\* An answer that was begun is sent to its end.
Spec == SafeSpec /\ WF_vars(Send)

=============================================================================

--------------------------- MODULE LossyBroadcast ---------------------------
(***************************************************************************)
(* What the metrics socket promises its clients: samples that are in the   *)
(* history, in the order they were taken and none of them twice.  It does  *)
(* not promise all of them.                                                *)
(***************************************************************************)
EXTENDS Naturals, Sequences

CONSTANT Conns

VARIABLES
  history,  \* how many samples have been stored
  sent      \* the samples sent to each client

Init == history = 0 /\ sent = [c \in Conns |-> <<>>]

Store ==
  /\ history' = history + 1
  /\ UNCHANGED sent

\* The last sample a client was sent, 0 for none.
Last(c) == IF sent[c] = <<>> THEN 0 ELSE sent[c][Len(sent[c])]

Send(c, s) ==
  /\ Last(c) < s
  /\ sent' = [sent EXCEPT ![c] = Append(@, s)]
  /\ UNCHANGED history

Next == Store \/ \E c \in Conns, s \in 1 .. history : Send(c, s)

Spec == Init /\ [][Next]_<<history, sent>>

-----------------------------------------------------------------------------
\* What a client was sent are samples of the history, each newer than the ones
\* before it.
InOrder ==
  \A c \in Conns : \A j \in DOMAIN sent[c] :
    sent[c][j] \in 1 .. history /\ \A i \in 1 .. j - 1 : sent[c][i] < sent[c][j]
=============================================================================

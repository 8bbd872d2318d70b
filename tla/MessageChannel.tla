--------------------------- MODULE MessageChannel ---------------------------
(***************************************************************************)
(* What the packet layer promises: messages come out in the order in which *)
(* they went in, none lost, doubled or invented, and every one in the end. *)
(***************************************************************************)
EXTENDS Naturals, Sequences

CONSTANT Message

VARIABLES
  sent,       \* the messages put in
  delivered   \* the messages taken out

vars == <<sent, delivered>>

Init == sent = <<>> /\ delivered = <<>>

Send ==
  /\ \E m \in Message : sent' = Append(sent, m)
  /\ UNCHANGED delivered

\* One arrival may hand over several messages.
Deliver ==
  /\ \E n \in Len(delivered) + 1 .. Len(sent) : delivered' = SubSeq(sent, 1, n)
  /\ UNCHANGED sent

Next == Send \/ Deliver

Spec == Init /\ [][Next]_vars /\ WF_vars(Deliver)
=============================================================================

----------------------------- MODULE PduChannel -----------------------------
(***************************************************************************)
(* What the transport layer promises its users: PDUs are handed over one   *)
(* after the other, a PDU may get lost, but what is delivered is a PDU     *)
(* that was sent, whole and unchanged, at most once, in the order of       *)
(* sending, and never one whose sender was told that sending failed.       *)
(***************************************************************************)
EXTENDS Naturals, Sequences

CONSTANT Pdus   \* the messages

VARIABLES
  sent,    \* the PDUs handed over, in order
  failed,  \* positions in sent whose sender got an error
  got,     \* the PDUs delivered
  upto     \* position in sent of the last PDU delivered

vars == <<sent, failed, got, upto>>

Init == sent = <<>> /\ failed = {} /\ got = <<>> /\ upto = 0

Submit(pdu) ==
  /\ sent' = Append(sent, pdu)
  /\ UNCHANGED <<failed, got, upto>>

\* Only the PDU being sent can fail, and only while it is not delivered.
Fail ==
  /\ Len(sent) > upto
  /\ failed' = failed \cup {Len(sent)}
  /\ UNCHANGED <<sent, got, upto>>

Deliver(i) ==
  /\ i \in upto + 1 .. Len(sent)
  /\ i \notin failed
  /\ got' = Append(got, sent[i])
  /\ upto' = i
  /\ UNCHANGED <<sent, failed>>

Next ==
  \/ \E pdu \in Pdus : Submit(pdu)
  \/ Fail
  \/ \E i \in 1 .. Len(sent) : Deliver(i)

Spec == Init /\ [][Next]_vars
=============================================================================

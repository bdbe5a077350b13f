----------------------------- MODULE PacketLink -----------------------------
(***************************************************************************)
(* What an HCI transport promises its user: while the link is up, every    *)
(* packet the controller sends is handed over once, whole, in order, and in*)
(* the end.  After the link has broken what was sent may still arrive, in  *)
(* the same order, or not at all.                                          *)
(***************************************************************************)
EXTENDS Naturals, Sequences

CONSTANT Packets

VARIABLES sent, delivered, up

vars == <<sent, delivered, up>>

Init == sent = <<>> /\ delivered = <<>> /\ up = TRUE

Send == /\ up
        /\ \E p \in Packets : sent' = Append(sent, p)
        /\ UNCHANGED <<delivered, up>>

Deliver == /\ Len(delivered) < Len(sent)
           /\ delivered' = Append(delivered, sent[Len(delivered) + 1])
           /\ UNCHANGED <<sent, up>>

Break == up /\ up' = FALSE /\ UNCHANGED <<sent, delivered>>

Next == Send \/ Deliver \/ Break

Spec == Init /\ [][Next]_vars

FairSpec == Spec /\ WF_vars(up /\ Deliver)

=============================================================================

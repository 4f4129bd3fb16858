---------------------------- MODULE Advertisement ----------------------------
(***************************************************************************)
(* What the SSDP server promises to the network, with its threads hidden:  *)
(* the multicast stream of one server life.  While it is "fresh" it may    *)
(* withdraw and offer in any order; while "serving" it only offers; while  *)
(* "leaving" it only withdraws; and it is "left" when nothing is offered.  *)
(***************************************************************************)
CONSTANT Namespace

VARIABLES phase,  \* of the server's life
          adv     \* last NOTIFY multicast for each namespace

vars == <<phase, adv>>

Init ==
    /\ phase = "fresh"
    /\ adv = [n \in Namespace |-> "none"]

Offer(n) ==
    /\ phase \in {"fresh", "serving"}
    /\ adv' = [adv EXCEPT ![n] = "ssdp:alive"]

Withdraw(n) ==
    /\ phase \in {"fresh", "leaving"}
    /\ adv' = [adv EXCEPT ![n] = "ssdp:byebye"]

Complete(nts) == \A n \in Namespace : adv'[n] = nts

\* A phase ends with the message that completes it.
Serve ==
    /\ phase = "fresh"
    /\ phase' = "serving"
    /\ \E n \in Namespace : Offer(n)
    /\ Complete("ssdp:alive")

Leave ==
    /\ phase = "serving"
    /\ phase' = "leaving"
    /\ UNCHANGED adv

Left ==
    /\ phase = "leaving"
    /\ phase' = "left"
    /\ \E n \in Namespace : Withdraw(n)
    /\ Complete("ssdp:byebye")

Next ==
    \/ phase' = phase /\ \E n \in Namespace : Offer(n) \/ Withdraw(n)
    \/ Serve \/ Leave \/ Left

Spec == Init /\ [][Next]_vars
=============================================================================

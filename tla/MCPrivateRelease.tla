-------------------------- MODULE MCPrivateRelease --------------------------
(***************************************************************************)
(* Instances of PrivateRelease for TLC: the messages, and small sets of     *)
(* surroundings in which the cases of run_once and of the dispatcher occur. *)
(***************************************************************************)
EXTENDS PrivateRelease

CONSTANTS d1, d2, g1, bob

DmAndGate == {d1, g1}
TwoDms == {d1, d2}
OneDm == {d1}

\* Messages with the model values d1 and d2 are direct messages to bob.
MCLaneOf == [m \in Msgs |-> IF m \in {d1, d2} THEN "dm" ELSE "gate"]
MCRecipient == [m \in Msgs |-> bob]
OnlyBob == {bob}

\* Everything is up and every carrier accepts.
Strong == [tier |-> "private_strong", rnsEnabled |-> TRUE, up |-> TRUE,
           direct |-> TRUE, reach |-> TRUE, anon |-> FALSE, hidden |-> FALSE,
           attested |-> TRUE, relay |-> TRUE, tor |-> TRUE]
\* No direct peer; with and without a hidden transport under the relay.
NoDirect == [Strong EXCEPT !.direct = FALSE, !.reach = FALSE]
NoDirectHidden == [NoDirect EXCEPT !.hidden = TRUE]
\* RNS claims a direct peer, the sends fail, and the relay refuses.
Unreachable == [Strong EXCEPT !.reach = FALSE, !.relay = FALSE, !.tor = FALSE]
\* Anonymous mode, waiting for its transport and with it.
AnonWaiting == [Strong EXCEPT !.anon = TRUE]
Anonymous == [Strong EXCEPT !.anon = TRUE, !.hidden = TRUE]
\* The supervisor is up, Tor and RNS are not.
Control == [NoDirect EXCEPT !.tier = "private_control_only", !.up = FALSE, !.tor = FALSE]
\* Before the attestation of the privacy core.
Unattested == [Strong EXCEPT !.attested = FALSE]
\* RNS and Tor have just been lost.
Lost == [Control EXCEPT !.tier = "public_degraded"]

Stuck == {Unreachable}
NoCarrier == [NoDirect EXCEPT !.relay = FALSE, !.tor = FALSE]
Outages == {Strong, Control, NoCarrier}
Duties == {NoDirect, NoDirectHidden, Unreachable, AnonWaiting, Lost}
Routes == {Strong, NoDirectHidden, Unreachable, Anonymous, Unattested}
=============================================================================

---------------------------- MODULE MCGroukStream ----------------------------
(***************************************************************************)
(* Instances of GroukStream: directions and networks small enough to      *)
(* explore together.                                                       *)
(***************************************************************************)
EXTENDS GroukStream

\* Towards the opener on a timely network, and away from it on any network.
PassSettings == {{"timely"}, {"senderOpened"}}

\* Towards the opener, with duplicates and spurious retransmissions.
AnyNetwork == {{}}

\* Away from the opener, on a timely network.
AwayFromOpener == {{"senderOpened", "timely"}}
=============================================================================

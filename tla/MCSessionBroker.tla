-------------------------- MODULE MCSessionBroker --------------------------
(* An instance of SessionBroker for TLC: two sockets of each role.         *)
EXTENDS SessionBroker

CONSTANTS f1, f2, c1, c2

TwoFrontends == {f1, f2}
TwoCrawlers  == {c1, c2}
=============================================================================

----------------------------- MODULE MCSession -----------------------------
(* Instances of Session for TLC. *)
EXTENDS SessionRefines

CONSTANTS press, list, reboot, write
None == {}
WriteReboot == {write, reboot}
Press == {press}
List == {list}
Reboot == {reboot}
Write == {write}
ListReboot == {list, reboot}
PressList == {press, list}
=============================================================================

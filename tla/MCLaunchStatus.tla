---------------------------- MODULE MCLaunchStatus ----------------------------
(* An instance of LaunchStatus for TLC. *)
EXTENDS LaunchStatus

CONSTANTS c1, s1, s2

OneClient == {c1}
OneServer == {s1}
TwoServers == {s1, s2}

Everything == Launches \union NoLaunch

=============================================================================

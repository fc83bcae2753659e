---------------------------- MODULE MCCookieAuth ----------------------------
(* Instances of CookieAuth for TLC: two goroutines, three calls between them.*)
EXTENDS CookieAuth
=============================================================================

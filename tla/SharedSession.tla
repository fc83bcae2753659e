--------------------------- MODULE SharedSession ---------------------------
(***************************************************************************)
(* What chttp.CookieAuth promises to the goroutines that share one client: *)
(* they share one CouchDB session, a login starts only when there is no    *)
(* session and no other login, and a session is lost or replaced only as a *)
(* whole.  CookieAuth.tla is the detailed specification.                   *)
(***************************************************************************)
EXTENDS Naturals

CONSTANTS Workers,  \* the goroutines that share the client
          None      \* no session, nobody

VARIABLES session,  \* the session the client would send, or None
          busy      \* the goroutine that logs in, or None

vars == <<session, busy>>

Init == session = None /\ busy = None

BeginLogin(w) ==
    /\ session = None /\ busy = None
    /\ busy' = w
    /\ UNCHANGED session

\* The login of w is over, with or without a session.
EndLogin(w) ==
    /\ busy = w
    /\ busy' = None
    /\ UNCHANGED session

\* The server hands out a session: the answer to a login or a renewal.
Obtain ==
    /\ session' \in Nat
    /\ UNCHANGED busy

\* The session expired, or the server refused it.
Lose ==
    /\ session # None
    /\ session' = None
    /\ UNCHANGED busy

Next ==
    \/ \E w \in Workers : BeginLogin(w) \/ EndLogin(w)
    \/ Obtain
    \/ Lose

Spec == Init /\ [][Next]_vars
=============================================================================

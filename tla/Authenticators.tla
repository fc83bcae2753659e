--------------------------- MODULE Authenticators ---------------------------
(***************************************************************************)
(* How a client gets its chain of transports.  Each authenticator puts     *)
(* itself in front of what the http.Client has (chttp/basicauth.go,        *)
(* proxyauth.go, cookieauth.go); SetTransport and SetCookie (auth.go) want *)
(* the http.Client to have none.  New installs CookieAuth for a DSN with   *)
(* credentials, in the http.Client that the caller may have given it.      *)
(***************************************************************************)
EXTENDS Naturals, FiniteSets

CONSTANTS Authenticator,     \* the authenticators there are
          Cookie, Xport, Raw,\* those that are CookieAuth, SetTransport, SetCookie;
                             \* the others are BasicAuth, JWTAuth and ProxyAuth
          DefaultTransport,  \* http.DefaultTransport
          OwnTransport,      \* the Transport of the caller's own http.Client
          Reinstall,         \* an authenticator may be given to a client again
          MaxInstalled,      \* bound: authenticators a client is given
          None

ASSUME AuthAssumption ==
    /\ Cookie \subseteq Authenticator /\ Xport \subseteq Authenticator
    /\ Raw \subseteq Authenticator
    /\ Cookie \cap Xport = {} /\ Cookie \cap Raw = {} /\ Xport \cap Raw = {}
    /\ {DefaultTransport, OwnTransport, None} \cap Authenticator = {}
    /\ None \notin {DefaultTransport, OwnTransport}
    /\ Reinstall \in BOOLEAN /\ MaxInstalled \in Nat

VARIABLES
    ready,      \* New has returned a client
    transport,  \* http.Client.Transport
    next,       \* the transport that an authenticator has behind it
    auth,       \* Client.auth
    installed   \* the authenticators that were accepted

authVars == <<ready, transport, next, auth, installed>>

Base    == {DefaultTransport, OwnTransport} \cup Xport
Wrapper == Authenticator \ Xport

AuthTypeOK ==
    /\ ready \in BOOLEAN
    /\ transport \in Authenticator \cup Base \cup {None}
    /\ next \in [Authenticator -> Authenticator \cup Base \cup {None}]
    /\ auth \in Authenticator \cup {None}
    /\ installed \subseteq Authenticator

AuthInit ==
    /\ ready = FALSE
    /\ transport \in {None, OwnTransport}
    /\ next = [a \in Authenticator |-> None]
    /\ auth = None
    /\ installed = {}

\* What http.Client uses.
First == IF transport = None THEN DefaultTransport ELSE transport

-----------------------------------------------------------------------------
\* A possible bug: the authenticator installs itself before it looks.
WrapLate(a) ==
    /\ transport' = a
    /\ next' = [next EXCEPT ![a] = a]
    /\ installed' = installed \cup {a}

\* A possible bug: a client without a transport of its own is not thought of.
WrapBare(a) ==
    /\ next' = [next EXCEPT ![a] = transport]
    /\ transport' = a
    /\ installed' = installed \cup {a}

Wrap(a) ==
    /\ next' = [next EXCEPT ![a] = First]
    /\ transport' = a
    /\ installed' = installed \cup {a}

\* SetTransport; SetCookie has nothing behind it but the default.
Replace(a) ==
    /\ transport = None
    /\ next' = IF a \in Raw THEN [next EXCEPT ![a] = DefaultTransport] ELSE next
    /\ transport' = a
    /\ installed' = installed \cup {a}

Refused == UNCHANGED <<transport, next, installed>>

MayInstall(a) ==
    /\ Reinstall \/ a \notin installed
    /\ Cardinality(installed) < MaxInstalled

\* chttp.Client.Auth: once.
Auth(a) ==
    /\ MayInstall(a)
    /\ IF auth = None THEN Wrap(a) /\ auth' = a
                      ELSE Refused /\ UNCHANGED auth

\* New, for a DSN with credentials or without.  An option of a wrong type is
\* noticed behind Auth: New fails, and the caller's http.Client keeps CookieAuth.
NewClient ==
    /\ ~ready
    /\ \/ ready' = TRUE /\ Refused /\ UNCHANGED auth
       \/ \E a \in Cookie \ installed :
              /\ MayInstall(a) /\ Wrap(a)
              /\ \/ ready' = TRUE /\ auth' = a
                 \/ ready' = FALSE /\ UNCHANGED auth

\* couchdb's Authenticate does not go through Auth.
Authenticate(a) ==
    /\ MayInstall(a)
    /\ UNCHANGED auth
    /\ IF a \in Xport \cup Raw
       THEN Replace(a) \/ (transport # None /\ Refused)
       ELSE Wrap(a)

Configure ==
    \/ NewClient
    \/ /\ ready /\ UNCHANGED ready
       /\ \E a \in Authenticator :
              Authenticate(a) \/ (a \in Wrapper \ Raw /\ Auth(a))
=============================================================================

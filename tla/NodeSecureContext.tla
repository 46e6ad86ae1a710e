------------------------- MODULE NodeSecureContext -------------------------
(***************************************************************************)
(* SecureContext of node_crypto.cc, the connections that are made of it,   *)
(* and whom a TLS server admits.  A handshake is never refused for a bad   *)
(* certificate: VerifyCallback lets it go on, and lib/tls.js asks          *)
(* VerifyError afterwards.                                                 *)
(*                                                                         *)
(* OpenSSL is external: its contexts are counted references, it drops a    *)
(* key that does not fit the certificate, and it keeps errors in a queue   *)
(* that all contexts of the process share.                                 *)
(***************************************************************************)
EXTENDS Naturals, FiniteSets, Sequences

CONSTANTS
    Conn,           \* connections
    MaxCRLs         \* bound: revocation lists of a context

ASSUME ContextAssumption == IsFiniteSet(Conn) /\ MaxCRLs \in Nat

VARIABLES
    ctx,            \* the SecureContext
    conns,          \* the Connections
    errors          \* OpenSSL's queue of errors is not empty

contextVars == <<ctx, conns, errors>>

-----------------------------------------------------------------------------
\* Certificates that a peer may show, and the authorities that issued them.
PeerCert == {"a1", "a2", "b1", "expired"}

CA == {"A", "B"}

Issuer(c) == IF c = "b1" THEN "B" ELSE "A"

None == "none"

\* Own keys and certificates: the certificate "k" is that of the key "k".
OwnKey == {"k1", "k2"}

NewContext ==
    [handle |-> FALSE, refs |-> 0, key |-> None, cert |-> None, ca |-> {}, crls |-> <<>>, thrown |-> None]

NewConn == [open |-> FALSE, was |-> FALSE, server |-> FALSE, mode |-> {}, peer |-> None, result |-> "OK",
            crls |-> 0, secure |-> FALSE, state |-> "none"]

ContextInit ==
    /\ ctx = NewContext
    /\ conns = [c \in Conn |-> NewConn]
    /\ errors = FALSE

ContextTypeOK ==
    /\ ctx.refs \in 0..(Cardinality(Conn) + 1)
    /\ ctx.key \in OwnKey \cup {None} /\ ctx.cert \in OwnKey \cup {None}
    /\ ctx.key # None /\ ctx.cert # None => ctx.key = ctx.cert
    /\ ctx.ca \subseteq CA /\ Len(ctx.crls) <= MaxCRLs
    /\ errors \in BOOLEAN

-----------------------------------------------------------------------------
(* SecureContext                                                           *)

\* init makes a context with a store of its own; an unknown method throws.
InitContext ==
    /\ ctx = NewContext
    /\ ctx' = [ctx EXCEPT !.handle = TRUE, !.refs = 1]
    /\ UNCHANGED <<conns, errors>>

\* What is read into a BIO and is no PEM of the kind returns False or throws, and
\* leaves its error in the queue.
LoadBIO(ok, next) ==
    /\ ctx.handle /\ ctx.thrown = None
    /\ IF ok THEN ctx' = next /\ UNCHANGED errors ELSE errors' = TRUE /\ UNCHANGED ctx
    /\ UNCHANGED conns

\* Connections were made: createCredentials, which sets the key and the certificate,
\* is over.
InService == \E c \in Conn : conns[c].was

\* A key that does not fit the certificate takes its place; that this is an error
\* shows only in the queue, and setKey returns True.
SetKey(k) ==
    /\ ctx.handle /\ ctx.thrown = None /\ ~InService
    /\ IF ctx.cert \in {None, k}
       THEN ctx' = [ctx EXCEPT !.key = k] /\ UNCHANGED errors
       ELSE ctx' = [ctx EXCEPT !.cert = None] /\ errors' = TRUE
    /\ UNCHANGED conns

\* A certificate that does not fit the key takes its place, and setCert throws: as it
\* does for any error that is in the queue already.  The error that it throws is taken
\* out of the queue; without one it reads the chain and clears the queue.
SetCert(k) ==
    /\ ctx.handle /\ ctx.thrown = None /\ ~InService
    /\ LET fits == ctx.key \in {None, k}
           ok == fits /\ ~errors
       IN  /\ ctx' = [ctx EXCEPT !.cert = k, !.key = IF fits THEN @ ELSE None,
                                 !.thrown = IF ok THEN None ELSE IF fits THEN "earlier" ELSE "own"]
           /\ errors' \in IF ok THEN {FALSE} ELSE BOOLEAN
    /\ UNCHANGED conns

BadPEM == LoadBIO(FALSE, ctx)

AddCACert(a) == LoadBIO(TRUE, [ctx EXCEPT !.ca = @ \cup {a}])

\* A list of an authority, with the certificates that it revokes.
AddCRL(a, revoked) ==
    /\ Len(ctx.crls) < MaxCRLs
    /\ LoadBIO(TRUE, [ctx EXCEPT !.crls = Append(@, [by |-> a, revoked |-> revoked])])

\* The built-in list of authorities, "A" among them.
AddRootCerts == LoadBIO(TRUE, [ctx EXCEPT !.ca = @ \cup {"A"}])

\* Mutant: the context is freed although connections use it.
CloseContext_Frees ==
    /\ ctx.handle
    /\ ctx' = [ctx EXCEPT !.handle = FALSE, !.refs = 0]
    /\ UNCHANGED <<conns, errors>>

\* close, or the destructor when the object is collected: one reference less, once.
CloseContext ==
    /\ ctx.handle
    /\ ctx' = [ctx EXCEPT !.handle = FALSE, !.refs = @ - 1]
    /\ UNCHANGED <<conns, errors>>

-----------------------------------------------------------------------------
(* Connection                                                              *)

\* The verify mode: only a server asks for a certificate, and only when both are
\* set it insists.
VerifyMode(server, request, reject) ==
    IF server /\ request THEN {"peer"} \cup (IF reject THEN {"insist"} ELSE {}) ELSE {}

\* A connection of a context; if setCert threw, lib/crypto.js has no credentials.
NewConnectionOf(c, server, request, reject) ==
    /\ ctx.handle /\ ctx.thrown = None /\ ~conns[c].was
    /\ ctx' = [ctx EXCEPT !.refs = @ + 1]
    /\ conns' = [conns EXCEPT ![c] = [@ EXCEPT !.open = TRUE, !.was = TRUE, !.server = server,
                                               !.mode = VerifyMode(server, request, reject)]]
    /\ UNCHANGED errors

\* What OpenSSL finds wrong with the certificate: the last of the errors, all of which
\* VerifyCallback passes over.
VerifyResult(cert) ==
    CASE cert = None -> "OK"
      [] cert # None /\ Issuer(cert) \notin ctx.ca -> "UNABLE_TO_GET_ISSUER_CERT_LOCALLY"
      [] cert # None /\ Issuer(cert) \in ctx.ca ->
           IF cert = "expired" THEN "CERT_HAS_EXPIRED"
           ELSE IF ctx.crls = <<>> THEN "OK"
           ELSE IF \A i \in DOMAIN ctx.crls : ctx.crls[i].by # Issuer(cert) THEN "UNABLE_TO_GET_CRL"
           ELSE IF \E i \in DOMAIN ctx.crls : ctx.crls[i].by = Issuer(cert) /\ cert \in ctx.crls[i].revoked
           THEN "CERT_REVOKED" ELSE "OK"

VerifyCallback(result) == 1

\* The handshake with a peer that shows a certificate or none.  A client always gets
\* one; a server gets one only if it asks, and fails without one if it insists.
\* SSL_accept and SSL_connect clear the queue of errors when they begin.
Handshakes(c, cert) ==
    LET h == conns[c]
        sees == IF h.server /\ "peer" \notin h.mode THEN None ELSE cert
        result == VerifyResult(sees)
    IN  /\ h.open /\ ~h.secure
        /\ h.server \/ cert # None
        /\ IF (sees = None /\ "insist" \in h.mode) \/ (h.server /\ VerifyCallback(result) = 0)
           THEN /\ errors' = TRUE
                /\ conns' = [conns EXCEPT ![c] = [@ EXCEPT !.open = FALSE, !.state = "failed"]]
                /\ ctx' = [ctx EXCEPT !.refs = @ - 1]
           ELSE /\ errors' = FALSE
                /\ conns' = [conns EXCEPT ![c] = [@ EXCEPT !.secure = TRUE, !.peer = sees, !.result = result,
                                                           !.crls = Len(ctx.crls)]]
                /\ UNCHANGED ctx

\* null, or the name of what is wrong; no certificate is wrong too.
VerifyError(h) ==
    IF ~h.open THEN "null"
    ELSE IF h.peer = None THEN "UNABLE_TO_GET_ISSUER_CERT"
    ELSE IF h.result = "OK" THEN "null"
    ELSE h.result

\* The 'secure' event: a server that did not ask takes anyone; otherwise the peer is
\* authorized, or not, or rejected.
Secure(c) ==
    LET h == conns[c]
        state == IF h.server /\ "peer" \notin h.mode THEN "unasked"
                 ELSE IF VerifyError(h) = "null" THEN "authorized"
                 ELSE IF "insist" \in h.mode THEN "rejected" ELSE "unauthorized"
    IN  /\ h.open /\ h.secure /\ h.state = "none"
        /\ conns' = [conns EXCEPT ![c].state = state, ![c].open = (state # "rejected")]
        /\ ctx' = [ctx EXCEPT !.refs = IF state = "rejected" THEN @ - 1 ELSE @]
        /\ UNCHANGED errors

CloseConnection(c) ==
    /\ conns[c].open
    /\ conns' = [conns EXCEPT ![c] = [NewConn EXCEPT !.was = TRUE]]
    /\ ctx' = [ctx EXCEPT !.refs = @ - 1]
    /\ UNCHANGED errors

-----------------------------------------------------------------------------
SecureContextNext ==
    \/ InitContext \/ BadPEM \/ AddRootCerts \/ CloseContext
    \/ \E k \in OwnKey : SetKey(k) \/ SetCert(k)
    \/ \E a \in CA : AddCACert(a)
    \/ \E revoked \in {{}, {"a1"}} : AddCRL("A", revoked)

ConnectionNext ==
    \E c \in Conn :
      \/ \E server, request, reject \in BOOLEAN : NewConnectionOf(c, server, request, reject)
      \/ \E cert \in PeerCert \cup {None} : Handshakes(c, cert)
      \/ Secure(c)
      \/ CloseConnection(c)

ContextNext == SecureContextNext \/ ConnectionNext

ContextSpec == ContextInit /\ [][ContextNext]_contextVars

-----------------------------------------------------------------------------
\* The OpenSSL context lives as long as the object or a connection uses it, and no
\* longer, in whatever order they are closed.
ContextOutlivesConnections ==
    ctx.refs = Cardinality({c \in Conn : conns[c].open}) + (IF ctx.handle THEN 1 ELSE 0)

\* An authorized peer showed a certificate that an authority of the context issued, that
\* has not expired and that no list revoked that the context had at the handshake.
AuthorizedIsVerified ==
    \A c \in Conn : conns[c].state = "authorized" =>
        LET h == conns[c] IN
        /\ h.peer \in PeerCert \ {"expired"}
        /\ Issuer(h.peer) \in ctx.ca
        /\ \A i \in 1..h.crls : h.peer \notin ctx.crls[i].revoked

\* A handshake fails only for want of a certificate; one that is not acceptable is left
\* to lib/tls.js, which rejects it where the server insists.
OnlyMissingCertFails ==
    \A c \in Conn :
        /\ conns[c].state = "failed" => "insist" \in conns[c].mode /\ conns[c].peer = None
        /\ conns[c].state = "unauthorized" => "insist" \notin conns[c].mode

\* SecureContext and its connections: no connection uses a context that was freed, and a peer
\* is authorized only if its certificate was verified.
ContextSafe ==
    /\ ContextTypeOK
    /\ ContextOutlivesConnections
    /\ AuthorizedIsVerified
    /\ OnlyMissingCertFails
=============================================================================

---------------------------- MODULE OAuthClient ----------------------------
(***************************************************************************)
(* NXOAuth2Client together with the NXOAuth2Connections it signs, retries  *)
(* and fails, and the NXOAuth2Request objects the application drives them  *)
(* with.  Everything runs on one run loop, so a handler is one step; what  *)
(* interleaves is the order of the network's callbacks, the delayed        *)
(* selector of the refresh retry, the clock and the application's calls.   *)
(*                                                                         *)
(* The client is not persistent here (NXOAuth2Account and the store's      *)
(* pending clients are created or switched that way), so its access token  *)
(* lives in memory only.                                                   *)
(***************************************************************************)
EXTENDS Naturals

CONSTANTS
    Req,            \* the application's NXOAuth2Request objects
    Auth,           \* a pool of names for the client's own token connections
    None,           \* nil
    MaxRetries,     \* refreshes retried after a server error (4 in the code)
    MaxToken,       \* bound: tokens the server issues in a behaviour
    Relogin,        \* may the application ask for a token on a client that had one?
    Assertions,     \* NSAssert compiled in (Debug) or out (Release)
    AuthReplies,    \* what the token endpoint may answer
    IssuedExpiry    \* the expiry of a token on arrival: "ahead", "passed" or either

\* Answers, by what the code tells apart: a status below 400, a 401 naming
\* invalid_token, another 401, a 5xx, another error, and an answer whose
\* WWW-Authenticate names expired_token.
Replies == {"ok", "invalid", "unauthorized", "server", "error", "expired"}

\* An API server's answers: its errors other than invalid_token are all alike.
ApiReplies == {"ok", "invalid", "error", "expired"}

ASSUME ConstantsAssumption ==
    /\ Req \cap Auth = {}
    /\ None \notin Req \cup Auth
    /\ MaxRetries \in Nat
    /\ MaxToken \in Nat
    /\ Relogin \in BOOLEAN
    /\ Assertions \in BOOLEAN
    /\ AuthReplies \subseteq Replies
    /\ IssuedExpiry \subseteq {"ahead", "passed"}

VARIABLES
    token,          \* accessToken
    issued,         \* how many tokens there have been
    conn,           \* each connection's NSURLConnection and the token that signed it
    context,        \* context of each token connection
    req,            \* state of each request
    calls,          \* response handler invocations of the current performance
    waiting,        \* waitingConnections, by content
    authConnection,
    authenticating,
    retryCount,     \* refreshConnectionDidRetryCount
    timers,         \* pending performSelector:@selector(refreshAccessToken)
    exception       \* the uncaught exception that ended the program

vars == <<token, issued, conn, context, req, calls, waiting,
          authConnection, authenticating, retryCount, timers, exception>>

netVars == <<conn, context, waiting, authConnection>>
tokenVars == <<token, issued>>
appVars == <<req, calls>>
retryVars == <<retryCount, timers>>

-----------------------------------------------------------------------------
Connection == Req \cup Auth

\* An access token: which one it is, whether it has a refresh token, and
\* whether its expiry date is more than ten seconds ago.
Token(n) == [id : 0..n, refresh : {"nil", "set"}, expiry : {"ahead", "passed"}]

NoToken == [id |-> 0, refresh |-> "nil", expiry |-> "ahead"]

\* "none": no live NSURLConnection; "sent": waiting for the response; else the
\* response that arrived and whose body is still loading.
Net == {"none", "sent"} \cup Replies

Stopped == [net |-> "none", sig |-> 0]

Running == exception = "none"

Live(k) == conn[k].net # "none"

\* The refresh connection's grant_type is refresh_token.
IsRefresh(k) == k \in Auth /\ context[k] = "refresh"

\* createConnection gives up before starting: the token can be refreshed and
\* is expired.
NeedsRefresh(t) == t.id # 0 /\ t.refresh = "set" /\ t.expiry = "passed"

\* A started connection with the Authorization header of token n (0: none).
Launched(n) == [net |-> "sent", sig |-> n]

\* Names of token connections that are deallocated by now.
Free == {a \in Auth : a # authConnection /\ ~Live(a) /\ a \notin waiting}

TypeOK ==
    /\ issued \in Nat
    /\ token \in Token(issued)
    /\ token.id = 0 => token = NoToken
    /\ conn \in [Connection -> [net : Net, sig : 0..issued]]
    /\ context \in [Auth -> {"request", "refresh"}]
    /\ req \in [Req -> {"idle", "open", "closed", "cancelled"}]
    /\ calls \in [Req -> Nat]
    /\ waiting \subseteq Connection
    /\ authConnection \in Auth \cup {None}
    /\ authenticating \in BOOLEAN
    /\ retryCount \in 0..MaxRetries
    /\ timers \in Nat
    /\ exception \in {"none", "invalidState", "alreadyRunning",
                      "noToken", "mutated"}

\* A pending client of the account store has no token; the client of an
\* account starts with the token the account was saved with.
Init ==
    /\ \/ issued = 0 /\ token = NoToken
       \/ issued = 1 /\ token \in {t \in Token(1) : t.id = 1}
    /\ conn = [k \in Connection |-> Stopped]
    /\ context = [a \in Auth |-> "request"]
    /\ req = [c \in Req |-> "idle"]
    /\ calls = [c \in Req |-> 0]
    /\ waiting = {}
    /\ authConnection = None
    /\ authenticating = FALSE
    /\ retryCount = 0
    /\ timers = 0
    /\ exception = "none"

-----------------------------------------------------------------------------
(* Refreshing                                                              *)

\* An uncaught exception ends the program: what its handler had done by then
\* is not seen by anyone.
Raise(e) ==
    /\ exception' = e
    /\ UNCHANGED <<netVars, tokenVars, appVars, authenticating>>

\* Mutant: a connection is not queued when a token exchange is running.
RefreshAndRetry_QueuesOnlyFirst(ks, cn) ==
    \/ /\ authConnection # None
       /\ conn' = cn
       /\ UNCHANGED <<waiting, context, authConnection, exception>>
    \/ /\ authConnection = None
       /\ token.refresh = "set" \/ ~Assertions
       /\ waiting' = waiting \cup ks
       /\ \E a \in Free \ ks :
             /\ authConnection' = a
             /\ context' = [context EXCEPT ![a] = "refresh"]
             /\ conn' = [cn EXCEPT ![a] = Launched(0)]
       /\ UNCHANGED exception

\* Mutant: every connection that finds the token expired starts a refresh.
RefreshAndRetry_AlwaysStarts(ks, cn) ==
    /\ waiting' = waiting \cup ks
    /\ \E a \in Free \ ks :
          /\ authConnection' = a
          /\ context' = [context EXCEPT ![a] = "refresh"]
          /\ conn' = [cn EXCEPT ![a] = Launched(0)]
    /\ UNCHANGED exception

\* refreshAccessTokenAndRetryConnection: for the connections in ks (none, or
\* one), where cn is what the caller has made of conn.
RefreshAndRetry(ks, cn) ==
    \/ /\ authConnection # None
       /\ waiting' = waiting \cup ks
       /\ conn' = cn
       /\ UNCHANGED <<context, authConnection, exception>>
    \/ /\ authConnection = None
       /\ token.refresh = "set" \/ ~Assertions
       /\ waiting' = waiting \cup ks
       /\ \E a \in Free \ ks :
             /\ authConnection' = a
             /\ context' = [context EXCEPT ![a] = "refresh"]
             /\ conn' = [cn EXCEPT ![a] = Launched(0)]
       /\ UNCHANGED exception

RefreshAssertionFails == authConnection = None /\ Assertions /\ token.refresh = "nil"

-----------------------------------------------------------------------------
(* The application                                                         *)

\* performRequestWithSendingProgressHandler: creates the connection, which
\* starts signed with the token or goes straight to the waiting queue.
Perform(c) ==
    /\ Running
    /\ req[c] # "open"
    /\ req' = [req EXCEPT ![c] = "open"]
    /\ calls' = [calls EXCEPT ![c] = 0]
    /\ \/ /\ NeedsRefresh(token)
          /\ RefreshAndRetry({c}, conn)
       \/ /\ ~NeedsRefresh(token)
          /\ conn' = [conn EXCEPT ![c] = Launched(token.id)]
          /\ UNCHANGED <<context, waiting, authConnection, exception>>
    /\ UNCHANGED <<tokenVars, authenticating, retryVars>>

\* Mutant: cancel leaves the connection in the waiting queue.
Cancel_StaysQueued(c) ==
    /\ Running
    /\ req[c] = "open"
    /\ req' = [req EXCEPT ![c] = "cancelled"]
    /\ conn' = [conn EXCEPT ![c] = Stopped]
    /\ UNCHANGED <<calls, context, waiting, authConnection, tokenVars,
                   authenticating, retryVars, exception>>

\* NXOAuth2Request cancel.
Cancel(c) ==
    /\ Running
    /\ req[c] = "open"
    /\ req' = [req EXCEPT ![c] = "cancelled"]
    /\ conn' = [conn EXCEPT ![c] = Stopped]
    /\ waiting' = waiting \ {c}
    /\ UNCHANGED <<calls, context, authConnection, tokenVars, authenticating,
                   retryVars, exception>>

\* refreshAccessToken, called by the application on a token it can refresh.
AppRefresh ==
    /\ Running
    /\ token.refresh = "set"
    /\ RefreshAndRetry({}, conn)
    /\ UNCHANGED <<tokenVars, appVars, authenticating, retryVars>>

\* requestTokenWithAuthGrant: and the three other flows.  On an expired token
\* the new connection queues itself and starts a refresh (when no token
\* connection is there yet), which the assignment to authConnection then
\* forgets.
Login ==
    /\ Running
    /\ Relogin \/ issued = 0
    /\ authConnection = None \/ ~Assertions
    /\ authenticating' = TRUE
    /\ \E t \in Free :
         /\ authConnection' = t
         /\ LET stopped == [k \in Connection |->
                              IF k = authConnection THEN Stopped ELSE conn[k]]
            IN \/ /\ ~NeedsRefresh(token)
                  /\ waiting' = waiting \ {authConnection}
                  /\ conn' = [stopped EXCEPT ![t] = Launched(token.id)]
                  /\ context' = [context EXCEPT ![t] = "request"]
               \/ /\ NeedsRefresh(token)
                  /\ waiting' = (waiting \ {authConnection}) \cup {t}
                  /\ \/ /\ authConnection # None
                        /\ conn' = stopped
                        /\ context' = [context EXCEPT ![t] = "request"]
                     \/ /\ authConnection = None
                        /\ \E r \in Free \ {t} :
                             /\ conn' = [conn EXCEPT ![r] = Launched(0)]
                             /\ context' = [context EXCEPT ![t] = "request",
                                                           ![r] = "refresh"]
    /\ UNCHANGED <<tokenVars, appVars, retryVars, exception>>

LoginAssertionFails ==
    /\ Running
    /\ Relogin \/ issued = 0
    /\ authConnection # None /\ Assertions
    /\ Raise("alreadyRunning")
    /\ UNCHANGED retryVars

\* The clock reaches ten seconds past the token's expiry date.
TokenExpires ==
    /\ Running
    /\ token.id # 0
    /\ token.expiry = "ahead"
    /\ token' = [token EXCEPT !.expiry = "passed"]
    /\ UNCHANGED <<issued, netVars, appVars, authenticating, retryVars,
                   exception>>

-----------------------------------------------------------------------------
(* Callbacks of NSURLConnection                                            *)

\* Mutant: the exchange is not cancelled before the connection is queued.
ReceiveExpired_NotCancelled(k) ==
    /\ Running
    /\ conn[k].net = "sent"
    /\ k \in Auth => "expired" \in AuthReplies
    /\ token.refresh = "set"
    /\ RefreshAndRetry({k}, conn)
    /\ UNCHANGED <<tokenVars, appVars, authenticating, retryVars>>

\* connection:didReceiveResponse:, an answer that reports an expired token to
\* a client with a refresh token: stop, queue, and have the token refreshed.
ReceiveExpired(k) ==
    /\ Running
    /\ conn[k].net = "sent"
    /\ k \in Auth => "expired" \in AuthReplies
    /\ token.refresh = "set"
    /\ RefreshAndRetry({k}, [conn EXCEPT ![k] = Stopped])
    /\ UNCHANGED <<tokenVars, appVars, authenticating, retryVars>>

\* connection:didReceiveResponse:, any other answer.
ReceiveResponse(k, r) ==
    /\ Running
    /\ conn[k].net = "sent"
    /\ r \in IF k \in Auth THEN AuthReplies ELSE ApiReplies
    /\ r = "expired" => token.refresh = "nil"
    /\ conn' = [conn EXCEPT ![k].net = r]
    /\ UNCHANGED <<context, waiting, authConnection, tokenVars, appVars,
                   authenticating, retryVars, exception>>

\* connection:willSendRequest:redirectResponse: the Authorization header is
\* removed (another host) or set to the client's token of the moment.
Redirect(k, n) ==
    /\ Running
    /\ conn[k].net = "sent"
    /\ conn' = [conn EXCEPT ![k].sig = n]
    /\ UNCHANGED <<context, waiting, authConnection, tokenVars, appVars,
                   authenticating, retryVars, exception>>

\* connectionDidFinishLoading: drops whatever token the client has by now when
\* a 401 names invalid_token.
TokenAfter(k) == IF conn[k].net = "invalid" THEN NoToken ELSE token

\* The NXOAuth2Request is told and lets go of the connection, then the
\* response handler runs.
Complete(c) ==
    /\ conn' = [conn EXCEPT ![c] = Stopped]
    /\ req' = [req EXCEPT ![c] = "closed"]
    /\ calls' = [calls EXCEPT ![c] = @ + 1]
    /\ UNCHANGED <<context, waiting, authConnection, authenticating, retryVars,
                   exception>>

\* connectionDidFinishLoading: of a request's connection.
FinishRequest(c) ==
    /\ Running
    /\ conn[c].net \in Replies
    /\ token' = TokenAfter(c)
    /\ UNCHANGED issued
    /\ Complete(c)

\* connection:didFailWithError: of a request's connection.
NetworkFailure(c) ==
    /\ Running
    /\ Live(c)
    /\ Complete(c)
    /\ UNCHANGED tokenVars

-----------------------------------------------------------------------------
(* Callbacks of the token connection                                       *)

\* createConnection in the retry loop finds the new token expired for every
\* connection but a refresh: it leaves and re-enters the queue being
\* enumerated.
Requeued(t) == {k \in waiting : NeedsRefresh(t) /\ ~IsRefresh(k)}

\* Mutant: the waiting connections are retried before the token is replaced.
RetryWaiting_BeforeNewToken(a, t) ==
    /\ \A j, k \in Requeued(t) : j = k
    /\ token' = t
    /\ conn' = [k \in Connection |->
                  CASE k = a -> Stopped
                    [] k \in Requeued(t) -> Stopped
                    [] k \in waiting \ Requeued(t) -> Launched(IF IsRefresh(k) THEN 0 ELSE token.id)
                    [] OTHER -> conn[k]]
    /\ waiting' = {}
    /\ authConnection' = None
    /\ authenticating' = FALSE
    /\ retryCount' = 0
    /\ UNCHANGED <<context, timers, appVars, exception>>

\* The tail of oauthConnection:didFinishWithData: with the new token t: all
\* waiting connections are retried and the queue is emptied.
RetryWaiting(a, t) ==
    /\ \A j, k \in Requeued(t) : j = k
    /\ token' = t
    /\ conn' = [k \in Connection |->
                  CASE k = a -> Stopped
                    [] k \in Requeued(t) -> Stopped
                    [] k \in waiting \ Requeued(t) -> Launched(IF IsRefresh(k) THEN 0 ELSE t.id)
                    [] OTHER -> conn[k]]
    /\ waiting' = {}
    /\ authConnection' = None
    /\ authenticating' = FALSE
    /\ retryCount' = 0
    /\ UNCHANGED <<context, timers, appVars, exception>>

\* The tokens the server may issue next; one that comes without a refresh token
\* inherits the old one (restoreWithOldToken:).
Issuable ==
    {[id |-> issued + 1, refresh |-> r, expiry |-> e] :
        r \in {token.refresh, "set"}, e \in IssuedExpiry}

\* The answer holds a token.
AuthFinish(a) ==
    /\ Running
    /\ a = authConnection
    /\ conn[a].net = "ok"
    /\ issued < MaxToken
    /\ issued' = issued + 1
    /\ \E t \in Issuable : RetryWaiting(a, t)

\* Retrying one connection changes the queue while another is still to come.
AuthFinishMutates(a) ==
    /\ Running
    /\ a = authConnection
    /\ conn[a].net = "ok"
    /\ issued < MaxToken
    /\ \E t \in Issuable : \E j \in Requeued(t) : waiting # {j}
    /\ Raise("mutated")
    /\ UNCHANGED retryVars

\* The answer holds no token: an assertion, or, compiled out, a nil token.
AuthFinishNoToken(a) ==
    /\ Running
    /\ a = authConnection
    /\ conn[a].net = "ok"
    /\ \/ Assertions /\ Raise("noToken") /\ UNCHANGED retryVars
       \/ ~Assertions /\ RetryWaiting(a, NoToken) /\ UNCHANGED issued

\* Mutant: the retry is counted but never scheduled.
AuthRetryLater_NoTimer(a) ==
    /\ Running
    /\ a = authConnection
    /\ conn[a].net = "server" /\ context[a] = "refresh"
    /\ retryCount < MaxRetries
    /\ retryCount' = retryCount + 1
    /\ authenticating' = FALSE
    /\ authConnection' = None
    /\ conn' = [conn EXCEPT ![a] = Stopped]
    /\ UNCHANGED <<context, waiting, timers, tokenVars, appVars, exception>>

\* Mutant: one retry too many.
AuthRetryLater_OffByOne(a) ==
    /\ Running
    /\ a = authConnection
    /\ conn[a].net = "server" /\ context[a] = "refresh"
    /\ retryCount <= MaxRetries
    /\ retryCount' = retryCount + 1
    /\ timers' = timers + 1
    /\ authenticating' = FALSE
    /\ authConnection' = None
    /\ conn' = [conn EXCEPT ![a] = Stopped]
    /\ UNCHANGED <<context, waiting, tokenVars, appVars, exception>>

\* oauthConnection:didFailWithError: on a refresh that met a server error:
\* another try in a second.
AuthRetryLater(a) ==
    /\ Running
    /\ a = authConnection
    /\ conn[a].net = "server" /\ context[a] = "refresh"
    /\ retryCount < MaxRetries
    /\ retryCount' = retryCount + 1
    /\ timers' = timers + 1
    /\ authenticating' = FALSE
    /\ authConnection' = None
    /\ conn' = [conn EXCEPT ![a] = Stopped]
    /\ UNCHANGED <<context, waiting, tokenVars, appVars, exception>>

\* Mutant: a failed token request leaves the client authenticating.
GiveUp_StaysAuthenticating(a, t) ==
    /\ token' = t
    /\ authConnection' = None
    /\ conn' = [conn EXCEPT ![a] = Stopped]
    /\ \/ /\ context[a] = "refresh"
          /\ waiting' = {}
          /\ req' = [c \in Req |-> IF c \in waiting THEN "closed" ELSE req[c]]
       \/ /\ context[a] = "request"
          /\ UNCHANGED <<waiting, req>>
    /\ UNCHANGED <<issued, context, calls, authenticating, retryVars, exception>>

\* oauthConnection:didFailWithError: otherwise.  A refresh that is given up
\* fails all waiting connections: their delegates are told, their response
\* handlers are not.  A 401 drops the token.
GiveUp(a, t) ==
    /\ token' = t
    /\ authenticating' = FALSE
    /\ authConnection' = None
    /\ conn' = [conn EXCEPT ![a] = Stopped]
    /\ \/ /\ context[a] = "refresh"
          /\ waiting' = {}
          /\ req' = [c \in Req |-> IF c \in waiting THEN "closed" ELSE req[c]]
       \/ /\ context[a] = "request"
          /\ UNCHANGED <<waiting, req>>
    /\ UNCHANGED <<issued, context, calls, retryVars, exception>>

AuthFail(a) ==
    /\ Running
    /\ a = authConnection
    /\ conn[a].net \in Replies \ {"ok"}
    /\ ~(conn[a].net = "server" /\ context[a] = "refresh" /\ retryCount < MaxRetries)
    /\ GiveUp(a, IF conn[a].net = "unauthorized" THEN NoToken ELSE TokenAfter(a))

AuthNetworkFailure(a) ==
    /\ Running
    /\ a = authConnection
    /\ Live(a)
    /\ GiveUp(a, token)

\* A token connection that authConnection no longer names ends: the client
\* ignores it, the connection itself still acts on invalid_token.
OrphanEnds(a) ==
    /\ Running
    /\ a # authConnection
    /\ Live(a)
    /\ conn' = [conn EXCEPT ![a] = Stopped]
    /\ token' = TokenAfter(a)
    /\ UNCHANGED <<issued, context, waiting, authConnection, appVars, authenticating,
                   retryVars, exception>>

\* The delayed refreshAccessToken runs.
TimerFires ==
    /\ Running
    /\ timers > 0
    /\ timers' = timers - 1
    /\ \/ /\ RefreshAndRetry({}, conn)
          /\ UNCHANGED <<tokenVars, appVars, authenticating>>
       \/ RefreshAssertionFails /\ Raise("invalidState")
    /\ UNCHANGED retryCount

-----------------------------------------------------------------------------
AuthStep(a) ==
    \/ AuthFinish(a) \/ AuthFinishMutates(a) \/ AuthFinishNoToken(a)
    \/ AuthRetryLater(a) \/ AuthFail(a) \/ AuthNetworkFailure(a)

Network(k) ==
    \/ ReceiveExpired(k)
    \/ \E r \in Replies : ReceiveResponse(k, r)

Next ==
    \/ \E c \in Req : Perform(c) \/ Cancel(c) \/ FinishRequest(c) \/ NetworkFailure(c)
    \/ AppRefresh \/ Login \/ LoginAssertionFails \/ TokenExpires
    \/ \E k \in Connection : Network(k) \/ \E n \in {0, token.id} : Redirect(k, n)
    \/ \E a \in Auth : AuthStep(a) \/ OrphanEnds(a)
    \/ TimerFires

Spec == Init /\ [][Next]_vars

\* A started NSURLConnection ends with a callback (at the latest by its
\* timeout) and the run loop fires a pending timer.
FairSpec ==
    /\ Spec
    /\ \A a \in Auth : WF_vars(Network(a)) /\ WF_vars(AuthStep(a))
    /\ WF_vars(TimerFires)

-----------------------------------------------------------------------------
(* Properties                                                              *)

\* A request completes at most once and only after it was performed: its
\* response handler never runs for a connection that is still in the client's
\* queue or on the wire, and nothing of it stays there once it is closed or
\* cancelled (retry, cancel and the failing of waiting connections).
CompletesOnce ==
    \A c \in Req :
       /\ calls[c] <= 1
       /\ Live(c) \/ c \in waiting => req[c] = "open"
       /\ req[c] = "open" => calls[c] = 0

\* A queued connection is not on the wire at the same time, so that retrying
\* the queue never abandons a live exchange.
QueuedIsStopped == \A k \in waiting : ~Live(k)

\* No request is forgotten: as long as it is neither answered nor cancelled it
\* is on the wire or in waitingConnections, where a refresh finds it.
NothingForgotten ==
    Running => \A c \in Req : req[c] = "open" => Live(c) \/ c \in waiting

\* Whenever connections wait for authorisation there is something that will
\* serve them: a refresh on the wire, or a timer that starts one.
WaitingHasServer ==
    Running /\ waiting # {} =>
       \/ timers > 0
       \/ /\ authConnection # None
          /\ Live(authConnection)
          /\ context[authConnection] = "refresh"

\* At most one token exchange is on the wire, however many connections find
\* out that the token expired.
OneTokenExchange == \A a, b \in Auth : Live(a) /\ Live(b) => a = b

\* isAuthenticating says exactly that a token request of the application (and
\* no refresh) is under way.
AuthenticatingIsAccurate ==
    Running =>
       (authenticating <=> authConnection # None /\ context[authConnection] = "request")

\* A connection that leaves the queue for the wire is signed with the token
\* the client has after the refresh, never with the one that expired.
RetriedWithNewToken ==
    [][\A c \in Req : c \in waiting /\ conn'[c].net = "sent"
           => conn'[c].sig = token'.id]_vars

\* A response about an invalid token costs the client only the token that the
\* request was signed with, not one that has replaced it since.
DropsOnlyRefusedToken ==
    [][\A c \in Req : FinishRequest(c) /\ token.id # 0 /\ token'.id = 0
           => conn[c].sig \in {0, token.id}]_vars

\* A connection waiting for authorisation is eventually retried, failed or
\* cancelled.
WaitingIsServed == \A c \in Req : c \in waiting ~> (c \notin waiting \/ ~Running)
=============================================================================

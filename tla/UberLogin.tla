----------------------------- MODULE UberLogin -----------------------------
(***************************************************************************)
(* The login of the application: the AppDelegate makes an UberKit of its   *)
(* own, sets itself as its delegate and starts the login, which sends the  *)
(* user to Safari; the redirect goes to another UberKit, the shared one,   *)
(* which exchanges the code for a token in a synchronous request and has   *)
(* the token stored in the backend.  Data calls of either UberKit are      *)
(* answered on the session's queue.                                        *)
(***************************************************************************)
EXTENDS Naturals, Sequences

CONSTANTS
    Call,           \* data calls the application makes
    MaxRedirects    \* bound: times the user comes back from a browser

ASSUME LoginAssumption == MaxRedirects \in Nat

\* The AppDelegate's uberKit and [UberKit sharedInstance].
Kit == {"own", "shared"}

\* The query of a redirect, by parameters: code=..., code without a value, or
\* anything else.
Queries == {<<>>, <<"code">>, <<"bare">>, <<"other">>, <<"code", "other">>, <<"other", "code">>}

\* What the token endpoint makes of a code.
Answers == {"unreachable", "malformed", "list", "refused", "granted"}

VARIABLES
    launched,   \* has didFinishLaunching run?
    pending,    \* the account store's pending client for the application
    indicator,  \* the network activity indicator
    delegate,   \* delegate of each UberKit
    token,      \* _accessToken of each UberKit, 0 when nil
    heard,      \* the last token the AppDelegate was told of
    granted,    \* tokens the server has granted
    redirects,  \* redirects so far
    rows,       \* the insertion of each token into the User table
    calls,      \* the data calls: who makes them and what came of them
    exception   \* the uncaught exception that ended the program

loginVars == <<launched, pending, indicator, delegate, token, heard, granted,
          redirects, rows, calls, exception>>

launchVars == <<launched, pending, indicator, delegate>>

-----------------------------------------------------------------------------
Idle == [kit |-> "own", state |-> "idle", handled |-> 0]

Running == exception = "none"

LoginTypeOK ==
    /\ launched \in {"no", "yes"}
    /\ pending \in {"none", "idle"}
    /\ indicator \in {"off", "on"}
    /\ delegate \in [Kit -> {"nil", "app"}]
    /\ granted \in 0..MaxRedirects
    /\ token \in [Kit -> 0..granted]
    /\ heard \in 0..granted
    /\ redirects \in 0..MaxRedirects
    /\ rows \in [1..MaxRedirects -> {"none", "sent", "inserted", "failed"}]
    /\ calls \in [Call -> [kit : Kit, state : {"idle", "loading", "results", "error"},
                           handled : 0..1]]
    /\ exception \in {"none", "outOfRange", "notADictionary"}

LoginInit ==
    /\ launched = "no"
    /\ pending = "none"
    /\ indicator = "off"
    /\ delegate = [k \in Kit |-> "nil"]
    /\ token = [k \in Kit |-> 0]
    /\ heard = 0
    /\ granted = 0
    /\ redirects = 0
    /\ rows = [n \in 1..MaxRedirects |-> "none"]
    /\ calls = [c \in Call |-> Idle]
    /\ exception = "none"

-----------------------------------------------------------------------------
\* The account store makes a pending client and has Safari opened.
RequestOAuth2Access == pending' = "idle" /\ indicator' = "on"

\* application:didFinishLaunchingWithOptions: with startLogin.
FinishLaunching ==
    /\ launched = "no"
    /\ launched' = "yes"
    /\ delegate' = [delegate EXCEPT !["own"] = "app"]
    /\ RequestOAuth2Access
    /\ UNCHANGED <<token, heard, granted, redirects, rows, calls, exception>>

\* Mutant: a token is stored in the backend before it is known to be one.
Exchange_StoresAnything(answer) ==
    /\ \/ /\ answer \in {"unreachable", "malformed"}
          /\ UNCHANGED <<token, heard, granted, rows, exception>>
       \/ /\ answer = "list"
          /\ exception' = "notADictionary"
          /\ UNCHANGED <<token, heard, granted, rows>>
       \/ /\ answer = "refused"
          /\ token' = [token EXCEPT !["shared"] = 0]
          /\ rows' = [rows EXCEPT ![redirects'] = "sent"]
          /\ UNCHANGED <<heard, granted, exception>>
       \/ /\ answer = "granted"
          /\ granted' = granted + 1
          /\ token' = [token EXCEPT !["shared"] = granted']
          /\ heard' = IF delegate["shared"] = "app" THEN granted' ELSE heard
          /\ rows' = [rows EXCEPT ![granted'] = "sent"]
          /\ UNCHANGED exception

\* getAuthTokenForCode: an answer without access_token makes _accessToken nil,
\* and JSON that is no dictionary raises an exception.
Exchange(answer) ==
    /\ \/ /\ answer \in {"unreachable", "malformed"}
          /\ UNCHANGED <<token, heard, granted, rows, exception>>
       \/ /\ answer = "list"
          /\ exception' = "notADictionary"
          /\ UNCHANGED <<token, heard, granted, rows>>
       \/ /\ answer = "refused"
          /\ token' = [token EXCEPT !["shared"] = 0]
          /\ UNCHANGED <<heard, granted, rows, exception>>
       \/ /\ answer = "granted"
          /\ granted' = granted + 1
          /\ token' = [token EXCEPT !["shared"] = granted']
          /\ heard' = IF delegate["shared"] = "app" THEN granted' ELSE heard
          /\ rows' = [rows EXCEPT ![granted'] = "sent"]
          /\ UNCHANGED exception

\* handleLoginRedirectFromUrl:sourceApplication: looks at Safari's redirects, and
\* of those at the first parameter only.
HandleRedirect(source, query) ==
    /\ Running
    /\ launched = "yes"
    /\ redirects < MaxRedirects
    /\ redirects' = redirects + 1
    /\ \/ /\ source # "safari" \/ query = <<>>
          /\ UNCHANGED <<token, heard, granted, rows, exception>>
       \/ /\ source = "safari" /\ query # <<>>
          /\ \/ /\ Head(query) = "code"
                /\ \E answer \in Answers : Exchange(answer)
             \/ /\ Head(query) = "bare"
                /\ exception' = "outOfRange"
                /\ UNCHANGED <<token, heard, granted, rows>>
             \/ /\ Head(query) = "other"
                /\ UNCHANGED <<token, heard, granted, rows, exception>>
    /\ UNCHANGED <<launchVars, calls>>

\* The backend answers the insertion of a token.
Inserted(n, outcome) ==
    /\ Running
    /\ rows[n] = "sent"
    /\ rows' = [rows EXCEPT ![n] = outcome]
    /\ UNCHANGED <<launchVars, token, heard, granted, redirects, calls, exception>>

\* A data call: the URL is made at once, the answer comes later.
MakeCall(c, k) ==
    /\ Running
    /\ launched = "yes"
    /\ calls[c].state = "idle"
    /\ calls' = [calls EXCEPT ![c] = [kit |-> k, state |-> "loading", handled |-> 0]]
    /\ UNCHANGED <<launchVars, token, heard, granted, redirects, rows, exception>>

\* performNetworkOperationWithURL:completionHandler: and the handler of the call:
\* results, or a network or JSON error; JSON that is no dictionary has no
\* objectForKey:.
AnswerCall(c) ==
    /\ Running
    /\ calls[c].state = "loading"
    /\ \/ /\ \E s \in {"results", "error"} :
                calls' = [calls EXCEPT ![c].state = s, ![c].handled = @ + 1]
          /\ UNCHANGED exception
       \/ exception' = "notADictionary" /\ UNCHANGED calls
    /\ UNCHANGED <<launchVars, token, heard, granted, redirects, rows>>

LoginNext ==
    \/ FinishLaunching
    \/ \E source \in {"safari", "another"}, query \in Queries : HandleRedirect(source, query)
    \/ \E n \in 1..MaxRedirects, outcome \in {"inserted", "failed"} : Inserted(n, outcome)
    \/ \E c \in Call : AnswerCall(c) \/ \E k \in Kit : MakeCall(c, k)

LoginSpec == LoginInit /\ [][LoginNext]_loginVars

-----------------------------------------------------------------------------
(* Properties                                                              *)

\* The shared token is the last one granted or none, and exactly the tokens that
\* were granted went to the backend, however often the user came back with used
\* or refused codes (getAuthTokenForCode:).
BackendHasGrantedTokens ==
    /\ token["shared"] \in {0, granted}
    /\ \A n \in 1..MaxRedirects : rows[n] # "none" <=> n <= granted

\* A data call's completion handler is called, unless the program has died.
CallsAreAnswered ==
    \A c \in Call : calls[c].state = "loading" ~> calls[c].handled = 1 \/ ~Running

\* "Got the access token, can now make requests for user data": a token that the
\* application received is reported to the delegate set for the login.
DelegateHearsOfToken == token["shared"] # 0 => heard = token["shared"]

\* Logging in, however the token endpoint answers and whatever the user comes back with
\* (getAuthTokenForCode:).
LoginSafe ==
    /\ LoginTypeOK
    /\ BackendHasGrantedTokens
=============================================================================

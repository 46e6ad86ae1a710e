--------------------------- MODULE MCOAuthClient ---------------------------
(***************************************************************************)
(* OAuthClient for TLC: requests and token connections are interchangeable *)
(* model values.  SafetySymmetry is not used where liveness is checked.    *)
(***************************************************************************)
EXTENDS OAuthClient, TLC

SafetySymmetry == Permutations(Req) \cup Permutations(Auth)

\* The token endpoint of a server that keeps to the protocol: expired_token
\* is an answer about access tokens, which only API requests carry.
ProtocolReplies == Replies \ {"expired"}

OnlyFresh == {"ahead"}

AnyReply == Replies

FreshOrExpired == {"ahead", "passed"}
=============================================================================

----------------------------- MODULE HttpClient -----------------------------
(***************************************************************************)
(* The OAuth-authenticated HTTP client of the key vault providers         *)
(* (server/shared/curl_helper.cc, HTTPClient::Request), with the parser  *)
(* of the vault's WWW-Authenticate challenge (http_challenge.cc) and the  *)
(* string helpers it uses (util.cc, Trim and Split).                      *)
(*                                                                         *)
(* One HTTPClient is shared by the host's refresher thread and by request *)
(* threads that run a synchronising refresh (key_vault_provider.cc,       *)
(* key_vault_hsm_provider.cc).  Request reads the cached token_, and on a *)
(* 401 carrying a Bearer challenge fetches a token from the authority     *)
(* named in the challenge, stores it in token_ and retries once.  Nothing *)
(* locks token_: a thread can read it while another assigns it.  That is  *)
(* a data race; its outcome is modelled as the reader seeing the old      *)
(* token, the new one, or a torn string (a token marked torn) while the   *)
(* assignment is under way.                                               *)
(*                                                                         *)
(* Strings are sequences of one-character strings over a small alphabet.  *)
(* The words of the protocol are abstracted to two letters each: the     *)
(* scheme "Bearer" is "Br", "authorization" is "az", "authorization_uri"  *)
(* is "au" and "resource" is "rs"; the MC module gives the challenges the *)
(* vault may send.  Trim and Split are translated as the code runs them, *)
(* including the single-character case of Trim.                           *)
(***************************************************************************)
EXTENDS Naturals, Sequences, SequencesExt

CONSTANTS
    Threads,        \* threads sharing the HTTPClient
    Challenges,     \* raw WWW-Authenticate values the vault sends with a 401
    AuthorityURL,   \* the authority the app is registered with
    Resources,      \* resources the authority issues tokens for
    VaultResource   \* the resource the vault accepts tokens for

ASSUME VaultResource \in Resources

VARIABLES
    token_,     \* HTTPClient::token_, as a Token record
    pc,         \* per thread: next step of HTTPClient::Request
    chal,       \* per thread: the challenge of the 401 being handled
    got,        \* per thread: the token FetchOAuthToken returned
    outcome     \* per thread: how its last Request ended

vars == <<token_, pc, chal, got, outcome>>

----------------------------------------------------------------------------
(* String helpers (util.cc)                                                *)

Spaces == {" "}     \* std::isspace
Quote == "\""

\* Trim(source, fn): begin moves past leading characters fn accepts, end
\* back past trailing ones; the result is kept only when end > begin, so a
\* one-character result comes out empty.
Trim(s, Drop) ==
    LET kept == {i \in 1 .. Len(s) : s[i] \notin Drop}
    IN  IF kept = {} THEN <<>>
        ELSE LET begin == Min(kept)
                 end == Max(kept)
             IN  IF end > begin THEN SubSeq(s, begin, end) ELSE <<>>

\* Split(source, delimiter): the pieces between delimiters, and the rest
\* after the last delimiter only when it is not empty.
RECURSIVE SplitFrom(_, _, _)
SplitFrom(s, d, offset) ==
    LET position == SelectInSubSeq(s, offset, Len(s), LAMBDA x : x = d)
    IN  IF position # 0
        THEN <<SubSeq(s, offset, position - 1)>> \o SplitFrom(s, d, position + 1)
        ELSE IF offset <= Len(s) THEN <<SubSeq(s, offset, Len(s))>> ELSE <<>>

Split(s, d) == SplitFrom(s, d, 1)

----------------------------------------------------------------------------
(* The challenge (http_challenge.cc)                                       *)

BearerPrefix == <<"B", "r", " ">>
Authorization == <<"a", "z">>
AuthorizationUri == <<"a", "u">>
ResourceKey == <<"r", "s">>

\* The header value as CurlHeaderCallback stores it: Trim of the text after
\* the colon.
HeaderValue(raw) == Trim(raw, Spaces)

\* isBearerChallenge: "Bearer " occurs anywhere in the challenge.
IsBearerChallenge(c) ==
    \E i \in 0 .. Len(c) - Len(BearerPrefix) :
        SubSeq(c, i + 1, i + Len(BearerPrefix)) = BearerPrefix

\* One name=value piece: kept when it splits into exactly two parts and the
\* name is not empty after trimming spaces and then quotes; a later name
\* overrides an earlier one in _parameters.
AddParameter(params, kv) ==
    LET pair == Split(kv, "=")
        key == Trim(Trim(pair[1], Spaces), {Quote})
        value == Trim(Trim(pair[2], Spaces), {Quote})
    IN  IF Len(pair) = 2 /\ key # <<>> THEN (key :> value) @@ params ELSE params

\* parseChallenge: the scheme ends at the first space of the trimmed
\* challenge, and the parameters are the comma-separated pieces after it.
SchemeEnd(c) == SelectInSeq(Trim(c, Spaces), LAMBDA x : x = " ")

Parameters(c) ==
    LET trimmed == Trim(c, Spaces)
    IN  FoldLeft(AddParameter, [k \in {} |-> <<>>],
                 Split(SubSeq(trimmed, SchemeEnd(c) + 1, Len(trimmed)), ","))

\* HttpChallenge(challenge) throws invalid_argument for an empty challenge,
\* one without a space after the scheme, and one without a parameter.
ChallengeInvalid(c) == c = <<>> \/ SchemeEnd(c) = 0 \/ DOMAIN Parameters(c) = {}

\* authority(): "authorization", else "authorization_uri"; resource():
\* "resource"; each the empty set where the code throws runtime_error.
AuthorityOf(params) ==
    IF Authorization \in DOMAIN params THEN {params[Authorization]}
    ELSE IF AuthorizationUri \in DOMAIN params THEN {params[AuthorizationUri]}
    ELSE {}

ResourceOf(params) ==
    IF ResourceKey \in DOMAIN params THEN {params[ResourceKey]} ELSE {}

----------------------------------------------------------------------------
(* HTTP exchanges (Curl and FetchOAuthToken)                               *)

\* A token string: for which resource it was issued, whether it is still
\* within its lifetime, and whether it is read halfway through assignment.
Token(resource) == [res |-> resource, live |-> TRUE, torn |-> FALSE]
EmptyToken == [res |-> <<>>, live |-> FALSE, torn |-> FALSE]

\* The vault accepts a live token for its resource.
Accepted(tok) == ~tok.torn /\ tok.live /\ tok.res = VaultResource

\* Curl with a token the vault accepts: the response, or an error that
\* Request does not handle (CurlOtherError, or an HTTP error without a
\* Bearer challenge), both of which propagate to the caller.
VaultAnswers == {"ok", "vaultError"}

\* FetchOAuthToken(authority, resource): a POST to the authority, which
\* fails for a URL other than the registered authority and for a resource
\* it issues no token for, and may fail anyway (authorityError); the
\* response's resource and token type are checked against the request.
FetchOAuthToken(authority, resource) ==
    LET Ends(results) == {[result |-> r, res |-> resource] : r \in results}
    IN  IF authority # AuthorityURL THEN Ends({"badAuthority"})
        ELSE IF resource \notin Resources THEN Ends({"badResource"})
        ELSE Ends({"authorityError", "token"})

\* The HttpChallenge constructed from the challenge, then authority() and
\* resource(), then FetchOAuthToken: a result "token" when it returns one
\* for the resource, or why it threw.
TokenFor(c) ==
    LET params == Parameters(c)
    IN  IF ChallengeInvalid(c) \/ AuthorityOf(params) = {} \/ ResourceOf(params) = {}
        THEN {[result |-> "badChallenge", res |-> <<>>]}
        ELSE UNION {FetchOAuthToken(a, r) : a \in AuthorityOf(params), r \in ResourceOf(params)}

----------------------------------------------------------------------------
(* HTTPClient::Request on thread t                                         *)

\* The HTTPClient constructor leaves token_ empty.
Init ==
    /\ token_ = EmptyToken
    /\ pc = [t \in Threads |-> "idle"]
    /\ chal = [t \in Threads |-> <<>>]
    /\ got = [t \in Threads |-> EmptyToken]
    /\ outcome = [t \in Threads |-> "none"]

\* The first Curl, with the token when token_ is not empty.  A token the
\* vault refuses (none, expired, torn) draws a 401 whose WWW-Authenticate
\* header is looked up; without a Bearer challenge the error is rethrown.
Send(t) ==
    /\ pc[t] = "idle"
    /\ IF Accepted(token_)
       THEN /\ \E o \in VaultAnswers : outcome' = [outcome EXCEPT ![t] = o]
            /\ UNCHANGED <<pc, chal>>
       ELSE \E raw \in Challenges :
              IF IsBearerChallenge(HeaderValue(raw))
              THEN /\ chal' = [chal EXCEPT ![t] = HeaderValue(raw)]
                   /\ pc' = [pc EXCEPT ![t] = "fetch"]
                   /\ UNCHANGED outcome
              ELSE /\ outcome' = [outcome EXCEPT ![t] = "vaultError"]
                   /\ UNCHANGED <<pc, chal>>
    /\ UNCHANGED <<token_, got>>

\* HttpChallenge ch(*challenge) and FetchOAuthToken(ch.authority(),
\* ch.resource(), ...), the right-hand side of the assignment to token_.
FetchToken(t) ==
    /\ pc[t] = "fetch"
    /\ \E r \in TokenFor(chal[t]) :
          IF r.result = "token"
          THEN /\ got' = [got EXCEPT ![t] = Token(r.res)]
               /\ pc' = [pc EXCEPT ![t] = "store"]
               /\ UNCHANGED outcome
          ELSE /\ outcome' = [outcome EXCEPT ![t] = r.result]
               /\ pc' = [pc EXCEPT ![t] = "idle"]
               /\ UNCHANGED got
    /\ UNCHANGED <<token_, chal>>

\* token_ = ...: the std::string assignment replaces the buffer, size and
\* contents in several writes; a reader between them sees a torn string.
Store(t) ==
    /\ pc[t] = "store"
    /\ token_' = [token_ EXCEPT !.torn = TRUE]
    /\ pc' = [pc EXCEPT ![t] = "publish"]
    /\ UNCHANGED <<chal, got, outcome>>

\* The assignment completes; the string stays torn while another thread's
\* assignment is still under way.
Publish(t) ==
    /\ pc[t] = "publish"
    /\ token_' = [got[t] EXCEPT !.torn = \E u \in Threads \ {t} : pc[u] = "publish"]
    /\ pc' = [pc EXCEPT ![t] = "retry"]
    /\ UNCHANGED <<chal, got, outcome>>

\* Mutant: the retry sends the caller's headers, without the token.
RetryWithoutToken(t) ==
    /\ pc[t] = "retry"
    /\ outcome' = [outcome EXCEPT ![t] = "unauthorised"]
    /\ pc' = [pc EXCEPT ![t] = "idle"]
    /\ got' = [got EXCEPT ![t] = EmptyToken]
    /\ UNCHANGED <<token_, chal>>

\* The retry reads token_ again into the Authorization header and calls
\* Curl once more; an error now leaves the catch block and propagates.
Retry(t) ==
    /\ pc[t] = "retry"
    /\ \E o \in CASE token_.torn         -> {"tornToken"}
                  [] Accepted(token_)   -> VaultAnswers
                  [] OTHER              -> {"unauthorised"} :
          outcome' = [outcome EXCEPT ![t] = o]
    /\ pc' = [pc EXCEPT ![t] = "idle"]
    /\ got' = [got EXCEPT ![t] = EmptyToken]
    /\ UNCHANGED <<token_, chal>>

\* The token's lifetime ends.  Tokens live for about an hour and a request
\* passes from storing its token to the retry in far less, so expiry is not
\* taken while a thread is storing or retrying.
Expire ==
    /\ ~token_.torn
    /\ token_.live
    /\ \A t \in Threads : pc[t] \notin {"store", "publish", "retry"}
    /\ token_' = [token_ EXCEPT !.live = FALSE]
    /\ UNCHANGED <<pc, chal, got, outcome>>

Next ==
    \/ Expire
    \/ \E t \in Threads :
          Send(t) \/ FetchToken(t) \/ Store(t) \/ Publish(t) \/ Retry(t)

Spec == Init /\ [][Next]_vars

----------------------------------------------------------------------------
(* Properties                                                             *)

\* A request fails only because the vault or the authority reported an
\* error, or because its retry read token_ while another thread was
\* assigning it: never because the retry was refused after a token was
\* fetched and stored (curl_helper.cc:262-265), and never because the
\* vault's challenge was parsed into a wrong authority or resource.
NoSpuriousFailure ==
    \A t \in Threads :
        outcome[t] \notin {"unauthorised", "badChallenge", "badAuthority", "badResource"}

=============================================================================

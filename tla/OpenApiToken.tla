---------------------------- MODULE OpenApiToken ----------------------------
(***************************************************************************)
(* The access token of a cloud client (TuyaOpenAPI): requests of several   *)
(* executor threads find it expired or refused, one of them logs in again  *)
(* while the others wait on a flag that is read and set without a lock.    *)
(*                                                                         *)
(* A token is a number, 0 for none.  A client that was connected without   *)
(* the country code (a custom project, or the project without user) keeps  *)
(* no credentials to reconnect with.                                       *)
(***************************************************************************)
EXTENDS Naturals, FiniteSets

CONSTANTS
    Threads,        \* executor threads
    MaxTokens,      \* bound: tokens the cloud issues
    MaxRequests,    \* bound: requests
    MaxRevoked      \* bound: tokens that expire or that the cloud revokes

ASSUME TokenAssumption ==
    IsFiniteSet(Threads) /\ MaxTokens \in Nat \ {0} /\ MaxRequests \in Nat /\ MaxRevoked \in Nat

VARIABLES
    credentials,    \* username, password and country code are known
    token,          \* token_info: the token and whether it is_valid()
    flag,           \* token_info.reconnecting
    issued,         \* tokens issued by the cloud
    honoured,       \* the tokens the cloud accepts
    request,        \* request[t]: what thread t is doing
    requests, revoked, \* requests made and tokens lost so far
    refused         \* history: tokens the cloud refused in an answer that was read

tokenVars == <<credentials, token, flag, issued, honoured, request, requests, revoked, refused>>

NoRequest == [pc |-> "idle"]
RGoes(t, pc) == request' = [request EXCEPT ![t].pc = pc]
REnds(t) == request' = [request EXCEPT ![t] = NoRequest]

TokenInit ==
    /\ credentials \in BOOLEAN
    /\ token = [id |-> 1, valid |-> TRUE] /\ issued = 1 /\ honoured = {1}
    /\ flag = FALSE /\ request = [t \in Threads |-> NoRequest]
    /\ requests = 0 /\ revoked = 0 /\ refused = {}

-----------------------------------------------------------------------------
\* The token comes near its expiry, or the cloud stops honouring it.
ExpireToken ==
    /\ revoked < MaxRevoked /\ token.valid
    /\ revoked' = revoked + 1
    /\ token' = [token EXCEPT !.valid = FALSE]
    /\ UNCHANGED <<credentials, flag, issued, honoured, request, requests, refused>>

RevokeToken ==
    /\ revoked < MaxRevoked /\ honoured # {}
    /\ revoked' = revoked + 1
    /\ honoured' = {}
    /\ UNCHANGED <<credentials, token, flag, issued, request, requests, refused>>

\* __request looks at the token: a valid one is used, else reconnect is called.
Ask(t) ==
    /\ request[t] = NoRequest /\ requests < MaxRequests
    /\ requests' = requests + 1
    /\ request' = [request EXCEPT ![t] = [pc |-> IF token.valid THEN "send" ELSE "reconnect",
                                          first |-> TRUE, loop |-> TRUE, with |-> 0]]
    /\ UNCHANGED <<credentials, token, flag, issued, honoured, revoked, refused>>

\* reconnect reads the flag: nobody is connecting, so this thread will ...
Reconnect(t) ==
    /\ request[t].pc = "reconnect"
    /\ RGoes(t, IF flag THEN (IF request[t].loop THEN "wait" ELSE "send")
                        ELSE (IF credentials THEN "flag" ELSE "send"))
    /\ UNCHANGED <<credentials, token, flag, issued, honoured, requests, revoked, refused>>

\* ... and connect sets it.
SetFlag(t) ==
    /\ request[t].pc = "flag"
    /\ flag' = TRUE /\ RGoes(t, "login")
    /\ UNCHANGED <<credentials, token, issued, honoured, requests, revoked, refused>>

\* The login answers with a new token or without; a client may keep older tokens alive.
Login(t) ==
    /\ request[t].pc = "login" /\ issued < MaxTokens
    /\ issued' = issued + 1
    /\ token' = [id |-> issued', valid |-> TRUE]
    /\ \E kept \in SUBSET honoured : honoured' = kept \cup {issued'}
    /\ RGoes(t, "clear")
    /\ UNCHANGED <<credentials, flag, requests, revoked, refused>>

LoginFails(t) ==
    /\ request[t].pc = "login"
    /\ RGoes(t, "clear")
    /\ UNCHANGED <<credentials, token, flag, issued, honoured, requests, revoked, refused>>

\* The login raises: connect clears the flag and the request fails.
LoginRaises(t) ==
    /\ request[t].pc = "login"
    /\ RGoes(t, "raise")
    /\ UNCHANGED <<credentials, token, flag, issued, honoured, requests, revoked, refused>>

\* Mutant: the flag is cleared on a regular return only (as it was once).
ClearFlagOnReturn(t) ==
    /\ request[t].pc \in {"clear", "raise"}
    /\ flag' = (flag /\ request[t].pc = "raise")
    /\ IF request[t].pc = "clear" THEN RGoes(t, "send") ELSE REnds(t)
    /\ UNCHANGED <<credentials, token, issued, honoured, requests, revoked, refused>>

ClearFlag(t) ==
    /\ request[t].pc \in {"clear", "raise"}
    /\ flag' = FALSE
    /\ IF request[t].pc = "clear" THEN RGoes(t, "send") ELSE REnds(t)
    /\ UNCHANGED <<credentials, token, issued, honoured, requests, revoked, refused>>

\* Another thread connects: wait until it is done, then once more without waiting.
WaitEnds(t) ==
    /\ request[t].pc = "wait" /\ ~flag
    /\ IF token.valid THEN RGoes(t, "send")
       ELSE request' = [request EXCEPT ![t].pc = "reconnect", ![t].loop = FALSE]
    /\ UNCHANGED <<credentials, token, flag, issued, honoured, requests, revoked, refused>>

\* RECONNECT_WAIT_TIMEOUT
WaitTimesOut(t) ==
    /\ request[t].pc = "wait" /\ flag
    /\ RGoes(t, "send")
    /\ UNCHANGED <<credentials, token, flag, issued, honoured, requests, revoked, refused>>

\* The request leaves with the token of this moment, or with none.
Send(t) ==
    /\ request[t].pc = "send"
    /\ request' = [request EXCEPT ![t].pc = "answer",
                                  ![t].with = IF token.valid THEN token.id ELSE 0]
    /\ UNCHANGED <<credentials, token, flag, issued, honoured, requests, revoked, refused>>

AnswerOk(t) ==
    /\ request[t].pc = "answer" /\ request[t].with \in honoured
    /\ REnds(t)
    /\ UNCHANGED <<credentials, token, flag, issued, honoured, requests, revoked, refused>>

\* A refused token, TOKEN_INVALID or SIGN_INVALID, is marked whichever token is held now.
ValidAfterRefusal(t) == FALSE

\* The first refusal sends the request once more, without a new login in between.
AnswerRefused(t) ==
    /\ request[t].pc = "answer" /\ request[t].with \notin honoured
    /\ token' = [token EXCEPT !.valid = ValidAfterRefusal(t)]
    /\ refused' = refused \cup {request[t].with}
    /\ IF request[t].first THEN request' = [request EXCEPT ![t].pc = "send", ![t].first = FALSE]
                           ELSE REnds(t)
    /\ UNCHANGED <<credentials, flag, issued, honoured, requests, revoked>>

\* No answer within REQUEST_TIMEOUT, or one that is not JSON.
AnswerLost(t) ==
    /\ request[t].pc = "answer"
    /\ REnds(t)
    /\ UNCHANGED <<credentials, token, flag, issued, honoured, requests, revoked, refused>>

-----------------------------------------------------------------------------
TokenNext ==
    \/ ExpireToken \/ RevokeToken
    \/ \E t \in Threads :
         Ask(t) \/ Reconnect(t) \/ SetFlag(t) \/ Login(t) \/ LoginFails(t) \/ LoginRaises(t)
           \/ ClearFlag(t) \/ WaitEnds(t) \/ WaitTimesOut(t) \/ Send(t)
           \/ AnswerOk(t) \/ AnswerRefused(t) \/ AnswerLost(t)

TokenSpec == TokenInit /\ [][TokenNext]_tokenVars

-----------------------------------------------------------------------------
(* Properties. *)

TokenTypeOK ==
    /\ credentials \in BOOLEAN /\ flag \in BOOLEAN
    /\ token \in [id : 1..MaxTokens, valid : BOOLEAN]
    /\ issued \in 1..MaxTokens /\ honoured \subseteq 1..issued /\ refused \subseteq 0..issued
    /\ request \in [Threads -> {NoRequest} \cup
                      [pc : {"send", "reconnect", "flag", "login", "clear", "raise", "wait",
                             "answer"},
                       first : BOOLEAN, loop : BOOLEAN, with : 0..MaxTokens]]
    /\ requests \in 0..MaxRequests /\ revoked \in 0..MaxRevoked

\* However logins of several threads overlap, fail or raise, the flag is up only
\* while one of them connects (or every later request would wait for its timeout), and
\* a token that an answer refused is not trusted again by the next request.
ReconnectHeals ==
    /\ flag => \E t \in Threads : request[t].pc \in {"login", "clear", "raise"}
    /\ token.valid => token.id \notin refused
=============================================================================

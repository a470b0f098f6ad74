------------------------------ MODULE Sessions ------------------------------
(***************************************************************************)
(* Login sessions of the owner API on a standalone node: one session row   *)
(* in the control store, the requests that authenticate with its token,    *)
(* and Twitch, which is asked whether the user still grants access.  A     *)
(* request works on a copy of the row from its authentication to its end.  *)
(***************************************************************************)
EXTENDS Integers

CONSTANTS Clients,          \* concurrent requests with the session's token
          Recheck,          \* web.recheck_twitch_auth_after
          SessionTtl,       \* web.sessions_expire_after
          MaxSessionClock,  \* bound: ticks in a behaviour
          MaxTokens,        \* bound: Twitch access tokens issued
          NoRow

ASSUME SessionBounds ==
  /\ {Recheck, SessionTtl, MaxSessionClock, MaxTokens} \subseteq Nat
  /\ NoRow \notin [validUntil : Nat, validated : Nat, token : Nat]

VARIABLES
  now,
  row,        \* the stored authorization, or NoRow
  twitch,     \* external: [grantLost, token, valid]
  client,     \* request -> [pc, auth, retry, checked]; which handler
              \*   it is for only matters once it gets there
  loggedOut   \* history: a revoke request has succeeded

sessionVars == <<now, row, twitch, client, loggedOut>>

Never == -1
Fresh(a) == now - a.validated <= Recheck
Live == row # NoRow /\ row.validUntil >= now
Rest(c) == [client EXCEPT ![c].pc = "idle", ![c].auth = NoRow, ![c].retry = FALSE,
                          ![c].checked = Never]
SessionDone(c) == client' = Rest(c) /\ UNCHANGED <<now, row, twitch, loggedOut>>

-----------------------------------------------------------------------------
(* with_authorization *)

\* MUTANT of Authenticate: an expired row is accepted.
AuthenticateExpired(c) ==
  /\ client[c].pc = "idle"
  /\ row # NoRow
  /\ client' = [client EXCEPT ![c] =
       [pc |-> IF Fresh(row) THEN "handler" ELSE "helix",
        auth |-> row, retry |-> TRUE, checked |-> now]]
  /\ UNCHANGED <<now, row, twitch, loggedOut>>

\* The row is read if it has not expired; Twitch is not asked again when the row
\* was validated recently.
Authenticate(c) ==
  /\ client[c].pc = "idle"
  /\ Live
  /\ client' = [client EXCEPT ![c] =
       [pc |-> IF Fresh(row) THEN "handler" ELSE "helix",
        auth |-> row, retry |-> TRUE, checked |-> now]]
  /\ UNCHANGED <<now, row, twitch, loggedOut>>

Valid(token) == twitch.grantLost = Never /\ twitch.valid /\ token = twitch.token

\* The Helix query: success stamps the copy, a first 401 tries a refresh, anything
\* else ends the request with an error.
HelixAnswers(c) ==
  /\ client[c].pc = "helix"
  /\ \/ /\ Valid(client[c].auth.token)
        /\ client' = [client EXCEPT ![c] = [@ EXCEPT !.pc = "save", !.auth.validated = now,
                                                     !.checked = now]]
     \/ /\ ~Valid(client[c].auth.token) /\ client[c].retry
        /\ client' = [client EXCEPT ![c].pc = "refresh", ![c].retry = FALSE]
     \/ client' = Rest(c)
  /\ UNCHANGED <<now, row, twitch, loggedOut>>

\* MUTANT of RefreshToken: a refused refresh lets the request go on.
RefreshTolerated(c) ==
  /\ client[c].pc = "refresh"
  /\ client' = [client EXCEPT ![c].pc = "save", ![c].auth.validated = now,
                              ![c].checked = now]
  /\ UNCHANGED <<now, row, twitch, loggedOut>>

\* refresh_token: Twitch issues a new access token while the grant lasts.
RefreshToken(c) ==
  /\ client[c].pc = "refresh"
  /\ \/ /\ twitch.grantLost = Never /\ twitch.token < MaxTokens
        /\ twitch' = [twitch EXCEPT !.token = @ + 1, !.valid = TRUE]
        /\ client' = [client EXCEPT ![c].pc = "helix", ![c].auth.token = twitch.token + 1]
     \/ client' = Rest(c) /\ UNCHANGED twitch
  /\ UNCHANGED <<now, row, loggedOut>>

\* update_user_authorization is an upsert of the request's whole copy.
SaveValidated(c) ==
  /\ client[c].pc = "save"
  /\ row' = client[c].auth
  /\ client' = [client EXCEPT ![c].pc = "handler"]
  /\ UNCHANGED <<now, twitch, loggedOut>>

-----------------------------------------------------------------------------
(* The handlers *)

UseSession(c) == client[c].pc = "handler" /\ SessionDone(c)

ExtendToken(c) ==
  /\ client[c].pc = "handler"
  /\ row' = [client[c].auth EXCEPT !.validUntil = now + SessionTtl]
  /\ client' = Rest(c)
  /\ UNCHANGED <<now, twitch, loggedOut>>

RevokeToken(c) ==
  /\ client[c].pc = "handler"
  /\ row' = NoRow /\ loggedOut' = TRUE
  /\ client' = Rest(c)
  /\ UNCHANGED <<now, twitch>>

\* A storage error ends the request; in the handlers that is UseSession's effect.
SaveFails(c) == client[c].pc = "save" /\ SessionDone(c)

-----------------------------------------------------------------------------
\* external: the user disconnects the application; an access token runs out.
GrantLost ==
  /\ twitch.grantLost = Never
  /\ twitch' = [twitch EXCEPT !.grantLost = now]
  /\ UNCHANGED <<now, row, client, loggedOut>>
TokenExpires ==
  /\ twitch.valid
  /\ twitch' = [twitch EXCEPT !.valid = FALSE]
  /\ UNCHANGED <<now, row, client, loggedOut>>

SessionTick ==
  /\ now < MaxSessionClock
  /\ now' = now + 1
  /\ UNCHANGED <<row, twitch, client, loggedOut>>

\* The session has just been created by create_token.
SessionInit ==
  /\ now = 0
  /\ row = [validUntil |-> SessionTtl, validated |-> 0, token |-> 0]
  /\ twitch = [grantLost |-> Never, token |-> 0, valid |-> TRUE]
  /\ client = [c \in Clients |-> [pc |-> "idle", auth |-> NoRow, retry |-> FALSE,
                                  checked |-> Never]]
  /\ loggedOut = FALSE

SessionNext ==
  \/ \E c \in Clients :
       \/ Authenticate(c) \/ HelixAnswers(c) \/ RefreshToken(c) \/ SaveValidated(c)
       \/ UseSession(c) \/ ExtendToken(c) \/ RevokeToken(c) \/ SaveFails(c)
  \/ GrantLost \/ TokenExpires \/ SessionTick

SessionSpec == SessionInit /\ [][SessionNext]_sessionVars

-----------------------------------------------------------------------------
Authorizations == [validUntil : 0..(MaxSessionClock + SessionTtl),
                   validated : 0..MaxSessionClock, token : 0..MaxTokens]

\* Every stored row and every copy is an authorization whose Twitch token was
\* issued and whose validation lies in the past.
SessionTypeOK ==
  /\ now \in 0..MaxSessionClock
  /\ row \in Authorizations \cup {NoRow}
  /\ row # NoRow => row.validated <= now /\ row.token <= twitch.token
  /\ \A c \in Clients :
       /\ client[c].pc \in {"idle", "helix", "refresh", "save", "handler"}
       /\ client[c].auth \in Authorizations \cup {NoRow}
       /\ client[c].pc # "idle" => client[c].auth # NoRow /\ client[c].checked <= now

\* A user who disconnects the application on Twitch's side is served at most
\* Recheck longer: no request reaches its handler on a check made later than that,
\* whatever the requests in flight write back over each other.
GrantLossStopsRequests ==
  \A c \in Clients :
    client[c].pc = "handler" /\ twitch.grantLost # Never =>
      client[c].checked <= twitch.grantLost + Recheck

\* An expired or revoked session never comes back once no request authenticated
\* with it is in flight: the only way to keep it is to extend it in time.
DeadSessionStaysDead ==
  [](~Live /\ (\A c \in Clients : client[c].pc = "idle") => []~Live)

\* Logging out revokes the session, also against requests in flight.
LoggedOutStaysOut == loggedOut => row = NoRow
=============================================================================

------------------------------ MODULE Accounts ------------------------------
(***************************************************************************)
(* One account (src/api/auth.go): its registration, its sessions and the   *)
(* limit on its logins, which are counted in fixed windows in the database *)
(* (src/api/auth_limiter.go).                                              *)
(*                                                                         *)
(* A session is a signed token that carries the session version of the     *)
(* account; logging out raises the version.  Handlers of several API       *)
(* instances run concurrently, and each statement of the database is a     *)
(* step of its own.                                                        *)
(***************************************************************************)
EXTENDS Integers, FiniteSets

CONSTANTS
    Registrations, \* requests to /auth/register
    Logins,        \* requests to /auth/login with the right password
    Logouts,       \* requests to /auth/logout
    LoginLimit,    \* authLoginAccountLimit
    LoginWindow,   \* authLoginWindow, in ticks of the clock
    TTL,           \* AUTH_JWT_TTL, in ticks
    MaxTime        \* bounds the clock

\* Requests that issue a token.
Entries == Registrations \union Logins

ASSUME RequestsAssumption ==
    /\ IsFiniteSet(Entries)
    /\ IsFiniteSet(Logouts)
    /\ Registrations \intersect Logins = {}
ASSUME LimitsAssumption ==
    /\ LoginLimit \in Nat /\ LoginWindow \in Nat \ {0}
    /\ TTL \in Nat \ {0} /\ MaxTime \in Nat

NotYet == -1

\* The numbers of the windows the clock can be in.
Windows == 0 .. MaxTime \div LoginWindow

VARIABLES
    now,      \* the clock
    exists,   \* whether the account is in auth_users
    version,  \* its session_version
    bucket,   \* its rows of rate_limit_buckets: the count of each window
    entry,    \* per registration or login: where it is, the version it has
              \* read, when its token was issued, when its attempt was admitted
    logout,   \* per logout: where it is, and the version in its token
    revoked   \* the tokens that had been issued when a logout took effect

vars == <<now, exists, version, bucket, entry, logout, revoked>>

Init ==
    /\ now = 0
    /\ exists = FALSE
    /\ version = 0
    /\ bucket = [k \in Windows |-> 0]
    /\ entry = [e \in Entries |-> [pc |-> "new", version |-> 0, issued |-> NotYet,
                                   admitted |-> NotYet]]
    /\ logout = [o \in Logouts |-> [pc |-> "new", version |-> 0]]
    /\ revoked = {}

Goto(e, pc) == entry' = [entry EXCEPT ![e].pc = pc]

-----------------------------------------------------------------------------
(* The limit on logins.                                                     *)

\* time.Now().UTC().Truncate(window)
WindowStart(t) == t \div LoginWindow

\* Mutant of Admits: one attempt too many.
Admits_offByOne(k) == bucket[k] <= LoginLimit
\* INSERT ... ON CONFLICT DO UPDATE ... WHERE count < limit affects a row.
Admits(k) == bucket[k] < LoginLimit

\* login, up to allow("login-account", ...): one statement counts the attempt.
\* (The limits on addresses, and those of register, are counted alike.)
Allow(e) ==
    /\ e \in Logins
    /\ entry[e].pc = "new"
    /\ LET k == WindowStart(now)
       IN  /\ Admits(k)
           /\ bucket' = [bucket EXCEPT ![k] = @ + 1]
    /\ entry' = [entry EXCEPT ![e].pc = "allowed", ![e].admitted = now]
    /\ UNCHANGED <<now, exists, version, logout, revoked>>

\* quotaResponse, also when the statement fails.
TooManyAttempts(e) ==
    /\ e \in Logins
    /\ entry[e].pc = "new"
    /\ Goto(e, "refused")
    /\ UNCHANGED <<now, exists, version, bucket, logout, revoked>>

-----------------------------------------------------------------------------
(* Registration and login.                                                  *)

\* register inserts the row; its session_version is the default.
Create(e) ==
    /\ e \in Registrations
    /\ entry[e].pc = "new"
    /\ ~exists
    /\ exists' = TRUE
    /\ version' = 0
    /\ entry' = [entry EXCEPT ![e].pc = "read", ![e].version = 0]
    /\ UNCHANGED <<now, bucket, logout, revoked>>

\* The unique index on email, or any other error of register.
CreateFails(e) ==
    /\ e \in Registrations
    /\ entry[e].pc = "new"
    /\ Goto(e, "refused")
    /\ UNCHANGED <<now, exists, version, bucket, logout, revoked>>

\* login reads the row, then compares the password, which takes its time.
ReadUser(e) ==
    /\ e \in Logins
    /\ entry[e].pc = "allowed"
    /\ IF exists
       THEN entry' = [entry EXCEPT ![e].pc = "read", ![e].version = version]
       ELSE Goto(e, "refused")
    /\ UNCHANGED <<now, exists, version, bucket, logout, revoked>>

\* The token carries the version that was read, whatever it is by now.
Authenticate(e) ==
    /\ entry[e].pc = "read"
    /\ entry' = [entry EXCEPT ![e].pc = "session", ![e].issued = now]
    /\ UNCHANGED <<now, exists, version, bucket, logout, revoked>>

-----------------------------------------------------------------------------
(* Sessions.                                                                *)

Issued == {e \in Entries : entry[e].pc = "session"}

\* jwt.ParseWithClaims refuses a token after its ExpiresAt.
Unexpired(e) == now < entry[e].issued + TTL

\* claimsFromRequest, which middleware, currentSession and logout ask.
Valid(e) ==
    /\ e \in Issued
    /\ Unexpired(e)
    /\ entry[e].version = version

\* A logout with no token, or with one that is no longer valid, only clears the
\* cookie.
LogoutUnauthenticated(o) ==
    /\ logout[o].pc = "new"
    /\ logout' = [logout EXCEPT ![o].pc = "done"]
    /\ UNCHANGED <<now, exists, version, bucket, entry, revoked>>

LogoutChecked(o) ==
    /\ logout[o].pc = "new"
    /\ \E e \in Entries :
          /\ Valid(e)
          /\ logout' = [logout EXCEPT ![o] = [pc |-> "checked",
                                              version |-> entry[e].version]]
    /\ UNCHANGED <<now, exists, version, bucket, entry, revoked>>

\* Mutant of Raised: the version in the token is raised.
Raised_fromClaims(o) == logout[o].version + 1
\* session_version + 1, computed by the database.
Raised(o) == version + 1

\* UpdateColumn, after which the cookie is cleared.
LogoutRevokes(o) ==
    /\ logout[o].pc = "checked"
    /\ version' = Raised(o)
    /\ revoked' = revoked \union Issued
    /\ logout' = [logout EXCEPT ![o].pc = "done"]
    /\ UNCHANGED <<now, exists, bucket, entry>>

\* The update fails: the handler says so, and the cookie stays.
LogoutFails(o) ==
    /\ logout[o].pc = "checked"
    /\ logout' = [logout EXCEPT ![o].pc = "failed"]
    /\ UNCHANGED <<now, exists, version, bucket, entry, revoked>>

Tick ==
    /\ now < MaxTime
    /\ now' = now + 1
    /\ UNCHANGED <<exists, version, bucket, entry, logout, revoked>>

-----------------------------------------------------------------------------
EntryNext(e) ==
    \/ Allow(e) \/ TooManyAttempts(e) \/ Create(e) \/ CreateFails(e)
    \/ ReadUser(e) \/ Authenticate(e)

LogoutNext(o) ==
    \/ LogoutUnauthenticated(o) \/ LogoutChecked(o)
    \/ LogoutRevokes(o) \/ LogoutFails(o)

Next ==
    \/ Tick
    \/ \E e \in Entries : EntryNext(e)
    \/ \E o \in Logouts : LogoutNext(o)

Spec == Init /\ [][Next]_vars

-----------------------------------------------------------------------------
(* Correctness.                                                             *)

Entry == [pc : {"new", "allowed", "read", "session", "refused"}, version : Nat,
          issued : {NotYet} \union 0 .. MaxTime, admitted : {NotYet} \union 0 .. MaxTime]

Logout == [pc : {"new", "checked", "done", "failed"}, version : Nat]

\* Every variable keeps its type.
TypeOK ==
    /\ now \in 0 .. MaxTime
    /\ exists \in BOOLEAN
    /\ version \in Nat
    /\ bucket \in [Windows -> 0 .. LoginLimit]
    /\ entry \in [Entries -> Entry]
    /\ logout \in [Logouts -> Logout]
    /\ revoked \subseteq Entries

\* Logging out revokes all sessions of the account for good: no token that had
\* been issued by then is ever accepted again, however logins, registrations
\* and other logouts, which may have checked their tokens long before, follow.
RevokedStaysOut == \A e \in revoked : ~Valid(e)

Admitted(s, t) == {e \in Logins : entry[e].admitted \in s .. t}

\* Fixed windows let at most twice the limit of attempts through in any time
\* as long as a window, and the limit itself in each window.
AttemptsAreLimited ==
    \A t \in 0 .. MaxTime :
        /\ Cardinality(Admitted(t, t + LoginWindow - 1)) <= 2 * LoginLimit
        /\ t % LoginWindow = 0 =>
              Cardinality(Admitted(t, t + LoginWindow - 1)) <= LoginLimit
=============================================================================

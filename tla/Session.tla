-------------------------------- MODULE Session --------------------------------
(***************************************************************************)
(* The session of the front end: what local storage holds, what the app    *)
(* shows, the timer that renews the token, and the requests in flight.     *)
(*                                                                         *)
(* A token is the user it was given to; lapsed says that the expiry stored *)
(* beside it has passed.  A call remembers whose token it carries.  Other  *)
(* tabs of the browser, which share the storage, are left out, and so is   *)
(* the second try of a query: leaving the page cancels it.                 *)
(***************************************************************************)
EXTENDS Naturals, RestCalls

CONSTANTS
    Users,
    Nameless,     \* the user name '', of a token stored without one
    Slots,        \* renewals, and calls, that may be in flight at one time
    Used,         \* the calls the instance makes
    MaxTrouble    \* bound on lapses, failures and 401s

ASSUME SessionAssumption ==
    /\ None \notin Users /\ Nameless \notin Users /\ None # Nameless
    /\ MaxTrouble \in Nat
    /\ Used \subseteq RestCalls

VARIABLES
    token, named, lapsed,   \* pertisk_auth_token, _user, _expiry
    authenticated, authUser,
    timer,                  \* refreshTimerRef is pending
    refreshing,             \* whose token each renewal in flight carries
    entering,               \* who is being logged in
    calls,
    trouble,
    overtaken               \* history: a renewal was in flight at a logout

store       == <<token, named, lapsed>>
screen      == <<authenticated, authUser>>
sessionVars == <<token, named, lapsed, authenticated, authUser, timer,
                 refreshing, entering, calls, trouble, overtaken>>

Quiet == [s \in Slots |-> None]

SessionInit ==
    /\ token = None /\ named = None /\ lapsed = FALSE
    /\ authenticated = FALSE /\ authUser = Nameless
    /\ timer = FALSE
    /\ refreshing = Quiet /\ calls = Quiet
    /\ entering = None
    /\ trouble = 0 /\ overtaken = FALSE

\* Mutant of NameOf: a name that is not stored is passed on.
NameOrNull(u) == u

NameOf(u) == IF u = None THEN Nameless ELSE u

setAuth(u, name) == token' = u /\ named' = name /\ lapsed' = FALSE

clearAuth == token' = None /\ named' = None /\ lapsed' = FALSE

isAuthenticated == token # None /\ ~lapsed

\* handleLogout clears the timer, not a renewal that is in flight.
handleLogout ==
    /\ clearAuth
    /\ authenticated' = FALSE /\ authUser' = Nameless
    /\ timer' = FALSE
    /\ overtaken' = (overtaken \/ \E s \in Slots : refreshing'[s] # None)

Logout ==
    /\ authenticated
    /\ UNCHANGED refreshing
    /\ handleLogout
    /\ UNCHANGED <<entering, calls, trouble>>

-----------------------------------------------------------------------------
(* The login page. *)

Submit(u) ==
    /\ ~authenticated /\ entering = None
    /\ entering' = u
    /\ UNCHANGED <<store, screen, timer, refreshing, calls, trouble, overtaken>>

\* setAuth, then handleLogin.
Enter ==
    /\ entering # None
    /\ setAuth(entering, entering)
    /\ authenticated' = TRUE /\ authUser' = entering
    /\ timer' = TRUE
    /\ entering' = None
    /\ UNCHANGED <<refreshing, calls, trouble, overtaken>>

Refuse ==
    /\ entering # None /\ entering' = None
    /\ UNCHANGED <<store, screen, timer, refreshing, calls, trouble, overtaken>>

-----------------------------------------------------------------------------
(* The renewal: scheduleRefresh's timer, and refreshToken. *)

Fire ==
    /\ timer
    /\ IF token = None
       THEN /\ UNCHANGED refreshing
            /\ handleLogout
       ELSE \E s \in Slots :
               /\ refreshing[s] = None
               /\ refreshing' = [refreshing EXCEPT ![s] = token]
               /\ timer' = FALSE
               /\ UNCHANGED <<store, screen, overtaken>>
    /\ UNCHANGED <<entering, calls, trouble>>

\* Mutant of Renew: the next renewal is not scheduled.
RenewOnce(s) ==
    /\ refreshing[s] # None
    /\ refreshing' = [refreshing EXCEPT ![s] = None]
    /\ setAuth(refreshing[s], NameOf(named))
    /\ UNCHANGED <<screen, timer, entering, calls, trouble, overtaken>>

\* The name is the one stored when the answer comes.
Renew(s) ==
    /\ refreshing[s] # None
    /\ refreshing' = [refreshing EXCEPT ![s] = None]
    /\ setAuth(refreshing[s], NameOf(named))
    /\ timer' = TRUE
    /\ UNCHANGED <<screen, entering, calls, trouble, overtaken>>

RenewalFails(s) ==
    /\ refreshing[s] # None
    /\ trouble < MaxTrouble /\ trouble' = trouble + 1
    /\ refreshing' = [refreshing EXCEPT ![s] = None]
    /\ handleLogout
    /\ UNCHANGED <<entering, calls>>

-----------------------------------------------------------------------------
(* Time, calls and the page itself. *)

Lapse ==
    /\ token # None /\ ~lapsed
    /\ trouble < MaxTrouble /\ trouble' = trouble + 1
    /\ lapsed' = TRUE
    /\ UNCHANGED <<token, named, screen, timer, refreshing, entering, calls, overtaken>>

\* getAuthToken: a lapsed token is removed, and the call carries none.
getAuthToken ==
    IF token # None /\ lapsed THEN clearAuth ELSE UNCHANGED store

Carried == IF lapsed THEN None ELSE token

Issue(s, c) ==
    /\ authenticated
    /\ calls[s] = None
    /\ calls' = [calls EXCEPT ![s] = [call |-> c, owner |-> Carried]]
    /\ getAuthToken
    /\ UNCHANGED <<screen, timer, refreshing, entering, trouble, overtaken>>

\* An answer; a call without a token is always answered with 401.
Reply(s, a) ==
    /\ calls[s] # None
    /\ a = "ok" => calls[s].owner # None
    /\ IF a # "ok" /\ calls[s].owner # None
       THEN trouble < MaxTrouble /\ trouble' = trouble + 1
       ELSE UNCHANGED trouble
    /\ calls' = [calls EXCEPT ![s] = None]
    /\ UNCHANGED refreshing
    /\ IF Expires(calls[s].call, a)
       THEN handleLogout
       ELSE UNCHANGED <<store, screen, timer, overtaken>>
    /\ UNCHANGED entering

\* The page is loaded again: what was in flight is lost.
Reload ==
    /\ authenticated' = isAuthenticated
    /\ authUser' = NameOf(named)
    /\ timer' = isAuthenticated
    /\ refreshing' = Quiet /\ calls' = Quiet /\ entering' = None
    /\ UNCHANGED <<store, trouble, overtaken>>

SessionNext ==
    \/ \E u \in Users : Submit(u)
    \/ Enter \/ Refuse \/ Logout \/ Fire \/ Lapse \/ Reload
    \/ \E s \in Slots : Renew(s) \/ RenewalFails(s)
    \/ \E s \in Slots, c \in Used : Issue(s, c)
    \/ \E s \in Slots, a \in Answers : Reply(s, a)

SessionSpec == SessionInit /\ [][SessionNext]_sessionVars

-----------------------------------------------------------------------------
Call == [call : Used, owner : Users \cup {None}]

SessionType ==
    /\ token \in Users \cup {None}
    /\ named \in Users \cup {None, Nameless}
    /\ authUser \in Users \cup {Nameless}
    /\ {lapsed, authenticated, timer, overtaken} \subseteq BOOLEAN
    /\ refreshing \in [Slots -> Users \cup {None}]
    /\ entering \in Users \cup {None}
    /\ calls \in [Slots -> Call \cup {None}]
    /\ trouble \in 0 .. MaxTrouble

\* What is stored is the session that is shown.  A session that is shown is
\* always about to be renewed; and unless a logout overtook a renewal, whose
\* answer would store its token again, the token is the shown user's (or of a
\* session whose name was lost), and a user who is out leaves none that is valid.
StoredIsShown ==
    /\ authenticated => timer \/ \E s \in Slots : refreshing[s] # None
    /\ ~overtaken =>
          /\ authenticated => token \in {None, authUser} \/ authUser = Nameless
          /\ ~authenticated => ~isAuthenticated

=============================================================================

------------------------------ MODULE FrontEndProofs ------------------------------
(***************************************************************************)
(* Proofs about FrontEnd, for any users, calls, objects, backups, replicas *)
(* and bounds: what is stored is the session that is shown; the row of a   *)
(* workload does not turn over; the end of a backup is told once; a panel  *)
(* shows the object clicked, and a dialog closes when its objects are gone;*)
(* the tabs of the bottom panel keep their promises; and the types.        *)
(***************************************************************************)
EXTENDS FrontEnd, SequenceTheorems, TLAPS

-----------------------------------------------------------------------------
(* The session. *)

SessionFlags == {authenticated, timer, overtaken} \subseteq BOOLEAN

SessionNames ==
    /\ token \in Users \cup {None} /\ entering \in Users \cup {None}
    /\ named \in Users \cup {None, Nameless}
    /\ authUser \in Users \cup {Nameless}
    /\ refreshing \in [Slots -> Users \cup {None}]

\* Unless a logout overtook one, renewals are pending or in flight only while a
\* session is shown, and carry the token that is stored, or that was.
Renewals ==
    /\ entering # None => ~authenticated
    /\ authenticated => timer \/ \E s \in Slots : refreshing[s] # None
    /\ ~overtaken /\ timer => authenticated
    /\ ~overtaken => \A s \in Slots : refreshing[s] # None =>
          /\ authenticated
          /\ authUser \in {refreshing[s], Nameless}
          /\ token \in {refreshing[s], None}
          /\ \A t \in Slots : refreshing[t] \in {refreshing[s], None}

\* The names stored and shown are the token's, or were lost.
Holders ==
    ~overtaken =>
        /\ named \in {None, Nameless, token}
        /\ token # None /\ authenticated => authUser \in {token, Nameless}
        /\ ~authenticated => ~isAuthenticated

SInv == SessionFlags /\ SessionNames /\ Renewals /\ Holders

LEMMA StoredFollows == SInv => StoredIsShown
  BY DEF SInv, SessionFlags, SessionNames, Renewals, Holders, StoredIsShown

USE SessionAssumption DEF SInv, SessionFlags, SessionNames

LEMMA LogoutSInv ==
    ASSUME SInv, handleLogout,
           refreshing' \in [Slots -> Users \cup {None}],
           entering' = entering
    PROVE  SInv'
  <1>1. /\ token' = None /\ named' = None /\ timer' = FALSE
        /\ authenticated' = FALSE /\ authUser' = Nameless
        /\ overtaken' = (overtaken \/ \E s \in Slots : refreshing'[s] # None)
    BY DEF handleLogout, clearAuth
  <1>2. (SessionFlags /\ SessionNames)'
    BY <1>1
  <1>3. Renewals'
    BY <1>1 DEF Renewals
  <1>4. Holders'
    BY <1>1 DEF Holders, isAuthenticated
  <1>5. QED
    BY <1>2, <1>3, <1>4

LEMMA EnterSInv == ASSUME SInv, Enter PROVE SInv'
  <1>1. /\ token' = entering /\ named' = entering /\ lapsed' = FALSE
        /\ authenticated' = TRUE /\ authUser' = entering /\ timer' = TRUE
        /\ entering' = None /\ UNCHANGED <<refreshing, overtaken>>
        /\ entering \in Users /\ ~authenticated
    BY DEF Enter, setAuth, Renewals
  <1>2. (SessionFlags /\ SessionNames)'
    BY <1>1
  <1>3. Renewals' /\ Holders'
    BY <1>1 DEF Renewals, Holders
  <1>4. QED
    BY <1>2, <1>3

LEMMA FireSInv == ASSUME SInv, Fire PROVE SInv'
  <1>1. CASE token = None
    BY <1>1, LogoutSInv DEF Fire
  <1>2. CASE token # None
    <2>1. PICK s \in Slots :
             /\ refreshing[s] = None /\ timer /\ timer' = FALSE
             /\ refreshing' = [refreshing EXCEPT ![s] = token]
             /\ UNCHANGED <<store, screen, overtaken, entering>>
      BY <1>2 DEF Fire
    <2>2. token \in Users /\ (~overtaken => authenticated)
      BY <1>2, <2>1 DEF Renewals
    <2>3. (SessionFlags /\ SessionNames)'
      BY <2>1, <2>2 DEF store, screen
    <2>4. \A t \in Slots : refreshing'[t] = IF t = s THEN token ELSE refreshing[t]
      BY <2>1
    <2>5. Renewals'
      BY <2>1, <2>2, <2>4 DEF store, screen, Renewals, Holders
    <2>6. Holders'
      BY <2>1 DEF store, screen, Holders, isAuthenticated
    <2>7. QED
      BY <2>3, <2>5, <2>6
  <1>3. QED
    BY <1>1, <1>2

LEMMA RenewSInv == ASSUME SInv, NEW s \in Slots, Renew(s) PROVE SInv'
  <1>1. /\ refreshing[s] \in Users
        /\ refreshing' = [refreshing EXCEPT ![s] = None]
        /\ token' = refreshing[s] /\ named' = NameOf(named) /\ lapsed' = FALSE
        /\ timer' = TRUE /\ UNCHANGED <<screen, entering, overtaken>>
    BY DEF Renew, setAuth
  <1>2. (SessionFlags /\ SessionNames)'
    BY <1>1 DEF screen, NameOf
  <1>3. \A t \in Slots : refreshing'[t] = IF t = s THEN None ELSE refreshing[t]
    BY <1>1
  <1>4. Renewals'
    BY <1>1, <1>3 DEF screen, Renewals
  <1>5. Holders'
    BY <1>1 DEF screen, Renewals, Holders, NameOf
  <1>6. QED
    BY <1>2, <1>4, <1>5

LEMMA RenewalFailsSInv == ASSUME SInv, NEW s \in Slots, RenewalFails(s) PROVE SInv'
  BY LogoutSInv DEF RenewalFails

\* Calls: what they do to the storage is to remove a token that has lapsed.
LEMMA IssueSInv ==
    ASSUME SInv, NEW s \in Slots, NEW c \in Used, Issue(s, c) PROVE SInv'
  <1>1. /\ UNCHANGED <<screen, timer, refreshing, entering, overtaken>>
        /\ authenticated
        /\ UNCHANGED store \/ (token' = None /\ named' = None /\ lapsed' = FALSE)
    BY DEF Issue, getAuthToken, clearAuth
  <1>2. (SessionFlags /\ SessionNames)'
    BY <1>1 DEF store, screen
  <1>3. Renewals'
    BY <1>1 DEF store, screen, Renewals
  <1>4. Holders'
    BY <1>1 DEF store, screen, Holders
  <1>5. QED
    BY <1>2, <1>3, <1>4

LEMMA ReplySInv ==
    ASSUME SInv, NEW s \in Slots, NEW a \in Answers, Reply(s, a) PROVE SInv'
  <1>1. CASE Expires(calls[s].call, a)
    BY <1>1, LogoutSInv DEF Reply
  <1>2. CASE ~Expires(calls[s].call, a)
    BY <1>2 DEF Reply, store, screen, Renewals, Holders, isAuthenticated
  <1>3. QED
    BY <1>1, <1>2

LEMMA ReloadSInv == ASSUME SInv, Reload PROVE SInv'
  <1>1. /\ authenticated' = isAuthenticated /\ timer' = isAuthenticated
        /\ authUser' = NameOf(named) /\ entering' = None
        /\ refreshing' = [s \in Slots |-> None]
        /\ UNCHANGED <<store, overtaken>>
    BY DEF Reload, Quiet
  <1>2. isAuthenticated \in BOOLEAN
    BY DEF isAuthenticated
  <1>3. (SessionFlags /\ SessionNames)'
    BY <1>1, <1>2 DEF store, NameOf
  <1>4. Renewals'
    BY <1>1, <1>2 DEF Renewals
  <1>5. Holders'
    BY <1>1 DEF store, Holders, NameOf, isAuthenticated
  <1>6. QED
    BY <1>3, <1>4, <1>5

\* The steps that change neither the storage nor what is shown nor a renewal.
LEMMA StillSInv ==
    ASSUME SInv, UNCHANGED <<store, screen, timer, refreshing, overtaken>>,
           \/ entering' = entering
           \/ entering' = None
           \/ entering' \in Users /\ ~authenticated
    PROVE  SInv'
  <1>1. (SessionFlags /\ SessionNames)'
    BY DEF store, screen
  <1>2. Renewals'
    BY DEF store, screen, Renewals
  <1>3. Holders'
    BY DEF store, screen, Holders, isAuthenticated
  <1>4. QED
    BY <1>1, <1>2, <1>3

LEMMA LapseSInv == ASSUME SInv, Lapse PROVE SInv'
  <1>1. UNCHANGED <<token, named, screen, timer, refreshing, entering, overtaken>>
    BY DEF Lapse
  <1>2. (SessionFlags /\ SessionNames)' /\ Renewals'
    BY <1>1 DEF screen, Renewals
  <1>3. Holders'
    BY <1>1 DEF Lapse, screen, Holders, isAuthenticated
  <1>4. QED
    BY <1>2, <1>3

LEMMA SubmitSInv == ASSUME SInv, NEW u \in Users, Submit(u) PROVE SInv'
  BY StillSInv DEF Submit

LEMMA SignOutSInv == ASSUME SInv, Logout PROVE SInv'
  BY LogoutSInv DEF Logout

LEMMA SessionNextSInv == ASSUME SInv, SessionNext PROVE SInv'
  <1>1. CASE Refuse
    BY <1>1, StillSInv DEF Refuse
  <1>2. QED
    BY <1>1, SubmitSInv, EnterSInv, SignOutSInv, FireSInv, LapseSInv, ReloadSInv,
       RenewSInv, RenewalFailsSInv, IssueSInv, ReplySInv DEF SessionNext

LEMMA FrontInitSInv == FrontInit => SInv
  <1> SUFFICES ASSUME FrontInit PROVE SInv
    OBVIOUS
  <1> USE UserAssumption DEF Renewals, Holders, isAuthenticated, Quiet
  <1>1. CASE SessionInit
    BY <1>1 DEF SessionInit
  <1>2. CASE SignedIn
    BY <1>2 DEF SignedIn
  <1>3. QED
    BY <1>1, <1>2 DEF FrontInit

LEMMA FrontNextSInv == SInv /\ [FrontNext]_frontVars => SInv'
  <1> SUFFICES ASSUME SInv, [FrontNext]_frontVars PROVE SInv'
    OBVIOUS
  <1>1. CASE UNCHANGED sessionVars
    BY <1>1, StillSInv DEF sessionVars, store, screen
  <1>2. CASE SessionNext
    BY <1>2, SessionNextSInv
  <1>3. CASE Expired
    BY <1>3, LogoutSInv DEF Expired
  <1>4. CASE SignOut
    BY <1>4, SignOutSInv DEF SignOut
  <1>5. CASE SignIn
    BY <1>5, SubmitSInv, EnterSInv, UserAssumption DEF SignIn
  <1>6. QED
    BY <1>1, <1>2, <1>3, <1>4, <1>5
    DEF FrontNext, frontVars, AtLogin, InPanel, OnPage, AtBackups, InRow,
        InPicker, PageOpensTab

\* What is stored is the session that is shown, whatever renewals, calls,
\* logins, logouts and reloads of any number of users come in between, up to the
\* first logout that overtakes a renewal; and a session shown is being renewed.
THEOREM StoredSessionIsShown == FrontSpec => []StoredIsShown
  BY FrontInitSInv, FrontNextSInv, StoredFollows, PTL DEF FrontSpec

-----------------------------------------------------------------------------
(* The status badges: what REST and the socket say of one object. *)

SaySame == getStatusColor(FromRest(kind, object)) = getStatusColor(FromSocket(kind, object))

LEMMA CountsAreNumbers ==
    ASSUME RowsType, kind \in Counted
    PROVE  \A f \in Fields(kind) : object[f] \in Nat
  BY RowsAssumption DEF RowsType, WorkloadObjects, CountedObjects,
                           Counted, Phased

LEMMA SameTwiceIsTheSame ==
    ASSUME RowsType, kind \in SameTwice
    PROVE  FromRest(kind, object) = FromSocket(kind, object)
  <1>1. CASE kind = "deployments"
    BY <1>1 DEF FromRest, FromSocket, Phased, list_deployments, transformDeployment
  <1>2. CASE kind = "nodes"
    BY <1>2 DEF FromRest, FromSocket, Phased, list_nodes, transformNode
  <1>3. CASE kind = "services"
    <2>1. (\E e \in object.externals : e # "blank") <=> object.externals \ {"blank"} # {}
      OBVIOUS
    <2>2. QED
      BY <1>3, <2>1 DEF FromRest, FromSocket, Phased, list_services, transformService
  <1>4. CASE kind \in Phased
    BY <1>4 DEF FromRest, FromSocket, Phased, ListedPhase, transformNamespace,
                transformPersistentVolume, transformPersistentVolumeClaim
  <1>5. QED
    BY <1>1, <1>2, <1>3, <1>4 DEF SameTwice

LEMMA StatefulSetsSaySame ==
    ASSUME RowsType, kind = "statefulsets"
    PROVE  SaySame
  <1>1. \A f \in {"desired", "ready", "current", "updated"} : object[f] \in Nat
    BY CountsAreNumbers DEF Counted, Fields
  <1>2. QED
    BY <1>1 DEF SaySame, FromRest, FromSocket, Phased, list_statefulsets,
                transformStatefulSet, Ladder, getStatusColor

\* Ready but not available: Running over REST, something yellow on the socket.
LEMMA DaemonSetsSaySame ==
    ASSUME RowsType, kind = "daemonsets"
    PROVE  SaySame <=> ~Disputed
  <1>1. \A f \in {"desired", "ready", "available", "current"} : object[f] \in Nat
    BY CountsAreNumbers DEF Counted, Fields
  <1>2. Disputed <=> object.ready >= object.desired /\ object.available < object.desired
    BY DEF Disputed
  <1>3. QED
    BY <1>1, <1>2 DEF SaySame, FromRest, FromSocket, Phased, list_daemonsets,
                      transformDaemonSet, Ladder, getStatusColor

LEMMA ReplicaSetsSaySame ==
    ASSUME RowsType, kind = "replicasets"
    PROVE  SaySame <=> ~Disputed
  <1>1. \A f \in {"desired", "ready", "available", "current"} : object[f] \in Nat
    BY CountsAreNumbers DEF Counted, Fields
  <1>2. Disputed <=> object.ready >= object.desired /\ object.available < object.desired
    BY DEF Disputed
  <1>3. QED
    BY <1>1, <1>2 DEF SaySame, FromRest, FromSocket, Phased, list_replicasets,
                      transformReplicaSet, Ladder, getStatusColor

\* A job that succeeded is Complete on the socket, and never is over REST.
LEMMA JobsSaySame ==
    ASSUME RowsType, kind = "jobs"
    PROVE  SaySame <=> ~Disputed
  <1>1. \A f \in {"completions", "succeeded", "failed", "active"} : object[f] \in Nat
    BY CountsAreNumbers DEF Counted, Fields
  <1>2. Disputed <=> object.succeeded >= object.completions
    BY DEF Disputed
  <1>3. QED
    BY <1>1, <1>2 DEF SaySame, FromRest, FromSocket, Phased, list_jobs, transformJob,
                      getStatusColor

LEMMA PodsSaySame ==
    ASSUME RowsType, kind = "pods"
    PROVE  SaySame <=> ~Disputed
  <1>1. object \in PodObjects
    BY DEF RowsType, WorkloadObjects, Phased
  <1>2. Disputed <=>
           /\ ~object.deleted
           /\ \/ object.phase = "Running" /\ ~object.ready
                    /\ object.state # "waiting" /\ object.reason # "Error"
              \/ ~object.scheduled
    BY DEF Disputed
  <1>3. CASE object.deleted
    BY <1>2, <1>3 DEF SaySame, FromRest, FromSocket, Phased, list_pods, transformPod
  <1>4. CASE ~object.deleted /\ object.phase = "Pending"
    BY <1>1, <1>2, <1>4 DEF SaySame, FromRest, FromSocket, Phased, list_pods, transformPod,
                            PendingPod, getStatusColor, PodObjects
  <1>5. CASE ~object.deleted /\ object.phase = "Running"
    BY <1>1, <1>2, <1>5 DEF SaySame, FromRest, FromSocket, Phased, list_pods, transformPod,
                            RunningPod, getStatusColor, PodObjects
  <1>6. CASE ~object.deleted /\ object.phase \in {"Succeeded", "Failed"}
    BY <1>1, <1>2, <1>6 DEF SaySame, FromRest, FromSocket, Phased, list_pods, transformPod,
                            getStatusColor, PodObjects
  <1>7. QED
    BY <1>1, <1>3, <1>4, <1>5, <1>6 DEF PodObjects

\* REST and the socket give one colour to what is not disputed, and two to the rest.
LEMMA RowsSaySame == ASSUME RowsType PROVE SaySame <=> ~Disputed
  <1>1. CASE kind \in SameTwice \cup {"statefulsets"}
    <2>1. ~Disputed
      BY <1>1 DEF Disputed, SameTwice, Phased
    <2>2. QED
      BY <1>1, <2>1, SameTwiceIsTheSame, StatefulSetsSaySame DEF SaySame
  <1>2. QED
    BY <1>1, DaemonSetsSaySame, ReplicaSetsSaySame, JobsSaySame, PodsSaySame
    DEF RowsType, RowKinds, SameTwice, Counted

LEMMA RowsInitType == FrontInit => RowsType
  BY DEF FrontInit, RowsInit, RowsType

LEMMA RowsNextType == RowsType /\ [RowsNext]_rowsVars => RowsType'
  <1> SUFFICES ASSUME RowsType, [RowsNext]_rowsVars PROVE RowsType'
    OBVIOUS
  <1>1. ASSUME NEW o \in WorkloadObjects(kind), Became(o) PROVE RowsType'
    BY <1>1 DEF Became, RowsType
  <1>2. CASE ReadOverRest \/ HeardOnSocket
    BY <1>2 DEF ReadOverRest, HeardOnSocket, RowsType
  <1>3. CASE UNCHANGED rowsVars
    BY <1>3 DEF rowsVars, RowsType
  <1>4. QED
    BY <1>1, <1>2, <1>3 DEF RowsNext

\* A row that was, and stays, computed from the object as it is.
LEMMA RowStays ==
    ASSUME RowsType, RowsNext, current, current', ~Disputed
    PROVE  /\ getStatusColor(row') = getStatusColor(row)
           /\ kind \in SameTwice => row' = row
  <1>1. row \in {FromRest(kind, object), FromSocket(kind, object)}
    BY DEF RowsType
  <1>2. row' \in {FromRest(kind, object), FromSocket(kind, object)}
    BY DEF RowsNext, Became, ReadOverRest, HeardOnSocket
  <1>3. QED
    BY <1>1, <1>2, RowsSaySame, SameTwiceIsTheSame DEF SaySame

LEMMA FrontStepOfRows == [FrontNext]_frontVars => [RowsNext]_rowsVars
  BY DEF FrontNext, frontVars, AtLogin, InPanel, OnPage, AtBackups, InRow, InPicker,
         PageOpensTab, SignOut, Expired, SignIn, Unmount

\* A row does not change its colour because REST and the socket take turns at it,
\* for any counters, but for the objects the two do dispute.
THEOREM RowsDoNotTurn == FrontSpec => RowsAgree
  <1>1. RowsType /\ [RowsNext]_rowsVars =>
           [current /\ current' /\ ~Disputed
              => /\ getStatusColor(row') = getStatusColor(row)
                 /\ kind \in SameTwice => row' = row]_rowsVars
    BY RowStays
  <1>2. QED
    BY RowsInitType, RowsNextType, FrontStepOfRows, <1>1, PTL DEF FrontSpec, RowsAgree

\* What RowsAgree excepts is no more than it must: every disputed object does get
\* two colours, from list_deployments and its like and from transformDeployment
\* and its like.
THEOREM DisputesAreReal ==
    FrontSpec => [](Disputed => getStatusColor(FromRest(kind, object))
                                   # getStatusColor(FromSocket(kind, object)))
  <1>1. RowsType => (Disputed => getStatusColor(FromRest(kind, object))
                                    # getStatusColor(FromSocket(kind, object)))
    BY RowsSaySame DEF SaySame
  <1>2. QED
    BY RowsInitType, RowsNextType, FrontStepOfRows, <1>1, PTL DEF FrontSpec

-----------------------------------------------------------------------------
(* The toasts about backups. *)

\* A removal is of backups the user asked to delete.
RemovalAsked == DOMAIN removal = {"keys", "st"} /\ removal.keys \subseteq removed

BackupShapes ==
    /\ stored \in Listing
    /\ overview \in Listing \cup {None}
    /\ query \in [st : {"asked", "read"}, list : Listing] \cup {None}
    /\ ended \in [Backups -> 0 .. 2]
    /\ late \subseteq Backups
    /\ marked \subseteq Backups
    /\ confirming = None \/ confirming \subseteq Backups
    /\ removal = None \/ RemovalAsked
    /\ overview = None => marked = {} /\ confirming = None

\* A phase does not go back.
Follows(p, q) ==
    /\ p # "absent" => q # "absent"
    /\ p \in EndOf => q \in EndOf

\* Of a backup nobody asked to delete, the cache knows no more than an answer
\* on its way, and that no more than the server.
InStep(b) ==
    /\ overview # None => Follows(overview[b], stored[b])
    /\ query # None /\ query.st = "read" =>
          /\ Follows(query.list[b], stored[b])
          /\ overview # None => Follows(overview[b], query.list[b])

\* What was announced, or had ended before, is an end that the cache knows.
Told(b) ==
    /\ ended[b] <= IF b \in late THEN 0 ELSE 1
    /\ ended[b] # 0 \/ b \in late => overview # None /\ overview[b] \in EndOf

BInv ==
    /\ BackupShapes
    /\ previous = overview
    /\ \A b \in Backups \ removed : InStep(b) /\ Told(b)

LEMMA ToldIsAnnounced == BInv => AnnouncedOnce
  BY DEF BInv, Told, AnnouncedOnce

LEMMA BackupsInitInv == FrontInit => BInv
  <1> SUFFICES ASSUME FrontInit PROVE BInv
    OBVIOUS
  <1> USE DEF FrontInit, BackupsInit
  <1>1. BackupShapes
    BY DEF BackupShapes, Listing, Phases, Asked, Nothing
  <1>2. previous = overview
    OBVIOUS
  <1>3. ASSUME NEW b \in Backups PROVE InStep(b) /\ Told(b)
    BY DEF InStep, Told, Asked
  <1>4. QED
    BY <1>1, <1>2, <1>3 DEF BInv

LEMMA ProceedBInv ==
    ASSUME BInv, NEW b \in Backups, NEW phase \in Phases, Proceed(b, phase)
    PROVE  BInv'
  <1>1. /\ stored' = [stored EXCEPT ![b] = phase]
        /\ b \in removed \/ Follows(stored[b], phase)
        /\ UNCHANGED <<overview, query, previous, ended, late, marked, confirming,
                       removal, removed>>
    BY DEF Proceed, pageVars, Follows, EndOf, Phases
  <1>2. BackupShapes'
    BY <1>1 DEF BInv, BackupShapes, Listing, RemovalAsked
  <1>3. ASSUME NEW c \in Backups \ removed PROVE InStep(c)' /\ Told(c)'
    <2>1. Follows(stored[c], stored'[c])
      BY <1>1, <1>3 DEF BInv, BackupShapes, Listing, Follows
    <2>2. QED
      BY <1>1, <1>3, <2>1 DEF BInv, InStep, Told, Follows
  <1>4. QED
    BY <1>1, <1>2, <1>3 DEF BInv

LEMMA OverviewServedBInv == ASSUME BInv, OverviewServed PROVE BInv'
  <1>1. /\ query' = [st |-> "read", list |-> stored]
        /\ UNCHANGED <<stored, overview, previous, ended, late, marked, confirming,
                       removal, removed>>
    BY DEF OverviewServed, pageVars, Read
  <1>2. BackupShapes'
    BY <1>1 DEF BInv, BackupShapes, RemovalAsked
  <1>3. ASSUME NEW c \in Backups \ removed PROVE InStep(c)' /\ Told(c)'
    BY <1>1, <1>3 DEF BInv, InStep, Told, Follows
  <1>4. QED
    BY <1>1, <1>2, <1>3 DEF BInv

\* The server deletes what was asked for, and nothing else.
LEMMA RemovalServedBInv ==
    ASSUME BInv, NEW gone \in SUBSET Backups, RemovalServed(gone)
    PROVE  BInv'
  <1>1. /\ stored' = [b \in Backups |-> IF b \in gone THEN "absent" ELSE stored[b]]
        /\ removal' = [removal EXCEPT !.st = "answered"]
        /\ RemovalAsked /\ gone \subseteq removed
        /\ UNCHANGED <<overview, query, previous, ended, late, marked, confirming,
                       removed>>
    BY DEF RemovalServed, pageVars, BInv, BackupShapes, RemovalAsked
  <1>2. BackupShapes'
    <2>1. stored' \in Listing
      BY <1>1 DEF BInv, BackupShapes, Listing, Phases
    <2>2. RemovalAsked'
      BY <1>1 DEF RemovalAsked
    <2>3. QED
      BY <1>1, <2>1, <2>2 DEF BInv, BackupShapes
  <1>3. ASSUME NEW c \in Backups \ removed PROVE InStep(c)' /\ Told(c)'
    BY <1>1, <1>3 DEF BInv, InStep, Told
  <1>4. QED
    BY <1>1, <1>2, <1>3 DEF BInv

\* A request is made, or comes to nothing.
LEMMA AskedBInv ==
    ASSUME BInv,
           UNCHANGED <<stored, overview, previous, ended, late, marked, confirming, removed>>,
           query' \in {None, Asked},
           (removal = None \/ RemovalAsked)'
    PROVE  BInv'
  <1>1. BackupShapes'
    BY DEF BInv, BackupShapes, Asked, Nothing, Listing, Phases
  <1>2. ~(query' # None /\ query'.st = "read")
    BY DEF Asked
  <1>3. ASSUME NEW c \in Backups \ removed PROVE InStep(c)' /\ Told(c)'
    BY <1>2, <1>3 DEF BInv, InStep, Told
  <1>4. QED
    BY <1>1, <1>3 DEF BInv

LEMMA OverviewArrivesBInv == ASSUME BInv, OverviewArrives PROVE BInv'
  <1>1. /\ query # None /\ query.st = "read" /\ query' = None
        /\ overview' = query.list /\ previous' = query.list
        /\ removal' \in {removal, None}
        /\ UNCHANGED <<stored, marked, confirming, removed>>
    BY DEF OverviewArrives, Toast, Settled, pageVars
  <1>2. query.list \in Listing /\ query.list # None
    BY <1>1, BackupPagesAssumption DEF BInv, BackupShapes
  <1>3. CASE previous = None
    <2>1. /\ late' = {b \in Backups : query.list[b] \in EndOf}
          /\ ended' = ended
      BY <1>3 DEF OverviewArrives, Toast
    <2>2. BackupShapes'
      BY <1>1, <1>2, <2>1 DEF BInv, BackupShapes, RemovalAsked
    <2>3. ASSUME NEW c \in Backups \ removed PROVE InStep(c)' /\ Told(c)'
      BY <1>1, <1>2, <1>3, <2>1, <2>3 DEF BInv, BackupShapes, InStep, Told
    <2>4. QED
      BY <1>1, <2>2, <2>3 DEF BInv
  <1>4. CASE previous # None
    <2>1. /\ late' = late
          /\ ended' = [b \in Backups |->
                IF Announces(b, query.list) /\ ended[b] < 2 THEN ended[b] + 1 ELSE ended[b]]
      BY <1>4 DEF OverviewArrives, Toast
    <2>2. BackupShapes'
      BY <1>1, <1>2, <2>1 DEF BInv, BackupShapes, RemovalAsked
    <2>3. ASSUME NEW c \in Backups \ removed PROVE InStep(c)' /\ Told(c)'
      <3>1. InStep(c) /\ Told(c) /\ previous = overview /\ ended[c] \in 0 .. 2
        BY <2>3 DEF BInv, BackupShapes
      <3>2. InStep(c)'
        BY <1>1, <3>1 DEF InStep
      <3>3. Told(c)'
        <4>1. CASE overview[c] \in EndOf
          BY <1>1, <1>2, <1>4, <2>1, <2>3, <3>1, <4>1
          DEF InStep, Told, Announces, Follows, EndOf
        <4>2. CASE overview[c] \notin EndOf
          BY <1>1, <1>2, <1>4, <2>1, <2>3, <3>1, <4>2 DEF Told, Announces
        <4>3. QED
          BY <4>1, <4>2
      <3>4. QED
        BY <3>2, <3>3
    <2>4. QED
      BY <1>1, <2>2, <2>3 DEF BInv
  <1>5. QED
    BY <1>3, <1>4

\* The rows that are deleted leave the cache; the toaster hears of no end.
LEMMA RemoveBackupsBInv == ASSUME BInv, RemoveBackups PROVE BInv'
  <1>1. /\ confirming \subseteq Backups /\ overview \in Listing /\ previous # None
        /\ previous = overview
    BY BackupPagesAssumption DEF RemoveBackups, BInv, BackupShapes
  <1>2. /\ overview' = [b \in Backups |->
                            IF b \in confirming THEN "absent" ELSE overview[b]]
        /\ previous' = overview' /\ late' = late
        /\ confirming' = None /\ marked' = marked \ confirming
        /\ removed' = removed \cup confirming
        /\ removal' = [keys |-> confirming, st |-> "asked"]
        /\ UNCHANGED <<stored, query>>
        /\ ended' = [b \in Backups |->
              IF Announces(b, overview') /\ ended[b] < 2 THEN ended[b] + 1 ELSE ended[b]]
    BY <1>1 DEF RemoveBackups, Toast
  <1>3. overview' \in Listing /\ overview' # None
    BY <1>1, <1>2, BackupPagesAssumption DEF Listing, Phases
  <1>4. ASSUME NEW b \in Backups PROVE ended'[b] = ended[b]
    BY <1>1, <1>2, <1>4 DEF Announces, EndOf
  <1>5. BackupShapes'
    <2>1. ended' \in [Backups -> 0 .. 2]
      BY <1>2, <1>4 DEF BInv, BackupShapes
    <2>2. RemovalAsked'
      BY <1>1, <1>2 DEF RemovalAsked
    <2>3. QED
      BY <1>1, <1>2, <1>3, <2>1, <2>2 DEF BInv, BackupShapes
  <1>6. ASSUME NEW c \in Backups \ removed' PROVE InStep(c)' /\ Told(c)'
    <2>1. overview'[c] = overview[c] /\ c \notin removed
      BY <1>2, <1>6
    <2>2. QED
      BY <1>1, <1>2, <1>3, <1>4, <1>6, <2>1 DEF BInv, InStep, Told
  <1>7. QED
    BY <1>2, <1>5, <1>6 DEF BInv

\* The page by itself: what is shown, ticked and asked.
LEMMA PageBInv ==
    ASSUME BInv,
           UNCHANGED <<stored, overview, query, previous, ended, late, removal, removed>>,
           marked' \subseteq Backups,
           confirming' = None \/ confirming' \subseteq Backups,
           overview = None => marked' = {} /\ confirming' = None
    PROVE  BInv'
  <1>1. BackupShapes'
    BY DEF BInv, BackupShapes, RemovalAsked
  <1>2. QED
    BY <1>1 DEF BInv, InStep, Told

LEMMA BackupsNextInv == BInv /\ [BackupsNext]_backupVars => BInv'
  <1> SUFFICES ASSUME BInv, [BackupsNext]_backupVars PROVE BInv'
    OBVIOUS
  <1>1. ASSUME NEW b \in Backups, ShowBackup(b) \/ HideBackup PROVE BInv'
    BY <1>1, PageBInv DEF ShowBackup, HideBackup, BInv, BackupShapes
  <1>2. ASSUME NEW b \in Backups, MarkBackup(b) PROVE BInv'
    BY <1>2, PageBInv DEF MarkBackup, Shown, BInv, BackupShapes
  <1>3. ASSUME NEW keys \in SUBSET Backups, AskRemoval(keys) PROVE BInv'
    BY <1>3, PageBInv DEF AskRemoval, Shown, BInv, BackupShapes
  <1>4. CASE KeepBackups \/ HideBackup
    BY <1>4, PageBInv DEF KeepBackups, HideBackup, BInv, BackupShapes
  <1>5. CASE AskOverview \/ OverviewFails
    BY <1>5, AskedBInv
    DEF AskOverview, OverviewFails, Settled, pageVars, BInv, BackupShapes, RemovalAsked
  <1>6. CASE RemovalReturns
    <2>1. RemovalAsked
      BY <1>6 DEF RemovalReturns, BInv, BackupShapes
    <2>2. RemovalAsked'
      BY <1>6, <2>1 DEF RemovalReturns, RemovalAsked
    <2>3. QED
      BY <1>6, <2>2, AskedBInv DEF RemovalReturns, pageVars
  <1>7. CASE UNCHANGED backupVars
    BY <1>7, PageBInv DEF backupVars, BInv, BackupShapes
  <1>8. QED
    BY <1>1, <1>2, <1>3, <1>4, <1>5, <1>6, <1>7, ProceedBInv, OverviewServedBInv,
       RemovalServedBInv, OverviewArrivesBInv, RemoveBackupsBInv DEF BackupsNext

LEMMA FrontStepOfBackups == [FrontNext]_frontVars => [BackupsNext]_backupVars
  BY DEF FrontNext, frontVars, AtLogin, InPanel, OnPage, AtBackups, InRow, InPicker,
         PageOpensTab, SignOut, Expired, SignIn, Unmount

\* The toaster announces the end of a backup once, and none from before the page
\* was loaded, for any number of backups, failures and late answers.
THEOREM EndsAreToldOnce == FrontSpec => []AnnouncedOnce
  BY BackupsInitInv, BackupsNextInv, FrontStepOfBackups, ToldIsAnnounced, PTL
  DEF FrontSpec

-----------------------------------------------------------------------------
(* The list pages: the row shown, the ticks and the dialog. *)

Ways == {"first", "clear", "sync", "frozen"}

Sound(p) ==
    /\ p.drop \notin {"secret-data", "chart-versions"}
    /\ p.follow \in Ways /\ p.stays \in BOOLEAN

LEMMA PageFacts == \A p \in Pages : Sound(p)
  <1> USE DEF Sound, Ways
  <1>0. ASSUME NEW hook, NEW drop, drop \notin {"secret-data", "chart-versions"}
        PROVE  Sound(FirstRow(hook, drop)) /\ Sound(Frozen(hook, drop))
    BY <1>0 DEF FirstRow, Frozen
  <1>1. \A p \in {ConfigMapsPage, CronJobsPage, DaemonSetsPage, DeploymentsPage,
                  HPAPage, JobsPage, LimitRangesPage, PDBPage, ReplicaSetsPage,
                  ResourceQuotasPage, SecretsPage, StatefulSetsPage} : Sound(p)
    <2>1. Sound(DeploymentsPage)
      BY DEF FirstRow, DeploymentsPage
    <2> HIDE DEF Sound
    <2>2. \A p \in {ConfigMapsPage, CronJobsPage, DaemonSetsPage, HPAPage, JobsPage,
                    LimitRangesPage, PDBPage, ReplicaSetsPage, ResourceQuotasPage,
                    SecretsPage, StatefulSetsPage} : Sound(p)
      BY <1>0 DEF ConfigMapsPage, CronJobsPage, DaemonSetsPage, HPAPage, JobsPage,
                  LimitRangesPage, PDBPage, ReplicaSetsPage, ResourceQuotasPage,
                  SecretsPage, StatefulSetsPage
    <2>3. QED
      BY <2>1, <2>2
  <1>2. Sound(MWCPage) /\ Sound(VWCPage)
    BY DEF FirstRow, MWCPage, VWCPage
  <1>3. /\ Sound(LeasesPage) /\ Sound(PriorityClassesPage)
        /\ Sound(RuntimeClassesPage) /\ Sound(NamespacesPage)
        /\ Sound(HelmReleasesPage) /\ Sound(NodesPage)
        /\ Sound(PodsPage) /\ Sound(CustomResourcesPage)
    <2>1. Sound(LeasesPage)
      BY DEF FirstRow, Plain, LeasesPage
    <2>2. Sound(PriorityClassesPage)
      BY DEF FirstRow, Plain, PriorityClassesPage
    <2>3. Sound(RuntimeClassesPage)
      BY DEF FirstRow, Plain, RuntimeClassesPage
    <2>4. Sound(NamespacesPage)
      BY DEF FirstRow, Plain, NamespacesPage
    <2>5. Sound(HelmReleasesPage)
      BY DEF FirstRow, HelmReleasesPage
    <2>6. Sound(NodesPage)
      BY DEF FirstRow, NodesPage
    <2>7. Sound(PodsPage)
      BY DEF FirstRow, PodsPage
    <2>8. Sound(CustomResourcesPage)
      BY DEF FirstRow, CustomResourcesPage
    <2>9. QED
      BY <2>1, <2>2, <2>3, <2>4, <2>5, <2>6, <2>7, <2>8
  <1>4. \A p \in {ClusterRoleBindingsPage, ClusterRolesPage, IngressClassesPage,
                  PersistentVolumesPage, StorageClassesPage, EndpointsPage,
                  IngressesPage, NetworkPoliciesPage, PersistentVolumeClaimsPage,
                  RoleBindingsPage, RolesPage, ServiceAccountsPage, ServicesPage} : Sound(p)
    <2> HIDE DEF Sound
    <2>1. QED
      BY <1>0 DEF ClusterRoleBindingsPage, ClusterRolesPage, IngressClassesPage,
                  PersistentVolumesPage, StorageClassesPage, EndpointsPage,
                  IngressesPage, NetworkPoliciesPage, PersistentVolumeClaimsPage,
                  RoleBindingsPage, RolesPage, ServiceAccountsPage, ServicesPage
  <1>5. QED
    BY <1>1, <1>2, <1>3, <1>4 DEF Pages

\* No call of a page that fails is taken for one that was answered.
LEMMA BehaviourFacts ==
    \A b \in Behaviours : /\ b.follow \in Ways /\ b.stays \in BOOLEAN
                          /\ \A a \in {"refused", "dead"} : b.deletion[a] = "throws"
  <1> SUFFICES ASSUME NEW p \in Pages
               PROVE  /\ Behaviour(p).follow \in Ways /\ Behaviour(p).stays \in BOOLEAN
                      /\ \A a \in {"refused", "dead"} :
                            Behaviour(p).deletion[a] = "throws"
    BY DEF Behaviours
  <1>1. Behaviour(p).follow \in Ways /\ Behaviour(p).stays \in BOOLEAN
    BY PageFacts DEF Sound, Behaviour
  <1>2. ASSUME NEW a \in {"refused", "dead"}
        PROVE  Behaviour(p).deletion[a] = "throws"
    BY PageFacts DEF Sound, Behaviour, Answers, Outcome, SecretData, ChartVersions
  <1>3. QED
    BY <1>1, <1>2

\* The hook lists objects; the panel is open on the row last clicked.
RowShown ==
    /\ page \in Behaviours /\ data \in Seq(Objects)
    /\ picked \in Objects \cup {None}
    /\ page.follow = "first" /\ panelOpen /\ ~vanished => picked = clicked
    /\ page.follow # "first" => picked \in {clicked, None}
    /\ page.prunes => ticked \subseteq Range(data)

\* What a deletion does not wait for any more has been gone since it began.
Answering ==
    batch # None =>
        /\ batch = [keys |-> batch.keys, left |-> batch.left]
        /\ batch.keys # None
        /\ batch.keys \ batch.left \subseteq absent

LEMMA PanelFollows == RowShown => PanelShowsClicked
  BY DEF RowShown, PanelShowsClicked

LEMMA RowsAreObjects == ASSUME data \in Seq(Objects) PROVE Range(data) \subseteq Objects
  BY DEF Range

\* An object is one row: it is found, or nothing is.
LEMMA FindsItself ==
    ASSUME NEW rows \in Seq(Objects), NEW o \in Objects
    PROVE  Find(rows, o) = IF o \in Range(rows) THEN o ELSE None
  <1>1. \A p \in Range(rows) : p \in Objects
    BY DEF Range
  <1>2. \A p \in Objects : SameRow(o, p) <=> p = o
    BY PagesAssumption DEF SameRow, Objects
  <1>3. QED
    BY <1>1, <1>2 DEF Find

LEMMA ListedShown ==
    ASSUME RowShown, NEW rows \in Seq(Objects), Listed(rows) PROVE RowShown'
  <1>1. /\ data' = rows /\ picked' = Follow(rows) /\ UNCHANGED <<page, panelOpen, clicked>>
        /\ ticked' = IF page.prunes THEN ticked \cap Range(rows) ELSE ticked
        /\ vanished' = (vanished \/ clicked \notin Range(rows))
        /\ Objects' = Objects
    BY DEF Listed, Objects
  <1>2. /\ \A o \in Range(rows) : o \in Objects /\ o # None
        /\ rows # <<>> => rows[1] \in Objects
    BY PagesAssumption DEF Range, Objects
  <1>3. /\ picked \in Objects \cup {None}
        /\ picked # None => Find(rows, picked) = IF picked \in Range(rows)
                                                  THEN picked ELSE None
    BY FindsItself DEF RowShown
  <1>4. page.follow \in Ways
    BY BehaviourFacts DEF RowShown
  <1>5. CASE page.follow = "first"
    <2>1. Follow(rows) = IF rows = <<>> THEN None
                         ELSE IF picked \in Range(rows) THEN picked ELSE rows[1]
      BY <1>2, <1>3, <1>5 DEF Follow
    <2>2. rows = <<>> => Range(rows) = {}
      BY DEF Range
    <2>3. QED
      BY <1>1, <1>2, <1>3, <1>5, <2>1, <2>2 DEF RowShown
  <1>6. CASE page.follow # "first"
    <2>1. Follow(rows) \in {picked, None}
      BY <1>3, <1>4, <1>6 DEF Follow, Ways
    <2>2. QED
      BY <1>1, <1>3, <1>6, <2>1 DEF RowShown
  <1>7. QED
    BY <1>5, <1>6

LEMMA HeardShown == ASSUME RowShown, NEW o, Heard(o) PROVE RowShown'
  <1>1. Append(data, o) \in Seq(Objects)
    BY DEF Heard, RowShown
  <1>2. \A i \in DOMAIN data : RemoveAt(data, i) \in Seq(Objects)
    <2>1. SUFFICES ASSUME NEW i \in 1 .. Len(data)
                   PROVE  RemoveAt(data, i) \in Seq(Objects)
      BY DEF RowShown
    <2>2. /\ SubSeq(data, 1, i - 1) \in Seq(Objects)
          /\ SubSeq(data, i + 1, Len(data)) \in Seq(Objects)
      BY SubSeqProperties DEF RowShown
    <2>3. QED
      BY <2>2, ConcatProperties DEF RemoveAt
  <1>3. QED
    BY <1>1, <1>2, ListedShown DEF Heard

LEMMA AnsweredShown ==
    ASSUME RowShown, NEW o, NEW a \in Answers, Answered(o, a) PROVE RowShown'
  <1>1. /\ UNCHANGED <<page, data, clicked, vanished>> /\ Objects' = Objects
        /\ Settle(o, page.deletion[a])
    BY DEF Answered, Objects
  <1>2. /\ ticked' \in {ticked, {}}
        /\ UNCHANGED <<picked, panelOpen>> \/ (picked' = None /\ panelOpen' = FALSE)
    BY <1>1 DEF Settle, GiveUp, Succeed, Wait
  <1>3. QED
    BY <1>1, <1>2 DEF RowShown

LEMMA LeaveShown == ASSUME RowShown, Leave PROVE RowShown'
  BY DEF RowShown, Leave, Objects

LEMMA OwnShown == ASSUME RowShown, PagesOwn PROVE RowShown'
  <1> USE DEF Objects
  <1>1. ASSUME NEW o \in Named \cup Global, Touch(o) PROVE RowShown'
    BY <1>1 DEF Touch, RowShown, opened
  <1>2. ASSUME NEW o \in Named \cup Global, Click(o) PROVE RowShown'
    <2>1. o \in Range(data) /\ Range(data) \subseteq Objects
      BY <1>2, RowsAreObjects DEF Click, Visible, RowShown
    <2>2. QED
      BY <1>2, <2>1 DEF Click, RowShown
  <1>3. ASSUME NEW rows \in SUBSET Objects, Tick(rows) PROVE RowShown'
    <2>1. ticked \subseteq Range(data) => rows \subseteq Range(data)
      BY <1>3 DEF Tick, Visible
    <2>2. QED
      BY <1>3, <2>1 DEF Tick, RowShown, opened
  <1>4. CASE Reset
    <2>1. <<>> \in Seq(Objects)
      OBVIOUS
    <2>2. Listed(<<>>)
      BY <1>4 DEF Reset
    <2>3. QED
      BY <2>1, <2>2, ListedShown
  <1>5. CASE ClosePanel \/ OpenYaml
    BY <1>5 DEF ClosePanel, OpenYaml, RowShown
  <1>6. CASE handleDeleteSingle
    BY <1>6 DEF handleDeleteSingle, RowShown
  <1>7. CASE \/ handleDeleteSelected \/ Cancel \/ handleConfirmDelete
             \/ \E n \in Spaces : toggleNamespace(n)
    BY <1>7 DEF handleDeleteSelected, Cancel, handleConfirmDelete, toggleNamespace,
                RowShown, opened
  <1>8. QED
    BY <1>1, <1>2, <1>3, <1>4, <1>5, <1>6, <1>7, HeardShown, AnsweredShown,
       LeaveShown DEF PagesOwn

LEMMA FrontNextShown == RowShown /\ [FrontNext]_frontVars => RowShown'
  <1> SUFFICES ASSUME RowShown, [FrontNext]_frontVars PROVE RowShown'
    OBVIOUS
  <1>1. CASE UNCHANGED pagesVars
    BY <1>1 DEF pagesVars, RowShown, Objects
  <1>2. CASE PagesOwn
    BY <1>2, OwnShown
  <1>3. CASE PageOpensTab
    <2>1. /\ UNCHANGED <<page, data, picked, ticked, clicked, vanished>>
          /\ panelOpen' => panelOpen
      <3>1. CASE (\E t \in Wired : OpenTab(t)) \/ handleTailLogs
        BY <3>1 DEF OpenTab, handleTailLogs, pagesVars
      <3>2. CASE YamlFetched
        BY <3>2 DEF YamlFetched, opened
      <3>3. QED
        BY <1>3, <3>1, <3>2 DEF PageOpensTab
    <2>2. QED
      BY <2>1 DEF RowShown, Objects
  <1>4. CASE Unmount
    BY <1>4, LeaveShown DEF Unmount
  <1>5. QED
    BY <1>1, <1>2, <1>3, <1>4
    DEF FrontNext, frontVars, AtLogin, InPanel, OnPage, AtBackups, InRow,
        InPicker, SignOut, Expired, SignIn

LEMMA FrontInitShown == FrontInit => RowShown
  BY DEF FrontInit, PagesInit, Mounted, RowShown

\* The panel shows the object that was clicked, on every page, however many
\* objects there are and however the list changes under it.
THEOREM PanelIsOfTheRowClicked == FrontSpec => []PanelShowsClicked
  BY FrontInitShown, FrontNextShown, PanelFollows, PTL DEF FrontSpec

\* A step of a page that touches neither the deletion nor its history.
LEMMA StillAnswering ==
    ASSUME Answering, UNCHANGED <<batch, absent>> PROVE Answering'
  BY DEF Answering

\* An answer settles what it answers: the call that failed is never taken for
\* one that was answered, so that the last one leaves nothing behind.
LEMMA AnsweredAnswering ==
    ASSUME RowShown, Answering, NEW o, NEW a \in Answers, Answered(o, a)
    PROVE  /\ Answering'
           /\ batch' = None /\ dialog = batch.keys /\ dialog' = None =>
                 batch.keys \subseteq absent' \/ page.fails = "close"
  <1>1. /\ batch = [keys |-> batch.keys, left |-> batch.left]
        /\ batch # None /\ batch.keys # None
        /\ batch.keys \ batch.left \subseteq absent
        /\ Settle(o, page.deletion[a])
    BY DEF Answering, Answered
  <1>2. page.deletion[a] = "throws" \/ (a = "ok" /\ absent' = absent \cup {o})
    BY BehaviourFacts DEF Answered, RowShown
  <1>3. CASE page.deletion[a] = "throws"
    BY <1>1, <1>3 DEF Settle, GiveUp, Answering
  <1>4. CASE page.deletion[a] # "throws" /\ batch.left = {o}
    BY <1>1, <1>2, <1>4 DEF Settle, Succeed, Answering
  <1>5. CASE page.deletion[a] # "throws" /\ batch.left # {o}
    <2>1. /\ batch' = [keys |-> batch.keys, left |-> batch.left \ {o}]
          /\ dialog' = dialog
      BY <1>1, <1>5 DEF Settle, Wait
    <2>2. batch'.keys = batch.keys /\ batch'.left = batch.left \ {o}
      BY <2>1
    <2>3. QED
      BY <1>1, <1>2, <1>5, <2>1, <2>2 DEF Answering
  <1>6. QED
    BY <1>3, <1>4, <1>5

LEMMA OwnAnswering ==
    ASSUME Answering, PagesOwn,
           ~\E o \in Named \cup Global, a \in Answers : Answered(o, a)
    PROVE  Answering'
  <1>1. CASE UNCHANGED <<batch, absent>>
    BY <1>1, StillAnswering
  <1>2. ASSUME NEW o \in Named \cup Global, Touch(o) PROVE Answering'
    BY <1>2 DEF Touch, Answering
  <1>3. CASE handleConfirmDelete
    <2>1. /\ batch' = [keys |-> dialog, left |-> dialog] /\ dialog # None
      BY <1>3 DEF handleConfirmDelete
    <2>2. batch'.keys = dialog /\ batch'.left = dialog
      BY <2>1
    <2>3. QED
      BY <2>1, <2>2 DEF Answering
  <1>4. CASE Leave
    BY <1>4 DEF Leave, Answering
  <1>5. QED
    BY <1>1, <1>2, <1>3, <1>4
    DEF PagesOwn, Heard, Listed, Click, Tick, toggleNamespace, Reset, ClosePanel,
        OpenYaml, handleDeleteSingle, handleDeleteSelected, Cancel, deletion, opened

Tells ==
    batch # None /\ batch' = None /\ dialog = batch.keys /\ dialog' = None /\ ~Mounted'
       => batch.keys \subseteq absent' \/ page.fails = "close"

LEMMA FrontNextAnswering ==
    RowShown /\ Answering /\ [FrontNext]_frontVars => Answering' /\ Tells
  <1> SUFFICES ASSUME RowShown, Answering, [FrontNext]_frontVars
               PROVE  Answering' /\ Tells
    OBVIOUS
  <1>1. CASE UNCHANGED <<batch, absent>>
    BY <1>1, StillAnswering DEF Tells
  <1>2. CASE PagesOwn
    <2>1. CASE \E o \in Named \cup Global, a \in Answers : Answered(o, a)
      BY <2>1, AnsweredAnswering DEF Tells
    <2>2. CASE ~\E o \in Named \cup Global, a \in Answers : Answered(o, a)
      <3>1. Answering'
        BY <1>2, <2>2, OwnAnswering
      <3>2. Tells
        <4>1. CASE Leave
          BY <4>1 DEF Leave, Mounted, Tells
        <4>2. CASE ~Leave
          BY <1>2, <2>2, <4>2
          DEF PagesOwn, Heard, Listed, Touch, Click, Tick, toggleNamespace, Reset,
              ClosePanel, OpenYaml, handleDeleteSingle, handleDeleteSelected,
              Cancel, handleConfirmDelete, deletion, opened, Tells
        <4>3. QED
          BY <4>1, <4>2
      <3>3. QED
        BY <3>1, <3>2
    <2>3. QED
      BY <2>1, <2>2
  <1>3. CASE PageOpensTab
    BY <1>3, StillAnswering DEF PageOpensTab, OpenTab, handleTailLogs, pagesVars,
                               YamlFetched, deletion, Tells
  <1>4. CASE Unmount
    BY <1>4 DEF Unmount, Leave, Mounted, Answering, Tells
  <1>5. QED
    BY <1>1, <1>2, <1>3, <1>4
    DEF FrontNext, frontVars, pagesVars, AtLogin, InPanel, OnPage, AtBackups,
        InRow, InPicker, SignOut, Expired, SignIn

LEMMA FrontInitAnswering == FrontInit => Answering
  BY DEF FrontInit, PagesInit, Mounted, Answering

\* A dialog closes by itself only on a deletion of which nothing is left, for
\* any objects ticked, any answers and whatever others create and delete.
THEOREM DialogClosesWhenGone == FrontSpec => DialogTells
  <1>1. /\ FrontInit => RowShown /\ Answering
        /\ RowShown /\ Answering /\ [FrontNext]_frontVars =>
              (RowShown /\ Answering)' /\ [Tells]_pagesVars
    BY FrontInitShown, FrontNextShown, FrontInitAnswering, FrontNextAnswering
  <1>2. QED
    BY <1>1, PTL DEF FrontSpec, DialogTells, Tells

-----------------------------------------------------------------------------
(* The panel of tabs. *)

TabShape == [type : Kinds \cup {None, "closed"}, target : BOOLEAN, text : Texts,
             saved : Texts, dirty : BOOLEAN,
             wire : {"off", "dialing", "open", "closed"}]

PanelShape ==
    /\ tabs \in Seq(Ids) /\ IsInjective(tabs)
    /\ tab \in [Ids -> TabShape]
    /\ collapsed \in BOOLEAN /\ beforeFull \in BOOLEAN \cup {None}
    /\ form \in [Ids -> [version : Versions, fetched : BOOLEAN,
                         values : Versions \cup {"builtin", "edited"}]]
    /\ good \in [Ids -> Texts]

ActiveIsOpen == IF tabs = <<>> THEN activeTabId = None ELSE activeTabId \in Open

\* The tabs with a content are the open ones; what was never opened is new.
Idle ==
    \A i \in Ids : /\ i \in Open <=> tab[i].type \in Kinds
                   /\ tab[i].type = None => good[i] = 0

\* A clean text is the saved one, and the saved one is the server's, unless it
\* was edited while it was being applied; until then, what is applied is shown.
Texted ==
    /\ \A i \in Open \ raced : /\ tab[i].saved = good[i]
                               /\ tab[i].dirty <=> tab[i].text # tab[i].saved
    /\ applying # None =>
          /\ applying \in [tab : Ids, text : Texts]
          /\ tab[applying.tab].type # None
          /\ applying.tab \in Open \ raced => tab[applying.tab].text = applying.text

Wires == \A i \in Ids : tab[i].wire # "off" => i \in Open /\ ~collapsed

Fetched == \A i \in Ids : form[i].fetched => form[i].values \in {"edited", form[i].version}

PInv == PanelShape /\ ActiveIsOpen /\ Idle /\ Texted /\ Wires /\ Fetched

LEMMA PanelKeepsPromises == PInv => TabsSound
  BY DEF PInv, ActiveIsOpen, Texted, Wires, Fetched, TabsSound, PanelShape, Open

\* A tab opened is one more, and no other is lost.
LEMMA AppendRange ==
    ASSUME NEW s \in Seq(Ids), NEW i \in Ids \ Range(s), IsInjective(s)
    PROVE  /\ Append(s, i) \in Seq(Ids) /\ IsInjective(Append(s, i))
           /\ Append(s, i) # <<>>
           /\ Range(Append(s, i)) = Range(s) \cup {i}
  BY DEF Range, IsInjective

\* An element that is removed goes, and no other.
LEMMA RemoveAtRange ==
    ASSUME NEW S, NEW s \in Seq(S), NEW k \in 1 .. Len(s), IsInjective(s)
    PROVE  /\ RemoveAt(s, k) \in Seq(S) /\ IsInjective(RemoveAt(s, k))
           /\ Range(RemoveAt(s, k)) = Range(s) \ {s[k]}
  <1> DEFINE r == RemoveAt(s, k)
  <1>1. /\ r \in Seq(S) /\ Len(r) = Len(s) - 1
        /\ \A j \in 1 .. Len(s) - 1 : r[j] = s[IF j < k THEN j ELSE j + 1]
    <2>1. /\ SubSeq(s, 1, k - 1) \in Seq(S) /\ Len(SubSeq(s, 1, k - 1)) = k - 1
          /\ \A j \in 1 .. k - 1 : SubSeq(s, 1, k - 1)[j] = s[j]
      OBVIOUS
    <2>2. /\ SubSeq(s, k + 1, Len(s)) \in Seq(S)
          /\ Len(SubSeq(s, k + 1, Len(s))) = Len(s) - k
          /\ \A j \in 1 .. Len(s) - k : SubSeq(s, k + 1, Len(s))[j] = s[k + j]
      OBVIOUS
    <2> HIDE DEF r
    <2>3. r = SubSeq(s, 1, k - 1) \o SubSeq(s, k + 1, Len(s))
      BY DEF r, RemoveAt
    <2>4. /\ r \in Seq(S) /\ Len(r) = (k - 1) + (Len(s) - k)
          /\ \A j \in 1 .. (k - 1) + (Len(s) - k) : r[j] =
                IF j <= k - 1 THEN SubSeq(s, 1, k - 1)[j]
                              ELSE SubSeq(s, k + 1, Len(s))[j - (k - 1)]
      <3> DEFINE front == SubSeq(s, 1, k - 1)
                 back  == SubSeq(s, k + 1, Len(s))
      <3>1. /\ front \in Seq(S) /\ Len(front) = k - 1
            /\ back \in Seq(S) /\ Len(back) = Len(s) - k
            /\ r = front \o back
        BY <2>1, <2>2, <2>3
      <3> HIDE DEF front, back
      <3>2. /\ r \in Seq(S) /\ Len(r) = (k - 1) + (Len(s) - k)
            /\ \A j \in 1 .. (k - 1) + (Len(s) - k) : r[j] =
                  IF j <= k - 1 THEN front[j] ELSE back[j - (k - 1)]
        <4>1. /\ front \o back \in Seq(S)
              /\ Len(front \o back) = Len(front) + Len(back)
              /\ \A j \in 1 .. Len(front) + Len(back) : (front \o back)[j] =
                    IF j <= Len(front) THEN front[j] ELSE back[j - Len(front)]
          BY <3>1, ConcatProperties, Zenon
        <4>2. QED
          BY <3>1, <4>1
      <3>3. QED
        BY <3>2 DEF front, back
    <2>5. ASSUME NEW j \in 1 .. Len(s) - 1
          PROVE  r[j] = s[IF j < k THEN j ELSE j + 1]
      <3>1. CASE j < k
        BY <2>1, <2>4, <3>1
      <3>2. CASE j >= k
        <4>1. j - (k - 1) \in 1 .. Len(s) - k /\ k + (j - (k - 1)) = j + 1
          BY <3>2
        <4>2. QED
          BY <2>2, <2>4, <3>2, <4>1
      <3>3. QED
        BY <3>1, <3>2
    <2>6. (k - 1) + (Len(s) - k) = Len(s) - 1
      OBVIOUS
    <2>7. r \in Seq(S) /\ Len(r) = Len(s) - 1
      BY <2>4, <2>6
    <2>8. QED
      BY <2>5, <2>7, Zenon
  <1> HIDE DEF r
  <1>2. IsInjective(r)
    <2>1. DOMAIN r = 1 .. Len(s) - 1
      BY <1>1
    <2>2. SUFFICES ASSUME NEW a \in 1 .. Len(s) - 1, NEW b \in 1 .. Len(s) - 1,
                          r[a] = r[b]
                   PROVE  a = b
      BY <2>1 DEF IsInjective
    <2>3. (IF a < k THEN a ELSE a + 1) = (IF b < k THEN b ELSE b + 1)
      <3> DEFINE p == IF a < k THEN a ELSE a + 1
                 q == IF b < k THEN b ELSE b + 1
      <3>1. p \in DOMAIN s /\ q \in DOMAIN s
        BY <1>1
      <3>2. s[p] = s[q]
        BY <1>1, <2>2
      <3>3. QED
        BY <3>1, <3>2 DEF IsInjective
    <2>4. QED
      BY <1>1, <2>3
  <1>3. \A j \in 1 .. Len(s) : j # k =>
          /\ (IF j < k THEN j ELSE j - 1) \in 1 .. Len(s) - 1
          /\ r[IF j < k THEN j ELSE j - 1] = s[j]
    BY <1>1
  <1>4. Range(r) = Range(s) \ {s[k]}
    <2>1. Range(r) \subseteq Range(s) \ {s[k]}
      <3> SUFFICES ASSUME NEW j \in DOMAIN r PROVE r[j] \in Range(s) \ {s[k]}
        BY DEF Range
      <3>1. /\ (IF j < k THEN j ELSE j + 1) \in DOMAIN s \ {k}
            /\ r[j] = s[IF j < k THEN j ELSE j + 1]
        BY <1>1
      <3>2. QED
        BY <3>1 DEF Range, IsInjective
    <2>2. Range(s) \ {s[k]} \subseteq Range(r)
      <3> SUFFICES ASSUME NEW x \in Range(s) \ {s[k]} PROVE x \in Range(r)
        OBVIOUS
      <3>1. PICK j \in 1 .. Len(s) : s[j] = x
        BY DEF Range
      <3>2. (IF j < k THEN j ELSE j - 1) \in DOMAIN r
        BY <1>1, <1>3, <3>1
      <3>3. QED
        BY <1>1, <1>3, <3>1, <3>2 DEF Range
    <2>3. QED
      BY <2>1, <2>2
  <1>5. QED
    BY <1>1, <1>2, <1>4 DEF r

\* The tab closed goes, and no other.
LEMMA RemoveRange ==
    ASSUME NEW s \in Seq(Ids), NEW i, IsInjective(s)
    PROVE  /\ RemoveFirst(s, i) \in Seq(Ids) /\ IsInjective(RemoveFirst(s, i))
           /\ Range(RemoveFirst(s, i)) = Range(s) \ {i}
  <1>1. CASE i \notin Range(s)
    <2>1. RemoveFirst(s, i) = s
      BY <1>1 DEF RemoveFirst, Range
    <2>2. QED
      BY <1>1, <2>1
  <1>2. CASE i \in Range(s)
    <2>1. PICK k \in 1 .. Len(s) : s[k] = i
      BY <1>2 DEF Range
    <2>2. {j \in 1 .. Len(s) : s[j] = i} = {k}
      BY <2>1 DEF IsInjective
    <2>3. SelectInSeq(s, LAMBDA v : v = i) = k
      BY <2>1, <2>2 DEF SelectInSeq, Min
    <2>4. RemoveFirst(s, i) = RemoveAt(s, k)
      BY <2>1, <2>3 DEF RemoveFirst
    <2>5. QED
      BY <2>1, <2>4, RemoveAtRange
  <1>3. QED
    BY <1>1, <1>2

USE DEF Ids, Texts

LEMMA NewContents ==
    /\ NoTab \in TabShape /\ NoTab.wire = "off" /\ NoTab.type = None
    /\ Closed \in TabShape /\ Closed.wire = "off" /\ Closed.type = "closed"
    /\ NewForm \in [version : Versions, fetched : BOOLEAN,
                     values : Versions \cup {"builtin", "edited"}]
    /\ ~NewForm.fetched
    /\ None \notin Kinds \cup {"closed"} /\ "closed" \notin Kinds /\ Wired \subseteq Kinds
  <1>1. /\ NoTab \in TabShape /\ NoTab.wire = "off" /\ NoTab.type = None
        /\ Closed \in TabShape /\ Closed.wire = "off" /\ Closed.type = "closed"
    <2>1. 0 \in Texts
      BY PanelAssumption
    <2>2. NoTab \in TabShape
      BY <2>1 DEF NoTab, TabShape
    <2>3. Closed \in TabShape /\ Closed.wire = NoTab.wire /\ Closed.type = "closed"
      BY <2>2 DEF Closed, TabShape
    <2>4. QED
      BY <2>2, <2>3 DEF NoTab
  <1>2. First \in Versions
    BY PanelAssumption DEF First
  <1>3. QED
    BY <1>1, <1>2, PanelAssumption, NoneIsNoKind DEF NewForm, Wired, Kinds

\* Texts and types are not the collapsing's business.
Alike(t, u) == /\ t.type = u.type /\ t.text = u.text
               /\ t.saved = u.saved /\ t.dirty = u.dirty

LEMMA ContentAlike ==
    ASSUME NEW t \in TabShape
    PROVE  /\ TabContent(t) \in TabShape /\ Alike(TabContent(t), t)
           /\ TabContent(t).wire # "off" => t.wire # "off" \/ t.type \in Wired
           /\ Unmounted(t) \in TabShape /\ Alike(Unmounted(t), t)
           /\ Unmounted(t).wire = "off"
  BY DEF TabShape, TabContent, Unmounted, Alike

LEMMA CollapsingKeeps ==
    ASSUME PInv, NEW c \in BOOLEAN, NEW ts \in [Ids -> TabShape], Collapsing(c, ts)
    PROVE  /\ collapsed' = c
           /\ tab' \in [Ids -> TabShape]
           /\ \A i \in Ids : Alike(tab'[i], ts[i])
           /\ \A i \in Ids : tab'[i].wire # "off" =>
                 ~c /\ (ts[i].wire # "off" \/ ts[i].type \in Wired)
           /\ form' \in [Ids -> [version : Versions, fetched : BOOLEAN,
                                 values : Versions \cup {"builtin", "edited"}]]
           /\ Fetched'
  <1>1. collapsed' = c
    BY DEF Collapsing
  <1>2. /\ form' \in [Ids -> [version : Versions, fetched : BOOLEAN,
                              values : Versions \cup {"builtin", "edited"}]]
        /\ Fetched'
    BY NewContents DEF Collapsing, PInv, PanelShape, Fetched
  <1>3. CASE c
    BY <1>1, <1>2, <1>3, ContentAlike DEF Collapsing
  <1>4. CASE ~c /\ collapsed
    BY <1>1, <1>2, <1>4, ContentAlike DEF Collapsing
  <1>5. CASE ~c /\ ~collapsed
    BY <1>1, <1>2, <1>5 DEF Collapsing, Alike
  <1>6. QED
    BY <1>3, <1>4, <1>5

LEMMA OpenAreIds == PInv => Open \subseteq Ids /\ (tabs # <<>> => Open # {})
  <1> SUFFICES ASSUME PInv PROVE Open \subseteq Ids /\ (tabs # <<>> => Open # {})
    OBVIOUS
  <1>1. tabs \in Seq(Ids)
    BY DEF PInv, PanelShape
  <1>2. /\ \A k \in DOMAIN tabs : tabs[k] \in Ids
        /\ tabs # <<>> => DOMAIN tabs # {}
    <2>1. DOMAIN tabs = 1 .. Len(tabs) /\ Len(tabs) \in Nat
      BY <1>1
    <2>4. \A k \in 1 .. Len(tabs) : tabs[k] \in Ids
      BY <1>1, ElementOfSeq, Zenon
    <2>2. tabs # <<>> => Len(tabs) > 0
      BY <1>1, EmptySeq
    <2>3. QED
      BY <2>1, <2>2, <2>4
  <1>3. QED
    BY <1>1, <1>2 DEF Open, Range

\* The panel is collapsed or expanded, perhaps with another tab in front.
LEMMA CollapsingPInv ==
    ASSUME PInv, NEW c \in BOOLEAN, Collapsing(c, tab), tabs' = tabs,
           activeTabId' = activeTabId \/ activeTabId' \in Open,
           beforeFull' \in BOOLEAN \cup {None},
           applying' = applying, good' = good, raced' = raced
    PROVE  PInv'
  <1>1. tab \in [Ids -> TabShape]
    BY DEF PInv, PanelShape
  <1>2. /\ collapsed' = c
        /\ tab' \in [Ids -> TabShape]
        /\ \A i \in Ids : Alike(tab'[i], tab[i])
        /\ \A i \in Ids : tab'[i].wire # "off" =>
              ~c /\ (tab[i].wire # "off" \/ tab[i].type \in Wired)
        /\ form' \in [Ids -> [version : Versions, fetched : BOOLEAN,
                              values : Versions \cup {"builtin", "edited"}]]
        /\ Fetched'
    BY <1>1, CollapsingKeeps
  <1>3. Open' = Open /\ Open \subseteq Ids
    BY OpenAreIds DEF Open
  <1>4. PanelShape'
    BY <1>2 DEF PInv, PanelShape
  <1>5. ActiveIsOpen'
    BY <1>3 DEF PInv, ActiveIsOpen, Open, Range
  <1>6. Idle'
    BY <1>2, <1>3 DEF PInv, Idle, Alike
  <1>7. Texted'
    BY <1>2, <1>3 DEF PInv, Texted, Alike
  <1>8. Wires'
    BY <1>2, <1>3, NewContents DEF PInv, Wires, Idle
  <1>9. QED
    BY <1>2, <1>4, <1>5, <1>6, <1>7, <1>8 DEF PInv

\* Nothing that the invariant speaks of changes.
LEMMA StillPInv ==
    ASSUME PInv,
           UNCHANGED <<tabs, tab, activeTabId, collapsed, form, good, raced, applying>>,
           beforeFull' \in BOOLEAN \cup {None}
    PROVE  PInv'
  BY DEF PInv, PanelShape, ActiveIsOpen, Idle, Texted, Wires, Fetched, Open

LEMMA AddTabPInv ==
    ASSUME PInv, NEW k \in Kinds, NEW b \in BOOLEAN, doAddTab(k, b) PROVE PInv'
  <1> DEFINE i == CHOOSE i \in Ids : tab[i] = NoTab
             t == TabContent([NoTab EXCEPT !.type = k, !.target = b])
  <1>1. /\ i \in Ids /\ tab[i] = NoTab
        /\ tabs' = Append(tabs, i) /\ activeTabId' = i
        /\ Collapsing(FALSE, [tab EXCEPT ![i] = t])
        /\ UNCHANGED <<beforeFull, applying, good, raced>>
    BY DEF doAddTab
  <1>2. t \in TabShape /\ t.type = k /\ t.text = 0 /\ t.saved = 0 /\ ~t.dirty
    <2>1. [NoTab EXCEPT !.type = k, !.target = b] \in TabShape
      BY NewContents DEF TabShape
    <2>2. QED
      BY <2>1, ContentAlike, NewContents DEF Alike, NoTab, TabShape
  <1> HIDE DEF i, t
  <1>3. [tab EXCEPT ![i] = t] \in [Ids -> TabShape]
    BY <1>2 DEF PInv, PanelShape
  <1>4. /\ collapsed' = FALSE
        /\ tab' \in [Ids -> TabShape]
        /\ Alike(tab'[i], t) /\ \A j \in Ids \ {i} : Alike(tab'[j], tab[j])
        /\ \A j \in Ids \ {i} : tab'[j].wire # "off" =>
              tab[j].wire # "off" \/ tab[j].type \in Wired
        /\ form' \in [Ids -> [version : Versions, fetched : BOOLEAN,
                              values : Versions \cup {"builtin", "edited"}]]
        /\ Fetched'
    <2>1. tab \in [Ids -> TabShape]
      BY DEF PInv, PanelShape
    <2>2. QED
      BY <1>1, <1>3, <2>1, CollapsingKeeps
  <1>5. i \notin Open
    BY <1>1, NewContents DEF PInv, Idle
  <1>6. /\ tabs' \in Seq(Ids) /\ IsInjective(tabs') /\ tabs' # <<>>
        /\ Open' = Open \cup {i}
    BY <1>1, <1>5, AppendRange DEF Open, PInv, PanelShape
  <1>7. PanelShape'
    BY <1>1, <1>4, <1>6 DEF PInv, PanelShape
  <1>8. ActiveIsOpen'
    BY <1>1, <1>6 DEF ActiveIsOpen
  <1>9. Idle'
    BY <1>1, <1>2, <1>4, <1>6, NewContents DEF PInv, Idle, Alike
  <1>10. Texted'
    <2>1. good[i] = 0
      BY <1>1, NewContents DEF PInv, Idle
    <2>2. applying # None => applying.tab # i
      BY <1>1, NewContents DEF PInv, Texted
    <2>3. QED
      <3>1. \A j \in Open' \ raced' : /\ tab'[j].saved = good'[j]
                                      /\ tab'[j].dirty <=> tab'[j].text # tab'[j].saved
        <4> SUFFICES ASSUME NEW j \in Open' \ raced'
                     PROVE  /\ tab'[j].saved = good'[j]
                            /\ tab'[j].dirty <=> tab'[j].text # tab'[j].saved
          OBVIOUS
        <4>1. CASE j = i
          BY <1>1, <1>2, <1>4, <2>1, <4>1 DEF Alike
        <4>2. CASE j # i
          <5>1. j \in Ids \ {i} /\ j \in Open \ raced
            BY <1>1, <1>6, <4>2, OpenAreIds
          <5>2. QED
            BY <1>1, <1>4, <5>1 DEF PInv, Texted, Alike
        <4>3. QED
          BY <4>1, <4>2
      <3>2. applying' # None =>
              /\ applying' \in [tab : Ids, text : Texts]
              /\ tab'[applying'.tab].type # None
              /\ applying'.tab \in Open' \ raced' =>
                    tab'[applying'.tab].text = applying'.text
        <4> SUFFICES ASSUME applying # None
                     PROVE  /\ applying \in [tab : Ids, text : Texts]
                            /\ tab'[applying.tab].type # None
                            /\ applying.tab \in Open' \ raced =>
                                  tab'[applying.tab].text = applying.text
          BY <1>1
        <4>1. applying \in [tab : Ids, text : Texts] /\ applying.tab \in Ids \ {i}
          BY <2>2 DEF PInv, Texted
        <4>2. Alike(tab'[applying.tab], tab[applying.tab])
          BY <1>4, <4>1
        <4>3. QED
          BY <1>6, <4>1, <4>2 DEF PInv, Texted, Alike
      <3>3. QED
        BY <3>1, <3>2 DEF Texted
  <1>11. Wires'
    BY <1>1, <1>4, <1>6, NewContents DEF PInv, Wires, Idle
  <1>12. QED
    BY <1>4, <1>7, <1>8, <1>9, <1>10, <1>11 DEF PInv

LEMMA CloseTabPInv ==
    ASSUME PInv, NEW i, NEW seen, closeTab(i, seen),
           seen = activeTabId \/ seen = i,
           UNCHANGED <<collapsed, beforeFull, applying, good, raced>>
    PROVE  PInv'
  <1>1. /\ tabs' \in Seq(Ids) /\ IsInjective(tabs')
        /\ Open' = Open \ {i}
    BY RemoveRange DEF closeTab, Open, PInv, PanelShape
  <1>2. /\ tab' = [tab EXCEPT ![i] = Closed] /\ form' = [form EXCEPT ![i] = NewForm]
        /\ tab \in [Ids -> TabShape]
    BY DEF closeTab, PInv, PanelShape
  <1>3. PanelShape'
    BY <1>1, <1>2, NewContents DEF PInv, PanelShape
  <1>4. ActiveIsOpen'
    <2>1. CASE seen = i
      <3>1. tabs' # <<>> => Len(tabs') \in 1 .. Len(tabs')
        BY <1>1, EmptySeq
      <3>2. tabs' # <<>> => tabs'[Len(tabs')] \in Open'
        BY <1>1, <3>1 DEF Open, Range
      <3>3. QED
        BY <2>1, <3>2 DEF closeTab, LastOf, Last, ActiveIsOpen
    <2>2. CASE seen # i
      <3>1. activeTabId' = activeTabId /\ activeTabId # i
        BY <2>2 DEF closeTab
      <3>2. CASE tabs = <<>>
        <4>1. tabs' = <<>>
          BY <3>2 DEF closeTab, RemoveFirst
        <4>2. QED
          BY <3>1, <3>2, <4>1 DEF PInv, ActiveIsOpen
      <3>3. CASE tabs # <<>>
        <4>1. activeTabId \in Open'
          BY <1>1, <3>1, <3>3 DEF PInv, ActiveIsOpen
        <4>2. tabs' # <<>>
          BY <4>1 DEF Open, Range
        <4>3. QED
          BY <3>1, <4>1, <4>2 DEF ActiveIsOpen
      <3>4. QED
        BY <3>2, <3>3
    <2>3. QED
      BY <2>1, <2>2
  <1>5. Idle'
    BY <1>1, <1>2, NewContents DEF PInv, Idle
  <1>6. Texted'
    BY <1>1, <1>2, NewContents DEF PInv, Texted
  <1>7. Wires'
    BY <1>1, <1>2, NewContents DEF PInv, Wires
  <1>8. Fetched'
    BY <1>2, NewContents DEF PInv, Fetched, PanelShape
  <1>9. QED
    BY <1>3, <1>4, <1>5, <1>6, <1>7, <1>8 DEF PInv

\* A tab in place of another with the same text and type.
LEMMA WirePInv ==
    ASSUME PInv, NEW i \in Ids, NEW t \in TabShape, Alike(t, tab[i]),
           tab' = [tab EXCEPT ![i] = t],
           t.wire # "off" => i \in Open /\ ~collapsed,
           UNCHANGED <<tabs, activeTabId, collapsed, beforeFull, form, good, raced,
                       applying>>
    PROVE  PInv'
  <1>1. PanelShape' /\ ActiveIsOpen' /\ Fetched' /\ Open' = Open
    BY DEF PInv, PanelShape, ActiveIsOpen, Fetched, Open
  <1>2. Idle' /\ Wires'
    BY <1>1 DEF PInv, PanelShape, Idle, Wires, Alike
  <1>3. Texted'
    BY <1>1 DEF PInv, PanelShape, Texted, Alike
  <1>4. QED
    BY <1>1, <1>2, <1>3 DEF PInv

\* Only forms change.
LEMMA FormPInv ==
    ASSUME PInv, Fetched',
           form' \in [Ids -> [version : Versions, fetched : BOOLEAN,
                              values : Versions \cup {"builtin", "edited"}]],
           UNCHANGED <<tabs, tab, activeTabId, collapsed, beforeFull, good, raced,
                       applying>>
    PROVE  PInv'
  BY DEF PInv, PanelShape, ActiveIsOpen, Idle, Texted, Wires, Open

LEMMA WiredPInv ==
    ASSUME PInv, NEW i \in Ids, connectTab(i) \/ Wire(i) PROVE PInv'
  <1>1. tab \in [Ids -> TabShape] /\ tab[i] \in TabShape
    BY DEF PInv, PanelShape
  <1>2. CASE connectTab(i)
    <2> DEFINE u == [tab[i] EXCEPT !.target = TRUE]
    <2>1. u \in TabShape /\ Alike(u, tab[i])
      BY <1>1 DEF TabShape, Alike
    <2>2. TabContent(u) \in TabShape /\ Alike(TabContent(u), tab[i])
      BY <2>1, ContentAlike DEF Alike
    <2>3. tab' = [tab EXCEPT ![i] = TabContent(u)]
      BY <1>2 DEF connectTab
    <2> HIDE DEF u
    <2>4. QED
      BY <1>2, <2>2, <2>3, WirePInv DEF connectTab, InFront, PInv, PanelShape
  <1>3. CASE Wire(i)
    <2>1. PICK w \in {"dialing", "open", "closed"} : tab' = [tab EXCEPT ![i].wire = w]
      BY <1>3 DEF Wire
    <2> DEFINE u == [tab[i] EXCEPT !.wire = w]
    <2>2. u \in TabShape /\ Alike(u, tab[i]) /\ tab' = [tab EXCEPT ![i] = u]
      BY <1>1, <2>1 DEF TabShape, Alike
    <2>3. i \in Open /\ ~collapsed
      BY <1>3 DEF Wire, InFront, PInv, Wires
    <2> HIDE DEF u
    <2>4. QED
      BY <1>3, <2>2, <2>3, WirePInv DEF Wire, PInv, PanelShape
  <1>4. QED
    BY <1>2, <1>3

\* Editing: what is typed while the text is applied is not told from it.
LEMMA UpdatePInv ==
    ASSUME PInv, NEW i \in Ids, NEW x \in Texts, updateYaml(i, x) PROVE PInv'
  <1> DEFINE u == [tab[i] EXCEPT !.text = x, !.dirty = x # tab[i].saved]
  <1>1. /\ tab \in [Ids -> TabShape] /\ tab[i] \in TabShape
        /\ tab' = [tab EXCEPT ![i] = u]
        /\ raced' = IF applying # None /\ applying.tab = i THEN raced \cup {i} ELSE raced
        /\ UNCHANGED <<tabs, activeTabId, collapsed, beforeFull, applying, form, good>>
    BY DEF updateYaml, PInv, PanelShape
  <1>2. /\ u \in TabShape /\ u.type = tab[i].type /\ u.wire = tab[i].wire
        /\ u.saved = tab[i].saved /\ u.text = x /\ (u.dirty <=> x # u.saved)
    BY <1>1 DEF TabShape
  <1> HIDE DEF u
  <1>3. PanelShape' /\ ActiveIsOpen' /\ Fetched' /\ Open' = Open
    BY <1>1, <1>2 DEF PInv, PanelShape, ActiveIsOpen, Fetched, Open
  <1>4. Idle' /\ Wires'
    BY <1>1, <1>2, <1>3 DEF PInv, Idle, Wires
  <1>5. Texted'
    BY <1>1, <1>2, <1>3 DEF PInv, Texted
  <1>6. QED
    BY <1>3, <1>4, <1>5 DEF PInv

LEMMA SendPInv == ASSUME PInv, handleYamlPrimaryAction PROVE PInv'
  <1>1. activeTabId \in Open /\ activeTabId \in Ids
    BY OpenAreIds DEF handleYamlPrimaryAction, PInv, ActiveIsOpen
  <1>2. /\ applying' = [tab |-> activeTabId, text |-> tab[activeTabId].text]
        /\ tab[activeTabId].type = "yaml-editor" /\ tab[activeTabId].text \in Texts
        /\ UNCHANGED <<tabs, tab, activeTabId, collapsed, beforeFull, form, good, raced>>
    BY <1>1 DEF handleYamlPrimaryAction, PInv, PanelShape, TabShape
  <1>3. Texted'
    BY <1>1, <1>2, NewContents DEF PInv, Texted, Open, Kinds
  <1>4. QED
    BY <1>2, <1>3 DEF PInv, PanelShape, ActiveIsOpen, Idle, Wires, Fetched, Open

LEMMA AppliedPInv == ASSUME PInv, NEW ok \in BOOLEAN, YamlApplied(ok) PROVE PInv'
  <1> DEFINE i == applying.tab
             x == applying.text
             u == [tab[i] EXCEPT !.saved = x, !.dirty = FALSE]
  <1>1. /\ i \in Ids /\ x \in Texts /\ tab[i].type # None
        /\ i \in Open \ raced => tab[i].text = x
        /\ tab \in [Ids -> TabShape] /\ tab[i] \in TabShape
        /\ UNCHANGED <<tabs, activeTabId, collapsed, beforeFull, form, raced>>
        /\ applying' = None
    BY DEF YamlApplied, PInv, Texted, PanelShape
  <1>2. /\ tab' = IF ok /\ i \in Open THEN [tab EXCEPT ![i] = u] ELSE tab
        /\ good' = IF ok THEN [good EXCEPT ![i] = x] ELSE good
    BY <1>1 DEF YamlApplied, Saved
  <1>3. /\ u \in TabShape /\ u.type = tab[i].type /\ u.wire = tab[i].wire
        /\ u.saved = x /\ u.text = tab[i].text /\ ~u.dirty
    BY <1>1 DEF TabShape
  <1> HIDE DEF i, x, u
  <1>4. PanelShape' /\ ActiveIsOpen' /\ Fetched' /\ Open' = Open
    BY <1>1, <1>2, <1>3 DEF PInv, PanelShape, ActiveIsOpen, Fetched, Open
  <1>5. Idle' /\ Wires'
    BY <1>1, <1>2, <1>3, <1>4 DEF PInv, PanelShape, Idle, Wires
  <1>6. Texted'
    BY <1>1, <1>2, <1>3, <1>4, OpenAreIds DEF PInv, PanelShape, Texted
  <1>7. QED
    BY <1>4, <1>5, <1>6 DEF PInv

LEMMA InstallFormPInv ==
    ASSUME PInv, NEW i \in Ids,
           \/ \E v \in Versions : ChooseVersion(i, v)
           \/ ValuesFetched(i) \/ handleValuesChange(i)
    PROVE  PInv'
  <1> DEFINE FormShape == [version : Versions, fetched : BOOLEAN,
                           values : Versions \cup {"builtin", "edited"}]
  <1>1. PICK u \in FormShape :
          /\ form' = [form EXCEPT ![i] = u]
          /\ u.fetched => u.values \in {"edited", u.version}
    <2>1. form \in [Ids -> FormShape] /\ form[i] \in FormShape
      BY DEF PInv, PanelShape
    <2>2. CASE \E v \in Versions : ChooseVersion(i, v)
      <3>1. PICK v \in Versions : ChooseVersion(i, v)
        BY <2>2
      <3> DEFINE w == [form[i] EXCEPT !.version = v, !.fetched = FALSE]
      <3>2. w \in FormShape /\ ~w.fetched
        BY <2>1
      <3>3. form' = [form EXCEPT ![i] = w]
        BY <2>1, <3>1 DEF ChooseVersion
      <3>4. QED
        BY <3>2, <3>3
    <2>3. CASE ValuesFetched(i)
      <3> DEFINE w == [form[i] EXCEPT !.fetched = TRUE, !.values = form[i].version]
      <3>1. w \in FormShape /\ w.values = w.version
        BY <2>1
      <3>2. form' = [form EXCEPT ![i] = w]
        BY <2>1, <2>3 DEF ValuesFetched
      <3>3. QED
        BY <3>1, <3>2
    <2>4. CASE handleValuesChange(i)
      <3> DEFINE w == [form[i] EXCEPT !.values = "edited"]
      <3>1. w \in FormShape /\ w.values = "edited"
        BY <2>1
      <3>2. form' = [form EXCEPT ![i] = w]
        BY <2>1, <2>4 DEF handleValuesChange
      <3>3. QED
        BY <3>1, <3>2
    <2>5. QED
      BY <2>2, <2>3, <2>4
  <1>2. form' \in [Ids -> FormShape] /\ Fetched'
    BY <1>1 DEF PInv, PanelShape, Fetched
  <1>3. UNCHANGED <<tabs, tab, activeTabId, collapsed, beforeFull, good, raced, applying>>
    BY DEF ChooseVersion, ValuesFetched, handleValuesChange
  <1>4. QED
    BY <1>2, <1>3, FormPInv

NewPanel ==
    /\ tabs = <<>> /\ activeTabId = None /\ tab = [i \in Ids |-> NoTab]
    /\ collapsed = FALSE /\ beforeFull = None /\ applying = None
    /\ form = [i \in Ids |-> NewForm] /\ good = [i \in Ids |-> 0] /\ raced = {}

LEMMA NewPanelPInv == NewPanel => PInv
  <1> SUFFICES ASSUME NewPanel PROVE PInv
    OBVIOUS
  <1> USE DEF NewPanel
  <1>1. Open = {} /\ tabs \in Seq(Ids) /\ IsInjective(tabs)
    BY DEF Open, Range, IsInjective
  <1>2. 0 \in Texts
    BY PanelAssumption
  <1>3. PanelShape
    BY <1>1, <1>2, NewContents DEF PanelShape
  <1>4. Idle /\ Wires /\ Texted /\ Fetched /\ ActiveIsOpen
    BY <1>1, NewContents DEF Idle, Wires, Texted, Fetched, ActiveIsOpen
  <1>5. QED
    BY <1>3, <1>4 DEF PInv

LEMMA InstalledPInv == ASSUME PInv, NEW ok \in BOOLEAN, Installed(ok) PROVE PInv'
  <1>1. CASE ok
    BY <1>1, CloseTabPInv DEF Installed
  <1>2. CASE ~ok
    BY <1>2, StillPInv DEF Installed, PInv, PanelShape
  <1>3. QED
    BY <1>1, <1>2

LEMMA CollapsedPInv ==
    ASSUME PInv, \/ handleAddClick \/ ToggleCollapsed \/ toggleFullScreen
                 \/ \E i \in Ids : Activate(i)
    PROVE  PInv'
  <1>1. collapsed \in BOOLEAN /\ beforeFull \in BOOLEAN \cup {None}
    BY DEF PInv, PanelShape
  <1>2. CASE handleAddClick
    BY <1>1, <1>2, CollapsingPInv DEF handleAddClick
  <1>3. CASE ToggleCollapsed
    BY <1>1, <1>3, CollapsingPInv DEF ToggleCollapsed
  <1>4. CASE toggleFullScreen
    <2>1. CASE ~fullScreen
      BY <1>1, <1>4, <2>1, CollapsingPInv DEF toggleFullScreen
    <2>2. CASE fullScreen
      BY <1>1, <1>4, <2>2, CollapsingPInv DEF toggleFullScreen
    <2>3. QED
      BY <2>1, <2>2
  <1>5. CASE \E i \in Ids : Activate(i)
    BY <1>1, <1>5, CollapsingPInv DEF Activate
  <1>6. QED
    BY <1>2, <1>3, <1>4, <1>5

LEMMA PanelNextPInv == PInv /\ [PanelNext]_panelVars => PInv'
  <1> SUFFICES ASSUME PInv, [PanelNext]_panelVars PROVE PInv'
    OBVIOUS
  <1>1. beforeFull \in BOOLEAN \cup {None}
    BY DEF PInv, PanelShape
  <1>2. CASE UNCHANGED panelVars
    BY <1>1, <1>2, StillPInv DEF panelVars
  <1>3. ASSUME NEW i \in Ids, Close(i) PROVE PInv'
    BY <1>3, CloseTabPInv DEF Close
  <1>4. ASSUME NEW i \in Ids, handleInstall(i) PROVE PInv'
    BY <1>1, <1>4, StillPInv DEF handleInstall
  <1>5. CASE Escape
    BY <1>1, <1>5, StillPInv DEF Escape
  <1>6. QED
    BY <1>2, <1>3, <1>4, <1>5, AddTabPInv, WiredPInv, UpdatePInv, SendPInv, AppliedPInv,
       InstallFormPInv, InstalledPInv, CollapsedPInv
    DEF PanelNext

LEMMA FrontNextPInv == PInv /\ [FrontNext]_frontVars => PInv'
  <1> SUFFICES ASSUME PInv, [FrontNext]_frontVars PROVE PInv'
    OBVIOUS
  <1>1. CASE [PanelNext]_panelVars
    BY <1>1, PanelNextPInv
  <1>2. CASE PanelUnmounts
    <2>1. NewPanel'
      BY <1>2 DEF PanelUnmounts, NewPanel
    <2>2. QED
      BY <2>1, NewPanelPInv, PTL
  <1>3. CASE PageOpensTab
    <2>1. PICK k \in Kinds, b \in BOOLEAN : doAddTab(k, b) \/ UNCHANGED panelVars
      BY <1>3 DEF PageOpensTab, Kinds, Wired
    <2>2. QED
      BY <1>1, <2>1, AddTabPInv
  <1>4. QED
    BY <1>1, <1>2, <1>3
    DEF FrontNext, frontVars, panelVars, AtLogin, InPanel, OnPage, AtBackups, InRow,
        InPicker, SignOut, SignIn, Expired, Unmount

LEMMA FrontInitPInv == FrontInit => PInv
  BY NewPanelPInv DEF FrontInit, PanelInit, NewPanel

\* The tabs of the panel keep their promises, for any number of tabs and texts,
\* whatever is answered after the user went on.
THEOREM TabsKeepTheirPromises == FrontSpec => []TabsSound
  <1>1. FrontSpec => []PInv
    BY FrontInitPInv, FrontNextPInv, PTL DEF FrontSpec
  <1>2. QED
    BY <1>1, PanelKeepsPromises, PTL

-----------------------------------------------------------------------------
(* Types.  The invariants above say most of them; each part adds the rest. *)

CallTypes ==
    /\ lapsed \in BOOLEAN
    /\ calls \in [Slots -> Call \cup {None}]
    /\ trouble \in 0 .. MaxTrouble

\* The bound on troubles leaves room for one more.
LEMMA OneMore ==
    /\ 0 \in 0 .. MaxTrouble
    /\ trouble \in 0 .. MaxTrouble /\ trouble < MaxTrouble =>
          trouble + 1 \in 0 .. MaxTrouble
  BY SessionAssumption

LEMMA SessionNextCalls ==
    ASSUME SInv, CallTypes, SessionNext PROVE CallTypes'
  <1> USE DEF CallTypes, store, screen, setAuth, clearAuth, handleLogout
  <1>1. CASE \/ \E u \in Users : Submit(u)
             \/ Enter \/ Refuse \/ Logout
    BY <1>1 DEF Submit, Enter, Refuse, Logout
  <1>2. CASE Lapse
    BY <1>2, OneMore DEF Lapse
  <1>3. CASE Fire
    BY <1>3 DEF Fire
  <1>4. CASE Reload
    BY <1>4 DEF Reload, Quiet
  <1>5. ASSUME NEW s \in Slots, Renew(s) \/ RenewalFails(s) PROVE CallTypes'
    BY <1>5, OneMore DEF Renew, RenewalFails
  <1>6. ASSUME NEW s \in Slots, NEW c \in Used, Issue(s, c) PROVE CallTypes'
    <2>1. [call |-> c, owner |-> Carried] \in Call
      BY DEF Call, Carried
    <2>2. QED
      BY <1>6, <2>1 DEF Issue, getAuthToken
  <1>7. ASSUME NEW s \in Slots, NEW a \in Answers, Reply(s, a) PROVE CallTypes'
    BY <1>7, OneMore DEF Reply
  <1>8. QED
    BY <1>1, <1>2, <1>3, <1>4, <1>5, <1>6, <1>7 DEF SessionNext

LEMMA FrontNextCalls ==
    SInv /\ CallTypes /\ [FrontNext]_frontVars => CallTypes'
  <1> SUFFICES ASSUME SInv, CallTypes, [FrontNext]_frontVars PROVE CallTypes'
    OBVIOUS
  <1>1. CASE UNCHANGED sessionVars
    BY <1>1 DEF sessionVars, CallTypes
  <1>2. CASE SessionNext
    BY <1>2, SessionNextCalls
  <1>3. CASE Expired
    BY <1>3, OneMore DEF Expired, handleLogout, clearAuth, CallTypes
  <1>4. CASE SignOut
    BY <1>4, SessionNextCalls DEF SignOut, SessionNext
  <1>5. CASE SignIn
    BY <1>5, SessionNextCalls, UserAssumption DEF SignIn, SessionNext
  <1>6. QED
    BY <1>1, <1>2, <1>3, <1>4, <1>5
    DEF FrontNext, frontVars, AtLogin, InPanel, OnPage, AtBackups, InRow,
        InPicker, PageOpensTab

LEMMA FrontInitCalls == FrontInit => CallTypes
  BY OneMore DEF FrontInit, SessionInit, SignedIn, Quiet, CallTypes

LEMMA CallsTyped == SInv /\ CallTypes => SessionType
  BY DEF CallTypes, SessionType

-----------------------------------------------------------------------------
(* The cluster picker. *)

AskedType == [st : {"idle", "waiting", "answered"}, got : Clusters \cup {None}]

LEMMA AskedTypes ==
    /\ {"modal", "connect"} \subseteq Requests /\ Polls \subseteq Requests
    /\ Unasked \in AskedType /\ Waiting \in AskedType
    /\ \A c \in Clusters : Got(c) \in AskedType
    /\ \A req \in [Requests -> AskedType] : Asking(req) \in [Requests -> AskedType]
  <1>1. /\ {"modal", "connect"} \subseteq Requests /\ Polls \subseteq Requests
        /\ Unasked \in AskedType /\ Waiting \in AskedType
        /\ \A c \in Clusters : Got(c) \in AskedType
    BY DEF Requests, AskedType, Unasked, Waiting, Got
  <1>2. ASSUME NEW req \in [Requests -> AskedType]
        PROVE  Asking(req) \in [Requests -> AskedType]
    BY <1>1 DEF Asking
  <1>3. QED
    BY <1>1, <1>2

LEMMA PickerInitType == PickerInit => PickerType
  <1> SUFFICES ASSUME PickerInit PROVE PickerType
    OBVIOUS
  <1>1. {0, 1} \subseteq Clusters /\ 0 \in 0 .. MaxFailures /\ 0 \in 0 .. MaxElsewhere
    BY PickerAssumption DEF Clusters
  <1>2. asked \in [Requests -> AskedType]
    BY AskedTypes DEF PickerInit
  <1>3. QED
    BY <1>1, <1>2 DEF PickerInit, PickerType, AskedType

LEMMA PickerNextType == ASSUME PickerType, [PickerNext]_pickerVars PROVE PickerType'
  <1> USE DEF PickerType
  <1> asked \in [Requests -> AskedType]
    BY DEF AskedType
  <1>1. ASSUME asked' \in [Requests -> AskedType]
        PROVE  asked' \in [Requests -> [st : {"idle", "waiting", "answered"},
                                        got : Clusters \cup {None}]]
    BY <1>1 DEF AskedType
  <1>2. \A r \in Requests : asked[r].got \in Clusters \cup {None}
    BY DEF AskedType
  <1>3. ASSUME NEW c \in Clusters, SwitchedElsewhere(c) \/ ChooseContext(c) \/ handleConnect(c)
        PROVE  PickerType'
    BY <1>3, PickerAssumption DEF SwitchedElsewhere, ChooseContext, handleConnect
  <1>4. ASSUME NEW r \in Requests, StatusServed(r) PROVE PickerType'
    <2>1. asked' \in [Requests -> AskedType]
      BY <1>4, AskedTypes DEF StatusServed
    <2>2. QED
      BY <1>1, <1>4, <2>1 DEF StatusServed
  <1>5. ASSUME NEW r \in Requests, LayoutAnswer(r) PROVE PickerType'
    <2>1. asked' \in [Requests -> AskedType]
      BY <1>5, AskedTypes DEF LayoutAnswer
    <2>2. QED
      BY <1>1, <1>2, <1>5, <2>1 DEF LayoutAnswer
  <1>6. ASSUME NEW r \in Requests, AskFails(r) PROVE PickerType'
    <2>1. asked' \in [Requests -> AskedType]
      BY <1>6, AskedTypes DEF AskFails
    <2>2. QED
      BY <1>1, <1>6, <2>1, PickerAssumption DEF AskFails
  <1>7. CASE Refresh \/ OpenSetup \/ CloseSetup
    <2>1. asked' \in [Requests -> AskedType]
      BY <1>7, AskedTypes DEF Refresh, OpenSetup, CloseSetup
    <2>2. QED
      BY <1>1, <1>7, <2>1 DEF Refresh, OpenSetup, CloseSetup
  <1>8. CASE ModalAnswer
    <2>1. asked' \in [Requests -> AskedType] /\ asked["modal"].got \in Clusters \cup {None}
      BY <1>2, <1>8, AskedTypes DEF ModalAnswer
    <2>2. QED
      BY <1>1, <1>8, <2>1 DEF ModalAnswer
  <1>9. CASE handleSelectContext
    BY <1>9 DEF handleSelectContext
  <1>10. CASE Connected
    <2>1. asked' \in [Requests -> AskedType]
      BY <1>10, AskedTypes DEF Connected
    <2>2. QED
      BY <1>1, <1>10, <2>1 DEF Connected
  <1>11. CASE ConnectAnswer
    <2>1. asked' \in [Requests -> AskedType] /\ asked["connect"].got \in Clusters \cup {None}
      BY <1>2, <1>11, AskedTypes DEF ConnectAnswer
    <2>2. QED
      BY <1>1, <1>11, <2>1 DEF ConnectAnswer
  <1>12. CASE SelectFails
    BY <1>12, PickerAssumption DEF SelectFails
  <1>13. CASE UNCHANGED pickerVars
    BY <1>13 DEF pickerVars
  <1>14. QED
    BY <1>3, <1>4, <1>5, <1>6, <1>7, <1>8, <1>9, <1>10, <1>11, <1>12, <1>13 DEF PickerNext

LEMMA FrontStepOfPicker == [FrontNext]_frontVars => [PickerNext]_pickerVars
  BY DEF FrontNext, frontVars, AtLogin, InPanel, OnPage, AtBackups, InRow, InPicker,
         PageOpensTab, SignOut, Expired, SignIn, Unmount

-----------------------------------------------------------------------------
(* The panel, beyond PInv. *)

PanelRest ==
    /\ fullScreen \in BOOLEAN
    /\ installing \in Ids \cup {None}
    /\ raced \subseteq Ids

LEMMA PanelNextRest == PanelRest /\ [PanelNext]_panelVars => PanelRest'
  <1> SUFFICES ASSUME PanelRest, [PanelNext]_panelVars PROVE PanelRest'
    OBVIOUS
  <1> USE DEF PanelRest
  <1>1. ASSUME NEW k \in Kinds, NEW b \in BOOLEAN, doAddTab(k, b) PROVE PanelRest'
    BY <1>1 DEF doAddTab
  <1>2. ASSUME NEW i \in Ids,
               \/ Close(i) \/ Activate(i) \/ connectTab(i) \/ Wire(i)
               \/ handleValuesChange(i) \/ handleInstall(i) \/ ValuesFetched(i)
        PROVE  PanelRest'
    BY <1>2 DEF Close, Activate, connectTab, Wire, handleValuesChange, handleInstall,
                ValuesFetched
  <1>3. ASSUME NEW i \in Ids, NEW x \in Texts, updateYaml(i, x) PROVE PanelRest'
    BY <1>3 DEF updateYaml
  <1>4. ASSUME NEW i \in Ids, NEW v \in Versions, ChooseVersion(i, v) PROVE PanelRest'
    BY <1>4 DEF ChooseVersion
  <1>5. ASSUME NEW ok \in BOOLEAN, YamlApplied(ok) \/ Installed(ok) PROVE PanelRest'
    BY <1>5 DEF YamlApplied, Installed
  <1>6. CASE \/ handleAddClick \/ ToggleCollapsed \/ toggleFullScreen \/ Escape
             \/ handleYamlPrimaryAction \/ UNCHANGED panelVars
    BY <1>6 DEF handleAddClick, ToggleCollapsed, toggleFullScreen, Escape,
                handleYamlPrimaryAction, panelVars
  <1>7. QED
    BY <1>1, <1>2, <1>3, <1>4, <1>5, <1>6 DEF PanelNext

LEMMA FrontNextRest == PanelRest /\ [FrontNext]_frontVars => PanelRest'
  <1> SUFFICES ASSUME PanelRest, [FrontNext]_frontVars PROVE PanelRest'
    OBVIOUS
  <1>1. CASE [PanelNext]_panelVars
    BY <1>1, PanelNextRest
  <1>2. CASE PanelUnmounts
    BY <1>2 DEF PanelUnmounts, PanelRest
  <1>3. CASE PageOpensTab
    BY <1>3 DEF PageOpensTab, doAddTab, panelVars, PanelRest
  <1>4. QED
    BY <1>1, <1>2, <1>3
    DEF FrontNext, frontVars, panelVars, AtLogin, InPanel, OnPage, AtBackups, InRow,
        InPicker, SignOut, SignIn, Expired, Unmount

LEMMA FrontInitRest == FrontInit => PanelRest
  BY DEF FrontInit, PanelInit, PanelRest

LEMMA PanelTyped == PInv /\ PanelRest => PanelType
  <1> SUFFICES ASSUME PInv, PanelRest PROVE PanelType
    OBVIOUS
  <1>1. activeTabId \in Ids \cup {None}
    BY OpenAreIds DEF PInv, ActiveIsOpen
  <1>2. applying \in [tab : Ids, text : Texts] \cup {None}
    BY DEF PInv, Texted
  <1>3. tab \in [Ids -> TabShape]
    BY DEF PInv, PanelShape
  <1>4. QED
    BY <1>1, <1>2, <1>3 DEF PInv, PanelShape, PanelRest, PanelType, TabShape

-----------------------------------------------------------------------------
(* The backup pages, beyond BInv. *)

BackupRest ==
    /\ selected \in Backups \cup {None} /\ detail \in BOOLEAN
    /\ removed \subseteq Backups
    /\ faults \in 0 .. MaxFaults

LEMMA BackupsNextRest ==
    BInv /\ BackupRest /\ [BackupsNext]_backupVars => BackupRest'
  <1> SUFFICES ASSUME BInv, BackupRest, [BackupsNext]_backupVars PROVE BackupRest'
    OBVIOUS
  <1> USE DEF BackupRest, pageVars
  <1>1. faults < MaxFaults => faults + 1 \in 0 .. MaxFaults
    BY BackupPagesAssumption
  <1>2. ASSUME NEW b \in Backups,
               \/ ShowBackup(b) \/ MarkBackup(b) \/ \E phase \in Phases : Proceed(b, phase)
        PROVE  BackupRest'
    BY <1>2 DEF ShowBackup, MarkBackup, Proceed
  <1>3. ASSUME NEW keys \in SUBSET Backups, RemovalServed(keys) \/ AskRemoval(keys)
        PROVE  BackupRest'
    BY <1>1, <1>3 DEF RemovalServed, AskRemoval
  <1>4. CASE OverviewFails
    BY <1>1, <1>4 DEF OverviewFails
  <1>5. CASE RemoveBackups
    <2>1. confirming \subseteq Backups
      BY <1>5 DEF RemoveBackups, BInv, BackupShapes
    <2>2. QED
      BY <1>5, <2>1 DEF RemoveBackups
  <1>6. CASE \/ OverviewServed \/ AskOverview \/ OverviewArrives
             \/ HideBackup \/ KeepBackups \/ RemovalReturns \/ UNCHANGED backupVars
    BY <1>6 DEF OverviewServed, AskOverview, OverviewArrives, HideBackup, KeepBackups,
                RemovalReturns, backupVars
  <1>7. QED
    BY <1>2, <1>3, <1>4, <1>5, <1>6 DEF BackupsNext

LEMMA FrontInitBackupRest == FrontInit => BackupRest
  <1>1. 0 \in 0 .. MaxFaults
    BY BackupPagesAssumption
  <1>2. QED
    BY <1>1 DEF FrontInit, BackupsInit, BackupRest

LEMMA BackupsTyped == BInv /\ BackupRest => BackupsType
  BY DEF BInv, BackupShapes, RemovalAsked, BackupRest, BackupsType

-----------------------------------------------------------------------------
(* The list pages, beyond RowShown and Answering. *)

PagesRest ==
    /\ there \subseteq Objects /\ IsInjective(data)
    /\ clicked \in Objects \cup {None}
    /\ {panelOpen, vanished, fetching} \subseteq BOOLEAN
    /\ ticked \subseteq Objects /\ absent \subseteq Objects
    /\ dialog = None \/ dialog \subseteq Objects
    /\ batch = None \/ batch.left \subseteq batch.keys
    /\ chosen \subseteq Spaces
    /\ changes \in 0 .. MaxChanges

\* The list changes: the flags and the ticks follow it.
LEMMA ListedRest ==
    ASSUME RowShown, PagesRest, NEW rows \in Seq(Objects), IsInjective(rows),
           Listed(rows), UNCHANGED <<there, deletion, chosen, fetching>>,
           changes' \in 0 .. MaxChanges
    PROVE  PagesRest'
  BY DEF Listed, deletion, PagesRest, Objects

LEMMA HeardRest == ASSUME RowShown, PagesRest, NEW o, Heard(o) PROVE PagesRest'
  <1>1. data \in Seq(Objects) /\ IsInjective(data) /\ o \in Objects
    BY DEF RowShown, PagesRest, Heard
  <1>2. UNCHANGED <<there, deletion, chosen, fetching>> /\ changes' \in 0 .. MaxChanges
    BY DEF Heard, PagesRest
  <1>3. CASE o \in there \ Range(data) /\ Listed(Append(data, o))
    <2>1. Append(data, o) \in Seq(Objects) /\ IsInjective(Append(data, o))
      BY <1>1, <1>3 DEF Range, IsInjective
    <2>2. QED
      BY <1>2, <1>3, <2>1, ListedRest
  <1>4. ASSUME NEW i \in DOMAIN data, Listed(RemoveAt(data, i)) PROVE PagesRest'
    <2>1. i \in 1 .. Len(data)
      BY <1>1, <1>4
    <2>2. RemoveAt(data, i) \in Seq(Objects) /\ IsInjective(RemoveAt(data, i))
      BY <1>1, <2>1, RemoveAtRange
    <2>3. QED
      BY <1>2, <1>4, <2>2, ListedRest
  <1>5. QED
    BY <1>3, <1>4 DEF Heard

LEMMA AnsweredRest ==
    ASSUME Answering, PagesRest, NEW o, NEW a \in Answers, Answered(o, a)
    PROVE  PagesRest'
  <1>1. /\ UNCHANGED <<page, data, chosen, fetching, clicked, vanished>>
        /\ Objects' = Objects /\ Spaces' = Spaces
        /\ Settle(o, page.deletion[a])
        /\ batch = [keys |-> batch.keys, left |-> batch.left]
    BY DEF Answered, Objects, Spaces, Answering
  <1>2. there' \subseteq Objects /\ absent' \subseteq Objects
    BY DEF Answered, PagesRest
  <1>3. changes' \in 0 .. MaxChanges
    BY PagesAssumption DEF Answered, PagesRest
  <1>4. /\ dialog' \in {dialog, None} /\ ticked' \in {ticked, {}}
        /\ panelOpen' \in {panelOpen, FALSE}
    BY <1>1 DEF Settle, Succeed, GiveUp, Wait
  <1>5. batch' = None \/ batch'.left \subseteq batch'.keys
    <2>1. batch' = None \/ batch' = [batch EXCEPT !.left = batch.left \ {o}]
      BY <1>1 DEF Settle, Succeed, GiveUp, Wait
    <2>2. QED
      BY <1>1, <2>1 DEF PagesRest, Answered
  <1>6. QED
    BY <1>1, <1>2, <1>3, <1>4, <1>5 DEF PagesRest

LEMMA LeaveRest == ASSUME PagesRest, Leave PROVE PagesRest'
  <1>1. IsInjective(<<>>)
    BY DEF IsInjective
  <1>2. QED
    BY <1>1 DEF Leave, PagesRest, Objects

LEMMA OwnRest == ASSUME RowShown, Answering, PagesRest, PagesOwn PROVE PagesRest'
  <1> USE DEF PagesRest, Objects, opened, deletion
  <1>1. ASSUME NEW o \in Named \cup Global, Touch(o) PROVE PagesRest'
    <2>1. changes' \in 0 .. MaxChanges
      BY <1>1, PagesAssumption DEF Touch
    <2>2. QED
      BY <1>1, <2>1 DEF Touch
  <1>2. ASSUME NEW o \in Named \cup Global, Click(o) PROVE PagesRest'
    <2>1. o \in Objects
      BY <1>2, RowsAreObjects DEF Click, Visible, RowShown
    <2>2. QED
      BY <1>2, <2>1 DEF Click
  <1>3. ASSUME NEW rows \in SUBSET Objects, Tick(rows) PROVE PagesRest'
    BY <1>3 DEF Tick
  <1>4. CASE Reset
    <2>1. <<>> \in Seq(Objects) /\ IsInjective(<<>>)
      BY DEF IsInjective
    <2>2. changes' \in 0 .. MaxChanges
      BY <1>4, PagesAssumption DEF Reset
    <2>3. QED
      BY <1>4, <2>1, <2>2, ListedRest DEF Reset
  <1>5. CASE ClosePanel \/ OpenYaml
    BY <1>5 DEF ClosePanel, OpenYaml
  <1>6. CASE handleDeleteSingle
    BY <1>6, BehaviourFacts DEF handleDeleteSingle, RowShown
  <1>7. CASE handleDeleteSelected \/ Cancel
    BY <1>7 DEF handleDeleteSelected, Cancel
  <1>8. CASE handleConfirmDelete
    BY <1>8 DEF handleConfirmDelete
  <1>9. ASSUME NEW n \in Spaces, toggleNamespace(n) PROVE PagesRest'
    BY <1>9 DEF toggleNamespace, Spaces
  <1>10. QED
    BY <1>1, <1>2, <1>3, <1>4, <1>5, <1>6, <1>7, <1>8, <1>9, HeardRest, AnsweredRest,
       LeaveRest DEF PagesOwn

LEMMA FrontNextPagesRest ==
    RowShown /\ Answering /\ PagesRest /\ [FrontNext]_frontVars => PagesRest'
  <1> SUFFICES ASSUME RowShown, Answering, PagesRest, [FrontNext]_frontVars
               PROVE  PagesRest'
    OBVIOUS
  <1>1. CASE UNCHANGED pagesVars
    BY <1>1 DEF pagesVars, PagesRest, Objects, Spaces
  <1>2. CASE PagesOwn
    BY <1>2, OwnRest
  <1>3. CASE PageOpensTab
    <2>1. /\ UNCHANGED <<page, there, data, clicked, ticked, dialog, batch, chosen,
                         changes, vanished, absent>>
          /\ {panelOpen', fetching'} \subseteq BOOLEAN
      <3>1. CASE (\E t \in Wired : OpenTab(t)) \/ handleTailLogs
        BY <3>1 DEF OpenTab, handleTailLogs, pagesVars, deletion, PagesRest
      <3>2. CASE YamlFetched
        BY <3>2 DEF YamlFetched, opened, deletion, PagesRest
      <3>3. QED
        BY <1>3, <3>1, <3>2 DEF PageOpensTab
    <2>2. QED
      BY <2>1 DEF PagesRest, Objects, Spaces
  <1>4. CASE Unmount
    BY <1>4, LeaveRest DEF Unmount
  <1>5. QED
    BY <1>1, <1>2, <1>3, <1>4
    DEF FrontNext, frontVars, AtLogin, InPanel, OnPage, AtBackups, InRow,
        InPicker, SignOut, Expired, SignIn

LEMMA FrontInitPagesRest == FrontInit => PagesRest
  <1>1. 0 \in 0 .. MaxChanges /\ IsInjective(<<>>)
    BY PagesAssumption DEF IsInjective
  <1>2. QED
    BY <1>1 DEF FrontInit, PagesInit, Mounted, PagesRest

LEMMA PagesTyped == RowShown /\ PagesRest => PagesType
  BY DEF RowShown, PagesRest, PagesType

-----------------------------------------------------------------------------
(* The parts together. *)

Typed ==
    /\ scene \in Scenes
    /\ SInv /\ CallTypes /\ PickerType /\ PInv /\ PanelRest /\ BInv /\ BackupRest
    /\ RowShown /\ Answering /\ PagesRest /\ RowsType

LEMMA FrontInitTyped == FrontInit => Typed
  <1>1. FrontInit => scene \in Scenes /\ PickerInit
    BY DEF FrontInit
  <1>2. QED
    BY <1>1, FrontInitSInv, FrontInitCalls, PickerInitType, FrontInitPInv, FrontInitRest,
       BackupsInitInv, FrontInitBackupRest, FrontInitShown, FrontInitAnswering,
       FrontInitPagesRest, RowsInitType DEF Typed

LEMMA FrontNextTyped == Typed /\ [FrontNext]_frontVars => Typed'
  <1>1. [FrontNext]_frontVars => scene' = scene
    BY DEF FrontNext, frontVars, AtLogin, InPanel, OnPage, AtBackups, InRow, InPicker,
           PageOpensTab, SignOut, Expired, SignIn, Unmount
  <1>2. QED
    BY <1>1, FrontNextSInv, FrontNextCalls, FrontStepOfPicker, PickerNextType,
       FrontNextPInv, FrontNextRest, FrontStepOfBackups, BackupsNextInv, BackupsNextRest,
       FrontNextShown, FrontNextAnswering, FrontNextPagesRest, FrontStepOfRows,
       RowsNextType DEF Typed

\* Every reachable state of the front end is well typed: in particular a page
\* lists no object twice and has none ticked, or in a dialog, of another page,
\* and no tab is in the panel twice.
THEOREM FrontTypeCorrect == FrontSpec => []TypeOK
  <1>1. Typed => TypeOK
    BY CallsTyped, PanelTyped, BackupsTyped, PagesTyped DEF Typed, TypeOK
  <1>2. QED
    BY <1>1, FrontInitTyped, FrontNextTyped, PTL DEF FrontSpec

=============================================================================

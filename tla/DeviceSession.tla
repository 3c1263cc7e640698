--------------------------- MODULE DeviceSession ---------------------------
(***************************************************************************)
(* How a phone stays signed in: the refresh sessions of the shared backend *)
(* (RefreshSessionService), the one phone that holds their tokens          *)
(* (createMobileSession with refreshSessionOnce), its secure storage, and  *)
(* what happens between them: answers that get lost or come too late,      *)
(* writes that fail, the app being killed, other devices, administrators.  *)
(*                                                                         *)
(* The secrets of a session are numbered in the order the server makes     *)
(* them. The client's generation counter is only ever compared with the    *)
(* value it had when a call started, so each call keeps instead whether it *)
(* is still fresh: moving the counter on makes every running call stale.   *)
(***************************************************************************)
EXTENDS Naturals, Sequences

CONSTANTS
    Sessions,    \* refresh sessions, one for each login
    MaxSecrets,  \* bound on the secrets made for one session
    None,        \* null
    Faults       \* what may go wrong or come in between, see AllFaults

AllFaults ==
    {"loss",        \* a refresh, or its answer, is lost or not served (429, 5xx)
     "late",        \* a refresh the phone has given up on arrives after all
     "logoutLost",  \* a sign-out doesn't reach the server
     "loginLost",   \* the answer to a login is lost
     "kill",        \* the app stops, and is started again
     "writeFails",  \* secure storage refuses a write
     "deleteFails", \* secure storage refuses a delete
     "unreadable",  \* secure storage refuses a read
     "reinstall",   \* the app is deleted and installed again; iOS keeps the item
     "link",        \* a link opens the sign-in screen before anything is restored
     "reauth",      \* a step-up answer demands a new sign-in
     "delete",      \* the user deletes the account
     "revoke",      \* the session is ended from elsewhere
     "pause",       \* the user is disabled, and perhaps enabled again
     "graceEnds"}   \* a day passes with the replaced secret unused

Token == [session : Sessions, secret : 1..MaxSecrets, here : BOOLEAN]

ASSUME DeviceAssumption ==
    /\ MaxSecrets \in Nat \ {0}
    /\ Faults \subseteq AllFaults
    /\ None \notin Token \union Sessions

VARIABLES
    sessions,     \* sessions[s]: the row of refresh_sessions
    logouts,      \* sessions whose sign-out is on its way to the server
    late,         \* the refresh token of a request the phone gave up on
    replayed,     \* sessions the server ended because a replaced token came
    status,       \* SessionState.status
    notice,       \* SessionState.endedByServer
    access,       \* the access token, named by the refresh token it came with
    stored,       \* the session in memory
    disk,         \* the session in secure storage
    queue,        \* storage calls, in the order they were made
    restore,      \* the running restore()
    refresh,      \* the running refreshSessionOnce()
    signIn,       \* the running completeSignIn()
    signOut,      \* the running signOut(): idle, fresh or stale
    pending,      \* a request whose answer may end the session, see Ask
    signedOutOf   \* sessions the user signed out of on this phone

serverVars == <<sessions, replayed>>
netVars == <<logouts, late>>
stateVars == <<status, notice>>
memVars == <<access, stored>>
storageVars == <<disk, queue>>
vars == <<serverVars, netVars, stateVars, memVars, storageVars,
          restore, refresh, signIn, signOut, pending, signedOutOf>>

-----------------------------------------------------------------------------
(* The server's row, and what a refresh token does to it.                  *)

Row(state, current, previous, grace, usable) ==
    [state |-> state, current |-> current, previous |-> previous,
     grace |-> grace, usable |-> usable]

Unused == Row("unused", 0, 0, FALSE, FALSE)
Issued == Row("live", 1, 0, FALSE, TRUE)
Gone == Row("gone", 0, 0, FALSE, FALSE)

Live(s) == sessions[s].state = "live"

IsCurrent(t) == t.secret = sessions[t.session].current

(* Wrong on purpose: only the newest secret counts.                        *)
NeverPrevious(t) == FALSE

IsPrevious(t) ==
    /\ ~ IsCurrent(t)
    /\ t.secret = sessions[t.session].previous
    /\ sessions[t.session].grace

Known(t) == IsCurrent(t) \/ IsPrevious(t)

Renews(t) == Live(t.session) /\ Known(t) /\ sessions[t.session].usable

(* A client that shows the previous secret keeps it as the previous one:   *)
(* retries don't extend its day.                                           *)
Renewed(t) ==
    LET r == sessions[t.session]
    IN  IF IsCurrent(t) THEN Row("live", r.current + 1, r.current, TRUE, TRUE)
                        ELSE [r EXCEPT !.current = @ + 1]

Renewal(t) == [t EXCEPT !.secret = sessions[t.session].current + 1]

(* One call of rotate. The row lock makes it one step.                     *)
Rotate(t) ==
    LET replay == Live(t.session) /\ ~ Known(t)
    IN  /\ Renews(t) => sessions[t.session].current < MaxSecrets
        /\ sessions' = [sessions EXCEPT ![t.session] =
                           IF Renews(t) THEN Renewed(t)
                           ELSE IF replay THEN Gone ELSE @]
        /\ replayed' = IF replay THEN replayed \union {t.session} ELSE replayed

-----------------------------------------------------------------------------
(* The phone's records.                                                    *)

Op(owner, value) == [owner |-> owner, value |-> value]
Forget == Op("forget", None)

RestoreIdle == [pc |-> "idle", found |-> None, fresh |-> FALSE]
RestoreReading == [pc |-> "reading", found |-> None, fresh |-> TRUE]

RefreshIdle == [pc |-> "idle", before |-> None, token |-> None,
                answer |-> None, fresh |-> FALSE]
RefreshStarting == [RefreshIdle EXCEPT !.pc = "starting", !.before = access]

SignInIdle == [pc |-> "idle", token |-> None, replaced |-> None]

Stale(call) == [call EXCEPT !.fresh = FALSE]
SignOutStale == IF signOut = "fresh" THEN "stale" ELSE signOut

SessionOf(t) == IF t = None THEN {} ELSE {t.session}

(* What secure storage will hold once every call made so far has landed.   *)
Landed == IF queue = <<>> THEN disk ELSE queue[Len(queue)].value

(* Wrong on purpose: a storage call doesn't wait for the earlier ones.     *)
EnqueueFirst(op) == <<op>> \o queue

(* enqueueWrite: after every call made before.                             *)
Enqueue(op) == Append(queue, op)

ForgetIfStored == queue' = IF stored # None THEN Enqueue(Forget) ELSE queue

(* endSession: the session in memory is over, and the server says so.      *)
EndSession ==
    /\ access' = None
    /\ stored' = None
    /\ ForgetIfStored
    /\ status' = "signedOut"
    /\ notice' = (stored # None \/ (notice /\ status = "signedOut"))
    /\ restore' = Stale(restore)
    /\ signOut' = SignOutStale

RowType == [state : {"unused", "live", "gone"},
            current : 0..MaxSecrets, previous : 0..MaxSecrets,
            grace : BOOLEAN, usable : BOOLEAN]

TokenOrNone == Token \union {None}

OpType == [owner : {"refresh", "signIn"}, value : Token] \union {Forget}

RestoreType == [pc : {"idle", "reading", "stamp"},
                found : TokenOrNone, fresh : BOOLEAN]

(* Positions of a refresh that has taken the token it presents.            *)
Presenting == {"asked", "accepted", "refused", "writing"}

RefreshType == [pc : {"idle", "starting"} \union Presenting,
                before : TokenOrNone, token : TokenOrNone,
                answer : TokenOrNone, fresh : BOOLEAN]

SignInType == [pc : {"idle", "issued", "writing"},
               token : TokenOrNone, replaced : TokenOrNone]

TypeOK ==
    /\ sessions \in [Sessions -> RowType]
    /\ logouts \subseteq Sessions
    /\ late \in TokenOrNone
    /\ replayed \subseteq Sessions
    /\ status \in {"restoring", "unreadable", "signedIn", "signedOut"}
    /\ notice \in BOOLEAN
    /\ access \in TokenOrNone
    /\ stored \in TokenOrNone
    /\ disk \in TokenOrNone
    /\ queue \in Seq(OpType)
    /\ restore \in RestoreType
    /\ refresh \in RefreshType
    /\ refresh.pc \in Presenting => refresh.token \in Token
    /\ refresh.pc \in {"accepted", "writing"} => refresh.answer \in Token
    /\ signIn \in SignInType
    /\ signIn.pc # "idle" => signIn.token \in Token
    /\ signOut \in {"idle", "fresh", "stale"}
    /\ pending \in {"none", "reauth", "delete"}
    /\ signedOutOf \subseteq Sessions

(* A phone the app has just been installed on.                             *)
Init ==
    /\ sessions = [s \in Sessions |-> Unused]
    /\ logouts = {}
    /\ late = None
    /\ replayed = {}
    /\ status = "restoring"
    /\ notice = FALSE
    /\ access = None
    /\ stored = None
    /\ disk = None
    /\ queue = <<>>
    /\ restore = RestoreReading
    /\ refresh = RefreshIdle
    /\ signIn = SignInIdle
    /\ signOut = "idle"
    /\ pending = "none"
    /\ signedOutOf = {}

-----------------------------------------------------------------------------
(* restore(): at launch, and again for a session that couldn't be read.    *)

RestoreReads ==
    /\ restore.pc = "reading"
    /\ restore' = [restore EXCEPT !.pc = "stamp", !.found = disk]
    /\ UNCHANGED <<serverVars, netVars, stateVars, memVars, storageVars,
                   refresh, signIn, signOut, pending, signedOutOf>>

RestoreCannotRead ==
    /\ "unreadable" \in Faults
    /\ restore.pc = "reading"
    /\ status' = IF restore.fresh THEN "unreadable" ELSE status
    /\ notice' = (notice /\ ~ restore.fresh)
    /\ restore' = RestoreIdle
    /\ UNCHANGED <<serverVars, netVars, memVars, storageVars,
                   refresh, signIn, signOut, pending, signedOutOf>>

(* The session was ended or replaced while it was being read.              *)
RestoreOvertaken ==
    /\ restore.pc = "stamp" /\ ~ restore.fresh
    /\ restore' = RestoreIdle
    /\ UNCHANGED <<serverVars, netVars, stateVars, memVars, storageVars,
                   refresh, signIn, signOut, pending, signedOutOf>>

(* Nothing is stored, or what is stored is from before a reinstall.        *)
RestoreNothing ==
    /\ restore.pc = "stamp" /\ restore.fresh
    /\ \/ /\ restore.found = None
          /\ UNCHANGED <<logouts, queue>>
       \/ /\ restore.found # None /\ ~ restore.found.here
          /\ logouts' = logouts \union {restore.found.session}
          /\ queue' = Enqueue(Forget)
    /\ status' = "signedOut"
    /\ notice' = FALSE
    /\ restore' = RestoreIdle
    /\ UNCHANGED <<serverVars, late, memVars, disk,
                   refresh, signIn, signOut, pending, signedOutOf>>

(* The install date of a session from before a reinstall may be            *)
(* unreadable: then it is kept.                                            *)
RestoreSession ==
    /\ restore.pc = "stamp" /\ restore.fresh /\ restore.found # None
    /\ stored' = restore.found
    /\ status' = "signedIn"
    /\ notice' = FALSE
    /\ restore' = RestoreIdle
    /\ refresh' = IF refresh.pc = "idle" THEN RefreshStarting ELSE refresh
    /\ UNCHANGED <<serverVars, netVars, access, storageVars,
                   signIn, signOut, pending, signedOutOf>>

(* One read at a time. *)
RetryRestore ==
    /\ status = "unreadable" /\ restore.pc = "idle"
    /\ restore' = RestoreReading
    /\ UNCHANGED <<serverVars, netVars, stateVars, memVars, storageVars,
                   refresh, signIn, signOut, pending, signedOutOf>>

SkipRestore ==
    /\ status = "unreadable"
    /\ status' = "signedOut"
    /\ notice' = FALSE
    /\ restore' = Stale(restore)
    /\ refresh' = Stale(refresh)
    /\ signOut' = SignOutStale
    /\ UNCHANGED <<serverVars, netVars, memVars, storageVars,
                   signIn, pending, signedOutOf>>

-----------------------------------------------------------------------------
(* refreshSessionOnce(): at launch and for a rejected request.             *)

RefreshStart ==
    /\ refresh.pc = "idle"
    /\ refresh' = RefreshStarting
    /\ UNCHANGED <<serverVars, netVars, stateVars, memVars, storageVars,
                   restore, signIn, signOut, pending, signedOutOf>>

(* runRefresh clears the session only if no sign-in replaced its access    *)
(* token since it started.                                                 *)
ClearIfSame ==
    IF access = refresh.before
    THEN EndSession
    ELSE UNCHANGED <<stateVars, memVars, queue, restore, signOut>>

(* Wrong on purpose: asks without looking whether there is a session.      *)
RefreshAsksAnyway ==
    /\ refresh.pc = "starting" /\ restore.pc = "idle"
    /\ refresh' = [refresh EXCEPT !.pc = "asked", !.token = stored,
                                  !.fresh = TRUE]
    /\ UNCHANGED <<serverVars, netVars, stateVars, memVars, storageVars,
                   restore, signIn, signOut, pending, signedOutOf>>

(* start() has finished. *)
RefreshAsks ==
    /\ refresh.pc = "starting" /\ restore.pc = "idle"
    /\ status # "unreadable" /\ stored # None
    /\ refresh' = [refresh EXCEPT !.pc = "asked", !.token = stored,
                                  !.fresh = TRUE]
    /\ UNCHANGED <<serverVars, netVars, stateVars, memVars, storageVars,
                   restore, signIn, signOut, pending, signedOutOf>>

RefreshHasNothing ==
    /\ refresh.pc = "starting" /\ restore.pc = "idle"
    /\ \/ /\ status = "unreadable"
          /\ UNCHANGED <<stateVars, memVars, queue, restore, signOut>>
       \/ /\ status # "unreadable" /\ stored = None
          /\ ClearIfSame
    /\ refresh' = RefreshIdle
    /\ UNCHANGED <<serverVars, netVars, disk, signIn, pending, signedOutOf>>

ServerRotates ==
    /\ refresh.pc = "asked"
    /\ Rotate(refresh.token)
    /\ refresh' = IF Renews(refresh.token)
                  THEN [refresh EXCEPT !.pc = "accepted",
                                       !.answer = Renewal(refresh.token)]
                  ELSE [refresh EXCEPT !.pc = "refused"]
    /\ UNCHANGED <<netVars, stateVars, memVars, storageVars,
                   restore, signIn, signOut, pending, signedOutOf>>

(* The request or its answer is lost, or the server is limiting or down:   *)
(* "unavailable".                                                          *)
RefreshUnanswered ==
    /\ "loss" \in Faults
    /\ refresh.pc \in {"asked", "accepted", "refused"}
    /\ refresh' = RefreshIdle
    /\ UNCHANGED <<serverVars, netVars, stateVars, memVars, storageVars,
                   restore, signIn, signOut, pending, signedOutOf>>

(* The phone stops waiting after AUTH_REQUEST_TIMEOUT_MS. The request is   *)
(* still on its way. Bound: one such request at a time.                    *)
RefreshTimesOut ==
    /\ "late" \in Faults
    /\ refresh.pc = "asked" /\ late = None
    /\ late' = refresh.token
    /\ refresh' = RefreshIdle
    /\ UNCHANGED <<serverVars, logouts, stateVars, memVars, storageVars,
                   restore, signIn, signOut, pending, signedOutOf>>

LateArrives ==
    /\ late # None
    /\ Rotate(late)
    /\ late' = None
    /\ UNCHANGED <<logouts, stateVars, memVars, storageVars,
                   restore, refresh, signIn, signOut, pending, signedOutOf>>

(* Wrong on purpose: the answer is kept whatever happened meanwhile.       *)
RefreshAlwaysAccepted ==
    /\ refresh.pc = "accepted"
    /\ access' = refresh.answer
    /\ stored' = refresh.answer
    /\ queue' = Enqueue(Op("refresh", refresh.answer))
    /\ refresh' = [refresh EXCEPT !.pc = "writing"]
    /\ UNCHANGED <<serverVars, netVars, stateVars, disk,
                   restore, signIn, signOut, pending, signedOutOf>>

RefreshAccepted ==
    /\ refresh.pc = "accepted" /\ refresh.fresh
    /\ access' = refresh.answer
    /\ stored' = refresh.answer
    /\ queue' = Enqueue(Op("refresh", refresh.answer))
    /\ refresh' = [refresh EXCEPT !.pc = "writing"]
    /\ UNCHANGED <<serverVars, netVars, stateVars, disk,
                   restore, signIn, signOut, pending, signedOutOf>>

(* The session ended while this was on its way: the new tokens aren't      *)
(* wanted.                                                                 *)
RefreshUnwanted ==
    /\ refresh.pc = "accepted" /\ ~ refresh.fresh
    /\ logouts' = logouts \union {refresh.answer.session}
    /\ refresh' = RefreshIdle
    /\ UNCHANGED <<serverVars, late, stateVars, memVars, storageVars,
                   restore, signIn, signOut, pending, signedOutOf>>

(* Wrong on purpose: whatever was refused, the session is over.            *)
RefusalAlwaysEnds ==
    /\ refresh.pc = "refused"
    /\ EndSession
    /\ refresh' = RefreshIdle
    /\ UNCHANGED <<serverVars, netVars, disk, signIn, pending, signedOutOf>>

(* Wrong on purpose: a refusal is taken for an outage.                     *)
RefusalIsIgnored ==
    /\ refresh.pc = "refused"
    /\ refresh' = RefreshIdle
    /\ UNCHANGED <<serverVars, netVars, stateVars, memVars, storageVars,
                   restore, signIn, signOut, pending, signedOutOf>>

RefreshRefused ==
    /\ refresh.pc = "refused"
    /\ IF refresh.fresh
       THEN ClearIfSame
       ELSE UNCHANGED <<stateVars, memVars, queue, restore, signOut>>
    /\ refresh' = RefreshIdle
    /\ UNCHANGED <<serverVars, netVars, disk, signIn, pending, signedOutOf>>

-----------------------------------------------------------------------------
(* completeSignIn(). The login and its answer; a login that fails, or asks *)
(* for a code, changes nothing.                                            *)

LoginIssues(s) ==
    /\ signIn.pc = "idle"
    /\ status = "signedOut" \/ ("link" \in Faults /\ status # "signedIn")
    /\ sessions[s] = Unused
    /\ sessions' = [sessions EXCEPT ![s] = Issued]
    /\ signIn' = [SignInIdle EXCEPT !.pc = "issued",
                     !.token = [session |-> s, secret |-> 1, here |-> TRUE]]
    /\ UNCHANGED <<replayed, netVars, stateVars, memVars, storageVars,
                   restore, refresh, signOut, pending, signedOutOf>>

LoginLost ==
    /\ "loginLost" \in Faults
    /\ signIn.pc = "issued"
    /\ signIn' = SignInIdle
    /\ UNCHANGED <<serverVars, netVars, stateVars, memVars, storageVars,
                   restore, refresh, signOut, pending, signedOutOf>>

SignInReceives ==
    /\ signIn.pc = "issued"
    /\ access' = signIn.token
    /\ stored' = signIn.token
    /\ logouts' = logouts \union SessionOf(stored)
    /\ queue' = Enqueue(Op("signIn", signIn.token))
    /\ signIn' = [signIn EXCEPT !.pc = "writing", !.replaced = stored]
    /\ restore' = Stale(restore)
    /\ refresh' = Stale(refresh)
    /\ signOut' = SignOutStale
    /\ UNCHANGED <<serverVars, late, stateVars, disk, pending, signedOutOf>>

-----------------------------------------------------------------------------
(* Secure storage: one call at a time, in the order they were made. What   *)
(* waits for a call goes on as it ends.                                    *)

Lands(owner) ==
    /\ queue # <<>> /\ Head(queue).owner = owner
    /\ disk' = Head(queue).value

Fails(owner) ==
    /\ (IF owner = "forget" THEN "deleteFails" ELSE "writeFails") \in Faults
    /\ queue # <<>> /\ Head(queue).owner = owner
    /\ UNCHANGED disk

(* A failure is logged, and the phone goes on with the token in memory.    *)
RefreshWritten ==
    /\ Lands("refresh") \/ Fails("refresh")
    /\ queue' = Tail(queue)
    /\ status' = IF refresh.fresh THEN "signedIn" ELSE status
    /\ notice' = (notice /\ ~ refresh.fresh)
    /\ refresh' = RefreshIdle
    /\ UNCHANGED <<serverVars, netVars, memVars,
                   restore, signIn, signOut, pending, signedOutOf>>

SignInWritten ==
    /\ Lands("signIn")
    /\ queue' = Tail(queue)
    /\ status' = "signedIn"
    /\ notice' = FALSE
    /\ signIn' = SignInIdle
    /\ UNCHANGED <<serverVars, netVars, memVars,
                   restore, refresh, signOut, pending, signedOutOf>>

(* Wrong on purpose: the server isn't told of the session that is dropped. *)
SignInQuietlyNotWritten ==
    /\ Fails("signIn")
    /\ access' = None
    /\ stored' = None
    /\ queue' = Tail(queue)
    /\ signIn' = SignInIdle
    /\ restore' = Stale(restore)
    /\ refresh' = Stale(refresh)
    /\ signOut' = SignOutStale
    /\ UNCHANGED <<serverVars, netVars, stateVars, pending, signedOutOf>>

SignInNotWritten ==
    /\ Fails("signIn")
    /\ access' = None
    /\ stored' = None
    /\ logouts' = logouts \union {signIn.token.session}
    /\ \/ /\ signIn.replaced = None
          /\ queue' = Tail(queue)
          /\ UNCHANGED stateVars
       \/ /\ signIn.replaced # None
          /\ queue' = Append(Tail(queue), Forget)
          /\ status' = "signedOut"
          /\ notice' = FALSE
    /\ signIn' = SignInIdle
    /\ restore' = Stale(restore)
    /\ refresh' = Stale(refresh)
    /\ signOut' = SignOutStale
    /\ UNCHANGED <<serverVars, late, pending, signedOutOf>>

Forgotten ==
    /\ Lands("forget") \/ Fails("forget")
    /\ queue' = Tail(queue)
    /\ UNCHANGED <<serverVars, netVars, stateVars, memVars,
                   restore, refresh, signIn, signOut, pending, signedOutOf>>

-----------------------------------------------------------------------------
(* signOut(), accountDeleted(), tokenStore.clear() and the notice.         *)

SignOut ==
    /\ status = "signedIn" /\ signOut = "idle"
    /\ access' = None
    /\ stored' = None
    /\ ForgetIfStored
    /\ logouts' = logouts \union SessionOf(stored)
    /\ signedOutOf' = signedOutOf \union SessionOf(stored)
    /\ restore' = Stale(restore)
    /\ refresh' = Stale(refresh)
    /\ signOut' = "fresh"
    /\ UNCHANGED <<serverVars, late, stateVars, disk, signIn, pending>>

(* The server's answer, or no answer within LOGOUT_TIMEOUT_MS.             *)
SignOutEnds ==
    /\ signOut # "idle"
    /\ status' = IF signOut = "fresh" THEN "signedOut" ELSE status
    /\ notice' = (notice /\ signOut # "fresh")
    /\ signOut' = "idle"
    /\ UNCHANGED <<serverVars, netVars, memVars, storageVars,
                   restore, refresh, signIn, pending, signedOutOf>>

(* end(): by session id, whatever the secret. Doing it twice is fine.      *)
LogoutArrives(s) ==
    /\ s \in logouts
    /\ logouts' = logouts \ {s}
    /\ sessions' = [sessions EXCEPT ![s] = Gone]
    /\ UNCHANGED <<replayed, late, stateVars, memVars, storageVars,
                   restore, refresh, signIn, signOut, pending, signedOutOf>>

LogoutLost(s) ==
    /\ "logoutLost" \in Faults
    /\ s \in logouts
    /\ logouts' = logouts \ {s}
    /\ UNCHANGED <<serverVars, late, stateVars, memVars, storageVars,
                   restore, refresh, signIn, signOut, pending, signedOutOf>>

(* Two requests of signed-in screens whose answers end the session in      *)
(* memory, whichever it is by then: one that needs a recent sign-in (an    *)
(* access token that came with the login itself is recent), and the        *)
(* deletion of the account. Bound: one of them at a time.                  *)
Ask(what) ==
    /\ what \in Faults /\ pending = "none"
    /\ status = "signedIn"
    /\ what = "reauth" => access # None /\ access.secret > 1
    /\ pending' = what
    /\ UNCHANGED <<serverVars, netVars, stateVars, memVars, storageVars,
                   restore, refresh, signIn, signOut, signedOutOf>>

(* Served, or refused without consequences.                                *)
Answered ==
    /\ pending # "none"
    /\ pending' = "none"
    /\ UNCHANGED <<serverVars, netVars, stateVars, memVars, storageVars,
                   restore, refresh, signIn, signOut, signedOutOf>>

(* X-Require-Step-Up: reauth                                               *)
StepUpReauth ==
    /\ pending = "reauth"
    /\ EndSession
    /\ refresh' = Stale(refresh)
    /\ pending' = "none"
    /\ UNCHANGED <<serverVars, netVars, disk, signIn, signedOutOf>>

(* The account is gone, and its sessions with it (Revoke), or its deletion *)
(* wasn't confirmed and the session has ended.                             *)
AccountDeleted ==
    /\ pending = "delete"
    /\ access' = None
    /\ stored' = None
    /\ ForgetIfStored
    /\ status' = "signedOut"
    /\ notice' = FALSE
    /\ restore' = Stale(restore)
    /\ refresh' = Stale(refresh)
    /\ signOut' = SignOutStale
    /\ pending' = "none"
    /\ UNCHANGED <<serverVars, netVars, disk, signIn, signedOutOf>>

DismissEndedNotice ==
    /\ notice
    /\ notice' = FALSE
    /\ UNCHANGED <<serverVars, netVars, status, memVars, storageVars,
                   restore, refresh, signIn, signOut, pending, signedOutOf>>

-----------------------------------------------------------------------------
(* The app stops and starts: what it held in memory is gone, and so are    *)
(* the storage calls that hadn't begun. A request stays under way.         *)

(* Bound: one late request at a time, as in RefreshTimesOut.               *)
Kill ==
    /\ "kill" \in Faults
    /\ disk' \in {disk} \union
                 (IF queue = <<>> THEN {} ELSE {Head(queue).value})
    /\ late' \in {late} \union
                 (IF refresh.pc = "asked" /\ late = None /\ "late" \in Faults
                  THEN {refresh.token} ELSE {})
    /\ queue' = <<>>
    /\ access' = None
    /\ stored' = None
    /\ status' = "restoring"
    /\ notice' = FALSE
    /\ restore' = RestoreReading
    /\ refresh' = RefreshIdle
    /\ signIn' = SignInIdle
    /\ signOut' = "idle"
    /\ pending' = "none"
    /\ UNCHANGED <<serverVars, logouts, signedOutOf>>

(* The app isn't running while it is deleted.                              *)
Reinstall ==
    /\ "reinstall" \in Faults
    /\ status = "restoring" /\ restore = RestoreReading
    /\ refresh = RefreshIdle /\ signIn = SignInIdle /\ disk # None
    /\ disk' = [disk EXCEPT !.here = FALSE]
    /\ UNCHANGED <<serverVars, netVars, stateVars, memVars, queue,
                   restore, refresh, signIn, signOut, pending, signedOutOf>>

-----------------------------------------------------------------------------
(* Other devices, administrators, other logins and the clock.              *)

(* Revoked from another device, ended by a later login as the oldest or as *)
(* expired, or deleted with its user.                                      *)
Revoke(s) ==
    /\ "revoke" \in Faults
    /\ Live(s)
    /\ sessions' = [sessions EXCEPT ![s] = Gone]
    /\ UNCHANGED <<replayed, netVars, stateVars, memVars, storageVars,
                   restore, refresh, signIn, signOut, pending, signedOutOf>>

(* _is_usable: disabled and enabled users; expired, idle and cut-off       *)
(* sessions stay unusable.                                                 *)
SetUsable(s, b) ==
    /\ "pause" \in Faults
    /\ Live(s) /\ sessions[s].usable # b
    /\ sessions' = [sessions EXCEPT ![s].usable = b]
    /\ UNCHANGED <<replayed, netVars, stateVars, memVars, storageVars,
                   restore, refresh, signIn, signOut, pending, signedOutOf>>

GraceEnds(s) ==
    /\ "graceEnds" \in Faults
    /\ sessions[s].grace
    /\ sessions' = [sessions EXCEPT ![s].grace = FALSE]
    /\ UNCHANGED <<replayed, netVars, stateVars, memVars, storageVars,
                   restore, refresh, signIn, signOut, pending, signedOutOf>>

Restore ==
    \/ RestoreReads \/ RestoreCannotRead \/ RestoreOvertaken
    \/ RestoreNothing \/ RestoreSession

Refresh ==
    \/ RefreshAsks \/ RefreshHasNothing \/ RefreshAccepted
    \/ RefreshUnwanted \/ RefreshRefused

Storage == RefreshWritten \/ SignInWritten \/ SignInNotWritten \/ Forgotten

Network ==
    \/ ServerRotates \/ RefreshUnanswered \/ RefreshTimesOut
    \/ LateArrives \/ LoginLost
    \/ \E s \in Sessions : LogoutArrives(s) \/ LogoutLost(s)

User ==
    \/ RetryRestore \/ SkipRestore \/ RefreshStart \/ SignOut \/ SignOutEnds
    \/ Ask("reauth") \/ Ask("delete") \/ Answered
    \/ AccountDeleted \/ StepUpReauth \/ DismissEndedNotice
    \/ SignInReceives
    \/ \E s \in Sessions : LoginIssues(s)

World ==
    \/ Kill \/ Reinstall
    \/ \E s \in Sessions : Revoke(s) \/ GraceEnds(s)
    \/ \E s \in Sessions, b \in BOOLEAN : SetUsable(s, b)

Next == Restore \/ Refresh \/ Storage \/ Network \/ User \/ World

Spec == Init /\ [][Next]_vars

-----------------------------------------------------------------------------
(* What the phone and the server owe each other.                           *)

(* One phone alone never looks like two: the server never takes what it    *)
(* presents for a replaced token and ends the session, however many        *)
(* answers are lost and wherever the app is killed. This is what keeping   *)
(* the previous secret, the order of the storage calls and the single      *)
(* refresh in flight are for.                                              *)
NeverMistakenForTheft == replayed = {}

(* While the phone holds a session, secure storage holds or is about to    *)
(* hold that session with its newest token: no older write lands last.     *)
StorageFollows == stored # None => Landed = stored

(* A session the user signed out of is not in secure storage, nor will be  *)
(* once the calls made so far have landed: no refresh still running and no *)
(* write brings it back.                                                   *)
SignedOutStaysOut == SessionOf(Landed) \intersect signedOutOf = {}

(* Every session the server keeps for the phone is one the phone holds, is *)
(* about to receive, or has told the server to end: none is left behind    *)
(* where the user can neither use it nor end it from here.                 *)
NoSessionLeftBehind ==
    \A s \in Sessions : Live(s) =>
        \/ s \in logouts \union SessionOf(stored) \union SessionOf(Landed)
        \/ signIn.pc = "issued" /\ signIn.token.session = s

(* The server would renew the session for the phone that holds it.         *)
Serves(s) == Live(s) /\ sessions[s].usable

(* The phone tells the user "you've been signed out", and drops the        *)
(* session it holds, only if the server won't serve that session: never    *)
(* because another session, signed in over since, was refused.             *)
ToldOnlyIfEnded ==
    [][stored # None /\ notice' /\ ~ notice => ~ Serves(stored.session)]_vars

(* The phone keeps running and its storage answers; the app makes          *)
(* requests, which are rejected once the access token has expired; no      *)
(* refresh is waited for longer than AUTH_REQUEST_TIMEOUT_MS; and the      *)
(* network is not down for ever: again and again an answer gets through.   *)
Fairness ==
    /\ WF_vars(Restore) /\ WF_vars(Refresh) /\ WF_vars(Storage)
    /\ WF_vars(RefreshStart)
    /\ WF_vars(RefreshUnanswered)
    /\ SF_vars(ServerRotates)
    /\ SF_vars(RefreshRefused)

FairSpec == Spec /\ Fairness

(* A phone whose session was ended elsewhere finds out: it drops the       *)
(* session, whatever answers are lost on the way.                          *)
EndedIsNoticed ==
    \A s \in Sessions :
        stored # None /\ stored.session = s /\ ~ Live(s)
            ~> ~ (stored # None /\ stored.session = s)
=============================================================================

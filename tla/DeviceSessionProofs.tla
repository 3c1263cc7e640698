------------------------ MODULE DeviceSessionProofs ------------------------
(***************************************************************************)
(* What TLAPS proves of DeviceSession, for any number of sessions and any  *)
(* bound on their secrets.                                                 *)
(***************************************************************************)
EXTENDS DeviceSession, TLAPS

-----------------------------------------------------------------------------
(* Types. TypeOK is not inductive alone: a sign-in whose write fails tells *)
(* the server of its session, so a write of a sign-in in the queue needs   *)
(* the sign-in that waits for it.                                          *)

SignInWaits ==
    \A i \in 1..Len(queue) : queue[i].owner = "signIn" =>
        /\ signIn.pc = "writing"
        /\ \A j \in 1..Len(queue) : queue[j].owner = "signIn" => i = j

TypeInv == TypeOK /\ SignInWaits

LEMMA OpTyped ==
    /\ Forget \in OpType
    /\ \A t \in Token : Op("refresh", t) \in OpType /\ Op("signIn", t) \in OpType
BY DeviceAssumption DEF Forget, Op, OpType

LEMMA RowsTyped == Unused \in RowType /\ Issued \in RowType /\ Gone \in RowType
BY DeviceAssumption DEF Unused, Issued, Gone, Row, RowType

LEMMA EnqueueKeeps ==
    ASSUME queue \in Seq(OpType), NEW op \in OpType
    PROVE  /\ Enqueue(op) \in Seq(OpType)
           /\ Len(Enqueue(op)) = Len(queue) + 1
           /\ \A i \in 1..Len(Enqueue(op)) :
                 Enqueue(op)[i] = IF i \in 1..Len(queue) THEN queue[i] ELSE op
BY DEF Enqueue

LEMMA TailKeeps ==
    ASSUME queue \in Seq(OpType), queue # <<>>
    PROVE  /\ Tail(queue) \in Seq(OpType)
           /\ Len(Tail(queue)) = Len(queue) - 1 /\ Len(queue) \in Nat
           /\ Head(queue) = queue[1] /\ Head(queue) \in OpType /\ 1 \in 1..Len(queue)
           /\ \A i \in 1..Len(Tail(queue)) : Tail(queue)[i] = queue[i + 1]
OBVIOUS

LEMMA TypeInit == Init => TypeInv
<1> SUFFICES ASSUME Init PROVE TypeInv
  OBVIOUS
<1>1. sessions \in [Sessions -> RowType]
  BY RowsTyped DEF Init, RowType
<1>2. restore \in RestoreType /\ refresh \in RefreshType /\ signIn \in SignInType
  BY DEF Init, RestoreReading, RefreshIdle, SignInIdle, RestoreType, RefreshType,
         SignInType, TokenOrNone
<1>3. queue \in Seq(OpType) /\ Len(queue) = 0
  BY DEF Init
<1>4. SignInWaits
  BY <1>3 DEF SignInWaits
<1>5. refresh.pc = "idle" /\ signIn.pc = "idle"
  BY DEF Init, RefreshIdle, SignInIdle
<1> QED
  BY <1>1, <1>2, <1>3, <1>4, <1>5 DEF Init, TypeInv, TypeOK, TokenOrNone, Presenting

-----------------------------------------------------------------------------
LEMMA TypeRotate ==
    ASSUME TypeOK, NEW t \in Token, Rotate(t)
    PROVE  /\ sessions' \in [Sessions -> RowType]
           /\ replayed' \subseteq Sessions
           /\ Renews(t) => Renewal(t) \in Token
<1> USE DeviceAssumption
<1>1. t.session \in Sessions /\ t.secret \in 1..MaxSecrets /\ t.here \in BOOLEAN
  BY DEF Token
<1>2. ASSUME Renews(t)
      PROVE  /\ sessions[t.session].current + 1 \in 1..MaxSecrets
             /\ Renewed(t) \in RowType
  <2>1. sessions[t.session] \in RowType
    BY <1>1 DEF TypeOK
  <2>2. sessions[t.session].current + 1 \in 1..MaxSecrets
    BY <1>2, <2>1 DEF Rotate, RowType
  <2>3. Row("live", sessions[t.session].current + 1, sessions[t.session].current,
            TRUE, TRUE) \in RowType
    BY <2>1, <2>2 DEF Row, RowType
  <2>4. [sessions[t.session] EXCEPT !.current = @ + 1] \in RowType
    BY <2>1, <2>2 DEF RowType
  <2> QED
    BY <2>2, <2>3, <2>4 DEF Renewed
<1>3. ASSUME Renews(t) PROVE Renewal(t) \in Token
  BY <1>1, <1>2, <1>3 DEF Renewal, Token
<1> QED
  BY <1>1, <1>2, <1>3, RowsTyped DEF Rotate, TypeOK

(* The records a call is set to.                                           *)
LEMMA CallsTyped ==
    ASSUME TypeOK
    PROVE  /\ RestoreIdle \in RestoreType /\ RestoreReading \in RestoreType
           /\ Stale(restore) \in RestoreType
           /\ RefreshIdle \in RefreshType /\ RefreshIdle.pc = "idle"
           /\ RefreshStarting \in RefreshType /\ RefreshStarting.pc = "starting"
           /\ Stale(refresh) \in RefreshType /\ Stale(refresh).pc = refresh.pc
           /\ Stale(refresh).token = refresh.token
           /\ Stale(refresh).answer = refresh.answer
           /\ SignInIdle \in SignInType /\ SignInIdle.pc = "idle"
           /\ SignOutStale \in {"idle", "fresh", "stale"}
<1>1. RestoreIdle \in RestoreType /\ RestoreReading \in RestoreType
  BY DEF RestoreIdle, RestoreReading, RestoreType, TokenOrNone
<1>2. Stale(restore) \in RestoreType
  BY DEF TypeOK, Stale, RestoreType
<1>3. RefreshIdle \in RefreshType /\ RefreshIdle.pc = "idle"
  BY DEF RefreshIdle, RefreshType, TokenOrNone
<1>4. RefreshStarting \in RefreshType /\ RefreshStarting.pc = "starting"
  BY <1>3 DEF TypeOK, RefreshStarting, RefreshType
<1>5. /\ Stale(refresh) \in RefreshType /\ Stale(refresh).pc = refresh.pc
      /\ Stale(refresh).token = refresh.token
      /\ Stale(refresh).answer = refresh.answer
  BY DEF TypeOK, Stale, RefreshType
<1>6. SignInIdle \in SignInType /\ SignInIdle.pc = "idle"
  BY DEF SignInIdle, SignInType, TokenOrNone
<1> QED
  BY <1>1, <1>2, <1>3, <1>4, <1>5, <1>6 DEF SignOutStale, TypeOK

(* A call that enqueues a delete, or nothing, leaves the write of a        *)
(* sign-in as it is.                                                       *)
LEMMA ForgetTyped ==
    ASSUME TypeInv, UNCHANGED signIn,
           queue' = Enqueue(Forget) \/ UNCHANGED queue
    PROVE  queue' \in Seq(OpType) /\ SignInWaits'
<1>1. CASE queue' = Enqueue(Forget)
  <2>1. /\ queue' \in Seq(OpType)
        /\ \A i \in 1..Len(queue') :
              queue'[i] = IF i \in 1..Len(queue) THEN queue[i] ELSE Forget
    BY <1>1, OpTyped, EnqueueKeeps DEF TypeInv, TypeOK
  <2>2. Forget.owner # "signIn"
    BY DEF Forget, Op
  <2>3. \A i \in 1..Len(queue') : queue'[i].owner = "signIn" =>
            i \in 1..Len(queue) /\ queue[i].owner = "signIn"
    BY <2>1, <2>2
  <2> QED
    BY <2>1, <2>3 DEF TypeInv, SignInWaits
<1>2. CASE UNCHANGED queue
  BY <1>2 DEF TypeInv, TypeOK, SignInWaits
<1> QED
  BY <1>1, <1>2

LEMMA EndSessionTyped ==
    ASSUME TypeInv, UNCHANGED signIn, EndSession
    PROVE  /\ queue' \in Seq(OpType) /\ SignInWaits'
           /\ access' \in TokenOrNone /\ stored' \in TokenOrNone
           /\ status' \in {"restoring", "unreadable", "signedIn", "signedOut"}
           /\ notice' \in BOOLEAN
           /\ restore' \in RestoreType
           /\ signOut' \in {"idle", "fresh", "stale"}
<1>1. queue' \in Seq(OpType) /\ SignInWaits'
  BY ForgetTyped DEF EndSession, ForgetIfStored
<1> QED
  BY <1>1, CallsTyped DEF EndSession, TypeInv, TokenOrNone

(* The first storage call ends.                                            *)
LEMMA PopTyped ==
    ASSUME TypeInv, queue # <<>>, queue' = Tail(queue)
    PROVE  /\ queue' \in Seq(OpType) /\ Head(queue).value \in TokenOrNone
           /\ Head(queue).owner # "signIn" /\ UNCHANGED signIn => SignInWaits'
           /\ Head(queue).owner = "signIn" =>
                 /\ signIn.pc = "writing"
                 /\ \A i \in 1..Len(queue') : queue'[i].owner # "signIn"
<1> USE TailKeeps DEF TypeInv, TypeOK
<1>1. queue' \in Seq(OpType) /\ Head(queue).value \in TokenOrNone
  BY DEF OpType, Forget, Op, TokenOrNone
<1>2. ASSUME Head(queue).owner # "signIn", UNCHANGED signIn PROVE SignInWaits'
  BY <1>2 DEF SignInWaits
<1>3. ASSUME Head(queue).owner = "signIn"
      PROVE  /\ signIn.pc = "writing"
             /\ \A i \in 1..Len(queue') : queue'[i].owner # "signIn"
  BY <1>3 DEF SignInWaits
<1> QED
  BY <1>1, <1>2, <1>3

(* A write that fails drops the sign-in that waited for it.                *)
LEMMA DropTyped ==
    ASSUME TypeInv, queue # <<>>, Head(queue).owner = "signIn"
    PROVE  /\ signIn.token \in Token
           /\ \A q \in {Tail(queue), Append(Tail(queue), Forget)} :
                 q \in Seq(OpType) /\ \A i \in 1..Len(q) : q[i].owner # "signIn"
<1> DEFINE tail == Tail(queue)
           both == Append(tail, Forget)
<1>1. signIn.token \in Token
  BY TailKeeps DEF TypeInv, TypeOK, SignInWaits
<1>2. tail \in Seq(OpType) /\ \A i \in 1..Len(tail) : tail[i].owner # "signIn"
  BY TailKeeps DEF TypeInv, TypeOK, SignInWaits
<1>3. Forget.owner # "signIn" /\ Forget \in OpType
  BY OpTyped DEF Forget, Op
<1> HIDE DEF tail
<1>4. /\ both \in Seq(OpType)
      /\ \A i \in 1..Len(both) :
            both[i] = IF i \in 1..Len(tail) THEN tail[i] ELSE Forget
  BY <1>2, <1>3
<1>5. \A i \in 1..Len(both) : both[i].owner # "signIn"
  BY <1>2, <1>3, <1>4
<1> QED
  BY <1>1, <1>2, <1>4, <1>5 DEF tail

LEMMA TypeStep == TypeInv /\ [Next]_vars => TypeInv'
<1> SUFFICES ASSUME TypeInv, [Next]_vars PROVE TypeInv'
  OBVIOUS
<1> USE DeviceAssumption, RowsTyped
    DEF TypeInv, TypeOK, TokenOrNone, Presenting,
        serverVars, netVars, stateVars, memVars, storageVars
<1>1. CASE RestoreReads
  <2>1. restore' \in RestoreType
    BY <1>1 DEF RestoreReads, RestoreType
  <2> QED
    BY <1>1, <2>1 DEF RestoreReads, SignInWaits
<1>2. CASE RestoreCannotRead
  BY <1>2, CallsTyped DEF RestoreCannotRead, SignInWaits
<1>3. CASE RestoreOvertaken
  BY <1>3, CallsTyped DEF RestoreOvertaken, SignInWaits
<1>4. CASE RestoreNothing
  <2>1. logouts' \subseteq Sessions
    BY <1>4 DEF RestoreNothing, RestoreType, Token
  <2>2. queue' \in Seq(OpType) /\ SignInWaits'
    BY <1>4, ForgetTyped DEF RestoreNothing
  <2>3. restore' \in RestoreType
    BY <1>4, CallsTyped DEF RestoreNothing
  <2>4. notice' \in BOOLEAN /\ status' = "signedOut"
    BY <1>4 DEF RestoreNothing
  <2> QED
    BY <1>4, <2>1, <2>2, <2>3, <2>4 DEF RestoreNothing
<1>5. CASE RestoreSession
  <2>1. stored' \in TokenOrNone
    BY <1>5 DEF RestoreSession, RestoreType
  <2>2. restore' \in RestoreType
    BY <1>5, CallsTyped DEF RestoreSession
  <2>3. /\ refresh' \in RefreshType
        /\ refresh'.pc \in Presenting => UNCHANGED refresh
    BY <1>5, CallsTyped DEF RestoreSession
  <2>4. notice' \in BOOLEAN /\ status' = "signedIn"
    BY <1>5 DEF RestoreSession
  <2> QED
    BY <1>5, <2>1, <2>2, <2>3, <2>4 DEF RestoreSession, SignInWaits
<1>6. CASE RetryRestore
  BY <1>6, CallsTyped DEF RetryRestore, SignInWaits
<1>7. CASE SkipRestore
  <2>1. notice' \in BOOLEAN /\ status' = "signedOut"
    BY <1>7 DEF SkipRestore
  <2> QED
    BY <1>7, <2>1, CallsTyped DEF SkipRestore, SignInWaits
<1>8. CASE RefreshStart
  BY <1>8, CallsTyped DEF RefreshStart, SignInWaits
<1>9. CASE RefreshAsks
  <2>1. refresh' \in RefreshType
    BY <1>9 DEF RefreshAsks, RefreshType
  <2>2. refresh'.pc = "asked" /\ refresh'.token \in Token
    BY <1>9 DEF RefreshAsks, RefreshType
  <2> QED
    BY <1>9, <2>1, <2>2 DEF RefreshAsks, SignInWaits
<1>10. CASE RefreshHasNothing
  BY <1>10, CallsTyped, EndSessionTyped DEF RefreshHasNothing, ClearIfSame,
     SignInWaits
<1>11. CASE ServerRotates
  <2>1. refresh.token \in Token
    BY <1>11 DEF ServerRotates
  <2>2. /\ sessions' \in [Sessions -> RowType]
        /\ replayed' \subseteq Sessions
        /\ Renews(refresh.token) => Renewal(refresh.token) \in Token
    BY <1>11, <2>1, TypeRotate DEF ServerRotates
  <2>3. /\ refresh' \in RefreshType /\ refresh'.token \in Token
        /\ refresh'.pc \in {"accepted", "writing"} => refresh'.answer \in Token
    BY <1>11, <2>1, <2>2 DEF ServerRotates, RefreshType
  <2> QED
    BY <1>11, <2>2, <2>3 DEF ServerRotates, SignInWaits
<1>12. CASE RefreshUnanswered
  BY <1>12, CallsTyped DEF RefreshUnanswered, SignInWaits
<1>13. CASE RefreshTimesOut
  BY <1>13, CallsTyped DEF RefreshTimesOut, SignInWaits
<1>14. CASE LateArrives
  BY <1>14, CallsTyped, TypeRotate DEF LateArrives, SignInWaits
<1>15. CASE RefreshAccepted
  <2>1. Op("refresh", refresh.answer) \in OpType /\ refresh.answer \in Token
        /\ Op("refresh", refresh.answer).owner = "refresh"
    BY <1>15, OpTyped DEF RefreshAccepted, Op
  <2>2. queue' = Enqueue(Op("refresh", refresh.answer)) /\ UNCHANGED signIn
    BY <1>15 DEF RefreshAccepted
  <2> DEFINE op == Op("refresh", refresh.answer)
  <2> HIDE DEF op
  <2>5. /\ queue' \in Seq(OpType)
        /\ \A i \in 1..Len(queue') :
              queue'[i] = IF i \in 1..Len(queue) THEN queue[i] ELSE op
    BY <2>1, <2>2, EnqueueKeeps DEF op
  <2>6. \A i \in 1..Len(queue') : queue'[i].owner = "signIn" =>
            i \in 1..Len(queue) /\ queue[i].owner = "signIn"
    BY <2>1, <2>5 DEF op
  <2>3. queue' \in Seq(OpType) /\ SignInWaits'
    BY <2>2, <2>5, <2>6 DEF SignInWaits
  <2>4. refresh' \in RefreshType /\ refresh'.pc = "writing"
        /\ refresh'.token \in Token /\ refresh'.answer \in Token
    BY <1>15, <2>1 DEF RefreshAccepted, RefreshType
  <2> QED
    BY <1>15, <2>1, <2>3, <2>4 DEF RefreshAccepted
<1>16. CASE RefreshUnwanted
  BY <1>16, CallsTyped DEF RefreshUnwanted, Token, SignInWaits
<1>17. CASE RefreshRefused
  BY <1>17, CallsTyped, EndSessionTyped DEF RefreshRefused, ClearIfSame, SignInWaits
<1>18. CASE LoginLost
  BY <1>18, CallsTyped DEF LoginLost, SignInWaits
<1>19. CASE SignInReceives
  <2>1. Op("signIn", signIn.token) \in OpType /\ signIn.token \in Token
    BY <1>19, OpTyped DEF SignInReceives
  <2>2. signIn' \in SignInType /\ signIn'.pc = "writing" /\ signIn'.token \in Token
    BY <1>19, <2>1 DEF SignInReceives, SignInType
  <2>3. \A i \in 1..Len(queue) : queue[i].owner # "signIn"
    BY <1>19 DEF SignInReceives, SignInWaits
  <2>4. queue' = Enqueue(Op("signIn", signIn.token))
    BY <1>19 DEF SignInReceives
  <2> DEFINE op == Op("signIn", signIn.token)
  <2> HIDE DEF op
  <2>7. /\ queue' \in Seq(OpType) /\ Len(queue) \in Nat
        /\ Len(queue') = Len(queue) + 1
        /\ \A i \in 1..Len(queue') :
              queue'[i] = IF i \in 1..Len(queue) THEN queue[i] ELSE op
    BY <2>1, <2>4, EnqueueKeeps DEF op
  <2>8. \A i \in 1..Len(queue') :
            queue'[i].owner = "signIn" => i = Len(queue')
    BY <2>3, <2>7
  <2>5. queue' \in Seq(OpType) /\ SignInWaits'
    BY <2>2, <2>7, <2>8 DEF SignInWaits
  <2>6. SessionOf(stored) \subseteq Sessions
    BY DEF SessionOf, Token
  <2> QED
    BY <1>19, <2>1, <2>2, <2>5, <2>6, CallsTyped DEF SignInReceives
<1>20. CASE RefreshWritten
  BY <1>20, CallsTyped, PopTyped DEF RefreshWritten, Lands, Fails, SignInWaits
<1>21. CASE SignInWritten
  BY <1>21, CallsTyped, PopTyped DEF SignInWritten, Lands, SignInWaits
<1>22. CASE SignInNotWritten
  <2>1. queue # <<>> /\ Head(queue).owner = "signIn"
    BY <1>22 DEF SignInNotWritten, Fails
  <2>2. queue' \in Seq(OpType) /\ \A i \in 1..Len(queue') : queue'[i].owner # "signIn"
    BY <1>22, <2>1, DropTyped DEF SignInNotWritten
  <2>3. logouts' \subseteq Sessions
    BY <1>22, <2>1, DropTyped DEF SignInNotWritten, Token
  <2>4. status' \in {"restoring", "unreadable", "signedIn", "signedOut"}
        /\ notice' \in BOOLEAN
    BY <1>22 DEF SignInNotWritten
  <2>5. /\ access' = None /\ stored' = None
        /\ UNCHANGED <<serverVars, late, disk, pending, signedOutOf>>
        /\ signIn' = SignInIdle /\ restore' = Stale(restore)
        /\ refresh' = Stale(refresh) /\ signOut' = SignOutStale
    BY <1>22 DEF SignInNotWritten, Fails
  <2> QED
    BY <2>2, <2>3, <2>4, <2>5, CallsTyped DEF SignInWaits
<1>23. CASE Forgotten
  BY <1>23, CallsTyped, PopTyped DEF Forgotten, Lands, Fails, SignInWaits
<1>24. CASE SignOut
  BY <1>24, CallsTyped, ForgetTyped DEF SignOut, ForgetIfStored, SessionOf,
     Token, SignInWaits
<1>25. CASE SignOutEnds
  BY <1>25, CallsTyped DEF SignOutEnds, SignInWaits
<1>26. CASE Answered
  BY <1>26, CallsTyped DEF Answered, SignInWaits
<1>27. CASE AccountDeleted
  BY <1>27, CallsTyped, ForgetTyped DEF AccountDeleted, ForgetIfStored, SignInWaits
<1>28. CASE StepUpReauth
  BY <1>28, CallsTyped, EndSessionTyped DEF StepUpReauth, SignInWaits
<1>29. CASE DismissEndedNotice
  <2>1. notice' \in BOOLEAN
    BY <1>29 DEF DismissEndedNotice
  <2> QED
    BY <1>29, <2>1 DEF DismissEndedNotice, SignInWaits
<1>30. CASE Kill
  <2>1. disk' \in TokenOrNone
    BY <1>30, TailKeeps DEF Kill, OpType, Forget, Op
  <2>2. late' \in TokenOrNone
    BY <1>30 DEF Kill
  <2>3. queue' \in Seq(OpType) /\ Len(queue') = 0
    BY <1>30 DEF Kill
  <2>4. SignInWaits'
    BY <2>3 DEF SignInWaits
  <2>5. notice' \in BOOLEAN /\ status' = "restoring"
    BY <1>30 DEF Kill
  <2> QED
    BY <1>30, <2>1, <2>2, <2>3, <2>4, <2>5, CallsTyped DEF Kill
<1>31. CASE Reinstall
  <2>1. disk' \in TokenOrNone
    BY <1>31 DEF Reinstall, Token
  <2> QED
    BY <1>31, <2>1 DEF Reinstall, SignInWaits
<1>32. ASSUME NEW s \in Sessions, LoginIssues(s) PROVE TypeInv'
  <2>1. sessions' \in [Sessions -> RowType]
    BY <1>32 DEF LoginIssues
  <2>2. [session |-> s, secret |-> 1, here |-> TRUE] \in Token
    BY <1>32 DEF Token
  <2>3. signIn' \in SignInType /\ signIn'.token \in Token
    BY <1>32, <2>2, CallsTyped DEF LoginIssues, SignInType
  <2>4. \A i \in 1..Len(queue) : queue[i].owner # "signIn"
    BY <1>32 DEF LoginIssues, SignInWaits
  <2> QED
    BY <1>32, <2>1, <2>3, <2>4 DEF LoginIssues, SignInWaits
<1>33. ASSUME NEW s \in Sessions, LogoutArrives(s) PROVE TypeInv'
  BY <1>33 DEF LogoutArrives, SignInWaits
<1>34. ASSUME NEW s \in Sessions, LogoutLost(s) PROVE TypeInv'
  BY <1>34 DEF LogoutLost, SignInWaits
<1>35. ASSUME NEW s \in Sessions, Revoke(s) PROVE TypeInv'
  BY <1>35 DEF Revoke, SignInWaits
<1>36. ASSUME NEW s \in Sessions, GraceEnds(s) PROVE TypeInv'
  <2>1. [sessions[s] EXCEPT !.grace = FALSE] \in RowType
    BY <1>36 DEF RowType
  <2>2. sessions' \in [Sessions -> RowType]
    BY <1>36, <2>1 DEF GraceEnds
  <2> QED
    BY <1>36, <2>2 DEF GraceEnds, SignInWaits
<1>37. ASSUME NEW s \in Sessions, NEW b \in BOOLEAN, SetUsable(s, b) PROVE TypeInv'
  <2>1. [sessions[s] EXCEPT !.usable = b] \in RowType
    BY <1>37 DEF RowType
  <2>2. sessions' \in [Sessions -> RowType]
    BY <1>37, <2>1 DEF SetUsable
  <2> QED
    BY <1>37, <2>2 DEF SetUsable, SignInWaits
<1>38. ASSUME NEW w \in {"reauth", "delete"}, Ask(w) PROVE TypeInv'
  BY <1>38 DEF Ask, SignInWaits
<1>39. CASE UNCHANGED vars
  BY <1>39 DEF vars, SignInWaits
<1> QED
  BY <1>1, <1>2, <1>3, <1>4, <1>5, <1>6, <1>7, <1>8, <1>9, <1>10, <1>11,
     <1>12, <1>13, <1>14, <1>15, <1>16, <1>17, <1>18, <1>19, <1>20, <1>21,
     <1>22, <1>23, <1>24, <1>25, <1>26, <1>27, <1>28, <1>29, <1>30, <1>31,
     <1>32, <1>33, <1>34, <1>35, <1>36, <1>37, <1>38, <1>39
  DEF Next, Restore, Refresh, Storage, Network, User, World

(* Every variable of the server, the phone and the network keeps its type. *)
THEOREM TypeCorrect == Spec => []TypeOK
<1>1. Spec => []TypeInv
  BY TypeInit, TypeStep, PTL DEF Spec
<1>2. TypeInv => TypeOK
  BY DEF TypeInv
<1> QED
  BY <1>1, <1>2, PTL

-----------------------------------------------------------------------------
(* One phone is never mistaken for two. Its tokens are everywhere: in      *)
(* memory, in storage, in calls not made yet, in a read under way. The     *)
(* server forgives one step back only, so all of them must stay within one *)
(* step of the server's secret, whatever has been lost so far; and they do *)
(* because a session's tokens agree whenever a refresh may start.          *)

(* Nothing breaks the phone's word: no request it has given up on arrives, *)
(* no write fails, and the server's day of grace is never over.            *)
Gentle == {"late", "writeFails", "graceEnds"} \intersect Faults = {}

Kept == {t \in Token :
            \/ t = stored \/ t = disk \/ t = restore.found
            \/ \E i \in 1..Len(queue) : queue[i].value = t}

Accepts(t) == Live(t.session) => Known(t)

KeptAccepted == \A t \in Kept : Accepts(t)

(* Only while a new token is being written do a session's tokens differ.   *)
KeptAgree ==
    \A t, u \in Kept : t.session = u.session =>
        \/ t.secret = u.secret
        \/ refresh.pc = "writing" /\ t.session = refresh.token.session

InFlight ==
    /\ refresh.pc \in {"asked", "accepted"} =>
          \A t \in Kept : t.session = refresh.token.session =>
                             t.secret = refresh.token.secret
    /\ refresh.pc = "asked" => Accepts(refresh.token)
    /\ refresh.pc \in {"accepted", "writing"} =>
          /\ refresh.answer.session = refresh.token.session
          /\ Live(refresh.answer.session) =>
                sessions[refresh.answer.session].current = refresh.answer.secret

(* What is called after the write of a new token never restores an old     *)
(* one.                                                                    *)
Newest(t) ==
    t # None /\ t.session = refresh.answer.session => t.secret = refresh.answer.secret

BeingWritten ==
    /\ refresh.pc = "writing" => Newest(stored)
    /\ \A i \in 1..Len(queue) : queue[i].owner = "refresh" =>
          /\ refresh.pc = "writing" /\ queue[i].value = refresh.answer
          /\ \A j \in 1..Len(queue) : j > i =>
                queue[j].owner # "refresh" /\ Newest(queue[j].value)

(* A login's session is its own until the phone receives it.               *)
BrandNew ==
    /\ \A t \in Kept : sessions[t.session].state # "unused"
    /\ refresh.pc \in Presenting => sessions[refresh.token.session].state # "unused"
    /\ signIn.pc = "issued" =>
          /\ signIn.token.secret = 1
          /\ sessions[signIn.token.session].state # "unused"
          /\ Live(signIn.token.session) =>
                sessions[signIn.token.session].current = 1
          /\ \A t \in Kept : t.session # signIn.token.session
          /\ refresh.pc \in Presenting =>
                refresh.token.session # signIn.token.session

(* No session is read while another is being renewed.                      *)
RestoreApart ==
    /\ refresh.pc \in Presenting => restore.pc = "idle" /\ status # "unreadable"
    /\ restore.pc # "stamp" => restore.found = None

SafeInv ==
    /\ replayed = {} /\ late = None
    /\ KeptAccepted /\ KeptAgree /\ InFlight /\ BeingWritten
    /\ BrandNew /\ RestoreApart

Inv == TypeInv /\ SafeInv

-----------------------------------------------------------------------------
(* Steps that make no token: the rows only end or pause, ...               *)
Milder ==
    \A s \in Sessions :
        /\ sessions'[s].state = "live" =>
              /\ sessions[s].state = "live"
              /\ sessions'[s].current = sessions[s].current
              /\ sessions'[s].previous = sessions[s].previous
              /\ sessions'[s].grace = sessions[s].grace
        /\ sessions[s].state # "unused" => sessions'[s].state # "unused"

(* ... the refresh goes on or is given up, ...                             *)
RefreshGoesOn ==
    /\ refresh'.pc = refresh.pc
    /\ refresh'.token = refresh.token
    /\ refresh'.answer = refresh.answer

RefreshGivenUp ==
    /\ refresh.pc # "writing"
    /\ \/ refresh'.pc \in {"idle", "starting"}
       \/ /\ refresh.pc = "asked" /\ refresh'.pc = "refused"
          /\ refresh'.token = refresh.token

(* ... and so does the sign-in.                                            *)
SignInGoesOn ==
    signIn'.pc = "issued" => signIn.pc = "issued" /\ signIn'.token = signIn.token

LEMMA KeptTyped == \A t \in Kept : t \in Token /\ t.session \in Sessions
BY DEF Kept, Token

LEMMA AcceptsKeeps ==
    ASSUME Milder, NEW t \in Token, Accepts(t)
    PROVE  Accepts(t)'
BY DEF Milder, Accepts, Live, Known, IsCurrent, IsPrevious, Token

(* Such a step keeps the invariant if it keeps what is said of the queue   *)
(* and of restore().                                                       *)
LEMMA MilderStep ==
    ASSUME Inv, Kept' \subseteq Kept, Milder, UNCHANGED <<replayed, late>>,
           RefreshGoesOn \/ RefreshGivenUp, SignInGoesOn,
           BeingWritten', RestoreApart'
    PROVE  SafeInv'
<1> USE DEF Inv, SafeInv, RefreshGoesOn, RefreshGivenUp
<1>1. KeptAccepted'
  BY KeptTyped, AcceptsKeeps DEF KeptAccepted
<1>2. KeptAgree'
  BY DEF KeptAgree
<1>3. refresh.pc \in Presenting => refresh.token \in Token
  BY DEF TypeInv, TypeOK
<1>4. refresh.pc \in {"accepted", "writing"} => refresh.answer.session \in Sessions
  BY DEF TypeInv, TypeOK, Token
<1>5. InFlight'
  <2>1. CASE RefreshGivenUp
    BY <2>1 DEF InFlight
  <2>2. CASE RefreshGoesOn
    <3>1. refresh'.pc = "asked" => Accepts(refresh.token)'
      BY <2>2, <1>3, AcceptsKeeps DEF InFlight, Presenting
    <3>2. refresh'.pc \in {"asked", "accepted"} =>
              \A t \in Kept' : t.session = refresh'.token.session =>
                                  t.secret = refresh'.token.secret
      BY <2>2 DEF InFlight
    <3>3. refresh'.pc \in {"accepted", "writing"} =>
            /\ refresh'.answer.session = refresh'.token.session
            /\ Live(refresh.answer.session)' =>
                  sessions'[refresh'.answer.session].current = refresh'.answer.secret
      BY <2>2, <1>4 DEF InFlight, Milder, Live
    <3> QED
      BY <3>1, <3>2, <3>3 DEF InFlight
  <2> QED
    BY <2>1, <2>2
<1>6. BrandNew'
  <2>1. \A t \in Kept' : sessions'[t.session].state # "unused"
    BY KeptTyped DEF BrandNew, Milder
  <2>2. refresh'.pc \in Presenting => sessions'[refresh'.token.session].state # "unused"
    BY <1>3 DEF BrandNew, Milder, Presenting, Token
  <2>3. ASSUME signIn'.pc = "issued"
        PROVE  /\ signIn'.token.secret = 1
               /\ sessions'[signIn'.token.session].state # "unused"
               /\ Live(signIn.token.session)' =>
                     sessions'[signIn'.token.session].current = 1
               /\ \A t \in Kept' : t.session # signIn'.token.session
               /\ refresh'.pc \in Presenting =>
                     refresh'.token.session # signIn'.token.session
    <3>1. /\ signIn.pc = "issued" /\ signIn'.token = signIn.token
          /\ signIn.token.session \in Sessions
      BY <2>3 DEF SignInGoesOn, TypeInv, TypeOK, Token
    <3> QED
      BY <3>1 DEF BrandNew, Milder, Live, Presenting
  <2> QED
    BY <2>1, <2>2, <2>3 DEF BrandNew
<1> QED
  BY <1>1, <1>2, <1>5, <1>6

-----------------------------------------------------------------------------
(* The queue and the tokens in it.                                         *)

(* A delete at the end of the queue, or none.                              *)
LEMMA ForgetKeeps ==
    ASSUME Inv, queue' = Enqueue(Forget) \/ UNCHANGED queue
    PROVE  /\ \A i \in 1..Len(queue') :
                 \/ i \in 1..Len(queue) /\ queue'[i] = queue[i]
                 \/ queue'[i] = Forget
<1>1. CASE queue' = Enqueue(Forget)
  BY <1>1, OpTyped, EnqueueKeeps DEF Inv, TypeInv, TypeOK
<1>2. CASE UNCHANGED queue
  BY <1>2
<1> QED
  BY <1>1, <1>2

LEMMA ForgetKept ==
    ASSUME Inv, queue' = Enqueue(Forget) \/ UNCHANGED queue,
           stored' \in {stored, None, restore.found}, UNCHANGED disk,
           restore'.found \in {restore.found, None, disk}
    PROVE  Kept' \subseteq Kept
<1>1. Forget.value = None
  BY DEF Forget, Op
<1>2. \A t \in Token : t # None
  BY DeviceAssumption
<1> QED
  BY <1>1, <1>2, ForgetKeeps DEF Kept

LEMMA ForgetWritten ==
    ASSUME Inv, queue' = Enqueue(Forget) \/ UNCHANGED queue,
           (RefreshGoesOn /\ stored' \in {stored, None}) \/ RefreshGivenUp
    PROVE  BeingWritten'
<1> USE DEF Inv, SafeInv
<1>1. Forget.owner # "refresh" /\ Forget.value = None
  BY DEF Forget, Op
<1>3. CASE RefreshGivenUp
  <2>1. \A i \in 1..Len(queue) : queue[i].owner # "refresh"
    BY <1>3 DEF RefreshGivenUp, BeingWritten
  <2> QED
    BY <1>3, <1>1, <2>1, ForgetKeeps DEF RefreshGivenUp, BeingWritten
<1>4. CASE RefreshGoesOn /\ stored' \in {stored, None}
  BY <1>4, <1>1, ForgetKeeps DEF RefreshGoesOn, BeingWritten, Newest
<1> QED
  BY <1>3, <1>4

(* The first storage call lands.                                           *)
LEMMA PopKept ==
    ASSUME Inv, queue # <<>>, queue' = Tail(queue),
           disk' \in {disk, Head(queue).value}, UNCHANGED <<stored, restore>>
    PROVE  Kept' \subseteq Kept
<1>1. /\ \A i \in 1..Len(queue') : i + 1 \in 1..Len(queue) /\ queue'[i] = queue[i + 1]
      /\ 1 \in 1..Len(queue) /\ disk' \in {disk, queue[1].value}
  BY TailKeeps DEF Inv, TypeInv, TypeOK
<1> QED
  BY <1>1 DEF Kept

LEMMA PopWritten ==
    ASSUME Inv, queue # <<>>, queue' = Tail(queue), Head(queue).owner # "refresh",
           RefreshGoesOn, UNCHANGED stored
    PROVE  BeingWritten'
<1>1. \A i \in 1..Len(queue') : i + 1 \in 1..Len(queue) /\ queue'[i] = queue[i + 1]
  BY TailKeeps DEF Inv, TypeInv, TypeOK
<1> QED
  BY <1>1 DEF Inv, SafeInv, BeingWritten, Newest, RefreshGoesOn

-----------------------------------------------------------------------------
(* The steps of a refresh.                                                 *)

LEMMA SafeRefreshAsks ==
    ASSUME Inv, RefreshAsks
    PROVE  SafeInv'
<1> USE DEF Inv, SafeInv
<1>1. /\ UNCHANGED <<sessions, replayed, late, stored, disk, queue, restore,
                      signIn, status>>
      /\ refresh.pc = "starting" /\ restore.pc = "idle" /\ status # "unreadable"
      /\ stored # None
  BY DEF RefreshAsks, serverVars, netVars, stateVars, memVars, storageVars
<1>2. refresh'.pc = "asked" /\ refresh'.token = stored
  BY DEF RefreshAsks, TypeInv, TypeOK, RefreshType
<1>3. stored \in Kept /\ stored \in Token
  BY <1>1 DEF Kept, TypeInv, TypeOK, TokenOrNone
<1>4. UNCHANGED Kept
  BY <1>1 DEF Kept
<1>5. KeptAccepted' /\ Accepts(stored)'
  BY <1>1, <1>3, <1>4 DEF KeptAccepted, Accepts, Live, Known, IsCurrent, IsPrevious
<1>6. /\ KeptAgree'
      /\ \A t \in Kept' : t.session = stored.session => t.secret = stored.secret
  BY <1>1, <1>3, <1>4 DEF KeptAgree
<1>7. InFlight'
  BY <1>1, <1>2, <1>5, <1>6 DEF InFlight, Accepts, Live, Known, IsCurrent,
     IsPrevious
<1>8. BeingWritten'
  BY <1>1, <1>2 DEF BeingWritten
<1>9. BrandNew'
  BY <1>1, <1>2, <1>3, <1>4 DEF BrandNew, Presenting, Live
<1>10. RestoreApart'
  BY <1>1, <1>2 DEF RestoreApart
<1> QED
  BY <1>1, <1>5, <1>6, <1>7, <1>8, <1>9, <1>10

LEMMA SafeServerRotates ==
    ASSUME Inv, ServerRotates, Renews(refresh.token)
    PROVE  SafeInv'
<1> USE DEF Inv, SafeInv
<1> DEFINE t == refresh.token
           s == refresh.token.session
<1>1. /\ UNCHANGED <<late, stored, disk, queue, restore, signIn, status>>
      /\ refresh.pc = "asked" /\ Rotate(t)
  BY DEF ServerRotates, netVars, stateVars, memVars, storageVars
<1>2. t \in Token /\ s \in Sessions /\ sessions \in [Sessions -> RowType]
  BY <1>1 DEF TypeInv, TypeOK, Presenting, Token
<1>3. /\ sessions' = [sessions EXCEPT ![s] = Renewed(t)]
      /\ replayed' = replayed
  BY <1>1, <1>2 DEF Rotate, Renews
<1>4. /\ Renewed(t).state = "live" /\ Renewed(t).current = sessions[s].current + 1
      /\ Renewed(t).previous = t.secret /\ Renewed(t).grace = TRUE
  BY <1>2 DEF Renews, Renewed, Row, RowType, Live, Known, IsCurrent, IsPrevious
<1>5. /\ refresh'.pc = "accepted" /\ refresh'.token = t
      /\ refresh'.answer.session = s
      /\ refresh'.answer.secret = sessions[s].current + 1
  BY <1>2 DEF ServerRotates, TypeInv, TypeOK, RefreshType, Renewal, Token
<1>6. UNCHANGED Kept
  BY <1>1 DEF Kept
<1>7. \A u \in Kept : u.session = s => u.secret = t.secret
  BY <1>1 DEF InFlight
<1>8. KeptAccepted'
  <2> SUFFICES ASSUME NEW u \in Kept PROVE Accepts(u)'
    BY <1>6 DEF KeptAccepted
  <2>1. CASE u.session = s
    BY <2>1, <1>2, <1>3, <1>4, <1>7 DEF Accepts, Live, Known, IsCurrent, IsPrevious
  <2>2. CASE u.session # s
    BY <2>2, <1>2, <1>3, KeptTyped
    DEF KeptAccepted, Accepts, Live, Known, IsCurrent, IsPrevious
  <2> QED
    BY <2>1, <2>2
<1>9. KeptAgree'
  BY <1>1, <1>6 DEF KeptAgree
<1>10. InFlight'
  BY <1>2, <1>3, <1>4, <1>5, <1>6, <1>7 DEF InFlight
<1>11. BeingWritten'
  BY <1>1, <1>5 DEF BeingWritten
<1>12. BrandNew'
  <2>1. \A u \in Kept : sessions'[u.session].state # "unused"
    BY <1>2, <1>3, <1>4, KeptTyped DEF BrandNew
  <2>2. sessions'[s].state # "unused"
    BY <1>2, <1>3, <1>4
  <2>3. ASSUME signIn.pc = "issued"
        PROVE  /\ signIn.token.session \in Sessions /\ signIn.token.session # s
               /\ sessions'[signIn.token.session] = sessions[signIn.token.session]
    BY <2>3, <1>1, <1>2, <1>3 DEF BrandNew, TypeInv, TypeOK, Token, Presenting
  <2> QED
    BY <2>1, <2>2, <2>3, <1>1, <1>5, <1>6 DEF BrandNew, Live
<1>13. RestoreApart'
  BY <1>1, <1>5 DEF RestoreApart, Presenting
<1> QED
  BY <1>1, <1>3, <1>8, <1>9, <1>10, <1>11, <1>12, <1>13

LEMMA SafeRefreshAccepted ==
    ASSUME Inv, RefreshAccepted
    PROVE  SafeInv'
<1> USE DEF Inv, SafeInv
<1> DEFINE answer == refresh.answer
           op == Op("refresh", answer)
<1>1. /\ UNCHANGED <<sessions, replayed, late, disk, restore, signIn, status>>
      /\ refresh.pc = "accepted" /\ stored' = answer /\ queue' = Enqueue(op)
  BY DEF RefreshAccepted, serverVars, netVars, stateVars
<1>2. /\ refresh'.pc = "writing" /\ refresh'.token = refresh.token
      /\ refresh'.answer = answer
  BY DEF RefreshAccepted, TypeInv, TypeOK, RefreshType
<1>3. /\ answer \in Token /\ answer.session \in Sessions
      /\ answer.session = refresh.token.session
      /\ Live(answer.session) => sessions[answer.session].current = answer.secret
  BY <1>1 DEF TypeInv, TypeOK, Token, InFlight
<1>4. op.owner = "refresh" /\ op.value = answer
  BY DEF Op
<1>5. /\ Len(queue') = Len(queue) + 1 /\ Len(queue) \in Nat
      /\ \A i \in 1..Len(queue') :
            queue'[i] = IF i \in 1..Len(queue) THEN queue[i] ELSE op
  BY <1>1, <1>3, OpTyped, EnqueueKeeps DEF TypeInv, TypeOK
<1> HIDE DEF op
<1>6. Kept' \subseteq Kept \union {answer}
  BY <1>1, <1>4, <1>5 DEF Kept
<1>7. Accepts(answer)
  BY <1>3 DEF Accepts, Known, IsCurrent
<1>8. KeptAccepted'
  BY <1>1, <1>6, <1>7 DEF KeptAccepted, Accepts, Live, Known, IsCurrent, IsPrevious
<1>9. KeptAgree'
  <2> SUFFICES ASSUME NEW t \in Kept', NEW u \in Kept', t.session = u.session
               PROVE  \/ t.secret = u.secret
                      \/ t.session = refresh.token.session
    BY <1>2 DEF KeptAgree
  <2>1. CASE t = answer \/ u = answer
    BY <2>1, <1>3
  <2>2. CASE t \in Kept /\ u \in Kept
    BY <2>2, <1>1 DEF KeptAgree
  <2> QED
    BY <2>1, <2>2, <1>6
<1>10. InFlight'
  BY <1>1, <1>2, <1>3 DEF InFlight, Live
<1>11. BeingWritten'
  <2>1. \A i \in 1..Len(queue) : queue[i].owner # "refresh"
    BY <1>1 DEF BeingWritten
  <2>2. ASSUME NEW i \in 1..Len(queue'), queue'[i].owner = "refresh"
        PROVE  i = Len(queue') /\ queue'[i].value = answer
    BY <2>1, <2>2, <1>4, <1>5
  <2> QED
    BY <2>2, <1>1, <1>2, <1>5 DEF BeingWritten, Newest
<1>12. BrandNew'
  BY <1>1, <1>2, <1>3, <1>6 DEF BrandNew, Live, Presenting
<1>13. RestoreApart'
  BY <1>1, <1>2 DEF RestoreApart, Presenting
<1> QED
  BY <1>1, <1>8, <1>9, <1>10, <1>11, <1>12, <1>13

LEMMA SafeRefreshWritten ==
    ASSUME Inv, Gentle, RefreshWritten
    PROVE  SafeInv'
<1> USE DEF Inv, SafeInv
<1>1. /\ UNCHANGED <<sessions, replayed, late, stored, restore, signIn>>
      /\ queue # <<>> /\ Head(queue).owner = "refresh"
      /\ queue' = Tail(queue) /\ disk' = Head(queue).value
      /\ refresh'.pc = "idle"
  BY CallsTyped
  DEF RefreshWritten, Gentle, Lands, Fails, TypeInv,
      serverVars, netVars, memVars
<1>2. /\ 1 \in 1..Len(queue) /\ Head(queue) = queue[1] /\ Len(queue) \in Nat
      /\ Len(queue') = Len(queue) - 1
      /\ \A i \in 1..Len(queue') : i + 1 \in 1..Len(queue) /\ queue'[i] = queue[i + 1]
  BY <1>1, TailKeeps DEF TypeInv, TypeOK
<1>3. /\ refresh.pc = "writing" /\ disk' = refresh.answer /\ Newest(stored)
      /\ \A i \in 1..Len(queue') :
            queue'[i].owner # "refresh" /\ Newest(queue'[i].value)
  BY <1>1, <1>2 DEF BeingWritten
<1>4. restore.found = None
  BY <1>3 DEF RestoreApart, Presenting
<1>5. Kept' \subseteq Kept
  BY <1>1, PopKept
<1>6. KeptAccepted'
  BY <1>1, <1>5 DEF KeptAccepted, Accepts, Live, Known, IsCurrent, IsPrevious
<1>7. \A t \in Kept' : t.session = refresh.answer.session =>
                          t.secret = refresh.answer.secret
  <2>1. \A t \in Token : t # None
    BY DeviceAssumption
  <2> QED
    BY <2>1, <1>1, <1>3, <1>4 DEF Kept, Newest
<1>8. KeptAgree'
  <2>1. refresh.answer.session = refresh.token.session
    BY <1>3 DEF InFlight
  <2> QED
    BY <2>1, <1>5, <1>7 DEF KeptAgree
<1>9. InFlight' /\ BeingWritten'
  BY <1>1, <1>3 DEF InFlight, BeingWritten
<1>10. BrandNew'
  BY <1>1, <1>5 DEF BrandNew, Live, Presenting
<1>11. RestoreApart'
  BY <1>1 DEF RestoreApart, Presenting
<1> QED
  BY <1>1, <1>6, <1>8, <1>9, <1>10, <1>11

-----------------------------------------------------------------------------
(* The steps of a sign-in.                                                 *)

LEMMA SafeLoginIssues ==
    ASSUME Inv, NEW s \in Sessions, LoginIssues(s)
    PROVE  SafeInv'
<1> USE DEF Inv, SafeInv
<1>1. /\ UNCHANGED <<replayed, late, stored, disk, queue, restore, refresh, status>>
      /\ sessions[s].state = "unused"
      /\ sessions' = [sessions EXCEPT ![s] = Issued]
  BY DEF LoginIssues, Unused, Row, netVars, stateVars, memVars, storageVars
<1>2. Issued.state = "live" /\ Issued.current = 1
  BY DEF Issued, Row
<1>3. sessions \in [Sessions -> RowType]
  BY DEF TypeInv, TypeOK
<1>4. signIn'.token.session = s /\ signIn'.token.secret = 1
  BY DEF LoginIssues, SignInIdle
<1>5. UNCHANGED Kept
  BY <1>1 DEF Kept
<1>6. \A t \in Kept : t.session # s /\ sessions'[t.session] = sessions[t.session]
  BY <1>1, <1>3, KeptTyped DEF BrandNew
<1>7. refresh.pc \in Presenting =>
          /\ refresh.token.session # s /\ refresh.token.session \in Sessions
          /\ sessions'[refresh.token.session] = sessions[refresh.token.session]
  BY <1>1, <1>3 DEF BrandNew, TypeInv, TypeOK, Token
<1>8. KeptAccepted'
  BY <1>5, <1>6 DEF KeptAccepted, Accepts, Live, Known, IsCurrent, IsPrevious
<1>9. KeptAgree' /\ BeingWritten' /\ RestoreApart'
  BY <1>1, <1>5 DEF KeptAgree, BeingWritten, Newest, RestoreApart
<1>10. InFlight'
  BY <1>1, <1>5, <1>7
  DEF InFlight, Presenting, Accepts, Live, Known, IsCurrent, IsPrevious
<1>11. BrandNew'
  BY <1>1, <1>2, <1>3, <1>4, <1>5, <1>6, <1>7 DEF BrandNew
<1> QED
  BY <1>1, <1>8, <1>9, <1>10, <1>11

LEMMA SafeSignInReceives ==
    ASSUME Inv, SignInReceives
    PROVE  SafeInv'
<1> USE DEF Inv, SafeInv
<1> DEFINE new == signIn.token
           op == Op("signIn", new)
<1>1. /\ UNCHANGED <<sessions, replayed, late, disk, status>>
      /\ signIn.pc = "issued" /\ stored' = new /\ queue' = Enqueue(op)
  BY DEF SignInReceives, serverVars, stateVars
<1>2. /\ RefreshGoesOn /\ signIn'.pc = "writing"
      /\ restore'.pc = restore.pc /\ restore'.found = restore.found
  BY DEF SignInReceives, Stale, RefreshGoesOn, TypeInv, TypeOK, RefreshType,
         RestoreType, SignInType
<1>3. new \in Token /\ new.session \in Sessions
  BY <1>1 DEF TypeInv, TypeOK, Token
<1>4. op.owner # "refresh" /\ op.value = new
  BY DEF Op
<1>5. /\ Len(queue') = Len(queue) + 1 /\ Len(queue) \in Nat
      /\ \A i \in 1..Len(queue') :
            queue'[i] = IF i \in 1..Len(queue) THEN queue[i] ELSE op
  BY <1>1, <1>3, OpTyped, EnqueueKeeps DEF TypeInv, TypeOK
<1> HIDE DEF op
<1>6. Kept' \subseteq Kept \union {new}
  BY <1>1, <1>2, <1>4, <1>5 DEF Kept
<1>7. /\ \A t \in Kept : t.session # new.session
      /\ refresh.pc \in Presenting => refresh.token.session # new.session
      /\ sessions[new.session].state # "unused"
      /\ Accepts(new)
  BY <1>1 DEF BrandNew, Accepts, Known, IsCurrent
<1>8. KeptAccepted'
  BY <1>1, <1>6, <1>7 DEF KeptAccepted, Accepts, Live, Known, IsCurrent, IsPrevious
<1>9. KeptAgree'
  BY <1>2, <1>6, <1>7 DEF KeptAgree, RefreshGoesOn
<1>10. InFlight'
  BY <1>1, <1>2, <1>6, <1>7
  DEF InFlight, RefreshGoesOn, Presenting, Accepts, Live, Known, IsCurrent, IsPrevious
<1>11. BeingWritten'
  <2>1. refresh.pc = "writing" => new.session # refresh.answer.session
    BY <1>7 DEF InFlight, Presenting
  <2>2. refresh'.pc = "writing" => Newest(stored)'
    BY <2>1, <1>1, <1>2 DEF Newest, RefreshGoesOn
  <2>3. ASSUME NEW i \in 1..Len(queue'), queue'[i].owner = "refresh"
        PROVE  /\ refresh'.pc = "writing" /\ queue'[i].value = refresh'.answer
               /\ \A j \in 1..Len(queue') : j > i =>
                     queue'[j].owner # "refresh" /\ Newest(queue[j].value)'
    <3>1. i \in 1..Len(queue) /\ queue'[i] = queue[i]
      BY <2>3, <1>4, <1>5
    <3>2. refresh.pc = "writing" /\ queue[i].value = refresh.answer
      BY <2>3, <3>1 DEF BeingWritten
    <3>3. ASSUME NEW j \in 1..Len(queue'), j > i
          PROVE  queue'[j].owner # "refresh" /\ Newest(queue[j].value)'
      <4>1. CASE j \in 1..Len(queue)
        BY <4>1, <3>1, <3>3, <2>3, <1>2, <1>5 DEF BeingWritten,
           Newest, RefreshGoesOn
      <4>2. CASE queue'[j] = op
        BY <4>2, <2>1, <3>2, <1>2, <1>4 DEF Newest, RefreshGoesOn
      <4> QED
        BY <4>1, <4>2, <1>5
    <3> QED
      BY <3>1, <3>2, <3>3, <1>2 DEF RefreshGoesOn
  <2> QED
    BY <2>2, <2>3 DEF BeingWritten
<1>12. BrandNew'
  BY <1>1, <1>2, <1>6, <1>7 DEF BrandNew, RefreshGoesOn
<1>13. RestoreApart'
  BY <1>1, <1>2 DEF RestoreApart, RefreshGoesOn
<1> QED
  BY <1>1, <1>8, <1>9, <1>10, <1>11, <1>12, <1>13

-----------------------------------------------------------------------------
(* The app stops, and is installed again.                                  *)

LEMMA SafeKill ==
    ASSUME Inv, Gentle, Kill
    PROVE  SafeInv'
<1> USE DEF Inv, SafeInv
<1>1. /\ UNCHANGED <<sessions, replayed>> /\ late' = None
      /\ stored' = None /\ queue' = <<>>
      /\ restore'.pc = "reading" /\ restore'.found = None
      /\ refresh'.pc = "idle" /\ signIn'.pc = "idle"
  BY DEF Kill, Gentle, serverVars, RestoreReading, RefreshIdle, SignInIdle
<1>2. Kept' \subseteq {disk'}
  <2>1. \A t \in Token : t # None
    BY DeviceAssumption
  <2> QED
    BY <2>1, <1>1 DEF Kept
<1>3. Kept' \subseteq Kept
  BY <1>2, TailKeeps DEF Kept, Kill, TypeInv, TypeOK
<1>4. KeptAccepted'
  BY <1>1, <1>3 DEF KeptAccepted, Accepts, Live, Known, IsCurrent, IsPrevious
<1>5. KeptAgree'
  BY <1>2 DEF KeptAgree
<1>6. InFlight' /\ BeingWritten' /\ RestoreApart'
  BY <1>1 DEF InFlight, BeingWritten, RestoreApart, Presenting
<1>7. BrandNew'
  BY <1>1, <1>3 DEF BrandNew, Presenting
<1> QED
  BY <1>1, <1>4, <1>5, <1>6, <1>7

LEMMA SafeReinstall ==
    ASSUME Inv, Reinstall
    PROVE  SafeInv'
<1> USE DEF Inv, SafeInv
<1>1. /\ UNCHANGED <<sessions, replayed, late, stored, queue, restore,
                      refresh, signIn, status>>
      /\ refresh.pc = "idle" /\ signIn.pc = "idle"
      /\ disk \in Token /\ disk'.session = disk.session /\ disk'.secret = disk.secret
  BY DEF Reinstall, RefreshIdle, SignInIdle, serverVars, netVars, stateVars,
     memVars,
         TypeInv, TypeOK, TokenOrNone, Token
<1>2. \A t \in Kept' : t \in Kept \/ t = disk'
  BY <1>1 DEF Kept
<1>3. disk \in Kept
  BY <1>1 DEF Kept
<1>4. \A t \in Kept' : \E u \in Kept : u.session = t.session /\ u.secret = t.secret
  BY <1>1, <1>2, <1>3
<1>5. KeptAccepted'
  BY <1>1, <1>4 DEF KeptAccepted, Accepts, Live, Known, IsCurrent, IsPrevious
<1>6. KeptAgree'
  BY <1>1, <1>4 DEF KeptAgree
<1>7. InFlight' /\ BeingWritten' /\ RestoreApart'
  BY <1>1 DEF InFlight, BeingWritten, RestoreApart, Newest, Presenting
<1>8. BrandNew'
  BY <1>1, <1>4 DEF BrandNew, Presenting
<1> QED
  BY <1>1, <1>5, <1>6, <1>7, <1>8

-----------------------------------------------------------------------------
(* The invariant of the safety theorem.                                    *)

LEMMA SafeInit == Init => SafeInv
<1> SUFFICES ASSUME Init PROVE SafeInv
  OBVIOUS
<1>1. /\ refresh.pc = "idle" /\ signIn.pc = "idle" /\ restore.found = None
      /\ replayed = {} /\ late = None /\ queue = <<>> /\ stored = None /\ disk = None
  BY DEF Init, RefreshIdle, SignInIdle, RestoreReading
<1>2. Kept = {}
  BY <1>1, DeviceAssumption DEF Kept
<1> QED
  BY <1>1, <1>2 DEF SafeInv, KeptAccepted, KeptAgree, InFlight, BeingWritten,
                    BrandNew, RestoreApart, Presenting

(* A step that makes no token and lets nothing new be kept.                *)
LEMMA QuietStep ==
    ASSUME Inv, UNCHANGED <<sessions, replayed, late, disk>>,
           queue' = Enqueue(Forget) \/ UNCHANGED queue,
           \/ RefreshGoesOn /\ stored' \in {stored, None}
           \/ RefreshGivenUp /\ stored' \in {stored, None, restore.found},
           SignInGoesOn,
           restore'.found \in {restore.found, None, disk},
           RestoreApart'
    PROVE  SafeInv'
<1>1. Milder
  BY DEF Milder
<1>2. Kept' \subseteq Kept
  BY ForgetKept
<1>3. BeingWritten'
  BY ForgetWritten
<1> QED
  BY <1>1, <1>2, <1>3, MilderStep

(* A session of the server ends or pauses.                                 *)
LEMMA RowStep ==
    ASSUME Inv, Milder,
           UNCHANGED <<replayed, late, status, stored, disk, queue,
                       restore, refresh, signIn>>
    PROVE  SafeInv'
<1>1. Kept' \subseteq Kept
  BY DEF Kept
<1>2. RefreshGoesOn /\ SignInGoesOn
  BY DEF RefreshGoesOn, SignInGoesOn
<1>3. BeingWritten' /\ RestoreApart'
  BY DEF Inv, SafeInv, BeingWritten, Newest, RestoreApart
<1> QED
  BY <1>1, <1>2, <1>3, MilderStep

LEMMA StaleGoesOn ==
    ASSUME Inv
    PROVE  /\ Stale(restore).pc = restore.pc /\ Stale(restore).found = restore.found
           /\ Stale(refresh).pc = refresh.pc /\ Stale(refresh).token = refresh.token
           /\ Stale(refresh).answer = refresh.answer
           /\ RestoreIdle.pc = "idle" /\ RestoreIdle.found = None
           /\ RestoreReading.pc = "reading" /\ RestoreReading.found = None
           /\ RefreshIdle.pc = "idle" /\ RefreshStarting.pc = "starting"
           /\ SignInIdle.pc = "idle"
BY CallsTyped DEF Inv, TypeInv, TypeOK, Stale, RestoreType, RestoreIdle,
   RestoreReading

LEMMA SafeStep ==
    ASSUME Gentle, Inv, [Next]_vars
    PROVE  SafeInv'
<1> USE DEF serverVars, netVars, stateVars, memVars, storageVars
<1>1. CASE RestoreReads
  BY <1>1, QuietStep, StaleGoesOn
  DEF RestoreReads, RefreshGoesOn, RefreshGivenUp, SignInGoesOn,
      Inv, SafeInv, RestoreApart, Presenting, TypeInv, TypeOK, RestoreType
<1>2. CASE RestoreCannotRead
  BY <1>2, QuietStep, StaleGoesOn
  DEF RestoreCannotRead, RefreshGoesOn, RefreshGivenUp, SignInGoesOn,
      Inv, SafeInv, RestoreApart, Presenting
<1>3. CASE RestoreOvertaken
  BY <1>3, QuietStep, StaleGoesOn
  DEF RestoreOvertaken, RefreshGoesOn, RefreshGivenUp, SignInGoesOn,
      Inv, SafeInv, RestoreApart, Presenting
<1>4. CASE RestoreNothing
  BY <1>4, QuietStep, StaleGoesOn
  DEF RestoreNothing, RefreshGoesOn, RefreshGivenUp, SignInGoesOn,
      Inv, SafeInv, RestoreApart, Presenting
<1>5. CASE RestoreSession
  <2>1. /\ restore.pc = "stamp" /\ stored' = restore.found /\ restore' = RestoreIdle
        /\ refresh' = IF refresh.pc = "idle" THEN RefreshStarting ELSE refresh
        /\ UNCHANGED <<sessions, replayed, late, disk, queue, signIn>>
    BY <1>5 DEF RestoreSession
  <2>2. refresh.pc \in {"idle", "starting"}
    BY <2>1 DEF Inv, SafeInv, RestoreApart, TypeInv, TypeOK, RefreshType
  <2>3. RefreshGivenUp /\ refresh'.pc = "starting"
    BY <2>1, <2>2, StaleGoesOn DEF RefreshGivenUp
  <2>4. RestoreApart'
    BY <2>1, <2>3, StaleGoesOn DEF RestoreApart, Presenting
  <2> QED
    BY <2>1, <2>3, <2>4, StaleGoesOn, QuietStep DEF SignInGoesOn
<1>6. CASE RetryRestore
  BY <1>6, QuietStep, StaleGoesOn
  DEF RetryRestore, RefreshGoesOn, RefreshGivenUp, SignInGoesOn,
      Inv, SafeInv, RestoreApart, Presenting
<1>7. CASE SkipRestore
  BY <1>7, QuietStep, StaleGoesOn
  DEF SkipRestore, RefreshGoesOn, RefreshGivenUp, SignInGoesOn,
      Inv, SafeInv, RestoreApart, Presenting
<1>8. CASE RefreshStart
  BY <1>8, QuietStep, StaleGoesOn
  DEF RefreshStart, RefreshGoesOn, RefreshGivenUp, SignInGoesOn,
      Inv, SafeInv, RestoreApart, Presenting
<1>9. CASE RefreshHasNothing
  BY <1>9, QuietStep, StaleGoesOn
  DEF RefreshHasNothing, ClearIfSame, EndSession, ForgetIfStored,
      RefreshGoesOn, RefreshGivenUp, SignInGoesOn,
      Inv, SafeInv, RestoreApart, Presenting
<1>10. CASE RefreshUnanswered
  BY <1>10, QuietStep, StaleGoesOn
  DEF RefreshUnanswered, RefreshGoesOn, RefreshGivenUp, SignInGoesOn,
      Inv, SafeInv, RestoreApart, Presenting
<1>11. CASE RefreshUnwanted
  BY <1>11, QuietStep, StaleGoesOn
  DEF RefreshUnwanted, RefreshGoesOn, RefreshGivenUp, SignInGoesOn,
      Inv, SafeInv, RestoreApart, Presenting
<1>12. CASE RefreshRefused
  BY <1>12, QuietStep, StaleGoesOn
  DEF RefreshRefused, ClearIfSame, EndSession, ForgetIfStored,
      RefreshGoesOn, RefreshGivenUp, SignInGoesOn,
      Inv, SafeInv, RestoreApart, Presenting
<1>13. CASE LoginLost
  BY <1>13, QuietStep, StaleGoesOn
  DEF LoginLost, RefreshGoesOn, RefreshGivenUp, SignInGoesOn,
      Inv, SafeInv, RestoreApart, Presenting
<1>14. CASE SignOut
  BY <1>14, QuietStep, StaleGoesOn
  DEF SignOut, ForgetIfStored,
      RefreshGoesOn, RefreshGivenUp, SignInGoesOn,
      Inv, SafeInv, RestoreApart, Presenting
<1>15. CASE SignOutEnds
  BY <1>15, QuietStep, StaleGoesOn
  DEF SignOutEnds, RefreshGoesOn, RefreshGivenUp, SignInGoesOn,
      Inv, SafeInv, RestoreApart, Presenting
<1>16. CASE Answered
  BY <1>16, QuietStep, StaleGoesOn
  DEF Answered, RefreshGoesOn, RefreshGivenUp, SignInGoesOn,
      Inv, SafeInv, RestoreApart, Presenting
<1>17. CASE AccountDeleted
  BY <1>17, QuietStep, StaleGoesOn
  DEF AccountDeleted, ForgetIfStored,
      RefreshGoesOn, RefreshGivenUp, SignInGoesOn,
      Inv, SafeInv, RestoreApart, Presenting
<1>18. CASE StepUpReauth
  BY <1>18, QuietStep, StaleGoesOn
  DEF StepUpReauth, EndSession, ForgetIfStored,
      RefreshGoesOn, RefreshGivenUp, SignInGoesOn,
      Inv, SafeInv, RestoreApart, Presenting
<1>19. CASE DismissEndedNotice
  BY <1>19, QuietStep, StaleGoesOn
  DEF DismissEndedNotice, RefreshGoesOn, RefreshGivenUp, SignInGoesOn,
      Inv, SafeInv, RestoreApart, Presenting
<1>20. ASSUME NEW s \in Sessions, LogoutLost(s) PROVE SafeInv'
  BY <1>20, RowStep DEF LogoutLost, Milder
<1>21. ASSUME NEW w \in {"reauth", "delete"}, Ask(w) PROVE SafeInv'
  BY <1>21, RowStep DEF Ask, Milder
<1>22. ASSUME NEW s \in Sessions, LogoutArrives(s) PROVE SafeInv'
  <2>1. sessions \in [Sessions -> RowType]
    BY DEF Inv, TypeInv, TypeOK
  <2>2. Milder
    BY <1>22, <2>1 DEF LogoutArrives, Milder, Gone, Row
  <2> QED
    BY <1>22, <2>2, RowStep DEF LogoutArrives
<1>23. ASSUME NEW s \in Sessions, Revoke(s) PROVE SafeInv'
  <2>1. sessions \in [Sessions -> RowType]
    BY DEF Inv, TypeInv, TypeOK
  <2>2. Milder
    BY <1>23, <2>1 DEF Revoke, Milder, Gone, Row
  <2> QED
    BY <1>23, <2>2, RowStep DEF Revoke
<1>24. ASSUME NEW s \in Sessions, NEW b \in BOOLEAN, SetUsable(s, b) PROVE SafeInv'
  <2>1. sessions \in [Sessions -> RowType]
    BY DEF Inv, TypeInv, TypeOK
  <2>2. Milder
    BY <1>24, <2>1 DEF SetUsable, RowType, Milder
  <2> QED
    BY <1>24, <2>2, RowStep DEF SetUsable
<1>25. ASSUME NEW s \in Sessions, GraceEnds(s) PROVE FALSE
  BY <1>25 DEF GraceEnds, Gentle
<1>26. CASE ServerRotates
  <2>1. CASE Renews(refresh.token)
    BY <1>26, <2>1, SafeServerRotates
  <2>2. CASE ~ Renews(refresh.token)
    <3>1. /\ refresh.pc = "asked" /\ refresh.token \in Token
          /\ sessions \in [Sessions -> RowType]
      BY <1>26 DEF ServerRotates, Inv, TypeInv, TypeOK, Presenting
    <3>2. Live(refresh.token.session) => Known(refresh.token)
      BY <3>1 DEF Inv, SafeInv, InFlight, Accepts
    <3>3. UNCHANGED <<sessions, replayed>>
      BY <1>26, <2>2, <3>1, <3>2 DEF ServerRotates, Rotate, Token
    <3>4. RefreshGivenUp
      BY <1>26, <2>2, <3>1 DEF ServerRotates, RefreshGivenUp, Inv,
         TypeInv, TypeOK, RefreshType
    <3>5. RestoreApart'
      BY <1>26, <3>1 DEF ServerRotates, Inv, SafeInv, RestoreApart, Presenting
    <3> QED
      BY <1>26, <3>3, <3>4, <3>5, QuietStep DEF ServerRotates, SignInGoesOn
  <2> QED
    BY <2>1, <2>2
<1>27. CASE RefreshTimesOut \/ LateArrives
  BY <1>27 DEF RefreshTimesOut, LateArrives, Gentle, Inv, SafeInv
<1>28. CASE RefreshAsks
  BY <1>28, SafeRefreshAsks
<1>29. CASE RefreshAccepted
  BY <1>29, SafeRefreshAccepted
<1>30. CASE RefreshWritten
  BY <1>30, SafeRefreshWritten
<1>31. CASE SignInReceives
  BY <1>31, SafeSignInReceives
<1>32. CASE Kill
  BY <1>32, SafeKill
<1>33. CASE Reinstall
  BY <1>33, SafeReinstall
<1>34. ASSUME NEW s \in Sessions, LoginIssues(s) PROVE SafeInv'
  BY <1>34, SafeLoginIssues
<1>35. CASE SignInWritten
  <2>1. /\ UNCHANGED <<sessions, replayed, late, stored, restore, refresh>>
        /\ queue # <<>> /\ Head(queue).owner = "signIn"
        /\ queue' = Tail(queue) /\ disk' = Head(queue).value
        /\ SignInGoesOn
    BY <1>35, StaleGoesOn DEF SignInWritten, Lands, Fails, Gentle, SignInGoesOn
  <2>2. RefreshGoesOn /\ Milder
    BY <2>1 DEF RefreshGoesOn, Milder
  <2>3. Kept' \subseteq Kept
    BY <2>1, PopKept
  <2>4. BeingWritten'
    BY <2>1, <2>2, PopWritten
  <2>5. RestoreApart'
    BY <1>35, <2>1 DEF SignInWritten, Inv, SafeInv, RestoreApart
  <2> QED
    BY <2>1, <2>2, <2>3, <2>4, <2>5, MilderStep
<1>36. CASE Forgotten
  <2>1. /\ UNCHANGED <<sessions, replayed, late, stored, restore, refresh>>
        /\ queue # <<>> /\ Head(queue).owner = "forget"
        /\ queue' = Tail(queue) /\ disk' \in {disk, Head(queue).value}
        /\ SignInGoesOn
    BY <1>36, StaleGoesOn DEF Forgotten, Lands, Fails, Gentle, SignInGoesOn
  <2>2. RefreshGoesOn /\ Milder
    BY <2>1 DEF RefreshGoesOn, Milder
  <2>3. Kept' \subseteq Kept
    BY <2>1, PopKept
  <2>4. BeingWritten'
    BY <2>1, <2>2, PopWritten
  <2>5. RestoreApart'
    BY <1>36, <2>1 DEF Forgotten, Inv, SafeInv, RestoreApart
  <2> QED
    BY <2>1, <2>2, <2>3, <2>4, <2>5, MilderStep
<1>37. CASE SignInNotWritten
  BY <1>37 DEF SignInNotWritten, Fails, Gentle
<1>38. CASE UNCHANGED vars
  BY <1>38, RowStep DEF vars, Milder
<1> QED
  BY <1>1, <1>2, <1>3, <1>4, <1>5, <1>6, <1>7, <1>8, <1>9, <1>10,
     <1>11, <1>12, <1>13, <1>14, <1>15, <1>16, <1>17, <1>18, <1>19,
     <1>20, <1>21, <1>22, <1>23, <1>24, <1>25, <1>26, <1>27, <1>28,
     <1>29, <1>30, <1>31, <1>32, <1>33, <1>34, <1>35, <1>36, <1>37,
     <1>38
  DEF Next, Restore, Refresh, Storage, Network, User, World

(* One phone alone is never taken for two, however many answers are lost   *)
(* and wherever the app is killed, as long as no request arrives after the *)
(* phone has given it up, no write to storage fails and the replaced       *)
(* secret is forgiven: what the device_late and device_writes runs lift.   *)
(* Any number of sessions, of secrets and of storage calls.                *)
THEOREM OnePhoneIsNotMistaken ==
    ASSUME Gentle
    PROVE  Spec => []NeverMistakenForTheft
<1>1. Init => Inv
  BY TypeInit, SafeInit DEF Inv
<1>2. Inv /\ [Next]_vars => Inv'
  BY TypeStep, SafeStep DEF Inv
<1>3. Inv => NeverMistakenForTheft
  BY DEF Inv, SafeInv, NeverMistakenForTheft
<1> QED
  BY <1>1, <1>2, <1>3, PTL DEF Spec

-----------------------------------------------------------------------------
(* Storage follows memory. Only restore() gives the phone a session        *)
(* without a call to storage: that is right because nothing can have been  *)
(* called, nor changed, while its read still counts.                       *)

(* Every write lands; and a link doesn't open the sign-in screen on a      *)
(* phone whose storage can't be read.                                      *)
Orderly ==
    "writeFails" \notin Faults /\ ~ ({"link", "unreadable"} \subseteq Faults)

(* A read whose result will count.                                         *)
Reads == restore.pc # "idle" /\ restore.fresh

ReadsAlone ==
    /\ Reads \/ status = "unreadable" => queue = <<>> /\ stored = None
    /\ Reads => status \in {"restoring", "unreadable"}
    /\ refresh.pc \in Presenting => restore.pc = "idle" /\ status # "unreadable"
    /\ signOut = "fresh" => ~ Reads /\ status # "unreadable"
    /\ "link" \notin Faults /\ signIn.pc # "idle" => ~ Reads /\ status # "unreadable"
    /\ "unreadable" \notin Faults => status # "unreadable"

FoundIsStored == Reads /\ restore.pc = "stamp" => restore.found = disk

FollowInv == StorageFollows /\ ReadsAlone /\ FoundIsStored

LEMMA EnqueueLands ==
    ASSUME TypeInv, NEW op \in OpType, queue' = Enqueue(op)
    PROVE  queue' # <<>> /\ Landed' = op.value
<1>1. queue \in Seq(OpType)
  BY DEF TypeInv, TypeOK
<1>2. queue' # <<>> /\ queue'[Len(queue')] = op
  BY <1>1 DEF Enqueue
<1> QED
  BY <1>2 DEF Landed

LEMMA PopLands ==
    ASSUME TypeInv, queue # <<>>, queue' = Tail(queue), disk' = Head(queue).value
    PROVE  Landed' = Landed
<1>1. queue \in Seq(OpType)
  BY DEF TypeInv, TypeOK
<1>2. CASE Len(queue) = 1
  BY <1>1, <1>2 DEF Landed
<1>3. CASE Len(queue) # 1
  <2>1. /\ Len(queue') = Len(queue) - 1 /\ Len(queue) \in Nat /\ Len(queue) > 1
        /\ \A i \in 1..Len(queue') : queue'[i] = queue[i + 1]
    BY <1>1, <1>3, TailKeeps
  <2>2. queue'[Len(queue')] = queue[Len(queue)]
    BY <2>1
  <2>3. queue' # <<>>
    BY <2>1
  <2> QED
    BY <2>2, <2>3 DEF Landed
<1> QED
  BY <1>2, <1>3

LEMMA CallsFollow ==
    ASSUME TypeInv
    PROVE  /\ Stale(restore).pc = restore.pc /\ Stale(restore).fresh = FALSE
           /\ Stale(refresh).pc = refresh.pc
           /\ SignOutStale # "fresh"
           /\ RestoreIdle.pc = "idle"
           /\ RestoreReading.pc = "reading"
           /\ RefreshIdle.pc = "idle" /\ RefreshStarting.pc = "starting"
           /\ SignInIdle.pc = "idle"
BY CallsTyped
DEF TypeInv, TypeOK, Stale, SignOutStale, RestoreType, RestoreIdle, RestoreReading

LEMMA FollowInit == Init => FollowInv
BY DEF Init, FollowInv, StorageFollows, ReadsAlone, FoundIsStored, Presenting,
       RestoreReading, RefreshIdle, SignInIdle

LEMMA FollowStep ==
    ASSUME Orderly, TypeInv, FollowInv, [Next]_vars
    PROVE  FollowInv'
<1> USE DEF serverVars, netVars, stateVars, memVars, storageVars
<1>1. CASE RestoreReads
  BY <1>1, CallsFollow
  DEF RestoreReads, Orderly, FollowInv, StorageFollows, ReadsAlone,
      FoundIsStored, Reads, Presenting, Landed, TypeInv, TypeOK,
      RestoreType, RefreshType, SignInType
<1>2. CASE RestoreCannotRead
  BY <1>2, CallsFollow
  DEF RestoreCannotRead, Orderly, FollowInv, StorageFollows, ReadsAlone,
      FoundIsStored, Reads, Presenting, Landed
<1>3. CASE RestoreOvertaken
  BY <1>3, CallsFollow
  DEF RestoreOvertaken, Orderly, FollowInv, StorageFollows, ReadsAlone,
      FoundIsStored, Reads, Presenting, Landed
<1>4. CASE RestoreNothing
  BY <1>4, CallsFollow
  DEF RestoreNothing, Orderly, FollowInv, StorageFollows, ReadsAlone,
      FoundIsStored, Reads, Presenting, Landed
<1>5. CASE RestoreSession
  BY <1>5, CallsFollow
  DEF RestoreSession, Orderly, FollowInv, StorageFollows, ReadsAlone,
      FoundIsStored, Reads, Presenting, Landed
<1>6. CASE RetryRestore
  BY <1>6, CallsFollow
  DEF RetryRestore, Orderly, FollowInv, StorageFollows, ReadsAlone,
      FoundIsStored, Reads, Presenting, Landed
<1>7. CASE SkipRestore
  BY <1>7, CallsFollow
  DEF SkipRestore, Orderly, FollowInv, StorageFollows, ReadsAlone,
      FoundIsStored, Reads, Presenting, Landed
<1>8. CASE RefreshStart
  BY <1>8, CallsFollow
  DEF RefreshStart, Orderly, FollowInv, StorageFollows, ReadsAlone,
      FoundIsStored, Reads, Presenting, Landed
<1>9. CASE RefreshAsks
  BY <1>9, CallsFollow
  DEF RefreshAsks, Orderly, FollowInv, StorageFollows, ReadsAlone,
      FoundIsStored, Reads, Presenting, Landed, TypeInv, TypeOK,
      RestoreType, RefreshType, SignInType
<1>10. CASE RefreshHasNothing
  BY <1>10, CallsFollow
  DEF RefreshHasNothing, ClearIfSame, EndSession, ForgetIfStored, Orderly,
      FollowInv, StorageFollows, ReadsAlone, FoundIsStored, Reads,
      Presenting, Landed
<1>11. CASE ServerRotates
  BY <1>11, CallsFollow
  DEF ServerRotates, Orderly, FollowInv, StorageFollows, ReadsAlone,
      FoundIsStored, Reads, Presenting, Landed, TypeInv, TypeOK,
      RestoreType, RefreshType, SignInType
<1>12. CASE RefreshUnanswered
  BY <1>12, CallsFollow
  DEF RefreshUnanswered, Orderly, FollowInv, StorageFollows, ReadsAlone,
      FoundIsStored, Reads, Presenting, Landed
<1>13. CASE RefreshTimesOut
  BY <1>13, CallsFollow
  DEF RefreshTimesOut, Orderly, FollowInv, StorageFollows, ReadsAlone,
      FoundIsStored, Reads, Presenting, Landed
<1>14. CASE LateArrives
  BY <1>14, CallsFollow
  DEF LateArrives, Orderly, FollowInv, StorageFollows, ReadsAlone,
      FoundIsStored, Reads, Presenting, Landed
<1>15. CASE RefreshAccepted
  <2>1. /\ Op("refresh", refresh.answer) \in OpType /\ refresh.answer # None
        /\ Op("refresh", refresh.answer).value = refresh.answer
    BY <1>15, OpTyped, DeviceAssumption DEF RefreshAccepted, TypeInv, TypeOK, Op
  <2>2. queue' # <<>> /\ Landed' = refresh.answer /\ stored' = refresh.answer
    BY <1>15, <2>1, EnqueueLands DEF RefreshAccepted
  <2>3. /\ refresh'.pc = "writing" /\ restore.pc = "idle" /\ status # "unreadable"
        /\ UNCHANGED <<status, restore, signIn, signOut>>
    BY <1>15 DEF RefreshAccepted, TypeInv, TypeOK, RefreshType, FollowInv,
                 ReadsAlone, Presenting
  <2> QED
    BY <2>2, <2>3
    DEF FollowInv, StorageFollows, ReadsAlone, FoundIsStored, Reads
<1>16. CASE RefreshUnwanted
  BY <1>16, CallsFollow
  DEF RefreshUnwanted, Orderly, FollowInv, StorageFollows, ReadsAlone,
      FoundIsStored, Reads, Presenting, Landed
<1>17. CASE RefreshRefused
  BY <1>17, CallsFollow
  DEF RefreshRefused, ClearIfSame, EndSession, ForgetIfStored, Orderly,
      FollowInv, StorageFollows, ReadsAlone, FoundIsStored, Reads,
      Presenting, Landed
<1>18. CASE LoginLost
  BY <1>18, CallsFollow
  DEF LoginLost, Orderly, FollowInv, StorageFollows, ReadsAlone,
      FoundIsStored, Reads, Presenting, Landed
<1>19. CASE SignInReceives
  <2>1. /\ Op("signIn", signIn.token) \in OpType
        /\ Op("signIn", signIn.token).value = signIn.token
    BY <1>19, OpTyped DEF SignInReceives, TypeInv, TypeOK, Op
  <2>2. queue' # <<>> /\ Landed' = signIn.token /\ stored' = signIn.token
    BY <1>19, <2>1, EnqueueLands DEF SignInReceives
  <2>3. status # "unreadable"
    BY <1>19 DEF SignInReceives, FollowInv, ReadsAlone, Orderly
  <2> QED
    BY <1>19, <2>2, <2>3, CallsFollow
    DEF SignInReceives, FollowInv, StorageFollows, ReadsAlone, FoundIsStored, Reads
<1>20. CASE RefreshWritten
  BY <1>20, CallsFollow, PopLands
  DEF RefreshWritten, Lands, Fails, Orderly, FollowInv, StorageFollows,
      ReadsAlone, FoundIsStored, Reads, Presenting
<1>21. CASE SignInWritten
  BY <1>21, CallsFollow, PopLands
  DEF SignInWritten, Lands, Orderly, FollowInv, StorageFollows,
      ReadsAlone, FoundIsStored, Reads, Presenting
<1>22. CASE SignInNotWritten
  BY <1>22, CallsFollow
  DEF SignInNotWritten, Fails, Orderly, FollowInv, StorageFollows,
      ReadsAlone, FoundIsStored, Reads, Presenting, Landed
<1>23. CASE Forgotten
  <2>1. /\ UNCHANGED <<stored, restore, refresh, signIn, status, signOut>>
        /\ queue # <<>> /\ Head(queue).owner = "forget" /\ queue' = Tail(queue)
        /\ disk' = Head(queue).value \/ UNCHANGED disk
    BY <1>23 DEF Forgotten, Lands, Fails
  <2>2. ASSUME UNCHANGED disk, stored # None PROVE Landed' = Landed
    <3>1. /\ Head(queue) = queue[1] /\ queue[1] = Forget /\ Len(queue) \in Nat
          /\ Len(queue') = Len(queue) - 1 /\ queue' \in Seq(OpType)
          /\ \A i \in 1..Len(queue') : queue'[i] = queue[i + 1]
      BY <2>1, TailKeeps DEF TypeInv, TypeOK, OpType
    <3>2. Len(queue) # 1
      BY <2>1, <2>2, <3>1 DEF FollowInv, StorageFollows, Landed, Forget, Op
    <3>3. Len(queue) > 1
      BY <2>1, <3>1, <3>2
    <3>4. queue' # <<>> /\ queue # <<>>
      BY <3>1, <3>3
    <3>5. queue'[Len(queue')] = queue[Len(queue)]
      BY <3>1, <3>3
    <3> QED
      BY <3>4, <3>5 DEF Landed
  <2>3. stored # None => Landed' = Landed
    BY <2>1, <2>2, PopLands
  <2> QED
    BY <2>1, <2>3
    DEF FollowInv, StorageFollows, ReadsAlone, FoundIsStored, Reads
<1>24. CASE SignOut
  BY <1>24, CallsFollow
  DEF SignOut, ForgetIfStored, Orderly, FollowInv, StorageFollows,
      ReadsAlone, FoundIsStored, Reads, Presenting, Landed
<1>25. CASE SignOutEnds
  BY <1>25, CallsFollow
  DEF SignOutEnds, Orderly, FollowInv, StorageFollows, ReadsAlone,
      FoundIsStored, Reads, Presenting, Landed
<1>26. CASE Answered
  BY <1>26, CallsFollow
  DEF Answered, Orderly, FollowInv, StorageFollows, ReadsAlone,
      FoundIsStored, Reads, Presenting, Landed
<1>27. CASE AccountDeleted
  BY <1>27, CallsFollow
  DEF AccountDeleted, ForgetIfStored, Orderly, FollowInv, StorageFollows,
      ReadsAlone, FoundIsStored, Reads, Presenting, Landed
<1>28. CASE StepUpReauth
  BY <1>28, CallsFollow
  DEF StepUpReauth, EndSession, ForgetIfStored, Orderly, FollowInv,
      StorageFollows, ReadsAlone, FoundIsStored, Reads, Presenting, Landed
<1>29. CASE DismissEndedNotice
  BY <1>29, CallsFollow
  DEF DismissEndedNotice, Orderly, FollowInv, StorageFollows, ReadsAlone,
      FoundIsStored, Reads, Presenting, Landed
<1>30. CASE Kill
  BY <1>30, CallsFollow
  DEF Kill, Orderly, FollowInv, StorageFollows, ReadsAlone, FoundIsStored,
      Reads, Presenting, Landed
<1>31. CASE Reinstall
  <2>1. Reads /\ restore.pc = "reading" /\ refresh.pc = "idle" /\ signIn.pc = "idle"
    BY <1>31, CallsFollow
    DEF Reinstall, Reads, RestoreReading, RefreshIdle, SignInIdle
  <2> QED
    BY <1>31, <2>1
    DEF Reinstall, FollowInv, StorageFollows, ReadsAlone, FoundIsStored, Reads
<1>32. ASSUME NEW s \in Sessions, LoginIssues(s) PROVE FollowInv'
  BY <1>32
  DEF LoginIssues, Orderly, FollowInv, StorageFollows, ReadsAlone, FoundIsStored,
      Reads, Landed
<1>33. ASSUME NEW s \in Sessions, LogoutArrives(s) PROVE FollowInv'
  BY <1>33
  DEF LogoutArrives, Orderly, FollowInv, StorageFollows, ReadsAlone, FoundIsStored,
      Reads, Landed
<1>34. ASSUME NEW s \in Sessions, LogoutLost(s) PROVE FollowInv'
  BY <1>34
  DEF LogoutLost, Orderly, FollowInv, StorageFollows, ReadsAlone, FoundIsStored,
      Reads, Landed
<1>35. ASSUME NEW s \in Sessions, Revoke(s) PROVE FollowInv'
  BY <1>35
  DEF Revoke, Orderly, FollowInv, StorageFollows, ReadsAlone, FoundIsStored,
      Reads, Landed
<1>36. ASSUME NEW s \in Sessions, GraceEnds(s) PROVE FollowInv'
  BY <1>36
  DEF GraceEnds, Orderly, FollowInv, StorageFollows, ReadsAlone, FoundIsStored,
      Reads, Landed
<1>37. ASSUME NEW s \in Sessions, NEW b \in BOOLEAN, SetUsable(s, b) PROVE FollowInv'
  BY <1>37
  DEF SetUsable, Orderly, FollowInv, StorageFollows, ReadsAlone, FoundIsStored,
      Reads, Landed
<1>38. ASSUME NEW w \in {"reauth", "delete"}, Ask(w) PROVE FollowInv'
  BY <1>38
  DEF Ask, Orderly, FollowInv, StorageFollows, ReadsAlone, FoundIsStored,
      Reads, Landed
<1>39. CASE UNCHANGED vars
  BY <1>39
  DEF vars, FollowInv, StorageFollows, ReadsAlone, FoundIsStored, Reads, Landed
<1> QED
  BY <1>1, <1>2, <1>3, <1>4, <1>5, <1>6, <1>7, <1>8, <1>9, <1>10,
     <1>11, <1>12, <1>13, <1>14, <1>15, <1>16, <1>17, <1>18, <1>19,
     <1>20, <1>21, <1>22, <1>23, <1>24, <1>25, <1>26, <1>27, <1>28,
     <1>29, <1>30, <1>31, <1>32, <1>33, <1>34, <1>35, <1>36, <1>37,
     <1>38, <1>39
  DEF Next, Restore, Refresh, Storage, Network, User, World

(* Whatever is lost, killed, revoked, late, signed in or out: while the    *)
(* phone holds a session, what storage will hold once every call has       *)
(* landed is that session with its newest token. Writes that fail, and a   *)
(* sign-in beside an unreadable session, are the exceptions.               *)
THEOREM StorageFollowsMemory ==
    ASSUME Orderly
    PROVE  Spec => []StorageFollows
<1>1. Init => TypeInv /\ FollowInv
  BY TypeInit, FollowInit
<1>2. TypeInv /\ FollowInv /\ [Next]_vars => (TypeInv /\ FollowInv)'
  BY TypeStep, FollowStep
<1>3. FollowInv => StorageFollows
  BY DEF FollowInv
<1> QED
  BY <1>1, <1>2, <1>3, PTL DEF Spec
-----------------------------------------------------------------------------
(* What holds whatever goes wrong: a refresh runs beside no restore(), the *)
(* call that may still change the session has the token of the session in  *)
(* memory, and a login's session is its own until the phone receives it.   *)

RefreshAlone ==
    refresh.pc \in Presenting => restore.pc = "idle" /\ status # "unreadable"

FreshIsStored ==
    refresh.pc \in Presenting /\ refresh.fresh =>
        stored = IF refresh.pc = "writing" THEN refresh.answer ELSE refresh.token

AnswerIsRenewal ==
    refresh.pc \in {"accepted", "writing"} =>
        refresh.answer.session = refresh.token.session

Queued(s) == \E i \in 1..Len(queue) : s \in SessionOf(queue[i].value)

(* The phone has a token of session s somewhere.                           *)
Holds(s) ==
    \/ s \in SessionOf(stored) \/ s \in SessionOf(disk) \/ s \in SessionOf(restore.found)
    \/ s \in SessionOf(refresh.token) \/ s \in SessionOf(refresh.answer)
    \/ Queued(s)

LoginsAreNew ==
    /\ \A s \in Sessions : Holds(s) \/ s \in signedOutOf => sessions[s].state # "unused"
    /\ signIn.pc = "issued" =>
          /\ sessions[signIn.token.session].state # "unused"
          /\ ~ Holds(signIn.token.session)
          /\ signIn.token.session \notin signedOutOf

CallsInv == RefreshAlone /\ FreshIsStored /\ AnswerIsRenewal /\ LoginsAreNew

LEMMA CallsInit == Init => CallsInv
<1> SUFFICES ASSUME Init PROVE CallsInv
  OBVIOUS
<1>1. queue = <<>> /\ refresh = RefreshIdle /\ signIn = SignInIdle
      /\ restore = RestoreReading /\ stored = None /\ disk = None /\ signedOutOf = {}
  BY DEF Init
<1>2. \A s \in Sessions : ~ Holds(s)
  BY <1>1 DEF Holds, Queued, SessionOf, RefreshIdle, RestoreReading
<1> QED
  BY <1>1, <1>2
  DEF CallsInv, RefreshAlone, FreshIsStored, AnswerIsRenewal, LoginsAreNew, Presenting,
      RefreshIdle, SignInIdle

LEMMA AloneStep ==
    ASSUME TypeInv, RefreshAlone, FreshIsStored, AnswerIsRenewal, [Next]_vars
    PROVE  RefreshAlone' /\ FreshIsStored' /\ AnswerIsRenewal'
<1> USE CallsTyped, CallsFollow
    DEF serverVars, netVars, stateVars, memVars, storageVars, Presenting,
        RefreshAlone, FreshIsStored, AnswerIsRenewal
<1>1. CASE RestoreReads
  BY <1>1 DEF RestoreReads, TypeInv, TypeOK, RestoreType
<1>2. CASE RestoreCannotRead
  BY <1>2 DEF RestoreCannotRead
<1>3. CASE RestoreOvertaken
  BY <1>3 DEF RestoreOvertaken
<1>4. CASE RestoreNothing
  BY <1>4 DEF RestoreNothing
<1>5. CASE RestoreSession
  BY <1>5 DEF RestoreSession
<1>6. CASE RetryRestore
  BY <1>6 DEF RetryRestore
<1>7. CASE SkipRestore
  BY <1>7 DEF SkipRestore, Stale, TypeInv, TypeOK, RefreshType
<1>8. CASE RefreshStart
  BY <1>8 DEF RefreshStart
<1>9. CASE RefreshAsks
  BY <1>9 DEF RefreshAsks, TypeInv, TypeOK, RefreshType
<1>10. CASE RefreshHasNothing
  BY <1>10 DEF RefreshHasNothing, ClearIfSame, EndSession
<1>11. CASE ServerRotates
  BY <1>11 DEF ServerRotates, TypeInv, TypeOK, RefreshType, Renewal, Token
<1>12. CASE RefreshUnanswered
  BY <1>12 DEF RefreshUnanswered
<1>13. CASE RefreshTimesOut
  BY <1>13 DEF RefreshTimesOut
<1>14. CASE LateArrives
  BY <1>14 DEF LateArrives
<1>15. CASE RefreshAccepted
  BY <1>15 DEF RefreshAccepted, TypeInv, TypeOK, RefreshType
<1>16. CASE RefreshUnwanted
  BY <1>16 DEF RefreshUnwanted
<1>17. CASE RefreshRefused
  BY <1>17 DEF RefreshRefused, ClearIfSame, EndSession
<1>18. CASE LoginLost
  BY <1>18 DEF LoginLost
<1>19. CASE SignInReceives
  BY <1>19 DEF SignInReceives, Stale, TypeInv, TypeOK, RefreshType
<1>20. CASE RefreshWritten
  BY <1>20 DEF RefreshWritten
<1>21. CASE SignInWritten
  BY <1>21 DEF SignInWritten
<1>22. CASE SignInNotWritten
  BY <1>22 DEF SignInNotWritten, Stale, TypeInv, TypeOK, RefreshType
<1>23. CASE Forgotten
  BY <1>23 DEF Forgotten
<1>24. CASE SignOut
  BY <1>24 DEF SignOut, Stale, TypeInv, TypeOK, RefreshType
<1>25. CASE SignOutEnds
  BY <1>25 DEF SignOutEnds
<1>26. CASE Answered
  BY <1>26 DEF Answered
<1>27. CASE AccountDeleted
  BY <1>27 DEF AccountDeleted, Stale, TypeInv, TypeOK, RefreshType
<1>28. CASE StepUpReauth
  BY <1>28 DEF StepUpReauth, EndSession, Stale, TypeInv, TypeOK, RefreshType
<1>29. CASE DismissEndedNotice
  BY <1>29 DEF DismissEndedNotice
<1>30. CASE Kill
  BY <1>30 DEF Kill
<1>31. CASE Reinstall
  BY <1>31 DEF Reinstall
<1>32. ASSUME NEW s \in Sessions, LoginIssues(s)
      PROVE  RefreshAlone' /\ FreshIsStored' /\ AnswerIsRenewal'
  BY <1>32 DEF LoginIssues
<1>33. ASSUME NEW s \in Sessions, LogoutArrives(s)
      PROVE  RefreshAlone' /\ FreshIsStored' /\ AnswerIsRenewal'
  BY <1>33 DEF LogoutArrives
<1>34. ASSUME NEW s \in Sessions, LogoutLost(s)
      PROVE  RefreshAlone' /\ FreshIsStored' /\ AnswerIsRenewal'
  BY <1>34 DEF LogoutLost
<1>35. ASSUME NEW s \in Sessions, Revoke(s)
      PROVE  RefreshAlone' /\ FreshIsStored' /\ AnswerIsRenewal'
  BY <1>35 DEF Revoke
<1>36. ASSUME NEW s \in Sessions, GraceEnds(s)
      PROVE  RefreshAlone' /\ FreshIsStored' /\ AnswerIsRenewal'
  BY <1>36 DEF GraceEnds
<1>37. ASSUME NEW s \in Sessions, NEW b \in BOOLEAN, SetUsable(s, b)
      PROVE  RefreshAlone' /\ FreshIsStored' /\ AnswerIsRenewal'
  BY <1>37 DEF SetUsable
<1>38. ASSUME NEW w \in {"reauth", "delete"}, Ask(w)
      PROVE  RefreshAlone' /\ FreshIsStored' /\ AnswerIsRenewal'
  BY <1>38 DEF Ask
<1>39. CASE UNCHANGED vars
  BY <1>39 DEF vars
<1> QED
  BY <1>1, <1>2, <1>3, <1>4, <1>5, <1>6, <1>7, <1>8, <1>9, <1>10,
     <1>11, <1>12, <1>13, <1>14, <1>15, <1>16, <1>17, <1>18, <1>19,
     <1>20, <1>21, <1>22, <1>23, <1>24, <1>25, <1>26, <1>27, <1>28,
     <1>29, <1>30, <1>31, <1>32, <1>33, <1>34, <1>35, <1>36, <1>37,
     <1>38, <1>39
  DEF Next, Restore, Refresh, Storage, Network, User, World

(* A session of the server that has begun stays begun.                     *)
RowsGoOn ==
    \A s \in Sessions : sessions[s].state # "unused" => sessions'[s].state # "unused"

LEMMA RowsStep ==
    ASSUME TypeInv, [Next]_vars
    PROVE  RowsGoOn
<1>0. sessions \in [Sessions -> RowType]
  BY DEF TypeInv, TypeOK
<1>1. ASSUME NEW t \in Token, Rotate(t) PROVE RowsGoOn
  <2>1. t.session \in Sessions /\ Gone.state = "gone"
    BY DEF Token, Gone, Row
  <2>2. Renews(t) => Renewed(t).state = "live"
    BY <1>0, <2>1 DEF Renews, Live, Renewed, Row, RowType
  <2> QED
    BY <1>0, <1>1, <2>1, <2>2 DEF Rotate, RowsGoOn
<1>2. CASE ServerRotates
  BY <1>1, <1>2 DEF ServerRotates, TypeInv, TypeOK, Presenting
<1>3. CASE LateArrives
  BY <1>1, <1>3 DEF LateArrives, TypeInv, TypeOK, TokenOrNone
<1>4. ASSUME NEW s \in Sessions, LoginIssues(s) \/ LogoutArrives(s) \/ Revoke(s)
      PROVE  RowsGoOn
  <2>1. Issued.state = "live" /\ Gone.state = "gone"
    BY DEF Issued, Gone, Row
  <2> QED
    BY <1>0, <1>4, <2>1 DEF LoginIssues, LogoutArrives, Revoke, RowsGoOn
<1>5. ASSUME NEW s \in Sessions, GraceEnds(s) PROVE RowsGoOn
  BY <1>0, <1>5 DEF GraceEnds, RowsGoOn, RowType
<1>6. ASSUME NEW s \in Sessions, NEW b \in BOOLEAN, SetUsable(s, b) PROVE RowsGoOn
  BY <1>0, <1>6 DEF SetUsable, RowsGoOn, RowType
<1>7. CASE UNCHANGED sessions
  BY <1>7 DEF RowsGoOn
<1>8. CASE Restore \/ Refresh \/ Storage \/ UNCHANGED vars
  BY <1>7, <1>8
  DEF Restore, Refresh, Storage, RestoreReads, RestoreCannotRead, RestoreOvertaken,
      RestoreNothing, RestoreSession, RefreshAsks, RefreshHasNothing, RefreshAccepted,
      RefreshUnwanted, RefreshRefused, RefreshWritten, SignInWritten, SignInNotWritten,
      Forgotten, vars, serverVars
<1>9. CASE Network
  BY <1>2, <1>3, <1>4, <1>7, <1>9
  DEF Network, RefreshUnanswered, RefreshTimesOut, LoginLost, LogoutLost, serverVars
<1>10. CASE User
  BY <1>4, <1>7, <1>10
  DEF User, RetryRestore, SkipRestore, RefreshStart, SignOut, SignOutEnds, Ask, Answered,
      AccountDeleted, StepUpReauth, DismissEndedNotice, SignInReceives, serverVars
<1>11. CASE World
  BY <1>4, <1>5, <1>6, <1>7, <1>11 DEF World, Kill, Reinstall, serverVars
<1> QED
  BY <1>8, <1>9, <1>10, <1>11 DEF Next

LEMMA QueuedTail ==
    ASSUME TypeInv, queue # <<>>, queue' = Tail(queue), NEW s
    PROVE  /\ Queued(s)' => Queued(s)
           /\ s \in SessionOf(Head(queue).value) => Queued(s)
<1>1. /\ \A i \in 1..Len(queue') : i + 1 \in 1..Len(queue) /\ queue'[i] = queue[i + 1]
      /\ 1 \in 1..Len(queue) /\ Head(queue) = queue[1]
  BY TailKeeps DEF TypeInv, TypeOK
<1> QED
  BY <1>1 DEF Queued

LEMMA QueuedEnqueue ==
    ASSUME TypeInv, NEW op \in OpType, queue' = Enqueue(op), NEW s
    PROVE  Queued(s)' => Queued(s) \/ s \in SessionOf(op.value)
<1>1. \A i \in 1..Len(queue') : queue'[i] = IF i \in 1..Len(queue) THEN queue[i] ELSE op
  BY EnqueueKeeps DEF TypeInv, TypeOK
<1> QED
  BY <1>1 DEF Queued

LEMMA QueuedForget ==
    ASSUME TypeInv, queue' = Enqueue(Forget) \/ UNCHANGED queue, NEW s
    PROVE  Queued(s)' => Queued(s)
<1>1. SessionOf(Forget.value) = {}
  BY DEF SessionOf, Forget, Op
<1> QED
  BY <1>1, OpTyped, QueuedEnqueue DEF Queued

LEMMA QueuedDrop ==
    ASSUME TypeInv, queue # <<>>, queue' = Append(Tail(queue), Forget), NEW s
    PROVE  Queued(s)' => Queued(s)
<1> DEFINE tail == Tail(queue)
<1>1. /\ tail \in Seq(OpType) /\ Len(tail) \in Nat
      /\ \A i \in 1..Len(tail) : i + 1 \in 1..Len(queue) /\ tail[i] = queue[i + 1]
  BY TailKeeps DEF TypeInv, TypeOK
<1>2. queue' = Append(tail, Forget)
  OBVIOUS
<1> HIDE DEF tail
<1>3. \A i \in 1..Len(queue') : queue'[i] = IF i \in 1..Len(tail) THEN tail[i] ELSE Forget
  BY <1>1, <1>2, OpTyped
<1>4. SessionOf(Forget.value) = {}
  BY DEF SessionOf, Forget, Op
<1> QED
  BY <1>1, <1>3, <1>4 DEF Queued

LEMMA IdleCalls ==
    /\ RefreshIdle.token = None /\ RefreshIdle.answer = None
    /\ RefreshStarting.token = None /\ RefreshStarting.answer = None
    /\ RestoreIdle.found = None /\ RestoreReading.found = None
    /\ SessionOf(None) = {}
BY DEF RefreshIdle, RefreshStarting, RestoreIdle, RestoreReading, SessionOf

LEMMA StaleCalls ==
    ASSUME TypeInv
    PROVE  /\ Stale(refresh).token = refresh.token /\ Stale(refresh).answer = refresh.answer
           /\ Stale(restore).found = restore.found
BY DEF Stale, TypeInv, TypeOK, RefreshType, RestoreType

(* Only a sign-in gives the phone a session it didn't hold.                *)
LEMMA HoldsStep ==
    ASSUME TypeInv, AnswerIsRenewal, [Next]_vars, NEW s \in Sessions, Holds(s)'
    PROVE  \/ Holds(s)
           \/ signIn.pc = "issued" /\ signIn'.pc # "issued" /\ s = signIn.token.session
<1> USE IdleCalls, StaleCalls
    DEF serverVars, netVars, stateVars, memVars, storageVars, Holds
<1>1. CASE RestoreReads
  <2>1. restore'.found = disk
    BY <1>1 DEF RestoreReads, TypeInv, TypeOK, RestoreType
  <2> QED
    BY <1>1, <2>1 DEF RestoreReads, Queued
<1>2. CASE RestoreCannotRead
  BY <1>2 DEF RestoreCannotRead, Queued
<1>3. CASE RestoreOvertaken
  BY <1>3 DEF RestoreOvertaken, Queued
<1>4. CASE RestoreNothing
  BY <1>4, QueuedForget DEF RestoreNothing, ForgetIfStored
<1>5. CASE RestoreSession
  BY <1>5 DEF RestoreSession, Queued
<1>6. CASE RetryRestore
  BY <1>6 DEF RetryRestore, Queued
<1>7. CASE SkipRestore
  BY <1>7 DEF SkipRestore, Queued
<1>8. CASE RefreshStart
  BY <1>8 DEF RefreshStart, Queued
<1>9. CASE RefreshAsks
  <2>1. refresh'.token = stored /\ refresh'.answer = refresh.answer
    BY <1>9 DEF RefreshAsks, TypeInv, TypeOK, RefreshType
  <2> QED
    BY <1>9, <2>1 DEF RefreshAsks, Queued
<1>10. CASE RefreshHasNothing
  BY <1>10, QueuedForget DEF RefreshHasNothing, ClearIfSame, EndSession, ForgetIfStored
<1>11. CASE ServerRotates
  <2>1. refresh.token \in Token /\ refresh'.token = refresh.token
    BY <1>11 DEF ServerRotates, TypeInv, TypeOK, RefreshType, Presenting
  <2>2. \/ refresh'.answer = refresh.answer
        \/ refresh'.answer # None /\ refresh'.answer.session = refresh.token.session
    <3>1. CASE Renews(refresh.token)
      <4>1. refresh'.answer = Renewal(refresh.token) /\ refresh'.pc = "accepted"
        BY <1>11, <3>1 DEF ServerRotates, TypeInv, TypeOK, RefreshType
      <4>2. refresh'.answer \in Token
        BY <4>1, TypeStep DEF TypeInv, TypeOK
      <4>3. refresh'.answer.session = refresh.token.session
        BY <2>1, <4>1 DEF Renewal, Token
      <4> QED
        BY <4>2, <4>3, DeviceAssumption
    <3>2. CASE ~ Renews(refresh.token)
      BY <1>11, <3>2 DEF ServerRotates, TypeInv, TypeOK, RefreshType
    <3> QED
      BY <3>1, <3>2
  <2>3. SessionOf(refresh'.answer) \subseteq SessionOf(refresh.answer) \union SessionOf(refresh.token)
    BY <2>1, <2>2, DeviceAssumption DEF SessionOf
  <2> QED
    BY <1>11, <2>1, <2>3 DEF ServerRotates, Queued
<1>12. CASE RefreshUnanswered
  BY <1>12 DEF RefreshUnanswered, Queued
<1>13. CASE RefreshTimesOut
  BY <1>13 DEF RefreshTimesOut, Queued
<1>14. CASE LateArrives
  BY <1>14 DEF LateArrives, Queued
<1>15. CASE RefreshAccepted
  <2>1. Op("refresh", refresh.answer) \in OpType
        /\ Op("refresh", refresh.answer).value = refresh.answer
    BY <1>15, OpTyped DEF RefreshAccepted, TypeInv, TypeOK, Op
  <2>2. Queued(s)' => Queued(s) \/ s \in SessionOf(refresh.answer)
    BY <1>15, <2>1, QueuedEnqueue DEF RefreshAccepted
  <2>3. refresh'.token = refresh.token /\ refresh'.answer = refresh.answer
    BY <1>15 DEF RefreshAccepted, TypeInv, TypeOK, RefreshType
  <2> QED
    BY <1>15, <2>2, <2>3 DEF RefreshAccepted
<1>16. CASE RefreshUnwanted
  BY <1>16 DEF RefreshUnwanted, Queued
<1>17. CASE RefreshRefused
  BY <1>17, QueuedForget DEF RefreshRefused, ClearIfSame, EndSession, ForgetIfStored
<1>18. CASE LoginLost
  BY <1>18 DEF LoginLost, Queued
<1>19. CASE SignInReceives
  <2>1. Op("signIn", signIn.token) \in OpType /\ signIn.token \in Token
        /\ Op("signIn", signIn.token).value = signIn.token
    BY <1>19, OpTyped DEF SignInReceives, TypeInv, TypeOK, Op
  <2>2. Queued(s)' => Queued(s) \/ s \in SessionOf(signIn.token)
    BY <1>19, <2>1, QueuedEnqueue DEF SignInReceives
  <2>3. SessionOf(signIn.token) = {signIn.token.session}
    BY <2>1, DeviceAssumption DEF SessionOf
  <2>4. signIn'.pc = "writing"
    BY <1>19 DEF SignInReceives, TypeInv, TypeOK, SignInType
  <2> QED
    BY <1>19, <2>2, <2>3, <2>4 DEF SignInReceives
<1>20. CASE RefreshWritten
  BY <1>20, QueuedTail DEF RefreshWritten, Lands, Fails
<1>21. CASE SignInWritten
  BY <1>21, QueuedTail DEF SignInWritten, Lands, Fails
<1>22. CASE SignInNotWritten
  <2>1. Queued(s)' => Queued(s)
    BY <1>22, QueuedTail, QueuedDrop DEF SignInNotWritten, Fails
  <2> QED
    BY <1>22, <2>1 DEF SignInNotWritten, Fails
<1>23. CASE Forgotten
  BY <1>23, QueuedTail DEF Forgotten, Lands, Fails
<1>24. CASE SignOut
  BY <1>24, QueuedForget DEF SignOut, ForgetIfStored
<1>25. CASE SignOutEnds
  BY <1>25 DEF SignOutEnds, Queued
<1>26. CASE Answered
  BY <1>26 DEF Answered, Queued
<1>27. CASE AccountDeleted
  BY <1>27, QueuedForget DEF AccountDeleted, ForgetIfStored
<1>28. CASE StepUpReauth
  BY <1>28, QueuedForget DEF StepUpReauth, EndSession, ForgetIfStored
<1>29. CASE DismissEndedNotice
  BY <1>29 DEF DismissEndedNotice, Queued
<1>30. CASE Kill
  <2>1. ~ Queued(s)'
    BY <1>30 DEF Kill, Queued
  <2>2. s \in SessionOf(disk)' => s \in SessionOf(disk) \/ Queued(s)
    <3>1. queue # <<>> => Head(queue) = queue[1] /\ 1 \in 1..Len(queue)
      BY TailKeeps DEF TypeInv, TypeOK
    <3> QED
      BY <1>30, <3>1 DEF Kill, Queued, SessionOf
  <2> QED
    BY <1>30, <2>1, <2>2 DEF Kill
<1>31. CASE Reinstall
  <2>1. disk \in Token /\ disk' = [disk EXCEPT !.here = FALSE]
    BY <1>31 DEF Reinstall, TypeInv, TypeOK, TokenOrNone
  <2>2. disk'.session = disk.session
    BY <2>1 DEF Token
  <2>3. SessionOf(disk)' \subseteq SessionOf(disk)
    BY <2>1, <2>2, DeviceAssumption DEF SessionOf
  <2> QED
    BY <1>31, <2>3 DEF Reinstall, Queued
<1>32. ASSUME NEW u \in Sessions, LoginIssues(u)
      PROVE  Holds(s)
  BY <1>32 DEF LoginIssues, Queued
<1>33. ASSUME NEW u \in Sessions, LogoutArrives(u)
      PROVE  Holds(s)
  BY <1>33 DEF LogoutArrives, Queued
<1>34. ASSUME NEW u \in Sessions, LogoutLost(u)
      PROVE  Holds(s)
  BY <1>34 DEF LogoutLost, Queued
<1>35. ASSUME NEW u \in Sessions, Revoke(u)
      PROVE  Holds(s)
  BY <1>35 DEF Revoke, Queued
<1>36. ASSUME NEW u \in Sessions, GraceEnds(u)
      PROVE  Holds(s)
  BY <1>36 DEF GraceEnds, Queued
<1>37. ASSUME NEW u \in Sessions, NEW b \in BOOLEAN, SetUsable(u, b)
      PROVE  Holds(s)
  BY <1>37 DEF SetUsable, Queued
<1>38. ASSUME NEW w \in {"reauth", "delete"}, Ask(w)
      PROVE  Holds(s)
  BY <1>38 DEF Ask, Queued
<1>39. CASE UNCHANGED vars
  BY <1>39 DEF vars, Queued
<1> QED
  BY <1>1, <1>2, <1>3, <1>4, <1>5, <1>6, <1>7, <1>8, <1>9, <1>10,
     <1>11, <1>12, <1>13, <1>14, <1>15, <1>16, <1>17, <1>18, <1>19,
     <1>20, <1>21, <1>22, <1>23, <1>24, <1>25, <1>26, <1>27, <1>28,
     <1>29, <1>30, <1>31, <1>32, <1>33, <1>34, <1>35, <1>36, <1>37,
     <1>38, <1>39
  DEF Next, Restore, Refresh, Storage, Network, User, World

LEMMA LoginsStep ==
    ASSUME TypeInv, AnswerIsRenewal, LoginsAreNew, [Next]_vars
    PROVE  LoginsAreNew'
<1>1. signIn.pc # "idle" => signIn.token \in Token /\ signIn.token.session \in Sessions
  BY DEF TypeInv, TypeOK, Token
<1>2. RowsGoOn
  BY RowsStep
<1>3. signedOutOf' \subseteq signedOutOf \union SessionOf(stored) /\ signedOutOf' \subseteq Sessions
  <2>1. CASE SignOut
    BY <2>1, TypeStep DEF SignOut, TypeInv, TypeOK
  <2>2. CASE ~ SignOut
    <3>1. UNCHANGED signedOutOf
      BY <2>2
      DEF Next, Restore, Refresh, Storage, Network, User, World, RestoreReads,
          RestoreCannotRead, RestoreOvertaken, RestoreNothing, RestoreSession, RefreshAsks,
          RefreshHasNothing, RefreshAccepted, RefreshUnwanted, RefreshRefused, RefreshWritten,
          SignInWritten, SignInNotWritten, Forgotten, ServerRotates, RefreshUnanswered,
          RefreshTimesOut, LateArrives, LoginLost, LogoutArrives, LogoutLost, RetryRestore,
          SkipRestore, RefreshStart, SignOutEnds, Ask, Answered, AccountDeleted, StepUpReauth,
          DismissEndedNotice, SignInReceives, LoginIssues, Kill, Reinstall, Revoke, GraceEnds,
          SetUsable, vars
    <3> QED
      BY <3>1 DEF TypeInv, TypeOK
  <2> QED
    BY <2>1, <2>2
<1>4. \A s \in Sessions : Holds(s)' \/ s \in signedOutOf' => sessions'[s].state # "unused"
  BY <1>1, <1>2, <1>3, HoldsStep DEF LoginsAreNew, RowsGoOn, Holds
<1>5. ASSUME NEW s \in Sessions, LoginIssues(s)
      PROVE  LoginsAreNew'
  <2>1. /\ signIn.pc = "idle" /\ sessions[s] = Unused /\ UNCHANGED signedOutOf
        /\ sessions' = [sessions EXCEPT ![s] = Issued]
        /\ signIn' = [SignInIdle EXCEPT !.pc = "issued",
                          !.token = [session |-> s, secret |-> 1, here |-> TRUE]]
    BY <1>5 DEF LoginIssues
  <2>2. signIn'.token.session = s
    BY <2>1 DEF SignInIdle
  <2>3. sessions'[s].state # "unused" /\ sessions[s].state = "unused"
    BY <2>1 DEF Issued, Unused, Row, TypeInv, TypeOK
  <2>4. ~ Holds(s)' /\ s \notin signedOutOf'
    BY <2>1, <2>3, HoldsStep DEF LoginsAreNew
  <2> QED
    BY <1>4, <2>2, <2>3, <2>4 DEF LoginsAreNew
<1>6. ASSUME signIn'.pc = "issued", \A s \in Sessions : ~ LoginIssues(s)
      PROVE  UNCHANGED signIn
  BY <1>6, CallsTyped
  DEF Next, Restore, Refresh, Storage, Network, User, World, RestoreReads,
      RestoreCannotRead, RestoreOvertaken, RestoreNothing, RestoreSession, RefreshAsks,
      RefreshHasNothing, RefreshAccepted, RefreshUnwanted, RefreshRefused, RefreshWritten,
      SignInWritten, SignInNotWritten, Forgotten, ServerRotates, RefreshUnanswered,
      RefreshTimesOut, LateArrives, LoginLost, LogoutArrives, LogoutLost, RetryRestore,
      SkipRestore, RefreshStart, SignOut, SignOutEnds, Ask, Answered, AccountDeleted,
      StepUpReauth, DismissEndedNotice, SignInReceives, Kill, Reinstall, Revoke, GraceEnds,
      SetUsable, vars, TypeInv, TypeOK, SignInType
<1>7. CASE \A s \in Sessions : ~ LoginIssues(s)
  <2> SUFFICES ASSUME signIn'.pc = "issued"
               PROVE  /\ sessions'[signIn'.token.session].state # "unused"
                      /\ ~ Holds(signIn.token.session)'
                      /\ signIn'.token.session \notin signedOutOf'
    BY <1>4 DEF LoginsAreNew
  <2>1. PICK s \in Sessions : s = signIn.token.session
    BY <1>1, <1>6, <1>7
  <2>2. UNCHANGED signIn
    BY <1>6, <1>7
  <2>3. ~ Holds(s) /\ s \notin signedOutOf /\ sessions[s].state # "unused"
    BY <2>1, <2>2 DEF LoginsAreNew
  <2>4. ~ Holds(s)' /\ s \notin signedOutOf' /\ sessions'[s].state # "unused"
    BY <1>2, <1>3, <2>2, <2>3, HoldsStep DEF RowsGoOn, Holds
  <2> QED
    BY <2>1, <2>2, <2>4
<1> QED
  BY <1>5, <1>7

LEMMA CallsStep ==
    ASSUME TypeInv, CallsInv, [Next]_vars
    PROVE  CallsInv'
BY AloneStep, LoginsStep DEF CallsInv

-----------------------------------------------------------------------------
(* What the phone tells the user. A refusal means the session is over, as  *)
(* long as no user is disabled and enabled again between the refusal and   *)
(* its arrival, and no screen demands a new sign-in from a session the     *)
(* server would serve.                                                     *)

OnlyEndsRefuse == "pause" \notin Faults /\ "reauth" \notin Faults

LiveIsUsable == \A s \in Sessions : Live(s) => sessions[s].usable

RefusedIsGone == refresh.pc = "refused" => ~ Live(refresh.token.session)

RefusedInv == LiveIsUsable /\ RefusedIsGone /\ pending # "reauth"

LEMMA RefusedInit == Init => RefusedInv
BY DEF Init, RefusedInv, LiveIsUsable, RefusedIsGone, Live, Unused, Row, RefreshIdle

(* A session lives only if it did, or begins.                              *)
LEMMA LivesOn ==
    ASSUME TypeInv, "pause" \notin Faults, [Next]_vars, NEW s \in Sessions, Live(s)'
    PROVE  /\ Live(s) \/ (LoginIssues(s) /\ sessions[s].state = "unused")
           /\ sessions'[s].usable \/ (Live(s) /\ ~ sessions[s].usable)
<1> DEFINE Goes == /\ Live(s) \/ (LoginIssues(s) /\ sessions[s].state = "unused")
                   /\ sessions'[s].usable \/ (Live(s) /\ ~ sessions[s].usable)
<1>0. sessions \in [Sessions -> RowType] /\ sessions[s] \in RowType
  BY DEF TypeInv, TypeOK
<1>1. ASSUME NEW t \in Token, Rotate(t) PROVE Goes
  <2>1. t.session \in Sessions /\ Gone.state = "gone"
    BY DEF Token, Gone, Row
  <2>2. Renews(t) => Live(t.session) /\ sessions[t.session].usable /\ Renewed(t).usable
    BY <1>0, <2>1 DEF Renews, Renewed, Row, RowType
  <2> QED
    BY <1>0, <1>1, <2>1, <2>2 DEF Rotate, Live
<1>2. CASE ServerRotates
  BY <1>1, <1>2 DEF ServerRotates, TypeInv, TypeOK, Presenting
<1>3. CASE LateArrives
  BY <1>1, <1>3 DEF LateArrives, TypeInv, TypeOK, TokenOrNone
<1>4. ASSUME NEW u \in Sessions, LogoutArrives(u) \/ Revoke(u)
      PROVE  Goes
  <2>1. Gone.state = "gone"
    BY DEF Gone, Row
  <2> QED
    BY <1>0, <1>4, <2>1 DEF LogoutArrives, Revoke, Live
<1>5. ASSUME NEW u \in Sessions, LoginIssues(u) PROVE Goes
  <2>1. Issued.usable /\ Unused.state = "unused"
    BY DEF Issued, Unused, Row
  <2> QED
    BY <1>0, <1>5, <2>1 DEF LoginIssues, Live
<1>6. ASSUME NEW u \in Sessions, GraceEnds(u) PROVE Goes
  BY <1>0, <1>6 DEF GraceEnds, RowType, Live
<1>7. CASE UNCHANGED sessions
  BY <1>7, <1>0 DEF Live
<1>8. CASE Restore \/ Refresh \/ Storage \/ UNCHANGED vars
  BY <1>7, <1>8
  DEF Restore, Refresh, Storage, RestoreReads, RestoreCannotRead, RestoreOvertaken,
      RestoreNothing, RestoreSession, RefreshAsks, RefreshHasNothing, RefreshAccepted,
      RefreshUnwanted, RefreshRefused, RefreshWritten, SignInWritten, SignInNotWritten,
      Forgotten, vars, serverVars
<1>9. CASE Network
  BY <1>2, <1>3, <1>4, <1>7, <1>9
  DEF Network, RefreshUnanswered, RefreshTimesOut, LoginLost, LogoutLost, serverVars
<1>10. CASE User
  BY <1>5, <1>7, <1>10
  DEF User, RetryRestore, SkipRestore, RefreshStart, SignOut, SignOutEnds, Ask, Answered,
      AccountDeleted, StepUpReauth, DismissEndedNotice, SignInReceives, serverVars
<1>11. CASE World
  BY <1>4, <1>6, <1>7, <1>11 DEF World, Kill, Reinstall, SetUsable, serverVars
<1> QED
  BY <1>8, <1>9, <1>10, <1>11 DEF Next

(* Only the answer of the server turns a refresh into a refused one.       *)
LEMMA RefusedFrom ==
    ASSUME TypeInv, [Next]_vars, refresh'.pc = "refused"
    PROVE  /\ refresh'.token = refresh.token
           /\ (ServerRotates /\ ~ Renews(refresh.token)) \/ refresh.pc = "refused"
<1> DEFINE Turns ==
             /\ refresh'.token = refresh.token
             /\ (ServerRotates /\ ~ Renews(refresh.token)) \/ refresh.pc = "refused"
<1> USE CallsTyped, CallsFollow, StaleCalls
<1>1. CASE RestoreReads
  BY <1>1 DEF RestoreReads
<1>2. CASE RestoreCannotRead
  BY <1>2 DEF RestoreCannotRead
<1>3. CASE RestoreOvertaken
  BY <1>3 DEF RestoreOvertaken
<1>4. CASE RestoreNothing
  BY <1>4 DEF RestoreNothing
<1>5. CASE RestoreSession
  BY <1>5 DEF RestoreSession
<1>6. CASE RetryRestore
  BY <1>6 DEF RetryRestore
<1>7. CASE SkipRestore
  BY <1>7 DEF SkipRestore
<1>8. CASE RefreshStart
  BY <1>8 DEF RefreshStart
<1>9. CASE RefreshAsks
  BY <1>9 DEF RefreshAsks, TypeInv, TypeOK, RefreshType
<1>10. CASE RefreshHasNothing
  BY <1>10 DEF RefreshHasNothing
<1>11. CASE ServerRotates
  BY <1>11 DEF ServerRotates, TypeInv, TypeOK, RefreshType
<1>12. CASE RefreshUnanswered
  BY <1>12 DEF RefreshUnanswered
<1>13. CASE RefreshTimesOut
  BY <1>13 DEF RefreshTimesOut
<1>14. CASE LateArrives
  BY <1>14 DEF LateArrives
<1>15. CASE RefreshAccepted
  BY <1>15 DEF RefreshAccepted, TypeInv, TypeOK, RefreshType
<1>16. CASE RefreshUnwanted
  BY <1>16 DEF RefreshUnwanted
<1>17. CASE RefreshRefused
  BY <1>17 DEF RefreshRefused
<1>18. CASE LoginLost
  BY <1>18 DEF LoginLost
<1>19. CASE SignInReceives
  BY <1>19 DEF SignInReceives
<1>20. CASE RefreshWritten
  BY <1>20 DEF RefreshWritten
<1>21. CASE SignInWritten
  BY <1>21 DEF SignInWritten
<1>22. CASE SignInNotWritten
  BY <1>22 DEF SignInNotWritten
<1>23. CASE Forgotten
  BY <1>23 DEF Forgotten
<1>24. CASE SignOut
  BY <1>24 DEF SignOut
<1>25. CASE SignOutEnds
  BY <1>25 DEF SignOutEnds
<1>26. CASE Answered
  BY <1>26 DEF Answered
<1>27. CASE AccountDeleted
  BY <1>27 DEF AccountDeleted
<1>28. CASE StepUpReauth
  BY <1>28 DEF StepUpReauth
<1>29. CASE DismissEndedNotice
  BY <1>29 DEF DismissEndedNotice
<1>30. CASE Kill
  BY <1>30 DEF Kill
<1>31. CASE Reinstall
  BY <1>31 DEF Reinstall
<1>32. ASSUME NEW s \in Sessions, LoginIssues(s)
      PROVE  Turns
  BY <1>32 DEF LoginIssues
<1>33. ASSUME NEW s \in Sessions, LogoutArrives(s)
      PROVE  Turns
  BY <1>33 DEF LogoutArrives
<1>34. ASSUME NEW s \in Sessions, LogoutLost(s)
      PROVE  Turns
  BY <1>34 DEF LogoutLost
<1>35. ASSUME NEW s \in Sessions, Revoke(s)
      PROVE  Turns
  BY <1>35 DEF Revoke
<1>36. ASSUME NEW s \in Sessions, GraceEnds(s)
      PROVE  Turns
  BY <1>36 DEF GraceEnds
<1>37. ASSUME NEW s \in Sessions, NEW b \in BOOLEAN, SetUsable(s, b)
      PROVE  Turns
  BY <1>37 DEF SetUsable
<1>38. ASSUME NEW w \in {"reauth", "delete"}, Ask(w)
      PROVE  Turns
  BY <1>38 DEF Ask
<1>39. CASE UNCHANGED vars
  BY <1>39 DEF vars
<1> QED
  BY <1>1, <1>2, <1>3, <1>4, <1>5, <1>6, <1>7, <1>8, <1>9, <1>10,
     <1>11, <1>12, <1>13, <1>14, <1>15, <1>16, <1>17, <1>18, <1>19,
     <1>20, <1>21, <1>22, <1>23, <1>24, <1>25, <1>26, <1>27, <1>28,
     <1>29, <1>30, <1>31, <1>32, <1>33, <1>34, <1>35, <1>36, <1>37,
     <1>38, <1>39
  DEF Next, Restore, Refresh, Storage, Network, User, World

LEMMA RefusedStep ==
    ASSUME OnlyEndsRefuse, TypeInv, CallsInv, RefusedInv, [Next]_vars
    PROVE  RefusedInv'
<1>1. LiveIsUsable'
  BY LivesOn DEF OnlyEndsRefuse, RefusedInv, LiveIsUsable, Live
<1>2. RefusedIsGone'
  <2> SUFFICES ASSUME refresh'.pc = "refused" PROVE ~ Live(refresh.token.session)'
    BY DEF RefusedIsGone
  <2>1. /\ refresh'.token = refresh.token
        /\ (ServerRotates /\ ~ Renews(refresh.token)) \/ refresh.pc = "refused"
    BY RefusedFrom
  <2>2. refresh.token \in Token
    BY <2>1 DEF ServerRotates, TypeInv, TypeOK, Presenting
  <2>3. PICK s \in Sessions : s = refresh.token.session
    BY <2>2 DEF Token
  <2>4. s \in SessionOf(refresh.token)
    BY <2>2, <2>3, DeviceAssumption DEF SessionOf
  <2>5. sessions[s].state # "unused"
    BY <2>4 DEF CallsInv, LoginsAreNew, Holds
  <2>6. CASE refresh.pc = "refused"
    BY <2>1, <2>3, <2>5, <2>6, LivesOn DEF OnlyEndsRefuse, RefusedInv, RefusedIsGone, Live
  <2>7. CASE ServerRotates /\ ~ Renews(refresh.token)
    <3>1. CASE Live(s)
      <4>1. sessions'[s] = Gone
        BY <2>2, <2>3, <2>7, <3>1
        DEF ServerRotates, Rotate, Renews, RefusedInv, LiveIsUsable, TypeInv, TypeOK
      <4> QED
        BY <2>1, <2>3, <4>1 DEF Live, Gone, Row
    <3>2. CASE ~ Live(s)
      BY <2>1, <2>3, <2>5, <3>2, LivesOn DEF OnlyEndsRefuse, Live
    <3> QED
      BY <3>1, <3>2
  <2> QED
    BY <2>1, <2>6, <2>7
<1>3. pending' # "reauth"
  BY DEF OnlyEndsRefuse, RefusedInv, Next, Restore, Refresh, Storage, Network, User, World,
      RestoreReads, RestoreCannotRead, RestoreOvertaken, RestoreNothing, RestoreSession,
      RefreshAsks, RefreshHasNothing, RefreshAccepted, RefreshUnwanted, RefreshRefused,
      RefreshWritten, SignInWritten, SignInNotWritten, Forgotten, ServerRotates,
      RefreshUnanswered, RefreshTimesOut, LateArrives, LoginLost, LogoutArrives, LogoutLost,
      RetryRestore, SkipRestore, RefreshStart, SignOut, SignOutEnds, Ask, Answered,
      AccountDeleted, StepUpReauth, DismissEndedNotice, SignInReceives, LoginIssues, Kill,
      Reinstall, Revoke, GraceEnds, SetUsable, vars
<1> QED
  BY <1>1, <1>2, <1>3 DEF RefusedInv

LEMMA ToldStep ==
    ASSUME OnlyEndsRefuse, TypeInv, CallsInv, RefusedInv, [Next]_vars,
           stored # None, notice', ~ notice
    PROVE  ~ Serves(stored.session)
<1>1. CASE RefreshRefused
  <2>1. refresh.pc = "refused" /\ refresh.fresh
    BY <1>1 DEF RefreshRefused, stateVars
  <2>2. stored = refresh.token
    BY <2>1 DEF CallsInv, FreshIsStored, Presenting
  <2> QED
    BY <2>1, <2>2 DEF RefusedInv, RefusedIsGone, Serves
<1>2. CASE ~ RefreshRefused
  BY <1>2
  DEF RefusedInv, Next, Restore, Refresh, Storage, Network, User, World, EndSession,
      ClearIfSame, stateVars, RestoreReads, RestoreCannotRead, RestoreOvertaken,
      RestoreNothing, RestoreSession, RefreshAsks, RefreshHasNothing, RefreshAccepted,
      RefreshUnwanted, RefreshWritten, SignInWritten, SignInNotWritten, Forgotten,
      ServerRotates, RefreshUnanswered, RefreshTimesOut, LateArrives, LoginLost,
      LogoutArrives, LogoutLost, RetryRestore, SkipRestore, RefreshStart, SignOut,
      SignOutEnds, Ask, Answered, AccountDeleted, StepUpReauth, DismissEndedNotice,
      SignInReceives, LoginIssues, Kill, Reinstall, Revoke, GraceEnds, SetUsable, vars
<1> QED
  BY <1>1, <1>2

(* However answers are lost, late or repeated, and wherever the app is     *)
(* killed or signed in over: the phone says "you've been signed out" and   *)
(* drops a session only when the server won't serve that session any more. *)
(* Disabled users and demands for a new sign-in are the exceptions.        *)
THEOREM ToldTheTruth ==
    ASSUME OnlyEndsRefuse
    PROVE  Spec => ToldOnlyIfEnded
<1> DEFINE TruthInv == TypeInv /\ CallsInv /\ RefusedInv
<1>1. Init => TruthInv
  BY TypeInit, CallsInit, RefusedInit
<1>2. TruthInv /\ [Next]_vars => TruthInv'
  BY TypeStep, CallsStep, RefusedStep
<1>3. TruthInv /\ [Next]_vars =>
        [stored # None /\ notice' /\ ~ notice => ~ Serves(stored.session)]_vars
  BY ToldStep
<1> QED
  BY <1>1, <1>2, <1>3, PTL DEF Spec, ToldOnlyIfEnded

-----------------------------------------------------------------------------
(* A session signed out of stays out. Signing out tells storage to forget  *)
(* the session; what is in storage or on its way there then stays the one  *)
(* signed out of until that call lands, so the invariant follows the calls *)
(* in the queue.                                                           *)

(* Secure storage deletes what it is told to, and the app isn't stopped    *)
(* before it has.                                                          *)
Forgetting == "kill" \notin Faults /\ "deleteFails" \notin Faults

IsOut(t) == t # None /\ t.session \in signedOutOf

OutIsForgotten ==
    /\ IsOut(disk) => \E j \in 1..Len(queue) : queue[j] = Forget
    /\ \A i \in 1..Len(queue) : IsOut(queue[i].value) =>
          \E j \in 1..Len(queue) : i < j /\ queue[j] = Forget

(* What the phone holds, and the refresh that may still change it, is no   *)
(* session signed out of; and none is found by a restore().                *)
OutInv ==
    /\ signedOutOf # {} => ~ Reads /\ status # "unreadable"
    /\ ~ IsOut(stored)
    /\ refresh.pc \in Presenting /\ refresh.fresh => ~ IsOut(refresh.token)
    /\ OutIsForgotten

LEMMA OutInit == Init => OutInv
<1> SUFFICES ASSUME Init PROVE OutInv
  OBVIOUS
<1>1. signedOutOf = {} /\ queue = <<>>
  BY DEF Init
<1> QED
  BY <1>1 DEF OutInv, OutIsForgotten, IsOut

LEMMA OutLast ==
    ASSUME queue' \in Seq(OpType), queue' # <<>>, queue'[Len(queue')] = Forget
    PROVE  OutIsForgotten'
<1>1. Len(queue') \in 1..Len(queue') /\ Len(queue') \in Nat
  OBVIOUS
<1>2. ~ IsOut(Forget.value)'
  BY DEF IsOut, Forget, Op
<1>3. \A i \in 1..Len(queue') : IsOut(queue[i].value)' => i < Len(queue')
  BY <1>1, <1>2 DEF IsOut
<1> QED
  BY <1>1, <1>3 DEF OutIsForgotten

LEMMA OutEnqueue ==
    ASSUME TypeInv, OutIsForgotten, NEW op \in OpType, queue' = Enqueue(op),
           disk' = disk, signedOutOf' = signedOutOf, ~ IsOut(op.value)
    PROVE  OutIsForgotten'
<1>1. /\ Len(queue') = Len(queue) + 1 /\ Len(queue) \in Nat
      /\ \A i \in 1..Len(queue') : queue'[i] = IF i \in 1..Len(queue) THEN queue[i] ELSE op
  BY EnqueueKeeps DEF TypeInv, TypeOK
<1>2. \A j \in 1..Len(queue) : j \in 1..Len(queue') /\ queue'[j] = queue[j]
  BY <1>1
<1>3. \A i \in 1..Len(queue') : IsOut(queue[i].value)' =>
          i \in 1..Len(queue) /\ IsOut(queue[i].value)
  BY <1>1 DEF IsOut
<1> QED
  BY <1>2, <1>3 DEF OutIsForgotten, IsOut

LEMMA OutForget ==
    ASSUME TypeInv, OutIsForgotten, queue' = Enqueue(Forget) \/ UNCHANGED queue,
           disk' = disk, signedOutOf' = signedOutOf
    PROVE  OutIsForgotten'
<1>1. ~ IsOut(Forget.value)
  BY DEF IsOut, Forget, Op
<1>2. CASE queue' = Enqueue(Forget)
  BY <1>1, <1>2, OpTyped, OutEnqueue
<1>3. CASE UNCHANGED queue
  BY <1>3 DEF OutIsForgotten, IsOut
<1> QED
  BY <1>2, <1>3

LEMMA OutPop ==
    ASSUME TypeInv, OutIsForgotten, queue # <<>>, queue' = Tail(queue),
           signedOutOf' = signedOutOf,
           disk' = Head(queue).value \/ (disk' = disk /\ Head(queue).owner # "forget")
    PROVE  OutIsForgotten'
<1>1. /\ Len(queue') = Len(queue) - 1 /\ Len(queue) \in Nat
      /\ Head(queue) = queue[1] /\ 1 \in 1..Len(queue)
      /\ \A i \in 1..Len(queue') : queue'[i] = queue[i + 1] /\ i + 1 \in 1..Len(queue)
  BY TailKeeps DEF TypeInv, TypeOK
<1>2. \A j \in 1..Len(queue) : 1 < j => j - 1 \in 1..Len(queue') /\ queue'[j - 1] = queue[j]
  BY <1>1
<1>3. IsOut(disk)' => \E j \in 1..Len(queue) : 1 < j /\ queue[j] = Forget
  <2>1. CASE disk' = Head(queue).value
    BY <1>1, <2>1 DEF OutIsForgotten, IsOut
  <2>2. CASE disk' = disk /\ Head(queue).owner # "forget"
    <3>1. queue[1] # Forget
      BY <1>1, <2>2 DEF Forget, Op
    <3>2. IsOut(disk)' => \E j \in 1..Len(queue) : queue[j] = Forget
      BY <2>2 DEF OutIsForgotten, IsOut
    <3> QED
      BY <1>1, <3>1, <3>2
  <2> QED
    BY <2>1, <2>2
<1>4. IsOut(disk)' => \E j \in 1..Len(queue') : queue'[j] = Forget
  BY <1>2, <1>3
<1>5. ASSUME NEW i \in 1..Len(queue'), IsOut(queue[i].value)'
      PROVE  \E j \in 1..Len(queue') : i < j /\ queue'[j] = Forget
  <2>1. IsOut(queue[i + 1].value) /\ i + 1 \in 1..Len(queue)
    BY <1>1, <1>5 DEF IsOut
  <2>2. PICK j \in 1..Len(queue) : i + 1 < j /\ queue[j] = Forget
    BY <2>1 DEF OutIsForgotten
  <2>3. 1 < j /\ i < j - 1 /\ i \in Nat /\ j \in Nat
    BY <1>1, <2>2
  <2>4. j - 1 \in 1..Len(queue') /\ queue'[j - 1] = Forget
    BY <1>2, <2>2, <2>3
  <2> QED
    BY <2>3, <2>4
<1> QED
  BY <1>4, <1>5 DEF OutIsForgotten

LEMMA OutStep ==
    ASSUME Forgetting, TypeInv, CallsInv, OutInv, [Next]_vars
    PROVE  OutInv'
<1> USE CallsTyped, CallsFollow, StaleCalls
    DEF Forgetting, serverVars, netVars, stateVars, memVars, storageVars, Presenting, OutInv,
        Reads, IsOut
<1>1. CASE RestoreReads
  BY <1>1, OutForget DEF RestoreReads, TypeInv, TypeOK, RestoreType
<1>2. CASE RestoreCannotRead
  BY <1>2, OutForget DEF RestoreCannotRead
<1>3. CASE RestoreOvertaken
  BY <1>3, OutForget DEF RestoreOvertaken
<1>4. CASE RestoreNothing
  BY <1>4, OutForget DEF RestoreNothing
<1>5. CASE RestoreSession
  BY <1>5, OutForget DEF RestoreSession
<1>6. CASE RetryRestore
  BY <1>6, OutForget DEF RetryRestore
<1>7. CASE SkipRestore
  BY <1>7, OutForget DEF SkipRestore, Stale, TypeInv, TypeOK, RefreshType
<1>8. CASE RefreshStart
  BY <1>8, OutForget DEF RefreshStart
<1>9. CASE RefreshAsks
  BY <1>9, OutForget DEF RefreshAsks, TypeInv, TypeOK, RefreshType
<1>10. CASE RefreshHasNothing
  BY <1>10, OutForget DEF RefreshHasNothing, ClearIfSame, EndSession, ForgetIfStored
<1>11. CASE ServerRotates
  BY <1>11, OutForget DEF ServerRotates, TypeInv, TypeOK, RefreshType
<1>12. CASE RefreshUnanswered
  BY <1>12, OutForget DEF RefreshUnanswered
<1>13. CASE RefreshTimesOut
  BY <1>13, OutForget DEF RefreshTimesOut
<1>14. CASE LateArrives
  BY <1>14, OutForget DEF LateArrives
<1>15. CASE RefreshAccepted
  <2>1. Op("refresh", refresh.answer) \in OpType
        /\ Op("refresh", refresh.answer).value = refresh.answer
    BY <1>15, OpTyped DEF RefreshAccepted, TypeInv, TypeOK, Op
  <2>2. ~ IsOut(refresh.answer)
    BY <1>15, DeviceAssumption DEF RefreshAccepted, CallsInv, AnswerIsRenewal, TypeInv, TypeOK
  <2>3. OutIsForgotten'
    BY <1>15, <2>1, <2>2, OutEnqueue DEF RefreshAccepted
  <2>4. refresh'.token = refresh.token /\ refresh'.fresh = refresh.fresh
    BY <1>15 DEF RefreshAccepted, TypeInv, TypeOK, RefreshType
  <2> QED
    BY <1>15, <2>2, <2>3, <2>4 DEF RefreshAccepted
<1>16. CASE RefreshUnwanted
  BY <1>16, OutForget DEF RefreshUnwanted
<1>17. CASE RefreshRefused
  BY <1>17, OutForget DEF RefreshRefused, ClearIfSame, EndSession, ForgetIfStored
<1>18. CASE LoginLost
  BY <1>18, OutForget DEF LoginLost
<1>19. CASE SignInReceives
  <2>1. Op("signIn", signIn.token) \in OpType
        /\ Op("signIn", signIn.token).value = signIn.token
    BY <1>19, OpTyped DEF SignInReceives, TypeInv, TypeOK, Op
  <2>2. ~ IsOut(signIn.token)
    BY <1>19 DEF SignInReceives, CallsInv, LoginsAreNew
  <2>3. OutIsForgotten'
    BY <1>19, <2>1, <2>2, OutEnqueue DEF SignInReceives
  <2>4. ~ refresh'.fresh
    BY <1>19 DEF SignInReceives, Stale, TypeInv, TypeOK, RefreshType
  <2> QED
    BY <1>19, <2>2, <2>3, <2>4 DEF SignInReceives
<1>20. CASE RefreshWritten
  <2>1. OutIsForgotten'
    BY <1>20, OutPop DEF RefreshWritten, Lands, Fails
  <2> QED
    BY <1>20, <2>1 DEF RefreshWritten
<1>21. CASE SignInWritten
  <2>1. OutIsForgotten'
    BY <1>21, OutPop DEF SignInWritten, Lands, Fails
  <2> QED
    BY <1>21, <2>1 DEF SignInWritten
<1>22. CASE SignInNotWritten
  <2> DEFINE tail == Tail(queue)
  <2>1. tail \in Seq(OpType) /\ Len(tail) \in Nat
    BY <1>22, TailKeeps DEF SignInNotWritten, Fails, TypeInv, TypeOK
  <2>2. queue' = tail \/ queue' = Append(tail, Forget)
    BY <1>22 DEF SignInNotWritten
  <2>3. queue' = tail => OutIsForgotten'
    BY <1>22, OutPop DEF SignInNotWritten, Fails
  <2> HIDE DEF tail
  <2>4. queue' = Append(tail, Forget) => OutIsForgotten'
    BY <2>1, OpTyped, OutLast
  <2>5. ~ refresh'.fresh
    BY <1>22 DEF SignInNotWritten, Stale, TypeInv, TypeOK, RefreshType
  <2>6. status' = status \/ status' = "signedOut"
    BY <1>22 DEF SignInNotWritten
  <2> QED
    BY <1>22, <2>2, <2>3, <2>4, <2>5, <2>6 DEF SignInNotWritten
<1>23. CASE Forgotten
  <2>1. OutIsForgotten'
    BY <1>23, OutPop DEF Forgotten, Lands, Fails
  <2> QED
    BY <1>23, <2>1 DEF Forgotten
<1>24. CASE SignOut
  <2>1. OutIsForgotten'
    <3>1. CASE stored = None
      BY <1>24, <3>1, OutForget DEF SignOut, SessionOf, ForgetIfStored
    <3>2. CASE stored # None
      <4>1. queue' = Enqueue(Forget)
        BY <1>24, <3>2 DEF SignOut, ForgetIfStored
      <4>2. queue' \in Seq(OpType) /\ queue' # <<>> /\ queue'[Len(queue')] = Forget
        BY <4>1, OpTyped DEF Enqueue, TypeInv, TypeOK
      <4> QED
        BY <4>2, OutLast
    <3> QED
      BY <3>1, <3>2
  <2>2. ~ refresh'.fresh
    BY <1>24 DEF SignOut, Stale, TypeInv, TypeOK, RefreshType
  <2> QED
    BY <1>24, <2>1, <2>2 DEF SignOut
<1>25. CASE SignOutEnds
  BY <1>25, OutForget DEF SignOutEnds
<1>26. CASE Answered
  BY <1>26, OutForget DEF Answered
<1>27. CASE AccountDeleted
  BY <1>27, OutForget DEF AccountDeleted, ForgetIfStored, Stale, TypeInv, TypeOK, RefreshType
<1>28. CASE StepUpReauth
  BY <1>28, OutForget DEF StepUpReauth, EndSession, ForgetIfStored, Stale, TypeInv, TypeOK, RefreshType
<1>29. CASE DismissEndedNotice
  BY <1>29, OutForget DEF DismissEndedNotice
<1>30. CASE Kill
  BY <1>30 DEF Kill
<1>31. CASE Reinstall
  <2>1. signedOutOf' = {}
    BY <1>31 DEF Reinstall, RestoreReading
  <2> QED
    BY <1>31, <2>1 DEF Reinstall, OutIsForgotten
<1>32. ASSUME NEW s \in Sessions, LoginIssues(s)
      PROVE  OutInv'
  BY <1>32, OutForget DEF LoginIssues
<1>33. ASSUME NEW s \in Sessions, LogoutArrives(s)
      PROVE  OutInv'
  BY <1>33, OutForget DEF LogoutArrives
<1>34. ASSUME NEW s \in Sessions, LogoutLost(s)
      PROVE  OutInv'
  BY <1>34, OutForget DEF LogoutLost
<1>35. ASSUME NEW s \in Sessions, Revoke(s)
      PROVE  OutInv'
  BY <1>35, OutForget DEF Revoke
<1>36. ASSUME NEW s \in Sessions, GraceEnds(s)
      PROVE  OutInv'
  BY <1>36, OutForget DEF GraceEnds
<1>37. ASSUME NEW s \in Sessions, NEW b \in BOOLEAN, SetUsable(s, b)
      PROVE  OutInv'
  BY <1>37, OutForget DEF SetUsable
<1>38. ASSUME NEW w \in {"reauth", "delete"}, Ask(w)
      PROVE  OutInv'
  BY <1>38, OutForget DEF Ask
<1>39. CASE UNCHANGED vars
  BY <1>39, OutForget DEF vars
<1> QED
  BY <1>1, <1>2, <1>3, <1>4, <1>5, <1>6, <1>7, <1>8, <1>9, <1>10,
     <1>11, <1>12, <1>13, <1>14, <1>15, <1>16, <1>17, <1>18, <1>19,
     <1>20, <1>21, <1>22, <1>23, <1>24, <1>25, <1>26, <1>27, <1>28,
     <1>29, <1>30, <1>31, <1>32, <1>33, <1>34, <1>35, <1>36, <1>37,
     <1>38, <1>39
  DEF Next, Restore, Refresh, Storage, Network, User, World

(* Once the user has signed out of a session, no answer that was still on  *)
(* its way, no write made before and no later sign-in puts that session    *)
(* back: it is not in secure storage, nor will be when every call has      *)
(* landed. A phone that stops before it has deleted the session, and       *)
(* deletes that fail, are the exceptions.                                  *)
THEOREM SignedOutIsForgotten ==
    ASSUME Forgetting
    PROVE  Spec => []SignedOutStaysOut
<1> DEFINE ForgottenInv == TypeInv /\ CallsInv /\ OutInv
<1>1. Init => ForgottenInv
  BY TypeInit, CallsInit, OutInit
<1>2. ForgottenInv /\ [Next]_vars => ForgottenInv'
  BY TypeStep, CallsStep, OutStep
<1>3. ForgottenInv => SignedOutStaysOut
  <2> SUFFICES ASSUME ForgottenInv PROVE ~ IsOut(Landed)
    BY DEF SignedOutStaysOut, SessionOf, IsOut
  <2>1. CASE queue = <<>>
    BY <2>1 DEF Landed, OutInv, OutIsForgotten
  <2>2. CASE queue # <<>>
    <3>1. Len(queue) \in 1..Len(queue) /\ Len(queue) \in Nat
      BY <2>2 DEF TypeInv, TypeOK
    <3> QED
      BY <2>2, <3>1 DEF Landed, OutInv, OutIsForgotten
  <2> QED
    BY <2>1, <2>2
<1> QED
  BY <1>1, <1>2, <1>3, PTL DEF Spec

-----------------------------------------------------------------------------
(* No session is left behind at the server. While the app runs, a session  *)
(* leaves the phone's memory in three ways: the server refused it, and it  *)
(* is gone; or the user signed out or signed in over it, and its logout is *)
(* on its way.                                                             *)

(* No message that ends or begins a session is lost, the app isn't stopped *)
(* with one in hand, nobody else's answer drops the phone's session, no    *)
(* user is disabled for a while, and no link opens the sign-in screen over *)
(* a session that can't be read.                                           *)
EveryEndIsTold ==
    /\ Faults \intersect {"kill", "logoutLost", "loginLost", "pause", "reauth", "delete"} = {}
    /\ ~ ({"link", "unreadable"} \subseteq Faults)

(* Where a session the server keeps is known.                              *)
Accounted(s) ==
    \/ s \in logouts \union SessionOf(stored)
    \/ signIn.pc = "issued" /\ signIn.token.session = s

LeftInv ==
    /\ Reads \/ status = "unreadable" =>
          disk = None /\ queue = <<>> /\ stored = None /\ restore.found = None
    /\ "unreadable" \notin Faults => status # "unreadable"
    /\ "link" \notin Faults /\ signIn.pc # "idle" => ~ Reads /\ status # "unreadable"
    /\ "link" \notin Faults /\ Reads => status \in {"restoring", "unreadable"}
    /\ signOut = "fresh" => ~ Reads /\ status # "unreadable"
    /\ pending = "none"
    /\ signIn.pc = "writing" /\ stored # None => stored.session = signIn.token.session
    /\ \A s \in Sessions : Live(s) => Accounted(s)

LEMMA LeftInit == Init => LeftInv
BY DEF Init, LeftInv, Reads, Live, Unused, Row, RestoreReading, SignInIdle

LEMMA LeftStep ==
    ASSUME EveryEndIsTold, TypeInv, CallsInv, RefusedInv, LeftInv, [Next]_vars
    PROVE  LeftInv'
<1>0. ASSUME signIn'.pc # "issued" \/ UNCHANGED signIn, NEW s \in Sessions, Live(s)'
      PROVE  Live(s)
  <2>1. LoginIssues(s) => signIn.pc = "idle" /\ signIn'.pc = "issued"
    BY DEF LoginIssues, SignInIdle
  <2> QED
    BY <1>0, <2>1, LivesOn DEF EveryEndIsTold
<1> USE CallsTyped, CallsFollow, StaleCalls, <1>0
    DEF EveryEndIsTold, serverVars, netVars, stateVars, memVars, storageVars, LeftInv, Reads,
        Accounted
<1>1. CASE RestoreReads
  BY <1>1 DEF RestoreReads, TypeInv, TypeOK, RestoreType
<1>2. CASE RestoreCannotRead
  BY <1>2 DEF RestoreCannotRead, RestoreIdle
<1>3. CASE RestoreOvertaken
  BY <1>3, IdleCalls DEF RestoreOvertaken
<1>4. CASE RestoreNothing
  BY <1>4 DEF RestoreNothing
<1>5. CASE RestoreSession
  BY <1>5 DEF RestoreSession
<1>6. CASE RetryRestore
  BY <1>6 DEF RetryRestore, RestoreReading
<1>7. CASE SkipRestore
  BY <1>7 DEF SkipRestore
<1>8. CASE RefreshStart
  BY <1>8 DEF RefreshStart
<1>9. CASE RefreshAsks
  BY <1>9 DEF RefreshAsks
<1>10. CASE RefreshHasNothing
  BY <1>10 DEF RefreshHasNothing, ClearIfSame, EndSession, ForgetIfStored, SessionOf
<1>11. CASE ServerRotates
  BY <1>11 DEF ServerRotates
<1>12. CASE RefreshUnanswered
  BY <1>12 DEF RefreshUnanswered
<1>13. CASE RefreshTimesOut
  BY <1>13 DEF RefreshTimesOut
<1>14. CASE LateArrives
  BY <1>14 DEF LateArrives
<1>15. CASE RefreshAccepted
  <2>1. stored = refresh.token /\ refresh.token \in Token /\ refresh.answer \in Token
        /\ refresh.answer.session = refresh.token.session
    BY <1>15
    DEF RefreshAccepted, CallsInv, FreshIsStored, AnswerIsRenewal, Presenting, TypeInv, TypeOK
  <2>2. stored # None /\ SessionOf(stored)' = SessionOf(stored)
        /\ stored'.session = stored.session
    BY <1>15, <2>1, DeviceAssumption DEF RefreshAccepted, SessionOf
  <2> QED
    BY <1>15, <2>2 DEF RefreshAccepted
<1>16. CASE RefreshUnwanted
  BY <1>16 DEF RefreshUnwanted
<1>17. CASE RefreshRefused
  <2>1. CASE refresh.fresh /\ access = refresh.before
    <3>1. stored = refresh.token /\ refresh.token \in Token
      BY <1>17, <2>1 DEF RefreshRefused, CallsInv, FreshIsStored, Presenting, TypeInv, TypeOK
    <3>2. ~ Live(stored.session) /\ SessionOf(stored) = {stored.session}
      BY <1>17, <3>1, DeviceAssumption DEF RefreshRefused, RefusedInv, RefusedIsGone, SessionOf
    <3>3. status # "unreadable" /\ ~ Reads
      BY <3>1, DeviceAssumption
    <3> QED
      BY <1>17, <2>1, <3>2, <3>3 DEF RefreshRefused, ClearIfSame, EndSession
  <2>2. CASE ~ (refresh.fresh /\ access = refresh.before)
    BY <1>17, <2>2 DEF RefreshRefused, ClearIfSame
  <2> QED
    BY <2>1, <2>2
<1>18. CASE LoginLost
  BY <1>18 DEF LoginLost
<1>19. CASE SignInReceives
  <2>1. signIn.token \in Token /\ signIn.token # None
    BY <1>19, DeviceAssumption DEF SignInReceives, TypeInv, TypeOK
  <2>2. SessionOf(stored)' = {signIn.token.session}
    BY <1>19, <2>1 DEF SignInReceives, SessionOf
  <2>3. signIn'.pc = "writing" /\ signIn'.token = signIn.token
    BY <1>19 DEF SignInReceives, TypeInv, TypeOK, SignInType
  <2> QED
    BY <1>19, <2>1, <2>2, <2>3 DEF SignInReceives
<1>20. CASE RefreshWritten
  <2>1. queue # <<>>
    BY <1>20 DEF RefreshWritten, Lands, Fails
  <2> QED
    BY <1>20, <2>1 DEF RefreshWritten
<1>21. CASE SignInWritten
  <2>1. queue # <<>> /\ signIn.pc = "writing"
    BY <1>21, PopTyped DEF SignInWritten, Lands
  <2> QED
    BY <1>21, <2>1 DEF SignInWritten
<1>22. CASE SignInNotWritten
  <2>1. queue # <<>> /\ signIn.token \in Token
    BY <1>22, DropTyped DEF SignInNotWritten, Fails
  <2>2. signIn.pc = "writing"
    BY <1>22, TailKeeps DEF SignInNotWritten, Fails, TypeInv, TypeOK, SignInWaits
  <2>3. SessionOf(stored) \subseteq {signIn.token.session}
    BY <2>2 DEF SessionOf
  <2>4. status' = status \/ status' = "signedOut"
    BY <1>22 DEF SignInNotWritten
  <2> QED
    BY <1>22, <2>1, <2>2, <2>3, <2>4 DEF SignInNotWritten
<1>23. CASE Forgotten
  <2>1. queue # <<>>
    BY <1>23 DEF Forgotten, Lands, Fails
  <2> QED
    BY <1>23, <2>1 DEF Forgotten
<1>24. CASE SignOut
  BY <1>24 DEF SignOut
<1>25. CASE SignOutEnds
  BY <1>25 DEF SignOutEnds
<1>26. CASE Answered
  BY <1>26 DEF Answered
<1>27. CASE AccountDeleted
  BY <1>27 DEF AccountDeleted
<1>28. CASE StepUpReauth
  BY <1>28 DEF StepUpReauth
<1>29. CASE DismissEndedNotice
  BY <1>29 DEF DismissEndedNotice
<1>30. CASE Kill
  BY <1>30 DEF Kill
<1>31. CASE Reinstall
  BY <1>31 DEF Reinstall
<1>32. ASSUME NEW u \in Sessions, LoginIssues(u)
      PROVE  LeftInv'
  <2>1. \A s \in Sessions : Live(s)' => Live(s) \/ s = u
    BY <1>32 DEF LoginIssues, Live, TypeInv, TypeOK
  <2>2. signIn'.pc = "issued" /\ signIn'.token.session = u /\ signIn.pc = "idle"
    BY <1>32 DEF LoginIssues, SignInIdle
  <2>3. "link" \notin Faults => ~ Reads /\ status # "unreadable"
    BY <1>32 DEF LoginIssues
  <2> QED
    BY <1>32, <2>1, <2>2, <2>3 DEF LoginIssues
<1>33. ASSUME NEW u \in Sessions, LogoutArrives(u)
      PROVE  LeftInv'
  <2>1. ~ Live(u)'
    BY <1>33 DEF LogoutArrives, Live, Gone, Row, TypeInv, TypeOK
  <2> QED
    BY <1>33, <2>1 DEF LogoutArrives
<1>34. ASSUME NEW u \in Sessions, LogoutLost(u)
      PROVE  LeftInv'
  BY <1>34 DEF LogoutLost
<1>35. ASSUME NEW u \in Sessions, Revoke(u)
      PROVE  LeftInv'
  BY <1>35 DEF Revoke
<1>36. ASSUME NEW u \in Sessions, GraceEnds(u)
      PROVE  LeftInv'
  BY <1>36 DEF GraceEnds
<1>37. ASSUME NEW u \in Sessions, NEW b \in BOOLEAN, SetUsable(u, b)
      PROVE  LeftInv'
  BY <1>37 DEF SetUsable
<1>38. ASSUME NEW w \in {"reauth", "delete"}, Ask(w)
      PROVE  LeftInv'
  BY <1>38 DEF Ask
<1>39. CASE UNCHANGED vars
  BY <1>39 DEF vars
<1> QED
  BY <1>1, <1>2, <1>3, <1>4, <1>5, <1>6, <1>7, <1>8, <1>9, <1>10,
     <1>11, <1>12, <1>13, <1>14, <1>15, <1>16, <1>17, <1>18, <1>19,
     <1>20, <1>21, <1>22, <1>23, <1>24, <1>25, <1>26, <1>27, <1>28,
     <1>29, <1>30, <1>31, <1>32, <1>33, <1>34, <1>35, <1>36, <1>37,
     <1>38, <1>39
  DEF Next, Restore, Refresh, Storage, Network, User, World

(* While the app runs, every session the server keeps for this phone is    *)
(* the one it holds, one it is about to receive, or one whose logout is on *)
(* its way: whichever answers to refreshes are lost or late, whatever is   *)
(* revoked, signed in over or signed out of, and whichever storage calls   *)
(* fail. The exceptions are those of EveryEndIsTold.                       *)
THEOREM NothingLeftBehind ==
    ASSUME EveryEndIsTold
    PROVE  Spec => []NoSessionLeftBehind
<1> DEFINE BehindInv == TypeInv /\ CallsInv /\ RefusedInv /\ LeftInv
<1>1. Init => BehindInv
  BY TypeInit, CallsInit, RefusedInit, LeftInit
<1>2. BehindInv /\ [Next]_vars => BehindInv'
  BY TypeStep, CallsStep, RefusedStep, LeftStep DEF EveryEndIsTold, OnlyEndsRefuse
<1>3. BehindInv => NoSessionLeftBehind
  BY DEF LeftInv, NoSessionLeftBehind, Accounted
<1> QED
  BY <1>1, <1>2, <1>3, PTL DEF Spec

=============================================================================
